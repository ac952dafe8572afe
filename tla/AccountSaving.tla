---------------------------- MODULE AccountSaving ----------------------------
(***************************************************************************)
(* Saving the accounts: entering the summary page makes every page of the  *)
(* list save what it holds, in order, until one fails.                     *)
(* (gis-assistant.c, pages/account/gis-account-page-local.c,               *)
(* pages/password/gis-password-page.c, gis-parental-controls-page.c,       *)
(* gis-summary-page.c, gis-keyring.c)                                      *)
(*                                                                         *)
(* Every step is a call to a service that keeps what it did; the process   *)
(* may be killed between any two.  GDM starts the wizard again only when   *)
(* no account is there.  The pages are those page_table has with and       *)
(* without parental controls; PageList models which of them a rebuild      *)
(* really leaves.                                                          *)
(***************************************************************************)
EXTENDS Sequences, Naturals

CONSTANTS
  Passwords,  (* passwords that are not empty                              *)
  NoPassword, (* the empty password                                        *)
  Dummy,      (* DUMMY_PWD, the password of the keyring of the wizard      *)
  None        (* no password yet                                           *)

ASSUME PasswordsAssumption ==
  /\ NoPassword \notin Passwords /\ Dummy \notin Passwords \cup {NoPassword}
  /\ None \notin Passwords \cup {NoPassword, Dummy}

VARIABLES
  phase,           (* where the program is                                 *)
  todo,            (* the steps of save_data that are left                 *)
  failed,          (* a page could not be saved                            *)
  mode,            (* gis_driver_get_account_mode                          *)
  parental,        (* gis_driver_get_parental_controls_enabled             *)
  entered,         (* the password entered for the main user               *)
  entered_parent,  (* the password entered for the parent                  *)
  user,            (* driver->user_account is set                          *)
  user_password,   (* driver->user_password                                *)
  parent,          (* driver->parent_account is set                        *)
  main_type,       (* the type of the main user's account                  *)
  main_password,   (* his password, None while the account is locked       *)
  parent_type,     (* the type of the parent's account                     *)
  parent_password, (* its password, None while it is locked                *)
  at_login,        (* the parent sets the password when logging in         *)
  filtered,        (* an app filter is set for the main user               *)
  keyring,         (* the password of the login keyring                    *)
  gdm,             (* connect_to_gdm has its greeter and verifier          *)
  held,            (* the summary page's user_password                     *)
  sent,            (* the password that answered PAM                       *)
  lost             (* a call whose result nothing reads had no effect, or  *)
                   (* GDM or PAM did what the page has no answer to        *)

choices == <<mode, parental, entered, entered_parent>>
driver == <<user, user_password, parent>>
main == <<main_type, main_password>>
guardian == <<parent_type, parent_password, at_login>>
accounts == <<main, guardian>>
effects == <<filtered, keyring>>
login == <<gdm, held, sent>>

vars == <<phase, todo, failed, choices, driver, accounts, effects, login, lost>>

Texts == Passwords \cup {NoPassword}

Step == {"create parent", "parent at login", "keep parent", "create main",
         "keep main", "set password", "keep password", "update keyring",
         "filter apps", "set parent password", "domain keyring"}

(* Mistake: the main user is created first.                                *)
AccountStepsMainFirst(p) ==
  <<"create main", "keep main">>
    \o (IF p THEN <<"create parent", "parent at login", "keep parent">> ELSE <<>>)

(* local_create_user                                                       *)
AccountSteps(p) ==
  (IF p THEN <<"create parent", "parent at login", "keep parent">> ELSE <<>>)
    \o <<"create main", "keep main">>

(* gis_password_page_save_data of a local main user                        *)
PasswordSteps == <<"set password", "keep password", "update keyring">>

(* gis_assistant_save_data, over the pages of the list.  The domain user   *)
(* has been registered by the time the account page was left.              *)
SaveSteps(m, p) ==
  IF m = "enterprise"
  THEN <<"domain keyring">>
  ELSE AccountSteps(p) \o PasswordSteps
         \o (IF p THEN <<"filter apps", "set parent password">> ELSE <<>>)

Init ==
  /\ phase = "forms" /\ todo = <<>> /\ failed = FALSE /\ lost = FALSE
  /\ mode = "local" /\ parental = FALSE
  /\ entered = None /\ entered_parent = None
  /\ user = FALSE /\ user_password = None /\ parent = FALSE
  /\ main_type = "none" /\ main_password = None
  /\ parent_type = "none" /\ parent_password = None /\ at_login = FALSE
  /\ filtered = FALSE /\ keyring = Dummy
  /\ gdm \in BOOLEAN /\ held = None /\ sent = None

-----------------------------------------------------------------------------
(* The forms are filled in.  The password page is complete with a text that*)
(* was confirmed; within 600 ms of a change it may have become empty.  A   *)
(* user of a domain who goes back may still choose the local form.         *)

FillLocal(password, guarded, guardian_password) ==
  /\ phase = "forms"
  /\ phase' = "summary" /\ mode' = "local" /\ parental' = guarded
  /\ entered' = password
  /\ entered_parent' = IF guarded THEN guardian_password ELSE None
  /\ todo' = SaveSteps("local", guarded)
  /\ UNCHANGED <<failed, driver, accounts, effects, login, lost>>

(* on_local_user_cached, and the account page was left                     *)
RegisterDomainUser(password) ==
  /\ phase = "forms" /\ main_type = "none"
  /\ main_type' = "domain" /\ main_password' = password
  /\ user' = TRUE /\ user_password' = password
  /\ mode' = "enterprise" /\ parental' = FALSE
  /\ UNCHANGED <<phase, todo, failed, entered, entered_parent, parent, guardian,
                 effects, login, lost>>

FillEnterprise ==
  /\ phase = "forms" /\ main_type = "domain"
  /\ phase' = "summary"
  /\ todo' = SaveSteps("enterprise", FALSE)
  /\ UNCHANGED <<failed, choices, driver, accounts, effects, login, lost>>

-----------------------------------------------------------------------------
(* gis_summary_page_shown saves, one step after the other.                 *)

Saving == phase = "summary" /\ todo # <<>>

Do(step) == Saving /\ Head(todo) = step /\ todo' = Tail(todo)

(* A page that fails ends the saving; the summary only warns.              *)
FailAt(steps) ==
  /\ Saving /\ Head(todo) \in steps
  /\ todo' = <<>> /\ failed' = TRUE
  /\ UNCHANGED <<phase, choices, driver, accounts, effects, login, lost>>

SaveFails == FailAt({"create parent", "create main", "filter apps"})

(* A call whose result the code does not look at has no effect.            *)
SaveLost ==
  /\ Saving
  /\ Head(todo) \in {"parent at login", "set password", "set parent password",
                     "update keyring", "domain keyring"}
  /\ todo' = Tail(todo) /\ lost' = TRUE
  /\ UNCHANGED <<phase, failed, choices, driver, accounts, effects, login>>

CreateParent ==
  /\ Do("create parent")
  /\ parent_type' = "administrator"
  /\ UNCHANGED <<phase, failed, choices, driver, main, parent_password, at_login,
                 effects, login, lost>>

ParentAtLogin ==
  /\ Do("parent at login")
  /\ at_login' = TRUE
  /\ UNCHANGED <<phase, failed, choices, driver, main, parent_type,
                 parent_password, effects, login, lost>>

(* on_local_parent_user_created                                            *)
KeepParent ==
  /\ Do("keep parent")
  /\ parent' = TRUE
  /\ UNCHANGED <<phase, failed, choices, user, user_password, accounts, effects, login, lost>>

(* Mistake: the account is of the type it has without parental controls.   *)
CreateMainAdministrator ==
  /\ Do("create main")
  /\ main_type' = "administrator" /\ main_password' = None
  /\ UNCHANGED <<phase, failed, choices, driver, guardian, effects, login, lost>>

(* A new account is locked until a password is set.                        *)
CreateMain ==
  /\ Do("create main")
  /\ main_type' = IF parental THEN "standard" ELSE "administrator"
  /\ main_password' = None
  /\ UNCHANGED <<phase, failed, choices, driver, guardian, effects, login, lost>>

(* on_local_main_user_created                                              *)
KeepMain ==
  /\ Do("keep main")
  /\ user' = TRUE /\ user_password' = NoPassword
  /\ UNCHANGED <<phase, failed, choices, parent, accounts, effects, login, lost>>

SetPassword ==
  /\ Do("set password")
  /\ main_password' = entered
  /\ UNCHANGED <<phase, failed, choices, driver, main_type, guardian, effects, login, lost>>

(* Mistake: the driver keeps the password of the account's creation.       *)
KeepPasswordNot ==
  /\ Do("keep password")
  /\ UNCHANGED <<phase, failed, choices, driver, accounts, effects, login, lost>>

KeepPassword ==
  /\ Do("keep password")
  /\ user_password' = entered
  /\ UNCHANGED <<phase, failed, choices, user, parent, accounts, effects, login, lost>>

(* Mistake: the keyring is given the password of the parent.               *)
UpdateKeyringOther ==
  /\ Do("update keyring")
  /\ keyring' = IF parental THEN entered_parent ELSE entered
  /\ UNCHANGED <<phase, failed, choices, driver, accounts, filtered, login, lost>>

(* gis_update_login_keyring_password                                       *)
UpdateKeyring ==
  /\ Do("update keyring")
  /\ keyring' = entered
  /\ UNCHANGED <<phase, failed, choices, driver, accounts, filtered, login, lost>>

DomainKeyring ==
  /\ Do("domain keyring")
  /\ keyring' = user_password
  /\ UNCHANGED <<phase, failed, choices, driver, accounts, filtered, login, lost>>

FilterApps ==
  /\ Do("filter apps")
  /\ filtered' = TRUE
  /\ UNCHANGED <<phase, failed, choices, driver, accounts, keyring, login, lost>>

SetParentPassword ==
  /\ Do("set parent password")
  /\ parent_password' = entered_parent /\ at_login' = FALSE
  /\ UNCHANGED <<phase, failed, choices, driver, main, parent_type, effects, login, lost>>

-----------------------------------------------------------------------------
(* The end.                                                                *)

(* Mistake: the page holds the password it was shown with before saving.   *)
DoneUnsaved ==
  /\ phase = "summary" /\ todo = <<>>
  /\ phase' = (IF gdm /\ user THEN "login" ELSE "stuck") /\ held' = NoPassword
  /\ UNCHANGED <<todo, failed, choices, driver, accounts, effects, gdm, sent, lost>>

(* done_cb and log_user_in, with what gis_summary_page_shown got from the  *)
(* driver behind the saving.  The window is hidden, whether or not there is*)
(* a connection to GDM and a user to verify.                               *)
Done ==
  /\ phase = "summary" /\ todo = <<>>
  /\ phase' = (IF gdm /\ user THEN "login" ELSE "stuck") /\ held' = user_password
  /\ UNCHANGED <<todo, failed, choices, driver, accounts, effects, gdm, sent, lost>>

(* on_secret_info_query: the password is sent once.                        *)
SecretInfoQuery ==
  /\ phase = "login" /\ held # None
  /\ sent' = held /\ held' = None
  /\ UNCHANGED <<phase, todo, failed, choices, driver, accounts, effects, gdm, lost>>

Correct == sent # None /\ sent = main_password

(* PAM accepts, asking for no password where there is none, and GDM starts *)
(* the session: on_session_opened.                                         *)
SessionOpened ==
  /\ phase = "login" /\ (Correct \/ main_password = NoPassword)
  /\ phase' = "session"
  /\ UNCHANGED <<todo, failed, choices, driver, accounts, effects, login, lost>>

(* PAM refuses: on_problem only warns.                                     *)
Refused ==
  /\ phase = "login" /\ sent # None /\ ~Correct
  /\ phase' = "stuck"
  /\ UNCHANGED <<todo, failed, choices, driver, accounts, effects, login, lost>>

(* The verification cannot begin, or fails all the same; PAM asks what is  *)
(* no secret, or a second one: request_info_query has no dialog yet.       *)
LoginLost ==
  /\ phase = "login"
  /\ phase' = "stuck" /\ lost' = TRUE
  /\ UNCHANGED <<todo, failed, choices, driver, accounts, effects, login>>

(* The process is killed, or the power fails.  With an account there, GDM  *)
(* greets; without one it starts the wizard again.                         *)
Crash ==
  /\ phase \in {"forms", "summary", "login", "stuck"}
  /\ phase' = IF main_type = "none" /\ parent_type = "none" THEN "forms" ELSE "greeter"
  /\ todo' = <<>> /\ failed' = FALSE
  /\ mode' = "local" /\ parental' = FALSE
  /\ entered' = None /\ entered_parent' = None
  /\ user' = FALSE /\ user_password' = None /\ parent' = FALSE
  /\ held' = None /\ sent' = None /\ gdm' \in BOOLEAN
  /\ UNCHANGED <<accounts, effects, lost>>

SaveStep ==
  \/ CreateParent \/ ParentAtLogin \/ KeepParent
  \/ CreateMain \/ KeepMain
  \/ SetPassword \/ KeepPassword \/ UpdateKeyring \/ DomainKeyring
  \/ FilterApps \/ SetParentPassword

Next ==
  \/ \E password \in Texts, guarded \in BOOLEAN, guardian_password \in Texts :
       FillLocal(password, guarded, guardian_password)
  \/ \E password \in Texts : RegisterDomainUser(password)
  \/ FillEnterprise
  \/ SaveStep
  \/ SaveFails
  \/ SaveLost
  \/ Done \/ SecretInfoQuery \/ SessionOpened \/ Refused \/ LoginLost
  \/ Crash

Spec == Init /\ [][Next]_vars

-----------------------------------------------------------------------------
(* Properties.                                                             *)

Secrets == Texts \cup {None}

(* Every variable has its type.                                            *)
TypeOK ==
  /\ phase \in {"forms", "summary", "login", "session", "stuck", "greeter"}
  /\ todo \in Seq(Step)
  /\ {failed, parental, user, parent, at_login, filtered, gdm, lost} \subseteq BOOLEAN
  /\ mode \in {"local", "enterprise"}
  /\ {entered, entered_parent, user_password, main_password, parent_password, held, sent} \subseteq Secrets
  /\ main_type \in {"none", "administrator", "standard", "domain"}
  /\ parent_type \in {"none", "administrator"}
  /\ keyring \in Texts \cup {Dummy}

(* A child's account is never there, whatever failed or was killed, without*)
(* an administrator's that a parent can log in to.                         *)
ChildHasParent ==
  main_type = "standard" /\ ~lost =>
    parent_type = "administrator" /\ (at_login \/ parent_password # None)

(* When the user is logged in after a saving in which nothing went wrong,  *)
(* the password the driver hands to GDM, the account's and the keyring's   *)
(* are one; under parental controls the child is restricted, and the parent*)
(* has the password that was entered for it.  And the hidden window is not *)
(* the last that the user sees: PAM is sent what it wants.                 *)
SavedTogether ==
  ~failed /\ ~lost =>
    /\ phase \in {"login", "session"} =>
         /\ main_password # None /\ user_password = main_password /\ keyring = main_password
         /\ parental => /\ main_type = "standard" /\ filtered
                        /\ parent_password = entered_parent /\ ~at_login
    /\ phase = "stuck" => ~gdm

(* The keyring leaves the password it is made with only once the account   *)
(* of its owner is there.                                                  *)
KeyringFollowsUser ==
  keyring # Dummy => main_type # "none" /\ (main_password = keyring \/ lost)

(* However the wizard ends, the parent can log in to the account it has.   *)
ParentUsable ==
  phase = "greeter" /\ parent_type = "administrator" /\ ~lost =>
    at_login \/ parent_password # None

=============================================================================
