----------------------------- MODULE AccountForm -----------------------------
(***************************************************************************)
(* The account page: the form of a local user, the button that switches to *)
(* the enterprise form, and what an apply leaves in the driver.            *)
(* (pages/account/gis-account-page.c, gis-account-page-local.c)            *)
(*                                                                         *)
(* The form is validated 600 ms after the last change of the user name, or *)
(* when the name entry loses the focus; the page is complete in between    *)
(* only if the handlers of the changes say so.  A name also comes from an  *)
(* online account, whatever page the user is on.                           *)
(***************************************************************************)
EXTENDS Naturals

CONSTANTS
  Names,          (* full names with a character that is not a space       *)
  Blank,          (* a full name of spaces                                 *)
  Usernames,      (* user names that are not empty                         *)
  BadUsernames,   (* those that are too long, in use or have a bad letter  *)
  Administrator,  (* the user name parental controls take for the parent   *)
  Empty,          (* no text                                               *)
  MaxEdits        (* bound on the changes of the form                      *)

ASSUME ValuesAssumption ==
  /\ Blank \notin Names /\ Empty \notin Names \cup Usernames \cup {Blank}
  /\ BadUsernames \subseteq Usernames /\ Administrator \in Usernames \ BadUsernames
ASSUME BoundAssumption == MaxEdits \in Nat

VARIABLES
  name,            (* fullname_entry                                       *)
  username,        (* the entry of username_combo                          *)
  custom,          (* has_custom_username                                  *)
  parental,        (* enable_parental_controls_check_button                *)
  account_type,    (* priv->account_type                                   *)
  valid_name,      (* priv->valid_name                                     *)
  valid_username,  (* priv->valid_username                                 *)
  timer,           (* priv->timeout_id is not 0                            *)
  focus,           (* which entry of the form has the focus                *)
  mode,            (* priv->mode                                           *)
  domain,          (* the enterprise form is filled in                     *)
  complete,        (* the page is complete                                 *)
  applying,        (* an enterprise apply is under way                     *)
  place,           (* the current page: this one or a later one            *)
  driver_username, (* gis_driver_get_username                              *)
  driver_parental, (* gis_driver_get_parental_controls_enabled             *)
  edits            (* changes so far                                       *)

entries == <<name, username, custom>>
checked == <<valid_name, valid_username>>
options == <<parental, account_type>>
form == <<entries, checked, options, timer>>
page == <<mode, domain, applying, place, focus>>
driver == <<driver_username, driver_parental>>

vars == <<form, complete, page, driver, edits>>

Texts == Names \cup {Blank, Empty}
Logins == Usernames \cup {Empty}

(* is_valid_name                                                           *)
IsValidName(n) == n \in Names

(* is_valid_username                                                       *)
IsValidUsername(u, p) ==
  u \in Usernames \ BadUsernames /\ ~(p /\ u = Administrator)

(* page_validate, of a form that is valid and one that is filled in        *)
PageValidate(local, m, d) == IF m = "local" THEN local ELSE d

(* What a local form is validated to be.                                   *)
FormValid == IsValidName(name) /\ IsValidUsername(username, parental)

Init ==
  /\ name = Empty /\ username = Empty /\ custom = FALSE
  /\ parental = FALSE /\ account_type = "administrator"
  /\ valid_name = FALSE /\ valid_username = FALSE
  /\ timer = FALSE /\ focus = "name"
  /\ mode = "local" /\ domain = FALSE /\ complete = FALSE
  /\ applying = FALSE /\ place = "account"
  /\ driver_username = Empty /\ driver_parental = FALSE
  /\ edits = 0

Edit == edits < MaxEdits /\ edits' = edits + 1

-----------------------------------------------------------------------------
(* The handlers of the form.                                               *)

(* validate, of the entries as they are and the option p                   *)
Validate(p) ==
  /\ timer' = FALSE
  /\ valid_name' = IsValidName(name)
  /\ valid_username' = IsValidUsername(username, p)

ValidateNow(p, m) ==
  /\ Validate(p)
  /\ complete' = PageValidate(valid_name' /\ valid_username', m, domain)

(* Mistake: a changed user name keeps the page as complete as it was.      *)
UsernameChangedQuietly(u, picked) ==
  /\ username' = u
  /\ custom' = (u # Empty /\ (custom \/ picked \/ focus = "username"))
  /\ valid_username' = FALSE
  /\ UNCHANGED complete
  /\ timer' = TRUE

(* Mistake: the validation that is due is not put off but given up.        *)
UsernameChangedUntimed(u, picked) ==
  /\ username' = u
  /\ custom' = (u # Empty /\ (custom \/ picked \/ focus = "username"))
  /\ valid_username' = FALSE
  /\ complete' = PageValidate(FALSE, mode, domain)
  /\ timer' = FALSE

(* username_changed; picked: from the list, and not its first item         *)
UsernameChanged(u, picked) ==
  /\ username' = u
  /\ custom' = (u # Empty /\ (custom \/ picked \/ focus = "username"))
  /\ valid_username' = FALSE
  /\ complete' = PageValidate(FALSE, mode, domain)
  /\ timer' = TRUE

(* fullname_changed.  The suggestions of n are external here: some user    *)
(* name, an empty one, or none at all, which leaves the entry as it is.    *)
FullnameChanged(n) ==
  /\ name' = n
  /\ valid_name' = FALSE
  /\ \/ ~custom /\ n = Empty /\ username # Empty /\ UsernameChanged(Empty, FALSE)
     \/ ~custom /\ n # Empty /\ \E u \in Logins : UsernameChanged(u, FALSE)
     \/ /\ custom \/ (n = Empty /\ username = Empty)
        /\ UNCHANGED <<username, custom, valid_username, complete, timer>>

Shown == place = "account" /\ mode = "local"

TypeName(n) ==
  /\ Edit
  /\ Shown /\ focus = "name" /\ n # name
  /\ FullnameChanged(n)
  /\ UNCHANGED <<options, page, driver>>

(* prepopulate_account_page, when an account with a profile comes or goes  *)
AccountsChanged(n) ==
  /\ Edit
  /\ n \notin {name, Empty}
  /\ FullnameChanged(n)
  /\ UNCHANGED <<options, page, driver>>

TypeUsername(u) ==
  /\ Edit
  /\ Shown /\ focus = "username" /\ u # username
  /\ UsernameChanged(u, FALSE)
  /\ UNCHANGED <<name, valid_name, options, page, driver>>

(* An item of the combo box, the first one or another.                     *)
PickUsername(u, picked) ==
  /\ Edit
  /\ Shown /\ name # Empty /\ u # username
  /\ UsernameChanged(u, picked)
  /\ UNCHANGED <<name, valid_name, options, page, driver>>

(* Mistake: the account type stays that of an administrator.               *)
ToggleKeepsType ==
  /\ Edit
  /\ Shown
  /\ parental' = ~parental
  /\ ValidateNow(parental', mode)
  /\ UNCHANGED <<entries, account_type, page, driver>>

(* enable_parental_controls_check_button_toggled_cb                        *)
ToggleParental ==
  /\ Edit
  /\ Shown
  /\ parental' = ~parental
  /\ account_type' = IF parental' THEN "standard" ELSE "administrator"
  /\ ValidateNow(parental', mode)
  /\ UNCHANGED <<entries, page, driver>>

(* The timeout of username_changed                                         *)
Timeout ==
  /\ timer
  /\ ValidateNow(parental, mode)
  /\ UNCHANGED <<entries, options, page, driver, edits>>

(* on_focusout, of the entry that has it connected                         *)
Focus(f) ==
  /\ Shown /\ f # focus
  /\ focus' = f
  /\ IF focus = "name"
     THEN ValidateNow(parental, mode)
     ELSE UNCHANGED <<timer, checked, complete>>
  /\ UNCHANGED <<entries, options, mode, domain, applying, place, driver, edits>>

-----------------------------------------------------------------------------
(* The enterprise form, as far as the page sees it.                        *)

(* Mistake: the button can be pressed while the page is applying.          *)
ToggleModeAnytime ==
  /\ place = "account"
  /\ mode' = IF mode = "local" THEN "enterprise" ELSE "local"
  /\ focus' = IF mode = "local" THEN "elsewhere" ELSE "name"
  /\ IF mode = "local" /\ focus = "name"
     THEN ValidateNow(parental, mode')
     ELSE complete' = PageValidate(valid_name /\ valid_username, mode', domain)
          /\ UNCHANGED <<timer, checked>>
  /\ UNCHANGED <<entries, options, domain, applying, place, driver, edits>>

(* toggle_mode, set_mode: the form that is shown takes the focus           *)
ToggleMode ==
  /\ place = "account" /\ ~applying
  /\ mode' = IF mode = "local" THEN "enterprise" ELSE "local"
  /\ focus' = IF mode = "local" THEN "elsewhere" ELSE "name"
  /\ IF mode = "local" /\ focus = "name"
     THEN ValidateNow(parental, mode')
     ELSE complete' = PageValidate(valid_name /\ valid_username, mode', domain)
          /\ UNCHANGED <<timer, checked>>
  /\ UNCHANGED <<entries, options, domain, applying, place, driver, edits>>

(* validation-changed of the enterprise form                               *)
EditDomain ==
  /\ Edit
  /\ place = "account" /\ mode = "enterprise"
  /\ domain' \in BOOLEAN
  /\ complete' = domain'
  /\ UNCHANGED <<form, mode, applying, place, focus, driver>>

-----------------------------------------------------------------------------
(* Applying, and the way back.                                             *)

(* The focus goes with the page.                                           *)
Leave ==
  /\ place' = "later" /\ focus' = "elsewhere"
  /\ IF focus = "name"
     THEN ValidateNow(parental, mode)
     ELSE UNCHANGED <<timer, checked, complete>>

(* gis_account_page_local_apply                                            *)
ApplyLocal ==
  /\ driver_username' = username
  /\ driver_parental' = parental

(* gis_assistant_next_page or the button of the local form                 *)
NextLocal ==
  /\ Shown /\ complete
  /\ ApplyLocal /\ Leave
  /\ UNCHANGED <<entries, options, mode, domain, applying, edits>>

(* "activate" of the name entry: validate, then confirm                    *)
ActivateName ==
  /\ Shown /\ focus = "name"
  /\ ValidateNow(parental, mode)
  /\ IF FormValid
     THEN ApplyLocal /\ place' = "later" /\ focus' = "elsewhere"
     ELSE UNCHANGED <<driver, place, focus>>
  /\ UNCHANGED <<entries, options, mode, domain, applying, edits>>

(* "activate" of the user name entry: confirm                              *)
ActivateUsername ==
  /\ Shown /\ focus = "username"
  /\ valid_name /\ valid_username
  /\ ApplyLocal /\ Leave
  /\ UNCHANGED <<entries, options, mode, domain, applying, edits>>

(* gis_account_page_enterprise_apply                                       *)
NextEnterprise ==
  /\ place = "account" /\ mode = "enterprise" /\ complete /\ ~applying
  /\ applying' = TRUE
  /\ driver_parental' = FALSE
  /\ UNCHANGED <<form, complete, mode, domain, place, focus, driver_username, edits>>

(* enterprise_apply_complete                                               *)
EnterpriseApplied(valid) ==
  /\ applying
  /\ applying' = FALSE
  /\ driver_username' = Empty
  /\ place' = IF valid THEN "later" ELSE "account"
  /\ UNCHANGED <<form, complete, mode, domain, focus, driver_parental, edits>>

(* Back to this page: gis_account_page_shown                               *)
Previous ==
  /\ place = "later"
  /\ place' = "account" /\ focus' = "name"
  /\ UNCHANGED <<form, complete, mode, domain, applying, driver, edits>>

Next ==
  \/ \E n \in Texts : TypeName(n) \/ AccountsChanged(n)
  \/ \E u \in Logins : TypeUsername(u) \/ (\E picked \in BOOLEAN : PickUsername(u, picked))
  \/ ToggleParental
  \/ Timeout
  \/ \E f \in {"name", "username", "elsewhere"} : Focus(f)
  \/ ToggleMode
  \/ EditDomain
  \/ NextLocal
  \/ ActivateName
  \/ ActivateUsername
  \/ NextEnterprise
  \/ \E valid \in BOOLEAN : EnterpriseApplied(valid)
  \/ Previous

Spec == Init /\ [][Next]_vars

(* A timeout that is set goes off.                                         *)
FairSpec == Spec /\ WF_vars(Timeout)

-----------------------------------------------------------------------------
(* Properties.                                                             *)

(* Every variable has its type.                                            *)
TypeOK ==
  /\ name \in Texts /\ username \in Logins /\ driver_username \in Logins
  /\ {custom, parental, valid_name, valid_username, timer, domain, complete,
      applying, driver_parental} \subseteq BOOLEAN
  /\ account_type \in {"administrator", "standard"}
  /\ focus \in {"name", "username", "elsewhere"}
  /\ mode \in {"local", "enterprise"} /\ place \in {"account", "later"}
  /\ edits \in 0..MaxEdits

(* The page of a local user is complete only with a user name that can be  *)
(* created, the one reserved for the parent included.                      *)
UsernameChecked ==
  complete /\ mode = "local" => IsValidUsername(username, parental)

(* The driver is told no user name that cannot be created with the         *)
(* parental controls it was told of.                                       *)
AppliedIsValid ==
  driver_username # Empty => IsValidUsername(driver_username, driver_parental)

(* Past this page, the mode whose account will be saved is the one that was*)
(* applied: a local user with a name in the driver, or a domain user       *)
(* without one and without parental controls.                              *)
AppliedIsSaved ==
  place = "later" =>
    IF mode = "local" THEN driver_username # Empty
    ELSE driver_username = Empty /\ ~driver_parental

(* Past this page, the main user will be a standard user if and only if an *)
(* administrator will be created for the parent: the type comes from the   *)
(* button, the administrator from the driver.                              *)
OneAdministrator ==
  place = "later" /\ mode = "local" =>
    (account_type = "standard" <=> driver_parental)

(* A form with a valid name and a user name the page came up with is       *)
(* complete in the end, without the user leaving the entry.                *)
FormSettles ==
  <>[](place = "account" /\ mode = "local" /\ FormValid /\ ~custom) => <>[]complete

=============================================================================
