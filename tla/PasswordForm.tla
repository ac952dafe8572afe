---------------------------- MODULE PasswordForm -----------------------------
(***************************************************************************)
(* The password page: two entries, a validation 600 ms after a change or   *)
(* when an entry loses the focus, and a page that is hidden while the      *)
(* driver has no user name and made anew when parental controls change.    *)
(* (pages/password/gis-password-page.c, pw-utils.c)                        *)
(*                                                                         *)
(* Neither dispose nor the way to the next page stops the timer: a page    *)
(* that is destroyed with its timer running would be validated afterwards. *)
(***************************************************************************)
EXTENDS Naturals

CONSTANTS
  Passwords,   (* texts that are not empty                                 *)
  Empty,       (* no text                                                  *)
  Users,       (* user names                                               *)
  None,        (* no user name                                             *)
  Weak,        (* pairs of a text and a user name pwquality refuses        *)
  MaxEdits     (* bound on the changes of the entries and the applies      *)

ASSUME TextsAssumption ==
  /\ Empty \notin Passwords /\ None \notin Users
  /\ Weak \subseteq Passwords \X (Users \cup {None})
ASSUME BoundAssumption == MaxEdits \in Nat

VARIABLES
  password,        (* password_entry                                       *)
  confirm,         (* confirm_entry                                        *)
  valid_password,  (* priv->valid_password                                 *)
  valid_confirm,   (* priv->valid_confirm                                  *)
  username,        (* priv->username                                       *)
  timer,           (* priv->timeout_id is not 0                            *)
  complete,        (* the page is complete                                 *)
  visible,         (* the page is shown in the stack                       *)
  focus,           (* the entry that has the focus                         *)
  place,           (* the current page: account, password or a later one   *)
  driver_username, (* gis_driver_get_username                              *)
  driver_parental, (* gis_driver_get_parental_controls_enabled             *)
  freed,           (* a page was destroyed with its timer running          *)
  edits            (* changes so far                                       *)

entries == <<password, confirm>>
checked == <<valid_password, valid_confirm, complete, timer>>
page == <<username, visible>>
driver == <<driver_username, driver_parental>>

vars == <<entries, checked, page, focus, place, driver, freed, edits>>

Texts == Passwords \cup {Empty}

(* pw_strength: above 1 for every text pwquality does not refuse           *)
Strong(text, user) == text # Empty /\ <<text, user>> \notin Weak

Init ==
  /\ password = Empty /\ confirm = Empty
  /\ valid_password = FALSE /\ valid_confirm = FALSE /\ complete = FALSE
  /\ timer = FALSE /\ username = None /\ visible = TRUE
  /\ focus = "none" /\ place = "account" /\ driver_username = None
  /\ driver_parental = FALSE /\ freed = FALSE /\ edits = 0

-----------------------------------------------------------------------------
(* Validation.                                                             *)

(* validate                                                                *)
Validate(text, again, user) ==
  /\ timer' = FALSE
  /\ valid_password' = Strong(text, user)
  /\ valid_confirm' = (text # Empty /\ again # Empty /\ text = again)
  /\ complete' = valid_confirm'

Bound == edits < MaxEdits /\ edits' = edits + 1

(* Mistake: a change is left for the loss of the focus to validate.        *)
TypePasswordUntimed(text) ==
  /\ place = "password" /\ focus = "password" /\ text # password /\ Bound
  /\ password' = text
  /\ valid_password' = FALSE /\ complete' = valid_confirm
  /\ UNCHANGED <<confirm, valid_confirm, timer, page, focus, place, driver, freed>>

(* password_changed: whether the page is complete is not affected.         *)
TypePassword(text) ==
  /\ place = "password" /\ focus = "password" /\ text # password /\ Bound
  /\ password' = text
  /\ valid_password' = FALSE /\ complete' = valid_confirm /\ timer' = TRUE
  /\ UNCHANGED <<confirm, valid_confirm, page, focus, place, driver, freed>>

(* Mistake: the page is not told.                                          *)
TypeConfirmQuietly(text) ==
  /\ place = "password" /\ focus = "confirm" /\ text # confirm /\ Bound
  /\ confirm' = text
  /\ valid_confirm' = FALSE /\ timer' = TRUE
  /\ UNCHANGED <<password, valid_password, complete, page, focus, place,
                 driver, freed>>

(* confirm_changed                                                         *)
TypeConfirm(text) ==
  /\ place = "password" /\ focus = "confirm" /\ text # confirm /\ Bound
  /\ confirm' = text
  /\ valid_confirm' = FALSE /\ complete' = FALSE /\ timer' = TRUE
  /\ UNCHANGED <<password, valid_password, page, focus, place, driver, freed>>

(* The timer of 600 ms                                                     *)
Timeout ==
  /\ timer
  /\ Validate(password, confirm, username)
  /\ UNCHANGED <<entries, page, focus, place, driver, freed, edits>>

(* Mistake: nothing is done when the focus is lost.                        *)
FocusLostIgnored == UNCHANGED checked

(* on_focusout, when the entry that has the focus loses it                 *)
FocusLost ==
  IF focus # "none" THEN Validate(password, confirm, username) ELSE UNCHANGED checked

(* The user goes from one entry to the other, or to a button.              *)
Focus(entry) ==
  /\ place = "password" /\ entry # focus
  /\ focus' = entry
  /\ FocusLost
  /\ UNCHANGED <<entries, page, place, driver, freed, edits>>

-----------------------------------------------------------------------------
(* The pages before and after.                                             *)

(* The page is left; gis_password_page_shown takes the focus on the way in.*)
GoTo(there) ==
  /\ place' = there
  /\ FocusLost
  /\ focus' = "none"
  /\ UNCHANGED <<entries, page, driver, freed, edits>>

(* confirm, from either entry                                              *)
Activate == place = "password" /\ focus # "none" /\ valid_confirm /\ GoTo("later")

(* Next, also by its mnemonic, with the focus in an entry                  *)
NextPage == place = "password" /\ complete /\ GoTo("later")

PreviousPage == place = "password" /\ GoTo("account")

Enter == place' = "password" /\ focus' = "password"

(* The pages after the account page are destroyed and built again: the new *)
(* page has not been told the user name, and it is shown.                  *)
Rebuilt(running) ==
  /\ password' = Empty /\ confirm' = Empty
  /\ username' = None /\ visible' = TRUE
  /\ timer' = FALSE /\ valid_password' = FALSE
  /\ valid_confirm' = FALSE /\ complete' = FALSE
  /\ freed' = (freed \/ running)

(* Mistake: a page that was shown stays.                                   *)
UsernameChangedShows(user) ==
  /\ username' = user /\ visible' = (visible \/ user # None)
  /\ Validate(password, confirm, user)
  /\ UNCHANGED <<entries, freed>>

(* username_changed                                                        *)
UsernameChanged(user) ==
  /\ username' = user /\ visible' = (user # None)
  /\ Validate(password, confirm, user)
  /\ UNCHANGED <<entries, freed>>

(* gis_account_page_local_apply tells the user name first, which stops the *)
(* timer of the page, and then a change of the parental controls, which    *)
(* destroys it.                                                            *)
ApplyAccount(user, parental) ==
  /\ place = "account" /\ Bound
  /\ driver_username' = user /\ driver_parental' = parental
  /\ IF parental # driver_parental THEN Rebuilt(FALSE) ELSE UsernameChanged(user)
  /\ Enter

(* gis_account_page_enterprise_apply turns parental controls off; the join *)
(* begins.                                                                 *)
ApplyEnterprise ==
  /\ place = "account" /\ Bound
  /\ place' = "joining"
  /\ driver_parental' = FALSE
  /\ IF driver_parental THEN Rebuilt(timer)
     ELSE UNCHANGED <<entries, checked, page, freed>>
  /\ UNCHANGED <<focus, driver_username>>

(* enterprise_apply_complete: whatever came of the join, the driver has no *)
(* user name from here on, and this page is hidden: it is passed over.     *)
EnterpriseDone(valid) ==
  /\ place = "joining"
  /\ driver_username' = None
  /\ UsernameChanged(None)
  /\ place' = IF valid THEN "later" ELSE "account"
  /\ UNCHANGED <<focus, driver_parental, edits>>

(* Previous, from the page behind this one                                 *)
Return ==
  /\ place = "later"
  /\ IF visible THEN Enter ELSE place' = "account" /\ UNCHANGED focus
  /\ UNCHANGED <<entries, checked, page, driver, freed, edits>>

Edit ==
  \/ \E text \in Texts : TypePassword(text) \/ TypeConfirm(text)
  \/ \E entry \in {"password", "confirm", "none"} : Focus(entry)

Move ==
  \/ Activate
  \/ NextPage
  \/ PreviousPage
  \/ Return
  \/ \E user \in Users, parental \in BOOLEAN : ApplyAccount(user, parental)
  \/ ApplyEnterprise
  \/ \E valid \in BOOLEAN : EnterpriseDone(valid)

Next == Edit \/ Move \/ Timeout

Spec == Init /\ [][Next]_vars

(* The main loop runs a timer that is due.                                 *)
FairSpec == Spec /\ WF_vars(Timeout)

-----------------------------------------------------------------------------
(* Properties.                                                             *)

(* Every variable has its type.                                            *)
TypeOK ==
  /\ {password, confirm} \subseteq Texts
  /\ {valid_password, valid_confirm, timer, complete} \subseteq BOOLEAN
  /\ {visible, driver_parental, freed} \subseteq BOOLEAN
  /\ {username, driver_username} \subseteq Users \cup {None}
  /\ focus \in {"none", "password", "confirm"}
  /\ place \in {"account", "joining", "password", "later"}
  /\ edits \in 0..MaxEdits

Confirmed == password = confirm /\ password # Empty

(* What the page says is of what is entered: it is complete only of a text *)
(* entered twice, unless the password was changed less than 600 ms ago (a  *)
(* change of the confirmation counts at once), and the strength it shows is*)
(* that of the text and of the user name the page was told last.           *)
SaysWhatIsEntered ==
  /\ complete => valid_confirm /\ (timer \/ Confirmed)
  /\ place = "password" /\ ~timer => (valid_password <=> Strong(password, username))

(* No page is destroyed with its timer running, although nothing stops it  *)
(* there: the page cannot be left without the focus leaving the entry.     *)
NeverFreed == ~freed

(* Past the account page of a domain user, the page is not there to ask for*)
(* the password of a local one.                                            *)
HiddenFromDomainUser == place = "later" /\ driver_username = None => ~visible

(* When the user stops typing, the page is complete in the end exactly if  *)
(* the text was entered twice.                                             *)
FormSettles ==
  /\ <>[](place = "password" /\ Confirmed) => <>[]complete
  /\ <>[](place = "password" /\ ~Confirmed) => <>[]~complete

=============================================================================
