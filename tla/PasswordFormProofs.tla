------------------------- MODULE PasswordFormProofs --------------------------
(***************************************************************************)
(* Proofs about the password page: it says what is entered, no timer       *)
(* outlives its page, and a domain user does not meet it.                  *)
(***************************************************************************)
EXTENDS PasswordForm, TLAPS

(* A text was confirmed, or a validation is due.                           *)
ConfirmedOrDue ==
  /\ complete <=> valid_confirm
  /\ valid_confirm => timer \/ Confirmed

StrengthOrDue == ~timer => (valid_password <=> Strong(password, username))

(* The timer runs only while an entry of the page has the focus.           *)
TimerHasFocus == timer => place = "password" /\ focus # "none"

(* The page in front of the user is that of a local user.                  *)
ShownToLocalUser == place = "password" => driver_username # None

IInv ==
  /\ ConfirmedOrDue
  /\ StrengthOrDue
  /\ TimerHasFocus
  /\ NeverFreed
  /\ ShownToLocalUser
  /\ HiddenFromDomainUser

(* The parts that the entries and the driver decide.                       *)
Form == ConfirmedOrDue /\ StrengthOrDue
Way == ShownToLocalUser /\ HiddenFromDomainUser

-----------------------------------------------------------------------------
(* A validation settles the form, whatever is entered.                     *)
LEMMA ValidationSettles ==
  ASSUME Validate(password', confirm', username')
  PROVE  Form' /\ ~timer'
  BY DEF Validate, Form, ConfirmedOrDue, StrengthOrDue, Confirmed

(* A page that was just built has nothing to settle.                       *)
LEMMA BuiltSettled ==
  ASSUME NEW running \in BOOLEAN, Rebuilt(running)
  PROVE  Form' /\ ~timer'
  BY DEF Rebuilt, Form, ConfirmedOrDue, StrengthOrDue, Strong

LEMMA FormKept == Form /\ [Next]_vars => Form'
<1> SUFFICES ASSUME Form, [Next]_vars PROVE Form'
  OBVIOUS
<1>1. ASSUME NEW text \in Texts, TypePassword(text) PROVE Form'
  BY <1>1 DEF TypePassword, Form, ConfirmedOrDue, StrengthOrDue
<1>2. ASSUME NEW text \in Texts, TypeConfirm(text) PROVE Form'
  BY <1>2 DEF TypeConfirm, Form, ConfirmedOrDue, StrengthOrDue
<1>3. ASSUME UNCHANGED <<entries, username>>, FocusLost PROVE Form'
  <2>1. CASE Validate(password, confirm, username)
    <3>1. Validate(password', confirm', username')
      BY <1>3, <2>1 DEF Validate, entries
    <3> QED
      BY <3>1, ValidationSettles
  <2>2. CASE UNCHANGED checked
    BY <1>3, <2>2 DEF checked, entries, Form, ConfirmedOrDue, StrengthOrDue, Confirmed
  <2> QED
    BY <1>3, <2>1, <2>2 DEF FocusLost
<1>4. ASSUME NEW entry \in {"password", "confirm", "none"}, Focus(entry) PROVE Form'
  BY <1>3, <1>4 DEF Focus, page
<1>5. CASE Activate \/ NextPage \/ PreviousPage
  BY <1>3, <1>5 DEF Activate, NextPage, PreviousPage, GoTo, page
<1>6. ASSUME NEW user, UsernameChanged(user) PROVE Form'
  <2>1. Validate(password', confirm', username')
    BY <1>6 DEF UsernameChanged, Validate, entries
  <2> QED
    BY <2>1, ValidationSettles
<1>7. ASSUME UNCHANGED <<entries, checked, page>> PROVE Form'
  BY <1>7 DEF entries, checked, page, Form, ConfirmedOrDue, StrengthOrDue, Confirmed
<1>8. ASSUME NEW user \in Users, NEW parental \in BOOLEAN, ApplyAccount(user, parental)
      PROVE  Form'
  BY <1>6, <1>8, BuiltSettled DEF ApplyAccount
<1>9. CASE ApplyEnterprise
  <2>1. CASE UNCHANGED <<entries, checked, page>>
    BY <1>7, <2>1
  <2>2. CASE Rebuilt(timer)
    BY <2>2 DEF Rebuilt, Form, ConfirmedOrDue, StrengthOrDue, Strong
  <2> QED
    BY <1>9, <2>1, <2>2 DEF ApplyEnterprise
<1>10. ASSUME NEW valid \in BOOLEAN, EnterpriseDone(valid) PROVE Form'
  BY <1>6, <1>10 DEF EnterpriseDone
<1>11. CASE Return
  BY <1>7, <1>11 DEF Return
<1>12. CASE Timeout
  <2>1. Validate(password', confirm', username')
    BY <1>12 DEF Timeout, Validate, entries, page
  <2> QED
    BY <2>1, ValidationSettles
<1>13. CASE UNCHANGED vars
  BY <1>7, <1>13 DEF vars
<1> QED
  BY <1>1, <1>2, <1>4, <1>5, <1>8, <1>9, <1>10, <1>11, <1>12, <1>13 DEF Next, Edit, Move

(* The focus leaves an entry only by way of a validation.                  *)
LEMMA TimerKept ==
  TimerHasFocus /\ NeverFreed /\ [Next]_vars => TimerHasFocus' /\ NeverFreed'
<1> SUFFICES ASSUME TimerHasFocus, NeverFreed, [Next]_vars
             PROVE  TimerHasFocus' /\ NeverFreed'
  OBVIOUS
<1> USE DEF TimerHasFocus, NeverFreed
<1>1. ASSUME NEW text \in Texts, TypePassword(text) \/ TypeConfirm(text)
      PROVE  TimerHasFocus' /\ NeverFreed'
  BY <1>1 DEF TypePassword, TypeConfirm
<1>2. ASSUME FocusLost, freed' = freed PROVE ~timer' /\ NeverFreed'
  BY <1>2 DEF FocusLost, Validate, checked
<1>3. ASSUME NEW entry \in {"password", "confirm", "none"}, Focus(entry)
      PROVE  TimerHasFocus' /\ NeverFreed'
  BY <1>2, <1>3 DEF Focus
<1>4. CASE Activate \/ NextPage \/ PreviousPage
  BY <1>2, <1>4 DEF Activate, NextPage, PreviousPage, GoTo
<1>5. ASSUME NEW user, UsernameChanged(user) PROVE ~timer' /\ NeverFreed'
  BY <1>5 DEF UsernameChanged, Validate
<1>6. ASSUME NEW user \in Users, NEW parental \in BOOLEAN, ApplyAccount(user, parental)
      PROVE  TimerHasFocus' /\ NeverFreed'
  <2>1. CASE Rebuilt(FALSE)
    BY <2>1 DEF Rebuilt
  <2>2. CASE UsernameChanged(user)
    BY <1>5, <2>2
  <2> QED
    BY <1>6, <2>1, <2>2 DEF ApplyAccount
<1>7. CASE ApplyEnterprise
  <2>1. ~timer
    BY <1>7 DEF ApplyEnterprise
  <2>2. CASE Rebuilt(timer)
    BY <2>1, <2>2 DEF Rebuilt
  <2>3. CASE UNCHANGED <<entries, checked, page, freed>>
    BY <2>1, <2>3 DEF checked
  <2> QED
    BY <1>7, <2>2, <2>3 DEF ApplyEnterprise
<1>8. ASSUME NEW valid \in BOOLEAN, EnterpriseDone(valid)
      PROVE  TimerHasFocus' /\ NeverFreed'
  BY <1>5, <1>8 DEF EnterpriseDone
<1>9. CASE Return
  BY <1>9 DEF Return, checked
<1>10. CASE Timeout
  BY <1>10 DEF Timeout, Validate
<1>11. CASE UNCHANGED vars
  BY <1>11 DEF vars, checked
<1> QED
  BY <1>1, <1>3, <1>4, <1>6, <1>7, <1>8, <1>9, <1>10, <1>11 DEF Next, Edit, Move

(* The driver has a user name wherever the page is shown.                  *)
LEMMA WayKept == Way /\ [Next]_vars => Way'
<1> SUFFICES ASSUME Way, [Next]_vars PROVE Way'
  OBVIOUS
<1> USE DEF Way, ShownToLocalUser, HiddenFromDomainUser
<1>1. ASSUME UNCHANGED <<place, driver_username, visible>> PROVE Way'
  BY <1>1
<1>2. ASSUME NEW text \in Texts, TypePassword(text) \/ TypeConfirm(text) PROVE Way'
  BY <1>1, <1>2 DEF TypePassword, TypeConfirm, page, driver
<1>3. ASSUME NEW entry \in {"password", "confirm", "none"}, Focus(entry) PROVE Way'
  BY <1>1, <1>3 DEF Focus, page, driver
<1>4. CASE Activate \/ NextPage \/ PreviousPage
  BY <1>4 DEF Activate, NextPage, PreviousPage, GoTo, page, driver
<1>5. ASSUME NEW user \in Users, NEW parental \in BOOLEAN, ApplyAccount(user, parental)
      PROVE  Way'
  <2>1. place' = "password" /\ driver_username' = user
    BY <1>5 DEF ApplyAccount, Enter
  <2> QED
    BY <2>1, TextsAssumption
<1>6. CASE ApplyEnterprise
  BY <1>6 DEF ApplyEnterprise
<1>7. ASSUME NEW valid \in BOOLEAN, EnterpriseDone(valid) PROVE Way'
  <2>1. place' \in {"later", "account"} /\ ~visible'
    BY <1>7 DEF EnterpriseDone, UsernameChanged
  <2> QED
    BY <2>1
<1>8. CASE Return
  <2>1. UNCHANGED <<driver_username, visible>>
    BY <1>8 DEF Return, page, driver
  <2>2. (visible /\ place' = "password") \/ place' = "account"
    BY <1>8 DEF Return, Enter
  <2> QED
    BY <1>8, <2>1, <2>2 DEF Return
<1>9. CASE Timeout
  BY <1>1, <1>9 DEF Timeout, page, driver
<1>10. CASE UNCHANGED vars
  BY <1>1, <1>10 DEF vars, page, driver
<1> QED
  BY <1>2, <1>3, <1>4, <1>5, <1>6, <1>7, <1>8, <1>9, <1>10 DEF Next, Edit, Move

LEMMA Invariance == Spec => []IInv
<1>1. Init => IInv
  BY DEF Init, IInv, ConfirmedOrDue, StrengthOrDue, TimerHasFocus, NeverFreed,
         ShownToLocalUser, HiddenFromDomainUser, Strong
<1>2. IInv /\ [Next]_vars => IInv'
  <2>1. IInv <=> Form /\ TimerHasFocus /\ NeverFreed /\ Way
    BY DEF IInv, Form, Way
  <2>2. Form' /\ TimerHasFocus' /\ NeverFreed' /\ Way' => IInv'
    BY DEF IInv, Form, Way
  <2> QED
    BY <2>1, <2>2, FormKept, TimerKept, WayKept
<1> QED
  BY <1>1, <1>2, PTL DEF Spec

-----------------------------------------------------------------------------
(* Types: flags and words.                                                 *)

Flags ==
  /\ {valid_password, valid_confirm, timer, complete} \subseteq BOOLEAN
  /\ {visible, driver_parental, freed} \subseteq BOOLEAN

Words ==
  /\ {password, confirm} \subseteq Texts
  /\ {username, driver_username} \subseteq Users \cup {None}
  /\ focus \in {"none", "password", "confirm"}
  /\ place \in {"account", "joining", "password", "later"}

LEMMA FlagsKept == Flags /\ [Next]_vars => Flags'
<1> SUFFICES ASSUME Flags, [Next]_vars PROVE Flags'
  OBVIOUS
<1> USE DEF Flags
<1>1. ASSUME NEW text \in Texts, TypePassword(text) \/ TypeConfirm(text) PROVE Flags'
  BY <1>1 DEF TypePassword, TypeConfirm, page, driver
<1>2. ASSUME NEW text, NEW again, NEW user, Validate(text, again, user)
      PROVE  {valid_password', valid_confirm', timer', complete'} \subseteq BOOLEAN
  BY <1>2 DEF Validate, Strong
<1>3. FocusLost => {valid_password', valid_confirm', timer', complete'} \subseteq BOOLEAN
  BY <1>2 DEF FocusLost, checked
<1>4. ASSUME NEW entry \in {"password", "confirm", "none"}, Focus(entry) PROVE Flags'
  BY <1>3, <1>4 DEF Focus, page, driver
<1>5. CASE Activate \/ NextPage \/ PreviousPage
  BY <1>3, <1>5 DEF Activate, NextPage, PreviousPage, GoTo, page, driver
<1>6. ASSUME NEW user, UsernameChanged(user)
      PROVE  /\ {valid_password', valid_confirm', timer', complete'} \subseteq BOOLEAN
             /\ visible' \in BOOLEAN /\ freed' = freed
  BY <1>2, <1>6 DEF UsernameChanged
<1>7. ASSUME NEW running \in BOOLEAN, Rebuilt(running)
      PROVE  /\ {valid_password', valid_confirm', timer', complete'} \subseteq BOOLEAN
             /\ visible' \in BOOLEAN /\ freed' \in BOOLEAN
  BY <1>7 DEF Rebuilt
<1>8. ASSUME NEW user \in Users, NEW parental \in BOOLEAN, ApplyAccount(user, parental)
      PROVE  Flags'
  <2>1. Rebuilt(FALSE) \/ UsernameChanged(user)
    BY <1>8 DEF ApplyAccount
  <2>2. driver_parental' \in BOOLEAN
    BY <1>8 DEF ApplyAccount
  <2> QED
    BY <2>1, <2>2, <1>6, <1>7
<1>9. CASE ApplyEnterprise
  <2>1. driver_parental' \in BOOLEAN /\ timer \in BOOLEAN
    BY <1>9 DEF ApplyEnterprise
  <2>2. CASE Rebuilt(timer)
    BY <2>1, <2>2, <1>7
  <2>3. CASE UNCHANGED <<entries, checked, page, freed>>
    BY <2>1, <2>3 DEF checked, page
  <2> QED
    BY <1>9, <2>2, <2>3 DEF ApplyEnterprise
<1>10. ASSUME NEW valid \in BOOLEAN, EnterpriseDone(valid) PROVE Flags'
  BY <1>6, <1>10 DEF EnterpriseDone
<1>11. CASE Return
  BY <1>11 DEF Return, checked, page, driver
<1>12. CASE Timeout
  BY <1>2, <1>12 DEF Timeout, page, driver
<1>13. CASE UNCHANGED vars
  BY <1>13 DEF vars, checked, page, driver
<1> QED
  BY <1>1, <1>4, <1>5, <1>8, <1>9, <1>10, <1>11, <1>12, <1>13 DEF Next, Edit, Move

LEMMA WordsKept == Words /\ [Next]_vars => Words'
<1> SUFFICES ASSUME Words, [Next]_vars PROVE Words'
  OBVIOUS
<1> USE DEF Words, Texts
<1>1. ASSUME NEW text \in Texts, TypePassword(text) \/ TypeConfirm(text) PROVE Words'
  BY <1>1 DEF TypePassword, TypeConfirm, page, driver
<1>2. ASSUME NEW entry \in {"password", "confirm", "none"}, Focus(entry) PROVE Words'
  BY <1>2 DEF Focus, entries, page, driver
<1>3. CASE Activate \/ NextPage \/ PreviousPage
  BY <1>3 DEF Activate, NextPage, PreviousPage, GoTo, entries, page, driver
<1>4. ASSUME NEW user \in Users, NEW parental \in BOOLEAN, ApplyAccount(user, parental)
      PROVE  Words'
  BY <1>4 DEF ApplyAccount, Rebuilt, UsernameChanged, Enter, entries
<1>5. CASE ApplyEnterprise
  BY <1>5 DEF ApplyEnterprise, Rebuilt, entries, page
<1>6. ASSUME NEW valid \in BOOLEAN, EnterpriseDone(valid) PROVE Words'
  BY <1>6 DEF EnterpriseDone, UsernameChanged, entries
<1>7. CASE Return
  BY <1>7 DEF Return, Enter, entries, page, driver
<1>8. CASE Timeout
  BY <1>8 DEF Timeout, entries, page, driver
<1>9. CASE UNCHANGED vars
  BY <1>9 DEF vars, entries, page, driver
<1> QED
  BY <1>1, <1>2, <1>3, <1>4, <1>5, <1>6, <1>7, <1>8, <1>9 DEF Next, Edit, Move

LEMMA EditsKept == edits \in 0..MaxEdits /\ [Next]_vars => edits' \in 0..MaxEdits
<1> SUFFICES ASSUME edits \in 0..MaxEdits, [Next]_vars PROVE edits' \in 0..MaxEdits
  OBVIOUS
<1>1. Bound \/ edits' = edits
  BY DEF Next, Edit, Move, TypePassword, TypeConfirm, Focus, Activate, NextPage,
         PreviousPage, GoTo, ApplyAccount, ApplyEnterprise, EnterpriseDone, Return,
         Timeout, vars
<1> QED
  BY <1>1, BoundAssumption DEF Bound

(* Whatever is typed, applied and rebuilt, every variable keeps its type.  *)
THEOREM TypeCorrect == Spec => []TypeOK
<1>1. Init => TypeOK
  <2> SUFFICES ASSUME Init PROVE Flags /\ Words /\ edits \in 0..MaxEdits
    BY DEF TypeOK, Flags, Words
  <2>1. Flags
    BY DEF Init, Flags
  <2>2. Words
    BY DEF Init, Words, Texts
  <2>3. edits \in 0..MaxEdits
    BY BoundAssumption DEF Init
  <2> QED
    BY <2>1, <2>2, <2>3
<1>2. TypeOK /\ [Next]_vars => TypeOK'
  <2> SUFFICES ASSUME TypeOK, [Next]_vars PROVE TypeOK'
    OBVIOUS
  <2>1. Flags /\ Words /\ edits \in 0..MaxEdits
    BY DEF TypeOK, Flags, Words
  <2>2. Flags' /\ Words' /\ edits' \in 0..MaxEdits
    BY <2>1, FlagsKept, WordsKept, EditsKept
  <2> QED
    BY <2>2 DEF TypeOK, Flags, Words
<1> QED
  BY <1>1, <1>2, PTL DEF Spec

-----------------------------------------------------------------------------
(* The page never says more than what is entered, for any texts and users  *)
(* and whatever pwquality thinks of them.                                  *)
THEOREM PageSaysWhatIsEntered == Spec => []SaysWhatIsEntered
<1>1. IInv => SaysWhatIsEntered
  BY DEF IInv, ConfirmedOrDue, StrengthOrDue, SaysWhatIsEntered
<1> QED
  BY <1>1, Invariance, PTL

(* Nothing stops the timer of a page that is destroyed, and nothing needs  *)
(* to.                                                                     *)
THEOREM TimerNeverOutlivesPage == Spec => []NeverFreed
  BY Invariance, PTL DEF IInv

(* However the user went back and forth between a local account and a join,*)
(* a domain user who is past the account page is not asked for a password. *)
THEOREM DomainUserNotAsked == Spec => []HiddenFromDomainUser
  BY Invariance, PTL DEF IInv

=============================================================================
