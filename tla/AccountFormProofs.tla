-------------------------- MODULE AccountFormProofs --------------------------
(***************************************************************************)
(* Proofs about the account page: a page that is complete has a user name  *)
(* that can be created, and what an apply leaves in the driver is what the *)
(* save will find.                                                         *)
(***************************************************************************)
EXTENDS AccountForm, TLAPS

(* What was found valid still is.                                          *)
ValidIsCurrent == valid_username => IsValidUsername(username, parental)

(* A local page is not complete without a valid user name.                 *)
CompleteIsValid == complete /\ mode = "local" => valid_username

(* The type of the main user follows the button.                           *)
TypeIsParental == account_type = IF parental THEN "standard" ELSE "administrator"

(* Only the enterprise form takes long to apply, and without parental      *)
(* controls.                                                               *)
ApplyingEnterprise == applying => mode = "enterprise" /\ ~driver_parental

(* Past this page the button is as it was applied.                         *)
ParentalApplied == place = "later" /\ mode = "local" => (driver_parental <=> parental)

Form == ValidIsCurrent /\ CompleteIsValid
Left == ApplyingEnterprise /\ AppliedIsSaved /\ ParentalApplied

IInv == Form /\ TypeIsParental /\ AppliedIsValid /\ Left

-----------------------------------------------------------------------------
(* The form.                                                               *)

(* A validation, of whatever mode, leaves the form as it should be.        *)
LEMMA ValidationKeepsForm ==
  ASSUME ValidateNow(parental', mode'), username' = username
  PROVE  Form'
  BY DEF ValidateNow, Validate, PageValidate, Form, ValidIsCurrent, CompleteIsValid

LEMMA ChangeKeepsForm ==
  ASSUME NEW u, NEW picked, UsernameChanged(u, picked), mode' = mode
  PROVE  Form'
  BY DEF UsernameChanged, PageValidate, Form, ValidIsCurrent, CompleteIsValid

LEMMA FormKept == Form /\ [Next]_vars => Form'
<1> SUFFICES ASSUME Form, [Next]_vars PROVE Form'
  OBVIOUS
<1>1. ASSUME UNCHANGED <<username, parental, checked, mode, complete>> PROVE Form'
  BY <1>1 DEF checked, Form, ValidIsCurrent, CompleteIsValid
<1>2. ASSUME NEW n \in Texts, FullnameChanged(n), UNCHANGED <<parental, mode>>
      PROVE  Form'
  <2>1. CASE UNCHANGED <<username, custom, valid_username, complete, timer>>
    BY <1>2, <2>1 DEF Form, ValidIsCurrent, CompleteIsValid
  <2>2. ASSUME NEW u, UsernameChanged(u, FALSE) PROVE Form'
    BY <1>2, <2>2, ChangeKeepsForm
  <2> QED
    BY <1>2, <2>1, <2>2 DEF FullnameChanged
<1>3. ASSUME NEW n \in Texts, TypeName(n) \/ AccountsChanged(n) PROVE Form'
  BY <1>2, <1>3 DEF TypeName, AccountsChanged, options, page
<1>4. ASSUME NEW u \in Logins, NEW picked \in BOOLEAN, TypeUsername(u) \/ PickUsername(u, picked)
      PROVE  Form'
  <2>1. mode' = mode /\ (UsernameChanged(u, FALSE) \/ UsernameChanged(u, picked))
    BY <1>4 DEF TypeUsername, PickUsername, page
  <2> QED
    BY <2>1, ChangeKeepsForm
<1>5. CASE ToggleParental
  <2>1. ValidateNow(parental', mode') /\ username' = username
    BY <1>5 DEF ToggleParental, entries, page
  <2> QED
    BY <2>1, ValidationKeepsForm
<1>6. ASSUME ValidateNow(parental, mode), UNCHANGED <<parental, mode, username>> PROVE Form'
  <2>1. ValidateNow(parental', mode')
    BY <1>6
  <2> QED
    BY <1>6, <2>1, ValidationKeepsForm
<1>7. CASE Timeout
  BY <1>6, <1>7 DEF Timeout, entries, options, page
<1>8. ASSUME NEW f \in {"name", "username", "elsewhere"}, Focus(f) PROVE Form'
  <2>1. UNCHANGED <<username, parental, mode>>
    BY <1>8 DEF Focus, entries, options
  <2>2. ValidateNow(parental, mode) \/ UNCHANGED <<timer, checked, complete>>
    BY <1>8 DEF Focus
  <2> QED
    BY <2>1, <2>2, <1>1, <1>6
<1>9. CASE ToggleMode
  <2>1. UNCHANGED <<username, parental>>
    BY <1>9 DEF ToggleMode, entries, options
  <2>2. CASE ValidateNow(parental, mode')
    <3>1. ValidateNow(parental', mode')
      BY <2>1, <2>2
    <3> QED
      BY <2>1, <3>1, ValidationKeepsForm
  <2>3. CASE /\ complete' = PageValidate(valid_name /\ valid_username, mode', domain)
             /\ UNCHANGED <<timer, checked>>
    BY <2>1, <2>3 DEF PageValidate, checked, Form, ValidIsCurrent, CompleteIsValid
  <2> QED
    BY <1>9, <2>2, <2>3 DEF ToggleMode
<1>10. CASE EditDomain
  BY <1>10 DEF EditDomain, form, entries, options, checked, Form, ValidIsCurrent,
               CompleteIsValid
<1>11. CASE Leave /\ UNCHANGED <<username, parental, mode>>
  BY <1>1, <1>6, <1>11 DEF Leave
<1>12. CASE NextLocal \/ ActivateUsername
  BY <1>11, <1>12 DEF NextLocal, ActivateUsername, entries, options
<1>13. CASE ActivateName
  BY <1>6, <1>13 DEF ActivateName, entries, options
<1>14. CASE NextEnterprise \/ (\E valid \in BOOLEAN : EnterpriseApplied(valid)) \/ Previous
  BY <1>1, <1>14 DEF NextEnterprise, EnterpriseApplied, Previous, form, entries, options
<1>15. CASE UNCHANGED vars
  BY <1>1, <1>15 DEF vars, form, entries, options, page
<1> QED
  BY <1>3, <1>4, <1>5, <1>7, <1>8, <1>9, <1>10, <1>12, <1>13, <1>14, <1>15 DEF Next

(* Only the button changes the type.                                       *)
LEMMA TypeKept == TypeIsParental /\ [Next]_vars => TypeIsParental'
<1> SUFFICES ASSUME TypeIsParental, [Next]_vars PROVE TypeIsParental'
  OBVIOUS
<1>1. CASE ToggleParental
  BY <1>1 DEF ToggleParental, TypeIsParental
<1>2. CASE UNCHANGED options
  BY <1>2 DEF options, TypeIsParental
<1>3. CASE ~ToggleParental
  <2>1. UNCHANGED options
    BY <1>3 DEF Next, TypeName, AccountsChanged, TypeUsername, PickUsername, Timeout,
                Focus, ToggleMode, EditDomain, NextLocal, ActivateName, ActivateUsername,
                NextEnterprise, EnterpriseApplied, Previous, form, vars
  <2> QED
    BY <1>2, <2>1
<1> QED
  BY <1>1, <1>3

-----------------------------------------------------------------------------
(* The driver.                                                             *)

(* The three ways to apply the local form all come with a valid user name. *)
LEMMA ApplyIsValid ==
  Form /\ (NextLocal \/ ActivateUsername \/ (ActivateName /\ FormValid)) =>
    ApplyLocal /\ IsValidUsername(username, parental)
  BY DEF Form, ValidIsCurrent, CompleteIsValid, NextLocal, ActivateUsername, ActivateName,
         FormValid, Shown

(* Every other step but those of a join leaves the driver alone.           *)
LEMMA DriverKept ==
  /\ Form
  /\ [Next]_vars
  /\ ~NextEnterprise
  /\ ~(\E valid \in BOOLEAN : EnterpriseApplied(valid))
  => \/ UNCHANGED driver
     \/ ApplyLocal /\ IsValidUsername(username, parental) /\ Shown /\ place' = "later"
          /\ UNCHANGED <<mode, parental, applying>>
<1> SUFFICES ASSUME Form, [Next]_vars, ~NextEnterprise,
                    ~(\E valid \in BOOLEAN : EnterpriseApplied(valid))
             PROVE  \/ UNCHANGED driver
                    \/ /\ ApplyLocal /\ IsValidUsername(username, parental) /\ Shown
                       /\ place' = "later" /\ UNCHANGED <<mode, parental, applying>>
  OBVIOUS
<1>1. CASE NextLocal
  BY <1>1, ApplyIsValid DEF NextLocal, Leave, options
<1>2. CASE ActivateUsername
  <2>1. ApplyLocal /\ IsValidUsername(username, parental)
    BY <1>2, ApplyIsValid
  <2> QED
    BY <1>2, <2>1 DEF ActivateUsername, Leave, options
<1>3. CASE ActivateName
  <2>1. CASE FormValid
    BY <1>3, <2>1, ApplyIsValid DEF ActivateName, options
  <2>2. CASE ~FormValid
    BY <1>3, <2>2 DEF ActivateName
  <2> QED
    BY <2>1, <2>2
<1>4. CASE ~NextLocal /\ ~ActivateUsername /\ ~ActivateName
  BY <1>4 DEF Next, TypeName, AccountsChanged, TypeUsername, PickUsername, ToggleParental,
              Timeout, Focus, ToggleMode, EditDomain, Previous, vars
<1> QED
  BY <1>1, <1>2, <1>3, <1>4

LEMMA AppliedKept == Form /\ AppliedIsValid /\ [Next]_vars => AppliedIsValid'
<1> SUFFICES ASSUME Form, AppliedIsValid, [Next]_vars PROVE AppliedIsValid'
  OBVIOUS
<1> USE DEF AppliedIsValid
<1>1. CASE NextEnterprise
  BY <1>1 DEF NextEnterprise, IsValidUsername
<1>2. ASSUME NEW valid \in BOOLEAN, EnterpriseApplied(valid) PROVE AppliedIsValid'
  BY <1>2 DEF EnterpriseApplied
<1>3. CASE UNCHANGED driver
  BY <1>3 DEF driver
<1>4. CASE ApplyLocal /\ IsValidUsername(username, parental)
  BY <1>4 DEF ApplyLocal, IsValidUsername
<1> QED
  BY <1>1, <1>2, <1>3, <1>4, DriverKept

LEMMA LeftKept == Form /\ Left /\ [Next]_vars => Left'
<1> SUFFICES ASSUME Form, Left, [Next]_vars PROVE Left'
  OBVIOUS
<1> USE DEF Left, ApplyingEnterprise, AppliedIsSaved, ParentalApplied
<1>1. CASE NextEnterprise
  BY <1>1 DEF NextEnterprise
<1>2. ASSUME NEW valid \in BOOLEAN, EnterpriseApplied(valid) PROVE Left'
  BY <1>2 DEF EnterpriseApplied
<1>3. CASE ApplyLocal /\ IsValidUsername(username, parental) /\ Shown /\ place' = "later"
             /\ UNCHANGED <<mode, parental, applying>>
  BY <1>3, ValuesAssumption DEF ApplyLocal, IsValidUsername, Shown
<1>4. CASE UNCHANGED driver /\ ~NextEnterprise /\ ~(\E valid \in BOOLEAN : EnterpriseApplied(valid))
  <2>1. ASSUME UNCHANGED <<mode, parental, applying, place>> PROVE Left'
    BY <1>4, <2>1 DEF driver
  <2>2. ASSUME place' = "account", mode' = mode \/ ~applying, applying' = applying PROVE Left'
    BY <1>4, <2>2 DEF driver
  <2>3. CASE \/ \E n \in Texts : TypeName(n) \/ AccountsChanged(n)
             \/ \E u \in Logins : TypeUsername(u) \/ (\E picked \in BOOLEAN : PickUsername(u, picked))
             \/ Timeout
             \/ \E f \in {"name", "username", "elsewhere"} : Focus(f)
             \/ EditDomain
             \/ UNCHANGED vars
    BY <2>1, <2>3 DEF TypeName, AccountsChanged, TypeUsername, PickUsername, Timeout, Focus,
                      EditDomain, options, page, form, vars
  <2>4. CASE ToggleParental \/ ToggleMode \/ Previous
    BY <2>2, <2>4 DEF ToggleParental, ToggleMode, Previous, Shown, page
  <2>5. CASE NextLocal \/ ActivateUsername
    <3>1. ApplyLocal /\ IsValidUsername(username, parental)
      BY <2>5, ApplyIsValid
    <3> QED
      BY <1>3, <2>5, <3>1 DEF NextLocal, ActivateUsername, Leave, options
  <2>6. CASE ActivateName
    <3>1. CASE FormValid
      <4>1. ApplyLocal /\ IsValidUsername(username, parental)
        BY <2>6, <3>1, ApplyIsValid
      <4> QED
        BY <1>3, <2>6, <3>1, <4>1 DEF ActivateName, options
    <3>2. CASE ~FormValid
      BY <2>1, <2>6, <3>2 DEF ActivateName, options
    <3> QED
      BY <3>1, <3>2
  <2> QED
    BY <1>4, <2>3, <2>4, <2>5, <2>6 DEF Next
<1> QED
  BY <1>1, <1>2, <1>3, <1>4, DriverKept

LEMMA Invariance == Spec => []IInv
<1>1. Init => IInv
  BY DEF Init, IInv, Form, ValidIsCurrent, CompleteIsValid, TypeIsParental, AppliedIsValid,
         Left, ApplyingEnterprise, AppliedIsSaved, ParentalApplied
<1>2. IInv /\ [Next]_vars => IInv'
  BY FormKept, TypeKept, AppliedKept, LeftKept DEF IInv
<1> QED
  BY <1>1, <1>2, PTL DEF Spec

-----------------------------------------------------------------------------
(* Types: flags and words.                                                 *)

Checks == {valid_name, valid_username, timer, complete} \subseteq BOOLEAN

Flags ==
  /\ Checks
  /\ {custom, parental, domain, applying, driver_parental} \subseteq BOOLEAN

Words ==
  /\ name \in Texts /\ username \in Logins /\ driver_username \in Logins
  /\ account_type \in {"administrator", "standard"}
  /\ focus \in {"name", "username", "elsewhere"}
  /\ mode \in {"local", "enterprise"} /\ place \in {"account", "later"}

LEMMA FlagsKept == Flags /\ [Next]_vars => Flags'
<1> SUFFICES ASSUME Flags, [Next]_vars PROVE Flags'
  OBVIOUS
<1> USE DEF Flags, Checks
<1>1. ASSUME NEW p, NEW m, ValidateNow(p, m) PROVE Checks'
  <2>1. valid_name' \in BOOLEAN /\ valid_username' \in BOOLEAN /\ timer' \in BOOLEAN
    <3>1. IsValidName(name) \in BOOLEAN
      BY DEF IsValidName
    <3>2. IsValidUsername(username, p) \in BOOLEAN
      BY DEF IsValidUsername
    <3>3. /\ timer' = FALSE
          /\ valid_name' = IsValidName(name)
          /\ valid_username' = IsValidUsername(username, p)
      BY <1>1 DEF ValidateNow, Validate
    <3> QED
      BY <3>1, <3>2, <3>3
  <2>2. (valid_name' /\ valid_username') \in BOOLEAN /\ domain \in BOOLEAN
    OBVIOUS
  <2>3. complete' \in BOOLEAN
    BY <1>1, <2>2 DEF ValidateNow, PageValidate
  <2> QED
    BY <2>1, <2>3
<1>2. ASSUME NEW u, NEW picked \in BOOLEAN, UsernameChanged(u, picked)
      PROVE  {custom', valid_username', timer', complete'} \subseteq BOOLEAN
  BY <1>2 DEF UsernameChanged, PageValidate
<1>3. ASSUME NEW n, FullnameChanged(n) PROVE Checks' /\ custom' \in BOOLEAN
  BY <1>2, <1>3 DEF FullnameChanged
<1>4. ASSUME NEW n \in Texts, TypeName(n) \/ AccountsChanged(n) PROVE Flags'
  BY <1>3, <1>4 DEF TypeName, AccountsChanged, options, page, driver
<1>5. ASSUME NEW u \in Logins, NEW picked \in BOOLEAN, TypeUsername(u) \/ PickUsername(u, picked)
      PROVE  Flags'
  BY <1>2, <1>5 DEF TypeUsername, PickUsername, options, page, driver
<1>6. CASE ToggleParental
  <2>1. Checks'
    BY <1>1, <1>6 DEF ToggleParental
  <2>2. {custom', parental', domain', applying', driver_parental'} \subseteq BOOLEAN
    BY <1>6 DEF ToggleParental, entries, page, driver
  <2> QED
    BY <2>1, <2>2
<1>7. CASE Timeout
  BY <1>1, <1>7 DEF Timeout, entries, options, page, driver
<1>8. ASSUME NEW f \in {"name", "username", "elsewhere"}, Focus(f) PROVE Flags'
  BY <1>1, <1>8 DEF Focus, entries, options, checked, driver
<1>9. CASE ToggleMode
  <2>1. Checks'
    BY <1>1, <1>9 DEF ToggleMode, PageValidate, checked
  <2> QED
    BY <1>9, <2>1 DEF ToggleMode, entries, options, driver
<1>10. CASE EditDomain
  BY <1>10 DEF EditDomain, form, entries, options, checked, driver
<1>11. ASSUME Leave PROVE Checks'
  BY <1>1, <1>11 DEF Leave, checked
<1>12. CASE NextLocal \/ ActivateUsername
  BY <1>11, <1>12 DEF NextLocal, ActivateUsername, ApplyLocal, entries, options
<1>13. CASE ActivateName
  BY <1>1, <1>13 DEF ActivateName, ApplyLocal, entries, options, driver
<1>14. CASE NextEnterprise
  BY <1>14 DEF NextEnterprise, form, entries, options, checked
<1>15. ASSUME NEW valid \in BOOLEAN, EnterpriseApplied(valid) PROVE Flags'
  BY <1>15 DEF EnterpriseApplied, form, entries, options, checked
<1>16. CASE Previous
  BY <1>16 DEF Previous, form, entries, options, checked, driver
<1>17. CASE UNCHANGED vars
  BY <1>17 DEF vars, form, entries, options, checked, page, driver
<1> QED
  BY <1>4, <1>5, <1>6, <1>7, <1>8, <1>9, <1>10, <1>12, <1>13, <1>14, <1>15, <1>16, <1>17
     DEF Next

LEMMA WordsKept == Words /\ [Next]_vars => Words'
<1> SUFFICES ASSUME Words, [Next]_vars PROVE Words'
  OBVIOUS
<1> USE DEF Words
<1>1. ASSUME NEW n \in Texts, TypeName(n) \/ AccountsChanged(n) PROVE Words'
  <2>1. name' \in Texts /\ username' \in Logins
    BY <1>1 DEF TypeName, AccountsChanged, FullnameChanged, UsernameChanged, Logins
  <2> QED
    BY <1>1, <2>1 DEF TypeName, AccountsChanged, options, page, driver
<1>2. ASSUME NEW u \in Logins, NEW picked \in BOOLEAN, TypeUsername(u) \/ PickUsername(u, picked)
      PROVE  Words'
  BY <1>2 DEF TypeUsername, PickUsername, UsernameChanged, options, page, driver
<1>3. CASE ToggleParental
  BY <1>3 DEF ToggleParental, entries, page, driver
<1>4. CASE Timeout
  BY <1>4 DEF Timeout, entries, options, page, driver
<1>5. ASSUME NEW f \in {"name", "username", "elsewhere"}, Focus(f) PROVE Words'
  BY <1>5 DEF Focus, entries, options, driver
<1>6. CASE ToggleMode
  BY <1>6 DEF ToggleMode, entries, options, driver
<1>7. CASE EditDomain
  BY <1>7 DEF EditDomain, form, entries, options, driver
<1>8. CASE NextLocal \/ ActivateUsername
  BY <1>8 DEF NextLocal, ActivateUsername, ApplyLocal, Leave, entries, options
<1>9. CASE ActivateName
  BY <1>9 DEF ActivateName, ApplyLocal, entries, options, driver
<1>10. CASE NextEnterprise \/ Previous
  BY <1>10 DEF NextEnterprise, Previous, form, entries, options, driver
<1>11. ASSUME NEW valid \in BOOLEAN, EnterpriseApplied(valid) PROVE Words'
  BY <1>11 DEF EnterpriseApplied, form, entries, options, Logins
<1>12. CASE UNCHANGED vars
  BY <1>12 DEF vars, form, entries, options, page, driver
<1> QED
  BY <1>1, <1>2, <1>3, <1>4, <1>5, <1>6, <1>7, <1>8, <1>9, <1>10, <1>11, <1>12 DEF Next

LEMMA EditsKept == edits \in 0..MaxEdits /\ [Next]_vars => edits' \in 0..MaxEdits
<1> SUFFICES ASSUME edits \in 0..MaxEdits, [Next]_vars PROVE edits' \in 0..MaxEdits
  OBVIOUS
<1>1. Edit \/ edits' = edits
  BY DEF Next, TypeName, AccountsChanged, TypeUsername, PickUsername, ToggleParental,
         Timeout, Focus, ToggleMode, EditDomain, NextLocal, ActivateName, ActivateUsername,
         NextEnterprise, EnterpriseApplied, Previous, vars
<1> QED
  BY <1>1, BoundAssumption DEF Edit

(* Whatever is typed, suggested, toggled and applied, every variable keeps *)
(* its type.                                                               *)
THEOREM TypeCorrect == Spec => []TypeOK
<1>1. Init => TypeOK
  <2> SUFFICES ASSUME Init PROVE Flags /\ Words /\ edits \in 0..MaxEdits
    BY DEF TypeOK, Flags, Checks, Words
  <2>1. Flags
    BY DEF Init, Flags, Checks
  <2>2. Words
    BY DEF Init, Words, Texts, Logins
  <2>3. edits \in 0..MaxEdits
    BY BoundAssumption DEF Init
  <2> QED
    BY <2>1, <2>2, <2>3
<1>2. TypeOK /\ [Next]_vars => TypeOK'
  <2> SUFFICES ASSUME TypeOK, [Next]_vars PROVE TypeOK'
    OBVIOUS
  <2>1. Flags /\ Words /\ edits \in 0..MaxEdits
    BY DEF TypeOK, Flags, Checks, Words
  <2>2. Flags' /\ Words' /\ edits' \in 0..MaxEdits
    BY <2>1, FlagsKept, WordsKept, EditsKept
  <2> QED
    BY <2>2 DEF TypeOK, Flags, Checks, Words
<1> QED
  BY <1>1, <1>2, PTL DEF Spec

-----------------------------------------------------------------------------
(* A local page is complete only with a user name that can be created,     *)
(* whatever the suggestions, the online accounts and the button did to it. *)
THEOREM CompleteIsChecked == Spec => []UsernameChecked
<1>1. IInv => UsernameChecked
  BY DEF IInv, Form, ValidIsCurrent, CompleteIsValid, UsernameChecked
<1> QED
  BY <1>1, Invariance, PTL

(* By every way of applying it: Next, or Enter in either entry.            *)
THEOREM DriverToldValid == Spec => []AppliedIsValid
  BY Invariance, PTL DEF IInv

(* The mode whose account is saved is the mode that was applied, however   *)
(* often the user went back and changed his mind.                          *)
THEOREM ModeIsApplied == Spec => []AppliedIsSaved
  BY Invariance, PTL DEF IInv, Left

(* A standard user is created only along with an administrator.            *)
THEOREM AdministratorOrParent == Spec => []OneAdministrator
<1>1. IInv => OneAdministrator
  BY DEF IInv, TypeIsParental, Left, ParentalApplied, OneAdministrator
<1> QED
  BY <1>1, Invariance, PTL

=============================================================================
