------------------------- MODULE AccountSavingProofs -------------------------
(***************************************************************************)
(* Proofs about saving the accounts: whatever call fails or is the last, a *)
(* child is never left without an administrator.                           *)
(***************************************************************************)
EXTENDS AccountSaving, Integers, SequenceTheorems, TLAPS

(* The steps of a saving with parental controls, in their order.           *)
Guarded ==
  <<"create parent", "parent at login", "keep parent", "create main", "keep main",
    "set password", "keep password", "update keyring", "filter apps",
    "set parent password">>

(* What k steps of such a saving have done for the parent.                 *)
ParentAfter(k) ==
  /\ todo = SubSeq(Guarded, k + 1, 10)
  /\ k >= 1 => parent_type = "administrator"
  /\ k >= 2 /\ ~lost => at_login \/ parent_password # None

(* A saving with parental controls is in the middle of these steps, and has*)
(* a password for the parent.                                              *)
GuardedInOrder ==
  todo # <<>> /\ parental =>
    entered_parent # None /\ \E k \in 0..9 : ParentAfter(k)

(* Parental controls are applied with the forms.                           *)
FormsUnguarded == phase = "forms" => ~parental

(* Without them nothing is done to an administrator's password.            *)
OnlyGuarded ==
  ~parental => todo \in Seq(Step \ {"set parent password"})

IInv == FormsUnguarded /\ GuardedInOrder /\ OnlyGuarded /\ ChildHasParent

-----------------------------------------------------------------------------
(* The order of the steps.                                                 *)

LEMMA GuardedIsSeq == Guarded \in Seq(Step) /\ Len(Guarded) = 10
  BY DEF Guarded, Step

(* One run of steps behind another is the run with the elements of both.   *)
LEMMA Behind ==
  ASSUME NEW s \in Seq(Step), NEW t \in Seq(Step), NEW r \in Seq(Step),
         Len(r) = Len(s) + Len(t),
         \A i \in 1..Len(s) : r[i] = s[i],
         \A i \in 1..Len(t) : r[i + Len(s)] = t[i]
  PROVE  s \o t = r
<1>1. Len(s) \in Nat /\ Len(t) \in Nat
  BY LenProperties
<1>2. /\ s \o t \in Seq(Step) /\ Len(s \o t) = Len(s) + Len(t)
      /\ \A i \in 1..Len(s) + Len(t) :
           (s \o t)[i] = IF i <= Len(s) THEN s[i] ELSE t[i - Len(s)]
  BY ConcatProperties
<1>3. ASSUME NEW i \in 1..Len(s) + Len(t) PROVE (s \o t)[i] = r[i]
  <2>1. CASE i <= Len(s)
    <3>1. i \in 1..Len(s)
      BY <1>1, <2>1
    <3> QED
      BY <1>2, <2>1, <3>1
  <2>2. CASE ~(i <= Len(s))
    <3>1. i - Len(s) \in 1..Len(t) /\ (i - Len(s)) + Len(s) = i
      BY <1>1, <2>2
    <3>2. r[(i - Len(s)) + Len(s)] = t[i - Len(s)]
      BY <3>1
    <3> QED
      BY <1>2, <2>2, <3>1, <3>2
  <2> QED
    BY <2>1, <2>2
<1> QED
  BY <1>2, <1>3, SeqEqual

LEMMA SaveStepsGuarded == SaveSteps("local", TRUE) = Guarded
<1> DEFINE a == <<"create parent", "parent at login", "keep parent">>
           b == <<"create main", "keep main">>
           c == <<"set password", "keep password", "update keyring">>
           d == <<"filter apps", "set parent password">>
           ab == <<"create parent", "parent at login", "keep parent", "create main", "keep main">>
           abc == <<"create parent", "parent at login", "keep parent", "create main", "keep main",
                    "set password", "keep password", "update keyring">>
<1>1. SaveSteps("local", TRUE) = ((a \o b) \o c) \o d
  BY DEF SaveSteps, AccountSteps, PasswordSteps
<1>2. /\ a \in Seq(Step) /\ b \in Seq(Step) /\ c \in Seq(Step) /\ d \in Seq(Step)
      /\ ab \in Seq(Step) /\ abc \in Seq(Step)
  BY DEF Step
<1>3. /\ Len(a) = 3 /\ Len(b) = 2 /\ Len(c) = 3 /\ Len(d) = 2
      /\ Len(ab) = 5 /\ Len(abc) = 8
  OBVIOUS
<1>4. a \o b = ab
  <2>1. (\A i \in 1..3 : ab[i] = a[i]) /\ (\A i \in 1..2 : ab[i + 3] = b[i])
    OBVIOUS
  <2>2. Len(ab) = Len(a) + Len(b)
    BY <1>3
  <2> HIDE DEF a, b, ab
  <2>3. \A i \in 1..Len(a) : ab[i] = a[i]
    BY <1>3, <2>1
  <2>4. \A i \in 1..Len(b) : ab[i + Len(a)] = b[i]
    BY <1>3, <2>1
  <2> QED
    BY <1>2, <2>2, <2>3, <2>4, Behind
<1>5. ab \o c = abc
  <2>1. (\A i \in 1..5 : abc[i] = ab[i]) /\ (\A i \in 1..3 : abc[i + 5] = c[i])
    OBVIOUS
  <2>2. Len(abc) = Len(ab) + Len(c)
    BY <1>3
  <2> HIDE DEF ab, c, abc
  <2>3. \A i \in 1..Len(ab) : abc[i] = ab[i]
    BY <1>3, <2>1
  <2>4. \A i \in 1..Len(c) : abc[i + Len(ab)] = c[i]
    BY <1>3, <2>1
  <2> QED
    BY <1>2, <2>2, <2>3, <2>4, Behind
<1>6. abc \o d = Guarded
  <2>1. (\A i \in 1..8 : Guarded[i] = abc[i]) /\ (\A i \in 1..2 : Guarded[i + 8] = d[i])
    BY DEF Guarded
  <2>2. Len(Guarded) = Len(abc) + Len(d)
    BY <1>3, GuardedIsSeq
  <2> HIDE DEF abc, d
  <2>3. \A i \in 1..Len(abc) : Guarded[i] = abc[i]
    BY <1>3, <2>1
  <2>4. \A i \in 1..Len(d) : Guarded[i + Len(abc)] = d[i]
    BY <1>3, <2>1
  <2> QED
    BY <1>2, <2>2, <2>3, <2>4, GuardedIsSeq, Behind
<1> QED
  BY <1>1, <1>4, <1>5, <1>6

(* One step of a saving with parental controls.                            *)
LEMMA GuardedStep ==
  ASSUME NEW k \in 0..9, todo = SubSeq(Guarded, k + 1, 10)
  PROVE  /\ Head(todo) = Guarded[k + 1]
         /\ Tail(todo) # <<>> => k + 1 \in 0..9
         /\ Tail(todo) = SubSeq(Guarded, (k + 1) + 1, 10)
<1>1. Head(todo) = Guarded[k + 1] /\ Tail(todo) = SubSeq(Guarded, (k + 1) + 1, 10)
  BY GuardedIsSeq, HeadTailOfSubSeq
<1>2. k = 9 => SubSeq(Guarded, (k + 1) + 1, 10) = <<>>
  BY SubSeqEmpty
<1> QED
  BY <1>1, <1>2

-----------------------------------------------------------------------------
(* A child has an administrator.                                           *)

(* Only these steps touch what the parent can log in with.                 *)
LEMMA ParentKept ==
  ASSUME Saving, entered_parent # None, SaveStep \/ SaveLost
  PROVE  /\ todo' = Tail(todo)
         /\ UNCHANGED <<phase, parental, entered_parent>>
         /\ parent_type' = "administrator" \/ UNCHANGED parent_type
         /\ Head(todo) = "create parent" => parent_type' = "administrator"
         /\ ~lost' => ~lost
         /\ Head(todo) = "parent at login" /\ ~lost' => at_login'
         /\ at_login \/ parent_password # None =>
              at_login' \/ parent_password' # None
<1>1. CASE CreateParent
  BY <1>1 DEF CreateParent, Do, choices
<1>2. CASE ParentAtLogin
  BY <1>2 DEF ParentAtLogin, Do, choices
<1>3. CASE SetParentPassword
  BY <1>3 DEF SetParentPassword, Do, choices
<1>4. CASE KeepParent \/ KeepMain \/ KeepPassword \/ UpdateKeyring \/ DomainKeyring \/ FilterApps
  <2>1. /\ UNCHANGED <<phase, parental, entered_parent, lost>>
        /\ UNCHANGED <<parent_type, at_login, parent_password>>
    BY <1>4 DEF KeepParent, KeepMain, KeepPassword, UpdateKeyring, DomainKeyring, FilterApps,
                choices, accounts, guardian
  <2>2. /\ todo' = Tail(todo)
        /\ Head(todo) # "create parent" /\ Head(todo) # "parent at login"
    BY <1>4 DEF KeepParent, KeepMain, KeepPassword, UpdateKeyring, DomainKeyring, FilterApps, Do
  <2> QED
    BY <2>1, <2>2
<1>5. CASE CreateMain \/ SetPassword
  <2>1. /\ UNCHANGED <<phase, parental, entered_parent, lost>>
        /\ UNCHANGED <<parent_type, at_login, parent_password>>
    BY <1>5 DEF CreateMain, SetPassword, choices, guardian
  <2>2. /\ todo' = Tail(todo)
        /\ Head(todo) # "create parent" /\ Head(todo) # "parent at login"
    BY <1>5 DEF CreateMain, SetPassword, Do
  <2> QED
    BY <2>1, <2>2
<1>6. CASE SaveLost
  BY <1>6 DEF SaveLost, choices, accounts, guardian
<1> QED
  BY <1>1, <1>2, <1>3, <1>4, <1>5, <1>6 DEF SaveStep

LEMMA OrderKept ==
  ASSUME IInv, Saving, SaveStep \/ SaveLost
  PROVE  GuardedInOrder'
<1> SUFFICES ASSUME todo' # <<>>, parental'
             PROVE  entered_parent' # None /\ \E k \in 0..9 : ParentAfter(k)'
  BY DEF GuardedInOrder
<1>1. UNCHANGED parental
  BY DEF SaveStep, SaveLost, CreateParent, ParentAtLogin, SetParentPassword, KeepParent,
         KeepMain, KeepPassword, UpdateKeyring, DomainKeyring, FilterApps, CreateMain,
         SetPassword, choices
<1>2. entered_parent # None /\ \E k \in 0..9 : ParentAfter(k)
  BY <1>1 DEF IInv, GuardedInOrder, Saving
<1>3. PICK k \in 0..9 : ParentAfter(k)
  BY <1>2
<1>4. /\ Head(todo) = Guarded[k + 1]
      /\ Tail(todo) # <<>> => k + 1 \in 0..9
      /\ Tail(todo) = SubSeq(Guarded, (k + 1) + 1, 10)
  BY <1>3, GuardedStep DEF ParentAfter
<1>5. Guarded[1] = "create parent" /\ Guarded[2] = "parent at login"
  BY DEF Guarded
<1>6. entered_parent' # None /\ k + 1 \in 0..9 /\ todo' = SubSeq(Guarded, (k + 1) + 1, 10)
  BY <1>2, <1>4, ParentKept
<1>7. k + 1 >= 1 => parent_type' = "administrator"
  <2>1. CASE k = 0
    <3>1. k + 1 = 1
      BY <2>1
    <3>2. Head(todo) = "create parent"
      BY <1>4, <1>5, <3>1, Zenon
    <3> QED
      BY <1>2, <3>2, ParentKept
  <2>2. CASE k >= 1
    BY <1>2, <1>3, <2>2, ParentKept DEF ParentAfter
  <2> QED
    BY <2>1, <2>2
<1>8. k + 1 >= 2 /\ ~lost' => at_login' \/ parent_password' # None
  <2>1. CASE k = 1
    <3>1. k + 1 = 2
      BY <2>1
    <3>2. Head(todo) = "parent at login"
      BY <1>4, <1>5, <3>1, Zenon
    <3> QED
      BY <1>2, <3>2, ParentKept
  <2>2. CASE k >= 2
    BY <1>2, <1>3, <2>2, ParentKept DEF ParentAfter
  <2> QED
    BY <2>1, <2>2
<1>9. ParentAfter(k + 1)'
  BY <1>6, <1>7, <1>8 DEF ParentAfter
<1> QED
  BY <1>6, <1>9

LEMMA ChildKept ==
  ASSUME IInv, Saving, SaveStep \/ SaveLost
  PROVE  ChildHasParent'
<1> SUFFICES ASSUME main_type' = "standard", ~lost'
             PROVE  parent_type' = "administrator" /\ (at_login' \/ parent_password' # None)
  BY DEF ChildHasParent
<1>1. CASE ~CreateMain /\ ~SetParentPassword
  <2>1. main_type' = main_type
    BY <1>1 DEF SaveStep, SaveLost, CreateParent, ParentAtLogin, KeepParent,
         KeepMain, KeepPassword, UpdateKeyring, DomainKeyring, FilterApps,
         SetPassword, accounts, main
  <2>2. lost' = lost \/ lost' = TRUE
    BY <1>1 DEF SaveStep, SaveLost, CreateParent, ParentAtLogin, KeepParent,
         KeepMain, KeepPassword, UpdateKeyring, DomainKeyring, FilterApps,
         SetPassword
  <2>3. parent_type = "administrator" /\ (at_login \/ parent_password # None)
    BY <2>1, <2>2 DEF IInv, ChildHasParent
  <2>4. \/ parent_type' = "administrator" /\ UNCHANGED <<at_login, parent_password>>
        \/ UNCHANGED parent_type /\ at_login' = TRUE
        \/ UNCHANGED <<parent_type, at_login, parent_password>>
    BY <1>1 DEF SaveStep, SaveLost, CreateParent, ParentAtLogin, KeepParent,
         KeepMain, KeepPassword, UpdateKeyring, DomainKeyring, FilterApps,
         SetPassword, accounts, guardian
  <2> QED
    BY <2>3, <2>4
<1>2. ASSUME CreateMain \/ SetParentPassword, parental
      PROVE  parent_type' = "administrator" /\ (at_login' \/ parent_password' # None)
  <2>1. PICK k \in 0..9 : ParentAfter(k)
    BY <1>2 DEF IInv, GuardedInOrder, Saving
  <2>2. Head(todo) = Guarded[k + 1] /\ Head(todo) \in {"create main", "set parent password"}
    BY <1>2, <2>1, GuardedStep DEF ParentAfter, CreateMain, SetParentPassword, Do
  <2>3. Guarded[1] = "create parent" /\ Guarded[2] = "parent at login"
    BY DEF Guarded
  <2>4. k # 0 /\ k # 1
    <3>1. Head(todo) # Guarded[1] /\ Head(todo) # Guarded[2]
      BY <2>2, <2>3
    <3>2. k + 1 # 1 /\ k + 1 # 2
      BY <2>2, <3>1, Zenon
    <3> QED
      BY <3>2
  <2>5. k >= 1 /\ k >= 2
    BY <2>4
  <2>6. ~lost
    BY <1>2 DEF CreateMain, SetParentPassword
  <2>7. parent_type = "administrator" /\ (at_login \/ parent_password # None)
    BY <2>1, <2>5, <2>6 DEF ParentAfter
  <2>8. entered_parent # None
    BY <1>2 DEF IInv, GuardedInOrder, Saving
  <2>9. CASE CreateMain
    <3>1. UNCHANGED <<parent_type, at_login, parent_password>>
      BY <2>9 DEF CreateMain, guardian
    <3> QED
      BY <2>7, <3>1
  <2>10. CASE SetParentPassword
    BY <2>7, <2>8, <2>10 DEF SetParentPassword
  <2> QED
    BY <1>2, <2>9, <2>10
<1>3. CASE CreateMain /\ ~parental
  BY <1>3 DEF CreateMain
<1>4. ~(SetParentPassword /\ ~parental)
  <2>1. ~parental => Head(todo) \in Step \ {"set parent password"}
    BY HeadTailProperties DEF IInv, OnlyGuarded, Saving
  <2> QED
    BY <2>1 DEF SetParentPassword, Do
<1> QED
  BY <1>1, <1>2, <1>3, <1>4

LEMMA OnlyGuardedKept ==
  ASSUME IInv, Saving, SaveStep \/ SaveLost
  PROVE  OnlyGuarded'
<1>1. UNCHANGED parental /\ todo' = Tail(todo)
  BY DEF SaveStep, SaveLost, CreateParent, ParentAtLogin, SetParentPassword, KeepParent,
         KeepMain, KeepPassword, UpdateKeyring, DomainKeyring, FilterApps, CreateMain,
         SetPassword, Do, choices
<1>2. ~parental => Tail(todo) \in Seq(Step \ {"set parent password"})
  BY HeadTailProperties DEF IInv, OnlyGuarded, Saving
<1> QED
  BY <1>1, <1>2 DEF OnlyGuarded

(* What a saving without parental controls, or of a domain user, does.     *)
LEMMA StepsUnguarded ==
  /\ SaveSteps("local", FALSE) \in Seq(Step \ {"set parent password"})
  /\ SaveSteps("enterprise", FALSE) \in Seq(Step \ {"set parent password"})
<1> DEFINE S == Step \ {"set parent password"}
           b == <<"create main", "keep main">>
           c == <<"set password", "keep password", "update keyring">>
<1>1. b \in Seq(S) /\ c \in Seq(S) /\ <<"domain keyring">> \in Seq(S)
  BY DEF Step
<1>2. <<>> \in Seq(S)
  BY EmptySeq
<1>3. /\ SaveSteps("local", FALSE) = ((<<>> \o b) \o c) \o <<>>
      /\ SaveSteps("enterprise", FALSE) = <<"domain keyring">>
  BY DEF SaveSteps, AccountSteps, PasswordSteps
<1> HIDE DEF S, b, c
<1>4. <<>> \o b \in Seq(S)
  BY <1>1, <1>2, ConcatProperties
<1>5. (<<>> \o b) \o c \in Seq(S)
  BY <1>1, <1>4, ConcatProperties
<1>6. ((<<>> \o b) \o c) \o <<>> \in Seq(S)
  BY <1>2, <1>5, ConcatProperties
<1> QED
  BY <1>1, <1>3, <1>6 DEF S

LEMMA InitIInv == Init => IInv
<1> SUFFICES ASSUME Init PROVE IInv
  OBVIOUS
<1>1. <<>> \in Seq(Step \ {"set parent password"})
  BY EmptySeq
<1> QED
  BY <1>1 DEF Init, IInv, FormsUnguarded, GuardedInOrder, OnlyGuarded, ChildHasParent

LEMMA NextIInv == IInv /\ [Next]_vars => IInv'
<1> SUFFICES ASSUME IInv, [Next]_vars PROVE IInv'
  OBVIOUS
<1>1. ASSUME NEW password \in Texts, NEW guarded \in BOOLEAN, NEW guardian_password \in Texts,
             FillLocal(password, guarded, guardian_password)
      PROVE  IInv'
  <2>1. FormsUnguarded' /\ ChildHasParent'
    BY <1>1 DEF FillLocal, IInv, FormsUnguarded, ChildHasParent, accounts, main, guardian
  <2>2. OnlyGuarded'
    BY <1>1, StepsUnguarded DEF FillLocal, OnlyGuarded
  <2>3. GuardedInOrder'
    <3> SUFFICES ASSUME parental'
                 PROVE  entered_parent' # None /\ \E k \in 0..9 : ParentAfter(k)'
      BY DEF GuardedInOrder
    <3>1. guarded = TRUE
      BY <1>1 DEF FillLocal
    <3>2. entered_parent' # None /\ todo' = Guarded
      BY <1>1, <3>1, SaveStepsGuarded, PasswordsAssumption DEF FillLocal, Texts
    <3>3. SubSeq(Guarded, 0 + 1, 10) = Guarded
      BY GuardedIsSeq, SubSeqFull
    <3>4. ParentAfter(0)'
      BY <3>2, <3>3 DEF ParentAfter
    <3> QED
      BY <3>2, <3>4
  <2> QED
    BY <2>1, <2>2, <2>3 DEF IInv
<1>2. ASSUME NEW password \in Texts, RegisterDomainUser(password) PROVE IInv'
  <2>1. ~parental /\ ~parental' /\ UNCHANGED todo
    BY <1>2 DEF RegisterDomainUser, IInv, FormsUnguarded
  <2>2. main_type' = "domain"
    BY <1>2 DEF RegisterDomainUser
  <2> QED
    BY <2>1, <2>2 DEF IInv, FormsUnguarded, GuardedInOrder, OnlyGuarded, ChildHasParent
<1>3. CASE FillEnterprise
  <2>1. /\ ~parental' /\ phase' = "summary"
        /\ todo' \in Seq(Step \ {"set parent password"})
        /\ UNCHANGED <<main_type, parent_type, at_login, parent_password, lost>>
    BY <1>3, StepsUnguarded
    DEF FillEnterprise, IInv, FormsUnguarded, choices, accounts, main, guardian
  <2> QED
    BY <2>1 DEF IInv, FormsUnguarded, GuardedInOrder, OnlyGuarded, ChildHasParent
<1>4. CASE SaveStep \/ SaveLost
  <2>1. Saving
    BY <1>4 DEF SaveStep, SaveLost, CreateParent, ParentAtLogin, SetParentPassword,
         KeepParent, KeepMain, KeepPassword, UpdateKeyring, DomainKeyring, FilterApps,
         CreateMain, SetPassword, Do
  <2>2. FormsUnguarded'
    BY <1>4, <2>1 DEF Saving, FormsUnguarded, SaveStep, SaveLost, CreateParent,
         ParentAtLogin, SetParentPassword, KeepParent, KeepMain, KeepPassword,
         UpdateKeyring, DomainKeyring, FilterApps, CreateMain, SetPassword
  <2> QED
    BY <1>4, <2>1, <2>2, OrderKept, OnlyGuardedKept, ChildKept DEF IInv
<1>5. ASSUME todo' = <<>> \/ (UNCHANGED todo /\ UNCHANGED parental),
             (UNCHANGED phase /\ UNCHANGED parental) \/ phase' # "forms" \/ ~parental',
             UNCHANGED accounts, UNCHANGED lost \/ lost',
             todo' = <<>> \/ UNCHANGED entered_parent
      PROVE  IInv'
  <2>1. <<>> \in Seq(Step \ {"set parent password"})
    BY EmptySeq
  <2>2. UNCHANGED <<main_type, parent_type, at_login, parent_password>>
        /\ (~lost' => ~lost)
    BY <1>5 DEF accounts, main, guardian
  <2>3. FormsUnguarded'
    BY <1>5 DEF IInv, FormsUnguarded
  <2>4. GuardedInOrder'
    <3>1. CASE todo' = <<>>
      BY <3>1 DEF GuardedInOrder
    <3>2. CASE UNCHANGED <<todo, parental, entered_parent>>
      <4>1. todo # <<>> /\ parental =>
              entered_parent # None /\ \E k \in 0..9 : ParentAfter(k)
        BY DEF IInv, GuardedInOrder
      <4>2. ASSUME NEW k \in 0..9, ParentAfter(k) PROVE ParentAfter(k)'
        BY <2>2, <3>2, <4>2 DEF ParentAfter
      <4> QED
        BY <3>2, <4>1, <4>2 DEF GuardedInOrder
    <3> QED
      BY <1>5, <3>1, <3>2
  <2>5. OnlyGuarded'
    <3>1. CASE todo' = <<>>
      BY <2>1, <3>1 DEF OnlyGuarded
    <3>2. CASE UNCHANGED <<todo, parental>>
      BY <3>2 DEF IInv, OnlyGuarded
    <3> QED
      BY <1>5, <3>1, <3>2
  <2>6. ChildHasParent'
    BY <2>2 DEF IInv, ChildHasParent
  <2> QED
    BY <2>3, <2>4, <2>5, <2>6 DEF IInv
<1>6. CASE SaveFails
  BY <1>5, <1>6 DEF SaveFails, FailAt, choices
<1>7. CASE Done \/ SecretInfoQuery \/ SessionOpened \/ Refused \/ LoginLost
  BY <1>5, <1>7 DEF Done, SecretInfoQuery, SessionOpened, Refused, LoginLost, choices
<1>8. CASE Crash
  BY <1>5, <1>8 DEF Crash
<1>9. CASE UNCHANGED vars
  BY <1>5, <1>9 DEF vars, choices
<1> QED
  BY <1>1, <1>2, <1>3, <1>4, <1>6, <1>7, <1>8, <1>9 DEF Next

(* A child's account is never there without an administrator's that a      *)
(* parent can log in to: the parent is created, and told to choose a       *)
(* password, before the child is, and is given a password only in exchange *)
(* for that choice.                                                        *)
THEOREM ChildNeverAlone == Spec => []ChildHasParent
<1>1. Spec => []IInv
  BY InitIInv, NextIInv, PTL DEF Spec
<1>2. IInv => ChildHasParent
  BY DEF IInv
<1> QED
  BY <1>1, <1>2, PTL

-----------------------------------------------------------------------------
(* One password.  What the steps that are left will do is still to come;   *)
(* what the others did is there.                                           *)

Elems(steps) == {steps[i] : i \in DOMAIN steps}
Before(steps, a, b) ==
  \A i \in DOMAIN steps : steps[i] = a => \E j \in DOMAIN steps : j > i /\ steps[j] = b

(* No step undoes what an earlier one did.                                 *)
Ordered(steps) ==
  /\ Before(steps, "create main", "set password")
  /\ Before(steps, "keep main", "keep password")
  /\ Before(steps, "parent at login", "set parent password")

Left(step) == step \in Elems(todo)

DomainUser == user /\ main_password # None /\ user_password = main_password

LocalSaved ==
  /\ entered # None /\ Ordered(todo) /\ ~Left("domain keyring")
  /\ Left("create main") \/ (parental => main_type = "standard")
  /\ Left("keep main") \/ user
  /\ Left("set password") \/ main_password = entered
  /\ Left("keep password") \/ user_password = entered
  /\ Left("update keyring") \/ keyring = entered
  /\ parental => Left("filter apps") \/ filtered
  /\ parental => \/ Left("set parent password")
                 \/ parent_password = entered_parent /\ ~at_login

DomainSaved ==
  /\ ~parental /\ DomainUser /\ Elems(todo) \subseteq {"domain keyring"}
  /\ Left("domain keyring") \/ keyring = user_password

Saved ==
  /\ mode = "local" => LocalSaved
  /\ mode # "local" => DomainSaved

FormsInv ==
  /\ ~parental /\ held = None /\ sent = None
  /\ main_type = "domain" => mode # "local" /\ DomainUser

LoginInv ==
  /\ gdm /\ todo = <<>>
  /\ \/ held = user_password /\ sent = None
     \/ held = None /\ sent = user_password

SInv ==
  /\ todo \in Seq(Step)
  /\ phase = "forms" => FormsInv
  /\ phase = "summary" => held = None /\ sent = None
  /\ ~failed /\ ~lost =>
       /\ phase = "summary" => Saved
       /\ phase \in {"login", "session"} => Saved /\ LoginInv
       /\ phase = "stuck" => ~gdm

LEMMA NothingLeft == Elems(<<>>) = {}
BY DEF Elems

LEMMA FirstOfSteps ==
  ASSUME NEW steps \in Seq(Step), steps # <<>>
  PROVE  /\ Tail(steps) \in Seq(Step)
         /\ Elems(steps) = Elems(Tail(steps)) \cup {Head(steps)}
         /\ \A a, b : Before(steps, a, b) =>
              /\ Before(Tail(steps), a, b)
              /\ Head(steps) = a => b \in Elems(Tail(steps))
<1> DEFINE rest == Tail(steps)
<1>1. /\ rest \in Seq(Step) /\ Len(rest) = Len(steps) - 1 /\ Len(steps) \in Nat /\ Len(steps) # 0
      /\ DOMAIN steps = 1 .. Len(steps) /\ DOMAIN rest = 1 .. Len(rest)
      /\ \A i \in 1 .. Len(rest) : rest[i] = steps[i + 1]
      /\ Head(steps) = steps[1]
  BY HeadTailProperties, LenProperties, EmptySeq
<1> HIDE DEF rest
<1>2. \A i \in DOMAIN rest : i + 1 \in DOMAIN steps /\ rest[i] = steps[i + 1]
  BY <1>1
<1>3. \A i \in DOMAIN steps : i # 1 => i - 1 \in DOMAIN rest /\ steps[i] = rest[i - 1]
  BY <1>1
<1>4. 1 \in DOMAIN steps
  BY <1>1
<1>5. Elems(steps) = Elems(rest) \cup {steps[1]}
  BY <1>2, <1>3, <1>4 DEF Elems
<1>6. ASSUME NEW a, NEW b, Before(steps, a, b) PROVE Before(rest, a, b)
  <2> SUFFICES ASSUME NEW i \in DOMAIN rest, rest[i] = a
               PROVE  \E j \in DOMAIN rest : j > i /\ rest[j] = b
    BY DEF Before
  <2>1. PICK j \in DOMAIN steps : j > i + 1 /\ steps[j] = b
    BY <1>2, <1>6 DEF Before
  <2>2. j # 1 /\ j - 1 > i
    BY <1>1, <2>1
  <2> QED  BY <1>3, <2>1, <2>2
<1>7. ASSUME NEW a, NEW b, Before(steps, a, b), steps[1] = a PROVE b \in Elems(rest)
  <2>1. PICK j \in DOMAIN steps : j > 1 /\ steps[j] = b
    BY <1>4, <1>7 DEF Before
  <2>2. j # 1
    BY <1>1, <2>1
  <2> QED  BY <1>3, <2>1, <2>2 DEF Elems
<1> QED  BY <1>1, <1>5, <1>6, <1>7 DEF rest

(* A step at one place, and one behind it.                                 *)
LEMMA BeforeAt ==
  ASSUME NEW steps, NEW i, NEW j \in DOMAIN steps, NEW a, j > i,
         \A k \in DOMAIN steps : steps[k] = a => k = i
  PROVE  Before(steps, a, steps[j])
BY DEF Before

LEMMA GuardedAt ==
  /\ Guarded[1] = "create parent" /\ Guarded[2] = "parent at login" /\ Guarded[3] = "keep parent"
  /\ Guarded[4] = "create main" /\ Guarded[5] = "keep main" /\ Guarded[6] = "set password"
  /\ Guarded[7] = "keep password" /\ Guarded[8] = "update keyring" /\ Guarded[9] = "filter apps"
  /\ Guarded[10] = "set parent password" /\ DOMAIN Guarded = 1 .. 10
<1>1. DOMAIN Guarded = 1 .. 10
  BY GuardedIsSeq, LenProperties
<1> QED  BY <1>1 DEF Guarded

LEMMA GuardedOrdered ==
  /\ Ordered(Guarded) /\ "domain keyring" \notin Elems(Guarded)
  /\ {"create main", "keep main", "set password", "keep password", "update keyring",
      "filter apps", "set parent password"} \subseteq Elems(Guarded)
<1>0. DOMAIN Guarded = 1 .. 10
  BY GuardedAt, Zenon
<1>1. \A i \in DOMAIN Guarded : i = 1 \/ i = 2 \/ i = 3 \/ i = 4 \/ i = 5 \/ i = 6 \/ i = 7
                               \/ i = 8 \/ i = 9 \/ i = 10
  BY <1>0
<1>2. {2, 4, 5, 6, 7, 8, 9, 10} \subseteq DOMAIN Guarded
  BY <1>0
<1>3. Before(Guarded, "create main", "set password")
  <2>1. \A k \in DOMAIN Guarded : Guarded[k] = "create main" => k = 4
    BY <1>1, GuardedAt
  <2>2. 6 > 4 /\ 6 \in DOMAIN Guarded  BY <1>2
  <2> QED  BY <2>1, <2>2, BeforeAt, GuardedAt
<1>4. Before(Guarded, "keep main", "keep password")
  <2>1. \A k \in DOMAIN Guarded : Guarded[k] = "keep main" => k = 5
    BY <1>1, GuardedAt
  <2>2. 7 > 5 /\ 7 \in DOMAIN Guarded  BY <1>2
  <2> QED  BY <2>1, <2>2, BeforeAt, GuardedAt
<1>5. Before(Guarded, "parent at login", "set parent password")
  <2>1. \A k \in DOMAIN Guarded : Guarded[k] = "parent at login" => k = 2
    BY <1>1, GuardedAt
  <2>2. 10 > 2 /\ 10 \in DOMAIN Guarded  BY <1>2
  <2> QED  BY <2>1, <2>2, BeforeAt, GuardedAt
<1>6. "domain keyring" \notin Elems(Guarded)
  <2>1. \A k \in DOMAIN Guarded : Guarded[k] # "domain keyring"
    BY <1>1, GuardedAt
  <2> QED  BY <2>1 DEF Elems
<1>7. \A k \in DOMAIN Guarded : Guarded[k] \in Elems(Guarded)
  BY DEF Elems
<1>8. {"create main", "keep main", "set password", "keep password", "update keyring",
      "filter apps", "set parent password"} \subseteq Elems(Guarded)
  <2>1. /\ Guarded[4] \in Elems(Guarded) /\ Guarded[5] \in Elems(Guarded)
        /\ Guarded[6] \in Elems(Guarded) /\ Guarded[7] \in Elems(Guarded)
        /\ Guarded[8] \in Elems(Guarded) /\ Guarded[9] \in Elems(Guarded)
        /\ Guarded[10] \in Elems(Guarded)
    BY <1>2, <1>7
  <2> HIDE DEF Elems
  <2>2. /\ "create main" \in Elems(Guarded) /\ "keep main" \in Elems(Guarded)
        /\ "set password" \in Elems(Guarded) /\ "keep password" \in Elems(Guarded)
        /\ "update keyring" \in Elems(Guarded) /\ "filter apps" \in Elems(Guarded)
        /\ "set parent password" \in Elems(Guarded)
    BY <2>1, GuardedAt
  <2> QED  BY <2>2
<1> QED  BY <1>3, <1>4, <1>5, <1>6, <1>8 DEF Ordered

Plain == <<"create main", "keep main", "set password", "keep password", "update keyring">>

LEMMA PlainAt ==
  /\ Plain[1] = "create main" /\ Plain[2] = "keep main" /\ Plain[3] = "set password"
  /\ Plain[4] = "keep password" /\ Plain[5] = "update keyring" /\ DOMAIN Plain = 1 .. 5
  /\ Plain \in Seq(Step) /\ Len(Plain) = 5
<1>1. Plain \in Seq(Step) /\ Len(Plain) = 5
  BY DEF Plain, Step
<1>2. DOMAIN Plain = 1 .. 5
  BY <1>1, LenProperties
<1> QED  BY <1>1, <1>2 DEF Plain

LEMMA PlainOrdered ==
  /\ Ordered(Plain) /\ "domain keyring" \notin Elems(Plain)
  /\ {"create main", "keep main", "set password", "keep password", "update keyring"}
       \subseteq Elems(Plain)
<1>0. DOMAIN Plain = 1 .. 5
  BY PlainAt, Zenon
<1>1. \A i \in DOMAIN Plain : i = 1 \/ i = 2 \/ i = 3 \/ i = 4 \/ i = 5
  BY <1>0
<1>2. {1, 2, 3, 4, 5} \subseteq DOMAIN Plain
  BY <1>0
<1>3. Before(Plain, "create main", "set password")
  <2>1. \A k \in DOMAIN Plain : Plain[k] = "create main" => k = 1
    BY <1>1, PlainAt
  <2>2. 3 > 1 /\ 3 \in DOMAIN Plain  BY <1>2
  <2> QED  BY <2>1, <2>2, BeforeAt, PlainAt
<1>4. Before(Plain, "keep main", "keep password")
  <2>1. \A k \in DOMAIN Plain : Plain[k] = "keep main" => k = 2
    BY <1>1, PlainAt
  <2>2. 4 > 2 /\ 4 \in DOMAIN Plain  BY <1>2
  <2> QED  BY <2>1, <2>2, BeforeAt, PlainAt
<1>5. \A k \in DOMAIN Plain : Plain[k] # "domain keyring" /\ Plain[k] # "parent at login"
  BY <1>1, PlainAt
<1>6. Before(Plain, "parent at login", "set parent password") /\ "domain keyring" \notin Elems(Plain)
  BY <1>5 DEF Before, Elems
<1>7. /\ Plain[1] \in Elems(Plain) /\ Plain[2] \in Elems(Plain) /\ Plain[3] \in Elems(Plain)
      /\ Plain[4] \in Elems(Plain) /\ Plain[5] \in Elems(Plain)
  BY <1>2 DEF Elems
<1>8. /\ "create main" \in Elems(Plain) /\ "keep main" \in Elems(Plain)
      /\ "set password" \in Elems(Plain) /\ "keep password" \in Elems(Plain)
      /\ "update keyring" \in Elems(Plain)
  BY <1>7, PlainAt
<1> QED  BY <1>3, <1>4, <1>6, <1>8 DEF Ordered

LEMMA SaveStepsPlain == SaveSteps("local", FALSE) = Plain
<1> DEFINE b == <<"create main", "keep main">>
           c == <<"set password", "keep password", "update keyring">>
<1>1. b \in Seq(Step) /\ c \in Seq(Step) /\ Len(b) = 2 /\ Len(c) = 3
  BY DEF Step
<1>2. SaveSteps("local", FALSE) = ((<<>> \o b) \o c) \o <<>>
  BY DEF SaveSteps, AccountSteps, PasswordSteps
<1>3. (\A i \in 1..2 : Plain[i] = b[i]) /\ (\A i \in 1..3 : Plain[i + 2] = c[i])
  BY DEF Plain
<1> HIDE DEF b, c
<1>4. Len(Plain) = Len(b) + Len(c)
  <2>1. Len(Plain) = 5
    BY PlainAt, Zenon
  <2> QED  BY <1>1, <2>1
<1>5. \A i \in 1..Len(b) : Plain[i] = b[i]
  BY <1>1, <1>3
<1>6. \A i \in 1..Len(c) : Plain[i + Len(b)] = c[i]
  BY <1>1, <1>3
<1>7. b \o c = Plain
  BY <1>1, <1>4, <1>5, <1>6, PlainAt, Behind
<1>8. <<>> \o b = b /\ Plain \o <<>> = Plain
  BY <1>1, PlainAt, ConcatEmptySeq
<1> QED  BY <1>2, <1>7, <1>8

LEMMA StepsOrdered ==
  ASSUME NEW guarded \in BOOLEAN
  PROVE  /\ SaveSteps("local", guarded) \in Seq(Step)
         /\ Ordered(SaveSteps("local", guarded))
         /\ "domain keyring" \notin Elems(SaveSteps("local", guarded))
         /\ {"create main", "keep main", "set password", "keep password", "update keyring"}
               \subseteq Elems(SaveSteps("local", guarded))
         /\ guarded => {"filter apps", "set parent password"}
                          \subseteq Elems(SaveSteps("local", guarded))
<1>1. CASE guarded
  BY <1>1, SaveStepsGuarded, GuardedIsSeq, GuardedOrdered
<1>2. CASE ~guarded
  BY <1>2, SaveStepsPlain, PlainAt, PlainOrdered
<1> QED  BY <1>1, <1>2

LEMMA OnlyDomain ==
  <<"domain keyring">> \in Seq(Step) /\ Elems(<<"domain keyring">>) = {"domain keyring"}
<1> DEFINE one == <<"domain keyring">>
<1>1. one \in Seq(Step) /\ Len(one) = 1 /\ one[1] = "domain keyring"
  BY DEF Step
<1> HIDE DEF one
<1>2. DOMAIN one = 1 .. 1
  BY <1>1, LenProperties
<1>3. \A i \in DOMAIN one : i = 1
  BY <1>2
<1>4. 1 \in DOMAIN one
  BY <1>2
<1>5. Elems(one) = {"domain keyring"}
  BY <1>1, <1>3, <1>4 DEF Elems
<1> QED  BY <1>1, <1>5 DEF one

(* What one step of the saving leaves to do.                               *)
LEMMA StepTaken ==
  ASSUME todo \in Seq(Step), Saving, todo' = Tail(todo)
  PROVE  /\ todo' \in Seq(Step)
         /\ Ordered(todo) => Ordered(todo')
         /\ \A step : Left(step)' => Left(step)
         /\ \A step : Left(step) => Left(step)' \/ step = Head(todo)
         /\ Elems(todo') \subseteq Elems(todo)
         /\ Left(Head(todo))
         /\ Ordered(todo) =>
              /\ Head(todo) = "create main" => Left("set password")'
              /\ Head(todo) = "keep main" => Left("keep password")'
              /\ Head(todo) = "parent at login" => Left("set parent password")'
<1>1. todo # <<>>
  BY DEF Saving
<1>2. Elems(todo) = Elems(todo') \cup {Head(todo)} /\ todo' \in Seq(Step)
  BY <1>1, FirstOfSteps
<1>3. \A a, b : Before(todo, a, b) =>
        Before(todo', a, b) /\ (Head(todo) = a => b \in Elems(todo'))
  BY <1>1, FirstOfSteps
<1> QED  BY <1>2, <1>3, Zenon DEF Left, Ordered

(* The steps of a local user's saving.                                     *)
LEMMA LocalStep ==
  ASSUME todo \in Seq(Step), Saving, LocalSaved, SaveStep
  PROVE  LocalSaved'
<1>1. todo' = Tail(todo) /\ UNCHANGED <<entered, entered_parent, parental>>
  BY DEF SaveStep, CreateParent, ParentAtLogin, SetParentPassword, KeepParent, KeepMain,
         KeepPassword, UpdateKeyring, DomainKeyring, FilterApps, CreateMain, SetPassword,
         Do, choices
<1>2. /\ \A step : Left(step)' => Left(step)
      /\ \A step : Left(step) => Left(step)' \/ step = Head(todo)
      /\ Left(Head(todo))
      /\ Head(todo) = "create main" => Left("set password")'
      /\ Head(todo) = "keep main" => Left("keep password")'
      /\ Head(todo) = "parent at login" => Left("set parent password")'
  BY <1>1, StepTaken DEF LocalSaved
<1>3. entered' # None /\ Ordered(todo)' /\ ~Left("domain keyring")'
  BY <1>1, <1>2, StepTaken DEF LocalSaved
<1>4. Left("create main")' \/ (parental' => main_type' = "standard")
  BY <1>1, <1>2 DEF LocalSaved,
         SaveStep, CreateParent, ParentAtLogin, SetParentPassword, KeepParent, KeepMain,
         KeepPassword, UpdateKeyring, DomainKeyring, FilterApps, CreateMain, SetPassword,
         Do, accounts, main
<1>5. Left("keep main")' \/ user'
  BY <1>1, <1>2 DEF LocalSaved,
         SaveStep, CreateParent, ParentAtLogin, SetParentPassword, KeepParent, KeepMain,
         KeepPassword, UpdateKeyring, DomainKeyring, FilterApps, CreateMain, SetPassword,
         Do, driver
<1>6. Left("set password")' \/ main_password' = entered'
  BY <1>1, <1>2 DEF LocalSaved,
         SaveStep, CreateParent, ParentAtLogin, SetParentPassword, KeepParent, KeepMain,
         KeepPassword, UpdateKeyring, DomainKeyring, FilterApps, CreateMain, SetPassword,
         Do, accounts, main
<1>7. Left("keep password")' \/ user_password' = entered'
  BY <1>1, <1>2 DEF LocalSaved,
         SaveStep, CreateParent, ParentAtLogin, SetParentPassword, KeepParent, KeepMain,
         KeepPassword, UpdateKeyring, DomainKeyring, FilterApps, CreateMain, SetPassword,
         Do, driver
<1>8. Left("update keyring")' \/ keyring' = entered'
  BY <1>1, <1>2 DEF LocalSaved,
         SaveStep, CreateParent, ParentAtLogin, SetParentPassword, KeepParent, KeepMain,
         KeepPassword, UpdateKeyring, DomainKeyring, FilterApps, CreateMain, SetPassword,
         Do, effects
<1>9. parental' => Left("filter apps")' \/ filtered'
  BY <1>1, <1>2 DEF LocalSaved,
         SaveStep, CreateParent, ParentAtLogin, SetParentPassword, KeepParent, KeepMain,
         KeepPassword, UpdateKeyring, DomainKeyring, FilterApps, CreateMain, SetPassword,
         Do, effects
<1>10. parental' => \/ Left("set parent password")'
                    \/ parent_password' = entered_parent' /\ ~at_login'
  BY <1>1, <1>2 DEF LocalSaved,
         SaveStep, CreateParent, ParentAtLogin, SetParentPassword, KeepParent, KeepMain,
         KeepPassword, UpdateKeyring, DomainKeyring, FilterApps, CreateMain, SetPassword,
         Do, accounts, guardian
<1> QED  BY <1>3, <1>4, <1>5, <1>6, <1>7, <1>8, <1>9, <1>10 DEF LocalSaved

(* The one step of a domain user's saving.                                 *)
LEMMA DomainStep ==
  ASSUME todo \in Seq(Step), Saving, DomainSaved, SaveStep
  PROVE  DomainSaved'
<1>1. todo' = Tail(todo) /\ UNCHANGED parental
  BY DEF SaveStep, CreateParent, ParentAtLogin, SetParentPassword, KeepParent, KeepMain,
         KeepPassword, UpdateKeyring, DomainKeyring, FilterApps, CreateMain, SetPassword,
         Do, choices
<1>2. /\ \A step : Left(step) => Left(step)' \/ step = Head(todo)
      /\ Elems(todo') \subseteq Elems(todo) /\ Left(Head(todo))
  BY <1>1, StepTaken
<1>3. Head(todo) = "domain keyring"
  BY <1>2 DEF DomainSaved, Left
<1>4. DomainKeyring
  BY <1>3 DEF SaveStep, CreateParent, ParentAtLogin, SetParentPassword, KeepParent, KeepMain,
         KeepPassword, UpdateKeyring, FilterApps, CreateMain, SetPassword, Do
<1>5. UNCHANGED <<user, user_password, main_password>> /\ keyring' = user_password'
  BY <1>4 DEF DomainKeyring, driver, accounts, main
<1> QED  BY <1>1, <1>2, <1>5 DEF DomainSaved, DomainUser

LEMMA InitSInv == Init => SInv
<1>1. <<>> \in Seq(Step)
  BY EmptySeq
<1> QED  BY <1>1 DEF Init, SInv, FormsInv

(* The variables that the saved accounts are about.                        *)
kept == <<todo, mode, parental, entered, entered_parent, user, user_password, main_type,
          main_password, parent_password, at_login, filtered, keyring>>

LEMMA SavedStays == Saved /\ UNCHANGED kept => Saved'
<1> SUFFICES ASSUME Saved, UNCHANGED kept PROVE Saved'
  OBVIOUS
<1>1. /\ UNCHANGED <<todo, mode, parental, entered, entered_parent, user, user_password>>
      /\ UNCHANGED <<main_type, main_password, parent_password, at_login, filtered, keyring>>
  BY DEF kept
<1>2. \A step : Left(step)' <=> Left(step)
  BY <1>1 DEF Left
<1>3. LocalSaved => LocalSaved'
  BY <1>1, <1>2 DEF LocalSaved
<1>4. DomainSaved => DomainSaved'
  BY <1>1, <1>2 DEF DomainSaved, DomainUser
<1> QED  BY <1>1, <1>3, <1>4 DEF Saved

LEMMA SaveStepSInv ==
  ASSUME SInv, SaveStep
  PROVE  SInv'
<1>1. Saving /\ todo' = Tail(todo)
  BY DEF SaveStep, CreateParent, ParentAtLogin, SetParentPassword, KeepParent, KeepMain,
         KeepPassword, UpdateKeyring, DomainKeyring, FilterApps, CreateMain, SetPassword, Do
<1>2. UNCHANGED <<phase, failed, lost, mode, held, sent>>
  BY DEF SaveStep, CreateParent, ParentAtLogin, SetParentPassword, KeepParent, KeepMain,
         KeepPassword, UpdateKeyring, DomainKeyring, FilterApps, CreateMain, SetPassword,
         choices, login
<1>3. phase = "summary" /\ todo \in Seq(Step) /\ todo' \in Seq(Step)
  BY <1>1, StepTaken DEF SInv, Saving
<1>4. held' = None /\ sent' = None
  BY <1>2, <1>3 DEF SInv
<1>5. ASSUME ~failed, ~lost PROVE Saved'
  <2>1. Saved
    BY <1>3, <1>5 DEF SInv
  <2>2. mode = "local" => LocalSaved'
    BY <1>1, <1>3, <2>1, LocalStep DEF Saved
  <2>3. mode # "local" => DomainSaved'
    BY <1>1, <1>3, <2>1, DomainStep DEF Saved
  <2> QED  BY <1>2, <2>2, <2>3 DEF Saved
<1> QED  BY <1>2, <1>3, <1>4, <1>5 DEF SInv

(* The forms are given to a saving whose steps are all to come.            *)
LEMMA FormsSInv ==
  ASSUME SInv,
         \/ \E password \in Texts, guarded \in BOOLEAN, guardian_password \in Texts :
              FillLocal(password, guarded, guardian_password)
         \/ \E password \in Texts : RegisterDomainUser(password)
         \/ FillEnterprise
  PROVE  SInv'
<1>1. ASSUME NEW password \in Texts, NEW guarded \in BOOLEAN, NEW guardian_password \in Texts,
             FillLocal(password, guarded, guardian_password)
      PROVE  SInv'
  <2> DEFINE steps == SaveSteps("local", guarded)
  <2>1. /\ steps \in Seq(Step) /\ Ordered(steps) /\ "domain keyring" \notin Elems(steps)
        /\ "create main" \in Elems(steps) /\ "keep main" \in Elems(steps)
        /\ "set password" \in Elems(steps) /\ "keep password" \in Elems(steps)
        /\ "update keyring" \in Elems(steps)
        /\ guarded => "filter apps" \in Elems(steps) /\ "set parent password" \in Elems(steps)
    BY StepsOrdered
  <2>2. /\ phase' = "summary" /\ todo' = steps /\ mode' = "local" /\ parental' = guarded
        /\ entered' # None /\ held' = None /\ sent' = None
    BY <1>1, PasswordsAssumption DEF FillLocal, Texts, SInv, FormsInv, login
  <2> HIDE DEF steps
  <2>3. LocalSaved'
    BY <2>1, <2>2 DEF LocalSaved, Left
  <2> QED  BY <2>1, <2>2, <2>3 DEF SInv, Saved
<1>2. ASSUME NEW password \in Texts, RegisterDomainUser(password) PROVE SInv'
  <2>1. /\ phase = "forms" /\ phase' = "forms" /\ UNCHANGED todo
        /\ ~parental' /\ mode' # "local" /\ DomainUser'
        /\ UNCHANGED <<held, sent>>
    BY <1>2, PasswordsAssumption DEF RegisterDomainUser, DomainUser, Texts, login
  <2> QED  BY <2>1 DEF SInv, FormsInv
<1>3. CASE FillEnterprise
  <2>1. /\ FormsInv /\ main_type = "domain" /\ phase' = "summary"
        /\ todo' = <<"domain keyring">>
        /\ UNCHANGED <<mode, parental, user, user_password, main_password, held, sent>>
    BY <1>3 DEF FillEnterprise, SInv, SaveSteps, choices, driver, accounts, main, login
  <2>2. todo' \in Seq(Step) /\ Elems(todo') = {"domain keyring"}
    BY <2>1, OnlyDomain
  <2>3. DomainSaved'
    BY <2>1, <2>2 DEF DomainSaved, DomainUser, FormsInv, Left
  <2> QED  BY <2>1, <2>2, <2>3 DEF SInv, Saved, FormsInv
<1> QED  BY <1>1, <1>2, <1>3

LEMMA LoginSInv ==
  ASSUME SInv, Done \/ SecretInfoQuery \/ SessionOpened \/ Refused
  PROVE  SInv'
<1>1. UNCHANGED <<failed, lost, gdm>> /\ UNCHANGED kept
  BY DEF Done, SecretInfoQuery, SessionOpened, Refused, kept, choices, driver, accounts,
         main, guardian, effects, login
<1>2. todo' \in Seq(Step) /\ phase' \in {"login", "session", "stuck"}
  BY <1>1 DEF Done, SecretInfoQuery, SessionOpened, Refused, SInv, kept
<1>3. phase \in {"summary", "login"}
  BY DEF Done, SecretInfoQuery, SessionOpened, Refused
<1>4. ASSUME ~failed, ~lost
      PROVE  /\ phase' \in {"login", "session"} => Saved' /\ LoginInv'
             /\ phase' = "stuck" => ~gdm'
  <2>1. Saved /\ Saved'
    BY <1>1, <1>3, <1>4, SavedStays DEF SInv
  <2>2. ASSUME todo = <<>> PROVE user /\ main_password # None /\ user_password = main_password
    <3>1. \A step : ~Left(step)
      BY <2>2, NothingLeft DEF Left
    <3> QED  BY <2>1, <3>1 DEF Saved, LocalSaved, DomainSaved, DomainUser
  <2>3. CASE Done
    <3>1. /\ phase = "summary" /\ todo = <<>> /\ UNCHANGED <<todo, gdm, sent>>
          /\ held' = user_password /\ UNCHANGED user_password
          /\ phase' = IF gdm /\ user THEN "login" ELSE "stuck"
      BY <2>3 DEF Done, driver
    <3>2. sent = None /\ user
      BY <2>2, <3>1 DEF SInv
    <3>3. phase' = "login" => LoginInv'
      BY <3>1, <3>2 DEF LoginInv
    <3> QED  BY <2>1, <3>1, <3>2, <3>3
  <2>4. ASSUME phase = "login" PROVE LoginInv /\ todo = <<>>
    BY <1>4, <2>4 DEF SInv, LoginInv
  <2>5. CASE SecretInfoQuery
    BY <1>1, <2>1, <2>4, <2>5 DEF SecretInfoQuery, LoginInv, kept
  <2>6. CASE SessionOpened
    BY <1>1, <2>1, <2>4, <2>6 DEF SessionOpened, LoginInv, kept, login
  <2>7. CASE Refused
    <3>1. sent = user_password /\ sent = main_password
      BY <2>2, <2>4, <2>7 DEF Refused, LoginInv
    <3> QED  BY <2>7, <3>1 DEF Refused, Correct
  <2> QED  BY <2>3, <2>5, <2>6, <2>7
<1> QED  BY <1>1, <1>2, <1>4 DEF SInv

LEMMA NextSInv == SInv /\ [Next]_vars => SInv'
<1> SUFFICES ASSUME SInv, [Next]_vars PROVE SInv'
  OBVIOUS
<1>0. <<>> \in Seq(Step)
  BY EmptySeq
<1>1. CASE SaveFails
  BY <1>0, <1>1 DEF SaveFails, FailAt, SInv, Saving, login
<1>2. CASE SaveLost
  <2>1. Saving /\ todo' = Tail(todo) /\ lost' /\ UNCHANGED <<phase, held, sent>>
    BY <1>2 DEF SaveLost, login
  <2>2. todo' \in Seq(Step)
    BY <2>1, StepTaken DEF SInv
  <2> QED  BY <2>1, <2>2 DEF SInv, Saving
<1>3. CASE LoginLost
  BY <1>3 DEF LoginLost, SInv
<1>4. CASE Crash
  BY <1>0, <1>4 DEF Crash, SInv, FormsInv, accounts, main
<1>5. CASE UNCHANGED vars
  <2>1. UNCHANGED <<phase, failed, lost, gdm, held, sent>> /\ UNCHANGED kept
    BY <1>5 DEF vars, kept, choices, driver, accounts, main, guardian, effects, login
  <2>2. (Saved => Saved') /\ (LoginInv => LoginInv') /\ (FormsInv => FormsInv')
    BY <2>1, SavedStays DEF LoginInv, FormsInv, DomainUser, kept
  <2> QED  BY <2>1, <2>2 DEF SInv, kept
<1> QED
  BY <1>1, <1>2, <1>3, <1>4, <1>5, SaveStepSInv, FormsSInv, LoginSInv DEF Next

(* When nothing was lost and no page failed, the password GDM is handed is *)
(* the one the account and the keyring have: every step that sets one of   *)
(* them is still to come or has set it, and none behind it sets it again.  *)
(* PAM therefore accepts it, and the user does not stay with the hidden    *)
(* window.                                                                 *)
THEOREM LoggedInWithOnePassword == Spec => []SavedTogether
<1>1. Spec => []SInv
  BY InitSInv, NextSInv, PTL DEF Spec
<1>2. SInv => SavedTogether
  <2> SUFFICES ASSUME SInv, ~failed, ~lost, phase \in {"login", "session"}
               PROVE  /\ main_password # None /\ user_password = main_password
                      /\ keyring = main_password
                      /\ parental => /\ main_type = "standard" /\ filtered
                                     /\ parent_password = entered_parent /\ ~at_login
    BY DEF SInv, SavedTogether
  <2>1. Saved /\ todo = <<>>
    BY DEF SInv, LoginInv
  <2>2. \A step : ~Left(step)
    BY <2>1, NothingLeft DEF Left
  <2> QED  BY <2>1, <2>2 DEF Saved, LocalSaved, DomainSaved, DomainUser
<1> QED
  BY <1>1, <1>2, PTL

-----------------------------------------------------------------------------
(* The keyring is the last to be told.                                     *)

Earlier == {"create main", "set password"}

(* Behind the keyring's password, the account's is not set.                *)
KeyringLast(steps) ==
  \A i, j \in DOMAIN steps : steps[i] = "update keyring" /\ j > i => steps[j] \notin Earlier

KInv ==
  /\ KeyringFollowsUser
  /\ failed => todo = <<>>
  /\ phase = "forms" => ~failed /\ keyring = Dummy
  /\ KeyringLast(todo)
  /\ Left("create main") \/ Left("set password") => keyring = Dummy
  /\ mode = "local" => ~Left("domain keyring")
  /\ phase = "summary" /\ mode = "local" /\ todo # <<>> => Left("create main") \/ main_type # "none"
  /\ phase = "summary" /\ mode # "local" =>
       main_type # "none" /\ DomainUser /\ Elems(todo) \subseteq {"domain keyring"}

LEMMA KeyringLastTail ==
  ASSUME NEW steps \in Seq(Step), steps # <<>>, KeyringLast(steps)
  PROVE  /\ KeyringLast(Tail(steps))
         /\ Head(steps) = "update keyring" =>
              "create main" \notin Elems(Tail(steps)) /\ "set password" \notin Elems(Tail(steps))
<1> DEFINE rest == Tail(steps)
<1>1. /\ Len(rest) = Len(steps) - 1 /\ Len(steps) \in Nat /\ Len(steps) # 0
      /\ DOMAIN steps = 1 .. Len(steps) /\ DOMAIN rest = 1 .. Len(rest)
      /\ \A i \in 1 .. Len(rest) : rest[i] = steps[i + 1]
      /\ Head(steps) = steps[1]
  BY HeadTailProperties, LenProperties, EmptySeq
<1> HIDE DEF rest
<1>2. \A i \in DOMAIN rest : i + 1 \in DOMAIN steps /\ i + 1 > 1 /\ rest[i] = steps[i + 1]
  BY <1>1
<1>3. \A i, j \in DOMAIN rest : j > i => j + 1 > i + 1
  BY <1>1
<1>4. KeyringLast(rest)
  BY <1>2, <1>3 DEF KeyringLast
<1>5. 1 \in DOMAIN steps
  BY <1>1
<1>6. ASSUME Head(steps) = "update keyring", NEW i \in DOMAIN rest PROVE rest[i] \notin Earlier
  BY <1>1, <1>2, <1>5, <1>6 DEF KeyringLast
<1>7. Head(steps) = "update keyring" =>
        "create main" \notin Elems(rest) /\ "set password" \notin Elems(rest)
  BY <1>6 DEF Elems, Earlier
<1> QED  BY <1>4, <1>7 DEF rest

LEMMA StepsKeyringLast ==
  /\ \A guarded \in BOOLEAN : KeyringLast(SaveSteps("local", guarded))
  /\ KeyringLast(<<"domain keyring">>) /\ KeyringLast(<<>>)
<1>1. KeyringLast(Guarded)
  <2>0. DOMAIN Guarded = 1 .. 10
    BY GuardedAt, Zenon
  <2>1. \A i \in DOMAIN Guarded : i = 1 \/ i = 2 \/ i = 3 \/ i = 4 \/ i = 5 \/ i = 6 \/ i = 7
                                 \/ i = 8 \/ i = 9 \/ i = 10
    BY <2>0
  <2>2. \A i \in DOMAIN Guarded : Guarded[i] = "update keyring" => i = 8
    BY <2>1, GuardedAt
  <2>3. \A j \in DOMAIN Guarded : j > 8 => j = 9 \/ j = 10
    BY <2>0
  <2>4. Guarded[9] \notin Earlier /\ Guarded[10] \notin Earlier
    BY GuardedAt DEF Earlier
  <2> HIDE DEF Earlier
  <2>5. ASSUME NEW i \in DOMAIN Guarded, NEW j \in DOMAIN Guarded,
               Guarded[i] = "update keyring", j > i
        PROVE  Guarded[j] \notin Earlier
    <3>1. i = 8
      BY <2>2, <2>5
    <3>2. j = 9 \/ j = 10
      BY <2>3, <2>5, <3>1
    <3> QED  BY <2>4, <3>2
  <2> QED  BY <2>5 DEF KeyringLast
<1>2. KeyringLast(Plain)
  <2>0. DOMAIN Plain = 1 .. 5
    BY PlainAt, Zenon
  <2>1. \A i \in DOMAIN Plain : i = 1 \/ i = 2 \/ i = 3 \/ i = 4 \/ i = 5
    BY <2>0
  <2>2. \A i \in DOMAIN Plain : Plain[i] = "update keyring" => i = 5
    BY <2>1, PlainAt
  <2>3. \A j \in DOMAIN Plain : ~(j > 5)
    BY <2>0
  <2> QED  BY <2>2, <2>3 DEF KeyringLast
<1>3. KeyringLast(<<"domain keyring">>)
  <2>1. \A step : step \in Elems(<<"domain keyring">>) => step # "update keyring"
    BY OnlyDomain
  <2> QED  BY <2>1 DEF KeyringLast, Elems
<1>4. KeyringLast(<<>>)
  BY NothingLeft DEF KeyringLast, Elems
<1>5. ASSUME NEW guarded \in BOOLEAN PROVE KeyringLast(SaveSteps("local", guarded))
  <2>1. CASE guarded
    BY <1>1, <2>1, SaveStepsGuarded
  <2>2. CASE ~guarded
    BY <1>2, <2>2, SaveStepsPlain
  <2> QED  BY <2>1, <2>2
<1> QED  BY <1>3, <1>4, <1>5

LEMMA SaveStepKInv ==
  ASSUME SInv, KInv, SaveStep
  PROVE  KInv'
<1>1. Saving /\ todo' = Tail(todo)
  BY DEF SaveStep, CreateParent, ParentAtLogin, SetParentPassword, KeepParent, KeepMain,
         KeepPassword, UpdateKeyring, DomainKeyring, FilterApps, CreateMain, SetPassword, Do
<1>2. UNCHANGED <<phase, failed, lost, mode, entered>>
  BY DEF SaveStep, CreateParent, ParentAtLogin, SetParentPassword, KeepParent, KeepMain,
         KeepPassword, UpdateKeyring, DomainKeyring, FilterApps, CreateMain, SetPassword, choices
<1>3. phase = "summary" /\ todo \in Seq(Step) /\ todo # <<>> /\ ~failed
  BY <1>1 DEF SInv, KInv, Saving
<1>4. /\ \A step : Left(step)' => Left(step)
      /\ \A step : Left(step) => Left(step)' \/ step = Head(todo)
      /\ Elems(todo') \subseteq Elems(todo) /\ Left(Head(todo))
  BY <1>1, <1>3, StepTaken
<1>5. /\ KeyringLast(todo')
      /\ Head(todo) = "update keyring" => ~Left("create main")' /\ ~Left("set password")'
  BY <1>1, <1>3, KeyringLastTail DEF KInv, Left
<1>6. ASSUME UpdateKeyring
      PROVE  /\ main_type # "none"
             /\ main_password = entered \/ lost
             /\ ~Left("create main")' /\ ~Left("set password")'
  <2>1. Head(todo) = "update keyring" /\ mode = "local"
    BY <1>3, <1>4, <1>6 DEF UpdateKeyring, Do, KInv, Left
  <2>2. ~Left("create main") /\ ~Left("set password")
    BY <1>4, <1>5, <2>1
  <2>3. main_type # "none"
    BY <1>3, <2>1, <2>2 DEF KInv
  <2>4. ~lost => main_password = entered
    BY <1>3, <2>1, <2>2 DEF SInv, Saved, LocalSaved
  <2> QED  BY <1>5, <2>1, <2>3, <2>4
<1>7. ASSUME DomainKeyring PROVE mode # "local"
  BY <1>4, <1>7 DEF DomainKeyring, Do, KInv
<1>8. CreateMain \/ SetPassword => keyring = Dummy /\ mode = "local"
  <2>1. CreateMain \/ SetPassword => Head(todo) = "create main" \/ Head(todo) = "set password"
    BY DEF CreateMain, SetPassword, Do
  <2> QED  BY <1>3, <1>4, <2>1 DEF KInv, Left
<1>9. ~CreateMain /\ ~SetPassword => UNCHANGED <<main_type, main_password>>
  BY DEF SaveStep, CreateParent, ParentAtLogin, SetParentPassword, KeepParent, KeepMain,
         KeepPassword, UpdateKeyring, DomainKeyring, FilterApps, CreateMain, SetPassword, accounts, main
<1>10. ~UpdateKeyring /\ ~DomainKeyring => UNCHANGED keyring
  BY DEF SaveStep, CreateParent, ParentAtLogin, SetParentPassword, KeepParent, KeepMain,
         KeepPassword, UpdateKeyring, DomainKeyring, FilterApps, CreateMain, SetPassword, effects
<1>11. CreateMain \/ UNCHANGED main_type
  BY DEF SaveStep, CreateParent, ParentAtLogin, SetParentPassword, KeepParent, KeepMain,
         KeepPassword, UpdateKeyring, DomainKeyring, FilterApps, CreateMain, SetPassword, accounts, main
<1>12. KeyringFollowsUser'
  <2>1. CASE UpdateKeyring
    <3>1. UNCHANGED <<main_type, main_password, lost>> /\ keyring' = entered
      BY <2>1 DEF UpdateKeyring, accounts, main
    <3> QED  BY <1>6, <2>1, <3>1 DEF KeyringFollowsUser
  <2>2. CASE DomainKeyring
    <3>1. UNCHANGED <<main_type, main_password, lost>> /\ keyring' = user_password
      BY <2>2 DEF DomainKeyring, accounts, main
    <3> QED  BY <1>3, <1>7, <2>2, <3>1 DEF KeyringFollowsUser, KInv, DomainUser
  <2>3. CASE ~UpdateKeyring /\ ~DomainKeyring
    <3>1. CASE CreateMain \/ SetPassword
      BY <1>8, <1>10, <2>3, <3>1 DEF KeyringFollowsUser
    <3>2. CASE ~CreateMain /\ ~SetPassword
      BY <1>2, <1>9, <1>10, <2>3, <3>2 DEF KInv, KeyringFollowsUser
    <3> QED  BY <3>1, <3>2
  <2> QED  BY <2>1, <2>2, <2>3
<1>13. Left("create main")' \/ Left("set password")' => keyring' = Dummy
  <2>1. CASE UpdateKeyring
    BY <1>6, <2>1
  <2>2. CASE DomainKeyring
    BY <1>3, <1>4, <1>7, <2>2 DEF KInv, Left
  <2>3. CASE ~UpdateKeyring /\ ~DomainKeyring
    BY <1>4, <1>10, <2>3 DEF KInv
  <2> QED  BY <2>1, <2>2, <2>3
<1>14. mode' = "local" => ~Left("domain keyring")'
  BY <1>2, <1>4 DEF KInv
<1>15. mode = "local" => Left("create main")' \/ main_type' # "none"
  <2>1. CASE CreateMain
    BY <2>1 DEF CreateMain
  <2>2. CASE ~CreateMain
    <3>1. Head(todo) # "create main"
      BY <2>2 DEF SaveStep, CreateParent, ParentAtLogin, SetParentPassword, KeepParent, KeepMain,
         KeepPassword, UpdateKeyring, DomainKeyring, FilterApps, CreateMain, SetPassword, Do
    <3> QED  BY <1>3, <1>4, <1>11, <2>2, <3>1 DEF KInv
  <2> QED  BY <2>1, <2>2
<1>16. mode # "local" => main_type' # "none" /\ DomainUser' /\ Elems(todo') \subseteq {"domain keyring"}
  <2> SUFFICES ASSUME mode # "local"
               PROVE  main_type' # "none" /\ DomainUser' /\ Elems(todo') \subseteq {"domain keyring"}
    OBVIOUS
  <2>1. main_type # "none" /\ DomainUser /\ Elems(todo) \subseteq {"domain keyring"}
    BY <1>3 DEF KInv
  <2>2. Head(todo) = "domain keyring"
    BY <1>4, <2>1 DEF Left
  <2>3. DomainKeyring
    BY <2>2 DEF SaveStep, CreateParent, ParentAtLogin, SetParentPassword, KeepParent, KeepMain,
         KeepPassword, UpdateKeyring, FilterApps, CreateMain, SetPassword, Do
  <2>4. UNCHANGED <<user, user_password, main_type, main_password>>
    BY <2>3 DEF DomainKeyring, driver, accounts, main
  <2> QED  BY <1>4, <2>1, <2>4 DEF DomainUser
<1> QED
  BY <1>2, <1>3, <1>5, <1>12, <1>13, <1>14, <1>15, <1>16 DEF KInv

LEMMA SaveLostKInv ==
  ASSUME SInv, KInv, SaveLost
  PROVE  KInv'
<1>1. /\ Saving /\ todo' = Tail(todo) /\ lost' /\ Head(todo) # "create main"
      /\ UNCHANGED <<phase, failed, mode, user, user_password, main_type, main_password, keyring>>
  BY DEF SaveLost, choices, driver, accounts, main, effects
<1>2. phase = "summary" /\ todo \in Seq(Step) /\ todo # <<>> /\ ~failed
  BY <1>1 DEF SInv, KInv, Saving
<1>3. /\ \A step : Left(step)' => Left(step)
      /\ \A step : Left(step) => Left(step)' \/ step = Head(todo)
      /\ Elems(todo') \subseteq Elems(todo)
  BY <1>1, <1>2, StepTaken
<1>4. KeyringLast(todo')
  BY <1>1, <1>2, KeyringLastTail DEF KInv
<1>5. KeyringFollowsUser'
  BY <1>1 DEF KInv, KeyringFollowsUser
<1>6. Left("create main")' \/ Left("set password")' => keyring' = Dummy
  BY <1>1, <1>3 DEF KInv
<1>7. mode' = "local" => ~Left("domain keyring")' /\ (Left("create main")' \/ main_type' # "none")
  BY <1>1, <1>2, <1>3 DEF KInv
<1>8. mode' # "local" => main_type' # "none" /\ DomainUser' /\ Elems(todo') \subseteq {"domain keyring"}
  BY <1>1, <1>2, <1>3 DEF KInv, DomainUser
<1> QED  BY <1>1, <1>2, <1>4, <1>5, <1>6, <1>7, <1>8 DEF KInv

LEMMA InitKInv == Init => KInv
<1> SUFFICES ASSUME Init PROVE KInv
  OBVIOUS
<1>1. todo = <<>> /\ KeyringLast(todo) /\ \A step : ~Left(step)
  BY StepsKeyringLast, NothingLeft DEF Init, Left
<1>2. phase = "forms" /\ keyring = Dummy /\ failed = FALSE
  BY DEF Init
<1> QED  BY <1>1, <1>2 DEF KInv, KeyringFollowsUser

LEMMA NextKInv == SInv /\ KInv /\ [Next]_vars => KInv'
<1> SUFFICES ASSUME SInv, KInv, [Next]_vars PROVE KInv'
  OBVIOUS
<1>1. ASSUME NEW password \in Texts, NEW guarded \in BOOLEAN, NEW guardian_password \in Texts,
             FillLocal(password, guarded, guardian_password)
      PROVE  KInv'
  <2> DEFINE steps == SaveSteps("local", guarded)
  <2>1. KeyringLast(steps) /\ "domain keyring" \notin Elems(steps) /\ "create main" \in Elems(steps)
    BY StepsOrdered, StepsKeyringLast
  <2>2. /\ phase = "forms" /\ phase' = "summary" /\ todo' = steps /\ mode' = "local"
        /\ UNCHANGED <<failed, main_type, main_password, keyring, lost>>
    BY <1>1 DEF FillLocal, accounts, main, effects
  <2> HIDE DEF steps
  <2>3. keyring' = Dummy /\ ~failed'
    BY <2>2 DEF KInv
  <2> QED  BY <2>1, <2>2, <2>3 DEF KInv, KeyringFollowsUser, Left
<1>2. ASSUME NEW password \in Texts, RegisterDomainUser(password) PROVE KInv'
  <2>1. /\ phase = "forms" /\ phase' = "forms" /\ mode' # "local"
        /\ UNCHANGED <<todo, failed, keyring>>
    BY <1>2 DEF RegisterDomainUser, effects
  <2> QED  BY <2>1 DEF KInv, KeyringFollowsUser, Left
<1>3. CASE FillEnterprise
  <2>1. /\ FormsInv /\ phase = "forms" /\ main_type = "domain" /\ phase' = "summary"
        /\ todo' = <<"domain keyring">>
        /\ UNCHANGED <<mode, failed, user, user_password, main_type, main_password, keyring>>
    BY <1>3 DEF FillEnterprise, SInv, SaveSteps, choices, driver, accounts, main, effects
  <2>2. KeyringLast(todo') /\ Elems(todo') = {"domain keyring"}
    BY <2>1, StepsKeyringLast, OnlyDomain
  <2>3. ~Left("create main")' /\ ~Left("set password")'
    BY <2>2 DEF Left
  <2>4. mode' # "local" /\ DomainUser' /\ keyring' = Dummy /\ ~failed'
    BY <2>1 DEF FormsInv, DomainUser, KInv
  <2> QED  BY <2>1, <2>2, <2>3, <2>4 DEF KInv, KeyringFollowsUser
<1>4. CASE SaveFails
  <2>1. /\ todo' = <<>>
        /\ UNCHANGED <<phase, mode, user, user_password, main_type, main_password, keyring, lost>>
    BY <1>4 DEF SaveFails, FailAt, choices, driver, accounts, main, effects
  <2>2. phase = "summary"
    BY <1>4 DEF SaveFails, FailAt, Saving
  <2>3. KeyringLast(todo') /\ Elems(todo') = {} /\ \A step : ~Left(step)'
    BY <2>1, StepsKeyringLast, NothingLeft DEF Left
  <2> QED  BY <2>1, <2>2, <2>3 DEF KInv, KeyringFollowsUser, DomainUser
<1>5. CASE Done \/ SecretInfoQuery \/ SessionOpened \/ Refused \/ LoginLost
  <2>1. /\ UNCHANGED <<todo, mode, failed, main_type, main_password, keyring>>
        /\ phase' \in {"login", "session", "stuck"} /\ (lost => lost')
    BY <1>5 DEF Done, SecretInfoQuery, SessionOpened, Refused, LoginLost, choices, accounts,
       main, effects
  <2> QED  BY <2>1 DEF KInv, KeyringFollowsUser, Left
<1>6. CASE Crash
  <2>1. /\ todo' = <<>> /\ failed' = FALSE
        /\ phase' = "forms" => main_type = "none"
        /\ phase' # "summary"
        /\ UNCHANGED <<main_type, main_password, keyring, lost>>
    BY <1>6 DEF Crash, accounts, main, effects
  <2>2. KeyringLast(todo') /\ \A step : ~Left(step)'
    BY <2>1, StepsKeyringLast, NothingLeft DEF Left
  <2> QED  BY <2>1, <2>2 DEF KInv, KeyringFollowsUser
<1>7. CASE UNCHANGED vars
  <2>1. UNCHANGED <<todo, mode, failed, main_type, main_password, keyring, phase, lost,
                    user, user_password>>
    BY <1>7 DEF vars, choices, driver, accounts, main, effects
  <2> QED  BY <2>1 DEF KInv, KeyringFollowsUser, Left, DomainUser
<1> QED
  BY <1>1, <1>2, <1>3, <1>4, <1>5, <1>6, <1>7, SaveStepKInv, SaveLostKInv DEF Next

(* The keyring keeps the password it was made with until the account of its*)
(* owner is there, and then has the account's: its step is behind those    *)
(* that set the account's in every list of steps, and wherever the process *)
(* is killed before it, the wizard that is started again finds it new.     *)
THEOREM KeyringAfterAccount == Spec => []KeyringFollowsUser
<1>1. Init => SInv /\ KInv
  BY InitSInv, InitKInv
<1>2. SInv /\ KInv /\ [Next]_vars => (SInv /\ KInv)'
  BY NextSInv, NextKInv
<1>3. Spec => [](SInv /\ KInv)
  BY <1>1, <1>2, PTL DEF Spec
<1>4. KInv => KeyringFollowsUser
  BY DEF KInv
<1> QED
  BY <1>3, <1>4, PTL
-----------------------------------------------------------------------------
(* Types.                                                                  *)

FlowTypes ==
  /\ phase \in {"forms", "summary", "login", "session", "stuck", "greeter"}
  /\ todo \in Seq(Step) /\ mode \in {"local", "enterprise"}

FlagTypes ==
  /\ failed \in BOOLEAN /\ parental \in BOOLEAN /\ user \in BOOLEAN /\ parent \in BOOLEAN
  /\ at_login \in BOOLEAN /\ filtered \in BOOLEAN /\ gdm \in BOOLEAN /\ lost \in BOOLEAN

SecretTypes ==
  /\ entered \in Secrets /\ entered_parent \in Secrets /\ user_password \in Secrets
  /\ main_password \in Secrets /\ parent_password \in Secrets
  /\ held \in Secrets /\ sent \in Secrets

AccountTypes ==
  /\ main_type \in {"none", "administrator", "standard", "domain"}
  /\ parent_type \in {"none", "administrator"}

(* A step that gives the keyring a password has one: the forms and the     *)
(* registration in the domain come before it, and what is saved of a local *)
(* user is never in a list with what is saved of the domain's.             *)
KeyringGiven ==
  /\ keyring \in Texts \cup {Dummy}
  /\ phase = "forms" => todo = <<>>
  /\ phase = "forms" /\ main_type = "domain" => user_password \in Texts
  /\ Left("update keyring") => entered \in Texts
  /\ Left("domain keyring") => user_password \in Texts /\ Elems(todo) \subseteq {"domain keyring"}

TInv == FlowTypes /\ FlagTypes /\ SecretTypes /\ AccountTypes /\ KeyringGiven

LEMMA InitTInv == Init => TInv
<1> SUFFICES ASSUME Init PROVE TInv
  OBVIOUS
<1>1. todo = <<>> /\ todo \in Seq(Step) /\ \A step : ~Left(step)
  BY EmptySeq, NothingLeft DEF Init, Left
<1>2. FlowTypes
  BY <1>1 DEF Init, FlowTypes
<1>3. FlagTypes
  BY DEF Init, FlagTypes
<1>4. SecretTypes
  BY DEF Init, SecretTypes, Secrets
<1>5. AccountTypes /\ main_type # "domain"
  BY DEF Init, AccountTypes
<1>6. KeyringGiven
  BY <1>1, <1>5 DEF Init, KeyringGiven
<1> QED  BY <1>2, <1>3, <1>4, <1>5, <1>6 DEF TInv

(* One step of the saving.                                                 *)
LEMMA SaveStepTypes ==
  ASSUME TInv, SaveStep
  PROVE  TInv'
<1>1. Saving /\ todo' = Tail(todo) /\ UNCHANGED <<phase, mode>>
  BY DEF SaveStep, CreateParent, ParentAtLogin, SetParentPassword, KeepParent, KeepMain,
         KeepPassword, UpdateKeyring, DomainKeyring, FilterApps, CreateMain, SetPassword, Do, choices
<1>2. phase = "summary" /\ todo \in Seq(Step) /\ todo # <<>>
  BY <1>1 DEF TInv, FlowTypes, Saving
<1>3. /\ \A step : Left(step)' => Left(step)
      /\ Elems(todo') \subseteq Elems(todo) /\ Left(Head(todo))
  BY <1>1, <1>2, StepTaken
<1>4. FlowTypes'
  <2>1. todo' \in Seq(Step)
    BY <1>1, <1>2, HeadTailProperties
  <2> QED  BY <1>1, <2>1 DEF TInv, FlowTypes
<1>5. UNCHANGED <<failed, parental, gdm, lost, entered, entered_parent, held, sent>>
  BY DEF SaveStep, CreateParent, ParentAtLogin, SetParentPassword, KeepParent, KeepMain,
         KeepPassword, UpdateKeyring, DomainKeyring, FilterApps, CreateMain, SetPassword, choices, login
<1>6. FlagTypes'
  <2>1. /\ user' = TRUE \/ user' = user
        /\ parent' = TRUE \/ parent' = parent
        /\ at_login' = TRUE \/ at_login' = FALSE \/ at_login' = at_login
        /\ filtered' = TRUE \/ filtered' = filtered
    BY DEF SaveStep, CreateParent, ParentAtLogin, SetParentPassword, KeepParent, KeepMain,
         KeepPassword, UpdateKeyring, DomainKeyring, FilterApps, CreateMain, SetPassword,
         driver, accounts, guardian, effects
  <2> QED  BY <1>5, <2>1 DEF TInv, FlagTypes
<1>7. SecretTypes'
  <2>1. /\ user_password' = NoPassword \/ user_password' = entered \/ user_password' = user_password
        /\ main_password' = None \/ main_password' = entered \/ main_password' = main_password
        /\ parent_password' = entered_parent \/ parent_password' = parent_password
    BY DEF SaveStep, CreateParent, ParentAtLogin, SetParentPassword, KeepParent, KeepMain,
         KeepPassword, UpdateKeyring, DomainKeyring, FilterApps, CreateMain, SetPassword,
         driver, accounts, main, guardian
  <2> QED  BY <1>5, <2>1 DEF TInv, SecretTypes, Secrets, Texts
<1>8. AccountTypes'
  <2>1. /\ main_type' \in {"standard", "administrator"} \/ main_type' = main_type
        /\ parent_type' = "administrator" \/ parent_type' = parent_type
    BY DEF SaveStep, CreateParent, ParentAtLogin, SetParentPassword, KeepParent, KeepMain,
         KeepPassword, UpdateKeyring, DomainKeyring, FilterApps, CreateMain, SetPassword,
         accounts, main, guardian
  <2> QED  BY <2>1 DEF TInv, AccountTypes
<1>9. Left("update keyring")' => entered' \in Texts
  BY <1>3, <1>5 DEF TInv, KeyringGiven
<1>10. ASSUME Left("domain keyring")'
       PROVE  user_password' \in Texts /\ Elems(todo') \subseteq {"domain keyring"}
  <2>1. user_password \in Texts /\ Elems(todo) \subseteq {"domain keyring"}
    BY <1>3, <1>10 DEF TInv, KeyringGiven
  <2>2. Head(todo) = "domain keyring"
    BY <1>3, <2>1 DEF Left
  <2>3. DomainKeyring
    BY <2>2 DEF SaveStep, CreateParent, ParentAtLogin, SetParentPassword, KeepParent, KeepMain,
         KeepPassword, UpdateKeyring, FilterApps, CreateMain, SetPassword, Do
  <2> QED  BY <1>3, <2>1, <2>3 DEF DomainKeyring, driver
<1>11. keyring' \in Texts \cup {Dummy}
  <2>1. CASE UpdateKeyring
    BY <1>3, <2>1 DEF UpdateKeyring, Do, TInv, KeyringGiven
  <2>2. CASE DomainKeyring
    BY <1>3, <2>2 DEF DomainKeyring, Do, TInv, KeyringGiven
  <2>3. CASE ~UpdateKeyring /\ ~DomainKeyring
    <3>1. keyring' = keyring
      BY <2>3 DEF SaveStep, CreateParent, ParentAtLogin, SetParentPassword, KeepParent, KeepMain,
         KeepPassword, UpdateKeyring, DomainKeyring, FilterApps, CreateMain, SetPassword, effects
    <3> QED  BY <3>1 DEF TInv, KeyringGiven
  <2> QED  BY <2>1, <2>2, <2>3
<1>12. KeyringGiven'
  BY <1>1, <1>2, <1>9, <1>10, <1>11 DEF KeyringGiven
<1> QED  BY <1>4, <1>6, <1>7, <1>8, <1>12 DEF TInv

(* The forms, and the user of a domain.                                    *)
LEMMA FormsTypes ==
  ASSUME TInv,
         \/ \E password \in Texts, guarded \in BOOLEAN, guardian_password \in Texts :
              FillLocal(password, guarded, guardian_password)
         \/ \E password \in Texts : RegisterDomainUser(password)
         \/ FillEnterprise
  PROVE  TInv'
<1>1. ASSUME NEW password \in Texts, NEW guarded \in BOOLEAN, NEW guardian_password \in Texts,
             FillLocal(password, guarded, guardian_password)
      PROVE  TInv'
  <2>1. /\ phase' = "summary" /\ mode' = "local" /\ entered' = password
        /\ todo' = SaveSteps("local", guarded)
        /\ UNCHANGED <<main_type, parent_type, keyring>>
    BY <1>1 DEF FillLocal, accounts, main, guardian, effects
  <2>2. todo' \in Seq(Step) /\ ~Left("domain keyring")'
    BY <2>1, StepsOrdered DEF Left
  <2>3. FlagTypes'
    BY <1>1 DEF FillLocal, TInv, FlagTypes, driver, accounts, guardian, effects, login
  <2>4. SecretTypes'
    BY <1>1 DEF FillLocal, TInv, SecretTypes, Secrets, driver, accounts, main, guardian, login
  <2>5. FlowTypes' /\ AccountTypes'
    BY <2>1, <2>2 DEF TInv, FlowTypes, AccountTypes
  <2>6. KeyringGiven'
    BY <2>1, <2>2 DEF TInv, KeyringGiven
  <2> QED  BY <2>3, <2>4, <2>5, <2>6 DEF TInv
<1>2. ASSUME NEW password \in Texts, RegisterDomainUser(password) PROVE TInv'
  <2>1. /\ phase = "forms" /\ main_type' = "domain" /\ user_password' = password /\ mode' = "enterprise"
        /\ UNCHANGED <<phase, todo, parent_type, keyring>>
    BY <1>2 DEF RegisterDomainUser, guardian, effects
  <2>2. todo = <<>> /\ todo' = <<>>
    BY <2>1 DEF TInv, KeyringGiven
  <2>3. ~Left("update keyring")' /\ ~Left("domain keyring")'
    BY <2>2, NothingLeft DEF Left
  <2>4. FlagTypes'
    BY <1>2 DEF RegisterDomainUser, TInv, FlagTypes, guardian, effects, login
  <2>5. SecretTypes'
    BY <1>2 DEF RegisterDomainUser, TInv, SecretTypes, Secrets, guardian, login
  <2>6. FlowTypes' /\ AccountTypes'
    BY <2>1 DEF TInv, FlowTypes, AccountTypes
  <2>7. KeyringGiven'
    BY <2>1, <2>2, <2>3 DEF TInv, KeyringGiven
  <2> QED  BY <2>4, <2>5, <2>6, <2>7 DEF TInv
<1>3. CASE FillEnterprise
  <2>1. /\ phase = "forms" /\ main_type = "domain" /\ phase' = "summary"
        /\ todo' = <<"domain keyring">>
        /\ UNCHANGED <<mode, user_password, main_type, parent_type, keyring>>
    BY <1>3 DEF FillEnterprise, SaveSteps, choices, driver, accounts, main, guardian, effects
  <2>2. todo' \in Seq(Step) /\ Elems(todo') = {"domain keyring"} /\ ~Left("update keyring")'
    BY <2>1, OnlyDomain DEF Left
  <2>3. FlagTypes'
    BY <1>3 DEF FillEnterprise, TInv, FlagTypes, choices, driver, accounts, guardian, effects, login
  <2>4. SecretTypes'
    BY <1>3 DEF FillEnterprise, TInv, SecretTypes, choices, driver, accounts, main, guardian, login
  <2>5. FlowTypes' /\ AccountTypes'
    BY <2>1, <2>2 DEF TInv, FlowTypes, AccountTypes
  <2>6. KeyringGiven'
    BY <2>1, <2>2 DEF TInv, KeyringGiven
  <2> QED  BY <2>3, <2>4, <2>5, <2>6 DEF TInv
<1> QED  BY <1>1, <1>2, <1>3

(* The end of the saving, and what comes behind it.                        *)
LEMMA EndTypes ==
  ASSUME TInv, SaveFails \/ SaveLost \/ Done \/ SecretInfoQuery \/ SessionOpened \/ Refused
               \/ LoginLost \/ Crash
  PROVE  TInv'
<1>1. CASE SaveFails
  <2>1. /\ todo' = <<>> /\ failed' = TRUE
        /\ UNCHANGED <<phase, choices, driver, accounts, effects, login, lost>>
    BY <1>1 DEF SaveFails, FailAt
  <2>2. todo' \in Seq(Step) /\ ~Left("update keyring")' /\ ~Left("domain keyring")'
    BY <2>1, EmptySeq, NothingLeft DEF Left
  <2>3. FlagTypes'
    BY <2>1 DEF TInv, FlagTypes, choices, driver, accounts, guardian, effects, login
  <2>4. SecretTypes'
    BY <2>1 DEF TInv, SecretTypes, choices, driver, accounts, main, guardian, login
  <2>5. FlowTypes' /\ AccountTypes'
    BY <2>1, <2>2 DEF TInv, FlowTypes, AccountTypes, choices, accounts, main, guardian
  <2>6. KeyringGiven'
    BY <2>1, <2>2 DEF TInv, KeyringGiven, driver, accounts, main, effects
  <2> QED  BY <2>3, <2>4, <2>5, <2>6 DEF TInv
<1>2. CASE SaveLost
  <2>1. /\ Saving /\ todo' = Tail(todo) /\ lost' = TRUE
        /\ UNCHANGED <<phase, failed, choices, driver, accounts, effects, login>>
    BY <1>2 DEF SaveLost
  <2>2. todo \in Seq(Step) /\ todo # <<>> /\ phase = "summary"
    BY <2>1 DEF Saving, TInv, FlowTypes
  <2>3. todo' \in Seq(Step) /\ Elems(todo') \subseteq Elems(todo) /\ \A step : Left(step)' => Left(step)
    BY <2>1, <2>2, StepTaken, HeadTailProperties
  <2>4. FlagTypes'
    BY <2>1 DEF TInv, FlagTypes, choices, driver, accounts, guardian, effects, login
  <2>5. SecretTypes'
    BY <2>1 DEF TInv, SecretTypes, choices, driver, accounts, main, guardian, login
  <2>6. FlowTypes' /\ AccountTypes'
    BY <2>1, <2>3 DEF TInv, FlowTypes, AccountTypes, choices, accounts, main, guardian
  <2>7. KeyringGiven'
    BY <2>1, <2>2, <2>3 DEF TInv, KeyringGiven, choices, driver, accounts, main, effects
  <2> QED  BY <2>4, <2>5, <2>6, <2>7 DEF TInv
<1>3. CASE Done \/ SecretInfoQuery \/ SessionOpened \/ Refused \/ LoginLost
  <2>1. /\ UNCHANGED <<todo, failed, choices, driver, accounts, effects, gdm>>
        /\ phase' \in {"login", "session", "stuck"}
        /\ lost' = TRUE \/ lost' = lost
        /\ held' = user_password \/ held' = None \/ held' = held
        /\ sent' = held \/ sent' = sent
    BY <1>3 DEF Done, SecretInfoQuery, SessionOpened, Refused, LoginLost, login
  <2>2. FlagTypes'
    BY <2>1 DEF TInv, FlagTypes, choices, driver, accounts, guardian, effects
  <2>3. SecretTypes'
    BY <2>1 DEF TInv, SecretTypes, Secrets, choices, driver, accounts, main, guardian
  <2>4. FlowTypes' /\ AccountTypes'
    BY <2>1 DEF TInv, FlowTypes, AccountTypes, choices, accounts, main, guardian
  <2>5. KeyringGiven'
    BY <2>1 DEF TInv, KeyringGiven, Left, choices, driver, accounts, main, effects
  <2> QED  BY <2>2, <2>3, <2>4, <2>5 DEF TInv
<1>4. CASE Crash
  <2>1. /\ todo' = <<>> /\ mode' = "local" /\ phase' \in {"forms", "greeter"}
        /\ phase' = "forms" => main_type = "none"
        /\ UNCHANGED <<accounts, effects, lost>>
    BY <1>4 DEF Crash
  <2>2. todo' \in Seq(Step) /\ ~Left("update keyring")' /\ ~Left("domain keyring")'
    BY <2>1, EmptySeq, NothingLeft DEF Left
  <2>3. FlagTypes'
    BY <1>4 DEF Crash, TInv, FlagTypes, accounts, guardian, effects
  <2>4. SecretTypes'
    BY <1>4 DEF Crash, TInv, SecretTypes, Secrets, accounts, main, guardian
  <2>5. FlowTypes' /\ AccountTypes'
    BY <2>1, <2>2 DEF TInv, FlowTypes, AccountTypes, accounts, main, guardian
  <2>6. KeyringGiven'
    BY <2>1, <2>2 DEF TInv, KeyringGiven, accounts, main, effects
  <2> QED  BY <2>3, <2>4, <2>5, <2>6 DEF TInv
<1> QED  BY <1>1, <1>2, <1>3, <1>4

LEMMA NextTInv == TInv /\ [Next]_vars => TInv'
<1> SUFFICES ASSUME TInv, [Next]_vars PROVE TInv'
  OBVIOUS
<1>1. CASE UNCHANGED vars
  <2>1. FlowTypes' /\ AccountTypes' /\ KeyringGiven'
    BY <1>1 DEF vars, TInv, FlowTypes, AccountTypes, KeyringGiven, Left, choices, driver,
       accounts, main, guardian, effects
  <2>2. FlagTypes' /\ SecretTypes'
    BY <1>1 DEF vars, TInv, FlagTypes, SecretTypes, choices, driver, accounts, main, guardian,
       effects, login
  <2> QED  BY <2>1, <2>2 DEF TInv
<1>2. CASE Next
  <2>1. \/ SaveStep
        \/ \E password \in Texts, guarded \in BOOLEAN, guardian_password \in Texts :
              FillLocal(password, guarded, guardian_password)
        \/ \E password \in Texts : RegisterDomainUser(password)
        \/ FillEnterprise
        \/ SaveFails \/ SaveLost \/ Done \/ SecretInfoQuery \/ SessionOpened \/ Refused
        \/ LoginLost \/ Crash
    BY <1>2 DEF Next
  <2> QED  BY <2>1, SaveStepTypes, FormsTypes, EndTypes
<1> QED  BY <1>1, <1>2

(* Every variable of the saving has its type, through crashes and lost     *)
(* calls; the keyring above all is never given a password that nobody has  *)
(* entered, though one step takes it from the form and the other from what *)
(* the driver kept when the domain let the user in.                        *)
THEOREM TypeCorrect == Spec => []TypeOK
<1>1. Spec => []TInv
  BY InitTInv, NextTInv, PTL DEF Spec
<1>2. TInv => TypeOK
  BY DEF TInv, TypeOK, FlowTypes, FlagTypes, SecretTypes, AccountTypes, KeyringGiven
<1> QED  BY <1>1, <1>2, PTL

-----------------------------------------------------------------------------
(* The parent who cannot log in.                                           *)

(* The parent's account is there and nobody can use it.                    *)
LockedOut ==
  parent_type = "administrator" /\ ~lost /\ ~at_login /\ parent_password = None

(* That is so for one step: the call behind the one that creates it.  A    *)
(* process that is killed there leaves it to the greeter.                  *)
LockedOutOnce ==
  LockedOut /\ phase # "greeter" =>
    phase = "summary" /\ todo # <<>> /\ Head(todo) = "parent at login"

(* While there is neither account the forms are filled in, and a password  *)
(* for the parent is one that was entered.                                 *)
ParentInv ==
  /\ phase = "forms" => parent_type = "none"
  /\ "create parent" \in Elems(todo) \/ "set parent password" \in Elems(todo) => parental
  /\ phase = "summary" \/ todo = <<>>

(* What a saving of a local user has to do is parental only with controls. *)
LEMMA ParentalSteps ==
  /\ "create parent" \notin Elems(SaveSteps("local", FALSE))
  /\ "set parent password" \notin Elems(SaveSteps("local", FALSE))
  /\ "create parent" \notin Elems(SaveSteps("enterprise", FALSE))
  /\ "set parent password" \notin Elems(SaveSteps("enterprise", FALSE))
<1>1. \A i \in DOMAIN Plain : i = 1 \/ i = 2 \/ i = 3 \/ i = 4 \/ i = 5
  <2>1. DOMAIN Plain = 1 .. 5
    BY PlainAt, Zenon
  <2> QED  BY <2>1
<1>2. \A i \in DOMAIN Plain : Plain[i] # "create parent" /\ Plain[i] # "set parent password"
  BY <1>1, PlainAt
<1>3. "create parent" \notin Elems(Plain) /\ "set parent password" \notin Elems(Plain)
  BY <1>2 DEF Elems
<1>4. SaveSteps("enterprise", FALSE) = <<"domain keyring">>
  BY DEF SaveSteps
<1>5. Elems(SaveSteps("local", FALSE)) = Elems(Plain)
  BY SaveStepsPlain
<1>6. Elems(SaveSteps("enterprise", FALSE)) = {"domain keyring"}
  BY <1>4, OnlyDomain
<1>7. /\ "create parent" \notin Elems(SaveSteps("local", FALSE))
      /\ "set parent password" \notin Elems(SaveSteps("local", FALSE))
  BY <1>3, <1>5
<1>8. /\ "create parent" \notin Elems(SaveSteps("enterprise", FALSE))
      /\ "set parent password" \notin Elems(SaveSteps("enterprise", FALSE))
  BY <1>6
<1> QED  BY <1>7, <1>8

LEMMA InitParentInv == Init => ParentInv /\ LockedOutOnce
<1> SUFFICES ASSUME Init PROVE ParentInv /\ LockedOutOnce
  OBVIOUS
<1>1. todo = <<>> /\ \A step : step \notin Elems(todo)
  BY NothingLeft DEF Init
<1> QED  BY <1>1 DEF Init, ParentInv, LockedOutOnce, LockedOut

(* What is behind the first step of a saving with parental controls.       *)
LEMMA BehindFirst ==
  SubSeq(Guarded, 2, 10) # <<>> /\ Head(SubSeq(Guarded, 2, 10)) = "parent at login"
<1> DEFINE rest == SubSeq(Guarded, 2, 10)
<1>1. \A i \in 2 .. 10 : Guarded[i] \in Step
  <2> TAKE i \in 2 .. 10
  <2>1. i \in 1 .. Len(Guarded)
    BY GuardedIsSeq
  <2> QED  BY <2>1, GuardedIsSeq, ElementOfSeq
<1>2. /\ rest \in Seq(Step)
      /\ Len(rest) = (IF 2 <= 10 THEN 10 - 2 + 1 ELSE 0)
      /\ \A i \in 1 .. (10 - 2 + 1) : rest[i] = Guarded[2 + i - 1]
  BY <1>1, SubSeqProperties
<1>3. Len(rest) = 9 /\ (\A i \in 1 .. 9 : rest[i] = Guarded[2 + i - 1])
  BY <1>2
<1>4. 1 \in 1 .. 9 /\ 2 + 1 - 1 = 2
  OBVIOUS
<1>5. rest[1] = Guarded[2]
  BY <1>3, <1>4
<1> HIDE DEF rest
<1>6. rest # <<>>
  <2> SUFFICES ASSUME rest = <<>> PROVE FALSE
    OBVIOUS
  <2>1. Len(rest) = 0
    BY <1>2, EmptySeq
  <2> QED  BY <1>3, <2>1
<1>7. Head(rest) = rest[1]
  BY <1>2, <1>6
<1>8. Head(rest) = "parent at login"
  BY <1>5, <1>7, GuardedAt
<1> QED  BY <1>6, <1>8 DEF rest

(* The step that makes the parent's account is followed by the one that    *)
(* makes it usable.                                                        *)
LEMMA SaveStepParent ==
  ASSUME TInv, IInv, ParentInv, LockedOutOnce, SaveStep \/ SaveLost
  PROVE  ParentInv' /\ LockedOutOnce'
<1>1. /\ Saving /\ todo' = Tail(todo) /\ UNCHANGED <<phase, parental>>
  BY DEF SaveStep, SaveLost, CreateParent, ParentAtLogin, SetParentPassword, KeepParent,
         KeepMain, KeepPassword, UpdateKeyring, DomainKeyring, FilterApps, CreateMain,
         SetPassword, Do, choices
<1>2. phase = "summary" /\ todo \in Seq(Step) /\ todo # <<>>
  BY <1>1 DEF TInv, FlowTypes, Saving
<1>3. Elems(todo') \subseteq Elems(todo) /\ Head(todo) \in Elems(todo)
  BY <1>1, <1>2, StepTaken DEF Left
<1>4. ParentInv'
  BY <1>1, <1>2, <1>3 DEF ParentInv
<1>5. LockedOutOnce'
  <2> SUFFICES ASSUME LockedOut' PROVE todo' # <<>> /\ Head(todo') = "parent at login"
    BY <1>1, <1>2 DEF LockedOutOnce
  <2>1. CASE CreateParent
    <3>1. parental /\ Head(todo) = "create parent"
      BY <1>3, <2>1 DEF CreateParent, Do, ParentInv
    <3>2. PICK k \in 0..9 : ParentAfter(k)
      BY <1>2, <3>1 DEF IInv, GuardedInOrder
    <3>3. Head(todo) = Guarded[k + 1] /\ Tail(todo) = SubSeq(Guarded, (k + 1) + 1, 10)
      BY <3>2, GuardedStep DEF ParentAfter
    <3>4. \A i \in 1 .. 10 : Guarded[i] = "create parent" => i = 1
      <4>1. \A i \in 1 .. 10 : i = 1 \/ i = 2 \/ i = 3 \/ i = 4 \/ i = 5 \/ i = 6 \/ i = 7
                                \/ i = 8 \/ i = 9 \/ i = 10
        OBVIOUS
      <4> QED  BY <4>1, GuardedAt
    <3>5. k + 1 \in 1 .. 10
      OBVIOUS
    <3>6. k + 1 = 1
      BY <3>1, <3>3, <3>4, <3>5, Zenon
    <3>7. k = 0 /\ 1 \in 0 .. 9
      BY <3>6
    <3>8. (k + 1) + 1 = 2 /\ 2 \in 1 .. 10 /\ 10 \in Nat
      BY <3>7
    <3>9. todo' = SubSeq(Guarded, 2, 10)
      BY <1>1, <3>3, <3>8
    <3> QED  BY <3>9, BehindFirst
  <2>2. CASE ParentAtLogin
    BY <2>2 DEF ParentAtLogin, LockedOut
  <2>3. CASE SetParentPassword
    <3>1. parental
      BY <1>3, <2>3 DEF SetParentPassword, Do, ParentInv
    <3>2. entered_parent # None
      BY <1>2, <3>1 DEF IInv, GuardedInOrder
    <3> QED  BY <2>3, <3>2 DEF SetParentPassword, LockedOut
  <2>4. CASE ~CreateParent /\ ~ParentAtLogin /\ ~SetParentPassword
    <3>1. UNCHANGED <<parent_type, at_login, parent_password>> /\ (lost' = TRUE \/ UNCHANGED lost)
      BY <2>4 DEF SaveStep, SaveLost, KeepParent, KeepMain, KeepPassword, UpdateKeyring,
         DomainKeyring, FilterApps, CreateMain, SetPassword, accounts, guardian
    <3>2. LockedOut
      BY <3>1 DEF LockedOut
    <3>3. Head(todo) = "parent at login"
      BY <1>2, <3>2 DEF LockedOutOnce
    <3>4. SaveLost
      BY <2>4, <3>3 DEF SaveStep, KeepParent, KeepMain, KeepPassword, UpdateKeyring,
         DomainKeyring, FilterApps, CreateMain, SetPassword, Do
    <3> QED  BY <3>4 DEF SaveLost, LockedOut
  <2> QED  BY <2>1, <2>2, <2>3, <2>4
<1> QED  BY <1>4, <1>5

LEMMA NextParentInv == TInv /\ IInv /\ ParentInv /\ LockedOutOnce /\ [Next]_vars => ParentInv' /\ LockedOutOnce'
<1> SUFFICES ASSUME TInv, IInv, ParentInv, LockedOutOnce, [Next]_vars PROVE ParentInv' /\ LockedOutOnce'
  OBVIOUS
<1>1. ASSUME NEW password \in Texts, NEW guarded \in BOOLEAN, NEW guardian_password \in Texts,
             FillLocal(password, guarded, guardian_password)
      PROVE  ParentInv' /\ LockedOutOnce'
  <2>1. /\ phase = "forms" /\ phase' = "summary" /\ parental' = guarded
        /\ todo' = SaveSteps("local", guarded)
        /\ UNCHANGED parent_type
    BY <1>1 DEF FillLocal, accounts, guardian
  <2>2. parent_type' = "none"
    BY <2>1 DEF ParentInv
  <2>3. guarded \/ ("create parent" \notin Elems(todo') /\ "set parent password" \notin Elems(todo'))
    BY <2>1, ParentalSteps
  <2> QED  BY <2>1, <2>2, <2>3 DEF ParentInv, LockedOutOnce, LockedOut
<1>2. ASSUME NEW password \in Texts, RegisterDomainUser(password)
      PROVE  ParentInv' /\ LockedOutOnce'
  <2>1. phase = "forms" /\ todo = <<>> /\ UNCHANGED <<phase, todo, parent_type>>
    BY <1>2 DEF RegisterDomainUser, guardian, ParentInv
  <2>2. \A step : step \notin Elems(todo')
    BY <2>1, NothingLeft
  <2> QED  BY <2>1, <2>2 DEF ParentInv, LockedOutOnce, LockedOut
<1>3. CASE FillEnterprise
  <2>1. phase = "forms" /\ phase' = "summary" /\ todo' = SaveSteps("enterprise", FALSE) /\ UNCHANGED parent_type
    BY <1>3 DEF FillEnterprise, accounts, guardian
  <2> QED  BY <2>1, ParentalSteps DEF ParentInv, LockedOutOnce, LockedOut
<1>4. CASE SaveFails
  <2>1. /\ phase = "summary" /\ todo # <<>> /\ Head(todo) # "parent at login" /\ todo' = <<>>
        /\ UNCHANGED <<phase, parent_type, at_login, parent_password, lost>>
    BY <1>4 DEF SaveFails, FailAt, Saving, accounts, guardian
  <2>2. \A step : step \notin Elems(todo')
    BY <2>1, NothingLeft
  <2>3. ~LockedOut
    BY <2>1 DEF LockedOutOnce
  <2> QED  BY <2>1, <2>2, <2>3 DEF ParentInv, LockedOutOnce, LockedOut
<1>5. CASE Done \/ SecretInfoQuery \/ SessionOpened \/ Refused \/ LoginLost
  <2>1. /\ todo = <<>> /\ phase \in {"summary", "login"} /\ phase' \in {"login", "session", "stuck"}
        /\ UNCHANGED <<todo, parental, parent_type, at_login, parent_password>>
        /\ lost' = TRUE \/ UNCHANGED lost
    BY <1>5 DEF Done, SecretInfoQuery, SessionOpened, Refused, LoginLost, choices, accounts,
       guardian, ParentInv
  <2>2. \A step : step \notin Elems(todo')
    BY <2>1, NothingLeft
  <2>3. ~LockedOut
    BY <2>1 DEF LockedOutOnce
  <2>4. ParentInv'
    BY <2>1, <2>2 DEF ParentInv
  <2>5. ~LockedOut'
    <3> SUFFICES ASSUME LockedOut' PROVE FALSE
      OBVIOUS
    <3>1. parent_type = "administrator" /\ ~lost' /\ ~at_login' /\ parent_password = None
      BY <2>1 DEF LockedOut
    <3>2. lost' = lost /\ at_login' = at_login
      BY <2>1, <3>1
    <3>3. ~lost /\ ~at_login
      BY <3>1, <3>2, Zenon
    <3> QED  BY <2>3, <3>1, <3>3 DEF LockedOut
  <2> QED  BY <2>4, <2>5 DEF LockedOutOnce
<1>6. CASE Crash
  <2>1. /\ todo' = <<>> /\ phase' \in {"forms", "greeter"}
        /\ phase' = "forms" => parent_type' = "none"
    BY <1>6 DEF Crash, accounts, guardian
  <2>2. \A step : step \notin Elems(todo')
    BY <2>1, NothingLeft
  <2> QED  BY <2>1, <2>2 DEF ParentInv, LockedOutOnce, LockedOut
<1>7. CASE UNCHANGED vars
  <2>1. UNCHANGED <<phase, todo, parental, parent_type, at_login, parent_password, lost>>
    BY <1>7 DEF vars, choices, accounts, guardian
  <2> QED  BY <2>1 DEF ParentInv, LockedOutOnce, LockedOut
<1>8. CASE SaveStep \/ SaveLost
  BY <1>8, SaveStepParent
<1> QED
  BY <1>1, <1>2, <1>3, <1>4, <1>5, <1>6, <1>7, <1>8 DEF Next

(* The parent's account is unusable for one step of one saving, whatever   *)
(* else fails or is killed, before or behind: the call that lets the parent*)
(* set a password when logging in comes next.  It is the step TLC finds in *)
(* the run that refutes ParentUsable.                                      *)
THEOREM LockedOutForOneStep == Spec => []LockedOutOnce
<1>1. Init => TInv /\ IInv /\ ParentInv /\ LockedOutOnce
  BY InitTInv, InitIInv, InitParentInv
<1>2. TInv /\ IInv /\ ParentInv /\ LockedOutOnce /\ [Next]_vars =>
        (TInv /\ IInv /\ ParentInv /\ LockedOutOnce)'
  BY NextTInv, NextIInv, NextParentInv
<1> QED
  BY <1>1, <1>2, PTL DEF Spec

=============================================================================
