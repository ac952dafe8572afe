------------------------ MODULE EnterpriseJoinProofs -------------------------
(***************************************************************************)
(* Proofs about the domain join: nobody is let in from outside the domain, *)
(* the dialog never reads an error there is none of, a cancelled apply     *)
(* registers nobody, and only the realm strands an apply.                  *)
(***************************************************************************)
EXTENDS EnterpriseJoin, TLAPS

(* An apply prompts for the first time only after its log-in.              *)
NotPromptedYet == phase \in {"discovering", "checking"} => ~prompted

IInv == MembersOnly /\ PromptHasReason /\ NotPromptedYet

-----------------------------------------------------------------------------
(* Types, in three parts: flags, words and counters.                       *)

Flags ==
  /\ cancelled \in BOOLEAN /\ heeds \in BOOLEAN /\ prompted \in BOOLEAN
  /\ valid \in BOOLEAN /\ configured \in BOOLEAN
  /\ visible \in BOOLEAN /\ listed \in BOOLEAN
  /\ known \in BOOLEAN /\ chosen \in BOOLEAN

Words ==
  /\ phase \in Phase
  /\ entry \in Users
  /\ {tried, cached} \subseteq Users \cup {None}
  /\ offers \in SUBSET Feature

Counters ==
  /\ prompts \in 0..MaxPrompts /\ applies \in 0..MaxApplies
  /\ made \in Nat /\ connecting \in Nat /\ made + connecting <= MaxManagers
  /\ manager \in 0..made /\ asked \in 0..made

LEMMA TypeIsParts == TypeOK <=> Flags /\ Words /\ Counters
  BY DEF TypeOK, Flags, Words, Counters

LEMMA FlagsKept == Flags /\ [Next]_vars => Flags'
<1> SUFFICES ASSUME Flags, [Next]_vars PROVE Flags'
  OBVIOUS
<1>1. CASE Apply
  BY <1>1 DEF Apply, Flags, realm, realmd, domain
<1>2. ASSUME NEW found \in BOOLEAN, Discovered(found) PROVE Flags'
  BY <1>2 DEF Discovered, Complete, Flags, realm, realmd, domain
<1>3. ASSUME NEW answer \in Answer, Checked(answer) PROVE Flags'
  BY <1>3 DEF Checked, Complete, ShowPrompt, Flags, realm, realmd, domain
<1>4. ASSUME NEW answer \in Answer, AdminChecked(answer) PROVE Flags'
  BY <1>4 DEF AdminChecked, ShowPrompt, Flags, realm, realmd, domain
<1>5. ASSUME NEW outcome \in {"joined", "bad credentials", "failed"}, Joined(outcome)
      PROVE  Flags'
  BY <1>5 DEF Joined, Complete, ShowPrompt, Flags, realmd, domain
<1>6. ASSUME NEW ok \in BOOLEAN, HostNamed(ok) PROVE Flags'
  BY <1>6 DEF HostNamed, ShowPrompt, Flags, realm, realmd, domain
<1>7. ASSUME NEW ok \in BOOLEAN, Permitted(ok) PROVE Flags'
  BY <1>7 DEF Permitted, Complete, Flags, realm, realmd, domain
<1>8. CASE Dismiss
  BY <1>8 DEF Dismiss, Complete, Flags, realm, realmd, domain
<1>9. CASE TryAdmin
  BY <1>9 DEF TryAdmin, Complete, Flags, realm, realmd, domain
<1>10. CASE Cancel \/ EditEntry \/ EditDomain
  BY <1>10 DEF Cancel, EditEntry, EditDomain, Flags, apply, realm, realmd, domain
<1>11. CASE RealmdAppeared \/ RealmdDisappeared
  BY <1>11 DEF RealmdAppeared, RealmdDisappeared, Flags, apply, realm, domain
<1>12. ASSUME NEW ok \in BOOLEAN, ManagerCreated(ok) PROVE Flags'
  BY <1>12 DEF ManagerCreated, AddRealm, Flags, apply, realm, domain
<1>13. CASE RealmAdded
  BY <1>13 DEF RealmAdded, AddRealm, Flags, apply, realm, realmd, domain
<1>14. CASE UNCHANGED vars
  BY <1>14 DEF vars, Flags, apply, realm, realmd, domain
<1> QED
  BY <1>1, <1>2, <1>3, <1>4, <1>5, <1>6, <1>7, <1>8, <1>9, <1>10, <1>11, <1>12,
     <1>13, <1>14 DEF Next, Replied, Responded

LEMMA WordsKept == Words /\ [Next]_vars => Words'
<1> SUFFICES ASSUME Words, [Next]_vars PROVE Words'
  OBVIOUS
<1> USE DEF Words, Phase, Waiting
<1>1. CASE Apply
  BY <1>1 DEF Apply, AddUser, CheckLogin, realm
<1>2. ASSUME NEW found \in BOOLEAN, Discovered(found) PROVE Words'
  BY <1>2 DEF Discovered, Complete, CheckLogin, realm
<1>3. ASSUME NEW answer \in Answer, Checked(answer) PROVE Words'
  BY <1>3 DEF Checked, Complete, PermitLogin, ShowPrompt, realm
<1>4. ASSUME NEW answer \in Answer, AdminChecked(answer) PROVE Words'
  BY <1>4 DEF AdminChecked, ShowPrompt, account, realm
<1>5. ASSUME NEW outcome \in {"joined", "bad credentials", "failed"}, Joined(outcome)
      PROVE  Words'
  BY <1>5 DEF Joined, Complete, PermitLogin, ShowPrompt
<1>6. ASSUME NEW ok \in BOOLEAN, HostNamed(ok) PROVE Words'
  BY <1>6 DEF HostNamed, ShowPrompt, account, realm
<1>7. ASSUME NEW ok \in BOOLEAN, Permitted(ok) PROVE Words'
  BY <1>7 DEF Permitted, Complete, realm
<1>8. CASE Responded
  BY <1>8 DEF Responded, Dismiss, TryAdmin, Complete, account, realm
<1>9. CASE Cancel \/ EditEntry \/ EditDomain
  BY <1>9 DEF Cancel, EditEntry, EditDomain, account, realm
<1>10. CASE RealmdAppeared \/ RealmdDisappeared \/ RealmAdded
  BY <1>10 DEF RealmdAppeared, RealmdDisappeared, RealmAdded, account, realm
<1>11. ASSUME NEW ok \in BOOLEAN, ManagerCreated(ok) PROVE Words'
  BY <1>11 DEF ManagerCreated, account, realm
<1>12. CASE UNCHANGED vars
  BY <1>12 DEF vars, account, realm
<1> QED
  BY <1>1, <1>2, <1>3, <1>4, <1>5, <1>6, <1>7, <1>8, <1>9, <1>10, <1>11, <1>12
     DEF Next, Replied

(* What most steps leave alone.                                            *)
Managers == <<manager, made, connecting, asked>>

LEMMA CountersKept == Counters /\ [Next]_vars => Counters'
<1> SUFFICES ASSUME Counters, [Next]_vars PROVE Counters'
  OBVIOUS
<1> USE BoundsAssumption DEF Counters
<1>1. CASE Apply
  BY <1>1 DEF Apply, AddUser, realmd
<1>2. CASE Replied
  <2>1. UNCHANGED <<prompts, applies>> /\ UNCHANGED Managers
    BY <1>2 DEF Replied, Discovered, Checked, AdminChecked, Joined, HostNamed,
                Permitted, Managers, realmd
  <2> QED
    BY <2>1 DEF Managers
<1>3. CASE Dismiss \/ Cancel \/ EditEntry \/ EditDomain \/ RealmAdded \/ UNCHANGED vars
  <2>1. UNCHANGED <<prompts, applies>> /\ UNCHANGED Managers
    BY <1>3 DEF Dismiss, Cancel, EditEntry, EditDomain, RealmAdded, vars, Managers,
                apply, realmd
  <2> QED
    BY <2>1 DEF Managers
<1>4. CASE TryAdmin
  <2>1. prompts < MaxPrompts /\ prompts' = prompts + 1
    BY <1>4 DEF TryAdmin
  <2>2. applies' = applies /\ UNCHANGED Managers
    BY <1>4 DEF TryAdmin, realmd, Managers
  <2> QED
    BY <2>1, <2>2 DEF Managers
<1>5. CASE RealmdAppeared
  BY <1>5 DEF RealmdAppeared, apply
<1>6. ASSUME NEW ok \in BOOLEAN, ManagerCreated(ok) PROVE Counters'
  BY <1>6 DEF ManagerCreated, apply
<1>7. CASE RealmdDisappeared
  BY <1>7 DEF RealmdDisappeared, apply
<1> QED
  BY <1>1, <1>2, <1>3, <1>4, <1>5, <1>6, <1>7 DEF Next, Responded

(* Whatever becomes of the join, every variable keeps its type; in         *)
(* particular no manager has a number that was not given out.              *)
THEOREM TypeCorrect == Spec => []TypeOK
<1>1. Init => TypeOK
  <2> SUFFICES ASSUME Init PROVE Flags /\ Words /\ Counters
    BY TypeIsParts
  <2>1. Flags
    BY DEF Init, Flags
  <2>2. Words
    BY DEF Init, Words, Phase
  <2>3. Counters
    BY BoundsAssumption DEF Init, Counters
  <2> QED
    BY <2>1, <2>2, <2>3
<1>2. TypeOK /\ [Next]_vars => TypeOK'
  <2> SUFFICES ASSUME TypeOK, [Next]_vars PROVE TypeOK'
    OBVIOUS
  <2>1. Flags' /\ Words' /\ Counters'
    BY TypeIsParts, FlagsKept, WordsKept, CountersKept
  <2> QED
    BY <2>1 DEF TypeOK, Flags, Words, Counters
<1> QED
  BY <1>1, <1>2, PTL DEF Spec

-----------------------------------------------------------------------------
(* The domain and the dialog.                                              *)

LEMMA IInvKept == IInv /\ [Next]_vars => IInv'
<1> SUFFICES ASSUME IInv, [Next]_vars PROVE IInv'
  OBVIOUS
<1> USE DEF IInv, MembersOnly, PromptHasReason, NotPromptedYet
<1>1. CASE Apply
  BY <1>1 DEF Apply, AddUser, CheckLogin, realm
<1>2. ASSUME NEW found \in BOOLEAN, Discovered(found) PROVE IInv'
  BY <1>2 DEF Discovered, Complete, CheckLogin, realm
<1>3. ASSUME NEW answer \in Answer, Checked(answer) PROVE IInv'
  BY <1>3 DEF Checked, Complete, PermitLogin, ShowPrompt, realm
<1>4. ASSUME NEW answer \in Answer, AdminChecked(answer) PROVE IInv'
  BY <1>4 DEF AdminChecked, ShowPrompt, realm
<1>5. ASSUME NEW outcome \in {"joined", "bad credentials", "failed"}, Joined(outcome)
      PROVE  IInv'
  BY <1>5 DEF Joined, Complete, PermitLogin, ShowPrompt
<1>6. ASSUME NEW ok \in BOOLEAN, HostNamed(ok) PROVE IInv'
  BY <1>6 DEF HostNamed, ShowPrompt, realm
<1>7. ASSUME NEW ok \in BOOLEAN, Permitted(ok) PROVE IInv'
  BY <1>7 DEF Permitted, Complete, realm
<1>8. CASE Responded
  BY <1>8 DEF Responded, Dismiss, TryAdmin, Complete, realm
<1>9. CASE Cancel \/ EditEntry \/ EditDomain
  <2>1. UNCHANGED <<phase, prompted, configured>>
    BY <1>9 DEF Cancel, EditEntry, EditDomain, apply, realm
  <2> QED
    BY <2>1
<1>10. CASE RealmdAppeared \/ RealmdDisappeared \/ RealmAdded
  BY <1>10 DEF RealmdAppeared, RealmdDisappeared, RealmAdded, apply, realm
<1>11. ASSUME NEW ok \in BOOLEAN, ManagerCreated(ok) PROVE IInv'
  BY <1>11 DEF ManagerCreated, apply, realm
<1>12. CASE UNCHANGED vars
  BY <1>12 DEF vars, apply, realm
<1> QED
  BY <1>1, <1>2, <1>3, <1>4, <1>5, <1>6, <1>7, <1>8, <1>9, <1>10, <1>11, <1>12
     DEF Next, Replied

LEMMA Invariance == Spec => []IInv
<1>1. Init => IInv
  BY DEF Init, IInv, MembersOnly, PromptHasReason, NotPromptedYet
<1> QED
  BY <1>1, IInvKept, PTL DEF Spec

(* The permission to log in is asked for only from inside the domain, by   *)
(* whichever way the machine came into it.                                 *)
THEOREM NoneFromOutside == Spec => []MembersOnly
  BY Invariance, PTL DEF IInv

(* join_show_prompt reads the error of the last attempt only if there is   *)
(* one, in the first apply and in any later one.                           *)
THEOREM PromptsExplain == Spec => []PromptHasReason
  BY Invariance, PTL DEF IInv

-----------------------------------------------------------------------------
(* Cancelling, and the ways to be stranded.                                *)

(* Once cancelled, no step of an apply registers a user or ends it as      *)
(* valid: the calls that were not given the cancellable go on to ones that *)
(* were.                                                                   *)
THEOREM CancelledRegistersNobody == Spec => CancelHolds
<1> DEFINE Held == cancelled /\ phase # "idle" =>
                     cached' = cached /\ (phase' = "idle" => ~valid')
<1>1. [Next]_vars => [Held]_vars
  <2> SUFFICES ASSUME Next, cancelled, phase # "idle"
               PROVE  cached' = cached /\ (phase' = "idle" => ~valid')
    OBVIOUS
  <2>1. CASE Apply
    BY <2>1 DEF Apply
  <2>2. ASSUME NEW found \in BOOLEAN, Discovered(found)
        PROVE  cached' = cached /\ (phase' = "idle" => ~valid')
    BY <2>2 DEF Discovered, CheckLogin, Complete
  <2>3. ASSUME NEW answer \in Answer, Checked(answer)
        PROVE  cached' = cached /\ (phase' = "idle" => ~valid')
    BY <2>3 DEF Checked, Complete
  <2>4. ASSUME NEW answer \in Answer, AdminChecked(answer)
        PROVE  cached' = cached /\ (phase' = "idle" => ~valid')
    BY <2>4 DEF AdminChecked, ShowPrompt, account
  <2>5. ASSUME NEW outcome \in {"joined", "bad credentials", "failed"}, Joined(outcome)
        PROVE  cached' = cached /\ (phase' = "idle" => ~valid')
    BY <2>5 DEF Joined, Complete, PermitLogin, ShowPrompt
  <2>6. ASSUME NEW ok \in BOOLEAN, HostNamed(ok)
        PROVE  cached' = cached /\ (phase' = "idle" => ~valid')
    BY <2>6 DEF HostNamed, ShowPrompt, account
  <2>7. ASSUME NEW ok \in BOOLEAN, Permitted(ok)
        PROVE  cached' = cached /\ (phase' = "idle" => ~valid')
    BY <2>7 DEF Permitted, Complete
  <2>8. CASE Responded
    BY <2>8 DEF Responded, Dismiss, TryAdmin, Complete, account
  <2>9. CASE Cancel \/ EditEntry \/ EditDomain
    BY <2>9 DEF Cancel, EditEntry, EditDomain, account
  <2>10. CASE RealmdAppeared \/ RealmdDisappeared \/ RealmAdded
    BY <2>10 DEF RealmdAppeared, RealmdDisappeared, RealmAdded, account
  <2>11. ASSUME NEW ok \in BOOLEAN, ManagerCreated(ok)
         PROVE  cached' = cached /\ (phase' = "idle" => ~valid')
    BY <2>11 DEF ManagerCreated, account
  <2> QED
    BY <2>1, <2>2, <2>3, <2>4, <2>5, <2>6, <2>7, <2>8, <2>9, <2>10, <2>11
       DEF Next, Replied
<1> QED
  BY <1>1, PTL DEF Spec, CancelHolds

(* No answer of Kerberos, of the join or of hostnamed, and nothing the user*)
(* does, leaves an apply without an end; what does is named.               *)
THEOREM StrandedOnlyByRealm == Spec => StrandedByRealm
<1> DEFINE Reason ==
      \/ phase = "idle" /\ manager = 0 /\ ~known
      \/ "format" \notin offers
      \/ phase = "checking admin"
    Named == phase' = "stranded" /\ phase # "stranded" => Reason
<1>1. [Next]_vars => [Named]_vars
  <2> SUFFICES ASSUME Next, phase' = "stranded", phase # "stranded" PROVE Reason
    OBVIOUS
  <2>1. CASE Apply
    BY <2>1 DEF Apply, AddUser, CheckLogin
  <2>2. CASE Replied
    BY <2>2 DEF Replied, Discovered, Checked, AdminChecked, Joined, HostNamed, Permitted,
                CheckLogin, Complete, PermitLogin, ShowPrompt
  <2>3. CASE Responded
    BY <2>3 DEF Responded, Dismiss, TryAdmin, Complete
  <2>4. CASE Cancel \/ EditEntry \/ EditDomain
    BY <2>4 DEF Cancel, EditEntry, EditDomain
  <2>5. CASE RealmdAppeared \/ RealmdDisappeared \/ RealmAdded
    BY <2>5 DEF RealmdAppeared, RealmdDisappeared, RealmAdded
  <2>6. ASSUME NEW ok \in BOOLEAN, ManagerCreated(ok) PROVE Reason
    BY <2>6 DEF ManagerCreated
  <2> QED
    BY <2>1, <2>2, <2>3, <2>4, <2>5, <2>6 DEF Next
<1> QED
  BY <1>1, PTL DEF Spec, StrandedByRealm

=============================================================================
