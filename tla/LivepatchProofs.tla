--------------------------- MODULE LivepatchProofs ---------------------------
(***************************************************************************)
(* Proofs about the Livepatch page: the quit inhibitors count the calls in *)
(* flight, the page implements DeferredQuit, and what the user chose is    *)
(* what the service ends up with.                                          *)
(***************************************************************************)
EXTENDS Livepatch, FiniteSetTheorems, SequenceTheorems, TLAPS

(* Open dialogs of a kind are finitely many.                               *)
LEMMA OpenIsNat ==
  ASSUME modal \in Seq(Dialog), NEW d
  PROVE  Open(d) \in Nat
<1>1. IsFiniteSet(1..Len(modal)) /\ {i \in 1..Len(modal) : modal[i] = d} \subseteq 1..Len(modal)
  BY FS_Interval
<1>2. IsFiniteSet({i \in 1..Len(modal) : modal[i] = d})
  BY <1>1, FS_Subset
<1> QED
  BY <1>2, FS_CardinalityType DEF Open

(* The same of the dialogs open after a step.                              *)
LEMMA OpenIsNatAfter ==
  ASSUME modal' \in Seq(Dialog), NEW d
  PROVE  Open(d)' \in Nat
<1>1. /\ IsFiniteSet(1..Len(modal'))
      /\ {i \in 1..Len(modal') : modal'[i] = d} \subseteq 1..Len(modal')
  BY FS_Interval
<1>2. IsFiniteSet({i \in 1..Len(modal') : modal'[i] = d})
  BY <1>1, FS_Subset
<1> QED
  BY <1>2, FS_CardinalityType DEF Open

(* The dialog opened last is one of its kind.                              *)
LEMMA OpenIsPositive ==
  ASSUME modal \in Seq(Dialog), NEW d, Top(d)
  PROVE  Open(d) > 0
<1> DEFINE P == {i \in 1..Len(modal) : modal[i] = d}
<1>1. IsFiniteSet(1..Len(modal)) /\ P \subseteq 1..Len(modal)
  BY FS_Interval
<1>2. IsFiniteSet(P)
  BY <1>1, FS_Subset
<1>3. Len(modal) \in P
  BY DEF Top
<1>4. Cardinality(P) \in Nat /\ (Cardinality(P) = 0 <=> P = {})
  BY <1>2, FS_CardinalityType, FS_EmptySet
<1> QED
  BY <1>3, <1>4 DEF Open

(* Opening a dialog adds one of its kind.                                  *)
LEMMA OpenOneMore ==
  ASSUME modal \in Seq(Dialog), NEW e \in Dialog, modal' = Append(modal, e), NEW d
  PROVE  /\ modal' \in Seq(Dialog)
         /\ Open(d)' = IF d = e THEN Open(d) + 1 ELSE Open(d)
<1> DEFINE P == {i \in 1..Len(modal) : modal[i] = d}
           Q == {i \in 1..Len(modal') : modal'[i] = d}
<1>1. modal' \in Seq(Dialog)
  OBVIOUS
<1>2. IsFiniteSet(P)
  <2>1. IsFiniteSet(1..Len(modal)) /\ P \subseteq 1..Len(modal)
    BY FS_Interval
  <2> QED
    BY <2>1, FS_Subset
<1>3. Q = IF d = e THEN P \cup {Len(modal) + 1} ELSE P
  OBVIOUS
<1>4. Len(modal) + 1 \notin P
  OBVIOUS
<1>5. Cardinality(P \cup {Len(modal) + 1}) = Cardinality(P) + 1
  BY <1>2, <1>4, FS_AddElement
<1>6. Open(d) = Cardinality(P) /\ Open(d)' = Cardinality(Q)
  BY DEF Open
<1> QED
  BY <1>1, <1>3, <1>5, <1>6

(* Closing the dialog opened last removes one of its kind.                 *)
LEMMA OpenOneLess ==
  ASSUME modal \in Seq(Dialog), NEW e \in Dialog, Top(e), Close, NEW d
  PROVE  /\ modal' \in Seq(Dialog)
         /\ Open(d)' = IF d = e THEN Open(d) - 1 ELSE Open(d)
<1> DEFINE n == Len(modal)
           P == {i \in 1..Len(modal) : modal[i] = d}
           Q == {i \in 1..Len(modal') : modal'[i] = d}
<1>1. n \in Nat /\ n > 0 /\ modal[n] = e
  BY DEF Top
<1>2. modal' = SubSeq(modal, 1, n - 1)
  BY DEF Close
<1>3. /\ modal' \in Seq(Dialog)
      /\ Len(modal') = n - 1
      /\ \A i \in 1..n-1 : modal'[i] = modal[i]
  <2>1. \A i \in 1..n-1 : modal[i] \in Dialog
    BY <1>1
  <2>2. /\ SubSeq(modal, 1, n - 1) \in Seq(Dialog)
        /\ Len(SubSeq(modal, 1, n - 1)) = IF 1 <= n - 1 THEN (n - 1) - 1 + 1 ELSE 0
        /\ \A i \in 1..((n - 1) - 1 + 1) : SubSeq(modal, 1, n - 1)[i] = modal[1 + i - 1]
    <3> HIDE DEF n
    <3>1. 1 \in Int /\ n - 1 \in Int
      BY <1>1
    <3> QED
      BY <2>1, <3>1, SubSeqProperties
  <2> HIDE DEF n
  <2>3. modal' \in Seq(Dialog) /\ Len(modal') = n - 1
    BY <1>1, <1>2, <2>2
  <2>4. ASSUME NEW i \in 1..n-1 PROVE modal'[i] = modal[i]
    BY <1>1, <1>2, <2>2
  <2> QED
    BY <2>3, <2>4
<1>4. IsFiniteSet(P)
  <2>1. IsFiniteSet(1..Len(modal)) /\ P \subseteq 1..Len(modal)
    BY FS_Interval
  <2> QED
    BY <2>1, FS_Subset
<1>5. Q = IF d = e THEN P \ {n} ELSE P
  BY <1>1, <1>3
<1>6. d = e => n \in P
  BY <1>1
<1>7. d = e => Cardinality(P \ {n}) = Cardinality(P) - 1
  BY <1>4, <1>6, FS_RemoveElement
<1>8. Open(d) = Cardinality(P) /\ Open(d)' = Cardinality(Q)
  BY DEF Open
<1> QED
  BY <1>3, <1>5, <1>7, <1>8

(* The calls the service has not served, with one more or one less.        *)
Unserved == working["enable"] + working["disable"]

LEMMA UnservedChanges ==
  ASSUME working \in [Request -> Nat], NEW r \in Request
  PROVE  /\ working' = [working EXCEPT ![r] = @ + 1] =>
              working' \in [Request -> Nat] /\ Unserved' = Unserved + 1 /\ Unserved' > 0
         /\ working[r] > 0 /\ working' = [working EXCEPT ![r] = @ - 1] =>
              working' \in [Request -> Nat] /\ Unserved' = Unserved - 1
  BY DEF Unserved, Request

(* The replies not yet handled, with one more or one less.                 *)
Unhandled == answers["success"] + answers["failure"]

LEMMA UnhandledChanges ==
  ASSUME answers \in [Outcome -> Nat], NEW o \in Outcome
  PROVE  /\ answers' = [answers EXCEPT ![o] = @ + 1] =>
              answers' \in [Outcome -> Nat] /\ Unhandled' = Unhandled + 1 /\ Unhandled' > 0
         /\ answers[o] > 0 /\ answers' = [answers EXCEPT ![o] = @ - 1] =>
              answers' \in [Outcome -> Nat] /\ Unhandled' = Unhandled - 1
  BY DEF Unhandled, Outcome

-----------------------------------------------------------------------------
(* The inductive invariant.                                                *)

(* A quit that was put off is not forgotten when the last inhibitor goes.  *)
NoForgottenQuit == quit_requested /\ inhibit_count = 0 => quitting

IInv ==
  /\ TypeOK
  /\ InhibitorsCountCalls
  /\ EnableHasToken
  /\ WaitingForACall
  /\ SuccessSettles
  /\ NoForgottenQuit

(* What the invariant says of the counters of the calls.                   *)
LEMMA Counts ==
  ASSUME TypeOK
  PROVE  /\ InFlight = Unserved + Unhandled
         /\ Unserved \in Nat /\ Unhandled \in Nat /\ InFlight \in Nat
         /\ \A r \in Request : working[r] > 0 => Unserved > 0
         /\ \A o \in Outcome : answers[o] > 0 => Unhandled > 0
         /\ Open("error") \in Nat
<1>1. /\ working \in [Request -> Nat]
      /\ answers \in [Outcome -> Nat]
      /\ modal \in Seq(Dialog)
  BY DEF TypeOK
<1>2. Open("error") \in Nat
  BY <1>1, OpenIsNat
<1>3. /\ working["enable"] \in Nat /\ working["disable"] \in Nat
      /\ answers["success"] \in Nat /\ answers["failure"] \in Nat
  BY <1>1 DEF Request, Outcome
<1> QED
  BY <1>1, <1>2, <1>3 DEF InFlight, Unserved, Unhandled, Request, Outcome

(* No call is in flight and no dialog open when the page is shown first.   *)
LEMMA InitInv == Init => IInv
<1> SUFFICES ASSUME Init PROVE IInv
  OBVIOUS
<1>1. modal \in Seq(Dialog) /\ Len(modal) = 0
  <2>1. modal = <<>>
    BY DEF Init
  <2> QED
    BY <2>1
<1>2. Open("error") = 0
  <2>1. {i \in 1..Len(modal) : modal[i] = "error"} = {}
    BY <1>1
  <2> QED
    BY <2>1, FS_EmptySet DEF Open
<1>3. /\ working \in [Request -> Nat] /\ answers \in [Outcome -> Nat]
      /\ InFlight = 0
  <2>1. working = [r \in Request |-> 0] /\ answers = [o \in Outcome |-> 0]
    BY DEF Init
  <2> QED
    BY <2>1 DEF InFlight, Request, Outcome
<1>4. /\ choice = FALSE /\ waiting = FALSE /\ token = FALSE /\ box = FALSE
      /\ quit_requested = FALSE /\ quitting = FALSE
      /\ account = FALSE /\ button = TRUE /\ enabled = FALSE /\ window = TRUE
      /\ here \in BOOLEAN
      /\ permission \in {"allowed", "can acquire", "unavailable"}
      /\ message = "" /\ last = "none"
  BY DEF Init
<1>5. inhibit_count = 0 /\ asking = 0 /\ fetching = 0 /\ setUps = 0
  BY DEF Init
<1>6. setUps \in 0..MaxSetUps
  BY <1>5, MaxSetUpsAssumption DEF MaxSetUpsAssumption
<1>7. TypeOK
  BY <1>1, <1>3, <1>4, <1>5, <1>6 DEF TypeOK
<1>8. InhibitorsCountCalls
  BY <1>2, <1>3, <1>5 DEF InhibitorsCountCalls
<1>9. EnableHasToken /\ WaitingForACall
  BY <1>4, Zenon DEF EnableHasToken, WaitingForACall
<1>10. SuccessSettles
  BY <1>4 DEF SuccessSettles
<1>11. NoForgottenQuit
  BY <1>4, Zenon DEF NoForgottenQuit
<1> QED
  BY <1>7, <1>8, <1>9, <1>10, <1>11, Zenon DEF IInv

-----------------------------------------------------------------------------
(* The types are preserved: the flags, then the words, then what is counted.*)

Flags ==
  /\ choice \in BOOLEAN /\ waiting \in BOOLEAN /\ token \in BOOLEAN
  /\ account \in BOOLEAN /\ button \in BOOLEAN /\ box \in BOOLEAN
  /\ enabled \in BOOLEAN /\ quit_requested \in BOOLEAN /\ quitting \in BOOLEAN
  /\ window \in BOOLEAN /\ here \in BOOLEAN

Words ==
  /\ permission \in {"allowed", "can acquire", "unavailable"}
  /\ message \in {"", "enabling", "enabled", "enable failed", "disable failed"}
  /\ last \in {"none", "sent", "not sent"} \cup Outcome

Counters ==
  /\ modal \in Seq(Dialog)
  /\ asking \in Nat /\ fetching \in Nat
  /\ working \in [Request -> Nat]
  /\ answers \in [Outcome -> Nat]
  /\ inhibit_count \in Nat
  /\ setUps \in 0..MaxSetUps

(* TypeOK is the three of them together.                                   *)
LEMMA TypeParts == TypeOK <=> Flags /\ Words /\ Counters
BY Zenon DEF TypeOK, Flags, Words, Counters

(* Every handler assigns truth values to the flags.                        *)
LEMMA FlagsInv == Flags /\ [Next]_vars => Flags'
<1> SUFFICES ASSUME Flags, [Next]_vars PROVE Flags'
  OBVIOUS
<1> USE DEF Flags, page, widgets, flights, service, driver, history
<1>1. CASE ClickSetUp
  BY <1>1, Zenon DEF ClickSetUp, ShowLogin
<1>2. CASE PermissionAcquired
  BY <1>2, Zenon DEF PermissionAcquired, ShowLogin
<1>3. CASE LoginClosed
  BY <1>3, Zenon DEF LoginClosed
<1>4. CASE TokenFailed
  BY <1>4, Zenon DEF TokenFailed
<1>5. ASSUME NEW sent \in BOOLEAN, TokenReady(sent) PROVE Flags'
  BY <1>5, Zenon DEF TokenReady, SetLivepatchEnabled, Inhibit
<1>6. ASSUME NEW sent \in BOOLEAN, SignOut(sent) PROVE Flags'
  BY <1>6, Zenon DEF SignOut, SignedOut, SetLivepatchEnabled, Inhibit
<1>7. ASSUME NEW r \in Request, Serve(r) PROVE Flags'
  BY <1>7, Zenon DEF Serve
<1>8. ASSUME NEW sent \in BOOLEAN, EnabledSucceeded(sent) PROVE Flags'
  BY <1>8, Zenon DEF EnabledSucceeded, Handle, Disagrees, InhibitAgain, Uninhibit
<1>9. CASE EnabledFailed
  BY <1>9, Zenon DEF EnabledFailed, Handle, Disagrees, Uninhibit
<1>10. CASE ErrorClosed
  BY <1>10, Zenon DEF ErrorClosed, Uninhibit
<1>11. CASE ChangePage
  BY <1>11, Zenon DEF ChangePage
<1>12. CASE Finish
  BY <1>12, Zenon DEF Finish, QuitDriver
<1>13. CASE Activate
  BY <1>13, Zenon DEF Activate
<1>14. CASE UNCHANGED vars
  BY <1>14, Zenon DEF vars
<1> QED
  BY <1>1, <1>2, <1>3, <1>4, <1>5, <1>6, <1>7, <1>8, <1>9, <1>10, <1>11, <1>12,
     <1>13, <1>14, Zenon DEF Next, Answered

(* Every handler assigns words of the right kind.                          *)
LEMMA WordsInv == Words /\ [Next]_vars => Words'
<1> SUFFICES ASSUME Words, [Next]_vars PROVE Words'
  OBVIOUS
<1> USE DEF Words, Outcome, page, widgets, flights, service, driver, history
<1>1. CASE ClickSetUp
  BY <1>1 DEF ClickSetUp
<1>2. CASE PermissionAcquired
  BY <1>2 DEF PermissionAcquired
<1>3. CASE LoginClosed
  BY <1>3 DEF LoginClosed
<1>4. CASE TokenFailed
  BY <1>4 DEF TokenFailed
<1>5. ASSUME NEW sent \in BOOLEAN, TokenReady(sent) PROVE Words'
  BY <1>5 DEF TokenReady, SetLivepatchEnabled
<1>6. ASSUME NEW sent \in BOOLEAN, SignOut(sent) PROVE Words'
  BY <1>6 DEF SignOut, SetLivepatchEnabled
<1>7. ASSUME NEW r \in Request, Serve(r) PROVE Words'
  BY <1>7 DEF Serve
<1>8. ASSUME NEW sent \in BOOLEAN, EnabledSucceeded(sent) PROVE Words'
  BY <1>8 DEF EnabledSucceeded
<1>9. CASE EnabledFailed
  BY <1>9 DEF EnabledFailed
<1>10. CASE ErrorClosed
  BY <1>10 DEF ErrorClosed
<1>11. CASE ChangePage
  BY <1>11 DEF ChangePage
<1>12. CASE Finish
  BY <1>12 DEF Finish
<1>13. CASE Activate
  BY <1>13 DEF Activate
<1>14. CASE UNCHANGED vars
  BY <1>14 DEF vars
<1> QED
  BY <1>1, <1>2, <1>3, <1>4, <1>5, <1>6, <1>7, <1>8, <1>9, <1>10, <1>11, <1>12,
     <1>13, <1>14, Zenon DEF Next, Answered

(* What changes neither a call nor a dialog changes no count.              *)
LEMMA SameCounts ==
  /\ UNCHANGED working => Unserved' = Unserved
  /\ UNCHANGED answers => Unhandled' = Unhandled
  /\ UNCHANGED modal => \A d : Open(d)' = Open(d)
BY DEF Unserved, Unhandled, Open

(* Sending a call takes the inhibitor that counts it.                      *)
LEMMA SendCounts ==
  ASSUME Counters, NEW value \in BOOLEAN, NEW sent \in BOOLEAN,
         SetLivepatchEnabled(value, sent)
  PROVE  /\ working' \in [Request -> Nat] /\ inhibit_count' \in Nat
         /\ \/ Unserved' = Unserved + 1 /\ inhibit_count' = inhibit_count + 1
            \/ Unserved' = Unserved /\ inhibit_count' = inhibit_count
<1>1. working \in [Request -> Nat] /\ inhibit_count \in Nat
  BY DEF Counters
<1>2. Wish(value) \in Request
  BY DEF Wish, Request
<1>3. CASE sent
  <2>1. working' = [working EXCEPT ![Wish(value)] = @ + 1]
    BY <1>3 DEF SetLivepatchEnabled
  <2>2. inhibit_count' = inhibit_count + 1
    BY <1>3 DEF SetLivepatchEnabled, Inhibit
  <2>3. working' \in [Request -> Nat] /\ Unserved' = Unserved + 1
    BY <1>1, <1>2, <2>1, UnservedChanges
  <2>4. inhibit_count' \in Nat
    BY <1>1, <2>2
  <2> QED
    BY <2>2, <2>3, <2>4
<1>4. CASE ~sent
  <2>1. UNCHANGED <<working, inhibit_count>>
    BY <1>4 DEF SetLivepatchEnabled, driver
  <2> QED
    BY <1>1, <2>1, SameCounts
<1> QED
  BY <1>3, <1>4

(* Every step keeps the counters counting, and inhibit_count the sum of    *)
(* the calls and the error dialogs.                                        *)
LEMMA CountersInv ==
  ASSUME TypeOK, InhibitorsCountCalls, [Next]_vars
  PROVE  Counters' /\ InhibitorsCountCalls'
<1> DEFINE Balance == inhibit_count = Unserved + Unhandled + Open("error")
<1>1. Counters /\ Flags
  BY TypeParts
<1>2. Balance
  BY Counts DEF InhibitorsCountCalls
<1>3. Unserved \in Nat /\ Unhandled \in Nat /\ Open("error") \in Nat
  BY Counts
<1>4. ASSUME Counters', Balance'
      PROVE  Counters' /\ InhibitorsCountCalls'
  <2>1. working' \in [Request -> Nat] /\ answers' \in [Outcome -> Nat]
    BY <1>4 DEF Counters
  <2>2. InFlight' = Unserved' + Unhandled'
    BY <2>1 DEF InFlight, Unserved, Unhandled, Request, Outcome
  <2> QED
    BY <1>4, <2>2 DEF InhibitorsCountCalls
<1> SUFFICES Counters' /\ Balance'
  BY <1>4
<1>5. ASSUME UNCHANGED <<working, answers, inhibit_count, fetching, setUps>>,
             modal' \in Seq(Dialog), asking' \in Nat,
             Open("error")' = Open("error")
      PROVE  Counters' /\ Balance'
  BY <1>1, <1>2, <1>5, SameCounts DEF Counters
<1> USE DEF page, widgets, flights, service, driver, history
<1>6. CASE ClickSetUp
  <2>1. modal' = Append(modal, "login") \/ UNCHANGED modal
    BY <1>6 DEF ClickSetUp, ShowLogin
  <2>2. modal' \in Seq(Dialog) /\ Open("error")' = Open("error")
    BY <1>1, <2>1, OpenOneMore, SameCounts DEF Counters, Dialog
  <2>3. setUps' \in 0..MaxSetUps
    <3>1. setUps \in 0..MaxSetUps /\ setUps < MaxSetUps /\ setUps' = setUps + 1
      BY <1>1, <1>6, Zenon DEF ClickSetUp, Counters
    <3> QED
      BY <3>1, MaxSetUpsAssumption DEF MaxSetUpsAssumption
  <2>6. asking' \in Nat
    <3>1. asking \in Nat /\ (asking' = asking + 1 \/ asking' = asking)
      BY <1>1, <1>6, Zenon DEF ClickSetUp, Counters
    <3> QED
      BY <3>1
  <2>4. UNCHANGED <<working, answers, inhibit_count, fetching>>
    BY <1>6 DEF ClickSetUp
  <2>5. Counters'
    BY <1>1, <2>2, <2>3, <2>4, <2>6 DEF Counters
  <2> QED
    BY <1>2, <2>2, <2>4, <2>5, SameCounts
<1>7. CASE PermissionAcquired
  <2>1. modal' = Append(modal, "login") \/ UNCHANGED modal
    BY <1>7 DEF PermissionAcquired, ShowLogin
  <2>2. modal' \in Seq(Dialog) /\ Open("error")' = Open("error")
    BY <1>1, <2>1, OpenOneMore, SameCounts DEF Counters, Dialog
  <2>3. asking' \in Nat
    BY <1>1, <1>7 DEF PermissionAcquired, Counters
  <2> QED
    BY <1>5, <1>7, <2>2, <2>3 DEF PermissionAcquired
<1>8. CASE LoginClosed
  <2>1. modal' \in Seq(Dialog) /\ Open("error")' = Open("error")
    BY <1>1, <1>8, OpenOneLess DEF LoginClosed, Counters, Dialog
  <2>2. fetching' \in Nat
    BY <1>1, <1>8 DEF LoginClosed, Counters
  <2>3. UNCHANGED <<working, answers, inhibit_count, asking, setUps>>
    BY <1>8 DEF LoginClosed
  <2> QED
    BY <1>1, <1>2, <2>1, <2>2, <2>3, SameCounts DEF Counters
<1>9. CASE TokenFailed
  BY <1>1, <1>2, <1>9, SameCounts DEF TokenFailed, Counters
<1>10. ASSUME NEW sent \in BOOLEAN, TokenReady(sent)
       PROVE  Counters' /\ Balance'
  <2>1. SetLivepatchEnabled(TRUE, sent)
    BY <1>10 DEF TokenReady
  <2>2. fetching' \in Nat
    <3>1. fetching \in Nat /\ fetching > 0 /\ fetching' = fetching - 1
      BY <1>1, <1>10, Zenon DEF TokenReady, Counters
    <3> QED
      BY <3>1
  <2>3. UNCHANGED <<modal, answers, asking, setUps>>
    BY <1>10 DEF TokenReady
  <2>4. /\ working' \in [Request -> Nat] /\ inhibit_count' \in Nat
        /\ \/ Unserved' = Unserved + 1 /\ inhibit_count' = inhibit_count + 1
           \/ Unserved' = Unserved /\ inhibit_count' = inhibit_count
    BY <1>1, <2>1, SendCounts, Zenon
  <2>5. Counters'
    BY <1>1, <2>2, <2>3, <2>4 DEF Counters
  <2> QED
    BY <1>2, <1>3, <2>3, <2>4, <2>5, SameCounts
<1>11. ASSUME NEW sent \in BOOLEAN, SignOut(sent)
       PROVE  Counters' /\ Balance'
  <2>1. SetLivepatchEnabled(FALSE, sent) \/ UNCHANGED <<working, inhibit_count>>
    BY <1>11 DEF SignOut
  <2>2. UNCHANGED <<modal, answers, asking, fetching, setUps>>
    BY <1>11 DEF SignOut
  <2>3. UNCHANGED <<working, inhibit_count>> =>
          /\ working' \in [Request -> Nat] /\ inhibit_count' \in Nat
          /\ Unserved' = Unserved
    BY <1>1, SameCounts DEF Counters
  <2>4. /\ working' \in [Request -> Nat] /\ inhibit_count' \in Nat
        /\ \/ Unserved' = Unserved + 1 /\ inhibit_count' = inhibit_count + 1
           \/ Unserved' = Unserved /\ inhibit_count' = inhibit_count
    BY <1>1, <2>1, <2>3, SendCounts, Zenon
  <2>5. Counters'
    BY <1>1, <2>2, <2>4 DEF Counters
  <2> QED
    BY <1>2, <1>3, <2>2, <2>4, <2>5, SameCounts
<1>12. ASSUME NEW r \in Request, Serve(r)
       PROVE  Counters' /\ Balance'
  <2>1. working' \in [Request -> Nat] /\ Unserved' = Unserved - 1
    BY <1>1, <1>12, UnservedChanges DEF Serve, Counters
  <2>2. answers' \in [Outcome -> Nat] /\ Unhandled' = Unhandled + 1
    BY <1>1, <1>12, UnhandledChanges DEF Serve, Counters, Outcome
  <2>3. UNCHANGED <<modal, asking, fetching, inhibit_count, setUps>>
    BY <1>12 DEF Serve
  <2>4. Counters'
    BY <1>1, <2>1, <2>2, <2>3 DEF Counters
  <2> QED
    BY <1>2, <1>3, <2>1, <2>2, <2>3, <2>4, SameCounts
<1>13. ASSUME NEW sent \in BOOLEAN, EnabledSucceeded(sent)
       PROVE  Counters' /\ Balance'
  <2>1. answers' \in [Outcome -> Nat] /\ Unhandled' = Unhandled - 1
    BY <1>1, <1>13, UnhandledChanges DEF EnabledSucceeded, Handle, Counters, Outcome
  <2>2. Unhandled > 0
    BY <1>13, Counts DEF EnabledSucceeded, Handle, Outcome
  <2>3. \/ /\ working' = [working EXCEPT ![Wish(choice)] = @ + 1]
           /\ UNCHANGED inhibit_count
        \/ UNCHANGED working /\ inhibit_count' = inhibit_count - 1
    BY <1>13, Zenon DEF EnabledSucceeded, InhibitAgain, Uninhibit
  <2>4. UNCHANGED <<modal, asking, fetching, setUps>>
    BY <1>13 DEF EnabledSucceeded
  <2>5. Wish(choice) \in Request
    BY DEF Wish, Request
  <2>6. CASE /\ working' = [working EXCEPT ![Wish(choice)] = @ + 1]
             /\ UNCHANGED inhibit_count
    <3>1. working' \in [Request -> Nat] /\ Unserved' = Unserved + 1
      BY <1>1, <2>5, <2>6, UnservedChanges DEF Counters
    <3>2. Counters'
      BY <1>1, <2>1, <2>4, <2>6, <3>1 DEF Counters
    <3> QED
      BY <1>2, <1>3, <2>1, <2>4, <2>6, <3>1, <3>2, SameCounts
  <2>7. CASE UNCHANGED working /\ inhibit_count' = inhibit_count - 1
    <3>1. inhibit_count' \in Nat
      BY <1>2, <1>3, <2>2, <2>7
    <3>2. Counters'
      BY <1>1, <2>1, <2>4, <2>7, <3>1 DEF Counters
    <3> QED
      BY <1>2, <1>3, <2>1, <2>4, <2>7, <3>2, SameCounts
  <2> QED
    BY <2>3, <2>6, <2>7
<1>14. CASE EnabledFailed
  <2>1. answers' \in [Outcome -> Nat] /\ Unhandled' = Unhandled - 1
    BY <1>1, <1>14, UnhandledChanges DEF EnabledFailed, Handle, Counters, Outcome
  <2>2. Unhandled > 0
    BY <1>14, Counts DEF EnabledFailed, Handle, Outcome
  <2>3. \/ modal' = Append(modal, "error") /\ UNCHANGED inhibit_count
        \/ UNCHANGED modal /\ inhibit_count' = inhibit_count - 1
    BY <1>14, Zenon DEF EnabledFailed, Uninhibit
  <2>4. UNCHANGED <<working, asking, fetching, setUps>>
    BY <1>14 DEF EnabledFailed
  <2>5. CASE modal' = Append(modal, "error") /\ UNCHANGED inhibit_count
    <3>1. modal' \in Seq(Dialog) /\ Open("error")' = Open("error") + 1
      BY <1>1, <2>5, OpenOneMore DEF Counters, Dialog
    <3>2. Counters'
      BY <1>1, <2>1, <2>4, <2>5, <3>1 DEF Counters
    <3> QED
      BY <1>2, <1>3, <2>1, <2>4, <2>5, <3>1, <3>2, SameCounts
  <2>6. CASE UNCHANGED modal /\ inhibit_count' = inhibit_count - 1
    <3>1. inhibit_count' \in Nat
      BY <1>2, <1>3, <2>2, <2>6
    <3>2. Counters'
      BY <1>1, <2>1, <2>4, <2>6, <3>1 DEF Counters
    <3> QED
      BY <1>2, <1>3, <2>1, <2>4, <2>6, <3>2, SameCounts
  <2> QED
    BY <2>3, <2>5, <2>6
<1>15. CASE ErrorClosed
  <2>1. modal' \in Seq(Dialog) /\ Open("error")' = Open("error") - 1
    BY <1>1, <1>15, OpenOneLess DEF ErrorClosed, Counters, Dialog
  <2>2. Open("error") > 0
    BY <1>1, <1>15, OpenIsPositive DEF ErrorClosed, Counters
  <2>3. inhibit_count' = inhibit_count - 1
    BY <1>15 DEF ErrorClosed, Uninhibit
  <2>4. UNCHANGED <<working, answers, asking, fetching, setUps>>
    BY <1>15 DEF ErrorClosed
  <2> QED
    <3>1. inhibit_count' \in Nat
      BY <1>2, <1>3, <2>2, <2>3
    <3>2. Counters'
      BY <1>1, <2>1, <2>4, <3>1 DEF Counters
    <3> QED
      BY <1>2, <1>3, <2>1, <2>3, <2>4, <3>2, SameCounts
<1>16. CASE ChangePage
  BY <1>1, <1>5, <1>16, SameCounts DEF ChangePage, Counters
<1>17. CASE Finish
  <2>1. UNCHANGED inhibit_count
    BY <1>17 DEF Finish, QuitDriver
  <2> QED
    BY <1>1, <1>5, <1>17, <2>1, SameCounts DEF Finish, Counters
<1>18. CASE Activate
  BY <1>1, <1>5, <1>18, SameCounts DEF Activate, Counters
<1>19. CASE UNCHANGED vars
  BY <1>1, <1>5, <1>19, SameCounts DEF vars, Counters
<1> QED
  BY <1>6, <1>7, <1>8, <1>9, <1>10, <1>11, <1>12, <1>13, <1>14, <1>15, <1>16,
     <1>17, <1>18, <1>19, Zenon DEF Next, Answered

-----------------------------------------------------------------------------
(* The other parts of the invariant.                                       *)

(* A choice and a visible sign-out button come with a token and go with it.*)
LEMMA TokenInv == EnableHasToken /\ [Next]_vars => EnableHasToken'
<1> SUFFICES ASSUME EnableHasToken, [Next]_vars PROVE EnableHasToken'
  OBVIOUS
<1> USE DEF EnableHasToken, page, widgets
<1>1. ASSUME UNCHANGED <<choice, token, box>> PROVE EnableHasToken'
  <2>1. choice' = choice /\ token' = token /\ box' = box
    BY <1>1
  <2> QED
    BY <2>1, Zenon
<1>2. ClickSetUp \/ PermissionAcquired \/ LoginClosed \/ TokenFailed
        => UNCHANGED <<choice, token, box>>
  BY Zenon DEF ClickSetUp, PermissionAcquired, LoginClosed, TokenFailed
<1>3. ASSUME NEW sent \in BOOLEAN, TokenReady(sent) PROVE EnableHasToken'
  BY <1>3, Zenon DEF TokenReady
<1>4. ASSUME NEW sent \in BOOLEAN, SignOut(sent) PROVE EnableHasToken'
  BY <1>4, Zenon DEF SignOut, SignedOut
<1>5. ASSUME NEW r \in Request, Serve(r) PROVE UNCHANGED <<choice, token, box>>
  BY <1>5, Zenon DEF Serve
<1>6. Answered => UNCHANGED <<choice, token, box>>
  BY Zenon DEF Answered, EnabledSucceeded, EnabledFailed
<1>7. ErrorClosed \/ ChangePage \/ Finish \/ Activate => UNCHANGED <<choice, token, box>>
  BY Zenon DEF ErrorClosed, ChangePage, Finish, Activate
<1>8. UNCHANGED vars => UNCHANGED <<choice, token, box>>
  BY Zenon DEF vars
<1> QED
  BY <1>1, <1>2, <1>3, <1>4, <1>5, <1>6, <1>7, <1>8, Zenon DEF Next

(* After a step there is a call in flight when there is one in either half *)
(* of InFlight.                                                            *)
LEMMA InFlightParts ==
  ASSUME TypeOK, InhibitorsCountCalls, [Next]_vars
  PROVE  /\ InFlight \in Nat /\ InFlight' \in Nat
         /\ Unserved \in Nat /\ Unhandled \in Nat
         /\ Unserved' \in Nat /\ Unhandled' \in Nat
         /\ Unserved' > 0 \/ Unhandled' > 0 => InFlight' > 0
<1>1. Counters'
  BY CountersInv
<1>2. working' \in [Request -> Nat] /\ answers' \in [Outcome -> Nat]
  BY <1>1 DEF Counters
<1> QED
  BY <1>2, Counts DEF InFlight, Unserved, Unhandled, Request, Outcome

(* The page waits only for a call in flight, and the last call answered    *)
(* with success settles what the user chose.                               *)
LEMMA SettleInv ==
  ASSUME TypeOK, InhibitorsCountCalls, WaitingForACall, SuccessSettles, [Next]_vars
  PROVE  WaitingForACall' /\ SuccessSettles'
<1> USE DEF page, widgets, flights, service, driver, history
<1>1. Counters /\ Flags
  BY TypeParts
<1>2. /\ InFlight \in Nat /\ InFlight' \in Nat
      /\ Unserved \in Nat /\ Unhandled \in Nat
      /\ Unserved' \in Nat /\ Unhandled' \in Nat
      /\ Unserved' > 0 \/ Unhandled' > 0 => InFlight' > 0
  BY InFlightParts
<1>3. ASSUME UNCHANGED <<waiting, last, enabled, choice>>, UNCHANGED <<working, answers>>
      PROVE  WaitingForACall' /\ SuccessSettles'
  <2>1. InFlight' = InFlight
    BY <1>3 DEF InFlight
  <2> QED
    BY <1>3, <2>1, Zenon DEF WaitingForACall, SuccessSettles
<1>4. ASSUME InFlight' > 0 PROVE WaitingForACall' /\ SuccessSettles'
  <2>1. InFlight' # 0
    BY <1>2, <1>4
  <2> QED
    BY <1>4, <2>1, Zenon DEF WaitingForACall, SuccessSettles
<1>5. ASSUME waiting' = FALSE, last' # "success" PROVE WaitingForACall' /\ SuccessSettles'
  BY <1>5, Zenon DEF WaitingForACall, SuccessSettles
<1>6. ASSUME NEW value \in BOOLEAN, NEW sent \in BOOLEAN,
             SetLivepatchEnabled(value, sent), UNCHANGED answers
      PROVE  WaitingForACall' /\ SuccessSettles'
  <2>1. CASE sent
    <3>1. working' = [working EXCEPT ![Wish(value)] = @ + 1] /\ Wish(value) \in Request
      BY <1>6, <2>1 DEF SetLivepatchEnabled, Wish, Request
    <3>2. Unserved' > 0
      BY <1>1, <3>1, UnservedChanges DEF Counters
    <3>3. InFlight' > 0
      BY <1>2, <3>2
    <3> QED
      BY <1>4, <3>3
  <2>2. CASE ~sent
    <3>1. UNCHANGED <<working, answers>> /\ last' = "not sent" /\ waiting' = waiting
      BY <1>1, <1>6, <2>2, Zenon DEF SetLivepatchEnabled, Flags
    <3>2. InFlight' = InFlight /\ last' # "success"
      BY <3>1 DEF InFlight
    <3> QED
      BY <3>1, <3>2, Zenon DEF WaitingForACall, SuccessSettles
  <2> QED
    BY <2>1, <2>2
<1>7. ClickSetUp \/ PermissionAcquired \/ LoginClosed \/ TokenFailed
        => UNCHANGED <<waiting, last, enabled, choice, working, answers>>
  BY Zenon DEF ClickSetUp, PermissionAcquired, LoginClosed, TokenFailed
<1>8. ASSUME NEW sent \in BOOLEAN, TokenReady(sent)
      PROVE  WaitingForACall' /\ SuccessSettles'
  <2>1. SetLivepatchEnabled(TRUE, sent) /\ UNCHANGED answers
    BY <1>8, Zenon DEF TokenReady
  <2> QED
    BY <1>6, <2>1, Zenon
<1>9. ASSUME NEW sent \in BOOLEAN, SignOut(sent)
      PROVE  WaitingForACall' /\ SuccessSettles'
  <2>1. CASE ~waiting /\ enabled
    <3>1. SetLivepatchEnabled(FALSE, sent) /\ UNCHANGED answers
      BY <1>9, <2>1, Zenon DEF SignOut
    <3> QED
      BY <1>6, <3>1, Zenon
  <2>2. CASE waiting
    <3>1. InFlight > 0
      BY <2>2, Zenon DEF WaitingForACall
    <3>2. UNCHANGED <<working, answers>>
      BY <1>9, <2>2, Zenon DEF SignOut
    <3>3. InFlight' > 0
      BY <3>1, <3>2 DEF InFlight
    <3> QED
      BY <1>4, <3>3
  <2>3. CASE ~waiting /\ ~enabled
    <3>1. waiting' = waiting /\ enabled' = enabled /\ choice' = FALSE
      BY <1>9, <2>3, Zenon DEF SignOut, SignedOut
    <3>2. enabled' = choice'
      BY <1>1, <2>3, <3>1, Zenon DEF Flags
    <3> QED
      BY <2>3, <3>1, <3>2, Zenon DEF WaitingForACall, SuccessSettles
  <2> QED
    BY <2>1, <2>2, <2>3, Zenon
<1>10. ASSUME NEW r \in Request, Serve(r)
       PROVE  WaitingForACall' /\ SuccessSettles'
  <2>1. answers' = [answers EXCEPT !["success"] = @ + 1]
        \/ answers' = [answers EXCEPT !["failure"] = @ + 1]
    BY <1>10, Zenon DEF Serve
  <2>2. Unhandled' > 0
    BY <1>1, <2>1, UnhandledChanges DEF Counters, Outcome
  <2>3. InFlight' > 0
    BY <1>2, <2>2
  <2> QED
    BY <1>4, <2>3
<1>11. ASSUME NEW sent \in BOOLEAN, EnabledSucceeded(sent)
       PROVE  WaitingForACall' /\ SuccessSettles'
  <2>1. CASE Disagrees /\ sent
    <3>1. working' = [working EXCEPT ![Wish(choice)] = @ + 1] /\ Wish(choice) \in Request
      BY <1>11, <2>1 DEF EnabledSucceeded, Wish, Request
    <3>2. Unserved' > 0
      BY <1>1, <3>1, UnservedChanges DEF Counters
    <3>3. InFlight' > 0
      BY <1>2, <3>2
    <3> QED
      BY <1>4, <3>3
  <2>2. CASE Disagrees /\ ~sent
    <3>1. waiting' = FALSE /\ last' = "not sent"
      BY <1>11, <2>2, Zenon DEF EnabledSucceeded, Handle
    <3>2. last' # "success"
      BY <3>1
    <3> QED
      BY <1>5, <3>1, <3>2, Zenon
  <2>3. CASE ~Disagrees
    <3>1. waiting' = FALSE /\ UNCHANGED <<enabled, choice>>
      BY <1>11, <2>3, Zenon DEF EnabledSucceeded, Handle
    <3>2. enabled = choice
      BY <2>3, Zenon DEF Disagrees
    <3> QED
      BY <3>1, <3>2, Zenon DEF WaitingForACall, SuccessSettles
  <2> QED
    BY <2>1, <2>2, <2>3, Zenon
<1>12. CASE EnabledFailed
  <2>1. waiting' = FALSE /\ last' = "failure"
    BY <1>12, Zenon DEF EnabledFailed, Handle
  <2>2. last' # "success"
    BY <2>1
  <2> QED
    BY <1>5, <2>1, <2>2, Zenon
<1>13. ErrorClosed \/ ChangePage \/ Finish \/ Activate \/ UNCHANGED vars
         => UNCHANGED <<waiting, last, enabled, choice, working, answers>>
  BY Zenon DEF ErrorClosed, ChangePage, Finish, Activate, vars
<1> QED
  BY <1>3, <1>7, <1>8, <1>9, <1>10, <1>11, <1>12, <1>13, Zenon DEF Next, Answered

(* What a step of the page does to the driver: it takes an inhibitor, drops*)
(* one there is, asks for the end, or leaves the driver alone.             *)
LEMMA DriverSteps ==
  ASSUME TypeOK, InhibitorsCountCalls, [Next]_vars
  PROVE  \/ Inhibit
         \/ inhibit_count > 0 /\ Uninhibit
         \/ QuitDriver
         \/ UNCHANGED driver
<1>1. inhibit_count = Unserved + Unhandled + Open("error")
  BY Counts DEF InhibitorsCountCalls
<1>2. ASSUME NEW o \in Outcome, answers[o] > 0 PROVE inhibit_count > 0
  BY <1>1, <1>2, Counts
<1>3. ASSUME Top("error") PROVE inhibit_count > 0
  <2>1. modal \in Seq(Dialog)
    BY TypeParts DEF Counters
  <2>2. Open("error") > 0
    BY <1>3, <2>1, OpenIsPositive
  <2> QED
    BY <1>1, <2>2, Counts
<1>4. ClickSetUp \/ PermissionAcquired \/ LoginClosed \/ TokenFailed => UNCHANGED driver
  BY Zenon DEF ClickSetUp, PermissionAcquired, LoginClosed, TokenFailed
<1>5. ASSUME NEW sent \in BOOLEAN, TokenReady(sent) \/ SignOut(sent)
      PROVE  Inhibit \/ UNCHANGED driver
  BY <1>5, Zenon DEF TokenReady, SignOut, SetLivepatchEnabled
<1>6. ASSUME NEW r \in Request, Serve(r) PROVE UNCHANGED driver
  BY <1>6, Zenon DEF Serve
<1>7. ASSUME NEW sent \in BOOLEAN, EnabledSucceeded(sent)
      PROVE  (inhibit_count > 0 /\ Uninhibit) \/ UNCHANGED driver
  <2>1. answers["success"] > 0 /\ (Uninhibit \/ UNCHANGED driver)
    BY <1>7, Zenon DEF EnabledSucceeded, Handle, InhibitAgain
  <2> QED
    BY <1>2, <2>1 DEF Outcome
<1>8. ASSUME EnabledFailed
      PROVE  (inhibit_count > 0 /\ Uninhibit) \/ UNCHANGED driver
  <2>1. answers["failure"] > 0 /\ (Uninhibit \/ UNCHANGED driver)
    BY <1>8, Zenon DEF EnabledFailed, Handle
  <2> QED
    BY <1>2, <2>1 DEF Outcome
<1>9. ErrorClosed => inhibit_count > 0 /\ Uninhibit
  BY <1>3, Zenon DEF ErrorClosed
<1>10. Finish => QuitDriver
  BY Zenon DEF Finish
<1>11. ChangePage \/ Activate \/ UNCHANGED vars => UNCHANGED driver
  BY Zenon DEF ChangePage, Activate, vars
<1> QED
  BY <1>4, <1>5, <1>6, <1>7, <1>8, <1>9, <1>10, <1>11, Zenon DEF Next, Answered

(* A quit that was put off is taken up when the last inhibitor goes.       *)
LEMMA ForgottenInv ==
  ASSUME TypeOK, InhibitorsCountCalls, NoForgottenQuit, [Next]_vars
  PROVE  NoForgottenQuit'
<1>1. inhibit_count \in Nat
  BY TypeParts DEF Counters
<1>2. CASE Inhibit
  <2>1. inhibit_count' # 0
    BY <1>1, <1>2 DEF Inhibit
  <2> QED
    BY <2>1, Zenon DEF NoForgottenQuit
<1>3. CASE Uninhibit
  <2>1. inhibit_count' = 0 => inhibit_count = 1
    BY <1>1, <1>3 DEF Uninhibit
  <2> QED
    BY <1>3, <2>1, Zenon DEF Uninhibit, NoForgottenQuit
<1>4. CASE QuitDriver
  BY <1>4, Zenon DEF QuitDriver, NoForgottenQuit
<1>5. CASE UNCHANGED driver
  BY <1>5, Zenon DEF driver, NoForgottenQuit
<1> QED
  BY <1>2, <1>3, <1>4, <1>5, DriverSteps

(* The invariant is inductive.                                             *)
LEMMA NextInv == IInv /\ [Next]_vars => IInv'
<1> SUFFICES ASSUME IInv, [Next]_vars PROVE IInv'
  OBVIOUS
<1>1. /\ TypeOK /\ InhibitorsCountCalls /\ EnableHasToken /\ WaitingForACall
      /\ SuccessSettles /\ NoForgottenQuit
  BY Zenon DEF IInv
<1>2. Counters' /\ InhibitorsCountCalls'
  BY <1>1, CountersInv
<1>3. Flags' /\ Words'
  BY <1>1, TypeParts, FlagsInv, WordsInv, Zenon
<1>4. TypeOK'
  BY <1>2, <1>3, Zenon DEF TypeOK, Flags, Words, Counters
<1>5. EnableHasToken'
  BY <1>1, TokenInv
<1>6. WaitingForACall' /\ SuccessSettles'
  BY <1>1, SettleInv
<1>7. NoForgottenQuit'
  BY <1>1, ForgottenInv
<1> QED
  BY <1>2, <1>4, <1>5, <1>6, <1>7, Zenon DEF IInv

(* It holds in every reachable state.                                      *)
LEMMA Invariance == Spec => []IInv
BY InitInv, NextInv, PTL DEF Spec

-----------------------------------------------------------------------------
(* The results.                                                            *)

(* Every variable keeps its type, however many calls are in flight.        *)
THEOREM TypeCorrect == Spec => []TypeOK
<1>1. IInv => TypeOK
  BY DEF IInv
<1> QED
  BY <1>1, Invariance, PTL

(* gis_driver_inhibit_quit and gis_driver_uninhibit_quit are paired: the   *)
(* count is that of the calls in flight and the error dialogs open.        *)
THEOREM InhibitorsPaired == Spec => []InhibitorsCountCalls
<1>1. IInv => InhibitorsCountCalls
  BY DEF IInv
<1> QED
  BY <1>1, Invariance, PTL

(* set_livepatch_enabled (TRUE) is never called without a token.           *)
THEOREM TokenSent == Spec => []EnableHasToken
<1>1. IInv => EnableHasToken
  BY DEF IInv
<1> QED
  BY <1>1, Invariance, PTL

(* waiting_for_livepatch_response is set only while a call is in flight,   *)
(* and a last call that succeeds leaves the service as the user chose.     *)
THEOREM ChoiceSettles == Spec => []AnswersSettle
<1>1. IInv => AnswersSettle
  BY DEF IInv, AnswersSettle
<1> QED
  BY <1>1, Invariance, PTL

(* g_application_quit is reached only when no call is in flight.           *)
THEOREM NoQuitDuringCalls == Spec => QuitPutOff
<1>1. ASSUME IInv, [Next]_vars
      PROVE  [quitting' # quitting => inhibit_count' = 0 /\ InFlight' = 0]_vars
  <2>1. TypeOK /\ InhibitorsCountCalls /\ TypeOK' /\ InhibitorsCountCalls'
    BY <1>1, NextInv, Zenon DEF IInv
  <2>2. inhibit_count \in Nat
    BY <2>1, TypeParts DEF Counters
  <2>3. modal' \in Seq(Dialog)
    BY <2>1, Zenon DEF TypeOK
  <2>4. quitting' # quitting => inhibit_count' = 0
    <3>1. Inhibit \/ UNCHANGED driver => UNCHANGED quitting
      BY Zenon DEF Inhibit, driver
    <3>2. ASSUME Uninhibit, quitting' # quitting PROVE inhibit_count' = 0
      <4>1. inhibit_count = 1
        BY <2>1, <3>2, Zenon DEF Uninhibit, TypeOK
      <4> QED
        BY <3>2, <4>1 DEF Uninhibit
    <3>3. QuitDriver /\ quitting' # quitting => inhibit_count' = 0
      BY Zenon DEF QuitDriver
    <3> QED
      BY <1>1, <2>1, <3>1, <3>2, <3>3, DriverSteps, Zenon
  <2>5. inhibit_count' = 0 => InFlight' = 0
    <3>1. /\ InFlight' \in Nat
          /\ Unserved' \in Nat /\ Unhandled' \in Nat
          /\ Unserved' > 0 \/ Unhandled' > 0 => InFlight' > 0
      BY <1>1, <2>1, InFlightParts
    <3>2. Open("error")' \in Nat
      BY <2>3, OpenIsNatAfter
    <3> QED
      BY <2>1, <3>1, <3>2 DEF InhibitorsCountCalls
  <2> QED
    BY <2>4, <2>5, Zenon
<1> QED
  BY <1>1, Invariance, PTL DEF Spec, QuitPutOff

(* The page and the driver implement the quit inhibitors as promised.      *)
THEOREM ImplementsDeferredQuit == Spec => DeferredQuitSpec
<1>1. Init => Quit!Init
  BY Zenon DEF Init, Quit!Init
<1>2. ASSUME IInv, [Next]_vars PROVE [Quit!Next]_(Quit!vars)
  <2>1. TypeOK /\ InhibitorsCountCalls
    BY <1>2, Zenon DEF IInv
  <2>2. inhibit_count \in Nat
    BY <2>1, TypeParts DEF Counters
  <2>3. Inhibit => Quit!Begin
    BY Zenon DEF Inhibit, Quit!Begin
  <2>4. inhibit_count > 0 /\ Uninhibit => Quit!End
    BY Zenon DEF Uninhibit, Quit!End
  <2>5. QuitDriver => Quit!Ask
    <3>1. CASE inhibit_count = 0
      <4>1. ~(inhibit_count > 0)
        BY <3>1
      <4> QED
        BY <2>1, <3>1, <4>1, Zenon DEF QuitDriver, Quit!Ask, TypeOK
    <3>2. CASE inhibit_count # 0
      <4>1. inhibit_count > 0
        BY <2>2, <3>2
      <4> QED
        BY <2>1, <3>2, <4>1, Zenon DEF QuitDriver, Quit!Ask, TypeOK
    <3> QED
      BY <3>1, <3>2
  <2>6. UNCHANGED driver => UNCHANGED Quit!vars
    BY Zenon DEF driver, Quit!vars
  <2> QED
    BY <1>2, <2>1, <2>3, <2>4, <2>5, <2>6, DriverSteps, Zenon DEF Quit!Next
<1> QED
  BY <1>1, <1>2, Invariance, PTL DEF Spec, DeferredQuitSpec, Quit!Spec

=============================================================================
