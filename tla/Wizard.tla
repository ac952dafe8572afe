------------------------------- MODULE Wizard -------------------------------
(***************************************************************************)
(* What gis-assistant.c promises to the user: one page of a list is in     *)
(* front of him, and he moves along that list one page at a time.  While   *)
(* he does, the list changes behind the page in front of him, and not on   *)
(* the way back; but for pages that come and go with the network, and      *)
(* never the one he looks at.  A page that takes its time to be applied    *)
(* may be left backwards and not forwards.                                 *)
(***************************************************************************)
EXTENDS Integers

CONSTANTS
  N,       (* pages are numbered in the order of the list, from 1 to N     *)
  OwnWill, (* pages that come and go by themselves: goa, network           *)
  Slow     (* the page whose apply takes its time: account, or 0           *)

VARIABLES
  front,   (* the page in front of the user, 0 when there is none          *)
  list,    (* the pages he can reach                                       *)
  busy     (* the page that is being applied, or 0                         *)

vars == <<front, list, busy>>

Nothing == 0

Ahead(p, l) == {q \in l : p < q}

Behind(p, l) == {q \in l : q < p}

First(q, l) == q \in l /\ \A r \in l : q <= r

Last(q, l) == q \in l /\ \A r \in l : r <= q

Init ==
  /\ list \in SUBSET (1..N)
  /\ (front = Nothing /\ list = {}) \/ First(front, list)
  /\ busy = Nothing

(* What follows page p comes and goes, and nothing else does.              *)
KeepUpTo(p) ==
  /\ list' \in SUBSET (1..N)
  /\ {q \in list' : q <= p} = {q \in list : q <= p}

(* The move to the next page of the list, if it has one.                   *)
MoveOn == IF Ahead(front, list') = {} THEN front' = front ELSE First(front', Ahead(front, list'))

(* gis_assistant_next_page, of a page that is applied at once and may have *)
(* rebuilt the list.                                                       *)
Forward ==
  /\ front \notin {Nothing, busy}
  /\ \/ UNCHANGED list
     \/ busy = Nothing /\ KeepUpTo(front)
  /\ MoveOn
  /\ UNCHANGED busy

(* gis_assistant_previous_page                                             *)
Back ==
  /\ Last(front', Behind(front, list))
  /\ UNCHANGED <<list, busy>>

(* gis_page_apply_begin, of a page that takes its time                     *)
Begin ==
  /\ front = Slow /\ front # Nothing /\ busy = Nothing
  /\ busy' = Slow
  /\ KeepUpTo(front)
  /\ UNCHANGED front

(* gis_page_apply_complete: the page in front is left, unless the apply    *)
(* failed or was cancelled.  All up to the page applied stay.              *)
End ==
  /\ busy # Nothing
  /\ busy' = Nothing
  /\ KeepUpTo(busy)
  /\ MoveOn \/ UNCHANGED front

(* rebuild_pages_cb, which must not run while a later page is applied      *)
Rebuild ==
  /\ front # Nothing /\ busy \in {Nothing, front}
  /\ KeepUpTo(front)
  /\ UNCHANGED <<front, busy>>

(* gtk_widget_set_visible of a page                                        *)
ComeOrGo ==
  /\ \E q \in OwnWill \ {front} :
       \/ list' = list \ {q} /\ UNCHANGED front
       \/ list' = list \cup {q} /\ front' = IF front = Nothing THEN q ELSE front
  /\ UNCHANGED busy

Next == Forward \/ Back \/ Begin \/ End \/ Rebuild \/ ComeOrGo

Spec == Init /\ [][Next]_vars

=============================================================================
