---------------------------- MODULE AccessPoints ----------------------------
(***************************************************************************)
(* What the network page makes of the access points a device sees: the     *)
(* strongest of each name, the rows and their order.                       *)
(* (pages/network/gis-network-page.c)                                      *)
(***************************************************************************)
EXTENDS Sequences, SequencesExt, FiniteSetsExt, FiniteSets, Naturals

None == "none"
Hidden == "hidden"       (* the network the dialog asks for                *)
Busy == {"activating", "activated"}
States == {"unavailable", "disconnected"} \cup Busy

Same(unique, ap) == {i \in DOMAIN unique : unique[i].ssid = ap.ssid}

(* Mistake: the weaker access point replaces the stronger one.             *)
StrongestWeaker(unique, ap) ==
  LET j == Min(Same(unique, ap)) IN
  IF ap.ssid = None THEN unique
  ELSE IF Same(unique, ap) = {} THEN Append(unique, ap)
  ELSE IF ap.strength < unique[j].strength THEN Append(RemoveAt(unique, j), ap)
  ELSE unique

Strongest(unique, ap) ==
  LET j == Min(Same(unique, ap)) IN
  IF ap.ssid = None THEN unique
  ELSE IF Same(unique, ap) = {} THEN Append(unique, ap)
  ELSE IF ap.strength > unique[j].strength THEN Append(RemoveAt(unique, j), ap)
  ELSE unique

get_strongest_unique_aps(list) ==
  LET unique[m \in 0..Len(list)] ==
        IF m = 0 THEN <<>> ELSE Strongest(unique[m - 1], list[m])
  IN unique[Len(list)]

get_access_point_security(ap) ==
  CASE ~ap.privacy /\ ~ap.wpa /\ ~ap.rsn -> "none"
    [] ap.privacy /\ ~ap.wpa /\ ~ap.rsn  -> "wep"
    [] ~ap.privacy /\ ap.wpa /\ ap.rsn   -> "wpa"
    [] OTHER                             -> "wpa2"

(* The icon, and G_MAXUINT for the network in use: above any strength.     *)
Signal(strength) == Cardinality({limit \in {20, 40, 50, 80} : strength >= limit})
G_MAXUINT == 1000

Row(ap, act, st) ==
  LET mark == IF ap.ssid = act /\ st \in Busy THEN st ELSE None IN
  [ssid |-> ap.ssid, mark |-> mark, signal |-> Signal(ap.strength),
   locked |-> get_access_point_security(ap) # "none",
   order |-> IF mark = None THEN ap.strength ELSE G_MAXUINT]

Other == [ssid |-> "ap-other...", mark |-> None, signal |-> 0, locked |-> FALSE, order |-> 0]

(* GtkListBox inserts by ap_sort, behind those of the same order.          *)
Insert(list, row) ==
  InsertAt(list, Cardinality({i \in DOMAIN list : list[i].order >= row.order}) + 1, row)

(* refresh_wireless_list adds one row after the other.                     *)
RowsOf(list, act, st) ==
  LET unique == get_strongest_unique_aps(list)
      added[m \in 0..Len(unique)] ==
        IF m = 0 THEN <<>> ELSE Insert(added[m - 1], Row(unique[m], act, st))
  IN Append(added[Len(unique)], Other)

(* The lists there can be.                                                 *)
Names(airs) == {ap.ssid : ap \in UNION {ToSet(a) : a \in airs}} \ {None}

Lists(airs) ==
  [a \in airs |-> [act \in Names(airs) \cup {Hidden, None} |-> [st \in States |-> RowsOf(a, act, st)]]]
=============================================================================
