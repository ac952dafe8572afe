---------------------------- MODULE NetworkPage -----------------------------
(***************************************************************************)
(* The network page: the wireless device it has found, the list of access  *)
(* points it rebuilds from a timer, and what NetworkManager does meanwhile.*)
(* (pages/network/gis-network-page.c, network-dialogs.c)                   *)
(*                                                                         *)
(* NetworkManager is an environment: devices come and go, the radio is     *)
(* switched, the air changes.  Only some of it is signalled to the page;   *)
(* the rest it learns when the timer fires.                                *)
(***************************************************************************)
EXTENDS AccessPoints

CONSTANTS
  Wifi,       (* wireless devices                                          *)
  Wired,      (* other devices                                             *)
  Airs,       (* what there may be to receive: sequences of access points  *)
  List,       (* Lists(Airs), which is costly, so that it is computed once *)
  Known,      (* names that NetworkManager has a connection for            *)
  MaxChanges  (* bound on the changes from outside and on the user's clicks*)

VARIABLES
  present, managed,   (* NetworkManager's devices                          *)
  state, active,      (* of the device the page holds, and its network     *)
  aps,                (* its access points                                 *)
  enabled, hardware,  (* wireless-enabled, wireless-hardware-enabled       *)
  asked,              (* the network the page has asked for last           *)
  nm_device, lost,    (* the device the page holds; whether it was removed *)
  ever_shown, visible, complete,
  refresh_timeout,    (* "none", "second" or "periodic"                    *)
  rows,               (* network_list                                      *)
  message, turn_on,   (* the text in place of the list, and its switch     *)
  dialog,             (* the dialog for a hidden network is open           *)
  changes

nm == <<present, managed, state, active, aps, enabled, hardware>>
shown == <<rows, message, turn_on>>
vars == <<nm, asked, nm_device, lost, ever_shown, visible, complete,
          refresh_timeout, shown, dialog, changes>>

-----------------------------------------------------------------------------
(* The page's functions, as what they do to its variables.                 *)

(* Mistake: the periodic refresh is started only with a list.              *)
RefreshOnce ==
  /\ IF aps = <<>>
     THEN LET off == ~enabled \/ ~hardware IN
          /\ rows' = <<>>
          /\ message' = IF off THEN "disabled" ELSE "checking"
          /\ turn_on' = (off /\ hardware)
     ELSE rows' = List[aps][active][state] /\ message' = None /\ turn_on' = FALSE
  /\ refresh_timeout' = IF enabled /\ aps # <<>> THEN "periodic" ELSE None

refresh_wireless_list ==
  /\ IF aps = <<>>
     THEN LET off == ~enabled \/ ~hardware IN
          /\ rows' = <<>>
          /\ message' = IF off THEN "disabled" ELSE "checking"
          /\ turn_on' = (off /\ hardware)
     ELSE rows' = List[aps][active][state] /\ message' = None /\ turn_on' = FALSE
  /\ refresh_timeout' = IF enabled THEN "periodic" ELSE None

(* Mistake: a page the user has seen hides itself all the same.            *)
SyncHides(device, st) ==
  /\ visible' = (device # None /\ st # "activated")
  /\ complete' = (device # None /\ st = "activated")
  /\ refresh_timeout' = IF device # None THEN "second" ELSE refresh_timeout

(* sync_complete, for a device and its state                               *)
Sync(device, st) ==
  /\ visible' = (ever_shown \/ (device # None /\ st # "activated"))
  /\ complete' = (device # None /\ st = "activated")
  /\ refresh_timeout' = IF device # None THEN "second" ELSE refresh_timeout

(* find_best_device: a device that is held is kept, even one that is gone. *)
(* The state of a device found is any that a usable device has.            *)
FindBest(devices, mgd) ==
  LET found == devices \cap mgd \cap Wifi IN
  IF nm_device # None
  THEN UNCHANGED <<nm_device, state, active, aps, visible, complete, refresh_timeout>>
  ELSE IF found = {}
  THEN Sync(None, state) /\ UNCHANGED <<nm_device, state, active, aps>>
  ELSE \E d \in found, s \in {"disconnected", "activated"}, a \in Airs, n \in Names(Airs) :
       /\ nm_device' = d
       /\ IF enabled /\ hardware
          THEN state' = s /\ aps' = a /\ active' = IF s = "activated" THEN n ELSE None
          ELSE state' = "unavailable" /\ aps' = <<>> /\ active' = None
       /\ Sync(d, state')

-----------------------------------------------------------------------------
(* gis_network_page_constructed.  Without a client the page stays hidden   *)
(* and hears nothing: not a state worth starting from.                     *)
Init ==
  /\ present \in {{}} \cup {{d} : d \in Wifi} /\ managed = present
  /\ enabled \in BOOLEAN /\ hardware \in BOOLEAN
  /\ state = "unavailable" /\ active = None /\ aps = <<>>
  /\ asked = None /\ lost = FALSE
  /\ ever_shown \in BOOLEAN
  /\ LET found == present \cap Wifi IN
     /\ nm_device = IF found = {} THEN None ELSE CHOOSE d \in found : TRUE
     /\ visible = (ever_shown \/ found # {})
     /\ refresh_timeout = IF found = {} THEN None ELSE "second"
  /\ complete = FALSE
  /\ rows = <<>> /\ message = None /\ turn_on = FALSE
  /\ dialog = FALSE /\ changes = 0

Change == changes < MaxChanges /\ changes' = changes + 1

(* gis_network_page_shown                                                  *)
Shown ==
  /\ visible /\ ~ever_shown
  /\ ever_shown' = TRUE
  /\ UNCHANGED <<nm, asked, nm_device, lost, visible, complete, refresh_timeout, shown, dialog, changes>>

Timer ==
  /\ refresh_timeout # None
  /\ refresh_wireless_list
  /\ UNCHANGED <<nm, asked, nm_device, lost, ever_shown, visible, complete, dialog, changes>>

(* client_device_added, client_device_removed, device_notify_managed       *)
DeviceAdded(d, m) ==
  /\ Change /\ d \notin present
  /\ present' = present \cup {d} /\ managed' = IF m THEN managed \cup {d} ELSE managed
  /\ FindBest(present', managed')
  /\ UNCHANGED <<enabled, hardware, asked, lost, ever_shown, shown, dialog>>

DeviceRemoved(d) ==
  /\ Change /\ d \in present
  /\ present' = present \ {d} /\ managed' = managed \ {d}
  /\ lost' = (lost \/ d = nm_device)
  /\ FindBest(present', managed')
  /\ UNCHANGED <<enabled, hardware, asked, ever_shown, shown, dialog>>

DeviceManaged(d) ==
  /\ Change /\ d \in present
  /\ managed' = IF d \in managed THEN managed \ {d} ELSE managed \cup {d}
  /\ FindBest(present, managed')
  /\ UNCHANGED <<present, enabled, hardware, asked, lost, ever_shown, shown, dialog>>

Held == nm_device # None /\ ~lost

(* device_state_changed: a connection the page or NetworkManager wants     *)
(* begins, ends as it should, or fails.                                    *)
StateChanges(s, n) ==
  /\ Held /\ state # "unavailable"
  /\ \/ state = "disconnected" /\ s = "activating" /\ n \in Names(Airs) \cup ({asked} \ {None})
     \/ state = "activating" /\ s = "activated" /\ n = active
     \/ state \in Busy /\ s = "disconnected" /\ n = None
  /\ Change
  /\ state' = s /\ active' = n /\ asked' = IF n = asked THEN None ELSE asked
  /\ Sync(nm_device, s)
  /\ UNCHANGED <<present, managed, aps, enabled, hardware, nm_device, lost, ever_shown, shown, dialog>>

(* active_connections_changed, connection_state_changed: a connection of   *)
(* any device has changed.                                                 *)
ConnectionChanges ==
  /\ Held /\ Change
  /\ refresh_timeout' = "second"
  /\ UNCHANGED <<nm, asked, nm_device, lost, ever_shown, visible, complete, shown, dialog>>

(* Not signalled to the page.                                              *)
AirChanges(a) ==
  /\ Held /\ state # "unavailable" /\ Change
  /\ aps' = a
  /\ UNCHANGED <<present, managed, state, active, enabled, hardware, asked, nm_device, lost,
                 ever_shown, visible, complete, refresh_timeout, shown, dialog>>

(* The radio, by the page's own switch, another program or a key: switched *)
(* off, NetworkManager makes the device unavailable at once.               *)
RadioSwitched(on, hw) ==
  /\ Change /\ <<on, hw>> # <<enabled, hardware>>
  /\ enabled' = on /\ hardware' = hw
  /\ IF (on /\ hw) \/ state = "unavailable" \/ ~Held
     THEN UNCHANGED <<state, active, aps, visible, complete, refresh_timeout>>
     ELSE /\ state' = "unavailable" /\ active' = None /\ aps' = <<>>
          /\ Sync(nm_device, "unavailable")
  /\ UNCHANGED <<present, managed, asked, nm_device, lost, ever_shown, shown, dialog>>

(* ... and switched on, available some time after.                         *)
DeviceAvailable ==
  /\ Held /\ enabled /\ hardware /\ state = "unavailable"
  /\ state' = "disconnected" /\ aps' \in Airs
  /\ Sync(nm_device, "disconnected")
  /\ UNCHANGED <<present, managed, active, enabled, hardware, asked, nm_device, lost,
                 ever_shown, shown, dialog, changes>>

(* row_activated: a connection NetworkManager has is activated, and the    *)
(* list left alone; any other is added, and the list refreshed.            *)
RowActivated(row) ==
  /\ row \in ToSet(rows) /\ ~dialog /\ Change
  /\ IF row = Other
     THEN dialog' = TRUE /\ asked' = asked /\ refresh_timeout' = "second"
     ELSE /\ dialog' = dialog /\ asked' = row.ssid
          /\ refresh_timeout' = IF row.ssid \in Known THEN refresh_timeout ELSE "second"
  /\ UNCHANGED <<nm, nm_device, lost, ever_shown, visible, complete, shown>>

(* wireless_dialog_response_cb                                             *)
DialogAnswered(ok) ==
  /\ dialog /\ dialog' = FALSE
  /\ asked' = IF ok THEN Hidden ELSE asked
  /\ UNCHANGED <<nm, nm_device, lost, ever_shown, visible, complete, refresh_timeout, shown, changes>>

Next ==
  \/ Shown \/ Timer \/ DeviceAvailable \/ ConnectionChanges
  \/ \E d \in Wifi \cup Wired : \/ \E m \in BOOLEAN : DeviceAdded(d, m)
                                \/ DeviceRemoved(d) \/ DeviceManaged(d)
  \/ \E s \in {"disconnected"} \cup Busy, n \in Names(Airs) \cup {Hidden, None} : StateChanges(s, n)
  \/ \E a \in Airs : AirChanges(a)
  \/ \E on, hw \in BOOLEAN : RadioSwitched(on, hw)
  \/ \E row \in ToSet(rows) : RowActivated(row)
  \/ \E ok \in BOOLEAN : DialogAnswered(ok)

-----------------------------------------------------------------------------
TypeOK ==
  /\ managed \subseteq present /\ present \subseteq Wifi \cup Wired
  /\ state \in States
  /\ nm_device \in Wifi \cup {None}
  /\ refresh_timeout \in {None, "second", "periodic"}
  /\ message \in {None, "disabled", "checking"}
  /\ <<lost, ever_shown, visible, complete, turn_on, dialog>> \in BOOLEAN \X BOOLEAN \X BOOLEAN \X BOOLEAN \X BOOLEAN \X BOOLEAN

(* A page the user has seen never hides itself, whatever becomes of the    *)
(* device: the assistant's current page stays where it is.                 *)
SeenPageStays == ever_shown => visible

(* What the list says of the access points, without the order in which     *)
(* they were found: every name once, as strong as its strongest access     *)
(* point, the network in use first, then by strength, "Other..." behind all*)
IsListed(list) ==
  LET found == {ap \in ToSet(aps) : ap.ssid # None}
      best == {ap \in found : \A b \in found : b.ssid = ap.ssid => b.strength <= ap.strength}
      named == 1..Len(list) - 1
  IN /\ list # <<>> /\ Last(list) = Other
     /\ {list[i].ssid : i \in named} = {ap.ssid : ap \in found}
     /\ \A i \in named : \E ap \in best :
          /\ list[i].ssid = ap.ssid /\ list[i].signal = Signal(ap.strength)
          /\ list[i].mark # None <=> ap.ssid = active /\ state \in Busy
          /\ list[i].mark # None => i = 1
          /\ \A k \in named : k > i =>
               /\ list[k].ssid # ap.ssid
               /\ list[i].mark = None =>
                    \A b \in found : b.ssid = list[k].ssid => b.strength <= ap.strength

ListIsRight == rows' # rows /\ rows' # <<>> => IsListed(rows')

(* The page shows what its device sees.                                    *)
Settled ==
  Held /\ enabled /\ hardware =>
    IF aps = <<>> THEN message = "checking" /\ rows = <<>> ELSE message = None /\ IsListed(rows)
=============================================================================
