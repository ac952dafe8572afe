-------------------------- MODULE SetupPagesProofs --------------------------
(***************************************************************************)
(* Proofs about SetupPages: each page, whatever its services tell it, in   *)
(* whatever order, and however often the user is quicker or slower than    *)
(* they are.                                                               *)
(***************************************************************************)
EXTENDS SetupPages, SequenceTheorems, FiniteSetTheorems, TLAPS

-----------------------------------------------------------------------------
(* A step of the wizard is a step of the page looked at, or none of it.    *)

LEMMA PageStep ==
  ASSUME [Next]_vars
  PROVE  /\ page' = page
         /\ page = "network" => [Network!Next]_(Network!vars)
         /\ page = "timezone" => [Timezone!Next]_(Timezone!vars)
         /\ page = "apps" => [Apps!Next]_(Apps!vars)
         /\ page = "goa" => [Goa!Next]_(Goa!vars)
         /\ page = "keyboard" => [Keyboard!Next]_(Keyboard!vars)
         /\ page = "language" => [Language!Next]_(Language!vars)
         /\ page = "auth" => [Auth!Next]_(Auth!vars)
<1>1. CASE Next
  BY <1>1 DEF Next, NetworkStep, TimezoneStep, AppsStep, GoaStep, KeyboardStep, LanguageStep,
              AuthStep
<1>2. CASE UNCHANGED vars
  <2>1. page' = page /\ UNCHANGED <<onlyNetwork, visible, complete, rows, dialog, changes>>
    BY <1>2 DEF vars
  <2>2. UNCHANGED Network!vars
    BY <2>1 DEF onlyNetwork, Network!vars, Network!nm, Network!shown
  <2>3. UNCHANGED Timezone!vars
    BY <1>2 DEF vars, onlyTimezone, Timezone!vars, Timezone!entry, Timezone!map, Timezone!history
  <2>4. UNCHANGED Apps!vars
    BY <1>2 DEF vars, onlyApps, Apps!vars, Apps!asked, Apps!seen
  <2>5. UNCHANGED Goa!vars
    BY <1>2 DEF vars, onlyGoa, Goa!vars, Goa!page, Goa!machine
  <2>6. UNCHANGED Keyboard!vars
    BY <1>2 DEF vars, onlyKeyboard, Keyboard!vars, Keyboard!list, Keyboard!system, Keyboard!written
  <2>7. UNCHANGED Language!vars
    BY <1>2 DEF vars, onlyLanguage, Language!vars, Language!program, Language!system,
                Language!user, Language!welcome
  <2>8. UNCHANGED Auth!vars
    BY <1>2 DEF vars, onlyAuth, Auth!vars, Auth!list, Auth!answer, Auth!history
  <2> QED  BY <2>1, <2>2, <2>3, <2>4, <2>5, <2>6, <2>7, <2>8
<1> QED  BY <1>1, <1>2

LEMMA PageInit ==
  ASSUME Init
  PROVE  /\ page = "network" => Network!Init
         /\ page = "timezone" => Timezone!Init
         /\ page = "apps" => Apps!Init
         /\ page = "goa" => Goa!Init
         /\ page = "keyboard" => Keyboard!Init
         /\ page = "language" => Language!Init
         /\ page = "auth" => Auth!Init
BY DEF Init
-----------------------------------------------------------------------------
(* SeenPagesStay: of the network page it is inductive as it stands.        *)

LEMMA SyncStays ==
  ASSUME NEW device, NEW st, ever_shown' = ever_shown, ever_shown => visible,
         Network!Sync(device, st)
  PROVE  ever_shown' => visible'
BY DEF Network!Sync

LEMMA FindBestStays ==
  ASSUME NEW devices, NEW mgd, ever_shown' = ever_shown, ever_shown => visible,
         Network!FindBest(devices, mgd)
  PROVE  ever_shown' => visible'
<1>1. CASE UNCHANGED visible  BY <1>1
<1>2. CASE \E device, st : Network!Sync(device, st)  BY <1>2, SyncStays
<1> QED  BY <1>1, <1>2 DEF Network!FindBest

LEMMA NetworkSeenInit ==
  ASSUME Network!Init
  PROVE  Network!SeenPageStays
BY DEF Network!Init, Network!SeenPageStays

LEMMA NetworkSeenStep ==
  ASSUME Network!SeenPageStays, [Network!Next]_(Network!vars)
  PROVE  Network!SeenPageStays'
<1> USE DEF Network!SeenPageStays
<1>1. CASE Network!Shown  BY <1>1 DEF Network!Shown
<1>2. CASE Network!Timer  BY <1>2 DEF Network!Timer
<1>3. CASE Network!DeviceAvailable  BY <1>3, SyncStays DEF Network!DeviceAvailable
<1>4. CASE Network!ConnectionChanges  BY <1>4 DEF Network!ConnectionChanges
<1>5. ASSUME NEW d, NEW m, Network!DeviceAdded(d, m)
      PROVE  Network!SeenPageStays'
  BY <1>5, FindBestStays DEF Network!DeviceAdded
<1>6. ASSUME NEW d, Network!DeviceRemoved(d)
      PROVE  Network!SeenPageStays'
  BY <1>6, FindBestStays DEF Network!DeviceRemoved
<1>7. ASSUME NEW d, Network!DeviceManaged(d)
      PROVE  Network!SeenPageStays'
  BY <1>7, FindBestStays DEF Network!DeviceManaged
<1>8. ASSUME NEW s, NEW n, Network!StateChanges(s, n)
      PROVE  Network!SeenPageStays'
  BY <1>8, SyncStays DEF Network!StateChanges
<1>9. ASSUME NEW a, Network!AirChanges(a)
      PROVE  Network!SeenPageStays'
  BY <1>9 DEF Network!AirChanges
<1>10. ASSUME NEW on, NEW hw, Network!RadioSwitched(on, hw)
       PROVE  Network!SeenPageStays'
  BY <1>10, SyncStays DEF Network!RadioSwitched
<1>11. ASSUME NEW row, Network!RowActivated(row)
       PROVE  Network!SeenPageStays'
  BY <1>11 DEF Network!RowActivated
<1>12. ASSUME NEW ok, Network!DialogAnswered(ok)
       PROVE  Network!SeenPageStays'
  BY <1>12 DEF Network!DialogAnswered
<1>13. CASE UNCHANGED Network!vars  BY <1>13 DEF Network!vars
<1> QED
  BY <1>1, <1>2, <1>3, <1>4, <1>5, <1>6, <1>7, <1>8, <1>9, <1>10, <1>11, <1>12, <1>13
  DEF Network!Next

(* And of the online accounts: what hides the page spares the current one. *)
LEMMA GoaSeenInit ==
  ASSUME Goa!Init
  PROVE  Goa!CurrentStays
BY DEF Goa!Init, Goa!CurrentStays

LEMMA GoaSeenStep ==
  ASSUME Goa!CurrentStays, [Goa!Next]_(Goa!vars)
  PROVE  Goa!CurrentStays'
<1> USE DEF Goa!CurrentStays
<1>1. CASE Goa!NetworkChanged  BY <1>1 DEF Goa!NetworkChanged, Goa!sync_visibility
<1>2. CASE Goa!DialogEnds  BY <1>2 DEF Goa!DialogEnds
<1>3. CASE Goa!Switched  BY <1>3 DEF Goa!Switched
<1>4. ASSUME NEW a, Goa!AccountAdded(a)
      PROVE  Goa!CurrentStays'
  BY <1>4 DEF Goa!AccountAdded, Goa!sync_accounts, Goa!sync_visibility
<1>5. ASSUME NEW a, Goa!AccountRemoved(a)
      PROVE  Goa!CurrentStays'
  BY <1>5 DEF Goa!AccountRemoved, Goa!sync_accounts, Goa!sync_visibility
<1>6. ASSUME NEW p, Goa!RowActivated(p)
      PROVE  Goa!CurrentStays'
  BY <1>6 DEF Goa!RowActivated
<1>7. CASE UNCHANGED Goa!vars  BY <1>7 DEF Goa!vars
<1> QED  BY <1>1, <1>2, <1>3, <1>4, <1>5, <1>6, <1>7 DEF Goa!Next

(* Neither page is taken from the user who has come to it, whatever becomes*)
(* of the device, of the connection or of the accounts.                    *)
THEOREM SeenStay == Spec => []SeenPagesStay
<1>1. Init => SeenPagesStay
  BY PageInit, NetworkSeenInit, GoaSeenInit DEF SeenPagesStay
<1>2. SeenPagesStay /\ [Next]_vars => SeenPagesStay'
  BY PageStep, NetworkSeenStep, GoaSeenStep DEF SeenPagesStay
<1> QED  BY <1>1, <1>2, PTL DEF Spec

-----------------------------------------------------------------------------
(* The time zone: what is searched for and what was found are for the text *)
(* in the entry, and GeoClue is listened to only while the text is as empty*)
(* as it was, which a choice of the user's in the entry ends.              *)

SearchInv == text \in Texts \cup Local \cup Remote \cup {""} /\ Timezone!SearchIsForText

GeoInv ==
  alive /\ geo \in {"starting", "ready"} =>
    watching /\ text = "" /\ choice \notin {"entry", "accepted"}

LEMMA LoadingCounts ==
  /\ \A n, m : n = m - 1 /\ m = 1 => n = 0
  /\ \A n, m : n = m + 1 /\ m = 0 => n = 1
OBVIOUS

LEMMA TextSetSearches ==
  ASSUME NEW t \in Texts \cup Local \cup Remote \cup {""}, NEW loc, NEW g,
         Timezone!SearchIsForText, alive, alive' = alive, Timezone!TextSet(t, loc, g)
  PROVE  text' = t /\ Timezone!SearchIsForText'
<1>1. text' = t  BY DEF Timezone!TextSet
<1>2. CASE t = text
  <2>1. UNCHANGED <<search, results, loading>>  BY <1>2 DEF Timezone!TextSet
  <2> QED  BY <1>1, <1>2, <2>1 DEF Timezone!SearchIsForText
<1>3. CASE t # text
  <2>1. search' = "none" /\ results' = "none"
        /\ loading' = IF search # "none" THEN loading - 1 ELSE loading
    BY <1>3 DEF Timezone!TextSet, Timezone!None
  <2>2. loading = IF search = "none" THEN 0 ELSE 1  BY DEF Timezone!SearchIsForText, Timezone!None
  <2>3. loading' = 0
    <3>1. CASE search = "none"  BY <2>1, <2>2, <3>1, Zenon
    <3>2. CASE search # "none"
      <4>1. loading' = loading - 1  BY <2>1, <3>2, Zenon
      <4>2. loading = 1  BY <2>2, <3>2, Zenon
      <4> QED  BY <4>1, <4>2, LoadingCounts, Zenon
    <3> QED  BY <3>1, <3>2
  <2> QED  BY <1>1, <2>1, <2>3 DEF Timezone!SearchIsForText, Timezone!None
<1> QED  BY <1>1, <1>2, <1>3

LEMMA TimezoneSearchStep ==
  ASSUME SearchInv, [Timezone!Next]_(Timezone!vars)
  PROVE  SearchInv'
<1> USE DEF SearchInv
<1>1. ASSUME UNCHANGED <<text, search, results, loading>>, alive' => alive
      PROVE  SearchInv'
  BY <1>1 DEF Timezone!SearchIsForText, Timezone!None
<1>2. ASSUME NEW t \in Texts \cup Local \cup Remote \cup {""}, NEW loc, NEW g,
             alive, UNCHANGED alive, Timezone!TextSet(t, loc, g)
      PROVE  SearchInv'
  BY <1>2, TextSetSearches
<1>3. ASSUME NEW p \in Timezone!Places, Timezone!GeoLocated(p)
      PROVE  SearchInv'
  <2>1. alive /\ UNCHANGED alive  BY <1>3 DEF Timezone!GeoLocated, Timezone!Input
  <2>2. CASE UNCHANGED Timezone!entry  BY <1>1, <2>1, <2>2 DEF Timezone!entry
  <2>3. CASE Timezone!TextSet("", location, "ready")  BY <1>2, <2>1, <2>3
  <2> QED  BY <1>3, <2>2, <2>3 DEF Timezone!GeoLocated
<1>4. ASSUME NEW t \in Texts \cup {""}, Timezone!Type(t)
      PROVE  SearchInv'
  BY <1>2, <1>4 DEF Timezone!Type, Timezone!Input
<1>5. CASE Timezone!NoMatches
  <2>1. /\ search' = text /\ UNCHANGED <<text, results, alive>>
        /\ loading' = IF search = "none" THEN loading + 1 ELSE loading
        /\ alive /\ results = "none"
    BY <1>5 DEF Timezone!NoMatches, Timezone!None
  <2>2. text # "none"  BY NoneAssumption
  <2>3. loading = IF search = "none" THEN 0 ELSE 1
    BY <2>1 DEF Timezone!SearchIsForText, Timezone!None
  <2>4. loading' = 1
    <3>1. CASE search = "none"
      <4>1. loading' = loading + 1  BY <2>1, <3>1, Zenon
      <4>2. loading = 0  BY <2>3, <3>1, Zenon
      <4> QED  BY <4>1, <4>2, LoadingCounts, Zenon
    <3>2. CASE search # "none"  BY <2>1, <2>3, <3>2, Zenon
    <3> QED  BY <3>1, <3>2
  <2> QED  BY <2>1, <2>2, <2>4 DEF Timezone!SearchIsForText, Timezone!None
<1>6. ASSUME NEW ok \in BOOLEAN, Timezone!GotPlaces(ok)
      PROVE  SearchInv'
  <2>1. /\ search # "none" /\ search' = "none" /\ UNCHANGED <<text, alive>>
        /\ results' = IF ok THEN search ELSE "none"
        /\ loading' = loading - 1 /\ alive
    BY <1>6 DEF Timezone!GotPlaces, Timezone!None
  <2>2. search = text /\ loading = 1
    BY <2>1 DEF Timezone!SearchIsForText, Timezone!None
  <2>3. loading' = 0
    <3>1. loading' = loading - 1  BY <2>1
    <3>2. loading = 1  BY <2>2
    <3> QED  BY <3>1, <3>2, LoadingCounts, Zenon
  <2> QED  BY <2>1, <2>2, <2>3 DEF Timezone!SearchIsForText, Timezone!None
<1>7. ASSUME NEW p \in Timezone!Places, Timezone!Select(p)
      PROVE  SearchInv'
  BY <1>2, <1>7
  DEF Timezone!Places, Timezone!Select, Timezone!SetLocationInternal, Timezone!Input
<1>8. ASSUME NEW z, Timezone!MapClicked(z)
      PROVE  SearchInv'
  BY <1>2, <1>8 DEF Timezone!MapClicked, Timezone!Input
<1>9. ASSUME Timezone!GeoFails \/ Timezone!Apply \/ (\E ok \in BOOLEAN : Timezone!Served(ok))
             \/ UNCHANGED Timezone!vars
      PROVE  SearchInv'
  <2>1. UNCHANGED Timezone!entry /\ UNCHANGED alive
    BY <1>9 DEF Timezone!GeoFails, Timezone!Apply, Timezone!Served, Timezone!vars
  <2> QED  BY <1>1, <2>1 DEF Timezone!entry
<1>10. CASE Timezone!Destroy
  BY <1>10 DEF Timezone!Destroy, Timezone!SearchIsForText
<1> QED
  BY <1>3, <1>4, <1>5, <1>6, <1>7, <1>8, <1>9, <1>10 DEF Timezone!Next

LEMMA TimezoneSearchInit ==
  ASSUME Timezone!Init
  PROVE  SearchInv
BY DEF Timezone!Init, SearchInv, Timezone!SearchIsForText, Timezone!None

(* No answer to an older text is shown, and "Loading..." neither stays nor *)
(* goes early, however searches, edits and answers overtake each other.    *)
THEOREM SearchForText == Spec => []SearchIsForText
<1> DEFINE Inv == page = "timezone" => SearchInv
<1>1. Init => Inv  BY PageInit, TimezoneSearchInit
<1>2. Inv /\ [Next]_vars => Inv'  BY PageStep, TimezoneSearchStep
<1>3. Inv => SearchIsForText  BY DEF SearchInv, SearchIsForText
<1> QED  BY <1>1, <1>2, <1>3, PTL DEF Spec

-----------------------------------------------------------------------------
(* A queue that is added to behind and served from the front: its last     *)
(* element is what counts.                                                 *)

LEMMA LastOfAppend ==
  ASSUME NEW S, NEW s \in Seq(S), NEW e \in S
  PROVE  /\ Append(s, e) \in Seq(S) /\ Append(s, e) # <<>>
         /\ Last(Append(s, e)) = e
<1>1. Append(s, e) \in Seq(S) /\ Len(Append(s, e)) = Len(s) + 1
      /\ Append(s, e)[Len(s) + 1] = e
  BY AppendProperties
<1> QED  BY <1>1, EmptySeq, AppendProperties DEF Last

LEMMA LastOfTail ==
  ASSUME NEW S, NEW s \in Seq(S), s # <<>>
  PROVE  /\ Tail(s) \in Seq(S) /\ Head(s) \in S
         /\ Tail(s) = <<>> => Last(s) = Head(s)
         /\ Tail(s) # <<>> => Last(Tail(s)) = Last(s)
<1>1. Tail(s) \in Seq(S) /\ Len(Tail(s)) = Len(s) - 1 /\ Head(s) \in S
      /\ \A i \in 1 .. Len(Tail(s)) : Tail(s)[i] = s[i + 1]
  BY HeadTailProperties
<1>2. Len(s) \in Nat /\ Len(s) # 0
  BY LenProperties, EmptySeq
<1>3. ASSUME Tail(s) = <<>> PROVE Last(s) = Head(s)
  <2>1. Len(Tail(s)) = 0  BY <1>3, EmptySeq, Zenon
  <2>2. Len(s) - 1 = 0  BY <1>1, <2>1, Zenon
  <2>3. Len(s) = 1  BY <1>2, <2>2
  <2>4. Head(s) = s[1]  OBVIOUS
  <2> QED  BY <2>3, <2>4 DEF Last
<1>4. ASSUME Tail(s) # <<>> PROVE Last(Tail(s)) = Last(s)
  <2>1. Len(Tail(s)) # 0  BY <1>1, <1>4, EmptySeq
  <2> QED  BY <1>1, <1>2, <2>1 DEF Last
<1> QED  BY <1>1, <1>3, <1>4

-----------------------------------------------------------------------------
(* The system's zone: the last call to timedated in flight, or without one *)
(* the system itself unless it has refused, has what was asked for last.   *)

ZoneInv ==
  /\ calls \in Seq(Zones) /\ zone \in Zones /\ pin \in Zones \cup {<<>>}
  /\ wanted \in Zones => IF calls = <<>> THEN refused \/ zone = wanted
                         ELSE Last(calls) = wanted

LEMMA PinnedZone ==
  ASSUME ZoneInv, NEW z \in Zones, Timezone!Pinned(z), wanted' = z, UNCHANGED zone
  PROVE  ZoneInv'
<1>1. calls' = Append(calls, z) /\ pin' = z  BY DEF Timezone!Pinned
<1>2. calls' \in Seq(Zones) /\ calls' # <<>> /\ Last(calls') = z
  BY <1>1, LastOfAppend DEF ZoneInv
<1> QED  BY <1>1, <1>2 DEF ZoneInv

LEMMA LocatedZone ==
  ASSUME ZoneInv, NEW p, Timezone!SetLocation(p), UNCHANGED zone
  PROVE  ZoneInv'
<1> DEFINE z == Timezone!CleanName(ZoneOf[p])
<1>1. wanted' = z  BY DEF Timezone!SetLocation
<1>2. CASE z \in Zones  BY <1>1, <1>2, PinnedZone DEF Timezone!SetLocation
<1>3. CASE z \notin Zones
  <2>1. UNCHANGED <<pin, calls>>  BY <1>3 DEF Timezone!SetLocation
  <2> QED  BY <1>1, <1>3, <2>1 DEF ZoneInv
<1> QED  BY <1>2, <1>3

LEMMA ServedZone ==
  ASSUME ZoneInv, NEW ok \in BOOLEAN, Timezone!Served(ok)
  PROVE  ZoneInv'
<1>1. /\ calls # <<>> /\ calls' = Tail(calls) /\ refused' = ~ok
      /\ zone' = IF ok THEN Head(calls) ELSE zone
      /\ UNCHANGED <<pin, wanted>>
  BY DEF Timezone!Served, Timezone!history
<1>2. /\ calls' \in Seq(Zones) /\ Head(calls) \in Zones
      /\ calls' = <<>> => Last(calls) = Head(calls)
      /\ calls' # <<>> => Last(calls') = Last(calls)
  BY <1>1, LastOfTail DEF ZoneInv
<1>3. zone' \in Zones  BY <1>1, <1>2 DEF ZoneInv
<1>4. ASSUME wanted \in Zones, calls' = <<>>
      PROVE  refused' \/ zone' = wanted
  BY <1>1, <1>2, <1>4 DEF ZoneInv
<1>5. ASSUME wanted \in Zones, calls' # <<>>
      PROVE  Last(calls') = wanted
  BY <1>1, <1>2, <1>5 DEF ZoneInv
<1> QED  BY <1>1, <1>2, <1>3, <1>4, <1>5 DEF ZoneInv

LEMMA TimezoneZoneStep ==
  ASSUME ZoneInv, [Timezone!Next]_(Timezone!vars)
  PROVE  ZoneInv'
<1>1. ASSUME UNCHANGED <<calls, zone, pin, wanted, refused>>
      PROVE  ZoneInv'
  BY <1>1 DEF ZoneInv
<1>2. ASSUME NEW p, Timezone!GeoLocated(p) \/ Timezone!Select(p)
      PROVE  ZoneInv'
  BY <1>2, LocatedZone DEF Timezone!GeoLocated, Timezone!Select
<1>3. ASSUME NEW z \in Zones, Timezone!MapClicked(z)
      PROVE  ZoneInv'
  BY <1>3, PinnedZone DEF Timezone!MapClicked
<1>4. ASSUME NEW ok \in BOOLEAN, Timezone!Served(ok)
      PROVE  ZoneInv'
  BY <1>4, ServedZone
<1>5. ASSUME \/ Timezone!GeoFails \/ Timezone!NoMatches \/ Timezone!Apply \/ Timezone!Destroy
             \/ (\E t : Timezone!Type(t)) \/ (\E ok : Timezone!GotPlaces(ok))
             \/ UNCHANGED Timezone!vars
      PROVE  ZoneInv'
  <2>1. UNCHANGED Timezone!map /\ UNCHANGED <<zone, wanted, refused>>
    BY <1>5
    DEF Timezone!GeoFails, Timezone!NoMatches, Timezone!Apply, Timezone!Destroy, Timezone!Type,
        Timezone!GotPlaces, Timezone!vars, Timezone!history
  <2> QED  BY <1>1, <2>1 DEF Timezone!map
<1> QED  BY <1>2, <1>3, <1>4, <1>5 DEF Timezone!Next

LEMMA TimezoneZoneInit ==
  ASSUME Timezone!Init
  PROVE  ZoneInv
<1>1. calls = <<>> /\ zone \in Zones /\ pin = <<>> /\ wanted = <<>>
  BY DEF Timezone!Init, Timezone!NoZone
<1> QED  BY <1>1, ZonesAssumption DEF ZoneInv

(* When timedated has answered everything, and has refused nothing last,   *)
(* the system has the zone that was asked for last, by whomever.           *)
THEOREM ZoneWanted == Spec => []ZoneIsWanted
<1> DEFINE Inv == page = "timezone" => ZoneInv
<1>1. Init => Inv  BY PageInit, TimezoneZoneInit
<1>2. Inv /\ [Next]_vars => Inv'  BY PageStep, TimezoneZoneStep
<1>3. Inv => ZoneIsWanted  BY DEF ZoneInv, ZoneIsWanted, Timezone!ZoneIsWanted
<1> QED  BY <1>1, <1>2, <1>3, PTL DEF Spec

-----------------------------------------------------------------------------
(* GeoClue: what is entered first, or accepted, stops it.                  *)

LEMMA TextSetStops ==
  ASSUME GeoInv, NEW t, NEW loc, alive, UNCHANGED <<alive>>, Timezone!TextSet(t, loc, geo), t # text
  PROVE  geo' \notin {"starting", "ready"}
BY DEF GeoInv, Timezone!TextSet

LEMMA TimezoneGeoStep ==
  ASSUME GeoInv, [Timezone!Next]_(Timezone!vars)
  PROVE  /\ GeoInv'
         /\ choice \in {"entry", "accepted"} => Timezone!ChoiceStands
<1> DEFINE Stands == choice \in {"entry", "accepted"} => Timezone!ChoiceStands
<1> USE DEF GeoInv
<1>1. ASSUME UNCHANGED <<geo, choice, text, watching, pin>>, alive' => alive
      PROVE  GeoInv' /\ Stands
  BY <1>1 DEF Timezone!ChoiceStands
<1>2. ASSUME geo' \notin {"starting", "ready"} \/ ~alive', UNCHANGED pin \/ by' = "user"
      PROVE  GeoInv' /\ Stands
  BY <1>2 DEF Timezone!ChoiceStands
<1>3. ASSUME NEW p, Timezone!GeoLocated(p)
      PROVE  GeoInv' /\ Stands
  <2>1. /\ geo \in {"starting", "ready"} /\ alive /\ UNCHANGED <<choice>> /\ geo' = "ready"
        /\ UNCHANGED Timezone!entry \/ Timezone!TextSet("", location, "ready")
    BY <1>3 DEF Timezone!GeoLocated, Timezone!Input, Timezone!TextSet
  <2>2. watching /\ text = "" /\ choice \notin {"entry", "accepted"}  BY <2>1
  <2>3. UNCHANGED <<text, watching>>
    BY <2>1, <2>2 DEF Timezone!entry, Timezone!TextSet
  <2> QED  BY <2>1, <2>2, <2>3
<1>4. ASSUME NEW t, Timezone!Type(t)
      PROVE  GeoInv' /\ Stands
  <2>1. alive /\ UNCHANGED <<alive, pin>> /\ Timezone!TextSet(t, location, geo) /\ t # text
    BY <1>4 DEF Timezone!Type, Timezone!Input, Timezone!map
  <2> QED  BY <1>2, <2>1, TextSetStops
<1>5. ASSUME NEW p, Timezone!Select(p)
      PROVE  GeoInv' /\ Stands
  <2>1. by' = "user" /\ Timezone!TextSet(p, p, "off")
    BY <1>5 DEF Timezone!Select, Timezone!SetLocationInternal
  <2>2. geo' = "off"  BY <2>1 DEF Timezone!TextSet
  <2> QED  BY <1>2, <2>1, <2>2
<1>6. ASSUME NEW z, Timezone!MapClicked(z)
      PROVE  GeoInv' /\ Stands
  <2>1. /\ by' = "user" /\ alive /\ UNCHANGED alive /\ Timezone!TextSet("", location, geo)
        /\ choice' = IF choice = "none" THEN "map" ELSE choice
    BY <1>6 DEF Timezone!MapClicked, Timezone!Input, Timezone!None
  <2>2. CASE text = ""
    <3>1. UNCHANGED <<geo, watching, text>>  BY <2>1, <2>2 DEF Timezone!TextSet
    <3>2. choice' \in {"entry", "accepted"} => choice \in {"entry", "accepted"}  BY <2>1
    <3> QED  BY <2>1, <3>1, <3>2 DEF Timezone!ChoiceStands
  <2>3. CASE text # ""  BY <1>2, <2>1, <2>3, TextSetStops
  <2> QED  BY <2>2, <2>3
<1>7. ASSUME \/ Timezone!NoMatches \/ (\E ok : Timezone!GotPlaces(ok))
             \/ (\E ok : Timezone!Served(ok)) \/ UNCHANGED Timezone!vars
      PROVE  GeoInv' /\ Stands
  <2>1. UNCHANGED <<geo, text, watching, alive, pin>> /\ UNCHANGED <<choice>>
    BY <1>7 DEF Timezone!NoMatches, Timezone!GotPlaces, Timezone!Served, Timezone!vars,
                Timezone!entry, Timezone!map, Timezone!history
  <2> QED  BY <1>1, <2>1
<1>8. ASSUME Timezone!GeoFails \/ Timezone!Apply \/ Timezone!Destroy
      PROVE  GeoInv' /\ Stands
  <2>1. (geo' \in {"failed", "off"} \/ ~alive') /\ UNCHANGED pin
    BY <1>8 DEF Timezone!GeoFails, Timezone!Apply, Timezone!Destroy, Timezone!map
  <2> QED  BY <1>2, <2>1
<1> QED  BY <1>3, <1>4, <1>5, <1>6, <1>7, <1>8 DEF Timezone!Next

LEMMA TimezoneGeoInit ==
  ASSUME Timezone!Init
  PROVE  GeoInv
BY DEF Timezone!Init, GeoInv, Timezone!None

(* GeoClue's late answer never overrules what the user has entered or      *)
(* accepted.                                                               *)
THEOREM ChoiceOverGeoClue == Spec => EnteredChoiceStands
<1> DEFINE Inv == page = "timezone" => GeoInv
           Stands == page = "timezone" /\ choice \in {"entry", "accepted"} => Timezone!ChoiceStands
<1>1. Init => Inv  BY PageInit, TimezoneGeoInit
<1>2. Inv /\ [Next]_vars => Inv' /\ [Stands]_vars  BY PageStep, TimezoneGeoStep
<1>3. ([][Stands]_vars) => EnteredChoiceStands  BY DEF EnteredChoiceStands
<1> QED  BY <1>1, <1>2, <1>3, PTL DEF Spec

-----------------------------------------------------------------------------
(* The account: until it is loaded, the handler that will run last carries *)
(* the chooser's language; without one, the language is the account's own. *)

AccountInv ==
  /\ language \in Locales /\ handlers \in Seq(Locales)
  /\ act_loaded => act_language = language
  /\ ~act_loaded => IF handlers = <<>> THEN act_language = language
                    ELSE Last(handlers) = language

LEMMA AccountInit == ASSUME Language!Init PROVE AccountInv
BY LocalesAssumption DEF Language!Init, AccountInv

LEMMA AccountStep == ASSUME AccountInv, [Language!Next]_(Language!vars) PROVE AccountInv'
<1> USE DEF AccountInv
<1>1. ASSUME NEW locale \in Locales, Language!LanguageChanged(locale) PROVE AccountInv'
  <2>1. language' = locale /\ UNCHANGED act_loaded /\ Language!set_user(locale)
    BY <1>1 DEF Language!LanguageChanged, Language!Picked
  <2>2. CASE act_loaded
    BY <2>1, <2>2 DEF Language!set_user
  <2>3. CASE ~act_loaded
    <3>1. handlers' = Append(handlers, locale)  BY <2>1, <2>3 DEF Language!set_user
    <3>2. handlers' \in Seq(Locales) /\ handlers' # <<>> /\ Last(handlers') = locale
      BY <3>1, LastOfAppend
    <3> QED  BY <2>1, <2>3, <3>2 DEF Last
  <2> QED  BY <2>2, <2>3
<1>2. ASSUME Language!UserLoaded PROVE AccountInv'
  <2>1. act_loaded' = TRUE /\ ~act_loaded /\ handlers' = <<>> /\ UNCHANGED language
        /\ act_language' = IF handlers = <<>> THEN act_language ELSE Last(handlers)
    BY <1>2 DEF Language!UserLoaded, Last
  <2>2. act_language' = language  BY <2>1
  <2>3. handlers' \in Seq(Locales)  BY <2>1
  <2> QED  BY <2>1, <2>2, <2>3
<1>3. ASSUME UNCHANGED <<language, Language!user>> PROVE AccountInv'
  BY <1>3 DEF Language!user, Last
<1>4. ASSUME Language!ShowMore \/ Language!Activated \/ Language!Confirmed \/
             Language!Turn \/ Language!Served \/ Language!Advance \/ Language!Dispose
      PROVE  UNCHANGED <<language, Language!user>>
  BY <1>4 DEF Language!ShowMore, Language!Activated, Language!Confirmed, Language!Turn,
        Language!Served, Language!Advance, Language!Dispose
<1>5. ASSUME NEW ok \in BOOLEAN, Language!LocaledReady(ok) \/ Language!PermissionAcquired(ok)
      PROVE  UNCHANGED <<language, Language!user>>
  BY <1>5 DEF Language!LocaledReady, Language!PermissionAcquired
<1>6. CASE UNCHANGED Language!vars
  BY <1>3, <1>6 DEF Language!vars
<1> QED  BY <1>1, <1>2, <1>3, <1>4, <1>5, <1>6 DEF Language!Next

-----------------------------------------------------------------------------
(* The system: the last call in flight is for the language picked, once    *)
(* there is the permission, and unless that pick found no proxy.           *)

SystemInv ==
  /\ language \in Locales /\ calls \in Seq(Locales)
  /\ permission = "allowed" /\ ~missed =>
       IF calls = <<>> THEN lang = language ELSE Last(calls) = language

LEMMA SystemInit == ASSUME Language!Init PROVE SystemInv
BY LocalesAssumption DEF Language!Init, SystemInv

(* A call for the language of now makes the system right again.            *)
LEMMA SetLocaleStep ==
  ASSUME SystemInv, NEW locale \in Locales, Language!set_localed_locale(locale),
         language' = locale, UNCHANGED localed
  PROVE  SystemInv'
<1> USE DEF SystemInv
<1>1. CASE localed = "ready"
  <2>1. calls' = Append(calls, locale)  BY <1>1 DEF Language!set_localed_locale
  <2>2. calls' \in Seq(Locales) /\ calls' # <<>> /\ Last(calls') = locale
    BY <2>1, LastOfAppend
  <2> QED  BY <2>2 DEF Last
<1>2. CASE localed # "ready"
  <2>1. missed' = TRUE /\ calls' = calls  BY <1>2 DEF Language!set_localed_locale
  <2> QED  BY <2>1
<1> QED  BY <1>1, <1>2

LEMMA SystemStep == ASSUME SystemInv, [Language!Next]_(Language!vars) PROVE SystemInv'
<1> DEFINE others == <<language, calls, lang, missed, permission>>
<1> USE DEF SystemInv
<1>1. ASSUME UNCHANGED others PROVE SystemInv'
  BY <1>1 DEF Last
<1>2. ASSUME NEW locale \in Locales, Language!LanguageChanged(locale) PROVE SystemInv'
  <2>1. language' = locale /\ UNCHANGED <<permission, localed>>
    BY <1>2 DEF Language!LanguageChanged, Language!Picked
  <2>2. CASE permission = "allowed"
    BY <1>2, <2>1, <2>2, SetLocaleStep DEF Language!LanguageChanged
  <2>3. CASE permission # "allowed"
    <3>1. UNCHANGED calls  BY <1>2, <2>3 DEF Language!LanguageChanged
    <3> QED  BY <2>1, <2>3, <3>1
  <2> QED  BY <2>2, <2>3
<1>3. ASSUME NEW allowed \in BOOLEAN, Language!PermissionAcquired(allowed) PROVE SystemInv'
  <2>1. UNCHANGED <<language, localed, lang>>  BY <1>3 DEF Language!PermissionAcquired
  <2>2. CASE allowed
    <3>1. Language!set_localed_locale(language)  BY <1>3, <2>2 DEF Language!PermissionAcquired
    <3> QED  BY <2>1, <3>1, SetLocaleStep
  <2>3. CASE ~allowed
    <3>1. UNCHANGED others  BY <1>3, <2>1, <2>3 DEF Language!PermissionAcquired
    <3> QED  BY <1>1, <3>1
  <2> QED  BY <2>2, <2>3
<1>4. ASSUME Language!Served PROVE SystemInv'
  <2>1. calls # <<>> /\ calls' = Tail(calls) /\ lang' = Head(calls)
        /\ UNCHANGED <<language, permission, missed>>
    BY <1>4 DEF Language!Served
  <2>2. /\ calls' \in Seq(Locales)
        /\ calls' = <<>> => Last(calls) = lang'
        /\ calls' # <<>> => Last(calls') = Last(calls)
    BY <2>1, LastOfTail
  <2> QED  BY <2>1, <2>2 DEF Last
<1>5. ASSUME Language!ShowMore \/ Language!Activated \/ Language!Confirmed \/
             Language!Turn \/ Language!UserLoaded \/ Language!Advance \/
             Language!Dispose
      PROVE  UNCHANGED others
  BY <1>5 DEF Language!ShowMore, Language!Activated, Language!Confirmed, Language!Turn,
        Language!UserLoaded, Language!Advance, Language!Dispose, Language!system
<1>6. ASSUME NEW ok \in BOOLEAN, Language!LocaledReady(ok) PROVE UNCHANGED others
  BY <1>6 DEF Language!LocaledReady, Language!system
<1>7. CASE UNCHANGED Language!vars
  BY <1>1, <1>7 DEF Language!vars, Language!system
<1> QED  BY <1>1, <1>2, <1>3, <1>4, <1>5, <1>6, <1>7 DEF Language!Next

-----------------------------------------------------------------------------
(* The pages: env is the language picked wherever that can be made.        *)

PagesInv == built = env /\ lang_id = language /\ (language \in Creatable => env = language)

LEMMA PagesStep == ASSUME PagesInv, [Language!Next]_(Language!vars) PROVE PagesInv'
<1> USE DEF PagesInv
<1>1. ASSUME NEW locale \in Locales, Language!LanguageChanged(locale) PROVE PagesInv'
  BY <1>1 DEF Language!LanguageChanged, Language!Picked, Language!set_user_language
<1>2. ASSUME Language!ShowMore \/ Language!Activated \/ Language!Confirmed \/
             Language!Turn \/ Language!Served \/ Language!UserLoaded \/ Language!Advance
             \/ Language!Dispose
      PROVE  UNCHANGED <<language, Language!program>>
  BY <1>2 DEF Language!ShowMore, Language!Activated, Language!Confirmed, Language!Turn,
        Language!Served, Language!UserLoaded, Language!Advance, Language!Dispose
<1>3. ASSUME NEW ok \in BOOLEAN, Language!LocaledReady(ok) \/ Language!PermissionAcquired(ok)
      PROVE  UNCHANGED <<language, Language!program>>
  BY <1>3 DEF Language!LocaledReady, Language!PermissionAcquired
<1>4. ASSUME UNCHANGED <<language, Language!program>> PROVE PagesInv'
  BY <1>4 DEF Language!program
<1>5. CASE UNCHANGED Language!vars
  BY <1>4, <1>5 DEF Language!vars
<1> QED  BY <1>1, <1>2, <1>3, <1>4, <1>5 DEF Language!Next

LEMMA PagesInit ==
  ASSUME Language!Init
  PROVE  PagesInv
BY DEF Language!Init, PagesInv

(* user_loaded runs every handler, in the order they were connected;       *)
(* set_localed_locale is called for every pick, in their order, and by a   *)
(* permission that comes late for the language of then; and the pages are  *)
(* rebuilt after newlocale and uselocale, never before.  So the account,   *)
(* the system, but for a pick before there was a proxy, and the pages      *)
(* where the C library has it, end with the language that was picked last. *)
THEOREM LanguageArrives == Spec => []LanguageReaches
<1> DEFINE Inv == page = "language" => AccountInv /\ SystemInv /\ PagesInv
<1>1. Init => Inv  BY PageInit, AccountInit, SystemInit, PagesInit
<1>2. Inv /\ [Next]_vars => Inv'  BY PageStep, AccountStep, SystemStep, PagesStep
<1>3. Inv => LanguageReaches
  BY DEF LanguageReaches, AccountInv, SystemInv, PagesInv, Language!UserGetsLanguage,
         Language!SystemGetsLanguage, Language!PagesFollow
<1> QED  BY <1>1, <1>2, <1>3, PTL DEF Spec

-----------------------------------------------------------------------------
(* A row that is appended, and one that is removed.                        *)

LEMMA SeveralRows ==
  ASSUME NEW entries \in Seq(Ubuntu), entries # <<>>, Len(entries) # 1
  PROVE  Len(entries) > 1
<1> DEFINE n == Len(entries)
<1>1. n \in Nat /\ n # 0 /\ n # 1
  BY EmptySeq
<1> HIDE DEF n
<1>2. n > 1
  BY <1>1
<1> QED  BY <1>2 DEF n

LEMMA AppendRow ==
  ASSUME NEW entries \in Seq(Ubuntu), Auth!IsInjective(entries), NEW a \in Ubuntu, a \notin Auth!ToSet(entries)
  PROVE  /\ Append(entries, a) \in Seq(Ubuntu) /\ Auth!IsInjective(Append(entries, a))
         /\ Auth!ToSet(Append(entries, a)) = Auth!ToSet(entries) \cup {a}
         /\ Append(entries, a) # <<>> /\ Auth!Last(Append(entries, a)) = a
<1> DEFINE longer == Append(entries, a)
<1>1. /\ longer \in Seq(Ubuntu) /\ longer # <<>> /\ Len(longer) = Len(entries) + 1
      /\ \A i \in 1 .. Len(entries) : longer[i] = entries[i]
      /\ longer[Len(entries) + 1] = a
  BY AppendProperties
<1>2. Len(entries) \in Nat /\ DOMAIN entries = 1 .. Len(entries) /\ DOMAIN longer = 1 .. Len(entries) + 1
  BY <1>1, LenProperties
<1> HIDE DEF longer
<1>3. Auth!IsInjective(longer)
  BY <1>1, <1>2 DEF Auth!IsInjective, Auth!ToSet
<1>4. Auth!ToSet(longer) = Auth!ToSet(entries) \cup {a}
  <2>1. \A i \in DOMAIN longer : longer[i] \in Auth!ToSet(entries) \cup {a}
    BY <1>1, <1>2 DEF Auth!ToSet
  <2>2. Auth!ToSet(entries) \subseteq Auth!ToSet(longer) /\ a \in Auth!ToSet(longer)
    BY <1>1, <1>2 DEF Auth!ToSet
  <2> QED  BY <2>1, <2>2 DEF Auth!ToSet
<1> QED  BY <1>1, <1>3, <1>4 DEF Auth!Last, longer

LEMMA RemoveOnce ==
  ASSUME NEW S, NEW s \in Seq(S), IsInjective(s), NEW i \in DOMAIN s
  PROVE  /\ RemoveAt(s, i) \in Seq(S) /\ IsInjective(RemoveAt(s, i))
         /\ ToSet(RemoveAt(s, i)) = ToSet(s) \ {s[i]}
<1> DEFINE n == Len(s)
           before == SubSeq(s, 1, i - 1)
           behind == SubSeq(s, i + 1, n)
           fewer == RemoveAt(s, i)
<1>1. n \in Nat /\ DOMAIN s = 1 .. n /\ i \in 1 .. n /\ \A j \in 1 .. n : s[j] \in S
  BY LenProperties
<1>2. /\ before \in Seq(S) /\ Len(before) = i - 1
      /\ \A j \in 1 .. i - 1 : before[j] = s[j]
  BY <1>1, SubSeqProperties
<1>3. /\ behind \in Seq(S) /\ Len(behind) = n - i
      /\ \A j \in 1 .. n - i : behind[j] = s[i + j]
  BY <1>1, SubSeqProperties
<1>4. /\ fewer \in Seq(S) /\ Len(fewer) = Len(before) + Len(behind)
      /\ \A j \in 1 .. Len(before) + Len(behind) :
           fewer[j] = IF j <= Len(before) THEN before[j] ELSE behind[j - Len(before)]
  <2>1. fewer = before \o behind  BY DEF RemoveAt
  <2> HIDE DEF before, behind, fewer
  <2> QED  BY <1>2, <1>3, <2>1, ConcatProperties
<1> HIDE DEF before, behind, fewer, n
<1>5. Len(before) + Len(behind) = n - 1
  BY <1>1, <1>2, <1>3
<1>6. DOMAIN fewer = 1 .. n - 1
  BY <1>4, <1>5, LenProperties
<1>7. ASSUME NEW j \in 1 .. n - 1
      PROVE  fewer[j] = IF j < i THEN s[j] ELSE s[j + 1]
  <2>1. CASE j < i
    <3>1. j \in 1 .. i - 1 /\ j <= Len(before)  BY <1>1, <1>2, <2>1
    <3>2. fewer[j] = before[j]  BY <1>4, <1>5, <3>1
    <3> QED  BY <1>2, <2>1, <3>1, <3>2
  <2>2. CASE ~(j < i)
    <3>1. ~(j <= Len(before)) /\ j - Len(before) \in 1 .. n - i /\ i + (j - Len(before)) = j + 1
      BY <1>1, <1>2, <2>2
    <3>2. fewer[j] = behind[j - Len(before)]  BY <1>4, <1>5, <3>1
    <3>3. behind[j - Len(before)] = s[j + 1]  BY <1>3, <3>1
    <3> QED  BY <2>2, <3>2, <3>3
  <2> QED  BY <2>1, <2>2
<1>8. IsInjective(fewer)
  <2> SUFFICES ASSUME NEW j \in 1 .. n - 1, NEW k \in 1 .. n - 1, fewer[j] = fewer[k], j < k
               PROVE  FALSE
    BY <1>1, <1>6 DEF IsInjective
  <2> DEFINE p == IF j < i THEN j ELSE j + 1
             q == IF k < i THEN k ELSE k + 1
  <2>1. p \in 1 .. n /\ q \in 1 .. n /\ p # q  BY <1>1
  <2>2. s[p] = s[q]  BY <1>7
  <2> HIDE DEF p, q
  <2> QED  BY <1>1, <2>1, <2>2 DEF IsInjective
<1>9. ToSet(fewer) = ToSet(s) \ {s[i]}
  <2>1. ASSUME NEW j \in 1 .. n - 1 PROVE fewer[j] \in ToSet(s) \ {s[i]}
    <3> DEFINE at == IF j < i THEN j ELSE j + 1
    <3>1. at \in 1 .. n /\ at # i  BY <1>1
    <3>2. fewer[j] = s[at]  BY <1>7
    <3> HIDE DEF at
    <3> QED  BY <1>1, <3>1, <3>2 DEF ToSet, IsInjective
  <2>2. ASSUME NEW j \in 1 .. n, j # i PROVE s[j] \in ToSet(fewer)
    <3> DEFINE at == IF j < i THEN j ELSE j - 1
    <3>1. at \in 1 .. n - 1  BY <1>1, <2>2
    <3>2. fewer[at] = s[j]  BY <1>1, <1>7, <2>2, <3>1
    <3> HIDE DEF at
    <3> QED  BY <1>6, <3>1, <3>2 DEF ToSet
  <2>3. ToSet(fewer) \subseteq ToSet(s) \ {s[i]}  BY <1>6, <2>1 DEF ToSet
  <2>4. ToSet(s) \ {s[i]} \subseteq ToSet(fewer)  BY <1>1, <2>2 DEF ToSet
  <2> QED  BY <2>3, <2>4
<1> QED  BY <1>4, <1>8, <1>9 DEF fewer

LEMMA RemoveRow ==
  ASSUME NEW entries \in Seq(Ubuntu), Auth!IsInjective(entries), NEW i \in DOMAIN entries
  PROVE  /\ Auth!RemoveAt(entries, i) \in Seq(Ubuntu) /\ Auth!IsInjective(Auth!RemoveAt(entries, i))
         /\ Auth!ToSet(Auth!RemoveAt(entries, i)) = Auth!ToSet(entries) \ {entries[i]}
<1>1. /\ Auth!RemoveAt(entries, i) = RemoveAt(entries, i)
      /\ \A s : Auth!IsInjective(s) <=> IsInjective(s)
      /\ \A s : Auth!ToSet(s) = ToSet(s)
  BY DEF Auth!RemoveAt, RemoveAt, Auth!IsInjective, IsInjective, Auth!ToSet, ToSet
<1> QED  BY <1>1, RemoveOnce

-----------------------------------------------------------------------------
(* The list is the accounts', whatever their order.                        *)

Listed ==
  /\ liststore_account \in Seq(Ubuntu) /\ Auth!IsInjective(liststore_account)
  /\ Len(liststore_account) > 1 => combobox_account \in Auth!ToSet(liststore_account)

ListInv ==
  /\ Listed
  /\ Auth!ToSet(liststore_account) = (accounts \cap Ubuntu) \ unheard
  /\ unheard \subseteq accounts

(* check_ui always leaves a row chosen where there is a choice.            *)
LEMMA CheckUi ==
  ASSUME NEW select \in BOOLEAN, Auth!check_ui(select), liststore_account' \in Seq(Ubuntu),
         Len(liststore_account') > 1
  PROVE  combobox_account' \in Auth!ToSet(liststore_account')
<1> DEFINE entries == liststore_account'
<1>1. Len(entries) \in Nat /\ DOMAIN entries = 1 .. Len(entries)
  BY LenProperties
<1>2. 1 \in DOMAIN entries /\ Len(entries) \in DOMAIN entries
  BY <1>1
<1>3. entries[1] \in Auth!ToSet(entries) /\ Auth!Last(entries) \in Auth!ToSet(entries)
  BY <1>2 DEF Auth!ToSet, Auth!Last
<1> QED  BY <1>3 DEF Auth!check_ui

LEMMA AddAccount ==
  ASSUME Listed, NEW a, NEW select \in BOOLEAN, Auth!add_account(a, select)
  PROVE  /\ Listed' /\ Auth!ToSet(liststore_account)' = Auth!ToSet(liststore_account) \cup ({a} \cap Ubuntu)
         /\ select => UNCHANGED Auth!Selected \/ Auth!Selected' = a
<1>1. CASE a \notin Ubuntu \/ a \in Auth!ToSet(liststore_account)
  <2>1. UNCHANGED <<liststore_account, combobox_account>>
    BY <1>1 DEF Auth!add_account, Auth!list
  <2> QED  BY <1>1, <2>1 DEF Listed, Auth!Selected, Auth!ToSet, Auth!IsInjective
<1>2. CASE a \in Ubuntu /\ a \notin Auth!ToSet(liststore_account)
  <2>1. liststore_account' = Append(liststore_account, a) /\ Auth!check_ui(select)
    BY <1>2 DEF Auth!add_account
  <2>2. /\ liststore_account' \in Seq(Ubuntu) /\ Auth!IsInjective(liststore_account')
        /\ Auth!ToSet(liststore_account') = Auth!ToSet(liststore_account) \cup {a}
        /\ liststore_account' # <<>> /\ Auth!Last(liststore_account') = a
    BY <1>2, <2>1, AppendRow DEF Listed
  <2>3. Listed'
    BY <2>1, <2>2, CheckUi DEF Listed
  <2>4. ASSUME select PROVE Auth!Selected' = a
    <3>1. CASE Len(liststore_account') = 1
      BY <2>2, <3>1 DEF Auth!Selected, Auth!SelectedOf, Auth!Last
    <3>2. CASE Len(liststore_account') # 1
      <4>1. Len(liststore_account') > 1  BY <2>2, <3>2, SeveralRows, Zenon
      <4>2. combobox_account' = a  BY <2>1, <2>2, <2>4, <4>1 DEF Auth!check_ui
      <4> QED  BY <2>2, <3>2, <4>2 DEF Auth!Selected, Auth!SelectedOf
    <3> QED  BY <3>1, <3>2
  <2> QED  BY <1>2, <2>2, <2>3, <2>4 DEF Auth!ToSet
<1> QED  BY <1>1, <1>2

LEMMA RemoveAccount ==
  ASSUME Listed, NEW a, Auth!remove_account(a)
  PROVE  Listed' /\ Auth!ToSet(liststore_account)' = Auth!ToSet(liststore_account) \ {a}
<1>1. CASE a \notin Ubuntu \/ a \notin Auth!ToSet(liststore_account)
  <2>1. UNCHANGED <<liststore_account, combobox_account>>
    BY <1>1 DEF Auth!remove_account, Auth!list
  <2>2. a \notin Auth!ToSet(liststore_account)
    BY <1>1, LenProperties DEF Listed, Auth!ToSet
  <2> QED  BY <2>1, <2>2 DEF Listed, Auth!ToSet, Auth!IsInjective
<1>2. CASE a \in Ubuntu /\ a \in Auth!ToSet(liststore_account)
  <2>1. PICK i \in DOMAIN liststore_account :
          liststore_account[i] = a /\ liststore_account' = Auth!RemoveAt(liststore_account, i)
    BY <1>2 DEF Auth!remove_account
  <2>2. Auth!check_ui(FALSE)
    BY <1>2 DEF Auth!remove_account
  <2>3. /\ liststore_account' \in Seq(Ubuntu) /\ Auth!IsInjective(liststore_account')
        /\ Auth!ToSet(liststore_account') = Auth!ToSet(liststore_account) \ {a}
    BY <2>1, RemoveRow DEF Listed
  <2> QED  BY <2>2, <2>3, CheckUi DEF Listed, Auth!ToSet
<1> QED  BY <1>1, <1>2

LEMMA ListStep == ASSUME ListInv, [Auth!Next]_(Auth!vars) PROVE ListInv'
<1> USE DEF ListInv
<1>1. ASSUME NEW a \in Users, Auth!AccountAdded(a) PROVE ListInv'
  <2>1. a \notin accounts /\ accounts' = accounts \cup {a}
    BY <1>1 DEF Auth!AccountAdded
  <2>2. CASE "add" \in Auth!ToSet(sso)
    <3>1. UNCHANGED <<liststore_account, combobox_account>> /\ unheard' = unheard \cup {a}
      BY <1>1, <2>2 DEF Auth!AccountAdded, Auth!list
    <3> QED  BY <2>1, <3>1 DEF Listed, Auth!ToSet, Auth!IsInjective
  <2>3. CASE "add" \notin Auth!ToSet(sso)
    <3>1. Auth!add_account(a, FALSE) /\ unheard' = unheard
      BY <1>1, <2>3 DEF Auth!AccountAdded
    <3>2. Listed' /\ Auth!ToSet(liststore_account)' = Auth!ToSet(liststore_account) \cup ({a} \cap Ubuntu)
      BY <3>1, AddAccount
    <3> QED  BY <2>1, <3>1, <3>2
  <2> QED  BY <2>2, <2>3
<1>2. ASSUME NEW a \in Users, Auth!AccountRemoved(a) PROVE ListInv'
  <2>1. accounts' = accounts \ {a} /\ unheard' = unheard \ {a} /\ Auth!remove_account(a)
    BY <1>2 DEF Auth!AccountRemoved
  <2>2. Listed' /\ Auth!ToSet(liststore_account)' = Auth!ToSet(liststore_account) \ {a}
    BY <2>1, RemoveAccount
  <2> QED  BY <2>1, <2>2
<1>3. ASSUME NEW a \in Users, Auth!Chosen(a) PROVE ListInv'
  <2>1. a \in Auth!ToSet(liststore_account) /\ combobox_account' = a
        /\ UNCHANGED <<liststore_account, accounts, unheard>>
    BY <1>3 DEF Auth!Chosen
  <2> QED  BY <2>1 DEF Listed, Auth!ToSet, Auth!IsInjective
<1>4. ASSUME NEW a \in Users, Auth!Added(a) PROVE ListInv'
  <2>1. a \in Ubuntu /\ accounts' = accounts \cup {a} /\ unheard' = unheard \ {a}
        /\ Auth!add_account(a, TRUE)
    BY <1>4 DEF Auth!Added
  <2>2. Listed' /\ Auth!ToSet(liststore_account)' = Auth!ToSet(liststore_account) \cup ({a} \cap Ubuntu)
    BY <2>1, AddAccount
  <2> QED  BY <2>1, <2>2
<1>5. ASSUME UNCHANGED <<Auth!list, accounts, unheard>> PROVE ListInv'
  BY <1>5 DEF Auth!list, Listed, Auth!ToSet, Auth!IsInjective
<1>6. ASSUME Auth!Continue \/ Auth!AddAnother \/ Auth!ErrorTimeout \/ Auth!Cancel \/ Auth!Answered
      PROVE  UNCHANGED <<Auth!list, accounts, unheard>>
  BY <1>6 DEF Auth!Continue, Auth!AddAnother, Auth!ErrorTimeout, Auth!Cancel, Auth!Answered, Auth!history
<1>7. ASSUME NEW error \in BOOLEAN, Auth!NotAdded(error) PROVE UNCHANGED <<Auth!list, accounts, unheard>>
  BY <1>7 DEF Auth!NotAdded, Auth!history
<1>8. ASSUME NEW a \in Users, Auth!CredentialsGood(a) \/ Auth!CredentialsExpired(a) \/ Auth!CredentialsUnknown(a)
      PROVE  UNCHANGED <<Auth!list, accounts, unheard>>
  BY <1>8 DEF Auth!CredentialsGood, Auth!CredentialsExpired, Auth!CredentialsUnknown, Auth!history
<1>9. ASSUME NEW a \in Users, NEW outcome \in {"good", "error", "dismissed"}, Auth!RefreshEnds(a, outcome)
      PROVE  UNCHANGED <<Auth!list, accounts, unheard>>
  BY <1>9 DEF Auth!RefreshEnds
<1>10. CASE UNCHANGED Auth!vars
  BY <1>5, <1>10 DEF Auth!vars, Auth!history
<1> QED  BY <1>1, <1>2, <1>3, <1>4, <1>5, <1>6, <1>7, <1>8, <1>9, <1>10 DEF Auth!Next

LEMMA InitListed ==
  ASSUME Auth!Init
  PROVE  ListInv
<1>1. liststore_account \in Seq(Ubuntu) /\ Auth!IsInjective(liststore_account) /\ unheard = {}
  BY InitialAssumption DEF Auth!Init, IsInjective, Auth!IsInjective
<1>2. Len(liststore_account) \in Nat /\ DOMAIN liststore_account = 1 .. Len(liststore_account)
      /\ Auth!ToSet(liststore_account) \subseteq Ubuntu
  BY <1>1, LenProperties DEF Auth!ToSet
<1>3. Len(liststore_account) > 1 => combobox_account \in Auth!ToSet(liststore_account)
  BY <1>2 DEF Auth!Init, Auth!ToSet
<1>4. accounts \cap Ubuntu = Auth!ToSet(liststore_account)
  BY <1>1, <1>2 DEF Auth!Init
<1> QED  BY <1>1, <1>3, <1>4 DEF ListInv, Listed

-----------------------------------------------------------------------------
(* The account used.  The one that would be used now is good, unless       *)
(* another was chosen while an answer was out, ...                         *)
Fit == rechosen \/ Auth!Selected = Auth!None \/ Auth!Selected \in good

(* ... or it is the one being asked for, or refreshed.                     *)
FitFor(a) == Fit \/ Auth!Selected = a

UsedInv ==
  /\ ensuring \in [Ubuntu -> Nat]
  /\ sso \in Seq(Users \cup {"add"})
  /\ \A a \in Ubuntu : ensuring[a] > 0 => FitFor(a)
  /\ \A i \in DOMAIN sso : sso[i] # "add" => FitFor(sso[i])
  /\ response = "ok" => Fit
  /\ account_id # Auth!None => account_id \in good \/ rechosen

answers == <<ensuring, sso, response, account_id>>

(* Nothing new is asked or answered: what was fit stays so.                *)
LEMMA FitKept ==
  ASSUME UsedInv, UNCHANGED answers, good \subseteq good', rechosen => rechosen',
         Auth!Selected' = Auth!Selected
  PROVE  UsedInv'
<1>1. (Fit => Fit') /\ \A a : FitFor(a) => (Fit' \/ Auth!Selected' = a)
  BY DEF Fit, FitFor
<1> QED  BY <1>1 DEF UsedInv, answers, FitFor

(* Moved says so of every change of the selection that comes too late.     *)
LEMMA MovedKept ==
  ASSUME UsedInv, UNCHANGED <<answers, good>>, Auth!Moved
  PROVE  UsedInv'
<1>1. CASE Auth!Selected' = Auth!Selected
  <2>1. rechosen => rechosen'  BY DEF Auth!Moved
  <2> QED  BY <1>1, <2>1, FitKept DEF answers
<1>2. CASE rechosen'
  <2>1. Fit'  BY <1>2 DEF Fit
  <2> QED  BY <1>2, <2>1 DEF UsedInv, answers, FitFor
<1>3. CASE ~Auth!Asked /\ sso = <<>> /\ response = Auth!None /\ ~rechosen
  <2>1. \A a \in Ubuntu : ~(ensuring[a] > 0)  BY <1>3 DEF Auth!Asked
  <2>2. DOMAIN sso = {} /\ response # "ok"  BY <1>3 DEF Auth!None
  <2> QED  BY <2>1, <2>2 DEF UsedInv, answers, Auth!Moved
<1> QED  BY <1>1, <1>2, <1>3 DEF Auth!Moved

(* An answer, or the end of a dialog, for a: the one selected.             *)
LEMMA EndKept ==
  ASSUME UsedInv, UNCHANGED <<Auth!list, rechosen, account_id>>, good \subseteq good',
         ensuring' \in [Ubuntu -> Nat], sso' \in Seq(Users \cup {"add"}),
         \A a \in Ubuntu : ensuring'[a] > 0 => ensuring[a] > 0,
         \A i \in DOMAIN sso' : sso'[i] # "add" => FitFor(sso'[i]),
         response' = "ok" => Fit'
  PROVE  UsedInv'
<1>1. Auth!Selected' = Auth!Selected  BY DEF Auth!list, Auth!Selected
<1>2. (Fit => Fit') /\ \A a : FitFor(a) => (Fit' \/ Auth!Selected' = a)
  BY <1>1 DEF Fit, FitFor
<1> QED  BY <1>2 DEF UsedInv, FitFor

(* GOA's dialog that ends was the last one.                                *)
LEMMA FrontOfDialogs ==
  ASSUME NEW dialogs \in Seq(Users \cup {"add"}), dialogs # <<>>
  PROVE  /\ Auth!Front(dialogs) \in Seq(Users \cup {"add"})
         /\ \A i \in DOMAIN Auth!Front(dialogs) : i \in DOMAIN dialogs /\ Auth!Front(dialogs)[i] = dialogs[i]
         /\ Len(dialogs) \in DOMAIN dialogs
<1> DEFINE n == Len(dialogs)
           D == Users \cup {"add"}
<1>1. n \in Nat /\ n # 0 /\ DOMAIN dialogs = 1 .. n /\ \A i \in 1 .. n : dialogs[i] \in D
  BY EmptySeq, LenProperties
<1>2. /\ Auth!Front(dialogs) \in Seq(D) /\ Len(Auth!Front(dialogs)) = n - 1
      /\ \A i \in 1 .. n - 1 : Auth!Front(dialogs)[i] = dialogs[i]
  BY <1>1, SubSeqProperties DEF Auth!Front
<1> HIDE DEF n, D
<1>3. DOMAIN Auth!Front(dialogs) = 1 .. n - 1
  BY <1>2, LenProperties
<1>4. (\A i \in 1 .. n - 1 : i \in 1 .. n) /\ n \in 1 .. n
  BY <1>1
<1> QED  BY <1>1, <1>2, <1>3, <1>4 DEF n, D

(* An answer that says a is good, from GOA or from its dialog.             *)
LEMMA GoodIsFit ==
  ASSUME NEW a, FitFor(a), UNCHANGED <<Auth!list, rechosen>>, good' = good \cup {a}
  PROVE  Fit'
<1>1. Auth!Selected' = Auth!Selected  BY DEF Auth!list, Auth!Selected
<1> QED  BY <1>1 DEF Fit, FitFor

LEMMA EnsuringLess ==
  ASSUME ensuring \in [Ubuntu -> Nat], NEW a, Auth!EnsureFinished(a)
  PROVE  /\ a \in Ubuntu /\ ensuring[a] > 0 /\ ensuring' \in [Ubuntu -> Nat]
         /\ \A b \in Ubuntu : ensuring'[b] > 0 => ensuring[b] > 0
BY DEF Auth!EnsureFinished

(* Only the account selected is asked for.                                 *)
LEMMA SelectedAsked ==
  ASSUME ensuring \in [Ubuntu -> Nat], NEW entries, NEW row, Auth!SelectedOf(entries, row) \in Ubuntu \cup {Auth!None},
         Auth!None \notin Ubuntu, Auth!response_if_valid(entries, row)
  PROVE  /\ ensuring' \in [Ubuntu -> Nat]
         /\ \A b \in Ubuntu : ensuring'[b] > 0 => ensuring[b] > 0 \/ Auth!SelectedOf(entries, row) = b
BY DEF Auth!response_if_valid

LEMMA SelectedIsRow ==
  ASSUME NEW entries \in Seq(Ubuntu), NEW row, Len(entries) > 1 => row \in Auth!ToSet(entries)
  PROVE  Auth!SelectedOf(entries, row) \in Ubuntu \cup {Auth!None}
<1>1. CASE Len(entries) > 1
  BY <1>1, LenProperties DEF Auth!SelectedOf, Auth!ToSet
<1>2. CASE ~(Len(entries) > 1)
  <2>1. entries = <<>> \/ Len(entries) = 1
    BY <1>2, SeveralRows
  <2> QED  BY <2>1, LenProperties DEF Auth!SelectedOf
<1> QED  BY <1>1, <1>2

(* One step per action that asks, answers, or opens or ends a dialog.      *)
LEMMA UsedStep ==
  ASSUME ListInv, UsedInv, [Auth!Next]_(Auth!vars)
  PROVE  UsedInv'
<1> USE UsersAssumption
<1>0. Auth!None \notin Ubuntu  BY NoneAssumption DEF Auth!None
<1>1. ASSUME NEW a \in Users, Auth!AccountAdded(a) \/ Auth!AccountRemoved(a) \/ Auth!Chosen(a) PROVE UsedInv'
  <2>1. UNCHANGED <<answers, good>> /\ Auth!Moved
    BY <1>1 DEF Auth!AccountAdded, Auth!AccountRemoved, Auth!Chosen, answers, Auth!answer
  <2> QED  BY <2>1, MovedKept
<1>2. ASSUME Auth!Continue PROVE UsedInv'
  <2>1. /\ Auth!response_if_valid(liststore_account, combobox_account)
        /\ UNCHANGED <<Auth!list, sso, response, account_id, good, rechosen>>
    BY <1>2 DEF Auth!Continue, Auth!answer, Auth!history
  <2>2. Auth!Selected' = Auth!Selected /\ (Fit' <=> Fit) /\ \A a : FitFor(a)' <=> FitFor(a)
    BY <2>1 DEF Auth!list, Auth!Selected, Fit, FitFor
  <2>3. /\ ensuring' \in [Ubuntu -> Nat]
        /\ \A b \in Ubuntu : ensuring'[b] > 0 => ensuring[b] > 0 \/ Auth!Selected = b
    BY <2>1, <1>0, SelectedIsRow, SelectedAsked DEF ListInv, Listed, UsedInv, Auth!Selected
  <2> QED  BY <2>1, <2>2, <2>3 DEF UsedInv, FitFor
<1>3. ASSUME Auth!AddAnother PROVE UsedInv'
  <2>1. /\ UNCHANGED <<Auth!list, ensuring, response, account_id, good, rechosen>>
        /\ sso' = <<"add">> \/ UNCHANGED sso
    BY <1>3 DEF Auth!AddAnother, Auth!answer, Auth!history
  <2>2. CASE UNCHANGED sso
    <3>1. Auth!Selected' = Auth!Selected  BY <2>1 DEF Auth!list, Auth!Selected
    <3> QED  BY <2>1, <2>2, <3>1, FitKept DEF answers
  <2>3. CASE sso' = <<"add">>
    <3>1. sso' \in Seq(Users \cup {"add"}) /\ \A i \in DOMAIN sso' : sso'[i] = "add"
      BY <2>3
    <3>2. response' = "ok" => Fit'
      BY <2>1 DEF UsedInv, Fit, Auth!list, Auth!Selected
    <3> QED  BY <2>1, <3>1, <3>2, EndKept DEF UsedInv
  <2> QED  BY <2>1, <2>2, <2>3
<1>4. ASSUME NEW a \in Users, Auth!Added(a) PROVE UsedInv'
  <2>1. /\ a \in Ubuntu /\ sso # <<>> /\ sso' = Auth!Front(sso) /\ good' = good \cup {a}
        /\ Auth!add_account(a, TRUE) /\ Auth!response_if_valid(liststore_account', combobox_account')
        /\ UNCHANGED <<response, account_id, rechosen>>
    BY <1>4 DEF Auth!Added, Auth!Top, Auth!answer
  <2>2. Listed' /\ (Auth!Selected' = Auth!Selected \/ Auth!Selected' = a)
    BY <2>1, AddAccount DEF ListInv
  <2>3. (Fit => Fit') /\ \A b : FitFor(b) => FitFor(b)'
    BY <2>1, <2>2 DEF Fit, FitFor
  <2>4. /\ ensuring' \in [Ubuntu -> Nat]
        /\ \A b \in Ubuntu : ensuring'[b] > 0 => ensuring[b] > 0 \/ Auth!Selected' = b
    <3>1. Auth!Selected' \in Ubuntu \cup {Auth!None}  BY <2>2, SelectedIsRow DEF Listed, Auth!Selected
    <3> QED  BY <2>1, <1>0, <3>1, SelectedAsked DEF UsedInv, Auth!Selected
  <2>5. /\ sso' \in Seq(Users \cup {"add"})
        /\ \A i \in DOMAIN sso' : i \in DOMAIN sso /\ sso'[i] = sso[i]
    BY <2>1, FrontOfDialogs DEF UsedInv
  <2>6. \A b \in Ubuntu : ensuring'[b] > 0 => FitFor(b)'
    BY <2>3, <2>4 DEF UsedInv, FitFor
  <2> QED  BY <2>1, <2>3, <2>4, <2>5, <2>6 DEF UsedInv
<1>5. ASSUME NEW error \in BOOLEAN, Auth!NotAdded(error) PROVE UsedInv'
  <2>1. /\ sso # <<>> /\ sso' = Auth!Front(sso)
        /\ UNCHANGED <<Auth!list, ensuring, response, account_id, good, rechosen>>
    BY <1>5 DEF Auth!NotAdded, Auth!Top, Auth!answer, Auth!history
  <2>2. /\ sso' \in Seq(Users \cup {"add"})
        /\ \A i \in DOMAIN sso' : sso'[i] # "add" => FitFor(sso'[i])
    BY <2>1, FrontOfDialogs DEF UsedInv
  <2>3. response' = "ok" => Fit'
    BY <2>1 DEF UsedInv, Fit, Auth!list, Auth!Selected
  <2> QED  BY <2>1, <2>2, <2>3, EndKept DEF UsedInv
<1>6. ASSUME NEW a \in Users, Auth!CredentialsGood(a) PROVE UsedInv'
  <2>1. /\ Auth!EnsureFinished(a) /\ good' = good \cup {a}
        /\ UNCHANGED <<Auth!list, sso, account_id, rechosen>>
    BY <1>6 DEF Auth!CredentialsGood
  <2>2. Fit'
    BY <2>1, EnsuringLess, GoodIsFit DEF UsedInv
  <2> QED  BY <2>1, <2>2, EnsuringLess, EndKept DEF UsedInv
<1>7. ASSUME NEW a \in Users, Auth!CredentialsExpired(a) \/ Auth!CredentialsUnknown(a) PROVE UsedInv'
  <2>1. /\ Auth!EnsureFinished(a)
        /\ sso' = sso \/ sso' = Append(sso, a)
        /\ UNCHANGED <<Auth!list, response, account_id, good, rechosen>>
    BY <1>7 DEF Auth!CredentialsExpired, Auth!CredentialsUnknown, Auth!answer, Auth!history
  <2>2. FitFor(a)
    BY <2>1, EnsuringLess DEF UsedInv
  <2>3. /\ sso' \in Seq(Users \cup {"add"})
        /\ \A i \in DOMAIN sso' : sso'[i] # "add" => FitFor(sso'[i])
    <3>1. CASE sso' = sso  BY <3>1 DEF UsedInv
    <3>2. CASE sso' = Append(sso, a)
      BY <2>2, <3>2, AppendProperties, LenProperties DEF UsedInv
    <3> QED  BY <2>1, <3>1, <3>2
  <2>4. response' = "ok" => Fit'
    BY <2>1 DEF UsedInv, Fit, Auth!list, Auth!Selected
  <2> QED  BY <2>1, <2>3, <2>4, EnsuringLess, EndKept DEF UsedInv
<1>8. ASSUME NEW a \in Users, NEW outcome \in {"good", "error", "dismissed"}, Auth!RefreshEnds(a, outcome)
      PROVE  UsedInv'
  <2>1. /\ sso # <<>> /\ Auth!Last(sso) = a /\ sso' = Auth!Front(sso)
        /\ \/ response' = "ok" /\ good' = good \cup {a}
           \/ UNCHANGED <<response, good>>
        /\ UNCHANGED <<Auth!list, ensuring, account_id, rechosen>>
    BY <1>8 DEF Auth!RefreshEnds, Auth!Top
  <2>2. FitFor(a)
    BY <2>1, FrontOfDialogs DEF UsedInv, Auth!Last
  <2>3. /\ sso' \in Seq(Users \cup {"add"})
        /\ \A i \in DOMAIN sso' : sso'[i] # "add" => FitFor(sso'[i])
    BY <2>1, FrontOfDialogs DEF UsedInv
  <2>4. CASE good' = good \cup {a}
    BY <2>1, <2>2, <2>3, <2>4, GoodIsFit, EndKept DEF UsedInv
  <2>5. CASE UNCHANGED <<response, good>>
    <3>1. response' = "ok" => Fit'
      BY <2>1, <2>5 DEF UsedInv, Fit, Auth!list, Auth!Selected
    <3> QED  BY <2>1, <2>3, <2>5, <3>1, EndKept DEF UsedInv
  <2> QED  BY <2>1, <2>4, <2>5
<1>9. ASSUME Auth!Cancel PROVE UsedInv'
  BY <1>9, EndKept DEF Auth!Cancel, UsedInv, Auth!history
<1>10. ASSUME Auth!Answered PROVE UsedInv'
  <2>1. /\ ensuring' = Auth!Nobody /\ UNCHANGED <<Auth!list, sso, response, good, rechosen>>
        /\ account_id' = IF response = "ok" THEN Auth!Selected ELSE Auth!None
    BY <1>10 DEF Auth!Answered, Auth!history
  <2>2. Auth!Selected' = Auth!Selected /\ (Fit' <=> Fit) /\ \A a : FitFor(a)' <=> FitFor(a)
    BY <2>1 DEF Auth!list, Auth!Selected, Fit, FitFor
  <2>3. ensuring' \in [Ubuntu -> Nat] /\ \A a \in Ubuntu : ~(ensuring'[a] > 0)
    BY <2>1 DEF Auth!Nobody
  <2>4. account_id' # Auth!None => account_id' \in good' \/ rechosen'
    BY <2>1 DEF UsedInv, Fit
  <2> QED  BY <2>1, <2>2, <2>3, <2>4 DEF UsedInv
<1>11. ASSUME Auth!ErrorTimeout \/ UNCHANGED Auth!vars PROVE UsedInv'
  <2>1. UNCHANGED <<Auth!list, answers, good, rechosen>>
    BY <1>11 DEF Auth!ErrorTimeout, Auth!vars, answers, Auth!answer, Auth!history
  <2>2. Auth!Selected' = Auth!Selected  BY <2>1 DEF Auth!list, Auth!Selected
  <2> QED  BY <2>1, <2>2, FitKept
<1> QED  BY <1>1, <1>2, <1>3, <1>4, <1>5, <1>6, <1>7, <1>8, <1>9, <1>10, <1>11 DEF Auth!Next

LEMMA UsedInit ==
  ASSUME Auth!Init
  PROVE  UsedInv
BY DEF Auth!Init, UsedInv, Auth!Nobody, Auth!None

(* Whatever comes between response_if_valid, ensure_crendentials_cb and    *)
(* gis_auth_dialog_get_account_id, the account that Livepatch is given is  *)
(* one that GOA answered for, unless another was chosen meanwhile.         *)
THEOREM UsedAccountIsGood == Spec => []UsedIsGood
<1> DEFINE Inv == page = "auth" => ListInv /\ UsedInv
<1>1. Init => Inv  BY PageInit, InitListed, UsedInit
<1>2. Inv /\ [Next]_vars => Inv'  BY PageStep, ListStep, UsedStep
<1>3. Inv => UsedIsGood  BY DEF UsedInv, UsedIsGood, Auth!UsedIsGood
<1> QED  BY <1>1, <1>2, <1>3, PTL DEF Spec

-----------------------------------------------------------------------------
(* The online accounts: a row shows an account of its own provider, and a  *)
(* provider that has an account has a row that shows one.                  *)

(* A set of numbers that is not empty has a least one.                     *)
LEMMA Least ==
  ASSUME NEW S \in SUBSET Nat, S # {}
  PROVE  \E m \in S : \A n \in S : m <= n
<1> DEFINE R == OpToRel(<, Nat)
<1>1. \E m \in S : \A n \in S : <<n, m>> \notin R
  <2> HIDE DEF R
  <2>1. IsWellFoundedOn(R, Nat)  BY NatLessThanWellFounded DEF R
  <2> QED  BY <2>1, WFMin, Zenon
<1>2. \A m, n \in Nat : <<n, m>> \notin R => m <= n
  BY DEF OpToRel
<1> HIDE DEF R
<1> QED  BY <1>1, <1>2

LEMMA RemovedInSeq ==
  ASSUME NEW S, NEW s \in Seq(S), NEW i \in DOMAIN s
  PROVE  Goa!RemoveAt(s, i) \in Seq(S)
<1>1. Len(s) \in Nat /\ i \in 1 .. Len(s)
  BY LenProperties
<1>2. SubSeq(s, 1, i - 1) \in Seq(S) /\ SubSeq(s, i + 1, Len(s)) \in Seq(S)
  BY <1>1, SubSeqProperties
<1> QED  BY <1>2, ConcatProperties DEF Goa!RemoveAt

RowsInv ==
  /\ accounts \in Seq(Accounts)
  /\ displayed_account \in [Offered -> Accounts \cup {"none"}]
  /\ \A p \in Offered : displayed_account[p] # "none" =>
       TypeOf[displayed_account[p]] = p /\ accounts_exist = TRUE
  /\ accounts_exist = TRUE => \E p \in Offered : displayed_account[p] # "none"
  /\ ~conf_providers => \A i \in DOMAIN accounts : TypeOf[accounts[i]] \in Offered =>
       displayed_account[TypeOf[accounts[i]]] # "none"
  /\ accounts_exist \in BOOLEAN /\ complete = accounts_exist /\ skippable = ~accounts_exist

(* The first of a provider's accounts that were found is one.              *)
LEMMA FirstIsOne ==
  ASSUME NEW list \in Seq(Accounts), NEW found \in SUBSET DOMAIN list, NEW p,
         Goa!Of(list, found, p) # {}
  PROVE  Goa!FirstOf(list, found, p) \in Accounts /\ TypeOf[Goa!FirstOf(list, found, p)] = p
<1> DEFINE S == Goa!Of(list, found, p)
<1>1. DOMAIN list = 1 .. Len(list) /\ Len(list) \in Nat /\ \A i \in DOMAIN list : list[i] \in Accounts
  BY LenProperties
<1>2. S \subseteq DOMAIN list /\ \A i \in S : TypeOf[list[i]] = p
  BY DEF Goa!Of
<1>3. S \in SUBSET Nat  BY <1>1, <1>2
<1>4. Goa!FirstOf(list, found, p) = list[Goa!Min(S)]
  BY DEF Goa!FirstOf
<1> HIDE DEF S
<1>5. S # {}  BY DEF S
<1>6. Goa!Min(S) \in S
  BY <1>3, <1>5, Least DEF Goa!Min
<1> QED  BY <1>1, <1>2, <1>4, <1>6

(* What is found are accounts that could be added here, and without a list *)
(* of the vendor's it is all of them.                                      *)
LEMMA FoundAreOffered ==
  ASSUME NEW list, NEW found \in Goa!Lookups(list)
  PROVE  /\ found \in SUBSET DOMAIN list
         /\ \A i \in found : TypeOf[list[i]] \in Offered
         /\ ~conf_providers => \A i \in DOMAIN list : TypeOf[list[i]] \in Offered => i \in found
BY DEF Goa!Lookups

LEMMA SyncRows ==
  ASSUME RowsInv, NEW list \in Seq(Accounts), accounts' = list, Goa!sync_accounts(list),
         UNCHANGED conf_providers
  PROVE  RowsInv'
<1>1. PICK found \in Goa!Lookups(list) :
        /\ accounts_exist' = (accounts_exist \/ found # {})
        /\ displayed_account' = [p \in Offered |->
             IF displayed_account[p] # "none" \/ Goa!Of(list, found, p) = {} THEN displayed_account[p]
             ELSE Goa!FirstOf(list, found, p)]
  BY DEF Goa!sync_accounts, Goa!None
<1>0. skippable' = ~accounts_exist' /\ complete' = accounts_exist'
  BY DEF Goa!sync_accounts
<1>2. /\ found \in SUBSET DOMAIN list
      /\ \A i \in found : TypeOf[list[i]] \in Offered
      /\ ~conf_providers => \A i \in DOMAIN list : TypeOf[list[i]] \in Offered => i \in found
  BY <1>1, FoundAreOffered
<1>3. \A p \in Offered : Goa!Of(list, found, p) # {} =>
        /\ Goa!FirstOf(list, found, p) \in Accounts
        /\ TypeOf[Goa!FirstOf(list, found, p)] = p
        /\ found # {}
  <2>1. \A p \in Offered : Goa!Of(list, found, p) # {} =>
          Goa!FirstOf(list, found, p) \in Accounts /\ TypeOf[Goa!FirstOf(list, found, p)] = p
    BY <1>2, FirstIsOne
  <2>2. \A p \in Offered : Goa!Of(list, found, p) # {} => found # {}
    BY DEF Goa!Of
  <2> QED  BY <2>1, <2>2
<1>4. displayed_account' \in [Offered -> Accounts \cup {"none"}]
  BY <1>1, <1>3 DEF RowsInv
<1>5. ASSUME NEW p \in Offered, displayed_account'[p] # "none"
      PROVE  TypeOf[displayed_account'[p]] = p /\ accounts_exist' = TRUE
  <2>1. CASE displayed_account[p] # "none"
    <3>1. displayed_account'[p] = displayed_account[p]  BY <1>1, <2>1
    <3> QED  BY <1>1, <2>1, <3>1 DEF RowsInv
  <2>2. CASE displayed_account[p] = "none"
    <3>1. Goa!Of(list, found, p) # {} /\ displayed_account'[p] = Goa!FirstOf(list, found, p)
      BY <1>1, <1>5, <2>2
    <3>2. TypeOf[displayed_account'[p]] = p /\ found # {}  BY <1>3, <3>1
    <3> QED  BY <1>1, <3>2
  <2> QED  BY <2>1, <2>2
(* An account that is found has its row, or leaves it to another.          *)
<1>6. ASSUME NEW i \in found
      PROVE  TypeOf[list[i]] \in Offered /\ displayed_account'[TypeOf[list[i]]] # "none"
  <2> DEFINE p == TypeOf[list[i]]
  <2>0. p \in Offered  BY <1>2
  <2>1. Goa!Of(list, found, p) # {}  BY DEF Goa!Of
  <2>2. CASE displayed_account[p] # "none"  BY <1>1, <2>0, <2>2
  <2>3. CASE displayed_account[p] = "none"
    <3>1. displayed_account'[p] = Goa!FirstOf(list, found, p)  BY <1>1, <2>0, <2>1, <2>3
    <3>2. Goa!FirstOf(list, found, p) \in Accounts  BY <1>3, <2>0, <2>1
    <3> QED  BY <2>0, <3>1, <3>2, NoneAssumption
  <2> QED  BY <2>0, <2>2, <2>3
<1>7. accounts_exist' = TRUE => \E p \in Offered : displayed_account'[p] # "none"
  <2> SUFFICES ASSUME accounts_exist' = TRUE
               PROVE  \E p \in Offered : displayed_account'[p] # "none"
    OBVIOUS
  <2>1. CASE found # {}  BY <1>6, <2>1
  <2>2. CASE found = {}
    <3>1. accounts_exist = TRUE  BY <1>1, <2>2 DEF RowsInv
    <3>2. PICK p \in Offered : displayed_account[p] # "none"  BY <3>1 DEF RowsInv
    <3>3. displayed_account'[p] = displayed_account[p]  BY <1>1, <3>2
    <3> QED  BY <3>2, <3>3
  <2> QED  BY <2>1, <2>2
<1>8. ~conf_providers' => \A i \in DOMAIN list : TypeOf[list[i]] \in Offered =>
        displayed_account'[TypeOf[list[i]]] # "none"
  BY <1>2, <1>6
<1>9. accounts_exist' \in BOOLEAN  BY <1>1 DEF RowsInv
<1> QED  BY <1>0, <1>4, <1>5, <1>7, <1>8, <1>9 DEF RowsInv

LEMMA RowsInit ==
  ASSUME Goa!Init
  PROVE  RowsInv
<1>1. /\ accounts = <<>> /\ accounts_exist = FALSE /\ skippable = TRUE /\ complete = FALSE
      /\ displayed_account = [p \in Offered |-> "none"]
  BY DEF Goa!Init, Goa!None
<1>2. accounts \in Seq(Accounts) /\ DOMAIN accounts = {}
  BY <1>1
<1> QED  BY <1>1, <1>2 DEF RowsInv

LEMMA RowsStep ==
  ASSUME RowsInv, [Goa!Next]_(Goa!vars)
  PROVE  RowsInv'
<1>1. ASSUME NEW a \in Accounts, Goa!AccountAdded(a)
      PROVE  RowsInv'
  <2>1. /\ accounts' = Append(accounts, a) /\ Goa!sync_accounts(accounts')
        /\ UNCHANGED conf_providers
    BY <1>1 DEF Goa!AccountAdded, Goa!machine
  <2>2. Append(accounts, a) \in Seq(Accounts)  BY AppendProperties DEF RowsInv
  <2> QED  BY <2>1, <2>2, SyncRows
<1>2. ASSUME NEW a \in Accounts, Goa!AccountRemoved(a)
      PROVE  RowsInv'
  <2>1. PICK i \in DOMAIN accounts : accounts' = Goa!RemoveAt(accounts, i)
    BY <1>2 DEF Goa!AccountRemoved
  <2>2. accounts' \in Seq(Accounts)  BY <2>1, RemovedInSeq DEF RowsInv
  <2>3. Goa!sync_accounts(accounts') /\ UNCHANGED conf_providers
    BY <1>2 DEF Goa!AccountRemoved, Goa!machine
  <2> QED  BY <2>2, <2>3, SyncRows
<1>3. ASSUME \/ Goa!NetworkChanged \/ Goa!DialogEnds \/ Goa!Switched
             \/ (\E p : Goa!RowActivated(p)) \/ UNCHANGED Goa!vars
      PROVE  RowsInv'
  <2>1. UNCHANGED accounts /\ UNCHANGED Goa!page /\ UNCHANGED Goa!machine
    BY <1>3 DEF Goa!NetworkChanged, Goa!DialogEnds, Goa!Switched, Goa!RowActivated, Goa!vars
  <2>2. UNCHANGED <<accounts, accounts_exist, displayed_account, skippable, complete, conf_providers>>
    BY <2>1 DEF Goa!page, Goa!machine
  <2> QED  BY <2>2 DEF RowsInv
<1> QED  BY <1>1, <1>2, <1>3 DEF Goa!Next

(* With the program's own list of providers sync_accounts gives every      *)
(* account the user could have added here a row, or its provider has one   *)
(* already; with the vendor's, whose look-ups read freed memory, no row is *)
(* wrong, and with either the page offers Next just when a row shows an    *)
(* account.  And the dialog's list has each Ubuntu One account once,       *)
(* whatever other programs and GOA's own dialogs do to them, and one of    *)
(* them active where there is a choice.                                    *)
THEOREM AllAccountsShown == Spec => []AccountsShown
<1> DEFINE Inv == (page = "goa" => RowsInv) /\ (page = "auth" => ListInv)
<1>1. Init => Inv  BY PageInit, RowsInit, InitListed
<1>2. Inv /\ [Next]_vars => Inv'  BY PageStep, RowsStep, ListStep
<1>3. RowsInv => Goa!AccountsShown
  <2> SUFFICES ASSUME RowsInv PROVE Goa!AccountsShown
    OBVIOUS
  <2>1. complete = accounts_exist /\ skippable = ~accounts_exist /\ accounts_exist \in BOOLEAN
    BY DEF RowsInv
  <2>2. accounts_exist = TRUE <=> \E p \in Offered : displayed_account[p] # "none"
    BY DEF RowsInv
  <2>3. complete <=> \E p \in Offered : displayed_account[p] # "none"
    BY <2>1, <2>2
  <2>4. skippable = ~complete
    BY <2>1
  <2> QED  BY <2>3, <2>4 DEF RowsInv, Goa!AccountsShown, Goa!None
<1>4. ListInv => Auth!ListIsGoas
  BY DEF ListInv, Listed, Auth!ListIsGoas
<1>5. Inv => AccountsShown  BY <1>3, <1>4 DEF AccountsShown
<1> QED  BY <1>1, <1>2, <1>5, PTL DEF Spec

-----------------------------------------------------------------------------
(* The timers: a dialog that was answered is asked and tells nothing more. *)

ClosedInv ==
  /\ ~open => ensuring = Auth!Nobody /\ sso = <<>>
  /\ error_timeout => open

LEMMA ClosedInit ==
  ASSUME Auth!Init
  PROVE  ClosedInv
BY DEF Auth!Init, ClosedInv

LEMMA ClosedStep ==
  ASSUME ClosedInv, [Auth!Next]_(Auth!vars)
  PROVE  ClosedInv'
<1> USE DEF ClosedInv
<1>1. ASSUME open, UNCHANGED open
      PROVE  ClosedInv'
  BY <1>1
<1>2. ASSUME UNCHANGED <<open, ensuring, sso, error_timeout>>
      PROVE  ClosedInv'
  BY <1>2 DEF Auth!Nobody
<1>3. ASSUME NEW a, Auth!AccountAdded(a) \/ Auth!AccountRemoved(a) \/ Auth!Chosen(a)
      PROVE  ClosedInv'
  BY <1>1, <1>3
  DEF Auth!AccountAdded, Auth!AccountRemoved, Auth!Chosen, Auth!Change, Auth!answer
<1>4. ASSUME Auth!Continue \/ Auth!AddAnother \/ Auth!Cancel
      PROVE  ClosedInv'
  BY <1>1, <1>4 DEF Auth!Continue, Auth!AddAnother, Auth!Cancel, Auth!Change, Auth!answer
<1>5. ASSUME NEW a, NEW outcome,
             Auth!Added(a) \/ Auth!NotAdded(outcome) \/ Auth!RefreshEnds(a, outcome)
      PROVE  ClosedInv'
  <2>1. sso # <<>> /\ UNCHANGED open
    BY <1>5 DEF Auth!Added, Auth!NotAdded, Auth!RefreshEnds, Auth!Top, Auth!answer
  <2> QED  BY <1>1, <2>1
<1>6. ASSUME NEW a,
             Auth!CredentialsGood(a) \/ Auth!CredentialsExpired(a) \/ Auth!CredentialsUnknown(a)
      PROVE  ClosedInv'
  <2>1. a \in Ubuntu /\ ensuring[a] > 0 /\ UNCHANGED open
    BY <1>6 DEF Auth!CredentialsGood, Auth!CredentialsExpired, Auth!CredentialsUnknown,
                Auth!EnsureFinished, Auth!answer
  <2>2. ensuring # Auth!Nobody  BY <2>1 DEF Auth!Nobody
  <2> QED  BY <1>1, <2>1, <2>2
<1>7. CASE Auth!ErrorTimeout
  BY <1>1, <1>7 DEF Auth!ErrorTimeout, Auth!answer
<1>8. CASE Auth!Answered
  BY <1>8 DEF Auth!Answered, Auth!Nobody
<1>9. CASE UNCHANGED Auth!vars
  BY <1>2, <1>9 DEF Auth!vars, Auth!answer
<1> QED  BY <1>3, <1>4, <1>5, <1>6, <1>7, <1>8, <1>9 DEF Auth!Next

LEMMA AppsTimerStep ==
  ASSUME Apps!NoTimerOutlivesPage, [Apps!Next]_(Apps!vars)
  PROVE  Apps!NoTimerOutlivesPage'
<1> USE DEF Apps!NoTimerOutlivesPage
<1>1. ASSUME NEW reply, Apps!InstalledReady(reply)
      PROVE  Apps!NoTimerOutlivesPage'
  BY <1>1 DEF Apps!InstalledReady
<1>2. CASE Apps!Timeout  BY <1>2 DEF Apps!Timeout
<1>3. CASE Apps!FeaturedFailed  BY <1>3 DEF Apps!FeaturedFailed
<1>4. CASE Apps!Dispose  BY <1>4 DEF Apps!Dispose
<1>5. ASSUME \/ (\E reply : Apps!FeaturedReady(reply))
             \/ (\E snap, ok : Apps!IconReady(snap, ok))
             \/ Apps!NextBox \/ Apps!PrevBox \/ UNCHANGED Apps!vars
      PROVE  Apps!NoTimerOutlivesPage'
  <2>1. UNCHANGED <<featured_snaps_timeout, disposed>>
    BY <1>5 DEF Apps!FeaturedReady, Apps!IconReady, Apps!NextBox, Apps!PrevBox, Apps!vars,
                Apps!asked
  <2> QED  BY <2>1
<1> QED  BY <1>1, <1>2, <1>3, <1>4, <1>5 DEF Apps!Next

LEMMA AppsTimerInit ==
  ASSUME Apps!Init
  PROVE  Apps!NoTimerOutlivesPage
BY DEF Apps!Init, Apps!NoTimerOutlivesPage

(* Whatever was being asked when they went, and however often it failed or *)
(* was cancelled since: neither the applications' page nor the dialog      *)
(* leaves a timer behind.                                                  *)
THEOREM NoTimerLeft == Spec => []NoTimerOutlivesPage
<1> DEFINE Inv == /\ page = "apps" => Apps!NoTimerOutlivesPage
                  /\ page = "auth" => ClosedInv
<1>1. Init => Inv  BY PageInit, AppsTimerInit, ClosedInit
<1>2. Inv /\ [Next]_vars => Inv'  BY PageStep, AppsTimerStep, ClosedStep
<1>3. Inv => NoTimerOutlivesPage
  BY DEF NoTimerOutlivesPage, ClosedInv, Auth!NoTimerOutlivesDialog
<1> QED  BY <1>1, <1>2, <1>3, PTL DEF Spec

-----------------------------------------------------------------------------
(* The keyboard: the row chosen is never one of the extra ones.            *)

SeenInv == chosen \notin extra

LEMMA SeenStep ==
  ASSUME SeenInv, [Keyboard!Next]_(Keyboard!vars)
  PROVE  SeenInv'
<1> USE DEF SeenInv
<1>1. ASSUME NEW source, Keyboard!Choose(source)
      PROVE  SeenInv'
  BY <1>1 DEF Keyboard!Choose, Keyboard!Synced
<1>2. CASE Keyboard!LocaledReady  BY <1>1, <1>2 DEF Keyboard!LocaledReady
<1>3. ASSUME NEW source, Keyboard!RowActivated(source)
      PROVE  SeenInv'
  BY <1>1, <1>3 DEF Keyboard!RowActivated
<1>4. CASE Keyboard!EnginesListed  BY <1>4 DEF Keyboard!EnginesListed, Keyboard!Synced
<1>5. ASSUME \/ Keyboard!LocaledFailed \/ Keyboard!IbusConnected \/ Keyboard!EnginesFailed
             \/ Keyboard!ShowMore \/ Keyboard!Apply \/ Keyboard!Served \/ Keyboard!Skip
             \/ Keyboard!SkipReady \/ Keyboard!Dispose
             \/ (\E allowed \in BOOLEAN : Keyboard!PermissionAcquired(allowed))
             \/ UNCHANGED Keyboard!vars
      PROVE  SeenInv'
  <2>1. UNCHANGED <<chosen, extra>>
    BY <1>5
    DEF Keyboard!LocaledFailed, Keyboard!IbusConnected, Keyboard!EnginesFailed, Keyboard!ShowMore,
        Keyboard!Apply, Keyboard!Served, Keyboard!Skip, Keyboard!SkipReady, Keyboard!Dispose,
        Keyboard!PermissionAcquired, Keyboard!vars, Keyboard!list
  <2> QED  BY <2>1
<1> QED  BY <1>2, <1>3, <1>4, <1>5 DEF Keyboard!Next

LEMMA SeenInit ==
  ASSUME Keyboard!Init
  PROVE  SeenInv
BY DEF Keyboard!Init, Keyboard!ChooserInit, Keyboard!Synced, SeenInv

(* sync_all_checkmarks follows whatever chooses a row or adds rows: the    *)
(* user, the language, localed's answer or IBus's engines.                 *)
THEOREM ChosenSeen == Spec => []ChosenIsSeen
<1> DEFINE Inv == page = "keyboard" => SeenInv
<1>1. Init => Inv  BY PageInit, SeenInit
<1>2. Inv /\ [Next]_vars => Inv'  BY PageStep, SeenStep
<1>3. Inv => ChosenIsSeen
  BY DEF SeenInv, ChosenIsSeen, Keyboard!ChosenIsSeen, Keyboard!Visible
<1> QED  BY <1>1, <1>2, <1>3, PTL DEF Spec

-----------------------------------------------------------------------------
(* Sequences that hold nothing twice.                                      *)

(* Induction, from the least of those that would fail.                     *)
LEMMA Induction ==
  ASSUME NEW S, 0 \in S, \A n \in Nat : n \in S => n + 1 \in S
  PROVE  Nat \subseteq S
<1> SUFFICES ASSUME Nat \ S # {} PROVE FALSE
  OBVIOUS
<1>1. PICK m \in Nat \ S : \A n \in Nat \ S : m <= n
  BY Least, Zenon
<1>2. m # 0 /\ m - 1 \in Nat /\ m - 1 \in S
  BY <1>1
<1>3. (m - 1) + 1 = m  BY <1>1
<1> QED  BY <1>1, <1>2, <1>3

(* A loop of n rounds, each of which makes step of what there is.          *)
Runs(f, z, step, n) == f[0] = z /\ \A i \in 1 .. n : f[i] = step[i][f[i - 1]]

LEMMA RunExists ==
  ASSUME NEW S, NEW z \in S, NEW n \in Nat, NEW step \in [1 .. n -> [S -> S]]
  PROVE  \E f \in [0 .. n -> S] : Runs(f, z, step, n)
<1> DEFINE UpTo(f, m) == \A i \in 1 .. n : i <= m => f[i] = step[i][f[i - 1]]
           Good(m) == \E f \in [0 .. n -> S] : f[0] = z /\ UpTo(f, m)
           G == {m \in Nat : Good(m)}
<1>2. 0 \in G
  <2> DEFINE f == [i \in 0 .. n |-> z]
  <2>1. f \in [0 .. n -> S] /\ f[0] = z  OBVIOUS
  <2>2. UpTo(f, 0)  OBVIOUS
  <2> QED  BY <2>1, <2>2
<1>3. ASSUME NEW m \in Nat, m \in G
      PROVE  m + 1 \in G
  <2>1. PICK f \in [0 .. n -> S] : f[0] = z /\ UpTo(f, m)
    BY <1>3
  <2> DEFINE next == step[m + 1][f[m]]
             g == [f EXCEPT ![m + 1] = next]
  <2>2. CASE m + 1 \in 1 .. n
    <3>1. f[m] \in S  BY <2>2
    <3>2. next \in S  BY <2>2, <3>1
    <3> HIDE DEF next
    <3>3. /\ g \in [0 .. n -> S] /\ g[0] = z /\ g[m + 1] = next
          /\ \A i \in 0 .. n : i # m + 1 => g[i] = f[i]
      BY <2>1, <2>2, <3>2
    <3> HIDE DEF g
    <3>4. ASSUME NEW i \in 1 .. n, i <= m + 1
          PROVE  g[i] = step[i][g[i - 1]]
      <4>1. CASE i = m + 1
        <5>1. g[i - 1] = f[m]  BY <3>3, <4>1
        <5> QED  BY <3>3, <4>1, <5>1 DEF next
      <4>2. CASE i # m + 1
        <5>1. i <= m /\ g[i] = f[i] /\ g[i - 1] = f[i - 1]  BY <3>3, <3>4, <4>2
        <5> QED  BY <2>1, <5>1
      <4> QED  BY <4>1, <4>2
    <3> QED  BY <3>3, <3>4
  <2>3. CASE m + 1 \notin 1 .. n
    <3>1. \A i \in 1 .. n : i <= m + 1 => i <= m  BY <2>3
    <3>2. Good(m + 1)  BY <2>1, <3>1
    <3> QED  BY <3>2
  <2> QED  BY <2>2, <2>3
<1>4. Nat \subseteq G
  <2> HIDE DEF G
  <2> QED  BY <1>2, <1>3, Induction
<1>5. Good(n)  BY <1>4
<1>6. \A i \in 1 .. n : i <= n  OBVIOUS
<1> QED  BY <1>5, <1>6 DEF Runs

LEMMA CountOnce ==
  ASSUME NEW S, NEW s \in Seq(S), IsInjective(s)
  PROVE  Cardinality(ToSet(s)) = Len(s)
<1> DEFINE n == Len(s)
<1>1. n \in Nat /\ DOMAIN s = 1 .. n /\ s = [i \in 1 .. n |-> s[i]]
  BY LenProperties
<1>2. s \in [1 .. n -> ToSet(s)]
  <2>1. \A i \in 1 .. n : s[i] \in ToSet(s)  BY <1>1 DEF ToSet
  <2> QED  BY <1>1, <2>1
<1>3. \A e \in ToSet(s) : \E i \in 1 .. n : s[i] = e
  BY <1>1 DEF ToSet
<1> HIDE DEF n
<1>4. s \in Bijection(1 .. n, ToSet(s))
  BY <1>2, <1>3 DEF Bijection, Injection, Surjection
<1>5. ExistsBijection(1 .. n, ToSet(s))
  BY <1>4 DEF ExistsBijection
<1>6. Cardinality(ToSet(s)) = n
  BY <1>1, <1>5, FS_CountingElements
<1> QED  BY <1>6 DEF n

LEMMA JoinOnce ==
  ASSUME NEW S, NEW s \in Seq(S), NEW t \in Seq(S), IsInjective(s), IsInjective(t),
         ToSet(s) \cap ToSet(t) = {}
  PROVE  /\ s \o t \in Seq(S) /\ IsInjective(s \o t)
         /\ ToSet(s \o t) = ToSet(s) \cup ToSet(t)
<1> DEFINE n == Len(s)
           m == Len(t)
           joined == s \o t
<1>1. n \in Nat /\ DOMAIN s = 1 .. n /\ m \in Nat /\ DOMAIN t = 1 .. m
  BY LenProperties
<1>2. /\ joined \in Seq(S) /\ Len(joined) = n + m
      /\ \A i \in 1 .. n + m : joined[i] = IF i <= n THEN s[i] ELSE t[i - n]
  BY ConcatProperties
<1>3. DOMAIN joined = 1 .. n + m
  BY <1>2, LenProperties
<1> HIDE DEF n, m, joined
<1>4. \A i \in 1 .. n : i \in 1 .. n + m /\ joined[i] = s[i] /\ s[i] \in ToSet(s)
  <2>1. \A i \in 1 .. n : i \in 1 .. n + m /\ i <= n  BY <1>1
  <2>2. \A i \in 1 .. n : s[i] \in ToSet(s)  BY <1>1, Zenon DEF ToSet
  <2> QED  BY <1>2, <2>1, <2>2
<1>5. \A i \in 1 .. n + m : i \notin 1 .. n =>
        i - n \in 1 .. m /\ joined[i] = t[i - n] /\ t[i - n] \in ToSet(t)
  <2>1. \A i \in 1 .. n + m : i \notin 1 .. n => i - n \in 1 .. m /\ ~(i <= n)  BY <1>1
  <2>2. \A i \in 1 .. m : t[i] \in ToSet(t)  BY <1>1, Zenon DEF ToSet
  <2> QED  BY <1>2, <2>1, <2>2
<1>6. IsInjective(joined)
  <2> SUFFICES ASSUME NEW i \in 1 .. n + m, NEW j \in 1 .. n + m, joined[i] = joined[j]
               PROVE  i = j
    BY <1>3 DEF IsInjective
  <2>1. CASE i \in 1 .. n /\ j \in 1 .. n
    BY <1>1, <1>4, <2>1 DEF IsInjective
  <2>2. CASE i \notin 1 .. n /\ j \notin 1 .. n
    <3>1. i - n = j - n  BY <1>1, <1>5, <2>2 DEF IsInjective
    <3> QED  BY <1>1, <3>1
  <2>3. CASE (i \in 1 .. n) # (j \in 1 .. n)
    <3>1. joined[i] \in ToSet(s) /\ joined[i] \in ToSet(t)  BY <1>4, <1>5, <2>3
    <3> QED  BY <3>1
  <2> QED  BY <2>1, <2>2, <2>3
<1>7. ToSet(joined) = ToSet(s) \cup ToSet(t)
  <2>1. ToSet(joined) \subseteq ToSet(s) \cup ToSet(t)
    BY <1>3, <1>4, <1>5 DEF ToSet
  <2>2. ToSet(s) \subseteq ToSet(joined)
    BY <1>1, <1>3, <1>4 DEF ToSet
  <2>3. ASSUME NEW i \in 1 .. m
        PROVE  t[i] \in ToSet(joined)
    <3>1. i + n \in 1 .. n + m /\ i + n \notin 1 .. n /\ (i + n) - n = i  BY <1>1
    <3>2. joined[i + n] = t[i]  BY <1>5, <3>1
    <3> QED  BY <1>3, <3>1, <3>2 DEF ToSet
  <2>4. ToSet(t) \subseteq ToSet(joined)
    BY <1>1, <2>3 DEF ToSet
  <2> QED  BY <2>1, <2>2, <2>4
<1> QED  BY <1>2, <1>6, <1>7 DEF joined

LEMMA AppendOnce ==
  ASSUME NEW S, NEW s \in Seq(S), IsInjective(s), NEW e \in S, e \notin ToSet(s)
  PROVE  /\ Append(s, e) \in Seq(S) /\ IsInjective(Append(s, e))
         /\ ToSet(Append(s, e)) = ToSet(s) \cup {e}
<1> DEFINE n == Len(s)
           longer == Append(s, e)
<1>1. n \in Nat /\ DOMAIN s = 1 .. n
  BY LenProperties
<1>2. /\ longer \in Seq(S) /\ Len(longer) = n + 1
      /\ \A i \in 1 .. n : longer[i] = s[i]
      /\ longer[n + 1] = e
  BY AppendProperties
<1>3. DOMAIN longer = 1 .. n + 1
  BY <1>2, LenProperties
<1> HIDE DEF n, longer
<1>4. 1 .. n + 1 = (1 .. n) \cup {n + 1}
  BY <1>1
<1>5. \A i \in 1 .. n : s[i] \in ToSet(s) /\ longer[i] # e
  BY <1>1, <1>2 DEF ToSet
<1>6. IsInjective(longer)
  BY <1>1, <1>2, <1>3, <1>4, <1>5 DEF IsInjective
<1>7. ToSet(longer) = ToSet(s) \cup {e}
  <2>1. ToSet(longer) \subseteq ToSet(s) \cup {e}
    BY <1>2, <1>3, <1>4, <1>5 DEF ToSet
  <2>2. ToSet(s) \subseteq ToSet(longer) /\ e \in ToSet(longer)
    BY <1>1, <1>2, <1>3, <1>4 DEF ToSet
  <2> QED  BY <2>1, <2>2
<1> QED  BY <1>2, <1>6, <1>7 DEF longer

LEMMA SingleOnce ==
  ASSUME NEW S, NEW e \in S
  PROVE  <<e>> \in Seq(S) /\ IsInjective(<<e>>) /\ ToSet(<<e>>) = {e} /\ Len(<<e>>) = 1
<1> DEFINE s == <<e>>
<1>1. DOMAIN s = {1} /\ s[1] = e /\ Len(s) = 1 /\ s \in Seq(S)
  OBVIOUS
<1> HIDE DEF s
<1>2. IsInjective(s) /\ ToSet(s) = {e}
  BY <1>1 DEF IsInjective, ToSet
<1> QED  BY <1>1, <1>2 DEF s

LEMMA EmptyOnce ==
  /\ IsInjective(<<>>) /\ ToSet(<<>>) = {} /\ \A S : <<>> \in Seq(S)
<1>1. DOMAIN <<>> = {}  OBVIOUS
<1> QED  BY <1>1 DEF IsInjective, ToSet

-----------------------------------------------------------------------------
(* The keyboard's sequences.  Others is what its loop makes of the system's*)
(* layouts: all but one.                                                   *)

LEMMA KeyboardSequences ==
  /\ \A S : Keyboard!Cardinality(S) = Cardinality(S)
  /\ \A s : Keyboard!Range(s) = ToSet(s)
BY DEF Keyboard!Cardinality, Cardinality, Keyboard!Range, ToSet

(* There is the function that the loop computes, ...                       *)
Loop(f, s, e) ==
  /\ f[0] = <<>>
  /\ \A i \in 1 .. Len(s) : f[i] = IF s[i] # e THEN Append(f[i - 1], s[i]) ELSE f[i - 1]

LEMMA AddedExists ==
  ASSUME NEW S, NEW s \in Seq(S), NEW e
  PROVE  \E f \in [0 .. Len(s) -> Seq(S)] : Loop(f, s, e)
<1> DEFINE n == Len(s)
           B == Seq(S)
           step == [i \in 1 .. n |-> [t \in B |-> IF s[i] # e THEN Append(t, s[i]) ELSE t]]
<1>1. n \in Nat /\ \A i \in 1 .. n : s[i] \in S
  BY LenProperties
<1>2. step \in [1 .. n -> [B -> B]]
  BY <1>1
<1>3. PICK f \in [0 .. n -> B] : Runs(f, <<>>, step, n)
  <2>1. <<>> \in B  OBVIOUS
  <2> HIDE DEF step, n, B
  <2> QED  BY <1>1, <1>2, <2>1, RunExists
<1>4. ASSUME NEW i \in 1 .. n
      PROVE  f[i] = IF s[i] # e THEN Append(f[i - 1], s[i]) ELSE f[i - 1]
  <2>1. f[i - 1] \in B  BY <1>1
  <2>2. f[i] = step[i][f[i - 1]]  BY <1>3 DEF Runs
  <2> QED  BY <2>1, <2>2
<1> QED  BY <1>3, <1>4 DEF Loop, Runs

(* ... so that its value follows the loop.                                 *)
LEMMA OthersLoop ==
  ASSUME NEW S, system_sources \in Seq(S), NEW e
  PROVE  \E f : Loop(f, system_sources, e) /\ Keyboard!Others(e) = f[Len(system_sources)]
<1> DEFINE n == Len(system_sources)
           E(g, i) == IF i = 0 THEN <<>>
                      ELSE IF system_sources[i] # e THEN Append(g[i - 1], system_sources[i])
                      ELSE g[i - 1]
           F == CHOOSE g : g = [i \in 0 .. n |-> E(g, i)]
<1>1. Keyboard!Others(e) = F[n]
  BY DEF Keyboard!Others
<1>2. PICK f \in [0 .. n -> Seq(S)] : Loop(f, system_sources, e)
  BY AddedExists, Zenon
<1>3. n \in Nat  BY LenProperties
<1>4. /\ f[0] = <<>>
      /\ \A i \in 1 .. n : f[i] = IF system_sources[i] # e
                                  THEN Append(f[i - 1], system_sources[i]) ELSE f[i - 1]
  BY <1>2 DEF Loop
<1> HIDE DEF n
<1>5. f = [i \in 0 .. n |-> E(f, i)]
  <2>1. ASSUME NEW i \in 0 .. n PROVE f[i] = E(f, i)
    <3>1. CASE i = 0  BY <1>4, <3>1
    <3>2. CASE i # 0
      <4>1. i \in 1 .. n  BY <1>3, <3>2
      <4> QED  BY <1>4, <3>2, <4>1
    <3> QED  BY <3>1, <3>2
  <2> HIDE DEF E
  <2> QED  BY <1>2, <2>1
<1> HIDE DEF E
<1>6. F = [i \in 0 .. n |-> E(F, i)]
  BY <1>5
<1> HIDE DEF F
<1>7. F[0] = <<>>
  <2>1. 0 \in 0 .. n  BY <1>3
  <2>2. F[0] = E(F, 0)  BY <1>6, <2>1
  <2> QED  BY <2>2 DEF E
<1>8. ASSUME NEW i \in 1 .. n
      PROVE  F[i] = IF system_sources[i] # e THEN Append(F[i - 1], system_sources[i]) ELSE F[i - 1]
  <2>1. i \in 0 .. n /\ i # 0  BY <1>3
  <2>2. F[i] = E(F, i)  BY <1>6, <2>1
  <2> QED  BY <2>1, <2>2 DEF E
<1>9. Loop(F, system_sources, e)
  BY <1>7, <1>8 DEF Loop, n
<1> QED  BY <1>1, <1>9 DEF n

LEMMA OthersAreOthers ==
  ASSUME NEW S, system_sources \in Seq(S), IsInjective(system_sources), NEW e
  PROVE  /\ Keyboard!Others(e) \in Seq(S) /\ IsInjective(Keyboard!Others(e))
         /\ ToSet(Keyboard!Others(e)) = ToSet(system_sources) \ {e}
<1> DEFINE s == system_sources
           n == Len(s)
           Until(m) == {s[i] : i \in 1 .. m} \ {e}
<1>1. n \in Nat /\ DOMAIN s = 1 .. n /\ \A i \in 1 .. n : s[i] \in S
  BY LenProperties
<1>0. PICK f : Loop(f, s, e) /\ Keyboard!Others(e) = f[n]
  BY OthersLoop
<1>2. /\ f[0] = <<>>
      /\ \A i \in 1 .. n : f[i] = IF s[i] # e THEN Append(f[i - 1], s[i]) ELSE f[i - 1]
  BY <1>0 DEF Loop
<1>3. \A i, j \in 1 .. n : s[i] = s[j] => i = j
  BY <1>1 DEF IsInjective
<1> HIDE DEF s, n
<1> DEFINE Right(m) == f[m] \in Seq(S) /\ IsInjective(f[m]) /\ ToSet(f[m]) = Until(m)
           G == {m \in Nat : m <= n => Right(m)}
<1>4. 0 \in G
  <2>1. Until(0) = {}  OBVIOUS
  <2>2. Right(0)  BY <1>2, <2>1, EmptyOnce
  <2> QED  BY <2>2
<1>5. ASSUME NEW m \in Nat, m \in G
      PROVE  m + 1 \in G
  <2> SUFFICES ASSUME m + 1 <= n PROVE Right(m + 1)
    OBVIOUS
  <2>1. m <= n /\ m + 1 \in 1 .. n /\ (m + 1) - 1 = m /\ 1 .. m + 1 = (1 .. m) \cup {m + 1}
        /\ \A i \in 1 .. m : i \in 1 .. n /\ i # m + 1
    BY <1>1
  <2>2. Right(m)  BY <1>5, <2>1
  <2>3. Until(m + 1) = Until(m) \cup ({s[m + 1]} \ {e})  BY <2>1
  <2>4. s[m + 1] \notin Until(m)  BY <1>3, <2>1
  <2>5. f[m + 1] = IF s[m + 1] # e THEN Append(f[m], s[m + 1]) ELSE f[m]
    BY <1>2, <2>1
  <2> HIDE DEF Until
  <2>6. CASE s[m + 1] = e
    <3>1. f[m + 1] = f[m] /\ Until(m + 1) = Until(m)  BY <2>3, <2>5, <2>6
    <3> QED  BY <2>2, <3>1
  <2>7. CASE s[m + 1] # e
    <3>1. f[m + 1] = Append(f[m], s[m + 1]) /\ Until(m + 1) = Until(m) \cup {s[m + 1]}
      BY <2>3, <2>5, <2>7
    <3>2. s[m + 1] \in S  BY <1>1, <2>1
    <3>3. /\ Append(f[m], s[m + 1]) \in Seq(S) /\ IsInjective(Append(f[m], s[m + 1]))
          /\ ToSet(Append(f[m], s[m + 1])) = ToSet(f[m]) \cup {s[m + 1]}
      BY <2>2, <2>4, <3>2, AppendOnce
    <3> QED  BY <2>2, <3>1, <3>3
  <2> QED  BY <2>6, <2>7
<1>6. Nat \subseteq G
  <2> HIDE DEF G
  <2> QED  BY <1>4, <1>5, Induction
<1>7. Right(n)
  <2>1. n \in G /\ n <= n
    <3> HIDE DEF G
    <3> QED  BY <1>1, <1>6
  <2> HIDE DEF Right
  <2> QED  BY <2>1
<1>8. Until(n) = ToSet(s) \ {e}
  <2>1. ToSet(s) = {s[i] : i \in 1 .. n}  BY <1>1 DEF ToSet
  <2> QED  BY <2>1
<1> QED  BY <1>0, <1>7, <1>8 DEF s

-----------------------------------------------------------------------------
(* What localed is given is read back as it was.                           *)

LEMMA Triples ==
  ASSUME NEW S, NEW T, NEW U, NEW triple \in S \X T \X U
  PROVE  /\ triple = <<triple[1], triple[2], triple[3]>>
         /\ triple[1] \in S /\ triple[2] \in T /\ triple[3] \in U
OBVIOUS

LEMMA SourceKinds ==
  /\ \A l \in Layouts : /\ l # <<>> /\ Keyboard!IsXkb(l) /\ l[2] \in Words /\ l[3] \in Words
                        /\ l = <<"xkb", l[2], l[3]>>
  /\ \A m \in InputMethods : m # <<>> /\ ~Keyboard!IsXkb(m) /\ m[3] \in Words
  /\ Layouts \cap InputMethods = {}
  /\ \A a, b \in Words : <<"xkb", a, b>> \in Layouts
  /\ ~Keyboard!IsXkb(<<>>)
<1>1. ASSUME NEW l \in Layouts
      PROVE  /\ l # <<>> /\ Keyboard!IsXkb(l) /\ l[2] \in Words /\ l[3] \in Words
             /\ l = <<"xkb", l[2], l[3]>> /\ l[1] = "xkb"
  <2> DEFINE kind == {"xkb"}
  <2>a. l \in kind \X Words \X Words  BY DEF Layouts
  <2> HIDE DEF kind
  <2>b. /\ l = <<l[1], l[2], l[3]>>
        /\ l[1] \in kind /\ l[2] \in Words /\ l[3] \in Words
    BY <2>a, Triples
  <2>c. l[1] = "xkb" /\ l[2] \in Words /\ l[3] \in Words  BY <2>b DEF kind
  <2>1. PICK a \in Words, b \in Words : l = <<"xkb", a, b>>  BY <2>b, <2>c, Zenon
  <2>2. l[1] = "xkb" /\ l[2] = a /\ l[3] = b  BY <2>1
  <2>3. l # <<>>  BY <2>1
  <2> QED  BY <2>1, <2>2, <2>3 DEF Keyboard!IsXkb, Keyboard!NoSource
<1>2. ASSUME NEW m \in InputMethods
      PROVE  m # <<>> /\ ~Keyboard!IsXkb(m) /\ m[3] \in Words /\ m[1] = "ibus"
  <2> DEFINE kind == {"ibus"}
  <2>a. m \in kind \X Words \X Words  BY DEF InputMethods
  <2> HIDE DEF kind
  <2>b. /\ m = <<m[1], m[2], m[3]>>
        /\ m[1] \in kind /\ m[2] \in Words /\ m[3] \in Words
    BY <2>a, Triples
  <2>c. m[1] = "ibus" /\ m[2] \in Words /\ m[3] \in Words  BY <2>b DEF kind
  <2>1. PICK a \in Words, b \in Words : m = <<"ibus", a, b>>  BY <2>b, <2>c, Zenon
  <2>2. m[1] = "ibus" /\ m[3] = b  BY <2>1
  <2>3. m # <<>>  BY <2>1
  <2> QED  BY <2>2, <2>3 DEF Keyboard!IsXkb
<1>3. \A a, b \in Words : <<"xkb", a, b>> \in Layouts  BY DEF Layouts
<1>4. ~Keyboard!IsXkb(<<>>)  BY DEF Keyboard!IsXkb, Keyboard!NoSource
<1>5. Layouts \cap InputMethods = {}
  <2>1. \A l \in Layouts, m \in InputMethods : l # m
    <3>1. "xkb" # "ibus"  OBVIOUS
    <3> QED  BY <1>1, <1>2, <3>1, Zenon
  <2> QED  BY <2>1
<1> QED  BY <1>1, <1>2, <1>3, <1>4, <1>5

LEMMA LayoutsRead ==
  ASSUME NEW x \in X11Properties
  PROVE  Keyboard!get_localed_input(x) \in Seq(Layouts)
<1> DEFINE n == IF x.variants # <<>> /\ Len(x.variants) < Len(x.layouts)
                THEN Len(x.variants) ELSE Len(x.layouts)
           read(i) == <<"xkb", x.layouts[i], IF x.variants = <<>> THEN "" ELSE x.variants[i]>>
<1>1. /\ Len(x.variants) \in Nat /\ Len(x.layouts) \in Nat
      /\ \A i \in 1 .. Len(x.variants) : x.variants[i] \in Words
      /\ \A i \in 1 .. Len(x.layouts) : x.layouts[i] \in Words
  BY LenProperties DEF X11Properties
<1>2. n \in Nat /\ n <= Len(x.layouts) /\ (x.variants # <<>> => n <= Len(x.variants))
  BY <1>1
<1>3. Keyboard!get_localed_input(x) = [i \in 1 .. n |-> read(i)]
  BY DEF Keyboard!get_localed_input
<1> HIDE DEF n
<1>4. ASSUME NEW i \in 1 .. n
      PROVE  read(i) \in Layouts
  <2>1. i \in 1 .. Len(x.layouts) /\ (x.variants # <<>> => i \in 1 .. Len(x.variants))
    BY <1>1, <1>2
  <2>2. x.layouts[i] \in Words /\ (x.variants # <<>> => x.variants[i] \in Words)
    BY <1>1, <2>1
  <2> DEFINE variant == IF x.variants = <<>> THEN "" ELSE x.variants[i]
  <2>3. variant \in Words
    <3>1. CASE x.variants = <<>>
      <4>1. variant = ""  BY <3>1, Zenon
      <4> QED  BY <4>1 DEF Words
    <3>2. CASE x.variants # <<>>
      <4>1. variant = x.variants[i]  BY <3>2, Zenon
      <4> QED  BY <2>2, <3>2, <4>1, Zenon
    <3> QED  BY <3>1, <3>2
  <2> QED  BY <2>2, <2>3, SourceKinds, Zenon
<1> HIDE DEF read
<1> QED  BY <1>2, <1>3, <1>4

LEMMA FunctionIsSeq ==
  ASSUME NEW n \in Nat, NEW S, NEW f \in [1 .. n -> S]
  PROVE  f \in Seq(S) /\ Len(f) = n
OBVIOUS

LEMMA ReadBack ==
  ASSUME NEW s \in Seq(Layouts)
  PROVE  /\ Keyboard!Joined(s) \in X11Properties
         /\ Keyboard!get_localed_input(Keyboard!Joined(s)) = s
         /\ Len(Keyboard!Joined(s).layouts) = Len(s)
<1> DEFINE x == Keyboard!Joined(s)
           n == Len(s)
<1>1. n \in Nat /\ DOMAIN s = 1 .. n /\ s = [i \in 1 .. n |-> s[i]]
      /\ \A i \in 1 .. n : s[i] \in Layouts
  BY LenProperties
<1>2. /\ x = [layouts |-> x.layouts, variants |-> x.variants]
      /\ x.layouts = [i \in 1 .. n |-> s[i][2]]
      /\ x.variants = IF n = 1 /\ s[1][3] = "" THEN <<>> ELSE [i \in 1 .. n |-> s[i][3]]
  BY <1>1 DEF Keyboard!Joined
<1>3. \A i \in 1 .. n : /\ s[i][2] \in Words /\ s[i][3] \in Words
                        /\ s[i] = <<"xkb", s[i][2], s[i][3]>>
  BY <1>1, SourceKinds, Zenon
<1> HIDE DEF x, n
<1>4. x.layouts \in Seq(Words) /\ Len(x.layouts) = n
  <2>1. \A i \in 1 .. n : s[i][2] \in Words  BY <1>3
  <2>2. x.layouts = [i \in 1 .. n |-> s[i][2]]  BY <1>2
  <2>3. x.layouts \in [1 .. n -> Words]  BY <2>1, <2>2
  <2> QED  BY <1>1, <2>3, FunctionIsSeq
<1>5. CASE n = 1 /\ s[1][3] = ""
  <2>1. x.variants = <<>>  BY <1>2, <1>5
  <2>2. x \in X11Properties
    <3>1. x.variants \in Seq(Words)  BY <2>1
    <3> QED  BY <1>2, <1>4, <3>1 DEF X11Properties
  <2>3. Keyboard!get_localed_input(x) = [i \in 1 .. n |-> <<"xkb", x.layouts[i], "">>]
    BY <1>4, <2>1 DEF Keyboard!get_localed_input
  <2>4. ASSUME NEW i \in 1 .. n
        PROVE  <<"xkb", x.layouts[i], "">> = s[i]
    <3>1. n = 1  BY <1>5
    <3>2. i = 1  BY <3>1
    <3>3. x.layouts[i] = s[i][2]  BY <1>2
    <3>4. s[i][3] = ""  BY <1>5, <3>2
    <3> QED  BY <1>3, <3>3, <3>4, Zenon
  <2>5. \A i \in 1 .. n : <<"xkb", x.layouts[i], "">> = s[i]  BY <2>4
  <2>6. Keyboard!get_localed_input(x) = s
    BY <1>1, <2>3, <2>5
  <2> QED  BY <1>4, <2>2, <2>6 DEF x, n
<1>6. CASE ~(n = 1 /\ s[1][3] = "")
  <2>1. x.variants = [i \in 1 .. n |-> s[i][3]]  BY <1>2, <1>6
  <2>2. x.variants \in Seq(Words) /\ Len(x.variants) = n  BY <1>1, <1>3, <2>1
  <2>3. x \in X11Properties  BY <1>2, <1>4, <2>2 DEF X11Properties
  <2>4. Keyboard!get_localed_input(x) =
          [i \in 1 .. n |-> <<"xkb", x.layouts[i], IF x.variants = <<>> THEN "" ELSE x.variants[i]>>]
    <3>1. ~(Len(x.variants) < Len(x.layouts))  BY <1>1, <1>4, <2>2
    <3> QED  BY <1>4, <3>1 DEF Keyboard!get_localed_input
  <2>5. ASSUME NEW i \in 1 .. n
        PROVE  <<"xkb", x.layouts[i], IF x.variants = <<>> THEN "" ELSE x.variants[i]>> = s[i]
    <3>1. n # 0  BY <1>1
    <3>2. x.variants # <<>>  BY <2>2, <3>1, EmptySeq
    <3>3. x.variants[i] = s[i][3] /\ x.layouts[i] = s[i][2]  BY <1>2, <2>1
    <3> QED  BY <1>3, <3>2, <3>3
  <2>6. Keyboard!get_localed_input(x) = s  BY <1>1, <2>4, <2>5
  <2> QED  BY <1>4, <2>3, <2>6 DEF x, n
<1> QED  BY <1>5, <1>6

-----------------------------------------------------------------------------
(* The layouts of the system: what the page holds, ...                     *)

Sources == {<<>>} \cup Layouts \cup InputMethods

SourcesInv ==
  /\ locale_source \in Sources /\ chosen \in Sources /\ rows \subseteq Sources
  /\ system_sources \in Seq(Layouts) /\ IsInjective(system_sources)

(* ... when it has not written yet, ...                                    *)
QuietInv ==
  /\ inputs \in Nat
  /\ localed # "ready" => calls = <<>> /\ x11 \in X11s
  /\ inputs = 0 \/ skipping # "no" => calls = <<>> /\ acquiring = 0 /\ x11 \in X11s
  /\ skipping # "no" => inputs = KeyboardInputs

(* ... what it has written to the session's settings, ...                  *)
SettingsInv ==
  /\ settings \in Seq(Sources)
  /\ settings # <<>> /\ kept =>
       /\ IsInjective(settings)
       /\ IF skipping = "done"
          THEN ToSet(Keyboard!get_localed_input(x11)) \subseteq ToSet(settings)
          ELSE localed = "ready" /\ ToSet(system_sources) \subseteq ToSet(settings)

(* ... and what is on its way to localed.                                  *)
Understood(x) ==
  /\ x \in X11Properties
  /\ IsInjective(Keyboard!get_localed_input(x))
  /\ Len(Keyboard!get_localed_input(x)) = Len(x.layouts)
  /\ ToSet(system_sources) \subseteq ToSet(Keyboard!get_localed_input(x))

CallsInv == calls \in Seq({x \in X11Properties : Understood(x)})

LEMMA ChosenKinds ==
  ASSUME SourcesInv, chosen # <<>>
  PROVE  IF Keyboard!IsXkb(chosen) THEN chosen \in Layouts ELSE chosen \in InputMethods
BY SourceKinds DEF SourcesInv, Sources

LEMMA JoinOthers ==
  ASSUME SourcesInv, NEW l \in Layouts
  PROVE  LET joined == <<l>> \o Keyboard!Others(l) IN
         /\ joined \in Seq(Layouts) /\ IsInjective(joined)
         /\ ToSet(system_sources) \subseteq ToSet(joined)
<1> DEFINE others == Keyboard!Others(l)
<1>1. /\ others \in Seq(Layouts) /\ IsInjective(others)
      /\ ToSet(others) = ToSet(system_sources) \ {l}
  BY OthersAreOthers DEF SourcesInv
<1> HIDE DEF others
<1> DEFINE one == <<l>>
<1>2. one \in Seq(Layouts) /\ IsInjective(one) /\ ToSet(one) = {l}
  BY SingleOnce
<1> HIDE DEF one
<1>3. ToSet(one) \cap ToSet(others) = {}
  BY <1>1, <1>2
<1>4. /\ one \o others \in Seq(Layouts) /\ IsInjective(one \o others)
      /\ ToSet(one \o others) = ToSet(one) \cup ToSet(others)
  BY <1>1, <1>2, <1>3, JoinOnce
<1>5. ToSet(system_sources) \subseteq ToSet(one \o others)
  BY <1>1, <1>2, <1>4
<1> QED  BY <1>4, <1>5 DEF others, one

LEMMA InSources ==
  /\ \A s : s \in Seq(Layouts) => s \in Seq(Sources) /\ ToSet(s) \subseteq Layouts
  /\ \A l \in Layouts \cup InputMethods : l \in Sources
<1>1. Layouts \subseteq Sources /\ InputMethods \subseteq Sources
  BY DEF Sources
<1>2. ASSUME NEW s \in Seq(Layouts)
      PROVE  s \in Seq(Sources) /\ ToSet(s) \subseteq Layouts
  <2>1. Len(s) \in Nat /\ DOMAIN s = 1 .. Len(s) /\ \A i \in DOMAIN s : s[i] \in Layouts
    BY LenProperties
  <2>2. ToSet(s) \subseteq Layouts  BY <2>1 DEF ToSet
  <2>3. s \in Seq(Sources)  BY <1>1
  <2> QED  BY <2>2, <2>3
<1> QED  BY <1>1, <1>2

LEMMA SettingsKeep ==
  ASSUME SourcesInv, chosen # <<>>
  PROVE  LET s == Keyboard!InputSettings IN
         s \in Seq(Sources) /\ IsInjective(s) /\ ToSet(system_sources) \subseteq ToSet(s)
<1>1. CASE Keyboard!IsXkb(chosen)
  <2>1. chosen \in Layouts  BY <1>1, ChosenKinds
  <2>2. Keyboard!InputSettings = <<chosen>> \o Keyboard!Others(chosen)
    BY <1>1 DEF Keyboard!InputSettings
  <2> QED  BY <2>1, <2>2, JoinOthers, InSources
<1>2. CASE ~Keyboard!IsXkb(chosen)
  <2>1. chosen \in InputMethods  BY <1>2, ChosenKinds
  <2>2. Keyboard!InputSettings = system_sources \o <<chosen>>
    BY <1>2 DEF Keyboard!InputSettings
  <2>3. /\ system_sources \in Seq(Sources) /\ IsInjective(system_sources)
        /\ ToSet(system_sources) \subseteq Layouts
    BY InSources DEF SourcesInv
  <2>4. chosen \in Sources  BY <2>1, InSources
  <2> DEFINE one == <<chosen>>
  <2>5. one \in Seq(Sources) /\ IsInjective(one) /\ ToSet(one) = {chosen}
    BY <2>4, SingleOnce
  <2> HIDE DEF one
  <2>6. ToSet(system_sources) \cap ToSet(one) = {}
    BY <2>1, <2>3, <2>5, SourceKinds
  <2>7. /\ system_sources \o one \in Seq(Sources) /\ IsInjective(system_sources \o one)
        /\ ToSet(system_sources \o one) = ToSet(system_sources) \cup ToSet(one)
    BY <2>3, <2>5, <2>6, JoinOnce
  <2> QED  BY <2>2, <2>7 DEF one
<1> QED  BY <1>1, <1>2

LEMMA LocaledUnderstands ==
  ASSUME SourcesInv
  PROVE  Understood(Keyboard!LocaledInput)
<1>1. PICK s : /\ Keyboard!LocaledInput = Keyboard!Joined(s)
               /\ s \in Seq(Layouts) /\ IsInjective(s) /\ ToSet(system_sources) \subseteq ToSet(s)
  <2> DEFINE first == Keyboard!Layout(chosen)
             l == IF Keyboard!IsXkb(chosen) THEN chosen ELSE <<"xkb", chosen[3], "">>
  <2>1. first = <<>> \/ (first = <<l>> /\ l \in Layouts)
    <3>1. CASE Keyboard!IsXkb(chosen) /\ chosen \in AllLayouts
      <4>1. first = <<chosen>> /\ l = chosen  BY <3>1, Zenon DEF Keyboard!Layout
      <4>2. chosen # <<>>  BY <3>1, SourceKinds
      <4> QED  BY <3>1, <4>1, <4>2, ChosenKinds
    <3>2. CASE ~Keyboard!IsXkb(chosen) /\ ibus = "ready" /\ chosen \in Engines
      <4>1. first = <<l>> /\ l = <<"xkb", chosen[3], "">>  BY <3>2 DEF Keyboard!Layout
      <4>2. chosen[3] \in Words  BY <3>2, SourceKinds, SourcesAssumption
      <4>3. "" \in Words  BY DEF Words
      <4> QED  BY <4>1, <4>2, <4>3, SourceKinds, Zenon
    <3>3. CASE ~Keyboard!IsXkb(chosen) /\ ~(ibus = "ready" /\ chosen \in Engines)
      BY <3>3 DEF Keyboard!Layout
    <3>4. CASE Keyboard!IsXkb(chosen) /\ chosen \notin AllLayouts
      BY <3>4 DEF Keyboard!Layout
    <3> QED  BY <3>1, <3>2, <3>3, <3>4
  <2>2. CASE first = <<>>
    <3>1. Keyboard!LocaledInput = Keyboard!Joined(system_sources)
      BY <2>2 DEF Keyboard!LocaledInput
    <3> QED  BY <3>1 DEF SourcesInv
  <2>3. CASE first # <<>>
    <3> HIDE DEF l
    <3>1. first = <<l>> /\ l \in Layouts
      <4> HIDE DEF first
      <4> QED  BY <2>1, <2>3
    <3>2. Keyboard!LocaledInput = Keyboard!Joined(<<l>> \o Keyboard!Others(l))
      <4>1. first[1] = l  BY <3>1
      <4> QED  BY <2>3, <3>1, <4>1, Zenon DEF Keyboard!LocaledInput
    <3> QED  BY <3>1, <3>2, JoinOthers
  <2> QED  BY <2>2, <2>3
<1> QED  BY <1>1, ReadBack DEF Understood

LEMMA KeyboardInit ==
  ASSUME Keyboard!Init
  PROVE  SourcesInv /\ QuietInv /\ SettingsInv /\ CallsInv
<1>1. locale_source \in Sources /\ AllLayouts \cup LocaleLayouts \subseteq Sources
  BY SourcesAssumption DEF Keyboard!Init, Sources
<1>2. chosen = locale_source /\ rows \subseteq Sources
  BY <1>1 DEF Keyboard!Init, Keyboard!ChooserInit, Keyboard!LocaleRows
<1>3. /\ system_sources = <<>> /\ settings = <<>> /\ calls = <<>> /\ x11 \in X11s
      /\ inputs = 0 /\ acquiring = 0 /\ localed = "connecting" /\ skipping = "no"
  BY DEF Keyboard!Init
<1>4. SourcesInv  BY <1>1, <1>2, <1>3, EmptyOnce DEF SourcesInv
<1>5. QuietInv  BY <1>3 DEF QuietInv
<1>6. SettingsInv  BY <1>3, EmptyOnce DEF SettingsInv
<1>7. CallsInv  BY <1>3, EmptyOnce DEF CallsInv
<1> QED  BY <1>4, <1>5, <1>6, <1>7

LEMMA QuietStep ==
  ASSUME QuietInv, [Keyboard!Next]_(Keyboard!vars)
  PROVE  QuietInv'
<1> USE DEF QuietInv
<1>1. CASE Keyboard!LocaledReady
  BY <1>1 DEF Keyboard!LocaledReady, Keyboard!system
<1>2. ASSUME NEW source, Keyboard!RowActivated(source)
      PROVE  QuietInv'
  <2>1. /\ inputs < KeyboardInputs /\ inputs' = inputs + 1
        /\ UNCHANGED <<localed, skipping, calls, x11>>
    BY <1>2 DEF Keyboard!RowActivated, Keyboard!Input, Keyboard!system
  <2>2. inputs' \in Nat /\ inputs' # 0 /\ inputs # KeyboardInputs
    BY <2>1, BoundAssumption
  <2> QED  BY <2>1, <2>2
<1>3. CASE Keyboard!Apply
  <2>1. /\ inputs < KeyboardInputs /\ inputs' = inputs + 1
        /\ localed # "ready" => calls' = calls
        /\ UNCHANGED <<localed, skipping, x11>>
    BY <1>3 DEF Keyboard!Apply, Keyboard!Input
  <2>2. inputs' \in Nat /\ inputs' # 0 /\ inputs # KeyboardInputs
    BY <2>1, BoundAssumption
  <2> QED  BY <2>1, <2>2
<1>4. ASSUME NEW allowed \in BOOLEAN, Keyboard!PermissionAcquired(allowed)
      PROVE  QuietInv'
  <2>1. /\ acquiring # 0
        /\ localed # "ready" => calls' = calls
        /\ UNCHANGED <<localed, skipping, x11, inputs>>
    BY <1>4 DEF Keyboard!PermissionAcquired
  <2> QED  BY <2>1
<1>5. CASE Keyboard!Served
  BY <1>5 DEF Keyboard!Served
<1>6. CASE Keyboard!Skip
  BY <1>6, BoundAssumption DEF Keyboard!Skip, Keyboard!system
<1>7. CASE Keyboard!SkipReady
  BY <1>7 DEF Keyboard!SkipReady, Keyboard!system
<1>8. ASSUME \/ Keyboard!LocaledFailed \/ Keyboard!IbusConnected \/ Keyboard!EnginesListed
             \/ Keyboard!EnginesFailed \/ Keyboard!ShowMore \/ Keyboard!Dispose
             \/ UNCHANGED Keyboard!vars
      PROVE  QuietInv'
  <2>1. /\ UNCHANGED <<calls, x11, skipping, acquiring, inputs>>
        /\ localed' # "ready" => localed # "ready"
    BY <1>8
    DEF Keyboard!LocaledFailed, Keyboard!IbusConnected, Keyboard!EnginesListed,
        Keyboard!EnginesFailed, Keyboard!ShowMore, Keyboard!Dispose, Keyboard!vars, Keyboard!system
  <2> QED  BY <2>1
<1> QED  BY <1>1, <1>2, <1>3, <1>4, <1>5, <1>6, <1>7, <1>8 DEF Keyboard!Next

(* What is preselected is a source, and one of those it is made from.      *)
LEMMA PreselectedSource ==
  ASSUME SourcesInv, NEW s \in Seq(Layouts)
  PROVE  Keyboard!Preselected(s) \in Sources
<1>1. s # <<>> => Head(s) \in Sources
  <2>1. s # <<>> => Head(s) \in Layouts  OBVIOUS
  <2> QED  BY <2>1, InSources
<1> QED  BY <1>1 DEF SourcesInv, Keyboard!Preselected

LEMMA SourcesStep ==
  ASSUME SourcesInv, QuietInv, [Keyboard!Next]_(Keyboard!vars)
  PROVE  SourcesInv'
<1>1. CASE Keyboard!LocaledReady
  <2>1. /\ localed # "ready" /\ system_sources' = Keyboard!get_localed_input(x11)
        /\ chosen' = Keyboard!Preselected(system_sources')
        /\ UNCHANGED <<locale_source, rows>>
    BY <1>1 DEF Keyboard!LocaledReady, Keyboard!Choose
  <2>2. x11 \in X11s  BY <2>1 DEF QuietInv
  <2>3. system_sources' \in Seq(Layouts) /\ IsInjective(system_sources')
    BY <2>1, <2>2, X11sAssumption, LayoutsRead
  <2>4. chosen' \in Sources  BY <2>1, <2>3, PreselectedSource
  <2> QED  BY <2>1, <2>3, <2>4 DEF SourcesInv
<1>2. ASSUME NEW source \in rows, Keyboard!RowActivated(source)
      PROVE  SourcesInv'
  BY <1>2 DEF Keyboard!RowActivated, Keyboard!Choose, SourcesInv
<1>3. CASE Keyboard!EnginesListed
  <2>1. rows' = rows \cup Engines /\ UNCHANGED <<locale_source, chosen, system_sources>>
    BY <1>3 DEF Keyboard!EnginesListed
  <2>2. Engines \subseteq Sources  BY SourcesAssumption DEF Sources
  <2> QED  BY <2>1, <2>2 DEF SourcesInv
<1>4. ASSUME \/ Keyboard!LocaledFailed \/ Keyboard!IbusConnected \/ Keyboard!EnginesFailed
             \/ Keyboard!ShowMore \/ Keyboard!Apply \/ Keyboard!Served \/ Keyboard!Skip
             \/ Keyboard!SkipReady \/ Keyboard!Dispose
             \/ (\E allowed \in BOOLEAN : Keyboard!PermissionAcquired(allowed))
             \/ UNCHANGED Keyboard!vars
      PROVE  SourcesInv'
  <2>1. UNCHANGED <<locale_source, chosen, rows, system_sources>>
    BY <1>4
    DEF Keyboard!LocaledFailed, Keyboard!IbusConnected, Keyboard!EnginesFailed, Keyboard!ShowMore,
        Keyboard!Apply, Keyboard!Served, Keyboard!Skip, Keyboard!SkipReady, Keyboard!Dispose,
        Keyboard!PermissionAcquired, Keyboard!vars, Keyboard!list
  <2> QED  BY <2>1 DEF SourcesInv
<1> QED  BY <1>1, <1>2, <1>3, <1>4 DEF Keyboard!Next

LEMMA SettingsStep ==
  ASSUME SourcesInv, QuietInv, SettingsInv, [Keyboard!Next]_(Keyboard!vars)
  PROVE  SettingsInv'
<1>1. CASE Keyboard!Apply
  <2>1. /\ chosen # <<>> /\ settings' = Keyboard!InputSettings /\ kept' = (localed = "ready")
        /\ inputs < KeyboardInputs /\ UNCHANGED <<localed, skipping, system_sources>>
    BY <1>1 DEF Keyboard!Apply, Keyboard!Input, Keyboard!NoSource
  <2>2. skipping # "done"
    <3>1. inputs # KeyboardInputs  BY <2>1, BoundAssumption
    <3> QED  BY <3>1 DEF QuietInv
  <2>3. /\ settings' \in Seq(Sources) /\ IsInjective(settings')
        /\ ToSet(system_sources) \subseteq ToSet(settings')
    BY <2>1, SettingsKeep
  <2> QED  BY <2>1, <2>2, <2>3 DEF SettingsInv
<1>2. CASE Keyboard!SkipReady
  <2> DEFINE read == Keyboard!get_localed_input(x11)
             own == IF locale_source = <<>> \/ Keyboard!IsXkb(locale_source) THEN <<>>
                    ELSE <<locale_source>>
  <2>1. settings' = read \o own /\ x11' = x11 /\ skipping' = "done" /\ skipping = "asked"
    BY <1>2 DEF Keyboard!SkipReady, Keyboard!system, Keyboard!NoSource
  <2>2. x11 \in X11s  BY <2>1 DEF QuietInv
  <2>3. read \in Seq(Layouts) /\ IsInjective(read)
    BY <2>2, X11sAssumption, LayoutsRead
  <2>4. read \in Seq(Sources) /\ ToSet(read) \subseteq Layouts
    BY <2>3, InSources
  <2>5. own \in Seq(Sources) /\ IsInjective(own) /\ ToSet(own) \cap Layouts = {}
    <3>1. CASE locale_source = <<>> \/ Keyboard!IsXkb(locale_source)
      BY <3>1, EmptyOnce
    <3>2. CASE locale_source # <<>> /\ ~Keyboard!IsXkb(locale_source)
      <4>1. locale_source \in Sources /\ locale_source \notin Layouts
        BY <3>2, SourceKinds DEF SourcesInv
      <4>2. own = <<locale_source>>  BY <3>2
      <4> HIDE DEF own
      <4> QED  BY <4>1, <4>2, SingleOnce
    <3> QED  BY <3>1, <3>2
  <2> HIDE DEF read, own
  <2>6. ToSet(read) \cap ToSet(own) = {}  BY <2>4, <2>5
  <2>7. /\ settings' \in Seq(Sources) /\ IsInjective(settings')
        /\ ToSet(settings') = ToSet(read) \cup ToSet(own)
    BY <2>1, <2>3, <2>4, <2>5, <2>6, JoinOnce
  <2>8. Keyboard!get_localed_input(x11)' = read  BY <2>1 DEF read, Keyboard!get_localed_input
  <2> QED  BY <2>1, <2>7, <2>8 DEF SettingsInv
<1>3. CASE Keyboard!LocaledReady
  <2>1. localed # "ready" /\ localed' = "ready" /\ UNCHANGED <<settings, kept, x11, skipping>>
    BY <1>3 DEF Keyboard!LocaledReady, Keyboard!written, Keyboard!system
  <2>2. Keyboard!get_localed_input(x11)' = Keyboard!get_localed_input(x11)
    BY <2>1 DEF Keyboard!get_localed_input
  <2> QED  BY <2>1, <2>2 DEF SettingsInv
<1>4. CASE Keyboard!Served
  <2>1. calls # <<>> /\ UNCHANGED <<settings, kept, skipping, localed, system_sources>>
    BY <1>4 DEF Keyboard!Served, Keyboard!written
  <2>2. skipping # "done"  BY <2>1 DEF QuietInv
  <2> QED  BY <2>1, <2>2 DEF SettingsInv
<1>5. CASE Keyboard!Skip
  <2>1. /\ skipping = "no" /\ skipping' = "asked"
        /\ UNCHANGED <<settings, kept, localed, system_sources>>
    BY <1>5 DEF Keyboard!Skip, Keyboard!written
  <2> QED  BY <2>1 DEF SettingsInv
<1>6. ASSUME \/ Keyboard!LocaledFailed \/ Keyboard!IbusConnected \/ Keyboard!EnginesListed
             \/ Keyboard!EnginesFailed \/ Keyboard!ShowMore \/ Keyboard!Dispose
             \/ (\E source \in rows : Keyboard!RowActivated(source))
             \/ (\E allowed \in BOOLEAN : Keyboard!PermissionAcquired(allowed))
             \/ UNCHANGED Keyboard!vars
      PROVE  SettingsInv'
  <2>1. /\ UNCHANGED <<settings, kept, x11, skipping, system_sources>>
        /\ localed = "ready" => localed' = "ready"
    BY <1>6
    DEF Keyboard!LocaledFailed, Keyboard!IbusConnected, Keyboard!EnginesListed,
        Keyboard!EnginesFailed, Keyboard!ShowMore, Keyboard!Dispose, Keyboard!RowActivated,
        Keyboard!PermissionAcquired, Keyboard!vars, Keyboard!written, Keyboard!system
  <2>2. Keyboard!get_localed_input(x11)' = Keyboard!get_localed_input(x11)
    BY <2>1 DEF Keyboard!get_localed_input
  <2> QED  BY <2>1, <2>2 DEF SettingsInv
<1> QED  BY <1>1, <1>2, <1>3, <1>4, <1>5, <1>6 DEF Keyboard!Next

LEMMA CallsStep ==
  ASSUME SourcesInv, QuietInv, CallsInv, [Keyboard!Next]_(Keyboard!vars)
  PROVE  CallsInv'
<1> DEFINE Good == {x \in X11Properties : Understood(x)}
<1>1. ASSUME system_sources' = system_sources
      PROVE  {x \in X11Properties : Understood(x)}' = Good
  BY <1>1 DEF Understood, Keyboard!get_localed_input
<1>2. Keyboard!LocaledInput \in Good
  BY LocaledUnderstands DEF Understood
<1>3. calls \in Seq(Good)  BY DEF CallsInv
<1> HIDE DEF Good
<1>4. Append(calls, Keyboard!LocaledInput) \in Seq(Good)
  BY <1>2, <1>3
<1>5. CASE Keyboard!LocaledReady
  <2>1. localed # "ready" /\ calls' = calls
    BY <1>5 DEF Keyboard!LocaledReady, Keyboard!system
  <2>2. calls' = <<>>  BY <2>1 DEF QuietInv
  <2> QED  BY <2>2, EmptyOnce DEF CallsInv
<1>6. CASE Keyboard!Apply
  <2>1. /\ calls' = calls \/ calls' = Append(calls, Keyboard!LocaledInput)
        /\ system_sources' = system_sources
    BY <1>6 DEF Keyboard!Apply
  <2> QED  BY <1>1, <1>3, <1>4, <2>1 DEF CallsInv
<1>7. ASSUME NEW allowed \in BOOLEAN, Keyboard!PermissionAcquired(allowed)
      PROVE  CallsInv'
  <2>1. /\ calls' = calls \/ calls' = Append(calls, Keyboard!LocaledInput)
        /\ system_sources' = system_sources
    BY <1>7 DEF Keyboard!PermissionAcquired
  <2> QED  BY <1>1, <1>3, <1>4, <2>1 DEF CallsInv
<1>8. CASE Keyboard!Served
  <2>1. calls # <<>> /\ calls' = Tail(calls) /\ system_sources' = system_sources
    BY <1>8 DEF Keyboard!Served
  <2>2. Tail(calls) \in Seq(Good)  BY <1>3, <2>1
  <2> QED  BY <1>1, <2>1, <2>2 DEF CallsInv
<1>9. ASSUME \/ Keyboard!LocaledFailed \/ Keyboard!IbusConnected \/ Keyboard!EnginesListed
             \/ Keyboard!EnginesFailed \/ Keyboard!ShowMore \/ Keyboard!Skip \/ Keyboard!SkipReady
             \/ Keyboard!Dispose \/ (\E source \in rows : Keyboard!RowActivated(source))
             \/ UNCHANGED Keyboard!vars
      PROVE  CallsInv'
  <2>1. UNCHANGED <<calls, system_sources>>
    BY <1>9
    DEF Keyboard!LocaledFailed, Keyboard!IbusConnected, Keyboard!EnginesListed,
        Keyboard!EnginesFailed, Keyboard!ShowMore, Keyboard!Skip, Keyboard!SkipReady,
        Keyboard!Dispose, Keyboard!RowActivated, Keyboard!vars, Keyboard!system
  <2> QED  BY <1>1, <1>3, <2>1 DEF CallsInv
<1> QED  BY <1>5, <1>6, <1>7, <1>8, <1>9 DEF Keyboard!Next

KeyboardInv == page = "keyboard" => SourcesInv /\ QuietInv /\ SettingsInv /\ CallsInv

LEMMA KeyboardInductive ==
  /\ Init => KeyboardInv
  /\ KeyboardInv /\ [Next]_vars => KeyboardInv'
<1>1. Init => KeyboardInv  BY PageInit, KeyboardInit DEF KeyboardInv
<1>2. KeyboardInv /\ [Next]_vars => KeyboardInv'
  BY PageStep, SourcesStep, QuietStep, SettingsStep, CallsStep DEF KeyboardInv
<1> QED  BY <1>1, <1>2

(* add_default_input_sources and set_input_settings put what is wanted to  *)
(* the system's layouts, before or behind them: none of them is lost and   *)
(* none there twice, whenever localed has answered, and for any number of  *)
(* layouts.                                                                *)
THEOREM LayoutsKept == Spec => []SystemLayoutsKept
<1>1. KeyboardInv => SystemLayoutsKept
  <2> SUFFICES ASSUME SettingsInv, settings # <<>>, kept
               PROVE  /\ Cardinality(ToSet(settings)) = Len(settings)
                      /\ ToSet(IF skipping = "done" THEN Keyboard!get_localed_input(x11)
                               ELSE system_sources) \subseteq ToSet(settings)
    BY KeyboardSequences DEF KeyboardInv, SystemLayoutsKept, Keyboard!SystemLayoutsKept
  <2>1. settings \in Seq(Sources) /\ IsInjective(settings)  BY DEF SettingsInv
  <2>2. Cardinality(ToSet(settings)) = Len(settings)  BY <2>1, CountOnce
  <2> QED  BY <2>2 DEF SettingsInv
<1> QED  BY KeyboardInductive, <1>1, PTL DEF Spec

(* set_localed_input's two strings are what get_localed_input makes the    *)
(* same layouts of, an empty variant and a permission that comes late      *)
(* included; and preselect_input_source guesses as its comment says.       *)
THEOREM SystemUnderstood == Spec => LocaledUnderstood
<1>1. ASSUME KeyboardInv, [Next]_vars, page = "keyboard"
      PROVE  /\ x11' # x11 => Keyboard!ReadsBack
             /\ localed # "ready" /\ localed' = "ready" => Keyboard!GuessIsBest
  <2>1. [Keyboard!Next]_(Keyboard!vars)  BY <1>1, PageStep
  <2>2. SourcesInv /\ QuietInv /\ CallsInv  BY <1>1 DEF KeyboardInv
  <2>3. ASSUME x11' # x11
        PROVE  Keyboard!ReadsBack
    <3>1. Keyboard!Served
      BY <2>1, <2>3
      DEF Keyboard!Next, Keyboard!vars, Keyboard!system, Keyboard!LocaledReady,
          Keyboard!LocaledFailed, Keyboard!IbusConnected, Keyboard!EnginesListed,
          Keyboard!EnginesFailed, Keyboard!ShowMore, Keyboard!Apply, Keyboard!Skip,
          Keyboard!SkipReady, Keyboard!Dispose, Keyboard!RowActivated,
          Keyboard!PermissionAcquired
    <3>2. calls # <<>> /\ x11' = Head(calls)  BY <3>1 DEF Keyboard!Served
    <3>3. x11' \in {x \in X11Properties : Understood(x)}
      <4> DEFINE Good == {x \in X11Properties : Understood(x)}
      <4>1. calls \in Seq(Good)  BY <2>2 DEF CallsInv
      <4> HIDE DEF Good
      <4>2. x11' \in Good  BY <3>2, <4>1
      <4> QED  BY <4>2 DEF Good
    <3> DEFINE y == x11'
               read == Keyboard!get_localed_input(y)
    <3>4. /\ read \in Seq(Layouts) /\ IsInjective(read) /\ Len(read) = Len(y.layouts)
          /\ ToSet(system_sources) \subseteq ToSet(read)
      BY <3>3, LayoutsRead DEF Understood
    <3>5. Cardinality(ToSet(read)) = Len(read)  BY <3>4, CountOnce
    <3> QED  BY <3>4, <3>5, KeyboardSequences DEF Keyboard!ReadsBack
  <2>4. ASSUME localed # "ready", localed' = "ready"
        PROVE  Keyboard!GuessIsBest
    <3>1. Keyboard!LocaledReady
      BY <2>1, <2>4
      DEF Keyboard!Next, Keyboard!vars, Keyboard!Served,
          Keyboard!LocaledFailed, Keyboard!IbusConnected, Keyboard!EnginesListed,
          Keyboard!EnginesFailed, Keyboard!ShowMore, Keyboard!Apply, Keyboard!Skip,
          Keyboard!SkipReady, Keyboard!Dispose, Keyboard!RowActivated,
          Keyboard!PermissionAcquired
    <3>2. /\ chosen' = Keyboard!Preselected(system_sources')
          /\ system_sources' = Keyboard!get_localed_input(x11)
      BY <3>1 DEF Keyboard!LocaledReady, Keyboard!Choose
    <3>3. ASSUME system_sources' # <<>>
          PROVE  Head(system_sources') = system_sources'[1]
      OBVIOUS
    <3>4. CASE locale_source # <<>> /\ ~Keyboard!IsXkb(locale_source)
      <4>1. chosen' = locale_source
        BY <3>2, <3>4, Zenon DEF Keyboard!Preselected, Keyboard!NoSource
      <4> QED  BY <3>4, <4>1 DEF Keyboard!GuessIsBest
    <3>5. CASE (locale_source = <<>> \/ Keyboard!IsXkb(locale_source)) /\ system_sources' # <<>>
      <4>1. chosen' = Head(system_sources')
        BY <3>2, <3>5 DEF Keyboard!Preselected, Keyboard!NoSource
      <4> QED  BY <3>3, <3>5, <4>1 DEF Keyboard!GuessIsBest, Keyboard!NoSource
    <3>6. CASE (locale_source = <<>> \/ Keyboard!IsXkb(locale_source)) /\ system_sources' = <<>>
      BY <3>6 DEF Keyboard!GuessIsBest, Keyboard!NoSource
    <3> QED  BY <3>4, <3>5, <3>6
  <2> QED  BY <2>3, <2>4
<1>2. KeyboardInv /\ [Next]_vars =>
        (page = "keyboard" => /\ x11' # x11 => Keyboard!ReadsBack
                              /\ localed # "ready" /\ localed' = "ready" => Keyboard!GuessIsBest)
  BY <1>1
<1> QED  BY KeyboardInductive, <1>2, PTL DEF Spec, LocaledUnderstood

-----------------------------------------------------------------------------
(* The applications: the loops of gis_app_page_populate_featured_snaps.    *)

LEMMA RangeOfAppend ==
  ASSUME NEW S, NEW s \in Seq(S), NEW e \in S
  PROVE  /\ Append(s, e) \in Seq(S)
         /\ Apps!Range(Append(s, e)) = Apps!Range(s) \cup {e}
<1>1. Len(s) \in Nat /\ DOMAIN s = 1 .. Len(s)
  BY LenProperties
<1>2. /\ Append(s, e) \in Seq(S) /\ DOMAIN Append(s, e) = 1 .. Len(s) + 1
      /\ \A i \in 1 .. Len(s) : Append(s, e)[i] = s[i]
      /\ Append(s, e)[Len(s) + 1] = e
  BY <1>1
<1> DEFINE w == Append(s, e)
           n == Len(s)
<1> HIDE DEF w, n
<1>3. 1 .. n + 1 = (1 .. n) \cup {n + 1}
  BY <1>1 DEF n
<1>4. Apps!Range(w) = {w[i] : i \in 1 .. n} \cup {w[n + 1]}
  BY <1>2, <1>3 DEF Apps!Range, w, n
<1>5. {w[i] : i \in 1 .. n} = {s[i] : i \in 1 .. n}
  BY <1>2 DEF w, n
<1> QED  BY <1>1, <1>2, <1>4, <1>5 DEF Apps!Range, w, n

(* gis_app_page_populate_featured_snaps goes through the snaps, ...        *)
Wants(f, snaps, installed) ==
  /\ f[0] = <<>>
  /\ \A i \in 1 .. Len(snaps) :
       f[i] = IF snaps[i] \in installed \/ snaps[i] = "firefox" THEN f[i - 1]
              ELSE Append(f[i - 1], snaps[i])

LEMMA WantedLoop ==
  ASSUME NEW S, NEW snaps \in Seq(S), NEW installed
  PROVE  \E f : Wants(f, snaps, installed) /\ Apps!Wanted(snaps, installed) = f[Len(snaps)]
<1> DEFINE n == Len(snaps)
           E(g, i) == IF i = 0 THEN <<>>
                      ELSE IF snaps[i] \in installed \/ snaps[i] = "firefox" THEN g[i - 1]
                      ELSE Append(g[i - 1], snaps[i])
           F == CHOOSE g : g = [i \in 0 .. n |-> E(g, i)]
           step == [i \in 1 .. n |-> [s \in Seq(S) |->
                     IF snaps[i] \in installed \/ snaps[i] = "firefox" THEN s
                     ELSE Append(s, snaps[i])]]
<1>1. Apps!Wanted(snaps, installed) = F[n]
  BY DEF Apps!Wanted
<1>2. n \in Nat /\ \A i \in 1 .. n : snaps[i] \in S
  BY LenProperties
<1>3. step \in [1 .. n -> [Seq(S) -> Seq(S)]]
  BY <1>2
<1>4. PICK f \in [0 .. n -> Seq(S)] : Runs(f, <<>>, step, n)
  <2> HIDE DEF step, n
  <2>1. <<>> \in Seq(S)  OBVIOUS
  <2> QED  BY <1>2, <1>3, <2>1, RunExists
<1>5. ASSUME NEW i \in 0 .. n PROVE f[i] = E(f, i)
  <2>1. CASE i = 0  BY <1>4, <2>1 DEF Runs
  <2>2. CASE i # 0
    <3>1. i \in 1 .. n /\ f[i - 1] \in Seq(S)  BY <1>2, <2>2
    <3>2. f[i] = step[i][f[i - 1]]  BY <1>4, <3>1 DEF Runs
    <3> QED  BY <2>2, <3>1, <3>2
  <2> QED  BY <2>1, <2>2
<1> HIDE DEF E, n
<1>6. f = [i \in 0 .. n |-> E(f, i)]
  BY <1>4, <1>5
<1>7. F = [i \in 0 .. n |-> E(F, i)]
  BY <1>6
<1> HIDE DEF F
<1>8. \A i \in 0 .. n : F[i] = E(F, i)
  BY <1>7
<1>9. F[0] = <<>>
  <2>1. 0 \in 0 .. n  BY <1>2
  <2> QED  BY <1>8, <2>1 DEF E
<1>10. ASSUME NEW i \in 1 .. n
       PROVE  F[i] = IF snaps[i] \in installed \/ snaps[i] = "firefox" THEN F[i - 1]
                     ELSE Append(F[i - 1], snaps[i])
  <2>1. i \in 0 .. n /\ i # 0  BY <1>2
  <2> QED  BY <1>8, <2>1 DEF E
<1>11. Wants(F, snaps, installed)
  BY <1>9, <1>10 DEF Wants, n
<1> QED  BY <1>1, <1>11 DEF n

(* ... and leaves out those that are installed and firefox, no other.      *)
LEMMA WantedAreWanted ==
  ASSUME NEW S, NEW snaps \in Seq(S), NEW installed
  PROVE  /\ Apps!Wanted(snaps, installed) \in Seq(S)
         /\ Apps!Range(Apps!Wanted(snaps, installed)) = Apps!Range(snaps) \ (installed \cup {"firefox"})
         /\ snaps = <<>> => Apps!Wanted(snaps, installed) = <<>>
<1> DEFINE n == Len(snaps)
           Not == installed \cup {"firefox"}
           Until(m) == {snaps[i] : i \in 1 .. m} \ Not
<1>1. n \in Nat /\ DOMAIN snaps = 1 .. n /\ \A i \in 1 .. n : snaps[i] \in S
  BY LenProperties
<1>0. PICK f : Wants(f, snaps, installed) /\ Apps!Wanted(snaps, installed) = f[n]
  BY WantedLoop
<1>2. /\ f[0] = <<>>
      /\ \A i \in 1 .. n : f[i] = IF snaps[i] \in Not THEN f[i - 1] ELSE Append(f[i - 1], snaps[i])
  BY <1>0 DEF Wants
<1>9. snaps = <<>> => n = 0  OBVIOUS
<1>10. Apps!Range(snaps) = {snaps[i] : i \in 1 .. n}
  BY <1>1 DEF Apps!Range
<1> HIDE DEF n, Not
<1> DEFINE Right(m) == f[m] \in Seq(S) /\ Apps!Range(f[m]) = Until(m)
           G == {m \in Nat : m <= n => Right(m)}
<1>3. 0 \in G
  <2>1. Until(0) = {}  OBVIOUS
  <2>2. Apps!Range(<<>>) = {} /\ <<>> \in Seq(S)  BY DEF Apps!Range
  <2>3. Right(0)  BY <1>2, <2>1, <2>2
  <2> QED  BY <2>3
<1>4. ASSUME NEW m \in Nat, m \in G
      PROVE  m + 1 \in G
  <2> SUFFICES ASSUME m + 1 <= n PROVE Right(m + 1)
    OBVIOUS
  <2>1. m <= n /\ m + 1 \in 1 .. n /\ (m + 1) - 1 = m /\ 1 .. m + 1 = (1 .. m) \cup {m + 1}
    BY <1>1
  <2>2. Right(m)  BY <1>4, <2>1
  <2>3. Until(m + 1) = Until(m) \cup ({snaps[m + 1]} \ Not)  BY <2>1
  <2>4. f[m + 1] = IF snaps[m + 1] \in Not THEN f[m] ELSE Append(f[m], snaps[m + 1])
    BY <1>2, <2>1
  <2> HIDE DEF Until
  <2>5. CASE snaps[m + 1] \in Not
    <3>1. f[m + 1] = f[m] /\ Until(m + 1) = Until(m)  BY <2>3, <2>4, <2>5
    <3> QED  BY <2>2, <3>1
  <2>6. CASE snaps[m + 1] \notin Not
    <3>1. f[m + 1] = Append(f[m], snaps[m + 1]) /\ Until(m + 1) = Until(m) \cup {snaps[m + 1]}
      BY <2>3, <2>4, <2>6
    <3>2. snaps[m + 1] \in S  BY <1>1, <2>1
    <3>3. /\ Append(f[m], snaps[m + 1]) \in Seq(S)
          /\ Apps!Range(Append(f[m], snaps[m + 1])) = Apps!Range(f[m]) \cup {snaps[m + 1]}
      BY <2>2, <3>2, RangeOfAppend
    <3> QED  BY <2>2, <3>1, <3>3
  <2> QED  BY <2>5, <2>6
<1>5. Nat \subseteq G
  <2> HIDE DEF G
  <2> QED  BY <1>3, <1>4, Induction
<1>6. Right(n)
  <2>1. n \in G /\ n <= n
    <3> HIDE DEF G
    <3> QED  BY <1>1, <1>5
  <2> HIDE DEF Right
  <2> QED  BY <2>1
<1>7. snaps = <<>> => f[n] = <<>>
  BY <1>2, <1>9
<1> QED  BY <1>0, <1>6, <1>7, <1>10 DEF Not

-----------------------------------------------------------------------------
(* The boxes hold the first m tiles, all but the last are full.            *)
Holds(boxes, tiles, m) ==
  LET L == Len(boxes) IN
  /\ L * PerBox >= m /\ L * PerBox < m + PerBox
  /\ \A b \in 1 .. L :
       /\ Len(boxes[b]) = IF b = L THEN m - (L - 1) * PerBox ELSE PerBox
       /\ \A i \in 1 .. Len(boxes[b]) : boxes[b][i] = tiles[(b - 1) * PerBox + i]

LEMMA AddTile ==
  ASSUME NEW T, NEW boxes \in Seq(Seq(T)), NEW tile \in T
  PROVE  /\ Apps!add_tile(boxes, tile) \in Seq(Seq(T))
         /\ boxes # <<>> => Len(boxes) \in 1 .. Len(boxes) /\ boxes[Len(boxes)] \in Seq(T)
<1> DEFINE L == Len(boxes)
<1>1. L \in Nat /\ (boxes # <<>> => L \in 1 .. L) /\ \A b \in 1 .. L : boxes[b] \in Seq(T)
  BY LenProperties, EmptySeq
<1>2. <<tile>> \in Seq(T)  OBVIOUS
<1>3. CASE boxes = <<>> \/ Len(boxes[L]) >= PerBox
  <2>1. Apps!add_tile(boxes, tile) = Append(boxes, <<tile>>)  BY <1>3 DEF Apps!add_tile
  <2> QED  BY <1>1, <1>2, <2>1
<1>4. CASE ~(boxes = <<>> \/ Len(boxes[L]) >= PerBox)
  <2>1. Apps!add_tile(boxes, tile) = [boxes EXCEPT ![L] = Append(boxes[L], tile)]
    BY <1>4 DEF Apps!add_tile
  <2>2. L \in 1 .. L /\ Append(boxes[L], tile) \in Seq(T)  BY <1>1, <1>4
  <2> DEFINE last == Append(boxes[L], tile)
  <2> HIDE DEF last, L
  <2>3. [boxes EXCEPT ![L] = last] \in Seq(Seq(T))
    BY <2>2, ExceptSeq DEF L, last
  <2> QED  BY <1>1, <2>1, <2>3 DEF last
<1> QED  BY <1>3, <1>4, <1>1

LEMMA AddTileHolds ==
  ASSUME NEW T, NEW boxes \in Seq(Seq(T)), NEW tiles \in Seq(T),
         NEW m \in 0 .. Len(tiles) - 1, Holds(boxes, tiles, m)
  PROVE  Holds(Apps!add_tile(boxes, tiles[m + 1]), tiles, m + 1)
<1> DEFINE L == Len(boxes)
           P == PerBox
           tile == tiles[m + 1]
           new == Apps!add_tile(boxes, tile)
<1>1. /\ L \in Nat /\ P \in Nat \ {0} /\ m \in Nat /\ m + 1 \in 1 .. Len(tiles) /\ tile \in T
      /\ \A b \in 1 .. L : boxes[b] \in Seq(T) /\ Len(boxes[b]) \in Nat
      /\ boxes = <<>> => L = 0
  BY SnapsAssumption, LenProperties
<1>2. /\ L * P \in Nat /\ L * P >= m /\ L * P < m + P
      /\ \A b \in 1 .. L :
           /\ Len(boxes[b]) = IF b = L THEN m - (L - 1) * P ELSE P
           /\ \A i \in 1 .. Len(boxes[b]) : boxes[b][i] = tiles[(b - 1) * P + i]
  BY <1>1 DEF Holds
<1>3. (L + 1) * P = L * P + P /\ (L - 1) * P = L * P - P /\ (L + 1) - 1 = L /\ (L = 0 => L * P = 0)
  BY <1>1
<1> HIDE DEF L, P, tile
<1>4. CASE boxes = <<>> \/ Len(boxes[L]) >= P
  <2>1. new = Append(boxes, <<tile>>)  BY <1>4 DEF Apps!add_tile, L, P
  <2>2. L * P = m
    <3>1. CASE L = 0  BY <1>1, <1>2, <1>3, <3>1
    <3>2. CASE L # 0
      <4>1. L \in 1 .. L /\ boxes # <<>>  BY <1>1, <3>2 DEF L
      <4>2. Len(boxes[L]) = m - (L - 1) * P  BY <1>2, <4>1
      <4> QED  BY <1>1, <1>2, <1>3, <1>4, <4>1, <4>2
    <3> QED  BY <3>1, <3>2
  <2>3. /\ Len(new) = L + 1 /\ new[L + 1] = <<tile>>
        /\ \A b \in 1 .. L : new[b] = boxes[b]
    BY <1>1, <2>1 DEF L
  <2> HIDE DEF new
  <2>4. (L + 1) * P >= m + 1 /\ (L + 1) * P < (m + 1) + P
    BY <1>1, <1>3, <2>2
  <2>5. ASSUME NEW b \in 1 .. L + 1
        PROVE  /\ Len(new[b]) = IF b = L + 1 THEN (m + 1) - ((L + 1) - 1) * P ELSE P
               /\ \A i \in 1 .. Len(new[b]) : new[b][i] = tiles[(b - 1) * P + i]
    <3>1. CASE b = L + 1
      <4>0. new[b] = <<tile>>  BY <2>3, <3>1
      <4>1. Len(new[b]) = 1 /\ new[b][1] = tile  BY <4>0
      <4>2. (b - 1) * P = m  BY <1>3, <2>2, <3>1
      <4>3. \A i \in 1 .. 1 : i = 1  OBVIOUS
      <4>4. (m + 1) - ((L + 1) - 1) * P = 1  BY <1>1, <1>3, <2>2
      <4> QED  BY <3>1, <4>1, <4>2, <4>3, <4>4 DEF tile
    <3>2. CASE b # L + 1
      <4>1. b \in 1 .. L /\ new[b] = boxes[b]  BY <1>1, <2>3, <3>2
      <4>2. b = L => m - (L - 1) * P = P  BY <1>1, <1>3, <2>2
      <4>3. Len(boxes[b]) = P  BY <1>2, <4>1, <4>2
      <4> QED  BY <1>2, <3>2, <4>1, <4>3
    <3> QED  BY <3>1, <3>2
  <2>6. Holds(new, tiles, m + 1)
    <3> DEFINE N == L + 1
    <3> HIDE DEF N
    <3>1. /\ Len(new) = N /\ N * P >= m + 1 /\ N * P < (m + 1) + P
          /\ \A b \in 1 .. N :
               /\ Len(new[b]) = IF b = N THEN (m + 1) - (N - 1) * P ELSE P
               /\ \A i \in 1 .. Len(new[b]) : new[b][i] = tiles[(b - 1) * P + i]
      BY <2>3, <2>4, <2>5 DEF N
    <3> QED  BY <3>1 DEF Holds, P
  <2> QED  BY <2>6 DEF new, tile
<1>5. CASE ~(boxes = <<>> \/ Len(boxes[L]) >= P)
  <2> DEFINE last == Append(boxes[L], tile)
  <2>0. L \in 1 .. L  BY <1>1, <1>5, EmptySeq DEF L
  <2>1. new = [boxes EXCEPT ![L] = last]
    BY <1>5 DEF Apps!add_tile, L, P
  <2>2. /\ boxes[L] \in Seq(T) /\ Len(boxes[L]) \in Nat
        /\ Len(boxes[L]) = m - (L - 1) * P /\ Len(boxes[L]) < P
        /\ \A i \in 1 .. Len(boxes[L]) : boxes[L][i] = tiles[(L - 1) * P + i]
    <3>1. boxes[L] \in Seq(T) /\ Len(boxes[L]) \in Nat  BY <1>1, <2>0
    <3>2. Len(boxes[L]) = m - (L - 1) * P  BY <1>2, <2>0
    <3>3. ~(Len(boxes[L]) >= P)  BY <1>5
    <3>4. \A i \in 1 .. Len(boxes[L]) : boxes[L][i] = tiles[(L - 1) * P + i]
      BY <1>2, <2>0
    <3>5. Len(boxes[L]) < P  BY <1>1, <3>1, <3>3
    <3> QED  BY <3>1, <3>2, <3>4, <3>5
  <2>3. /\ last \in Seq(T) /\ Len(last) = Len(boxes[L]) + 1
        /\ \A i \in 1 .. Len(boxes[L]) : last[i] = boxes[L][i]
        /\ last[Len(boxes[L]) + 1] = tile
    <3> DEFINE box == boxes[L]
    <3>1. box \in Seq(T) /\ Len(box) \in Nat  BY <2>2
    <3>2. tile \in T  BY <1>1
    <3> HIDE DEF box
    <3>3. /\ Append(box, tile) \in Seq(T) /\ Len(Append(box, tile)) = Len(box) + 1
          /\ \A i \in 1 .. Len(box) : Append(box, tile)[i] = box[i]
          /\ Append(box, tile)[Len(box) + 1] = tile
      BY <3>1, <3>2
    <3> QED  BY <3>3 DEF box
  <2> HIDE DEF last
  <2>4. /\ Len(new) = L /\ new[L] = last
        /\ \A b \in 1 .. L : b # L => new[b] = boxes[b]
    BY <2>0, <2>1, <2>3, ExceptSeq DEF L
  <2> HIDE DEF new
  <2>5. L * P >= m + 1 /\ L * P < (m + 1) + P
    BY <1>1, <1>2, <1>3, <2>2
  <2>6. ASSUME NEW b \in 1 .. L
        PROVE  /\ Len(new[b]) = IF b = L THEN (m + 1) - (L - 1) * P ELSE P
               /\ \A i \in 1 .. Len(new[b]) : new[b][i] = tiles[(b - 1) * P + i]
    <3>1. CASE b = L
      <4>1. new[b] = last  BY <2>4, <3>1
      <4>2. Len(last) = (m + 1) - (L - 1) * P  BY <1>1, <1>3, <2>2, <2>3
      <4>3. ASSUME NEW i \in 1 .. Len(last) PROVE last[i] = tiles[(L - 1) * P + i]
        <5>1. CASE i \in 1 .. Len(boxes[L])  BY <2>2, <2>3, <5>1
        <5>2. CASE i \notin 1 .. Len(boxes[L])
          <6>1. i = Len(boxes[L]) + 1  BY <2>2, <2>3, <5>2
          <6>2. (L - 1) * P + i = m + 1  BY <1>1, <1>3, <2>2, <6>1
          <6> QED  BY <2>3, <6>1, <6>2 DEF tile
        <5> QED  BY <5>1, <5>2
      <4> QED  BY <3>1, <4>1, <4>2, <4>3
    <3>2. CASE b # L
      <4>1. new[b] = boxes[b]  BY <2>4, <3>2
      <4> QED  BY <1>2, <3>2, <4>1
    <3> QED  BY <3>1, <3>2
  <2>7. Holds(new, tiles, m + 1)
    BY <2>4, <2>5, <2>6 DEF Holds, P
  <2> QED  BY <2>7 DEF new, tile
<1> QED  BY <1>4, <1>5 DEF tile

(* ... and lays each tile out, ...                                         *)
Lays(f, tiles) ==
  f[0] = <<>> /\ \A i \in 1 .. Len(tiles) : f[i] = Apps!add_tile(f[i - 1], tiles[i])

LEMMA LaidLoop ==
  ASSUME NEW T, NEW offer, Apps!Tiles(offer) \in Seq(T)
  PROVE  \E f : Lays(f, Apps!Tiles(offer)) /\ Apps!Populated(offer) = f[Len(Apps!Tiles(offer))]
<1> DEFINE tiles == Apps!Tiles(offer)
           n == Len(tiles)
           E(g, i) == IF i = 0 THEN <<>> ELSE Apps!add_tile(g[i - 1], tiles[i])
           F == CHOOSE g : g = [i \in 0 .. n |-> E(g, i)]
           B == Seq(Seq(T))
           step == [i \in 1 .. n |-> [s \in B |-> Apps!add_tile(s, tiles[i])]]
<1>1. Apps!Populated(offer) = F[n]
  BY DEF Apps!Populated
<1> HIDE DEF tiles
<1>2. n \in Nat /\ \A i \in 1 .. n : tiles[i] \in T
  BY LenProperties DEF tiles
<1>3. step \in [1 .. n -> [B -> B]]
  <2>1. \A i \in 1 .. n, s \in B : Apps!add_tile(s, tiles[i]) \in B
    BY <1>2, AddTile, Zenon
  <2> HIDE DEF B, n
  <2> QED  BY <2>1
<1>4. PICK f \in [0 .. n -> B] : Runs(f, <<>>, step, n)
  <2>1. <<>> \in B  OBVIOUS
  <2> HIDE DEF step, n, B
  <2> QED  BY <1>2, <1>3, <2>1, RunExists
<1> HIDE DEF n, B
<1>5. ASSUME NEW i \in 0 .. n PROVE f[i] = E(f, i)
  <2>1. CASE i = 0  BY <1>4, <2>1 DEF Runs
  <2>2. CASE i # 0
    <3>1. i \in 1 .. n /\ f[i - 1] \in B  BY <1>2, <2>2
    <3>2. f[i] = step[i][f[i - 1]]  BY <1>4, <3>1 DEF Runs
    <3> QED  BY <2>2, <3>1, <3>2
  <2> QED  BY <2>1, <2>2
<1> HIDE DEF E
<1>6. f = [i \in 0 .. n |-> E(f, i)]
  BY <1>4, <1>5
<1>7. F = [i \in 0 .. n |-> E(F, i)]
  BY <1>6
<1> HIDE DEF F
<1>8. \A i \in 0 .. n : F[i] = E(F, i)
  BY <1>7
<1>9. F[0] = <<>>
  <2>1. 0 \in 0 .. n  BY <1>2
  <2> QED  BY <1>8, <2>1 DEF E
<1>10. ASSUME NEW i \in 1 .. n PROVE F[i] = Apps!add_tile(F[i - 1], tiles[i])
  <2>1. i \in 0 .. n /\ i # 0  BY <1>2
  <2> QED  BY <1>8, <2>1 DEF E
<1>11. Lays(F, tiles)
  BY <1>9, <1>10 DEF Lays, n
<1> QED  BY <1>1, <1>11 DEF n, tiles

(* ... so that all of them are in their boxes.                             *)
LEMMA PopulatedHolds ==
  ASSUME NEW T, NEW offer, Apps!Tiles(offer) \in Seq(T)
  PROVE  /\ Apps!Populated(offer) \in Seq(Seq(T))
         /\ Holds(Apps!Populated(offer), Apps!Tiles(offer), Len(Apps!Tiles(offer)))
<1> DEFINE tiles == Apps!Tiles(offer)
           n == Len(tiles)
<1>1. PICK f : Lays(f, tiles) /\ Apps!Populated(offer) = f[n]
  BY LaidLoop
<1> HIDE DEF tiles
<1>2. n \in Nat /\ tiles \in Seq(T) /\ \A i \in 1 .. n : tiles[i] \in T
  BY LenProperties DEF tiles
<1> DEFINE Right(m) == f[m] \in Seq(Seq(T)) /\ Holds(f[m], tiles, m)
           G == {m \in Nat : m <= n => Right(m)}
<1>3. 0 \in G
  <2>1. f[0] = <<>>  BY <1>1 DEF Lays
  <2>2. Holds(<<>>, tiles, 0)  BY SnapsAssumption DEF Holds
  <2>3. Right(0)  BY <2>1, <2>2
  <2> QED  BY <2>3
<1>4. ASSUME NEW m \in Nat, m \in G
      PROVE  m + 1 \in G
  <2> SUFFICES ASSUME m + 1 <= n PROVE Right(m + 1)
    OBVIOUS
  <2>1. m <= n /\ m + 1 \in 1 .. n /\ (m + 1) - 1 = m /\ m \in 0 .. n - 1
    BY <1>2
  <2>2. Right(m)  BY <1>4, <2>1
  <2>3. f[m + 1] = Apps!add_tile(f[m], tiles[m + 1])  BY <1>1, <2>1 DEF Lays
  <2>4. Apps!add_tile(f[m], tiles[m + 1]) \in Seq(Seq(T))
    BY <1>2, <2>1, <2>2, AddTile, Zenon
  <2>5. Holds(Apps!add_tile(f[m], tiles[m + 1]), tiles, m + 1)
    BY <1>2, <2>1, <2>2, AddTileHolds, Zenon
  <2> QED  BY <2>3, <2>4, <2>5
<1>5. Nat \subseteq G
  <2> HIDE DEF G
  <2> QED  BY <1>3, <1>4, Induction
<1>6. Right(n)
  <2>1. n \in G /\ n <= n
    <3> HIDE DEF G
    <3> QED  BY <1>2, <1>5
  <2> HIDE DEF Right
  <2> QED  BY <2>1
<1> QED  BY <1>1, <1>6 DEF tiles

-----------------------------------------------------------------------------
AppTiles == [snap : DOMAIN Icons \cup {Apps!None},
             icon : {"snap", "desktop", "store", "placeholder", Apps!None}]

(* The spacers fill a box that is begun.                                   *)
LEMMA SpacersFill ==
  ASSUME NEW n \in Nat
  PROVE  /\ Apps!Spacers(n) \in 0 .. PerBox - 1
         /\ \E q \in Nat : n + Apps!Spacers(n) = q * PerBox
<1> DEFINE P == PerBox
           q == n \div P
           r == n % P
<1>1. P \in Nat \ {0}  BY SnapsAssumption
<1> HIDE DEF P
<1>2. q \in Nat /\ r \in 0 .. P - 1 /\ n = q * P + r
  BY <1>1
<1>3. Apps!Spacers(n) = IF r # 0 THEN P - r ELSE 0
  BY DEF Apps!Spacers, P
<1> HIDE DEF q, r
<1>4. (q + 1) * P = q * P + P /\ q + 1 \in Nat
  BY <1>1, <1>2
<1>5. CASE r = 0
  <2>1. Apps!Spacers(n) = 0 /\ n + 0 = q * P  BY <1>1, <1>2, <1>3, <1>5
  <2> QED  BY <1>1, <1>2, <2>1 DEF P
<1>6. CASE r # 0
  <2>1. Apps!Spacers(n) = P - r  BY <1>3, <1>6
  <2>2. n + (P - r) = (q + 1) * P /\ P - r \in 0 .. P - 1  BY <1>1, <1>2, <1>4, <1>6
  <2> QED  BY <1>4, <2>1, <2>2 DEF P
<1> QED  BY <1>5, <1>6

LEMMA TilesOfSnaps ==
  ASSUME NEW offer \in Seq(DOMAIN Icons)
  PROVE  LET n == Len(offer) IN
         /\ Apps!Tiles(offer) \in Seq(AppTiles)
         /\ Len(Apps!Tiles(offer)) = n + Apps!Spacers(n)
         /\ \A k \in 1 .. n + Apps!Spacers(n) :
              IF k <= n THEN Apps!Tiles(offer)[k] = Apps!Tile(offer[k]) ELSE Apps!Tiles(offer)[k] = Apps!Spacer
<1> DEFINE n == Len(offer)
           N == n + Apps!Spacers(n)
<1>1. n \in Nat /\ \A k \in 1 .. n : offer[k] \in DOMAIN Icons
  BY LenProperties
<1>2. Apps!Spacers(n) \in Nat
  <2>1. Apps!Spacers(n) \in 0 .. PerBox - 1  BY <1>1, SpacersFill, Zenon
  <2> QED  BY <2>1, SnapsAssumption
<1>3. N \in Nat  BY <1>1, <1>2
<1>4. Apps!Tiles(offer) = [k \in 1 .. N |-> IF k <= n THEN Apps!Tile(offer[k]) ELSE Apps!Spacer]
  BY DEF Apps!Tiles
<1>5. Apps!Spacer \in AppTiles
  BY DEF Apps!Spacer, AppTiles, Apps!None
<1>6. ASSUME NEW snap \in DOMAIN Icons PROVE Apps!Tile(snap) \in AppTiles
  BY DEF Apps!Tile, Apps!Icon, AppTiles
<1> HIDE DEF n, N
<1>7. ASSUME NEW k \in 1 .. N
      PROVE  (IF k <= n THEN Apps!Tile(offer[k]) ELSE Apps!Spacer) \in AppTiles
  <2>1. CASE k <= n
    <3>1. k \in 1 .. n  BY <1>1, <1>3, <2>1
    <3> QED  BY <1>1, <1>6, <2>1, <3>1
  <2>2. CASE ~(k <= n)  BY <1>5, <2>2
  <2> QED  BY <2>1, <2>2
<1>8. Apps!Tiles(offer) \in Seq(AppTiles)
  BY <1>3, <1>4, <1>7
<1>9. Len(Apps!Tiles(offer)) = N
  BY <1>3, <1>4
<1>10. \A k \in 1 .. N :
         IF k <= n THEN Apps!Tiles(offer)[k] = Apps!Tile(offer[k]) ELSE Apps!Tiles(offer)[k] = Apps!Spacer
  BY <1>4
<1> QED  BY <1>8, <1>9, <1>10 DEF n, N

(* Two multiples that lie closer than a box are the same.                  *)
LEMMA SameMultiple ==
  ASSUME NEW P \in Nat \ {0}, NEW l \in Nat, NEW q \in Nat,
         l * P >= q * P, l * P < q * P + P
  PROVE  l = q
<1>1. ASSUME l > q PROVE FALSE
  <2> DEFINE d == l - q - 1
  <2>1. d \in Nat /\ l = q + 1 + d  BY <1>1
  <2> HIDE DEF d
  <2>2. l * P = q * P + P + d * P /\ d * P \in Nat  BY <2>1
  <2>3. q * P \in Nat  OBVIOUS
  <2> QED  BY <2>2, <2>3
<1>2. ASSUME l < q PROVE FALSE
  <2> DEFINE d == q - l - 1
  <2>1. d \in Nat /\ q = l + 1 + d  BY <1>2
  <2> HIDE DEF d
  <2>2. q * P = l * P + P + d * P /\ d * P \in Nat  BY <2>1
  <2>3. l * P \in Nat  OBVIOUS
  <2> QED  BY <2>2, <2>3
<1> QED  BY <1>1, <1>2

(* The boxes that are populated are full and show what is offer.          *)
Match(boxes, offer) ==
  LET n == Len(offer) IN
  /\ Len(boxes) * PerBox >= n /\ Len(boxes) * PerBox < n + PerBox
  /\ \A b \in DOMAIN boxes :
       /\ Len(boxes[b]) = PerBox
       /\ \A i \in 1 .. PerBox :
            LET tile == boxes[b][i]
                k == (b - 1) * PerBox + i
            IN IF k <= n THEN tile.snap = offer[k] ELSE tile = Apps!Spacer

LEMMA PopulatedMatches ==
  ASSUME NEW offer \in Seq(DOMAIN Icons)
  PROVE  Apps!Populated(offer) \in Seq(Seq(AppTiles)) /\ Match(Apps!Populated(offer), offer)
<1> DEFINE boxes == Apps!Populated(offer)
           tiles == Apps!Tiles(offer)
           n == Len(offer)
           N == n + Apps!Spacers(n)
           P == PerBox
           L == Len(boxes)
<1>1. /\ tiles \in Seq(AppTiles) /\ Len(tiles) = N
      /\ \A k \in 1 .. N :
           IF k <= n THEN tiles[k] = Apps!Tile(offer[k]) ELSE tiles[k] = Apps!Spacer
  BY TilesOfSnaps, Zenon
<1>2. boxes \in Seq(Seq(AppTiles)) /\ Holds(boxes, tiles, N)
  BY <1>1, PopulatedHolds
<1>3. n \in Nat /\ P \in Nat \ {0}
  BY LenProperties, SnapsAssumption
<1>4. Apps!Spacers(n) \in 0 .. P - 1
  BY <1>3, SpacersFill, Zenon
<1>5. PICK q \in Nat : N = q * P
  BY <1>3, SpacersFill, Zenon
<1>6. L \in Nat /\ DOMAIN boxes = 1 .. L
  BY <1>2, LenProperties
<1>7. /\ L * P >= N /\ L * P < N + P
      /\ \A b \in 1 .. L :
           /\ Len(boxes[b]) = IF b = L THEN N - (L - 1) * P ELSE P
           /\ \A i \in 1 .. Len(boxes[b]) : boxes[b][i] = tiles[(b - 1) * P + i]
  BY <1>2 DEF Holds
<1> HIDE DEF boxes, tiles, N, n, P, L
<1>8. L = q
  BY <1>3, <1>5, <1>6, <1>7, SameMultiple
<1>9. N = L * P /\ N - (L - 1) * P = P /\ N \in Nat
  BY <1>3, <1>5, <1>6, <1>8
<1>10. \A b \in 1 .. L : Len(boxes[b]) = P
  BY <1>7, <1>9
<1>11. N >= n /\ N < n + P
  BY <1>3, <1>4 DEF N, P
<1>12. ASSUME NEW b \in 1 .. L, NEW i \in 1 .. P
       PROVE  LET tile == boxes[b][i]
                  k == (b - 1) * P + i
              IN IF k <= n THEN tile.snap = offer[k] ELSE tile = Apps!Spacer
  <2> DEFINE k == (b - 1) * P + i
  <2>1. boxes[b][i] = tiles[k]  BY <1>7, <1>10
  <2>2. k \in 1 .. N
    <3> DEFINE d == L - b
               c == b - 1
    <3>1. d \in Nat /\ c \in Nat /\ b = L - d /\ b = c + 1  BY <1>6
    <3> HIDE DEF d, c
    <3>2. (b - 1) * P = L * P - d * P - P /\ (b - 1) * P = c * P
      BY <1>3, <1>6, <3>1
    <3>3. d * P \in Nat /\ c * P \in Nat /\ L * P \in Nat  BY <1>3, <1>6, <3>1
    <3> QED  BY <1>3, <1>9, <3>2, <3>3
  <2> HIDE DEF k
  <2>3. CASE k <= n
    <3>1. tiles[k] = Apps!Tile(offer[k])  BY <1>1, <2>2, <2>3
    <3>2. tiles[k].snap = offer[k]  BY <3>1 DEF Apps!Tile
    <3> QED  BY <2>1, <2>3, <3>2 DEF k
  <2>4. CASE ~(k <= n)
    <3>1. tiles[k] = Apps!Spacer  BY <1>1, <2>2, <2>4
    <3> QED  BY <2>1, <2>4, <3>1 DEF k
  <2> QED  BY <2>3, <2>4
<1>13. Match(boxes, offer)
  <2>1. L * P >= n /\ L * P < n + P  BY <1>9, <1>11
  <2> QED  BY <1>6, <1>10, <1>12, <2>1 DEF Match, L, n, P
<1> QED  BY <1>2, <1>13 DEF boxes

-----------------------------------------------------------------------------
(* The application page: nothing is laid out before snapd has answered,    *)
(* and it answers once.                                                    *)
Buttons == [visible : BOOLEAN, sensitive : BOOLEAN]

TilesInv ==
  /\ featured_snaps \in Seq(DOMAIN Icons)
  /\ featured_stack \in Seq(Seq(AppTiles))
  /\ downloads \subseteq DOMAIN Icons
  /\ call = "installed" => featured_snaps = <<>> /\ featured_stack = <<>>
  /\ Apps!TilesMatchSnaps

BoxInv ==
  /\ featured_stack \in Seq(Seq(AppTiles))
  /\ child \in 0 .. Len(featured_stack)
  /\ prev_featured \in Buttons /\ next_featured \in Buttons
  /\ featured_snaps_timeout => call = Apps!None
  /\ featured_snaps_timeout \/ call # Apps!None => ~next_featured.visible
  /\ IF next_featured.visible
     THEN child >= 1
     ELSE ~prev_featured.visible /\ ~prev_featured.sensitive /\ next_featured.sensitive
  /\ Apps!ButtonsMatchBox

LEMMA MatchIsTheProperty ==
  Apps!TilesMatchSnaps <=> Match(featured_stack, Apps!Wanted(featured_snaps, installed_snaps))
BY DEF Apps!TilesMatchSnaps, Match

LEMMA NothingMatches ==
  ASSUME NEW installed
  PROVE  Match(<<>>, Apps!Wanted(<<>>, installed))
<1>1. Apps!Wanted(<<>>, installed) = <<>>
  <2>1. <<>> \in Seq(STRING)  OBVIOUS
  <2> QED  BY <2>1, WantedAreWanted
<1> QED  BY <1>1, SnapsAssumption DEF Match

LEMMA TilesInit ==
  ASSUME Apps!Init
  PROVE  TilesInv
<1>1. Apps!TilesMatchSnaps
  BY NothingMatches, MatchIsTheProperty DEF Apps!Init
<1> QED  BY <1>1 DEF Apps!Init, TilesInv

(* An icon of the store changes no snap.                                   *)
Painted(boxes, snap) ==
  [b \in DOMAIN boxes |-> [t \in DOMAIN boxes[b] |->
     IF boxes[b][t].snap = snap THEN [snap |-> snap, icon |-> "store"] ELSE boxes[b][t]]]

LEMMA PaintedBoxes ==
  ASSUME NEW boxes \in Seq(Seq(AppTiles)), NEW snap \in DOMAIN Icons
  PROVE  LET new == Painted(boxes, snap) IN
         /\ new \in Seq(Seq(AppTiles)) /\ Len(new) = Len(boxes)
         /\ \A b \in DOMAIN boxes :
              /\ Len(new[b]) = Len(boxes[b])
              /\ \A i \in 1 .. Len(boxes[b]) :
                   /\ new[b][i].snap = boxes[b][i].snap
                   /\ boxes[b][i] = Apps!Spacer => new[b][i] = Apps!Spacer
<1> DEFINE new == Painted(boxes, snap)
           L == Len(boxes)
           One(box) == [t \in DOMAIN box |->
                          IF box[t].snap = snap THEN [snap |-> snap, icon |-> "store"] ELSE box[t]]
<1>1. L \in Nat /\ DOMAIN boxes = 1 .. L /\ \A b \in 1 .. L : boxes[b] \in Seq(AppTiles)
  BY LenProperties
<1>2. new = [b \in 1 .. L |-> One(boxes[b])]
  BY <1>1 DEF Painted
<1>3. ASSUME NEW box \in Seq(AppTiles)
      PROVE  /\ One(box) \in Seq(AppTiles) /\ Len(One(box)) = Len(box)
             /\ \A i \in 1 .. Len(box) : /\ One(box)[i].snap = box[i].snap
                                         /\ box[i] = Apps!Spacer => One(box)[i] = Apps!Spacer
  <2> DEFINE n == Len(box)
             Of(tile) == IF tile.snap = snap THEN [snap |-> snap, icon |-> "store"] ELSE tile
  <2>1. n \in Nat /\ DOMAIN box = 1 .. n /\ \A i \in 1 .. n : box[i] \in AppTiles
    BY LenProperties
  <2>2. ASSUME NEW tile \in AppTiles
        PROVE  Of(tile) \in AppTiles /\ Of(tile).snap = tile.snap /\ (tile = Apps!Spacer => Of(tile) = Apps!Spacer)
    BY SnapsAssumption DEF AppTiles, Apps!Spacer
  <2>3. One(box) = [i \in 1 .. n |-> Of(box[i])]  BY <2>1
  <2> HIDE DEF One, Of, n
  <2>4. One(box) \in Seq(AppTiles) /\ Len(One(box)) = n
    BY <2>1, <2>2, <2>3
  <2>5. \A i \in 1 .. n : One(box)[i] = Of(box[i])
    BY <2>3
  <2> QED  BY <2>1, <2>2, <2>4, <2>5 DEF n
<1> HIDE DEF One, new, L
<1>4. new \in Seq(Seq(AppTiles)) /\ Len(new) = L
  <2> DEFINE B == Seq(AppTiles)
  <2>1. new \in [1 .. L -> B]  BY <1>1, <1>2, <1>3
  <2> HIDE DEF B
  <2>2. new \in Seq(B) /\ Len(new) = L  BY <1>1, <2>1
  <2> QED  BY <2>2 DEF B
<1>5. \A b \in 1 .. L : new[b] = One(boxes[b])
  BY <1>2
<1> QED  BY <1>1, <1>3, <1>4, <1>5 DEF new, L

LEMMA PaintedMatches ==
  ASSUME NEW boxes \in Seq(Seq(AppTiles)), NEW snap \in DOMAIN Icons, NEW offer,
         Match(boxes, offer)
  PROVE  Match(Painted(boxes, snap), offer)
<1> DEFINE new == Painted(boxes, snap)
           n == Len(offer)
<1>1. /\ new \in Seq(Seq(AppTiles)) /\ Len(new) = Len(boxes)
      /\ \A b \in DOMAIN boxes :
           /\ Len(new[b]) = Len(boxes[b])
           /\ \A i \in 1 .. Len(boxes[b]) :
                /\ new[b][i].snap = boxes[b][i].snap
                /\ boxes[b][i] = Apps!Spacer => new[b][i] = Apps!Spacer
  BY PaintedBoxes, Zenon
<1>2. DOMAIN new = 1 .. Len(new) /\ DOMAIN boxes = 1 .. Len(boxes)
  BY <1>1, LenProperties
<1>3. DOMAIN new = DOMAIN boxes  BY <1>1, <1>2
<1> HIDE DEF new, n
<1>4. /\ Len(boxes) * PerBox >= n /\ Len(boxes) * PerBox < n + PerBox
      /\ \A b \in DOMAIN boxes :
           /\ Len(boxes[b]) = PerBox
           /\ \A i \in 1 .. PerBox :
                LET k == (b - 1) * PerBox + i
                IN IF k <= n THEN boxes[b][i].snap = offer[k] ELSE boxes[b][i] = Apps!Spacer
  BY DEF Match, n
<1>5. ASSUME NEW b \in DOMAIN boxes, NEW i \in 1 .. PerBox
      PROVE  LET k == (b - 1) * PerBox + i
             IN IF k <= n THEN new[b][i].snap = offer[k] ELSE new[b][i] = Apps!Spacer
  <2>1. i \in 1 .. Len(boxes[b])  BY <1>4
  <2>2. new[b][i].snap = boxes[b][i].snap /\ (boxes[b][i] = Apps!Spacer => new[b][i] = Apps!Spacer)
    BY <1>1, <2>1
  <2> DEFINE k == (b - 1) * PerBox + i
  <2>3. IF k <= n THEN boxes[b][i].snap = offer[k] ELSE boxes[b][i] = Apps!Spacer
    BY <1>4
  <2> HIDE DEF k
  <2>4. IF k <= n THEN new[b][i].snap = offer[k] ELSE new[b][i] = Apps!Spacer
    BY <2>2, <2>3
  <2> QED  BY <2>4 DEF k
<1>6. Len(new) * PerBox >= n /\ Len(new) * PerBox < n + PerBox
  BY <1>1, <1>4
<1>7. \A b \in DOMAIN boxes : Len(new[b]) = PerBox
  BY <1>1, <1>4
<1>8. Match(new, offer)
  BY <1>3, <1>5, <1>6, <1>7 DEF Match, n
<1> QED  BY <1>8 DEF new

LEMMA TilesStep ==
  ASSUME TilesInv, [Apps!Next]_(Apps!vars)
  PROVE  TilesInv'
<1> DEFINE offer == Apps!Wanted(featured_snaps, installed_snaps)
<1>0. Match(featured_stack, offer)
  BY MatchIsTheProperty DEF TilesInv
<1>1. ASSUME NEW reply, Apps!InstalledReady(reply)
      PROVE  TilesInv'
  <2>1. UNCHANGED <<featured_snaps, featured_stack, downloads>> /\ call' = Apps!None
        /\ featured_snaps = <<>> /\ featured_stack = <<>>
    BY <1>1 DEF Apps!InstalledReady, Apps!seen, TilesInv
  <2>2. Match(<<>>, Apps!Wanted(<<>>, installed_snaps'))
    BY NothingMatches
  <2>3. Apps!TilesMatchSnaps'
    BY <2>1, <2>2 DEF Apps!TilesMatchSnaps, Match
  <2> QED  BY <2>1, <2>3 DEF TilesInv, Apps!None
<1>2. ASSUME NEW reply \in Featured, Apps!FeaturedReady(reply)
      PROVE  TilesInv'
  <2> DEFINE w == Apps!Wanted(reply, installed_snaps)
  <2>1. reply \in Seq(DOMAIN Icons)  BY SnapsAssumption
  <2>2. w \in Seq(DOMAIN Icons)
    BY <2>1, WantedAreWanted, Zenon
  <2>3. /\ featured_snaps' = reply /\ featured_stack' = Apps!Populated(w) /\ call' = Apps!None
        /\ installed_snaps' = installed_snaps
        /\ downloads' \subseteq Apps!Range(w)
    BY <1>2 DEF Apps!FeaturedReady
  <2>4. Apps!Range(w) \subseteq DOMAIN Icons
    <3> HIDE DEF w
    <3> QED  BY <2>2, LenProperties DEF Apps!Range
  <2>5. Apps!Populated(w) \in Seq(Seq(AppTiles)) /\ Match(Apps!Populated(w), w)
    <3> HIDE DEF w
    <3> QED  BY <2>2, PopulatedMatches
  <2>6. Match(featured_stack', Apps!Wanted(featured_snaps', installed_snaps'))
    BY <2>3, <2>5
  <2>7. Apps!TilesMatchSnaps'
    BY <2>6 DEF Apps!TilesMatchSnaps, Match
  <2> QED  BY <2>1, <2>3, <2>4, <2>5, <2>7 DEF TilesInv, Apps!None
<1>3. ASSUME NEW snap \in DOMAIN Icons, NEW ok, Apps!IconReady(snap, ok)
      PROVE  TilesInv'
  <2>1. /\ UNCHANGED <<call, installed_snaps, featured_snaps>>
        /\ downloads' \subseteq DOMAIN Icons
        /\ \/ featured_stack' = featured_stack
           \/ featured_stack' = Painted(featured_stack, snap)
    BY <1>3 DEF Apps!IconReady, Apps!asked, TilesInv, Painted
  <2>2. Match(Painted(featured_stack, snap), offer) /\ Painted(featured_stack, snap) \in Seq(Seq(AppTiles))
    BY <1>0, PaintedMatches, PaintedBoxes DEF TilesInv
  <2>3. Match(featured_stack', offer) /\ featured_stack' \in Seq(Seq(AppTiles))
    BY <1>0, <2>1, <2>2 DEF TilesInv
  <2>4. offer' = offer  BY <2>1
  <2>5. Apps!TilesMatchSnaps'
    BY <2>3, <2>4 DEF Apps!TilesMatchSnaps, Match
  <2>6. call = "installed" => Painted(featured_stack, snap) = <<>>
    BY DEF Painted, TilesInv
  <2>7. featured_snaps' \in Seq(DOMAIN Icons)  BY <2>1 DEF TilesInv
  <2>8. call' = "installed" => featured_snaps' = <<>> /\ featured_stack' = <<>>
    BY <2>1, <2>6 DEF TilesInv
  <2> QED  BY <2>1, <2>3, <2>5, <2>7, <2>8 DEF TilesInv
<1>4. ASSUME UNCHANGED <<installed_snaps, featured_snaps, featured_stack, downloads>>,
             call' = "installed" => call = "installed"
      PROVE  TilesInv'
  BY <1>4 DEF TilesInv, Apps!TilesMatchSnaps
<1>5. CASE Apps!Timeout  BY <1>4, <1>5 DEF Apps!Timeout, Apps!seen
<1>6. CASE Apps!FeaturedFailed  BY <1>4, <1>6 DEF Apps!FeaturedFailed, Apps!seen, Apps!None
<1>7. CASE Apps!NextBox  BY <1>4, <1>7 DEF Apps!NextBox, Apps!asked
<1>8. CASE Apps!PrevBox  BY <1>4, <1>8 DEF Apps!PrevBox, Apps!asked
<1>9. CASE Apps!Dispose  BY <1>4, <1>9 DEF Apps!Dispose, Apps!seen
<1>10. CASE UNCHANGED Apps!vars  BY <1>4, <1>10 DEF Apps!vars, Apps!asked, Apps!seen
<1> QED  BY <1>1, <1>2, <1>3, <1>5, <1>6, <1>7, <1>8, <1>9, <1>10 DEF Apps!Next

(* The buttons.                                                            *)
LEMMA SetSensitive ==
  ASSUME NEW b \in Buttons, NEW v \in BOOLEAN, NEW c, c = [b EXCEPT !.sensitive = v]
  PROVE  c \in Buttons /\ c.sensitive = v /\ c.visible = b.visible
BY DEF Buttons

LEMMA SetVisible ==
  ASSUME NEW b \in Buttons, NEW v \in BOOLEAN, NEW c, c = [b EXCEPT !.visible = v]
  PROVE  c \in Buttons /\ c.visible = v /\ c.sensitive = b.sensitive
BY DEF Buttons

LEMMA BoxInit ==
  ASSUME Apps!Init
  PROVE  BoxInv
BY DEF Apps!Init, BoxInv, Apps!ButtonsMatchBox, Buttons, Apps!None

LEMMA BoxStep ==
  ASSUME TilesInv, BoxInv, [Apps!Next]_(Apps!vars)
  PROVE  BoxInv'
<1>0. /\ Len(featured_stack) \in Nat /\ child \in Nat /\ child <= Len(featured_stack)
      /\ featured_stack \in Seq(Seq(AppTiles))
  BY LenProperties DEF BoxInv
<1>1. ASSUME NEW reply, Apps!InstalledReady(reply)
      PROVE  BoxInv'
  BY <1>1 DEF Apps!InstalledReady, Apps!seen, BoxInv, Apps!ButtonsMatchBox, Apps!None
<1>2. ASSUME NEW reply \in Featured, Apps!FeaturedReady(reply)
      PROVE  BoxInv'
  <2> DEFINE w == Apps!Wanted(reply, installed_snaps)
             boxes == Apps!Populated(w)
             more == Len(boxes) > 1
  <2>1. reply \in Seq(DOMAIN Icons)  BY SnapsAssumption
  <2>2. w \in Seq(DOMAIN Icons)
    BY <2>1, WantedAreWanted, Zenon
  <2>3. /\ featured_stack' = boxes /\ call = "featured" /\ call' = Apps!None
        /\ featured_snaps_timeout' = featured_snaps_timeout
        /\ child' = IF boxes = <<>> THEN 0 ELSE 1
        /\ prev_featured' = [prev_featured EXCEPT !.visible = more]
        /\ next_featured' = [next_featured EXCEPT !.visible = more]
    BY <1>2 DEF Apps!FeaturedReady
  <2>4. boxes \in Seq(Seq(AppTiles))
    <3> HIDE DEF w
    <3> QED  BY <2>2, PopulatedMatches
  <2> HIDE DEF w, boxes
  <2>5. Len(boxes) \in Nat /\ (boxes # <<>> => Len(boxes) >= 1)
    BY <2>4, EmptySeq, LenProperties
  <2>6. more \in BOOLEAN  BY <2>5
  <2>7. ~next_featured.visible /\ ~prev_featured.sensitive /\ next_featured.sensitive
        /\ ~featured_snaps_timeout
    BY <2>3 DEF BoxInv, Apps!None
  <2>8. more => boxes # <<>>  BY <2>4
  <2>9. child' \in 0 .. Len(boxes) /\ (more => child' = 1 /\ 1 < Len(boxes))
    BY <2>3, <2>5, <2>8
  <2> HIDE DEF more
  <2>10. prev_featured \in Buttons /\ next_featured \in Buttons  BY DEF BoxInv
  <2>11. /\ prev_featured' \in Buttons /\ prev_featured'.visible = more
         /\ prev_featured'.sensitive = prev_featured.sensitive
    BY <2>3, <2>6, <2>10, SetVisible, Zenon
  <2>12. /\ next_featured' \in Buttons /\ next_featured'.visible = more
         /\ next_featured'.sensitive = next_featured.sensitive
    BY <2>3, <2>6, <2>10, SetVisible, Zenon
  <2>13. ~prev_featured'.sensitive /\ next_featured'.sensitive
    BY <2>7, <2>11, <2>12
  <2>14. Apps!ButtonsMatchBox'
    <3> SUFFICES ASSUME next_featured'.visible
                 PROVE  /\ prev_featured'.sensitive = (child' > 1)
                        /\ next_featured'.sensitive = (child' < Len(featured_stack'))
      BY DEF Apps!ButtonsMatchBox
    <3>1. child' = 1 /\ 1 < Len(boxes)  BY <2>9, <2>12
    <3>2. (child' > 1) = FALSE /\ (child' < Len(featured_stack')) = TRUE  BY <2>3, <2>5, <3>1
    <3>3. prev_featured'.sensitive = FALSE /\ next_featured'.sensitive = TRUE
      BY <2>11, <2>12, <2>13 DEF Buttons
    <3> QED  BY <3>2, <3>3
  <2>15. featured_stack' \in Seq(Seq(AppTiles)) /\ child' \in 0 .. Len(featured_stack')
    BY <2>3, <2>4, <2>9
  <2>16. next_featured'.visible => child' >= 1
    BY <2>9, <2>12
  <2>17. ~next_featured'.visible => ~prev_featured'.visible
    BY <2>11, <2>12
  <2>18. ~featured_snaps_timeout' /\ call' = Apps!None
    BY <2>3, <2>7
  <2> QED  BY <2>11, <2>12, <2>13, <2>14, <2>15, <2>16, <2>17, <2>18 DEF BoxInv
<1>3. ASSUME NEW snap \in DOMAIN Icons, NEW ok, Apps!IconReady(snap, ok)
      PROVE  BoxInv'
  <2>1. /\ UNCHANGED <<call, featured_snaps_timeout, child, prev_featured, next_featured>>
        /\ \/ featured_stack' = featured_stack
           \/ featured_stack' = Painted(featured_stack, snap)
    BY <1>3 DEF Apps!IconReady, Apps!asked, Painted
  <2>2. Len(Painted(featured_stack, snap)) = Len(featured_stack)
        /\ Painted(featured_stack, snap) \in Seq(Seq(AppTiles))
    BY <1>0, PaintedBoxes
  <2>3. Len(featured_stack') = Len(featured_stack) /\ featured_stack' \in Seq(Seq(AppTiles))
    BY <1>0, <2>1, <2>2
  <2> QED  BY <2>1, <2>3 DEF BoxInv, Apps!ButtonsMatchBox
<1>4. CASE Apps!NextBox
  <2> DEFINE last == child + 1 < Len(featured_stack)
  <2>1. /\ next_featured.visible /\ child < Len(featured_stack) /\ child' = child + 1
        /\ prev_featured' = [prev_featured EXCEPT !.sensitive = TRUE]
        /\ next_featured' = [next_featured EXCEPT !.sensitive = last]
        /\ UNCHANGED <<call, featured_snaps_timeout, featured_stack>>
    BY <1>4 DEF Apps!NextBox, Apps!asked
  <2>2. last \in BOOLEAN  BY <1>0
  <2>3. prev_featured \in Buttons /\ next_featured \in Buttons /\ child >= 1
    BY <2>1 DEF BoxInv
  <2>4. child' \in 0 .. Len(featured_stack) /\ child' > 1 /\ (child' < Len(featured_stack)) = last
    BY <1>0, <2>1, <2>3
  <2> HIDE DEF last
  <2>5. prev_featured' \in Buttons /\ prev_featured'.sensitive = TRUE
    BY <2>1, <2>3, SetSensitive, Zenon
  <2>6. /\ next_featured' \in Buttons /\ next_featured'.sensitive = last
        /\ next_featured'.visible = next_featured.visible
    BY <2>1, <2>2, <2>3, SetSensitive, Zenon
  <2>7. (child' > 1) = TRUE  BY <2>4
  <2>8. Apps!ButtonsMatchBox'
    BY <2>1, <2>4, <2>5, <2>6, <2>7 DEF Apps!ButtonsMatchBox
  <2>9. child' >= 1  BY <1>0, <2>1
  <2> QED  BY <2>1, <2>4, <2>5, <2>6, <2>8, <2>9 DEF BoxInv
<1>5. CASE Apps!PrevBox
  <2> DEFINE more == child - 1 > 1
  <2>1. /\ prev_featured.visible /\ prev_featured.sensitive /\ child > 1 /\ child' = child - 1
        /\ prev_featured' = [prev_featured EXCEPT !.sensitive = more]
        /\ next_featured' = [next_featured EXCEPT !.sensitive = TRUE]
        /\ UNCHANGED <<call, featured_snaps_timeout, featured_stack>>
    BY <1>5 DEF Apps!PrevBox, Apps!asked
  <2>2. more \in BOOLEAN  BY <1>0
  <2>3. prev_featured \in Buttons /\ next_featured \in Buttons /\ next_featured.visible
    BY <2>1 DEF BoxInv
  <2>4. child' \in 0 .. Len(featured_stack) /\ (child' > 1) = more /\ child' < Len(featured_stack)
        /\ child' >= 1
    BY <1>0, <2>1
  <2> HIDE DEF more
  <2>5. prev_featured' \in Buttons /\ prev_featured'.sensitive = more
    BY <2>1, <2>2, <2>3, SetSensitive, Zenon
  <2>6. /\ next_featured' \in Buttons /\ next_featured'.sensitive = TRUE
        /\ next_featured'.visible = next_featured.visible
    BY <2>1, <2>3, SetSensitive, Zenon
  <2>7. (child' < Len(featured_stack)) = TRUE  BY <2>4
  <2>8. Apps!ButtonsMatchBox'
    BY <2>1, <2>4, <2>5, <2>6, <2>7 DEF Apps!ButtonsMatchBox
  <2> QED  BY <2>1, <2>3, <2>4, <2>5, <2>6, <2>8 DEF BoxInv
<1>6. ASSUME UNCHANGED <<child, prev_featured, next_featured, featured_stack>>,
             featured_snaps_timeout' => call' = Apps!None,
             featured_snaps_timeout' \/ call' # Apps!None => featured_snaps_timeout \/ call # Apps!None
      PROVE  BoxInv'
  BY <1>6 DEF BoxInv, Apps!ButtonsMatchBox
<1>7. CASE Apps!Timeout  BY <1>6, <1>7 DEF Apps!Timeout, Apps!seen
<1>8. CASE Apps!FeaturedFailed  BY <1>6, <1>8 DEF Apps!FeaturedFailed, Apps!seen, Apps!None
<1>9. CASE Apps!Dispose  BY <1>6, <1>9 DEF Apps!Dispose, Apps!seen, BoxInv
<1>10. CASE UNCHANGED Apps!vars  BY <1>6, <1>10 DEF Apps!vars, Apps!asked, Apps!seen, BoxInv
<1> QED  BY <1>1, <1>2, <1>3, <1>4, <1>5, <1>7, <1>8, <1>9, <1>10 DEF Apps!Next

(* However often snapd failed before it answered, with whatever was        *)
(* installed and whatever icons come from the store later and in any order:*)
(* the tiles are the snaps featured and not installed, in snapd's order and*)
(* in boxes filled with spacers, and from any box the buttons lead to the  *)
(* boxes next to it and no further.                                        *)
THEOREM TilesMatch == Spec => []TilesMatchSnaps
<1> DEFINE Inv == page = "apps" => TilesInv /\ BoxInv
<1>1. Init => Inv  BY PageInit, TilesInit, BoxInit
<1>2. Inv /\ [Next]_vars => Inv'  BY PageStep, TilesStep, BoxStep
<1>3. Inv => TilesMatchSnaps  BY DEF TilesMatchSnaps, TilesInv, BoxInv
<1> QED  BY <1>1, <1>2, <1>3, PTL DEF Spec

-----------------------------------------------------------------------------
(* The access points: of the first m of the list, the strongest of each    *)
(* name and no other is in C.                                              *)
StrongestOf(C, list, m) ==
  /\ \A e \in C : e.ssid # None /\ \E k \in 1 .. m : list[k] = e
  /\ \A e, d \in C : e.ssid = d.ssid => e = d
  /\ \A k \in 1 .. m : list[k].ssid # None =>
       \E e \in C : e.ssid = list[k].ssid /\ list[k].strength <= e.strength

LEMMA StrongestKept ==
  ASSUME NEW P, \A ap \in P : ap.strength \in Nat,
         NEW list \in Seq(P), NEW u \in Seq(P), IsInjective(u),
         NEW m \in 0 .. Len(list) - 1, StrongestOf(ToSet(u), list, m)
  PROVE  LET w == Strongest(u, list[m + 1]) IN
         w \in Seq(P) /\ IsInjective(w) /\ StrongestOf(ToSet(w), list, m + 1)
<1> DEFINE ap == list[m + 1]
           C == ToSet(u)
           w == Strongest(u, ap)
           j == Min(Same(u, ap))
<1>1. /\ m \in Nat /\ 1 .. m + 1 = (1 .. m) \cup {m + 1} /\ m + 1 \in 1 .. Len(list)
      /\ ap \in P /\ ap.strength \in Nat
      /\ DOMAIN u \subseteq Nat
      /\ \A i \in DOMAIN u : u[i] \in P /\ u[i].strength \in Nat
  BY LenProperties
<1>2. /\ \A e \in C : e.ssid # None /\ \E k \in 1 .. m : list[k] = e
      /\ \A e, d \in C : e.ssid = d.ssid => e = d
      /\ \A k \in 1 .. m : list[k].ssid # None =>
           \E e \in C : e.ssid = list[k].ssid /\ list[k].strength <= e.strength
  BY DEF StrongestOf
<1>3. \A e : e \in C <=> \E i \in DOMAIN u : u[i] = e
  BY DEF ToSet
<1>4. \A k \in 1 .. m : list[k] \in P /\ list[k].strength \in Nat
  <2>1. \A k \in 1 .. m : k \in 1 .. Len(list)  BY <1>1
  <2> QED  BY <2>1, LenProperties
<1>5. Same(u, ap) = {i \in DOMAIN u : u[i].ssid = ap.ssid}
  BY DEF Same
<1> HIDE DEF C
<1>6. CASE ap.ssid = None
  <2>1. w = u  BY <1>6 DEF Strongest
  <2>2. StrongestOf(C, list, m + 1)
    BY <1>1, <1>2, <1>6 DEF StrongestOf
  <2> QED  BY <2>1, <2>2 DEF C
<1>7. CASE ap.ssid # None /\ Same(u, ap) = {}
  <2>1. w = Append(u, ap)  BY <1>7 DEF Strongest
  <2>2. \A e \in C : e.ssid # ap.ssid
    BY <1>3, <1>5, <1>7
  <2>3. ap \notin C  BY <2>2
  <2>4. w \in Seq(P) /\ IsInjective(w) /\ ToSet(w) = C \cup {ap}
    BY <1>1, <2>1, <2>3, AppendOnce DEF C
  <2> DEFINE D == C \cup {ap}
  <2>5. StrongestOf(D, list, m + 1)
    <3>1. \A e \in D : e.ssid # None /\ \E k \in 1 .. m + 1 : list[k] = e
      BY <1>1, <1>2, <1>7
    <3>2. \A e, d \in D : e.ssid = d.ssid => e = d
      BY <1>2, <2>2
    <3>3. ASSUME NEW k \in 1 .. m + 1, list[k].ssid # None
          PROVE  \E e \in D : e.ssid = list[k].ssid /\ list[k].strength <= e.strength
      <4>1. CASE k = m + 1  BY <1>1, <4>1
      <4>2. CASE k \in 1 .. m  BY <1>2, <3>3, <4>2
      <4> QED  BY <1>1, <4>1, <4>2
    <3> HIDE DEF D
    <3> QED  BY <3>1, <3>2, <3>3 DEF StrongestOf
  <2> QED  BY <2>4, <2>5
<1>8. CASE ap.ssid # None /\ Same(u, ap) # {}
  <2>1. j \in Same(u, ap)
    <3>1. Same(u, ap) \subseteq Nat  BY <1>1, <1>5
    <3>2. \E x \in Same(u, ap) : \A y \in Same(u, ap) : x <= y
      BY <1>8, <3>1, Least
    <3> QED  BY <3>2 DEF Min
  <2> HIDE DEF j
  <2> DEFINE old == u[j]
  <2>2. j \in DOMAIN u /\ old.ssid = ap.ssid /\ old \in C /\ old.strength \in Nat
    BY <1>1, <1>3, <1>5, <2>1
  <2> HIDE DEF old
  <2>3. CASE ap.strength > old.strength
    <3> DEFINE fewer == RemoveAt(u, j)
               D == (C \ {old}) \cup {ap}
    <3>1. w = Append(fewer, ap)  BY <1>8, <2>3 DEF Strongest, old, j
    <3>2. fewer \in Seq(P) /\ IsInjective(fewer) /\ ToSet(fewer) = C \ {old}
      BY <2>2, RemoveOnce DEF C, old
    <3> HIDE DEF fewer
    <3>3. \A e \in C \ {old} : e.ssid # ap.ssid
      BY <1>2, <2>2
    <3>4. ap \notin C \ {old}  BY <3>3
    <3>5. w \in Seq(P) /\ IsInjective(w) /\ ToSet(w) = D
      BY <1>1, <3>1, <3>2, <3>4, AppendOnce
    <3>6. StrongestOf(D, list, m + 1)
      <4>1. \A e \in D : e.ssid # None /\ \E k \in 1 .. m + 1 : list[k] = e
        BY <1>1, <1>2, <1>8
      <4>2. \A e, d \in D : e.ssid = d.ssid => e = d
        BY <1>2, <3>3
      <4>3. ASSUME NEW k \in 1 .. m + 1, list[k].ssid # None
            PROVE  \E e \in D : e.ssid = list[k].ssid /\ list[k].strength <= e.strength
        <5>1. CASE k = m + 1  BY <1>1, <5>1
        <5>2. CASE k \in 1 .. m
          <6>1. PICK e \in C : e.ssid = list[k].ssid /\ list[k].strength <= e.strength
            BY <1>2, <4>3, <5>2
          <6>2. CASE e = old
            <7>1. list[k].strength <= ap.strength
              BY <1>1, <1>4, <2>2, <2>3, <5>2, <6>1, <6>2
            <7> QED  BY <2>2, <6>1, <6>2, <7>1
          <6>3. CASE e # old  BY <6>1, <6>3
          <6> QED  BY <6>2, <6>3
        <5> QED  BY <1>1, <5>1, <5>2
      <4> HIDE DEF D
      <4> QED  BY <4>1, <4>2, <4>3 DEF StrongestOf
    <3> QED  BY <3>5, <3>6
  <2>4. CASE ~(ap.strength > old.strength)
    <3>1. w = u  BY <1>8, <2>4 DEF Strongest, old, j
    <3>2. ap.strength <= old.strength  BY <1>1, <2>2, <2>4
    <3>3. StrongestOf(C, list, m + 1)
      BY <1>1, <1>2, <2>2, <3>2 DEF StrongestOf
    <3> QED  BY <3>1, <3>3 DEF C
  <2> QED  BY <2>3, <2>4
<1> QED  BY <1>6, <1>7, <1>8

(* get_strongest_unique_aps goes through the list, ...                     *)
Picks(f, list) ==
  f[0] = <<>> /\ \A i \in 1 .. Len(list) : f[i] = Strongest(f[i - 1], list[i])

LEMMA StrongestInSeq ==
  ASSUME NEW P, NEW u \in Seq(P), NEW ap \in P
  PROVE  Strongest(u, ap) \in Seq(P)
<1> DEFINE j == Min(Same(u, ap))
<1>1. CASE ap.ssid = None \/ Same(u, ap) = {}
  BY <1>1 DEF Strongest
<1>2. CASE ~(ap.ssid = None \/ Same(u, ap) = {})
  <2>1. Same(u, ap) \subseteq DOMAIN u /\ DOMAIN u = 1 .. Len(u) /\ Len(u) \in Nat
    BY LenProperties DEF Same
  <2>2. \E x \in Same(u, ap) : \A y \in Same(u, ap) : x <= y
    BY <1>2, <2>1, Least
  <2>3. j \in 1 .. Len(u)  BY <2>1, <2>2 DEF Min
  <2> HIDE DEF j
  <2>4. SubSeq(u, 1, j - 1) \in Seq(P) /\ SubSeq(u, j + 1, Len(u)) \in Seq(P)
    <3>1. \A i \in 1 .. Len(u) : u[i] \in P  BY LenProperties
    <3>2. /\ \A i \in 1 .. j - 1 : i \in 1 .. Len(u)
          /\ \A i \in j + 1 .. Len(u) : i \in 1 .. Len(u)
      BY <2>1, <2>3
    <3> QED  BY <2>1, <2>3, <3>1, <3>2, SubSeqProperties
  <2>5. RemoveAt(u, j) \in Seq(P)  BY <2>4, ConcatProperties DEF RemoveAt
  <2>6. Strongest(u, ap) = Append(RemoveAt(u, j), ap) \/ Strongest(u, ap) = u
    BY <1>2 DEF Strongest, j
  <2> QED  BY <2>5, <2>6
<1> QED  BY <1>1, <1>2

LEMMA UniqueLoop ==
  ASSUME NEW P, NEW list \in Seq(P)
  PROVE  \E f : Picks(f, list) /\ get_strongest_unique_aps(list) = f[Len(list)]
<1> DEFINE n == Len(list)
           B == Seq(P)
           E(g, i) == IF i = 0 THEN <<>> ELSE Strongest(g[i - 1], list[i])
           F == CHOOSE g : g = [i \in 0 .. n |-> E(g, i)]
           step == [i \in 1 .. n |-> [s \in B |-> Strongest(s, list[i])]]
<1>1. get_strongest_unique_aps(list) = F[n]
  BY DEF get_strongest_unique_aps
<1>2. n \in Nat /\ \A i \in 1 .. n : list[i] \in P
  BY LenProperties
<1>3. step \in [1 .. n -> [B -> B]]
  <2>1. \A i \in 1 .. n, s \in B : Strongest(s, list[i]) \in B
    BY <1>2, StrongestInSeq, Zenon
  <2> HIDE DEF B, n
  <2> QED  BY <2>1
<1>4. PICK f \in [0 .. n -> B] : Runs(f, <<>>, step, n)
  <2>1. <<>> \in B  OBVIOUS
  <2> HIDE DEF step, n, B
  <2> QED  BY <1>2, <1>3, <2>1, RunExists
<1> HIDE DEF n, B
<1>5. ASSUME NEW i \in 0 .. n PROVE f[i] = E(f, i)
  <2>1. CASE i = 0  BY <1>4, <2>1 DEF Runs
  <2>2. CASE i # 0
    <3>1. i \in 1 .. n /\ f[i - 1] \in B  BY <1>2, <2>2
    <3>2. f[i] = step[i][f[i - 1]]  BY <1>4, <3>1 DEF Runs
    <3> QED  BY <2>2, <3>1, <3>2
  <2> QED  BY <2>1, <2>2
<1> HIDE DEF E
<1>6. f = [i \in 0 .. n |-> E(f, i)]
  BY <1>4, <1>5
<1>7. F = [i \in 0 .. n |-> E(F, i)]
  BY <1>6
<1> HIDE DEF F
<1>8. \A i \in 0 .. n : F[i] = E(F, i)
  BY <1>7
<1>9. F[0] = <<>>
  <2>1. 0 \in 0 .. n  BY <1>2
  <2> QED  BY <1>8, <2>1 DEF E
<1>10. ASSUME NEW i \in 1 .. n PROVE F[i] = Strongest(F[i - 1], list[i])
  <2>1. i \in 0 .. n /\ i # 0  BY <1>2
  <2> QED  BY <1>8, <2>1 DEF E
<1>11. Picks(F, list)
  BY <1>9, <1>10 DEF Picks, n
<1> QED  BY <1>1, <1>11 DEF n

(* ... and finds the strongest of each name, once.                         *)
LEMMA UniqueAreStrongest ==
  ASSUME NEW P, \A ap \in P : ap.strength \in Nat, NEW list \in Seq(P)
  PROVE  LET u == get_strongest_unique_aps(list) IN
         u \in Seq(P) /\ IsInjective(u) /\ StrongestOf(ToSet(u), list, Len(list))
<1> DEFINE n == Len(list)
<1>1. PICK f : Picks(f, list) /\ get_strongest_unique_aps(list) = f[n]
  BY UniqueLoop, Zenon
<1>2. n \in Nat
  BY LenProperties
<1> DEFINE Right(m) == f[m] \in Seq(P) /\ IsInjective(f[m]) /\ StrongestOf(ToSet(f[m]), list, m)
           G == {m \in Nat : m <= n => Right(m)}
<1>3. 0 \in G
  <2>1. f[0] = <<>>  BY <1>1 DEF Picks
  <2>2. StrongestOf({}, list, 0)  BY DEF StrongestOf
  <2>3. Right(0)  BY <2>1, <2>2, EmptyOnce
  <2> QED  BY <2>3
<1>4. ASSUME NEW m \in Nat, m \in G
      PROVE  m + 1 \in G
  <2> SUFFICES ASSUME m + 1 <= n PROVE Right(m + 1)
    OBVIOUS
  <2>1. m <= n /\ m + 1 \in 1 .. n /\ (m + 1) - 1 = m /\ m \in 0 .. n - 1
    BY <1>2
  <2>2. Right(m)  BY <1>4, <2>1
  <2>3. f[m + 1] = Strongest(f[m], list[m + 1])  BY <1>1, <2>1 DEF Picks
  <2> DEFINE w == Strongest(f[m], list[m + 1])
  <2>4. w \in Seq(P) /\ IsInjective(w) /\ StrongestOf(ToSet(w), list, m + 1)
    BY <2>1, <2>2, StrongestKept, Zenon
  <2> HIDE DEF w
  <2>5. f[m + 1] = w  BY <2>3 DEF w
  <2> QED  BY <2>4, <2>5
<1>5. Nat \subseteq G
  <2> HIDE DEF G
  <2> QED  BY <1>3, <1>4, Induction
<1>6. Right(n)
  <2>1. n \in G /\ n <= n
    <3> HIDE DEF G
    <3> QED  BY <1>2, <1>5
  <2> HIDE DEF Right
  <2> QED  BY <2>1
<1> QED  BY <1>1, <1>6

-----------------------------------------------------------------------------
(* A row is put behind those of its order or a higher one, so that the list*)
(* stays in order.                                                         *)
Sorted(shown) == \A i, k \in DOMAIN shown : i < k => shown[i].order >= shown[k].order

LEMMA InsertPlace ==
  ASSUME NEW R, \A r \in R : r.order \in Nat, NEW l \in Seq(R), Sorted(l), NEW row \in R
  PROVE  LET c == Cardinality({i \in DOMAIN l : l[i].order >= row.order}) IN
         c \in 0 .. Len(l) /\ \A i \in DOMAIN l : l[i].order >= row.order <=> i <= c
<1> DEFINE n == Len(l)
           A == {i \in DOMAIN l : l[i].order >= row.order}
           B == {i \in DOMAIN l : ~(l[i].order >= row.order)}
<1>1. n \in Nat /\ DOMAIN l = 1 .. n /\ (\A i \in 1 .. n : l[i].order \in Nat) /\ row.order \in Nat
  BY LenProperties
<1> HIDE DEF n
<1>2. \E c \in 0 .. n : \A i \in DOMAIN l : l[i].order >= row.order <=> i <= c
  <2>1. CASE B = {}
    <3>1. \A i \in DOMAIN l : l[i].order >= row.order /\ i <= n  BY <1>1, <2>1
    <3> QED  BY <1>1, <3>1
  <2>2. CASE B # {}
    <3>1. B \subseteq Nat  BY <1>1
    <3>2. PICK b \in B : \A i \in B : b <= i
      BY <2>2, <3>1, Least
    <3>3. b \in 1 .. n /\ b - 1 \in 0 .. n  BY <1>1, <3>2
    <3>4. ASSUME NEW i \in DOMAIN l PROVE l[i].order >= row.order <=> i <= b - 1
      <4>1. CASE i \in B
        <5>1. b <= i  BY <3>2, <4>1
        <5> QED  BY <1>1, <3>3, <4>1, <5>1
      <4>2. CASE i \notin B
        <5>1. l[i].order >= row.order  BY <4>2
        <5>2. ASSUME i > b PROVE FALSE
          <6>1. l[b].order >= l[i].order  BY <3>2, <5>2 DEF Sorted
          <6>2. ~(l[b].order >= row.order)  BY <3>2
          <6> QED  BY <1>1, <3>3, <5>1, <6>1, <6>2
        <5>3. i # b  BY <3>2, <5>1
        <5> QED  BY <1>1, <3>3, <5>1, <5>2, <5>3
      <4> QED  BY <4>1, <4>2
    <3> QED  BY <3>3, <3>4
  <2> QED  BY <2>1, <2>2
<1>3. PICK c \in 0 .. n : \A i \in DOMAIN l : l[i].order >= row.order <=> i <= c
  BY <1>2
<1>4. A = 1 .. c
  BY <1>1, <1>3
<1>5. Cardinality(1 .. c) = c
  <2>1. Cardinality(1 .. c) = IF 1 > c THEN 0 ELSE c - 1 + 1
    BY <1>1, FS_Interval
  <2> QED  BY <1>1, <2>1
<1> QED  BY <1>3, <1>4, <1>5 DEF n

LEMMA InsertSorted ==
  ASSUME NEW R, \A r \in R : r.order \in Nat,
         NEW l \in Seq(R), Sorted(l), IsInjective(l), NEW row \in R, row \notin ToSet(l)
  PROVE  /\ Insert(l, row) \in Seq(R) /\ Sorted(Insert(l, row)) /\ IsInjective(Insert(l, row))
         /\ ToSet(Insert(l, row)) = ToSet(l) \cup {row}
<1> DEFINE n == Len(l)
           c == Cardinality({i \in DOMAIN l : l[i].order >= row.order})
           w == Insert(l, row)
           before == SubSeq(l, 1, c)
           behind == SubSeq(l, c + 1, n)
<1>1. /\ n \in Nat /\ DOMAIN l = 1 .. n /\ row.order \in Nat
      /\ \A i \in 1 .. n : l[i] \in R /\ l[i].order \in Nat
  BY LenProperties
<1>2. c \in 0 .. n /\ \A i \in 1 .. n : l[i].order >= row.order <=> i <= c
  BY <1>1, InsertPlace
<1> HIDE DEF c, n
<1>3. w = (before \o <<row>>) \o behind
  <2>1. (c + 1) - 1 = c  BY <1>1, <1>2
  <2>2. w = InsertAt(l, c + 1, row)  BY DEF Insert, c
  <2> QED  BY <2>1, <2>2 DEF InsertAt, n
<1>4. before \in Seq(R) /\ Len(before) = c /\ \A i \in 1 .. c : before[i] = l[i]
  BY <1>1, <1>2, SubSeqProperties
<1>5. behind \in Seq(R) /\ Len(behind) = n - c /\ \A i \in 1 .. n - c : behind[i] = l[c + i]
  BY <1>1, <1>2, SubSeqProperties
<1> HIDE DEF before, behind, w
<1> DEFINE one == <<row>>
           front == before \o one
<1>6. one \in Seq(R) /\ Len(one) = 1 /\ one[1] = row
  OBVIOUS
<1> HIDE DEF one
<1>7. /\ front \in Seq(R) /\ Len(front) = c + 1 /\ front[c + 1] = row
      /\ \A i \in 1 .. c : front[i] = l[i]
  <2>1. /\ front \in Seq(R) /\ Len(front) = Len(before) + Len(one)
        /\ \A i \in 1 .. Len(before) + Len(one) :
             front[i] = IF i <= Len(before) THEN before[i] ELSE one[i - Len(before)]
    BY <1>4, <1>6, ConcatProperties
  <2> HIDE DEF front
  <2>2. Len(front) = c + 1 /\ \A i \in 1 .. c + 1 :
             front[i] = IF i <= c THEN before[i] ELSE one[i - c]
    BY <1>4, <1>6, <2>1
  <2>3. c + 1 \in 1 .. c + 1 /\ ~(c + 1 <= c) /\ (c + 1) - c = 1
        /\ \A i \in 1 .. c : i \in 1 .. c + 1 /\ i <= c
    BY <1>1, <1>2
  <2> QED  BY <1>4, <1>6, <2>1, <2>2, <2>3
<1>8. w = front \o behind  BY <1>3 DEF one
<1> HIDE DEF front
<1>9. /\ w \in Seq(R) /\ Len(w) = n + 1
      /\ \A i \in 1 .. n + 1 : w[i] = IF i <= c + 1 THEN front[i] ELSE behind[i - (c + 1)]
  <2>1. /\ front \o behind \in Seq(R) /\ Len(front \o behind) = Len(front) + Len(behind)
        /\ \A i \in 1 .. Len(front) + Len(behind) :
             (front \o behind)[i] = IF i <= Len(front) THEN front[i] ELSE behind[i - Len(front)]
    BY <1>5, <1>7, ConcatProperties
  <2>2. Len(front) + Len(behind) = n + 1  BY <1>1, <1>2, <1>5, <1>7
  <2> QED  BY <1>7, <1>8, <2>1, <2>2
<1>10. DOMAIN w = 1 .. n + 1
  BY <1>9, LenProperties
<1>11. /\ w[c + 1] = row
       /\ \A i \in 1 .. c : w[i] = l[i]
       /\ \A i \in c + 2 .. n + 1 : w[i] = l[i - 1] /\ i - 1 \in c + 1 .. n
  <2>1. w[c + 1] = row  BY <1>1, <1>2, <1>7, <1>9
  <2>2. \A i \in 1 .. c : w[i] = l[i]  BY <1>1, <1>2, <1>7, <1>9
  <2>3. ASSUME NEW i \in c + 2 .. n + 1 PROVE w[i] = l[i - 1] /\ i - 1 \in c + 1 .. n
    <3>1. i \in 1 .. n + 1 /\ ~(i <= c + 1) /\ i - (c + 1) \in 1 .. n - c
          /\ c + (i - (c + 1)) = i - 1 /\ i - 1 \in c + 1 .. n
      BY <1>1, <1>2
    <3> QED  BY <1>5, <1>9, <3>1
  <2> QED  BY <2>1, <2>2, <2>3
<1>12. \A i \in 1 .. n + 1 : i \in 1 .. c \/ i = c + 1 \/ i \in c + 2 .. n + 1
  BY <1>1, <1>2
<1>13. (1 .. c) \subseteq 1 .. n /\ (c + 1 .. n) \subseteq 1 .. n /\ 1 .. n = (1 .. c) \cup (c + 1 .. n)
  BY <1>1, <1>2
<1>14. Sorted(w)
  <2> SUFFICES ASSUME NEW i \in 1 .. n + 1, NEW k \in 1 .. n + 1, i < k
               PROVE  w[i].order >= w[k].order
    BY <1>10 DEF Sorted
  <2>0. \A p, q \in 1 .. n : p < q => l[p].order >= l[q].order
    BY <1>1 DEF Sorted
  <2>1. CASE i \in 1 .. c
    <3>1. w[i] = l[i] /\ i \in 1 .. n /\ l[i].order >= row.order  BY <1>2, <1>11, <1>13, <2>1
    <3>2. CASE k \in 1 .. c  BY <1>11, <1>13, <2>0, <3>1, <3>2
    <3>3. CASE k = c + 1  BY <1>11, <3>1, <3>3
    <3>4. CASE k \in c + 2 .. n + 1
      <4>1. i < k - 1 /\ k - 1 \in 1 .. n /\ w[k] = l[k - 1]
        BY <1>1, <1>2, <1>11, <1>13, <2>1, <3>4
      <4> QED  BY <2>0, <3>1, <4>1
    <3> QED  BY <1>12, <3>2, <3>3, <3>4
  <2>2. CASE i = c + 1
    <3>1. k \in c + 2 .. n + 1  BY <1>1, <1>2, <2>2
    <3>2. w[k] = l[k - 1] /\ k - 1 \in 1 .. n /\ ~(k - 1 <= c)
      BY <1>1, <1>2, <1>11, <1>13, <3>1
    <3>3. ~(l[k - 1].order >= row.order)  BY <1>2, <3>2
    <3>4. row.order >= l[k - 1].order  BY <1>1, <3>2, <3>3
    <3> QED  BY <1>11, <2>2, <3>2, <3>4
  <2>3. CASE i \in c + 2 .. n + 1
    <3>1. k \in c + 2 .. n + 1  BY <1>1, <1>2, <2>3
    <3>2. w[i] = l[i - 1] /\ w[k] = l[k - 1] /\ i - 1 \in 1 .. n /\ k - 1 \in 1 .. n /\ i - 1 < k - 1
      BY <1>1, <1>2, <1>11, <1>13, <2>3, <3>1
    <3> QED  BY <2>0, <3>2
  <2> QED  BY <1>12, <2>1, <2>2, <2>3
<1>15. IsInjective(w)
  <2> SUFFICES ASSUME NEW i \in 1 .. n + 1, NEW k \in 1 .. n + 1, w[i] = w[k], i < k
               PROVE  FALSE
    BY <1>1, <1>10 DEF IsInjective
  <2>0. /\ \A p, q \in 1 .. n : l[p] = l[q] => p = q
        /\ \A p \in 1 .. n : l[p] # row
    BY <1>1 DEF IsInjective, ToSet
  <2> DEFINE at(p) == IF p <= c THEN p ELSE p - 1
  <2>1. \A p \in 1 .. n + 1 : p # c + 1 => at(p) \in 1 .. n /\ w[p] = l[at(p)]
    <3> SUFFICES ASSUME NEW p \in 1 .. n + 1, p # c + 1
                 PROVE  at(p) \in 1 .. n /\ w[p] = l[at(p)]
      OBVIOUS
    <3>1. CASE p \in 1 .. c  BY <1>1, <1>2, <1>11, <3>1
    <3>2. CASE p \in c + 2 .. n + 1  BY <1>1, <1>2, <1>11, <3>2
    <3> QED  BY <1>12, <3>1, <3>2
  <2>2. CASE i = c + 1
    <3>1. k # c + 1  BY <2>2
    <3> QED  BY <1>11, <2>0, <2>1, <2>2, <3>1
  <2>3. CASE k = c + 1
    <3>1. i # c + 1  BY <2>3
    <3> QED  BY <1>11, <2>0, <2>1, <2>3, <3>1
  <2>4. CASE i # c + 1 /\ k # c + 1
    <3>1. at(i) # at(k)  BY <1>1, <1>2, <2>4
    <3> HIDE DEF at
    <3> QED  BY <2>0, <2>1, <2>4, <3>1
  <2> QED  BY <2>2, <2>3, <2>4
<1>16. ToSet(w) = ToSet(l) \cup {row}
  <2>1. ToSet(w) = {w[i] : i \in 1 .. n + 1} /\ ToSet(l) = {l[i] : i \in 1 .. n}
    BY <1>1, <1>10 DEF ToSet
  <2>2. ASSUME NEW i \in 1 .. n + 1 PROVE w[i] \in ToSet(l) \cup {row}
    BY <1>11, <1>12, <1>13, <2>1
  <2>3. row \in ToSet(w)  BY <1>1, <1>2, <1>11, <2>1
  <2>4. ASSUME NEW i \in 1 .. n PROVE l[i] \in ToSet(w)
    <3>1. CASE i \in 1 .. c
      <4>1. i \in 1 .. n + 1  BY <1>1, <1>2
      <4> QED  BY <1>11, <2>1, <3>1, <4>1
    <3>2. CASE i \in c + 1 .. n
      <4>1. i + 1 \in c + 2 .. n + 1 /\ i + 1 \in 1 .. n + 1 /\ (i + 1) - 1 = i  BY <1>1, <1>2, <3>2
      <4>2. w[i + 1] = l[i]  BY <1>11, <4>1
      <4> QED  BY <2>1, <4>1, <4>2
    <3> QED  BY <1>13, <3>1, <3>2
  <2> QED  BY <2>1, <2>2, <2>3, <2>4
<1> QED  BY <1>9, <1>14, <1>15, <1>16 DEF w

(* The loop of refresh_wireless_list ...                                   *)
Adds(f, u, act, st) ==
  f[0] = <<>> /\ \A i \in 1 .. Len(u) : f[i] = Insert(f[i - 1], Row(u[i], act, st))

LEMMA InsertInSeq ==
  ASSUME NEW R, NEW l \in Seq(R), NEW row \in R
  PROVE  Insert(l, row) \in Seq(R)
<1> DEFINE n == Len(l)
           A == {i \in DOMAIN l : l[i].order >= row.order}
           c == Cardinality(A)
<1>1. n \in Nat /\ DOMAIN l = 1 .. n /\ \A i \in 1 .. n : l[i] \in R
  BY LenProperties
<1>2. c \in 0 .. n
  <2>1. IsFiniteSet(1 .. n) /\ Cardinality(1 .. n) = n
    <3>1. IsFiniteSet(1 .. n) /\ Cardinality(1 .. n) = IF 1 > n THEN 0 ELSE n - 1 + 1
      BY <1>1, FS_Interval
    <3> QED  BY <1>1, <3>1
  <2>2. A \subseteq 1 .. n  BY <1>1
  <2> HIDE DEF A
  <2>3. IsFiniteSet(A) /\ Cardinality(A) <= n  BY <2>1, <2>2, FS_Subset
  <2>4. Cardinality(A) \in Nat  BY <2>3, FS_CardinalityType
  <2> QED  BY <1>1, <2>3, <2>4
<1>3. Insert(l, row) = InsertAt(l, c + 1, row)
  BY DEF Insert
<1> HIDE DEF c, n
<1>4. SubSeq(l, 1, (c + 1) - 1) \in Seq(R) /\ SubSeq(l, c + 1, n) \in Seq(R)
  <2>1. (\A i \in 1 .. (c + 1) - 1 : i \in 1 .. n) /\ (\A i \in c + 1 .. n : i \in 1 .. n)
    BY <1>1, <1>2
  <2> QED  BY <1>1, <1>2, <2>1, SubSeqProperties
<1>5. <<row>> \in Seq(R)  OBVIOUS
<1>6. InsertAt(l, c + 1, row) \in Seq(R)
  BY <1>4, <1>5, ConcatProperties DEF InsertAt, n
<1> QED  BY <1>3, <1>6

LEMMA AddedLoop ==
  ASSUME NEW P, NEW list, NEW act, NEW st, get_strongest_unique_aps(list) \in Seq(P)
  PROVE  \E f : /\ Adds(f, get_strongest_unique_aps(list), act, st)
                /\ RowsOf(list, act, st) = Append(f[Len(get_strongest_unique_aps(list))], Other)
<1> DEFINE u == get_strongest_unique_aps(list)
           n == Len(u)
           B == Seq({Row(ap, act, st) : ap \in P})
           E(g, i) == IF i = 0 THEN <<>> ELSE Insert(g[i - 1], Row(u[i], act, st))
           F == CHOOSE g : g = [i \in 0 .. n |-> E(g, i)]
           step == [i \in 1 .. n |-> [s \in B |-> Insert(s, Row(u[i], act, st))]]
<1>1. RowsOf(list, act, st) = Append(F[n], Other)
  BY DEF RowsOf
<1> HIDE DEF u
<1>2. n \in Nat /\ \A i \in 1 .. n : u[i] \in P
  BY LenProperties DEF u
<1>3. step \in [1 .. n -> [B -> B]]
  <2>1. \A i \in 1 .. n : Row(u[i], act, st) \in {Row(ap, act, st) : ap \in P}
    BY <1>2
  <2>2. \A i \in 1 .. n, s \in B : Insert(s, Row(u[i], act, st)) \in B
    BY <2>1, InsertInSeq, Zenon
  <2> HIDE DEF B, n
  <2> QED  BY <2>2
<1>4. PICK f \in [0 .. n -> B] : Runs(f, <<>>, step, n)
  <2>1. <<>> \in B  OBVIOUS
  <2> HIDE DEF step, n, B
  <2> QED  BY <1>2, <1>3, <2>1, RunExists
<1> HIDE DEF n, B
<1>5. ASSUME NEW i \in 0 .. n PROVE f[i] = E(f, i)
  <2>1. CASE i = 0  BY <1>4, <2>1 DEF Runs
  <2>2. CASE i # 0
    <3>1. i \in 1 .. n /\ f[i - 1] \in B  BY <1>2, <2>2
    <3>2. f[i] = step[i][f[i - 1]]  BY <1>4, <3>1 DEF Runs
    <3> QED  BY <2>2, <3>1, <3>2
  <2> QED  BY <2>1, <2>2
<1> HIDE DEF E
<1>6. f = [i \in 0 .. n |-> E(f, i)]
  BY <1>4, <1>5
<1>7. F = [i \in 0 .. n |-> E(F, i)]
  BY <1>6
<1> HIDE DEF F
<1>8. \A i \in 0 .. n : F[i] = E(F, i)
  BY <1>7
<1>9. F[0] = <<>>
  <2>1. 0 \in 0 .. n  BY <1>2
  <2> QED  BY <1>8, <2>1 DEF E
<1>10. ASSUME NEW i \in 1 .. n PROVE F[i] = Insert(F[i - 1], Row(u[i], act, st))
  <2>1. i \in 0 .. n /\ i # 0  BY <1>2
  <2> QED  BY <1>8, <2>1 DEF E
<1>11. Adds(F, u, act, st)
  BY <1>9, <1>10 DEF Adds, n
<1> QED  BY <1>1, <1>11 DEF n, u

(* ... adds the row of each access point, in order.                        *)
LEMMA RowKinds ==
  ASSUME NEW ap, NEW act, NEW st, ap.strength \in 0 .. 100
  PROVE  LET row == Row(ap, act, st) IN
         /\ row.ssid = ap.ssid /\ row.signal = Signal(ap.strength)
         /\ row.mark # None <=> ap.ssid = act /\ st \in Busy
         /\ row.order \in Nat /\ ap.strength <= row.order
         /\ row.mark = None => row.order = ap.strength
         /\ row.mark # None <=> row.order > 100
<1> DEFINE row == Row(ap, act, st)
<1>1. None \notin Busy  BY DEF None, Busy
<1>2. /\ row.ssid = ap.ssid /\ row.signal = Signal(ap.strength)
      /\ row.mark # None <=> ap.ssid = act /\ st \in Busy
      /\ row.mark = None => row.order = ap.strength
      /\ row.mark # None => row.order = G_MAXUINT
  BY <1>1 DEF Row
<1> HIDE DEF row
<1>3. row.mark = None => row.order \in Nat /\ ap.strength <= row.order /\ ~(row.order > 100)
  BY <1>2
<1>4. row.mark # None => row.order \in Nat /\ ap.strength <= row.order /\ row.order > 100
  BY <1>2 DEF G_MAXUINT
<1> QED  BY <1>2, <1>3, <1>4 DEF row

Percents(P) == \A ap \in P : ap.strength \in 0 .. 100

RowsFor(S, act, st) == {Row(ap, act, st) : ap \in S}

LEMMA AddedAreRows ==
  ASSUME NEW P, Percents(P), NEW act, NEW st,
         NEW u \in Seq(P), IsInjective(u),
         \A e, d \in ToSet(u) : e.ssid = d.ssid => e = d,
         NEW f, Adds(f, u, act, st)
  PROVE  /\ f[Len(u)] \in Seq(RowsFor(P, act, st))
         /\ Sorted(f[Len(u)]) /\ IsInjective(f[Len(u)])
         /\ ToSet(f[Len(u)]) = RowsFor(ToSet(u), act, st)
<1> DEFINE n == Len(u)
           R == RowsFor(P, act, st)
           Until(m) == {Row(u[i], act, st) : i \in 1 .. m}
<1>1. n \in Nat /\ DOMAIN u = 1 .. n /\ \A i \in 1 .. n : u[i] \in P /\ u[i] \in ToSet(u)
  BY LenProperties DEF ToSet
<1>2. \A r \in R : r.order \in Nat
  BY RowKinds DEF Percents, RowsFor
<1>3. \A i, k \in 1 .. n : Row(u[i], act, st) = Row(u[k], act, st) => i = k
  <2> SUFFICES ASSUME NEW i \in 1 .. n, NEW k \in 1 .. n, Row(u[i], act, st) = Row(u[k], act, st)
               PROVE  i = k
    OBVIOUS
  <2>1. u[i].ssid = u[k].ssid  BY <1>1, RowKinds DEF Percents
  <2>2. u[i] = u[k]  BY <1>1, <2>1
  <2> QED  BY <1>1, <2>2 DEF IsInjective
<1>4. Until(n) = RowsFor(ToSet(u), act, st)
  <2>1. ToSet(u) = {u[i] : i \in 1 .. n}  BY <1>1 DEF ToSet
  <2> QED  BY <2>1 DEF RowsFor
<1> DEFINE Right(m) == /\ f[m] \in Seq(R) /\ Sorted(f[m]) /\ IsInjective(f[m])
                       /\ ToSet(f[m]) = Until(m)
           G == {m \in Nat : m <= n => Right(m)}
<1>5. 0 \in G
  <2>1. f[0] = <<>>  BY DEF Adds
  <2>2. Until(0) = {}  OBVIOUS
  <2>3. Sorted(<<>>)  BY DEF Sorted
  <2>4. Right(0)  BY <2>1, <2>2, <2>3, EmptyOnce
  <2> QED  BY <2>4
<1>6. ASSUME NEW m \in Nat, m \in G
      PROVE  m + 1 \in G
  <2> SUFFICES ASSUME m + 1 <= n PROVE Right(m + 1)
    OBVIOUS
  <2>1. m <= n /\ m + 1 \in 1 .. n /\ (m + 1) - 1 = m /\ 1 .. m + 1 = (1 .. m) \cup {m + 1}
        /\ \A i \in 1 .. m : i \in 1 .. n /\ i # m + 1
    BY <1>1
  <2>2. Right(m)  BY <1>6, <2>1
  <2> DEFINE row == Row(u[m + 1], act, st)
  <2>3. f[m + 1] = Insert(f[m], row)  BY <2>1 DEF Adds
  <2>4. row \in R  BY <1>1, <2>1 DEF RowsFor
  <2>5. Until(m + 1) = Until(m) \cup {row}  BY <2>1
  <2>6. row \notin Until(m)  BY <1>3, <2>1
  <2> HIDE DEF row, R, Until
  <2>7. /\ Insert(f[m], row) \in Seq(R) /\ Sorted(Insert(f[m], row)) /\ IsInjective(Insert(f[m], row))
        /\ ToSet(Insert(f[m], row)) = ToSet(f[m]) \cup {row}
    BY <1>2, <2>2, <2>4, <2>6, InsertSorted
  <2> QED  BY <2>2, <2>3, <2>5, <2>7
<1>7. Nat \subseteq G
  <2> HIDE DEF G
  <2> QED  BY <1>5, <1>6, Induction
<1>8. Right(n)
  <2>1. n \in G /\ n <= n
    <3> HIDE DEF G
    <3> QED  BY <1>1, <1>7
  <2> HIDE DEF Right
  <2> QED  BY <2>1
<1> QED  BY <1>4, <1>8

(* The rows are what they are to be.                                       *)
RightRows(shown, list, act, st) ==
  LET found == {ap \in ToSet(list) : ap.ssid # None}
      best == {ap \in found : \A b \in found : b.ssid = ap.ssid => b.strength <= ap.strength}
      named == 1 .. Len(shown) - 1
  IN /\ shown # <<>> /\ Last(shown) = Other
     /\ {shown[i].ssid : i \in named} = {ap.ssid : ap \in found}
     /\ \A i \in named : \E ap \in best :
          /\ shown[i].ssid = ap.ssid /\ shown[i].signal = Signal(ap.strength)
          /\ shown[i].mark # None <=> ap.ssid = act /\ st \in Busy
          /\ shown[i].mark # None => i = 1
          /\ \A k \in named : k > i =>
               /\ shown[k].ssid # ap.ssid
               /\ shown[i].mark = None =>
                    \A b \in found : b.ssid = shown[k].ssid => b.strength <= ap.strength

LEMMA RowsRight ==
  ASSUME NEW P, Percents(P), NEW list \in Seq(P), NEW act, NEW st
  PROVE  RightRows(RowsOf(list, act, st), list, act, st)
<1>0. \A ap \in P : ap.strength \in Nat
  <2>1. \A n \in 0 .. 100 : n \in Nat  OBVIOUS
  <2> QED  BY <2>1, Zenon DEF Percents
<1> DEFINE u == get_strongest_unique_aps(list)
           C == ToSet(u)
           found == {ap \in ToSet(list) : ap.ssid # None}
           best == {ap \in found : \A b \in found : b.ssid = ap.ssid => b.strength <= ap.strength}
           shown == RowsOf(list, act, st)
<1>1. u \in Seq(P) /\ IsInjective(u) /\ StrongestOf(C, list, Len(list))
  BY <1>0, UniqueAreStrongest, Zenon
<1>2. PICK f : Adds(f, u, act, st) /\ shown = Append(f[Len(u)], Other)
  BY <1>1, AddedLoop
<1> HIDE DEF u, shown
<1> DEFINE l == f[Len(u)]
           n == Len(l)
           R == RowsFor(P, act, st)
<1>3. /\ \A e \in C : e.ssid # None /\ \E k \in 1 .. Len(list) : list[k] = e
      /\ \A e, d \in C : e.ssid = d.ssid => e = d
      /\ \A k \in 1 .. Len(list) : list[k].ssid # None =>
           \E e \in C : e.ssid = list[k].ssid /\ list[k].strength <= e.strength
  BY <1>1 DEF StrongestOf
<1>4. l \in Seq(R) /\ Sorted(l) /\ IsInjective(l) /\ ToSet(l) = RowsFor(C, act, st)
  <2> HIDE DEF R, l
  <2>1. /\ f[Len(u)] \in Seq(RowsFor(P, act, st)) /\ Sorted(f[Len(u)])
        /\ IsInjective(f[Len(u)])
        /\ ToSet(f[Len(u)]) = RowsFor(ToSet(u), act, st)
    <3>1. u \in Seq(P) /\ IsInjective(u) /\ Adds(f, u, act, st)  BY <1>1, <1>2
    <3>2. \A e, d \in ToSet(u) : e.ssid = d.ssid => e = d  BY <1>3
    <3>3. Percents(P)  OBVIOUS
    <3> HIDE DEF C, n, found, best
    <3>4. f[Len(u)] \in Seq(RowsFor(P, act, st))  BY <3>1, <3>2, <3>3, AddedAreRows
    <3>5. Sorted(f[Len(u)])  BY <3>1, <3>2, <3>3, AddedAreRows
    <3>6. IsInjective(f[Len(u)])  BY <3>1, <3>2, <3>3, AddedAreRows
    <3>7. ToSet(f[Len(u)]) = RowsFor(ToSet(u), act, st)  BY <3>1, <3>2, <3>3, AddedAreRows
    <3> QED  BY <3>4, <3>5, <3>6, <3>7
  <2> QED  BY <2>1 DEF R, l
<1>5. /\ \A ap \in found : ap.ssid # None /\ ap \in P /\ ap.strength \in 0 .. 100
      /\ \A ap \in found : \E k \in 1 .. Len(list) : list[k] = ap
      /\ \A k \in 1 .. Len(list) : list[k].ssid # None => list[k] \in found
  BY LenProperties DEF ToSet, Percents
<1> HIDE DEF C, l, n, found
<1>6. /\ \A e \in C : e \in best
      /\ \A ap \in found : \E e \in C : e.ssid = ap.ssid
  <2>1. ASSUME NEW e \in C PROVE e \in best
    <3>1. e \in found  BY <1>3, <1>5
    <3>2. ASSUME NEW b \in found, b.ssid = e.ssid PROVE b.strength <= e.strength
      <4>1. PICK d \in C : d.ssid = b.ssid /\ b.strength <= d.strength  BY <1>3, <1>5
      <4>2. d = e  BY <1>3, <3>2, <4>1
      <4> QED  BY <4>1, <4>2
    <3> QED  BY <3>1, <3>2
  <2>2. ASSUME NEW ap \in found PROVE \E e \in C : e.ssid = ap.ssid
    BY <1>3, <1>5
  <2> QED  BY <2>1, <2>2
<1>7. n \in Nat /\ DOMAIN l = 1 .. n /\ \A r : r \in ToSet(l) <=> \E i \in 1 .. n : l[i] = r
  BY <1>4, LenProperties DEF n, ToSet
<1>8. /\ shown # <<>> /\ Last(shown) = Other /\ 1 .. Len(shown) - 1 = 1 .. n
      /\ \A i \in 1 .. n : shown[i] = l[i]
  <2> DEFINE S == R \cup {Other}
  <2>1. l \in Seq(S)
    <3>1. R \subseteq S  OBVIOUS
    <3> HIDE DEF S, R
    <3> QED  BY <1>4, <3>1, SeqMonotonic
  <2>2. Other \in S  OBVIOUS
  <2> HIDE DEF S, R
  <2>3. /\ shown \in Seq(S) /\ Len(shown) = n + 1
        /\ \A i \in 1 .. n : shown[i] = l[i]
        /\ shown[n + 1] = Other
    BY <1>2, <2>1, <2>2, AppendProperties DEF l, n
  <2>4. shown # <<>>  BY <1>7, <2>3
  <2>5. Len(shown) - 1 = n  BY <1>7, <2>3
  <2> QED  BY <2>3, <2>4, <2>5 DEF Last
<1>9. \A i \in 1 .. n : \E e \in C : l[i] = Row(e, act, st)
  BY <1>4, <1>7 DEF RowsFor
<1>10. \A e \in C : \E i \in 1 .. n : l[i] = Row(e, act, st)
  BY <1>4, <1>7 DEF RowsFor
<1>11. \A e \in C : e.strength \in 0 .. 100 /\ e \in found
  BY <1>5, <1>6
<1>12. {shown[i].ssid : i \in 1 .. n} = {ap.ssid : ap \in found}
  <2>1. ASSUME NEW i \in 1 .. n PROVE shown[i].ssid \in {ap.ssid : ap \in found}
    <3>1. PICK e \in C : l[i] = Row(e, act, st)  BY <1>9
    <3>2. Row(e, act, st).ssid = e.ssid  BY <1>11, RowKinds
    <3> QED  BY <1>8, <1>11, <3>1, <3>2
  <2>2. ASSUME NEW ap \in found PROVE ap.ssid \in {shown[i].ssid : i \in 1 .. n}
    <3>1. PICK e \in C : e.ssid = ap.ssid  BY <1>6
    <3>2. PICK i \in 1 .. n : l[i] = Row(e, act, st)  BY <1>10
    <3>3. Row(e, act, st).ssid = e.ssid  BY <1>11, RowKinds
    <3> QED  BY <1>8, <3>1, <3>2, <3>3
  <2> QED  BY <2>1, <2>2
<1>13. ASSUME NEW i \in 1 .. n
       PROVE  \E ap \in best :
                /\ shown[i].ssid = ap.ssid /\ shown[i].signal = Signal(ap.strength)
                /\ shown[i].mark # None <=> ap.ssid = act /\ st \in Busy
                /\ shown[i].mark # None => i = 1
                /\ \A k \in 1 .. n : k > i =>
                     /\ shown[k].ssid # ap.ssid
                     /\ shown[i].mark = None =>
                          \A b \in found : b.ssid = shown[k].ssid => b.strength <= ap.strength
  <2>1. PICK e \in C : l[i] = Row(e, act, st)  BY <1>9
  <2>2. /\ shown[i] = l[i] /\ l[i].ssid = e.ssid /\ l[i].signal = Signal(e.strength)
        /\ l[i].mark # None <=> e.ssid = act /\ st \in Busy
        /\ l[i].mark = None => l[i].order = e.strength
        /\ l[i].mark # None <=> l[i].order > 100
        /\ l[i].order \in Nat
    BY <1>8, <1>11, <2>1, RowKinds
  <2>3. e \in best /\ e.strength \in 0 .. 100  BY <1>6, <1>11
  <2>4. ASSUME NEW k \in 1 .. n, k # i PROVE l[k].ssid # l[i].ssid
    <3>1. PICK d \in C : l[k] = Row(d, act, st)  BY <1>9
    <3>2. l[k].ssid = d.ssid  BY <1>11, <3>1, RowKinds
    <3>3. d # e  BY <1>4, <1>7, <2>1, <2>4, <3>1 DEF IsInjective
    <3> QED  BY <1>3, <2>2, <3>2, <3>3
  <2>5. ASSUME l[i].mark # None PROVE i = 1
    <3> SUFFICES ASSUME i # 1 PROVE FALSE
      OBVIOUS
    <3>1. 1 \in 1 .. n /\ 1 < i  BY <1>7
    <3>2. l[1].order >= l[i].order  BY <1>4, <1>7, <3>1 DEF Sorted
    <3>3. PICK d \in C : l[1] = Row(d, act, st)  BY <1>9, <3>1
    <3>4. /\ l[1].ssid = d.ssid
          /\ l[1].mark # None <=> d.ssid = act /\ st \in Busy
          /\ l[1].mark # None <=> l[1].order > 100
          /\ l[1].order \in Nat
      BY <1>11, <3>3, RowKinds
    <3>5. l[1].mark # None
      <4>1. l[1].order > 100
        <5>1. l[i].order > 100  BY <2>2, <2>5
        <5> QED  BY <2>2, <3>2, <3>4, <5>1
      <4> QED  BY <3>4, <4>1
    <3>6. l[1].ssid = l[i].ssid  BY <2>2, <2>5, <3>4, <3>5
    <3> QED  BY <2>4, <3>1, <3>6
  <2>6. ASSUME NEW k \in 1 .. n, k > i, l[i].mark = None,
               NEW b \in found, b.ssid = l[k].ssid
        PROVE  b.strength <= e.strength
    <3>1. PICK d \in C : l[k] = Row(d, act, st)  BY <1>9
    <3>2. l[k].ssid = d.ssid /\ l[k].order \in Nat /\ d.strength <= l[k].order
      BY <1>11, <3>1, RowKinds
    <3>3. l[i].order >= l[k].order  BY <1>4, <1>7, <2>6 DEF Sorted
    <3>4. l[i].order = e.strength  BY <2>2, <2>6
    <3>5. d.strength \in 0 .. 100 /\ b.strength \in 0 .. 100  BY <1>5, <1>11, <2>6
    <3>6. b.strength <= d.strength
      <4>1. d \in best /\ b.ssid = d.ssid  BY <1>6, <2>6, <3>2
      <4> QED  BY <2>6, <4>1
    <3> DEFINE x == d.strength
               y == e.strength
               z == l[k].order
               v == b.strength
    <3>7. /\ x \in 0 .. 100 /\ y \in 0 .. 100 /\ v \in 0 .. 100 /\ z \in Nat
          /\ x <= z /\ y >= z /\ v <= x
      BY <2>3, <3>2, <3>3, <3>4, <3>5, <3>6
    <3> HIDE DEF x, y, z, v
    <3>8. v <= y  BY <3>7
    <3> QED  BY <3>8 DEF v, y
  <2>7. \A k \in 1 .. n : k > i =>
          /\ shown[k].ssid # e.ssid
          /\ shown[i].mark = None => \A b \in found : b.ssid = shown[k].ssid => b.strength <= e.strength
    BY <1>8, <2>2, <2>4, <2>6
  <2> QED  BY <2>2, <2>3, <2>5, <2>7
<1>14. QED
  BY <1>8, <1>12, <1>13 DEF RightRows, shown, found

(* What the device sees is something that can be received.                 *)
AirInv ==
  /\ aps \in Airs \cup {<<>>} /\ state \in States
  /\ active \in Names(Airs) \cup {Hidden, None}

LEMMA SameNames ==
  /\ Network!Names(Airs) = Names(Airs) /\ Network!States = States /\ Network!Busy = Busy
  /\ Network!None = None /\ Network!Hidden = Hidden /\ Network!Other = Other
  /\ \A s : Network!ToSet(s) = ToSet(s) /\ Network!Last(s) = Last(s)
  /\ \A n : Network!Signal(n) = Signal(n)
<1>1. \A S : Network!Cardinality(S) = Cardinality(S)
  BY DEF Network!Cardinality, Cardinality
<1>2. \A n : Network!Signal(n) = Signal(n)
  BY <1>1, Zenon DEF Network!Signal, Signal
<1>3. \A s : Network!ToSet(s) = ToSet(s) /\ Network!Last(s) = Last(s)
  BY Zenon DEF Network!ToSet, ToSet, Network!Last, Last
<1>4. Network!None = None /\ Network!Hidden = Hidden /\ Network!Busy = Busy
  BY DEF Network!None, None, Network!Hidden, Hidden, Network!Busy, Busy
<1>5. Network!States = States /\ Network!Other = Other
  BY <1>4, Zenon DEF Network!States, States, Network!Other, Other
<1>6. Network!Names(Airs) = Names(Airs)
  BY <1>3, <1>4, Zenon DEF Network!Names, Names
<1> QED  BY <1>2, <1>3, <1>4, <1>5, <1>6

LEMMA SyncAir ==
  ASSUME AirInv, UNCHANGED <<aps, active>>, state' \in States
  PROVE  AirInv'
BY DEF AirInv

LEMMA FindBestAir ==
  ASSUME AirInv, NEW devices, NEW mgd, Network!FindBest(devices, mgd)
  PROVE  AirInv'
<1>1. CASE UNCHANGED <<state, active, aps>>
  BY <1>1 DEF AirInv
<1>2. ASSUME NEW s \in {"disconnected", "activated"}, NEW a \in Airs, NEW n \in Names(Airs),
             IF enabled /\ hardware
             THEN state' = s /\ aps' = a /\ active' = IF s = "activated" THEN n ELSE None
             ELSE state' = "unavailable" /\ aps' = <<>> /\ active' = None
      PROVE  AirInv'
  BY <1>2 DEF AirInv, States, Busy
<1> QED  BY <1>1, <1>2, SameNames DEF Network!FindBest

LEMMA AirInit ==
  ASSUME Network!Init
  PROVE  AirInv
BY SameNames DEF Network!Init, AirInv, States

LEMMA AirStep ==
  ASSUME AirInv, [Network!Next]_(Network!vars)
  PROVE  AirInv'
<1>1. ASSUME UNCHANGED <<state, active, aps>>
      PROVE  AirInv'
  BY <1>1 DEF AirInv
<1>2. CASE Network!Shown \/ Network!Timer \/ Network!ConnectionChanges
  BY <1>1, <1>2 DEF Network!Shown, Network!Timer, Network!ConnectionChanges, Network!nm
<1>3. CASE Network!DeviceAvailable
  BY <1>3 DEF Network!DeviceAvailable, AirInv, States
<1>4. ASSUME NEW d, NEW m, Network!DeviceAdded(d, m) \/ Network!DeviceRemoved(d) \/ Network!DeviceManaged(d)
      PROVE  AirInv'
  BY <1>4, FindBestAir DEF Network!DeviceAdded, Network!DeviceRemoved, Network!DeviceManaged
<1>5. ASSUME NEW s \in {"disconnected"} \cup Busy, NEW n \in Names(Airs) \cup {Hidden, None},
             Network!StateChanges(s, n)
      PROVE  AirInv'
  BY <1>5 DEF Network!StateChanges, AirInv, States
<1>6. ASSUME NEW a \in Airs, Network!AirChanges(a)
      PROVE  AirInv'
  BY <1>6 DEF Network!AirChanges, AirInv
<1>7. ASSUME NEW on, NEW hw, Network!RadioSwitched(on, hw)
      PROVE  AirInv'
  BY <1>7, SameNames DEF Network!RadioSwitched, AirInv, States
<1>8. ASSUME NEW row, Network!RowActivated(row)
      PROVE  AirInv'
  BY <1>1, <1>8 DEF Network!RowActivated, Network!nm
<1>9. ASSUME NEW ok, Network!DialogAnswered(ok)
      PROVE  AirInv'
  BY <1>1, <1>9 DEF Network!DialogAnswered, Network!nm
<1>10. CASE UNCHANGED Network!vars
  BY <1>1, <1>10 DEF Network!vars, Network!nm
<1>11. ASSUME Network!Next PROVE AirInv'
  BY <1>2, <1>3, <1>4, <1>5, <1>6, <1>7, <1>8, <1>9, <1>11, SameNames DEF Network!Next
<1> QED  BY <1>10, <1>11

(* The rows change with the timer and for no other reason, to those of what*)
(* can be received then.                                                   *)
LEMMA RowsChange ==
  ASSUME AirInv, [Network!Next]_(Network!vars), rows' # rows, rows' # <<>>
  PROVE  aps \in Airs /\ rows' = RowsOf(aps, active, state)
<1>1. Network!Timer
  BY DEF Network!Next, Network!Shown, Network!DeviceAvailable, Network!ConnectionChanges,
         Network!DeviceAdded, Network!DeviceRemoved, Network!DeviceManaged, Network!StateChanges,
         Network!AirChanges, Network!RadioSwitched, Network!RowActivated, Network!DialogAnswered,
         Network!shown, Network!vars
<1>2. aps # <<>> /\ rows' = List[aps][active][state]
  BY <1>1 DEF Network!Timer, Network!refresh_wireless_list
<1>3. aps \in Airs  BY <1>2 DEF AirInv
<1>4. List[aps] = [act \in Names(Airs) \cup {Hidden, None} |->
                     [st \in States |-> RowsOf(aps, act, st)]]
  BY <1>3 DEF List, Lists
<1>5. List[aps][active][state] = RowsOf(aps, active, state)
  BY <1>4 DEF AirInv
<1> QED  BY <1>2, <1>3, <1>5

LEMMA RightIsListed ==
  ASSUME NEW list, RightRows(list, aps, active, state)
  PROVE  Network!IsListed(list)
BY Zenon
DEF RightRows, Network!IsListed, Network!ToSet, ToSet, Network!Last, Last, Network!Other, Other,
    Network!None, None, Network!Busy, Busy, Network!Signal, Signal, Network!Cardinality, Cardinality

(* Each refresh, whatever it finds and in whatever order, and however often*)
(* the air, the connection and the radio have changed since the last one,  *)
(* lists each name once, by its strongest access point, the network in use *)
(* first, then the stronger before the weaker, and "Other..." last.        *)
THEOREM RowsAreOfStrongest == Spec => RowsAreStrongest
<1> DEFINE Inv == page = "network" => AirInv
<1>1. Init => Inv  BY PageInit, AirInit
<1>2. Inv /\ [Next]_vars => Inv'  BY PageStep, AirStep
<1>3. Percents(AccessPoint)  BY DEF Percents, AccessPoint
<1>4. ASSUME AirInv, [Network!Next]_(Network!vars) PROVE Network!ListIsRight
  <2> SUFFICES ASSUME rows' # rows, rows' # <<>> PROVE Network!IsListed(rows')
    BY DEF Network!ListIsRight
  <2>1. aps \in Airs /\ rows' = RowsOf(aps, active, state)
    BY <1>4, RowsChange
  <2>2. aps \in Seq(AccessPoint)  BY <2>1, AirsAssumption
  <2>3. RightRows(RowsOf(aps, active, state), aps, active, state)
    BY <1>3, <2>2, RowsRight
  <2> QED  BY <2>1, <2>3, RightIsListed
<1>5. Inv /\ [Next]_vars => [page = "network" => Network!ListIsRight]_vars
  BY <1>4, PageStep
<1> QED  BY <1>1, <1>2, <1>5, PTL DEF Spec, RowsAreStrongest

-----------------------------------------------------------------------------
(* The types of the pages.                                                 *)

NetworkTypes ==
  /\ managed \subseteq present /\ present \subseteq Wifi \cup Wired
  /\ nm_device \in Wifi \cup {Network!None}
  /\ refresh_timeout \in {Network!None, "second", "periodic"}
  /\ message \in {Network!None, "disabled", "checking"}
  /\ lost \in BOOLEAN /\ ever_shown \in BOOLEAN /\ visible \in BOOLEAN
  /\ complete \in BOOLEAN /\ turn_on \in BOOLEAN /\ dialog \in BOOLEAN

LEMMA NetworkTypesInit ==
  ASSUME Network!Init
  PROVE  NetworkTypes
<1> DEFINE found == present \cap Wifi
<1>1. nm_device \in Wifi \cup {Network!None}
  <2>1. nm_device = IF found = {} THEN Network!None ELSE CHOOSE d \in found : TRUE
    BY DEF Network!Init
  <2> QED  BY <2>1
<1>2. present \subseteq Wifi /\ managed = present
  BY DEF Network!Init
<1>3. refresh_timeout \in {Network!None, "second"} /\ message = Network!None
  BY DEF Network!Init
<1>4. /\ lost \in BOOLEAN /\ ever_shown \in BOOLEAN /\ visible \in BOOLEAN
      /\ complete \in BOOLEAN /\ turn_on \in BOOLEAN /\ dialog \in BOOLEAN
  BY DEF Network!Init
<1> QED  BY <1>1, <1>2, <1>3, <1>4 DEF NetworkTypes

LEMMA SyncTypes ==
  ASSUME NetworkTypes, NEW device, NEW st, Network!Sync(device, st)
  PROVE  /\ visible' \in BOOLEAN /\ complete' \in BOOLEAN
         /\ refresh_timeout' \in {Network!None, "second", "periodic"}
BY DEF NetworkTypes, Network!Sync

LEMMA FindBestTypes ==
  ASSUME NetworkTypes, NEW devices, NEW mgd, Network!FindBest(devices, mgd)
  PROVE  /\ nm_device' \in Wifi \cup {Network!None}
         /\ visible' \in BOOLEAN /\ complete' \in BOOLEAN
         /\ refresh_timeout' \in {Network!None, "second", "periodic"}
<1>1. ASSUME UNCHANGED <<nm_device, visible, complete, refresh_timeout>>
      PROVE  /\ nm_device' \in Wifi \cup {Network!None}
             /\ visible' \in BOOLEAN /\ complete' \in BOOLEAN
             /\ refresh_timeout' \in {Network!None, "second", "periodic"}
  BY <1>1 DEF NetworkTypes
<1>2. \/ UNCHANGED <<nm_device, visible, complete, refresh_timeout>>
      \/ /\ nm_device' \in Wifi \cup {Network!None}
         /\ \E device, st : Network!Sync(device, st)
  BY DEF Network!FindBest, NetworkTypes
<1> QED  BY <1>1, <1>2, SyncTypes

LEMMA NetworkTypesStep ==
  ASSUME NetworkTypes, [Network!Next]_(Network!vars)
  PROVE  NetworkTypes'
<1>1. CASE Network!Shown \/ Network!ConnectionChanges
  BY <1>1 DEF Network!Shown, Network!ConnectionChanges, Network!nm, Network!shown, NetworkTypes
<1>2. CASE Network!Timer
  BY <1>2 DEF Network!Timer, Network!refresh_wireless_list, Network!nm, NetworkTypes
<1>3. CASE Network!DeviceAvailable
  BY <1>3, SyncTypes DEF Network!DeviceAvailable, Network!shown, NetworkTypes
<1>4. ASSUME NEW d \in Wifi \cup Wired, NEW m \in BOOLEAN,
             Network!DeviceAdded(d, m) \/ Network!DeviceRemoved(d) \/ Network!DeviceManaged(d)
      PROVE  NetworkTypes'
  <2>1. \E devices, mgd : Network!FindBest(devices, mgd)
    BY <1>4 DEF Network!DeviceAdded, Network!DeviceRemoved, Network!DeviceManaged
  <2>2. /\ managed' \subseteq present' /\ present' \subseteq Wifi \cup Wired
        /\ lost' \in BOOLEAN
        /\ UNCHANGED <<ever_shown, message, turn_on, dialog>>
    BY <1>4 DEF Network!DeviceAdded, Network!DeviceRemoved, Network!DeviceManaged, Network!shown,
                NetworkTypes
  <2> QED  BY <2>1, <2>2, FindBestTypes DEF NetworkTypes
<1>5. ASSUME NEW s, NEW n, Network!StateChanges(s, n)
      PROVE  NetworkTypes'
  BY <1>5, SyncTypes DEF Network!StateChanges, Network!shown, NetworkTypes
<1>6. ASSUME NEW a, Network!AirChanges(a)
      PROVE  NetworkTypes'
  BY <1>6 DEF Network!AirChanges, Network!shown, NetworkTypes
<1>7. ASSUME NEW on, NEW hw, Network!RadioSwitched(on, hw)
      PROVE  NetworkTypes'
  BY <1>7, SyncTypes DEF Network!RadioSwitched, Network!shown, NetworkTypes
<1>8. ASSUME NEW row, Network!RowActivated(row)
      PROVE  NetworkTypes'
  BY <1>8 DEF Network!RowActivated, Network!nm, Network!shown, NetworkTypes
<1>9. ASSUME NEW ok, Network!DialogAnswered(ok)
      PROVE  NetworkTypes'
  BY <1>9 DEF Network!DialogAnswered, Network!nm, Network!shown, NetworkTypes
<1>10. CASE UNCHANGED Network!vars
  BY <1>10 DEF Network!vars, Network!nm, Network!shown, NetworkTypes
<1>11. ASSUME Network!Next PROVE NetworkTypes'
  BY <1>1, <1>2, <1>3, <1>4, <1>5, <1>6, <1>7, <1>8, <1>9, <1>11 DEF Network!Next
<1> QED  BY <1>10, <1>11

TimezoneTypes ==
  /\ geo \in {"off", "starting", "ready", "failed"}
  /\ location \in Timezone!Places \cup {Timezone!None}
  /\ loading \in Nat /\ complete \in BOOLEAN /\ overlay = ~complete

LEMMA TimezoneTypesInit ==
  ASSUME Timezone!Init
  PROVE  TimezoneTypes
BY DEF Timezone!Init, TimezoneTypes

LEMMA TextSetTypes ==
  ASSUME NEW t, NEW loc \in Timezone!Places \cup {Timezone!None},
         NEW g \in {"off", "starting", "ready", "failed"}, Timezone!TextSet(t, loc, g)
  PROVE  /\ geo' \in {"off", "starting", "ready", "failed"}
         /\ location' \in Timezone!Places \cup {Timezone!None}
BY DEF Timezone!TextSet

LEMMA SetLocationTypes ==
  ASSUME NEW p, Timezone!SetLocation(p)
  PROVE  complete' = TRUE /\ overlay' = FALSE
BY DEF Timezone!SetLocation, Timezone!Pinned

LEMMA TimezoneTypesStep ==
  ASSUME TimezoneTypes, SearchInv', [Timezone!Next]_(Timezone!vars)
  PROVE  TimezoneTypes'
<1>1. CASE alive'
  <2>0. loading' = 0 \/ loading' = 1
    BY <1>1 DEF SearchInv, Timezone!SearchIsForText
  <2>1. loading' \in Nat
    BY <2>0
  <2>2. CASE Timezone!GeoFails \/ Timezone!NoMatches \/ Timezone!Apply
    BY <2>1, <2>2 DEF Timezone!GeoFails, Timezone!NoMatches, Timezone!Apply, Timezone!entry,
                      Timezone!map, TimezoneTypes
  <2>3. CASE Timezone!Destroy
    BY <1>1, <2>3 DEF Timezone!Destroy
  <2>4. ASSUME NEW p \in Timezone!Places, Timezone!GeoLocated(p)
        PROVE  TimezoneTypes'
    <3>1. complete' = TRUE /\ overlay' = FALSE
      BY <2>4, SetLocationTypes DEF Timezone!GeoLocated
    <3>2. \/ Timezone!TextSet("", location, "ready")
          \/ geo' = "ready" /\ location' = location
      BY <2>4 DEF Timezone!GeoLocated, Timezone!entry
    <3> QED  BY <2>1, <3>1, <3>2, TextSetTypes DEF TimezoneTypes
  <2>5. ASSUME NEW p \in Timezone!Places, Timezone!Select(p)
        PROVE  TimezoneTypes'
    <3>1. complete' = TRUE /\ overlay' = FALSE
      BY <2>5, SetLocationTypes DEF Timezone!Select
    <3>2. Timezone!TextSet(p, p, "off")
      BY <2>5 DEF Timezone!Select, Timezone!SetLocationInternal
    <3> QED  BY <2>1, <3>1, <3>2, TextSetTypes DEF TimezoneTypes
  <2>6. ASSUME NEW t, Timezone!Type(t)
        PROVE  TimezoneTypes'
    <3>1. Timezone!TextSet(t, location, geo) /\ UNCHANGED <<complete, overlay>>
      BY <2>6 DEF Timezone!Type, Timezone!map
    <3> QED  BY <2>1, <3>1, TextSetTypes DEF TimezoneTypes
  <2>7. ASSUME NEW z, Timezone!MapClicked(z)
        PROVE  TimezoneTypes'
    <3>1. Timezone!TextSet("", location, geo) /\ complete' = TRUE /\ overlay' = FALSE
      BY <2>7 DEF Timezone!MapClicked, Timezone!Pinned
    <3> QED  BY <2>1, <3>1, TextSetTypes DEF TimezoneTypes
  <2>8. ASSUME NEW ok, Timezone!GotPlaces(ok) \/ Timezone!Served(ok)
        PROVE  TimezoneTypes'
    BY <2>1, <2>8 DEF Timezone!GotPlaces, Timezone!Served, Timezone!entry, Timezone!map,
                      TimezoneTypes
  <2>9. CASE UNCHANGED Timezone!vars
    BY <2>9 DEF Timezone!vars, Timezone!entry, Timezone!map, TimezoneTypes
  <2> QED  BY <2>2, <2>3, <2>4, <2>5, <2>6, <2>7, <2>8, <2>9 DEF Timezone!Next
<1>2. CASE ~alive'
  <2>1. ASSUME NEW x,
               \/ Timezone!GeoFails \/ Timezone!NoMatches \/ Timezone!Apply
               \/ Timezone!GeoLocated(x) \/ Timezone!Select(x) \/ Timezone!Type(x)
               \/ Timezone!MapClicked(x) \/ Timezone!GotPlaces(x)
        PROVE  FALSE
    <3>1. alive
      BY <2>1 DEF Timezone!GeoFails, Timezone!NoMatches, Timezone!Apply, Timezone!GeoLocated,
                  Timezone!Select, Timezone!Type, Timezone!MapClicked, Timezone!GotPlaces,
                  Timezone!Input
    <3>2. alive' = alive
      BY <2>1 DEF Timezone!GeoFails, Timezone!NoMatches, Timezone!Apply, Timezone!GeoLocated,
                  Timezone!Select, Timezone!Type, Timezone!MapClicked, Timezone!GotPlaces
    <3> QED  BY <1>2, <3>1, <3>2, Zenon
  <2>4. \/ Timezone!Destroy \/ (\E ok \in BOOLEAN : Timezone!Served(ok))
        \/ UNCHANGED Timezone!vars
    BY <2>1 DEF Timezone!Next
  <2> QED
    BY <2>4 DEF Timezone!Destroy, Timezone!Served, Timezone!vars, Timezone!entry, Timezone!map,
                TimezoneTypes
<1> QED  BY <1>1, <1>2

AppsTypes ==
  /\ call \in {"installed", "featured", Apps!None}
  /\ main_stack \in {"page_spinner", "page_snaps"}
  /\ featured_snaps_timeout \in BOOLEAN /\ disposed \in BOOLEAN

LEMMA AppsTypesInit ==
  ASSUME Apps!Init
  PROVE  AppsTypes
BY DEF Apps!Init, AppsTypes

LEMMA AppsTypesStep ==
  ASSUME AppsTypes, [Apps!Next]_(Apps!vars)
  PROVE  AppsTypes'
<1>1. CASE Apps!Timeout \/ Apps!FeaturedFailed \/ Apps!Dispose
  BY <1>1 DEF Apps!Timeout, Apps!FeaturedFailed, Apps!Dispose, Apps!seen, AppsTypes
<1>2. ASSUME NEW reply, Apps!InstalledReady(reply) \/ Apps!FeaturedReady(reply)
      PROVE  AppsTypes'
  BY <1>2 DEF Apps!InstalledReady, Apps!FeaturedReady, Apps!seen, AppsTypes
<1>3. ASSUME NEW snap, NEW ok,
             \/ Apps!IconReady(snap, ok) \/ Apps!NextBox \/ Apps!PrevBox \/ UNCHANGED Apps!vars
      PROVE  AppsTypes'
  <2>1. UNCHANGED <<Apps!asked, main_stack, disposed>>
    BY <1>3 DEF Apps!IconReady, Apps!NextBox, Apps!PrevBox, Apps!vars, Apps!seen
  <2> QED  BY <2>1 DEF Apps!asked, AppsTypes
<1> QED  BY <1>1, <1>2, <1>3 DEF Apps!Next

GoaTypes ==
  available \in BOOLEAN /\ visible \in BOOLEAN /\ accounts_exist \in BOOLEAN

LEMMA GoaTypesInit ==
  ASSUME Goa!Init
  PROVE  GoaTypes
BY DEF Goa!Init, GoaTypes

LEMMA GoaTypesStep ==
  ASSUME GoaTypes, [Goa!Next]_(Goa!vars)
  PROVE  GoaTypes'
<1>1. ASSUME NEW list, Goa!sync_accounts(list), UNCHANGED available
      PROVE  GoaTypes'
  <2>1. PICK found \in Goa!Lookups(list) : accounts_exist' = (accounts_exist \/ found # {})
    BY <1>1 DEF Goa!sync_accounts
  <2>2. accounts_exist' \in BOOLEAN
    BY <2>1 DEF GoaTypes
  <2>3. visible' = IF current THEN visible ELSE accounts_exist' \/ available
    BY <1>1 DEF Goa!sync_accounts, Goa!sync_visibility
  <2> QED  BY <1>1, <2>2, <2>3 DEF GoaTypes
<1>2. ASSUME NEW a, Goa!AccountAdded(a) \/ Goa!AccountRemoved(a)
      PROVE  GoaTypes'
  BY <1>1, <1>2 DEF Goa!AccountAdded, Goa!AccountRemoved
<1>3. CASE Goa!NetworkChanged
  BY <1>3 DEF Goa!NetworkChanged, Goa!sync_visibility, Goa!page, GoaTypes
<1>4. ASSUME NEW p,
             Goa!DialogEnds \/ Goa!Switched \/ Goa!RowActivated(p) \/ UNCHANGED Goa!vars
      PROVE  GoaTypes'
  <2>1. UNCHANGED <<available, Goa!page, visible>>
    BY <1>4 DEF Goa!DialogEnds, Goa!Switched, Goa!RowActivated, Goa!vars
  <2> QED  BY <2>1 DEF Goa!page, GoaTypes
<1> QED  BY <1>2, <1>3, <1>4 DEF Goa!Next

KeyboardTypes ==
  /\ extra \subseteq rows
  /\ locale_source \in {Keyboard!NoSource} \cup rows
  /\ chosen \in {Keyboard!NoSource} \cup rows \cup Keyboard!Range(system_sources)
  /\ localed # "ready" => system_sources = <<>>
  /\ acquiring \in Nat
  /\ complete \in BOOLEAN /\ disposed \in BOOLEAN /\ kept \in BOOLEAN /\ showing_extra \in BOOLEAN

LEMMA KeyboardTypesInit ==
  ASSUME Keyboard!Init
  PROVE  KeyboardTypes
BY DEF Keyboard!Init, Keyboard!ChooserInit, Keyboard!LocaleRows, Keyboard!Synced, KeyboardTypes

LEMMA KeyboardTypesStep ==
  ASSUME KeyboardTypes, SourcesInv', [Keyboard!Next]_(Keyboard!vars)
  PROVE  KeyboardTypes'
<1>1. CASE Keyboard!LocaledReady
  <2>1. /\ localed # "ready" /\ localed' = "ready"
        /\ Keyboard!Choose(Keyboard!Preselected(system_sources'))
        /\ complete' = (chosen' # Keyboard!NoSource)
        /\ UNCHANGED <<locale_source, rows, showing_extra, acquiring, kept, disposed>>
    BY <1>1 DEF Keyboard!LocaledReady, Keyboard!update_page_complete, Keyboard!written
  <2>2. chosen \in {Keyboard!NoSource} \cup rows
    BY <2>1 DEF KeyboardTypes, Keyboard!Range
  <2>3. ASSUME system_sources' # <<>>
        PROVE  Head(system_sources') \in Keyboard!Range(system_sources')
    <3>1. system_sources' \in Seq(Layouts)  BY DEF SourcesInv
    <3>2. Head(system_sources') = system_sources'[1] /\ 1 \in DOMAIN system_sources'
      BY <2>3, <3>1, EmptySeq, LenProperties
    <3> QED  BY <3>2 DEF Keyboard!Range
  <2>4. Keyboard!Preselected(system_sources')
          \in {Keyboard!NoSource} \cup rows \cup Keyboard!Range(system_sources')
    BY <2>2, <2>3 DEF Keyboard!Preselected, KeyboardTypes
  <2>5. extra' \subseteq rows'
    BY <2>1 DEF Keyboard!Choose, Keyboard!Synced, KeyboardTypes
  <2> QED  BY <2>1, <2>4, <2>5 DEF Keyboard!Choose, KeyboardTypes
<1>2. CASE Keyboard!LocaledFailed \/ Keyboard!IbusConnected \/ Keyboard!EnginesFailed
           \/ Keyboard!ShowMore
  BY <1>2 DEF Keyboard!LocaledFailed, Keyboard!IbusConnected, Keyboard!EnginesFailed,
              Keyboard!ShowMore, Keyboard!list, Keyboard!written, KeyboardTypes
<1>3. CASE Keyboard!EnginesListed
  BY <1>3 DEF Keyboard!EnginesListed, Keyboard!Synced, Keyboard!written, KeyboardTypes
<1>4. ASSUME NEW source \in rows, Keyboard!RowActivated(source)
      PROVE  KeyboardTypes'
  BY <1>4 DEF Keyboard!RowActivated, Keyboard!Choose, Keyboard!Synced,
              Keyboard!update_page_complete, Keyboard!written, KeyboardTypes
<1>5. CASE Keyboard!Apply
  BY <1>5 DEF Keyboard!Apply, Keyboard!list, KeyboardTypes
<1>6. ASSUME NEW allowed, Keyboard!PermissionAcquired(allowed)
      PROVE  KeyboardTypes'
  BY <1>6 DEF Keyboard!PermissionAcquired, Keyboard!list, Keyboard!written, KeyboardTypes
<1>7. CASE Keyboard!Served \/ Keyboard!Skip
  BY <1>7 DEF Keyboard!Served, Keyboard!Skip, Keyboard!list, Keyboard!written, KeyboardTypes
<1>8. CASE Keyboard!SkipReady \/ Keyboard!Dispose
  BY <1>8 DEF Keyboard!SkipReady, Keyboard!Dispose, Keyboard!list, Keyboard!written,
              KeyboardTypes
<1>9. CASE UNCHANGED Keyboard!vars
  BY <1>9 DEF Keyboard!vars, Keyboard!list, Keyboard!written, KeyboardTypes
<1> QED  BY <1>1, <1>2, <1>3, <1>4, <1>5, <1>6, <1>7, <1>8, <1>9 DEF Keyboard!Next

LanguageTypes ==
  /\ language \in Locales /\ lang_id \in Locales /\ env \in Locales /\ built \in Locales
  /\ lang \in Locales /\ act_language \in Locales
  /\ calls \in Seq(Locales) /\ handlers \in Seq(Locales) /\ initial \subseteq Locales
  /\ greeting \in Language!Labels(initial)
  /\ confirms \in Nat /\ acquiring \in Nat /\ turned \in Nat
  /\ mapped \in BOOLEAN /\ timeout = mapped

LEMMA LanguageTypesInit ==
  ASSUME Language!Init
  PROVE  LanguageTypes
BY LocalesAssumption DEF Language!Init, Language!InitialLanguages, LanguageTypes

(* What no handler but language_changed touches together.                  *)
LEMMA LanguageQueues ==
  ASSUME LanguageTypes, NEW locale \in Locales
  PROVE  /\ Language!set_localed_locale(locale) => calls' \in Seq(Locales)
         /\ Language!set_user(locale) => act_language' \in Locales /\ handlers' \in Seq(Locales)
<1>1. Append(calls, locale) \in Seq(Locales) /\ Append(handlers, locale) \in Seq(Locales)
  BY AppendProperties DEF LanguageTypes
<1> QED  BY <1>1 DEF Language!set_localed_locale, Language!set_user, LanguageTypes

LEMMA LanguageTypesStep ==
  ASSUME LanguageTypes, [Language!Next]_(Language!vars)
  PROVE  LanguageTypes'
<1> USE DEF Language!program, Language!system, Language!user, Language!welcome
<1>1. CASE Language!ShowMore \/ Language!Activated
  BY <1>1 DEF Language!ShowMore, Language!Activated, LanguageTypes
<1>2. CASE Language!Confirmed \/ Language!Turn
  <2>1. UNCHANGED <<initial, language, lang_id, env, built, lang, act_language, calls, handlers,
                    greeting, acquiring>>
    BY <1>2 DEF Language!Confirmed, Language!Turn
  <2>2. confirms' \in Nat /\ turned' \in Nat
    <3>1. confirms' \in {confirms, confirms - 1} /\ turned' \in {0, turned, turned + 1}
      BY <1>2 DEF Language!Confirmed, Language!Turn
    <3>2. confirms' = confirms \/ confirms > 0
      BY <1>2 DEF Language!Confirmed, Language!Turn
    <3> QED  BY <3>1, <3>2 DEF LanguageTypes
  <2>3. mapped' \in BOOLEAN /\ timeout' = mapped'
    BY <1>2 DEF Language!Confirmed, Language!Turn, LanguageTypes
  <2> QED  BY <2>1, <2>2, <2>3 DEF LanguageTypes
<1>3. CASE Language!Served
  <2>1. calls \in Seq(Locales) /\ calls # <<>>
    BY <1>3 DEF Language!Served, LanguageTypes
  <2>2. Head(calls) \in Locales /\ Tail(calls) \in Seq(Locales)
    BY <2>1, HeadTailProperties
  <2> QED  BY <1>3, <2>2 DEF Language!Served, LanguageTypes
<1>4. CASE Language!UserLoaded
  <2>1. handlers \in Seq(Locales)
    BY DEF LanguageTypes
  <2>2. handlers # <<>> => handlers[Len(handlers)] \in Locales
    BY <2>1, EmptySeq, LenProperties, ElementOfSeq
  <2>3. <<>> \in Seq(Locales)
    OBVIOUS
  <2> QED  BY <1>4, <2>2, <2>3 DEF Language!UserLoaded, LanguageTypes
<1>5. CASE Language!Advance \/ Language!Dispose
  BY <1>5 DEF Language!Advance, Language!Dispose, LanguageTypes
<1>6. ASSUME NEW locale \in Locales, Language!LanguageChanged(locale)
      PROVE  LanguageTypes'
  <2>1. language' = locale /\ mapped /\ UNCHANGED <<initial, confirms, lang, mapped, turned>>
    BY <1>6 DEF Language!LanguageChanged, Language!Picked, Language!Input
  <2>2. lang_id' \in Locales /\ env' \in Locales /\ built' \in Locales
    BY <1>6 DEF Language!LanguageChanged, Language!set_user_language, LanguageTypes
  <2>3. calls' \in Seq(Locales) /\ acquiring' \in Nat
    <3>1. \/ Language!set_localed_locale(locale) /\ UNCHANGED acquiring
          \/ acquiring' = acquiring + 1 /\ UNCHANGED calls
          \/ UNCHANGED <<acquiring, calls>>
      BY <1>6 DEF Language!LanguageChanged
    <3> QED  BY <3>1, LanguageQueues DEF LanguageTypes
  <2>4. act_language' \in Locales /\ handlers' \in Seq(Locales)
    BY <1>6, LanguageQueues DEF Language!LanguageChanged
  <2>5. timeout' = TRUE /\ greeting' \in Language!Labels(initial)
    BY <1>6 DEF Language!LanguageChanged, Language!show_locale, Language!Labels, LanguageTypes
  <2> QED  BY <2>1, <2>2, <2>3, <2>4, <2>5 DEF LanguageTypes
<1>7. ASSUME NEW ok, Language!LocaledReady(ok)
      PROVE  LanguageTypes'
  BY <1>7 DEF Language!LocaledReady, LanguageTypes
<1>8. ASSUME NEW ok, Language!PermissionAcquired(ok)
      PROVE  LanguageTypes'
  <2>1. calls' \in Seq(Locales)
    BY <1>8, LanguageQueues DEF Language!PermissionAcquired, LanguageTypes
  <2> QED  BY <1>8, <2>1 DEF Language!PermissionAcquired, LanguageTypes
<1>9. CASE UNCHANGED Language!vars
  BY <1>9 DEF Language!vars, LanguageTypes
<1> QED  BY <1>1, <1>2, <1>3, <1>4, <1>5, <1>6, <1>7, <1>8, <1>9 DEF Language!Next

AuthTypes ==
  /\ combobox_account \in Ubuntu \cup {Auth!None}
  /\ open => error_bar = error_timeout

LEMMA AuthTypesInit ==
  ASSUME Auth!Init
  PROVE  AuthTypes
<1>1. liststore_account \in Seq(Ubuntu)
  BY InitialAssumption DEF Auth!Init
<1>2. Len(liststore_account) > 1 => liststore_account[1] \in Ubuntu
  BY <1>1, LenProperties, ElementOfSeq
<1> QED  BY <1>2 DEF Auth!Init, AuthTypes

LEMMA CheckUiTypes ==
  ASSUME AuthTypes, liststore_account' \in Seq(Ubuntu), NEW select, Auth!check_ui(select)
  PROVE  combobox_account' \in Ubuntu \cup {Auth!None}
<1> DEFINE entries == liststore_account'
<1>1. Len(entries) \in Nat /\ DOMAIN entries = 1 .. Len(entries)
  BY LenProperties
<1>2. Len(entries) > 1 => entries[1] \in Ubuntu /\ Auth!Last(entries) \in Ubuntu
  BY <1>1, ElementOfSeq DEF Auth!Last
<1> QED  BY <1>2 DEF Auth!check_ui, AuthTypes

LEMMA AuthTypesStep ==
  ASSUME AuthTypes, ListInv', [Auth!Next]_(Auth!vars)
  PROVE  AuthTypes'
<1>1. liststore_account' \in Seq(Ubuntu)
  BY DEF ListInv, Listed
<1>2. ASSUME NEW a, NEW select, Auth!add_account(a, select) \/ Auth!remove_account(a)
      PROVE  combobox_account' \in Ubuntu \cup {Auth!None}
  BY <1>1, <1>2, CheckUiTypes DEF Auth!add_account, Auth!remove_account, Auth!list, AuthTypes
<1>3. ASSUME NEW a, Auth!AccountAdded(a) \/ Auth!AccountRemoved(a)
      PROVE  AuthTypes'
  <2>1. combobox_account' \in Ubuntu \cup {Auth!None}
    BY <1>2, <1>3 DEF Auth!AccountAdded, Auth!AccountRemoved, Auth!list, AuthTypes
  <2>2. UNCHANGED <<error_bar, error_timeout, open>>
    BY <1>3 DEF Auth!AccountAdded, Auth!AccountRemoved, Auth!answer
  <2> QED  BY <2>1, <2>2 DEF AuthTypes
<1>4. ASSUME NEW a, Auth!Chosen(a)
      PROVE  AuthTypes'
  <2>1. combobox_account' = a /\ a \in Auth!ToSet(liststore_account')
        /\ UNCHANGED <<error_bar, error_timeout, open>>
    BY <1>4 DEF Auth!Chosen, Auth!answer
  <2>2. a \in Ubuntu
    BY <1>1, <2>1, LenProperties, ElementOfSeq DEF Auth!ToSet
  <2> QED  BY <2>1, <2>2 DEF AuthTypes
<1>5. ASSUME NEW a, Auth!Added(a)
      PROVE  AuthTypes'
  <2>1. Auth!add_account(a, TRUE) /\ UNCHANGED <<error_bar, error_timeout, open>>
    BY <1>5 DEF Auth!Added, Auth!answer
  <2> QED  BY <1>2, <2>1 DEF AuthTypes
<1>6. ASSUME NEW a, NEW outcome,
             \/ Auth!Continue \/ Auth!AddAnother \/ Auth!NotAdded(a) \/ Auth!CredentialsGood(a)
             \/ Auth!CredentialsExpired(a) \/ Auth!CredentialsUnknown(a)
             \/ Auth!RefreshEnds(a, outcome) \/ Auth!ErrorTimeout \/ Auth!Cancel
      PROVE  AuthTypes'
  <2>1. combobox_account' = combobox_account /\ open' = open
    BY <1>6 DEF Auth!Continue, Auth!AddAnother, Auth!NotAdded, Auth!CredentialsGood,
                Auth!CredentialsExpired, Auth!CredentialsUnknown, Auth!RefreshEnds,
                Auth!ErrorTimeout, Auth!Cancel, Auth!list, Auth!answer
  <2>2. \/ UNCHANGED <<error_bar, error_timeout>>
        \/ error_bar' = error_timeout'
    BY <1>6 DEF Auth!Continue, Auth!AddAnother, Auth!NotAdded, Auth!CredentialsGood,
                Auth!CredentialsExpired, Auth!CredentialsUnknown, Auth!RefreshEnds,
                Auth!ErrorTimeout, Auth!Cancel, Auth!set_error
  <2> QED  BY <2>1, <2>2 DEF AuthTypes
<1>7. CASE Auth!Answered
  BY <1>7 DEF Auth!Answered, Auth!list, AuthTypes
<1>8. CASE UNCHANGED Auth!vars
  BY <1>8 DEF Auth!vars, Auth!list, Auth!answer, AuthTypes
<1> QED  BY <1>3, <1>4, <1>5, <1>6, <1>7, <1>8 DEF Auth!Next

(* Every variable of every page keeps its type, and some of them one that  *)
(* ties them to others: a page that is complete has no overlay, the welcome*)
(* turns while it is mapped, the error bar is there as long as its timer.  *)
THEOREM TypeCorrect == Spec => []TypeOK
<1> DEFINE
      Inv == /\ page \in {"network", "timezone", "apps", "goa", "keyboard", "language", "auth"}
             /\ page = "network" => NetworkTypes /\ AirInv
             /\ page = "timezone" => TimezoneTypes /\ SearchInv /\ ZoneInv
             /\ page = "apps" => AppsTypes /\ TilesInv /\ BoxInv
             /\ page = "goa" => GoaTypes /\ RowsInv
             /\ page = "keyboard" => KeyboardTypes /\ SourcesInv /\ QuietInv
             /\ page = "language" => LanguageTypes
             /\ page = "auth" => AuthTypes /\ ListInv /\ UsedInv
<1>1. Init => Inv
  <2>1. Init => page \in {"network", "timezone", "apps", "goa", "keyboard", "language", "auth"}
    BY DEF Init
  <2> QED
    BY <2>1, PageInit, NetworkTypesInit, AirInit, TimezoneTypesInit, TimezoneSearchInit,
       TimezoneZoneInit, AppsTypesInit, TilesInit, BoxInit, GoaTypesInit, RowsInit,
       KeyboardTypesInit, KeyboardInit, LanguageTypesInit, AuthTypesInit, InitListed, UsedInit
<1>2. Inv /\ [Next]_vars => Inv'
  <2> SUFFICES ASSUME Inv, [Next]_vars PROVE Inv'
    OBVIOUS
  <2>1. page' = page
    BY PageStep
  <2>2. page = "network" => NetworkTypes' /\ AirInv'
    BY PageStep, NetworkTypesStep, AirStep
  <2>3. page = "timezone" => TimezoneTypes' /\ SearchInv' /\ ZoneInv'
    BY PageStep, TimezoneTypesStep, TimezoneSearchStep, TimezoneZoneStep
  <2>4. page = "apps" => AppsTypes' /\ TilesInv' /\ BoxInv'
    BY PageStep, AppsTypesStep, TilesStep, BoxStep
  <2>5. page = "goa" => GoaTypes' /\ RowsInv'
    BY PageStep, GoaTypesStep, RowsStep
  <2>6. page = "keyboard" => KeyboardTypes' /\ SourcesInv' /\ QuietInv'
    BY PageStep, KeyboardTypesStep, SourcesStep, QuietStep
  <2>7. page = "language" => LanguageTypes'
    BY PageStep, LanguageTypesStep
  <2>8. page = "auth" => AuthTypes' /\ ListInv' /\ UsedInv'
    BY PageStep, AuthTypesStep, ListStep, UsedStep
  <2> QED  BY <2>1, <2>2, <2>3, <2>4, <2>5, <2>6, <2>7, <2>8
<1>3. Inv => TypeOK
  <2>1. NetworkTypes /\ AirInv => Network!TypeOK
    BY SameNames DEF NetworkTypes, AirInv, Network!TypeOK
  <2>2. TimezoneTypes /\ SearchInv /\ ZoneInv => Timezone!TypeOK
    BY DEF TimezoneTypes, SearchInv, ZoneInv, Timezone!TypeOK, Timezone!Places, Timezone!NoZone
  <2>3. AppsTypes /\ TilesInv /\ BoxInv => Apps!TypeOK
    BY DEF AppsTypes, TilesInv, BoxInv, Apps!TypeOK
  <2>4. GoaTypes /\ RowsInv => Goa!TypeOK
    BY DEF GoaTypes, RowsInv, Goa!TypeOK, Goa!None
  <2>5. KeyboardTypes => Keyboard!TypeOK
    BY DEF KeyboardTypes, Keyboard!TypeOK
  <2>6. LanguageTypes => Language!TypeOK
    BY DEF LanguageTypes, Language!TypeOK
  <2>7. AuthTypes /\ ListInv /\ UsedInv => Auth!TypeOK
    BY DEF AuthTypes, ListInv, Listed, UsedInv, Auth!TypeOK
  <2> QED  BY <2>1, <2>2, <2>3, <2>4, <2>5, <2>6, <2>7 DEF TypeOK
<1> QED  BY <1>1, <1>2, <1>3, PTL DEF Spec
=============================================================================
