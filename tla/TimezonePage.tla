---------------------------- MODULE TimezonePage ----------------------------
(***************************************************************************)
(* The time zone page: GeoClue's answer against the user's own choice, the *)
(* search entry with its look-up of places over the network, the map, and  *)
(* the system's zone, which follows the map by asynchronous calls.         *)
(* (pages/timezone: gis-timezone-page.c, gis-location-entry.c,             *)
(* cc-timezone-map.c, tz.c)                                                *)
(*                                                                         *)
(* The name of a zone is the sequence of its parts, <<"Asia", "Riyadh">>.  *)
(***************************************************************************)
EXTENDS Sequences, Naturals

CONSTANTS
  Local, Remote,  (* places of the entry's list, and those only found by a search *)
  ZoneOf,         (* gweather_location_get_timezone, of each place         *)
  Zones,          (* the zones of the map's table                          *)
  Backward,       (* names of the file "backward", with what they link to  *)
  Texts,          (* what the user may type                                *)
  MaxInputs       (* bound on what the user and GeoClue do                 *)

VARIABLES
  geo,            (* "off", "starting", "ready", "failed"                  *)
  complete, overlay,
  pin,            (* cc_timezone_map_get_location, as its zone             *)
  text, watching, (* the entry's text; search_entry_text_changed_id        *)
  location,       (* gis_location_entry_get_location                       *)
  search,         (* the text that is searched for, cancellable # NULL     *)
  results,        (* the text the completion's list was found for, or None *)
  loading,        (* the "Loading..." actions of the completion            *)
  calls, zone,    (* calls to timedated in flight, and the system's zone   *)
  refused,        (* the last of them that was answered was refused        *)
  wanted, by, choice, (* what was asked for last, by whom, and how the user*)
                  (* has made his choice, if he has                        *)
  alive, inputs

entry == <<text, watching, location, search, results, loading>>
map == <<complete, overlay, pin, calls>>
history == <<wanted, by, choice>>
vars == <<geo, entry, map, zone, refused, history, alive, inputs>>

None == "none"
NoZone == <<>>
Places == Local \cup Remote

-----------------------------------------------------------------------------
(* tz.c                                                                    *)

(* compare_timezones                                                       *)
Same(a, b) == a = b \/ (Len(b) = 1 /\ Len(a) > 1 /\ a[Len(a)] = b[1])

aliases == <<
  <<<<"Asia", "Istanbul">>, <<"Europe", "Istanbul">>>>,
  <<<<"EET">>, <<"Europe", "Istanbul">>>>,
  <<<<"CET">>, <<"Europe", "Brussels">>>>,
  <<<<"Etc", "UTC">>, <<"Etc", "GMT">>>>,
  <<<<"GMT">>, <<"Etc", "GMT">>>> >>

Solar == {"Riyadh", "Riyadh87", "Riyadh88"}  (* names that begin with Riyadh *)

Linked(name) == IF name \in DOMAIN Backward THEN Backward[name] ELSE name

(* tz_info_get_clean_name                                                  *)
CleanName(tz) ==
  LET name == IF Head(tz) \in {"right", "posix"} THEN Tail(tz) ELSE tz
      alias == {i \in DOMAIN aliases : Same(name, aliases[i][1])}
  IN CASE alias # {} -> Linked(aliases[CHOOSE i \in alias : \A j \in alias : i <= j][2])
       [] alias = {} /\ Len(name) = 2 /\ name[1] \in {"Asia", "Mideast"} /\ name[2] \in Solar ->
            Linked(<<"Asia", "Riyadh">>)
       [] OTHER -> Linked(name)

-----------------------------------------------------------------------------
(* What the functions of the page and the entry do to the variables.       *)

(* Mistake: a changed text leaves the search running.                      *)
TextSetSearching(t, loc, g) ==
  /\ text' = t
  /\ IF t = text
     THEN UNCHANGED <<watching, search, results, loading>> /\ location' = loc /\ geo' = g
     ELSE /\ UNCHANGED <<search, loading>> /\ results' = None
          /\ location' = IF t = "" THEN None ELSE loc
          /\ watching' = FALSE
          /\ geo' = IF watching THEN "off" ELSE g

(* entry_changed of the entry, and entry_text_changed of the page, which   *)
(* disconnects itself; g is what becomes of GeoClue otherwise.             *)
TextSet(t, loc, g) ==
  /\ text' = t
  /\ IF t = text
     THEN UNCHANGED <<watching, search, results, loading>> /\ location' = loc /\ geo' = g
     ELSE /\ search' = None /\ results' = None
          /\ loading' = IF search # None THEN loading - 1 ELSE loading
          /\ location' = IF t = "" THEN None ELSE loc
          /\ watching' = FALSE
          /\ geo' = IF watching THEN "off" ELSE g

(* Mistake: not asked for when the system has it already.                  *)
PinnedOnce(z) ==
  /\ pin' = z /\ complete' = TRUE /\ overlay' = FALSE
  /\ calls' = IF z = zone THEN calls ELSE Append(calls, z)

(* map_location_changed, but for the entry: the zone is asked for at once. *)
Pinned(z) ==
  /\ pin' = z /\ complete' = TRUE /\ overlay' = FALSE
  /\ calls' = Append(calls, z)

(* set_location: the map knows the zone of the place, or nothing is asked. *)
SetLocation(p) ==
  LET z == CleanName(ZoneOf[p]) IN
  /\ IF z \in Zones THEN Pinned(z)
     ELSE complete' = TRUE /\ overlay' = FALSE /\ UNCHANGED <<pin, calls>>
  /\ wanted' = z

-----------------------------------------------------------------------------
(* gis_timezone_page_constructed, and page_added when it gets its parent.  *)
Init ==
  /\ geo = "starting"
  /\ complete = FALSE /\ overlay = TRUE /\ pin = NoZone
  /\ text = "" /\ watching = TRUE /\ location = None
  /\ search = None /\ results = None /\ loading = 0
  /\ calls = <<>> /\ zone \in Zones /\ refused = FALSE
  /\ wanted = NoZone /\ by = None /\ choice = None
  /\ alive = TRUE /\ inputs = 0

Input == alive /\ inputs < MaxInputs /\ inputs' = inputs + 1

(* on_geoclue_simple_ready and on_location_notify.  The text is still      *)
(* empty: a text would have stopped GeoClue.                               *)
GeoLocated(p) ==
  /\ geo \in {"starting", "ready"} /\ Input
  /\ SetLocation(p)
  /\ IF CleanName(ZoneOf[p]) \in Zones THEN TextSet("", location, "ready")
     ELSE geo' = "ready" /\ UNCHANGED entry
  /\ by' = "geoclue"
  /\ UNCHANGED <<zone, refused, choice, alive>>

GeoFails ==
  /\ geo = "starting" /\ alive /\ geo' = "failed"
  /\ UNCHANGED <<entry, map, zone, refused, history, alive, inputs>>

Type(t) ==
  /\ t # text /\ Input
  /\ TextSet(t, location, geo)
  /\ choice' = "entry"
  /\ UNCHANGED <<map, zone, refused, wanted, by, alive>>

(* _no_matches: nothing in the list, so that the network is searched.      *)
NoMatches ==
  /\ alive /\ text # "" /\ results = None /\ search # text
  /\ search' = text
  /\ loading' = IF search = None THEN loading + 1 ELSE loading
  /\ UNCHANGED <<geo, text, watching, location, results, map, zone, refused, history, alive, inputs>>

(* _got_places.  A cancelled search touches nothing.                       *)
GotPlaces(found) ==
  /\ alive /\ search # None
  /\ results' = IF found THEN search ELSE None
  /\ search' = None /\ loading' = loading - 1
  /\ UNCHANGED <<geo, text, watching, location, map, zone, refused, history, alive, inputs>>

(* set_location_internal: whatever stopped the geolocation, it is stopped. *)
SetLocationInternal(p) == TextSet(p, p, "off")

(* match_selected and, told of the new location, entry_location_changed,   *)
(* which in_search keeps from clearing the text.                           *)
Select(p) ==
  /\ p \in (IF results = None THEN Local ELSE Remote) /\ text # "" /\ Input
  /\ SetLocation(p)
  /\ SetLocationInternal(p)
  /\ by' = "user" /\ choice' = "entry"
  /\ UNCHANGED <<zone, refused, alive>>

(* button_press_event and set_location of the map: the text is cleared.    *)
(* Nothing stops GeoClue but a text that is cleared for the first time.    *)
MapClicked(z) ==
  /\ Input
  /\ Pinned(z)
  /\ TextSet("", location, geo)
  /\ wanted' = z /\ by' = "user" /\ choice' = IF choice = None THEN "map" ELSE choice
  /\ UNCHANGED <<zone, refused, alive>>

(* timedated answers in order, and PolicyKit may refuse.                   *)
Served(ok) ==
  /\ calls # <<>> /\ calls' = Tail(calls)
  /\ zone' = IF ok THEN Head(calls) ELSE zone
  /\ refused' = ~ok
  /\ UNCHANGED <<geo, entry, complete, overlay, pin, history, alive, inputs>>

(* Mistake: the accepted choice is not safe from GeoClue.                  *)
ApplyListening ==
  /\ alive /\ complete /\ choice # "accepted"
  /\ geo' = geo /\ choice' = "accepted"
  /\ UNCHANGED <<entry, map, zone, refused, wanted, by, alive, inputs>>

(* gis_timezone_page_apply                                                 *)
Apply ==
  /\ alive /\ complete /\ choice # "accepted"
  /\ geo' = "off" /\ choice' = "accepted"
  /\ UNCHANGED <<entry, map, zone, refused, wanted, by, alive, inputs>>

(* gis_timezone_page_dispose: stop_geolocation; but then the page leaves   *)
(* its parent, and page_added, told of that, starts another one.           *)
Destroy ==
  /\ alive /\ alive' = FALSE
  /\ geo' = "starting"
  /\ search' = None
  /\ UNCHANGED <<text, watching, location, results, loading, map, zone, refused, history, inputs>>

Next ==
  \/ GeoFails \/ NoMatches \/ Apply \/ Destroy
  \/ \E p \in Places : GeoLocated(p) \/ Select(p)
  \/ \E t \in Texts \cup {""} : Type(t)
  \/ \E z \in Zones : MapClicked(z)
  \/ \E ok \in BOOLEAN : GotPlaces(ok) \/ Served(ok)

Spec == Init /\ [][Next]_vars

-----------------------------------------------------------------------------
TypeOK ==
  /\ geo \in {"off", "starting", "ready", "failed"}
  /\ pin \in Zones \cup {NoZone} /\ zone \in Zones /\ calls \in Seq(Zones)
  /\ text \in Texts \cup Places \cup {""} /\ location \in Places \cup {None}
  /\ loading \in Nat /\ overlay = ~complete

(* What the entry offers, or says it is loading, is for the text it holds, *)
(* however searches, edits and answers overtake each other: no answer to   *)
(* an older text is shown, and "Loading..." neither stays nor goes early.  *)
SearchIsForText ==
  alive => /\ search # None => search = text
           /\ results # None => results = text
           /\ loading = IF search = None THEN 0 ELSE 1

(* Once timedated has answered everything and refused nothing last, the    *)
(* system has the zone that was asked for last, by whomever; unless the    *)
(* map's table lacks it, when the page is complete all the same.           *)
ZoneIsWanted == calls = <<>> /\ ~refused /\ wanted \in Zones => zone = wanted

(* The map goes where the user says.                                       *)
ChoiceStands == pin' # pin => by' = "user"
=============================================================================
