----------------------------- MODULE SetupPages -----------------------------
(***************************************************************************)
(* Six pages of the wizard and the dialog of a seventh, each with what it  *)
(* asks and is told: pages share no state but the driver's, so that every  *)
(* behaviour is one page's, "page" says whose, and the variables of the    *)
(* others rest.                                                            *)
(***************************************************************************)
EXTENDS AccessPoints

CONSTANTS
  Pages,                                        (* those looked at         *)
  Wifi, Wired, Airs, Known,                     (* of NetworkPage          *)
  Local, Remote, ZoneOf, Zones, Backward, Texts, (* of TimezonePage        *)
  Featured, Installed, PerBox, Icons,           (* of AppsPage             *)
  Offered, Accounts, TypeOf,                    (* of GoaPage              *)
  LocaleSources, LocaleLayouts, AllLayouts, Engines, Rank, X11s, MinRows,
                                                (* of KeyboardPage         *)
  Locales, Common, Fonts, Creatable, Text,      (* of LanguagePage         *)
  Users, Ubuntu, Initial,                       (* of AuthDialog           *)
  NetworkChanges, TimezoneInputs, GoaChanges, KeyboardInputs, LanguageInputs, AuthChanges
                                                (* the bound of each page  *)

(* "none" is nobody, nothing and nowhere, a zone has a name, "add" is no   *)
(* account, and what a page starts with, or is told first, is what its     *)
(* service can tell.                                                       *)
ASSUME NoneAssumption == "none" \notin Local \cup Remote \cup Texts \cup Accounts \cup Ubuntu
ASSUME ZonesAssumption == <<>> \notin Zones
ASSUME LocalesAssumption == Creatable \cup Common \subseteq Locales
ASSUME UsersAssumption == Ubuntu \subseteq Users /\ "add" \notin Users
ASSUME InitialAssumption == \A rows \in Initial : rows \in Seq(Ubuntu) /\ IsInjective(rows)

List == Lists(Airs)

VARIABLES
  page,  (* the page looked at                                              *)
  present, managed, state, active, aps, enabled, hardware, asked, nm_device,
  lost, ever_shown, refresh_timeout, message, turn_on,
  geo, overlay, pin, text, watching, location, search, results, loading, zone,
  refused, wanted, by, choice, alive,
  call, featured_snaps_timeout, installed_snaps, featured_snaps, main_stack,
  featured_stack, child, prev_featured, next_featured, downloads,
  goa_client, conf_providers, available, accounts_exist, displayed_account,
  skippable, current,
  locale_source, ibus, extra, chosen, skipping, system_sources, settings, x11,
  kept,
  initial, language, confirms, lang_id, env, built, lang, missed, act_loaded,
  handlers, act_language, greeting, timeout, mapped, turned,
  liststore_account, combobox_account, ensuring, sso, error_bar, error_timeout,
  response, open, account_id, unheard, good, rechosen,
  visible, complete, rows, dialog, changes, calls, inputs, disposed, accounts,
  showing_extra, localed, permission, acquiring  (* those more than one page has *)

onlyNetwork == <<present, managed, state, active, aps, enabled, hardware,
               asked, nm_device, lost, ever_shown, refresh_timeout, message,
               turn_on>>
onlyTimezone == <<geo, overlay, pin, text, watching, location, search,
                results, loading, zone, refused, wanted, by, choice, alive>>
onlyApps == <<call, featured_snaps_timeout, installed_snaps, featured_snaps,
            main_stack, featured_stack, child, prev_featured, next_featured,
            downloads>>
onlyGoa == <<goa_client, conf_providers, available, accounts_exist,
           displayed_account, skippable, current>>
onlyKeyboard == <<locale_source, ibus, extra, chosen, skipping,
                system_sources, settings, x11, kept>>
onlyLanguage == <<initial, language, confirms, lang_id, env, built, lang,
                missed, act_loaded, handlers, act_language, greeting, timeout,
                mapped, turned>>
onlyAuth == <<liststore_account, combobox_account, ensuring, sso, error_bar,
            error_timeout, response, open, account_id, unheard, good, rechosen>>
vars == <<page, onlyNetwork, onlyTimezone, onlyApps, onlyGoa, onlyKeyboard,
         onlyLanguage, onlyAuth, visible, complete, rows, dialog, changes,
         calls, inputs, disposed, accounts, showing_extra, localed,
         permission, acquiring>>

Network == INSTANCE NetworkPage WITH MaxChanges <- NetworkChanges
Timezone == INSTANCE TimezonePage WITH MaxInputs <- TimezoneInputs
Apps == INSTANCE AppsPage
Goa == INSTANCE GoaPage WITH MaxChanges <- GoaChanges
Keyboard == INSTANCE KeyboardPage WITH MaxInputs <- KeyboardInputs
Language == INSTANCE LanguagePage WITH MaxInputs <- LanguageInputs
Auth == INSTANCE AuthDialog WITH MaxChanges <- AuthChanges

(* Layouts and input methods, what localed's two properties may be, and    *)
(* that the system does not have a layout twice to begin with.  (That "" is*)
(* one of STRING is more than the provers know.)                           *)
Words == STRING \cup {""}
Layouts == {"xkb"} \X Words \X Words
InputMethods == {"ibus"} \X Words \X Words
X11Properties == [layouts : Seq(Words), variants : Seq(Words)]

ASSUME SourcesAssumption ==
  /\ AllLayouts \cup LocaleLayouts \subseteq Layouts /\ Engines \subseteq InputMethods
  /\ LocaleSources \subseteq {<<>>} \cup Layouts \cup InputMethods
ASSUME X11sAssumption ==
  \A x \in X11s : x \in X11Properties /\ IsInjective(Keyboard!get_localed_input(x))
ASSUME BoundAssumption == KeyboardInputs \in Nat

(* A snap has a name, and a box room for one; NetworkManager tells of an   *)
(* access point how strong it is in percent.                               *)
ASSUME SnapsAssumption ==
  PerBox \in Nat \ {0} /\ Featured \subseteq Seq(DOMAIN Icons) /\ Apps!None \notin DOMAIN Icons
AccessPoint == [ssid : Words, strength : 0 .. 100, privacy : BOOLEAN, wpa : BOOLEAN, rsn : BOOLEAN]
ASSUME AirsAssumption == Airs \subseteq Seq(AccessPoint)

-----------------------------------------------------------------------------
Rest == "rest"

NetworkRests ==
  /\ present = Rest /\ managed = Rest /\ state = Rest /\ active = Rest
  /\ aps = Rest /\ enabled = Rest /\ hardware = Rest /\ asked = Rest
  /\ nm_device = Rest /\ lost = Rest /\ ever_shown = Rest
  /\ refresh_timeout = Rest /\ message = Rest /\ turn_on = Rest
TimezoneRests ==
  /\ geo = Rest /\ overlay = Rest /\ pin = Rest /\ text = Rest
  /\ watching = Rest /\ location = Rest /\ search = Rest /\ results = Rest
  /\ loading = Rest /\ zone = Rest /\ refused = Rest /\ wanted = Rest
  /\ by = Rest /\ choice = Rest /\ alive = Rest
AppsRests ==
  /\ call = Rest /\ featured_snaps_timeout = Rest /\ installed_snaps = Rest
  /\ featured_snaps = Rest /\ main_stack = Rest /\ featured_stack = Rest
  /\ child = Rest /\ prev_featured = Rest /\ next_featured = Rest
  /\ downloads = Rest
GoaRests ==
  /\ goa_client = Rest /\ conf_providers = Rest /\ available = Rest
  /\ accounts_exist = Rest
  /\ displayed_account = Rest /\ skippable = Rest /\ current = Rest
KeyboardRests ==
  /\ locale_source = Rest /\ ibus = Rest /\ extra = Rest /\ chosen = Rest
  /\ skipping = Rest /\ system_sources = Rest /\ settings = Rest /\ x11 = Rest
  /\ kept = Rest
LanguageRests ==
  /\ initial = Rest /\ language = Rest /\ confirms = Rest /\ lang_id = Rest
  /\ env = Rest /\ built = Rest /\ lang = Rest /\ missed = Rest
  /\ act_loaded = Rest /\ handlers = Rest /\ act_language = Rest
  /\ greeting = Rest /\ timeout = Rest /\ mapped = Rest /\ turned = Rest
AuthRests ==
  /\ liststore_account = Rest /\ combobox_account = Rest /\ ensuring = Rest
  /\ sso = Rest /\ error_bar = Rest /\ error_timeout = Rest /\ response = Rest
  /\ open = Rest /\ account_id = Rest /\ unheard = Rest /\ good = Rest
  /\ rechosen = Rest

Init ==
  /\ page \in Pages
  /\ \/ /\ page = "network" /\ Network!Init /\ TimezoneRests
        /\ AppsRests /\ GoaRests /\ KeyboardRests /\ LanguageRests /\ AuthRests
        /\ calls = Rest /\ inputs = Rest /\ disposed = Rest /\ accounts = Rest
        /\ showing_extra = Rest /\ localed = Rest /\ permission = Rest
        /\ acquiring = Rest
     \/ /\ page = "timezone" /\ Timezone!Init /\ NetworkRests
        /\ AppsRests /\ GoaRests /\ KeyboardRests /\ LanguageRests /\ AuthRests
        /\ visible = Rest /\ rows = Rest /\ dialog = Rest /\ changes = Rest
        /\ disposed = Rest /\ accounts = Rest /\ showing_extra = Rest
        /\ localed = Rest /\ permission = Rest /\ acquiring = Rest
     \/ /\ page = "apps" /\ Apps!Init /\ NetworkRests
        /\ TimezoneRests /\ GoaRests /\ KeyboardRests /\ LanguageRests
        /\ AuthRests /\ visible = Rest /\ complete = Rest /\ rows = Rest
        /\ dialog = Rest /\ changes = Rest /\ calls = Rest /\ inputs = Rest
        /\ accounts = Rest /\ showing_extra = Rest /\ localed = Rest
        /\ permission = Rest /\ acquiring = Rest
     \/ /\ page = "goa" /\ Goa!Init /\ NetworkRests /\ TimezoneRests
        /\ AppsRests /\ KeyboardRests /\ LanguageRests /\ AuthRests
        /\ rows = Rest /\ calls = Rest /\ inputs = Rest /\ disposed = Rest
        /\ showing_extra = Rest /\ localed = Rest /\ permission = Rest
        /\ acquiring = Rest
     \/ /\ page = "keyboard" /\ Keyboard!Init /\ NetworkRests
        /\ TimezoneRests /\ AppsRests /\ GoaRests /\ LanguageRests /\ AuthRests
        /\ visible = Rest /\ dialog = Rest /\ changes = Rest /\ accounts = Rest
     \/ /\ page = "language" /\ Language!Init /\ NetworkRests
        /\ TimezoneRests /\ AppsRests /\ GoaRests /\ KeyboardRests /\ AuthRests
        /\ visible = Rest /\ complete = Rest /\ rows = Rest /\ dialog = Rest
        /\ changes = Rest /\ accounts = Rest
     \/ /\ page = "auth" /\ Auth!Init /\ NetworkRests
        /\ TimezoneRests /\ AppsRests /\ GoaRests /\ KeyboardRests
        /\ LanguageRests /\ visible = Rest /\ complete = Rest /\ rows = Rest
        /\ dialog = Rest /\ calls = Rest /\ inputs = Rest /\ disposed = Rest
        /\ showing_extra = Rest /\ localed = Rest /\ permission = Rest
        /\ acquiring = Rest

NetworkStep ==
  /\ page = "network" /\ Network!Next
  /\ UNCHANGED <<page, onlyTimezone, onlyApps, onlyGoa, onlyKeyboard,
               onlyLanguage, onlyAuth, calls, inputs, disposed, accounts,
               showing_extra, localed, permission, acquiring>>

TimezoneStep ==
  /\ page = "timezone" /\ Timezone!Next
  /\ UNCHANGED <<page, onlyNetwork, onlyApps, onlyGoa, onlyKeyboard,
               onlyLanguage, onlyAuth, visible, rows, dialog, changes,
               disposed, accounts, showing_extra, localed, permission,
               acquiring>>

AppsStep ==
  /\ page = "apps" /\ Apps!Next
  /\ UNCHANGED <<page, onlyNetwork, onlyTimezone, onlyGoa, onlyKeyboard,
               onlyLanguage, onlyAuth, visible, complete, rows, dialog,
               changes, calls, inputs, accounts, showing_extra, localed,
               permission, acquiring>>

GoaStep ==
  /\ page = "goa" /\ Goa!Next
  /\ UNCHANGED <<page, onlyNetwork, onlyTimezone, onlyApps, onlyKeyboard,
               onlyLanguage, onlyAuth, rows, calls, inputs, disposed,
               showing_extra, localed, permission, acquiring>>

KeyboardStep ==
  /\ page = "keyboard" /\ Keyboard!Next
  /\ UNCHANGED <<page, onlyNetwork, onlyTimezone, onlyApps, onlyGoa,
               onlyLanguage, onlyAuth, visible, dialog, changes, accounts>>

LanguageStep ==
  /\ page = "language" /\ Language!Next
  /\ UNCHANGED <<page, onlyNetwork, onlyTimezone, onlyApps, onlyGoa,
               onlyKeyboard, onlyAuth, visible, complete, rows, dialog,
               changes, accounts>>

AuthStep ==
  /\ page = "auth" /\ Auth!Next
  /\ UNCHANGED <<page, onlyNetwork, onlyTimezone, onlyApps, onlyGoa,
               onlyKeyboard, onlyLanguage, visible, complete, rows, dialog,
               calls, inputs, disposed, showing_extra, localed, permission,
               acquiring>>

Next == NetworkStep \/ TimezoneStep \/ AppsStep \/ GoaStep \/ KeyboardStep \/ LanguageStep \/ AuthStep

(* The network page's timer fires once it is set, and a device becomes     *)
(* available when its radio is on.  The applications' timer fires too, and *)
(* snapd answers every call, and if it is asked again and again, sometimes *)
(* without an error.                                                       *)
Fairness ==
  /\ WF_(Network!vars)(page = "network" /\ Network!Timer)
  /\ WF_(Network!vars)(page = "network" /\ Network!DeviceAvailable)
  /\ WF_(Apps!vars)(page = "apps" /\ Apps!Timeout)
  /\ WF_(Apps!vars)(page = "apps" /\ Apps!Answered)
  /\ SF_(Apps!vars)(page = "apps" /\ Apps!Found)

Spec == Init /\ [][Next]_vars /\ Fairness

-----------------------------------------------------------------------------
TypeOK ==
  CASE page = "network"  -> Network!TypeOK
    [] page = "timezone" -> Timezone!TypeOK
    [] page = "apps"     -> Apps!TypeOK
    [] page = "goa"      -> Goa!TypeOK
    [] page = "keyboard" -> Keyboard!TypeOK
    [] page = "language" -> Language!TypeOK
    [] page = "auth"     -> Auth!TypeOK

(* A page the user has come to stays, whatever becomes of the network      *)
(* device, of the connection or of the accounts.                           *)
SeenPagesStay ==
  /\ page = "network" => Network!SeenPageStays
  /\ page = "goa" => Goa!CurrentStays

(* Whenever the list of networks changes it is right about the air of that *)
(* moment: each name once, as strong as its strongest access point, the    *)
(* network in use first and "Other..." behind all.                         *)
RowsAreStrongest == [][page = "network" => Network!ListIsRight]_vars

(* No answer to an older text is shown, and "Loading..." neither stays nor *)
(* goes early, however searches, edits and answers overtake each other.    *)
SearchIsForText == page = "timezone" => Timezone!SearchIsForText

(* When timedated has answered everything, the system has the zone that    *)
(* was asked for last.                                                     *)
ZoneIsWanted == page = "timezone" => Timezone!ZoneIsWanted

(* GeoClue's late answer never overrules what the user has entered or      *)
(* accepted.                                                               *)
EnteredChoiceStands ==
  [][page = "timezone" /\ choice \in {"entry", "accepted"} => Timezone!ChoiceStands]_vars

(* The same of every choice of the user's, a click on the map included: as *)
(* set_location's comment says, "If this location is manually set, stop    *)
(* waiting for geolocation."                                               *)
ManualChoiceStands == [][page = "timezone" /\ choice # "none" => Timezone!ChoiceStands]_vars

(* The tiles are the featured snaps that are not installed, in snapd's     *)
(* order and in full boxes, and the buttons lead to every box.             *)
TilesMatchSnaps == page = "apps" => Apps!TilesMatchSnaps /\ Apps!ButtonsMatchBox

(* No timer is left that would use a destroyed page or dialog.            *)
NoTimerOutlivesPage ==
  /\ page = "apps" => Apps!NoTimerOutlivesPage
  /\ page = "auth" => Auth!NoTimerOutlivesDialog

(* Two pages settle.  Once NetworkManager comes to rest, the networks are  *)
(* those the device sees, through radios switched off and on and a refresh *)
(* that ends then; only a device that was removed leaves an old list.  And *)
(* the spinner of the applications ends: snapd's errors during a first boot*)
(* only delay it.                                                          *)
PagesSettle ==
  /\ <>[](page = "network" => Network!Settled)
  /\ <>(page = "apps" => main_stack = "page_snaps" \/ disposed)

(* The accounts GOA tells of are shown, in whatever order they come and go:*)
(* with the program's own list of providers one is on its provider's row,  *)
(* or another of that provider is, and the page offers Next when one is    *)
(* shown; and the dialog has each of Ubuntu One's once, and one of them    *)
(* chosen.                                                                 *)
AccountsShown ==
  /\ page = "goa" => Goa!AccountsShown
  /\ page = "auth" => Auth!ListIsGoas

(* Livepatch gets its token for an account whose credentials GOA has found *)
(* good, unless the user chose another while an answer was out.            *)
UsedIsGood == page = "auth" => Auth!UsedIsGood

(* The input source that will be applied is never among the hidden rows.   *)
ChosenIsSeen == page = "keyboard" => Keyboard!ChosenIsSeen

(* The system's layouts stay in the session's settings, each of them once. *)
SystemLayoutsKept == page = "keyboard" => Keyboard!SystemLayoutsKept

(* localed is understood both ways: it reads back what it was given, the   *)
(* layouts of the choice and of the system, no pair broken by an empty     *)
(* variant and none of them twice; and what it answers first makes the best*)
(* guess, in the order of preselect_input_source's comment.                *)
LocaledUnderstood ==
  [][page = "keyboard" =>
       /\ x11' # x11 => Keyboard!ReadsBack
       /\ localed # "ready" /\ localed' = "ready" => Keyboard!GuessIsBest]_vars

(* The language picked last reaches all who are told of it, however often  *)
(* it was changed before the account was loaded: the user's account, the   *)
(* system, once it may be changed and localed has obeyed, and the pages,   *)
(* where the C library has it.                                             *)
LanguageReaches ==
  page = "language" =>
    Language!UserGetsLanguage /\ Language!SystemGetsLanguage /\ Language!PagesFollow
=============================================================================
