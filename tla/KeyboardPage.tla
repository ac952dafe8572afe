---------------------------- MODULE KeyboardPage ----------------------------
(***************************************************************************)
(* The keyboard page and its list of input sources: what localed, IBus and *)
(* the language tell it, each when it answers, what the user picks, and    *)
(* what is written to the session's settings and back to localed.          *)
(* (pages/keyboard: gis-keyboard-page.c, cc-input-chooser.c)               *)
(*                                                                         *)
(* A source is <<"xkb", layout, variant>> or <<"ibus", engine, layout>>.   *)
(* The text of the filter entry is left out: it only narrows the list.     *)
(***************************************************************************)
EXTENDS Sequences, Functions, FiniteSets, Naturals

CONSTANTS
  LocaleSources,  (* what gnome_get_input_source_from_locale may give      *)
  LocaleLayouts,  (* layouts of the language and of the country            *)
  AllLayouts,     (* gnome_xkb_info_get_all_layouts                        *)
  Engines,        (* what IBus lists, without the "xkb:" ones              *)
  Rank,           (* of each source: its place in the order of the names   *)
  X11s,           (* what localed may have                                 *)
  MinRows,        (* MIN_ROWS, 5 in the program                            *)
  MaxInputs       (* bound on the user's clicks                            *)

VARIABLES
  locale_source,  (* what it gives for this language, or NoSource          *)
  ibus,           (* "off", "fetching", "ready", "failed"                  *)
  rows, extra,    (* the rows of the list, and those with is_extra         *)
  showing_extra,
  chosen,         (* the chooser's type and id, or NoSource                *)
  localed,        (* "connecting", "ready", "failed"                       *)
  skipping,       (* the proxy of gis_keyboard_page_skip: "no", "asked",   *)
                  (* "done"                                                *)
  permission,     (* "allowed", "acquirable", "no", or "unused" for an     *)
                  (* existing user                                         *)
  acquiring,      (* permissions being acquired                            *)
  system_sources,
  settings,       (* org.gnome.desktop.input-sources                       *)
  calls, x11,     (* SetX11Keyboard in flight; localed's two properties    *)
  kept,           (* localed was there when the settings were written last *)
  complete, disposed, inputs

list == <<ibus, rows, extra, showing_extra>>
system == <<calls, x11>>
written == <<settings, kept>>
vars == <<locale_source, list, chosen, localed, skipping, permission, acquiring, system_sources,
          written, system, complete, disposed, inputs>>

NoSource == <<>>
IsXkb(source) == source # NoSource /\ source[1] = "xkb"

-----------------------------------------------------------------------------
(* localed's two lists and what is made of them.                           *)

(* get_localed_input.  An empty property is a list of nothing.             *)
get_localed_input(x) ==
  LET n == IF x.variants # <<>> /\ Len(x.variants) < Len(x.layouts)
           THEN Len(x.variants) ELSE Len(x.layouts)
  IN [i \in 1..n |-> <<"xkb", x.layouts[i], IF x.variants = <<>> THEN "" ELSE x.variants[i]>>]

(* The two strings, joined by commas: one empty variant is an empty string.*)
Joined(sources) ==
  [layouts |-> [i \in DOMAIN sources |-> sources[i][2]],
   variants |-> IF Len(sources) = 1 /\ sources[1][3] = "" THEN <<>>
                ELSE [i \in DOMAIN sources |-> sources[i][3]]]

(* cc_input_chooser_get_layout: unknown for an engine IBus has not listed, *)
(* and for a layout, of the system say, that GnomeXkbInfo does not have.   *)
Layout(source) ==
  CASE IsXkb(source) /\ source \in AllLayouts -> <<source>>
    [] ~IsXkb(source) /\ ibus = "ready" /\ source \in Engines -> << <<"xkb", source[3], "">> >>
    [] OTHER -> <<>>

(* The system's layouts but for one, appended one by one.                  *)
Others(source) ==
  LET added[i \in 0..Len(system_sources)] ==
        IF i = 0 THEN <<>>
        ELSE IF system_sources[i] # source THEN Append(added[i - 1], system_sources[i])
        ELSE added[i - 1]
  IN added[Len(system_sources)]

(* Mistake: the layout chosen is written a second time.                    *)
LocaledInputTwice == Joined(Layout(chosen) \o system_sources)

(* set_localed_input                                                       *)
LocaledInput ==
  LET first == Layout(chosen) IN
  Joined(IF first = <<>> THEN system_sources ELSE first \o Others(first[1]))

(* Mistake: only what was chosen.                                          *)
InputSettingsAlone == <<chosen>>

(* set_input_settings: an input method comes behind the layouts.           *)
InputSettings ==
  IF IsXkb(chosen) THEN <<chosen>> \o Others(chosen) ELSE system_sources \o <<chosen>>

-----------------------------------------------------------------------------
(* The list.                                                               *)

(* choose_non_extras: the first rows by their names                        *)
First(set) == {r \in set : Cardinality({q \in set : Rank[q] < Rank[r]}) < MinRows}

Visible(source) == source \in rows /\ (showing_extra \/ source \notin extra)

MoreVisible == ~showing_extra /\ Cardinality(rows) > MinRows

(* Mistake: the checkmarks are not synchronised.                           *)
ChooseOnly(source) == chosen' = source /\ extra' = extra

(* sync_all_checkmarks: the row chosen is extra no more.                   *)
Synced(set, source) == set \ {source}

(* set_input                                                               *)
Choose(source) == chosen' = source /\ extra' = Synced(extra, source)

update_page_complete(proxy, source) == complete' = (proxy = "ready" /\ source # NoSource)

(* Mistake: the layout of the system goes before an input method.          *)
PreselectedLayout(sources) ==
  IF sources # <<>> THEN Head(sources)
  ELSE IF locale_source # NoSource THEN locale_source ELSE chosen

(* preselect_input_source: an input method of the language, else the       *)
(* system's first layout, else the layout of the language.                 *)
Preselected(sources) ==
  CASE locale_source # NoSource /\ (~IsXkb(locale_source) \/ sources = <<>>) -> locale_source
    [] (locale_source = NoSource \/ IsXkb(locale_source)) /\ sources # <<>> -> Head(sources)
    [] OTHER -> chosen

-----------------------------------------------------------------------------
(* get_locale_infos, of a language that can be parsed                      *)
LocaleRows ==
  LocaleLayouts \cup (IF locale_source = NoSource THEN {} ELSE {locale_source})

(* cc_input_chooser_constructed                                            *)
ChooserInit ==
  /\ rows = LocaleRows \cup AllLayouts
  /\ chosen = locale_source
  /\ extra = Synced(rows \ First(LocaleRows), chosen)
  /\ ibus \in {"off", "fetching"} /\ showing_extra = FALSE

(* gis_keyboard_page_constructed                                           *)
Init ==
  /\ locale_source \in LocaleSources
  /\ ChooserInit
  /\ localed = "connecting" /\ skipping = "no"
  /\ permission \in {"allowed", "acquirable", "no", "unused"} /\ acquiring = 0
  /\ system_sources = <<>> /\ settings = <<>> /\ kept = TRUE
  /\ calls = <<>> /\ x11 \in X11s
  /\ complete = FALSE /\ disposed = FALSE /\ inputs = 0

Input == ~disposed /\ inputs < MaxInputs /\ inputs' = inputs + 1

(* localed_proxy_ready: whatever the user has chosen before is replaced.   *)
LocaledReady ==
  /\ localed = "connecting" /\ ~disposed
  /\ localed' = "ready"
  /\ system_sources' = get_localed_input(x11)
  /\ Choose(Preselected(system_sources'))
  /\ update_page_complete("ready", chosen')
  /\ UNCHANGED <<locale_source, ibus, rows, showing_extra, skipping, permission, acquiring,
                 written, system, disposed, inputs>>

LocaledFailed ==
  /\ localed = "connecting" /\ localed' = "failed"
  /\ UNCHANGED <<locale_source, list, chosen, skipping, permission, acquiring, system_sources,
                 written, system, complete, disposed, inputs>>

(* fetch_ibus_engines, on "connected"                                      *)
IbusConnected ==
  /\ ibus = "off" /\ ~disposed /\ ibus' = "fetching"
  /\ UNCHANGED <<locale_source, rows, extra, showing_extra, chosen, localed, skipping,
                 permission, acquiring, system_sources, written, system, complete, disposed,
                 inputs>>

(* fetch_ibus_engines_result                                               *)
EnginesListed ==
  /\ ibus = "fetching" /\ ~disposed /\ ibus' = "ready"
  /\ rows' = rows \cup Engines
  /\ extra' = Synced(extra \cup (Engines \ rows), chosen)
  /\ UNCHANGED <<locale_source, showing_extra, chosen, localed, skipping, permission,
                 acquiring, system_sources, written, system, complete, disposed, inputs>>

EnginesFailed ==
  /\ ibus = "fetching" /\ ibus' = "failed"
  /\ UNCHANGED <<locale_source, rows, extra, showing_extra, chosen, localed, skipping,
                 permission, acquiring, system_sources, written, system, complete, disposed,
                 inputs>>

ShowMore ==
  /\ MoreVisible /\ ~disposed /\ showing_extra' = TRUE
  /\ UNCHANGED <<locale_source, ibus, rows, extra, chosen, localed, skipping, permission,
                 acquiring, system_sources, written, system, complete, disposed, inputs>>

(* row_activated and, with the signal "changed", input_changed             *)
RowActivated(source) ==
  /\ Visible(source) /\ source # chosen /\ Input
  /\ Choose(source)
  /\ update_page_complete(localed, source)
  /\ UNCHANGED <<locale_source, ibus, rows, showing_extra, localed, skipping, permission,
                 acquiring, system_sources, written, system, disposed>>

(* update_input.  The row chosen, activated again, confirms: the page is   *)
(* applied then although it may be incomplete.                             *)
Apply ==
  /\ complete \/ Visible(chosen)
  /\ chosen # NoSource /\ Input
  /\ settings' = InputSettings /\ kept' = (localed = "ready")
  /\ calls' = IF permission = "allowed" /\ localed = "ready"
              THEN Append(calls, LocaledInput) ELSE calls
  /\ acquiring' = IF permission = "acquirable" THEN acquiring + 1 ELSE acquiring
  /\ UNCHANGED <<locale_source, list, chosen, localed, skipping, permission, system_sources,
                 x11, complete, disposed>>

(* change_locale_permission_acquired: what is chosen now is written.  A    *)
(* page that was destroyed meanwhile is not there to be asked.             *)
PermissionAcquired(allowed) ==
  /\ acquiring > 0 /\ ~disposed /\ acquiring' = acquiring - 1
  /\ permission' = IF allowed THEN "allowed" ELSE permission
  /\ calls' = IF allowed /\ localed = "ready" THEN Append(calls, LocaledInput) ELSE calls
  /\ UNCHANGED <<locale_source, list, chosen, localed, skipping, system_sources, written, x11,
                 complete, disposed, inputs>>

(* localed obeys.                                                          *)
Served ==
  /\ calls # <<>> /\ calls' = Tail(calls) /\ x11' = Head(calls)
  /\ UNCHANGED <<locale_source, list, chosen, localed, skipping, permission, acquiring,
                 system_sources, written, complete, disposed, inputs>>

(* gis_keyboard_page_skip, of a page the vendor leaves out                 *)
Skip ==
  /\ skipping = "no" /\ inputs = 0 /\ ~disposed
  /\ skipping' = "asked" /\ inputs' = MaxInputs
  /\ UNCHANGED <<locale_source, list, chosen, localed, permission, acquiring, system_sources,
                 written, system, complete, disposed>>

(* Mistake: only what the language has, and not the system's layouts.      *)
SkipReadyLocale ==
  /\ skipping = "asked" /\ ~disposed /\ skipping' = "done"
  /\ settings' = IF locale_source = NoSource THEN <<>> ELSE <<locale_source>>
  /\ UNCHANGED <<locale_source, list, chosen, localed, permission, acquiring, system_sources,
                 kept, system, complete, disposed, inputs>>

(* skip_proxy_ready and add_default_input_sources                          *)
SkipReady ==
  /\ skipping = "asked" /\ ~disposed /\ skipping' = "done"
  /\ settings' = get_localed_input(x11)
       \o (IF locale_source = NoSource \/ IsXkb(locale_source) THEN <<>> ELSE <<locale_source>>)
  /\ UNCHANGED <<locale_source, list, chosen, localed, permission, acquiring, system_sources,
                 kept, system, complete, disposed, inputs>>

(* gis_keyboard_page_finalize: a rebuild frees the pages behind it, and    *)
(* those that were skipped.                                                *)
Dispose ==
  /\ ~disposed /\ disposed' = TRUE
  /\ UNCHANGED <<locale_source, list, chosen, localed, skipping, permission, acquiring,
                 system_sources, written, system, complete, inputs>>

Next ==
  \/ LocaledReady \/ LocaledFailed \/ IbusConnected \/ EnginesListed \/ EnginesFailed
  \/ ShowMore \/ Apply \/ Served \/ Skip \/ SkipReady \/ Dispose
  \/ \E source \in rows : RowActivated(source)
  \/ \E allowed \in BOOLEAN : PermissionAcquired(allowed)

-----------------------------------------------------------------------------
TypeOK ==
  /\ extra \subseteq rows
  /\ chosen \in {NoSource} \cup rows \cup Range(system_sources)
  /\ acquiring \in Nat
  /\ <<complete, disposed, kept, showing_extra>> \in BOOLEAN \X BOOLEAN \X BOOLEAN \X BOOLEAN

(* What will be applied is to be seen: the row chosen by the user, by the  *)
(* language or by localed's answer is never among the hidden ones.         *)
ChosenIsSeen == chosen \in rows => Visible(chosen)

(* The layouts of the system are "added silently after the user selection",*)
(* each of them once: settings written with localed's answer at hand, or   *)
(* for a page that is skipped, lose none and hold nothing twice.           *)
SystemLayoutsKept ==
  settings # <<>> /\ kept =>
    /\ Cardinality(Range(settings)) = Len(settings)
    /\ Range(IF skipping = "done" THEN get_localed_input(x11) ELSE system_sources)
         \subseteq Range(settings)

(* What localed was given, as it will be read back.                        *)
ReadsBack ==
  LET read == get_localed_input(x11') IN
  /\ Cardinality(Range(read)) = Len(read)
  /\ Len(read) = Len(x11'.layouts)
  /\ Range(system_sources) \subseteq Range(read)

(* The order that the comment of preselect_input_source sets out: a layout *)
(* of the system yields to an input method of the language, but to no      *)
(* layout of it.                                                           *)
GuessIsBest ==
  /\ locale_source # NoSource /\ ~IsXkb(locale_source) => chosen' = locale_source
  /\ IsXkb(chosen') /\ system_sources' # <<>> => chosen' = system_sources'[1]
=============================================================================
