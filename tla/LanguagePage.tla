---------------------------- MODULE LanguagePage ----------------------------
(***************************************************************************)
(* The language page: a language that is picked reaches the program's own  *)
(* locale and the pages, the system by localed, and the user's account,    *)
(* each when it is ready for it.  (pages/language: gis-language-page.c,    *)
(* cc-language-chooser.c, gis-welcome-widget.c; cc-common-language.c)      *)
(*                                                                         *)
(* The page is that of a new user, unless permission is "unused".          *)
(***************************************************************************)
EXTENDS Sequences, Naturals

CONSTANTS
  Locales,     (* gnome_get_all_locales, and the program's own             *)
  Common,      (* insert_language's and those of the other users           *)
  Fonts,       (* locales with a font, cc_common_language_has_font         *)
  Creatable,   (* locales that newlocale can make                          *)
  Text,        (* "Welcome!" in each of them                               *)
  MaxInputs    (* bound on the user's clicks                               *)

VARIABLES
  initial,       (* cc_common_language_get_initial_languages               *)
  language,      (* the chooser's, and the page's new_locale_id            *)
  showing_extra,
  confirms,      (* confirm_choice in the queue of idle functions          *)
  lang_id, env,  (* the driver's language, and the locale in use           *)
  built,         (* the locale the pages behind were built in              *)
  localed,       (* "connecting", "ready", "failed"                        *)
  permission, acquiring,
  calls, lang,   (* SetLocale in flight, and the system's LANG             *)
  missed,        (* the last SetLocale was for a proxy that was not there  *)
  act_loaded, handlers, act_language,  (* the user, the user_loaded        *)
                 (* handlers that wait for it, and its language            *)
  greeting, timeout,  (* the greeting seen; timeout_id # 0                 *)
  mapped, turned,     (* the page is the one seen; pages confirmed behind  *)
  disposed, inputs

program == <<lang_id, env, built>>
system == <<calls, lang, missed>>
user == <<act_loaded, handlers, act_language>>
welcome == <<greeting, timeout>>
vars == <<initial, language, showing_extra, confirms, program, localed, permission, acquiring,
          system, user, welcome, mapped, turned, disposed, inputs>>

-----------------------------------------------------------------------------
(* What is on the page.                                                    *)

(* cc_common_language_get_initial_languages                                *)
InitialLanguages(own) == Common \cup ({own} \cap Creatable)

(* add_languages: the initial ones, and behind "More" the others.          *)
Visible(locale) == locale \in Fonts /\ (showing_extra \/ locale \in initial)

(* fill_stack: one label for every text.                                   *)
Labels(locales) == {Text[l] : l \in locales \cap Fonts}

(* gis_welcome_widget_show_locale                                          *)
show_locale(locale) ==
  /\ timeout' = TRUE
  /\ greeting' = IF locale \in initial \cap Fonts THEN Text[locale] ELSE greeting

-----------------------------------------------------------------------------
(* Where a language goes.                                                  *)

(* Mistake: the pages are built before the locale is in use.               *)
set_user_language_late(locale) ==
  /\ lang_id' = locale
  /\ env' = IF locale \in Creatable THEN locale ELSE env
  /\ built' = IF locale \in Creatable THEN env ELSE built

(* gis_driver_set_user_language and gis_driver_locale_changed: a locale    *)
(* that cannot be made leaves the program's as it was, and the pages.      *)
set_user_language(locale) ==
  /\ lang_id' = locale
  /\ env' = IF locale \in Creatable THEN locale ELSE env
  /\ built' = IF locale \in Creatable THEN env' ELSE built

(* set_localed_locale: a call on no proxy is a warning.                    *)
set_localed_locale(locale) ==
  /\ calls' = IF localed = "ready" THEN Append(calls, locale) ELSE calls
  /\ missed' = (localed # "ready")

(* Mistake: only the first handler sets a language.                        *)
set_user_first(locale) ==
  IF act_loaded THEN act_language' = locale /\ UNCHANGED handlers
  ELSE handlers' = (IF handlers = <<>> THEN <<locale>> ELSE handlers) /\ UNCHANGED act_language

(* The end of language_changed: at once, or by one more handler.           *)
set_user(locale) ==
  IF act_loaded THEN act_language' = locale /\ UNCHANGED handlers
  ELSE handlers' = Append(handlers, locale) /\ UNCHANGED act_language

-----------------------------------------------------------------------------
(* gis_language_page_constructed, when gis_driver_startup builds the pages *)
(* in the program's locale.                                                *)
Init ==
  /\ language \in Creatable /\ lang_id = language /\ env = language /\ built = language
  /\ initial = InitialLanguages(language)
  /\ showing_extra = FALSE /\ confirms = 0
  /\ localed = "connecting"
  /\ permission \in {"allowed", "acquirable", "no", "unused"} /\ acquiring = 0
  /\ calls = <<>> /\ lang = language /\ missed = FALSE
  /\ act_loaded \in BOOLEAN /\ handlers = <<>> /\ act_language = language
  /\ greeting \in Labels(initial) /\ timeout = TRUE
  /\ mapped = TRUE /\ turned = 0 /\ disposed = FALSE /\ inputs = 0

Input == mapped /\ inputs < MaxInputs /\ inputs' = inputs + 1

ShowMore ==
  /\ mapped /\ ~showing_extra /\ showing_extra' = TRUE
  /\ UNCHANGED <<initial, language, confirms, program, localed, permission, acquiring, system,
                 user, welcome, mapped, turned, disposed, inputs>>

(* row_activated of another row, and set_locale_id                         *)
Picked(locale) ==
  /\ Visible(locale) /\ locale # language /\ Input
  /\ language' = locale

(* Mistake: the page's own locale id is set when everything is done.       *)
LanguageChangedLate(locale) ==
  /\ Picked(locale)
  /\ set_user_language(locale)
  /\ CASE permission = "allowed"    -> set_localed_locale(language) /\ UNCHANGED acquiring
       [] permission = "acquirable" -> acquiring' = acquiring + 1 /\ UNCHANGED <<calls, missed>>
       [] OTHER                     -> UNCHANGED <<acquiring, calls, missed>>
  /\ set_user(locale)
  /\ show_locale(locale)
  /\ UNCHANGED <<initial, showing_extra, confirms, localed, permission, lang, act_loaded,
                 mapped, turned, disposed>>

(* language_changed                                                        *)
LanguageChanged(locale) ==
  /\ Picked(locale)
  /\ set_user_language(locale)
  /\ CASE permission = "allowed"    -> set_localed_locale(locale) /\ UNCHANGED acquiring
       [] permission = "acquirable" -> acquiring' = acquiring + 1 /\ UNCHANGED <<calls, missed>>
       [] OTHER                     -> UNCHANGED <<acquiring, calls, missed>>
  /\ set_user(locale)
  /\ show_locale(locale)
  /\ UNCHANGED <<initial, showing_extra, confirms, localed, permission, lang, act_loaded,
                 mapped, turned, disposed>>

(* row_activated of the row that is chosen                                 *)
Activated ==
  /\ Visible(language) /\ Input
  /\ confirms' = confirms + 1
  /\ UNCHANGED <<initial, language, showing_extra, program, localed, permission, acquiring,
                 system, user, welcome, mapped, turned, disposed>>

(* confirm_choice and language_confirmed: the assistant's next page, from  *)
(* whatever page is the current one by then.                               *)
Confirmed ==
  /\ confirms > 0 /\ ~disposed /\ confirms' = confirms - 1
  /\ IF mapped THEN mapped' = FALSE /\ timeout' = FALSE /\ UNCHANGED turned
     ELSE turned' = turned + 1 /\ UNCHANGED <<mapped, timeout>>
  /\ UNCHANGED <<initial, language, showing_extra, program, localed, permission, acquiring,
                 system, user, greeting, disposed, inputs>>

(* Next, or Back to this page                                              *)
Turn ==
  /\ ~disposed /\ confirms = 0 /\ inputs < MaxInputs /\ inputs' = inputs + 1
  /\ mapped' = ~mapped /\ timeout' = mapped' /\ turned' = 0
  /\ UNCHANGED <<initial, language, showing_extra, confirms, program, localed, permission,
                 acquiring, system, user, greeting, disposed>>

(* localed_proxy_ready                                                     *)
LocaledReady(ok) ==
  /\ localed = "connecting" /\ permission # "unused" /\ ~disposed
  /\ localed' = IF ok THEN "ready" ELSE "failed"
  /\ UNCHANGED <<initial, language, showing_extra, confirms, program, permission, acquiring,
                 system, user, welcome, mapped, turned, disposed, inputs>>

(* change_locale_permission_acquired: for the language of now              *)
PermissionAcquired(allowed) ==
  /\ acquiring > 0 /\ ~disposed /\ acquiring' = acquiring - 1
  /\ IF allowed THEN permission' = "allowed" /\ set_localed_locale(language)
     ELSE UNCHANGED <<permission, calls, missed>>
  /\ UNCHANGED <<initial, language, showing_extra, confirms, program, localed, lang,
                 user, welcome, mapped, turned, disposed, inputs>>

Served ==
  /\ calls # <<>> /\ calls' = Tail(calls) /\ lang' = Head(calls)
  /\ UNCHANGED <<initial, language, showing_extra, confirms, program, localed, permission,
                 acquiring, missed, user, welcome, mapped, turned, disposed, inputs>>

(* user_loaded, each of the handlers in the order they were connected      *)
UserLoaded ==
  /\ ~act_loaded /\ act_loaded' = TRUE
  /\ act_language' = IF handlers = <<>> THEN act_language ELSE handlers[Len(handlers)]
  /\ handlers' = <<>>
  /\ UNCHANGED <<initial, language, showing_extra, confirms, program, localed, permission,
                 acquiring, system, welcome, mapped, turned, disposed, inputs>>

(* advance_stack; the order of the labels is that of a hash table.         *)
Advance ==
  /\ timeout /\ inputs < MaxInputs
  /\ greeting' \in Labels(initial)
  /\ UNCHANGED <<initial, language, showing_extra, confirms, program, localed, permission,
                 acquiring, system, user, timeout, mapped, turned, disposed, inputs>>

(* Mistake: the welcome goes on turning.                                   *)
DisposeTurning ==
  /\ ~disposed /\ disposed' = TRUE /\ mapped' = FALSE /\ timeout' = timeout
  /\ UNCHANGED <<initial, language, showing_extra, confirms, program, localed, permission,
                 acquiring, system, user, greeting, turned, inputs>>

(* gis_language_page_dispose; functions of the page that are queued or     *)
(* awaited then find memory that is not theirs.                            *)
Dispose ==
  /\ ~disposed /\ disposed' = TRUE /\ mapped' = FALSE /\ timeout' = FALSE
  /\ UNCHANGED <<initial, language, showing_extra, confirms, program, localed, permission,
                 acquiring, system, user, greeting, turned, inputs>>

Next ==
  \/ ShowMore \/ Activated \/ Confirmed \/ Turn \/ Served \/ UserLoaded \/ Advance \/ Dispose
  \/ \E locale \in Locales : LanguageChanged(locale)
  \/ \E ok \in BOOLEAN : LocaledReady(ok) \/ PermissionAcquired(ok)

Spec == Init /\ [][Next]_vars

-----------------------------------------------------------------------------
TypeOK ==
  /\ {language, lang_id, env, built, lang, act_language} \subseteq Locales
  /\ calls \in Seq(Locales) /\ handlers \in Seq(Locales) /\ initial \subseteq Locales
  /\ greeting \in Labels(initial)
  /\ {confirms, acquiring, turned} \subseteq Nat
  /\ timeout = mapped

(* The user's account has the language picked last, however often it was   *)
(* changed before the account was loaded.                                  *)
UserGetsLanguage == act_loaded => act_language = language

(* So has the system, once it may be changed and localed has obeyed; but a *)
(* pick that came before the proxy for localed is lost for good.           *)
SystemGetsLanguage ==
  permission = "allowed" /\ calls = <<>> /\ ~missed => lang = language

(* The pages are in the language picked, where the C library has it, else  *)
(* in the one the program runs in.                                         *)
PagesFollow == built = env /\ (language \in Creatable => built = language)
=============================================================================
