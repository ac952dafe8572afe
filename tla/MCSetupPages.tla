---------------------------- MODULE MCSetupPages ----------------------------
(***************************************************************************)
(* What the pages of SetupPages are shown and told when TLC looks at them: *)
(* for each page the smallest sets in which its hard cases meet.           *)
(***************************************************************************)
EXTENDS SetupPages

(* --- the network page *)
AP(ssid, strength, privacy) ==
  [ssid |-> ssid, strength |-> strength, privacy |-> privacy, wpa |-> FALSE, rsn |-> FALSE]
MCWifi == {"wlan", "dongle"}
MCWired == {"eth"}
MCKnown == {"home"}
MCAirs == {
  <<>>,
  <<AP("home", 30, TRUE), AP("none", 90, FALSE), AP("cafe", 45, FALSE), AP("home", 60, TRUE)>>,
  <<AP("cafe", 80, FALSE), AP("home", 80, TRUE), AP("cafe", 10, FALSE)>> }

(* --- the time zone page: a link of "backward", an alias in "posix", and  *)
(* a zone the map does not have                                            *)
MCLocal == {"berlin", "istanbul"}
MCRemote == {"hamlet", "atoll"}
MCZoneOf == [p \in MCLocal \cup MCRemote |->
  CASE p = "berlin"   -> <<"Europe", "Berlin">>
    [] p = "istanbul" -> <<"posix", "Asia", "Istanbul">>
    [] p = "hamlet"   -> <<"CET">>
    [] OTHER          -> <<"Etc", "GMT-14">>]
MCZones == {<<"Europe", "Berlin">>, <<"Europe", "Istanbul">>, <<"Europe", "Brussels">>}
MCBackward == [n \in {<<"Turkey">>} |-> <<"Europe", "Istanbul">>]
MCTexts == {"berlin", "xy"}

(* --- the applications *)
MCFeatured == {
  <<>>, <<"vlc", "gimp">>, <<"gimp", "krita", "spotify">>,
  <<"vlc", "firefox", "gimp", "krita", "spotify">> }
MCInstalled == {{"gimp"}, {"vlc", "gimp"}}
MCIcons == [s \in {"vlc", "firefox", "gimp", "krita", "spotify"} |->
  CASE s = "vlc" -> {"snap", "store"} [] s = "gimp" -> {"desktop"}
    [] s = "krita" -> {"store"} [] OTHER -> {}]
MCPerBox == 2

(* --- the online accounts: two of one provider, one of none that is offered *)
MCOffered == {"google", "owncloud"}
MCAccounts == {"ann", "bob", "cid", "dot"}
MCTypeOf == [a \in MCAccounts |->
  CASE a \in {"ann", "bob"} -> "google" [] a = "cid" -> "owncloud" [] OTHER -> "imap_smtp"]

(* --- the keyboard *)
Xkb(layout, variant) == <<"xkb", layout, variant>>
MCAllLayouts == {Xkb("us", ""), Xkb("de", ""), Xkb("de", "neo"), Xkb("fr", "")}
MCEngines == {<<"ibus", "anthy", "jp">>, <<"ibus", "hangul", "us">>}
MCRank == [s \in MCAllLayouts \cup MCEngines |->
  CASE s[2] = "fr" -> 1 [] s = Xkb("de", "") -> 2 [] s[3] = "neo" -> 3
    [] s[2] = "us" -> 4 [] s[2] = "anthy" -> 5 [] OTHER -> 6]
MCLocaleSources == {<<>>, <<"ibus", "anthy", "jp">>, Xkb("fr", "")}
MCLocaleLayouts == {Xkb("us", ""), Xkb("fr", ""), Xkb("de", "neo")}
MCX11s == {
  [layouts |-> <<>>, variants |-> <<>>],
  [layouts |-> <<"us", "de">>, variants |-> <<>>],
  [layouts |-> <<"de", "us">>, variants |-> <<"neo", "">>],
  [layouts |-> <<"de", "us">>, variants |-> <<"neo">>],
  [layouts |-> <<"zz", "us">>, variants |-> <<>>] }
MCMinRows == 2

(* --- the language: one that no font shows, one the C library cannot make *)
MCLocales == {"en_US", "en_GB", "de_DE", "xx"}
MCCommon == {"en_US", "de_DE"}
MCFonts == {"en_US", "de_DE", "xx"}
MCCreatable == {"en_US", "en_GB", "de_DE"}
MCText == [l \in MCLocales |-> IF l = "de_DE" THEN "Willkommen!" ELSE "Welcome!"]

(* --- the dialog of the Livepatch page: three accounts of MCUbuntu One, and one *)
(* of another provider                                                     *)
MCUbuntu == {"ann", "bob", "cid"}
MCUsers == MCUbuntu \cup {"dot"}
MCInitial == {<<>>, <<"ann">>, <<"ann", "bob">>, <<"bob", "ann">>, <<"cid", "ann", "bob">>}
=============================================================================
