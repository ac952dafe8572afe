SPECIFICATION Spec
CONSTANTS
  Pages = {"network", "timezone", "apps", "goa", "keyboard", "language",
           "auth"}
  Wifi <- MCWifi
  Wired <- MCWired
  Known <- MCKnown
  Airs <- MCAirs
  Local <- MCLocal
  Remote <- MCRemote
  ZoneOf <- MCZoneOf
  Zones <- MCZones
  Backward <- MCBackward
  Texts <- MCTexts
  Featured <- MCFeatured
  Installed <- MCInstalled
  Icons <- MCIcons
  PerBox <- MCPerBox
  Offered <- MCOffered
  Accounts <- MCAccounts
  TypeOf <- MCTypeOf
  AllLayouts <- MCAllLayouts
  Engines <- MCEngines
  Rank <- MCRank
  LocaleSources <- MCLocaleSources
  LocaleLayouts <- MCLocaleLayouts
  X11s <- MCX11s
  MinRows <- MCMinRows
  Locales <- MCLocales
  Common <- MCCommon
  Fonts <- MCFonts
  Creatable <- MCCreatable
  Text <- MCText
  Ubuntu <- MCUbuntu
  Users <- MCUsers
  Initial <- MCInitial
  NetworkChanges = 3
  TimezoneInputs = 4
  GoaChanges = 4
  KeyboardInputs = 3
  LanguageInputs = 3
  AuthChanges = 3
INVARIANTS
  TypeOK
  SeenPagesStay
  SearchIsForText
  ZoneIsWanted
  TilesMatchSnaps
  NoTimerOutlivesPage
  AccountsShown
  UsedIsGood
  ChosenIsSeen
  SystemLayoutsKept
  LanguageReaches
PROPERTIES
  RowsAreStrongest
  PagesSettle
  EnteredChoiceStands
  LocaledUnderstood
CHECK_DEADLOCK FALSE
