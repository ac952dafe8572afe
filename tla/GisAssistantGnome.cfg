SPECIFICATION Spec
CONSTANTS
  N = 8
  FirstPages <- GnomeFirst
  SkipLists <- GnomeSkip
  Follow <- GnomeFollow
  Overrun = {1}
  Account = 4
  UsernamePages = {5}
  Hideable = {2}
  ParentalOnly = {6}
  Relocale = {1}
  Confirming = {1, 4, 5}
  Dynamic = {4, 5}
  StartComplete = {1, 3, 6, 7, 8}
  Skippable = {2, 3, 8}
  NeedsAccept = {}
  HasForward = {}
  HideNavigation = {7}
CHECK_DEADLOCK FALSE
INVARIANTS
  CurrentIsShown
  TitleBarAgrees
  NeverPastApplyingPage
PROPERTIES
  WizardSpec
