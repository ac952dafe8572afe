SPECIFICATION Spec
CONSTANTS
  Desktops = {"gnome"}
  VendorPages = {}
  MaxOverruns = 0
INVARIANT
  BothAccounts
CHECK_DEADLOCK FALSE
