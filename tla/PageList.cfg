SPECIFICATION Spec
CONSTANTS
  Desktops = {"ubuntu", "unity", "gnome"}
  VendorPages = {"welcome", "language", "account"}
  MaxOverruns = 2
INVARIANTS
  ListIsFresh
PROPERTY
  SeenStay
CHECK_DEADLOCK FALSE
