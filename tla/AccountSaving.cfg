SPECIFICATION Spec
CONSTANTS
  Passwords = {p1, p2}
  NoPassword = NoPassword
  Dummy = Dummy
  None = None
INVARIANTS
  ChildHasParent
  SavedTogether
  KeyringFollowsUser
CHECK_DEADLOCK FALSE
