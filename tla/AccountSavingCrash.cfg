SPECIFICATION Spec
CONSTANTS
  Passwords = {p1, p2}
  NoPassword = NoPassword
  Dummy = Dummy
  None = None
INVARIANT
  ParentUsable
CHECK_DEADLOCK FALSE
