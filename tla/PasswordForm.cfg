SPECIFICATION FairSpec
CONSTANTS
  p1 = p1
  p2 = p2
  u1 = u1
  u2 = u2
  Passwords = {p1, p2}
  Empty = Empty
  Users = {u1, u2}
  None = None
  Weak <- WeakPairs
  MaxEdits = 8
INVARIANTS
  SaysWhatIsEntered
  NeverFreed
  HiddenFromDomainUser
PROPERTY
  FormSettles
CHECK_DEADLOCK FALSE
