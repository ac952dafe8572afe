SPECIFICATION FairSpec
CONSTANTS
  Users = {u1, u2}
  None = None
  MaxApplies = 2
  MaxPrompts = 1
  MaxManagers = 2
INVARIANTS
  MembersOnly
  PromptHasReason
PROPERTIES
  CancelHolds
  ApplyEnds
CHECK_DEADLOCK FALSE
