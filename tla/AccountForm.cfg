SPECIFICATION FairSpec
CONSTANTS
  Names = {ada, grace}
  Blank = Blank
  Usernames = {countess, bad, administrator}
  BadUsernames = {bad}
  Administrator = administrator
  Empty = Empty
  MaxEdits = 6
INVARIANTS
  UsernameChecked
  AppliedIsSaved
  OneAdministrator
PROPERTY
  FormSettles
CHECK_DEADLOCK FALSE
