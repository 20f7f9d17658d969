SPECIFICATION FairSpec
CONSTANTS
  ana = ana
  ben = ben
  home = home
  other = other
  User = {ana, ben}
  Item = {1, 2, 3}
  Author <- BothAuthors
  Family = {home, other}
  FamilyOf <- TwoHomes
  Me = ana
  Fails = TRUE
  Age <- Boundaries
  MaxErrors = 2
  MaxVersion = 2
  MaxLoads = 2
  MaxChanges = 4
INVARIANTS TypeOK Aligned LatestShown NothingDropped CleanFirstLoad RowsLabelled
PROPERTY RefreshShows
CHECK_DEADLOCK FALSE
