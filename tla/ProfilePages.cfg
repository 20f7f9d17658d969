SPECIFICATION FairSpec
CONSTANTS
  ana = ana
  ben = ben
  User = {ana, ben}
  Post = {1, 2, 3}
  NoPost = NoPost
  Author <- TwoOfAna
  Me = ana
  Fails = TRUE
  MaxAppears = 2
  MaxPages = 3
INVARIANTS DeletedHidden CleanFirstGrid CellsFollow
PROPERTIES PostShown DetailShown
CHECK_DEADLOCK FALSE
