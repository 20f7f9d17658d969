SPECIFICATION FairSpec
CONSTANTS
  ana = ana
  ben = ben
  User = {ana, ben}
  Item = {1, 2, 3}
  Author <- OneOfBen
  Me = ana
  Fails = TRUE
  MaxErrors = 1
  MaxVersion = 1
INVARIANTS SentNotForgotten TableFollows
PROPERTY SentShown
CHECK_DEADLOCK FALSE
