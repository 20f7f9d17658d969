SPECIFICATION FairSpec
CONSTANTS
  Msg = {1, 2, 3, 4}
  Mine = {1, 2}
  Photo = {2, 3}
  PageSize = 1
  Fails = TRUE
  MaxPulls = 1
INVARIANTS TypeOK InOrder NewestShown PhotosStored
PROPERTY SentShown
CHECK_DEADLOCK FALSE
