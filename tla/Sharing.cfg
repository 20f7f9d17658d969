SPECIFICATION FairSpec
CONSTANTS
  Share = {s1, s2}
  Family = {home, other}
  NoFamily = NoFamily
  Fails = TRUE
  EncodingFails = TRUE
  RecognitionFails = TRUE
  MaxSwitches = 2
  MaxTimers = 2
PROPERTIES Unblocked Ends
INVARIANTS FamilyTimely PhotosFirst
CHECK_DEADLOCK FALSE
