SPECIFICATION FairSpec
CONSTANTS
  Account = {ana, ben}
  Nobody = Nobody
  Task = {t1}
  MaxTimers = 1
  Fails = FALSE
PROPERTY LogInMoves
