SPECIFICATION Spec
CONSTANTS
  Account = {ana, ben}
  Nobody = Nobody
  Task = {t1, t2}
  MaxTimers = 1
  Fails = FALSE
INVARIANT OwnPicture
