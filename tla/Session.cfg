SPECIFICATION FairSpec
CONSTANTS
  Account = {ana}
  Nobody = Nobody
  Task = {t1, t2}
  MaxTimers = 2
  Fails = TRUE
INVARIANTS SomebodySignedIn FamilyOnMain
PROPERTIES FamilyKept OperationEnds Unblocked
