SPECIFICATION Spec
CONSTANTS
  u1 = u1  u2 = u2  d1 = d1  d2 = d2  t1 = t1  t2 = t2  f1 = f1  f2 = f2
  User = {u1}
  Device = {d1, d2}
  Task = {t1, t2}
  Nobody = Nobody
  FamilyId = {f1, f2}
  NoFamily = NoFamily
  Owner <- Shared
  On <- Separate
  Refusable = {}
  MaxTaps = 1
INVARIANT ConfirmedKept
