SPECIFICATION Spec
CONSTANTS
  u1 = u1  u2 = u2  d1 = d1  d2 = d2  t1 = t1  t2 = t2  f1 = f1  f2 = f2
  User = {u1, u2}
  Device = {d1, d2}
  Task = {t1, t2}
  Nobody = Nobody
  FamilyId = {f1, f2}
  NoFamily = NoFamily
  Owner <- OneEach
  On <- Separate
  Refusable = {"channel"}
  MaxTaps = 2
SYMMETRY Families
INVARIANT FamilyKnown
PROPERTY ImplementsMembership
