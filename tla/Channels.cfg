SPECIFICATION FairSpec
CONSTANTS
  home = home  work = work  club = club
  c1 = c1  c2 = c2  c3 = c3  c4 = c4
  Family = {home, work, club}
  Doc = {c1, c2, c3, c4}
  FamilyOf <- Families
  Name <- Names
  Mine = {c2, c3}
  Fails = TRUE
  MaxPages = 2
  MaxSwitches = 1
INVARIANTS OneRowEach RowsReported ReportedHaveRows
PROPERTY ChannelShown
CHECK_DEADLOCK FALSE
