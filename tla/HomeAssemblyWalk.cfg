SPECIFICATION Spec
CONSTANTS
  p1 = p1
  p2 = p2
  p3 = p3
  c1 = c1
  c2 = c2
  n1 = n1
  n2 = n2
  Id = {p1, p2, p3, c1, c2}
  Absent = Absent
  Notice = {n1, n2}
  Profile = {p1, p2, p3}
  Customer = {c1, c2}
  MaxSize = 12
  PageSize = 2
  Reach = 12
  MaxWrites = 1
  Caller <- Walkers
  Notices0 <- NoticesSeed
  Profiles0 <- ManyProfiles
  Customers0 <- CustomersSeed
INVARIANTS
  WalkIsExact
  ForwardDriftLosesNothing
