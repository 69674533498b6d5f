SPECIFICATION Spec
CONSTANTS
  p1 = p1
  p2 = p2
  p3 = p3
  c1 = c1
  c2 = c2
  n1 = n1
  n2 = n2
  Id = {p1, p2, p3, c1, c2}
  Absent = Absent
  Notice = {n1, n2}
  Profile = {p1, p2}
  Customer = {c1, c2}
  MaxSize = 6
  PageSize = 5
  Reach = 6
  MaxWrites = 2
  Caller <- Owners
  Notices0 <- NoticesSeed
  Profiles0 <- ProfilesSeed
  Customers0 <- CustomersSeed
INVARIANT
  CustomerCardIsOwn
