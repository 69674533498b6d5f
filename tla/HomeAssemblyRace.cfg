SPECIFICATION FairSpec
CONSTANTS
  p1 = p1
  p2 = p2
  p3 = p3
  c1 = c1
  c2 = c2
  n1 = n1
  n2 = n2
  Id = {p1, p2, p3, c1, c2}
  Absent = Absent
  Notice = {n1, n2}
  Profile = {p1, p2}
  Customer = {c1, c2}
  MaxSize = 6
  PageSize = 5
  Reach = 6
  MaxWrites = 2
  Caller <- Everyone
  Notices0 <- NoticesSeed
  Profiles0 <- ProfilesTied
  Customers0 <- CustomersSeed
INVARIANTS
  TypeOK
  CardsAreCurrent
  NothingStayingIsMissed
  CountsAreCurrent
  ReadsStayInScope
  NoCardTwice
  CustomerCardIsOwn
PROPERTY
  EveryPageSettles
