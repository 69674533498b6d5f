SPECIFICATION Spec
CONSTANTS
  p1 = p1
  p2 = p2
  p3 = p3
  e1 = e1
  e2 = e2
  e3 = e3
  e4 = e4
  Malformed = Malformed
  n1 = n1
  n2 = n2
  r1 = r1
  q1 = q1
  h1 = h1
  t1 = t1
  t2 = t2
  Id = {p1, p2, p3, e1, e2, e3, e4, n1, n2, r1, q1, h1}
  Absent = Absent
  Text = {t1, t2}
  Doc = {e1, e2, e3, e4, n1, n2, r1, q1, h1}
  Profile = {p1, p2}
  MaxWrites = 2
  Caller <- Callers
  Docs0 <- DocumentsOfOld
  Stored0 <- Stored
  Names0 <- DisplayNamesSeed
INVARIANT
  NamesAreOwn
