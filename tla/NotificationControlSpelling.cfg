SPECIFICATION Spec
CONSTANTS
  p1 = p1
  p2 = p2
  c1 = c1
  d1 = d1
  d2 = d2
  r1 = r1
  r2 = r2
  r3 = r3
  Id = {p1, p2, c1}
  Absent = Absent
  Forged = Forged
  Doc = {d1, d2}
  Request = {r1, r2}
  Token <- PersonaTokens
  Payload <- Payloads
  Seed <- OneSeeded
INVARIANT
  ForbiddenOnlyForGlobal
