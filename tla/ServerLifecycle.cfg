SPECIFICATION FairSpec
CONSTANTS
  r1 = r1
  r2 = r2
  Request = {r1, r2}
  Calls = 2
  MaxSignals = 2
  Absent = Absent
INVARIANTS
  TypeOK
  SurfaceIsDocumented
  ShutdownIsClean
  WorkerNeverRunsClosed
PROPERTIES
  SignalEndsServer
