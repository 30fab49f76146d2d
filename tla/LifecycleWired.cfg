\* Two requests and a probe on one connection, with every set of dependencies.
SPECIFICATION FairSpec
CONSTANTS
  Int32Max = 7
  DriverMaxConns = 4
  DriverMinConns = 0
  Requests = {q1, q2, p1}
  Probes = {p1}
  Environments <- WiredEnvironments
  Statements = 1
INVARIANTS
  LifecycleInv
  CleanExitKillsNobody
  PoolClosesUnderNobody
  ProbesAndRequestsAgree
PROPERTIES
  ShutdownEnds
  ProbesEnd
  StartupEnds
  AbandonmentEnds
