\* One request and a probe, with every setting of the pool and a DSN that has a minimum.
SPECIFICATION Spec
CONSTANTS
  Int32Max = 7
  DriverMaxConns = 4
  DriverMinConns = 6
  Requests = {q1, p1}
  Probes = {p1}
  Environments <- SizedEnvironments
  Statements = 2
INVARIANTS
  PoolAsWritten
