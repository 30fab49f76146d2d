\* Two runs over all canonical policies, and an operator's rival policy on a seeded route.
SPECIFICATION FairSpec
CONSTANTS
  Runs = {s1, s2}
  Seeds <- CanonicalPolicies
  InitialRows <- Nothing
  OperatorRows <- RivalRows
  Deletable <- Nothing
INVARIANTS
  SuccessMeansSeeded
  SummariesAddUp
  SummariesMatchEvents
PROPERTIES
  CommitIsOneStep
  EveryRunEnds
