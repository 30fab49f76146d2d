\* Three runs over two seeds beside an operator who inserts a rival policy and deletes rows.
SPECIFICATION Spec
CONSTANTS
  Runs = {s1, s2, s3}
  Seeds <- FirstSeeds
  InitialRows <- Nothing
  OperatorRows <- RivalRows
  Deletable <- DeletedRows
SYMMETRY RunSymmetry
INVARIANTS
  SeederInv
  WaitsForTheFurther
PROPERTIES
  SeedingRefinement
