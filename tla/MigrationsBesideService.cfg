SPECIFICATION FairSpec
CONSTANTS
  Writers = {w1, w2}
  Inputs <- MCInputs
  Procedures <- MCProcedures
INVARIANTS MigrationsInv RowsFitChecks UpNeverFails ScriptsComplete
PROPERTIES RefusedOnlyDowngraded UpgradeEnds
