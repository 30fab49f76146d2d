\* Two requests at once on one connection, beside the seeder, an operator, crashes and
\* disconnects.
SPECIFICATION Spec
CONSTANTS
  Nil = Nil
  Words <- AllWords
  PolicyIDs <- EveryId
  Persons = {"PERSON-1", "PERSON-2"}
  Requests = {r1, r2}
  MaxConns = 1
  Inputs <- SomeInputs
  ActorAnswers <- OneActor
  CapabilityAnswers <- OneCapabilityList
  Configurations <- AllConfigured
  CanonicalPolicies <- SeededPolicy
  InitialPolicies <- Nothing
  AdminPolicies <- RivalVersion
  Deletable <- Nothing
SYMMETRY RequestSymmetry
INVARIANTS
  LedgerAudited
  IInv
PROPERTIES
  LedgerRefinement
  NoRecordAfterDisconnect
