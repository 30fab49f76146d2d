\* The seeder is the only writer of the policy tables, and starts with empty ones.
SPECIFICATION Spec
CONSTANTS
  Nil = Nil
  Words <- AllWords
  PolicyIDs <- EveryId
  Persons = {"PERSON-1", "PERSON-2"}
  Requests = {r1, r2}
  MaxConns = 2
  Inputs <- OneInput
  ActorAnswers <- Actors
  CapabilityAnswers <- Capabilities
  Configurations <- AllConfigured
  CanonicalPolicies <- SeededPolicy
  InitialPolicies <- Nothing
  AdminPolicies <- Nothing
  Deletable <- Nothing
SYMMETRY RequestSymmetry
INVARIANTS
  AllowMeetsOneVersion
