\* An operator deletes policies that are in use, and writes another for their route; nothing
\* puts them back.
SPECIFICATION Spec
CONSTANTS
  Nil = Nil
  Words <- AllWords
  PolicyIDs <- EveryId
  Persons = {"PERSON-1", "PERSON-2"}
  Requests = {r1, r2}
  MaxConns = 2
  Inputs <- OneInput
  ActorAnswers <- Actors
  CapabilityAnswers <- Capabilities
  Configurations <- AllConfigured
  CanonicalPolicies <- Nothing
  InitialPolicies <- SeededPolicy
  AdminPolicies <- RivalVersion
  Deletable <- SeededIds
SYMMETRY RequestSymmetry
INVARIANTS
  AllowMeetsOneVersion
