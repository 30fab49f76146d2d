\* A policy is deleted and seeded again while a request reads it.
SPECIFICATION Spec
CONSTANTS
  Nil = Nil
  Words <- AllWords
  PolicyIDs <- EveryId
  Persons = {"PERSON-1", "PERSON-2"}
  Requests = {r1}
  MaxConns = 1
  Inputs <- OneInput
  ActorAnswers <- Actors
  CapabilityAnswers <- OneCapabilityList
  Configurations <- AllConfigured
  CanonicalPolicies <- SeededPolicy
  InitialPolicies <- SeededPolicy
  AdminPolicies <- Nothing
  Deletable <- SeededIds
INVARIANTS
  AllowMeetsOneVersion
