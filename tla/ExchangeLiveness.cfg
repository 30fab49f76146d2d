\* Every request is over in the end, with fewer connections than requests.
SPECIFICATION FairSpec
CONSTANTS
  Nil = Nil
  Words <- AllWords
  PolicyIDs <- EveryId
  Persons = {"PERSON-1", "PERSON-2"}
  Requests = {r1, r2}
  MaxConns = 1
  Inputs <- OneInput
  ActorAnswers <- OneActor
  CapabilityAnswers <- OneCapabilityList
  Configurations <- IdentityConfigured
  CanonicalPolicies <- Nothing
  InitialPolicies <- SeededPolicy
  AdminPolicies <- Nothing
  Deletable <- Nothing
PROPERTIES
  EveryRequestSettles
