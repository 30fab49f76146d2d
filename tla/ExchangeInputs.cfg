\* One request with every input, every answer of TaifaID, every configuration and every
\* version of the policy.
SPECIFICATION Spec
CONSTANTS
  Nil = Nil
  Words <- AllWords
  PolicyIDs <- EveryId
  Persons = {"PERSON-1", "PERSON-2"}
  Requests = {r1}
  MaxConns = 1
  Inputs <- EveryInput
  ActorAnswers <- Actors
  CapabilityAnswers <- Capabilities
  Configurations <- AnyConfiguration
  CanonicalPolicies <- SeededPolicy
  InitialPolicies <- Nothing
  AdminPolicies <- EveryVersion
  Deletable <- EveryId
INVARIANTS
  EvidenceInv
  RowsJustifyThemselves
  MatchedPolicyIsForRecordedRoute
  EveryDecisionStorable
