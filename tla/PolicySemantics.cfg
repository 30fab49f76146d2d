SPECIFICATION Spec
CONSTANTS
  Nil = Nil
  Words <- AllWords
  PolicyIDs = {"POL-1"}
  Inputs <- MCInputs
  RoleTexts <- MCRoleTexts
  CapabilityTexts <- MCCapabilityTexts
INVARIANTS
  TypeOK
  AllowMatchesPolicySemantics
PROPERTIES
  MoreAuthorityNeverDenies
  SpellingNeverMatters
  OnlyTheLastRoleWidens
CHECK_DEADLOCK FALSE
