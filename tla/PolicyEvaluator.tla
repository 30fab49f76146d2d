--------------------------- MODULE PolicyEvaluator ---------------------------
(***************************************************************************)
(* policy.Evaluator.Evaluate: the verdict on one authorization request,    *)
(* given the policy found for its route (or none), the actor's roles and   *)
(* the organization's capabilities.  A pure function of its input.         *)
(***************************************************************************)
EXTENDS Texts

CONSTANTS PolicyIDs,   \* the ids of policies
          Nil          \* Go's nil: no policy was found

Policy == [id : PolicyIDs, target : Text, method : Text, route : Text, operation : Text,
           effect : Text, status : Text,
           requiredRoles : SUBSET Text, requiredCapabilities : SUBSET Text]

ASSUME NilAssumption == Nil \notin Policy

ASSUME PolicyIDsAssumption == "" \notin PolicyIDs

\* The deny reasons of this package; "" stands for none.
EvaluationDenyReasons ==
  {"", "missing_target_system", "missing_method", "missing_route", "missing_operation",
   "policy_not_found", "policy_disabled", "explicit_policy_deny", "unsupported_policy_effect",
   "missing_required_role", "missing_required_capability"}

EvaluationInput == [target : Text, method : Text, route : Text, operation : Text,
                    policy : Policy \cup {Nil},
                    actorRoles : SUBSET Text, organizationCapabilities : SUBSET Text]

\* Variant: every required role counts.
HasEveryRequiredRole(actorRoles, requiredRoles) ==
  NormalizeStringSlice(requiredRoles) \subseteq NormalizeStringSlice(actorRoles)

\* Any one of the required roles is enough; a list without roles asks for none.
HasAnyRequiredRole(actorRoles, requiredRoles) ==
  \/ requiredRoles = {}
  \/ NormalizeStringSlice(actorRoles) \cap NormalizeStringSlice(requiredRoles) # {}

\* Variant: one of the required capabilities is enough.
MissingEveryRequiredCapability(capabilities, requiredCapabilities) ==
  IF NormalizeStringSlice(requiredCapabilities) \cap NormalizeStringSlice(capabilities) # {}
  THEN {} ELSE NormalizeStringSlice(requiredCapabilities)

\* Variant: more capabilities than required count as missing ones.
CapabilitiesDiffer(capabilities, requiredCapabilities) ==
  (NormalizeStringSlice(requiredCapabilities) \ NormalizeStringSlice(capabilities))
  \cup (NormalizeStringSlice(capabilities) \ NormalizeStringSlice(requiredCapabilities))

\* Every required capability counts.
MissingRequiredCapabilities(capabilities, requiredCapabilities) ==
  NormalizeStringSlice(requiredCapabilities) \ NormalizeStringSlice(capabilities)

\* The verdict of an enabled ALLOW policy, "" when it grants the request.
AllowPolicyDenyReason(actorRoles, capabilities, requiredRoles, requiredCapabilities) ==
  IF requiredRoles # {} /\ ~HasAnyRequiredRole(actorRoles, requiredRoles)
    THEN "missing_required_role"
  ELSE IF MissingRequiredCapabilities(capabilities, requiredCapabilities) # {}
    THEN "missing_required_capability"
  ELSE ""

\* The early returns of Evaluate, in their order; "" is the only way to ALLOW.
DenyReason(i) ==
  IF Fold(i.target) = EmptyText THEN "missing_target_system"
  ELSE IF Fold(i.method) = EmptyText THEN "missing_method"
  ELSE IF TrimSpace(i.route) = EmptyText THEN "missing_route"
  ELSE IF TrimSpace(i.operation) = EmptyText THEN "missing_operation"
  ELSE IF i.policy = Nil THEN "policy_not_found"
  ELSE IF Fold(i.policy.status) # Plain("ACTIVE") THEN "policy_disabled"
  ELSE IF Fold(i.policy.effect) = Plain("DENY") THEN "explicit_policy_deny"
  ELSE IF Fold(i.policy.effect) # Plain("ALLOW") THEN "unsupported_policy_effect"
  ELSE AllowPolicyDenyReason(NormalizeStringSlice(i.actorRoles),
                             NormalizeStringSlice(i.organizationCapabilities),
                             NormalizeStringSlice(i.policy.requiredRoles),
                             NormalizeStringSlice(i.policy.requiredCapabilities))

\* The policy is only looked at, and reported, once all four parts of the route are there.
PolicyConsulted(i) ==
  /\ i.policy # Nil
  /\ Fold(i.target) # EmptyText /\ Fold(i.method) # EmptyText
  /\ TrimSpace(i.route) # EmptyText /\ TrimSpace(i.operation) # EmptyText

Evaluate(i) ==
  [decision             |-> IF DenyReason(i) = "" THEN "ALLOW" ELSE "DENY",
   denyReason           |-> DenyReason(i),
   matchedPolicyID      |-> IF PolicyConsulted(i) THEN i.policy.id ELSE "",
   requiredRoles        |-> IF PolicyConsulted(i)
                            THEN NormalizeStringSlice(i.policy.requiredRoles) ELSE {},
   requiredCapabilities |-> IF PolicyConsulted(i)
                            THEN NormalizeStringSlice(i.policy.requiredCapabilities) ELSE {}]

=============================================================================
