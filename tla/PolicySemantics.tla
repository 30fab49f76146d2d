--------------------------- MODULE PolicySemantics ---------------------------
(***************************************************************************)
(* What policy.Evaluator promises, next to what it computes.  The state is *)
(* one input and the evaluator's result on it; one step changes the input  *)
(* the way an operator, TaifaID or a client can change it and evaluates    *)
(* again, so that properties can compare the two results.                  *)
(***************************************************************************)
EXTENDS PolicyEvaluator

CONSTANTS Inputs,            \* the inputs the evaluator is first called with
          RoleTexts,         \* role spellings in actor contexts and policies
          CapabilityTexts    \* capability spellings

ASSUME InputsAssumption == /\ Inputs \subseteq EvaluationInput
                           /\ RoleTexts \subseteq Text
                           /\ CapabilityTexts \subseteq Text

VARIABLES input, result,
          altered    \* the input has been changed and evaluated again

vars == <<input, result, altered>>

\* The evaluator is called again with the changed input.
Reevaluate(i) == /\ ~altered
                 /\ altered' = TRUE
                 /\ input' = i
                 /\ result' = Evaluate(i)

Init == input \in Inputs /\ result = Evaluate(input) /\ altered = FALSE

\* TaifaID reports one more role of the actor.
GainRole == \E t \in RoleTexts :
  Reevaluate([input EXCEPT !.actorRoles = @ \cup {t}])

\* TaifaID reports one more capability of the organization.
GainCapability == \E t \in CapabilityTexts :
  Reevaluate([input EXCEPT !.organizationCapabilities = @ \cup {t}])

\* A row leaves exchange_policy_roles.
DropRequiredRole ==
  /\ input.policy # Nil
  /\ \E t \in input.policy.requiredRoles :
       Reevaluate([input EXCEPT !.policy.requiredRoles = @ \ {t}])

\* A row leaves exchange_policy_capabilities.
DropRequiredCapability ==
  /\ input.policy # Nil
  /\ \E t \in input.policy.requiredCapabilities :
       Reevaluate([input EXCEPT !.policy.requiredCapabilities = @ \ {t}])

\* The same words in another spelling of blanks and, where the code folds it, case.
SameFolded(t) == {s \in [word : {t.word}, padded : BOOLEAN, recased : BOOLEAN] :
                     s.word = "" => ~s.recased}
SameTrimmed(t) == {s \in SameFolded(t) : s.recased = t.recased}

Respell ==
  \/ \E t \in SameFolded(input.target) : Reevaluate([input EXCEPT !.target = t])
  \/ \E t \in SameFolded(input.method) : Reevaluate([input EXCEPT !.method = t])
  \/ \E t \in SameTrimmed(input.route) : Reevaluate([input EXCEPT !.route = t])
  \/ \E t \in SameTrimmed(input.operation) : Reevaluate([input EXCEPT !.operation = t])
  \/ \E t \in input.actorRoles : \E s \in SameFolded(t) :
       Reevaluate([input EXCEPT !.actorRoles = (@ \ {t}) \cup {s}])
  \/ \E t \in input.organizationCapabilities : \E s \in SameFolded(t) :
       Reevaluate([input EXCEPT !.organizationCapabilities = (@ \ {t}) \cup {s}])

Next == GainRole \/ GainCapability \/ DropRequiredRole \/ DropRequiredCapability \/ Respell

Spec == Init /\ [][Next]_vars
-----------------------------------------------------------------------------
WordsOf(texts) == {t.word : t \in texts} \ {""}

\* README, "Policy semantics", in words alone: no spelling, no order of checks.
Granted(i) ==
  /\ "" \notin {i.target.word, i.method.word, i.route.word, i.operation.word}
  /\ i.policy # Nil
  /\ i.policy.status.word = "ACTIVE"
  /\ i.policy.effect.word = "ALLOW"
  /\ \/ WordsOf(i.policy.requiredRoles) = {}
     \/ WordsOf(i.policy.requiredRoles) \cap WordsOf(i.actorRoles) # {}
  /\ WordsOf(i.policy.requiredCapabilities) \subseteq WordsOf(i.organizationCapabilities)

\* What NormalizeStringSlice leaves: words in their own spelling, none of them blank.
Normalized(texts) == \A t \in texts : t \in Text /\ t = Plain(t.word) /\ t.word # ""

\* A step stays within the evaluator's inputs, and the lists a result reports (they go into
\* the decision row) are normalised whatever the policy's rows look like.
TypeOK == /\ input \in EvaluationInput
          /\ altered \in BOOLEAN
          /\ result.decision \in {"ALLOW", "DENY"}
          /\ result.denyReason \in EvaluationDenyReasons
          /\ result.matchedPolicyID \in PolicyIDs \cup {""}
          /\ Normalized(result.requiredRoles) /\ Normalized(result.requiredCapabilities)

\* Evaluate (evaluator.go:11-87) answers ALLOW exactly when the documented semantics
\* grant the request, however roles, capabilities and route parts are spelled.
AllowMatchesPolicySemantics == result.decision = "ALLOW" <=> Granted(input)

\* An actor or an organization that gains a role or a capability never loses access:
\* hasAnyRequiredRole and missingRequiredCapabilities are monotone in what TaifaID reports.
MoreAuthorityNeverDenies ==
  [][(GainRole \/ GainCapability) =>
        (result.decision = "ALLOW" => result'.decision = "ALLOW")]_vars

\* Spelling is not authority: blanks anywhere, and the case of targets, methods, roles and
\* capabilities, change neither the verdict nor what the decision row will report.
SpellingNeverMatters == [][Respell => result' = result]_vars

\* Required roles are alternatives: losing one row opens the policy to a refused actor only
\* when it was the last one and the list is empty (evaluator.go:69 skips the role check).
OnlyTheLastRoleWidens ==
  [][(DropRequiredRole /\ result.decision = "DENY" /\ result'.decision = "ALLOW") =>
        result'.requiredRoles = {}]_vars
=============================================================================
