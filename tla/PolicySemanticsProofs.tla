------------------------- MODULE PolicySemanticsProofs -------------------------
(***************************************************************************)
(* Proofs about the evaluator, for any words, policies, roles and          *)
(* capabilities: normalisation leaves of a text exactly its word, so that  *)
(* a verdict depends on words alone.                                       *)
(***************************************************************************)
EXTENDS PolicySemantics, TLAPS

(* What the normalisations leave. *)

LEMMA FoldIsPlain == \A t : Fold(t) = Plain(t.word)
BY Zenon DEF Fold, ToUpper, TrimSpace, Plain

LEMMA PlainIsText == ASSUME NEW w \in Words PROVE Plain(w) \in Text /\ Plain(w).word = w
BY DEF Plain, Text

LEMMA TrimmedBlank ==
  ASSUME NEW t \in Text
  PROVE  TrimSpace(t) = EmptyText <=> t.word = ""
<1>1. TrimSpace(t).word = t.word /\ EmptyText.word = ""
  BY Zenon DEF TrimSpace, EmptyText, Plain
<1>2. t.word = "" => t.recased = FALSE
  BY DEF Text
<1> QED
  BY <1>1, <1>2, Zenon DEF TrimSpace, EmptyText, Plain

LEMMA PlainInjective == \A v, w : Plain(v) = Plain(w) => v = w
<1>1. \A w : Plain(w).word = w
  BY DEF Plain
<1> QED
  BY <1>1

LEMMA NormalizedWords ==
  ASSUME NEW texts \in SUBSET Text
  PROVE  /\ NormalizeStringSlice(texts) = {Plain(w) : w \in WordsOf(texts)}
         /\ NormalizeStringSlice(texts) \in SUBSET Text
         /\ WordsOf(NormalizeStringSlice(texts)) = WordsOf(texts)
         /\ Normalized(NormalizeStringSlice(texts))
<1>1. NormalizeStringSlice(texts) = {Plain(t.word) : t \in texts} \ {Plain("")}
  BY FoldIsPlain DEF NormalizeStringSlice, EmptyText
<1>2. NormalizeStringSlice(texts) = {Plain(w) : w \in WordsOf(texts)}
  <2>1. \A t \in texts : Plain(t.word) # Plain("") <=> t.word # ""
    BY PlainInjective, Zenon
  <2> HIDE DEF Plain
  <2> QED
    BY <1>1, <2>1 DEF WordsOf
<1>3. WordsOf(texts) \subseteq Words \ {""}
  BY DEF WordsOf, Text
<1>4. \A t \in NormalizeStringSlice(texts) : /\ t \in Text /\ t = Plain(t.word)
                                             /\ t.word \in WordsOf(texts)
  BY <1>2, <1>3, PlainIsText
<1>5. \A w \in WordsOf(texts) : Plain(w) \in NormalizeStringSlice(texts) /\ Plain(w).word = w
  BY <1>2, <1>3, PlainIsText
<1>6. WordsOf(NormalizeStringSlice(texts)) = WordsOf(texts)
  BY <1>3, <1>4, <1>5 DEF WordsOf
<1> QED
  BY <1>2, <1>3, <1>4, <1>6 DEF Normalized

LEMMA NormalizedTwice ==
  ASSUME NEW texts \in SUBSET Text
  PROVE  NormalizeStringSlice(NormalizeStringSlice(texts)) = NormalizeStringSlice(texts)
<1>1. NormalizeStringSlice(texts) \in SUBSET Text
  BY NormalizedWords
<1> QED
  BY <1>1, NormalizedWords, Zenon
-----------------------------------------------------------------------------
(* The two comparisons, in words. *)

LEMMA RolesInWords ==
  ASSUME NEW roles \in SUBSET Text, NEW required \in SUBSET Text
  PROVE  LET rs == NormalizeStringSlice(required) IN
         rs # {} /\ ~HasAnyRequiredRole(NormalizeStringSlice(roles), rs)
           <=> ~(WordsOf(required) = {} \/ WordsOf(required) \cap WordsOf(roles) # {})
<1> DEFINE rs == NormalizeStringSlice(required)
           as == NormalizeStringSlice(roles)
<1>1. rs = {Plain(w) : w \in WordsOf(required)} /\ as = {Plain(w) : w \in WordsOf(roles)}
  BY NormalizedWords
<1>2. NormalizeStringSlice(rs) = rs /\ NormalizeStringSlice(as) = as
  BY NormalizedTwice
<1> HIDE DEF rs, as
<1>3. rs = {} <=> WordsOf(required) = {}
  BY <1>1
<1>4. as \cap rs # {} <=> WordsOf(required) \cap WordsOf(roles) # {}
  BY <1>1, PlainInjective
<1>5. HasAnyRequiredRole(as, rs) <=> rs = {} \/ as \cap rs # {}
  BY <1>2 DEF HasAnyRequiredRole
<1> QED
  BY <1>3, <1>4, <1>5 DEF rs, as

LEMMA CapabilitiesInWords ==
  ASSUME NEW capabilities \in SUBSET Text, NEW required \in SUBSET Text
  PROVE  MissingRequiredCapabilities(NormalizeStringSlice(capabilities),
                                     NormalizeStringSlice(required)) # {}
           <=> ~(WordsOf(required) \subseteq WordsOf(capabilities))
<1> DEFINE rs == NormalizeStringSlice(required)
           cs == NormalizeStringSlice(capabilities)
<1>1. rs = {Plain(w) : w \in WordsOf(required)} /\ cs = {Plain(w) : w \in WordsOf(capabilities)}
  BY NormalizedWords
<1>2. NormalizeStringSlice(rs) = rs /\ NormalizeStringSlice(cs) = cs
  BY NormalizedTwice
<1> HIDE DEF rs, cs
<1>3. rs \ cs # {} <=> ~(WordsOf(required) \subseteq WordsOf(capabilities))
  BY <1>1, PlainInjective
<1>4. MissingRequiredCapabilities(cs, rs) = rs \ cs
  BY <1>2 DEF MissingRequiredCapabilities
<1> QED
  BY <1>3, <1>4 DEF rs, cs
-----------------------------------------------------------------------------
(* The verdict. *)

\* The early returns of Evaluate are the documented semantics.
LEMMA VerdictInWords ==
  ASSUME NEW i \in EvaluationInput
  PROVE  DenyReason(i) = "" <=> Granted(i)
<1>1. /\ Fold(i.target) = EmptyText <=> i.target.word = ""
      /\ Fold(i.method) = EmptyText <=> i.method.word = ""
  BY FoldIsPlain, PlainInjective, Zenon DEF EmptyText
<1>2. /\ TrimSpace(i.route) = EmptyText <=> i.route.word = ""
      /\ TrimSpace(i.operation) = EmptyText <=> i.operation.word = ""
  <2>1. i.route \in Text /\ i.operation \in Text
    BY DEF EvaluationInput
  <2> QED
    BY <2>1, TrimmedBlank
<1>3. CASE i.policy = Nil
  BY <1>3 DEF DenyReason, Granted
<1>4. CASE i.policy # Nil
  <2>1. /\ i.policy.requiredRoles \in SUBSET Text /\ i.policy.requiredCapabilities \in SUBSET Text
        /\ i.actorRoles \in SUBSET Text /\ i.organizationCapabilities \in SUBSET Text
    BY <1>4 DEF EvaluationInput, Policy
  <2>2. /\ Fold(i.policy.status) = Plain("ACTIVE") <=> i.policy.status.word = "ACTIVE"
        /\ Fold(i.policy.effect) = Plain("DENY") <=> i.policy.effect.word = "DENY"
        /\ Fold(i.policy.effect) = Plain("ALLOW") <=> i.policy.effect.word = "ALLOW"
    BY FoldIsPlain, PlainInjective, Zenon
  <2> DEFINE reason == AllowPolicyDenyReason(NormalizeStringSlice(i.actorRoles),
                          NormalizeStringSlice(i.organizationCapabilities),
                          NormalizeStringSlice(i.policy.requiredRoles),
                          NormalizeStringSlice(i.policy.requiredCapabilities))
             met == /\ \/ WordsOf(i.policy.requiredRoles) = {}
                       \/ WordsOf(i.policy.requiredRoles) \cap WordsOf(i.actorRoles) # {}
                    /\ WordsOf(i.policy.requiredCapabilities)
                         \subseteq WordsOf(i.organizationCapabilities)
  <2>3. reason = "" <=> met
    BY <2>1, RolesInWords, CapabilitiesInWords DEF AllowPolicyDenyReason
  <2>4. DenyReason(i) = IF i.target.word = "" THEN "missing_target_system"
                        ELSE IF i.method.word = "" THEN "missing_method"
                        ELSE IF i.route.word = "" THEN "missing_route"
                        ELSE IF i.operation.word = "" THEN "missing_operation"
                        ELSE IF i.policy.status.word # "ACTIVE" THEN "policy_disabled"
                        ELSE IF i.policy.effect.word = "DENY" THEN "explicit_policy_deny"
                        ELSE IF i.policy.effect.word # "ALLOW" THEN "unsupported_policy_effect"
                        ELSE reason
    BY <1>1, <1>2, <1>4, <2>2 DEF DenyReason
  <2>5. Granted(i) <=> /\ i.target.word # "" /\ i.method.word # ""
                       /\ i.route.word # "" /\ i.operation.word # ""
                       /\ i.policy.status.word = "ACTIVE" /\ i.policy.effect.word = "ALLOW"
                       /\ met
    BY <1>4 DEF Granted
  <2> HIDE DEF reason, met
  <2> QED
    BY <2>3, <2>4, <2>5
<1> QED
  BY <1>3, <1>4

LEMMA DecisionInWords ==
  ASSUME NEW i \in EvaluationInput
  PROVE  Evaluate(i).decision = "ALLOW" <=> Granted(i)
<1>1. Evaluate(i).decision = IF DenyReason(i) = "" THEN "ALLOW" ELSE "DENY"
  BY DEF Evaluate
<1> QED
  BY <1>1, VerdictInWords
-----------------------------------------------------------------------------
(* What is known of the state: the result is the evaluator's on the current input. *)

Current == input \in EvaluationInput /\ altered \in BOOLEAN /\ result = Evaluate(input)

LEMMA InitCurrent == Init => Current
BY InputsAssumption DEF Init, Current

\* The inputs a step makes.
LEMMA ChangedInputs ==
  ASSUME NEW i \in EvaluationInput
  PROVE  /\ \A S \in SUBSET Text :
              /\ [i EXCEPT !.actorRoles = S] \in EvaluationInput
              /\ [i EXCEPT !.organizationCapabilities = S] \in EvaluationInput
         /\ \A p \in Policy : [i EXCEPT !.policy = p] \in EvaluationInput
         /\ \A t \in Text : /\ [i EXCEPT !.target = t] \in EvaluationInput
                            /\ [i EXCEPT !.method = t] \in EvaluationInput
                            /\ [i EXCEPT !.route = t] \in EvaluationInput
                            /\ [i EXCEPT !.operation = t] \in EvaluationInput
BY DEF EvaluationInput

LEMMA ChangedPolicies ==
  ASSUME NEW p \in Policy, NEW S \in SUBSET Text
  PROVE  /\ [p EXCEPT !.requiredRoles = S] \in Policy
         /\ [p EXCEPT !.requiredCapabilities = S] \in Policy
BY DEF Policy

LEMMA RespelledTexts ==
  ASSUME NEW t \in Text
  PROVE  /\ \A s \in SameFolded(t) : s \in Text /\ Fold(s) = Fold(t)
         /\ \A s \in SameTrimmed(t) : s \in Text /\ TrimSpace(s) = TrimSpace(t)
<1>1. ASSUME NEW s \in SameFolded(t)
      PROVE  s \in Text /\ s.word = t.word
  BY DEF SameFolded, Text
<1>2. ASSUME NEW s \in SameTrimmed(t)
      PROVE  s \in SameFolded(t) /\ s.recased = t.recased
  BY DEF SameTrimmed
<1>3. \A s \in SameFolded(t) : Fold(s) = Fold(t)
  BY <1>1, FoldIsPlain
<1>4. \A s \in SameTrimmed(t) : TrimSpace(s) = TrimSpace(t)
  BY <1>1, <1>2, Zenon DEF TrimSpace
<1> QED
  BY <1>1, <1>2, <1>3, <1>4
-----------------------------------------------------------------------------
(* The steps. *)

\* The evaluator looks at nothing but what the normalisations leave.
LEMMA SameEvaluation ==
  ASSUME NEW i, NEW j,
         Fold(j.target) = Fold(i.target), Fold(j.method) = Fold(i.method),
         TrimSpace(j.route) = TrimSpace(i.route),
         TrimSpace(j.operation) = TrimSpace(i.operation),
         j.policy = i.policy,
         NormalizeStringSlice(j.actorRoles) = NormalizeStringSlice(i.actorRoles),
         NormalizeStringSlice(j.organizationCapabilities)
           = NormalizeStringSlice(i.organizationCapabilities)
  PROVE  Evaluate(j) = Evaluate(i)
<1>1. DenyReason(j) = DenyReason(i)
  BY Zenon DEF DenyReason
<1>2. PolicyConsulted(j) <=> PolicyConsulted(i)
  BY Zenon DEF PolicyConsulted
<1> QED
  BY <1>1, <1>2, Zenon DEF Evaluate

\* One text of a set in another spelling.
LEMMA RespelledSet ==
  ASSUME NEW S \in SUBSET Text, NEW t \in S, NEW s \in SameFolded(t)
  PROVE  /\ (S \ {t}) \cup {s} \in SUBSET Text
         /\ NormalizeStringSlice((S \ {t}) \cup {s}) = NormalizeStringSlice(S)
<1>1. s \in Text /\ Fold(s) = Fold(t)
  BY RespelledTexts
<1>2. {Fold(u) : u \in (S \ {t}) \cup {s}} = {Fold(u) : u \in S}
  BY <1>1
<1> QED
  BY <1>1, <1>2 DEF NormalizeStringSlice

LEMMA RespellStep ==
  ASSUME Current, Respell
  PROVE  input' \in EvaluationInput /\ result' = Evaluate(input') /\ result' = result
<1> USE DEF Current
<1>1. /\ input.target \in Text /\ input.method \in Text
      /\ input.route \in Text /\ input.operation \in Text
      /\ input.actorRoles \in SUBSET Text /\ input.organizationCapabilities \in SUBSET Text
  BY DEF EvaluationInput
<1>2. CASE \E t \in SameFolded(input.target) : Reevaluate([input EXCEPT !.target = t])
  <2>1. PICK t \in SameFolded(input.target) : Reevaluate([input EXCEPT !.target = t])
    BY <1>2
  <2>2. t \in Text /\ Fold(t) = Fold(input.target)
    BY <1>1, RespelledTexts
  <2>3. [input EXCEPT !.target = t] \in EvaluationInput
    BY <2>2, ChangedInputs
  <2>4. Evaluate([input EXCEPT !.target = t]) = Evaluate(input)
    BY <2>2, SameEvaluation DEF EvaluationInput
  <2> QED
    BY <2>1, <2>3, <2>4 DEF Reevaluate
<1>3. CASE \E t \in SameFolded(input.method) : Reevaluate([input EXCEPT !.method = t])
  <2>1. PICK t \in SameFolded(input.method) : Reevaluate([input EXCEPT !.method = t])
    BY <1>3
  <2>2. t \in Text /\ Fold(t) = Fold(input.method)
    BY <1>1, RespelledTexts
  <2>3. [input EXCEPT !.method = t] \in EvaluationInput
    BY <2>2, ChangedInputs
  <2>4. Evaluate([input EXCEPT !.method = t]) = Evaluate(input)
    BY <2>2, SameEvaluation DEF EvaluationInput
  <2> QED
    BY <2>1, <2>3, <2>4 DEF Reevaluate
<1>4. CASE \E t \in SameTrimmed(input.route) : Reevaluate([input EXCEPT !.route = t])
  <2>1. PICK t \in SameTrimmed(input.route) : Reevaluate([input EXCEPT !.route = t])
    BY <1>4
  <2>2. t \in Text /\ TrimSpace(t) = TrimSpace(input.route)
    BY <1>1, RespelledTexts
  <2>3. [input EXCEPT !.route = t] \in EvaluationInput
    BY <2>2, ChangedInputs
  <2>4. Evaluate([input EXCEPT !.route = t]) = Evaluate(input)
    BY <2>2, SameEvaluation DEF EvaluationInput
  <2> QED
    BY <2>1, <2>3, <2>4 DEF Reevaluate
<1>5. CASE \E t \in SameTrimmed(input.operation) : Reevaluate([input EXCEPT !.operation = t])
  <2>1. PICK t \in SameTrimmed(input.operation) : Reevaluate([input EXCEPT !.operation = t])
    BY <1>5
  <2>2. t \in Text /\ TrimSpace(t) = TrimSpace(input.operation)
    BY <1>1, RespelledTexts
  <2>3. [input EXCEPT !.operation = t] \in EvaluationInput
    BY <2>2, ChangedInputs
  <2>4. Evaluate([input EXCEPT !.operation = t]) = Evaluate(input)
    BY <2>2, SameEvaluation DEF EvaluationInput
  <2> QED
    BY <2>1, <2>3, <2>4 DEF Reevaluate
<1>6. CASE \E t \in input.actorRoles : \E s \in SameFolded(t) :
             Reevaluate([input EXCEPT !.actorRoles = (@ \ {t}) \cup {s}])
  <2>1. PICK t \in input.actorRoles : \E s \in SameFolded(t) :
          Reevaluate([input EXCEPT !.actorRoles = (@ \ {t}) \cup {s}])
    BY <1>6
  <2>2. PICK s \in SameFolded(t) :
          Reevaluate([input EXCEPT !.actorRoles = (@ \ {t}) \cup {s}])
    BY <2>1
  <2> DEFINE S == (input.actorRoles \ {t}) \cup {s}
  <2>3. S \in SUBSET Text /\ NormalizeStringSlice(S) = NormalizeStringSlice(input.actorRoles)
    BY <1>1, RespelledSet
  <2>4. Reevaluate([input EXCEPT !.actorRoles = S])
    BY <2>2
  <2> HIDE DEF S
  <2>5. [input EXCEPT !.actorRoles = S] \in EvaluationInput
    BY <2>3, ChangedInputs
  <2>6. Evaluate([input EXCEPT !.actorRoles = S]) = Evaluate(input)
    BY <2>3, SameEvaluation DEF EvaluationInput
  <2> QED
    BY <2>4, <2>5, <2>6 DEF Reevaluate
<1>7. CASE \E t \in input.organizationCapabilities : \E s \in SameFolded(t) :
             Reevaluate([input EXCEPT !.organizationCapabilities = (@ \ {t}) \cup {s}])
  <2>1. PICK t \in input.organizationCapabilities : \E s \in SameFolded(t) :
          Reevaluate([input EXCEPT !.organizationCapabilities = (@ \ {t}) \cup {s}])
    BY <1>7
  <2>2. PICK s \in SameFolded(t) :
          Reevaluate([input EXCEPT !.organizationCapabilities = (@ \ {t}) \cup {s}])
    BY <2>1
  <2> DEFINE S == (input.organizationCapabilities \ {t}) \cup {s}
  <2>3. /\ S \in SUBSET Text
        /\ NormalizeStringSlice(S) = NormalizeStringSlice(input.organizationCapabilities)
    BY <1>1, RespelledSet
  <2>4. Reevaluate([input EXCEPT !.organizationCapabilities = S])
    BY <2>2
  <2> HIDE DEF S
  <2>5. [input EXCEPT !.organizationCapabilities = S] \in EvaluationInput
    BY <2>3, ChangedInputs
  <2>6. Evaluate([input EXCEPT !.organizationCapabilities = S]) = Evaluate(input)
    BY <2>3, SameEvaluation DEF EvaluationInput
  <2> QED
    BY <2>4, <2>5, <2>6 DEF Reevaluate
<1> QED
  BY <1>2, <1>3, <1>4, <1>5, <1>6, <1>7 DEF Respell

LEMMA GainStep ==
  ASSUME Current, GainRole \/ GainCapability
  PROVE  /\ input' \in EvaluationInput /\ result' = Evaluate(input')
         /\ Granted(input) => Granted(input')
<1>1. input \in EvaluationInput /\ RoleTexts \subseteq Text /\ CapabilityTexts \subseteq Text
  BY InputsAssumption DEF Current
<1>2. CASE GainRole
  <2>1. PICK t \in RoleTexts : Reevaluate([input EXCEPT !.actorRoles = @ \cup {t}])
    BY <1>2 DEF GainRole
  <2>2. input' = [input EXCEPT !.actorRoles = @ \cup {t}] /\ result' = Evaluate(input')
    BY <2>1 DEF Reevaluate
  <2>3. input' \in EvaluationInput
    BY <1>1, <2>2 DEF EvaluationInput
  <2>4. /\ input'.target = input.target /\ input'.method = input.method
        /\ input'.route = input.route /\ input'.operation = input.operation
        /\ input'.policy = input.policy
        /\ input'.organizationCapabilities = input.organizationCapabilities
        /\ WordsOf(input.actorRoles) \subseteq WordsOf(input'.actorRoles)
    BY <1>1, <2>2 DEF EvaluationInput, WordsOf
  <2> QED
    BY <2>2, <2>3, <2>4 DEF Granted
<1>3. CASE GainCapability
  <2>1. PICK t \in CapabilityTexts :
          Reevaluate([input EXCEPT !.organizationCapabilities = @ \cup {t}])
    BY <1>3 DEF GainCapability
  <2>2. /\ input' = [input EXCEPT !.organizationCapabilities = @ \cup {t}]
        /\ result' = Evaluate(input')
    BY <2>1 DEF Reevaluate
  <2>3. input' \in EvaluationInput
    BY <1>1, <2>2 DEF EvaluationInput
  <2>4. /\ input'.target = input.target /\ input'.method = input.method
        /\ input'.route = input.route /\ input'.operation = input.operation
        /\ input'.policy = input.policy /\ input'.actorRoles = input.actorRoles
        /\ WordsOf(input.organizationCapabilities) \subseteq WordsOf(input'.organizationCapabilities)
    BY <1>1, <2>2 DEF EvaluationInput, WordsOf
  <2> QED
    BY <2>2, <2>3, <2>4 DEF Granted
<1> QED
  BY <1>2, <1>3

\* Requirements only shrink; the rest of the input stays.
LEMMA DropStep ==
  ASSUME Current, DropRequiredRole \/ DropRequiredCapability
  PROVE  /\ input' \in EvaluationInput /\ result' = Evaluate(input')
         /\ DropRequiredRole /\ Granted(input') /\ ~Granted(input)
              => WordsOf(input'.policy.requiredRoles) = {}
<1>1. input \in EvaluationInput /\ input.policy \in Policy
  BY DEF Current, EvaluationInput, DropRequiredRole, DropRequiredCapability
<1>2. input.policy.requiredRoles \in SUBSET Text /\ input.policy.requiredCapabilities \in SUBSET Text
  BY <1>1 DEF Policy
<1>3. ASSUME DropRequiredRole
      PROVE  /\ input' \in EvaluationInput /\ result' = Evaluate(input')
             /\ Granted(input') /\ ~Granted(input) => WordsOf(input'.policy.requiredRoles) = {}
  <2>1. PICK t \in input.policy.requiredRoles :
          Reevaluate([input EXCEPT !.policy.requiredRoles = @ \ {t}])
    BY <1>3 DEF DropRequiredRole
  <2> DEFINE roles == input.policy.requiredRoles \ {t}
             p == [input.policy EXCEPT !.requiredRoles = roles]
  <2>2. roles \in SUBSET Text
    BY <1>2
  <2>3. input' = [input EXCEPT !.policy = p] /\ result' = Evaluate(input')
    BY <2>1 DEF Reevaluate
  <2>4. WordsOf(roles) \subseteq WordsOf(input.policy.requiredRoles)
    BY DEF WordsOf
  <2> HIDE DEF roles
  <2>5. /\ p \in Policy /\ p # Nil
        /\ p.requiredRoles = roles /\ p.requiredCapabilities = input.policy.requiredCapabilities
        /\ p.status = input.policy.status /\ p.effect = input.policy.effect
    BY <1>1, <2>2, NilAssumption DEF Policy
  <2> HIDE DEF p
  <2>6. input' \in EvaluationInput
    BY <1>1, <2>3, <2>5, ChangedInputs
  <2>7. /\ input'.target = input.target /\ input'.method = input.method
        /\ input'.route = input.route /\ input'.operation = input.operation
        /\ input'.policy = p /\ input'.actorRoles = input.actorRoles
        /\ input'.organizationCapabilities = input.organizationCapabilities
    BY <1>1, <2>3 DEF EvaluationInput
  <2>8. input.policy # Nil
    BY <1>3 DEF DropRequiredRole
  <2> QED
    BY <2>3, <2>4, <2>5, <2>6, <2>7, <2>8 DEF Granted
<1>4. ASSUME DropRequiredCapability
      PROVE  input' \in EvaluationInput /\ result' = Evaluate(input')
  <2>1. PICK t \in input.policy.requiredCapabilities :
          Reevaluate([input EXCEPT !.policy.requiredCapabilities = @ \ {t}])
    BY <1>4 DEF DropRequiredCapability
  <2> DEFINE p == [input.policy EXCEPT !.requiredCapabilities =
                      input.policy.requiredCapabilities \ {t}]
  <2>2. input' = [input EXCEPT !.policy = p] /\ result' = Evaluate(input')
    BY <2>1 DEF Reevaluate
  <2>3. p \in Policy
    BY <1>1, <1>2, ChangedPolicies
  <2> HIDE DEF p
  <2> QED
    BY <1>1, <2>2, <2>3, ChangedInputs
<1> QED
  BY <1>3, <1>4

LEMMA NextCurrent == Current /\ [Next]_vars => Current'
<1> SUFFICES ASSUME Current, [Next]_vars PROVE Current'
  OBVIOUS
<1>1. CASE Next
  <2>1. input' \in EvaluationInput /\ result' = Evaluate(input')
    BY <1>1, GainStep, DropStep, RespellStep DEF Next
  <2>2. altered' = TRUE
    BY <1>1 DEF Next, GainRole, GainCapability, DropRequiredRole, DropRequiredCapability,
                Respell, Reevaluate
  <2> QED
    BY <2>1, <2>2 DEF Current
<1>2. CASE UNCHANGED vars
  BY <1>2 DEF vars, Current
<1> QED
  BY <1>1, <1>2

LEMMA AlwaysCurrent == Spec => []Current
BY InitCurrent, NextCurrent, PTL DEF Spec
-----------------------------------------------------------------------------
(* The theorems. *)

\* Evaluate (evaluator.go:11-87) computes the documented policy semantics, for every policy,
\* actor and organization and in every spelling.
THEOREM EvaluatorComputesSemantics == Spec => []AllowMatchesPolicySemantics
<1>1. Current => AllowMatchesPolicySemantics
  BY DecisionInWords DEF Current, AllowMatchesPolicySemantics
<1> QED
  BY <1>1, AlwaysCurrent, PTL

\* hasAnyRequiredRole and missingRequiredCapabilities are monotone in what TaifaID reports.
THEOREM MonotoneInAuthority == Spec => MoreAuthorityNeverDenies
<1>1. Current /\ [Next]_vars =>
        [(GainRole \/ GainCapability) =>
           (result.decision = "ALLOW" => result'.decision = "ALLOW")]_vars
  <2> SUFFICES ASSUME Current, GainRole \/ GainCapability, result.decision = "ALLOW"
               PROVE  result'.decision = "ALLOW"
    OBVIOUS
  <2>1. Granted(input)
    BY DecisionInWords DEF Current
  <2>2. input' \in EvaluationInput /\ result' = Evaluate(input') /\ Granted(input')
    BY <2>1, GainStep
  <2> QED
    BY <2>2, DecisionInWords
<1> QED
  BY <1>1, AlwaysCurrent, PTL DEF Spec, MoreAuthorityNeverDenies

\* Normalisation is complete: the spelling of a request, a role or a capability changes
\* neither the verdict nor what is reported of the policy.
THEOREM SpellingIsNotAuthority == Spec => SpellingNeverMatters
<1>1. Current /\ [Next]_vars => [Respell => result' = result]_vars
  BY RespellStep
<1> QED
  BY <1>1, AlwaysCurrent, PTL DEF Spec, SpellingNeverMatters

\* The role check is skipped for an empty list only (evaluator.go:69).
THEOREM OnlyAnEmptyRoleListWidens == Spec => OnlyTheLastRoleWidens
<1>1. Current /\ [Next]_vars =>
        [(DropRequiredRole /\ result.decision = "DENY" /\ result'.decision = "ALLOW") =>
            result'.requiredRoles = {}]_vars
  <2> SUFFICES ASSUME Current, DropRequiredRole, result.decision = "DENY",
                      result'.decision = "ALLOW"
               PROVE  result'.requiredRoles = {}
    OBVIOUS
  <2>1. ~Granted(input)
    BY DecisionInWords DEF Current
  <2>2. input' \in EvaluationInput /\ result' = Evaluate(input')
    BY DropStep
  <2>3. Granted(input')
    BY <2>2, DecisionInWords
  <2>4. WordsOf(input'.policy.requiredRoles) = {}
    BY <2>1, <2>3, DropStep
  <2>5. input'.policy.requiredRoles \in SUBSET Text
    BY <2>2, <2>3 DEF Granted, EvaluationInput, Policy
  <2>6. NormalizeStringSlice(input'.policy.requiredRoles) = {}
    BY <2>4, <2>5, NormalizedWords
  <2> QED
    BY <2>2, <2>6 DEF Evaluate
<1> QED
  BY <1>1, AlwaysCurrent, PTL DEF Spec, OnlyTheLastRoleWidens

\* Whatever the rows of a policy look like, what a result reports of it is normalised.
THEOREM ResultsNormalized == Spec => []TypeOK
<1>1. ASSUME Current PROVE TypeOK
  <2>1. input \in EvaluationInput /\ altered \in BOOLEAN /\ result = Evaluate(input)
    BY <1>1 DEF Current
  <2>2. result.decision \in {"ALLOW", "DENY"}
    BY <2>1 DEF Evaluate
  <2>3. result.denyReason \in EvaluationDenyReasons
    <3>1. DenyReason(input) \in EvaluationDenyReasons
      BY DEF DenyReason, AllowPolicyDenyReason, EvaluationDenyReasons
    <3> QED
      BY <2>1, <3>1 DEF Evaluate
  <2>4. CASE PolicyConsulted(input)
    <3>1. input.policy \in Policy
      BY <2>1, <2>4 DEF PolicyConsulted, EvaluationInput
    <3>2. /\ input.policy.id \in PolicyIDs
          /\ input.policy.requiredRoles \in SUBSET Text
          /\ input.policy.requiredCapabilities \in SUBSET Text
      BY <3>1 DEF Policy
    <3>3. /\ Normalized(NormalizeStringSlice(input.policy.requiredRoles))
          /\ Normalized(NormalizeStringSlice(input.policy.requiredCapabilities))
      BY <3>2, NormalizedWords
    <3>4. /\ result.matchedPolicyID = input.policy.id
          /\ result.requiredRoles = NormalizeStringSlice(input.policy.requiredRoles)
          /\ result.requiredCapabilities = NormalizeStringSlice(input.policy.requiredCapabilities)
      BY <2>1, <2>4 DEF Evaluate
    <3> QED
      BY <2>1, <2>2, <2>3, <3>2, <3>3, <3>4, Zenon DEF TypeOK
  <2>5. CASE ~PolicyConsulted(input)
    <3>1. /\ result.matchedPolicyID = "" /\ result.requiredRoles = {}
          /\ result.requiredCapabilities = {}
      BY <2>1, <2>5 DEF Evaluate
    <3>2. Normalized({})
      BY DEF Normalized
    <3> QED
      BY <2>1, <2>2, <2>3, <3>1, <3>2, Zenon DEF TypeOK
  <2> QED
    BY <2>4, <2>5
<1> QED
  BY <1>1, AlwaysCurrent, PTL
=============================================================================
