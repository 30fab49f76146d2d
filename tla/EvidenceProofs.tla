---------------------------- MODULE EvidenceProofs ----------------------------
(***************************************************************************)
(* Proofs about what a decision row says, for any number of requests, any  *)
(* policies, inputs and answers of TaifaID, and any writers of the tables. *)
(***************************************************************************)
EXTENDS ExchangeProofs, ExchangeEvidence

(* Texts and normalised lists. *)

LEMMA FoldPlain == \A t : Fold(t) = Plain(t.word)
BY Zenon DEF Fold, ToUpper, TrimSpace, Plain

LEMMA PlainWord == \A w : Plain(w).word = w
BY Zenon DEF Plain

LEMMA FoldedWord == \A t : Fold(t) = Plain(Fold(t).word)
BY FoldPlain, PlainWord

LEMMA FoldedTwice == \A t : Fold(Fold(t)) = Fold(t)
BY FoldPlain, PlainWord

LEMMA TrimmedTwice == \A t : TrimSpace(TrimSpace(t)) = TrimSpace(t)
BY Zenon DEF TrimSpace

LEMMA SliceTwice ==
  \A S : NormalizeStringSlice(NormalizeStringSlice(S)) = NormalizeStringSlice(S)
<1>1. ASSUME NEW S, NEW t \in NormalizeStringSlice(S) PROVE Fold(t) = t /\ t # EmptyText
  BY FoldedTwice DEF NormalizeStringSlice
<1>2. ASSUME NEW T, \A t \in T : Fold(t) = t /\ t # EmptyText PROVE NormalizeStringSlice(T) = T
  BY <1>2 DEF NormalizeStringSlice
<1> QED
  BY <1>1, <1>2

\* A list of known words is normalised: those words are not blank.
LEMMA KnownSlices ==
  ASSUME NEW p \in StorablePolicy
  PROVE  /\ NormalizeStringSlice(p.requiredRoles) = p.requiredRoles
         /\ NormalizeStringSlice(p.requiredCapabilities) = p.requiredCapabilities
<1>1. ASSUME NEW W, "" \notin W, NEW T \in SUBSET {Plain(w) : w \in W}
      PROVE  NormalizeStringSlice(T) = T
  <2>1. ASSUME NEW t \in T PROVE Fold(t) = t /\ t # EmptyText
    <3>1. PICK w \in W : t = Plain(w)
      BY <1>1
    <3>2. w # ""
      BY <1>1
    <3>3. t.word = w
      BY <3>1, PlainWord, Zenon
    <3>4. Fold(t) = t
      BY <3>1, <3>3, FoldPlain, Zenon
    <3>5. EmptyText.word = ""
      BY PlainWord, Zenon DEF EmptyText
    <3> QED
      BY <3>2, <3>3, <3>4, <3>5
  <2> QED
    BY <2>1 DEF NormalizeStringSlice
<1>2. "" \notin KnownRoles /\ "" \notin KnownCapabilities
  BY DEF KnownRoles, KnownCapabilities
<1>3. /\ p.requiredRoles \in SUBSET {Plain(w) : w \in KnownRoles}
      /\ p.requiredCapabilities \in SUBSET {Plain(w) : w \in KnownCapabilities}
  BY DEF StorablePolicy
<1> QED
  BY <1>1, <1>2, <1>3

LEMMA SameRouteSymmetric == \A p, q : SameRoute(p, q) <=> SameRoute(q, p)
BY DEF SameRoute

LEMMA SameRouteTransitive == \A p, q, s : SameRoute(p, q) /\ SameRoute(q, s) => SameRoute(p, s)
BY DEF SameRoute
-----------------------------------------------------------------------------
(* The evaluator. *)

\* A verdict reports what it rests on, and an ALLOW rests on an active ALLOW policy whose
\* requirements are met.
LEMMA VerdictJustified ==
  ASSUME NEW i \in EvaluationInput,
         NormalizeStringSlice(i.actorRoles) = i.actorRoles,
         NormalizeStringSlice(i.organizationCapabilities) = i.organizationCapabilities
  PROVE  LET e == Evaluate(i)
             roleMet == e.requiredRoles = {} \/ e.requiredRoles \cap i.actorRoles # {}
             capabilitiesMet == e.requiredCapabilities \subseteq i.organizationCapabilities
         IN /\ e.decision = "ALLOW" =>
                 /\ roleMet /\ capabilitiesMet /\ e.matchedPolicyID # ""
                 /\ Fold(i.policy.status) = Plain("ACTIVE")
                 /\ Fold(i.policy.effect) = Plain("ALLOW")
            /\ e.denyReason = "missing_required_role" => ~roleMet
            /\ e.denyReason = "missing_required_capability" => roleMet /\ ~capabilitiesMet
            /\ e.matchedPolicyID # "" =>
                 /\ i.policy \in Policy /\ e.matchedPolicyID = i.policy.id
                 /\ e.requiredRoles = NormalizeStringSlice(i.policy.requiredRoles)
                 /\ e.requiredCapabilities = NormalizeStringSlice(i.policy.requiredCapabilities)
<1> DEFINE e == Evaluate(i)
           roles == NormalizeStringSlice(i.policy.requiredRoles)
           capabilities == NormalizeStringSlice(i.policy.requiredCapabilities)
           roleRefused == roles # {} /\ ~(roles \cap i.actorRoles # {})
           capabilityMissing == capabilities \ i.organizationCapabilities # {}
           verdict == IF roleRefused THEN "missing_required_role"
                      ELSE IF capabilityMissing THEN "missing_required_capability"
                      ELSE ""
<1>1. /\ e.decision = (IF DenyReason(i) = "" THEN "ALLOW" ELSE "DENY")
      /\ e.denyReason = DenyReason(i)
      /\ e.matchedPolicyID = (IF PolicyConsulted(i) THEN i.policy.id ELSE "")
      /\ e.requiredRoles = (IF PolicyConsulted(i) THEN roles ELSE {})
      /\ e.requiredCapabilities = (IF PolicyConsulted(i) THEN capabilities ELSE {})
  BY Zenon DEF Evaluate
<1>2. AllowPolicyDenyReason(NormalizeStringSlice(i.actorRoles),
        NormalizeStringSlice(i.organizationCapabilities), roles, capabilities) = verdict
  <2>1. HasAnyRequiredRole(i.actorRoles, roles) <=> roles = {} \/ roles \cap i.actorRoles # {}
    BY SliceTwice DEF HasAnyRequiredRole
  <2>2. MissingRequiredCapabilities(i.organizationCapabilities, capabilities)
          = capabilities \ i.organizationCapabilities
    BY SliceTwice DEF MissingRequiredCapabilities
  <2> HIDE DEF roles, capabilities
  <2> QED
    BY <2>1, <2>2 DEF AllowPolicyDenyReason
<1>3. PolicyConsulted(i) => i.policy \in Policy /\ i.policy.id # ""
  BY PolicyIDsAssumption DEF PolicyConsulted, EvaluationInput, Policy
<1>4. DenyReason(i) \in {"", "missing_required_role", "missing_required_capability"} =>
        /\ PolicyConsulted(i)
        /\ Fold(i.policy.status) = Plain("ACTIVE") /\ Fold(i.policy.effect) = Plain("ALLOW")
        /\ DenyReason(i) = verdict
  BY <1>2 DEF DenyReason, PolicyConsulted
<1> HIDE DEF e, roles, capabilities
<1>5. CASE DenyReason(i) \in {"", "missing_required_role", "missing_required_capability"}
  BY <1>1, <1>3, <1>4, <1>5 DEF e, roles, capabilities
<1>6. CASE DenyReason(i) \notin {"", "missing_required_role", "missing_required_capability"}
  BY <1>1, <1>3, <1>6 DEF e, roles, capabilities
<1> QED
  BY <1>5, <1>6
-----------------------------------------------------------------------------
(* The rows of denials. *)

LEMMA NewDecisionEvident ==
  ASSUME NEW r \in Requests, NEW i \in Input PROVE Evident(NewDecision(r, i))
<1> DEFINE row == NewDecision(r, i)
<1>1. /\ row.target = NormalizeTargetSystemForDecision(i.target)
      /\ row.method = NormalizeMethodForDecision(i.method)
      /\ row.decision = "DENY" /\ row.denyReason = "" /\ row.matchedPolicyID = ""
  BY Zenon DEF NewDecision
<1> HIDE DEF row
<1>2. row.target \in {Plain(w) : w \in KnownTargetSystems \cup {"UNKNOWN"}}
  <2>1. CASE Fold(i.target).word \in KnownTargetSystems
    BY <1>1, <2>1, FoldedWord DEF NormalizeTargetSystemForDecision
  <2>2. CASE Fold(i.target).word \notin KnownTargetSystems
    BY <1>1, <2>2 DEF NormalizeTargetSystemForDecision
  <2> QED
    BY <2>1, <2>2
<1>3. row.method \in {Plain(w) : w \in KnownMethods \cup {"UNKNOWN"}}
  <2>1. CASE Fold(i.method).word \in KnownMethods
    BY <1>1, <2>1, FoldedWord DEF NormalizeMethodForDecision
  <2>2. CASE Fold(i.method).word \notin KnownMethods
    BY <1>1, <2>2 DEF NormalizeMethodForDecision
  <2> QED
    BY <2>1, <2>2
<1>4. Justified(row)
  BY <1>1 DEF Justified
<1>5. ColumnsAccepted(row)
  BY <1>2, <1>3 DEF ColumnsAccepted
<1> QED
  BY <1>1, <1>4, <1>5, Zenon DEF Evident, row

\* A denial for a reason that is not the evaluator's.
LEMMA DenialEvident ==
  ASSUME NEW row \in Row, Evident(row), row.decision = "DENY",
         NEW reason \in DenyReasons \ {"missing_required_role", "missing_required_capability"}
  PROVE  Evident([row EXCEPT !.denyReason = reason])
<1> DEFINE denied == [row EXCEPT !.denyReason = reason]
<1>1. /\ denied.target = row.target /\ denied.method = row.method
      /\ denied.route = row.route /\ denied.operation = row.operation
      /\ denied.decision = "DENY" /\ denied.denyReason = reason
      /\ denied.matchedPolicyID = row.matchedPolicyID
  BY DEF Row
<1> HIDE DEF denied
<1>2. ColumnsAccepted(denied)
  BY <1>1 DEF Evident, ColumnsAccepted
<1>3. Justified(denied)
  BY <1>1 DEF Justified
<1>4. denied.matchedPolicyID # "" => RouteWritten(denied.matchedPolicyID, denied)
  BY <1>1 DEF Evident, RouteWritten, SameRoute
<1> QED
  BY <1>2, <1>3, <1>4, Zenon DEF Evident, denied

\* Which the handler's own denials are.
HandlerDenials == {denial \in DenialType :
  denial.reason \notin {"missing_required_role", "missing_required_capability"}}

LEMMA HandlerDenialTypes ==
  /\ Denial("taifa_id_client_not_configured", 503, "UPSTREAM_UNAVAILABLE") \in HandlerDenials
  /\ Denial("actor_context_resolve_failed", 401, "UNAUTHORIZED") \in HandlerDenials
  /\ Denial("organization_capabilities_lookup_failed", 502, "UPSTREAM_UNAVAILABLE")
       \in HandlerDenials
BY DenialTypes DEF HandlerDenials, Denial

LEMMA ValidationDenials ==
  ASSUME NEW i \in Input, ValidateRequestForAuthorization(i) # NoDenial
  PROVE  ValidateRequestForAuthorization(i) \in HandlerDenials
<1>1. ValidateRequestForAuthorization(i).reason
        \notin {"missing_required_role", "missing_required_capability"}
  BY ZenonT(60) DEF ValidateRequestForAuthorization, Denial, NoDenial
<1> QED
  BY <1>1, ValidationType DEF HandlerDenials

\* An accepted request and its decision name the same route.
LEMMA AcceptedRoute ==
  ASSUME NEW r \in Requests, NEW i \in Input,
         ValidateRequestForAuthorization(NormalizeAuthorizeRequest(i)) = NoDenial
  PROVE  LET n == NormalizeAuthorizeRequest(i)
         IN NormalizeAuthorizeRequest(n) = n /\ SameRoute(n, NewDecision(r, n))
<1> DEFINE n == NormalizeAuthorizeRequest(i)
<1>1. /\ n \in Input
      /\ n.org = TrimSpace(i.org) /\ n.target = Fold(i.target) /\ n.method = Fold(i.method)
      /\ n.route = TrimSpace(i.route) /\ n.operation = TrimSpace(i.operation)
  BY NormalizedInputType DEF NormalizeAuthorizeRequest, Input
<1> HIDE DEF n
<1>2. /\ TrimSpace(n.org) = n.org /\ Fold(n.target) = n.target /\ Fold(n.method) = n.method
      /\ TrimSpace(n.route) = n.route /\ TrimSpace(n.operation) = n.operation
  BY <1>1, FoldedTwice, TrimmedTwice
<1>3. NormalizeAuthorizeRequest(n) = n
  BY <1>1, <1>2 DEF NormalizeAuthorizeRequest, Input
<1>4. /\ n.target.word \in KnownTargetSystems /\ n.method.word \in KnownMethods
      /\ n.route # EmptyText /\ n.operation # EmptyText
  <2>1. ValidateRequestForAuthorization(n) = NoDenial
    BY DEF n
  <2> QED
    BY <2>1, ZenonT(60) DEF ValidateRequestForAuthorization, Denial, NoDenial
<1>5. /\ NormalizeTargetSystemForDecision(n.target) = n.target
      /\ NormalizeMethodForDecision(n.method) = n.method
      /\ NormalizeForDecision(n.route) = n.route
      /\ NormalizeForDecision(n.operation) = n.operation
  BY <1>2, <1>4
  DEF NormalizeTargetSystemForDecision, NormalizeMethodForDecision, NormalizeForDecision
<1>6. SameRoute(n, NewDecision(r, n))
  BY <1>5, Zenon DEF SameRoute, NewDecision
<1> QED
  BY <1>3, <1>6 DEF n
-----------------------------------------------------------------------------
(* A verdict on the policy that was read. *)

\* The evaluator's input, as the goroutine puts it together.
EvaluationInputAt(r, policy) ==
  [target |-> request[r].target, method |-> request[r].method,
   route |-> request[r].route, operation |-> request[r].operation,
   policy |-> policy, actorRoles |-> draft[r].actorRoles,
   organizationCapabilities |-> draft[r].organizationCapabilities]

LEMMA EvaluationAt ==
  ASSUME NEW r \in Requests, NEW policy \in Policy \cup {Nil},
         request[r] \in Input, draft[r] \in Row
  PROVE  /\ EvaluationInputAt(r, policy) \in EvaluationInput
         /\ Evaluation(r, policy) = Evaluate(EvaluationInputAt(r, policy))
         /\ EvaluationInputAt(r, policy).policy = policy
         /\ EvaluationInputAt(r, policy).actorRoles = draft[r].actorRoles
         /\ EvaluationInputAt(r, policy).organizationCapabilities
              = draft[r].organizationCapabilities
<1>1. /\ request[r].target \in Text /\ request[r].method \in Text
      /\ request[r].route \in Text /\ request[r].operation \in Text
      /\ draft[r].actorRoles \in SUBSET Text
      /\ draft[r].organizationCapabilities \in SUBSET Text
  BY DEF Input, Row
<1>2. EvaluationInputAt(r, policy) \in EvaluationInput
  BY <1>1 DEF EvaluationInputAt, EvaluationInput
<1>3. Evaluation(r, policy) = Evaluate(EvaluationInputAt(r, policy))
  BY Zenon DEF Evaluation, EvaluationInputAt
<1>4. /\ EvaluationInputAt(r, policy).policy = policy
      /\ EvaluationInputAt(r, policy).actorRoles = draft[r].actorRoles
      /\ EvaluationInputAt(r, policy).organizationCapabilities
           = draft[r].organizationCapabilities
  BY Zenon DEF EvaluationInputAt
<1> QED
  BY <1>2, <1>3, <1>4

\* The row a verdict makes of the decision so far.
LEMMA ConcludedParts ==
  ASSUME NEW row \in Row, NEW i \in EvaluationInput
  PROVE  LET concluded == Concluded(row, Evaluate(i)) IN
         /\ concluded.target = row.target /\ concluded.method = row.method
         /\ concluded.route = row.route /\ concluded.operation = row.operation
         /\ concluded.actorRoles = row.actorRoles
         /\ concluded.organizationCapabilities = row.organizationCapabilities
         /\ concluded.decision = Evaluate(i).decision
         /\ concluded.denyReason = Evaluate(i).denyReason
         /\ concluded.matchedPolicyID = Evaluate(i).matchedPolicyID
         /\ concluded.requiredRoles = Evaluate(i).requiredRoles
         /\ concluded.requiredCapabilities = Evaluate(i).requiredCapabilities
BY DEF Concluded, Row

LEMMA ConcludedEvident ==
  ASSUME NEW row \in Row, Evident(row), NEW i \in EvaluationInput,
         i.actorRoles = row.actorRoles,
         i.organizationCapabilities = row.organizationCapabilities,
         NormalizeStringSlice(row.actorRoles) = row.actorRoles,
         NormalizeStringSlice(row.organizationCapabilities) = row.organizationCapabilities,
         i.policy \in Policy => RouteWritten(i.policy.id, row)
  PROVE  Evident(Concluded(row, Evaluate(i)))
<1> DEFINE concluded == Concluded(row, Evaluate(i))
           e == Evaluate(i)
<1>1. /\ concluded.target = row.target /\ concluded.method = row.method
      /\ concluded.route = row.route /\ concluded.operation = row.operation
      /\ concluded.actorRoles = row.actorRoles
      /\ concluded.organizationCapabilities = row.organizationCapabilities
      /\ concluded.decision = e.decision
      /\ concluded.denyReason = e.denyReason
      /\ concluded.matchedPolicyID = e.matchedPolicyID
      /\ concluded.requiredRoles = e.requiredRoles
      /\ concluded.requiredCapabilities = e.requiredCapabilities
  BY ConcludedParts
<1> DEFINE roleMet == e.requiredRoles = {} \/ e.requiredRoles \cap row.actorRoles # {}
           capabilitiesMet == e.requiredCapabilities \subseteq row.organizationCapabilities
<1>2. /\ e.decision = "ALLOW" => roleMet /\ capabilitiesMet /\ e.matchedPolicyID # ""
      /\ e.denyReason = "missing_required_role" => ~roleMet
      /\ e.denyReason = "missing_required_capability" => roleMet /\ ~capabilitiesMet
      /\ e.matchedPolicyID # "" => i.policy \in Policy /\ e.matchedPolicyID = i.policy.id
  BY VerdictJustified
<1> HIDE DEF concluded, e
<1>3. Justified(concluded)
  BY <1>1, <1>2 DEF Justified
<1>4. ColumnsAccepted(concluded)
  BY <1>1 DEF Evident, ColumnsAccepted
<1>5. concluded.matchedPolicyID # "" => RouteWritten(concluded.matchedPolicyID, concluded)
  BY <1>1, <1>2 DEF RouteWritten, SameRoute
<1> QED
  BY <1>3, <1>4, <1>5, Zenon DEF Evident, concluded, e
-----------------------------------------------------------------------------
(* What is known of a request's draft, step by step. *)

\* A step of one request says nothing about the others.
LEMMA EvidenceStep ==
  ASSUME EvidenceOK, UNCHANGED sent, NEW r \in Requests, EvidenceAt(r)',
         \A q \in Requests \ {r} : /\ pc'[q] = pc[q] /\ request'[q] = request[q]
                                   /\ draft'[q] = draft[q] /\ found'[q] = found[q]
  PROVE  EvidenceOK'
<1>1. ASSUME NEW q \in Requests \ {r} PROVE EvidenceAt(q)'
  BY <1>1 DEF EvidenceOK, EvidenceAt, ConsultedAt
<1> QED
  BY <1>1 DEF EvidenceOK

\* A step after the verdict leaves the drafts as they are.
LEMMA EvidenceKept ==
  ASSUME EvidenceOK, UNCHANGED <<request, draft, found>>,
         \A q \in Requests :
            /\ pc'[q] \in Looking => pc'[q] = pc[q]
            /\ pc'[q] \in Persisting \/ q \in sent' =>
                 pc[q] \in Looking \cup Persisting \/ q \in sent
  PROVE  EvidenceOK'
<1>1. ASSUME NEW q \in Requests PROVE EvidenceAt(q)'
  <2>1. pc'[q] \in {"roles", "policyCapabilities"} => pc'[q] \in Looking
    BY DEF Looking
  <2> QED
    BY <2>1 DEF EvidenceOK, EvidenceAt, ConsultedAt
<1> QED
  BY <1>1 DEF EvidenceOK

LEMMA DenyEvidence ==
  ASSUME IInv, EvidenceOK, OutsideDatabase, UNCHANGED <<request, found>>,
         NEW r \in Requests, NEW here, NEW decision \in Row,
         Evident(decision), decision.decision = "DENY",
         NEW denial \in HandlerDenials,
         Deny(r, here, decision, denial)
  PROVE  EvidenceOK'
<1> DEFINE row == [decision EXCEPT !.denyReason = denial.reason]
<1>1. denial.reason \in DenyReasons \ {"missing_required_role", "missing_required_capability"}
  BY DEF HandlerDenials, DenialType
<1>2. Evident(row)
  BY <1>1, DenialEvident
<1> HIDE DEF row
<1>3. /\ pc' = [pc EXCEPT ![r] = "begin"] /\ draft' = [draft EXCEPT ![r] = row]
      /\ UNCHANGED sent
  BY DEF Deny, Goto, row, OutsideDatabase
<1>4. pc'[r] = "begin" /\ draft'[r] = row
  BY <1>3 DEF IInv, RequestsOK, TypeOK
<1>5. EvidenceAt(r)'
  BY <1>2, <1>4 DEF EvidenceAt, Looking
<1>6. \A q \in Requests \ {r} : /\ pc'[q] = pc[q] /\ request'[q] = request[q]
                                /\ draft'[q] = draft[q] /\ found'[q] = found[q]
  BY <1>3 DEF IInv, RequestsOK, TypeOK
<1> QED
  BY <1>3, <1>5, <1>6, EvidenceStep

LEMMA ArrivalEvidence ==
  ASSUME IInv, EvidenceOK, NEW r \in Requests,
         DenyInvalid(r) \/ DenyUnconfigured(r) \/ Accept(r)
  PROVE  EvidenceOK'
<1>1. ASSUME NEW i \in Inputs
      PROVE  /\ NormalizeAuthorizeRequest(i) \in Input
             /\ NewDecision(r, NormalizeAuthorizeRequest(i)) \in Row
             /\ NewDecision(r, NormalizeAuthorizeRequest(i)).decision = "DENY"
             /\ Evident(NewDecision(r, NormalizeAuthorizeRequest(i)))
  <2>1. NormalizeAuthorizeRequest(i) \in Input
    BY NormalizedInputType, ExchangeAssumption
  <2> QED
    BY <2>1, NewDecisionType, NewDecisionEvident
<1>2. CASE DenyInvalid(r)
  <2>1. PICK i \in Inputs :
          /\ ValidateRequestForAuthorization(NormalizeAuthorizeRequest(i)) # NoDenial
          /\ Deny(r, "idle", NewDecision(r, NormalizeAuthorizeRequest(i)),
                  ValidateRequestForAuthorization(NormalizeAuthorizeRequest(i)))
    BY <1>2 DEF DenyInvalid
  <2>2. ValidateRequestForAuthorization(NormalizeAuthorizeRequest(i)) \in HandlerDenials
    BY <1>1, <2>1, ValidationDenials
  <2> QED
    BY <1>1, <1>2, <2>1, <2>2, DenyEvidence DEF DenyInvalid
<1>3. CASE DenyUnconfigured(r)
  BY <1>1, <1>3, HandlerDenialTypes, DenyEvidence DEF DenyUnconfigured
<1>4. CASE Accept(r)
  <2>1. PICK i \in Inputs :
          /\ ValidateRequestForAuthorization(NormalizeAuthorizeRequest(i)) = NoDenial
          /\ request' = [request EXCEPT ![r] = NormalizeAuthorizeRequest(i)]
          /\ draft' = [draft EXCEPT ![r] = NewDecision(r, NormalizeAuthorizeRequest(i))]
    BY <1>4 DEF Accept
  <2> DEFINE n == NormalizeAuthorizeRequest(i)
             row == NewDecision(r, n)
  <2>2. /\ NormalizeAuthorizeRequest(n) = n /\ SameRoute(n, row)
        /\ Evident(row)
    BY <1>1, <2>1, AcceptedRoute, ExchangeAssumption
  <2>3. /\ row.matchedPolicyID = "" /\ row.denyReason = ""
        /\ row.actorRoles = {} /\ row.organizationCapabilities = {}
    BY Zenon DEF NewDecision
  <2>4. NormalizeStringSlice({}) = {}
    BY DEF NormalizeStringSlice
  <2>5. pc' = [pc EXCEPT ![r] = "resolve"] /\ UNCHANGED <<found, sent>>
    BY <1>4 DEF Accept, Goto, OutsideDatabase
  <2> HIDE DEF n, row
  <2>6. pc'[r] = "resolve" /\ request'[r] = n /\ draft'[r] = row
    BY <2>1, <2>5 DEF IInv, RequestsOK, TypeOK, n, row
  <2>7. EvidenceAt(r)'
    BY <2>2, <2>3, <2>4, <2>6 DEF EvidenceAt, ConsultedAt
  <2>8. \A q \in Requests \ {r} : /\ pc'[q] = pc[q] /\ request'[q] = request[q]
                                  /\ draft'[q] = draft[q] /\ found'[q] = found[q]
    BY <2>1, <2>5 DEF IInv, RequestsOK, TypeOK
  <2> QED
    BY <2>5, <2>7, <2>8, EvidenceStep
<1> QED
  BY <1>2, <1>3, <1>4

\* While a request is consulted its draft is a denial without a verdict.
LEMMA Consulted ==
  ASSUME IInv, EvidenceOK, NEW r \in Requests, pc[r] \in Looking
  PROVE  /\ draft[r] \in Row /\ draft[r].id = r /\ draft[r].decision = "DENY"
         /\ request[r] \in Input
         /\ ConsultedAt(r) /\ Evident(draft[r])
BY DEF IInv, RequestsOK, LocalsOK, LocalsAt, EvidenceOK, EvidenceAt

LEMMA TaifaIDEvidence ==
  ASSUME IInv, EvidenceOK, NEW r \in Requests,
         \/ ResolveActorContext(r) \/ ListOrganizationCapabilities(r)
         \/ ResolveFails(r) \/ CapabilitiesFail(r)
  PROVE  EvidenceOK'
<1>1. pc[r] \in {"resolve", "capabilities"}
  BY DEF ResolveActorContext, ListOrganizationCapabilities, ResolveFails, CapabilitiesFail,
         Deny, Goto
<1>2. /\ draft[r] \in Row /\ draft[r].decision = "DENY"
      /\ ConsultedAt(r) /\ Evident(draft[r])
  BY <1>1, Consulted DEF Looking
<1>3. CASE ResolveFails(r) \/ CapabilitiesFail(r)
  BY <1>2, <1>3, HandlerDenialTypes, DenyEvidence DEF ResolveFails, CapabilitiesFail
<1>4. ASSUME NEW row, NEW there \in {"capabilities", "find"},
             pc' = [pc EXCEPT ![r] = there], draft' = [draft EXCEPT ![r] = row],
             UNCHANGED <<request, found, sent>>,
             row.target = draft[r].target, row.method = draft[r].method,
             row.route = draft[r].route, row.operation = draft[r].operation,
             row.decision = draft[r].decision,
             row.matchedPolicyID = draft[r].matchedPolicyID, row.denyReason = draft[r].denyReason,
             NormalizeStringSlice(row.actorRoles) = row.actorRoles,
             NormalizeStringSlice(row.organizationCapabilities) = row.organizationCapabilities
      PROVE  EvidenceOK'
  <2>1. pc'[r] = there /\ draft'[r] = row /\ request'[r] = request[r]
    BY <1>4 DEF IInv, RequestsOK, TypeOK
  <2>2. Evident(row)
    <3>1. ColumnsAccepted(row)
      BY <1>2, <1>4 DEF Evident, ColumnsAccepted
    <3>2. Justified(row)
      BY <1>2, <1>4 DEF Justified, ConsultedAt
    <3> QED
      BY <1>2, <1>4, <3>1, <3>2 DEF Evident, ConsultedAt
  <2>3. ConsultedAt(r)'
    BY <1>2, <1>4, <2>1 DEF ConsultedAt, SameRoute
  <2>4. EvidenceAt(r)'
    BY <2>1, <2>2, <2>3 DEF EvidenceAt
  <2>5. \A q \in Requests \ {r} : /\ pc'[q] = pc[q] /\ request'[q] = request[q]
                                  /\ draft'[q] = draft[q] /\ found'[q] = found[q]
    BY <1>4 DEF IInv, RequestsOK, TypeOK
  <2> QED
    BY <1>4, <2>4, <2>5, EvidenceStep
<1>5. CASE ResolveActorContext(r)
  <2>1. PICK actor \in ActorAnswers :
          draft' = [draft EXCEPT ![r] = [draft[r] EXCEPT !.person = actor.person,
                                                         !.actorRoles = CollectActorRoles(actor)]]
    BY <1>5 DEF ResolveActorContext
  <2> DEFINE row == [draft[r] EXCEPT !.person = actor.person,
                                     !.actorRoles = CollectActorRoles(actor)]
  <2>2. /\ row.target = draft[r].target /\ row.method = draft[r].method
        /\ row.route = draft[r].route /\ row.operation = draft[r].operation
        /\ row.decision = draft[r].decision
        /\ row.matchedPolicyID = draft[r].matchedPolicyID /\ row.denyReason = draft[r].denyReason
        /\ row.organizationCapabilities = draft[r].organizationCapabilities
        /\ row.actorRoles = CollectActorRoles(actor)
    BY <1>2 DEF Row
  <2>3. NormalizeStringSlice(CollectActorRoles(actor)) = CollectActorRoles(actor)
    BY SliceTwice DEF CollectActorRoles
  <2>4. /\ pc' = [pc EXCEPT ![r] = "capabilities"] /\ draft' = [draft EXCEPT ![r] = row]
        /\ UNCHANGED <<request, found, sent>>
    BY <1>5, <2>1 DEF ResolveActorContext, Goto, OutsideDatabase
  <2> HIDE DEF row
  <2> QED
    BY <1>2, <1>4, <2>2, <2>3, <2>4 DEF ConsultedAt
<1>6. CASE ListOrganizationCapabilities(r)
  <2>1. PICK capabilities \in CapabilityAnswers :
          draft' = [draft EXCEPT ![r] =
            [draft[r] EXCEPT !.organizationCapabilities = NormalizeStringSlice(capabilities)]]
    BY <1>6 DEF ListOrganizationCapabilities
  <2> DEFINE row ==
        [draft[r] EXCEPT !.organizationCapabilities = NormalizeStringSlice(capabilities)]
  <2>2. /\ row.target = draft[r].target /\ row.method = draft[r].method
        /\ row.route = draft[r].route /\ row.operation = draft[r].operation
        /\ row.decision = draft[r].decision
        /\ row.matchedPolicyID = draft[r].matchedPolicyID /\ row.denyReason = draft[r].denyReason
        /\ row.organizationCapabilities = NormalizeStringSlice(capabilities)
        /\ row.actorRoles = draft[r].actorRoles
    BY <1>2 DEF Row
  <2>3. NormalizeStringSlice(row.organizationCapabilities) = row.organizationCapabilities
    BY <2>2, SliceTwice
  <2>4. /\ pc' = [pc EXCEPT ![r] = "find"] /\ draft' = [draft EXCEPT ![r] = row]
        /\ UNCHANGED <<request, found, sent>>
    BY <1>6, <2>1 DEF ListOrganizationCapabilities, Goto, OutsideDatabase
  <2> HIDE DEF row
  <2> QED
    BY <1>2, <1>4, <2>2, <2>3, <2>4 DEF ConsultedAt
<1> QED
  BY <1>3, <1>5, <1>6
-----------------------------------------------------------------------------
(* The policy that is read. *)

\* The lookup of a request is for its own route.
LEMMA LookupRoute ==
  ASSUME NEW i \in Input, NormalizeAuthorizeRequest(i) = i,
         NEW p, SameRoute(p, LookupInput(i.target, i.method, i.route, i.operation))
  PROVE  SameRoute(p, i)
<1> DEFINE n == NormalizeAuthorizeRequest(i)
           lookup == LookupInput(i.target, i.method, i.route, i.operation)
<1>1. /\ n.target = Fold(i.target) /\ n.method = Fold(i.method)
      /\ n.route = TrimSpace(i.route) /\ n.operation = TrimSpace(i.operation)
  BY DEF NormalizeAuthorizeRequest, Input
<1>2. /\ lookup.target = Fold(i.target) /\ lookup.method = Fold(i.method)
      /\ lookup.route = TrimSpace(i.route) /\ lookup.operation = TrimSpace(i.operation)
  BY Zenon DEF LookupInput
<1> QED
  BY <1>1, <1>2 DEF SameRoute

LEMMA ScannedParts ==
  ASSUME NEW p \in Policy
  PROVE  /\ ScannedRow(p).id = p.id
         /\ ScannedRow(p).status = p.status /\ ScannedRow(p).effect = p.effect
         /\ ScannedRow(p).target = p.target /\ ScannedRow(p).method = p.method
         /\ ScannedRow(p).route = p.route /\ ScannedRow(p).operation = p.operation
BY DEF ScannedRow, Policy

\* What FindPolicy finds: a row of the tables for the decision's route.
LEMMA Matched ==
  ASSUME IInv, EvidenceOK, NEW r \in Requests, pc[r] = "find", NEW p \in Matching(r)
  PROVE  p \in policies /\ p \in Policy /\ SameRoute(p, draft[r])
<1>1. p \in policies /\ SameRoute(p, LookupInput(request[r].target, request[r].method,
                                               request[r].route, request[r].operation))
  BY DEF Matching, SelectPolicy
<1>2. p \in Policy
  BY <1>1 DEF IInv, RequestsOK, TypeOK, StorablePolicy
<1>3. /\ request[r] \in Input /\ NormalizeAuthorizeRequest(request[r]) = request[r]
      /\ SameRoute(request[r], draft[r])
  BY Consulted DEF Looking, ConsultedAt
<1>4. SameRoute(p, request[r])
  BY <1>1, <1>3, LookupRoute
<1> QED
  BY <1>1, <1>2, <1>3, <1>4, SameRouteTransitive

LEMMA ConcludeEvidence ==
  ASSUME IInv, EvidenceOK, UNCHANGED <<request, sent>>,
         NEW r \in Requests, NEW here, pc[r] \in {"find", "policyCapabilities"},
         \A q \in Requests \ {r} : found'[q] = found[q],
         NEW policy \in Policy \cup {Nil},
         policy \in Policy => RouteWritten(policy.id, draft[r]),
         Conclude(r, here, Evaluation(r, policy))
  PROVE  EvidenceOK'
<1> DEFINE i == EvaluationInputAt(r, policy)
           row == Concluded(draft[r], Evaluate(i))
<1>1. /\ draft[r] \in Row /\ request[r] \in Input /\ ConsultedAt(r) /\ Evident(draft[r])
  BY Consulted DEF Looking
<1>2. /\ i \in EvaluationInput /\ Evaluation(r, policy) = Evaluate(i)
      /\ i.policy = policy /\ i.actorRoles = draft[r].actorRoles
      /\ i.organizationCapabilities = draft[r].organizationCapabilities
  BY <1>1, EvaluationAt
<1>3. /\ pc' = [pc EXCEPT ![r] = "begin"] /\ draft' = [draft EXCEPT ![r] = row]
  BY <1>2 DEF Conclude, Goto
<1> HIDE DEF i
<1>4. Evident(row)
  BY <1>1, <1>2, ConcludedEvident DEF ConsultedAt
<1> HIDE DEF row
<1>5. pc'[r] = "begin" /\ draft'[r] = row
  BY <1>3 DEF IInv, RequestsOK, TypeOK
<1>6. EvidenceAt(r)'
  BY <1>4, <1>5 DEF EvidenceAt, Looking
<1>7. \A q \in Requests \ {r} : /\ pc'[q] = pc[q] /\ request'[q] = request[q]
                                /\ draft'[q] = draft[q] /\ found'[q] = found[q]
  BY <1>3 DEF IInv, RequestsOK, TypeOK
<1> QED
  BY <1>6, <1>7, EvidenceStep

LEMMA LookupEvidence ==
  ASSUME IInv, EvidenceOK, PoliciesWritten, NEW r \in Requests,
         FindPolicy(r) \/ PolicyNotFound(r) \/ ReadRoles(r) \/ ReadCapabilities(r)
  PROVE  EvidenceOK'
<1>1. ASSUME NEW there \in {"roles", "policyCapabilities"}, NEW policy,
             pc[r] \in Looking, pc' = [pc EXCEPT ![r] = there],
             found' = [found EXCEPT ![r] = policy],
             UNCHANGED <<request, draft, sent>>,
             SameRoute(policy, draft[r]), RouteWritten(policy.id, draft[r])
      PROVE  EvidenceOK'
  <2>1. /\ pc'[r] = there /\ found'[r] = policy
        /\ request'[r] = request[r] /\ draft'[r] = draft[r]
    BY <1>1 DEF IInv, RequestsOK, TypeOK
  <2>2. EvidenceAt(r)'
    BY <1>1, <2>1, Consulted DEF EvidenceAt, ConsultedAt
  <2>3. \A q \in Requests \ {r} : /\ pc'[q] = pc[q] /\ request'[q] = request[q]
                                  /\ draft'[q] = draft[q] /\ found'[q] = found[q]
    BY <1>1 DEF IInv, RequestsOK, TypeOK
  <2> QED
    BY <1>1, <2>2, <2>3, EvidenceStep
<1>2. ASSUME pc[r] \in {"roles", "policyCapabilities"}
      PROVE  /\ found[r] \in Policy /\ SameRoute(found[r], draft[r])
             /\ RouteWritten(found[r].id, draft[r])
  BY <1>2 DEF IInv, RequestsOK, LocalsOK, LocalsAt, EvidenceOK, EvidenceAt
<1>3. CASE FindPolicy(r)
  <2>1. PICK p \in Matching(r) : found' = [found EXCEPT ![r] = ScannedRow(p)]
    BY <1>3 DEF FindPolicy
  <2>2. /\ pc[r] = "find" /\ pc' = [pc EXCEPT ![r] = "roles"]
        /\ UNCHANGED <<request, draft, sent>>
    BY <1>3 DEF FindPolicy, Goto, OutsideDatabase
  <2>3. p \in policies /\ p \in Policy /\ SameRoute(p, draft[r])
    BY <2>2, Matched
  <2>4. RouteWritten(p.id, draft[r])
    BY <2>3, SameRouteTransitive DEF PoliciesWritten, RouteWritten
  <2>5. SameRoute(ScannedRow(p), draft[r]) /\ RouteWritten(ScannedRow(p).id, draft[r])
    BY <2>3, <2>4, ScannedParts DEF SameRoute
  <2>6. pc[r] \in Looking
    BY <2>2 DEF Looking
  <2> QED
    BY <1>1, <2>1, <2>2, <2>5, <2>6
<1>4. CASE PolicyNotFound(r)
  <2>1. Nil \notin Policy
    BY NilAssumption
  <2> QED
    BY <1>4, <2>1, ConcludeEvidence DEF PolicyNotFound, OutsideDatabase
<1>5. CASE ReadRoles(r)
  <2> DEFINE policy == [found[r] EXCEPT !.requiredRoles = ListPolicyRoles(policies, found[r].id)]
  <2>1. /\ pc[r] = "roles" /\ pc' = [pc EXCEPT ![r] = "policyCapabilities"]
        /\ found' = [found EXCEPT ![r] = policy]
        /\ UNCHANGED <<request, draft, sent>>
    BY <1>5 DEF ReadRoles, Goto, OutsideDatabase
  <2>2. /\ policy.id = found[r].id
        /\ policy.target = found[r].target /\ policy.method = found[r].method
        /\ policy.route = found[r].route /\ policy.operation = found[r].operation
    BY <1>2, <2>1 DEF Policy
  <2> HIDE DEF policy
  <2>3. SameRoute(policy, draft[r]) /\ RouteWritten(policy.id, draft[r])
    BY <1>2, <2>1, <2>2 DEF SameRoute
  <2>4. pc[r] \in Looking
    BY <2>1 DEF Looking
  <2> QED
    BY <1>1, <2>1, <2>3, <2>4
<1>6. CASE ReadCapabilities(r)
  <2> DEFINE policy == [found[r] EXCEPT
                          !.requiredCapabilities = ListPolicyCapabilities(policies, found[r].id)]
  <2>1. /\ pc[r] = "policyCapabilities" /\ UNCHANGED <<request, sent>>
        /\ found' = [found EXCEPT ![r] = policy]
        /\ Conclude(r, "policyCapabilities", Evaluation(r, found'[r]))
    BY <1>6 DEF ReadCapabilities, OutsideDatabase
  <2>2. found[r] \in Policy /\ RouteWritten(found[r].id, draft[r])
    BY <1>2, <2>1
  <2>3. ListPolicyCapabilities(policies, found[r].id) \in SUBSET Text
    BY <2>2, ListTypes DEF Policy, IInv
  <2>4. policy \in Policy /\ policy.id = found[r].id
    BY <2>2, <2>3 DEF Policy
  <2> HIDE DEF policy
  <2>5. found'[r] = policy /\ \A q \in Requests \ {r} : found'[q] = found[q]
    BY <2>1 DEF IInv, RequestsOK, TypeOK
  <2> QED
    BY <2>1, <2>2, <2>4, <2>5, ConcludeEvidence
<1> QED
  BY <1>3, <1>4, <1>5, <1>6
-----------------------------------------------------------------------------
(* After the verdict. *)

\* The steps that look nothing up and decide nothing.
LEMMA LaterEvidence ==
  ASSUME IInv, EvidenceOK, [Next]_vars,
         ~\E r \in Requests :
             \/ DenyInvalid(r) \/ DenyUnconfigured(r) \/ Accept(r)
             \/ ResolveActorContext(r) \/ ListOrganizationCapabilities(r)
             \/ ResolveFails(r) \/ CapabilitiesFail(r)
             \/ FindPolicy(r) \/ PolicyNotFound(r) \/ ReadRoles(r) \/ ReadCapabilities(r)
  PROVE  EvidenceOK'
<1>1. CASE UNCHANGED vars
  BY <1>1, EvidenceKept DEF vars, locals
<1>2. CASE Crash
  <2>1. \A q \in Requests : pc'[q] \in {pc[q], "done"}
    BY <1>2 DEF Crash
  <2> QED
    BY <1>2, <2>1, EvidenceKept DEF Crash, locals, Looking, Persisting
<1>3. CASE Seed \/ Administer
  BY <1>3, EvidenceKept DEF Seed, Administer, AdminReplace, AdminDelete, locals
<1>4. ASSUME NEW r \in Requests, NEW there \in PCs \ Looking,
             pc' = [pc EXCEPT ![r] = there], UNCHANGED <<request, draft, found>>,
             there \in Persisting \/ r \in sent' => pc[r] \in Persisting \/ r \in sent,
             \A q \in Requests \ {r} : q \in sent' => q \in sent
      PROVE  EvidenceOK'
  <2>1. \A q \in Requests : pc'[q] = IF q = r THEN there ELSE pc[q]
    BY <1>4 DEF IInv, RequestsOK, TypeOK
  <2> QED
    BY <1>4, <2>1, EvidenceKept
<1>5. ASSUME NEW r \in Requests,
             \/ RejectMalformed(r) \/ Begin(r) \/ InsertDecision(r) \/ InsertAudit(r)
             \/ SendCommit(r) \/ Committed(r) \/ CommitFails(r)
             \/ StatementFails(r) \/ TransactionFails(r) \/ Reply(r) \/ ReplyLost(r)
      PROVE  EvidenceOK'
  <2>1. PICK there \in {"insert", "audit", "commit", "committing", "reply", "done"} :
          pc' = [pc EXCEPT ![r] = there]
    BY <1>5 DEF RejectMalformed, Begin, InsertDecision, InsertAudit, SendCommit, Committed,
                CommitFails, StatementFails, TransactionFails, Reply, ReplyLost, ReturnError, Goto
  <2>2. UNCHANGED <<request, draft, found>>
    BY <1>5 DEF RejectMalformed, Begin, InsertDecision, InsertAudit, SendCommit, Committed,
                CommitFails, StatementFails, TransactionFails, Reply, ReplyLost, ReturnError,
                locals
  <2>3. /\ sent' \subseteq sent \cup {r}
        /\ there \in Persisting \/ r \in sent' => pc[r] \in Persisting \/ r \in sent
    BY <1>5, <2>1
    DEF RejectMalformed, Begin, InsertDecision, InsertAudit, SendCommit, Committed,
        CommitFails, StatementFails, TransactionFails, Reply, ReplyLost, ReturnError, Goto,
        Persisting, OutsideDatabase, IInv, RequestsOK, TypeOK
  <2>4. there \in PCs \ Looking
    BY DEF PCs, Looking
  <2> QED
    BY <1>4, <2>1, <2>2, <2>3, <2>4
<1>6. ASSUME NEW r \in Requests, Disconnect(r) \/ ServerCommits(r) \/ ServerAborts(r)
      PROVE  EvidenceOK'
  BY <1>6, EvidenceKept DEF Disconnect, ServerCommits, ServerAborts, locals, Persisting
<1> QED
  BY <1>1, <1>2, <1>3, <1>5, <1>6 DEF Next, Handle, Terminated

LEMMA NextEvidence ==
  ASSUME IInv, EvidenceOK, PoliciesWritten, [Next]_vars PROVE EvidenceOK'
BY ArrivalEvidence, TaifaIDEvidence, LookupEvidence, LaterEvidence
-----------------------------------------------------------------------------
(* The tables. *)

\* Reseeding a policy only adds to its lists.
LEMMA ReseededParts ==
  ASSUME NEW p \in StorablePolicy, NEW seeds \in SUBSET StorablePolicy
  PROVE  LET q == Reseeded(p, seeds) IN
         /\ q \in StorablePolicy
         /\ q.id = p.id /\ SameRoute(q, p) /\ q.status = p.status /\ q.effect = p.effect
         /\ p.requiredRoles \subseteq q.requiredRoles
         /\ p.requiredCapabilities \subseteq q.requiredCapabilities
<1> DEFINE own == {s \in seeds : s.id = p.id}
           roles == p.requiredRoles \cup UNION {s.requiredRoles : s \in own}
           capabilities == p.requiredCapabilities \cup UNION {s.requiredCapabilities : s \in own}
           q == Reseeded(p, seeds)
<1>1. p \in Policy
  BY DEF StorablePolicy
<1>2. q = [p EXCEPT !.requiredRoles = roles, !.requiredCapabilities = capabilities]
  BY DEF Reseeded
<1>3. p.requiredRoles \subseteq roles /\ p.requiredCapabilities \subseteq capabilities
  OBVIOUS
<1> HIDE DEF roles, capabilities, q
<1>4. /\ q.id = p.id /\ q.status = p.status /\ q.effect = p.effect
      /\ q.requiredRoles = roles /\ q.requiredCapabilities = capabilities
  BY <1>1, <1>2 DEF Policy
<1>5. q \in StorablePolicy /\ SameRoute(q, p)
  <2>1. /\ q.target = p.target /\ q.method = p.method
        /\ q.route = p.route /\ q.operation = p.operation
    BY <1>1, <1>2 DEF Policy
  <2>2. q \in StorablePolicy
    BY ReseededType DEF q
  <2> QED
    BY <2>1, <2>2 DEF SameRoute
<1> QED
  BY <1>3, <1>4, <1>5 DEF q

\* What a run of the seeder makes of the tables.
LEMMA SeedWrites ==
  ASSUME Seed
  PROVE  \E seeds \in SeedsCommitted :
           /\ seeds \in SUBSET StorablePolicy
           /\ FreshSeeds(policies, seeds) \subseteq CanonicalPolicies
           /\ policies' = {Reseeded(p, seeds) : p \in policies} \cup FreshSeeds(policies, seeds)
BY SeedsStorable DEF Seed, SeededPolicies

\* Only the seeder and operators write the policy tables, and they write nothing else that
\* a decision rests on.
LEMMA WritersOfPolicies ==
  ASSUME [Next]_vars
  PROVE  UNCHANGED policies \/ Seed \/ Administer
<1>1. ASSUME NEW r \in Requests,
             \/ RejectMalformed(r) \/ DenyInvalid(r) \/ DenyUnconfigured(r) \/ Accept(r)
             \/ ResolveActorContext(r) \/ ResolveFails(r)
             \/ ListOrganizationCapabilities(r) \/ CapabilitiesFail(r)
             \/ FindPolicy(r) \/ PolicyNotFound(r) \/ ReadRoles(r) \/ ReadCapabilities(r)
      PROVE  OutsideDatabase
  BY <1>1 DEF RejectMalformed, DenyInvalid, DenyUnconfigured, Accept, ResolveActorContext,
     ResolveFails, ListOrganizationCapabilities, CapabilitiesFail, FindPolicy, PolicyNotFound,
     ReadRoles, ReadCapabilities
<1>2. ASSUME NEW r \in Requests,
             \/ Begin(r) \/ InsertDecision(r) \/ InsertAudit(r) \/ SendCommit(r) \/ Committed(r)
             \/ CommitFails(r) \/ StatementFails(r) \/ TransactionFails(r)
             \/ Reply(r) \/ ReplyLost(r) \/ Disconnect(r)
             \/ ServerCommits(r) \/ ServerAborts(r)
      PROVE  UNCHANGED policies
  BY <1>2 DEF Begin, InsertDecision, InsertAudit, SendCommit, Committed, CommitFails,
     StatementFails, TransactionFails, Reply, ReplyLost, Disconnect, ServerCommits, ServerAborts,
     database
<1>3. OutsideDatabase => UNCHANGED policies
  BY DEF OutsideDatabase, database
<1>4. CASE Crash \/ UNCHANGED vars
  BY <1>4 DEF Crash, vars, database
<1> QED
  BY <1>1, <1>2, <1>3, <1>4 DEF Next, Handle, Terminated

\* What they make of a policy that is in the tables.
LEMMA PoliciesMove ==
  ASSUME IInv, Seed \/ Administer, NEW p \in policies
  PROVE  \/ \E q \in policies' : q.id = p.id
         \/ AdminDelete(p)
<1>1. CASE Seed
  <2>1. PICK seeds \in SUBSET StorablePolicy : Reseeded(p, seeds) \in policies'
    BY <1>1, SeedWrites
  <2>2. Reseeded(p, seeds).id = p.id
    BY ReseededParts DEF IInv, RequestsOK, TypeOK
  <2> QED
    BY <2>1, <2>2
<1>2. ASSUME NEW a \in AdminPolicies, AdminReplace(a)
      PROVE  \E q \in policies' : q.id = p.id
  BY <1>2 DEF AdminReplace
<1>3. ASSUME NEW d \in policies, AdminDelete(d)
      PROVE  p \in policies' \/ AdminDelete(p)
  BY <1>3 DEF AdminDelete
<1> QED
  BY <1>1, <1>2, <1>3 DEF Administer

LEMMA NextPoliciesWritten ==
  ASSUME IInv, PoliciesWritten, [Next]_vars PROVE PoliciesWritten'
<1>1. \A p \in WrittenPolicies : RouteWritten(p.id, p)
  BY DEF RouteWritten, SameRoute
<1>2. CASE UNCHANGED policies
  BY <1>2 DEF PoliciesWritten
<1>3. CASE Seed
  <2>0. PICK seeds \in SUBSET StorablePolicy :
          /\ FreshSeeds(policies, seeds) \subseteq CanonicalPolicies
          /\ policies' = {Reseeded(p, seeds) : p \in policies} \cup FreshSeeds(policies, seeds)
    BY <1>3, SeedWrites
  <2>1. ASSUME NEW p \in policies PROVE RouteWritten(Reseeded(p, seeds).id, Reseeded(p, seeds))
    <3> DEFINE q == Reseeded(p, seeds)
    <3>1. q.id = p.id /\ SameRoute(p, q)
      BY ReseededParts, SameRouteSymmetric DEF IInv, RequestsOK, TypeOK
    <3> HIDE DEF q
    <3>2. RouteWritten(q.id, q)
      BY <3>1, SameRouteTransitive DEF PoliciesWritten, RouteWritten
    <3> QED
      BY <3>2 DEF q
  <2>2. FreshSeeds(policies, seeds) \subseteq WrittenPolicies
    BY <2>0 DEF WrittenPolicies
  <2> QED
    BY <1>1, <2>0, <2>1, <2>2 DEF PoliciesWritten
<1>4. CASE Administer
  <2>1. AdminPolicies \subseteq WrittenPolicies
    BY DEF WrittenPolicies
  <2> QED
    BY <1>1, <1>4, <2>1 DEF Administer, AdminReplace, AdminDelete, PoliciesWritten
<1> QED
  BY <1>2, <1>3, <1>4, WritersOfPolicies

\* The foreign key: a row of an open transaction names a policy that was there when it was
\* written, and neither it nor a row on record loses its policy.
LEMMA NextReferencesKept ==
  ASSUME IInv, ReferencesKept, [Next]_vars PROVE ReferencesKept'
<1>1. CASE Seed \/ Administer
  <2>1. UNCHANGED <<decisions, staged>>
    BY <1>1 DEF Seed, Administer, AdminReplace, AdminDelete
  <2>2. ASSUME NEW row \in WrittenRows, row.matchedPolicyID # ""
        PROVE  \E q \in policies' : q.id = row.matchedPolicyID
    <3>1. PICK p \in policies : p.id = row.matchedPolicyID
      BY <2>2 DEF ReferencesKept, MatchedPolicyStored
    <3>2. ~AdminDelete(p)
      BY <2>2, <3>1 DEF AdminDelete, Referenced, WrittenRows
    <3> QED
      BY <1>1, <3>1, <3>2, PoliciesMove
  <2> QED
    BY <2>1, <2>2 DEF ReferencesKept, WrittenRows, MatchedPolicyStored
<1>2. ASSUME UNCHANGED policies,
             \A row \in WrittenRows' : row \in WrittenRows \/ MatchedPolicyStored(row)
      PROVE  ReferencesKept'
  BY <1>2 DEF ReferencesKept, MatchedPolicyStored
<1>3. ASSUME UNCHANGED <<policies, decisions>>,
             \A q \in Requests : staged'[q].rows \subseteq staged[q].rows
      PROVE  ReferencesKept'
  BY <1>2, <1>3 DEF WrittenRows
<1>4. NothingStaged.rows = {}
  BY DEF NothingStaged
<1>5. staged \in [Requests -> [rows : SUBSET Row, events : SUBSET DecisionEvent]]
  BY DEF IInv, RequestsOK, TypeOK
<1>6. CASE UNCHANGED vars
  BY <1>3, <1>6 DEF vars, database
<1>7. CASE Crash
  BY <1>3, <1>4, <1>5, <1>7 DEF Crash, database
<1>8. ASSUME NEW r \in Requests, InsertDecision(r) PROVE ReferencesKept'
  <2>1. /\ UNCHANGED <<policies, decisions>> /\ MatchedPolicyStored(draft[r])
        /\ staged' = [staged EXCEPT ![r].rows = @ \cup {draft[r]}]
    BY <1>8 DEF InsertDecision, database
  <2>2. \A q \in Requests : staged'[q].rows \subseteq staged[q].rows \cup {draft[r]}
    BY <1>5, <2>1
  <2> QED
    BY <1>2, <2>1, <2>2 DEF WrittenRows
<1>9. ASSUME NEW r \in Requests, InsertAudit(r) PROVE ReferencesKept'
  <2>1. staged' = [staged EXCEPT ![r].events = @ \cup {AuditEventForResult(draft[r])}]
    BY <1>9 DEF InsertAudit
  <2>2. \A q \in Requests : staged'[q].rows = staged[q].rows
    BY <1>5, <2>1
  <2> QED
    BY <1>3, <1>9, <2>2 DEF InsertAudit, database
<1>10. ASSUME NEW r \in Requests, ServerCommits(r) PROVE ReferencesKept'
  <2>1. /\ UNCHANGED policies /\ decisions' = decisions \cup staged[r].rows
        /\ staged' = [staged EXCEPT ![r] = NothingStaged]
    BY <1>10 DEF ServerCommits
  <2>2. \A q \in Requests : staged'[q].rows \subseteq staged[q].rows
    BY <1>4, <1>5, <2>1
  <2> QED
    BY <1>2, <2>1, <2>2 DEF WrittenRows
<1>11. ASSUME NEW r \in Requests, ServerAborts(r) \/ TransactionFails(r) PROVE ReferencesKept'
  BY <1>3, <1>4, <1>5, <1>11 DEF ServerAborts, TransactionFails, EndTransaction, database
<1>12. ASSUME UNCHANGED <<database, staged>> PROVE ReferencesKept'
  BY <1>3, <1>12 DEF database
<1>13. ASSUME NEW r \in Requests,
              \/ RejectMalformed(r) \/ DenyInvalid(r) \/ DenyUnconfigured(r) \/ Accept(r)
              \/ ResolveActorContext(r) \/ ResolveFails(r)
              \/ ListOrganizationCapabilities(r) \/ CapabilitiesFail(r)
              \/ FindPolicy(r) \/ PolicyNotFound(r) \/ ReadRoles(r) \/ ReadCapabilities(r)
              \/ Begin(r) \/ SendCommit(r) \/ Committed(r) \/ CommitFails(r)
              \/ StatementFails(r) \/ Reply(r) \/ ReplyLost(r) \/ Disconnect(r)
       PROVE  ReferencesKept'
  <2>1. UNCHANGED <<database, staged>>
    BY <1>13 DEF RejectMalformed, DenyInvalid, DenyUnconfigured, Accept, ResolveActorContext,
         ResolveFails, ListOrganizationCapabilities, CapabilitiesFail, FindPolicy,
         PolicyNotFound, ReadRoles, ReadCapabilities, Begin, SendCommit, Committed, CommitFails,
         StatementFails, Reply, ReplyLost, Disconnect, OutsideDatabase
  <2> QED
    BY <1>12, <2>1
<1> QED
  BY <1>1, <1>6, <1>7, <1>8, <1>9, <1>10, <1>11, <1>13 DEF Next, Handle, Terminated
-----------------------------------------------------------------------------
(* The rows on record. *)

\* Whatever is put on record is the draft of a request whose COMMIT was sent.
LEMMA Appended ==
  ASSUME IInv, [Next]_vars
  PROVE  \/ UNCHANGED decisions
         \/ \E r \in Requests : r \in sent /\ decisions' = decisions \cup {draft[r]}
<1>1. ASSUME NEW r \in Requests, ServerCommits(r)
      PROVE  r \in sent /\ decisions' = decisions \cup {draft[r]}
  <2>1. r \in sent /\ decisions' = decisions \cup staged[r].rows
    BY <1>1 DEF ServerCommits
  <2>2. StagedAt(r)
    BY DEF IInv, RequestsOK, StagedOK
  <2>3. staged[r].rows = {draft[r]}
    BY <2>1, <2>2 DEF StagedAt
  <2> QED
    BY <2>1, <2>3
<1>2. UNCHANGED <<decisions, DecisionEvents>> \/ \E r \in Requests : ServerCommits(r)
  BY OnlyTheServerRecords, Zenon
<1>3. UNCHANGED <<decisions, DecisionEvents>> => UNCHANGED decisions
  OBVIOUS
<1> QED
  BY <1>1, <1>2, <1>3, Zenon

LEMMA NextRowsEvident ==
  ASSUME IInv, EvidenceOK, RowsEvident, [Next]_vars PROVE RowsEvident'
BY Appended DEF RowsEvident, EvidenceOK, EvidenceAt

LEMMA InitEvidence == Init => EvidenceInv
<1> SUFFICES ASSUME Init PROVE EvidenceInv
  OBVIOUS
<1>1. EvidenceOK
  BY DEF Init, EvidenceOK, EvidenceAt, Looking, Persisting
<1>2. RowsEvident
  BY DEF Init, RowsEvident
<1>3. PoliciesWritten
  BY DEF Init, PoliciesWritten, RouteWritten, WrittenPolicies, SameRoute
<1>4. ReferencesKept
  BY DEF Init, ReferencesKept, WrittenRows, NothingStaged
<1> QED
  BY <1>1, <1>2, <1>3, <1>4 DEF EvidenceInv

LEMMA NextEvidenceInv == IInv /\ EvidenceInv /\ [Next]_vars => EvidenceInv'
BY NextEvidence, NextRowsEvident, NextPoliciesWritten, NextReferencesKept DEF EvidenceInv

\* What is known of the contents of a decision at every point of its goroutine and on record,
\* and of the policies it names.
THEOREM EvidenceHolds == Spec => []EvidenceInv
BY InitEvidence, NextEvidenceInv, InvariantHolds, PTL DEF Spec

\* No CHECK constraint refuses a decision that persist is about to insert, whatever the
\* client sent (service.go:55-58, migration 2): no invalid request is a 500.
THEOREM DecisionsStorable == Spec => []EveryDecisionStorable
<1>1. EvidenceInv => EveryDecisionStorable
  BY DEF EvidenceInv, EvidenceOK, EvidenceAt, Evident, EveryDecisionStorable, Persisting
<1> QED
  BY <1>1, EvidenceHolds, PTL

\* Every decision row reports requirements that its roles and capabilities meet, or do not
\* meet, as it decides, whatever was written to the tables while its policy was read.
THEOREM RowsJustified == Spec => []RowsJustifyThemselves
<1>1. EvidenceInv => RowsJustifyThemselves
  BY DEF EvidenceInv, RowsEvident, Evident, RowsJustifyThemselves
<1> QED
  BY <1>1, EvidenceHolds, PTL

\* The policy a decision names is in the tables and is for the route the decision reports,
\* as long as nobody moves a policy to another route, which the schema does not prevent.
THEOREM MatchedPolicyReported ==
  ASSUME RoutesFixed PROVE Spec => []MatchedPolicyIsForRecordedRoute
<1>1. ASSUME EvidenceInv PROVE MatchedPolicyIsForRecordedRoute
  <2> SUFFICES ASSUME NEW row \in decisions, row.matchedPolicyID # ""
               PROVE  \E p \in policies : p.id = row.matchedPolicyID /\ SameRoute(p, row)
    BY DEF MatchedPolicyIsForRecordedRoute
  <2>1. PICK p \in policies : p.id = row.matchedPolicyID
    BY <1>1 DEF EvidenceInv, ReferencesKept, WrittenRows, MatchedPolicyStored
  <2>2. PICK w \in WrittenPolicies : w.id = row.matchedPolicyID /\ SameRoute(w, row)
    BY <1>1 DEF EvidenceInv, RowsEvident, Evident, RouteWritten
  <2>3. PICK v \in WrittenPolicies : v.id = p.id /\ SameRoute(v, p)
    BY <1>1 DEF EvidenceInv, PoliciesWritten, RouteWritten
  <2>4. SameRoute(v, w)
    BY <2>1, <2>2, <2>3 DEF RoutesFixed
  <2> QED
    BY <2>1, <2>2, <2>3, <2>4, SameRouteSymmetric, SameRouteTransitive
<1> QED
  BY <1>1, EvidenceHolds, PTL
-----------------------------------------------------------------------------
(* One version of a policy. *)

\* Two runs of the seeder add to a policy what one run with the seeds of both would.
LEMMA ReseededTwice ==
  ASSUME NEW p \in StorablePolicy, NEW seeds \in SUBSET StorablePolicy,
         NEW later \in SUBSET StorablePolicy
  PROVE  Reseeded(Reseeded(p, seeds), later) = Reseeded(p, seeds \cup later)
<1> DEFINE roles(some) == UNION {s.requiredRoles : s \in {t \in some : t.id = p.id}}
           capabilities(some) == UNION {s.requiredCapabilities : s \in {t \in some : t.id = p.id}}
           q == Reseeded(p, seeds)
           both == seeds \cup later
<1>1. p \in Policy /\ q \in Policy /\ q.id = p.id
  BY ReseededParts DEF StorablePolicy
<1>2. /\ q = WithLists(p, p.requiredRoles \cup roles(seeds),
                       p.requiredCapabilities \cup capabilities(seeds))
      /\ Reseeded(p, both) = WithLists(p, p.requiredRoles \cup roles(both),
                                       p.requiredCapabilities \cup capabilities(both))
  BY DEF Reseeded, WithLists
<1>3. Reseeded(q, later) = WithLists(q, q.requiredRoles \cup roles(later),
                                     q.requiredCapabilities \cup capabilities(later))
  BY <1>1 DEF Reseeded, WithLists
<1>4. roles(both) = roles(seeds) \cup roles(later)
      /\ capabilities(both) = capabilities(seeds) \cup capabilities(later)
  OBVIOUS
<1> HIDE DEF roles, capabilities, q, both
<1>5. /\ q.requiredRoles = p.requiredRoles \cup roles(seeds)
      /\ q.requiredCapabilities = p.requiredCapabilities \cup capabilities(seeds)
  BY <1>1, <1>2 DEF Policy, WithLists
<1>6. Reseeded(q, later) = WithLists(q, p.requiredRoles \cup roles(both),
                                     p.requiredCapabilities \cup capabilities(both))
  <2>1. /\ q.requiredRoles \cup roles(later) = p.requiredRoles \cup roles(both)
        /\ q.requiredCapabilities \cup capabilities(later)
             = p.requiredCapabilities \cup capabilities(both)
    BY <1>4, <1>5
  <2> QED
    BY <1>3, <2>1
<1>7. \A a, b, c, d : WithLists(WithLists(p, a, b), c, d) = WithLists(p, c, d)
  BY <1>1 DEF WithLists, Policy
<1>8. Reseeded(q, later) = Reseeded(p, both)
  BY <1>2, <1>6, <1>7
<1> QED
  BY <1>8 DEF q, both

\* What a run of the seeder, or none, can seed; and what several runs can.
Seedings == SeedsCommitted \cup {{}}

LEMMA SeedingsAdd ==
  ASSUME NEW seeds \in Seedings, NEW later \in Seedings
  PROVE  seeds \in SUBSET StorablePolicy /\ seeds \cup later \in Seedings
BY SeedsStorable DEF Seedings, SeedsCommitted, SeedParts

LEMMA VersionIs ==
  ASSUME NEW p \in PolicyVersions
  PROVE  \E w \in WrittenPolicies, seeds \in Seedings : p = Reseeded(w, seeds)
BY DEF PolicyVersions, Seedings

\* The versions a policy can have are storable; a policy as it is written is one; and
\* seeding makes one from another.
LEMMA Versions ==
  /\ PolicyVersions \subseteq StorablePolicy /\ WrittenPolicies \subseteq PolicyVersions
  /\ \A p \in PolicyVersions : \A seeds \in SeedsCommitted : Reseeded(p, seeds) \in PolicyVersions
<1>1. WrittenPolicies \subseteq StorablePolicy
  BY ExchangeAssumption DEF WrittenPolicies
<1>2. PolicyVersions \subseteq StorablePolicy
  BY <1>1, VersionIs, SeedingsAdd, ReseededParts
<1>3. ASSUME NEW p \in WrittenPolicies PROVE p \in PolicyVersions
  <2>1. p \in Policy
    BY <1>1 DEF StorablePolicy
  <2>2. Reseeded(p, {}) = p
    BY <2>1 DEF Reseeded, Policy
  <2> QED
    BY <2>2 DEF PolicyVersions
<1>4. ASSUME NEW p \in PolicyVersions, NEW later \in SeedsCommitted
      PROVE  Reseeded(p, later) \in PolicyVersions
  <2>1. PICK w \in WrittenPolicies, seeds \in Seedings : p = Reseeded(w, seeds)
    BY VersionIs
  <2>2. later \in Seedings
    BY DEF Seedings
  <2>3. Reseeded(p, later) = Reseeded(w, seeds \cup later) /\ seeds \cup later \in Seedings
    BY <1>1, <2>1, <2>2, SeedingsAdd, ReseededTwice
  <2> QED
    BY <2>3 DEF PolicyVersions, Seedings
<1> QED
  BY <1>2, <1>3, <1>4

\* Where versions are fixed, a policy that an operator writes is the only version of it.
LEMMA AdminVersions ==
  ASSUME VersionsFixed, NEW a \in AdminPolicies, NEW p \in PolicyVersions, p.id = a.id
  PROVE  p = a
<1>1. PICK w \in WrittenPolicies, seeds \in Seedings : p = Reseeded(w, seeds)
  BY VersionIs
<1>2. WrittenPolicies \subseteq StorablePolicy /\ a \in StorablePolicy /\ a \in Policy
  BY ExchangeAssumption DEF StorablePolicy, WrittenPolicies
<1>3. seeds \in SUBSET StorablePolicy
  BY SeedingsAdd
<1>4. w = a
  <2>1. w.id = a.id
    BY <1>1, <1>2, <1>3, ReseededParts
  <2> QED
    BY <2>1 DEF VersionsFixed
\* The seeds of its id are itself, or less.
<1>5. ASSUME NEW t \in seeds, t.id = a.id
      PROVE  /\ t.requiredRoles \subseteq a.requiredRoles
             /\ t.requiredCapabilities \subseteq a.requiredCapabilities
  <2>1. \A s \in CanonicalPolicies : s.id = a.id => s = a
    BY DEF VersionsFixed, WrittenPolicies
  <2>2. CASE t \in CanonicalPolicies
    BY <1>5, <2>1, <2>2
  <2>3. ASSUME NEW s \in CanonicalPolicies, t \in PartsOf(s)
        PROVE  /\ t.requiredRoles \subseteq a.requiredRoles
               /\ t.requiredCapabilities \subseteq a.requiredCapabilities
    <3>1. /\ t.id = s.id /\ t.requiredRoles \subseteq s.requiredRoles
          /\ t.requiredCapabilities \subseteq s.requiredCapabilities
      BY <2>3, PartOfSeed, ExchangeAssumption
    <3> QED
      BY <1>5, <2>1, <3>1
  <2> QED
    BY <2>2, <2>3 DEF Seedings, SeedsCommitted, SeedParts
<1>6. Reseeded(a, seeds) = a
  <2> DEFINE own == {s \in seeds : s.id = a.id}
             roles == a.requiredRoles \cup UNION {s.requiredRoles : s \in own}
             capabilities == a.requiredCapabilities
                               \cup UNION {s.requiredCapabilities : s \in own}
  <2>1. roles = a.requiredRoles /\ capabilities = a.requiredCapabilities
    BY <1>5
  <2>2. Reseeded(a, seeds)
          = [a EXCEPT !.requiredRoles = roles, !.requiredCapabilities = capabilities]
    BY DEF Reseeded
  <2> HIDE DEF roles, capabilities
  <2> QED
    BY <1>2, <2>1, <2>2 DEF Policy
<1> QED
  BY <1>1, <1>4, <1>6

LEMMA StandingTransitive ==
  \A p, q, s : SameStanding(p, q) /\ SameStanding(q, s) => SameStanding(p, s)
BY SameRouteTransitive DEF SameStanding

\* A policy in the tables keeps its standing and loses no capability, or it is gone for good.
LEMMA StandingMoves ==
  ASSUME IInv, VersionsFixed, policies \subseteq PolicyVersions, Seed \/ Administer
  PROVE  /\ policies' \subseteq PolicyVersions
         /\ \A id : Gone(id) => Gone(id)'
         /\ \A p \in policies :
              \/ Gone(p.id)'
              \/ \E q \in policies' :
                   SameStanding(q, p) /\ p.requiredCapabilities \subseteq q.requiredCapabilities
<1>1. \A p : SameStanding(p, p)
  BY DEF SameStanding, SameRoute
<1>2. \A p \in policies : p.id \in PolicyIDs /\ p \in StorablePolicy
  BY DEF IInv, RequestsOK, TypeOK, StorablePolicy, Policy
<1>3. CASE Seed
  <2>0. PICK seeds \in SeedsCommitted :
          /\ seeds \in SUBSET StorablePolicy
          /\ FreshSeeds(policies, seeds) \subseteq CanonicalPolicies
          /\ policies' = {Reseeded(p, seeds) : p \in policies} \cup FreshSeeds(policies, seeds)
    BY <1>3, SeedWrites
  <2> DEFINE re(p) == Reseeded(p, seeds)
             fresh == FreshSeeds(policies, seeds)
  <2>1. policies' = {re(p) : p \in policies} \cup fresh
    BY <2>0
  <2>2. fresh \subseteq CanonicalPolicies
    BY <2>0
  <2>3. \A p \in policies : /\ re(p) \in PolicyVersions
                            /\ re(p).id = p.id /\ SameStanding(re(p), p)
                            /\ p.requiredCapabilities \subseteq re(p).requiredCapabilities
    BY <1>2, <2>0, Versions, ReseededParts DEF SameStanding
  <2>4. CanonicalPolicies \subseteq PolicyVersions
    BY Versions DEF WrittenPolicies
  <2> HIDE DEF re, fresh
  <2>5. \A id : Gone(id) => Gone(id)'
    BY <2>1, <2>2, <2>3 DEF Gone
  <2> QED
    BY <2>1, <2>2, <2>3, <2>4, <2>5
<1>4. ASSUME NEW a \in AdminPolicies, AdminReplace(a)
      PROVE  policies' = policies \cup {a} /\ a \in PolicyVersions
  <2>1. policies' = {q \in policies : q.id # a.id} \cup {a}
    BY <1>4 DEF AdminReplace
  <2>2. \A q \in policies : q.id = a.id => q = a
    BY AdminVersions
  <2> QED
    BY <2>1, <2>2, Versions DEF WrittenPolicies
<1>5. ASSUME NEW a \in AdminPolicies, AdminReplace(a)
      PROVE  \A id : Gone(id) => Gone(id)'
  BY <1>4, <1>5 DEF Gone
<1>6. ASSUME NEW d \in policies, AdminDelete(d)
      PROVE  policies' = policies \ {d} /\ Gone(d.id)'
  <2>1. policies' = policies \ {d} /\ d.id \in Deletable
    BY <1>6 DEF AdminDelete
  <2>2. \A q \in policies : q.id = d.id => q = d
    BY DEF IInv, RequestsOK, TypeOK, UniquePolicies
  <2> QED
    BY <2>1, <2>2 DEF Gone, VersionsFixed
<1>7. ASSUME NEW d \in policies, AdminDelete(d)
      PROVE  \A id : Gone(id) => Gone(id)'
  BY <1>6, <1>7 DEF Gone
<1>8. CASE Administer
  BY <1>1, <1>4, <1>5, <1>6, <1>7, <1>8 DEF Administer
<1> QED
  BY <1>3, <1>8

\* The two list statements read the lists of the one policy with that id.
LEMMA ListsRead ==
  ASSUME IInv, NEW p \in policies
  PROVE  /\ ListPolicyRoles(policies, p.id) = p.requiredRoles
         /\ ListPolicyCapabilities(policies, p.id) = p.requiredCapabilities
<1>1. {q \in policies : q.id = p.id} = {p}
  BY DEF IInv, RequestsOK, TypeOK, UniquePolicies
<1> QED
  BY <1>1 DEF ListPolicyRoles, ListPolicyCapabilities
-----------------------------------------------------------------------------
(* What has been read of a policy, step by step. *)

ReadOK == \A r \in Requests : ReadAt(r)

LEMMA ReadStep ==
  ASSUME ReadOK, UNCHANGED <<policies, sent>>, NEW r \in Requests, ReadAt(r)',
         \A q \in Requests \ {r} : pc'[q] = pc[q] /\ draft'[q] = draft[q] /\ found'[q] = found[q]
  PROVE  ReadOK'
<1>1. ASSUME NEW q \in Requests \ {r} PROVE ReadAt(q)'
  BY <1>1 DEF ReadOK, ReadAt, Gone
<1> QED
  BY <1>1 DEF ReadOK

LEMMA ReadKept ==
  ASSUME ReadOK, UNCHANGED <<policies, draft, found>>,
         \A q \in Requests :
            /\ pc'[q] \in {"roles", "policyCapabilities"} => pc'[q] = pc[q]
            /\ pc'[q] \in Persisting \/ q \in sent' => pc[q] \in Persisting \/ q \in sent
  PROVE  ReadOK'
<1>1. ASSUME NEW q \in Requests PROVE ReadAt(q)'
  BY DEF ReadOK, ReadAt, Gone
<1> QED
  BY <1>1 DEF ReadOK

LEMMA ReadWriters ==
  ASSUME IInv, VersionsFixed, policies \subseteq PolicyVersions, ReadOK, Seed \/ Administer
  PROVE  ReadOK'
<1>1. UNCHANGED <<pc, draft, found, sent>>
  BY DEF Seed, Administer, AdminReplace, AdminDelete, locals
<1>2. /\ \A id : Gone(id) => Gone(id)'
      /\ \A p \in policies :
           \/ Gone(p.id)'
           \/ \E q \in policies' :
                SameStanding(q, p) /\ p.requiredCapabilities \subseteq q.requiredCapabilities
  BY StandingMoves
<1>3. ASSUME NEW r \in Requests PROVE ReadAt(r)'
  <2>1. ASSUME pc[r] = "roles"
        PROVE  Gone(found[r].id)' \/ \E q \in policies' : SameStanding(q, found[r])
    <3>1. CASE Gone(found[r].id)
      BY <1>2, <3>1, <1>1
    <3>2. ASSUME NEW p \in policies, SameStanding(p, found[r])
          PROVE  Gone(found[r].id)' \/ \E q \in policies' : SameStanding(q, found[r])
      <4>1. p.id = found[r].id
        BY <3>2 DEF SameStanding
      <4>2. CASE Gone(p.id)'
        BY <1>1, <4>1, <4>2
      <4>3. CASE \E q \in policies' : SameStanding(q, p)
        BY <3>2, <4>3, StandingTransitive
      <4> QED
        BY <1>2, <4>2, <4>3
    <3> QED
      BY <2>1, <3>1, <3>2 DEF ReadOK, ReadAt
  <2>2. ASSUME pc[r] = "policyCapabilities"
        PROVE  \/ Gone(found[r].id)'
               \/ \E q \in policies', version \in PolicyVersions :
                    /\ SameStanding(q, found[r]) /\ SameStanding(version, found[r])
                    /\ version.requiredRoles = found[r].requiredRoles
                    /\ version.requiredCapabilities \subseteq q.requiredCapabilities
    <3>1. CASE Gone(found[r].id)
      BY <1>2, <3>1, <1>1
    <3>2. ASSUME NEW p \in policies, NEW version \in PolicyVersions,
                 SameStanding(p, found[r]), SameStanding(version, found[r]),
                 version.requiredRoles = found[r].requiredRoles,
                 version.requiredCapabilities \subseteq p.requiredCapabilities
          PROVE  \/ Gone(found[r].id)'
                 \/ \E q \in policies' :
                      /\ SameStanding(q, found[r])
                      /\ version.requiredCapabilities \subseteq q.requiredCapabilities
      <4>1. p.id = found[r].id
        BY <3>2 DEF SameStanding
      <4>2. CASE Gone(p.id)'
        BY <1>1, <4>1, <4>2
      <4>3. ASSUME NEW q \in policies', SameStanding(q, p),
                   p.requiredCapabilities \subseteq q.requiredCapabilities
            PROVE  /\ SameStanding(q, found[r])
                   /\ version.requiredCapabilities \subseteq q.requiredCapabilities
        BY <3>2, <4>3, StandingTransitive
      <4> QED
        BY <1>2, <4>2, <4>3
    <3> QED
      BY <2>2, <3>1, <3>2 DEF ReadOK, ReadAt
  <2>3. ASSUME pc[r] \in Persisting \/ r \in sent
        PROVE  Gone(draft[r].matchedPolicyID)' \/ MeetsAVersion(draft[r])
    BY <1>1, <1>2, <2>3 DEF ReadOK, ReadAt
  <2> QED
    BY <1>1, <2>1, <2>2, <2>3 DEF ReadAt
<1> QED
  BY <1>3 DEF ReadOK

\* The step that makes a request's decision.
LEMMA ConcludeRead ==
  ASSUME IInv, ReadOK, UNCHANGED <<policies, sent>>,
         NEW r \in Requests, NEW row,
         pc' = [pc EXCEPT ![r] = "begin"], draft' = [draft EXCEPT ![r] = row],
         \A q \in Requests \ {r} : found'[q] = found[q],
         Gone(row.matchedPolicyID) \/ MeetsAVersion(row)
  PROVE  ReadOK'
<1>1. pc'[r] = "begin" /\ draft'[r] = row
  BY DEF IInv, RequestsOK, TypeOK
<1>2. \A id : Gone(id) => Gone(id)'
  BY DEF Gone
<1>3. ReadAt(r)'
  BY <1>1, <1>2 DEF ReadAt
<1>4. \A q \in Requests \ {r} :
        pc'[q] = pc[q] /\ draft'[q] = draft[q] /\ found'[q] = found[q]
  BY DEF IInv, RequestsOK, TypeOK
<1> QED
  BY <1>3, <1>4, ReadStep

LEMMA DenyRead ==
  ASSUME IInv, ReadOK, OutsideDatabase, UNCHANGED found,
         NEW r \in Requests, NEW here, NEW decision \in Row, decision.decision = "DENY",
         NEW denial, Deny(r, here, decision, denial)
  PROVE  ReadOK'
<1> DEFINE row == [decision EXCEPT !.denyReason = denial.reason]
<1>1. row.decision = "DENY"
  BY DEF Row
<1> HIDE DEF row
<1>2. /\ pc' = [pc EXCEPT ![r] = "begin"] /\ draft' = [draft EXCEPT ![r] = row]
      /\ UNCHANGED <<policies, sent, found>>
  BY DEF Deny, Goto, OutsideDatabase, database, row
<1>3. MeetsAVersion(row)
  BY <1>1 DEF MeetsAVersion
<1> QED
  BY <1>2, <1>3, ConcludeRead

\* Up to the policy lookup nothing has been read of a policy.
LEMMA EarlyRead ==
  ASSUME IInv, EvidenceOK, ReadOK, NEW r \in Requests,
         \/ DenyInvalid(r) \/ DenyUnconfigured(r) \/ Accept(r)
         \/ ResolveActorContext(r) \/ ListOrganizationCapabilities(r)
         \/ ResolveFails(r) \/ CapabilitiesFail(r)
  PROVE  ReadOK'
<1>1. ASSUME NEW i \in Inputs
      PROVE  LET decision == NewDecision(r, NormalizeAuthorizeRequest(i)) IN
             decision \in Row /\ decision.decision = "DENY"
  <2>1. NormalizeAuthorizeRequest(i) \in Input
    BY NormalizedInputType, ExchangeAssumption
  <2> QED
    BY <2>1, NewDecisionType
<1>2. CASE DenyInvalid(r) \/ DenyUnconfigured(r)
  BY <1>1, <1>2, DenyRead DEF DenyInvalid, DenyUnconfigured
<1>3. CASE ResolveFails(r) \/ CapabilitiesFail(r)
  <2>1. pc[r] \in Looking
    BY <1>3 DEF ResolveFails, CapabilitiesFail, Deny, Goto, Looking
  <2>2. draft[r] \in Row /\ draft[r].decision = "DENY"
    BY <2>1, Consulted
  <2> QED
    BY <1>3, <2>2, DenyRead DEF ResolveFails, CapabilitiesFail
<1>4. CASE Accept(r) \/ ResolveActorContext(r) \/ ListOrganizationCapabilities(r)
  <2>1. PICK there \in {"resolve", "capabilities", "find"} : pc' = [pc EXCEPT ![r] = there]
    BY <1>4 DEF Accept, ResolveActorContext, ListOrganizationCapabilities, Goto
  <2>2. UNCHANGED <<policies, sent, found>> /\ r \notin sent
    <3>1. StagedAt(r)
      BY DEF IInv, RequestsOK, StagedOK
    <3>2. pc[r] \notin {"committing", "reply", "done"}
      BY <1>4 DEF Accept, ResolveActorContext, ListOrganizationCapabilities, Goto
    <3> QED
      BY <1>4, <3>1, <3>2 DEF StagedAt, Accept, ResolveActorContext,
         ListOrganizationCapabilities, OutsideDatabase, database
  <2>3. pc'[r] = there
    BY <2>1 DEF IInv, RequestsOK, TypeOK
  <2>4. ReadAt(r)'
    BY <2>2, <2>3 DEF ReadAt, Persisting
  <2>5. PICK row : draft' = [draft EXCEPT ![r] = row]
    BY <1>4 DEF Accept, ResolveActorContext, ListOrganizationCapabilities
  <2>6. \A q \in Requests \ {r} :
          pc'[q] = pc[q] /\ draft'[q] = draft[q] /\ found'[q] = found[q]
    BY <2>1, <2>2, <2>5 DEF IInv, RequestsOK, TypeOK
  <2> QED
    BY <2>2, <2>4, <2>6, ReadStep
<1> QED
  BY <1>2, <1>3, <1>4

\* An ALLOW made of the roles of a version and of no fewer capabilities meets the version.
LEMMA VersionMet ==
  ASSUME NEW row \in Row, row.matchedPolicyID = "", NEW i \in EvaluationInput,
         i.actorRoles = row.actorRoles,
         i.organizationCapabilities = row.organizationCapabilities,
         NormalizeStringSlice(row.actorRoles) = row.actorRoles,
         NormalizeStringSlice(row.organizationCapabilities) = row.organizationCapabilities,
         SameRoute(i.policy, row),
         NEW version \in PolicyVersions, SameStanding(version, i.policy),
         version.requiredRoles = i.policy.requiredRoles,
         NEW p \in StorablePolicy, p.requiredCapabilities = i.policy.requiredCapabilities,
         version.requiredCapabilities \subseteq p.requiredCapabilities
  PROVE  MeetsAVersion(Concluded(row, Evaluate(i)))
<1> DEFINE concluded == Concluded(row, Evaluate(i))
           e == Evaluate(i)
<1>1. /\ concluded.target = row.target /\ concluded.method = row.method
      /\ concluded.route = row.route /\ concluded.operation = row.operation
      /\ concluded.actorRoles = row.actorRoles
      /\ concluded.organizationCapabilities = row.organizationCapabilities
      /\ concluded.decision = e.decision
      /\ concluded.matchedPolicyID = e.matchedPolicyID
  BY ConcludedParts
<1>2. e.decision = "ALLOW" =>
        /\ e.requiredRoles = {} \/ e.requiredRoles \cap row.actorRoles # {}
        /\ e.requiredCapabilities \subseteq row.organizationCapabilities
        /\ e.matchedPolicyID = i.policy.id
        /\ Fold(i.policy.status) = Plain("ACTIVE")
        /\ Fold(i.policy.effect) = Plain("ALLOW")
        /\ e.requiredRoles = NormalizeStringSlice(i.policy.requiredRoles)
        /\ e.requiredCapabilities = NormalizeStringSlice(i.policy.requiredCapabilities)
  BY VerdictJustified
<1> HIDE DEF concluded, e
<1>3. version \in StorablePolicy
  BY Versions
<1>4. Fold(version.status) = version.status /\ Fold(version.effect) = version.effect
  <2>1. \A w : Fold(Plain(w)) = Plain(w)
    BY FoldPlain, PlainWord, Zenon
  <2> QED
    BY <1>3, <2>1 DEF StorablePolicy
<1>5. /\ NormalizeStringSlice(i.policy.requiredRoles) = version.requiredRoles
      /\ NormalizeStringSlice(i.policy.requiredCapabilities) = p.requiredCapabilities
  BY <1>3, KnownSlices
<1>6. /\ version.id = i.policy.id /\ SameRoute(version, row)
      /\ version.status = i.policy.status /\ version.effect = i.policy.effect
  BY SameRouteTransitive DEF SameStanding
<1>7. SameRoute(version, concluded)
  BY <1>1, <1>6 DEF SameRoute
<1>8. ASSUME concluded.decision = "ALLOW" PROVE Meets(concluded, version)
  BY <1>1, <1>2, <1>4, <1>5, <1>6, <1>8 DEF Meets
<1>9. concluded.decision = "ALLOW" => version.id = concluded.matchedPolicyID
  BY <1>1, <1>2, <1>6
<1>10. MeetsAVersion(concluded)
  BY <1>7, <1>8, <1>9 DEF MeetsAVersion
<1> QED
  BY <1>10 DEF concluded, e

LEMMA LookupRead ==
  ASSUME IInv, EvidenceOK, VersionsFixed, policies \subseteq PolicyVersions, ReadOK,
         NEW r \in Requests,
         FindPolicy(r) \/ PolicyNotFound(r) \/ ReadRoles(r) \/ ReadCapabilities(r)
  PROVE  ReadOK'
<1>1. UNCHANGED <<policies, sent>>
  BY DEF FindPolicy, PolicyNotFound, ReadRoles, ReadCapabilities, OutsideDatabase, database
<1>2. pc[r] \in Looking /\ r \notin sent
  <2>1. pc[r] \in Looking
    BY DEF FindPolicy, PolicyNotFound, ReadRoles, ReadCapabilities, Goto, Looking
  <2>2. StagedAt(r)
    BY DEF IInv, RequestsOK, StagedOK
  <2> QED
    BY <2>1, <2>2 DEF StagedAt, Looking
<1>3. /\ draft[r] \in Row /\ request[r] \in Input /\ ConsultedAt(r)
  BY <1>2, Consulted
<1>4. ASSUME pc[r] \in {"roles", "policyCapabilities"}
      PROVE  found[r] \in Policy /\ SameRoute(found[r], draft[r])
  BY <1>4 DEF IInv, RequestsOK, LocalsOK, LocalsAt, EvidenceOK, EvidenceAt
<1>5. CASE FindPolicy(r)
  <2>1. PICK p \in Matching(r) : found' = [found EXCEPT ![r] = ScannedRow(p)]
    BY <1>5 DEF FindPolicy
  <2>2. /\ pc[r] = "find" /\ pc' = [pc EXCEPT ![r] = "roles"] /\ UNCHANGED draft
    BY <1>5 DEF FindPolicy, Goto
  <2>3. p \in policies /\ p \in Policy
    BY <2>2, Matched
  <2>4. SameStanding(p, ScannedRow(p))
    BY <2>3, ScannedParts DEF SameStanding, SameRoute
  <2>5. pc'[r] = "roles" /\ found'[r] = ScannedRow(p)
    BY <2>1, <2>2 DEF IInv, RequestsOK, TypeOK
  <2>6. ReadAt(r)'
    BY <1>1, <1>2, <2>3, <2>4, <2>5 DEF ReadAt, Persisting
  <2>7. \A q \in Requests \ {r} :
          pc'[q] = pc[q] /\ draft'[q] = draft[q] /\ found'[q] = found[q]
    BY <2>1, <2>2 DEF IInv, RequestsOK, TypeOK
  <2> QED
    BY <1>1, <2>6, <2>7, ReadStep
<1>6. CASE PolicyNotFound(r)
  <2> DEFINE i == EvaluationInputAt(r, Nil)
             row == Concluded(draft[r], Evaluate(i))
  <2>1. /\ i \in EvaluationInput /\ Evaluation(r, Nil) = Evaluate(i) /\ i.policy = Nil
        /\ i.actorRoles = draft[r].actorRoles
        /\ i.organizationCapabilities = draft[r].organizationCapabilities
    BY <1>3, EvaluationAt
  <2>2. /\ pc' = [pc EXCEPT ![r] = "begin"] /\ draft' = [draft EXCEPT ![r] = row]
        /\ UNCHANGED found
    BY <1>6, <2>1 DEF PolicyNotFound, Conclude, Goto
  <2> HIDE DEF i
  <2>3. Evaluate(i).decision # "ALLOW"
    BY <1>3, <2>1, VerdictJustified, NilAssumption DEF ConsultedAt
  <2>4. row.decision = Evaluate(i).decision
    BY <1>3, <2>1, ConcludedParts
  <2> HIDE DEF row
  <2>5. MeetsAVersion(row)
    BY <2>3, <2>4 DEF MeetsAVersion
  <2> QED
    BY <1>1, <2>2, <2>5, ConcludeRead
<1>7. CASE ReadRoles(r)
  <2> DEFINE policy == [found[r] EXCEPT !.requiredRoles = ListPolicyRoles(policies, found[r].id)]
  <2>1. /\ pc[r] = "roles" /\ pc' = [pc EXCEPT ![r] = "policyCapabilities"]
        /\ found' = [found EXCEPT ![r] = policy] /\ UNCHANGED draft
    BY <1>7 DEF ReadRoles, Goto
  <2>2. /\ policy.id = found[r].id
        /\ policy.target = found[r].target /\ policy.method = found[r].method
        /\ policy.route = found[r].route /\ policy.operation = found[r].operation
        /\ policy.status = found[r].status /\ policy.effect = found[r].effect
        /\ policy.requiredRoles = ListPolicyRoles(policies, found[r].id)
    BY <1>4, <2>1 DEF Policy
  <2> HIDE DEF policy
  <2>3. ASSUME NEW p \in policies, SameStanding(p, found[r])
        PROVE  SameStanding(p, policy) /\ p.requiredRoles = policy.requiredRoles
    <3>1. p.requiredRoles = ListPolicyRoles(policies, p.id)
      BY ListsRead
    <3> QED
      BY <2>2, <2>3, <3>1 DEF SameStanding, SameRoute
  <2>4. Gone(policy.id) \/ \E p \in policies : SameStanding(p, found[r])
    BY <2>1, <2>2 DEF ReadOK, ReadAt
  <2>5. pc'[r] = "policyCapabilities" /\ found'[r] = policy
    BY <2>1 DEF IInv, RequestsOK, TypeOK
  <2>6. \/ Gone(policy.id)
        \/ \E p \in policies, version \in PolicyVersions :
             /\ SameStanding(p, policy) /\ SameStanding(version, policy)
             /\ version.requiredRoles = policy.requiredRoles
             /\ version.requiredCapabilities \subseteq p.requiredCapabilities
    BY <2>3, <2>4
  <2>7. ReadAt(r)'
    BY <1>1, <1>2, <2>5, <2>6 DEF ReadAt, Persisting, Gone
  <2>8. \A q \in Requests \ {r} :
          pc'[q] = pc[q] /\ draft'[q] = draft[q] /\ found'[q] = found[q]
    BY <2>1 DEF IInv, RequestsOK, TypeOK
  <2> QED
    BY <1>1, <2>7, <2>8, ReadStep
<1>8. CASE ReadCapabilities(r)
  <2> DEFINE policy == [found[r] EXCEPT
                          !.requiredCapabilities = ListPolicyCapabilities(policies, found[r].id)]
             i == EvaluationInputAt(r, policy)
             row == Concluded(draft[r], Evaluate(i))
  <2>1. /\ pc[r] = "policyCapabilities"
        /\ found' = [found EXCEPT ![r] = policy]
        /\ Conclude(r, "policyCapabilities", Evaluation(r, found'[r]))
    BY <1>8 DEF ReadCapabilities
  <2>2. found[r] \in Policy /\ SameRoute(found[r], draft[r])
    BY <1>4, <2>1
  <2>3. ListPolicyCapabilities(policies, found[r].id) \in SUBSET Text
    BY <2>2, ListTypes DEF Policy, IInv
  <2>4. /\ policy \in Policy /\ policy.id = found[r].id
        /\ policy.target = found[r].target /\ policy.method = found[r].method
        /\ policy.route = found[r].route /\ policy.operation = found[r].operation
        /\ policy.status = found[r].status /\ policy.effect = found[r].effect
        /\ policy.requiredRoles = found[r].requiredRoles
        /\ policy.requiredCapabilities = ListPolicyCapabilities(policies, found[r].id)
    BY <2>2, <2>3 DEF Policy
  <2> HIDE DEF policy
  <2>5. found'[r] = policy /\ \A q \in Requests \ {r} : found'[q] = found[q]
    BY <2>1 DEF IInv, RequestsOK, TypeOK
  <2>6. /\ i \in EvaluationInput /\ Evaluation(r, policy) = Evaluate(i)
        /\ i.policy = policy /\ i.actorRoles = draft[r].actorRoles
        /\ i.organizationCapabilities = draft[r].organizationCapabilities
    BY <1>3, <2>4, EvaluationAt
  <2>7. /\ pc' = [pc EXCEPT ![r] = "begin"] /\ draft' = [draft EXCEPT ![r] = row]
    BY <2>1, <2>5, <2>6 DEF Conclude, Goto
  <2> HIDE DEF i
  <2>8. SameRoute(policy, draft[r])
    BY <2>2, <2>4 DEF SameRoute
  <2>9. ASSUME Gone(found[r].id) PROVE Gone(row.matchedPolicyID) \/ MeetsAVersion(row)
    <3>1. /\ Evaluate(i).decision = "ALLOW" => Evaluate(i).matchedPolicyID # ""
          /\ Evaluate(i).matchedPolicyID # "" => Evaluate(i).matchedPolicyID = policy.id
      BY <1>3, <2>6, VerdictJustified DEF ConsultedAt
    <3>2. /\ row.decision = Evaluate(i).decision
          /\ row.matchedPolicyID = Evaluate(i).matchedPolicyID
      BY <1>3, <2>6, ConcludedParts
    <3> HIDE DEF row
    <3> QED
      BY <2>4, <2>9, <3>1, <3>2 DEF MeetsAVersion
  <2>10. ASSUME NEW p \in policies, NEW version \in PolicyVersions,
                SameStanding(p, found[r]), SameStanding(version, found[r]),
                version.requiredRoles = found[r].requiredRoles,
                version.requiredCapabilities \subseteq p.requiredCapabilities
         PROVE  MeetsAVersion(row)
    <3>1. ListPolicyCapabilities(policies, p.id) = p.requiredCapabilities
      BY ListsRead
    <3>2. p.requiredCapabilities = policy.requiredCapabilities
      BY <2>4, <2>10, <3>1 DEF SameStanding
    <3>3. SameStanding(version, policy) /\ version.requiredRoles = policy.requiredRoles
      BY <2>4, <2>10 DEF SameStanding, SameRoute
    <3>4. p \in StorablePolicy
      BY DEF IInv, RequestsOK, TypeOK
    <3> QED
      BY <1>3, <2>6, <2>8, <2>10, <3>2, <3>3, <3>4, VersionMet DEF ConsultedAt
  <2>11. Gone(row.matchedPolicyID) \/ MeetsAVersion(row)
    BY <2>1, <2>9, <2>10 DEF ReadOK, ReadAt
  <2> QED
    BY <1>1, <2>5, <2>7, <2>11, ConcludeRead
<1> QED
  BY <1>5, <1>6, <1>7, <1>8

\* The steps that read nothing and decide nothing.
LEMMA LaterRead ==
  ASSUME IInv, ReadOK, [Next]_vars, ~(Seed \/ Administer),
         ~\E r \in Requests :
             \/ DenyInvalid(r) \/ DenyUnconfigured(r) \/ Accept(r)
             \/ ResolveActorContext(r) \/ ListOrganizationCapabilities(r)
             \/ ResolveFails(r) \/ CapabilitiesFail(r)
             \/ FindPolicy(r) \/ PolicyNotFound(r) \/ ReadRoles(r) \/ ReadCapabilities(r)
  PROVE  ReadOK'
<1>1. UNCHANGED policies
  BY WritersOfPolicies
<1>2. CASE UNCHANGED vars
  BY <1>2, ReadKept DEF vars, locals, database
<1>3. CASE Crash
  <2>1. \A q \in Requests : pc'[q] \in {pc[q], "done"}
    BY <1>3 DEF Crash
  <2> QED
    BY <1>1, <1>3, <2>1, ReadKept DEF Crash, locals, Persisting
<1>4. ASSUME NEW r \in Requests, NEW there \in PCs \ Looking,
             pc' = [pc EXCEPT ![r] = there], UNCHANGED <<draft, found>>,
             there \in Persisting \/ r \in sent' => pc[r] \in Persisting \/ r \in sent,
             \A q \in Requests \ {r} : q \in sent' => q \in sent
      PROVE  ReadOK'
  <2>1. \A q \in Requests : pc'[q] = IF q = r THEN there ELSE pc[q]
    BY <1>4 DEF IInv, RequestsOK, TypeOK
  <2>2. there \notin {"roles", "policyCapabilities"}
    BY <1>4 DEF Looking
  <2> QED
    BY <1>1, <1>4, <2>1, <2>2, ReadKept
<1>5. ASSUME NEW r \in Requests,
             \/ RejectMalformed(r) \/ Begin(r) \/ InsertDecision(r) \/ InsertAudit(r)
             \/ SendCommit(r) \/ Committed(r) \/ CommitFails(r)
             \/ StatementFails(r) \/ TransactionFails(r) \/ Reply(r) \/ ReplyLost(r)
      PROVE  ReadOK'
  <2>1. PICK there \in {"insert", "audit", "commit", "committing", "reply", "done"} :
          pc' = [pc EXCEPT ![r] = there]
    BY <1>5 DEF RejectMalformed, Begin, InsertDecision, InsertAudit, SendCommit, Committed,
                CommitFails, StatementFails, TransactionFails, Reply, ReplyLost, ReturnError, Goto
  <2>2. UNCHANGED <<draft, found>>
    BY <1>5 DEF RejectMalformed, Begin, InsertDecision, InsertAudit, SendCommit, Committed,
                CommitFails, StatementFails, TransactionFails, Reply, ReplyLost, ReturnError,
                locals
  <2>3. /\ sent' \subseteq sent \cup {r}
        /\ there \in Persisting \/ r \in sent' => pc[r] \in Persisting \/ r \in sent
    BY <1>5, <2>1
    DEF RejectMalformed, Begin, InsertDecision, InsertAudit, SendCommit, Committed,
        CommitFails, StatementFails, TransactionFails, Reply, ReplyLost, ReturnError, Goto,
        Persisting, OutsideDatabase, IInv, RequestsOK, TypeOK
  <2>4. there \in PCs \ Looking
    BY DEF PCs, Looking
  <2> QED
    BY <1>4, <2>1, <2>2, <2>3, <2>4
<1>6. ASSUME NEW r \in Requests, Disconnect(r) \/ ServerCommits(r) \/ ServerAborts(r)
      PROVE  ReadOK'
  BY <1>1, <1>6, ReadKept DEF Disconnect, ServerCommits, ServerAborts, locals, Persisting
<1> QED
  BY <1>2, <1>3, <1>5, <1>6 DEF Next, Handle, Terminated

LEMMA NextRead ==
  ASSUME IInv, EvidenceOK, VersionsFixed, policies \subseteq PolicyVersions, ReadOK, [Next]_vars
  PROVE  ReadOK'
BY EarlyRead, LookupRead, ReadWriters, LaterRead
-----------------------------------------------------------------------------
\* A row sent for commit names a policy that is not gone: the foreign key holds it.
LEMMA SentMeetsAVersion ==
  ASSUME IInv, EvidenceInv, ReadOK, NEW r \in sent
  PROVE  MeetsAVersion(draft[r])
<1>1. r \in Requests /\ StagedAt(r)
  BY DEF IInv, RequestsOK, TypeOK, StagedOK
<1>2. draft[r] \in WrittenRows
  BY <1>1 DEF StagedAt, WrittenRows
<1>3. draft[r].matchedPolicyID # "" => ~Gone(draft[r].matchedPolicyID)
  BY <1>2 DEF EvidenceInv, ReferencesKept, MatchedPolicyStored, Gone
<1>4. draft[r].decision = "ALLOW" => draft[r].matchedPolicyID # ""
  BY <1>1 DEF EvidenceInv, EvidenceOK, EvidenceAt, Evident, Justified
<1>5. Gone(draft[r].matchedPolicyID) \/ MeetsAVersion(draft[r])
  BY <1>1 DEF ReadOK, ReadAt
<1> QED
  BY <1>3, <1>4, <1>5 DEF MeetsAVersion

LEMMA NextOneVersion ==
  ASSUME VersionsFixed
  PROVE  IInv /\ EvidenceInv /\ OneVersionInv /\ [Next]_vars => OneVersionInv'
<1> SUFFICES ASSUME IInv, EvidenceInv, OneVersionInv, [Next]_vars PROVE OneVersionInv'
  OBVIOUS
<1>1. ReadOK /\ policies \subseteq PolicyVersions /\ EvidenceOK
  BY DEF OneVersionInv, ReadOK, EvidenceInv
<1>2. ReadOK'
  BY <1>1, NextRead
<1>3. policies' \subseteq PolicyVersions
  BY <1>1, StandingMoves, WritersOfPolicies
<1>4. \A row \in decisions' : MeetsAVersion(row)
  BY <1>1, Appended, SentMeetsAVersion DEF OneVersionInv
<1> QED
  BY <1>2, <1>3, <1>4 DEF OneVersionInv, ReadOK

LEMMA InitOneVersion == Init => OneVersionInv
<1> SUFFICES ASSUME Init PROVE OneVersionInv
  OBVIOUS
<1>1. policies \subseteq PolicyVersions
  BY Versions DEF Init, WrittenPolicies
<1>2. \A r \in Requests : ReadAt(r)
  BY DEF Init, ReadAt, Persisting
<1> QED
  BY <1>1, <1>2 DEF Init, OneVersionInv

\* What the three SELECTs of FindByRoute have read of a policy is, at every point, of one
\* version of it or of a policy that is gone, if operators only add and delete policies.
THEOREM OneVersionHolds ==
  ASSUME VersionsFixed PROVE Spec => []OneVersionInv
BY InitOneVersion, NextOneVersion, InvariantHolds, EvidenceHolds, PTL DEF Spec

\* An ALLOW on record meets one version of the policy it names: reseeding and deleting
\* between the three SELECTs never yield an ALLOW made of two versions. That operators do
\* not rewrite a policy in place is needed: with AdminReplace of a changed policy, it fails.
THEOREM AllowFromOneVersion ==
  ASSUME VersionsFixed PROVE Spec => []AllowMeetsOneVersion
<1>1. OneVersionInv => AllowMeetsOneVersion
  BY DEF OneVersionInv, MeetsAVersion, AllowMeetsOneVersion
<1> QED
  BY <1>1, OneVersionHolds, PTL
=============================================================================
