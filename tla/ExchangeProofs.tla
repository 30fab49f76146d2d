---------------------------- MODULE ExchangeProofs ----------------------------
(***************************************************************************)
(* Proofs about the authorize endpoint, for any number of requests, any    *)
(* pool size and any policies, inputs and answers of TaifaID.              *)
(***************************************************************************)
EXTENDS ExchangeInvariant, FiniteSetTheorems, TLAPS

(* What the helpers return. *)

LEMMA PlainType == ASSUME NEW w \in Words PROVE Plain(w) \in Text
BY DEF Plain, Text

LEMMA TrimType == ASSUME NEW t \in Text PROVE TrimSpace(t) \in Text
BY DEF TrimSpace, Text

LEMMA FoldType == ASSUME NEW t \in Text PROVE Fold(t) \in Text
BY DEF Fold, ToUpper, TrimSpace, Text

LEMMA NormalizeStringSliceType ==
  ASSUME NEW values \in SUBSET Text PROVE NormalizeStringSlice(values) \in SUBSET Text
BY FoldType DEF NormalizeStringSlice

\* A normalised request is again a request.
LEMMA NormalizedInputType ==
  ASSUME NEW i \in Input PROVE NormalizeAuthorizeRequest(i) \in Input
<1>1. TrimSpace(i.org) \in Text /\ Fold(i.target) \in Text /\ Fold(i.method) \in Text
      /\ TrimSpace(i.route) \in Text /\ TrimSpace(i.operation) \in Text
  BY TrimType, FoldType DEF Input
<1> QED
  BY <1>1 DEF NormalizeAuthorizeRequest, Input

LEMMA NewDecisionType ==
  ASSUME NEW r \in Requests, NEW i \in Input
  PROVE  /\ NewDecision(r, i) \in Row
         /\ NewDecision(r, i).id = r
         /\ NewDecision(r, i).decision = "DENY"
<1>1. Plain("UNKNOWN") \in Text
  BY PlainType, WordsAssumption
<1>2. ASSUME NEW t \in Text
      PROVE  /\ NormalizeTargetSystemForDecision(t) \in Text
             /\ NormalizeMethodForDecision(t) \in Text
             /\ NormalizeForDecision(t) \in Text
  BY <1>1, FoldType, TrimType
  DEF NormalizeTargetSystemForDecision, NormalizeMethodForDecision, NormalizeForDecision
<1>3. /\ NormalizeTargetSystemForDecision(i.target) \in Text
      /\ NormalizeMethodForDecision(i.method) \in Text
      /\ NormalizeForDecision(i.route) \in Text
      /\ NormalizeForDecision(i.operation) \in Text
      /\ NormalizeForDecision(i.org) \in Text
  BY <1>2 DEF Input
<1>4. {} \in SUBSET Text /\ "" \in DenyReasons
  BY DEF DenyReasons, EvaluationDenyReasons
<1> QED
  BY <1>3, <1>4, Zenon DEF NewDecision, Row

LEMMA CollectActorRolesType ==
  ASSUME NEW actor \in ActorContext PROVE CollectActorRoles(actor) \in SUBSET Text
<1>1. actor.roles \cup UNION actor.memberships \in SUBSET Text
  BY DEF ActorContext
<1> QED
  BY <1>1, NormalizeStringSliceType DEF CollectActorRoles

LEMMA ScannedRowType == ASSUME NEW p \in Policy PROVE ScannedRow(p) \in Policy
BY DEF ScannedRow, Policy

\* What Evaluate leaves in the decision record.
LEMMA EvaluateType ==
  ASSUME NEW i \in EvaluationInput
  PROVE  /\ Evaluate(i).decision \in {"ALLOW", "DENY"}
         /\ Evaluate(i).denyReason \in DenyReasons
         /\ Evaluate(i).matchedPolicyID \in PolicyIDs \cup {""}
         /\ Evaluate(i).requiredRoles \in SUBSET Text
         /\ Evaluate(i).requiredCapabilities \in SUBSET Text
<1>1. DenyReason(i) \in DenyReasons
  BY DEF DenyReason, AllowPolicyDenyReason, DenyReasons, EvaluationDenyReasons
<1>2. PolicyConsulted(i) => /\ i.policy.id \in PolicyIDs
                            /\ NormalizeStringSlice(i.policy.requiredRoles) \in SUBSET Text
                            /\ NormalizeStringSlice(i.policy.requiredCapabilities) \in SUBSET Text
  <2>1. PolicyConsulted(i) => i.policy \in Policy
    BY DEF PolicyConsulted, EvaluationInput
  <2> QED
    BY <2>1, NormalizeStringSliceType DEF Policy
<1>3. /\ Evaluate(i).decision = IF DenyReason(i) = "" THEN "ALLOW" ELSE "DENY"
      /\ Evaluate(i).denyReason = DenyReason(i)
      /\ Evaluate(i).matchedPolicyID = IF PolicyConsulted(i) THEN i.policy.id ELSE ""
      /\ Evaluate(i).requiredRoles = IF PolicyConsulted(i)
           THEN NormalizeStringSlice(i.policy.requiredRoles) ELSE {}
      /\ Evaluate(i).requiredCapabilities = IF PolicyConsulted(i)
           THEN NormalizeStringSlice(i.policy.requiredCapabilities) ELSE {}
  BY Zenon DEF Evaluate
<1> QED
  BY <1>1, <1>2, <1>3

LEMMA ConcludedType ==
  ASSUME NEW row \in Row, NEW i \in EvaluationInput
  PROVE  /\ Concluded(row, Evaluate(i)) \in Row
         /\ Concluded(row, Evaluate(i)).id = row.id
         /\ Concluded(row, Evaluate(i)).decision = Evaluate(i).decision
BY EvaluateType DEF Concluded, Row

LEMMA AuditEventType ==
  ASSUME NEW row \in Row
  PROVE  /\ AuditEventForResult(row) \in DecisionEvent
         /\ AuditEventForResult(row).type # "exchange.policy.seeded"
         /\ AuditEventForResult(row).resource = row.id
         /\ Describes(AuditEventForResult(row), row)
<1>1. /\ AuditEventForResult(row).type = EventType(row)
      /\ AuditEventForResult(row).resource = row.id
      /\ AuditEventForResult(row).actor = row.person
      /\ AuditEventForResult(row).subject = row.org
      /\ AuditEventForResult(row).result
           = IF row.decision = "ALLOW" THEN "ALLOWED" ELSE "DENIED"
      /\ AuditEventForResult(row).payload = row
  BY Zenon DEF AuditEventForResult
<1>2. EventType(row) \in {"exchange.authorization.allowed", "exchange.authorization.denied",
           "exchange.actor_context.resolve_failed", "exchange.policy.not_found"}
  BY DEF EventType
<1>3. AuditEventForResult(row) \in DecisionEvent
  BY <1>2 DEF AuditEventForResult, DecisionEvent, Row
<1> QED
  BY <1>1, <1>2, <1>3 DEF Describes

LEMMA ResponseType ==
  ASSUME NEW out \in Outcome, NEW row \in Row \cup {Nil}
  PROVE  ResponseFor(out, row) \in Response
<1>1. (IF out.status = 200 THEN row ELSE Nil) \in Row \cup {Nil}
  OBVIOUS
<1>2. out.status \in Statuses /\ out.code \in Codes
  BY DEF Outcome
<1>3. ASSUME NEW body \in Row \cup {Nil}
      PROVE  [status |-> out.status, code |-> out.code, body |-> body] \in Response
  BY <1>2 DEF Response
<1> QED
  BY <1>1, <1>3, Zenon DEF ResponseFor

\* A literal outcome is one.
LEMMA OutcomeTypes ==
  /\ NoOutcome \in Outcome /\ Internal \in Outcome
  /\ [status |-> 200, code |-> ""] \in Outcome
  /\ [status |-> 400, code |-> "INVALID_JSON"] \in Outcome
  /\ [status |-> 403, code |-> "FORBIDDEN"] \in Outcome
BY DEF NoOutcome, Internal, Outcome, Statuses, Codes, DenialCodes, FailureCodes

LEMMA ResponseTypes == NoResponse \in Response /\ LostResponse \in Response
BY DEF NoResponse, LostResponse, Response, Statuses, Codes, FailureCodes

\* The denials of Authorize: a reason of the row, and the status and code of a denial.
DenialType == [reason : DenyReasons, status : {400, 401, 502, 503}, code : DenialCodes]

LEMMA DenialTypes ==
  /\ Denial("taifa_id_client_not_configured", 503, "UPSTREAM_UNAVAILABLE") \in DenialType
  /\ Denial("actor_context_resolve_failed", 401, "UNAUTHORIZED") \in DenialType
  /\ Denial("organization_capabilities_lookup_failed", 502, "UPSTREAM_UNAVAILABLE")
       \in DenialType
BY DEF Denial, DenialType, DenyReasons, DenialCodes

LEMMA ValidationType ==
  ASSUME NEW i \in Input, ValidateRequestForAuthorization(i) # NoDenial
  PROVE  ValidateRequestForAuthorization(i) \in DenialType
<1> DEFINE invalid(reason) == Denial(reason, 400, "VALIDATION_ERROR")
<1>1. /\ Denial("missing_token", 401, "UNAUTHORIZED") \in DenialType
      /\ \A reason \in {"missing_organization_id", "missing_target_system",
           "unsupported_target_system", "missing_method", "unsupported_method",
           "missing_route", "missing_operation"} : invalid(reason) \in DenialType
  BY DEF Denial, DenialType, DenyReasons, EvaluationDenyReasons, DenialCodes
<1> HIDE DEF invalid
<1>2. ValidateRequestForAuthorization(i) \in
        {Denial("missing_token", 401, "UNAUTHORIZED"), NoDenial,
         invalid("missing_organization_id"), invalid("missing_target_system"),
         invalid("unsupported_target_system"), invalid("missing_method"),
         invalid("unsupported_method"), invalid("missing_route"), invalid("missing_operation")}
  BY DEF ValidateRequestForAuthorization, invalid
<1> QED
  BY <1>1, <1>2

\* A denial leaves a decision record a denial, with its reason and its outcome.
LEMMA DeniedType ==
  ASSUME NEW row \in Row, row.decision = "DENY", NEW denial \in DenialType
  PROVE  /\ [row EXCEPT !.denyReason = denial.reason] \in Row
         /\ [row EXCEPT !.denyReason = denial.reason].id = row.id
         /\ [row EXCEPT !.denyReason = denial.reason].decision = "DENY"
         /\ [status |-> denial.status, code |-> denial.code] \in Outcome
         /\ denial.status \notin {0, 200} /\ denial.code \notin FailureCodes
<1>1. denial.reason \in DenyReasons
  BY DEF DenialType
<1>2. denial.status \notin {0, 200} /\ denial.code \notin FailureCodes
  BY DEF DenialType, DenialCodes, FailureCodes
<1>3. [status |-> denial.status, code |-> denial.code] \in Outcome
  <2>1. denial.status \in Statuses
    BY DEF DenialType, Statuses
  <2>2. denial.code \in Codes
    BY DEF DenialType, Codes
  <2> QED
    BY <2>1, <2>2 DEF Outcome
<1> QED
  BY <1>1, <1>2, <1>3 DEF Row
-----------------------------------------------------------------------------
(* The invariant holds at the start. *)

LEMMA InitRequestsOK == Init => RequestsOK
<1> SUFFICES ASSUME Init PROVE RequestsOK
  OBVIOUS
<1>1. TypeOK
  <2>1. config \in Configuration /\ policies \subseteq StorablePolicy /\ UniquePolicies(policies)
    BY ExchangeAssumption DEF Init
  <2>2. pc \in [Requests -> PCs]
    BY DEF Init, PCs
  <2>3. outcome \in [Requests -> Outcome] /\ response \in [Requests -> Response]
    BY OutcomeTypes, ResponseTypes DEF Init
  <2>4. staged \in [Requests -> [rows : SUBSET Row, events : SUBSET DecisionEvent]]
    BY DEF Init, NothingStaged
  <2> QED
    BY <2>1, <2>2, <2>3, <2>4 DEF Init, TypeOK
<1>2. LocalsOK /\ StagedOK
  BY DEF Init, LocalsOK, LocalsAt, StagedOK, StagedAt, NothingStaged, Looking, Persisting
<1>3. LedgerAudited /\ UnrecordedOK
  BY DEF Init, LedgerAudited, DecisionEvents, UnrecordedOK, UnrecordedAt, RowsOf, EventsOf
<1>4. OutcomeOK
  BY DEF Init, OutcomeOK, OutcomeAt, Persisting
<1> QED
  BY <1>1, <1>2, <1>3, <1>4 DEF RequestsOK
-----------------------------------------------------------------------------
(* A step of one request that leaves the tables alone: the other requests do not move, so
   the invariant is about this request alone. *)

LEMMA RequestStep ==
  ASSUME RequestsOK,
         NEW r \in Requests, NEW there \in PCs,
         pc[r] \in {"committing", "reply", "done"} =>
           there \in {"committing", "reply", "done"} /\ (r \in sent' => r \in sent),
         pc' = [pc EXCEPT ![r] = there],
         UNCHANGED <<config, policies, decisions, outbox>>,
         request' \in [Requests -> Input \cup {Nil}],
         draft' \in [Requests -> Row \cup {Nil}],
         found' \in [Requests -> Policy \cup {Nil}],
         outcome' \in [Requests -> Outcome],
         staged' \in [Requests -> [rows : SUBSET Row, events : SUBSET DecisionEvent]],
         sent' \subseteq Requests, holding' \subseteq Requests, cancelled' \subseteq Requests,
         response' \in [Requests -> Response],
         \A q \in Requests \ {r} : /\ request'[q] = request[q] /\ draft'[q] = draft[q]
                                   /\ found'[q] = found[q] /\ outcome'[q] = outcome[q]
                                   /\ staged'[q] = staged[q] /\ response'[q] = response[q]
                                   /\ q \in sent' <=> q \in sent,
         LocalsAt(r)', StagedAt(r)', OutcomeAt(r)'
  PROVE  RequestsOK'
<1> USE DEF RequestsOK
<1>1. TypeOK'
  BY DEF TypeOK, UniquePolicies
<1>2. ASSUME NEW q \in Requests \ {r}
      PROVE  pc'[q] = pc[q]
  BY DEF TypeOK
<1>3. pc'[r] = there
  BY DEF TypeOK
<1>4. LocalsOK'
  <2>1. ASSUME NEW q \in Requests \ {r} PROVE LocalsAt(q)'
    BY <1>2, <2>1 DEF LocalsOK, LocalsAt
  <2> QED
    BY <2>1 DEF LocalsOK
<1>5. StagedOK'
  <2>1. ASSUME NEW q \in Requests \ {r} PROVE StagedAt(q)'
    BY <1>2, <2>1 DEF StagedOK, StagedAt
  <2> QED
    BY <2>1 DEF StagedOK
<1>6. \A q \in Requests : RowsOf(q)' = RowsOf(q) /\ EventsOf(q)' = EventsOf(q)
  BY DEF RowsOf, EventsOf, DecisionEvents
<1>7. UnrecordedOK'
  <2>1. ASSUME NEW q \in Requests \ {r} PROVE UnrecordedAt(q)'
    BY <1>2, <1>6, <2>1 DEF UnrecordedOK, UnrecordedAt
  <2>2. UnrecordedAt(r)'
    BY <1>3, <1>6 DEF UnrecordedOK, UnrecordedAt
  <2> QED
    BY <2>1, <2>2 DEF UnrecordedOK
<1>8. LedgerAudited'
  BY DEF LedgerAudited, DecisionEvents
<1>9. OutcomeOK'
  <2>1. ASSUME NEW q \in Requests \ {r} PROVE OutcomeAt(q)'
    BY <1>2, <1>6, <2>1 DEF OutcomeOK, OutcomeAt, RecordedFor, ToldBy
  <2> QED
    BY <2>1 DEF OutcomeOK
<1> QED
  BY <1>1, <1>4, <1>5, <1>7, <1>8, <1>9

\* The case of a step outside the transaction.
LEMMA QuietStep ==
  ASSUME RequestsOK, OutsideDatabase,
         NEW r \in Requests, NEW there \in PCs \ {"audit", "commit", "committing", "done"},
         pc[r] \notin {"audit", "commit", "committing", "reply", "done"},
         pc' = [pc EXCEPT ![r] = there],
         request' \in [Requests -> Input \cup {Nil}],
         draft' \in [Requests -> Row \cup {Nil}],
         found' \in [Requests -> Policy \cup {Nil}],
         outcome' \in [Requests -> Outcome],
         \A q \in Requests \ {r} : /\ request'[q] = request[q] /\ draft'[q] = draft[q]
                                   /\ found'[q] = found[q] /\ outcome'[q] = outcome[q],
         LocalsAt(r)', OutcomeAt(r)'
  PROVE  RequestsOK'
<1>1. UNCHANGED <<config, policies, decisions, outbox, staged, sent, holding, cancelled, response>>
  BY DEF OutsideDatabase, database
<1>2. /\ staged' \in [Requests -> [rows : SUBSET Row, events : SUBSET DecisionEvent]]
      /\ sent' \subseteq Requests /\ holding' \subseteq Requests /\ cancelled' \subseteq Requests
      /\ response' \in [Requests -> Response]
  BY <1>1 DEF RequestsOK, TypeOK
<1>3. StagedAt(r)'
  BY <1>1 DEF RequestsOK, TypeOK, StagedOK, StagedAt
<1> QED
  BY <1>1, <1>2, <1>3, RequestStep

\* The three ways to a denial before the policy is looked up.
LEMMA DenyStep ==
  ASSUME RequestsOK, OutsideDatabase, UNCHANGED <<request, found>>,
         NEW r \in Requests, NEW here \in {"idle", "resolve", "capabilities"},
         NEW decision \in Row, decision.id = r, decision.decision = "DENY",
         NEW denial \in DenialType,
         Deny(r, here, decision, denial)
  PROVE  RequestsOK'
<1> DEFINE row == [decision EXCEPT !.denyReason = denial.reason]
           out == [status |-> denial.status, code |-> denial.code]
<1>1. /\ row \in Row /\ row.id = r /\ row.decision = "DENY"
      /\ out \in Outcome
      /\ out.status \notin {0, 200} /\ out.code \notin FailureCodes
  BY DeniedType
<1>2. /\ pc[r] = here /\ pc' = [pc EXCEPT ![r] = "begin"]
      /\ draft' = [draft EXCEPT ![r] = row] /\ outcome' = [outcome EXCEPT ![r] = out]
  BY DEF Deny, Goto
<1> HIDE DEF row, out
<1>3. draft' \in [Requests -> Row \cup {Nil}] /\ outcome' \in [Requests -> Outcome]
  BY <1>1, <1>2 DEF RequestsOK, TypeOK
<1>4. pc'[r] = "begin" /\ draft'[r] = row /\ outcome'[r] = out /\ response'[r] = NoResponse
  BY <1>2 DEF RequestsOK, TypeOK, OutcomeOK, OutcomeAt, OutsideDatabase
<1>5. LocalsAt(r)'
  BY <1>1, <1>4 DEF LocalsAt, Looking
<1>6. OutcomeAt(r)'
  BY <1>1, <1>4 DEF OutcomeAt
<1>7. \A q \in Requests \ {r} : /\ request'[q] = request[q] /\ draft'[q] = draft[q]
                                /\ found'[q] = found[q] /\ outcome'[q] = outcome[q]
  BY <1>2 DEF RequestsOK, TypeOK
<1>8. request' \in [Requests -> Input \cup {Nil}] /\ found' \in [Requests -> Policy \cup {Nil}]
  BY DEF RequestsOK, TypeOK
<1>9. "begin" \in PCs \ {"audit", "commit", "committing", "done"}
  BY DEF PCs
<1> QED
  BY <1>2, <1>3, <1>5, <1>6, <1>7, <1>8, <1>9, QuietStep

\* The decision follows the evaluator.
LEMMA ConcludeStep ==
  ASSUME RequestsOK, OutsideDatabase, UNCHANGED request,
         found' \in [Requests -> Policy \cup {Nil}],
         NEW r \in Requests, NEW here \in {"find", "policyCapabilities"},
         \A q \in Requests \ {r} : found'[q] = found[q],
         NEW i \in EvaluationInput,
         Conclude(r, here, Evaluate(i))
  PROVE  RequestsOK'
<1> DEFINE row == Concluded(draft[r], Evaluate(i))
           out == IF Evaluate(i).decision = "ALLOW" THEN [status |-> 200, code |-> ""]
                  ELSE [status |-> 403, code |-> "FORBIDDEN"]
<1>1. /\ pc[r] = here /\ pc' = [pc EXCEPT ![r] = "begin"]
      /\ draft' = [draft EXCEPT ![r] = row] /\ outcome' = [outcome EXCEPT ![r] = out]
  BY DEF Conclude, Goto
<1>2. draft[r] \in Row /\ draft[r].id = r
  BY <1>1 DEF RequestsOK, LocalsOK, LocalsAt, Looking
<1>3. row \in Row /\ row.id = r /\ row.decision = Evaluate(i).decision
  BY <1>2, ConcludedType
<1>4. /\ out \in Outcome
      /\ out.status # 0 /\ out.code \notin FailureCodes
      /\ out.status = 200 <=> Evaluate(i).decision = "ALLOW"
  <2>1. out \in Outcome
    BY OutcomeTypes
  <2>2. out.status # 0 /\ (out.status = 200 <=> Evaluate(i).decision = "ALLOW")
    OBVIOUS
  <2>3. out.code \notin FailureCodes
    BY DEF FailureCodes
  <2> QED
    BY <2>1, <2>2, <2>3
<1> HIDE DEF row, out
<1>5. draft' \in [Requests -> Row \cup {Nil}] /\ outcome' \in [Requests -> Outcome]
  BY <1>1, <1>3, <1>4 DEF RequestsOK, TypeOK
<1>6. pc'[r] = "begin" /\ draft'[r] = row /\ outcome'[r] = out /\ response'[r] = NoResponse
  BY <1>1 DEF RequestsOK, TypeOK, OutcomeOK, OutcomeAt, OutsideDatabase
<1>7. LocalsAt(r)'
  BY <1>3, <1>6 DEF LocalsAt, Looking
<1>8. OutcomeAt(r)'
  BY <1>3, <1>4, <1>6 DEF OutcomeAt
<1>9. \A q \in Requests \ {r} : /\ request'[q] = request[q] /\ draft'[q] = draft[q]
                                /\ found'[q] = found[q] /\ outcome'[q] = outcome[q]
  BY <1>1 DEF RequestsOK, TypeOK
<1>10. request' \in [Requests -> Input \cup {Nil}]
  BY DEF RequestsOK, TypeOK
<1>11. "begin" \in PCs \ {"audit", "commit", "committing", "done"}
  BY DEF PCs
<1> QED
  BY <1>1, <1>5, <1>7, <1>8, <1>9, <1>10, <1>11, QuietStep
-----------------------------------------------------------------------------
(* The request arrives. *)

LEMMA ArrivalSteps ==
  ASSUME RequestsOK, NEW r \in Requests,
         RejectMalformed(r) \/ DenyInvalid(r) \/ DenyUnconfigured(r) \/ Accept(r)
  PROVE  RequestsOK'
<1>1. ASSUME NEW i \in Inputs
      PROVE  /\ NormalizeAuthorizeRequest(i) \in Input
             /\ NewDecision(r, NormalizeAuthorizeRequest(i)) \in Row
             /\ NewDecision(r, NormalizeAuthorizeRequest(i)).id = r
             /\ NewDecision(r, NormalizeAuthorizeRequest(i)).decision = "DENY"
  <2>1. NormalizeAuthorizeRequest(i) \in Input
    BY NormalizedInputType, ExchangeAssumption
  <2> QED
    BY <2>1, NewDecisionType
<1>2. CASE RejectMalformed(r)
  <2> DEFINE out == [status |-> 400, code |-> "INVALID_JSON"]
  <2>1. /\ pc[r] = "idle" /\ pc' = [pc EXCEPT ![r] = "reply"] /\ OutsideDatabase
        /\ outcome' = [outcome EXCEPT ![r] = out] /\ UNCHANGED <<request, draft, found>>
    BY <1>2 DEF RejectMalformed, Goto
  <2>2. out \in Outcome /\ out.status # 0 /\ out.status # 200 /\ out.code \in FailureCodes
    <3>1. out \in Outcome
      BY OutcomeTypes
    <3>2. out.status # 0 /\ out.status # 200
      OBVIOUS
    <3>3. out.code \in FailureCodes
      BY DEF FailureCodes
    <3> QED
      BY <3>1, <3>2, <3>3
  <2> HIDE DEF out
  <2>3. outcome' \in [Requests -> Outcome]
    BY <2>1, <2>2 DEF RequestsOK, TypeOK
  <2>4. pc'[r] = "reply" /\ outcome'[r] = out /\ response'[r] = NoResponse /\ r \notin sent'
    BY <2>1 DEF RequestsOK, TypeOK, StagedOK, StagedAt, OutcomeOK, OutcomeAt, OutsideDatabase
  <2>5. LocalsAt(r)'
    BY <2>4 DEF LocalsAt, Looking, Persisting
  <2>6. OutcomeAt(r)'
    BY <2>2, <2>4 DEF OutcomeAt, Persisting
  <2>7. \A q \in Requests \ {r} : /\ request'[q] = request[q] /\ draft'[q] = draft[q]
                                  /\ found'[q] = found[q] /\ outcome'[q] = outcome[q]
    BY <2>1 DEF RequestsOK, TypeOK
  <2>8. /\ request' \in [Requests -> Input \cup {Nil}] /\ draft' \in [Requests -> Row \cup {Nil}]
        /\ found' \in [Requests -> Policy \cup {Nil}]
    BY <2>1 DEF RequestsOK, TypeOK
  <2>9. "reply" \in PCs \ {"audit", "commit", "committing", "done"}
    BY DEF PCs
  <2> QED
    BY <2>1, <2>3, <2>5, <2>6, <2>7, <2>8, <2>9, QuietStep
<1>3. CASE DenyInvalid(r)
  <2>1. PICK i \in Inputs :
          /\ ValidateRequestForAuthorization(NormalizeAuthorizeRequest(i)) # NoDenial
          /\ Deny(r, "idle", NewDecision(r, NormalizeAuthorizeRequest(i)),
                  ValidateRequestForAuthorization(NormalizeAuthorizeRequest(i)))
    BY <1>3 DEF DenyInvalid
  <2>2. ValidateRequestForAuthorization(NormalizeAuthorizeRequest(i)) \in DenialType
    BY <1>1, <2>1, ValidationType
  <2> QED
    BY <1>1, <1>3, <2>1, <2>2, DenyStep DEF DenyInvalid
<1>4. CASE DenyUnconfigured(r)
  BY <1>1, <1>4, DenialTypes, DenyStep DEF DenyUnconfigured
<1>5. CASE Accept(r)
  <2>1. PICK i \in Inputs :
          /\ request' = [request EXCEPT ![r] = NormalizeAuthorizeRequest(i)]
          /\ draft' = [draft EXCEPT ![r] = NewDecision(r, NormalizeAuthorizeRequest(i))]
    BY <1>5 DEF Accept
  <2>2. /\ pc[r] = "idle" /\ pc' = [pc EXCEPT ![r] = "resolve"] /\ OutsideDatabase
        /\ UNCHANGED <<found, outcome>>
    BY <1>5 DEF Accept, Goto
  <2>3. /\ request' \in [Requests -> Input \cup {Nil}] /\ draft' \in [Requests -> Row \cup {Nil}]
        /\ found' \in [Requests -> Policy \cup {Nil}] /\ outcome' \in [Requests -> Outcome]
    BY <1>1, <2>1, <2>2 DEF RequestsOK, TypeOK
  <2>4. /\ pc'[r] = "resolve" /\ request'[r] = NormalizeAuthorizeRequest(i)
        /\ draft'[r] = NewDecision(r, NormalizeAuthorizeRequest(i))
        /\ response'[r] = NoResponse
    BY <2>1, <2>2 DEF RequestsOK, TypeOK, OutcomeOK, OutcomeAt, OutsideDatabase
  <2>5. LocalsAt(r)'
    BY <1>1, <2>4 DEF LocalsAt
  <2>6. OutcomeAt(r)'
    BY <2>4 DEF OutcomeAt, Persisting
  <2>7. \A q \in Requests \ {r} : /\ request'[q] = request[q] /\ draft'[q] = draft[q]
                                  /\ found'[q] = found[q] /\ outcome'[q] = outcome[q]
    BY <2>1, <2>2 DEF RequestsOK, TypeOK
  <2>8. "resolve" \in PCs \ {"audit", "commit", "committing", "done"}
    BY DEF PCs
  <2> QED
    BY <2>2, <2>3, <2>5, <2>6, <2>7, <2>8, QuietStep
<1> QED
  BY <1>2, <1>3, <1>4, <1>5
-----------------------------------------------------------------------------
(* TaifaID answers, or does not. *)

\* A denial after a call has failed is made from the decision as it stands.
LEMMA FailedCallSteps ==
  ASSUME RequestsOK, NEW r \in Requests, ResolveFails(r) \/ CapabilitiesFail(r)
  PROVE  RequestsOK'
<1>1. ASSUME pc[r] \in {"resolve", "capabilities"}
      PROVE  draft[r] \in Row /\ draft[r].id = r /\ draft[r].decision = "DENY"
  BY <1>1 DEF RequestsOK, LocalsOK, LocalsAt, Looking
<1>2. CASE ResolveFails(r)
  <2>1. pc[r] = "resolve"
    BY <1>2 DEF ResolveFails, Deny, Goto
  <2> QED
    BY <1>1, <1>2, <2>1, DenialTypes, DenyStep DEF ResolveFails
<1>3. CASE CapabilitiesFail(r)
  <2>1. pc[r] = "capabilities"
    BY <1>3 DEF CapabilitiesFail, Deny, Goto
  <2> QED
    BY <1>1, <1>3, <2>1, DenialTypes, DenyStep DEF CapabilitiesFail
<1> QED
  BY <1>2, <1>3

\* What TaifaID says goes into the decision record and keeps it one.
LEMMA AnsweredSteps ==
  ASSUME RequestsOK, NEW r \in Requests,
         ResolveActorContext(r) \/ ListOrganizationCapabilities(r)
  PROVE  RequestsOK'
<1>1. ASSUME NEW here \in {"resolve", "capabilities"}, NEW there \in {"capabilities", "find"},
             NEW row \in Row, row.id = r, row.decision = "DENY",
             Goto(r, here, there), draft' = [draft EXCEPT ![r] = row],
             OutsideDatabase, UNCHANGED <<request, found, outcome>>
      PROVE  RequestsOK'
  <2>1. pc[r] = here /\ pc' = [pc EXCEPT ![r] = there]
    BY <1>1 DEF Goto
  <2>2. /\ request' \in [Requests -> Input \cup {Nil}] /\ draft' \in [Requests -> Row \cup {Nil}]
        /\ found' \in [Requests -> Policy \cup {Nil}] /\ outcome' \in [Requests -> Outcome]
    BY <1>1 DEF RequestsOK, TypeOK
  <2>3. pc'[r] = there /\ draft'[r] = row /\ request'[r] = request[r] /\ response'[r] = NoResponse
    BY <1>1, <2>1 DEF RequestsOK, TypeOK, OutcomeOK, OutcomeAt, OutsideDatabase
  <2>4. request[r] \in Input
    BY <2>1 DEF RequestsOK, LocalsOK, LocalsAt, Looking
  <2>5. LocalsAt(r)'
    BY <1>1, <2>3, <2>4 DEF LocalsAt
  <2>6. OutcomeAt(r)'
    BY <2>3 DEF OutcomeAt, Persisting
  <2>7. \A q \in Requests \ {r} : /\ request'[q] = request[q] /\ draft'[q] = draft[q]
                                  /\ found'[q] = found[q] /\ outcome'[q] = outcome[q]
    BY <1>1 DEF RequestsOK, TypeOK
  <2>8. there \in PCs \ {"audit", "commit", "committing", "done"}
    BY DEF PCs
  <2> QED
    BY <1>1, <2>1, <2>2, <2>5, <2>6, <2>7, <2>8, QuietStep
<1>2. ASSUME pc[r] \in {"resolve", "capabilities"}
      PROVE  draft[r] \in Row /\ draft[r].id = r /\ draft[r].decision = "DENY"
  BY <1>2 DEF RequestsOK, LocalsOK, LocalsAt, Looking
<1>3. CASE ResolveActorContext(r)
  <2>1. PICK actor \in ActorAnswers :
          draft' = [draft EXCEPT ![r] = [@ EXCEPT !.person = actor.person,
                                                  !.actorRoles = CollectActorRoles(actor)]]
    BY <1>3 DEF ResolveActorContext
  <2> DEFINE row == [draft[r] EXCEPT !.person = actor.person,
                                     !.actorRoles = CollectActorRoles(actor)]
  <2>2. actor \in ActorContext
    BY ExchangeAssumption
  <2>3. actor.person \in Persons \cup {""} /\ CollectActorRoles(actor) \in SUBSET Text
    BY <2>2, CollectActorRolesType DEF ActorContext
  <2>4. Goto(r, "resolve", "capabilities") /\ OutsideDatabase /\ UNCHANGED <<request, found, outcome>>
    BY <1>3 DEF ResolveActorContext
  <2>5. row \in Row /\ row.id = r /\ row.decision = "DENY"
    BY <1>2, <2>3, <2>4 DEF Goto, Row
  <2>6. draft' = [draft EXCEPT ![r] = row]
    BY <2>1
  <2> QED
    BY <1>1, <2>4, <2>5, <2>6
<1>4. CASE ListOrganizationCapabilities(r)
  <2>1. PICK capabilities \in CapabilityAnswers :
          draft' = [draft EXCEPT ![r] =
            [@ EXCEPT !.organizationCapabilities = NormalizeStringSlice(capabilities)]]
    BY <1>4 DEF ListOrganizationCapabilities
  <2> DEFINE row == [draft[r] EXCEPT !.organizationCapabilities = NormalizeStringSlice(capabilities)]
  <2>2. NormalizeStringSlice(capabilities) \in SUBSET Text
    BY ExchangeAssumption, NormalizeStringSliceType
  <2>3. Goto(r, "capabilities", "find") /\ OutsideDatabase /\ UNCHANGED <<request, found, outcome>>
    BY <1>4 DEF ListOrganizationCapabilities
  <2>4. row \in Row /\ row.id = r /\ row.decision = "DENY"
    BY <1>2, <2>2, <2>3 DEF Goto, Row
  <2>5. draft' = [draft EXCEPT ![r] = row]
    BY <2>1
  <2> QED
    BY <1>1, <2>3, <2>4, <2>5
<1> QED
  BY <1>3, <1>4
-----------------------------------------------------------------------------
(* The policy is looked up, whatever the tables are at each statement. *)

\* What the two list statements read is a set of texts.
LEMMA ListTypes ==
  ASSUME RequestsOK, NEW id \in PolicyIDs
  PROVE  /\ ListPolicyRoles(policies, id) \in SUBSET Text
         /\ ListPolicyCapabilities(policies, id) \in SUBSET Text
<1>1. \A p \in policies : p.requiredRoles \in SUBSET Text /\ p.requiredCapabilities \in SUBSET Text
  BY DEF RequestsOK, TypeOK, StorablePolicy, Policy
<1> QED
  BY <1>1 DEF ListPolicyRoles, ListPolicyCapabilities

LEMMA LookupSteps ==
  ASSUME RequestsOK, NEW r \in Requests,
         FindPolicy(r) \/ PolicyNotFound(r) \/ ReadRoles(r) \/ ReadCapabilities(r)
  PROVE  RequestsOK'
<1>1. ASSUME pc[r] \in {"find", "roles", "policyCapabilities"}
      PROVE  /\ draft[r] \in Row /\ draft[r].id = r /\ draft[r].decision = "DENY"
             /\ request[r] \in Input
  BY <1>1 DEF RequestsOK, LocalsOK, LocalsAt, Looking
<1>2. ASSUME pc[r] \in {"roles", "policyCapabilities"} PROVE found[r] \in Policy
  BY <1>2 DEF RequestsOK, LocalsOK, LocalsAt
<1>3. ASSUME NEW here \in {"find", "roles"}, NEW there \in {"roles", "policyCapabilities"},
             NEW policy \in Policy,
             Goto(r, here, there), found' = [found EXCEPT ![r] = policy],
             OutsideDatabase, UNCHANGED <<request, draft, outcome>>
      PROVE  RequestsOK'
  <2>1. pc[r] = here /\ pc' = [pc EXCEPT ![r] = there]
    BY <1>3 DEF Goto
  <2>2. /\ request' \in [Requests -> Input \cup {Nil}] /\ draft' \in [Requests -> Row \cup {Nil}]
        /\ found' \in [Requests -> Policy \cup {Nil}] /\ outcome' \in [Requests -> Outcome]
    BY <1>3 DEF RequestsOK, TypeOK
  <2>3. /\ pc'[r] = there /\ draft'[r] = draft[r] /\ request'[r] = request[r]
        /\ found'[r] = policy /\ response'[r] = NoResponse
    BY <1>3, <2>1 DEF RequestsOK, TypeOK, OutcomeOK, OutcomeAt, OutsideDatabase
  <2>4. LocalsAt(r)'
    BY <1>1, <2>1, <2>3 DEF LocalsAt
  <2>5. OutcomeAt(r)'
    BY <2>3 DEF OutcomeAt, Persisting
  <2>6. \A q \in Requests \ {r} : /\ request'[q] = request[q] /\ draft'[q] = draft[q]
                                  /\ found'[q] = found[q] /\ outcome'[q] = outcome[q]
    BY <1>3 DEF RequestsOK, TypeOK
  <2>7. there \in PCs \ {"audit", "commit", "committing", "done"}
    BY DEF PCs
  <2> QED
    BY <1>3, <2>1, <2>2, <2>4, <2>5, <2>6, <2>7, QuietStep
<1>4. ASSUME NEW policy \in Policy \cup {Nil}, pc[r] \in {"find", "policyCapabilities"}
      PROVE  \E i \in EvaluationInput : Evaluation(r, policy) = Evaluate(i)
  <2> DEFINE i == [target |-> request[r].target, method |-> request[r].method,
                   route |-> request[r].route, operation |-> request[r].operation,
                   policy |-> policy, actorRoles |-> draft[r].actorRoles,
                   organizationCapabilities |-> draft[r].organizationCapabilities]
  <2>1. /\ request[r].target \in Text /\ request[r].method \in Text
        /\ request[r].route \in Text /\ request[r].operation \in Text
        /\ draft[r].actorRoles \in SUBSET Text
        /\ draft[r].organizationCapabilities \in SUBSET Text
    BY <1>1, <1>4 DEF Input, Row
  <2>2. i \in EvaluationInput
    BY <1>4, <2>1 DEF EvaluationInput
  <2>3. Evaluation(r, policy) = Evaluate(i)
    BY Zenon DEF Evaluation
  <2> QED
    BY <2>2, <2>3
<1>5. CASE FindPolicy(r)
  <2>1. Goto(r, "find", "roles") /\ OutsideDatabase /\ UNCHANGED <<request, draft, outcome>>
    BY <1>5 DEF FindPolicy
  <2>2. PICK p \in Matching(r) : found' = [found EXCEPT ![r] = ScannedRow(p)]
    BY <1>5 DEF FindPolicy
  <2>3. p \in Policy
    BY DEF Matching, SelectPolicy, RequestsOK, TypeOK, StorablePolicy
  <2> QED
    BY <1>3, <2>1, <2>2, <2>3, ScannedRowType
<1>6. CASE PolicyNotFound(r)
  <2>1. /\ OutsideDatabase /\ UNCHANGED <<request, found>>
        /\ pc[r] = "find" /\ Conclude(r, "find", Evaluation(r, Nil))
    BY <1>6 DEF PolicyNotFound
  <2>2. PICK i \in EvaluationInput : Evaluation(r, Nil) = Evaluate(i)
    BY <1>4, <2>1
  <2>3. found' \in [Requests -> Policy \cup {Nil}]
    BY <2>1 DEF RequestsOK, TypeOK
  <2> QED
    BY <2>1, <2>2, <2>3, ConcludeStep
<1>7. CASE ReadRoles(r)
  <2> DEFINE policy == [found[r] EXCEPT !.requiredRoles = ListPolicyRoles(policies, found[r].id)]
  <2>1. Goto(r, "roles", "policyCapabilities") /\ OutsideDatabase /\ UNCHANGED <<request, draft, outcome>>
    BY <1>7 DEF ReadRoles
  <2>2. found' = [found EXCEPT ![r] = policy]
    BY <1>7 DEF ReadRoles
  <2>3. found[r] \in Policy /\ found[r].id \in PolicyIDs
    BY <1>2, <2>1 DEF Goto, Policy
  <2>4. policy \in Policy
    BY <2>3, ListTypes DEF Policy
  <2> QED
    BY <1>3, <2>1, <2>2, <2>4
<1>8. CASE ReadCapabilities(r)
  <2> DEFINE policy == [found[r] EXCEPT
                          !.requiredCapabilities = ListPolicyCapabilities(policies, found[r].id)]
  <2>1. /\ OutsideDatabase /\ UNCHANGED request
        /\ pc[r] = "policyCapabilities"
        /\ found' = [found EXCEPT ![r] = policy]
        /\ Conclude(r, "policyCapabilities", Evaluation(r, found'[r]))
    BY <1>8 DEF ReadCapabilities
  <2>2. found[r] \in Policy /\ found[r].id \in PolicyIDs
    BY <1>2, <2>1 DEF Policy
  <2>3. policy \in Policy
    BY <2>2, ListTypes DEF Policy
  <2> HIDE DEF policy
  <2>4. /\ found' \in [Requests -> Policy \cup {Nil}] /\ found'[r] = policy
        /\ \A q \in Requests \ {r} : found'[q] = found[q]
    BY <2>1, <2>3 DEF RequestsOK, TypeOK
  <2>5. PICK i \in EvaluationInput : Evaluation(r, policy) = Evaluate(i)
    BY <1>4, <2>1, <2>3
  <2> QED
    BY <2>1, <2>4, <2>5, ConcludeStep
<1> QED
  BY <1>5, <1>6, <1>7, <1>8
-----------------------------------------------------------------------------
(* persist. *)

\* Writing the event leaves the staged row as it is.
LEMMA EventAppended ==
  ASSUME NEW rows, NEW event
  PROVE  [[rows |-> rows, events |-> {}] EXCEPT !.events = {} \cup {event}]
           = [rows |-> rows, events |-> {event}]
  OBVIOUS

\* Steps that leave the local variables alone but for the outcome.
LEMMA PersistSteps ==
  ASSUME RequestsOK, NEW r \in Requests,
         Begin(r) \/ InsertDecision(r) \/ InsertAudit(r) \/ StatementFails(r) \/ TransactionFails(r)
  PROVE  RequestsOK'
<1>1. ASSUME NEW here \in PCs, pc[r] = here, here \notin {"idle", "committing", "reply", "done"},
             NEW there \in {"insert", "audit", "commit", "reply"},
             there # "reply" => here \in Persisting /\ UNCHANGED outcome,
             there = "reply" => outcome' = [outcome EXCEPT ![r] = Internal],
             pc' = [pc EXCEPT ![r] = there],
             UNCHANGED <<config, policies, decisions, outbox, request, draft, found, sent,
                         cancelled, response>>,
             holding' \subseteq Requests,
             staged' \in [Requests -> [rows : SUBSET Row, events : SUBSET DecisionEvent]],
             \A q \in Requests \ {r} : staged'[q] = staged[q],
             StagedAt(r)'
      PROVE  RequestsOK'
  <2>1. /\ outcome' \in [Requests -> Outcome]
        /\ \A q \in Requests \ {r} : outcome'[q] = outcome[q]
    BY <1>1, OutcomeTypes DEF RequestsOK, TypeOK
  <2>2. pc'[r] = there /\ (there = "reply" => outcome'[r] = Internal) /\ response'[r] = NoResponse
    BY <1>1 DEF RequestsOK, TypeOK, OutcomeOK, OutcomeAt
  <2>3. LocalsAt(r)'
    BY <1>1, <2>2 DEF RequestsOK, LocalsOK, LocalsAt, Looking, Persisting
  <2>4. OutcomeAt(r)'
    <3>1. CASE there = "reply"
      <4>1. Internal.status # 0 /\ Internal.status # 200
        BY DEF Internal
      <4>2. Internal.code \in FailureCodes
        BY DEF Internal, FailureCodes
      <4> QED
        BY <2>2, <3>1, <4>1, <4>2 DEF OutcomeAt, Persisting
    <3>2. CASE there # "reply"
      BY <1>1, <2>2, <3>2 DEF RequestsOK, OutcomeOK, OutcomeAt, Persisting
    <3> QED
      BY <3>1, <3>2
  <2>5. /\ request' \in [Requests -> Input \cup {Nil}] /\ draft' \in [Requests -> Row \cup {Nil}]
        /\ found' \in [Requests -> Policy \cup {Nil}]
        /\ sent' \subseteq Requests /\ cancelled' \subseteq Requests
        /\ response' \in [Requests -> Response] /\ there \in PCs
    BY <1>1 DEF RequestsOK, TypeOK, PCs
  <2> QED
    BY <1>1, <2>1, <2>3, <2>4, <2>5, RequestStep
<1>2. /\ staged \in [Requests -> [rows : SUBSET Row, events : SUBSET DecisionEvent]]
      /\ holding \subseteq Requests /\ pc[r] \in PCs
  BY DEF RequestsOK, TypeOK
<1>3. ASSUME pc[r] \in Persisting PROVE draft[r] \in Row
  BY <1>3 DEF RequestsOK, LocalsOK, LocalsAt
<1>4. CASE Begin(r)
  <2>1. /\ pc[r] = "begin" /\ pc' = [pc EXCEPT ![r] = "insert"] /\ holding' = holding \cup {r}
        /\ UNCHANGED <<config, policies, decisions, outbox, request, draft, found, outcome,
                       staged, sent, cancelled, response>>
    BY <1>4 DEF Begin, Goto, database, locals
  <2>2. StagedAt(r)'
    BY <2>1 DEF RequestsOK, TypeOK, StagedOK, StagedAt
  <2> QED
    BY <1>1, <1>2, <2>1, <2>2 DEF Persisting
<1>5. CASE InsertDecision(r)
  <2>1. /\ pc[r] = "insert" /\ pc' = [pc EXCEPT ![r] = "audit"]
        /\ staged' = [staged EXCEPT ![r].rows = @ \cup {draft[r]}]
        /\ UNCHANGED <<config, policies, decisions, outbox, request, draft, found, outcome,
                       sent, holding, cancelled, response>>
    BY <1>5 DEF InsertDecision, Goto, database, locals
  <2>2. staged[r] = [rows |-> {}, events |-> {}]
    BY <2>1 DEF RequestsOK, StagedOK, StagedAt
  <2>3. staged'[r] = [rows |-> {draft[r]}, events |-> {}]
    <3>1. staged'[r] = [staged[r] EXCEPT !.rows = staged[r].rows \cup {draft[r]}]
      BY <1>2, <2>1
    <3>2. staged[r].rows = {}
      BY <2>2
    <3> QED
      BY <2>2, <3>1, <3>2
  <2>4. StagedAt(r)'
    BY <2>1, <2>3 DEF RequestsOK, TypeOK, StagedOK, StagedAt
  <2>5. draft[r] \in Row
    BY <1>3, <2>1 DEF Persisting
  <2>6. /\ staged' \in [Requests -> [rows : SUBSET Row, events : SUBSET DecisionEvent]]
        /\ \A q \in Requests \ {r} : staged'[q] = staged[q]
    BY <1>2, <2>1, <2>5
  <2> QED
    BY <1>1, <1>2, <2>1, <2>4, <2>6 DEF Persisting
<1>6. CASE InsertAudit(r)
  <2>1. /\ pc[r] = "audit" /\ pc' = [pc EXCEPT ![r] = "commit"]
        /\ staged' = [staged EXCEPT ![r].events = @ \cup {AuditEventForResult(draft[r])}]
        /\ UNCHANGED <<config, policies, decisions, outbox, request, draft, found, outcome,
                       sent, holding, cancelled, response>>
    BY <1>6 DEF InsertAudit, Goto, database, locals
  <2>2. staged[r] = [rows |-> {draft[r]}, events |-> {}]
    BY <2>1 DEF RequestsOK, StagedOK, StagedAt
  <2>3. staged'[r] = [rows |-> {draft[r]}, events |-> {AuditEventForResult(draft[r])}]
    <3>1. staged'[r] = [staged[r] EXCEPT !.events =
                          staged[r].events \cup {AuditEventForResult(draft[r])}]
      BY <1>2, <2>1
    <3>2. staged[r].events = {}
      BY <2>2
    <3>3. staged'[r] = [staged[r] EXCEPT !.events = {} \cup {AuditEventForResult(draft[r])}]
      BY <3>1, <3>2, Zenon
    <3> QED
      BY <2>2, <3>3, EventAppended, Zenon
  <2>4. StagedAt(r)'
    BY <2>1, <2>3 DEF RequestsOK, TypeOK, StagedOK, StagedAt
  <2>5. AuditEventForResult(draft[r]) \in DecisionEvent
    BY <1>3, <2>1, AuditEventType DEF Persisting
  <2>6. /\ staged' \in [Requests -> [rows : SUBSET Row, events : SUBSET DecisionEvent]]
        /\ \A q \in Requests \ {r} : staged'[q] = staged[q]
    BY <1>2, <2>1, <2>5
  <2> QED
    BY <1>1, <1>2, <2>1, <2>4, <2>6 DEF Persisting
<1>7. CASE StatementFails(r)
  <2>1. /\ pc[r] \in {"find", "roles", "policyCapabilities", "begin"}
        /\ pc' = [pc EXCEPT ![r] = "reply"] /\ outcome' = [outcome EXCEPT ![r] = Internal]
        /\ UNCHANGED <<config, policies, decisions, outbox, request, draft, found,
                       staged, sent, holding, cancelled, response>>
    BY <1>7 DEF StatementFails, ReturnError, database
  <2>2. StagedAt(r)'
    BY <2>1 DEF RequestsOK, TypeOK, StagedOK, StagedAt
  <2> QED
    BY <1>1, <1>2, <2>1, <2>2
<1>8. CASE TransactionFails(r)
  <2>1. /\ pc[r] \in {"insert", "audit", "commit"}
        /\ pc' = [pc EXCEPT ![r] = "reply"] /\ outcome' = [outcome EXCEPT ![r] = Internal]
        /\ staged' = [staged EXCEPT ![r] = NothingStaged] /\ holding' = holding \ {r}
        /\ UNCHANGED <<config, policies, decisions, outbox, request, draft, found,
                       sent, cancelled, response>>
    BY <1>8 DEF TransactionFails, EndTransaction, ReturnError, database
  <2>2. StagedAt(r)'
    BY <2>1 DEF RequestsOK, TypeOK, StagedOK, StagedAt, NothingStaged
  <2>3. /\ staged' \in [Requests -> [rows : SUBSET Row, events : SUBSET DecisionEvent]]
        /\ \A q \in Requests \ {r} : staged'[q] = staged[q]
    BY <1>2, <2>1 DEF NothingStaged
  <2> QED
    BY <1>1, <1>2, <2>1, <2>2, <2>3
<1> QED
  BY <1>4, <1>5, <1>6, <1>7, <1>8

\* COMMIT is sent, and its outcome learned or not.
LEMMA CommitSteps ==
  ASSUME RequestsOK, NEW r \in Requests, SendCommit(r) \/ Committed(r) \/ CommitFails(r)
  PROVE  RequestsOK'
<1>1. /\ UNCHANGED <<config, policies, decisions, outbox, request, draft, found, staged,
                     cancelled, response>>
      /\ holding' \subseteq Requests /\ sent' \subseteq Requests
      /\ \A q \in Requests \ {r} : q \in sent' <=> q \in sent
  BY DEF SendCommit, Committed, CommitFails, ReturnError, database, locals, RequestsOK, TypeOK
<1>2. /\ request' \in [Requests -> Input \cup {Nil}] /\ draft' \in [Requests -> Row \cup {Nil}]
      /\ found' \in [Requests -> Policy \cup {Nil}]
      /\ staged' \in [Requests -> [rows : SUBSET Row, events : SUBSET DecisionEvent]]
      /\ cancelled' \subseteq Requests /\ response' \in [Requests -> Response]
  BY <1>1 DEF RequestsOK, TypeOK
<1>3. "committing" \in PCs /\ "reply" \in PCs
  BY DEF PCs
<1>4. CASE SendCommit(r)
  <2>1. /\ pc[r] = "commit" /\ pc' = [pc EXCEPT ![r] = "committing"]
        /\ sent' = sent \cup {r} /\ UNCHANGED outcome
    BY <1>4 DEF SendCommit, Goto, locals
  <2>2. pc'[r] = "committing" /\ outcome' \in [Requests -> Outcome]
    BY <2>1 DEF RequestsOK, TypeOK
  <2>3. LocalsAt(r)'
    BY <1>1, <2>1, <2>2 DEF RequestsOK, LocalsOK, LocalsAt, Looking, Persisting
  <2>4. StagedAt(r)'
    BY <1>1, <2>1, <2>2 DEF RequestsOK, StagedOK, StagedAt
  <2>5. OutcomeAt(r)'
    BY <1>1, <2>1, <2>2 DEF RequestsOK, OutcomeOK, OutcomeAt, Persisting
  <2> QED
    BY <1>1, <1>2, <1>3, <2>1, <2>2, <2>3, <2>4, <2>5, RequestStep
<1>5. CASE Committed(r) \/ CommitFails(r)
  <2>1. pc[r] = "committing" /\ pc' = [pc EXCEPT ![r] = "reply"] /\ UNCHANGED sent
    BY <1>5 DEF Committed, CommitFails, Goto, ReturnError
  <2>2. pc'[r] = "reply"
    BY <2>1 DEF RequestsOK, TypeOK
  <2>3. /\ \/ outcome' = outcome /\ draft[r] \in decisions
           \/ outcome' = [outcome EXCEPT ![r] = Internal]
        /\ outcome' \in [Requests -> Outcome]
        /\ \A q \in Requests \ {r} : outcome'[q] = outcome[q]
    BY <1>5, OutcomeTypes DEF Committed, CommitFails, ReturnError, locals, RequestsOK, TypeOK
  <2>4. LocalsAt(r)'
    BY <1>1, <2>1, <2>2 DEF RequestsOK, LocalsOK, LocalsAt, Looking, Persisting
  <2>5. StagedAt(r)'
    BY <1>1, <2>1, <2>2 DEF RequestsOK, StagedOK, StagedAt
  <2>6. /\ outcome[r].status # 0 /\ outcome[r].code \notin FailureCodes
        /\ outcome[r].status = 200 <=> draft[r].decision = "ALLOW"
        /\ response[r] = NoResponse /\ draft[r].id = r
    BY <2>1 DEF RequestsOK, OutcomeOK, OutcomeAt, LocalsOK, LocalsAt, Persisting
  <2>7. CASE outcome' = outcome /\ draft[r] \in decisions
    <3>1. RowsOf(r) = {draft[r]}
      BY <2>6, <2>7 DEF RowsOf, RequestsOK, LedgerAudited
    <3>2. RowsOf(r)' = {draft[r]}
      BY <1>1, <3>1 DEF RowsOf
    <3>3. RecordedFor(r)' = IF draft[r].decision = "ALLOW" THEN "ALLOW" ELSE "DENY"
      BY <3>2 DEF RecordedFor
    <3>4. OutcomeAt(r)'
      BY <1>1, <2>2, <2>6, <2>7, <3>3 DEF OutcomeAt, Persisting
    <3> QED
      BY <1>1, <1>2, <1>3, <2>1, <2>3, <2>4, <2>5, <3>4, RequestStep
  <2>8. CASE outcome' = [outcome EXCEPT ![r] = Internal]
    <3>1. Internal.status # 0 /\ Internal.status # 200
      BY DEF Internal
    <3>2. Internal.code \in FailureCodes
      BY DEF Internal, FailureCodes
    <3>3. outcome'[r] = Internal
      BY <2>8 DEF RequestsOK, TypeOK
    <3>4. OutcomeAt(r)'
      BY <1>1, <2>2, <2>6, <3>1, <3>2, <3>3 DEF OutcomeAt, Persisting
    <3> QED
      BY <1>1, <1>2, <1>3, <2>1, <2>3, <2>4, <2>5, <3>4, RequestStep
  <2> QED
    BY <2>3, <2>7, <2>8
<1> QED
  BY <1>4, <1>5
-----------------------------------------------------------------------------
(* The server and the COMMITs it has been sent. *)

\* What taking the COMMIT of a decision and its event does to the tables.
LEMMA RecordedTables ==
  ASSUME RequestsOK, NEW r \in Requests, ServerCommits(r)
  PROVE  /\ draft[r] \in Row /\ draft[r].id = r
         /\ decisions' \subseteq Row /\ outbox' \subseteq DecisionEvent \cup SeedEvent
         /\ LedgerAudited'
         /\ RowsOf(r) = {} /\ EventsOf(r) = {}
         /\ RowsOf(r)' = {draft[r]}
         /\ EventsOf(r)' = {AuditEventForResult(draft[r])}
         /\ \A q \in Requests \ {r} : RowsOf(q)' = RowsOf(q) /\ EventsOf(q)' = EventsOf(q)
<1> DEFINE row == draft[r]
           event == AuditEventForResult(row)
<1> r \in sent
  BY DEF ServerCommits
<1>1. row \in Row /\ row.id = r
  BY DEF RequestsOK, LocalsOK, LocalsAt
<1>2. /\ event \in DecisionEvent /\ event.type # "exchange.policy.seeded"
      /\ event.resource = r /\ Describes(event, row)
  BY <1>1, AuditEventType
<1>3. staged[r] = [rows |-> {row}, events |-> {event}]
  BY DEF RequestsOK, StagedOK, StagedAt
<1>4. decisions' = decisions \cup {row} /\ outbox' = outbox \cup {event}
  BY <1>3 DEF ServerCommits
<1>5. RowsOf(r) = {} /\ EventsOf(r) = {}
  BY DEF RequestsOK, UnrecordedOK, UnrecordedAt
<1> HIDE DEF row, event
<1>6. DecisionEvents' = DecisionEvents \cup {event}
  BY <1>2, <1>4 DEF DecisionEvents
<1>7. RowsOf(r)' = {row} /\ EventsOf(r)' = {event}
  BY <1>1, <1>2, <1>4, <1>5, <1>6 DEF RowsOf, EventsOf
<1>8. \A q \in Requests \ {r} : RowsOf(q)' = RowsOf(q) /\ EventsOf(q)' = EventsOf(q)
  BY <1>1, <1>2, <1>4, <1>6 DEF RowsOf, EventsOf
<1>9. decisions' \subseteq Row /\ outbox' \subseteq DecisionEvent \cup SeedEvent
  BY <1>1, <1>2, <1>4 DEF RequestsOK, TypeOK
<1>10. LedgerAudited'
  <2>1. \A other \in decisions : other.id # r
    BY <1>5 DEF RowsOf
  <2>2. \A other \in DecisionEvents : other.resource # r
    BY <1>5 DEF EventsOf
  <2>3. \A other \in decisions' : \E e \in DecisionEvents' : Describes(e, other)
    BY <1>2, <1>4, <1>6 DEF RequestsOK, LedgerAudited
  <2>4. \A e \in DecisionEvents' : \E other \in decisions' : Describes(e, other)
    BY <1>2, <1>4, <1>6 DEF RequestsOK, LedgerAudited
  <2>5. \A one, other \in decisions' : one.id = other.id => one = other
    BY <1>1, <1>4, <2>1 DEF RequestsOK, LedgerAudited
  <2>6. \A e, other \in DecisionEvents' : e.resource = other.resource => e = other
    BY <1>2, <1>6, <2>2 DEF RequestsOK, LedgerAudited
  <2>7. \A e, other : Describes(e, other)' <=> Describes(e, other)
    BY DEF Describes
  <2> QED
    BY <2>3, <2>4, <2>5, <2>6, <2>7 DEF LedgerAudited
<1> QED
  BY <1>1, <1>5, <1>7, <1>8, <1>9, <1>10 DEF row, event

LEMMA ServerSteps ==
  ASSUME RequestsOK, NEW r \in Requests, ServerCommits(r) \/ ServerAborts(r)
  PROVE  RequestsOK'
<1>1. /\ r \in sent /\ sent' = sent \ {r} /\ staged' = [staged EXCEPT ![r] = NothingStaged]
      /\ UNCHANGED <<config, policies, pc, request, draft, found, outcome, holding, cancelled,
                     response>>
  BY DEF ServerCommits, ServerAborts, database, locals
<1>2. /\ decisions' \subseteq Row /\ outbox' \subseteq DecisionEvent \cup SeedEvent
      /\ LedgerAudited'
      /\ \A q \in Requests \ {r} : RowsOf(q)' = RowsOf(q) /\ EventsOf(q)' = EventsOf(q)
  <2>1. CASE ServerCommits(r)
    BY <2>1, RecordedTables
  <2>2. CASE ServerAborts(r)
    BY <2>2 DEF ServerAborts, database, RequestsOK, TypeOK, LedgerAudited, DecisionEvents, RowsOf,
                EventsOf
  <2> QED
    BY <2>1, <2>2
<1>3. /\ pc[r] \in {"committing", "reply", "done"}
      /\ RowsOf(r) = {}
  BY <1>1 DEF RequestsOK, StagedOK, StagedAt, UnrecordedOK, UnrecordedAt
<1>4. /\ staged' \in [Requests -> [rows : SUBSET Row, events : SUBSET DecisionEvent]]
      /\ staged'[r] = NothingStaged
      /\ \A q \in Requests \ {r} : staged'[q] = staged[q]
  BY <1>1 DEF RequestsOK, TypeOK, NothingStaged
<1>5. TypeOK'
  BY <1>1, <1>2, <1>4 DEF RequestsOK, TypeOK, UniquePolicies
<1>6. LocalsOK'
  <2>1. ASSUME NEW q \in Requests PROVE LocalsAt(q)'
    BY <1>1 DEF RequestsOK, LocalsOK, LocalsAt
  <2> QED
    BY <2>1 DEF LocalsOK
<1>7. StagedOK'
  <2>1. StagedAt(r)'
    BY <1>1, <1>3, <1>4 DEF StagedAt, NothingStaged
  <2>2. ASSUME NEW q \in Requests \ {r} PROVE StagedAt(q)'
    BY <1>1, <1>4 DEF RequestsOK, StagedOK, StagedAt
  <2> QED
    BY <2>1, <2>2 DEF StagedOK
<1>8. UnrecordedOK'
  BY <1>1, <1>2, <1>3 DEF RequestsOK, UnrecordedOK, UnrecordedAt
<1>9. OutcomeOK'
  <2>1. ASSUME NEW q \in Requests \ {r} PROVE OutcomeAt(q)'
    BY <1>1, <1>2 DEF RequestsOK, OutcomeOK, OutcomeAt, RecordedFor, ToldBy
  <2>2. pc[r] = "reply" => outcome[r].code \in FailureCodes
    BY <1>3 DEF RequestsOK, OutcomeOK, OutcomeAt, RecordedFor
  <2>3. pc[r] = "done" => ToldBy(response[r]) = "error"
    BY <1>3 DEF RequestsOK, OutcomeOK, OutcomeAt, RecordedFor, ToldBy
  <2>4. pc'[r] = pc[r] /\ outcome'[r] = outcome[r] /\ response'[r] = response[r]
    BY <1>1
  <2>5. ToldBy(response[r])' = ToldBy(response[r])
    BY <2>4 DEF ToldBy
  <2>6. OutcomeAt(r)'
    <3>1. pc[r] # "done" => response[r] = NoResponse
      BY DEF RequestsOK, OutcomeOK, OutcomeAt
    <3>2. pc[r] \in Persisting =>
            /\ outcome[r].status # 0 /\ outcome[r].code \notin FailureCodes
            /\ outcome[r].status = 200 <=> draft[r].decision = "ALLOW"
      BY DEF RequestsOK, OutcomeOK, OutcomeAt
    <3>3. pc[r] = "reply" =>
            /\ outcome[r].status # 0
            /\ outcome[r].code \in FailureCodes => outcome[r].status # 200
      BY DEF RequestsOK, OutcomeOK, OutcomeAt
    <3> QED
      BY <1>1, <2>2, <2>3, <2>4, <2>5, <3>1, <3>2, <3>3 DEF OutcomeAt
  <2> QED
    BY <2>1, <2>6 DEF OutcomeOK
<1> QED
  BY <1>2, <1>5, <1>6, <1>7, <1>8, <1>9 DEF RequestsOK
-----------------------------------------------------------------------------
(* The response, the client's departure, and the end of the process. *)

\* What each response tells.
LEMMA Told == ToldBy(NoResponse) = "unanswered" /\ ToldBy(LostResponse) = "error"
<1>1. LostResponse.code = "LOST" /\ NoResponse.code = "" /\ LostResponse # NoResponse
  BY DEF LostResponse, NoResponse
<1>2. LostResponse.status # 200
  BY DEF LostResponse
<1>3. "LOST" \in FailureCodes
  BY DEF FailureCodes
<1> QED
  BY <1>1, <1>2, <1>3 DEF ToldBy

LEMMA ReplyTold ==
  ASSUME NEW out \in Outcome, NEW row, out.status # 0
  PROVE  ToldBy(ResponseFor(out, row)) = IF out.status = 200 THEN "ALLOW"
                                         ELSE IF out.code \in FailureCodes THEN "error"
                                         ELSE "DENY"
<1>1. /\ ResponseFor(out, row).status = out.status
      /\ ResponseFor(out, row).code = out.code
  BY Zenon DEF ResponseFor
<1>2. NoResponse.status = 0
  BY DEF NoResponse
<1>3. ResponseFor(out, row) # NoResponse
  BY <1>1, <1>2, Zenon
<1> QED
  BY <1>1, <1>3, Zenon DEF ToldBy

LEMMA ReplySteps ==
  ASSUME RequestsOK, NEW r \in Requests, Reply(r) \/ ReplyLost(r)
  PROVE  RequestsOK'
<1>1. /\ pc[r] = "reply" /\ pc' = [pc EXCEPT ![r] = "done"]
      /\ UNCHANGED <<config, policies, decisions, outbox, request, draft, found, outcome,
                     staged, sent, holding, cancelled>>
  BY DEF Reply, ReplyLost, Goto, database, locals
<1>2. PICK resp \in Response : /\ response' = [response EXCEPT ![r] = resp]
                              /\ ToldBy(resp) \in {"error", RecordedFor(r)}
  <2>1. outcome[r] \in Outcome /\ draft[r] \in Row \cup {Nil}
    BY DEF RequestsOK, TypeOK
  <2>2. ResponseFor(outcome[r], draft[r]) \in Response /\ LostResponse \in Response
    BY <2>1, ResponseType, ResponseTypes
  <2>3. /\ outcome[r].status # 0
        /\ outcome[r].code \in FailureCodes => outcome[r].status # 200
        /\ outcome[r].code \notin FailureCodes =>
             RecordedFor(r) = IF outcome[r].status = 200 THEN "ALLOW" ELSE "DENY"
    BY <1>1 DEF RequestsOK, OutcomeOK, OutcomeAt
  <2>4. ToldBy(ResponseFor(outcome[r], draft[r])) \in {"error", RecordedFor(r)}
    BY <2>1, <2>3, ReplyTold
  <2>5. \/ response' = [response EXCEPT ![r] = ResponseFor(outcome[r], draft[r])]
        \/ response' = [response EXCEPT ![r] = LostResponse]
    BY DEF Reply, ReplyLost
  <2> QED
    BY <2>2, <2>4, <2>5, Told
<1>3. "done" \in PCs /\ response' \in [Requests -> Response]
  BY <1>2 DEF RequestsOK, TypeOK, PCs
<1>4. pc'[r] = "done" /\ response'[r] = resp
  BY <1>1, <1>2 DEF RequestsOK, TypeOK
<1>5. LocalsAt(r)' /\ OutcomeAt(r)'
  <2>1. LocalsAt(r)'
    BY <1>1, <1>4 DEF RequestsOK, LocalsOK, LocalsAt, Looking, Persisting
  <2>2. RecordedFor(r)' = RecordedFor(r)
    BY <1>1 DEF RecordedFor, RowsOf
  <2>3. ToldBy(response[r])' \in {"error", RecordedFor(r)'}
    BY <1>2, <1>4, <2>2 DEF ToldBy
  <2> QED
    BY <1>4, <2>1, <2>3 DEF OutcomeAt, Persisting
<1>6. StagedAt(r)'
  BY <1>1, <1>4 DEF RequestsOK, StagedOK, StagedAt
<1>7. \A q \in Requests \ {r} : response'[q] = response[q]
  BY <1>2 DEF RequestsOK, TypeOK
<1>8. /\ request' \in [Requests -> Input \cup {Nil}] /\ draft' \in [Requests -> Row \cup {Nil}]
      /\ found' \in [Requests -> Policy \cup {Nil}] /\ outcome' \in [Requests -> Outcome]
      /\ staged' \in [Requests -> [rows : SUBSET Row, events : SUBSET DecisionEvent]]
      /\ sent' \subseteq Requests /\ holding' \subseteq Requests /\ cancelled' \subseteq Requests
  BY <1>1 DEF RequestsOK, TypeOK
<1> QED
  BY <1>1, <1>3, <1>5, <1>6, <1>7, <1>8, RequestStep

LEMMA DisconnectStep ==
  ASSUME RequestsOK, NEW r \in Requests, Disconnect(r)
  PROVE  RequestsOK'
<1>1. /\ UNCHANGED <<config, policies, decisions, outbox, pc, request, draft, found, outcome,
                     staged, sent, holding, response>>
      /\ cancelled' = cancelled \cup {r}
  BY DEF Disconnect, database, locals
<1>2. TypeOK'
  BY <1>1 DEF RequestsOK, TypeOK, UniquePolicies
<1>3. LocalsOK' /\ StagedOK' /\ UnrecordedOK'
  BY <1>1 DEF RequestsOK, LocalsOK, LocalsAt, StagedOK, StagedAt, UnrecordedOK, UnrecordedAt,
              RowsOf, EventsOf, DecisionEvents
<1>4. LedgerAudited'
  BY <1>1 DEF RequestsOK, LedgerAudited, DecisionEvents
<1>5. OutcomeOK'
  BY <1>1 DEF RequestsOK, OutcomeOK, OutcomeAt, RecordedFor, RowsOf
<1> QED
  BY <1>2, <1>3, <1>4, <1>5 DEF RequestsOK

LEMMA CrashStep ==
  ASSUME RequestsOK, Crash
  PROVE  RequestsOK'
<1>1. UNCHANGED <<config, policies, decisions, outbox, request, draft, found, outcome,
               sent, cancelled>>
  BY DEF Crash, database, locals
<1>2. /\ pc' \in [Requests -> {"idle", "done"}] /\ holding' = {}
      /\ \A r \in Requests : pc'[r] = IF pc[r] = "idle" THEN "idle" ELSE "done"
  BY DEF Crash, RequestsOK, TypeOK
<1>3. \A r \in Requests : /\ staged'[r] = IF r \in sent THEN staged[r] ELSE NothingStaged
                          /\ response'[r] = IF pc[r] \in {"idle", "done"} THEN response[r]
                                            ELSE LostResponse
  BY DEF Crash
<1>4. TypeOK'
  <2>1. pc' \in [Requests -> PCs]
    BY <1>2 DEF PCs
  <2>2. response' \in [Requests -> Response]
    BY ResponseTypes DEF Crash, RequestsOK, TypeOK
  <2>3. staged' \in [Requests -> [rows : SUBSET Row, events : SUBSET DecisionEvent]]
    BY DEF Crash, NothingStaged, RequestsOK, TypeOK
  <2> QED
    BY <1>1, <1>2, <2>1, <2>2, <2>3 DEF RequestsOK, TypeOK, UniquePolicies
<1>5. LocalsOK'
  BY <1>1, <1>2 DEF RequestsOK, LocalsOK, LocalsAt, Looking, Persisting
<1>6. StagedOK'
  <2>1. ASSUME NEW r \in Requests, r \in sent PROVE StagedAt(r)'
    BY <1>1, <1>2, <1>3, <2>1 DEF RequestsOK, StagedOK, StagedAt
  <2>2. ASSUME NEW r \in Requests, r \notin sent PROVE StagedAt(r)'
    BY <1>1, <1>2, <1>3, <2>2 DEF StagedAt, NothingStaged
  <2> QED
    BY <2>1, <2>2 DEF StagedOK
<1>7. UnrecordedOK'
  BY <1>1, <1>2 DEF RequestsOK, UnrecordedOK, UnrecordedAt, RowsOf, EventsOf, DecisionEvents
<1>8. LedgerAudited'
  BY <1>1 DEF RequestsOK, LedgerAudited, DecisionEvents
<1>9. OutcomeOK'
  <2>1. \A r \in Requests : RecordedFor(r)' = RecordedFor(r)
    BY <1>1 DEF RecordedFor, RowsOf
  <2>2. \A r \in Requests : ToldBy(response[r])' = ToldBy(response'[r])
    BY DEF ToldBy
  <2>3. ASSUME NEW r \in Requests PROVE OutcomeAt(r)'
    BY <1>2, <1>3, <2>1, <2>2, Told DEF RequestsOK, OutcomeOK, OutcomeAt, Persisting
  <2> QED
    BY <2>3 DEF OutcomeOK
<1> QED
  BY <1>4, <1>5, <1>6, <1>7, <1>8, <1>9 DEF RequestsOK
-----------------------------------------------------------------------------
(* The seeder and the operator. *)

\* They add no decision and no decision event.
LEMMA TablesStep ==
  ASSUME RequestsOK,
         UNCHANGED <<config, decisions, pc, locals, staged, sent, holding, cancelled, response>>,
         policies' \subseteq StorablePolicy, UniquePolicies(policies'),
         outbox' \subseteq DecisionEvent \cup SeedEvent,
         DecisionEvents' = DecisionEvents
  PROVE  RequestsOK'
<1>1. TypeOK'
  BY DEF RequestsOK, TypeOK, locals
<1>2. LocalsOK' /\ StagedOK'
  BY DEF RequestsOK, LocalsOK, LocalsAt, StagedOK, StagedAt, locals
<1>3. LedgerAudited' /\ UnrecordedOK'
  BY DEF RequestsOK, LedgerAudited, UnrecordedOK, UnrecordedAt, RowsOf, EventsOf
<1>4. OutcomeOK'
  BY DEF RequestsOK, OutcomeOK, OutcomeAt, RecordedFor, RowsOf, locals
<1> QED
  BY <1>1, <1>2, <1>3, <1>4 DEF RequestsOK

LEMMA ReseededType ==
  ASSUME NEW p \in StorablePolicy, NEW seeds \in SUBSET StorablePolicy
  PROVE  /\ Reseeded(p, seeds) \in StorablePolicy
         /\ Reseeded(p, seeds).id = p.id
         /\ \A q : /\ SameRoute(Reseeded(p, seeds), q) <=> SameRoute(p, q)
                   /\ SameRoute(q, Reseeded(p, seeds)) <=> SameRoute(q, p)
<1> DEFINE own == {s \in seeds : s.id = p.id}
           roles == p.requiredRoles \cup UNION {s.requiredRoles : s \in own}
           capabilities == p.requiredCapabilities \cup UNION {s.requiredCapabilities : s \in own}
           knownRoles == {Plain(w) : w \in KnownRoles}
           knownCapabilities == {Plain(w) : w \in KnownCapabilities}
<1>1. p \in Policy /\ seeds \subseteq Policy
  BY DEF StorablePolicy
<1>2. roles \in SUBSET Text /\ capabilities \in SUBSET Text
  BY <1>1 DEF Policy
<1>3. roles \subseteq knownRoles /\ capabilities \subseteq knownCapabilities
  <2>1. \A s \in seeds \cup {p} :
          s.requiredRoles \subseteq knownRoles /\ s.requiredCapabilities \subseteq knownCapabilities
    BY DEF StorablePolicy
  <2> QED
    BY <2>1
<1>4. Reseeded(p, seeds)
        = [p EXCEPT !.requiredRoles = roles, !.requiredCapabilities = capabilities]
  BY DEF Reseeded
<1> HIDE DEF roles, capabilities
<1>5. /\ Reseeded(p, seeds) \in Policy
      /\ Reseeded(p, seeds).id = p.id
      /\ Reseeded(p, seeds).target = p.target
      /\ Reseeded(p, seeds).method = p.method
      /\ Reseeded(p, seeds).route = p.route
      /\ Reseeded(p, seeds).operation = p.operation
      /\ Reseeded(p, seeds).effect = p.effect
      /\ Reseeded(p, seeds).status = p.status
      /\ Reseeded(p, seeds).requiredRoles = roles
      /\ Reseeded(p, seeds).requiredCapabilities = capabilities
  BY <1>1, <1>2, <1>4 DEF Policy
<1>6. Reseeded(p, seeds) \in StorablePolicy
  BY <1>5, <1>3 DEF StorablePolicy
<1> QED
  BY <1>5, <1>6 DEF SameRoute

\* Part of a seed is for the same route and asks for less.
LEMMA PartOfSeed ==
  ASSUME NEW s \in StorablePolicy, NEW t \in PartsOf(s)
  PROVE  /\ t \in StorablePolicy /\ t.id = s.id
         /\ t.requiredRoles \subseteq s.requiredRoles
         /\ t.requiredCapabilities \subseteq s.requiredCapabilities
<1>1. PICK roles \in SUBSET s.requiredRoles, capabilities \in SUBSET s.requiredCapabilities :
        t = WithLists(s, roles, capabilities)
  BY DEF PartsOf
<1>2. s \in Policy
  BY DEF StorablePolicy
<1>3. /\ t \in Policy /\ t.id = s.id /\ t.target = s.target /\ t.method = s.method
      /\ t.route = s.route /\ t.operation = s.operation
      /\ t.effect = s.effect /\ t.status = s.status
      /\ t.requiredRoles = roles /\ t.requiredCapabilities = capabilities
  BY <1>1, <1>2 DEF Policy, WithLists
<1> QED
  BY <1>3 DEF StorablePolicy

LEMMA SeedsStorable ==
  ASSUME NEW seeds \in SeedsCommitted PROVE seeds \in SUBSET StorablePolicy
<1>1. CanonicalPolicies \subseteq StorablePolicy
  BY ExchangeAssumption
<1>2. CASE seeds = CanonicalPolicies
  BY <1>1, <1>2
<1>3. CASE seeds \in SeedParts(CanonicalPolicies)
  <2>1. ASSUME NEW t \in seeds PROVE t \in StorablePolicy
    <3>1. PICK s \in CanonicalPolicies : t \in PartsOf(s)
      BY <1>3 DEF SeedParts
    <3> QED
      BY <1>1, <3>1, PartOfSeed
  <2> QED
    BY <2>1
<1> QED
  BY <1>2, <1>3 DEF SeedsCommitted

LEMMA SeedStep ==
  ASSUME RequestsOK, Seed
  PROVE  RequestsOK'
<1>0. PICK seeds \in SeedsCommitted :
        /\ FreshSeeds(policies, seeds) \subseteq CanonicalPolicies
        /\ policies' = SeededPolicies(policies, seeds)
        /\ outbox' = outbox \cup {PolicySeededAuditEvent(s) : s \in FreshSeeds(policies, seeds)}
        /\ UNCHANGED <<config, decisions, pc, locals, staged, sent, holding, cancelled, response>>
  BY DEF Seed
<1> DEFINE fresh == FreshSeeds(policies, seeds)
           re(p) == Reseeded(p, seeds)
<1>1. /\ fresh \subseteq StorablePolicy /\ policies \subseteq StorablePolicy
      /\ UniquePolicies(policies) /\ seeds \in SUBSET StorablePolicy
  BY <1>0, ExchangeAssumption, SeedsStorable DEF RequestsOK, TypeOK
<1>2. UniquePolicies(fresh)
  BY <1>0, ExchangeAssumption DEF UniquePolicies
<1>3. \A p \in policies, s \in fresh : p.id # s.id /\ ~SameRoute(p, s)
  BY DEF FreshSeeds
<1>4. \A p, q : SameRoute(p, q) <=> SameRoute(q, p)
  BY DEF SameRoute
<1>5. policies' = {re(p) : p \in policies} \cup fresh
  BY <1>0 DEF SeededPolicies
<1>6. \A p \in policies : /\ re(p) \in StorablePolicy /\ re(p).id = p.id
                          /\ \A q : /\ SameRoute(re(p), q) <=> SameRoute(p, q)
                                    /\ SameRoute(q, re(p)) <=> SameRoute(q, p)
  BY <1>1, ReseededType
<1> HIDE DEF fresh, re
<1>7. policies' \subseteq StorablePolicy
  BY <1>1, <1>5, <1>6
<1>8. UniquePolicies(policies')
  <2>1. ASSUME NEW p \in policies, NEW q \in policies,
               re(p).id = re(q).id \/ SameRoute(re(p), re(q))
        PROVE  re(p) = re(q)
    BY <1>1, <1>6, <2>1 DEF UniquePolicies
  <2>2. ASSUME NEW p \in policies, NEW s \in fresh
        PROVE  /\ ~(re(p).id = s.id \/ SameRoute(re(p), s))
               /\ ~(s.id = re(p).id \/ SameRoute(s, re(p)))
    BY <1>3, <1>4, <1>6
  <2> QED
    BY <1>2, <1>5, <2>1, <2>2 DEF UniquePolicies
<1>9. \A s \in fresh : /\ PolicySeededAuditEvent(s) \in SeedEvent
                       /\ PolicySeededAuditEvent(s).type = "exchange.policy.seeded"
  <2>1. \A s \in fresh : s \in Policy /\ s.id \in PolicyIDs
    BY <1>1 DEF StorablePolicy, Policy
  <2> QED
    BY <2>1 DEF PolicySeededAuditEvent, SeedEvent
<1>10. outbox' = outbox \cup {PolicySeededAuditEvent(s) : s \in fresh}
  BY <1>0 DEF fresh
<1>11. DecisionEvents' = DecisionEvents /\ outbox' \subseteq DecisionEvent \cup SeedEvent
  BY <1>9, <1>10 DEF DecisionEvents, RequestsOK, TypeOK
<1> QED
  BY <1>0, <1>7, <1>8, <1>11, TablesStep

LEMMA AdministerStep ==
  ASSUME RequestsOK, Administer
  PROVE  RequestsOK'
<1>1. /\ UNCHANGED <<config, decisions, outbox, pc, locals, staged, sent, holding, cancelled, response>>
      /\ policies' \subseteq StorablePolicy /\ UniquePolicies(policies')
  <2>1. ASSUME NEW p \in AdminPolicies, AdminReplace(p)
        PROVE  policies' \subseteq StorablePolicy /\ UniquePolicies(policies')
    <3>1. p \in StorablePolicy /\ policies \subseteq StorablePolicy /\ UniquePolicies(policies)
      BY ExchangeAssumption DEF RequestsOK, TypeOK
    <3>2. policies' = {q \in policies : q.id # p.id} \cup {p}
          /\ \A q \in policies : q.id # p.id => ~SameRoute(p, q)
      BY <2>1 DEF AdminReplace
    <3>3. \A q : SameRoute(p, q) <=> SameRoute(q, p)
      BY DEF SameRoute
    <3> QED
      BY <3>1, <3>2, <3>3 DEF UniquePolicies
  <2>2. ASSUME NEW p \in policies, AdminDelete(p)
        PROVE  policies' \subseteq StorablePolicy /\ UniquePolicies(policies')
    BY <2>2 DEF AdminDelete, RequestsOK, TypeOK, UniquePolicies
  <2>3. UNCHANGED <<config, decisions, outbox, pc, locals, staged, sent, holding, cancelled, response>>
    BY DEF Administer, AdminReplace, AdminDelete
  <2> QED
    BY <2>1, <2>2, <2>3 DEF Administer
<1>2. DecisionEvents' = DecisionEvents /\ outbox' \subseteq DecisionEvent \cup SeedEvent
  BY <1>1 DEF DecisionEvents, RequestsOK, TypeOK
<1> QED
  BY <1>1, <1>2, TablesStep
-----------------------------------------------------------------------------
(* The invariant, and what follows from it. *)

LEMMA NextRequestsOK == RequestsOK /\ [Next]_vars => RequestsOK'
<1> SUFFICES ASSUME RequestsOK, [Next]_vars PROVE RequestsOK'
  OBVIOUS
<1>1. CASE UNCHANGED vars
  <2>1. UNCHANGED <<config, decisions, outbox, policies, pc, locals, staged, sent, holding, cancelled,
                    response>>
    BY <1>1 DEF vars, database
  <2>2. /\ DecisionEvents' = DecisionEvents /\ outbox' \subseteq DecisionEvent \cup SeedEvent
        /\ policies' \subseteq StorablePolicy /\ UniquePolicies(policies')
    BY <2>1 DEF DecisionEvents, RequestsOK, TypeOK
  <2> QED
    BY <2>1, <2>2, TablesStep
<1>2. ASSUME NEW r \in Requests, Handle(r) PROVE RequestsOK'
  <2>1. CASE RejectMalformed(r) \/ DenyInvalid(r) \/ DenyUnconfigured(r) \/ Accept(r)
    BY <2>1, ArrivalSteps
  <2>2. CASE ResolveFails(r) \/ CapabilitiesFail(r)
    BY <2>2, FailedCallSteps
  <2>3. CASE ResolveActorContext(r) \/ ListOrganizationCapabilities(r)
    BY <2>3, AnsweredSteps
  <2>4. CASE FindPolicy(r) \/ PolicyNotFound(r) \/ ReadRoles(r) \/ ReadCapabilities(r)
    BY <2>4, LookupSteps
  <2>5. CASE \/ Begin(r) \/ InsertDecision(r) \/ InsertAudit(r)
             \/ StatementFails(r) \/ TransactionFails(r)
    BY <2>5, PersistSteps
  <2>6. CASE SendCommit(r) \/ Committed(r) \/ CommitFails(r)
    BY <2>6, CommitSteps
  <2>7. CASE Reply(r) \/ ReplyLost(r)
    BY <2>7, ReplySteps
  <2> QED
    BY <1>2, <2>1, <2>2, <2>3, <2>4, <2>5, <2>6, <2>7 DEF Handle
<1> QED
  BY <1>1, <1>2, DisconnectStep, ServerSteps, CrashStep, SeedStep, AdministerStep
     DEF Next, Terminated

\* Begin takes a connection, and every end of a transaction gives it back.
LEMMA NextConnections ==
  ASSUME RequestsOK, ConnectionsOK, [Next]_vars PROVE ConnectionsOK'
<1>1. /\ \A q \in Requests : q \in holding <=> pc[q] \in InTransaction
      /\ holding \subseteq Requests
      /\ Cardinality(holding) <= MaxConns /\ MaxConns \in Nat
  BY ExchangeAssumption DEF ConnectionsOK
<1>2. IsFiniteSet(holding) /\ Cardinality(holding) \in Nat
  BY <1>1, ExchangeAssumption, FS_Subset, FS_CardinalityType
<1>3. ASSUME holding' \subseteq holding,
             \A q \in Requests : q \in holding' <=> pc'[q] \in InTransaction
      PROVE  ConnectionsOK'
  <2>1. Cardinality(holding') <= Cardinality(holding) /\ Cardinality(holding') \in Nat
    BY <1>2, <1>3, FS_Subset, FS_CardinalityType
  <2>2. Cardinality(holding') <= MaxConns
    BY <1>1, <1>2, <2>1
  <2>3. holding' = {q \in Requests : pc'[q] \in InTransaction}
    BY <1>1, <1>3
  <2> QED
    BY <2>2, <2>3 DEF ConnectionsOK
<1>4. ASSUME NEW r \in Requests, NEW there, pc' = [pc EXCEPT ![r] = there]
      PROVE  pc'[r] = there /\ \A q \in Requests \ {r} : pc'[q] = pc[q]
  BY <1>4 DEF RequestsOK, TypeOK
<1>5. ASSUME NEW r \in Requests, NEW there, pc' = [pc EXCEPT ![r] = there],
             UNCHANGED holding, pc[r] \in InTransaction <=> there \in InTransaction
      PROVE  ConnectionsOK'
  <2>1. pc'[r] = there /\ \A q \in Requests \ {r} : pc'[q] = pc[q]
    BY <1>4, <1>5
  <2> QED
    BY <1>1, <1>3, <1>5, <2>1
<1>6. CASE UNCHANGED <<pc, holding>>
  BY <1>1, <1>3, <1>6
<1>7. CASE Crash
  BY <1>3, <1>7 DEF Crash, InTransaction
<1>8. ASSUME NEW r \in Requests, Begin(r) PROVE ConnectionsOK'
  <2>1. /\ Cardinality(holding) < MaxConns /\ holding' = holding \cup {r}
        /\ pc' = [pc EXCEPT ![r] = "insert"]
    BY <1>8 DEF Begin, CanQuery, ConnectionFree, Goto
  <2>2. Cardinality(holding') <= Cardinality(holding) + 1
    BY <1>2, <2>1, FS_AddElement
  <2>3. Cardinality(holding') \in Nat
    BY <1>2, <2>1, FS_AddElement, FS_CardinalityType
  <2>4. Cardinality(holding') <= MaxConns
    BY <1>1, <1>2, <2>1, <2>2, <2>3
  <2>5. pc'[r] = "insert" /\ \A q \in Requests \ {r} : pc'[q] = pc[q]
    BY <1>4, <2>1
  <2>6. "insert" \in InTransaction
    BY DEF InTransaction
  <2>7. holding' = {q \in Requests : pc'[q] \in InTransaction}
    BY <1>1, <2>1, <2>5, <2>6
  <2> QED
    BY <2>4, <2>7 DEF ConnectionsOK
<1>9. ASSUME NEW r \in Requests, Committed(r) \/ CommitFails(r) \/ TransactionFails(r)
      PROVE  ConnectionsOK'
  <2>1. pc' = [pc EXCEPT ![r] = "reply"] /\ holding' = holding \ {r}
    BY <1>9 DEF Committed, CommitFails, TransactionFails, ReturnError, EndTransaction, Goto
  <2>2. pc'[r] = "reply" /\ \A q \in Requests \ {r} : pc'[q] = pc[q]
    BY <1>4, <2>1
  <2>3. "reply" \notin InTransaction
    BY DEF InTransaction
  <2> QED
    BY <1>1, <1>3, <2>1, <2>2, <2>3
<1>10. ASSUME NEW r \in Requests, InsertDecision(r) \/ InsertAudit(r) \/ SendCommit(r)
       PROVE  ConnectionsOK'
  BY <1>5, <1>10 DEF InsertDecision, InsertAudit, SendCommit, Goto, InTransaction
<1>11. ASSUME NEW r \in Requests, StatementFails(r) \/ Reply(r) \/ ReplyLost(r)
       PROVE  ConnectionsOK'
  BY <1>5, <1>11 DEF StatementFails, Reply, ReplyLost, ReturnError, Goto, InTransaction
<1>12. ASSUME NEW r \in Requests,
              \/ RejectMalformed(r) \/ DenyInvalid(r) \/ DenyUnconfigured(r) \/ Accept(r)
              \/ ResolveActorContext(r) \/ ResolveFails(r)
              \/ ListOrganizationCapabilities(r) \/ CapabilitiesFail(r)
              \/ FindPolicy(r) \/ PolicyNotFound(r) \/ ReadRoles(r) \/ ReadCapabilities(r)
       PROVE  ConnectionsOK'
  <2>1. PICK here \in {"idle"} \cup Looking, there \in {"begin", "reply"} \cup Looking :
          Goto(r, here, there)
    BY <1>12 DEF RejectMalformed, DenyInvalid, DenyUnconfigured, Accept, ResolveActorContext,
       ResolveFails, ListOrganizationCapabilities, CapabilitiesFail, FindPolicy,
       PolicyNotFound, ReadRoles, ReadCapabilities, Deny, Conclude, Looking
  <2>2. OutsideDatabase
    BY <1>12 DEF RejectMalformed, DenyInvalid, DenyUnconfigured, Accept, ResolveActorContext,
       ResolveFails, ListOrganizationCapabilities, CapabilitiesFail, FindPolicy,
       PolicyNotFound, ReadRoles, ReadCapabilities
  <2>3. here \notin InTransaction /\ there \notin InTransaction
    BY DEF Looking, InTransaction
  <2> QED
    BY <1>5, <2>1, <2>2, <2>3 DEF Goto, OutsideDatabase
<1>13. ASSUME NEW r \in Requests, Disconnect(r) \/ ServerCommits(r) \/ ServerAborts(r)
       PROVE  ConnectionsOK'
  BY <1>6, <1>13 DEF Disconnect, ServerCommits, ServerAborts
<1>14. CASE Seed \/ Administer \/ UNCHANGED vars
  BY <1>6, <1>14 DEF Seed, Administer, AdminReplace, AdminDelete, vars
<1> QED
  BY <1>7, <1>8, <1>9, <1>10, <1>11, <1>12, <1>13, <1>14 DEF Next, Handle, Terminated

LEMMA InitConnections == Init => ConnectionsOK
BY FS_EmptySet, ExchangeAssumption DEF Init, ConnectionsOK, InTransaction

\* What is known of every request at every point of its goroutine: the induction on which the
\* theorems below rest.
THEOREM InvariantHolds == Spec => []IInv
<1>1. Init => IInv
  BY InitRequestsOK, InitConnections DEF IInv
<1>2. IInv /\ [Next]_vars => IInv'
  BY NextRequestsOK, NextConnections DEF IInv
<1> QED
  BY <1>1, <1>2, PTL DEF Spec

\* Type correctness, with the uniqueness of policies and of their routes that the database
\* enforces, for the whole endpoint with the seeder and the operator.
THEOREM TypeCorrect == Spec => []TypeOK
<1>1. IInv => TypeOK
  BY DEF IInv, RequestsOK
<1> QED
  BY <1>1, InvariantHolds, PTL

\* CreateDecisionWithAudit (repository.go:30-50): a decision is on record exactly when its
\* audit event is, whatever the interleaving, failures and crashes.
THEOREM DecisionsAudited == Spec => []LedgerAudited
<1>1. IInv => LedgerAudited
  BY DEF IInv, RequestsOK
<1> QED
  BY <1>1, InvariantHolds, PTL
-----------------------------------------------------------------------------
(* Departed clients. *)

LEMMA OnlyTheServerRecords ==
  ASSUME IInv, [Next]_vars
  PROVE  \/ UNCHANGED <<decisions, DecisionEvents>>
         \/ \E r \in Requests : ServerCommits(r)
<1>1. CASE Seed
  <2>1. \A s : PolicySeededAuditEvent(s).type = "exchange.policy.seeded"
    BY DEF PolicySeededAuditEvent
  <2> QED
    BY <1>1, <2>1 DEF Seed, DecisionEvents
<1>2. CASE Administer \/ Crash \/ Terminated \/ UNCHANGED vars
  BY <1>2 DEF Administer, AdminReplace, AdminDelete, Crash, Terminated, vars, database,
              DecisionEvents
<1>3. ASSUME NEW r \in Requests, Handle(r) \/ Disconnect(r) \/ ServerAborts(r)
      PROVE  UNCHANGED <<decisions, outbox>>
  BY <1>3 DEF Handle, Disconnect, ServerAborts, RejectMalformed, DenyInvalid, DenyUnconfigured,
       Accept, ResolveActorContext, ResolveFails, ListOrganizationCapabilities, CapabilitiesFail,
       FindPolicy, PolicyNotFound, ReadRoles, ReadCapabilities, Begin, InsertDecision,
       InsertAudit, SendCommit, Committed, CommitFails, StatementFails, TransactionFails, Reply,
       ReplyLost, OutsideDatabase, database
<1> QED
  BY <1>1, <1>2, <1>3 DEF Next, DecisionEvents

LEMMA OnlySendCommitSends ==
  ASSUME [Next]_vars, NEW r \in Requests, r \in cancelled, r \notin sent
  PROVE  r \notin sent'
<1>1. ASSUME NEW q \in Requests, Handle(q) \/ Disconnect(q) \/ ServerCommits(q) \/ ServerAborts(q)
      PROVE  sent' \subseteq sent \/ (q \notin cancelled /\ sent' = sent \cup {q})
  BY <1>1 DEF Handle, Disconnect, ServerCommits, ServerAborts, RejectMalformed, DenyInvalid,
       DenyUnconfigured, Accept, ResolveActorContext, ResolveFails, ListOrganizationCapabilities,
       CapabilitiesFail, FindPolicy, PolicyNotFound, ReadRoles, ReadCapabilities, Begin,
       InsertDecision, InsertAudit, SendCommit, Committed, CommitFails, StatementFails,
       TransactionFails, Reply, ReplyLost, OutsideDatabase
<1> QED
  BY <1>1 DEF Next, Seed, Administer, AdminReplace, AdminDelete, Crash, Terminated, vars

\* A client that disconnects cancels the context its calls run on (service.go:91-105): no
\* decision about it becomes durable from then on, unless its COMMIT was sent before.
THEOREM DisconnectedUnrecorded == Spec => NoRecordAfterDisconnect
<1> DEFINE Unrecorded ==
      \A r \in cancelled : r \notin sent => r \notin sent' /\ RowsOf(r)' = RowsOf(r)
<1>1. IInv /\ [Next]_vars => [Unrecorded]_vars
  <2> SUFFICES ASSUME IInv, [Next]_vars, NEW r \in cancelled, r \notin sent
               PROVE  r \notin sent' /\ RowsOf(r)' = RowsOf(r)
    OBVIOUS
  <2>1. r \in Requests
    BY DEF IInv, RequestsOK, TypeOK
  <2>2. RowsOf(r)' = RowsOf(r)
    <3>1. CASE UNCHANGED decisions
      BY <3>1 DEF RowsOf
    <3>2. ASSUME NEW q \in Requests, ServerCommits(q)
          PROVE  RowsOf(r)' = RowsOf(r)
      <4>1. q # r
        BY <3>2 DEF ServerCommits
      <4> QED
        BY <2>1, <3>2, <4>1, RecordedTables DEF IInv
    <3> QED
      BY <3>1, <3>2, OnlyTheServerRecords
  <2> QED
    BY <2>1, <2>2, OnlySendCommitSends
<1> QED
  BY <1>1, InvariantHolds, PTL DEF Spec, NoRecordAfterDisconnect
-----------------------------------------------------------------------------
(* The endpoint implements the decision ledger. *)

LEMMA InitLedger == Init => Ledger!LedgerInit
BY DEF Init, Ledger!LedgerInit, Ledger!Unanswered, RecordedFor, ReportedFor, RowsOf, EventsOf,
       DecisionEvents, ToldBy

\* A response to some requests that are told of a failure.
LEMMA RefuseStep ==
  ASSUME NEW rs \in SUBSET Requests, UNCHANGED <<decisions, DecisionEvents>>,
         \A r \in rs : response[r] = NoResponse /\ ToldBy(response'[r]) = "error",
         \A r \in Requests \ rs : response'[r] = response[r]
  PROVE  Ledger!Refuse(rs)
<1>1. \A r \in Requests : RecordedFor(r)' = RecordedFor(r) /\ ReportedFor(r)' = ReportedFor(r)
  BY DEF RecordedFor, ReportedFor, RowsOf, EventsOf
<1>2. \A r \in Requests : ToldBy(response[r])' = IF r \in rs THEN "error" ELSE ToldBy(response[r])
  BY DEF ToldBy
<1>3. \A r \in rs : ToldBy(response[r]) = "unanswered"
  BY Told
<1> QED
  BY <1>1, <1>2, <1>3 DEF Ledger!Refuse, Ledger!Unanswered

LEMMA RecordStep ==
  ASSUME IInv, NEW r \in Requests, ServerCommits(r)
  PROVE  Ledger!Record(r)
<1> DEFINE d == IF draft[r].decision = "ALLOW" THEN "ALLOW" ELSE "DENY"
<1>1. r \in sent /\ UNCHANGED response
  BY DEF ServerCommits
<1>2. /\ draft[r] \in Row /\ RowsOf(r) = {}
      /\ RowsOf(r)' = {draft[r]} /\ EventsOf(r)' = {AuditEventForResult(draft[r])}
      /\ \A q \in Requests \ {r} : RowsOf(q)' = RowsOf(q) /\ EventsOf(q)' = EventsOf(q)
  BY RecordedTables DEF IInv
<1>3. AuditEventForResult(draft[r]).result = "ALLOWED" <=> draft[r].decision = "ALLOW"
  BY <1>2, AuditEventType DEF Describes
<1>4. /\ RecordedFor(r)' = d /\ ReportedFor(r)' = d
      /\ \A q \in Requests \ {r} : /\ RecordedFor(q)' = RecordedFor(q)
                                   /\ ReportedFor(q)' = ReportedFor(q)
  BY <1>2, <1>3 DEF RecordedFor, ReportedFor
<1>5. RecordedFor(r) = "none"
  BY <1>2 DEF RecordedFor
<1>6. ToldBy(response[r]) \in {"unanswered", "error"}
  BY <1>5, Told DEF IInv, RequestsOK, OutcomeOK, OutcomeAt, ToldBy
<1>7. \A q \in Requests : ToldBy(response[q])' = ToldBy(response[q])
  BY <1>1 DEF ToldBy
<1>8. d \in {"ALLOW", "DENY"}
  OBVIOUS
<1> QED
  BY <1>4, <1>5, <1>6, <1>7, <1>8
     DEF Ledger!Record, Ledger!Unanswered, Ledger!Decisions

LEMMA ReplyTells ==
  ASSUME IInv, NEW r \in Requests, Reply(r) \/ ReplyLost(r)
  PROVE  Ledger!Tell(r) \/ Ledger!Refuse({r})
<1>1. /\ pc[r] = "reply" /\ UNCHANGED <<decisions, outbox>>
      /\ response' = [response EXCEPT ![r] = ResponseFor(outcome[r], draft[r])]
         \/ response' = [response EXCEPT ![r] = LostResponse]
  BY DEF Reply, ReplyLost, Goto, database
<1>2. /\ response[r] = NoResponse /\ outcome[r] \in Outcome /\ outcome[r].status # 0
      /\ outcome[r].code \in FailureCodes => outcome[r].status # 200
      /\ outcome[r].code \notin FailureCodes =>
           RecordedFor(r) = IF outcome[r].status = 200 THEN "ALLOW" ELSE "DENY"
  BY <1>1 DEF IInv, RequestsOK, TypeOK, OutcomeOK, OutcomeAt
<1>3. \A q \in Requests \ {r} : response'[q] = response[q]
  BY <1>1 DEF IInv, RequestsOK, TypeOK
<1>4. response'[r] \in {ResponseFor(outcome[r], draft[r]), LostResponse}
  BY <1>1 DEF IInv, RequestsOK, TypeOK
<1>5. UNCHANGED DecisionEvents
  BY <1>1 DEF DecisionEvents
<1>6. CASE ToldBy(response'[r]) = "error"
  BY <1>1, <1>2, <1>3, <1>5, <1>6, RefuseStep
<1>7. CASE ToldBy(response'[r]) # "error"
  <2>1. ToldBy(response'[r]) = RecordedFor(r) /\ RecordedFor(r) \in {"ALLOW", "DENY"}
    BY <1>2, <1>4, <1>7, Told, ReplyTold
  <2>2. \A q \in Requests : RecordedFor(q)' = RecordedFor(q) /\ ReportedFor(q)' = ReportedFor(q)
    BY <1>1, <1>5 DEF RecordedFor, ReportedFor, RowsOf, EventsOf
  <2>3. ToldBy(response[r]) = "unanswered"
    BY <1>2, Told
  <2>4. \A q \in Requests : ToldBy(response[q])' = IF q = r THEN RecordedFor(r)
                                                  ELSE ToldBy(response[q])
    BY <1>3, <2>1 DEF ToldBy
  <2> QED
    BY <2>1, <2>2, <2>3, <2>4 DEF Ledger!Tell, Ledger!Unanswered
<1> QED
  BY <1>6, <1>7

LEMMA NextLedger == IInv /\ [Next]_vars => [Ledger!LedgerNext]_(Ledger!ledgerVars)
<1> SUFFICES ASSUME IInv, [Next]_vars PROVE [Ledger!LedgerNext]_(Ledger!ledgerVars)
  OBVIOUS
<1>1. ASSUME NEW r \in Requests, ServerCommits(r)
      PROVE  Ledger!LedgerNext
  BY <1>1, RecordStep DEF Ledger!LedgerNext
<1>2. ASSUME NEW r \in Requests, Reply(r) \/ ReplyLost(r)
      PROVE  Ledger!LedgerNext
  BY <1>2, ReplyTells DEF Ledger!LedgerNext
<1>3. ASSUME Crash PROVE Ledger!LedgerNext
  <2> DEFINE inFlight == {r \in Requests : pc[r] \notin {"idle", "done"}}
  <2>1. /\ UNCHANGED <<decisions, DecisionEvents>>
        /\ \A r \in inFlight : response'[r] = LostResponse
        /\ \A r \in Requests \ inFlight : response'[r] = response[r]
    BY <1>3 DEF Crash, database, DecisionEvents
  <2>2. \A r \in inFlight : response[r] = NoResponse
    BY DEF IInv, RequestsOK, OutcomeOK, OutcomeAt
  <2>3. Ledger!Refuse(inFlight)
    BY <2>1, <2>2, Told, RefuseStep
  <2> QED
    BY <2>3 DEF Ledger!LedgerNext
<1>4. ASSUME UNCHANGED <<decisions, DecisionEvents>>, UNCHANGED response
      PROVE  UNCHANGED Ledger!ledgerVars
  BY <1>4 DEF Ledger!ledgerVars, RecordedFor, ReportedFor, RowsOf, EventsOf, ToldBy
<1>5. \/ UNCHANGED response \/ Crash
      \/ \E r \in Requests : Reply(r) \/ ReplyLost(r)
  <2>1. ASSUME NEW r \in Requests,
               Handle(r) \/ Disconnect(r) \/ ServerCommits(r) \/ ServerAborts(r)
        PROVE  UNCHANGED response \/ Reply(r) \/ ReplyLost(r)
    BY <2>1 DEF Handle, Disconnect, RejectMalformed, DenyInvalid, DenyUnconfigured, Accept,
         ResolveActorContext, ResolveFails, ListOrganizationCapabilities, CapabilitiesFail,
         FindPolicy, PolicyNotFound, ReadRoles, ReadCapabilities, Begin, InsertDecision,
         InsertAudit, SendCommit, Committed, CommitFails, StatementFails, TransactionFails,
         ServerCommits, ServerAborts, OutsideDatabase
  <2> QED
    BY <2>1 DEF Next, Seed, Administer, AdminReplace, AdminDelete, Terminated, vars
<1> QED
  BY <1>1, <1>2, <1>3, <1>4, <1>5, OnlyTheServerRecords

\* The endpoint implements the abstract decision ledger: decision and audit event become
\* durable together, for good and once per request, and a client told ALLOW or DENY
\* (handler.go:73-85) is told what is durable.
THEOREM ImplementsLedger == Spec => LedgerRefinement
<1> QED
  BY InitLedger, NextLedger, InvariantHolds, PTL DEF Spec, LedgerRefinement, Ledger!LedgerSpec
=============================================================================
