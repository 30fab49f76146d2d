------------------------------- MODULE Exchange -------------------------------
(***************************************************************************)
(* POST /exchange/authorize of TaifaExchange: exchange.Handler.Authorize,  *)
(* exchange.Service.Authorize and exchange.Repository.CreateDecisionWith-  *)
(* Audit, for several requests at once.  Every request is a goroutine of   *)
(* its own; it shares the connection pool and the database with the others *)
(* and the database with the seeder and with whoever maintains the policy  *)
(* tables.  One action is one call to TaifaID, one SQL statement, or the   *)
(* handling of the request before or after them.                           *)
(***************************************************************************)
EXTENDS PolicyStore, Naturals, FiniteSets

CONSTANTS
  Persons,            \* the persons TaifaID knows
  Requests,           \* the requests, which also name their decision ids
  Inputs,             \* what clients send
  ActorAnswers,       \* the actor contexts TaifaID resolves
  CapabilityAnswers,  \* the capability lists TaifaID returns
  MaxConns,           \* DATABASE_MAX_CONNS: the size of the pgx pool
  Configurations,     \* which dependencies the environment configures
  CanonicalPolicies,  \* what the seeder inserts
  InitialPolicies,    \* the policy tables at start
  AdminPolicies,      \* the policy versions an operator may write with SQL
  Deletable           \* the ids of policies an operator may delete

Header == [fields : Nat, bearer : BOOLEAN]

Input == [wellFormed : BOOLEAN, header : Header,
          org : Text, target : Text, method : Text, route : Text, operation : Text]

ActorContext == [person : Persons \cup {""}, roles : SUBSET Text, memberships : SUBSET SUBSET Text]

Configuration == [database : BOOLEAN, identity : BOOLEAN]

ASSUME ExchangeAssumption ==
  /\ Inputs \subseteq Input
  /\ ActorAnswers \subseteq ActorContext
  /\ CapabilityAnswers \subseteq SUBSET Text
  /\ MaxConns \in Nat \ {0}
  /\ Configurations \subseteq Configuration
  /\ CanonicalPolicies \subseteq StorablePolicy /\ UniquePolicies(CanonicalPolicies)
  /\ InitialPolicies \subseteq StorablePolicy /\ UniquePolicies(InitialPolicies)
  /\ AdminPolicies \subseteq StorablePolicy
  /\ Deletable \subseteq PolicyIDs
  /\ IsFiniteSet(Requests)

VARIABLES
  config,      \* what App.New found configured
  policies,    \* the policy tables
  decisions,   \* exchange_authorization_decisions
  outbox,      \* audit_outbox
  pc,          \* where each request's goroutine is
  request,     \* its normalised request
  draft,       \* the DecisionRecord it is building
  found,       \* the Policy it is reading
  outcome,     \* the HTTP status and error code it has settled on
  staged,      \* the rows its open transaction has written
  sent,        \* the requests whose COMMIT is with the server, not yet applied or refused
  holding,     \* the requests that hold a connection for a transaction
  cancelled,   \* the requests whose client is gone: their context is cancelled
  response     \* what the client has received

database == <<policies, decisions, outbox>>
locals == <<request, draft, found, outcome>>
vars == <<config, database, pc, locals, staged, sent, holding, cancelled, response>>
-----------------------------------------------------------------------------
DenyReasons ==
  EvaluationDenyReasons \cup
  {"missing_token", "missing_organization_id", "unsupported_target_system",
   "unsupported_method", "taifa_id_client_not_configured", "actor_context_resolve_failed",
   "organization_capabilities_lookup_failed"}

\* Rows of exchange_authorization_decisions; "" is NULL.
Row == [id : Requests, decision : {"ALLOW", "DENY"},
        target : Text, method : Text, route : Text, operation : Text, org : Text,
        person : Persons \cup {""}, matchedPolicyID : PolicyIDs \cup {""},
        denyReason : DenyReasons,
        actorRoles : SUBSET Text, organizationCapabilities : SUBSET Text,
        requiredRoles : SUBSET Text, requiredCapabilities : SUBSET Text]

\* Rows of audit_outbox.  The payload of a decision's event is the decision's row.
DecisionEvent ==
  [type : {"exchange.authorization.allowed", "exchange.authorization.denied",
           "exchange.actor_context.resolve_failed", "exchange.policy.not_found"},
   resource : Requests, actor : Persons \cup {""}, subject : Text,
   result : {"ALLOWED", "DENIED"}, payload : Row]
SeedEvent == [type : {"exchange.policy.seeded"}, resource : PolicyIDs, payload : Policy]

NothingStaged == [rows |-> {}, events |-> {}]

\* Error codes of decided denials, and of answers that are no decision.
DenialCodes == {"VALIDATION_ERROR", "UNAUTHORIZED", "FORBIDDEN", "UPSTREAM_UNAVAILABLE"}
FailureCodes == {"INVALID_JSON", "INTERNAL_ERROR", "LOST"}
Codes == DenialCodes \cup FailureCodes \cup {""}

\* HTTP statuses; 0 where there is none.
Statuses == {0, 200, 400, 401, 403, 500, 502, 503}

Outcome == [status : Statuses, code : Codes]
NoOutcome == [status |-> 0, code |-> ""]
Internal == [status |-> 500, code |-> "INTERNAL_ERROR"]

Response == [status : Statuses, code : Codes, body : Row \cup {Nil}]
NoResponse == [status |-> 0, code |-> "", body |-> Nil]
LostResponse == [status |-> 0, code |-> "LOST", body |-> Nil]

PCs == {"idle", "resolve", "capabilities", "find", "roles", "policyCapabilities",
        "begin", "insert", "audit", "commit", "committing", "reply", "done"}
-----------------------------------------------------------------------------
\* bearerTokenFromRequest: the header is "Bearer" and one more field.
HasBearerToken(header) == header.fields = 2 /\ header.bearer

\* Variant: an unknown target system is recorded as the client wrote it.
NormalizeTargetSystemAsSent(t) == Fold(t)

\* The folded word if it is a known one, UNKNOWN otherwise.
NormalizeTargetSystemForDecision(t) ==
  IF Fold(t).word \in KnownTargetSystems THEN Fold(t) ELSE Plain("UNKNOWN")

NormalizeMethodForDecision(t) ==
  IF Fold(t).word \in KnownMethods THEN Fold(t) ELSE Plain("UNKNOWN")

\* NormalizeRoute, NormalizeOperation, NormalizeOrganizationID.
NormalizeForDecision(t) == IF TrimSpace(t) = EmptyText THEN Plain("UNKNOWN") ELSE TrimSpace(t)

NormalizeAuthorizeRequest(i) ==
  [i EXCEPT !.org = TrimSpace(@), !.target = Fold(@), !.method = Fold(@),
            !.route = TrimSpace(@), !.operation = TrimSpace(@)]

\* The DecisionRecord Authorize starts from.
NewDecision(r, i) ==
  [id |-> r, decision |-> "DENY",
   target |-> NormalizeTargetSystemForDecision(i.target),
   method |-> NormalizeMethodForDecision(i.method),
   route |-> NormalizeForDecision(i.route),
   operation |-> NormalizeForDecision(i.operation),
   org |-> NormalizeForDecision(i.org),
   person |-> "", matchedPolicyID |-> "", denyReason |-> "",
   actorRoles |-> {}, organizationCapabilities |-> {},
   requiredRoles |-> {}, requiredCapabilities |-> {}]

Denial(reason, status, code) == [reason |-> reason, status |-> status, code |-> code]

NoDenial == Denial("", 0, "")

\* validateRequestForAuthorization, on the normalised request.
ValidateRequestForAuthorization(i) ==
  LET invalid(reason) == Denial(reason, 400, "VALIDATION_ERROR") IN
  IF ~HasBearerToken(i.header) THEN Denial("missing_token", 401, "UNAUTHORIZED")
  ELSE IF i.org = EmptyText THEN invalid("missing_organization_id")
  ELSE IF i.target = EmptyText THEN invalid("missing_target_system")
  ELSE IF i.target.word \notin KnownTargetSystems THEN invalid("unsupported_target_system")
  ELSE IF i.method = EmptyText THEN invalid("missing_method")
  ELSE IF i.method.word \notin KnownMethods THEN invalid("unsupported_method")
  ELSE IF i.route = EmptyText THEN invalid("missing_route")
  ELSE IF i.operation = EmptyText THEN invalid("missing_operation")
  ELSE NoDenial

CollectActorRoles(actor) == NormalizeStringSlice(actor.roles \cup UNION actor.memberships)

\* The CHECK constraints of exchange_authorization_decisions, after migration 2.
ColumnsAccepted(row) ==
  /\ row.target \in {Plain(w) : w \in KnownTargetSystems \cup {"UNKNOWN"}}
  /\ row.method \in {Plain(w) : w \in KnownMethods \cup {"UNKNOWN"}}

\* Variant: no foreign key.
MatchedPolicyUnchecked(row) == TRUE

\* The foreign key of matched_policy_id.
MatchedPolicyStored(row) ==
  row.matchedPolicyID # "" => \E p \in policies : p.id = row.matchedPolicyID

\* auditEventForResult.
EventType(row) ==
  IF row.decision = "ALLOW" THEN "exchange.authorization.allowed"
  ELSE IF row.denyReason = "actor_context_resolve_failed"
         THEN "exchange.actor_context.resolve_failed"
  ELSE IF row.denyReason = "policy_not_found" THEN "exchange.policy.not_found"
  ELSE "exchange.authorization.denied"

AuditEventForResult(row) ==
  [type |-> EventType(row), resource |-> row.id, actor |-> row.person, subject |-> row.org,
   result |-> IF row.decision = "ALLOW" THEN "ALLOWED" ELSE "DENIED", payload |-> row]

PolicySeededAuditEvent(seed) ==
  [type |-> "exchange.policy.seeded", resource |-> seed.id, payload |-> seed]

\* The body of an allowed answer repeats the decision; an error envelope does not.
ResponseFor(out, row) ==
  [status |-> out.status, code |-> out.code, body |-> IF out.status = 200 THEN row ELSE Nil]
-----------------------------------------------------------------------------
Init ==
  /\ config \in Configurations
  /\ policies = InitialPolicies /\ decisions = {} /\ outbox = {}
  /\ pc = [r \in Requests |-> "idle"]
  /\ request = [r \in Requests |-> Nil]
  /\ draft = [r \in Requests |-> Nil]
  /\ found = [r \in Requests |-> Nil]
  /\ outcome = [r \in Requests |-> NoOutcome]
  /\ staged = [r \in Requests |-> NothingStaged]
  /\ sent = {} /\ holding = {} /\ cancelled = {}
  /\ response = [r \in Requests |-> NoResponse]

Goto(r, here, there) == pc[r] = here /\ pc' = [pc EXCEPT ![r] = there]

\* The decision is a denial, and on its way to persist.
Deny(r, here, decision, denial) ==
  /\ Goto(r, here, "begin")
  /\ draft' = [draft EXCEPT ![r] = [decision EXCEPT !.denyReason = denial.reason]]
  /\ outcome' = [outcome EXCEPT ![r] = [status |-> denial.status, code |-> denial.code]]

\* What a request leaves alone while it is not in the database.
OutsideDatabase == UNCHANGED <<config, database, staged, sent, holding, cancelled, response>>
-----------------------------------------------------------------------------
(* The request arrives. *)

\* DecodeJSON fails: no decision is made.
RejectMalformed(r) ==
  /\ \E i \in Inputs : ~i.wellFormed
  /\ Goto(r, "idle", "reply")
  /\ outcome' = [outcome EXCEPT ![r] = [status |-> 400, code |-> "INVALID_JSON"]]
  /\ OutsideDatabase /\ UNCHANGED <<request, draft, found>>

DenyInvalid(r) ==
  /\ \E i \in Inputs :
       LET denial == ValidateRequestForAuthorization(NormalizeAuthorizeRequest(i)) IN
       /\ i.wellFormed /\ denial # NoDenial
       /\ Deny(r, "idle", NewDecision(r, NormalizeAuthorizeRequest(i)), denial)
  /\ OutsideDatabase /\ UNCHANGED <<request, found>>

\* A valid request, but no TaifaID client was configured.
DenyUnconfigured(r) ==
  /\ ~config.identity
  /\ \E i \in Inputs :
       /\ i.wellFormed
       /\ ValidateRequestForAuthorization(NormalizeAuthorizeRequest(i)) = NoDenial
       /\ Deny(r, "idle", NewDecision(r, NormalizeAuthorizeRequest(i)),
               Denial("taifa_id_client_not_configured", 503, "UPSTREAM_UNAVAILABLE"))
  /\ OutsideDatabase /\ UNCHANGED <<request, found>>

Accept(r) ==
  /\ config.identity
  /\ Goto(r, "idle", "resolve")
  /\ \E i \in Inputs :
       /\ i.wellFormed
       /\ ValidateRequestForAuthorization(NormalizeAuthorizeRequest(i)) = NoDenial
       /\ request' = [request EXCEPT ![r] = NormalizeAuthorizeRequest(i)]
       /\ draft' = [draft EXCEPT ![r] = NewDecision(r, NormalizeAuthorizeRequest(i))]
  /\ OutsideDatabase /\ UNCHANGED <<found, outcome>>
-----------------------------------------------------------------------------
(* TaifaID.  A call answers, or fails: refused, timed out, undecodable, or cut off
   by the client's departure. *)

ResolveActorContext(r) ==
  /\ r \notin cancelled
  /\ Goto(r, "resolve", "capabilities")
  /\ \E actor \in ActorAnswers :
       draft' = [draft EXCEPT ![r] = [@ EXCEPT !.person = actor.person,
                                               !.actorRoles = CollectActorRoles(actor)]]
  /\ OutsideDatabase /\ UNCHANGED <<request, found, outcome>>

ResolveFails(r) ==
  /\ Deny(r, "resolve", draft[r], Denial("actor_context_resolve_failed", 401, "UNAUTHORIZED"))
  /\ OutsideDatabase /\ UNCHANGED <<request, found>>

ListOrganizationCapabilities(r) ==
  /\ r \notin cancelled
  /\ Goto(r, "capabilities", "find")
  /\ \E capabilities \in CapabilityAnswers :
       draft' = [draft EXCEPT ![r] =
                   [@ EXCEPT !.organizationCapabilities = NormalizeStringSlice(capabilities)]]
  /\ OutsideDatabase /\ UNCHANGED <<request, found, outcome>>

CapabilitiesFail(r) ==
  /\ Deny(r, "capabilities", draft[r],
          Denial("organization_capabilities_lookup_failed", 502, "UPSTREAM_UNAVAILABLE"))
  /\ OutsideDatabase /\ UNCHANGED <<request, found>>
-----------------------------------------------------------------------------
(* The policy lookup: three statements, each on a connection of its own. *)

\* A connection can be had, for a statement or for a transaction.
ConnectionFree == Cardinality(holding) < MaxConns

CanQuery(r) == config.database /\ r \notin cancelled /\ ConnectionFree

\* The call of the evaluator, with what the request, TaifaID and the tables have said.
Evaluation(r, policy) ==
  Evaluate([target |-> request[r].target, method |-> request[r].method,
            route |-> request[r].route, operation |-> request[r].operation,
            policy |-> policy, actorRoles |-> draft[r].actorRoles,
            organizationCapabilities |-> draft[r].organizationCapabilities])

\* Variant: the requirements are not copied into the decision.
ConcludedWithoutRequirements(decision, evaluation) ==
  [decision EXCEPT !.decision = evaluation.decision,
                   !.matchedPolicyID = evaluation.matchedPolicyID,
                   !.denyReason = evaluation.denyReason]

\* The decision takes over the evaluation.
Concluded(decision, evaluation) ==
  [decision EXCEPT !.decision = evaluation.decision,
                   !.matchedPolicyID = evaluation.matchedPolicyID,
                   !.denyReason = evaluation.denyReason,
                   !.requiredRoles = evaluation.requiredRoles,
                   !.requiredCapabilities = evaluation.requiredCapabilities]

Conclude(r, here, evaluation) ==
  /\ Goto(r, here, "begin")
  /\ draft' = [draft EXCEPT ![r] = Concluded(@, evaluation)]
  /\ outcome' = [outcome EXCEPT ![r] =
                    IF evaluation.decision = "ALLOW" THEN [status |-> 200, code |-> ""]
                    ELSE [status |-> 403, code |-> "FORBIDDEN"]]

Matching(r) == SelectPolicy(policies, LookupInput(request[r].target, request[r].method,
                                                  request[r].route, request[r].operation))

FindPolicy(r) ==
  /\ CanQuery(r)
  /\ Goto(r, "find", "roles")
  /\ \E p \in Matching(r) : found' = [found EXCEPT ![r] = ScannedRow(p)]
  /\ OutsideDatabase /\ UNCHANGED <<request, draft, outcome>>

PolicyNotFound(r) ==
  /\ CanQuery(r)
  /\ pc[r] = "find" /\ Matching(r) = {}
  /\ Conclude(r, "find", Evaluation(r, Nil))
  /\ OutsideDatabase /\ UNCHANGED <<request, found>>

ReadRoles(r) ==
  /\ CanQuery(r)
  /\ Goto(r, "roles", "policyCapabilities")
  /\ found' = [found EXCEPT ![r] =
       [@ EXCEPT !.requiredRoles = ListPolicyRoles(policies, found[r].id)]]
  /\ OutsideDatabase /\ UNCHANGED <<request, draft, outcome>>

ReadCapabilities(r) ==
  /\ CanQuery(r)
  /\ pc[r] = "policyCapabilities"
  /\ found' = [found EXCEPT ![r] =
       [@ EXCEPT !.requiredCapabilities = ListPolicyCapabilities(policies, found[r].id)]]
  /\ Conclude(r, "policyCapabilities", Evaluation(r, found'[r]))
  /\ OutsideDatabase /\ UNCHANGED request
-----------------------------------------------------------------------------
(* persist: one transaction for the decision and its audit event. *)

Begin(r) ==
  /\ CanQuery(r)
  /\ Goto(r, "begin", "insert")
  /\ holding' = holding \cup {r}
  /\ UNCHANGED <<config, database, locals, staged, sent, cancelled, response>>

InsertDecision(r) ==
  /\ r \notin cancelled
  /\ Goto(r, "insert", "audit")
  /\ ColumnsAccepted(draft[r]) /\ MatchedPolicyStored(draft[r])
  /\ staged' = [staged EXCEPT ![r].rows = @ \cup {draft[r]}]
  /\ UNCHANGED <<config, database, locals, sent, holding, cancelled, response>>

\* Variant: the event is written through the pool instead of the transaction.
InsertAuditOutsideTransaction(r) ==
  /\ r \notin cancelled
  /\ Goto(r, "audit", "commit")
  /\ outbox' = outbox \cup {AuditEventForResult(draft[r])}
  /\ UNCHANGED <<config, policies, decisions, locals, staged, sent, holding, cancelled, response>>

InsertAudit(r) ==
  /\ r \notin cancelled
  /\ Goto(r, "audit", "commit")
  /\ staged' = [staged EXCEPT ![r].events = @ \cup {AuditEventForResult(draft[r])}]
  /\ UNCHANGED <<config, database, locals, sent, holding, cancelled, response>>

\* Variant: the commit runs on a context of its own.
SendCommitDetached(r) ==
  /\ Goto(r, "commit", "committing")
  /\ sent' = sent \cup {r}
  /\ UNCHANGED <<config, database, locals, staged, holding, cancelled, response>>

\* Tx.Commit sends COMMIT, unless the context is cancelled by then.
SendCommit(r) ==
  /\ r \notin cancelled
  /\ Goto(r, "commit", "committing")
  /\ sent' = sent \cup {r}
  /\ UNCHANGED <<config, database, locals, staged, holding, cancelled, response>>

\* The server takes the COMMIT it was sent, whether or not anybody still waits for it.
ServerCommits(r) ==
  /\ r \in sent
  /\ decisions' = decisions \cup staged[r].rows
  /\ outbox' = outbox \cup staged[r].events
  /\ staged' = [staged EXCEPT ![r] = NothingStaged]
  /\ sent' = sent \ {r}
  /\ UNCHANGED <<config, policies, pc, locals, holding, cancelled, response>>

\* It fails, or is restarted, before the COMMIT takes effect.
ServerAborts(r) ==
  /\ r \in sent
  /\ staged' = [staged EXCEPT ![r] = NothingStaged]
  /\ sent' = sent \ {r}
  /\ UNCHANGED <<config, database, pc, locals, holding, cancelled, response>>

\* Commit returns nil: the server has said that the transaction is committed.
Committed(r) ==
  /\ r \notin cancelled
  /\ draft[r] \in decisions
  /\ Goto(r, "committing", "reply")
  /\ holding' = holding \ {r}
  /\ UNCHANGED <<config, database, locals, staged, sent, cancelled, response>>

\* Authorize returns an error and no result.
ReturnError(r) ==
  /\ pc' = [pc EXCEPT ![r] = "reply"]
  /\ outcome' = [outcome EXCEPT ![r] = Internal]
  /\ UNCHANGED <<request, draft, found>>

\* Commit returns an error, whatever the server has done or will do with the COMMIT: it
\* refused, or the connection broke, or the client's departure ended the wait.
CommitFails(r) ==
  /\ pc[r] = "committing"
  /\ ReturnError(r)
  /\ holding' = holding \ {r}
  /\ UNCHANGED <<config, database, staged, sent, cancelled, response>>

\* A statement outside a transaction fails, Begin included: the database is not
\* configured or not there, or the client left, while waiting for a connection or later.
StatementFails(r) ==
  /\ pc[r] \in {"find", "roles", "policyCapabilities", "begin"}
  /\ ~config.database \/ r \in cancelled \/ ConnectionFree
  /\ ReturnError(r)
  /\ UNCHANGED <<config, database, staged, sent, holding, cancelled, response>>

\* The deferred Rollback gives the connection back.
EndTransaction(r) ==
  /\ staged' = [staged EXCEPT ![r] = NothingStaged]
  /\ holding' = holding \ {r}

\* Variant: the error of persist is dropped and the result returned.
TransactionFailsUnnoticed(r) ==
  /\ pc[r] \in {"insert", "audit", "commit"}
  /\ EndTransaction(r)
  /\ pc' = [pc EXCEPT ![r] = "reply"]
  /\ UNCHANGED <<config, database, locals, sent, cancelled, response>>

\* Variant: InTx without its deferred Rollback.
TransactionFailsWithoutRollback(r) ==
  /\ pc[r] \in {"insert", "audit", "commit"}
  /\ ReturnError(r)
  /\ UNCHANGED <<config, database, staged, sent, holding, cancelled, response>>

\* A statement inside the transaction fails or is refused, or COMMIT cannot be sent: the
\* transaction is rolled back.
TransactionFails(r) ==
  /\ pc[r] \in {"insert", "audit", "commit"}
  /\ EndTransaction(r)
  /\ ReturnError(r)
  /\ UNCHANGED <<config, database, sent, cancelled, response>>
-----------------------------------------------------------------------------
(* The response, and what can happen to it. *)

Reply(r) ==
  /\ r \notin cancelled
  /\ Goto(r, "reply", "done")
  /\ response' = [response EXCEPT ![r] = ResponseFor(outcome[r], draft[r])]
  /\ UNCHANGED <<config, database, locals, staged, sent, holding, cancelled>>

\* The client is gone, or the server's WriteTimeout has passed.
ReplyLost(r) ==
  /\ Goto(r, "reply", "done")
  /\ response' = [response EXCEPT ![r] = LostResponse]
  /\ UNCHANGED <<config, database, locals, staged, sent, holding, cancelled>>

\* The client closes its connection: net/http cancels the request's context.
Disconnect(r) ==
  /\ pc[r] \notin {"idle", "done"} /\ r \notin cancelled
  /\ cancelled' = cancelled \cup {r}
  /\ UNCHANGED <<config, database, pc, locals, staged, sent, holding, response>>

\* The process dies with its requests; the server rolls their transactions back, but for
\* those whose COMMIT it has been sent.
Crash ==
  LET inFlight == {r \in Requests : pc[r] \notin {"idle", "done"}} IN
  /\ inFlight # {}
  /\ pc' = [r \in Requests |-> IF r \in inFlight THEN "done" ELSE pc[r]]
  /\ response' = [r \in Requests |-> IF r \in inFlight THEN LostResponse ELSE response[r]]
  /\ staged' = [r \in Requests |-> IF r \in sent THEN staged[r] ELSE NothingStaged]
  /\ holding' = {}
  /\ UNCHANGED <<config, database, locals, sent, cancelled>>
-----------------------------------------------------------------------------
(* The other users of the database. *)

\* All seeds, while nobody takes anything out of the tables.
SeedsCommitted ==
  IF Deletable = {} /\ AdminPolicies = {} THEN {CanonicalPolicies} ELSE SeedParts(CanonicalPolicies)

\* taifa-exchange-seed: SeedCanonical, one transaction.  A policy it inserts has its lists.
Seed ==
  \E seeds \in SeedsCommitted :
    /\ FreshSeeds(policies, seeds) \subseteq CanonicalPolicies
    /\ SeedAccepted(policies, seeds)
    /\ policies' = SeededPolicies(policies, seeds)
    /\ outbox' = outbox \cup {PolicySeededAuditEvent(s) : s \in FreshSeeds(policies, seeds)}
    /\ UNCHANGED <<config, decisions, pc, locals, staged, sent, holding, cancelled, response>>

\* A policy that a decision references cannot be deleted; an uncommitted decision
\* makes the deletion wait.
Referenced(id) == \/ \E row \in decisions : row.matchedPolicyID = id
                  \/ \E r \in Requests : \E row \in staged[r].rows : row.matchedPolicyID = id

\* An operator commits another version of one policy with SQL.
AdminReplace(p) ==
  LET others == {q \in policies : q.id # p.id} IN
  /\ \A q \in others : ~SameRoute(p, q)
  /\ policies' = others \cup {p}
  /\ UNCHANGED <<config, decisions, outbox, pc, locals, staged, sent, holding, cancelled, response>>

AdminDelete(p) ==
  /\ p.id \in Deletable /\ ~Referenced(p.id)
  /\ policies' = policies \ {p}
  /\ UNCHANGED <<config, decisions, outbox, pc, locals, staged, sent, holding, cancelled, response>>
-----------------------------------------------------------------------------
\* A request's goroutine, whose every step its fairness covers.
Handle(r) ==
  \/ RejectMalformed(r) \/ DenyInvalid(r) \/ DenyUnconfigured(r) \/ Accept(r)
  \/ ResolveActorContext(r) \/ ResolveFails(r)
  \/ ListOrganizationCapabilities(r) \/ CapabilitiesFail(r)
  \/ FindPolicy(r) \/ PolicyNotFound(r) \/ ReadRoles(r) \/ ReadCapabilities(r)
  \/ Begin(r) \/ InsertDecision(r) \/ InsertAudit(r)
  \/ SendCommit(r) \/ Committed(r) \/ CommitFails(r)
  \/ StatementFails(r) \/ TransactionFails(r)
  \/ Reply(r) \/ ReplyLost(r)

Administer == \/ \E p \in AdminPolicies : AdminReplace(p)
              \/ \E p \in policies : AdminDelete(p)

\* Every request is over: a bounded model has no other.
Terminated == (\A r \in Requests : pc[r] = "done") /\ UNCHANGED vars

Next == \/ \E r \in Requests : Handle(r) \/ Disconnect(r) \/ ServerCommits(r) \/ ServerAborts(r)
        \/ Crash \/ Seed \/ Administer \/ Terminated

Spec == Init /\ [][Next]_vars

FairSpec == Spec /\ \A r \in Requests : WF_vars(Handle(r))
=============================================================================
