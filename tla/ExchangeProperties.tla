-------------------------- MODULE ExchangeProperties --------------------------
(* What the authorize endpoint of TaifaExchange must never do, and must do in the end. *)
EXTENDS Exchange

\* Every local variable, table and response has the shape the code gives it.
TypeOK ==
  /\ config \in Configuration
  /\ policies \subseteq StorablePolicy /\ UniquePolicies(policies)
  /\ decisions \subseteq Row
  /\ outbox \subseteq DecisionEvent \cup SeedEvent
  /\ pc \in [Requests -> PCs]
  /\ request \in [Requests -> Input \cup {Nil}]
  /\ draft \in [Requests -> Row \cup {Nil}]
  /\ found \in [Requests -> Policy \cup {Nil}]
  /\ outcome \in [Requests -> Outcome]
  /\ staged \in [Requests -> [rows : SUBSET Row, events : SUBSET DecisionEvent]]
  /\ sent \subseteq Requests /\ holding \subseteq Requests /\ cancelled \subseteq Requests
  /\ response \in [Requests -> Response]
-----------------------------------------------------------------------------
Describes(event, row) ==
  /\ event.resource = row.id /\ event.payload = row
  /\ event.actor = row.person /\ event.subject = row.org
  /\ event.result = "ALLOWED" <=> row.decision = "ALLOW"

DecisionEvents == {e \in outbox : e.type # "exchange.policy.seeded"}

\* CreateDecisionWithAudit (repository.go:30-50): whatever fails, crashes or goes
\* unacknowledged between its statements, a decision is on record exactly when the one
\* event that describes it is in the outbox, and a request has at most one decision.
LedgerAudited ==
  /\ \A row \in decisions : \E e \in DecisionEvents : Describes(e, row)
  /\ \A e \in DecisionEvents : \E row \in decisions : Describes(e, row)
  /\ \A row, other \in decisions : row.id = other.id => row = other
  /\ \A e, other \in DecisionEvents : e.resource = other.resource => e = other
-----------------------------------------------------------------------------
\* What a client that got this response was told.
ToldBy(resp) ==
  IF resp = NoResponse THEN "unanswered"
  ELSE IF resp.status = 200 THEN "ALLOW"
  ELSE IF resp.code \in FailureCodes THEN "error"
  ELSE "DENY"

RowsOf(r) == {row \in decisions : row.id = r}

RecordedFor(r) ==
  IF RowsOf(r) = {} THEN "none"
  ELSE IF \E row \in RowsOf(r) : row.decision = "ALLOW" THEN "ALLOW" ELSE "DENY"

EventsOf(r) == {e \in DecisionEvents : e.resource = r}

ReportedFor(r) ==
  IF EventsOf(r) = {} THEN "none"
  ELSE IF \E e \in EventsOf(r) : e.result = "ALLOWED" THEN "ALLOW" ELSE "DENY"

Ledger == INSTANCE DecisionLedger WITH
  ledger  <- [r \in Requests |-> RecordedFor(r)],
  audited <- [r \in Requests |-> ReportedFor(r)],
  answer  <- [r \in Requests |-> ToldBy(response[r])]

\* The endpoint implements the decision ledger: decision and audit event become durable in
\* one step, never change afterwards, and a client told ALLOW or DENY (handler.go:73-85)
\* is told what was already durable when the answer was written.
LedgerRefinement == Ledger!LedgerSpec
-----------------------------------------------------------------------------
\* The foreign key on matched_policy_id and the two normalisations of a route, in
\* NewDecision for the row and in LookupInput for the SELECT, fit together: the policy a
\* decision names is in the tables and is the one for the route the decision reports.
MatchedPolicyIsForRecordedRoute ==
  \A row \in decisions : row.matchedPolicyID # "" =>
     \E p \in policies : p.id = row.matchedPolicyID /\ SameRoute(p, row)

\* No decision is refused by a CHECK constraint when it is to be inserted, whatever the
\* client sent: else an invalid request would be a 500 that leaves no record.
EveryDecisionStorable ==
  \A r \in Requests : pc[r] = "begin" => ColumnsAccepted(draft[r])

Meets(row, p) ==
  /\ p.status = Plain("ACTIVE") /\ p.effect = Plain("ALLOW")
  /\ p.requiredRoles # {} => p.requiredRoles \cap row.actorRoles # {}
  /\ p.requiredCapabilities \subseteq row.organizationCapabilities

\* The policies as the seeder and operators write them.
WrittenPolicies == InitialPolicies \cup CanonicalPolicies \cup AdminPolicies

\* Every version of a policy that the tables can ever hold.
PolicyVersions == {Reseeded(p, seeds) : p \in WrittenPolicies, seeds \in SeedsCommitted \cup {{}}}

\* README, "Policy semantics": an actor allowed on a route has a required role, and the
\* organization all required capabilities, of a policy for that route; of one policy as it
\* once stood in the tables, not of parts of two.
AllowMeetsOneVersion ==
  \A row \in decisions : row.decision = "ALLOW" =>
     \E p \in PolicyVersions :
        p.id = row.matchedPolicyID /\ SameRoute(p, row) /\ Meets(row, p)

\* The requirements a row reports are met by the roles and capabilities it reports if it is
\* an ALLOW, and not if it denies for want of one.
Justified(row) ==
  LET roleMet == row.requiredRoles = {} \/ row.requiredRoles \cap row.actorRoles # {}
      capabilitiesMet == row.requiredCapabilities \subseteq row.organizationCapabilities
  IN /\ row.decision = "ALLOW" => roleMet /\ capabilitiesMet /\ row.matchedPolicyID # ""
     /\ row.denyReason = "missing_required_role" => ~roleMet
     /\ row.denyReason = "missing_required_capability" => roleMet /\ ~capabilitiesMet

\* A decision row is evidence on its own, whatever the tables were while its policy was read.
RowsJustifyThemselves == \A row \in decisions : Justified(row)

\* A client that disconnects cancels the context its calls run on (service.go:91-105): the
\* failure this causes is not put on record as the actor's, and no decision about a departed
\* client is, unless its COMMIT was with the server already.
NoRecordAfterDisconnect ==
  [][\A r \in cancelled : r \notin sent => r \notin sent' /\ RowsOf(r)' = RowsOf(r)]_vars
-----------------------------------------------------------------------------
\* Every request that has arrived is over in the end, with fewer connections than requests:
\* InTx's deferred Rollback returns a connection on every path.
EveryRequestSettles ==
  \A r \in Requests : pc[r] # "idle" ~> pc[r] = "done"
=============================================================================
