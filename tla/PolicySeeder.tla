----------------------------- MODULE PolicySeeder -----------------------------
(***************************************************************************)
(* cmd/taifa-exchange-seed: policy.Seeder.SeedCanonical statement by       *)
(* statement, for several runs of the command at once and an operator who  *)
(* writes the policy tables with SQL meanwhile.                            *)
(*                                                                         *)
(* Exchange takes a run as one step; here it is the transaction it is.  An *)
(* INSERT that meets a row another open transaction has inserted waits for *)
(* that transaction to end (PostgreSQL's unique indexes), and a row that   *)
(* another transaction has committed is skipped (ON CONFLICT DO NOTHING).  *)
(***************************************************************************)
EXTENDS Naturals, Sequences, FiniteSets, SequencesExt

CONSTANTS
  Runs,          \* the runs of taifa-exchange-seed
  Seeds,         \* the seeds a run inserts, in their order
  InitialRows,   \* the rows of the policy tables at start
  OperatorRows,  \* the rows an operator may insert
  Deletable      \* the rows an operator may delete

\* A row of one of the three policy tables: its id, what its unique index is over, and the
\* policy it belongs to.
Row == [table : {"policies", "roles", "capabilities"}, id : STRING,
        key : Seq(STRING), policy : STRING]

PolicyRow(seed) ==
  [table |-> "policies", id |-> seed.id, key |-> seed.route, policy |-> seed.id]

\* A row of a role or capability: [id, word].
ListRow(table, seed, entry) ==
  [table |-> table, id |-> entry.id, key |-> <<seed.id, entry.word>>, policy |-> seed.id]

RowsOfSeed(seed) ==
  <<PolicyRow(seed)>>
  \o [i \in DOMAIN seed.requiredRoles |-> ListRow("roles", seed, seed.requiredRoles[i])]
  \o [i \in DOMAIN seed.requiredCapabilities |->
        ListRow("capabilities", seed, seed.requiredCapabilities[i])]

\* The rows SeedCanonical inserts, in the order of its three loops.
Script == FlattenSeq([i \in DOMAIN Seeds |-> RowsOfSeed(Seeds[i])])

ScriptRows == {Script[i] : i \in DOMAIN Script}

Rows == ScriptRows \cup InitialRows \cup OperatorRows

\* Two rows that a primary key or a unique index does not let stand together.
Conflicts(row, other) ==
  row.table = other.table /\ (row.id = other.id \/ row.key = other.key)

\* The foreign keys on policy_id.
HasPolicy(rows, row) == \E p \in rows : p.table = "policies" /\ p.id = row.policy

TablesSound(rows) ==
  /\ \A row, other \in rows : Conflicts(row, other) => row = other
  /\ \A row \in rows : HasPolicy(rows, row)

ASSUME SeederAssumption ==
  /\ Rows \subseteq Row
  /\ \A row \in Rows : row.table = "policies" => row.policy = row.id
  /\ Script \in Seq(Rows) /\ Len(Script) > 0
  /\ \A i, j \in DOMAIN Script : Conflicts(Script[i], Script[j]) => i = j
  /\ \A i, j \in DOMAIN Script :       \* a policy comes before its lists
       Script[i].table = "policies" /\ Script[j].table # "policies"
       /\ Script[i].id = Script[j].policy => i < j
  /\ \A row \in Rows, s \in ScriptRows :     \* nobody gives a seed's list row to another policy
       s.table # "policies" /\ Conflicts(row, s) => row.policy = s.policy
  /\ TablesSound(InitialRows)

VARIABLES
  stored,    \* the committed rows of the policy tables
  outbox,    \* the committed exchange.policy.seeded events
  pc,        \* where each run is
  at,        \* the row of the script it is about to insert, or has just inserted
  written,   \* the rows its open transaction has inserted
  events,    \* the events its open transaction has inserted
  sent,      \* the runs whose COMMIT is with the server
  committed, \* the runs whose transaction is committed
  summary,   \* its SeedSummary
  exit       \* how its process ended

vars == <<stored, outbox, pc, at, written, events, sent, committed, summary, exit>>

\* The event of a policy; its own id is random, so events of two runs are two events.
SeededEvent(r, row) == [policy |-> row.policy, by |-> r]

Counters == {"policies", "roles", "capabilities", "auditEvents"}
EmptySummary == [c \in Counters |-> 0]
-----------------------------------------------------------------------------
(* CanonicalPolicies. *)

Seed(id, route, roles, capabilities) ==
  [id |-> id, route |-> route, requiredRoles |-> roles, requiredCapabilities |-> capabilities]

Entry(id, word) == [id |-> id, word |-> word]

CanonicalPolicies ==
  <<Seed("POL-CARE-CLAIM-CREATE-CLINICIAN",
         <<"TAIFA_CARE", "POST", "/api/v1/claims", "care.claim.create">>,
         <<Entry("PR-CARE-CLAIM-CREATE-CLINICIAN", "PROVIDER_CLINICIAN")>>,
         <<Entry("PC-CARE-CLAIM-CREATE-HEALTH-SERVICES", "CAN_PROVIDE_HEALTH_SERVICES")>>),
    Seed("POL-CARE-CLAIM-SUBMIT-CLAIMS-OFFICER",
         <<"TAIFA_CARE", "POST", "/api/v1/claims/submit", "care.claim.submit">>,
         <<Entry("PR-CARE-CLAIM-SUBMIT-CLAIMS-OFFICER", "PROVIDER_CLAIMS_OFFICER")>>,
         <<Entry("PC-CARE-CLAIM-SUBMIT-HEALTH-SERVICES", "CAN_PROVIDE_HEALTH_SERVICES")>>),
    Seed("POL-TAX-CONTRIBUTION-SUBMIT-EMPLOYER",
         <<"TAIFA_TAX", "POST", "/api/v1/contributions", "tax.contribution.submit">>,
         <<Entry("PR-TAX-CONTRIBUTION-SUBMIT-EMPLOYER", "EMPLOYER_SUBMITTER")>>,
         <<Entry("PC-TAX-CONTRIBUTION-SUBMIT-CONTRIBUTIONS", "CAN_SUBMIT_TAX_CONTRIBUTIONS")>>),
    Seed("POL-TAX-CONTRIBUTION-READ-TAX-OFFICER",
         <<"TAIFA_TAX", "GET", "/api/v1/contributions", "tax.contribution.read">>,
         <<Entry("PR-TAX-CONTRIBUTION-READ-TAX-OFFICER", "TAX_OFFICER")>>,
         <<Entry("PC-TAX-CONTRIBUTION-READ-GOVERNMENT-SERVICE", "CAN_OPERATE_GOVERNMENT_SERVICE")>>),
    Seed("POL-PAY-INSTRUCTION-CREATE-PAY-OPERATOR",
         <<"TAIFA_PAY", "POST", "/api/v1/payment-instructions", "pay.instruction.create">>,
         <<Entry("PR-PAY-INSTRUCTION-CREATE-PAY-OPERATOR", "PAY_OPERATOR")>>,
         <<Entry("PC-PAY-INSTRUCTION-CREATE-ROUTE-PAYMENTS", "CAN_ROUTE_PAYMENTS")>>),
    Seed("POL-OBSERVE-SECURITY-EVENT-READ-ANALYST",
         <<"TAIFA_OBSERVE", "GET", "/api/v1/security-events", "observe.security_event.read">>,
         <<Entry("PR-OBSERVE-SECURITY-EVENT-READ-ANALYST", "OBSERVE_ANALYST")>>,
         <<Entry("PC-OBSERVE-SECURITY-EVENT-READ-OBSERVE-EVENTS", "CAN_OBSERVE_SECURITY_EVENTS")>>)>>
-----------------------------------------------------------------------------
Init ==
  /\ stored = InitialRows /\ outbox = {}
  /\ pc = [r \in Runs |-> "idle"] /\ at = [r \in Runs |-> 1]
  /\ written = [r \in Runs |-> {}] /\ events = [r \in Runs |-> {}]
  /\ sent = {} /\ committed = {}
  /\ summary = [r \in Runs |-> EmptySummary]
  /\ exit = [r \in Runs |-> "none"]

Goto(r, here, there) == pc[r] = here /\ pc' = [pc EXCEPT ![r] = there]

\* The process ends; a transaction whose COMMIT was not sent is rolled back by InTx or by
\* the server, which loses its connection.
Exit(r, status) ==
  /\ pc' = [pc EXCEPT ![r] = "done"]
  /\ exit' = [exit EXCEPT ![r] = status]
-----------------------------------------------------------------------------
(* main and InTx. *)

\* Load, Open and Begin succeed.
Start(r) ==
  /\ Goto(r, "idle", "insert")
  /\ UNCHANGED <<stored, outbox, at, written, events, sent, committed, summary, exit>>

\* No DSN, or no database.
StartFails(r) ==
  /\ pc[r] = "idle" /\ Exit(r, "failed")
  /\ UNCHANGED <<stored, outbox, at, written, events, sent, committed, summary>>

\* Variant: the seeds come out of a map, in an order of their own in each process.
ScriptInMapOrder == FlattenSeq([i \in DOMAIN Seeds |-> RowsOfSeed(Reverse(Seeds)[i])])
RowInMapOrder(r) ==
  IF r = CHOOSE q \in Runs : TRUE THEN Script[at[r]] ELSE ScriptInMapOrder[at[r]]

\* The row of the INSERT the run executes next.
NextRow(r) == Script[at[r]]

\* On to the next row, or out of the loops.
Advance(r) ==
  /\ at' = [at EXCEPT ![r] = @ + 1]
  /\ pc' = [pc EXCEPT ![r] = IF at[r] + 1 > Len(Script) THEN "commit" ELSE "insert"]

\* A row that is committed, or the run's own, stands in the way of the next one.
Taken(r) == \E row \in stored \cup written[r] : Conflicts(row, NextRow(r))

\* A row of an open transaction does: the INSERT waits for that transaction to end.
WaitsFor(r, q) ==
  /\ q # r /\ pc[r] = "insert" /\ ~Taken(r)
  /\ \E row \in written[q] : Conflicts(row, NextRow(r))

MayInsert(r) == pc[r] = "insert" /\ ~Taken(r) /\ \A q \in Runs : ~WaitsFor(r, q)

Count(r, counter) == summary' = [summary EXCEPT ![r][counter] = @ + 1]

\* Variant: each INSERT is committed by itself, no transaction being open.
InsertRowCommitted(r) ==
  /\ MayInsert(r) /\ HasPolicy(stored \cup {NextRow(r)}, NextRow(r))
  /\ stored' = stored \cup {NextRow(r)}
  /\ Count(r, NextRow(r).table)
  /\ IF NextRow(r).table = "policies"
       THEN pc' = [pc EXCEPT ![r] = "audit"] /\ UNCHANGED at
       ELSE Advance(r)
  /\ UNCHANGED <<outbox, written, events, sent, committed, exit>>

\* insertSeedPolicy, insertSeedPolicyRole or insertSeedPolicyCapability affects one row.
InsertRow(r) ==
  /\ MayInsert(r)
  /\ HasPolicy(stored \cup written[r] \cup {NextRow(r)}, NextRow(r))
  /\ written' = [written EXCEPT ![r] = @ \cup {NextRow(r)}]
  /\ Count(r, NextRow(r).table)
  /\ IF NextRow(r).table = "policies"
       THEN pc' = [pc EXCEPT ![r] = "audit"] /\ UNCHANGED at
       ELSE Advance(r)
  /\ UNCHANGED <<stored, outbox, events, sent, committed, exit>>

\* Variant: a row counts whether or not RowsAffected says that it was inserted.
SkipRowCounted(r) ==
  /\ pc[r] = "insert" /\ Taken(r)
  /\ Advance(r)
  /\ Count(r, NextRow(r).table)
  /\ UNCHANGED <<stored, outbox, written, events, sent, committed, exit>>

\* Variant: the lists of a policy that was skipped are skipped with it.
SkipSeed(r) ==
  LET later == {i \in at[r] + 1 .. Len(Script) :
                  Script[i].table = "policies" \/ NextRow(r).table # "policies"}
      next == Min(later \cup {Len(Script) + 1})
  IN /\ pc[r] = "insert" /\ Taken(r)
     /\ at' = [at EXCEPT ![r] = next]
     /\ pc' = [pc EXCEPT ![r] = IF next > Len(Script) THEN "commit" ELSE "insert"]
     /\ UNCHANGED <<stored, outbox, written, events, sent, committed, summary, exit>>

\* ON CONFLICT DO NOTHING: it affects none.
SkipRow(r) ==
  /\ pc[r] = "insert" /\ Taken(r)
  /\ Advance(r)
  /\ UNCHANGED <<stored, outbox, written, events, sent, committed, summary, exit>>

\* Variant: the event is inserted through the pool and not through the transaction.
InsertAuditOutside(r) ==
  /\ pc[r] = "audit"
  /\ outbox' = outbox \cup {SeededEvent(r, NextRow(r))}
  /\ Count(r, "auditEvents")
  /\ Advance(r)
  /\ UNCHANGED <<stored, written, events, sent, committed, exit>>

\* audit.Insert of policySeededAuditEvent, for a policy that was inserted.
InsertAudit(r) ==
  /\ pc[r] = "audit"
  /\ events' = [events EXCEPT ![r] = @ \cup {SeededEvent(r, NextRow(r))}]
  /\ Count(r, "auditEvents")
  /\ Advance(r)
  /\ UNCHANGED <<stored, outbox, written, sent, committed, exit>>

RollBack(r) ==
  /\ written' = [written EXCEPT ![r] = {}]
  /\ events' = [events EXCEPT ![r] = {}]

\* The foreign key refuses a list row whose policy is not there: its seed was skipped because
\* its route has another policy, or its policy has been deleted since it was skipped.
RefuseOrphan(r) ==
  /\ MayInsert(r) /\ ~HasPolicy(stored \cup written[r] \cup {NextRow(r)}, NextRow(r))
  /\ RollBack(r) /\ Exit(r, "failed")
  /\ UNCHANGED <<stored, outbox, at, sent, committed, summary>>

\* Any statement may fail: SEED_TIMEOUT has passed, also while waiting; the connection or
\* the process is gone.
StatementFails(r) ==
  /\ pc[r] \in {"insert", "audit", "commit"}
  /\ RollBack(r) /\ Exit(r, "failed")
  /\ UNCHANGED <<stored, outbox, at, sent, committed, summary>>

SendCommit(r) ==
  /\ Goto(r, "commit", "committing")
  /\ sent' = sent \cup {r}
  /\ UNCHANGED <<stored, outbox, at, written, events, committed, summary, exit>>

\* The server takes the COMMIT, whether or not the run still waits for it.
ServerCommits(r) ==
  /\ r \in sent
  /\ stored' = stored \cup written[r] /\ outbox' = outbox \cup events[r]
  /\ sent' = sent \ {r} /\ committed' = committed \cup {r}
  /\ RollBack(r)      \* nothing of it is uncommitted any more
  /\ UNCHANGED <<pc, at, summary, exit>>

ServerAborts(r) ==
  /\ r \in sent
  /\ sent' = sent \ {r} /\ RollBack(r)
  /\ UNCHANGED <<stored, outbox, pc, at, committed, summary, exit>>

\* Variant: the summary is printed without looking at the error of InTx.
SucceedUnchecked(r) ==
  /\ pc[r] = "committing" /\ Exit(r, "ok")
  /\ UNCHANGED <<stored, outbox, at, written, events, sent, committed, summary>>

\* Commit returns nil: the summary is printed and the process ends well.
Succeed(r) ==
  /\ pc[r] = "committing" /\ r \in committed
  /\ Exit(r, "ok")
  /\ UNCHANGED <<stored, outbox, at, written, events, sent, committed, summary>>

\* Commit returns an error, whatever becomes of the transaction.
CommitFails(r) ==
  /\ pc[r] = "committing" /\ Exit(r, "failed")
  /\ UNCHANGED <<stored, outbox, at, written, events, sent, committed, summary>>
-----------------------------------------------------------------------------
(* The operator, each of whose statements is a transaction. *)

\* It waits for open transactions as the seeder's do, and fails on a conflict.
OperatorInserts(row) ==
  /\ \A other \in stored \cup UNION {written[r] : r \in Runs} : ~Conflicts(row, other)
  /\ HasPolicy(stored \cup {row}, row)
  /\ stored' = stored \cup {row}
  /\ UNCHANGED <<outbox, pc, at, written, events, sent, committed, summary, exit>>

\* The rows that go with a row: ON DELETE CASCADE.
Cascade(row) ==
  {row} \cup {child \in stored : row.table = "policies" /\ child.policy = row.id}

\* A list row in an open transaction locks its policy; a skipped seed locks nothing.
OperatorDeletes(row) ==
  /\ \A r \in Runs : \A child \in written[r] :
       ~(row.table = "policies" /\ child.table # "policies" /\ child.policy = row.id)
  /\ stored' = stored \ Cascade(row)
  /\ UNCHANGED <<outbox, pc, at, written, events, sent, committed, summary, exit>>

Operate == \/ \E row \in OperatorRows : OperatorInserts(row)
           \/ \E row \in stored \cap Deletable : OperatorDeletes(row)
-----------------------------------------------------------------------------
\* What a run does when nothing fails.
Proceed(r) ==
  \/ Start(r) \/ InsertRow(r) \/ SkipRow(r) \/ InsertAudit(r) \/ RefuseOrphan(r)
  \/ SendCommit(r)

EndCommit(r) == Succeed(r) \/ CommitFails(r)

Fail(r) == StartFails(r) \/ StatementFails(r)

Server(r) == ServerCommits(r) \/ ServerAborts(r)

Terminated == (\A r \in Runs : pc[r] = "done") /\ UNCHANGED vars

Next == \/ \E r \in Runs : Proceed(r) \/ EndCommit(r) \/ Fail(r) \/ Server(r)
        \/ Operate \/ Terminated

Spec == Init /\ [][Next]_vars

\* A run is scheduled and the server answers; nothing is assumed of failures: no timeout has
\* to strike for a run to end.
FairSpec ==
  /\ Spec
  /\ \A r \in Runs : WF_vars(Proceed(r)) /\ WF_vars(EndCommit(r)) /\ WF_vars(Server(r))
=============================================================================
