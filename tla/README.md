# TaifaExchange in TLA+

TaifaExchange is the request boundary between the Taifa systems: `POST
/exchange/authorize` takes a bearer token, an organization and a route, asks TaifaID
who the caller is, evaluates the route's policy, records the decision with an audit
event in one transaction, and answers ALLOW or DENY. This directory holds models of
that service, of the seeder of its policies, of the life of its process and of its schema
migrations, their TLC configurations and machine-checked proofs about them.
Paths below are relative to `src/`; `service.go`, `repository.go` and `handler.go`
without a directory are those of `internal/exchange`.

    tlc -workers 4 -config ExchangeInputs.cfg MCExchange.tla
    tlapm EvidenceProofs.tla

## The system

| Component | State it keeps | Operations | Talks to |
|---|---|---|---|
| `exchange.Handler`, `Service` | one goroutine per request: the normalised request, the `DecisionRecord` being built, the result | `Authorize`: decode, validate, resolve the actor, list capabilities, evaluate, persist, answer | TaifaID (HTTP), `policy.Service`, `exchange.Repository` |
| `policy.Service`, `Repository` | none; a `Policy` being read | `Evaluate`, `FindByRoute` (three SELECTs) | the pool |
| `policy.Evaluator` | none | `Evaluate`, a pure function | |
| `exchange.Repository`, `audit.Insert` | none | `CreateDecisionWithAudit`: two INSERTs in one `InTx` | the pool |
| `policy.Seeder` (`cmd/taifa-exchange-seed`) | none | `SeedCanonical`: one transaction over all canonical policies | the same database, from another process |
| PostgreSQL schema (`migrations/`) | policies, their roles and capabilities, decisions, the audit outbox | CHECKs, a unique route index, cascades, a foreign key from decisions to policies | |
| Migration scripts (`migrations/`, `docker-compose.yml`) | the version of the schema | two ups, two downs, applied by psql statement by statement | the same database, beside the service |
| `postgres.InTx`, pgx pool | at most `MaxConns` connections | Begin, Commit, the deferred Rollback | PostgreSQL |
| `taifaid.Client` | none | `ResolveActorContext`, `ListOrganizationCapabilities`, `Ready` | TaifaID |
| `app.App` | pool, client, HTTP server | `New`, `Run`, `/readyz`, shutdown | everything |
| `config`, `httpserver`, `ids`, `clock` | none | environment, middleware, JSON, ids | |

Nothing is shared between requests but the pool and the database; the seeder, psql and an
operator share the database from processes of their own. What is hard in this
code is therefore what happens between its statements: a policy is read in three
autocommit statements while others write it; decision and event are two rows of one
transaction that can fail, be cut off by the client's departure (which cancels the
context every call runs on), lose its COMMIT's acknowledgement, or die with the process;
the answer can be lost after the record is there; and the connections are few. Seeders
wait for each other's uncommitted rows; a process is told to stop with requests in flight
and a pool to close; and the migrations are applied again at every start, beside a service
that is recording. What is
hard in its data is that strings are normalised in three places by three functions, and
that an empty list of required roles means that no role is required.

What makes each component correct:

* **Endpoint.** A decision and its event appear together, once per request, and never
  change; a client told ALLOW or DENY is told what was durable before; every decision
  can be stored; a row names a policy of the route it reports and is justified by the
  requirements it reports; a departed client leaves no record (but for a COMMIT that was
  on its way); every request is over in the end.
* **Policy lookup and tables.** An ALLOW meets all requirements of one version of a
  policy that was in the tables.
* **Evaluator.** ALLOW exactly when the README's policy semantics grant the request;
  more authority never denies; spelling never matters.
* **Seeder.** A policy is visible with all its lists and its one
  `exchange.policy.seeded` event, or not at all; a reported success means that every seed
  is in place; no row is reported by two runs; runs never wait in a circle, and end.
* **Pool.** Every path gives its connection back; the pool has the size that was written,
  or a default, and is never exceeded.
* **Lifecycle and readiness.** A clean exit has cut off no request; the pool is closed last;
  startup, probes and shutdown end, whatever hangs outside; `/readyz` and the endpoint mean
  the same by "not configured".
* **Migrations.** An up works whatever it finds and whatever the service does beside it, ends, and
  leaves the latest schema; rows satisfy the checks; the database never refuses a decision
  of the service unless somebody downgrades.

## Modules

| Module | What it is |
|---|---|
| `Texts` | Strings as the code tells them apart: a word, surrounding blanks, another case. `TrimSpace`, `ToUpper` (the library's, modelled by what they do), `NormalizeStringSlice`. |
| `PolicyEvaluator` | `policy.Evaluator.Evaluate` with its helpers, as operators. |
| `PolicySemantics` | A machine that calls the evaluator on an input and again on a changed one, the README's policy semantics (`Granted`) and the properties that compare them. |
| `PolicyStore` | The policy tables, their constraints, the SELECTs of `FindByRoute` and the effect of `SeedCanonical`. Extends `PolicyEvaluator`. |
| `Exchange` | The endpoint for a set of `Requests`. Extends `PolicyStore`. |
| `DecisionLedger` | The abstract specification: what the exchange promises of recorded decisions, events and answers. |
| `ExchangeProperties` | The properties of `Exchange`, and the refinement mapping to `DecisionLedger`. |
| `ExchangeInvariant` | The inductive invariant `IInv`: what a request's variables say of its rows, and who holds connections. |
| `ExchangeEvidence` | What is known of the contents of a decision (`EvidenceInv`) and of the policy it was made by (`OneVersionInv`), and the assumptions on operators these need. |
| `PolicySeeder` | `cmd/taifa-exchange-seed` statement by statement, for a set of `Runs` and an operator. |
| `PolicySeeding` | The abstract specification: what seeding promises of the tables, the events and the exit status. |
| `PolicySeederProperties` | The properties of `PolicySeeder`, the refinement mapping to `PolicySeeding`, the inductive invariants `SeederInv`, `CountInv` and `TallyInv`. |
| `SeedingStep` | The one step `Exchange` takes for a run of the seeder, set against the COMMIT of a run of `PolicySeeder`. |
| `Settings` | What `config.Load`, `postgres.Open` and `taifaid.NewClient` make of the environment. |
| `Lifecycle` | `main`, `app.New`, `App.Run`, the pool and `/readyz`, for a set of `Requests`. Extends `Settings`. |
| `LifecycleProperties` | Its properties and the inductive invariant `LifecycleInv`. |
| `Migrations` | The four scripts, psql, and a service that records decisions beside it. |
| `MigrationsProperties` | Its properties and the inductive invariant `MigrationsInv`. |
| `MCPolicySemantics`, `MCExchange`, `MCPolicySeeder`, `MCLifecycle`, `MCMigrations` | Small instances for TLC. |
| `PolicySemanticsProofs`, `ExchangeProofs`, `EvidenceProofs`, `PolicySeederProofs`, `SeederCountProofs`, `SeedingStepProofs`, `LifecycleProofs`, `MigrationsProofs` | The theorems. |

The modules meet at the database. `Exchange` takes a run of the seeder as one step, `Seed`, and
the life of the process and the schema as given. That the COMMIT of a run of `PolicySeeder`,
which looked at the tables one row at a time, is this step is `CommitIsOneStep`, proved for
any operator. While nobody deletes rows, the step adds all seeds to the tables as they are at
the COMMIT. Beside an operator who deletes, a row that a run has found in place and skipped may
be gone again when it commits; `Seed` then adds what is left, any part of the seeds' policies
and lists (`SeedsCommitted`, `SeedParts`), but a policy that is new always with all its lists.
That is more than the code can do, since a part may lack what nobody has deleted.
`Lifecycle` takes of a request only the connections it needs; and
`Migrations` takes of a decision only the two columns whose checks change. Operators whose
comment begins "Variant:" are plausible mistakes in the code, used by no specification:
each makes one of the properties fail when it replaces the operator that follows it.

### How `Exchange` corresponds to the code

`pc[r]` is where the goroutine of request `r` is; `request`, `draft`, `found` and
`outcome` are its local variables `request`, `decision`, `foundPolicy` and the status and
code of its `AuthorizeResult`. `policies`, `decisions` and `outbox` are the tables.
`staged[r]` are the rows its open transaction has written, `holding` the requests that
hold a connection for one, `sent` those whose COMMIT is with the server; `cancelled` the
requests whose context is cancelled, `response` what the client has received.

| Action | Code |
|---|---|
| `RejectMalformed`, `DenyInvalid`, `DenyUnconfigured`, `Accept` | `handler.go:27-50`, `service.go:35-85` up to the first call |
| `ResolveActorContext`, `ResolveFails` | `service.go:85-114` |
| `ListOrganizationCapabilities`, `CapabilitiesFail` | `service.go:116-138` |
| `FindPolicy`, `PolicyNotFound`, `ReadRoles`, `ReadCapabilities` | the three statements of `policy/repository.go:24-94`; the last of them, like `PolicyNotFound`, goes on to the evaluation and `service.go:169-190` |
| `StatementFails` | any of these statements, or `Begin`, failing: `service.go:165`, `handler.go:57` |
| `Begin`, `InsertDecision`, `InsertAudit` | `tx.go:22`, `exchange/repository.go:40-46` |
| `SendCommit`, `Committed`, `CommitFails` | `tx.go:35`: COMMIT is written; its answer arrives; an error is returned instead |
| `ServerCommits`, `ServerAborts` | PostgreSQL and the COMMIT it was sent, whether or not anybody waits |
| `TransactionFails` | an error before COMMIT is sent, with the deferred Rollback (`tx.go:27`) |
| `Reply`, `ReplyLost` | `handler.go:57-85`; a departed client or an expired `WriteTimeout` |
| `Disconnect`, `Crash` | net/http cancels the request's context; the process dies |
| `Seed` | `policy/seed.go:55-109`, one transaction; without what an operator took away meanwhile |
| `AdminReplace`, `AdminDelete` | an operator's SQL on the policy tables, external to the repository |

A step is one SQL statement or one call to TaifaID together with everything the
goroutine does before the next one. This is enough because a goroutine's local steps
touch nothing another process sees. Three choices deserve a word.

* **COMMIT in flight.** After `SendCommit` the transaction's fate is the server's. The
  goroutine may give up (`CommitFails`) before, after or without `ServerCommits`; so a
  client can be told of a failure and the decision be recorded much later.
* **Failures.** A call to TaifaID may always fail; a statement may always fail (a
  database that is down, an expired connection); the model does not say why, since the
  code does not look.
* **Cancelled contexts.** A request in `cancelled` cannot complete a call, a statement or
  an answer; it can only fail. `SendCommit` is impossible, but a COMMIT that was sent
  before stays sent.

Texts: the words that the code upper-cases are spelled in upper case, so "recased" means
"not as it will be after `ToUpper`"; routes and operations are only trimmed, so a recased
route is another route. Role and capability lists are sets: their order is only reported.

### How `PolicySeeder` corresponds to the code

`Script` is the list of INSERTs that the three loops of `SeedCanonical` execute for
`Seeds`; `at[r]` is the place of run `r` in it. `written[r]` and `events[r]` are the rows of
its open transaction, `stored` and `outbox` the committed ones, `summary[r]` its
`SeedSummary`, `exit[r]` what `main` ends with.

| Action | Code |
|---|---|
| `Start`, `StartFails` | `cmd/taifa-exchange-seed/main.go:19-41`, `tx.go:22` |
| `InsertRow`, `SkipRow` | `insertSeedPolicy`, `insertSeedPolicyRole`, `insertSeedPolicyCapability` (`policy/seed.go:248-341`): `RowsAffected` is one or zero |
| `InsertAudit` | `policy/seed.go:69-77` |
| `RefuseOrphan` | the foreign key on `policy_id` refuses a list row whose policy was skipped and is not there |
| `StatementFails` | any statement failing, also by `SEED_TIMEOUT`, with the deferred Rollback |
| `SendCommit`, `Succeed`, `CommitFails` | `tx.go:35`, `main.go:43-56` |
| `ServerCommits`, `ServerAborts` | PostgreSQL and the COMMIT it was sent |
| `OperatorInserts`, `OperatorDeletes` | an operator's SQL, external; with `ON DELETE CASCADE` and the locks a list row takes on its policy |

An INSERT that meets an uncommitted row of another transaction has no step until that
transaction ends (`WaitsFor`); then it inserts, or skips what was committed. An operator's
statement waits in the same way and is therefore possible only where nothing stands in its
way. `CanonicalPolicies` are the six of the code.

### How `Lifecycle` and `Settings` correspond to the code

`app` is where `main`, `New` and `Run` are, `exit` the process's status, `listener` and
`opened` the HTTP server, `signalled` the context of `NotifyContext`, `pool` the connection
pool, `request[q]` a request for the authorize endpoint or a probe (`q \in Probes`).

| Action | Code |
|---|---|
| `NewWithoutDatabase`, `Open`, `OpenFails`, `OpenTimesOut` | `app.go:35-48`, `platform/postgres/db.go:18-62` |
| `Start`, `Listen`, `ListenerFails` | `cmd/taifa-exchange/main.go:27-34`, `app.go:161-178` |
| `Signal` | before `NotifyContext` it kills the process; afterwards it cancels the context, once |
| `Shutdown`, `FindBusy`, `FindIdle`, `ShutdownTimesOut` | `app.go:181-197`; `http.Server.Shutdown` closes the listener and polls its connections, and looks at them before it looks at its deadline |
| `Abandon`, `CloseReturns` | `app.go:199-204`, `app.go:191-197`; `Pool.Close` waits for the connections in use |
| `Arrive` | net/http; also after the signal, on connections that are kept alive |
| `WantConnection`, `Acquire`, `AcquireFails`, `Release`, `Finish` | the connections of an authorize request: `tx.go:22-39` and the SELECTs; `service.go:68-83` |
| `Probe`, `Ping`, `PingAnswered`, `PingFails`, `PingTimesOut` | `app.go:76-87` |
| `ReadyUnasked`, `ReadyAnswered`, `ReadyFails` | `app.go:89-114`, `taifaid/client.go:39-73` |

`Settings` has `envInt32`'s refusal of what does not fit its width, and the size `Open`
computes. A setting that is not positive leaves in force what `pgxpool.ParseConfig` made of
the DSN (`DriverMaxConns`, `DriverMinConns`: its `pool_max_conns` and `pool_min_conns`, or
pgxpool's defaults), and a minimum from either place raises the maximum. A base URL is the empty string (no client), slashes and blanks (a client that is
not configured) or an address.

### How `Migrations` corresponds to the code

`InitUp`, `UnknownUp`, `UnknownDown`, `InitDown` are the statements of the scripts, tables
with their indexes. psql commits each statement by itself. `AskForLock` is a statement that
begins to wait for its table: from then on nobody else gets that table (`QueuedFor`), and
`ExecuteStatement` follows when the transactions that have it are over. `Works` is what
PostgreSQL requires of each statement, with `IF [NOT] EXISTS`. Compose stops at the first
error and starts the service when the ups have completed (`End`, `Serve`:
`docker-compose.yml:32-64`); the README's commands go on after an error. `InsertDecision`,
`InsertAudit`, `Commit`, `RollBack` are `CreateDecisionWithAudit` and `InTx`; `Recorded` is
the normalisation of `model.go:91-124`, without which the checks would refuse.

## Runs

| Run | Instance | States | What it shows |
|---|---|---|---|
| `policy_semantics` | 2 role words and 2 capability words in the spellings that matter, blank ones included, 16 policies and none | 40 thousand | `Evaluate` computes `Granted`; monotonicity; spelling; the last role |
| `concurrent` | 2 requests, 1 connection, seeder, an operator's rival policy on the seeded route, crashes, departures | 61 thousand | the ledger refinement, decision and event together, no record after a departure; `IInv`, connections included |
| `inputs` | 1 request, 13 inputs (one per early return), all configurations, 2 actors, 2 capability lists, 4 policy versions, 2 policy ids | 95 thousand | storable, justified and correctly named rows; `EvidenceInv` |
| `seeded` | 2 requests, 2 connections, empty tables and the seeder | 192 thousand | `AllowMeetsOneVersion` while only the seeder writes |
| `deletion` | 2 requests, 2 connections, an operator who deletes the policy and writes a rival for its route | 493 thousand | `AllowMeetsOneVersion` while nothing puts a policy back |
| `torn_read` | 1 request, seeder and a deleting operator | 1 thousand, up to the violation | `AllowMeetsOneVersion` is violated |
| `liveness` | 2 requests, 1 connection, with and without a database | 23 thousand | `EveryRequestSettles` |
| `seeders_operator` | 3 runs, the first 2 seeds, an operator who inserts a rival on a seeded route and deletes a policy, a role, the rival | 20 thousand | the refinement of `PolicySeeding`, `SeederInv`, no circle of waits |
| `seeders_canonical` | 2 runs, all 6 canonical policies, the rival | 5 thousand | `SuccessMeansSeeded`, `SummariesAddUp`, `SummariesMatchEvents`, `EveryRunEnds`; a COMMIT is `Exchange`'s one step (`CommitIsOneStep`) |
| `lifecycle` | 2 requests and a probe on 1 connection; with and without DSN, the 3 kinds of base URL, connecting with and without a limit | 37 thousand | clean exits, the order of Shutdown and Close, the agreement of `/readyz` and the endpoint; startup, probes and shutdown end |
| `pool_settings` | 1 request and a probe; 6 values of each pool setting, 4-bit numbers; a DSN with the minimum 6 over the maximum 4 | 57 thousand | `PoolAsWritten` |
| `migrations` | 2 transactions, an unknown method with a known or unknown target, all scripts, psql stopping or not | 137 thousand | all properties of `MigrationsProperties` |

Bounds. Requests interact through the pool and the tables only, and every property is
about one request or about a pair of rows: two requests on one connection already give
waiting, interleaved transactions and a crash with both in flight. The number of requests
is the only bound on behaviours: all else (seeding, deleting, replacing) may happen any
number of times. One protected route is enough since `SelectPolicy` compares
whole routes; the second route differs from it by case only, which is where the
normalisations could disagree. `inputs` has one input for each early return of
`validateRequestForAuthorization` and one that needs every normalisation.
Symmetry is used in runs without liveness, over requests or runs, which are otherwise
unused model values.

Seeders interact through the rows they have in common: two seeds and three runs give a run
that waits for one that waits for a third, and a run that has skipped a seed which is then
deleted. In `seeders_canonical` nobody deletes rows: `SuccessMeansSeeded` is about that case.
The pool of `lifecycle` is exhausted by one request, so that a probe waits for it; its
second request may arrive after the signal. The numbers of `pool_settings` are one below
zero, two that fit, one that does not and would be a small positive number if it were cut,
no number, and none. The DSN's minimum is above its maximum and above every usable setting but one, so that,
where it is in force, it decides the pool's size; `lifecycle` has the usual DSN, without one.
In `migrations` rows are a set of what they record, since a check cannot tell two equal rows
apart; a script may be begun, interrupted and begun again any number of times, but one psql
works at a time (`running = Nothing` in `Begin`): "beside" an up means beside the service. Nothing
in the repository starts two, and two ups at once can clash: one finds the constraint that the
other has just added, and fails. A row that is known in both columns satisfies every check
and would add nothing.

Fairness. In `Exchange` (`liveness`) `FairSpec` assumes weak fairness of each request's own steps,
`Handle(r)`, taken together. A goroutine is scheduled; a call to TaifaID ends by
`http.Client.Timeout` at the latest (`taifaid/client.go:20-33`); a SQL statement is
assumed to be answered or to fail in the end, by the server or by TCP, since the code
sets no deadline of its own: without that assumption the property is false of the code.
Waiting for a connection is the one place where a request can be disabled by another;
weak fairness suffices because every holder settles, each request needs a connection a
bounded number of times, and pgxpool queues its waiters. Nothing is assumed of clients,
the server's COMMIT, the seeder, the operator or crashes.

In `PolicySeeder` a run is scheduled, the server answers its statements and decides about
its COMMIT; an INSERT that waits has no step to be fair to. Failures and timeouts may
happen and need not: `EveryRunEnds` rests on the order of the seeds alone.

In `Lifecycle` the process is scheduled and its timers fire: the connect timeout if it is
positive, Shutdown's deadline, a probe's two seconds and TaifaID's timeout. Nothing is
assumed of the database, TaifaID, clients, signals or the listener: a statement may hang
for ever. `AbandonmentEnds` shows the one place where that matters, and has the assumption
it needs as its premise: after the listener has failed, `Pool.Close` waits for every
connection without a limit, and further signals are swallowed, so a process with a hanging
statement stays. `StartupEnds` is about a positive connect timeout only: without one, `New`
waits as long as the database does.

In `Migrations` psql is scheduled, a transaction of the service goes on once begun, and a
statement that waits is granted its lock once the transactions before it have ended. No
fairness is assumed of `AuditFails`, of interruptions, of the operator or of clients.

Deadlock is checked in every run but one. `Terminated` stutters when all requests, or runs,
are over or the process has exited; `Migrations` has no end. `policy_semantics` is a
two-state machine that stops after its one step.

### A disagreement with the documentation

`torn_read` shows `FindByRoute` (`internal/policy/repository.go:80`) evaluating a policy
that never was. (1) The request's first SELECT finds the policy. (2) An operator deletes
it; its role and capability rows go with it. (3) The role and capability SELECTs return
nothing. (4) The seeder runs and inserts the policy again, so that the decision's foreign
key is satisfied. (5) The evaluator, given a policy without required roles, skips the role
check (`evaluator.go:69`), and an actor without the role is recorded and answered as
ALLOW. README.md:253 says "role requirement: actor must have at least one required role",
line 254 "capability requirement: organization must have all required capabilities".
Reading the three in one repeatable-read transaction, or in one statement, would close
it. `seeded` and `deletion` show that either writer alone cannot cause it, the second only
thanks to the foreign key, and the theorem `AllowFromOneVersion` shows it of any policies.
The deletion is by hand: no code of the repository deletes. An operator who
rewrites a policy in place, instead of deleting it, can cause it as well: the roles are read
from one version and the capabilities from the next.

## Proofs

The first three modules hold for every set of requests, inputs, TaifaID answers, policies and
pool size allowed by `ExchangeAssumption`, `WordsAssumption`, `NilAssumption` and
`PolicyIDsAssumption` (types of the constants; policies given as constants satisfy the tables'
own constraints; `Nil` is not a policy). TLC evaluates the assumptions in each run.

`PolicySemanticsProofs`:
* `EvaluatorComputesSemantics`: ALLOW exactly when `Granted`. The argument: folding a text
  keeps its word, so membership among normalised texts is membership among words.
* `MonotoneInAuthority`, `SpellingIsNotAuthority`, `OnlyAnEmptyRoleListWidens`: the three
  action properties. `ResultsNormalized`: type correctness.

`ExchangeProofs`:
* `InvariantHolds`: `IInv` is inductive. `TypeOK` and `LedgerAudited` alone are not: that
  a COMMIT keeps the tables in step needs to know what the transaction has staged
  (`StagedOK`), that this is the request's decision with its own id (`LocalsOK`) and that
  nothing is on record for it yet (`UnrecordedOK`), at every point of the goroutine and,
  for a COMMIT in flight, after the goroutine has gone on. One lemma per group of
  actions; `RequestStep` reduces a step of one request to what it changes about it.
  `ConnectionsOK` says who holds the pool: the requests in a transaction, all of them and
  no others, and never more than `MaxConns`. No path leaks a connection, for a pool of
  any size; the proof counts `holding` as it grows and shrinks by one request.
* `TypeCorrect`, `DecisionsAudited`: its conjuncts. `TypeOK` includes the uniqueness of
  policy ids and routes, which `Seed` and `AdminReplace` keep.
* `DisconnectedUnrecorded`: the action property `NoRecordAfterDisconnect`.
* `ImplementsLedger`: `Spec => LedgerRefinement`. `ServerCommits` maps to `Record`, `Reply`
  to `Tell` or `Refuse`, `ReplyLost` and `Crash` to `Refuse`, everything else to a stutter.
  It needs `OutcomeOK`: from `persist` on, the outcome says what the decision says, and a
  finished request was told an error or what is on record.

`EvidenceProofs`:
* `EvidenceHolds`: `EvidenceInv` is inductive beside `IInv`. That a row on record is justified,
  storable and names the right policy is known only since it was known of the `draft` it was
  staged from (`Evident`), and of a draft only since the request and the lists it is made from were
  normalised when they were read (`ConsultedAt`) and the policy found is for the draft's
  route, in the same spelling (`SameRoute(found, draft)`). The normalisations of request, lookup
  and record are three functions in the code; the lemmas on them say that each changes
  nothing that another has normalised.
* `DecisionsStorable`, `RowsJustified` follow from it.
* `MatchedPolicyReported` assumes `RoutesFixed`: no two policies that are ever written have one
  id and different routes. Nothing in the schema prevents an operator from moving a policy that
  decisions refer to; every instance checked by TLC satisfies it.
* `OneVersionHolds`, `AllowFromOneVersion` assume `VersionsFixed`: an operator writes no
  second version of a policy, whoever wrote the first, and deletes only what neither the seeder
  nor an operator writes again. It holds in `seeded` and `deletion`; `torn_read` violates its
  second part, and the property with it. The argument: between the three SELECTs a policy's
  standing stays and its lists only grow, by a run of the seeder, so the capabilities read last
  include those of the version whose roles were read (`ReadAt`); or the policy is deleted
  and stays away (`Gone`), and then the foreign key refuses the decision (`ReferencesKept`).

`PolicySeederProofs`, for any seeds, runs, initial rows and operator that satisfy
`SeederAssumption` (a seed comes before its lists, seeds do not clash with each other, and
an operator does not give a seed's role or capability row to another policy):
* `SeederInvariant`: `SeederInv` is inductive. The tables' constraints must be known of each
  open transaction's view (`RowsApart`), which the waits keep apart; and what a run has
  written must be tied to its place in the script (`WrittenAt`, `EventsAt`), or nothing would
  follow about what a COMMIT shows.
* `WaitsEnd`: a row of `Script` has one place, and a run has written only what it has passed.
* `RunsGoOn`, the safety half of `EveryRunEnds`: whenever a run waits, another one with an open
  transaction does not. Of the open runs the one that has come furthest waits for nobody, by
  `WaitsEnd`; that there is a furthest, among any number of runs, is the least number of a set
  of numbers (`LeastNumber`), from the library's well-foundedness of `<`.
* `SuccessIsSeeded`: assuming that nobody deletes (`Deletable = {}`), what was skipped stays.
* `ImplementsSeeding`: `ServerCommits` maps to `Show`, the three ways to end to `Report`, the
  operator to `Write`, every other step to a stutter.

`SeederCountProofs`, under the same assumption:
* `SummariesCounted`: `CountInv` is inductive beside `SeederInv`. A run has counted the events it
  has written, on record or not, and its policies, one of which may lack its event (`CountedRun`);
  so the summary it prints counts what is on record of it. While nobody deletes policies, the
  policy of an event stays (`EventsKept`), and the unique index keeps a second run from
  seeding, and auditing, it again.
* `SummariesBounded`: with `Deletable = {}`, the summaries of all runs add up to no more than the
  seeds have, in each table. `TallyInv` says why: an open run has counted exactly the rows it
  has written (`TalliedRun`), a COMMIT moves them to the tables, where they are rows of the
  script and apart from those of earlier runs, and stay. So the sum over the committed runs
  is at most the number of the script's rows in place. The facts about sums over a finite set
  (`SumOfMore`, `SumOfFewer`, `SumSame`) are proved as lemmas: a smallest set for which one
  fails does not exist.

`SeedingStepProofs`, under the same assumption and `KeysAssumption` (a route has four parts, a
list row's key is its policy and its word, every list row of a seed is of a seed, and the id of
such a row is given to no other word):
* `SeedingIsOneStep`: each COMMIT adds to the tables and the outbox exactly what `PolicyStore`
  says of adding the part of the script that is then in place (`InPlace`) to the tables as they
  are at that moment. The argument: a row in place is written, or something that is committed
  stands against it, never both (`NewRows`), so the policies written are those whose id and
  route are free at the COMMIT (`FreshSeedsWritten`); they have all the lists of their seeds,
  which no operator can take from under a transaction (`FreshWhole`); and every older policy of
  a seed's id has all the words of the part (`ListsRegained`). It rests on `SeederInv`; that the
  part is the whole script while nobody deletes (`AllInPlace`) rests on the cover of what was
  skipped (`CoveredRun`) of `SuccessIsSeeded`.

`LifecycleProofs`, for any finite set of requests, any probes among them, environments,
width of numbers, and minimum and maximum of the DSN:
* `LifecycleHolds`: `LifecycleInv` is inductive. `CleanExitKillsNobody` alone is not: that
  nothing arrives between `FindIdle` and the end, and that the pool is closed only on these
  two paths, is `ProcessInv`; what a request's state says of the pool and the
  configuration is `Fits`, one request at a time; the count of connections is `PoolInv`.
* `CleanExit`, `PoolClosesLast`, `PoolSized`, `EndpointsAgree` follow from it.

`MigrationsProofs`, for any transactions, inputs and procedures, one at a time:
* `MigrationsHold`: `MigrationsInv` is inductive. That a check can be added needs to know
  that it was dropped just before (`UpProgress`) and that neither a row on record nor one in
  an open transaction stands against it (`RowsFitChecks`); that the service is not refused
  needs what an up beside it does not take away (`ServedSchema`).
* `ChecksKept`, `UpsRepeatable`, `ScriptsDoAll` follow from it, and so does the action
  property `ServiceAccepted`.

Only model-checked: the liveness properties
`EveryRequestSettles`, `EveryRunEnds`, `ShutdownEnds`, `ProbesEnd`, `StartupEnds`,
`AbandonmentEnds` and `UpgradeEnds`, since liveness under fairness is beyond the prover used
here. `AllowMeetsOneVersion` without `VersionsFixed` is false, as `torn_read` shows.

## Not modelled

* Correlation ids, messages, time stamps, `actor_context_id` and the other ids copied
  from TaifaID, membership summaries: copied, never decided upon. A membership's `status`
  is not examined by the code either.
* `nil` and empty lists in JSON (`null` or `[]` in a JSONB column).
* A text PostgreSQL cannot store (U+0000) and the handful of guards against `nil`
  services that `app.New` rules out.
* Decision ids: random, taken to be fresh. A client's retry is another request.
* The operator is assumed not to change the route of a policy that a decision references
  (`AdminPolicies` has one route per id), which nothing in the schema prevents.
* Time: timeouts are failures that can always happen; that the two calls to TaifaID may
  together outlast the server's `WriteTimeout` is `ReplyLost`.
* How `taifaid.Client` composes requests and decodes answers: its callers tell only an
  answer from an error, whatever the reason.
* Names, addresses and durations of the configuration that no control depends on, and
  `/healthz`, which looks at nothing.
* In `Lifecycle`, the read, write and idle timeouts of net/http, and a panic in a
  handler: the code has none to recover from.
* In `Migrations`, two psqls at once, the seeding that compose puts between the ups and the
  service, down scripts beside a seeder, and a psql that is killed while the server goes on to
  apply its statement: `Interrupt` is between two statements.
* Ids, the clock, and the smoke test, which is a client.

## Plan

Done in this order: evaluator and its semantics; the endpoint with the tables; the ledger;
the seeder and its abstract specification; the life of the process with its settings, pool
and probes; the migrations; the proofs of each; the proofs about the contents of decisions and
about summaries; the seeder's COMMIT as the one step of `Exchange`, beside any operator.
