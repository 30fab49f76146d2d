----------------------------- MODULE PolicyStore -----------------------------
(***************************************************************************)
(* The policy tables of TaifaExchange's database and the statements run on *)
(* them: the three SELECTs of policy.Repository.FindByRoute, each of which *)
(* sees the tables as they are when it runs, and the one transaction of    *)
(* policy.Seeder.SeedCanonical.                                            *)
(*                                                                         *)
(* The rows of exchange_policies, exchange_policy_roles and                *)
(* exchange_policy_capabilities are kept together as one set of Policy     *)
(* records: a role or capability row belongs to exactly one policy         *)
(* (ON DELETE CASCADE) and is identified by its policy and its word.       *)
(***************************************************************************)
EXTENDS PolicyEvaluator

KnownTargetSystems ==
  {"TAIFA_ID", "TAIFA_CARE", "TAIFA_TAX", "TAIFA_PAY", "TAIFA_OBSERVE", "TAIFA_CITIZEN"}

KnownMethods == {"GET", "POST", "PUT", "PATCH", "DELETE"}

KnownRoles ==
  {"CITIZEN", "PROVIDER_CLINICIAN", "PROVIDER_CLAIMS_OFFICER", "CARE_ADJUDICATOR", "TAX_OFFICER",
   "EMPLOYER_SUBMITTER", "PAY_OPERATOR", "OBSERVE_ANALYST", "OBSERVE_AUDITOR", "SYSTEM_ADMIN"}

KnownCapabilities ==
  {"CAN_EMPLOY_PERSONS", "CAN_SUBMIT_TAX_CONTRIBUTIONS", "CAN_PROVIDE_HEALTH_SERVICES",
   "CAN_RECEIVE_HEALTH_PAYOUTS", "CAN_ROUTE_PAYMENTS", "CAN_HOLD_RESERVE_ACCOUNT",
   "CAN_OPERATE_GOVERNMENT_SERVICE", "CAN_OBSERVE_SECURITY_EVENTS"}

\* What the CHECK constraints of the three tables let a policy be.
StorablePolicy ==
  {p \in Policy : /\ p.target \in {Plain(w) : w \in KnownTargetSystems}
                  /\ p.method \in {Plain(w) : w \in KnownMethods}
                  /\ p.effect \in {Plain("ALLOW"), Plain("DENY")}
                  /\ p.status \in {Plain("ACTIVE"), Plain("DISABLED")}
                  /\ p.route.word # "" /\ p.operation.word # ""
                  /\ p.requiredRoles \subseteq {Plain(w) : w \in KnownRoles}
                  /\ p.requiredCapabilities \subseteq {Plain(w) : w \in KnownCapabilities}}

SameRoute(p, q) == /\ p.target = q.target /\ p.method = q.method
                   /\ p.route = q.route /\ p.operation = q.operation

\* The primary key and the unique index on the four parts of the route.
UniquePolicies(ps) ==
  \A p, q \in ps : p.id = q.id \/ SameRoute(p, q) => p = q
-----------------------------------------------------------------------------
\* Variant: the route is folded like a method.
LookupInputFoldingRoute(target, method, route, operation) ==
  [target |-> Fold(target), method |-> Fold(method),
   route |-> Fold(route), operation |-> TrimSpace(operation)]

\* LookupInput.Normalized.
LookupInput(target, method, route, operation) ==
  [target |-> Fold(target), method |-> Fold(method),
   route |-> TrimSpace(route), operation |-> TrimSpace(operation)]

\* The first SELECT of FindByRoute: at most one row, by the unique index.
SelectPolicy(ps, lookup) == {p \in ps : SameRoute(p, lookup)}

\* Its Scan: the role and capability lists are not part of the row.
ScannedRow(p) == [p EXCEPT !.requiredRoles = {}, !.requiredCapabilities = {}]

\* listPolicyRoles and listPolicyCapabilities: empty for a policy that is not there.
ListPolicyRoles(ps, id) == UNION {p.requiredRoles : p \in {q \in ps : q.id = id}}

ListPolicyCapabilities(ps, id) == UNION {p.requiredCapabilities : p \in {q \in ps : q.id = id}}
-----------------------------------------------------------------------------
\* insertSeedPolicy, ON CONFLICT DO NOTHING: a seed whose id or route is taken is skipped.
FreshSeeds(ps, seeds) == {s \in seeds : \A p \in ps : p.id # s.id /\ ~SameRoute(p, s)}

\* The role and capability rows are inserted for every seed, skipped or not; a row for
\* a policy id that is not in the table violates the foreign key and aborts the run.
SeedAccepted(ps, seeds) ==
  \A s \in seeds : \/ s.requiredRoles \cup s.requiredCapabilities = {}
                   \/ \E p \in ps \cup FreshSeeds(ps, seeds) : p.id = s.id

\* A policy already in the table regains every role and capability row of its seed.
Reseeded(p, seeds) ==
  LET own == {s \in seeds : s.id = p.id} IN
  [p EXCEPT !.requiredRoles = @ \cup UNION {s.requiredRoles : s \in own},
            !.requiredCapabilities = @ \cup UNION {s.requiredCapabilities : s \in own}]

\* Variant: each row is committed by itself, so a first run shows policies without lists.
SeededPieceByPiece(ps, seeds) ==
  {Reseeded(p, seeds) : p \in ps} \cup {ScannedRow(s) : s \in FreshSeeds(ps, seeds)}

\* The tables after SeedCanonical has committed.
SeededPolicies(ps, seeds) == {Reseeded(p, seeds) : p \in ps} \cup FreshSeeds(ps, seeds)

WithLists(p, roles, capabilities) ==
  [p EXCEPT !.requiredRoles = roles, !.requiredCapabilities = capabilities]

\* A seed, or less of its lists.
PartsOf(seed) ==
  {WithLists(seed, roles, capabilities) :
     roles \in SUBSET seed.requiredRoles, capabilities \in SUBSET seed.requiredCapabilities}

\* What a COMMIT may seed beside an operator who deletes rows: a row that the run has found
\* in place and skipped may be gone again.  It locks only the rows it inserts.
SeedParts(seeds) == SUBSET UNION {PartsOf(s) : s \in seeds}
=============================================================================
