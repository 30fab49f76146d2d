----------------------------- MODULE PolicySeeding -----------------------------
(***************************************************************************)
(* What seeding promises whoever reads the policy tables and the audit     *)
(* outbox, however many runs there are, whatever they wait for and wherever*)
(* they fail: each run shows its rows at once or never, every policy it    *)
(* shows has its whole lists and one event, and success is reported for    *)
(* what is there to stay.                                                  *)
(***************************************************************************)
CONSTANTS Runs,
          SeedRows,              \* the rows of the seeds
          OperatorRows,
          InitialRows,
          Sound(_),              \* rows satisfy the keys, unique indexes and foreign keys
          SeededEvent(_, _)      \* the event of a run about a policy row

VARIABLES stored,    \* the policy tables
          outbox,    \* the events of seeded policies
          shown,     \* the runs whose rows are shown
          reported   \* what each run's caller was told: "none", "ok" or "failed"

seedingVars == <<stored, outbox, shown, reported>>

SeedingInit ==
  /\ stored = InitialRows /\ outbox = {} /\ shown = {}
  /\ reported = [r \in Runs |-> "none"]

ListRowsOf(p) == {row \in SeedRows : row.table # "policies" /\ row.policy = p.id}

Show(r) ==
  LET new == stored' \ stored
      newPolicies == {row \in new : row.table = "policies"}
  IN /\ r \notin shown /\ shown' = shown \cup {r}
     /\ stored \subseteq stored' /\ new \subseteq SeedRows /\ Sound(stored')
     /\ \A p \in newPolicies : ListRowsOf(p) \subseteq stored'
     /\ outbox' = outbox \cup {SeededEvent(r, p) : p \in newPolicies}
     /\ UNCHANGED reported

Report(r) ==
  /\ reported[r] = "none"
  /\ \/ reported' = [reported EXCEPT ![r] = "failed"]
     \/ r \in shown /\ reported' = [reported EXCEPT ![r] = "ok"]
  /\ UNCHANGED <<stored, outbox, shown>>

\* The operator writes no events.
Write ==
  /\ stored' \subseteq stored \cup OperatorRows /\ Sound(stored')
  /\ UNCHANGED <<outbox, shown, reported>>

SeedingNext == (\E r \in Runs : Show(r) \/ Report(r)) \/ Write

SeedingSpec == SeedingInit /\ [][SeedingNext]_seedingVars
=============================================================================
