------------------------ MODULE PolicySeederProperties ------------------------
(* What runs of taifa-exchange-seed promise beside one another and beside an operator, and
   the invariant that their proofs rest on. *)
EXTENDS PolicySeeder

\* Every local variable and table has the shape the code gives it.
TypeOK ==
  /\ stored \subseteq Rows
  /\ outbox \subseteq [policy : {row.policy : row \in Rows}, by : Runs]
  /\ pc \in [Runs -> {"idle", "insert", "audit", "commit", "committing", "done"}]
  /\ at \in [Runs -> 1 .. Len(Script) + 1]
  /\ written \in [Runs -> SUBSET ScriptRows]
  /\ events \in [Runs -> SUBSET [policy : {row.policy : row \in Rows}, by : Runs]]
  /\ sent \subseteq Runs /\ committed \subseteq Runs
  /\ summary \in [Runs -> [Counters -> Nat]]
  /\ exit \in [Runs -> {"none", "ok", "failed"}]
-----------------------------------------------------------------------------
Seeding == INSTANCE PolicySeeding WITH
  SeedRows <- ScriptRows, Sound <- TablesSound, shown <- committed, reported <- exit

\* InTx around the three loops of SeedCanonical (seed.go:62): no policy is ever visible
\* without its lists (it would allow everyone), none without its event, also when a run is
\* cut short, waits for another, or has its COMMIT acknowledged late or never.
SeedingRefinement == Seeding!SeedingSpec

\* How many rows of the script the run has inserted or skipped.
Passed(r) == IF pc[r] = "audit" THEN at[r] ELSE at[r] - 1

\* Runs insert the same rows in the same order (seed.go:63), so a run only ever waits for
\* one that has passed more of them: runs never wait for each other in a circle, which
\* PostgreSQL would break by failing one of them.
WaitsForTheFurther == \A r, q \in Runs : WaitsFor(r, q) => Passed(r) < Passed(q)

\* main prints a summary (main.go:49) only when every seed is in the tables, or another row
\* holds its id, route, role or capability; unless an operator has deleted it since.
SuccessMeansSeeded ==
  \A r \in Runs : exit[r] = "ok" =>
     \A i \in DOMAIN Script : \E row \in stored : Conflicts(row, Script[i])

InTable(rows, table) == {row \in rows : row.table = table}

CanonicalCount(counter) ==
  Cardinality(InTable(ScriptRows, IF counter = "auditEvents" THEN "policies" ELSE counter))

Column(counter) == [r \in Runs |-> summary[r][counter]]

\* README, "Seed": a second run reports zeros.  However runs overlap, no row and no event is
\* reported by two of them, so the summaries printed never add up to more than the seeds.
SummariesAddUp ==
  \A counter \in Counters :
     SumFunctionOnSet(Column(counter), {r \in Runs : exit[r] = "ok"}) <= CanonicalCount(counter)

EventsBy(r) == {e \in outbox : e.by = r}

\* The summary a run prints (main.go:49) counts the policies and events that are on record
\* of it, neither those of a run beside it nor those of a transaction that did not commit;
\* and while nobody deletes policies, no policy is seeded, or audited, twice.
SummariesMatchEvents ==
  /\ \A r \in Runs : exit[r] = "ok" =>
       \A counter \in {"policies", "auditEvents"} :
          summary[r][counter] = Cardinality(EventsBy(r))
  /\ Deletable = {} => \A e, other \in outbox : e.policy = other.policy => e = other

\* A run ends although it waits for others, without SEED_TIMEOUT's help: there is always one
\* that does not wait.
EveryRunEnds == \A r \in Runs : pc[r] = "insert" ~> pc[r] = "done"
-----------------------------------------------------------------------------
Open(r) == pc[r] \in {"insert", "audit", "commit"} \/ r \in sent

\* While a run waits, another one with an open transaction does not wait, so it skips its next
\* row, inserts it or is refused, or goes on to its COMMIT.
SomebodyGoesOn ==
  \A r, q \in Runs : WaitsFor(r, q) =>
    \E last \in Runs : Open(last) /\ \A other \in Runs : ~WaitsFor(last, other)

\* Everything the run has been through is written or was taken, and a policy it has written
\* has its lists written as far as the run has come.
WrittenAt(r) ==
  /\ written[r] \subseteq {Script[i] : i \in 1 .. at[r] - 1}
        \cup IF pc[r] = "audit" THEN {NextRow(r)} ELSE {}
  /\ pc[r] = "audit" => NextRow(r) \in written[r] /\ NextRow(r).table = "policies"
  /\ \A p \in written[r] : \A i \in 1 .. at[r] - 1 :
        p.table = "policies" /\ Script[i].table # "policies" /\ Script[i].policy = p.id
          => Script[i] \in written[r]

\* One event for each policy it has written, but for the one just inserted.
EventsAt(r) ==
  events[r] = {SeededEvent(r, p) : p \in {w \in written[r] : /\ w.table = "policies"
                                             /\ ~(pc[r] = "audit" /\ w = NextRow(r))}}

StageAt(r) ==
  /\ pc[r] = "idle" => at[r] = 1
  /\ pc[r] = "insert" \/ pc[r] = "audit" => at[r] <= Len(Script)
  /\ pc[r] \in {"commit", "committing"} \/ r \in sent \cup committed => at[r] = Len(Script) + 1
  /\ r \in sent => pc[r] \in {"committing", "done"} /\ r \notin committed
  /\ r \in committed => pc[r] \in {"committing", "done"}
  /\ ~Open(r) => written[r] = {} /\ events[r] = {}
  /\ pc[r] # "done" <=> exit[r] = "none"
  /\ exit[r] = "ok" => r \in committed

\* The waits keep rows apart that a unique index does not let stand together, and the
\* foreign keys hold of each transaction's view.
RowsApart ==
  /\ TablesSound(stored)
  /\ \A r \in Runs : \A w \in written[r] :
       /\ \A row \in stored : ~Conflicts(row, w)
       /\ \A q \in Runs \ {r} : \A other \in written[q] : ~Conflicts(other, w)
       /\ HasPolicy(stored \cup written[r], w)

RunInv(r) == WrittenAt(r) /\ EventsAt(r) /\ StageAt(r)

\* The inductive invariant.
SeederInv == TypeOK /\ RowsApart /\ \A r \in Runs : RunInv(r)

\* What an open or committed run has inserted or skipped is there, or something in its
\* place, as long as nobody deletes rows.
CoveredRun(r) ==
  Open(r) \/ r \in committed =>
    \A i \in 1 .. Passed(r) : \E row \in stored \cup written[r] : Conflicts(row, Script[i])

\* A run has counted its events, on record or not, and its policies, one of which may still
\* lack its event; until its transaction is rolled back, when nobody will see its summary.
CountedRun(r) ==
  LET mine == events[r] \cup EventsBy(r) IN
  /\ IsFiniteSet(mine)
  /\ r \notin committed => EventsBy(r) = {}
  /\ pc[r] = "idle" \/ Open(r) \/ r \in committed =>
       /\ summary[r]["auditEvents"] = Cardinality(mine)
       /\ summary[r]["policies"] = Cardinality(mine) + (IF pc[r] = "audit" THEN 1 ELSE 0)

\* The policy of every event is there, and has no other event, as long as nobody deletes.
EventsKept ==
  /\ \A e \in outbox : \E row \in stored : row.table = "policies" /\ row.id = e.policy
  /\ \A e, other \in outbox : e.policy = other.policy => e = other

\* Inductive beside SeederInv.
CountInv == (\A r \in Runs : CountedRun(r)) /\ (Deletable = {} => EventsKept)

SeededTables == Counters \ {"auditEvents"}

\* A run has counted the rows it has written, in each table.
TalliedRun(r) ==
  pc[r] = "idle" \/ Open(r) =>
    \A table \in SeededTables :
       summary[r][table] = Cardinality(InTable(written[r], table))

\* The rows that the committed runs have counted are different rows of the script and are
\* there, as long as nobody deletes.  Inductive beside SeederInv.
TallyInv ==
  /\ IsFiniteSet(committed)
  /\ \A r \in Runs : TalliedRun(r)
  /\ \A table \in SeededTables :
       SumFunctionOnSet(Column(table), committed)
         <= Cardinality(InTable(stored \cap ScriptRows, table))
=============================================================================
