------------------------------ MODULE SeedingStep ------------------------------
(***************************************************************************)
(* Exchange takes a run of taifa-exchange-seed as one step on the tables,  *)
(* Seed, with the operators of PolicyStore.  Here that step is compared    *)
(* with the COMMIT of a run of PolicySeeder, after all its statements and  *)
(* everything that other runs and an operator did between them.            *)
(***************************************************************************)
EXTENDS PolicySeederProperties

Store == INSTANCE PolicyStore WITH Words <- STRING, PolicyIDs <- STRING \ {""}, Nil <- ""

ListWords(rows, table, policy) ==
  {Store!Plain(row.key[2]) : row \in {l \in rows : l.table = table /\ l.policy = policy}}

\* A policy with its lists as PolicyStore has it.  Rows do not keep effect and status, which
\* no INSERT ... ON CONFLICT DO NOTHING changes: all have those of a seed.
AsPolicy(rows, p) ==
  [id |-> p.id, target |-> Store!Plain(p.key[1]), method |-> Store!Plain(p.key[2]),
   route |-> Store!Plain(p.key[3]), operation |-> Store!Plain(p.key[4]),
   effect |-> Store!Plain("ALLOW"), status |-> Store!Plain("ACTIVE"),
   requiredRoles |-> ListWords(rows, "roles", p.id),
   requiredCapabilities |-> ListWords(rows, "capabilities", p.id)]

PoliciesIn(rows) == {p \in rows : p.table = "policies"}

Tables(rows) == {AsPolicy(rows, p) : p \in PoliciesIn(rows)}

\* The unique indexes are over the four parts of a route, and over policy and word; a
\* seed's lists are a seed's; and nobody gives another word the id of a seed's list row, for
\* then that word of the seed would be skipped.
ASSUME KeysAssumption ==
  /\ \A p \in PoliciesIn(Rows) : p.key \in [1 .. 4 -> STRING]
  /\ \A row \in Rows \ PoliciesIn(Rows) : row.key = <<row.policy, row.key[2]>>
  /\ \A s \in ScriptRows : HasPolicy(ScriptRows, s)
  /\ \A row \in Rows, s \in ScriptRows \ PoliciesIn(ScriptRows) :
       row.table = s.table /\ row.id = s.id => row.key = s.key

\* The rows of the script that are in place when a transaction commits, or others in theirs.
InPlace(rows) == {s \in ScriptRows : \E row \in rows : Conflicts(row, s)}

\* Exchange!Seed, but for what Exchange alone has: all seeds, or, beside an operator who
\* deletes, what is left of them, are added to the tables as they are at this moment.  A seed
\* that is new has all its lists, and one event.
SeedStep(r) ==
  LET seeds == Tables(InPlace(stored \cup written[r])) IN
  /\ seeds \in IF Deletable = {} THEN {Tables(ScriptRows)} ELSE Store!SeedParts(Tables(ScriptRows))
  /\ Store!FreshSeeds(Tables(stored), seeds) \subseteq Tables(ScriptRows)
  /\ Store!SeedAccepted(Tables(stored), seeds)
  /\ Tables(stored)' = Store!SeededPolicies(Tables(stored), seeds)
  /\ outbox' = outbox \cup
       {[policy |-> s.id, by |-> r] : s \in Store!FreshSeeds(Tables(stored), seeds)}

\* However long a run of SeedCanonical took (seed.go:62), whomever it waited for and whatever
\* it has skipped on the strength of an earlier look: its COMMIT does what a run would do
\* that ran alone at that moment, less only what was deleted after it was skipped.
CommitIsOneStep == [][\A r \in committed' \ committed : SeedStep(r)]_vars
=============================================================================
