-------------------------- MODULE SeederCountProofs --------------------------
(***************************************************************************)
(* Proofs about the summaries of taifa-exchange-seed: what a run reports   *)
(* is what is on record of it, for any number of runs, any seeds and any   *)
(* rows an operator writes meanwhile.                                      *)
(***************************************************************************)
EXTENDS PolicySeederProofs, FiniteSetTheorems

(* Counting one more. *)

LEMMA EventParts ==
  ASSUME NEW r, NEW row
  PROVE  SeededEvent(r, row).by = r /\ SeededEvent(r, row).policy = row.policy
BY DEF SeededEvent

LEMMA OneMore ==
  ASSUME NEW S, NEW x, x \notin S, IsFiniteSet(S)
  PROVE  IsFiniteSet(S \cup {x}) /\ Cardinality(S \cup {x}) = Cardinality(S) + 1
BY FS_AddElement

LEMMA Counted ==
  ASSUME TypeOK, NEW r \in Runs, NEW counter \in Counters, Count(r, counter)
  PROVE  /\ summary'[r][counter] = summary[r][counter] + 1
         /\ \A other \in Counters \ {counter} : summary'[r][other] = summary[r][other]
         /\ \A q \in Runs \ {r} : summary'[q] = summary[q]
<1>1. summary \in [Runs -> [Counters -> Nat]]
  BY DEF TypeOK
<1>2. summary' = [summary EXCEPT ![r][counter] = summary[r][counter] + 1]
  BY DEF Count
<1> QED
  BY <1>1, <1>2

\* The events a run is to show are its own.
LEMMA OwnEvents ==
  ASSUME SeederInv, NEW r \in Runs PROVE \A e \in events[r] : e.by = r
<1>1. EventsAt(r)
  BY DEF SeederInv, RunInv
<1> QED
  BY <1>1, EventParts DEF EventsAt

\* The policy just inserted has no event yet.
LEMMA NewEvent ==
  ASSUME SeederInv, NEW r \in Runs, pc[r] = "audit"
  PROVE  SeededEvent(r, NextRow(r)) \notin events[r]
<1>1. WrittenAt(r) /\ EventsAt(r) /\ written[r] \subseteq ScriptRows
  BY DEF SeederInv, RunInv, TypeOK
<1>2. NextRow(r) \in ScriptRows /\ NextRow(r).table = "policies"
  BY <1>1 DEF WrittenAt
<1>3. ASSUME NEW p \in written[r], p.table = "policies", p # NextRow(r),
             SeededEvent(r, p) = SeededEvent(r, NextRow(r))
      PROVE  FALSE
  <2>1. p.policy = NextRow(r).policy
    BY <1>3, EventParts
  <2>2. p.policy = p.id /\ NextRow(r).policy = NextRow(r).id
    BY <1>1, <1>2, <1>3, ScriptTyped, PolicyOfItself
  <2>3. Conflicts(p, NextRow(r))
    BY <1>2, <1>3, <2>1, <2>2 DEF Conflicts
  <2> QED
    BY <1>1, <1>2, <1>3, <2>3, ScriptRowsApart
<1>4. events[r] = {SeededEvent(r, p) : p \in {w \in written[r] :
                                                w.table = "policies" /\ w # NextRow(r)}}
  BY <1>1 DEF EventsAt
<1> QED
  BY <1>3, <1>4
-----------------------------------------------------------------------------
(* What a run has counted, step by step. *)

\* A step that neither counts nor ends the transaction, but may put it on record.
LEMMA CountedStill ==
  ASSUME NEW q \in Runs, CountedRun(q), summary'[q] = summary[q],
         events'[q] \cup EventsBy(q)' = events[q] \cup EventsBy(q),
         pc'[q] = "audit" <=> pc[q] = "audit",
         q \notin committed' => q \notin committed /\ EventsBy(q)' = EventsBy(q),
         pc'[q] = "idle" \/ Open(q)' \/ q \in committed' =>
           pc[q] = "idle" \/ Open(q) \/ q \in committed
  PROVE  CountedRun(q)'
BY DEF CountedRun

\* A run whose transaction is rolled back prints no summary.
LEMMA CountedLeave ==
  ASSUME NEW r \in Runs, CountedRun(r), UNCHANGED outbox, events'[r] \subseteq events[r],
         pc'[r] # "idle", ~Open(r)', r \notin committed', r \notin committed
  PROVE  CountedRun(r)'
<1>1. EventsBy(r)' = EventsBy(r)
  BY DEF EventsBy
<1>2. IsFiniteSet(events'[r] \cup EventsBy(r)')
  <2>1. events'[r] \cup EventsBy(r)' \subseteq events[r] \cup EventsBy(r)
    BY <1>1
  <2> QED
    BY <2>1, FS_Subset DEF CountedRun
<1> QED
  BY <1>1, <1>2 DEF CountedRun

\* A run's step leaves the other runs alone.
LEMMA OthersUntouched ==
  ASSUME SeederInv, NEW r \in Runs, Proceed(r) \/ EndCommit(r) \/ Fail(r) \/ Server(r),
         NEW q \in Runs \ {r}
  PROVE  /\ pc'[q] = pc[q] /\ written'[q] = written[q] /\ events'[q] = events[q]
         /\ summary'[q] = summary[q]
         /\ (q \in sent' <=> q \in sent) /\ (q \in committed' <=> q \in committed)
         /\ outbox' = outbox \/ outbox' = outbox \cup events[r]
<1>0. TypeOK
  BY DEF SeederInv
<1>1. CASE InsertRow(r)
  <2>1. summary'[q] = summary[q]
    <3>1. NextRow(r).table \in Counters
      BY <1>1, InsertRowFinds, ScriptTyped, TableCounted
    <3> QED
      BY <1>0, <1>1, <3>1, Counted DEF InsertRow
  <2> QED
    BY <1>0, <1>1, <2>1 DEF TypeOK, InsertRow, Advance
<1>2. CASE InsertAudit(r)
  BY <1>0, <1>2, Counted DEF TypeOK, InsertAudit, Advance, Counters
<1>3. CASE Start(r) \/ SkipRow(r) \/ RefuseOrphan(r) \/ SendCommit(r)
  BY <1>0, <1>3 DEF TypeOK, Start, SkipRow, RefuseOrphan, SendCommit, Goto, Exit, Advance,
                    RollBack
<1>4. CASE EndCommit(r)
  BY <1>0, <1>4 DEF TypeOK, EndCommit, Succeed, CommitFails, Exit
<1>5. CASE Fail(r)
  BY <1>0, <1>5 DEF TypeOK, Fail, StartFails, StatementFails, Exit, RollBack
<1>6. CASE Server(r)
  BY <1>0, <1>6 DEF TypeOK, Server, ServerCommits, ServerAborts, RollBack
<1> QED
  BY <1>1, <1>2, <1>3, <1>4, <1>5, <1>6 DEF Proceed

LEMMA CountedElsewhere ==
  ASSUME SeederInv, NEW r \in Runs, Proceed(r) \/ EndCommit(r) \/ Fail(r) \/ Server(r),
         NEW q \in Runs \ {r}, CountedRun(q)
  PROVE  CountedRun(q)'
<1>1. /\ pc'[q] = pc[q] /\ events'[q] = events[q] /\ summary'[q] = summary[q]
      /\ (q \in sent' <=> q \in sent) /\ (q \in committed' <=> q \in committed)
      /\ outbox' = outbox \/ outbox' = outbox \cup events[r]
  BY OthersUntouched
<1>2. EventsBy(q)' = EventsBy(q)
  BY <1>1, OwnEvents DEF EventsBy
<1>3. Open(q)' <=> Open(q)
  BY <1>1 DEF Open
<1> QED
  BY <1>1, <1>2, <1>3, CountedStill

\* The two counters that the invariant is about.
LEMMA CountersNumbers ==
  ASSUME TypeOK, NEW r \in Runs
  PROVE  summary[r]["auditEvents"] \in Nat /\ summary[r]["policies"] \in Nat
BY DEF TypeOK, Counters

LEMMA CountedInsert ==
  ASSUME SeederInv, NEW r \in Runs, InsertRow(r), CountedRun(r) PROVE CountedRun(r)'
<1>0. TypeOK
  BY DEF SeederInv
<1>1. /\ pc[r] = "insert" /\ NextRow(r).table \in Counters \ {"auditEvents"}
      /\ UNCHANGED <<outbox, events, committed, sent>> /\ Count(r, NextRow(r).table)
  <2>1. NextRow(r) \in Rows /\ NextRow(r) \in Row
    BY InsertRowFinds, ScriptTyped, SeederAssumption
  <2>2. NextRow(r).table \in {"policies", "roles", "capabilities"}
    BY <2>1 DEF Row
  <2> QED
    BY <2>2, InsertRowFinds DEF InsertRow, Counters
<1>2. EventsBy(r)' = EventsBy(r) /\ events'[r] \cup EventsBy(r)' = events[r] \cup EventsBy(r)
  BY <1>1 DEF EventsBy
<1>3. Open(r)
  BY <1>1 DEF Open
<1>4. CASE NextRow(r).table = "policies"
  <2>1. pc'[r] = "audit"
    BY <1>0, <1>4 DEF InsertRow, TypeOK
  <2>2. /\ summary'[r]["policies"] = summary[r]["policies"] + 1
        /\ summary'[r]["auditEvents"] = summary[r]["auditEvents"]
    BY <1>0, <1>1, <1>4, Counted DEF Counters
  <2>3. summary[r]["policies"] = Cardinality(events[r] \cup EventsBy(r))
    BY <1>1, <1>3, FS_CardinalityType DEF CountedRun
  <2> QED
    BY <1>1, <1>2, <1>3, <2>1, <2>2, <2>3 DEF CountedRun
<1>5. CASE NextRow(r).table # "policies"
  <2>1. pc'[r] \in {"insert", "commit"}
    BY <1>1, <1>5, AdvanceTo DEF InsertRow
  <2>2. /\ summary'[r]["policies"] = summary[r]["policies"]
        /\ summary'[r]["auditEvents"] = summary[r]["auditEvents"]
    BY <1>0, <1>1, <1>5, Counted DEF Counters
  <2> QED
    BY <1>1, <1>2, <1>3, <2>1, <2>2 DEF CountedRun
<1> QED
  BY <1>4, <1>5

LEMMA CountedAudit ==
  ASSUME SeederInv, NEW r \in Runs, InsertAudit(r), CountedRun(r) PROVE CountedRun(r)'
<1> DEFINE mine == events[r] \cup EventsBy(r)
           e == SeededEvent(r, NextRow(r))
<1>0. TypeOK /\ StageAt(r)
  BY DEF SeederInv, RunInv
<1>1. /\ pc[r] = "audit" /\ Advance(r) /\ Count(r, "auditEvents")
      /\ events' = [events EXCEPT ![r] = @ \cup {e}]
      /\ UNCHANGED <<outbox, sent, committed>>
  BY DEF InsertAudit
<1>2. pc'[r] \in {"insert", "commit"}
  BY <1>1, AdvanceTo
<1>3. r \notin committed /\ Open(r)
  BY <1>0, <1>1 DEF StageAt, Open
<1>4. e \notin mine /\ IsFiniteSet(mine)
  <2>1. EventsBy(r) = {}
    BY <1>3 DEF CountedRun
  <2> QED
    BY <1>1, <2>1, NewEvent DEF CountedRun
<1>5. /\ summary'[r]["auditEvents"] = summary[r]["auditEvents"] + 1
      /\ summary'[r]["policies"] = summary[r]["policies"]
  BY <1>0, <1>1, Counted DEF Counters
<1>6. /\ summary[r]["auditEvents"] = Cardinality(mine)
      /\ summary[r]["policies"] = Cardinality(mine) + 1
  BY <1>1, <1>3 DEF CountedRun
<1> HIDE DEF e
<1>7. EventsBy(r)' = EventsBy(r) /\ events'[r] = events[r] \cup {e}
  BY <1>0, <1>1 DEF EventsBy, TypeOK
<1>8. events'[r] \cup EventsBy(r)' = mine \cup {e}
  BY <1>7
<1> HIDE DEF mine
<1>9. /\ IsFiniteSet(mine \cup {e}) /\ Cardinality(mine \cup {e}) = Cardinality(mine) + 1
      /\ Cardinality(mine) \in Nat
  BY <1>4, OneMore, FS_CardinalityType
<1>10. r \notin committed' => EventsBy(r)' = {}
  BY <1>3, <1>7 DEF CountedRun
<1>11. (events[r] \cup EventsBy(r))' = mine \cup {e}
  BY <1>8
<1>12. pc'[r] # "audit" /\ committed' = committed
  BY <1>1, <1>2
<1>13. /\ summary'[r]["auditEvents"] = Cardinality(mine \cup {e})
       /\ summary'[r]["policies"] = Cardinality(mine \cup {e})
       /\ Cardinality(mine \cup {e}) + 0 = Cardinality(mine \cup {e})
  BY <1>5, <1>6, <1>9
<1> QED
  BY <1>9, <1>10, <1>11, <1>12, <1>13, Zenon DEF CountedRun

LEMMA CountedOwn ==
  ASSUME SeederInv, NEW r \in Runs, Proceed(r) \/ EndCommit(r) \/ Fail(r) \/ Server(r),
         CountedRun(r)
  PROVE  CountedRun(r)'
<1>0. TypeOK /\ StageAt(r)
  BY DEF SeederInv, RunInv
<1>1. CASE Start(r) \/ SendCommit(r) \/ SkipRow(r) \/ EndCommit(r)
  <2>1. UNCHANGED <<outbox, events, summary, committed>>
    BY <1>1 DEF Start, SendCommit, SkipRow, EndCommit, Succeed, CommitFails
  <2>2. /\ pc[r] # "audit" /\ pc'[r] \notin {"idle", "audit"}
        /\ Open(r)' => pc[r] = "idle" \/ Open(r)
    <3>1. CASE Start(r) \/ SendCommit(r)
      BY <1>0, <3>1 DEF Start, SendCommit, Goto, Open, TypeOK
    <3>2. CASE SkipRow(r)
      <4>1. pc[r] = "insert" /\ pc'[r] \in {"insert", "commit"}
        BY <3>2, AdvanceTo DEF SkipRow
      <4> QED
        BY <4>1 DEF Open
    <3>3. CASE EndCommit(r)
      BY <1>0, <3>3 DEF EndCommit, Succeed, CommitFails, Exit, Open, TypeOK
    <3> QED
      BY <1>1, <3>1, <3>2, <3>3
  <2>3. EventsBy(r)' = EventsBy(r)
    BY <2>1 DEF EventsBy
  <2> QED
    BY <2>1, <2>2, <2>3, CountedStill
<1>2. CASE RefuseOrphan(r) \/ Fail(r) \/ ServerAborts(r)
  <2>1. /\ UNCHANGED <<outbox, committed>> /\ events'[r] \subseteq events[r]
        /\ pc'[r] \in {"committing", "done"} /\ r \notin sent' /\ r \notin committed
    BY <1>0, <1>2
    DEF RefuseOrphan, MayInsert, Fail, StartFails, StatementFails, ServerAborts, Exit, RollBack,
        TypeOK, StageAt
  <2>2. ~Open(r)'
    BY <2>1 DEF Open
  <2> QED
    BY <2>1, <2>2, CountedLeave
<1>3. CASE ServerCommits(r)
  <2>1. /\ r \in sent /\ outbox' = outbox \cup events[r] /\ events'[r] = {}
        /\ committed' = committed \cup {r} /\ UNCHANGED <<pc, summary>>
    BY <1>0, <1>3, RollBackTypes DEF ServerCommits
  <2>2. EventsBy(r)' = EventsBy(r) \cup events[r]
    BY <2>1, OwnEvents DEF EventsBy
  <2>3. Open(r) /\ pc[r] # "idle"
    BY <1>0, <2>1 DEF Open, StageAt
  <2> QED
    BY <2>1, <2>2, <2>3, CountedStill
<1> QED
  BY <1>1, <1>2, <1>3, CountedInsert, CountedAudit DEF Proceed, Server

LEMMA NextCounted ==
  ASSUME SeederInv, [Next]_vars, NEW q \in Runs, CountedRun(q) PROVE CountedRun(q)'
<1>1. CASE Operate \/ UNCHANGED vars
  <2>1. UNCHANGED <<outbox, pc, events, sent, committed, summary>>
    BY <1>1 DEF Operate, OperatorInserts, OperatorDeletes, vars
  <2>2. EventsBy(q)' = EventsBy(q) /\ (Open(q)' <=> Open(q))
    BY <2>1 DEF EventsBy, Open
  <2> QED
    BY <2>1, <2>2, CountedStill
<1>2. ASSUME NEW r \in Runs, Proceed(r) \/ EndCommit(r) \/ Fail(r) \/ Server(r)
      PROVE  CountedRun(q)'
  BY <1>2, CountedElsewhere, CountedOwn
<1> QED
  BY <1>1, <1>2 DEF Next, Terminated
-----------------------------------------------------------------------------
(* One event for each policy. *)

\* What a COMMIT adds to the outbox is about policies that no event was about.
LEMMA NextEventsKept ==
  ASSUME Deletable = {}, SeederInv, EventsKept, [Next]_vars PROVE EventsKept'
<1>1. ASSUME UNCHANGED outbox PROVE EventsKept'
  <2>1. stored \subseteq stored'
    BY DEF Next, Terminated, vars, Proceed, Start, InsertRow, SkipRow, InsertAudit, RefuseOrphan,
           SendCommit, EndCommit, Succeed, CommitFails, Fail, StartFails, StatementFails, Server,
           ServerCommits, ServerAborts, Operate, OperatorInserts
  <2> QED
    BY <1>1, <2>1 DEF EventsKept
<1>2. ASSUME NEW r \in Runs, ServerCommits(r) PROVE EventsKept'
  <2>1. stored' = stored \cup written[r] /\ outbox' = outbox \cup events[r]
    BY <1>2 DEF ServerCommits
  <2>2. ASSUME NEW e \in events[r]
        PROVE  \E p \in written[r] : /\ p.table = "policies" /\ e = SeededEvent(r, p)
                                     /\ e.policy = p.id
    <3>1. EventsAt(r) /\ written[r] \subseteq Rows
      BY ScriptTyped DEF SeederInv, RunInv, TypeOK
    <3>2. PICK p \in written[r] : p.table = "policies" /\ e = SeededEvent(r, p)
      BY <2>2, <3>1 DEF EventsAt
    <3> QED
      BY <3>1, <3>2, EventParts, PolicyOfItself
  <2>3. ASSUME NEW e \in events[r], NEW other \in outbox PROVE e.policy # other.policy
    <3>1. PICK p \in written[r] : p.table = "policies" /\ e.policy = p.id
      BY <2>2
    <3>2. PICK row \in stored : row.table = "policies" /\ row.id = other.policy
      BY DEF EventsKept
    <3>3. ~Conflicts(row, p)
      BY DEF SeederInv, RowsApart
    <3> QED
      BY <3>1, <3>2, <3>3 DEF Conflicts
  <2>4. ASSUME NEW e \in events[r], NEW other \in events[r], e.policy = other.policy
        PROVE  e = other
    <3>1. PICK p \in written[r] : e = SeededEvent(r, p)
      BY <2>2
    <3>2. PICK q \in written[r] : other = SeededEvent(r, q)
      BY <2>2
    <3>3. p.policy = q.policy
      BY <2>4, <3>1, <3>2, EventParts
    <3> QED
      BY <3>1, <3>2, <3>3 DEF SeededEvent
  <2>5. \A e \in outbox' : \E row \in stored' : row.table = "policies" /\ row.id = e.policy
    BY <2>1, <2>2 DEF EventsKept
  <2>6. \A e, other \in outbox' : e.policy = other.policy => e = other
    BY <2>1, <2>3, <2>4 DEF EventsKept
  <2> QED
    BY <2>5, <2>6 DEF EventsKept
<1>3. UNCHANGED outbox \/ \E r \in Runs : ServerCommits(r)
  BY DEF Next, Terminated, vars, Proceed, Start, InsertRow, SkipRow, InsertAudit, RefuseOrphan,
         SendCommit, EndCommit, Succeed, CommitFails, Fail, StartFails, StatementFails, Server,
         ServerAborts, Operate, OperatorInserts, OperatorDeletes
<1> QED
  BY <1>1, <1>2, <1>3
-----------------------------------------------------------------------------
LEMMA InitCounts == Init => CountInv
<1> SUFFICES ASSUME Init PROVE CountInv
  OBVIOUS
<1>1. ASSUME NEW r \in Runs PROVE CountedRun(r)
  <2>1. events[r] \cup EventsBy(r) = {} /\ EventsBy(r) = {}
    BY DEF Init, EventsBy
  <2>2. pc[r] = "idle" /\ summary[r]["auditEvents"] = 0 /\ summary[r]["policies"] = 0
    BY DEF Init, EmptySummary, Counters
  <2>3. IsFiniteSet({}) /\ Cardinality({}) = 0 /\ 0 + 0 = 0
    BY FS_EmptySet
  <2>4. pc[r] # "audit"
    BY <2>2
  <2> HIDE DEF Init
  <2> QED
    BY <2>1, <2>2, <2>3, <2>4, Zenon DEF CountedRun
<1>2. EventsKept
  BY DEF Init, EventsKept
<1> QED
  BY <1>1, <1>2 DEF CountInv

LEMMA NextCounts == SeederInv /\ CountInv /\ [Next]_vars => CountInv'
BY NextCounted, NextEventsKept DEF CountInv

LEMMA CountsMatch ==
  ASSUME SeederInv, CountInv PROVE SummariesMatchEvents
<1>1. ASSUME NEW r \in Runs, exit[r] = "ok", NEW counter \in {"policies", "auditEvents"}
      PROVE  summary[r][counter] = Cardinality(EventsBy(r))
  <2>1. StageAt(r) /\ CountedRun(r)
    BY DEF SeederInv, RunInv, CountInv
  <2>2. r \in committed /\ r \notin sent /\ pc[r] = "done"
    BY <1>1, <2>1 DEF StageAt
  <2>3. events[r] = {}
    BY <2>1, <2>2 DEF StageAt, Open
  <2>4. events[r] \cup EventsBy(r) = EventsBy(r)
    BY <2>3
  <2> HIDE DEF EventsBy
  <2>5. Cardinality(EventsBy(r)) \in Nat
    BY <2>1, <2>4, FS_CardinalityType DEF CountedRun
  <2>6. pc[r] # "audit"
    BY <2>2
  <2>7. /\ summary[r]["auditEvents"] = Cardinality(EventsBy(r))
        /\ summary[r]["policies"] = Cardinality(EventsBy(r)) + 0
    BY <2>1, <2>2, <2>4, <2>6, Zenon DEF CountedRun
  <2>8. summary[r]["policies"] = Cardinality(EventsBy(r))
    BY <2>5, <2>7
  <2> QED
    BY <2>7, <2>8, Zenon
<1> QED
  BY <1>1 DEF SummariesMatchEvents, CountInv, EventsKept

\* A printed summary counts the policies and events that are on record of its run, whatever
\* other runs and an operator do meanwhile and wherever runs fail; and while nobody deletes
\* policies, no two runs report the same policy (seed.go:69, main.go:49).
THEOREM SummariesCounted == Spec => []SummariesMatchEvents
BY InitCounts, NextCounts, SeederInvariant, CountsMatch, PTL DEF Spec
-----------------------------------------------------------------------------
(* Sums over a finite set.  An induction over its parts is the choice of a smallest one that
   fails, as the orderings of the library are well-founded. *)

\* Of some parts of a finite set, one has no smaller one among them.
LEMMA SmallestPart ==
  ASSUME NEW S, IsFiniteSet(S), NEW parts, parts \subseteq SUBSET S, parts # {}
  PROVE  \E s \in parts : \A x \in s : s \ {x} \notin parts
<1> DEFINE R == StrictSubsetOrdering(S)
<1>1. IsWellFoundedOn(R, FiniteSubsetsOf(S)) /\ parts \subseteq FiniteSubsetsOf(S)
  BY FS_StrictSubsetOrderingWellFounded, FS_FiniteSubsetsOfFinite
<1>2. \A s \in SUBSET S : \A x \in s : <<s \ {x}, s>> \in R
  BY DEF StrictSubsetOrdering
<1> HIDE DEF R
<1>3. PICK s \in parts : \A t \in parts : <<t, s>> \notin R
  BY <1>1, WFMin
<1>4. \A x \in s : s \ {x} \notin parts
  BY <1>2, <1>3
<1> QED
  BY <1>4

Pick(s) == CHOOSE x \in s : TRUE

\* What the fold computes for s, given the sums of smaller sets.
SumStep(f, g, s) == IF s = {} THEN 0 ELSE f[Pick(s)] + g[s \ {Pick(s)}]

SumsOf(f, g, S) == g = [s \in SUBSET S |-> SumStep(f, g, s)]

LEMMA SumIs ==
  ASSUME NEW f, NEW S
  PROVE  SumFunctionOnSet(f, S) = (CHOOSE g : SumsOf(f, g, S))[S]
BY DEF SumFunctionOnSet, FoldFunctionOnSet, MapThenFoldSet, SumsOf, SumStep, Pick

LEMMA Picked ==
  ASSUME NEW s, s # {}, IsFiniteSet(s)
  PROVE  /\ Pick(s) \in s
         /\ IsFiniteSet(s \ {Pick(s)})
         /\ Cardinality(s) \in Nat /\ Cardinality(s \ {Pick(s)}) \in Nat
         /\ Cardinality(s \ {Pick(s)}) < Cardinality(s)
<1>1. Pick(s) \in s
  BY DEF Pick
<1>2. /\ IsFiniteSet(s \ {Pick(s)}) /\ Cardinality(s \ {Pick(s)}) = Cardinality(s) - 1
      /\ Cardinality(s) \in Nat
  BY <1>1, FS_RemoveElement, FS_CardinalityType
<1>3. Cardinality(s \ {Pick(s)}) \in Nat
  BY <1>2, FS_CardinalityType
<1> QED
  BY <1>1, <1>2, <1>3

\* The sums of all subsets exist: those of n elements are had from those of fewer.
LEMMA SumsExist ==
  ASSUME NEW S, IsFiniteSet(S), NEW f, \A x \in S : f[x] \in Nat
  PROVE  \E g \in [SUBSET S -> Nat] : SumsOf(f, g, S)
<1> DEFINE Upto(n) == {s \in SUBSET S : Cardinality(s) <= n}
           Found(g, n) == \A s \in Upto(n) : g[s] = SumStep(f, g, s)
           missing == {n \in Nat : ~ \E g \in [SUBSET S -> Nat] : Found(g, n)}
<1>1. \A s \in SUBSET S : IsFiniteSet(s) /\ Cardinality(s) \in Nat
  BY FS_Subset, FS_CardinalityType
<1>2. 0 \notin missing
  <2>1. \A s \in Upto(0) : s = {}
    BY <1>1, FS_EmptySet
  <2>2. [s \in SUBSET S |-> 0] \in [SUBSET S -> Nat] /\ Found([s \in SUBSET S |-> 0], 0)
    BY <2>1 DEF SumStep
  <2> QED
    BY <2>2
<1>3. ASSUME NEW n \in Nat, n \notin missing PROVE n + 1 \notin missing
  <2>1. PICK g \in [SUBSET S -> Nat] : Found(g, n)
    BY <1>3
  <2> DEFINE h == [s \in SUBSET S |-> SumStep(f, g, s)]
  <2>2. \A s \in SUBSET S : s # {} => s \ {Pick(s)} \in SUBSET S /\ Pick(s) \in S
    BY DEF Pick
  <2>3. h \in [SUBSET S -> Nat]
    BY <2>2 DEF SumStep
  <2>4. ASSUME NEW s \in Upto(n + 1) PROVE h[s] = SumStep(f, h, s)
    <3>1. CASE s = {}
      BY <3>1 DEF SumStep
    <3>2. CASE s # {}
      <4>1. s \ {Pick(s)} \in Upto(n)
        BY <1>1, <2>2, <3>2, Picked
      <4>2. h[s \ {Pick(s)}] = g[s \ {Pick(s)}]
        BY <2>1, <4>1
      <4> QED
        BY <3>2, <4>2 DEF SumStep
    <3> QED
      BY <3>1, <3>2
  <2> QED
    BY <2>3, <2>4
<1>4. missing = {}
  <2> SUFFICES ASSUME missing # {} PROVE FALSE
    OBVIOUS
  <2>1. PICK n \in missing : \A m \in missing : n <= m
    BY LeastNumber
  <2>2. n \in Nat /\ n # 0
    BY <1>2
  <2>3. n - 1 \in Nat /\ ~(n <= n - 1) /\ (n - 1) + 1 = n
    BY <2>2
  <2>4. n - 1 \notin missing
    BY <2>1, <2>3
  <2> HIDE DEF missing
  <2> QED
    BY <1>3, <2>1, <2>3, <2>4
<1>5. PICK g \in [SUBSET S -> Nat] : Found(g, Cardinality(S))
  <2>1. Cardinality(S) \in Nat
    BY FS_CardinalityType
  <2> QED
    BY <1>4, <2>1
<1>6. Upto(Cardinality(S)) = SUBSET S
  BY FS_Subset
<1>7. g = [s \in SUBSET S |-> SumStep(f, g, s)]
  BY <1>5, <1>6
<1> QED
  BY <1>7 DEF SumsOf

\* They are the same for each set that a set is seen as a part of.
LEMMA SumsUnique ==
  ASSUME NEW S, IsFiniteSet(S), NEW f, NEW g, SumsOf(f, g, S),
         NEW T \in SUBSET S, NEW e, NEW h, SumsOf(e, h, T), \A x \in T : e[x] = f[x]
  PROVE  \A s \in SUBSET T : g[s] = h[s]
<1> DEFINE bad == {s \in SUBSET T : g[s] # h[s]}
<1> SUFFICES ASSUME bad # {} PROVE FALSE
  OBVIOUS
<1>1. PICK s \in bad : \A x \in s : s \ {x} \notin bad
  <2>1. IsFiniteSet(T) /\ bad \subseteq SUBSET T
    BY FS_Subset
  <2> HIDE DEF bad
  <2> QED
    BY <2>1, SmallestPart
<1>2. s \in SUBSET T /\ s \in SUBSET S
  OBVIOUS
<1>3. g[s] = SumStep(f, g, s) /\ h[s] = SumStep(e, h, s)
  BY <1>2 DEF SumsOf
<1>4. s # {}
  BY <1>3 DEF SumStep
<1>5. s \ {Pick(s)} \in SUBSET T /\ s \ {Pick(s)} \notin bad /\ Pick(s) \in T
  BY <1>1, <1>2, <1>4 DEF Pick
<1>6. g[s \ {Pick(s)}] = h[s \ {Pick(s)}]
  BY <1>5
<1> QED
  BY <1>3, <1>4, <1>5, <1>6 DEF SumStep

LEMMA SumBySums ==
  ASSUME NEW S, IsFiniteSet(S), NEW f, NEW g, SumsOf(f, g, S), NEW T \in SUBSET S,
         NEW e, \A x \in T : e[x] \in Nat /\ e[x] = f[x]
  PROVE  SumFunctionOnSet(e, T) = g[T]
<1>1. IsFiniteSet(T)
  BY FS_Subset
<1>2. PICK h : SumsOf(e, h, T)
  BY <1>1, SumsExist
<1>3. SumsOf(e, CHOOSE i : SumsOf(e, i, T), T)
  BY <1>2
<1>4. T \in SUBSET T
  OBVIOUS
<1>5. g[T] = (CHOOSE i : SumsOf(e, i, T))[T]
  BY <1>3, <1>4, SumsUnique
<1> QED
  BY <1>5, SumIs

\* Whichever element the fold takes out first.
Splits(f, g, S) == \A s \in SUBSET S : \A x \in s : g[s] = f[x] + g[s \ {x}]

LEMMA AnyElement ==
  ASSUME NEW S, IsFiniteSet(S), NEW f, \A x \in S : f[x] \in Nat, NEW g \in [SUBSET S -> Nat],
         SumsOf(f, g, S)
  PROVE  Splits(f, g, S)
<1> DEFINE bad == {s \in SUBSET S : \E x \in s : g[s] # f[x] + g[s \ {x}]}
<1> SUFFICES ASSUME bad # {} PROVE FALSE
  BY DEF Splits
<1>1. PICK s \in bad : \A x \in s : s \ {x} \notin bad
  <2>1. bad \subseteq SUBSET S
    OBVIOUS
  <2> HIDE DEF bad
  <2> QED
    BY <2>1, SmallestPart
<1>2. PICK x \in s : g[s] # f[x] + g[s \ {x}]
  OBVIOUS
<1> DEFINE p == Pick(s)
<1>3. /\ s \in SUBSET S /\ p \in s /\ g[s] = f[p] + g[s \ {p}]
      /\ s \ {p} \in SUBSET S /\ s \ {x} \in SUBSET S /\ (s \ {p}) \ {x} \in SUBSET S
  BY DEF SumsOf, SumStep, Pick
<1> HIDE DEF p
<1>4. x # p
  BY <1>2, <1>3
<1>5. g[s \ {p}] = f[x] + g[(s \ {p}) \ {x}]
  BY <1>1, <1>3, <1>4
<1>6. g[s \ {x}] = f[p] + g[(s \ {x}) \ {p}]
  BY <1>1, <1>3, <1>4
<1>7. g[s \ {x}] = f[p] + g[(s \ {p}) \ {x}]
  <2>1. (s \ {x}) \ {p} = (s \ {p}) \ {x}
    OBVIOUS
  <2> QED
    BY <1>6, <2>1
<1>8. /\ f[x] \in Nat /\ f[p] \in Nat /\ g[s] \in Nat /\ g[(s \ {p}) \ {x}] \in Nat
      /\ g[s \ {p}] \in Nat /\ g[s \ {x}] \in Nat
  BY <1>3
<1>9. \A i, j, k, m, n \in Nat : i = j + k /\ k = m + n => i = m + (j + n)
  OBVIOUS
<1>10. g[s] = f[x] + (f[p] + g[(s \ {p}) \ {x}])
  BY <1>3, <1>5, <1>8, <1>9
<1> QED
  BY <1>2, <1>7, <1>10
-----------------------------------------------------------------------------
(* What the proofs below use. *)

LEMMA SumOfNone == ASSUME NEW f PROVE SumFunctionOnSet(f, {}) = 0
<1>1. IsFiniteSet({})
  BY FS_EmptySet
<1>2. PICK g \in [SUBSET {} -> Nat] : SumsOf(f, g, {})
  BY <1>1, SumsExist
<1>3. SumFunctionOnSet(f, {}) = g[{}]
  BY <1>1, <1>2, SumBySums
<1> QED
  BY <1>2, <1>3 DEF SumsOf, SumStep

LEMMA SumSame ==
  ASSUME NEW S, IsFiniteSet(S), NEW f, \A x \in S : f[x] \in Nat, NEW e, \A x \in S : e[x] = f[x]
  PROVE  SumFunctionOnSet(e, S) = SumFunctionOnSet(f, S)
<1>1. PICK g \in [SUBSET S -> Nat] : SumsOf(f, g, S)
  BY SumsExist
<1>2. S \in SUBSET S
  OBVIOUS
<1> QED
  BY <1>1, <1>2, SumBySums

LEMMA SumOfMore ==
  ASSUME NEW S, IsFiniteSet(S), NEW x, x \notin S, NEW f, \A y \in S \cup {x} : f[y] \in Nat
  PROVE  /\ SumFunctionOnSet(f, S) \in Nat
         /\ SumFunctionOnSet(f, S \cup {x}) = f[x] + SumFunctionOnSet(f, S)
<1> DEFINE T == S \cup {x}
<1>1. IsFiniteSet(T)
  BY FS_AddElement
<1>2. PICK g \in [SUBSET T -> Nat] : SumsOf(f, g, T)
  BY <1>1, SumsExist
<1>3. SumFunctionOnSet(f, S) = g[S] /\ SumFunctionOnSet(f, T) = g[T]
  BY <1>1, <1>2, SumBySums
<1>4. T \in SUBSET T /\ x \in T /\ T \ {x} = S
  OBVIOUS
<1>5. Splits(f, g, T)
  BY <1>1, <1>2, AnyElement
<1>6. g[T] = f[x] + g[S]
  BY <1>4, <1>5 DEF Splits
<1> QED
  BY <1>2, <1>3, <1>6

LEMMA SumOfFewer ==
  ASSUME NEW S, IsFiniteSet(S), NEW T \in SUBSET S, NEW f, \A x \in S : f[x] \in Nat
  PROVE  /\ SumFunctionOnSet(f, S) \in Nat /\ SumFunctionOnSet(f, T) \in Nat
         /\ SumFunctionOnSet(f, T) <= SumFunctionOnSet(f, S)
<1>1. PICK g \in [SUBSET S -> Nat] : SumsOf(f, g, S)
  BY SumsExist
<1>2. Splits(f, g, S)
  BY <1>1, AnyElement
<1> DEFINE Bad(s) == ~(g[T \cap s] <= g[s])
           bad == {s \in SUBSET S : Bad(s)}
<1>3. ASSUME NEW s \in SUBSET S, Bad(s) PROVE \E x \in s : Bad(s \ {x})
  <2>1. g[s] \in Nat /\ g[T \cap s] \in Nat
    BY <1>1
  <2>2. PICK x \in s : TRUE
    <3>1. s = {} => T \cap s = s
      OBVIOUS
    <3>2. s = {} => g[T \cap s] = g[s]
      BY <3>1
    <3>3. s # {}
      BY <1>3, <2>1, <3>2
    <3> QED
      BY <3>3
  <2> DEFINE rest == s \ {x}
             part == T \cap rest
  <2>3. rest \in SUBSET S /\ part \in SUBSET S
    OBVIOUS
  <2>4. f[x] \in Nat /\ g[rest] \in Nat /\ g[part] \in Nat
    BY <1>1, <2>3
  <2>5. g[s] = f[x] + g[rest]
    BY <1>2 DEF Splits
  <2>6. g[T \cap s] = f[x] + g[part] \/ g[T \cap s] = g[part]
    <3>1. CASE x \in T
      <4>1. (T \cap s) \ {x} = part /\ x \in T \cap s /\ T \cap s \in SUBSET S
        BY <3>1
      <4> HIDE DEF part
      <4> QED
        BY <1>2, <4>1 DEF Splits
    <3>2. CASE x \notin T
      <4>1. T \cap s = part
        BY <3>2
      <4> QED
        BY <4>1
    <3> QED
      BY <3>1, <3>2
  <2>7. ~(g[T \cap s] <= g[s])
    BY <1>3
  <2> HIDE DEF rest, part, Bad
  <2>8. ~(g[part] <= g[rest])
    BY <2>1, <2>4, <2>5, <2>6, <2>7
  <2> QED
    BY <2>8 DEF Bad, rest, part
<1> HIDE DEF Bad
<1>4. bad = {}
  <2> SUFFICES ASSUME bad # {} PROVE FALSE
    OBVIOUS
  <2>1. PICK s \in bad : \A x \in s : s \ {x} \notin bad
    <3>1. bad \subseteq SUBSET S
      OBVIOUS
    <3> HIDE DEF bad
    <3> QED
      BY <3>1, SmallestPart
  <2>2. PICK x \in s : Bad(s \ {x})
    BY <1>3
  <2>3. s \ {x} \in SUBSET S
    OBVIOUS
  <2> QED
    BY <2>1, <2>2, <2>3
<1>5. T \cap S = T /\ S \in SUBSET S
  OBVIOUS
<1>6. g[T] <= g[S]
  BY <1>4, <1>5 DEF Bad
<1>7. SumFunctionOnSet(f, S) = g[S] /\ SumFunctionOnSet(f, T) = g[T]
  BY <1>1, <1>5, SumBySums
<1> QED
  BY <1>1, <1>5, <1>6, <1>7
-----------------------------------------------------------------------------
(* The rows a run has counted. *)

LEMMA ScriptRowsFinite == IsFiniteSet(ScriptRows)
<1> DEFINE row == [i \in 1 .. Len(Script) |-> Script[i]]
<1>1. IsFiniteSet(1 .. Len(Script))
  BY ScriptTyped, FS_Interval
<1>2. row \in Surjection(1 .. Len(Script), ScriptRows)
  BY ScriptTyped DEF ScriptRows, Surjection
<1> QED
  BY <1>1, <1>2, FS_Surjection

LEMMA TablesOf ==
  /\ \A row \in Rows : row.table \in SeededTables
  /\ "auditEvents" \notin SeededTables /\ SeededTables \subseteq Counters
  /\ Counters = SeededTables \cup {"auditEvents"} /\ "policies" \in SeededTables
<1>1. \A row \in Rows : row.table \in {"policies", "roles", "capabilities"}
  BY SeederAssumption DEF Row
<1> QED
  BY <1>1 DEF SeededTables, Counters

\* The rows of a table among some of the script are finitely many.
LEMMA InTableFinite ==
  ASSUME NEW rows \in SUBSET ScriptRows, NEW table
  PROVE  IsFiniteSet(InTable(rows, table)) /\ Cardinality(InTable(rows, table)) \in Nat
<1>1. InTable(rows, table) \subseteq ScriptRows
  BY DEF InTable
<1> QED
  BY <1>1, ScriptRowsFinite, FS_Subset, FS_CardinalityType

LEMMA TalliedStill ==
  ASSUME NEW q \in Runs, TalliedRun(q), written'[q] = written[q],
         \A table \in SeededTables : summary'[q][table] = summary[q][table],
         pc'[q] = "idle" \/ Open(q)' => pc[q] = "idle" \/ Open(q)
  PROVE  TalliedRun(q)'
BY DEF TalliedRun, SeededTables, Counters

LEMMA TalliedInsert ==
  ASSUME SeederInv, NEW r \in Runs, InsertRow(r), TalliedRun(r) PROVE TalliedRun(r)'
<1> DEFINE new == NextRow(r)
<1>0. TypeOK
  BY DEF SeederInv
<1>1. /\ pc[r] = "insert" /\ new \in ScriptRows /\ new.table \in SeededTables
      /\ \A row \in written[r] : ~Conflicts(row, new)
  BY InsertRowFinds, ScriptTyped, TablesOf
<1>2. written'[r] = written[r] \cup {new} /\ new \notin written[r] /\ Count(r, new.table)
  BY <1>0, <1>1, ConflictsReflexive DEF InsertRow, TypeOK
<1>3. written[r] \in SUBSET ScriptRows
  BY <1>0 DEF TypeOK
<1> HIDE DEF new
<1>4. \A table \in SeededTables : summary[r][table] = Cardinality(InTable(written[r], table))
  BY <1>1 DEF TalliedRun, Open
<1>5. ASSUME NEW table \in SeededTables
      PROVE  summary'[r][table] = Cardinality(InTable(written'[r], table))
  <2>1. CASE new.table = table
    <3>1. InTable(written'[r], table) = InTable(written[r], table) \cup {new}
      BY <1>2, <2>1 DEF InTable
    <3>2. new \notin InTable(written[r], table)
      BY <1>2 DEF InTable
    <3>3. IsFiniteSet(InTable(written[r], table))
      BY <1>3, InTableFinite
    <3>4. summary'[r][table] = summary[r][table] + 1
      BY <1>0, <1>1, <1>2, <2>1, Counted, TablesOf
    <3> QED
      BY <1>4, <3>1, <3>2, <3>3, <3>4, OneMore
  <2>2. CASE new.table # table
    <3>1. InTable(written'[r], table) = InTable(written[r], table)
      BY <1>2, <2>2 DEF InTable
    <3>2. summary'[r][table] = summary[r][table]
      BY <1>0, <1>1, <1>2, <2>2, Counted, TablesOf
    <3> QED
      BY <1>4, <3>1, <3>2
  <2> QED
    BY <2>1, <2>2
<1> QED
  BY <1>5 DEF TalliedRun, SeededTables, Counters

LEMMA TalliedOwn ==
  ASSUME SeederInv, NEW r \in Runs, Proceed(r) \/ EndCommit(r) \/ Fail(r) \/ Server(r),
         TalliedRun(r)
  PROVE  TalliedRun(r)'
<1>0. TypeOK /\ StageAt(r)
  BY DEF SeederInv, RunInv
<1>1. CASE Start(r) \/ SendCommit(r) \/ SkipRow(r) \/ EndCommit(r)
  <2>1. UNCHANGED <<written, summary>>
    BY <1>1 DEF Start, SendCommit, SkipRow, EndCommit, Succeed, CommitFails
  <2>2. pc'[r] = "idle" \/ Open(r)' => pc[r] = "idle" \/ Open(r)
    <3>1. CASE Start(r) \/ SendCommit(r)
      BY <1>0, <3>1 DEF Start, SendCommit, Goto, Open, TypeOK
    <3>2. CASE SkipRow(r)
      BY <3>2 DEF SkipRow, Open
    <3>3. CASE EndCommit(r)
      BY <1>0, <3>3 DEF EndCommit, Succeed, CommitFails, Exit, Open, TypeOK
    <3> QED
      BY <1>1, <3>1, <3>2, <3>3
  <2> QED
    BY <2>1, <2>2, TalliedStill
<1>2. CASE InsertAudit(r)
  <2>1. pc[r] = "audit" /\ Count(r, "auditEvents") /\ UNCHANGED written
    BY <1>2 DEF InsertAudit
  <2>2. \A table \in SeededTables : summary'[r][table] = summary[r][table]
    BY <1>0, <2>1, Counted, TablesOf
  <2> QED
    BY <2>1, <2>2, TalliedStill DEF Open
<1>3. CASE RefuseOrphan(r) \/ Fail(r) \/ Server(r)
  <2>1. pc'[r] \in {"committing", "done"} /\ r \notin sent'
    BY <1>0, <1>3
    DEF RefuseOrphan, MayInsert, Fail, StartFails, StatementFails, Server, ServerCommits,
        ServerAborts, Exit, TypeOK, StageAt
  <2> QED
    BY <2>1 DEF TalliedRun, Open
<1> QED
  BY <1>1, <1>2, <1>3, TalliedInsert DEF Proceed

LEMMA NextTallied ==
  ASSUME SeederInv, [Next]_vars, NEW q \in Runs, TalliedRun(q) PROVE TalliedRun(q)'
<1>1. CASE Operate \/ UNCHANGED vars
  BY <1>1 DEF Operate, OperatorInserts, OperatorDeletes, vars, TalliedRun, Open
<1>2. ASSUME NEW r \in Runs, Proceed(r) \/ EndCommit(r) \/ Fail(r) \/ Server(r)
      PROVE  TalliedRun(q)'
  <2>1. CASE q = r
    BY <1>2, <2>1, TalliedOwn
  <2>2. CASE q # r
    <3>1. /\ pc'[q] = pc[q] /\ written'[q] = written[q] /\ summary'[q] = summary[q]
          /\ (q \in sent' <=> q \in sent)
      BY <1>2, <2>2, OthersUntouched
    <3> QED
      BY <3>1, TalliedStill DEF Open
  <2> QED
    BY <2>1, <2>2
<1> QED
  BY <1>1, <1>2 DEF Next, Terminated
-----------------------------------------------------------------------------
(* What committed runs have counted. *)

LEMMA ColumnNumbers ==
  ASSUME TypeOK, NEW table \in Counters
  PROVE  \A r \in Runs : Column(table)[r] = summary[r][table] /\ Column(table)[r] \in Nat
BY DEF TypeOK, Column

LEMMA TallyStill ==
  ASSUME TypeOK, TypeOK', TallyInv, UNCHANGED committed, stored \subseteq stored',
         \A r \in Runs : TalliedRun(r)',
         \A r \in committed : \A table \in SeededTables : summary'[r][table] = summary[r][table]
  PROVE  TallyInv'
<1>1. IsFiniteSet(committed) /\ committed \subseteq Runs
  BY DEF TallyInv, TypeOK
<1>2. ASSUME NEW table \in SeededTables
      PROVE  SumFunctionOnSet(Column(table)', committed)
               <= Cardinality(InTable(stored' \cap ScriptRows, table))
  <2> DEFINE old == Column(table)
             new == Column(table)'
             before == InTable(stored \cap ScriptRows, table)
             after == InTable(stored' \cap ScriptRows, table)
  <2>1. \A r \in committed : old[r] \in Nat /\ new[r] = old[r]
    <3>1. \A r \in Runs : old[r] = summary[r][table] /\ old[r] \in Nat
      BY ColumnNumbers, TablesOf
    <3>2. \A r \in Runs : new[r] = summary'[r][table]
      BY DEF Column
    <3> QED
      BY <1>1, <3>1, <3>2
  <2>2. before \subseteq after
    BY DEF InTable
  <2>3. IsFiniteSet(after) /\ Cardinality(before) \in Nat /\ Cardinality(after) \in Nat
    BY InTableFinite
  <2>4. SumFunctionOnSet(old, committed) <= Cardinality(before)
    BY DEF TallyInv
  <2> HIDE DEF old, new, before, after
  <2>5. SumFunctionOnSet(new, committed) = SumFunctionOnSet(old, committed)
    BY <1>1, <2>1, SumSame
  <2>6. SumFunctionOnSet(old, committed) \in Nat
    BY <1>1, <2>1, SumOfFewer
  <2>7. Cardinality(before) <= Cardinality(after)
    BY <2>2, <2>3, FS_Subset
  <2>8. SumFunctionOnSet(new, committed) <= Cardinality(after)
    BY <2>3, <2>4, <2>5, <2>6, <2>7
  <2> QED
    BY <2>8 DEF new, after
<1> QED
  BY <1>1, <1>2 DEF TallyInv, SeededTables, Counters

LEMMA TallyCommits ==
  ASSUME SeederInv, TallyInv, NEW r \in Runs, ServerCommits(r),
         \A q \in Runs : TalliedRun(q)'
  PROVE  TallyInv'
<1>0. TypeOK /\ StageAt(r) /\ RowsApart
  BY DEF SeederInv, RunInv
<1>1. /\ r \in sent /\ stored' = stored \cup written[r] /\ committed' = committed \cup {r}
      /\ UNCHANGED summary
  BY DEF ServerCommits
<1>2. r \notin committed /\ Open(r)
  BY <1>0, <1>1 DEF StageAt, Open
<1>3. IsFiniteSet(committed) /\ committed \subseteq Runs
  BY <1>0 DEF TallyInv, TypeOK
<1>4. IsFiniteSet(committed')
  BY <1>1, <1>2, <1>3, OneMore
<1>5. ASSUME NEW table \in SeededTables
      PROVE  SumFunctionOnSet(Column(table), committed \cup {r})
               <= Cardinality(InTable(stored' \cap ScriptRows, table))
  <2> DEFINE column == Column(table)
             before == InTable(stored \cap ScriptRows, table)
             mine == InTable(written[r], table)
             after == InTable(stored' \cap ScriptRows, table)
  <2>1. \A q \in committed \cup {r} : column[q] \in Nat
    BY <1>0, <1>3, ColumnNumbers, TablesOf
  <2>2. column[r] = Cardinality(mine)
    <3>1. column[r] = summary[r][table]
      BY <1>0, ColumnNumbers, TablesOf
    <3> QED
      BY <1>2, <3>1 DEF TallyInv, TalliedRun
  <2>3. written[r] \in SUBSET ScriptRows
    BY <1>0 DEF TypeOK
  <2>4. after = before \cup mine
    BY <1>1, <2>3 DEF InTable
  <2>5. before \cap mine = {}
    BY <1>0, ConflictsReflexive DEF InTable, RowsApart
  <2>6. /\ IsFiniteSet(before) /\ Cardinality(before) \in Nat
        /\ IsFiniteSet(mine) /\ Cardinality(mine) \in Nat
    BY <2>3, InTableFinite
  <2>7. SumFunctionOnSet(column, committed) <= Cardinality(before)
    BY DEF TallyInv
  <2> HIDE DEF column, before, mine, after
  <2>8. Cardinality(after) = Cardinality(before) + Cardinality(mine)
    <3>1. Cardinality(after) = Cardinality(before) + Cardinality(mine) - Cardinality({})
      BY <2>4, <2>5, <2>6, FS_Union
    <3> QED
      BY <2>6, <3>1, FS_EmptySet
  <2>9. /\ SumFunctionOnSet(column, committed) \in Nat
        /\ SumFunctionOnSet(column, committed \cup {r})
             = column[r] + SumFunctionOnSet(column, committed)
    BY <1>2, <1>3, <2>1, SumOfMore
  <2>10. SumFunctionOnSet(column, committed \cup {r}) <= Cardinality(after)
    BY <2>2, <2>6, <2>7, <2>8, <2>9
  <2> QED
    BY <2>10 DEF column, after
<1>6. \A table : Column(table)' = Column(table)
  BY <1>1 DEF Column
<1>7. \A table \in SeededTables : SumFunctionOnSet(Column(table)', committed')
                             <= Cardinality(InTable(stored' \cap ScriptRows, table))
  BY <1>1, <1>5, <1>6
<1> QED
  BY <1>4, <1>7 DEF TallyInv, SeededTables, Counters

LEMMA InitTally == Init => TallyInv
<1> SUFFICES ASSUME Init PROVE TallyInv
  OBVIOUS
<1>1. committed = {} /\ IsFiniteSet({})
  BY FS_EmptySet DEF Init
<1>2. ASSUME NEW r \in Runs PROVE TalliedRun(r)
  <2>1. ASSUME NEW table \in SeededTables
        PROVE  summary[r][table] = 0 /\ InTable(written[r], table) = {}
    BY TablesOf DEF Init, EmptySummary, InTable
  <2> QED
    BY <2>1, FS_EmptySet DEF TalliedRun
<1>3. ASSUME NEW table \in SeededTables
      PROVE  SumFunctionOnSet(Column(table), {})
               <= Cardinality(InTable(stored \cap ScriptRows, table))
  <2> DEFINE column == Column(table)
             there == InTable(stored \cap ScriptRows, table)
  <2>1. Cardinality(there) \in Nat
    BY InTableFinite
  <2> HIDE DEF column, there
  <2>2. SumFunctionOnSet(column, {}) = 0
    BY SumOfNone
  <2>3. SumFunctionOnSet(column, {}) <= Cardinality(there)
    BY <2>1, <2>2
  <2> QED
    BY <2>3 DEF column, there
<1> QED
  BY <1>1, <1>2, <1>3 DEF TallyInv

LEMMA NextTally ==
  ASSUME Deletable = {}, SeederInv, SeederInv', TallyInv, [Next]_vars PROVE TallyInv'
<1>0. TypeOK /\ TypeOK'
  BY DEF SeederInv
<1>1. \A r \in Runs : TalliedRun(r)'
  BY NextTallied DEF TallyInv
<1>2. ASSUME UNCHANGED committed PROVE TallyInv'
  <2>1. stored \subseteq stored'
    BY DEF Next, Terminated, vars, Proceed, Start, InsertRow, SkipRow, InsertAudit, RefuseOrphan,
           SendCommit, EndCommit, Succeed, CommitFails, Fail, StartFails, StatementFails, Server,
           ServerCommits, ServerAborts, Operate, OperatorInserts
  <2>2. ASSUME NEW q \in committed PROVE summary'[q] = summary[q]
    <3>1. q \in Runs /\ StageAt(q) /\ pc[q] \in {"committing", "done"}
      BY <1>0 DEF SeederInv, RunInv, StageAt, TypeOK
    <3>2. CASE Operate \/ UNCHANGED vars
      BY <3>2 DEF Operate, OperatorInserts, OperatorDeletes, vars
    <3>3. ASSUME NEW r \in Runs, Proceed(r) \/ EndCommit(r) \/ Fail(r) \/ Server(r)
          PROVE  summary'[q] = summary[q]
      <4>1. CASE r # q
        BY <3>1, <3>3, <4>1, OthersUntouched
      <4>2. CASE r = q
        BY <3>1, <3>3, <4>2
        DEF Proceed, Start, InsertRow, MayInsert, SkipRow, InsertAudit, RefuseOrphan, SendCommit,
            Goto, EndCommit, Succeed, CommitFails, Fail, StartFails, StatementFails, Server,
            ServerCommits, ServerAborts
      <4> QED
        BY <4>1, <4>2
    <3> QED
      BY <3>2, <3>3 DEF Next, Terminated
  <2> QED
    BY <1>0, <1>1, <1>2, <2>1, <2>2, TallyStill
<1>3. UNCHANGED committed \/ \E r \in Runs : ServerCommits(r)
  BY DEF Next, Terminated, vars, Proceed, Start, InsertRow, SkipRow, InsertAudit, RefuseOrphan,
         SendCommit, EndCommit, Succeed, CommitFails, Fail, StartFails, StatementFails, Server,
         ServerAborts, Operate, OperatorInserts, OperatorDeletes
<1> QED
  BY <1>1, <1>2, <1>3, TallyCommits

LEMMA TalliesAddUp ==
  ASSUME SeederInv, CountInv, TallyInv PROVE SummariesAddUp
<1> DEFINE ok == {r \in Runs : exit[r] = "ok"}
<1>0. TypeOK /\ \A r \in Runs : StageAt(r)
  BY DEF SeederInv, RunInv
<1>1. ok \in SUBSET committed /\ committed \subseteq Runs /\ IsFiniteSet(committed)
  BY <1>0 DEF StageAt, TallyInv, TypeOK
<1>2. ASSUME NEW table \in SeededTables
      PROVE  SumFunctionOnSet(Column(table), ok) <= Cardinality(InTable(ScriptRows, table))
  <2> DEFINE column == Column(table)
             there == InTable(stored \cap ScriptRows, table)
             all == InTable(ScriptRows, table)
  <2>1. \A r \in committed : column[r] \in Nat
    BY <1>0, <1>1, ColumnNumbers, TablesOf
  <2>2. there \subseteq all
    BY DEF InTable
  <2>3. IsFiniteSet(all) /\ Cardinality(there) \in Nat /\ Cardinality(all) \in Nat
    BY InTableFinite
  <2>4. SumFunctionOnSet(column, committed) <= Cardinality(there)
    BY DEF TallyInv
  <2> HIDE DEF column, there, all, ok
  <2>5. /\ SumFunctionOnSet(column, committed) \in Nat /\ SumFunctionOnSet(column, ok) \in Nat
        /\ SumFunctionOnSet(column, ok) <= SumFunctionOnSet(column, committed)
    BY <1>1, <2>1, SumOfFewer
  <2>6. Cardinality(there) <= Cardinality(all)
    BY <2>2, <2>3, FS_Subset
  <2>7. SumFunctionOnSet(column, ok) <= Cardinality(all)
    BY <2>3, <2>4, <2>5, <2>6
  <2> QED
    BY <2>7 DEF column, all
\* The events a run reports are as many as its policies.
<1>3. SumFunctionOnSet(Column("auditEvents"), ok) = SumFunctionOnSet(Column("policies"), ok)
  <2> DEFINE column == Column("policies")
             audited == Column("auditEvents")
  <2>1. ASSUME NEW r \in ok PROVE column[r] \in Nat /\ audited[r] = column[r]
    <3>1. SummariesMatchEvents
      BY CountsMatch
    <3>2. summary[r]["policies"] = summary[r]["auditEvents"]
      BY <3>1 DEF SummariesMatchEvents
    <3> QED
      BY <1>0, <3>2, ColumnNumbers DEF Counters
  <2>2. IsFiniteSet(ok)
    BY <1>1, FS_Subset
  <2> HIDE DEF column, audited, ok
  <2>3. SumFunctionOnSet(audited, ok) = SumFunctionOnSet(column, ok)
    BY <2>1, <2>2, SumSame
  <2> QED
    BY <2>3 DEF column, audited
<1>4. ASSUME NEW counter \in Counters
      PROVE  SumFunctionOnSet(Column(counter), ok) <= CanonicalCount(counter)
  <2>1. CASE counter = "auditEvents"
    BY <1>2, <1>3, <2>1, TablesOf DEF CanonicalCount
  <2>2. CASE counter # "auditEvents"
    BY <1>2, <2>2, TablesOf DEF CanonicalCount
  <2> QED
    BY <2>1, <2>2
<1> QED
  BY <1>4 DEF SummariesAddUp

\* While nobody deletes policies, the summaries that overlapping runs print never add up to
\* more rows or events than there are seeds (README, "Seed": a second run reports zeros).
THEOREM SummariesBounded == Deletable = {} => (Spec => []SummariesAddUp)
<1> SUFFICES ASSUME Deletable = {} PROVE Spec => []SummariesAddUp
  OBVIOUS
<1>1. SeederInv /\ SeederInv' /\ TallyInv /\ [Next]_vars => TallyInv'
  BY NextTally
<1>2. SeederInv /\ CountInv /\ TallyInv => SummariesAddUp
  BY TalliesAddUp
<1> QED
  BY <1>1, <1>2, InitCounts, NextCounts, InitTally, SeederInvariant, PTL DEF Spec
=============================================================================
