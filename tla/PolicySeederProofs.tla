-------------------------- MODULE PolicySeederProofs --------------------------
(***************************************************************************)
(* Proofs about runs of taifa-exchange-seed, for any number of runs, any   *)
(* seeds and any rows an operator inserts or deletes meanwhile.            *)
(***************************************************************************)
EXTENDS PolicySeederProperties, WellFoundedInduction, TLAPS

(* The script and its rows. *)

LEMMA ScriptTyped ==
  /\ Len(Script) \in Nat /\ Len(Script) > 0
  /\ DOMAIN Script = 1 .. Len(Script)
  /\ \A i \in 1 .. Len(Script) : Script[i] \in Rows /\ Script[i] \in ScriptRows
  /\ ScriptRows \subseteq Rows
<1>1. Script \in Seq(Rows) /\ Len(Script) > 0
  BY SeederAssumption
<1>2. Len(Script) \in Nat /\ DOMAIN Script = 1 .. Len(Script)
  BY <1>1
<1> QED
  BY <1>1, <1>2 DEF ScriptRows

LEMMA ScriptRowIndex ==
  ASSUME NEW row \in ScriptRows PROVE \E i \in 1 .. Len(Script) : row = Script[i]
BY ScriptTyped DEF ScriptRows

LEMMA ScriptApart ==
  ASSUME NEW i \in 1 .. Len(Script), NEW j \in 1 .. Len(Script), Conflicts(Script[i], Script[j])
  PROVE  i = j
BY SeederAssumption, ScriptTyped

LEMMA ScriptRowsApart ==
  ASSUME NEW v \in ScriptRows, NEW w \in ScriptRows, Conflicts(v, w) PROVE v = w
BY ScriptRowIndex, ScriptApart

LEMMA PolicyFirst ==
  ASSUME NEW i \in 1 .. Len(Script), NEW j \in 1 .. Len(Script),
         Script[i].table = "policies", Script[j].table # "policies",
         Script[i].id = Script[j].policy
  PROVE  i < j
BY SeederAssumption, ScriptTyped

LEMMA ConflictsSymmetric ==
  ASSUME NEW v, NEW w PROVE Conflicts(v, w) => Conflicts(w, v)
BY DEF Conflicts

LEMMA ConflictsReflexive == ASSUME NEW v PROVE Conflicts(v, v)
BY DEF Conflicts

\* A policy belongs to itself.
LEMMA PolicyOfItself ==
  ASSUME NEW row \in Rows, row.table = "policies" PROVE row.policy = row.id
BY SeederAssumption

LEMMA HasPolicyMonotone ==
  ASSUME NEW small, NEW large, small \subseteq large, NEW row, HasPolicy(small, row)
  PROVE  HasPolicy(large, row)
BY DEF HasPolicy

\* Two sound tables without conflicting rows make a sound one.
LEMMA SoundWhole ==
  ASSUME NEW old \in SUBSET Rows, NEW new \in SUBSET ScriptRows, TablesSound(old),
         \A row \in old, w \in new : ~Conflicts(row, w),
         \A w \in new : HasPolicy(old \cup new, w)
  PROVE  TablesSound(old \cup new)
<1>1. ASSUME NEW v \in old \cup new, NEW w \in old \cup new, Conflicts(v, w) PROVE v = w
  <2>1. CASE v \in old /\ w \in old
    BY <1>1, <2>1 DEF TablesSound
  <2>2. CASE v \in new /\ w \in new
    BY <1>1, <2>2, ScriptRowsApart
  <2>3. CASE v \in old /\ w \in new
    BY <1>1, <2>3
  <2>4. CASE v \in new /\ w \in old
    BY <1>1, <2>4, ConflictsSymmetric
  <2> QED
    BY <2>1, <2>2, <2>3, <2>4
<1>2. \A row \in old : HasPolicy(old \cup new, row)
  BY HasPolicyMonotone DEF TablesSound
<1> QED
  BY <1>1, <1>2 DEF TablesSound

\* A table stays sound when rows go together with the rows that hang on them.
LEMMA PolicySurvives ==
  ASSUME NEW row \in stored, NEW p \in stored, stored \subseteq Rows, TablesSound(stored),
         p.table = "policies", p \in Cascade(row)
  PROVE  p = row
<1>1. p # row => row.table = "policies" /\ p.policy = row.id
  BY DEF Cascade
<1>2. p.policy = p.id
  BY PolicyOfItself
<1> QED
  BY <1>1, <1>2 DEF TablesSound, Conflicts

LEMMA SoundRest ==
  ASSUME NEW row \in stored, stored \subseteq Rows, TablesSound(stored)
  PROVE  TablesSound(stored \ Cascade(row))
<1>1. ASSUME NEW child \in stored \ Cascade(row) PROVE HasPolicy(stored \ Cascade(row), child)
  <2>1. PICK p \in stored : p.table = "policies" /\ p.id = child.policy
    BY DEF TablesSound, HasPolicy
  <2>2. p \notin Cascade(row)
    <3>1. SUFFICES ASSUME p = row PROVE FALSE
      BY <2>1, PolicySurvives
    <3> QED
      BY <2>1, <3>1 DEF Cascade
  <2> QED
    BY <2>1, <2>2 DEF HasPolicy
<1> QED
  BY <1>1 DEF TablesSound
-----------------------------------------------------------------------------
(* What a step leaves alone. *)

LEMMA RunUntouched ==
  ASSUME NEW q \in Runs, RunInv(q),
         pc'[q] = pc[q], at'[q] = at[q], written'[q] = written[q], events'[q] = events[q],
         exit'[q] = exit[q], q \in sent' <=> q \in sent, q \in committed' <=> q \in committed
  PROVE  RunInv(q)'
<1>1. WrittenAt(q)'
  BY DEF RunInv, WrittenAt, NextRow
<1>2. EventsAt(q)'
  BY DEF RunInv, EventsAt, NextRow
<1>3. StageAt(q)'
  BY DEF RunInv, StageAt, Open
<1> QED
  BY <1>1, <1>2, <1>3 DEF RunInv

LEMMA RowsUntouched ==
  ASSUME RowsApart, UNCHANGED <<stored, written>> PROVE RowsApart'
BY DEF RowsApart

\* Transactions that only lose rows to a rollback stay apart.
LEMMA RowsRolledBack ==
  ASSUME NEW r \in Runs, TypeOK, RowsApart, UNCHANGED stored,
         written' = [written EXCEPT ![r] = {}]
  PROVE  RowsApart'
<1>1. \A q \in Runs : written'[q] = IF q = r THEN {} ELSE written[q]
  BY DEF TypeOK
<1>2. ASSUME NEW s \in Runs, NEW w \in written'[s]
      PROVE  /\ s # r /\ w \in written[s] /\ written'[s] = written[s]
             /\ \A q \in Runs : written'[q] \subseteq written[q]
  BY <1>1, <1>2
<1>3. ASSUME NEW s \in Runs, NEW w \in written'[s]
      PROVE  /\ \A row \in stored' : ~Conflicts(row, w)
             /\ \A q \in Runs \ {s} : \A other \in written'[q] : ~Conflicts(other, w)
             /\ HasPolicy(stored' \cup written'[s], w)
  BY <1>2, <1>3 DEF RowsApart
<1>4. TablesSound(stored')
  BY DEF RowsApart
<1> QED
  BY <1>3, <1>4 DEF RowsApart
-----------------------------------------------------------------------------
(* The steps of a run. *)

LEMMA StartStep ==
  ASSUME SeederInv, NEW r \in Runs, Start(r) PROVE SeederInv'
<1> USE DEF Start, Goto
<1>1. TypeOK'
  BY DEF SeederInv, TypeOK
<1>2. RowsApart'
  BY RowsUntouched DEF SeederInv
<1>3. ASSUME NEW q \in Runs PROVE RunInv(q)'
  <2>1. CASE q # r
    BY <2>1, RunUntouched DEF SeederInv, TypeOK
  <2>2. CASE q = r
    <3>1. RunInv(r) /\ at[r] \in 1 .. Len(Script) + 1 /\ pc'[r] = "insert"
      BY DEF SeederInv, TypeOK
    <3>2. written[r] = {} /\ events[r] = {} /\ r \notin sent /\ r \notin committed
          /\ exit[r] = "none" /\ at[r] = 1
      BY <3>1 DEF RunInv, StageAt, Open
    <3>3. WrittenAt(r)'
      BY <3>1, <3>2 DEF WrittenAt
    <3>4. EventsAt(r)'
      BY <3>1, <3>2 DEF EventsAt
    <3>5. StageAt(r)'
      BY <3>1, <3>2, ScriptTyped DEF StageAt, Open
    <3> QED
      BY <2>2, <3>3, <3>4, <3>5 DEF RunInv
  <2> QED
    BY <2>1, <2>2
<1> QED
  BY <1>1, <1>2, <1>3 DEF SeederInv

\* A process that ends and rolls its transaction back, if it has one.
LEMMA LeaveStep ==
  ASSUME SeederInv, NEW r \in Runs, pc[r] # "done", r \notin sent, r \notin committed,
         Exit(r, "failed"), RollBack(r),
         UNCHANGED <<stored, outbox, at, sent, committed, summary>>
  PROVE  SeederInv'
<1> USE DEF Exit, RollBack
<1>1. TypeOK'
  BY DEF SeederInv, TypeOK
<1>2. RowsApart'
  BY RowsRolledBack DEF SeederInv
<1>3. ASSUME NEW q \in Runs PROVE RunInv(q)'
  <2>1. CASE q # r
    BY <2>1, RunUntouched DEF SeederInv, TypeOK
  <2>2. CASE q = r
    <3>1. /\ pc'[r] = "done" /\ written'[r] = {} /\ events'[r] = {} /\ exit'[r] = "failed"
          /\ r \notin sent' /\ r \notin committed'
      BY DEF SeederInv, TypeOK
    <3>2. WrittenAt(r)'
      BY <3>1 DEF WrittenAt
    <3>3. EventsAt(r)'
      BY <3>1 DEF EventsAt
    <3>4. StageAt(r)'
      BY <3>1 DEF StageAt, Open
    <3> QED
      BY <2>2, <3>2, <3>3, <3>4 DEF RunInv
  <2> QED
    BY <2>1, <2>2
<1> QED
  BY <1>1, <1>2, <1>3 DEF SeederInv

\* A failure before COMMIT was sent.
LEMMA FailSteps ==
  ASSUME SeederInv, NEW r \in Runs,
         StartFails(r) \/ StatementFails(r) \/ RefuseOrphan(r)
  PROVE  SeederInv'
<1>1. StageAt(r) /\ written \in [Runs -> SUBSET ScriptRows]
      /\ events \in [Runs -> SUBSET [policy : {row.policy : row \in Rows}, by : Runs]]
  BY DEF SeederInv, RunInv, TypeOK
<1>2. pc[r] \in {"idle", "insert", "audit", "commit"}
      /\ Exit(r, "failed") /\ UNCHANGED <<stored, outbox, at, sent, committed, summary>>
  BY DEF StartFails, StatementFails, RefuseOrphan, MayInsert
<1>3. r \notin sent /\ r \notin committed
  BY <1>1, <1>2 DEF StageAt
<1>4. RollBack(r)
  <2>1. CASE StartFails(r)
    <3>1. written[r] = {} /\ events[r] = {} /\ UNCHANGED <<written, events>>
      BY <1>1, <1>3, <2>1 DEF StartFails, StageAt, Open
    <3> QED
      BY <1>1, <3>1 DEF RollBack
  <2>2. CASE StatementFails(r) \/ RefuseOrphan(r)
    BY <2>2 DEF StatementFails, RefuseOrphan
  <2> QED
    BY <2>1, <2>2
<1> QED
  BY <1>2, <1>3, <1>4, LeaveStep

\* COMMIT has been sent, or has been answered.
LEMMA CommandSteps ==
  ASSUME SeederInv, NEW r \in Runs, SendCommit(r) \/ Succeed(r) \/ CommitFails(r)
  PROVE  SeederInv'
<1> USE DEF Goto, Exit
<1>1. TypeOK'
  BY DEF SeederInv, TypeOK, SendCommit, Succeed, CommitFails
<1>2. RowsApart'
  BY RowsUntouched DEF SeederInv, SendCommit, Succeed, CommitFails
<1>3. ASSUME NEW q \in Runs PROVE RunInv(q)'
  <2>1. CASE q # r
    BY <2>1, RunUntouched DEF SeederInv, TypeOK, SendCommit, Succeed, CommitFails
  <2>2. CASE q = r
    <3>1. /\ pc[r] \in {"commit", "committing"} /\ pc'[r] \in {"committing", "done"}
          /\ at'[r] = at[r] /\ written'[r] = written[r] /\ events'[r] = events[r]
      BY DEF SeederInv, TypeOK, SendCommit, Succeed, CommitFails
    <3>2. WrittenAt(r) /\ EventsAt(r) /\ StageAt(r)
      BY DEF SeederInv, RunInv
    <3>3. WrittenAt(r)'
      BY <3>1, <3>2 DEF WrittenAt
    <3>4. EventsAt(r)'
      BY <3>1, <3>2 DEF EventsAt
    <3>5. StageAt(r)'
      <4>1. CASE SendCommit(r)
        <5>1. pc[r] = "commit" /\ pc'[r] = "committing" /\ sent' = sent \cup {r}
              /\ UNCHANGED <<committed, exit, at>>
          BY <4>1 DEF SeederInv, TypeOK, SendCommit
        <5> QED
          BY <5>1, <3>2 DEF StageAt, Open
      <4>2. CASE Succeed(r) \/ CommitFails(r)
        <5>1. pc[r] = "committing" /\ pc'[r] = "done" /\ exit'[r] \in {"ok", "failed"}
              /\ (exit'[r] = "ok" => r \in committed)
              /\ UNCHANGED <<committed, sent, at, written, events>>
          BY <4>2 DEF SeederInv, TypeOK, Succeed, CommitFails
        <5> QED
          BY <5>1, <3>2 DEF StageAt, Open
      <4> QED
        BY <4>1, <4>2
    <3> QED
      BY <2>2, <3>3, <3>4, <3>5 DEF RunInv
  <2> QED
    BY <2>1, <2>2
<1> QED
  BY <1>1, <1>2, <1>3 DEF SeederInv

\* The three places a statement of the loops leads to.
LEMMA AdvanceTo ==
  ASSUME SeederInv, NEW r \in Runs, pc[r] \in {"insert", "audit"}, Advance(r)
  PROVE  /\ at[r] \in 1 .. Len(Script) /\ NextRow(r) \in ScriptRows
         /\ at' \in [Runs -> 1 .. Len(Script) + 1] /\ at'[r] = at[r] + 1
         /\ pc' \in [Runs -> {"idle", "insert", "audit", "commit", "committing", "done"}]
         /\ \/ pc'[r] = "insert" /\ at'[r] <= Len(Script)
            \/ pc'[r] = "commit" /\ at'[r] = Len(Script) + 1
         /\ \A q \in Runs \ {r} : pc'[q] = pc[q] /\ at'[q] = at[q]
<1>1. StageAt(r) /\ at \in [Runs -> 1 .. Len(Script) + 1]
      /\ pc \in [Runs -> {"idle", "insert", "audit", "commit", "committing", "done"}]
  BY DEF SeederInv, RunInv, TypeOK
<1>2. at[r] \in 1 .. Len(Script) /\ NextRow(r) \in ScriptRows
  BY <1>1, ScriptTyped DEF StageAt, NextRow
<1>3. at' = [at EXCEPT ![r] = at[r] + 1] /\ at[r] + 1 \in 1 .. Len(Script) + 1
  BY <1>2, ScriptTyped DEF Advance
<1>4. pc' = [pc EXCEPT ![r] = IF at[r] + 1 > Len(Script) THEN "commit" ELSE "insert"]
  BY DEF Advance
<1>5. pc'[r] = (IF at[r] + 1 > Len(Script) THEN "commit" ELSE "insert")
      /\ pc' \in [Runs -> {"idle", "insert", "audit", "commit", "committing", "done"}]
      /\ \A q \in Runs \ {r} : pc'[q] = pc[q]
  BY <1>1, <1>4
<1>6. at' \in [Runs -> 1 .. Len(Script) + 1] /\ at'[r] = at[r] + 1
      /\ \A q \in Runs \ {r} : at'[q] = at[q]
  BY <1>1, <1>3
<1> QED
  BY <1>2, <1>5, <1>6, ScriptTyped

\* While the loops run, the stage needs no more than this.
LEMMA LoopStage ==
  ASSUME NEW r \in Runs, StageAt(r), pc[r] \in {"insert", "audit"},
         \/ pc'[r] \in {"insert", "audit"} /\ at'[r] <= Len(Script)
         \/ pc'[r] = "commit" /\ at'[r] = Len(Script) + 1,
         UNCHANGED <<sent, committed, exit>>
  PROVE  StageAt(r)'
<1>1. r \notin sent /\ r \notin committed /\ exit[r] = "none"
  BY DEF StageAt
<1> QED
  BY <1>1 DEF StageAt, Open

\* A skipped row is no row of a policy that the run itself has inserted: the row in its way
\* would be of the same policy, and that policy in the way of the run's.
LEMMA SkippedIsForeign ==
  ASSUME SeederInv, NEW r \in Runs, pc[r] = "insert", Taken(r), NEW p \in written[r],
         p.table = "policies", NextRow(r).table # "policies", NextRow(r).policy = p.id
  PROVE  FALSE
<1>1. at[r] \in 1 .. Len(Script) /\ NextRow(r) = Script[at[r]] /\ NextRow(r) \in ScriptRows
  BY ScriptTyped DEF SeederInv, TypeOK, RunInv, StageAt, NextRow
<1>2. PICK row \in stored \cup written[r] : Conflicts(row, NextRow(r))
  BY DEF Taken
<1>3. CASE row \in written[r]
  <2>1. PICK i \in 1 .. at[r] - 1 : row = Script[i]
    BY <1>3 DEF SeederInv, RunInv, WrittenAt
  <2>2. i \in 1 .. Len(Script) /\ i # at[r]
    BY <1>1, <2>1, ScriptTyped
  <2> QED
    BY <1>1, <1>2, <2>1, <2>2, ScriptApart
<1>4. CASE row \in stored
  <2>1. stored \subseteq Rows /\ TablesSound(stored)
    BY DEF SeederInv, TypeOK, RowsApart
  <2>2. row.policy = NextRow(r).policy
    BY <1>1, <1>2, <1>4, <2>1, SeederAssumption
  <2>3. PICK q \in stored : q.table = "policies" /\ q.id = p.id
    BY <1>4, <2>1, <2>2 DEF TablesSound, HasPolicy
  <2>4. Conflicts(q, p)
    BY <2>3 DEF Conflicts
  <2> QED
    BY <2>4 DEF SeederInv, RowsApart
<1> QED
  BY <1>2, <1>3, <1>4

LEMMA SkipRowStep ==
  ASSUME SeederInv, NEW r \in Runs, SkipRow(r) PROVE SeederInv'
<1>1. /\ pc[r] = "insert" /\ Taken(r) /\ Advance(r)
      /\ UNCHANGED <<stored, outbox, written, events, sent, committed, summary, exit>>
  BY DEF SkipRow
<1>2. TypeOK'
  BY <1>1, AdvanceTo DEF SeederInv, TypeOK
<1>3. RowsApart'
  BY <1>1, RowsUntouched DEF SeederInv
<1>4. ASSUME NEW q \in Runs PROVE RunInv(q)'
  <2>1. CASE q # r
    BY <1>1, <2>1, AdvanceTo, RunUntouched DEF SeederInv
  <2>2. CASE q = r
    <3>1. WrittenAt(r) /\ EventsAt(r) /\ StageAt(r)
      BY DEF SeederInv, RunInv
    <3>2. at[r] \in 1 .. Len(Script) /\ at'[r] = at[r] + 1 /\ pc'[r] \in {"insert", "commit"}
      BY <1>1, AdvanceTo
    <3>3. WrittenAt(r)'
      <4>1. written'[r] \subseteq {Script[i] : i \in 1 .. at'[r] - 1}
        BY <1>1, <3>1, <3>2 DEF WrittenAt
      <4>2. ASSUME NEW p \in written[r], NEW i \in 1 .. at'[r] - 1, p.table = "policies",
                   Script[i].table # "policies", Script[i].policy = p.id
            PROVE  Script[i] \in written[r]
        <5>1. CASE i = at[r]
          BY <1>1, <4>2, <5>1, SkippedIsForeign DEF NextRow
        <5>2. CASE i # at[r]
          <6>1. i \in 1 .. at[r] - 1
            BY <3>2, <5>2
          <6> QED
            BY <3>1, <4>2, <6>1 DEF WrittenAt
        <5> QED
          BY <5>1, <5>2
      <4> QED
        BY <1>1, <3>2, <4>1, <4>2 DEF WrittenAt
    <3>4. EventsAt(r)'
      BY <1>1, <3>1, <3>2 DEF EventsAt
    <3>5. StageAt(r)'
      BY <1>1, <3>1, AdvanceTo, LoopStage
    <3> QED
      BY <2>2, <3>3, <3>4, <3>5 DEF RunInv
  <2> QED
    BY <2>1, <2>2
<1> QED
  BY <1>2, <1>3, <1>4 DEF SeederInv

\* What an INSERT that affects a row has found.
LEMMA InsertRowFinds ==
  ASSUME SeederInv, NEW r \in Runs, InsertRow(r)
  PROVE  /\ pc[r] = "insert" /\ at[r] \in 1 .. Len(Script)
         /\ NextRow(r) = Script[at[r]] /\ NextRow(r) \in ScriptRows
         /\ \A row \in stored \cup written[r] : ~Conflicts(row, NextRow(r))
         /\ \A q \in Runs \ {r} : \A row \in written[q] : ~Conflicts(row, NextRow(r))
         /\ HasPolicy(stored \cup written[r] \cup {NextRow(r)}, NextRow(r))
         /\ NextRow(r) \notin written[r]
         /\ written'[r] = written[r] \cup {NextRow(r)}
         /\ \A q \in Runs \ {r} : written'[q] = written[q]
         /\ written' \in [Runs -> SUBSET ScriptRows]
         /\ UNCHANGED <<stored, outbox, events, sent, committed, exit>>
<1>1. pc[r] = "insert" /\ at[r] \in 1 .. Len(Script)
  BY ScriptTyped DEF InsertRow, MayInsert, SeederInv, TypeOK, RunInv, StageAt
<1>2. NextRow(r) = Script[at[r]] /\ NextRow(r) \in ScriptRows
  BY <1>1, ScriptTyped DEF NextRow
<1>3. \A row \in stored \cup written[r] : ~Conflicts(row, NextRow(r))
  BY DEF InsertRow, MayInsert, Taken
<1>4. \A q \in Runs \ {r} : \A row \in written[q] : ~Conflicts(row, NextRow(r))
  BY DEF InsertRow, MayInsert, WaitsFor
<1>5. NextRow(r) \notin written[r]
  BY <1>3, ConflictsReflexive
<1>6. written \in [Runs -> SUBSET ScriptRows]
  BY DEF SeederInv, TypeOK
<1>7. written' = [written EXCEPT ![r] = written[r] \cup {NextRow(r)}]
  BY DEF InsertRow
<1> HIDE DEF NextRow
<1>8. /\ written'[r] = written[r] \cup {NextRow(r)}
      /\ \A q \in Runs \ {r} : written'[q] = written[q]
      /\ written' \in [Runs -> SUBSET ScriptRows]
  BY <1>2, <1>6, <1>7
<1> QED
  BY <1>1, <1>2, <1>3, <1>4, <1>5, <1>8 DEF InsertRow

LEMMA InsertRowApart ==
  ASSUME SeederInv, NEW r \in Runs, InsertRow(r) PROVE RowsApart'
<1> DEFINE new == NextRow(r)
<1>1. /\ \A row \in stored \cup written[r] : ~Conflicts(row, new)
      /\ \A q \in Runs \ {r} : \A row \in written[q] : ~Conflicts(row, new)
      /\ HasPolicy(stored \cup written[r] \cup {new}, new)
      /\ written'[r] = written[r] \cup {new}
      /\ \A q \in Runs \ {r} : written'[q] = written[q]
      /\ UNCHANGED stored
  BY InsertRowFinds
<1>2. RowsApart
  BY DEF SeederInv
<1> HIDE DEF new
<1>3. ASSUME NEW s \in Runs, NEW w \in written'[s]
      PROVE  /\ \A row \in stored' : ~Conflicts(row, w)
             /\ \A q \in Runs \ {s} : \A other \in written'[q] : ~Conflicts(other, w)
             /\ HasPolicy(stored' \cup written'[s], w)
  <2>1. CASE s = r /\ w = new
    <3>1. stored' \cup written'[s] = stored \cup written[r] \cup {new}
      BY <1>1, <2>1
    <3> QED
      BY <1>1, <2>1, <3>1
  <2>2. CASE s = r /\ w # new
    <3>1. w \in written[r]
      BY <1>1, <1>3, <2>2
    <3>2. HasPolicy(stored' \cup written'[s], w)
      BY <1>1, <1>2, <2>2, <3>1, HasPolicyMonotone DEF RowsApart
    <3> QED
      BY <1>1, <1>2, <2>2, <3>1, <3>2 DEF RowsApart
  <2>3. CASE s # r
    <3>1. w \in written[s] /\ written'[s] = written[s]
      BY <1>1, <1>3, <2>3
    <3>2. ~Conflicts(new, w)
      BY <1>1, <2>3, <3>1, ConflictsSymmetric
    <3>3. \A q \in Runs \ {s} : \A other \in written'[q] : ~Conflicts(other, w)
      BY <1>1, <1>2, <2>3, <3>1, <3>2 DEF RowsApart
    <3> QED
      BY <1>1, <1>2, <3>1, <3>3 DEF RowsApart
  <2> QED
    BY <2>1, <2>2, <2>3
<1> QED
  BY <1>1, <1>2, <1>3 DEF RowsApart

LEMMA CountType ==
  ASSUME NEW r \in Runs, NEW counter \in Counters, summary \in [Runs -> [Counters -> Nat]],
         Count(r, counter)
  PROVE  summary' \in [Runs -> [Counters -> Nat]]
<1>1. [summary[r] EXCEPT ![counter] = @ + 1] \in [Counters -> Nat]
  OBVIOUS
<1>2. summary' = [summary EXCEPT ![r] = [summary[r] EXCEPT ![counter] = @ + 1]]
  BY DEF Count
<1> QED
  BY <1>1, <1>2

LEMMA TableCounted == ASSUME NEW row \in Rows PROVE row.table \in Counters
<1>1. row \in Row
  BY SeederAssumption
<1> QED
  BY <1>1 DEF Row, Counters

\* A policy row goes in, and its event is next.
LEMMA InsertPolicyStep ==
  ASSUME SeederInv, NEW r \in Runs, InsertRow(r), NextRow(r).table = "policies"
  PROVE  SeederInv'
<1>0. /\ pc[r] = "insert" /\ at[r] \in 1 .. Len(Script)
      /\ NextRow(r) = Script[at[r]] /\ NextRow(r) \in ScriptRows
      /\ NextRow(r) \notin written[r] /\ written'[r] = written[r] \cup {NextRow(r)}
      /\ UNCHANGED <<events, sent, committed, exit>>
  BY InsertRowFinds
<1>1. pc' = [pc EXCEPT ![r] = "audit"] /\ UNCHANGED at
  BY DEF InsertRow
<1>2. TypeOK'
  <2>1. summary' \in [Runs -> [Counters -> Nat]]
    BY InsertRowFinds, ScriptTyped, TableCounted, CountType DEF InsertRow, SeederInv, TypeOK
  <2>2. pc' \in [Runs -> {"idle", "insert", "audit", "commit", "committing", "done"}]
    BY <1>1 DEF SeederInv, TypeOK
  <2>3. /\ written' \in [Runs -> SUBSET ScriptRows]
        /\ UNCHANGED <<stored, outbox, events, sent, committed, exit>>
    BY InsertRowFinds
  <2>4. TypeOK
    BY DEF SeederInv
  <2> QED
    BY <1>1, <2>1, <2>2, <2>3, <2>4 DEF TypeOK
<1>3. RowsApart'
  BY InsertRowApart
<1>4. ASSUME NEW q \in Runs PROVE RunInv(q)'
  <2>0. /\ pc'[r] = "audit" /\ at'[r] = at[r]
        /\ \A s \in Runs \ {r} : pc'[s] = pc[s] /\ at'[s] = at[s]
    BY <1>1 DEF SeederInv, TypeOK
  <2>1. CASE q # r
    BY <2>0, <2>1, InsertRowFinds, RunUntouched DEF SeederInv
  <2>2. CASE q = r
    <3>1. WrittenAt(r) /\ EventsAt(r) /\ StageAt(r)
      BY DEF SeederInv, RunInv
    <3>2. NextRow(r)' = NextRow(r)
      BY <2>0 DEF NextRow
    <3>3. WrittenAt(r)'
      <4>1. written'[r] \subseteq {Script[i] : i \in 1 .. at[r] - 1} \cup {NextRow(r)}
        BY <3>1, <1>0 DEF WrittenAt
      <4>2. ASSUME NEW p \in written'[r], NEW i \in 1 .. at[r] - 1, p.table = "policies",
                   Script[i].table # "policies", Script[i].policy = p.id
            PROVE  Script[i] \in written'[r]
        <5>1. CASE p \in written[r]
          BY <3>1, <4>2, <5>1, <1>0 DEF WrittenAt
        <5>2. CASE p = NextRow(r)
          <6>1. at[r] \in 1 .. Len(Script) /\ p = Script[at[r]] /\ i \in 1 .. Len(Script)
            BY <1>0, <5>2, ScriptTyped
          <6>2. at[r] < i
            BY <4>2, <6>1, PolicyFirst
          <6> QED
            BY <6>1, <6>2
        <5> QED
          BY <4>2, <5>1, <5>2, <1>0
      <4> QED
        BY <2>0, <3>2, <4>1, <4>2, <1>0 DEF WrittenAt
    <3>4. EventsAt(r)'
      <4>1. events[r] = {SeededEvent(r, p) : p \in {w \in written[r] : w.table = "policies"}}
        BY <3>1, <1>0 DEF EventsAt
      <4>2. {w \in written[r] : w.table = "policies"}
            = {w \in written'[r] : w.table = "policies" /\ ~(w = NextRow(r))}
        BY <1>0
      <4>3. events'[r] = {SeededEvent(r, p) :
                            p \in {w \in written'[r] : w.table = "policies" /\ ~(w = NextRow(r))}}
        BY <1>0, <4>1, <4>2
      <4> QED
        BY <2>0, <3>2, <4>3, Zenon DEF EventsAt, SeededEvent
    <3>5. StageAt(r)'
      <4>1. at'[r] <= Len(Script)
        BY <1>0, <2>0, ScriptTyped
      <4> QED
        BY <1>0, <2>0, <3>1, <4>1, LoopStage
    <3> QED
      BY <2>2, <3>3, <3>4, <3>5 DEF RunInv
  <2> QED
    BY <2>1, <2>2
<1> QED
  BY <1>2, <1>3, <1>4 DEF SeederInv

\* A row of a list goes in, and the loop goes on.
LEMMA InsertListRowStep ==
  ASSUME SeederInv, NEW r \in Runs, InsertRow(r), NextRow(r).table # "policies"
  PROVE  SeederInv'
<1>0. /\ pc[r] = "insert" /\ at[r] \in 1 .. Len(Script)
      /\ NextRow(r) = Script[at[r]] /\ NextRow(r) \in ScriptRows
      /\ written'[r] = written[r] \cup {NextRow(r)}
      /\ UNCHANGED <<events, sent, committed, exit>>
  BY InsertRowFinds
<1>1. Advance(r)
  BY DEF InsertRow
<1>2. TypeOK'
  <2>1. summary' \in [Runs -> [Counters -> Nat]]
    BY <1>0, ScriptTyped, TableCounted, CountType DEF InsertRow, SeederInv, TypeOK
  <2>2. /\ written' \in [Runs -> SUBSET ScriptRows]
        /\ UNCHANGED <<stored, outbox, events, sent, committed, exit>>
    BY InsertRowFinds
  <2>3. TypeOK
    BY DEF SeederInv
  <2>4. /\ pc' \in [Runs -> {"idle", "insert", "audit", "commit", "committing", "done"}]
        /\ at' \in [Runs -> 1 .. Len(Script) + 1]
    BY <1>0, <1>1, AdvanceTo
  <2> QED
    BY <2>1, <2>2, <2>3, <2>4 DEF TypeOK
<1>3. RowsApart'
  BY InsertRowApart
<1>4. ASSUME NEW q \in Runs PROVE RunInv(q)'
  <2>0. /\ pc'[r] \in {"insert", "commit"} /\ at'[r] = at[r] + 1
        /\ \A s \in Runs \ {r} : pc'[s] = pc[s] /\ at'[s] = at[s]
    BY <1>0, <1>1, AdvanceTo
  <2>1. CASE q # r
    BY <2>0, <2>1, InsertRowFinds, RunUntouched DEF SeederInv
  <2>2. CASE q = r
    <3>1. WrittenAt(r) /\ EventsAt(r) /\ StageAt(r)
      BY DEF SeederInv, RunInv
    <3>2. WrittenAt(r)'
      <4>1. written[r] \subseteq {Script[i] : i \in 1 .. at[r] - 1}
        BY <1>0, <3>1 DEF WrittenAt
      <4>2. written'[r] \subseteq {Script[i] : i \in 1 .. at'[r] - 1}
        BY <1>0, <2>0, <4>1
      <4>3. ASSUME NEW p \in written'[r], NEW i \in 1 .. at'[r] - 1, p.table = "policies",
                   Script[i].table # "policies", Script[i].policy = p.id
            PROVE  Script[i] \in written'[r]
        <5>1. CASE i = at[r]
          BY <1>0, <5>1
        <5>2. CASE i # at[r]
          <6>1. i \in 1 .. at[r] - 1 /\ p \in written[r]
            BY <1>0, <2>0, <4>3, <5>2
          <6> QED
            BY <1>0, <3>1, <4>3, <6>1 DEF WrittenAt
        <5> QED
          BY <5>1, <5>2
      <4> QED
        BY <2>0, <4>2, <4>3 DEF WrittenAt
    <3>3. EventsAt(r)'
      <4>1. events[r] = {SeededEvent(r, p) : p \in {w \in written[r] : w.table = "policies"}}
        BY <1>0, <3>1 DEF EventsAt
      <4>2. {w \in written[r] : w.table = "policies"} = {w \in written'[r] : w.table = "policies"}
        BY <1>0
      <4>3. events'[r] = {SeededEvent(r, p) : p \in {w \in written'[r] : w.table = "policies"}}
        BY <1>0, <4>1, <4>2
      <4>4. pc'[r] # "audit"
        BY <2>0
      <4> QED
        BY <4>3, <4>4 DEF EventsAt
    <3>4. StageAt(r)'
      BY <1>0, <1>1, <3>1, AdvanceTo, LoopStage
    <3> QED
      BY <2>2, <3>2, <3>3, <3>4 DEF RunInv
  <2> QED
    BY <2>1, <2>2
<1> QED
  BY <1>2, <1>3, <1>4 DEF SeederInv

LEMMA InsertAuditStep ==
  ASSUME SeederInv, NEW r \in Runs, InsertAudit(r) PROVE SeederInv'
<1>0. /\ pc[r] = "audit" /\ Advance(r) /\ Count(r, "auditEvents")
      /\ events' = [events EXCEPT ![r] = events[r] \cup {SeededEvent(r, NextRow(r))}]
      /\ UNCHANGED <<stored, outbox, written, sent, committed, exit>>
  BY DEF InsertAudit
<1>1. WrittenAt(r) /\ EventsAt(r) /\ StageAt(r)
  BY DEF SeederInv, RunInv
<1>2. /\ pc'[r] \in {"insert", "commit"} /\ at'[r] = at[r] + 1
      /\ \A s \in Runs \ {r} : pc'[s] = pc[s] /\ at'[s] = at[s]
      /\ at[r] \in 1 .. Len(Script) /\ NextRow(r) = Script[at[r]]
      /\ NextRow(r) \in written[r] /\ NextRow(r).table = "policies"
  BY <1>0, <1>1, AdvanceTo DEF WrittenAt, NextRow
<1>3. /\ events'[r] = events[r] \cup {SeededEvent(r, NextRow(r))}
      /\ \A s \in Runs \ {r} : events'[s] = events[s]
      /\ events' \in [Runs -> SUBSET [policy : {row.policy : row \in Rows}, by : Runs]]
  <2>1. SeededEvent(r, NextRow(r)) \in [policy : {row.policy : row \in Rows}, by : Runs]
    BY <1>0, AdvanceTo, ScriptTyped DEF SeededEvent
  <2>2. events \in [Runs -> SUBSET [policy : {row.policy : row \in Rows}, by : Runs]]
    BY DEF SeederInv, TypeOK
  <2> HIDE DEF NextRow, SeededEvent
  <2> QED
    BY <1>0, <2>1, <2>2
<1>4. TypeOK'
  <2>1. summary' \in [Runs -> [Counters -> Nat]]
    BY <1>0, CountType DEF SeederInv, TypeOK, Counters
  <2> QED
    BY <1>0, <1>3, <2>1, AdvanceTo DEF SeederInv, TypeOK
<1>5. RowsApart'
  BY <1>0, RowsUntouched DEF SeederInv
<1>6. ASSUME NEW q \in Runs PROVE RunInv(q)'
  <2>1. CASE q # r
    BY <1>0, <1>2, <1>3, <2>1, RunUntouched DEF SeederInv
  <2>2. CASE q = r
    <3>1. WrittenAt(r)'
      <4>1. written'[r] \subseteq {Script[i] : i \in 1 .. at'[r] - 1}
        <5>1. written[r] \subseteq {Script[i] : i \in 1 .. at[r] - 1} \cup {Script[at[r]]}
          BY <1>0, <1>1, <1>2 DEF WrittenAt
        <5> QED
          BY <1>0, <1>2, <5>1
      <4>2. ASSUME NEW p \in written[r], NEW i \in 1 .. at'[r] - 1, p.table = "policies",
                   Script[i].table # "policies", Script[i].policy = p.id
            PROVE  Script[i] \in written[r]
        <5>1. i \in 1 .. at[r] - 1
          BY <1>2, <4>2
        <5> QED
          BY <1>1, <4>2, <5>1 DEF WrittenAt
      <4> QED
        BY <1>0, <1>2, <4>1, <4>2 DEF WrittenAt
    <3>2. EventsAt(r)'
      <4> DEFINE Policies == {w \in written[r] : w.table = "policies"}
                 Before == {w \in written[r] : w.table = "policies" /\ w # NextRow(r)}
      <4>1. events[r] = {SeededEvent(r, p) : p \in Before}
        BY <1>0, <1>1 DEF EventsAt
      <4>2. Policies = Before \cup {NextRow(r)}
        BY <1>2
      <4> HIDE DEF Policies, Before
      <4>3. events'[r] = {SeededEvent(r, p) : p \in Policies}
        BY <1>3, <4>1, <4>2
      <4>4. pc'[r] # "audit"
        BY <1>2
      <4> QED
        BY <1>0, <4>3, <4>4 DEF EventsAt, Policies
    <3>3. StageAt(r)'
      BY <1>0, <1>1, AdvanceTo, LoopStage
    <3> QED
      BY <2>2, <3>1, <3>2, <3>3 DEF RunInv
  <2> QED
    BY <2>1, <2>2
<1> QED
  BY <1>4, <1>5, <1>6 DEF SeederInv
-----------------------------------------------------------------------------
(* The steps of the server and of the operator. *)

LEMMA RollBackTypes ==
  ASSUME TypeOK, NEW r \in Runs, RollBack(r)
  PROVE  /\ written'[r] = {} /\ events'[r] = {}
         /\ \A q \in Runs \ {r} : written'[q] = written[q] /\ events'[q] = events[q]
         /\ \A q \in Runs : written'[q] \subseteq written[q]
         /\ written' \in [Runs -> SUBSET ScriptRows]
         /\ events' \in [Runs -> SUBSET [policy : {row.policy : row \in Rows}, by : Runs]]
BY DEF TypeOK, RollBack

\* The transaction of a run is over, whichever way.
LEMMA EndedRunInv ==
  ASSUME SeederInv, NEW r \in Runs, r \in sent, RollBack(r), sent' = sent \ {r},
         committed' = committed \/ committed' = committed \cup {r}, UNCHANGED <<pc, at, exit>>,
         NEW q \in Runs
  PROVE  RunInv(q)'
<1>0. TypeOK /\ RunInv(q)
  BY DEF SeederInv
<1>1. CASE q # r
  BY <1>0, <1>1, RollBackTypes, RunUntouched
<1>2. CASE q = r
  <2>1. StageAt(r) /\ pc[r] \in {"committing", "done"}
    BY <1>0, <1>2 DEF RunInv, StageAt
  <2>2. written'[r] = {} /\ events'[r] = {}
    BY <1>0, RollBackTypes
  <2>3. WrittenAt(r)'
    BY <2>1, <2>2 DEF WrittenAt
  <2>4. EventsAt(r)'
    BY <2>1, <2>2 DEF EventsAt
  <2>5. StageAt(r)'
    BY <2>1, <2>2 DEF StageAt, Open
  <2> QED
    BY <1>2, <2>3, <2>4, <2>5 DEF RunInv
<1> QED
  BY <1>1, <1>2

LEMMA ServerAbortsStep ==
  ASSUME SeederInv, NEW r \in Runs, ServerAborts(r) PROVE SeederInv'
<1>1. /\ r \in sent /\ RollBack(r) /\ sent' = sent \ {r}
      /\ UNCHANGED <<stored, outbox, pc, at, committed, summary, exit>>
  BY DEF ServerAborts
<1>2. TypeOK'
  BY <1>1, RollBackTypes DEF SeederInv, TypeOK
<1>3. RowsApart'
  BY <1>1, RowsRolledBack DEF SeederInv, RollBack
<1>4. \A q \in Runs : RunInv(q)'
  BY <1>1, EndedRunInv
<1> QED
  BY <1>2, <1>3, <1>4 DEF SeederInv

\* What is shown of a transaction fits what is in the tables.
LEMMA CommittedSound ==
  ASSUME SeederInv, NEW r \in Runs PROVE TablesSound(stored \cup written[r])
<1>1. /\ stored \in SUBSET Rows /\ written[r] \in SUBSET ScriptRows /\ TablesSound(stored)
      /\ \A row \in stored, w \in written[r] : ~Conflicts(row, w)
      /\ \A w \in written[r] : HasPolicy(stored \cup written[r], w)
  BY DEF SeederInv, TypeOK, RowsApart
<1> QED
  BY <1>1, SoundWhole

LEMMA ServerCommitsStep ==
  ASSUME SeederInv, NEW r \in Runs, ServerCommits(r) PROVE SeederInv'
<1>1. /\ r \in sent /\ RollBack(r) /\ sent' = sent \ {r} /\ committed' = committed \cup {r}
      /\ stored' = stored \cup written[r] /\ outbox' = outbox \cup events[r]
      /\ UNCHANGED <<pc, at, summary, exit>>
  BY DEF ServerCommits
<1>2. TypeOK'
  <2>1. stored' \subseteq Rows
        /\ outbox' \subseteq [policy : {row.policy : row \in Rows}, by : Runs]
    BY <1>1, ScriptTyped DEF SeederInv, TypeOK
  <2> QED
    BY <1>1, <2>1, RollBackTypes DEF SeederInv, TypeOK
<1>3. RowsApart'
  <2>1. RowsApart /\ TypeOK
    BY DEF SeederInv
  <2>2. TablesSound(stored')
    BY <1>1, CommittedSound
  <2>3. ASSUME NEW s \in Runs, NEW w \in written'[s]
        PROVE  /\ \A row \in stored' : ~Conflicts(row, w)
               /\ \A q \in Runs \ {s} : \A other \in written'[q] : ~Conflicts(other, w)
               /\ HasPolicy(stored' \cup written'[s], w)
    <3>1. s # r /\ w \in written[s] /\ written'[s] = written[s]
          /\ \A q \in Runs : written'[q] \subseteq written[q]
      BY <1>1, <2>1, <2>3, RollBackTypes
    <3>2. \A row \in stored' : ~Conflicts(row, w)
      BY <1>1, <2>1, <3>1 DEF RowsApart
    <3>3. \A q \in Runs \ {s} : \A other \in written'[q] : ~Conflicts(other, w)
      BY <2>1, <3>1 DEF RowsApart
    <3>4. HasPolicy(stored' \cup written'[s], w)
      BY <1>1, <2>1, <3>1, HasPolicyMonotone DEF RowsApart
    <3> QED
      BY <3>2, <3>3, <3>4
  <2> QED
    BY <2>2, <2>3 DEF RowsApart
<1>4. \A q \in Runs : RunInv(q)'
  BY <1>1, EndedRunInv
<1> QED
  BY <1>2, <1>3, <1>4 DEF SeederInv

LEMMA RunsUntouched ==
  ASSUME SeederInv, UNCHANGED <<pc, at, written, events, sent, committed, exit>>
  PROVE  \A q \in Runs : RunInv(q)'
BY RunUntouched DEF SeederInv

LEMMA OperatorInsertsStep ==
  ASSUME SeederInv, NEW row \in OperatorRows, OperatorInserts(row) PROVE SeederInv'
<1>1. /\ \A other \in stored : ~Conflicts(row, other)
      /\ \A r \in Runs : \A other \in written[r] : ~Conflicts(row, other)
      /\ HasPolicy(stored \cup {row}, row) /\ stored' = stored \cup {row} /\ row \in Rows
      /\ UNCHANGED <<outbox, pc, at, written, events, sent, committed, summary, exit>>
  BY DEF OperatorInserts, Rows
<1>2. TypeOK'
  BY <1>1 DEF SeederInv, TypeOK
<1>3. RowsApart'
  <2>1. RowsApart
    BY DEF SeederInv
  <2>2. TablesSound(stored')
    <3>1. \A v, w \in stored' : Conflicts(v, w) => v = w
      BY <1>1, <2>1, ConflictsSymmetric DEF RowsApart, TablesSound
    <3>2. \A v \in stored' : HasPolicy(stored', v)
      BY <1>1, <2>1, HasPolicyMonotone DEF RowsApart, TablesSound
    <3> QED
      BY <3>1, <3>2 DEF TablesSound
  <2>3. ASSUME NEW s \in Runs, NEW w \in written[s]
        PROVE  /\ \A v \in stored' : ~Conflicts(v, w)
               /\ HasPolicy(stored' \cup written[s], w)
    <3>1. \A v \in stored' : ~Conflicts(v, w)
      BY <1>1, <2>1 DEF RowsApart
    <3>2. HasPolicy(stored' \cup written[s], w)
      BY <1>1, <2>1, HasPolicyMonotone DEF RowsApart
    <3> QED
      BY <3>1, <3>2
  <2> QED
    BY <1>1, <2>1, <2>2, <2>3 DEF RowsApart
<1>4. \A q \in Runs : RunInv(q)'
  BY <1>1, RunsUntouched
<1> QED
  BY <1>2, <1>3, <1>4 DEF SeederInv

LEMMA OperatorDeletesStep ==
  ASSUME SeederInv, NEW row \in stored \cap Deletable, OperatorDeletes(row) PROVE SeederInv'
<1>1. /\ \A r \in Runs : \A child \in written[r] :
            ~(row.table = "policies" /\ child.table # "policies" /\ child.policy = row.id)
      /\ stored' = stored \ Cascade(row)
      /\ UNCHANGED <<outbox, pc, at, written, events, sent, committed, summary, exit>>
  BY DEF OperatorDeletes
<1>2. TypeOK'
  BY <1>1 DEF SeederInv, TypeOK
<1>3. RowsApart'
  <2>1. RowsApart /\ stored \subseteq Rows /\ TablesSound(stored)
    BY DEF SeederInv, TypeOK, RowsApart
  <2>2. TablesSound(stored')
    BY <1>1, <2>1, SoundRest
  <2>3. ASSUME NEW s \in Runs, NEW w \in written[s]
        PROVE  HasPolicy(stored' \cup written[s], w)
    <3>1. PICK p \in stored \cup written[s] : p.table = "policies" /\ p.id = w.policy
      BY <2>1 DEF RowsApart, HasPolicy
    <3>2. CASE p \notin stored \/ p \notin Cascade(row)
      BY <1>1, <3>1, <3>2 DEF HasPolicy
    <3>3. CASE p \in stored /\ p \in Cascade(row)
      <4>1. p = row
        BY <2>1, <3>1, <3>3, PolicySurvives
      <4>2. w.table = "policies"
        BY <1>1, <3>1, <4>1
      <4>3. w.policy = w.id
        BY <4>2, PolicyOfItself, ScriptTyped DEF SeederInv, TypeOK
      <4> QED
        BY <4>2, <4>3 DEF HasPolicy
    <3> QED
      BY <3>2, <3>3
  <2> QED
    BY <1>1, <2>1, <2>2, <2>3 DEF RowsApart
<1>4. \A q \in Runs : RunInv(q)'
  BY <1>1, RunsUntouched
<1> QED
  BY <1>2, <1>3, <1>4 DEF SeederInv
-----------------------------------------------------------------------------
LEMMA InitInv == Init => SeederInv
<1> SUFFICES ASSUME Init PROVE SeederInv
  OBVIOUS
<1>1. TypeOK
  BY ScriptTyped DEF Init, TypeOK, EmptySummary, Rows
<1>2. RowsApart
  BY SeederAssumption DEF Init, RowsApart
<1>3. ASSUME NEW r \in Runs PROVE RunInv(r)
  <2>1. pc[r] = "idle" /\ at[r] = 1 /\ written[r] = {} /\ events[r] = {} /\ exit[r] = "none"
        /\ r \notin sent /\ r \notin committed
    BY DEF Init
  <2>2. WrittenAt(r)
    BY <2>1 DEF WrittenAt
  <2>3. EventsAt(r)
    BY <2>1 DEF EventsAt
  <2>4. StageAt(r)
    BY <2>1 DEF StageAt
  <2> QED
    BY <2>2, <2>3, <2>4 DEF RunInv
<1> QED
  BY <1>1, <1>2, <1>3 DEF SeederInv

LEMMA NextInv == SeederInv /\ [Next]_vars => SeederInv'
<1> SUFFICES ASSUME SeederInv, [Next]_vars PROVE SeederInv'
  OBVIOUS
<1>1. ASSUME NEW r \in Runs, Proceed(r) PROVE SeederInv'
  BY <1>1, StartStep, InsertPolicyStep, InsertListRowStep, SkipRowStep, InsertAuditStep,
     FailSteps, CommandSteps DEF Proceed
<1>2. ASSUME NEW r \in Runs, EndCommit(r) \/ Fail(r) \/ Server(r) PROVE SeederInv'
  BY <1>2, CommandSteps, FailSteps, ServerCommitsStep, ServerAbortsStep
  DEF EndCommit, Fail, Server
<1>3. CASE Operate
  BY <1>3, OperatorInsertsStep, OperatorDeletesStep DEF Operate
<1>4. CASE UNCHANGED vars
  <2>1. TypeOK'
    BY <1>4 DEF vars, SeederInv, TypeOK
  <2>2. RowsApart'
    BY <1>4, RowsUntouched DEF vars, SeederInv
  <2>3. \A q \in Runs : RunInv(q)'
    BY <1>4, RunsUntouched DEF vars
  <2> QED
    BY <2>1, <2>2, <2>3 DEF SeederInv
<1> QED
  BY <1>1, <1>2, <1>3, <1>4 DEF Next, Terminated

\* The invariant of any number of runs beside an operator: each open transaction's rows fit
\* the tables and the other transactions (seed.go:62).
THEOREM SeederInvariant == Spec => []SeederInv
<1> QED
  BY InitInv, NextInv, PTL DEF Spec

LEMMA InvWaits == SeederInv => WaitsForTheFurther
<1> SUFFICES ASSUME SeederInv, NEW r \in Runs, NEW q \in Runs, WaitsFor(r, q)
             PROVE  Passed(r) < Passed(q)
  BY DEF WaitsForTheFurther
<1>1. pc[r] = "insert" /\ at[r] \in 1 .. Len(Script) /\ NextRow(r) = Script[at[r]]
  BY ScriptTyped DEF WaitsFor, SeederInv, TypeOK, RunInv, StageAt, NextRow
<1>2. PICK row \in written[q] : Conflicts(row, Script[at[r]])
  BY <1>1 DEF WaitsFor
<1>3. WrittenAt(q) /\ StageAt(q) /\ at[q] \in 1 .. Len(Script) + 1
  BY DEF SeederInv, TypeOK, RunInv
<1>4. PICK i \in 1 .. Passed(q) : row = Script[i]
  BY <1>3 DEF WrittenAt, Passed, NextRow
<1>5. i \in 1 .. Len(Script) /\ Passed(q) \in Nat
  BY <1>3, <1>4, ScriptTyped DEF Passed, StageAt
<1>6. i = at[r]
  BY <1>1, <1>2, <1>4, <1>5, ScriptApart
<1> QED
  BY <1>1, <1>4, <1>5, <1>6 DEF Passed

\* However many runs there are, they never wait for each other in a circle (seed.go:63).
THEOREM WaitsEnd == Spec => []WaitsForTheFurther
<1> QED
  BY SeederInvariant, InvWaits, PTL

\* The least number principle.
LEMMA LeastNumber ==
  ASSUME NEW T, T \subseteq Nat, T # {}
  PROVE  \E n \in T : \A m \in T : n <= m
<1> DEFINE R == OpToRel(<, Nat)
<1>1. IsWellFoundedOn(R, Nat)
  BY NatLessThanWellFounded
<1>2. \A m, n \in Nat : <<m, n>> \in R <=> m < n
  BY DEF OpToRel
<1> HIDE DEF R
<1>3. PICK n \in T : \A m \in T : <<m, n>> \notin R
  BY <1>1, WFMin
<1>4. \A m \in T : n \in Nat /\ m \in Nat /\ ~(m < n)
  BY <1>2, <1>3
<1>5. \A m \in T : n <= m
  BY <1>4
<1> QED
  BY <1>5

\* The run that has come furthest waits for nobody.
LEMMA InvGoesOn == SeederInv => SomebodyGoesOn
<1> SUFFICES ASSUME SeederInv, NEW r \in Runs, NEW q \in Runs, WaitsFor(r, q)
             PROVE  \E last \in Runs : Open(last) /\ \A other \in Runs : ~WaitsFor(last, other)
  BY DEF SomebodyGoesOn
<1> DEFINE left(x) == Len(Script) - Passed(x)
           numbers == {left(x) : x \in {y \in Runs : Open(y)}}
<1>1. ASSUME NEW x \in Runs, NEW y \in Runs, WaitsFor(x, y) PROVE Open(y)
  <2>1. StageAt(y) /\ written[y] # {}
    BY <1>1 DEF SeederInv, RunInv, WaitsFor
  <2> QED
    BY <2>1 DEF StageAt
<1>2. ASSUME NEW x \in Runs, Open(x) PROVE Passed(x) \in Nat /\ left(x) \in Nat
  <2>1. StageAt(x) /\ at[x] \in 1 .. Len(Script) + 1
    BY DEF SeederInv, RunInv, TypeOK
  <2> QED
    BY <2>1, ScriptTyped DEF StageAt, Passed
<1>3. numbers \subseteq Nat /\ numbers # {}
  BY <1>1, <1>2
<1> HIDE DEF numbers
<1>4. PICK n \in numbers : \A m \in numbers : n <= m
  BY <1>3, LeastNumber
<1>5. PICK last \in Runs : Open(last) /\ n = left(last)
  BY DEF numbers
<1>6. ASSUME NEW other \in Runs, WaitsFor(last, other) PROVE FALSE
  <2>1. Open(other) /\ left(other) \in numbers
    BY <1>1, <1>6 DEF numbers
  <2>2. Passed(last) < Passed(other)
    BY <1>6, InvWaits DEF WaitsForTheFurther
  <2>3. left(last) <= left(other)
    BY <1>4, <1>5, <2>1
  <2> QED
    BY <1>2, <1>5, <2>1, <2>2, <2>3, ScriptTyped
<1> QED
  BY <1>5, <1>6

\* Runs never wait for each other to no end: whenever one waits, another with an open
\* transaction can execute its next statement or has its COMMIT with the server (seed.go:63).
THEOREM RunsGoOn == Spec => []SomebodyGoesOn
<1> QED
  BY SeederInvariant, InvGoesOn, PTL
-----------------------------------------------------------------------------
(* Success, when nobody deletes rows. *)

\* A step that takes no row from a run's sight leaves it covered.
LEMMA CoveredStill ==
  ASSUME NEW q \in Runs, CoveredRun(q),
         Open(q)' \/ q \in committed' => Open(q) \/ q \in committed,
         Passed(q)' = Passed(q),
         stored \cup written[q] \subseteq stored' \cup written'[q]
  PROVE  CoveredRun(q)'
BY DEF CoveredRun

\* A run that has got past one more row, which is there.
LEMMA CoveredNext ==
  ASSUME NEW r \in Runs, CoveredRun(r), Open(r), at[r] \in Nat, Passed(r) = at[r] - 1,
         Passed(r)' = at[r], UNCHANGED stored, written[r] \subseteq written'[r],
         NEW row \in stored' \cup written'[r], Conflicts(row, Script[at[r]])
  PROVE  CoveredRun(r)'
<1>1. ASSUME NEW i \in 1 .. at[r]
      PROVE  \E v \in stored' \cup written'[r] : Conflicts(v, Script[i])
  <2>1. CASE i = at[r]
    BY <2>1
  <2>2. CASE i # at[r]
    <3>1. i \in 1 .. Passed(r)
      BY <2>2
    <3> QED
      BY <3>1 DEF CoveredRun
  <2> QED
    BY <2>1, <2>2
<1> QED
  BY <1>1 DEF CoveredRun

LEMMA CoveredElsewhere ==
  ASSUME TypeOK, NEW r \in Runs, Proceed(r) \/ EndCommit(r) \/ Fail(r) \/ Server(r),
         NEW q \in Runs \ {r}, CoveredRun(q)
  PROVE  CoveredRun(q)'
<1>1. /\ pc'[q] = pc[q] /\ at'[q] = at[q] /\ written'[q] = written[q]
      /\ (q \in sent' <=> q \in sent) /\ (q \in committed' <=> q \in committed)
      /\ stored \subseteq stored'
  <2>1. CASE Proceed(r)
    BY <2>1 DEF TypeOK, Proceed, Start, InsertRow, SkipRow, InsertAudit, RefuseOrphan,
                SendCommit, Goto, Exit, Advance, RollBack
  <2>2. CASE EndCommit(r)
    BY <2>2 DEF TypeOK, EndCommit, Succeed, CommitFails, Exit
  <2>3. CASE Fail(r)
    BY <2>3 DEF TypeOK, Fail, StartFails, StatementFails, Exit, RollBack
  <2>4. CASE Server(r)
    BY <2>4 DEF TypeOK, Server, ServerCommits, ServerAborts, RollBack
  <2> QED
    BY <2>1, <2>2, <2>3, <2>4
<1>2. Open(q)' \/ q \in committed' => Open(q) \/ q \in committed
  BY <1>1 DEF Open
<1>3. Passed(q)' = Passed(q)
  BY <1>1 DEF Passed
<1> QED
  BY <1>1, <1>2, <1>3, CoveredStill

LEMMA CoveredProceed ==
  ASSUME SeederInv, NEW r \in Runs, Proceed(r), CoveredRun(r) PROVE CoveredRun(r)'
<1>0. TypeOK /\ StageAt(r)
  BY DEF SeederInv, RunInv
<1>1. CASE Start(r)
  <2>1. pc[r] = "idle" /\ at'[r] = 1 /\ pc'[r] = "insert"
    BY <1>0, <1>1 DEF TypeOK, StageAt, Start, Goto
  <2>2. Passed(r)' = 0
    BY <2>1 DEF Passed
  <2> QED
    BY <2>2 DEF CoveredRun
<1>2. CASE InsertRow(r)
  <2>1. pc[r] = "insert" /\ at[r] \in 1 .. Len(Script) /\ NextRow(r) = Script[at[r]]
        /\ written'[r] = written[r] \cup {NextRow(r)} /\ UNCHANGED stored
    BY <1>2, InsertRowFinds
  <2>2. Open(r) /\ Passed(r) = at[r] - 1
    BY <2>1 DEF Open, Passed
  <2>3. Passed(r)' = at[r]
    <3>1. CASE NextRow(r).table = "policies"
      BY <1>0, <1>2, <3>1 DEF InsertRow, TypeOK, Passed
    <3>2. CASE NextRow(r).table # "policies"
      <4>1. pc'[r] \in {"insert", "commit"} /\ at'[r] = at[r] + 1
        BY <1>2, <2>1, <3>2, AdvanceTo DEF InsertRow
      <4> QED
        BY <2>1, <4>1, ScriptTyped DEF Passed
    <3> QED
      BY <3>1, <3>2
  <2>4. PICK row \in stored' \cup written'[r] : Conflicts(row, Script[at[r]])
    BY <2>1, ConflictsReflexive
  <2>5. at[r] \in Nat /\ written[r] \subseteq written'[r]
    BY <2>1
  <2> QED
    BY <2>1, <2>2, <2>3, <2>4, <2>5, CoveredNext
<1>3. CASE SkipRow(r)
  <2>1. pc[r] = "insert" /\ Taken(r) /\ Advance(r) /\ UNCHANGED <<stored, written>>
    BY <1>3 DEF SkipRow
  <2>2. /\ pc'[r] \in {"insert", "commit"} /\ at'[r] = at[r] + 1
        /\ at[r] \in 1 .. Len(Script)
    BY <2>1, AdvanceTo
  <2>3. Open(r) /\ Passed(r) = at[r] - 1 /\ Passed(r)' = at[r]
    BY <2>1, <2>2 DEF Open, Passed
  <2>4. PICK row \in stored' \cup written'[r] : Conflicts(row, Script[at[r]])
    BY <2>1 DEF Taken, NextRow
  <2> QED
    BY <2>1, <2>2, <2>3, <2>4, CoveredNext
<1>4. CASE InsertAudit(r)
  <2>1. pc[r] = "audit" /\ Advance(r) /\ UNCHANGED <<stored, written, sent, committed>>
    BY <1>4 DEF InsertAudit
  <2>2. pc'[r] \in {"insert", "commit"} /\ at'[r] = at[r] + 1 /\ at[r] \in 1 .. Len(Script)
    BY <2>1, AdvanceTo
  <2>3. Passed(r)' = Passed(r) /\ Open(r)
    BY <2>1, <2>2 DEF Passed, Open
  <2> QED
    BY <2>1, <2>3, CoveredStill
<1>5. CASE RefuseOrphan(r)
  <2>1. pc[r] = "insert" /\ pc'[r] = "done" /\ UNCHANGED <<sent, committed>>
    BY <1>0, <1>5 DEF RefuseOrphan, MayInsert, Exit, TypeOK
  <2>2. r \notin sent' /\ r \notin committed'
    BY <1>0, <2>1 DEF StageAt
  <2> QED
    BY <2>1, <2>2 DEF CoveredRun, Open
<1>6. CASE SendCommit(r)
  <2>1. pc[r] = "commit" /\ pc'[r] = "committing" /\ UNCHANGED <<stored, written, at>>
    BY <1>0, <1>6 DEF SendCommit, Goto, TypeOK
  <2>2. Passed(r)' = Passed(r) /\ Open(r)
    BY <2>1 DEF Passed, Open
  <2> QED
    BY <2>1, <2>2, CoveredStill
<1> QED
  BY <1>1, <1>2, <1>3, <1>4, <1>5, <1>6 DEF Proceed

LEMMA CoveredEnds ==
  ASSUME SeederInv, NEW r \in Runs, EndCommit(r) \/ Fail(r) \/ Server(r), CoveredRun(r)
  PROVE  CoveredRun(r)'
<1>0. TypeOK /\ StageAt(r)
  BY DEF SeederInv, RunInv
<1>1. CASE EndCommit(r)
  <2>1. /\ pc[r] = "committing" /\ pc'[r] = "done"
        /\ UNCHANGED <<stored, written, at, sent, committed>>
    BY <1>0, <1>1 DEF EndCommit, Succeed, CommitFails, Exit, TypeOK
  <2>2. Passed(r)' = Passed(r) /\ (Open(r)' \/ r \in committed' => Open(r) \/ r \in committed)
    BY <2>1 DEF Passed, Open
  <2> QED
    BY <2>1, <2>2, CoveredStill
<1>2. CASE Fail(r)
  <2>1. /\ pc[r] \in {"idle", "insert", "audit", "commit"} /\ pc'[r] = "done"
        /\ UNCHANGED <<sent, committed>>
    BY <1>0, <1>2 DEF Fail, StartFails, StatementFails, Exit, TypeOK
  <2>2. r \notin sent' /\ r \notin committed'
    BY <1>0, <2>1 DEF StageAt
  <2> QED
    BY <2>1, <2>2 DEF CoveredRun, Open
<1>3. CASE ServerCommits(r)
  <2>1. Open(r) /\ stored' = stored \cup written[r] /\ UNCHANGED <<pc, at>>
    BY <1>3 DEF ServerCommits, Open
  <2>2. Passed(r)' = Passed(r)
    BY <2>1 DEF Passed
  <2> QED
    BY <2>1, <2>2, CoveredStill
<1>4. CASE ServerAborts(r)
  <2>1. r \in sent /\ r \notin sent' /\ UNCHANGED <<pc, committed>>
    BY <1>4 DEF ServerAborts
  <2>2. pc[r] \in {"committing", "done"} /\ r \notin committed'
    BY <1>0, <2>1 DEF StageAt
  <2> QED
    BY <2>1, <2>2 DEF CoveredRun, Open
<1> QED
  BY <1>1, <1>2, <1>3, <1>4 DEF Server

LEMMA NextCovered ==
  ASSUME Deletable = {}, SeederInv, [Next]_vars, \A q \in Runs : CoveredRun(q)
  PROVE  \A q \in Runs : CoveredRun(q)'
<1>1. ASSUME NEW r \in Runs, Proceed(r) \/ EndCommit(r) \/ Fail(r) \/ Server(r), NEW q \in Runs
      PROVE  CoveredRun(q)'
  <2>1. TypeOK /\ CoveredRun(q)
    BY DEF SeederInv
  <2>2. CASE q # r
    BY <1>1, <2>1, <2>2, CoveredElsewhere
  <2>3. CASE q = r
    BY <1>1, <2>1, <2>3, CoveredProceed, CoveredEnds
  <2> QED
    BY <2>2, <2>3
<1>2. ASSUME Operate \/ UNCHANGED vars, NEW q \in Runs PROVE CoveredRun(q)'
  <2>1. /\ stored \subseteq stored'
        /\ UNCHANGED <<pc, at, written, sent, committed>>
    BY <1>2 DEF Operate, OperatorInserts, vars
  <2>2. /\ Passed(q)' = Passed(q)
        /\ Open(q)' \/ q \in committed' => Open(q) \/ q \in committed
    BY <2>1 DEF Passed, Open
  <2> QED
    BY <2>1, <2>2, CoveredStill
<1> QED
  BY <1>1, <1>2 DEF Next, Terminated

LEMMA InitCovered == Init => \A q \in Runs : CoveredRun(q)
BY DEF Init, CoveredRun, Open

LEMMA CoveredMeansSeeded ==
  ASSUME SeederInv, \A q \in Runs : CoveredRun(q) PROVE SuccessMeansSeeded
<1> SUFFICES ASSUME NEW r \in Runs, exit[r] = "ok", NEW i \in DOMAIN Script
             PROVE  \E row \in stored : Conflicts(row, Script[i])
  BY DEF SuccessMeansSeeded
<1>1. StageAt(r)
  BY DEF SeederInv, RunInv
<1>2. r \in committed /\ r \notin sent /\ at[r] = Len(Script) + 1 /\ pc[r] = "done"
  BY <1>1 DEF StageAt
<1>3. written[r] = {}
  BY <1>1, <1>2 DEF StageAt, Open
<1>4. i \in 1 .. Passed(r)
  BY <1>2, ScriptTyped DEF Passed
<1> QED
  BY <1>2, <1>3, <1>4 DEF CoveredRun

\* When nobody deletes policies, a summary is printed only if all seeds, or what the unique
\* indexes count for them, are in the tables (main.go:49).
THEOREM SuccessIsSeeded == Deletable = {} => (Spec => []SuccessMeansSeeded)
<1> SUFFICES ASSUME Deletable = {} PROVE Spec => []SuccessMeansSeeded
  OBVIOUS
<1> DEFINE AllCovered == \A q \in Runs : CoveredRun(q)
<1>1. Init => AllCovered
  BY InitCovered
<1>2. SeederInv /\ AllCovered /\ [Next]_vars => AllCovered'
  BY NextCovered
<1>3. SeederInv /\ AllCovered => SuccessMeansSeeded
  BY CoveredMeansSeeded
<1> QED
  BY <1>1, <1>2, <1>3, SeederInvariant, PTL DEF Spec
-----------------------------------------------------------------------------
(* The refinement. *)

LEMMA InitSeeding == Init => Seeding!SeedingInit
BY DEF Init, Seeding!SeedingInit

\* A COMMIT that takes effect shows whole policies, and their events.
LEMMA CommitShows ==
  ASSUME SeederInv, NEW r \in Runs, ServerCommits(r) PROVE Seeding!Show(r)
<1> DEFINE new == stored' \ stored
           newPolicies == {row \in new : row.table = "policies"}
<1>1. /\ r \in sent /\ stored' = stored \cup written[r] /\ outbox' = outbox \cup events[r]
      /\ committed' = committed \cup {r} /\ UNCHANGED <<pc, exit>>
  BY DEF ServerCommits
<1>2. WrittenAt(r) /\ EventsAt(r) /\ StageAt(r) /\ written[r] \in SUBSET ScriptRows
  BY DEF SeederInv, RunInv, TypeOK
<1>3. pc[r] # "audit" /\ at[r] = Len(Script) + 1 /\ r \notin committed
  BY <1>1, <1>2 DEF StageAt
<1>4. new = written[r]
  <2>1. \A w \in written[r] : w \notin stored
    BY ConflictsReflexive DEF SeederInv, RowsApart
  <2> QED
    BY <1>1, <2>1
<1>5. TablesSound(stored')
  BY <1>1, CommittedSound
<1>6. ASSUME NEW p \in newPolicies PROVE Seeding!ListRowsOf(p) \subseteq stored'
  <2>1. SUFFICES ASSUME NEW row \in ScriptRows, row.table # "policies", row.policy = p.id
                 PROVE  row \in written[r]
    BY <1>1 DEF Seeding!ListRowsOf
  <2>2. PICK i \in 1 .. Len(Script) : row = Script[i]
    BY ScriptRowIndex
  <2>3. i \in 1 .. at[r] - 1
    BY <1>3, <2>2, ScriptTyped
  <2>4. p \in written[r] /\ p.table = "policies"
    BY <1>4, <1>6
  <2> QED
    BY <1>2, <2>1, <2>2, <2>3, <2>4 DEF WrittenAt
<1>7. outbox' = outbox \cup {SeededEvent(r, p) : p \in newPolicies}
  <2>1. newPolicies = {w \in written[r] : w.table = "policies"}
    BY <1>4
  <2>2. events[r] = {SeededEvent(r, p) : p \in {w \in written[r] : w.table = "policies"}}
    BY <1>2, <1>3 DEF EventsAt
  <2> QED
    BY <1>1, <2>1, <2>2
<1>8. new \subseteq ScriptRows /\ stored \subseteq stored'
  BY <1>1, <1>2, <1>4
<1> QED
  BY <1>1, <1>3, <1>5, <1>6, <1>7, <1>8 DEF Seeding!Show

LEMMA ExitReports ==
  ASSUME SeederInv, NEW r \in Runs,
         StartFails(r) \/ StatementFails(r) \/ RefuseOrphan(r) \/ Succeed(r) \/ CommitFails(r)
  PROVE  Seeding!Report(r)
<1>1. StageAt(r) /\ exit \in [Runs -> {"none", "ok", "failed"}]
  BY DEF SeederInv, RunInv, TypeOK
<1>2. pc[r] # "done"
  BY DEF StartFails, StatementFails, RefuseOrphan, MayInsert, Succeed, CommitFails
<1>3. exit[r] = "none"
  BY <1>1, <1>2 DEF StageAt
<1> QED
  BY <1>3 DEF Seeding!Report, StartFails, StatementFails, RefuseOrphan, Succeed, CommitFails, Exit

LEMMA OperatorWrites ==
  ASSUME SeederInv, SeederInv', Operate PROVE Seeding!Write
<1>1. TablesSound(stored') /\ UNCHANGED <<outbox, committed, exit>>
  BY DEF SeederInv, RowsApart, Operate, OperatorInserts, OperatorDeletes
<1>2. stored' \subseteq stored \cup OperatorRows
  BY DEF Operate, OperatorInserts, OperatorDeletes
<1> QED
  BY <1>1, <1>2 DEF Seeding!Write

LEMMA NextSeeding ==
  SeederInv /\ SeederInv' /\ [Next]_vars => [Seeding!SeedingNext]_(Seeding!seedingVars)
<1> SUFFICES ASSUME SeederInv, SeederInv', [Next]_vars
             PROVE  Seeding!SeedingNext \/ UNCHANGED <<stored, outbox, committed, exit>>
  BY DEF Seeding!seedingVars
<1>1. ASSUME NEW r \in Runs, Proceed(r)
      PROVE  Seeding!Report(r) \/ UNCHANGED <<stored, outbox, committed, exit>>
  <2>1. CASE RefuseOrphan(r)
    BY <2>1, ExitReports
  <2>2. CASE ~RefuseOrphan(r)
    BY <1>1, <2>2 DEF Proceed, Start, InsertRow, SkipRow, InsertAudit, SendCommit
  <2> QED
    BY <2>1, <2>2
<1>2. ASSUME NEW r \in Runs, EndCommit(r) \/ Fail(r) PROVE Seeding!Report(r)
  BY <1>2, ExitReports DEF EndCommit, Fail
<1>3. ASSUME NEW r \in Runs, Server(r)
      PROVE  Seeding!Show(r) \/ UNCHANGED <<stored, outbox, committed, exit>>
  BY <1>3, CommitShows DEF Server, ServerAborts
<1>4. CASE Operate
  BY <1>4, OperatorWrites DEF Seeding!SeedingNext
<1>5. CASE UNCHANGED vars
  BY <1>5 DEF vars
<1> QED
  BY <1>1, <1>2, <1>3, <1>4, <1>5 DEF Next, Terminated, Seeding!SeedingNext

\* Runs of the command, however they overlap and wherever they fail, show their policies
\* whole and with their events, or not at all (seed.go:62).
THEOREM ImplementsSeeding == Spec => SeedingRefinement
<1> QED
  BY InitSeeding, NextSeeding, SeederInvariant, PTL
  DEF Spec, SeedingRefinement, Seeding!SeedingSpec
=============================================================================
