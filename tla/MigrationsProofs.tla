---------------------------- MODULE MigrationsProofs ----------------------------
(***************************************************************************)
(* Proofs about the migrations, for any number of transactions beside      *)
(* them, whatever clients send.                                            *)
(***************************************************************************)
EXTENDS MigrationsProperties, SequenceTheorems, TLAPS

(* The scripts. *)

LEMMA UpStatements ==
  /\ Len(Script("up")) = 9
  /\ \A i \in 1 .. 5 : Script("up")[i] = InitUp[i]
  /\ \A i \in 6 .. 9 : Script("up")[i] = UnknownUp[i - 5]
<1> DEFINE S == {InitUp[i] : i \in 1 .. 5} \cup {UnknownUp[i] : i \in 1 .. 4}
<1>1. InitUp \in Seq(S) /\ Len(InitUp) = 5
  BY DEF InitUp
<1>2. UnknownUp \in Seq(S) /\ Len(UnknownUp) = 4
  BY DEF UnknownUp
<1>3. Script("up") = InitUp \o UnknownUp
  BY DEF Script
<1> HIDE DEF S
<1>4. /\ Len(InitUp \o UnknownUp) = Len(InitUp) + Len(UnknownUp)
      /\ \A i \in 1 .. Len(InitUp) + Len(UnknownUp) : (InitUp \o UnknownUp)[i] =
           IF i <= Len(InitUp) THEN InitUp[i] ELSE UnknownUp[i - Len(InitUp)]
  BY <1>1, <1>2, ConcatProperties, Zenon
<1>5. /\ Len(Script("up")) = 9
      /\ \A i \in 1 .. 9 : Script("up")[i] = IF i <= 5 THEN InitUp[i] ELSE UnknownUp[i - 5]
  <2>1. Len(InitUp) + Len(UnknownUp) = 9
    BY <1>1, <1>2
  <2> QED
    BY <1>1, <1>3, <1>4, <2>1, Zenon
<1>6. ASSUME NEW i \in 1 .. 5 PROVE Script("up")[i] = InitUp[i]
  BY <1>5
<1>7. ASSUME NEW i \in 6 .. 9 PROVE Script("up")[i] = UnknownUp[i - 5]
  BY <1>5
<1> QED
  BY <1>5, <1>6, <1>7, Zenon

LEMMA DownStatements ==
  /\ Len(Script("down2")) = 4 /\ Script("down2") = UnknownDown
  /\ Len(Script("down1")) = 5 /\ Script("down1") = InitDown
  /\ Len(Script("none")) = 0
BY DEF Script, UnknownDown, InitDown

LEMMA AtStatement ==
  ASSUME TypeOK, Started
  PROVE  /\ at \in Nat /\ at >= 1 /\ running \in Procedures
         /\ \/ running.script = "up" /\ at <= 9
            \/ running.script = "down2" /\ at <= 4
            \/ running.script = "down1" /\ at <= 5
<1>1. running \in Procedures /\ running.script \in {"up", "down2", "down1"}
  BY MigrationsAssumption DEF TypeOK, Started
<1> DEFINE n == Len(Script(running.script))
<1>2. at \in 1 .. n + 1 /\ at <= n
  BY DEF TypeOK, Started
<1>3. \/ running.script = "up" /\ n = 9
      \/ running.script = "down2" /\ n = 4
      \/ running.script = "down1" /\ n = 5
  BY <1>1, UpStatements, DownStatements, Zenon
<1> HIDE DEF n
<1>4. n \in Nat
  BY <1>3
<1>5. at \in Nat /\ at >= 1
  BY <1>2, <1>4
<1>6. \/ running.script = "up" /\ at <= 9
      \/ running.script = "down2" /\ at <= 4
      \/ running.script = "down1" /\ at <= 5
  BY <1>2, <1>3
<1> QED
  BY <1>1, <1>5, <1>6

LEMMA AtEnd ==
  ASSUME TypeOK, running # Nothing, ~Started
  PROVE  /\ running.script = "up" => at = 10
         /\ running.script = "down1" => at = 6
<1>1. running.script \in {"up", "down2", "down1"}
  BY MigrationsAssumption DEF TypeOK
<1> DEFINE n == Len(Script(running.script))
<1>2. n \in Nat
  BY <1>1, UpStatements, DownStatements
<1>3. at \in 1 .. n + 1 /\ ~(at <= n)
  BY DEF TypeOK, Started
<1>4. (running.script = "up" => n = 9) /\ (running.script = "down1" => n = 5)
  BY UpStatements, DownStatements
<1> HIDE DEF n
<1>5. at = n + 1
  BY <1>2, <1>3
<1> QED
  BY <1>2, <1>4, <1>5
-----------------------------------------------------------------------------
(* What a statement makes of the database. *)

LEMMA ApplyCreate ==
  ASSUME NEW t \in Tables, Apply(Create(t))
  PROVE  /\ tables' = tables \cup {t} /\ rows' = rows
         /\ check' = IF t = "decisions" /\ "decisions" \notin tables
                     THEN [c \in Columns |-> "known"] ELSE check
<1>1. Create(t).do = "create" /\ Create(t).on = t /\ Create(t) # Drop("decisions")
      /\ (Create(t) = Create("decisions") <=> t = "decisions")
  BY DEF Create, Drop, Statement
<1> QED
  BY <1>1 DEF Apply

LEMMA ApplyDrop ==
  ASSUME NEW t \in Tables, Apply(Drop(t))
  PROVE  /\ tables' = tables \ {t}
         /\ rows' = IF t = "decisions" THEN {} ELSE rows
         /\ check' = IF t = "decisions" THEN [c \in Columns |-> "none"] ELSE check
<1>1. Drop(t).do = "drop" /\ Drop(t).on = t /\ Drop(t) # Create("decisions")
      /\ (Drop(t) = Drop("decisions") <=> t = "decisions")
  BY DEF Create, Drop, Statement
<1> QED
  BY <1>1 DEF Apply

LEMMA ApplyDropCheck ==
  ASSUME NEW c \in Columns, Apply(DropCheck(c))
  PROVE  UNCHANGED <<tables, rows>> /\ check' = [check EXCEPT ![c] = "none"]
<1>1. DropCheck(c).do = "dropCheck" /\ DropCheck(c).on = c
      /\ DropCheck(c) # Create("decisions") /\ DropCheck(c) # Drop("decisions")
  BY DEF Create, Drop, DropCheck, Statement
<1> QED
  BY <1>1 DEF Apply

LEMMA ApplyAddCheck ==
  ASSUME NEW c \in Columns, NEW to, Apply(AddCheck(c, to))
  PROVE  UNCHANGED <<tables, rows>> /\ check' = [check EXCEPT ![c] = to]
<1>1. AddCheck(c, to).do = "addCheck" /\ AddCheck(c, to).on = c /\ AddCheck(c, to).to = to
      /\ AddCheck(c, to) # Create("decisions") /\ AddCheck(c, to) # Drop("decisions")
  BY DEF Create, Drop, AddCheck, Statement
<1> QED
  BY <1>1 DEF Apply

\* The kinds of statements there are.
Statements == {Create(t) : t \in Tables} \cup {Drop(t) : t \in Tables}
              \cup {DropCheck(c) : c \in Columns}
              \cup {AddCheck(c, to) : c \in Columns, to \in {"known", "unknownToo"}}

LEMMA StatementKind ==
  ASSUME TypeOK, Started
  PROVE  statement \in Statements
<1> USE DEF Tables, Columns, Statements
<1>1. \A i \in 1 .. 5 : InitUp[i] \in Statements /\ InitDown[i] \in Statements
  BY DEF InitUp, InitDown
<1>2. \A i \in 1 .. 4 : UnknownUp[i] \in Statements /\ UnknownDown[i] \in Statements
  BY DEF UnknownUp, UnknownDown
<1> HIDE DEF Statements
<1>3. at \in 1 .. 4 \/ at = 5 \/ at \in 6 .. 9
  BY AtStatement
<1>4. CASE running.script = "up"
  <2>1. CASE at \in 1 .. 5
    BY <1>1, <1>4, <2>1, UpStatements DEF statement
  <2>2. CASE at \in 6 .. 9
    <3>1. at - 5 \in 1 .. 4 /\ statement = UnknownUp[at - 5]
      BY <1>4, <2>2, UpStatements DEF statement
    <3> QED
      BY <1>2, <3>1
  <2> QED
    BY <1>3, <2>1, <2>2
<1>5. CASE running.script = "down2"
  BY <1>2, <1>5, AtStatement, DownStatements DEF statement
<1>6. CASE running.script = "down1"
  BY <1>1, <1>6, AtStatement, DownStatements DEF statement
<1> QED
  BY <1>4, <1>5, <1>6, AtStatement
-----------------------------------------------------------------------------
(* A statement and the rows on record. *)

LEMMA ExecuteEffect ==
  ASSUME TypeOK, ExecuteStatement
  PROVE  /\ Started /\ statement \in Statements
         /\ \A w \in Writers : Locks(statement) \notin LockedBy(w)
         /\ UNCHANGED <<running, completed, serving, downgraded, writer>> /\ asked' = FALSE
         /\ \/ /\ Works(statement) /\ Apply(statement) /\ failed' = failed /\ at' = at + 1
            \/ ~Works(statement) /\ failed' = TRUE /\ UNCHANGED database
         /\ at' \in 1 .. Len(Script(running.script)) + 1
<1>1. /\ Started /\ \A w \in Writers : Locks(statement) \notin LockedBy(w)
      /\ UNCHANGED <<running, completed, serving, downgraded, writer>> /\ asked' = FALSE
      /\ \/ /\ Works(statement) /\ Apply(statement) /\ failed' = failed /\ at' = at + 1
         \/ /\ ~Works(statement) /\ failed' = TRUE /\ UNCHANGED database
            /\ at' = IF running.stops THEN Len(Script(running.script)) + 1 ELSE at + 1
  BY DEF ExecuteStatement, Execute
<1>2. Len(Script(running.script)) \in Nat /\ at \in Nat /\ at >= 1
  BY <1>1, AtStatement, UpStatements, DownStatements
<1>3. at <= Len(Script(running.script))
  BY <1>1 DEF Started
<1> DEFINE n == Len(Script(running.script))
<1>4. at' = n + 1 \/ at' = at + 1
  BY <1>1
<1>5. n \in Nat /\ at <= n
  BY <1>2, <1>3
<1> HIDE DEF n
<1>6. at' \in 1 .. n + 1
  BY <1>2, <1>4, <1>5
<1> QED
  BY <1>1, <1>6, StatementKind DEF n

\* A transaction that holds the decisions table is not there while a statement changes it.
LEMMA ExecuteSchema ==
  ASSUME TypeOK, RowsFitChecks, ExecuteStatement
  PROVE  TypeOK' /\ RowsFitChecks'
<1>0. /\ tables \subseteq Tables /\ check \in [Columns -> {"none", "known", "unknownToo"}]
      /\ rows \subseteq [Columns -> {"known", "UNKNOWN"}]
  BY DEF TypeOK
<1>1. /\ Started /\ statement \in Statements
      /\ \A w \in Writers : Locks(statement) \notin LockedBy(w)
      /\ UNCHANGED <<running, completed, serving, downgraded, writer>> /\ asked' = FALSE
      /\ \/ Works(statement) /\ Apply(statement) /\ failed' = failed
         \/ ~Works(statement) /\ failed' = TRUE /\ UNCHANGED database
      /\ at' \in 1 .. Len(Script(running.script)) + 1
  BY ExecuteEffect
<1>2. \A w \in Writers : LockedBy(w)' = LockedBy(w)
  BY <1>1 DEF LockedBy
<1>3. ASSUME /\ tables' \subseteq Tables /\ check' \in [Columns -> {"none", "known", "unknownToo"}]
             /\ rows' \subseteq [Columns -> {"known", "UNKNOWN"}]
      PROVE  TypeOK'
  BY <1>1, <1>3 DEF TypeOK, Started
<1>4. CASE UNCHANGED database
  BY <1>0, <1>1, <1>2, <1>3, <1>4 DEF RowsFitChecks, database
<1>5. CASE Works(statement) /\ Apply(statement)
  <2>1. ASSUME NEW t \in Tables, statement = Create(t) PROVE TypeOK' /\ RowsFitChecks'
    <3>1. /\ tables' = tables \cup {t} /\ rows' = rows
          /\ check' = IF t = "decisions" /\ "decisions" \notin tables
                      THEN [c \in Columns |-> "known"] ELSE check
      BY <1>5, <2>1, ApplyCreate
    <3>2. \A w \in Writers : t \notin LockedBy(w)
      BY <1>1, <2>1 DEF Locks, Create, Statement
    <3>3. TypeOK'
      BY <1>0, <1>3, <3>1
    <3>4. RowsFitChecks'
      BY <1>1, <1>2, <3>1, <3>2 DEF RowsFitChecks
    <3> QED
      BY <3>3, <3>4
  <2>2. ASSUME NEW t \in Tables, statement = Drop(t) PROVE TypeOK' /\ RowsFitChecks'
    <3>1. /\ tables' = tables \ {t} /\ rows' = IF t = "decisions" THEN {} ELSE rows
          /\ check' = IF t = "decisions" THEN [c \in Columns |-> "none"] ELSE check
      BY <1>5, <2>2, ApplyDrop
    <3>2. \A w \in Writers : t \notin LockedBy(w)
      BY <1>1, <2>2 DEF Locks, Drop, Statement
    <3>3. TypeOK'
      BY <1>0, <1>3, <3>1
    <3>4. RowsFitChecks'
      BY <1>1, <1>2, <3>1, <3>2 DEF RowsFitChecks
    <3> QED
      BY <3>3, <3>4
  <2>3. ASSUME NEW c \in Columns, statement = DropCheck(c) PROVE TypeOK' /\ RowsFitChecks'
    <3>1. UNCHANGED <<tables, rows>> /\ check' = [check EXCEPT ![c] = "none"]
      BY <1>5, <2>3, ApplyDropCheck
    <3>2. TypeOK'
      BY <1>0, <1>3, <3>1
    <3>3. RowsFitChecks'
      BY <1>0, <1>1, <1>2, <3>1 DEF RowsFitChecks, Admits
    <3> QED
      BY <3>2, <3>3
  <2>4. ASSUME NEW c \in Columns, NEW to \in {"known", "unknownToo"},
               statement = AddCheck(c, to)
        PROVE  TypeOK' /\ RowsFitChecks'
    <3>1. UNCHANGED <<tables, rows>> /\ check' = [check EXCEPT ![c] = to]
      BY <1>5, <2>4, ApplyAddCheck
    <3>2. /\ \A w \in Writers : "decisions" \notin LockedBy(w)
          /\ \A r \in rows : Admits(to, r[c])
      BY <1>1, <1>5, <2>4 DEF Locks, Works, AddCheck, Statement
    <3>3. TypeOK'
      BY <1>0, <1>3, <3>1
    <3>4. RowsFitChecks'
      BY <1>0, <1>1, <1>2, <3>1, <3>2 DEF RowsFitChecks
    <3> QED
      BY <3>3, <3>4
  <2> QED
    BY <1>1, <2>1, <2>2, <2>3, <2>4 DEF Statements
<1> QED
  BY <1>1, <1>4, <1>5
-----------------------------------------------------------------------------
(* How far a script is. *)

LEMMA TablesInOrder ==
  /\ InitUp[1].on = "policies" /\ InitUp[2].on = "roles" /\ InitUp[3].on = "capabilities"
  /\ InitUp[4].on = "decisions" /\ InitUp[5].on = "outbox"
  /\ InitDown[1].on = "outbox" /\ InitDown[2].on = "decisions"
  /\ InitDown[3].on = "capabilities" /\ InitDown[4].on = "roles" /\ InitDown[5].on = "policies"
  /\ \A i \in 1 .. 5 : /\ InitUp[i] = Create(InitUp[i].on) /\ InitUp[i].on \in Tables
                       /\ InitDown[i] = Drop(InitDown[i].on) /\ InitDown[i].on \in Tables
<1>1. /\ InitUp[1] = Create("policies") /\ InitUp[2] = Create("roles")
      /\ InitUp[3] = Create("capabilities") /\ InitUp[4] = Create("decisions")
      /\ InitUp[5] = Create("outbox")
  BY DEF InitUp
<1>2. /\ InitDown[1] = Drop("outbox") /\ InitDown[2] = Drop("decisions")
      /\ InitDown[3] = Drop("capabilities") /\ InitDown[4] = Drop("roles")
      /\ InitDown[5] = Drop("policies")
  BY DEF InitDown
<1>3. \A t : Create(t).on = t /\ Drop(t).on = t
  BY DEF Create, Drop, Statement
<1>4. /\ InitUp[1].on = "policies" /\ InitUp[2].on = "roles" /\ InitUp[3].on = "capabilities"
      /\ InitUp[4].on = "decisions" /\ InitUp[5].on = "outbox"
      /\ InitDown[1].on = "outbox" /\ InitDown[2].on = "decisions"
      /\ InitDown[3].on = "capabilities" /\ InitDown[4].on = "roles"
      /\ InitDown[5].on = "policies"
  BY <1>1, <1>2, <1>3, Zenon
<1>5. ASSUME NEW i \in 1 .. 5
      PROVE  /\ InitUp[i] = Create(InitUp[i].on) /\ InitUp[i].on \in Tables
             /\ InitDown[i] = Drop(InitDown[i].on) /\ InitDown[i].on \in Tables
  <2>1. i = 1 \/ i = 2 \/ i = 3 \/ i = 4 \/ i = 5
    OBVIOUS
  <2>2. {"policies", "roles", "capabilities", "decisions", "outbox"} = Tables
    BY DEF Tables
  <2> QED
    BY <1>1, <1>2, <1>4, <2>1, <2>2
<1> QED
  BY <1>4, <1>5, Zenon

\* Each statement of an up finds what it needs.
LEMMA UpExecute ==
  ASSUME MigrationsInv, ExecuteStatement, running.script = "up"
  PROVE  /\ UpProgress'
         /\ serving /\ ~downgraded =>
              {"decisions", "outbox"} \subseteq tables' /\ \A c \in Columns : check'[c] # "known"
<1> DEFINE Served ==
      serving /\ ~downgraded =>
        {"decisions", "outbox"} \subseteq tables' /\ \A c \in Columns : check'[c] # "known"
<1>1. /\ TypeOK /\ RowsFitChecks /\ UpProgress /\ ServedSchema
      /\ check \in [Columns -> {"none", "known", "unknownToo"}]
      /\ rows \subseteq [Columns -> {"known", "UNKNOWN"}]
  BY DEF MigrationsInv, TypeOK
<1>2. at \in Nat /\ at >= 1 /\ at <= 9
  BY <1>1, AtStatement, ExecuteEffect
<1>3. /\ running' = running
      /\ \/ Works(statement) /\ Apply(statement) /\ failed' = failed /\ at' = at + 1
         \/ ~Works(statement)
  BY <1>1, ExecuteEffect
<1>4. /\ ~failed /\ (at > 1 => "policies" \in tables) /\ (at > 2 => "roles" \in tables)
      /\ (at > 3 => "capabilities" \in tables) /\ (at > 4 => "decisions" \in tables)
      /\ (at > 5 => "outbox" \in tables)
  BY <1>1, TablesInOrder DEF UpProgress
<1>5. CASE at <= 5
  <2>1. at \in 1 .. 5
    BY <1>2, <1>5
  <2> DEFINE t == InitUp[at].on
  <2>2. statement = Create(t) /\ t \in Tables
    BY <2>1, UpStatements, TablesInOrder DEF statement
  <2>3. References(t) \subseteq tables
    BY <1>2, <1>4, <2>1, TablesInOrder DEF References
  <2>4. Works(statement)
    BY <2>2, <2>3 DEF Works, Create, Statement
  <2>5. /\ tables' = tables \cup {t}
        /\ check' = IF t = "decisions" /\ "decisions" \notin tables
                    THEN [c \in Columns |-> "known"] ELSE check
    BY <1>3, <2>2, <2>4, ApplyCreate
  <2>6. failed' = failed /\ at' = at + 1
    BY <1>3, <2>4
  <2>7. \A i \in 1 .. 5 : at' > i => InitUp[i].on \in tables'
    <3> SUFFICES ASSUME NEW i \in 1 .. 5, at' > i PROVE InitUp[i].on \in tables'
      OBVIOUS
    <3>1. CASE i = at
      BY <2>5, <3>1
    <3>2. CASE i < at
      BY <1>1, <1>2, <2>5, <3>2 DEF UpProgress
    <3> QED
      BY <1>2, <2>6, <3>1, <3>2
  <2>8. UpProgress'
    BY <1>2, <1>4, <1>5, <2>6, <2>7 DEF UpProgress
  <2>9. Served
    BY <1>1, <2>5 DEF ServedSchema
  <2> QED
    BY <2>8, <2>9
<1>6. CASE at > 5
  <2> USE DEF Columns
  <2>1. at \in 6 .. 9 /\ statement = UnknownUp[at - 5]
    BY <1>2, <1>6, UpStatements DEF statement
  <2>2. \/ at = 6 /\ statement = DropCheck("target")
        \/ at = 7 /\ statement = AddCheck("target", "unknownToo")
        \/ at = 8 /\ statement = DropCheck("method")
        \/ at = 9 /\ statement = AddCheck("method", "unknownToo")
    <3>1. at = 6 \/ at = 7 \/ at = 8 \/ at = 9
      BY <2>1
    <3> QED
      BY <2>1, <3>1 DEF UnknownUp
  <2>3. /\ at = 7 => check["target"] = "none"
        /\ at > 7 => check["target"] = "unknownToo"
        /\ at = 9 => check["method"] = "none"
    BY <1>1 DEF UpProgress
  <2>4. \A r \in rows, c \in Columns : Admits("unknownToo", r[c])
    BY <1>1 DEF Admits
  <2>5. Works(statement)
    <3>1. "decisions" \in tables
      BY <1>2, <1>4, <1>6
    <3>2. CASE statement = DropCheck("target") \/ statement = DropCheck("method")
      <4>1. DropCheck("target").do = "dropCheck" /\ DropCheck("method").do = "dropCheck"
        BY DEF DropCheck, Statement
      <4> QED
        BY <3>1, <3>2, <4>1 DEF Works
    <3>3. CASE statement = AddCheck("target", "unknownToo") /\ at = 7
      BY <2>3, <2>4, <3>1, <3>3 DEF Works, AddCheck, Statement
    <3>4. CASE statement = AddCheck("method", "unknownToo") /\ at = 9
      BY <2>3, <2>4, <3>1, <3>4 DEF Works, AddCheck, Statement
    <3> QED
      BY <2>2, <3>2, <3>3, <3>4
  <2>6. failed' = failed /\ at' = at + 1 /\ Apply(statement)
    BY <1>3, <2>5
  <2>7. /\ tables' = tables
        /\ at = 6 => check' = [check EXCEPT !["target"] = "none"]
        /\ at = 7 => check' = [check EXCEPT !["target"] = "unknownToo"]
        /\ at = 8 => check' = [check EXCEPT !["method"] = "none"]
        /\ at = 9 => check' = [check EXCEPT !["method"] = "unknownToo"]
    BY <2>2, <2>6, ApplyDropCheck, ApplyAddCheck
  <2>8. \A i \in 1 .. 5 : at' > i => InitUp[i].on \in tables'
    BY <1>1, <1>2, <1>6, <2>6, <2>7 DEF UpProgress
  <2>9. /\ at' = 7 => check'["target"] = "none"
        /\ at' > 7 => check'["target"] = "unknownToo"
        /\ at' = 9 => check'["method"] = "none"
        /\ at' > 9 => check'["method"] = "unknownToo"
    BY <1>1, <2>1, <2>3, <2>6, <2>7
  <2>10. UpProgress'
    BY <1>4, <2>6, <2>8, <2>9 DEF UpProgress
  <2>11. Served
    BY <1>1, <2>2, <2>7 DEF ServedSchema
  <2> QED
    BY <2>10, <2>11
<1> QED
  BY <1>2, <1>5, <1>6

\* No table is dropped before those that refer to it.
LEMMA DownExecute ==
  ASSUME MigrationsInv, ExecuteStatement, running.script = "down1" PROVE DownProgress'
<1>1. TypeOK /\ DownProgress /\ tables \subseteq Tables
  BY DEF MigrationsInv, TypeOK
<1>2. at \in 1 .. 5
  BY <1>1, AtStatement, ExecuteEffect
<1>3. /\ running' = running
      /\ \/ Works(statement) /\ Apply(statement) /\ at' = at + 1
         \/ ~Works(statement)
  BY <1>1, ExecuteEffect
<1> DEFINE t == InitDown[at].on
<1>4. statement = Drop(t) /\ t \in Tables
  BY <1>2, DownStatements, TablesInOrder DEF statement
<1>5. at = 5 => tables \cap {"roles", "capabilities", "decisions"} = {}
  BY <1>1, <1>2, TablesInOrder DEF DownProgress
<1>6. t = "policies" => at = 5
  BY <1>2, TablesInOrder
<1>7. Works(statement)
  BY <1>1, <1>4, <1>5, <1>6 DEF Works, References, Drop, Statement, Tables
<1>8. tables' = tables \ {t} /\ at' = at + 1
  BY <1>3, <1>4, <1>7, ApplyDrop
<1>9. \A i \in 1 .. 5 : at' > i => InitDown[i].on \notin tables'
  <2> SUFFICES ASSUME NEW i \in 1 .. 5, at' > i PROVE InitDown[i].on \notin tables'
    OBVIOUS
  <2>1. CASE i = at
    BY <1>8, <2>1
  <2>2. CASE i < at
    BY <1>1, <1>8, <2>2 DEF DownProgress
  <2> QED
    BY <1>2, <1>8, <2>1, <2>2
<1> QED
  BY <1>9 DEF DownProgress
-----------------------------------------------------------------------------
(* The steps. *)

LEMMA ExecuteStep == ASSUME MigrationsInv, ExecuteStatement PROVE MigrationsInv'
<1>1. TypeOK /\ RowsFitChecks /\ ServedSchema /\ ScriptsComplete
  BY DEF MigrationsInv
<1>2. /\ running # Nothing /\ running \in Procedures
      /\ UNCHANGED <<running, completed, serving, downgraded, writer>>
  BY <1>1, ExecuteEffect, AtStatement DEF Started
<1>3. UpProgress'
  BY <1>2, UpExecute DEF UpProgress
<1>4. DownProgress'
  BY <1>2, DownExecute DEF DownProgress
<1>5. ServedSchema'
  BY <1>1, <1>2, UpExecute, AtStatement, ExecuteEffect DEF ServedSchema
<1>6. ScriptsComplete'
  BY <1>1, <1>2 DEF ScriptsComplete
<1> QED
  BY <1>1, <1>3, <1>4, <1>5, <1>6, ExecuteSchema DEF MigrationsInv

\* A script that is at its end has done all it is for.
LEMMA EndStep == ASSUME MigrationsInv, End PROVE MigrationsInv'
<1>1. TypeOK /\ RowsFitChecks /\ UpProgress /\ DownProgress /\ ServedSchema /\ ScriptsComplete
  BY DEF MigrationsInv
<1>2. /\ running # Nothing /\ running' = Nothing /\ at' = 1 /\ asked' = FALSE /\ failed' = FALSE
      /\ UNCHANGED <<tables, check, rows, serving, writer>>
      /\ completed' \in {"none", running.script}
      /\ downgraded' = (downgraded /\ completed' # "up")
  BY DEF End, Cease, database
<1>3. running \in Procedures /\ running.script \in {"up", "down2", "down1"}
  BY <1>1, <1>2, MigrationsAssumption DEF TypeOK
<1>4. running.script = "up" =>
        /\ tables = Tables /\ \A c \in Columns : check[c] = "unknownToo"
        /\ completed' = "up"
  <2> SUFFICES ASSUME running.script = "up"
               PROVE  /\ tables = Tables /\ \A c \in Columns : check[c] = "unknownToo"
                      /\ completed' = "up"
    OBVIOUS
  <2>1. at = 10
    BY <1>1, <1>2, AtEnd DEF End
  <2>2. tables = Tables
    <3>1. \A i \in 1 .. 5 : InitUp[i].on \in tables
      BY <1>1, <2>1 DEF UpProgress
    <3>2. {"policies", "roles", "capabilities", "decisions", "outbox"} \subseteq tables
      BY <3>1, TablesInOrder
    <3> QED
      BY <1>1, <3>2 DEF TypeOK, Tables
  <2>3. \A c \in Columns : check[c] = "unknownToo"
    BY <1>1, <2>1 DEF UpProgress, Columns
  <2>4. completed' = "up"
    BY <1>1 DEF End, UpProgress
  <2> QED
    BY <2>2, <2>3, <2>4
<1>5. running.script = "down1" => tables = {}
  <2> SUFFICES ASSUME running.script = "down1" PROVE tables = {}
    OBVIOUS
  <2>1. at = 6
    BY <1>1, <1>2, AtEnd DEF End
  <2>2. \A i \in 1 .. 5 : InitDown[i].on \notin tables
    BY <1>1, <2>1 DEF DownProgress
  <2> QED
    BY <1>1, <2>2, TablesInOrder DEF TypeOK, Tables
<1>6. TypeOK'
  <2>1. Nothing.script = "none" /\ Len(Script("none")) = 0
    BY DownStatements DEF Nothing
  <2>2. downgraded' \in BOOLEAN /\ completed' \in {"none", "up", "down2", "down1"}
    BY <1>2, <1>3
  <2>3. at' \in 1 .. Len(Script(running'.script)) + 1
    BY <1>2, <2>1
  <2> QED
    BY <1>1, <1>2, <2>2, <2>3 DEF TypeOK
<1>7. RowsFitChecks'
  BY <1>1, <1>2 DEF RowsFitChecks, LockedBy
<1>8. UpProgress' /\ DownProgress'
  BY <1>2 DEF UpProgress, DownProgress, Nothing
<1>9. ServedSchema'
  BY <1>1, <1>2, <1>3, <1>4 DEF ServedSchema, Nothing, Tables
<1>10. ScriptsComplete'
  BY <1>2, <1>3, <1>4, <1>5 DEF ScriptsComplete
<1> QED
  BY <1>6, <1>7, <1>8, <1>9, <1>10 DEF MigrationsInv

\* The other steps of psql, and the start of the service.
LEMMA PsqlSteps ==
  ASSUME MigrationsInv,
         (\E p \in Procedures : Begin(p)) \/ AskForLock \/ Interrupt \/ Serve \/ UNCHANGED vars
  PROVE  MigrationsInv'
<1>1. TypeOK /\ RowsFitChecks /\ UpProgress /\ DownProgress /\ ServedSchema /\ ScriptsComplete
  BY DEF MigrationsInv
<1>2. ASSUME NEW p \in Procedures, Begin(p) PROVE MigrationsInv'
  <2>1. /\ running = Nothing /\ at = 1 /\ running' = p /\ completed' = "none"
        /\ downgraded' = (downgraded \/ p.script # "up")
        /\ UNCHANGED <<tables, check, rows, at, asked, failed, serving, writer>>
    BY <1>1, <1>2 DEF Begin, database, TypeOK
  <2>2. ~failed
    BY <1>1, <2>1 DEF TypeOK
  <2>3. p.script \in {"up", "down2", "down1"}
    BY MigrationsAssumption
  <2>4. TypeOK'
    <3>1. Len(Script(p.script)) \in Nat
      BY <2>3, UpStatements, DownStatements
    <3>2. at' \in 1 .. Len(Script(running'.script)) + 1
      BY <2>1, <3>1
    <3>3. p # Nothing /\ downgraded' \in BOOLEAN
      BY <1>1, <2>1, <2>3 DEF Nothing, TypeOK
    <3> QED
      BY <1>1, <2>1, <3>2, <3>3 DEF TypeOK
  <2>5. RowsFitChecks'
    BY <1>1, <2>1 DEF RowsFitChecks, LockedBy
  <2>6. UpProgress' /\ DownProgress'
    BY <2>1, <2>2 DEF UpProgress, DownProgress
  <2>7. ServedSchema' /\ ScriptsComplete'
    BY <1>1, <2>1 DEF ServedSchema, ScriptsComplete
  <2> QED
    BY <2>4, <2>5, <2>6, <2>7 DEF MigrationsInv
<1>3. CASE AskForLock
  <2>1. UNCHANGED <<tables, check, rows, running, at, failed, completed, serving, downgraded, writer>>
        /\ asked' = TRUE
    BY <1>3 DEF AskForLock, database
  <2> QED
    BY <1>1, <2>1 DEF MigrationsInv, TypeOK, RowsFitChecks, LockedBy, UpProgress, DownProgress,
                      ServedSchema, ScriptsComplete
<1>4. CASE Interrupt
  <2>1. /\ running' = Nothing /\ at' = 1 /\ asked' = FALSE /\ failed' = FALSE
        /\ UNCHANGED <<tables, check, rows, serving, writer, completed, downgraded>>
    BY <1>4 DEF Interrupt, Cease, database
  <2>2. TypeOK'
    <3>1. at' \in 1 .. Len(Script(running'.script)) + 1
      BY <2>1, DownStatements DEF Nothing
    <3> QED
      BY <1>1, <2>1, <3>1 DEF TypeOK
  <2> QED
    BY <1>1, <2>1, <2>2 DEF MigrationsInv, RowsFitChecks, LockedBy, UpProgress, DownProgress,
                            ServedSchema, ScriptsComplete, Nothing
<1>5. CASE Serve
  <2>1. serving' = TRUE /\ completed = "up" /\ UNCHANGED <<database, psql, writer>>
    BY <1>5 DEF Serve
  <2>2. tables = Tables /\ \A c \in Columns : check[c] = "unknownToo"
    BY <1>1, <2>1 DEF ScriptsComplete
  <2>3. ServedSchema'
    BY <1>1, <2>1, <2>2 DEF ServedSchema, Tables, database, psql
  <2> QED
    BY <1>1, <2>1, <2>3 DEF MigrationsInv, TypeOK, RowsFitChecks, LockedBy, UpProgress,
                            DownProgress, ScriptsComplete, database, psql
<1>6. CASE UNCHANGED vars
  BY <1>1, <1>6 DEF MigrationsInv, TypeOK, RowsFitChecks, LockedBy, UpProgress, DownProgress,
                    ServedSchema, ScriptsComplete, vars, database, psql
<1> QED
  BY <1>2, <1>3, <1>4, <1>5, <1>6
-----------------------------------------------------------------------------
(* The transactions of the service. *)

LEMMA RecordedType ==
  ASSUME NEW i \in Inputs PROVE Recorded(i) \in [Columns -> {"known", "UNKNOWN"}]
BY DEF Recorded

\* A transaction's step, from a row it may hold.
LEMMA WritesStep ==
  ASSUME MigrationsInv, NEW w \in Writers, NEW new, Writes(w, new),
         UNCHANGED <<tables, check>>, new = Idle \/ serving,
         new = Idle \/ new \in [pc : {"inserted", "audited", "failing", "refused"},
                                row : [Columns -> {"known", "UNKNOWN"}]],
         new.pc \in {"inserted", "audited", "failing"} =>
           "decisions" \in tables /\ \A c \in Columns : Admits(check[c], new.row[c]),
         rows' = rows \/ (rows' = rows \cup {writer[w].row} /\ writer[w].pc = "audited")
  PROVE  MigrationsInv'
<1>1. TypeOK /\ RowsFitChecks /\ UpProgress /\ DownProgress /\ ServedSchema /\ ScriptsComplete
  BY DEF MigrationsInv
<1>2. /\ writer' = [writer EXCEPT ![w] = new]
      /\ UNCHANGED <<running, at, asked, failed, completed, downgraded, serving>>
  BY DEF Writes, psql
<1>3. /\ writer \in [Writers -> {Idle} \cup
                      [pc : {"inserted", "audited", "failing", "refused"},
                       row : [Columns -> {"known", "UNKNOWN"}]]]
      /\ rows \subseteq [Columns -> {"known", "UNKNOWN"}]
  BY <1>1 DEF TypeOK
<1>4. writer[w].pc = "audited" =>
        /\ writer[w].row \in [Columns -> {"known", "UNKNOWN"}] /\ "decisions" \in tables
        /\ \A c \in Columns : Admits(check[c], writer[w].row[c])
  <2>1. writer[w].pc = "audited" => "decisions" \in LockedBy(w)
    BY DEF LockedBy
  <2>2. writer[w].pc = "audited" => writer[w] # Idle
    BY DEF Idle
  <2> QED
    <3>1. writer[w].pc = "audited" => writer[w].row \in [Columns -> {"known", "UNKNOWN"}]
      BY <1>3, <2>2
    <3>2. writer[w].pc = "audited" =>
            "decisions" \in tables /\ \A c \in Columns : Admits(check[c], writer[w].row[c])
      BY <1>1, <2>1, Zenon DEF RowsFitChecks, Columns
    <3> QED
      BY <3>1, <3>2
<1>5. writer' \in [Writers -> {Idle} \cup
                   [pc : {"inserted", "audited", "failing", "refused"},
                    row : [Columns -> {"known", "UNKNOWN"}]]]
  BY <1>2, <1>3
<1>6. rows' \subseteq [Columns -> {"known", "UNKNOWN"}]
  BY <1>3, <1>4
<1>7. TypeOK'
  BY <1>1, <1>2, <1>5, <1>6 DEF TypeOK
<1>8. RowsFitChecks'
  <2>1. /\ "decisions" \notin tables => rows' = {}
        /\ \A r \in rows', c \in Columns : Admits(check[c], r[c])
    BY <1>1, <1>4 DEF RowsFitChecks
  <2>2. ASSUME NEW v \in Writers, NEW c \in Columns, "decisions" \in LockedBy(v)'
        PROVE  "decisions" \in tables /\ Admits(check[c], writer'[v].row[c])
    <3>1. CASE v = w
      <4>1. writer'[v] = new
        BY <1>2, <1>3, <3>1
      <4>2. new.pc \in {"inserted", "audited", "failing"}
        BY <2>2, <4>1 DEF LockedBy
      <4> QED
        BY <4>1, <4>2
    <3>2. CASE v # w
      <4>1. writer'[v] = writer[v]
        BY <1>2, <1>3, <3>2
      <4>2. "decisions" \in LockedBy(v)
        BY <2>2, <4>1 DEF LockedBy
      <4> QED
        BY <1>1, <4>1, <4>2 DEF RowsFitChecks
    <3> QED
      BY <3>1, <3>2
  <2> QED
    BY <2>1, <2>2 DEF RowsFitChecks, Admits
<1>9. UpProgress' /\ DownProgress' /\ ScriptsComplete'
  BY <1>1, <1>2 DEF UpProgress, DownProgress, ScriptsComplete
<1>10. ServedSchema'
  <2>1. \A v \in Writers : writer'[v] # Idle => serving
    BY <1>1, <1>2, <1>3 DEF ServedSchema
  <2> QED
    BY <1>1, <1>2, <2>1 DEF ServedSchema, Idle
<1> QED
  BY <1>7, <1>8, <1>9, <1>10 DEF MigrationsInv

LEMMA InsertStep ==
  ASSUME MigrationsInv, NEW w \in Writers, NEW i \in Inputs,
         InsertDecision(w, Recorded(i)) \/ InsertRefused(w, Recorded(i))
  PROVE  MigrationsInv'
<1> DEFINE row == Recorded(i)
<1>1. row \in [Columns -> {"known", "UNKNOWN"}]
  BY RecordedType
<1> HIDE DEF row
<1>2. CASE InsertDecision(w, row)
  <2> DEFINE new == [pc |-> "inserted", row |-> row]
  <2>1. Writes(w, new) /\ UNCHANGED <<tables, check, rows>> /\ Accepted(row) /\ serving
    BY <1>2 DEF InsertDecision, database
  <2>2. new.pc = "inserted" /\ new.row = row
        /\ new \in [pc : {"inserted", "audited", "failing", "refused"},
                    row : [Columns -> {"known", "UNKNOWN"}]]
    BY <1>1
  <2> HIDE DEF new
  <2> QED
    BY <2>1, <2>2, WritesStep DEF Accepted
<1>3. CASE InsertRefused(w, row)
  <2> DEFINE new == [pc |-> "refused", row |-> row]
  <2>1. Writes(w, new) /\ UNCHANGED <<tables, check, rows>> /\ serving
    BY <1>3 DEF InsertRefused, database
  <2>2. new.pc = "refused"
        /\ new \in [pc : {"inserted", "audited", "failing", "refused"},
                    row : [Columns -> {"known", "UNKNOWN"}]]
    BY <1>1
  <2> HIDE DEF new
  <2> QED
    BY <2>1, <2>2, WritesStep
<1> QED
  BY <1>2, <1>3 DEF row

LEMMA ContinueStep ==
  ASSUME MigrationsInv, NEW w \in Writers, Continue(w) \/ AuditFails(w) PROVE MigrationsInv'
<1>1. Idle.pc = "idle" /\ RowsFitChecks
  BY DEF Idle, MigrationsInv
<1>2. CASE InsertAudit(w) \/ AuditRefused(w) \/ AuditFails(w)
  <2>1. PICK pc \in {"audited", "refused", "failing"} : Writes(w, [writer[w] EXCEPT !.pc = pc])
    BY <1>2 DEF InsertAudit, AuditRefused, AuditFails
  <2> DEFINE new == [writer[w] EXCEPT !.pc = pc]
  <2>2. writer[w].pc = "inserted" /\ UNCHANGED <<tables, check, rows>>
    BY <1>2 DEF InsertAudit, AuditRefused, AuditFails, database
  <2>3. writer[w] \in [pc : {"inserted", "audited", "failing", "refused"},
                       row : [Columns -> {"known", "UNKNOWN"}]]
    BY <1>1, <2>2 DEF MigrationsInv, TypeOK
  <2>4. new.row = writer[w].row
        /\ new \in [pc : {"inserted", "audited", "failing", "refused"},
                    row : [Columns -> {"known", "UNKNOWN"}]]
    BY <2>3
  <2>5. "decisions" \in LockedBy(w)
    BY <2>2 DEF LockedBy
  <2>6. "decisions" \in tables /\ \A c \in Columns : Admits(check[c], writer[w].row[c])
    BY <1>1, <2>5 DEF RowsFitChecks, Columns
  <2>7. Writes(w, new) /\ serving
    BY <2>1, <2>2 DEF MigrationsInv, ServedSchema, Idle
  <2> HIDE DEF new
  <2> QED
    BY <2>2, <2>4, <2>6, <2>7, WritesStep
<1>3. CASE Commit(w)
  <2>1. Writes(w, Idle) /\ UNCHANGED <<tables, check>>
        /\ rows' = rows \cup {writer[w].row} /\ writer[w].pc = "audited"
    BY <1>3 DEF Commit
  <2> QED
    BY <1>1, <2>1, WritesStep
<1>4. CASE RollBack(w)
  <2>1. Writes(w, Idle) /\ UNCHANGED <<tables, check, rows>>
    BY <1>4 DEF RollBack, database
  <2> QED
    BY <1>1, <2>1, WritesStep
<1> QED
  BY <1>2, <1>3, <1>4 DEF Continue
-----------------------------------------------------------------------------
LEMMA InitMigrations == Init => MigrationsInv
<1> SUFFICES ASSUME Init PROVE MigrationsInv
  OBVIOUS
<1>1. Nothing.script = "none" /\ Len(Script("none")) = 0 /\ Idle.pc = "idle"
  BY DownStatements DEF Nothing, Idle
<1>2. at \in 1 .. Len(Script(running.script)) + 1
  BY <1>1 DEF Init
<1>3. TypeOK
  BY <1>1, <1>2 DEF Init, TypeOK, Tables, Columns, Idle
<1>4. RowsFitChecks
  BY DEF Init, RowsFitChecks, LockedBy
<1> QED
  BY <1>1, <1>3, <1>4 DEF MigrationsInv, Init, UpProgress, DownProgress, ServedSchema,
                          ScriptsComplete, Idle

LEMMA NextMigrations == MigrationsInv /\ [Next]_vars => MigrationsInv'
<1> SUFFICES ASSUME MigrationsInv, [Next]_vars PROVE MigrationsInv'
  OBVIOUS
<1>1. CASE (\E p \in Procedures : Begin(p)) \/ AskForLock \/ Interrupt \/ Serve \/ UNCHANGED vars
  BY <1>1, PsqlSteps
<1>2. CASE ExecuteStatement
  BY <1>2, ExecuteStep
<1>3. CASE End
  BY <1>3, EndStep
<1>4. ASSUME NEW w \in Writers, Continue(w) \/ AuditFails(w) PROVE MigrationsInv'
  BY <1>4, ContinueStep
<1>5. ASSUME NEW w \in Writers, NEW i \in Inputs,
             InsertDecision(w, Recorded(i)) \/ InsertRefused(w, Recorded(i))
      PROVE  MigrationsInv'
  BY <1>5, InsertStep
<1> QED
  BY <1>1, <1>2, <1>3, <1>4, <1>5 DEF Next, Migrate

\* The invariant of the migrations, for any load beside them.
THEOREM MigrationsHold == Spec => []MigrationsInv
<1> QED
  BY InitMigrations, NextMigrations, PTL DEF Spec

\* What is on record satisfies the checks in force (000002:23).
THEOREM ChecksKept == Spec => []RowsFitChecks
<1>1. MigrationsInv => RowsFitChecks
  BY DEF MigrationsInv
<1> QED
  BY <1>1, MigrationsHold, PTL

\* The ups can be applied at every start, after any scripts and beside the service, by one psql
\* at a time (docker-compose.yml:33).
THEOREM UpsRepeatable == Spec => []UpNeverFails
<1>1. MigrationsInv => UpNeverFails
  BY DEF MigrationsInv, UpProgress, UpNeverFails
<1> QED
  BY <1>1, MigrationsHold, PTL

\* A script that ends has done all it is for, whatever earlier ones left (README "Migrations").
THEOREM ScriptsDoAll == Spec => []ScriptsComplete
<1>1. MigrationsInv => ScriptsComplete
  BY DEF MigrationsInv
<1> QED
  BY <1>1, MigrationsHold, PTL

\* The schema refuses the service nothing until a down is begun (docker-compose.yml:64).
THEOREM ServiceAccepted == Spec => RefusedOnlyDowngraded
<1>1. ASSUME MigrationsInv, [Next]_vars, NEW w \in Writers, writer[w].pc # "refused",
             writer'[w].pc = "refused"
      PROVE  downgraded
  <2>1. ServedSchema /\ TypeOK /\ Idle.pc = "idle"
    BY <1>1 DEF MigrationsInv, Idle
  <2>2. ASSUME NEW v \in Writers, NEW new, Writes(v, new) PROVE v = w /\ new.pc = "refused"
    BY <1>1, <2>1, <2>2 DEF Writes, TypeOK
  <2>3. CASE writer' = writer
    BY <1>1, <2>3
  <2>4. ASSUME NEW v \in Writers, Continue(v) \/ AuditFails(v) PROVE downgraded
    <3>1. CASE AuditRefused(v)
      <4>1. writer[v] # Idle /\ "outbox" \notin tables
        BY <2>1, <3>1 DEF AuditRefused
      <4> QED
        BY <2>1, <4>1 DEF ServedSchema
    <3>2. CASE Commit(v) \/ RollBack(v)
      BY <2>1, <2>2, <3>2 DEF Commit, RollBack
    <3>3. CASE InsertAudit(v) \/ AuditFails(v)
      <4>1. PICK pc \in {"audited", "failing"} : Writes(v, [writer[v] EXCEPT !.pc = pc])
        BY <3>3 DEF InsertAudit, AuditFails
      <4>2. writer[v] # Idle
        BY <2>1, <3>3 DEF InsertAudit, AuditFails
      <4>3. [writer[v] EXCEPT !.pc = pc].pc = pc
        BY <2>1, <4>2 DEF TypeOK
      <4> QED
        BY <2>2, <4>1, <4>3
    <3> QED
      BY <2>4, <3>1, <3>2, <3>3 DEF Continue
  <2>5. ASSUME NEW v \in Writers, NEW i \in Inputs, InsertDecision(v, Recorded(i))
        PROVE  downgraded
    BY <2>2, <2>5 DEF InsertDecision
  <2>6. ASSUME NEW v \in Writers, NEW i \in Inputs, InsertRefused(v, Recorded(i))
        PROVE  downgraded
    <3>1. serving /\ ~Accepted(Recorded(i))
      BY <2>6 DEF InsertRefused
    <3>2. \A c \in Columns : check[c] # "known" => Admits(check[c], Recorded(i)[c])
      BY <2>1, RecordedType DEF Admits, TypeOK
    <3> QED
      BY <2>1, <3>1, <3>2 DEF Accepted, ServedSchema
  <2>7. \/ writer' = writer
        \/ \E v \in Writers : Continue(v) \/ AuditFails(v)
        \/ \E v \in Writers, i \in Inputs : InsertDecision(v, Recorded(i))
                                          \/ InsertRefused(v, Recorded(i))
    BY <1>1 DEF Next, Migrate, Begin, AskForLock, ExecuteStatement, Execute, End, Cease,
                Interrupt, Serve, vars
  <2> QED
    BY <2>3, <2>4, <2>5, <2>6, <2>7
<1>2. MigrationsInv /\ [Next]_vars =>
        [\A w \in Writers : writer[w].pc # "refused" /\ writer'[w].pc = "refused"
                           => downgraded]_vars
  BY <1>1
<1> QED
  BY <1>2, MigrationsHold, PTL DEF Spec, RefusedOnlyDowngraded
=============================================================================
