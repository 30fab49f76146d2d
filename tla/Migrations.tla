------------------------------ MODULE Migrations ------------------------------
(***************************************************************************)
(* The migration scripts, statement by statement: applied, applied again,  *)
(* cut short and reverted while a service records decisions.  psql commits *)
(* every statement by itself; compose makes it stop at the first error,    *)
(* the commands of the README do not.                                      *)
(***************************************************************************)
EXTENDS Naturals, Sequences, FiniteSets

CONSTANTS
  Writers,    \* the service's transactions that record a decision
  Inputs,     \* what clients send: a known target system and method, or another
  Procedures  \* the scripts an operator applies, and whether psql stops at an error

\* The columns whose checks the second migration changes.
Columns == {"target", "method"}

ASSUME MigrationsAssumption ==
  /\ Inputs \subseteq [Columns -> {"known", "other"}]
  /\ Procedures \subseteq [script : {"up", "down2", "down1"}, stops : BOOLEAN]

VARIABLES
  tables,      \* the tables there are
  check,       \* the check on each column: the first or the second migration's, or none
  rows,        \* the rows of exchange_authorization_decisions, by what they record
  running,     \* the procedure psql is working on
  at,          \* its next statement
  asked,       \* psql waits for the statement's lock, and others queue behind it
  failed,      \* a statement of it has failed
  completed,   \* the script psql has just worked through
  serving,     \* the service has been started
  downgraded,  \* a down script has been begun since an up was last completed
  writer       \* each transaction: what it records, and how far it is

database == <<tables, check, rows>>
psql == <<running, at, asked, failed, completed, downgraded>>
vars == <<database, psql, serving, writer>>

Nothing == [script |-> "none", stops |-> FALSE]

Init ==
  /\ tables = {} /\ check = [c \in Columns |-> "none"] /\ rows = {}
  /\ running = Nothing /\ at = 1 /\ asked = FALSE /\ failed = FALSE
  /\ completed = "none"
  /\ serving = FALSE /\ downgraded = FALSE
  /\ writer = [w \in Writers |-> [pc |-> "idle", row |-> {}]]
-----------------------------------------------------------------------------
(* The scripts. *)

Statement(do, on, to) == [do |-> do, on |-> on, to |-> to]
Create(table) == Statement("create", table, "")
Drop(table) == Statement("drop", table, "")
DropCheck(column) == Statement("dropCheck", column, "")
AddCheck(column, to) == Statement("addCheck", column, to)

\* 000001 up; a table comes with its indexes.
InitUp == <<Create("policies"), Create("roles"), Create("capabilities"),
            Create("decisions"), Create("outbox")>>

\* Variant: the parent is dropped first.
InitDownParentFirst == <<Drop("outbox"), Drop("policies"), Drop("decisions"),
                         Drop("capabilities"), Drop("roles")>>

\* 000001 down
InitDown == <<Drop("outbox"), Drop("decisions"), Drop("capabilities"), Drop("roles"),
              Drop("policies")>>

\* Variant: the new check is added before the old one, of the same name, is dropped.
UnknownUpAddingFirst == <<AddCheck("target", "unknownToo"), DropCheck("target"),
                          AddCheck("method", "unknownToo"), DropCheck("method")>>

\* 000002 up
UnknownUp == <<DropCheck("target"), AddCheck("target", "unknownToo"),
               DropCheck("method"), AddCheck("method", "unknownToo")>>

\* 000002 down
UnknownDown == <<DropCheck("target"), AddCheck("target", "known"),
                 DropCheck("method"), AddCheck("method", "known")>>

\* Compose and the README apply the ups in this order.
Script(name) == CASE name = "up" -> InitUp \o UnknownUp
                  [] name = "down2" -> UnknownDown
                  [] name = "down1" -> InitDown
                  [] OTHER -> <<>>

Tables == {"policies", "roles", "capabilities", "decisions", "outbox"}

\* The tables a table refers to.
References(table) ==
  IF table \in {"roles", "capabilities", "decisions"} THEN {"policies"} ELSE {}

Admits(to, value) ==
  \/ to = "none" \/ value = "known"
  \/ to = "unknownToo" /\ value = "UNKNOWN"
-----------------------------------------------------------------------------
(* psql. *)

statement == Script(running.script)[at]

Started == running # Nothing /\ at <= Len(Script(running.script))

\* The table a statement locks against writers: also to find that an index exists.
Locks(s) == IF s.do \in {"create", "drop"} THEN s.on ELSE "decisions"

\* The server drops the locks of a transaction it has refused.
LockedBy(w) == CASE writer[w].pc \in {"inserted", "failing"} -> {"decisions"}
                 [] writer[w].pc = "audited" -> {"decisions", "outbox"}
                 [] OTHER -> {}

\* psql waits for a table's lock: whoever asks for the table later waits behind it.
QueuedFor(table) == asked /\ Locks(statement) = table

\* An operator, or compose up, begins a script; nobody begins one beside another.
Begin(p) ==
  /\ running = Nothing /\ p \in Procedures
  /\ running' = p /\ completed' = "none"
  /\ downgraded' = (downgraded \/ p.script # "up")
  /\ UNCHANGED <<database, at, asked, failed, serving, writer>>

AskForLock ==
  /\ Started /\ ~asked /\ asked' = TRUE
  /\ UNCHANGED <<database, running, at, failed, completed, serving, downgraded, writer>>

\* What a statement needs of the database; "IF [NOT] EXISTS" makes up for the rest.
Works(s) ==
  CASE s.do = "create" -> s.on \in tables \/ References(s.on) \subseteq tables
    [] s.do = "drop" -> \A t \in tables : s.on \notin References(t)
    [] s.do = "dropCheck" -> "decisions" \in tables
    [] OTHER -> /\ "decisions" \in tables /\ check[s.on] = "none"
                /\ \A r \in rows : Admits(s.to, r[s.on])

\* A new decisions table has the first migration's checks.
Apply(s) ==
  /\ tables' = CASE s.do = "create" -> tables \cup {s.on}
                 [] s.do = "drop" -> tables \ {s.on}
                 [] OTHER -> tables
  /\ rows' = IF s = Drop("decisions") THEN {} ELSE rows
  /\ check' = CASE s = Create("decisions") /\ "decisions" \notin tables ->
                     [c \in Columns |-> "known"]
                [] s = Drop("decisions") -> [c \in Columns |-> "none"]
                [] s.do = "dropCheck" -> [check EXCEPT ![s.on] = "none"]
                [] s.do = "addCheck" -> [check EXCEPT ![s.on] = s.to]
                [] OTHER -> check

\* The statement has its lock, and is applied or refused.
Execute(works) ==
  /\ Started /\ asked /\ \A w \in Writers : Locks(statement) \notin LockedBy(w)
  /\ asked' = FALSE
  /\ IF works THEN Apply(statement) /\ at' = at + 1 /\ UNCHANGED failed
     ELSE /\ at' = IF running.stops THEN Len(Script(running.script)) + 1 ELSE at + 1
          /\ failed' = TRUE /\ UNCHANGED database
  /\ UNCHANGED <<running, completed, serving, downgraded, writer>>

\* Variant: checks are added as NOT VALID.
ExecuteNotValid ==
  Execute(Works(statement) \/ (statement.do = "addCheck" /\ "decisions" \in tables
                                /\ check[statement.on] = "none"))

ExecuteStatement == Execute(Works(statement))

Cease == /\ running' = Nothing /\ at' = 1 /\ asked' = FALSE /\ failed' = FALSE
         /\ UNCHANGED <<database, serving, writer>>

\* psql reports an error only if it was told to stop at one.
End ==
  /\ running # Nothing /\ ~Started /\ Cease
  /\ completed' = IF failed /\ running.stops THEN "none" ELSE running.script
  /\ downgraded' = (downgraded /\ completed' # "up")

\* The container is stopped, or the connection lost, between two statements.
Interrupt == running # Nothing /\ Cease /\ UNCHANGED <<completed, downgraded>>
-----------------------------------------------------------------------------
(* The service. *)

\* Variant: the service waits for a healthy database only.
ServeWhenHealthy ==
  /\ ~serving /\ serving' = TRUE
  /\ UNCHANGED <<database, psql, writer>>

\* Compose starts it when the migrations have completed; so does who follows the README.
Serve ==
  /\ ~serving /\ completed = "up" /\ serving' = TRUE
  /\ UNCHANGED <<database, psql, writer>>

\* Variant: the values are recorded as they were sent.
RecordedAsSent(input) == input

\* Normalize(TargetSystem|Method)ForDecision.
Recorded(input) == [c \in Columns |-> IF input[c] = "known" THEN "known" ELSE "UNKNOWN"]

Writes(w, new) ==
  writer' = [writer EXCEPT ![w] = new] /\ UNCHANGED <<psql, serving>>

Idle == [pc |-> "idle", row |-> {}]

\* INSERT INTO exchange_authorization_decisions.
Accepted(row) ==
  "decisions" \in tables /\ \A c \in Columns : Admits(check[c], row[c])

InsertDecision(w, row) ==
  /\ serving /\ writer[w] = Idle /\ ~QueuedFor("decisions") /\ Accepted(row)
  /\ Writes(w, [pc |-> "inserted", row |-> row]) /\ UNCHANGED database

\* The check, or the missing table, refuses the row: the request ends in an error.
InsertRefused(w, row) ==
  /\ serving /\ writer[w] = Idle /\ ~QueuedFor("decisions") /\ ~Accepted(row)
  /\ Writes(w, [pc |-> "refused", row |-> row]) /\ UNCHANGED database

\* INSERT INTO audit_outbox.
InsertAudit(w) ==
  /\ writer[w].pc = "inserted" /\ ~QueuedFor("outbox") /\ "outbox" \in tables
  /\ Writes(w, [writer[w] EXCEPT !.pc = "audited"]) /\ UNCHANGED database

AuditRefused(w) ==
  /\ writer[w].pc = "inserted" /\ ~QueuedFor("outbox") /\ "outbox" \notin tables
  /\ Writes(w, [writer[w] EXCEPT !.pc = "refused"]) /\ UNCHANGED database

\* The client has gone, or the event cannot be encoded.
AuditFails(w) ==
  /\ writer[w].pc = "inserted"
  /\ Writes(w, [writer[w] EXCEPT !.pc = "failing"]) /\ UNCHANGED database

Commit(w) ==
  /\ writer[w].pc = "audited" /\ rows' = rows \cup {writer[w].row}
  /\ Writes(w, Idle) /\ UNCHANGED <<tables, check>>

\* Variant: a transaction is left open when the client has gone.
RollBackRefused(w) == writer[w].pc = "refused" /\ Writes(w, Idle) /\ UNCHANGED database

\* InTx rolls back what failed; if the context is cancelled pgx closes the connection instead.
RollBack(w) ==
  /\ writer[w].pc \in {"refused", "failing"} /\ Writes(w, Idle) /\ UNCHANGED database
-----------------------------------------------------------------------------
Migrate == AskForLock \/ ExecuteStatement \/ End

\* What a transaction does once begun.
Continue(w) == InsertAudit(w) \/ AuditRefused(w) \/ Commit(w) \/ RollBack(w)

Next ==
  \/ \E p \in Procedures : Begin(p)
  \/ Migrate \/ Interrupt \/ Serve
  \/ \E w \in Writers : \/ Continue(w) \/ AuditFails(w)
                        \/ \E i \in Inputs : \/ InsertDecision(w, Recorded(i))
                                             \/ InsertRefused(w, Recorded(i))

Spec == Init /\ [][Next]_vars

\* psql and the service are scheduled; a lock is granted in the order it was asked for.
FairSpec == Spec /\ WF_vars(Migrate) /\ \A w \in Writers : WF_vars(Continue(w))
=============================================================================
