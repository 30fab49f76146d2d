------------------------- MODULE MigrationsProperties -------------------------
(* What the migrations promise to the service that runs beside them. *)
EXTENDS Migrations

\* Every variable has the shape the code gives it.
TypeOK ==
  /\ tables \subseteq Tables
  /\ check \in [Columns -> {"none", "known", "unknownToo"}]
  /\ rows \subseteq [Columns -> {"known", "UNKNOWN"}]
  /\ running \in Procedures \cup {Nothing} /\ completed \in {"none", "up", "down2", "down1"}
  /\ at \in 1 .. Len(Script(running.script)) + 1 /\ (running = Nothing => at = 1 /\ ~failed)
  /\ asked \in BOOLEAN /\ failed \in BOOLEAN /\ serving \in BOOLEAN /\ downgraded \in BOOLEAN
  /\ writer \in [Writers -> {Idle} \cup
                   [pc : {"inserted", "audited", "failing", "refused"},
                    row : [Columns -> {"known", "UNKNOWN"}]]]

\* 000002:23 and 000001:137, ADD CONSTRAINT and its lock: whatever checks are in force, and
\* however scripts and inserts were interleaved, every row on record and every row of an
\* open transaction that holds the table satisfies them.
RowsFitChecks ==
  /\ "decisions" \notin tables => rows = {}
  /\ \A r \in rows, c \in Columns : Admits(check[c], r[c])
  /\ \A w \in Writers, c \in Columns :
       "decisions" \in LockedBy(w) => /\ "decisions" \in tables
                                      /\ Admits(check[c], writer[w].row[c])

\* docker-compose.yml:33: the ups are applied at every start.  Whatever an earlier script
\* left behind and whatever the service recorded meanwhile, in the gap between DROP and ADD
\* CONSTRAINT too, no statement of them fails; there is one psql at a time.
UpNeverFails == running.script = "up" => ~failed

\* README "Expected tables": once its scripts have been applied to the end, by either way of
\* using psql, the schema is the latest one, or gone; the half-done work of an earlier
\* script, a failed down among them, is made up for.
ScriptsComplete ==
  /\ running # Nothing => completed = "none"
  /\ completed = "up" => tables = Tables /\ \A c \in Columns : check[c] = "unknownToo"
  /\ completed = "down1" => tables = {}

\* docker-compose.yml:64, depends_on: the service never meets a schema that refuses its
\* decision, of an unknown target or method too, although the ups are applied again beside
\* it; unless a down script has been begun since.
RefusedOnlyDowngraded ==
  [][\A w \in Writers : writer[w].pc # "refused" /\ writer'[w].pc = "refused" => downgraded]_vars

\* 000002:1, the ALTER waits for every open decision: it gets its lock under any load, and
\* the script ends.
UpgradeEnds == running.script = "up" ~> running.script # "up"
-----------------------------------------------------------------------------
\* What the statements an up has behind it have made of the schema.
UpProgress ==
  running.script = "up" =>
    /\ ~failed
    /\ \A i \in 1 .. 5 : at > i => InitUp[i].on \in tables
    /\ at = 7 => check["target"] = "none"
    /\ at > 7 => check["target"] = "unknownToo"
    /\ at = 9 => check["method"] = "none"
    /\ at > 9 => check["method"] = "unknownToo"

\* What a down of the first migration has left of it.
DownProgress ==
  running.script = "down1" => \A i \in 1 .. 5 : at > i => InitDown[i].on \notin tables

\* The service was started on the latest schema, and only a down has changed that.
ServedSchema ==
  /\ running.script \notin {"none", "up"} => downgraded
  /\ \A w \in Writers : writer[w] # Idle => serving
  /\ serving /\ ~downgraded =>
       {"decisions", "outbox"} \subseteq tables /\ \A c \in Columns : check[c] # "known"

\* The inductive invariant.
MigrationsInv ==
  TypeOK /\ RowsFitChecks /\ UpProgress /\ DownProgress /\ ServedSchema /\ ScriptsComplete
=============================================================================
