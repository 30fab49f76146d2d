----------------------------- MODULE MCMigrations -----------------------------
(* Two transactions at a time, all scripts, psql stopping at errors or not. *)
EXTENDS MigrationsProperties

\* Requests with an unknown method; what is known in both columns satisfies every check.
MCInputs == {i \in [Columns -> {"known", "other"}] : i["method"] = "other"}
MCProcedures == [script : {"up", "down2", "down1"}, stops : BOOLEAN]
=============================================================================
