---------------------------- MODULE DecisionLedger ----------------------------
(***************************************************************************)
(* What the exchange promises about its decisions, without saying how it   *)
(* reaches them: a decision is recorded together with its audit event, at  *)
(* most once per request and for good; and a caller who is told ALLOW or   *)
(* DENY is told what is on record.  A caller may also be told that the     *)
(* exchange failed, or hear nothing, whether or not a decision stands.     *)
(***************************************************************************)
CONSTANT Requests

VARIABLES ledger,    \* the decision recorded for each request
          audited,   \* the decision its audit event reports
          answer     \* what its caller was told

ledgerVars == <<ledger, audited, answer>>

Decisions == {"ALLOW", "DENY"}

Unanswered == "unanswered"

LedgerTypeOK ==
  /\ ledger \in [Requests -> Decisions \cup {"none"}]
  /\ audited \in [Requests -> Decisions \cup {"none"}]
  /\ answer \in [Requests -> Decisions \cup {Unanswered, "error"}]

LedgerInit ==
  /\ ledger = [r \in Requests |-> "none"]
  /\ audited = [r \in Requests |-> "none"]
  /\ answer = [r \in Requests |-> Unanswered]

\* The decision and its audit event appear in one step, even after a reported failure.
Record(r) ==
  /\ answer[r] \in {Unanswered, "error"} /\ ledger[r] = "none"
  /\ \E d \in Decisions : /\ ledger' = [ledger EXCEPT ![r] = d]
                          /\ audited' = [audited EXCEPT ![r] = d]
  /\ UNCHANGED answer

\* The caller is told what the ledger says.
Tell(r) ==
  /\ answer[r] = Unanswered /\ ledger[r] # "none"
  /\ answer' = [answer EXCEPT ![r] = ledger[r]]
  /\ UNCHANGED <<ledger, audited>>

\* Callers are told of a failure, or lose the answer: one, or all of a crashed process.
Refuse(rs) ==
  /\ \A r \in rs : answer[r] = Unanswered
  /\ answer' = [r \in Requests |-> IF r \in rs THEN "error" ELSE answer[r]]
  /\ UNCHANGED <<ledger, audited>>

LedgerNext == \/ \E r \in Requests : Record(r) \/ Tell(r)
              \/ \E rs \in SUBSET Requests : Refuse(rs)

LedgerSpec == LedgerInit /\ [][LedgerNext]_ledgerVars
=============================================================================
