--------------------------- MODULE ExchangeInvariant ---------------------------
(* The inductive invariant of Exchange: what is known of a request's local variables and
   of its rows at each point of its goroutine. *)
EXTENDS ExchangeProperties

\* Where the request is still consulted, and where its decision stands.
Looking == {"resolve", "capabilities", "find", "roles", "policyCapabilities"}
Persisting == {"begin", "insert", "audit", "commit", "committing"}

\* A decision is a denial until a policy has been evaluated.
LocalsAt(r) ==
  /\ pc[r] \in Looking \cup Persisting \/ r \in sent => draft[r] \in Row /\ draft[r].id = r
  /\ pc[r] \in Looking => request[r] \in Input /\ draft[r].decision = "DENY"
  /\ pc[r] \in {"roles", "policyCapabilities"} => found[r] \in Policy

\* An open transaction has written the decision, then its event, and nothing else, and
\* only a complete one is sent for commit.
StagedAt(r) ==
  /\ staged[r] =
       [rows   |-> IF pc[r] \in {"audit", "commit"} \/ r \in sent THEN {draft[r]} ELSE {},
        events |-> IF pc[r] = "commit" \/ r \in sent THEN {AuditEventForResult(draft[r])} ELSE {}]
  /\ r \in sent => pc[r] \in {"committing", "reply", "done"}

\* Nothing is on record for a request before the server has taken its COMMIT.
UnrecordedAt(r) ==
  pc[r] \notin {"committing", "reply", "done"} \/ r \in sent => RowsOf(r) = {} /\ EventsOf(r) = {}

\* The outcome says what the decision says, up to the response, and a response that is no
\* error says what is on record.
OutcomeAt(r) ==
  /\ pc[r] \in Persisting =>
       /\ outcome[r].status # 0 /\ outcome[r].code \notin FailureCodes
       /\ outcome[r].status = 200 <=> draft[r].decision = "ALLOW"
  /\ pc[r] = "reply" =>
       /\ outcome[r].status # 0
       /\ outcome[r].code \in FailureCodes => outcome[r].status # 200
       /\ outcome[r].code \notin FailureCodes =>
            RecordedFor(r) = IF outcome[r].status = 200 THEN "ALLOW" ELSE "DENY"
  /\ pc[r] # "done" => response[r] = NoResponse
  /\ pc[r] = "done" => ToldBy(response[r]) \in {"error", RecordedFor(r)}

LocalsOK == \A r \in Requests : LocalsAt(r)
StagedOK == \A r \in Requests : StagedAt(r)
UnrecordedOK == \A r \in Requests : UnrecordedAt(r)
OutcomeOK == \A r \in Requests : OutcomeAt(r)

RequestsOK == TypeOK /\ LocalsOK /\ StagedOK /\ UnrecordedOK /\ LedgerAudited /\ OutcomeOK

InTransaction == {"insert", "audit", "commit", "committing"}

\* A request holds a connection exactly while its transaction is open: InTx gives it back on
\* every path, and the pool never lends more than it has.
ConnectionsOK ==
  /\ holding = {r \in Requests : pc[r] \in InTransaction}
  /\ Cardinality(holding) <= MaxConns

\* Together they are inductive: TypeOK and LedgerAudited alone are not, since a step from a
\* state with a wrong draft or a stray staged row leaves them.
IInv == RequestsOK /\ ConnectionsOK
=============================================================================
