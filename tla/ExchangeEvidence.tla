--------------------------- MODULE ExchangeEvidence ---------------------------
(* What is known of the contents of a decision, from the request to the row on record: the
   invariants that the theorems about decision rows rest on. *)
EXTENDS ExchangeInvariant

\* A policy has been written under this id for the route of this row.
RouteWritten(id, row) == \E p \in WrittenPolicies : p.id = id /\ SameRoute(p, row)

\* The database accepts the row's columns, the row justifies itself, and the policy it names
\* was written for its route.
Evident(row) ==
  /\ ColumnsAccepted(row) /\ Justified(row)
  /\ row.matchedPolicyID # "" => RouteWritten(row.matchedPolicyID, row)

\* While the request is consulted, it and its decision name one route, and the decision
\* holds normalised lists of roles and capabilities and no verdict.
ConsultedAt(r) ==
  /\ SameRoute(request[r], draft[r])
  /\ NormalizeAuthorizeRequest(request[r]) = request[r]
  /\ draft[r].matchedPolicyID = "" /\ draft[r].denyReason = ""
  /\ NormalizeStringSlice(draft[r].actorRoles) = draft[r].actorRoles
  /\ NormalizeStringSlice(draft[r].organizationCapabilities) = draft[r].organizationCapabilities

EvidenceAt(r) ==
  /\ pc[r] \in Looking => ConsultedAt(r)
  /\ pc[r] \in {"roles", "policyCapabilities"} =>
       SameRoute(found[r], draft[r]) /\ RouteWritten(found[r].id, draft[r])
  /\ pc[r] \in Looking \cup Persisting \/ r \in sent => Evident(draft[r])

\* The rows on record and those of open transactions.
WrittenRows == decisions \cup UNION {staged[r].rows : r \in Requests}

EvidenceOK == \A r \in Requests : EvidenceAt(r)
RowsEvident == \A row \in decisions : Evident(row)
PoliciesWritten == \A p \in policies : RouteWritten(p.id, p)
ReferencesKept == \A row \in WrittenRows : MatchedPolicyStored(row)

\* Inductive beside IInv: a row on record is what its request's draft was, and a draft is
\* evident only because the roles, capabilities and route it was made from were normalised.
EvidenceInv == EvidenceOK /\ RowsEvident /\ PoliciesWritten /\ ReferencesKept

\* Nobody moves a policy to another route.
RoutesFixed == \A p, q \in WrittenPolicies : p.id = q.id => SameRoute(p, q)
-----------------------------------------------------------------------------
\* Operators add policies, and delete those that nobody writes, but change none.
VersionsFixed ==
  /\ \A p \in AdminPolicies, q \in WrittenPolicies : p.id = q.id => p = q
  /\ \A p \in CanonicalPolicies \cup AdminPolicies : p.id \notin Deletable

\* The policy was deleted, and stays away.
Gone(id) ==
  /\ \A p \in policies : p.id # id
  /\ \A p \in CanonicalPolicies \cup AdminPolicies : p.id # id

\* A policy is for the row's route and has the same standing.
SameStanding(p, q) ==
  p.id = q.id /\ SameRoute(p, q) /\ p.status = q.status /\ p.effect = q.effect

\* A version that the row of an ALLOW meets.
MeetsAVersion(row) ==
  row.decision = "ALLOW" =>
    \E p \in PolicyVersions : p.id = row.matchedPolicyID /\ SameRoute(p, row) /\ Meets(row, p)

\* What has been read of a policy is of the version its roles were read from: one that has
\* lost no capability since, unless the policy is gone and the foreign key will say so.
ReadAt(r) ==
  /\ pc[r] = "roles" =>
       Gone(found[r].id) \/ \E p \in policies : SameStanding(p, found[r])
  /\ pc[r] = "policyCapabilities" =>
       \/ Gone(found[r].id)
       \/ \E p \in policies, version \in PolicyVersions :
            /\ SameStanding(p, found[r]) /\ SameStanding(version, found[r])
            /\ version.requiredRoles = found[r].requiredRoles
            /\ version.requiredCapabilities \subseteq p.requiredCapabilities
  /\ pc[r] \in Persisting \/ r \in sent =>
       Gone(draft[r].matchedPolicyID) \/ MeetsAVersion(draft[r])

\* Inductive beside IInv and EvidenceInv where VersionsFixed holds.
OneVersionInv ==
  /\ policies \subseteq PolicyVersions
  /\ \A r \in Requests : ReadAt(r)
  /\ \A row \in decisions : MeetsAVersion(row)
=============================================================================
