------------------------------ MODULE MCExchange ------------------------------
(* Small instances of Exchange: one protected route, clients that spell it well and
   badly, TaifaID answers that do and do not satisfy its policy, and the versions of the
   policy that the seeder and an operator put into the tables. *)
EXTENDS ExchangeEvidence, TLC

AllWords == STRING

Sloppy(w) == [word |-> w, padded |-> TRUE, recased |-> TRUE]
Padded(w) == [word |-> w, padded |-> TRUE, recased |-> FALSE]

ValidInput ==
  [wellFormed |-> TRUE, header |-> [fields |-> 2, bearer |-> TRUE],
   org |-> Plain("ORG-1"), target |-> Plain("TAIFA_CARE"), method |-> Plain("POST"),
   route |-> Plain("/api/v1/claims"), operation |-> Plain("care.claim.create")]

\* The same request, with every normalisation to do.
SloppyInput ==
  [ValidInput EXCEPT !.target = Sloppy("TAIFA_CARE"), !.method = Sloppy("POST"),
                     !.route = Padded("/api/v1/claims"), !.operation = Padded("care.claim.create")]

OtherRouteInput == [ValidInput EXCEPT !.route.recased = TRUE]

\* One input for every early return of the handler and of the validation.
RejectedInputs ==
  {[ValidInput EXCEPT !.wellFormed = FALSE],
   [ValidInput EXCEPT !.header.fields = 3], [ValidInput EXCEPT !.header.bearer = FALSE]}
  \cup {[ValidInput EXCEPT ![part] = Padded("")] :
           part \in {"org", "target", "method", "route", "operation"}}
  \cup {[ValidInput EXCEPT ![part] = Sloppy("ELSEWHERE")] : part \in {"target", "method"}}

ClaimPolicy(roles, capabilities) ==
  [id |-> "POL-CARE-CLAIM-CREATE-CLINICIAN", target |-> Plain("TAIFA_CARE"),
   method |-> Plain("POST"), route |-> Plain("/api/v1/claims"),
   operation |-> Plain("care.claim.create"), effect |-> Plain("ALLOW"),
   status |-> Plain("ACTIVE"), requiredRoles |-> {Plain(w) : w \in roles},
   requiredCapabilities |-> {Plain(w) : w \in capabilities}]

SeededClaimPolicy == ClaimPolicy({"PROVIDER_CLINICIAN"}, {"CAN_PROVIDE_HEALTH_SERVICES"})

DisabledClaimPolicy == [SeededClaimPolicy EXCEPT !.status = Plain("DISABLED")]

OfficerClaimPolicy == ClaimPolicy({"PROVIDER_CLAIMS_OFFICER"}, {"CAN_ROUTE_PAYMENTS"})

\* An operator's policy on the seeded route under an id of its own: SeedCanonical conflicts.
RivalClaimPolicy == [OfficerClaimPolicy EXCEPT !.id = "POL-LOCAL"]

Clinician ==
  [person |-> "PERSON-1", roles |-> {}, memberships |-> {{Sloppy("PROVIDER_CLINICIAN")}}]
Officer ==
  [person |-> "PERSON-2", roles |-> {Plain("PROVIDER_CLAIMS_OFFICER"), Padded("")},
   memberships |-> {}]

HealthServices == {Sloppy("CAN_PROVIDE_HEALTH_SERVICES")}
RoutePayments == {Plain("CAN_ROUTE_PAYMENTS"), Padded("")}

AllConfigured == {[database |-> TRUE, identity |-> TRUE]}
AnyConfiguration == Configuration
IdentityConfigured == {c \in Configuration : c.identity}
Nothing == {}

EveryInput == {ValidInput, SloppyInput, OtherRouteInput} \cup RejectedInputs
SomeInputs == {SloppyInput, [ValidInput EXCEPT !.target = Sloppy("ELSEWHERE")]}
OneInput == {ValidInput}

Actors == {Clinician, Officer}
OneActor == {Clinician}
Capabilities == {HealthServices, RoutePayments}
OneCapabilityList == {HealthServices}

SeededPolicy == {SeededClaimPolicy}
RivalVersion == {RivalClaimPolicy}
EveryVersion == {OfficerClaimPolicy, DisabledClaimPolicy, RivalClaimPolicy}
SeededIds == {SeededClaimPolicy.id}
EveryId == {SeededClaimPolicy.id, RivalClaimPolicy.id}

RequestSymmetry == Permutations(Requests)
=============================================================================
