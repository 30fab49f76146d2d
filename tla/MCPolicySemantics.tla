-------------------------- MODULE MCPolicySemantics --------------------------
(* Small inputs for PolicySemantics: two role words and two capability words in all
   spellings the evaluator tells apart, blank ones included, and each way a lookup or a
   route part can go wrong. *)
EXTENDS PolicySemantics

AllWords == STRING

Sloppy(w) == [word |-> w, padded |-> TRUE, recased |-> TRUE]

PaddedBlank == [word |-> "", padded |-> TRUE, recased |-> FALSE]

MCRoleTexts == {Plain("TAX_OFFICER"), Sloppy("TAX_OFFICER"), Plain("CITIZEN"), PaddedBlank}

MCCapabilityTexts == {Plain("CAN_EMPLOY_PERSONS"), Sloppy("CAN_ROUTE_PAYMENTS"), PaddedBlank}

PolicyOf(status, effect, roles, capabilities) ==
  [id |-> "POL-1", target |-> Plain("TAIFA_TAX"), method |-> Plain("POST"),
   route |-> Plain("/r"), operation |-> Plain("op"), status |-> status, effect |-> effect,
   requiredRoles |-> roles, requiredCapabilities |-> capabilities]

MCPolicies ==
  {PolicyOf(Plain("ACTIVE"), Plain("ALLOW"), roles, capabilities) :
      roles \in {{}, {Plain("CITIZEN")}, {Plain("CITIZEN"), Sloppy("TAX_OFFICER")}, {PaddedBlank}},
      capabilities \in {{}, {Plain("CAN_EMPLOY_PERSONS")},
                        {Sloppy("CAN_EMPLOY_PERSONS"), Plain("CAN_ROUTE_PAYMENTS")}}}
  \cup {PolicyOf(Sloppy("ACTIVE"), Sloppy("ALLOW"), {}, {}),
        PolicyOf(Plain("DISABLED"), Plain("ALLOW"), {}, {}),
        PolicyOf(Plain("ACTIVE"), Plain("DENY"), {}, {}),
        PolicyOf(Plain("ACTIVE"), EmptyText, {}, {})}

Call(p, roles, capabilities) ==
  [target |-> Plain("TAIFA_TAX"), method |-> Plain("POST"), route |-> Plain("/r"),
   operation |-> Plain("op"), policy |-> p,
   actorRoles |-> roles, organizationCapabilities |-> capabilities]

MCInputs ==
  {Call(p, roles, capabilities) : p \in MCPolicies \cup {Nil}, roles \in SUBSET MCRoleTexts,
                                  capabilities \in SUBSET MCCapabilityTexts}
  \cup {[Call(p, MCRoleTexts, MCCapabilityTexts) EXCEPT ![part] = PaddedBlank] :
           p \in MCPolicies, part \in {"target", "method", "route", "operation"}}
=============================================================================
