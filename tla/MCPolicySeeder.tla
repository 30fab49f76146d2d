---------------------------- MODULE MCPolicySeeder ----------------------------
(* Small instances of PolicySeeder: the whole list of canonical policies, or its first two
   beside an operator who deletes seeded rows and puts a rival policy on a seeded route. *)
EXTENDS SeedingStep, TLC

FirstSeeds == SubSeq(CanonicalPolicies, 1, 2)

Nothing == {}

RivalSeed ==
  Seed("POL-LOCAL", CanonicalPolicies[2].route, <<Entry("PR-LOCAL", "CITIZEN")>>, <<>>)
RivalRows == ToSet(RowsOfSeed(RivalSeed))

\* What the operator may delete: the first policy, the second one's role, the rival.
DeletedRows ==
  {PolicyRow(Seeds[1]), ListRow("roles", Seeds[2], Seeds[2].requiredRoles[1]), PolicyRow(RivalSeed)}

RunSymmetry == Permutations(Runs)
=============================================================================
