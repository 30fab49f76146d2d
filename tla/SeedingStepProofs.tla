--------------------------- MODULE SeedingStepProofs ---------------------------
(* A COMMIT of PolicySeeder is the step that Exchange takes a run of the seeder for. *)
EXTENDS SeedingStep, PolicySeederProofs

\* What SeederInv says of a complete transaction: the rows new are apart from the rows old,
\* and have the lists of their policies; part is the part of the script that is in place.
Complete(old, new, part) ==
  /\ part = InPlace(old \cup new)
  /\ old \subseteq Rows /\ new \subseteq ScriptRows /\ TablesSound(old)
  /\ \A row \in old, w \in new : ~Conflicts(row, w)
  /\ \A w \in new : HasPolicy(old \cup new, w)
  /\ \A p \in PoliciesIn(new), s \in ScriptRows \ PoliciesIn(ScriptRows) :
       s.policy = p.id => s \in new

LEMMA NewInPlace ==
  ASSUME NEW old, NEW new, NEW part, Complete(old, new, part)
  PROVE  new \subseteq part /\ part \subseteq ScriptRows
BY ConflictsReflexive DEF InPlace, Complete

\* The rows it has written are those in place that nothing committed stands against.
LEMMA NewRows ==
  ASSUME NEW old, NEW new, NEW part, Complete(old, new, part), NEW s \in part
  PROVE  s \in new <=> \A row \in old : ~Conflicts(row, s)
<1>1. ASSUME \A row \in old : ~Conflicts(row, s) PROVE s \in new
  <2>1. PICK row \in new : Conflicts(row, s)
    BY <1>1 DEF Complete, InPlace
  <2>2. row = s
    BY <2>1, ScriptRowsApart DEF Complete, InPlace
  <2> QED
    BY <2>1, <2>2
<1> QED
  BY <1>1 DEF Complete

\* A role or capability of a seed that is in place is there, whoever inserted it.
LEMMA WordInPlace ==
  ASSUME NEW old, NEW new, NEW part, Complete(old, new, part), NEW s \in part,
         s.table # "policies"
  PROVE  \E row \in old \cup new : row.table = s.table /\ row.key = s.key /\ row.policy = s.policy
<1>1. PICK row \in old \cup new : Conflicts(row, s)
  BY DEF Complete, InPlace
<1>2. row \in Rows /\ s \in Rows /\ s \in ScriptRows
  BY ScriptTyped DEF Complete, InPlace
<1>3. row.table = s.table /\ row.policy = s.policy
  BY <1>1, <1>2, SeederAssumption DEF Conflicts
<1>4. s \in ScriptRows \ PoliciesIn(ScriptRows)
  BY <1>2 DEF PoliciesIn
<1>5. row.key = s.key
  BY <1>1, <1>2, <1>4, KeysAssumption DEF Conflicts
<1> QED
  BY <1>3, <1>5

\* What is in place satisfies the foreign keys by itself: a list row does not outlive its policy.
LEMMA InPlaceSound ==
  ASSUME NEW old, NEW new, NEW part, Complete(old, new, part), NEW s \in part
  PROVE  HasPolicy(part, s)
<1>1. s \in ScriptRows /\ s \in Rows
  BY NewInPlace, ScriptTyped
<1>2. CASE s.table = "policies"
  BY <1>1, <1>2, PolicyOfItself DEF HasPolicy
<1>3. CASE s.table # "policies"
  <2>1. PICK row \in old \cup new : row.policy = s.policy
    BY <1>3, WordInPlace
  <2>2. HasPolicy(old \cup new, row)
    BY <2>1, HasPolicyMonotone DEF Complete, TablesSound
  <2>3. PICK p \in old \cup new : p.table = "policies" /\ p.id = s.policy
    BY <2>1, <2>2 DEF HasPolicy
  <2>4. PICK own \in ScriptRows : own.table = "policies" /\ own.id = s.policy
    BY <1>1, KeysAssumption DEF HasPolicy
  <2>5. own \in part
    BY <2>3, <2>4 DEF Complete, InPlace, Conflicts
  <2> QED
    BY <2>4, <2>5 DEF HasPolicy
<1> QED
  BY <1>2, <1>3

LEMMA WordsOfUnion ==
  ASSUME NEW old, NEW new, NEW table, NEW policy
  PROVE  ListWords(old \cup new, table, policy) =
           ListWords(old, table, policy) \cup ListWords(new, table, policy)
BY DEF ListWords

LEMMA WordsOfSubset ==
  ASSUME NEW old, NEW new, old \subseteq new, NEW table, NEW policy
  PROVE  ListWords(old, table, policy) \subseteq ListWords(new, table, policy)
BY DEF ListWords

\* A policy has all the words of its seed, and those it had.
LEMMA WordsRegained ==
  ASSUME NEW old, NEW new, NEW part, Complete(old, new, part),
         NEW table, table # "policies", NEW policy
  PROVE  ListWords(old \cup new, table, policy) =
           ListWords(old, table, policy) \cup ListWords(part, table, policy)
<1>1. ListWords(new, table, policy) \subseteq ListWords(part, table, policy)
  BY NewInPlace, WordsOfSubset
<1>2. ASSUME NEW s \in part, s.table = table, s.policy = policy
      PROVE  Store!Plain(s.key[2]) \in ListWords(old \cup new, table, policy)
  <2>1. PICK row \in old \cup new : row.table = s.table /\ row.key = s.key /\ row.policy = s.policy
    BY <1>2, WordInPlace
  <2> QED
    BY <1>2, <2>1 DEF ListWords
<1>3. ListWords(part, table, policy) \subseteq ListWords(old \cup new, table, policy)
  BY <1>2 DEF ListWords
<1> QED
  BY <1>1, <1>3, WordsOfUnion

LEMMA ListsRegained ==
  ASSUME NEW old, NEW new, NEW part, Complete(old, new, part), NEW policy
  PROVE  /\ ListWords(old \cup new, "roles", policy)
              = ListWords(old, "roles", policy) \cup ListWords(part, "roles", policy)
         /\ ListWords(old \cup new, "capabilities", policy)
              = ListWords(old, "capabilities", policy)
                  \cup ListWords(part, "capabilities", policy)
<1>1. "roles" # "policies" /\ "capabilities" # "policies"
  OBVIOUS
<1>2. ListWords(old \cup new, "roles", policy)
        = ListWords(old, "roles", policy) \cup ListWords(part, "roles", policy)
  BY ONLY Complete(old, new, part), <1>1, WordsRegained
<1>3. ListWords(old \cup new, "capabilities", policy)
        = ListWords(old, "capabilities", policy) \cup ListWords(part, "capabilities", policy)
  BY ONLY Complete(old, new, part), <1>1, WordsRegained
<1> QED
  BY <1>2, <1>3

\* A policy that is not there has no lists.
LEMMA NoWords ==
  ASSUME NEW rows, \A row \in rows : HasPolicy(rows, row), NEW table, table # "policies",
         NEW policy, \A p \in PoliciesIn(rows) : p.id # policy
  PROVE  ListWords(rows, table, policy) = {}
BY DEF ListWords, PoliciesIn, HasPolicy
-----------------------------------------------------------------------------
(* The tables as PolicyStore has them. *)

LEMMA SeedLists ==
  ASSUME NEW part, \A s \in part : HasPolicy(part, s), NEW policy
  PROVE  /\ UNION {s.requiredRoles : s \in {t \in Tables(part) : t.id = policy}}
              = ListWords(part, "roles", policy)
         /\ UNION {s.requiredCapabilities : s \in {t \in Tables(part) : t.id = policy}}
              = ListWords(part, "capabilities", policy)
<1> DEFINE own == {t \in Tables(part) : t.id = policy}
<1>1. \A t \in own : /\ t.requiredRoles = ListWords(part, "roles", policy)
                     /\ t.requiredCapabilities = ListWords(part, "capabilities", policy)
  BY DEF Tables, AsPolicy
<1>2. CASE own # {}
  BY <1>1, <1>2
<1>3. CASE own = {}
  <2>1. \A p \in PoliciesIn(part) : p.id # policy
    <3>1. \A p \in PoliciesIn(part) : AsPolicy(part, p) \in Tables(part)
      BY DEF Tables
    <3>2. \A p \in PoliciesIn(part) : AsPolicy(part, p).id = p.id
      BY DEF AsPolicy
    <3> QED
      BY <1>3, <3>1, <3>2
  <2>2. /\ ListWords(part, "roles", policy) = {}
        /\ ListWords(part, "capabilities", policy) = {}
    BY <2>1, NoWords
  <2> QED
    BY <1>3, <2>2
<1> QED
  BY <1>2, <1>3

LEMMA PolicyReseeded ==
  ASSUME NEW old, NEW new, NEW part, Complete(old, new, part), NEW p \in PoliciesIn(old)
  PROVE  AsPolicy(old \cup new, p) = Store!Reseeded(AsPolicy(old, p), Tables(part))
<1> DEFINE q == AsPolicy(old, p)
           both == old \cup new
           own == {s \in Tables(part) : s.id = q.id}
           roles == q.requiredRoles \cup UNION {s.requiredRoles : s \in own}
           capabilities ==
             q.requiredCapabilities \cup UNION {s.requiredCapabilities : s \in own}
           two == [q EXCEPT !.requiredRoles = roles]
           reseeded == [two EXCEPT !.requiredCapabilities = capabilities]
<1>1. Store!Reseeded(q, Tables(part)) = reseeded
  BY DEF Store!Reseeded
<1>2. /\ q.id = p.id
      /\ q.requiredRoles = ListWords(old, "roles", p.id)
      /\ q.requiredCapabilities = ListWords(old, "capabilities", p.id)
  BY DEF AsPolicy
<1>3. /\ UNION {s.requiredRoles : s \in own} = ListWords(part, "roles", p.id)
      /\ UNION {s.requiredCapabilities : s \in own} = ListWords(part, "capabilities", p.id)
  <2>1. \A s \in part : HasPolicy(part, s)
    BY InPlaceSound
  <2> HIDE DEF q
  <2>2. own = {s \in Tables(part) : s.id = p.id}
    BY <1>2
  <2> QED
    BY <2>1, <2>2, SeedLists
<1>4. roles = ListWords(both, "roles", p.id) /\ capabilities = ListWords(both, "capabilities", p.id)
  <2>1. /\ ListWords(both, "roles", p.id)
             = ListWords(old, "roles", p.id) \cup ListWords(part, "roles", p.id)
        /\ ListWords(both, "capabilities", p.id)
             = ListWords(old, "capabilities", p.id) \cup ListWords(part, "capabilities", p.id)
    <3>1. ASSUME NEW policy
          PROVE  /\ ListWords(both, "roles", policy)
                      = ListWords(old, "roles", policy) \cup ListWords(part, "roles", policy)
                 /\ ListWords(both, "capabilities", policy)
                      = ListWords(old, "capabilities", policy)
                          \cup ListWords(part, "capabilities", policy)
      BY ListsRegained
    <3> QED
      BY <3>1
  <2> HIDE DEF q, own, both
  <2> QED
    BY <1>2, <1>3, <2>1
<1>5. two = [id |-> p.id, target |-> Store!Plain(p.key[1]), method |-> Store!Plain(p.key[2]),
             route |-> Store!Plain(p.key[3]), operation |-> Store!Plain(p.key[4]),
             effect |-> Store!Plain("ALLOW"), status |-> Store!Plain("ACTIVE"),
             requiredRoles |-> roles,
             requiredCapabilities |-> ListWords(old, "capabilities", p.id)]
  <2> HIDE DEF roles
  <2> QED
    BY DEF AsPolicy
<1>6. reseeded = [id |-> p.id, target |-> Store!Plain(p.key[1]), method |-> Store!Plain(p.key[2]),
                  route |-> Store!Plain(p.key[3]), operation |-> Store!Plain(p.key[4]),
                  effect |-> Store!Plain("ALLOW"), status |-> Store!Plain("ACTIVE"),
                  requiredRoles |-> roles, requiredCapabilities |-> capabilities]
  <2> HIDE DEF two, roles, capabilities
  <2> QED
    BY <1>5
<1> HIDE DEF q, both, roles, capabilities, reseeded
<1>7. AsPolicy(both, p) = reseeded
  BY <1>4, <1>6 DEF AsPolicy
<1> QED
  BY <1>1, <1>7 DEF q, both

LEMMA RouteIsKey ==
  ASSUME NEW p \in PoliciesIn(Rows), NEW q \in PoliciesIn(Rows), NEW rows, NEW others
  PROVE  /\ Store!SameRoute(AsPolicy(rows, p), AsPolicy(others, q)) <=> p.key = q.key
         /\ AsPolicy(rows, p).id = p.id
<1>1. p.key \in [1 .. 4 -> STRING] /\ q.key \in [1 .. 4 -> STRING]
  BY KeysAssumption
<1>2. p.key = q.key <=> \A i \in 1 .. 4 : p.key[i] = q.key[i]
  BY <1>1
<1>3. p.key = q.key <=> /\ p.key[1] = q.key[1] /\ p.key[2] = q.key[2]
                        /\ p.key[3] = q.key[3] /\ p.key[4] = q.key[4]
  BY <1>2
<1>4. \A v, w : Store!Plain(v) = Store!Plain(w) <=> v = w
  BY DEF Store!Plain
<1> QED
  BY <1>3, <1>4 DEF Store!SameRoute, AsPolicy

\* The seeds that are new to the tables are those the run has inserted.
LEMMA FreshAreWritten ==
  ASSUME NEW old, NEW new, NEW part, Complete(old, new, part), NEW p \in PoliciesIn(part)
  PROVE  p \in new <=> \A q \in Tables(old) : /\ q.id # AsPolicy(part, p).id
                                              /\ ~Store!SameRoute(q, AsPolicy(part, p))
<1>1. p \in new <=> \A row \in PoliciesIn(old) : row.id # p.id /\ row.key # p.key
  <2>1. p \in part /\ p.table = "policies"
    BY DEF PoliciesIn
  <2>2. p \in new <=> \A row \in old : ~Conflicts(row, p)
    BY <2>1, NewRows
  <2> QED
    BY <2>1, <2>2 DEF PoliciesIn, Conflicts
<1>2. p \in PoliciesIn(Rows) /\ PoliciesIn(old) \subseteq PoliciesIn(Rows)
  <2>1. part \subseteq ScriptRows
    BY NewInPlace
  <2>2. part \subseteq Rows /\ old \subseteq Rows
    BY <2>1, ScriptTyped DEF Complete
  <2> QED
    BY <2>2 DEF PoliciesIn
<1>3. \A row \in PoliciesIn(old) :
        /\ Store!SameRoute(AsPolicy(old, row), AsPolicy(part, p)) <=> row.key = p.key
        /\ AsPolicy(old, row).id = row.id
  BY <1>2, RouteIsKey
<1>4. AsPolicy(part, p).id = p.id
  BY <1>2, RouteIsKey
<1> QED
  BY <1>1, <1>3, <1>4 DEF Tables

LEMMA FreshSeedsWritten ==
  ASSUME NEW old, NEW new, NEW part, Complete(old, new, part)
  PROVE  Store!FreshSeeds(Tables(old), Tables(part))
           = {AsPolicy(part, p) : p \in PoliciesIn(new)}
<1>1. PoliciesIn(new) \subseteq PoliciesIn(part)
  BY NewInPlace DEF PoliciesIn
<1>2. \A p \in PoliciesIn(part) : p \in PoliciesIn(new) <=> p \in new
  BY DEF PoliciesIn
<1> QED
  BY <1>1, <1>2, FreshAreWritten DEF Store!FreshSeeds, Tables

LEMMA TablesSeeded ==
  ASSUME NEW old, NEW new, NEW part, Complete(old, new, part)
  PROVE  Tables(old \cup new) = Store!SeededPolicies(Tables(old), Tables(part))
<1>1. Tables(old \cup new) = {AsPolicy(old \cup new, p) : p \in PoliciesIn(old)}
                               \cup {AsPolicy(old \cup new, p) : p \in PoliciesIn(new)}
  BY DEF Tables, PoliciesIn
<1>2. {AsPolicy(old \cup new, p) : p \in PoliciesIn(old)}
        = {Store!Reseeded(q, Tables(part)) : q \in Tables(old)}
  <2>1. \A p \in PoliciesIn(old) :
          AsPolicy(old \cup new, p) = Store!Reseeded(AsPolicy(old, p), Tables(part))
    BY PolicyReseeded
  <2> DEFINE seeds == Tables(part)
  <2>2. Tables(old) = {AsPolicy(old, p) : p \in PoliciesIn(old)}
    BY DEF Tables
  <2> HIDE DEF seeds
  <2>3. \A p \in PoliciesIn(old) :
          AsPolicy(old \cup new, p) = Store!Reseeded(AsPolicy(old, p), seeds)
    BY <2>1 DEF seeds
  <2>4. {AsPolicy(old \cup new, p) : p \in PoliciesIn(old)}
          = {Store!Reseeded(q, seeds) : q \in Tables(old)}
    BY <2>2, <2>3
  <2> QED
    BY <2>4 DEF seeds
<1>3. \A p \in PoliciesIn(new) : AsPolicy(old \cup new, p) = AsPolicy(part, p)
  <2>1. ASSUME NEW p \in PoliciesIn(new)
        PROVE  /\ ListWords(old \cup new, "roles", p.id) = ListWords(part, "roles", p.id)
               /\ ListWords(old \cup new, "capabilities", p.id)
                    = ListWords(part, "capabilities", p.id)
    <3>1. \A q \in PoliciesIn(old) : q.id # p.id
      BY DEF Complete, PoliciesIn, Conflicts
    <3>2. ListWords(old, "roles", p.id) = {} /\ ListWords(old, "capabilities", p.id) = {}
      BY <3>1, NoWords DEF Complete, TablesSound
    <3>3. /\ ListWords(old \cup new, "roles", p.id)
               = ListWords(old, "roles", p.id) \cup ListWords(part, "roles", p.id)
          /\ ListWords(old \cup new, "capabilities", p.id)
               = ListWords(old, "capabilities", p.id) \cup ListWords(part, "capabilities", p.id)
      BY ListsRegained
    <3> QED
      BY <3>2, <3>3
  <2> QED
    BY <2>1 DEF AsPolicy
<1>4. {AsPolicy(old \cup new, p) : p \in PoliciesIn(new)}
        = Store!FreshSeeds(Tables(old), Tables(part))
  <2>1. Store!FreshSeeds(Tables(old), Tables(part)) = {AsPolicy(part, p) : p \in PoliciesIn(new)}
    BY FreshSeedsWritten
  <2> QED
    BY <1>3, <2>1
<1> QED
  BY <1>1, <1>2, <1>4 DEF Store!SeededPolicies

\* A policy it has written has the lists of its seed.
LEMMA FreshWhole ==
  ASSUME NEW old, NEW new, NEW part, Complete(old, new, part), NEW p \in PoliciesIn(new)
  PROVE  p \in PoliciesIn(ScriptRows) /\ AsPolicy(part, p) = AsPolicy(ScriptRows, p)
<1>1. new \subseteq part /\ part \subseteq ScriptRows
  BY NewInPlace
<1>2. ASSUME NEW table, table # "policies"
      PROVE  ListWords(part, table, p.id) = ListWords(ScriptRows, table, p.id)
  <2>1. \A s \in ScriptRows : s.table = table /\ s.policy = p.id => s \in part
    BY <1>1, <1>2 DEF Complete, PoliciesIn
  <2> QED
    BY <1>1, <2>1 DEF ListWords
<1>3. /\ ListWords(part, "roles", p.id) = ListWords(ScriptRows, "roles", p.id)
      /\ ListWords(part, "capabilities", p.id) = ListWords(ScriptRows, "capabilities", p.id)
  BY <1>2
<1> QED
  BY <1>1, <1>3 DEF AsPolicy, PoliciesIn

\* What is in place is part of the seeds.
LEMMA PartInPlace ==
  ASSUME NEW old, NEW new, NEW part, Complete(old, new, part)
  PROVE  Tables(part) \in Store!SeedParts(Tables(ScriptRows))
<1>1. part \subseteq ScriptRows
  BY NewInPlace
<1>2. ASSUME NEW p \in PoliciesIn(part)
      PROVE  \E s \in Tables(ScriptRows) : AsPolicy(part, p) \in Store!PartsOf(s)
  <2> DEFINE s == AsPolicy(ScriptRows, p)
             roles == ListWords(part, "roles", p.id)
             capabilities == ListWords(part, "capabilities", p.id)
  <2>1. s \in Tables(ScriptRows)
    BY <1>1 DEF Tables, PoliciesIn
  <2>2. roles \in SUBSET s.requiredRoles /\ capabilities \in SUBSET s.requiredCapabilities
    BY <1>1, WordsOfSubset DEF AsPolicy
  <2>3. AsPolicy(part, p) = Store!WithLists(s, roles, capabilities)
    <3> HIDE DEF roles, capabilities
    <3> DEFINE one == [s EXCEPT !.requiredRoles = roles]
    <3>1. one = [id |-> p.id, target |-> Store!Plain(p.key[1]), method |-> Store!Plain(p.key[2]),
                 route |-> Store!Plain(p.key[3]), operation |-> Store!Plain(p.key[4]),
                 effect |-> Store!Plain("ALLOW"), status |-> Store!Plain("ACTIVE"),
                 requiredRoles |-> roles,
                 requiredCapabilities |-> ListWords(ScriptRows, "capabilities", p.id)]
      BY DEF AsPolicy
    <3>2. Store!WithLists(s, roles, capabilities)
            = [one EXCEPT !.requiredCapabilities = capabilities]
      BY DEF Store!WithLists
    <3> HIDE DEF one
    <3>3. [one EXCEPT !.requiredCapabilities = capabilities]
            = [id |-> p.id, target |-> Store!Plain(p.key[1]), method |-> Store!Plain(p.key[2]),
               route |-> Store!Plain(p.key[3]), operation |-> Store!Plain(p.key[4]),
               effect |-> Store!Plain("ALLOW"), status |-> Store!Plain("ACTIVE"),
               requiredRoles |-> roles, requiredCapabilities |-> capabilities]
      BY <3>1
    <3> QED
      BY <3>2, <3>3 DEF AsPolicy, roles, capabilities
  <2> HIDE DEF s, roles, capabilities
  <2>4. AsPolicy(part, p) \in Store!PartsOf(s)
    BY <2>2, <2>3 DEF Store!PartsOf
  <2> QED
    BY <2>1, <2>4
<1> QED
  BY <1>2 DEF Store!SeedParts, Tables

\* No foreign key would refuse the run.
LEMMA SeedsAccepted ==
  ASSUME NEW old, NEW new, NEW part, Complete(old, new, part)
  PROVE  Store!SeedAccepted(Tables(old), Tables(part))
<1> DEFINE fresh == Store!FreshSeeds(Tables(old), Tables(part))
<1> SUFFICES ASSUME NEW p \in PoliciesIn(part),
                    ListWords(part, "roles", p.id)
                      \cup ListWords(part, "capabilities", p.id) # {}
             PROVE  \E q \in Tables(old) \cup fresh : q.id = p.id
  BY DEF Store!SeedAccepted, Tables, AsPolicy
<1>1. PICK s \in part : s.table # "policies" /\ s.policy = p.id
  BY DEF ListWords
<1>2. PICK row \in old \cup new : row.policy = p.id
  BY <1>1, WordInPlace
<1>3. HasPolicy(old \cup new, row)
  BY <1>2, HasPolicyMonotone DEF Complete, TablesSound
<1>4. PICK parent \in PoliciesIn(old) \cup PoliciesIn(new) : parent.id = p.id
  BY <1>2, <1>3 DEF HasPolicy, PoliciesIn
<1>5. CASE parent \in PoliciesIn(old)
  <2>1. AsPolicy(old, parent) \in Tables(old) /\ AsPolicy(old, parent).id = p.id
    BY <1>4, <1>5 DEF Tables, AsPolicy
  <2> QED
    BY <2>1
<1>6. CASE parent \in PoliciesIn(new)
  <2>1. AsPolicy(part, parent) \in fresh
    BY <1>6, FreshSeedsWritten
  <2>2. AsPolicy(part, parent).id = p.id
    BY <1>4 DEF AsPolicy
  <2> QED
    BY <2>1, <2>2
<1> QED
  BY <1>4, <1>5, <1>6
-----------------------------------------------------------------------------
LEMMA SentIsComplete ==
  ASSUME SeederInv, NEW r \in Runs, r \in sent
  PROVE  Complete(stored, written[r], InPlace(stored \cup written[r]))
<1>1. StageAt(r) /\ WrittenAt(r) /\ TypeOK /\ RowsApart
  BY DEF SeederInv, RunInv
<1>2. at[r] - 1 = Len(Script)
  BY <1>1, ScriptTyped DEF StageAt
<1>3. ASSUME NEW p \in PoliciesIn(written[r]), NEW s \in ScriptRows \ PoliciesIn(ScriptRows),
             s.policy = p.id
      PROVE  s \in written[r]
  <2>1. PICK i \in 1 .. Len(Script) : s = Script[i]
    BY ScriptRowIndex
  <2> QED
    BY <1>1, <1>2, <1>3, <2>1 DEF WrittenAt, PoliciesIn
<1> QED
  BY <1>1, <1>3 DEF Complete, TypeOK, RowsApart

\* While nobody deletes, all that was skipped is in place.
LEMMA AllInPlace ==
  ASSUME SeederInv, NEW r \in Runs, CoveredRun(r), r \in sent
  PROVE  InPlace(stored \cup written[r]) = ScriptRows
<1>1. StageAt(r)
  BY DEF SeederInv, RunInv
<1>2. at[r] = Len(Script) + 1 /\ pc[r] # "audit" /\ Open(r)
  BY <1>1 DEF StageAt, Open
<1>3. Passed(r) = Len(Script)
  BY <1>2, ScriptTyped DEF Passed
<1>4. \A s \in ScriptRows : \E row \in stored \cup written[r] : Conflicts(row, s)
  BY <1>2, <1>3, ScriptRowIndex DEF CoveredRun
<1> QED
  BY <1>4 DEF InPlace

LEMMA CommitSeeds ==
  ASSUME SeederInv, NEW r \in Runs, Deletable = {} => CoveredRun(r), ServerCommits(r)
  PROVE  SeedStep(r)
<1> DEFINE part == InPlace(stored \cup written[r])
<1>1. /\ r \in sent /\ stored' = stored \cup written[r] /\ outbox' = outbox \cup events[r]
  BY DEF ServerCommits
<1>2. Complete(stored, written[r], part)
  BY <1>1, SentIsComplete
<1>3. Tables(stored)' = Tables(stored \cup written[r])
  BY <1>1 DEF Tables, AsPolicy, ListWords, PoliciesIn
<1>4. EventsAt(r) /\ StageAt(r)
  BY DEF SeederInv, RunInv
<1>5. pc[r] # "audit"
  BY <1>1, <1>4 DEF StageAt
<1>6. events[r] = {[policy |-> p.policy, by |-> r] : p \in PoliciesIn(written[r])}
  BY <1>4, <1>5 DEF EventsAt, PoliciesIn, SeededEvent
<1>7. \A p \in PoliciesIn(written[r]) : AsPolicy(part, p).id = p.policy
  <2>1. \A p \in PoliciesIn(written[r]) : p \in Rows /\ p.table = "policies"
    BY <1>2, ScriptTyped DEF Complete, PoliciesIn
  <2> QED
    BY <2>1, PolicyOfItself DEF AsPolicy
<1>8. Deletable = {} => part = ScriptRows
  BY <1>1, AllInPlace
<1> HIDE DEF part
<1>9. Store!FreshSeeds(Tables(stored), Tables(part))
        = {AsPolicy(part, p) : p \in PoliciesIn(written[r])}
  BY <1>2, FreshSeedsWritten
<1>10. events[r] = {[policy |-> s.id, by |-> r] :
                      s \in Store!FreshSeeds(Tables(stored), Tables(part))}
  BY <1>6, <1>7, <1>9
<1>11. Store!FreshSeeds(Tables(stored), Tables(part)) \subseteq Tables(ScriptRows)
  BY <1>2, <1>9, FreshWhole DEF Tables
<1>12. Tables(part) \in Store!SeedParts(Tables(ScriptRows))
  BY <1>2, PartInPlace
<1>13. /\ Store!SeedAccepted(Tables(stored), Tables(part))
       /\ Tables(stored)' = Store!SeededPolicies(Tables(stored), Tables(part))
  BY <1>2, <1>3, SeedsAccepted, TablesSeeded
<1> QED
  BY <1>1, <1>8, <1>10, <1>11, <1>12, <1>13 DEF SeedStep, part

LEMMA OnlyServerCommits ==
  ASSUME SeederInv, [Next]_vars, NEW r \in committed' \ committed
  PROVE  r \in Runs /\ ServerCommits(r)
<1>1. committed' # committed
  OBVIOUS
<1>2. PICK q \in Runs : Proceed(q) \/ EndCommit(q) \/ Fail(q) \/ Server(q)
  BY <1>1 DEF Next, Operate, OperatorInserts, OperatorDeletes, Terminated, vars
<1>3. ServerCommits(q)
  BY <1>1, <1>2 DEF Proceed, Start, InsertRow, SkipRow, InsertAudit, RefuseOrphan, SendCommit,
     EndCommit, Succeed, CommitFails, Fail, StartFails, StatementFails, Server, ServerAborts
<1>4. q = r
  BY <1>3 DEF ServerCommits
<1> QED
  BY <1>3, <1>4

\* The COMMIT of a run is Exchange's one step for it, whatever other runs and an operator
\* inserted or deleted between its statements; and it is the step with all seeds, while nobody
\* deletes policies or lists.
THEOREM SeedingIsOneStep == Spec => CommitIsOneStep
<1> DEFINE AllCovered == Deletable = {} => \A q \in Runs : CoveredRun(q)
           OneStep == \A r \in committed' \ committed : SeedStep(r)
<1>1. Init => AllCovered
  BY InitCovered
<1>2. SeederInv /\ AllCovered /\ [Next]_vars => AllCovered'
  BY NextCovered
<1>3. SeederInv /\ AllCovered /\ [Next]_vars => [OneStep]_vars
  BY OnlyServerCommits, CommitSeeds
<1> HIDE DEF OneStep
<1>4. Spec => [][OneStep]_vars
  BY <1>1, <1>2, <1>3, SeederInvariant, PTL DEF Spec
<1> QED
  BY <1>4 DEF CommitIsOneStep, OneStep
=============================================================================
