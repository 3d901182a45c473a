---------------------------- MODULE SeedsProofs ----------------------------
(***************************************************************************)
(* Theorems about Seeds, for any number of servers, any list of scripts,   *)
(* run in any order, and any number of stops.                              *)
(***************************************************************************)
EXTENDS Seeds, SequenceTheorems, TLAPS

-----------------------------------------------------------------------------
(* What the scripts have in common.                                        *)

\* Parts after which their table has rows.
Filling == {"ensure", "make", "need", "demand"}

\* Tables other rows refer to.
Referred == UNION {Parents[t] : t \in Tables}

\* A part is one of these.
PartOK(part) ==
  \/ /\ part.op \in Filling /\ part.table \in Tables \ {"ChallengeAccount", "Media"}
     /\ part.keys \in SUBSET Keys /\ part.keys # {}
  \/ part.op = "wipe" /\ part.table \in {"Withdrawal", "BrokerAccount"} /\ part.keys = {1}
  \/ part.op = "unlink" /\ part.keys = {1}
  \/ part.op \in {"link", "relink"} /\ part.table = "ChallengeAccount" /\ part.keys = Keys

\* The tables that have rows when a part before the i-th is over.
FilledBefore(parts, i) == {parts[j].table : j \in {m \in 1..(i - 1) : parts[m].op \in Filling}}

\* A row of table t has what table u must have: it is one, or refers to one.
Gives(t, u) == u = t \/ (t \in Referred /\ u \in Parents[t])

\* Whatever a part's rows refer to has been looked at or filled by an earlier
\* part, or is what such rows refer to.
InOrder(parts, i) ==
  parts[i].op \in {"ensure", "make"} =>
    \A u \in Parents[parts[i].table] :
      \E t \in FilledBefore(parts, i) : Gives(t, u)

\* Links are cut before the accounts are wiped, and made after that; a script
\* wipes no table it makes rows in before, and one that links makes no challenges.
Apart(parts, i, j) ==
  /\ parts[i].op = "wipe" /\ parts[j].op = "ensure" => parts[i].table # parts[j].table
  /\ parts[i].op \in {"link", "relink"} /\ parts[j].op \in {"ensure", "make"} => parts[j].table # "Challenge"
  /\ parts[i].op \in {"link", "relink"} /\ parts[j].op = "unlink" => j < i

Cuts(parts, i) ==
  parts[i].op = "wipe" /\ parts[i].table = "BrokerAccount" => i > 1 /\ parts[i - 1].op = "unlink"

Sound(parts) ==
  /\ Len(parts) \in Nat \ {0}
  /\ \A i \in 1..Len(parts) :
       /\ PartOK(parts[i]) /\ InOrder(parts, i) /\ Cuts(parts, i)
       /\ \A j \in 1..Len(parts) : Apart(parts, i, j)

Known == DOMAIN Scripts \cup {"boot"}

\* The boot only looks for rows the database keeps unique.
BootOnlyEnsures ==
  \A i \in 1..Len(seedOnBoot) :
    seedOnBoot[i].op = "ensure" /\ seedOnBoot[i].table \in {"Role", "Permission", "RolePermission"}

ScriptsAreSound == BootOnlyEnsures /\ \A s \in Known : Sound(Parts(s))

-----------------------------------------------------------------------------
(* The inductive invariant.                                                *)

\* Done(x): what a process in state x has behind it is in the database.
DoneKeys(x, j) == LET keys == Parts(x.script)[j].keys IN IF j < x.part THEN keys ELSE keys \ x.todo

Done(x) ==
  \A j \in 1..x.part :
    LET part == Parts(x.script)[j] IN
    /\ part.op = "ensure" => \A k \in DoneKeys(x, j) : Has(part.table, k)
    /\ part.op \in {"link", "relink"} => \A k \in DoneKeys(x, j) : Has("Challenge", k) => k \in linked
    /\ j < x.part /\ part.op \in Filling /\ part.table \in Referred => Filled(part.table)

\* Where a process stands.
Stands(p) ==
  LET x == proc[p]  part == Part(p) IN
  /\ x.todo \subseteq part.keys
  /\ x.at = "end" <=> x.todo = {}
  /\ x.at = "end" => x.part = Len(Parts(x.script))
  /\ x.at = "save" => /\ part.op \in {"ensure", "link", "relink"}
                      /\ part.op = "ensure" /\ part.table \notin Unique => ~Has(part.table, NextKey(p))
  /\ x.at = "bind" => part.op \in {"link", "relink"} /\ Has("ChallengeAccount", NextKey(p))
  /\ x.at = "media" => part.op \in {"ensure", "make"} /\ part.table = "Verification" /\ Has("Verification", NextKey(p))
  /\ x.at = "run" /\ part.op = "wipe" /\ part.table = "BrokerAccount" => linked = {}

ProcInv ==
  \A p \in Processes : Running(p) =>
    /\ Stands(p) /\ Done(proc[p])
    /\ p # Cli => proc[p].script = "boot"

SeedsInv == SeedsTypeOK /\ ProcInv /\ EnsuredOnce /\ ReferencesHold

-----------------------------------------------------------------------------
(* The scripts that only fill tables.                                      *)

PlainTables == Tables \ {"ChallengeAccount", "Media"}
KeySets == (SUBSET Keys) \ {{}}
PlainPart == [op : Filling, table : PlainTables, keys : KeySets]
Plain == Seq(PlainPart)

TablesOf(parts) == {parts[i].table : i \in 1..Len(parts)}

\* In order, once the tables of C have rows.
Ordered(parts, C) ==
  \A i \in 1..Len(parts) :
    parts[i].op \in {"ensure", "make"} =>
      \A u \in Parents[parts[i].table] : \E t \in C \cup FilledBefore(parts, i) : Gives(t, u)

LEMMA KeysOfParts ==
  /\ \A k \in Keys : {k} \in KeySets
  /\ {1} \in KeySets /\ {1, 2} \in KeySets /\ {2, 3} \in KeySets /\ {1, 2, 3} \in KeySets
<1>1. \A i, j \in Keys : {i} \in KeySets /\ {i, j} \in KeySets /\ {1, 2, 3} \in KeySets
  BY DEF KeySets, Keys
<1> QED BY <1>1 DEF Keys

LEMMA PartsArePlain ==
  ASSUME NEW t \in PlainTables, NEW ks \in KeySets
  PROVE  Ensure(t, ks) \in PlainPart /\ Make(t, ks) \in PlainPart /\ Need(t) \in PlainPart /\ Demand(t) \in PlainPart
BY KeysOfParts DEF Ensure, Make, Need, Demand, PlainPart, Filling

LEMMA PlainNames ==
  {"Role", "Permission", "RolePermission", "UserAccount", "Affiliate", "BrokerAccount", "Style",
   "ChallengeCategory", "ChallengePlan", "ChallengeBalance", "ChallengeStage", "StageRule",
   "ChallengeRelation", "RelationBalance", "RelationStage", "StageParameter", "Challenge",
   "ChallengeDetails", "Certificate", "CustomerOrder", "Withdrawal", "Verification"} \subseteq PlainTables
BY DEF PlainTables, Tables, Parents

\* No table that is wiped is referred to.
LEMMA TablesReferred ==
  /\ Referred \subseteq Tables \ {"Withdrawal", "BrokerAccount", "ChallengeAccount", "Media"}
  /\ "Challenge" \in Referred
<1>1. \A t \in Tables : Parents[t] \subseteq Tables \ {"Withdrawal", "BrokerAccount", "ChallengeAccount", "Media"}
  BY DEF Tables, Parents
<1>2. "Certificate" \in Tables /\ "Challenge" \in Parents["Certificate"]
  BY DEF Tables, Parents
<1> QED BY <1>1, <1>2 DEF Referred

\* One script after another is in order if the second finds the tables it needs.
LEMMA ConcatOrdered ==
  ASSUME NEW p \in Plain, NEW q \in Plain, NEW C, NEW D, Ordered(p, C), Ordered(q, D), D \subseteq C \cup TablesOf(p)
  PROVE  p \o q \in Plain /\ Ordered(p \o q, C) /\ TablesOf(p \o q) = TablesOf(p) \cup TablesOf(q)
<1> DEFINE s == p \o q
<1>1. /\ s \in Plain
      /\ Len(p) \in Nat /\ Len(q) \in Nat /\ Len(s) = Len(p) + Len(q)
      /\ \A i \in 1..Len(s) : s[i] = IF i <= Len(p) THEN p[i] ELSE q[i - Len(p)]
  BY ConcatProperties, LenProperties DEF Plain
<1> HIDE DEF s
<1>2. \A i \in 1..Len(p) : s[i] = p[i] /\ p[i] \in PlainPart
  BY <1>1, ElementOfSeq DEF Plain
<1>3. \A i \in 1..Len(q) : s[Len(p) + i] = q[i] /\ Len(p) + i \in 1..Len(s)
  BY <1>1
<1>4. TablesOf(s) = TablesOf(p) \cup TablesOf(q)
  <2>1. TablesOf(s) \subseteq TablesOf(p) \cup TablesOf(q) BY <1>1 DEF TablesOf
  <2>2. TablesOf(p) \subseteq TablesOf(s) BY <1>1, <1>2 DEF TablesOf
  <2>3. TablesOf(q) \subseteq TablesOf(s) BY <1>3 DEF TablesOf
  <2> QED BY <2>1, <2>2, <2>3
<1>5. ASSUME NEW i \in 1..Len(s), s[i].op \in {"ensure", "make"}, NEW u \in Parents[s[i].table]
      PROVE  \E t \in C \cup FilledBefore(s, i) : Gives(t, u)
  <2>1. CASE i <= Len(p)
    <3>1. s[i] = p[i] /\ i \in 1..Len(p) BY <1>1, <2>1
    <3>2. PICK t \in C \cup FilledBefore(p, i) : Gives(t, u) BY <1>5, <3>1 DEF Ordered
    <3>3. FilledBefore(p, i) \subseteq FilledBefore(s, i) BY <1>1, <1>2, <3>1 DEF FilledBefore
    <3> QED BY <3>2, <3>3
  <2>2. CASE ~(i <= Len(p))
    <3>1. PICK j \in 1..Len(q) : i = Len(p) + j /\ s[i] = q[j]
      <4>1. i - Len(p) \in 1..Len(q) /\ i = Len(p) + (i - Len(p)) BY <1>1, <2>2
      <4> QED BY <1>1, <2>2, <4>1
    <3>2. PICK t \in D \cup FilledBefore(q, j) : Gives(t, u) BY <1>5, <3>1 DEF Ordered
    <3>3. TablesOf(p) \subseteq FilledBefore(s, i)
      <4>1. \A m \in 1..Len(p) : m \in 1..(i - 1) /\ s[m] = p[m] /\ p[m].op \in Filling
        BY <1>1, <1>2, <3>1 DEF PlainPart
      <4> QED BY <4>1 DEF TablesOf, FilledBefore
    <3>4. FilledBefore(q, j) \subseteq FilledBefore(s, i)
      <4>1. \A m \in 1..(j - 1) : Len(p) + m \in 1..(i - 1) /\ s[Len(p) + m] = q[m]
        BY <1>1, <1>3, <3>1
      <4> QED BY <4>1 DEF FilledBefore
    <3> QED BY <3>2, <3>3, <3>4
  <2> QED BY <2>1, <2>2
<1>6. Ordered(s, C) BY <1>5 DEF Ordered
<1> QED BY <1>1, <1>4, <1>6 DEF s

\* What is in order with few tables filled is with more.
LEMMA OrderedWithMore ==
  ASSUME NEW p, NEW C, NEW D, C \subseteq D, Ordered(p, C)
  PROVE  Ordered(p, D)
BY DEF Ordered

\* What every process ensures when it boots.
BootTables == {"Role", "Permission", "RolePermission"}

\* The tables the relations of the templates are made from.
CatalogueTables == {"ChallengePlan", "ChallengeBalance", "ChallengeStage", "StageRule"}

LEMMA BootOrdered ==
  /\ seedOnBoot \in Plain /\ Len(seedOnBoot) = 3
  /\ Ordered(seedOnBoot, {}) /\ TablesOf(seedOnBoot) = BootTables
<1>1. seedOnBoot \in Plain BY PartsArePlain, KeysOfParts, PlainNames DEF seedOnBoot, Plain
<1>2. Len(seedOnBoot) = 3 BY DEF seedOnBoot
<1>3. Ordered(seedOnBoot, {}) BY DEF seedOnBoot, Ensure, Ordered, Gives, Parents, FilledBefore, Filling
<1>4. TablesOf(seedOnBoot) = BootTables BY DEF seedOnBoot, Ensure, TablesOf, BootTables
<1> QED BY <1>1, <1>2, <1>3, <1>4

LEMMA UsersOrdered ==
  /\ seedUsers \in Plain /\ Ordered(seedUsers, {"Role"})
  /\ seedSpecificUser \in Plain /\ Ordered(seedSpecificUser, {"Role"})
<1>1. seedUsers \in Plain /\ seedSpecificUser \in Plain
  BY PartsArePlain, KeysOfParts, PlainNames DEF seedUsers, seedSpecificUser, Plain, Keys
<1>2. Ordered(seedUsers, {"Role"}) /\ Ordered(seedSpecificUser, {"Role"})
  BY DEF seedUsers, seedSpecificUser, Ensure, Ordered, Gives, Parents, FilledBefore, Filling
<1> QED BY <1>1, <1>2

LEMMA AccountsOrdered ==
  /\ seedAffiliates \in Plain /\ Ordered(seedAffiliates, {})
  /\ seedBrokerAccountsRealistic \in Plain /\ Ordered(seedBrokerAccountsRealistic, {})
  /\ seedStyles \in Plain /\ Ordered(seedStyles, {})
<1>1. seedAffiliates \in Plain /\ seedBrokerAccountsRealistic \in Plain /\ seedStyles \in Plain
  BY PartsArePlain, KeysOfParts, PlainNames DEF seedAffiliates, seedBrokerAccountsRealistic, seedStyles, Plain
<1>2. Ordered(seedAffiliates, {}) /\ Ordered(seedBrokerAccountsRealistic, {}) /\ Ordered(seedStyles, {})
  BY DEF seedAffiliates, seedBrokerAccountsRealistic, seedStyles, Ensure, Need, Ordered, Gives, Parents, FilledBefore, Filling
<1> QED BY <1>1, <1>2

LEMMA ComprehensiveOrdered ==
  seedTemplatesComprehensive \in Plain /\ Ordered(seedTemplatesComprehensive, {})
<1> DEFINE R(r) == comprehensiveRelation(r)
<1>1. /\ comprehensiveCatalogue \in Plain /\ Ordered(comprehensiveCatalogue, {})
      /\ CatalogueTables \subseteq TablesOf(comprehensiveCatalogue)
  <2>1. comprehensiveCatalogue \in Plain
    BY PartsArePlain, KeysOfParts, PlainNames DEF comprehensiveCatalogue, Plain
  <2>2. Ordered(comprehensiveCatalogue, {})
    BY DEF comprehensiveCatalogue, Ensure, Ordered, Gives, Parents, FilledBefore, Filling
  <2>3. CatalogueTables \subseteq TablesOf(comprehensiveCatalogue)
    BY DEF comprehensiveCatalogue, Ensure, TablesOf, CatalogueTables
  <2> QED BY <2>1, <2>2, <2>3
<1>2. ASSUME NEW r \in Keys PROVE R(r) \in Plain /\ Ordered(R(r), CatalogueTables)
  <2>1. {r} \in KeySets BY KeysOfParts
  <2>2. R(r) \in Plain BY <2>1, PartsArePlain, PlainNames DEF comprehensiveRelation, Plain
  <2>3. Ordered(R(r), CatalogueTables)
    BY DEF comprehensiveRelation, Ensure, Ordered, Gives, Parents, FilledBefore, Filling, CatalogueTables
  <2> QED BY <2>2, <2>3
<1> DEFINE a == comprehensiveCatalogue \o R(1)
           b == a \o R(2)
<1>3. 1 \in Keys /\ 2 \in Keys /\ 3 \in Keys BY DEF Keys
<1> HIDE DEF R
<1>4. a \in Plain /\ Ordered(a, {}) /\ CatalogueTables \subseteq TablesOf(a) BY <1>1, <1>2, <1>3, ConcatOrdered
<1> HIDE DEF a
<1>5. b \in Plain /\ Ordered(b, {}) /\ CatalogueTables \subseteq TablesOf(b) BY <1>2, <1>3, <1>4, ConcatOrdered
<1> HIDE DEF b
<1>6. b \o R(3) \in Plain /\ Ordered(b \o R(3), {}) BY <1>2, <1>3, <1>5, ConcatOrdered
<1> QED BY <1>6 DEF a, b, R, seedTemplatesComprehensive, comprehensiveTwoStep, comprehensiveOneStep, comprehensiveInstant

LEMMA TemplatesOrdered ==
  seedTemplates \in Plain /\ Ordered(seedTemplates, {})
<1> DEFINE R(r) == templatesRelation(r)
<1>1. /\ templatesCatalogue \in Plain /\ Ordered(templatesCatalogue, {})
      /\ CatalogueTables \subseteq TablesOf(templatesCatalogue)
  <2>1. templatesCatalogue \in Plain
    BY PartsArePlain, KeysOfParts, PlainNames DEF templatesCatalogue, Plain
  <2>2. Ordered(templatesCatalogue, {})
    BY DEF templatesCatalogue, Ensure, Ordered, Gives, Parents, FilledBefore, Filling
  <2>3. CatalogueTables \subseteq TablesOf(templatesCatalogue)
    BY DEF templatesCatalogue, Ensure, TablesOf, CatalogueTables
  <2> QED BY <2>1, <2>2, <2>3
<1>2. ASSUME NEW r \in Keys PROVE R(r) \in Plain /\ Ordered(R(r), CatalogueTables)
  <2>1. {r} \in KeySets BY KeysOfParts
  <2>2. R(r) \in Plain BY <2>1, PartsArePlain, PlainNames DEF templatesRelation, Plain
  <2>3. Ordered(R(r), CatalogueTables)
    BY DEF templatesRelation, Ensure, Ordered, Gives, Parents, FilledBefore, Filling, CatalogueTables
  <2> QED BY <2>2, <2>3
<1>3. 1 \in Keys /\ 2 \in Keys BY DEF Keys
<1> HIDE DEF R
<1>4. R(1) \o R(2) \in Plain /\ Ordered(R(1) \o R(2), CatalogueTables) BY <1>2, <1>3, ConcatOrdered
<1>5. LET s == R(1) \o R(2) IN templatesCatalogue \o s \in Plain /\ Ordered(templatesCatalogue \o s, {})
  BY <1>1, <1>4, ConcatOrdered
<1> QED BY <1>5 DEF R, seedTemplates, templatesRelations

LEMMA ChallengesOrdered ==
  /\ seedChallenges \in Plain /\ Ordered(seedChallenges, {})
  /\ seedChallengesReal \in Plain /\ Ordered(seedChallengesReal, {})
<1>1. seedChallenges \in Plain /\ seedChallengesReal \in Plain
  BY PartsArePlain, KeysOfParts, PlainNames DEF seedChallenges, seedChallengesReal, Plain
<1>2. Ordered(seedChallenges, {}) /\ Ordered(seedChallengesReal, {})
  BY DEF seedChallenges, seedChallengesReal, Ensure, Make, Need, Ordered, Gives, Parents, FilledBefore, Filling
<1> QED BY <1>1, <1>2

\* The scripts of what a user has: the pieces of each make rows of one table.
LEMMA OfUsersOrdered ==
  /\ seedOrders \in Plain /\ Ordered(seedOrders, {})
  /\ seedWithdrawals \in Plain /\ Ordered(seedWithdrawals, {})
  /\ seedVerifications \in Plain /\ Ordered(seedVerifications, {})
<1> DEFINE n == <<Need("UserAccount")>>
           U == {"UserAccount"}
<1>1. n \in Plain /\ Ordered(n, {}) /\ TablesOf(n) = U
  <2>1. n \in Plain BY PartsArePlain, KeysOfParts, PlainNames DEF Plain
  <2>2. Ordered(n, {}) /\ TablesOf(n) = U BY DEF Need, Ordered, TablesOf
  <2> QED BY <2>1, <2>2
<1> HIDE DEF n
<1>2. ASSUME NEW t \in {"CustomerOrder", "Withdrawal", "Verification"}, NEW ks \in KeySets,
             NEW q \in {<<Ensure(t, ks)>>, <<Make(t, ks)>>}
      PROVE  q \in Plain /\ Ordered(q, U)
  <2>1. q \in Plain
    <3>1. t \in PlainTables BY PlainNames
    <3>2. Ensure(t, ks) \in PlainPart /\ Make(t, ks) \in PlainPart BY <3>1, PartsArePlain
    <3>3. <<Ensure(t, ks)>> \in Seq(PlainPart) /\ <<Make(t, ks)>> \in Seq(PlainPart) BY <3>2
    <3> QED BY <3>3 DEF Plain
  <2>2. Ordered(q, U) BY DEF Ensure, Make, Ordered, Gives, Parents
  <2> QED BY <2>1, <2>2
<1>3. ASSUME NEW p \in Plain, NEW q \in Plain, Ordered(p, U), Ordered(q, U)
      PROVE  n \o p \o q \in Plain /\ Ordered(n \o p \o q, {})
  <2> DEFINE np == n \o p
  <2>1. np \in Plain /\ Ordered(np, {}) /\ U \subseteq TablesOf(np) BY <1>1, <1>3, ConcatOrdered
  <2> HIDE DEF np
  <2>2. np \o q \in Plain /\ Ordered(np \o q, {}) BY <1>3, <2>1, ConcatOrdered
  <2> QED BY <2>2 DEF np
<1>4. {3} \in KeySets BY KeysOfParts DEF Keys
<1>5. seedOrders \in Plain /\ Ordered(seedOrders, {})
  <2>1. /\ ordersByStatus \in Plain /\ Ordered(ordersByStatus, U)
        /\ ordersOfBuyers \in Plain /\ Ordered(ordersOfBuyers, U)
    BY <1>2, <1>4, KeysOfParts DEF ordersByStatus, ordersOfBuyers
  <2> QED BY <1>3, <2>1 DEF seedOrders, n
<1>6. seedWithdrawals \in Plain /\ Ordered(seedWithdrawals, {})
  <2>1. /\ withdrawalsByStatus \in Plain /\ Ordered(withdrawalsByStatus, U)
        /\ <<Make("Withdrawal", {3})>> \in Plain /\ Ordered(<<Make("Withdrawal", {3})>>, U)
    BY <1>2, <1>4, KeysOfParts DEF withdrawalsByStatus
  <2> QED BY <1>3, <2>1 DEF seedWithdrawals, n
<1>7. seedVerifications \in Plain /\ Ordered(seedVerifications, {})
  <2>1. /\ verificationsOfUsers \in Plain /\ Ordered(verificationsOfUsers, U)
        /\ <<Ensure("Verification", {2, 3})>> \in Plain /\ Ordered(<<Ensure("Verification", {2, 3})>>, U)
    BY <1>2, KeysOfParts DEF verificationsOfUsers
  <2> QED BY <1>3, <2>1 DEF seedVerifications, n
<1> QED BY <1>5, <1>6, <1>7

LEMMA CertificatesOrdered ==
  seedCertificates \in Plain /\ Ordered(seedCertificates, {})
<1> DEFINE n == <<Need("UserAccount"), Need("Challenge")>>
           U == {"UserAccount", "Challenge"}
           nc == n \o certificatesByStatus
<1>1. n \in Plain /\ Ordered(n, {}) /\ TablesOf(n) = U
  <2>1. n \in Plain BY PartsArePlain, KeysOfParts, PlainNames DEF Plain
  <2>2. Ordered(n, {}) /\ TablesOf(n) = U BY DEF Need, Ordered, TablesOf
  <2> QED BY <2>1, <2>2
<1> HIDE DEF n
<1>2. /\ certificatesByStatus \in Plain /\ Ordered(certificatesByStatus, U)
      /\ certificatesByPhase \in Plain /\ Ordered(certificatesByPhase, U)
  <2>1. certificatesByStatus \in Plain /\ certificatesByPhase \in Plain
    BY PartsArePlain, KeysOfParts, PlainNames DEF certificatesByStatus, certificatesByPhase, Plain
  <2>2. Ordered(certificatesByStatus, U) /\ Ordered(certificatesByPhase, U)
    BY DEF certificatesByStatus, certificatesByPhase, Ensure, Ordered, Gives, Parents
  <2> QED BY <2>1, <2>2
<1>3. nc \in Plain /\ Ordered(nc, {}) /\ U \subseteq TablesOf(nc) BY <1>1, <1>2, ConcatOrdered
<1> HIDE DEF nc
<1>4. nc \o certificatesByPhase \in Plain /\ Ordered(nc \o certificatesByPhase, {}) BY <1>2, <1>3, ConcatOrdered
<1> QED BY <1>4 DEF n, nc, seedCertificates

\* The challenge that is given has a user.
LEMMA SpecificOrdered ==
  seedSpecificChallenge \in Plain /\ Ordered(seedSpecificChallenge, {})
<1> DEFINE n == <<Need("Challenge")>>
           U == {"Challenge"}
           nr == n \o specificRecords
<1>1. n \in Plain /\ Ordered(n, {}) /\ TablesOf(n) = U
  <2>1. n \in Plain BY PartsArePlain, KeysOfParts, PlainNames DEF Plain
  <2>2. Ordered(n, {}) /\ TablesOf(n) = U BY DEF Need, Ordered, TablesOf
  <2> QED BY <2>1, <2>2
<1> HIDE DEF n
<1>2. /\ specificRecords \in Plain /\ Ordered(specificRecords, U)
      /\ specificDetails \in Plain /\ Ordered(specificDetails, U)
  <2>1. {4} \in KeySets BY KeysOfParts DEF Keys
  <2>2. specificRecords \in Plain /\ specificDetails \in Plain
    BY <2>1, PartsArePlain, KeysOfParts, PlainNames DEF specificRecords, specificDetails, Plain
  <2>3. Ordered(specificRecords, U) /\ Ordered(specificDetails, U)
    BY TablesReferred DEF specificRecords, specificDetails, Ensure, Ordered, Gives, Parents
  <2> QED BY <2>2, <2>3
<1>3. nr \in Plain /\ Ordered(nr, {}) /\ U \subseteq TablesOf(nr) BY <1>1, <1>2, ConcatOrdered
<1> HIDE DEF nr
<1>4. nr \o specificDetails \in Plain /\ Ordered(nr \o specificDetails, {}) BY <1>2, <1>3, ConcatOrdered
<1> QED BY <1>4 DEF n, nr, seedSpecificChallenge

\* A script that only fills tables is sound.
LEMMA PlainIsSound ==
  ASSUME NEW p \in Plain, Len(p) > 0, Ordered(p, {})
  PROVE  Sound(p)
<1>1. Len(p) \in Nat \ {0} BY LenProperties DEF Plain
<1>2. ASSUME NEW i \in 1..Len(p) PROVE PartOK(p[i]) /\ p[i].op \in Filling
  <2>1. p[i] \in PlainPart BY ElementOfSeq DEF Plain
  <2>2. p[i].op \in Filling /\ p[i].table \in PlainTables /\ p[i].keys \in KeySets BY <2>1 DEF PlainPart
  <2> QED BY <2>2 DEF PartOK, Filling, PlainTables, KeySets
<1>3. \A i \in 1..Len(p) : InOrder(p, i) BY DEF Ordered, InOrder
<1> QED BY <1>1, <1>2, <1>3 DEF Sound, Cuts, Apart, Filling

\* With the boot before it a plain script is sound too.
LEMMA BootedIsSound ==
  ASSUME NEW p \in Plain, NEW C, C \subseteq BootTables, Ordered(p, C)
  PROVE  Sound(seedOnBoot \o p)
<1>1. seedOnBoot \o p \in Plain /\ Ordered(seedOnBoot \o p, {}) BY BootOrdered, ConcatOrdered
<1>2. Len(seedOnBoot \o p) > 0 BY BootOrdered, ConcatProperties, LenProperties DEF Plain
<1> QED BY <1>1, <1>2, PlainIsSound

\* The scripts that wipe or link, with the boot before them.
LEMMA WipingIsSound == Sound(seedOnBoot \o withdrawalsSeed)
<1> DEFINE s == seedOnBoot \o withdrawalsSeed
<1>1. /\ Len(s) = 6
      /\ s[1] = Ensure("Role", {1, 2, 3}) /\ s[2] = Ensure("Permission", {1}) /\ s[3] = Ensure("RolePermission", {1})
      /\ s[4] = Wipe("Withdrawal") /\ s[5] = Demand("UserAccount") /\ s[6] = Make("Withdrawal", {1})
  BY DEF seedOnBoot, withdrawalsSeed
<1> HIDE DEF s
<1>2. \A i \in 1..6 : i = 1 \/ i = 2 \/ i = 3 \/ i = 4 \/ i = 5 \/ i = 6 OBVIOUS
<1>3. \A i \in 1..6 : PartOK(s[i])
  BY <1>1, <1>2, PlainNames, KeysOfParts DEF Ensure, Wipe, Demand, Make, PartOK, Filling, PlainTables, KeySets
<1>4. \A i \in 1..6 : Cuts(s, i) /\ \A j \in 1..6 : Apart(s, i, j)
  BY <1>1, <1>2 DEF Ensure, Wipe, Demand, Make, Cuts, Apart
<1>5. \A i \in 1..6 : InOrder(s, i)
  BY <1>1, <1>2 DEF Ensure, Wipe, Demand, Make, InOrder, Gives, FilledBefore, Filling, Parents
<1> QED BY <1>1, <1>3, <1>4, <1>5 DEF Sound, s

LEMMA LinkingIsSound == Sound(seedOnBoot \o seedBrokerAccounts) /\ Sound(seedOnBoot \o seedBrokerAccountsReal)
<1> DEFINE s == seedOnBoot \o seedBrokerAccounts
           r == seedOnBoot \o seedBrokerAccountsReal
<1>1. /\ Len(s) = 7
      /\ s[1] = Ensure("Role", {1, 2, 3}) /\ s[2] = Ensure("Permission", {1}) /\ s[3] = Ensure("RolePermission", {1})
      /\ s[4] = Unlink /\ s[5] = Wipe("BrokerAccount") /\ s[6] = Need("Challenge") /\ s[7] = Link
  BY DEF seedOnBoot, seedBrokerAccounts
<1>2. /\ Len(r) = 5
      /\ r[1] = Ensure("Role", {1, 2, 3}) /\ r[2] = Ensure("Permission", {1}) /\ r[3] = Ensure("RolePermission", {1})
      /\ r[4] = Need("Challenge") /\ r[5] = Relink
  BY DEF seedOnBoot, seedBrokerAccountsReal
<1> HIDE DEF s, r
<1>3. Sound(s)
  <2>1. \A i \in 1..7 : i = 1 \/ i = 2 \/ i = 3 \/ i = 4 \/ i = 5 \/ i = 6 \/ i = 7 OBVIOUS
  <2>2. \A i \in 1..7 : PartOK(s[i])
    BY <1>1, <2>1, PlainNames, KeysOfParts
    DEF Ensure, Unlink, Wipe, Need, Link, PartOK, Filling, PlainTables, KeySets
  <2>3. \A i \in 1..7 : Cuts(s, i) /\ \A j \in 1..7 : Apart(s, i, j)
    BY <1>1, <2>1 DEF Ensure, Unlink, Wipe, Need, Link, Cuts, Apart
  <2>4. \A i \in 1..7 : InOrder(s, i)
    BY <1>1, <2>1 DEF Ensure, Unlink, Wipe, Need, Link, InOrder, Gives, FilledBefore, Filling, Parents
  <2> QED BY <1>1, <2>2, <2>3, <2>4 DEF Sound
<1>4. Sound(r)
  <2>1. \A i \in 1..5 : i = 1 \/ i = 2 \/ i = 3 \/ i = 4 \/ i = 5 OBVIOUS
  <2>2. \A i \in 1..5 : PartOK(r[i])
    BY <1>2, <2>1, PlainNames, KeysOfParts
    DEF Ensure, Relink, Need, PartOK, Filling, PlainTables, KeySets
  <2>3. \A i \in 1..5 : Cuts(r, i) /\ \A j \in 1..5 : Apart(r, i, j)
    BY <1>2, <2>1 DEF Ensure, Relink, Need, Cuts, Apart
  <2>4. \A i \in 1..5 : InOrder(r, i)
    BY <1>2, <2>1 DEF Ensure, Relink, Need, InOrder, Gives, FilledBefore, Filling, Parents
  <2> QED BY <1>2, <2>2, <2>3, <2>4 DEF Sound
<1> QED BY <1>3, <1>4 DEF s, r

\* Every script, with the boot before it, keeps the order of the tables, wipes
\* nothing it has filled and cuts the links before it wipes the accounts.
THEOREM ScriptsSound == ScriptsAreSound
<1>1. BootOnlyEnsures
  <2>1. \A i \in 1..3 : i = 1 \/ i = 2 \/ i = 3 OBVIOUS
  <2> QED BY <2>1, BootOrdered DEF BootOnlyEnsures, seedOnBoot, Ensure
<1>2. Sound(seedOnBoot) BY BootOrdered, PlainIsSound
<1>3. Sound(seedStyles)
  <2>1. Len(seedStyles) > 0 BY DEF seedStyles
  <2> QED BY <2>1, AccountsOrdered, PlainIsSound
<1>4. ASSUME NEW s \in DOMAIN Scripts \ {"styles"} PROVE Sound(seedOnBoot \o Scripts[s])
  <2>1. {"Role"} \subseteq BootTables /\ {} \subseteq BootTables BY DEF BootTables
  <2>2. CASE s \in {"users", "specificUser"}
    BY <2>1, <2>2, UsersOrdered, BootedIsSound DEF Scripts
  <2>3. CASE s \in {"affiliates", "brokerAccountsRealistic", "templatesComprehensive", "templates"}
    BY <2>1, <2>3, AccountsOrdered, ComprehensiveOrdered, TemplatesOrdered, BootedIsSound DEF Scripts
  <2>4. CASE s \in {"challenges", "challengesReal", "orders", "certificates", "withdrawals", "verifications",
                    "specificChallenge"}
    BY <2>1, <2>4, ChallengesOrdered, OfUsersOrdered, CertificatesOrdered, SpecificOrdered, BootedIsSound DEF Scripts
  <2>5. CASE s \in {"withdrawalsSeed", "brokerAccounts", "brokerAccountsReal"}
    BY <2>5, WipingIsSound, LinkingIsSound DEF Scripts
  <2> QED BY <1>4, <2>2, <2>3, <2>4, <2>5 DEF Scripts
<1>5. ASSUME NEW s \in Known PROVE Sound(Parts(s))
  <2>1. CASE s = "boot" BY <1>2, <2>1 DEF Parts
  <2>2. CASE s = "styles" BY <1>3, <2>2 DEF Parts
  <2>3. CASE s \in DOMAIN Scripts \ {"styles"}
    <3>1. s # "boot" BY <2>3 DEF Scripts
    <3> QED BY <1>4, <2>3, <3>1 DEF Parts
  <2> QED BY <1>5, <2>1, <2>2, <2>3 DEF Known
<1> QED BY <1>1, <1>5 DEF ScriptsAreSound

-----------------------------------------------------------------------------
(* A step of one process.                                                  *)

LEMMA NextKeyIn ==
  ASSUME NEW p, proc[p].todo \subseteq Keys, proc[p].todo # {}
  PROVE  NextKey(p) \in proc[p].todo
<1> DEFINE S == proc[p].todo
<1>1. \E k \in S : \A m \in S : k <= m
  <2> HIDE DEF S
  <2>1. S \subseteq {1, 2, 3, 4} BY DEF Keys, S
  <2>2. CASE 1 \in S BY <2>1, <2>2
  <2>3. CASE 1 \notin S /\ 2 \in S BY <2>1, <2>3
  <2>4. CASE 1 \notin S /\ 2 \notin S /\ 3 \in S BY <2>1, <2>4
  <2>5. CASE 1 \notin S /\ 2 \notin S /\ 3 \notin S
    <3>1. S = {4} BY <2>1, <2>5 DEF S
    <3> QED BY <3>1
  <2> QED BY <2>2, <2>3, <2>4, <2>5
<1> QED BY <1>1 DEF NextKey

LEMMA PartKeys ==
  ASSUME NEW part, PartOK(part)
  PROVE  part.keys \subseteq Keys /\ part.keys # {}
<1>1. {1} \subseteq Keys /\ Keys # {} BY DEF Keys
<1> QED BY <1>1 DEF PartOK

\* What is known of a process at work.
LEMMA AtWork ==
  ASSUME SeedsInv, NEW p \in Processes, Running(p)
  PROVE  /\ proc[p].script \in Known
         /\ Sound(Parts(proc[p].script))
         /\ proc[p].part \in 1..Len(Parts(proc[p].script)) /\ proc[p].part \in Nat
         /\ Part(p) = Parts(proc[p].script)[proc[p].part]
         /\ PartOK(Part(p)) /\ Part(p).keys \subseteq Keys
         /\ Stands(p) /\ Done(proc[p])
         /\ proc[p].at # "end" => NextKey(p) \in proc[p].todo /\ NextKey(p) \in Part(p).keys /\ NextKey(p) \in Keys
         /\ p # Cli => Part(p).op = "ensure" /\ Part(p).table \in BootTables
<1>1. /\ proc[p].script \in Known
      /\ proc[p].part \in 1..Len(Parts(proc[p].script)) /\ proc[p].part \in Nat
      /\ proc[p].todo \subseteq Keys
  BY DEF SeedsInv, SeedsTypeOK, Known
<1>2. Sound(Parts(proc[p].script)) BY <1>1, ScriptsSound DEF ScriptsAreSound
<1>3. Part(p) = Parts(proc[p].script)[proc[p].part] BY DEF Part
<1>4. PartOK(Part(p)) BY <1>1, <1>2, <1>3 DEF Sound
<1>5. Part(p).keys \subseteq Keys BY <1>4 DEF PartOK, Keys
<1>6. Stands(p) /\ Done(proc[p]) /\ (p # Cli => proc[p].script = "boot") BY DEF SeedsInv, ProcInv
<1>7. proc[p].at # "end" => NextKey(p) \in proc[p].todo /\ NextKey(p) \in Part(p).keys /\ NextKey(p) \in Keys
  BY <1>1, <1>6, NextKeyIn DEF Stands
<1>8. p # Cli => Part(p).op = "ensure" /\ Part(p).table \in BootTables
  <2> SUFFICES ASSUME p # Cli PROVE Part(p).op = "ensure" /\ Part(p).table \in BootTables OBVIOUS
  <2>1. Parts(proc[p].script) = seedOnBoot BY <1>6 DEF Parts
  <2> QED BY <1>1, <1>3, <2>1, ScriptsSound DEF ScriptsAreSound, BootOnlyEnsures, BootTables
<1> QED BY <1>1, <1>2, <1>3, <1>4, <1>5, <1>6, <1>7, <1>8

\* The tables of the boot are unique, and nothing else is made on them.
LEMMA BootTablesUnique ==
  /\ BootTables \subseteq Tables /\ BootTables \subseteq Unique
  /\ {"Challenge", "ChallengeAccount", "Verification", "Media", "BrokerAccount", "Withdrawal"} \cap BootTables = {}
BY DEF BootTables, Tables, Parents, Unique

\* Any step leaves the rows the boot makes, and a step of a server touches no
\* other table and no link.
Mild(p) ==
  /\ \A t \in BootTables, k \in Keys : Has(t, k) => rows'[t][k] > 0
  /\ p # Cli => linked' = linked /\ \A t \in Tables \ BootTables : rows'[t] = rows[t]

\* The other processes stand where they stood.
LEMMA OthersStay ==
  ASSUME SeedsInv, NEW p \in Processes, Mild(p), NEW q \in Processes, q # p, Running(q), proc'[q] = proc[q]
  PROVE  Stands(q)' /\ Done(proc[q])'
<1> DEFINE x == proc[q]
           parts == Parts(x.script)
<1>1. /\ Part(q)' = Part(q) /\ NextKey(q)' = NextKey(q)
  BY DEF Part, NextKey
<1>2. Stands(q) /\ Done(x) /\ PartOK(Part(q)) /\ Sound(parts) /\ x.part \in 1..Len(parts) /\ x.script \in Known
      /\ (x.at # "end" => NextKey(q) \in Keys)
  BY AtWork
<1>3. CASE q # Cli
  <2>1. parts = seedOnBoot BY <1>3 DEF SeedsInv, ProcInv, Parts
  <2>2. \A j \in 1..x.part : /\ parts[j].op = "ensure" /\ parts[j].table \in BootTables
                             /\ parts[j].keys \subseteq Keys
    BY <1>2, <2>1, ScriptsSound DEF ScriptsAreSound, BootOnlyEnsures, BootTables, Sound, PartOK, Filling, Keys
  <2>3. Part(q).op = "ensure" /\ Part(q).table \in BootTables BY <1>2, <2>2 DEF Part
  <2>4. Stands(q)'
    BY <1>1, <1>2, <2>3, BootTablesUnique DEF Stands
  <2>5. Done(x)'
    <3> SUFFICES ASSUME NEW j \in 1..x.part
                 PROVE  /\ \A k \in DoneKeys(x, j) : rows'[parts[j].table][k] > 0
                        /\ j < x.part => \E k \in Keys : rows'[parts[j].table][k] > 0
      BY <2>2 DEF Done, DoneKeys, Has, Filled, Filling
    <3>1. \A k \in DoneKeys(x, j) : Has(parts[j].table, k) /\ k \in Keys BY <1>2, <2>2 DEF Done, DoneKeys
    <3>2. \A k \in DoneKeys(x, j) : rows'[parts[j].table][k] > 0 BY <2>2, <3>1 DEF Mild
    <3>3. j < x.part => \E k \in Keys : k \in DoneKeys(x, j)
      <4>1. PartOK(parts[j]) /\ parts[j].op = "ensure" BY <1>2, <2>2 DEF Sound
      <4> QED BY <4>1 DEF PartOK, DoneKeys
    <3> QED BY <3>2, <3>3
  <2> QED BY <2>4, <2>5
<1>4. CASE q = Cli
  <2>1. linked' = linked /\ \A t \in Tables \ BootTables : rows'[t] = rows[t] BY <1>4 DEF Mild
  <2>2. \A t \in Tables, k \in Keys : Has(t, k) => rows'[t][k] > 0 BY <2>1 DEF Mild, Has
  <2>3. \A k \in Keys : Has("Challenge", k)' <=> Has("Challenge", k)
    BY <2>1, BootTablesUnique DEF Has, Tables, Parents
  <2>4. \A j \in 1..x.part : PartOK(parts[j]) BY <1>2 DEF Sound
  <2>5. Stands(q)'
    <3>1. Part(q).op = "ensure" => Part(q).table \in Tables BY <1>2 DEF PartOK
    <3>2. \A t \in Tables \ Unique : rows'[t] = rows[t] BY <2>1, BootTablesUnique
    <3>3. {"ChallengeAccount", "Verification"} \subseteq Tables BY DEF Tables, Parents
    <3>4. x.at = "save" /\ Part(q).op = "ensure" /\ Part(q).table \notin Unique => ~Has(Part(q).table, NextKey(q))'
      BY <1>1, <1>2, <3>1, <3>2 DEF Stands, Has
    <3>5. x.at = "bind" => Has("ChallengeAccount", NextKey(q))' BY <1>1, <1>2, <2>2, <3>3 DEF Stands, Has
    <3>6. x.at = "media" => Has("Verification", NextKey(q))' BY <1>1, <1>2, <2>2, <3>3 DEF Stands, Has
    <3> QED BY <1>1, <1>2, <2>1, <3>4, <3>5, <3>6 DEF Stands
  <2>6. ASSUME NEW j \in 1..x.part
        PROVE  /\ parts[j].op = "ensure" => \A k \in DoneKeys(x, j) : Has(parts[j].table, k)'
               /\ parts[j].op \in {"link", "relink"} => \A k \in DoneKeys(x, j) : Has("Challenge", k)' => k \in linked'
               /\ j < x.part /\ parts[j].op \in Filling /\ parts[j].table \in Referred => Filled(parts[j].table)'
    <3>1. parts[j].table \in Tables \/ parts[j].op \notin Filling
      BY <2>4 DEF PartOK, Filling
    <3>2. DoneKeys(x, j) \subseteq Keys BY <2>4 DEF PartOK, DoneKeys, Keys
    <3> QED BY <1>2, <2>1, <2>2, <2>3, <3>1, <3>2 DEF Done, Filled, Filling, Has
  <2>7. Done(x)' BY <2>6 DEF Done, DoneKeys
  <2> QED BY <2>5, <2>7
<1> QED BY <1>3, <1>4

ProcRecord == [script : DOMAIN Scripts \cup {"boot", "none"}, part : Nat, todo : SUBSET Keys,
               at : {"idle", "run", "save", "media", "bind", "end", "up"}]

LEMMA GotoMoves ==
  ASSUME SeedsTypeOK, NEW p \in Processes, NEW n, Goto(p, n)
  PROVE  proc'[p] = n /\ \A q \in Processes \ {p} : proc'[q] = proc[q]
BY DEF Goto, SeedsTypeOK

\* If the process that moves stands well, all do.
LEMMA AllStand ==
  ASSUME SeedsInv, NEW p \in Processes, NEW n, Goto(p, n), Mild(p),
         n.at \notin {"idle", "up"} => Stands(p)' /\ Done(proc[p])' /\ (p # Cli => n.script = "boot")
  PROVE  ProcInv'
<1> SUFFICES ASSUME NEW q \in Processes, Running(q)'
             PROVE  Stands(q)' /\ Done(proc[q])' /\ (q # Cli => proc'[q].script = "boot")
  BY DEF ProcInv
<1>1. SeedsTypeOK BY DEF SeedsInv
<1>2. CASE q = p BY <1>1, <1>2, GotoMoves DEF Running
<1>3. CASE q # p
  <2>1. proc'[q] = proc[q] BY <1>1, <1>3, GotoMoves
  <2>2. Running(q) BY <2>1 DEF Running
  <2> QED BY <1>3, <2>1, <2>2, OthersStay DEF SeedsInv, ProcInv
<1> QED BY <1>2, <1>3

\* A process that quits, or serves, stands nowhere.
LEMMA RestStands ==
  ASSUME SeedsInv, NEW p \in Processes, NEW n, Goto(p, n), Mild(p), n.at \in {"idle", "up"}
  PROVE  ProcInv'
BY AllStand

\* A script begins.
LEMMA StartStands ==
  ASSUME SeedsInv, NEW p \in Processes, NEW s \in Known, Goto(p, StartOf(s)), UNCHANGED <<rows, linked>>,
         p # Cli => s = "boot"
  PROVE  ProcInv' /\ StartOf(s) \in ProcRecord /\ 1 \in 1..Len(Parts(s))
<1>1. proc'[p] = StartOf(s) BY GotoMoves DEF SeedsInv
<1>2. Sound(Parts(s)) BY ScriptsSound DEF ScriptsAreSound
<1>3. /\ 1 \in 1..Len(Parts(s))
      /\ PartOK(Parts(s)[1]) /\ Cuts(Parts(s), 1)
  <2>1. 1 \in 1..Len(Parts(s)) BY <1>2 DEF Sound
  <2> QED BY <1>2, <2>1 DEF Sound
<1>4. Parts(s)[1].keys \subseteq Keys /\ Parts(s)[1].keys # {} BY <1>3, PartKeys
<1>5. StartOf(s) \in ProcRecord BY <1>4 DEF StartOf, ProcRecord, Known
<1>6. Stands(p)' BY <1>1, <1>3, <1>4 DEF Stands, Part, StartOf, Cuts
<1>7. Done(proc[p])' BY <1>1 DEF Done, DoneKeys, StartOf
<1>8. Mild(p) BY DEF Mild, Has
<1> QED BY <1>3, <1>5, <1>6, <1>7, <1>8, AllStand DEF StartOf

\* What was done is still done, in the database after the step.
StillDone(x) ==
  \A j \in 1..x.part :
    LET part == Parts(x.script)[j] IN
    /\ part.op = "ensure" => \A k \in DoneKeys(x, j) : rows'[part.table][k] > 0
    /\ part.op \in {"link", "relink"} => \A k \in DoneKeys(x, j) : rows'["Challenge"][k] > 0 => k \in linked'
    /\ j < x.part /\ part.op \in Filling /\ part.table \in Referred => \E k \in Keys : rows'[part.table][k] > 0

\* The key a process is at has been dealt with.
KeyDone(p) ==
  LET part == Part(p)  k == NextKey(p) IN
  /\ part.op = "ensure" => rows'[part.table][k] > 0
  /\ part.op \in {"link", "relink"} /\ rows'["Challenge"][k] > 0 => k \in linked'
  /\ part.op \in Filling /\ part.table \in Referred => \E m \in Keys : rows'[part.table][m] > 0
  /\ part.op = "unlink" => linked' = {}

\* Where Continue goes.
Onward(p) ==
  LET parts == Parts(proc[p].script)  i == proc[p].part  rest == proc[p].todo \ {NextKey(p)} IN
  IF rest # {} THEN [proc[p] EXCEPT !.todo = rest, !.at = "run"]
  ELSE IF i < Len(parts)
       THEN [proc[p] EXCEPT !.part = i + 1, !.todo = parts[i + 1].keys, !.at = "run"]
       ELSE [proc[p] EXCEPT !.todo = {}, !.at = "end"]

LEMMA OnwardRecord ==
  ASSUME SeedsInv, NEW p \in Processes, Running(p)
  PROVE  /\ Onward(p) \in ProcRecord
         /\ Onward(p).script = proc[p].script
         /\ Onward(p).part \in 1..Len(Parts(proc[p].script))
         /\ Onward(p).at \notin {"idle", "up"}
<1> DEFINE x == proc[p]
           parts == Parts(x.script)
           rest == x.todo \ {NextKey(p)}
<1>1. x \in ProcRecord BY DEF SeedsInv, SeedsTypeOK, ProcRecord
<1>2. x.part \in 1..Len(parts) /\ Sound(parts) BY AtWork
<1>3. CASE rest # {}
  <2>1. Onward(p) = [x EXCEPT !.todo = rest, !.at = "run"] BY <1>3 DEF Onward
  <2> QED BY <1>1, <1>2, <2>1 DEF ProcRecord
<1>4. CASE rest = {} /\ x.part < Len(parts)
  <2>1. Onward(p) = [x EXCEPT !.part = x.part + 1, !.todo = parts[x.part + 1].keys, !.at = "run"]
    BY <1>4 DEF Onward
  <2>2. x.part + 1 \in 1..Len(parts) BY <1>2, <1>4 DEF Sound
  <2>3. parts[x.part + 1].keys \subseteq Keys BY <1>2, <2>2 DEF Sound, PartOK, Keys
  <2>4. x.part + 1 \in Nat BY <1>2
  <2> DEFINE ks == parts[x.part + 1].keys
             n == x.part + 1
  <2>5. Onward(p) = [x EXCEPT !.part = n, !.todo = ks, !.at = "run"] BY <2>1
  <2>6. n \in Nat /\ ks \in SUBSET Keys /\ n \in 1..Len(parts) BY <2>2, <2>3, <2>4
  <2> HIDE DEF ks, n
  <2> QED BY <1>1, <2>5, <2>6 DEF ProcRecord
<1>5. CASE rest = {} /\ ~(x.part < Len(parts))
  <2>1. Onward(p) = [x EXCEPT !.todo = {}, !.at = "end"] BY <1>5 DEF Onward
  <2> QED BY <1>1, <1>2, <2>1 DEF ProcRecord
<1> QED BY <1>3, <1>4, <1>5

\* A process whose key is done goes on and stands well again.
LEMMA ContinueStands ==
  ASSUME SeedsInv, NEW p \in Processes, Running(p), proc[p].at # "end", Continue(p), Mild(p),
         StillDone(proc[p]), KeyDone(p)
  PROVE  ProcInv'
<1> DEFINE x == proc[p]
           y == Onward(p)
           parts == Parts(x.script)
           i == x.part
           rest == x.todo \ {NextKey(p)}
<1>1. Goto(p, y) BY DEF Continue, Onward
<1>2. /\ x \in ProcRecord /\ y \in ProcRecord /\ y.script = x.script
      /\ i \in 1..Len(parts) /\ i \in Nat /\ y.part \in 1..Len(parts)
      /\ Sound(parts) /\ Part(p) = parts[i] /\ Stands(p) /\ PartOK(parts[i])
      /\ NextKey(p) \in x.todo
      /\ p # Cli => x.script = "boot"
  BY AtWork, OnwardRecord DEF SeedsInv, SeedsTypeOK, ProcRecord, ProcInv
<1>3. proc'[p] = y BY <1>1, GotoMoves DEF SeedsInv
<1>4. Part(p)' = parts[y.part] BY <1>2, <1>3 DEF Part
<1> HIDE DEF y
\* What is done of the parts up to this one.
<1>5. ASSUME NEW j \in 1..i, NEW k \in parts[j].keys, j < i \/ k \notin rest
      PROVE  /\ parts[j].op = "ensure" => rows'[parts[j].table][k] > 0
             /\ parts[j].op \in {"link", "relink"} => (rows'["Challenge"][k] > 0 => k \in linked')
  <2>1. CASE j < i \/ k \notin x.todo
    <3>1. k \in DoneKeys(x, j) BY <1>2, <1>5, <2>1 DEF DoneKeys
    <3> QED BY <3>1 DEF StillDone
  <2>2. CASE ~(j < i) /\ k \in x.todo
    <3>1. j = i /\ k = NextKey(p) BY <1>2, <1>5, <2>2
    <3> QED BY <1>2, <3>1 DEF KeyDone
  <2> QED BY <2>1, <2>2
<1>6. ASSUME NEW j \in 1..i, j < i \/ j = i, parts[j].op \in Filling, parts[j].table \in Referred
      PROVE  \E k \in Keys : rows'[parts[j].table][k] > 0
  BY <1>2, <1>6 DEF StillDone, KeyDone
\* It is enough to look at the keys that are not to do any more.
<1>7. ASSUME y.part \in {i, i + 1}, \A j \in 1..i : y.part = i /\ j = i => parts[j].keys \ y.todo \subseteq parts[j].keys \ rest,
             y.part = i + 1 => rest = {} /\ y.todo = parts[i + 1].keys
      PROVE  Done(proc[p])'
  <2> SUFFICES ASSUME NEW j \in 1..y.part
               PROVE  /\ parts[j].op = "ensure" => \A k \in DoneKeys(y, j) : rows'[parts[j].table][k] > 0
                      /\ parts[j].op \in {"link", "relink"} =>
                           \A k \in DoneKeys(y, j) : rows'["Challenge"][k] > 0 => k \in linked'
                      /\ j < y.part /\ parts[j].op \in Filling /\ parts[j].table \in Referred =>
                           \E k \in Keys : rows'[parts[j].table][k] > 0
    BY <1>2, <1>3 DEF Done, DoneKeys, Has, Filled
  <2>1. CASE j = i + 1
    <3>1. y.part = i + 1 /\ ~(j < y.part)
      <4>1. i \in Nat /\ y.part \in {i, i + 1} BY <1>2, <1>7
      <4> HIDE DEF i, x
      <4> QED BY <2>1, <4>1
    <3>2. DoneKeys(y, j) = {} BY <1>2, <1>7, <2>1, <3>1 DEF DoneKeys
    <3> QED BY <3>1, <3>2
  <2>2. CASE j # i + 1
    <3>1. j \in 1..i BY <1>2, <1>7, <2>2
    <3>2. \A k \in DoneKeys(y, j) : k \in parts[j].keys /\ (j < i \/ k \notin rest)
      BY <1>2, <1>7, <3>1 DEF DoneKeys
    <3>3. j < i \/ j = i
      <4>1. i \in Nat BY <1>2
      <4> HIDE DEF i, x
      <4> QED BY <3>1, <4>1
    <3> QED BY <1>5, <1>6, <3>1, <3>2, <3>3
  <2> QED BY <2>1, <2>2
<1>8. CASE rest # {}
  <2>1. y = [x EXCEPT !.todo = rest, !.at = "run"] BY <1>8 DEF Onward, y
  <2>2. y.todo = rest /\ y.at = "run" /\ y.part = i BY <1>2, <2>1 DEF ProcRecord
  <2>3. Done(proc[p])' BY <1>2, <1>7, <2>2
  <2>4. x.todo \subseteq parts[i].keys BY <1>2 DEF Stands
  <2>5. parts[i].op # "wipe" BY <1>2, <1>8, <2>4 DEF PartOK, Filling
  <2>6. Stands(p)' BY <1>3, <1>4, <1>8, <2>2, <2>4, <2>5 DEF Stands
  <2> QED BY <1>1, <1>2, <1>3, <2>3, <2>6, AllStand
<1>9. CASE rest = {} /\ i < Len(parts)
  <2>1. y = [x EXCEPT !.part = i + 1, !.todo = parts[i + 1].keys, !.at = "run"] BY <1>9 DEF Onward, y
  <2>2. y.todo = parts[i + 1].keys /\ y.at = "run" /\ y.part = i + 1 BY <1>2, <2>1 DEF ProcRecord
  <2>3. Done(proc[p])' BY <1>2, <1>7, <1>9, <2>2
  <2>4. PartOK(parts[i + 1]) /\ Cuts(parts, i + 1) BY <1>2, <2>2 DEF Sound
  <2>5. parts[i + 1].keys # {} BY <2>4, PartKeys
  <2>6. parts[i + 1].op = "wipe" /\ parts[i + 1].table = "BrokerAccount" => linked' = {}
    BY <1>2, <2>4 DEF Cuts, KeyDone
  <2>7. Stands(p)' BY <1>3, <1>4, <2>2, <2>5, <2>6 DEF Stands
  <2> QED BY <1>1, <1>2, <1>3, <2>3, <2>7, AllStand
<1>10. CASE rest = {} /\ ~(i < Len(parts))
  <2>1. y = [x EXCEPT !.todo = {}, !.at = "end"] BY <1>10 DEF Onward, y
  <2>2. y.todo = {} /\ y.at = "end" /\ y.part = i BY <1>2, <2>1 DEF ProcRecord
  <2>3. Done(proc[p])' BY <1>2, <1>7, <1>10, <2>2
  <2>4. i = Len(parts) BY <1>2, <1>10 DEF Sound
  <2>5. Stands(p)' BY <1>2, <1>3, <1>4, <2>2, <2>4 DEF Stands
  <2> QED BY <1>1, <1>2, <1>3, <2>3, <2>5, AllStand
<1> QED BY <1>8, <1>9, <1>10

\* The part of the type invariant about the processes.
ProcTypes ==
  /\ proc \in [Processes -> ProcRecord]
  /\ \A p \in Processes : Running(p) =>
       proc[p].script # "none" /\ proc[p].part \in 1..Len(Parts(proc[p].script))

LEMMA GotoTypes ==
  ASSUME SeedsInv, NEW p \in Processes, NEW n \in ProcRecord, Goto(p, n),
         n.at \notin {"idle", "up"} => n.script # "none" /\ n.part \in 1..Len(Parts(n.script))
  PROVE  ProcTypes'
<1>1. proc \in [Processes -> ProcRecord] BY DEF SeedsInv, SeedsTypeOK, ProcRecord
<1>2. proc' \in [Processes -> ProcRecord] BY <1>1 DEF Goto
<1>3. ASSUME NEW q \in Processes, Running(q)'
      PROVE  proc'[q].script # "none" /\ proc'[q].part \in 1..Len(Parts(proc'[q].script))
  <2>1. CASE q = p BY <1>3, <2>1, GotoMoves DEF SeedsInv, Running
  <2>2. CASE q # p
    <3>1. proc'[q] = proc[q] BY <2>2, GotoMoves DEF SeedsInv
    <3> QED BY <1>3, <3>1 DEF SeedsInv, SeedsTypeOK, Running
  <2> QED BY <2>1, <2>2
<1> QED BY <1>2, <1>3 DEF ProcTypes

LEMMA QuitTypes ==
  ASSUME SeedsInv, NEW p \in Processes, Quit(p)
  PROVE  ProcTypes'
<1>1. SeedIdle \in ProcRecord /\ SeedIdle.at = "idle" BY DEF SeedIdle, ProcRecord
<1> QED BY <1>1, GotoTypes DEF Quit

LEMMA TurnTypes ==
  ASSUME SeedsInv, NEW p \in Processes, Running(p), NEW a \in {"save", "media", "bind", "up"}, Turn(p, a)
  PROVE  ProcTypes'
<1> DEFINE n == [proc[p] EXCEPT !.at = a]
<1>1. proc[p] \in ProcRecord BY DEF SeedsInv, SeedsTypeOK, ProcRecord
<1>2. n \in ProcRecord /\ n.script = proc[p].script /\ n.part = proc[p].part
  BY <1>1 DEF ProcRecord
<1>3. n.script # "none" /\ n.part \in 1..Len(Parts(n.script)) BY <1>2 DEF SeedsInv, SeedsTypeOK
<1>4. Goto(p, n) BY DEF Turn
<1> HIDE DEF n
<1> QED BY <1>2, <1>3, <1>4, GotoTypes

LEMMA ContinueTypes ==
  ASSUME SeedsInv, NEW p \in Processes, Running(p), Continue(p)
  PROVE  ProcTypes'
<1>1. Goto(p, Onward(p)) BY DEF Continue, Onward
<1>2. /\ Onward(p) \in ProcRecord
      /\ Onward(p).script # "none" /\ Onward(p).part \in 1..Len(Parts(Onward(p).script))
  BY OnwardRecord DEF SeedsInv, SeedsTypeOK
<1> QED BY <1>1, <1>2, GotoTypes

\* A process changes what it is at, with the same key.
LEMMA TurnStands ==
  ASSUME SeedsInv, NEW p \in Processes, Running(p), proc[p].at # "end",
         NEW a \in {"save", "media", "bind"}, Turn(p, a), Mild(p), StillDone(proc[p]),
         a = "save" => /\ Part(p).op \in {"ensure", "link", "relink"}
                       /\ Part(p).op = "ensure" /\ Part(p).table \notin Unique =>
                            ~(rows'[Part(p).table][NextKey(p)] > 0),
         a = "bind" => Part(p).op \in {"link", "relink"} /\ rows'["ChallengeAccount"][NextKey(p)] > 0,
         a = "media" => /\ Part(p).op \in {"ensure", "make"} /\ Part(p).table = "Verification"
                        /\ rows'["Verification"][NextKey(p)] > 0
  PROVE  ProcInv'
<1> DEFINE x == proc[p]
           n == [x EXCEPT !.at = a]
<1>1. /\ x \in ProcRecord /\ Stands(p)
      /\ p # Cli => x.script = "boot"
  BY DEF SeedsInv, SeedsTypeOK, ProcRecord, ProcInv
<1>2. n.script = x.script /\ n.part = x.part /\ n.todo = x.todo /\ n.at = a BY <1>1 DEF ProcRecord
<1>3. Goto(p, n) BY DEF Turn
<1>4. proc'[p] = n BY <1>3, GotoMoves DEF SeedsInv
<1> HIDE DEF n
<1>5. Part(p)' = Part(p) /\ NextKey(p)' = NextKey(p) BY <1>2, <1>4 DEF Part, NextKey
<1>6. Stands(p)' BY <1>1, <1>2, <1>4, <1>5 DEF Stands, Has
<1>7. Done(proc[p])' BY <1>2, <1>4 DEF Done, DoneKeys, StillDone, Has, Filled
<1> QED BY <1>1, <1>2, <1>3, <1>6, <1>7, AllStand

\* Rows and links are only added.
LEMMA GrowthKeepsDone ==
  ASSUME SeedsInv, NEW p \in Processes, Running(p),
         \A t \in Tables, k \in Keys : Has(t, k) => rows'[t][k] > 0,
         linked \subseteq linked',
         \/ \A k \in Keys : rows'["Challenge"][k] > 0 => Has("Challenge", k)
         \/ Part(p).op \in {"ensure", "make"} /\ Part(p).table = "Challenge"
  PROVE  StillDone(proc[p])
<1> DEFINE x == proc[p]
           parts == Parts(x.script)
<1>1. /\ Done(x) /\ Sound(parts) /\ x.part \in 1..Len(parts) /\ x.part \in Nat /\ Part(p) = parts[x.part]
  BY AtWork
<1>2. ASSUME NEW j \in 1..x.part
      PROVE  /\ parts[j].op = "ensure" => \A k \in DoneKeys(x, j) : rows'[parts[j].table][k] > 0
             /\ parts[j].op \in {"link", "relink"} =>
                  \A k \in DoneKeys(x, j) : rows'["Challenge"][k] > 0 => k \in linked'
             /\ j < x.part /\ parts[j].op \in Filling /\ parts[j].table \in Referred =>
                  \E k \in Keys : rows'[parts[j].table][k] > 0
  <2>1. j \in 1..Len(parts) BY <1>1 DEF Sound
  <2>2. PartOK(parts[j]) /\ Apart(parts, j, x.part) BY <1>1, <2>1 DEF Sound
  <2>3. DoneKeys(x, j) \subseteq Keys BY <2>2, PartKeys DEF DoneKeys
  <2>4. parts[j].op \in Filling => parts[j].table \in Tables BY <2>2 DEF PartOK, Filling
  <2>5. parts[j].op \in {"link", "relink"} => \A k \in Keys : rows'["Challenge"][k] > 0 => Has("Challenge", k)
    BY <1>1, <2>2 DEF Apart
  <2> QED BY <1>1, <2>3, <2>4, <2>5 DEF Done, Filled, Filling
<1> QED BY <1>2 DEF StillDone

-----------------------------------------------------------------------------
(* The steps.                                                              *)

\* One more row of a table.
LEMMA InsertGrows ==
  ASSUME SeedsTypeOK, NEW t \in Tables, NEW k \in Keys, Insert(t, k)
  PROVE  /\ rows' \in [Tables -> [Keys -> Nat]]
         /\ rows'[t][k] = rows[t][k] + 1 /\ rows'[t][k] > 0
         /\ \A u \in Tables, m \in Keys : (u # t \/ m # k) => rows'[u][m] = rows[u][m]
         /\ \A u \in Tables \ {t} : rows'[u] = rows[u]
         /\ \A u \in Tables, m \in Keys : Has(u, m) => rows'[u][m] > 0
BY DEF Insert, SeedsTypeOK, Has

\* No row is made twice, as long as this one was not there or may be.
LEMMA InsertOnce ==
  ASSUME SeedsInv, NEW t \in Tables, NEW k \in Keys, Insert(t, k),
         t \in {"Media", "ChallengeAccount"} \/ k \in MadeKeys(t) \/ ~Has(t, k)
  PROVE  EnsuredOnce'
<1> SUFFICES ASSUME NEW u \in Tables \ {"Media", "ChallengeAccount"}, NEW m \in Keys \ MadeKeys(u)
             PROVE  rows'[u][m] <= 1
  BY DEF EnsuredOnce, MadeKeys
<1>1. rows[u][m] <= 1 /\ rows[u][m] \in Nat BY DEF SeedsInv, EnsuredOnce, SeedsTypeOK
<1>2. CASE u = t /\ m = k BY <1>1, <1>2, InsertGrows DEF SeedsInv, Has
<1>3. CASE ~(u = t /\ m = k) BY <1>1, <1>3, InsertGrows DEF SeedsInv
<1> QED BY <1>2, <1>3

\* References hold, as long as what the new row refers to is there.
LEMMA InsertRefers ==
  ASSUME SeedsInv, NEW t \in Tables, NEW k \in Keys, Insert(t, k), linked' = linked,
         \A u \in Parents[t] : Filled(u)
  PROVE  ReferencesHold'
<1>1. \A u \in Tables : Filled(u) => Filled(u)' BY InsertGrows DEF SeedsInv, Filled, Has
<1>2. \A u \in Tables : Filled(u)' => u = t \/ Filled(u) BY InsertGrows DEF SeedsInv, Filled, Has
<1>3. \A u \in Tables : Parents[u] \subseteq Tables BY TablesReferred DEF Referred
<1>4. ASSUME NEW u \in Tables, Filled(u)', NEW v \in Parents[u] PROVE Filled(v)'
  <2>1. Filled(v) BY <1>2, <1>4 DEF SeedsInv, ReferencesHold
  <2> QED BY <1>1, <1>3, <1>4, <2>1
<1>5. \A m \in linked' : Has("ChallengeAccount", m)'
  <2>1. "ChallengeAccount" \in Tables /\ linked \subseteq Keys BY DEF SeedsInv, SeedsTypeOK, Tables, Parents
  <2> QED BY <2>1, InsertGrows DEF SeedsInv, ReferencesHold, Has
<1> QED BY <1>4, <1>5 DEF ReferencesHold

\* What the rows of a part refer to is there when it is at work.
LEMMA ParentsThere ==
  ASSUME SeedsInv, NEW p \in Processes, Running(p), Part(p).op \in {"ensure", "make"}
  PROVE  \A u \in Parents[Part(p).table] : Filled(u)
<1> DEFINE x == proc[p]
           parts == Parts(x.script)
           i == x.part
<1>1. /\ Sound(parts) /\ i \in 1..Len(parts) /\ i \in Nat /\ Part(p) = parts[i] /\ Done(x)
      /\ PartOK(Part(p))
  BY AtWork
<1>2. Part(p).table \in Tables BY <1>1 DEF PartOK
<1> SUFFICES ASSUME NEW u \in Parents[parts[i].table] PROVE Filled(u)
  BY <1>1
<1>3. InOrder(parts, i) BY <1>1 DEF Sound
<1>4. PICK t \in FilledBefore(parts, i) : Gives(t, u) BY <1>1, <1>3 DEF InOrder
<1>5. PICK j \in 1..(i - 1) : parts[j].op \in Filling /\ t = parts[j].table BY <1>4 DEF FilledBefore
<1>6. u \in Referred BY <1>1, <1>2 DEF Referred
<1>7. t \in Referred BY <1>4, <1>6 DEF Gives
<1>8. Filled(t)
  <2>1. j \in 1..i /\ j < i BY <1>1, <1>5
  <2> QED BY <1>1, <1>5, <1>7, <2>1 DEF Done
<1>9. t \in Tables BY <1>7, TablesReferred
<1> QED BY <1>4, <1>8, <1>9 DEF Gives, SeedsInv, ReferencesHold

\* Nothing but the processes moves.
LEMMA RowsStay ==
  ASSUME SeedsInv, UNCHANGED <<rows, linked>>
  PROVE  /\ EnsuredOnce' /\ ReferencesHold'
         /\ \A p \in Processes : Mild(p)
         /\ \A p \in Processes : Running(p) => StillDone(proc[p])
<1>1. EnsuredOnce' BY DEF SeedsInv, EnsuredOnce, MadeKeys
<1>2. ReferencesHold' BY DEF SeedsInv, ReferencesHold, Has, Filled
<1>3. \A p \in Processes : Mild(p) BY DEF Mild, Has
<1>4. \A t \in Tables, k \in Keys : Has(t, k) => rows'[t][k] > 0 BY DEF Has
<1>5. \A k \in Keys : rows'["Challenge"][k] > 0 => Has("Challenge", k) BY DEF Has
<1>6. \A p \in Processes : Running(p) => StillDone(proc[p]) BY <1>4, <1>5, GrowthKeepsDone
<1> QED BY <1>1, <1>2, <1>3, <1>6

LEMMA InvFromParts ==
  ASSUME SeedsInv, ProcTypes', ProcInv', EnsuredOnce', ReferencesHold',
         rows' \in [Tables -> [Keys -> Nat]], linked' \subseteq Keys, stops' \in 0..MaxStops
  PROVE  SeedsInv'
BY DEF SeedsInv, SeedsTypeOK, ProcTypes, ProcRecord

LEMMA FindStep ==
  ASSUME SeedsInv, NEW p \in Processes, Find(p)
  PROVE  SeedsInv'
<1>1. /\ Running(p) /\ proc[p].at # "end" /\ Part(p).op = "ensure"
      /\ UNCHANGED <<rows, linked, stops>>
  BY DEF Find, Running
<1>2. ProcTypes' BY <1>1, TurnTypes, ContinueTypes DEF Find
<1>3. ProcInv'
  <2>1. CASE Has(Part(p).table, NextKey(p))
    <3>1. PartOK(Part(p)) /\ NextKey(p) \in Keys BY <1>1, AtWork
    <3>2. KeyDone(p) BY <1>1, <2>1, <3>1 DEF KeyDone, Has
    <3> QED BY <1>1, <2>1, <3>2, RowsStay, ContinueStands DEF Find
  <2>2. CASE ~Has(Part(p).table, NextKey(p))
    BY <1>1, <2>2, RowsStay, TurnStands DEF Find, Has
  <2> QED BY <2>1, <2>2
<1> QED BY <1>1, <1>2, <1>3, RowsStay, InvFromParts DEF SeedsInv, SeedsTypeOK

LEMMA CheckStep ==
  ASSUME SeedsInv, NEW p \in Processes, Check(p)
  PROVE  SeedsInv'
<1>1. /\ Running(p) /\ proc[p].at # "end" /\ Part(p).op \in {"need", "demand"}
      /\ UNCHANGED <<rows, linked, stops>>
  BY DEF Check, Running
<1>2. ProcTypes' BY <1>1, QuitTypes, ContinueTypes DEF Check
<1>3. ProcInv'
  <2>1. CASE Filled(Part(p).table)
    <3>1. KeyDone(p) BY <1>1, <2>1 DEF KeyDone, Filled, Has
    <3> QED BY <1>1, <2>1, <3>1, RowsStay, ContinueStands DEF Check
  <2>2. CASE ~Filled(Part(p).table)
    BY <1>1, <2>2, RowsStay, RestStands DEF Check, Quit, SeedIdle
  <2> QED BY <2>1, <2>2
<1> QED BY <1>1, <1>2, <1>3, RowsStay, InvFromParts DEF SeedsInv, SeedsTypeOK

LEMMA NextChallengeStep ==
  ASSUME SeedsInv, NEW p \in Processes, NextChallenge(p)
  PROVE  SeedsInv'
<1> DEFINE k == NextKey(p)
<1>1. /\ Running(p) /\ proc[p].at # "end" /\ proc[p].at = "run" /\ Part(p).op \in {"link", "relink"}
      /\ UNCHANGED <<rows, linked, stops>>
      /\ \/ (~Has("Challenge", k) \/ k \in linked) /\ Continue(p)
         \/ Has("ChallengeAccount", k) /\ Turn(p, "bind")
         \/ Turn(p, "save")
  BY DEF NextChallenge, Running
<1> HIDE DEF k
<1>2. ProcTypes' BY <1>1, TurnTypes, ContinueTypes
<1>3. ProcInv'
  <2>1. CASE (~Has("Challenge", k) \/ k \in linked) /\ Continue(p)
    <3>1. KeyDone(p) BY <1>1, <2>1 DEF KeyDone, Has, Filling, k
    <3> QED BY <1>1, <2>1, <3>1, RowsStay, ContinueStands
  <2>2. CASE Has("ChallengeAccount", k) /\ Turn(p, "bind")
    BY <1>1, <2>2, RowsStay, TurnStands DEF Has, k
  <2>3. CASE Turn(p, "save") BY <1>1, <2>3, RowsStay, TurnStands
  <2> QED BY <1>1, <2>1, <2>2, <2>3
<1> QED BY <1>1, <1>2, <1>3, RowsStay, InvFromParts DEF SeedsInv, SeedsTypeOK

LEMMA BindStep ==
  ASSUME SeedsInv, NEW p \in Processes, BindChallenge(p)
  PROVE  SeedsInv'
<1> DEFINE k == NextKey(p)
<1>1. /\ Running(p) /\ proc[p].at # "end" /\ proc[p].at = "bind"
      /\ linked' = linked \cup {k} /\ Continue(p) /\ UNCHANGED <<rows, stops>>
  BY DEF BindChallenge, Running
<1>2. /\ k \in Keys /\ Part(p).op \in {"link", "relink"} /\ Has("ChallengeAccount", k)
      /\ p = Cli
  BY <1>1, AtWork DEF Stands
<1> HIDE DEF k
<1>3. ProcTypes' BY <1>1, ContinueTypes
<1>4. ProcInv'
  <2>1. Mild(p) BY <1>1, <1>2 DEF Mild, Has
  <2>2. StillDone(proc[p]) BY <1>1, GrowthKeepsDone DEF Has
  <2>3. KeyDone(p) BY <1>1, <1>2 DEF KeyDone, Filling, k
  <2> QED BY <1>1, <2>1, <2>2, <2>3, ContinueStands
<1>5. EnsuredOnce' BY <1>1 DEF SeedsInv, EnsuredOnce, MadeKeys
<1>6. ReferencesHold' BY <1>1, <1>2 DEF SeedsInv, ReferencesHold, Has, Filled
<1> QED BY <1>1, <1>2, <1>3, <1>4, <1>5, <1>6, InvFromParts DEF SeedsInv, SeedsTypeOK

LEMMA MediaStep ==
  ASSUME SeedsInv, NEW p \in Processes, SaveMedia(p)
  PROVE  SeedsInv'
<1> DEFINE k == NextKey(p)
<1>1. /\ Running(p) /\ proc[p].at # "end" /\ proc[p].at = "media"
      /\ Insert("Media", k) /\ Continue(p) /\ UNCHANGED <<linked, stops>>
  BY DEF SaveMedia, Running
<1>2. /\ k \in Keys /\ Part(p).op \in {"ensure", "make"} /\ Part(p).table = "Verification"
      /\ Has("Verification", k)
      /\ p = Cli
  BY <1>1, AtWork, BootTablesUnique DEF Stands
<1>3. /\ "Media" \in Tables /\ "Verification" \in Tables /\ "Challenge" \in Tables
      /\ Parents["Media"] = {"Verification"}
  BY DEF Tables, Parents
<1> HIDE DEF k
<1>4. /\ rows' \in [Tables -> [Keys -> Nat]]
      /\ \A u \in Tables \ {"Media"} : rows'[u] = rows[u]
      /\ \A u \in Tables, m \in Keys : Has(u, m) => rows'[u][m] > 0
  BY <1>1, <1>2, <1>3, InsertGrows DEF SeedsInv
<1>5. ProcTypes' BY <1>1, ContinueTypes
<1>6. ProcInv'
  <2>1. Mild(p) BY <1>2, <1>4, BootTablesUnique DEF Mild
  <2>2. StillDone(proc[p])
    <3>1. \A m \in Keys : rows'["Challenge"][m] > 0 => Has("Challenge", m) BY <1>3, <1>4 DEF Has
    <3> QED BY <1>1, <1>4, <3>1, GrowthKeepsDone
  <2>3. rows'["Verification"][k] > 0 BY <1>2, <1>3, <1>4
  <2>4. KeyDone(p) BY <1>2, <2>3 DEF KeyDone, k
  <2> QED BY <1>1, <2>1, <2>2, <2>4, ContinueStands
<1>7. EnsuredOnce' BY <1>1, <1>2, <1>3, InsertOnce
<1>8. ReferencesHold' BY <1>1, <1>2, <1>3, InsertRefers DEF Filled
<1> QED BY <1>1, <1>4, <1>5, <1>6, <1>7, <1>8, InvFromParts DEF SeedsInv, SeedsTypeOK

\* A row that may be made twice is of a part that does not look.
LEMMA MadeByPart ==
  ASSUME SeedsInv, NEW p \in Processes, Running(p), proc[p].at # "end", Part(p).op = "make"
  PROVE  NextKey(p) \in MadeKeys(Part(p).table)
<1> DEFINE s == proc[p].script
           part == Part(p)
<1>1. /\ s \in Known /\ proc[p].part \in 1..Len(Parts(s)) /\ part = Parts(s)[proc[p].part]
      /\ NextKey(p) \in part.keys
      /\ p = Cli
  BY AtWork
<1>2. s \in DOMAIN Scripts
  <2> SUFFICES ASSUME s = "boot" PROVE FALSE BY <1>1 DEF Known
  <2>1. Parts(s) = seedOnBoot BY DEF Parts
  <2> QED BY <1>1, <2>1, ScriptsSound DEF ScriptsAreSound, BootOnlyEnsures
<1>3. part \in AllParts BY <1>1, <1>2 DEF AllParts
<1> QED BY <1>1, <1>3 DEF MadeKeys

LEMMA SaveStep ==
  ASSUME SeedsInv, NEW p \in Processes, Save(p)
  PROVE  SeedsInv'
<1> DEFINE t == Part(p).table
           k == NextKey(p)
<1>1. /\ Running(p) /\ proc[p].at # "end" /\ UNCHANGED <<linked, stops>>
      /\ proc[p].at = "save" \/ Part(p).op = "make"
      /\ IF t \in Unique /\ Has(t, k) THEN Quit(p) /\ UNCHANGED rows
         ELSE /\ Insert(t, k)
              /\ CASE t = "Verification" -> Turn(p, "media")
                   [] t = "ChallengeAccount" -> Turn(p, "bind")
                   [] OTHER -> Continue(p)
  BY DEF Save, Running
<1>2. /\ Stands(p) /\ PartOK(Part(p)) /\ k \in Keys
      /\ p # Cli => t \in BootTables
  BY <1>1, AtWork
<1>3. /\ Part(p).op \in {"ensure", "make", "link", "relink"} /\ t \in Tables
      /\ Part(p).op \in {"link", "relink"} <=> t = "ChallengeAccount"
  <2>1. Part(p).op \in {"ensure", "make", "link", "relink"} BY <1>1, <1>2 DEF Stands
  <2>2. "ChallengeAccount" \in Tables BY DEF Tables, Parents
  <2> QED BY <1>2, <2>1, <2>2 DEF PartOK, Filling
<1>4. CASE t \in Unique /\ Has(t, k)
  <2>1. ProcTypes' BY <1>1, <1>4, QuitTypes
  <2>2. ProcInv' BY <1>1, <1>4, RowsStay, RestStands DEF Quit, SeedIdle
  <2> QED BY <1>1, <1>4, <2>1, <2>2, RowsStay, InvFromParts DEF SeedsInv, SeedsTypeOK
<1>5. CASE ~(t \in Unique /\ Has(t, k))
  <2>1. Insert(t, k) BY <1>1, <1>5
  <2>2. /\ rows' \in [Tables -> [Keys -> Nat]] /\ rows'[t][k] > 0
        /\ \A u \in Tables \ {t} : rows'[u] = rows[u]
        /\ \A u \in Tables, m \in Keys : Has(u, m) => rows'[u][m] > 0
    BY <1>2, <1>3, <2>1, InsertGrows DEF SeedsInv
  <2>3. ProcTypes' BY <1>1, <1>5, TurnTypes, ContinueTypes
  <2>4. Mild(p) BY <1>1, <1>2, <2>2, BootTablesUnique DEF Mild
  <2>5. StillDone(proc[p])
    <3>1. CASE t = "Challenge" BY <1>1, <1>3, <2>2, <3>1, GrowthKeepsDone
    <3>2. CASE t # "Challenge"
      <4>1. "Challenge" \in Tables BY DEF Tables, Parents
      <4>2. \A m \in Keys : rows'["Challenge"][m] > 0 => Has("Challenge", m) BY <2>2, <3>2, <4>1 DEF Has
      <4> QED BY <1>1, <2>2, <4>2, GrowthKeepsDone
    <3> QED BY <3>1, <3>2
  <2>6. ProcInv'
    <3>1. CASE t = "Verification"
      <4>1. Turn(p, "media") BY <1>1, <1>5, <3>1
      <4>2. Part(p).op \in {"ensure", "make"} BY <1>3, <3>1
      <4> QED BY <1>1, <2>2, <2>4, <2>5, <3>1, <4>1, <4>2, TurnStands
    <3>2. CASE t = "ChallengeAccount"
      <4>1. Turn(p, "bind") BY <1>1, <1>5, <3>2
      <4>2. Part(p).op \in {"link", "relink"} BY <1>3, <3>2
      <4> QED BY <1>1, <2>2, <2>4, <2>5, <3>2, <4>1, <4>2, TurnStands
    <3>3. CASE t # "Verification" /\ t # "ChallengeAccount"
      <4>1. Continue(p) BY <1>1, <1>5, <3>3
      <4>2. KeyDone(p) BY <1>2, <1>3, <2>2, <3>3 DEF KeyDone
      <4> QED BY <1>1, <2>4, <2>5, <4>1, <4>2, ContinueStands
    <3> QED BY <3>1, <3>2, <3>3
  <2>7. EnsuredOnce'
    <3>1. Part(p).op = "make" => k \in MadeKeys(t) BY <1>1, MadeByPart
    <3>2. Part(p).op = "ensure" => ~Has(t, k) BY <1>1, <1>2, <1>5 DEF Stands
    <3> QED BY <1>2, <1>3, <2>1, <3>1, <3>2, InsertOnce
  <2>8. ReferencesHold'
    <3>1. \A u \in Parents[t] : Filled(u)
      <4>1. CASE Part(p).op \in {"ensure", "make"} BY <1>1, <4>1, ParentsThere
      <4>2. CASE t = "ChallengeAccount"
        <5>1. Parents["ChallengeAccount"] = {} BY DEF Parents
        <5> QED BY <4>2, <5>1
      <4> QED BY <1>3, <4>1, <4>2
    <3> QED BY <1>1, <1>2, <1>3, <2>1, <3>1, InsertRefers
  <2> QED BY <1>1, <2>2, <2>3, <2>6, <2>7, <2>8, InvFromParts DEF SeedsInv, SeedsTypeOK
<1> QED BY <1>4, <1>5

\* Links are cut, or the rows of a table wiped that nothing refers to.
LEMMA ClearStep ==
  ASSUME SeedsInv, NEW p \in Processes, Clear(p)
  PROVE  SeedsInv'
<1> DEFINE x == proc[p]
           parts == Parts(x.script)
           i == x.part
           w == Part(p).table
<1>1. /\ Running(p) /\ x.at # "end" /\ x.at = "run" /\ Part(p).op \in {"wipe", "unlink"}
      /\ Continue(p) /\ UNCHANGED stops
  BY DEF Clear, Running
<1>2. /\ Stands(p) /\ Done(x) /\ Sound(parts) /\ i \in 1..Len(parts) /\ i \in Nat /\ Part(p) = parts[i]
      /\ PartOK(Part(p)) /\ p = Cli
  BY <1>1, AtWork
<1>3. ProcTypes' BY <1>1, ContinueTypes
<1>4. CASE Part(p).op = "unlink"
  <2>1. linked' = {} /\ UNCHANGED rows BY <1>4 DEF Clear
  <2>2. StillDone(proc[p])
    <3> SUFFICES ASSUME NEW j \in 1..i
                 PROVE  /\ parts[j].op = "ensure" => \A k \in DoneKeys(x, j) : rows'[parts[j].table][k] > 0
                        /\ parts[j].op \notin {"link", "relink"}
                        /\ j < i /\ parts[j].op \in Filling /\ parts[j].table \in Referred =>
                             \E k \in Keys : rows'[parts[j].table][k] > 0
      BY DEF StillDone
    <3>1. parts[j].op \notin {"link", "relink"}
      <4>1. j \in 1..Len(parts) BY <1>2 DEF Sound
      <4>2. Apart(parts, j, i) BY <1>2, <4>1 DEF Sound
      <4>3. ~(i < j) BY <1>2
      <4> QED BY <1>2, <1>4, <4>2, <4>3 DEF Apart
    <3> QED BY <1>2, <2>1, <3>1 DEF Done, Filled, Has
  <2>3. Mild(p) BY <1>2, <2>1 DEF Mild, Has
  <2>4. KeyDone(p) BY <1>4, <2>1 DEF KeyDone, Filling
  <2>5. ProcInv' BY <1>1, <2>2, <2>3, <2>4, ContinueStands
  <2>6. EnsuredOnce' BY <2>1 DEF SeedsInv, EnsuredOnce, MadeKeys
  <2>7. ReferencesHold' BY <2>1 DEF SeedsInv, ReferencesHold, Has, Filled
  <2> QED BY <1>1, <1>3, <2>1, <2>5, <2>6, <2>7, InvFromParts DEF SeedsInv, SeedsTypeOK
<1>5. CASE Part(p).op = "wipe"
  <2> DEFINE Wiped == {w} \cup (IF w = "BrokerAccount" THEN {"ChallengeAccount"} ELSE {})
  <2>1. /\ rows' = [t \in Tables |-> IF t = w \/ (t = "ChallengeAccount" /\ w = "BrokerAccount")
                                     THEN [k \in Keys |-> 0] ELSE rows[t]]
        /\ linked' = linked
    BY <1>5 DEF Clear
  <2>2. w \in {"Withdrawal", "BrokerAccount"} BY <1>2, <1>5 DEF PartOK, Filling
  <2>3. /\ rows' \in [Tables -> [Keys -> Nat]]
        /\ \A t \in Tables \ Wiped : rows'[t] = rows[t]
        /\ \A t \in Tables, k \in Keys : t \in Wiped => rows'[t][k] = 0
    BY <2>1 DEF SeedsInv, SeedsTypeOK
  <2>4. /\ Wiped \subseteq {"Withdrawal", "BrokerAccount", "ChallengeAccount"}
        /\ "ChallengeAccount" \in Wiped => w = "BrokerAccount"
    BY <2>2
  <2>5. w \in Wiped OBVIOUS
  <2> HIDE DEF Wiped
  <2>6. "Challenge" \in Tables /\ rows'["Challenge"] = rows["Challenge"]
    <3>1. "Challenge" \in Tables BY DEF Tables, Parents
    <3> QED BY <2>3, <2>4, <3>1
  <2>7. ASSUME NEW t \in Referred PROVE t \in Tables /\ rows'[t] = rows[t]
    BY <2>3, <2>4, <2>7, TablesReferred
  <2>8. StillDone(proc[p])
    <3> SUFFICES ASSUME NEW j \in 1..i
                 PROVE  /\ parts[j].op = "ensure" => \A k \in DoneKeys(x, j) : rows'[parts[j].table][k] > 0
                        /\ parts[j].op \in {"link", "relink"} =>
                             \A k \in DoneKeys(x, j) : rows'["Challenge"][k] > 0 => k \in linked'
                        /\ j < i /\ parts[j].op \in Filling /\ parts[j].table \in Referred =>
                             \E k \in Keys : rows'[parts[j].table][k] > 0
      BY DEF StillDone
    <3>1. PartOK(parts[j]) /\ Apart(parts, i, j)
      <4>1. j \in 1..Len(parts) BY <1>2 DEF Sound
      <4> QED BY <1>2, <4>1 DEF Sound
    <3>2. ASSUME parts[j].op = "ensure" PROVE rows'[parts[j].table] = rows[parts[j].table]
      <4>1. parts[j].table \in Tables \ {"ChallengeAccount"} BY <3>1, <3>2 DEF PartOK
      <4>2. parts[j].table # w BY <1>2, <1>5, <3>1, <3>2 DEF Apart
      <4>3. parts[j].table \notin Wiped BY <4>1, <4>2 DEF Wiped
      <4> QED BY <2>3, <4>1, <4>3
    <3> QED BY <1>2, <2>1, <2>6, <2>7, <3>2 DEF Done, Filled, Has
  <2>9. Mild(p)
    <3>1. \A t \in BootTables : rows'[t] = rows[t] BY <2>3, <2>4, BootTablesUnique
    <3> QED BY <1>2, <3>1 DEF Mild, Has
  <2>10. KeyDone(p) BY <1>5 DEF KeyDone, Filling
  <2>11. ProcInv' BY <1>1, <2>8, <2>9, <2>10, ContinueStands
  <2>12. EnsuredOnce'
    <3> SUFFICES ASSUME NEW t \in Tables \ {"Media", "ChallengeAccount"}, NEW k \in Keys \ MadeKeys(t)
                 PROVE  rows'[t][k] <= 1
      BY DEF EnsuredOnce, MadeKeys
    <3>1. rows[t][k] <= 1 BY DEF SeedsInv, EnsuredOnce
    <3>2. rows'[t][k] = rows[t][k] \/ rows'[t][k] = 0 BY <2>3
    <3> QED BY <3>1, <3>2
  <2>13. ReferencesHold'
    <3>1. ASSUME NEW t \in Tables, Filled(t)', NEW u \in Parents[t] PROVE Filled(u)'
      <4>1. Filled(t) BY <2>3, <3>1 DEF Filled, Has
      <4>2. Filled(u) BY <3>1, <4>1 DEF SeedsInv, ReferencesHold
      <4>3. u \in Referred BY <3>1 DEF Referred
      <4> QED BY <2>7, <4>2, <4>3 DEF Filled, Has
    <3>2. ASSUME NEW k \in linked' PROVE Has("ChallengeAccount", k)'
      <4>1. k \in linked /\ w # "BrokerAccount" BY <1>1, <1>2, <1>5, <2>1, <3>2 DEF Stands
      <4>2. "ChallengeAccount" \in Tables BY DEF Tables, Parents
      <4> QED BY <2>3, <2>4, <4>1, <4>2 DEF SeedsInv, ReferencesHold, Has
    <3> QED BY <3>1, <3>2 DEF ReferencesHold
  <2> QED BY <1>1, <1>3, <2>1, <2>3, <2>11, <2>12, <2>13, InvFromParts DEF SeedsInv, SeedsTypeOK
<1> QED BY <1>1, <1>4, <1>5

LEMMA CloseStep ==
  ASSUME SeedsInv, NEW p \in Processes, Close(p)
  PROVE  SeedsInv'
<1>1. /\ Running(p) /\ UNCHANGED <<rows, linked, stops>>
      /\ Quit(p) \/ Turn(p, "up")
  BY DEF Close, Running
<1>2. ProcTypes' BY <1>1, QuitTypes, TurnTypes
<1>3. ProcInv'
  <2>1. CASE Quit(p) BY <1>1, <2>1, RowsStay, RestStands DEF Quit, SeedIdle
  <2>2. CASE Turn(p, "up")
    <3> DEFINE n == [proc[p] EXCEPT !.at = "up"]
    <3>1. n.at = "up" BY DEF SeedsInv, SeedsTypeOK
    <3>2. Goto(p, n) BY <2>2 DEF Turn
    <3> HIDE DEF n
    <3> QED BY <1>1, <3>1, <3>2, RowsStay, RestStands
  <2> QED BY <1>1, <2>1, <2>2
<1> QED BY <1>1, <1>2, <1>3, RowsStay, InvFromParts DEF SeedsInv, SeedsTypeOK

LEMMA StopStep ==
  ASSUME SeedsInv, NEW p \in Processes, Stop(p)
  PROVE  SeedsInv'
<1>1. /\ Running(p) /\ UNCHANGED <<rows, linked>> /\ Quit(p)
      /\ stops < MaxStops /\ stops' = stops + 1
  BY DEF Stop, Running
<1>2. ProcTypes' BY <1>1, QuitTypes
<1>3. ProcInv' BY <1>1, RowsStay, RestStands DEF Quit, SeedIdle
<1>4. stops' \in 0..MaxStops BY <1>1, SeedsAssumption DEF SeedsInv, SeedsTypeOK
<1> QED BY <1>1, <1>2, <1>3, <1>4, RowsStay, InvFromParts DEF SeedsInv, SeedsTypeOK

\* A script that begins, whatever state the database is in.
LEMMA StartStep ==
  ASSUME SeedsInv, NEW p \in Processes, NEW s \in Known, Goto(p, StartOf(s)), p # Cli => s = "boot",
         UNCHANGED <<rows, linked, stops>>
  PROVE  SeedsInv'
<1>1. ProcInv' /\ StartOf(s) \in ProcRecord /\ 1 \in 1..Len(Parts(s)) BY StartStands
<1>2. StartOf(s).script = s /\ StartOf(s).part = 1 /\ s # "none" BY DEF StartOf, Known, Scripts
<1>3. ProcTypes' BY <1>1, <1>2, GotoTypes
<1> QED BY <1>1, <1>3, RowsStay, InvFromParts DEF SeedsInv, SeedsTypeOK

\* A step of what the invariant does not speak of.
LEMMA StillStep ==
  ASSUME SeedsInv, UNCHANGED <<rows, linked, proc, stops>>
  PROVE  SeedsInv'
<1>1. ProcTypes' BY DEF SeedsInv, SeedsTypeOK, ProcTypes, ProcRecord, Running
<1>2. ASSUME NEW q \in Processes, Running(q)' PROVE Stands(q)' /\ Done(proc[q])' /\ (q # Cli => proc'[q].script = "boot")
  <2>1. Running(q) BY <1>2 DEF Running
  <2>2. Stands(q) /\ Done(proc[q]) /\ (q # Cli => proc[q].script = "boot") BY <2>1 DEF SeedsInv, ProcInv
  <2>3. Part(q)' = Part(q) /\ NextKey(q)' = NextKey(q) BY DEF Part, NextKey
  <2>4. Stands(q)' BY <2>2, <2>3 DEF Stands, Has
  <2>5. Done(proc[q])'
    <3>1. StillDone(proc[q]) BY <2>1, RowsStay
    <3> QED BY <3>1 DEF StillDone, Done, DoneKeys, Has, Filled
  <2> QED BY <2>2, <2>4, <2>5
<1>3. ProcInv' BY <1>2 DEF ProcInv
<1> QED BY <1>1, <1>3, RowsStay, InvFromParts DEF SeedsInv, SeedsTypeOK

LEMMA RunStep ==
  ASSUME SeedsInv, runSeedFile
  PROVE  SeedsInv'
<1>1. Cli \in Processes BY DEF Processes
<1>2. UNCHANGED <<rows, linked, stops>> BY DEF runSeedFile
<1>3. CASE Head(queue) \in DOMAIN Scripts BY <1>1, <1>2, <1>3, StartStep DEF runSeedFile, Known
<1>4. CASE Head(queue) \notin DOMAIN Scripts
  <2>1. UNCHANGED proc BY <1>4 DEF runSeedFile
  <2> QED BY <1>2, <2>1, StillStep
<1> QED BY <1>3, <1>4

LEMMA SeedsInitInv == SeedsInit => SeedsInv
<1> SUFFICES ASSUME SeedsInit PROVE SeedsInv OBVIOUS
<1>1. \A p \in Processes : proc[p] = SeedIdle /\ ~Running(p) BY DEF SeedsInit, SeedIdle, Running
<1>2. \A t \in Tables, k \in Keys : rows[t][k] = 0 BY DEF SeedsInit
<1>3. SeedsTypeOK
  <2>1. SeedIdle \in ProcRecord BY DEF SeedIdle, ProcRecord
  <2>2. proc \in [Processes -> ProcRecord] BY <2>1 DEF SeedsInit
  <2>3. stops \in 0..MaxStops BY SeedsAssumption DEF SeedsInit
  <2>4. rows \in [Tables -> [Keys -> Nat]] /\ linked \subseteq Keys BY DEF SeedsInit
  <2> QED BY <1>1, <2>2, <2>3, <2>4 DEF SeedsTypeOK, ProcRecord
<1>4. ProcInv BY <1>1 DEF ProcInv
<1>5. EnsuredOnce BY <1>2 DEF EnsuredOnce
<1>6. ReferencesHold BY <1>2 DEF ReferencesHold, Filled, Has, SeedsInit
<1> QED BY <1>3, <1>4, <1>5, <1>6 DEF SeedsInv

LEMMA SeedsNextInv == SeedsInv /\ [SeedsNext]_seedVars => SeedsInv'
<1> SUFFICES ASSUME SeedsInv, [SeedsNext]_seedVars PROVE SeedsInv' OBVIOUS
<1>1. CASE runSeedFile BY <1>1, RunStep
<1>2. ASSUME NEW p \in Processes, SeedStep(p) PROVE SeedsInv'
  <2>1. CASE Boot(p)
    <3>1. Goto(p, StartOf("boot")) /\ UNCHANGED <<rows, linked, stops>> /\ p # Cli BY <2>1 DEF Boot
    <3>2. "boot" \in Known BY DEF Known
    <3> QED BY <3>1, <3>2, StartStep
  <2>2. CASE Find(p) BY <2>2, FindStep
  <2>3. CASE Save(p) BY <2>3, SaveStep
  <2>4. CASE SaveMedia(p) BY <2>4, MediaStep
  <2>5. CASE NextChallenge(p) BY <2>5, NextChallengeStep
  <2>6. CASE BindChallenge(p) BY <2>6, BindStep
  <2>7. CASE Check(p) BY <2>7, CheckStep
  <2>8. CASE Clear(p) BY <2>8, ClearStep
  <2>9. CASE Close(p) BY <2>9, CloseStep
  <2> QED BY <1>2, <2>1, <2>2, <2>3, <2>4, <2>5, <2>6, <2>7, <2>8, <2>9 DEF SeedStep
<1>3. ASSUME NEW p \in Processes, Stop(p) PROVE SeedsInv' BY <1>3, StopStep
<1>4. CASE UNCHANGED seedVars BY <1>4, StillStep DEF seedVars
<1> QED BY <1>1, <1>2, <1>3, <1>4 DEF SeedsNext

-----------------------------------------------------------------------------
(* The theorems.                                                           *)

\* Every process stands where its script lets it, and what it has behind it is
\* in the database, whatever the others do and wherever they stop.
THEOREM SeedsInvariance == SeedsSpec => []SeedsInv
<1>1. SeedsInit => SeedsInv BY SeedsInitInv
<1>2. SeedsInv /\ [SeedsNext]_seedVars => SeedsInv' BY SeedsNextInv
<1> QED BY <1>1, <1>2, PTL DEF SeedsSpec

\* The variables of the scripts keep their types.
THEOREM SeedsTypes == SeedsSpec => []SeedsTypeOK
<1>1. SeedsInv => SeedsTypeOK BY DEF SeedsInv
<1> QED BY <1>1, SeedsInvariance, PTL

\* No row that the scripts look for before they save it is there twice, however
\* many servers boot meanwhile and however often the scripts run again: two
\* processes only look for the same rows where the database refuses the second.
THEOREM RowsAreEnsuredOnce == SeedsSpec => []EnsuredOnce
<1>1. SeedsInv => EnsuredOnce BY DEF SeedsInv
<1> QED BY <1>1, SeedsInvariance, PTL

\* No row refers to an empty table and every linked challenge has its account,
\* in whatever order the scripts are run and wherever they stop.
THEOREM NoDanglingReferences == SeedsSpec => []ReferencesHold
<1>1. SeedsInv => ReferencesHold BY DEF SeedsInv
<1> QED BY <1>1, SeedsInvariance, PTL

\* A script that gets to its end leaves every row it looks for and no challenge
\* without an account, whatever earlier runs left half-way.
THEOREM EndsAreComplete == SeedsSpec => []EndIsComplete
<1>1. ASSUME SeedsInv PROVE EndIsComplete
  <2> SUFFICES ASSUME NEW p \in Processes, proc[p].at = "end",
                      NEW i \in 1..Len(Parts(proc[p].script))
               PROVE  LET part == Parts(proc[p].script)[i] IN
                      /\ part.op = "ensure" => \A k \in part.keys : Has(part.table, k)
                      /\ part.op \in {"link", "relink"} => \A k \in Keys : Has("Challenge", k) => k \in linked
    BY DEF EndIsComplete
  <2> DEFINE x == proc[p]
             part == Parts(x.script)[i]
  <2>1. Running(p) BY DEF Running
  <2>2. Stands(p) /\ Done(x) /\ Sound(Parts(x.script)) BY <1>1, <2>1, AtWork
  <2>3. x.todo = {} /\ x.part = Len(Parts(x.script)) BY <2>2 DEF Stands
  <2>4. DoneKeys(x, i) = part.keys BY <2>3 DEF DoneKeys
  <2>5. part.op \in {"link", "relink"} => part.keys = Keys BY <2>2 DEF Sound, PartOK, Filling
  <2> QED BY <2>2, <2>3, <2>4, <2>5 DEF Done
<1> QED BY <1>1, SeedsInvariance, PTL
=============================================================================
