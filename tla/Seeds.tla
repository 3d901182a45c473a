-------------------------------- MODULE Seeds --------------------------------
(***************************************************************************)
(* The scripts that fill the database, the master script that runs them    *)
(* one after the other, and the roles every process ensures when it boots. *)
(* A script is a sequence of parts; a part works on some keys of a table,  *)
(* one query per step.  Two or three keys stand for the rows of a loop.    *)
(***************************************************************************)
EXTENDS Naturals, Sequences

CONSTANTS
  Servers,     \* processes that only boot
  Workloads,   \* the sequences of scripts somebody runs, the master's is one
  MaxStops     \* bound on crashes, time-outs and failing queries

ASSUME SeedsAssumption == MaxStops \in Nat

VARIABLES
  rows,     \* how many rows of a table have a key
  linked,   \* the challenges that have a broker account
  proc,     \* what each process is doing
  queue,    \* the scripts still to be run
  stops

seedVars == <<rows, linked, proc, queue, stops>>

Cli == "cli"
Processes == Servers \cup {Cli}
Keys == 1..4

\* The tables, with those their rows refer to.  ChallengeAccount stands for the
\* broker accounts made for one challenge, rows of the BrokerAccount table.
Parents == [
  Role |-> {}, Permission |-> {}, RolePermission |-> {"Role", "Permission"},
  UserAccount |-> {}, Affiliate |-> {"UserAccount"}, BrokerAccount |-> {}, Style |-> {},
  ChallengeAccount |-> {},
  ChallengeCategory |-> {}, ChallengePlan |-> {}, ChallengeBalance |-> {},
  ChallengeStage |-> {}, StageRule |-> {}, ChallengeRelation |-> {"ChallengePlan"},
  RelationBalance |-> {"ChallengeBalance", "ChallengeRelation"},
  RelationStage |-> {"ChallengeStage", "ChallengeRelation"},
  StageParameter |-> {"StageRule", "RelationStage"},
  Challenge |-> {"UserAccount"}, ChallengeDetails |-> {"Challenge"},
  Certificate |-> {"UserAccount", "Challenge"}, CustomerOrder |-> {"UserAccount"},
  Withdrawal |-> {"UserAccount"}, Verification |-> {"UserAccount"}, Media |-> {"Verification"}]

Tables == DOMAIN Parents

\* Mutant of Unique: the migration without the key of role_permissions.
UniqueButRolePermission == {"Role", "Permission", "UserAccount", "Affiliate",
           "BrokerAccount", "ChallengeCategory", "StageRule", "StageParameter"}

\* Tables whose key is unique in the database: a second row is refused.
Unique == {"Role", "Permission", "RolePermission", "UserAccount", "Affiliate",
           "BrokerAccount", "ChallengeCategory", "StageRule", "StageParameter"}

\* Look a row up by its key and make it if there is none.
Ensure(t, ks) == [op |-> "ensure", table |-> t, keys |-> ks]
\* Make rows without looking.
Make(t, ks) == [op |-> "make", table |-> t, keys |-> ks]
\* Give up, without an error, if a table is empty.
Need(t) == [op |-> "need", table |-> t, keys |-> {1}]
\* Give up with exit code 1 if a table is empty.
Demand(t) == [op |-> "demand", table |-> t, keys |-> {1}]
\* Delete all rows of a table.
Wipe(t) == [op |-> "wipe", table |-> t, keys |-> {1}]
\* Set brokerAccountID of all challenges to null.
Unlink == [op |-> "unlink", table |-> "Challenge", keys |-> {1}]
\* Give every challenge without a broker account a new one, with a random login,
\* or, with Relink, the one whose login is made from the challenge.
Link == [op |-> "link", table |-> "ChallengeAccount", keys |-> Keys]
Relink == [op |-> "relink", table |-> "ChallengeAccount", keys |-> Keys]

seedOnBoot == <<Ensure("Role", {1, 2, 3}), Ensure("Permission", {1}), Ensure("RolePermission", {1})>>

seedUsers == <<Ensure("Role", {2, 3}), Ensure("UserAccount", {1, 2})>>

seedSpecificUser == <<Ensure("Role", {2}), Ensure("UserAccount", {3})>>

\* The main affiliate, then those below it.
seedAffiliates == <<Need("UserAccount"), Ensure("Affiliate", {1}), Ensure("Affiliate", {2, 3})>>

seedBrokerAccountsRealistic == <<Ensure("BrokerAccount", {1, 2})>>

\* The catalogue: Promise.all over the names of each kind.
comprehensiveCatalogue ==
  <<Ensure("ChallengeCategory", {1, 2}), Ensure("ChallengePlan", {1, 2}),
   Ensure("ChallengeBalance", {1, 2}), Ensure("ChallengeStage", {1, 2}), Ensure("StageRule", {1, 2})>>

comprehensiveRelation(r) ==
  <<Ensure("ChallengeRelation", {r}), Ensure("RelationBalance", {r}),
   Ensure("RelationStage", {r}), Ensure("StageParameter", {r})>>

comprehensiveTwoStep == comprehensiveRelation(1)
comprehensiveOneStep == comprehensiveRelation(2)
comprehensiveInstant == comprehensiveRelation(3)

seedTemplatesComprehensive ==
  comprehensiveCatalogue \o comprehensiveTwoStep \o comprehensiveOneStep \o comprehensiveInstant

\* Its find-or-create helpers update the rows they find.
templatesCatalogue ==
  <<Ensure("ChallengeStage", {1, 2}), Ensure("StageRule", {1, 2}),
   Ensure("ChallengeBalance", {1, 2}), Ensure("ChallengePlan", {1})>>

templatesRelation(r) ==
  <<Ensure("ChallengeCategory", {r}), Ensure("ChallengeRelation", {r}),
   Ensure("RelationBalance", {r}), Ensure("RelationStage", {r}), Ensure("StageParameter", {r})>>

templatesRelations == templatesRelation(1) \o templatesRelation(2)

seedTemplates == templatesCatalogue \o templatesRelations

seedChallenges == <<Need("UserAccount"), Make("Challenge", {1})>>

\* One challenge per relation and balance, of a user chosen by a hash of both.
seedChallengesReal ==
  <<Need("UserAccount"), Need("ChallengeRelation"), Need("RelationBalance"), Ensure("Challenge", {2, 3})>>

ordersByStatus == <<Make("CustomerOrder", {1, 2})>>
ordersOfBuyers == <<Make("CustomerOrder", {3})>>
seedOrders == <<Need("UserAccount")>> \o ordersByStatus \o ordersOfBuyers

certificatesByStatus == <<Ensure("Certificate", {1, 2})>>
certificatesByPhase == <<Ensure("Certificate", {2, 3})>>
seedCertificates == <<Need("UserAccount"), Need("Challenge")>> \o certificatesByStatus \o certificatesByPhase

withdrawalsByStatus == <<Make("Withdrawal", {1, 2})>>
seedWithdrawals == <<Need("UserAccount")>> \o withdrawalsByStatus \o <<Make("Withdrawal", {3})>>

\* withdrawals.seed.ts, with --wipe: one save for all rows.
withdrawalsSeed == <<Wipe("Withdrawal"), Demand("UserAccount"), Make("Withdrawal", {1})>>

verificationsOfUsers == <<Ensure("Verification", {1, 2})>>
seedVerifications == <<Need("UserAccount")>> \o verificationsOfUsers \o <<Ensure("Verification", {2, 3})>>

\* What one given challenge needs, if it is there.
specificRecords ==
  <<Ensure("Certificate", {1}), Ensure("CustomerOrder", {4}), Ensure("Verification", {1, 2}),
   Ensure("Withdrawal", {4})>>
specificDetails == <<Ensure("ChallengeDetails", {1})>>
seedSpecificChallenge == <<Need("Challenge")>> \o specificRecords \o specificDetails

\* Mutant of seedBrokerAccounts: the challenges keep their links.
seedBrokerAccountsLinked == <<Wipe("BrokerAccount"), Need("Challenge"), Link>>

\* seed-broker-accounts.ts with --wipe and seed-broker-accounts-real.ts.
seedBrokerAccounts == <<Unlink, Wipe("BrokerAccount"), Need("Challenge"), Link>>
seedBrokerAccountsReal == <<Need("Challenge"), Relink>>

seedStyles == <<Ensure("Style", {1})>>

Scripts == [
  users |-> seedUsers, specificUser |-> seedSpecificUser, affiliates |-> seedAffiliates,
  brokerAccountsRealistic |-> seedBrokerAccountsRealistic,
  templatesComprehensive |-> seedTemplatesComprehensive, templates |-> seedTemplates,
  challenges |-> seedChallenges, challengesReal |-> seedChallengesReal, orders |-> seedOrders,
  certificates |-> seedCertificates, withdrawals |-> seedWithdrawals,
  withdrawalsSeed |-> withdrawalsSeed, verifications |-> seedVerifications,
  specificChallenge |-> seedSpecificChallenge, brokerAccounts |-> seedBrokerAccounts,
  brokerAccountsReal |-> seedBrokerAccountsReal, styles |-> seedStyles]

\* The master's list.  Two of its files do not exist.
SEED_FILES == <<"usersRealistic", "affiliates", "brokerAccountsRealistic", "templatesComprehensive",
  "challengesRealistic", "orders", "certificates", "withdrawals", "verifications">>

\* Every script but one opens an application context, which boots the roles.
Parts(s) ==
  IF s = "boot" THEN seedOnBoot
  ELSE IF s = "styles" THEN seedStyles ELSE seedOnBoot \o Scripts[s]

\* A process that is between its start and its end.
Running(p) == proc[p].at \notin {"idle", "up"}

SeedIdle == [script |-> "none", part |-> 0, todo |-> {}, at |-> "idle"]

SeedsTypeOK ==
  /\ rows \in [Tables -> [Keys -> Nat]]
  /\ linked \subseteq Keys
  /\ stops \in 0..MaxStops
  /\ proc \in [Processes -> [script : DOMAIN Scripts \cup {"boot", "none"}, part : Nat, todo : SUBSET Keys,
                            at : {"idle", "run", "save", "media", "bind", "end", "up"}]]
  /\ \A p \in Processes : Running(p) =>
       proc[p].script # "none" /\ proc[p].part \in 1..Len(Parts(proc[p].script))

SeedsInit ==
  /\ rows = [t \in Tables |-> [k \in Keys |-> 0]]
  /\ linked = {}
  /\ proc = [p \in Processes |-> SeedIdle]
  /\ queue \in Workloads
  /\ stops = 0

Has(t, k) == rows[t][k] > 0
Filled(t) == \E k \in Keys : Has(t, k)
Part(p) == Parts(proc[p].script)[proc[p].part]

Goto(p, next) == proc' = [proc EXCEPT ![p] = next]
Quit(p) == Goto(p, SeedIdle)
Turn(p, at) == Goto(p, [proc[p] EXCEPT !.at = at])
Insert(t, k) == rows' = [rows EXCEPT ![t][k] = @ + 1]

\* The loops take their keys in order (where they are saved with Promise.all
\* the rows are independent of each other).
NextKey(p) == CHOOSE k \in proc[p].todo : \A m \in proc[p].todo : k <= m

\* When a key is done the loop goes on, the next part begins or the script ends.
Continue(p) ==
  LET parts == Parts(proc[p].script)  i == proc[p].part  rest == proc[p].todo \ {NextKey(p)} IN
  Goto(p, IF rest # {} THEN [proc[p] EXCEPT !.todo = rest, !.at = "run"]
          ELSE IF i < Len(parts)
               THEN [proc[p] EXCEPT !.part = i + 1, !.todo = parts[i + 1].keys, !.at = "run"]
               ELSE [proc[p] EXCEPT !.todo = {}, !.at = "end"])

StartOf(s) == [script |-> s, part |-> 1, todo |-> Parts(s)[1].keys, at |-> "run"]

\* A process boots; the scripts run one after the other, whatever became of the
\* one before, and a file that is not there fails at once.
Boot(p) ==
  /\ p # Cli /\ proc[p].at = "idle"
  /\ Goto(p, StartOf("boot"))
  /\ UNCHANGED <<rows, linked, queue, stops>>

runSeedFile ==
  /\ proc[Cli].at = "idle" /\ queue # <<>>
  /\ queue' = Tail(queue)
  /\ IF Head(queue) \in DOMAIN Scripts THEN Goto(Cli, StartOf(Head(queue))) ELSE UNCHANGED proc
  /\ UNCHANGED <<rows, linked, stops>>

\* Mutant of Find: a row that is found ends the part.
FindOne(p) ==
  /\ proc[p].at = "run" /\ Part(p).op = "ensure"
  /\ IF Has(Part(p).table, NextKey(p))
     THEN Goto(p, IF proc[p].part < Len(Parts(proc[p].script))
                  THEN [proc[p] EXCEPT !.part = @ + 1, !.todo = Parts(proc[p].script)[proc[p].part + 1].keys]
                  ELSE [proc[p] EXCEPT !.todo = {}, !.at = "end"])
     ELSE Turn(p, "save")
  /\ UNCHANGED <<rows, linked, queue, stops>>

\* The lookup: of an existing row nothing more is done.
Find(p) ==
  /\ proc[p].at = "run" /\ Part(p).op = "ensure"
  /\ IF Has(Part(p).table, NextKey(p)) THEN Continue(p) ELSE Turn(p, "save")
  /\ UNCHANGED <<rows, linked, queue, stops>>

\* The insert.  Of a key that has a row by now the database refuses another, and
\* the error ends the process; a verification has files that are saved after it.
Save(p) ==
  LET t == Part(p).table  k == NextKey(p) IN
  /\ proc[p].at = "save" \/ (proc[p].at = "run" /\ Part(p).op = "make")
  /\ IF t \in Unique /\ Has(t, k) THEN Quit(p) /\ UNCHANGED rows
     ELSE /\ Insert(t, k)
          /\ CASE t = "Verification" -> Turn(p, "media")
               [] t = "ChallengeAccount" -> Turn(p, "bind")
               [] OTHER -> Continue(p)
  /\ UNCHANGED <<linked, queue, stops>>

SaveMedia(p) ==
  /\ proc[p].at = "media"
  /\ Insert("Media", NextKey(p))
  /\ Continue(p)
  /\ UNCHANGED <<linked, queue, stops>>

\* The challenges were read once; one that has an account is passed over.
NextChallenge(p) ==
  /\ proc[p].at = "run" /\ Part(p).op \in {"link", "relink"}
  /\ LET k == NextKey(p) IN
       IF ~Has("Challenge", k) \/ k \in linked THEN Continue(p)
       ELSE IF Part(p).op = "relink" /\ Has("ChallengeAccount", k) THEN Turn(p, "bind")
       ELSE Turn(p, "save")
  /\ UNCHANGED <<rows, linked, queue, stops>>

BindChallenge(p) ==
  /\ proc[p].at = "bind"
  /\ linked' = linked \cup {NextKey(p)}
  /\ Continue(p)
  /\ UNCHANGED <<rows, queue, stops>>

\* An empty table ends the script; with Demand the process exits with 1.
Check(p) ==
  /\ proc[p].at = "run" /\ Part(p).op \in {"need", "demand"}
  /\ IF Filled(Part(p).table) THEN Continue(p) ELSE Quit(p)
  /\ UNCHANGED <<rows, linked, queue, stops>>

Clear(p) ==
  /\ proc[p].at = "run" /\ Part(p).op \in {"wipe", "unlink"}
  /\ IF Part(p).op = "unlink" THEN linked' = {} /\ UNCHANGED rows
     ELSE /\ rows' = [t \in Tables |->
                        IF t = Part(p).table \/ (t = "ChallengeAccount" /\ Part(p).table = "BrokerAccount")
                        THEN [k \in Keys |-> 0] ELSE rows[t]]
          /\ UNCHANGED linked
  /\ Continue(p)
  /\ UNCHANGED <<queue, stops>>

\* The script closes its context; a server goes on to serve.
Close(p) ==
  /\ proc[p].at = "end"
  /\ IF p = Cli THEN Quit(p) ELSE Turn(p, "up")
  /\ UNCHANGED <<rows, linked, queue, stops>>

\* A query fails, the master's time-out kills the script or the process dies.
Stop(p) ==
  /\ proc[p].at \notin {"idle", "up"} /\ stops < MaxStops
  /\ stops' = stops + 1
  /\ Quit(p)
  /\ UNCHANGED <<rows, linked, queue>>

SeedStep(p) ==
  \/ Boot(p) \/ Find(p) \/ Save(p) \/ SaveMedia(p)
  \/ NextChallenge(p) \/ BindChallenge(p) \/ Check(p) \/ Clear(p) \/ Close(p)

SeedsNext == runSeedFile \/ \E p \in Processes : SeedStep(p) \/ Stop(p)

SeedsSpec == SeedsInit /\ [][SeedsNext]_seedVars

(***************************************************************************)
(* Properties                                                              *)
(***************************************************************************)

AllParts == UNION {{Parts(s)[i] : i \in 1..Len(Parts(s))} : s \in DOMAIN Scripts}
MadeKeys(t) == UNION {part.keys : part \in {q \in AllParts : q.op = "make" /\ q.table = t}}

\* A row that the scripts look for before they save it is there once at most,
\* however often they are run again after they stopped half-way and however
\* many servers boot meanwhile: the lookup and the save are two queries.
EnsuredOnce ==
  \A t \in Tables \ {"Media", "ChallengeAccount"} : \A k \in Keys \ MadeKeys(t) : rows[t][k] <= 1

\* No script leaves a row that refers to an empty table, in whatever order they
\* are run and wherever they stop; a linked challenge has its account, also
\* after the accounts were wiped.
ReferencesHold ==
  /\ \A t \in Tables : Filled(t) => \A u \in Parents[t] : Filled(u)
  /\ \A k \in linked : Has("ChallengeAccount", k)

\* A script that gets to its end leaves every row it looks for and no challenge
\* without an account, also when an earlier run of it stopped half-way.
EndIsComplete ==
  \A p \in Processes : proc[p].at = "end" =>
    \A i \in 1..Len(Parts(proc[p].script)) :
      LET part == Parts(proc[p].script)[i] IN
      /\ part.op = "ensure" => \A k \in part.keys : Has(part.table, k)
      /\ part.op \in {"link", "relink"} => \A k \in Keys : Has("Challenge", k) => k \in linked
=============================================================================
