------------------------------ MODULE Directory ------------------------------
(***************************************************************************)
(* The services over rows with a name: users, roles, permissions, broker   *)
(* accounts, affiliates, styles, and the categories, plans, stages, rules, *)
(* balances and relations of the challenge templates.  All have the same   *)
(* create, update and remove; they differ in whether create and update     *)
(* look for the name first, and in whether the table keeps it unique.      *)
(***************************************************************************)
EXTENDS Requests

\* Whether create looks for the name, whether update does, and whether the
\* column has a unique index.
UserRows == [create |-> TRUE, update |-> TRUE, unique |-> TRUE]
RoleRows == [create |-> TRUE, update |-> FALSE, unique |-> TRUE]
PermissionRows == [create |-> TRUE, update |-> FALSE, unique |-> TRUE]
BrokerAccountRows == [create |-> TRUE, update |-> TRUE, unique |-> TRUE]
AffiliateRows == [create |-> TRUE, update |-> TRUE, unique |-> TRUE]
StyleRows == [create |-> TRUE, update |-> TRUE, unique |-> FALSE]
CategoryRows == [create |-> FALSE, update |-> FALSE, unique |-> TRUE]
PlanRows == [create |-> FALSE, update |-> FALSE, unique |-> FALSE]
StageRows == [create |-> FALSE, update |-> FALSE, unique |-> FALSE]
RuleRows == [create |-> FALSE, update |-> FALSE, unique |-> TRUE]
BalanceRows == [create |-> FALSE, update |-> FALSE, unique |-> FALSE]
RelationRows == [create |-> FALSE, update |-> FALSE, unique |-> FALSE]

Rows == [user |-> UserRows, role |-> RoleRows, permission |-> PermissionRows,
         brokerAccount |-> BrokerAccountRows, affiliate |-> AffiliateRows, style |-> StyleRows,
         category |-> CategoryRows, plan |-> PlanRows, stage |-> StageRows, rule |-> RuleRows,
         balance |-> BalanceRows, relation |-> RelationRows]

\* What the unique indexes keep apart.
KeysAreUnique(rows) ==
  \A r, s \in DOMAIN rows :
    r # s /\ rows[r].kind = rows[s].kind /\ rows[r].kind \in DOMAIN Rows /\ Rows[rows[r].kind].unique
      => rows[r].name # rows[s].name

NamedOps == {"createNamed", "renameNamed", "removeNamed"}

\* A row is named after the call that made it; rename gives it the new name.
\* Target(c) is [kind, name, row].
Kind(c) == Target(c).kind
Name(c) == Target(c).name
Named(kind, name) == {r \in DOMAIN tab.named : tab.named[r].kind = kind /\ tab.named[r].name = name}
RowOf(c) == IF req[c].op = "createNamed" THEN c ELSE Target(c).row
Taken(c) == Named(Kind(c), Name(c)) \ {RowOf(c)} # {}

LookForName(c) ==
  /\ Asks(c, {"createNamed"}, "start")
  /\ To(c, IF Rows[Kind(c)].create /\ Taken(c) THEN "error" ELSE "write")
  /\ UNCHANGED <<tab, failures>>

\* update reads its row first, and looks for a name that is new.
FindNamed(c) ==
  /\ Asks(c, {"renameNamed", "removeNamed"}, "start")
  /\ To(c, IF tab.named[RowOf(c)].kind # Kind(c) THEN "error"
           ELSE IF req[c].op = "renameNamed" /\ Rows[Kind(c)].update THEN "look" ELSE "write")
  /\ UNCHANGED <<tab, failures>>

\* Mutant of LookForNewName: it goes on.
RenameAnyway(c) ==
  /\ Asks(c, {"renameNamed"}, "look")
  /\ To(c, "write")
  /\ UNCHANGED <<tab, failures>>

LookForNewName(c) ==
  /\ Asks(c, {"renameNamed"}, "look")
  /\ To(c, IF Taken(c) THEN "error" ELSE "write")
  /\ UNCHANGED <<tab, failures>>

\* The unique index has the last word.
WriteNamed(c) ==
  /\ Asks(c, {"createNamed", "renameNamed"}, "write")
  /\ IF Rows[Kind(c)].unique /\ Taken(c) THEN To(c, "error") /\ UNCHANGED tab
     ELSE /\ tab' = [tab EXCEPT !.named[RowOf(c)] = [kind |-> Kind(c), name |-> Name(c), by |-> c]]
          /\ To(c, "ok")
  /\ UNCHANGED failures

RemoveNamed(c) ==
  /\ Asks(c, {"removeNamed"}, "write")
  /\ tab' = [tab EXCEPT !.named[RowOf(c)] = [kind |-> "none", name |-> "none", by |-> "none"]]
  /\ To(c, "ok")
  /\ UNCHANGED failures

NamedStep(c) ==
  LookForName(c) \/ FindNamed(c) \/ LookForNewName(c) \/ WriteNamed(c) \/ RemoveNamed(c)

\* Two rows of one kind have the same name only where no column is unique, and
\* then only if the calls that named them overlapped or the service never looks.
NamedTwiceByOverlap ==
  \A c, d \in Requesters :
    /\ c # d /\ req[c].op \in {"createNamed", "renameNamed"} /\ req[d].op \in {"createNamed", "renameNamed"}
    /\ Kind(c) = Kind(d) /\ Name(c) = Name(d)
    /\ \E r, s \in DOMAIN tab.named : r # s /\ tab.named[r].by = c /\ tab.named[s].by = d
         /\ tab.named[r].kind # "none" /\ tab.named[s].kind # "none"
    => /\ ~Rows[Kind(c)].unique
       /\ Overlap(c, d) \/ ~Rows[Kind(c)].create \/ ~Rows[Kind(c)].update
=============================================================================
