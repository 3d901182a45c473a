------------------------------- MODULE Requests -------------------------------
(***************************************************************************)
(* The requests the administration services handle at once, cut at their   *)
(* awaits, and the tables they work on.  before[c] are the calls that had  *)
(* been answered when c began: calls overlap if neither is before the      *)
(* other.                                                                  *)
(***************************************************************************)
EXTENDS Naturals, FiniteSets

CONSTANTS
  Requesters,     \* the calls
  MaxFailures     \* bound on the queries and mails that fail

\* "none" stands for no token and no password.
ASSUME RequestersAssumption == "none" \notin Requesters

VARIABLES req, tab, failures

requestVars == <<req, tab, failures>>

Over == {"idle", "ok", "error"}
Asks(c, ops, p) == req[c].op \in ops /\ req[c].pc = p
Target(c) == req[c].on
To(c, p) == req' = [req EXCEPT ![c].pc = p]
ToWith(c, p, change) == req' = [req EXCEPT ![c] = change, ![c].pc = p]

Answered(c) == req[c].pc = "ok"
Overlap(c, d) == c # d /\ c \notin req[d].before /\ d \notin req[c].before /\ req[d].pc # "new"
IsLast(c) == Answered(c) /\ \A d \in Requesters \ {c} : d \in req[c].before

NoUser == [role |-> "none", confirmed |-> FALSE, token |-> "none", password |-> "none", google |-> FALSE]

\* A call before it begins: what it asks for, and its local variables.
Request(op, on) ==
  [op |-> op, on |-> on, pc |-> "new", before |-> {}, row |-> NoUser, todo |-> {}, seen |-> {}]

\* The call begins.
Receive(c) ==
  /\ req[c].pc = "new"
  /\ req' = [req EXCEPT ![c].pc = "start", ![c].before = {d \in Requesters : req[d].pc \in Over}]
  /\ UNCHANGED <<tab, failures>>

\* A query or a mail it waits for fails.
Fail(c) ==
  /\ req[c].pc \notin Over \cup {"new"} /\ failures < MaxFailures
  /\ failures' = failures + 1
  /\ To(c, "error")
  /\ UNCHANGED tab
=============================================================================
