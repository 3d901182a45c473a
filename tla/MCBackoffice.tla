----------------------------- MODULE MCBackoffice -----------------------------
(***************************************************************************)
(* Two calls at once, of every pair of kinds that touch the same rows.     *)
(* c1 and c2 are in the first and the second phase of three, c3 in the     *)
(* last; c2 is of a user who has submitted a verification.                 *)
(***************************************************************************)
EXTENDS Backoffice

MCCalls == {"a", "b"}
MCUsers == {"ann", "bob", "eve"}
MCGivenPhase == [c1 |-> 1, c2 |-> 2, c3 |-> 3, c4 |-> 2]
MCGivenUser == [c1 |-> "ann", c2 |-> "bob", c3 |-> "bob", c4 |-> "ann"]

Job(op, on) == [op |-> op, on |-> on]
Pair(p, q) == [a |-> p, b |-> q]

MCScenarios == {
  Pair(Job("order", "eve"), Job("order", "eve")),
  Pair(Job("order", "eve"), Job("order", "ann")),
  Pair(Job("approve", "c1"), Job("approve", "c1")),
  Pair(Job("approve", "c2"), Job("verifyUser", "bob")),
  Pair(Job("approve", "c4"), Job("approve", "c4")),
  Pair(Job("approve", "c4"), Job("submit", "ann")),
  Pair(Job("approve", "c2"), Job("disapprove", "c2")),
  Pair(Job("approve", "c1"), Job("approve", "a")),
  Pair(Job("approve", "c4"), Job("approve", "a")),
  Pair(Job("approve", "c3"), Job("disapprove", "c3")),
  Pair(Job("order", "bob"), Job("approve", "a")),
  Pair(Job("withdraw", "c3"), Job("approveWithdrawal", "a")),
  Pair(Job("approveWithdrawal", "w0"), Job("approveWithdrawal", "w0")),
  Pair(Job("approveWithdrawal", "w0"), Job("rejectWithdrawal", "w0")),
  Pair(Job("approveWithdrawal", "w0"), Job("updateWithdrawal", "w0")),
  Pair(Job("approveWithdrawal", "w0"), Job("removeWithdrawal", "w0")),
  Pair(Job("patchApproved", "w0"), Job("rejectWithdrawal", "w0")),
  Pair(Job("submit", "ann"), Job("removeVerification", "a")),
  Pair(Job("submit", "ann"), Job("approveVerification", "a")),
  Pair(Job("approveVerification", "v0"), Job("rejectVerification", "v0")),
  Pair(Job("removeVerification", "v0"), Job("approveVerification", "v0"))}
=============================================================================
