------------------------------ MODULE Backoffice ------------------------------
(***************************************************************************)
(* The handlers of orders, challenges, withdrawals and verifications over  *)
(* one database, one broker and one mailbox.                               *)
(***************************************************************************)
EXTENDS Orders, ChallengeLifecycle, Payouts, IdentityVerification

CallStep(c) == OrderStep(c) \/ LifecycleStep(c) \/ PayoutStep(c) \/ VerificationStep(c)

CallTrouble(c) == OrderTrouble(c) \/ LifecycleFault(c) \/ PayoutFault(c) \/ VerificationFault(c)

BackofficeNext == Crash \/ \E c \in Calls : CallStep(c) \/ CallTrouble(c)

\* Every promise a handler awaits settles: the calls it makes have time-outs.
BackofficeFairness == \A c \in Calls : WF_backofficeVars(CallStep(c))

BackofficeSpec == TablesInit /\ [][BackofficeNext]_backofficeVars /\ BackofficeFairness

Logins == [kind : {"none", "internal", "broker", "changed"}, account : 0..maxRetries + 1]

\* The shapes of the tables and of the local variables.
BackofficeTypeOK ==
  /\ job \in Scenarios
  /\ faults \in 0..MaxFaults /\ crashes \in 0..MaxCrashes
  /\ \A c \in Calls :
       /\ local[c].try \in 1..(maxRetries + 1) \cup 1..(Files + 1)
       /\ local[c].conflicts \in 0..maxRetries
       /\ local[c].child \in BOOLEAN
       /\ db.row[c] \in Logins
  /\ db.users \subseteq Users /\ db.verified \subseteq Users
  /\ db.details \subseteq Challenges /\ db.orders \subseteq Calls
  /\ db.certificates \subseteq Challenges \X Calls
  /\ db.media \subseteq Verifications \X (1..Files + 1)
  /\ out.accounts \subseteq Calls \X (1..maxRetries + 1)
  /\ out.deposits \subseteq Calls \X (1..maxRetries + 1)
  /\ out.buffer \subseteq Challenges

\* Every call is answered unless the process dies under it, however often the
\* broker and the database report a conflict: the retries are counted.
EveryCallEnds == \A c \in Calls : <>(pc[c] \in Ended)

\* What the shop sees of a delivery: an order that is saved is kept, a call that
\* answers an error without one is refused.
OrderCalls == {c \in Calls : job[c].op = "order"}
DeliveryOutcome(c) ==
  IF c \in db.orders THEN "kept" ELSE IF job[c].op = "order" /\ pc[c] = "error" THEN "refused" ELSE "open"
DeliveryAccount(c) == IF c \in db.orders THEN DepositsOf(c) ELSE {}

Promise == INSTANCE Fulfilment WITH
  Deliveries <- Calls, Accounts <- Calls \X (1..maxRetries + 1),
  outcome <- [c \in Calls |-> DeliveryOutcome(c)], account <- [c \in Calls |-> DeliveryAccount(c)]

\* The handlers of orders keep what Fulfilment promises: an answer that is an
\* error and an order never go together, and no two deliveries share an account.
KeepsPromise == Promise!FSpec
=============================================================================
