--------------------------- MODULE BackofficeTables ---------------------------
(***************************************************************************)
(* What the handlers of orders, challenges, withdrawals and verifications  *)
(* share: the database, the services outside it, and the calls in          *)
(* progress.  A handler is cut at its awaits; calls interleave freely.  A  *)
(* call makes at most one row of each kind, which is named after it.       *)
(***************************************************************************)
EXTENDS Naturals, FiniteSets

CONSTANTS
  Calls,        \* the requests
  Users,        \* e-mail addresses, each with the user name made from it
  Scenarios,    \* what the calls ask for: a set of functions of Calls
  GivenPhase,   \* the challenges there are from the start, with their phase
  GivenUser,    \* whose they are
  Submitter,    \* who submitted the verification there is from the start
  Phases,       \* number of stages of the relation
  MaxFaults,    \* bound on queries, mails, uploads and requests that fail
  MaxCrashes    \* bound on crashes of the process

ASSUME PhasesAssumption == Phases \in Nat \ {0}
ASSUME BoundsAssumption == MaxFaults \in Nat /\ MaxCrashes \in Nat

VARIABLES
  job,      \* [op, on]: what each call asks for
  pc,       \* where its handler is
  local,    \* its local variables
  db,       \* the tables
  out,      \* the broker, the mailbox, the object store and the buffer
  faults, crashes

backofficeVars == <<job, pc, local, db, out, faults, crashes>>

Given == DOMAIN GivenPhase
Challenges == Given \cup Calls
NoRow == [user |-> "none", status |-> "none"]
FirstVerification == "v0"
FirstWithdrawal == "w0"
Withdrawals == Calls \cup {FirstWithdrawal}
Verifications == Calls \cup {FirstVerification}

\* Rows made by calls are not the ones there are from the start, whose user and
\* phase are known; a call is an operation and what it is on: the user of an
\* order, a challenge there is or may be for an approval.
ASSUME NamesAssumption ==
  /\ Given \cap Calls = {} /\ FirstVerification \notin Calls /\ FirstWithdrawal \notin Calls
  /\ \A g \in Given : GivenPhase[g] \in 1..Phases /\ GivenUser[g] \in Users
  /\ \A s \in Scenarios : \A c \in Calls :
       /\ s[c] = [op |-> s[c].op, on |-> s[c].on]
       /\ s[c].op \in {"approve", "disapprove"} => s[c].on \in Challenges
       /\ s[c].op \in {"order", "verifyUser"} => s[c].on \in Users

Ended == {"idle", "ok", "error", "unmailed", "gone"}

On(c) == job[c].on
At(c, ops, p) == job[c].op \in ops /\ pc[c] = p
Goto(c, p) == pc' = [pc EXCEPT ![c] = p]
Keep(v) == UNCHANGED <<job, faults, crashes>> /\ UNCHANGED v

\* A mail of a kind sent by a call.
Mailed(c, kind) == out' = [out EXCEPT !.mails = @ \cup {<<c, kind>>}]

IsRow(id) == db.challenge[id] # NoRow

\* The broker-account row a call makes: the login is that of an account at the
\* broker, one made from it because it was taken, or one made from the time.
Login(kind, account) == [kind |-> kind, account |-> account]
HasAccountRow(c) == db.row[c].kind # "none"

\* The challenge a call makes.
NewChallenge(user, phase, parent, active) ==
  [user |-> user, phase |-> phase, parent |-> parent, status |-> "initial", active |-> active]

TablesInit ==
  /\ job \in Scenarios
  /\ pc = [c \in Calls |-> IF job[c].op = "idle" THEN "idle" ELSE "start"]
  /\ local = [c \in Calls |-> [try |-> 1, conflicts |-> 0, child |-> FALSE, read |-> "none"]]
  /\ db = [users |-> {GivenUser[g] : g \in Given}, verified |-> {},
           row |-> [c \in Calls |-> Login("none", 0)],
           challenge |-> [i \in Challenges |-> IF i \in Given
                            THEN NewChallenge(GivenUser[i], GivenPhase[i], "none", TRUE) ELSE NoRow],
           details |-> Given, certificates |-> {}, orders |-> {},
           withdrawal |-> [w \in Withdrawals |-> IF w = FirstWithdrawal THEN "pending" ELSE "none"],
           verification |-> [v \in Verifications |-> IF v = FirstVerification
                               THEN [user |-> Submitter, status |-> "pending"] ELSE NoRow],
           media |-> {<<FirstVerification, 1>>}]
  /\ out = [accounts |-> {}, deposits |-> {}, mails |-> {}, files |-> {<<FirstVerification, 1>>},
            buffer |-> Given]
  /\ faults = 0
  /\ crashes = 0

\* createBrokerAccount for one of the accounts with a login made from the time.
SaveAccountRow(c, p, next) ==
  /\ pc[c] = p
  /\ db' = [db EXCEPT !.row[c] = Login("internal", 0)]
  /\ Goto(c, next)
  /\ Keep(<<local, out>>)

\* The certificate of a challenge, with the call that made it.
SaveCertificate(c, p, id, next) ==
  /\ pc[c] = p
  /\ db' = [db EXCEPT !.certificates = @ \cup {<<id, c>>}]
  /\ Goto(c, next)
  /\ Keep(<<local, out>>)

SendMail(c, p, kind, next) ==
  /\ pc[c] = p
  /\ Mailed(c, kind)
  /\ Goto(c, next)
  /\ Keep(<<local, db>>)

\* A query, a request or a mail fails: the error goes up to the handler's
\* catch, which drops the transaction if there is one and answers an error.
Fault(c) ==
  /\ pc[c] \notin Ended /\ faults < MaxFaults
  /\ faults' = faults + 1
  /\ Goto(c, "error")
  /\ UNCHANGED <<job, local, db, out, crashes>>

\* The process dies and with it every call in progress.
Crash ==
  /\ crashes < MaxCrashes
  /\ crashes' = crashes + 1
  /\ pc' = [c \in Calls |-> IF pc[c] \in Ended THEN pc[c] ELSE "gone"]
  /\ UNCHANGED <<job, local, db, out, faults>>
=============================================================================
