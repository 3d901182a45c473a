-------------------------------- MODULE Orders --------------------------------
(***************************************************************************)
(* orders.service.ts: the handler of the shop's webhook.  It finds or      *)
(* makes the user, makes an account at the broker and deposits the         *)
(* balance, saves the account, the challenge, its details and the order,   *)
(* and mails the credentials.  Nothing is undone when a step fails.        *)
(***************************************************************************)
EXTENDS BackofficeTables

CONSTANT maxRetries   \* of an account at the broker and of its login; 3 in the code

ASSUME RetriesAssumption == maxRetries \in Nat

Order(c, p) == At(c, {"order"}, p)

FindUser(c) ==
  /\ Order(c, "start")
  /\ Goto(c, IF On(c) \in db.users THEN "plan" ELSE "createUser")
  /\ Keep(<<local, db, out>>)

\* usersService.create looks for the e-mail and the user name first.
CheckUser(c) ==
  /\ Order(c, "createUser")
  /\ Goto(c, IF On(c) \in db.users THEN "error" ELSE "saveUser")
  /\ Keep(<<local, db, out>>)

\* Both are unique in the database.
createUserByOrder(c) ==
  /\ Order(c, "saveUser")
  /\ IF On(c) \in db.users THEN Goto(c, "error") /\ UNCHANGED db
     ELSE db' = [db EXCEPT !.users = @ \cup {On(c)}] /\ Goto(c, "mailUser")
  /\ Keep(<<local, out>>)

MailAccount(c) == job[c].op = "order" /\ SendMail(c, "mailUser", "account", "plan")

\* The plan, its relation and the balance of the variation that was bought.
ReadPlan(c) ==
  /\ Order(c, "plan")
  /\ Goto(c, "create")
  /\ Keep(<<local, db, out>>)

\* Mutants of Retry: without the bound, and without counting.
RetryUnbounded(c) == local' = [local EXCEPT ![c].try = @ + 1] /\ Goto(c, "create")

RetryUncounted(c) == UNCHANGED local /\ Goto(c, "create")

\* What the broker calls a conflict is tried again, another account being made
\* when it was the deposit that was refused.
Retry(c) ==
  IF local[c].try <= maxRetries
  THEN local' = [local EXCEPT ![c].try = @ + 1] /\ Goto(c, "create")
  ELSE UNCHANGED local /\ Goto(c, "error")

CreateAccount(c) ==
  /\ Order(c, "create")
  /\ \/ /\ out' = [out EXCEPT !.accounts = @ \cup {<<c, local[c].try>>}]
        /\ Goto(c, "deposit") /\ UNCHANGED local
     \/ Retry(c) /\ UNCHANGED out
  /\ Keep(<<db>>)

\* Mutant of makeDeposit: a deposit that is refused is only logged.
makeDepositLogged(c) ==
  /\ Order(c, "deposit")
  /\ out' = [out EXCEPT !.deposits = @ \cup {<<c, local[c].try>>}] \/ UNCHANGED out
  /\ Goto(c, "row")
  /\ Keep(<<local, db>>)

makeDeposit(c) ==
  /\ Order(c, "deposit")
  /\ \/ /\ out' = [out EXCEPT !.deposits = @ \cup {<<c, local[c].try>>}]
        /\ Goto(c, "row") /\ UNCHANGED local
     \/ Retry(c) /\ UNCHANGED out
  /\ Keep(<<db>>)

\* The broker does what it was asked and the answer is lost.
LostAnswer(c) ==
  /\ job[c].op = "order" /\ pc[c] \in {"create", "deposit"} /\ faults < MaxFaults
  /\ LET made == {<<c, local[c].try>>} IN
       out' = IF pc[c] = "create" THEN [out EXCEPT !.accounts = @ \cup made]
              ELSE [out EXCEPT !.deposits = @ \cup made]
  /\ faults' = faults + 1
  /\ Goto(c, "error")
  /\ UNCHANGED <<job, local, db, crashes>>

\* A login that is taken is changed and tried again.
createBrokerAccountRow(c) ==
  /\ Order(c, "row")
  /\ \/ /\ db' = [db EXCEPT !.row[c] = 
                          Login(IF local[c].conflicts = 0 THEN "broker" ELSE "changed", local[c].try)]
        /\ Goto(c, "challenge") /\ UNCHANGED local
     \/ /\ local[c].conflicts < maxRetries
        /\ local' = [local EXCEPT ![c].conflicts = @ + 1]
        /\ UNCHANGED <<pc, db>>
     \/ /\ local[c].conflicts = maxRetries
        /\ Goto(c, "error") /\ UNCHANGED <<local, db>>
  /\ Keep(<<out>>)

createChallenge(c) ==
  /\ Order(c, "challenge")
  /\ db' = [db EXCEPT !.challenge[c] = NewChallenge(On(c), 1, "none", TRUE)]
  /\ Goto(c, "details")
  /\ Keep(<<local, out>>)

\* Mutant of createChallengeDetails: an error is only logged.
createDetailsLogged(c) ==
  /\ Order(c, "details")
  /\ db' = [db EXCEPT !.details = @ \cup {c}] \/ UNCHANGED db
  /\ Goto(c, "buffer")
  /\ Keep(<<local, out>>)

createChallengeDetails(c) ==
  /\ Order(c, "details")
  /\ db' = [db EXCEPT !.details = @ \cup {c}]
  /\ Goto(c, "buffer")
  /\ Keep(<<local, out>>)

\* An error of the buffer is logged.
LoadIntoBuffer(c) ==
  /\ Order(c, "buffer")
  /\ \/ out' = [out EXCEPT !.buffer = @ \cup {c}]
     \/ UNCHANGED out
  /\ Goto(c, "order")
  /\ Keep(<<local, db>>)

SaveOrder(c) ==
  /\ Order(c, "order")
  /\ db' = [db EXCEPT !.orders = @ \cup {c}]
  /\ Goto(c, "mail")
  /\ Keep(<<local, out>>)

MailOrder(c) == job[c].op = "order" /\ SendMail(c, "mail", "challenge", "ok")

\* The answer is an error, but one of its own.
MailOrderFails(c) ==
  /\ Order(c, "mail") /\ faults < MaxFaults
  /\ faults' = faults + 1
  /\ Goto(c, "unmailed")
  /\ UNCHANGED <<job, local, db, out, crashes>>

OrderFault(c) == job[c].op = "order" /\ pc[c] \notin {"buffer", "mail"} /\ Fault(c)

\* What the call does by itself, and what happens to it.
OrderStep(c) ==
  \/ FindUser(c) \/ CheckUser(c) \/ createUserByOrder(c) \/ MailAccount(c) \/ ReadPlan(c)
  \/ CreateAccount(c) \/ makeDeposit(c) \/ createBrokerAccountRow(c) \/ createChallenge(c)
  \/ createChallengeDetails(c) \/ LoadIntoBuffer(c) \/ SaveOrder(c) \/ MailOrder(c)

OrderTrouble(c) == LostAnswer(c) \/ MailOrderFails(c) \/ OrderFault(c)

DepositsOf(c) == {d \in out.deposits : d[1] = c}

\* Every saved order has its user, a challenge with details and one account that
\* got one deposit, and the login saved is that account's unless it was taken:
\* whatever was tried again, delivered twice or failed on the way.
OrderIsComplete ==
  \A c \in db.orders :
    /\ On(c) \in db.users
    /\ db.challenge[c] # NoRow /\ db.challenge[c].user = On(c)
    /\ c \in db.details
    /\ DepositsOf(c) = {<<c, local[c].try>>} /\ <<c, local[c].try>> \in out.accounts
    /\ db.row[c].kind \in {"broker", "changed"} /\ db.row[c].account = local[c].try
=============================================================================
