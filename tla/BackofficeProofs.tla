---------------------------- MODULE BackofficeProofs ----------------------------
(***************************************************************************)
(* The back office for any number of calls, users, phases and retries.     *)
(* What a call has reached is stated per call; Frame says what a step of   *)
(* one call leaves to the others, so that each needs to be followed only   *)
(* through its own handler.                                                *)
(***************************************************************************)
EXTENDS Backoffice, TLAPS

(***************************************************************************)
(* Shapes.                                                                 *)
(***************************************************************************)

ChallengeFields == {"user", "phase", "parent", "status", "active"}

\* The tables are records of functions; a challenge is a row or NoRow.
Shape ==
  /\ job \in Scenarios
  /\ DOMAIN pc = Calls /\ DOMAIN local = Calls
  /\ \A c \in Calls : DOMAIN local[c] = {"try", "conflicts", "child", "read"}
  /\ DOMAIN db = {"users", "verified", "row", "challenge", "details", "certificates", "orders",
                  "withdrawal", "verification", "media"}
  /\ DOMAIN db.row = Calls /\ DOMAIN db.challenge = Challenges
  /\ DOMAIN db.withdrawal = Withdrawals /\ DOMAIN db.verification = Verifications
  /\ DOMAIN out = {"accounts", "deposits", "mails", "files", "buffer"}

\* A challenge is no row, or has its fields.
Row(i) ==
  \/ db.challenge[i] = NoRow
  \/ /\ DOMAIN db.challenge[i] = ChallengeFields
     /\ db.challenge[i].phase \in Nat
     /\ db.challenge[i].status \in {"initial", "approved", "disapproved"}

LEMMA ShapeInit == TablesInit => Shape
BY DEF TablesInit, Shape

LEMMA OrderShape == ASSUME Shape, NEW c \in Calls, OrderStep(c) \/ OrderTrouble(c) PROVE Shape'
<1> USE DEF Shape, Goto, Keep, Order, At
<1>1. CASE FindUser(c) \/ CheckUser(c) \/ createUserByOrder(c) \/ MailAccount(c) \/ ReadPlan(c)
  BY <1>1 DEF FindUser, CheckUser, createUserByOrder, MailAccount, SendMail, Mailed, ReadPlan
<1>2. CASE CreateAccount(c) BY <1>2 DEF CreateAccount, Retry
<1>3. CASE makeDeposit(c) BY <1>3 DEF makeDeposit, Retry
<1>4. CASE createBrokerAccountRow(c) BY <1>4 DEF createBrokerAccountRow
<1>5. CASE createChallenge(c) \/ createChallengeDetails(c) \/ LoadIntoBuffer(c) \/ SaveOrder(c) \/ MailOrder(c)
  BY <1>5 DEF createChallenge, createChallengeDetails, LoadIntoBuffer, SaveOrder, MailOrder, SendMail, Mailed
<1>6. CASE OrderTrouble(c)
  BY <1>6 DEF OrderTrouble, LostAnswer, MailOrderFails, OrderFault, Fault
<1> QED BY <1>1, <1>2, <1>3, <1>4, <1>5, <1>6 DEF OrderStep

LEMMA LifecycleShape == ASSUME Shape, NEW c \in Calls, LifecycleStep(c) \/ LifecycleFault(c) PROVE Shape'
<1> USE DEF Shape, Goto, Keep, At
<1>1. CASE BeginApproval(c) \/ LeaveBuffer(c) \/ ReadUser(c) \/ findByUserId(c)
  BY <1>1 DEF BeginApproval, LeaveBuffer, ReadUser, findByUserId, Approval
<1>2. CASE RequireVerification(c) \/ MailVerify(c) \/ PendingAccount(c) \/ NextAccount(c)
  BY <1>2 DEF RequireVerification, MailVerify, PendingAccount, NextAccount, SaveAccountRow, SendMail, Mailed, Approval
<1>3. CASE NextChallenge(c) \/ MailPhase(c) \/ PhaseCertificate(c)
  BY <1>3 DEF NextChallenge, MailPhase, PhaseCertificate, SendMail, Mailed, SaveCertificate
<1>4. CASE CommitApproval(c) BY <1>4 DEF CommitApproval, Approval
<1>5. CASE BeginDisapproval(c) \/ MailDisapproval(c) \/ CommitDisapproval(c) \/ VerifyUser(c) \/ LifecycleFault(c)
  BY <1>5 DEF BeginDisapproval, MailDisapproval, CommitDisapproval, VerifyUser, LifecycleFault, Fault,
              SendMail, Mailed, Disapproval
<1> QED BY <1>1, <1>2, <1>3, <1>4, <1>5 DEF LifecycleStep

LEMMA PayoutShape == ASSUME Shape, NEW c \in Calls, PayoutStep(c) \/ PayoutFault(c) PROVE Shape'
<1> USE DEF Shape, Goto, Keep, At
<1>1. CASE CreateWithdrawal(c) \/ FindWithdrawal(c) \/ handleWithdrawalApproval(c) \/ PayoutFault(c)
  BY <1>1 DEF CreateWithdrawal, FindWithdrawal, handleWithdrawalApproval, PayoutFault, Fault
<1>2. CASE PayoutAccount(c) \/ PayoutChallenge(c) \/ PayoutCertificate(c) \/ MailPayout(c)
  BY <1>2 DEF PayoutAccount, PayoutChallenge, PayoutCertificate, MailPayout, SaveAccountRow, SaveCertificate,
              SendMail, Mailed
<1>3. CASE updateWithdrawalStatus(c) \/ UpdateWithdrawal(c) \/ RemoveWithdrawal(c)
  BY <1>3 DEF updateWithdrawalStatus, UpdateWithdrawal, RemoveWithdrawal
<1> QED BY <1>1, <1>2, <1>3 DEF PayoutStep

LEMMA VerificationShape ==
  ASSUME Shape, NEW c \in Calls, VerificationStep(c) \/ VerificationFault(c) PROVE Shape'
<1> USE DEF Shape, Goto, Keep, At
<1>1. CASE Submit(c) \/ uploadFile(c) \/ SaveMedia(c) \/ MailSubmitted(c) \/ VerificationFault(c)
  BY <1>1 DEF Submit, uploadFile, SaveMedia, MailSubmitted, VerificationFault, Fault, SendMail, Mailed, Submission
<1>2. CASE FindVerification(c) \/ UpdateVerification(c) \/ sendVerificationStatusEmail(c)
  BY <1>2 DEF FindVerification, UpdateVerification, sendVerificationStatusEmail, Mailed
<1>3. CASE DeleteFiles(c) \/ RemoveVerification(c) BY <1>3 DEF DeleteFiles, RemoveVerification
<1> QED BY <1>1, <1>2, <1>3 DEF VerificationStep

LEMMA ShapeStep == ASSUME Shape, [BackofficeNext]_backofficeVars PROVE Shape'
<1>1. CASE Crash BY <1>1 DEF Crash, Shape
<1>2. CASE UNCHANGED backofficeVars BY <1>2 DEF backofficeVars, Shape
<1> QED BY <1>1, <1>2, OrderShape, LifecycleShape, PayoutShape, VerificationShape
        DEF BackofficeNext, CallStep, CallTrouble

(***************************************************************************)
(* What every call leaves to the others.                                   *)
(***************************************************************************)

\* A row stays what it is, or is closed.
RowKept(i) ==
  \/ db'.challenge[i] = db.challenge[i]
  \/ /\ IsRow(i)
     /\ DOMAIN db'.challenge[i] = ChallengeFields
     /\ db'.challenge[i].user = db.challenge[i].user
     /\ db'.challenge[i].phase = db.challenge[i].phase
     /\ db'.challenge[i].parent = db.challenge[i].parent
     /\ db'.challenge[i].status \in {"approved", "disapproved"}
     /\ ~db'.challenge[i].active

\* A step of call d: what it leaves of the other calls, of the challenges, of the
\* other tables and outside the database.
CallsFrame(d) ==
  job' = job /\ \A c \in Calls \ {d} : pc'[c] = pc[c] /\ local'[c] = local[c] /\ db'.row[c] = db.row[c]
RowsFrame(d) == \A i \in Challenges : (i = d /\ ~IsRow(i) /\ Row(i)') \/ RowKept(i)
TablesFrame(d) ==
  /\ db.users \subseteq db'.users /\ db.verified \subseteq db'.verified
  /\ db.details \subseteq db'.details /\ db.certificates \subseteq db'.certificates
  /\ db'.orders = db.orders \/ (job[d].op = "order" /\ db'.orders = db.orders \cup {d})
OutFrame(d) ==
  /\ \E t : out'.accounts \in {out.accounts, out.accounts \cup {<<d, t>>}}
  /\ \E t : out'.deposits \in {out.deposits, out.deposits \cup {<<d, t>>}}
  /\ out.mails \subseteq out'.mails
Frame(d) == CallsFrame(d) /\ RowsFrame(d) /\ TablesFrame(d) /\ OutFrame(d)

\* Before a call makes its challenge there is none of its name; an approval that
\* has begun is of a challenge there is.
NotYet(c) ==
  /\ job[c].op = "order" /\ pc[c] \in {"start", "createUser", "saveUser", "mailUser", "plan", "create",
                                     "deposit", "row", "challenge"} => ~IsRow(c)
  /\ job[c].op = "approveWithdrawal" /\ pc[c] \in {"start", "refind", "row", "challenge"} => ~IsRow(c)
  /\ job[c].op = "approve" /\ pc[c] # "ok" => ~IsRow(c)
  /\ job[c].op \in {"approve", "disapprove"} /\ pc[c] \notin {"start", "error", "gone"} => IsRow(On(c))
  /\ job[c].op \in {"approve", "disapprove"} => On(c) \in Challenges

RowsInv == (\A c \in Calls : NotYet(c)) /\ (\A i \in Challenges : Row(i))

\* The handler of orders makes its own account, rows and challenge.
LEMMA OrderFrame ==
  ASSUME Shape, RowsInv, NEW c \in Calls, OrderStep(c) \/ OrderTrouble(c) PROVE Frame(c)
<1> USE DEF Shape, Goto, Keep, At, RowKept, Order
<1>1. CASE FindUser(c) \/ CheckUser(c) \/ createUserByOrder(c) \/ MailAccount(c) \/ ReadPlan(c)
  <2> USE <1>1 DEF FindUser, CheckUser, createUserByOrder, MailAccount, SendMail, Mailed, ReadPlan
  <2>1. CallsFrame(c) BY DEF CallsFrame
  <2>2. RowsFrame(c) BY DEF RowsFrame
  <2>3. TablesFrame(c) BY DEF TablesFrame
  <2>4. OutFrame(c) BY DEF OutFrame
  <2> QED BY <2>1, <2>2, <2>3, <2>4 DEF Frame
<1>2. CASE CreateAccount(c)
  <2> USE <1>2 DEF CreateAccount, Retry
  <2>1. CallsFrame(c) BY DEF CallsFrame
  <2>2. RowsFrame(c) BY DEF RowsFrame
  <2>3. TablesFrame(c) BY DEF TablesFrame
  <2>4. OutFrame(c) BY DEF OutFrame
  <2> QED BY <2>1, <2>2, <2>3, <2>4 DEF Frame
<1>3. CASE makeDeposit(c)
  <2> USE <1>3 DEF makeDeposit, Retry
  <2>1. CallsFrame(c) BY DEF CallsFrame
  <2>2. RowsFrame(c) BY DEF RowsFrame
  <2>3. TablesFrame(c) BY DEF TablesFrame
  <2>4. OutFrame(c) BY DEF OutFrame
  <2> QED BY <2>1, <2>2, <2>3, <2>4 DEF Frame
<1>4. CASE createBrokerAccountRow(c)
  <2> USE <1>4 DEF createBrokerAccountRow
  <2>1. CallsFrame(c) BY DEF CallsFrame
  <2>2. RowsFrame(c) BY DEF RowsFrame
  <2>3. TablesFrame(c) BY DEF TablesFrame
  <2>4. OutFrame(c) BY DEF OutFrame
  <2> QED BY <2>1, <2>2, <2>3, <2>4 DEF Frame
<1>5. CASE createChallenge(c)
  <2>1. ~IsRow(c) BY <1>5 DEF createChallenge, RowsInv, NotYet
  <2>a. db'.challenge[c] = NewChallenge(On(c), 1, "none", TRUE) BY <1>5 DEF createChallenge, Challenges
  <2>2. Row(c)' BY <2>a DEF Row, NewChallenge, ChallengeFields
  <2> USE <1>5, <2>1, <2>2 DEF createChallenge
  <2>3. CallsFrame(c) BY DEF CallsFrame
  <2>4. RowsFrame(c) BY DEF RowsFrame
  <2>5. TablesFrame(c) BY DEF TablesFrame
  <2>6. OutFrame(c) BY DEF OutFrame
  <2> QED BY <2>3, <2>4, <2>5, <2>6 DEF Frame
<1>6. CASE createChallengeDetails(c) \/ LoadIntoBuffer(c) \/ SaveOrder(c) \/ MailOrder(c)
  <2> USE <1>6 DEF createChallengeDetails, LoadIntoBuffer, SaveOrder, MailOrder, SendMail, Mailed
  <2>1. CallsFrame(c) BY DEF CallsFrame
  <2>2. RowsFrame(c) BY DEF RowsFrame
  <2>3. TablesFrame(c) BY DEF TablesFrame
  <2>4. OutFrame(c) BY DEF OutFrame
  <2> QED BY <2>1, <2>2, <2>3, <2>4 DEF Frame
<1>7. CASE OrderTrouble(c)
  <2> USE <1>7 DEF OrderTrouble, LostAnswer, MailOrderFails, OrderFault, Fault
  <2>1. CallsFrame(c) BY DEF CallsFrame
  <2>2. RowsFrame(c) BY DEF RowsFrame
  <2>3. TablesFrame(c) BY DEF TablesFrame
  <2>4. OutFrame(c) BY DEF OutFrame
  <2> QED BY <2>1, <2>2, <2>3, <2>4 DEF Frame
<1> QED BY <1>1, <1>2, <1>3, <1>4, <1>5, <1>6, <1>7 DEF OrderStep

\* Approvals and disapprovals close the challenge they are of and add another.
LEMMA LifecycleFrame ==
  ASSUME Shape, RowsInv, NEW c \in Calls, LifecycleStep(c) \/ LifecycleFault(c) PROVE Frame(c)
<1> USE DEF Shape, Goto, Keep, At, RowKept, Approval, Disapproval
<1>1. CASE BeginApproval(c) \/ LeaveBuffer(c) \/ ReadUser(c) \/ findByUserId(c)
  <2> USE <1>1 DEF BeginApproval, LeaveBuffer, ReadUser, findByUserId
  <2>1. CallsFrame(c) BY DEF CallsFrame
  <2>2. RowsFrame(c) BY DEF RowsFrame
  <2>3. TablesFrame(c) BY DEF TablesFrame
  <2>4. OutFrame(c) BY DEF OutFrame
  <2> QED BY <2>1, <2>2, <2>3, <2>4 DEF Frame
<1>2. CASE RequireVerification(c) \/ MailVerify(c) \/ PendingAccount(c) \/ NextAccount(c)
  <2> USE <1>2 DEF RequireVerification, MailVerify, PendingAccount, NextAccount, SaveAccountRow,
             SendMail, Mailed
  <2>1. CallsFrame(c) BY DEF CallsFrame
  <2>2. RowsFrame(c) BY DEF RowsFrame
  <2>3. TablesFrame(c) BY DEF TablesFrame
  <2>4. OutFrame(c) BY DEF OutFrame
  <2> QED BY <2>1, <2>2, <2>3, <2>4 DEF Frame
<1>3. CASE NextChallenge(c) \/ MailPhase(c) \/ PhaseCertificate(c)
  <2> USE <1>3 DEF NextChallenge, MailPhase, PhaseCertificate, SendMail, Mailed, SaveCertificate
  <2>1. CallsFrame(c) BY DEF CallsFrame
  <2>2. RowsFrame(c) BY DEF RowsFrame
  <2>3. TablesFrame(c) BY DEF TablesFrame
  <2>4. OutFrame(c) BY DEF OutFrame
  <2> QED BY <2>1, <2>2, <2>3, <2>4 DEF Frame
<1>4. CASE CommitApproval(c)
  <2>1. ~IsRow(c) /\ IsRow(On(c)) /\ On(c) \in Challenges /\ On(c) # c
    BY <1>4 DEF CommitApproval, RowsInv, NotYet
  <2>a. db'.challenge = [i \in Challenges |->
           IF i = On(c) THEN [db.challenge[i] EXCEPT !.status = "approved", !.active = FALSE]
           ELSE IF i = c /\ local[c].child
                THEN NewChallenge(Owner(c), Phase(c) + 1, On(c), local[c].read = "active")
           ELSE db.challenge[i]]
    BY <1>4 DEF CommitApproval
  <2>b. DOMAIN db.challenge[On(c)] = ChallengeFields BY <2>1 DEF RowsInv, Row, IsRow
  <2>e. db'.challenge[On(c)] = [db.challenge[On(c)] EXCEPT !.status = "approved", !.active = FALSE]
    BY <2>1, <2>a
  <2>c. RowKept(On(c)) BY <2>1, <2>e, <2>b DEF ChallengeFields
  <2>2. \A i \in Challenges \ {c} : RowKept(i)
    <3>1. ASSUME NEW i \in Challenges, i # c, i # On(c) PROVE db'.challenge[i] = db.challenge[i]
      BY <2>a, <3>1
    <3> QED BY <2>c, <3>1
  <2>d. c \in Challenges BY DEF Challenges
  <2>3. Row(c)'
    <3>1. CASE local[c].child
      <4>2. Phase(c) + 1 \in Nat BY <2>1 DEF RowsInv, Row, IsRow, Phase
      <4>1. db'.challenge[c] = NewChallenge(Owner(c), Phase(c) + 1, On(c), local[c].read = "active")
        BY <2>1, <2>a, <2>d, <3>1
      <4> QED BY <4>1, <4>2 DEF Row, ChallengeFields, NewChallenge
    <3>2. CASE ~local[c].child
      <4>1. db'.challenge[c] = NoRow BY <2>1, <2>a, <2>d, <3>2 DEF IsRow
      <4> QED BY <4>1 DEF Row
    <3> QED BY <3>1, <3>2
  <2>4. CallsFrame(c) BY <1>4 DEF CommitApproval, CallsFrame
  <2>5. RowsFrame(c) BY <2>1, <2>2, <2>3 DEF RowsFrame
  <2>6. TablesFrame(c) BY <1>4 DEF CommitApproval, TablesFrame
  <2>7. OutFrame(c) BY <1>4 DEF CommitApproval, OutFrame
  <2> QED BY <2>4, <2>5, <2>6, <2>7 DEF Frame
<1>5. CASE CommitDisapproval(c)
  <2>1. IsRow(On(c)) /\ On(c) \in Challenges
    BY <1>5 DEF CommitDisapproval, RowsInv, NotYet
  <2>2. CallsFrame(c) BY <1>5 DEF CommitDisapproval, CallsFrame
  <2>3. RowsFrame(c)
    BY <1>5, <2>1 DEF CommitDisapproval, RowsFrame, RowsInv, Row, IsRow, ChallengeFields, NoRow
  <2>4. TablesFrame(c) BY <1>5 DEF CommitDisapproval, TablesFrame
  <2>5. OutFrame(c) BY <1>5 DEF CommitDisapproval, OutFrame
  <2> QED BY <2>2, <2>3, <2>4, <2>5 DEF Frame
<1>6. CASE BeginDisapproval(c) \/ MailDisapproval(c) \/ VerifyUser(c) \/ LifecycleFault(c)
  <2> USE <1>6 DEF BeginDisapproval, MailDisapproval, VerifyUser, LifecycleFault, Fault, SendMail, Mailed
  <2>1. CallsFrame(c) BY DEF CallsFrame
  <2>2. RowsFrame(c) BY DEF RowsFrame
  <2>3. TablesFrame(c) BY DEF TablesFrame
  <2>4. OutFrame(c) BY DEF OutFrame
  <2> QED BY <2>1, <2>2, <2>3, <2>4 DEF Frame
<1> QED BY <1>1, <1>2, <1>3, <1>4, <1>5, <1>6 DEF LifecycleStep

\* The handler of withdrawals makes its own account and challenge.
LEMMA PayoutFrame ==
  ASSUME Shape, RowsInv, NEW c \in Calls, PayoutStep(c) \/ PayoutFault(c) PROVE Frame(c)
<1> USE DEF Shape, Goto, Keep, At, RowKept
<1>1. CASE CreateWithdrawal(c) \/ FindWithdrawal(c) \/ handleWithdrawalApproval(c) \/ PayoutFault(c)
  <2> USE <1>1 DEF CreateWithdrawal, FindWithdrawal, handleWithdrawalApproval, PayoutFault, Fault
  <2>1. CallsFrame(c) BY DEF CallsFrame
  <2>2. RowsFrame(c) BY DEF RowsFrame
  <2>3. TablesFrame(c) BY DEF TablesFrame
  <2>4. OutFrame(c) BY DEF OutFrame
  <2> QED BY <2>1, <2>2, <2>3, <2>4 DEF Frame
<1>2. CASE PayoutChallenge(c)
  <2>1. ~IsRow(c) BY <1>2 DEF PayoutChallenge, RowsInv, NotYet
  <2>a. db'.challenge[c] = NewChallenge(db.challenge[Withdrawn].user, 1, Withdrawn, TRUE)
    BY <1>2 DEF PayoutChallenge, Challenges
  <2>2. Row(c)' BY <2>a DEF Row, NewChallenge, ChallengeFields
  <2> USE <1>2, <2>1, <2>2 DEF PayoutChallenge
  <2>3. CallsFrame(c) BY DEF CallsFrame
  <2>4. RowsFrame(c) BY DEF RowsFrame
  <2>5. TablesFrame(c) BY DEF TablesFrame
  <2>6. OutFrame(c) BY DEF OutFrame
  <2> QED BY <2>3, <2>4, <2>5, <2>6 DEF Frame
<1>3. CASE PayoutAccount(c) \/ PayoutCertificate(c) \/ MailPayout(c)
  <2> USE <1>3 DEF PayoutAccount, PayoutCertificate, MailPayout, SaveAccountRow, SaveCertificate,
             SendMail, Mailed
  <2>1. CallsFrame(c) BY DEF CallsFrame
  <2>2. RowsFrame(c) BY DEF RowsFrame
  <2>3. TablesFrame(c) BY DEF TablesFrame
  <2>4. OutFrame(c) BY DEF OutFrame
  <2> QED BY <2>1, <2>2, <2>3, <2>4 DEF Frame
<1>4. CASE updateWithdrawalStatus(c) \/ UpdateWithdrawal(c) \/ RemoveWithdrawal(c)
  <2> USE <1>4 DEF updateWithdrawalStatus, UpdateWithdrawal, RemoveWithdrawal
  <2>1. CallsFrame(c) BY DEF CallsFrame
  <2>2. RowsFrame(c) BY DEF RowsFrame
  <2>3. TablesFrame(c) BY DEF TablesFrame
  <2>4. OutFrame(c) BY DEF OutFrame
  <2> QED BY <2>1, <2>2, <2>3, <2>4 DEF Frame
<1> QED BY <1>1, <1>2, <1>3, <1>4 DEF PayoutStep

\* The handlers of verifications touch neither challenges nor accounts.
LEMMA VerificationFrame ==
  ASSUME Shape, NEW c \in Calls, VerificationStep(c) \/ VerificationFault(c) PROVE Frame(c)
<1> USE DEF Shape, Goto, Keep, At, RowKept, Submission
<1>1. CASE Submit(c) \/ uploadFile(c) \/ SaveMedia(c) \/ MailSubmitted(c) \/ VerificationFault(c)
  <2> USE <1>1 DEF Submit, uploadFile, SaveMedia, MailSubmitted, VerificationFault, Fault, SendMail, Mailed
  <2>1. CallsFrame(c) BY DEF CallsFrame
  <2>2. RowsFrame(c) BY DEF RowsFrame
  <2>3. TablesFrame(c) BY DEF TablesFrame
  <2>4. OutFrame(c) BY DEF OutFrame
  <2> QED BY <2>1, <2>2, <2>3, <2>4 DEF Frame
<1>2. CASE FindVerification(c) \/ UpdateVerification(c) \/ sendVerificationStatusEmail(c)
  <2> USE <1>2 DEF FindVerification, UpdateVerification, sendVerificationStatusEmail, Mailed
  <2>1. CallsFrame(c) BY DEF CallsFrame
  <2>2. RowsFrame(c) BY DEF RowsFrame
  <2>3. TablesFrame(c) BY DEF TablesFrame
  <2>4. OutFrame(c) BY DEF OutFrame
  <2> QED BY <2>1, <2>2, <2>3, <2>4 DEF Frame
<1>3. CASE DeleteFiles(c) \/ RemoveVerification(c)
  <2> USE <1>3 DEF DeleteFiles, RemoveVerification
  <2>1. CallsFrame(c) BY DEF CallsFrame
  <2>2. RowsFrame(c) BY DEF RowsFrame
  <2>3. TablesFrame(c) BY DEF TablesFrame
  <2>4. OutFrame(c) BY DEF OutFrame
  <2> QED BY <2>1, <2>2, <2>3, <2>4 DEF Frame
<1> QED BY <1>1, <1>2, <1>3 DEF VerificationStep

\* The process dies, or nothing happens.
LEMMA StepIsFramed ==
  ASSUME Shape, RowsInv, [BackofficeNext]_backofficeVars
  PROVE  \/ /\ UNCHANGED <<job, local, db, out>>
            /\ \A c \in Calls : pc'[c] = pc[c] \/ (pc[c] \notin Ended /\ pc'[c] = "gone")
         \/ \E d \in Calls : (CallStep(d) \/ CallTrouble(d)) /\ Frame(d)
<1>1. CASE Crash BY <1>1 DEF Crash
<1>2. CASE UNCHANGED backofficeVars BY <1>2 DEF backofficeVars
<1>3. ASSUME NEW d \in Calls, CallStep(d) \/ CallTrouble(d) PROVE Frame(d)
  BY <1>3, OrderFrame, LifecycleFrame, PayoutFrame, VerificationFrame DEF CallStep, CallTrouble
<1> QED BY <1>1, <1>2, <1>3 DEF BackofficeNext

(***************************************************************************)
(* Which handler a step is of, and the rows of challenges.                 *)
(***************************************************************************)

\* The calls there are, by what they ask for.
LifecycleOps == {"approve", "disapprove", "verifyUser"}

LEMMA OpOfStep ==
  ASSUME NEW c \in Calls
  PROVE  /\ OrderStep(c) \/ OrderTrouble(c) => job[c].op = "order"
         /\ LifecycleStep(c) \/ LifecycleFault(c) => job[c].op \in LifecycleOps
         /\ PayoutStep(c) \/ PayoutFault(c) => job[c].op \in PayoutOps
         /\ VerificationStep(c) \/ VerificationFault(c) => job[c].op \in VerificationOps
<1> USE DEF At
<1>1. OrderStep(c) \/ OrderTrouble(c) => job[c].op = "order"
  BY DEF OrderStep, OrderTrouble, Order, FindUser, CheckUser, createUserByOrder, MailAccount, ReadPlan,
         CreateAccount, makeDeposit, createBrokerAccountRow, createChallenge, createChallengeDetails,
         LoadIntoBuffer, SaveOrder, MailOrder, LostAnswer, MailOrderFails, OrderFault
<1>2. LifecycleStep(c) \/ LifecycleFault(c) => job[c].op \in LifecycleOps
  BY DEF LifecycleStep, LifecycleFault, LifecycleOps, Approval, Disapproval, BeginApproval, LeaveBuffer,
         ReadUser, findByUserId, RequireVerification, MailVerify, PendingAccount, NextAccount, NextChallenge,
         MailPhase, PhaseCertificate, CommitApproval, BeginDisapproval, MailDisapproval, CommitDisapproval,
         VerifyUser
<1>3. PayoutStep(c) \/ PayoutFault(c) => job[c].op \in PayoutOps
  BY DEF PayoutStep, PayoutFault, PayoutOps, StatusChange, CreateWithdrawal, FindWithdrawal,
         handleWithdrawalApproval, PayoutAccount, PayoutChallenge, PayoutCertificate, MailPayout,
         updateWithdrawalStatus, UpdateWithdrawal, RemoveWithdrawal
<1>4. VerificationStep(c) \/ VerificationFault(c) => job[c].op \in VerificationOps
  BY DEF VerificationStep, VerificationFault, VerificationOps, Decide, Submission, Submit, uploadFile,
         SaveMedia, MailSubmitted, FindVerification, UpdateVerification, sendVerificationStatusEmail,
         DeleteFiles, RemoveVerification
<1> QED BY <1>1, <1>2, <1>3, <1>4

\* A row that is kept is still one, and of the same user, phase and parent.
LEMMA KeptRow ==
  ASSUME NEW i \in Challenges, Row(i), RowKept(i)
  PROVE  /\ Row(i)' /\ (IsRow(i)' <=> IsRow(i))
         /\ IsRow(i) => /\ db'.challenge[i].user = db.challenge[i].user
                        /\ db'.challenge[i].phase = db.challenge[i].phase
                        /\ db'.challenge[i].parent = db.challenge[i].parent
BY DEF Row, RowKept, IsRow, NoRow, ChallengeFields

\* No step removes the row of a challenge.
LEMMA RowsStay ==
  ASSUME RowsInv, NEW d \in Calls, RowsFrame(d), NEW i \in Challenges, IsRow(i)
  PROVE  /\ RowKept(i) /\ IsRow(i)'
         /\ db'.challenge[i].user = db.challenge[i].user
         /\ db'.challenge[i].phase = db.challenge[i].phase
         /\ db'.challenge[i].parent = db.challenge[i].parent
BY KeptRow DEF RowsInv, RowsFrame

\* A call makes its challenge where its handler does.
LEMMA OwnNotYet ==
  ASSUME Shape, RowsInv, NEW c \in Calls, CallStep(c) \/ CallTrouble(c), Frame(c)
  PROVE  NotYet(c)'
<1> USE DEF Shape, Goto, Keep, At
<1>1. NotYet(c) BY DEF RowsInv
<1>2. c \in Challenges BY DEF Challenges
<1>3. job' = job BY DEF Frame, CallsFrame
<1>4. On(c) \in Challenges /\ IsRow(On(c)) => IsRow(On(c))' BY <1>3, RowsStay DEF Frame, On
<1>5. ASSUME db'.challenge = db.challenge PROVE IsRow(c)' <=> IsRow(c) BY <1>5 DEF IsRow
<1>6. CASE OrderStep(c) \/ OrderTrouble(c)
  <2>1. job[c].op = "order" BY <1>6, OpOfStep
  <2>2. CASE OrderTrouble(c)
    BY <2>1, <2>2, <1>1, <1>3, <1>5 DEF NotYet, OrderTrouble, LostAnswer, MailOrderFails, OrderFault, Fault, Order
  <2>3. CASE FindUser(c) \/ CheckUser(c) \/ createUserByOrder(c) \/ MailAccount(c) \/ ReadPlan(c)
    BY <2>1, <2>3, <1>1, <1>3, <1>5 DEF NotYet, FindUser, CheckUser, createUserByOrder, MailAccount, ReadPlan,
       SendMail, Mailed, Order
  <2>4. CASE CreateAccount(c) \/ makeDeposit(c) \/ createBrokerAccountRow(c)
    BY <2>1, <2>4, <1>1, <1>3, <1>5 DEF NotYet, CreateAccount, makeDeposit, createBrokerAccountRow, Retry, Order
  <2>5. CASE createChallenge(c) \/ createChallengeDetails(c) \/ LoadIntoBuffer(c) \/ SaveOrder(c) \/ MailOrder(c)
    BY <2>1, <2>5, <1>3 DEF NotYet, createChallenge, createChallengeDetails, LoadIntoBuffer, SaveOrder,
       MailOrder, SendMail, Mailed, Order
  <2> QED BY <1>6, <2>2, <2>3, <2>4, <2>5 DEF OrderStep
<1>7. CASE LifecycleStep(c) \/ LifecycleFault(c)
  <2>1. job[c].op \in LifecycleOps BY <1>7, OpOfStep
  <2> USE <2>1, <1>1, <1>3, <1>4 DEF LifecycleOps, Approval, Disapproval, On, NotYet
  <2>2. CASE CommitApproval(c) BY <2>2 DEF CommitApproval
  <2>3. CASE CommitDisapproval(c) \/ VerifyUser(c) BY <2>3 DEF CommitDisapproval, VerifyUser
  <2>4. CASE BeginApproval(c) \/ BeginDisapproval(c)
    BY <2>4, <1>5 DEF BeginApproval, BeginDisapproval
  <2>7. CASE MailDisapproval(c) BY <2>7, <1>5 DEF MailDisapproval, SendMail, Mailed
  <2>8. CASE LifecycleFault(c) BY <2>8, <1>5 DEF LifecycleFault, Fault, Ended
  <2>5. CASE LeaveBuffer(c) \/ ReadUser(c) \/ findByUserId(c) \/ RequireVerification(c) \/ MailVerify(c)
    BY <2>5, <1>5 DEF LeaveBuffer, ReadUser, findByUserId, RequireVerification, MailVerify, SendMail, Mailed
  <2>6. CASE PendingAccount(c) \/ NextAccount(c) \/ NextChallenge(c) \/ MailPhase(c) \/ PhaseCertificate(c)
    BY <2>6, <1>5 DEF PendingAccount, NextAccount, NextChallenge, MailPhase, PhaseCertificate,
       SaveAccountRow, SaveCertificate, SendMail, Mailed
  <2> QED BY <1>7, <2>2, <2>3, <2>4, <2>5, <2>6, <2>7, <2>8 DEF LifecycleStep
<1>8. CASE PayoutStep(c) \/ PayoutFault(c)
  <2>1. job[c].op \in PayoutOps BY <1>8, OpOfStep
  <2> USE <2>1, <1>1, <1>3 DEF PayoutOps, StatusChange, NotYet
  <2>2. CASE CreateWithdrawal(c) \/ FindWithdrawal(c) \/ handleWithdrawalApproval(c) \/ PayoutFault(c)
    BY <2>2, <1>5 DEF CreateWithdrawal, FindWithdrawal, handleWithdrawalApproval, PayoutFault, Fault
  <2>3. CASE PayoutAccount(c) \/ PayoutChallenge(c) \/ PayoutCertificate(c) \/ MailPayout(c)
    BY <2>3, <1>5 DEF PayoutAccount, PayoutChallenge, PayoutCertificate, MailPayout, SaveAccountRow,
       SaveCertificate, SendMail, Mailed
  <2>4. CASE updateWithdrawalStatus(c) \/ UpdateWithdrawal(c) \/ RemoveWithdrawal(c)
    BY <2>4, <1>5 DEF updateWithdrawalStatus, UpdateWithdrawal, RemoveWithdrawal
  <2> QED BY <1>8, <2>2, <2>3, <2>4 DEF PayoutStep
<1>9. CASE VerificationStep(c) \/ VerificationFault(c)
  <2>1. job[c].op \in VerificationOps BY <1>9, OpOfStep
  <2> QED BY <2>1, <1>3 DEF NotYet, VerificationOps, Decide
<1> QED BY <1>6, <1>7, <1>8, <1>9 DEF CallStep, CallTrouble

LEMMA RowsInit == TablesInit => RowsInv
<1> SUFFICES ASSUME TablesInit PROVE RowsInv OBVIOUS
<1>1. \A i \in Challenges : db.challenge[i] = IF i \in Given
        THEN NewChallenge(GivenUser[i], GivenPhase[i], "none", TRUE) ELSE NoRow
  BY DEF TablesInit
<1>2. ASSUME NEW c \in Calls PROVE NotYet(c)
  <2>1. c \in Challenges /\ c \notin Given BY NamesAssumption DEF Challenges
  <2>2. ~IsRow(c) BY <1>1, <2>1 DEF IsRow
  <2>3. pc[c] \in {"start", "idle"} /\ (pc[c] = "idle" => job[c].op = "idle") BY DEF TablesInit
  <2>4. job[c].op \in {"approve", "disapprove"} => On(c) \in Challenges
    BY NamesAssumption DEF TablesInit, On
  <2> QED BY <2>2, <2>3, <2>4 DEF NotYet
<1>3. ASSUME NEW i \in Challenges PROVE Row(i)
  <2>1. CASE i \in Given
    <3>1. GivenPhase[i] \in Nat BY <2>1, NamesAssumption, PhasesAssumption
    <3>2. db.challenge[i] = NewChallenge(GivenUser[i], GivenPhase[i], "none", TRUE) BY <1>1, <2>1
    <3> QED BY <3>1, <3>2 DEF Row, NewChallenge, ChallengeFields
  <2>2. CASE i \notin Given BY <1>1, <2>2 DEF Row
  <2> QED BY <2>1, <2>2
<1> QED BY <1>2, <1>3 DEF RowsInv

\* What a step of a call, or of nobody, leaves to a call that does not take it.
Untouched(c) ==
  /\ job'[c] = job[c] /\ local'[c] = local[c] /\ db'.row[c] = db.row[c]
  /\ pc'[c] = pc[c] \/ (pc[c] \notin Ended /\ pc'[c] = "gone")
  /\ DepositsOf(c)' = DepositsOf(c) /\ out.accounts \subseteq out'.accounts /\ out.mails \subseteq out'.mails
  /\ db.users \subseteq db'.users /\ db.verified \subseteq db'.verified
  /\ db.details \subseteq db'.details /\ db.certificates \subseteq db'.certificates
  /\ c \in db'.orders <=> c \in db.orders
  /\ \A i \in Challenges : IsRow(i) \/ i = c => RowKept(i)

\* A step is a call's own, by its handler, or leaves it untouched.
LEMMA OwnOrUntouched ==
  ASSUME Shape, RowsInv, [BackofficeNext]_backofficeVars, NEW c \in Calls
  PROVE  \/ (CallStep(c) \/ CallTrouble(c)) /\ Frame(c) /\ UNCHANGED job
         \/ Untouched(c)
<1>1. CASE /\ UNCHANGED <<job, local, db, out>>
           /\ \A d \in Calls : pc'[d] = pc[d] \/ (pc[d] \notin Ended /\ pc'[d] = "gone")
  BY <1>1 DEF Untouched, RowKept, DepositsOf
<1>2. ASSUME NEW d \in Calls, CallStep(d) \/ CallTrouble(d), Frame(d), d # c PROVE Untouched(c)
  <2>1. CallsFrame(d) /\ RowsFrame(d) /\ TablesFrame(d) /\ OutFrame(d) BY <1>2 DEF Frame
  <2>2. job'[c] = job[c] /\ local'[c] = local[c] /\ db'.row[c] = db.row[c] /\ pc'[c] = pc[c]
    BY <1>2, <2>1 DEF CallsFrame
  <2>3. DepositsOf(c)' = DepositsOf(c)
    <3>1. PICK t : out'.deposits \in {out.deposits, out.deposits \cup {<<d, t>>}} BY <2>1 DEF OutFrame
    <3>2. <<d, t>>[1] # c BY <1>2
    <3> QED BY <3>1, <3>2 DEF DepositsOf
  <2>4. out.accounts \subseteq out'.accounts /\ out.mails \subseteq out'.mails BY <2>1 DEF OutFrame
  <2>5. /\ db.users \subseteq db'.users /\ db.verified \subseteq db'.verified
        /\ db.details \subseteq db'.details /\ db.certificates \subseteq db'.certificates
        /\ c \in db'.orders <=> c \in db.orders
    BY <1>2, <2>1 DEF TablesFrame
  <2>6. \A i \in Challenges : IsRow(i) \/ i = c => RowKept(i) BY <1>2, <2>1 DEF RowsFrame
  <2> QED BY <2>2, <2>3, <2>4, <2>5, <2>6 DEF Untouched
<1>3. ASSUME NEW d \in Calls, Frame(d) PROVE UNCHANGED job BY <1>3 DEF Frame, CallsFrame
<1> QED BY <1>1, <1>2, <1>3, StepIsFramed

LEMMA RowsStep ==
  ASSUME Shape, RowsInv, [BackofficeNext]_backofficeVars
  PROVE  RowsInv'
<1>1. ASSUME NEW c \in Calls PROVE NotYet(c)'
  <2>1. CASE (CallStep(c) \/ CallTrouble(c)) /\ Frame(c) BY <2>1, OwnNotYet
  <2>2. CASE Untouched(c)
    <3>1. NotYet(c) /\ c \in Challenges /\ On(c)' = On(c) BY <2>2 DEF RowsInv, Challenges, Untouched, On
    <3>2. IsRow(c)' <=> IsRow(c) BY <2>2, <3>1, KeptRow DEF Untouched, RowsInv
    <3>3. On(c) \in Challenges /\ IsRow(On(c)) => IsRow(On(c))'
      BY <2>2, <3>1, KeptRow DEF Untouched, RowsInv
    <3>4. job'[c] = job[c] /\ (pc'[c] = pc[c] \/ (pc[c] \notin Ended /\ pc'[c] = "gone"))
      BY <2>2 DEF Untouched
    <3> QED BY <3>1, <3>2, <3>3, <3>4 DEF NotYet, Ended
  <2> QED BY <2>1, <2>2, OwnOrUntouched
<1>2. ASSUME NEW i \in Challenges PROVE Row(i)'
  <2>1. Row(i) BY DEF RowsInv
  <2>2. CASE UNCHANGED db BY <2>1, <2>2 DEF Row
  <2>3. CASE \E d \in Calls : Frame(d) BY <2>1, <2>3, KeptRow DEF Frame, RowsFrame
  <2> QED BY <2>2, <2>3, StepIsFramed
<1> QED BY <1>1, <1>2 DEF RowsInv

LEMMA RowsAlways == BackofficeSpec => [](Shape /\ RowsInv)
<1>1. TablesInit => Shape /\ RowsInv BY ShapeInit, RowsInit
<1>2. Shape /\ RowsInv /\ [BackofficeNext]_backofficeVars => (Shape /\ RowsInv)' BY ShapeStep, RowsStep
<1> QED BY <1>1, <1>2, PTL DEF BackofficeSpec

(***************************************************************************)
(* Orders.                                                                 *)
(***************************************************************************)

BeforeDeposit == {"start", "createUser", "saveUser", "mailUser", "plan", "create", "deposit"}
Deposited == {"row", "challenge", "details", "buffer", "order"}
HasOneAccount(c) == DepositsOf(c) = {<<c, local[c].try>>} /\ <<c, local[c].try>> \in out.accounts
HasLogin(c) == db.row[c].kind \in {"broker", "changed"} /\ db.row[c].account = local[c].try

\* How far the handler of an order is says what there is of the order; an order
\* that is saved has everything.
OrderInv(c) ==
  /\ job[c].op = "order" =>
       /\ local[c].try \in 1..maxRetries + 1
       /\ pc[c] \in BeforeDeposit => DepositsOf(c) = {}
       /\ pc[c] = "deposit" => <<c, local[c].try>> \in out.accounts
       /\ pc[c] \in {"mailUser", "plan", "create", "deposit"} \cup Deposited => On(c) \in db.users
       /\ pc[c] \in Deposited => HasOneAccount(c)
       /\ pc[c] \in Deposited \ {"row"} => HasLogin(c)
       /\ pc[c] \in {"details", "buffer", "order"} => IsRow(c) /\ db.challenge[c].user = On(c)
       /\ pc[c] \in {"buffer", "order"} => c \in db.details
  /\ c \in db.orders =>
       /\ job[c].op = "order" /\ pc[c] \in {"mail", "ok", "unmailed", "gone"}
       /\ On(c) \in db.users /\ IsRow(c) /\ db.challenge[c].user = On(c) /\ c \in db.details
       /\ HasOneAccount(c) /\ HasLogin(c)

LEMMA OrderInit == ASSUME TablesInit, NEW c \in Calls PROVE OrderInv(c)
<1>1. pc[c] \in {"start", "idle"} /\ db.orders = {} /\ local[c].try = 1 /\ DepositsOf(c) = {}
  BY DEF TablesInit, DepositsOf
<1> QED BY <1>1, RetriesAssumption DEF OrderInv, BeforeDeposit, Deposited

LEMMA OrderUntouched ==
  ASSUME Shape, RowsInv, NEW c \in Calls, OrderInv(c), Untouched(c)
  PROVE  OrderInv(c)'
<1>1. c \in Challenges BY DEF Challenges
<1>2. /\ job'[c] = job[c] /\ local'[c] = local[c] /\ db'.row[c] = db.row[c]
      /\ pc'[c] = pc[c] \/ pc'[c] = "gone"
      /\ DepositsOf(c)' = DepositsOf(c) /\ On(c)' = On(c)
      /\ c \in db'.orders <=> c \in db.orders
  BY DEF Untouched, On
<1>3. /\ On(c) \in db.users => On(c) \in db'.users
      /\ c \in db.details => c \in db'.details
      /\ HasOneAccount(c) => HasOneAccount(c)'
      /\ HasLogin(c) => HasLogin(c)'
      /\ <<c, local[c].try>> \in out.accounts => <<c, local[c].try>> \in out'.accounts
  BY <1>2 DEF Untouched, HasOneAccount, HasLogin
<1>4. IsRow(c) => IsRow(c)' /\ db'.challenge[c].user = db.challenge[c].user
  BY <1>1, KeptRow DEF Untouched, RowsInv
<1> QED BY <1>2, <1>3, <1>4 DEF OrderInv, BeforeDeposit, Deposited

LEMMA OrderOwn ==
  ASSUME Shape, RowsInv, NEW c \in Calls, OrderInv(c), UNCHANGED job, CallStep(c) \/ CallTrouble(c)
  PROVE  OrderInv(c)'
<1> USE DEF Shape, Goto, Keep, At, Order
<1>1. On(c)' = On(c) /\ job'[c] = job[c] BY DEF On
<1>2. CASE job[c].op # "order"
  <2>1. c \notin db'.orders
    <3>1. c \notin db.orders BY <1>2 DEF OrderInv
    <3>2. LifecycleStep(c) \/ LifecycleFault(c) \/ PayoutStep(c) \/ PayoutFault(c)
             \/ VerificationStep(c) \/ VerificationFault(c)
      BY <1>2, OpOfStep DEF CallStep, CallTrouble
    <3>3. Frame(c) BY <3>2, LifecycleFrame, PayoutFrame, VerificationFrame
    <3> QED BY <1>2, <3>1, <3>3 DEF Frame, TablesFrame
  <2> QED BY <1>1, <1>2, <2>1 DEF OrderInv
<1>3. CASE job[c].op = "order"
  <2>1. OrderStep(c) \/ OrderTrouble(c)
    BY <1>3, OpOfStep DEF CallStep, CallTrouble, LifecycleOps, PayoutOps, StatusChange, VerificationOps, Decide
  <2> USE <1>1, <1>3
  <2>2. CASE OrderTrouble(c)
    <3> USE <2>2 DEF OrderInv, BeforeDeposit, Deposited
    <3>1. CASE LostAnswer(c) BY <3>1 DEF LostAnswer
    <3>2. CASE MailOrderFails(c)
      BY <3>2 DEF MailOrderFails, IsRow, HasOneAccount, HasLogin, DepositsOf
    <3>3. CASE OrderFault(c) BY <3>3 DEF OrderFault, Fault, Ended
    <3> QED BY <3>1, <3>2, <3>3 DEF OrderTrouble
  <2>3. CASE FindUser(c) \/ CheckUser(c) \/ createUserByOrder(c)
    BY <2>3 DEF FindUser, CheckUser, createUserByOrder, OrderInv, BeforeDeposit, Deposited, DepositsOf
  <2>4. CASE MailAccount(c) \/ ReadPlan(c)
    BY <2>4 DEF MailAccount, ReadPlan, SendMail, Mailed, OrderInv, BeforeDeposit, Deposited, DepositsOf
  <2>5. CASE CreateAccount(c)
    BY <2>5, RetriesAssumption DEF CreateAccount, Retry, OrderInv, BeforeDeposit, Deposited, DepositsOf
  <2>6. CASE makeDeposit(c)
    <3>1. CASE /\ out' = [out EXCEPT !.deposits = @ \cup {<<c, local[c].try>>}]
               /\ Goto(c, "row") /\ UNCHANGED local
      <4>1. DepositsOf(c)' = {<<c, local[c].try>>}
        BY <2>6, <3>1 DEF makeDeposit, OrderInv, BeforeDeposit, DepositsOf
      <4> QED BY <2>6, <3>1, <4>1 DEF makeDeposit, OrderInv, BeforeDeposit, Deposited, HasOneAccount
    <3>2. CASE Retry(c) /\ UNCHANGED out
      BY <2>6, <3>2, RetriesAssumption
      DEF makeDeposit, Retry, OrderInv, BeforeDeposit, Deposited, DepositsOf
    <3> QED BY <2>6, <3>1, <3>2 DEF makeDeposit
  <2>7. CASE createBrokerAccountRow(c)
    BY <2>7 DEF createBrokerAccountRow, Login, OrderInv, BeforeDeposit, Deposited, HasOneAccount, HasLogin, DepositsOf
  <2>8. CASE createChallenge(c)
    <3>1. db'.challenge[c] = NewChallenge(On(c), 1, "none", TRUE)
      BY <2>8 DEF createChallenge, Challenges
    <3>2. IsRow(c)' /\ db'.challenge[c].user = On(c) BY <3>1 DEF IsRow, NoRow, NewChallenge
    <3> QED BY <2>8, <3>2
        DEF createChallenge, OrderInv, BeforeDeposit, Deposited, HasOneAccount, HasLogin, DepositsOf
  <2>9. CASE createChallengeDetails(c) \/ LoadIntoBuffer(c) \/ SaveOrder(c)
    BY <2>9 DEF createChallengeDetails, LoadIntoBuffer, SaveOrder, OrderInv, BeforeDeposit, Deposited,
                HasOneAccount, HasLogin, DepositsOf, IsRow
  <2>10. CASE MailOrder(c)
    BY <2>10 DEF MailOrder, SendMail, Mailed, OrderInv, BeforeDeposit, Deposited,
                HasOneAccount, HasLogin, DepositsOf, IsRow
  <2> QED BY <2>1, <2>2, <2>3, <2>4, <2>5, <2>6, <2>7, <2>8, <2>9, <2>10 DEF OrderStep
<1> QED BY <1>2, <1>3

OrdersInv == db.orders \subseteq Calls /\ \A c \in Calls : OrderInv(c)

LEMMA OrdersAlways == BackofficeSpec => [](Shape /\ RowsInv /\ OrdersInv)
<1>1. TablesInit => OrdersInv BY OrderInit DEF OrdersInv, TablesInit
<1>2. Shape /\ RowsInv /\ OrdersInv /\ [BackofficeNext]_backofficeVars => OrdersInv'
  <2> SUFFICES ASSUME Shape, RowsInv, OrdersInv, [BackofficeNext]_backofficeVars PROVE OrdersInv'
    OBVIOUS
  <2>1. db'.orders \subseteq Calls BY StepIsFramed DEF OrdersInv, Frame, TablesFrame
  <2>2. ASSUME NEW c \in Calls PROVE OrderInv(c)'
    BY OwnOrUntouched, OrderOwn, OrderUntouched DEF OrdersInv
  <2> QED BY <2>1, <2>2 DEF OrdersInv
<1> QED BY <1>1, <1>2, RowsAlways, PTL DEF BackofficeSpec

\* Every saved order has its user, a challenge with details, one account that got
\* one deposit, and its login: orders.service.ts saves the order last.
THEOREM OrdersAreComplete == BackofficeSpec => []OrderIsComplete
<1>1. Shape /\ RowsInv /\ OrdersInv => OrderIsComplete
  BY DEF Shape, OrdersInv, OrderInv, OrderIsComplete, HasOneAccount, HasLogin, IsRow
<1> QED BY <1>1, OrdersAlways, PTL

(***************************************************************************)
(* The handlers of orders keep what the shop is promised.                  *)
(***************************************************************************)

\* A call that is still open when its order is saved has answered nothing yet.
LEMMA OrderKept ==
  ASSUME Shape, RowsInv, OrdersInv, NEW c \in Calls, SaveOrder(c), Frame(c), UNCHANGED job
  PROVE  Promise!KeepOrder(c)
<1> DEFINE outcome == [d \in Calls |-> DeliveryOutcome(d)]
           account == [d \in Calls |-> DeliveryAccount(d)]
           mine == <<c, local[c].try>>
<1>1. /\ job[c].op = "order" /\ pc[c] = "order" /\ pc' = [pc EXCEPT ![c] = "mail"]
      /\ db' = [db EXCEPT !.orders = @ \cup {c}] /\ UNCHANGED <<local, out>>
  BY DEF SaveOrder, Order, At, Goto, Keep
<1>2. OrderInv(c) /\ c \notin db.orders BY <1>1 DEF OrdersInv, OrderInv
<1>3. mine \in Calls \X (1..maxRetries + 1) /\ DepositsOf(c) = {mine}
  BY <1>1, <1>2 DEF OrderInv, Deposited, HasOneAccount
<1>4. db'.orders = db.orders \cup {c} BY <1>1 DEF Shape
<1>5. outcome' = [outcome EXCEPT ![c] = "kept"]
  BY <1>1, <1>4 DEF DeliveryOutcome, Shape
<1>6. account' = [account EXCEPT ![c] = {mine}]
  BY <1>1, <1>3, <1>4 DEF DeliveryAccount, DepositsOf
<1>7. outcome[c] = "open" BY <1>1, <1>2 DEF DeliveryOutcome
<1>8. ASSUME NEW d \in Calls PROVE mine \notin account[d]
  <2>1. CASE d = c BY <1>2, <2>1 DEF DeliveryAccount
  <2>2. CASE d # c BY <2>2 DEF DeliveryAccount, DepositsOf
  <2> QED BY <2>1, <2>2
<1> HIDE DEF outcome, account
<1> QED BY <1>3, <1>5, <1>6, <1>7, <1>8 DEF Promise!KeepOrder, outcome, account

\* Every other step of a call changes nothing the shop sees, or refuses.
LEMMA OrderOpenOrRefused ==
  ASSUME Shape, RowsInv, OrdersInv, OrdersInv', NEW c \in Calls, CallStep(c) \/ CallTrouble(c), Frame(c),
         UNCHANGED job, ~SaveOrder(c)
  PROVE  \/ Promise!RefuseOrder(c)
         \/ UNCHANGED <<[d \in Calls |-> DeliveryOutcome(d)], [d \in Calls |-> DeliveryAccount(d)]>>
<1> DEFINE outcome == [d \in Calls |-> DeliveryOutcome(d)]
           account == [d \in Calls |-> DeliveryAccount(d)]
<1> USE DEF Shape, Goto, Keep, At, Order
<1>1. /\ db'.orders = db.orders
      /\ job[c].op = "order" => pc[c] # "error"
      /\ c \in db.orders => job[c].op = "order" /\ UNCHANGED out.deposits
  <2>1. CASE job[c].op = "order"
    <3>1. OrderStep(c) \/ OrderTrouble(c)
      BY <2>1, OpOfStep DEF CallStep, CallTrouble, LifecycleOps, PayoutOps, StatusChange, VerificationOps, Decide
    <3>2. c \in db.orders => pc[c] \in {"mail", "ok", "unmailed", "gone"} BY DEF OrdersInv, OrderInv
    <3>3. CASE OrderTrouble(c)
      BY <3>2, <3>3 DEF OrderTrouble, LostAnswer, MailOrderFails, OrderFault, Fault, Ended
    <3>4. CASE FindUser(c) \/ CheckUser(c) \/ createUserByOrder(c) \/ MailAccount(c) \/ ReadPlan(c)
      BY <3>2, <3>4 DEF FindUser, CheckUser, createUserByOrder, MailAccount, ReadPlan, SendMail, Mailed
    <3>5. CASE CreateAccount(c) \/ makeDeposit(c) \/ createBrokerAccountRow(c)
      BY <3>2, <3>5 DEF CreateAccount, makeDeposit, createBrokerAccountRow, Retry
    <3>6. CASE createChallenge(c) \/ createChallengeDetails(c) \/ LoadIntoBuffer(c) \/ MailOrder(c)
      BY <3>2, <3>6 DEF createChallenge, createChallengeDetails, LoadIntoBuffer, MailOrder, SendMail, Mailed
    <3> QED BY <3>1, <3>3, <3>4, <3>5, <3>6 DEF OrderStep
  <2>2. CASE job[c].op # "order" BY <2>2 DEF Frame, TablesFrame, OrdersInv, OrderInv
  <2> QED BY <2>1, <2>2 DEF OrdersInv, OrderInv
<1>2. ASSUME NEW d \in Calls, d # c
      PROVE  DeliveryOutcome(d)' = DeliveryOutcome(d) /\ DeliveryAccount(d)' = DeliveryAccount(d)
  <2>1. pc'[d] = pc[d] BY <1>2 DEF Frame, CallsFrame
  <2>2. DepositsOf(d)' = DepositsOf(d)
    <3>1. PICK t : out'.deposits \in {out.deposits, out.deposits \cup {<<c, t>>}} BY DEF Frame, OutFrame
    <3>2. <<c, t>>[1] # d BY <1>2
    <3> QED BY <3>1, <3>2 DEF DepositsOf
  <2> QED BY <1>1, <2>1, <2>2 DEF DeliveryOutcome, DeliveryAccount
<1>3. DeliveryAccount(c)' = DeliveryAccount(c) BY <1>1 DEF DeliveryAccount, DepositsOf
<1>4. account' = account BY <1>2, <1>3
<1>5. CASE job[c].op = "order" /\ c \notin db.orders /\ pc'[c] = "error"
  <2>1. DeliveryOutcome(c) = "open" /\ DeliveryOutcome(c)' = "refused" BY <1>1, <1>5 DEF DeliveryOutcome
  <2>2. outcome[c] = "open" /\ outcome' = [outcome EXCEPT ![c] = "refused"] BY <1>2, <2>1
  <2> HIDE DEF outcome, account
  <2>3. Promise!RefuseOrder(c) BY <1>4, <2>2 DEF Promise!RefuseOrder, outcome, account
  <2> QED BY <2>3
<1>6. CASE ~(job[c].op = "order" /\ c \notin db.orders /\ pc'[c] = "error")
  <2>1. DeliveryOutcome(c)' = DeliveryOutcome(c) BY <1>1, <1>6 DEF DeliveryOutcome
  <2>2. outcome' = outcome BY <1>2, <2>1
  <2> QED BY <1>4, <2>2
<1> QED BY <1>5, <1>6

\* BackofficeSpec implements Fulfilment: a delivery is kept once, with an account
\* of its own, or refused for good.
THEOREM OrdersKeepPromise == BackofficeSpec => KeepsPromise
<1>1. TablesInit => Promise!FInit
  BY DEF TablesInit, Promise!FInit, DeliveryOutcome, DeliveryAccount
<1>2. Shape /\ RowsInv /\ OrdersInv /\ OrdersInv' /\ [BackofficeNext]_backofficeVars =>
        [Promise!FNext]_<<[c \in Calls |-> DeliveryOutcome(c)], [c \in Calls |-> DeliveryAccount(c)]>>
  <2> DEFINE outcome == [c \in Calls |-> DeliveryOutcome(c)]
             account == [c \in Calls |-> DeliveryAccount(c)]
  <2> SUFFICES ASSUME Shape, RowsInv, OrdersInv, OrdersInv', [BackofficeNext]_backofficeVars
               PROVE  [Promise!FNext]_<<outcome, account>>
    OBVIOUS
  <2>1. CASE /\ UNCHANGED <<job, local, db, out>>
             /\ \A c \in Calls : pc'[c] = pc[c] \/ (pc[c] \notin Ended /\ pc'[c] = "gone")
    <3>1. ASSUME NEW c \in Calls PROVE DeliveryOutcome(c)' = DeliveryOutcome(c)
      BY <2>1, <3>1 DEF DeliveryOutcome, Ended
    <3>2. ASSUME NEW c \in Calls PROVE DeliveryAccount(c)' = DeliveryAccount(c)
      BY <2>1, <3>2 DEF DeliveryAccount, DepositsOf
    <3> QED BY <3>1, <3>2
  <2>2. ASSUME NEW c \in Calls, CallStep(c) \/ CallTrouble(c), Frame(c)
        PROVE  Promise!KeepOrder(c) \/ Promise!RefuseOrder(c) \/ UNCHANGED <<outcome, account>>
    <3>1. UNCHANGED job BY <2>2 DEF Frame, CallsFrame
    <3> QED BY <2>2, <3>1, OrderKept, OrderOpenOrRefused
  <2> QED BY <2>1, <2>2, StepIsFramed DEF Promise!FNext
<1>3. BackofficeSpec => Promise!FSpec
  BY <1>1, <1>2, OrdersAlways, PTL DEF BackofficeSpec, Promise!FSpec
<1> QED BY <1>3 DEF KeepsPromise

(***************************************************************************)
(* Approvals.                                                              *)
(***************************************************************************)

BeforeChild == {"buffer", "user", "find", "verification", "mailVerify", "pendingRow", "pendingChild", "row", "child"}
AfterChild == {"mail", "certificate"}

\* The challenge that an approval made, once it is answered.
ChildMade(c) ==
  /\ db.challenge[c].parent = On(c) /\ db.challenge[c].phase = Phase(c) + 1
  /\ db.challenge[c].user = Owner(c)
  /\ HasAccountRow(c) /\ <<On(c), c>> \in db.certificates
  /\ db.challenge[On(c)].status # "initial" /\ ~db.challenge[On(c)].active
  /\ db.challenge[c].active /\ isBeforeFinalPhase(c) => Owner(c) \in db.verified

\* An approval that is under way is of a phase before the last, or has nothing
\* left to do but commit; what it leads to is verified when it will be open.
ApprovalInv(c) ==
  job[c].op = "approve" =>
    /\ pc[c] \in BeforeChild \cup AfterChild => ~isFinalPhase(c)
    /\ pc[c] \in {"start"} \cup BeforeChild => ~local[c].child
    /\ pc[c] \in AfterChild => local[c].child
    /\ pc[c] = "commit" => (local[c].child <=> ~isFinalPhase(c))
    /\ pc[c] \in {"pendingChild", "child"} \cup AfterChild => HasAccountRow(c)
    /\ pc[c] = "commit" /\ local[c].child => HasAccountRow(c) /\ <<On(c), c>> \in db.certificates
    /\ pc[c] \in {"row", "child"} /\ isBeforeFinalPhase(c) => Owner(c) \in db.verified
    /\ pc[c] \in {"commit"} \cup AfterChild /\ local[c].child /\ local[c].read = "active" /\ isBeforeFinalPhase(c)
         => Owner(c) \in db.verified
    /\ pc[c] = "ok" => (IsRow(c) <=> ~isFinalPhase(c)) /\ (IsRow(c) => ChildMade(c))

\* What stays of the challenge an approval is of.
SameChallenge(c) ==
  /\ On(c)' = On(c) /\ job'[c] = job[c] /\ Phase(c)' = Phase(c) /\ Owner(c)' = Owner(c)
  /\ db.verified \subseteq db'.verified /\ db.certificates \subseteq db'.certificates

LEMMA ApprovalInit == ASSUME TablesInit, NEW c \in Calls PROVE ApprovalInv(c)
<1>1. pc[c] \in {"start", "idle"} /\ ~local[c].child /\ (pc[c] = "idle" => job[c].op = "idle")
  BY DEF TablesInit
<1> QED BY <1>1 DEF ApprovalInv, BeforeChild, AfterChild

LEMMA SamePhase ==
  ASSUME NEW c, SameChallenge(c)
  PROVE  /\ isFinalPhase(c)' <=> isFinalPhase(c)
         /\ isBeforeFinalPhase(c)' <=> isBeforeFinalPhase(c)
BY DEF SameChallenge, isFinalPhase, isBeforeFinalPhase

LEMMA ApprovalUntouched ==
  ASSUME Shape, RowsInv, NEW c \in Calls, ApprovalInv(c), Untouched(c)
  PROVE  ApprovalInv(c)'
<1>1. /\ job'[c] = job[c] /\ local'[c] = local[c] /\ db'.row[c] = db.row[c] /\ On(c)' = On(c)
      /\ pc'[c] = pc[c] \/ (pc[c] \notin Ended /\ pc'[c] = "gone")
      /\ db.verified \subseteq db'.verified /\ db.certificates \subseteq db'.certificates
  BY DEF Untouched, On
<1>2. c \in Challenges BY DEF Challenges
<1>3. CASE job[c].op # "approve" BY <1>1, <1>3 DEF ApprovalInv
<1>4. CASE job[c].op = "approve" /\ pc'[c] \in {"start", "error", "gone"}
  BY <1>1, <1>4 DEF ApprovalInv, BeforeChild, AfterChild
<1>5. CASE job[c].op = "approve" /\ pc'[c] \notin {"start", "error", "gone"}
  <2>1. pc'[c] = pc[c] BY <1>1, <1>5
  <2>2. On(c) \in Challenges /\ IsRow(On(c)) BY <1>5, <2>1 DEF RowsInv, NotYet
  <2>3. RowKept(On(c)) BY <2>2 DEF Untouched
  <2>4. SameChallenge(c) BY <1>1, <2>2, <2>3, KeptRow DEF SameChallenge, Phase, Owner, RowsInv
  <2>5. IsRow(c)' <=> IsRow(c) BY <1>2, KeptRow DEF Untouched, RowsInv
  <2>6. HasAccountRow(c)' <=> HasAccountRow(c) BY <1>1 DEF HasAccountRow
  <2>7. IsRow(c) /\ ChildMade(c) => ChildMade(c)'
    <3> SUFFICES ASSUME IsRow(c), ChildMade(c) PROVE ChildMade(c)' OBVIOUS
    <3>1. RowKept(c) /\ Row(c) /\ Row(On(c)) BY <1>2, <2>2 DEF Untouched, RowsInv
    <3>2. /\ db'.challenge[c].user = db.challenge[c].user /\ db'.challenge[c].phase = db.challenge[c].phase
          /\ db'.challenge[c].parent = db.challenge[c].parent
          /\ db'.challenge[c].active => db.challenge[c].active
      BY <1>2, <3>1, KeptRow DEF RowKept
    <3>3. db'.challenge[On(c)].status # "initial" /\ ~db'.challenge[On(c)].active
      BY <2>3 DEF RowKept, ChildMade
    <3> QED BY <1>1, <2>4, <2>6, <3>2, <3>3, SamePhase DEF ChildMade, SameChallenge
  <2> QED BY <1>1, <2>1, <2>4, <2>5, <2>6, <2>7, SamePhase DEF ApprovalInv, SameChallenge
<1> QED BY <1>3, <1>4, <1>5

LEMMA ApprovalOwn ==
  ASSUME Shape, RowsInv, NEW c \in Calls, ApprovalInv(c), UNCHANGED job, CallStep(c) \/ CallTrouble(c), Frame(c)
  PROVE  ApprovalInv(c)'
<1> USE DEF Shape, Goto, Keep, At, Approval
<1>1. On(c)' = On(c) /\ job'[c] = job[c] BY DEF On
<1>2. CASE job[c].op # "approve" BY <1>1, <1>2 DEF ApprovalInv
<1>3. CASE job[c].op = "approve"
  <2>1. LifecycleStep(c) \/ LifecycleFault(c)
    BY <1>3, OpOfStep DEF CallStep, CallTrouble, PayoutOps, StatusChange, VerificationOps, Decide
  <2>2. NotYet(c) /\ c \in Challenges /\ On(c) \in Challenges BY <1>3 DEF RowsInv, NotYet, Challenges
  <2>3. IsRow(On(c)) => SameChallenge(c)
    BY <1>1, <2>2, RowsStay DEF Frame, TablesFrame, SameChallenge, Phase, Owner
  <2>4. CASE LifecycleFault(c)
    BY <1>1, <1>3, <2>4 DEF LifecycleFault, Fault, ApprovalInv, BeforeChild, AfterChild
  <2>5. CASE BeginApproval(c)
    BY <1>1, <1>3, <2>3, <2>5, SamePhase DEF BeginApproval, ApprovalInv, BeforeChild, AfterChild
  <2>6. CASE LeaveBuffer(c) \/ ReadUser(c) \/ findByUserId(c) \/ RequireVerification(c)
    BY <1>1, <1>3, <2>2, <2>3, <2>6, SamePhase
    DEF NotYet, LeaveBuffer, ReadUser, findByUserId, RequireVerification, ApprovalInv, BeforeChild, AfterChild,
        SameChallenge
  <2>7. CASE MailVerify(c) \/ PendingAccount(c) \/ NextAccount(c)
    BY <1>1, <1>3, <2>2, <2>3, <2>7, SamePhase
    DEF NotYet, MailVerify, PendingAccount, NextAccount, SendMail, Mailed, SaveAccountRow, Login, HasAccountRow,
        ApprovalInv, BeforeChild, AfterChild, SameChallenge
  <2>8. CASE NextChallenge(c)
    BY <1>1, <1>3, <2>2, <2>3, <2>8, SamePhase
    DEF NotYet, NextChallenge, HasAccountRow, ApprovalInv, BeforeChild, AfterChild, SameChallenge
  <2>9. CASE MailPhase(c) \/ PhaseCertificate(c)
    BY <1>1, <1>3, <2>2, <2>3, <2>9, SamePhase
    DEF NotYet, MailPhase, PhaseCertificate, SendMail, Mailed, SaveCertificate, HasAccountRow,
        ApprovalInv, BeforeChild, AfterChild, SameChallenge
  <2>10. CASE CommitApproval(c)
    <3>1. pc[c] = "commit" /\ pc'[c] = "ok" /\ local' = local BY <2>10 DEF CommitApproval
    <3>2. ~IsRow(c) /\ IsRow(On(c)) /\ On(c) # c BY <1>3, <2>2, <3>1 DEF NotYet
    <3>3. SameChallenge(c) BY <2>3, <3>2
    <3>4. /\ db'.challenge[On(c)] = [db.challenge[On(c)] EXCEPT !.status = "approved", !.active = FALSE]
          /\ db'.challenge[c] = IF local[c].child
                THEN NewChallenge(Owner(c), Phase(c) + 1, On(c), local[c].read = "active") ELSE NoRow
          /\ db'.row = db.row /\ db'.certificates = db.certificates
      BY <2>2, <2>10, <3>2 DEF CommitApproval, IsRow
    <3>5. IsRow(c)' <=> local[c].child BY <3>4 DEF IsRow, NewChallenge, NoRow
    <3>6. DOMAIN db.challenge[On(c)] = ChallengeFields BY <2>2, <3>2 DEF RowsInv, Row, IsRow
    <3>7. db'.challenge[On(c)].status # "initial" /\ ~db'.challenge[On(c)].active
      BY <3>4, <3>6 DEF ChallengeFields
    <3>8. ASSUME local[c].child PROVE ChildMade(c)'
      <4>1. /\ db'.challenge[c].parent = On(c) /\ db'.challenge[c].phase = Phase(c) + 1
            /\ db'.challenge[c].user = Owner(c)
        BY <3>4, <3>8 DEF NewChallenge
      <4>2. /\ HasAccountRow(c)' /\ <<On(c), c>> \in db'.certificates
            /\ local[c].read = "active" /\ isBeforeFinalPhase(c) => Owner(c) \in db'.verified
        BY <1>3, <3>1, <3>3, <3>4, <3>8 DEF ApprovalInv, SameChallenge, HasAccountRow
      <4>3. db'.challenge[c].active = (local[c].read = "active") BY <3>4, <3>8 DEF NewChallenge
      <4>4. db'.challenge[c].active => local[c].read = "active" BY <4>3, Zenon
      <4> QED BY <3>3, <3>7, <4>1, <4>2, <4>4, SamePhase DEF ChildMade, SameChallenge
    <3> QED BY <1>1, <1>3, <3>1, <3>3, <3>5, <3>8, SamePhase DEF ApprovalInv, BeforeChild, AfterChild
  <2>11. CASE BeginDisapproval(c) \/ MailDisapproval(c) \/ CommitDisapproval(c) \/ VerifyUser(c)
    BY <1>3, <2>11 DEF BeginDisapproval, MailDisapproval, CommitDisapproval, VerifyUser, Disapproval
  <2> QED BY <2>1, <2>4, <2>5, <2>6, <2>7, <2>8, <2>9, <2>10, <2>11 DEF LifecycleStep
<1> QED BY <1>2, <1>3

ApprovalsInv == \A c \in Calls : ApprovalInv(c)

LEMMA ApprovalsAlways == BackofficeSpec => [](Shape /\ RowsInv /\ ApprovalsInv)
<1>1. TablesInit => ApprovalsInv BY ApprovalInit DEF ApprovalsInv
<1>2. Shape /\ RowsInv /\ ApprovalsInv /\ [BackofficeNext]_backofficeVars => ApprovalsInv'
  BY OwnOrUntouched, ApprovalOwn, ApprovalUntouched DEF ApprovalsInv
<1> QED BY <1>1, <1>2, RowsAlways, PTL DEF BackofficeSpec

\* setApprovedChallenge closes a challenge and opens the next phase together or
\* not at all, whatever fails on the way.
THEOREM NextPhaseComesWithApproval == BackofficeSpec => []NextPhaseWithApproval
<1>1. Shape /\ RowsInv /\ ApprovalsInv => NextPhaseWithApproval
  BY DEF RowsInv, NotYet, ApprovalsInv, ApprovalInv, NextPhaseWithApproval, ChildMade
<1> QED BY <1>1, ApprovalsAlways, PTL

\* The challenge of the last phase that an approval leaves open is of a user who
\* is verified, however approvals and verifications interleave.
THEOREM LastPhaseIsVerified == BackofficeSpec => []LastPhaseOnlyVerified
<1>1. Shape /\ RowsInv /\ ApprovalsInv => LastPhaseOnlyVerified
  <2> SUFFICES ASSUME RowsInv, ApprovalsInv, NEW c \in Calls, job[c].op = "approve",
                      IsRow(c), db.challenge[c].phase = Phases, db.challenge[c].active
               PROVE  db.challenge[c].user \in db.verified
    BY DEF LastPhaseOnlyVerified
  <2>1. pc[c] = "ok" /\ On(c) \in Challenges /\ IsRow(On(c)) BY DEF RowsInv, NotYet
  <2>2. ChildMade(c) BY <2>1 DEF ApprovalsInv, ApprovalInv
  <2>3. Phase(c) \in Nat BY <2>1 DEF RowsInv, Row, IsRow, Phase
  <2>4. isBeforeFinalPhase(c) BY <2>2, <2>3, PhasesAssumption DEF ChildMade, isBeforeFinalPhase
  <2> QED BY <2>2, <2>4 DEF ChildMade
<1> QED BY <1>1, ApprovalsAlways, PTL

(***************************************************************************)
(* Withdrawals.                                                            *)
(***************************************************************************)

\* How far the approval of a withdrawal is says what there is of the payout.
PayoutInv(c) ==
  job[c].op = "approveWithdrawal" =>
    /\ pc[c] \in {"challenge", "certificate", "mail", "save", "ok"} => HasAccountRow(c)
    /\ pc[c] \in {"certificate", "mail", "save", "ok"} => IsRow(c)
    /\ pc[c] \in {"mail", "save", "ok"} => <<Withdrawn, c>> \in db.certificates
    /\ pc[c] \in {"save", "ok"} => <<c, "payout">> \in out.mails

\* A status "approved", in the table or in a row that update has read, is the one
\* of an approval that was answered, or was patched in.
Patched(w) == \E c \in Calls : job[c] = [op |-> "patchApproved", on |-> w]
Paid(w) == \E c \in Calls : job[c] = [op |-> "approveWithdrawal", on |-> w] /\ pc[c] = "ok"
PaidInv(w) ==
  ~Patched(w) =>
    /\ db.withdrawal[w] = "approved" => Paid(w)
    /\ \A c \in Calls : job[c].op = "updateWithdrawal" /\ On(c) = w /\ local[c].read = "approved" => Paid(w)

PayoutsInv == (\A c \in Calls : PayoutInv(c)) /\ (\A w \in Withdrawals : PaidInv(w))

LEMMA PayoutsInit == TablesInit => PayoutsInv
<1> SUFFICES ASSUME TablesInit PROVE PayoutsInv OBVIOUS
<1>1. ASSUME NEW c \in Calls PROVE PayoutInv(c)
  <2>1. pc[c] \in {"start", "idle"} BY DEF TablesInit
  <2> QED BY <2>1 DEF PayoutInv
<1>2. ASSUME NEW w \in Withdrawals PROVE PaidInv(w)
  <2>1. db.withdrawal[w] # "approved" /\ \A c \in Calls : local[c].read # "approved" BY DEF TablesInit
  <2> QED BY <2>1 DEF PaidInv
<1> QED BY <1>1, <1>2 DEF PayoutsInv

LEMMA PayoutUntouched ==
  ASSUME Shape, RowsInv, NEW c \in Calls, PayoutInv(c), Untouched(c)
  PROVE  PayoutInv(c)'
<1>1. c \in Challenges BY DEF Challenges
<1>2. IsRow(c)' <=> IsRow(c) BY <1>1, KeptRow DEF Untouched, RowsInv
<1> QED BY <1>2 DEF PayoutInv, Untouched, HasAccountRow

LEMMA PayoutOwn ==
  ASSUME Shape, RowsInv, NEW c \in Calls, PayoutInv(c), UNCHANGED job, CallStep(c) \/ CallTrouble(c)
  PROVE  PayoutInv(c)'
<1> USE DEF Shape, Goto, Keep, At
<1>1. job'[c] = job[c] OBVIOUS
<1>2. CASE job[c].op # "approveWithdrawal" BY <1>1, <1>2 DEF PayoutInv
<1>3. CASE job[c].op = "approveWithdrawal"
  <2>1. PayoutStep(c) \/ PayoutFault(c)
    BY <1>3, OpOfStep DEF CallStep, CallTrouble, LifecycleOps, VerificationOps, Decide
  <2> USE <1>1, <1>3 DEF PayoutInv
  <2>2. CASE FindWithdrawal(c) \/ handleWithdrawalApproval(c) \/ PayoutFault(c)
    BY <2>2 DEF FindWithdrawal, handleWithdrawalApproval, PayoutFault, Fault
  <2>3. CASE PayoutAccount(c) BY <2>3 DEF PayoutAccount, SaveAccountRow, Login, HasAccountRow
  <2>4. CASE PayoutChallenge(c)
    <3>1. db'.challenge[c] = NewChallenge(db.challenge[Withdrawn].user, 1, Withdrawn, TRUE)
      BY <2>4 DEF PayoutChallenge, Challenges
    <3>2. IsRow(c)' BY <3>1 DEF IsRow, NoRow, NewChallenge
    <3> QED BY <2>4, <3>2 DEF PayoutChallenge, HasAccountRow
  <2>5. CASE PayoutCertificate(c) \/ MailPayout(c)
    BY <2>5 DEF PayoutCertificate, MailPayout, SaveCertificate, SendMail, Mailed, HasAccountRow, IsRow
  <2>6. CASE updateWithdrawalStatus(c) BY <2>6 DEF updateWithdrawalStatus, HasAccountRow, IsRow
  <2>7. CASE CreateWithdrawal(c) \/ UpdateWithdrawal(c) \/ RemoveWithdrawal(c)
    BY <2>7 DEF CreateWithdrawal, UpdateWithdrawal, RemoveWithdrawal
  <2> QED BY <2>1, <2>2, <2>3, <2>4, <2>5, <2>6, <2>7 DEF PayoutStep
<1> QED BY <1>2, <1>3

\* An approval that is answered stays so.
LEMMA PaidStays ==
  ASSUME Shape, RowsInv, [BackofficeNext]_backofficeVars, NEW w, Paid(w)
  PROVE  Paid(w)'
<1>1. PICK c \in Calls : job[c] = [op |-> "approveWithdrawal", on |-> w] /\ pc[c] = "ok" BY DEF Paid
<1>2. ~(CallStep(c) \/ CallTrouble(c))
  <2>1. CallStep(c) \/ CallTrouble(c) => PayoutStep(c) \/ PayoutFault(c)
    BY <1>1, OpOfStep DEF CallStep, CallTrouble, LifecycleOps, VerificationOps, Decide
  <2>2. ~(PayoutStep(c) \/ PayoutFault(c))
    BY <1>1 DEF PayoutStep, PayoutFault, Fault, Ended, At, CreateWithdrawal, FindWithdrawal, handleWithdrawalApproval,
       PayoutAccount, PayoutChallenge, PayoutCertificate, MailPayout, updateWithdrawalStatus, UpdateWithdrawal,
       RemoveWithdrawal, SaveAccountRow, SaveCertificate, SendMail
  <2> QED BY <2>1, <2>2
<1>3. job'[c] = job[c] /\ pc'[c] = "ok" BY <1>1, <1>2, OwnOrUntouched DEF Untouched, Ended
<1> QED BY <1>1, <1>3 DEF Paid

\* Only the handlers of withdrawals write withdrawals.
LEMMA WithdrawalsStay ==
  ASSUME Shape, NEW d \in Calls,
         \/ OrderStep(d) \/ OrderTrouble(d) \/ LifecycleStep(d) \/ LifecycleFault(d)
         \/ VerificationStep(d) \/ VerificationFault(d)
  PROVE  db'.withdrawal = db.withdrawal
<1> USE DEF Shape, Goto, Keep, At
<1>1. CASE OrderStep(d) \/ OrderTrouble(d)
  BY <1>1 DEF OrderStep, OrderTrouble, LostAnswer, MailOrderFails, OrderFault, Fault, FindUser, CheckUser,
     createUserByOrder, MailAccount, ReadPlan, CreateAccount, makeDeposit, createBrokerAccountRow, Retry,
     createChallenge, createChallengeDetails, LoadIntoBuffer, SaveOrder, MailOrder, SendMail, Mailed
<1>2. CASE LifecycleStep(d) \/ LifecycleFault(d)
  BY <1>2 DEF LifecycleStep, LifecycleFault, Fault, BeginApproval, LeaveBuffer, ReadUser, findByUserId,
     RequireVerification, MailVerify, PendingAccount, NextAccount, NextChallenge, MailPhase, PhaseCertificate,
     CommitApproval, BeginDisapproval, MailDisapproval, CommitDisapproval, VerifyUser, SaveAccountRow,
     SaveCertificate, SendMail, Mailed
<1>3. CASE VerificationStep(d) \/ VerificationFault(d)
  BY <1>3 DEF VerificationStep, VerificationFault, Fault, Submit, uploadFile, SaveMedia, MailSubmitted,
     FindVerification, UpdateVerification, sendVerificationStatusEmail, DeleteFiles, RemoveVerification, SendMail,
     Mailed
<1> QED BY <1>1, <1>2, <1>3

LEMMA PaidStep ==
  ASSUME Shape, RowsInv, [BackofficeNext]_backofficeVars, NEW w \in Withdrawals, PaidInv(w)
  PROVE  PaidInv(w)'
<1> USE DEF Shape, Goto, Keep, At
<1>1. CASE Patched(w)
  <2>1. UNCHANGED job BY StepIsFramed DEF Frame, CallsFrame
  <2> QED BY <1>1, <2>1 DEF PaidInv, Patched
<1>2. CASE ~Patched(w)
  <2>1. Paid(w) => Paid(w)' BY PaidStays
  <2>2. CASE UNCHANGED <<job, local, db, out>> BY <1>2, <2>1, <2>2 DEF PaidInv, Patched, On
  <2>3. ASSUME NEW d \in Calls, CallStep(d) \/ CallTrouble(d), Frame(d) PROVE PaidInv(w)'
    <3>1. job' = job /\ \A c \in Calls \ {d} : local'[c] = local[c] BY <2>3 DEF Frame, CallsFrame
    <3>2. db'.withdrawal[w] = "approved" => Paid(w)'
      <4>1. CASE ~(PayoutStep(d) \/ PayoutFault(d))
        BY <1>2, <2>1, <2>3, <4>1, WithdrawalsStay DEF CallStep, CallTrouble, PaidInv
      <4>2. CASE PayoutStep(d) \/ PayoutFault(d)
        <5>1. CASE updateWithdrawalStatus(d)
          <6>1. /\ job[d].op \in StatusChange /\ pc' = [pc EXCEPT ![d] = "ok"]
                /\ db'.withdrawal = [db.withdrawal EXCEPT ![On(d)] = Decision(d)]
            BY <5>1 DEF updateWithdrawalStatus
          <6>2. CASE On(d) # w BY <1>2, <2>1, <6>1, <6>2 DEF PaidInv
          <6>3. CASE On(d) = w /\ job[d].op = "approveWithdrawal"
            <7>1. job[d] = [op |-> "approveWithdrawal", on |-> w] BY <6>3, NamesAssumption DEF On
            <7> QED BY <3>1, <6>1, <7>1 DEF Paid
          <6>4. CASE On(d) = w /\ job[d].op = "rejectWithdrawal" BY <6>1, <6>4 DEF Decision
          <6> QED BY <6>1, <6>2, <6>3, <6>4 DEF StatusChange
        <5>2. CASE UpdateWithdrawal(d)
          <6>1. /\ job[d].op \in {"updateWithdrawal", "patchApproved"}
                /\ db'.withdrawal = [db.withdrawal EXCEPT ![On(d)] =
                     IF job[d].op = "patchApproved" THEN "approved" ELSE local[d].read]
            BY <5>2 DEF UpdateWithdrawal
          <6>2. CASE On(d) # w BY <1>2, <2>1, <6>1, <6>2 DEF PaidInv
          <6>3. CASE On(d) = w /\ job[d].op = "updateWithdrawal" BY <1>2, <2>1, <6>1, <6>3 DEF PaidInv
          <6>4. CASE On(d) = w /\ job[d].op = "patchApproved"
            <7>1. job[d] = [op |-> "patchApproved", on |-> w] BY <6>4, NamesAssumption DEF On
            <7> QED BY <1>2, <7>1 DEF Patched
          <6> QED BY <6>1, <6>2, <6>3, <6>4
        <5>3. CASE CreateWithdrawal(d) \/ RemoveWithdrawal(d)
          BY <1>2, <2>1, <5>3 DEF CreateWithdrawal, RemoveWithdrawal, PaidInv
        <5>4. CASE FindWithdrawal(d) \/ handleWithdrawalApproval(d) \/ PayoutAccount(d) \/ PayoutChallenge(d)
                     \/ PayoutCertificate(d) \/ MailPayout(d) \/ PayoutFault(d)
          BY <1>2, <2>1, <5>4
          DEF FindWithdrawal, handleWithdrawalApproval, PayoutAccount, PayoutChallenge, PayoutCertificate,
              MailPayout, PayoutFault, Fault, SaveAccountRow, SaveCertificate, SendMail, Mailed, PaidInv
        <5> QED BY <4>2, <5>1, <5>2, <5>3, <5>4 DEF PayoutStep
      <4> QED BY <4>1, <4>2
    <3>3. ASSUME NEW c \in Calls, job[c].op = "updateWithdrawal", On(c) = w, local'[c].read = "approved"
          PROVE  Paid(w)'
      <4>1. CASE c # d BY <1>2, <2>1, <3>1, <3>3, <4>1 DEF PaidInv
      <4>2. CASE c = d
        <5>1. PayoutStep(c) \/ PayoutFault(c)
          BY <2>3, <3>3, <4>2, OpOfStep DEF CallStep, CallTrouble, LifecycleOps, VerificationOps, Decide
        <5>2. CASE FindWithdrawal(c)
          <6>1. local'[c].read = db.withdrawal[w] BY <3>3, <5>2 DEF FindWithdrawal
          <6> QED BY <1>2, <2>1, <3>3, <6>1 DEF PaidInv
        <5>3. CASE ~FindWithdrawal(c)
          <6>1. local'[c] = local[c]
            BY <5>1, <5>3
            DEF PayoutStep, CreateWithdrawal, handleWithdrawalApproval, PayoutAccount, PayoutChallenge,
                PayoutCertificate, MailPayout, updateWithdrawalStatus, UpdateWithdrawal, RemoveWithdrawal,
                PayoutFault, Fault, SaveAccountRow, SaveCertificate, SendMail, Mailed
          <6> QED BY <1>2, <2>1, <3>3, <6>1 DEF PaidInv
        <5> QED BY <5>2, <5>3
      <4> QED BY <4>1, <4>2
    <3> QED BY <3>1, <3>2, <3>3 DEF PaidInv, On
  <2> QED BY <2>2, <2>3, StepIsFramed
<1> QED BY <1>1, <1>2

LEMMA PayoutsAlways == BackofficeSpec => [](Shape /\ RowsInv /\ PayoutsInv)
<1>1. Shape /\ RowsInv /\ PayoutsInv /\ [BackofficeNext]_backofficeVars => PayoutsInv'
  <2> SUFFICES ASSUME Shape, RowsInv, PayoutsInv, [BackofficeNext]_backofficeVars PROVE PayoutsInv'
    OBVIOUS
  <2>1. ASSUME NEW c \in Calls PROVE PayoutInv(c)'
    BY OwnOrUntouched, PayoutOwn, PayoutUntouched DEF PayoutsInv
  <2>2. ASSUME NEW w \in Withdrawals PROVE PaidInv(w)' BY PaidStep DEF PayoutsInv
  <2> QED BY <2>1, <2>2 DEF PayoutsInv, Withdrawals
<1> QED BY <1>1, PayoutsInit, RowsAlways, PTL DEF BackofficeSpec

\* A withdrawal that is approved, and that nobody patched so, has the account, the
\* challenge, the certificate and the mail of an approval: withdrawals.service.ts
\* saves the status last.
THEOREM ApprovedWithdrawalsArePaid == BackofficeSpec => []ApprovedIsPaid
<1>1. Shape /\ RowsInv /\ PayoutsInv => ApprovedIsPaid
  <2> SUFFICES ASSUME PayoutsInv, NEW w \in Withdrawals, db.withdrawal[w] = "approved", ~Patched(w)
               PROVE  \E c \in Calls : /\ job[c] = [op |-> "approveWithdrawal", on |-> w]
                                       /\ IsRow(c) /\ HasAccountRow(c)
                                       /\ <<Withdrawn, c>> \in db.certificates /\ <<c, "payout">> \in out.mails
    BY DEF ApprovedIsPaid, Patched
  <2>1. PICK c \in Calls : job[c] = [op |-> "approveWithdrawal", on |-> w] /\ pc[c] = "ok"
    BY DEF PayoutsInv, PaidInv, Paid
  <2> QED BY <2>1 DEF PayoutsInv, PayoutInv
<1> QED BY <1>1, PayoutsAlways, PTL

(***************************************************************************)
(* Verifications and their files.                                          *)
(***************************************************************************)

\* How far a submission is says which of its files are recorded.
SubmissionInv(c) ==
  job[c].op = "submit" =>
    /\ pc[c] = "start" => local[c].try = 1
    /\ pc[c] \in {"upload", "media"} =>
         local[c].try \in 1..Files /\ \A i \in 1..Files : i < local[c].try => <<c, i>> \in db.media
    /\ pc[c] = "media" => <<c, local[c].try>> \in out.files
    /\ pc[c] \in {"mail", "ok"} => \A i \in 1..Files : <<c, i>> \in db.media

Backed(m) == m \in out.files /\ m[1] \in Verifications /\ IsVerification(m[1])
MediaInv == (\A c \in Calls : SubmissionInv(c)) /\ (\A m \in db.media : Backed(m))

\* What every step keeps: rows and files are not removed, nor is a verification
\* that has rows.
MediaKept ==
  /\ db.media \subseteq db'.media /\ out.files \subseteq out'.files
  /\ \A m \in db.media : m[1] \in Verifications /\ IsVerification(m[1]) => IsVerification(m[1])'

LEMMA MediaInit == TablesInit => MediaInv
<1> SUFFICES ASSUME TablesInit PROVE MediaInv OBVIOUS
<1>1. ASSUME NEW c \in Calls PROVE SubmissionInv(c)
  <2>1. pc[c] \in {"start", "idle"} /\ local[c].try = 1 BY DEF TablesInit
  <2> QED BY <2>1 DEF SubmissionInv
<1>2. ASSUME NEW m \in db.media PROVE Backed(m)
  <2>1. m = <<FirstVerification, 1>> /\ m \in out.files BY <1>2 DEF TablesInit
  <2>2. FirstVerification \in Verifications BY DEF Verifications
  <2>3. db.verification[FirstVerification] = [user |-> Submitter, status |-> "pending"]
    BY <2>2 DEF TablesInit
  <2> QED BY <2>1, <2>2, <2>3 DEF Backed, IsVerification, NoRow
<1> QED BY <1>1, <1>2 DEF MediaInv

\* The other handlers have no part in the files, but an approval makes a verification.
LEMMA MediaKeptByOthers ==
  ASSUME Shape, NEW c \in Calls,
         \/ OrderStep(c) \/ OrderTrouble(c) \/ LifecycleStep(c) \/ LifecycleFault(c)
         \/ PayoutStep(c) \/ PayoutFault(c)
  PROVE  MediaKept /\ db'.media = db.media
<1> USE DEF Shape, Goto, Keep, At
<1>1. CASE OrderStep(c) \/ OrderTrouble(c)
  <2>1. db'.media = db.media /\ db'.verification = db.verification /\ out'.files = out.files
    BY <1>1 DEF OrderStep, OrderTrouble, LostAnswer, MailOrderFails, OrderFault, Fault, FindUser, CheckUser,
       createUserByOrder, MailAccount, ReadPlan, CreateAccount, makeDeposit, createBrokerAccountRow, Retry,
       createChallenge, createChallengeDetails, LoadIntoBuffer, SaveOrder, MailOrder, SendMail, Mailed
  <2> QED BY <2>1 DEF MediaKept, IsVerification
<1>2. CASE RequireVerification(c)
  <2>1. /\ db'.media = db.media /\ out'.files = out.files
        /\ db'.verification = [db.verification EXCEPT ![c] = [user |-> Owner(c), status |-> "pending"]]
    BY <1>2 DEF RequireVerification
  <2>2. [user |-> Owner(c), status |-> "pending"] # NoRow BY DEF NoRow
  <2>3. \A v \in Verifications : db.verification[v] # NoRow => db'.verification[v] # NoRow
    BY <2>1, <2>2
  <2> HIDE DEF Shape
  <2> QED BY <2>1, <2>3 DEF MediaKept, IsVerification
<1>3. CASE (LifecycleStep(c) /\ ~RequireVerification(c)) \/ LifecycleFault(c)
  <2>1. db'.media = db.media /\ db'.verification = db.verification /\ out'.files = out.files
    BY <1>3 DEF LifecycleStep, LifecycleFault, Fault, BeginApproval, LeaveBuffer, ReadUser, findByUserId,
       MailVerify, PendingAccount, NextAccount, NextChallenge, MailPhase, PhaseCertificate,
       CommitApproval, BeginDisapproval, MailDisapproval, CommitDisapproval, VerifyUser, SaveAccountRow,
       SaveCertificate, SendMail, Mailed
  <2> QED BY <2>1 DEF MediaKept, IsVerification
<1>4. CASE PayoutStep(c) \/ PayoutFault(c)
  <2>1. db'.media = db.media /\ db'.verification = db.verification /\ out'.files = out.files
    BY <1>4 DEF PayoutStep, PayoutFault, Fault, CreateWithdrawal, FindWithdrawal, handleWithdrawalApproval,
       PayoutAccount, PayoutChallenge, PayoutCertificate, MailPayout, updateWithdrawalStatus, UpdateWithdrawal,
       RemoveWithdrawal, SaveAccountRow, SaveCertificate, SendMail, Mailed
  <2> QED BY <2>1 DEF MediaKept, IsVerification
<1> QED BY <1>1, <1>2, <1>3, <1>4

\* A submission records a file after it is uploaded, and a removal is refused
\* while there are rows.
LEMMA MediaKeptByVerification ==
  ASSUME Shape, MediaInv, NEW c \in Calls, VerificationStep(c) \/ VerificationFault(c)
  PROVE  MediaKept /\ (\A m \in db'.media \ db.media : Backed(m)')
<1> USE DEF Shape, Goto, Keep, At
<1>1. CASE Submit(c)
  <2>1. /\ db'.media = db.media /\ out'.files = out.files
        /\ db'.verification = [db.verification EXCEPT ![c] = [user |-> On(c), status |-> "pending"]]
    BY <1>1 DEF Submit
  <2>2. [user |-> On(c), status |-> "pending"] # NoRow BY DEF NoRow
  <2>3. \A v \in Verifications : db.verification[v] # NoRow => db'.verification[v] # NoRow
    BY <2>1, <2>2
  <2> HIDE DEF Shape
  <2> QED BY <2>1, <2>3 DEF MediaKept, IsVerification
<1>2. CASE SaveMedia(c)
  <2>1. db'.verification = db.verification /\ out' = out BY <1>2 DEF SaveMedia
  <2>2. \/ db'.media = db.media
        \/ IsVerification(c) /\ db'.media = db.media \cup {<<c, local[c].try>>}
    BY <1>2 DEF SaveMedia
  <2>3. <<c, local[c].try>> \in out.files BY <1>2 DEF SaveMedia, Submission, MediaInv, SubmissionInv
  <2> QED BY <2>1, <2>2, <2>3 DEF MediaKept, Backed, IsVerification, Verifications
<1>3. CASE UpdateVerification(c)
  <2> DEFINE status == IF job[c].op = "approveVerification" THEN "approved" ELSE "rejected"
  <2>1. /\ db'.media = db.media /\ out'.files = out.files
        /\ db'.verification =
             [db.verification EXCEPT ![On(c)] = [user |-> VerificationUser(On(c)), status |-> status]]
    BY <1>3 DEF UpdateVerification
  <2>2. [user |-> VerificationUser(On(c)), status |-> status] # NoRow BY DEF NoRow
  <2>3. \A v \in Verifications : db.verification[v] # NoRow => db'.verification[v] # NoRow
    BY <2>1, <2>2
  <2> HIDE DEF Shape
  <2> QED BY <2>1, <2>3 DEF MediaKept, IsVerification
<1>4. CASE RemoveVerification(c)
  <2>1. db'.media = db.media /\ out'.files = out.files BY <1>4 DEF RemoveVerification
  <2>2. \/ db'.verification = db.verification
        \/ /\ db'.verification = [db.verification EXCEPT ![On(c)] = NoRow]
           /\ \A m \in db.media : m[1] # On(c)
    BY <1>4 DEF RemoveVerification
  <2> QED BY <2>1, <2>2 DEF MediaKept, IsVerification
<1>5. CASE \/ uploadFile(c) \/ MailSubmitted(c) \/ FindVerification(c) \/ sendVerificationStatusEmail(c)
           \/ DeleteFiles(c) \/ VerificationFault(c)
  <2>1. db'.media = db.media /\ db'.verification = db.verification /\ out.files \subseteq out'.files
    BY <1>5 DEF uploadFile, MailSubmitted, FindVerification, sendVerificationStatusEmail, DeleteFiles,
       VerificationFault, Fault, SendMail, Mailed
  <2> QED BY <2>1 DEF MediaKept, IsVerification
<1> QED BY <1>1, <1>2, <1>3, <1>4, <1>5 DEF VerificationStep

LEMMA SubmissionUntouched ==
  ASSUME NEW c \in Calls, SubmissionInv(c), Untouched(c), MediaKept
  PROVE  SubmissionInv(c)'
BY DEF SubmissionInv, Untouched, MediaKept

LEMMA SubmissionOwn ==
  ASSUME Shape, NEW c \in Calls, SubmissionInv(c), UNCHANGED job, CallStep(c) \/ CallTrouble(c), MediaKept
  PROVE  SubmissionInv(c)'
<1> USE DEF Shape, Goto, Keep, At, Submission
<1>1. job'[c] = job[c] /\ db.media \subseteq db'.media /\ out.files \subseteq out'.files BY DEF MediaKept
<1>2. CASE job[c].op # "submit" BY <1>1, <1>2 DEF SubmissionInv
<1>3. CASE job[c].op = "submit"
  <2>1. VerificationStep(c) \/ VerificationFault(c)
    BY <1>3, OpOfStep DEF CallStep, CallTrouble, LifecycleOps, PayoutOps, StatusChange
  <2> USE <1>1, <1>3, FilesAssumption DEF SubmissionInv
  <2>2. CASE Submit(c) BY <2>2 DEF Submit
  <2>3. CASE uploadFile(c) BY <2>3 DEF uploadFile
  <2>4. CASE SaveMedia(c)
    <3>1. CASE IsVerification(c)
      <4>1. /\ db'.media = db.media \cup {<<c, local[c].try>>}
            /\ local'[c].try = local[c].try + 1
            /\ pc'[c] = IF local[c].try < Files THEN "upload" ELSE "mail"
        BY <2>4, <3>1 DEF SaveMedia
      <4>2. local[c].try \in 1..Files /\ \A i \in 1..Files : i < local[c].try => <<c, i>> \in db.media
        BY <2>4 DEF SaveMedia
      <4>3. \A i \in 1..Files : i < local[c].try + 1 => <<c, i>> \in db'.media BY <4>1, <4>2
      <4> QED BY <4>1, <4>2, <4>3
    <3>2. CASE ~IsVerification(c) BY <2>4, <3>2 DEF SaveMedia
    <3> QED BY <3>1, <3>2
  <2>5. CASE MailSubmitted(c) BY <2>5 DEF MailSubmitted, SendMail, Mailed
  <2>6. CASE VerificationFault(c) BY <2>6 DEF VerificationFault, Fault
  <2>7. CASE FindVerification(c) \/ UpdateVerification(c) \/ sendVerificationStatusEmail(c)
             \/ DeleteFiles(c) \/ RemoveVerification(c)
    BY <2>7 DEF FindVerification, UpdateVerification, sendVerificationStatusEmail, DeleteFiles,
       RemoveVerification, Decide
  <2> QED BY <2>1, <2>2, <2>3, <2>4, <2>5, <2>6, <2>7 DEF VerificationStep
<1> QED BY <1>2, <1>3

LEMMA MediaStep ==
  ASSUME Shape, RowsInv, MediaInv, [BackofficeNext]_backofficeVars
  PROVE  MediaInv'
<1>1. MediaKept /\ \A m \in db'.media \ db.media : Backed(m)'
  <2>1. CASE UNCHANGED <<job, local, db, out>> BY <2>1 DEF MediaKept, IsVerification
  <2>2. ASSUME NEW d \in Calls, CallStep(d) \/ CallTrouble(d)
        PROVE  MediaKept /\ \A m \in db'.media \ db.media : Backed(m)'
    BY <2>2, MediaKeptByOthers, MediaKeptByVerification DEF CallStep, CallTrouble
  <2> QED BY <2>1, <2>2, StepIsFramed
<1>2. ASSUME NEW m \in db.media PROVE Backed(m)'
  <2>1. m \in out'.files /\ m[1] \in Verifications /\ IsVerification(m[1])'
    BY <1>1 DEF MediaInv, Backed, MediaKept
  <2> QED BY <2>1 DEF Backed, Verifications
<1>3. ASSUME NEW c \in Calls PROVE SubmissionInv(c)'
  BY <1>1, OwnOrUntouched, SubmissionOwn, SubmissionUntouched DEF MediaInv
<1> QED BY <1>1, <1>2, <1>3 DEF MediaInv

\* A Media row has its file and its verification, and a submission that is
\* answered has all its files: verification.service.ts uploads before it records.
THEOREM MediaAreBacked == BackofficeSpec => []MediaIsBacked
<1>1. Shape /\ RowsInv /\ MediaInv /\ [BackofficeNext]_backofficeVars => MediaInv' BY MediaStep
<1>2. MediaInv => MediaIsBacked BY DEF MediaInv, Backed, SubmissionInv, MediaIsBacked
<1> QED BY <1>1, <1>2, MediaInit, RowsAlways, PTL DEF BackofficeSpec

(***************************************************************************)
(* Types.                                                                  *)
(***************************************************************************)

\* The columns of the type invariant, by who writes them.
LocalType == \A c \in Calls :
  /\ local[c].try \in 1..(maxRetries + 1) \cup 1..(Files + 1)
  /\ local[c].conflicts \in 0..maxRetries
  /\ local[c].child \in BOOLEAN
TablesType ==
  /\ \A c \in Calls : db.row[c] \in Logins
  /\ db.users \subseteq Users /\ db.verified \subseteq Users
  /\ db.details \subseteq Challenges /\ db.orders \subseteq Calls
  /\ db.certificates \subseteq Challenges \X Calls
  /\ db.media \subseteq Verifications \X (1..Files + 1)
OutType ==
  /\ out.accounts \subseteq Calls \X (1..maxRetries + 1)
  /\ out.deposits \subseteq Calls \X (1..maxRetries + 1)
  /\ out.buffer \subseteq Challenges
BoundsType == job \in Scenarios /\ faults \in 0..MaxFaults /\ crashes \in 0..MaxCrashes

LEMMA TypeInit == TablesInit => BackofficeTypeOK
<1> SUFFICES ASSUME TablesInit PROVE BackofficeTypeOK OBVIOUS
<1> USE DEF TablesInit
<1>1. BoundsType BY BoundsAssumption DEF BoundsType
<1>2. LocalType
  <2>1. \A c \in Calls : local[c].try = 1 /\ local[c].conflicts = 0 /\ local[c].child = FALSE OBVIOUS
  <2>2. 1 \in 1..maxRetries + 1 /\ 0 \in 0..maxRetries BY RetriesAssumption
  <2> QED BY <2>1, <2>2 DEF LocalType
<1>3. TablesType
  <2>1. \A c \in Calls : db.row[c] \in Logins BY RetriesAssumption DEF Logins, Login
  <2>2. db.users \subseteq Users BY NamesAssumption
  <2>3. <<FirstVerification, 1>> \in Verifications \X (1..Files + 1) BY FilesAssumption DEF Verifications
  <2> QED BY <2>1, <2>2, <2>3 DEF TablesType, Challenges
<1>4. OutType BY DEF OutType, Challenges
<1> QED BY <1>1, <1>2, <1>3, <1>4 DEF BackofficeTypeOK, BoundsType, LocalType, TablesType, OutType

LEMMA TypeOrder ==
  ASSUME Shape, BackofficeTypeOK, NEW c \in Calls, OrderInv(c), OrderStep(c) \/ OrderTrouble(c)
  PROVE  BackofficeTypeOK'
<1> USE DEF Shape, Goto, Keep, At, Order
<1>1. BoundsType /\ LocalType /\ TablesType /\ OutType
  BY DEF BackofficeTypeOK, BoundsType, LocalType, TablesType, OutType
<1>2. c \in Challenges /\ (pc[c] \in {"create", "deposit", "row"} => local[c].try \in 1..maxRetries + 1)
        /\ job[c].op = "order"
  BY OpOfStep DEF Challenges, OrderInv
<1>3. On(c) \in Users BY <1>1, <1>2, NamesAssumption DEF On, BoundsType
<1>4. CASE FindUser(c) \/ CheckUser(c) \/ createUserByOrder(c) \/ MailAccount(c) \/ ReadPlan(c)
  <2> USE <1>4 DEF FindUser, CheckUser, createUserByOrder, MailAccount, ReadPlan, SendMail, Mailed
  <2>1. BoundsType' BY <1>1 DEF BoundsType
  <2>2. LocalType' BY <1>1 DEF LocalType
  <2>3. TablesType' BY <1>1, <1>3 DEF TablesType, Logins
  <2>4. OutType' BY <1>1 DEF OutType
  <2> QED BY <2>1, <2>2, <2>3, <2>4 DEF BackofficeTypeOK, BoundsType, LocalType, TablesType, OutType
<1>5. CASE CreateAccount(c) \/ makeDeposit(c)
  <2> USE <1>5 DEF CreateAccount, makeDeposit, Retry
  <2>1. BoundsType' BY <1>1 DEF BoundsType
  <2>2. LocalType' BY <1>1, <1>2, RetriesAssumption DEF LocalType
  <2>3. TablesType' BY <1>1 DEF TablesType, Logins
  <2>4. OutType' BY <1>1, <1>2 DEF OutType
  <2> QED BY <2>1, <2>2, <2>3, <2>4 DEF BackofficeTypeOK, BoundsType, LocalType, TablesType, OutType
<1>6. CASE createBrokerAccountRow(c)
  <2> USE <1>6 DEF createBrokerAccountRow
  <2>1. BoundsType' BY <1>1 DEF BoundsType
  <2>2. LocalType' BY <1>1, <1>2, RetriesAssumption DEF LocalType
  <2>3. TablesType'
    <3>1. local[c].try \in 0..maxRetries + 1 BY <1>2, RetriesAssumption
    <3>2. Login(IF local[c].conflicts = 0 THEN "broker" ELSE "changed", local[c].try) \in Logins
      BY <3>1 DEF Login, Logins
    <3>3. db'.row[c] \in Logins /\ \A d \in Calls : d # c => db'.row[d] = db.row[d]
      BY <1>1, <3>2 DEF TablesType
    <3> QED BY <1>1, <3>3 DEF TablesType
  <2>4. OutType' BY <1>1, <1>2 DEF OutType
  <2> QED BY <2>1, <2>2, <2>3, <2>4 DEF BackofficeTypeOK, BoundsType, LocalType, TablesType, OutType
<1>7. CASE createChallenge(c) \/ createChallengeDetails(c) \/ LoadIntoBuffer(c) \/ SaveOrder(c) \/ MailOrder(c)
  <2> USE <1>7 DEF createChallenge, createChallengeDetails, LoadIntoBuffer, SaveOrder, MailOrder, SendMail, Mailed
  <2>1. BoundsType' BY <1>1 DEF BoundsType
  <2>2. local' = local OBVIOUS
  <2>3. db'.row = db.row /\ db'.users = db.users /\ db'.verified = db.verified
        /\ db'.certificates = db.certificates /\ db'.media = db.media
    OBVIOUS
  <2>4. db'.details \subseteq db.details \cup {c} /\ db'.orders \subseteq db.orders \cup {c} OBVIOUS
  <2>5. out'.accounts = out.accounts /\ out'.deposits = out.deposits /\ out'.buffer \subseteq out.buffer \cup {c}
    OBVIOUS
  <2>6. OutType' BY <1>1, <1>2, <2>5 DEF OutType
  <2> QED BY <1>1, <1>2, <2>1, <2>2, <2>3, <2>4, <2>6
      DEF BackofficeTypeOK, BoundsType, LocalType, TablesType, OutType
<1>8. CASE OrderTrouble(c)
  <2> USE <1>8 DEF OrderTrouble, LostAnswer, MailOrderFails, OrderFault, Fault
  <2>1. BoundsType' BY <1>1, BoundsAssumption DEF BoundsType
  <2>2. LocalType' BY <1>1 DEF LocalType
  <2>3. TablesType' BY <1>1, <1>2 DEF TablesType, Logins
  <2>4. OutType' BY <1>1, <1>2 DEF OutType
  <2> QED BY <2>1, <2>2, <2>3, <2>4 DEF BackofficeTypeOK, BoundsType, LocalType, TablesType, OutType
<1> QED BY <1>4, <1>5, <1>6, <1>7, <1>8 DEF OrderStep

LEMMA TypeLifecycle ==
  ASSUME Shape, RowsInv, BackofficeTypeOK, NEW c \in Calls, LifecycleStep(c) \/ LifecycleFault(c)
  PROVE  BackofficeTypeOK'
<1> USE DEF Shape, Goto, Keep, At
<1>1. BoundsType /\ LocalType /\ TablesType /\ OutType
  BY DEF BackofficeTypeOK, BoundsType, LocalType, TablesType, OutType
<1>2. job[c].op = "approve" => On(c) \in Challenges BY DEF RowsInv, NotYet
<1>3. job[c].op = "verifyUser" => On(c) \in Users BY <1>1, NamesAssumption DEF On, BoundsType
<1>4. LocalType'
  <2>1. CASE NextChallenge(c)
    <3>1. /\ local'[c].try = local[c].try /\ local'[c].conflicts = local[c].conflicts /\ local'[c].child = TRUE
          /\ \A d \in Calls : d # c => local'[d] = local[d]
      BY <2>1 DEF NextChallenge
    <3> QED BY <1>1, <3>1 DEF LocalType
  <2>2. CASE UNCHANGED local BY <1>1, <2>2 DEF LocalType
  <2> QED BY <2>1, <2>2
     DEF LifecycleStep, LifecycleFault, Fault, BeginApproval, LeaveBuffer, ReadUser, findByUserId,
         RequireVerification, MailVerify, PendingAccount, NextAccount, MailPhase, PhaseCertificate,
         CommitApproval, BeginDisapproval, MailDisapproval, CommitDisapproval, VerifyUser, SaveAccountRow,
         SaveCertificate, SendMail, Mailed
<1>5. BoundsType'
  <2>1. UNCHANGED <<job, crashes>> /\ (faults' = faults \/ (faults < MaxFaults /\ faults' = faults + 1))
    BY DEF LifecycleStep, LifecycleFault, Fault, BeginApproval, LeaveBuffer, ReadUser, findByUserId,
         RequireVerification, MailVerify, PendingAccount, NextAccount, NextChallenge, MailPhase, PhaseCertificate,
         CommitApproval, BeginDisapproval, MailDisapproval, CommitDisapproval, VerifyUser, SaveAccountRow,
         SaveCertificate, SendMail, Mailed
  <2> QED BY <1>1, <2>1, BoundsAssumption DEF BoundsType
<1>6. OutType'
  BY <1>1 DEF OutType, LifecycleStep, LifecycleFault, Fault, BeginApproval, LeaveBuffer, ReadUser, findByUserId,
     RequireVerification, MailVerify, PendingAccount, NextAccount, NextChallenge, MailPhase, PhaseCertificate,
     CommitApproval, BeginDisapproval, MailDisapproval, CommitDisapproval, VerifyUser, SaveAccountRow,
     SaveCertificate, SendMail, Mailed
<1>7. TablesType'
  <2>1. CASE PendingAccount(c) \/ NextAccount(c) \/ PhaseCertificate(c)
    BY <1>1, <1>2, <2>1, RetriesAssumption
    DEF TablesType, PendingAccount, NextAccount, PhaseCertificate, SaveAccountRow, SaveCertificate, Login, Logins
  <2>2. CASE VerifyUser(c) BY <1>1, <1>3, <2>2 DEF TablesType, VerifyUser, Logins
  <2>3. CASE CommitApproval(c) \/ CommitDisapproval(c) \/ RequireVerification(c)
    BY <1>1, <2>3 DEF TablesType, CommitApproval, CommitDisapproval, RequireVerification, Logins
  <2>4. CASE UNCHANGED db BY <1>1, <2>4 DEF TablesType, Logins
  <2> QED BY <2>1, <2>2, <2>3, <2>4
     DEF LifecycleStep, LifecycleFault, Fault, BeginApproval, LeaveBuffer, ReadUser, findByUserId, MailVerify,
         NextChallenge, MailPhase, BeginDisapproval, MailDisapproval, SendMail, Mailed
<1> QED BY <1>4, <1>5, <1>6, <1>7 DEF BackofficeTypeOK, BoundsType, LocalType, TablesType, OutType

LEMMA TypePayout ==
  ASSUME Shape, BackofficeTypeOK, NEW c \in Calls, PayoutStep(c) \/ PayoutFault(c)
  PROVE  BackofficeTypeOK'
<1> USE DEF Shape, Goto, Keep, At
<1>1. BoundsType /\ LocalType /\ TablesType /\ OutType
  BY DEF BackofficeTypeOK, BoundsType, LocalType, TablesType, OutType
<1>2. BoundsType'
  <2>1. UNCHANGED <<job, crashes>> /\ (faults' = faults \/ (faults < MaxFaults /\ faults' = faults + 1))
    BY DEF PayoutStep, PayoutFault, Fault, CreateWithdrawal, FindWithdrawal, handleWithdrawalApproval,
       PayoutAccount, PayoutChallenge, PayoutCertificate, MailPayout, updateWithdrawalStatus, UpdateWithdrawal,
       RemoveWithdrawal, SaveAccountRow, SaveCertificate, SendMail, Mailed
  <2> QED BY <1>1, <2>1, BoundsAssumption DEF BoundsType
<1>3. LocalType'
  <2>1. CASE FindWithdrawal(c)
    <3>1. \A d \in Calls : /\ local'[d].try = local[d].try /\ local'[d].conflicts = local[d].conflicts
                           /\ local'[d].child = local[d].child
      BY <2>1 DEF FindWithdrawal
    <3> QED BY <1>1, <3>1 DEF LocalType
  <2>2. CASE UNCHANGED local BY <1>1, <2>2 DEF LocalType
  <2> QED BY <2>1, <2>2
    DEF PayoutStep, PayoutFault, Fault, CreateWithdrawal, handleWithdrawalApproval,
       PayoutAccount, PayoutChallenge, PayoutCertificate, MailPayout, updateWithdrawalStatus, UpdateWithdrawal,
       RemoveWithdrawal, SaveAccountRow, SaveCertificate, SendMail, Mailed
<1>4. OutType'
  <2>1. out'.accounts = out.accounts /\ out'.deposits = out.deposits /\ out'.buffer = out.buffer
    BY DEF PayoutStep, PayoutFault, Fault, CreateWithdrawal, FindWithdrawal, handleWithdrawalApproval,
       PayoutAccount, PayoutChallenge, PayoutCertificate, MailPayout, updateWithdrawalStatus, UpdateWithdrawal,
       RemoveWithdrawal, SaveAccountRow, SaveCertificate, SendMail, Mailed
  <2> QED BY <1>1, <2>1 DEF OutType
<1>5. TablesType'
  <2>1. CASE PayoutAccount(c)
    <3>1. Login("internal", 0) \in Logins BY RetriesAssumption DEF Login, Logins
    <3>2. db' = [db EXCEPT !.row[c] = Login("internal", 0)] BY <2>1 DEF PayoutAccount, SaveAccountRow
    <3> QED BY <1>1, <3>1, <3>2 DEF TablesType
  <2>3. CASE PayoutCertificate(c)
    <3>1. db' = [db EXCEPT !.certificates = @ \cup {<<Withdrawn, c>>}]
      BY <2>3 DEF PayoutCertificate, SaveCertificate
    <3>2. <<Withdrawn, c>> \in Challenges \X Calls BY WithdrawnAssumption DEF Challenges
    <3> QED BY <1>1, <3>1, <3>2 DEF TablesType
  <2>2. CASE ~(PayoutAccount(c) \/ PayoutCertificate(c))
    <3>1. /\ db'.row = db.row /\ db'.users = db.users /\ db'.verified = db.verified /\ db'.details = db.details
          /\ db'.orders = db.orders /\ db'.certificates = db.certificates /\ db'.media = db.media
      BY <2>2 DEF PayoutStep, PayoutFault, Fault, CreateWithdrawal, FindWithdrawal, handleWithdrawalApproval,
         PayoutChallenge, MailPayout, updateWithdrawalStatus, UpdateWithdrawal, RemoveWithdrawal, SendMail, Mailed
    <3> QED BY <1>1, <3>1 DEF TablesType
  <2> QED BY <2>1, <2>2, <2>3
<1> QED BY <1>2, <1>3, <1>4, <1>5 DEF BackofficeTypeOK, BoundsType, LocalType, TablesType, OutType

LEMMA TypeVerification ==
  ASSUME Shape, BackofficeTypeOK, NEW c \in Calls, SubmissionInv(c), VerificationStep(c) \/ VerificationFault(c)
  PROVE  BackofficeTypeOK'
<1> USE DEF Shape, Goto, Keep, At, Submission
<1>1. BoundsType /\ LocalType /\ TablesType /\ OutType
  BY DEF BackofficeTypeOK, BoundsType, LocalType, TablesType, OutType
<1>2. BoundsType'
  <2>1. UNCHANGED <<job, crashes>> /\ (faults' = faults \/ (faults < MaxFaults /\ faults' = faults + 1))
    BY DEF VerificationStep, VerificationFault, Fault, Submit, uploadFile, SaveMedia, MailSubmitted,
       FindVerification, UpdateVerification, sendVerificationStatusEmail, DeleteFiles, RemoveVerification, SendMail,
       Mailed
  <2> QED BY <1>1, <2>1, BoundsAssumption DEF BoundsType
<1>3. SaveMedia(c) => local[c].try \in 1..Files BY DEF SaveMedia, SubmissionInv
<1>4. LocalType'
  <2>1. \A d \in Calls : /\ local'[d].try = local[d].try \/ (SaveMedia(c) /\ d = c /\ local'[d].try = local[d].try + 1)
                         /\ local'[d].conflicts = local[d].conflicts
                         /\ local'[d].child = local[d].child
    BY DEF VerificationStep, VerificationFault, Fault, Submit, uploadFile, SaveMedia, MailSubmitted,
       FindVerification, UpdateVerification, sendVerificationStatusEmail, DeleteFiles, RemoveVerification, SendMail,
       Mailed
  <2>2. SaveMedia(c) => local[c].try + 1 \in 1..Files + 1 BY <1>3, FilesAssumption
  <2> QED BY <1>1, <2>1, <2>2 DEF LocalType
<1>5. OutType'
  <2>1. out'.accounts = out.accounts /\ out'.deposits = out.deposits /\ out'.buffer = out.buffer
    BY DEF VerificationStep, VerificationFault, Fault, Submit, uploadFile, SaveMedia, MailSubmitted,
       FindVerification, UpdateVerification, sendVerificationStatusEmail, DeleteFiles, RemoveVerification, SendMail,
       Mailed
  <2> QED BY <1>1, <2>1 DEF OutType
<1>6. TablesType'
  <2>1. /\ db'.row = db.row /\ db'.users = db.users /\ db'.verified = db.verified /\ db'.details = db.details
        /\ db'.orders = db.orders /\ db'.certificates = db.certificates
        /\ db'.media = db.media \/ (SaveMedia(c) /\ db'.media = db.media \cup {<<c, local[c].try>>})
    BY DEF VerificationStep, VerificationFault, Fault, Submit, uploadFile, SaveMedia, MailSubmitted,
       FindVerification, UpdateVerification, sendVerificationStatusEmail, DeleteFiles, RemoveVerification, SendMail,
       Mailed
  <2>2. SaveMedia(c) => <<c, local[c].try>> \in Verifications \X (1..Files + 1)
    BY <1>3, FilesAssumption DEF Verifications
  <2> QED BY <1>1, <2>1, <2>2 DEF TablesType, Verifications
<1> QED BY <1>2, <1>4, <1>5, <1>6 DEF BackofficeTypeOK, BoundsType, LocalType, TablesType, OutType

\* The tables and local variables keep their shapes: attempts, conflicts and files
\* are counted within their limits, and a table refers only to rows there may be.
THEOREM BackofficeTypeCorrect == BackofficeSpec => []BackofficeTypeOK
<1>1. Shape /\ RowsInv /\ OrdersInv /\ MediaInv /\ BackofficeTypeOK /\ [BackofficeNext]_backofficeVars
        => BackofficeTypeOK'
  <2> SUFFICES ASSUME Shape, RowsInv, OrdersInv, MediaInv, BackofficeTypeOK, [BackofficeNext]_backofficeVars
               PROVE  BackofficeTypeOK'
    OBVIOUS
  <2>1. CASE Crash
    <3>1. UNCHANGED <<job, local, db, out, faults>> /\ crashes < MaxCrashes /\ crashes' = crashes + 1
      BY <2>1 DEF Crash
    <3>2. crashes' \in 0..MaxCrashes BY <3>1, BoundsAssumption DEF BackofficeTypeOK
    <3> QED BY <3>1, <3>2 DEF BackofficeTypeOK, Logins, Challenges, Verifications
  <2>2. CASE UNCHANGED backofficeVars
    BY <2>2 DEF backofficeVars, BackofficeTypeOK, Logins, Challenges, Verifications
  <2>3. ASSUME NEW c \in Calls, CallStep(c) \/ CallTrouble(c) PROVE BackofficeTypeOK'
    BY <2>3, TypeOrder, TypeLifecycle, TypePayout, TypeVerification
    DEF CallStep, CallTrouble, OrdersInv, MediaInv
  <2> QED BY <2>1, <2>2, <2>3 DEF BackofficeNext
<1>2. Shape /\ RowsInv /\ MediaInv /\ [BackofficeNext]_backofficeVars => MediaInv' BY MediaStep
<1> QED BY <1>1, <1>2, TypeInit, MediaInit, OrdersAlways, RowsAlways, PTL DEF BackofficeSpec
=============================================================================
