-------------------------- MODULE ChallengeLifecycle --------------------------
(***************************************************************************)
(* setApprovedChallenge and setDisapprovedChallenge of                     *)
(* challenges.service.ts.  The challenge and the one of the next phase are *)
(* written in a transaction; the verification, the broker account, the     *)
(* certificate and the mails are not.                                      *)
(***************************************************************************)
EXTENDS BackofficeTables

Approval(c, p) == At(c, {"approve"}, p)
Disapproval(c, p) == At(c, {"disapprove"}, p)

Phase(c) == db.challenge[On(c)].phase
Owner(c) == db.challenge[On(c)].user
isFinalPhase(c) == Phase(c) = Phases
\* Mutant of isBeforeFinalPhase: numPhase, which counts from one, taken for an index.
isLastPhase(c) == Phase(c) = Phases
isBeforeFinalPhase(c) == Phase(c) = Phases - 1

\* The transaction begins, the challenge and its relation chain are read.
\* Neither its phase nor its user ever change.
BeginApproval(c) ==
  /\ Approval(c, "start")
  /\ IF IsRow(On(c)) THEN Goto(c, IF isFinalPhase(c) THEN "commit" ELSE "buffer") ELSE Goto(c, "error")
  /\ Keep(<<local, db, out>>)

\* upsertAccount is given null for the function it calls: the TypeError is
\* logged and the account stays in the buffer.
LeaveBuffer(c) ==
  /\ At(c, {"approve", "disapprove"}, "buffer")
  /\ Goto(c, IF job[c].op = "disapprove" THEN "mail" ELSE IF isBeforeFinalPhase(c) THEN "user" ELSE "row")
  /\ Keep(<<local, db, out>>)

ReadUser(c) ==
  /\ Approval(c, "user")
  /\ Goto(c, IF Owner(c) \in db.verified THEN "row" ELSE "find")
  /\ Keep(<<local, db, out>>)

findByUserId(c) ==
  /\ Approval(c, "find")
  /\ Goto(c, IF \E v \in Verifications : db.verification[v].user = Owner(c) THEN "mailVerify"
             ELSE "verification")
  /\ Keep(<<local, db, out>>)

RequireVerification(c) ==
  /\ Approval(c, "verification")
  /\ db' = [db EXCEPT !.verification[c] = [user |-> Owner(c), status |-> "pending"]]
  /\ Goto(c, "mailVerify")
  /\ Keep(<<local, out>>)

MailVerify(c) == job[c].op = "approve" /\ SendMail(c, "mailVerify", "verify", "pendingRow")

PendingAccount(c) == job[c].op = "approve" /\ SaveAccountRow(c, "pendingRow", "pendingChild")
NextAccount(c) == job[c].op = "approve" /\ SaveAccountRow(c, "row", "child")

\* Mutant of NextChallenge: saved outside the transaction.
NextChallengeAtOnce(c) ==
  /\ job[c].op = "approve" /\ pc[c] \in {"pendingChild", "child"}
  /\ local' = [local EXCEPT ![c].child = TRUE, ![c].read = IF pc[c] = "child" THEN "active" ELSE "inactive"]
  /\ db' = [db EXCEPT !.challenge[c] = NewChallenge(Owner(c), Phase(c) + 1, On(c), pc[c] = "child")]
  /\ Goto(c, IF pc[c] = "child" THEN "mail" ELSE "certificate")
  /\ Keep(<<out>>)

\* In the transaction: seen by others when it commits.
NextChallenge(c) ==
  /\ job[c].op = "approve" /\ pc[c] \in {"pendingChild", "child"}
  /\ local' = [local EXCEPT ![c].child = TRUE, ![c].read = IF pc[c] = "child" THEN "active" ELSE "inactive"]
  /\ Goto(c, IF pc[c] = "child" THEN "mail" ELSE "certificate")
  /\ Keep(<<db, out>>)

MailPhase(c) == job[c].op = "approve" /\ SendMail(c, "mail", "challenge", "certificate")
PhaseCertificate(c) == job[c].op = "approve" /\ SaveCertificate(c, "certificate", On(c), "commit")

\* The challenge is saved and the transaction commits.
CommitApproval(c) ==
  /\ Approval(c, "commit")
  /\ db' = [db EXCEPT
       !.challenge = [i \in Challenges |->
         IF i = On(c) THEN [@[i] EXCEPT !.status = "approved", !.active = FALSE]
         ELSE IF i = c /\ local[c].child
              THEN NewChallenge(Owner(c), Phase(c) + 1, On(c), local[c].read = "active")
         ELSE @[i]]]
  /\ Goto(c, "ok")
  /\ Keep(<<local, out>>)

BeginDisapproval(c) ==
  /\ Disapproval(c, "start")
  /\ Goto(c, IF IsRow(On(c)) THEN "buffer" ELSE "error")
  /\ Keep(<<local, db, out>>)

MailDisapproval(c) == job[c].op = "disapprove" /\ SendMail(c, "mail", "disapproved", "commit")

CommitDisapproval(c) ==
  /\ Disapproval(c, "commit")
  /\ db' = [db EXCEPT !.challenge[On(c)].status = "disapproved", !.challenge[On(c)].active = FALSE]
  /\ Goto(c, "ok")
  /\ Keep(<<local, out>>)

\* users.service.ts update, by which an administrator sets isVerified.
VerifyUser(c) ==
  /\ At(c, {"verifyUser"}, "start")
  /\ db' = [db EXCEPT !.verified = @ \cup {On(c)}]
  /\ Goto(c, "ok")
  /\ Keep(<<local, out>>)

LifecycleFault(c) ==
  job[c].op \in {"approve", "disapprove", "verifyUser"} /\ pc[c] # "buffer" /\ Fault(c)

LifecycleStep(c) ==
  \/ BeginApproval(c) \/ LeaveBuffer(c) \/ ReadUser(c) \/ findByUserId(c) \/ RequireVerification(c)
  \/ MailVerify(c) \/ PendingAccount(c) \/ NextAccount(c) \/ NextChallenge(c) \/ MailPhase(c)
  \/ PhaseCertificate(c) \/ CommitApproval(c) \/ BeginDisapproval(c) \/ MailDisapproval(c)
  \/ CommitDisapproval(c) \/ VerifyUser(c)

\* The challenge of the next phase and the approval come together or not at all:
\* an approval that fails, or dies with the process, leaves no challenge behind,
\* one that is answered for a phase before the last leaves the next phase, of the
\* same user, with an account and a certificate.
NextPhaseWithApproval ==
  \A c \in {d \in Calls : job[d].op = "approve"} :
    /\ IsRow(c) <=> pc[c] = "ok" /\ ~isFinalPhase(c)
    /\ IsRow(c) =>
         /\ db.challenge[c].parent = On(c) /\ db.challenge[c].phase = Phase(c) + 1
         /\ db.challenge[c].user = Owner(c)
         /\ HasAccountRow(c) /\ <<On(c), c>> \in db.certificates
         /\ db.challenge[On(c)].status # "initial" /\ ~db.challenge[On(c)].active

\* The last phase is open only to users who are verified, also when the
\* verification comes while the approval is running.
LastPhaseOnlyVerified ==
  \A c \in {d \in Calls : job[d].op = "approve"} :
    IsRow(c) /\ db.challenge[c].phase = Phases /\ db.challenge[c].active =>
      db.challenge[c].user \in db.verified

\* "Remover cuenta del buffer si existe": an approval before the last phase takes
\* the account of the challenge out of the buffer.
ApprovedLeavesBuffer ==
  \A c \in Calls : job[c].op = "approve" /\ pc[c] = "ok" /\ ~isFinalPhase(c) => On(c) \notin out.buffer
=============================================================================
