-------------------------------- MODULE Payouts --------------------------------
(***************************************************************************)
(* withdrawals.service.ts.  Approving a withdrawal makes a broker account, *)
(* a challenge in the first phase and a certificate, mails the credentials *)
(* and only then saves the withdrawal; rejecting it only saves.            *)
(* TypeORM's save writes a row that was removed meanwhile again.           *)
(***************************************************************************)
EXTENDS BackofficeTables

CONSTANT Withdrawn   \* the challenge the withdrawals are from

ASSUME WithdrawnAssumption == Withdrawn \in Given

StatusChange == {"approveWithdrawal", "rejectWithdrawal"}
Decision(c) == IF job[c].op = "approveWithdrawal" THEN "approved" ELSE "rejected"

\* create: a request is pending; neither the balance nor the challenge is looked at.
CreateWithdrawal(c) ==
  /\ At(c, {"withdraw"}, "start")
  /\ db' = [db EXCEPT !.withdrawal[c] = "pending"]
  /\ Goto(c, "ok")
  /\ Keep(<<local, out>>)

\* findOne, of updateWithdrawalStatus, update and remove.
FindWithdrawal(c) ==
  /\ At(c, StatusChange \cup {"updateWithdrawal", "patchApproved", "removeWithdrawal"}, "start")
  /\ local' = [local EXCEPT ![c].read = db.withdrawal[On(c)]]
  /\ Goto(c, IF db.withdrawal[On(c)] = "none" THEN "error"
             ELSE IF job[c].op = "approveWithdrawal" THEN "refind" ELSE "save")
  /\ Keep(<<db, out>>)

\* handleWithdrawalApproval reads it again with its challenge and relation; the
\* status it had is not looked at.
handleWithdrawalApproval(c) ==
  /\ At(c, {"approveWithdrawal"}, "refind")
  /\ Goto(c, IF db.withdrawal[On(c)] = "none" THEN "error" ELSE "row")
  /\ Keep(<<local, db, out>>)

PayoutAccount(c) == job[c].op = "approveWithdrawal" /\ SaveAccountRow(c, "row", "challenge")

PayoutChallenge(c) ==
  /\ At(c, {"approveWithdrawal"}, "challenge")
  /\ db' = [db EXCEPT !.challenge[c] = NewChallenge(db.challenge[Withdrawn].user, 1, Withdrawn, TRUE)]
  /\ Goto(c, "certificate")
  /\ Keep(<<local, out>>)

PayoutCertificate(c) ==
  job[c].op = "approveWithdrawal" /\ SaveCertificate(c, "certificate", Withdrawn, "mail")

\* Mutant of MailPayout: an error of the mailer is only logged.
MailPayoutLogged(c) ==
  /\ At(c, {"approveWithdrawal"}, "mail")
  /\ Mailed(c, "payout") \/ UNCHANGED out
  /\ Goto(c, "save")
  /\ Keep(<<local, db>>)

MailPayout(c) == job[c].op = "approveWithdrawal" /\ SendMail(c, "mail", "payout", "save")

updateWithdrawalStatus(c) ==
  /\ At(c, StatusChange, "save")
  /\ db' = [db EXCEPT !.withdrawal[On(c)] = Decision(c)]
  /\ Goto(c, "ok")
  /\ Keep(<<local, out>>)

\* update saves the whole row it read, with the status it is given, if any.
UpdateWithdrawal(c) ==
  /\ At(c, {"updateWithdrawal", "patchApproved"}, "save")
  /\ db' = [db EXCEPT !.withdrawal[On(c)] =
              IF job[c].op = "patchApproved" THEN "approved" ELSE local[c].read]
  /\ Goto(c, "ok")
  /\ Keep(<<local, out>>)

RemoveWithdrawal(c) ==
  /\ At(c, {"removeWithdrawal"}, "save")
  /\ db' = [db EXCEPT !.withdrawal[On(c)] = "none"]
  /\ Goto(c, "ok")
  /\ Keep(<<local, out>>)

PayoutOps == StatusChange \cup {"withdraw", "updateWithdrawal", "patchApproved", "removeWithdrawal"}

PayoutStep(c) ==
  \/ CreateWithdrawal(c) \/ FindWithdrawal(c) \/ handleWithdrawalApproval(c) \/ PayoutAccount(c)
  \/ PayoutChallenge(c) \/ PayoutCertificate(c) \/ MailPayout(c) \/ updateWithdrawalStatus(c)
  \/ UpdateWithdrawal(c) \/ RemoveWithdrawal(c)

PayoutFault(c) == job[c].op \in PayoutOps /\ Fault(c)

\* A withdrawal that is approved, and that nobody patched so, was paid: one of the
\* approvals left an account, a challenge and a certificate and mailed them, also
\* when rejections, saves of a row read before, failures or a crash come between.
ApprovedIsPaid ==
  \A w \in Withdrawals :
    db.withdrawal[w] = "approved" /\ (\A c \in Calls : job[c] # [op |-> "patchApproved", on |-> w]) =>
      \E c \in Calls : /\ job[c] = [op |-> "approveWithdrawal", on |-> w]
                       /\ IsRow(c) /\ HasAccountRow(c)
                       /\ <<Withdrawn, c>> \in db.certificates /\ <<c, "payout">> \in out.mails
=============================================================================
