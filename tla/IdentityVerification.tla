------------------------- MODULE IdentityVerification -------------------------
(***************************************************************************)
(* verification.service.ts: a verification and its files, each uploaded to *)
(* the object store and then recorded as a Media row; the decisions of an  *)
(* administrator and the removal.                                          *)
(***************************************************************************)
EXTENDS BackofficeTables

CONSTANT Files   \* how many files are submitted

ASSUME FilesAssumption == Files \in Nat

IsVerification(v) == db.verification[v] # NoRow

\* Whose a verification is: the one who submitted it, or the user of the
\* challenge whose approval asked for it.
VerificationUser(v) ==
  IF v = FirstVerification THEN Submitter
  ELSE IF job[v].op = "submit" THEN On(v) ELSE db.challenge[On(v)].user

Submission(c, p) == At(c, {"submit"}, p)
Decide == {"approveVerification", "rejectVerification"}

Submit(c) ==
  /\ Submission(c, "start")
  /\ db' = [db EXCEPT !.verification[c] = [user |-> On(c), status |-> "pending"]]
  /\ Goto(c, IF Files = 0 THEN "mail" ELSE "upload")
  /\ Keep(<<local, out>>)

\* Mutant of uploadFile: an error of the object store is only logged.
uploadFileLogged(c) ==
  /\ Submission(c, "upload")
  /\ out' = [out EXCEPT !.files = @ \cup {<<c, local[c].try>>}] \/ UNCHANGED out
  /\ Goto(c, "media")
  /\ Keep(<<local, db>>)

uploadFile(c) ==
  /\ Submission(c, "upload")
  /\ out' = [out EXCEPT !.files = @ \cup {<<c, local[c].try>>}]
  /\ Goto(c, "media")
  /\ Keep(<<local, db>>)

\* The foreign key refuses the files of a verification that was removed.
SaveMedia(c) ==
  /\ Submission(c, "media")
  /\ IF IsVerification(c)
     THEN /\ db' = [db EXCEPT !.media = @ \cup {<<c, local[c].try>>}]
          /\ local' = [local EXCEPT ![c].try = @ + 1]
          /\ Goto(c, IF local[c].try < Files THEN "upload" ELSE "mail")
     ELSE Goto(c, "error") /\ UNCHANGED <<local, db>>
  /\ Keep(<<out>>)

MailSubmitted(c) == job[c].op = "submit" /\ SendMail(c, "mail", "submitted", "ok")

FindVerification(c) ==
  /\ At(c, Decide \cup {"removeVerification"}, "start")
  /\ local' = [local EXCEPT ![c].read = IF IsVerification(On(c)) THEN db.verification[On(c)].status ELSE "none"]
  /\ Goto(c, IF ~IsVerification(On(c)) THEN "error" ELSE IF job[c].op \in Decide THEN "save" ELSE "files")
  /\ Keep(<<db, out>>)

\* update saves the row it read with the new status.
UpdateVerification(c) ==
  LET status == IF job[c].op = "approveVerification" THEN "approved" ELSE "rejected" IN
  /\ At(c, Decide, "save")
  /\ db' = [db EXCEPT !.verification[On(c)] = [user |-> VerificationUser(On(c)), status |-> status]]
  /\ Goto(c, IF local[c].read = status THEN "ok" ELSE "mail")
  /\ Keep(<<local, out>>)

\* Of a change only, and an error of the mailer is logged.
sendVerificationStatusEmail(c) ==
  /\ At(c, Decide, "mail")
  /\ Mailed(c, "decided") \/ UNCHANGED out
  /\ Goto(c, "ok")
  /\ Keep(<<local, db>>)

\* deleteFile is given the last part of the URL, not the name with its folders:
\* the object store has no such object and keeps the file.
DeleteFiles(c) ==
  /\ At(c, {"removeVerification"}, "files")
  /\ Goto(c, "remove")
  /\ Keep(<<local, db, out>>)

\* The foreign key of its Media rows refuses the removal of a verification.
RemoveVerification(c) ==
  /\ At(c, {"removeVerification"}, "remove")
  /\ IF \E m \in db.media : m[1] = On(c) THEN Goto(c, "error") /\ UNCHANGED db
     ELSE db' = [db EXCEPT !.verification[On(c)] = NoRow] /\ Goto(c, "ok")
  /\ Keep(<<local, out>>)

VerificationOps == Decide \cup {"submit", "removeVerification"}

VerificationStep(c) ==
  \/ Submit(c) \/ uploadFile(c) \/ SaveMedia(c) \/ MailSubmitted(c) \/ FindVerification(c)
  \/ UpdateVerification(c) \/ sendVerificationStatusEmail(c) \/ DeleteFiles(c) \/ RemoveVerification(c)

VerificationFault(c) ==
  job[c].op \in VerificationOps /\ ~At(c, Decide, "mail") /\ Fault(c)

\* A Media row has its file in the object store and its verification in the
\* database, whatever fails between the upload and the row or while both are
\* removed by somebody else; and a submission that is answered has all its files.
MediaIsBacked ==
  /\ \A m \in db.media : m \in out.files /\ IsVerification(m[1])
  /\ \A c \in Calls : job[c].op = "submit" /\ pc[c] = "ok" =>
       \A i \in 1..Files : <<c, i>> \in db.media
=============================================================================
