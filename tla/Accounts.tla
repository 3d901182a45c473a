------------------------------- MODULE Accounts -------------------------------
(***************************************************************************)
(* auth.service.ts and what users.service.ts and roles.service.ts do to a  *)
(* user's row: registration, confirmation, passwords and their reset.      *)
(* A token or password made by a call is named after it.                   *)
(***************************************************************************)
EXTENDS Requests

IsUser(e) == tab.user[e] # NoUser
Registered == {e \in DOMAIN tab.user : IsUser(e)}
SetUser(e, row) == tab' = [tab EXCEPT !.user[e] = row]

\* Calls that save the whole row they read before.
RowSavers == {"updateProfile", "assignRole", "googleLink"}

\* Calls about a user, and calls about what an earlier call mailed.
UserOps == RowSavers \cup {"register", "googleAuth", "resendConfirmationEmail", "requestPasswordReset",
                           "changePassword"}
TokenOps == {"confirmEmail", "completePasswordReset"}

\* register looks for the e-mail and the user name, counts the users ...
FindDuplicate(c) ==
  /\ Asks(c, {"register"}, "start")
  /\ To(c, IF IsUser(Target(c)) THEN "error" ELSE "count")
  /\ UNCHANGED <<tab, failures>>

\* Mutant of CountUsers: off by one.
CountAtMostOne(c) ==
  /\ Asks(c, {"register"}, "count")
  /\ ToWith(c, "save", [req[c] EXCEPT !.row =
       [NoUser EXCEPT !.role = IF Cardinality(Registered) <= 1 THEN "admin" ELSE "user", !.password = c]])
  /\ UNCHANGED <<tab, failures>>

CountUsers(c) ==
  /\ Asks(c, {"register"}, "count")
  /\ ToWith(c, "save", [req[c] EXCEPT !.row =
       [NoUser EXCEPT !.role = IF Registered = {} THEN "admin" ELSE "user", !.password = c]])
  /\ UNCHANGED <<tab, failures>>

\* ... and saves the row; both keys are unique in the database.
SaveUser(c) ==
  /\ Asks(c, {"register", "googleAuth"}, "save")
  /\ IF IsUser(Target(c)) THEN To(c, "error") /\ UNCHANGED tab
     ELSE SetUser(Target(c), req[c].row) /\ To(c, IF req[c].op = "register" THEN "token" ELSE "ok")
  /\ UNCHANGED failures

\* The confirmation token, of a registration or sent again; then the mail.
StoreConfirmationToken(c) ==
  /\ Asks(c, {"register", "resendConfirmationEmail"}, "token")
  /\ tab' = [tab EXCEPT !.user[Target(c)].token = c]
  /\ To(c, "mail")
  /\ UNCHANGED failures

MailLink(c) ==
  /\ Asks(c, {"register", "resendConfirmationEmail", "requestPasswordReset"}, "mail")
  /\ tab' = [tab EXCEPT !.mailed = @ \cup {c}]
  /\ To(c, "ok")
  /\ UNCHANGED failures

resendConfirmationEmail(c) ==
  /\ Asks(c, {"resendConfirmationEmail"}, "start")
  /\ To(c, IF IsUser(Target(c)) /\ ~tab.user[Target(c)].confirmed THEN "token" ELSE "error")
  /\ UNCHANGED <<tab, failures>>

\* confirmEmail finds the user by the token that was mailed ...
FindByConfirmationToken(c) ==
  /\ Asks(c, {"confirmEmail"}, "start") /\ Target(c) \in tab.mailed
  /\ LET found == {e \in DOMAIN tab.user : tab.user[e].token = Target(c)} IN
       IF found = {} THEN To(c, "error") ELSE ToWith(c, "update", [req[c] EXCEPT !.todo = found])
  /\ UNCHANGED <<tab, failures>>

\* Mutant of confirmEmail: the token is left.
confirmKeepingToken(c) ==
  /\ Asks(c, {"confirmEmail"}, "update")
  /\ \E e \in req[c].todo : SetUser(e, [tab.user[e] EXCEPT !.token = "none"])
  /\ To(c, "ok")
  /\ UNCHANGED failures

\* ... and updates two columns.
confirmEmail(c) ==
  /\ Asks(c, {"confirmEmail"}, "update")
  /\ \E e \in req[c].todo :
       SetUser(e, [tab.user[e] EXCEPT !.confirmed = TRUE, !.token = "none"])
  /\ To(c, "ok")
  /\ UNCHANGED failures

\* The row of a request for a reset is saved before the link is mailed.
requestPasswordReset(c) ==
  /\ Asks(c, {"requestPasswordReset"}, "start")
  /\ To(c, IF IsUser(Target(c)) THEN "save" ELSE "error")
  /\ UNCHANGED <<tab, failures>>

SaveReset(c) ==
  /\ Asks(c, {"requestPasswordReset"}, "save")
  /\ tab' = [tab EXCEPT !.reset[c] = [user |-> Target(c), state |-> "live"]]
  /\ To(c, "mail")
  /\ UNCHANGED failures

\* An hour goes by.
ResetExpires(c) ==
  /\ tab.reset[c].state = "live"
  /\ tab' = [tab EXCEPT !.reset[c].state = "expired"]
  /\ UNCHANGED <<req, failures>>

\* completePasswordReset finds the row of the token that was mailed; an expired
\* one is removed and refused.
FindReset(c) ==
  LET state == tab.reset[Target(c)].state IN
  /\ Asks(c, {"completePasswordReset"}, "start") /\ Target(c) \in tab.mailed
  /\ To(c, CASE state = "gone" -> "error" [] state = "expired" -> "drop" [] OTHER -> "update")
  /\ UNCHANGED <<tab, failures>>

\* Then the password is updated and the row of the token removed.
completePasswordReset(c) ==
  /\ Asks(c, {"completePasswordReset"}, "update")
  /\ tab' = [tab EXCEPT !.user[tab.reset[Target(c)].user].password = c]
  /\ To(c, "remove")
  /\ UNCHANGED failures

\* Mutant of RemoveReset: of an expired token only.
RemoveExpired(c) ==
  /\ req[c].op = "completePasswordReset" /\ req[c].pc \in {"drop", "remove"}
  /\ tab' = IF req[c].pc = "drop" THEN [tab EXCEPT !.reset[Target(c)].state = "gone"] ELSE tab
  /\ To(c, IF req[c].pc = "drop" THEN "error" ELSE "ok")
  /\ UNCHANGED failures

RemoveReset(c) ==
  /\ req[c].op = "completePasswordReset" /\ req[c].pc \in {"drop", "remove"}
  /\ tab' = [tab EXCEPT !.reset[Target(c)].state = "gone"]
  /\ To(c, IF req[c].pc = "drop" THEN "error" ELSE "ok")
  /\ UNCHANGED failures

\* changePassword: the current one was compared with the row that was read.
changePassword(c) ==
  /\ \/ /\ Asks(c, {"changePassword"}, "start")
        /\ To(c, IF IsUser(Target(c)) THEN "update" ELSE "error") /\ UNCHANGED tab
     \/ /\ Asks(c, {"changePassword"}, "update")
        /\ tab' = [tab EXCEPT !.user[Target(c)].password = c]
        /\ To(c, "ok")
  /\ UNCHANGED failures

\* updateProfile, users.update, assignRole, removeRole and the link of a Google
\* account read the row, change it and save all of it.
ReadUserRow(c) ==
  /\ Asks(c, RowSavers, "start")
  /\ IF IsUser(Target(c)) THEN ToWith(c, "save", [req[c] EXCEPT !.row = tab.user[Target(c)]])
     ELSE To(c, "error")
  /\ UNCHANGED <<tab, failures>>

SaveUserRow(c) ==
  /\ Asks(c, RowSavers, "save")
  /\ SetUser(Target(c), CASE req[c].op = "assignRole" -> [req[c].row EXCEPT !.role = "support"]
                          [] req[c].op = "googleLink" -> [req[c].row EXCEPT !.google = TRUE]
                          [] OTHER -> req[c].row)
  /\ To(c, "ok")
  /\ UNCHANGED failures

\* googleAuth: a user who is there is linked, else made, confirmed and without a
\* password, under the first user name that is free.
googleAuth(c) ==
  /\ Asks(c, {"googleAuth"}, "start")
  /\ IF IsUser(Target(c))
     THEN req' = [req EXCEPT ![c].op = "googleLink", ![c].row = tab.user[Target(c)],
                             ![c].pc = IF tab.user[Target(c)].google THEN "ok" ELSE "save"]
     ELSE ToWith(c, "save", [req[c] EXCEPT !.row =
            [NoUser EXCEPT !.role = "user", !.confirmed = TRUE, !.google = TRUE]])
  /\ UNCHANGED <<tab, failures>>

AccountStep(c) ==
  \/ FindDuplicate(c) \/ CountUsers(c) \/ SaveUser(c) \/ StoreConfirmationToken(c) \/ MailLink(c)
  \/ resendConfirmationEmail(c) \/ FindByConfirmationToken(c) \/ confirmEmail(c)
  \/ requestPasswordReset(c) \/ SaveReset(c) \/ FindReset(c) \/ completePasswordReset(c)
  \/ RemoveReset(c) \/ changePassword(c) \/ ReadUserRow(c) \/ SaveUserRow(c) \/ googleAuth(c)

\* The first user becomes an administrator, and with him only those whose
\* registration overlapped with his: nobody does who registers after anybody has.
AdminsWereFirst ==
  \A c, d \in Requesters :
    req[c].op = "register" /\ req[d].op = "register" /\ Answered(c) /\ Answered(d) /\ d \in req[c].before
      => tab.user[Target(c)].role # "admin"

\* A reset token changes the password for one call, or for calls that overlapped:
\* not for one that begins after another was answered.
ResetTokenIsSpent ==
  \A c, d \in Requesters :
    c # d /\ req[c].op = "completePasswordReset" /\ req[d].op = "completePasswordReset"
    /\ Target(c) = Target(d) /\ Answered(c) /\ Answered(d) => Overlap(c, d)

SetsPassword(d) == req[d].op \in {"completePasswordReset", "changePassword"}
SavedOver(c) == \E d \in Requesters : req[d].op \in RowSavers /\ Overlap(c, d)

\* An answered confirmation stays, and an answered new password is the user's,
\* until another is set: only a call that overlapped it and saved the row it had
\* read before can undo either.
AnsweredSticks ==
  \A c \in Requesters :
    /\ req[c].op = "confirmEmail" /\ Answered(c) =>
         (\A e \in req[c].todo : tab.user[e].confirmed) \/ SavedOver(c)
    /\ SetsPassword(c) /\ Answered(c) =>
         \/ \E e \in Registered : tab.user[e].password = c
         \/ \E d \in Requesters \ {c} : SetsPassword(d) /\ d \notin req[c].before
         \/ SavedOver(c)
=============================================================================
