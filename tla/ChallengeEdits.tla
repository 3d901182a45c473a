---------------------------- MODULE ChallengeEdits ----------------------------
(***************************************************************************)
(* The handlers of ChallengesService that read a row, change it and save   *)
(* it later.  save writes every column that differs from the row as it is  *)
(* then, so a column somebody else wrote in between goes back to what was  *)
(* read.                                                                   *)
(***************************************************************************)
EXTENDS AccountSources

VARIABLE edit   \* at: what has been read, of login; row: what it said

EditTypeOK ==
  /\ edit \in [at : {"idle", "details", "challenge"}, login : Logins \cup {NoAccount}, row : Row]
  /\ edit.at # "idle" => edit.login \in Logins

EditIdle == [at |-> "idle", login |-> NoAccount, row |-> NewRow(FALSE)]

\* updateChallengeDetails or upsertChallengeDetails: the details are looked up.
EditDetails(l) ==
  /\ edit.at = "idle"
  /\ db[l].config < MaxConfig
  /\ edit' = [at |-> "details", login |-> l, row |-> db[l]]
  /\ UNCHANGED <<bufferVars, sourceVars>>

\* They are saved with new rulesParams and lastUpdate.  If there were none, only
\* upsertChallengeDetails gets here, and makes them without positions.
SaveDetails ==
  /\ edit.at = "details"
  /\ db' = [db EXCEPT ![edit.login] =
              [@ EXCEPT !.details = TRUE, !.config = edit.row.config + 1,
                        !.open = edit.row.open, !.closed = edit.row.closed,
                        !.stats = edit.row.stats, !.time = market[edit.login]]]
  /\ edit' = EditIdle
  /\ UNCHANGED <<bufferVars, market>>

\* update, setApprovedChallenge, setDisapprovedChallenge: the challenge is read.
EditChallenge(l) ==
  /\ edit.at = "idle"
  /\ edit' = [at |-> "challenge", login |-> l, row |-> db[l]]
  /\ UNCHANGED <<bufferVars, sourceVars>>

\* It is saved: inactive when it was approved or disapproved; update writes the
\* isActive it is given, and true if it is given none.
SaveChallenge ==
  /\ edit.at = "challenge"
  /\ \E active \in BOOLEAN :
       db' = [db EXCEPT ![edit.login] =
                [@ EXCEPT !.active = active, !.dynamic = edit.row.dynamic]]
  /\ edit' = EditIdle
  /\ UNCHANGED <<bufferVars, market>>

\* The database, or what a handler does in between, fails.
EditFails ==
  /\ edit.at # "idle"
  /\ edit' = EditIdle
  /\ UNCHANGED <<bufferVars, sourceVars>>
=============================================================================
