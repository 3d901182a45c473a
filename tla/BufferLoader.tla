---------------------------- MODULE BufferLoader ----------------------------
(***************************************************************************)
(* BufferLoaderJob: fills the buffer from the active challenges when the   *)
(* process starts and every hour.                                          *)
(***************************************************************************)
EXTENDS AccountSources

VARIABLE loader   \* at: where loadAccountsToBuffer stands; rows: mapped accounts

LoaderTypeOK ==
  loader \in [at : {"idle", "relations", "upserting"},
              rows : [Logins -> Account \cup {NoAccount}]]

LoaderIdle == [at |-> "idle", rows |-> NoRefs]

\* mapChallengeToAccount: the balance is the dynamicBalance (or the initial
\* one), positions and metrics are those of the details row.  Without a details
\* row it throws, and mapChallengesToAccounts drops the challenge.
mapChallengeToAccount(row) ==
  IF ~row.active \/ ~row.details THEN NoAccount
  ELSE [conf |-> row.config, bal |-> row.dynamic, daily |-> row.dynamic,
        open |-> row.open, closed |-> row.closed, stats |-> row.stats,
        time |-> row.time, hash |-> 0]

\* challengeRepository.find: rows and details are read here.
LoaderFind ==
  /\ loader.at = "idle"
  /\ loader' = [at |-> "relations",
                rows |-> [l \in Logins |-> mapChallengeToAccount(db[l])]]
  /\ UNCHANGED <<bufferVars, sourceVars>>

\* findCompleteRelationChain answered for every challenge.
LoaderRelations ==
  /\ loader.at = "relations"
  /\ loader' = [loader EXCEPT !.at = "upserting"]
  /\ UNCHANGED <<bufferVars, sourceVars>>

\* It failed for one of them: nothing is loaded.
LoaderFails ==
  /\ loader.at = "relations"
  /\ loader' = LoaderIdle
  /\ UNCHANGED <<bufferVars, sourceVars>>

\* Mutant of LoaderUpsert: an account that is already there is left as it is.
LoaderUpsertNew(l) ==
  /\ loader.at = "upserting"
  /\ loader.rows[l] # NoAccount
  /\ Free(l)
  /\ IF buffer[l] # NoAccount THEN UNCHANGED <<buffer, held>> ELSE Replace(l, loader.rows[l])
  /\ loader' = [loader EXCEPT !.rows[l] = NoAccount]
  /\ UNCHANGED <<locked, sourceVars>>

\* upsertAccount for one mapped account: an account that is already there only
\* gets the configuration and the lastUpdate of the row, on the object itself.
LoaderUpsert(l) ==
  /\ loader.at = "upserting"
  /\ loader.rows[l] # NoAccount
  /\ Free(l)
  /\ IF buffer[l] # NoAccount
     THEN ChangeInPlace(l, [buffer[l] EXCEPT !.conf = loader.rows[l].conf,
                                              !.time = loader.rows[l].time])
     ELSE Replace(l, loader.rows[l])
  /\ loader' = [loader EXCEPT !.rows[l] = NoAccount]
  /\ UNCHANGED <<locked, sourceVars>>

LoaderDone ==
  /\ loader.at = "upserting"
  /\ loader.rows = NoRefs
  /\ loader' = LoaderIdle
  /\ UNCHANGED <<bufferVars, sourceVars>>

LoaderNext ==
  \/ LoaderFind \/ LoaderRelations \/ LoaderFails \/ LoaderDone
  \/ \E l \in Logins : LoaderUpsert(l)
=============================================================================
