---------------------------- MODULE DailyBalance ----------------------------
(***************************************************************************)
(* UpdateDailyBalanceJob: once a day the balance of every buffered account *)
(* becomes its dailyBalance and the dynamicBalance of its challenge.  The  *)
(* only code that awaits inside a withLock callback.                       *)
(***************************************************************************)
EXTENDS AccountSources

CONSTANT DailyHolder   \* the job, as a holder of references

VARIABLE dailyJob
  \* at: "loop" between accounts, else the await it stands at for login;
  \* todo: accounts left; balance: currentBalance of login when it was locked

DailyTypeOK ==
  /\ dailyJob \in [at : {"idle", "loop", "query", "update", "write"},
                   todo : SUBSET Logins,
                   login : Logins \cup {NoAccount},
                   balance : Nat]

DailyIdle == [at |-> "idle", todo |-> {}, login |-> NoAccount, balance |-> 0]

InDailyLock == dailyJob.at \in {"query", "update", "write"}

\* The cron fires and lists the buffered accounts.
DailyStart ==
  /\ dailyJob.at = "idle"
  /\ Buffered # {}
  /\ dailyJob' = [DailyIdle EXCEPT !.at = "loop", !.todo = Buffered]
  /\ UNCHANGED <<bufferVars, sourceVars>>

\* withLock(login): take the account and its balance, ask for the challenge.
DailyLock(l) ==
  /\ dailyJob.at = "loop"
  /\ l \in dailyJob.todo
  /\ Free(l)
  /\ IF buffer[l] = NoAccount
     THEN /\ dailyJob' = [dailyJob EXCEPT !.todo = @ \ {l}]
          /\ UNCHANGED <<locked, held>>
     ELSE /\ dailyJob' = [at |-> "query", todo |-> dailyJob.todo \ {l},
                          login |-> l, balance |-> buffer[l].bal]
          /\ locked' = [locked EXCEPT ![l] = TRUE]
          /\ held' = [held EXCEPT ![DailyHolder][l] = Live]
  /\ UNCHANGED <<buffer, sourceVars>>

\* The callback ends, on any path: the lock is released.
DailyLeave ==
  /\ dailyJob' = [dailyJob EXCEPT !.at = "loop", !.login = NoAccount, !.balance = 0]
  /\ locked' = [locked EXCEPT ![dailyJob.login] = FALSE]

\* The challenge is there: update its row.
DailyFound ==
  /\ dailyJob.at = "query"
  /\ db[dailyJob.login].active
  /\ dailyJob' = [dailyJob EXCEPT !.at = "update"]
  /\ UNCHANGED <<bufferVars, sourceVars>>

\* The row is updated.
DailyUpdated ==
  /\ dailyJob.at = "update"
  /\ db' = [db EXCEPT ![dailyJob.login].dynamic = dailyJob.balance]
  /\ dailyJob' = [dailyJob EXCEPT !.at = "write"]
  /\ UNCHANGED <<bufferVars, market>>

\* Mutant of DailySkip: the early return does not release the lock.
DailySkipLocked ==
  /\ dailyJob.at \in {"query", "update"}
  /\ dailyJob' = [dailyJob EXCEPT !.at = "loop", !.login = NoAccount, !.balance = 0]
  /\ held' = [held EXCEPT ![DailyHolder] = NoRefs]
  /\ UNCHANGED <<buffer, locked, sourceVars>>

\* No active challenge, or the database failed: skip the account.
DailySkip ==
  /\ dailyJob.at \in {"query", "update"}
  /\ DailyLeave
  /\ held' = [held EXCEPT ![DailyHolder] = NoRefs]
  /\ UNCHANGED <<buffer, sourceVars>>

\* Set dailyBalance on the object that was taken when the lock was.
DailyWrite ==
  LET l == dailyJob.login IN
  /\ dailyJob.at = "write"
  /\ buffer' = IF held[DailyHolder][l] = Live
               THEN [buffer EXCEPT ![l].daily = dailyJob.balance]
               ELSE buffer
  /\ held' = [held EXCEPT ![DailyHolder] = NoRefs]
  /\ DailyLeave
  /\ UNCHANGED sourceVars

DailyDone ==
  /\ dailyJob.at = "loop"
  /\ dailyJob.todo = {}
  /\ dailyJob' = DailyIdle
  /\ UNCHANGED <<bufferVars, sourceVars>>

DailyNext ==
  \/ DailyStart \/ DailyFound \/ DailyUpdated \/ DailySkip \/ DailyWrite \/ DailyDone
  \/ \E l \in Logins : DailyLock(l)
=============================================================================
