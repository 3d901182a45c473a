------------------------------ MODULE SmtIngest ------------------------------
(***************************************************************************)
(* SmtApiService.ingestAccountData: an account pushed by the SMT bridge.   *)
(* The buffered account is read under the lock, the push is transformed,   *)
(* and the result is merged under the lock, which is another turn of it.   *)
(***************************************************************************)
EXTENDS AccountSources

VARIABLE ingest
  \* known: the buffered account had closed positions when it was read; version,
  \* closed: what the push says; resume: it has balance and open positions; empty:
  \* it says nothing of closed positions

IngestTypeOK ==
  /\ ingest \in [at : {"idle", "merge"}, login : Logins \cup {NoAccount},
                 known : BOOLEAN, version : Nat, closed : Nat, resume : BOOLEAN, empty : BOOLEAN]
  /\ ingest.at = "merge" => ingest.login \in Logins

IngestIdle == [at |-> "idle", login |-> NoAccount, known |-> FALSE, version |-> 0,
               closed |-> 0, resume |-> FALSE, empty |-> FALSE]

\* getAccount, then SmtAccountDataTransformPipe.transform.
IngestRead(l) ==
  /\ ingest.at = "idle"
  /\ Free(l)
  /\ \E c \in {0, market[l]}, open, close \in BOOLEAN :
       ingest' = [at |-> "merge", login |-> l, version |-> market[l], closed |-> c,
                  known |-> buffer[l] # NoAccount /\ buffer[l].closed > 0,
                  resume |-> open, empty |-> c = 0 /\ ~close]
  /\ UNCHANGED <<bufferVars, sourceVars>>

\* Both balances and the open positions are those of the push, if it has them;
\* so are the closed ones, unless it says nothing of them and the account that
\* was read had some.
ingestAccount(prev) ==
  LET pushed(old) == IF ingest.resume THEN ingest.version ELSE old IN
  [prev EXCEPT !.bal = pushed(@), !.daily = pushed(@), !.open = pushed(@),
               !.time = ingest.version,
               !.closed = IF ingest.empty /\ ingest.known THEN @ ELSE ingest.closed]

EmptyAccount ==
  [conf |-> 0, bal |-> 0, daily |-> 0, open |-> 0, closed |-> 0, stats |-> 0,
   time |-> 0, hash |-> 0]

\* ingestAccount: { ...prev, ...accountData }.  The file written afterwards can
\* fail, which the caller is told, but the buffer keeps the merge.
IngestMerge ==
  LET l == ingest.login IN
  /\ ingest.at = "merge"
  /\ Free(l)
  /\ Replace(l, ingestAccount(IF buffer[l] = NoAccount THEN EmptyAccount ELSE buffer[l]))
  /\ ingest' = IngestIdle
  /\ UNCHANGED <<locked, sourceVars>>

IngestNext == IngestMerge \/ \E l \in Logins : IngestRead(l)
=============================================================================
