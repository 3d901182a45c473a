---------------------------- MODULE DataExtractor ----------------------------
(***************************************************************************)
(* BufferDataUpdaterJob, BrokeretDataExtractorJob and processAllParallel:  *)
(* twice a minute every buffered account is refreshed from the broker.  A  *)
(* run does not wait for the previous one to end.                          *)
(***************************************************************************)
EXTENDS AccountSources

CONSTANTS
  Extractions,     \* extraction runs that may be in progress at once
  MaxConcurrency   \* accounts of one run processed in parallel

VARIABLE extraction
  \* todo: entries whose batch has not started; task[l]: what the processor of l
  \* is doing; acc[l]: its snapshot, then the account it is going to write

Stages == {"none", "calling", "writing"}

ExtractionTypeOK ==
  extraction \in [Extractions -> [todo : SUBSET Logins,
                                  task : [Logins -> Stages],
                                  acc  : [Logins -> Account \cup {NoAccount}]]]

\* A processor at work has an account to write, and nobody else does.
TaskHasAccount ==
  \A r \in Extractions, l \in Logins :
    (extraction[r].task[l] # "none") <=> (extraction[r].acc[l] # NoAccount)

ExtractionIdle == [todo |-> {}, task |-> [l \in Logins |-> "none"], acc |-> NoRefs]

Busy(r) == {l \in Logins : extraction[r].task[l] # "none"}

\* entries.slice(i, i + maxConcurrency): the entries of a batch are in Map
\* order, here in any order.
Batches(entries) ==
  {b \in SUBSET entries : \/ Cardinality(b) = MaxConcurrency
                          \/ b = entries /\ Cardinality(b) < MaxConcurrency}

\* The processors of the batch start: each takes a snapshot of the object it
\* was given and calls the API.
Launch(r, b, rest, object) ==
  extraction' = [extraction EXCEPT ![r] =
    [todo |-> rest,
     task |-> [l \in Logins |-> IF l \in b THEN "calling" ELSE "none"],
     acc  |-> [l \in Logins |-> IF l \in b THEN object[l] ELSE NoAccount]]]

\* The cron fires: the entries are listed once and the first batch starts.
ExtractionStart(r) ==
  /\ extraction[r] = ExtractionIdle
  /\ Buffered # {}
  /\ \E b \in Batches(Buffered) :
       /\ Launch(r, b, Buffered \ b, buffer)
       /\ held' = [held EXCEPT ![r] =
                     [l \in Logins |-> IF l \in Buffered \ b THEN Live ELSE NoAccount]]
  /\ UNCHANGED <<buffer, locked, sourceVars>>

\* Promise.all of the batch is settled: the next one starts, from the objects
\* that were listed when the run began.
ExtractionNextBatch(r) ==
  /\ Busy(r) = {}
  /\ extraction[r].todo # {}
  /\ \E b \in Batches(extraction[r].todo) :
       /\ Launch(r, b, extraction[r].todo \ b, [l \in Logins |-> Seen(r, l)])
       /\ held' = [held EXCEPT ![r] = [l \in Logins |-> IF l \in b THEN NoAccount ELSE @[l]]]
  /\ UNCHANGED <<buffer, locked, sourceVars>>

\* Mutant of mapBrokeretDataToAccount: without rule 2.2.
mapWithoutRule22(snapshot, version, n, missing) ==
  LET account == [snapshot EXCEPT !.bal = version, !.time = version] IN
  IF missing THEN account
  ELSE [account EXCEPT !.open = version, !.closed = n, !.stats = version]

\* mapBrokeretDataToAccount on the snapshot, for an answer of some version that
\* lists n closed positions.  missing: it has no open position, although the
\* snapshot has one that is not among the closed ones either; then positions
\* and metrics are left as they were (rule 2.1).  With fewer closed positions
\* than are known, those and the metrics are (rule 2.2).
mapBrokeretDataToAccount(snapshot, version, n, missing) ==
  LET account == [snapshot EXCEPT !.bal = version, !.time = version] IN
  IF missing THEN account
  ELSE IF n < snapshot.closed THEN [account EXCEPT !.open = version]
  ELSE [account EXCEPT !.open = version, !.closed = n, !.stats = version]

\* The API answers with the state of the account at the broker.
ApiAnswers(r, l, n, missing) ==
  /\ extraction[r].task[l] = "calling"
  /\ extraction' = [extraction EXCEPT
       ![r].task[l] = "writing",
       ![r].acc[l] = mapBrokeretDataToAccount(@, market[l], n, missing)]
  /\ UNCHANGED <<bufferVars, sourceVars>>

\* Open and closed positions of the same moment, all of them.
ApiAnswersInFull(r, l) == ApiAnswers(r, l, market[l], FALSE)

\* The calls are separate and look 90 days back: a position can be missing from
\* both lists, and old ones disappear from the closed list.
ApiAnswersInPart(r, l) ==
  \/ extraction[r].acc[l] # NoAccount /\ extraction[r].acc[l].open > 0
       /\ ApiAnswers(r, l, market[l], TRUE)
  \/ ApiAnswers(r, l, market[l] - 1, FALSE)

\* It fails: the run goes on with the snapshot.
ApiFails(r, l) ==
  /\ extraction[r].task[l] = "calling"
  /\ extraction' = [extraction EXCEPT ![r].task[l] = "writing"]
  /\ UNCHANGED <<bufferVars, sourceVars>>

\* Mutant of ExtractionWrite: the account stays with the task that has ended.
ExtractionWriteKeeps(r, l) ==
  /\ extraction[r].task[l] = "writing"
  /\ Free(l)
  /\ Replace(l, extraction[r].acc[l])
  /\ extraction' = [extraction EXCEPT ![r].task[l] = "none"]
  /\ UNCHANGED <<locked, sourceVars>>

\* Mutant of ExtractionWrite: provider.set without withLock.
ExtractionWriteUnlocked(r, l) ==
  /\ extraction[r].task[l] = "writing"
  /\ Replace(l, extraction[r].acc[l])
  /\ extraction' = [extraction EXCEPT ![r].task[l] = "none", ![r].acc[l] = NoAccount]
  /\ UNCHANGED <<locked, sourceVars>>

\* upsertAccount(login, prev => updatedAccount): prev is not looked at.
ExtractionWrite(r, l) ==
  /\ extraction[r].task[l] = "writing"
  /\ Free(l)
  /\ Replace(l, extraction[r].acc[l])
  /\ extraction' = [extraction EXCEPT ![r].task[l] = "none", ![r].acc[l] = NoAccount]
  /\ UNCHANGED <<locked, sourceVars>>

ExtractionNext ==
  \E r \in Extractions :
    \/ ExtractionStart(r)
    \/ ExtractionNextBatch(r)
    \/ \E l \in Logins :
         \/ ApiAnswersInFull(r, l) \/ ApiAnswersInPart(r, l) \/ ApiFails(r, l)
         \/ ExtractionWrite(r, l)
=============================================================================
