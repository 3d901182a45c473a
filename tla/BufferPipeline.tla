--------------------------- MODULE BufferPipeline ---------------------------
(***************************************************************************)
(* The jobs and handlers that share the account buffer, the database and   *)
(* the broker, interleaved at their awaits.                                *)
(***************************************************************************)
EXTENDS BufferLoader, DataExtractor, DailyBalance, SmtIngest, FlushBuffer, ChallengeEdits

CONSTANTS
  Jobs,        \* what runs besides the loader: see AllJobs
  MaxCrashes   \* bound on the crashes of the process

VARIABLE crashes

AllJobs == {"extractor", "daily", "flush", "ingest", "delete", "configure", "deactivate"}

ASSUME JobsAssumption ==
  /\ Jobs \subseteq AllJobs
  /\ Extractions \subseteq Holders
  /\ DailyHolder \in Holders \ Extractions
  /\ MaxConcurrency \in Nat \ {0}
  /\ BATCH_SIZE \in Nat \ {0}
  /\ MAX_CONCURRENT_BATCHES \in Nat \ {0}

jobVars == <<loader, extraction, dailyJob, ingest, flush, edit>>

vars == <<bufferVars, sourceVars, jobVars, crashes>>

TypeOK ==
  /\ BufferTypeOK /\ SourcesTypeOK /\ LoaderTypeOK /\ ExtractionTypeOK
  /\ DailyTypeOK /\ IngestTypeOK /\ FlushTypeOK /\ EditTypeOK
  /\ TaskHasAccount
  /\ crashes \in Nat

JobsInit ==
  /\ loader = LoaderIdle
  /\ extraction = [r \in Extractions |-> ExtractionIdle]
  /\ dailyJob = DailyIdle
  /\ ingest = IngestIdle
  /\ flush = [f \in Flushes |-> FlushIdle]
  /\ edit = EditIdle

Init == BufferInit /\ SourcesInit /\ JobsInit /\ crashes = 0

\* The process dies and starts again; a transaction of the database is done or
\* not.
Crash ==
  /\ crashes < MaxCrashes
  /\ crashes' = crashes + 1
  /\ buffer' = NoRefs
  /\ locked' = [l \in Logins |-> FALSE]
  /\ held' = [h \in Holders |-> NoRefs]
  /\ loader' = LoaderIdle
  /\ extraction' = [r \in Extractions |-> ExtractionIdle]
  /\ dailyJob' = DailyIdle
  /\ ingest' = IngestIdle
  /\ flush' = [f \in Flushes |-> FlushIdle]
  /\ edit' = EditIdle
  /\ UNCHANGED sourceVars

\* Only registered jobs run, and one job at a time takes a step.
LoaderAlone    == UNCHANGED <<extraction, dailyJob, ingest, flush, edit, crashes>>
ExtractorAlone == "extractor" \in Jobs /\ UNCHANGED <<loader, dailyJob, ingest, flush, edit, crashes>>
DailyAlone     == "daily" \in Jobs /\ UNCHANGED <<loader, extraction, ingest, flush, edit, crashes>>
IngestAlone    == "ingest" \in Jobs /\ UNCHANGED <<loader, extraction, dailyJob, flush, edit, crashes>>
FlushAlone     == "flush" \in Jobs /\ UNCHANGED <<loader, extraction, dailyJob, ingest, edit, crashes>>

\* DELETE of an account through the API.
Delete == /\ "delete" \in Jobs
          /\ \E l \in Logins : DeleteAccount(l)
          /\ UNCHANGED <<sourceVars, jobVars, crashes>>

\* Staff edit a challenge.
EditNext ==
  \/ "configure" \in Jobs /\ (SaveDetails \/ \E l \in Logins : EditDetails(l))
  \/ "deactivate" \in Jobs /\ (SaveChallenge \/ \E l \in Logins : EditChallenge(l))
  \/ EditFails

EditAlone == UNCHANGED <<loader, extraction, dailyJob, ingest, flush, crashes>>

\* What happens at the broker.
Environment == /\ \E l \in Logins : Trade(l)
               /\ UNCHANGED <<bufferVars, jobVars, crashes>>

Next ==
  \/ LoaderNext /\ LoaderAlone
  \/ ExtractionNext /\ ExtractorAlone
  \/ DailyNext /\ DailyAlone
  \/ IngestNext /\ IngestAlone
  \/ FlushNext /\ FlushAlone
  \/ EditNext /\ EditAlone
  \/ Delete \/ Environment \/ Crash

Spec == Init /\ [][Next]_vars

-----------------------------------------------------------------------------
(* Fairness.  Node's event loop runs every continuation whose promise is   *)
(* settled, every call to a service settles, and the queue of a mutex is   *)
(* first come first served (BufferMutex), hence SF where a lock is waited  *)
(* for.                                                                    *)

Progress ==
  /\ WF_vars((LoaderRelations \/ LoaderFails \/ LoaderDone) /\ LoaderAlone)
  /\ \A l \in Logins : SF_vars(LoaderUpsert(l) /\ LoaderAlone)
  /\ \A r \in Extractions :
       /\ WF_vars(ExtractionNextBatch(r) /\ ExtractorAlone)
       /\ \A l \in Logins :
            /\ WF_vars((ApiAnswersInFull(r, l) \/ ApiFails(r, l)) /\ ExtractorAlone)
            /\ SF_vars(ExtractionWrite(r, l) /\ ExtractorAlone)
  /\ WF_vars((DailyFound \/ DailyUpdated \/ DailySkip \/ DailyWrite \/ DailyDone) /\ DailyAlone)
  /\ \A l \in Logins : WF_vars(DailyLock(l) /\ DailyAlone)
  /\ \A f \in Flushes :
       /\ WF_vars((\E b \in SUBSET Logins : FlushTakeSlot(f, b)) /\ FlushAlone)
       /\ WF_vars((\E b \in SUBSET Logins :
                     FlushFound(f, b) \/ FlushSaved(f, b) \/ FlushFails(f, b)) /\ FlushAlone)

\* The crons fire again and again.
Crons ==
  /\ WF_vars(LoaderFind /\ LoaderAlone)
  /\ \A r \in Extractions : WF_vars(ExtractionStart(r) /\ ExtractorAlone)
  /\ \A f \in Flushes : WF_vars(FlushStart(f) /\ FlushAlone)

\* Asked again and again, the database and the broker do not fail for ever.
Services ==
  /\ SF_vars(LoaderRelations /\ LoaderAlone)
  /\ \A r \in Extractions, l \in Logins : SF_vars(ApiAnswersInFull(r, l) /\ ExtractorAlone)
  /\ \A f \in Flushes, l \in Logins :
       /\ SF_vars((\E b \in SUBSET Logins : l \in b /\ FlushFound(f, b)) /\ FlushAlone)
       /\ SF_vars((\E b \in SUBSET Logins : l \in b /\ FlushSaved(f, b)) /\ FlushAlone)

ProgressSpec == Spec /\ Progress

FairSpec == Spec /\ Progress /\ Crons /\ Services

-----------------------------------------------------------------------------
(* The daily balance.                                                      *)

\* While the daily job waits for the database inside its callback, the account
\* it took is still the one in the buffer, with the balance it saw: nobody
\* replaces, deletes or refreshes it, although every other job may run then.
DailyHoldsCurrent ==
  InDailyLock =>
    LET l == dailyJob.login IN
    /\ l \in Logins
    /\ locked[l]
    /\ held[DailyHolder][l] = Live
    /\ buffer[l] # NoAccount
    /\ buffer[l].bal = dailyJob.balance

\* Both writes of the job, one await apart, are of the balance the account has
\* when they are made: the dynamicBalance of the challenge and the dailyBalance
\* in the buffer, where the account still is.
RowIsCurrent(l) == buffer[l] # NoAccount /\ db'[l].dynamic = buffer[l].bal

EntryIsCurrent(l) == buffer'[l] # NoAccount /\ buffer'[l].daily = buffer'[l].bal

DailyBalanceIsCurrent ==
  [][/\ DailyUpdated => RowIsCurrent(dailyJob.login)
     /\ DailyWrite => EntryIsCurrent(dailyJob.login)]_vars

-----------------------------------------------------------------------------
(* The trading data.                                                       *)

Trading(a) == [open |-> a.open, closed |-> a.closed, stats |-> a.stats]

MarketData == [l \in Logins |-> [open |-> market[l], closed |-> market[l], stats |-> market[l]]]
BufferData == [l \in Logins |-> IF buffer[l] = NoAccount THEN NoAccount ELSE Trading(buffer[l])]
DiskData == [l \in Logins |-> Trading(db[l])]

Promise == INSTANCE WriteBehind WITH
  Items <- Logins, Absent <- NoAccount,
  source <- MarketData, cached <- BufferData, stored <- DiskData

\* What the promise takes: no pushes, deletions and edits of details, and runs of
\* the extractor, and of the flush, that do not overlap.
RunsApart ==
  /\ Jobs \cap {"ingest", "delete", "configure"} = {}
  /\ \A r, q \in Extractions : r = q
  /\ \A f, g \in Flushes : f = g

\* Positions and metrics then never go back: not in the buffer, whatever the
\* loader, the partial answers of the API and the rules of the mapper do, and not
\* in the database across crashes.
ImplementsWriteBehind == Promise!Spec

-----------------------------------------------------------------------------
(* Batches and slots.                                                      *)

\* Every copied account is in exactly one batch, waiting or at work, and no more
\* batches are at work than there are slots.
FlushPartition ==
  \A f \in Flushes :
    LET batches == flush[f].wait \cup flush[f].query \cup flush[f].save IN
    /\ \A l \in Logins : (flush[f].copy[l] # NoAccount) <=> (\E b \in batches : l \in b)
    /\ \A b, c \in batches : b # c => b \cap c = {}
    /\ Cardinality(flush[f].query \cup flush[f].save) <= MAX_CONCURRENT_BATCHES

-----------------------------------------------------------------------------
(* The inductive invariant behind TypeOK and the daily balance.            *)

\* A live reference refers to something, and so does the one an extraction run
\* keeps to an account it has not started on.
RefsInv ==
  /\ \A h \in Holders, l \in Logins : held[h][l] = Live => buffer[l] # NoAccount
  /\ \A r \in Extractions : \A l \in extraction[r].todo : held[r][l] # NoAccount

\* The batches of a flush are apart, and what they write has been copied.
BatchesInv ==
  \A f \in Flushes :
    /\ flush[f].wait \cap (flush[f].query \cup flush[f].save) = {}
    /\ flush[f].query \cap flush[f].save = {}
    /\ \A b, c \in flush[f].wait \cup flush[f].query \cup flush[f].save :
         b # c => b \cap c = {}
    /\ \A b \in flush[f].wait \cup flush[f].query \cup flush[f].save :
         b # {} /\ \A l \in b : flush[f].copy[l] # NoAccount

Inv == TypeOK /\ RefsInv /\ BatchesInv /\ DailyHoldsCurrent

-----------------------------------------------------------------------------
(* Progress.                                                               *)

\* Every run that has started ends, whatever fails on its way and whoever holds
\* the locks it waits for.
RunsEnd ==
  /\ []<>(loader = LoaderIdle)
  /\ \A r \in Extractions : []<>(extraction[r] = ExtractionIdle)
  /\ []<>(dailyJob = DailyIdle)
  /\ \A f \in Flushes : []<>(flush[f] = FlushIdle)

Loadable(l) == db[l].active /\ db[l].details

\* An active challenge that has its details gets into the buffer, with its
\* latest configuration, after every start of the process and every change.
ActiveAccountsLoaded ==
  \A l \in Logins :
    []<>(Loadable(l) => buffer[l] # NoAccount /\ buffer[l].conf = db[l].config)

\* What happens at the broker ends up in the database, if the API answers in full
\* now and then.
DataReachesDisk ==
  \A l \in Logins : []<>(Loadable(l) => db[l].closed = market[l] /\ db[l].stats = market[l])

-----------------------------------------------------------------------------
(* What the comments of the code say and the code does not do.             *)

\* "Usar la cuenta actual del buffer (prev) como base para evitar condiciones de
\* carrera": the fields the extractor does not own keep what others wrote.
ExtractorKeepsConcurrentWrites ==
  [][\A r \in Extractions, l \in Logins :
       ExtractionWrite(r, l) /\ buffer[l] # NoAccount
         => buffer'[l].conf = buffer[l].conf /\ buffer'[l].daily = buffer[l].daily]_vars

\* "Si ya existen posiciones cerradas y llegan datos vacios, no sobrescribir".
IngestKeepsClosedPositions ==
  [][IngestMerge /\ ingest.empty /\ buffer[ingest.login] # NoAccount
       => buffer'[ingest.login].closed >= buffer[ingest.login].closed]_vars

\* "Mark accounts as clean after successful save": an account that has not
\* changed since it was copied is clean once it is saved.
FlushMarksClean ==
  [][\A f \in Flushes, b \in SUBSET Logins :
       FlushSaved(f, b) =>
         \A l \in b \cap flush[f].found :
           buffer[l] = flush[f].copy[l] => ~isDirty(buffer'[l])]_vars
=============================================================================
