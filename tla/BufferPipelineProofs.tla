------------------------ MODULE BufferPipelineProofs ------------------------
(***************************************************************************)
(* Theorems about BufferPipeline, for any sets of logins and runs and any  *)
(* registered jobs.                                                        *)
(***************************************************************************)
EXTENDS BufferPipeline, FiniteSetTheorems, TLAPS

\* Putting another object in the place of an account whose lock is free leaves
\* what the daily job relies on as it is.
LEMMA ReplaceStep ==
  ASSUME Inv, NEW l \in Logins, NEW a \in Account \cup {NoAccount}, ~locked[l], Replace(l, a),
         UNCHANGED <<locked, dailyJob>>,
         \A r \in Extractions : extraction'[r].todo = extraction[r].todo
  PROVE  BufferTypeOK' /\ RefsInv' /\ DailyHoldsCurrent'
<1> USE MarksAssumption, JobsAssumption
<1>1. BufferTypeOK'
  BY DEF Replace, Seen, Inv, TypeOK, BufferTypeOK
<1>2. RefsInv'
  BY DEF Replace, Seen, Inv, TypeOK, BufferTypeOK, ExtractionTypeOK, RefsInv
<1>3. DailyHoldsCurrent'
  BY DEF Replace, Seen, Inv, TypeOK, BufferTypeOK, DailyHoldsCurrent, InDailyLock
<1> QED BY <1>1, <1>2, <1>3

\* What LoaderNext does to the invariant.
LEMMA LoaderStep ==
  ASSUME Inv, LoaderNext, LoaderAlone
  PROVE  Inv'
<1> USE MarksAssumption, JobsAssumption
<1>1. CASE LoaderFind
  <2>1. LoaderTypeOK'
    BY <1>1 DEF LoaderFind, Inv, TypeOK, LoaderTypeOK, SourcesTypeOK, Row, Account,
         mapChallengeToAccount
  <2> QED
    BY <1>1, <2>1 DEF LoaderFind, LoaderAlone, bufferVars, sourceVars, Inv, TypeOK,
         BufferTypeOK, SourcesTypeOK, ExtractionTypeOK, TaskHasAccount, DailyTypeOK, IngestTypeOK,
         FlushTypeOK, EditTypeOK, RefsInv, BatchesInv, DailyHoldsCurrent, InDailyLock
<1>2. CASE LoaderRelations \/ LoaderFails \/ LoaderDone
  <2>1. LoaderTypeOK'
    BY <1>2 DEF LoaderRelations, LoaderFails, LoaderDone, LoaderIdle, NoRefs, Inv, TypeOK,
         LoaderTypeOK
  <2> QED
    BY <1>2, <2>1 DEF LoaderRelations, LoaderFails, LoaderDone, LoaderAlone, bufferVars,
         sourceVars, Inv, TypeOK, BufferTypeOK, SourcesTypeOK, ExtractionTypeOK, TaskHasAccount,
         DailyTypeOK, IngestTypeOK, FlushTypeOK, EditTypeOK, RefsInv, BatchesInv, DailyHoldsCurrent, InDailyLock
<1>3. ASSUME NEW l \in Logins, LoaderUpsert(l) PROVE Inv'
  <2>1. loader.rows[l] \in Account /\ ~locked[l]
    BY <1>3 DEF LoaderUpsert, Free, Inv, TypeOK, LoaderTypeOK
  <2>2. LoaderTypeOK'
    BY <1>3 DEF LoaderUpsert, Inv, TypeOK, LoaderTypeOK
  <2>3. BufferTypeOK' /\ RefsInv' /\ DailyHoldsCurrent'
    <3>1. CASE buffer[l] # NoAccount
      <4> DEFINE a == [buffer[l] EXCEPT !.conf = loader.rows[l].conf,
                                         !.time = loader.rows[l].time]
      <4>1. buffer[l] \in Account
        BY <3>1 DEF Inv, TypeOK, BufferTypeOK
      <4>2. a \in Account
        BY <2>1, <4>1 DEF Account
      <4>3. ChangeInPlace(l, a) /\ UNCHANGED locked
        BY <1>3, <3>1 DEF LoaderUpsert
      <4> HIDE DEF a
      <4> QED
        BY <1>3, <2>1, <3>1, <4>2, <4>3 DEF LoaderAlone, ChangeInPlace, Inv, TypeOK, BufferTypeOK,
             RefsInv, DailyHoldsCurrent, InDailyLock
    <3>2. CASE buffer[l] = NoAccount
      <4>1. PICK a \in Account : a = loader.rows[l]
        BY <2>1
      <4>2. Replace(l, a) /\ UNCHANGED <<locked, dailyJob, extraction>>
        BY <1>3, <3>2, <4>1 DEF LoaderUpsert, Replace, LoaderAlone
      <4> QED BY <2>1, <4>1, <4>2, ReplaceStep
    <3> QED BY <3>1, <3>2
  <2> QED
    BY <1>3, <2>2, <2>3 DEF LoaderUpsert, LoaderAlone, sourceVars, Inv, TypeOK, SourcesTypeOK,
         ExtractionTypeOK, TaskHasAccount, DailyTypeOK, IngestTypeOK, FlushTypeOK, EditTypeOK, BatchesInv
<1> QED BY <1>1, <1>2, <1>3 DEF LoaderNext

\* The mapper makes accounts of accounts.
LEMMA MapperType ==
  ASSUME NEW snapshot \in Account, NEW version \in Nat, NEW n \in Nat, NEW missing \in BOOLEAN
  PROVE  mapBrokeretDataToAccount(snapshot, version, n, missing) \in Account
<1> DEFINE a == [snapshot EXCEPT !.bal = version, !.time = version]
           b == [a EXCEPT !.open = version]
           c == [a EXCEPT !.open = version, !.closed = n, !.stats = version]
<1>1. a \in Account
  BY DEF Account
<1>2. b \in Account /\ c \in Account
  <2> HIDE DEF a
  <2> QED BY <1>1 DEF Account
<1> QED
  BY <1>1, <1>2 DEF mapBrokeretDataToAccount

\* What ExtractionNext does to the invariant.
LEMMA ExtractionStep ==
  ASSUME Inv, ExtractionNext, ExtractorAlone
  PROVE  Inv'
<1> USE MarksAssumption, JobsAssumption
<1>0. SUFFICES /\ BufferTypeOK' /\ SourcesTypeOK' /\ ExtractionTypeOK' /\ TaskHasAccount'
               /\ RefsInv' /\ DailyHoldsCurrent'
  BY DEF ExtractorAlone, Inv, TypeOK, LoaderTypeOK, DailyTypeOK, IngestTypeOK, FlushTypeOK, EditTypeOK,
         BatchesInv
<1>1. ASSUME NEW r \in Extractions, ExtractionStart(r)
      PROVE  /\ BufferTypeOK' /\ SourcesTypeOK' /\ ExtractionTypeOK' /\ TaskHasAccount'
             /\ RefsInv' /\ DailyHoldsCurrent'
  <2>1. PICK b \in Batches(Buffered) :
          /\ Launch(r, b, Buffered \ b, buffer)
          /\ held' = [held EXCEPT ![r] =
                        [l \in Logins |-> IF l \in Buffered \ b THEN Live ELSE NoAccount]]
    BY <1>1 DEF ExtractionStart
  <2>2. b \subseteq Buffered /\ Buffered \subseteq Logins
    BY DEF Batches, Buffered
  <2>3. ExtractionTypeOK' /\ TaskHasAccount'
    BY <2>1, <2>2 DEF Launch, Inv, TypeOK, ExtractionTypeOK, TaskHasAccount, BufferTypeOK, Buffered,
         Stages
  <2>4. BufferTypeOK' /\ RefsInv'
    BY <1>1, <2>1, <2>2 DEF ExtractionStart, Launch, Inv, TypeOK, ExtractionTypeOK, BufferTypeOK,
         RefsInv, Buffered
  <2>5. DailyHoldsCurrent'
    BY <1>1, <2>1 DEF ExtractionStart, ExtractorAlone, Inv, TypeOK, BufferTypeOK,
         DailyHoldsCurrent, InDailyLock
  <2> QED
    BY <1>1, <2>3, <2>4, <2>5 DEF ExtractionStart, ExtractorAlone, sourceVars, Inv, TypeOK,
         SourcesTypeOK
<1>2. ASSUME NEW r \in Extractions, ExtractionNextBatch(r)
      PROVE  /\ BufferTypeOK' /\ SourcesTypeOK' /\ ExtractionTypeOK' /\ TaskHasAccount'
             /\ RefsInv' /\ DailyHoldsCurrent'
  <2> DEFINE seen == [l \in Logins |-> Seen(r, l)]
  <2>1. PICK b \in Batches(extraction[r].todo) :
          /\ Launch(r, b, extraction[r].todo \ b, seen)
          /\ held' = [held EXCEPT ![r] = [l \in Logins |-> IF l \in b THEN NoAccount ELSE @[l]]]
    BY <1>2 DEF ExtractionNextBatch
  <2>2. b \subseteq extraction[r].todo /\ extraction[r].todo \subseteq Logins
    BY DEF Batches, Inv, TypeOK, ExtractionTypeOK
  <2>3. \A l \in b : seen[l] \in Account
    BY <2>2 DEF Seen, Inv, TypeOK, BufferTypeOK, RefsInv
  <2>4. ExtractionTypeOK' /\ TaskHasAccount'
    <3> HIDE DEF seen
    <3> QED
      BY <2>1, <2>2, <2>3 DEF Launch, Inv, TypeOK, ExtractionTypeOK, TaskHasAccount, Stages
  <2>5. BufferTypeOK' /\ RefsInv'
    <3> HIDE DEF seen
    <3> QED
      BY <1>2, <2>1, <2>2 DEF ExtractionNextBatch, Launch, Inv, TypeOK, ExtractionTypeOK,
           BufferTypeOK, RefsInv
  <2>6. DailyHoldsCurrent'
    BY <1>2, <2>1 DEF ExtractionNextBatch, ExtractorAlone, Inv, TypeOK, BufferTypeOK,
         DailyHoldsCurrent, InDailyLock
  <2> QED
    BY <1>2, <2>4, <2>5, <2>6 DEF ExtractionNextBatch, ExtractorAlone, sourceVars, Inv, TypeOK,
         SourcesTypeOK
<1>3. ASSUME NEW r \in Extractions, NEW l \in Logins,
             \/ ApiAnswersInFull(r, l) \/ ApiAnswersInPart(r, l) \/ ApiFails(r, l)
      PROVE  /\ BufferTypeOK' /\ SourcesTypeOK' /\ ExtractionTypeOK' /\ TaskHasAccount'
             /\ RefsInv' /\ DailyHoldsCurrent'
  <2>1. UNCHANGED <<buffer, locked, held, market, db>> /\ extraction[r].task[l] = "calling"
    BY <1>3 DEF ApiAnswersInFull, ApiAnswersInPart, ApiAnswers, ApiFails, bufferVars, sourceVars
  <2>2. extraction[r].acc[l] \in Account
    BY <2>1 DEF Inv, TypeOK, ExtractionTypeOK, TaskHasAccount
  <2>3. /\ ExtractionTypeOK' /\ TaskHasAccount'
        /\ \A q \in Extractions : extraction'[q].todo = extraction[q].todo
    <3>1. ASSUME NEW a \in Account,
                 extraction' = [extraction EXCEPT ![r].task[l] = "writing", ![r].acc[l] = a]
          PROVE  /\ ExtractionTypeOK' /\ TaskHasAccount'
                 /\ \A q \in Extractions : extraction'[q].todo = extraction[q].todo
      <4>1. ExtractionTypeOK' BY <3>1 DEF Inv, TypeOK, ExtractionTypeOK, Stages
      <4>2. TaskHasAccount'
        <5>1. a # NoAccount OBVIOUS
        <5> QED BY <2>1, <3>1, <5>1 DEF Inv, TypeOK, ExtractionTypeOK, TaskHasAccount
      <4>3. \A q \in Extractions : extraction'[q].todo = extraction[q].todo
        BY <3>1 DEF Inv, TypeOK, ExtractionTypeOK
      <4> QED BY <4>1, <4>2, <4>3
    <3>2. ASSUME NEW n \in Nat, NEW missing \in BOOLEAN, ApiAnswers(r, l, n, missing)
          PROVE  \E a \in Account :
                   extraction' = [extraction EXCEPT ![r].task[l] = "writing", ![r].acc[l] = a]
      <4> DEFINE a == mapBrokeretDataToAccount(extraction[r].acc[l], market[l], n, missing)
      <4>1. a \in Account
        BY <2>2, MapperType DEF Inv, TypeOK, SourcesTypeOK
      <4>2. extraction' = [extraction EXCEPT ![r].task[l] = "writing", ![r].acc[l] = a]
        BY <3>2 DEF ApiAnswers
      <4> HIDE DEF a
      <4> QED BY <4>1, <4>2
    <3>3. CASE ApiFails(r, l)
      BY <2>2, <3>3 DEF ApiFails, Inv, TypeOK, ExtractionTypeOK, TaskHasAccount, Stages
    <3>4. market[l] \in Nat /\ market[l] - 1 \in Nat
      BY DEF Inv, TypeOK, SourcesTypeOK
    <3> QED
      BY <1>3, <3>1, <3>2, <3>3, <3>4 DEF ApiAnswersInFull, ApiAnswersInPart
  <2> QED
    <3>1. BufferTypeOK' /\ SourcesTypeOK'
      BY <2>1 DEF Inv, TypeOK, BufferTypeOK, SourcesTypeOK
    <3>2. RefsInv'
      BY <2>1, <2>3 DEF Inv, RefsInv
    <3>3. DailyHoldsCurrent'
      BY <2>1 DEF ExtractorAlone, Inv, DailyHoldsCurrent, InDailyLock
    <3> QED BY <2>3, <3>1, <3>2, <3>3
<1>4. ASSUME NEW r \in Extractions, NEW l \in Logins, ExtractionWrite(r, l)
      PROVE  /\ BufferTypeOK' /\ SourcesTypeOK' /\ ExtractionTypeOK' /\ TaskHasAccount'
             /\ RefsInv' /\ DailyHoldsCurrent'
  <2>1. extraction[r].acc[l] \in Account /\ ~locked[l]
    BY <1>4 DEF ExtractionWrite, Free, Inv, TypeOK, ExtractionTypeOK, TaskHasAccount
  <2>2. ExtractionTypeOK' /\ TaskHasAccount' /\ \A q \in Extractions : extraction'[q].todo = extraction[q].todo
    BY <1>4 DEF ExtractionWrite, Inv, TypeOK, ExtractionTypeOK, TaskHasAccount, Stages
  <2>3. BufferTypeOK' /\ RefsInv' /\ DailyHoldsCurrent'
    <3>1. PICK a \in Account : a = extraction[r].acc[l]
      BY <2>1
    <3>2. Replace(l, a) /\ UNCHANGED <<locked, dailyJob>>
      BY <1>4, <3>1 DEF ExtractionWrite, Replace, ExtractorAlone
    <3> QED BY <2>1, <2>2, <3>1, <3>2, ReplaceStep
  <2> QED
    BY <1>4, <2>2, <2>3 DEF ExtractionWrite, ExtractorAlone, sourceVars, Inv, TypeOK, SourcesTypeOK
<1> QED BY <1>0, <1>1, <1>2, <1>3, <1>4 DEF ExtractionNext

\* What DailyNext does to the invariant.
LEMMA DailyStep ==
  ASSUME Inv, DailyNext, DailyAlone
  PROVE  Inv'
<1> USE MarksAssumption, JobsAssumption
<1>0. SUFFICES /\ BufferTypeOK' /\ SourcesTypeOK' /\ DailyTypeOK'
               /\ RefsInv' /\ DailyHoldsCurrent'
  BY DEF DailyAlone, Inv, TypeOK, LoaderTypeOK, ExtractionTypeOK, TaskHasAccount, IngestTypeOK,
         FlushTypeOK, EditTypeOK, BatchesInv
<1>1. CASE DailyStart \/ DailyDone
  <2>1. \E s \in SUBSET Logins, at \in {"idle", "loop"} :
          dailyJob' = [at |-> at, todo |-> s, login |-> NoAccount, balance |-> 0]
    <3>1. Buffered \in SUBSET Logins /\ {} \in SUBSET Logins
      BY DEF Buffered
    <3>2. CASE DailyStart
      <4>1. dailyJob' = [at |-> "loop", todo |-> Buffered, login |-> NoAccount, balance |-> 0]
        BY <3>2 DEF DailyStart, DailyIdle
      <4> QED BY <3>1, <4>1
    <3>3. CASE DailyDone
      <4>1. dailyJob' = [at |-> "idle", todo |-> {}, login |-> NoAccount, balance |-> 0]
        BY <3>3 DEF DailyDone, DailyIdle
      <4> QED BY <3>1, <4>1
    <3> QED BY <1>1, <3>2, <3>3
  <2>2. DailyTypeOK' /\ ~InDailyLock'
    BY <2>1 DEF DailyTypeOK, InDailyLock
  <2>3. UNCHANGED <<buffer, locked, held, market, db, extraction>>
    BY <1>1 DEF DailyStart, DailyDone, DailyAlone, bufferVars, sourceVars
  <2> QED
    BY <2>2, <2>3 DEF Inv, TypeOK, BufferTypeOK, SourcesTypeOK, RefsInv, DailyHoldsCurrent,
         InDailyLock
<1>2. CASE DailyFound
  BY <1>2 DEF DailyFound, DailyAlone, bufferVars, sourceVars, Inv, TypeOK, BufferTypeOK,
       SourcesTypeOK, DailyTypeOK, RefsInv, DailyHoldsCurrent, InDailyLock
<1>3. CASE DailyUpdated
  <2>1. dailyJob.login \in Logins /\ dailyJob.balance \in Nat
    BY <1>3 DEF DailyUpdated, Inv, TypeOK, DailyTypeOK, DailyHoldsCurrent, InDailyLock
  <2>2. SourcesTypeOK'
    BY <1>3, <2>1 DEF DailyUpdated, Inv, TypeOK, SourcesTypeOK, DailyTypeOK, Row
  <2> QED
    BY <1>3, <2>2 DEF DailyUpdated, DailyAlone, bufferVars, Inv, TypeOK, BufferTypeOK, DailyTypeOK,
         RefsInv, DailyHoldsCurrent, InDailyLock
<1>4. CASE DailySkip
  BY <1>4 DEF DailySkip, DailyLeave, DailyAlone, NoRefs, sourceVars, Inv, TypeOK, BufferTypeOK,
       SourcesTypeOK, DailyTypeOK, RefsInv, DailyHoldsCurrent, InDailyLock
<1>5. CASE DailyWrite
  <2>1. PICK l \in Logins : /\ l = dailyJob.login
                            /\ held[DailyHolder][l] = Live
                            /\ buffer[l] \in Account
                            /\ dailyJob.balance \in Nat
    BY <1>5 DEF DailyWrite, Inv, TypeOK, BufferTypeOK, DailyTypeOK, DailyHoldsCurrent, InDailyLock
  <2>2. PICK a \in Account : a = [buffer[l] EXCEPT !.daily = dailyJob.balance]
    BY <2>1 DEF Account
  <2>3. buffer' = [buffer EXCEPT ![l] = a]
    BY <1>5, <2>1, <2>2 DEF DailyWrite
  <2>4. BufferTypeOK' /\ RefsInv'
    <3>1. NoRefs \in [Logins -> {NoAccount}]
      BY DEF NoRefs
    <3>2. /\ held' = [held EXCEPT ![DailyHolder] = NoRefs]
          /\ locked' = [locked EXCEPT ![l] = FALSE]
          /\ UNCHANGED extraction
      BY <1>5, <2>1 DEF DailyWrite, DailyLeave, DailyAlone
    <3>3. BufferTypeOK'
      BY <2>3, <3>1, <3>2 DEF Inv, TypeOK, BufferTypeOK
    <3>4. RefsInv'
      BY <2>3, <3>1, <3>2 DEF Inv, TypeOK, BufferTypeOK, ExtractionTypeOK, RefsInv
    <3> QED BY <3>3, <3>4
  <2> QED
    BY <1>5, <2>4 DEF DailyWrite, DailyLeave, sourceVars, Inv, TypeOK, SourcesTypeOK, DailyTypeOK,
         DailyHoldsCurrent, InDailyLock
<1>6. ASSUME NEW l \in Logins, DailyLock(l)
      PROVE  /\ BufferTypeOK' /\ SourcesTypeOK' /\ DailyTypeOK'
             /\ RefsInv' /\ DailyHoldsCurrent'
  <2>1. CASE buffer[l] = NoAccount
    BY <1>6, <2>1 DEF DailyLock, DailyAlone, sourceVars, Inv, TypeOK, BufferTypeOK, SourcesTypeOK,
         DailyTypeOK, RefsInv, DailyHoldsCurrent, InDailyLock
  <2>2. CASE buffer[l] # NoAccount
    <3>1. buffer[l].bal \in Nat
      BY <2>2 DEF Inv, TypeOK, BufferTypeOK, Account
    <3>2. DailyTypeOK' /\ SourcesTypeOK'
      BY <1>6, <2>2, <3>1 DEF DailyLock, sourceVars, Inv, TypeOK, DailyTypeOK, SourcesTypeOK
    <3>3. BufferTypeOK' /\ RefsInv' /\ DailyHoldsCurrent'
      <4>1. /\ dailyJob' = [at |-> "query", todo |-> dailyJob.todo \ {l},
                            login |-> l, balance |-> buffer[l].bal]
            /\ locked' = [locked EXCEPT ![l] = TRUE]
            /\ held' = [held EXCEPT ![DailyHolder][l] = Live]
            /\ UNCHANGED <<buffer, extraction>>
        BY <1>6, <2>2 DEF DailyLock, DailyAlone
      <4>2. BufferTypeOK'
        BY <4>1 DEF Inv, TypeOK, BufferTypeOK
      <4>3. RefsInv'
        BY <2>2, <4>1 DEF Inv, TypeOK, BufferTypeOK, ExtractionTypeOK, RefsInv
      <4>4. DailyHoldsCurrent'
        BY <2>2, <4>1 DEF Inv, TypeOK, BufferTypeOK, DailyHoldsCurrent, InDailyLock
      <4> QED BY <4>2, <4>3, <4>4
    <3> QED BY <3>2, <3>3
  <2> QED BY <2>1, <2>2
<1> QED BY <1>0, <1>1, <1>2, <1>3, <1>4, <1>5, <1>6 DEF DailyNext

\* What IngestNext does to the invariant.
LEMMA IngestStep ==
  ASSUME Inv, IngestNext, IngestAlone
  PROVE  Inv'
<1> USE MarksAssumption, JobsAssumption
<1>1. ASSUME NEW l \in Logins, IngestRead(l) PROVE Inv'
  <2>1. PICK c \in {0, market[l]}, open \in BOOLEAN, close \in BOOLEAN :
          ingest' = [at |-> "merge", login |-> l, version |-> market[l], closed |-> c,
                     known |-> buffer[l] # NoAccount /\ buffer[l].closed > 0,
                     resume |-> open, empty |-> c = 0 /\ ~close]
    BY <1>1 DEF IngestRead
  <2>2. market[l] \in Nat /\ c \in Nat
    BY DEF Inv, TypeOK, SourcesTypeOK
  <2>3. IngestTypeOK'
    BY <2>1, <2>2 DEF IngestTypeOK
  <2> QED
    BY <1>1, <2>3 DEF IngestRead, IngestAlone, bufferVars, sourceVars, Inv, TypeOK, BufferTypeOK,
         SourcesTypeOK, LoaderTypeOK, ExtractionTypeOK, TaskHasAccount, DailyTypeOK, FlushTypeOK, EditTypeOK,
         RefsInv, BatchesInv, DailyHoldsCurrent, InDailyLock
<1>2. CASE IngestMerge
  <2>1. PICK l \in Logins : l = ingest.login
    BY <1>2 DEF IngestMerge, Inv, TypeOK, IngestTypeOK
  <2>2. EmptyAccount \in Account
    BY DEF EmptyAccount, Account
  <2>3. PICK prev \in Account : prev = IF buffer[l] = NoAccount THEN EmptyAccount ELSE buffer[l]
    BY <2>2 DEF Inv, TypeOK, BufferTypeOK
  <2>4. PICK a \in Account : a = ingestAccount(prev)
    <3>1. /\ ingest.version \in Nat /\ ingest.closed \in Nat
          /\ prev.bal \in Nat /\ prev.daily \in Nat /\ prev.open \in Nat /\ prev.closed \in Nat
      BY <2>3 DEF Inv, TypeOK, IngestTypeOK, Account
    <3>2. PICK b \in Nat, d \in Nat, o \in Nat, c \in Nat :
            /\ b = IF ingest.resume THEN ingest.version ELSE prev.bal
            /\ d = IF ingest.resume THEN ingest.version ELSE prev.daily
            /\ o = IF ingest.resume THEN ingest.version ELSE prev.open
            /\ c = IF ingest.empty /\ ingest.known THEN prev.closed ELSE ingest.closed
      BY <3>1
    <3>3. ingestAccount(prev) = [prev EXCEPT !.bal = b, !.daily = d, !.open = o,
                                             !.time = ingest.version, !.closed = c]
      BY <3>2 DEF ingestAccount, Account
    <3> QED BY <3>1, <3>3 DEF Account
  <2>5. ~locked[l] /\ Replace(l, a) /\ UNCHANGED <<locked, dailyJob, extraction>>
    BY <1>2, <2>1, <2>3, <2>4 DEF IngestMerge, Free, IngestAlone
  <2>6. BufferTypeOK' /\ RefsInv' /\ DailyHoldsCurrent'
    BY <2>5, ReplaceStep
  <2>7. IngestTypeOK'
    BY <1>2 DEF IngestMerge, IngestIdle, IngestTypeOK
  <2> QED
    BY <1>2, <2>6, <2>7 DEF IngestMerge, IngestAlone, sourceVars, Inv, TypeOK, SourcesTypeOK,
         LoaderTypeOK, ExtractionTypeOK, TaskHasAccount, DailyTypeOK, FlushTypeOK, EditTypeOK, BatchesInv
<1> QED BY <1>1, <1>2 DEF IngestNext

\* The end of a batch leaves the others with what they need.
LEMMA LeaveStep ==
  ASSUME Inv, NEW f \in Flushes, NEW b \in flush[f].query \cup flush[f].save, FlushLeave(f, b)
  PROVE  FlushTypeOK' /\ BatchesInv'
<1> DEFINE g == [copy |-> [l \in Logins |-> IF l \in b THEN NoAccount ELSE flush[f].copy[l]],
                 wait |-> flush[f].wait, query |-> flush[f].query \ {b},
                 save |-> flush[f].save \ {b}, found |-> flush[f].found \ b]
<1>1. flush' = [flush EXCEPT ![f] = g]
  BY DEF FlushLeave
<1>2. FlushTypeOK'
  BY <1>1 DEF Inv, TypeOK, FlushTypeOK
<1>3. b \notin flush[f].wait /\ flush'[f] = g
  BY <1>1 DEF Inv, TypeOK, FlushTypeOK, BatchesInv
<1>4. \A c \in g.wait \cup g.query \cup g.save : \A l \in c : g.copy[l] # NoAccount
  <2> SUFFICES ASSUME NEW c \in g.wait \cup g.query \cup g.save, NEW l \in c
               PROVE  g.copy[l] # NoAccount
    OBVIOUS
  <2>1. c \in flush[f].wait \cup flush[f].query \cup flush[f].save /\ c # b
    BY <1>3
  <2>2. l \notin b /\ flush[f].copy[l] # NoAccount
    BY <2>1 DEF Inv, BatchesInv
  <2>3. l \in Logins
    BY <2>1 DEF Inv, TypeOK, FlushTypeOK
  <2> QED BY <2>2, <2>3
<1>5. /\ g.wait \cap (g.query \cup g.save) = {}
      /\ g.query \cap g.save = {}
      /\ \A c, d \in g.wait \cup g.query \cup g.save : c # d => c \cap d = {}
      /\ \A c \in g.wait \cup g.query \cup g.save : c # {}
  BY DEF Inv, BatchesInv
<1>6. BatchesInv'
  <2> HIDE DEF g
  <2>1. ASSUME NEW e \in Flushes, e # f PROVE flush'[e] = flush[e]
    BY <1>1, <2>1 DEF Inv, TypeOK, FlushTypeOK
  <2> QED BY <1>3, <1>4, <1>5, <2>1 DEF Inv, BatchesInv
<1> QED BY <1>2, <1>6

\* What FlushNext does to the invariant.
LEMMA FlushStep ==
  ASSUME Inv, FlushNext, FlushAlone
  PROVE  Inv'
<1> USE MarksAssumption, JobsAssumption
<1>1. ASSUME FlushTypeOK', BatchesInv', SourcesTypeOK', UNCHANGED bufferVars
      PROVE  Inv'
  <2>1. DailyHoldsCurrent'
    BY <1>1 DEF FlushAlone, bufferVars, Inv, DailyHoldsCurrent, InDailyLock
  <2> QED
    BY <1>1, <2>1 DEF FlushAlone, bufferVars, Inv, TypeOK, BufferTypeOK, LoaderTypeOK,
         ExtractionTypeOK, TaskHasAccount, DailyTypeOK, IngestTypeOK, EditTypeOK, RefsInv
<1>2. ASSUME NEW f \in Flushes, FlushStart(f) PROVE Inv'
  <2>1. PICK p \in createBatches(Dirty) :
          flush' = [flush EXCEPT ![f] =
            [copy |-> [l \in Logins |-> IF l \in Dirty THEN buffer[l] ELSE NoAccount],
             wait |-> p, query |-> {}, save |-> {}, found |-> {}]]
    BY <1>2 DEF FlushStart, FlushIdle
  <2>2. /\ p \in SUBSET SUBSET Logins
        /\ \A b \in p : b # {} /\ b \subseteq Dirty
        /\ \A b, c \in p : b # c => b \cap c = {}
    BY DEF createBatches, Dirty, Buffered
  <2>3. \A l \in Dirty : l \in Logins /\ buffer[l] # NoAccount
    BY DEF Dirty, Buffered
  <2>4. FlushTypeOK'
    BY <2>1, <2>2 DEF Inv, TypeOK, FlushTypeOK, BufferTypeOK
  <2>5. BatchesInv'
    BY <2>1, <2>2, <2>3 DEF Inv, TypeOK, FlushTypeOK, BatchesInv
  <2> QED
    BY <1>1, <1>2, <2>4, <2>5 DEF FlushStart, sourceVars, Inv, TypeOK, SourcesTypeOK
<1>3. ASSUME NEW f \in Flushes, NEW b \in SUBSET Logins, FlushTakeSlot(f, b) PROVE Inv'
  <2>1. /\ b \in flush[f].wait
        /\ flush' = [flush EXCEPT ![f].wait = @ \ {b}, ![f].query = @ \cup {b}]
    BY <1>3 DEF FlushTakeSlot
  <2>2. FlushTypeOK'
    <3> DEFINE W == SUBSET Logins
               C == [Logins -> Account \cup {NoAccount}]
    <3>1. flush \in [Flushes -> [copy : C, wait : SUBSET W, query : SUBSET W, save : SUBSET W,
                                found : W]]
      BY DEF Inv, TypeOK, FlushTypeOK
    <3>2. b \in W /\ FlushTypeOK' = (flush' \in [Flushes -> [copy : C, wait : SUBSET W,
                                            query : SUBSET W, save : SUBSET W, found : W]])
      BY DEF FlushTypeOK
    <3> HIDE DEF W, C
    <3> QED BY <2>1, <3>1, <3>2
  <2>3. BatchesInv'
    BY <2>1 DEF Inv, TypeOK, FlushTypeOK, BatchesInv
  <2> QED
    BY <1>1, <1>3, <2>2, <2>3 DEF FlushTakeSlot, sourceVars, Inv, TypeOK, SourcesTypeOK
<1>4. ASSUME NEW f \in Flushes, NEW b \in SUBSET Logins, FlushFound(f, b) PROVE Inv'
  <2>1. CASE \A l \in b : ~db[l].active
    BY <1>1, <1>4, <2>1, LeaveStep DEF FlushFound, sourceVars, Inv, TypeOK, SourcesTypeOK
  <2>2. CASE ~\A l \in b : ~db[l].active
    <3>1. PICK s \in SUBSET Logins : s = {l \in b : db[l].active}
      OBVIOUS
    <3>2. /\ b \in flush[f].query
          /\ flush' = [flush EXCEPT ![f].query = @ \ {b}, ![f].save = @ \cup {b},
                                    ![f].found = @ \cup s]
      BY <1>4, <2>2, <3>1 DEF FlushFound
    <3>3. FlushTypeOK'
      <4> DEFINE W == SUBSET Logins
                 C == [Logins -> Account \cup {NoAccount}]
      <4>1. flush \in [Flushes -> [copy : C, wait : SUBSET W, query : SUBSET W, save : SUBSET W,
                                  found : W]]
        BY DEF Inv, TypeOK, FlushTypeOK
      <4>2. b \in W /\ FlushTypeOK' = (flush' \in [Flushes -> [copy : C, wait : SUBSET W,
                                              query : SUBSET W, save : SUBSET W, found : W]])
        BY DEF FlushTypeOK
      <4>3. flush[f].found \cup s \in W
        BY <4>1
      <4> HIDE DEF W, C
      <4> QED BY <3>2, <4>1, <4>2, <4>3
    <3>4. BatchesInv'
      BY <3>2 DEF Inv, TypeOK, FlushTypeOK, BatchesInv
    <3> QED
      BY <1>1, <1>4, <3>3, <3>4 DEF FlushFound, sourceVars, Inv, TypeOK, SourcesTypeOK
  <2> QED BY <2>1, <2>2
<1>5. ASSUME NEW f \in Flushes, NEW b \in SUBSET Logins, FlushSaved(f, b) PROVE Inv'
  <2>1. FlushTypeOK' /\ BatchesInv'
    BY <1>5, LeaveStep DEF FlushSaved
  <2>2. SourcesTypeOK'
    <3> DEFINE saved(l) == [db[l] EXCEPT !.details = TRUE, !.open = flush[f].copy[l].open,
                                         !.closed = flush[f].copy[l].closed,
                                         !.stats = flush[f].copy[l].stats,
                                         !.time = flush[f].copy[l].time]
    <3>1. ASSUME NEW l \in b PROVE saved(l) \in Row
      <4>1. db[l] \in Row
        BY DEF Inv, TypeOK, SourcesTypeOK
      <4>2. flush[f].copy[l] # NoAccount
        BY <1>5 DEF FlushSaved, Inv, BatchesInv
      <4>3. flush[f].copy[l] \in Account
        BY <4>2 DEF Inv, TypeOK, FlushTypeOK
      <4> QED BY <4>1, <4>3 DEF Row, Account
    <3>2. UNCHANGED market
          /\ db' = [l \in Logins |-> IF l \in b \cap flush[f].found THEN saved(l) ELSE db[l]]
      BY <1>5 DEF FlushSaved
    <3> HIDE DEF saved
    <3> QED BY <3>1, <3>2 DEF Inv, TypeOK, SourcesTypeOK
  <2> QED
    BY <1>1, <1>5, <2>1, <2>2 DEF FlushSaved
<1>6. ASSUME NEW f \in Flushes, NEW b \in SUBSET Logins, FlushFails(f, b) PROVE Inv'
  BY <1>1, <1>6, LeaveStep DEF FlushFails, sourceVars, Inv, TypeOK, SourcesTypeOK
<1> QED BY <1>2, <1>3, <1>4, <1>5, <1>6 DEF FlushNext

\* What a deletion does to the invariant.
LEMMA DeleteStep ==
  ASSUME Inv, Delete
  PROVE  Inv'
<1> USE MarksAssumption, JobsAssumption
<1>1. PICK l \in Logins : ~locked[l] /\ Replace(l, NoAccount) /\ UNCHANGED locked
  BY DEF Delete, DeleteAccount, Free
<1>2. BufferTypeOK' /\ RefsInv' /\ DailyHoldsCurrent'
  BY <1>1, ReplaceStep DEF Delete, jobVars
<1> QED
  BY <1>2 DEF Delete, sourceVars, jobVars, Inv, TypeOK, SourcesTypeOK, LoaderTypeOK,
       ExtractionTypeOK, TaskHasAccount, DailyTypeOK, IngestTypeOK, FlushTypeOK, EditTypeOK, BatchesInv

\* What EditNext does to the invariant: the row that is saved is one.
LEMMA EditStep ==
  ASSUME Inv, EditNext, EditAlone
  PROVE  Inv'
<1>1. /\ UNCHANGED bufferVars
      /\ SourcesTypeOK' /\ EditTypeOK'
  <2>1. market \in [Logins -> Nat \ {0}] /\ db \in [Logins -> Row]
    BY DEF Inv, TypeOK, SourcesTypeOK
  <2>2. EditIdle.at = "idle" /\ EditIdle \in [at : {"idle", "details", "challenge"},
                                             login : Logins \cup {NoAccount}, row : Row]
    BY DEF EditIdle, NewRow, Row
  <2>3. ASSUME edit' = EditIdle PROVE EditTypeOK'
    BY <2>2, <2>3 DEF EditTypeOK
  <2>4. ASSUME NEW l \in Logins, EditDetails(l) \/ EditChallenge(l)
        PROVE  UNCHANGED bufferVars /\ SourcesTypeOK' /\ EditTypeOK'
    BY <2>1, <2>4 DEF EditDetails, EditChallenge, sourceVars, SourcesTypeOK, EditTypeOK
  <2>5. ASSUME NEW at \in {"details", "challenge"}, edit.at = at
        PROVE  edit.login \in Logins /\ edit.row \in Row
    BY <2>5 DEF Inv, TypeOK, EditTypeOK
  <2>6. ASSUME NEW l \in Logins, NEW row \in Row, db' = [db EXCEPT ![l] = row], UNCHANGED market
        PROVE  SourcesTypeOK'
    BY <2>1, <2>6 DEF SourcesTypeOK
  <2>7. CASE SaveDetails
    <3>1. PICK l \in Logins : l = edit.login
      BY <2>5, <2>7 DEF SaveDetails
    <3>2. edit.row \in Row /\ db[l] \in Row /\ market[l] \in Nat
      BY <2>1, <2>5, <2>7 DEF SaveDetails
    <3>3. PICK c \in Nat, r \in Row, t \in Nat : /\ c = edit.row.config + 1 /\ r = edit.row
                                                /\ t = market[l]
      <4>1. edit.row.config + 1 \in Nat
        BY <3>2 DEF Row
      <4> QED BY <3>2, <4>1
    <3>4. PICK row \in Row :
            row = [db[l] EXCEPT !.details = TRUE, !.config = c, !.open = r.open,
                                !.closed = r.closed, !.stats = r.stats, !.time = t]
      BY <3>2 DEF Row
    <3>5. db' = [db EXCEPT ![l] = row] /\ UNCHANGED market
      BY <2>7, <3>1, <3>3, <3>4 DEF SaveDetails
    <3> QED BY <2>3, <2>6, <2>7, <3>5 DEF SaveDetails
  <2>8. CASE SaveChallenge
    <3>1. PICK l \in Logins : l = edit.login
      BY <2>5, <2>8 DEF SaveChallenge
    <3>2. edit.row \in Row /\ db[l] \in Row
      BY <2>1, <2>5, <2>8 DEF SaveChallenge
    <3>3. \A active \in BOOLEAN :
            [db[l] EXCEPT !.active = active, !.dynamic = edit.row.dynamic] \in Row
      BY <3>2 DEF Row
    <3>4. \E row \in Row : db' = [db EXCEPT ![l] = row] /\ UNCHANGED market
      BY <2>8, <3>1, <3>3 DEF SaveChallenge
    <3> QED BY <2>3, <2>6, <2>8, <3>4 DEF SaveChallenge
  <2>9. CASE EditFails
    BY <2>1, <2>3, <2>9 DEF EditFails, sourceVars, SourcesTypeOK
  <2> QED BY <2>4, <2>7, <2>8, <2>9 DEF EditNext
<1> QED
  BY <1>1 DEF EditAlone, bufferVars, Inv, TypeOK, BufferTypeOK, LoaderTypeOK, ExtractionTypeOK,
       TaskHasAccount, DailyTypeOK, IngestTypeOK, FlushTypeOK, RefsInv, BatchesInv,
       DailyHoldsCurrent, InDailyLock

\* What the broker does to the invariant.
LEMMA EnvironmentStep ==
  ASSUME Inv, Environment
  PROVE  Inv'
<1>1. PICK l \in Logins : Trade(l)
  BY DEF Environment
<1>2. SourcesTypeOK'
  BY <1>1 DEF Trade, Inv, TypeOK, SourcesTypeOK
<1> QED
  BY <1>2 DEF Environment, bufferVars, jobVars, Inv, TypeOK, BufferTypeOK, LoaderTypeOK,
       ExtractionTypeOK, TaskHasAccount, DailyTypeOK, IngestTypeOK, FlushTypeOK, EditTypeOK,
       RefsInv, BatchesInv, DailyHoldsCurrent, InDailyLock

\* A process that has just started satisfies what the jobs keep.
LEMMA FreshJobs ==
  /\ LoaderIdle \in [at : {"idle", "relations", "upserting"},
                     rows : [Logins -> Account \cup {NoAccount}]]
  /\ ExtractionIdle \in [todo : SUBSET Logins, task : [Logins -> Stages],
                         acc : [Logins -> Account \cup {NoAccount}]]
  /\ FlushIdle \in [copy : [Logins -> Account \cup {NoAccount}],
                    wait : SUBSET SUBSET Logins, query : SUBSET SUBSET Logins,
                    save : SUBSET SUBSET Logins, found : SUBSET Logins]
BY DEF LoaderIdle, ExtractionIdle, FlushIdle, NoRefs, Stages

LEMMA FreshProcess ==
  BufferInit /\ JobsInit =>
    /\ BufferTypeOK /\ LoaderTypeOK /\ ExtractionTypeOK /\ TaskHasAccount /\ DailyTypeOK
    /\ IngestTypeOK /\ FlushTypeOK /\ EditTypeOK /\ RefsInv /\ BatchesInv /\ DailyHoldsCurrent
<1> USE MarksAssumption, JobsAssumption
<1> HAVE BufferInit /\ JobsInit
<1>1. BufferTypeOK
  BY DEF BufferInit, BufferTypeOK, NoRefs
<1>2. LoaderTypeOK /\ ExtractionTypeOK /\ FlushTypeOK
  BY FreshJobs DEF JobsInit, LoaderTypeOK, ExtractionTypeOK, FlushTypeOK
<1>3. TaskHasAccount
  BY DEF JobsInit, ExtractionIdle, TaskHasAccount, NoRefs
<1>4. DailyTypeOK /\ IngestTypeOK /\ DailyHoldsCurrent
  BY DEF JobsInit, DailyIdle, IngestIdle, DailyTypeOK, IngestTypeOK, DailyHoldsCurrent, InDailyLock
<1>5. RefsInv
  BY DEF BufferInit, JobsInit, NoRefs, ExtractionIdle, RefsInv
<1>6. BatchesInv
  BY DEF JobsInit, FlushIdle, BatchesInv
<1>7. EditTypeOK
  BY DEF JobsInit, EditIdle, EditTypeOK, NewRow, Row
<1> QED BY <1>1, <1>2, <1>3, <1>4, <1>5, <1>6, <1>7

\* A crash leaves a process that has just started.
LEMMA CrashStep ==
  ASSUME Inv, Crash
  PROVE  Inv'
<1>1. (BufferInit /\ JobsInit)'
  BY DEF Crash, BufferInit, JobsInit
<1>2. /\ BufferTypeOK' /\ LoaderTypeOK' /\ ExtractionTypeOK' /\ TaskHasAccount' /\ DailyTypeOK'
      /\ IngestTypeOK' /\ FlushTypeOK' /\ EditTypeOK' /\ RefsInv' /\ BatchesInv' /\ DailyHoldsCurrent'
  BY <1>1, FreshProcess, PTL
<1>3. SourcesTypeOK' /\ crashes' \in Nat
  BY DEF Crash, sourceVars, Inv, TypeOK, SourcesTypeOK
<1> QED BY <1>2, <1>3 DEF Inv, TypeOK

\* Initially the invariant holds.
LEMMA InitInv ==
  Init => Inv
<1>1. \A d \in BOOLEAN : NewRow(d) \in Row
  BY DEF NewRow, Row
<1>2. Init => SourcesTypeOK /\ crashes \in Nat
  BY <1>1 DEF Init, SourcesInit, SourcesTypeOK
<1> QED BY <1>2, FreshProcess DEF Init, Inv, TypeOK

\* Steps that change nothing.
LEMMA StutterStep ==
  ASSUME Inv, UNCHANGED vars
  PROVE  Inv'
BY DEF vars, bufferVars, sourceVars, jobVars, Inv, TypeOK, BufferTypeOK, SourcesTypeOK, LoaderTypeOK,
     ExtractionTypeOK, TaskHasAccount, DailyTypeOK, IngestTypeOK, FlushTypeOK, EditTypeOK, RefsInv, BatchesInv,
     DailyHoldsCurrent, InDailyLock

\* Inv is inductive, whatever jobs are registered and however their awaits are
\* interleaved, and so holds in every reachable state.
THEOREM Invariance == Spec => []Inv
<1>1. Inv /\ [Next]_vars => Inv'
  BY LoaderStep, ExtractionStep, DailyStep, IngestStep, FlushStep, EditStep, DeleteStep, EnvironmentStep,
     CrashStep, StutterStep DEF Next
<1> QED BY <1>1, InitInv, PTL DEF Spec

\* Every variable keeps its type.
THEOREM TypeCorrect == Spec => []TypeOK
<1>1. Inv => TypeOK
  BY DEF Inv
<1> QED BY <1>1, Invariance, PTL

\* While the daily job awaits under the lock, its account stays in the buffer with
\* the balance that was read.
THEOREM DailyHolds == Spec => []DailyHoldsCurrent
<1>1. Inv => DailyHoldsCurrent
  BY DEF Inv
<1> QED BY <1>1, Invariance, PTL

\* Both writes of the daily job, one await apart, are of the balance the account
\* has when they happen.
THEOREM DailyWritesCurrent == Spec => DailyBalanceIsCurrent
<1>1. ASSUME Inv, [Next]_vars
      PROVE  [/\ DailyUpdated => RowIsCurrent(dailyJob.login)
              /\ DailyWrite => EntryIsCurrent(dailyJob.login)]_vars
  <2>1. ASSUME DailyUpdated
        PROVE  RowIsCurrent(dailyJob.login)
    <3>1. PICK l \in Logins : /\ l = dailyJob.login /\ buffer[l] # NoAccount
                              /\ buffer[l].bal = dailyJob.balance
      BY <1>1, <2>1 DEF DailyUpdated, Inv, DailyHoldsCurrent, InDailyLock
    <3>2. db[l] \in Row
      BY <1>1 DEF Inv, TypeOK, SourcesTypeOK
    <3> QED BY <1>1, <2>1, <3>1, <3>2 DEF DailyUpdated, Row, Inv, TypeOK, SourcesTypeOK,
             RowIsCurrent
  <2>2. ASSUME DailyWrite
        PROVE  EntryIsCurrent(dailyJob.login)
    <3>1. PICK l \in Logins : /\ l = dailyJob.login /\ held[DailyHolder][l] = Live
                              /\ buffer[l] # NoAccount /\ buffer[l].bal = dailyJob.balance
      BY <1>1, <2>2 DEF DailyWrite, Inv, DailyHoldsCurrent, InDailyLock
    <3>2. buffer[l] \in Account
      BY <1>1, <3>1 DEF Inv, TypeOK, BufferTypeOK
    <3>3. buffer' = [buffer EXCEPT ![l].daily = dailyJob.balance]
      BY <2>2, <3>1 DEF DailyWrite
    <3>4. PICK n \in Nat, old \in Account : n = dailyJob.balance /\ old = buffer[l]
      BY <3>1, <3>2 DEF Account
    <3>5. PICK a \in Account : a = [old EXCEPT !.daily = n]
      BY DEF Account
    <3>6. a.daily = n /\ a.bal = old.bal
      BY <3>5 DEF Account
    <3>7. buffer'[l] = a
      BY <1>1, <3>3, <3>4, <3>5 DEF Inv, TypeOK, BufferTypeOK
    <3> QED BY <3>1, <3>4, <3>6, <3>7, MarksAssumption DEF EntryIsCurrent
  <2> QED BY <2>1, <2>2
<1> QED BY <1>1, Invariance, PTL DEF Spec, DailyBalanceIsCurrent

-----------------------------------------------------------------------------
(* Batches and slots.                                                      *)

AtWork(g) == g.query \cup g.save

AllBatches(g) == g.wait \cup g.query \cup g.save

\* FlushPartition for one flush, with the batches at work finitely many.
SlotsOf(g) ==
  /\ \A l \in Logins : (g.copy[l] # NoAccount) <=> (\E b \in AllBatches(g) : l \in b)
  /\ \A b, c \in AllBatches(g) : b # c => b \cap c = {}
  /\ IsFiniteSet(AtWork(g))
  /\ Cardinality(AtWork(g)) <= MAX_CONCURRENT_BATCHES

SlotsInv == \A f \in Flushes : SlotsOf(flush[f])

\* A flush that has not started has no batches.
LEMMA IdleSlots == SlotsOf(FlushIdle)
<1>1. AllBatches(FlushIdle) = {} /\ AtWork(FlushIdle) = {}
  BY DEF FlushIdle, AllBatches, AtWork
<1>2. \A l \in Logins : FlushIdle.copy[l] = NoAccount
  BY DEF FlushIdle, NoRefs
<1>3. IsFiniteSet({}) /\ Cardinality({}) <= MAX_CONCURRENT_BATCHES
  BY FS_EmptySet, JobsAssumption
<1> QED BY <1>1, <1>2, <1>3 DEF SlotsOf

\* A flush that starts: everything waits.
LEMMA StartSlots ==
  ASSUME Inv, SlotsInv, NEW f \in Flushes, FlushStart(f)
  PROVE  SlotsInv'
<1>1. PICK p \in createBatches(Dirty) :
        flush' = [flush EXCEPT ![f] =
          [copy |-> [l \in Logins |-> IF l \in Dirty THEN buffer[l] ELSE NoAccount],
           wait |-> p, query |-> {}, save |-> {}, found |-> {}]]
  BY DEF FlushStart, FlushIdle
<1>2. UNION p = Dirty /\ \A b, c \in p : b # c => b \cap c = {}
  BY DEF createBatches
<1>3. \A l \in Dirty : l \in Logins /\ buffer[l] # NoAccount
  BY DEF Dirty, Buffered
<1>4. IsFiniteSet({}) /\ Cardinality({}) <= MAX_CONCURRENT_BATCHES
  BY FS_EmptySet, JobsAssumption
<1>5. PICK g : g = flush'[f]
  OBVIOUS
<1>6. /\ \A l \in Logins : (g.copy[l] # NoAccount) <=> (\E b \in p : l \in b)
      /\ AllBatches(g) = p /\ AtWork(g) = {}
      /\ \A e \in Flushes \ {f} : flush'[e] = flush[e]
  BY <1>1, <1>2, <1>3, <1>5 DEF Inv, TypeOK, FlushTypeOK, AllBatches, AtWork
<1>7. SlotsOf(g)
  BY <1>2, <1>4, <1>6 DEF SlotsOf
<1> QED BY <1>5, <1>6, <1>7 DEF SlotsInv

\* A batch that takes a slot has seen it free.
LEMMA TakeSlots ==
  ASSUME Inv, SlotsInv, NEW f \in Flushes, NEW b \in SUBSET Logins, FlushTakeSlot(f, b)
  PROVE  SlotsInv'
<1>1. /\ b \in flush[f].wait
      /\ flush' = [flush EXCEPT ![f].wait = @ \ {b}, ![f].query = @ \cup {b}]
      /\ Cardinality(AtWork(flush[f])) < MAX_CONCURRENT_BATCHES
  BY DEF FlushTakeSlot, AtWork
<1>2. PICK g, h : g = flush[f] /\ h = flush'[f]
  OBVIOUS
<1>3. /\ h.copy = g.copy /\ h.wait = g.wait \ {b} /\ h.query = g.query \cup {b} /\ h.save = g.save
      /\ \A e \in Flushes \ {f} : flush'[e] = flush[e]
  BY <1>1, <1>2 DEF Inv, TypeOK, FlushTypeOK
<1>4. AllBatches(h) = AllBatches(g) /\ AtWork(h) = AtWork(g) \cup {b}
  BY <1>1, <1>2, <1>3 DEF AllBatches, AtWork
<1>5. SlotsOf(g) /\ b \notin AtWork(g)
  BY <1>1, <1>2 DEF SlotsInv, Inv, BatchesInv, AtWork
<1>6. /\ IsFiniteSet(AtWork(h)) /\ Cardinality(AtWork(g)) \in Nat
      /\ Cardinality(AtWork(h)) = Cardinality(AtWork(g)) + 1
  BY <1>4, <1>5, FS_AddElement, FS_CardinalityType DEF SlotsOf
<1>7. Cardinality(AtWork(h)) <= MAX_CONCURRENT_BATCHES
  BY <1>1, <1>2, <1>6, JobsAssumption
<1>8. SlotsOf(h)
  BY <1>3, <1>4, <1>5, <1>6, <1>7 DEF SlotsOf
<1> QED BY <1>2, <1>3, <1>8 DEF SlotsInv

\* A batch that ends takes its copies with it and gives its slot back.
LEMMA LeaveSlots ==
  ASSUME Inv, SlotsInv, NEW f \in Flushes, NEW b \in AtWork(flush[f]), FlushLeave(f, b)
  PROVE  SlotsInv'
<1>1. PICK g, h : g = flush[f] /\ h = flush'[f]
  OBVIOUS
<1>2. /\ h.copy = [l \in Logins |-> IF l \in b THEN NoAccount ELSE g.copy[l]]
      /\ h.wait = g.wait /\ h.query = g.query \ {b} /\ h.save = g.save \ {b}
      /\ \A e \in Flushes \ {f} : flush'[e] = flush[e]
  BY <1>1 DEF FlushLeave, Inv, TypeOK, FlushTypeOK
<1>3. b \notin g.wait /\ b \in AllBatches(g) /\ SlotsOf(g)
  BY <1>1 DEF Inv, BatchesInv, AtWork, AllBatches, SlotsInv
<1>4. AllBatches(h) = AllBatches(g) \ {b} /\ AtWork(h) = AtWork(g) \ {b}
  BY <1>2, <1>3 DEF AllBatches, AtWork
<1>5. /\ IsFiniteSet(AtWork(h)) /\ Cardinality(AtWork(g)) \in Nat
      /\ Cardinality(AtWork(h)) = Cardinality(AtWork(g)) - 1
  BY <1>1, <1>3, <1>4, FS_RemoveElement, FS_CardinalityType DEF SlotsOf
<1>6. Cardinality(AtWork(h)) <= MAX_CONCURRENT_BATCHES
  BY <1>3, <1>5, JobsAssumption DEF SlotsOf
<1>7. ASSUME NEW l \in Logins
      PROVE  (h.copy[l] # NoAccount) <=> (\E c \in AllBatches(h) : l \in c)
  <2>1. CASE l \in b
    BY <1>2, <1>3, <1>4, <2>1 DEF SlotsOf
  <2>2. CASE l \notin b
    BY <1>2, <1>3, <1>4, <2>2 DEF SlotsOf
  <2> QED BY <2>1, <2>2
<1>8. SlotsOf(h)
  BY <1>3, <1>4, <1>5, <1>6, <1>7 DEF SlotsOf
<1> QED BY <1>1, <1>2, <1>8 DEF SlotsInv

\* The flush never has more batches at work than slots, and every account it
\* copied is in exactly one of its batches until that one ends.
THEOREM Partition == Spec => []FlushPartition
<1>1. Init => SlotsInv
  BY IdleSlots DEF Init, JobsInit, SlotsInv
<1>2. Inv /\ SlotsInv /\ [Next]_vars => SlotsInv'
  <2> SUFFICES ASSUME Inv, SlotsInv, [Next]_vars PROVE SlotsInv'
    OBVIOUS
  <2>1. CASE FlushNext
    <3>1. PICK f \in Flushes :
            \/ FlushStart(f)
            \/ \E b \in SUBSET Logins :
                 FlushTakeSlot(f, b) \/ FlushFound(f, b) \/ FlushSaved(f, b) \/ FlushFails(f, b)
      BY <2>1 DEF FlushNext
    <3>2. ASSUME NEW b \in AtWork(flush[f]), FlushLeave(f, b) PROVE SlotsInv'
      BY <3>2, LeaveSlots
    <3>3. ASSUME NEW b \in SUBSET Logins, FlushFound(f, b), ~FlushLeave(f, b) PROVE SlotsInv'
      <4>1. PICK s \in SUBSET Logins : s = {l \in b : db[l].active}
        OBVIOUS
      <4>2. /\ b \in flush[f].query
            /\ flush' = [flush EXCEPT ![f].query = @ \ {b}, ![f].save = @ \cup {b},
                                      ![f].found = @ \cup s]
        BY <3>3, <4>1 DEF FlushFound
      <4>3. PICK g, h : g = flush[f] /\ h = flush'[f]
        OBVIOUS
      <4>4. /\ h.copy = g.copy /\ h.wait = g.wait
            /\ h.query = g.query \ {b} /\ h.save = g.save \cup {b}
            /\ \A e \in Flushes \ {f} : flush'[e] = flush[e]
        BY <4>2, <4>3 DEF Inv, TypeOK, FlushTypeOK
      <4>5. AllBatches(h) = AllBatches(g) /\ AtWork(h) = AtWork(g)
        BY <4>2, <4>3, <4>4 DEF AllBatches, AtWork
      <4>6. SlotsOf(h)
        BY <4>3, <4>4, <4>5 DEF SlotsInv, SlotsOf
      <4> QED BY <4>3, <4>4, <4>6 DEF SlotsInv
    <3>4. ASSUME NEW b \in SUBSET Logins, FlushSaved(f, b) \/ FlushFails(f, b)
          PROVE  b \in AtWork(flush[f]) /\ FlushLeave(f, b)
      BY <3>4 DEF FlushSaved, FlushFails, AtWork
    <3>5. ASSUME NEW b \in SUBSET Logins, FlushFound(f, b) PROVE b \in AtWork(flush[f])
      BY <3>5 DEF FlushFound, AtWork
    <3> QED BY <3>1, <3>2, <3>3, <3>4, <3>5, StartSlots, TakeSlots
  <2>2. CASE UNCHANGED flush
    BY <2>2 DEF SlotsInv
  <2>3. CASE Crash
    BY <2>3, IdleSlots DEF Crash, SlotsInv
  <2> QED
    BY <2>1, <2>2, <2>3 DEF Next, vars, jobVars, LoaderAlone, ExtractorAlone, DailyAlone,
         IngestAlone, EditAlone, Delete, Environment
<1>3. SlotsInv => FlushPartition
  BY DEF SlotsInv, SlotsOf, AllBatches, AtWork, FlushPartition
<1> QED BY <1>1, <1>2, <1>3, Invariance, PTL DEF Spec

-----------------------------------------------------------------------------
(* The trading data never go back.                                         *)

\* a is no more recent than b, or than version v.
Behind(a, b) == a.open <= b.open /\ a.closed <= b.closed /\ a.stats <= b.stats

UpTo(a, v) == a.open <= v /\ a.closed <= v /\ a.stats <= v

\* What the database has is no more recent than what is buffered, that no more
\* than what there is at the broker.
OrderOfData ==
  \A l \in Logins :
    /\ UpTo(db[l], market[l])
    /\ buffer[l] # NoAccount => Behind(db[l], buffer[l]) /\ UpTo(buffer[l], market[l])

\* What a load is going to enter is what the database has.
LoadsAreCurrent ==
  \A l \in Logins :
    buffer[l] = NoAccount /\ loader.rows[l] # NoAccount => Trading(loader.rows[l]) = Trading(db[l])

\* What a run has fetched is no older than what it will replace; the objects it
\* has not come to are those of the buffer.
FetchesAreCurrent ==
  \A r \in Extractions, l \in Logins :
    /\ extraction[r].task[l] # "none" =>
         /\ buffer[l] # NoAccount /\ l \notin extraction[r].todo
         /\ Behind(buffer[l], extraction[r].acc[l]) /\ UpTo(extraction[r].acc[l], market[l])
    /\ l \in extraction[r].todo <=> held[r][l] = Live

\* What a flush has copied is between what is stored and what is buffered.
CopiesAreCurrent ==
  \A f \in Flushes, l \in Logins :
    flush[f].copy[l] # NoAccount =>
      /\ buffer[l] # NoAccount
      /\ Behind(db[l], flush[f].copy[l]) /\ Behind(flush[f].copy[l], buffer[l])

TradingInv == RunsApart /\ OrderOfData /\ LoadsAreCurrent /\ FetchesAreCurrent /\ CopiesAreCurrent

\* A step that leaves positions and metrics as they are everywhere.
DataKept ==
  /\ market' = market
  /\ \A l \in Logins :
       /\ buffer'[l] = NoAccount <=> buffer[l] = NoAccount
       /\ buffer[l] # NoAccount => Trading(buffer'[l]) = Trading(buffer[l])
       /\ Trading(db'[l]) = Trading(db[l])

LEMMA KeptData ==
  ASSUME DataKept, OrderOfData
  PROVE  OrderOfData' /\ UNCHANGED <<MarketData, BufferData, DiskData>>
<1>1. OrderOfData' BY DEF DataKept, OrderOfData, Trading, UpTo, Behind
<1>2. UNCHANGED MarketData BY DEF DataKept, MarketData
<1>3. UNCHANGED BufferData BY DEF DataKept, BufferData
<1>4. UNCHANGED DiskData BY DEF DataKept, DiskData
<1> QED BY <1>1, <1>2, <1>3, <1>4

LEMMA KeptLoads ==
  ASSUME DataKept, LoadsAreCurrent, \A l \in Logins : loader'.rows[l] \in {loader.rows[l], NoAccount}
  PROVE  LoadsAreCurrent'
BY DEF DataKept, LoadsAreCurrent

LEMMA KeptFetches ==
  ASSUME DataKept, FetchesAreCurrent, extraction' = extraction, \A r \in Extractions : held'[r] = held[r]
  PROVE  FetchesAreCurrent'
<1> SUFFICES ASSUME NEW r \in Extractions, NEW l \in Logins
             PROVE  /\ extraction[r].task[l] # "none" =>
                         /\ buffer'[l] # NoAccount /\ l \notin extraction[r].todo
                         /\ Behind(buffer'[l], extraction[r].acc[l])
                         /\ UpTo(extraction[r].acc[l], market'[l])
                    /\ l \in extraction[r].todo <=> held'[r][l] = Live
  BY DEF FetchesAreCurrent
<1>1. l \in extraction[r].todo <=> held'[r][l] = Live BY DEF FetchesAreCurrent
<1>2. CASE extraction[r].task[l] # "none"
  <2>1. Trading(buffer'[l]) = Trading(buffer[l]) /\ buffer'[l] # NoAccount
    BY <1>2 DEF DataKept, FetchesAreCurrent
  <2>2. /\ buffer'[l].open = buffer[l].open
        /\ buffer'[l].closed = buffer[l].closed
        /\ buffer'[l].stats = buffer[l].stats
    BY <2>1 DEF Trading
  <2> QED BY <1>1, <1>2, <2>1, <2>2 DEF DataKept, FetchesAreCurrent, Behind
<1> QED BY <1>1, <1>2

LEMMA KeptCopies ==
  ASSUME DataKept, CopiesAreCurrent, flush' = flush
  PROVE  CopiesAreCurrent'
BY DEF DataKept, CopiesAreCurrent, Trading, Behind

\* What a step must be for the abstraction.
Kept == TradingInv' /\ [Promise!Next]_<<MarketData, BufferData, DiskData>>

LEMMA KeptStep ==
  ASSUME DataKept, TradingInv, \A l \in Logins : loader'.rows[l] \in {loader.rows[l], NoAccount},
         extraction' = extraction, \A r \in Extractions : held'[r] = held[r], flush' = flush
  PROVE  Kept
BY KeptData, KeptLoads, KeptFetches, KeptCopies DEF TradingInv, RunsApart, Kept

\* The daily job, edits of a challenge, trades and crashes.
LEMMA DailyKeeps ==
  ASSUME Inv, Inv', TradingInv, DailyNext, DailyAlone
  PROVE  Kept
<1>1. /\ UNCHANGED <<loader, extraction, flush, market>>
      /\ \A r \in Extractions : held'[r] = held[r]
  BY JobsAssumption DEF DailyNext, DailyAlone, DailyStart, DailyLock, DailyFound, DailyUpdated, DailySkip, DailyWrite,
     DailyDone, bufferVars, sourceVars, Inv, TypeOK, BufferTypeOK
<1>2. \A l \in Logins : Trading(db'[l]) = Trading(db[l])
  <2>1. CASE DailyUpdated
    BY <2>1 DEF DailyUpdated, Trading, Inv, TypeOK, SourcesTypeOK, Row
  <2>2. CASE UNCHANGED db BY <2>2
  <2> QED BY <2>1, <2>2 DEF DailyNext, DailyStart, DailyLock, DailyFound, DailySkip, DailyWrite, DailyDone, sourceVars
<1>3. \A l \in Logins :
        /\ buffer'[l] = NoAccount <=> buffer[l] = NoAccount
        /\ buffer[l] # NoAccount => Trading(buffer'[l]) = Trading(buffer[l])
  <2>1. CASE DailyWrite /\ buffer' # buffer
    <3>1. PICK l \in Logins : /\ l = dailyJob.login /\ buffer[l] # NoAccount
      BY <2>1 DEF DailyWrite, Inv, DailyHoldsCurrent, InDailyLock
    <3>2. buffer' = [buffer EXCEPT ![l].daily = dailyJob.balance] BY <2>1, <3>1 DEF DailyWrite
    <3>3. buffer[l] \in Account BY <3>1 DEF Inv, TypeOK, BufferTypeOK
    <3>4. buffer'[l] = [buffer[l] EXCEPT !.daily = dailyJob.balance]
      BY <3>2 DEF Inv, TypeOK, BufferTypeOK
    <3>5. Trading(buffer'[l]) = Trading(buffer[l]) BY <3>3, <3>4 DEF Trading, Account
    <3>6. buffer'[l] # NoAccount
      <4>1. dailyJob.balance \in Nat BY DEF Inv, TypeOK, DailyTypeOK
      <4>2. buffer'[l] \in Account BY <3>3, <3>4, <4>1 DEF Account
      <4> QED BY <4>2, MarksAssumption
    <3>7. \A k \in Logins \ {l} : buffer'[k] = buffer[k] BY <3>2 DEF Inv, TypeOK, BufferTypeOK
    <3> QED BY <3>1, <3>5, <3>6, <3>7
  <2>2. CASE buffer' = buffer BY <2>2
  <2> QED BY <2>1, <2>2 DEF DailyNext, DailyStart, DailyLock, DailyFound, DailyUpdated, DailySkip, DailyDone, bufferVars
<1> QED BY <1>1, <1>2, <1>3, KeptStep DEF DataKept

LEMMA EditKeeps ==
  ASSUME Inv, TradingInv, EditNext, EditAlone
  PROVE  Kept
<1>1. UNCHANGED <<loader, extraction, flush, market, buffer, held>>
  BY DEF EditNext, EditAlone, EditDetails, SaveDetails, EditChallenge, SaveChallenge, EditFails, bufferVars, sourceVars
<1>2. "configure" \notin Jobs BY DEF TradingInv, RunsApart
<1>3. \A l \in Logins : Trading(db'[l]) = Trading(db[l])
  <2>1. CASE SaveChallenge
    BY <2>1 DEF SaveChallenge, Trading, Inv, TypeOK, SourcesTypeOK, Row
  <2>2. CASE UNCHANGED db BY <2>2
  <2> QED BY <2>1, <2>2, <1>2 DEF EditNext, EditChallenge, EditFails, sourceVars, TradingInv, RunsApart
<1> QED BY <1>1, <1>3, KeptStep DEF DataKept

\* What the loader does for the trading data: an account that is not there gets
\* those of the database, one that is there keeps its own.
LEMMA LoadKeeps ==
  ASSUME Inv, Inv', TradingInv, NEW l \in Logins, LoaderUpsert(l), LoaderAlone, buffer[l] = NoAccount
  PROVE  Kept
<1> USE MarksAssumption, JobsAssumption
<1> DEFINE a == loader.rows[l]
<1>1. /\ a \in Account /\ a # NoAccount /\ Trading(a) = Trading(db[l])
      /\ Replace(l, a)
      /\ loader'.rows = [loader.rows EXCEPT ![l] = NoAccount]
      /\ UNCHANGED <<market, db, extraction, flush>>
  BY DEF LoaderUpsert, LoaderAlone, sourceVars, Inv, TypeOK, LoaderTypeOK, TradingInv, LoadsAreCurrent
<1>2. loader.rows \in [Logins -> Account \cup {NoAccount}] BY DEF Inv, TypeOK, LoaderTypeOK
<1> HIDE DEF a
<1>3. /\ buffer' = [buffer EXCEPT ![l] = a]
      /\ \A r \in Extractions, k \in Logins : held'[r][k] = Live <=> held[r][k] = Live
  BY <1>1 DEF Replace, Seen, Inv, TypeOK, BufferTypeOK, RefsInv
<1>4. buffer'[l] = a /\ \A k \in Logins \ {l} : buffer'[k] = buffer[k]
  BY <1>3 DEF Inv, TypeOK, BufferTypeOK
<1>5. /\ a.open = db[l].open
      /\ a.closed = db[l].closed
      /\ a.stats = db[l].stats
  BY <1>1 DEF Trading
<1>6. \A k \in Logins : db[k] \in Row BY DEF Inv, TypeOK, SourcesTypeOK
<1>7. OrderOfData'
  BY <1>1, <1>4, <1>5, <1>6 DEF TradingInv, OrderOfData, UpTo, Behind, Row
<1>8. LoadsAreCurrent'
  <2> SUFFICES ASSUME NEW k \in Logins, buffer'[k] = NoAccount, loader'.rows[k] # NoAccount
               PROVE  Trading(loader'.rows[k]) = Trading(db'[k])
    BY DEF LoadsAreCurrent
  <2>1. k # l BY <1>1, <1>4
  <2> QED BY <2>1, <1>1, <1>2, <1>4 DEF TradingInv, LoadsAreCurrent
<1>9. FetchesAreCurrent'
  BY <1>1, <1>3, <1>4 DEF TradingInv, FetchesAreCurrent
<1>10. CopiesAreCurrent'
  BY <1>1, <1>4 DEF TradingInv, CopiesAreCurrent
<1>11. Promise!Load(l)
  <2>1. BufferData[l] = NoAccount BY DEF BufferData
  <2>2. BufferData'[l] = DiskData[l] BY <1>1, <1>4 DEF BufferData, DiskData
  <2>3. \A k \in Logins \ {l} : BufferData'[k] = BufferData[k] BY <1>4 DEF BufferData
  <2>4. BufferData' = [BufferData EXCEPT ![l] = DiskData[l]] BY <2>2, <2>3 DEF BufferData
  <2>5. UNCHANGED <<MarketData, DiskData>> BY <1>1 DEF MarketData, DiskData
  <2> QED BY <2>1, <2>4, <2>5 DEF Promise!Load
<1> QED BY <1>7, <1>8, <1>9, <1>10, <1>11 DEF Kept, TradingInv, RunsApart, Promise!Next

LEMMA LoaderKeeps ==
  ASSUME Inv, Inv', TradingInv, LoaderNext, LoaderAlone
  PROVE  Kept
<1> USE MarksAssumption, JobsAssumption
<1>1. CASE LoaderFind
  <2>1. UNCHANGED <<market, db, buffer, held, extraction, flush>>
    BY <1>1 DEF LoaderFind, LoaderAlone, bufferVars, sourceVars
  <2>2. LoadsAreCurrent'
    BY <1>1, <2>1 DEF LoaderFind, LoadsAreCurrent, mapChallengeToAccount, Trading
  <2>3. DataKept BY <2>1 DEF DataKept
  <2> QED BY <2>1, <2>2, <2>3, KeptData, KeptFetches, KeptCopies DEF TradingInv, RunsApart, Kept
<1>2. CASE LoaderRelations \/ LoaderFails \/ LoaderDone
  <2>1. UNCHANGED <<market, db, buffer, held, extraction, flush>>
    BY <1>2 DEF LoaderRelations, LoaderFails, LoaderDone, LoaderAlone, bufferVars, sourceVars
  <2>2. \A l \in Logins : loader'.rows[l] \in {loader.rows[l], NoAccount}
    BY <1>2 DEF LoaderRelations, LoaderFails, LoaderDone, LoaderIdle, NoRefs, Inv, TypeOK, LoaderTypeOK
  <2>3. DataKept BY <2>1 DEF DataKept
  <2> QED BY <2>1, <2>2, <2>3, KeptStep
<1>3. ASSUME NEW l \in Logins, LoaderUpsert(l), buffer[l] # NoAccount PROVE Kept
  <2> DEFINE a == [buffer[l] EXCEPT !.conf = loader.rows[l].conf, !.time = loader.rows[l].time]
  <2>1. /\ buffer' = [buffer EXCEPT ![l] = a]
        /\ UNCHANGED <<market, db, held, extraction, flush>>
        /\ loader'.rows = [loader.rows EXCEPT ![l] = NoAccount]
    BY <1>3 DEF LoaderUpsert, LoaderAlone, sourceVars, ChangeInPlace, Inv, TypeOK, LoaderTypeOK
  <2>2. buffer[l] \in Account BY <1>3 DEF Inv, TypeOK, BufferTypeOK
  <2>3. Trading(a) = Trading(buffer[l]) BY <2>2 DEF Trading, Account
  <2>4. loader.rows[l] \in Account BY <1>3 DEF LoaderUpsert, Inv, TypeOK, LoaderTypeOK
  <2>5. a \in Account BY <2>2, <2>4 DEF Account
  <2> HIDE DEF a
  <2>6. buffer'[l] = a /\ \A k \in Logins \ {l} : buffer'[k] = buffer[k]
    BY <2>1 DEF Inv, TypeOK, BufferTypeOK
  <2>7. DataKept BY <1>3, <2>1, <2>3, <2>5, <2>6 DEF DataKept
  <2>8. \A k \in Logins : loader'.rows[k] \in {loader.rows[k], NoAccount}
    BY <2>1 DEF Inv, TypeOK, LoaderTypeOK
  <2> QED BY <2>1, <2>7, <2>8, KeptStep
<1> QED BY <1>1, <1>2, <1>3, LoadKeeps DEF LoaderNext

\* An answer is no older than the snapshot it is mapped on, and no newer than the
\* account at the broker.
LEMMA MapperGrows ==
  ASSUME NEW a \in Account, NEW v \in Nat \ {0}, NEW n \in {v, v - 1}, NEW missing \in BOOLEAN, UpTo(a, v)
  PROVE  LET m == mapBrokeretDataToAccount(a, v, n, missing) IN Behind(a, m) /\ UpTo(m, v)
BY DEF UpTo, Behind, mapBrokeretDataToAccount, Account

\* A batch of a run starts, from the objects in the buffer.
LEMMA LaunchKeeps ==
  ASSUME Inv, TradingInv, NEW r \in Extractions, NEW b \in SUBSET Logins, NEW rest \in SUBSET Logins,
         NEW object, Launch(r, b, rest, object), b \cap rest = {},
         \A l \in b : object[l] = buffer[l] /\ buffer[l] # NoAccount,
         \A l \in Logins : held'[r][l] = Live <=> l \in rest,
         UNCHANGED <<buffer, market, db, loader, flush>>
  PROVE  Kept
<1> USE MarksAssumption, JobsAssumption
<1>1. DataKept BY DEF DataKept
<1>2. FetchesAreCurrent'
  <2> SUFFICES ASSUME NEW l \in Logins
               PROVE  /\ extraction'[r].task[l] # "none" =>
                           /\ buffer[l] # NoAccount /\ l \notin extraction'[r].todo
                           /\ Behind(buffer[l], extraction'[r].acc[l])
                           /\ UpTo(extraction'[r].acc[l], market[l])
                      /\ l \in extraction'[r].todo <=> held'[r][l] = Live
    BY DEF FetchesAreCurrent, TradingInv, RunsApart
  <2>1. extraction'[r] = [todo |-> rest,
                          task |-> [k \in Logins |-> IF k \in b THEN "calling" ELSE "none"],
                          acc  |-> [k \in Logins |-> IF k \in b THEN object[k] ELSE NoAccount]]
    BY DEF Launch, Inv, TypeOK, ExtractionTypeOK
  <2>2. CASE l \in b
    <3>1. buffer[l] \in Account /\ UpTo(buffer[l], market[l])
      BY <2>2 DEF Inv, TypeOK, BufferTypeOK, TradingInv, OrderOfData
    <3>2. Behind(buffer[l], buffer[l]) BY <3>1 DEF Behind, Account
    <3> QED BY <2>1, <2>2, <3>1, <3>2
  <2>3. CASE l \notin b BY <2>1, <2>3
  <2> QED BY <2>2, <2>3
<1>3. \A l \in Logins : loader'.rows[l] \in {loader.rows[l], NoAccount} OBVIOUS
<1> QED BY <1>1, <1>2, <1>3, KeptData, KeptLoads, KeptCopies DEF TradingInv, RunsApart, Kept

\* A processor goes from the call to the write.
LEMMA AnswerKeeps ==
  ASSUME Inv, TradingInv, NEW r \in Extractions, NEW l \in Logins, NEW a,
         extraction[r].task[l] # "none",
         extraction'[r].todo = extraction[r].todo,
         extraction'[r].task = [extraction[r].task EXCEPT ![l] = "writing"],
         extraction'[r].acc = [extraction[r].acc EXCEPT ![l] = a],
         Behind(buffer[l], a), UpTo(a, market[l]),
         UNCHANGED <<buffer, held, market, db, loader, flush>>
  PROVE  Kept
<1> USE MarksAssumption, JobsAssumption
<1>1. DataKept BY DEF DataKept
<1>2. FetchesAreCurrent'
  <2>1. \A k \in Logins \ {l} : /\ extraction'[r].task[k] = extraction[r].task[k]
                                /\ extraction'[r].acc[k] = extraction[r].acc[k]
    BY DEF Inv, TypeOK, ExtractionTypeOK
  <2>2. extraction'[r].task[l] = "writing" /\ extraction'[r].acc[l] = a
    BY DEF Inv, TypeOK, ExtractionTypeOK
  <2>3. \A q \in Extractions : q = r BY DEF TradingInv, RunsApart
  <2>4. ASSUME NEW k \in Logins
        PROVE  /\ extraction'[r].task[k] # "none" =>
                    /\ buffer[k] # NoAccount /\ k \notin extraction[r].todo
                    /\ Behind(buffer[k], extraction'[r].acc[k])
                    /\ UpTo(extraction'[r].acc[k], market[k])
               /\ k \in extraction[r].todo <=> held[r][k] = Live
    <3>1. /\ extraction[r].task[k] # "none" =>
               /\ buffer[k] # NoAccount /\ k \notin extraction[r].todo
               /\ Behind(buffer[k], extraction[r].acc[k])
               /\ UpTo(extraction[r].acc[k], market[k])
          /\ k \in extraction[r].todo <=> held[r][k] = Live
      BY DEF FetchesAreCurrent, TradingInv
    <3>2. CASE k = l BY <2>2, <3>1, <3>2
    <3>3. CASE k # l BY <2>1, <3>1, <3>3
    <3> QED BY <3>2, <3>3
  <2> QED BY <2>3, <2>4 DEF FetchesAreCurrent
<1>3. \A k \in Logins : loader'.rows[k] \in {loader.rows[k], NoAccount} OBVIOUS
<1> QED BY <1>1, <1>2, <1>3, KeptData, KeptLoads, KeptCopies DEF TradingInv, RunsApart, Kept

\* A processor writes its account.
LEMMA WriteKeeps ==
  ASSUME Inv, Inv', TradingInv, NEW r \in Extractions, NEW l \in Logins, ExtractionWrite(r, l), ExtractorAlone
  PROVE  Kept
<1> USE MarksAssumption, JobsAssumption
<1> DEFINE a == extraction[r].acc[l]
<1>1. /\ a \in Account
      /\ buffer[l] # NoAccount /\ buffer[l] \in Account
      /\ l \notin extraction[r].todo
      /\ Behind(buffer[l], a) /\ UpTo(a, market[l])
  BY DEF ExtractionWrite, Inv, TypeOK, ExtractionTypeOK, BufferTypeOK, TaskHasAccount, TradingInv, FetchesAreCurrent
<1>2. /\ Replace(l, a)
      /\ extraction' = [extraction EXCEPT ![r].task[l] = "none", ![r].acc[l] = NoAccount]
      /\ UNCHANGED <<market, db, loader, flush>>
  BY DEF ExtractionWrite, ExtractorAlone, sourceVars
<1>3. /\ extraction'[r].todo = extraction[r].todo
      /\ extraction'[r].task = [extraction[r].task EXCEPT ![l] = "none"]
      /\ extraction'[r].acc = [extraction[r].acc EXCEPT ![l] = NoAccount]
  BY <1>2 DEF Inv, TypeOK, ExtractionTypeOK
<1>4. /\ extraction'[r].task[l] = "none"
      /\ \A k \in Logins \ {l} : /\ extraction'[r].task[k] = extraction[r].task[k]
                                 /\ extraction'[r].acc[k] = extraction[r].acc[k]
  BY <1>3 DEF Inv, TypeOK, ExtractionTypeOK
<1> HIDE DEF a
<1>5. /\ buffer' = [buffer EXCEPT ![l] = a]
      /\ held'[r][l] # Live
      /\ \A k \in Logins \ {l} : held'[r][k] = held[r][k]
  BY <1>1, <1>2 DEF Replace, Seen, Inv, TypeOK, BufferTypeOK, TradingInv, FetchesAreCurrent
<1>6. buffer'[l] = a /\ \A k \in Logins \ {l} : buffer'[k] = buffer[k]
  BY <1>5 DEF Inv, TypeOK, BufferTypeOK
<1>7. OrderOfData'
  <2>1. db[l] \in Row /\ Behind(db[l], buffer[l]) BY <1>1 DEF Inv, TypeOK, SourcesTypeOK, TradingInv, OrderOfData
  <2>2. Behind(db[l], a) BY <1>1, <2>1 DEF Behind, Row, Account
  <2> QED BY <1>1, <1>2, <1>6, <2>2 DEF TradingInv, OrderOfData
<1>8. LoadsAreCurrent'
  BY <1>1, <1>2, <1>6 DEF TradingInv, LoadsAreCurrent
<1>9. FetchesAreCurrent'
  <2>1. \A q \in Extractions : q = r BY DEF TradingInv, RunsApart
  <2>2. ASSUME NEW k \in Logins
        PROVE  /\ extraction'[r].task[k] # "none" =>
                    /\ buffer'[k] # NoAccount /\ k \notin extraction'[r].todo
                    /\ Behind(buffer'[k], extraction'[r].acc[k])
                    /\ UpTo(extraction'[r].acc[k], market'[k])
               /\ k \in extraction'[r].todo <=> held'[r][k] = Live
    <3>1. /\ extraction[r].task[k] # "none" =>
               /\ buffer[k] # NoAccount /\ k \notin extraction[r].todo
               /\ Behind(buffer[k], extraction[r].acc[k])
               /\ UpTo(extraction[r].acc[k], market[k])
          /\ k \in extraction[r].todo <=> held[r][k] = Live
      BY DEF FetchesAreCurrent, TradingInv
    <3>2. CASE k = l BY <1>1, <1>3, <1>4, <1>5, <3>2
    <3>3. CASE k # l BY <1>2, <1>3, <1>4, <1>5, <1>6, <3>1, <3>3
    <3> QED BY <3>2, <3>3
  <2> QED BY <2>1, <2>2 DEF FetchesAreCurrent
<1>10. CopiesAreCurrent'
  <2> SUFFICES ASSUME NEW f \in Flushes, NEW k \in Logins, flush[f].copy[k] # NoAccount
               PROVE  /\ buffer'[k] # NoAccount
                      /\ Behind(db[k], flush[f].copy[k]) /\ Behind(flush[f].copy[k], buffer'[k])
    BY <1>2 DEF CopiesAreCurrent
  <2>1. /\ buffer[k] # NoAccount
        /\ Behind(db[k], flush[f].copy[k]) /\ Behind(flush[f].copy[k], buffer[k])
    BY DEF TradingInv, CopiesAreCurrent
  <2>2. flush[f].copy[k] \in Account BY DEF Inv, TypeOK, FlushTypeOK
  <2>3. CASE k = l BY <1>1, <1>6, <2>1, <2>2, <2>3 DEF Behind, Account
  <2>4. CASE k # l BY <1>6, <2>1, <2>4
  <2> QED BY <2>3, <2>4
<1>11. Promise!Refresh(l)
  <2>1. BufferData[l] = Trading(buffer[l]) /\ BufferData'[l] = Trading(a)
    BY <1>1, <1>6 DEF BufferData
  <2>2. Trading(a) \in Promise!Data /\ Trading(buffer[l]) \in Promise!Data
    BY <1>1 DEF Trading, Account, Promise!Data
  <2>3. BufferData[l] # NoAccount BY <2>1, <2>2 DEF Promise!Data
  <2>4. \A k \in Logins \ {l} : BufferData'[k] = BufferData[k] BY <1>6 DEF BufferData
  <2>5. BufferData' = [BufferData EXCEPT ![l] = BufferData'[l]] BY <2>4 DEF BufferData
  <2>6. Promise!AtMost(BufferData[l], BufferData'[l]) BY <1>1, <2>1 DEF Promise!AtMost, Behind, Trading
  <2>7. Promise!AtMost(BufferData'[l], MarketData[l]) BY <1>1, <2>1 DEF Promise!AtMost, UpTo, Trading, MarketData
  <2>8. UNCHANGED <<MarketData, DiskData>> BY <1>2 DEF MarketData, DiskData
  <2> QED BY <2>1, <2>2, <2>3, <2>5, <2>6, <2>7, <2>8 DEF Promise!Refresh
<1> QED BY <1>7, <1>8, <1>9, <1>10, <1>11 DEF Kept, TradingInv, RunsApart, Promise!Next

LEMMA ExtractorKeeps ==
  ASSUME Inv, Inv', TradingInv, ExtractionNext, ExtractorAlone
  PROVE  Kept
<1> USE MarksAssumption, JobsAssumption
<1> SUFFICES ASSUME NEW r \in Extractions,
                    \/ ExtractionStart(r) \/ ExtractionNextBatch(r)
                    \/ \E l \in Logins : \/ ApiAnswersInFull(r, l) \/ ApiAnswersInPart(r, l)
                                         \/ ApiFails(r, l) \/ ExtractionWrite(r, l)
             PROVE  Kept
  BY DEF ExtractionNext
<1>1. UNCHANGED <<loader, flush>> BY DEF ExtractorAlone
<1>2. CASE ExtractionStart(r)
  <2>1. PICK b \in Batches(Buffered) :
          /\ Launch(r, b, Buffered \ b, buffer)
          /\ held' = [held EXCEPT ![r] = [l \in Logins |-> IF l \in Buffered \ b THEN Live ELSE NoAccount]]
    BY <1>2 DEF ExtractionStart
  <2>2. b \subseteq Buffered /\ Buffered \subseteq Logins BY DEF Batches, Buffered
  <2>3. \A l \in Logins : held'[r][l] = Live <=> l \in Buffered \ b
    BY <2>1 DEF Inv, TypeOK, BufferTypeOK
  <2>4. \A l \in b : buffer[l] = buffer[l] /\ buffer[l] # NoAccount BY <2>2 DEF Buffered
  <2>5. UNCHANGED <<buffer, market, db>> BY <1>2 DEF ExtractionStart, sourceVars
  <2> QED BY <1>1, <2>1, <2>2, <2>3, <2>4, <2>5, LaunchKeeps
<1>3. CASE ExtractionNextBatch(r)
  <2> DEFINE object == [l \in Logins |-> Seen(r, l)]
  <2>1. PICK b \in Batches(extraction[r].todo) :
          /\ Launch(r, b, extraction[r].todo \ b, object)
          /\ held' = [held EXCEPT ![r] = [l \in Logins |-> IF l \in b THEN NoAccount ELSE @[l]]]
    BY <1>3 DEF ExtractionNextBatch
  <2>2. b \subseteq extraction[r].todo /\ extraction[r].todo \subseteq Logins
    BY DEF Batches, Inv, TypeOK, ExtractionTypeOK
  <2>3. \A l \in Logins : held'[r][l] = Live <=> l \in extraction[r].todo \ b
    BY <2>1, <2>2 DEF Inv, TypeOK, BufferTypeOK, TradingInv, FetchesAreCurrent
  <2>4. \A l \in b : object[l] = buffer[l] /\ buffer[l] # NoAccount
    BY <2>2 DEF Seen, TradingInv, FetchesAreCurrent, Inv, RefsInv
  <2>5. UNCHANGED <<buffer, market, db>> BY <1>3 DEF ExtractionNextBatch, sourceVars
  <2> HIDE DEF object
  <2> QED BY <1>1, <2>1, <2>2, <2>3, <2>4, <2>5, LaunchKeeps
<1>4. ASSUME NEW l \in Logins, NEW n \in {market[l], market[l] - 1}, NEW missing \in BOOLEAN,
             ApiAnswers(r, l, n, missing)
      PROVE  Kept
  <2> DEFINE a == extraction[r].acc[l]
             m == mapBrokeretDataToAccount(a, market[l], n, missing)
  <2>1. /\ extraction[r].task[l] = "calling"
        /\ UNCHANGED <<buffer, held, market, db>>
    BY <1>4 DEF ApiAnswers, bufferVars, sourceVars
  <2>2. /\ extraction'[r].todo = extraction[r].todo
        /\ extraction'[r].task = [extraction[r].task EXCEPT ![l] = "writing"]
        /\ extraction'[r].acc = [extraction[r].acc EXCEPT ![l] = m]
    BY <1>4 DEF ApiAnswers, Inv, TypeOK, ExtractionTypeOK
  <2>3. /\ a \in Account /\ buffer[l] \in Account
        /\ Behind(buffer[l], a) /\ UpTo(a, market[l])
        /\ market[l] \in Nat \ {0}
    BY <2>1 DEF Inv, TypeOK, ExtractionTypeOK, BufferTypeOK, SourcesTypeOK, TaskHasAccount, TradingInv, FetchesAreCurrent
  <2>4. Behind(a, m) /\ UpTo(m, market[l]) BY <2>3, MapperGrows
  <2>5. m \in Account BY <2>3, MapperType
  <2> HIDE DEF a, m
  <2>6. Behind(buffer[l], m) BY <2>3, <2>4, <2>5 DEF Behind, Account
  <2> QED BY <1>1, <2>1, <2>2, <2>4, <2>6, AnswerKeeps
<1>5. ASSUME NEW l \in Logins, ApiFails(r, l) PROVE Kept
  <2>1. /\ extraction[r].task[l] = "calling"
        /\ extraction' = [extraction EXCEPT ![r].task[l] = "writing"]
        /\ UNCHANGED <<buffer, held, market, db>>
    BY <1>5 DEF ApiFails, bufferVars, sourceVars
  <2>2. Behind(buffer[l], extraction[r].acc[l]) /\ UpTo(extraction[r].acc[l], market[l])
    BY <2>1 DEF TradingInv, FetchesAreCurrent
  <2>3. /\ extraction'[r].todo = extraction[r].todo
        /\ extraction'[r].task = [extraction[r].task EXCEPT ![l] = "writing"]
        /\ extraction'[r].acc = [extraction[r].acc EXCEPT ![l] = extraction[r].acc[l]]
    BY <2>1 DEF Inv, TypeOK, ExtractionTypeOK
  <2> QED BY <1>1, <2>1, <2>2, <2>3, AnswerKeeps
<1>6. ASSUME NEW l \in Logins, ApiAnswersInFull(r, l) \/ ApiAnswersInPart(r, l) PROVE Kept
  BY <1>4, <1>6 DEF ApiAnswersInFull, ApiAnswersInPart
<1> QED BY <1>2, <1>3, <1>5, <1>6, WriteKeeps

\* Steps of a flush that do not write.
LEMMA FlushWaits ==
  ASSUME Inv, TradingInv, UNCHANGED <<buffer, held, market, db, loader, extraction>>, CopiesAreCurrent'
  PROVE  Kept
<1>1. DataKept BY DEF DataKept
<1>2. \A k \in Logins : loader'.rows[k] \in {loader.rows[k], NoAccount} OBVIOUS
<1> QED BY <1>1, <1>2, KeptData, KeptLoads, KeptFetches DEF TradingInv, RunsApart, Kept

\* Batches change places without a copy being touched.
LEMMA CopyKept ==
  ASSUME Inv, NEW f \in Flushes, NEW b, NEW s,
         \/ flush' = [flush EXCEPT ![f].wait = @ \ {b}, ![f].query = @ \cup {b}]
         \/ flush' = [flush EXCEPT ![f].query = @ \ {b}, ![f].save = @ \cup {b}, ![f].found = @ \cup s]
  PROVE  flush'[f].copy = flush[f].copy
<1>1. flush \in [Flushes -> [copy : [Logins -> Account \cup {NoAccount}],
                            wait : SUBSET SUBSET Logins, query : SUBSET SUBSET Logins,
                            save : SUBSET SUBSET Logins, found : SUBSET Logins]]
  BY DEF Inv, TypeOK, FlushTypeOK
<1> QED BY <1>1

\* A batch that is over keeps no copy.
LEMMA LeaveCopies ==
  ASSUME Inv, NEW f \in Flushes, NEW b \in SUBSET Logins, FlushLeave(f, b)
  PROVE  \A l \in Logins : flush'[f].copy[l] = IF l \in b THEN NoAccount ELSE flush[f].copy[l]
BY DEF FlushLeave, Inv, TypeOK, FlushTypeOK

\* A batch is stored.
LEMMA SaveKeeps ==
  ASSUME Inv, Inv', TradingInv, NEW f \in Flushes, NEW b \in SUBSET Logins, FlushSaved(f, b), FlushAlone
  PROVE  Kept
<1> USE MarksAssumption, JobsAssumption
<1> DEFINE s == b \cap flush[f].found
<1>1. /\ b \in flush[f].save
      /\ FlushLeave(f, b)
      /\ UNCHANGED <<buffer, held, market, loader, extraction>>
  BY DEF FlushSaved, FlushAlone, bufferVars
<1>2. \A l \in Logins : flush'[f].copy[l] = IF l \in b THEN NoAccount ELSE flush[f].copy[l]
  BY <1>1, LeaveCopies
<1>3. \A l \in Logins : db[l] \in Row /\ db'[l] \in Row /\ (buffer[l] # NoAccount => buffer[l] \in Account)
  BY DEF Inv, TypeOK, SourcesTypeOK, BufferTypeOK
<1>4. \A l \in Logins \ s : db'[l] = db[l] BY DEF FlushSaved
<1>5. ASSUME NEW l \in s
      PROVE  /\ buffer[l] # NoAccount /\ buffer[l] \in Account
             /\ Behind(db[l], db'[l]) /\ Behind(db'[l], buffer[l])
  <2>1. flush[f].copy[l] # NoAccount BY <1>1 DEF Inv, BatchesInv
  <2>2. /\ buffer[l] # NoAccount
        /\ Behind(db[l], flush[f].copy[l]) /\ Behind(flush[f].copy[l], buffer[l])
    BY <2>1 DEF TradingInv, CopiesAreCurrent
  <2>3. db[l] \in Row BY <1>3
  <2>4. /\ db'[l].open = flush[f].copy[l].open
        /\ db'[l].closed = flush[f].copy[l].closed
        /\ db'[l].stats = flush[f].copy[l].stats
    <3>1. db'[l] = [db[l] EXCEPT !.details = TRUE,
                                 !.open = flush[f].copy[l].open,
                                 !.closed = flush[f].copy[l].closed,
                                 !.stats = flush[f].copy[l].stats,
                                 !.time = flush[f].copy[l].time]
      BY DEF FlushSaved
    <3> QED BY <2>3, <3>1 DEF Row
  <2> QED BY <1>3, <2>2, <2>4 DEF Behind
<1> HIDE DEF s
<1>6. OrderOfData'
  <2> SUFFICES ASSUME NEW l \in Logins
               PROVE  /\ UpTo(db'[l], market[l])
                      /\ buffer[l] # NoAccount => Behind(db'[l], buffer[l]) /\ UpTo(buffer[l], market[l])
    BY <1>1 DEF OrderOfData
  <2>1. CASE l \in s
    <3>1. UpTo(buffer[l], market[l]) /\ market[l] \in Nat
      BY <1>5, <2>1 DEF TradingInv, OrderOfData, Inv, TypeOK, SourcesTypeOK
    <3>2. UpTo(db'[l], market[l]) BY <1>3, <1>5, <2>1, <3>1 DEF UpTo, Behind, Row, Account
    <3> QED BY <1>5, <2>1, <3>1, <3>2
  <2>2. CASE l \notin s BY <1>4, <2>2 DEF TradingInv, OrderOfData
  <2> QED BY <2>1, <2>2
<1>7. LoadsAreCurrent'
  <2>1. ASSUME NEW l \in Logins, buffer[l] = NoAccount PROVE db'[l] = db[l] BY <1>4, <1>5, <2>1
  <2> QED BY <1>1, <2>1 DEF TradingInv, LoadsAreCurrent
<1>8. FetchesAreCurrent' BY <1>1 DEF TradingInv, FetchesAreCurrent
<1>9. CopiesAreCurrent'
  <2>1. \A g \in Flushes : g = f BY DEF TradingInv, RunsApart
  <2>2. ASSUME NEW l \in Logins, flush'[f].copy[l] # NoAccount
        PROVE  /\ buffer[l] # NoAccount
               /\ Behind(db'[l], flush'[f].copy[l]) /\ Behind(flush'[f].copy[l], buffer[l])
    <3>1. l \notin b /\ flush'[f].copy[l] = flush[f].copy[l] BY <1>2, <2>2
    <3>2. db'[l] = db[l] BY <1>4, <3>1 DEF s
    <3> QED BY <2>2, <3>1, <3>2 DEF TradingInv, CopiesAreCurrent
  <2> QED BY <1>1, <2>1, <2>2 DEF CopiesAreCurrent
<1>10. Promise!Store
  <2>1. DiskData' \in [Logins -> Promise!Data] BY <1>3 DEF DiskData, Trading, Row, Promise!Data
  <2>2. ASSUME NEW l \in Logins
        PROVE  \/ DiskData'[l] = DiskData[l]
               \/ /\ BufferData[l] # NoAccount
                  /\ Promise!AtMost(DiskData[l], DiskData'[l])
                  /\ Promise!AtMost(DiskData'[l], BufferData[l])
    <3>1. CASE l \notin s BY <1>4, <3>1 DEF DiskData
    <3>2. CASE l \in s
      <4>1. BufferData[l] = Trading(buffer[l]) BY <1>5, <3>2 DEF BufferData
      <4>2. Trading(buffer[l]) \in Promise!Data BY <1>5, <3>2 DEF Trading, Account, Promise!Data
      <4>3. BufferData[l] # NoAccount BY <4>1, <4>2 DEF Promise!Data
      <4>4. DiskData[l] = Trading(db[l]) /\ DiskData'[l] = Trading(db'[l]) BY DEF DiskData
      <4> QED BY <1>5, <3>2, <4>1, <4>3, <4>4 DEF Promise!AtMost, Behind, Trading
    <3> QED BY <3>1, <3>2
  <2>3. UNCHANGED <<MarketData, BufferData>> BY <1>1 DEF MarketData, BufferData
  <2> QED BY <2>1, <2>2, <2>3 DEF Promise!Store
<1> QED BY <1>6, <1>7, <1>8, <1>9, <1>10 DEF Kept, TradingInv, RunsApart, Promise!Next

LEMMA FlushKeeps ==
  ASSUME Inv, Inv', TradingInv, FlushNext, FlushAlone
  PROVE  Kept
<1> USE MarksAssumption, JobsAssumption
<1> SUFFICES ASSUME NEW f \in Flushes,
                    \/ FlushStart(f)
                    \/ \E b \in SUBSET Logins :
                         FlushTakeSlot(f, b) \/ FlushFound(f, b) \/ FlushSaved(f, b) \/ FlushFails(f, b)
             PROVE  Kept
  BY DEF FlushNext
<1>1. UNCHANGED <<loader, extraction>> /\ \A g \in Flushes : g = f
  BY DEF FlushAlone, TradingInv, RunsApart
<1>2. CASE FlushStart(f)
  <2>1. UNCHANGED <<buffer, held, market, db>> BY <1>2 DEF FlushStart, bufferVars, sourceVars
  <2>2. flush'[f].copy = [l \in Logins |-> IF l \in Dirty THEN buffer[l] ELSE NoAccount]
    <3>1. PICK p \in createBatches(Dirty) :
            flush' = [flush EXCEPT ![f] =
              [copy |-> [l \in Logins |-> IF l \in Dirty THEN buffer[l] ELSE NoAccount],
               wait |-> p, query |-> {}, save |-> {}, found |-> {}]]
      BY <1>2 DEF FlushStart, FlushIdle
    <3> QED BY <3>1 DEF Inv, TypeOK, FlushTypeOK
  <2>3. ASSUME NEW l \in Logins, flush'[f].copy[l] # NoAccount
        PROVE  /\ buffer[l] # NoAccount
               /\ Behind(db[l], flush'[f].copy[l]) /\ Behind(flush'[f].copy[l], buffer[l])
    <3>1. flush'[f].copy[l] = buffer[l] /\ buffer[l] # NoAccount BY <2>2, <2>3
    <3>2. buffer[l] \in Account /\ Behind(db[l], buffer[l])
      BY <3>1 DEF Inv, TypeOK, BufferTypeOK, TradingInv, OrderOfData
    <3> QED BY <3>1, <3>2 DEF Behind, Account
  <2>4. CopiesAreCurrent' BY <1>1, <2>1, <2>3 DEF CopiesAreCurrent
  <2> QED BY <1>1, <2>1, <2>4, FlushWaits
<1>3. ASSUME NEW b \in SUBSET Logins, FlushTakeSlot(f, b) \/ FlushFound(f, b) \/ FlushFails(f, b)
      PROVE  Kept
  <2>1. UNCHANGED <<buffer, held, market, db>>
    BY <1>3 DEF FlushTakeSlot, FlushFound, FlushFails, bufferVars, sourceVars
  <2>2. \A l \in Logins : flush'[f].copy[l] \in {flush[f].copy[l], NoAccount}
    <3>1. CASE FlushLeave(f, b) BY <3>1, LeaveCopies
    <3>2. CASE flush'[f].copy = flush[f].copy BY <3>2
    <3>3. FlushTakeSlot(f, b) => flush'[f].copy = flush[f].copy
      <4>1. SUFFICES ASSUME flush' = [flush EXCEPT ![f].wait = @ \ {b}, ![f].query = @ \cup {b}]
                     PROVE  flush'[f].copy = flush[f].copy
        BY DEF FlushTakeSlot
      <4> QED BY <4>1, CopyKept
    <3>4. FlushFound(f, b) => FlushLeave(f, b) \/ flush'[f].copy = flush[f].copy
      <4>1. PICK s : s = {l \in b : db[l].active} OBVIOUS
      <4>2. ASSUME FlushFound(f, b), ~FlushLeave(f, b)
            PROVE  flush' = [flush EXCEPT ![f].query = @ \ {b}, ![f].save = @ \cup {b},
                                          ![f].found = @ \cup s]
        BY <4>1, <4>2 DEF FlushFound
      <4> QED BY <4>2, CopyKept
    <3> QED BY <1>3, <3>1, <3>2, <3>3, <3>4 DEF FlushFails
  <2>3. CopiesAreCurrent' BY <1>1, <2>1, <2>2 DEF TradingInv, CopiesAreCurrent
  <2> QED BY <1>1, <2>1, <2>3, FlushWaits
<1> QED BY <1>2, <1>3, SaveKeeps

\* Trades and crashes.
LEMMA TradeKeeps ==
  ASSUME Inv, Inv', TradingInv, Environment
  PROVE  Kept
<1> USE MarksAssumption, JobsAssumption
<1>1. PICK l \in Logins : market' = [market EXCEPT ![l] = @ + 1]
  BY DEF Environment, Trade
<1>2. UNCHANGED <<buffer, held, db, loader, extraction, flush>>
  BY DEF Environment, Trade, bufferVars, jobVars
<1>3. \A k \in Logins : market[k] \in Nat /\ market'[k] \in Nat /\ market[k] <= market'[k]
  BY <1>1 DEF Inv, TypeOK, SourcesTypeOK
<1>4. \A k \in Logins : /\ db[k] \in Row
                        /\ buffer[k] # NoAccount => buffer[k] \in Account
                        /\ \A r \in Extractions :
                             extraction[r].task[k] # "none" => extraction[r].acc[k] \in Account
  BY DEF Inv, TypeOK, SourcesTypeOK, BufferTypeOK, ExtractionTypeOK, TaskHasAccount
<1>5. OrderOfData'
  BY <1>2, <1>3, <1>4 DEF TradingInv, OrderOfData, UpTo, Row, Account
<1>6. LoadsAreCurrent' BY <1>2 DEF TradingInv, LoadsAreCurrent
<1>7. FetchesAreCurrent'
  BY <1>2, <1>3, <1>4 DEF TradingInv, FetchesAreCurrent, UpTo, Account
<1>8. CopiesAreCurrent' BY <1>2 DEF TradingInv, CopiesAreCurrent
<1>9. Promise!Advance
  <2>1. MarketData' \in [Logins -> Promise!Data] BY <1>3 DEF MarketData, Promise!Data
  <2>2. \A k \in Logins : Promise!AtMost(MarketData[k], MarketData'[k])
    BY <1>3 DEF MarketData, Promise!AtMost
  <2>3. UNCHANGED <<BufferData, DiskData>> BY <1>2 DEF BufferData, DiskData
  <2> QED BY <2>1, <2>2, <2>3 DEF Promise!Advance
<1> QED BY <1>5, <1>6, <1>7, <1>8, <1>9 DEF Kept, TradingInv, RunsApart, Promise!Next

\* A process that has just started has nothing that could be out of date.
LEMMA FreshTrading ==
  ASSUME buffer = NoRefs, loader = LoaderIdle, \A h \in Holders : held[h] = NoRefs,
         extraction = [r \in Extractions |-> ExtractionIdle], flush = [f \in Flushes |-> FlushIdle]
  PROVE  LoadsAreCurrent /\ FetchesAreCurrent /\ CopiesAreCurrent
BY MarksAssumption, JobsAssumption
   DEF NoRefs, LoaderIdle, ExtractionIdle, FlushIdle, LoadsAreCurrent, FetchesAreCurrent, CopiesAreCurrent

LEMMA CrashKeeps ==
  ASSUME Inv, Inv', TradingInv, Crash
  PROVE  Kept
<1> USE MarksAssumption, JobsAssumption
<1>1. /\ buffer' = NoRefs /\ loader' = LoaderIdle
      /\ \A h \in Holders : held'[h] = NoRefs
      /\ extraction' = [r \in Extractions |-> ExtractionIdle]
      /\ flush' = [f \in Flushes |-> FlushIdle]
      /\ UNCHANGED <<market, db>>
  BY DEF Crash, sourceVars
<1>2. OrderOfData' BY <1>1 DEF NoRefs, TradingInv, OrderOfData
<1>3. LoadsAreCurrent' /\ FetchesAreCurrent' /\ CopiesAreCurrent'
  BY <1>1 DEF NoRefs, LoaderIdle, ExtractionIdle, FlushIdle, LoadsAreCurrent, FetchesAreCurrent, CopiesAreCurrent
<1>4. Promise!Lose
  <2>1. BufferData' = [l \in Logins |-> NoAccount] BY <1>1 DEF BufferData, NoRefs
  <2>2. UNCHANGED <<MarketData, DiskData>> BY <1>1 DEF MarketData, DiskData
  <2> QED BY <2>1, <2>2 DEF Promise!Lose
<1> QED BY <1>2, <1>3, <1>4 DEF Kept, TradingInv, RunsApart, Promise!Next

LEMMA NextKeeps ==
  ASSUME Inv, Inv', TradingInv, [Next]_vars
  PROVE  Kept
<1>1. CASE UNCHANGED vars
  <2>1. UNCHANGED <<loader, extraction, flush, buffer, held, market, db>>
    BY <1>1 DEF vars, bufferVars, sourceVars, jobVars
  <2>2. DataKept BY <2>1 DEF DataKept
  <2>3. \A l \in Logins : loader'.rows[l] \in {loader.rows[l], NoAccount} BY <2>1
  <2> QED BY <2>1, <2>2, <2>3, KeptStep
<1>2. ~(IngestNext /\ IngestAlone) /\ ~Delete
  BY DEF IngestAlone, Delete, TradingInv, RunsApart
<1> QED BY <1>1, <1>2, LoaderKeeps, ExtractorKeeps, DailyKeeps, FlushKeeps, EditKeeps, TradeKeeps, CrashKeeps
        DEF Next

\* Every challenge starts without positions, every account at the broker with
\* some.
LEMMA InitKeeps ==
  ASSUME Init, RunsApart
  PROVE  TradingInv /\ Promise!Init
<1> USE MarksAssumption, JobsAssumption
<1>1. /\ buffer = NoRefs /\ loader = LoaderIdle
      /\ \A h \in Holders : held[h] = NoRefs
      /\ extraction = [r \in Extractions |-> ExtractionIdle]
      /\ flush = [f \in Flushes |-> FlushIdle]
      /\ market = [l \in Logins |-> 1]
      /\ db \in [Logins -> {NewRow(d) : d \in BOOLEAN}]
  BY DEF Init, BufferInit, JobsInit, SourcesInit
<1>2. \A l \in Logins : db[l].open = 0 /\ db[l].closed = 0 /\ db[l].stats = 0
  BY <1>1 DEF NewRow
<1>3. OrderOfData BY <1>1, <1>2 DEF OrderOfData, UpTo, NoRefs
<1>4. Promise!Init
  <2>1. MarketData \in [Logins -> Promise!Data] BY <1>1 DEF MarketData, Promise!Data
  <2>2. BufferData = [l \in Logins |-> NoAccount] BY <1>1 DEF BufferData, NoRefs
  <2>3. DiskData \in [Logins -> Promise!Data] BY <1>2 DEF DiskData, Trading, Promise!Data
  <2>4. \A l \in Logins : Promise!AtMost(DiskData[l], MarketData[l])
    BY <1>1, <1>2 DEF DiskData, MarketData, Trading, Promise!AtMost
  <2> QED BY <2>1, <2>2, <2>3, <2>4 DEF Promise!Init
<1> QED BY <1>1, <1>3, <1>4, FreshTrading DEF TradingInv

\* Positions and metrics never go back (ImplementsWriteBehind): as long as nothing
\* is pushed or deleted and runs do not overlap, the loader, the extractor, the
\* daily job, the flush, edits of challenges and crashes do to them only what
\* WriteBehind allows.
THEOREM TradingDataNeverGoBack == RunsApart /\ Spec => ImplementsWriteBehind
<1>1. Init /\ RunsApart => TradingInv /\ Promise!Init BY InitKeeps
<1>2. Inv /\ Inv' /\ TradingInv /\ [Next]_vars => TradingInv' /\ [Promise!Next]_<<MarketData, BufferData, DiskData>>
  BY NextKeeps DEF Kept
<1>3. Spec => []Inv BY Invariance
<1> QED BY <1>1, <1>2, <1>3, PTL DEF Spec, ImplementsWriteBehind, Promise!Spec, Promise!writeBehindVars
=============================================================================
