----------------------------- MODULE FlushBuffer -----------------------------
(***************************************************************************)
(* FlushBufferJob: once a minute the dirty accounts are copied and written *)
(* to the details of their active challenges, in batches that compete for  *)
(* a few slots.  A flush does not wait for the previous one to end.        *)
(***************************************************************************)
EXTENDS AccountSources

CONSTANTS
  Flushes,               \* flush runs that may be in progress at once
  BATCH_SIZE,            \* accounts per batch
  MAX_CONCURRENT_BATCHES

VARIABLE flush
  \* copy: the dirty accounts as they were copied; wait: those whose batch has
  \* no slot yet; query, save: the batches at these awaits; found: the accounts
  \* of the batches at save that have an active challenge

FlushTypeOK ==
  flush \in [Flushes -> [copy : [Logins -> Account \cup {NoAccount}],
                         wait : SUBSET SUBSET Logins, query : SUBSET SUBSET Logins,
                         save : SUBSET SUBSET Logins, found : SUBSET Logins]]

FlushIdle == [copy |-> NoRefs, wait |-> {}, query |-> {}, save |-> {}, found |-> {}]

\* The hash covers lastUpdate, which comes with every change of the data.
generateDataHash(a) == a.time + 1

\* Mutant of isDirty: an account without a hash counts as clean.
isDirtyIfHashed(a) == a.hash # 0 /\ a.hash # generateDataHash(a)

\* Never persisted, or changed since.
isDirty(a) == a.hash = 0 \/ a.hash # generateDataHash(a)

\* createBatches: every batch is full but perhaps the last.  The accounts come
\* in Map order, here in any order.
createBatches(s) ==
  {p \in SUBSET SUBSET s :
     /\ UNION p = s
     /\ \A b \in p : b # {} /\ Cardinality(b) <= BATCH_SIZE
     /\ \A b, c \in p : b # c => b \cap c = {}
     /\ Cardinality({b \in p : Cardinality(b) < BATCH_SIZE}) <= 1}

Dirty == {l \in Buffered : isDirty(buffer[l])}

\* The cron fires: copy what is dirty, in one turn of the event loop.
FlushStart(f) ==
  /\ flush[f] = FlushIdle
  /\ Dirty # {}
  /\ \E p \in createBatches(Dirty) :
       flush' = [flush EXCEPT ![f] =
         [FlushIdle EXCEPT !.wait = p,
                           !.copy = [l \in Logins |-> IF l \in Dirty THEN buffer[l]
                                                      ELSE NoAccount]]]
  /\ UNCHANGED <<bufferVars, sourceVars>>

\* Mutant of FlushTakeSlot: one batch more than there are slots.
FlushTakeOneMore(f, b) ==
  /\ b \in flush[f].wait
  /\ Cardinality(flush[f].query \cup flush[f].save) <= MAX_CONCURRENT_BATCHES
  /\ flush' = [flush EXCEPT ![f].wait = @ \ {b}, ![f].query = @ \cup {b}]
  /\ UNCHANGED <<bufferVars, sourceVars>>

\* A batch finds a free slot and asks for its challenges.
FlushTakeSlot(f, b) ==
  /\ b \in flush[f].wait
  /\ Cardinality(flush[f].query \cup flush[f].save) < MAX_CONCURRENT_BATCHES
  /\ flush' = [flush EXCEPT ![f].wait = @ \ {b}, ![f].query = @ \cup {b}]
  /\ UNCHANGED <<bufferVars, sourceVars>>

\* The batch is over, its slot is given back and its copies are dropped; the
\* flush ends with its last batch.
FlushLeave(f, b) ==
  flush' = [flush EXCEPT ![f] =
    [copy |-> [l \in Logins |-> IF l \in b THEN NoAccount ELSE @.copy[l]],
     wait |-> @.wait, query |-> @.query \ {b}, save |-> @.save \ {b},
     found |-> @.found \ b]]

\* The challenges arrive; an account without an active one is skipped.
FlushFound(f, b) ==
  /\ b \in flush[f].query
  /\ IF \A l \in b : ~db[l].active
     THEN FlushLeave(f, b)
     ELSE flush' = [flush EXCEPT ![f].query = @ \ {b}, ![f].save = @ \cup {b},
                                 ![f].found = @ \cup {l \in b : db[l].active}]
  /\ UNCHANGED <<bufferVars, sourceVars>>

\* detailsRepo.save: one transaction for the rows of the batch, which creates
\* the details that do not exist.  markAsClean is then called on the copies.
FlushSaved(f, b) ==
  /\ b \in flush[f].save
  /\ db' = [l \in Logins |->
       IF l \in b \cap flush[f].found
       THEN [db[l] EXCEPT !.details = TRUE,
                          !.open = flush[f].copy[l].open,
                          !.closed = flush[f].copy[l].closed,
                          !.stats = flush[f].copy[l].stats,
                          !.time = flush[f].copy[l].time]
       ELSE db[l]]
  /\ FlushLeave(f, b)
  /\ UNCHANGED <<bufferVars, market>>

\* The query or the save throws: the whole batch counts as failed.
FlushFails(f, b) ==
  /\ b \in flush[f].query \cup flush[f].save
  /\ FlushLeave(f, b)
  /\ UNCHANGED <<bufferVars, sourceVars>>

FlushNext ==
  \E f \in Flushes :
    \/ FlushStart(f)
    \/ \E b \in SUBSET Logins :
         FlushTakeSlot(f, b) \/ FlushFound(f, b) \/ FlushSaved(f, b) \/ FlushFails(f, b)
=============================================================================
