----------------------------- MODULE BufferMutex -----------------------------
(***************************************************************************)
(* BufferMutexService (src/lib/buffer/buffer-mutex.service.ts): a pool of  *)
(* one async-mutex Mutex per account login, created on demand and thrown   *)
(* away by a clean-up when the pool reaches maxPoolSize.                   *)
(*                                                                         *)
(* A Mutex is an object with an identity: dropping a pooled Mutex that is  *)
(* in use and creating another one for the same login would let two        *)
(* critical sections of one account overlap.  Mutexes is the set of object *)
(* identities; an identity is reused once nothing refers to it.            *)
(*                                                                         *)
(* JavaScript runs each action to its next await without interruption:     *)
(* getMutex and the enqueueing half of runExclusive are one step.          *)
(***************************************************************************)
EXTENDS Naturals, Sequences, FiniteSets

CONSTANTS
  Keys,         \* account logins
  Tasks,        \* calls of withLock that may be in progress at once
  Mutexes,      \* identities of Mutex objects
  None,         \* the absence of a Mutex or of a key
  MaxPoolSize   \* maxPoolSize

ASSUME PoolAssumption ==
  /\ None \notin Mutexes
  /\ None \notin Keys
  /\ MaxPoolSize \in Nat \ {0}

VARIABLES
  pool,    \* pool[k]: the Mutex that mutexPool maps k to, or None
  older,   \* <<j, k>>: j was inserted into mutexPool before k (Map order)
  line,    \* line[m]: the holder of m, then its waiters in order
  phase,   \* phase[t]: where the withLock call of task t stands
  key,     \* key[t]: the login that call is about
  mutex    \* mutex[t]: the Mutex that call got from the pool

vars == <<pool, older, line, phase, key, mutex>>

TypeOK ==
  /\ pool \in [Keys -> Mutexes \cup {None}]
  /\ older \in SUBSET (Keys \X Keys)
  /\ line \in [Mutexes -> Seq(Tasks)]
  /\ phase \in [Tasks -> {"idle", "waiting", "running"}]
  /\ key \in [Tasks -> Keys \cup {None}]
  /\ mutex \in [Tasks -> Mutexes \cup {None}]

Init ==
  /\ pool = [k \in Keys |-> None]
  /\ older = {}
  /\ line = [m \in Mutexes |-> <<>>]
  /\ phase = [t \in Tasks |-> "idle"]
  /\ key = [t \in Tasks |-> None]
  /\ mutex = [t \in Tasks |-> None]

-----------------------------------------------------------------------------
Pooled == {k \in Keys : pool[k] # None}

\* Mutant of isLocked: locked only if somebody waits for it.
isContended(k) == pool[k] # None /\ Len(line[pool[k]]) > 1

\* Mutex.isLocked(): somebody holds it.  A release that finds a waiter hands
\* the mutex over in the same step, so it is never unlocked in between.
isLocked(k) == pool[k] # None /\ line[pool[k]] # <<>>

\* Mutant of Unlocked: without the isLocked filter.
AllPooled == Pooled

Unlocked == {k \in Pooled : ~isLocked(k)}

\* Mutant of cleanupUnusedMutex: Math.floor(n / 2).
cleanupRoundedDown ==
  {k \in Unlocked :
     2 * Cardinality({j \in Unlocked : <<j, k>> \in older}) + 1 < Cardinality(Unlocked)}

\* Mutant of cleanupUnusedMutex: the last of them, slice(-toRemove).
cleanupFromTheEnd ==
  {k \in Unlocked :
     2 * Cardinality({j \in Unlocked : <<k, j>> \in older}) < Cardinality(Unlocked)}

\* The first Math.ceil(n / 2) of the n unlocked keys, in insertion order.
cleanupUnusedMutex ==
  {k \in Unlocked :
     2 * Cardinality({j \in Unlocked : <<j, k>> \in older}) < Cardinality(Unlocked)}

\* What getMutex discards before it creates a Mutex for a new key.
Evicted == IF Cardinality(Pooled) >= MaxPoolSize THEN cleanupUnusedMutex ELSE {}

\* No reference to m is left: a new Mutex may take its identity.
Fresh(m) == line[m] = <<>> /\ \A k \in Keys : pool[k] # m

\* mutexPool without the keys of ks.
Without(ks) == [k \in Keys |-> IF k \in ks THEN None ELSE pool[k]]
OlderWithout(ks) == {p \in older : p[1] \notin ks /\ p[2] \notin ks}

-----------------------------------------------------------------------------
(* withLock up to its first await: task t asks for k and queues on m.      *)

\* Mutant of Enqueue: ahead of the others that wait.
EnqueueFirst(t, k, m) ==
  /\ phase[t] = "idle"
  /\ line' = [line EXCEPT ![m] = IF line[m] = <<>> THEN <<t>>
                                 ELSE <<Head(line[m]), t>> \o Tail(line[m])]
  /\ phase' = [phase EXCEPT ![t] = "waiting"]
  /\ key' = [key EXCEPT ![t] = k]
  /\ mutex' = [mutex EXCEPT ![t] = m]

Enqueue(t, k, m) ==
  /\ phase[t] = "idle"
  /\ line' = [line EXCEPT ![m] = Append(line[m], t)]
  /\ phase' = [phase EXCEPT ![t] = "waiting"]
  /\ key' = [key EXCEPT ![t] = k]
  /\ mutex' = [mutex EXCEPT ![t] = m]

\* The login has a Mutex.
WithLockPooled(t, k) ==
  /\ pool[k] # None
  /\ Enqueue(t, k, pool[k])
  /\ UNCHANGED <<pool, older>>

\* It has none: make room in the pool if it is full, and create one.
WithLockNew(t, k) ==
  /\ pool[k] = None
  /\ \E m \in Mutexes :
       /\ Fresh(m)
       /\ Enqueue(t, k, m)
       /\ pool' = [Without(Evicted) EXCEPT ![k] = m]
       /\ older' = OlderWithout(Evicted) \cup {<<j, k>> : j \in Pooled \ Evicted}

\* The acquire promise of the task at the head is resolved: its callback runs.
StartCallback(t) ==
  /\ phase[t] = "waiting"
  /\ Head(line[mutex[t]]) = t
  /\ phase' = [phase EXCEPT ![t] = "running"]
  /\ UNCHANGED <<pool, older, line, key, mutex>>

\* Mutant of FinishCallback: no release when the callback throws.
FinishWithoutRelease(t) ==
  /\ phase[t] = "running"
  /\ phase' = [phase EXCEPT ![t] = "idle"]
  /\ key' = [key EXCEPT ![t] = None]
  /\ mutex' = [mutex EXCEPT ![t] = None]
  /\ UNCHANGED <<pool, older, line>>

\* The callback returned or threw; runExclusive releases either way.
FinishCallback(t) ==
  /\ phase[t] = "running"
  /\ line' = [line EXCEPT ![mutex[t]] = Tail(line[mutex[t]])]
  /\ phase' = [phase EXCEPT ![t] = "idle"]
  /\ key' = [key EXCEPT ![t] = None]
  /\ mutex' = [mutex EXCEPT ![t] = None]
  /\ UNCHANGED <<pool, older>>

\* forceCleanup: drop every unlocked Mutex.
ForceCleanup ==
  /\ Unlocked # {}
  /\ pool' = Without(Unlocked)
  /\ older' = OlderWithout(Unlocked)
  /\ UNCHANGED <<line, phase, key, mutex>>

Next ==
  \/ \E t \in Tasks :
       \/ \E k \in Keys : WithLockPooled(t, k) \/ WithLockNew(t, k)
       \/ StartCallback(t)
       \/ FinishCallback(t)
  \/ ForceCleanup

\* A resolved promise is run by the event loop, and every callback the code
\* passes to withLock settles: they are synchronous but for one, which awaits
\* two database calls that answer or fail.  Nobody is obliged to call withLock.
Fairness == \A t \in Tasks : WF_vars(StartCallback(t)) /\ WF_vars(FinishCallback(t))

Spec == Init /\ [][Next]_vars
FairSpec == Spec /\ Fairness

-----------------------------------------------------------------------------
(* Properties.                                                             *)

\* Two callbacks never run at once for one login, whatever Mutex objects they
\* hold: the clean-up must not separate a caller from the Mutex of its key.
MutualExclusion ==
  \A t, u \in Tasks :
    t # u /\ phase[t] = "running" /\ phase[u] = "running" => key[t] # key[u]

\* A full pool grows only when every Mutex in it is locked: as long as one is
\* not, the clean-up makes room for the new one.
PoolBounded ==
  [][Cardinality(Pooled) >= MaxPoolSize /\ Unlocked # {}
       => Cardinality(Pooled') <= Cardinality(Pooled)]_vars

\* The clean-up takes the half of the Mutex objects that are not locked, rounded
\* up, and of these the oldest: how few or many there are, and however earlier
\* clean-ups and insertions have thinned the order of the Map.
CleanupTakesHalf ==
  /\ 2 * Cardinality(cleanupUnusedMutex) \in {Cardinality(Unlocked), Cardinality(Unlocked) + 1}
  /\ \A j \in cleanupUnusedMutex, k \in Unlocked \ cleanupUnusedMutex : <<j, k>> \in older

\* The clean-up and the creation of Mutex objects are invisible to callers:
\* seen through the pool, every login has one FIFO lock.
Lock == INSTANCE KeyedLock WITH
  queue <- [k \in Keys |-> IF pool[k] = None THEN <<>> ELSE line[pool[k]]]

ImplementsKeyedLock == Lock!Spec

\* No caller waits for ever: every withLock call gets to run its callback.
EveryCallerServed == \A t \in Tasks : (phase[t] = "waiting") ~> (phase[t] = "running")

-----------------------------------------------------------------------------
(* The inductive invariant behind MutualExclusion and the refinement.      *)

\* Each login has a Mutex of its own, and only pooled ones have a line.
PoolInv ==
  /\ \A j, k \in Keys : pool[j] = pool[k] /\ pool[j] # None => j = k
  /\ \A m \in Mutexes : line[m] # <<>> => \E k \in Keys : pool[k] = m

\* A caller is in the line of the Mutex its key has in the pool.
CallerInv ==
  \A t \in Tasks : phase[t] # "idle" =>
    /\ key[t] \in Keys
    /\ mutex[t] \in Mutexes
    /\ pool[key[t]] = mutex[t]
    /\ \E i \in 1..Len(line[mutex[t]]) : line[mutex[t]][i] = t

\* Everybody in a line is a caller queueing there, once.
LineInv ==
  \A m \in Mutexes : \A i \in 1..Len(line[m]) :
    /\ phase[line[m][i]] # "idle"
    /\ mutex[line[m][i]] = m
    /\ \A j \in 1..Len(line[m]) : line[m][i] = line[m][j] => i = j

\* A callback runs only at the head of its line.
HeadInv == \A t \in Tasks : phase[t] = "running" => Head(line[mutex[t]]) = t

Inv == TypeOK /\ PoolInv /\ CallerInv /\ LineInv /\ HeadInv
=============================================================================
