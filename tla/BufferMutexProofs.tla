-------------------------- MODULE BufferMutexProofs --------------------------
(***************************************************************************)
(* Proofs about BufferMutex: its inductive invariant (which includes its   *)
(* types), mutual exclusion per login, and that it implements KeyedLock.   *)
(***************************************************************************)
EXTENDS BufferMutex, FiniteSetTheorems, TLAPS

USE PoolAssumption

\* The clean-up only ever picks keys that are pooled and unlocked.
LEMMA EvictedUnlocked == Evicted \subseteq Unlocked
BY DEF Evicted, cleanupUnusedMutex

\* withLock on a login that has a Mutex keeps the invariant.
LEMMA WithLockPooledInv ==
  ASSUME Inv, NEW t \in Tasks, NEW k \in Keys, WithLockPooled(t, k)
  PROVE  Inv'
<1> USE DEF WithLockPooled, Enqueue
<1>0. pool[k] \in Mutexes /\ line[pool[k]] \in Seq(Tasks)
  BY DEF Inv, TypeOK
<1>1. TypeOK'
  BY <1>0 DEF Inv, TypeOK
<1>2. PoolInv'
  BY <1>0 DEF Inv, TypeOK, PoolInv
<1>3. CallerInv'
  BY <1>0 DEF Inv, TypeOK, CallerInv
<1>4. LineInv'
  BY <1>0 DEF Inv, TypeOK, LineInv, CallerInv
<1>5. HeadInv'
  BY <1>0 DEF Inv, TypeOK, HeadInv, CallerInv
<1> QED
  BY <1>1, <1>2, <1>3, <1>4, <1>5 DEF Inv

\* withLock on a login without one: nothing that is evicted is in use, and
\* the new Mutex is referred to by nobody else.
LEMMA WithLockNewInv ==
  ASSUME Inv, NEW t \in Tasks, NEW k \in Keys, WithLockNew(t, k)
  PROVE  Inv'
<1> PICK m \in Mutexes :
      /\ Fresh(m)
      /\ Enqueue(t, k, m)
      /\ pool' = [Without(Evicted) EXCEPT ![k] = m]
      /\ older' = OlderWithout(Evicted) \cup {<<j, k>> : j \in Pooled \ Evicted}
  BY DEF WithLockNew
<1>0. pool[k] = None
  BY DEF WithLockNew
<1>1. /\ line' = [line EXCEPT ![m] = Append(line[m], t)]
      /\ phase' = [phase EXCEPT ![t] = "waiting"]
      /\ key' = [key EXCEPT ![t] = k]
      /\ mutex' = [mutex EXCEPT ![t] = m]
      /\ phase[t] = "idle"
  BY DEF Enqueue
<1>2. line[m] = <<>> /\ \A j \in Keys : pool[j] # m
  BY DEF Fresh
<1>3. \A j \in Keys : pool'[j] = IF j = k THEN m
                                 ELSE IF j \in Evicted THEN None ELSE pool[j]
  BY DEF Inv, TypeOK, Without
<1>4. \A j \in Evicted : j \in Keys /\ line[pool[j]] = <<>>
  BY EvictedUnlocked DEF Unlocked, Pooled, isLocked
<1>5. \A u \in Tasks : phase[u] # "idle" =>
        /\ key[u] \in Keys /\ mutex[u] \in Mutexes
        /\ key[u] # k /\ key[u] \notin Evicted /\ mutex[u] # m
  <2> SUFFICES ASSUME NEW u \in Tasks, phase[u] # "idle"
               PROVE  /\ key[u] \in Keys /\ mutex[u] \in Mutexes
                      /\ key[u] # k /\ key[u] \notin Evicted /\ mutex[u] # m
    OBVIOUS
  <2>1. /\ key[u] \in Keys /\ mutex[u] \in Mutexes /\ pool[key[u]] = mutex[u]
        /\ line[mutex[u]] # <<>>
    BY DEF Inv, TypeOK, CallerInv
  <2> QED
    BY <2>1, <1>0, <1>2, <1>4
<1>6. TypeOK'
  <2>1. pool' \in [Keys -> Mutexes \cup {None}]
    BY DEF Inv, TypeOK, Without
  <2>2. older' \in SUBSET (Keys \X Keys)
    BY DEF Inv, TypeOK, OlderWithout, Pooled
  <2> QED
    BY <1>1, <2>1, <2>2 DEF Inv, TypeOK
<1>7. PoolInv'
  <2>1. ASSUME NEW i \in Keys, NEW j \in Keys, pool'[i] = pool'[j], pool'[j] # None
        PROVE  i = j
    BY <2>1, <1>2, <1>3 DEF Inv, PoolInv
  <2>2. ASSUME NEW n \in Mutexes, line'[n] # <<>>
        PROVE  \E j \in Keys : pool'[j] = n
    <3>1. CASE n = m
      BY <3>1, <1>3
    <3>2. CASE n # m
      <4>1. line[n] # <<>>
        BY <2>2, <3>2, <1>1 DEF Inv, TypeOK
      <4>2. PICK j \in Keys : pool[j] = n
        BY <4>1 DEF Inv, PoolInv
      <4> QED
        BY <4>1, <4>2, <1>0, <1>3, <1>4
    <3> QED
      BY <3>1, <3>2
  <2> QED
    BY <2>1, <2>2 DEF PoolInv
<1>8. CallerInv'
  <2> SUFFICES ASSUME NEW u \in Tasks, phase'[u] # "idle"
               PROVE  /\ key'[u] \in Keys
                      /\ mutex'[u] \in Mutexes
                      /\ pool'[key'[u]] = mutex'[u]
                      /\ \E i \in 1..Len(line'[mutex'[u]]) : line'[mutex'[u]][i] = u
    BY DEF CallerInv
  <2>1. CASE u = t
    BY <2>1, <1>1, <1>2, <1>3 DEF Inv, TypeOK
  <2>2. CASE u # t
    BY <2>2, <1>1, <1>3, <1>5 DEF Inv, TypeOK, CallerInv
  <2> QED
    BY <2>1, <2>2
<1>9. LineInv'
  BY <1>1, <1>2, <1>5 DEF Inv, TypeOK, LineInv
<1>10. HeadInv'
  BY <1>1, <1>5 DEF Inv, TypeOK, HeadInv
<1> QED
  BY <1>6, <1>7, <1>8, <1>9, <1>10 DEF Inv

\* Starting a callback at the head of its line keeps the invariant.
LEMMA StartCallbackInv ==
  ASSUME Inv, NEW t \in Tasks, StartCallback(t)
  PROVE  Inv'
BY DEF Inv, TypeOK, PoolInv, CallerInv, LineInv, HeadInv, StartCallback

\* Releasing removes the caller, and nobody else, from its line.
LEMMA FinishCallbackInv ==
  ASSUME Inv, NEW t \in Tasks, FinishCallback(t)
  PROVE  Inv'
<1> DEFINE m == mutex[t]
<1>1. /\ m \in Mutexes
      /\ line[m] \in Seq(Tasks)
      /\ Len(line[m]) \in Nat \ {0}
      /\ line[m] # <<>>
      /\ line[m][1] = t
  BY DEF Inv, TypeOK, CallerInv, HeadInv, FinishCallback
<1>2. /\ Tail(line[m]) \in Seq(Tasks)
      /\ Len(Tail(line[m])) = Len(line[m]) - 1
      /\ \A i \in 1..Len(line[m]) - 1 : Tail(line[m])[i] = line[m][i + 1]
  BY <1>1
<1>3. /\ line' = [line EXCEPT ![m] = Tail(line[m])]
      /\ phase' = [phase EXCEPT ![t] = "idle"]
      /\ key' = [key EXCEPT ![t] = None]
      /\ mutex' = [mutex EXCEPT ![t] = None]
      /\ pool' = pool /\ older' = older
      /\ phase[t] = "running"
  BY DEF FinishCallback
<1> HIDE DEF m
<1>4. TypeOK'
  BY <1>1, <1>2, <1>3 DEF Inv, TypeOK
<1>5. PoolInv'
  BY <1>1, <1>3 DEF Inv, TypeOK, PoolInv
<1>6. CallerInv'
  <2> SUFFICES ASSUME NEW u \in Tasks, phase'[u] # "idle"
               PROVE  /\ key'[u] \in Keys
                      /\ mutex'[u] \in Mutexes
                      /\ pool'[key'[u]] = mutex'[u]
                      /\ \E i \in 1..Len(line'[mutex'[u]]) : line'[mutex'[u]][i] = u
    BY DEF CallerInv
  <2>1. u # t /\ phase[u] # "idle" /\ key'[u] = key[u] /\ mutex'[u] = mutex[u]
    BY <1>3 DEF Inv, TypeOK
  <2>2. PICK i \in 1..Len(line[mutex[u]]) : line[mutex[u]][i] = u
    BY <2>1 DEF Inv, CallerInv
  <2>3. CASE mutex[u] # m
    BY <2>1, <2>2, <2>3, <1>3 DEF Inv, TypeOK, CallerInv
  <2>4. CASE mutex[u] = m
    <3>1. i # 1
      BY <2>1, <2>2, <2>4, <1>1
    <3>2. i - 1 \in 1..Len(Tail(line[m])) /\ Tail(line[m])[i - 1] = u
      BY <3>1, <2>2, <2>4, <1>1, <1>2
    <3>3. line'[m] = Tail(line[m])
      BY <1>1, <1>3 DEF Inv, TypeOK
    <3>4. \E j \in 1..Len(line'[mutex'[u]]) : line'[mutex'[u]][j] = u
      BY <3>2, <3>3, <2>1, <2>4
    <3> QED
      BY <3>4, <2>1, <1>3 DEF Inv, CallerInv
  <2> QED
    BY <2>3, <2>4
<1>7. LineInv'
  <2>1. \A n \in Mutexes : n # m => line'[n] = line[n]
    BY <1>3 DEF Inv, TypeOK
  <2>2. line'[m] = Tail(line[m])
    BY <1>1, <1>3 DEF Inv, TypeOK
  <2>3. ASSUME NEW n \in Mutexes, n # m, NEW i \in 1..Len(line'[n])
        PROVE  /\ phase'[line'[n][i]] # "idle"
               /\ mutex'[line'[n][i]] = n
               /\ \A j \in 1..Len(line'[n]) : line'[n][i] = line'[n][j] => i = j
    <3>1. line[n][i] # t
      BY <2>1, <2>3 DEF Inv, LineInv, m
    <3> QED
      BY <3>1, <2>1, <2>3, <1>3 DEF Inv, TypeOK, LineInv
  <2>4. ASSUME NEW i \in 1..Len(line'[m])
        PROVE  /\ phase'[line'[m][i]] # "idle"
               /\ mutex'[line'[m][i]] = m
               /\ \A j \in 1..Len(line'[m]) : line'[m][i] = line'[m][j] => i = j
    <3>1. i + 1 \in 1..Len(line[m]) /\ line'[m][i] = line[m][i + 1]
      BY <2>2, <2>4, <1>1, <1>2
    <3>2. line[m][i + 1] # t /\ line[m][i + 1] \in Tasks
      BY <3>1, <1>1, <2>4 DEF Inv, LineInv
    <3>3. /\ phase'[line'[m][i]] # "idle"
          /\ mutex'[line'[m][i]] = m
      BY <3>1, <3>2, <1>1, <1>3 DEF Inv, TypeOK, LineInv
    <3>4. ASSUME NEW j \in 1..Len(line'[m]), line'[m][i] = line'[m][j]
          PROVE  i = j
      <4>1. j + 1 \in 1..Len(line[m]) /\ line'[m][j] = line[m][j + 1]
        BY <2>2, <3>4, <1>1, <1>2
      <4>2. i + 1 = j + 1
        BY <3>1, <3>4, <4>1, <1>1 DEF Inv, LineInv
      <4> QED
        BY <4>2, <2>2, <1>1, <1>2
    <3> QED
      BY <3>3, <3>4
  <2> QED
    BY <2>3, <2>4 DEF LineInv
<1>8. HeadInv'
  <2> SUFFICES ASSUME NEW u \in Tasks, phase'[u] = "running"
               PROVE  Head(line'[mutex'[u]]) = u
    BY DEF HeadInv
  <2>1. u # t /\ phase[u] = "running" /\ mutex'[u] = mutex[u]
    BY <1>3 DEF Inv, TypeOK
  <2>2. mutex[u] \in Mutexes /\ Head(line[mutex[u]]) = u
    BY <2>1 DEF Inv, CallerInv, HeadInv
  <2>3. mutex[u] # m
    BY <2>1, <2>2, <1>1
  <2> QED
    BY <2>1, <2>2, <2>3, <1>3 DEF Inv, TypeOK
<1> QED
  BY <1>4, <1>5, <1>6, <1>7, <1>8 DEF Inv

\* forceCleanup drops no Mutex that anybody waits on or holds.
LEMMA ForceCleanupInv ==
  ASSUME Inv, ForceCleanup
  PROVE  Inv'
<1>1. \A j \in Keys : pool'[j] = IF j \in Unlocked THEN None ELSE pool[j]
  BY DEF ForceCleanup, Without
<1>2. UNCHANGED <<line, phase, key, mutex>>
  BY DEF ForceCleanup
<1>3. \A j \in Unlocked : line[pool[j]] = <<>>
  BY DEF Unlocked, Pooled, isLocked
<1>4. TypeOK'
  BY DEF Inv, TypeOK, ForceCleanup, Without, OlderWithout
<1>5. PoolInv'
  BY <1>1, <1>2, <1>3 DEF Inv, TypeOK, PoolInv
<1>6. CallerInv'
  <2>1. \A u \in Tasks : phase[u] # "idle" => key[u] \notin Unlocked
    BY <1>3 DEF Inv, TypeOK, CallerInv
  <2> QED
    BY <2>1, <1>1, <1>2 DEF Inv, CallerInv
<1>7. LineInv' /\ HeadInv'
  BY <1>2 DEF Inv, LineInv, HeadInv
<1> QED
  BY <1>4, <1>5, <1>6, <1>7 DEF Inv

\* Inv holds in every reachable state, for any number of logins and callers
\* and any pool limit.
THEOREM Invariance == Spec => []Inv
<1>1. Init => Inv
  BY DEF Init, Inv, TypeOK, PoolInv, CallerInv, LineInv, HeadInv
<1>2. Inv /\ [Next]_vars => Inv'
  <2> SUFFICES ASSUME Inv, [Next]_vars PROVE Inv'
    OBVIOUS
  <2>1. CASE UNCHANGED vars
    BY <2>1 DEF vars, Inv, TypeOK, PoolInv, CallerInv, LineInv, HeadInv
  <2> QED
    BY <2>1, WithLockPooledInv, WithLockNewInv, StartCallbackInv,
       FinishCallbackInv, ForceCleanupInv DEF Next
<1> QED
  BY <1>1, <1>2, PTL DEF Spec

\* No two callbacks run at once for the same login.
THEOREM MutualExclusionHolds == Spec => []MutualExclusion
<1>1. Inv => MutualExclusion
  BY DEF Inv, TypeOK, CallerInv, HeadInv, MutualExclusion
<1> QED
  BY <1>1, Invariance, PTL

\* The pool implements one FIFO lock per login: creating, evicting and
\* discarding Mutex objects are stuttering steps of KeyedLock.
THEOREM Refinement == Spec => ImplementsKeyedLock
<1> DEFINE queue == [k \in Keys |-> IF pool[k] = None THEN <<>> ELSE line[pool[k]]]
<1>1. Init => Lock!Init
  BY DEF Init, Lock!Init
<1>2. Inv /\ Inv' /\ [Next]_vars => [Lock!Next]_(Lock!lockVars)
  <2> SUFFICES ASSUME Inv, Inv', [Next]_vars
               PROVE  Lock!Next \/ UNCHANGED <<queue, phase>>
    BY DEF Lock!lockVars
  <2>1. ASSUME NEW t \in Tasks, NEW k \in Keys, WithLockPooled(t, k)
        PROVE  Lock!Request(t, k)
    <3>1. pool[k] \in Mutexes /\ pool' = pool
          /\ line' = [line EXCEPT ![pool[k]] = Append(line[pool[k]], t)]
      BY <2>1 DEF WithLockPooled, Enqueue, Inv, TypeOK
    <3>2. \A j \in Keys : j # k => pool[j] # pool[k]
      BY <3>1 DEF Inv, PoolInv
    <3>3. queue' = [queue EXCEPT ![k] = Append(queue[k], t)]
      BY <3>1, <3>2 DEF Inv, TypeOK
    <3> QED
      BY <2>1, <3>3 DEF WithLockPooled, Enqueue, Lock!Request
  <2>2. ASSUME NEW t \in Tasks, NEW k \in Keys, WithLockNew(t, k)
        PROVE  Lock!Request(t, k)
    <3> PICK m \in Mutexes :
          /\ Fresh(m)
          /\ Enqueue(t, k, m)
          /\ pool' = [Without(Evicted) EXCEPT ![k] = m]
      BY <2>2 DEF WithLockNew
    <3>1. pool[k] = None /\ line[m] = <<>> /\ line' = [line EXCEPT ![m] = <<t>>]
      BY <2>2 DEF WithLockNew, Fresh, Enqueue
    <3>2. \A j \in Keys : pool[j] # m
      BY DEF Fresh
    <3>3. \A j \in Keys : pool'[j] = IF j = k THEN m
                                     ELSE IF j \in Evicted THEN None ELSE pool[j]
      BY DEF Inv, TypeOK, Without
    <3>4. \A j \in Evicted : line[pool[j]] = <<>>
      BY EvictedUnlocked DEF Unlocked, Pooled, isLocked
    <3>5. queue'[k] = Append(queue[k], t)
      BY <3>1, <3>3 DEF Inv, TypeOK
    <3>6. ASSUME NEW j \in Keys, j # k
          PROVE  queue'[j] = queue[j]
      BY <3>1, <3>2, <3>3, <3>4, <3>6 DEF Inv, TypeOK
    <3>7. queue' = [queue EXCEPT ![k] = Append(queue[k], t)]
      <4>1. /\ queue = [j \in Keys |-> queue[j]]
            /\ queue' = [j \in Keys |-> queue'[j]]
        OBVIOUS
      <4> HIDE DEF queue
      <4> QED
        BY <3>5, <3>6, <4>1
    <3> QED
      BY <3>7 DEF Enqueue, Lock!Request
  <2>3. ASSUME NEW t \in Tasks, NEW k \in Keys, k = key[t], StartCallback(t)
        PROVE  Lock!Enter(t, k)
    <3>1. mutex[t] \in Mutexes /\ pool[k] = mutex[t]
          /\ line[mutex[t]] # <<>> /\ Head(line[mutex[t]]) = t
      BY <2>3 DEF StartCallback, Inv, TypeOK, CallerInv
    <3> QED
      BY <2>3, <3>1 DEF StartCallback, Lock!Enter
  <2>4. ASSUME NEW t \in Tasks, NEW k \in Keys, k = key[t], FinishCallback(t)
        PROVE  Lock!Leave(t, k)
    <3>1. mutex[t] \in Mutexes /\ pool[k] = mutex[t]
          /\ line[mutex[t]] # <<>> /\ Head(line[mutex[t]]) = t
      BY <2>4 DEF FinishCallback, Inv, TypeOK, CallerInv, HeadInv
    <3>2. \A j \in Keys : j # k => pool[j] # pool[k]
      BY <3>1 DEF Inv, PoolInv
    <3>3. queue' = [queue EXCEPT ![k] = Tail(queue[k])]
      BY <2>4, <3>1, <3>2 DEF FinishCallback, Inv, TypeOK
    <3> QED
      BY <2>4, <3>1, <3>3 DEF FinishCallback, Lock!Leave
  <2>5. CASE ForceCleanup
    <3>1. \A j \in Keys : pool'[j] = IF j \in Unlocked THEN None ELSE pool[j]
      BY <2>5 DEF ForceCleanup, Without
    <3>2. \A j \in Unlocked : line[pool[j]] = <<>>
      BY DEF Unlocked, Pooled, isLocked
    <3> QED
      BY <2>5, <3>1, <3>2 DEF ForceCleanup
  <2>6. CASE UNCHANGED vars
    BY <2>6 DEF vars
  <2>7. \A t \in Tasks : phase[t] # "idle" => key[t] \in Keys
    BY DEF Inv, CallerInv
  <2>8. ASSUME NEW t \in Tasks, StartCallback(t) \/ FinishCallback(t)
        PROVE  Lock!Next
    <3>1. PICK k \in Keys : k = key[t]
      BY <2>7, <2>8 DEF StartCallback, FinishCallback
    <3>2. Lock!Enter(t, k) \/ Lock!Leave(t, k)
      BY <2>3, <2>4, <2>8, <3>1
    <3> QED
      BY <3>1, <3>2 DEF Lock!Next
  <2>9. ASSUME NEW t \in Tasks, NEW k \in Keys,
               WithLockPooled(t, k) \/ WithLockNew(t, k)
        PROVE  Lock!Next
    BY <2>1, <2>2, <2>9 DEF Lock!Next
  <2> HIDE DEF queue
  <2> QED
    BY <2>5, <2>6, <2>8, <2>9 DEF Next
<1> QED
  BY <1>1, <1>2, Invariance, PTL DEF Spec, ImplementsKeyedLock, Lock!Spec

(***************************************************************************)
(* The bound of the pool.                                                  *)
(***************************************************************************)

\* Between the insertions into a Map lies a strict order on the logins in it,
\* of which there are finitely many.
OrderInv ==
  /\ IsFiniteSet(Pooled)
  /\ \A i, j \in Keys : <<i, j>> \in older => i \in Pooled /\ j \in Pooled /\ i # j
  /\ \A i, j, k \in Keys : <<i, j>> \in older /\ <<j, k>> \in older => <<i, k>> \in older

\* What the new Mutex and the evicted ones make of the pool.
LEMMA PooledAfterNew ==
  ASSUME TypeOK, NEW t \in Tasks, NEW k \in Keys, WithLockNew(t, k)
  PROVE  /\ Pooled' = (Pooled \ Evicted) \cup {k}
         /\ k \notin Pooled
         /\ older' = {p \in older : p[1] \notin Evicted /\ p[2] \notin Evicted}
                       \cup {<<j, k>> : j \in Pooled \ Evicted}
<1> PICK m \in Mutexes :
      /\ pool' = [Without(Evicted) EXCEPT ![k] = m]
      /\ older' = OlderWithout(Evicted) \cup {<<j, k>> : j \in Pooled \ Evicted}
  BY DEF WithLockNew
<1>1. \A j \in Keys : pool'[j] = IF j = k THEN m ELSE IF j \in Evicted THEN None ELSE pool[j]
  BY DEF TypeOK, Without
<1>2. m # None BY PoolAssumption
<1>3. Pooled' = (Pooled \ Evicted) \cup {k} BY <1>1, <1>2 DEF Pooled
<1>4. k \notin Pooled BY DEF Pooled, WithLockNew
<1> QED BY <1>3, <1>4 DEF OlderWithout

\* The order is kept: a new login is the youngest, and who leaves takes nothing
\* along but its own pairs.
LEMMA OrderStep == ASSUME TypeOK, OrderInv, [Next]_vars PROVE OrderInv'
<1>1. ASSUME NEW t \in Tasks, NEW k \in Keys, WithLockNew(t, k) PROVE OrderInv'
  <2>1. /\ Pooled' = (Pooled \ Evicted) \cup {k}
        /\ k \notin Pooled
        /\ older' = {p \in older : p[1] \notin Evicted /\ p[2] \notin Evicted}
                      \cup {<<j, k>> : j \in Pooled \ Evicted}
    BY <1>1, PooledAfterNew
  <2>2. IsFiniteSet(Pooled')
    <3>1. IsFiniteSet(Pooled \ Evicted) BY FS_Difference, Zenon DEF OrderInv
    <3> QED BY <2>1, <3>1, FS_AddElement
  <2>3. \A i, j \in Keys : <<i, j>> \in older' <=>
          \/ <<i, j>> \in older /\ i \notin Evicted /\ j \notin Evicted
          \/ j = k /\ i \in Pooled \ Evicted
    BY <2>1
  <2>4. \A i, j \in Keys : <<i, j>> \in older' => i \in Pooled' /\ j \in Pooled' /\ i # j
    BY <2>1, <2>3 DEF OrderInv
  <2>5. \A i, j, l \in Keys : <<i, j>> \in older' /\ <<j, l>> \in older' => <<i, l>> \in older'
    BY <2>1, <2>3 DEF OrderInv
  <2> QED BY <2>2, <2>4, <2>5 DEF OrderInv
<1>2. CASE ForceCleanup
  <2>1. Pooled' = Pooled \ Unlocked BY <1>2 DEF ForceCleanup, Without, Pooled, TypeOK
  <2>2. IsFiniteSet(Pooled') BY <2>1, FS_Difference DEF OrderInv
  <2>3. \A i, j \in Keys : <<i, j>> \in older' <=> <<i, j>> \in older /\ i \notin Unlocked /\ j \notin Unlocked
    BY <1>2 DEF ForceCleanup, OlderWithout
  <2> QED BY <2>1, <2>2, <2>3 DEF OrderInv
<1>3. ASSUME UNCHANGED <<pool, older>> PROVE OrderInv'
  BY <1>3 DEF OrderInv, Pooled
<1> QED
  BY <1>1, <1>2, <1>3 DEF Next, WithLockPooled, StartCallback, FinishCallback, vars

\* The first of the unlocked logins, in insertion order, is always among those
\* the clean-up takes: Math.ceil(n / 2) is at least 1.
LEMMA CleanupMakesRoom ==
  ASSUME OrderInv, Unlocked # {}
  PROVE  cleanupUnusedMutex # {}
<1> DEFINE Before(k) == {j \in Unlocked : <<j, k>> \in older}
           T == {Before(k) : k \in Unlocked}
           R == StrictSubsetOrdering(Unlocked)
<1>1. Unlocked \subseteq Pooled /\ Unlocked \subseteq Keys BY DEF Unlocked, Pooled
<1>2. IsFiniteSet(Unlocked) /\ Cardinality(Unlocked) \in Nat
  BY <1>1, FS_Subset, FS_CardinalityType DEF OrderInv
<1>3. FiniteSubsetsOf(Unlocked) = SUBSET Unlocked BY <1>2, FS_FiniteSubsetsOfFinite
<1>4. T \subseteq FiniteSubsetsOf(Unlocked)
  <2>1. \A k \in Unlocked : Before(k) \in SUBSET Unlocked OBVIOUS
  <2>2. T \subseteq SUBSET Unlocked BY <2>1
  <2> HIDE DEF T
  <2> QED BY <2>2, <1>3, Zenon
<1>5. T # {} OBVIOUS
<1>6. IsWellFoundedOn(R, FiniteSubsetsOf(Unlocked)) BY FS_StrictSubsetOrderingWellFounded
<1>7. \E x \in T : \A y \in T : ~(<<y, x>> \in R)
  <2> HIDE DEF T, R
  <2> QED BY <1>4, <1>5, <1>6, WFMin
<1>8. PICK k \in Unlocked : \A j \in Unlocked : <<Before(j), Before(k)>> \notin R
  BY <1>7
<1>9. Before(k) = {}
  <2> SUFFICES ASSUME NEW j \in Unlocked, <<j, k>> \in older PROVE FALSE
    OBVIOUS
  <2>1. Before(j) \subseteq Before(k) BY <1>1 DEF OrderInv
  <2>2. j \in Before(k) /\ j \notin Before(j) BY <1>1 DEF OrderInv
  <2>3. <<Before(j), Before(k)>> \in R BY <2>1, <2>2 DEF StrictSubsetOrdering
  <2> QED BY <2>3, <1>8
<1>10. Cardinality(Before(k)) = 0 BY <1>9, FS_EmptySet
<1>11. Cardinality(Unlocked) # 0 BY <1>2, FS_EmptySet
<1>12. 2 * Cardinality(Before(k)) < Cardinality(Unlocked) BY <1>2, <1>10, <1>11
<1> QED BY <1>12 DEF cleanupUnusedMutex

\* A full pool never grows while one of its Mutex objects is unlocked, for any
\* limit and any number of logins.
THEOREM PoolIsBounded == Spec => PoolBounded
<1> DEFINE Bounded ==
      Cardinality(Pooled) >= MaxPoolSize /\ Unlocked # {} => Cardinality(Pooled') <= Cardinality(Pooled)
<1>1. Init => OrderInv
  <2>1. Init => Pooled = {} BY DEF Init, Pooled
  <2> QED BY <2>1, FS_EmptySet DEF Init, OrderInv
<1>2. Inv /\ OrderInv /\ [Next]_vars => [Bounded]_vars
  <2> SUFFICES ASSUME Inv, OrderInv, Next, Cardinality(Pooled) >= MaxPoolSize, Unlocked # {}
               PROVE  Cardinality(Pooled') <= Cardinality(Pooled)
    OBVIOUS
  <2>0. Cardinality(Pooled) \in Nat BY FS_CardinalityType DEF OrderInv
  <2>1. ASSUME NEW t \in Tasks, NEW k \in Keys, WithLockNew(t, k)
        PROVE  Cardinality(Pooled') <= Cardinality(Pooled)
    <3>1. Pooled' = (Pooled \ Evicted) \cup {k} BY <2>1, PooledAfterNew DEF Inv
    <3>2. PICK j : j \in Evicted BY CleanupMakesRoom DEF Evicted
    <3>3. j \in Pooled BY <3>2, EvictedUnlocked DEF Unlocked
    <3>4. IsFiniteSet(Pooled \ {j}) /\ Cardinality(Pooled \ {j}) = Cardinality(Pooled) - 1
      BY <3>3, FS_RemoveElement DEF OrderInv
    <3>5. Pooled \ Evicted \subseteq Pooled \ {j} BY <3>2
    <3>6. IsFiniteSet(Pooled \ Evicted) /\ Cardinality(Pooled \ Evicted) <= Cardinality(Pooled) - 1
      BY <3>4, <3>5, FS_Subset
    <3>7. Cardinality(Pooled \ Evicted) \in Nat BY <3>6, FS_CardinalityType
    <3> DEFINE rest == Pooled \ Evicted
    <3>8. Cardinality(Pooled') = Cardinality(rest \cup {k}) BY <3>1
    <3>9. Cardinality(rest) \in Nat /\ Cardinality(rest) <= Cardinality(Pooled) - 1 BY <3>6, <3>7
    <3>10. Cardinality(rest \cup {k}) \in {Cardinality(rest), Cardinality(rest) + 1}
      <4>1. IsFiniteSet(rest) BY <3>6
      <4> HIDE DEF rest
      <4> QED BY <4>1, FS_AddElement
    <3> HIDE DEF rest
    <3> QED BY <3>8, <3>9, <3>10, <2>0
  <2>2. CASE ForceCleanup
    <3>1. Pooled' \subseteq Pooled BY <2>2 DEF ForceCleanup, Without, Pooled, Inv, TypeOK
    <3> QED BY <3>1, FS_Subset DEF OrderInv
  <2>3. ASSUME UNCHANGED pool PROVE Cardinality(Pooled') <= Cardinality(Pooled)
    BY <2>0, <2>3 DEF Pooled
  <2> QED BY <2>1, <2>2, <2>3 DEF Next, WithLockPooled, StartCallback, FinishCallback
<1>3. Inv /\ OrderInv /\ [Next]_vars => OrderInv' BY OrderStep DEF Inv
<1>4. Spec => []OrderInv BY <1>1, <1>3, Invariance, PTL DEF Spec
<1> QED BY <1>2, <1>4, Invariance, PTL DEF Spec, PoolBounded

-----------------------------------------------------------------------------
(* What EveryCallerServed rests on besides fairness.                       *)

\* Whoever waits does so behind a caller of the same login who is at the head of
\* the line and whose callback can start or is running: no wake-up is lost.
HeadIsAtWork ==
  \A t \in Tasks : phase[t] = "waiting" =>
    LET u == Head(line[mutex[t]]) IN
    /\ u \in Tasks /\ mutex[u] = mutex[t] /\ key[u] = key[t]
    /\ phase[u] \in {"waiting", "running"}

\* His line only grows at its end or loses its head, and he stays in it until his
\* callback has run: nobody overtakes him, and the clean-up does not forget him.
Nearer(t) ==
  LET m == mutex[t] IN
  /\ phase'[t] \in {"waiting", "running"} /\ mutex'[t] = m /\ key'[t] = key[t]
  /\ \/ line'[m] = line[m]
     \/ \E u \in Tasks : line'[m] = Append(line[m], u)
     \/ line'[m] = Tail(line[m]) /\ phase[Head(line[m])] = "running"

NobodyOvertakes == [][\A t \in Tasks : phase[t] = "waiting" => Nearer(t)]_vars

LEMMA LineHead ==
  ASSUME Inv, NEW t \in Tasks, phase[t] # "idle"
  PROVE  LET u == Head(line[mutex[t]]) IN
         u \in Tasks /\ mutex[u] = mutex[t] /\ key[u] = key[t] /\ phase[u] \in {"waiting", "running"}
<1> DEFINE m == mutex[t]
           u == Head(line[m])
<1>1. m \in Mutexes /\ line[m] \in Seq(Tasks) /\ line[m] # <<>> /\ pool[key[t]] = m /\ key[t] \in Keys
  BY DEF Inv, TypeOK, CallerInv
<1>2. u = line[m][1] /\ 1 \in 1..Len(line[m]) /\ u \in Tasks BY <1>1
<1>3. phase[u] # "idle" /\ mutex[u] = m BY <1>1, <1>2 DEF Inv, LineInv
<1>4. pool[key[u]] = m /\ key[u] \in Keys BY <1>2, <1>3 DEF Inv, CallerInv
<1>5. key[u] = key[t] BY <1>1, <1>4 DEF Inv, PoolInv
<1>6. phase[u] \in {"waiting", "running"} BY <1>2, <1>3 DEF Inv, TypeOK
<1> QED BY <1>2, <1>3, <1>5, <1>6

\* Whoever waits has somebody at work before him and is not overtaken, for any
\* logins, callers and limit of the pool, through every clean-up.
THEOREM WaitersAreReached == Spec => []HeadIsAtWork /\ NobodyOvertakes
<1>1. Inv => HeadIsAtWork BY LineHead DEF HeadIsAtWork
<1>2. ASSUME Inv, [Next]_vars PROVE [\A t \in Tasks : phase[t] = "waiting" => Nearer(t)]_vars
  <2> SUFFICES ASSUME Next, NEW t \in Tasks, phase[t] = "waiting" PROVE Nearer(t)
    BY <1>2
  <2> DEFINE m == mutex[t]
  <2>1. m \in Mutexes /\ line[m] \in Seq(Tasks) /\ line[m] # <<>> /\ Head(line[m]) \in Tasks
    BY <1>2 DEF Inv, TypeOK, CallerInv
  <2>2. ASSUME NEW u \in Tasks, NEW k \in Keys, NEW n, Enqueue(u, k, n)
        PROVE  Nearer(t)
    <3>1. u # t /\ phase'[t] = phase[t] /\ mutex'[t] = m /\ key'[t] = key[t]
      BY <1>2, <2>2 DEF Enqueue, Inv, TypeOK
    <3>2. line'[m] = IF m = n THEN Append(line[m], u) ELSE line[m]
      BY <1>2, <2>1, <2>2 DEF Enqueue, Inv, TypeOK
    <3> QED BY <3>1, <3>2 DEF Nearer
  <2>3. ASSUME NEW u \in Tasks, StartCallback(u) PROVE Nearer(t)
    BY <1>2, <2>3 DEF StartCallback, Nearer, Inv, TypeOK
  <2>4. ASSUME NEW u \in Tasks, FinishCallback(u) PROVE Nearer(t)
    <3>1. u # t /\ phase'[t] = phase[t] /\ mutex'[t] = m /\ key'[t] = key[t]
      BY <1>2, <2>4 DEF FinishCallback, Inv, TypeOK
    <3>2. Head(line[mutex[u]]) = u /\ phase[u] = "running"
      BY <1>2, <2>4 DEF FinishCallback, Inv, HeadInv
    <3>3. line'[m] = IF m = mutex[u] THEN Tail(line[m]) ELSE line[m]
      BY <1>2, <2>1, <2>4 DEF FinishCallback, Inv, TypeOK
    <3> QED BY <3>1, <3>2, <3>3 DEF Nearer
  <2>5. CASE ForceCleanup BY <2>5 DEF ForceCleanup, Nearer
  <2> QED BY <2>2, <2>3, <2>4, <2>5 DEF Next, WithLockPooled, WithLockNew
<1>3. Inv /\ [Next]_vars => [\A t \in Tasks : phase[t] = "waiting" => Nearer(t)]_vars BY <1>2
<1> QED BY <1>1, <1>3, Invariance, PTL DEF Spec, NobodyOvertakes

-----------------------------------------------------------------------------
(* The half the clean-up takes.                                            *)

\* Of finitely many things in a row, those with less than half of them before
\* them are half of them, rounded up, and come before the others.
LEMMA FirstHalf ==
  ASSUME NEW U, IsFiniteSet(U), NEW R,
         \A i, j \in U : <<i, j>> \in R => i # j,
         \A i, j, k \in U : <<i, j>> \in R /\ <<j, k>> \in R => <<i, k>> \in R,
         \A i, j \in U : i # j => <<i, j>> \in R \/ <<j, i>> \in R,
         NEW C, C = {k \in U : 2 * Cardinality({j \in U : <<j, k>> \in R}) < Cardinality(U)}
  PROVE  /\ 2 * Cardinality(C) \in {Cardinality(U), Cardinality(U) + 1}
         /\ \A j \in C, k \in U \ C : <<j, k>> \in R
<1> DEFINE B(k) == {j \in U : <<j, k>> \in R}
           n == Cardinality(U)
           f == [k \in U |-> Cardinality(B(k))]
           h == (n + 1) \div 2
<1>1. n \in Nat BY FS_CardinalityType
<1>2. ASSUME NEW k \in U PROVE IsFiniteSet(B(k)) /\ f[k] \in 0..(n - 1) /\ f[k] = Cardinality(B(k))
  <2>1. IsFiniteSet(U \ {k}) /\ Cardinality(U \ {k}) = n - 1 BY FS_RemoveElement
  <2>2. B(k) \in SUBSET (U \ {k}) OBVIOUS
  <2>3. IsFiniteSet(B(k)) /\ Cardinality(B(k)) <= n - 1
    <3> HIDE DEF B, n
    <3> QED BY <2>1, <2>2, FS_Subset
  <2>4. Cardinality(B(k)) \in Nat
    <3> HIDE DEF B
    <3> QED BY <2>3, FS_CardinalityType
  <2>5. f[k] = Cardinality(B(k)) OBVIOUS
  <2> HIDE DEF B, n, f
  <2> QED BY <1>1, <2>3, <2>4, <2>5
<1>3. \A k \in U : IsFiniteSet(B(k)) /\ f[k] = Cardinality(B(k)) /\ f[k] \in 0..(n - 1) BY <1>2
<1>4. ASSUME NEW j \in U, NEW k \in U, <<j, k>> \in R PROVE f[j] < f[k]
  <2>1. B(j) \cup {j} \in SUBSET B(k) /\ j \notin B(j) BY <1>4
  <2> HIDE DEF B, f, n
  <2>2. IsFiniteSet(B(j)) /\ IsFiniteSet(B(k)) /\ f[j] = Cardinality(B(j)) /\ f[k] = Cardinality(B(k))
        /\ f[j] \in Nat /\ f[k] \in Nat
    BY <1>1, <1>3
  <2>3. Cardinality(B(j) \cup {j}) = Cardinality(B(j)) + 1 BY <2>1, <2>2, FS_AddElement
  <2>4. Cardinality(B(j) \cup {j}) <= Cardinality(B(k)) BY <2>1, <2>2, FS_Subset
  <2> QED BY <2>2, <2>3, <2>4
<1>5. \A k \in U : f[k] \in 0..(n - 1) BY <1>2
<1>6. f = [k \in U |-> f[k]] OBVIOUS
<1>7. \A k \in C : k \in U /\ 2 * f[k] < n BY <1>2
<1>8. \A k \in U : 2 * f[k] < n => k \in C BY <1>2
<1>9. C \subseteq U OBVIOUS
<1> HIDE DEF B, f
<1>10. \A j, k \in U : j # k => f[j] # f[k]
  <2> SUFFICES ASSUME NEW j \in U, NEW k \in U, j # k PROVE f[j] # f[k] OBVIOUS
  <2>1. f[j] < f[k] \/ f[k] < f[j] BY <1>4
  <2>2. f[j] \in Nat /\ f[k] \in Nat BY <1>5
  <2> QED BY <2>1, <2>2
<1>11. \A i \in 0..(n - 1) : \E k \in U : f[k] = i
  <2>1. f \in Injection(U, 0..(n - 1)) BY <1>5, <1>6, <1>10 DEF Injection, IsInjective
  <2>2. IsFiniteSet(0..(n - 1)) /\ Cardinality(0..(n - 1)) = n
    <3> HIDE DEF n
    <3> QED BY <1>1, FS_Interval
  <2>3. f \in Surjection(U, 0..(n - 1)) BY <2>1, <2>2, FS_Injection
  <2> QED BY <2>3 DEF Surjection
<1> HIDE DEF n
<1>12. h \in Nat /\ 2 * h \in {n, n + 1} /\ \A i \in Nat : 2 * i < n <=> i < h BY <1>1
<1>13. Cardinality(C) = h
  <2> DEFINE g == [k \in C |-> f[k]]
  <2> HIDE DEF h
  <2>1. \A k \in C : f[k] \in 0..(h - 1)
    <3> SUFFICES ASSUME NEW k \in C PROVE f[k] \in 0..(h - 1) OBVIOUS
    <3>1. f[k] \in Nat /\ 2 * f[k] < n BY <1>1, <1>5, <1>7
    <3> QED BY <1>12, <3>1
  <2>2. \A i \in 0..(h - 1) : \E k \in C : f[k] = i
    <3> SUFFICES ASSUME NEW i \in 0..(h - 1) PROVE \E k \in C : f[k] = i OBVIOUS
    <3>1. i \in Nat /\ 2 * i < n BY <1>12
    <3>2. i \in 0..(n - 1) BY <1>1, <3>1
    <3>3. PICK k \in U : f[k] = i BY <1>11, <3>2
    <3> QED BY <1>8, <3>1, <3>3
  <2>3. g \in Surjection(C, 0..(h - 1)) BY <2>1, <2>2 DEF Surjection
  <2>4. g \in Injection(C, 0..(h - 1)) BY <1>9, <1>10, <2>1 DEF Injection, IsInjective
  <2>5. IsFiniteSet(C) BY <1>9, FS_Subset
  <2>6. Cardinality(0..(h - 1)) = h BY <1>12, FS_Interval
  <2> HIDE DEF g
  <2> QED BY <2>3, <2>4, <2>5, <2>6, FS_Surjection
<1>14. ASSUME NEW j \in C, NEW k \in U \ C PROVE <<j, k>> \in R
  <2>1. j \in U /\ j # k BY <1>9
  <2>2. f[j] < f[k]
    <3>1. f[j] \in Nat /\ f[k] \in Nat BY <1>5, <2>1
    <3>2. 2 * f[j] < n /\ ~(2 * f[k] < n) BY <1>7, <1>8
    <3> QED BY <1>1, <3>1, <3>2
  <2>3. ~(<<k, j>> \in R)
    <3>1. f[j] \in Nat /\ f[k] \in Nat BY <1>5, <2>1
    <3> QED BY <1>4, <2>1, <2>2, <3>1
  <2> QED BY <2>1, <2>3
<1>15. Cardinality(U) = n BY DEF n
<1> QED BY <1>12, <1>13, <1>14, <1>15

\* Of two logins in the pool one came before the other.
RowInv == \A i, j \in Pooled : i # j => <<i, j>> \in older \/ <<j, i>> \in older

LEMMA RowStep == ASSUME TypeOK, RowInv, [Next]_vars PROVE RowInv'
<1>1. ASSUME NEW t \in Tasks, NEW k \in Keys, WithLockNew(t, k) PROVE RowInv'
  <2>1. /\ Pooled' = (Pooled \ Evicted) \cup {k}
        /\ older' = {p \in older : p[1] \notin Evicted /\ p[2] \notin Evicted}
                      \cup {<<j, k>> : j \in Pooled \ Evicted}
    BY <1>1, PooledAfterNew
  <2> QED BY <2>1 DEF RowInv
<1>2. CASE ForceCleanup
  <2>1. Pooled' = Pooled \ Unlocked BY <1>2 DEF ForceCleanup, Without, Pooled, TypeOK
  <2>2. older' = {p \in older : p[1] \notin Unlocked /\ p[2] \notin Unlocked}
    BY <1>2 DEF ForceCleanup, OlderWithout
  <2> QED BY <2>1, <2>2 DEF RowInv
<1>3. ASSUME UNCHANGED <<pool, older>> PROVE RowInv'
  BY <1>3 DEF RowInv, Pooled
<1> QED
  BY <1>1, <1>2, <1>3 DEF Next, WithLockPooled, StartCallback, FinishCallback, vars

\* The clean-up takes the oldest half of the idle Mutex objects, rounded up, for
\* any number of logins and any history of insertions and clean-ups.
THEOREM CleanupIsTheOldestHalf == Spec => []CleanupTakesHalf
<1>1. Init => OrderInv /\ RowInv
  <2>1. Init => Pooled = {} BY DEF Init, Pooled
  <2> QED BY <2>1, FS_EmptySet DEF Init, OrderInv, RowInv
<1>2. Inv /\ OrderInv /\ RowInv /\ [Next]_vars => OrderInv' /\ RowInv' BY OrderStep, RowStep DEF Inv
<1>3. ASSUME OrderInv, RowInv PROVE CleanupTakesHalf
  <2>1. Unlocked \subseteq Pooled /\ Unlocked \subseteq Keys BY DEF Unlocked, Pooled
  <2>2. IsFiniteSet(Unlocked) BY <1>3, <2>1, FS_Subset DEF OrderInv
  <2>3. \A i, j \in Unlocked : <<i, j>> \in older => i # j BY <1>3, <2>1 DEF OrderInv
  <2>4. \A i, j, k \in Unlocked : <<i, j>> \in older /\ <<j, k>> \in older => <<i, k>> \in older
    BY <1>3, <2>1 DEF OrderInv
  <2>5. \A i, j \in Unlocked : i # j => <<i, j>> \in older \/ <<j, i>> \in older
    BY <1>3, <2>1 DEF RowInv
  <2>6. cleanupUnusedMutex =
          {k \in Unlocked : 2 * Cardinality({j \in Unlocked : <<j, k>> \in older}) < Cardinality(Unlocked)}
    BY DEF cleanupUnusedMutex
  <2> DEFINE C == cleanupUnusedMutex
  <2>7. C = {k \in Unlocked :
              2 * Cardinality({j \in Unlocked : <<j, k>> \in older}) < Cardinality(Unlocked)}
    BY <2>6
  <2> HIDE DEF C
  <2>8. /\ 2 * Cardinality(C) \in {Cardinality(Unlocked), Cardinality(Unlocked) + 1}
        /\ \A j \in C, k \in Unlocked \ C : <<j, k>> \in older
    BY <2>2, <2>3, <2>4, <2>5, <2>7, FirstHalf, ZenonT(60)
  <2> QED BY <2>8 DEF C, CleanupTakesHalf
<1> QED BY <1>1, <1>2, <1>3, Invariance, PTL DEF Spec
=============================================================================
