------------------------------ MODULE KeyedLock ------------------------------
(***************************************************************************)
(* What BufferService and its callers rely on: every account key has one   *)
(* FIFO lock, for ever.  There is no pool, no mutex object and no clean-up *)
(* here; BufferMutex, which has all three, is shown to implement this.     *)
(***************************************************************************)
EXTENDS Sequences

CONSTANTS
  Keys,   \* account logins
  Tasks   \* calls of withLock that may be in progress at once

VARIABLES
  queue,  \* queue[k]: the tasks that asked for k, in order; the first holds it
  phase   \* phase[t]: where the call of task t stands

lockVars == <<queue, phase>>

Phases == {"idle", "waiting", "running"}

TypeOK ==
  /\ queue \in [Keys -> Seq(Tasks)]
  /\ phase \in [Tasks -> Phases]

Init ==
  /\ queue = [k \in Keys |-> <<>>]
  /\ phase = [t \in Tasks |-> "idle"]

\* A task asks for a key and joins the end of its queue.
Request(t, k) ==
  /\ phase[t] = "idle"
  /\ queue' = [queue EXCEPT ![k] = Append(@, t)]
  /\ phase' = [phase EXCEPT ![t] = "waiting"]

\* The first task of the queue starts its critical section.
Enter(t, k) ==
  /\ phase[t] = "waiting"
  /\ queue[k] # <<>>
  /\ Head(queue[k]) = t
  /\ phase' = [phase EXCEPT ![t] = "running"]
  /\ UNCHANGED queue

\* It leaves the critical section and hands the key to the next task.
Leave(t, k) ==
  /\ phase[t] = "running"
  /\ queue[k] # <<>>
  /\ Head(queue[k]) = t
  /\ queue' = [queue EXCEPT ![k] = Tail(@)]
  /\ phase' = [phase EXCEPT ![t] = "idle"]

Next == \E t \in Tasks, k \in Keys : Request(t, k) \/ Enter(t, k) \/ Leave(t, k)

Spec == Init /\ [][Next]_lockVars
=============================================================================
