----------------------------- MODULE WriteBehind -----------------------------
(***************************************************************************)
(* What the buffer promises for the trading data of an account: it is      *)
(* loaded from the store, only moves towards the source while it is        *)
(* cached, and the store follows the cache without ever going back.        *)
(***************************************************************************)
EXTENDS Naturals

CONSTANTS
  Items,
  Absent      \* the item is not cached

VARIABLES
  source,     \* the data at the source
  cached,     \* the data in memory, or Absent
  stored      \* the data in the store

writeBehindVars == <<source, cached, stored>>

Data == [open : Nat, closed : Nat, stats : Nat]

\* b is as recent as a in every part.
AtMost(a, b) == a.open <= b.open /\ a.closed <= b.closed /\ a.stats <= b.stats

Init ==
  /\ source \in [Items -> Data]
  /\ cached = [i \in Items |-> Absent]
  /\ stored \in [Items -> Data]
  /\ \A i \in Items : AtMost(stored[i], source[i])

\* The data changes at the source.
Advance ==
  /\ source' \in [Items -> Data]
  /\ \A i \in Items : AtMost(source[i], source'[i])
  /\ UNCHANGED <<cached, stored>>

\* An item is loaded from the store.
Load(i) ==
  /\ cached[i] = Absent
  /\ cached' = [cached EXCEPT ![i] = stored[i]]
  /\ UNCHANGED <<source, stored>>

\* A cached item catches up with the source, as far as it gets.
Refresh(i) ==
  /\ cached[i] # Absent
  /\ cached'[i] \in Data
  /\ cached' = [cached EXCEPT ![i] = cached'[i]]
  /\ AtMost(cached[i], cached'[i])
  /\ AtMost(cached'[i], source[i])
  /\ UNCHANGED <<source, stored>>

\* Some cached items are stored, at the latest as they are cached now.
Store ==
  /\ stored' \in [Items -> Data]
  /\ \A i \in Items : \/ stored'[i] = stored[i]
                      \/ /\ cached[i] # Absent
                         /\ AtMost(stored[i], stored'[i])
                         /\ AtMost(stored'[i], cached[i])
  /\ UNCHANGED <<source, cached>>

\* The process dies and what was only cached is gone.
Lose ==
  /\ cached' = [i \in Items |-> Absent]
  /\ UNCHANGED <<source, stored>>

Next == Advance \/ Store \/ Lose \/ \E i \in Items : Load(i) \/ Refresh(i)

Spec == Init /\ [][Next]_writeBehindVars
=============================================================================
