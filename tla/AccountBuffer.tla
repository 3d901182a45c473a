---------------------------- MODULE AccountBuffer ----------------------------
(***************************************************************************)
(* The account buffer: ClassBuffer (a Map from login to a live Account     *)
(* object) and the operations of BufferService on it.                      *)
(*                                                                         *)
(* Every mutex of the pool is reduced to one bit per login.  BufferMutex   *)
(* shows that callers see one FIFO lock per login; all callbacks but one   *)
(* are synchronous, so only the job that awaits inside its callback leaves *)
(* the bit set between two steps.                                          *)
(*                                                                         *)
(* Jobs keep references to Account objects across awaits.  A reference     *)
(* stays Live while the Map holds the same object, sees the changes made   *)
(* to that object in place, and is left with the last content of the       *)
(* object once somebody puts another one in its place.                     *)
(***************************************************************************)
EXTENDS Naturals, FiniteSets

CONSTANTS
  Logins,     \* account logins
  Holders,    \* who keeps references: the extraction runs and the daily job
  NoAccount,  \* no entry, no reference
  Live        \* a reference to the object the Map holds now

VARIABLES
  buffer,     \* buffer[l]: content of the Account object of login l
  locked,     \* locked[l]: a callback of withLock(l) is suspended at an await
  held        \* held[h][l]: the reference holder h keeps to the account of l

bufferVars == <<buffer, locked, held>>

\* The data of an Account, by version.  conf: challengeId and riskValidation;
\* bal: balance.currentBalance; daily: balance.dailyBalance; open, closed: the
\* positions; stats: metaStats; time: lastUpdate; hash: lastPersistedHash, 0
\* when there is none.
Account == [conf : Nat, bal : Nat, daily : Nat, open : Nat, closed : Nat,
            stats : Nat, time : Nat, hash : Nat]

\* The two marks are not accounts, and no entry is no account's data.
ASSUME MarksAssumption ==
  /\ NoAccount # Live
  /\ NoAccount \notin Account
  /\ Live \notin Account
  /\ NoAccount \notin Logins
  /\ NoAccount \notin [open : Nat, closed : Nat, stats : Nat]

BufferTypeOK ==
  /\ buffer \in [Logins -> Account \cup {NoAccount}]
  /\ locked \in [Logins -> BOOLEAN]
  /\ held \in [Holders -> [Logins -> Account \cup {NoAccount, Live}]]

NoRefs == [l \in Logins |-> NoAccount]

\* A process that has just started.
BufferInit ==
  /\ buffer = NoRefs
  /\ locked = [l \in Logins |-> FALSE]
  /\ held = [h \in Holders |-> NoRefs]

Buffered == {l \in Logins : buffer[l] # NoAccount}

\* What holder h sees through its reference.
Seen(h, l) == IF held[h][l] = Live THEN buffer[l] ELSE held[h][l]

\* provider.set(l, a) with a new object, or provider.delete(l): references to
\* the object that was there keep its last content.
Replace(l, a) ==
  /\ buffer' = [buffer EXCEPT ![l] = a]
  /\ held' = [h \in Holders |-> [held[h] EXCEPT ![l] = Seen(h, l)]]

\* An assignment to fields of the object the Map holds.
ChangeInPlace(l, a) ==
  /\ buffer' = [buffer EXCEPT ![l] = a]
  /\ UNCHANGED held

\* Mutant of Free: operations that do not take the mutex.
FreeAlways(l) == l \in Logins

\* upsertAccount, deleteAccount and getSnapshot wait until the login is free.
Free(l) == ~locked[l]

\* deleteAccount; the HTTP handler answers 404 when there is nothing to delete.
DeleteAccount(l) ==
  /\ Free(l)
  /\ buffer[l] # NoAccount
  /\ Replace(l, NoAccount)
  /\ UNCHANGED locked
=============================================================================
