--------------------------- MODULE AccountSources ---------------------------
(***************************************************************************)
(* What the buffer is filled from and written to: the challenge rows of    *)
(* the database and the trading accounts at the broker.  One challenge per *)
(* login; everything is kept by version, like the Account of the buffer.   *)
(***************************************************************************)
EXTENDS AccountBuffer

CONSTANTS
  MaxMarket,  \* bound on the versions of an account at the broker
  MaxConfig   \* bound on the versions of a challenge's configuration

VARIABLES
  market,     \* market[l]: version of the trading account at the broker, which
              \* is also the number of positions closed in it
  db          \* db[l]: the Challenge of l and its ChallengeDetails

sourceVars == <<market, db>>

\* active: isActive; config: details.rulesParams; dynamic: dynamicBalance;
\* details: a ChallengeDetails row exists; open, closed, stats, time: its
\* positions, metaStats and lastUpdate, that is what the last flush wrote.
Row == [active : BOOLEAN, details : BOOLEAN, config : Nat, dynamic : Nat,
        open : Nat, closed : Nat, stats : Nat, time : Nat]

SourcesTypeOK ==
  /\ market \in [Logins -> Nat \ {0}]
  /\ db \in [Logins -> Row]

NewRow(d) == [active |-> TRUE, details |-> d, config |-> 1, dynamic |-> 0,
              open |-> 0, closed |-> 0, stats |-> 0, time |-> 0]

\* A challenge created by an order has a details row; one created for the next
\* phase, for a withdrawal or through the API may have none.
SourcesInit ==
  /\ market = [l \in Logins |-> 1]
  /\ db \in [Logins -> {NewRow(d) : d \in BOOLEAN}]

\* A position is opened, moves or is closed at the broker.
Trade(l) ==
  /\ market[l] < MaxMarket
  /\ market' = [market EXCEPT ![l] = @ + 1]
  /\ UNCHANGED db
=============================================================================
