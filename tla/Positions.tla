------------------------------- MODULE Positions -------------------------------
(***************************************************************************)
(* What the buffer keeps of a trader's positions: the broker's deals, the  *)
(* queries of one extraction, which are separate, and the mapping of their *)
(* answers to the account (brokeret-api.client.ts, brokeret-data.mapper.ts,*)
(* more-stats.ts).                                                         *)
(***************************************************************************)
EXTENDS Integers, FiniteSets, FiniteSetsExt

CONSTANTS
  Tickets,     \* the positions the trader may open
  Balances,    \* what the balance can be
  NaN,         \* the result of arithmetic with undefined
  NoRecord     \* there are no statistics

ASSUME NumbersAssumption == Balances \subseteq Int /\ NaN \notin Int /\ NoRecord \notin Int

VARIABLES broker, account, fetch

positionVars == <<broker, account, fetch>>

NotAsked == {"not asked"}
FetchIdle == [busy |-> FALSE, from |-> [peak |-> NoRecord], open |-> NotAsked, closed |-> NotAsked,
              quiet |-> TRUE, mapped |-> "no"]

BrokerOpen == {p \in Tickets : broker.position[p].open}

\* The trader opens a position, closes it or, once, a part of it; the exit has no
\* profit if the balance stays as it is.
Trade(p, position, balance) ==
  /\ broker' = [position |-> [broker.position EXCEPT ![p] = position], balance |-> balance]
  /\ fetch' = [fetch EXCEPT !.quiet = ~fetch.busy, !.mapped = "no"]
  /\ UNCHANGED account

OpenPosition(p) ==
  /\ broker.position[p].deals = 0
  /\ Trade(p, [deals |-> 1, open |-> TRUE, gain |-> FALSE, old |-> FALSE], broker.balance)

ClosePosition(p, partly, balance) ==
  LET pos == broker.position[p] IN
  /\ pos.open /\ (partly => pos.deals = 1)
  /\ Trade(p, [pos EXCEPT !.deals = @ + 1, !.open = partly, !.gain = @ \/ balance # broker.balance], balance)

\* Ninety days after it was opened the entry is no longer among the deals.
DealsAge(p) ==
  /\ broker.position[p].deals = 2 /\ ~broker.position[p].old
  /\ Trade(p, [broker.position[p] EXCEPT !.old = TRUE], broker.balance)

\* JSON writes NaN as null, and Math.max takes null for 0.
Json(a) == [a EXCEPT !.peak = IF @ = NaN THEN 0 ELSE @]

\* An extraction takes its copy of the account, made through JSON, and asks all
\* its questions at once.
extractAccountDataFromBrokeret ==
  /\ ~fetch.busy
  /\ fetch' = [FetchIdle EXCEPT !.busy = TRUE, !.from = Json(account)]
  /\ UNCHANGED <<broker, account>>

listOpenPositions ==
  /\ fetch.busy /\ fetch.open = NotAsked
  /\ fetch' = [fetch EXCEPT !.open = BrokerOpen]
  /\ UNCHANGED <<broker, account>>

\* The deals are grouped by position; a group of two, the second with a profit,
\* is a closed position: also a part of one that is open, but not one that was
\* closed in parts, without a profit, or opened before the period.
ClosedDeals(p) ==
  broker.position[p].deals = 2 /\ broker.position[p].gain /\ ~broker.position[p].old

listClosedPositions ==
  /\ fetch.busy /\ fetch.closed = NotAsked
  /\ fetch' = [fetch EXCEPT !.closed = {p \in Tickets : ClosedDeals(p)}]
  /\ UNCHANGED <<broker, account>>

larger(a, b) == IF a > b THEN a ELSE b

\* Mutant of maxMinBalance: the highest balance is overwritten.
lastBalance(peak, balance) == IF peak \in {NoRecord, NaN} THEN NaN ELSE balance

\* getMoreStats: the highest balance (the lowest equity is kept alike).  There is
\* no number to begin with.
maxMinBalance(peak, balance) == IF peak \in {NoRecord, NaN} THEN NaN ELSE larger(peak, balance)

\* Mutant of Unexplained: rule 2.1 looks at the positions the mapping knows.
UnexplainedByKnown(a, open, closed) == open = {} /\ a.open \ a.closed # {}

\* Rule 2.1: no position is open, but of one that was the closing is not listed.
Unexplained(a, open, closed) == open = {} /\ a.open \ closed # {}

\* Without rules broken: the lists are taken as they are; rule 2.2: not a closed
\* list that is shorter.
mapBrokeretDataToAccount(a, open, closed, balance) ==
  IF Unexplained(a, open, closed) THEN a
  ELSE IF Cardinality(closed) < Cardinality(a.closed) THEN [a EXCEPT !.open = open]
  ELSE [open |-> open, closed |-> closed, peak |-> maxMinBalance(a.peak, balance)]

\* All have answered; or the API failed and the copy is written as it is.
processAccountData ==
  /\ fetch.busy
  /\ \/ /\ NotAsked \notin {fetch.open, fetch.closed}
        /\ account' = mapBrokeretDataToAccount(fetch.from, fetch.open, fetch.closed, broker.balance)
        /\ fetch' = [FetchIdle EXCEPT !.mapped = IF fetch.quiet THEN "undisturbed" ELSE "disturbed"]
     \/ account' = fetch.from /\ fetch' = FetchIdle
  /\ UNCHANGED broker

\* The process restarts after a flush (what is lost without one is a matter of the
\* flush, not of the mapping): the details come back as JSON.
Restart ==
  /\ account' = Json(account)
  /\ fetch' = FetchIdle
  /\ UNCHANGED broker

NotTraded == [deals |-> 0, open |-> FALSE, gain |-> FALSE, old |-> FALSE]

PositionsInit ==
  \E initial \in Balances :
    /\ broker = [position |-> [p \in Tickets |-> NotTraded], balance |-> initial]
    /\ account = [open |-> {}, closed |-> {}, peak |-> NoRecord]
    /\ fetch = FetchIdle

PositionsNext ==
  \/ extractAccountDataFromBrokeret \/ listOpenPositions \/ listClosedPositions
  \/ processAccountData \/ Restart
  \/ \E p \in Tickets : \/ OpenPosition(p) \/ DealsAge(p)
                         \/ \E partly \in BOOLEAN, b \in Balances : ClosePosition(p, partly, b)

PositionsSpec == PositionsInit /\ [][PositionsNext]_positionVars

\* After an extraction that no trade disturbed the account has the positions the
\* broker lists, except where a rule holds it back: a position it knows as open
\* was closed, nothing else is open, and its deals are not a closed position.
MirrorIsExact ==
  LET listed == {p \in Tickets : ClosedDeals(p)} IN
  fetch.mapped = "undisturbed" =>
    \/ BrokerOpen = {} /\ \E p \in account.open : ~ClosedDeals(p)
    \/ /\ account.open = BrokerOpen
       /\ account.closed = listed \/ Cardinality(listed) < Cardinality(account.closed)

\* The highest balance that was recorded is never lowered by an answer, also by
\* one that breaks a rule, though what is mapped is an older copy of the account.
PeakIsKept ==
  [][fetch.busy /\ fetch'.mapped # "no" /\ account.peak \notin {NaN, NoRecord} =>
       account'.peak \notin {NaN, NoRecord} /\ account'.peak >= account.peak]_<<fetch, account>>
=============================================================================
