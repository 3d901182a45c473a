---------------------------- MODULE PositionsProofs ----------------------------
(***************************************************************************)
(* What the mapper makes of the broker's answers, for any positions,       *)
(* balances and interleaving of trades, answers and restarts.              *)
(***************************************************************************)
EXTENDS Positions, TLAPS

\* The fields of an extraction's local variables and of the account, and the
\* numbers among them.
PositionsShape ==
  /\ DOMAIN fetch = {"busy", "from", "open", "closed", "quiet", "mapped"}
  /\ fetch.busy \in BOOLEAN
  /\ DOMAIN account = {"open", "closed", "peak"}
  /\ account.peak \in Int \cup {NaN, NoRecord}
  /\ account.open \subseteq Tickets
  /\ fetch.open \in (SUBSET Tickets) \cup {NotAsked}
  /\ broker.balance \in Int

\* An extraction's copy is the account, through JSON: nothing else writes the
\* positions while it is under way but a restart, which ends it.
CopyIsCurrent == fetch.busy => fetch.from = Json(account)

\* Until a trade disturbs it, what an extraction was told is what there is.
AnswersAreCurrent ==
  fetch.busy /\ fetch.quiet =>
    /\ fetch.open \in {NotAsked, BrokerOpen}
    /\ fetch.closed \in {NotAsked, {p \in Tickets : ClosedDeals(p)}}

PositionsInv == PositionsShape /\ CopyIsCurrent /\ AnswersAreCurrent /\ MirrorIsExact

\* A trade ends what was said of the account; it does not change the account.
LEMMA TradeStep ==
  ASSUME PositionsInv, NEW p \in Tickets, NEW position, NEW balance \in Int, Trade(p, position, balance)
  PROVE  PositionsInv'
<1>1. /\ broker'.balance = balance /\ account' = account
      /\ fetch' = [fetch EXCEPT !.quiet = ~fetch.busy, !.mapped = "no"]
  BY DEF Trade
<1>2. /\ DOMAIN fetch' = DOMAIN fetch
      /\ fetch'.busy = fetch.busy /\ fetch'.from = fetch.from
      /\ fetch'.quiet = ~fetch.busy /\ fetch'.mapped = "no" /\ fetch'.open = fetch.open
  BY <1>1 DEF PositionsInv, PositionsShape
<1> QED
  BY <1>1, <1>2 DEF PositionsInv, PositionsShape, CopyIsCurrent, AnswersAreCurrent, MirrorIsExact, Json

\* What the mapping returns of a copy of the account.
LEMMA MappingShape ==
  ASSUME NEW a, DOMAIN a = {"open", "closed", "peak"}, a.peak \in Int \cup {NaN, NoRecord},
         NEW open, NEW closed, NEW balance \in Int
  PROVE  LET m == mapBrokeretDataToAccount(a, open, closed, balance) IN
           /\ DOMAIN m = {"open", "closed", "peak"}
           /\ m.peak \in Int \cup {NaN, NoRecord}
           /\ a.peak \in Int => m.peak \in Int /\ m.peak >= a.peak
           /\ \/ m = a /\ Unexplained(a, open, closed)
              \/ m.open = open /\ m.closed = a.closed /\ Cardinality(closed) < Cardinality(m.closed)
              \/ m.open = open /\ m.closed = closed
BY NumbersAssumption DEF mapBrokeretDataToAccount, maxMinBalance, larger

\* JSON keeps the fields, and the highest balance if it is a number.
LEMMA JsonShape ==
  ASSUME NEW a, DOMAIN a = {"open", "closed", "peak"}, a.peak \in Int \cup {NaN, NoRecord}
  PROVE  /\ DOMAIN Json(a) = {"open", "closed", "peak"}
         /\ Json(a).open = a.open /\ Json(a).closed = a.closed
         /\ Json(a).peak \in Int \cup {NaN, NoRecord}
         /\ a.peak \in Int => Json(a).peak = a.peak
BY NumbersAssumption DEF Json

\* Between extractions.
LEMMA IdleShape ==
  /\ DOMAIN FetchIdle = {"busy", "from", "open", "closed", "quiet", "mapped"}
  /\ FetchIdle.busy = FALSE /\ FetchIdle.mapped = "no" /\ FetchIdle.open = NotAsked
BY DEF FetchIdle

\* The end of an extraction: the account is the mapping of the answers and of
\* the copy, or the copy.
LEMMA ProcessStep ==
  ASSUME PositionsInv, processAccountData
  PROVE  /\ PositionsInv'
         /\ fetch'.mapped # "no" /\ account.peak \in Int => account'.peak \in Int /\ account'.peak >= account.peak
<1> DEFINE a == Json(account)
           listed == {p \in Tickets : ClosedDeals(p)}
           m == mapBrokeretDataToAccount(a, fetch.open, fetch.closed, broker.balance)
<1>1. /\ fetch.busy /\ fetch.from = a /\ broker' = broker
      /\ \/ /\ NotAsked \notin {fetch.open, fetch.closed}
            /\ account' = m
            /\ fetch' = [FetchIdle EXCEPT !.mapped = IF fetch.quiet THEN "undisturbed" ELSE "disturbed"]
         \/ account' = a /\ fetch' = FetchIdle
  BY DEF processAccountData, PositionsInv, CopyIsCurrent
<1>2. /\ DOMAIN a = {"open", "closed", "peak"} /\ a.peak \in Int \cup {NaN, NoRecord}
      /\ a.open = account.open
      /\ account.peak \in Int => a.peak = account.peak
  BY JsonShape DEF PositionsInv, PositionsShape
<1>3. /\ DOMAIN m = {"open", "closed", "peak"}
      /\ m.peak \in Int \cup {NaN, NoRecord}
      /\ a.peak \in Int => m.peak \in Int /\ m.peak >= a.peak
      /\ \/ m = a /\ Unexplained(a, fetch.open, fetch.closed)
         \/ m.open = fetch.open /\ m.closed = a.closed /\ Cardinality(fetch.closed) < Cardinality(m.closed)
         \/ m.open = fetch.open /\ m.closed = fetch.closed
  <2> HIDE DEF a
  <2>1. broker.balance \in Int BY DEF PositionsInv, PositionsShape
  <2> QED BY <1>2, <2>1, MappingShape
<1>4. BrokerOpen' = BrokerOpen /\ (\A p \in Tickets : ClosedDeals(p)' = ClosedDeals(p))
  BY <1>1 DEF BrokerOpen, ClosedDeals
<1> HIDE DEF a, m
<1>5. CASE /\ NotAsked \notin {fetch.open, fetch.closed}
           /\ account' = m
           /\ fetch' = [FetchIdle EXCEPT !.mapped = IF fetch.quiet THEN "undisturbed" ELSE "disturbed"]
  <2>1. /\ fetch'.mapped = (IF fetch.quiet THEN "undisturbed" ELSE "disturbed")
        /\ DOMAIN fetch' = {"busy", "from", "open", "closed", "quiet", "mapped"}
        /\ fetch'.busy = FALSE /\ fetch'.open = NotAsked
    BY <1>5 DEF FetchIdle
  <2>2. ASSUME fetch.quiet PROVE fetch.open = BrokerOpen /\ fetch.closed = listed
    BY <2>2, <1>1, <1>5 DEF PositionsInv, AnswersAreCurrent
  <2>3. MirrorIsExact'
    <3> SUFFICES ASSUME fetch.quiet
                 PROVE  \/ BrokerOpen' = {} /\ \E p \in account'.open : ~ClosedDeals(p)'
                        \/ /\ account'.open = BrokerOpen'
                           /\ \/ account'.closed = {p \in Tickets : ClosedDeals(p)'}
                              \/ Cardinality({p \in Tickets : ClosedDeals(p)'}) < Cardinality(account'.closed)
      BY <2>1 DEF MirrorIsExact
    <3>1. {p \in Tickets : ClosedDeals(p)'} = listed BY <1>4
    <3>2. CASE m = a /\ Unexplained(a, fetch.open, fetch.closed)
      <4>1. BrokerOpen = {} /\ \E p \in a.open : p \notin listed
        BY <2>2, <3>2 DEF Unexplained
      <4>2. account'.open = a.open BY <3>2, <1>5
      <4>3. \A p : p \in a.open /\ p \notin listed => ~ClosedDeals(p)'
        <5> SUFFICES ASSUME NEW p \in a.open, p \notin listed PROVE ~ClosedDeals(p)'
          OBVIOUS
        <5>1. p \in Tickets BY <1>2 DEF PositionsInv, PositionsShape
        <5> QED BY <5>1, <1>4
      <4> QED BY <4>1, <4>2, <4>3, <1>4
    <3>3. CASE m.open = fetch.open /\ m.closed = a.closed /\ Cardinality(fetch.closed) < Cardinality(m.closed)
      BY <2>2, <3>1, <3>3, <1>4, <1>5
    <3>4. CASE m.open = fetch.open /\ m.closed = fetch.closed
      BY <2>2, <3>1, <3>4, <1>4, <1>5
    <3> QED BY <3>2, <3>3, <3>4, <1>3
  <2>4. account'.open \subseteq Tickets
    BY <1>2, <1>3, <1>5 DEF PositionsInv, PositionsShape
  <2>5. PositionsShape'
    BY <2>1, <2>4, <1>1, <1>3, <1>5 DEF PositionsInv, PositionsShape
  <2>6. CopyIsCurrent' /\ AnswersAreCurrent' BY <2>1 DEF CopyIsCurrent, AnswersAreCurrent
  <2>7. account.peak \in Int => account'.peak \in Int /\ account'.peak >= account.peak
    BY <1>2, <1>3, <1>5
  <2> QED BY <2>3, <2>5, <2>6, <2>7 DEF PositionsInv
<1>6. CASE account' = a /\ fetch' = FetchIdle
  <2>1. PositionsShape' BY <1>1, <1>2, <1>6, IdleShape DEF PositionsInv, PositionsShape
  <2>2. CopyIsCurrent' /\ AnswersAreCurrent' /\ MirrorIsExact' /\ fetch'.mapped = "no"
    BY <1>6, IdleShape DEF CopyIsCurrent, AnswersAreCurrent, MirrorIsExact
  <2> QED BY <2>1, <2>2 DEF PositionsInv
<1> QED BY <1>1, <1>5, <1>6

\* Every step keeps the invariant.
LEMMA PositionsStep == ASSUME PositionsInv, [PositionsNext]_positionVars PROVE PositionsInv'
<1> USE DEF PositionsInv, PositionsShape, CopyIsCurrent, AnswersAreCurrent
<1>1. CASE extractAccountDataFromBrokeret
  <2>1. /\ DOMAIN fetch' = {"busy", "from", "open", "closed", "quiet", "mapped"}
        /\ fetch'.busy /\ fetch'.from = Json(account) /\ fetch'.open = NotAsked /\ fetch'.closed = NotAsked
        /\ fetch'.mapped = "no" /\ account' = account /\ broker' = broker
    BY <1>1 DEF extractAccountDataFromBrokeret, FetchIdle
  <2>2. PositionsShape' BY <2>1
  <2>3. CopyIsCurrent' BY <2>1 DEF Json
  <2>4. AnswersAreCurrent' BY <2>1
  <2>5. MirrorIsExact' BY <2>1 DEF MirrorIsExact
  <2> QED BY <2>2, <2>3, <2>4, <2>5
<1>2. CASE listOpenPositions
  <2>1. /\ DOMAIN fetch' = DOMAIN fetch /\ fetch'.open = BrokerOpen
        /\ \A f \in {"busy", "from", "closed", "quiet", "mapped"} : fetch'[f] = fetch[f]
        /\ account' = account /\ broker' = broker
    BY <1>2 DEF listOpenPositions
  <2> QED BY <2>1 DEF MirrorIsExact, Json, BrokerOpen, ClosedDeals
<1>3. CASE listClosedPositions
  <2>1. /\ DOMAIN fetch' = DOMAIN fetch /\ fetch'.closed = {p \in Tickets : ClosedDeals(p)}
        /\ \A f \in {"busy", "from", "open", "quiet", "mapped"} : fetch'[f] = fetch[f]
        /\ account' = account /\ broker' = broker
    BY <1>3 DEF listClosedPositions
  <2> QED BY <2>1 DEF MirrorIsExact, Json, BrokerOpen, ClosedDeals
<1>4. CASE processAccountData BY <1>4, ProcessStep
<1>5. CASE Restart
  <2>1. account' = Json(account) /\ fetch' = FetchIdle /\ broker' = broker BY <1>5 DEF Restart
  <2>2. PositionsShape' BY <2>1, JsonShape, IdleShape
  <2>3. CopyIsCurrent' /\ AnswersAreCurrent' /\ MirrorIsExact' BY <2>1, IdleShape DEF MirrorIsExact
  <2> QED BY <2>2, <2>3
<1>6. ASSUME NEW p \in Tickets, NEW position, NEW balance \in Int, Trade(p, position, balance)
      PROVE  PositionsInv'
  BY <1>6, TradeStep
<1>7. ASSUME NEW p \in Tickets, OpenPosition(p) PROVE PositionsInv'
  BY <1>6, <1>7 DEF OpenPosition
<1>8. ASSUME NEW p \in Tickets, DealsAge(p) PROVE PositionsInv'
  BY <1>6, <1>8 DEF DealsAge
<1>9. ASSUME NEW p \in Tickets, NEW partly \in BOOLEAN, NEW b \in Balances, ClosePosition(p, partly, b)
      PROVE  PositionsInv'
  <2>1. b \in Int BY NumbersAssumption
  <2> QED BY <1>6, <1>9, <2>1 DEF ClosePosition
<1>10. CASE UNCHANGED positionVars
  BY <1>10 DEF positionVars, MirrorIsExact, Json, BrokerOpen, ClosedDeals
<1> QED BY <1>1, <1>2, <1>3, <1>4, <1>5, <1>7, <1>8, <1>9, <1>10 DEF PositionsNext

LEMMA PositionsInvariance == PositionsSpec => []PositionsInv
<1>1. ASSUME PositionsInit PROVE PositionsInv
  <2>1. PICK initial \in Balances :
          /\ broker = [position |-> [p \in Tickets |-> NotTraded], balance |-> initial]
          /\ account = [open |-> {}, closed |-> {}, peak |-> NoRecord]
          /\ fetch = FetchIdle
    BY <1>1 DEF PositionsInit
  <2>2. PositionsShape BY <2>1, IdleShape, NumbersAssumption DEF PositionsShape
  <2>3. CopyIsCurrent /\ AnswersAreCurrent /\ MirrorIsExact
    BY <2>1, IdleShape DEF CopyIsCurrent, AnswersAreCurrent, MirrorIsExact
  <2> QED BY <2>2, <2>3 DEF PositionsInv
<1> QED BY <1>1, PositionsStep, PTL DEF PositionsSpec

\* After an extraction no trade disturbed the account has the broker's positions,
\* or one of the rules held it back, for any number of positions.
THEOREM MirrorStaysExact == PositionsSpec => []MirrorIsExact
BY PositionsInvariance, PTL DEF PositionsInv

\* The highest balance is never lowered once it is a number, for any balances.
THEOREM PeakStays == PositionsSpec => PeakIsKept
<1> DEFINE Kept == fetch.busy /\ fetch'.mapped # "no" /\ account.peak \notin {NaN, NoRecord} =>
                     account'.peak \notin {NaN, NoRecord} /\ account'.peak >= account.peak
<1>1. PositionsInv /\ [PositionsNext]_positionVars => [Kept]_<<fetch, account>>
  <2> SUFFICES ASSUME PositionsInv, [PositionsNext]_positionVars, fetch.busy, fetch'.mapped # "no",
                      account.peak \notin {NaN, NoRecord}, ~UNCHANGED <<fetch, account>>
               PROVE  account'.peak \notin {NaN, NoRecord} /\ account'.peak >= account.peak
    OBVIOUS
  <2>1. account.peak \in Int BY DEF PositionsInv, PositionsShape
  <2>2. CASE processAccountData BY <2>1, <2>2, ProcessStep, NumbersAssumption
  <2>3. ASSUME account' = account PROVE account'.peak >= account.peak /\ account'.peak \notin {NaN, NoRecord}
    BY <2>1, <2>3, NumbersAssumption
  <2>4. ~Restart BY DEF Restart, FetchIdle
  <2> QED
    BY <2>2, <2>3, <2>4 DEF PositionsNext, extractAccountDataFromBrokeret, listOpenPositions,
       listClosedPositions, OpenPosition, DealsAge, ClosePosition, Trade, positionVars
<1> QED BY <1>1, PositionsInvariance, PTL DEF PositionsSpec, PeakIsKept
=============================================================================
