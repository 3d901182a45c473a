---------------------------- MODULE RiskRulesProofs ----------------------------
(***************************************************************************)
(* The verdict on an account, for any rules, balances and interleaving of  *)
(* evaluations, extractions, trades and restarts.                          *)
(***************************************************************************)
EXTENDS RiskRules, FiniteSetTheorems, TLAPS

AccountFields == {"active", "created", "initial", "balance", "daily", "params", "status"}

\* The parameters of an account are its challenge's rules or what was measured,
\* which has no maxDrawdown.
RulesOrMeasured(params) == params = rules \/ params.maxDrawdown = Undefined

\* This holds of the account, of an extraction's copy of it and of a verdict that
\* is going to be stored.
ParamsInv ==
  /\ DOMAIN judged = AccountFields /\ RulesOrMeasured(judged.params)
  /\ copy # NoCopy => DOMAIN copy = AccountFields /\ RulesOrMeasured(copy.params)
  /\ verdict.busy => verdict.params.maxDrawdown = Undefined

\* The fields of an account that is loaded.
LEMMA LoadedShape ==
  ASSUME NEW active, NEW created, NEW initial, NEW dynamic
  PROVE  LET a == mapChallengeToAccount(active, created, initial, dynamic) IN
           DOMAIN a = AccountFields /\ a.params = rules
BY DEF mapChallengeToAccount, AccountFields

LEMMA ParamsStep == ASSUME ParamsInv, [RiskNext]_riskVars PROVE ParamsInv'
<1> USE DEF ParamsInv, RulesOrMeasured
<1>1. CASE TimePasses BY <1>1 DEF TimePasses
<1>2. CASE Trades BY <1>2 DEF Trades
<1>3. CASE CopyAccount BY <1>3 DEF CopyAccount
<1>4. CASE WriteCopy
  <2>1. /\ copy # NoCopy /\ copy' = NoCopy /\ rules' = rules /\ verdict' = verdict
        /\ judged' = copy \/ judged' = [copy EXCEPT !.balance = trader.balance, !.active = trader.active]
    BY <1>4 DEF WriteCopy
  <2>2. DOMAIN judged' = AccountFields /\ judged'.params = copy.params BY <2>1 DEF AccountFields
  <2> QED BY <2>1, <2>2
<1>5. CASE evaluate
  <2> DEFINE e == riskEvaluation(judged)
  <2>1. /\ verdict' = [busy |-> TRUE, params |-> mapToRiskValidation(e)]
        /\ judged' = [judged EXCEPT !.status = evaluateRiskStatus(e, judged.status)]
        /\ copy' = copy /\ rules' = rules
    BY <1>5 DEF evaluate
  <2> HIDE DEF e
  <2>2. verdict'.params.maxDrawdown = Undefined BY <2>1 DEF mapToRiskValidation
  <2>3. DOMAIN judged' = AccountFields /\ judged'.params = judged.params BY <2>1 DEF AccountFields
  <2> QED BY <2>1, <2>2, <2>3
<1>6. CASE storeEvaluation
  <2>1. /\ judged' = [judged EXCEPT !.params = verdict.params] /\ verdict.busy
        /\ verdict'.busy = FALSE /\ copy' = copy /\ rules' = rules
    BY <1>6 DEF storeEvaluation, NoVerdict
  <2>2. DOMAIN judged' = AccountFields /\ judged'.params = verdict.params BY <2>1 DEF AccountFields
  <2> QED BY <2>1, <2>2
<1>7. CASE updateDailyBalance
  <2>1. judged' = [judged EXCEPT !.daily = judged.balance] /\ UNCHANGED <<copy, rules, verdict>>
    BY <1>7 DEF updateDailyBalance
  <2>2. DOMAIN judged' = AccountFields /\ judged'.params = judged.params BY <2>1 DEF AccountFields
  <2> QED BY <2>1, <2>2
<1>8. CASE Reload
  <2>1. /\ judged' = mapChallengeToAccount(judged.active, judged.created, judged.initial, judged.daily)
        /\ copy' = NoCopy /\ verdict'.busy = FALSE /\ rules' = rules
    BY <1>8 DEF Reload, NoVerdict
  <2> QED BY <2>1, LoadedShape
<1>9. CASE UNCHANGED riskVars BY <1>9 DEF riskVars
<1> QED BY <1>1, <1>2, <1>3, <1>4, <1>5, <1>6, <1>7, <1>8, <1>9 DEF RiskNext

\* An evaluation is passed only if each of its five rules is.
LEMMA PassedAll ==
  ASSUME NEW a, riskEvaluation(a).status
  PROVE  /\ Above(Change(a.initial, a.balance), a.params.profitTarget)
         /\ AtMost(Change(a.daily, a.balance), a.params.dailyDrawdown)
         /\ AtMost(Change(a.initial, a.balance), a.params.maxDrawdown)
<1> DEFINE e == [profitTarget |-> calculateProfitTarget(a.params.profitTarget, a.balance, a.initial),
                 dailyDrawdown |-> calculateDailyTotalDrawdown(a.balance, a.params.dailyDrawdown, a.daily),
                 maxDrawdown |-> calculateDailyTotalDrawdown(a.balance, a.params.maxDrawdown, a.initial),
                 tradingDays |-> calculateTradingDays(a),
                 inactiveDays |-> consecutiveInactiveDays(a, a.params.inactiveDays)]
           all == \A rule \in DOMAIN e : e[rule].status
<1>1. riskEvaluation(a) = [f \in DOMAIN e \cup {"status"} |-> IF f = "status" THEN all ELSE e[f]]
  BY DEF riskEvaluation
<1>2. riskEvaluation(a).status = all
  <2> HIDE DEF e, all
  <2> QED BY <1>1
<1>3. \A rule \in DOMAIN e : e[rule].status BY <1>2
<1>4. e.profitTarget.status /\ e.dailyDrawdown.status /\ e.maxDrawdown.status BY <1>3
<1> QED BY <1>4 DEF calculateProfitTarget, calculateDailyTotalDrawdown

\* An account becomes approvable only when it meets the rules of its challenge,
\* for any rules and balances: what was measured, once it has taken their place,
\* lets none pass.
THEOREM VerdictsMeetTheRules == RiskSpec => ApprovableMetTheRules
<1> DEFINE Met == verdict'.busy /\ ~verdict.busy /\ judged.status # "approvable"
                  /\ judged'.status = "approvable" => MeetsTheRules
<1>1. RiskInit => ParamsInv
  BY LoadedShape DEF RiskInit, ParamsInv, RulesOrMeasured, NoVerdict
<1>2. ParamsInv /\ [RiskNext]_riskVars => [Met]_riskVars
  <2> SUFFICES ASSUME ParamsInv, RiskNext, verdict'.busy, ~verdict.busy,
                      judged.status # "approvable", judged'.status = "approvable"
               PROVE  MeetsTheRules
    OBVIOUS
  <2>1. evaluate
    BY DEF RiskNext, TimePasses, Trades, CopyAccount, WriteCopy, storeEvaluation, updateDailyBalance,
           Reload, NoVerdict
  <2>2. judged'.status = evaluateRiskStatus(riskEvaluation(judged), judged.status)
    BY <2>1 DEF evaluate, ParamsInv, AccountFields
  <2>3. riskEvaluation(judged).status BY <2>2 DEF evaluateRiskStatus
  <2>4. /\ Above(Change(judged.initial, judged.balance), judged.params.profitTarget)
        /\ AtMost(Change(judged.daily, judged.balance), judged.params.dailyDrawdown)
        /\ AtMost(Change(judged.initial, judged.balance), judged.params.maxDrawdown)
    BY <2>3, PassedAll
  <2>5. judged.params = rules BY <2>4 DEF AtMost, ParamsInv, RulesOrMeasured
  <2> QED BY <2>4, <2>5 DEF AtMost, Above, Change, MeetsTheRules
<1> QED BY <1>1, <1>2, ParamsStep, PTL DEF RiskSpec, ApprovableMetTheRules

-----------------------------------------------------------------------------
(* The count of inactive days.                                             *)

\* What holds at 0 and goes from each number to the next holds up to N.  (Of the
\* numbers where it does not, the least would have one before it where it does.)
LEMMA UpTo ==
  ASSUME NEW N \in Nat, NEW S, 0 \in S, \A i \in 0..N : i \in S /\ i < N => i + 1 \in S
  PROVE  0..N \subseteq S
<1> SUFFICES ASSUME NEW bad \in 0..N, bad \notin S PROVE FALSE OBVIOUS
<1> DEFINE Bad == {i \in 0..N : i \notin S}
           T == {0..i : i \in Bad}
           R == StrictSubsetOrdering(0..N)
<1>1. T \subseteq FiniteSubsetsOf(0..N) /\ T # {}
  <2>1. IsFiniteSet(0..N) BY FS_Interval
  <2>2. FiniteSubsetsOf(0..N) = SUBSET (0..N) BY <2>1, FS_FiniteSubsetsOfFinite
  <2>3. \A i \in Bad : 0..i \in SUBSET (0..N) OBVIOUS
  <2>4. bad \in Bad OBVIOUS
  <2> HIDE DEF Bad
  <2> QED BY <2>2, <2>3, <2>4
<1>2. \E x \in T : \A y \in T : ~(<<y, x>> \in R)
  <2>1. IsWellFoundedOn(R, FiniteSubsetsOf(0..N)) BY FS_StrictSubsetOrderingWellFounded
  <2> HIDE DEF T, R
  <2> QED BY <1>1, <2>1, WFMin
<1>3. PICK i \in Bad : \A j \in Bad : <<0..j, 0..i>> \notin R BY <1>2
<1>4. i # 0 /\ i \in 0..N /\ i - 1 \in 0..N /\ i - 1 < N /\ (i - 1) + 1 = i OBVIOUS
<1>5. i - 1 \in Bad BY <1>4
<1>6. <<0..(i - 1), 0..i>> \in R
  <2>1. 0..(i - 1) \subseteq 0..i /\ i \in 0..i /\ i \notin 0..(i - 1) BY <1>4
  <2>2. 0..(i - 1) \in SUBSET (0..N) /\ 0..i \in SUBSET (0..N) BY <1>4
  <2>3. 0..(i - 1) # 0..i BY <2>1
  <2> HIDE DEF Bad
  <2> QED BY <2>1, <2>2, <2>3 DEF StrictSubsetOrdering
<1> QED BY <1>3, <1>5, <1>6

\* The runs of a prefix of the days.
Counts == [now : Nat, max : Nat]

\* One more day of the loop.
Counted(active, create, r, i) ==
  IF Day(create + 2 * (i - 1)) \in active
  THEN [now |-> 0, max |-> greater(r.max, r.now)]
  ELSE [r EXCEPT !.now = @ + 1]

Tally(active, create, f, m) ==
  f = [i \in 0..m |-> IF i = 0 THEN [now |-> 0, max |-> 0] ELSE Counted(active, create, f[i - 1], i)]

\* The loop over the days is defined, however many there are.
LEMMA TallyExists ==
  ASSUME NEW N \in Nat, NEW active, NEW create
  PROVE  \E f : Tally(active, create, f, N)
<1> DEFINE S == {m \in 0..N : \E f : Tally(active, create, f, m)}
<1>1. 0 \in S
  <2>1. 0 \in 0..N /\ 0..0 = {0} OBVIOUS
  <2> DEFINE f == [i \in 0..0 |-> [now |-> 0, max |-> 0]]
  <2>2. Tally(active, create, f, 0) BY <2>1 DEF Tally
  <2> QED BY <2>1, <2>2
<1>2. ASSUME NEW m \in 0..N, m \in S, m < N PROVE m + 1 \in S
  <2>1. PICK f : Tally(active, create, f, m) BY <1>2
  <2> DEFINE g == [i \in 0..(m + 1) |-> IF i = m + 1 THEN Counted(active, create, f[m], m + 1) ELSE f[i]]
  <2>2. ASSUME NEW i \in 0..(m + 1)
        PROVE  g[i] = IF i = 0 THEN [now |-> 0, max |-> 0] ELSE Counted(active, create, g[i - 1], i)
    <3>1. CASE i = m + 1
      <4>1. g[i] = Counted(active, create, f[m], i) /\ g[i - 1] = f[m] /\ i # 0 BY <3>1
      <4> HIDE DEF g
      <4> QED BY <4>1
    <3>2. CASE i # m + 1
      <4>1. i \in 0..m /\ g[i] = f[i] /\ (i # 0 => g[i - 1] = f[i - 1]) BY <3>2
      <4>2. f[i] = IF i = 0 THEN [now |-> 0, max |-> 0] ELSE Counted(active, create, f[i - 1], i)
        BY <2>1, <4>1 DEF Tally
      <4> HIDE DEF g
      <4> QED BY <4>1, <4>2
    <3> QED BY <3>1, <3>2
  <2>3. g = [i \in 0..(m + 1) |-> g[i]] OBVIOUS
  <2>4. Tally(active, create, g, m + 1)
    <3> HIDE DEF g
    <3> QED BY <2>2, <2>3 DEF Tally
  <2>5. m + 1 \in 0..N BY <1>2
  <2> HIDE DEF g
  <2> QED BY <2>4, <2>5
<1>3. N \in S
  <2> HIDE DEF S
  <2>1. 0..N \subseteq S BY <1>1, <1>2, UpTo
  <2> QED BY <2>1
<1> QED BY <1>3

\* The function of the model is one of these.
LEMMA RunIsTally ==
  ASSUME NEW n \in Nat, NEW active, NEW create
  PROVE  \E f : /\ Tally(active, create, f, n + 1)
                /\ inactiveRun(active, create, n) = greater(f[n + 1].max, f[n + 1].now)
<1> DEFINE run == CHOOSE f : Tally(active, create, f, n + 1)
<1>1. Tally(active, create, run, n + 1)
  <2>1. n + 1 \in Nat OBVIOUS
  <2>2. \E f : Tally(active, create, f, n + 1) BY <2>1, TallyExists
  <2> QED BY <2>2
<1>2. inactiveRun(active, create, n) = greater(run[n + 1].max, run[n + 1].now)
  BY DEF inactiveRun, Tally, Counted
<1> QED BY <1>1, <1>2

\* A stretch of days without a position.
Quiet(active, a, b) == \A d \in a..b : d \notin active

\* After m days from the first: now is the stretch that ends with them, and the
\* longest of all is max or now.
CountsRuns(active, first, r, m) ==
  /\ r \in Counts /\ r.now <= m
  /\ Quiet(active, first + m - r.now, first + m - 1)
  /\ r.now = m \/ first + m - r.now - 1 \in active
  /\ r.max = 0 \/ \E a, b \in first..(first + m - 1) : a <= b /\ b - a + 1 = r.max /\ Quiet(active, a, b)
  /\ \A a, b \in first..(first + m - 1) : a <= b /\ Quiet(active, a, b) => b - a + 1 <= r.max \/ b - a + 1 <= r.now

LEMMA DayAdds ==
  ASSUME NEW create \in Nat, NEW i \in Nat
  PROVE  Day(create + 2 * i) = Day(create) + i /\ Day(create) \in Nat
BY DEF Day

LEMMA CountStep ==
  ASSUME NEW active, NEW create \in Nat, NEW m \in Nat, NEW r, CountsRuns(active, Day(create), r, m)
  PROVE  CountsRuns(active, Day(create), Counted(active, create, r, m + 1), m + 1)
<1> DEFINE first == Day(create)
           d == first + m
           s == Counted(active, create, r, m + 1)
<1>1. first \in Nat /\ Day(create + 2 * ((m + 1) - 1)) = d
  <2>1. (m + 1) - 1 = m OBVIOUS
  <2> QED BY <2>1, DayAdds
<1>2. r \in Counts /\ r.now \in Nat /\ r.max \in Nat BY DEF CountsRuns, Counts
<1>3. CASE d \in active
  <2>1. s = [now |-> 0, max |-> greater(r.max, r.now)] BY <1>1, <1>3 DEF Counted
  <2>2. s \in Counts /\ s.now = 0 /\ s.max \in {r.max, r.now} /\ s.max >= r.max /\ s.max >= r.now
    BY <1>2, <2>1 DEF greater, Counts
  <2> HIDE DEF s
  <2>3. s.max = 0 \/ \E a, b \in first..(first + (m + 1) - 1) : a <= b /\ b - a + 1 = s.max /\ Quiet(active, a, b)
    <3>1. CASE s.max = r.max /\ r.max # 0
      <4>1. PICK a, b \in first..(first + m - 1) : a <= b /\ b - a + 1 = r.max /\ Quiet(active, a, b)
        BY <3>1 DEF CountsRuns
      <4>2. a \in first..(first + (m + 1) - 1) /\ b \in first..(first + (m + 1) - 1)
        <5> HIDE DEF first
        <5> QED BY <1>1, <4>1
      <4> QED BY <3>1, <4>1, <4>2
    <3>2. CASE s.max = r.now /\ r.now # 0
      <4> DEFINE a == first + m - r.now
                 b == first + m - 1
      <4>1. /\ a \in first..(first + (m + 1) - 1) /\ b \in first..(first + (m + 1) - 1)
            /\ a <= b /\ b - a + 1 = r.now
        <5>1. r.now <= m BY DEF CountsRuns
        <5> HIDE DEF first
        <5> QED BY <1>1, <1>2, <3>2, <5>1
      <4>2. Quiet(active, a, b) BY DEF CountsRuns
      <4> HIDE DEF a, b
      <4> QED BY <3>2, <4>1, <4>2
    <3> QED BY <2>2, <3>1, <3>2
  <2>4. ASSUME NEW a \in first..(first + (m + 1) - 1), NEW b \in first..(first + (m + 1) - 1),
               a <= b, Quiet(active, a, b)
        PROVE  b - a + 1 <= s.max
    <3>1. b # d BY <1>1, <1>3, <2>4 DEF Quiet
    <3>2. a \in first..(first + m - 1) /\ b \in first..(first + m - 1)
      <4>1. a \in Int /\ b \in Int /\ first <= a /\ a <= b /\ b <= first + (m + 1) - 1 /\ b # first + m
        BY <2>4, <3>1
      <4> HIDE DEF first
      <4> QED BY <1>1, <4>1
    <3>3. b - a + 1 <= r.max \/ b - a + 1 <= r.now BY <2>4, <3>2 DEF CountsRuns
    <3>4. b - a + 1 \in Int OBVIOUS
    <3> HIDE DEF first
    <3> QED BY <1>2, <2>2, <3>3, <3>4
  <2>5. Quiet(active, first + (m + 1) - s.now, first + (m + 1) - 1)
    <3>1. \A e \in (first + (m + 1) - s.now)..(first + (m + 1) - 1) : FALSE
      <4> HIDE DEF first
      <4> QED BY <1>1, <2>2
    <3> QED BY <3>1 DEF Quiet
  <2>6. s.now = m + 1 \/ first + (m + 1) - s.now - 1 \in active
    <3>1. first + (m + 1) - s.now - 1 = d
      <4> HIDE DEF first
      <4> QED BY <1>1, <2>2 DEF d
    <3> QED BY <1>3, <3>1
  <2>7. s.now <= m + 1 BY <2>2
  <2> HIDE DEF first, d
  <2>8. CountsRuns(active, first, s, m + 1) BY <2>2, <2>3, <2>4, <2>5, <2>6, <2>7 DEF CountsRuns
  <2> QED BY <2>8 DEF s, first
<1>4. CASE d \notin active
  <2>1. s = [r EXCEPT !.now = r.now + 1] BY <1>1, <1>4 DEF Counted
  <2>2. s \in Counts /\ s.now = r.now + 1 /\ s.max = r.max BY <1>2, <2>1 DEF Counts
  <2> HIDE DEF s
  <2>3. s.max = 0 \/ \E a, b \in first..(first + (m + 1) - 1) : a <= b /\ b - a + 1 = s.max /\ Quiet(active, a, b)
    <3> SUFFICES ASSUME r.max # 0
                 PROVE  \E a, b \in first..(first + (m + 1) - 1) : a <= b /\ b - a + 1 = r.max /\ Quiet(active, a, b)
      BY <2>2
    <3>1. PICK a, b \in first..(first + m - 1) : a <= b /\ b - a + 1 = r.max /\ Quiet(active, a, b)
      BY DEF CountsRuns
    <3>2. a \in first..(first + (m + 1) - 1) /\ b \in first..(first + (m + 1) - 1)
      <4> HIDE DEF first
      <4> QED BY <1>1, <3>1
    <3> QED BY <3>1, <3>2
  <2>4. ASSUME NEW a \in first..(first + (m + 1) - 1), NEW b \in first..(first + (m + 1) - 1),
               a <= b, Quiet(active, a, b)
        PROVE  b - a + 1 <= s.max \/ b - a + 1 <= s.now
    <3>0. a \in Int /\ b \in Int /\ first <= a /\ a <= b /\ b <= first + (m + 1) - 1 BY <2>4
    <3>1. CASE b = d
      <4>1. r.now = m \/ first + m - r.now - 1 \notin a..b BY <2>4 DEF CountsRuns, Quiet
      <4>2. r.now = m \/ a > first + m - r.now - 1
        <5> HIDE DEF first
        <5> QED BY <1>1, <1>2, <3>0, <3>1, <4>1 DEF d
      <4> HIDE DEF first
      <4> QED BY <1>1, <1>2, <2>2, <3>0, <3>1, <4>2 DEF d
    <3>2. CASE b # d
      <4>1. a \in first..(first + m - 1) /\ b \in first..(first + m - 1)
        <5> HIDE DEF first
        <5> QED BY <1>1, <3>0, <3>2 DEF d
      <4>2. b - a + 1 <= r.max \/ b - a + 1 <= r.now BY <2>4, <4>1 DEF CountsRuns
      <4> HIDE DEF first
      <4> QED BY <1>2, <2>2, <3>0, <4>2
    <3> QED BY <3>1, <3>2
  <2>5. Quiet(active, first + (m + 1) - s.now, first + (m + 1) - 1)
    <3> SUFFICES ASSUME NEW e \in (first + (m + 1) - s.now)..(first + (m + 1) - 1) PROVE e \notin active
      BY DEF Quiet
    <3>1. e = d \/ e \in (first + m - r.now)..(first + m - 1)
      <4> HIDE DEF first
      <4> QED BY <1>1, <1>2, <2>2 DEF d
    <3> QED BY <1>4, <3>1 DEF CountsRuns, Quiet
  <2>6. s.now = m + 1 \/ first + (m + 1) - s.now - 1 \in active
    <3>1. first + (m + 1) - s.now - 1 = first + m - r.now - 1
      <4> HIDE DEF first
      <4> QED BY <1>1, <1>2, <2>2
    <3> QED BY <2>2, <3>1 DEF CountsRuns
  <2>7. s.now <= m + 1 BY <1>2, <2>2 DEF CountsRuns
  <2> HIDE DEF first, d
  <2>8. CountsRuns(active, first, s, m + 1) BY <2>2, <2>3, <2>4, <2>5, <2>6, <2>7 DEF CountsRuns
  <2> QED BY <2>8 DEF s, first
<1> QED BY <1>3, <1>4

\* A number of a set that none of it exceeds is its maximum.
LEMMA MaxIs ==
  ASSUME NEW S \in SUBSET Int, NEW x \in S, \A y \in S : y <= x
  PROVE  Max(S) = x
<1>1. \A y \in S : x >= y OBVIOUS
<1>2. Max(S) \in S /\ \A y \in S : Max(S) >= y BY <1>1 DEF Max
<1>3. x \in Int /\ Max(S) \in Int /\ Max(S) >= x /\ Max(S) <= x BY <1>2
<1> HIDE DEF Max
<1> QED BY <1>3

\* The longest of the runs in days first..last, however LongestRun finds it.
LEMMA LongestIs ==
  ASSUME NEW active, NEW first \in Nat, NEW last \in Int, NEW x \in Nat,
         x = 0 \/ \E a, b \in first..last : a <= b /\ b - a + 1 = x /\ Quiet(active, a, b),
         \A a, b \in first..last : a <= b /\ Quiet(active, a, b) => b - a + 1 <= x
  PROVE  LongestRun(active, first, last) = x
<1> DEFINE Q == {q \in (first..last) \X (first..last) : q[1] <= q[2] /\ (q[1]..q[2]) \cap active = {}}
           S == {0} \cup {r[2] - r[1] + 1 : r \in Q}
<1>1. \A a, b \in first..last : <<a, b>> \in Q <=> a <= b /\ Quiet(active, a, b) BY DEF Quiet
<1>2. \A q \in Q : q[1] \in first..last /\ q[2] \in first..last /\ q = <<q[1], q[2]>> OBVIOUS
<1> HIDE DEF Q
<1>3. S \in SUBSET Int BY <1>2
<1>4. x \in S
  <2>1. CASE x = 0 BY <2>1
  <2>2. CASE x # 0
    <3>1. PICK a, b \in first..last : a <= b /\ b - a + 1 = x /\ Quiet(active, a, b) BY <2>2
    <3>2. <<a, b>> \in Q /\ <<a, b>>[2] - <<a, b>>[1] + 1 = x BY <1>1, <3>1
    <3> QED BY <3>2
  <2> QED BY <2>1, <2>2
<1>5. \A y \in S : y <= x
  <2>1. \A q \in Q : q[2] - q[1] + 1 <= x BY <1>1, <1>2
  <2> QED BY <2>1
<1>6. LongestRun(active, first, last) = Max(S) BY DEF LongestRun, Q
<1> HIDE DEF S
<1> QED BY <1>3, <1>4, <1>5, <1>6, MaxIs

\* The loop over the days, and the run that ends it, find the longest run of days
\* without a position, for any number of days and any positions.
LEMMA InactiveRunIsLongest ==
  ASSUME NEW active, NEW create \in Nat, NEW n \in Nat
  PROVE  inactiveRun(active, create, n) = LongestRun(active, Day(create), Day(create) + n)
<1> DEFINE first == Day(create)
           N == n + 1
<1>1. PICK f : Tally(active, create, f, N) /\ inactiveRun(active, create, n) = greater(f[N].max, f[N].now)
  BY RunIsTally
<1>2. first \in Nat /\ N \in Nat BY DayAdds
<1> DEFINE S == {m \in 0..N : CountsRuns(active, first, f[m], m)}
<1> HIDE DEF N
<1>3. 0 \in S
  <2>1. f[0] = [now |-> 0, max |-> 0] BY <1>1, <1>2 DEF Tally
  <2> DEFINE r == f[0]
  <2>2. r \in Counts /\ r.now = 0 /\ r.max = 0 BY <2>1 DEF Counts
  <2>3. \A a, b \in first..(first + 0 - 1) : FALSE
    <3> HIDE DEF first
    <3> QED BY <1>2
  <2>4. Quiet(active, first + 0 - r.now, first + 0 - 1)
    <3>1. \A e \in (first + 0 - r.now)..(first + 0 - 1) : FALSE
      <4> HIDE DEF first, r
      <4> QED BY <1>2, <2>2
    <3> QED BY <3>1 DEF Quiet
  <2> HIDE DEF r, first
  <2>5. CountsRuns(active, first, r, 0) BY <2>2, <2>3, <2>4 DEF CountsRuns
  <2> QED BY <1>2, <2>5 DEF r
<1>4. ASSUME NEW m \in 0..N, m \in S, m < N PROVE m + 1 \in S
  <2>1. m + 1 \in 0..N /\ m + 1 # 0 /\ (m + 1) - 1 = m /\ m \in Nat BY <1>2, <1>4
  <2>2. f[m + 1] = Counted(active, create, f[m], m + 1) BY <1>1, <2>1 DEF Tally
  <2>3. CountsRuns(active, first, Counted(active, create, f[m], m + 1), m + 1) BY <1>4, <2>1, CountStep
  <2> QED BY <2>1, <2>2, <2>3
<1>5. CountsRuns(active, first, f[N], N)
  <2>1. 0..N \subseteq S
    <3> HIDE DEF S
    <3> QED BY <1>2, <1>3, <1>4, UpTo
  <2>2. N \in 0..N BY <1>2
  <2> QED BY <2>1, <2>2
<1> DEFINE r == f[N]
           x == greater(r.max, r.now)
           last == first + n
<1>6. r \in Counts /\ r.now \in Nat /\ r.max \in Nat BY <1>5 DEF CountsRuns, Counts
<1> HIDE DEF r
<1>7. x \in {r.max, r.now} /\ x \in Nat /\ x >= r.max /\ x >= r.now BY <1>6 DEF greater
<1> HIDE DEF x
<1>8. first + N - 1 = last /\ last \in Int
  <2> HIDE DEF first
  <2> QED BY <1>2 DEF N
<1>9. x = 0 \/ \E a, b \in first..last : a <= b /\ b - a + 1 = x /\ Quiet(active, a, b)
  <2>1. CASE x = r.max BY <1>5, <1>8, <2>1 DEF CountsRuns, r
  <2>2. CASE x = r.now /\ r.now # 0
    <3> DEFINE a == first + N - r.now
               b == first + N - 1
    <3>1. a \in first..last /\ b \in first..last /\ a <= b /\ b - a + 1 = r.now
      <4>1. r.now <= N BY <1>5 DEF CountsRuns, r
      <4> HIDE DEF first, last
      <4> QED BY <1>2, <1>6, <1>8, <2>2, <4>1
    <3>2. Quiet(active, a, b) BY <1>5 DEF CountsRuns, r
    <3> HIDE DEF a, b
    <3> QED BY <2>2, <3>1, <3>2
  <2> QED BY <1>7, <2>1, <2>2
<1>10. ASSUME NEW a \in first..last, NEW b \in first..last, a <= b, Quiet(active, a, b) PROVE b - a + 1 <= x
  <2>1. b - a + 1 <= r.max \/ b - a + 1 <= r.now BY <1>5, <1>8, <1>10 DEF CountsRuns, r
  <2>2. b - a + 1 \in Int OBVIOUS
  <2> HIDE DEF first, last
  <2> QED BY <1>6, <1>7, <2>1, <2>2
<1>11. inactiveRun(active, create, n) = x BY <1>1 DEF x, r
<1> HIDE DEF last, first
<1>12. \A a, b \in first..last : a <= b /\ Quiet(active, a, b) => b - a + 1 <= x BY <1>10
<1>13. x \in Nat /\ first \in Nat /\ last \in Int BY <1>2, <1>7, <1>8
<1>14. LongestRun(active, first, last) = x BY <1>9, <1>12, <1>13, LongestIs
<1> QED BY <1>11, <1>14 DEF first, last

\* The days counted between a creation and an evaluation, for any clock and any
\* positions: the longest run of days without one, short of the last day at most
\* when the creation was at a later hour.
THEOREM CountedDays ==
  ASSUME NEW create \in Nat, NEW now \in Nat, create <= now, NEW active
  PROVE  LET days == inactiveRun(active, create, (now - create) \div 2) IN
         \/ days = LongestRun(active, Day(create), Day(now))
         \/ days = LongestRun(active, Day(create), Day(now) - 1) /\ create % 2 = 1 /\ now % 2 = 0
<1> DEFINE n == (now - create) \div 2
<1>1. n \in Nat /\ Day(create) \in Nat BY DEF Day
<1>2. \/ Day(create) + n = Day(now)
      \/ Day(create) + n = Day(now) - 1 /\ create % 2 = 1 /\ now % 2 = 0
  BY DEF Day
<1> HIDE DEF n
<1>3. inactiveRun(active, create, n) = LongestRun(active, Day(create), Day(create) + n)
  BY <1>1, InactiveRunIsLongest
<1> QED BY <1>2, <1>3 DEF n

\* Accounts are created in the first day the model has.
CreatedInv == judged.created \in 0..1 /\ (copy # NoCopy => copy.created \in 0..1)

LEMMA CreatedStep == ASSUME ParamsInv, CreatedInv, [RiskNext]_riskVars PROVE CreatedInv'
<1> USE DEF CreatedInv
<1>1. DOMAIN judged = AccountFields /\ (copy # NoCopy => DOMAIN copy = AccountFields) BY DEF ParamsInv
<1>2. CASE WriteCopy
  <2>1. /\ copy # NoCopy /\ copy' = NoCopy
        /\ judged' = copy \/ judged' = [copy EXCEPT !.balance = trader.balance, !.active = trader.active]
    BY <1>2 DEF WriteCopy
  <2>2. judged'.created = copy.created BY <1>1, <2>1 DEF AccountFields
  <2> QED BY <2>1, <2>2
<1>3. CASE evaluate
  <2> DEFINE s == evaluateRiskStatus(riskEvaluation(judged), judged.status)
  <2>1. judged' = [judged EXCEPT !.status = s] /\ copy' = copy BY <1>3 DEF evaluate
  <2> HIDE DEF s
  <2>2. judged'.created = judged.created BY <2>1
  <2> QED BY <2>1, <2>2
<1>4. CASE storeEvaluation BY <1>4 DEF storeEvaluation
<1>5. CASE updateDailyBalance BY <1>5 DEF updateDailyBalance
<1>6. CASE Reload BY <1>6 DEF Reload, mapChallengeToAccount
<1>7. CASE CopyAccount BY <1>7 DEF CopyAccount
<1>8. CASE TimePasses \/ Trades \/ UNCHANGED riskVars BY <1>8 DEF TimePasses, Trades, riskVars
<1> QED BY <1>2, <1>3, <1>4, <1>5, <1>6, <1>7, <1>8 DEF RiskNext

\* The days counted for an account are its longest run of inactive days, whatever
\* positions it had and whenever it is evaluated.
THEOREM InactiveDaysAreLongest == RiskSpec => []InactiveDaysIsLongestRun
<1>1. RiskInit => ParamsInv /\ CreatedInv
  <2>1. RiskInit => CreatedInv BY DEF RiskInit, CreatedInv, mapChallengeToAccount
  <2>2. RiskInit => ParamsInv
    BY LoadedShape DEF RiskInit, ParamsInv, RulesOrMeasured, NoVerdict
  <2> QED BY <2>1, <2>2
<1>2. ParamsInv /\ CreatedInv /\ [RiskNext]_riskVars => ParamsInv' /\ CreatedInv' BY ParamsStep, CreatedStep
<1>3. ASSUME CreatedInv PROVE InactiveDaysIsLongestRun
  <2>1. ASSUME NEW create \in 0..1, NEW now \in create..9, NEW active
        PROVE  LET days == inactiveRun(active, create, (now - create) \div 2) IN
               \/ days = LongestRun(active, Day(create), Day(now))
               \/ days = LongestRun(active, Day(create), Day(now) - 1) /\ create % 2 = 1 /\ now % 2 = 0
    <3>1. create \in Nat /\ now \in Nat /\ create <= now OBVIOUS
    <3> QED BY <3>1, CountedDays
  <2>2. \A create \in 0..1 : CountsLongestRun[create] = TRUE
    BY <2>1 DEF CountsLongestRun
  <2> QED BY <1>3, <2>2 DEF InactiveDaysIsLongestRun, CreatedInv
<1> QED BY <1>1, <1>2, <1>3, PTL DEF RiskSpec
=============================================================================
