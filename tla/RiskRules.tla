------------------------------ MODULE RiskRules ------------------------------
(***************************************************************************)
(* The risk rules (common/functions) and the job that evaluates them on    *)
(* the buffered account.  The job is not among the providers of            *)
(* tasks.module.ts; it is modelled as it would run.  Percentages are pairs *)
(* <<numerator, denominator>>.                                             *)
(***************************************************************************)
EXTENDS Integers, FiniteSets, FiniteSetsExt

CONSTANTS
  Configured,  \* the parameters a challenge's stage may have
  Equities,    \* what the balance at the broker can be
  LastTick     \* bound on the clock, in half days

VARIABLES
  trader,    \* the balance, and the days on which positions were opened
  judged,    \* the buffered account
  copy,      \* the copy an extraction works on
  rules,     \* the parameters of the challenge
  verdict,   \* what the job found and is going to store
  clock

riskVars == <<trader, judged, copy, rules, verdict, clock>>

Day(tick) == tick \div 2
Undefined == <<0, 0>>

\* In JavaScript no comparison with undefined holds.
AtMost(x, y) == y # Undefined /\ x[1] * y[2] <= y[1] * x[2]
Above(x, y) == y # Undefined /\ x[1] * y[2] > y[1] * x[2]

Change(from, to) == <<to - from, from>>

calculateProfitTarget(param, current, initial) ==
  [status |-> Above(Change(initial, current), param), value |-> Change(initial, current)]

\* The change is negative for a loss.
calculateDailyTotalDrawdown(equity, param, reference) ==
  [status |-> AtMost(Change(reference, equity), param), value |-> Change(reference, equity)]

\* The days on which a known position was opened.
groupPositionsByDays(a) == a.active

calculateTradingDays(a) == [status |-> TRUE, value |-> Cardinality(groupPositionsByDays(a))]

greater(a, b) == IF a > b THEN a ELSE b

\* Mutant of inactiveRun: the run that ends the period is not looked at.
inactiveRunWithoutLast(active, create, n) ==
  LET run[i \in 0..n + 1] ==
        IF i = 0 THEN [now |-> 0, max |-> 0]
        ELSE IF Day(create + 2 * (i - 1)) \in active
        THEN [now |-> 0, max |-> greater(run[i - 1].max, run[i - 1].now)]
        ELSE [run[i - 1] EXCEPT !.now = @ + 1]
  IN run[n + 1].max

\* The loop over the days 0..n since the creation, then the run that ends it.
inactiveRun(active, create, n) ==
  LET run[i \in 0..n + 1] ==
        IF i = 0 THEN [now |-> 0, max |-> 0]
        ELSE IF Day(create + 2 * (i - 1)) \in active
        THEN [now |-> 0, max |-> greater(run[i - 1].max, run[i - 1].now)]
        ELSE [run[i - 1] EXCEPT !.now = @ + 1]
  IN greater(run[n + 1].max, run[n + 1].now)

\* Whole days since the creation: today is left out if its hour is earlier.
consecutiveInactiveDays(a, param) ==
  LET days == inactiveRun(groupPositionsByDays(a), a.created, (clock - a.created) \div 2) IN
  [status |-> days <= param, value |-> days]

riskEvaluation(a) ==
  LET e == [profitTarget |-> calculateProfitTarget(a.params.profitTarget, a.balance, a.initial),
            dailyDrawdown |-> calculateDailyTotalDrawdown(a.balance, a.params.dailyDrawdown, a.daily),
            maxDrawdown |-> calculateDailyTotalDrawdown(a.balance, a.params.maxDrawdown, a.initial),
            tradingDays |-> calculateTradingDays(a),
            inactiveDays |-> consecutiveInactiveDays(a, a.params.inactiveDays)]
  IN [f \in DOMAIN e \cup {"status"} |->
        IF f = "status" THEN \A rule \in DOMAIN e : e[rule].status ELSE e[f]]

evaluateRiskStatus(e, status) ==
  IF e.status /\ status # "disapprovable" THEN "approvable"
  ELSE IF ~(e.dailyDrawdown.status \/ e.maxDrawdown.status \/ e.inactiveDays.status)
       THEN "disapprovable" ELSE status

\* What was measured takes the place of the parameters; maxDrawdown is not set.
mapToRiskValidation(e) ==
  [profitTarget |-> e.profitTarget.value, dailyDrawdown |-> e.dailyDrawdown.value,
   maxDrawdown |-> Undefined, inactiveDays |-> e.inactiveDays.value]

\* mapChallengeToAccount, for parameters of the challenge's details.
mapChallengeToAccount(active, created, initial, dynamic) ==
  [active |-> active, created |-> created, initial |-> initial, balance |-> dynamic, daily |-> dynamic,
   params |-> rules, status |-> "in_progress"]

NoVerdict == [busy |-> FALSE]
NoCopy == [status |-> "none"]

RiskInit ==
  /\ clock \in {0, 1} /\ rules \in Configured
  /\ \E initial \in Equities :
       /\ trader = [balance |-> initial, active |-> {}]
       /\ judged = mapChallengeToAccount({}, clock, initial, initial)
  /\ copy = NoCopy /\ verdict = NoVerdict

TimePasses ==
  /\ clock < LastTick
  /\ clock' = clock + 1
  /\ UNCHANGED <<trader, judged, copy, rules, verdict>>

Trades ==
  /\ \E b \in Equities : trader' = [balance |-> b, active |-> trader.active \cup {Day(clock)}]
  /\ UNCHANGED <<judged, copy, rules, verdict, clock>>

\* An extraction writes its copy of the account, with the answers or without.
CopyAccount ==
  /\ copy = NoCopy
  /\ copy' = judged
  /\ UNCHANGED <<trader, judged, rules, verdict, clock>>

WriteCopy ==
  /\ copy # NoCopy
  /\ judged' \in {copy, [copy EXCEPT !.balance = trader.balance, !.active = trader.active]}
  /\ copy' = NoCopy
  /\ UNCHANGED <<trader, rules, verdict, clock>>

\* evaluate: the rules are judged on the object that was listed, whose status is
\* set; upsertAccount writes the result into the account of that moment.
evaluate ==
  /\ ~verdict.busy
  /\ LET e == riskEvaluation(judged) IN
       /\ verdict' = [busy |-> TRUE, params |-> mapToRiskValidation(e)]
       /\ judged' = [judged EXCEPT !.status = evaluateRiskStatus(e, @)]
  /\ UNCHANGED <<trader, copy, rules, clock>>

\* Mutant of storeEvaluation: it keeps the parameter that was not measured.
storeEvaluationMerged ==
  /\ verdict.busy
  /\ judged' = [judged EXCEPT !.params = [verdict.params EXCEPT !.maxDrawdown = judged.params.maxDrawdown]]
  /\ verdict' = NoVerdict
  /\ UNCHANGED <<trader, copy, rules, clock>>

storeEvaluation ==
  /\ verdict.busy
  /\ judged' = [judged EXCEPT !.params = verdict.params]
  /\ verdict' = NoVerdict
  /\ UNCHANGED <<trader, copy, rules, clock>>

\* The daily job.
updateDailyBalance ==
  /\ judged.daily # judged.balance
  /\ judged' = [judged EXCEPT !.daily = judged.balance]
  /\ UNCHANGED <<trader, copy, rules, verdict, clock>>

\* The process restarts and loads the challenge with its details; its
\* dynamicBalance is what the daily job stored last.
Reload ==
  /\ judged' = mapChallengeToAccount(judged.active, judged.created, judged.initial, judged.daily)
  /\ copy' = NoCopy
  /\ verdict' = NoVerdict
  /\ UNCHANGED <<trader, rules, clock>>

RiskNext ==
  \/ TimePasses \/ Trades \/ CopyAccount \/ WriteCopy
  \/ evaluate \/ storeEvaluation \/ updateDailyBalance \/ Reload

RiskSpec == RiskInit /\ [][RiskNext]_riskVars

LongestRun(active, first, last) ==
  Max({0} \cup {r[2] - r[1] + 1 : r \in
        {q \in (first..last) \X (first..last) : q[1] <= q[2] /\ (q[1]..q[2]) \cap active = {}}})

CountsLongestRun ==
  [create \in 0..1 |-> \A now \in create..9 : \A active \in SUBSET (0..Day(now)) :
    LET days == inactiveRun(active, create, (now - create) \div 2) IN
    \/ days = LongestRun(active, Day(create), Day(now))
    \/ days = LongestRun(active, Day(create), Day(now) - 1) /\ create % 2 = 1 /\ now % 2 = 0]

\* Whatever positions it had and whenever it is evaluated, the days counted for an
\* account are its longest run of days on which no position was opened, from the
\* creation until now: short of today, at most, when it was created at a later hour.
InactiveDaysIsLongestRun == CountsLongestRun[judged.created]

MeetsTheRules ==
  LET gain == judged.balance - judged.initial IN
  /\ gain * rules.profitTarget[2] > rules.profitTarget[1] * judged.initial
  /\ gain * rules.maxDrawdown[2] <= rules.maxDrawdown[1] * judged.initial
  /\ LET today == judged.balance - judged.daily IN
       today * rules.dailyDrawdown[2] <= rules.dailyDrawdown[1] * judged.daily

\* An evaluation makes an account approvable only if it then meets the rules of
\* its challenge, although evaluations replace them by what was measured, and
\* extractions and restarts write older accounts meanwhile.
ApprovableMetTheRules ==
  [][verdict'.busy /\ ~verdict.busy /\ judged.status # "approvable" /\ judged'.status = "approvable"
       => MeetsTheRules]_riskVars
=============================================================================
