------------------------------- MODULE Forecast --------------------------------
(***************************************************************************)
(* CostForecaster (agentcost/forecast): daily costs, kept sorted by date, and  *)
(* what is predicted from them.  Traces are added in batches; a batch makes one *)
(* entry for each of its days, so a day that comes in two batches is two        *)
(* entries.  Dates and costs are whole numbers.  The predictions are rational:  *)
(* slope, mean and smoothed values are kept as numerators over a denominator    *)
(* that only depends on the number of entries, and quotients are compared by    *)
(* cross multiplication; rounding to four places is left out.                   *)
(***************************************************************************)
EXTENDS Integers, FiniteSets, Functions

CONSTANTS Days,          \* dates, a set of numbers
          DayCosts,      \* what a trace costs
          BatchSize,     \* bound on the traces of a batch
          MaxBatches,    \* bound on the batches
          RecentDays,    \* 7
          Limits         \* budget limits asked about

ASSUME ForecastAssumption ==
    /\ Days \subseteq Nat /\ DayCosts \subseteq Nat /\ Limits \subseteq Nat
    /\ RecentDays \in Nat \ {0} /\ BatchSize \in Nat /\ MaxBatches \in Nat

VARIABLES daily,    \* _daily: [date, batch, cost, calls]
          batches,  \* batches since the last reset
          added     \* history: their traces, numbered: [date, cost, batch]

fcvars == <<daily, batches, added>>

ForecastInit == daily = {} /\ batches = 0 /\ added = [i \in {} |-> 0]

-----------------------------------------------------------------------------
(* add_daily_cost, add_from_traces, reset                                   *)

Total == Cardinality(DOMAIN added)
\* The traces of a batch go on from the ones before.
Batch == UNION {[Total + 1 .. Total + n -> [date : Days, cost : DayCosts]] : n \in 1 .. BatchSize}

\* An entry of daily_agg, for the traces of one date.
Day(traces, some, date, batch) ==
    [date |-> date, batch |-> batch, calls |-> Cardinality(some),
     cost |-> SumFunction([i \in some |-> traces[i].cost])]
OfDate(traces, d) == {i \in DOMAIN traces : traces[i].date = d}
Aggregated(batch, k) ==
    {Day(batch, OfDate(batch, batch[i].date), batch[i].date, k) : i \in DOMAIN batch}

AddTraces(batch) ==
    /\ batches < MaxBatches /\ batches' = batches + 1
    /\ daily' = daily \cup Aggregated(batch, batches')
    /\ added' = [i \in DOMAIN added \cup DOMAIN batch |->
                    IF i \in DOMAIN added THEN added[i]
                    ELSE [date |-> batch[i].date, cost |-> batch[i].cost, batch |-> batches']]

Reset ==
    /\ daily # {}
    /\ daily' = {} /\ batches' = 0 /\ added' = [i \in {} |-> 0]

ForecastNext == (\E b \in Batch : AddTraces(b)) \/ Reset

ForecastSpec == ForecastInit /\ [][ForecastNext]_fcvars

-----------------------------------------------------------------------------
(* The list: appended to and then sorted by date, which is stable.          *)

N == Cardinality(daily)
Precedes(e, f) == e.date < f.date \/ (e.date = f.date /\ e.batch < f.batch)
Position(e) == Cardinality({f \in daily : Precedes(f, e)})
EntryAt(i) == CHOOSE e \in daily : Position(e) = i
CostAt(i) == EntryAt(i).cost

-----------------------------------------------------------------------------
(* Linear regression over the positions 0 .. N - 1                          *)

Places == 0 .. N - 1
Spent == SumFunction([i \in Places |-> CostAt(i)])

\* 2 * ss_xy and 12 * ss_xx, so that the slope is 6 * SumXY / SumXX.
Centred(i) == 2 * i - (N - 1)
SumXY == SumFunction([i \in Places |-> Centred(i) * CostAt(i)])
SumXX == N * (N * N - 1)
\* intercept + slope * x, times N * SumXX; never below zero.
Positive(v) == IF v < 0 THEN 0 ELSE v
OnLine(x) == Spent * SumXX + 3 * SumXY * N * Centred(x)
Linear(d) == Positive(OnLine(N - 1 + d))
\* ss_res and ss_tot over the same denominator; the confidence is 1 - res / tot, or 0.
Residual(i) == CostAt(i) * N * SumXX - OnLine(i)
Deviation(i) == N * CostAt(i) - Spent
LinearRes == SumFunction([i \in Places |-> Residual(i) * Residual(i)])
LinearTot == SumFunction([i \in Places |-> Deviation(i) * Deviation(i)]) * SumXX * SumXX

\* _classify_trend: more than two percent of the mean Spent / N per day, in either
\* direction, for a slope of num / den.
Trend(num, den) ==
    IF Spent = 0 THEN "stable"
    ELSE IF 50 * num * N > Spent * den THEN "increasing"
    ELSE IF 50 * num * N < -(Spent * den) THEN "decreasing" ELSE "stable"
LinearTrend == Trend(6 * SumXY, SumXX)

-----------------------------------------------------------------------------
(* Exponential smoothing with alpha = 3 / 10                                *)

Power(b) == LET power[n \in Nat] == IF n = 0 THEN 1 ELSE b * power[n - 1] IN power

\* The smoothed cost at place n, times 10^n.
Smoothed[n \in Places] ==
    IF n = 0 THEN CostAt(0) ELSE 3 * Power(10)[n - 1] * CostAt(n) + 7 * Smoothed[n - 1]
\* ema - prev_ema over 10^(N - 1); 0 with fewer than three entries.
SmoothedRate == IF N < 3 THEN 0 ELSE Smoothed[N - 1] - 10 * Smoothed[N - 2]
\* current + trend_rate * 0.95^d, times 10^(N - 1) * 20^d.
Smooth(d) == Positive(Smoothed[N - 1] * Power(20)[d] + SmoothedRate * Power(19)[d])
SmoothTrend == Trend(SmoothedRate, Power(10)[N - 1])

Forecasts == N >= 2

-----------------------------------------------------------------------------
(* predict_budget_exhaustion                                                *)

\* The last entries, and their average as a sum over a number.
Lately == (IF N >= RecentDays THEN N - RecentDays ELSE 0) .. N - 1
LatestDays == Cardinality(Lately)
RateSum == SumFunction([i \in Lately |-> CostAt(i)])

NeverExhausted == -1
\* int(remaining / daily_rate)
DaysRemaining(limit) ==
    IF limit <= Spent THEN 0
    ELSE IF RateSum = 0 THEN NeverExhausted
    ELSE ((limit - Spent) * LatestDays) \div RateSum

-----------------------------------------------------------------------------
(* Properties *)

DayIsSplit == \E i, j \in DOMAIN added : added[i].date = added[j].date /\ added[i].batch # added[j].batch

\* What is predicted does not depend on how the traces were cut into batches, as
\* long as no day was cut in two; even then no cost is lost and the entries stay
\* in the order of the dates.
BatchesDoNotMatter ==
    LET dates == {added[i].date : i \in DOMAIN added}
        whole(d) == Day(added, OfDate(added, d), d, 1)
    IN  /\ ~DayIsSplit => /\ {[e EXCEPT !.batch = 1] : e \in daily} = {whole(d) : d \in dates}
                          /\ N = Cardinality(dates)
        /\ Spent = SumFunction([i \in DOMAIN added |-> added[i].cost])
        /\ \A i, j \in Places : i < j => EntryAt(i).date <= EntryAt(j).date

\* Costs on a line are continued on the line, down to zero, with full confidence
\* unless they are all the same, which is taken for no confidence at all.
LinesContinue ==
    Forecasts /\ (\A i \in 1 .. N - 2 : CostAt(i) - CostAt(i - 1) = CostAt(i + 1) - CostAt(i)) =>
        LET step == CostAt(1) - CostAt(0)
        IN  /\ \A d \in 1 .. 3 : Linear(d) = Positive(CostAt(N - 1) + step * d) * N * SumXX
            /\ LinearRes = 0
            /\ (LinearTot > 0) = (step # 0)
            /\ step = 0 => \A d \in 1 .. 3 : Smooth(d) = CostAt(0) * Power(10)[N - 1] * Power(20)[d]

\* The regression is never worse than the mean, so that its confidence is between
\* nought and one; and neither method calls costs that never fall decreasing, or
\* costs that never rise increasing.
TrendsAgree ==
    Forecasts =>
        /\ LinearRes <= LinearTot
        /\ (\A i \in 1 .. N - 1 : CostAt(i) >= CostAt(i - 1)) =>
              "decreasing" \notin {LinearTrend, SmoothTrend}
        /\ (\A i \in 1 .. N - 1 : CostAt(i) <= CostAt(i - 1)) =>
              "increasing" \notin {LinearTrend, SmoothTrend}

\* At the current rate the budget lasts for the days that are said to remain and not
\* for one more; a larger budget never lasts shorter.
ExhaustionFits ==
    Forecasts =>
        \A limit \in Limits :
            LET left == DaysRemaining(limit)
                used(days) == Spent * LatestDays + days * RateSum
            IN  /\ left > 0 => used(left) <= limit * LatestDays
                /\ left # NeverExhausted => used(left + 1) > limit * LatestDays \/ RateSum = 0
                /\ \A more \in Limits :
                     more >= limit => DaysRemaining(more) >= left \/ DaysRemaining(more) = NeverExhausted

ForecastSound == BatchesDoNotMatter /\ LinesContinue /\ TrendsAgree /\ ExhaustionFits
===============================================================================
