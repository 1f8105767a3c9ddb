------------------------------- MODULE Outlook -------------------------------
(***************************************************************************)
(* What the console predicts: the payouts of the recurring schedules month *)
(* by month, how long the treasury lasts, and how healthy the distribution *)
(* of the voting weights is.  Months have equal length; amounts are whole. *)
(***************************************************************************)
EXTENDS ConsoleAccounts, Integers, Sequences, FiniteSets

CONSTANTS
  Plans,         \* lists of schedules the page may load
  MonthTicks,
  Horizons,      \* lengths of the forecast in months
  Purses,        \* treasury balances
  Voters,
  MaxVote        \* bound on one owner's weight

ASSUME OutlookAssumption ==
  /\ MonthTicks \in Nat \ {0} /\ Horizons \subseteq Nat \ {0}
  /\ Purses \subseteq Nat /\ MaxVote \in Nat \ {0}

VARIABLES
  plan,      \* the schedules on the page
  horizon,   \* months chosen
  purse,
  weights,   \* owner weights of the contract, 0 for an address that is no owner
  quorum,    \* its threshold
  fetched    \* the weights the page has fetched

outlookVars == <<plan, horizon, purse, weights, quorum, fetched>>

-------------------------------------------------------------------------------
(***************************************************************************)
(* The forecast.                                                           *)
(***************************************************************************)
Month(i) == [start |-> (i - 1) * MonthTicks, end |-> i * MonthTicks - 1]

Unlimited == 1000
Positive(n) == IF n > 0 THEN n ELSE 0
Smaller(a, b) == IF a <= b THEN a ELSE b
RemainingCap(s) == IF s.cap = None THEN Unlimited ELSE Positive(s.cap - s.paid)
Simulable(s) == s.status = "active" /\ s.amount > 0 /\ s.interval > 0

DueRegardlessOfEnd(s, at, window) ==
  /\ at >= window.start
  /\ s.cliff # None => at >= s.cliff
Due(s, at, window) ==
  /\ at >= window.start
  /\ s.cliff # None => at >= s.cliff
  /\ s.end # None => at <= s.end

(* The occurrences of one schedule up to the end of a window, from the     *)
(* next one and what the cap leaves; it stops where the cap is reached.    *)
Walk(s, from, window) ==
  LET walk[st \in [next : Int, left : Nat, out : Nat]] ==
        IF st.next > window.end THEN st
        ELSE LET payout == IF Due(s, st.next, window) THEN Smaller(s.amount, st.left) ELSE 0
                 after  == [next |-> st.next + s.interval, left |-> st.left - payout,
                            out |-> st.out + payout]
             IN  IF after.left = 0 THEN after ELSE walk[after]
  IN  IF from.left = 0 \/ (s.end # None /\ window.start > s.end)
        THEN [from EXCEPT !.out = 0]
        ELSE walk[[from EXCEPT !.out = 0]]

\* A schedule's state after each of n months; out is that month's payout.
Simulation(s, n) ==
  LET after[i \in 0..n] ==
        IF i = 0 THEN [next |-> s.next, left |-> RemainingCap(s), out |-> 0]
        ELSE Walk(s, after[i - 1], Month(i))
  IN  after

SumTo(f, n) == LET sum[i \in 0..n] == IF i = 0 THEN 0 ELSE sum[i - 1] + f[i] IN sum[n]

computeProjectedOutflowSeries(schedules, n) ==
  LET sims == [j \in 1..Len(schedules) |->
                 IF Simulable(schedules[j]) THEN Simulation(schedules[j], n)
                 ELSE [i \in 0..n |-> [next |-> 0, left |-> 0, out |-> 0]]]
      outflow == [i \in 1..n |-> SumTo([j \in 1..Len(schedules) |-> sims[j][i].out], Len(schedules))]
  IN  [i \in 1..n |->
         [outflow |-> outflow[i],
          cumulative |-> SumTo(outflow, i),
          active |-> Cardinality({j \in 1..Len(schedules) :
                        /\ Simulable(schedules[j])
                        /\ \/ sims[j][i].out > 0
                           \/ /\ sims[j][i].left > 0
                              /\ schedules[j].end # None => Month(i).end <= schedules[j].end})]]

\* To the nearest whole, halves up: tenths of a month.
Rounded(a, b) == (2 * a + b) \div (2 * b)

(* Tenths of months until the balance is gone; None without an outflow.    *)
computeRunway(balance, points) ==
  LET n     == Len(points)
      total == points[n].cumulative
      gone  == {i \in 1..n : points[i].cumulative >= balance}
      first == CHOOSE i \in gone : \A j \in gone : i <= j
      before == points[first].cumulative - points[first].outflow
  IN  IF balance <= 0 THEN 0
      ELSE IF total <= 0 THEN None
      ELSE IF gone # {}
        THEN Rounded(10 * ((first - 1) * points[first].outflow + balance - before), points[first].outflow)
        ELSE Rounded(10 * balance * n, total)

computeRecurringForecast(schedules, balance, n) ==
  LET points == computeProjectedOutflowSeries(schedules, n) IN
  [points |-> points, total |-> points[n].cumulative, runway |-> computeRunway(balance, points)]

-------------------------------------------------------------------------------
(***************************************************************************)
(* Governance health.                                                      *)
(***************************************************************************)
Holders(w) == {o \in Voters : w[o] > 0}
WeightOf(w) ==
  LET sum[S \in SUBSET Voters] ==
        IF S = {} THEN 0 ELSE LET o == CHOOSE o \in S : TRUE IN w[o] + sum[S \ {o}]
  IN  sum[Voters]
Dominant(w) == CHOOSE n \in {w[o] : o \in Voters} : \A o \in Voters : w[o] <= n

(* Without a threshold the page takes half of the weight, rounded up.      *)
EffectiveQuorum(total, need) == IF need = None THEN (total + 1) \div 2 ELSE need

ConcentrationPts(w, total, need) ==
  LET points == IF 2 * Dominant(w) > total THEN 5
                ELSE IF 3 * Dominant(w) > total THEN 20
                ELSE IF 4 * Dominant(w) > total THEN 32 ELSE 40
  IN  IF Dominant(w) >= need /\ Cardinality(Holders(w)) > 1 THEN Smaller(points, 10) ELSE points
QuorumPts(total, need) ==
  IF need > total THEN 0
  ELSE IF need <= 0 THEN 5
  ELSE IF 5 * need > 4 * total THEN 18
  ELSE IF 5 * need < 2 * total THEN 22 ELSE 40

RedundancyPts(n) == IF n <= 1 THEN 0 ELSE IF n = 2 THEN 10 ELSE IF n < 5 THEN 16 ELSE 20

calculateGovernanceHealth(w, threshold) ==
  LET total == WeightOf(w)
      need  == EffectiveQuorum(total, threshold)
      score == ConcentrationPts(w, total, need) + QuorumPts(total, need)
                 + RedundancyPts(Cardinality(Holders(w)))
  IN  IF total = 0 THEN "Critical Risk"
      ELSE IF score < 40 THEN "Critical Risk"
      ELSE IF score < 65 THEN "High Risk"
      ELSE IF score < 80 THEN "Moderate Risk" ELSE "Healthy"

-------------------------------------------------------------------------------
OutlookInit ==
  /\ plan \in Plans
  /\ horizon = 6
  /\ purse \in Purses
  /\ weights = [o \in Voters |-> 1]
  /\ quorum = 2
  /\ fetched = weights

LoadPlan(p) ==
  /\ plan' = p
  /\ UNCHANGED <<horizon, purse, weights, quorum, fetched>>

ChooseHorizon(n) ==
  /\ horizon' = n
  /\ UNCHANGED <<plan, purse, weights, quorum, fetched>>

BalanceMoves(b) ==
  /\ purse' = b
  /\ UNCHANGED <<plan, horizon, weights, quorum, fetched>>

(* The contract keeps the quorum within the total weight.                  *)
GovernanceMoves ==
  /\ \/ \E o \in Voters, n \in 0..MaxVote :
          weights' = [weights EXCEPT ![o] = n] /\ UNCHANGED quorum
     \/ \E n \in 1..(MaxVote * Cardinality(Voters)) : quorum' = n /\ UNCHANGED weights
  /\ WeightOf(weights') >= quorum'
  /\ UNCHANGED <<plan, horizon, purse, fetched>>

(* The weights are fetched again only when the list of owners changes; the *)
(* threshold comes with every load.                                        *)
FetchWeights ==
  /\ Holders(weights) # Holders(fetched)
  /\ fetched' = weights
  /\ UNCHANGED <<plan, horizon, purse, weights, quorum>>

ForecastNext ==
  \/ \E p \in Plans : LoadPlan(p)
  \/ \E n \in Horizons : ChooseHorizon(n)
  \/ \E b \in Purses : BalanceMoves(b)

HealthNext == GovernanceMoves \/ FetchWeights

-------------------------------------------------------------------------------
\* The dates a schedule's terms name within the horizon.
Dates(s, n) ==
  {t \in 0..(n * MonthTicks - 1) :
     /\ t >= s.next /\ (t - s.next) % s.interval = 0
     /\ s.cliff # None => t >= s.cliff
     /\ s.end # None => t <= s.end}

(* Month by month the forecast is what the terms say: the dates that fall  *)
(* in it, the last one cut at the cap.                                     *)
ForecastFollowsTerms ==
  LET series == computeProjectedOutflowSeries(plan, horizon) IN
  \A i \in 1..horizon :
    series[i].cumulative =
      SumTo([j \in 1..Len(plan) |->
               IF Simulable(plan[j])
                 THEN Smaller(plan[j].amount * Cardinality(Dates(plan[j], i)), RemainingCap(plan[j]))
                 ELSE 0], Len(plan))

(* A larger balance is never shown to last less, and one that the forecast *)
(* does not use up lasts at least to its end.                              *)
RunwayGrows ==
  LET forecast(b) == computeRecurringForecast(plan, b, horizon) IN
  \A b \in {b \in Purses : b <= purse} :
    LET f == forecast(purse) IN
    f.runway # None =>
      /\ forecast(b).runway <= f.runway
      /\ purse > f.total => f.runway >= 10 * horizon

(* "Healthy" is only said of weights with which the quorum can be met and  *)
(* which no single owner meets alone; a quorum out of reach, or none at    *)
(* all, or one lone owner, is high risk at best.                           *)
RatingSound ==
  LET rating == calculateGovernanceHealth(fetched, quorum) IN
  /\ rating = "Healthy" =>
       /\ quorum \in 1..WeightOf(fetched)
       /\ \A o \in Voters : fetched[o] < quorum
  /\ quorum > WeightOf(fetched) \/ Cardinality(Holders(fetched)) < 2 =>
       rating \in {"High Risk", "Critical Risk"}

(* What the console predicts follows from what it predicts it from         *)
(* (forecast.ts:25-206, governanceHealth.ts:35-165).                       *)
OutlookSound ==
  /\ plan # << >> => ForecastFollowsTerms /\ RunwayGrows
  /\ RatingSound
=============================================================================
