------------------------------- MODULE Recurring -------------------------------
(***************************************************************************)
(* Recurring payments of the treasury (contracts/accord/src/lib.rs):       *)
(* schedules made, paused, resumed, modified and cancelled by proposal,    *)
(* paid out by anyone (disburse_recurring) or, for continuous streams,     *)
(* claimed by their recipient (claim_stream).  Everything Treasury does    *)
(* goes on beside them, out of the same balances.  A negative total cap    *)
(* counts as none wherever it is read and is dropped; recipients are       *)
(* dropped too: a claim is always by the recipient.                        *)
(***************************************************************************)
EXTENDS Treasury

CONSTANTS
  MinInterval,         \* MIN_INTERVAL_SECS
  MaxInterval,         \* MAX_INTERVAL_SECS
  MaxActiveRecurring,  \* MAX_ACTIVE_RECURRING
  Same,                \* a field of ModifyRecurringParams that is None
  Standing             \* bound: the schedules earlier proposals may have left, unpaid yet

RecurringKind == {"FixedAmountPerPeriod", "LinearVesting", "ContinuousStream"}

\* A time of 0 means no end or no cliff, a cap of 0 no cap.
CreateRecurringKind ==
  [op : {"CreateRecurringPayment"}, pay : RecurringKind, token : Token, amount : Nat,
   interval : Nat, start : Nat, end : Nat, cliff : Nat, cap : Nat]
OnScheduleKind ==
  [op : {"CancelRecurringPayment", "PauseRecurringPayment", "ResumeRecurringPayment"},
   schedule : Nat]
ModifyRecurringKind ==
  [op : {"ModifyRecurringPayment"}, schedule : Nat, amount : Nat \cup {Same},
   interval : Nat \cup {Same}, end : Nat \cup {Same}]

\* What create_recurring_proposal asks of a schedule, besides its token.
ValidRecurring(k) ==
  /\ k.amount >= 1
  /\ k.interval \in MinInterval..MaxInterval
  /\ k.pay = "ContinuousStream" => k.end > k.start /\ k.cliff <= k.end

\* What earlier proposals left passed the same checks as what is proposed now.
ASSUME RecurringAssumption ==
  /\ MinInterval \in Nat \ {0} /\ MaxInterval \in Nat
  /\ MaxActiveRecurring \in Nat
  /\ Same \notin Nat
  /\ Standing \subseteq Seq(CreateRecurringKind)
  /\ \A made \in Standing :
       /\ Len(made) <= MaxActiveRecurring
       /\ \A n \in DOMAIN made : ValidRecurring(made[n])
  /\ \A k \in Kind : k.op \notin TreasuryOps =>
       k \in CreateRecurringKind \cup OnScheduleKind \cup ModifyRecurringKind

VARIABLES
  schedules,       \* RECUR: the n-th schedule ever created
  activeRecurring, \* ACTREC
  terms            \* history: terms[n] holds the amounts, intervals and ends schedule n was under

recurringVars == <<schedules, activeRecurring>>
treasuryVars  == <<vaultVars, escrows, nextEscrow>>
allVars       == <<vars, schedules, activeRecurring>>

Schedule == DOMAIN schedules

(***************************************************************************)
(* The schedule a creation k by p stores.                                  *)
(***************************************************************************)
NewSchedule(p, k) ==
  [pay |-> k.pay, proposer |-> p, token |-> k.token, amount |-> k.amount,
   interval |-> k.interval, start |-> k.start, end |-> k.end, cliff |-> k.cliff,
   cap |-> k.cap, disbursed |-> 0, last |-> 0, periods |-> 0, status |-> "Active"]

RecurringInit ==
  /\ Init
  /\ \E made \in Standing, p \in Proposers :
       schedules = [n \in DOMAIN made |-> NewSchedule(p, made[n])]
  /\ activeRecurring = Len(schedules)

-----------------------------------------------------------------------------
(* What a schedule owes *)

Least(m, n) == IF m < n THEN m ELSE n
Most(m, n)  == IF m > n THEN m ELSE n

HasEnd(s) == s.end > 0
HasCap(s) == s.cap > 0
Capped(s, n) == IF HasCap(s) THEN Least(n, s.cap) ELSE n

DeriveRecurring(s) ==
  IF s.status \in {"Cancelled", "Paused"} THEN s.status
  ELSE IF (HasEnd(s) /\ now >= s.end) \/ (HasCap(s) /\ s.disbursed >= s.cap) THEN "Completed"
  ELSE "Active"

\* The earliest time a vesting or a stream pays.
Cliff(s) == IF s.cliff > 0 THEN s.cliff ELSE s.start

\* Mutant of DueAt: every period is counted from the start.
DueAtFromStart(s) ==
  IF s.pay = "FixedAmountPerPeriod" THEN s.start + s.interval ELSE Most(s.start, s.cliff)

\* recurring_payment_due_at
DueAt(s) ==
  IF s.disbursed > 0                     THEN s.last + s.interval
  ELSE IF s.pay = "FixedAmountPerPeriod" THEN s.start + s.interval
  ELSE Most(s.start, s.cliff)

\* What has vested at time t, rounded down; it stops growing at the end.
VestedBy(s, t) ==
  LET duration == s.end - s.start
      vested   == (Least(t - s.start, duration) * s.amount) \div duration
  IN  IF t < Cliff(s) \/ t < s.start \/ duration <= 0 THEN 0
      ELSE Least(vested, IF HasCap(s) THEN s.cap ELSE s.amount)

\* What a stream has accrued at time t.
AccruedBy(s, t) ==
  IF t < Cliff(s) \/ t < s.start THEN 0
  ELSE Capped(s, (Least(t, s.end) - s.start) * s.amount)

-----------------------------------------------------------------------------
(* Proposing *)

\* What the owner's spending limit is compared with.
Committed(k) ==
  IF k.pay = "ContinuousStream" THEN Capped(k, k.amount * (k.end - k.start)) ELSE k.amount

ProposeRecurring(p, k, d) ==
  /\ k.op = "CreateRecurringPayment"
  /\ ValidRecurring(k)
  /\ TokenAllowed(k.token)
  /\ activeRecurring < MaxActiveRecurring
  /\ IsOwner(p) => WithinLimit(p, k.token, Committed(k))
  /\ Propose(p, k, d)

\* The statuses in which a schedule can still be changed.
Ongoing(n) == n \in Schedule /\ DeriveRecurring(schedules[n]) \in {"Active", "Paused"}

ProposeOnSchedule(p, k, d) ==
  /\ \/ k.op = "CancelRecurringPayment" /\ Ongoing(k.schedule)
     \/ /\ k.op = "PauseRecurringPayment"
        /\ Ongoing(k.schedule) /\ DeriveRecurring(schedules[k.schedule]) = "Active"
     \/ /\ k.op = "ResumeRecurringPayment"
        /\ Ongoing(k.schedule) /\ DeriveRecurring(schedules[k.schedule]) = "Paused"
  /\ Propose(p, k, d)

ValidChange(k) ==
  /\ k.amount # Same => k.amount >= 1
  /\ k.interval # Same => k.interval \in MinInterval..MaxInterval
  /\ k.end # Same => k.end > schedules[k.schedule].start

ProposeModify(p, k, d) ==
  /\ k.op = "ModifyRecurringPayment"
  /\ Ongoing(k.schedule)
  /\ ValidChange(k)
  /\ Propose(p, k, d)

-----------------------------------------------------------------------------
(* Executing *)

SetSchedule(n, s) == schedules' = [schedules EXCEPT ![n] = s]

SetStatus(n, st) == SetSchedule(n, [schedules[n] EXCEPT !.status = st])

\* One schedule less counts as active; the count stops at 0.
Retire == activeRecurring' = Most(activeRecurring - 1, 0)

ExecuteRecurring(x, id) ==
  LET k == proposals[id].kind
  IN  /\ MayExecute(x, id)
      /\ k.op = "CreateRecurringPayment"
      /\ TokenAllowed(k.token)
      /\ activeRecurring < MaxActiveRecurring
      /\ schedules' = Append(schedules, NewSchedule(proposals[id].proposer, k))
      /\ activeRecurring' = activeRecurring + 1
      /\ Conclude(id)
      /\ UNCHANGED <<balance, reserved, policyVars, tracker, escrows, nextEscrow>>

ExecuteCancel(x, id) ==
  LET n == proposals[id].kind.schedule
  IN  /\ MayExecute(x, id)
      /\ proposals[id].kind.op = "CancelRecurringPayment"
      /\ Ongoing(n)
      /\ Retire
      /\ SetStatus(n, "Cancelled")
      /\ Conclude(id)
      /\ UNCHANGED <<balance, reserved, policyVars, tracker, escrows, nextEscrow>>

\* Mutant of PauseCounts: a paused schedule leaves the count, and never comes back.
PauseUncounts == Retire

\* A paused schedule still counts as active.
PauseCounts == UNCHANGED activeRecurring

ExecutePause(x, id) ==
  LET n == proposals[id].kind.schedule
  IN  /\ MayExecute(x, id)
      /\ proposals[id].kind.op = "PauseRecurringPayment"
      /\ Ongoing(n) /\ DeriveRecurring(schedules[n]) = "Active"
      /\ SetStatus(n, "Paused")
      /\ PauseCounts
      /\ Conclude(id)
      /\ UNCHANGED <<balance, reserved, policyVars, tracker, escrows, nextEscrow>>

ExecuteResume(x, id) ==
  LET n == proposals[id].kind.schedule
  IN  /\ MayExecute(x, id)
      /\ proposals[id].kind.op = "ResumeRecurringPayment"
      /\ Ongoing(n) /\ DeriveRecurring(schedules[n]) = "Paused"
      /\ SetStatus(n, "Active")
      /\ Conclude(id)
      /\ UNCHANGED <<balance, reserved, policyVars, tracker, escrows, nextEscrow, activeRecurring>>

\* The new terms hold from the start, not from now on.
ExecuteModify(x, id) ==
  LET k        == proposals[id].kind
      old      == schedules[k.schedule]
      or(v, w) == IF v = Same THEN w ELSE v
  IN  /\ MayExecute(x, id)
      /\ k.op = "ModifyRecurringPayment"
      /\ Ongoing(k.schedule)
      /\ ValidChange(k)
      /\ SetSchedule(k.schedule,
           [old EXCEPT !.amount = or(k.amount, @), !.interval = or(k.interval, @),
                       !.end = or(k.end, @)])
      /\ Conclude(id)
      /\ UNCHANGED <<balance, reserved, policyVars, tracker, escrows, nextEscrow, activeRecurring>>

-----------------------------------------------------------------------------
(* Paying *)

\* What a payment of n units leaves in a schedule's record.
PaidOut(s, n) ==
  [s EXCEPT !.disbursed = @ + n, !.last = now, !.periods = @ + 1]

\* Pay n units and charge them to the proposer, in windows of the given length.
PayOut(s, n, length) ==
  /\ balance[s.token] >= n
  /\ balance' = [balance EXCEPT ![s.token] = @ - n]
  /\ tracker' = [tracker EXCEPT ![s.proposer][s.token] = Charged(@, n, length)]
  /\ UNCHANGED <<now, electorateVars, proposalVars, frozen, guardian, reserved,
                 policyVars, recovery, escrows, nextEscrow>>

\* The moments at which a schedule that is not a stream pays.
Due(s) ==
  CASE s.pay = "FixedAmountPerPeriod" ->
         /\ now >= DueAt(s)
         /\ HasEnd(s) => DueAt(s) <= s.end /\ now <= s.end
    [] s.pay = "LinearVesting" -> s.periods = 0 => now >= DueAt(s)
    [] OTHER -> FALSE

(***************************************************************************)
(* disburse_recurring reads the stored status: a vesting whose end has     *)
(* passed still pays its rest.  The balance is compared with the payment   *)
(* before the cap cuts it.                                                 *)
(***************************************************************************)
DisburseRecurring(n) ==
  LET s      == schedules[n]
      owed   == IF s.pay = "LinearVesting" THEN VestedBy(s, now) - s.disbursed ELSE s.amount
      actual == Capped(s, s.disbursed + owed) - s.disbursed
  IN  /\ ~frozen
      /\ RecoveryAllows
      /\ s.status = "Active"
      /\ Due(s)
      /\ owed > 0 /\ actual > 0
      /\ TokenAllowed(s.token)
      /\ Available(s.token) >= owed
      /\ PayOut(s, actual, window[s.proposer][s.token])
      /\ SetSchedule(n, PaidOut(s, actual))
      /\ UNCHANGED activeRecurring

\* A claim looks neither at recovery mode nor at reservations or the registry.
ClaimStream(n) ==
  LET s    == schedules[n]
      owed == AccruedBy(s, now) - s.disbursed
      paid == PaidOut(s, owed)
      over == now >= s.end \/ (HasCap(s) /\ paid.disbursed >= s.cap)
  IN  /\ ~frozen
      /\ s.pay = "ContinuousStream"
      /\ s.status = "Active"
      /\ owed > 0
      /\ PayOut(s, owed, SpendingWindow)
      /\ SetSchedule(n, [paid EXCEPT !.status = IF over THEN "Completed" ELSE @])
      /\ IF over THEN Retire ELSE UNCHANGED activeRecurring

-----------------------------------------------------------------------------
(* The next-state relation *)

CreateRecurring ==
  /\ \E p \in Proposers, k \in Kind, d \in Durations :
       \/ ProposeRecurring(p, k, d)
       \/ ProposeOnSchedule(p, k, d)
       \/ ProposeModify(p, k, d)
  /\ UNCHANGED recurringVars

ExecuteOnRecurring ==
  \E x \in Address, id \in Ids :
    \/ ExecuteRecurring(x, id)
    \/ ExecuteCancel(x, id)
    \/ ExecutePause(x, id)
    \/ ExecuteResume(x, id)
    \/ ExecuteModify(x, id)

Pay == \E n \in Schedule : DisburseRecurring(n) \/ ClaimStream(n)

RecurringNext ==
  \/ Next /\ UNCHANGED recurringVars
  \/ CreateRecurring
  \/ ExecuteOnRecurring
  \/ Pay

\* The contract's own state, whatever the history is.
RecurringSpec == RecurringInit /\ [][RecurringNext]_allVars

-----------------------------------------------------------------------------
(* The terms of each schedule, as the r_crt and r_mod events publish them *)

TermsOf(s) == [amount |-> s.amount, interval |-> s.interval, end |-> s.end]

TermsInit ==
  /\ RecurringInit
  /\ terms = [n \in Schedule |-> {TermsOf(schedules[n])}]

TermsNext ==
  /\ RecurringNext
  /\ terms' = [n \in DOMAIN schedules' |->
       {TermsOf(schedules'[n])} \cup (IF n \in DOMAIN terms THEN terms[n] ELSE {})]

TermsSpec == TermsInit /\ [][TermsNext]_<<allVars, terms>>

-----------------------------------------------------------------------------
(* What must hold *)

(***************************************************************************)
(* Creation is refused when MAX_ACTIVE_RECURRING schedules are active: so  *)
(* the count that creation looks at never falls short of the schedules     *)
(* that can still pay, through creation, cancellation, pauses and claims.  *)
(***************************************************************************)
CountCoversActive ==
  /\ Cardinality({n \in Schedule : Ongoing(n)}) <= activeRecurring
  /\ activeRecurring <= MaxActiveRecurring

(***************************************************************************)
(* What schedule s is meant to have paid by now, from its definition in    *)
(* docs/CONTRACT_API.md and nothing the contract stores about payments:    *)
(* an amount per full interval since the start, a share of the amount by   *)
(* the time elapsed, or a rate per second; nothing before the cliff of a   *)
(* vesting or a stream, never above the cap.                               *)
(***************************************************************************)
Entitled(s) ==
  LET until   == IF HasEnd(s) THEN Least(now, s.end) ELSE now
      elapsed == Most(until - s.start, 0)
  IN  IF s.pay # "FixedAmountPerPeriod" /\ now < s.cliff THEN 0
      ELSE Capped(s, CASE s.pay = "FixedAmountPerPeriod" -> s.amount * (elapsed \div s.interval)
                       [] s.pay = "LinearVesting" ->
                            IF s.end > s.start THEN (s.amount * elapsed) \div (s.end - s.start) ELSE 0
                       [] OTHER -> s.amount * elapsed)

(***************************************************************************)
(* No order of disbursements, claims, pauses, resumptions and changes of   *)
(* terms makes a schedule pay more than it would have owed by now under    *)
(* the most generous mix of the terms it ever had: no period and no second *)
(* is paid twice, and a pause is not made up for.                          *)
(***************************************************************************)
NeverAheadOfTerms ==
  \A n \in Schedule :
    \E a, i, e \in terms[n] :
      schedules[n].disbursed <=
        Entitled([schedules[n] EXCEPT !.amount = a.amount, !.interval = i.interval, !.end = e.end])

=============================================================================
