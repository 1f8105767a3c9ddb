----------------------------- MODULE RecurringProofs -----------------------------
(***************************************************************************)
(* The safety of recurring payments, proved for every menu of schedules    *)
(* and every order of calls: the count that bounds the schedules is exact, *)
(* and no schedule pays more than the terms it was ever under grant.       *)
(***************************************************************************)
EXTENDS Recurring, ProposalsProofs

\* A schedule as the contract stores it.
ScheduleRecord ==
  [pay : RecurringKind, proposer : Address, token : Token, amount : Nat,
   interval : Nat \ {0}, start : Nat, end : Nat, cliff : Nat, cap : Nat,
   disbursed : Nat, last : Nat, periods : Nat,
   status : {"Active", "Paused", "Cancelled", "Completed"}]

Terms == [amount : Nat, interval : Nat \ {0}, end : Nat]

\* Every proposal to create a schedule asks for one that passed the checks.
CreationsValid ==
  \A i \in Ids : proposals[i].kind.op = "CreateRecurringPayment" => ValidRecurring(proposals[i].kind)

\* What the calls of Proposals need and keep.
BooksOK ==
  /\ now \in Nat
  /\ weight \in [Address -> Nat]
  /\ threshold \in Nat
  /\ RecordsOK
  /\ CreationsValid

\* A schedule of its own: it ends after it starts if it is a stream, remembers
\* its payments, and is marked complete only when nothing can reopen it.
ScheduleSound(s) ==
  /\ s.pay = "ContinuousStream" => s.end > s.start
  /\ s.periods = 0 <=> s.disbursed = 0
  /\ s.last <= now
  /\ HasCap(s) => s.disbursed <= s.cap
  /\ s.status = "Completed" => DeriveRecurring(s) = "Completed"

SchedulesOK ==
  /\ schedules \in Seq(ScheduleRecord)
  /\ \A n \in Schedule : ScheduleSound(schedules[n])

\* The schedules that take a place in the count.
Live == {n \in Schedule : schedules[n].status \in {"Active", "Paused"}}

CountExact ==
  /\ activeRecurring = Cardinality(Live)
  /\ activeRecurring <= MaxActiveRecurring

\* The inductive invariant of the count.
CountInv == BooksOK /\ SchedulesOK /\ CountExact

TermsOK ==
  /\ terms \in [Schedule -> SUBSET Terms]
  /\ \A n \in Schedule : TermsOf(schedules[n]) \in terms[n]

Under(s, a, i, e) == [s EXCEPT !.amount = a.amount, !.interval = i.interval, !.end = e.end]

\* Entitled, at any time t.
EntitledAt(s, t) ==
  LET until   == IF HasEnd(s) THEN Least(t, s.end) ELSE t
      elapsed == Most(until - s.start, 0)
  IN  IF s.pay # "FixedAmountPerPeriod" /\ t < s.cliff THEN 0
      ELSE Capped(s, CASE s.pay = "FixedAmountPerPeriod" -> s.amount * (elapsed \div s.interval)
                       [] s.pay = "LinearVesting" ->
                            IF s.end > s.start THEN (s.amount * elapsed) \div (s.end - s.start) ELSE 0
                       [] OTHER -> s.amount * elapsed)

(***************************************************************************)
(* What a schedule has paid by period: no more than so many of the largest *)
(* amounts, and so many of the shortest intervals fit between its start    *)
(* and the last payment.  The other two sorts pay what has accrued.        *)
(***************************************************************************)
Earned(s, a, i, e, t) ==
  IF s.pay = "FixedAmountPerPeriod"
    THEN /\ s.disbursed <= a.amount * s.periods
         /\ s.periods > 0 => s.start + s.periods * i.interval <= s.last
         /\ e.end = 0 \/ s.last <= e.end
    ELSE s.disbursed <= EntitledAt(Under(s, a, i, e), t)

AllEarned ==
  \A n \in Schedule : \E a, i, e \in terms[n] : Earned(schedules[n], a, i, e, now)

\* The inductive invariant of the payments.
TermsInv == CountInv /\ TermsOK /\ AllEarned

-----------------------------------------------------------------------------
(* The books of proposals *)

\* What every call does to the books: they stay sound, and time goes forward.
BooksKept == BooksOK' /\ now <= now'

\* A call that leaves the set of proposals and what they ask for.
LEMMA SameBooks ==
  ASSUME BooksOK, RecordsOK', SameTerms, Ids' = Ids,
         UNCHANGED <<weight, threshold>>, now' \in {now, now + 1}
  PROVE  BooksKept
  BY DEF BooksOK, BooksKept, CreationsValid, SameTerms

\* A call that adds a proposal whose kind is valid, if it makes a schedule.
LEMMA RegisterBooks ==
  ASSUME BooksOK, NEW p \in Proposers, NEW k \in Kind, NEW d \in Durations, Propose(p, k, d),
         k.op = "CreateRecurringPayment" => ValidRecurring(k)
  PROVE  BooksKept
  <1>1. Register(p, k, d) /\ UNCHANGED <<now, weight, threshold>>
    BY DEF Propose, electorateVars
  <1>2. p \in Address /\ d \in Nat
    BY BoundsAssumption
  <1>3. RecordsOK' /\ SameTerms /\ \A i \in Ids' \ Ids : proposals'[i].kind = k
    BY <1>1, <1>2, RegisterRecords DEF BooksOK
  <1>4. CreationsValid'
    <2> SUFFICES ASSUME NEW i \in Ids', proposals'[i].kind.op = "CreateRecurringPayment"
                 PROVE  ValidRecurring(proposals'[i].kind)
      BY DEF CreationsValid
    <2>1. CASE i \in Ids
      BY <2>1, <1>3 DEF SameTerms, BooksOK, CreationsValid
    <2>2. CASE i \notin Ids
      BY <2>2, <1>3
    <2> QED
      BY <2>1, <2>2
  <1> QED
    BY <1>1, <1>3, <1>4 DEF BooksOK, BooksKept

\* A call that executes proposal id.
LEMMA ExecuteBooks ==
  ASSUME BooksOK, NEW x \in Address, NEW id \in Ids, MayExecute(x, id), Conclude(id)
  PROVE  BooksKept
  <1>1. FinishExecute(id, proposals) /\ counted' = counted /\ UNCHANGED <<now, weight, threshold>>
    BY DEF Conclude, electorateVars
  <1>2. RecordsOK' /\ SameTerms /\ Ids' = Ids
    BY <1>1, ExecuteRecords DEF BooksOK
  <1> QED
    BY <1>1, <1>2, SameBooks DEF BooksOK

\* A call that is about no proposal.
LEMMA IdleBooks ==
  ASSUME BooksOK, UNCHANGED <<now, electorateVars, proposalVars>>
  PROVE  BooksKept
  <1>1. UNCHANGED <<now, weight, threshold, proposals, counted>>
    BY DEF electorateVars, proposalVars
  <1> QED
    BY <1>1, IdleRecords, SameBooks DEF BooksOK

\* Everything Treasury does keeps the books.
LEMMA TreasuryBooks ==
  ASSUME BooksOK, Next
  PROVE  BooksKept
  <1>1. CASE Create
    <2>1. PICK p \in Proposers, k \in Kind, d \in Durations :
            \/ ProposeTransfer(p, k, d)
            \/ ProposeEscrow(p, k, d)
            \/ ProposeSpendingLimit(p, k, d)
            \/ ProposeSpendingWindow(p, k, d)
            \/ ProposeAssetRegistry(p, k, d)
            \/ ProposeApproveToken(p, k, d)
            \/ ProposeUnapproveToken(p, k, d)
      BY <1>1 DEF Create
    <2>2. Propose(p, k, d) /\ k.op # "CreateRecurringPayment"
      BY <2>1 DEF ProposeTransfer, ProposeEscrow, ProposeSpendingLimit, ProposeSpendingWindow,
                  ProposeAssetRegistry, ProposeApproveToken, ProposeUnapproveToken
    <2> QED
      BY <2>2, RegisterBooks
  <1>2. CASE Lifecycle
    <2>1. RecordsOK /\ now \in Nat /\ weight \in [Address -> Nat]
      BY DEF BooksOK
    <2>2. ASSUME NEW a \in Address, NEW id \in Ids, Approve(a, id) \/ Revoke(a, id)
          PROVE  BooksKept
      <3>1. UNCHANGED <<now, weight, threshold>>
        BY <2>2 DEF Approve, Revoke, electorateVars
      <3> QED
        BY <2>1, <2>2, <3>1, VoteRecords, SameBooks
    <2>3. ASSUME NEW a \in Address, NEW id \in Ids, CancelProposal(a, id)
          PROVE  BooksKept
      <3>1. UNCHANGED <<now, weight, threshold>>
        BY <2>3 DEF CancelProposal, electorateVars
      <3> QED
        BY <2>1, <2>3, <3>1, CancelRecords, SameBooks
    <2>4. ASSUME NEW S, Sweep(S)
          PROVE  BooksKept
      <3>1. UNCHANGED <<now, weight, threshold, proposals, counted>>
        BY <2>4 DEF Sweep, electorateVars
      <3> QED
        BY <2>1, <3>1, IdleRecords, SameBooks
    <2>5. ASSUME Tick
          PROVE  BooksKept
      <3>1. UNCHANGED <<weight, threshold, proposals, counted>> /\ now' = now + 1
        BY <2>5 DEF Tick, electorateVars, proposalVars
      <3> QED
        BY <2>1, <3>1, IdleRecords, SameBooks
    <2> QED
      BY <1>2, <2>2, <2>3, <2>4, <2>5 DEF Lifecycle, CancelExpired, SweepExpired
  <1>3. CASE Execute
    <2>1. PICK x \in Address, id \in Ids :
            \/ ExecuteTransfer(x, id)
            \/ ExecuteEscrow(x, id)
            \/ ExecuteSpendingLimit(x, id)
            \/ ExecuteSpendingWindow(x, id)
            \/ ExecuteAssetRegistry(x, id)
            \/ ExecuteApproveToken(x, id)
            \/ ExecuteUnapproveToken(x, id)
      BY <1>3 DEF Execute
    <2>2. MayExecute(x, id) /\ Conclude(id)
      BY <2>1 DEF ExecuteTransfer, ExecuteEscrow, ExecuteSpendingLimit, ExecuteSpendingWindow,
                  ExecuteAssetRegistry, ExecuteApproveToken, ExecuteUnapproveToken
    <2> QED
      BY <2>2, ExecuteBooks
  <1>4. CASE SettleEscrow
    <2>1. UNCHANGED <<now, electorateVars, proposalVars>>
      BY <1>4 DEF SettleEscrow, ReleaseEscrow, ReleaseEscrowByDeadline, RefundEscrow
    <2> QED
      BY <2>1, IdleBooks
  <1>5. CASE Emergency \/ Recovery \/ Income
    <2>1. UNCHANGED <<now, electorateVars, proposalVars>>
      BY <1>5 DEF Emergency, Recovery, Income, Freeze, Unfreeze, SetGuardian,
                  EnterRecovery, ExitRecovery, Deposit
    <2> QED
      BY <2>1, IdleBooks
  <1> QED
    BY <1>1, <1>2, <1>3, <1>4, <1>5 DEF Next

-----------------------------------------------------------------------------
(* The schedules *)

Takes(s) == s.status \in {"Active", "Paused"}

\* The schedules are numbered from 1.
LEMMA SchedulesAre ==
  ASSUME SchedulesOK
  PROVE  /\ Len(schedules) \in Nat
         /\ Schedule = 1..Len(schedules)
         /\ IsFiniteSet(Live) /\ Cardinality(Live) \in Nat
         /\ \A n \in Schedule : schedules[n] \in ScheduleRecord /\ ScheduleSound(schedules[n])
  <1>1. Len(schedules) \in Nat /\ Schedule = 1..Len(schedules)
    BY LenProperties DEF SchedulesOK, Schedule
  <1>2. IsFiniteSet(Schedule)
    BY <1>1, FS_Interval
  <1>3. Live \subseteq Schedule
    BY DEF Live
  <1>4. IsFiniteSet(Live) /\ Cardinality(Live) \in Nat
    BY <1>2, <1>3, FS_Subset, FS_CardinalityType
  <1> QED
    BY <1>1, <1>4, ElementOfSeq DEF SchedulesOK

\* Time alone leaves a schedule sound: what is complete stays complete.
LEMMA LaterSound ==
  ASSUME CountInv, BooksKept, UNCHANGED recurringVars
  PROVE  CountInv'
  <1>1. now \in Nat /\ now' \in Nat /\ now <= now' /\ UNCHANGED <<schedules, activeRecurring>>
    BY DEF CountInv, BooksOK, BooksKept, recurringVars
  <1>2. Schedule' = Schedule
    BY <1>1 DEF Schedule
  <1>3. ASSUME NEW n \in Schedule PROVE ScheduleSound(schedules[n])'
    <2>1. schedules[n] \in ScheduleRecord /\ ScheduleSound(schedules[n])
      BY SchedulesAre DEF CountInv
    <2> QED
      BY <1>1, <2>1 DEF ScheduleSound, ScheduleRecord, DeriveRecurring, HasEnd, HasCap
  <1>4. SchedulesOK'
    BY <1>1, <1>2, <1>3 DEF CountInv, SchedulesOK
  <1>5. CountExact'
    BY <1>1, <1>2 DEF CountInv, CountExact, Live
  <1> QED
    BY <1>4, <1>5 DEF CountInv, BooksKept

\* What becomes of a schedule: its place in the count stays, or is given up once.
Becomes(n, q) ==
  /\ now' = now
  /\ schedules' = [schedules EXCEPT ![n] = q]
  /\ activeRecurring' = IF Takes(q) THEN activeRecurring ELSE Most(activeRecurring - 1, 0)

\* A step that changes one schedule, which had a place in the count.
LEMMA ChangeCount ==
  ASSUME CountInv, BooksKept, NEW n \in Schedule, NEW q \in ScheduleRecord,
         Takes(schedules[n]), ScheduleSound(q), Becomes(n, q)
  PROVE  CountInv'
  <1>1. /\ SchedulesOK /\ CountExact /\ now' = now
        /\ schedules \in Seq(ScheduleRecord) /\ Schedule = 1..Len(schedules)
    BY SchedulesAre DEF CountInv, SchedulesOK, Becomes
  <1>2. /\ schedules' \in Seq(ScheduleRecord) /\ Len(schedules') = Len(schedules)
        /\ \A m \in 1..Len(schedules) : schedules'[m] = IF m = n THEN q ELSE schedules[m]
    BY <1>1, ExceptSeq DEF Becomes
  <1>3. Schedule' = Schedule
    BY <1>1, <1>2, LenProperties DEF Schedule
  <1>4. ASSUME NEW m \in Schedule PROVE ScheduleSound(schedules[m])'
    <2>1. ScheduleSound(schedules'[m])
      BY <1>1, <1>2, SchedulesAre
    <2> QED
      BY <1>1, <2>1 DEF ScheduleSound, DeriveRecurring
  <1>5. SchedulesOK'
    BY <1>2, <1>3, <1>4 DEF SchedulesOK
  <1>6. n \in Live
    BY DEF Live, Takes
  <1>7. CASE Takes(q)
    <2>1. Live' = Live
      BY <1>1, <1>2, <1>3, <1>6, <1>7 DEF Live, Takes
    <2> QED
      BY <1>1, <1>5, <1>7, <2>1 DEF CountInv, BooksKept, CountExact, Becomes
  <1>8. CASE ~Takes(q)
    <2>1. Live' = Live \ {n}
      BY <1>1, <1>2, <1>3, <1>6, <1>8 DEF Live, Takes
    <2>2. IsFiniteSet(Live) /\ Cardinality(Live) \in Nat
      BY <1>1, SchedulesAre
    <2>3. Cardinality(Live \ {n}) = Cardinality(Live) - 1
      BY <1>6, <2>2, FS_RemoveElement
    <2>4. Cardinality(Live \ {n}) \in Nat
      BY <2>2, FS_RemoveElement, FS_CardinalityType
    <2>5. MaxActiveRecurring \in Nat
      BY RecurringAssumption
    <2>6. activeRecurring' = activeRecurring - 1
      BY <1>1, <1>8, <2>2, <2>3, <2>4 DEF CountExact, Becomes, Most
    <2>7. CountExact'
      BY <1>1, <2>1, <2>2, <2>3, <2>5, <2>6 DEF CountExact
    <2> QED
      BY <1>5, <2>7 DEF CountInv, BooksKept
  <1> QED
    BY <1>7, <1>8

\* A step that makes a schedule while there is room for it.
LEMMA CreateCount ==
  ASSUME CountInv, BooksKept, NEW q \in ScheduleRecord, now' = now,
         ScheduleSound(q), Takes(q),
         schedules' = Append(schedules, q),
         activeRecurring < MaxActiveRecurring, activeRecurring' = activeRecurring + 1
  PROVE  CountInv'
  <1> DEFINE n == Len(schedules) + 1
  <1>1. /\ SchedulesOK /\ CountExact
        /\ schedules \in Seq(ScheduleRecord) /\ Schedule = 1..Len(schedules)
        /\ Len(schedules) \in Nat
    BY SchedulesAre DEF CountInv, SchedulesOK
  <1>2. /\ schedules' \in Seq(ScheduleRecord) /\ Len(schedules') = n
        /\ \A m \in 1..Len(schedules) : schedules'[m] = schedules[m]
        /\ schedules'[n] = q
    BY <1>1, AppendProperties
  <1>3. Schedule' = 1..n /\ n \notin Schedule /\ Schedule' = Schedule \cup {n}
    BY <1>1, <1>2, LenProperties DEF Schedule
  <1> HIDE DEF n
  <1>4. ASSUME NEW m \in Schedule' PROVE ScheduleSound(schedules[m])'
    <2>1. ScheduleSound(schedules'[m])
      BY <1>1, <1>2, <1>3, SchedulesAre
    <2> QED
      BY <2>1 DEF ScheduleSound, DeriveRecurring
  <1>5. SchedulesOK'
    BY <1>2, <1>4 DEF SchedulesOK
  <1>6. Live' = Live \cup {n} /\ n \notin Live
    BY <1>1, <1>2, <1>3 DEF Live, Takes
  <1>7. IsFiniteSet(Live) /\ Cardinality(Live) \in Nat
    BY <1>1, SchedulesAre
  <1>8. Cardinality(Live') = Cardinality(Live) + 1
    BY <1>6, <1>7, FS_AddElement
  <1>9. MaxActiveRecurring \in Nat
    BY RecurringAssumption
  <1>10. CountExact'
    BY <1>1, <1>7, <1>8, <1>9 DEF CountExact
  <1> QED
    BY <1>5, <1>10 DEF CountInv, BooksKept

-----------------------------------------------------------------------------
(* What a schedule is meant to have paid *)

\* Every number a schedule holds is one.
LEMMA FieldsAre ==
  ASSUME NEW s \in ScheduleRecord
  PROVE  /\ s.amount \in Nat /\ s.interval \in Nat \ {0} /\ s.start \in Nat /\ s.end \in Nat
         /\ s.cliff \in Nat /\ s.cap \in Nat /\ s.disbursed \in Nat /\ s.last \in Nat
         /\ s.periods \in Nat /\ s.pay \in RecurringKind
  BY DEF ScheduleRecord

\* Putting a schedule under other terms changes nothing else.
LEMMA UnderIs ==
  ASSUME NEW s \in ScheduleRecord, NEW a \in Terms, NEW i \in Terms, NEW e \in Terms
  PROVE  LET u == Under(s, a, i, e)
         IN  /\ u \in ScheduleRecord
             /\ u.amount = a.amount /\ u.interval = i.interval /\ u.end = e.end
             /\ u.pay = s.pay /\ u.start = s.start /\ u.cliff = s.cliff /\ u.cap = s.cap
  BY DEF Under, ScheduleRecord, Terms

\* What is owed is a number that a cap only lowers, and that grows with n.
LEMMA CappedGrows ==
  ASSUME NEW s \in ScheduleRecord, NEW m \in Nat, NEW n \in Nat, m <= n
  PROVE  Capped(s, m) \in Nat /\ Capped(s, m) <= m /\ Capped(s, m) <= Capped(s, n)
  BY FieldsAre DEF Capped, HasCap, Least

\* What a schedule earned before any cap or cliff.
Gross(s, elapsed) ==
  CASE s.pay = "FixedAmountPerPeriod" -> s.amount * (elapsed \div s.interval)
    [] s.pay = "LinearVesting" ->
         IF s.end > s.start THEN (s.amount * elapsed) \div (s.end - s.start) ELSE 0
    [] OTHER -> s.amount * elapsed

Elapsed(s, t) == Most((IF HasEnd(s) THEN Least(t, s.end) ELSE t) - s.start, 0)

LEMMA EntitledIs ==
  ASSUME NEW s, NEW t
  PROVE  EntitledAt(s, t) =
           IF s.pay # "FixedAmountPerPeriod" /\ t < s.cliff THEN 0
           ELSE Capped(s, Gross(s, Elapsed(s, t)))
  BY DEF EntitledAt, Gross, Elapsed

LEMMA GrossGrows ==
  ASSUME NEW s \in ScheduleRecord, NEW m \in Nat, NEW n \in Nat, m <= n
  PROVE  Gross(s, m) \in Nat /\ Gross(s, n) \in Nat /\ Gross(s, m) <= Gross(s, n)
  <1>1. /\ s.amount \in Nat /\ s.interval \in Nat \ {0} /\ s.start \in Nat /\ s.end \in Nat
        /\ s.pay \in RecurringKind
    BY FieldsAre
  <1>2. CASE s.pay = "FixedAmountPerPeriod"
    <2>1. m \div s.interval \in Nat /\ n \div s.interval \in Nat /\ m \div s.interval <= n \div s.interval
      BY <1>1, DivMonotone
    <2>2. Gross(s, m) = s.amount * (m \div s.interval) /\ Gross(s, n) = s.amount * (n \div s.interval)
      BY <1>2 DEF Gross
    <2> HIDE DEF Gross
    <2> QED
      BY <1>1, <2>1, <2>2, TimesMonotone
  <1>3. s.amount * m \in Nat /\ s.amount * n \in Nat /\ s.amount * m <= s.amount * n
    BY <1>1, TimesMonotone
  <1>4. CASE s.pay = "LinearVesting"
    <2>1. CASE s.end > s.start
      <3>1. s.end - s.start \in Nat \ {0}
        BY <1>1, <2>1
      <3>2. /\ (s.amount * m) \div (s.end - s.start) \in Nat
            /\ (s.amount * n) \div (s.end - s.start) \in Nat
            /\ (s.amount * m) \div (s.end - s.start) <= (s.amount * n) \div (s.end - s.start)
        BY <1>3, <3>1, DivMonotone
      <3>3. /\ Gross(s, m) = (s.amount * m) \div (s.end - s.start)
            /\ Gross(s, n) = (s.amount * n) \div (s.end - s.start)
        BY <1>4, <2>1 DEF Gross
      <3> QED
        BY <3>2, <3>3
    <2>2. CASE ~(s.end > s.start)
      BY <1>4, <2>2 DEF Gross
    <2> QED
      BY <2>1, <2>2
  <1>5. CASE s.pay = "ContinuousStream"
    BY <1>3, <1>5 DEF Gross
  <1> QED
    BY <1>1, <1>2, <1>4, <1>5 DEF RecurringKind

\* What a schedule is entitled to only grows.
LEMMA EntitledGrows ==
  ASSUME NEW s \in ScheduleRecord, NEW t \in Nat, NEW u \in Nat, t <= u
  PROVE  EntitledAt(s, t) \in Nat /\ EntitledAt(s, t) <= EntitledAt(s, u)
  <1>1. /\ s.start \in Nat /\ s.end \in Nat /\ s.cliff \in Nat
    BY FieldsAre
  <1>2. Elapsed(s, t) \in Nat /\ Elapsed(s, u) \in Nat /\ Elapsed(s, t) <= Elapsed(s, u)
    BY <1>1 DEF Elapsed, Most, Least, HasEnd
  <1>3. /\ Gross(s, Elapsed(s, t)) \in Nat /\ Gross(s, Elapsed(s, u)) \in Nat
        /\ Gross(s, Elapsed(s, t)) <= Gross(s, Elapsed(s, u))
    BY <1>2, GrossGrows
  <1>4. /\ Capped(s, Gross(s, Elapsed(s, t))) \in Nat /\ Capped(s, Gross(s, Elapsed(s, u))) \in Nat
        /\ Capped(s, Gross(s, Elapsed(s, t))) <= Capped(s, Gross(s, Elapsed(s, u)))
    BY <1>3, CappedGrows
  <1> QED
    BY <1>1, <1>4, EntitledIs

\* What was earned stays earned.
LEMMA EarnedLater ==
  ASSUME NEW s \in ScheduleRecord, NEW a \in Terms, NEW i \in Terms, NEW e \in Terms,
         NEW t \in Nat, NEW u \in Nat, t <= u, Earned(s, a, i, e, t)
  PROVE  Earned(s, a, i, e, u)
  <1>1. CASE s.pay = "FixedAmountPerPeriod"
    BY <1>1 DEF Earned
  <1>2. CASE s.pay # "FixedAmountPerPeriod"
    <2>1. Under(s, a, i, e) \in ScheduleRecord
      BY UnderIs
    <2>2. /\ EntitledAt(Under(s, a, i, e), t) \in Nat /\ EntitledAt(Under(s, a, i, e), u) \in Nat
          /\ EntitledAt(Under(s, a, i, e), t) <= EntitledAt(Under(s, a, i, e), u)
      BY <2>1, EntitledGrows
    <2>3. s.disbursed \in Nat /\ s.disbursed <= EntitledAt(Under(s, a, i, e), t)
      BY <1>2, FieldsAre DEF Earned
    <2> QED
      BY <1>2, <2>2, <2>3 DEF Earned
  <1> QED
    BY <1>1, <1>2

\* What a schedule has earned it is entitled to.
LEMMA EarnedEntitled ==
  ASSUME NEW s \in ScheduleRecord, NEW a \in Terms, NEW i \in Terms, NEW e \in Terms,
         now \in Nat, ScheduleSound(s), Earned(s, a, i, e, now)
  PROVE  s.disbursed <= Entitled(Under(s, a, i, e))
  <1> DEFINE u == Under(s, a, i, e)
  <1>1. /\ u \in ScheduleRecord
        /\ u.amount = a.amount /\ u.interval = i.interval /\ u.end = e.end
        /\ u.pay = s.pay /\ u.start = s.start /\ u.cliff = s.cliff /\ u.cap = s.cap
    BY UnderIs
  <1>2. Entitled(u) = EntitledAt(u, now)
    BY DEF Entitled, EntitledAt
  <1> HIDE DEF u
  <1>3. CASE s.pay # "FixedAmountPerPeriod"
    BY <1>2, <1>3 DEF Earned, u
  <1>4. CASE s.pay = "FixedAmountPerPeriod"
    <2>1. /\ s.disbursed <= a.amount * s.periods
          /\ s.periods > 0 => s.start + s.periods * i.interval <= s.last
          /\ e.end = 0 \/ s.last <= e.end
          /\ s.last <= now /\ (HasCap(s) => s.disbursed <= s.cap)
      BY <1>4 DEF Earned, ScheduleSound
    <2>2. /\ s.disbursed \in Nat /\ s.periods \in Nat /\ s.start \in Nat /\ s.last \in Nat
          /\ s.cap \in Nat
          /\ a.amount \in Nat /\ i.interval \in Nat \ {0} /\ e.end \in Nat
      BY FieldsAre DEF Terms
    <2>3. Elapsed(u, now) \in Nat /\ s.last - s.start <= Elapsed(u, now)
      BY <1>1, <2>1, <2>2 DEF Elapsed, Most, Least, HasEnd
    <2>4. s.periods * i.interval \in Nat
      BY <2>2, TimesMonotone
    <2>5. s.periods <= Elapsed(u, now) \div i.interval
      <3>1. CASE s.periods > 0
        <4>1. s.periods * i.interval <= Elapsed(u, now)
          BY <2>1, <2>2, <2>3, <2>4, <3>1
        <4> QED
          BY <2>2, <2>3, <4>1, DivAtLeast
      <3>2. CASE s.periods = 0
        BY <2>2, <2>3, <3>2, Quotient
      <3> QED
        BY <2>2, <3>1, <3>2
    <2>6. Elapsed(u, now) \div i.interval \in Nat
      BY <2>2, <2>3, Quotient
    <2>7. a.amount * s.periods <= a.amount * (Elapsed(u, now) \div i.interval)
      BY <2>2, <2>5, <2>6, TimesMonotone
    <2>8. Gross(u, Elapsed(u, now)) = a.amount * (Elapsed(u, now) \div i.interval)
      BY <1>1, <1>4 DEF Gross
    <2>9. Gross(u, Elapsed(u, now)) \in Nat /\ a.amount * s.periods \in Nat
      BY <1>1, <2>2, <2>3, GrossGrows, TimesMonotone
    <2>10. s.disbursed <= Gross(u, Elapsed(u, now))
      BY <2>1, <2>2, <2>7, <2>8, <2>9
    <2>11. s.disbursed <= Capped(u, Gross(u, Elapsed(u, now)))
      BY <1>1, <2>1, <2>2, <2>9, <2>10 DEF Capped, HasCap, Least
    <2> QED
      BY <1>1, <1>2, <1>4, <2>11, EntitledIs DEF u
  <1> QED
    BY <1>3, <1>4

-----------------------------------------------------------------------------
(* What the calls do to a schedule *)

\* Its account and its sort stay as they are.
SameAccount(s, q) ==
  /\ q.pay = s.pay /\ q.start = s.start /\ q.cliff = s.cliff /\ q.cap = s.cap
  /\ q.disbursed = s.disbursed /\ q.last = s.last /\ q.periods = s.periods

\* A payment under the terms of the moment.
Pays(s, q) ==
  /\ q.pay = s.pay /\ q.start = s.start /\ q.cliff = s.cliff /\ q.cap = s.cap
  /\ TermsOf(q) = TermsOf(s)
  /\ q.last = now /\ q.periods = s.periods + 1
  /\ IF s.pay = "FixedAmountPerPeriod"
       THEN /\ q.disbursed <= s.disbursed + s.amount
            /\ now >= DueAt(s)
            /\ HasEnd(s) => now <= s.end
       ELSE q.disbursed <= EntitledAt(q, now)

\* The calls, by what becomes of the schedules.
Effect ==
  \/ UNCHANGED schedules
  \/ \E q \in ScheduleRecord :
       /\ schedules' = Append(schedules, q)
       /\ now' = now
       /\ q.disbursed = 0 /\ q.periods = 0 /\ q.last = 0
  \/ \E n \in Schedule, q \in ScheduleRecord :
       /\ schedules' = [schedules EXCEPT ![n] = q]
       /\ now' = now
       /\ SameAccount(schedules[n], q) \/ Pays(schedules[n], q)

\* A schedule that can still change has a place in the count.
LEMMA OngoingTakes ==
  ASSUME CountInv, NEW n, Ongoing(n)
  PROVE  n \in Schedule /\ schedules[n] \in ScheduleRecord
         /\ ScheduleSound(schedules[n]) /\ Takes(schedules[n])
  <1>1. n \in Schedule /\ schedules[n] \in ScheduleRecord /\ ScheduleSound(schedules[n])
    BY SchedulesAre DEF CountInv, Ongoing
  <1>2. schedules[n].status \in {"Active", "Paused", "Cancelled", "Completed"}
    BY <1>1 DEF ScheduleRecord
  <1> QED
    BY <1>1, <1>2 DEF Ongoing, Takes, ScheduleSound, DeriveRecurring

\* A change of status alone.
LEMMA RestatusSchedule ==
  ASSUME CountInv, NEW n \in Schedule, ScheduleSound(schedules[n]),
         NEW st \in {"Active", "Paused", "Cancelled"}
  PROVE  LET q == [schedules[n] EXCEPT !.status = st]
         IN  /\ q \in ScheduleRecord /\ q.status = st
             /\ ScheduleSound(q) /\ SameAccount(schedules[n], q)
  <1> DEFINE q == [schedules[n] EXCEPT !.status = st]
  <1>1. schedules[n] \in ScheduleRecord
    BY SchedulesAre DEF CountInv
  <1>2. /\ q \in ScheduleRecord /\ q.status = st /\ SameAccount(schedules[n], q)
        /\ q.end = schedules[n].end
    BY <1>1 DEF ScheduleRecord, SameAccount
  <1> HIDE DEF q
  <1>3. ScheduleSound(q)
    BY <1>2 DEF ScheduleSound, SameAccount, HasCap
  <1> QED
    BY <1>2, <1>3 DEF q

\* Creating a schedule.
LEMMA CreateStep ==
  ASSUME CountInv, NEW x \in Address, NEW id \in Ids, ExecuteRecurring(x, id)
  PROVE  CountInv' /\ Effect
  <1> DEFINE k == proposals[id].kind
             p == proposals[id].proposer
             q == NewSchedule(p, k)
  <1>1. /\ MayExecute(x, id) /\ Conclude(id)
        /\ k.op = "CreateRecurringPayment"
        /\ activeRecurring < MaxActiveRecurring /\ activeRecurring' = activeRecurring + 1
        /\ schedules' = Append(schedules, q) /\ now' = now
    BY DEF ExecuteRecurring, Conclude
  <1>2. BooksOK /\ BooksKept /\ proposals[id] \in Proposal
    BY <1>1, ExecuteBooks, RecordsAre DEF CountInv, BooksOK
  <1>3. ValidRecurring(k) /\ k \in Kind /\ p \in Address
    BY <1>1, <1>2 DEF BooksOK, CreationsValid, Proposal
  <1>4. k \in CreateRecurringKind
    BY <1>1, <1>3, RecurringAssumption DEF TreasuryOps, OnScheduleKind, ModifyRecurringKind
  <1>5. k.interval \in Nat \ {0}
    BY <1>3, <1>4, RecurringAssumption DEF ValidRecurring, CreateRecurringKind
  <1>6. /\ q \in ScheduleRecord
        /\ q.disbursed = 0 /\ q.periods = 0 /\ q.last = 0 /\ q.status = "Active"
        /\ q.pay = k.pay /\ q.end = k.end /\ q.start = k.start
    BY <1>3, <1>4, <1>5 DEF NewSchedule, ScheduleRecord, CreateRecurringKind
  <1> HIDE DEF q
  <1>7. ScheduleSound(q) /\ Takes(q)
    <2>1. now \in Nat /\ q.cap \in Nat
      BY <1>2, <1>6, FieldsAre DEF BooksOK
    <2> QED
      BY <2>1, <1>3, <1>6 DEF ScheduleSound, Takes, ValidRecurring, HasCap
  <1>8. CountInv'
    BY <1>1, <1>2, <1>6, <1>7, CreateCount
  <1> QED
    BY <1>1, <1>6, <1>8 DEF Effect

\* Cancelling, pausing and resuming one.
LEMMA StatusStep ==
  ASSUME CountInv, NEW x \in Address, NEW id \in Ids,
         ExecuteCancel(x, id) \/ ExecutePause(x, id) \/ ExecuteResume(x, id)
  PROVE  CountInv' /\ Effect
  <1>1. MayExecute(x, id) /\ Conclude(id) /\ now' = now
    BY DEF ExecuteCancel, ExecutePause, ExecuteResume, Conclude
  <1>2. BooksKept
    BY <1>1, ExecuteBooks DEF CountInv
  <1> DEFINE n == proposals[id].kind.schedule
  <1>3. PICK st \in {"Active", "Paused", "Cancelled"} :
          /\ Ongoing(n)
          /\ SetStatus(n, st)
          /\ IF st = "Cancelled" THEN Retire ELSE UNCHANGED activeRecurring
    BY DEF ExecuteCancel, ExecutePause, ExecuteResume, PauseCounts
  <1>4. /\ n \in Schedule /\ schedules[n] \in ScheduleRecord
        /\ ScheduleSound(schedules[n]) /\ Takes(schedules[n])
    BY <1>3, OngoingTakes
  <1> HIDE DEF n
  <1> DEFINE q == [schedules[n] EXCEPT !.status = st]
  <1>5. /\ q \in ScheduleRecord /\ q.status = st
        /\ ScheduleSound(q) /\ SameAccount(schedules[n], q)
    BY <1>4, RestatusSchedule
  <1>6. schedules' = [schedules EXCEPT ![n] = q]
    BY <1>3 DEF SetStatus, SetSchedule
  <1> HIDE DEF q
  <1>7. Becomes(n, q)
    BY <1>1, <1>3, <1>5, <1>6 DEF Becomes, Takes, Retire
  <1>8. CountInv'
    BY <1>2, <1>4, <1>5, <1>7, ChangeCount
  <1> QED
    BY <1>1, <1>4, <1>5, <1>6, <1>8 DEF Effect

\* Putting one under new terms.
LEMMA ModifyStep ==
  ASSUME CountInv, NEW x \in Address, NEW id \in Ids, ExecuteModify(x, id)
  PROVE  CountInv' /\ Effect
  <1> DEFINE k        == proposals[id].kind
             n        == k.schedule
             s        == schedules[n]
             or(v, w) == IF v = Same THEN w ELSE v
             amount   == or(k.amount, s.amount)
             interval == or(k.interval, s.interval)
             end      == or(k.end, s.end)
             q        == [s EXCEPT !.amount = amount, !.interval = interval, !.end = end]
  <1>1. /\ MayExecute(x, id) /\ Conclude(id) /\ now' = now
        /\ k.op = "ModifyRecurringPayment"
        /\ Ongoing(n) /\ ValidChange(k)
        /\ UNCHANGED activeRecurring
    BY DEF ExecuteModify, Conclude
  <1>2. schedules' = [schedules EXCEPT ![n] = q]
    BY DEF ExecuteModify, SetSchedule
  <1>3. BooksOK /\ BooksKept /\ proposals[id] \in Proposal
    BY <1>1, ExecuteBooks, RecordsAre DEF CountInv, BooksOK
  <1>4. k \in Kind
    BY <1>3 DEF Proposal
  <1>5. k \in ModifyRecurringKind
    BY <1>1, <1>4, RecurringAssumption DEF TreasuryOps, OnScheduleKind, CreateRecurringKind
  <1>6. n \in Schedule /\ s \in ScheduleRecord /\ ScheduleSound(s) /\ Takes(s)
    BY <1>1, OngoingTakes
  <1>7. /\ s.amount \in Nat /\ s.interval \in Nat \ {0} /\ s.end \in Nat /\ s.start \in Nat
    BY <1>6, FieldsAre
  <1>8. /\ k.amount \in Nat \cup {Same} /\ k.interval \in Nat \cup {Same} /\ k.end \in Nat \cup {Same}
    BY <1>5 DEF ModifyRecurringKind
  <1>9. /\ amount \in Nat /\ interval \in Nat \ {0} /\ end \in Nat
        /\ end = s.end \/ end > s.start
    <2>1. amount \in Nat
      BY <1>7, <1>8
    <2>2. k.interval # Same => k.interval \in Nat \ {0}
      BY <1>1, <1>8, RecurringAssumption DEF ValidChange
    <2>3. interval \in Nat \ {0}
      BY <1>7, <2>2
    <2>4. end \in Nat
      BY <1>7, <1>8
    <2>5. end = s.end \/ end > s.start
      BY <1>1 DEF ValidChange
    <2> QED
      BY <2>1, <2>3, <2>4, <2>5
  <1> HIDE DEF amount, interval, end
  <1>10. /\ q \in ScheduleRecord /\ q.end = end /\ q.status = s.status
         /\ SameAccount(s, q)
    BY <1>6, <1>9 DEF ScheduleRecord, SameAccount
  <1> HIDE DEF q
  <1>11. Takes(q) /\ ScheduleSound(q)
    BY <1>6, <1>9, <1>10 DEF Takes, ScheduleSound, SameAccount, HasCap
  <1>12. Becomes(n, q)
    BY <1>1, <1>2, <1>11 DEF Becomes
  <1>13. CountInv'
    BY <1>3, <1>6, <1>10, <1>11, <1>12, ChangeCount
  <1> QED
    BY <1>1, <1>2, <1>6, <1>10, <1>13 DEF Effect

\* What a payment leaves in the record.
LEMMA PaidOutIs ==
  ASSUME NEW s \in ScheduleRecord, NEW m \in Nat, now \in Nat
  PROVE  LET q == PaidOut(s, m)
         IN  /\ q \in ScheduleRecord
             /\ q.pay = s.pay /\ q.start = s.start /\ q.cliff = s.cliff /\ q.cap = s.cap
             /\ q.amount = s.amount /\ q.interval = s.interval /\ q.end = s.end
             /\ q.status = s.status
             /\ q.disbursed = s.disbursed + m /\ q.last = now /\ q.periods = s.periods + 1
  <1>1. s.disbursed \in Nat /\ s.periods \in Nat
    BY FieldsAre
  <1> DEFINE d == s.disbursed + m
             c == s.periods + 1
             q == [s EXCEPT !.disbursed = d, !.last = now, !.periods = c]
  <1>2. d \in Nat /\ c \in Nat
    BY <1>1
  <1>3. PaidOut(s, m) = q
    BY DEF PaidOut
  <1> HIDE DEF d, c
  <1>4. /\ q \in ScheduleRecord
        /\ q.pay = s.pay /\ q.start = s.start /\ q.cliff = s.cliff /\ q.cap = s.cap
        /\ q.amount = s.amount /\ q.interval = s.interval /\ q.end = s.end
        /\ q.status = s.status
        /\ q.disbursed = d /\ q.last = now /\ q.periods = c
    BY <1>2 DEF ScheduleRecord
  <1> QED
    BY <1>3, <1>4 DEF d, c

\* Two records with the same sort, dates, cap and terms are entitled to the same.
LEMMA EntitledSame ==
  ASSUME NEW s, NEW q, NEW t,
         q.pay = s.pay, q.start = s.start, q.cliff = s.cliff, q.cap = s.cap,
         q.amount = s.amount, q.interval = s.interval, q.end = s.end
  PROVE  EntitledAt(q, t) = EntitledAt(s, t)
  <1>1. Elapsed(q, t) = Elapsed(s, t)
    BY DEF Elapsed, HasEnd
  <1>2. ASSUME NEW m PROVE Gross(q, m) = Gross(s, m) /\ Capped(q, m) = Capped(s, m)
    BY DEF Gross, Capped, HasCap
  <1> QED
    BY <1>1, <1>2, EntitledIs

\* What has vested, a cap aside, is earned.
LEMMA VestedEarned ==
  ASSUME NEW s \in ScheduleRecord, s.pay = "LinearVesting", NEW t \in Nat
  PROVE  VestedBy(s, t) \in Nat /\ Capped(s, VestedBy(s, t)) <= EntitledAt(s, t)
  <1> DEFINE duration == s.end - s.start
             elapsed  == Least(t - s.start, duration)
             vested   == (elapsed * s.amount) \div duration
  <1>1. /\ s.amount \in Nat /\ s.start \in Nat /\ s.end \in Nat /\ s.cliff \in Nat /\ s.cap \in Nat
    BY FieldsAre
  <1>2. CASE t < Cliff(s) \/ t < s.start \/ duration <= 0
    <2>1. VestedBy(s, t) = 0
      BY <1>2 DEF VestedBy
    <2>2. EntitledAt(s, t) \in Nat
      BY EntitledGrows
    <2>3. Capped(s, 0) = 0
      BY <1>1 DEF Capped, HasCap, Least
    <2> QED
      BY <2>1, <2>2, <2>3
  <1>3. CASE ~(t < Cliff(s) \/ t < s.start \/ duration <= 0)
    <2>1. /\ s.end > s.start /\ t >= s.start /\ t >= s.cliff
          /\ duration \in Nat \ {0} /\ elapsed \in Nat
      BY <1>1, <1>3 DEF Cliff, Least
    <2>2. Elapsed(s, t) = elapsed
      BY <1>1, <2>1 DEF Elapsed, Most, Least, HasEnd
    <2>3. VestedBy(s, t) = Least(vested, IF HasCap(s) THEN s.cap ELSE s.amount)
      BY <1>3 DEF VestedBy
    <2> HIDE DEF duration, elapsed
    <2>4. elapsed * s.amount = s.amount * elapsed /\ s.amount * elapsed \in Nat
      BY <1>1, <2>1, TimesMonotone
    <2>5. vested \in Nat /\ Gross(s, elapsed) = vested
      <3>1. (s.amount * elapsed) \div duration \in Nat
        BY <2>1, <2>4, Quotient
      <3> QED
        BY <2>1, <2>4, <3>1 DEF Gross, duration
    <2> HIDE DEF vested
    <2>6. VestedBy(s, t) \in Nat /\ VestedBy(s, t) <= vested
      BY <1>1, <2>3, <2>5 DEF Least, HasCap
    <2>7. Capped(s, VestedBy(s, t)) <= Capped(s, vested)
      BY <2>5, <2>6, CappedGrows
    <2>8. EntitledAt(s, t) = Capped(s, vested)
      BY <1>1, <2>1, <2>2, <2>5, EntitledIs
    <2> QED
      BY <2>6, <2>7, <2>8
  <1> QED
    BY <1>2, <1>3

\* What a stream has accrued is what it has earned, never above its cap.
LEMMA AccruedEarned ==
  ASSUME NEW s \in ScheduleRecord, s.pay = "ContinuousStream", s.end > s.start, NEW t \in Nat
  PROVE  /\ AccruedBy(s, t) \in Nat /\ AccruedBy(s, t) <= EntitledAt(s, t)
         /\ HasCap(s) => AccruedBy(s, t) <= s.cap
  <1>1. /\ s.amount \in Nat /\ s.start \in Nat /\ s.end \in Nat /\ s.cliff \in Nat /\ s.cap \in Nat
    BY FieldsAre
  <1>2. CASE t < Cliff(s) \/ t < s.start
    <2>1. AccruedBy(s, t) = 0
      BY <1>2 DEF AccruedBy
    <2>2. EntitledAt(s, t) \in Nat
      BY EntitledGrows
    <2> QED
      BY <1>1, <2>1, <2>2
  <1>3. CASE ~(t < Cliff(s) \/ t < s.start)
    <2> DEFINE elapsed == Least(t, s.end) - s.start
    <2>1. t >= s.start /\ t >= s.cliff /\ elapsed \in Nat
      BY <1>1, <1>3 DEF Cliff, Least
    <2>2. Elapsed(s, t) = elapsed
      BY <1>1, <2>1 DEF Elapsed, Most, HasEnd
    <2>3. AccruedBy(s, t) = Capped(s, elapsed * s.amount)
      BY <1>3 DEF AccruedBy
    <2> HIDE DEF elapsed
    <2>4. elapsed * s.amount = s.amount * elapsed /\ s.amount * elapsed \in Nat
      BY <1>1, <2>1, TimesMonotone
    <2>5. Gross(s, elapsed) = s.amount * elapsed
      BY DEF Gross
    <2>6. AccruedBy(s, t) = EntitledAt(s, t)
      BY <1>1, <2>1, <2>2, <2>3, <2>4, <2>5, EntitledIs
    <2>7. AccruedBy(s, t) \in Nat
      BY <2>3, <2>4, CappedGrows
    <2>8. HasCap(s) => AccruedBy(s, t) <= s.cap
      BY <1>1, <2>3, <2>4 DEF Capped, Least
    <2> QED
      BY <2>6, <2>7, <2>8
  <1> QED
    BY <1>2, <1>3

\* A payment keeps a schedule sound, and is under the terms of the moment.
LEMMA PaymentSound ==
  ASSUME NEW s \in ScheduleRecord, ScheduleSound(s), NEW m \in Nat \ {0}, now \in Nat,
         HasCap(s) => s.disbursed + m <= s.cap, s.status # "Completed"
  PROVE  /\ ScheduleSound(PaidOut(s, m))
         /\ TermsOf(PaidOut(s, m)) = TermsOf(s)
         /\ EntitledAt(PaidOut(s, m), now) = EntitledAt(s, now)
  <1> DEFINE q == PaidOut(s, m)
  <1>1. /\ q.pay = s.pay /\ q.start = s.start /\ q.cliff = s.cliff /\ q.cap = s.cap
        /\ q.amount = s.amount /\ q.interval = s.interval /\ q.end = s.end
        /\ q.status = s.status
        /\ q.disbursed = s.disbursed + m /\ q.last = now /\ q.periods = s.periods + 1
    BY PaidOutIs
  <1> HIDE DEF q
  <1>2. EntitledAt(q, now) = EntitledAt(s, now)
    BY <1>1, EntitledSame
  <1>3. TermsOf(q) = TermsOf(s)
    BY <1>1 DEF TermsOf
  <1>4. s.periods \in Nat /\ s.disbursed \in Nat
    BY FieldsAre
  <1>5. ScheduleSound(q)
    BY <1>1, <1>4 DEF ScheduleSound, HasCap
  <1> QED
    BY <1>2, <1>3, <1>5 DEF q

\* A payment is a number, within the cap and within what is owed.
LEMMA CappedPayment ==
  ASSUME NEW s \in ScheduleRecord, NEW owed \in Nat,
         Capped(s, s.disbursed + owed) - s.disbursed > 0
  PROVE  LET m == Capped(s, s.disbursed + owed) - s.disbursed
         IN  /\ m \in Nat /\ m <= owed
             /\ s.disbursed + m = Capped(s, s.disbursed + owed)
             /\ HasCap(s) => s.disbursed + m <= s.cap
  <1>1. s.disbursed \in Nat /\ s.cap \in Nat
    BY FieldsAre
  <1> QED
    BY <1>1 DEF Capped, Least

\* disburse_recurring pays a period, or what has vested since.
LEMMA DisburseStep ==
  ASSUME CountInv, NEW n \in Schedule, DisburseRecurring(n)
  PROVE  CountInv' /\ Effect
  <1> DEFINE s    == schedules[n]
             owed == IF s.pay = "LinearVesting" THEN VestedBy(s, now) - s.disbursed ELSE s.amount
             m    == Capped(s, s.disbursed + owed) - s.disbursed
             q    == PaidOut(s, m)
  <1>1. /\ s.status = "Active" /\ Due(s)
        /\ owed > 0 /\ m > 0
        /\ schedules' = [schedules EXCEPT ![n] = q]
        /\ UNCHANGED activeRecurring
    BY DEF DisburseRecurring, SetSchedule
  <1>2. UNCHANGED <<now, electorateVars, proposalVars>>
    BY DEF DisburseRecurring, PayOut
  <1>3. BooksKept
    BY <1>2, IdleBooks DEF CountInv
  <1>4. s \in ScheduleRecord /\ ScheduleSound(s) /\ now \in Nat
    BY SchedulesAre DEF CountInv, BooksOK
  <1>5. s.disbursed \in Nat /\ s.amount \in Nat
    BY <1>4, FieldsAre
  <1>6. owed \in Nat
    <2>1. CASE s.pay = "LinearVesting"
      <3>1. VestedBy(s, now) \in Nat
        BY <1>4, <2>1, VestedEarned
      <3> QED
        BY <1>1, <1>5, <2>1, <3>1
    <2>2. CASE s.pay # "LinearVesting"
      BY <1>5, <2>2
    <2> QED
      BY <2>1, <2>2
  <1>7. /\ m \in Nat /\ m <= owed /\ s.disbursed + m = Capped(s, s.disbursed + owed)
        /\ HasCap(s) => s.disbursed + m <= s.cap
    BY <1>1, <1>4, <1>6, CappedPayment
  <1> HIDE DEF m
  <1>8. /\ ScheduleSound(q) /\ TermsOf(q) = TermsOf(s)
        /\ EntitledAt(q, now) = EntitledAt(s, now)
    BY <1>1, <1>4, <1>7, PaymentSound
  <1>9. /\ q \in ScheduleRecord
        /\ q.pay = s.pay /\ q.start = s.start /\ q.cliff = s.cliff /\ q.cap = s.cap
        /\ q.status = s.status
        /\ q.disbursed = s.disbursed + m /\ q.last = now /\ q.periods = s.periods + 1
    BY <1>4, <1>7, PaidOutIs
  <1> HIDE DEF q
  <1>10. Pays(s, q)
    <2>1. CASE s.pay = "FixedAmountPerPeriod"
      <3>1. now >= DueAt(s) /\ (HasEnd(s) => now <= s.end)
        BY <1>1, <2>1 DEF Due
      <3>2. q.disbursed <= s.disbursed + s.amount
        BY <1>5, <1>7, <1>9, <2>1
      <3> QED
        BY <1>8, <1>9, <2>1, <3>1, <3>2 DEF Pays
    <2>2. CASE s.pay = "LinearVesting"
      <3>1. s.disbursed + owed = VestedBy(s, now)
        BY <1>4, <1>5, <2>2, VestedEarned
      <3>2. q.disbursed <= EntitledAt(s, now)
        BY <1>4, <1>7, <1>9, <2>2, <3>1, VestedEarned
      <3> QED
        BY <1>8, <1>9, <2>2, <3>2 DEF Pays
    <2>3. CASE s.pay = "ContinuousStream"
      BY <1>1, <2>3 DEF Due
    <2> QED
      BY <1>4, <2>1, <2>2, <2>3, FieldsAre DEF RecurringKind
  <1> HIDE DEF s
  <1>11. Becomes(n, q) /\ Takes(s)
    BY <1>1, <1>2, <1>9 DEF Becomes, Takes
  <1>12. CountInv'
    BY <1>3, <1>8, <1>9, <1>11, ChangeCount DEF s
  <1> QED
    BY <1>1, <1>2, <1>9, <1>10, <1>12 DEF Effect, s

\* claim_stream pays what has accrued, and closes a stream that is over.
LEMMA ClaimStep ==
  ASSUME CountInv, NEW n \in Schedule, ClaimStream(n)
  PROVE  CountInv' /\ Effect
  <1> DEFINE s    == schedules[n]
             owed == AccruedBy(s, now) - s.disbursed
             paid == PaidOut(s, owed)
             over == now >= s.end \/ (HasCap(s) /\ paid.disbursed >= s.cap)
             st   == IF over THEN "Completed" ELSE paid.status
             q    == [paid EXCEPT !.status = st]
  <1>1. /\ s.pay = "ContinuousStream" /\ s.status = "Active" /\ owed > 0
        /\ schedules' = [schedules EXCEPT ![n] = q]
        /\ IF over THEN Retire ELSE UNCHANGED activeRecurring
    BY DEF ClaimStream, SetSchedule
  <1>2. UNCHANGED <<now, electorateVars, proposalVars>>
    BY DEF ClaimStream, PayOut
  <1>3. BooksKept
    BY <1>2, IdleBooks DEF CountInv
  <1>4. s \in ScheduleRecord /\ ScheduleSound(s) /\ now \in Nat
    BY SchedulesAre DEF CountInv, BooksOK
  <1>5. s.disbursed \in Nat /\ s.end > s.start /\ s.start \in Nat /\ s.end \in Nat
    BY <1>1, <1>4, FieldsAre DEF ScheduleSound
  <1>6. /\ AccruedBy(s, now) \in Nat /\ AccruedBy(s, now) <= EntitledAt(s, now)
        /\ HasCap(s) => AccruedBy(s, now) <= s.cap
    BY <1>1, <1>4, <1>5, AccruedEarned
  <1>7. owed \in Nat /\ s.disbursed + owed = AccruedBy(s, now)
    BY <1>1, <1>5, <1>6
  <1> HIDE DEF owed
  <1>8. /\ ScheduleSound(paid) /\ TermsOf(paid) = TermsOf(s)
        /\ EntitledAt(paid, now) = EntitledAt(s, now)
    BY <1>1, <1>4, <1>6, <1>7, PaymentSound
  <1>9. /\ paid \in ScheduleRecord
        /\ paid.pay = s.pay /\ paid.start = s.start /\ paid.cliff = s.cliff /\ paid.cap = s.cap
        /\ paid.end = s.end /\ paid.status = s.status
        /\ paid.disbursed = s.disbursed + owed /\ paid.last = now /\ paid.periods = s.periods + 1
    BY <1>4, <1>7, PaidOutIs
  <1> HIDE DEF paid
  <1>10. st \in {"Active", "Completed"} /\ (st = "Completed" <=> over)
    BY <1>1, <1>9
  <1> HIDE DEF st
  <1>11. /\ q \in ScheduleRecord /\ q.status = st
         /\ q.pay = s.pay /\ q.start = s.start /\ q.cliff = s.cliff /\ q.cap = s.cap
         /\ q.end = s.end
         /\ q.disbursed = s.disbursed + owed /\ q.last = now /\ q.periods = s.periods + 1
         /\ q.amount = paid.amount /\ q.interval = paid.interval /\ q.end = paid.end
    BY <1>9, <1>10 DEF ScheduleRecord
  <1> HIDE DEF q
  <1>12. EntitledAt(q, now) = EntitledAt(s, now) /\ TermsOf(q) = TermsOf(s)
    <2>1. EntitledAt(q, now) = EntitledAt(paid, now)
      BY <1>9, <1>11, EntitledSame
    <2> QED
      BY <1>8, <1>11, <2>1 DEF TermsOf
  <1>13. Pays(s, q)
    BY <1>1, <1>6, <1>7, <1>11, <1>12 DEF Pays
  <1>14. ScheduleSound(q)
    <2>1. st = "Completed" => DeriveRecurring(q) = "Completed"
      BY <1>5, <1>9, <1>10, <1>11 DEF DeriveRecurring, HasEnd, HasCap
    <2> HIDE DEF over
    <2> QED
      BY <1>8, <1>9, <1>11, <2>1 DEF ScheduleSound, HasCap
  <1> HIDE DEF over, s
  <1>15. Takes(s) /\ (Takes(q) <=> ~over)
    BY <1>1, <1>10, <1>11 DEF Takes
  <1>16. Becomes(n, q)
    BY <1>1, <1>2, <1>15 DEF Becomes, Retire
  <1>17. CountInv'
    BY <1>3, <1>11, <1>14, <1>15, <1>16, ChangeCount DEF s
  <1> QED
    BY <1>1, <1>2, <1>11, <1>13, <1>17 DEF Effect, s

-----------------------------------------------------------------------------
(* Every step *)

\* Nothing but these calls touches the schedules.
LEMMA RecurringStep ==
  ASSUME CountInv, RecurringNext
  PROVE  CountInv' /\ Effect
  <1>1. CASE Next /\ UNCHANGED recurringVars
    <2>1. BooksKept
      BY <1>1, TreasuryBooks DEF CountInv
    <2> QED
      BY <1>1, <2>1, LaterSound DEF Effect, recurringVars
  <1>2. CASE CreateRecurring
    <2>1. PICK p \in Proposers, k \in Kind, d \in Durations :
            \/ ProposeRecurring(p, k, d)
            \/ ProposeOnSchedule(p, k, d)
            \/ ProposeModify(p, k, d)
      BY <1>2 DEF CreateRecurring
    <2>2. Propose(p, k, d) /\ (k.op = "CreateRecurringPayment" => ValidRecurring(k))
      BY <2>1 DEF ProposeRecurring, ProposeOnSchedule, ProposeModify
    <2>3. BooksKept
      BY <2>2, RegisterBooks DEF CountInv
    <2> QED
      BY <1>2, <2>3, LaterSound DEF CreateRecurring, Effect, recurringVars
  <1>3. CASE ExecuteOnRecurring
    BY <1>3, CreateStep, StatusStep, ModifyStep DEF ExecuteOnRecurring
  <1>4. CASE Pay
    BY <1>4, DisburseStep, ClaimStep DEF Pay
  <1> QED
    BY <1>1, <1>2, <1>3, <1>4 DEF RecurringNext

\* A stutter changes nothing the invariants speak of.
LEMMA RecurringStutter ==
  ASSUME CountInv, UNCHANGED allVars
  PROVE  CountInv' /\ UNCHANGED <<now, schedules>>
  <1>1. UNCHANGED <<now, weight, threshold, proposals, counted, schedules, activeRecurring>>
    BY DEF allVars, vars
  <1> QED
    BY <1>1 DEF CountInv, BooksOK, RecordsOK, CreationsValid, Ids, SchedulesOK, Schedule,
                ScheduleSound, DeriveRecurring, CountExact, Live

\* Time never goes back.
LEMMA BooksForward ==
  ASSUME CountInv, RecurringNext
  PROVE  now <= now'
  <1>1. now \in Nat
    BY DEF CountInv, BooksOK
  <1>2. CASE Next
    BY <1>2, TreasuryBooks DEF CountInv, BooksKept
  <1>3. CASE RecurringNext /\ ~Next
    <2>1. ASSUME CreateRecurring PROVE now' = now
      BY <2>1 DEF CreateRecurring, ProposeRecurring, ProposeOnSchedule, ProposeModify, Propose
    <2>2. ASSUME ExecuteOnRecurring PROVE now' = now
      BY <2>2 DEF ExecuteOnRecurring, ExecuteRecurring, ExecuteCancel, ExecutePause,
                  ExecuteResume, ExecuteModify, Conclude
    <2>3. ASSUME Pay PROVE now' = now
      BY <2>3 DEF Pay, DisburseRecurring, ClaimStream, PayOut
    <2>4. now' = now
      BY <1>3, <2>1, <2>2, <2>3 DEF RecurringNext
    <2> QED
      BY <1>1, <2>4
  <1> QED
    BY <1>2, <1>3

\* What earlier proposals left is sound and counted.
LEMMA RecurringStart == RecurringInit => CountInv
  <1> SUFFICES ASSUME RecurringInit PROVE CountInv
    OBVIOUS
  <1>1. now = 1 /\ proposals = << >> /\ counted = << >> /\ weight = Shares /\ threshold = Threshold
    BY DEF RecurringInit, Init
  <1>2. BooksOK
    <2>1. RecordsOK
      BY <1>1, EmptySeq DEF RecordsOK
    <2>2. CreationsValid
      BY <1>1 DEF CreationsValid, Ids
    <2>3. weight \in [Address -> Nat] /\ threshold \in Nat /\ now \in Nat
      BY <1>1, TreasuryAssumption, BoundsAssumption
    <2> QED
      BY <2>1, <2>2, <2>3 DEF BooksOK
  <1>3. PICK made \in Standing, p \in Proposers :
          schedules = [n \in DOMAIN made |-> NewSchedule(p, made[n])]
    BY DEF RecurringInit
  <1>4. /\ made \in Seq(CreateRecurringKind) /\ Len(made) <= MaxActiveRecurring
        /\ \A n \in DOMAIN made : ValidRecurring(made[n])
        /\ p \in Address
    BY RecurringAssumption, BoundsAssumption
  <1>5. Len(made) \in Nat /\ DOMAIN made = 1..Len(made)
    BY <1>4, LenProperties
  <1>6. ASSUME NEW n \in DOMAIN made
        PROVE  /\ schedules[n] \in ScheduleRecord /\ ScheduleSound(schedules[n])
               /\ schedules[n].status = "Active" /\ schedules[n].disbursed = 0
    <2> DEFINE k == made[n]
               q == NewSchedule(p, k)
    <2>1. k \in CreateRecurringKind /\ ValidRecurring(k)
      BY <1>4, <1>5, ElementOfSeq
    <2>2. k.interval \in Nat \ {0}
      BY <2>1, RecurringAssumption DEF ValidRecurring, CreateRecurringKind
    <2>3. /\ q \in ScheduleRecord
          /\ q.disbursed = 0 /\ q.periods = 0 /\ q.last = 0 /\ q.status = "Active"
          /\ q.pay = k.pay /\ q.end = k.end /\ q.start = k.start /\ q.cap = k.cap
      BY <1>4, <2>1, <2>2 DEF NewSchedule, ScheduleRecord, CreateRecurringKind
    <2>4. schedules[n] = q
      BY <1>3
    <2> HIDE DEF q
    <2>5. q.cap \in Nat
      BY <2>3, FieldsAre
    <2>6. ScheduleSound(q)
      BY <1>1, <2>1, <2>3, <2>5 DEF ScheduleSound, ValidRecurring, HasCap
    <2> QED
      BY <2>3, <2>4, <2>6
  <1>7. schedules \in [1..Len(made) -> ScheduleRecord]
    BY <1>3, <1>5, <1>6
  <1>8. schedules \in Seq(ScheduleRecord) /\ Schedule = 1..Len(made) /\ Len(schedules) = Len(made)
    BY <1>5, <1>7, FunctionIsSeq, LenProperties DEF Schedule
  <1>9. SchedulesOK
    BY <1>5, <1>6, <1>8 DEF SchedulesOK
  <1>10. Live = 1..Len(made)
    BY <1>5, <1>6, <1>8 DEF Live
  <1>11. Cardinality(1..Len(made)) = Len(made)
    <2> DEFINE c == Len(made)
    <2>1. c \in Nat
      BY <1>5
    <2> HIDE DEF c
    <2>2. Cardinality(1..c) = IF 1 > c THEN 0 ELSE c - 1 + 1
      BY <2>1, FS_Interval
    <2>3. Cardinality(1..c) = c
      BY <2>1, <2>2
    <2> QED
      BY <2>3 DEF c
  <1>12. CountExact
    BY <1>4, <1>8, <1>10, <1>11 DEF CountExact, RecurringInit
  <1> QED
    BY <1>2, <1>9, <1>12 DEF CountInv

\* The terms a schedule was under are only ever added to.
LEMMA TermsGrow ==
  ASSUME TermsInv, CountInv', Schedule \subseteq Schedule',
         terms' = [n \in DOMAIN schedules' |->
           {TermsOf(schedules'[n])} \cup (IF n \in DOMAIN terms THEN terms[n] ELSE {})]
  PROVE  /\ TermsOK'
         /\ \A n \in Schedule : terms[n] \subseteq terms'[n]
  <1>1. terms \in [Schedule -> SUBSET Terms]
    BY DEF TermsInv, TermsOK
  <1>2. Schedule' = DOMAIN schedules'
    BY DEF Schedule
  <1>3. \A n \in Schedule' : schedules'[n] \in ScheduleRecord
    <2>1. schedules' \in Seq(ScheduleRecord)
      BY DEF CountInv, SchedulesOK
    <2> QED
      BY <1>2, <2>1, ElementOfSeq, LenProperties
  <1>4. ASSUME NEW n \in Schedule' PROVE TermsOf(schedules'[n]) \in Terms
    <2>1. schedules'[n] \in ScheduleRecord
      BY <1>3
    <2> QED
      BY <2>1, FieldsAre DEF TermsOf, Terms
  <1>5. \A n \in Schedule' :
          terms'[n] = {TermsOf(schedules'[n])} \cup (IF n \in Schedule THEN terms[n] ELSE {})
    BY <1>1, <1>2
  <1>6. terms' \in [Schedule' -> SUBSET Terms]
    BY <1>1, <1>2, <1>4, <1>5
  <1> QED
    BY <1>5, <1>6 DEF TermsOK

\* A payment earns what it pays: by period with the larger amount and the
\* shorter interval of those it was earned under and those of the moment.
LEMMA PaymentEarned ==
  ASSUME NEW s \in ScheduleRecord, NEW q \in ScheduleRecord, ScheduleSound(s), Pays(s, q),
         now \in Nat,
         NEW T, T \subseteq Terms, TermsOf(s) \in T,
         \E a, i, e \in T : Earned(s, a, i, e, now)
  PROVE  \E a, i, e \in T : Earned(q, a, i, e, now)
  <1> DEFINE c == TermsOf(s)
  <1>1. /\ q.pay = s.pay /\ q.start = s.start /\ TermsOf(q) = c
        /\ q.last = now /\ q.periods = s.periods + 1
        /\ c \in T /\ c \in Terms
    BY DEF Pays
  <1>2. /\ c.amount = s.amount /\ c.interval = s.interval /\ c.end = s.end
        /\ q.amount = s.amount /\ q.interval = s.interval /\ q.end = s.end
    BY <1>1 DEF TermsOf
  <1> HIDE DEF c
  <1>3. CASE s.pay # "FixedAmountPerPeriod"
    <2>1. q.disbursed <= EntitledAt(q, now)
      BY <1>3 DEF Pays
    <2>2. EntitledAt(Under(q, c, c, c), now) = EntitledAt(q, now)
      BY <1>1, <1>2, UnderIs, EntitledSame
    <2>3. Earned(q, c, c, c, now)
      BY <1>1, <1>3, <2>1, <2>2 DEF Earned
    <2> QED
      BY <1>1, <2>3
  <1>4. CASE s.pay = "FixedAmountPerPeriod"
    <2>1. PICK a \in T, i \in T, e \in T : Earned(s, a, i, e, now)
      OBVIOUS
    <2>2. /\ s.disbursed <= a.amount * s.periods
          /\ s.periods > 0 => s.start + s.periods * i.interval <= s.last
      BY <1>4, <2>1 DEF Earned
    <2>3. /\ a.amount \in Nat /\ i.interval \in Nat \ {0}
          /\ s.amount \in Nat /\ s.interval \in Nat \ {0} /\ s.start \in Nat /\ s.end \in Nat
          /\ s.disbursed \in Nat /\ s.last \in Nat /\ s.periods \in Nat
          /\ q.disbursed \in Nat
      BY FieldsAre DEF Terms
    <2>4. /\ q.disbursed <= s.disbursed + s.amount
          /\ now >= DueAt(s)
          /\ HasEnd(s) => now <= s.end
      BY <1>4 DEF Pays
    <2>5. PICK b \in T : b.amount \in Nat /\ a.amount <= b.amount /\ s.amount <= b.amount
      <3>1. CASE a.amount <= s.amount
        BY <1>1, <1>2, <2>3, <3>1
      <3>2. CASE ~(a.amount <= s.amount)
        BY <2>3, <3>2
      <3> QED
        BY <3>1, <3>2
    <2>6. q.disbursed <= b.amount * q.periods
      <3>1. a.amount * s.periods <= b.amount * s.periods /\ a.amount * s.periods \in Nat
        BY <2>3, <2>5, TimesMonotone
      <3>2. b.amount * s.periods \in Nat
        BY <2>3, <2>5, TimesMonotone
      <3>3. b.amount * (s.periods + 1) = b.amount * s.periods + b.amount
        BY <2>3, <2>5, SMTT(30)
      <3> DEFINE before == a.amount * s.periods
                 after  == b.amount * s.periods
      <3> HIDE DEF before, after
      <3>4. s.disbursed <= before /\ before <= after /\ before \in Nat /\ after \in Nat
        BY <2>2, <3>1, <3>2 DEF before, after
      <3>5. q.disbursed <= after + b.amount
        BY <2>3, <2>4, <2>5, <3>4
      <3> QED
        BY <1>1, <3>3, <3>5 DEF after
    <2>7. PICK j \in T : q.start + q.periods * j.interval <= q.last
      <3>1. CASE s.periods = 0
        <4>1. now >= s.start + s.interval
          BY <1>4, <2>3, <2>4, <3>1 DEF DueAt, ScheduleSound
        <4>2. q.periods * c.interval = s.interval
          BY <1>1, <1>2, <2>3, <3>1
        <4> QED
          BY <1>1, <2>3, <4>1, <4>2
      <3>2. CASE s.periods > 0
        <4>1. s.disbursed > 0 => now >= s.last + s.interval
          BY <2>4 DEF DueAt
        <4>2. s.disbursed > 0
          BY <3>2, <2>3 DEF ScheduleSound
        <4>3. PICK j \in T : /\ j.interval \in Nat /\ j.interval <= i.interval
                             /\ j.interval <= s.interval
          <5>1. CASE s.interval <= i.interval
            BY <1>1, <1>2, <2>3, <5>1
          <5>2. CASE ~(s.interval <= i.interval)
            BY <2>3, <5>2
          <5> QED
            BY <5>1, <5>2
        <4>4. s.periods * j.interval <= s.periods * i.interval
              /\ s.periods * j.interval \in Nat /\ s.periods * i.interval \in Nat
          BY <2>3, <4>3, TimesMonotone
        <4>5. (s.periods + 1) * j.interval = s.periods * j.interval + j.interval
          BY <2>3, <4>3, SMTT(30)
        <4>6. s.start + (s.periods + 1) * j.interval <= now
          BY <2>2, <2>3, <3>2, <4>1, <4>2, <4>3, <4>4, <4>5
        <4> QED
          BY <1>1, <4>6
      <3> QED
        BY <2>3, <3>1, <3>2
    <2>8. c.end = 0 \/ q.last <= c.end
      BY <1>1, <1>2, <2>3, <2>4 DEF HasEnd
    <2>9. Earned(q, b, j, c, now)
      BY <1>1, <1>4, <2>6, <2>7, <2>8 DEF Earned
    <2> QED
      BY <1>1, <2>9
  <1> QED
    BY <1>3, <1>4

\* Every step keeps what was earned within what was granted.
LEMMA TermsStep ==
  ASSUME TermsInv, TermsNext
  PROVE  TermsInv'
  <1>1. CountInv' /\ Effect /\ CountInv
    BY RecurringStep DEF TermsNext, TermsInv
  <1>2. /\ schedules \in Seq(ScheduleRecord) /\ Schedule = 1..Len(schedules) /\ Len(schedules) \in Nat
        /\ now \in Nat /\ now' \in Nat
        /\ \A n \in Schedule : schedules[n] \in ScheduleRecord /\ ScheduleSound(schedules[n])
    BY <1>1, SchedulesAre DEF CountInv, SchedulesOK, BooksOK
  <1>3. now <= now'
    BY <1>1, BooksForward DEF TermsNext
  <1>4. Schedule \subseteq Schedule'
    <2>1. ASSUME NEW q \in ScheduleRecord, schedules' = Append(schedules, q)
          PROVE  Schedule \subseteq Schedule'
      BY <1>2, <2>1, AppendProperties DEF Schedule
    <2>2. ASSUME NEW n \in Schedule, NEW q \in ScheduleRecord,
                 schedules' = [schedules EXCEPT ![n] = q]
          PROVE  Schedule \subseteq Schedule'
      BY <2>2 DEF Schedule
    <2> QED
      BY <1>1, <2>1, <2>2 DEF Effect, Schedule
  <1>5. TermsOK' /\ \A n \in Schedule : terms[n] \subseteq terms'[n]
    BY <1>1, <1>4, TermsGrow DEF TermsNext
  <1>6. \A n \in Schedule' : terms'[n] \subseteq Terms /\ TermsOf(schedules'[n]) \in terms'[n]
    BY <1>5 DEF TermsOK
  <1>7. \A n \in Schedule : terms[n] \subseteq Terms /\ TermsOf(schedules[n]) \in terms[n]
    BY DEF TermsInv, TermsOK
  <1>8. \A n \in Schedule : \E a, i, e \in terms[n] : Earned(schedules[n], a, i, e, now)
    BY DEF TermsInv, AllEarned
  <1>9. ASSUME NEW n \in Schedule, schedules'[n] = schedules[n]
        PROVE  \E a, i, e \in terms'[n] : Earned(schedules'[n], a, i, e, now')
    <2>1. PICK a \in terms[n], i \in terms[n], e \in terms[n] : Earned(schedules[n], a, i, e, now)
      BY <1>8
    <2>2. a \in Terms /\ i \in Terms /\ e \in Terms /\ schedules[n] \in ScheduleRecord
      BY <1>2, <1>7
    <2>3. Earned(schedules[n], a, i, e, now')
      BY <1>2, <1>3, <2>1, <2>2, EarnedLater
    <2> QED
      BY <1>5, <1>9, <2>3
  <1>10. CASE UNCHANGED schedules
    <2>1. AllEarned'
      BY <1>9, <1>10 DEF AllEarned, Schedule
    <2> QED
      BY <1>1, <1>5, <2>1 DEF TermsInv
  <1>11. ASSUME NEW q \in ScheduleRecord,
                schedules' = Append(schedules, q), now' = now,
                q.disbursed = 0, q.periods = 0, q.last = 0
         PROVE  TermsInv'
    <2> DEFINE m == Len(schedules) + 1
    <2>1. /\ Schedule' = 1..m /\ schedules'[m] = q /\ m \in Schedule'
          /\ \A n \in Schedule : schedules'[n] = schedules[n]
          /\ \A n \in Schedule' : n \in Schedule \/ n = m
      <3>1. /\ schedules' \in Seq(ScheduleRecord) /\ Len(schedules') = m
            /\ \A n \in 1..Len(schedules) : schedules'[n] = schedules[n]
            /\ schedules'[m] = q
        BY <1>2, <1>11, AppendProperties
      <3> QED
        BY <1>2, <3>1, LenProperties DEF Schedule
    <2> DEFINE c == TermsOf(q)
    <2> HIDE DEF m
    <2>2. c \in terms'[m] /\ c \in Terms
      BY <1>6, <2>1
    <2> HIDE DEF c
    <2>3. Earned(q, c, c, c, now')
      <3>1. CASE q.pay = "FixedAmountPerPeriod"
        <4>1. c.amount * 0 = 0 /\ c.end \in Nat
          BY <2>2 DEF Terms
        <4> QED
          BY <1>11, <2>2, <3>1, <4>1 DEF Earned
      <3>2. CASE q.pay # "FixedAmountPerPeriod"
        <4>1. Under(q, c, c, c) \in ScheduleRecord
          BY <2>2, UnderIs
        <4>2. EntitledAt(Under(q, c, c, c), now') \in Nat
          BY <1>2, <4>1, EntitledGrows
        <4> QED
          BY <1>11, <3>2, <4>2 DEF Earned
      <3> QED
        BY <3>1, <3>2
    <2>4. AllEarned'
      <3> SUFFICES ASSUME NEW n \in Schedule'
                   PROVE  \E a, i, e \in terms'[n] : Earned(schedules'[n], a, i, e, now')
        BY DEF AllEarned
      <3> QED
        BY <1>9, <2>1, <2>2, <2>3
    <2> QED
      BY <1>1, <1>5, <2>4 DEF TermsInv
  <1>12. ASSUME NEW m \in Schedule, NEW q \in ScheduleRecord,
                schedules' = [schedules EXCEPT ![m] = q], now' = now,
                SameAccount(schedules[m], q) \/ Pays(schedules[m], q)
         PROVE  TermsInv'
    <2>1. /\ Schedule' = Schedule /\ schedules'[m] = q
          /\ \A n \in Schedule : n # m => schedules'[n] = schedules[n]
      BY <1>12 DEF Schedule
    <2>2. \E a, i, e \in terms[m] : Earned(q, a, i, e, now)
      <3> DEFINE s == schedules[m]
      <3>1. s \in ScheduleRecord /\ ScheduleSound(s)
        BY <1>2
      <3>2. terms[m] \subseteq Terms /\ TermsOf(s) \in terms[m]
        BY <1>7
      <3>3. PICK a \in terms[m], i \in terms[m], e \in terms[m] : Earned(s, a, i, e, now)
        BY <1>8
      <3> HIDE DEF s
      <3>4. CASE Pays(s, q)
        BY <1>2, <3>1, <3>2, <3>3, <3>4, PaymentEarned
      <3>5. CASE SameAccount(s, q)
        <4>1. a \in Terms /\ i \in Terms /\ e \in Terms
          BY <3>2
        <4>2. EntitledAt(Under(q, a, i, e), now) = EntitledAt(Under(s, a, i, e), now)
          <5>1. LET u == Under(s, a, i, e)
                IN  /\ u.amount = a.amount /\ u.interval = i.interval /\ u.end = e.end
                    /\ u.pay = s.pay /\ u.start = s.start /\ u.cliff = s.cliff /\ u.cap = s.cap
            BY <3>1, <4>1, UnderIs
          <5>2. LET u == Under(q, a, i, e)
                IN  /\ u.amount = a.amount /\ u.interval = i.interval /\ u.end = e.end
                    /\ u.pay = q.pay /\ u.start = q.start /\ u.cliff = q.cliff /\ u.cap = q.cap
            BY <4>1, UnderIs
          <5> QED
            BY <3>5, <5>1, <5>2, EntitledSame DEF SameAccount
        <4>3. Earned(q, a, i, e, now)
          BY <3>3, <3>5, <4>2 DEF Earned, SameAccount
        <4> QED
          BY <4>3
      <3> QED
        BY <1>12, <3>4, <3>5 DEF s
    <2>3. AllEarned'
      <3> SUFFICES ASSUME NEW n \in Schedule'
                   PROVE  \E a, i, e \in terms'[n] : Earned(schedules'[n], a, i, e, now')
        BY DEF AllEarned
      <3>1. CASE n = m
        BY <1>5, <1>12, <2>1, <2>2, <3>1
      <3>2. CASE n # m
        BY <1>9, <2>1, <3>2
      <3> QED
        BY <3>1, <3>2
    <2> QED
      BY <1>1, <1>5, <2>3 DEF TermsInv
  <1> QED
    BY <1>1, <1>10, <1>11, <1>12 DEF Effect

\* The first terms of every schedule, nothing paid.
LEMMA TermsStart == TermsInit => TermsInv
  <1> SUFFICES ASSUME TermsInit PROVE TermsInv
    OBVIOUS
  <1>1. CountInv
    BY RecurringStart DEF TermsInit
  <1>2. \A n \in Schedule : schedules[n] \in ScheduleRecord /\ ScheduleSound(schedules[n])
    BY <1>1, SchedulesAre DEF CountInv
  <1>3. terms = [n \in Schedule |-> {TermsOf(schedules[n])}]
    BY DEF TermsInit
  <1>4. ASSUME NEW n \in Schedule PROVE TermsOf(schedules[n]) \in Terms
    BY <1>2, FieldsAre DEF TermsOf, Terms
  <1>5. TermsOK
    BY <1>3, <1>4 DEF TermsOK
  <1>6. ASSUME NEW n \in Schedule
        PROVE  Earned(schedules[n], TermsOf(schedules[n]), TermsOf(schedules[n]),
                      TermsOf(schedules[n]), now)
    <2> DEFINE s == schedules[n]
               c == TermsOf(s)
    <2>1. s.disbursed = 0 /\ s.periods = 0 /\ s.last = 0
      BY DEF TermsInit, RecurringInit, NewSchedule, Schedule
    <2>2. s \in ScheduleRecord /\ c \in Terms /\ now \in Nat
      BY <1>1, <1>2, <1>4 DEF CountInv, BooksOK
    <2> HIDE DEF s, c
    <2>3. CASE s.pay = "FixedAmountPerPeriod"
      <3>1. c.amount * 0 = 0 /\ c.end \in Nat
        BY <2>2 DEF Terms
      <3>2. Earned(s, c, c, c, now)
        BY <2>1, <2>2, <2>3, <3>1 DEF Earned
      <3> QED
        BY <3>2 DEF s, c
    <2>4. CASE s.pay # "FixedAmountPerPeriod"
      <3>1. EntitledAt(Under(s, c, c, c), now) \in Nat
        BY <2>2, UnderIs, EntitledGrows
      <3>2. Earned(s, c, c, c, now)
        BY <2>1, <2>4, <3>1 DEF Earned
      <3> QED
        BY <3>2 DEF s, c
    <2> QED
      BY <2>3, <2>4
  <1>7. AllEarned
    BY <1>3, <1>6 DEF AllEarned
  <1> QED
    BY <1>1, <1>5, <1>7 DEF TermsInv

\* A stutter of the schedules and of their terms.
LEMMA TermsStutter ==
  ASSUME TermsInv, UNCHANGED <<allVars, terms>>
  PROVE  TermsInv'
  <1>1. CountInv' /\ UNCHANGED <<now, schedules, terms>>
    BY RecurringStutter DEF TermsInv
  <1>2. TermsOK' /\ AllEarned'
    BY <1>1 DEF TermsInv, TermsOK, AllEarned, Schedule
  <1> QED
    BY <1>1, <1>2 DEF TermsInv

-----------------------------------------------------------------------------
(* The theorems *)

\* Only a schedule that takes a place in the count can still pay.
LEMMA CountCovers ==
  ASSUME CountInv
  PROVE  CountCoversActive
  <1>1. {n \in Schedule : Ongoing(n)} \subseteq Live
    BY OngoingTakes DEF Live, Takes
  <1>2. IsFiniteSet(Live)
    <2>1. Len(schedules) \in Nat /\ Schedule = 1..Len(schedules)
      BY SchedulesAre DEF CountInv
    <2>2. IsFiniteSet(Schedule)
      BY <2>1, FS_Interval
    <2> QED
      BY <2>2, FS_Subset DEF Live
  <1>3. Cardinality({n \in Schedule : Ongoing(n)}) <= Cardinality(Live)
    BY <1>1, <1>2, FS_Subset
  <1> QED
    BY <1>3 DEF CountInv, CountExact, CountCoversActive

\* What was earned is within what some mix of the terms grants.
LEMMA EarnedWithinTerms ==
  ASSUME TermsInv
  PROVE  NeverAheadOfTerms
  <1>1. ASSUME NEW n \in Schedule
        PROVE  \E a, i, e \in terms[n] : schedules[n].disbursed <= Entitled(Under(schedules[n], a, i, e))
    <2>1. PICK a \in terms[n], i \in terms[n], e \in terms[n] : Earned(schedules[n], a, i, e, now)
      BY DEF TermsInv, AllEarned
    <2>2. a \in Terms /\ i \in Terms /\ e \in Terms
      BY DEF TermsInv, TermsOK
    <2>3. schedules[n] \in ScheduleRecord /\ ScheduleSound(schedules[n]) /\ now \in Nat
      BY SchedulesAre DEF TermsInv, CountInv, BooksOK
    <2>4. schedules[n].disbursed <= Entitled(Under(schedules[n], a, i, e))
      BY <2>1, <2>2, <2>3, EarnedEntitled
    <2> QED
      BY <2>4
  <1> QED
    BY <1>1 DEF NeverAheadOfTerms, Under

(***************************************************************************)
(* The count that create_recurring compares with MAX_ACTIVE_RECURRING      *)
(* (lib.rs:4514) is the number of schedules still Active or Paused, for    *)
(* every menu of schedules and every order of calls: none that can pay is  *)
(* left out of it, and it stays within the bound.                          *)
(***************************************************************************)
THEOREM CountSafe == RecurringSpec => [](CountExact /\ CountCoversActive)
  <1>1. CountInv /\ [RecurringNext]_allVars => CountInv'
    BY RecurringStep, RecurringStutter
  <1>2. CountInv => CountExact /\ CountCoversActive
    BY CountCovers DEF CountInv
  <1> QED
    BY <1>1, <1>2, RecurringStart, PTL DEF RecurringSpec

(***************************************************************************)
(* The same of the schedules with the terms they were under.               *)
(***************************************************************************)
THEOREM CountSafeWithTerms == TermsSpec => []CountCoversActive
  <1>1. TermsInit => RecurringInit
    BY DEF TermsInit
  <1>2. [TermsNext]_<<allVars, terms>> => [RecurringNext]_allVars
    BY DEF TermsNext
  <1> QED
    BY <1>1, <1>2, CountSafe, PTL DEF TermsSpec, RecurringSpec

(***************************************************************************)
(* No order of disbursements, claims, pauses, resumptions and changes of   *)
(* terms pays a schedule more than the most generous mix of the terms it   *)
(* ever had grants by now (disburse_recurring, claim_stream).              *)
(***************************************************************************)
THEOREM PaymentsSafe == TermsSpec => []NeverAheadOfTerms
  <1>1. TermsInv /\ [TermsNext]_<<allVars, terms>> => TermsInv'
    BY TermsStep, TermsStutter
  <1>2. TermsInv => NeverAheadOfTerms
    BY EarnedWithinTerms
  <1> QED
    BY <1>1, <1>2, TermsStart, PTL DEF TermsSpec

=============================================================================
