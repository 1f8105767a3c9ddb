------------------------------ MODULE MCRecurring ------------------------------
(* Small instances of Recurring for TLC. *)
EXTENDS Recurring

CONSTANTS alice, xlm

Sole  == [x \in {alice} |-> 1]
Funds == {[t \in {xlm} |-> 6]}

Recurs(pay, amount, end, cliff, cap) ==
  [op |-> "CreateRecurringPayment", pay |-> pay, token |-> xlm, amount |-> amount,
   interval |-> 2, start |-> 1, end |-> end, cliff |-> cliff, cap |-> cap]

Fixed   == Recurs("FixedAmountPerPeriod", 2, 0, 0, 3)
Vesting == Recurs("LinearVesting", 2, 5, 2, 0)
Stream  == Recurs("ContinuousStream", 1, 4, 2, 0)

On(op) == [op |-> op, schedule |-> 1]
Change(a, i, e) ==
  [op |-> "ModifyRecurringPayment", schedule |-> 1, amount |-> a, interval |-> i, end |-> e]
Faster  == Change(3, Same, 4)

OneEach == {<<Fixed>>, <<Vesting>>, <<Stream>>}

RecurringMenu == {On("CancelRecurringPayment"), On("PauseRecurringPayment"),
                  On("ResumeRecurringPayment"), Faster, Stream}
=============================================================================
