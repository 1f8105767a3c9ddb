-------------------------------- MODULE FinalLog --------------------------------
(* What the indexer promises about the events of the chain: its tables hold a    *)
(* prefix of them, in order and without gaps or repetitions, that reaches no     *)
(* further than the final ledger and in the end reaches it. A rollback may       *)
(* shorten the prefix, never leave a hole in it.                                 *)
EXTENDS Naturals, Sequences

CONSTANT Ledgers          \* the ledgers of the events to index, in chain order

VARIABLES
  length,    \* how many of the events are stored
  final      \* the last final ledger
logVars == <<length, final>>

Init == length = 0 /\ final \in Nat

Append1 == /\ length < Len(Ledgers)
           /\ Ledgers[length + 1] <= final
           /\ length' = length + 1
           /\ UNCHANGED final

Rollback == length' \in 0..length /\ UNCHANGED final

Close == final' \in final..final + 1 /\ UNCHANGED length

Next == Append1 \/ Rollback \/ Close

(* Stated as a leads-to rather than as fairness of Append1: what is final is      *)
(* stored in the end, again if a rollback removes it.                            *)
CatchesUp == \A n \in 1..Len(Ledgers): (final >= Ledgers[n]) ~> (length >= n)

Spec == Init /\ [][Next]_logVars /\ CatchesUp
=============================================================================
