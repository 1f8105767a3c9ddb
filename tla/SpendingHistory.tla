---------------------------- MODULE SpendingHistory ----------------------------
(***************************************************************************)
(* Treasury with a history variable that keeps, beside the trackers of the *)
(* contract, what the comment on SPENDING_WINDOW                           *)
(* (contracts/accord/src/lib.rs) describes: a window starts when a limit   *)
(* is set or at the first spend after the last window, and everything the  *)
(* owner's proposals pay until it elapses is spent in it.                  *)
(***************************************************************************)
EXTENDS Treasury

VARIABLE spending  \* spending[a][t]: start and sum of the documented window

historyVars == <<vars, spending>>

HistoryInit ==
  /\ Init
  /\ spending = [a \in Address |-> [t \in Token |-> [start |-> 0, sum |-> 0]]]

\* The proposals this step executes.
ExecutedNow ==
  {i \in Ids : proposals[i].status # "Executed" /\ proposals'[i].status = "Executed"}

SetsLimit(k, a, t) ==
  k.op \in {"SetSpendingLimit", "SetSpendingLimitWindow"} /\ k.owner = a /\ k.token = t

PaidFor(i, a, t) ==
  IF proposals[i].kind.op = "Transfer" /\ proposals[i].proposer = a
    THEN TotalOf(proposals[i].kind.legs, t)
    ELSE 0

\* The documented window after n more is spent by a on t.
Spent(h, n, length) ==
  IF n = 0 THEN h
  ELSE IF h.start = 0 \/ now > h.start + length
    THEN [start |-> now, sum |-> n]
    ELSE [h EXCEPT !.sum = @ + n]

HistoryNext ==
  /\ Next
  /\ spending' = [a \in Address |-> [t \in Token |->
       IF \E i \in ExecutedNow : SetsLimit(proposals[i].kind, a, t)
         THEN [start |-> now, sum |-> 0]
         ELSE Spent(spending[a][t],
                    Total([i \in Ids |-> PaidFor(i, a, t)], ExecutedNow),
                    window[a][t])]]

HistorySpec == HistoryInit /\ [][HistoryNext]_historyVars

-----------------------------------------------------------------------------

Running(a, t) == now <= spending[a][t].start + window[a][t]

(***************************************************************************)
(* In the window that a new limit opens, the transfers of all proposals of *)
(* an owner together stay within the limit, although each was checked when *)
(* it was made, before the others executed.                                *)
(***************************************************************************)
FirstWindowBounded ==
  \A a \in Address, t \in Token :
    /\ limit[a][t] # NoLimit
    /\ Running(a, t)
    /\ spending[a][t].start = tracker[a][t].epoch
    => spending[a][t].sum <= limit[a][t]

(***************************************************************************)
(* The comment on SPENDING_WINDOW: "The cumulative spent amount per        *)
(* (owner, token) resets when this window elapses since the first tracked  *)
(* spend in the window", so every window is bounded by the limit.          *)
(***************************************************************************)
LimitBoundsEveryWindow ==
  \A a \in Address, t \in Token :
    limit[a][t] # NoLimit /\ Running(a, t) => spending[a][t].sum <= limit[a][t]

=============================================================================
