------------------------------- MODULE LedgerSync -------------------------------
(* The live indexer's batch, indexer/src/indexing.js: pages of contract events   *)
(* are fetched from an RPC node, events of final ledgers are recorded, and a      *)
(* checkpoint is left for the next batch. Every await of the batch is a step of   *)
(* its own, between which the process may fail. The environment closes ledgers    *)
(* and the node answers from a view of the chain that may lag.                    *)
EXTENDS IndexerStore

CONSTANTS
  StartLedger,   \* INDEXER_START_LEDGER
  MaxLedger,     \* bound: ledgers the environment closes
  MaxStale,      \* bound: answers from a view behind an earlier answer's
  MaxFailures    \* bound: RPC errors, store errors and crashes

ASSUME SyncAssumption == /\ StartLedger \in Nat \ {0} /\ MaxLedger \in Nat
                         /\ MaxStale \in Nat /\ MaxFailures \in Nat

VARIABLES
  closed,    \* the last ledger the network has closed
  seen,      \* the highest head the node has answered with
  faults,    \* [stale, failures]: how much of the two bounds is used up
  b          \* the batch: its local variables, lost when the process fails

Infinity == MaxLedger + 1    \* Number.POSITIVE_INFINITY for a held back ledger

Idle == [at |-> "idle", cursor |-> 0, nextLedger |-> 0, startingLedger |-> 0,
         previousLatest |-> 0, latestSeen |-> 0, pages |-> 0, firstHeldBack |-> 0,
         reorgChecked |-> FALSE, todo |-> {}, last |-> 0, full |-> FALSE,
         before |-> None, checkpoint |-> 0]

Max2(x, y) == IF x > y THEN x ELSE y

-----------------------------------------------------------------------------
(* Finality.                                                                     *)
FinalLedgerFor(latest, lag) == Max2(0, latest - lag)

DetectReorg(previous, latest) == previous > 0 /\ latest < previous

-----------------------------------------------------------------------------
(* The RPC node: the events after a cursor, or from a ledger on, that its view    *)
(* of the chain holds; at most `limit` of them.                                   *)
GetEvents(cursor, fromLedger, head, limit) ==
  LET matching == {e \in Event: /\ LedgerOf(e) <= head
                                /\ IF cursor # 0 THEN e > cursor ELSE LedgerOf(e) >= fromLedger}
  IN  {e \in matching: Cardinality({f \in matching: f <= e}) <= limit}

(* The head an answer reports. A lagging replica answers from an older one.       *)
View(head) ==
  /\ head \in 1..closed
  /\ IF head < seen
     THEN /\ conf.regress /\ faults.stale < MaxStale
          /\ faults' = [faults EXCEPT !.stale = @ + 1]
          /\ UNCHANGED seen
     ELSE seen' = head /\ UNCHANGED faults

CloseLedger == /\ closed < MaxLedger
               /\ closed' = closed + 1
               /\ UNCHANGED <<db, conf, seen, faults, b>>

-----------------------------------------------------------------------------
(* The interval fires and no batch is running: the checkpoints are read.          *)
StartBatch ==
  /\ b.at = "idle"
  /\ LET next == Or(db.next_ledger, StartLedger)
         prev == Or(db.last_seen_ledger, 0)
     IN  b' = [Idle EXCEPT !.at = "request", !.cursor = db.event_cursor,
                 !.nextLedger = next, !.startingLedger = next,
                 !.previousLatest = prev, !.latestSeen = prev, !.firstHeldBack = Infinity]
  /\ UNCHANGED <<db, conf, closed, seen, faults>>

(* One page. The first answer of a batch is compared with the recorded head; a    *)
(* lower one sends the batch to the rewind, and its events are not looked at.     *)
FetchPage ==
  /\ b.at = "request"
  /\ \E head \in 1..MaxLedger:
       /\ View(head)
       /\ LET page   == GetEvents(b.cursor, b.nextLedger, head, conf.pageLimit)
              latest == Max2(b.latestSeen, head)
              reorg  == ~b.reorgChecked /\ DetectReorg(b.previousLatest, head)
          IN  b' = IF reorg
                   THEN [b EXCEPT !.at = "rewind", !.reorgChecked = TRUE,
                                  !.previousLatest = head, !.latestSeen = head]
                   ELSE [b EXCEPT !.at = "ingest", !.reorgChecked = TRUE,
                                  !.previousLatest = IF b.reorgChecked THEN @ ELSE head,
                                  !.latestSeen = latest, !.todo = page,
                                  !.full = Cardinality(page) = conf.pageLimit,
                                  !.last = Max(page \cup {0})]
  /\ UNCHANGED <<db, conf, closed>>

\* Mutant of Rewind: the walk goes on from where it was.
RewindKeepsPlace ==
  /\ b.at = "rewind"
  /\ LET target == FinalLedgerFor(b.latestSeen, conf.lag)
     IN  /\ db' = RewindToLedger(db, target)
         /\ b'  = [b EXCEPT !.at = "unpark", !.cursor = 0]
  /\ UNCHANGED <<conf, closed, seen, faults>>

(* The rollback: the store is rewound, then the stored cursor is cleared; the     *)
(* new next ledger is only a local variable until the tip is reached.             *)
Rewind ==
  /\ b.at = "rewind"
  /\ LET target == FinalLedgerFor(b.latestSeen, conf.lag)
     IN  /\ db' = RewindToLedger(db, target)
         /\ b'  = [b EXCEPT !.at = "unpark", !.nextLedger = target + 1,
                            !.startingLedger = target + 1, !.cursor = 0]
  /\ UNCHANGED <<conf, closed, seen, faults>>

ClearCursorAfterRewind ==
  /\ b.at = "unpark"
  /\ db' = [db EXCEPT !.event_cursor = 0]
  /\ b'  = [b EXCEPT !.at = "request", !.firstHeldBack = Infinity]
  /\ UNCHANGED <<conf, closed, seen, faults>>

-----------------------------------------------------------------------------
(* The events of a page, in order.                                               *)
Upcoming == Min(b.todo)
IsFinal(e) == LedgerOf(e) <= FinalLedgerFor(b.latestSeen, conf.lag)

HoldBack ==
  /\ b.at = "ingest" /\ b.todo # {} /\ ~IsFinal(Upcoming)
  /\ b' = [b EXCEPT !.todo = @ \ {Upcoming},
                    !.firstHeldBack = IF LedgerOf(Upcoming) < @ THEN LedgerOf(Upcoming) ELSE @]
  /\ UNCHANGED <<db, conf, closed, seen, faults>>

(* SQLite reads the balance, then writes: another process may write in between.   *)
ReadBalance ==
  /\ b.at = "ingest" /\ b.todo # {} /\ IsFinal(Upcoming) /\ IsTransfer(Upcoming)
  /\ conf.backend = "sqlite" /\ b.before = None
  /\ b' = [b EXCEPT !.before = db.balances[ParseTokenTransferEvent(Upcoming).token]]
  /\ UNCHANGED <<db, conf, closed, seen, faults>>

IngestEvent ==
  /\ b.at = "ingest" /\ b.todo # {} /\ IsFinal(Upcoming)
  /\ IsTransfer(Upcoming) /\ conf.backend = "sqlite" => b.before # None
  /\ db' = IF IsTransfer(Upcoming)
           THEN IF conf.backend = "sqlite" THEN RecordTransfer(db, Upcoming, b.before)
                                           ELSE RecordTransferLocked(db, Upcoming)
           ELSE IF IsAccordEvent(Upcoming) THEN RecordAccordEvent(db, Upcoming) ELSE db
  /\ b' = [b EXCEPT !.todo = @ \ {Upcoming}, !.before = None]
  /\ UNCHANGED <<conf, closed, seen, faults>>

(* A full page moves the stored cursor, past held back events as well.            *)
NextPage ==
  /\ b.at = "ingest" /\ b.todo = {} /\ b.full
  /\ db' = [db EXCEPT !.event_cursor = b.last]
  /\ b'  = [b EXCEPT !.cursor = b.last, !.pages = @ + 1,
                     !.at = IF b.pages + 1 < conf.maxPages THEN "request" ELSE "finish"]
  /\ UNCHANGED <<conf, closed, seen, faults>>

\* Mutant of ReachTip: the checkpoint moves past the ledgers that were held back.
ReachTipPast ==
  /\ b.at = "ingest" /\ b.todo = {} /\ ~b.full
  /\ db' = [db EXCEPT !.next_ledger = Max2(b.startingLedger, b.latestSeen + 1)]
  /\ b'  = [b EXCEPT !.at = "tip"]
  /\ UNCHANGED <<conf, closed, seen, faults>>

(* A short page ends the walk: the checkpoint is parked at the first ledger held  *)
(* back, or after the final one, and in a second write the cursor is dropped.     *)
ReachTip ==
  /\ b.at = "ingest" /\ b.todo = {} /\ ~b.full
  /\ db' = [db EXCEPT !.next_ledger =
              Max2(b.startingLedger,
                   IF b.firstHeldBack < Infinity THEN b.firstHeldBack
                   ELSE FinalLedgerFor(b.latestSeen, conf.lag) + 1)]
  /\ b'  = [b EXCEPT !.at = "tip"]
  /\ UNCHANGED <<conf, closed, seen, faults>>

DropCursor ==
  /\ b.at = "tip"
  /\ db' = [db EXCEPT !.event_cursor = 0]
  /\ b'  = [b EXCEPT !.at = "finish"]
  /\ UNCHANGED <<conf, closed, seen, faults>>

FinishBatch ==
  /\ b.at = "finish"
  /\ db' = IF b.latestSeen > 0 THEN [db EXCEPT !.last_seen_ledger = b.latestSeen] ELSE db
  /\ b'  = Idle
  /\ UNCHANGED <<conf, closed, seen, faults>>

(* An RPC or store error rejects the batch, a crash ends the process: the local   *)
(* variables are gone either way and the timer, or the restart, begins again.     *)
FailBatch ==
  /\ b.at # "idle" /\ conf.fail /\ faults.failures < MaxFailures
  /\ faults' = [faults EXCEPT !.failures = @ + 1]
  /\ b' = Idle
  /\ UNCHANGED <<db, conf, closed, seen>>

-----------------------------------------------------------------------------
SyncInit ==
  /\ closed = 1 /\ seen = 0
  /\ faults = [stale |-> 0, failures |-> 0]
  /\ b = Idle

BatchStep == StartBatch \/ FetchPage \/ Rewind \/ ClearCursorAfterRewind \/ HoldBack
             \/ ReadBalance \/ IngestEvent \/ NextPage \/ ReachTip \/ DropCursor \/ FinishBatch

SyncNext == CloseLedger \/ BatchStep \/ FailBatch
=============================================================================
