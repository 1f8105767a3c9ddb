------------------------------- MODULE HistoryWalk -------------------------------
(* The commands backfill and reindex of indexer/src/commands.js: a walk over the  *)
(* final history that leaves a checkpoint after every page, so that a later run of *)
(* the same command over the same range resumes it. They run in a process of their *)
(* own, which may be interrupted between any two awaits.                           *)
EXTENDS LedgerSync

CONSTANT MaxRuns       \* bound: history commands started

ASSUME HistoryAssumption == MaxRuns \in Nat /\ None \notin {"backfill", "reindex"}

VARIABLES
  h,         \* the running command: its local variables
  runs       \* commands started so far, not counting interrupted ones run again

NoRun == [at |-> "idle", cmd |-> None, start |-> 0, end |-> 0, cursor |-> 0,
          todo |-> {}, full |-> FALSE, last |-> 0, before |-> None]

syncState == <<conf, closed, seen, b>>

(* The end of the range is clamped to the final ledger.                            *)
ResolveHistoryRange(from, to) ==
  LET final == FinalLedgerFor(closed, conf.lag)
  IN  [start |-> from, end |-> IF to = None \/ to > final THEN final ELSE to]

Resumes(d, c, start, end) ==
  ~d.walk[c].done /\ d.walk[c].from = start /\ d.walk[c].to = end

-----------------------------------------------------------------------------
(* The operator starts a command. Nothing final in the range: backfill has nothing *)
(* to do, reindex still clears the store unless it is resuming.                    *)
StartRun(c) ==
  /\ h.at = "idle" /\ c \in conf.commands
  /\ runs < MaxRuns \/ h.cmd = c
  /\ \E from \in conf.starts:
       LET range == ResolveHistoryRange(from, None)
           empty == range.start > range.end
           resuming == db.rebuilding /\ Resumes(db, c, range.start, range.end)
       IN  /\ h' = IF empty THEN NoRun
                   ELSE [NoRun EXCEPT !.at = IF c = "reindex" /\ ~resuming THEN "blank"
                                             ELSE IF c = "reindex" THEN "mark" ELSE "begin",
                                      !.cmd = c, !.start = range.start, !.end = range.end]
           /\ db' = IF c = "reindex" /\ ~resuming THEN ClearHistory(db) ELSE db
  /\ runs' = IF h.cmd = c THEN runs ELSE runs + 1
  /\ UNCHANGED <<syncState, faults>>

(* A fresh rebuild forgets the checkpoint of the one before it.                    *)
BlankCheckpoint ==
  /\ h.at = "blank"
  /\ db' = [db EXCEPT !.walk["reindex"].cursor = 0, !.walk["reindex"].done = FALSE]
  /\ h' = [h EXCEPT !.at = "mark"]
  /\ UNCHANGED <<syncState, faults, runs>>

MarkRebuilding ==
  /\ h.at = "mark"
  /\ db' = [db EXCEPT !.rebuilding = TRUE]
  /\ h' = [h EXCEPT !.at = "begin"]
  /\ UNCHANGED <<syncState, faults, runs>>

(* The walk resumes from the stored cursor, or begins; the range is written down.  *)
BeginWalk ==
  /\ h.at = "begin"
  /\ h' = [h EXCEPT !.at = "request",
                    !.cursor = IF Resumes(db, h.cmd, h.start, h.end)
                               THEN db.walk[h.cmd].cursor ELSE 0]
  /\ db' = [db EXCEPT !.walk[h.cmd].from = h.start, !.walk[h.cmd].to = h.end,
                      !.walk[h.cmd].done = FALSE]
  /\ UNCHANGED <<syncState, faults, runs>>

RequestPage ==
  /\ h.at = "request"
  /\ LET page == GetEvents(h.cursor, h.start, closed, conf.pageLimit)
     IN  h' = [h EXCEPT !.at = "record",
                        !.todo = {e \in page: LedgerOf(e) \in h.start..h.end},
                        !.full = /\ Cardinality(page) = conf.pageLimit
                                 /\ \A e \in page: LedgerOf(e) <= h.end,
                        !.last = Max(page \cup {0})]
  /\ UNCHANGED <<db, syncState, faults, runs>>

NextToRecord == Min(h.todo)

ReadBalanceBefore ==
  /\ h.at = "record" /\ h.todo # {} /\ IsTransfer(NextToRecord)
  /\ conf.backend = "sqlite" /\ h.before = None
  /\ h' = [h EXCEPT !.before = db.balances[ParseTokenTransferEvent(NextToRecord).token]]
  /\ UNCHANGED <<db, syncState, faults, runs>>

RecordHistoric ==
  /\ h.at = "record" /\ h.todo # {}
  /\ IsTransfer(NextToRecord) /\ conf.backend = "sqlite" => h.before # None
  /\ db' = IF IsTransfer(NextToRecord)
           THEN IF conf.backend = "sqlite" THEN RecordTransfer(db, NextToRecord, h.before)
                                           ELSE RecordTransferLocked(db, NextToRecord)
           ELSE IF IsAccordEvent(NextToRecord) THEN RecordAccordEvent(db, NextToRecord) ELSE db
  /\ h' = [h EXCEPT !.todo = @ \ {NextToRecord}, !.before = None]
  /\ UNCHANGED <<syncState, faults, runs>>

\* Mutant of StorePage: the checkpoint is stored while events of the page are left.
StorePageFirst ==
  /\ h.at = "record" /\ h.full /\ db.walk[h.cmd].cursor # h.last
  /\ db' = [db EXCEPT !.walk[h.cmd].cursor = h.last]
  /\ h' = [h EXCEPT !.cursor = h.last, !.at = IF h.todo = {} THEN "request" ELSE @]
  /\ UNCHANGED <<syncState, faults, runs>>

StorePage ==
  /\ h.at = "record" /\ h.todo = {} /\ h.full
  /\ db' = [db EXCEPT !.walk[h.cmd].cursor = h.last]
  /\ h' = [h EXCEPT !.cursor = h.last, !.at = "request"]
  /\ UNCHANGED <<syncState, faults, runs>>

(* The last page: done is stored before the cursor is cleared.                     *)
CompleteWalk ==
  /\ h.at = "record" /\ h.todo = {} /\ ~h.full
  /\ db' = [db EXCEPT !.walk[h.cmd].done = TRUE]
  /\ h' = [h EXCEPT !.at = "done"]
  /\ UNCHANGED <<syncState, faults, runs>>

ClearWalkCursor ==
  /\ h.at = "done"
  /\ db' = [db EXCEPT !.walk[h.cmd].cursor = 0]
  /\ h' = [h EXCEPT !.at = "handover"]
  /\ UNCHANGED <<syncState, faults, runs>>

(* The range is handed to the live indexer, which never goes back before its end.  *)
ReadNextLedger ==
  /\ h.at = "handover"
  /\ h' = [h EXCEPT !.at = "finish", !.last = Or(db.next_ledger, 0)]
  /\ UNCHANGED <<db, syncState, faults, runs>>

FinishHistoryRun ==
  /\ h.at = "finish"
  /\ db' = IF h.end + 1 > h.last THEN [db EXCEPT !.next_ledger = h.end + 1] ELSE db
  /\ h' = [h EXCEPT !.at = "unpark"]
  /\ UNCHANGED <<syncState, faults, runs>>

DropLiveCursor ==
  /\ h.at = "unpark"
  /\ db' = [db EXCEPT !.event_cursor = 0]
  /\ h' = [h EXCEPT !.at = "balances"]
  /\ UNCHANGED <<syncState, faults, runs>>

RecomputeBalances ==
  /\ h.at = "balances"
  /\ db' = [ReplayBalances(db) EXCEPT !.rebuilding = IF h.cmd = "reindex" THEN FALSE ELSE @]
  /\ h' = NoRun
  /\ UNCHANGED <<syncState, faults, runs>>

(* The operator will have to run the command again.                                *)
InterruptRun ==
  /\ h.at # "idle" /\ conf.fail /\ faults.failures < MaxFailures
  /\ faults' = [faults EXCEPT !.failures = @ + 1]
  /\ h' = [NoRun EXCEPT !.cmd = h.cmd]
  /\ UNCHANGED <<db, syncState, runs>>

-----------------------------------------------------------------------------
HistoryInit == h = NoRun /\ runs = 0

HistoryNext ==
  \/ \E c \in {"backfill", "reindex"}: StartRun(c)
  \/ BlankCheckpoint \/ MarkRebuilding \/ BeginWalk \/ RequestPage
  \/ ReadBalanceBefore \/ RecordHistoric \/ StorePage \/ CompleteWalk \/ ClearWalkCursor
  \/ ReadNextLedger \/ FinishHistoryRun \/ DropLiveCursor \/ RecomputeBalances \/ InterruptRun
=============================================================================
