--------------------------------- MODULE Indexer ---------------------------------
(* The indexer service, indexer/src/index.js serve(): the indexing batch and one  *)
(* dispatcher, each driven by its own timer in one process, over one store, and   *)
(* beside it the history commands an operator runs.                               *)
EXTENDS HistoryWalk, DeliveryOutbox

CONSTANT Deployment    \* the settings explored

Settings == [backend: {"sqlite", "postgres"}, channel: {"webhook", "notification"},
             lag: Nat, pageLimit: Nat \ {0}, maxPages: Nat \ {0},
             regress: BOOLEAN,     \* may the node answer from an older view?
             fail: BOOLEAN,        \* may batches fail and processes crash?
             commands: SUBSET {"backfill", "reindex"},
             starts: SUBSET (Nat \ {0})]   \* the --from of those commands

ASSUME DeploymentAssumption == Deployment \subseteq Settings

syncVars   == <<closed, seen, faults, b>>
outboxVars == <<configured, t, requests, accepted, spent, history>>
walkVars   == <<h, runs>>
vars       == <<db, conf, syncVars, outboxVars, walkVars>>

(* The runbook: the service is stopped until a reindex has completed, and for       *)
(* every command when the store is SQLite; a backfill on Postgres runs beside it.  *)
ServiceDown == \/ h.cmd = "reindex"
               \/ h.at # "idle" /\ conf.backend = "sqlite"
MayStart(c) == \/ c = "backfill" /\ conf.backend = "postgres"
               \/ b = Idle /\ t = Resting

Init == /\ conf \in Deployment
        /\ db = [EmptyStore EXCEPT !.backend = conf.backend]
        /\ SyncInit /\ OutboxInit /\ HistoryInit

(* The process dies and is started again. Webhook subscriptions are read anew,    *)
(* and may have been edited.                                                      *)
Restart ==
  /\ conf.fail /\ faults.failures < MaxFailures /\ (b # Idle \/ t # Resting)
  /\ faults' = [faults EXCEPT !.failures = @ + 1]
  /\ b' = Idle /\ t' = Resting
  /\ \/ UNCHANGED <<configured, spent>>
     \/ /\ conf.channel = "webhook" /\ spent.requeues + spent.edits < MaxInterventions
        /\ configured' \in SUBSET Target
        /\ spent' = [spent EXCEPT !.edits = @ + 1]
  /\ UNCHANGED <<db, conf, closed, seen, requests, accepted, history, walkVars>>

Batch    == BatchStep /\ ~ServiceDown /\ UNCHANGED <<outboxVars, walkVars>>
Enqueue  == EnqueueStep /\ ~ServiceDown /\ UNCHANGED <<syncVars, walkVars>>
Deliver  == SendStep /\ ~ServiceDown /\ UNCHANGED <<syncVars, walkVars>>
Backoff  == \E i \in DOMAIN db.outbox: BackoffElapses(i) /\ UNCHANGED <<syncVars, walkVars>>
History  == /\ HistoryNext
            /\ h.at = "idle" => \E c \in conf.commands: MayStart(c) /\ StartRun(c)
            /\ UNCHANGED outboxVars

Next == \/ Batch \/ Enqueue \/ Deliver \/ Backoff \/ Restart \/ History
        \/ (CloseLedger \/ FailBatch) /\ UNCHANGED <<outboxVars, walkVars>>
        \/ OutboxEnvironment /\ UNCHANGED <<syncVars, walkVars>>

FetchFresh == FetchPage /\ seen' = closed /\ ~ServiceDown /\ UNCHANGED <<outboxVars, walkVars>>

(* The timers keep firing, the node's view catches up from time to time, time      *)
(* passes, and an interrupted command is run again. Nothing obliges ledgers to    *)
(* close, the operator to act or faults to happen.                                *)
Fairness == /\ WF_vars(Batch) /\ SF_vars(FetchFresh)
            /\ WF_vars(Enqueue) /\ WF_vars(Deliver) /\ WF_vars(Backoff)
            /\ WF_vars(History /\ h.cmd # None)

Spec == Init /\ [][Next]_vars /\ Fairness

-----------------------------------------------------------------------------
(* Properties of the live indexer.                                               *)

(* "Held back, not dropped" (indexing.js 16-18): between batches, every event the *)
(* next one will not ask for again is in its table.                              *)
BehindCheckpoint(e) ==
  IF db.event_cursor # 0 THEN e <= db.event_cursor
  ELSE LedgerOf(e) < Or(db.next_ledger, StartLedger)
NothingDropped ==
  b = Idle /\ h.cmd # "reindex" => \A e \in Indexed: StartLedger <= LedgerOf(e) /\ BehindCheckpoint(e) => Recorded(db, e)

(* A command is running, or an interrupted one has not been run again: between its *)
(* pages older transfers are stored after newer ones, and folded at the end only.  *)
HistoryPending == h.cmd # None

BalancesFold ==
  ~HistoryPending =>
  /\ \A tk \in Token: db.balances[tk] = SumDeltas(OfToken(db.entries, tk))
  /\ \A r \in db.entries:
       r.balance = SumDeltas(UpTo(OfToken(db.entries, ParseTokenTransferEvent(r.ev).token), r))

EachEventOnce ==
  \A rows \in {db.entries, db.events}: \A r, q \in rows: r.ev = q.ev => r = q

(* No two rows of a table stand for one event, though pages overlap after a        *)
(* restart or a rollback and the outbox is filled from these rows; and the cached  *)
(* balances, like the running balance each row shows, are the fold of the          *)
(* transfers stored so far in chain order, whatever was rolled back, re-ingested   *)
(* or interrupted (store/sqlite.js 160-173, 285-317).                             *)
TablesExact == EachEventOnce /\ BalancesFold

(* What the doc of walkHistory says of every command (commands.js 82-90, 114-116: a *)
(* checkpoint of any other range "belongs to a different job and is replaced"): one *)
(* that completes has left no event of its range out.                              *)
RangeCovered ==
  h.at \in {"done", "handover", "finish", "unpark", "balances"}
  => \A e \in Indexed: LedgerOf(e) \in h.start..h.end => Recorded(db, e)

(* It holds where all history commands are of one kind and begin at one ledger,    *)
(* whatever interrupted them and however their end moved on in between. With a     *)
(* second range it does not: a new range is written down before the cursor of the  *)
(* old one is replaced, so that a command interrupted then resumes from it when it *)
(* is run again (commands.js 117-129).                                             *)
WalkCovers == Cardinality(conf.commands) <= 1 /\ Cardinality(conf.starts) <= 1 => RangeCovered

(* The tables implement the abstract log of final events. A set of stored events  *)
(* that is not a prefix has no length.                                            *)
Due           == {e \in Indexed: LedgerOf(e) >= StartLedger}
Stored        == {e \in Due: Recorded(db, e)}
StoredLength  == LET stored == Stored
                 IN  IF stored = {e \in Due: e <= Max(stored \cup {0})}
                     THEN Cardinality(stored) ELSE -1
DueLedgers    == [n \in 1..Cardinality(Due) |->
                    LedgerOf(CHOOSE e \in Due: Cardinality({f \in Due: f <= e}) = n)]
Log == INSTANCE FinalLog WITH Ledgers <- DueLedgers, length <- StoredLength,
                              final <- FinalLedgerFor(closed, conf.lag)

(* The tables are always a gapless prefix of the final events, grow by one event   *)
(* at a time, and catch up with the final ledger in the end.                      *)
ImplementsFinalLog == Log!Spec

-----------------------------------------------------------------------------
(* Properties of the outbox.                                                      *)

(* A delivery is marked delivered only when the endpoint took the event in, even   *)
(* across timeouts, restarts and edits (webhooks.js 224-247).                     *)
DeliveredMeansAccepted ==
  \A i \in DOMAIN db.outbox: db.outbox[i].status = "delivered"
                             => db.outbox[i].ev \in accepted[db.outbox[i].target]

(* "A crash between enqueueing and sending loses nothing" (webhooks.js): an event  *)
(* at or before a target's cursor, of a kind it asked for and not older than the  *)
(* target, is in the outbox.                                                      *)
CursorMeansQueued ==
  \A s \in Target, r \in db.events:
    /\ db.cursors[s] # None /\ r.id <= db.cursors[s]
    /\ Wanted[s] = None \/ Chain[r.ev].topic \in Wanted[s]
    /\ r.ev \notin history[s]
    => Queued(db, s, r.ev)

\* Neither the cursors nor the outcomes of the outbox claim more than was done.
OutboxSound == DeliveredMeansAccepted /\ CursorMeansQueued

(* An endpoint sees each event for the first time in the order of the chain,       *)
(* whatever is being retried (webhooks.js 249-264).                               *)
FirstSendsInOrder ==
  [][\A s \in Target, e \in Event:
       requests[s][e] = 0 /\ requests'[s][e] > 0
       => \A f \in Event: f < e /\ Queued(db, s, f) /\ s \in configured
                          => requests[s][f] > 0 \/ \E i \in DOMAIN db.outbox:
                                db.outbox[i].ev = f /\ db.outbox[i].target = s
                                /\ db.outbox[i].status = "dead"]_vars

(* Every queued delivery is settled in the end: delivered, or dead and left for    *)
(* the operator (webhooks.js 228-246), whatever the endpoints answer. A webhook     *)
(* delivery alone may be left pending, and only in a process that found no         *)
(* subscription at all: there no tick is made to mark it dead (webhooks.js         *)
(* 294-297), while one that found another subscription settles it.                 *)
Settled(s, e) == \E i \in DOMAIN db.outbox:
                   /\ db.outbox[i].target = s /\ db.outbox[i].ev = e
                   /\ db.outbox[i].status \in {"delivered", "dead"}

DeliveriesSettle ==
  \A s \in Target, e \in Event:
    Queued(db, s, e) ~> Settled(s, e) \/ (conf.channel = "webhook" /\ configured = {})
=============================================================================
