------------------------------ MODULE IndexerStore ------------------------------
(* The indexer's durable store, indexer/src/store/: tables of transfers and of   *)
(* protocol events, cached balances, checkpoints and the outbox. Each operator   *)
(* is one method: it takes the contents of the store and returns the new ones.   *)
(* An event of the chain is its position in Chain, which is what the unique      *)
(* dedupe key of the tables identifies.                                          *)
EXTENDS Integers, Sequences, FiniteSets, FiniteSetsExt, Sums

CONSTANTS
  Chain,      \* the events of the filtered contracts, in chain order
  Token,      \* the token contracts followed
  Treasury,   \* the treasury's address
  Topics,     \* the topics of the event catalogue
  Target,     \* webhook subscriptions or notification destinations
  None        \* an unset checkpoint (null) or a row that is not there

VARIABLES
  db,   \* the contents of the store; every process that opens it shares them
  conf   \* the settings of this deployment, fixed

Event == DOMAIN Chain
LedgerOf(e) == Chain[e].ledger

ASSUME ChainAssumption ==
  /\ None \notin Int
  /\ Chain \in Seq([ledger: Nat \ {0}, contract: Token \cup {Treasury},
                    topic: STRING, from: STRING, to: STRING, amount: Nat])
  /\ \A e, f \in Event: e < f => LedgerOf(e) <= LedgerOf(f)

(* Which table an event belongs to, if any.                                      *)
ParseTokenTransferEvent(e) ==
  LET x == Chain[e]
  IN  IF /\ x.contract \in Token
         /\ x.topic = "transfer"
         /\ Treasury \in {x.from, x.to}
         /\ x.amount > 0
      THEN [token |-> x.contract,
            delta |-> IF x.to = Treasury THEN x.amount ELSE -x.amount]
      ELSE None

IsAccordEvent(e) == Chain[e].contract = Treasury /\ Chain[e].topic \in Topics
IsTransfer(e)    == ParseTokenTransferEvent(e) # None
Indexed          == {e \in Event: IsTransfer(e) \/ IsAccordEvent(e)}

(* The checkpoint a history command leaves under its own keys.                   *)
NoWalk == [from |-> None, to |-> None, cursor |-> 0, done |-> FALSE]

EmptyStore ==
  [backend |-> "sqlite",
   entries |-> {}, events |-> {},            \* rows [id, ev, balance] and [id, ev]
   issued  |-> [entries |-> 0, events |-> 0], \* the identity sequences of Postgres
   balances |-> [t \in Token |-> 0],
   next_ledger |-> None, event_cursor |-> 0, last_seen_ledger |-> None,
   walk |-> [c \in {"backfill", "reindex"} |-> NoWalk], rebuilding |-> FALSE,
   cursors |-> [s \in Target |-> None],
   outbox  |-> <<>>]                         \* deliveries, in the order of their ids

-----------------------------------------------------------------------------
(* Row ids: SQLite reuses the ids above the highest row, an identity column of   *)
(* Postgres never does.                                                          *)
HighestId(rows) == Max({r.id: r \in rows} \cup {0})

NextId(d, table) ==
  IF d.backend = "sqlite" THEN HighestId(d[table]) + 1 ELSE d.issued[table] + 1

Or(x, y)   == IF x = None THEN y ELSE x

Has(rows, e) == \E r \in rows: r.ev = e
Recorded(d, e) == Has(d.entries, e) \/ Has(d.events, e)

(* Canonical chain order, ORDER BY ledger ASC, id ASC.                           *)
UpTo(rows, r) == {q \in rows: \/ LedgerOf(q.ev) < LedgerOf(r.ev)
                              \/ LedgerOf(q.ev) = LedgerOf(r.ev) /\ q.id <= r.id}
OfToken(rows, t) == {r \in rows: ParseTokenTransferEvent(r.ev).token = t}
DeltaOf(r)       == ParseTokenTransferEvent(r.ev).delta
SumDeltas(rows)  == Total([r \in rows |-> IF DeltaOf(r) > 0 THEN DeltaOf(r) ELSE 0], rows)
                    - Total([r \in rows |-> IF DeltaOf(r) < 0 THEN -DeltaOf(r) ELSE 0], rows)

ReplayBalances(d) ==
  [d EXCEPT
     !.entries = {[r EXCEPT !.balance =
                     SumDeltas(UpTo(OfToken(d.entries, ParseTokenTransferEvent(r.ev).token), r))]:
                   r \in d.entries},
     !.balances = [t \in Token |-> SumDeltas(OfToken(d.entries, t))]]

(* SQLite: the balance is read first, then the row and the new balance are       *)
(* written in one transaction. A duplicate key rolls back and returns false.     *)
RecordTransfer(d, e, balanceBefore) ==
  LET x == ParseTokenTransferEvent(e)
      n == NextId(d, "entries")
  IN  IF Has(d.entries, e) THEN d
      ELSE [d EXCEPT
              !.entries = @ \cup {[id |-> n, ev |-> e, balance |-> balanceBefore + x.delta]},
              !.issued.entries = n,
              !.balances[x.token] = balanceBefore + x.delta]

(* Postgres: the duplicate check, the read of the balance and both writes are    *)
(* one transaction under the advisory lock that serialises writers.              *)
RecordTransferLocked(d, e) ==
  IF Has(d.entries, e) THEN d
  ELSE RecordTransfer(d, e, d.balances[ParseTokenTransferEvent(e).token])

\* Mutant of RecordAccordEvent: the unique index on the dedupe key is missing.
RecordAccordEventTwice(d, e) ==
  LET n == NextId(d, "events")
  IN  [d EXCEPT !.events = @ \cup {[id |-> n, ev |-> e]}, !.issued.events = n]

RecordAccordEvent(d, e) ==
  LET n == NextId(d, "events")
  IN  IF Has(d.events, e) THEN d
      ELSE [d EXCEPT !.events = @ \cup {[id |-> n, ev |-> e]}, !.issued.events = n]

\* Mutant of RewindToLedger: the balances are not folded again over what remains.
RewindWithoutReplay(d, l) ==
  [d EXCEPT !.entries = {r \in @: LedgerOf(r.ev) <= l},
             !.events  = {r \in @: LedgerOf(r.ev) <= l}]

RewindToLedger(d, l) ==
  ReplayBalances([d EXCEPT !.entries = {r \in @: LedgerOf(r.ev) <= l},
                            !.events  = {r \in @: LedgerOf(r.ev) <= l}])

(* The checkpoints of the live indexer are left to the caller; the outbox is     *)
(* kept, so that a rebuild does not send again what was delivered.               *)
ClearHistory(d) ==
  [d EXCEPT !.entries = {}, !.events = {},
             !.balances = [t \in Token |-> 0],
             !.cursors  = [s \in Target |-> None]]

-----------------------------------------------------------------------------
(* The outbox.                                                                   *)
Delivery(s, e) == [target |-> s, ev |-> e, status |-> "pending", attempts |-> 0, due |-> TRUE]
Queued(d, s, e) == \E i \in DOMAIN d.outbox: d.outbox[i].target = s /\ d.outbox[i].ev = e

LatestAccordEventId(d) == HighestId(d.events)

(* The first `limit` rows past the cursor, in id order.                          *)
AccordEventsAfter(d, cursor, limit) ==
  LET after == {r \in d.events: r.id > cursor}
  IN  {r \in after: Cardinality({q \in after: q.id <= r.id}) <= limit}

InIdOrder(rows) ==
  [i \in 1..Cardinality(rows) |->
     CHOOSE r \in rows: Cardinality({q \in rows: q.id <= r.id}) = i]

(* One transaction: a row per event unless (target, event) is already there,     *)
(* and the cursor.                                                               *)
EnqueueDeliveries(d, s, rows, cursor) ==
  LET fresh == InIdOrder({r \in rows: ~Queued(d, s, r.ev)})
  IN  [d EXCEPT !.outbox = @ \o [i \in DOMAIN fresh |-> Delivery(s, fresh[i].ev)],
                 !.cursors[s] = cursor]

(* The first `limit` pending deliveries whose time has come, in id order; they   *)
(* are read, not marked.                                                         *)
ClaimDueDeliveries(d, limit) ==
  LET due == {i \in DOMAIN d.outbox: d.outbox[i].status = "pending" /\ d.outbox[i].due}
  IN  {i \in due: Cardinality({j \in due: j <= i}) <= limit}

CompleteDelivery(d, i, outcome, attempts) ==
  [d EXCEPT !.outbox[i].status = IF outcome = "retry" THEN "pending" ELSE outcome,
             !.outbox[i].attempts = attempts,
             !.outbox[i].due = outcome # "retry"]

RequeueDeadDeliveries(d, s) ==
  [d EXCEPT !.outbox =
     [i \in DOMAIN @ |-> IF @[i].status = "dead" /\ @[i].target = s
                         THEN [@[i] EXCEPT !.status = "pending", !.attempts = 0, !.due = TRUE]
                         ELSE @[i]]]

=============================================================================
