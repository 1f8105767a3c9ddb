---------------------------- MODULE StoreBackends ----------------------------
(* The store of the indexer exists twice, indexer/src/store/sqlite.js and     *)
(* postgres.js.  Its callers treat both alike, so every call is made here on  *)
(* a store of each kind and the answers are compared.  Further areas are the  *)
(* schema while several processes start, the reconciliation with the chain    *)
(* (index.js) and replays into a store of their own (replay.js).              *)
EXTENDS Integers, Sequences, FiniteSets, FiniteSetsExt

CONSTANTS
  Areas,      \* what a behaviour exercises
  Transfers,  \* what callers record: [ev, key, token, delta, ledger]
  Notices,    \* protocol events: [ev, key, topic, ledger]
  Lookups,    \* filters of the API: [token, topic, from, to, limit, offset]
  Coins,      \* the tokens, in the order of the configuration
  Moves,      \* transfers in chain order, for the reconciliation and the replays
  Puts,       \* destinations that callers put: [name, topics, on]
  Windows,    \* arguments of the replay command
  Images,     \* the checksums of the migrations that each starting process carries
  MaxCalls,   \* calls of a behaviour, by area
  Null         \* null: an unset value

ASSUME BackendsAssumption ==
  /\ \A i \in DOMAIN Moves : Moves[i].delta # 0
  /\ Null \notin DOMAIN Images
  /\ \A o \in DOMAIN Images : Images[o] \in Seq(STRING)

VARIABLES
  area,     \* fixed
  stores,   \* the contents of each store
  replies,  \* what each answered to the last call
  uses,    \* the calls made; also the clock
  apart,    \* the known ways in which the stores have come apart
  closed,   \* the newest final ledger
  check,    \* the reconciliation that is running, or Null
  replayed, \* the store that replays keep, the ledgers in it, what the last one printed
  schema,   \* what the database holds of the schema
  openers   \* where each starting process stands

backendVars == <<area, stores, replies, uses, apart, closed, check, replayed, schema, openers>>

Backends == {"sqlite", "postgres"}
Tables   == {"entries", "events", "results", "hooks", "letters"}
HookKey   == "webhook_cursor"
LetterKey == "notification_cursor"

EmptyDatabase ==
  [rows     |-> [t \in Tables |-> {}],  \* each row has an id
   issued   |-> [t \in Tables |-> 0],   \* the identity sequences of Postgres
   balances |-> << >>,                  \* token_balances
   ends     |-> {},                     \* notification_destinations
   state    |-> << >>]                  \* indexer_state

Get(f, k, default) == IF k \in DOMAIN f THEN f[k] ELSE default
With(f, k, v)       == [x \in DOMAIN f \cup {k} |-> IF x = k THEN v ELSE f[x]]
Reply(d, r)        == [db |-> d, reply |-> r]
Flag(b)    == <<"flag", IF b THEN 1 ELSE 0>>
Counted(n) == <<"count", n>>
Thrown     == <<"thrown", 0>>
Nothing    == <<"undefined", 0>>

-----------------------------------------------------------------------------
(* What SQL does: an INTEGER PRIMARY KEY is the id above the highest in the   *)
(* table; an identity column never repeats one, and a conflict uses one up.   *)
HighestRow(rows) == Max({r.id : r \in rows} \cup {0})

LiteInsert(d, table, row) ==
  [d EXCEPT !.rows[table] = @ \cup {[row EXCEPT !.id = HighestRow(d.rows[table]) + 1]}]

PgInsert(d, table, row) ==
  [d EXCEPT !.rows[table] = @ \cup {[row EXCEPT !.id = d.issued[table] + 1]},
            !.issued[table] = @ + 1]
PgConflict(d, table) == [d EXCEPT !.issued[table] = @ + 1]

Ranked(rows, Precedes(_, _)) ==
  [i \in 1..Cardinality(rows) |->
     CHOOSE r \in rows : Cardinality({q \in rows : Precedes(q, r)}) = i - 1]
ById(q, r)    == q.id < r.id
ByChain(q, r) == q.ledger < r.ledger \/ (q.ledger = r.ledger /\ q.id < r.id)
Slice(s, q) ==
  SubSeq(s, q.offset + 1, IF Len(s) < q.offset + q.limit THEN Len(s) ELSE q.offset + q.limit)

\* A row is there already under its event id or its dedupe key; NULLs never collide.
Same(r, x) == r.ev = x.ev \/ (x.key # Null /\ r.key = x.key)
EntryOf(t, balance) ==
  [id |-> 0, ev |-> t.ev, key |-> t.key, token |-> t.token, delta |-> t.delta,
   ledger |-> t.ledger, balance |-> balance]
NoticeOf(n) == [id |-> 0, ev |-> n.ev, key |-> n.key, topic |-> n.topic, ledger |-> n.ledger]
DeliveryOf(to, ev, now) ==
  [id |-> 0, to |-> to, ev |-> ev, status |-> "pending", attempts |-> 0, next |-> now,
   error |-> FALSE, delivered |-> Null]

\* The cursors of the workers go with the history; other checkpoints stay.
Kept(state) == [k \in {k \in DOMAIN state : k[1] \notin {HookKey, LetterKey}} |-> state[k]]

-----------------------------------------------------------------------------
(* The ledger of the treasury, on SQLite.                                     *)
LiteRecordTransfer(d, t) ==
  LET after == Get(d.balances, t.token, 0) + t.delta IN
  IF t.delta = 0 THEN Reply(d, Thrown)
  ELSE IF \E r \in d.rows.entries : Same(r, t) THEN Reply(d, Flag(FALSE))
  ELSE Reply([LiteInsert(d, "entries", EntryOf(t, after))
                EXCEPT !.balances = With(@, t.token, after)], Flag(TRUE))

LiteBalance(d, token) == Get(d.balances, token, 0)

\* One row after the other: a loop that keeps a running balance per token.
LiteReplayBalances(d) ==
  LET s == Ranked(d.rows.entries, ByChain)
      running[i \in 0..Len(s)] ==
        IF i = 0 THEN << >>
        ELSE With(running[i - 1], s[i].token, Get(running[i - 1], s[i].token, 0) + s[i].delta)
  IN  Reply([d EXCEPT !.rows.entries =
                        {[s[i] EXCEPT !.balance = running[i][s[i].token]] : i \in DOMAIN s},
                      !.balances = running[Len(s)]],
            Counted(Cardinality(DOMAIN running[Len(s)])))

LiteEntries(d, q) ==
  Slice(Ranked({r \in d.rows.entries : /\ q.token = Null \/ r.token = q.token
                                       /\ q.from = Null \/ r.ledger >= q.from
                                       /\ q.to = Null \/ r.ledger <= q.to}, ByChain), q)

LiteRecordAccordEvent(d, n) ==
  IF \E r \in d.rows.events : Same(r, n) THEN Reply(d, Flag(FALSE))
  ELSE Reply(LiteInsert(d, "events", NoticeOf(n)), Flag(TRUE))

LiteAccordEvents(d, q) ==
  Slice(Ranked({r \in d.rows.events : /\ q.topic = Null \/ r.topic = q.topic
                                      /\ q.from = Null \/ r.ledger >= q.from
                                      /\ q.to = Null \/ r.ledger <= q.to}, ByChain), q)

LiteRewind(d, l) ==
  LET cut(table) == {r \in d.rows[table] : r.ledger <= l}
      kept == [d EXCEPT !.rows.entries = cut("entries"), !.rows.events = cut("events")]
  IN  Reply(LiteReplayBalances(kept).db,
            <<"rewound", Cardinality(d.rows.entries \ cut("entries")),
              Cardinality(d.rows.events \ cut("events"))>>)

LiteClearHistory(d) ==
  Reply([d EXCEPT !.rows.entries = {}, !.rows.events = {}, !.rows.results = {},
                  !.balances = << >>,
                  !.state = Kept(@)],
        <<"cleared", Cardinality(d.rows.entries), Cardinality(d.rows.events),
          Cardinality(d.rows.results)>>)

LiteSetState(d, k, v) == [d EXCEPT !.state = With(@, k, v)]
LiteGetState(d, k)    == Get(d.state, k, Null)

LiteRecordReconciliation(d, row) == LiteInsert(d, "results", row)

\* The row with the highest id of its token.
LiteLatestReconciliations(d) ==
  {r \in d.rows.results : r.id = HighestRow({q \in d.rows.results : q.token = r.token})}

-----------------------------------------------------------------------------
(* The same on Postgres, where writers of balances hold an advisory lock.     *)
PgRecordTransfer(d, t) ==
  IF t.delta = 0 THEN Reply(d, Thrown)
  ELSE IF \E r \in d.rows.entries : Same(r, t) THEN Reply(d, Flag(FALSE))
  ELSE LET after == Get(d.balances, t.token, 0) + t.delta IN
       Reply([PgInsert(d, "entries", EntryOf(t, after))
                EXCEPT !.balances = With(@, t.token, after)], Flag(TRUE))

PgBalance(d, token) == Get(d.balances, token, 0)

DeltaOfRow(r) == r.delta
\* Mutant of PgReplayBalances: rows are folded in the order in which they were stored.
PgReplayBalancesById(d) ==
  LET all == d.rows.entries
      upTo(r) == {q \in all : q.token = r.token /\ q.id <= r.id}
      tokens == {r.token : r \in all}
  IN  Reply([d EXCEPT !.rows.entries =
                        {[r EXCEPT !.balance = MapThenSumSet(DeltaOfRow, upTo(r))] : r \in all},
                      !.balances = [t \in tokens |->
                        MapThenSumSet(DeltaOfRow, {r \in all : r.token = t})]],
            Counted(Cardinality(tokens)))

PgReplayBalances(d) ==
  LET all == d.rows.entries
      over(r) == {q \in all : q.token = r.token /\ ~ByChain(r, q)}
      tokens == {r.token : r \in all}
  IN  Reply([d EXCEPT !.rows.entries =
                        {[r EXCEPT !.balance = MapThenSumSet(DeltaOfRow, over(r))] : r \in all},
                      !.balances = [t \in tokens |->
                        MapThenSumSet(DeltaOfRow, {r \in all : r.token = t})]],
            Counted(Cardinality(tokens)))

\* An absent value adds no clause.
FilterClause(rows, columns) ==
  LET holds(r, c) == CASE c[3] = Null  -> TRUE
                       [] c[2] = "="  -> r[c[1]] = c[3]
                       [] c[2] = ">=" -> r[c[1]] >= c[3]
                       [] c[2] = "<=" -> r[c[1]] <= c[3]
  IN  {r \in rows : \A i \in DOMAIN columns : holds(r, columns[i])}

PgEntries(d, q) ==
  Slice(Ranked(FilterClause(d.rows.entries,
    << <<"token", "=", q.token>>, <<"ledger", ">=", q.from>>, <<"ledger", "<=", q.to>> >>), ByChain), q)

PgRecordAccordEvent(d, n) ==
  IF \E r \in d.rows.events : Same(r, n) THEN Reply(PgConflict(d, "events"), Flag(FALSE))
  ELSE Reply(PgInsert(d, "events", NoticeOf(n)), Flag(TRUE))

PgAccordEvents(d, q) ==
  Slice(Ranked(FilterClause(d.rows.events,
    << <<"topic", "=", q.topic>>, <<"ledger", ">=", q.from>>, <<"ledger", "<=", q.to>> >>), ByChain), q)

PgRewind(d, l) ==
  LET gone(table) == {r \in d.rows[table] : r.ledger > l} IN
  Reply(PgReplayBalances([d EXCEPT !.rows.entries = @ \ gone("entries"),
                                   !.rows.events = @ \ gone("events")]).db,
        <<"rewound", Cardinality(gone("entries")), Cardinality(gone("events"))>>)

PgClearHistory(d) ==
  Reply([d EXCEPT !.rows = [t \in Tables |-> IF t \in {"entries", "events", "results"} THEN {} ELSE @[t]],
                  !.balances = << >>,
                  !.state = Kept(@)],
        <<"cleared", Cardinality(d.rows.entries), Cardinality(d.rows.events),
          Cardinality(d.rows.results)>>)

PgSetState(d, k, v) == [d EXCEPT !.state = With(@, k, v)]
PgGetState(d, k)    == Get(d.state, k, Null)

PgRecordReconciliation(d, row) == PgInsert(d, "results", row)

\* DISTINCT ON (token) keeps the first row of each token in descending id order.
PgLatestReconciliations(d) ==
  {CHOOSE r \in d.rows.results : r.token = t /\ \A q \in d.rows.results : q.token = t => q.id <= r.id :
     t \in {r.token : r \in d.rows.results}}

-----------------------------------------------------------------------------
(* The outboxes, a table of deliveries each.                                  *)
Outcomes == {"pending", "delivered", "dead"}
KeyOf(box, to) == <<IF box = "hooks" THEN HookKey ELSE LetterKey, to>>
Taken(d, box, to, ev) == \E r \in d.rows[box] : r.to = to /\ r.ev = ev
Deliveries(d, box, evs, Insert(_, _, _), Conflict(_), to) ==
  LET after[i \in 0..Len(evs)] ==
        IF i = 0 THEN d
        ELSE IF Taken(after[i - 1], box, to, evs[i]) THEN Conflict(after[i - 1])
        ELSE Insert(after[i - 1], box, DeliveryOf(to, evs[i], uses))
  IN  after[Len(evs)]

LiteLatestEventId(d)     == HighestRow(d.rows.events)
LiteEventsAfter(d, c, n) ==
  Slice(Ranked({r \in d.rows.events : r.id > c}, ById), [offset |-> 0, limit |-> n])

LiteEnqueue(d, box, to, evs, cursor) ==
  LET unchanged(e) == e
      all == Deliveries(d, box, evs, LiteInsert, unchanged, to)
  IN  Reply(LiteSetState(all, KeyOf(box, to), cursor),
            Counted(Cardinality(all.rows[box]) - Cardinality(d.rows[box])))

LiteClaimDue(d, box, n) ==
  Slice(Ranked({r \in d.rows[box] : r.status = "pending" /\ r.next <= uses}, ById),
        [offset |-> 0, limit |-> n])

Concluded(r, outcome) ==
  [r EXCEPT !.status = IF outcome = "retry" THEN "pending" ELSE outcome,
            !.attempts = @ + 1, !.error = outcome # "delivered",
            !.next = IF outcome = "retry" THEN uses + 1 ELSE uses,
            !.delivered = IF outcome = "delivered" THEN uses ELSE @]
LiteComplete(d, box, id, outcome) ==
  [d EXCEPT !.rows[box] = {IF r.id = id THEN Concluded(r, outcome) ELSE r : r \in @}]

LiteCount(d, box) == [s \in Outcomes |-> Cardinality({r \in d.rows[box] : r.status = s})]

LiteList(d, box, st, to, q) ==
  Slice(Ranked({r \in d.rows[box] : (st = Null \/ r.status = st) /\ (to = Null \/ r.to = to)}, ById), q)

Revived(r) == [r EXCEPT !.status = "pending", !.attempts = 0, !.next = uses]
\* Without a name, or with an empty one, every dead delivery.
LiteRequeue(d, box, to) ==
  LET these == {r \in d.rows[box] : r.status = "dead" /\ (to \in {Null, ""} \/ r.to = to)} IN
  Reply([d EXCEPT !.rows[box] = (@ \ these) \cup {Revived(r) : r \in these}], Counted(Cardinality(these)))

LiteEnqueueNotifications(d, to, evs, cursor) == LiteEnqueue(d, "letters", to, evs, cursor)
LiteClaimDueNotifications(d, n)              == LiteClaimDue(d, "letters", n)
LiteCompleteNotification(d, id, outcome)     == LiteComplete(d, "letters", id, outcome)
LiteCountNotifications(d)                    == LiteCount(d, "letters")
LiteListNotifications(d, st, to, q)          == LiteList(d, "letters", st, to, q)
LiteRequeueNotifications(d, to)              == LiteRequeue(d, "letters", to)

PgLatestEventId(d)     == HighestRow(d.rows.events)
PgEventsAfter(d, c, n) ==
  Slice(Ranked({r \in d.rows.events : r.id > c}, ById), [offset |-> 0, limit |-> n])

PgEnqueue(d, box, to, evs, cursor) ==
  LET conflict(e) == PgConflict(e, box)
      all == Deliveries(d, box, evs, PgInsert, conflict, to)
  IN  Reply(PgSetState(all, KeyOf(box, to), cursor),
            Counted(Cardinality(all.rows[box] \ d.rows[box])))

PgClaimDue(d, box, n) ==
  Slice(Ranked({r \in d.rows[box] : r.status = "pending" /\ r.next <= uses}, ById),
        [offset |-> 0, limit |-> n])

PgComplete(d, box, id, outcome) ==
  [d EXCEPT !.rows[box] = {IF r.id = id THEN Concluded(r, outcome) ELSE r : r \in @}]

PgCount(d, box) == [s \in Outcomes |-> Cardinality({r \in d.rows[box] : r.status = s})]

PgList(d, box, st, to, q) ==
  Slice(Ranked(FilterClause(d.rows[box], << <<"status", "=", st>>, <<"to", "=", to>> >>), ById), q)

\* Only null means all: an empty name is the name of nobody.
PgRequeue(d, box, to) ==
  LET these == {r \in d.rows[box] : r.status = "dead" /\ (to = Null \/ r.to = to)} IN
  Reply([d EXCEPT !.rows[box] = (@ \ these) \cup {Revived(r) : r \in these}], Counted(Cardinality(these)))

PgEnqueueNotifications(d, to, evs, cursor) == PgEnqueue(d, "letters", to, evs, cursor)
PgClaimDueNotifications(d, n)              == PgClaimDue(d, "letters", n)
PgCompleteNotification(d, id, outcome)     == PgComplete(d, "letters", id, outcome)
PgCountNotifications(d)                    == PgCount(d, "letters")
PgListNotifications(d, st, to, q)          == PgList(d, "letters", st, to, q)
PgRequeueNotifications(d, to)              == PgRequeue(d, "letters", to)

(* The destinations: an upsert keeps the time of creation.                    *)
Upserted(d, e, topics) ==
  LET old == {r \in d.ends : r.name = e.name}
      new == [name |-> e.name, topics |-> topics, on |-> e.on, updated |-> uses,
              created |-> IF old = {} THEN uses ELSE (CHOOSE r \in old : TRUE).created]
  IN  [d EXCEPT !.ends = (@ \ old) \cup {new}]
LiteUpsertDestination(d, e) == Reply(Upserted(d, e, e.topics), Nothing)
LiteDestinations(d)         == d.ends
LiteDestination(d, n)       == {r \in d.ends : r.name = n}
LiteDeleteDestination(d, n) ==
  Reply([d EXCEPT !.ends = @ \ LiteDestination(d, n)], Flag(LiteDestination(d, n) # {}))
PgUpsertDestination(d, e)   == Reply(Upserted(d, e, e.topics), Nothing)
PgDestinations(d)           == d.ends
PgDestination(d, n)         == {r \in d.ends : r.name = n}
PgDeleteDestination(d, n)   ==
  Reply([d EXCEPT !.ends = @ \ PgDestination(d, n)], Flag(PgDestination(d, n) # {}))

-----------------------------------------------------------------------------
(* The callers, on a store of each kind.                                      *)
Lite == stores["sqlite"]
Pg   == stores["postgres"]

Call(l, p) ==
  /\ uses < MaxCalls[area]
  /\ uses' = uses + 1
  /\ stores'  = [sqlite |-> l.db, postgres |-> p.db]
  /\ replies' = [sqlite |-> l.reply, postgres |-> p.reply]
  /\ UNCHANGED <<area, closed, check, replayed, schema, openers>>

RecordOne(t) == Call(LiteRecordTransfer(Lite, t), PgRecordTransfer(Pg, t)) /\ UNCHANGED apart
Refold       == Call(LiteReplayBalances(Lite), PgReplayBalances(Pg)) /\ UNCHANGED apart
Rewind(l)    == Call(LiteRewind(Lite, l), PgRewind(Pg, l)) /\ UNCHANGED apart
Clear        == Call(LiteClearHistory(Lite), PgClearHistory(Pg)) /\ UNCHANGED apart

\* An id that a worker has already read past is given to another event.
RecordNotice(n) ==
  LET l == LiteRecordAccordEvent(Lite, n)
      past(k) == LiteGetState(Lite, k) >= HighestRow(l.db.rows.events)
  IN  /\ Call(l, PgRecordAccordEvent(Pg, n))
      /\ apart' = IF l.reply = Flag(TRUE) /\ \E k \in DOMAIN Lite.state : past(k)
                  THEN apart \cup {"reused"} ELSE apart

\* A worker queues what follows its cursor, which starts behind the newest event.
EventIds(rows)    == [i \in DOMAIN rows |-> rows[i].ev]
LastId(rows, c)     == IF rows = << >> THEN c ELSE rows[Len(rows)].id
WorkerTurn(box, to) ==
  LET k  == KeyOf(box, to)
      lc == IF LiteGetState(Lite, k) = Null THEN LiteLatestEventId(Lite) ELSE LiteGetState(Lite, k)
      pc == IF PgGetState(Pg, k) = Null THEN PgLatestEventId(Pg) ELSE PgGetState(Pg, k)
      ls == LiteEventsAfter(Lite, lc, 2)
      ps == PgEventsAfter(Pg, pc, 2)
  IN  /\ IF box = "hooks"
         THEN Call(LiteEnqueue(Lite, box, to, EventIds(ls), LastId(ls, lc)),
                   PgEnqueue(Pg, box, to, EventIds(ps), LastId(ps, pc)))
         ELSE Call(LiteEnqueueNotifications(Lite, to, EventIds(ls), LastId(ls, lc)),
                   PgEnqueueNotifications(Pg, to, EventIds(ps), LastId(ps, pc)))
      /\ UNCHANGED apart

\* A claimed delivery was sent and its outcome is stored.
Numbered(rows, r) == {q \in rows : q.to = r.to /\ q.ev = r.ev}
StoreOutcome(box, outcome) ==
  LET letters == box = "letters"
      due == IF letters THEN LiteClaimDueNotifications(Lite, 2) ELSE LiteClaimDue(Lite, box, 2)
  IN  /\ UNCHANGED apart
      /\ \E i \in DOMAIN due : \E r \in Numbered(Pg.rows[box], due[i]) :
           IF letters
           THEN Call(Reply(LiteCompleteNotification(Lite, due[i].id, outcome), Nothing),
                     Reply(PgCompleteNotification(Pg, r.id, outcome), Nothing))
           ELSE Call(Reply(LiteComplete(Lite, box, due[i].id, outcome), Nothing),
                     Reply(PgComplete(Pg, box, r.id, outcome), Nothing))

Requeue(box, to) ==
  /\ IF box = "hooks" THEN Call(LiteRequeue(Lite, box, to), PgRequeue(Pg, box, to))
     ELSE Call(LiteRequeueNotifications(Lite, to), PgRequeueNotifications(Pg, to))
  /\ apart' = IF to = "" THEN apart \cup {"blank"} ELSE apart

PutEnd(e)    == Call(LiteUpsertDestination(Lite, e), PgUpsertDestination(Pg, e)) /\ UNCHANGED apart
DeleteEnd(n) == Call(LiteDeleteDestination(Lite, n), PgDeleteDestination(Pg, n)) /\ UNCHANGED apart

LedgerCalls ==
  /\ area = "ledger"
  /\ (\E t \in Transfers : RecordOne(t)) \/ Refold \/ (\E l \in 0..1 : Rewind(l)) \/ Clear
EventCalls ==
  /\ area = "events"
  /\ \/ \E n \in Notices : RecordNotice(n)
     \/ \E l \in 0..1 : Rewind(l)
     \/ Clear
     \/ WorkerTurn("hooks", "s1")
OutboxCalls(box, to) ==
  \/ \E n \in Notices : RecordNotice(n)
  \/ WorkerTurn(box, to)
  \/ \E outcome \in {"delivered", "retry", "dead"} : StoreOutcome(box, outcome)
  \/ \E name \in {Null, "", to} : Requeue(box, name)

-----------------------------------------------------------------------------
(* The reconciliation: what the store implies is read before the chain is.    *)
MovesAt(l)     == {i \in DOMAIN Moves : Moves[i].ledger = l}
DeltaAt(i) == Moves[i].delta
OnChain(coin, l) == 
  MapThenSumSet(DeltaAt, {i \in DOMAIN Moves : Moves[i].token = coin /\ Moves[i].ledger <= l})
MoveOf(i)  == [ev |-> i, key |-> i, token |-> Moves[i].token, delta |-> Moves[i].delta,
               ledger |-> Moves[i].ledger]
\* A sequence of transfers is recorded one by one.
LiteRecordAll(d, is) ==
  LET after[n \in 0..Len(is)] ==
        IF n = 0 THEN d ELSE LiteRecordTransfer(after[n - 1], MoveOf(is[n])).db
  IN  after[Len(is)]
PgRecordAll(d, is) ==
  LET after[n \in 0..Len(is)] ==
        IF n = 0 THEN d ELSE PgRecordTransfer(after[n - 1], MoveOf(is[n])).db
  IN  after[Len(is)]
Ascending(is) == Ranked(is, <)
NextLedger == <<"next_ledger", Null>>
IndexedTo(d) == Get(d.state, NextLedger, 1) - 1
LedgersToClose == Max({Moves[i].ledger : i \in DOMAIN Moves})

LedgerCloses ==
  /\ closed < LedgersToClose
  /\ closed' = closed + 1
  /\ UNCHANGED <<area, stores, replies, uses, apart, check, replayed, schema, openers>>

IndexLedger ==
  LET n == IndexedTo(Lite) + 1 IN
  /\ n <= closed
  /\ Call(Reply(LiteSetState(LiteRecordAll(Lite, Ascending(MovesAt(n))), NextLedger, n + 1), Nothing),
          Reply(PgSetState(PgRecordAll(Pg, Ascending(MovesAt(n))), NextLedger, n + 1), Nothing))
  /\ UNCHANGED apart

RollBack ==
  LET l == IndexedTo(Lite) - 1 IN
  /\ l >= 0
  /\ Call(Reply(LiteSetState(LiteRewind(Lite, l).db, NextLedger, l + 1), Nothing),
          Reply(PgSetState(PgRewind(Pg, l).db, NextLedger, l + 1), Nothing))
  /\ UNCHANGED apart

\* One at a time; the tokens come in turn.
StartReconciling ==
  /\ check = Null /\ uses < MaxCalls[area]
  /\ check' = [n |-> 1, implied |-> Null]
  /\ UNCHANGED <<area, stores, replies, uses, apart, closed, replayed, schema, openers>>

ReadImplied ==
  /\ check # Null /\ check.implied = Null
  /\ check' = [check EXCEPT !.implied =
                 [indexed |-> IndexedTo(Lite), sqlite |-> LiteBalance(Lite, Coins[check.n]),
                  postgres |-> PgBalance(Pg, Coins[check.n])]]
  /\ UNCHANGED <<area, stores, replies, uses, apart, closed, replayed, schema, openers>>

\* The last two fields of a result are only kept for the property.
ResultOf(coin, actual, implied) ==
  [id |-> 0, token |-> coin, implied |-> implied, drift |-> actual - implied,
   indexed |-> check.implied.indexed, closed |-> closed]
ReadActual ==
  /\ check # Null /\ check.implied # Null
  /\ LET coin == Coins[check.n]
         result(implied) == ResultOf(coin, OnChain(coin, closed), implied)
     IN  stores' = [sqlite   |-> LiteRecordReconciliation(Lite, result(check.implied.sqlite)),
                    postgres |-> PgRecordReconciliation(Pg, result(check.implied.postgres))]
  /\ check' = IF check.n = Len(Coins) THEN Null ELSE [n |-> check.n + 1, implied |-> Null]
  /\ uses' = uses + 1
  /\ UNCHANGED <<area, replies, apart, closed, replayed, schema, openers>>

\* The chain does not answer: what was recorded stays, the rest is left out.
ReconcilingFails ==
  /\ check # Null
  /\ check' = Null
  /\ UNCHANGED <<area, stores, replies, uses, apart, closed, replayed, schema, openers>>

ReconcileCalls ==
  /\ area = "reconcile"
  /\ \/ LedgerCloses \/ IndexLedger \/ RollBack
     \/ StartReconciling \/ ReadImplied \/ ReadActual \/ ReconcilingFails

-----------------------------------------------------------------------------
(* Replays: a range of ledgers into a store of their own, which is in memory  *)
(* unless the command names a file to keep.                                   *)
Greater(a, b)  == IF a > b THEN a ELSE b
Lesser(a, b) == IF a < b THEN a ELSE b

ResolveReplayWindow(w) ==
  LET relative == {w.before, w.after} \ {Null}
      n == IF w.before = Null THEN w.after ELSE w.before
  IN  CASE w.before # Null /\ w.after # Null -> Null
        [] relative # {} /\ (w.from # Null \/ w.to # Null) -> Null
        [] relative # {} /\ (n < 1 \/ w.checkpoint = Null) -> Null
        [] w.before # Null -> [from |-> Greater(1, w.checkpoint - n), to |-> w.checkpoint - 1]
        [] w.after # Null  -> [from |-> w.checkpoint, to |-> w.checkpoint + n - 1]
        [] relative = {} /\ (w.from = Null \/ w.to = Null) -> Null
        [] OTHER -> IF w.to < w.from THEN Null ELSE [from |-> w.from, to |-> w.to]

\* The end is clamped to the newest final ledger.
ResolveHistoryRange(r) == [r EXCEPT !.to = Lesser(@, closed)]
RangeOf(r) == Ascending({i \in DOMAIN Moves : Moves[i].ledger \in r.from..r.to})

OpenReplayStore(path) == IF path = "kept" THEN replayed.kept ELSE EmptyDatabase
ReplayRange(d, r) ==
  LET folded == LiteReplayBalances(LiteRecordAll(d, RangeOf(r))).db IN
  Reply(folded, [c \in {Coins[i] : i \in DOMAIN Coins} |-> LiteBalance(folded, c)])

\* The live database is refused as the file to keep.
Replay(w) ==
  LET asked == ResolveReplayWindow(w)
      r   == ResolveHistoryRange(asked)
      run == ReplayRange(OpenReplayStore(w.path), r)
  IN  /\ uses < MaxCalls[area]
      /\ uses' = uses + 1
      /\ asked # Null /\ w.path # "live" /\ r.from <= r.to
      /\ replayed' =
           [replayed EXCEPT !.printed = [path |-> w.path, range |-> r, balances |-> run.reply],
                            !.kept    = IF w.path = "kept" THEN run.db ELSE @,
                            !.ledgers = IF w.path = "kept" THEN @ \cup r.from..r.to ELSE @]
      /\ UNCHANGED <<area, stores, replies, apart, closed, check, schema, openers>>

\* The process dies on the way: the balances are not folded again.
ReplayDies(w) ==
  LET asked == ResolveReplayWindow(w)
      is    == RangeOf(ResolveHistoryRange(asked))
  IN  /\ uses < MaxCalls[area] /\ w.path = "kept" /\ asked # Null
      /\ uses' = uses + 1
      /\ \E n \in 0..Len(is) :
           replayed' = [replayed EXCEPT !.kept = LiteRecordAll(@, SubSeq(is, 1, n)), !.printed = Null]
      /\ UNCHANGED <<area, stores, replies, apart, closed, check, schema, openers>>

ReplayCalls ==
  /\ area = "replay"
  /\ LedgerCloses \/ \E w \in Windows : Replay(w) \/ ReplayDies(w)

-----------------------------------------------------------------------------
(* The schema.  Postgres: migrations in order, each in a transaction that     *)
(* also records it, under an advisory lock that dies with the connection.     *)
Stand(o, at, next, known) ==
  /\ openers' = [openers EXCEPT ![o] = [at |-> at, next |-> next, known |-> known]]
  /\ UNCHANGED <<area, stores, replies, apart, closed, check, replayed>>
Unlock(o) == schema' = [schema EXCEPT !.lock = IF @ = o THEN Null ELSE @]
Image(o)  == Images[o]

TakeMigrationLock(o) ==
  /\ openers[o].at = "down" /\ schema.lock = Null
  /\ schema' = [schema EXCEPT !.lock = o]
  /\ Stand(o, "locked", 1, << >>) /\ UNCHANGED uses

ReadApplied(o) ==
  /\ openers[o].at = "locked"
  /\ Stand(o, "running", 1, schema.applied) /\ UNCHANGED <<schema, uses>>

\* A migration that was edited after it was applied is refused.
Migrate(o) ==
  LET n == openers[o].next
      known == openers[o].known
  IN  /\ openers[o].at = "running" /\ n <= Len(Image(o)) /\ UNCHANGED uses
      /\ IF n > Len(known) THEN Stand(o, "begun", n, known) /\ UNCHANGED schema
         ELSE IF known[n] = Image(o)[n] THEN Stand(o, "running", n + 1, known) /\ UNCHANGED schema
         ELSE Stand(o, "refused", n, known) /\ Unlock(o)

CommitMigration(o) ==
  LET n == openers[o].next IN
  /\ openers[o].at = "begun"
  /\ schema' = [schema EXCEPT !.applied = Append(@, Image(o)[n]), !.ran = Append(@, n)]
  /\ Stand(o, "running", n + 1, openers[o].known) /\ UNCHANGED uses

Migrated(o) ==
  /\ openers[o].at = "running" /\ openers[o].next > Len(Image(o))
  /\ Unlock(o) /\ Stand(o, "open", 1, << >>) /\ UNCHANGED uses

\* A statement fails, or the process dies: what was not committed is undone.
OpenerDies(o) ==
  /\ openers[o].at \notin {"down", "refused"} /\ uses < MaxCalls[area]
  /\ uses' = uses + 1
  /\ Unlock(o) /\ Stand(o, "down", 1, << >>)

(* SQLite: tables, then each later column and its index, without a            *)
(* transaction around them; a column that is there by now is an error.        *)
Columns == 1..3
CreateTables(o) ==
  /\ openers[o].at = "down"
  /\ schema' = [schema EXCEPT !.columns = IF schema.tables THEN @ ELSE {1}, !.tables = TRUE]
  /\ Stand(o, "looking", 1, << >>) /\ UNCHANGED uses

LookForColumn(o) ==
  LET n == openers[o].next IN
  /\ openers[o].at = "looking" /\ n \in Columns
  /\ Stand(o, IF n \in schema.columns THEN "indexing" ELSE "adding", n, << >>)
  /\ UNCHANGED <<schema, uses>>

AddColumn(o) ==
  LET n == openers[o].next IN
  /\ openers[o].at = "adding"
  /\ IF n \in schema.columns THEN Stand(o, "failed", n, << >>) /\ UNCHANGED schema
     ELSE schema' = [schema EXCEPT !.columns = @ \cup {n}] /\ Stand(o, "indexing", n, << >>)
  /\ UNCHANGED uses

AddIndex(o) ==
  LET n == openers[o].next IN
  /\ openers[o].at = "indexing"
  /\ schema' = [schema EXCEPT !.indexes = IF n > 1 THEN @ \cup {n} ELSE @]
  /\ Stand(o, IF n = 3 THEN "open" ELSE "looking", n + 1, << >>) /\ UNCHANGED uses

SchemaCalls ==
  \E o \in DOMAIN Images :
    \/ /\ area = "migrations"
       /\ \/ TakeMigrationLock(o) \/ ReadApplied(o) \/ Migrate(o) \/ CommitMigration(o)
          \/ Migrated(o) \/ OpenerDies(o)
    \/ /\ area = "columns"
       /\ CreateTables(o) \/ LookForColumn(o) \/ AddColumn(o) \/ AddIndex(o) \/ OpenerDies(o)

-----------------------------------------------------------------------------
BackendsInit ==
  /\ area \in Areas
  /\ stores = [b \in Backends |-> EmptyDatabase]
  /\ replies = [b \in Backends |-> Nothing]
  /\ uses = 0 /\ apart = {}
  /\ closed = 0 /\ check = Null
  /\ replayed = [kept |-> EmptyDatabase, ledgers |-> {}, printed |-> Null]
  /\ schema \in [tables : BOOLEAN, columns : {{}, {1}}, indexes : {{}}, applied : {<< >>},
                 ran : {<< >>}, lock : {Null}]
  /\ schema.columns # {} => schema.tables
  /\ area # "columns" => ~schema.tables
  /\ openers = [o \in DOMAIN Images |-> [at |-> "down", next |-> 1, known |-> << >>]]

BackendsNext ==
  \/ LedgerCalls
  \/ EventCalls
  \/ area = "hooks" /\ OutboxCalls("hooks", "s1")
  \/ area = "letters" /\ OutboxCalls("letters", "chat")
  \/ area = "ends" /\ ((\E e \in Puts : PutEnd(e)) \/ (\E e \in Puts : DeleteEnd(e.name)))
  \/ ReconcileCalls
  \/ ReplayCalls
  \/ SchemaCalls

BackendsSpec == BackendsInit /\ [][BackendsNext]_backendVars

-----------------------------------------------------------------------------
(* Properties.                                                                *)
Nameless(s) == [i \in DOMAIN s |-> [s[i] EXCEPT !.id = 0]]
Anonymous(rows) == {[r EXCEPT !.id = 0] : r \in rows}

\* Both stores hold the same history, whatever order it was recorded in.
SameHistory ==
  /\ \A q \in Lookups : /\ Nameless(LiteEntries(Lite, q)) = Nameless(PgEntries(Pg, q))
                        /\ Nameless(LiteAccordEvents(Lite, q)) = Nameless(PgAccordEvents(Pg, q))
  /\ \A i \in DOMAIN Coins : LiteBalance(Lite, Coins[i]) = PgBalance(Pg, Coins[i])
  /\ Anonymous(LiteLatestReconciliations(Lite)) = Anonymous(PgLatestReconciliations(Pg))
  /\ LiteDestinations(Lite) = PgDestinations(Pg)

SameOutbox ==
  \A box \in {"hooks", "letters"}, st \in Outcomes \cup {Null}, q \in Lookups :
    /\ LiteCount(Lite, box) = PgCount(Pg, box)
    /\ Nameless(LiteList(Lite, box, st, Null, q)) = Nameless(PgList(Pg, box, st, Null, q))
    /\ Nameless(LiteClaimDue(Lite, box, q.limit)) = Nameless(PgClaimDue(Pg, box, q.limit))

\* What a worker has queued or will come to.
Promised(d, k, box) ==
  {r.ev : r \in d.rows[box] \cup {e \in d.rows.events : e.id > LiteGetState(d, k)}}

StoresAgree ==
  /\ SameHistory
  /\ apart = {} => replies["sqlite"] = replies["postgres"] /\ SameOutbox
  /\ \A k \in DOMAIN Lite.state \ {NextLedger} :
       LET box == IF k[1] = HookKey THEN "hooks" ELSE "letters" IN
       /\ Promised(Lite, k, box) \subseteq Promised(Pg, k, box)
       /\ "reused" \notin apart => Promised(Lite, k, box) = Promised(Pg, k, box)

\* A recorded drift is the transfers the index lacked when its balance was read.
DriftsExplained ==
  area = "reconcile" =>
    \A r \in LiteLatestReconciliations(Lite) :
      r.drift = OnChain(r.token, r.closed) - OnChain(r.token, r.indexed)

\* However a range was cut into replays, the kept store holds its whole history.
ReplaysCompose ==
  replayed.printed # Null =>
    LET said    == replayed.printed
        entries == {r.ev : r \in replayed.kept.rows.entries}
        within  == IF said.path = "kept" THEN entries
                   ELSE {i \in DOMAIN Moves : Moves[i].ledger \in said.range.from..said.range.to}
        sum(c, is) == MapThenSumSet(DeltaAt, {i \in is : Moves[i].token = c})
    IN  /\ \A c \in DOMAIN said.balances : said.balances[c] = sum(c, within)
        /\ \A i \in DOMAIN Moves : Moves[i].ledger \in replayed.ledgers => i \in entries
        /\ said.path = "kept" =>
             \A r \in replayed.kept.rows.entries :
               r.balance = sum(r.token, {i \in entries : i <= r.ev})

\* No migration runs twice or out of order, whoever has opened the database has all of its
\* own, and SQLite's later columns are there although each start adds what it found missing.
SchemaSafe ==
  /\ schema.ran = [n \in DOMAIN schema.applied |-> n]
  /\ \A o \in DOMAIN Images :
       /\ openers[o].at = "begun" => schema.lock = o
       /\ area = "migrations" /\ openers[o].at = "open" =>
            Image(o) = SubSeq(schema.applied, 1, Len(Image(o)))
       /\ area = "columns" /\ openers[o].at = "open" =>
            schema.columns = Columns /\ schema.indexes = Columns \ {1}

(* The two stores are indistinguishable to the rest of the indexer, but for   *)
(* what the ids show of each: after a rewind SQLite gives an id again that a  *)
(* worker may have read past, and an empty name requeues everything there and *)
(* nothing on Postgres (store.test.js:22-23, store/index.js:36-56).  Drift is *)
(* always explained by what is not indexed yet, replays compose, and the      *)
(* schema is complete wherever a store is open (index.js:343-371,             *)
(* replay.js:75-171, migrations.js:26-81).                                    *)
BackendsSound ==
  /\ uses > 0 => StoresAgree
  /\ DriftsExplained
  /\ ReplaysCompose
  /\ SchemaSafe
=============================================================================
