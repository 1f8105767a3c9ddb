----------------------------- MODULE AnalyticsApi -----------------------------
(***************************************************************************)
(* The analytics API, for one network and contract.  Its watcher reads the *)
(* rows behind its cursors, evaluates each against the rules in memory     *)
(* (analytics-api/src/alerts.rs), stores and sends what they raise and     *)
(* moves the cursor, each in a step of its own; a tick also drops the      *)
(* cache that answers its readers (limits.rs) when the tables have grown,  *)
(* while requests query the tables and fill it.  Whoever fills the tables  *)
(* does so ledger by ledger.  A row is known by its place in Rows, which   *)
(* stands for its chain position; an alert by its rule and the row that    *)
(* raised it.                                                              *)
(***************************************************************************)
EXTENDS Integers, Sequences, SequencesExt, FiniteSetsExt

CONSTANTS
  Rows,         \* the rows, in ledger order: source, ledger, at, subject, value
  Rules,        \* the rules: kind, token, limit, window, cooldown, from, to
  DayHours,     \* hours of a day; one tick of event time is an hour
  StormWindow,  \* StormSettings.window
  Caps,         \* settings of StormSettings.max_alerts that are started from
  PollBatch,    \* POLL_BATCH
  SeenCapacity, \* SEEN_CAPACITY
  MaxTroubles   \* bound on database errors and restarts together

Sources  == {"transfers", "approvals"}
Subject  == {Rows[n].subject : n \in DOMAIN Rows}
RuleKeys == (DOMAIN Rules) \X Subject
Alert    == [rule : DOMAIN Rules, row : DOMAIN Rows]
NoToken  == "any"
Unseeded == -1

ASSUME AlertAssumption ==
  /\ Rows \in Seq([source : Sources, ledger : Nat \ {0}, at : Nat, subject : STRING, value : Nat])
  /\ \A n, p \in DOMAIN Rows :
       n < p => Rows[n].ledger <= Rows[p].ledger /\ Rows[n].at <= Rows[p].at
  /\ \A r \in DOMAIN Rules :
       /\ Rules[r].kind \in {"spend_threshold", "approval_burst", "off_hours_approval"}
       /\ Rules[r].limit > 0 /\ Rules[r].window > 0
  /\ PollBatch > 0

VARIABLES
  written,   \* rows in the tables
  cursor,    \* alert_cursors
  stored,    \* the alerts table
  backfill,  \* ALERT_BACKFILL
  cap,       \* max_alerts
  windows,   \* EngineState.windows, by rule and subject: rows
  lastFired, \* EngineState.last_fired: row, or 0
  fired,     \* EngineState.fired_recently: rows
  seen,      \* EngineState.seen and seen_order
  task,      \* what the watcher does: "idle", "select", "rows", "send", "mark"
  source,    \* the table it works on
  batch,     \* rows it still has to evaluate
  upto,      \* the ledger it may checkpoint
  raised,    \* alerts it still has to store and send
  sends,     \* how often an alert went to the channels
  troubles   \* how much of MaxTroubles is used

tableVars  == <<written, cursor, stored>>
engineVars == <<windows, lastFired, fired, seen>>
taskVars   == <<task, source, batch, upto, raised>>
alertVars  == <<tableVars, backfill, cap, engineVars, taskVars, sends, troubles>>

(***************************************************************************)
(* The engine.                                                             *)
(***************************************************************************)

RecentInclusive(s, n, w) ==
  LET old == {i \in DOMAIN s : \A j \in 1..i : Rows[n].at - Rows[s[j]].at > w} IN
  SubSeq(s, Cardinality(old) + 1, Len(s))

\* The rows of s after those at its front that left the window w at row n.
Recent(s, n, w) ==
  LET old == {i \in DOMAIN s : \A j \in 1..i : Rows[n].at - Rows[s[j]].at >= w} IN
  SubSeq(s, Cardinality(old) + 1, Len(s))

Watches(r, n) ==
  IF Rules[r].kind = "spend_threshold"
    THEN Rows[n].source = "transfers" /\ Rules[r].token \in {NoToken, Rows[n].subject}
    ELSE Rows[n].source = "approvals"

\* A start after the end wraps past midnight.
OffHours(r, n) ==
  LET hour == Rows[n].at % DayHours IN
  IF Rules[r].from < Rules[r].to
    THEN Rules[r].from <= hour /\ hour < Rules[r].to
    ELSE hour >= Rules[r].from \/ hour < Rules[r].to

Sum(samples) ==
  LET upTo[i \in 0..Len(samples)] ==
        IF i = 0 THEN 0 ELSE upTo[i - 1] + Rows[samples[i]].value
  IN upTo[Len(samples)]

Hits(r, n, samples) ==
  CASE Rules[r].kind = "spend_threshold" -> Sum(samples) >= Rules[r].limit
    [] Rules[r].kind = "approval_burst" -> Len(samples) > Rules[r].limit
    [] OTHER -> OffHours(r, n)

\* One rule's turn: its window, then its cooldown and the storm cap.
Observe(engine, r, n) ==
  LET key     == <<r, Rows[n].subject>>
      samples == IF Rules[r].kind = "off_hours_approval" THEN << >>
                 ELSE Recent(Append(engine.windows[key], n), n, Rules[r].window)
      last    == engine.lastFired[key]
      cooling == last # 0 /\ Rows[n].at - Rows[last].at < Rules[r].cooldown
      storm   == Recent(engine.fired, n, StormWindow)
      moved   == [engine EXCEPT !.windows[key] = samples]
  IN IF ~Watches(r, n) THEN engine
     ELSE IF ~Hits(r, n, samples) THEN moved
     ELSE IF cooling \/ Len(storm) >= cap THEN [moved EXCEPT !.fired = storm]
     ELSE [moved EXCEPT !.fired = Append(storm, n),
                        !.lastFired[key] = n,
                        !.alerts = Append(@, [rule |-> r, row |-> n])]

Engine == [windows |-> windows, lastFired |-> lastFired, fired |-> fired, alerts |-> << >>]

\* A row the engine remembers raises nothing and moves nothing.
EvaluateRow(n) ==
  IF Contains(seen, n)
    THEN raised' = << >> /\ UNCHANGED engineVars
    ELSE LET turn[r \in 0..Len(Rules)] ==
               IF r = 0 THEN Engine ELSE Observe(turn[r - 1], r, n)
             after == turn[Len(Rules)]
             order == Append(seen, n)
         IN /\ windows' = after.windows
            /\ lastFired' = after.lastFired
            /\ fired' = after.fired
            /\ raised' = after.alerts
            /\ seen' = IF Len(order) > SeenCapacity THEN Tail(order) ELSE order

(***************************************************************************)
(* The watcher.                                                            *)
(***************************************************************************)
AlertInit ==
  /\ written = 0
  /\ cursor = [s \in Sources |-> Unseeded]
  /\ stored = {}
  /\ backfill \in BOOLEAN
  /\ cap \in Caps
  /\ windows = [k \in RuleKeys |-> << >>]
  /\ lastFired = [k \in RuleKeys |-> 0]
  /\ fired = << >>
  /\ seen = << >>
  /\ task = "idle" /\ source = "transfers"
  /\ batch = << >> /\ upto = 0 /\ raised = << >>
  /\ sends = [a \in Alert |-> 0]
  /\ troubles = 0

\* The writer of the tables adds the rows of the next ledger.
WriteLedger ==
  /\ written < Len(Rows)
  /\ written' = Max({n \in DOMAIN Rows : Rows[n].ledger = Rows[written + 1].ledger})
  /\ UNCHANGED <<cursor, stored, backfill, cap, engineVars, taskVars, sends, troubles>>

StartPoll ==
  /\ task = "idle"
  /\ task' = "select" /\ source' = "transfers"

InTable(s) == SelectSeq([n \in 1..written |-> n], LAMBDA n : Rows[n].source = s)

Tip(s) == LET t == InTable(s) IN IF t = << >> THEN 0 ELSE Rows[Last(t)].ledger

\* The last ledger of a batch, or the one before it when the batch is full
\* and may have cut its last ledger in half, unless it holds no other.
BatchEnd(rows) ==
  LET ledgers == {Rows[rows[i]].ledger : i \in DOMAIN rows} IN
  CASE rows = << >> -> 0
    [] Len(rows) < PollBatch \/ Cardinality(ledgers) = 1 -> Max(ledgers)
    [] OTHER -> Max(ledgers \ {Max(ledgers)})

\* The first cursor is the tip, or 0 when history is to be evaluated.
SelectRows ==
  /\ task = "select"
  /\ LET from == CASE cursor[source] # Unseeded -> cursor[source]
                   [] backfill -> 0
                   [] OTHER -> Tip(source)
         new  == SelectSeq(InTable(source), LAMBDA n : Rows[n].ledger > from)
         rows == SubSeq(new, 1, Min({PollBatch, Len(new)}))
     IN /\ cursor' = [cursor EXCEPT ![source] = from]
        /\ upto' = BatchEnd(rows)
        /\ batch' = SelectSeq(rows, LAMBDA n : Rows[n].ledger <= BatchEnd(rows))
  /\ task' = "rows"
  /\ UNCHANGED <<written, stored, backfill, cap, engineVars, source, raised, sends, troubles>>

Evaluate ==
  /\ task = "rows" /\ raised = << >> /\ batch # << >>
  /\ EvaluateRow(Head(batch))
  /\ batch' = Tail(batch)
  /\ UNCHANGED <<tableVars, backfill, cap, task, source, upto, sends, troubles>>

\* An alert that is stored already is not sent again.
RecordAlert ==
  /\ task = "rows" /\ raised # << >>
  /\ IF Head(raised) \in stored
       THEN raised' = Tail(raised) /\ UNCHANGED <<stored, task>>
       ELSE /\ stored' = stored \union {Head(raised)}
            /\ task' = "send"
            /\ UNCHANGED raised
  /\ UNCHANGED <<written, cursor, backfill, cap, engineVars, source, batch, upto,
                 sends, troubles>>

\* A failing channel stops neither the others nor the watcher.
Dispatch ==
  /\ task = "send"
  /\ sends' = [sends EXCEPT ![Head(raised)] = @ + 1]
  /\ task' = "mark"
  /\ UNCHANGED <<tableVars, backfill, cap, engineVars, source, batch, upto, raised, troubles>>

RecordDelivery ==
  /\ task = "mark"
  /\ raised' = Tail(raised)
  /\ task' = "rows"
  /\ UNCHANGED <<tableVars, backfill, cap, engineVars, source, batch, upto, sends, troubles>>

MoveCursor ==
  /\ task = "rows" /\ raised = << >> /\ batch = << >>
  /\ cursor' = [cursor EXCEPT ![source] = Max({upto, @})]
  /\ IF source = "transfers"
       THEN source' = "approvals" /\ task' = "select"
       ELSE task' = "idle" /\ UNCHANGED source
  /\ upto' = 0
  /\ UNCHANGED <<written, stored, backfill, cap, engineVars, batch, raised, sends, troubles>>

Abandon ==
  /\ troubles < MaxTroubles
  /\ troubles' = troubles + 1
  /\ task' = "idle" /\ source' = "transfers"
  /\ batch' = << >> /\ upto' = 0 /\ raised' = << >>

\* A failed statement ends the tick, whether or not it was carried out; what
\* the engine remembers stays.
DatabaseFails ==
  /\ task \in {"select", "rows", "mark"}
  /\ Abandon
  /\ \/ UNCHANGED stored
     \/ task = "rows" /\ raised # << >> /\ stored' = stored \union {Head(raised)}
  /\ UNCHANGED <<written, cursor, backfill, cap, engineVars, sends>>

Restart ==
  /\ Abandon
  /\ windows' = [k \in RuleKeys |-> << >>]
  /\ lastFired' = [k \in RuleKeys |-> 0]
  /\ fired' = << >>
  /\ seen' = << >>
  /\ UNCHANGED <<tableVars, backfill, cap, sends>>

WatcherStep ==
  \/ SelectRows
  \/ Evaluate
  \/ RecordAlert
  \/ Dispatch
  \/ RecordDelivery
  \/ MoveCursor

(***************************************************************************)
(* The cache.                                                              *)
(***************************************************************************)

CONSTANTS
  Queries,      \* distinct cacheable requests
  MaxEntries,   \* CACHE_MAX_ENTRIES
  MaxRequests   \* bound on the requests under way

ASSUME CacheAssumption == {MaxEntries, MaxRequests} \subseteq Nat

VARIABLES
  cache,     \* ResponseCache.entries, oldest first
  requests,  \* requests that missed the cache, until they are answered
  stamp,     \* last_stamp of the watcher
  noticed,   \* history: rows in the tables when the cache was dropped last
  log        \* history: what the engine raised since the process started

cacheVars == <<cache, requests, stamp, noticed>>
apiVars == <<alertVars, cacheVars, log>>

NoStamp == -1

\* The newest ledger of any table.
DataStamp == IF written = 0 THEN 0 ELSE Rows[written].ledger

ApiInit ==
  /\ AlertInit
  /\ cache = << >>
  /\ requests = {}
  /\ stamp = NoStamp
  /\ noticed = 0
  /\ log = << >>

Cached(q) == \E i \in DOMAIN cache : cache[i].query = q

\* A fresh entry answers at once; else the request goes to the handler.
Ask(q) ==
  /\ ~Cached(q)
  /\ Cardinality(requests) < MaxRequests
  /\ requests' = requests \union {[query |-> q, rows |-> NoStamp, crossed |-> FALSE]}
  /\ UNCHANGED <<alertVars, cache, stamp, noticed, log>>

RunQuery(r) ==
  /\ r \in requests /\ r.rows = NoStamp
  /\ requests' = (requests \ {r}) \union {[r EXCEPT !.rows = written]}
  /\ UNCHANGED <<alertVars, cache, stamp, noticed, log>>

\* The cache without its entry for q, if it has one.
Without(q) ==
  IF Cached(q) THEN RemoveAt(cache, CHOOSE i \in DOMAIN cache : cache[i].query = q) ELSE cache

\* A full cache drops its oldest entry for a new key.
Put(entry) ==
  LET others == Without(entry.query)
      room   == IF Len(others) >= MaxEntries /\ others # << >> THEN Tail(others) ELSE others
  IN cache' = Append(room, entry)

Respond(r) ==
  /\ r \in requests /\ r.rows # NoStamp
  /\ Put(r)
  /\ requests' = requests \ {r}
  /\ UNCHANGED <<alertVars, stamp, noticed, log>>

\* An answer that is not OK, or too large, is not kept.
RespondUncached(r) ==
  /\ r \in requests
  /\ requests' = requests \ {r}
  /\ UNCHANGED <<alertVars, cache, stamp, noticed, log>>

\* An entry whose time to live is over counts as absent.
Expire(q) ==
  /\ Cached(q)
  /\ cache' = Without(q)
  /\ UNCHANGED <<alertVars, requests, stamp, noticed, log>>

TickKeepingCache ==
  /\ StartPoll
  /\ stamp' = DataStamp
  /\ noticed' = IF stamp \notin {NoStamp, DataStamp} THEN written ELSE noticed
  /\ UNCHANGED <<tableVars, backfill, cap, engineVars, batch, upto, raised, sends,
                 troubles, cache, requests, log>>

\* The first tick only takes the baseline. A request that has read the tables by
\* now is not told that the cache is dropped.
Tick ==
  /\ StartPoll
  /\ stamp' = DataStamp
  /\ IF stamp \notin {NoStamp, DataStamp}
       THEN /\ cache' = << >>
            /\ noticed' = written
            /\ requests' = {[r EXCEPT !.crossed = r.rows # NoStamp] : r \in requests}
       ELSE UNCHANGED <<cache, noticed, requests>>
  /\ UNCHANGED <<tableVars, backfill, cap, engineVars, batch, upto, raised, sends,
                 troubles, log>>

Watch ==
  /\ WatcherStep
  /\ log' = IF raised = << >> THEN log \o raised' ELSE log
  /\ UNCHANGED cacheVars

Trouble ==
  \/ DatabaseFails /\ UNCHANGED <<cacheVars, log>>
  \/ /\ Restart
     /\ cache' = << >> /\ requests' = {} /\ stamp' = NoStamp
     /\ noticed' = 0
     /\ log' = << >>

ApiNext ==
  \/ WriteLedger /\ UNCHANGED <<cacheVars, log>>
  \/ \E q \in Queries : Ask(q) \/ Expire(q)
  \/ \E r \in requests : RunQuery(r) \/ Respond(r) \/ RespondUncached(r)
  \/ Tick
  \/ Watch
  \/ Trouble

ApiSpec == ApiInit /\ [][ApiNext]_apiVars

(***************************************************************************)
(* Properties.                                                             *)
(***************************************************************************)

\* The rows one rule adds up when row n is evaluated.
InWindow(r, n) ==
  {p \in ToSet(seen) : /\ p <= n
                       /\ Watches(r, p) /\ Rows[p].subject = Rows[n].subject
                       /\ Rows[n].at - Rows[p].at < Rules[r].window}

\* What the documentation of the rules says makes row n alert on rule r.
Warrants(r, n) ==
  /\ Watches(r, n)
  /\ CASE Rules[r].kind = "spend_threshold" ->
            Sum(SetToSeq(InWindow(r, n))) >= Rules[r].limit
       [] Rules[r].kind = "approval_burst" -> Cardinality(InWindow(r, n)) > Rules[r].limit
       [] OTHER -> OffHours(r, n)

\* An alert of rule r on the subject of row n that keeps it quiet.
Quieted(r, n) ==
  \E i \in DOMAIN log :
    /\ log[i].rule = r /\ log[i].row < n
    /\ Rows[log[i].row].subject = Rows[n].subject
    /\ Rows[n].at - Rows[log[i].row].at < Rules[r].cooldown

AlertsExact ==
  \A r \in DOMAIN Rules, n \in ToSet(seen) :
    IF Contains(log, [rule |-> r, row |-> n])
      THEN Warrants(r, n) /\ ~Quieted(r, n)
      ELSE Warrants(r, n) => Quieted(r, n) \/ Len(log) >= cap

NotifiedOnce == \A a \in Alert : sends[a] <= 1

(* While one process runs, whatever it reads again after errors, a row     *)
(* raises an alert exactly if it completes what its rule describes and no  *)
(* cooldown of its subject holds it back, until the storm cap is reached   *)
(* (alerts.rs:330-407, 550-568; docs/ANALYTICS_API.md:303-320). And no     *)
(* alert goes to the channels twice, although a restart makes the engine   *)
(* forget what it raised and the watcher read its rows again               *)
(* (alerts.rs:908-927, 948-960).                                           *)
AlertsExactOnce == AlertsExact /\ NotifiedOnce

(* "A cached answer is never older than the TTL and never older than the   *)
(* data" (limits.rs:5-7, docs/ANALYTICS_API.md:71) is not what the code    *)
(* does: a request that has read the tables when the watcher drops the     *)
(* cache for newer rows stores its answer after that, where it is served   *)
(* until its time to live is over or the next drop. This is what holds:    *)
(* such a request is the only one to leave an answer older than the rows   *)
(* of the last drop, whatever the order of reads, answers, ticks, errors   *)
(* and restarts (alerts.rs:1088-1096, limits.rs:390-418).                  *)
CacheKeepsUp == \A i \in DOMAIN cache : cache[i].crossed \/ cache[i].rows >= noticed

(* "records every alert it raises" (alerts.rs:6): an alert whose row the   *)
(* cursor has passed is in the table.                                      *)
RaisedIsRecorded ==
  \A i \in DOMAIN log :
    Rows[log[i].row].ledger <= cursor[Rows[log[i].row].source] => log[i] \in stored
=============================================================================
