------------------------------ MODULE MCReaders ------------------------------
(* Small instances of the programs that read what the contract and the      *)
(* indexer publish.  They share nothing, so each scene runs one of them.    *)
EXTENDS LiveUpdates, Dialogs, AnalyticsApi, AnalyticsScreen, Outlook, EventTimeline, FileIndexer,
        Keeper, StatusPage, Notifications, StoreBackends

CONSTANTS
  alice, bob, carol,
  Scenes   \* the readers a run starts from

MCSlots == 1..2

\* What the fields of a dialog hold; a draft names what it changes.
Fields ==
  [target |-> alice, amount |-> 1, said |-> TRUE, deadline |-> 1, interval |-> 1,
   start |-> 0, cliff |-> None, end |-> None, cap |-> None, vesting |-> FALSE,
   grant |-> TRUE]
Of(f) == Fields @@ [form |-> f]
Table ==
  << Of("transfer"),
     [Of("add_owner") EXCEPT !.target = carol],
     [Of("recurring") EXCEPT !.end = 2, !.vesting = TRUE],
     [Of("recurring") EXCEPT !.amount = 2, !.cap = 3],
     [Of("change_owner_weight") EXCEPT !.amount = 3],
     [Of("role") EXCEPT !.target = carol],
     [Of("delegate") EXCEPT !.deadline = None],
     [Of("pause") EXCEPT !.deadline = None],
     Of("add_owner"),
     Of("remove_owner"),
     Of("change_threshold"),
     Of("weight"),
     [Of("modify") EXCEPT !.deadline = 9],
     Of("resume"),
     Of("cancel"),
     [Of("weight") EXCEPT !.deadline = 0] >>
MCMenus == {{1, 5}, {2, 9}, {3, 4}, {6, 7, 8}, {10, 11}, {12, 16}, {13, 14, 15}}
MCZones == {-1, 0, 1}

Row(s, l, t, x, v) == [source |-> s, ledger |-> l, at |-> t, subject |-> x, value |-> v]
MCRows ==
  << Row("transfers", 1, 0, "usdc", 1),
     Row("transfers", 2, 1, "usdc", 1),
     Row("approvals", 2, 1, "bob", 1),
     Row("approvals", 3, 1, "bob", 1) >>
Rule(k, l, w, c) ==
  [kind |-> k, token |-> NoToken, limit |-> l, window |-> w, cooldown |-> c,
   from |-> 3, to |-> 2]
MCRules ==
  << Rule("spend_threshold", 2, 1, 1),
     Rule("approval_burst", 1, 1, 2),
     Rule("off_hours_approval", 1, 1, 0) >>

\* Two ticks a day; weeks start a day before tick 0.
MCSpan  == [day |-> 2, week |-> 4, month |-> 8]
MCShift == [day |-> 0, week |-> 2, month |-> 0]
MCLower == [ops |-> "Ops"]
Entry(k, s, t, c, o, at, n) ==
  [kind |-> k, status |-> s, token |-> t, category |-> c, by |-> o, at |-> at, amount |-> n]
MCBook ==
  << Entry("transfer", "executed", "XLM", "Ops", alice, 1, 2),
     Entry("deposit", "executed", "XLM", None, None, 3, 5),
     Entry("transfer", "executed", "USDC", "ops", bob, 7, 3),
     Entry("transfer", "ready", "XLM", "Ops", bob, 8, 9),
     Entry("transfer", "executed", "XLM", None, alice, 8, 1),
     Entry("snapshot", "executed", "XLM", None, None, 7, 4),
     Entry("action", "executed", None, "Other", bob, 5, 0) >>
AllTime ==
  [start |-> None, end |-> None, category |-> None, owner |-> None, token |-> None,
   granularity |-> "month", limit |-> None, offset |-> None, misread |-> {}]
MCFilters ==
  { AllTime,
    [AllTime EXCEPT !.start = 0, !.end = 6, !.granularity = "day"],
    [AllTime EXCEPT !.category = "Ops", !.granularity = "week"],
    [AllTime EXCEPT !.owner = bob, !.end = 8],
    [AllTime EXCEPT !.start = 2, !.token = "XLM", !.granularity = "week"],
    [AllTime EXCEPT !.start = 4, !.end = 2],
    [AllTime EXCEPT !.misread = {"status"}] }

\* The filters are questions whose answers can be compared.
ASSUME FiltersComparable == \A q \in Filters : Comparable(q)

\* Schedules: overdue, capped in the middle of a payout, ended, with a cliff, paused.
Schedule(n, a, i, c, e, cl, s) ==
  [next |-> n, amount |-> a, interval |-> i, cap |-> c, paid |-> 1, end |-> e, cliff |-> cl,
   status |-> s]
MCPlans ==
  { << >>,
    << Schedule(-3, 2, 2, None, None, None, "active") >>,
    << Schedule(1, 3, 3, 12, None, 5, "active"), Schedule(0, 1, 1, None, 6, None, "active") >>,
    << Schedule(2, 2, 5, 20, 17, None, "active"), Schedule(0, 9, 1, None, None, None, "paused") >> }

\* Another proposal was approved and changed a weight.
MCBeginning ==
  LET event(t, tx) == [topic |-> t, number |-> 2, ledger |-> tx, tx |-> tx] IN
  << event("approved", 1), event("c_wgt", 2), event("executed", 2) >>

\* The events of a proposal and of a payment, each in a ledger with plain ones.
Plain(l) == [ledger |-> l, number |-> None, spends |-> FALSE, wide |-> FALSE]
MCPublished ==
  << Plain(1), Plain(2), Plain(2), [Plain(3) EXCEPT !.number = 1, !.wide = TRUE], Plain(4),
     Plain(5), [Plain(5) EXCEPT !.number = 1, !.spends = TRUE, !.wide = TRUE] >>

\* A contract with the view and the error number the keeper expects, and the deployed one.
MCHosts == {[view |-> v, known |-> v]: v \in BOOLEAN}

MCAnswers ==
  [indexer |-> {IndexerAnswer(TRUE, 1), IndexerAnswer(TRUE, NoPage)},
   api     |-> {[reached |-> TRUE, http |-> 200, status |-> NoPage,
                 checks |-> [database |-> TRUE, watcher |-> FALSE]]}]
MCIncidents ==
  LET note(s, st) == [service |-> s, status |-> st] IN
  { {}, {note("all", "open"), note("indexer", "resolved")} }

\* The third is known from the start; the second leaves its topics blank; the last is put
\* by another client and disables the first.
Destination(i, k, u, s, m, t, o) ==
  [id |-> i, kind |-> k, url |-> u, secret |-> s, mail |-> m, topics |-> t, on |-> o]
MCEntries ==
  << Destination("ops", "webhook", "local", 16, FALSE, {"executed"}, TRUE),
     Destination("ops", "slack", "https", 0, FALSE, Nil, TRUE),
     Destination("chat", "email", "none", 0, TRUE, {"executed"}, TRUE),
     Destination("ops", "slack", "https", 0, FALSE, {}, FALSE) >>
MCFeed == <<"executed">>
MCBefore(d, c) == d = "chat" /\ c = "ops"

\* A row from before the dedupe keys, its event again, and the event under a new id.
Transfer(e, k, t, d, l) == [ev |-> e, key |-> k, token |-> t, delta |-> d, ledger |-> l]
MCTransfers ==
  { Transfer("a", Null, "usdc", 1, 1), Transfer("a", "k1", "usdc", 1, 1),
    Transfer("b", "k1", "usdc", 1, 1), Transfer("c", "k2", "usdc", -2, 2),
    Transfer("d", "k3", "xlm", 1, 1), Transfer("z", "k4", "xlm", 0, 2) }
Notice(e, k, t, l) == [ev |-> e, key |-> k, topic |-> t, ledger |-> l]
MCNotices ==
  { Notice("m", "k1", "created", 1), Notice("n", "k2", "executed", 2),
    Notice("o", "k2", "executed", 2) }
Everything == [token |-> Null, topic |-> Null, from |-> Null, to |-> Null, limit |-> 9, offset |-> 0]
MCLookups ==
  { Everything,
    [Everything EXCEPT !.token = "usdc", !.topic = "created", !.to = 1, !.limit = 1],
    [Everything EXCEPT !.from = 2, !.limit = 2, !.offset = 1] }
MCCoins == <<"xlm", "usdc">>
Move(t, d, l) == [token |-> t, delta |-> d, ledger |-> l]
MCMoves == << Move("xlm", 2, 1), Move("xlm", -1, 2), Move("usdc", 1, 2), Move("xlm", 3, 3) >>
MCPuts ==
  { [name |-> "chat", topics |-> {"executed"}, on |-> TRUE],
    [name |-> "chat", topics |-> {}, on |-> FALSE],
    [name |-> "ops", topics |-> Null, on |-> TRUE] }
NoWindow ==
  [from |-> Null, to |-> Null, before |-> Null, after |-> Null, checkpoint |-> Null, path |-> "kept"]
MCWindows ==
  { [NoWindow EXCEPT !.from = 1, !.to = 1],
    [NoWindow EXCEPT !.from = 2, !.to = 3],
    [NoWindow EXCEPT !.from = 2, !.to = 1],
    [NoWindow EXCEPT !.from = 1],
    [NoWindow EXCEPT !.from = 1, !.to = 3, !.path = "live"],
    [NoWindow EXCEPT !.before = 1, !.checkpoint = 3, !.path = "memory"],
    [NoWindow EXCEPT !.after = 2, !.checkpoint = 2],
    [NoWindow EXCEPT !.before = 1],
    [NoWindow EXCEPT !.before = 1, !.after = 1, !.checkpoint = 2],
    [NoWindow EXCEPT !.from = 1, !.to = 2, !.after = 1, !.checkpoint = 2] }
\* The last replica carries an edited second migration.
MCImages == [r1 |-> <<"a">>, r2 |-> <<"a", "b">>, r3 |-> <<"a", "x">>]
MCMaxCalls ==
  [ledger |-> 5, events |-> 6, hooks |-> 6, letters |-> 6, ends |-> 4, reconcile |-> 4,
   replay |-> 4, migrations |-> 2, columns |-> 1]

VARIABLE scene

vars == <<scene, pageVars, dialogVars, apiVars, reportVars, outlookVars, timelineVars, fileVars,
          keeperVars, statusVars, notifyVars, backendVars>>

Init ==
  /\ scene \in Scenes
  /\ scene # "script" => setting = None
  /\ scene # "page" => channel = "none"
  /\ scene # "dialogs" => zone = 0 /\ wallet = None /\ menu = {1, 5}
  /\ scene # "api" => backfill = FALSE /\ cap = 1
  /\ scene # "reports" => query = AllTime
  /\ scene # "forecast" => plan = << >> /\ purse = 0
  /\ scene # "stores" => area = "ledger"
  /\ KeeperInit
  /\ scene # "keeper" => ~host.view
  /\ DialogsInit
  /\ zone = 0 \/ menu = {12, 16}
  /\ ApiInit
  /\ scene = "api" => backfill = (cap = 9)
  /\ ScreensInit /\ LiveInit /\ AnalyticsInit /\ OutlookInit /\ TimelineInit
  /\ FileInit /\ StatusInit /\ NotifyInit /\ BackendsInit

Next ==
  \/ /\ scene = "page" /\ LiveNext
     /\ UNCHANGED <<scene, dialogVars, apiVars, reportVars, outlookVars, timelineVars,
                    fileVars, keeperVars, statusVars, notifyVars, backendVars>>
  \/ /\ scene = "dialogs" /\ DialogsNext
     /\ UNCHANGED <<scene, pageVars, apiVars, reportVars, outlookVars, timelineVars,
                    fileVars, keeperVars, statusVars, notifyVars, backendVars>>
  \/ /\ scene = "api" /\ ApiNext
     /\ UNCHANGED <<scene, pageVars, dialogVars, reportVars, outlookVars, timelineVars,
                    fileVars, keeperVars, statusVars, notifyVars, backendVars>>
  \/ /\ scene = "reports" /\ AnalyticsNext
     /\ UNCHANGED <<scene, pageVars, dialogVars, apiVars, outlookVars, timelineVars,
                    fileVars, keeperVars, statusVars, notifyVars, backendVars>>
  \/ /\ scene = "forecast" /\ ForecastNext
     /\ UNCHANGED <<scene, pageVars, dialogVars, apiVars, reportVars, timelineVars,
                    fileVars, keeperVars, statusVars, notifyVars, backendVars>>
  \/ /\ scene = "health" /\ HealthNext
     /\ UNCHANGED <<scene, pageVars, dialogVars, apiVars, reportVars, timelineVars,
                    fileVars, keeperVars, statusVars, notifyVars, backendVars>>
  \/ /\ scene = "timeline" /\ TimelineNext
     /\ UNCHANGED <<scene, pageVars, dialogVars, apiVars, reportVars, outlookVars,
                    fileVars, keeperVars, statusVars, notifyVars, backendVars>>
  \/ /\ scene = "script" /\ FileNext
     /\ UNCHANGED <<scene, pageVars, dialogVars, apiVars, reportVars, outlookVars,
                    timelineVars, keeperVars, statusVars, notifyVars, backendVars>>
  \/ /\ scene = "keeper" /\ KeeperNext
     /\ UNCHANGED <<scene, pageVars, dialogVars, apiVars, reportVars, outlookVars,
                    timelineVars, fileVars, statusVars, notifyVars, backendVars>>
  \/ /\ scene = "status" /\ StatusNext
     /\ UNCHANGED <<scene, pageVars, dialogVars, apiVars, reportVars, outlookVars,
                    timelineVars, fileVars, keeperVars, notifyVars, backendVars>>
  \/ /\ scene = "notify" /\ NotifyNext
     /\ UNCHANGED <<scene, pageVars, dialogVars, apiVars, reportVars, outlookVars,
                    timelineVars, fileVars, keeperVars, statusVars, backendVars>>
  \/ /\ scene = "stores" /\ BackendsNext
     /\ UNCHANGED <<scene, pageVars, dialogVars, apiVars, reportVars, outlookVars,
                    timelineVars, fileVars, keeperVars, statusVars, notifyVars>>

Spec == Init /\ [][Next]_vars /\ LiveFairness
=============================================================================
