------------------------------ MODULE StatusPage ------------------------------
(* The public status page, scripts/status-page.mjs: a job probes what the       *)
(* services say of themselves (indexer/src/health.js, api.js), folds it into    *)
(* the committed document and page, and pushes them when they have changed,     *)
(* while operators commit incident notes. The repository and the job runner     *)
(* are external, .github/workflows/status-page.yml.                             *)
EXTENDS Integers, FiniteSets

CONSTANTS
  Answers,       \* what each service may answer, by service; the first one is First
  First,         \* the service whose sample dates the document
  MaxStaleness,  \* READY_MAX_STALENESS_MS
  HistoryDays,   \* HISTORY_DAYS
  DayProbes,     \* ticks of a day
  HeartbeatTicks,    \* HEARTBEAT_MS
  Incidents,     \* the incident lists operators may commit
  MaxClock, MaxJobs, MaxEdits,   \* bounds
  NoPage         \* a file that is not there, or an answer that is no document

ASSUME StatusPageAssumption ==
  /\ First \in DOMAIN Answers /\ HistoryDays \in Nat \ {0} /\ DayProbes \in Nat \ {0}
  /\ HeartbeatTicks \in Nat \ {0, 1}   \* longer than a job's probes take

VARIABLES
  repo,     \* the branch: [doc, page, incidents]
  job,      \* the run of the workflow: its checkout, its samples
  clock,
  used,     \* [jobs, edits]: how much of the bounds is used up
  witness   \* history: what the runs that ended well have seen

statusVars == <<repo, job, clock, used, witness>>

Services == DOMAIN Answers

-----------------------------------------------------------------------------
(* The indexer's readiness and the status it reports.                           *)
ReadinessChecks(store, age) ==
  [store |-> store, indexing |-> age # NoPage /\ age <= MaxStaleness]

BuildStatus(checks) ==
  IF ~checks.store THEN "outage" ELSE IF checks.indexing THEN "operational" ELSE "degraded"

IndexerAnswer(store, age) ==
  LET checks == ReadinessChecks(store, age)
      status == BuildStatus(checks)
  IN  [reached |-> TRUE, http |-> IF status = "outage" THEN 503 ELSE 200,
       status |-> status, checks |-> checks]

-----------------------------------------------------------------------------
Statuses == {"operational", "degraded", "outage", "unknown"}
Severity == [operational |-> 1, unknown |-> 2, degraded |-> 3, outage |-> 4]
Critical == {"store", "database"}

WorstStatus(some) ==
  CHOOSE s \in some \cup {"operational"}:
    \A o \in some \cup {"operational"}: Severity[o] <= Severity[s]

StatusFromChecks(checks) ==
  IF DOMAIN checks = {} THEN "unknown"
  ELSE IF \E c \in DOMAIN checks \cap Critical: ~checks[c] THEN "outage"
  ELSE IF \A c \in DOMAIN checks: checks[c] THEN "operational"
  ELSE "degraded"

(* What the service reports wins; checks is NoPage when it sent no document.     *)
MapProbeResult(a) ==
  IF ~a.reached THEN "outage"
  ELSE IF a.checks = NoPage THEN IF a.http >= 500 THEN "outage" ELSE "unknown"
  ELSE IF a.status \in Statuses THEN a.status
  ELSE IF a.http >= 500 THEN "outage" ELSE StatusFromChecks(a.checks)

Day(t) == t \div DayProbes
Window(t) == {d \in Day(t) - HistoryDays + 1..Day(t): d >= 0}

(* A day keeps the worst status seen on it.                                      *)
MergeAvailability(days, sample, at) ==
  LET kept  == DOMAIN days \cap Window(at)
      today == IF Day(sample.at) = Day(at) THEN {Day(at)} ELSE {}
  IN  [d \in kept \cup today |->
         WorstStatus((IF d \in kept THEN {days[d]} ELSE {})
                     \cup (IF d \in today THEN {sample.status} ELSE {}))]

Empty == [d \in {} |-> ""]

BuildDocument(previous, samples) ==
  LET at == samples[First].at
      before(s) == previous.services[s]
  IN  [at |-> at,
       services |-> [s \in Services |->
          [status |-> samples[s].status,
           since  |-> IF previous # NoPage /\ before(s).status = samples[s].status
                        THEN before(s).since ELSE samples[s].at]],
       days |-> [s \in Services |->
          MergeAvailability(IF previous = NoPage THEN Empty ELSE previous.days[s],
                            samples[s], at)]]

\* Mutant of StatusFingerprint: the bars of the days are left out.
FingerprintOfServices(doc) == doc.services

StatusFingerprint(doc) == <<doc.services, doc.days>>

ShouldPublish(previous, next, now) ==
  \/ previous = NoPage
  \/ StatusFingerprint(previous) # StatusFingerprint(next)
  \/ now - previous.at >= HeartbeatTicks

ActiveIncidents(incidents)   == {i \in incidents: i.status # "resolved"}
ResolvedIncidents(incidents) == {i \in incidents: i.status = "resolved"}
IncidentFor(incidents, s)    == {i \in ActiveIncidents(incidents): i.service \in {s, "all"}}

(* The page: the banner, a card and the bars of each service, the incidents.     *)
RenderStatusPage(doc, incidents) ==
  LET troubled(s) == doc.services[s].status \in {"degraded", "outage"}
      bar(s)      == [d \in Window(doc.at) \cap DOMAIN doc.days[s] |-> doc.days[s][d]]
  IN  [overall  |-> WorstStatus({doc.services[s].status: s \in Services}),
       updated  |-> doc.at,
       cards    |-> doc.services,
       notes    |-> [s \in Services |-> IF troubled(s) THEN IncidentFor(incidents, s) ELSE {}],
       bars     |-> [s \in Services |-> bar(s)],
       affected |-> [s \in Services |->
                       Cardinality({d \in DOMAIN bar(s): bar(s)[d] \in {"degraded", "outage"}})],
       active   |-> ActiveIncidents(incidents),
       resolved |-> ResolvedIncidents(incidents)]

-----------------------------------------------------------------------------
Idling == [at |-> "idle", tree |-> NoPage, samples |-> Empty, decided |-> 0, clean |-> FALSE]

StatusInit ==
  /\ repo = [doc |-> NoPage, page |-> NoPage, incidents |-> {}]
  /\ job = Idling
  /\ clock = 0
  /\ used = [jobs |-> 0, edits |-> 0]
  /\ witness = [services |-> NoPage, worst |-> [s \in Services |-> Empty], decided |-> 0,
                current |-> FALSE]

(* The workflow runs one job at a time, on a fresh checkout.                      *)
StartJob ==
  /\ job.at = "idle" /\ used.jobs < MaxJobs
  /\ job' = [Idling EXCEPT !.at = "probe", !.tree = repo, !.clean = TRUE]
  /\ used' = [used EXCEPT !.jobs = @ + 1]
  /\ UNCHANGED <<repo, clock, witness>>

(* Both services are asked at once and answer when they do.                       *)
ProbeService(s) ==
  /\ job.at = "probe" /\ s \notin DOMAIN job.samples
  /\ \E a \in Answers[s]:
       job' = [job EXCEPT !.samples =
                 [o \in DOMAIN @ \cup {s} |->
                    IF o = s THEN [status |-> MapProbeResult(a), at |-> clock] ELSE @[o]]]
  /\ UNCHANGED <<repo, clock, used, witness>>

\* What the runs that ended well have seen, this one included.
Witnessed(decided) ==
  LET seen == witness.services
      at   == job.samples[First].at
  IN  [services |-> [s \in Services |->
         [status |-> job.samples[s].status,
          since  |-> IF seen # NoPage /\ seen[s].status = job.samples[s].status
                       THEN seen[s].since ELSE job.samples[s].at]],
       worst |-> [s \in Services |->
         LET was == witness.worst[s]
             now == IF Day(job.samples[s].at) = Day(at) THEN {Day(at)} ELSE {}
         IN  [d \in DOMAIN was \cup now |->
                WorstStatus((IF d \in DOMAIN was THEN {was[d]} ELSE {})
                            \cup (IF d \in now THEN {job.samples[s].status} ELSE {}))]],
       decided |-> decided,
       current |-> job.clean]

(* A hand-written note has to reach the page even when nothing else changed.      *)
IncidentsChanged(tree, next) ==
  /\ tree.page # NoPage
  /\ RenderStatusPage(IF tree.doc = NoPage THEN next ELSE tree.doc, tree.incidents) # tree.page

(* Most runs end here, with nothing worth a commit.                              *)
Decide ==
  /\ job.at = "probe" /\ DOMAIN job.samples = Services
  /\ LET tree == job.tree
         next == BuildDocument(tree.doc, job.samples)
     IN  IF ShouldPublish(tree.doc, next, clock) \/ IncidentsChanged(tree, next)
           THEN /\ job' = [job EXCEPT !.at = "push", !.decided = clock,
                             !.tree = [@ EXCEPT !.doc = next,
                                         !.page = RenderStatusPage(next, tree.incidents)]]
                /\ UNCHANGED witness
           ELSE job' = Idling /\ witness' = Witnessed(clock)
  /\ UNCHANGED <<repo, clock, used>>

(* The commit is rebased on the notes committed since the checkout.               *)
Push ==
  /\ job.at = "push"
  /\ repo' = [job.tree EXCEPT !.incidents = repo.incidents]
  /\ witness' = Witnessed(job.decided)
  /\ job' = Idling
  /\ UNCHANGED <<clock, used>>

(* The job dies, or its push is refused: what it saw is lost.                     *)
JobFails ==
  /\ job.at # "idle"
  /\ job' = Idling
  /\ UNCHANGED <<repo, clock, used, witness>>

EditIncidents ==
  /\ used.edits < MaxEdits
  /\ \E i \in Incidents \ {repo.incidents}: repo' = [repo EXCEPT !.incidents = i]
  /\ job' = [job EXCEPT !.clean = FALSE]
  /\ witness' = [witness EXCEPT !.current = FALSE]
  /\ used' = [used EXCEPT !.edits = @ + 1]
  /\ UNCHANGED clock

\* A probe is given up long before a tick is over, PROBE_TIMEOUT_MS.
TimePasses ==
  /\ clock < MaxClock
  /\ job.at = "probe" => \A s \in DOMAIN job.samples: job.samples[s].at = clock
  /\ clock' = clock + 1
  /\ UNCHANGED <<repo, job, used, witness>>

StatusNext ==
  \/ StartJob \/ Decide \/ Push \/ JobFails \/ EditIncidents \/ TimePasses
  \/ \E s \in Services: ProbeService(s)

StatusSpec == StatusInit /\ [][StatusNext]_statusVars

-----------------------------------------------------------------------------
(* Although most runs publish nothing, the document always tells what the runs    *)
(* that ended well have seen: each service's last status and since when, and for  *)
(* every day of the window the worst status of the samples dated like their        *)
(* document ("a day keeps the worst status seen on it", status-page.mjs:243-247). *)
(* The document is younger than the heartbeat at the last run, and the page is     *)
(* drawn from it and from the notes that run has seen (status-page.mjs:342-348,    *)
(* 691-703).                                                                      *)
StatusPageTrue ==
  repo.doc # NoPage =>
  LET doc == repo.doc IN
  /\ doc.services = witness.services
  /\ \A s \in Services, d \in Window(doc.at):
       IF d \in DOMAIN witness.worst[s]
         THEN d \in DOMAIN doc.days[s] /\ doc.days[s][d] = witness.worst[s][d]
         ELSE d \notin DOMAIN doc.days[s]
  /\ witness.decided - doc.at < HeartbeatTicks
  /\ witness.current => repo.page = RenderStatusPage(doc, repo.incidents)
=============================================================================
