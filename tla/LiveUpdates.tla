----------------------------- MODULE LiveUpdates -----------------------------
(***************************************************************************)
(* How the console learns that the contract changed: a push channel, when  *)
(* one is configured and open, and serial polling of the contract's events *)
(* otherwise.  Both end in a reload of ConsoleScreens.                     *)
(***************************************************************************)
EXTENDS ConsoleScreens

CONSTANT
  Channels   \* push setups that are started from: "none" or "stream"

ASSUME LiveAssumption == Channels \subseteq {"none", "stream"}

VARIABLES
  channel,  \* the push setup
  link,     \* the connection: "none", "opening", "open"
  retry,    \* a reconnect timer is armed
  pushing,  \* pushActive: the channel reported "connected" last
  timers,   \* armed poll timers
  tasks,    \* poll tasks that wait for an answer, by question
  known,    \* lastSeenLedger is set
  news,     \* a ledger closed since lastSeenLedger
  left      \* the page was left: both are stopped

pollVars == <<timers, tasks, known>>
pushVars == <<channel, link, retry, pushing>>
liveVars == <<pollVars, pushVars, news, left>>
pageVars == <<screenVars, liveVars>>

Questions == {"ledger", "events"}

(* The page starts polling, whose first task asks at once, and the push.   *)
LiveInit ==
  /\ channel \in Channels
  /\ link = IF channel = "none" THEN "none" ELSE "opening"
  /\ retry = FALSE
  /\ pushing = FALSE
  /\ timers = 0
  /\ tasks = [q \in Questions |-> IF q = "ledger" THEN 1 ELSE 0]
  /\ known = FALSE
  /\ news = TRUE
  /\ left = FALSE

Running == \E q \in Questions : tasks[q] > 0

(***************************************************************************)
(* Polling.                                                                *)
(***************************************************************************)

(* One run of the task; while the push is connected it ends without asking *)
(* and the next timer is armed.                                            *)
RunTask(armed, active) ==
  LET question == IF known THEN "events" ELSE "ledger" IN
  IF active
    THEN timers' = armed + 1 /\ UNCHANGED tasks
    ELSE timers' = armed /\ tasks' = [tasks EXCEPT ![question] = @ + 1]

(* polling.refresh: nothing while a task runs, else the timer is dropped.  *)
PollNowRegardless(active) == RunTask(0, active)

PollNow(active) ==
  IF Running
    THEN UNCHANGED <<timers, tasks>>
    ELSE RunTask(0, active)

(* A poll does not wait for the load that an earlier one started. *)
PollTimer ==
  /\ timers > 0 /\ ~left
  /\ RunTask(timers - 1, pushing)
  /\ UNCHANGED <<known, pushVars, news, left, screenVars>>

(* The end of a task arms the next timer unless polling was stopped. *)
TaskEnds(q) ==
  /\ tasks[q] > 0
  /\ tasks' = [tasks EXCEPT ![q] = @ - 1]
  /\ timers' = IF left THEN timers ELSE timers + 1

AnswerLedger ==
  /\ TaskEnds("ledger")
  /\ known' = TRUE
  /\ news' = IF known THEN news ELSE FALSE
  /\ UNCHANGED <<pushVars, left, screenVars>>

(* The latest ledger moves the checkpoint whether or not it has an event.  *)
AnswerEvents ==
  /\ TaskEnds("events")
  /\ IF news /\ ~left
       THEN /\ Reload(address)
            /\ news' = FALSE
       ELSE UNCHANGED <<loads, loading, failed, news>>
  /\ UNCHANGED <<known, pushVars, left, contract, account, address, checks,
                 shown, owners, inflight, pending, spent>>

TaskFailsForGood(q) ==
  /\ tasks[q] > 0
  /\ tasks' = [tasks EXCEPT ![q] = @ - 1]
  /\ Spend
  /\ UNCHANGED <<timers, known, pushVars, news, left, contract, account, address, checks,
                 loads, shown, owners, loading, failed, inflight, pending>>

TaskFails(q) ==
  /\ TaskEnds(q)
  /\ Spend
  /\ UNCHANGED <<known, pushVars, news, left, contract, account, address, checks,
                 loads, shown, owners, loading, failed, inflight, pending>>

(***************************************************************************)
(* The push channel.                                                       *)
(***************************************************************************)
Opened ==
  /\ link = "opening" /\ ~left
  /\ link' = "open"
  /\ pushing' = TRUE
  /\ UNCHANGED <<channel, retry, pollVars, news, left, screenVars>>

Pushed ==
  /\ link = "open" /\ ~left
  /\ Reload(address)
  /\ UNCHANGED <<liveVars, contract, account, address, checks, shown, owners,
                 inflight, pending, spent>>

(* A lost or refused connection reports "fallback", which polls at once.   *)
LinkLost ==
  /\ link \in {"opening", "open"} /\ ~left
  /\ Spend
  /\ link' = "none"
  /\ retry' = TRUE
  /\ pushing' = FALSE
  /\ PollNow(FALSE)
  /\ UNCHANGED <<channel, known, news, left, contract, account, address, checks,
                 loads, shown, owners, loading, failed, inflight, pending>>

ReconnectTimer ==
  /\ retry /\ ~left
  /\ retry' = FALSE
  /\ link' = "opening"
  /\ UNCHANGED <<channel, pushing, pollVars, news, left, screenVars>>

LeavePageLoading ==
  /\ ~left
  /\ left' = TRUE
  /\ timers' = 0
  /\ link' = "none"
  /\ retry' = FALSE
  /\ pushing' = FALSE
  /\ UNCHANGED <<channel, tasks, known, news, screenVars>>

(* Leaving stops polling, closes the channel and cancels the load.         *)
LeavePage ==
  /\ ~left
  /\ left' = TRUE
  /\ timers' = 0
  /\ link' = "none"
  /\ retry' = FALSE
  /\ pushing' = FALSE
  /\ loads' = Cancelled
  /\ UNCHANGED <<channel, tasks, known, news, contract, account, address,
                 checks, shown, owners, loading, failed, inflight, pending, spent>>

CloseLedger ==
  /\ ~news
  /\ news' = TRUE
  /\ UNCHANGED <<pollVars, pushVars, left, screenVars>>

(***************************************************************************)
(* After the page is left the user does nothing on it; what was in flight  *)
(* still comes back.                                                       *)
(***************************************************************************)
ScreenStep ==
  /\ \/ ~left /\ ScreensNext
     \/ left /\ \E s \in Slots : LoadStep(s) \/ LoadFails(s)
  /\ UNCHANGED liveVars

LiveNext ==
  \/ ScreenStep
  \/ PollTimer
  \/ AnswerLedger
  \/ AnswerEvents
  \/ \E q \in Questions : TaskFails(q)
  \/ Opened
  \/ Pushed
  \/ LinkLost
  \/ ReconnectTimer
  \/ LeavePage
  \/ CloseLedger

LiveSpec == ScreensInit /\ LiveInit /\ [][LiveNext]_pageVars

(***************************************************************************)
(* Timers fire, ledgers close, requests are answered and loads go on; the  *)
(* push, the user, the extension and failures are under no obligation.     *)
(***************************************************************************)
LiveFairness ==
  /\ \A s \in Slots : WF_pageVars(LoadStep(s) /\ UNCHANGED liveVars)
  /\ WF_pageVars(PollTimer)
  /\ WF_pageVars(AnswerLedger)
  /\ WF_pageVars(AnswerEvents)
  /\ WF_pageVars(CloseLedger)

LiveTypeOK ==
  /\ ScreensTypeOK
  /\ channel \in Channels /\ link \in {"none", "opening", "open"}
  /\ retry \in BOOLEAN /\ pushing \in BOOLEAN
  /\ timers \in Nat /\ tasks \in [Questions -> Nat]
  /\ known \in BOOLEAN /\ news \in BOOLEAN /\ left \in BOOLEAN

(***************************************************************************)
(* Properties.                                                             *)
(***************************************************************************)

(* While the page is open there is exactly one poll at a time, a task that *)
(* waits for its answer or one timer, whatever the push channel makes      *)
(* polling do in between: it neither runs twice nor dies out               *)
(* (polling.ts:1, 16-22, 34-37; useEventPolling.ts:24, 59-64).             *)
SerialPolling ==
  LET polls == timers + tasks["ledger"] + tasks["events"] IN
  polls <= 1 /\ (left \/ polls = 1)

\* Some load has not shown its proposals yet.
Reading == \E s \in Used : loads[s].stage \in {"base", "page", "approvals"}

(* Once no push channel is connected and nobody connects a wallet or leaves *)
(* it any more, what others change in the contract reaches the screens,    *)
(* with a wallet or without: proposals, owners and optimistic changes that *)
(* came to nothing.  The code leaves one way out: polls that for ever find *)
(* a load still reading and cancel it, none of which gets to show anything,*)
(* when reading takes longer than the polling interval.  A connected       *)
(* channel that stays silent is not covered, since opening it does not     *)
(* reload what changed after the last poll (polling.ts:34-37;              *)
(* useEventPolling.ts:24, 33-43; useContract.ts:53-171).                   *)
CatchesUp ==
  <>[](~pushing /\ ~left) /\ <>[][address' = address]_pageVars
    => \/ <>[](shown.version = contract /\ ~shown.patched /\ owners = contract)
       \/ []<><<Reading /\ AnswerEvents>>_pageVars /\ <>[][shown' = shown]_pageVars

(* The proposals on screen are never replaced by an older state of the     *)
(* contract nor by what another wallet than the connected one was shown,   *)
(* in whatever order the reads of overlapping loads are answered; after    *)
(* the page is left no answer, message or timer that was on its way starts *)
(* a load or replaces them (useContract.ts:101-103, 168-170;               *)
(* polling.ts:44-47, useEventPolling.ts:69-72, eventPush.ts:185-190).      *)
NewestShown ==
  [][/\ shown' # shown => /\ shown'.version >= shown.version
                          /\ shown'.wallet \in {shown.wallet, address}
     /\ left => /\ shown' = shown
                /\ \A s \in Slots : loads[s] = None => loads'[s] = None]_pageVars
=============================================================================
