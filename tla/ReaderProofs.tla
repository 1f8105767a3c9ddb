------------------------------ MODULE ReaderProofs ------------------------------
(***************************************************************************)
(* The safety of programs that read what the contract publishes: the web   *)
(* console's page and dialogs, the analytics API, the keeper, the status   *)
(* page, the notification worker, the file indexer and the schema of the   *)
(* indexer's store, for every instance and every order of answers, timers, *)
(* errors and restarts.                                                    *)
(***************************************************************************)
EXTENDS LiveUpdates, Dialogs, AnalyticsApi, Keeper, StatusPage, Notifications,
        FileIndexer, StoreBackends, SumsProofs, SequenceTheorems

-----------------------------------------------------------------------------
(* The page: polling *)

PollsTyped == timers \in Nat /\ tasks \in [Questions -> Nat]

Polls == timers + tasks["ledger"] + tasks["events"]

\* A page that was left has no timer.
PollsInv ==
  /\ PollsTyped
  /\ Polls <= 1
  /\ left \/ Polls = 1
  /\ left => timers = 0

\* The end of a task.
LEMMA TaskEndsKeeps ==
  ASSUME PollsInv, NEW q \in Questions, TaskEnds(q), left' = left
  PROVE  PollsInv'
  <1>1. /\ tasks[q] > 0 /\ tasks' = [tasks EXCEPT ![q] = @ - 1]
        /\ timers' = IF left THEN timers ELSE timers + 1
    BY DEF TaskEnds
  <1>2. timers \in Nat /\ tasks["ledger"] \in Nat /\ tasks["events"] \in Nat
    BY DEF PollsInv, PollsTyped, Questions
  <1>3. tasks' \in [Questions -> Nat]
    BY <1>1 DEF PollsInv, PollsTyped
  <1>4. tasks'["ledger"] + tasks'["events"] = tasks["ledger"] + tasks["events"] - 1
    BY <1>1, <1>2 DEF Questions, PollsInv, PollsTyped
  <1>5. tasks'["ledger"] \in Nat /\ tasks'["events"] \in Nat /\ timers' \in Nat
    BY <1>1, <1>2, <1>3 DEF Questions
  <1>6. tasks["ledger"] + tasks["events"] >= 1
    BY <1>1, <1>2 DEF Questions
  <1>7. CASE left
    BY <1>1, <1>2, <1>3, <1>4, <1>5, <1>7 DEF PollsInv, PollsTyped, Polls
  <1>8. CASE ~left
    <2>1. timers = 0 /\ tasks["ledger"] + tasks["events"] = 1
      BY <1>2, <1>6, <1>8 DEF PollsInv, Polls
    <2>2. timers' = 1
      BY <1>1, <1>8, <2>1
    <2>3. tasks'["ledger"] + tasks'["events"] = 0
      BY <1>2, <1>4, <1>5, <2>1
    <2>4. tasks'["ledger"] = 0 /\ tasks'["events"] = 0
      BY <1>5, <2>3
    <2> QED
      BY <1>3, <1>8, <2>2, <2>4 DEF PollsInv, PollsTyped, Polls
  <1> QED
    BY <1>7, <1>8

\* One run of the task where there was none.
LEMMA RunTaskKeeps ==
  ASSUME PollsInv, ~left, left' = left, NEW active, RunTask(0, active),
         tasks["ledger"] = 0, tasks["events"] = 0
  PROVE  PollsInv'
  <1>1. CASE active
    BY <1>1 DEF RunTask, PollsInv, PollsTyped, Polls
  <1>2. CASE ~active
    <2>1. PICK q \in Questions : timers' = 0 /\ tasks' = [tasks EXCEPT ![q] = @ + 1]
      BY <1>2 DEF RunTask, Questions
    <2>2. tasks' \in [Questions -> Nat] /\ tasks'["ledger"] + tasks'["events"] = 1
      BY <2>1 DEF PollsInv, PollsTyped, Questions
    <2> QED
      BY <2>1, <2>2 DEF PollsInv, PollsTyped, Polls, Questions
  <1> QED
    BY <1>1, <1>2

\* Whatever the page does, one poll stays one.
LEMMA PollsStep ==
  ASSUME PollsInv, [LiveNext]_pageVars
  PROVE  PollsInv'
  <1>1. CASE UNCHANGED <<timers, tasks, left>>
    BY <1>1 DEF PollsInv, PollsTyped, Polls
  <1>2. CASE PollTimer
    <2>1. timers = 1 /\ tasks["ledger"] = 0 /\ tasks["events"] = 0 /\ ~left /\ left' = left
      BY <1>2 DEF PollTimer, PollsInv, PollsTyped, Polls, Questions
    <2>2. RunTask(0, pushing)
      BY <1>2, <2>1 DEF PollTimer
    <2> QED
      BY <2>1, <2>2, RunTaskKeeps
  <1>3. CASE AnswerLedger \/ AnswerEvents \/ \E q \in Questions : TaskFails(q)
    <2>1. PICK q \in Questions : TaskEnds(q)
      BY <1>3 DEF AnswerLedger, AnswerEvents, TaskFails, Questions
    <2>2. left' = left
      BY <1>3 DEF AnswerLedger, AnswerEvents, TaskFails
    <2> QED
      BY <2>1, <2>2, TaskEndsKeeps
  <1>4. CASE LinkLost
    <2>1. ~left /\ left' = left /\ PollNow(FALSE)
      BY <1>4 DEF LinkLost
    <2>2. CASE Running
      BY <1>1, <2>1, <2>2 DEF PollNow
    <2>3. CASE ~Running
      <3>1. tasks["ledger"] = 0 /\ tasks["events"] = 0
        BY <2>3 DEF Running, PollsInv, PollsTyped, Questions
      <3> QED
        BY <2>1, <2>3, <3>1, RunTaskKeeps DEF PollNow
    <2> QED
      BY <2>2, <2>3
  <1>5. CASE LeavePage
    BY <1>5 DEF LeavePage, PollsInv, PollsTyped, Polls, Questions
  <1>6. CASE ScreenStep \/ Opened \/ Pushed \/ ReconnectTimer \/ CloseLedger
    BY <1>1, <1>6 DEF ScreenStep, Opened, Pushed, ReconnectTimer, CloseLedger, liveVars, pollVars
  <1>7. CASE UNCHANGED pageVars
    BY <1>1, <1>7 DEF pageVars, liveVars, pollVars
  <1> QED
    BY <1>2, <1>3, <1>4, <1>5, <1>6, <1>7 DEF LiveNext

(***************************************************************************)
(* An open page always has exactly one poll under way, a timer or a task   *)
(* that waits for its answer, whatever the push channel makes polling do   *)
(* in between (polling.ts, useEventPolling.ts).                            *)
(***************************************************************************)
THEOREM PollingSerial == LiveSpec => []SerialPolling
  <1>1. LiveInit => PollsInv
    BY DEF LiveInit, PollsInv, PollsTyped, Polls, Questions
  <1>2. PollsInv /\ [LiveNext]_pageVars => PollsInv'
    BY PollsStep
  <1>3. PollsInv => SerialPolling
    BY DEF PollsInv, Polls, SerialPolling
  <1> QED
    BY <1>1, <1>2, <1>3, PTL DEF LiveSpec

-----------------------------------------------------------------------------
(* The page: loads *)

Accounts == Wallets \union {None}

Load == [wallet : Accounts, stage : Stages, live : BOOLEAN, base : Nat, page : Nat]

\* A load that has yet to show its proposals.
Early(l) == l # None /\ l.stage \in {"base", "page", "approvals"}

LoadsTyped ==
  /\ contract \in Nat
  /\ account \in Accounts /\ address \in Accounts
  /\ loads \in [Slots -> {None} \union Load]
  /\ shown \in [version : Nat, wallet : Accounts, patched : BOOLEAN]

\* Of the loads only the newest may still show proposals, for the address of
\* the moment, and only states of the contract not older than those on screen.
LoadsInv ==
  /\ LoadsTyped
  /\ shown.version <= contract
  /\ \A s, r \in Slots : Early(loads[s]) /\ Early(loads[r]) => s = r
  /\ \A s \in Slots : Early(loads[s]) =>
       /\ ~left /\ loads[s].wallet = address
       /\ loads[s].stage = "approvals" =>
            shown.version <= loads[s].page /\ loads[s].page <= contract

NewerShown ==
  /\ shown' # shown => /\ shown'.version >= shown.version
                       /\ shown'.wallet \in {shown.wallet, address}
  /\ left => /\ shown' = shown
             /\ \A s \in Slots : loads[s] = None => loads'[s] = None

\* Cancelling leaves no load that could show proposals.
LEMMA CancelledLoads ==
  ASSUME LoadsTyped
  PROVE  /\ Cancelled \in [Slots -> {None} \union Load]
         /\ \A s \in Slots : ~Early(Cancelled[s])
         /\ \A s \in Slots : loads[s] = None => Cancelled[s] = None
  <1>1. ASSUME NEW s \in Slots
        PROVE  /\ Cancelled[s] \in {None} \union Load /\ ~Early(Cancelled[s])
               /\ loads[s] = None => Cancelled[s] = None
    <2>1. Cancelled[s] = IF s \in Used /\ loads[s].stage \in {"weights", "schedules"}
                           THEN Rest(loads[s], loads[s].stage, FALSE) ELSE None
      BY DEF Cancelled
    <2>2. CASE ~(s \in Used /\ loads[s].stage \in {"weights", "schedules"})
      BY <2>1, <2>2 DEF Early
    <2>3. CASE s \in Used /\ loads[s].stage \in {"weights", "schedules"}
      <3> DEFINE l == Rest(loads[s], loads[s].stage, FALSE)
      <3>1. loads[s] \in Load /\ loads[s] # None
        BY <2>3 DEF LoadsTyped, Used
      <3>2. l \in Load /\ l.stage = loads[s].stage
        BY <2>3, <3>1 DEF Rest, NewLoad, Load, Stages, Accounts
      <3> HIDE DEF l
      <3>3. Cancelled[s] = l
        BY <2>1, <2>3 DEF l
      <3> QED
        BY <2>3, <3>1, <3>2, <3>3 DEF Early
    <2> QED
      BY <2>2, <2>3
  <1>2. Cancelled = [s \in Slots |-> Cancelled[s]]
    BY DEF Cancelled
  <1> QED
    BY <1>1, <1>2

\* A reload is the only load that may show proposals.
LEMMA ReloadLoads ==
  ASSUME LoadsTyped, NEW w \in Accounts, Reload(w)
  PROVE  /\ loads' \in [Slots -> {None} \union Load]
         /\ \A s, r \in Slots : Early(loads'[s]) /\ Early(loads'[r]) => s = r
         /\ \A s \in Slots : Early(loads'[s]) => loads'[s].wallet = w /\ loads'[s].stage = "base"
  <1>1. PICK n \in Slots : loads' = [Cancelled EXCEPT ![n] = NewLoad(w)]
    BY DEF Reload
  <1>2. /\ NewLoad(w) \in Load
        /\ NewLoad(w).wallet = w /\ NewLoad(w).stage = "base"
    BY DEF NewLoad, Load, Stages
  <1>3. /\ loads'[n] = NewLoad(w)
        /\ \A s \in Slots : s # n => loads'[s] = Cancelled[s]
    BY <1>1, CancelledLoads
  <1>4. loads' \in [Slots -> {None} \union Load]
    BY <1>1, <1>2, CancelledLoads
  <1>5. \A s \in Slots : Early(loads'[s]) => s = n
    BY <1>3, CancelledLoads
  <1> QED
    BY <1>2, <1>3, <1>4, <1>5

\* The effect of a reload on what the screens may show.
LEMMA ReloadKeeps ==
  ASSUME LoadsInv, ~left, left' = left,
         contract' \in Nat, contract <= contract', account' \in Accounts,
         address' \in Accounts, Reload(address'), shown' = shown
  PROVE  LoadsInv' /\ NewerShown
  <1>1. LoadsTyped
    BY DEF LoadsInv
  <1>2. /\ loads' \in [Slots -> {None} \union Load]
        /\ \A s, r \in Slots : Early(loads'[s]) /\ Early(loads'[r]) => s = r
        /\ \A s \in Slots : Early(loads'[s]) =>
             loads'[s].wallet = address' /\ loads'[s].stage = "base"
    BY <1>1, ReloadLoads
  <1>3. LoadsTyped'
    BY <1>1, <1>2 DEF LoadsTyped
  <1>4. shown'.version <= contract'
    BY <1>1 DEF LoadsInv, LoadsTyped
  <1> QED
    BY <1>2, <1>3, <1>4 DEF LoadsInv, NewerShown

\* The loads stay as they are.
LEMMA SameLoadsKeep ==
  ASSUME LoadsInv, left' = left, UNCHANGED <<loads, address>>,
         contract' \in Nat, contract <= contract', account' \in Accounts,
         shown' \in {shown, [shown EXCEPT !.patched = TRUE]}, left => shown' = shown
  PROVE  LoadsInv' /\ NewerShown
  <1>1. LoadsTyped /\ shown \in [version : Nat, wallet : Accounts, patched : BOOLEAN]
    BY DEF LoadsInv, LoadsTyped
  <1>2. /\ shown' \in [version : Nat, wallet : Accounts, patched : BOOLEAN]
        /\ shown'.version = shown.version /\ shown'.wallet = shown.wallet
    BY <1>1
  <1>3. LoadsTyped'
    BY <1>1, <1>2 DEF LoadsTyped
  <1>4. \A s \in Slots : loads[s] \in Load \/ loads[s] = None
    BY <1>1 DEF LoadsTyped
  <1>5. \A s \in Slots : Early(loads[s]) /\ loads[s].stage = "approvals" => loads[s].page <= contract'
    <2> SUFFICES ASSUME NEW s \in Slots, Early(loads[s]), loads[s].stage = "approvals"
                 PROVE  loads[s].page <= contract'
      OBVIOUS
    <2>1. loads[s].page \in Nat /\ loads[s].page <= contract
      BY <1>4 DEF LoadsInv, Early, Load
    <2> QED
      BY <1>1, <2>1 DEF LoadsTyped
  <1>6. shown'.version <= contract'
    BY <1>1, <1>2 DEF LoadsInv, LoadsTyped
  <1> QED
    BY <1>1, <1>2, <1>3, <1>5, <1>6 DEF LoadsInv, NewerShown

\* One load moves on to l, which is not early unless it was, and shows nothing.
LEMMA OneLoadKeeps ==
  ASSUME LoadsInv, left' = left, UNCHANGED <<contract, account, address, shown>>,
         NEW s \in Slots, NEW l \in {None} \union Load,
         loads[s] # None, loads' = [loads EXCEPT ![s] = l],
         Early(l) => /\ Early(loads[s]) /\ l.wallet = loads[s].wallet
                     /\ l.stage = "approvals" => shown.version <= l.page /\ l.page <= contract
  PROVE  LoadsInv' /\ NewerShown
  <1>1. LoadsTyped'
    BY DEF LoadsInv, LoadsTyped
  <1>2. /\ loads'[s] = l
        /\ \A r \in Slots : r # s => loads'[r] = loads[r]
    BY DEF LoadsInv, LoadsTyped
  <1> QED
    BY <1>1, <1>2 DEF LoadsInv, NewerShown

\* The steps of one load; after the page was left none of them shows proposals.
LEMMA LoadStepKeeps ==
  ASSUME LoadsInv, left' = left, NEW s \in Slots, LoadStep(s) \/ LoadFails(s)
  PROVE  LoadsInv' /\ NewerShown
  <1>1. LoadsTyped /\ s \in Used /\ loads[s] # None /\ loads[s] \in Load
    BY DEF LoadsInv, LoadsTyped, LoadStep, LoadFails, ReadBase, ReadPage, ShowProposals,
           ShowOwners, ShowStats, Used
  <1>2. contract \in Nat /\ shown.version \in Nat /\ shown.version <= contract
    BY DEF LoadsInv, LoadsTyped
  <1>3. CASE ReadBase(s)
    <2> DEFINE l == [loads[s] EXCEPT !.stage = "page", !.base = contract]
    <2>1. /\ l \in Load /\ l.stage = "page" /\ l.wallet = loads[s].wallet
          /\ Early(loads[s]) /\ loads' = [loads EXCEPT ![s] = l]
      BY <1>1, <1>2, <1>3 DEF ReadBase, Load, Stages, Early
    <2>2. UNCHANGED <<contract, account, address, shown>>
      BY <1>3 DEF ReadBase
    <2> HIDE DEF l
    <2> QED
      BY <1>1, <2>1, <2>2, OneLoadKeeps
  <1>4. CASE ReadPage(s)
    <2> DEFINE l == [loads[s] EXCEPT !.stage = "approvals", !.page = contract]
    <2>1. /\ l \in {None} \union Load /\ l.page = contract /\ l.wallet = loads[s].wallet
          /\ Early(loads[s]) /\ loads' = [loads EXCEPT ![s] = l]
      BY <1>1, <1>2, <1>4 DEF ReadPage, Load, Stages, Early
    <2>2. UNCHANGED <<contract, account, address, shown>>
      BY <1>4 DEF ReadPage
    <2> HIDE DEF l
    <2>3. shown.version <= l.page /\ l.page <= contract
      BY <1>2, <2>1
    <2> QED
      BY <1>1, <2>1, <2>2, <2>3, OneLoadKeeps
  <1>5. CASE ShowProposals(s)
    <2> DEFINE l == Rest(loads[s], "weights", TRUE)
    <2>1. Early(loads[s]) /\ loads[s].stage = "approvals" /\ l \in Load /\ l.stage = "weights"
      BY <1>1, <1>5 DEF ShowProposals, Early, Rest, NewLoad, Load, Stages, Accounts
    <2>2. /\ loads' = [loads EXCEPT ![s] = l]
          /\ shown' = [version |-> loads[s].page, wallet |-> loads[s].wallet, patched |-> FALSE]
          /\ UNCHANGED <<contract, account, address>>
      BY <1>5 DEF ShowProposals
    <2> HIDE DEF l
    <2>3. /\ ~left /\ loads[s].wallet = address /\ shown.version <= loads[s].page
          /\ loads[s].page <= contract
      BY <2>1 DEF LoadsInv
    <2>4. loads[s].page \in Nat /\ loads[s].wallet \in Accounts
      BY <1>1 DEF Load
    <2>5. /\ shown' \in [version : Nat, wallet : Accounts, patched : BOOLEAN]
          /\ shown'.version = loads[s].page /\ shown'.wallet = address
      BY <2>2, <2>3, <2>4
    <2>6. loads' \in [Slots -> {None} \union Load]
      BY <1>1, <2>1, <2>2 DEF LoadsTyped
    <2>7. LoadsTyped'
      BY <1>1, <2>2, <2>5, <2>6 DEF LoadsTyped
    <2>8. \A r \in Slots : Early(loads'[r]) => r # s /\ loads'[r] = loads[r]
      BY <1>1, <2>1, <2>2 DEF LoadsTyped, Early
    <2>9. \A r \in Slots : ~Early(loads'[r])
      BY <2>1, <2>8 DEF LoadsInv
    <2> QED
      BY <2>2, <2>3, <2>5, <2>7, <2>9 DEF LoadsInv, NewerShown
  <1>6. CASE ShowOwners(s)
    <2> DEFINE l == Rest(loads[s], "schedules", loads[s].live)
    <2>1. l \in Load /\ l.stage = "schedules"
      BY <1>1 DEF Rest, NewLoad, Load, Stages, Accounts
    <2>2. loads' = [loads EXCEPT ![s] = l] /\ UNCHANGED <<contract, account, address, shown>>
      BY <1>6 DEF ShowOwners
    <2> HIDE DEF l
    <2>3. ~Early(l)
      BY <2>1 DEF Early
    <2> QED
      BY <1>1, <2>1, <2>2, <2>3, OneLoadKeeps
  <1>7. CASE ShowStats(s) \/ LoadFails(s)
    <2>1. loads' = [loads EXCEPT ![s] = None] /\ UNCHANGED <<contract, account, address, shown>>
      BY <1>7 DEF ShowStats, LoadFails, Finish
    <2> QED
      BY <1>1, <2>1, OneLoadKeeps DEF Early
  <1> QED
    BY <1>3, <1>4, <1>5, <1>6, <1>7 DEF LoadStep

\* A new address, or the old one again.
LEMMA SetAddressKeeps ==
  ASSUME LoadsInv, ~left, left' = left, UNCHANGED <<contract, account, shown>>,
         NEW w \in Accounts, SetAddress(w)
  PROVE  LoadsInv' /\ NewerShown
  <1>1. LoadsTyped /\ contract' \in Nat /\ contract <= contract' /\ account' \in Accounts
    BY DEF LoadsInv, LoadsTyped
  <1>2. address' = w
    BY DEF SetAddress
  <1>3. CASE w = address
    <2>1. loads' = loads /\ address' = address /\ shown' = shown
      BY <1>2, <1>3 DEF SetAddress
    <2> QED
      BY <1>1, <2>1, SameLoadsKeep
  <1>4. CASE w # address
    <2>1. Reload(address')
      BY <1>2, <1>4 DEF SetAddress
    <2> QED
      BY <1>1, <1>2, <2>1, ReloadKeeps
  <1> QED
    BY <1>3, <1>4

\* The steps of the screens while the page is open.
LEMMA ScreensKeep ==
  ASSUME LoadsInv, ~left, left' = left, ScreensNext
  PROVE  LoadsInv' /\ NewerShown
  <1>1. LoadsTyped /\ contract \in Nat /\ account \in Accounts /\ address \in Accounts
    BY DEF LoadsInv, LoadsTyped
  <1>2. CASE \E s \in Slots : LoadStep(s) \/ LoadFails(s)
    BY <1>2, LoadStepKeeps
  <1>3. CASE (\E w \in Wallets \union {None} : SwitchAccount(w)) \/ StartCheck \/ TxFails
    <2>1. /\ contract' = contract /\ contract <= contract' /\ loads' = loads
          /\ address' = address /\ shown' = shown /\ account' \in Accounts
      BY <1>1, <1>3 DEF SwitchAccount, StartCheck, TxFails, Accounts
    <2> QED
      BY <1>1, <2>1, SameLoadsKeep
  <1>4. CASE WithTx
    <2>1. /\ UNCHANGED <<contract, account, loads, address>>
          /\ shown' = [shown EXCEPT !.patched = TRUE]
      BY <1>4 DEF WithTx
    <2> QED
      BY <1>1, <2>1, SameLoadsKeep
  <1>5. CASE OthersChange
    <2>1. /\ account' = account /\ loads' = loads /\ address' = address /\ shown' = shown
          /\ contract' \in Nat /\ contract <= contract'
      BY <1>1, <1>5 DEF OthersChange
    <2> QED
      BY <1>1, <2>1, SameLoadsKeep
  <1>6. CASE \E w \in Wallets : AnswerCheck(w)
    <2>1. PICK w \in Accounts : SetAddress(w) /\ UNCHANGED <<contract, account, shown>>
      BY <1>1, <1>6 DEF AnswerCheck, Accounts
    <2> QED
      BY <2>1, SetAddressKeeps
  <1>7. CASE Connect \/ Disconnect
    <2>1. PICK w \in Accounts : SetAddress(w) /\ UNCHANGED <<contract, account, shown>>
      BY <1>1, <1>7 DEF Connect, Disconnect, Accounts
    <2> QED
      BY <2>1, SetAddressKeeps
  <1>8. CASE TxSucceeds
    <2>1. /\ UNCHANGED <<account, address, shown>> /\ Reload(address')
          /\ contract' \in Nat /\ contract <= contract'
      BY <1>1, <1>8 DEF TxSucceeds
    <2> QED
      BY <1>1, <2>1, ReloadKeeps
  <1> QED
    BY <1>2, <1>3, <1>4, <1>5, <1>6, <1>7, <1>8 DEF ScreensNext

\* Leaving the page.
LEMMA LeaveKeeps ==
  ASSUME LoadsInv, LeavePage
  PROVE  LoadsInv' /\ NewerShown
  <1>1. /\ ~left /\ loads' = Cancelled
        /\ UNCHANGED <<contract, account, address, shown>>
    BY DEF LeavePage
  <1>2. LoadsTyped
    BY DEF LoadsInv
  <1>3. loads' \in [Slots -> {None} \union Load] /\ \A s \in Slots : ~Early(loads'[s])
    BY <1>1, <1>2, CancelledLoads
  <1>4. LoadsTyped'
    BY <1>1, <1>2, <1>3 DEF LoadsTyped
  <1> QED
    BY <1>1, <1>3, <1>4 DEF LoadsInv, NewerShown

\* Every step of the page.
LEMMA LoadsStep ==
  ASSUME LoadsInv, LiveNext
  PROVE  LoadsInv' /\ NewerShown
  <1>1. LoadsTyped /\ contract \in Nat /\ contract <= contract
        /\ account \in Accounts /\ address \in Accounts
    BY DEF LoadsInv, LoadsTyped
  <1>2. CASE ScreenStep
    <2>1. left' = left
      BY <1>2 DEF ScreenStep, liveVars
    <2>2. CASE ~left /\ ScreensNext
      BY <2>1, <2>2, ScreensKeep
    <2>3. CASE \E s \in Slots : LoadStep(s) \/ LoadFails(s)
      BY <2>1, <2>3, LoadStepKeeps
    <2> QED
      BY <1>2, <2>2, <2>3 DEF ScreenStep
  <1>3. CASE LeavePage
    BY <1>3, LeaveKeeps
  <1>4. ASSUME left' = left, UNCHANGED <<contract, account, address, loads, shown>>
        PROVE  LoadsInv' /\ NewerShown
    <2>1. /\ contract' = contract /\ account' = account /\ loads' = loads
          /\ address' = address /\ shown' = shown
      BY <1>4
    <2> QED
      BY <1>1, <1>4, <2>1, SameLoadsKeep
  <1>5. ASSUME ~left, left' = left, Reload(address),
               UNCHANGED <<contract, account, address, shown>>
        PROVE  LoadsInv' /\ NewerShown
    BY <1>1, <1>5, ReloadKeeps
  <1>6. CASE \/ PollTimer \/ AnswerLedger \/ Opened \/ LinkLost \/ ReconnectTimer
             \/ CloseLedger \/ \E q \in Questions : TaskFails(q)
    <2>1. left' = left /\ UNCHANGED <<contract, account, address, loads, shown>>
      BY <1>6 DEF PollTimer, AnswerLedger, Opened, LinkLost, ReconnectTimer, CloseLedger,
                  TaskFails, screenVars, pollVars, pushVars
    <2> QED
      BY <1>4, <2>1
  <1>7. CASE Pushed
    BY <1>5, <1>7 DEF Pushed, liveVars
  <1>8. CASE AnswerEvents
    <2>1. left' = left /\ UNCHANGED <<contract, account, address, shown>>
      BY <1>8 DEF AnswerEvents
    <2>2. (~left /\ Reload(address)) \/ UNCHANGED loads
      BY <1>8 DEF AnswerEvents
    <2> QED
      BY <1>4, <1>5, <2>1, <2>2
  <1> QED
    BY <1>2, <1>3, <1>6, <1>7, <1>8 DEF LiveNext

(***************************************************************************)
(* The screens never go back to an older state of the contract, nor to     *)
(* what another wallet was shown, in whatever order the answers of loads   *)
(* that overlap come in; and nothing that was under way when the page was  *)
(* left starts a load or changes the proposals (useContract.ts).           *)
(***************************************************************************)
THEOREM ScreensNewest == LiveSpec => NewestShown
  <1>1. ScreensInit /\ LiveInit => LoadsInv
    <2> SUFFICES ASSUME ScreensInit, LiveInit PROVE LoadsInv
      OBVIOUS
    <2>1. NewLoad(None) \in Load /\ NewLoad(None).wallet = None /\ NewLoad(None).stage = "base"
      BY DEF NewLoad, Load, Stages, Accounts
    <2>2. /\ loads \in [Slots -> {None} \union Load]
          /\ \A s \in Slots : Early(loads[s]) => s = 1 /\ loads[s] = NewLoad(None)
      BY <2>1 DEF ScreensInit, Early
    <2>3. /\ shown \in [version : Nat, wallet : Accounts, patched : BOOLEAN]
          /\ shown.version = 0
      BY DEF ScreensInit, Accounts
    <2>4. LoadsTyped
      BY <2>2, <2>3 DEF ScreensInit, LoadsTyped, Accounts
    <2>5. contract = 0 /\ address = None /\ ~left
      BY DEF ScreensInit, LiveInit
    <2> QED
      BY <2>1, <2>2, <2>3, <2>4, <2>5 DEF LoadsInv
  <1>2. ASSUME LoadsInv, UNCHANGED pageVars PROVE LoadsInv'
    <2>1. UNCHANGED <<contract, account, address, loads, shown, left>>
      BY <1>2 DEF pageVars, screenVars, liveVars
    <2> QED
      BY <1>2, <2>1 DEF LoadsInv, LoadsTyped
  <1>3. LoadsInv /\ [LiveNext]_pageVars => LoadsInv' /\ [NewerShown]_pageVars
    BY <1>2, LoadsStep
  <1> QED
    BY <1>1, <1>3, PTL DEF LiveSpec, NewestShown, NewerShown

-----------------------------------------------------------------------------
(* The dialogs *)

Dialog == ProposalForms \union {"recurring"}

\* From the preview on, the fields are those that were reviewed; the preview of a
\* payment waits for a simulation until one has answered.
DialogsInv ==
  /\ now \in Nat
  /\ menu \in Menus
  /\ draft \in menu \union {None} /\ (step # "closed" => draft \in menu)
  /\ previews \subseteq menu
  /\ step \in {"preview", "confirm"} => reviewed = draft
  /\ step = "preview" /\ Simulates(draft) /\ ~previewing => simulated # None
  /\ SentAsReviewed

\* A midnight that is later than the last one is still to come.
LEMMA MidnightAhead ==
  ASSUME NEW t \in Nat, NEW day \in Int, day * DayLength > (t \div DayLength) * DayLength
  PROVE  day * DayLength > t
  <1> DEFINE q == t \div DayLength
             r == t % DayLength
  <1>1. DayLength \in Nat \ {0}
    BY DialogsAssumption
  <1>2. q \in Int /\ r \in 0..DayLength - 1 /\ t = DayLength * q + r
    BY <1>1
  <1> HIDE DEF q, r
  <1>3. t < q * DayLength + DayLength
    BY <1>1, <1>2
  <1>4. day > q
    BY <1>1, <1>2 DEF q
  <1>5. day * DayLength >= (q + 1) * DayLength
    BY <1>1, <1>2, <1>4
  <1> QED
    BY <1>1, <1>2, <1>3, <1>5

\* A deadline that is accepted on a clock at UTC is still ahead.
LEMMA DeadlineAhead ==
  ASSUME DialogsInv, NEW k \in menu, Accepted(Drafts[k], wallet), zone = 0,
         Form(k) # "recurring"
  PROVE  EndsAt(Drafts[k], now) > now
  <1> DEFINE d == Drafts[k]
  <1>1. /\ d.form \in Forms /\ d.form # "recurring" /\ d.deadline \in Int \union {None}
        /\ d.deadline = None => d.form \notin Dated
        /\ now \in Nat /\ DayLength \in Nat \ {0} /\ MaxDays \in Nat \ {0}
    BY DraftsAssumption, DialogsAssumption DEF DialogsInv, Form
  <1> HIDE DEF d
  <1>2. CASE d.form \in Dated
    <2>1. ValidDeadline(d)
      BY <1>2 DEF Accepted, Dated, ProposalForms, TransferOk, AddOwnerOk, RemoveOwnerOk,
                  ThresholdOk, OwnerWeightOk, WeightOk, RoleOk, d
    <2>2. d.deadline \in Int /\ At(d.deadline) > (now \div DayLength) * DayLength
      BY <1>1, <1>2, <2>1 DEF ValidDeadline, Midnight, At
    <2>3. At(d.deadline) > now
      BY <1>1, <2>2, MidnightAhead DEF At
    <2> QED
      BY <1>2, <2>3 DEF EndsAt, Dated, ProposalForms, d
  <1>3. CASE d.form = "delegate"
    <2>1. d.deadline # None => At(d.deadline) > now
      BY <1>3 DEF Accepted, DelegateOk, d
    <2>2. now + 365 * DayLength > now
      BY <1>1
    <2> QED
      BY <1>3, <2>1, <2>2 DEF EndsAt, d
  <1>4. CASE d.form \in {"pause", "resume", "cancel", "modify"}
    <2>1. Days(d.deadline) \in Nat \ {0}
      BY <1>1 DEF Days
    <2>2. Days(d.deadline) * DayLength > 0
      BY <1>1, <2>1
    <2>3. Days(d.deadline) * DayLength \in Int
      BY <1>1, <2>1
    <2>4. now + Days(d.deadline) * DayLength > now
      BY <1>1, <2>2, <2>3
    <2> QED
      BY <1>4, <2>4 DEF EndsAt, d
  <1> QED
    BY <1>1, <1>2, <1>3, <1>4 DEF Forms

\* A submission of what was reviewed, of a dialog that is accepted or has no deadline.
LEMMA SendKeepsReviewed ==
  ASSUME DialogsInv, NEW k \in menu, Send(k),
         Form(k) \in Dialog => k = reviewed,
         Simulates(k) => simulated # None,
         Form(k) = "recurring" \/ Accepted(Drafts[k], wallet),
         UNCHANGED <<userVars, fieldVars, previewVars>>
  PROVE  DialogsInv'
  <1>1. /\ sent'.draft = k /\ sent'.reviewed = reviewed /\ sent'.simulated = simulated
        /\ sent'.at = now
    BY DEF Send
  <1>2. zone = 0 /\ EndsAt(Drafts[k], now) # None => EndsAt(Drafts[k], now) > now
    <2>1. CASE Form(k) = "recurring"
      BY <2>1 DEF EndsAt, Form
    <2>2. CASE Form(k) # "recurring"
      BY <2>2, DeadlineAhead
    <2> QED
      BY <2>1, <2>2
  <1>3. /\ UNCHANGED <<menu, zone, now, step, draft, reviewed, previews, simulated, previewing>>
    BY DEF userVars, fieldVars, previewVars
  <1>4. SentAsReviewed'
    BY <1>1, <1>2, <1>3 DEF SentAsReviewed, Dialog, Simulates, Form, EndsAt
  <1> QED
    BY <1>3, <1>4 DEF DialogsInv, Simulates, Form

LEMMA DialogsStep ==
  ASSUME DialogsInv, [DialogsNext]_dialogVars
  PROVE  DialogsInv'
  <1> USE DEF DialogsInv, userVars, fieldVars, previewVars, sentVars
  <1>1. ASSUME UNCHANGED <<zone, sent>> PROVE SentAsReviewed'
    BY <1>1 DEF SentAsReviewed, Simulates, Form
  <1>2. CASE UNCHANGED dialogVars
    BY <1>1, <1>2 DEF dialogVars, Simulates, Form
  <1>3. ASSUME NEW k \in menu, Open(k) \/ ChooseForm(k) \/ Edit(k) PROVE DialogsInv'
    BY <1>1, <1>3 DEF Open, ChooseForm, Edit
  <1>4. ASSUME NEW k \in menu, Simulated(k) PROVE DialogsInv'
    <2>1. k # None
      BY DraftsAssumption
    <2> QED
      BY <1>1, <1>4, <2>1 DEF Simulated
  <1>5. CASE Review \/ ReviewRecurring
    BY <1>1, <1>5 DEF Review, ReviewRecurring, EnterPreview, RunPreview, Shows, Simulates, Form
  <1>6. CASE Back \/ AskAgain
    BY <1>1, <1>6 DEF Back, AskAgain
  <1>7. CASE ConfirmProposal
    <2>1. draft \in menu /\ Form(draft) \in Dialog /\ draft = reviewed
      BY <1>7 DEF ConfirmProposal, Shows, Dialog
    <2>2. Simulates(draft) => simulated # None
      BY <1>7 DEF ConfirmProposal, Confirmable, Simulates, ProposalForms
    <2>3. Accepted(Drafts[draft], wallet) /\ Send(draft)
          /\ UNCHANGED <<userVars, fieldVars, previewVars>>
      BY <1>7 DEF ConfirmProposal
    <2> QED
      BY <2>1, <2>2, <2>3, SendKeepsReviewed
  <1>8. CASE ConfirmRecurring
    <2>1. reviewed \in menu /\ Form(reviewed) = "recurring" /\ draft = reviewed
      BY <1>8 DEF ConfirmRecurring
    <2>2. simulated # None
      BY <1>8, <2>1 DEF ConfirmRecurring, Confirmable, Simulates
    <2>3. Send(reviewed) /\ UNCHANGED <<userVars, fieldVars, previewVars>>
      BY <1>8 DEF ConfirmRecurring
    <2> QED
      BY <2>1, <2>2, <2>3, SendKeepsReviewed
  <1>9. CASE SubmitForm
    <2>1. draft \in menu /\ Form(draft) \notin Dialog /\ ~Simulates(draft)
      BY <1>9 DEF SubmitForm, Dialog, Simulates, ProposalForms
    <2>2. Accepted(Drafts[draft], wallet) /\ Send(draft)
          /\ UNCHANGED <<userVars, fieldVars, previewVars>>
      BY <1>9 DEF SubmitForm
    <2> QED
      BY <2>1, <2>2, SendKeepsReviewed
  <1>10. ASSUME NEW others, Leave(others), UNCHANGED <<userVars, sent>> PROVE DialogsInv'
    BY <1>1, <1>10 DEF Leave
  <1>11. ASSUME NEW c \in calls, NEW ok \in BOOLEAN, CallEnds(c, ok) PROVE DialogsInv'
    <2>1. CASE Leave(calls \ {c})
      BY <1>10, <1>11, <2>1 DEF CallEnds
    <2>2. CASE UNCHANGED <<userVars, fieldVars, previewVars, sent>>
      BY <1>1, <2>2 DEF Simulates, Form
    <2> QED
      BY <1>11, <2>1, <2>2 DEF CallEnds
  <1>12. CASE Close
    BY <1>10, <1>12 DEF Close
  <1>13. CASE (\E w \in Wallets \union {None} : ChangeWallet(w)) \/ PassTime
    BY <1>1, <1>13 DEF ChangeWallet, PassTime, Simulates, Form
  <1>14. CASE LoadData \/ LoadOwners
    BY <1>1, <1>14 DEF LoadData, LoadOwners, ReadOwners, Simulates, Form
  <1>15. ASSUME NEW form, NEW k \in menu, Modal(form, k) PROVE DialogsInv'
    BY <1>3, <1>9, <1>15 DEF Modal
  <1>16. CASE \E k \in menu : ProposalForm(k) \/ RecurringForm(k)
    BY <1>3, <1>16 DEF ProposalForm, RecurringForm
  <1>17. CASE ProposalSteps \/ RecurringPreview
    BY <1>5, <1>6, <1>7, <1>8, <1>14, <1>17 DEF ProposalSteps, RecurringPreview
  <1>18. CASE \E k \in menu :
                 \/ GrantRevokeRoleModal(k) \/ CreateWeightChangeProposalModal(k)
                 \/ DelegateModal(k) \/ PauseRecurringModal(k) \/ ResumeRecurringModal(k)
                 \/ CancelRecurringModal(k) \/ ModifyRecurringModal(k)
    BY <1>15, <1>18 DEF GrantRevokeRoleModal, CreateWeightChangeProposalModal, DelegateModal,
       PauseRecurringModal, ResumeRecurringModal, CancelRecurringModal, ModifyRecurringModal
  <1> QED
    BY <1>2, <1>4, <1>5, <1>11, <1>12, <1>13, <1>14, <1>16, <1>17, <1>18 DEF DialogsNext

(***************************************************************************)
(* What a dialog with a preview sends is what was reviewed and simulated,  *)
(* and its deadline is ahead on a clock at UTC, for any drafts, accounts,  *)
(* lengths of days and order of edits, answers and time (the dialogs of    *)
(* the console's components).                                              *)
(***************************************************************************)
THEOREM ReviewedIsSent == DialogsSpec => []SentAsReviewed
  <1>1. DialogsInit => DialogsInv
    BY DEF DialogsInit, DialogsInv, SentAsReviewed
  <1>2. DialogsInv /\ [DialogsNext]_dialogVars => DialogsInv'
    BY DialogsStep
  <1>3. DialogsInv => SentAsReviewed
    BY DEF DialogsInv
  <1> QED
    BY <1>1, <1>2, <1>3, PTL DEF DialogsSpec

-----------------------------------------------------------------------------
(* The analytics API *)

Answer == [query : Queries, rows : Nat \union {NoStamp}, crossed : BOOLEAN]

\* Young enough for the last time the cache was dropped, or under way then.
KeepsUp(r) == r.crossed \/ r.rows >= noticed

KeptAnswers == {r \in Answer : r.rows # NoStamp /\ KeepsUp(r)}

CacheInv ==
  /\ written \in 0..Len(Rows) /\ noticed \in Nat /\ noticed <= written
  /\ cache \in Seq(KeptAnswers)
  /\ requests \subseteq KeptAnswers \union {r \in Answer : r.rows = NoStamp}

\* A writer adds rows, it takes none out.
LEMMA WritesGrow ==
  ASSUME written \in 0..Len(Rows), WriteLedger
  PROVE  written' \in 0..Len(Rows) /\ written <= written'
  <1> DEFINE S == {n \in DOMAIN Rows : Rows[n].ledger = Rows[written + 1].ledger}
  <1>1. DOMAIN Rows = 1..Len(Rows) /\ Len(Rows) \in Nat
    BY AlertAssumption, LenProperties
  <1>2. written + 1 \in S /\ S \subseteq 1..Len(Rows)
    BY <1>1 DEF WriteLedger
  <1>3. written' = Max(S)
    BY DEF WriteLedger
  <1>4. S \in SUBSET Nat /\ S # {} /\ \A n \in S : n <= Len(Rows)
    BY <1>1, <1>2
  <1> HIDE DEF S
  <1>5. PICK m \in S : \A n \in S : n <= m
    BY <1>1, <1>4, GreatestMember
  <1>6. Max(S) \in S /\ \A n \in S : Max(S) >= n
    <2>1. \E x \in S : \A n \in S : x >= n
      BY <1>4, <1>5
    <2>2. Max(S) = CHOOSE x \in S : \A n \in S : x >= n
      BY DEF Max
    <2> QED
      BY <2>1, <2>2
  <1>7. Max(S) \in 1..Len(Rows) /\ Max(S) \in Nat /\ Max(S) >= written + 1
    <2>1. Max(S) \in 1..Len(Rows)
      BY <1>2, <1>6
    <2>2. Max(S) >= written + 1
      BY <1>2, <1>6
    <2> QED
      BY <1>1, <2>1, <2>2
  <1>8. written \in Nat
    BY <1>1
  <1> QED
    BY <1>1, <1>3, <1>7, <1>8

\* Taking an entry out leaves the others.
LEMMA WithoutKeeps ==
  ASSUME NEW S, cache \in Seq(S), NEW q
  PROVE  Without(q) \in Seq(S)
  <1>1. CASE ~Cached(q)
    BY <1>1 DEF Without
  <1>2. CASE Cached(q)
    <2> DEFINE i == CHOOSE i \in DOMAIN cache : cache[i].query = q
    <2>1. i \in 1..Len(cache) /\ Len(cache) \in Nat
      BY <1>2, LenProperties DEF Cached
    <2> HIDE DEF i
    <2>2. SubSeq(cache, 1, i - 1) \in Seq(S) /\ SubSeq(cache, i + 1, Len(cache)) \in Seq(S)
      BY <2>1
    <2>3. RemoveAt(cache, i) \in Seq(S)
      BY <2>2 DEF RemoveAt
    <2> QED
      BY <1>2, <2>3 DEF Without, i
  <1> QED
    BY <1>1, <1>2

\* Keeping an answer.
LEMMA PutKeeps ==
  ASSUME NEW S, cache \in Seq(S), NEW r \in S, Put(r)
  PROVE  cache' \in Seq(S)
  <1> DEFINE others == Without(r.query)
             room   == IF Len(others) >= MaxEntries /\ others # << >> THEN Tail(others) ELSE others
  <1>1. others \in Seq(S)
    BY WithoutKeeps
  <1>2. cache' = Append(room, r)
    BY DEF Put
  <1> HIDE DEF others
  <1>3. room \in Seq(S)
    <2>1. CASE others = << >>
      BY <1>1, <2>1
    <2>2. CASE others # << >>
      <3>1. Tail(others) \in Seq(S)
        BY <1>1, <2>2, HeadTailProperties
      <3> QED
        BY <1>1, <3>1
    <2> QED
      BY <2>1, <2>2
  <1> QED
    BY <1>2, <1>3, AppendProperties

\* What neither writes a row nor touches the cache keeps the invariant.
LEMMA CacheSame ==
  ASSUME CacheInv, UNCHANGED <<written, noticed, cache, requests>>
  PROVE  CacheInv'
  BY DEF CacheInv, KeptAnswers, KeepsUp

LEMMA CacheStep ==
  ASSUME CacheInv, ApiNext
  PROVE  CacheInv'
  <1>1. /\ written \in 0..Len(Rows) /\ written \in Nat /\ noticed \in Nat /\ noticed <= written
        /\ cache \in Seq(KeptAnswers) /\ requests \subseteq KeptAnswers \union {r \in Answer : r.rows = NoStamp}
    <2>1. Len(Rows) \in Nat
      BY AlertAssumption, LenProperties
    <2> QED
      BY <2>1 DEF CacheInv
  <1>2. CASE WriteLedger /\ UNCHANGED <<cacheVars, log>>
    <2>1. written' \in 0..Len(Rows) /\ written' \in Nat /\ written <= written'
      <3>1. Len(Rows) \in Nat
        BY AlertAssumption, LenProperties
      <3> QED
        BY <1>1, <1>2, <3>1, WritesGrow
    <2>2. UNCHANGED <<noticed, cache, requests>>
      BY <1>2 DEF cacheVars
    <2>3. KeptAnswers' = KeptAnswers
      BY <2>2 DEF KeptAnswers, KeepsUp
    <2> QED
      BY <1>1, <2>1, <2>2, <2>3 DEF CacheInv
  <1>3. ASSUME UNCHANGED <<written, noticed>>,
               cache' \in Seq(KeptAnswers),
               requests' \subseteq KeptAnswers \union {r \in Answer : r.rows = NoStamp}
        PROVE  CacheInv'
    <2>1. KeptAnswers' = KeptAnswers
      BY <1>3 DEF KeptAnswers, KeepsUp
    <2> QED
      BY <1>1, <1>3, <2>1 DEF CacheInv
  <1>4. CASE \E q \in Queries : Ask(q) \/ Expire(q)
    <2>1. PICK q \in Queries : Ask(q) \/ Expire(q)
      BY <1>4
    <2>2. UNCHANGED <<written, noticed>>
      BY <2>1 DEF Ask, Expire, alertVars, tableVars
    <2>3. CASE Ask(q)
      <3>1. [query |-> q, rows |-> NoStamp, crossed |-> FALSE]
              \in {r \in Answer : r.rows = NoStamp}
        BY DEF Answer
      <3> QED
        BY <1>1, <1>3, <2>2, <2>3, <3>1 DEF Ask
    <2>4. CASE Expire(q)
      BY <1>1, <1>3, <2>2, <2>4, WithoutKeeps DEF Expire
    <2> QED
      BY <2>1, <2>3, <2>4
  <1>5. CASE \E r \in requests : RunQuery(r) \/ Respond(r) \/ RespondUncached(r)
    <2>1. PICK r \in requests : RunQuery(r) \/ Respond(r) \/ RespondUncached(r)
      BY <1>5
    <2>2. UNCHANGED <<written, noticed>> /\ r \in Answer
      BY <1>1, <2>1 DEF RunQuery, Respond, RespondUncached, alertVars, tableVars, KeptAnswers
    <2>3. CASE RunQuery(r)
      <3> DEFINE a == [r EXCEPT !.rows = written]
      <3>1. a \in Answer /\ a.rows = written
        BY <1>1, <2>2 DEF Answer
      <3>2. requests' = (requests \ {r}) \union {a} /\ cache' = cache
        BY <2>3 DEF RunQuery
      <3> HIDE DEF a
      <3>3. a \in KeptAnswers
        BY <1>1, <3>1 DEF KeptAnswers, KeepsUp, NoStamp
      <3> QED
        BY <1>1, <1>3, <2>2, <3>2, <3>3
    <2>4. CASE Respond(r)
      <3>1. r \in KeptAnswers /\ requests' = requests \ {r} /\ Put(r)
        BY <1>1, <2>4 DEF Respond
      <3>2. cache' \in Seq(KeptAnswers)
        BY <1>1, <3>1, PutKeeps
      <3> QED
        BY <1>1, <1>3, <2>2, <3>1, <3>2
    <2>5. CASE RespondUncached(r)
      BY <1>1, <1>3, <2>2, <2>5 DEF RespondUncached
    <2> QED
      BY <2>1, <2>3, <2>4, <2>5
  <1>6. CASE Tick
    <2>1. written' = written
      BY <1>6 DEF Tick, tableVars
    <2>2. CASE UNCHANGED <<cache, noticed, requests>>
      BY <2>1, <2>2, CacheSame
    <2>3. CASE /\ cache' = << >> /\ noticed' = written
               /\ requests' = {[r EXCEPT !.crossed = r.rows # NoStamp] : r \in requests}
      <3>1. ASSUME NEW r \in requests
            PROVE  LET a == [r EXCEPT !.crossed = r.rows # NoStamp]
                   IN  a \in Answer /\ (a.crossed \/ a.rows = NoStamp)
        <4>1. r \in Answer
          BY <1>1, <3>1 DEF KeptAnswers
        <4> QED
          BY <4>1 DEF Answer
      <3>2. requests' \subseteq KeptAnswers' \union {r \in Answer : r.rows = NoStamp}
        BY <2>3, <3>1 DEF KeptAnswers, KeepsUp
      <3> QED
        BY <1>1, <2>1, <2>3, <3>2 DEF CacheInv
    <2> QED
      BY <1>6, <2>2, <2>3 DEF Tick
  <1>7. CASE Watch \/ (DatabaseFails /\ UNCHANGED <<cacheVars, log>>)
    <2>1. UNCHANGED <<written, noticed, cache, requests>>
      BY <1>7 DEF Watch, DatabaseFails, cacheVars, WatcherStep, SelectRows, Evaluate, RecordAlert,
                  Dispatch, RecordDelivery, MoveCursor, tableVars
    <2> QED
      BY <2>1, CacheSame
  <1>8. CASE Restart /\ cache' = << >> /\ requests' = {} /\ noticed' = 0
    <2>1. written' = written
      BY <1>8 DEF Restart, tableVars
    <2> QED
      BY <1>1, <1>8, <2>1 DEF CacheInv
  <1> QED
    BY <1>2, <1>4, <1>5, <1>6, <1>7, <1>8 DEF ApiNext, Trouble

(***************************************************************************)
(* A cached answer that is older than the rows the cache was last dropped  *)
(* for comes from a request that had read the tables and not yet answered  *)
(* at that moment, whatever the order of requests, ticks, writes and       *)
(* restarts: nothing else contradicts what limits.rs:5-7 says (alerts.rs,  *)
(* limits.rs).                                                             *)
(***************************************************************************)
THEOREM CacheYoung == ApiSpec => []CacheKeepsUp
  <1>1. ApiInit => CacheInv
    <2>1. Len(Rows) \in Nat
      BY AlertAssumption, LenProperties
    <2> QED
      BY <2>1 DEF ApiInit, AlertInit, CacheInv
  <1>2. CacheInv /\ [ApiNext]_apiVars => CacheInv'
    <2>1. ASSUME CacheInv, UNCHANGED apiVars PROVE CacheInv'
      <3>1. UNCHANGED <<written, noticed, cache, requests>>
        BY <2>1 DEF apiVars, alertVars, tableVars, cacheVars
      <3> QED
        BY <2>1, <3>1, CacheSame
    <2> QED
      BY <2>1, CacheStep
  <1>3. CacheInv => CacheKeepsUp
    <2> SUFFICES ASSUME CacheInv, NEW i \in DOMAIN cache PROVE cache[i] \in KeptAnswers
      BY DEF CacheKeepsUp, KeptAnswers, KeepsUp
    <2> QED
      BY ElementOfSeq, LenProperties DEF CacheInv
  <1> QED
    BY <1>1, <1>2, <1>3, PTL DEF ApiSpec

-----------------------------------------------------------------------------
(* The notices *)

\* An alert is in the table before it goes out, and no alert in the table
\* starts out again.
SendsInv ==
  /\ sends \in [Alert -> Nat]
  /\ \A a \in Alert : sends[a] <= 1 /\ (a \notin stored => sends[a] = 0)
  /\ task = "send" => Head(raised) \in stored
                      /\ (Head(raised) \in Alert => sends[Head(raised)] = 0)

LEMMA SendsStep ==
  ASSUME SendsInv, ApiNext
  PROVE  SendsInv'
  <1>1. CASE \/ UNCHANGED <<sends, stored, task, raised>>
             \/ UNCHANGED <<sends, stored>> /\ task' # "send"
    BY <1>1 DEF SendsInv
  <1>2. CASE \/ WriteLedger \/ (\E q \in Queries : Ask(q) \/ Expire(q))
             \/ \E r \in requests : RunQuery(r) \/ Respond(r) \/ RespondUncached(r)
    BY <1>1, <1>2 DEF WriteLedger, Ask, Expire, RunQuery, Respond, RespondUncached, alertVars,
                      tableVars, taskVars
  <1>3. CASE Tick
    BY <1>1, <1>3 DEF Tick, StartPoll, tableVars
  <1>4. CASE SelectRows \/ Evaluate \/ RecordDelivery \/ MoveCursor
    BY <1>1, <1>4 DEF SelectRows, Evaluate, RecordDelivery, MoveCursor, tableVars
  <1>5. CASE RecordAlert
    <2>1. CASE Head(raised) \in stored
      BY <1>1, <1>5, <2>1 DEF RecordAlert
    <2>2. CASE Head(raised) \notin stored
      BY <1>5, <2>2 DEF RecordAlert, SendsInv
    <2> QED
      BY <2>1, <2>2
  <1>6. CASE Dispatch
    <2>1. /\ sends' = [sends EXCEPT ![Head(raised)] = @ + 1]
          /\ stored' = stored /\ task' # "send" /\ Head(raised) \in stored
          /\ (Head(raised) \in Alert => sends[Head(raised)] = 0)
      BY <1>6 DEF Dispatch, SendsInv, tableVars
    <2>2. \A a \in Alert : sends'[a] = IF a = Head(raised) THEN 1 ELSE sends[a]
      BY <2>1 DEF SendsInv
    <2>3. sends' \in [Alert -> Nat]
      <3>1. DOMAIN sends' = Alert /\ sends' = [a \in Alert |-> sends'[a]]
        BY <2>1 DEF SendsInv
      <3>2. \A a \in Alert : sends'[a] \in Nat
        BY <2>2 DEF SendsInv
      <3> QED
        BY <3>1, <3>2
    <2> QED
      BY <2>1, <2>2, <2>3 DEF SendsInv
  <1>7. CASE DatabaseFails
    BY <1>7 DEF DatabaseFails, Abandon, SendsInv
  <1>8. CASE Restart
    BY <1>1, <1>8 DEF Restart, Abandon, tableVars
  <1> QED
    BY <1>2, <1>3, <1>4, <1>5, <1>6, <1>7, <1>8 DEF ApiNext, Watch, WatcherStep, Trouble

(***************************************************************************)
(* No alert goes to the channels twice, although a restart makes the       *)
(* engine forget what it raised and the watcher read its rows again, and   *)
(* whatever statement fails in between (alerts.rs).                        *)
(***************************************************************************)
THEOREM AlertsSentOnce == ApiSpec => []NotifiedOnce
  <1>1. ApiInit => SendsInv
    BY DEF ApiInit, AlertInit, SendsInv
  <1>2. SendsInv /\ [ApiNext]_apiVars => SendsInv'
    <2>1. ASSUME SendsInv, UNCHANGED apiVars PROVE SendsInv'
      BY <2>1 DEF SendsInv, apiVars, alertVars, tableVars, taskVars
    <2> QED
      BY <2>1, SendsStep
  <1>3. SendsInv => NotifiedOnce
    BY DEF SendsInv, NotifiedOnce
  <1> QED
    BY <1>1, <1>2, <1>3, PTL DEF ApiSpec

-----------------------------------------------------------------------------
(* The keeper *)

Places == {"asleep", "scan", "found", "pay", "confirm"}

Cycle == [at : Places, dry : BOOLEAN, id : Nat, misses : Nat, idle : BOOLEAN, due : Seq(Nat)]
Sight == [made : Nat, failed : SUBSET Nat, found : SUBSET Nat, tried : SUBSET Nat]

KeeperTyped ==
  /\ made \in Nat
  /\ cycle \in Cycle
  /\ sight \in Sight

\* Every schedule the cycle began with is behind the scan or above its reach.
ScanOver == cycle.id >= MaxScanIds \/ cycle.id > sight.made

KeeperInv ==
  /\ KeeperTyped
  /\ sight.made <= made
  /\ Scanned => ScanOver
  /\ cycle.at = "scan" => sight.tried = {}
  /\ cycle.at # "asleep" => sight.found = ToSet(cycle.due) \union sight.tried
  /\ cycle.at \in {"pay", "confirm"} => cycle.due # << >>
  /\ ~host.view => cycle.due = << >> /\ queued = {}

LEMMA AppendSet ==
  ASSUME NEW s \in Seq(Nat), NEW x \in Nat
  PROVE  Append(s, x) \in Seq(Nat) /\ ToSet(Append(s, x)) = ToSet(s) \union {x}
  <1>1. /\ Append(s, x) \in Seq(Nat) /\ Len(Append(s, x)) = Len(s) + 1
        /\ \A i \in 1..Len(s) : Append(s, x)[i] = s[i]
        /\ Append(s, x)[Len(s) + 1] = x
        /\ DOMAIN Append(s, x) = 1..Len(s) + 1 /\ DOMAIN s = 1..Len(s) /\ Len(s) \in Nat
    BY AppendProperties, LenProperties
  <1>2. ToSet(Append(s, x)) \subseteq ToSet(s) \union {x}
    BY <1>1 DEF ToSet
  <1>3. ToSet(s) \union {x} \subseteq ToSet(Append(s, x))
    BY <1>1 DEF ToSet
  <1> QED
    BY <1>1, <1>2, <1>3

LEMMA TailSet ==
  ASSUME NEW s \in Seq(Nat), s # << >>
  PROVE  /\ Tail(s) \in Seq(Nat) /\ Head(s) \in Nat
         /\ ToSet(s) = {Head(s)} \union ToSet(Tail(s))
         /\ Len(s) > 1 => Tail(s) # << >>
         /\ ~(Len(s) > 1) => ToSet(s) = {Head(s)}
  <1>1. /\ Tail(s) \in Seq(Nat) /\ Len(Tail(s)) = Len(s) - 1 /\ Head(s) \in Nat
        /\ \A i \in 1..Len(Tail(s)) : Tail(s)[i] = s[i + 1]
        /\ Head(s) = s[1]
        /\ DOMAIN Tail(s) = 1..(Len(s) - 1) /\ DOMAIN s = 1..Len(s)
        /\ Len(s) \in Nat /\ Len(s) >= 1
    BY HeadTailProperties, LenProperties
  <1>2. ToSet(Tail(s)) \union {Head(s)} \subseteq ToSet(s)
    BY <1>1 DEF ToSet
  <1>3. ASSUME NEW i \in 1..Len(s) PROVE s[i] \in ToSet(Tail(s)) \union {Head(s)}
    <2>1. CASE i = 1
      BY <1>1, <2>1
    <2>2. CASE i # 1
      <3>1. i - 1 \in 1..Len(Tail(s)) /\ Tail(s)[i - 1] = s[i]
        BY <1>1, <2>2
      <3> QED
        BY <1>1, <3>1 DEF ToSet
    <2> QED
      BY <2>1, <2>2
  <1>4. ToSet(s) \subseteq ToSet(Tail(s)) \union {Head(s)}
    BY <1>1, <1>3 DEF ToSet
  <1>5. Len(s) > 1 => Tail(s) # << >>
    <2>1. Len(<< >>) = 0
      OBVIOUS
    <2>2. Len(s) > 1 => Len(Tail(s)) # 0
      BY <1>1
    <2> QED
      BY <2>1, <2>2
  <1>6. ~(Len(s) > 1) => ToSet(s) = {Head(s)}
    BY <1>1 DEF ToSet
  <1> QED
    BY <1>1, <1>2, <1>4, <1>5, <1>6

\* The scan turns to the next id, or ends.
LEMMA OnwardKeeps ==
  ASSUME KeeperTyped, cycle.at = "scan"
  PROVE  /\ Onward(cycle.id) \in Cycle /\ Onward(cycle.id).due = cycle.due
         /\ Onward(cycle.id).at \in {"scan", "found"}
         /\ Onward(cycle.id).at = "found" => Onward(cycle.id).id >= MaxScanIds
  <1>1. MaxScanIds \in Nat /\ cycle \in Cycle /\ cycle.id \in Nat /\ cycle.id + 1 \in Nat
    BY KeeperAssumption DEF KeeperTyped, Cycle, Sight
  <1>2. CASE cycle.id < MaxScanIds
    <2>1. Onward(cycle.id) = [cycle EXCEPT !.id = cycle.id + 1]
      BY <1>2 DEF Onward
    <2> QED
      BY <1>1, <2>1 DEF Cycle
  <1>3. CASE ~(cycle.id < MaxScanIds)
    <2>1. Onward(cycle.id) = [cycle EXCEPT !.at = "found"]
      BY <1>3 DEF Onward
    <2>2. [cycle EXCEPT !.at = "found"] \in Cycle
      BY <1>1 DEF Cycle, Places
    <2>3. /\ [cycle EXCEPT !.at = "found"].at = "found"
          /\ [cycle EXCEPT !.at = "found"].id = cycle.id
          /\ [cycle EXCEPT !.at = "found"].due = cycle.due
      BY <1>1 DEF Cycle
    <2>4. cycle.id >= MaxScanIds
      BY <1>1, <1>3
    <2> QED
      BY <2>1, <2>2, <2>3, <2>4
  <1> QED
    BY <1>2, <1>3

\* The scan reads one id more.
LEMMA ScanKeeps ==
  ASSUME KeeperInv, ReadAnswered \/ ReadFails
  PROVE  KeeperInv'
  <1>1. KeeperTyped /\ cycle.at = "scan" /\ UNCHANGED <<host, made, queued>>
    BY DEF KeeperInv, ReadAnswered, ReadFails
  <1>2. /\ cycle.id \in Nat /\ MaxScanIds \in Nat /\ made \in Nat /\ sight.made \in Nat
        /\ sight.made <= made /\ cycle.due \in Seq(Nat) /\ cycle.misses \in Nat
        /\ sight.found = ToSet(cycle.due) /\ sight.tried = {}
        /\ (~host.view => cycle.due = << >> /\ queued = {})
    BY <1>1, KeeperAssumption DEF KeeperInv, KeeperTyped, Cycle, Sight
  <1>3. CASE ReadFails
    <2>1. sight' = [sight EXCEPT !.failed = @ \union {cycle.id}]
      BY <1>3 DEF ReadFails
    <2>2. /\ sight' \in Sight
          /\ sight'.made = sight.made /\ sight'.found = sight.found /\ sight'.tried = {}
      BY <1>1, <1>2, <2>1 DEF KeeperTyped, Cycle, Sight
    <2>3. /\ cycle' \in Cycle
          /\ cycle'.due = cycle.due /\ cycle'.at \in {"scan", "found"}
          /\ cycle'.at = "found" => cycle'.id >= MaxScanIds \/ cycle'.id > made
      <3>1. CASE cycle' = [cycle EXCEPT !.at = "found"] /\ IsMissing(cycle.id)
        BY <1>1, <1>2, <3>1 DEF IsMissing, KeeperTyped, Cycle, Places
      <3>2. CASE cycle' = [Onward(cycle.id) EXCEPT !.misses = @ + 1]
        <4>1. /\ cycle' = [Onward(cycle.id) EXCEPT !.misses = Onward(cycle.id).misses + 1]
              /\ Onward(cycle.id).misses + 1 \in Nat
          BY <3>2, OnwardKeeps, <1>1 DEF Cycle
        <4> QED
          BY <1>1, <4>1, OnwardKeeps DEF Cycle
      <3>3. CASE cycle' = [Onward(cycle.id) EXCEPT !.misses = 0]
        BY <1>1, <3>3, OnwardKeeps DEF Cycle
      <3> QED
        BY <1>3, <3>1, <3>2, <3>3 DEF ReadFails, ReadRefused
    <2>4. cycle'.id \in Nat
      BY <2>3 DEF Cycle
    <2>5. KeeperTyped'
      BY <1>1, <2>2, <2>3 DEF KeeperTyped, Cycle, Sight
    <2>6. cycle'.at = "found" => ScanOver'
      BY <1>2, <2>2, <2>3, <2>4 DEF ScanOver
    <2> QED
      BY <1>1, <1>2, <2>2, <2>3, <2>5, <2>6 DEF KeeperInv, Scanned
  <1>4. CASE ReadAnswered
    <2> DEFINE found == IF cycle.id \in ripe THEN sight.found \union {cycle.id} ELSE sight.found
               due   == IF cycle.id \in ripe THEN Append(cycle.due, cycle.id) ELSE cycle.due
    <2>1. /\ sight' = [sight EXCEPT !.found = found] /\ host.view
          /\ cycle' = [Onward(cycle.id) EXCEPT !.misses = 0, !.due = due]
      <3>1. Onward(cycle.id).due = cycle.due /\ Onward(cycle.id) \in Cycle
        BY <1>1, OnwardKeeps
      <3>2. cycle' = [Onward(cycle.id) EXCEPT !.misses = 0,
                         !.due = IF cycle.id \in ripe THEN Append(Onward(cycle.id).due, cycle.id)
                                 ELSE Onward(cycle.id).due]
        BY <1>4, <3>1 DEF ReadAnswered, Cycle
      <3>3. sight' = [sight EXCEPT !.found = found] /\ host.view
        BY <1>4 DEF ReadAnswered
      <3> QED
        BY <3>1, <3>2, <3>3
    <2>2. due \in Seq(Nat) /\ found = ToSet(due)
      <3>1. CASE cycle.id \in ripe
        BY <1>2, <3>1, AppendSet
      <3>2. CASE cycle.id \notin ripe
        BY <1>2, <3>2
      <3> QED
        BY <3>1, <3>2
    <2>3. found \in SUBSET Nat
      BY <1>1, <1>2 DEF KeeperTyped, Cycle, Sight
    <2> HIDE DEF found, due
    <2>4. /\ sight' \in Sight
          /\ sight'.made = sight.made /\ sight'.found = found /\ sight'.tried = {}
      BY <1>1, <1>2, <2>1, <2>3 DEF KeeperTyped, Cycle, Sight
    <2>5. /\ cycle' \in Cycle
          /\ cycle'.due = due /\ cycle'.at \in {"scan", "found"}
          /\ cycle'.at = "found" => cycle'.id >= MaxScanIds
      BY <1>1, <2>1, <2>2, OnwardKeeps DEF Cycle
    <2>6. KeeperTyped'
      BY <1>1, <2>4, <2>5 DEF KeeperTyped, Cycle, Sight
    <2> QED
      BY <1>1, <1>2, <2>1, <2>2, <2>4, <2>5, <2>6 DEF KeeperInv, Scanned, ScanOver
  <1> QED
    BY <1>3, <1>4

\* The cycle ends.
LEMMA SleepKeeps ==
  ASSUME KeeperInv, cycle' = Asleep, sight' = Unseen,
         host' = host, made' = made, queued' = queued
  PROVE  KeeperInv'
  <1>1. /\ Asleep \in Cycle
        /\ Asleep.at = "asleep" /\ Asleep.due = << >>
    BY DEF Asleep, Places, Cycle
  <1>2. /\ Unseen \in Sight
        /\ Unseen.made = 0
    BY DEF Unseen, Sight
  <1> QED
    BY <1>1, <1>2 DEF KeeperInv, KeeperTyped, Cycle, Sight, Scanned

\* The keeper passes on to the next schedule, or ends the cycle.
LEMMA NextDueKeeps ==
  ASSUME KeeperInv, cycle.at \in {"pay", "confirm"}, cycle' = AfterThis, sight' = Leaving,
         host' = host, made' = made, queued' = queued
  PROVE  KeeperInv'
  <1>1. /\ KeeperTyped /\ cycle.due \in Seq(Nat) /\ cycle.due # << >>
        /\ sight.found = ToSet(cycle.due) \union sight.tried /\ ScanOver /\ sight.made <= made
        /\ host.view
    BY DEF KeeperInv, KeeperTyped, Cycle, Sight, Scanned
  <1>2. CASE Len(cycle.due) > 1
    <2> DEFINE rest == Tail(cycle.due)
               done  == sight.tried \union {Head(cycle.due)}
    <2>1. /\ rest \in Seq(Nat) /\ rest # << >> /\ Head(cycle.due) \in Nat
          /\ ToSet(cycle.due) = {Head(cycle.due)} \union ToSet(rest)
      BY <1>1, <1>2, TailSet
    <2>2. done \in SUBSET Nat /\ ToSet(rest) \union done = sight.found
      BY <1>1, <2>1 DEF KeeperTyped, Cycle, Sight
    <2>3. /\ cycle' = [cycle EXCEPT !.at = "pay", !.due = rest]
          /\ sight' = [sight EXCEPT !.tried = done]
      BY <1>2 DEF AfterThis, Leaving, Tried
    <2> HIDE DEF rest, done
    <2>4. /\ cycle' \in Cycle
          /\ cycle'.due = rest /\ cycle'.at = "pay" /\ cycle'.id = cycle.id
      BY <1>1, <2>1, <2>3 DEF KeeperTyped, Cycle, Sight, Places
    <2>5. /\ sight' \in Sight
          /\ sight'.made = sight.made /\ sight'.found = sight.found /\ sight'.tried = done
      BY <1>1, <2>2, <2>3 DEF KeeperTyped, Cycle, Sight
    <2>6. KeeperTyped'
      BY <1>1, <2>4, <2>5 DEF KeeperTyped, Cycle, Sight
    <2> QED
      BY <1>1, <2>1, <2>2, <2>4, <2>5, <2>6 DEF KeeperInv, ScanOver
  <1>3. CASE ~(Len(cycle.due) > 1)
    <2>1. cycle' = Asleep /\ sight' = Unseen
      BY <1>3 DEF AfterThis, Leaving
    <2> QED
      BY <1>1, <2>1, SleepKeeps
  <1> QED
    BY <1>2, <1>3

LEMMA KeeperStep ==
  ASSUME KeeperInv, KeeperNext
  PROVE  KeeperInv'
  <1>1. /\ KeeperTyped /\ made \in Nat /\ sight.made \in Nat /\ sight.made <= made
        /\ (~host.view => cycle.due = << >> /\ queued = {})
    BY DEF KeeperInv, KeeperTyped, Cycle, Sight
  <1>2. CASE StartCycle
    <2>1. PICK idle \in BOOLEAN, dry \in BOOLEAN :
            cycle' = [Asleep EXCEPT !.at = "scan", !.id = 1, !.dry = dry, !.idle = idle]
      BY <1>2 DEF StartCycle
    <2>2. /\ cycle' \in Cycle
          /\ cycle'.at = "scan" /\ cycle'.due = << >>
      <3>1. cycle' = [at |-> "scan", dry |-> dry, id |-> 1, misses |-> 0, idle |-> idle,
                      due |-> << >>]
        BY <2>1 DEF Asleep
      <3> QED
        BY <3>1 DEF Cycle, Places
    <2>3. /\ sight' \in Sight
          /\ sight'.made = made /\ sight'.found = {} /\ sight'.tried = {}
      BY <1>1, <1>2 DEF StartCycle, Unseen, Sight
    <2>4. UNCHANGED <<host, made, queued>>
      BY <1>2 DEF StartCycle
    <2> QED
      BY <1>1, <2>2, <2>3, <2>4 DEF KeeperInv, KeeperTyped, Cycle, Sight, Scanned, ToSet
  <1>3. CASE ReadAnswered \/ ReadFails
    BY <1>3, ScanKeeps
  <1>4. CASE Settle
    <2>1. cycle.at = "found" /\ host' = host /\ made' = made /\ queued' = queued
      BY <1>4 DEF Settle
    <2>2. CASE cycle.due = << >> \/ cycle.dry
      BY <1>1, <1>4, <2>1, <2>2, SleepKeeps DEF Settle
    <2>3. CASE ~(cycle.due = << >> \/ cycle.dry)
      <3>1. cycle' = [cycle EXCEPT !.at = "pay"] /\ sight' = sight /\ cycle.due # << >>
        BY <1>4, <2>3 DEF Settle
      <3>2. /\ cycle' \in Cycle
            /\ cycle'.due = cycle.due /\ cycle'.at = "pay" /\ cycle'.id = cycle.id
        BY <1>1, <3>1 DEF KeeperTyped, Cycle, Sight, Places
      <3> QED
        BY <2>1, <3>1, <3>2 DEF KeeperInv, KeeperTyped, Cycle, Sight, Scanned, ScanOver
    <2> QED
      BY <2>2, <2>3
  <1>5. CASE Skip
    BY <1>5, NextDueKeeps DEF Skip
  <1>6. CASE Disburse
    <2>1. /\ cycle.at = "pay" /\ host' = host /\ made' = made
          /\ cycle' = [cycle EXCEPT !.at = "confirm"] /\ sight' = Tried
      BY <1>6 DEF Disburse
    <2>2. /\ cycle.due \in Seq(Nat) /\ cycle.due # << >> /\ host.view /\ ScanOver
          /\ sight.found = ToSet(cycle.due) \union sight.tried
      BY <2>1 DEF KeeperInv, KeeperTyped, Cycle, Sight, Scanned
    <2>3. Head(cycle.due) \in Nat /\ Head(cycle.due) \in ToSet(cycle.due)
      BY <2>2, TailSet
    <2> DEFINE done == sight.tried \union {Head(cycle.due)}
    <2>4. done \in SUBSET Nat /\ sight.found = ToSet(cycle.due) \union done
      BY <1>1, <2>2, <2>3 DEF KeeperTyped, Cycle, Sight
    <2>5. sight' = [sight EXCEPT !.tried = done]
      BY <2>1 DEF Tried
    <2> HIDE DEF done
    <2>6. /\ sight' \in Sight
          /\ sight'.made = sight.made /\ sight'.found = sight.found /\ sight'.tried = done
      BY <1>1, <2>4, <2>5 DEF KeeperTyped, Cycle, Sight
    <2>7. /\ cycle' \in Cycle
          /\ cycle'.due = cycle.due /\ cycle'.at = "confirm" /\ cycle'.id = cycle.id
      BY <1>1, <2>1 DEF KeeperTyped, Cycle, Sight, Places
    <2> QED
      BY <1>1, <2>1, <2>2, <2>4, <2>6, <2>7 DEF KeeperInv, KeeperTyped, Cycle, Sight, ScanOver
  <1>7. CASE Confirm
    BY <1>7, NextDueKeeps DEF Confirm
  <1>8. CASE \E id \in queued : Land(id)
    <2>1. UNCHANGED <<host, made, cycle, sight>> /\ queued' \subseteq queued
      BY <1>8 DEF Land
    <2> QED
      BY <1>1, <2>1 DEF KeeperInv, KeeperTyped, Cycle, Sight, Scanned, ScanOver
  <1>9. CASE Change
    <2>1. UNCHANGED <<host, queued, cycle, sight>> /\ made' \in Nat /\ made <= made'
      BY <1>1, <1>9 DEF Change
    <2> QED
      BY <1>1, <2>1 DEF KeeperInv, KeeperTyped, Cycle, Sight, Scanned, ScanOver
  <1> QED
    BY <1>2, <1>3, <1>4, <1>5, <1>6, <1>7, <1>8, <1>9 DEF KeeperNext

(***************************************************************************)
(* One bad schedule or request costs only itself: however many schedules   *)
(* there are and whatever others do to them, a scan that has ended has     *)
(* looked at every schedule within its reach, whose own read did not fail; *)
(* whatever it found due is tried; and a contract without the view the     *)
(* keeper counts on is never sent a disbursement (keeper-recurring.js).    *)
(***************************************************************************)
THEOREM ScanThorough == KeeperSpec => []KeeperThorough
  <1>1. KeeperInit => KeeperInv
    <2> SUFFICES ASSUME KeeperInit PROVE KeeperInv
      OBVIOUS
    <2>1. /\ Asleep \in Cycle
          /\ Asleep.at = "asleep" /\ Asleep.due = << >>
      BY DEF Asleep, Places, Cycle
    <2>2. /\ Unseen \in Sight
          /\ Unseen.made = 0
      BY DEF Unseen, Sight
    <2> QED
      BY <2>1, <2>2 DEF KeeperInit, KeeperInv, KeeperTyped, Cycle, Sight, Scanned
  <1>2. ASSUME KeeperInv, UNCHANGED keeperVars PROVE KeeperInv'
    BY <1>2 DEF KeeperInv, KeeperTyped, Cycle, Sight, Scanned, ScanOver, keeperVars
  <1>3. KeeperInv /\ [KeeperNext]_keeperVars => KeeperInv'
    BY <1>2, KeeperStep
  <1>4. KeeperInv => KeeperThorough
    <2> SUFFICES ASSUME KeeperInv PROVE KeeperThorough
      OBVIOUS
    <2>1. /\ cycle.id \in Nat /\ sight.made \in Nat /\ MaxScanIds \in Nat
          /\ (Scanned => ScanOver)
      BY KeeperAssumption DEF KeeperInv, KeeperTyped, Cycle, Sight
    <2>2. Unconfirmed = ToSet(cycle.due)
      BY DEF Unconfirmed, ToSet
    <2>3. Scanned => sight.found = Unconfirmed \union sight.tried
      BY <2>2 DEF KeeperInv, Scanned
    <2>4. ~host.view => Unconfirmed = {} /\ queued = {}
      BY <2>2 DEF KeeperInv, ToSet
    <2>5. Scanned => \A id \in 1..MaxScanIds :
                       id <= sight.made => id \in sight.failed \/ id <= cycle.id
      BY <2>1 DEF ScanOver
    <2> QED
      BY <2>3, <2>4, <2>5 DEF KeeperThorough
  <1> QED
    BY <1>1, <1>3, <1>4, PTL DEF KeeperSpec

-----------------------------------------------------------------------------
(* The status page *)

\* What is not there is not a document or a page.
NothingThere ==
  /\ \A previous, samples :
       BuildDocument(previous, samples) # NoPage /\ BuildDocument(previous, samples).services # NoPage
  /\ \A doc, incidents : RenderStatusPage(doc, incidents) # NoPage

JobTyped ==
  /\ clock \in Nat
  /\ DOMAIN repo = {"doc", "page", "incidents"}
  /\ DOMAIN witness = {"services", "worst", "decided", "current"}
  /\ DOMAIN job = {"at", "tree", "samples", "decided", "clean"}
  /\ job.at \in {"idle", "probe", "push"}
  /\ DOMAIN job.samples \subseteq Services
  /\ \A s \in DOMAIN job.samples : job.samples[s].at \in Nat /\ job.samples[s].at <= clock

\* Samples are taken within a tick and after the document that is on the branch.
SamplesFresh ==
  /\ job.at = "probe" => \A s \in DOMAIN job.samples : clock <= job.samples[s].at + 1
  /\ repo.doc # NoPage => /\ repo.doc.at \in Nat /\ repo.doc.at <= clock
                          /\ \A s \in DOMAIN job.samples : repo.doc.at <= job.samples[s].at

\* The checkout is the branch but for the notes, and these too until an edit; what is
\* pushed is built from it.
CheckoutTrue ==
  /\ job.at # "idle" =>
       /\ DOMAIN job.tree = {"doc", "page", "incidents"}
       /\ job.clean => job.tree.incidents = repo.incidents
  /\ job.at = "probe" => job.tree.doc = repo.doc /\ job.tree.page = repo.page
  /\ job.at = "push" =>
       /\ DOMAIN job.samples = Services
       /\ job.tree.doc = BuildDocument(repo.doc, job.samples)
       /\ job.tree.page = RenderStatusPage(job.tree.doc, job.tree.incidents)
       /\ job.decided \in Nat /\ job.decided <= job.samples[First].at + 1

\* Days that were seen end with the document's, days that are shown are in its window.
DaysWithin(doc, worst) ==
  \A s \in Services :
    /\ DOMAIN doc.days[s] \subseteq Window(doc.at)
    /\ \A d \in DOMAIN worst[s] : d \in Nat /\ d <= Day(doc.at)

\* The bars of the document are those of what was seen.
BarsTrue(doc, worst) ==
  \A s \in Services, d \in Window(doc.at) :
    IF d \in DOMAIN worst[s]
      THEN d \in DOMAIN doc.days[s] /\ doc.days[s][d] = worst[s][d]
      ELSE d \notin DOMAIN doc.days[s]

DocumentTrue ==
  /\ repo.doc = NoPage => /\ witness.services = NoPage
                          /\ \A s \in Services : DOMAIN witness.worst[s] = {}
  /\ repo.doc # NoPage =>
       /\ witness.services # NoPage /\ repo.doc.services = witness.services
       /\ DaysWithin(repo.doc, witness.worst)
       /\ BarsTrue(repo.doc, witness.worst)
       /\ witness.decided - repo.doc.at < HeartbeatTicks
       /\ \E incidents : repo.page = RenderStatusPage(repo.doc, incidents)
       /\ witness.current => repo.page = RenderStatusPage(repo.doc, repo.incidents)

StatusInv == JobTyped /\ SamplesFresh /\ CheckoutTrue /\ DocumentTrue

LEMMA DayGrows ==
  ASSUME NEW s \in Nat, NEW t \in Nat, s <= t
  PROVE  Day(s) \in Nat /\ Day(s) <= Day(t)
  <1> DEFINE p == s \div DayProbes
             q == t \div DayProbes
  <1>1. DayProbes \in Nat \ {0}
    BY StatusPageAssumption
  <1>2. /\ p \in Nat /\ p * DayProbes <= s
        /\ q \in Nat /\ t < q * DayProbes + DayProbes
    BY <1>1
  <1> HIDE DEF p, q
  <1>3. ASSUME q < p PROVE FALSE
    <2>1. PICK z \in Nat : p = q + 1 + z
      <3>1. p - q - 1 \in Nat /\ p = q + 1 + (p - q - 1)
        BY <1>2, <1>3
      <3> QED
        BY <3>1
    <2>2. p * DayProbes = q * DayProbes + DayProbes + z * DayProbes
      BY <1>1, <1>2, <2>1
    <2>3. z * DayProbes \in Nat /\ q * DayProbes \in Nat
      BY <1>1, <1>2
    <2> QED
      BY <1>1, <1>2, <2>2, <2>3
  <1> QED
    BY <1>2, <1>3 DEF p, q, Day

\* A window that moves on has no old days that it had not.
LEMMA WindowMoves ==
  ASSUME NEW s \in Nat, NEW t \in Nat, s <= t
  PROVE  /\ \A d \in Window(t) : d \in Nat /\ d <= Day(t) /\ (d <= Day(s) => d \in Window(s))
         /\ Day(t) \in Window(t)
         /\ \A d \in Window(s) : d <= Day(s)
         /\ Day(s) = Day(t) => Window(s) = Window(t)
  <1>1. Day(s) \in Nat /\ Day(t) \in Nat /\ Day(s) <= Day(t)
    BY DayGrows
  <1>2. HistoryDays \in Nat \ {0}
    BY StatusPageAssumption
  <1> QED
    BY <1>1, <1>2 DEF Window

\* What a job that has both samples would publish tells what has been seen with it.
LEMMA BuiltIsSeen ==
  ASSUME StatusInv, NothingThere, job.at # "idle", DOMAIN job.samples = Services, NEW decided
  PROVE  LET next == BuildDocument(repo.doc, job.samples)
             told == Witnessed(decided)
         IN  /\ next # NoPage /\ next.at = job.samples[First].at
             /\ next.services = told.services /\ told.services # NoPage
             /\ DaysWithin(next, told.worst) /\ BarsTrue(next, told.worst)
             /\ Day(next.at) \in DOMAIN next.days[First]
  <1> DEFINE next == BuildDocument(repo.doc, job.samples)
             told == Witnessed(decided)
             at   == job.samples[First].at
             days(s)  == IF repo.doc = NoPage THEN Empty ELSE repo.doc.days[s]
             today(s) == IF Day(job.samples[s].at) = Day(at) THEN {Day(at)} ELSE {}
             kept(s)  == DOMAIN days(s) \cap Window(at)
  <1>1. /\ next.at = at /\ next # NoPage /\ next.services # NoPage
        /\ First \in Services /\ at \in Nat
    <2>1. First \in Services
      BY StatusPageAssumption DEF Services
    <2>2. at \in Nat
      BY <2>1 DEF StatusInv, JobTyped
    <2>3. next # NoPage /\ next.services # NoPage
      BY DEF NothingThere
    <2>4. next.at = at
      BY DEF BuildDocument
    <2> HIDE DEF next, at
    <2> QED
      BY <2>1, <2>2, <2>3, <2>4
  <1>2. next.services = told.services
    <2>1. next.services =
            [s \in Services |->
               [status |-> job.samples[s].status,
                since  |-> IF repo.doc # NoPage /\ repo.doc.services[s].status = job.samples[s].status
                             THEN repo.doc.services[s].since ELSE job.samples[s].at]]
      BY DEF BuildDocument
    <2>2. told.services =
            [s \in Services |->
               [status |-> job.samples[s].status,
                since  |-> IF witness.services # NoPage
                                /\ witness.services[s].status = job.samples[s].status
                             THEN witness.services[s].since ELSE job.samples[s].at]]
      BY DEF Witnessed
    <2>3. /\ repo.doc = NoPage <=> witness.services = NoPage
          /\ repo.doc # NoPage => repo.doc.services = witness.services
      BY DEF StatusInv, DocumentTrue
    <2> QED
      BY <2>1, <2>2, <2>3
  <1>3. ASSUME NEW s \in Services
        PROVE  /\ DOMAIN next.days[s] = kept(s) \cup today(s)
               /\ \A d \in kept(s) \cup today(s) :
                    next.days[s][d] =
                      WorstStatus((IF d \in kept(s) THEN {days(s)[d]} ELSE {})
                                  \cup (IF d \in today(s) THEN {job.samples[s].status} ELSE {}))
    BY <1>3 DEF BuildDocument, MergeAvailability
  <1>4. ASSUME NEW s \in Services
        PROVE  /\ DOMAIN told.worst[s] = DOMAIN witness.worst[s] \cup today(s)
               /\ \A d \in DOMAIN witness.worst[s] \cup today(s) :
                    told.worst[s][d] =
                      WorstStatus((IF d \in DOMAIN witness.worst[s] THEN {witness.worst[s][d]} ELSE {})
                                  \cup (IF d \in today(s) THEN {job.samples[s].status} ELSE {}))
    BY <1>4 DEF Witnessed
  \* What was known of the days of the new window is what had been seen of them.
  <1>5. ASSUME NEW s \in Services
        PROVE  /\ \A d \in DOMAIN witness.worst[s] : d \in Nat /\ d <= Day(at)
               /\ \A d \in Window(at) :
                    /\ d \in DOMAIN witness.worst[s] <=> d \in DOMAIN days(s)
                    /\ d \in DOMAIN days(s) => days(s)[d] = witness.worst[s][d]
    <2>1. CASE repo.doc = NoPage
      <3>1. DOMAIN witness.worst[s] = {} /\ DOMAIN days(s) = {}
        BY <2>1 DEF StatusInv, DocumentTrue, Empty
      <3> QED
        BY <3>1
    <2>2. CASE repo.doc # NoPage
      <3>1. /\ repo.doc.at \in Nat /\ repo.doc.at <= at /\ days(s) = repo.doc.days[s]
            /\ DaysWithin(repo.doc, witness.worst) /\ BarsTrue(repo.doc, witness.worst)
        BY <1>1, <2>2 DEF StatusInv, DocumentTrue, SamplesFresh
      <3>2. Day(repo.doc.at) \in Nat /\ Day(at) \in Nat /\ Day(repo.doc.at) <= Day(at)
        BY <1>1, <3>1, DayGrows
      <3>3. /\ \A d \in Window(at) : d <= Day(repo.doc.at) => d \in Window(repo.doc.at)
            /\ \A d \in Window(repo.doc.at) : d <= Day(repo.doc.at)
        BY <1>1, <3>1, WindowMoves
      <3>4. ASSUME NEW d \in Window(at), d \in DOMAIN witness.worst[s] \/ d \in DOMAIN days(s)
            PROVE  d \in Window(repo.doc.at)
        BY <3>1, <3>3, <3>4 DEF DaysWithin
      <3>5. \A d \in DOMAIN witness.worst[s] : d \in Nat /\ d <= Day(at)
        BY <3>1, <3>2 DEF DaysWithin
      <3> HIDE DEF days
      <3> QED
        BY <3>1, <3>4, <3>5 DEF BarsTrue
    <2> QED
      BY <2>1, <2>2
  <1>6. Day(at) \in Nat /\ Day(at) \in Window(at) /\ Day(at) \in today(First)
    BY <1>1, DayGrows, WindowMoves
  <1>7. \A s \in Services : \A d \in today(s) : d = Day(at)
    OBVIOUS
  <1> HIDE DEF next, told, at, days, today
  <1>8. DaysWithin(next, told.worst)
    BY <1>1, <1>3, <1>4, <1>5, <1>6, <1>7 DEF DaysWithin
  <1>9. BarsTrue(next, told.worst)
    <2> SUFFICES ASSUME NEW s \in Services, NEW d \in Window(at)
                 PROVE  IF d \in DOMAIN told.worst[s]
                          THEN d \in DOMAIN next.days[s] /\ next.days[s][d] = told.worst[s][d]
                          ELSE d \notin DOMAIN next.days[s]
      BY <1>1 DEF BarsTrue
    <2>1. d \in kept(s) <=> d \in DOMAIN witness.worst[s]
      BY <1>5
    <2>2. d \in kept(s) => days(s)[d] = witness.worst[s][d]
      BY <1>5
    <2> HIDE DEF kept
    <2>3. d \in DOMAIN next.days[s] <=> d \in DOMAIN told.worst[s]
      BY <1>3, <1>4, <2>1
    <2>4. ASSUME d \in DOMAIN next.days[s] PROVE next.days[s][d] = told.worst[s][d]
      <3>1. (IF d \in kept(s) THEN {days(s)[d]} ELSE {})
              = (IF d \in DOMAIN witness.worst[s] THEN {witness.worst[s][d]} ELSE {})
        BY <2>1, <2>2
      <3>2. d \in kept(s) \cup today(s) /\ d \in DOMAIN witness.worst[s] \cup today(s)
        BY <1>3, <2>1, <2>4
      <3>3. next.days[s][d] =
              WorstStatus((IF d \in kept(s) THEN {days(s)[d]} ELSE {})
                          \cup (IF d \in today(s) THEN {job.samples[s].status} ELSE {}))
        BY <1>3, <3>2
      <3>4. told.worst[s][d] =
              WorstStatus((IF d \in DOMAIN witness.worst[s] THEN {witness.worst[s][d]} ELSE {})
                          \cup (IF d \in today(s) THEN {job.samples[s].status} ELSE {}))
        BY <1>4, <3>2
      <3> QED
        BY <3>1, <3>3, <3>4, Zenon
    <2> QED
      BY <2>3, <2>4
  <1>10. Day(at) \in DOMAIN next.days[First]
    BY <1>1, <1>3, <1>6
  <1> QED
    BY <1>1, <1>2, <1>8, <1>9, <1>10 DEF next, told, at

LEMMA SameDocument ==
  ASSUME DocumentTrue, UNCHANGED <<repo, witness>>
  PROVE  DocumentTrue'
  BY DEF DocumentTrue, DaysWithin, BarsTrue

\* No job, or the end of one.
LEMMA IdleKeeps ==
  ASSUME JobTyped, job' = Idling, UNCHANGED clock, DOMAIN repo' = DOMAIN repo,
         DOMAIN witness' = DOMAIN witness, DocumentTrue',
         repo'.doc # NoPage => repo'.doc.at \in Nat /\ repo'.doc.at <= clock
  PROVE  StatusInv'
  <1>1. /\ DOMAIN Idling = {"at", "tree", "samples", "decided", "clean"}
        /\ Idling.at = "idle" /\ DOMAIN Idling.samples = {}
    BY DEF Idling, Empty
  <1>2. JobTyped' /\ SamplesFresh' /\ CheckoutTrue'
    BY <1>1 DEF JobTyped, SamplesFresh, CheckoutTrue
  <1> QED
    BY <1>2 DEF StatusInv

LEMMA StartJobKeeps ==
  ASSUME StatusInv, StartJob
  PROVE  StatusInv'
  <1>1. /\ job' = [Idling EXCEPT !.at = "probe", !.tree = repo, !.clean = TRUE]
        /\ UNCHANGED <<repo, clock, witness>>
    BY DEF StartJob
  <1>2. /\ DOMAIN job' = {"at", "tree", "samples", "decided", "clean"}
        /\ job'.at = "probe" /\ DOMAIN job'.samples = {} /\ job'.tree = repo
    BY <1>1 DEF Idling, Empty
  <1>3. DocumentTrue'
    BY <1>1, SameDocument DEF StatusInv
  <1>4. JobTyped' /\ SamplesFresh' /\ CheckoutTrue'
    BY <1>1, <1>2 DEF StatusInv, JobTyped, SamplesFresh, CheckoutTrue
  <1> QED
    BY <1>3, <1>4 DEF StatusInv

LEMMA ProbeKeeps ==
  ASSUME StatusInv, NEW s \in Services, ProbeService(s)
  PROVE  StatusInv'
  <1>1. PICK a \in Answers[s] :
          job' = [job EXCEPT !.samples =
                    [o \in DOMAIN job.samples \cup {s} |->
                       IF o = s THEN [status |-> MapProbeResult(a), at |-> clock]
                                ELSE job.samples[o]]]
    BY DEF ProbeService
  <1>2. job.at = "probe" /\ UNCHANGED <<repo, clock, witness>>
    BY DEF ProbeService
  <1>3. /\ DOMAIN job' = DOMAIN job /\ job'.at = "probe" /\ job'.tree = job.tree
        /\ job'.clean = job.clean
        /\ DOMAIN job'.samples = DOMAIN job.samples \cup {s}
        /\ \A o \in DOMAIN job'.samples :
             \/ job'.samples[o].at = clock
             \/ o \in DOMAIN job.samples /\ job'.samples[o] = job.samples[o]
    BY <1>1, <1>2 DEF StatusInv, JobTyped
  <1>4. DocumentTrue'
    BY <1>2, SameDocument DEF StatusInv
  <1>5. JobTyped'
    BY <1>2, <1>3 DEF StatusInv, JobTyped
  <1>6. SamplesFresh'
    BY <1>2, <1>3 DEF StatusInv, JobTyped, SamplesFresh
  <1>7. CheckoutTrue'
    BY <1>2, <1>3 DEF StatusInv, CheckoutTrue
  <1> QED
    BY <1>4, <1>5, <1>6, <1>7 DEF StatusInv

LEMMA DecideKeeps ==
  ASSUME StatusInv, NothingThere, Decide
  PROVE  StatusInv'
  <1> DEFINE next == BuildDocument(repo.doc, job.samples)
  <1>1. /\ JobTyped /\ SamplesFresh /\ CheckoutTrue /\ DocumentTrue
        /\ job.at = "probe" /\ DOMAIN job.samples = Services
        /\ job.tree.doc = repo.doc /\ job.tree.page = repo.page
        /\ DOMAIN job.tree = {"doc", "page", "incidents"}
        /\ UNCHANGED <<repo, clock>>
    BY DEF StatusInv, CheckoutTrue, Decide
  <1>2. First \in Services /\ clock \in Nat /\ job.samples[First].at \in Nat
        /\ clock <= job.samples[First].at + 1
    BY <1>1, StatusPageAssumption DEF JobTyped, SamplesFresh, Services
  <1>3. CASE ShouldPublish(repo.doc, next, clock) \/ IncidentsChanged(job.tree, next)
    <2>1. /\ UNCHANGED witness
          /\ job' = [job EXCEPT !.at = "push", !.decided = clock,
                       !.tree = [job.tree EXCEPT !.doc = next,
                                   !.page = RenderStatusPage(next, job.tree.incidents)]]
      BY <1>1, <1>3 DEF Decide
    <2> HIDE DEF next
    <2>2. /\ DOMAIN job' = DOMAIN job /\ job'.at = "push" /\ job'.decided = clock
          /\ job'.samples = job.samples /\ job'.clean = job.clean
          /\ DOMAIN job'.tree = {"doc", "page", "incidents"}
          /\ job'.tree.doc = next /\ job'.tree.incidents = job.tree.incidents
          /\ job'.tree.page = RenderStatusPage(next, job.tree.incidents)
      BY <1>1, <2>1 DEF JobTyped
    <2>3. DocumentTrue'
      BY <1>1, <2>1, SameDocument
    <2>4. JobTyped' /\ SamplesFresh'
      BY <1>1, <2>1, <2>2 DEF JobTyped, SamplesFresh
    <2>5. CheckoutTrue'
      BY <1>1, <1>2, <2>1, <2>2 DEF CheckoutTrue, next
    <2> QED
      BY <2>3, <2>4, <2>5 DEF StatusInv
  <1>4. CASE ~(ShouldPublish(repo.doc, next, clock) \/ IncidentsChanged(job.tree, next))
    <2>1. job' = Idling /\ witness' = Witnessed(clock)
      BY <1>1, <1>4 DEF Decide
    <2>2. /\ repo.doc # NoPage /\ repo.doc.services = next.services /\ repo.doc.days = next.days
          /\ clock - repo.doc.at < HeartbeatTicks
          /\ repo.page # NoPage =>
               RenderStatusPage(repo.doc, job.tree.incidents) = repo.page
      <3> HIDE DEF next
      <3>1. /\ repo.doc # NoPage /\ StatusFingerprint(repo.doc) = StatusFingerprint(next)
            /\ ~(clock - repo.doc.at >= HeartbeatTicks)
        BY <1>4 DEF ShouldPublish
      <3>2. repo.doc.at \in Nat /\ HeartbeatTicks \in Nat
        BY <1>1, <3>1, StatusPageAssumption DEF SamplesFresh
      <3>3. repo.doc.services = next.services /\ repo.doc.days = next.days
        BY <3>1 DEF StatusFingerprint
      <3>4. repo.page # NoPage => RenderStatusPage(repo.doc, job.tree.incidents) = repo.page
        BY <1>1, <1>4, <3>1 DEF IncidentsChanged
      <3> QED
        BY <1>2, <3>1, <3>2, <3>3, <3>4
    <2>3. /\ next.at = job.samples[First].at
          /\ next.services = witness'.services /\ witness'.services # NoPage
          /\ DaysWithin(next, witness'.worst) /\ BarsTrue(next, witness'.worst)
          /\ Day(next.at) \in DOMAIN next.days[First]
      BY <1>1, <2>1, BuiltIsSeen
    <2>4. witness'.decided = clock /\ witness'.current = job.clean /\ DOMAIN witness' = DOMAIN witness
      BY <1>1, <2>1 DEF Witnessed, JobTyped
    <2> HIDE DEF next
    <2>5. /\ repo.doc.at \in Nat /\ next.at \in Nat /\ repo.doc.at <= next.at
          /\ repo.doc.at <= clock
      BY <1>1, <1>2, <2>2, <2>3 DEF SamplesFresh
    <2>6. Day(next.at) = Day(repo.doc.at)
      <3>1. Day(next.at) \in Window(repo.doc.at)
        BY <1>1, <1>2, <2>2, <2>3 DEF DocumentTrue, DaysWithin
      <3>2. Day(next.at) <= Day(repo.doc.at)
        BY <2>5, <3>1, WindowMoves
      <3>3. /\ Day(next.at) \in Nat /\ Day(repo.doc.at) \in Nat
            /\ Day(repo.doc.at) <= Day(next.at)
        BY <2>5, DayGrows
      <3> QED
        BY <3>2, <3>3
    <2>7. Window(repo.doc.at) = Window(next.at)
      BY <2>5, <2>6, WindowMoves
    <2>8. DaysWithin(repo.doc, witness'.worst) /\ BarsTrue(repo.doc, witness'.worst)
      BY <2>2, <2>3, <2>6, <2>7 DEF DaysWithin, BarsTrue
    <2>9. RenderStatusPage(repo.doc, job.tree.incidents) = repo.page
      BY <1>1, <2>2 DEF DocumentTrue, NothingThere
    <2>10. witness'.current => repo.page = RenderStatusPage(repo.doc, repo.incidents)
      BY <1>1, <2>4, <2>9 DEF CheckoutTrue
    <2>11. DocumentTrue'
      BY <1>1, <2>2, <2>3, <2>4, <2>8, <2>9, <2>10 DEF DocumentTrue
    <2> QED
      BY <1>1, <2>1, <2>4, <2>5, <2>11, IdleKeeps
  <1> QED
    BY <1>3, <1>4

LEMMA PushKeeps ==
  ASSUME StatusInv, NothingThere, Push
  PROVE  StatusInv'
  <1> DEFINE next == BuildDocument(repo.doc, job.samples)
  <1>1. /\ JobTyped /\ CheckoutTrue /\ DocumentTrue /\ job.at = "push"
        /\ DOMAIN job.samples = Services /\ DOMAIN job.tree = {"doc", "page", "incidents"}
        /\ job.tree.doc = next /\ job.tree.page = RenderStatusPage(next, job.tree.incidents)
        /\ job.decided \in Nat /\ job.decided <= job.samples[First].at + 1
        /\ job.clean => job.tree.incidents = repo.incidents
    BY DEF Push, StatusInv, CheckoutTrue
  <1>2. /\ repo' = [job.tree EXCEPT !.incidents = repo.incidents]
        /\ witness' = Witnessed(job.decided) /\ job' = Idling /\ UNCHANGED clock
    BY DEF Push
  <1>3. /\ next # NoPage /\ next.at = job.samples[First].at
        /\ next.services = witness'.services /\ witness'.services # NoPage
        /\ DaysWithin(next, witness'.worst) /\ BarsTrue(next, witness'.worst)
    BY <1>1, <1>2, BuiltIsSeen
  <1> HIDE DEF next
  <1>4. /\ DOMAIN repo' = DOMAIN repo /\ repo'.doc = next
        /\ repo'.page = RenderStatusPage(next, job.tree.incidents)
        /\ repo'.incidents = repo.incidents
    BY <1>1, <1>2 DEF JobTyped
  <1>5. /\ DOMAIN witness' = DOMAIN witness /\ witness'.decided = job.decided
        /\ witness'.current = job.clean
    BY <1>1, <1>2 DEF Witnessed, JobTyped
  <1>6. /\ next.at \in Nat /\ next.at <= clock
    BY <1>1, <1>3, StatusPageAssumption DEF JobTyped, Services
  <1>7. witness'.decided - next.at < HeartbeatTicks
    BY <1>1, <1>3, <1>5, <1>6, StatusPageAssumption
  <1>8. witness'.current => repo'.page = RenderStatusPage(next, repo'.incidents)
    BY <1>1, <1>4, <1>5
  <1>9. DocumentTrue'
    BY <1>3, <1>4, <1>7, <1>8 DEF DocumentTrue, DaysWithin, BarsTrue
  <1> QED
    BY <1>1, <1>2, <1>4, <1>5, <1>6, <1>9, IdleKeeps

LEMMA EditKeeps ==
  ASSUME StatusInv, EditIncidents
  PROVE  StatusInv'
  <1>1. PICK i : repo' = [repo EXCEPT !.incidents = i]
    BY DEF EditIncidents
  <1>2. /\ job' = [job EXCEPT !.clean = FALSE] /\ witness' = [witness EXCEPT !.current = FALSE]
        /\ UNCHANGED clock
    BY DEF EditIncidents
  <1>3. /\ DOMAIN repo' = DOMAIN repo /\ repo'.doc = repo.doc /\ repo'.page = repo.page
        /\ DOMAIN witness' = DOMAIN witness /\ witness'.services = witness.services
        /\ witness'.worst = witness.worst /\ witness'.decided = witness.decided
        /\ witness'.current = FALSE
        /\ DOMAIN job' = DOMAIN job /\ job'.at = job.at /\ job'.tree = job.tree
        /\ job'.samples = job.samples /\ job'.decided = job.decided /\ job'.clean = FALSE
    BY <1>1, <1>2 DEF StatusInv, JobTyped
  <1>4. JobTyped' /\ SamplesFresh'
    BY <1>2, <1>3 DEF StatusInv, JobTyped, SamplesFresh
  <1>5. CheckoutTrue'
    BY <1>3 DEF StatusInv, CheckoutTrue
  <1>6. DocumentTrue'
    BY <1>3 DEF StatusInv, DocumentTrue
  <1> QED
    BY <1>4, <1>5, <1>6 DEF StatusInv

LEMMA TimeKeeps ==
  ASSUME StatusInv, TimePasses
  PROVE  StatusInv'
  <1>1. /\ clock' = clock + 1 /\ UNCHANGED <<repo, job, witness>>
        /\ job.at = "probe" => \A s \in DOMAIN job.samples : job.samples[s].at = clock
    BY DEF TimePasses
  <1>2. JobTyped' /\ SamplesFresh'
    BY <1>1 DEF StatusInv, JobTyped, SamplesFresh
  <1>3. CheckoutTrue'
    BY <1>1 DEF StatusInv, CheckoutTrue
  <1>4. DocumentTrue'
    BY <1>1, SameDocument DEF StatusInv
  <1> QED
    BY <1>2, <1>3, <1>4 DEF StatusInv

LEMMA StatusStep ==
  ASSUME StatusInv, NothingThere, [StatusNext]_statusVars
  PROVE  StatusInv'
  <1>1. CASE UNCHANGED statusVars
    BY <1>1, SameDocument DEF statusVars, StatusInv, JobTyped, SamplesFresh, CheckoutTrue
  <1>2. CASE JobFails
    <2>1. job' = Idling /\ UNCHANGED <<repo, clock, witness>>
      BY <1>2 DEF JobFails
    <2>2. DocumentTrue'
      BY <2>1, SameDocument DEF StatusInv
    <2> QED
      BY <2>1, <2>2, IdleKeeps DEF StatusInv, SamplesFresh
  <1> QED
    BY <1>1, <1>2, StartJobKeeps, ProbeKeeps, DecideKeeps, PushKeeps, EditKeeps, TimeKeeps
       DEF StatusNext

(***************************************************************************)
(* Although most jobs publish nothing, fail or race with an edit, the      *)
(* document on the branch always tells what the jobs that ended well have  *)
(* seen, and the page is drawn from it: for any services, answers, lengths *)
(* of the history and the heartbeat (status-page.mjs).                     *)
(***************************************************************************)
THEOREM StatusTrue ==
  ASSUME NothingThere
  PROVE  StatusSpec => []StatusPageTrue
  <1>1. StatusInit => StatusInv
    <2> SUFFICES ASSUME StatusInit PROVE StatusInv
      OBVIOUS
    <2>1. /\ DOMAIN Idling = {"at", "tree", "samples", "decided", "clean"}
          /\ Idling.at = "idle" /\ DOMAIN Idling.samples = {} /\ DOMAIN Empty = {}
      BY DEF Idling, Empty
    <2>2. JobTyped /\ SamplesFresh /\ CheckoutTrue
      BY <2>1 DEF StatusInit, JobTyped, SamplesFresh, CheckoutTrue
    <2>3. DocumentTrue
      BY <2>1 DEF StatusInit, DocumentTrue
    <2> QED
      BY <2>2, <2>3 DEF StatusInv
  <1>2. StatusInv /\ [StatusNext]_statusVars => StatusInv'
    BY StatusStep
  <1>3. StatusInv => StatusPageTrue
    BY DEF StatusInv, DocumentTrue, BarsTrue, StatusPageTrue
  <1> QED
    BY <1>1, <1>2, <1>3, PTL DEF StatusSpec

-----------------------------------------------------------------------------
(* Notification destinations *)

\* A finite set of numbers, listed in order: each member once.
LEMMA ListedOnce ==
  ASSUME NEW S \in SUBSET Nat, IsFiniteSet(S)
  PROVE  /\ Cardinality(S) \in Nat
         /\ Listed(S) \in [1..Cardinality(S) -> S]
         /\ \A k, l \in 1..Cardinality(S) : Listed(S)[k] = Listed(S)[l] => k = l
         /\ \A x \in S : \E k \in 1..Cardinality(S) : Listed(S)[k] = x
  <1> DEFINE ceiling(x) == {y \in S : y <= x}
             n == Cardinality(S)
             r == [x \in S |-> Cardinality(ceiling(x))]
  <1>1. n \in Nat
    BY FS_CardinalityType
  <1>2. ASSUME NEW x \in S
        PROVE  IsFiniteSet(ceiling(x)) /\ r[x] \in 1..n
    <2>1. ceiling(x) \in SUBSET S /\ x \in ceiling(x)
      BY SMT
    <2>2. IsFiniteSet(ceiling(x)) /\ Cardinality(ceiling(x)) <= n
      BY <2>1, FS_Subset
    <2>3. Cardinality(ceiling(x)) \in Nat
      BY <2>2, FS_CardinalityType
    <2>4. Cardinality(ceiling(x)) # 0
      BY <2>1, <2>2, FS_EmptySet
    <2> QED
      BY <1>1, <2>2, <2>3, <2>4
  <1>3. ASSUME NEW x \in S, NEW y \in S, x < y
        PROVE  r[x] # r[y]
    <2>0. x \in Nat /\ y \in Nat /\ \A z \in S : z \in Nat
      OBVIOUS
    <2>3. \A z \in S : z <= x => z <= y
      BY <1>3, <2>0
    <2>4. ceiling(x) \in SUBSET ceiling(y)
      BY <2>3, Zenon
    <2>5. y <= y /\ ~(y <= x)
      BY <1>3, <2>0
    <2>1. ceiling(x) \in SUBSET ceiling(y) /\ y \in ceiling(y) /\ y \notin ceiling(x)
      BY <2>4, <2>5
    <2>2. Cardinality(ceiling(x)) # Cardinality(ceiling(y))
      <3>1. IsFiniteSet(ceiling(y))
        BY <1>2
      <3> HIDE DEF ceiling
      <3>2. Cardinality(ceiling(y)) = Cardinality(ceiling(x)) => ceiling(y) = ceiling(x)
        BY <2>1, <3>1, FS_Subset
      <3> QED
        BY <2>1, <3>2
    <2> QED
      BY <2>2
  <1>4. ASSUME NEW x \in S, NEW y \in S, r[x] = r[y]
        PROVE  x = y
    <2>1. x \in Nat /\ y \in Nat
      OBVIOUS
    <2>2. ~(x < y) /\ ~(y < x)
      BY <1>3, <1>4
    <2> QED
      BY <2>1, <2>2
  <1>5. r \in Injection(S, 1..n)
    BY <1>2, <1>4 DEF Injection, IsInjective
  <1>6. IsFiniteSet(1..n) /\ Cardinality(1..n) = n
    BY <1>1, FS_Interval
  <1>7. r \in Surjection(S, 1..n)
    BY <1>5, <1>6, FS_Injection
  <1>8. \A k \in 1..n : \E x \in S : r[x] = k
    BY <1>7 DEF Surjection
  <1>9. ASSUME NEW k \in 1..n
        PROVE  Listed(S)[k] \in S /\ r[Listed(S)[k]] = k
    <2>1. PICK x \in S : Cardinality(ceiling(x)) = k
      BY <1>8
    <2>2. Listed(S)[k] = CHOOSE z \in S : Cardinality(ceiling(z)) = k
      BY DEF Listed
    <2> HIDE DEF ceiling
    <2>3. Listed(S)[k] \in S /\ Cardinality(ceiling(Listed(S)[k])) = k
      BY <2>1, <2>2
    <2> QED
      BY <2>3
  <1>10. Listed(S) \in [1..n -> S]
    BY <1>9 DEF Listed
  <1> HIDE DEF r, n
  <1>11. \A k, l \in 1..n : Listed(S)[k] = Listed(S)[l] => k = l
    BY <1>9
  <1>12. ASSUME NEW x \in S
         PROVE  \E k \in 1..n : Listed(S)[k] = x
    <2>1. r[x] \in 1..n
      BY <1>2
    <2>2. Listed(S)[r[x]] \in S /\ r[Listed(S)[r[x]]] = r[x]
      BY <1>9, <2>1
    <2> QED
      BY <1>4, <2>1, <2>2
  <1> QED
    BY <1>1, <1>10, <1>11, <1>12 DEF n

Kinds == {Entries[k].kind : k \in DOMAIN Entries}
Letters ==
  [to: Destinations, ev: Nat, kind: Kinds,
   status: {"pending", "delivered", "dead"}, tries: Nat, due: BOOLEAN]
Claims == [letter: Nat, tries: Nat]
Ticks ==
  [at: {"off", "queue", "send", "adrift"}, known: Listings, left: SUBSET Destinations,
   groups: [Destinations -> Seq(Claims)], asking: SUBSET Destinations]

NotesTyped ==
  /\ DOMAIN notes = {"puts", "mishaps", "adrift", "disturbed", "before"}
  /\ notes.adrift \in BOOLEAN /\ notes.disturbed \in BOOLEAN
  /\ notes.before \in [Destinations -> Nat \cup {Nil}]
PanelTyped ==
  /\ DOMAIN panel = {"list", "loading", "saving", "testing"}
  /\ panel.loading \in BOOLEAN /\ panel.saving \in BOOLEAN
  /\ asks \in [Lanes -> Requests \cup {Nil}]
  /\ \A a \in Lanes : asks[a] # Nil =>
       /\ asks[a].what = "save" => asks[a].of \in DOMAIN Entries
       /\ asks[a].what = "delete" => asks[a].of \in Destinations
LettersTyped ==
  /\ letters \in Seq(Letters)
  /\ posted \in Seq(Int) /\ Len(posted) = Len(letters)
  /\ lostPosts \in Seq(Int) /\ Len(lostPosts) = Len(letters)
WorkerTyped ==
  /\ happened \in Nat /\ places \in [Destinations -> Nat \cup {Nil}]
  /\ ticking \in BOOLEAN /\ ticks \in [Lanes -> Ticks]

\* What a destination may have been given.
RowsOf(d) == {parseDestination(Entries[k]) : k \in {k \in DOMAIN Entries : Entries[k].id = d}}

\* What is stored was put, and no cursor is before that or ahead of the events.
PlacesTrue ==
  /\ destinations \in Listings
  /\ \A d \in Destinations :
       /\ destinations[d] # Nil => destinations[d] \in RowsOf(d) /\ notes.before[d] # Nil
       /\ notes.before[d] # Nil => notes.before[d] <= happened
       /\ places[d] # Nil =>
            notes.before[d] # Nil /\ notes.before[d] <= places[d] /\ places[d] <= happened

\* What a tick knows was enabled; what it asks for is at the head of a group.
TickTrue(s, d) ==
  /\ ticks[s].known[d] # Nil =>
       ticks[s].known[d] \in RowsOf(d) /\ ticks[s].known[d].on /\ notes.before[d] # Nil
  /\ ticks[s].at \in {"off", "queue"} => ticks[s].groups[d] = <<>>
  /\ d \in ticks[s].left => ticks[s].known[d] # Nil
  /\ d \in ticks[s].asking => ticks[s].groups[d] # <<>> /\ ticks[s].known[d] # Nil
  /\ \A k \in DOMAIN ticks[s].groups[d] :
       /\ ticks[s].groups[d][k].letter \in DOMAIN letters
       /\ letters[ticks[s].groups[d][k].letter].to = d
TicksTrue == \A s \in Lanes, d \in Destinations : TickTrue(s, d)

\* Until an outcome could not be recorded there is one tick at a time, and it has
\* each letter once and with its attempts.
OneTick ==
  ~notes.adrift =>
    /\ \A s \in Lanes : ticks[s].at # "off" => ticking /\ ticks[s].at # "adrift"
    /\ \A s, r \in Lanes : ticks[s].at # "off" /\ ticks[r].at # "off" => s = r
    /\ \A s \in Lanes, d \in Destinations : \A k \in DOMAIN ticks[s].groups[d] :
         /\ ticks[s].groups[d][k].tries = letters[ticks[s].groups[d][k].letter].tries
         /\ \A l \in DOMAIN ticks[s].groups[d] :
              ticks[s].groups[d][k].letter = ticks[s].groups[d][l].letter => k = l

AskedFor(i) == \E s \in Lanes : i \in Asking(s)
PostsTrue ==
  ~notes.adrift =>
    \A i \in DOMAIN letters :
      posted[i] = letters[i].tries + (IF AskedFor(i) THEN 1 ELSE 0) + lostPosts[i]

\* Every row a destination may have been given has the event's topic.
AlwaysWanted(d, ev) ==
  \A k \in DOMAIN Entries :
    Entries[k].id = d /\ parseDestination(Entries[k]) # Nil =>
      Matches(parseDestination(Entries[k]), ev)
LettersTrue ==
  /\ \A i \in DOMAIN letters :
       /\ notes.before[letters[i].to] # Nil /\ places[letters[i].to] # Nil
       /\ letters[i].ev > notes.before[letters[i].to]
  /\ \A i, j \in DOMAIN letters :
       letters[i].to = letters[j].to /\ letters[i].ev = letters[j].ev => i = j
  /\ \A d \in Destinations, ev \in Nat, i \in DOMAIN letters :
       /\ AlwaysWanted(d, ev) /\ places[d] # Nil /\ ev <= places[d]
       /\ letters[i].to = d /\ letters[i].ev < ev
       => \E j \in DOMAIN letters : letters[j].to = d /\ letters[j].ev = ev

\* While nothing disturbs it the panel waits for one answer, and knows which part
\* of what it shows is behind.
PanelTrue ==
  ~notes.disturbed =>
    /\ \A a, b \in Lanes : asks[a] # Nil /\ asks[b] # Nil => a = b
    /\ (\A a \in Lanes : asks[a] = Nil) =>
         panel.list = destinations /\ ~panel.loading /\ ~panel.saving
    /\ \A a \in Lanes : asks[a] # Nil =>
         /\ panel.saving <=> asks[a].what = "save" \/ asks[a].ends
         /\ asks[a].ends => asks[a].what = "list"
         /\ panel.loading <=> asks[a].what = "list"
         /\ asks[a].what = "list" => asks[a].answer \in {Nil, destinations}
         /\ asks[a].what \in {"save", "delete"} /\ asks[a].answer # "ok" =>
              panel.list = destinations
         /\ asks[a].what = "test" => panel.list = destinations

NotifyTyped == NotesTyped /\ PanelTyped /\ LettersTyped /\ WorkerTyped
WorkerTrue  == PlacesTrue /\ TicksTrue /\ OneTick /\ PostsTrue /\ LettersTrue
NotifyInv   == NotifyTyped /\ WorkerTrue /\ PanelTrue

\* No more than one tick asks for a letter.
LEMMA OpenCount ==
  ASSUME NotifyInv, ~notes.adrift, NEW i
  PROVE  Cardinality({s \in Lanes : i \in Asking(s)}) = IF AskedFor(i) THEN 1 ELSE 0
  <1>1. CASE ~AskedFor(i)
    <2>1. {s \in Lanes : i \in Asking(s)} = {}
      BY <1>1 DEF AskedFor
    <2> QED
      BY <1>1, <2>1, FS_EmptySet
  <1>2. CASE AskedFor(i)
    <2>1. PICK s \in Lanes : i \in Asking(s)
      BY <1>2 DEF AskedFor
    <2>2. ASSUME NEW r \in Lanes, i \in Asking(r)
          PROVE  ticks[r].at # "off"
      <3>1. PICK d \in ticks[r].asking : TRUE
        BY <2>2 DEF Asking
      <3>2. d \in Destinations /\ ticks[r].groups[d] # <<>>
        BY <3>1 DEF NotifyInv, NotifyTyped, WorkerTyped, Ticks, WorkerTrue, TicksTrue, TickTrue
      <3> QED
        BY <3>2 DEF NotifyInv, WorkerTrue, TicksTrue, TickTrue
    <2>3. \A r \in Lanes : i \in Asking(r) => r = s
      BY <2>1, <2>2 DEF NotifyInv, WorkerTrue, OneTick
    <2>4. {r \in Lanes : i \in Asking(r)} = {s}
      BY <2>1, <2>3
    <2> QED
      BY <1>2, <2>4, FS_Singleton
  <1> QED
    BY <1>1, <1>2

\* What the run checks of the destinations follows.
LEMMA NotifyInvSound == NotifyInv => NotificationsSound
  <1> SUFFICES ASSUME NotifyInv PROVE NotificationsSound
    OBVIOUS
  <1>1. RequestsAccounted
    <2> SUFFICES ASSUME ~notes.adrift, NEW i \in DOMAIN letters
                 PROVE  LET open == Cardinality({s \in Lanes: i \in Asking(s)}) IN
                        open <= 1 /\ posted[i] = letters[i].tries + open + lostPosts[i]
      BY DEF RequestsAccounted
    <2>1. Cardinality({s \in Lanes : i \in Asking(s)}) = IF AskedFor(i) THEN 1 ELSE 0
      BY OpenCount
    <2>2. posted[i] = letters[i].tries + (IF AskedFor(i) THEN 1 ELSE 0) + lostPosts[i]
      BY DEF NotifyInv, WorkerTrue, PostsTrue
    <2> QED
      BY <2>1, <2>2
  <1>2. EachLetterOnce
    <2>1. ASSUME NEW d \in Destinations, NEW ev \in 1..happened,
                 \A k \in DOMAIN Entries :
                   Entries[k].id = d /\ parseDestination(Entries[k]) # Nil
                     => Matches(parseDestination(Entries[k]), ev),
                 places[d] # Nil, ev <= places[d],
                 NEW i \in DOMAIN letters, letters[i].to = d, letters[i].ev < ev
          PROVE  \E j \in DOMAIN letters : letters[j].to = d /\ letters[j].ev = ev
      <3>1. AlwaysWanted(d, ev) /\ ev \in Nat
        BY <2>1 DEF AlwaysWanted, NotifyInv, NotifyTyped, WorkerTyped
      <3> QED
        BY <2>1, <3>1 DEF NotifyInv, WorkerTrue, LettersTrue
    <2>2. \A i \in DOMAIN letters : letters[i].ev > notes.before[letters[i].to]
      BY DEF NotifyInv, WorkerTrue, LettersTrue
    <2>3. \A i, j \in DOMAIN letters :
            letters[i].to = letters[j].to /\ letters[i].ev = letters[j].ev => i = j
      BY DEF NotifyInv, WorkerTrue, LettersTrue
    <2> QED
      BY <2>1, <2>2, <2>3 DEF EachLetterOnce
  <1>3. NoneToTheGone
    BY DEF NoneToTheGone, NotifyInv, WorkerTrue, TicksTrue, TickTrue
  <1>4. PanelTells
    BY DEF PanelTells, NotifyInv, PanelTrue
  <1> QED
    BY <1>1, <1>2, <1>3, <1>4 DEF NotificationsSound

-----------------------------------------------------------------------------
\* What a step leaves of one tick, s, and of the others.
TickIs(s, at, rows, rest, groups, asking) ==
  /\ ticks' \in [Lanes -> Ticks]
  /\ ticks'[s].at = at /\ ticks'[s].known = rows /\ ticks'[s].left = rest
  /\ ticks'[s].groups = groups /\ ticks'[s].asking = asking
  /\ \A r \in Lanes : r # s => ticks'[r] = ticks[r]

\* Rows that keep what they are for, and perhaps their attempts.
SameLetters ==
  /\ LettersTyped'
  /\ Len(letters') = Len(letters)
  /\ \A i \in DOMAIN letters : letters'[i].to = letters[i].to /\ letters'[i].ev = letters[i].ev

\* What was put once stays put.
LaterPuts == \A d \in Destinations : notes.before[d] # Nil => notes'.before[d] = notes.before[d]

LEMMA LetterAt ==
  ASSUME NotifyTyped, NEW i \in DOMAIN letters
  PROVE  letters[i] \in Letters /\ letters[i].to \in Destinations /\ letters[i].ev \in Nat
         /\ letters[i].tries \in Nat /\ letters[i].due \in BOOLEAN
         /\ letters[i].status \in {"pending", "delivered", "dead"}
  <1>1. letters[i] \in Letters
    BY DEF NotifyTyped, LettersTyped
  <1> QED
    BY <1>1 DEF Letters

\* The letters' own invariant asks nothing of their attempts.
LEMMA SameLettersKeep ==
  ASSUME NotifyInv, SameLetters, LaterPuts, places' = places
  PROVE  LettersTrue'
  <1>1. DOMAIN letters' = DOMAIN letters /\ DOMAIN letters = 1..Len(letters)
    BY DEF SameLetters, LettersTyped, NotifyInv, NotifyTyped
  <1>2. \A i \in DOMAIN letters : letters[i].to \in Destinations
    BY LetterAt DEF NotifyInv
  <1>3. LettersTrue
    BY DEF NotifyInv, WorkerTrue
  <1>4. ASSUME NEW i \in DOMAIN letters'
        PROVE  /\ notes'.before[letters'[i].to] # Nil /\ places'[letters'[i].to] # Nil
               /\ letters'[i].ev > notes'.before[letters'[i].to]
    BY <1>1, <1>2, <1>3 DEF SameLetters, LaterPuts, LettersTrue
  <1>5. ASSUME NEW i \in DOMAIN letters', NEW j \in DOMAIN letters',
               letters'[i].to = letters'[j].to, letters'[i].ev = letters'[j].ev
        PROVE  i = j
    BY <1>1, <1>3, <1>5 DEF SameLetters, LettersTrue
  <1>6. ASSUME NEW d \in Destinations, NEW ev \in Nat, NEW i \in DOMAIN letters',
               AlwaysWanted(d, ev), places'[d] # Nil, ev <= places'[d],
               letters'[i].to = d, letters'[i].ev < ev
        PROVE  \E j \in DOMAIN letters' : letters'[j].to = d /\ letters'[j].ev = ev
    <2>1. PICK j \in DOMAIN letters : letters[j].to = d /\ letters[j].ev = ev
      BY <1>1, <1>3, <1>6 DEF SameLetters, LettersTrue
    <2> QED
      BY <1>1, <2>1 DEF SameLetters
  <1>7. \A d, ev : AlwaysWanted(d, ev)' <=> AlwaysWanted(d, ev)
    BY DEF AlwaysWanted
  <1> QED
    BY <1>4, <1>5, <1>6, <1>7 DEF LettersTrue

\* A tick replaced as a whole.
LEMMA TickPut ==
  ASSUME NotifyTyped, NEW s \in Lanes, NEW t \in Ticks, ticks' = [ticks EXCEPT ![s] = t]
  PROVE  TickIs(s, t.at, t.known, t.left, t.groups, t.asking)
  BY DEF NotifyTyped, WorkerTyped, TickIs

\* The types but for one thing that a step changes.
LEMMA TypesKept ==
  ASSUME NotifyTyped
  PROVE  /\ UNCHANGED notes => NotesTyped'
         /\ UNCHANGED <<panel, asks>> => PanelTyped'
         /\ UNCHANGED <<letters, posted, lostPosts>> => LettersTyped'
         /\ UNCHANGED <<happened, places, ticking>> /\ ticks' \in [Lanes -> Ticks] => WorkerTyped'
  <1>1. UNCHANGED notes => NotesTyped'
    BY DEF NotifyTyped, NotesTyped
  <1>2. UNCHANGED <<panel, asks>> => PanelTyped'
    BY DEF NotifyTyped, PanelTyped
  <1>3. UNCHANGED <<letters, posted, lostPosts>> => LettersTyped'
    BY DEF NotifyTyped, LettersTyped
  <1>4. UNCHANGED <<happened, places, ticking>> /\ ticks' \in [Lanes -> Ticks] => WorkerTyped'
    BY DEF NotifyTyped, WorkerTyped
  <1> QED
    BY <1>1, <1>2, <1>3, <1>4

\* A tick that starts knows what is enabled, and has the timer to itself.
LEMMA StartTickKeeps ==
  ASSUME NotifyInv, NEW s \in Lanes, StartNotifyTick(s)
  PROVE  NotifyInv'
  <1> USE DEF NotifyInv, NotifyTyped
  <1>1. /\ ~ticking /\ ticks[s].at = "off" /\ ticking' = TRUE
        /\ UNCHANGED <<serverVars, posted, lostPosts, panel, asks, notes>>
    BY DEF StartNotifyTick, MayTick
  <1>2. loadDestinations \in Listings
    BY DEF WorkerTrue, PlacesTrue, Listings, loadDestinations
  <1>3. TickIs(s, "queue", loadDestinations, {d \in Destinations : loadDestinations[d] # Nil},
               [d \in Destinations |-> <<>>], {})
    <2> PICK K, L, G, t : /\ K = loadDestinations
                          /\ L = {d \in Destinations : loadDestinations[d] # Nil}
                          /\ G = [d \in Destinations |-> <<>>]
                          /\ t = [at |-> "queue", known |-> K, left |-> L, groups |-> G,
                                  asking |-> {}]
      OBVIOUS
    <2>1. /\ t \in Ticks /\ t.at = "queue" /\ t.known = K /\ t.left = L
          /\ t.groups = G /\ t.asking = {}
      <3>1. K \in Listings /\ L \in SUBSET Destinations /\ G \in [Destinations -> Seq(Claims)]
        BY <1>2
      <3>2. t = [at |-> "queue", known |-> K, left |-> L, groups |-> G, asking |-> {}]
        OBVIOUS
      <3> QED
        BY ONLY <3>1, <3>2 DEF Ticks
    <2>2. ticks' = [ticks EXCEPT ![s] = t]
      <3>1. NoTick.groups = G
        BY DEF NoTick
      <3> QED
        BY <3>1 DEF StartNotifyTick
    <2> QED
      BY <2>1, <2>2, TickPut
  <1>4. NotifyTyped'
    <2>1. NotesTyped' /\ PanelTyped' /\ LettersTyped'
      BY <1>1, TypesKept DEF serverVars
    <2>2. WorkerTyped'
      BY <1>1, <1>3 DEF serverVars, WorkerTyped, TickIs
    <2> QED
      BY <2>1, <2>2
  <1>5. PlacesTrue' /\ PanelTrue' /\ LettersTrue'
    BY <1>1 DEF serverVars, WorkerTrue, PlacesTrue, PanelTrue, LettersTrue, AlwaysWanted
  <1>6. TicksTrue'
    <2>1. ASSUME NEW d \in Destinations, loadDestinations[d] # Nil
          PROVE  /\ loadDestinations[d] \in RowsOf(d) /\ loadDestinations[d].on
                 /\ notes.before[d] # Nil
      BY <2>1 DEF WorkerTrue, PlacesTrue, loadDestinations
    <2>2. TicksTrue /\ letters' = letters /\ notes' = notes
      BY <1>1 DEF WorkerTrue, serverVars
    <2>3. ASSUME NEW d \in Destinations
          PROVE  TickTrue(s, d)'
      <3>1. ticks'[s].known = loadDestinations
        BY <1>3 DEF TickIs
      <3>2. ticks'[s].groups[d] = <<>> /\ ticks'[s].asking = {}
        BY <1>3 DEF TickIs
      <3>3. d \in ticks'[s].left => loadDestinations[d] # Nil
        BY <1>3 DEF TickIs
      <3>4. \A k \in DOMAIN ticks'[s].groups[d] : FALSE
        BY <3>2
      <3> QED
        BY <2>1, <2>2, <3>1, <3>2, <3>3, <3>4 DEF TickTrue
    <2>4. ASSUME NEW r \in Lanes, r # s, NEW d \in Destinations
          PROVE  TickTrue(r, d)'
      BY <1>3, <2>2, <2>4 DEF TicksTrue, TickTrue, TickIs
    <2>5. \A r \in Lanes, d \in Destinations : TickTrue(r, d)'
      BY <2>3, <2>4
    <2> QED
      BY <2>5 DEF TicksTrue
  <1>7. OneTick'
    BY <1>1, <1>3 DEF serverVars, WorkerTrue, OneTick, TickIs
  <1>8. \A i : AskedFor(i)' <=> AskedFor(i)
    <2>1. ticks[s].asking = {}
      BY <1>1 DEF WorkerTrue, TicksTrue, TickTrue, WorkerTyped, Ticks
    <2>2. Asking(s) = {} /\ Asking(s)' = {}
      BY <1>3, <2>1 DEF TickIs, Asking
    <2>3. \A r \in Lanes : r # s => Asking(r)' = Asking(r)
      BY <1>3 DEF TickIs, Asking
    <2> QED
      BY <2>2, <2>3 DEF AskedFor
  <1>9. PostsTrue'
    BY <1>1, <1>8 DEF serverVars, WorkerTrue, PostsTrue
  <1> QED
    BY <1>4, <1>5, <1>6, <1>7, <1>9 DEF WorkerTrue

\* What is due, grouped by destination, each letter once and with its attempts.
LEMMA ClaimTrue ==
  ASSUME NotifyTyped
  PROVE  /\ claimDueNotificationDeliveries \in [Destinations -> Seq(Claims)]
         /\ \A d \in Destinations : \A k \in DOMAIN claimDueNotificationDeliveries[d] :
              LET c == claimDueNotificationDeliveries[d][k] IN
              /\ c.letter \in DOMAIN letters /\ letters[c.letter].to = d
              /\ c.tries = letters[c.letter].tries
              /\ \A l \in DOMAIN claimDueNotificationDeliveries[d] :
                   c.letter = claimDueNotificationDeliveries[d][l].letter => k = l
  <1> DEFINE due  == {i \in DOMAIN letters: letters[i].status = "pending" /\ letters[i].due}
             some == {i \in due: Cardinality({j \in due: j <= i}) <= NotifyBatch}
             mine(d) == {i \in some: letters[i].to = d}
             group(d) == Listed(mine(d))
             claims(d) == [k \in DOMAIN group(d) |->
                             [letter |-> group(d)[k], tries |-> letters[group(d)[k]].tries]]
  <1>1. claimDueNotificationDeliveries = [d \in Destinations |-> claims(d)]
    BY DEF claimDueNotificationDeliveries
  <1>2. DOMAIN letters = 1..Len(letters) /\ Len(letters) \in Nat
    BY DEF NotifyTyped, LettersTyped
  <1>3. IsFiniteSet(1..Len(letters))
    BY <1>2, FS_Interval
  <1>4. ASSUME NEW d \in Destinations
        PROVE  /\ claims(d) \in Seq(Claims)
               /\ \A k \in DOMAIN claims(d) :
                    /\ claims(d)[k].letter \in DOMAIN letters /\ letters[claims(d)[k].letter].to = d
                    /\ claims(d)[k].tries = letters[claims(d)[k].letter].tries
                    /\ \A l \in DOMAIN claims(d) :
                         claims(d)[k].letter = claims(d)[l].letter => k = l
    <2> PICK S : S = mine(d)
      OBVIOUS
    <2>1. S \in SUBSET (1..Len(letters)) /\ S \in SUBSET Nat /\ S \subseteq DOMAIN letters
      BY <1>2
    <2>3. \A i \in S : letters[i].to = d
      OBVIOUS
    <2>4. group(d) = Listed(S)
      OBVIOUS
    <2> PICK n : n = Cardinality(S)
      OBVIOUS
    <2> HIDE DEF mine, group
    <2>2. IsFiniteSet(S)
      BY <1>3, <2>1, FS_Subset
    <2>5. /\ n \in Nat /\ group(d) \in [1..n -> S]
          /\ \A k, l \in 1..n : group(d)[k] = group(d)[l] => k = l
      BY <2>1, <2>2, <2>4, ListedOnce
    <2>6. DOMAIN group(d) = 1..n
      BY <2>5
    <2> HIDE DEF group
    <2>7. ASSUME NEW k \in 1..n
          PROVE  /\ group(d)[k] \in DOMAIN letters /\ group(d)[k] \in Nat
                 /\ letters[group(d)[k]].to = d /\ letters[group(d)[k]].tries \in Nat
      BY <2>1, <2>3, <2>5, LetterAt
    <2>8. claims(d) \in [1..n -> Claims]
      BY <2>6, <2>7 DEF Claims
    <2>9. claims(d) \in Seq(Claims) /\ DOMAIN claims(d) = 1..n
      <3> PICK f : f = claims(d)
        OBVIOUS
      <3>1. n \in Nat /\ f \in [1..n -> Claims]
        BY <2>5, <2>8
      <3> QED
        BY ONLY <3>1, f = claims(d), SeqDef
    <2>10. \A k \in 1..n : /\ claims(d)[k].letter = group(d)[k]
                            /\ claims(d)[k].tries = letters[group(d)[k]].tries
      BY <2>6
    <2> HIDE DEF claims
    <2> QED
      BY <2>5, <2>7, <2>9, <2>10
  <1> HIDE DEF claims
  <1> QED
    BY <1>1, <1>4

\* A tick that neither asks before nor after changes nobody's count.
LEMMA OpenKept ==
  ASSUME NotifyInv, NEW s \in Lanes, Asking(s)' = Asking(s),
         \A r \in Lanes : r # s => ticks'[r] = ticks[r]
  PROVE  \A i : AskedFor(i)' <=> AskedFor(i)
  <1>1. ASSUME NEW r \in Lanes
        PROVE  Asking(r)' = Asking(r)
    <2>1. CASE r = s
      BY <2>1
    <2>2. CASE r # s
      <3>1. ticks'[r] = ticks[r]
        BY <2>2
      <3> QED
        BY ONLY <3>1 DEF Asking
    <2> QED
      BY <2>1, <2>2
  <1> QED
    BY <1>1 DEF AskedFor

\* What the worker alone changes is not the panel's.
LEMMA PanelKept ==
  ASSUME NotifyInv, UNCHANGED <<destinations, panel, asks>>, notes'.disturbed = notes.disturbed
  PROVE  PanelTrue'
  BY DEF NotifyInv, PanelTrue

\* Nothing is stored, and the events go on at most.
LEMMA PlacesKept ==
  ASSUME NotifyInv, UNCHANGED <<destinations, places, happened>>, notes'.before = notes.before
  PROVE  PlacesTrue'
  BY DEF NotifyInv, WorkerTrue, PlacesTrue

\* Letters are only added, and stay with their destination.
LettersGrow ==
  \A i \in DOMAIN letters : i \in DOMAIN letters' /\ letters'[i].to = letters[i].to

LEMMA SameLettersGrow == ASSUME NotifyTyped, SameLetters PROVE LettersGrow /\ DOMAIN letters' = DOMAIN letters
  BY DEF SameLetters, LettersGrow, NotifyTyped, LettersTyped

\* One tick stays true when the others do not move.
LEMMA OthersTrue ==
  ASSUME NotifyInv, NEW s \in Lanes, \A r \in Lanes : r # s => ticks'[r] = ticks[r],
         LettersGrow, LaterPuts, \A d \in Destinations : TickTrue(s, d)'
  PROVE  TicksTrue'
  <1>1. ASSUME NEW r \in Lanes, r # s, NEW d \in Destinations
        PROVE  TickTrue(r, d)'
    <2>1. TickTrue(r, d) /\ ticks'[r] = ticks[r]
      BY <1>1 DEF NotifyInv, WorkerTrue, TicksTrue
    <2>2. LettersGrow /\ LaterPuts
      OBVIOUS
    <2> QED
      BY ONLY <2>1, <2>2 DEF TickTrue, LettersGrow, LaterPuts
  <1>2. \A r \in Lanes, d \in Destinations : TickTrue(r, d)'
    BY <1>1
  <1> QED
    BY <1>2 DEF TicksTrue

\* Neither letters nor what they are measured by moves.
LEMMA LettersStay ==
  ASSUME NotifyInv, UNCHANGED <<letters, places>>, notes'.before = notes.before
  PROVE  LettersTrue'
  <1>1. LettersTrue /\ letters' = letters /\ places' = places /\ notes'.before = notes.before
    BY DEF NotifyInv, WorkerTrue
  <1>2. \A e, ev : AlwaysWanted(e, ev)' <=> AlwaysWanted(e, ev)
    BY DEF AlwaysWanted
  <1> QED
    BY ONLY <1>1, <1>2 DEF LettersTrue

\* Nobody's group moves.
LEMMA OneTickStays ==
  ASSUME NotifyInv, UNCHANGED <<ticking, letters>>, notes'.adrift = notes.adrift,
         \A r \in Lanes : ticks'[r].at = ticks[r].at /\ ticks'[r].groups = ticks[r].groups
  PROVE  OneTick'
  <1>1. OneTick
    BY DEF NotifyInv, WorkerTrue
  <1>2. /\ ticking' = ticking /\ letters' = letters /\ notes'.adrift = notes.adrift
        /\ \A r \in Lanes : ticks'[r].at = ticks[r].at /\ ticks'[r].groups = ticks[r].groups
    OBVIOUS
  <1> QED
    BY ONLY <1>1, <1>2 DEF OneTick

\* What a group has, and that a tick about to send has none.
LEMMA GroupTrue ==
  ASSUME NotifyInv, NEW s \in Lanes, NEW d \in Destinations
  PROVE  /\ \A k \in DOMAIN ticks[s].groups[d] :
              /\ ticks[s].groups[d][k].letter \in DOMAIN letters
              /\ letters[ticks[s].groups[d][k].letter].to = d
         /\ ticks[s].at \in {"off", "queue"} => ticks[s].groups[d] = <<>>
         /\ ~notes.adrift => \A k \in DOMAIN ticks[s].groups[d] :
              /\ ticks[s].groups[d][k].tries = letters[ticks[s].groups[d][k].letter].tries
              /\ \A l \in DOMAIN ticks[s].groups[d] :
                   ticks[s].groups[d][k].letter = ticks[s].groups[d][l].letter => k = l
  <1>1. TickTrue(s, d) /\ OneTick
    BY DEF NotifyInv, WorkerTrue, TicksTrue
  <1>2. /\ \A k \in DOMAIN ticks[s].groups[d] :
              /\ ticks[s].groups[d][k].letter \in DOMAIN letters
              /\ letters[ticks[s].groups[d][k].letter].to = d
        /\ ticks[s].at \in {"off", "queue"} => ticks[s].groups[d] = <<>>
    BY ONLY <1>1 DEF TickTrue
  <1>3. ~notes.adrift => \A k \in DOMAIN ticks[s].groups[d] :
              /\ ticks[s].groups[d][k].tries = letters[ticks[s].groups[d][k].letter].tries
              /\ \A l \in DOMAIN ticks[s].groups[d] :
                   ticks[s].groups[d][k].letter = ticks[s].groups[d][l].letter => k = l
    BY <1>1 DEF OneTick
  <1> QED
    BY <1>2, <1>3

LEMMA ClaimKeeps ==
  ASSUME NotifyInv, NEW s \in Lanes, ClaimLetters(s)
  PROVE  NotifyInv'
  <1> USE DEF NotifyInv, NotifyTyped
  <1> PICK g : g = claimDueNotificationDeliveries
    OBVIOUS
  <1>1. /\ ticks[s].at = "queue" /\ ticks[s] \in Ticks
        /\ ticks' = [ticks EXCEPT ![s].at = "send", ![s].groups = g]
        /\ UNCHANGED <<serverVars, ticking, posted, lostPosts, panel, asks, notes>>
    BY DEF ClaimLetters, WorkerTyped
  <1>2. /\ g \in [Destinations -> Seq(Claims)]
        /\ \A d \in Destinations : \A k \in DOMAIN g[d] :
             /\ g[d][k].letter \in DOMAIN letters /\ letters[g[d][k].letter].to = d
             /\ g[d][k].tries = letters[g[d][k].letter].tries
             /\ \A l \in DOMAIN g[d] : g[d][k].letter = g[d][l].letter => k = l
    BY ClaimTrue
  <1>3. TickIs(s, "send", ticks[s].known, ticks[s].left, g, ticks[s].asking)
    <2> PICK t : t = [ticks[s] EXCEPT !.at = "send", !.groups = g]
      OBVIOUS
    <2>1. /\ t \in Ticks /\ t.at = "send" /\ t.known = ticks[s].known
          /\ t.left = ticks[s].left /\ t.groups = g /\ t.asking = ticks[s].asking
      BY <1>1, <1>2 DEF Ticks
    <2>2. ticks' = [ticks EXCEPT ![s] = t]
      BY <1>1 DEF WorkerTyped
    <2> QED
      BY <2>1, <2>2, TickPut
  <1>4. ticks[s].asking = {}
    BY <1>1 DEF WorkerTrue, TicksTrue, TickTrue, Ticks
  <1>5. NotesTyped' /\ PanelTyped' /\ LettersTyped' /\ WorkerTyped'
    BY <1>1, <1>3, TypesKept DEF serverVars, TickIs
  <1>6. PlacesTrue' /\ PanelTrue'
    BY <1>1, PlacesKept, PanelKept DEF serverVars
  <1>7. LettersTrue'
    BY <1>1 DEF serverVars, WorkerTrue, LettersTrue, AlwaysWanted
  <1>8. TicksTrue'
    <2>1. letters' = letters /\ notes' = notes /\ LettersGrow /\ LaterPuts
      BY <1>1 DEF serverVars, LettersGrow, LaterPuts
    <2>2. /\ ticks'[s].at = "send" /\ ticks'[s].known = ticks[s].known
          /\ ticks'[s].left = ticks[s].left /\ ticks'[s].groups = g /\ ticks'[s].asking = {}
      BY <1>3, <1>4 DEF TickIs
    <2>3. ASSUME NEW d \in Destinations
          PROVE  TickTrue(s, d)'
      <3>1. TickTrue(s, d)
        BY DEF WorkerTrue, TicksTrue
      <3>2. \A k \in DOMAIN g[d] :
              g[d][k].letter \in DOMAIN letters /\ letters[g[d][k].letter].to = d
        BY <1>2
      <3> QED
        BY ONLY <2>1, <2>2, <3>1, <3>2 DEF TickTrue
    <2> QED
      BY <1>3, <2>1, <2>3, OthersTrue DEF TickIs
  <1>9. OneTick'
    <2> SUFFICES ASSUME ~notes'.adrift PROVE OneTick'
      BY DEF OneTick
    <2>1. OneTick /\ ~notes.adrift /\ letters' = letters /\ ticking' = ticking
      BY <1>1 DEF WorkerTrue, serverVars
    <2>2. ticking /\ \A r \in Lanes : ticks[r].at # "off" => r = s
      BY <1>1, <2>1 DEF OneTick
    <2>3. /\ ticks'[s].at = "send" /\ ticks'[s].groups = g
          /\ \A r \in Lanes : r # s => ticks'[r] = ticks[r]
      BY <1>3 DEF TickIs
    <2>4. \A r \in Lanes : ticks'[r].at # "off" => r = s
      BY <2>2, <2>3
    <2>5. ASSUME NEW r \in Lanes, NEW d \in Destinations, NEW k \in DOMAIN ticks'[r].groups[d]
          PROVE  /\ ticks'[r].groups[d][k].tries = letters[ticks'[r].groups[d][k].letter].tries
                 /\ \A l \in DOMAIN ticks'[r].groups[d] :
                      ticks'[r].groups[d][k].letter = ticks'[r].groups[d][l].letter => k = l
      <3>1. CASE r = s
        BY <1>2, <2>3, <2>5, <3>1
      <3>2. CASE r # s
        <4>1. ticks'[r].groups[d] = ticks[r].groups[d]
          BY <2>3, <3>2
        <4> QED
          BY <2>1, <2>5, <4>1, GroupTrue
      <3> QED
        BY <3>1, <3>2
    <2>6. \A r \in Lanes : ticks'[r].at # "off" => ticking' /\ ticks'[r].at # "adrift"
      BY <2>1, <2>2, <2>3, <2>4
    <2> QED
      BY ONLY <2>1, <2>4, <2>5, <2>6 DEF OneTick
  <1>10. Asking(s)' = Asking(s)
    BY <1>3, <1>4 DEF TickIs, Asking
  <1>11. PostsTrue'
    BY <1>1, <1>3, <1>10, OpenKept DEF TickIs, serverVars, WorkerTrue, PostsTrue
  <1> QED
    BY <1>5, <1>6, <1>7, <1>8, <1>9, <1>11 DEF WorkerTrue

\* The first of a group, and the rest.
LEMMA HeadOfGroup ==
  ASSUME NotifyInv, NEW s \in Lanes, NEW d \in Destinations, ticks[s].groups[d] # <<>>
  PROVE  LET g == ticks[s].groups[d]  head == Head(g) IN
         /\ g \in Seq(Claims) /\ 1 \in DOMAIN g /\ head = g[1]
         /\ head.letter \in DOMAIN letters /\ letters[head.letter].to = d
         /\ head.tries \in Nat /\ head.letter \in Nat
         /\ Tail(g) \in Seq(Claims)
         /\ \A k \in DOMAIN Tail(g) : k + 1 \in DOMAIN g /\ k + 1 # 1 /\ Tail(g)[k] = g[k + 1]
  <1> PICK g : g = ticks[s].groups[d]
    OBVIOUS
  <1>1. g \in Seq(Claims) /\ g # <<>>
    BY DEF NotifyInv, NotifyTyped, WorkerTyped, Ticks
  <1>2. /\ 1 \in DOMAIN g /\ Head(g) = g[1] /\ Tail(g) \in Seq(Claims)
        /\ \A k \in DOMAIN Tail(g) : k + 1 \in DOMAIN g /\ k + 1 # 1 /\ Tail(g)[k] = g[k + 1]
    BY <1>1, HeadTailProperties
  <1>3. g[1] \in Claims
    BY <1>1, <1>2
  <1>4. g[1].letter \in DOMAIN letters /\ letters[g[1].letter].to = d
    BY <1>2, GroupTrue
  <1> QED
    BY <1>1, <1>2, <1>3, <1>4 DEF Claims

\* What is asked for is a letter of the destination that is asked.
LEMMA AskingKnown ==
  ASSUME NotifyInv, NEW s \in Lanes, NEW d \in ticks[s].asking
  PROVE  /\ d \in Destinations /\ ticks[s].groups[d] # <<>>
         /\ Head(ticks[s].groups[d]).letter \in DOMAIN letters
         /\ letters[Head(ticks[s].groups[d]).letter].to = d
         /\ ticks[s].at # "off"
  <1>1. d \in Destinations
    BY DEF NotifyInv, NotifyTyped, WorkerTyped, Ticks
  <1>2. ticks[s].groups[d] # <<>> /\ ticks[s].at # "off"
    BY <1>1 DEF NotifyInv, WorkerTrue, TicksTrue, TickTrue
  <1> QED
    BY <1>1, <1>2, HeadOfGroup

LEMMA EndTickKeeps ==
  ASSUME NotifyInv, NEW s \in Lanes, EndNotifyTick(s)
  PROVE  NotifyInv'
  <1> USE DEF NotifyInv, NotifyTyped
  <1>1. /\ ticks[s].at \in {"send", "adrift"} /\ \A d \in Destinations : ticks[s].groups[d] = <<>>
        /\ ticks' = [ticks EXCEPT ![s] = NoTick] /\ ticking' = (ticking /\ ticks[s].at = "adrift")
        /\ UNCHANGED <<serverVars, posted, lostPosts, panel, asks, notes>>
    BY DEF EndNotifyTick
  <1>2. NoTick \in Ticks
    BY DEF NoTick, Ticks, Listings
  <1>3. TickIs(s, NoTick.at, NoTick.known, NoTick.left, NoTick.groups, NoTick.asking)
    BY <1>1, <1>2, TickPut
  <1>4. /\ NoTick.at = "off" /\ NoTick.asking = {} /\ NoTick.left = {}
        /\ \A d \in Destinations : NoTick.groups[d] = <<>> /\ NoTick.known[d] = Nil
    BY DEF NoTick
  <1>5. ticks[s].asking = {}
    BY <1>1, AskingKnown
  <1>6. NotesTyped' /\ PanelTyped' /\ LettersTyped'
    BY <1>1, TypesKept DEF serverVars
  <1>7. WorkerTyped'
    BY <1>1, <1>3 DEF serverVars, WorkerTyped, TickIs
  <1>8. PlacesTrue' /\ PanelTrue'
    BY <1>1, PlacesKept, PanelKept DEF serverVars
  <1>9. LettersTrue'
    BY <1>1 DEF serverVars, WorkerTrue, LettersTrue, AlwaysWanted
  <1>10. TicksTrue'
    <2>1. LettersGrow /\ LaterPuts
      BY <1>1 DEF serverVars, LettersGrow, LaterPuts
    <2>2. ASSUME NEW d \in Destinations
          PROVE  TickTrue(s, d)'
      <3>1. ticks'[s].groups[d] = <<>> /\ ticks'[s].asking = {} /\ ticks'[s].left = {}
            /\ ticks'[s].known[d] = Nil
        BY <1>3, <1>4 DEF TickIs
      <3>2. \A k \in DOMAIN ticks'[s].groups[d] : FALSE
        BY <3>1
      <3> QED
        BY <3>1, <3>2 DEF TickTrue
    <2> QED
      BY <1>3, <2>1, <2>2, OthersTrue DEF TickIs
  <1>11. OneTick'
    <2> SUFFICES ASSUME ~notes'.adrift PROVE OneTick'
      BY DEF OneTick
    <2>1. \A r \in Lanes : ticks'[r].at = "off"
      BY <1>1, <1>3, <1>4 DEF WorkerTrue, OneTick, TickIs
    <2>2. \A r \in Lanes, d \in Destinations : \A k \in DOMAIN ticks'[r].groups[d] : FALSE
      BY <1>10, <2>1 DEF TicksTrue, TickTrue
    <2> QED
      BY <2>1, <2>2 DEF OneTick
  <1>12. Asking(s)' = Asking(s)
    BY <1>3, <1>4, <1>5 DEF TickIs, Asking
  <1>13. PostsTrue'
    BY <1>1, <1>3, <1>12, OpenKept DEF TickIs, serverVars, WorkerTrue, PostsTrue
  <1> QED
    BY <1>6, <1>7, <1>8, <1>9, <1>10, <1>11, <1>13 DEF WorkerTrue

\* A destination's first cursor: no letter of it exists yet.
LEMMA StartPlaceKeeps ==
  ASSUME NotifyInv, NEW s \in Lanes, NEW d \in Destinations, StartPlace(s, d)
  PROVE  NotifyInv'
  <1> USE DEF NotifyInv, NotifyTyped
  <1>1. /\ ticks[s].at = "queue" /\ d \in ticks[s].left /\ places[d] = Nil
        /\ places' = [places EXCEPT ![d] = happened]
        /\ ticks' = [ticks EXCEPT ![s].left = @ \ {d}]
        /\ UNCHANGED <<destinations, letters, happened, ticking, posted, lostPosts, panel, asks, notes>>
    BY DEF StartPlace, NextUp
  <1>2. ticks[s] \in Ticks
    BY DEF WorkerTyped
  <1>3. TickIs(s, ticks[s].at, ticks[s].known, ticks[s].left \ {d}, ticks[s].groups, ticks[s].asking)
    <2> PICK L, t : L = ticks[s].left \ {d} /\ t = [ticks[s] EXCEPT !.left = L]
      OBVIOUS
    <2>1. /\ t \in Ticks /\ t.at = ticks[s].at /\ t.known = ticks[s].known
          /\ t.left = L /\ t.groups = ticks[s].groups /\ t.asking = ticks[s].asking
      <3>1. L \in SUBSET Destinations
        BY <1>2 DEF Ticks
      <3> QED
        BY <1>2, <3>1 DEF Ticks
    <2>2. ticks' = [ticks EXCEPT ![s] = t]
      BY <1>1, <1>2 DEF WorkerTyped
    <2> QED
      BY <2>1, <2>2, TickPut
  <1>4. notes.before[d] # Nil /\ notes.before[d] <= happened
    BY <1>1 DEF WorkerTrue, TicksTrue, TickTrue, PlacesTrue
  <1>5. NotesTyped' /\ PanelTyped' /\ LettersTyped' /\ PanelTrue'
    BY <1>1, TypesKept, PanelKept
  <1>6. WorkerTyped'
    BY <1>1, <1>3 DEF WorkerTyped, TickIs
  <1>7. \A e \in Destinations : places'[e] = IF e = d THEN happened ELSE places[e]
    BY <1>1 DEF WorkerTyped
  <1>8. PlacesTrue'
    BY <1>1, <1>4, <1>7 DEF WorkerTrue, PlacesTrue, WorkerTyped
  <1>9. LettersTrue'
    <2>1. \A i \in DOMAIN letters : letters[i].to # d /\ letters[i].to \in Destinations
      BY <1>1, LetterAt DEF WorkerTrue, LettersTrue
    <2> QED
      BY <1>1, <1>7, <2>1 DEF WorkerTrue, LettersTrue, AlwaysWanted
  <1>10. TicksTrue'
    <2>1. LettersGrow /\ LaterPuts
      BY <1>1 DEF LettersGrow, LaterPuts
    <2>2. ASSUME NEW e \in Destinations
          PROVE  TickTrue(s, e)'
      <3>1. TickTrue(s, e)
        BY DEF WorkerTrue, TicksTrue
      <3>2. /\ ticks'[s].at = ticks[s].at /\ ticks'[s].known = ticks[s].known
            /\ ticks'[s].left = ticks[s].left \ {d} /\ ticks'[s].groups = ticks[s].groups
            /\ ticks'[s].asking = ticks[s].asking /\ letters' = letters /\ notes' = notes
        BY <1>1, <1>3 DEF TickIs
      <3> QED
        BY ONLY <3>1, <3>2 DEF TickTrue
    <2> QED
      BY <1>3, <2>1, <2>2, OthersTrue DEF TickIs
  <1>11. OneTick'
    <2>1. \A r \in Lanes : ticks'[r].at = ticks[r].at /\ ticks'[r].groups = ticks[r].groups
      BY <1>3 DEF TickIs
    <2> QED
      BY <1>1, <2>1, OneTickStays
  <1>12. Asking(s)' = Asking(s)
    BY <1>3 DEF TickIs, Asking
  <1>13. PostsTrue'
    BY <1>1, <1>3, <1>12, OpenKept DEF TickIs, WorkerTrue, PostsTrue
  <1> QED
    BY <1>5, <1>6, <1>8, <1>9, <1>10, <1>11, <1>13 DEF WorkerTrue

\* What a sequence with another one behind it holds.
LEMMA Joined ==
  ASSUME NEW S, NEW front \in Seq(S), NEW back \in Seq(S), NEW whole, whole = front \o back,
         NEW m, m = Len(front), NEW n, n = Len(back)
  PROVE  /\ whole \in Seq(S) /\ Len(whole) = m + n /\ DOMAIN whole = 1..m + n
         /\ \A i \in 1..m : whole[i] = front[i]
         /\ \A i \in m + 1..m + n : whole[i] = back[i - m]
  BY ConcatProperties

\* Events past the cursor of a known destination get one letter each, if it wants them.
LEMMA EnqueueKeeps ==
  ASSUME NotifyInv, NEW s \in Lanes, NEW d \in Destinations, enqueueNew(s, d)
  PROVE  NotifyInv'
  <1> USE DEF NotifyInv, NotifyTyped
  <1>p1. PICK ceiling, dest : /\ ceiling = IF places[d] + NotifyBatch < happened
                                     THEN places[d] + NotifyBatch ELSE happened
                        /\ dest = ticks[s].known[d]
    OBVIOUS
  <1>p2. PICK new : new = {ev \in places[d] + 1..ceiling :
                          /\ Matches(dest, ev)
                          /\ \A i \in DOMAIN letters : letters[i].to # d \/ letters[i].ev # ev}
    OBVIOUS
  <1>p3. PICK n : n = Cardinality(new)
    OBVIOUS
  <1>p4. PICK fresh : fresh = [k \in 1..n |->
                              [to |-> d, ev |-> Listed(new)[k], kind |-> dest.kind,
                               status |-> "pending", tries |-> 0, due |-> TRUE]]
    OBVIOUS
  <1>p5. PICK rest : rest = IF ceiling - places[d] < NotifyBatch THEN ticks[s].left \ {d}
                         ELSE ticks[s].left
    OBVIOUS
  <1>p6. PICK zeros : zeros = [k \in DOMAIN fresh |-> 0]
    OBVIOUS
  <1>1. /\ ticks[s].at = "queue" /\ d \in ticks[s].left /\ places[d] # Nil
        /\ letters' = letters \o fresh
        /\ posted' = posted \o zeros
        /\ lostPosts' = lostPosts \o zeros
        /\ places' = [places EXCEPT ![d] = ceiling]
        /\ ticks' = [ticks EXCEPT ![s].left = rest]
        /\ UNCHANGED <<destinations, happened, ticking, panel, asks, notes>>
    BY <1>p1, <1>p2, <1>p3, <1>p4, <1>p5, <1>p6 DEF enqueueNew, NextUp
  <1>2. ticks[s] \in Ticks
    BY DEF WorkerTyped
  <1>3. TickIs(s, ticks[s].at, ticks[s].known, rest, ticks[s].groups, ticks[s].asking)
    <2> PICK t : t = [ticks[s] EXCEPT !.left = rest]
      OBVIOUS
    <2>1. /\ t \in Ticks /\ t.at = ticks[s].at /\ t.known = ticks[s].known
          /\ t.left = rest /\ t.groups = ticks[s].groups /\ t.asking = ticks[s].asking
      <3>1. rest \in SUBSET Destinations
        BY <1>2, <1>p5 DEF Ticks
      <3> QED
        BY <1>2, <3>1 DEF Ticks
    <2>2. ticks' = [ticks EXCEPT ![s] = t]
      BY <1>1, <1>2 DEF WorkerTyped
    <2> QED
      BY <2>1, <2>2, TickPut
  <1>4. /\ places[d] \in Nat /\ happened \in Nat /\ ceiling \in Nat
        /\ places[d] <= ceiling /\ ceiling <= happened
    <2>1. places[d] \in Nat /\ happened \in Nat /\ places[d] <= happened
      BY <1>1 DEF WorkerTyped, WorkerTrue, PlacesTrue
    <2>2. NotifyBatch \in Nat
      BY NotificationsAssumption
    <2> QED
      BY <1>p1, <2>1, <2>2
  <1>5. dest # Nil /\ dest \in RowsOf(d) /\ notes.before[d] # Nil
    BY <1>1, <1>p1 DEF WorkerTrue, TicksTrue, TickTrue
  <1>6. dest.kind \in Kinds
    <2>1. PICK k \in DOMAIN Entries : Entries[k].id = d /\ dest = parseDestination(Entries[k])
      BY <1>5 DEF RowsOf
    <2>2. dest.kind = Entries[k].kind
      BY <1>5, <2>1 DEF parseDestination
    <2> QED
      BY <2>2 DEF Kinds
  <1>7. /\ n \in Nat /\ Listed(new) \in [1..n -> new]
        /\ \A k, l \in 1..n : Listed(new)[k] = Listed(new)[l] => k = l
        /\ \A x \in new : \E k \in 1..n : Listed(new)[k] = x
    <2>1. new \in SUBSET (places[d] + 1..ceiling) /\ new \in SUBSET Nat
      BY <1>4, <1>p2
    <2>2. IsFiniteSet(places[d] + 1..ceiling)
      BY <1>4, FS_Interval
    <2>3. IsFiniteSet(new)
      BY <2>1, <2>2, FS_Subset
    <2> QED
      BY <1>p3, <2>1, <2>3, ListedOnce
  <1>8. \A ev \in new : /\ ev \in Nat /\ ev > places[d] /\ ev <= ceiling
                        /\ \A i \in DOMAIN letters : letters[i].to # d \/ letters[i].ev # ev
    BY <1>4, <1>p2
  <1>9. \A ev \in Nat : ev > places[d] /\ ev <= ceiling /\ Matches(dest, ev) =>
          ev \in new \/ \E i \in DOMAIN letters : letters[i].to = d /\ letters[i].ev = ev
    BY <1>4, <1>p2
  <1>10. \A k \in 1..n : /\ fresh[k].to = d /\ fresh[k].ev = Listed(new)[k]
                         /\ fresh[k].ev \in new /\ fresh[k].tries = 0
    BY <1>7, <1>p4
  <1>11. fresh \in [1..n -> Letters] /\ zeros \in [1..n -> Int]
    <2>1. ASSUME NEW k \in 1..n
          PROVE  fresh[k] \in Letters
      <3>1. Listed(new)[k] \in Nat
        BY <1>7, <1>8
      <3>2. fresh[k] = [to |-> d, ev |-> Listed(new)[k], kind |-> dest.kind, status |-> "pending",
                        tries |-> 0, due |-> TRUE]
        BY <1>p4
      <3> QED
        BY <1>6, <3>1, <3>2 DEF Letters
    <2>2. fresh \in [1..n -> Letters]
      BY <1>p4, <2>1
    <2> QED
      BY <1>p6, <2>2
  <1>12. /\ fresh \in Seq(Letters) /\ Len(fresh) = n /\ DOMAIN fresh = 1..n
         /\ zeros \in Seq(Int) /\ Len(zeros) = n /\ \A k \in 1..n : zeros[k] = 0
    <2>1. fresh \in Seq(Letters) /\ zeros \in Seq(Int)
      BY <1>7, <1>11, SeqDef
    <2>2. DOMAIN fresh = 1..n /\ DOMAIN zeros = 1..n
      BY <1>11
    <2>3. Len(fresh) = n /\ Len(zeros) = n
      BY <1>7, <2>1, <2>2
    <2> QED
      BY <1>p6, <2>1, <2>2, <2>3
  <1>13. /\ letters \in Seq(Letters) /\ posted \in Seq(Int) /\ lostPosts \in Seq(Int)
         /\ Len(posted) = Len(letters) /\ Len(lostPosts) = Len(letters) /\ Len(letters) \in Nat
    BY DEF LettersTyped
  <1> PICK m : m = Len(letters)
    OBVIOUS
  <1>14. /\ letters' \in Seq(Letters) /\ DOMAIN letters' = 1..m + n
         /\ \A i \in 1..m : letters'[i] = letters[i]
         /\ \A i \in m + 1..m + n : letters'[i] = fresh[i - m]
    <2>1. /\ letters \in Seq(Letters) /\ fresh \in Seq(Letters)
          /\ letters' = letters \o fresh /\ m = Len(letters) /\ n = Len(fresh)
      BY <1>1, <1>12, <1>13
    <2>2. /\ letters' \in Seq(Letters) /\ DOMAIN letters' = 1..m + n
          /\ \A i \in 1..m : letters'[i] = letters[i]
          /\ \A i \in m + 1..m + n : letters'[i] = fresh[i - m]
      BY ONLY <2>1, Joined
    <2>3. \A i \in m + 1..m + n : i - m \in 1..n
      BY <1>7, <1>13
    <2> QED
      BY <1>12, <2>2, <2>3
  <1>15. /\ posted' \in Seq(Int) /\ DOMAIN posted' = 1..m + n
         /\ \A i \in 1..m : posted'[i] = posted[i]
         /\ \A i \in m + 1..m + n : posted'[i] = 0
    <2>1. /\ posted \in Seq(Int) /\ zeros \in Seq(Int)
          /\ posted' = posted \o zeros /\ m = Len(posted) /\ n = Len(zeros)
      BY <1>1, <1>12, <1>13
    <2>2. /\ posted' \in Seq(Int) /\ DOMAIN posted' = 1..m + n
          /\ \A i \in 1..m : posted'[i] = posted[i]
          /\ \A i \in m + 1..m + n : posted'[i] = zeros[i - m]
      BY ONLY <2>1, Joined
    <2>3. \A i \in m + 1..m + n : i - m \in 1..n
      BY <1>7, <1>13
    <2> QED
      BY <1>12, <2>2, <2>3
  <1>16. /\ lostPosts' \in Seq(Int) /\ DOMAIN lostPosts' = 1..m + n
         /\ \A i \in 1..m : lostPosts'[i] = lostPosts[i]
         /\ \A i \in m + 1..m + n : lostPosts'[i] = 0
    <2>1. /\ lostPosts \in Seq(Int) /\ zeros \in Seq(Int)
          /\ lostPosts' = lostPosts \o zeros /\ m = Len(lostPosts) /\ n = Len(zeros)
      BY <1>1, <1>12, <1>13
    <2>2. /\ lostPosts' \in Seq(Int) /\ DOMAIN lostPosts' = 1..m + n
          /\ \A i \in 1..m : lostPosts'[i] = lostPosts[i]
          /\ \A i \in m + 1..m + n : lostPosts'[i] = zeros[i - m]
      BY ONLY <2>1, Joined
    <2>3. \A i \in m + 1..m + n : i - m \in 1..n
      BY <1>7, <1>13
    <2> QED
      BY <1>12, <2>2, <2>3
  <1>17. NotesTyped' /\ PanelTyped' /\ PanelTrue'
    BY <1>1, TypesKept, PanelKept
  <1>18. LettersTyped'
    <2>1. Len(letters') = Len(posted') /\ Len(lostPosts') = Len(letters')
      BY <1>7, <1>13, <1>14, <1>15, <1>16
    <2> QED
      BY <1>14, <1>15, <1>16, <2>1 DEF LettersTyped
  <1>19. \A e \in Destinations : places'[e] = IF e = d THEN ceiling ELSE places[e]
    BY <1>1 DEF WorkerTyped
  <1>20. WorkerTyped'
    BY <1>1, <1>3, <1>4 DEF WorkerTyped, TickIs
  <1>21. PlacesTrue'
    <2>1. notes.before[d] <= ceiling
      BY <1>1, <1>4, <1>5 DEF WorkerTrue, PlacesTrue, NotesTyped
    <2> QED
      BY <1>1, <1>4, <1>5, <1>19, <2>1 DEF WorkerTrue, PlacesTrue
  <1>22. LettersTrue'
    <2>1. DOMAIN letters = 1..m
      BY <1>13
    <2>2. ASSUME NEW i \in DOMAIN letters'
          PROVE  \/ i \in 1..m /\ i \in DOMAIN letters /\ letters'[i] = letters[i]
                                /\ letters'[i].to \in Destinations /\ letters'[i].ev \in Nat
                 \/ i \in m + 1..m + n /\ i - m \in 1..n /\ letters'[i].to = d
                                       /\ letters'[i].ev = Listed(new)[i - m]
                                       /\ letters'[i].ev \in new
      <3>1. i \in 1..m \/ (i \in m + 1..m + n /\ i - m \in 1..n)
        BY <1>7, <1>13, <1>14
      <3>2. CASE i \in 1..m
        BY <1>14, <2>1, <3>2, LetterAt
      <3>3. CASE i \in m + 1..m + n /\ i - m \in 1..n
        BY <1>10, <1>14, <3>3
      <3> QED
        BY <3>1, <3>2, <3>3
    <2>3. LettersTrue
      BY DEF WorkerTrue
    <2>4. ASSUME NEW i \in DOMAIN letters'
          PROVE  /\ notes'.before[letters'[i].to] # Nil /\ places'[letters'[i].to] # Nil
                 /\ letters'[i].ev > notes'.before[letters'[i].to]
      <3>1. CASE i \in DOMAIN letters /\ letters'[i] = letters[i] /\ letters'[i].to \in Destinations
        <4>1. ceiling # Nil
          BY <1>4, NotificationsAssumption
        <4> QED
          BY <1>1, <1>19, <2>3, <3>1, <4>1 DEF LettersTrue
      <3>2. CASE letters'[i].to = d /\ letters'[i].ev \in new
        <4>1. ceiling # Nil /\ places'[d] = ceiling
          BY <1>4, <1>19, NotificationsAssumption
        <4>2. notes.before[d] \in Nat /\ notes.before[d] <= places[d]
          BY <1>1, <1>5 DEF NotesTyped, WorkerTrue, PlacesTrue
        <4>3. letters'[i].ev \in Nat /\ letters'[i].ev > places[d]
          BY <1>8, <3>2
        <4>4. letters'[i].ev > notes.before[d]
          <5>1. places[d] \in Nat
            BY <1>4
          <5> QED
            BY ONLY <4>2, <4>3, <5>1
        <4>5. notes'.before = notes.before
          BY <1>1
        <4> QED
          BY <1>5, <3>2, <4>1, <4>4, <4>5
      <3> QED
        BY <2>2, <3>1, <3>2
    <2>5. ASSUME NEW i \in DOMAIN letters', NEW j \in DOMAIN letters',
                 letters'[i].to = letters'[j].to, letters'[i].ev = letters'[j].ev
          PROVE  i = j
      <3>1. CASE i \in DOMAIN letters /\ j \in DOMAIN letters /\ letters'[i] = letters[i]
                 /\ letters'[j] = letters[j]
        BY <2>3, <2>5, <3>1 DEF LettersTrue
      <3>2. CASE i \in m + 1..m + n /\ j \in m + 1..m + n /\ i - m \in 1..n /\ j - m \in 1..n
                 /\ letters'[i].ev = Listed(new)[i - m] /\ letters'[j].ev = Listed(new)[j - m]
        <4>1. i - m = j - m
          BY <1>7, <2>5, <3>2
        <4> QED
          BY <1>7, <1>13, <3>2, <4>1
      <3>3. CASE i \in DOMAIN letters /\ letters'[i] = letters[i] /\ letters'[j].to = d
                 /\ letters'[j].ev \in new
        BY <1>8, <2>5, <3>3
      <3>4. CASE j \in DOMAIN letters /\ letters'[j] = letters[j] /\ letters'[i].to = d
                 /\ letters'[i].ev \in new
        BY <1>8, <2>5, <3>4
      <3> QED
        BY <2>2, <3>1, <3>2, <3>3, <3>4
    <2>6. ASSUME NEW e \in Destinations, NEW ev \in Nat, NEW i \in DOMAIN letters',
                 AlwaysWanted(e, ev), places'[e] # Nil, ev <= places'[e],
                 letters'[i].to = e, letters'[i].ev < ev
          PROVE  \E j \in DOMAIN letters' : letters'[j].to = e /\ letters'[j].ev = ev
      <3>1. \A j \in DOMAIN letters : j \in DOMAIN letters' /\ letters'[j] = letters[j]
        BY <1>7, <1>13, <1>14, <2>1
      <3>2. CASE e # d \/ ev <= places[d]
        <4>1. places[e] # Nil /\ ev <= places[e]
          BY <1>1, <1>19, <2>6, <3>2
        <4>2. i \in DOMAIN letters /\ letters'[i] = letters[i]
          <5>1. CASE letters'[i].to = d /\ letters'[i].ev \in new
            <6>1. e = d /\ ev <= places[d]
              BY <2>6, <3>2, <5>1
            <6>2. letters'[i].ev \in Nat /\ letters'[i].ev > places[d]
              BY <1>8, <5>1
            <6> QED
              BY <1>4, <2>6, <6>1, <6>2
          <5> QED
            BY <2>2, <5>1
        <4>3. PICK j \in DOMAIN letters : letters[j].to = e /\ letters[j].ev = ev
          BY <2>3, <2>6, <4>1, <4>2 DEF LettersTrue
        <4> QED
          BY <3>1, <4>3
      <3>3. CASE e = d /\ ev > places[d]
        <4>1. ev <= ceiling
          BY <1>19, <2>6, <3>3
        <4>2. Matches(dest, ev)
          BY <1>5, <2>6, <3>3 DEF AlwaysWanted, RowsOf
        <4>3. ev \in new \/ \E j \in DOMAIN letters : letters[j].to = d /\ letters[j].ev = ev
          BY <1>9, <3>3, <4>1, <4>2
        <4>4. CASE ev \in new
          <5>1. PICK k \in 1..n : Listed(new)[k] = ev
            BY <1>7, <4>4
          <5>2. /\ m + k \in m + 1..m + n /\ m + k \in 1..m + n /\ (m + k) - m = k
            BY <1>7, <1>13
          <5>3. letters'[m + k] = fresh[k]
            BY <1>14, <5>2
          <5> QED
            BY <1>10, <1>14, <3>3, <5>1, <5>2, <5>3
        <4>5. CASE \E j \in DOMAIN letters : letters[j].to = d /\ letters[j].ev = ev
          BY <3>1, <3>3, <4>5
        <4> QED
          BY <4>3, <4>4, <4>5
      <3> QED
        BY <1>4, <3>2, <3>3
    <2>7. \A e, ev : AlwaysWanted(e, ev)' <=> AlwaysWanted(e, ev)
      BY DEF AlwaysWanted
    <2> QED
      BY <2>4, <2>5, <2>6, <2>7 DEF LettersTrue
  <1>23. LettersGrow /\ LaterPuts
    <2>1. \A i \in DOMAIN letters : i \in 1..m /\ i \in 1..m + n
      BY <1>7, <1>13
    <2> QED
      BY <1>1, <1>14, <2>1 DEF LettersGrow, LaterPuts
  <1>24. TicksTrue'
    <2>1. ASSUME NEW e \in Destinations
          PROVE  TickTrue(s, e)'
      <3>1. rest \subseteq ticks[s].left
        BY <1>p5
      <3>2. TickTrue(s, e) /\ ticks[s].groups[e] = <<>>
        BY <1>1, GroupTrue DEF WorkerTrue, TicksTrue
      <3>3. \A k \in DOMAIN ticks[s].groups[e] : FALSE
        BY <3>2
      <3> QED
        BY <1>1, <1>3, <3>1, <3>2, <3>3 DEF TickTrue, TickIs
    <2> QED
      BY <1>3, <1>23, <2>1, OthersTrue DEF TickIs
  <1>25. \A i \in DOMAIN letters : i \in DOMAIN letters' /\ letters'[i] = letters[i]
    BY <1>7, <1>13, <1>14
  <1>26. OneTick'
    <2> SUFFICES ASSUME ~notes'.adrift PROVE OneTick'
      BY DEF OneTick
    <2>1. \A r \in Lanes : /\ ticks'[r].at = ticks[r].at /\ ticks'[r].groups = ticks[r].groups
      BY <1>3 DEF TickIs
    <2>2. OneTick /\ ~notes.adrift /\ ticking' = ticking
      BY <1>1 DEF WorkerTrue
    <2>3. ASSUME NEW r \in Lanes, NEW e \in Destinations, NEW k \in DOMAIN ticks[r].groups[e]
          PROVE  ticks[r].groups[e][k].letter \in DOMAIN letters
      BY DEF WorkerTrue, TicksTrue, TickTrue
    <2> QED
      BY ONLY <1>25, <2>1, <2>2, <2>3 DEF OneTick
  <1>27. Asking(s)' = Asking(s)
    BY <1>3 DEF TickIs, Asking
  <1>28. PostsTrue'
    <2> SUFFICES ASSUME ~notes'.adrift, NEW i \in DOMAIN letters'
                 PROVE  posted'[i] = letters'[i].tries + (IF AskedFor(i)' THEN 1 ELSE 0) + lostPosts'[i]
      BY DEF PostsTrue
    <2>1. AskedFor(i)' <=> AskedFor(i)
      BY <1>3, <1>27, OpenKept DEF TickIs
    <2>2. CASE i \in 1..m
      <3>1. i \in DOMAIN letters
        BY <1>13, <2>2
      <3>2. posted[i] = letters[i].tries + (IF AskedFor(i) THEN 1 ELSE 0) + lostPosts[i]
        BY <1>1, <3>1 DEF WorkerTrue, PostsTrue
      <3> QED
        BY <1>14, <1>15, <1>16, <2>1, <2>2, <3>2
    <2>3. CASE i \in m + 1..m + n
      <3>1. i - m \in 1..n /\ i \notin DOMAIN letters
        BY <1>7, <1>13, <2>3
      <3>2. ~AskedFor(i)
        BY <3>1, AskingKnown DEF AskedFor, Asking
      <3>3. letters'[i].tries = 0
        BY <1>10, <1>14, <2>3, <3>1
      <3> QED
        BY <1>15, <1>16, <2>1, <2>3, <3>2, <3>3
    <2> QED
      BY <1>7, <1>13, <1>14, <2>2, <2>3
  <1> QED
    BY <1>17, <1>18, <1>20, <1>21, <1>22, <1>24, <1>26, <1>28 DEF WorkerTrue

\* Who asks for what when one destination's group moves on.
LEMMA AskingMoves ==
  ASSUME NotifyInv, NEW s \in Lanes, NEW d \in Destinations, ticks[s].groups[d] # <<>>,
         NEW i, i = Head(ticks[s].groups[d]).letter,
         \A e \in Destinations : e # d => ticks'[s].groups[e] = ticks[s].groups[e]
  PROVE  /\ d \notin ticks[s].asking => i \notin Asking(s)
         /\ ticks'[s].asking = ticks[s].asking /\ d \notin ticks[s].asking
              => Asking(s)' = Asking(s)
         /\ ticks'[s].asking = ticks[s].asking \ {d} => Asking(s)' = Asking(s) \ {i}
         /\ ticks'[s].asking = ticks[s].asking \cup {d} /\ ticks'[s].groups[d] = ticks[s].groups[d]
              => Asking(s)' = Asking(s) \cup {i}
  <1>1. \A e \in ticks[s].asking : /\ e \in Destinations
                                   /\ letters[Head(ticks[s].groups[e]).letter].to = e
    BY AskingKnown
  <1>2. letters[i].to = d
    BY HeadOfGroup
  <1>3. \A e \in ticks[s].asking : e # d => Head(ticks[s].groups[e]).letter # i
    BY <1>1, <1>2
  <1>4. d \notin ticks[s].asking => i \notin Asking(s)
    BY <1>3 DEF Asking
  <1>5. ASSUME ticks'[s].asking = ticks[s].asking, d \notin ticks[s].asking
        PROVE  Asking(s)' = Asking(s)
    BY <1>1, <1>5 DEF Asking
  <1>6. ASSUME ticks'[s].asking = ticks[s].asking \ {d}
        PROVE  Asking(s)' = Asking(s) \ {i}
    BY <1>1, <1>3, <1>6 DEF Asking
  <1>7. ASSUME ticks'[s].asking = ticks[s].asking \cup {d},
               ticks'[s].groups[d] = ticks[s].groups[d]
        PROVE  Asking(s)' = Asking(s) \cup {i}
    BY <1>1, <1>7 DEF Asking
  <1> QED
    BY <1>4, <1>5, <1>6, <1>7

\* Until an outcome could not be recorded, nobody else asks for anything.
LEMMA AloneAsking ==
  ASSUME NotifyInv, ~notes.adrift, NEW s \in Lanes, ticks[s].at # "off",
         \A r \in Lanes : r # s => ticks'[r] = ticks[r]
  PROVE  \A i : /\ AskedFor(i) <=> i \in Asking(s)
                /\ AskedFor(i)' <=> i \in Asking(s)'
  <1>1. ASSUME NEW r \in Lanes, r # s
        PROVE  Asking(r) = {} /\ Asking(r)' = {}
    <2>1. ticks[r].at = "off"
      BY <1>1 DEF NotifyInv, WorkerTrue, OneTick
    <2>2. ticks[r].asking = {}
      BY <2>1, AskingKnown
    <2> QED
      BY <1>1, <2>2 DEF Asking
  <1> QED
    BY <1>1 DEF AskedFor

GroupMoves(s, d, asking) ==
  ticks' = [ticks EXCEPT ![s].groups[d] = Tail(@), ![s].asking = asking]

\* The first letter of a group is done with: the group goes on without it.
LEMMA HeadDone ==
  ASSUME NotifyInv, NEW s \in Lanes, NEW d \in Destinations, ticks[s].groups[d] # <<>>,
         NEW asking \in {ticks[s].asking, ticks[s].asking \ {d}}, d \notin asking,
         GroupMoves(s, d, asking), SameLetters, LaterPuts, UNCHANGED <<ticking, notes>>,
         \A j \in DOMAIN letters : j # Head(ticks[s].groups[d]).letter =>
           letters'[j].tries = letters[j].tries
  PROVE  /\ TickIs(s, ticks[s].at, ticks[s].known, ticks[s].left,
                   [ticks[s].groups EXCEPT ![d] = Tail(@)], asking)
         /\ TicksTrue' /\ OneTick'
  <1> USE DEF NotifyInv
  <1> PICK g, head : g = ticks[s].groups[d] /\ head = Head(g)
    OBVIOUS
  <1>g. g = ticks[s].groups[d]
    OBVIOUS
  <1>1. /\ g \in Seq(Claims) /\ 1 \in DOMAIN g /\ head = g[1]
        /\ head.letter \in DOMAIN letters /\ letters[head.letter].to = d
        /\ head.tries \in Nat /\ head.letter \in Nat
        /\ Tail(g) \in Seq(Claims)
        /\ \A k \in DOMAIN Tail(g) : k + 1 \in DOMAIN g /\ k + 1 # 1 /\ Tail(g)[k] = g[k + 1]
    BY HeadOfGroup
  <1>2. ticks[s] \in Ticks
    BY DEF NotifyTyped, WorkerTyped
  <1> PICK G : G = [ticks[s].groups EXCEPT ![d] = Tail(@)]
    OBVIOUS
  <1>3. /\ G \in [Destinations -> Seq(Claims)] /\ G[d] = Tail(g)
        /\ \A e \in Destinations : e # d => G[e] = ticks[s].groups[e]
    BY <1>1, <1>2 DEF Ticks
  <1>4. TickIs(s, ticks[s].at, ticks[s].known, ticks[s].left, G, asking)
    <2> PICK t : t = [ticks[s] EXCEPT !.groups = G, !.asking = asking]
      OBVIOUS
    <2>1. /\ t \in Ticks /\ t.at = ticks[s].at /\ t.known = ticks[s].known
          /\ t.left = ticks[s].left /\ t.groups = G /\ t.asking = asking
      <3>1. asking \in SUBSET Destinations
        BY <1>2 DEF Ticks
      <3> QED
        BY <1>2, <1>3, <3>1 DEF Ticks
    <2>2. ticks' = [ticks EXCEPT ![s] = t]
      BY <1>2 DEF NotifyTyped, WorkerTyped, GroupMoves
    <2> QED
      BY <2>1, <2>2, TickPut
  <1>5. LettersGrow /\ DOMAIN letters' = DOMAIN letters
    BY SameLettersGrow
  <1>6. TicksTrue'
    <2>1. ASSUME NEW e \in Destinations
          PROVE  TickTrue(s, e)'
      <3>1. TickTrue(s, e)
        BY DEF WorkerTrue, TicksTrue
      <3>4. /\ ticks'[s].at = ticks[s].at /\ ticks'[s].known = ticks[s].known
            /\ ticks'[s].left = ticks[s].left /\ ticks'[s].groups = G
            /\ ticks'[s].asking \subseteq ticks[s].asking /\ d \notin ticks'[s].asking
        BY <1>4 DEF TickIs
      <3>5. notes' = notes
        OBVIOUS
      <3>2. CASE e # d
        <4>1. ticks'[s].groups[e] = ticks[s].groups[e]
          BY <1>3, <3>2, <3>4
        <4> QED
          <5>1. \A k \in DOMAIN ticks'[s].groups[e] :
                  /\ ticks'[s].groups[e][k].letter \in DOMAIN letters'
                  /\ letters'[ticks'[s].groups[e][k].letter].to = e
            BY ONLY <1>5, <3>1, <4>1 DEF TickTrue, LettersGrow
          <5>2. /\ ticks'[s].at \in {"off", "queue"} => ticks'[s].groups[e] = <<>>
                /\ e \in ticks'[s].left => ticks'[s].known[e] # Nil
                /\ e \in ticks'[s].asking =>
                     ticks'[s].groups[e] # <<>> /\ ticks'[s].known[e] # Nil
            BY <3>1, <3>4, <4>1 DEF TickTrue
          <5>3. ticks'[s].known[e] # Nil =>
                  /\ ticks'[s].known[e] \in RowsOf(e) /\ ticks'[s].known[e].on
                  /\ notes'.before[e] # Nil
            BY <3>1, <3>4, <3>5 DEF TickTrue
          <5> QED
            BY <5>1, <5>2, <5>3 DEF TickTrue
      <3>3. CASE e = d
        <4>1. ticks'[s].groups[e] = Tail(g) /\ e \notin ticks'[s].asking
          BY <1>3, <1>4, <3>3 DEF TickIs
        <4>2. \A k \in DOMAIN Tail(g) : /\ Tail(g)[k].letter \in DOMAIN letters
                                        /\ letters[Tail(g)[k].letter].to = d
          <5>1. \A k \in DOMAIN g : g[k].letter \in DOMAIN letters /\ letters[g[k].letter].to = d
            BY GroupTrue
          <5>2. \A k \in DOMAIN Tail(g) : k + 1 \in DOMAIN g /\ Tail(g)[k] = g[k + 1]
            BY <1>1
          <5> QED
            BY ONLY <5>1, <5>2
        <4>3. ticks[s].at \notin {"off", "queue"}
          BY <3>1, <3>3 DEF TickTrue
        <4> QED
          <5>1. \A k \in DOMAIN ticks'[s].groups[e] :
                  /\ ticks'[s].groups[e][k].letter \in DOMAIN letters'
                  /\ letters'[ticks'[s].groups[e][k].letter].to = e
            BY ONLY <1>5, <3>3, <4>1, <4>2 DEF LettersGrow
          <5>2. /\ ticks'[s].at \notin {"off", "queue"} /\ e \notin ticks'[s].asking
                /\ e \in ticks'[s].left => ticks'[s].known[e] # Nil
            BY <3>1, <3>4, <4>1, <4>3 DEF TickTrue
          <5>3. ticks'[s].known[e] # Nil =>
                  /\ ticks'[s].known[e] \in RowsOf(e) /\ ticks'[s].known[e].on
                  /\ notes'.before[e] # Nil
            BY <3>1, <3>4, <3>5 DEF TickTrue
          <5> QED
            BY <5>1, <5>2, <5>3 DEF TickTrue
      <3> QED
        BY <3>2, <3>3
    <2> QED
      BY <1>4, <1>5, <2>1, OthersTrue DEF TickIs
  <1>7. OneTick'
    <2> SUFFICES ASSUME ~notes'.adrift PROVE OneTick'
      BY DEF OneTick
    <2>1. OneTick /\ ~notes.adrift
      BY DEF WorkerTrue
    <2>2. ticks[s].at # "off"
      BY DEF WorkerTrue, TicksTrue, TickTrue
    <2>3. \A r \in Lanes : ticks'[r].at = ticks[r].at
      BY <1>4 DEF TickIs
    <2>4. ASSUME NEW r \in Lanes, NEW e \in Destinations, NEW k \in DOMAIN ticks'[r].groups[e]
          PROVE  /\ ticks'[r].groups[e][k].tries = letters'[ticks'[r].groups[e][k].letter].tries
                 /\ \A l \in DOMAIN ticks'[r].groups[e] :
                      ticks'[r].groups[e][k].letter = ticks'[r].groups[e][l].letter => k = l
      <3>1. CASE r # s
        <4>1. ticks[r].at = "off" /\ ticks'[r] = ticks[r]
          BY <1>4, <2>1, <2>2, <3>1 DEF OneTick, TickIs
        <4>2. ticks[r].groups[e] = <<>>
          BY <4>1 DEF WorkerTrue, TicksTrue, TickTrue
        <4>3. ticks'[r].groups[e] = <<>>
          BY <4>1, <4>2
        <4> QED
          BY <2>4, <4>3
      <3>2. CASE r = s /\ e # d
        <4>1. ticks'[r].groups[e] = ticks[s].groups[e]
          BY <1>3, <1>4, <3>2 DEF TickIs
        <4>2. k \in DOMAIN ticks[s].groups[e]
          BY <2>4, <4>1
        <4>3. /\ ticks[s].groups[e][k].letter \in DOMAIN letters
              /\ letters[ticks[s].groups[e][k].letter].to = e
          BY <4>2, GroupTrue
        <4>4. ticks[s].groups[e][k].letter # head.letter
          BY <1>1, <3>2, <4>3
        <4>5. letters'[ticks[s].groups[e][k].letter].tries = letters[ticks[s].groups[e][k].letter].tries
          BY <4>3, <4>4
        <4>6. /\ ticks[s].groups[e][k].tries = letters[ticks[s].groups[e][k].letter].tries
              /\ \A l \in DOMAIN ticks[s].groups[e] :
                   ticks[s].groups[e][k].letter = ticks[s].groups[e][l].letter => k = l
          BY <2>1, <4>2, GroupTrue
        <4> QED
          BY ONLY <4>1, <4>5, <4>6
      <3>3. CASE r = s /\ e = d
        <4>1. ticks'[r].groups[e] = Tail(g)
          BY <1>3, <1>4, <3>3 DEF TickIs
        <4>2. k \in DOMAIN Tail(g)
          BY <2>4, <4>1
        <4>9. /\ \A j \in DOMAIN ticks[s].groups[d] :
                   ticks[s].groups[d][j].letter \in DOMAIN letters
              /\ \A j \in DOMAIN ticks[s].groups[d] :
                   /\ ticks[s].groups[d][j].tries = letters[ticks[s].groups[d][j].letter].tries
                   /\ \A l \in DOMAIN ticks[s].groups[d] :
                        ticks[s].groups[d][j].letter = ticks[s].groups[d][l].letter => j = l
          BY <2>1, GroupTrue
        <4>3. \A j, l \in DOMAIN g : g[j].letter = g[l].letter => j = l
          BY ONLY <4>9, <1>g
        <4>4. \A j \in DOMAIN g : /\ g[j].tries = letters[g[j].letter].tries
                                  /\ g[j].letter \in DOMAIN letters
          BY ONLY <4>9, <1>g
        <4>5. Tail(g)[k].letter # head.letter
          BY <1>1, <4>2, <4>3
        <4>6. Tail(g)[k].tries = letters'[Tail(g)[k].letter].tries
          <5>1. k + 1 \in DOMAIN g /\ Tail(g)[k] = g[k + 1]
            BY <1>1, <4>2
          <5>2. letters'[Tail(g)[k].letter].tries = letters[Tail(g)[k].letter].tries
            BY <4>4, <4>5, <5>1
          <5> QED
            BY ONLY <4>4, <5>1, <5>2
        <4>7. ASSUME NEW l \in DOMAIN Tail(g), Tail(g)[k].letter = Tail(g)[l].letter
              PROVE  k = l
          <5>1. k + 1 = l + 1
            BY <1>1, <4>2, <4>3, <4>7
          <5>2. k \in Int /\ l \in Int
            BY <1>1, <4>2
          <5> QED
            BY <5>1, <5>2
        <4> QED
          BY <4>1, <4>6, <4>7
      <3> QED
        BY <3>1, <3>2, <3>3
    <2> QED
      BY <2>1, <2>3, <2>4 DEF OneTick
  <1> QED
    BY <1>4, <1>6, <1>7

\* The row of one letter, rewritten.
Rewritten(i, n, status, due) ==
  letters' = [letters EXCEPT ![i] = [letters[i] EXCEPT !.tries = n, !.status = status,
                                                       !.due = due]]

LEMMA LetterRewritten ==
  ASSUME NotifyTyped, NEW i \in DOMAIN letters, NEW n \in Nat,
         NEW status \in {"pending", "delivered", "dead"}, NEW due \in BOOLEAN,
         Rewritten(i, n, status, due),
         posted' \in Seq(Int), Len(posted') = Len(posted),
         lostPosts' \in Seq(Int), Len(lostPosts') = Len(lostPosts)
  PROVE  /\ SameLetters /\ letters'[i].tries = n
         /\ \A j \in DOMAIN letters : j # i => letters'[j].tries = letters[j].tries
  <1> PICK r : r = [letters[i] EXCEPT !.tries = n, !.status = status, !.due = due]
    OBVIOUS
  <1>1. /\ letters \in Seq(Letters) /\ letters[i] \in Letters
        /\ Len(posted) = Len(letters) /\ Len(lostPosts) = Len(letters)
    BY DEF NotifyTyped, LettersTyped
  <1>2. r \in Letters /\ r.to = letters[i].to /\ r.ev = letters[i].ev /\ r.tries = n
    BY <1>1 DEF Letters
  <1>8. letters' = [letters EXCEPT ![i] = r]
    BY DEF Rewritten
  <1>3. letters' \in Seq(Letters) /\ Len(letters') = Len(letters)
    BY <1>1, <1>2, <1>8, ExceptSeq
  <1>4. \A j \in DOMAIN letters : letters'[j] = IF j = i THEN r ELSE letters[j]
    BY <1>1, <1>8
  <1>5. LettersTyped'
    BY <1>1, <1>3 DEF LettersTyped
  <1>6. \A j \in DOMAIN letters : letters'[j].to = letters[j].to /\ letters'[j].ev = letters[j].ev
    BY <1>2, <1>4
  <1>7. letters'[i].tries = n /\ \A j \in DOMAIN letters : j # i => letters'[j].tries = letters[j].tries
    BY <1>2, <1>4
  <1> QED
    BY <1>3, <1>5, <1>6, <1>7 DEF SameLetters

\* A row with its fields.
LEMMA LetterFields ==
  ASSUME NotifyTyped, NEW i \in DOMAIN letters, NEW n, NEW status, NEW due
  PROVE  [letters EXCEPT ![i].tries = n, ![i].status = status, ![i].due = due]
           = [letters EXCEPT ![i] = [letters[i] EXCEPT !.tries = n, !.status = status,
                                                       !.due = due]]
  <1>1. letters \in Seq(Letters) /\ letters[i] \in Letters
    BY DEF NotifyTyped, LettersTyped
  <1>2. DOMAIN letters[i] = {"to", "ev", "kind", "status", "tries", "due"}
    BY <1>1 DEF Letters
  <1> QED
    BY <1>1, <1>2 DEF Letters

\* A letter whose destination is gone is buried; one that is asked for is counted.
LEMMA AttemptKeeps ==
  ASSUME NotifyInv, NEW s \in Lanes, NEW d \in Destinations, attempt(s, d)
  PROVE  NotifyInv'
  <1> USE DEF NotifyInv
  <1> PICK g, head, i : g = ticks[s].groups[d] /\ head = Head(g) /\ i = head.letter
    OBVIOUS
  <1>1. /\ ticks[s].at \in {"send", "adrift"} /\ g # <<>> /\ d \notin ticks[s].asking
        /\ UNCHANGED <<destinations, places, happened, ticking, panel, asks, notes>>
    BY DEF attempt
  <1>2. /\ g \in Seq(Claims) /\ 1 \in DOMAIN g /\ head = g[1]
        /\ i \in DOMAIN letters /\ letters[i].to = d
        /\ head.tries \in Nat /\ i \in Nat /\ Tail(g) \in Seq(Claims)
    BY <1>1, HeadOfGroup
  <1>3. /\ posted \in Seq(Int) /\ lostPosts \in Seq(Int) /\ DOMAIN posted = DOMAIN letters
        /\ DOMAIN lostPosts = DOMAIN letters
    BY DEF NotifyTyped, LettersTyped
  <1>9. /\ i \in 1..Len(lostPosts) /\ i \in 1..Len(posted)
        /\ lostPosts[i] - 1 \in Int /\ posted[i] + 1 \in Int
    <2>1. DOMAIN lostPosts = 1..Len(lostPosts) /\ DOMAIN posted = 1..Len(posted)
      BY <1>3
    <2>2. i \in DOMAIN lostPosts /\ i \in DOMAIN posted
      BY <1>2, <1>3
    <2>3. lostPosts[i] \in Int /\ posted[i] \in Int
      BY <1>3, <2>2
    <2>4. lostPosts[i] - 1 \in Int /\ posted[i] + 1 \in Int
      BY ONLY <2>3
    <2> QED
      BY <2>1, <2>2, <2>4
  <1>4. NotesTyped' /\ PanelTyped' /\ PanelTrue' /\ PlacesTrue'
    BY <1>1, TypesKept, PanelKept, PlacesKept
  <1>5. LaterPuts
    BY <1>1 DEF LaterPuts
  <1>6. ~notes.adrift => head.tries = letters[i].tries
    <2>1. 1 \in DOMAIN g /\ i = g[1].letter /\ head.tries = g[1].tries
      BY <1>2
    <2>2. ~notes.adrift => \A k \in DOMAIN g : g[k].tries = letters[g[k].letter].tries
      BY GroupTrue
    <2> QED
      BY ONLY <2>1, <2>2
  <1>7. CASE ticks[s].known[d] = Nil
    <2>1. /\ letters' = [letters EXCEPT ![i].status = "dead", ![i].tries = head.tries + 1]
          /\ lostPosts' = [lostPosts EXCEPT ![i] = @ - 1]
          /\ ticks' = [ticks EXCEPT ![s].groups[d] = Tail(@)]
          /\ posted' = posted
      BY <1>7 DEF attempt
    <2>2. lostPosts' \in Seq(Int) /\ Len(lostPosts') = Len(lostPosts) /\ DOMAIN lostPosts' = DOMAIN letters
      <3>1. lostPosts' \in Seq(Int) /\ Len(lostPosts') = Len(lostPosts)
        <4> PICK x : x = lostPosts[i] - 1
          OBVIOUS
        <4>1. lostPosts' = [lostPosts EXCEPT ![i] = x]
          BY <2>1
        <4>2. x \in Int /\ lostPosts \in Seq(Int) /\ i \in 1..Len(lostPosts)
          BY <1>3, <1>9
        <4> QED
          BY ONLY <4>1, <4>2, ExceptSeq
      <3> QED
        BY <1>3, <2>1, <3>1
    <2> PICK n, due : n = head.tries + 1 /\ due = letters[i].due
      OBVIOUS
    <2>3. n \in Nat /\ due \in BOOLEAN
      BY <1>2, LetterAt
    <2>4. Rewritten(i, n, "dead", due)
      <3>1. letters' = [letters EXCEPT ![i].status = "dead", ![i].tries = n]
        BY <2>1
      <3>2. [letters EXCEPT ![i].status = "dead", ![i].tries = n]
              = [letters EXCEPT ![i] = [letters[i] EXCEPT !.tries = n, !.status = "dead",
                                                          !.due = due]]
        <4>1. i \in DOMAIN letters /\ due = letters[i].due
          BY <1>2
        <4>2. letters \in Seq(Letters) /\ letters[i] \in Letters
          BY <4>1 DEF NotifyTyped, LettersTyped
        <4>3. DOMAIN letters[i] = {"to", "ev", "kind", "status", "tries", "due"}
          BY <4>2 DEF Letters
        <4> QED
          BY ONLY <4>1, <4>2, <4>3
      <3> QED
        BY <3>1, <3>2 DEF Rewritten
    <2>5. /\ SameLetters /\ letters'[i].tries = n
          /\ \A j \in DOMAIN letters : j # i => letters'[j].tries = letters[j].tries
      <3>1. posted' \in Seq(Int) /\ Len(posted') = Len(posted)
        BY <1>3, <2>1
      <3>2. i \in DOMAIN letters /\ "dead" \in {"pending", "delivered", "dead"} /\ NotifyTyped
        BY <1>2
      <3> PICK status : status = "dead"
        OBVIOUS
      <3>3. Rewritten(i, n, status, due) /\ status \in {"pending", "delivered", "dead"}
        BY <2>4
      <3>4. lostPosts' \in Seq(Int) /\ Len(lostPosts') = Len(lostPosts)
        BY <2>2
      <3> HIDE DEF NotifyInv
      <3> QED
        BY ONLY <2>3, <3>1, <3>2, <3>3, <3>4, LetterRewritten
    <2> PICK asking : asking = ticks[s].asking
      OBVIOUS
    <2>6. GroupMoves(s, d, asking)
      BY <2>1 DEF GroupMoves, NotifyTyped, WorkerTyped, Ticks
    <2>7. /\ TickIs(s, ticks[s].at, ticks[s].known, ticks[s].left,
                    [ticks[s].groups EXCEPT ![d] = Tail(@)], asking)
          /\ TicksTrue' /\ OneTick'
      BY <1>1, <1>5, <2>5, <2>6, HeadDone
    <2>8. LettersTyped' /\ LettersTrue'
      BY <1>1, <1>5, <2>5, SameLettersKeep DEF SameLetters
    <2>9. WorkerTyped'
      BY <1>1, <2>7 DEF NotifyTyped, WorkerTyped, TickIs
    <2>10. PostsTrue'
      <3> SUFFICES ASSUME ~notes'.adrift, NEW j \in DOMAIN letters'
                   PROVE  posted'[j] = letters'[j].tries + (IF AskedFor(j)' THEN 1 ELSE 0) + lostPosts'[j]
        BY DEF PostsTrue
      <3>1. j \in DOMAIN letters /\ ~notes.adrift
        BY <1>1, <2>5, SameLettersGrow
      <3>2. \A e \in Destinations : e # d => ticks'[s].groups[e] = ticks[s].groups[e]
        BY <2>7 DEF TickIs, NotifyTyped, WorkerTyped, Ticks
      <3>3. i \notin Asking(s) /\ Asking(s)' = Asking(s)
        BY <1>1, <2>7, <3>2, AskingMoves DEF TickIs
      <3>4. \A k : /\ AskedFor(k) <=> k \in Asking(s)
                   /\ AskedFor(k)' <=> k \in Asking(s)'
        BY <1>1, <2>7, <3>1, AloneAsking DEF TickIs
      <3>5. posted[j] = letters[j].tries + (IF AskedFor(j) THEN 1 ELSE 0) + lostPosts[j]
        BY <3>1 DEF WorkerTrue, PostsTrue
      <3>6. lostPosts[j] \in Int /\ letters[j].tries \in Nat
        BY <1>3, <3>1, LetterAt
      <3>7. CASE j = i
        <4>1. ~AskedFor(j) /\ ~AskedFor(j)' /\ letters'[j].tries = letters[j].tries + 1
          BY <1>6, <2>5, <3>1, <3>3, <3>4, <3>7
        <4>2. lostPosts'[j] = lostPosts[j] - 1
          BY <1>3, <2>1, <3>1, <3>7
        <4>3. posted[j] = letters[j].tries + 0 + lostPosts[j]
          BY <3>5, <4>1
        <4>4. posted[j] = letters'[j].tries + 0 + lostPosts'[j]
          BY <3>6, <4>1, <4>2, <4>3
        <4> QED
          BY <2>1, <4>1, <4>4
      <3>8. CASE j # i
        <4>1. (AskedFor(j) <=> AskedFor(j)') /\ letters'[j].tries = letters[j].tries
          BY <2>5, <3>1, <3>3, <3>4, <3>8
        <4>2. lostPosts'[j] = lostPosts[j]
          BY <1>3, <2>1, <3>1, <3>8
        <4> QED
          BY <2>1, <3>5, <4>1, <4>2
      <3> QED
        BY <3>7, <3>8
    <2> QED
      BY <1>4, <2>7, <2>8, <2>9, <2>10 DEF NotifyTyped, WorkerTrue
  <1>8. CASE ticks[s].known[d] # Nil
    <2>1. /\ posted' = [posted EXCEPT ![i] = @ + 1]
          /\ ticks' = [ticks EXCEPT ![s].asking = @ \cup {d}]
          /\ UNCHANGED <<letters, lostPosts>>
      BY <1>8 DEF attempt
    <2>2. posted' \in Seq(Int) /\ Len(posted') = Len(posted)
      <3> PICK x : x = posted[i] + 1
        OBVIOUS
      <3>1. posted' = [posted EXCEPT ![i] = x]
        BY <2>1
      <3>2. x \in Int /\ posted \in Seq(Int) /\ i \in 1..Len(posted)
        BY <1>3, <1>9
      <3> QED
        BY ONLY <3>1, <3>2, ExceptSeq
    <2>3. ticks[s] \in Ticks
      BY DEF NotifyTyped, WorkerTyped
    <2>4. TickIs(s, ticks[s].at, ticks[s].known, ticks[s].left, ticks[s].groups,
                 ticks[s].asking \cup {d})
      <3> PICK asking, t : /\ asking = ticks[s].asking \cup {d}
                           /\ t = [ticks[s] EXCEPT !.asking = asking]
        OBVIOUS
      <3>1. /\ t \in Ticks /\ t.at = ticks[s].at /\ t.known = ticks[s].known
            /\ t.left = ticks[s].left /\ t.groups = ticks[s].groups /\ t.asking = asking
        <4>1. asking \in SUBSET Destinations
          BY <2>3 DEF Ticks
        <4> QED
          BY <2>3, <4>1 DEF Ticks
      <3>2. ticks' = [ticks EXCEPT ![s] = t]
        BY <2>1, <2>3 DEF NotifyTyped, WorkerTyped
      <3> QED
        BY <3>1, <3>2, TickPut DEF NotifyTyped
    <2>5. LettersTyped' /\ WorkerTyped'
      BY <1>1, <2>1, <2>2, <2>4 DEF NotifyTyped, LettersTyped, WorkerTyped, TickIs
    <2>6. LettersTrue'
      BY <1>1, <2>1 DEF WorkerTrue, LettersTrue, AlwaysWanted
    <2>7. TicksTrue'
      <3>1. LettersGrow
        BY <2>1 DEF LettersGrow
      <3>2. ASSUME NEW e \in Destinations
            PROVE  TickTrue(s, e)'
        <4>1. TickTrue(s, e)
          BY DEF WorkerTrue, TicksTrue
        <4>2. /\ ticks'[s].at = ticks[s].at /\ ticks'[s].known = ticks[s].known
              /\ ticks'[s].left = ticks[s].left /\ ticks'[s].groups = ticks[s].groups
              /\ ticks'[s].asking = ticks[s].asking \cup {d} /\ letters' = letters
              /\ notes' = notes
          BY <1>1, <2>1, <2>4 DEF TickIs
        <4>3. ticks[s].groups[d] # <<>> /\ ticks[s].known[d] # Nil
          BY <1>1, <1>8
        <4> QED
          BY ONLY <4>1, <4>2, <4>3 DEF TickTrue
      <3> QED
        BY <1>5, <2>4, <3>1, <3>2, OthersTrue DEF TickIs
    <2>8. OneTick'
      <3>1. \A r \in Lanes : ticks'[r].at = ticks[r].at /\ ticks'[r].groups = ticks[r].groups
        BY <2>4 DEF TickIs
      <3> QED
        BY <1>1, <2>1, <3>1, OneTickStays
    <2>9. PostsTrue'
      <3> SUFFICES ASSUME ~notes'.adrift, NEW j \in DOMAIN letters'
                   PROVE  posted'[j] = letters'[j].tries + (IF AskedFor(j)' THEN 1 ELSE 0) + lostPosts'[j]
        BY DEF PostsTrue
      <3>1. j \in DOMAIN letters /\ ~notes.adrift
        BY <1>1, <2>1
      <3>2. i \notin Asking(s) /\ Asking(s)' = Asking(s) \cup {i}
        BY <1>1, <2>4, AskingMoves DEF TickIs
      <3>3. \A k : /\ AskedFor(k) <=> k \in Asking(s)
                   /\ AskedFor(k)' <=> k \in Asking(s)'
        BY <1>1, <2>4, <3>1, AloneAsking DEF TickIs
      <3>4. posted[j] = letters[j].tries + (IF AskedFor(j) THEN 1 ELSE 0) + lostPosts[j]
        BY <3>1 DEF WorkerTrue, PostsTrue
      <3>5. lostPosts[j] \in Int /\ letters[j].tries \in Nat
        BY <1>3, <3>1, LetterAt
      <3>6. posted'[j] = IF j = i THEN posted[j] + 1 ELSE posted[j]
        BY <1>3, <2>1, <3>1
      <3>7. (AskedFor(j)' <=> AskedFor(j) \/ j = i) /\ (j = i => ~AskedFor(j))
        BY <3>2, <3>3
      <3>8. letters' = letters /\ lostPosts' = lostPosts
        BY <2>1
      <3> HIDE DEF NotifyInv
      <3>9. CASE j = i
        <4>1. posted[j] = letters[j].tries + 0 + lostPosts[j] /\ AskedFor(j)'
          BY <3>4, <3>7, <3>9
        <4>2. posted'[j] = posted[j] + 1
          BY <3>6, <3>9
        <4>3. posted'[j] = letters[j].tries + 1 + lostPosts[j]
          BY ONLY <3>5, <4>1, <4>2
        <4> QED
          BY ONLY <3>8, <4>1, <4>3
      <3>10. CASE j # i
        BY <3>4, <3>6, <3>7, <3>8, <3>10
      <3> QED
        BY <3>9, <3>10
    <2> QED
      BY <1>4, <2>5, <2>6, <2>7, <2>8, <2>9 DEF NotifyTyped, WorkerTrue
  <1> QED
    BY <1>7, <1>8

\* An answer: the outcome and the attempt are written together.
LEMMA DispatchKeeps ==
  ASSUME NotifyInv, NEW s \in Lanes, NEW d \in Destinations, dispatchOne(s, d)
  PROVE  NotifyInv'
  <1> USE DEF NotifyInv
  <1> PICK g, head, i : g = ticks[s].groups[d] /\ head = Head(g) /\ i = head.letter
    OBVIOUS
  <1>1. /\ d \in ticks[s].asking
        /\ ticks' = [ticks EXCEPT ![s].groups[d] = Tail(@), ![s].asking = @ \ {d}]
        /\ UNCHANGED <<destinations, places, happened, ticking, posted, lostPosts, panel, asks, notes>>
    BY DEF dispatchOne
  <1>2. PICK ok \in BOOLEAN : letters' = Completed(i, head.tries + 1, ok)
    BY DEF dispatchOne
  <1>3. g # <<>> /\ ticks[s].at # "off"
    BY <1>1, AskingKnown
  <1>4. /\ g \in Seq(Claims) /\ 1 \in DOMAIN g /\ head = g[1]
        /\ i \in DOMAIN letters /\ letters[i].to = d
        /\ head.tries \in Nat /\ i \in Nat /\ Tail(g) \in Seq(Claims)
    BY <1>3, HeadOfGroup
  <1>5. NotesTyped' /\ PanelTyped' /\ PanelTrue' /\ PlacesTrue'
    BY <1>1, TypesKept, PanelKept, PlacesKept
  <1>6. LaterPuts
    BY <1>1 DEF LaterPuts
  <1>7. ~notes.adrift => head.tries = letters[i].tries
    <2>1. 1 \in DOMAIN g /\ i = g[1].letter /\ head.tries = g[1].tries
      BY <1>4
    <2>2. ~notes.adrift => \A k \in DOMAIN g : g[k].tries = letters[g[k].letter].tries
      BY GroupTrue
    <2> QED
      BY ONLY <2>1, <2>2
  <1> PICK n, status, due :
        /\ n = head.tries + 1
        /\ status = IF ok THEN "delivered" ELSE IF n >= NotifyAttempts THEN "dead" ELSE "pending"
        /\ due = (ok \/ n >= NotifyAttempts)
    OBVIOUS
  <1>8. n \in Nat /\ status \in {"pending", "delivered", "dead"} /\ due \in BOOLEAN
    BY <1>4
  <1>9. Rewritten(i, n, status, due)
    <2>1. letters' = [letters EXCEPT ![i].tries = n, ![i].status = status, ![i].due = due]
      BY <1>2 DEF Completed
    <2> QED
      BY <1>4, <2>1, LetterFields DEF Rewritten
  <1>10. /\ SameLetters /\ letters'[i].tries = n
         /\ \A j \in DOMAIN letters : j # i => letters'[j].tries = letters[j].tries
    <2>1. posted' \in Seq(Int) /\ Len(posted') = Len(posted) /\ lostPosts' \in Seq(Int)
          /\ Len(lostPosts') = Len(lostPosts)
      BY <1>1 DEF NotifyTyped, LettersTyped
    <2> QED
      BY <1>4, <1>8, <1>9, <2>1, LetterRewritten
  <1> PICK asking : asking = ticks[s].asking \ {d}
    OBVIOUS
  <1>11. GroupMoves(s, d, asking)
    BY <1>1 DEF GroupMoves, NotifyTyped, WorkerTyped, Ticks
  <1>12. /\ TickIs(s, ticks[s].at, ticks[s].known, ticks[s].left,
                   [ticks[s].groups EXCEPT ![d] = Tail(@)], asking)
         /\ TicksTrue' /\ OneTick'
    BY <1>1, <1>3, <1>6, <1>10, <1>11, HeadDone
  <1>13. LettersTyped' /\ LettersTrue'
    BY <1>1, <1>6, <1>10, SameLettersKeep DEF SameLetters
  <1>14. WorkerTyped'
    BY <1>1, <1>12 DEF NotifyTyped, WorkerTyped, TickIs
  <1>15. PostsTrue'
    <2> SUFFICES ASSUME ~notes'.adrift, NEW j \in DOMAIN letters'
                 PROVE  posted'[j] = letters'[j].tries + (IF AskedFor(j)' THEN 1 ELSE 0) + lostPosts'[j]
      BY DEF PostsTrue
    <2>1. j \in DOMAIN letters /\ ~notes.adrift
      BY <1>1, <1>10, SameLettersGrow
    <2>2. \A e \in Destinations : e # d => ticks'[s].groups[e] = ticks[s].groups[e]
      BY <1>12 DEF TickIs, NotifyTyped, WorkerTyped, Ticks
    <2>3. i \in Asking(s) /\ Asking(s)' = Asking(s) \ {i}
      <3>1. i \in Asking(s)
        BY <1>1 DEF Asking
      <3>2. ticks'[s].asking = ticks[s].asking \ {d}
        BY <1>12 DEF TickIs
      <3>3. i = Head(ticks[s].groups[d]).letter /\ ticks[s].groups[d] # <<>>
        BY <1>3
      <3> HIDE DEF NotifyInv
      <3>4. Asking(s)' = Asking(s) \ {i}
        BY <2>2, <3>2, <3>3, AskingMoves
      <3> QED
        BY <3>1, <3>4
    <2>4. \A k : /\ AskedFor(k) <=> k \in Asking(s)
                 /\ AskedFor(k)' <=> k \in Asking(s)'
      BY <1>3, <1>12, <2>1, AloneAsking DEF TickIs
    <2>5. posted[j] = letters[j].tries + (IF AskedFor(j) THEN 1 ELSE 0) + lostPosts[j]
      BY <2>1 DEF WorkerTrue, PostsTrue
    <2>6. lostPosts[j] \in Int /\ letters[j].tries \in Nat
      BY <2>1, LetterAt DEF NotifyTyped, LettersTyped
    <2>7. CASE j = i
      <3>1. AskedFor(j) /\ ~AskedFor(j)' /\ letters'[j].tries = letters[j].tries + 1
        BY <1>7, <1>10, <2>1, <2>3, <2>4, <2>7
      <3>2. posted[j] = letters[j].tries + 1 + lostPosts[j]
        BY <2>5, <3>1
      <3>3. posted[j] = letters'[j].tries + 0 + lostPosts[j]
        BY <2>6, <3>1, <3>2
      <3> QED
        BY <1>1, <3>1, <3>3
    <2>8. CASE j # i
      BY <1>1, <1>10, <2>1, <2>3, <2>4, <2>5, <2>8
    <2> QED
      BY <2>7, <2>8
  <1> QED
    BY <1>5, <1>12, <1>13, <1>14, <1>15 DEF NotifyTyped, WorkerTrue

\* Ticks that do not move stay true.
LEMMA TicksStay ==
  ASSUME NotifyInv, ticks' = ticks, LettersGrow, LaterPuts
  PROVE  TicksTrue'
  <1>1. 1 \in Lanes
    BY DEF Lanes
  <1>2. ASSUME NEW d \in Destinations
        PROVE  TickTrue(1, d)'
    <2>1. TickTrue(1, d) /\ ticks' = ticks
      BY <1>1 DEF NotifyInv, WorkerTrue, TicksTrue
    <2>2. LettersGrow /\ LaterPuts
      OBVIOUS
    <2> QED
      BY ONLY <2>1, <2>2 DEF TickTrue, LettersGrow, LaterPuts
  <1> QED
    BY <1>1, <1>2, OthersTrue

\* The counters of the bounds are nobody's concern.
LEMMA NotesKept ==
  ASSUME NotesTyped, NEW p, NEW m, NEW a \in BOOLEAN, NEW b \in BOOLEAN
  PROVE  /\ notes' = [notes EXCEPT !.mishaps = m] =>
              /\ NotesTyped' /\ notes'.adrift = notes.adrift /\ notes'.before = notes.before
              /\ notes'.disturbed = notes.disturbed
         /\ notes' = [notes EXCEPT !.mishaps = m, !.adrift = a] =>
              /\ NotesTyped' /\ notes'.adrift = a /\ notes'.before = notes.before
              /\ notes'.disturbed = notes.disturbed
         /\ notes' = [notes EXCEPT !.mishaps = m, !.disturbed = b] =>
              /\ NotesTyped' /\ notes'.adrift = notes.adrift /\ notes'.before = notes.before
              /\ notes'.disturbed = b
         /\ notes' = [[notes EXCEPT !.disturbed = b] EXCEPT !.puts = p] =>
              /\ NotesTyped' /\ notes'.adrift = notes.adrift /\ notes'.before = notes.before
              /\ notes'.disturbed = b
  BY DEF NotesTyped

\* From here on the timer's flag says nothing of the ticks under way.
LEMMA FailKeeps ==
  ASSUME NotifyInv, NEW s \in Lanes, NEW d \in Destinations, RecordFails(s, d)
  PROVE  NotifyInv'
  <1> USE DEF NotifyInv
  <1> PICK i, m : i = Head(ticks[s].groups[d]).letter /\ m = notes.mishaps + 1
    OBVIOUS
  <1>1. /\ d \in ticks[s].asking
        /\ ticks' = [ticks EXCEPT ![s].groups[d] = <<>>, ![s].asking = @ \ {d}, ![s].at = "adrift"]
        /\ ticking' = (ticking /\ ticks[s].at = "adrift")
        /\ lostPosts' = [lostPosts EXCEPT ![i] = @ + 1]
        /\ notes' = [notes EXCEPT !.mishaps = m, !.adrift = TRUE]
        /\ UNCHANGED <<destinations, places, letters, happened, posted, panel, asks>>
    BY DEF RecordFails, serverVars
  <1>2. i \in DOMAIN letters
    BY <1>1, AskingKnown
  <1>3. lostPosts' \in Seq(Int) /\ Len(lostPosts') = Len(lostPosts)
    <2>1. lostPosts \in Seq(Int) /\ Len(lostPosts) = Len(letters)
      BY DEF NotifyTyped, LettersTyped
    <2>2. i \in 1..Len(lostPosts)
      BY <1>2, <2>1 DEF NotifyTyped, LettersTyped
    <2> PICK x : x = lostPosts[i] + 1
      OBVIOUS
    <2>5. x = lostPosts[i] + 1 /\ lostPosts[i] \in Int
      BY <2>1, <2>2
    <2>3. x \in Int
      BY ONLY <2>5
    <2>4. lostPosts' = [lostPosts EXCEPT ![i] = x]
      BY <1>1
    <2> QED
      BY ONLY <2>1, <2>2, <2>3, <2>4, ExceptSeq
  <1>4. ticks[s] \in Ticks
    BY DEF NotifyTyped, WorkerTyped
  <1> PICK G, asking : G = [ticks[s].groups EXCEPT ![d] = <<>>] /\ asking = ticks[s].asking \ {d}
    OBVIOUS
  <1>5. /\ G \in [Destinations -> Seq(Claims)] /\ G[d] = <<>>
        /\ \A e \in Destinations : e # d => G[e] = ticks[s].groups[e]
    BY <1>4 DEF Ticks
  <1>6. TickIs(s, "adrift", ticks[s].known, ticks[s].left, G, asking)
    <2> PICK t : t = [ticks[s] EXCEPT !.groups = G, !.asking = asking, !.at = "adrift"]
      OBVIOUS
    <2>1. /\ t \in Ticks /\ t.at = "adrift" /\ t.known = ticks[s].known
          /\ t.left = ticks[s].left /\ t.groups = G /\ t.asking = asking
      <3>1. asking \in SUBSET Destinations
        BY <1>4 DEF Ticks
      <3> QED
        BY <1>4, <1>5, <3>1 DEF Ticks
    <2>2. ticks' = [ticks EXCEPT ![s] = t]
      BY <1>1, <1>4 DEF NotifyTyped, WorkerTyped
    <2> QED
      BY <2>1, <2>2, TickPut
  <1>7. /\ NotesTyped' /\ notes'.adrift /\ notes'.before = notes.before
        /\ notes'.disturbed = notes.disturbed
    BY <1>1, NotesKept DEF NotifyTyped
  <1>8. PanelTyped' /\ PanelTrue' /\ PlacesTrue'
    BY <1>1, <1>7, TypesKept, PanelKept, PlacesKept
  <1>9. LettersTyped' /\ WorkerTyped'
    BY <1>1, <1>3, <1>6 DEF NotifyTyped, LettersTyped, WorkerTyped, TickIs
  <1>10. LaterPuts /\ LettersGrow
    BY <1>1, <1>7 DEF LaterPuts, LettersGrow
  <1>11. LettersTrue'
    BY <1>1, <1>7, LettersStay
  <1>12. TicksTrue'
    <2>1. ASSUME NEW e \in Destinations
          PROVE  TickTrue(s, e)'
      <3>1. TickTrue(s, e)
        BY DEF WorkerTrue, TicksTrue
      <3>2. /\ ticks'[s].at = "adrift" /\ ticks'[s].known = ticks[s].known
            /\ ticks'[s].left = ticks[s].left /\ ticks'[s].groups = G
            /\ ticks'[s].asking = asking /\ letters' = letters
        BY <1>1, <1>6 DEF TickIs
      <3>3. \A k \in DOMAIN G[e] : G[e][k].letter \in DOMAIN letters /\ letters[G[e][k].letter].to = e
        <4>1. CASE e = d
          <5>1. DOMAIN G[e] = {}
            BY <1>5, <4>1
          <5> QED
            BY <5>1
        <4>2. CASE e # d
          BY <1>5, <3>1, <4>2 DEF TickTrue
        <4> QED
          BY <4>1, <4>2
      <3>4. e \in asking => e \in ticks[s].asking /\ G[e] = ticks[s].groups[e]
        BY <1>5
      <3>5. ticks'[s].known[e] # Nil =>
              /\ ticks'[s].known[e] \in RowsOf(e) /\ ticks'[s].known[e].on
              /\ notes'.before[e] # Nil
        BY <1>7, <3>1, <3>2 DEF TickTrue
      <3> QED
        BY <3>1, <3>2, <3>3, <3>4, <3>5 DEF TickTrue
    <2> QED
      BY <1>6, <1>10, <2>1, OthersTrue DEF TickIs
  <1>13. OneTick' /\ PostsTrue'
    BY <1>7 DEF OneTick, PostsTrue
  <1> QED
    BY <1>7, <1>8, <1>9, <1>11, <1>12, <1>13 DEF NotifyTyped, WorkerTrue

\* A restart ends every tick; what was asked for has no outcome.
LEMMA RestartKeeps ==
  ASSUME NotifyInv, WorkerRestarts
  PROVE  NotifyInv'
  <1> USE DEF NotifyInv
  <1> PICK m : m = notes.mishaps + 1
    OBVIOUS
  <1>1. /\ ticking' = FALSE /\ ticks' = [s \in Lanes |-> NoTick]
        /\ lostPosts' = [i \in DOMAIN letters |->
                           lostPosts[i] + Cardinality({s \in Lanes: i \in Asking(s)})]
        /\ notes' = [notes EXCEPT !.mishaps = m]
        /\ UNCHANGED <<destinations, places, letters, happened, posted, panel, asks>>
    BY DEF WorkerRestarts, serverVars
  <1>2. /\ NoTick \in Ticks /\ NoTick.at = "off" /\ NoTick.asking = {} /\ NoTick.left = {}
        /\ \A d \in Destinations : NoTick.groups[d] = <<>> /\ NoTick.known[d] = Nil
    BY DEF NoTick, Ticks, Listings
  <1>3. /\ letters \in Seq(Letters) /\ lostPosts \in Seq(Int) /\ Len(lostPosts) = Len(letters)
        /\ DOMAIN letters = 1..Len(letters) /\ Len(letters) \in Nat
    BY DEF NotifyTyped, LettersTyped
  <1>4. ASSUME NEW i \in DOMAIN letters
        PROVE  Cardinality({s \in Lanes: i \in Asking(s)}) \in Nat
    <2>1. IsFiniteSet(Lanes)
      <3>1. 1 \in Int /\ 2 \in Int
        OBVIOUS
      <3>2. IsFiniteSet(1..2)
        BY ONLY <3>1, FS_Interval
      <3> QED
        BY <3>2 DEF Lanes
    <2> PICK T : T = {s \in Lanes: i \in Asking(s)}
      OBVIOUS
    <2>2. T \in SUBSET Lanes
      OBVIOUS
    <2>3. IsFiniteSet(T)
      BY ONLY <2>1, <2>2, FS_Subset
    <2> QED
      BY <2>3, FS_CardinalityType
  <1>5. /\ NotesTyped' /\ notes'.adrift = notes.adrift /\ notes'.before = notes.before
        /\ notes'.disturbed = notes.disturbed
    BY <1>1, NotesKept DEF NotifyTyped
  <1>6. PanelTyped' /\ PanelTrue' /\ PlacesTrue'
    BY <1>1, <1>5, TypesKept, PanelKept, PlacesKept
  <1>7. LettersTyped'
    <2>1. lostPosts' \in [1..Len(letters) -> Int]
      BY <1>1, <1>3, <1>4
    <2> PICK f, n : f = lostPosts' /\ n = Len(letters)
      OBVIOUS
    <2>3. n \in Nat /\ f \in [1..n -> Int]
      BY <1>3, <2>1
    <2>4. f \in Seq(Int) /\ Len(f) = n
      BY ONLY <2>3, SeqDef
    <2>2. lostPosts' \in Seq(Int) /\ Len(lostPosts') = Len(letters)
      BY <2>4
    <2> QED
      BY <1>1, <2>2 DEF NotifyTyped, LettersTyped
  <1>8. WorkerTyped'
    BY <1>1, <1>2 DEF NotifyTyped, WorkerTyped
  <1>9. LettersTrue'
    BY <1>1, <1>5 DEF WorkerTrue, LettersTrue, AlwaysWanted
  <1>10. \A s \in Lanes : ticks'[s] = NoTick
    BY <1>1
  <1>11. TicksTrue'
    <2>1. ASSUME NEW s \in Lanes, NEW d \in Destinations
          PROVE  TickTrue(s, d)'
      <3>1. ticks'[s].groups[d] = <<>> /\ ticks'[s].asking = {} /\ ticks'[s].left = {}
            /\ ticks'[s].known[d] = Nil
        BY <1>2, <1>10
      <3>2. \A k \in DOMAIN ticks'[s].groups[d] : FALSE
        BY <3>1
      <3> QED
        BY <3>1, <3>2 DEF TickTrue
    <2> QED
      BY <2>1 DEF TicksTrue
  <1>12. OneTick'
    <2>1. \A s \in Lanes : ticks'[s].at = "off"
      BY <1>2, <1>10
    <2>2. \A s \in Lanes, d \in Destinations : \A k \in DOMAIN ticks'[s].groups[d] : FALSE
      BY <1>11, <2>1 DEF TicksTrue, TickTrue
    <2> QED
      BY <2>1, <2>2 DEF OneTick
  <1>13. PostsTrue'
    <2> SUFFICES ASSUME ~notes'.adrift, NEW i \in DOMAIN letters'
                 PROVE  posted'[i] = letters'[i].tries + (IF AskedFor(i)' THEN 1 ELSE 0) + lostPosts'[i]
      BY DEF PostsTrue
    <2>1. ~AskedFor(i)'
      BY <1>2, <1>10 DEF AskedFor, Asking
    <2>2. i \in DOMAIN letters /\ ~notes.adrift
      BY <1>1, <1>5
    <2>3. posted[i] = letters[i].tries + (IF AskedFor(i) THEN 1 ELSE 0) + lostPosts[i]
      BY <2>2 DEF WorkerTrue, PostsTrue
    <2>4. lostPosts'[i] = lostPosts[i] + IF AskedFor(i) THEN 1 ELSE 0
      BY <1>1, <2>2, OpenCount
    <2>5. lostPosts[i] \in Int /\ letters[i].tries \in Nat
      BY <1>3, <2>2, LetterAt DEF NotifyTyped
    <2> QED
      BY <1>1, <2>1, <2>3, <2>4, <2>5
  <1> QED
    BY <1>5, <1>6, <1>7, <1>8, <1>9, <1>11, <1>12, <1>13 DEF NotifyTyped, WorkerTrue

LEMMA NextEventKeeps ==
  ASSUME NotifyInv, NextEvent
  PROVE  NotifyInv'
  <1> USE DEF NotifyInv
  <1>1. /\ happened' = happened + 1
        /\ UNCHANGED <<destinations, places, letters, workerVars, panel, asks, notes>>
    BY DEF NextEvent
  <1>2. NotesTyped' /\ PanelTyped' /\ LettersTyped' /\ PanelTrue'
    BY <1>1, TypesKept, PanelKept DEF workerVars
  <1>3. WorkerTyped'
    BY <1>1 DEF NotifyTyped, WorkerTyped, workerVars
  <1>4. PlacesTrue'
    <2>1. happened \in Nat /\ places \in [Destinations -> Nat \cup {Nil}]
          /\ notes.before \in [Destinations -> Nat \cup {Nil}]
      BY DEF NotifyTyped, WorkerTyped, NotesTyped
    <2> QED
      BY <1>1, <2>1 DEF WorkerTrue, PlacesTrue
  <1>5. LettersTrue'
    BY <1>1 DEF WorkerTrue, LettersTrue, AlwaysWanted
  <1>6. TicksTrue' /\ OneTick' /\ PostsTrue'
    <2>1. LettersGrow /\ LaterPuts /\ ticks' = ticks
      BY <1>1 DEF LettersGrow, LaterPuts, workerVars
    <2>2. TicksTrue'
      BY <2>1, TicksStay
    <2>3. OneTick'
      BY <1>1 DEF WorkerTrue, OneTick, workerVars
    <2>4. \A i : AskedFor(i)' <=> AskedFor(i)
      BY <2>1 DEF AskedFor, Asking
    <2> QED
      BY <1>1, <2>2, <2>3, <2>4 DEF WorkerTrue, PostsTrue, workerVars
  <1> QED
    BY <1>2, <1>3, <1>4, <1>5, <1>6 DEF NotifyTyped, WorkerTrue

LEMMA RetryKeeps ==
  ASSUME NotifyInv, NEW i \in DOMAIN letters, RetryDue(i)
  PROVE  NotifyInv'
  <1> USE DEF NotifyInv
  <1>1. /\ letters' = [letters EXCEPT ![i].due = TRUE]
        /\ UNCHANGED <<destinations, places, happened, workerVars, panel, asks, notes>>
    BY DEF RetryDue
  <1> PICK n, status : n = letters[i].tries /\ status = letters[i].status
    OBVIOUS
  <1>2. n \in Nat /\ status \in {"pending", "delivered", "dead"} /\ TRUE \in BOOLEAN
    BY LetterAt
  <1>3. Rewritten(i, n, status, TRUE)
    <2>1. letters \in Seq(Letters) /\ letters[i] \in Letters
      BY DEF NotifyTyped, LettersTyped
    <2>2. DOMAIN letters[i] = {"to", "ev", "kind", "status", "tries", "due"}
      BY <2>1 DEF Letters
    <2>3. /\ n = letters[i].tries /\ status = letters[i].status /\ i \in DOMAIN letters
          /\ letters' = [letters EXCEPT ![i] = [letters[i] EXCEPT !.due = TRUE]]
      BY <1>1, <2>1
    <2>4. [letters[i] EXCEPT !.due = TRUE]
            = [letters[i] EXCEPT !.tries = n, !.status = status, !.due = TRUE]
      BY ONLY <2>2, <2>3
    <2> QED
      BY ONLY <2>3, <2>4 DEF Rewritten
  <1>4. /\ SameLetters /\ letters'[i].tries = n
        /\ \A j \in DOMAIN letters : j # i => letters'[j].tries = letters[j].tries
    <2>1. posted' \in Seq(Int) /\ Len(posted') = Len(posted) /\ lostPosts' \in Seq(Int)
          /\ Len(lostPosts') = Len(lostPosts)
      BY <1>1 DEF NotifyTyped, LettersTyped, workerVars
    <2> PICK due : due = TRUE
      OBVIOUS
    <2>2. due \in BOOLEAN /\ Rewritten(i, n, status, due) /\ NotifyTyped /\ i \in DOMAIN letters
      BY <1>3
    <2> QED
      BY ONLY <1>2, <2>1, <2>2, LetterRewritten
  <1>5. /\ LettersGrow /\ DOMAIN letters' = DOMAIN letters
        /\ \A j \in DOMAIN letters : letters'[j].tries = letters[j].tries
    BY <1>4, SameLettersGrow
  <1>6. NotesTyped' /\ PanelTyped' /\ PanelTrue' /\ PlacesTrue'
    BY <1>1, TypesKept, PanelKept, PlacesKept
  <1>7. LettersTyped' /\ WorkerTyped'
    BY <1>1, <1>4 DEF NotifyTyped, WorkerTyped, workerVars, SameLetters
  <1>8. LaterPuts /\ ticks' = ticks
    BY <1>1 DEF LaterPuts, workerVars
  <1>9. LettersTrue' /\ TicksTrue'
    BY <1>1, <1>4, <1>5, <1>8, SameLettersKeep, TicksStay
  <1>10. OneTick'
    <2>1. ASSUME NEW s \in Lanes, NEW d \in Destinations, NEW k \in DOMAIN ticks[s].groups[d]
          PROVE  ticks[s].groups[d][k].letter \in DOMAIN letters
      BY DEF WorkerTrue, TicksTrue, TickTrue
    <2> QED
      BY <1>1, <1>5, <1>8, <2>1 DEF WorkerTrue, OneTick, workerVars
  <1>11. PostsTrue'
    <2>1. \A j : AskedFor(j)' <=> AskedFor(j)
      BY <1>8 DEF AskedFor, Asking
    <2> QED
      BY <1>1, <1>5, <2>1 DEF WorkerTrue, PostsTrue, workerVars
  <1> QED
    BY <1>6, <1>7, <1>9, <1>10, <1>11 DEF NotifyTyped, WorkerTrue

-----------------------------------------------------------------------------
\* Nothing of the worker's moves; what is stored may.
LEMMA WorkerStays ==
  ASSUME NotifyInv, UNCHANGED <<places, letters, happened, workerVars>>, NotesTyped',
         notes'.adrift = notes.adrift, LaterPuts, PlacesTrue'
  PROVE  LettersTyped' /\ WorkerTyped' /\ WorkerTrue'
  <1> USE DEF NotifyInv
  <1>1. LettersTyped' /\ WorkerTyped'
    BY DEF NotifyTyped, LettersTyped, WorkerTyped, workerVars
  <1>2. LettersGrow /\ ticks' = ticks
    BY DEF LettersGrow, workerVars
  <1>3. TicksTrue'
    BY <1>2, TicksStay
  <1>4. OneTick'
    BY DEF WorkerTrue, OneTick, workerVars
  <1>5. \A i : AskedFor(i)' <=> AskedFor(i)
    BY <1>2 DEF AskedFor, Asking
  <1>6. PostsTrue'
    BY <1>5 DEF WorkerTrue, PostsTrue, workerVars
  <1>7. SameLetters
    BY <1>1 DEF SameLetters
  <1>8. LettersTrue'
    BY <1>7, SameLettersKeep
  <1> QED
    BY <1>1, <1>3, <1>4, <1>6, <1>8 DEF WorkerTrue

\* A row is put or removed; the first put of an id is remembered.
LEMMA StoreKeeps ==
  ASSUME NotifyInv, NEW d \in Destinations, NEW row \in RowsOf(d) \cup {Nil}, Upsert(d, row),
         NotesTyped',
         \/ notes'.before = [notes.before EXCEPT ![d] = IF @ = Nil THEN happened ELSE @]
         \/ row = Nil /\ notes'.before = notes.before
  PROVE  PlacesTrue' /\ LaterPuts
  <1> USE DEF NotifyInv
  <1>1. /\ destinations \in Listings /\ happened \in Nat
        /\ places \in [Destinations -> Nat \cup {Nil}]
        /\ notes.before \in [Destinations -> Nat \cup {Nil}]
    BY DEF WorkerTrue, PlacesTrue, NotifyTyped, WorkerTyped, NotesTyped
  <1>2. destinations' = [destinations EXCEPT ![d] = row] /\ places' = places /\ happened' = happened
    BY DEF Upsert
  <1>3. destinations' \in Listings
    BY <1>1, <1>2 DEF Listings, RowsOf
  <1>4. ASSUME NEW e \in Destinations
        PROVE  /\ \/ notes'.before[e] = notes.before[e]
                  \/ e = d /\ notes.before[e] = Nil /\ notes'.before[e] = happened
               /\ e = d /\ row # Nil => notes'.before[e] # Nil
               /\ e = d => destinations'[e] = row
               /\ e # d => destinations'[e] = destinations[e]
    <2>1. happened # Nil
      BY <1>1, NotificationsAssumption
    <2>4. /\ e = d => destinations'[e] = row
          /\ e # d => destinations'[e] = destinations[e]
      BY <1>1, <1>2 DEF Listings
    <2>2. CASE notes'.before = [notes.before EXCEPT ![d] = IF @ = Nil THEN happened ELSE @]
      <3> PICK f, g : f = notes.before /\ g = notes'.before
        OBVIOUS
      <3>1. /\ f \in [Destinations -> Nat \cup {Nil}]
            /\ g = [f EXCEPT ![d] = IF @ = Nil THEN happened ELSE @]
        BY <1>1, <2>2
      <3>2. e # d => g[e] = f[e]
        BY ONLY <3>1
      <3>3. e = d => g[e] = (IF f[d] = Nil THEN happened ELSE f[d])
        BY ONLY <3>1
      <3> QED
        BY <2>1, <2>4, <3>2, <3>3
    <2>3. CASE row = Nil /\ notes'.before = notes.before
      BY <2>3, <2>4
    <2> QED
      BY <2>2, <2>3
  <1>5. LaterPuts
    BY <1>4 DEF LaterPuts
  <1>6. ASSUME NEW e \in Destinations
        PROVE  /\ destinations'[e] # Nil => destinations'[e] \in RowsOf(e) /\ notes'.before[e] # Nil
               /\ notes'.before[e] # Nil => notes'.before[e] <= happened
               /\ places[e] # Nil =>
                    /\ notes'.before[e] # Nil /\ notes'.before[e] <= places[e]
                    /\ places[e] <= happened
    <2>1. /\ destinations[e] # Nil => destinations[e] \in RowsOf(e) /\ notes.before[e] # Nil
          /\ notes.before[e] # Nil => notes.before[e] <= happened
          /\ places[e] # Nil =>
               notes.before[e] # Nil /\ notes.before[e] <= places[e] /\ places[e] <= happened
      BY DEF WorkerTrue, PlacesTrue
    <2>2. e = d => row \in RowsOf(e) \cup {Nil}
      OBVIOUS
    <2>3. happened <= happened
      BY <1>1
    <2>4. notes'.before[e] # Nil => notes'.before[e] <= happened
      BY <1>4, <2>1, <2>3
    <2>5. destinations'[e] # Nil => destinations'[e] \in RowsOf(e) /\ notes'.before[e] # Nil
      BY <1>4, <2>1, <2>2
    <2>6. places[e] # Nil => notes'.before[e] = notes.before[e]
      BY <1>4, <2>1
    <2> QED
      BY <2>1, <2>4, <2>5, <2>6
  <1>7. \A e : RowsOf(e)' = RowsOf(e)
    BY DEF RowsOf
  <1> QED
    BY <1>2, <1>3, <1>5, <1>6, <1>7 DEF PlacesTrue

\* What may be stored.
LEMMA PutsARow ==
  ASSUME NEW k \in DOMAIN Entries, parseDestination(Entries[k]) # Nil
  PROVE  Entries[k].id \in Destinations /\ parseDestination(Entries[k]) \in RowsOf(Entries[k].id)
  BY DEF parseDestination, RowsOf

\* What the panel's requests are of.
AskOf(what, of) ==
  \/ what = "list" /\ of = Nil
  \/ what = "save" /\ of \in DOMAIN Entries
  \/ what \in {"delete", "test"} /\ of \in Destinations

\* The panel's requests.
LEMMA AskMade ==
  ASSUME NEW what \in {"list", "save", "delete", "test"}, NEW of, AskOf(what, of)
  PROVE  /\ PanelAsk(what, of) \in Requests /\ PanelAsk(what, of) # Nil
         /\ PanelAsk(what, of).what = what /\ PanelAsk(what, of).of = of
         /\ PanelAsk(what, of).answer = Nil /\ PanelAsk(what, of).ends = FALSE
  <1> PICK ask : ask = [what |-> what, of |-> of, answer |-> Nil, ends |-> FALSE]
    OBVIOUS
  <1>1. ask \in Requests
    BY DEF Requests, AskOf
  <1>2. ask # Nil
    BY <1>1, NilAssumption
  <1>3. PanelAsk(what, of) = ask
    BY DEF PanelAsk
  <1> QED
    BY <1>1, <1>2, <1>3

\* A request of the panel's goes out; when another is out, the panel is disturbed.
LEMMA PanelAsks ==
  ASSUME NotifyInv, NEW ask \in Requests, ask # Nil, ask.what # "list", ask.answer = Nil,
         ask.ends = FALSE, ask.what = "save" => ask.of \in DOMAIN Entries,
         ask.what = "delete" => ask.of \in Destinations, Place(ask),
         notes' = [Beside EXCEPT !.puts = @ + 1],
         DOMAIN panel' = DOMAIN panel, panel'.list = panel.list, panel'.loading = panel.loading,
         panel'.saving = (panel.saving \/ ask.what = "save"),
         UNCHANGED <<serverVars, workerVars>>
  PROVE  NotifyInv'
  <1> USE DEF NotifyInv
  <1> PICK p, disturbed : /\ p = notes.puts + 1
                          /\ disturbed = (notes.disturbed \/ \E a \in Lanes: asks[a] # Nil)
    OBVIOUS
  <1>1. notes' = [[notes EXCEPT !.disturbed = disturbed] EXCEPT !.puts = p] /\ disturbed \in BOOLEAN
    BY DEF Beside, NotifyTyped, NotesTyped
  <1>2. /\ NotesTyped' /\ notes'.adrift = notes.adrift /\ notes'.before = notes.before
        /\ notes'.disturbed = disturbed
    BY <1>1, NotesKept DEF NotifyTyped
  <1>3. PlacesTrue'
    BY <1>2, PlacesKept DEF serverVars
  <1>4. LettersTyped' /\ WorkerTyped' /\ WorkerTrue'
    BY <1>2, <1>3, WorkerStays DEF serverVars, LaterPuts
  <1>5. PICK a \in Lanes : asks[a] = Nil /\ asks' = [asks EXCEPT ![a] = ask]
    BY DEF Place
  <1>6. /\ asks \in [Lanes -> Requests \cup {Nil}] /\ asks'[a] = ask
        /\ \A b \in Lanes : b # a => asks'[b] = asks[b]
    BY <1>5 DEF NotifyTyped, PanelTyped
  <1>7. PanelTyped'
    <2>1. asks' \in [Lanes -> Requests \cup {Nil}]
      BY <1>5, <1>6
    <2>2. \A b \in Lanes : asks'[b] # Nil =>
            /\ asks'[b].what = "save" => asks'[b].of \in DOMAIN Entries
            /\ asks'[b].what = "delete" => asks'[b].of \in Destinations
      BY <1>6 DEF NotifyTyped, PanelTyped
    <2>3. DOMAIN panel' = {"list", "loading", "saving", "testing"}
      BY DEF NotifyTyped, PanelTyped
    <2>4. panel'.loading \in BOOLEAN /\ panel'.saving \in BOOLEAN
      BY DEF NotifyTyped, PanelTyped
    <2> QED
      BY <2>1, <2>2, <2>3, <2>4 DEF PanelTyped
  <1>8. PanelTrue'
    <2> SUFFICES ASSUME ~notes'.disturbed
                 PROVE  /\ \A b, c \in Lanes : asks'[b] # Nil /\ asks'[c] # Nil => b = c
                        /\ ~(\A b \in Lanes : asks'[b] = Nil)
                        /\ \A b \in Lanes : asks'[b] # Nil =>
                             /\ panel'.saving <=> asks'[b].what = "save" \/ asks'[b].ends
                             /\ asks'[b].ends => asks'[b].what = "list"
                             /\ panel'.loading <=> asks'[b].what = "list"
                             /\ asks'[b].what # "list"
                             /\ panel'.list = destinations'
      BY DEF PanelTrue
    <2>1. ~notes.disturbed /\ \A b \in Lanes : asks[b] = Nil
      BY <1>2
    <2>2. panel.list = destinations /\ ~panel.loading /\ ~panel.saving
      BY <2>1 DEF PanelTrue
    <2>3. panel'.list = destinations' /\ ~panel'.loading /\ panel'.saving = (ask.what = "save")
      BY <2>2 DEF serverVars
    <2>4. \A b \in Lanes : asks'[b] # Nil => b = a
      BY <1>6, <2>1
    <2> QED
      BY <1>6, <2>3, <2>4
  <1> QED
    BY <1>2, <1>4, <1>7, <1>8 DEF NotifyTyped

LEMMA SaveKeeps ==
  ASSUME NotifyInv, NEW k \in DOMAIN Entries, handleSave(k)
  PROVE  NotifyInv'
  <1> PICK ask : ask = PanelAsk("save", k)
    OBVIOUS
  <1>1. /\ ask \in Requests /\ ask # Nil /\ ask.what = "save" /\ ask.of = k
        /\ ask.answer = Nil /\ ask.ends = FALSE
    <2>1. ask = PanelAsk("save", k) /\ AskOf("save", k)
      BY DEF AskOf
    <2> QED
      BY ONLY <2>1, AskMade
  <1>2. /\ Place(ask) /\ notes' = [Beside EXCEPT !.puts = @ + 1]
        /\ panel' = [panel EXCEPT !.saving = TRUE] /\ UNCHANGED <<serverVars, workerVars>>
    BY DEF handleSave
  <1>3. DOMAIN panel = {"list", "loading", "saving", "testing"} /\ panel.saving \in BOOLEAN
    BY DEF NotifyInv, NotifyTyped, PanelTyped
  <1>4. /\ DOMAIN panel' = DOMAIN panel /\ panel'.list = panel.list
        /\ panel'.loading = panel.loading /\ panel'.saving = (panel.saving \/ ask.what = "save")
    BY <1>1, <1>2, <1>3
  <1> QED
    BY <1>1, <1>2, <1>4, PanelAsks

LEMMA DeleteKeeps ==
  ASSUME NotifyInv, NEW d \in Destinations, handleDelete(d)
  PROVE  NotifyInv'
  <1> PICK ask : ask = PanelAsk("delete", d)
    OBVIOUS
  <1>1. /\ ask \in Requests /\ ask # Nil /\ ask.what = "delete" /\ ask.of = d
        /\ ask.answer = Nil /\ ask.ends = FALSE
    <2>1. ask = PanelAsk("delete", d) /\ AskOf("delete", d)
      BY DEF AskOf
    <2> QED
      BY ONLY <2>1, AskMade
  <1>2. /\ Place(ask) /\ notes' = [Beside EXCEPT !.puts = @ + 1]
        /\ panel' = panel /\ UNCHANGED <<serverVars, workerVars>>
    BY DEF handleDelete
  <1>3. panel.saving \in BOOLEAN
    BY DEF NotifyInv, NotifyTyped, PanelTyped
  <1>4. /\ DOMAIN panel' = DOMAIN panel /\ panel'.list = panel.list
        /\ panel'.loading = panel.loading /\ panel'.saving = (panel.saving \/ ask.what = "save")
    BY <1>1, <1>2, <1>3
  <1> QED
    BY <1>1, <1>2, <1>4, PanelAsks

LEMMA TestKeeps ==
  ASSUME NotifyInv, NEW d \in Destinations, handleTest(d)
  PROVE  NotifyInv'
  <1> PICK ask : ask = PanelAsk("test", d)
    OBVIOUS
  <1>1. /\ ask \in Requests /\ ask # Nil /\ ask.what = "test" /\ ask.of = d
        /\ ask.answer = Nil /\ ask.ends = FALSE
    <2>1. ask = PanelAsk("test", d) /\ AskOf("test", d)
      BY DEF AskOf
    <2> QED
      BY ONLY <2>1, AskMade
  <1>2. /\ Place(ask) /\ notes' = [Beside EXCEPT !.puts = @ + 1]
        /\ panel' = [panel EXCEPT !.testing = @ \cup {d}] /\ UNCHANGED <<serverVars, workerVars>>
    BY DEF handleTest
  <1>3. DOMAIN panel = {"list", "loading", "saving", "testing"} /\ panel.saving \in BOOLEAN
    BY DEF NotifyInv, NotifyTyped, PanelTyped
  <1>4. /\ DOMAIN panel' = DOMAIN panel /\ panel'.list = panel.list
        /\ panel'.loading = panel.loading /\ panel'.saving = (panel.saving \/ ask.what = "save")
    BY <1>1, <1>2, <1>3
  <1> QED
    BY <1>1, <1>2, <1>4, PanelAsks

\* The first put of an id is remembered, whatever else is.
LEMMA FirstPutTyped ==
  ASSUME NotesTyped, happened \in Nat, NEW d \in Destinations, NEW p, NEW b \in BOOLEAN
  PROVE  LET n == FirstPut(d, notes)
             m == [n EXCEPT !.puts = p, !.disturbed = b]
             before == [notes.before EXCEPT ![d] = IF @ = Nil THEN happened ELSE @]
         IN
         /\ notes' = n =>
              /\ NotesTyped' /\ notes'.adrift = notes.adrift /\ notes'.before = before
              /\ notes'.disturbed = notes.disturbed
         /\ notes' = m =>
              /\ NotesTyped' /\ notes'.adrift = notes.adrift /\ notes'.before = before
              /\ notes'.disturbed = b
  <1> PICK before : before = [notes.before EXCEPT ![d] = IF @ = Nil THEN happened ELSE @]
    OBVIOUS
  <1>1. before \in [Destinations -> Nat \cup {Nil}]
    BY DEF NotesTyped
  <1> PICK n : n = [notes EXCEPT !.before = before]
    OBVIOUS
  <1>2. FirstPut(d, notes) = n
    BY DEF FirstPut, NotesTyped
  <1>3. /\ notes' = n =>
              /\ NotesTyped' /\ notes'.adrift = notes.adrift /\ notes'.before = before
              /\ notes'.disturbed = notes.disturbed
        /\ notes' = [n EXCEPT !.puts = p, !.disturbed = b] =>
              /\ NotesTyped' /\ notes'.adrift = notes.adrift /\ notes'.before = before
              /\ notes'.disturbed = b
    BY <1>1 DEF NotesTyped
  <1> QED
    BY <1>2, <1>3

\* A request with its answer.
LEMMA AskAnswered ==
  ASSUME NEW ask \in Requests, NEW x \in {"ok", "refused"} \cup Listings
  PROVE  /\ [ask EXCEPT !.answer = x] \in Requests /\ [ask EXCEPT !.answer = x] # Nil
         /\ [ask EXCEPT !.answer = x].what = ask.what /\ [ask EXCEPT !.answer = x].of = ask.of
         /\ [ask EXCEPT !.answer = x].ends = ask.ends /\ [ask EXCEPT !.answer = x].answer = x
  <1> PICK given : given = [ask EXCEPT !.answer = x]
    OBVIOUS
  <1>1. given \in Requests /\ given.what = ask.what /\ given.of = ask.of /\ given.ends = ask.ends
        /\ given.answer = x
    BY DEF Requests
  <1>2. given # Nil
    BY <1>1, NilAssumption
  <1> QED
    BY <1>1, <1>2

\* What is served: the table as it is, or changed by one statement.
LEMMA RouteServes ==
  ASSUME NotifyInv, NEW a \in Lanes, Route(a)
  PROVE  /\ asks[a] \in Requests /\ asks[a] # Nil /\ asks[a].answer = Nil
         /\ UNCHANGED <<workerVars, panel, places, letters, happened>>
         /\ \E x \in {"ok", "refused"} \cup Listings :
              /\ asks' = [asks EXCEPT ![a] = [asks[a] EXCEPT !.answer = x]]
              /\ asks[a].what = "list" => x = destinations
              /\ asks[a].what \in {"list", "test"} \/ x # "ok" => destinations' = destinations
         /\ NotesTyped' /\ notes'.adrift = notes.adrift /\ notes'.disturbed = notes.disturbed
         /\ LaterPuts /\ PlacesTrue'
  <1> USE DEF NotifyInv
  <1> PICK ask : ask = asks[a]
    OBVIOUS
  <1>1. ask \in Requests /\ ask # Nil /\ ask.answer = Nil
    BY DEF Route, NotifyTyped, PanelTyped
  <1>2. /\ ask.what = "save" => ask.of \in DOMAIN Entries
        /\ ask.what = "delete" => ask.of \in Destinations
    BY <1>1 DEF NotifyTyped, PanelTyped
  <1>3. asks \in [Lanes -> Requests \cup {Nil}] /\ destinations \in Listings
    BY DEF NotifyTyped, PanelTyped, WorkerTrue, PlacesTrue
  <1>4. UNCHANGED <<workerVars, panel>>
    BY DEF Route
  <1>5. ASSUME UNCHANGED <<serverVars, notes>>
        PROVE  /\ UNCHANGED <<places, letters, happened, destinations>>
               /\ NotesTyped' /\ notes'.adrift = notes.adrift /\ notes'.disturbed = notes.disturbed
               /\ LaterPuts /\ PlacesTrue'
    BY <1>5, TypesKept, PlacesKept DEF serverVars, LaterPuts
  <1>6. ASSUME NEW x, asks' = [asks EXCEPT ![a].answer = x]
        PROVE  asks' = [asks EXCEPT ![a] = [asks[a] EXCEPT !.answer = x]]
    BY <1>3, <1>6
  <1>7. CASE ask.what = "list" /\ asks' = [asks EXCEPT ![a].answer = destinations]
             /\ UNCHANGED <<serverVars, notes>>
    BY <1>1, <1>3, <1>4, <1>5, <1>6, <1>7
  <1>8. CASE ask.what = "save" /\ parseDestination(Entries[ask.of]) = Nil
             /\ asks' = [asks EXCEPT ![a].answer = "refused"] /\ UNCHANGED <<serverVars, notes>>
    BY <1>1, <1>4, <1>5, <1>6, <1>8
  <1>9. CASE ask.what = "save" /\ parseDestination(Entries[ask.of]) # Nil
             /\ asks' = [asks EXCEPT ![a].answer = "ok"]
             /\ Upsert(Entries[ask.of].id, parseDestination(Entries[ask.of]))
             /\ notes' = FirstPut(Entries[ask.of].id, notes)
    <2> PICK d, row : d = Entries[ask.of].id /\ row = parseDestination(Entries[ask.of])
      OBVIOUS
    <2>1. d \in Destinations /\ row \in RowsOf(d)
      BY <1>2, <1>9, PutsARow
    <2>2. Upsert(d, row) /\ UNCHANGED <<places, letters, happened>>
      BY <1>9 DEF Upsert
    <2>3. /\ NotesTyped' /\ notes'.adrift = notes.adrift /\ notes'.disturbed = notes.disturbed
          /\ notes'.before = [notes.before EXCEPT ![d] = IF @ = Nil THEN happened ELSE @]
      BY <1>9, <2>1, FirstPutTyped DEF NotifyTyped, WorkerTyped, NotesTyped
    <2>4. PlacesTrue' /\ LaterPuts
      BY <2>1, <2>2, <2>3, StoreKeeps
    <2> QED
      BY <1>1, <1>4, <1>6, <1>9, <2>2, <2>3, <2>4
  <1>10. CASE ask.what = "delete"
              /\ asks' = [asks EXCEPT ![a].answer = IF destinations[ask.of] = Nil THEN "refused" ELSE "ok"]
              /\ Upsert(ask.of, Nil) /\ UNCHANGED notes
    <2> PICK d, x : d = ask.of /\ x = IF destinations[d] = Nil THEN "refused" ELSE "ok"
      OBVIOUS
    <2>1. d \in Destinations /\ x \in {"ok", "refused"}
      BY <1>2, <1>10
    <2>2. Upsert(d, Nil) /\ UNCHANGED <<places, letters, happened>>
      BY <1>10 DEF Upsert
    <2>3. /\ NotesTyped' /\ notes'.adrift = notes.adrift /\ notes'.disturbed = notes.disturbed
          /\ notes'.before = notes.before
      BY <1>10, TypesKept
    <2>4. PlacesTrue' /\ LaterPuts
      BY <2>1, <2>2, <2>3, StoreKeeps
    <2>5. x # "ok" => destinations' = destinations
      BY <1>3, <2>2 DEF Upsert, Listings
    <2>6. asks' = [asks EXCEPT ![a] = [asks[a] EXCEPT !.answer = x]]
      BY <1>6, <1>10
    <2> QED
      BY <1>1, <1>4, <1>10, <2>1, <2>2, <2>3, <2>4, <2>5, <2>6
  <1>11. CASE /\ ask.what = "test"
              /\ \E ok \in BOOLEAN: asks' = [asks EXCEPT ![a].answer =
                                               IF ok /\ destinations[ask.of] # Nil THEN "ok" ELSE "refused"]
              /\ UNCHANGED <<serverVars, notes>>
    <2> PICK x \in {"ok", "refused"} : asks' = [asks EXCEPT ![a].answer = x]
      BY <1>11
    <2> QED
      BY <1>1, <1>4, <1>5, <1>6, <1>11
  <1> QED
    BY <1>7, <1>8, <1>9, <1>10, <1>11 DEF Route

\* A request is served.
LEMMA RouteKeeps ==
  ASSUME NotifyInv, NEW a \in Lanes, Route(a)
  PROVE  NotifyInv'
  <1> USE DEF NotifyInv
  <1>1. /\ asks[a] \in Requests /\ asks[a] # Nil /\ asks[a].answer = Nil
        /\ UNCHANGED <<workerVars, panel, places, letters, happened>>
        /\ NotesTyped' /\ notes'.adrift = notes.adrift /\ notes'.disturbed = notes.disturbed
        /\ LaterPuts /\ PlacesTrue'
    BY RouteServes
  <1>2. PICK x \in {"ok", "refused"} \cup Listings :
          /\ asks' = [asks EXCEPT ![a] = [asks[a] EXCEPT !.answer = x]]
          /\ asks[a].what = "list" => x = destinations
          /\ asks[a].what \in {"list", "test"} \/ x # "ok" => destinations' = destinations
    BY RouteServes
  <1> PICK given : given = [asks[a] EXCEPT !.answer = x]
    OBVIOUS
  <1>3. /\ given \in Requests /\ given # Nil /\ given.what = asks[a].what /\ given.of = asks[a].of
        /\ given.ends = asks[a].ends /\ given.answer = x
    BY <1>1, AskAnswered
  <1>4. asks \in [Lanes -> Requests \cup {Nil}]
    BY DEF NotifyTyped, PanelTyped
  <1>5. asks'[a] = given /\ \A b \in Lanes : b # a => asks'[b] = asks[b]
    BY <1>2, <1>4
  <1>6. LettersTyped' /\ WorkerTyped' /\ WorkerTrue'
    BY <1>1, WorkerStays
  <1>7. PanelTyped'
    <2>1. asks' \in [Lanes -> Requests \cup {Nil}]
      BY <1>2, <1>3, <1>4
    <2>2. ASSUME NEW b \in Lanes, asks'[b] # Nil
          PROVE  /\ asks'[b].what = "save" => asks'[b].of \in DOMAIN Entries
                 /\ asks'[b].what = "delete" => asks'[b].of \in Destinations
      <3>1. \A c \in Lanes : asks[c] # Nil =>
              /\ asks[c].what = "save" => asks[c].of \in DOMAIN Entries
              /\ asks[c].what = "delete" => asks[c].of \in Destinations
        BY DEF NotifyTyped, PanelTyped
      <3>2. CASE b = a
        BY ONLY <1>1, <1>3, <1>5, <3>1, <3>2
      <3>3. CASE b # a
        BY <1>5, <2>2, <3>1, <3>3
      <3> QED
        BY <3>2, <3>3
    <2>3. panel' = panel
      BY <1>1
    <2> QED
      BY <2>1, <2>2, <2>3 DEF NotifyTyped, PanelTyped
  <1>8. PanelTrue'
    <2> SUFFICES ASSUME ~notes'.disturbed
                 PROVE  /\ \A b, c \in Lanes : asks'[b] # Nil /\ asks'[c] # Nil => b = c
                        /\ ~(\A b \in Lanes : asks'[b] = Nil)
                        /\ \A b \in Lanes : asks'[b] # Nil =>
                             /\ panel'.saving <=> asks'[b].what = "save" \/ asks'[b].ends
                             /\ asks'[b].ends => asks'[b].what = "list"
                             /\ panel'.loading <=> asks'[b].what = "list"
                             /\ asks'[b].what = "list" => asks'[b].answer \in {Nil, destinations'}
                             /\ asks'[b].what \in {"save", "delete"} /\ asks'[b].answer # "ok" =>
                                  panel'.list = destinations'
                             /\ asks'[b].what = "test" => panel'.list = destinations'
      BY DEF PanelTrue
    <2>1. ~notes.disturbed
      BY <1>1
    <2>2. /\ \A b \in Lanes : asks[b] # Nil => b = a
          /\ panel.saving <=> asks[a].what = "save" \/ asks[a].ends
          /\ asks[a].ends => asks[a].what = "list"
          /\ panel.loading <=> asks[a].what = "list"
          /\ asks[a].what \in {"save", "delete", "test"} => panel.list = destinations
      <3>1. asks[a].answer # "ok"
        BY <1>1, NilAssumption
      <3> QED
        BY <1>1, <2>1, <3>1 DEF PanelTrue
    <2>3. panel' = panel
      BY <1>1
    <2>4. \A b \in Lanes : asks'[b] # Nil => b = a
      BY <1>5, <2>2
    <2>5. given.what = "list" => given.answer = destinations'
      BY <1>2, <1>3
    <2>6. given.what \in {"save", "delete"} /\ given.answer # "ok" => panel.list = destinations'
      BY <1>2, <1>3, <2>2
    <2>7. given.what = "test" => panel.list = destinations'
      BY <1>2, <1>3, <2>2
    <2> QED
      BY <1>3, <1>5, <2>2, <2>3, <2>4, <2>5, <2>6, <2>7
  <1> QED
    BY <1>1, <1>6, <1>7, <1>8 DEF NotifyTyped

\* An answer has come: the list is shown, or asked for, or nothing is left.
LEMMA RefreshKeeps ==
  ASSUME NotifyInv, NEW a \in Lanes, refresh(a)
  PROVE  NotifyInv'
  <1> USE DEF NotifyInv
  <1> PICK ask : ask = asks[a]
    OBVIOUS
  <1>1. ask # Nil /\ ask.answer # Nil /\ UNCHANGED <<serverVars, workerVars, notes>>
    BY DEF refresh
  <1>2. /\ asks \in [Lanes -> Requests \cup {Nil}] /\ ask \in Requests
        /\ ask.ends \in BOOLEAN /\ ask.what \in {"list", "save", "delete", "test"}
        /\ panel.loading \in BOOLEAN /\ panel.saving \in BOOLEAN
        /\ DOMAIN panel = {"list", "loading", "saving", "testing"}
    BY <1>1 DEF NotifyTyped, PanelTyped, Requests
  <1>3. /\ NotesTyped' /\ notes'.adrift = notes.adrift /\ notes'.disturbed = notes.disturbed
        /\ notes'.before = notes.before /\ LaterPuts /\ PlacesTrue'
    BY <1>1, TypesKept, PlacesKept DEF serverVars, LaterPuts
  <1>4. LettersTyped' /\ WorkerTyped' /\ WorkerTrue'
    BY <1>1, <1>3, WorkerStays DEF serverVars
  <1> PICK next : next = asks'[a]
    OBVIOUS
  <1>5. /\ asks' = [asks EXCEPT ![a] = next] /\ next \in Requests \cup {Nil}
        /\ DOMAIN panel' = DOMAIN panel
        /\ panel'.loading \in BOOLEAN /\ panel'.saving \in BOOLEAN
        /\ \/ /\ ask.what = "list" /\ next = Nil /\ panel'.list = ask.answer
              /\ ~panel'.loading /\ panel'.saving = (panel.saving /\ ~ask.ends)
           \/ /\ ask.what \in {"save", "delete"} /\ ask.answer = "ok"
              /\ next # Nil /\ next.what = "list" /\ next.answer = Nil
              /\ next.ends = (ask.what = "save")
              /\ panel'.list = panel.list /\ panel'.loading /\ panel'.saving = panel.saving
           \/ /\ ask.what \in {"save", "delete"} /\ ask.answer = "refused" /\ next = Nil
              /\ panel'.list = panel.list /\ panel'.loading = panel.loading
              /\ panel'.saving = (panel.saving /\ ask.what = "delete")
           \/ /\ ask.what = "test" /\ next = Nil /\ panel'.list = panel.list
              /\ panel'.loading = panel.loading /\ panel'.saving = panel.saving
    <2>1. ASSUME Done(a)
          PROVE  asks' = [asks EXCEPT ![a] = next] /\ next = Nil
      BY <1>2, <2>1 DEF Done
    <2>2. CASE /\ ask.what = "list" /\ Done(a)
               /\ panel' = [panel EXCEPT !.list = ask.answer, !.loading = FALSE,
                                         !.saving = @ /\ ~ask.ends]
      <3>1. DOMAIN panel' = DOMAIN panel /\ panel'.list = ask.answer /\ panel'.loading = FALSE
            /\ panel'.saving = (panel.saving /\ ~ask.ends)
        BY <1>2, <2>2
      <3> QED
        BY <2>1, <2>2, <3>1
    <2>3. CASE /\ ask.what \in {"save", "delete"} /\ ask.answer = "ok"
               /\ panel' = [panel EXCEPT !.loading = TRUE] /\ Then(a, ask.what = "save")
      <3> PICK plain, ends, given : /\ plain = PanelAsk("list", Nil) /\ ends = (ask.what = "save")
                                   /\ given = [plain EXCEPT !.ends = ends]
        OBVIOUS
      <3>0. AskOf("list", Nil)
        BY DEF AskOf
      <3>1. plain \in Requests /\ plain.what = "list" /\ plain.answer = Nil /\ ends \in BOOLEAN
        BY <3>0, AskMade
      <3>2. given \in Requests /\ given.what = "list" /\ given.answer = Nil /\ given.ends = ends
        BY <3>1 DEF Requests
      <3>3. given # Nil
        BY <3>2, NilAssumption
      <3>4. asks' = [asks EXCEPT ![a] = given]
        BY <2>3 DEF Then
      <3>5. next = given
        BY <1>2, <3>4
      <3>6. /\ DOMAIN panel' = DOMAIN panel /\ panel'.list = panel.list
            /\ panel'.loading = TRUE /\ panel'.saving = panel.saving
        BY <1>2, <2>3
      <3> QED
        BY <1>2, <2>3, <3>2, <3>3, <3>4, <3>5, <3>6
    <2>4. CASE /\ ask.what \in {"save", "delete"} /\ ask.answer = "refused" /\ Done(a)
               /\ panel' = [panel EXCEPT !.saving = @ /\ ask.what = "delete"]
      <3>1. /\ DOMAIN panel' = DOMAIN panel /\ panel'.list = panel.list
            /\ panel'.loading = panel.loading
            /\ panel'.saving = (panel.saving /\ ask.what = "delete")
        BY <1>2, <2>4
      <3> QED
        BY <1>2, <2>1, <2>4, <3>1
    <2>5. CASE /\ ask.what = "test" /\ Done(a)
               /\ panel' = [panel EXCEPT !.testing = @ \ {ask.of}]
      <3>1. /\ DOMAIN panel' = DOMAIN panel /\ panel'.list = panel.list
            /\ panel'.loading = panel.loading /\ panel'.saving = panel.saving
        BY <1>2, <2>5
      <3> QED
        BY <1>2, <2>1, <2>5, <3>1
    <2> QED
      BY <2>2, <2>3, <2>4, <2>5 DEF refresh
  <1>6. asks'[a] = next /\ \A b \in Lanes : b # a => asks'[b] = asks[b]
    BY <1>2, <1>5
  <1>7. PanelTyped'
    <2>1. asks' \in [Lanes -> Requests \cup {Nil}]
      BY <1>2, <1>5
    <2>2. ASSUME NEW b \in Lanes, asks'[b] # Nil
          PROVE  /\ asks'[b].what = "save" => asks'[b].of \in DOMAIN Entries
                 /\ asks'[b].what = "delete" => asks'[b].of \in Destinations
      <3>1. \A c \in Lanes : asks[c] # Nil =>
              /\ asks[c].what = "save" => asks[c].of \in DOMAIN Entries
              /\ asks[c].what = "delete" => asks[c].of \in Destinations
        BY DEF NotifyTyped, PanelTyped
      <3>2. next = Nil \/ next.what = "list"
        BY <1>5
      <3>3. CASE b = a
        BY <1>6, <2>2, <3>2, <3>3
      <3>4. CASE b # a
        BY <1>6, <2>2, <3>1, <3>4
      <3> QED
        BY <3>3, <3>4
    <2> QED
      BY <1>2, <1>5, <2>1, <2>2 DEF PanelTyped
  <1>8. PanelTrue'
    <2> SUFFICES ASSUME ~notes'.disturbed
                 PROVE  /\ \A b, c \in Lanes : asks'[b] # Nil /\ asks'[c] # Nil => b = c
                        /\ next = Nil =>
                             panel'.list = destinations' /\ ~panel'.loading /\ ~panel'.saving
                        /\ \A b \in Lanes : asks'[b] # Nil =>
                             /\ panel'.saving <=> asks'[b].what = "save" \/ asks'[b].ends
                             /\ asks'[b].ends => asks'[b].what = "list"
                             /\ panel'.loading <=> asks'[b].what = "list"
                             /\ asks'[b].what = "list" /\ asks'[b].answer = Nil
      BY <1>6 DEF PanelTrue
    <2>1. ~notes.disturbed /\ destinations' = destinations
      BY <1>1, <1>3 DEF serverVars
    <2>2. /\ \A b \in Lanes : asks[b] # Nil => b = a
          /\ panel.saving <=> ask.what = "save" \/ ask.ends
          /\ ask.ends => ask.what = "list"
          /\ panel.loading <=> ask.what = "list"
          /\ ask.what = "list" => ask.answer \in {Nil, destinations}
          /\ ask.what \in {"save", "delete"} /\ ask.answer # "ok" => panel.list = destinations
          /\ ask.what = "test" => panel.list = destinations
      BY <1>1, <2>1 DEF PanelTrue
    <2>3. \A b \in Lanes : asks'[b] # Nil => b = a
      BY <1>6, <2>2
    <2>4. next = Nil => panel'.list = destinations /\ ~panel'.loading /\ ~panel'.saving
      BY <1>1, <1>2, <1>5, <2>2
    <2>5. next # Nil =>
            /\ panel'.saving <=> next.what = "save" \/ next.ends
            /\ next.ends => next.what = "list"
            /\ panel'.loading <=> next.what = "list"
            /\ next.what = "list" /\ next.answer = Nil
      BY <1>2, <1>5, <2>2
    <2> QED
      BY <1>6, <2>1, <2>3, <2>4, <2>5
  <1> QED
    BY <1>3, <1>4, <1>7, <1>8 DEF NotifyTyped

\* A lost answer disturbs the panel, and nothing else.
LEMMA LostKeeps ==
  ASSUME NotifyInv, NEW a \in Lanes, AnswerLost(a)
  PROVE  NotifyInv'
  <1> USE DEF NotifyInv
  <1> PICK m, ask : m = notes.mishaps + 1 /\ ask = asks[a]
    OBVIOUS
  <1>1. /\ ask # Nil /\ asks' = [asks EXCEPT ![a] = Nil]
        /\ notes' = [notes EXCEPT !.mishaps = m, !.disturbed = TRUE]
        /\ UNCHANGED <<destinations, places, letters, happened, workerVars>>
    BY DEF AnswerLost, Done, serverVars
  <1>2. /\ NotesTyped' /\ notes'.adrift = notes.adrift /\ notes'.before = notes.before
        /\ notes'.disturbed
    BY <1>1, NotesKept DEF NotifyTyped
  <1>3. LaterPuts /\ PlacesTrue'
    BY <1>1, <1>2, PlacesKept DEF LaterPuts
  <1>4. LettersTyped' /\ WorkerTyped' /\ WorkerTrue'
    BY <1>1, <1>2, <1>3, WorkerStays
  <1>5. PanelTyped'
    <2>1. /\ asks \in [Lanes -> Requests \cup {Nil}] /\ ask \in Requests
          /\ ask.ends \in BOOLEAN
          /\ panel.loading \in BOOLEAN /\ panel.saving \in BOOLEAN
          /\ DOMAIN panel = {"list", "loading", "saving", "testing"}
      BY <1>1 DEF NotifyTyped, PanelTyped, Requests
    <2> PICK coming, saving, testing :
           /\ coming = (panel.loading /\ ask.what # "list")
           /\ saving = (panel.saving /\ ask.what # "save" /\ ~ask.ends)
           /\ testing = IF ask.what = "test" THEN panel.testing \ {ask.of} ELSE panel.testing
      OBVIOUS
    <2>2. panel' = [panel EXCEPT !.loading = coming, !.saving = saving, !.testing = testing]
      BY <2>1 DEF AnswerLost
    <2>3. coming \in BOOLEAN /\ saving \in BOOLEAN
      BY <2>1
    <2>4. DOMAIN panel' = DOMAIN panel /\ panel'.loading \in BOOLEAN /\ panel'.saving \in BOOLEAN
      BY <2>1, <2>2, <2>3
    <2>5. asks' \in [Lanes -> Requests \cup {Nil}]
      BY <1>1, <2>1
    <2>6. \A b \in Lanes : asks'[b] # Nil => asks'[b] = asks[b]
      BY <1>1, <2>1
    <2>7. \A c \in Lanes : asks[c] # Nil =>
            /\ asks[c].what = "save" => asks[c].of \in DOMAIN Entries
            /\ asks[c].what = "delete" => asks[c].of \in Destinations
      BY DEF NotifyTyped, PanelTyped
    <2> QED
      BY <2>1, <2>4, <2>5, <2>6, <2>7 DEF PanelTyped
  <1>6. PanelTrue'
    BY <1>2 DEF PanelTrue
  <1> QED
    BY <1>2, <1>4, <1>5, <1>6 DEF NotifyTyped

\* Another client puts a row; the panel does not know of it.
LEMMA ByHandKeeps ==
  ASSUME NotifyInv, NEW k \in DOMAIN Entries, PutByHand(k)
  PROVE  NotifyInv'
  <1> USE DEF NotifyInv
  <1> PICK d, row, p : /\ d = Entries[k].id /\ row = parseDestination(Entries[k])
                       /\ p = FirstPut(d, notes).puts + 1
    OBVIOUS
  <1>1. /\ row # Nil /\ Upsert(d, row) /\ UNCHANGED <<workerVars, panel, asks>>
        /\ notes' = [FirstPut(d, notes) EXCEPT !.puts = p, !.disturbed = TRUE]
    BY DEF PutByHand
  <1>2. d \in Destinations /\ row \in RowsOf(d)
    BY <1>1, PutsARow
  <1>3. /\ NotesTyped' /\ notes'.adrift = notes.adrift /\ notes'.disturbed
        /\ notes'.before = [notes.before EXCEPT ![d] = IF @ = Nil THEN happened ELSE @]
    <2>1. NotesTyped /\ happened \in Nat /\ TRUE \in BOOLEAN
      BY DEF NotifyTyped, WorkerTyped
    <2> HIDE DEF NotifyInv
    <2> QED
      BY <1>1, <1>2, <2>1, FirstPutTyped
  <1>4. PlacesTrue' /\ LaterPuts
    BY <1>1, <1>2, <1>3, StoreKeeps
  <1>5. LettersTyped' /\ WorkerTyped' /\ WorkerTrue'
    BY <1>1, <1>3, <1>4, WorkerStays DEF Upsert
  <1>6. PanelTyped' /\ PanelTrue'
    BY <1>1, <1>3, TypesKept DEF PanelTrue
  <1> QED
    BY <1>3, <1>5, <1>6 DEF NotifyTyped

LEMMA NotifyStarts == NotifyInit => NotifyInv
  <1> SUFFICES ASSUME NotifyInit PROVE NotifyInv
    OBVIOUS
  <1>1. /\ places = [d \in Destinations |-> IF destinations[d] = Nil THEN Nil ELSE 0]
        /\ letters = <<>> /\ happened = 0 /\ ticking = FALSE
        /\ ticks = [s \in Lanes |-> NoTick] /\ posted = <<>> /\ lostPosts = <<>>
        /\ panel = [list |-> destinations, loading |-> FALSE, saving |-> FALSE, testing |-> {}]
        /\ asks = [a \in Lanes |-> Nil]
        /\ notes = [puts |-> 0, mishaps |-> 0, adrift |-> FALSE, disturbed |-> FALSE,
                    before |-> [d \in Destinations |-> IF destinations[d] = Nil THEN Nil ELSE 0]]
    BY DEF NotifyInit
  <1>2. ASSUME NEW d \in Destinations
        PROVE  destinations[d] \in RowsOf(d) \cup {Nil}
    <2>1. destinations[d] = IF \E k \in Stored: Entries[k].id = d
                              THEN parseDestination(Entries[CHOOSE k \in Stored: Entries[k].id = d])
                              ELSE Nil
      BY DEF NotifyInit
    <2>2. CASE \E k \in Stored: Entries[k].id = d
      <3> PICK k : k = CHOOSE key \in Stored: Entries[key].id = d
        OBVIOUS
      <3>1. k \in Stored /\ Entries[k].id = d
        BY <2>2
      <3>2. k \in DOMAIN Entries /\ destinations[d] = parseDestination(Entries[k])
        BY <2>1, <2>2, <3>1, NotificationsAssumption
      <3> QED
        BY <3>1, <3>2 DEF RowsOf
    <2>3. CASE ~\E k \in Stored: Entries[k].id = d
      BY <2>1, <2>3
    <2> QED
      BY <2>2, <2>3
  <1>3. destinations \in Listings
    <2>1. destinations = [d \in Destinations |-> destinations[d]]
      <3> PICK T : T = [d \in Destinations |->
                          IF \E k \in Stored: Entries[k].id = d
                            THEN parseDestination(Entries[CHOOSE k \in Stored: Entries[k].id = d])
                            ELSE Nil]
        OBVIOUS
      <3>1. destinations = T /\ DOMAIN T = Destinations
        BY DEF NotifyInit
      <3>2. T = [d \in Destinations |-> T[d]]
        OBVIOUS
      <3> QED
        BY <3>1, <3>2
    <2> QED
      BY <1>2, <2>1 DEF Listings, RowsOf
  <1>4. /\ NoTick \in Ticks /\ NoTick.left = {} /\ NoTick.asking = {} /\ NoTick.at = "off"
        /\ \A d \in Destinations : NoTick.groups[d] = <<>> /\ NoTick.known[d] = Nil
    BY DEF NoTick, Ticks, Listings
  <1>5. NotesTyped /\ PanelTyped
    BY <1>1 DEF NotesTyped, PanelTyped
  <1>6. LettersTyped
    <2>1. <<>> \in Seq(Letters) /\ <<>> \in Seq(Int) /\ Len(<<>>) = 0
      OBVIOUS
    <2> QED
      BY <1>1, <2>1 DEF LettersTyped
  <1>7. WorkerTyped
    BY <1>1, <1>4 DEF WorkerTyped
  <1>8. PlacesTrue
    <2>1. ASSUME NEW d \in Destinations
          PROVE  /\ notes.before[d] = places[d] /\ places[d] \in {Nil, 0}
                 /\ destinations[d] # Nil => notes.before[d] # Nil
      <3>1. places[d] = IF destinations[d] = Nil THEN Nil ELSE 0
        BY <1>1
      <3>2. notes.before[d] = IF destinations[d] = Nil THEN Nil ELSE 0
        BY <1>1
      <3>3. 0 # Nil
        BY NotificationsAssumption
      <3> QED
        BY <3>1, <3>2, <3>3
    <2> QED
      BY <1>1, <1>2, <1>3, <2>1 DEF PlacesTrue
  <1>9. \A s \in Lanes : ticks[s] = NoTick
    BY <1>1
  <1>10. TicksTrue
    <2>1. ASSUME NEW s \in Lanes, NEW d \in Destinations
          PROVE  TickTrue(s, d)
      <3>1. ticks[s].groups[d] = <<>> /\ ticks[s].asking = {} /\ ticks[s].left = {}
            /\ ticks[s].known[d] = Nil
        BY <1>4, <1>9
      <3>2. DOMAIN ticks[s].groups[d] = {}
        BY <3>1
      <3> QED
        BY <3>1, <3>2 DEF TickTrue
    <2> QED
      BY <2>1 DEF TicksTrue
  <1>11. OneTick
    <2>2. \A s \in Lanes, d \in Destinations : ticks[s].groups[d] = <<>>
      BY <1>4, <1>9
    <2>3. DOMAIN <<>> = {}
      OBVIOUS
    <2>1. \A s \in Lanes, d \in Destinations : DOMAIN ticks[s].groups[d] = {}
      BY <2>2, <2>3
    <2>4. \A s \in Lanes : ticks[s].at = "off"
      BY <1>4, <1>9
    <2> QED
      BY <2>1, <2>4 DEF OneTick
  <1>12. PostsTrue /\ LettersTrue
    <2>1. DOMAIN letters = {}
      BY <1>1
    <2> QED
      BY <2>1 DEF PostsTrue, LettersTrue
  <1>13. PanelTrue
    BY <1>1 DEF PanelTrue
  <1> QED
    BY <1>5, <1>6, <1>7, <1>8, <1>10, <1>11, <1>12, <1>13
       DEF NotifyInv, NotifyTyped, WorkerTrue

LEMMA NotifySteps ==
  ASSUME NotifyInv, [NotifyNext]_notifyVars
  PROVE  NotifyInv'
  <1>1. ASSUME NEW s \in Lanes, StartNotifyTick(s) PROVE NotifyInv'
    BY <1>1, StartTickKeeps
  <1>2. ASSUME NEW s \in Lanes, ClaimLetters(s) PROVE NotifyInv'
    BY <1>2, ClaimKeeps
  <1>3. ASSUME NEW s \in Lanes, EndNotifyTick(s) PROVE NotifyInv'
    BY <1>3, EndTickKeeps
  <1>4. ASSUME NEW s \in Lanes, NEW d \in Destinations, StartPlace(s, d) PROVE NotifyInv'
    BY <1>4, StartPlaceKeeps
  <1>5. ASSUME NEW s \in Lanes, NEW d \in Destinations, enqueueNew(s, d) PROVE NotifyInv'
    BY <1>5, EnqueueKeeps
  <1>6. ASSUME NEW s \in Lanes, NEW d \in Destinations, attempt(s, d) PROVE NotifyInv'
    BY <1>6, AttemptKeeps
  <1>7. ASSUME NEW s \in Lanes, NEW d \in Destinations, dispatchOne(s, d) PROVE NotifyInv'
    BY <1>7, DispatchKeeps
  <1>8. ASSUME NEW s \in Lanes, NEW d \in Destinations, RecordFails(s, d) PROVE NotifyInv'
    BY <1>8, FailKeeps
  <1>9. CASE WorkerRestarts
    BY <1>9, RestartKeeps
  <1>10. CASE NextEvent
    BY <1>10, NextEventKeeps
  <1>11. ASSUME NEW i \in DOMAIN letters, RetryDue(i) PROVE NotifyInv'
    BY <1>11, RetryKeeps
  <1>12. ASSUME NEW a \in Lanes, Route(a) PROVE NotifyInv'
    BY <1>12, RouteKeeps
  <1>13. ASSUME NEW a \in Lanes, refresh(a) PROVE NotifyInv'
    BY <1>13, RefreshKeeps
  <1>14. ASSUME NEW a \in Lanes, AnswerLost(a) PROVE NotifyInv'
    BY <1>14, LostKeeps
  <1>15. ASSUME NEW k \in DOMAIN Entries, handleSave(k) PROVE NotifyInv'
    BY <1>15, SaveKeeps
  <1>16. ASSUME NEW k \in DOMAIN Entries, PutByHand(k) PROVE NotifyInv'
    BY <1>16, ByHandKeeps
  <1>17. ASSUME NEW d \in Destinations, handleDelete(d) PROVE NotifyInv'
    BY <1>17, DeleteKeeps
  <1>18. ASSUME NEW d \in Destinations, handleTest(d) PROVE NotifyInv'
    BY <1>18, TestKeeps
  <1>19. CASE UNCHANGED notifyVars
    <2>1. UNCHANGED <<destinations, places, letters, happened, workerVars, panel, asks, notes>>
      BY <1>19 DEF notifyVars, serverVars
    <2>2. NotesTyped' /\ PanelTyped'
      BY <2>1, TypesKept DEF NotifyInv
    <2>3. PanelTrue' /\ PlacesTrue' /\ LaterPuts
      BY <2>1, PanelKept, PlacesKept DEF LaterPuts
    <2>4. LettersTyped' /\ WorkerTyped' /\ WorkerTrue'
      BY <2>1, <2>2, <2>3, WorkerStays
    <2> QED
      BY <2>2, <2>3, <2>4 DEF NotifyInv, NotifyTyped
  <1> QED
    BY <1>1, <1>2, <1>3, <1>4, <1>5, <1>6, <1>7, <1>8, <1>9, <1>10, <1>11, <1>12, <1>13,
       <1>14, <1>15, <1>16, <1>17, <1>18, <1>19 DEF NotifyNext

(* Whatever is saved, deleted, restarted or retried, in any order: a letter's       *)
(* attempts account for its requests until an outcome cannot be recorded, no         *)
(* destination gets an event twice, from before it was put, or skips one, and a     *)
(* panel that nothing disturbed shows the table (notifications.js:262-371,           *)
(* NotificationDestinationsPanel.tsx:45-113).                                       *)
THEOREM NotificationsTrue == NotifySpec => []NotificationsSound
  <1>1. NotifyInit => NotifyInv
    BY NotifyStarts
  <1>2. NotifyInv /\ [NotifyNext]_notifyVars => NotifyInv'
    BY NotifySteps
  <1>3. NotifyInv => NotificationsSound
    BY NotifyInvSound
  <1> QED
    BY <1>1, <1>2, <1>3, PTL DEF NotifySpec

-----------------------------------------------------------------------------
(* The file indexer *)

SnapshotType == [ledger: Nat, counted: SUBSET DOMAIN Published]

FileTyped ==
  /\ height \in Nat \ {0} /\ setting \in StartSettings
  /\ process \in {"down", "asking", "fetching"} /\ resume \in Nat
  /\ since \in Nat \cup {None} /\ cut \in BOOLEAN
  /\ DOMAIN file = {"checkpoint", "events", "proposals", "counted", "snapshots"}
  /\ file.checkpoint \in Nat /\ file.events \in SUBSET DOMAIN Published
  /\ file.snapshots \in Seq(SnapshotType)

\* A run fetches from behind the checkpoint, and what is filed lies before it.
FetchesBehind ==
  /\ process # "down" /\ file.checkpoint > 0 => resume = file.checkpoint + 1
  /\ since = None => file.checkpoint = 0
  /\ since # None => file.checkpoint > 0 /\ since <= file.checkpoint
  /\ file.checkpoint = 0 => file.events = {} /\ file.snapshots = << >>
  /\ \A i \in file.events : Published[i].ledger <= file.checkpoint
  /\ ~cut /\ since # None =>
       file.events = {i \in DOMAIN Published : Published[i].ledger \in since..file.checkpoint}

\* What the file cannot hold never was in it.
NothingWide ==
  /\ \A i \in file.events : ~Published[i].wide
  /\ file.proposals = {} /\ file.counted = {}

SnapshotsTrue ==
  \A k \in DOMAIN file.snapshots :
    /\ file.snapshots[k].ledger <= file.checkpoint
    /\ file.snapshots[k].counted = {}
    /\ k > 1 => file.snapshots[k].ledger >= file.snapshots[k - 1].ledger + SnapshotEvery

FileInv == FileTyped /\ FetchesBehind /\ NothingWide /\ SnapshotsTrue

LEMMA FileInitInv == FileInit => FileInv
  <1> SUFFICES ASSUME FileInit PROVE FileInv
    OBVIOUS
  <1>1. /\ height = 1 /\ setting \in StartSettings /\ file = EmptyStore /\ process = "down"
        /\ resume = 0 /\ since = None /\ cut = FALSE
    BY DEF FileInit
  <1>2. /\ file.checkpoint = 0 /\ file.events = {} /\ file.snapshots = << >>
        /\ file.proposals = {} /\ file.counted = {}
        /\ DOMAIN file = {"checkpoint", "events", "proposals", "counted", "snapshots"}
    BY <1>1 DEF EmptyStore
  <1>3. FileTyped
    <2>1. file.snapshots \in Seq(SnapshotType) /\ file.events \in SUBSET DOMAIN Published
      BY <1>2
    <2>2. cut \in BOOLEAN
      BY <1>1, Zenon
    <2>3. height \in Nat \ {0} /\ resume \in Nat /\ file.checkpoint \in Nat
      BY <1>1, <1>2
    <2>4. process \in {"down", "asking", "fetching"} /\ since \in Nat \cup {None}
      BY <1>1, Zenon
    <2> QED
      BY ONLY <1>1, <1>2, <2>1, <2>2, <2>3, <2>4 DEF FileTyped
  <1>4. FetchesBehind
    BY <1>1, <1>2 DEF FetchesBehind
  <1>5. NothingWide
    BY <1>2 DEF NothingWide
  <1>6. SnapshotsTrue
    <2>1. DOMAIN file.snapshots = {}
      BY <1>2
    <2> QED
      BY <2>1 DEF SnapshotsTrue
  <1> QED
    BY <1>3, <1>4, <1>5, <1>6 DEF FileInv

\* A step that leaves the file.
LEMMA FileStays ==
  ASSUME FileInv, UNCHANGED <<setting, file, since, cut>>, height' \in Nat \ {0},
         process' \in {"down", "asking", "fetching"}, resume' \in Nat,
         process' # "down" /\ file.checkpoint > 0 => resume' = file.checkpoint + 1
  PROVE  FileInv'
  <1>1. FileTyped'
    BY DEF FileInv, FileTyped
  <1>2. FetchesBehind'
    BY DEF FileInv, FetchesBehind
  <1>3. NothingWide'
    BY DEF FileInv, NothingWide
  <1>4. SnapshotsTrue'
    BY DEF FileInv, SnapshotsTrue
  <1> QED
    BY <1>1, <1>2, <1>3, <1>4 DEF FileInv

\* A page that can be written has no event with a number or an amount.
LEMMA NarrowPage ==
  ASSUME NEW page \in SUBSET DOMAIN Published, NEW store,
         \A i \in page : ~Published[i].wide, store.counted = {}
  PROVE  applyEventToProposals(page, {}) = {} /\ applyEventToBalances(page, store) = {}
  <1>1. \A i \in page : Published[i].number = None /\ Published[i].spends # TRUE
    BY FileIndexerAssumption
  <1>2. applyEventToProposals(page, {}) = {}
    BY <1>1 DEF applyEventToProposals
  <1>3. applyEventToBalances(page, store) = {}
    BY <1>1 DEF applyEventToBalances
  <1> QED
    BY <1>2, <1>3

LEMMA FetchPageKeeps ==
  ASSUME FileInv, FetchPage
  PROVE  FileInv'
  <1>p. PICK store, page : store = file /\ page = NodePage
    OBVIOUS
  <1>q. PICK cp : cp = NextCheckpoint(resume, height)
    OBVIOUS
  <1>1. /\ process = "fetching" /\ resume <= height
        /\ file' = [persistBalanceSnapshot(Ingest(page, store), cp) EXCEPT !.checkpoint = cp]
        /\ Serializable(file') /\ resume' = file'.checkpoint + 1 /\ process' \in {"down", "asking"}
        /\ since' = IF since = None THEN resume ELSE since
        /\ cut' = (cut \/ page # InReach)
        /\ UNCHANGED <<height, setting>>
    BY <1>p, <1>q DEF FetchPage, WithPage
  <1>2. /\ height \in Nat \ {0} /\ resume \in Nat /\ store.checkpoint \in Nat
        /\ since \in Nat \cup {None} /\ cut \in BOOLEAN
        /\ store.events \in SUBSET DOMAIN Published
        /\ store.proposals = {} /\ store.counted = {}
        /\ store.snapshots \in Seq(SnapshotType)
        /\ DOMAIN store = {"checkpoint", "events", "proposals", "counted", "snapshots"}
    BY <1>p DEF FileInv, FileTyped, NothingWide
  <1>3. cp = height
    BY <1>1, <1>2, <1>q DEF NextCheckpoint, Later
  <1>4. store.checkpoint = 0 \/ resume = store.checkpoint + 1
    BY <1>1, <1>2, <1>p DEF FileInv, FetchesBehind
  <1>5. /\ page \in SUBSET DOMAIN Published
        /\ \A i \in page : Published[i].ledger >= resume /\ Published[i].ledger <= height
        /\ page = InReach => page = {i \in DOMAIN Published : Published[i].ledger \in resume..height}
    BY <1>2, <1>p DEF NodePage, InReach
  <1>6. /\ since = None => store.checkpoint = 0
        /\ since # None => store.checkpoint > 0 /\ since <= store.checkpoint
        /\ store.checkpoint = 0 => store.events = {} /\ store.snapshots = << >>
        /\ \A i \in store.events : Published[i].ledger <= store.checkpoint
        /\ ~cut /\ since # None =>
             store.events = {i \in DOMAIN Published : Published[i].ledger \in since..store.checkpoint}
    BY <1>p DEF FileInv, FetchesBehind
  <1>7. \A i \in DOMAIN Published : Published[i].ledger \in Nat
    <2>1. Published \in Seq(Events)
      BY FileIndexerAssumption
    <2>2. \A i \in DOMAIN Published : Published[i] \in Events
      BY ONLY <2>1, ElementOfSeq
    <2> QED
      BY ONLY <2>2 DEF Events
  <1> PICK taken : taken = Ingest(page, store)
    OBVIOUS
  <1>10. /\ DOMAIN taken = {"checkpoint", "events", "proposals", "counted", "snapshots"}
         /\ taken.checkpoint = store.checkpoint /\ taken.events = store.events \cup page
         /\ taken.proposals = applyEventToProposals(page, {})
         /\ taken.counted = applyEventToBalances(page, store)
         /\ taken.snapshots = store.snapshots
    BY <1>2 DEF Ingest
  <1> PICK past, new : past = store.snapshots /\ new = [ledger |-> cp, counted |-> taken.counted]
    OBVIOUS
  <1>11. PICK snapshots :
           /\ file'.snapshots = snapshots
           /\ \/ snapshots = past
              \/ /\ snapshots = Append(past, new)
                 /\ past = << >> \/ ~(cp - past[Len(past)].ledger < SnapshotEvery)
           /\ DOMAIN file' = {"checkpoint", "events", "proposals", "counted", "snapshots"}
           /\ file'.checkpoint = cp /\ file'.events = store.events \cup page
           /\ file'.proposals = taken.proposals /\ file'.counted = taken.counted
    <2>1. file' = [persistBalanceSnapshot(taken, cp) EXCEPT !.checkpoint = cp]
      BY <1>1
    <2>2. CASE past # << >> /\ cp - past[Len(past)].ledger < SnapshotEvery
      <3>1. persistBalanceSnapshot(taken, cp) = taken
        BY <1>10, <2>2 DEF persistBalanceSnapshot
      <3> QED
        BY <1>10, <2>1, <3>1
    <2>3. CASE past = << >> \/ ~(cp - past[Len(past)].ledger < SnapshotEvery)
      <3>1. persistBalanceSnapshot(taken, cp) = [taken EXCEPT !.snapshots = Append(past, new)]
        BY <1>10, <2>3 DEF persistBalanceSnapshot
      <3> QED
        BY <1>10, <2>1, <2>3, <3>1
    <2> QED
      BY <2>2, <2>3
  <1>9. /\ \A i \in store.events \cup page : ~Published[i].wide
        /\ taken.proposals = {} /\ taken.counted = {}
    <2>1. \A i \in store.events \cup page : ~Published[i].wide
      BY <1>1, <1>11 DEF Serializable
    <2> QED
      BY <1>2, <1>5, <1>10, <2>1, NarrowPage
  <1>12. /\ past \in Seq(SnapshotType) /\ new \in SnapshotType
         /\ DOMAIN past = 1..Len(past) /\ Len(past) \in Nat
         /\ \A k \in DOMAIN past : past[k].ledger \in Nat
    <2>1. past \in Seq(SnapshotType) /\ new \in SnapshotType
      BY <1>2, <1>3, <1>9 DEF SnapshotType
    <2>3. DOMAIN past = 1..Len(past) /\ Len(past) \in Nat
      BY ONLY <2>1
    <2>2. \A k \in DOMAIN past : past[k] \in SnapshotType
      BY ONLY <2>1, <2>3, ElementOfSeq
    <2>4. \A k \in DOMAIN past : past[k].ledger \in Nat
      BY <2>2 DEF SnapshotType
    <2> QED
      BY <2>1, <2>3, <2>4
  <1>13. /\ snapshots \in Seq(SnapshotType)
         /\ \A k \in DOMAIN snapshots :
              \/ k \in DOMAIN past /\ snapshots[k] = past[k]
              \/ /\ k = Len(past) + 1 /\ snapshots[k] = new
                 /\ past = << >> \/ ~(cp - past[Len(past)].ledger < SnapshotEvery)
    <2>1. CASE snapshots = past
      BY <1>12, <2>1
    <2>2. CASE snapshots # past
      <3>1. /\ snapshots = Append(past, new)
            /\ past = << >> \/ ~(cp - past[Len(past)].ledger < SnapshotEvery)
        BY <1>11, <2>2
      <3>2. /\ snapshots \in Seq(SnapshotType)
            /\ DOMAIN snapshots = 1..Len(past) + 1
            /\ \A k \in 1..Len(past) + 1 :
                 snapshots[k] = IF k <= Len(past) THEN past[k] ELSE new
        BY ONLY <1>12, <3>1, AppendProperties
      <3>5. Len(past) \in Nat /\ DOMAIN past = 1..Len(past)
        BY <1>12
      <3>3. \A k \in 1..Len(past) + 1 : k \in 1..Len(past) \/ (k = Len(past) + 1 /\ ~(k <= Len(past)))
        BY ONLY <3>5
      <3>4. \A k \in 1..Len(past) : k <= Len(past)
        BY ONLY <3>5
      <3> QED
        BY ONLY <3>1, <3>2, <3>3, <3>4, <3>5
    <2> QED
      BY <2>1, <2>2
  <1>14. FileTyped'
    <2>1. since' \in Nat \cup {None} /\ cut' \in BOOLEAN /\ cp \in Nat /\ resume' \in Nat
      BY <1>1, <1>2, <1>3, <1>11
    <2>2. file'.events \in SUBSET DOMAIN Published
      BY <1>2, <1>5, <1>11
    <2>3. setting \in StartSettings
      BY DEF FileInv, FileTyped
    <2> QED
      BY <1>1, <1>2, <1>9, <1>11, <1>13, <2>1, <2>2, <2>3 DEF FileTyped
  <1>15. FetchesBehind'
    <2>1. cp > 0 /\ file'.checkpoint = cp /\ file'.events = store.events \cup page /\ since' # None
      <3>1. since' \in Nat
        BY <1>1, <1>2
      <3> QED
        BY <1>2, <1>3, <1>11, <3>1, FileIndexerAssumption
    <2>2. since' <= cp
      BY <1>1, <1>2, <1>3, <1>4, <1>6
    <2>3. \A i \in store.events \cup page : Published[i].ledger <= cp
      <3>1. store.events # {} => store.checkpoint <= cp
        BY <1>1, <1>2, <1>3, <1>4, <1>6
      <3> QED
        BY <1>2, <1>3, <1>5, <1>6, <1>7, <3>1
    <2>4. ~cut' => store.events \cup page = {i \in DOMAIN Published : Published[i].ledger \in since'..cp}
      <3>1. SUFFICES ASSUME ~cut'
                     PROVE  store.events \cup page =
                              {i \in DOMAIN Published : Published[i].ledger \in since'..cp}
        OBVIOUS
      <3>2. ~cut /\ page = {i \in DOMAIN Published : Published[i].ledger \in resume..height}
        BY <1>1, <1>5, <3>1
      <3>3. CASE since = None
        BY <1>1, <1>3, <1>6, <3>2, <3>3
      <3>4. CASE since # None
        <4>1. since \in Nat /\ since <= store.checkpoint /\ resume = store.checkpoint + 1 /\ since' = since
          BY <1>1, <1>2, <1>4, <1>6, <3>4
        <4>2. store.events = {i \in DOMAIN Published : Published[i].ledger \in since..store.checkpoint}
          BY <1>6, <3>2, <3>4
        <4> QED
          BY ONLY <1>1, <1>2, <1>3, <1>7, <3>2, <4>1, <4>2
      <3> QED
        BY <3>3, <3>4
    <2> QED
      BY <1>1, <1>11, <2>1, <2>2, <2>3, <2>4 DEF FetchesBehind
  <1>16. SnapshotsTrue'
    <2>1. \A k \in DOMAIN past :
            /\ past[k].ledger <= store.checkpoint
            /\ past[k].counted = {}
            /\ k > 1 => past[k].ledger >= past[k - 1].ledger + SnapshotEvery
      BY <1>p DEF FileInv, SnapshotsTrue
    <2>2. ASSUME NEW k \in DOMAIN snapshots
          PROVE  /\ snapshots[k].ledger <= cp
                 /\ snapshots[k].counted = {}
                 /\ k > 1 => snapshots[k].ledger >= snapshots[k - 1].ledger + SnapshotEvery
      <3>1. CASE k \in DOMAIN past /\ snapshots[k] = past[k]
        <4>1. store.checkpoint # 0
          BY <1>6, <1>12, <3>1
        <4>3. past[k].ledger <= cp
          <5>1. past[k].ledger <= store.checkpoint /\ past[k].ledger \in Nat
            BY <1>12, <2>1, <3>1
          <5>2. store.checkpoint \in Nat /\ cp \in Nat /\ store.checkpoint <= cp
            BY <1>1, <1>2, <1>3, <1>4, <4>1
          <5> QED
            BY ONLY <5>1, <5>2
        <4>4. k > 1 => k - 1 \in DOMAIN past /\ snapshots[k - 1] = past[k - 1]
          <5>1. k > 1 => k - 1 \in DOMAIN past
            BY ONLY <1>12, <3>1
          <5>2. snapshots = past \/ snapshots = Append(past, new)
            BY <1>11
          <5>3. k - 1 \in DOMAIN past => Append(past, new)[k - 1] = past[k - 1]
            BY ONLY <1>12, AppendProperties
          <5> QED
            BY ONLY <5>1, <5>2, <5>3
        <4> QED
          BY <2>1, <3>1, <4>3, <4>4
      <3>2. CASE /\ k = Len(past) + 1 /\ snapshots[k] = new
                 /\ past = << >> \/ ~(cp - past[Len(past)].ledger < SnapshotEvery)
        <4>1. snapshots[k].ledger = cp /\ snapshots[k].counted = {}
          BY <1>9, <3>2
        <4>3. k > 1 => snapshots[k].ledger >= snapshots[k - 1].ledger + SnapshotEvery
          <5>1. SUFFICES ASSUME k > 1 PROVE cp >= snapshots[Len(past)].ledger + SnapshotEvery
            BY <1>12, <3>2, <4>1
          <5>2. Len(past) \in DOMAIN past /\ past # << >>
            BY <1>12, <3>2, <5>1
          <5>3. snapshots = Append(past, new)
            BY <1>11, <1>12, <2>2, <3>2
          <5>4. snapshots[Len(past)] = past[Len(past)]
            BY <1>12, <5>2, <5>3, AppendProperties
          <5>5. past[Len(past)].ledger \in Nat /\ SnapshotEvery \in Nat /\ cp \in Nat
            BY <1>2, <1>3, <1>12, <5>2, FileIndexerAssumption
          <5>6. ~(cp - past[Len(past)].ledger < SnapshotEvery)
            BY <3>2, <5>2
          <5> QED
            BY ONLY <5>4, <5>5, <5>6
        <4>4. snapshots[k].ledger <= cp
          BY <1>2, <1>3, <4>1
        <4> QED
          BY ONLY <4>1, <4>3, <4>4
      <3> QED
        BY <1>13, <3>1, <3>2
    <2> QED
      BY <1>11, <2>2 DEF SnapshotsTrue
  <1>17. NothingWide'
    BY <1>9, <1>11 DEF NothingWide
  <1> QED
    BY <1>14, <1>15, <1>16, <1>17 DEF FileInv

LEMMA FileStepInv == FileInv /\ [FileNext]_fileVars => FileInv'
  <1> SUFFICES ASSUME FileInv, [FileNext]_fileVars PROVE FileInv'
    OBVIOUS
  <1>0. /\ height \in Nat \ {0} /\ resume \in Nat /\ file.checkpoint \in Nat
        /\ process \in {"down", "asking", "fetching"} /\ setting \in StartSettings
        /\ process # "down" /\ file.checkpoint > 0 => resume = file.checkpoint + 1
    BY DEF FileInv, FileTyped, FetchesBehind
  <1>1. CASE UNCHANGED fileVars
    BY <1>0, <1>1, FileStays DEF fileVars
  <1>2. CASE CloseNextLedger
    BY <1>0, <1>2, FileStays DEF CloseNextLedger
  <1>3. ASSUME NEW single \in BOOLEAN, StartRun(single)
        PROVE  FileInv'
    <2>1. resume' \in IF file.checkpoint > 0 THEN {file.checkpoint + 1}
                      ELSE IF setting # None THEN {setting} ELSE {Later(1, height - Lookback), 1}
      BY <1>3 DEF StartRun
    <2>2. Lookback \in Nat /\ StartSettings \ {None} \subseteq Nat
      BY FileIndexerAssumption
    <2>3. Later(1, height - Lookback) \in Nat
      BY <1>0, <2>2 DEF Later
    <2>4. resume' \in Nat /\ (file.checkpoint > 0 => resume' = file.checkpoint + 1)
      BY <1>0, <2>1, <2>2, <2>3
    <2> QED
      BY <1>0, <1>3, <2>4, FileStays DEF StartRun
  <1>4. CASE AskNewest
    BY <1>0, <1>4, FileStays DEF AskNewest
  <1>5. CASE FetchPage
    BY <1>5, FetchPageKeeps
  <1>6. CASE FetchPageFails
    BY <1>0, <1>6, FileStays DEF FetchPageFails
  <1>7. CASE Killed
    BY <1>0, <1>7, FileStays DEF Killed
  <1>8. CASE SaveThrows
    BY <1>0, <1>8, FileStays DEF SaveThrows
  <1> QED
    BY <1>1, <1>2, <1>3, <1>4, <1>5, <1>6, <1>7, <1>8 DEF FileNext

LEMMA FileInvImplies == FileInv => FileOfOnePiece
  BY DEF FileInv, FetchesBehind, NothingWide, SnapshotsTrue, FileOfOnePiece

(* Whatever stops the indexer and whenever it is started again, its file is *)
(* of one piece, and nothing in it is of a proposal, a payment or an        *)
(* amount, for every history of the contract, every size of the node's      *)
(* pages and every spacing of the snapshots (scripts/indexer.js:231-245,    *)
(* 299-545).                                                                *)
THEOREM FileStaysWhole == FileSpec => []FileOfOnePiece
  <1>1. FileInit => FileInv
    BY FileInitInv
  <1>2. FileInv /\ [FileNext]_fileVars => FileInv'
    BY FileStepInv
  <1>3. FileInv => FileOfOnePiece
    BY FileInvImplies
  <1> QED
    BY <1>1, <1>2, <1>3, PTL DEF FileSpec

-----------------------------------------------------------------------------
(* The schema of the store, while several processes start *)

OpenerStates == {"down", "locked", "running", "begun", "refused", "open", "looking", "adding",
                 "indexing", "failed"}
Opener  == [at : OpenerStates, next : Nat, known : Seq(STRING)]
Holding == {"locked", "running", "begun"}

SchemaTyped ==
  /\ openers \in [DOMAIN Images -> Opener]
  /\ schema \in [tables : BOOLEAN, columns : SUBSET Columns, indexes : SUBSET {2, 3},
                 applied : Seq(STRING), ran : Seq(Nat), lock : DOMAIN Images \union {Null}]
  /\ Len(schema.ran) = Len(schema.applied)
  /\ \A n \in 1..Len(schema.ran) : schema.ran[n] = n

\* Two lists of migrations begin with the same n.
Agree(s, t, n) == n <= Len(s) /\ n <= Len(t) /\ \A i \in 1..n : s[i] = t[i]

\* Who is at work holds the lock, knows what was applied before it came, and has compared
\* or applied its own migrations up to the next one.
AtMigration(o) ==
  LET n == openers[o].next
      had == openers[o].known
  IN  /\ n >= 1 /\ n <= Len(Image(o)) + 1
      /\ Agree(had, schema.applied, Len(had)) /\ Agree(schema.applied, Image(o), n - 1)
      /\ Len(schema.applied) \in {Len(had), n - 1}
MigrationInv ==
  area # "columns" =>
    \A o \in DOMAIN Images :
      /\ openers[o].at \in Holding <=> schema.lock = o
      /\ openers[o].at \in {"running", "begun"} => AtMigration(o)
      /\ openers[o].at = "begun" => /\ openers[o].next > Len(openers[o].known)
                                    /\ openers[o].next <= Len(Image(o))
      /\ openers[o].at = "open" => Agree(schema.applied, Image(o), Len(Image(o)))

\* Whoever works on the columns has left none behind.
AtColumn(o) ==
  LET n == openers[o].next
  IN  /\ openers[o].at \in {"looking", "adding", "indexing"} =>
           n \in Columns /\ \A m \in 1..(n - 1) : m \in schema.columns /\ (m > 1 => m \in schema.indexes)
      /\ openers[o].at = "indexing" => n \in schema.columns
      /\ openers[o].at = "open" => schema.columns = Columns /\ schema.indexes = {2, 3}
ColumnInv ==
  area = "columns" =>
    /\ schema.lock = Null /\ \A o \in DOMAIN Images : openers[o].at \notin Holding /\ AtColumn(o)
    /\ ~schema.tables => schema.columns = {} /\ \A o \in DOMAIN Images : openers[o].at = "down"

SchemaInv == SchemaTyped /\ MigrationInv /\ ColumnInv

LEMMA SchemaStarts == BackendsInit => SchemaInv
  <1> SUFFICES ASSUME BackendsInit PROVE SchemaInv
    OBVIOUS
  <1>1. /\ schema \in [tables : BOOLEAN, columns : {{}, {1}}, indexes : {{}}, applied : {<< >>},
                       ran : {<< >>}, lock : {Null}]
        /\ schema.columns # {} => schema.tables
        /\ openers = [o \in DOMAIN Images |-> [at |-> "down", next |-> 1, known |-> << >>]]
        /\ Null \notin DOMAIN Images
    BY BackendsAssumption DEF BackendsInit
  <1>2. << >> \in Seq(STRING) /\ << >> \in Seq(Nat) /\ Len(<< >>) = 0
    OBVIOUS
  <1>3. openers \in [DOMAIN Images -> Opener]
    <2>1. [at |-> "down", next |-> 1, known |-> << >>] \in Opener
      BY <1>2 DEF Opener, OpenerStates
    <2> QED
      BY <1>1, <2>1
  <1>4. SchemaTyped
    <2>1. schema.applied = << >> /\ schema.ran = << >>
      BY <1>1
    <2>2. /\ {{}, {1}} \subseteq SUBSET Columns /\ {{}} \subseteq SUBSET {2, 3}
          /\ << >> \in Seq(STRING) /\ << >> \in Seq(Nat)
      BY <1>2 DEF Columns
    <2>3. schema \in [tables : BOOLEAN, columns : SUBSET Columns, indexes : SUBSET {2, 3},
                      applied : Seq(STRING), ran : Seq(Nat), lock : DOMAIN Images \union {Null}]
      BY <1>1, <2>2
    <2> QED
      BY <1>2, <1>3, <2>1, <2>3 DEF SchemaTyped
  <1>5. MigrationInv
    BY <1>1 DEF MigrationInv, Holding
  <1>6. ColumnInv
    BY <1>1 DEF ColumnInv, AtColumn, Holding
  <1> QED
    BY <1>4, <1>5, <1>6 DEF SchemaInv

LEMMA StandShape ==
  ASSUME SchemaTyped, NEW o \in DOMAIN Images, NEW at \in OpenerStates, NEW next \in Nat,
         NEW had \in Seq(STRING), Stand(o, at, next, had)
  PROVE  /\ openers' \in [DOMAIN Images -> Opener] /\ area' = area
         /\ openers'[o].at = at /\ openers'[o].next = next /\ openers'[o].known = had
         /\ \A q \in DOMAIN Images : q # o => openers'[q] = openers[q]
  BY DEF Stand, SchemaTyped, Opener

\* The lock of one that is done or dead is free.
LEMMA UnlockShape ==
  ASSUME SchemaTyped, NEW o \in DOMAIN Images, Unlock(o)
  PROVE  /\ schema' = [schema EXCEPT !.lock = IF schema.lock = o THEN Null ELSE schema.lock]
         /\ schema'.lock = (IF schema.lock = o THEN Null ELSE schema.lock)
         /\ schema'.applied = schema.applied /\ schema'.ran = schema.ran
         /\ schema'.columns = schema.columns /\ schema'.indexes = schema.indexes
         /\ schema'.tables = schema.tables
         /\ schema' \in [tables : BOOLEAN, columns : SUBSET Columns, indexes : SUBSET {2, 3},
                         applied : Seq(STRING), ran : Seq(Nat), lock : DOMAIN Images \union {Null}]
  BY DEF Unlock, SchemaTyped

\* One opener moves while nothing is applied; who holds the lock stays in charge of it.
LEMMA MoverKeeps ==
  ASSUME SchemaInv, area # "columns", area' = area, NEW o \in DOMAIN Images,
         SchemaTyped', schema'.applied = schema.applied,
         \A q \in DOMAIN Images : q # o => openers'[q] = openers[q],
         \A q \in DOMAIN Images : q # o => ((schema'.lock = q) <=> (schema.lock = q)),
         openers'[o].at \in Holding <=> schema'.lock = o,
         openers'[o].at \in {"running", "begun"} => AtMigration(o)',
         openers'[o].at = "begun" => /\ openers'[o].next > Len(openers'[o].known)
                                     /\ openers'[o].next <= Len(Image(o)),
         openers'[o].at = "open" => Agree(schema.applied, Image(o), Len(Image(o)))
  PROVE  SchemaInv'
  <1>1. ASSUME NEW q \in DOMAIN Images
        PROVE  /\ openers'[q].at \in Holding <=> schema'.lock = q
               /\ openers'[q].at \in {"running", "begun"} => AtMigration(q)'
               /\ openers'[q].at = "begun" => /\ openers'[q].next > Len(openers'[q].known)
                                              /\ openers'[q].next <= Len(Image(q))
               /\ openers'[q].at = "open" => Agree(schema'.applied, Image(q), Len(Image(q)))
    <2>1. CASE q = o
      BY <2>1
    <2>2. CASE q # o
      <3>1. openers'[q] = openers[q] /\ (schema'.lock = q <=> schema.lock = q)
        BY <2>2
      <3>2. /\ openers[q].at \in Holding <=> schema.lock = q
            /\ openers[q].at \in {"running", "begun"} => AtMigration(q)
            /\ openers[q].at = "begun" => /\ openers[q].next > Len(openers[q].known)
                                          /\ openers[q].next <= Len(Image(q))
            /\ openers[q].at = "open" => Agree(schema.applied, Image(q), Len(Image(q)))
        BY DEF SchemaInv, MigrationInv
      <3>3. AtMigration(q)' = AtMigration(q)
        BY <3>1 DEF AtMigration, Agree, Image
      <3> QED
        BY <3>1, <3>2, <3>3
    <2> QED
      BY <2>1, <2>2
  <1>2. MigrationInv'
    BY <1>1 DEF MigrationInv, Image
  <1>3. ColumnInv'
    BY DEF ColumnInv
  <1> QED
    BY <1>2, <1>3 DEF SchemaInv

LEMMA LockTaken ==
  ASSUME SchemaInv, area = "migrations", NEW o \in DOMAIN Images, TakeMigrationLock(o)
  PROVE  SchemaInv'
  <1>1. SchemaTyped /\ openers[o].at = "down" /\ schema.lock = Null
    BY DEF SchemaInv, TakeMigrationLock
  <1>2. "locked" \in OpenerStates /\ 1 \in Nat /\ << >> \in Seq(STRING)
    BY DEF OpenerStates
  <1>3. Stand(o, "locked", 1, << >>)
    BY DEF TakeMigrationLock
  <1>4. /\ openers' \in [DOMAIN Images -> Opener] /\ area' = area /\ openers'[o].at = "locked"
        /\ \A q \in DOMAIN Images : q # o => openers'[q] = openers[q]
    BY <1>1, <1>2, <1>3, StandShape
  <1>5. /\ schema' = [schema EXCEPT !.lock = o] /\ schema'.lock = o
        /\ schema'.applied = schema.applied
    BY <1>1 DEF TakeMigrationLock, SchemaTyped
  <1>6. SchemaTyped'
    BY <1>1, <1>4, <1>5 DEF SchemaTyped
  <1>7. \A q \in DOMAIN Images : q # o => ((schema'.lock = q) <=> (schema.lock = q))
    BY <1>1, <1>5, BackendsAssumption
  <1> QED
    BY <1>4, <1>5, <1>6, <1>7, MoverKeeps DEF Holding

LEMMA AppliedRead ==
  ASSUME SchemaInv, area = "migrations", NEW o \in DOMAIN Images, ReadApplied(o)
  PROVE  SchemaInv'
  <1>1. /\ SchemaTyped /\ openers[o].at = "locked" /\ schema' = schema
        /\ schema.applied \in Seq(STRING) /\ schema.lock = o
    BY DEF SchemaInv, SchemaTyped, MigrationInv, Holding, ReadApplied
  <1>2. "running" \in OpenerStates /\ 1 \in Nat
    BY DEF OpenerStates
  <1>3. Stand(o, "running", 1, schema.applied)
    BY DEF ReadApplied
  <1>4. /\ openers' \in [DOMAIN Images -> Opener] /\ area' = area /\ openers'[o].at = "running"
        /\ openers'[o].next = 1 /\ openers'[o].known = schema.applied
        /\ \A q \in DOMAIN Images : q # o => openers'[q] = openers[q]
    BY <1>1, <1>2, <1>3, StandShape
  <1>5. SchemaTyped'
    BY <1>1, <1>4 DEF SchemaTyped
  <1>6. AtMigration(o)'
    BY <1>1, <1>4, BackendsAssumption DEF AtMigration, Agree, Image
  <1> QED
    BY <1>1, <1>4, <1>5, <1>6, MoverKeeps DEF Holding

\* An opener leaves the work: it has nothing to keep up but what it leaves as, and its lock.
LEMMA LeaverKeeps ==
  ASSUME SchemaInv, area # "columns", NEW o \in DOMAIN Images, NEW at \in OpenerStates \ Holding,
         NEW next \in Nat, NEW had \in Seq(STRING), Stand(o, at, next, had), Unlock(o),
         at = "open" => Agree(schema.applied, Image(o), Len(Image(o)))
  PROVE  SchemaInv'
  <1>1. SchemaTyped
    BY DEF SchemaInv
  <1>2. /\ openers' \in [DOMAIN Images -> Opener] /\ area' = area /\ openers'[o].at = at
        /\ \A q \in DOMAIN Images : q # o => openers'[q] = openers[q]
    BY <1>1, StandShape
  <1>3. /\ schema'.lock = (IF schema.lock = o THEN Null ELSE schema.lock)
        /\ schema'.applied = schema.applied /\ SchemaTyped'
    BY <1>1, <1>2, UnlockShape DEF SchemaTyped
  <1>4. /\ schema'.lock # o
        /\ \A q \in DOMAIN Images : q # o => ((schema'.lock = q) <=> (schema.lock = q))
    BY <1>3, BackendsAssumption
  <1>5. at \notin Holding /\ at \notin {"running", "begun"} /\ at # "begun"
    BY DEF Holding
  <1> QED
    BY <1>2, <1>3, <1>4, <1>5, MoverKeeps

LEMMA MigrationLookedAt ==
  ASSUME SchemaInv, area = "migrations", NEW o \in DOMAIN Images, Migrate(o)
  PROVE  SchemaInv'
  <1> DEFINE n   == openers[o].next
             had == openers[o].known
  <1>1. /\ SchemaTyped /\ openers[o].at = "running" /\ n <= Len(Image(o)) /\ AtMigration(o)
        /\ schema.lock = o /\ n \in Nat /\ had \in Seq(STRING)
    BY DEF SchemaInv, MigrationInv, Holding, Migrate, SchemaTyped, Opener
  <1>2. {"begun", "running", "refused"} \subseteq OpenerStates
    BY DEF OpenerStates
  <1>3. /\ Image(o) \in Seq(STRING) /\ Len(Image(o)) \in Nat /\ Len(had) \in Nat
        /\ schema.applied \in Seq(STRING) /\ Len(schema.applied) \in Nat
    BY <1>1, BackendsAssumption DEF Image, SchemaTyped
  <1>4. CASE n > Len(had)
    <2>1. Stand(o, "begun", n, had) /\ schema' = schema
      BY <1>4 DEF Migrate
    <2>2. /\ openers' \in [DOMAIN Images -> Opener] /\ area' = area /\ openers'[o].at = "begun"
          /\ openers'[o].next = n /\ openers'[o].known = had
          /\ \A q \in DOMAIN Images : q # o => openers'[q] = openers[q]
      BY <1>1, <1>2, <2>1, StandShape
    <2>3. SchemaTyped'
      BY <1>1, <2>1, <2>2 DEF SchemaTyped
    <2>4. AtMigration(o)'
      BY <1>1, <2>1, <2>2 DEF AtMigration, Agree, Image
    <2> QED
      BY <1>1, <1>4, <2>1, <2>2, <2>3, <2>4, MoverKeeps DEF Holding
  <1>5. CASE ~(n > Len(had)) /\ had[n] = Image(o)[n]
    <2>1. Stand(o, "running", n + 1, had) /\ schema' = schema
      BY <1>5 DEF Migrate
    <2>2. /\ openers' \in [DOMAIN Images -> Opener] /\ area' = area /\ openers'[o].at = "running"
          /\ openers'[o].next = n + 1 /\ openers'[o].known = had
          /\ \A q \in DOMAIN Images : q # o => openers'[q] = openers[q]
      BY <1>1, <1>2, <2>1, StandShape
    <2>3. SchemaTyped'
      BY <1>1, <2>1, <2>2 DEF SchemaTyped
    <2>4. schema.applied[n] = Image(o)[n] /\ n <= Len(schema.applied)
      BY <1>1, <1>3, <1>5 DEF AtMigration, Agree
    <2>5. Agree(schema.applied, Image(o), n)
      BY <1>1, <1>3, <2>4 DEF AtMigration, Agree
    <2>6. /\ Len(schema.applied) \in {Len(had), n} /\ n + 1 >= 1 /\ n + 1 <= Len(Image(o)) + 1
          /\ Agree(had, schema.applied, Len(had)) /\ (n + 1) - 1 = n
      BY <1>1, <1>3, <1>5 DEF AtMigration, Agree
    <2>7. AtMigration(o)'
      <3>1. Image(o)' = Image(o)
        BY DEF Image
      <3> QED
        BY <2>1, <2>2, <2>5, <2>6, <3>1 DEF AtMigration, Agree
    <2> QED
      BY <1>1, <2>1, <2>2, <2>3, <2>7, MoverKeeps DEF Holding
  <1>6. CASE ~(n > Len(had)) /\ had[n] # Image(o)[n]
    <2>1. Stand(o, "refused", n, had) /\ Unlock(o)
      BY <1>6 DEF Migrate
    <2>2. "refused" \in OpenerStates \ Holding /\ "refused" # "open"
      BY DEF OpenerStates, Holding
    <2> QED
      BY <1>1, <2>1, <2>2, LeaverKeeps
  <1> QED
    BY <1>4, <1>5, <1>6

LEMMA MigrationsDone ==
  ASSUME SchemaInv, area = "migrations", NEW o \in DOMAIN Images, Migrated(o)
  PROVE  SchemaInv'
  <1>1. AtMigration(o) /\ SchemaTyped /\ openers[o].next > Len(Image(o))
    BY DEF SchemaInv, MigrationInv, Migrated
  <1>2. Len(Image(o)) \in Nat /\ openers[o].next \in Nat
    BY <1>1, BackendsAssumption DEF Image, SchemaTyped, Opener
  <1>3. Agree(schema.applied, Image(o), Len(Image(o)))
    BY <1>1, <1>2 DEF AtMigration, Agree
  <1>4. "open" \in OpenerStates \ Holding /\ 1 \in Nat /\ << >> \in Seq(STRING)
    BY DEF OpenerStates, Holding
  <1>5. Unlock(o) /\ Stand(o, "open", 1, << >>)
    BY DEF Migrated
  <1> QED
    BY <1>3, <1>4, <1>5, LeaverKeeps

LEMMA MigratorDead ==
  ASSUME SchemaInv, area = "migrations", NEW o \in DOMAIN Images, OpenerDies(o)
  PROVE  SchemaInv'
  <1>1. "down" \in OpenerStates \ Holding /\ 1 \in Nat /\ << >> \in Seq(STRING) /\ "down" # "open"
    BY DEF OpenerStates, Holding
  <1>2. Unlock(o) /\ Stand(o, "down", 1, << >>)
    BY DEF OpenerDies
  <1> QED
    BY <1>1, <1>2, LeaverKeeps

LEMMA AppendedShape ==
  ASSUME NEW S, NEW s \in Seq(S), NEW e \in S
  PROVE  /\ Append(s, e) \in Seq(S) /\ Len(Append(s, e)) = Len(s) + 1
         /\ Append(s, e)[Len(s) + 1] = e
         /\ \A i \in 1..Len(s) : Append(s, e)[i] = s[i]
  BY AppendProperties

\* The one that holds the lock is the only one at work, so what it appends is the next one.
LEMMA MigrationCommitted ==
  ASSUME SchemaInv, area = "migrations", NEW o \in DOMAIN Images, CommitMigration(o)
  PROVE  SchemaInv'
  <1> DEFINE n   == openers[o].next
             had == openers[o].known
             old == schema.applied
             new == Append(old, Image(o)[n])
  <1>1. /\ SchemaTyped /\ openers[o].at = "begun" /\ AtMigration(o) /\ schema.lock = o
        /\ n > Len(had) /\ n <= Len(Image(o)) /\ n \in Nat /\ had \in Seq(STRING)
    BY DEF SchemaInv, MigrationInv, Holding, CommitMigration, SchemaTyped, Opener
  <1>2. /\ Image(o) \in Seq(STRING) /\ Len(Image(o)) \in Nat /\ Len(had) \in Nat
        /\ old \in Seq(STRING) /\ Len(old) \in Nat
        /\ schema.ran \in Seq(Nat) /\ Len(schema.ran) = Len(old)
        /\ \A i \in 1..Len(schema.ran) : schema.ran[i] = i
    BY <1>1, BackendsAssumption DEF Image, SchemaTyped
  <1>3. Len(old) = n - 1 /\ n >= 1
    <2>1. n >= 1 /\ Len(old) \in {Len(had), n - 1}
      BY <1>1 DEF AtMigration
    <2>2. n - 1 <= Len(old)
      BY <1>1 DEF AtMigration, Agree
    <2> HIDE DEF n, had, old
    <2> QED
      BY <1>1, <1>2, <2>1, <2>2
  <1>4. Image(o)[n] \in STRING
    BY <1>1, <1>2, <1>3
  <1>5. /\ new \in Seq(STRING) /\ Len(new) = n /\ new[n] = Image(o)[n]
        /\ \A i \in 1..(n - 1) : new[i] = old[i]
    BY <1>1, <1>2, <1>3, <1>4, AppendedShape
  <1>6. Stand(o, "running", n + 1, had) /\ "running" \in OpenerStates
    BY DEF CommitMigration, OpenerStates
  <1>7. /\ openers' \in [DOMAIN Images -> Opener] /\ area' = area /\ openers'[o].at = "running"
        /\ openers'[o].next = n + 1 /\ openers'[o].known = had
        /\ \A q \in DOMAIN Images : q # o => openers'[q] = openers[q]
    BY <1>1, <1>6, StandShape
  <1>8. /\ schema' = [schema EXCEPT !.applied = new, !.ran = Append(schema.ran, n)]
        /\ schema'.applied = new /\ schema'.ran = Append(schema.ran, n) /\ schema'.lock = schema.lock
    BY <1>1 DEF CommitMigration, SchemaTyped
  <1>9. SchemaTyped'
    <2>1. /\ Append(schema.ran, n) \in Seq(Nat) /\ Len(Append(schema.ran, n)) = n
          /\ \A i \in 1..n : Append(schema.ran, n)[i] = i
      BY <1>1, <1>2, <1>3
    <2>2. schema' \in [tables : BOOLEAN, columns : SUBSET Columns, indexes : SUBSET {2, 3},
                       applied : Seq(STRING), ran : Seq(Nat), lock : DOMAIN Images \union {Null}]
      BY <1>1, <1>5, <1>8, <2>1 DEF SchemaTyped
    <2> QED
      BY <1>5, <1>7, <1>8, <2>1, <2>2 DEF SchemaTyped
  <1>10. AtMigration(o)'
    <2>1. Agree(had, new, Len(had))
      BY <1>1, <1>2, <1>3, <1>5 DEF AtMigration, Agree
    <2>2. Agree(new, Image(o), n)
      <3>1. \A i \in 1..n : new[i] = Image(o)[i]
        BY <1>1, <1>2, <1>3, <1>5 DEF AtMigration, Agree
      <3> QED
        BY <1>1, <1>5, <3>1 DEF Agree
    <2>3. n + 1 >= 1 /\ n + 1 <= Len(Image(o)) + 1 /\ (n + 1) - 1 = n /\ Len(new) \in {Len(had), n}
      BY <1>1, <1>2, <1>5
    <2>4. Image(o)' = Image(o)
      BY DEF Image
    <2> QED
      BY <1>7, <1>8, <2>1, <2>2, <2>3, <2>4 DEF AtMigration, Agree
  <1>11. ASSUME NEW q \in DOMAIN Images
         PROVE  /\ openers'[q].at \in Holding <=> schema'.lock = q
                /\ openers'[q].at \in {"running", "begun"} => AtMigration(q)'
                /\ openers'[q].at = "begun" => /\ openers'[q].next > Len(openers'[q].known)
                                               /\ openers'[q].next <= Len(Image(q))
                /\ openers'[q].at = "open" => Agree(schema'.applied, Image(q), Len(Image(q)))
    <2>1. CASE q = o
      BY <1>1, <1>7, <1>8, <1>10, <2>1 DEF Holding
    <2>2. CASE q # o
      <3>1. openers'[q] = openers[q] /\ schema'.lock # q /\ schema'.applied = new
        BY <1>1, <1>7, <1>8, <2>2
      <3>2. openers[q].at \notin Holding
        BY <1>1, <2>2 DEF SchemaInv, MigrationInv
      <3>3. openers[q].at \notin {"running", "begun"} /\ openers[q].at # "begun"
        BY <3>2 DEF Holding
      <3>4. ASSUME openers[q].at = "open" PROVE Agree(new, Image(q), Len(Image(q)))
        <4>1. Agree(old, Image(q), Len(Image(q)))
          BY <3>4 DEF SchemaInv, MigrationInv
        <4>2. Len(Image(q)) \in Nat
          BY BackendsAssumption DEF Image
        <4> QED
          BY <1>2, <1>3, <1>5, <4>1, <4>2 DEF Agree
      <3> QED
        BY <3>1, <3>2, <3>3, <3>4
    <2> QED
      BY <2>1, <2>2
  <1>12. MigrationInv'
    BY <1>11 DEF MigrationInv, Image
  <1>13. ColumnInv'
    BY <1>7 DEF ColumnInv
  <1> QED
    BY <1>9, <1>12, <1>13 DEF SchemaInv

\* SQLite: one opener moves, columns and indexes only become more, what it stands for is there.
LEMMA ColumnMoverKeeps ==
  ASSUME SchemaInv, area = "columns", NEW o \in DOMAIN Images, NEW at \in OpenerStates \ Holding,
         NEW next \in Nat, NEW had \in Seq(STRING), Stand(o, at, next, had), SchemaTyped',
         schema'.lock = schema.lock, schema'.tables, schema.columns \subseteq schema'.columns,
         schema.indexes \subseteq schema'.indexes,
         at \in {"looking", "adding", "indexing"} =>
           /\ next \in Columns
           /\ \A m \in 1..(next - 1) : m \in schema'.columns /\ (m > 1 => m \in schema'.indexes),
         at = "indexing" => next \in schema'.columns,
         at = "open" => schema'.columns = Columns /\ schema'.indexes = {2, 3}
  PROVE  SchemaInv'
  <1>1. SchemaTyped /\ schema.lock = Null
    BY DEF SchemaInv, ColumnInv
  <1>3. /\ area' = area /\ openers'[o].at = at /\ openers'[o].next = next
        /\ \A q \in DOMAIN Images : q # o => openers'[q] = openers[q]
    BY <1>1, StandShape
  <1>4. ASSUME NEW q \in DOMAIN Images PROVE openers'[q].at \notin Holding /\ AtColumn(q)'
    <2>1. CASE q = o
      BY <1>3, <2>1 DEF AtColumn
    <2>2. CASE q # o
      <3>1. openers'[q] = openers[q] /\ openers[q].at \notin Holding /\ AtColumn(q)
        BY <1>3, <2>2 DEF SchemaInv, ColumnInv
      <3>2. schema'.columns \subseteq Columns /\ schema'.indexes \subseteq {2, 3}
        BY DEF SchemaTyped
      <3>3. openers[q].at = "open" => schema'.columns = Columns /\ schema'.indexes = {2, 3}
        BY <3>1, <3>2 DEF AtColumn
      <3> QED
        BY <3>1, <3>3 DEF AtColumn
    <2> QED
      BY <2>1, <2>2
  <1>5. ColumnInv'
    BY <1>1, <1>3, <1>4 DEF ColumnInv
  <1>6. MigrationInv'
    BY <1>3 DEF MigrationInv
  <1> QED
    BY <1>5, <1>6 DEF SchemaInv

LEMMA TablesCreated ==
  ASSUME SchemaInv, area = "columns", NEW o \in DOMAIN Images, CreateTables(o)
  PROVE  SchemaInv'
  <1>1. SchemaTyped /\ openers[o].at = "down"
    BY DEF SchemaInv, CreateTables
  <1>2. "looking" \in OpenerStates \ Holding /\ 1 \in Nat /\ 1 \in Columns /\ << >> \in Seq(STRING)
    BY DEF OpenerStates, Holding, Columns
  <1>3. Stand(o, "looking", 1, << >>)
    BY DEF CreateTables
  <1>4. openers' \in [DOMAIN Images -> Opener]
    BY <1>1, <1>2, <1>3, StandShape
  <1>5. /\ schema' = [schema EXCEPT !.columns = IF schema.tables THEN schema.columns ELSE {1},
                                    !.tables = TRUE]
        /\ schema'.columns = (IF schema.tables THEN schema.columns ELSE {1})
        /\ schema'.tables /\ schema'.lock = schema.lock /\ schema'.indexes = schema.indexes
        /\ schema'.applied = schema.applied /\ schema'.ran = schema.ran
    BY <1>1 DEF CreateTables, SchemaTyped
  <1>6. schema.columns \subseteq schema'.columns
    BY <1>5 DEF SchemaInv, ColumnInv
  <1>7. SchemaTyped'
    <2>1. (IF schema.tables THEN schema.columns ELSE {1}) \in SUBSET Columns
      BY <1>1, <1>2 DEF SchemaTyped
    <2>2. schema' \in [tables : BOOLEAN, columns : SUBSET Columns, indexes : SUBSET {2, 3},
                       applied : Seq(STRING), ran : Seq(Nat), lock : DOMAIN Images \union {Null}]
      BY <1>1, <1>5, <2>1 DEF SchemaTyped
    <2>3. schema'.applied = schema.applied /\ schema'.ran = schema.ran
      BY <1>5
    <2>4. /\ Len(schema'.ran) = Len(schema'.applied)
          /\ \A n \in 1..Len(schema'.ran) : schema'.ran[n] = n
      BY <1>1, <2>3 DEF SchemaTyped
    <2> QED
      BY <1>4, <2>2, <2>4 DEF SchemaTyped
  <1>8. \A m \in 1..(1 - 1) : m \in schema'.columns /\ (m > 1 => m \in schema'.indexes)
    OBVIOUS
  <1>9. "looking" # "indexing" /\ "looking" # "open"
    OBVIOUS
  <1>10. schema'.lock = schema.lock /\ schema'.tables /\ schema.indexes \subseteq schema'.indexes
    BY <1>5
  <1> QED
    BY <1>2, <1>3, <1>6, <1>7, <1>8, <1>9, <1>10, ColumnMoverKeeps

\* What an opener at work on the columns stands for.
LEMMA AtWorkOnColumns ==
  ASSUME SchemaInv, area = "columns", NEW o \in DOMAIN Images,
         openers[o].at \in {"looking", "adding", "indexing"}
  PROVE  /\ SchemaTyped /\ schema.tables /\ openers[o].next \in Columns
         /\ openers[o].next \in Nat
         /\ \A m \in 1..(openers[o].next - 1) : m \in schema.columns /\ (m > 1 => m \in schema.indexes)
         /\ openers[o].at = "indexing" => openers[o].next \in schema.columns
  <1>1. SchemaTyped /\ AtColumn(o) /\ openers[o].at # "down"
    BY DEF SchemaInv, ColumnInv
  <1>2. schema.tables
    BY <1>1 DEF SchemaInv, ColumnInv, SchemaTyped
  <1> QED
    BY <1>1, <1>2 DEF AtColumn, Columns

LEMMA ColumnLookedFor ==
  ASSUME SchemaInv, area = "columns", NEW o \in DOMAIN Images, LookForColumn(o)
  PROVE  SchemaInv'
  <1> DEFINE n  == openers[o].next
             at == IF n \in schema.columns THEN "indexing" ELSE "adding"
  <1>1. openers[o].at = "looking" /\ schema' = schema /\ Stand(o, at, n, << >>)
    BY DEF LookForColumn
  <1>2. /\ SchemaTyped /\ schema.tables /\ n \in Columns /\ n \in Nat
        /\ \A m \in 1..(n - 1) : m \in schema.columns /\ (m > 1 => m \in schema.indexes)
    BY <1>1, AtWorkOnColumns
  <1>3. at \in OpenerStates \ Holding /\ << >> \in Seq(STRING) /\ at # "open"
        /\ (at = "indexing" => n \in schema.columns)
    BY DEF OpenerStates, Holding
  <1> HIDE DEF n, at
  <1>4. SchemaTyped'
    BY <1>1, <1>2, <1>3, StandShape DEF SchemaTyped
  <1> QED
    BY <1>1, <1>2, <1>3, <1>4, ColumnMoverKeeps

LEMMA ColumnAdded ==
  ASSUME SchemaInv, area = "columns", NEW o \in DOMAIN Images, AddColumn(o)
  PROVE  SchemaInv'
  <1> DEFINE n == openers[o].next
  <1>1. openers[o].at = "adding"
    BY DEF AddColumn
  <1>2. /\ SchemaTyped /\ schema.tables /\ n \in Columns /\ n \in Nat
        /\ \A m \in 1..(n - 1) : m \in schema.columns /\ (m > 1 => m \in schema.indexes)
    BY <1>1, AtWorkOnColumns
  <1>3. {"failed", "indexing"} \subseteq OpenerStates \ Holding /\ << >> \in Seq(STRING)
    BY DEF OpenerStates, Holding
  <1>4. CASE n \in schema.columns
    <2>1. Stand(o, "failed", n, << >>) /\ schema' = schema
      BY <1>4 DEF AddColumn
    <2>2. SchemaTyped'
      BY <1>2, <1>3, <2>1, StandShape DEF SchemaTyped
    <2> QED
      BY <1>2, <1>3, <2>1, <2>2, ColumnMoverKeeps
  <1>5. CASE n \notin schema.columns
    <2>1. /\ Stand(o, "indexing", n, << >>)
          /\ schema' = [schema EXCEPT !.columns = schema.columns \union {n}]
      BY <1>5 DEF AddColumn
    <2>2. /\ schema'.columns = schema.columns \union {n} /\ schema'.tables = schema.tables
          /\ schema'.lock = schema.lock /\ schema'.indexes = schema.indexes
          /\ schema'.applied = schema.applied /\ schema'.ran = schema.ran
      BY <1>2, <2>1 DEF SchemaTyped
    <2>3. openers' \in [DOMAIN Images -> Opener]
      BY <1>2, <1>3, <2>1, StandShape
    <2>4. SchemaTyped'
      BY <1>2, <2>1, <2>2, <2>3 DEF SchemaTyped
    <2> QED
      BY <1>2, <1>3, <2>1, <2>2, <2>4, ColumnMoverKeeps
  <1> QED
    BY <1>4, <1>5

LEMMA IndexAdded ==
  ASSUME SchemaInv, area = "columns", NEW o \in DOMAIN Images, AddIndex(o)
  PROVE  SchemaInv'
  <1> DEFINE n  == openers[o].next
             at == IF n = 3 THEN "open" ELSE "looking"
  <1>1. openers[o].at = "indexing" /\ Stand(o, at, n + 1, << >>)
    BY DEF AddIndex
  <1>2. /\ SchemaTyped /\ schema.tables /\ n \in Columns /\ n \in Nat /\ n \in schema.columns
        /\ \A m \in 1..(n - 1) : m \in schema.columns /\ (m > 1 => m \in schema.indexes)
    BY <1>1, AtWorkOnColumns
  <1>3. at \in OpenerStates \ Holding /\ << >> \in Seq(STRING) /\ n + 1 \in Nat
    BY <1>2 DEF OpenerStates, Holding
  <1>4. /\ schema' = [schema EXCEPT !.indexes = IF n > 1 THEN schema.indexes \union {n} ELSE schema.indexes]
        /\ schema'.indexes = (IF n > 1 THEN schema.indexes \union {n} ELSE schema.indexes)
        /\ schema'.columns = schema.columns /\ schema'.tables = schema.tables
        /\ schema'.lock = schema.lock
        /\ schema'.applied = schema.applied /\ schema'.ran = schema.ran
    BY <1>2 DEF AddIndex, SchemaTyped
  <1>5. schema'.indexes \subseteq {2, 3} /\ schema.indexes \subseteq schema'.indexes
    BY <1>2, <1>4 DEF SchemaTyped, Columns
  <1>6. SchemaTyped'
    <2>1. openers' \in [DOMAIN Images -> Opener]
      BY <1>1, <1>2, <1>3, StandShape
    <2> QED
      BY <1>2, <1>4, <1>5, <2>1 DEF SchemaTyped
  <1>7. \A m \in 1..n : m \in schema'.columns /\ (m > 1 => m \in schema'.indexes)
    BY <1>2, <1>4 DEF Columns
  <1>8. at \in {"looking", "adding", "indexing"} => n + 1 \in Columns /\ (n + 1) - 1 = n
    BY <1>2 DEF Columns
  <1>9. at = "open" => schema'.columns = Columns /\ schema'.indexes = {2, 3}
    <2>1. n = 3 => 1 \in schema'.columns /\ 2 \in schema'.columns /\ 3 \in schema'.columns
                   /\ 2 \in schema'.indexes /\ 3 \in schema'.indexes
      BY <1>7
    <2>2. schema'.columns \subseteq Columns
      BY <1>6 DEF SchemaTyped
    <2>3. \A c \in Columns : c = 1 \/ c = 2 \/ c = 3
      BY DEF Columns
    <2> QED
      BY <1>5, <2>1, <2>2, <2>3
  <1>10. at # "indexing"
    OBVIOUS
  <1> HIDE DEF at, n
  <1> QED
    BY <1>1, <1>2, <1>3, <1>4, <1>5, <1>6, <1>7, <1>8, <1>9, <1>10, ColumnMoverKeeps

LEMMA ColumnOpenerDead ==
  ASSUME SchemaInv, area = "columns", NEW o \in DOMAIN Images, OpenerDies(o)
  PROVE  SchemaInv'
  <1>1. SchemaTyped /\ schema.lock = Null /\ schema.tables
    BY DEF SchemaInv, ColumnInv, OpenerDies, SchemaTyped
  <1>2. "down" \in OpenerStates \ Holding /\ 1 \in Nat /\ << >> \in Seq(STRING)
    BY DEF OpenerStates, Holding
  <1>3. Unlock(o) /\ Stand(o, "down", 1, << >>)
    BY DEF OpenerDies
  <1>4. /\ schema'.lock = schema.lock /\ schema'.tables = schema.tables
        /\ schema'.columns = schema.columns /\ schema'.indexes = schema.indexes /\ SchemaTyped'
    <2>1. openers' \in [DOMAIN Images -> Opener]
      BY <1>1, <1>2, <1>3, StandShape
    <2> QED
      BY <1>1, <1>3, <2>1, UnlockShape DEF SchemaTyped
  <1> QED
    BY <1>1, <1>2, <1>3, <1>4, ColumnMoverKeeps

\* Whatever else is called leaves the schema and its openers alone.
LEMMA OthersLeaveSchema ==
  ASSUME BackendsNext, ~SchemaCalls
  PROVE  area' = area /\ schema' = schema /\ openers' = openers
  <1>1. CASE LedgerCalls
    BY <1>1 DEF LedgerCalls, RecordOne, Refold, Rewind, Clear, Call
  <1>2. CASE EventCalls
    BY <1>2 DEF EventCalls, RecordNotice, Rewind, Clear, WorkerTurn, Call
  <1>3. ASSUME NEW box, NEW to, OutboxCalls(box, to)
        PROVE  area' = area /\ schema' = schema /\ openers' = openers
    BY <1>3 DEF OutboxCalls, RecordNotice, WorkerTurn, StoreOutcome, Requeue, Call
  <1>4. CASE (\E e \in Puts : PutEnd(e)) \/ (\E e \in Puts : DeleteEnd(e.name))
    BY <1>4 DEF PutEnd, DeleteEnd, Call
  <1>5. CASE ReconcileCalls
    BY <1>5 DEF ReconcileCalls, LedgerCloses, IndexLedger, RollBack, StartReconciling, ReadImplied,
                ReadActual, ReconcilingFails, Call
  <1>6. CASE ReplayCalls
    BY <1>6 DEF ReplayCalls, LedgerCloses, Replay, ReplayDies
  <1> QED
    BY <1>1, <1>2, <1>3, <1>4, <1>5, <1>6 DEF BackendsNext

LEMMA SchemaStep == SchemaInv /\ [BackendsNext]_backendVars => SchemaInv'
  <1> SUFFICES ASSUME SchemaInv, [BackendsNext]_backendVars PROVE SchemaInv'
    OBVIOUS
  <1>1. CASE SchemaCalls
    <2>1. PICK o \in DOMAIN Images :
            \/ /\ area = "migrations"
               /\ \/ TakeMigrationLock(o) \/ ReadApplied(o) \/ Migrate(o) \/ CommitMigration(o)
                  \/ Migrated(o) \/ OpenerDies(o)
            \/ /\ area = "columns"
               /\ CreateTables(o) \/ LookForColumn(o) \/ AddColumn(o) \/ AddIndex(o) \/ OpenerDies(o)
      BY <1>1 DEF SchemaCalls
    <2>2. CASE area = "migrations"
      BY <2>1, <2>2, LockTaken, AppliedRead, MigrationLookedAt, MigrationCommitted, MigrationsDone,
         MigratorDead
    <2>3. CASE area = "columns"
      BY <2>1, <2>3, TablesCreated, ColumnLookedFor, ColumnAdded, IndexAdded, ColumnOpenerDead
    <2> QED
      BY <2>1, <2>2, <2>3
  <1>2. CASE (BackendsNext /\ ~SchemaCalls) \/ UNCHANGED backendVars
    <2>1. area' = area /\ schema' = schema /\ openers' = openers
      BY <1>2, OthersLeaveSchema DEF backendVars
    <2> QED
      BY <2>1 DEF SchemaInv, SchemaTyped, MigrationInv, ColumnInv, AtMigration, AtColumn, Agree, Image
  <1> QED
    BY <1>1, <1>2

LEMMA SchemaInvSafe == SchemaInv => SchemaSafe
  <1> SUFFICES ASSUME SchemaInv PROVE SchemaSafe
    OBVIOUS
  <1>1. schema.ran = [n \in DOMAIN schema.applied |-> n]
    BY DEF SchemaInv, SchemaTyped
  <1>2. ASSUME NEW o \in DOMAIN Images
        PROVE  /\ openers[o].at = "begun" => schema.lock = o
               /\ area = "migrations" /\ openers[o].at = "open" =>
                    Image(o) = SubSeq(schema.applied, 1, Len(Image(o)))
               /\ area = "columns" /\ openers[o].at = "open" =>
                    schema.columns = Columns /\ schema.indexes = Columns \ {1}
    <2>1. openers[o].at = "begun" => schema.lock = o
      BY DEF SchemaInv, MigrationInv, ColumnInv, Holding
    <2>2. ASSUME area = "migrations", openers[o].at = "open"
          PROVE  Image(o) = SubSeq(schema.applied, 1, Len(Image(o)))
      <3>1. Agree(schema.applied, Image(o), Len(Image(o)))
        BY <2>2 DEF SchemaInv, MigrationInv
      <3>2. Image(o) \in Seq(STRING) /\ schema.applied \in Seq(STRING)
        BY BackendsAssumption DEF Image, SchemaInv, SchemaTyped
      <3> QED
        BY <3>1, <3>2, SubSeqProperties, SeqEqual DEF Agree
    <2>3. ASSUME area = "columns", openers[o].at = "open"
          PROVE  schema.columns = Columns /\ schema.indexes = Columns \ {1}
      <3>1. schema.columns = Columns /\ schema.indexes = {2, 3}
        BY <2>3 DEF SchemaInv, ColumnInv, AtColumn
      <3>2. Columns \ {1} = {2, 3}
        BY DEF Columns
      <3> QED
        BY <3>1, <3>2
    <2> QED
      BY <2>1, <2>2, <2>3
  <1> QED
    BY <1>1, <1>2 DEF SchemaSafe

(***************************************************************************)
(* However the processes that start on one database interleave, and        *)
(* whichever of them dies in between: no migration runs twice or out of    *)
(* order, the one that applies one holds the lock, one that has opened the *)
(* database finds all of its own migrations applied, as it carries them,   *)
(* and on SQLite all later columns and their indexes (migrations.js:26-81, *)
(* sqlite.js).                                                             *)
(***************************************************************************)
THEOREM SchemaStaysSafe == BackendsSpec => []SchemaSafe
  <1>1. BackendsInit => SchemaInv
    BY SchemaStarts
  <1>2. SchemaInv /\ [BackendsNext]_backendVars => SchemaInv'
    BY SchemaStep
  <1>3. SchemaInv => SchemaSafe
    BY SchemaInvSafe
  <1> QED
    BY <1>1, <1>2, <1>3, PTL DEF BackendsSpec
=============================================================================
