----------------------------- MODULE FileIndexer -----------------------------
(***************************************************************************)
(* The stand-alone indexer of the scripts: it pages through the contract's *)
(* events into one file that it replaces as a whole, and resumes from the  *)
(* checkpoint in it.  The file is JSON, which has no form for the BigInt   *)
(* that a u64 or an i128 of the contract decodes to.                       *)
(***************************************************************************)
EXTENDS ConsoleAccounts, Naturals, Sequences, FiniteSets

CONSTANTS
  Published,      \* the contract's events, within a ledger by transaction hash
  PageLimit,      \* events in an answer of the node
  SnapshotEvery,  \* ledgers between two balance snapshots
  Lookback,       \* ledgers before the newest that a first run starts at
  StartSettings   \* configured first ledgers, None for the default

(* An event has the number of a proposal or a schedule (a u64) or None; it *)
(* may list amounts that were spent; and it is wide if any of its fields   *)
(* is a u64 or an i128, as these are.                                      *)
Events == [ledger: Nat, number: Nat \cup {None}, spends: BOOLEAN, wide: BOOLEAN]

ASSUME FileIndexerAssumption ==
  /\ {PageLimit, SnapshotEvery, Lookback} \subseteq Nat \ {0}
  /\ Published \in Seq(Events)
  /\ \A i, j \in DOMAIN Published : i <= j => Published[i].ledger <= Published[j].ledger
  /\ \A i \in DOMAIN Published :
       Published[i].number # None \/ Published[i].spends => Published[i].wide
  /\ StartSettings \ {None} \subseteq Nat /\ None \notin Nat

VARIABLES
  height,    \* the newest ledger
  setting,   \* the configured first ledger
  file,      \* the store on disk, which the process holds as well
  process,   \* "down", "asking" for the newest ledger or "fetching" a page
  once,      \* it runs a single cycle
  resume,    \* the ledger it fetches from
  since,     \* the ledger of the first page that was stored, None before it
  cut        \* a page was full

fileVars == <<height, setting, file, process, once, resume, since, cut>>

Later(a, b) == IF a >= b THEN a ELSE b
LastLedger == Published[Len(Published)].ledger

-------------------------------------------------------------------------------
(***************************************************************************)
(* The store and what a page does to it.                                   *)
(***************************************************************************)
EmptyStore ==
  [checkpoint |-> 0, events |-> {}, proposals |-> {}, counted |-> {}, snapshots |-> << >>]

\* An event with a number makes or changes the entry of that number.
applyEventToProposals(page, numbers) ==
  numbers \cup ({Published[i].number : i \in page} \ {None})

\* What an event spends is taken from the balances when it is new.
applyEventToBalances(page, store) ==
  store.counted \cup {i \in page \ store.events : Published[i].spends}

Ingest(page, store) ==
  [store EXCEPT !.events = @ \cup page,
                !.proposals = applyEventToProposals(page, @),
                !.counted = applyEventToBalances(page, store)]

persistBalanceSnapshot(store, ledger) ==
  LET past == store.snapshots IN
  IF past # << >> /\ ledger - past[Len(past)].ledger < SnapshotEvery THEN store
  ELSE [store EXCEPT !.snapshots = Append(@, [ledger |-> ledger, counted |-> store.counted])]

\* JSON.stringify throws on a BigInt anywhere in the store.
Serializable(store) == \A i \in store.events : ~Published[i].wide

\* Mutant of NextCheckpoint: one ledger too far.
NextCheckpointPast(from, seen) == Later(from, seen) + 1
NextCheckpoint(from, seen)     == Later(from, seen)

-------------------------------------------------------------------------------
InReach == {i \in DOMAIN Published : Published[i].ledger \in resume..height}
NodePage == {i \in InReach : Cardinality({j \in InReach : j < i}) < PageLimit}

FileInit ==
  /\ height = 1
  /\ setting \in StartSettings
  /\ file = EmptyStore
  /\ process = "down" /\ once = FALSE /\ resume = 0
  /\ since = None /\ cut = FALSE

CloseNextLedger ==
  /\ height < LastLedger
  /\ height' = height + 1
  /\ UNCHANGED <<setting, file, process, once, resume, since, cut>>

(* A run resumes after the checkpoint; the first one starts where it is    *)
(* told to, or some ledgers back, or at the first when the node is silent. *)
StartRun(single) ==
  /\ process = "down"
  /\ process' = "asking"
  /\ once' = single
  /\ \E from \in IF file.checkpoint > 0 THEN {file.checkpoint + 1}
                 ELSE IF setting # None THEN {setting} ELSE {Later(1, height - Lookback), 1} :
       resume' = from
  /\ UNCHANGED <<height, setting, file, since, cut>>

\* It sleeps when it has caught up; a single run is over then.
AskNewest ==
  /\ process = "asking"
  /\ process' \in {"fetching", IF resume <= height THEN "fetching" ELSE IF once THEN "down" ELSE "asking"}
  /\ UNCHANGED <<height, setting, file, once, resume, since, cut>>

\* The store in memory once the page is in it.
WithPage ==
  LET checkpoint == NextCheckpoint(resume, height) IN
  [persistBalanceSnapshot(Ingest(NodePage, file), checkpoint) EXCEPT !.checkpoint = checkpoint]

(* The node refuses a range that starts after its newest ledger.           *)
FetchPage ==
  /\ process = "fetching" /\ resume <= height
  /\ Serializable(WithPage)
  /\ file' = WithPage
  /\ resume' = WithPage.checkpoint + 1
  /\ process' = IF once THEN "down" ELSE "asking"
  /\ since' = IF since = None THEN resume ELSE since
  /\ cut' = (cut \/ NodePage # InReach)
  /\ UNCHANGED <<height, setting, once>>

\* saveStore throws before the file is touched and ends the process.
SaveThrows ==
  /\ process = "fetching" /\ resume <= height
  /\ ~Serializable(WithPage)
  /\ process' = "down"
  /\ UNCHANGED <<height, setting, file, once, resume, since, cut>>

\* The page does not come, or the process stops before the file is replaced.
FetchPageFails ==
  /\ process = "fetching"
  /\ process' = IF once THEN "down" ELSE "asking"
  /\ UNCHANGED <<height, setting, file, once, resume, since, cut>>

Killed ==
  /\ process # "down"
  /\ process' = "down"
  /\ UNCHANGED <<height, setting, file, once, resume, since, cut>>

FileNext ==
  \/ CloseNextLedger
  \/ \E single \in BOOLEAN : StartRun(single)
  \/ AskNewest \/ FetchPage \/ SaveThrows \/ FetchPageFails \/ Killed

FileSpec == FileInit /\ [][FileNext]_fileVars

-------------------------------------------------------------------------------
(* Whatever stops the indexer and whenever it is started again, its file   *)
(* is of one piece: until a page was full, it holds exactly the events     *)
(* from the first page's ledger to the checkpoint, which therefore never   *)
(* passes an event it cannot store; and that is every event with a number  *)
(* or an amount, so that no proposal, payment or spending is ever in the   *)
(* file, although scripts/README.md:21 lists them as persisted: the page   *)
(* with the first of them ends every run (scripts/indexer.js:231-245,      *)
(* 299-545; contracts/accord/src/lib.rs:313-343).                          *)
FileOfOnePiece ==
  /\ ~cut /\ since # None =>
       file.events = {i \in DOMAIN Published : Published[i].ledger \in since..file.checkpoint}
  /\ \A i \in file.events : Published[i].ledger <= file.checkpoint /\ ~Published[i].wide
  /\ file.proposals = {} /\ file.counted = {}
  /\ \A k \in DOMAIN file.snapshots :
       /\ file.snapshots[k].counted = {}
       /\ k > 1 => file.snapshots[k].ledger >= file.snapshots[k - 1].ledger + SnapshotEvery
=============================================================================
