--------------------------- MODULE ConsoleScreens ---------------------------
(***************************************************************************)
(* What the web console has on its screens: the loads that useContract     *)
(* starts and cancels, the optimistic changes that App puts on top of      *)
(* them, and the wallet address they are read for.  The contract is a      *)
(* version number: what matters of a read is which version it saw.  A      *)
(* React effect runs in the step that changes one of its dependencies.     *)
(***************************************************************************)
EXTENDS ConsoleAccounts, Naturals, FiniteSets

CONSTANTS
  Slots,        \* loads that may be in flight together
  MaxVersion,   \* bound on the changes of the contract
  Budget        \* bound on transactions, account switches and failures together

ASSUME ScreensAssumption == {MaxVersion, Budget} \subseteq Nat

VARIABLES
  contract,  \* the version the contract is at
  account,   \* the account the extension reports, or None
  address,   \* the address the console holds as connected, or None
  checks,    \* addresses that a disconnect check was started for
  loads,     \* the loads in flight, one per used slot
  shown,     \* the proposals on screen: version, reader's address, patched
  owners,    \* version of the owners and weights on screen
  loading,   \* the screens say they are loading
  failed,    \* the screens show an error
  inflight,  \* transactions in flight
  pending,   \* the screens say a transaction is in flight
  spent      \* how much of Budget is used

screenVars == <<contract, account, address, checks, loads, shown, owners,
                loading, failed, inflight, pending, spent>>

Stages == {"base", "page", "approvals", "weights", "schedules"}

(* A load remembers the version its owner list and its page were read at. *)
NewLoad(w) == [wallet |-> w, stage |-> "base", live |-> TRUE, base |-> 0, page |-> 0]

Used == {s \in Slots : loads[s] # None}

(* What a load still has to remember once its proposals are shown: only    *)
(* the owners it has not shown yet.                                        *)
Rest(load, stage, live) ==
  [NewLoad(None) EXCEPT !.stage = stage, !.live = live,
                        !.base = IF stage = "weights" THEN load.base ELSE 0]

\* Mutant of Cancelled: the effect has no cleanup.
LeftRunning == loads

(* The effect's cleanup cancels the running load before a new one starts.  *)
(* A load that has not shown its proposals gives up at its next answer:    *)
(* nothing is left of it.                                                  *)
Cancelled ==
  [s \in Slots |-> IF s \in Used /\ loads[s].stage \in {"weights", "schedules"}
                     THEN Rest(loads[s], loads[s].stage, FALSE) ELSE None]

(* Runs the load effect, which a new tick and a new address both trigger. *)
Reload(w) ==
  LET free == {s \in Slots : Cancelled[s] = None} IN
  \E s \in free :
    /\ \A r \in free : s <= r
    /\ loads' = [Cancelled EXCEPT ![s] = NewLoad(w)]
    /\ loading' = TRUE
    /\ failed' = FALSE

Spend == spent < Budget /\ spent' = spent + 1

Finish(s) == loads' = [loads EXCEPT ![s] = None]

ScreensInit ==
  /\ contract = 0
  /\ account \in Wallets
  /\ address = None
  /\ checks = {}
  /\ loads = [s \in Slots |-> IF s = 1 THEN NewLoad(None) ELSE None]
  /\ shown = [version |-> 0, wallet |-> None, patched |-> FALSE]
  /\ owners = 0
  /\ loading = TRUE
  /\ failed = FALSE
  /\ inflight = 0
  /\ pending = FALSE
  /\ spent = 0

(***************************************************************************)
(* The steps of one load.                                                  *)
(***************************************************************************)
ReadBase(s) ==
  /\ s \in Used /\ loads[s].stage = "base"
  /\ loads' = [loads EXCEPT ![s].stage = "page", ![s].base = contract]
  /\ UNCHANGED <<contract, account, address, checks, shown, owners, loading,
                 failed, inflight, pending, spent>>

ReadPage(s) ==
  /\ s \in Used /\ loads[s].stage = "page"
  /\ loads' = [loads EXCEPT ![s].stage = "approvals", ![s].page = contract]
  /\ UNCHANGED <<contract, account, address, checks, shown, owners, loading,
                 failed, inflight, pending, spent>>

ShowProposals(s) ==
  /\ s \in Used /\ loads[s].stage = "approvals"
  /\ loads' = [loads EXCEPT ![s] = Rest(loads[s], "weights", TRUE)]
  /\ shown' = [version |-> loads[s].page, wallet |-> loads[s].wallet, patched |-> FALSE]
  /\ UNCHANGED <<contract, account, address, checks, owners, loading, failed,
                 inflight, pending, spent>>

(* Nothing keeps a load cancelled in between from replacing the owners. *)
ShowOwners(s) ==
  /\ s \in Used /\ loads[s].stage = "weights"
  /\ loads' = [loads EXCEPT ![s] = Rest(loads[s], "schedules", loads[s].live)]
  /\ owners' = loads[s].base
  /\ UNCHANGED <<contract, account, address, checks, shown, loading, failed,
                 inflight, pending, spent>>

ShowStats(s) ==
  /\ s \in Used /\ loads[s].stage = "schedules"
  /\ Finish(s)
  /\ loading' = (loading /\ ~loads[s].live)
  /\ UNCHANGED <<contract, account, address, checks, shown, owners, failed,
                 inflight, pending, spent>>

(* The reads of the weights and of the schedules never throw. *)
LoadFails(s) ==
  /\ s \in Used /\ loads[s].stage \in {"base", "page", "approvals"}
  /\ Finish(s)
  /\ failed' = TRUE
  /\ loading' = FALSE
  /\ Spend
  /\ UNCHANGED <<contract, account, address, checks, shown, owners, inflight, pending>>

(***************************************************************************)
(* The wallet.                                                             *)
(***************************************************************************)

(* A new address reloads the screens; with none the pending notice goes.   *)
SetAddress(w) ==
  /\ address' = w
  /\ pending' = (pending /\ w # None)
  /\ IF w = address
       THEN UNCHANGED <<loads, loading, failed>>
       ELSE Reload(w)

SwitchAccount(w) ==
  /\ account # w
  /\ account' = w
  /\ Spend
  /\ UNCHANGED <<contract, address, checks, loads, shown, owners, loading,
                 failed, inflight, pending>>

Connect ==
  /\ address = None /\ account # None
  /\ SetAddress(account)
  /\ UNCHANGED <<contract, account, checks, shown, owners, inflight, spent>>

Disconnect ==
  /\ address # None
  /\ SetAddress(None)
  /\ UNCHANGED <<contract, account, checks, shown, owners, inflight, spent>>

(* Every three seconds the extension is asked for the account. *)
StartCheck ==
  /\ address # None /\ address \notin checks
  /\ checks' = checks \union {address}
  /\ UNCHANGED <<contract, account, address, loads, shown, owners, loading,
                 failed, inflight, pending, spent>>

(* The answer is compared with the address the check was started for. *)
AnswerCheck(w) ==
  /\ w \in checks
  /\ checks' = checks \ {w}
  /\ SetAddress(IF account # w THEN None ELSE address)
  /\ UNCHANGED <<contract, account, shown, owners, inflight, spent>>

(***************************************************************************)
(* Transactions.  The change is put on the screen before it is sent.       *)
(***************************************************************************)
WithTx ==
  /\ address # None
  /\ Spend
  /\ inflight' = inflight + 1
  /\ pending' = TRUE
  /\ shown' = [shown EXCEPT !.patched = TRUE]
  /\ UNCHANGED <<contract, account, address, checks, loads, owners, loading, failed>>

TxSucceeds ==
  /\ inflight > 0
  /\ contract < MaxVersion
  /\ contract' = contract + 1
  /\ inflight' = inflight - 1
  /\ pending' = FALSE
  /\ Reload(address)
  /\ UNCHANGED <<account, address, checks, shown, owners, spent>>

(* A failed transaction reloads nothing: its change stays on the screen. *)
TxFails ==
  /\ inflight > 0
  /\ inflight' = inflight - 1
  /\ pending' = FALSE
  /\ UNCHANGED <<contract, account, address, checks, loads, shown, owners,
                 loading, failed, spent>>

OthersChange ==
  /\ contract < MaxVersion
  /\ contract' = contract + 1
  /\ UNCHANGED <<account, address, checks, loads, shown, owners, loading,
                 failed, inflight, pending, spent>>

LoadStep(s) ==
  \/ ReadBase(s)
  \/ ReadPage(s)
  \/ ShowProposals(s)
  \/ ShowOwners(s)
  \/ ShowStats(s)

ScreensNext ==
  \/ \E s \in Slots : LoadStep(s) \/ LoadFails(s)
  \/ \E w \in Wallets \union {None} : SwitchAccount(w)
  \/ \E w \in Wallets : AnswerCheck(w)
  \/ Connect
  \/ Disconnect
  \/ StartCheck
  \/ WithTx
  \/ TxSucceeds
  \/ TxFails
  \/ OthersChange

ScreensTypeOK ==
  /\ contract \in 0..MaxVersion
  /\ account \in Wallets \union {None}
  /\ address \in Wallets \union {None}
  /\ checks \subseteq Wallets
  /\ loads \in [Slots -> {None} \union
                  [wallet : Wallets \union {None}, stage : Stages, live : BOOLEAN,
                   base : 0..MaxVersion, page : 0..MaxVersion]]
  /\ shown \in [version : 0..MaxVersion, wallet : Wallets \union {None}, patched : BOOLEAN]
  /\ owners \in 0..MaxVersion
  /\ loading \in BOOLEAN /\ failed \in BOOLEAN /\ pending \in BOOLEAN
  /\ inflight \in 0..Budget
  /\ spent \in 0..Budget
=============================================================================
