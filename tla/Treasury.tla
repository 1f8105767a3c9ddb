------------------------------- MODULE Treasury -------------------------------
(***************************************************************************)
(* The treasury kinds of proposal (contracts/accord/src/lib.rs): batches   *)
(* of transfers, escrows, spending limits and the approved-token registry, *)
(* with the calls that settle an escrow once it exists.  The electorate is *)
(* that of Governance, fixed here.                                         *)
(***************************************************************************)
EXTENDS Vault

CONSTANTS
  MaxBatch,       \* MAX_BATCH_TRANSFERS
  Shares,         \* the owners' weights
  Threshold       \* the threshold

Leg                == [token : Token, amount : Nat]
TransferKind       == [op : {"Transfer"}, legs : Seq(Leg)]
EscrowKind         == [op : {"CreateEscrow"}, token : Token, amount : Nat,
                       mode : {"OwnerQuorumUntil", "Deadline"}, releaseAt : Nat]
LimitKind          == [op : {"SetSpendingLimit"}, owner : Address, token : Token, limit : Nat]
LimitWindowKind    == [op : {"SetSpendingLimitWindow"}, owner : Address, token : Token,
                       limit : Nat, window : Nat]
RegistryKind       == [op : {"SetAssetRegistryEnabled"}, enabled : BOOLEAN]
ApproveTokenKind   == [op : {"AddApprovedToken"}, token : Token]
UnapproveTokenKind == [op : {"RemoveApprovedToken"}, token : Token]

TreasuryOps ==
  {"Transfer", "CreateEscrow", "SetSpendingLimit", "SetSpendingLimitWindow",
   "SetAssetRegistryEnabled", "AddApprovedToken", "RemoveApprovedToken"}

Escrow == [token : Token, amount : Nat \ {0},
           mode : {"OwnerQuorumUntil", "Deadline"}, releaseAt : Nat]

ASSUME TreasuryAssumption ==
  /\ MaxBatch \in Nat \ {0}
  /\ Shares \in [Address -> 0..MaxOwnerWeight]
  /\ Threshold \in Nat \ {0}
  /\ \A k \in Kind : k.op \in TreasuryOps =>
       \/ k \in TransferKind
       \/ k \in EscrowKind
       \/ k \in LimitKind
       \/ k \in LimitWindowKind
       \/ k \in RegistryKind
       \/ k \in ApproveTokenKind
       \/ k \in UnapproveTokenKind

VARIABLES
  escrows,    \* ESC: the escrows not settled yet, by id
  nextEscrow  \* the next escrow id

vars == <<now, weight, totalWeight, threshold, roles, frozen, proposals, counted,
          activeIds, activeCount, guardian, balance, reserved, limit, window, tracker,
          registryOn, approved, recovery, escrows, nextEscrow>>

Init ==
  /\ now = 1
  /\ weight = Shares
  /\ totalWeight = WeightOf(Owners)
  /\ threshold = Threshold
  /\ threshold <= totalWeight
  /\ roles = [a \in Address |-> IF IsOwner(a) THEN DefaultOwnerRoles ELSE {}]
  /\ frozen = FALSE
  /\ guardian = NoGuardian
  /\ proposals = << >>
  /\ counted = << >>
  /\ activeIds = {}
  /\ activeCount = 0
  /\ VaultInit
  /\ escrows = << >>
  /\ nextEscrow = 1

-----------------------------------------------------------------------------
(* Proposing *)

\* The tokens of a batch, and what it pays of each.
TokensOf(legs)     == {legs[i].token : i \in DOMAIN legs}
TotalOf(legs, t)   ==
  Total([i \in DOMAIN legs |-> legs[i].amount],
        {i \in DOMAIN legs : legs[i].token = t})

Propose(p, k, d) ==
  /\ MayPropose(p)
  /\ Register(p, k, d)
  /\ UNCHANGED <<now, electorateVars, frozen, guardian, vaultVars, escrows, nextEscrow>>

\* Limits bind owners already when they propose; others only on execution.
ProposeTransfer(p, k, d) ==
  /\ k.op = "Transfer"
  /\ Len(k.legs) \in 1..MaxBatch
  /\ \A i \in DOMAIN k.legs : k.legs[i].amount >= 1 /\ TokenAllowed(k.legs[i].token)
  /\ IsOwner(p) => \A t \in TokensOf(k.legs) : WithinLimit(p, t, TotalOf(k.legs, t))
  /\ Propose(p, k, d)

ProposeEscrow(p, k, d) ==
  /\ k.op = "CreateEscrow"
  /\ k.amount >= 1
  /\ TokenAllowed(k.token)
  /\ k.releaseAt > now /\ k.releaseAt - now <= MaxDuration
  /\ Propose(p, k, d)

ProposeSpendingLimit(p, k, d) ==
  /\ k.op = "SetSpendingLimit"
  /\ TokenAllowed(k.token)
  /\ Propose(p, k, d)

ProposeSpendingWindow(p, k, d) ==
  /\ k.op = "SetSpendingLimitWindow"
  /\ k.window \in Windows
  /\ TokenAllowed(k.token)
  /\ Propose(p, k, d)

ProposeAssetRegistry(p, k, d) ==
  /\ k.op = "SetAssetRegistryEnabled"
  /\ Propose(p, k, d)

ProposeApproveToken(p, k, d) ==
  /\ k.op = "AddApprovedToken"
  /\ k.token \notin approved
  /\ Propose(p, k, d)

ProposeUnapproveToken(p, k, d) ==
  /\ k.op = "RemoveApprovedToken"
  /\ k.token \in approved
  /\ Propose(p, k, d)

-----------------------------------------------------------------------------
(* Executing *)

Conclude(id) ==
  /\ FinishExecute(id, proposals)
  /\ UNCHANGED <<now, electorateVars, frozen, guardian, counted, recovery>>

\* Mutant of RecoveryAllows: recovery mode stops nothing.
RecoveryAllowsAll == TRUE

\* require_not_recovery: outflows stop, governance goes on.
RecoveryAllows == ~recovery

(***************************************************************************)
(* A batch pays all its legs or none.  Each leg is compared with what no   *)
(* escrow has reserved; the batch as a whole only with the full balance.   *)
(***************************************************************************)
ExecuteTransfer(x, id) ==
  LET legs     == proposals[id].kind.legs
      proposer == proposals[id].proposer
  IN  /\ MayExecute(x, id)
      /\ proposals[id].kind.op = "Transfer"
      /\ RecoveryAllows
      /\ \A i \in DOMAIN legs :
           TokenAllowed(legs[i].token) /\ Available(legs[i].token) >= legs[i].amount
      /\ \A t \in TokensOf(legs) :
           WithinLimit(proposer, t, TotalOf(legs, t)) /\ balance[t] >= TotalOf(legs, t)
      /\ balance' = [t \in Token |-> balance[t] - TotalOf(legs, t)]
      /\ tracker' = [tracker EXCEPT ![proposer] =
           [t \in Token |->
              IF t \in TokensOf(legs)
                THEN Charged(@[t], TotalOf(legs, t), window[proposer][t])
                ELSE @[t]]]
      /\ Conclude(id)
      /\ UNCHANGED <<reserved, policyVars, escrows, nextEscrow>>

\* Set k.amount aside, out of what is not reserved yet.
ReserveFor(k) ==
  /\ Available(k.token) >= k.amount
  /\ reserved' = [reserved EXCEPT ![k.token] = @ + k.amount]

ExecuteEscrow(x, id) ==
  LET k == proposals[id].kind
      e == [token |-> k.token, amount |-> k.amount, mode |-> k.mode,
            releaseAt |-> k.releaseAt]
  IN  /\ MayExecute(x, id)
      /\ k.op = "CreateEscrow"
      /\ TokenAllowed(k.token)
      /\ k.releaseAt > now
      /\ k.amount >= 1
      /\ ReserveFor(k)
      /\ escrows' = [n \in DOMAIN escrows \cup {nextEscrow} |->
                       IF n = nextEscrow THEN e ELSE escrows[n]]
      /\ nextEscrow' = nextEscrow + 1
      /\ Conclude(id)
      /\ UNCHANGED <<balance, policyVars, tracker>>

\* A new limit starts a new window, with nothing spent.
SetLimit(k) ==
  /\ limit' = [limit EXCEPT ![k.owner][k.token] = k.limit]
  /\ tracker' = [tracker EXCEPT ![k.owner][k.token] = [spent |-> 0, epoch |-> now]]

ExecuteSpendingLimit(x, id) ==
  LET k == proposals[id].kind
  IN  /\ MayExecute(x, id)
      /\ k.op = "SetSpendingLimit"
      /\ TokenAllowed(k.token)
      /\ SetLimit(k)
      /\ Conclude(id)
      /\ UNCHANGED <<balance, reserved, window, registryOn, approved, escrows, nextEscrow>>

ExecuteSpendingWindow(x, id) ==
  LET k == proposals[id].kind
  IN  /\ MayExecute(x, id)
      /\ k.op = "SetSpendingLimitWindow"
      /\ SetLimit(k)
      /\ window' = [window EXCEPT ![k.owner][k.token] = k.window]
      /\ Conclude(id)
      /\ UNCHANGED <<balance, reserved, registryOn, approved, escrows, nextEscrow>>

ExecuteAssetRegistry(x, id) ==
  /\ MayExecute(x, id)
  /\ proposals[id].kind.op = "SetAssetRegistryEnabled"
  /\ registryOn' = proposals[id].kind.enabled
  /\ Conclude(id)
  /\ UNCHANGED <<balance, reserved, limit, window, tracker, approved, escrows, nextEscrow>>

ExecuteApproveToken(x, id) ==
  LET k == proposals[id].kind
  IN  /\ MayExecute(x, id)
      /\ k.op = "AddApprovedToken"
      /\ k.token \notin approved
      /\ approved' = approved \cup {k.token}
      /\ Conclude(id)
      /\ UNCHANGED <<balance, reserved, limit, window, tracker, registryOn, escrows, nextEscrow>>

ExecuteUnapproveToken(x, id) ==
  LET k == proposals[id].kind
  IN  /\ MayExecute(x, id)
      /\ k.op = "RemoveApprovedToken"
      /\ k.token \in approved
      /\ approved' = approved \ {k.token}
      /\ Conclude(id)
      /\ UNCHANGED <<balance, reserved, limit, window, tracker, registryOn, escrows, nextEscrow>>

-----------------------------------------------------------------------------
(* Settling an escrow *)

\* Mutant of Settle: the record goes, its reservation stays.
SettleKeepingReserve(n) ==
  /\ escrows' = [m \in DOMAIN escrows \ {n} |-> escrows[m]]
  /\ UNCHANGED <<reserved, nextEscrow>>

\* The reservation and the record of escrow n go.
Settle(n) ==
  /\ reserved' = [reserved EXCEPT ![escrows[n].token] = @ - escrows[n].amount]
  /\ escrows' = [m \in DOMAIN escrows \ {n} |-> escrows[m]]
  /\ UNCHANGED nextEscrow

PayEscrow(n) ==
  /\ ~frozen
  /\ balance[escrows[n].token] >= escrows[n].amount
  /\ balance' = [balance EXCEPT ![escrows[n].token] = @ - escrows[n].amount]
  /\ Settle(n)

\* Owners release a quorum escrow up to its deadline.
ReleaseEscrow(approvers, n) ==
  /\ Cosigned(approvers)
  /\ escrows[n].mode = "OwnerQuorumUntil"
  /\ now <= escrows[n].releaseAt
  /\ PayEscrow(n)
  /\ UNCHANGED <<now, electorateVars, proposalVars, frozen, guardian,
                 policyVars, tracker, recovery>>

\* Anyone releases a deadline escrow from its time on.
ReleaseEscrowByDeadline(n) ==
  /\ escrows[n].mode = "Deadline"
  /\ now >= escrows[n].releaseAt
  /\ PayEscrow(n)
  /\ UNCHANGED <<now, electorateVars, proposalVars, frozen, guardian,
                 policyVars, tracker, recovery>>

\* Mutant of Refundable: any escrow past its time can be taken back.
RefundableInAnyMode(e) == now > e.releaseAt

Refundable(e) == e.mode = "OwnerQuorumUntil" /\ now > e.releaseAt

\* Anyone takes back a quorum escrow nobody released; no money moves.
RefundEscrow(n) ==
  /\ Refundable(escrows[n])
  /\ Settle(n)
  /\ UNCHANGED <<now, electorateVars, proposalVars, frozen, guardian,
                 balance, policyVars, tracker, recovery>>

-----------------------------------------------------------------------------
(* The next-state relation *)

Create ==
  \E p \in Proposers, k \in Kind, d \in Durations :
    \/ ProposeTransfer(p, k, d)
    \/ ProposeEscrow(p, k, d)
    \/ ProposeSpendingLimit(p, k, d)
    \/ ProposeSpendingWindow(p, k, d)
    \/ ProposeAssetRegistry(p, k, d)
    \/ ProposeApproveToken(p, k, d)
    \/ ProposeUnapproveToken(p, k, d)

Execute ==
  \E x \in Address, id \in Ids :
    \/ ExecuteTransfer(x, id)
    \/ ExecuteEscrow(x, id)
    \/ ExecuteSpendingLimit(x, id)
    \/ ExecuteSpendingWindow(x, id)
    \/ ExecuteAssetRegistry(x, id)
    \/ ExecuteApproveToken(x, id)
    \/ ExecuteUnapproveToken(x, id)

\* Calls on a proposal that move no money, and time.
Lifecycle ==
  /\ \/ \E a \in Address, id \in Ids : Approve(a, id)
     \/ \E a \in Address, id \in Ids : Revoke(a, id)
     \/ \E a \in Address, id \in Ids : CancelProposal(a, id)
     \/ \E a \in Address, ids \in SUBSET Ids : CancelExpired(a, ids)
     \/ \E ids \in SUBSET Ids : SweepExpired(ids)
     \/ Tick
  /\ UNCHANGED <<guardian, vaultVars, escrows, nextEscrow>>

SettleEscrow ==
  \E n \in DOMAIN escrows :
    \/ \E S \in SUBSET Address : ReleaseEscrow(S, n)
    \/ ReleaseEscrowByDeadline(n)
    \/ RefundEscrow(n)

Emergency ==
  /\ \/ \E a \in Address : Freeze(a)
     \/ \E S \in SUBSET Address : Unfreeze(S)
     \/ \E S \in SUBSET Address, a \in GuardianCandidates : SetGuardian(S, a)
  /\ UNCHANGED <<vaultVars, escrows, nextEscrow>>

Recovery ==
  /\ \/ \E a \in Address : EnterRecovery(a)
     \/ \E S \in SUBSET Address : ExitRecovery(S)
  /\ UNCHANGED <<escrows, nextEscrow>>

Income ==
  /\ \E t \in Token : Deposit(t)
  /\ UNCHANGED <<escrows, nextEscrow>>

Next == Create \/ Lifecycle \/ Execute \/ SettleEscrow \/ Emergency \/ Recovery \/ Income

Spec == Init /\ [][Next]_vars

-----------------------------------------------------------------------------
(* What must hold *)

(***************************************************************************)
(* What is reserved of a token is what its unsettled escrows promise,      *)
(* through creations, releases and refunds in any order: an escrow that is *)
(* settled frees exactly its own reservation, once.                        *)
(***************************************************************************)
ReservedMatchesEscrows ==
  \A t \in Token :
    reserved[t] = Total([n \in DOMAIN escrows |-> escrows[n].amount],
                        {n \in DOMAIN escrows : escrows[n].token = t})

(***************************************************************************)
(* Escrows stay covered by the balance, whatever else is paid, reserved,   *)
(* released or sent in, as long as no executed batch pays one token in     *)
(* several legs: each single payment respects the reservations.            *)
(***************************************************************************)
Splits(k) ==
  k.op = "Transfer" /\ \E i, j \in DOMAIN k.legs : i # j /\ k.legs[i].token = k.legs[j].token

CoveredUnlessSplit ==
  (\A i \in Ids : proposals[i].status = "Executed" => ~Splits(proposals[i].kind))
    => \A t \in Token : reserved[t] <= balance[t]

\* What the escrows promise is set aside, all of it and no more, and it is there.
FundsAccounted == ReservedMatchesEscrows /\ CoveredUnlessSplit

(***************************************************************************)
(* An escrow ends in exactly one of two ways: paid in full out of the      *)
(* treasury, or taken back with no money moved, and that only when it      *)
(* needed a quorum and its time has passed.  Ids are never used twice.     *)
(***************************************************************************)
Paid(n)     == balance' = [balance EXCEPT ![escrows[n].token] = @ - escrows[n].amount]
Returned(n) ==
  /\ escrows[n].mode = "OwnerQuorumUntil"
  /\ now > escrows[n].releaseAt
  /\ balance' = balance

EscrowsEndOnce ==
  [][/\ \A n \in DOMAIN escrows \ DOMAIN escrows' : Paid(n) \/ Returned(n)
     /\ \A n \in DOMAIN escrows' \ DOMAIN escrows : n >= nextEscrow /\ n < nextEscrow']_vars

(***************************************************************************)
(* What holds the money back holds it in every order of calls. In recovery *)
(* mode, and of a token removed from the registry however long its         *)
(* transfer was approved, nothing leaves but the amount of one escrow, out *)
(* of what was set aside for it (lib.rs:3724-3725, 5648-5671): what is not *)
(* reserved stays. A frozen contract pays nobody, by proposal or by        *)
(* escrow, and changes no limit, window or approved token (lib.rs:3689).   *)
(* That recovery "stops treasury outflows" (lib.rs:5581) is not so: an     *)
(* escrow may be agreed to before it or during it, for execute asks        *)
(* require_not_recovery of transfers only, and be released in either case. *)
(***************************************************************************)
PaysOut(t) == balance'[t] < balance[t]

OutOfEscrow(t) ==
  \E n \in DOMAIN escrows \ DOMAIN escrows' :
    /\ escrows[n].token = t
    /\ balance[t] - balance'[t] = escrows[n].amount
    /\ reserved[t] - reserved'[t] = escrows[n].amount

RecoveryHolds == recovery => \A t \in Token : PaysOut(t) => OutOfEscrow(t)

FreezeHolds ==
  frozen => /\ \A t \in Token : ~PaysOut(t)
            /\ UNCHANGED policyVars
            /\ DOMAIN escrows' \subseteq DOMAIN escrows

RegistryHolds == registryOn => \A t \in Token \ approved : PaysOut(t) => OutOfEscrow(t)

StopsHoldFunds == [][RecoveryHolds /\ FreezeHolds /\ RegistryHolds]_vars

=============================================================================
