--------------------------------- MODULE Vault ---------------------------------
(***************************************************************************)
(* The treasury as every outflow of the Accord contract sees it            *)
(* (contracts/accord/src/lib.rs): what each token contract holds for it,   *)
(* what is reserved for escrows, the spending limits with their trackers,  *)
(* the registry of approved tokens and recovery mode.                      *)
(* Treasury and Recurring move the money.  A token contract is external:   *)
(* it moves what it is told to when the balance suffices; a transfer it    *)
(* refuses reverts the call, which is then no step at all.                 *)
(***************************************************************************)
EXTENDS Guardian

CONSTANTS
  Token,          \* token contracts that answer the token interface
  NoLimit,        \* read_spending_limit returned None
  SpendingWindow, \* SPENDING_WINDOW, the window until one is configured
  Windows,        \* MIN_SPENDING_WINDOW..MAX_SPENDING_WINDOW
  Deposits,       \* bound: balances the treasury starts with
  MaxBalance      \* bound: deposits stop at this balance

ASSUME VaultAssumption ==
  /\ NoLimit \notin Nat
  /\ SpendingWindow \in Nat
  /\ Windows \subseteq Nat
  /\ Deposits \subseteq [Token -> Nat]
  /\ MaxBalance \in Nat

VARIABLES
  balance,    \* what the treasury holds of each token
  reserved,   \* ESC reserved balance of each token
  limit,      \* SLIM: limit[a][t], or NoLimit
  window,     \* SWIND: window[a][t]
  tracker,    \* SPENT: tracker[a][t], epoch 0 when nothing was tracked
  registryOn, \* the approved-token registry is enforced
  approved,   \* the approved tokens
  recovery    \* RECOV

policyVars == <<limit, window, registryOn, approved>>
vaultVars  == <<balance, reserved, limit, window, tracker, registryOn, approved, recovery>>

Tracker == [spent : Nat, epoch : Nat]

\* Every registry that earlier proposals may have filled while it was off.
VaultInit ==
  /\ balance \in Deposits
  /\ reserved = [t \in Token |-> 0]
  /\ limit = [a \in Address |-> [t \in Token |-> NoLimit]]
  /\ window = [a \in Address |-> [t \in Token |-> SpendingWindow]]
  /\ tracker = [a \in Address |-> [t \in Token |-> [spent |-> 0, epoch |-> 0]]]
  /\ registryOn = FALSE
  /\ approved \in SUBSET Token
  /\ recovery = FALSE

-----------------------------------------------------------------------------
(* What outflows read *)

\* Mutant of Available: reservations are not subtracted.
AvailableInAll(t) == balance[t]

\* Funds no escrow has reserved; negative when the escrows are not covered.
Available(t) == balance[t] - reserved[t]

TokenAllowed(t) == registryOn => t \in approved

(***************************************************************************)
(* The window of a tracker runs for its length from the epoch.  Once it is *)
(* over nothing counts as spent.                                           *)
(***************************************************************************)
WindowOver(tr, length) == now > tr.epoch + length

EffectiveSpent(a, t) ==
  IF tracker[a][t].epoch = 0 \/ WindowOver(tracker[a][t], window[a][t])
    THEN 0
    ELSE tracker[a][t].spent

\* Mutant of WithinLimit: what was spent before is not counted.
WithinLimitAlone(a, t, n) == limit[a][t] # NoLimit => n <= limit[a][t]

WithinLimit(a, t, n) ==
  limit[a][t] # NoLimit => EffectiveSpent(a, t) + n <= limit[a][t]

(***************************************************************************)
(* Tracker tr after n more is spent in windows of the given length: the    *)
(* epoch is set by the first spend and never moves; after the window only  *)
(* the last spend is remembered.                                           *)
(***************************************************************************)
Charged(tr, n, length) ==
  LET started == [tr EXCEPT !.epoch = IF @ = 0 THEN now ELSE @]
  IN  [started EXCEPT !.spent = IF WindowOver(started, length) THEN n ELSE @ + n]

-----------------------------------------------------------------------------
(* Recovery mode, and money coming in *)

EnterRecovery(a) ==
  /\ IsGuardian(a)
  /\ recovery' = TRUE
  /\ UNCHANGED <<now, electorateVars, proposalVars, frozen, guardian,
                 balance, reserved, policyVars, tracker>>

ExitRecovery(approvers) ==
  /\ Cosigned(approvers)
  /\ recovery' = FALSE
  /\ UNCHANGED <<now, electorateVars, proposalVars, frozen, guardian,
                 balance, reserved, policyVars, tracker>>

\* Anyone may send the treasury tokens; the contract is not called.
Deposit(t) ==
  /\ balance[t] < MaxBalance
  /\ balance' = [balance EXCEPT ![t] = @ + 1]
  /\ UNCHANGED <<now, electorateVars, proposalVars, frozen, guardian,
                 reserved, policyVars, tracker, recovery>>

=============================================================================
