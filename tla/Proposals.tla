------------------------------ MODULE Proposals ------------------------------
(***************************************************************************)
(* The proposal lifecycle of the Accord multisig contract                  *)
(* (contracts/accord/src/lib.rs): creation, approval, revocation,          *)
(* cancellation, execution gate, expiry and the index of active proposals. *)
(*                                                                         *)
(* A contract invocation is atomic: it either returns Ok and all its       *)
(* writes take effect, or it returns Err (or traps) and none does.  Every  *)
(* action below is therefore one successful invocation; the conditions     *)
(* under which the code returns Err are its guards.                        *)
(*                                                                         *)
(* What a proposal does when it executes is not fixed here: Governance     *)
(* supplies the kinds that change the multisig itself.                     *)
(***************************************************************************)
EXTENDS Integers, Sequences, FiniteSets, Sums

CONSTANTS
  Address,         \* accounts that may be owners, hold roles or be guardian
  Kind,            \* what a proposal may ask for (ProposalKind)
  MaxActive,       \* MAX_ACTIVE_PROPOSALS
  MaxOwnerWeight,  \* MAX_OWNER_WEIGHT
  MaxDuration,     \* MAX_PROPOSAL_DURATION
  TimeLockDelay,   \* time_lock_delay given to initialize; 0 means no time-lock
  Proposers,       \* bound: the addresses that try to propose
  Durations,       \* bound: deadline - now, as requested by proposers
  MaxProposals,    \* bound: number of proposals ever created
  MaxTime          \* bound: last ledger timestamp

ASSUME BoundsAssumption ==
  /\ IsFiniteSet(Address)
  /\ MaxActive \in Nat \ {0}
  /\ MaxOwnerWeight \in Nat \ {0}
  /\ MaxDuration \in Nat
  /\ TimeLockDelay \in Nat
  /\ Proposers \subseteq Address
  /\ Durations \subseteq Nat
  /\ MaxProposals \in Nat
  /\ MaxTime \in Nat

VARIABLES
  now,          \* env.ledger().timestamp()
  weight,       \* OWNERS: the weight of each address, 0 when it is no owner
  totalWeight,  \* TWGT
  threshold,    \* THRESH
  roles,        \* ROLE: the roles each address holds
  frozen,       \* FROZEN
  proposals,    \* PROP: the i-th proposal ever created, ids start at 1
  counted,      \* APPR: counted[i][a], the weight a's approval of i added
  activeIds,    \* ACTIDS
  activeCount   \* ACTCNT

electorateVars == <<weight, totalWeight, threshold, roles>>
proposalVars   == <<proposals, counted, activeIds, activeCount>>

Weights == 1..MaxOwnerWeight
Role    == {"Proposer", "Approver", "Executor", "Viewer"}

DefaultOwnerRoles == {"Proposer", "Approver", "Executor"}

Status     == {"Pending", "Ready", "Executed", "Cancelled"}
Terminal   == {"Executed", "Cancelled"}
Derived    == Status \cup {"Expired"}

Proposal == [proposer : Address, kind : Kind, deadline : Nat, approvals : Nat,
             quorum : Nat, readyAt : Nat, status : Status]

-----------------------------------------------------------------------------
(* Owners and roles *)

IsOwner(a)    == weight[a] > 0
Owners        == {a \in Address : IsOwner(a)}
HasRole(a, r) == r \in roles[a]

\* The combined weight of a set of addresses.
WeightOf(S) == Total(weight, S)

\* Owners whose approvals can count: approve requires the Approver role.
TotalApproverWeight == WeightOf({a \in Owners : HasRole(a, "Approver")})

\* The co-signers of a privileged call: distinct owners, by weight.
Cosigned(S) ==
  /\ S \subseteq Owners
  /\ WeightOf(S) >= threshold

-----------------------------------------------------------------------------
(* Status *)

\* Mutant of DeriveStatus: expiry overrides a terminal status.
DeriveStatusExpiryFirst(p) ==
  IF now > p.deadline                 THEN "Expired"
  ELSE IF p.status \in Terminal       THEN p.status
  ELSE IF p.approvals >= p.quorum     THEN "Ready"
  ELSE "Pending"

\* Terminal statuses are never overridden; expiry is a fact about time alone.
DeriveStatus(p) ==
  IF p.status \in Terminal           THEN p.status
  ELSE IF now > p.deadline            THEN "Expired"
  ELSE IF p.approvals >= p.quorum     THEN "Ready"
  ELSE "Pending"

IsActive(p) == DeriveStatus(p) \in {"Pending", "Ready"}

Restatus(p) == [p EXCEPT !.status = DeriveStatus(p)]

Ids == DOMAIN proposals

\* The ids of index S that are still worth tracking, given proposals ps.
StillActive(S, ps) == {i \in S : IsActive(ps[i])}

\* Mutant of RemoveActive: the count drops by the ids given, not by those that left.
RemoveActiveCountingIds(ids, ps) ==
  /\ activeIds'   = StillActive(activeIds \ ids, ps)
  /\ activeCount' = activeCount - Cardinality(ids)

(***************************************************************************)
(* remove_active_proposals drops the given ids and, with them, every       *)
(* tracked proposal that is no longer active; ps are the proposals as the  *)
(* call has already written them.                                          *)
(***************************************************************************)
RemoveActive(ids, ps) ==
  /\ activeIds'   = StillActive(activeIds \ ids, ps)
  /\ activeCount' = Cardinality(activeIds')

-----------------------------------------------------------------------------
(* Creation *)

MayPropose(p) ==
  /\ HasRole(p, "Proposer")
  /\ ~frozen

NewProposal(p, k, d) ==
  [proposer |-> p, kind |-> k, deadline |-> now + d, approvals |-> 0,
   quorum |-> threshold, readyAt |-> 0, status |-> "Pending"]

\* Mutant of HasRoom: one proposal too many.
HasRoomAtLimit(kept) == Cardinality(kept) <= MaxActive

\* One more proposal may become active besides those in kept.
HasRoom(kept) == Cardinality(kept) < MaxActive

(***************************************************************************)
(* The common end of every create_*_proposal entrypoint: check the         *)
(* deadline, store the proposal with the quorum snapshotted from the       *)
(* threshold, and register it among the active ones, expired entries being *)
(* purged from the index first.                                            *)
(***************************************************************************)
Register(p, k, d) ==
  LET kept == StillActive(activeIds, proposals)
      id   == Len(proposals) + 1
  IN  /\ Len(proposals) < MaxProposals
      /\ d > 0 /\ d <= MaxDuration
      /\ HasRoom(kept)
      /\ proposals'   = Append(proposals, NewProposal(p, k, d))
      /\ counted'     = Append(counted, [a \in Address |-> 0])
      /\ activeIds'   = kept \cup {id}
      /\ activeCount' = Cardinality(activeIds')

-----------------------------------------------------------------------------
(* Voting *)

MayVote(a) == HasRole(a, "Approver") /\ IsOwner(a)

\* Mutant of WithApproval: the timer is set only above the quorum.
WithApprovalAboveQuorum(p, w) ==
  LET tally == p.approvals + w
  IN  Restatus([p EXCEPT !.approvals = tally,
                         !.readyAt = IF @ = 0 /\ tally > p.quorum THEN now ELSE @])

\* readyAt remembers the first time the quorum was reached.
WithApproval(p, w) ==
  LET tally == p.approvals + w
  IN  Restatus([p EXCEPT !.approvals = tally,
                         !.readyAt = IF @ = 0 /\ tally >= p.quorum THEN now ELSE @])

\* Mutant of WithoutApproval: the tally keeps the revoked weight.
WithoutApprovalKeepingTally(p, w) == Restatus(p)

WithoutApproval(p, w) ==
  Restatus([p EXCEPT !.approvals = @ - w])

Approve(a, id) ==
  /\ MayVote(a)
  /\ IsActive(proposals[id])
  /\ counted[id][a] = 0
  /\ counted'   = [counted EXCEPT ![id][a] = weight[a]]
  /\ proposals' = [proposals EXCEPT ![id] = WithApproval(@, weight[a])]
  /\ UNCHANGED <<now, electorateVars, frozen, activeIds, activeCount>>

Revoke(a, id) ==
  /\ MayVote(a)
  /\ IsActive(proposals[id])
  /\ counted[id][a] > 0
  /\ proposals[id].approvals >= counted[id][a]
  /\ counted'   = [counted EXCEPT ![id][a] = 0]
  /\ proposals' = [proposals EXCEPT ![id] = WithoutApproval(@, counted[id][a])]
  /\ UNCHANGED <<now, electorateVars, frozen, activeIds, activeCount>>

-----------------------------------------------------------------------------
(* Cancellation and expiry *)

CancelProposal(a, id) ==
  /\ proposals[id].proposer = a
  /\ DeriveStatus(proposals[id]) = "Pending"
  /\ proposals' = [proposals EXCEPT ![id].status = "Cancelled"]
  /\ RemoveActive({id}, proposals')
  /\ UNCHANGED <<now, electorateVars, frozen, counted>>

ExpiredAmong(ids) == {i \in ids : DeriveStatus(proposals[i]) = "Expired"}

Sweep(swept) ==
  /\ IF swept = {}
       THEN UNCHANGED <<activeIds, activeCount>>
       ELSE RemoveActive(swept, proposals)
  /\ UNCHANGED <<now, electorateVars, frozen, proposals, counted>>

CancelExpired(a, ids) ==
  /\ HasRole(a, "Executor")
  /\ Sweep(ExpiredAmong(ids))

\* Open to anyone; an id that already left the index is not swept again.
SweepExpired(ids) == Sweep(ExpiredAmong(ids \cap activeIds))

-----------------------------------------------------------------------------
(* Execution *)

TimeLockElapsed(p) ==
  TimeLockDelay > 0 => now >= p.readyAt + TimeLockDelay

MayExecute(a, id) ==
  /\ HasRole(a, "Executor")
  /\ ~frozen
  /\ DeriveStatus(proposals[id]) = "Ready"
  /\ TimeLockElapsed(proposals[id])

(***************************************************************************)
(* The common end of execute.  The record of the executed proposal was     *)
(* read before its kind was dispatched, and is written back whole: whatever*)
(* the dispatch stored for the same id (others) is overwritten.            *)
(***************************************************************************)
FinishExecute(id, others) ==
  /\ proposals' = [others EXCEPT ![id] =
                     [proposals[id] EXCEPT !.status = "Executed"]]
  /\ RemoveActive({id}, proposals')

-----------------------------------------------------------------------------
(* Time *)

Tick ==
  /\ now < MaxTime
  /\ now' = now + 1
  /\ UNCHANGED <<electorateVars, frozen, proposalVars>>

=============================================================================
