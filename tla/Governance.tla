------------------------------ MODULE Governance ------------------------------
(***************************************************************************)
(* The multisig governing itself (contracts/accord/src/lib.rs): proposals  *)
(* that add, remove or re-weight owners, change the threshold, grant or    *)
(* revoke roles and rotate the guardian.  Each kind is validated twice,    *)
(* when it is proposed and again when it executes, against a state that    *)
(* other proposals may have changed in between.                            *)
(***************************************************************************)
EXTENDS Guardian

CONSTANTS
  MaxOwners,  \* MAX_OWNERS
  PctCap,     \* MAX_SINGLE_OWNER_WEIGHT_PCT, also the initial cap
  Genesis,    \* bound: the weights and threshold initialize is called with
  Menu,       \* bound: the kinds proposers ask for
  Pcts        \* bound: caps set_max_single_owner_weight_pct is called with

AddOwnerKind        == [op : {"AddOwner"}, owner : Address, weight : Weights]
RemoveOwnerKind     == [op : {"RemoveOwner"}, owner : Address]
ChangeWeightKind    == [op : {"ChangeOwnerWeight"}, owner : Address, weight : Weights]
ChangeThresholdKind == [op : {"ChangeThreshold"}, threshold : Nat \ {0}]
GrantRoleKind       == [op : {"GrantRole"}, target : Address, role : Role]
RevokeRoleKind      == [op : {"RevokeRole"}, target : Address, role : Role]
TransferGuardianKind == [op : {"TransferGuardian"}, guardian : Address]

ASSUME GovernanceAssumption ==
  /\ MaxOwners \in Nat \ {0}
  /\ PctCap \in Nat \ {0}
  /\ Genesis \subseteq [weight : [Address -> 0..MaxOwnerWeight], threshold : Nat \ {0}]
  /\ Pcts \subseteq Nat
  /\ Menu \subseteq Kind
  /\ \A k \in Kind :
       \/ k \in AddOwnerKind
       \/ k \in RemoveOwnerKind
       \/ k \in ChangeWeightKind
       \/ k \in ChangeThresholdKind
       \/ k \in GrantRoleKind
       \/ k \in RevokeRoleKind
       \/ k \in TransferGuardianKind

VARIABLES
  maxPct,      \* MAXOWNP: the most one owner may weigh, in percent of the total
  roleMembers  \* ROLEMEM: the addresses holding each role

vars == <<now, weight, totalWeight, threshold, roles, frozen, proposals, counted,
          activeIds, activeCount, guardian, maxPct, roleMembers>>

-----------------------------------------------------------------------------
(* initialize *)

Init ==
  /\ now = 1
  /\ \E g \in Genesis : weight = g.weight /\ threshold = g.threshold
  /\ Owners # {} /\ Cardinality(Owners) <= MaxOwners
  /\ totalWeight = WeightOf(Owners)
  /\ totalWeight \in 1..(MaxOwners * MaxOwnerWeight)
  /\ threshold <= totalWeight
  /\ roles = [a \in Address |-> IF IsOwner(a) THEN DefaultOwnerRoles ELSE {}]
  /\ roleMembers = [r \in Role |-> {a \in Address : HasRole(a, r)}]
  /\ maxPct = PctCap
  /\ frozen = FALSE
  /\ guardian = NoGuardian
  /\ proposals = << >>
  /\ counted = << >>
  /\ activeIds = {}
  /\ activeCount = 0

-----------------------------------------------------------------------------
(* Helpers *)

\* A single owner's weight w is within the cap when the total is total.
WithinCap(w, total) == w * 100 <= total * maxPct

\* Mutant of TotalAfterAdd: the new owner's weight is left out.
TotalAfterAddForgotten(k) == totalWeight

\* The total once k.owner joins, or a leaves.
TotalAfterAdd(k)    == totalWeight + k.weight
TotalAfterRemove(a) == totalWeight - weight[a]

\* The total once k.owner weighs k.weight instead of what it weighs now.
TotalAfterChange(k) == totalWeight - weight[k.owner] + k.weight

\* Mutant of SetRoles: a stays in the index of the roles it loses.
SetRolesKeepingIndex(a, rs) ==
  /\ roles' = [roles EXCEPT ![a] = rs]
  /\ roleMembers' = [r \in Role |-> IF r \in rs THEN roleMembers[r] \cup {a} ELSE roleMembers[r]]

\* update_owner_roles: a leaves the index of its old roles, enters the new ones.
SetRoles(a, rs) ==
  /\ roles' = [roles EXCEPT ![a] = rs]
  /\ roleMembers' = [r \in Role |->
       LET rest == IF r \in roles[a] THEN roleMembers[r] \ {a} ELSE roleMembers[r]
       IN  IF r \in rs THEN rest \cup {a} ELSE rest]

\* Approver weight left if target lost the Approver role.
RemainingApproverWeight(target) ==
  IF HasRole(target, "Approver") /\ IsOwner(target)
    THEN TotalApproverWeight - weight[target]
    ELSE TotalApproverWeight

KeepsQuorumWithout(target, role) ==
  role = "Approver" => RemainingApproverWeight(target) >= threshold

-----------------------------------------------------------------------------
(* Proposing *)

Propose(p, k, d) ==
  /\ MayPropose(p)
  /\ Register(p, k, d)
  /\ UNCHANGED <<now, electorateVars, frozen, guardian, maxPct, roleMembers>>

ProposeAddOwner(p, k, d) ==
  /\ k.op = "AddOwner"
  /\ ~IsOwner(k.owner)
  /\ Cardinality(Owners) < MaxOwners
  /\ WithinCap(k.weight, TotalAfterAdd(k))
  /\ Propose(p, k, d)

ProposeRemoveOwner(p, k, d) ==
  /\ k.op = "RemoveOwner"
  /\ IsOwner(k.owner)
  /\ Cardinality(Owners) > 1
  /\ TotalAfterRemove(k.owner) >= threshold
  /\ Propose(p, k, d)

ProposeChangeWeight(p, k, d) ==
  /\ k.op = "ChangeOwnerWeight"
  /\ IsOwner(k.owner)
  /\ totalWeight >= weight[k.owner]
  /\ WithinCap(k.weight, TotalAfterChange(k))
  /\ Propose(p, k, d)

ProposeChangeThreshold(p, k, d) ==
  /\ k.op = "ChangeThreshold"
  /\ k.threshold <= totalWeight
  /\ Propose(p, k, d)

ProposeGrantRole(p, k, d) ==
  /\ k.op = "GrantRole"
  /\ ~HasRole(k.target, k.role)
  /\ Propose(p, k, d)

ProposeRevokeRole(p, k, d) ==
  /\ k.op = "RevokeRole"
  /\ HasRole(k.target, k.role)
  /\ KeepsQuorumWithout(k.target, k.role)
  /\ Propose(p, k, d)

ProposeTransferGuardian(p, k, d) ==
  /\ k.op = "TransferGuardian"
  /\ Propose(p, k, d)

-----------------------------------------------------------------------------
(* Executing *)

\* What every kind of execution shares when it leaves other proposals alone.
Conclude(id) ==
  /\ FinishExecute(id, proposals)
  /\ UNCHANGED <<now, frozen, counted, maxPct>>

(***************************************************************************)
(* The owner map is overwritten and the total incremented; that the        *)
(* address is not an owner yet was checked when this was proposed, and is  *)
(* not checked again.                                                      *)
(***************************************************************************)
ExecuteAddOwner(x, id) ==
  LET k == proposals[id].kind
  IN  /\ MayExecute(x, id)
      /\ k.op = "AddOwner"
      /\ Cardinality(Owners) < MaxOwners
      /\ WithinCap(k.weight, TotalAfterAdd(k))
      /\ weight' = [weight EXCEPT ![k.owner] = k.weight]
      /\ totalWeight' = TotalAfterAdd(k)
      /\ SetRoles(k.owner, DefaultOwnerRoles)
      /\ Conclude(id)
      /\ UNCHANGED <<threshold, guardian>>

\* Mutant of OtherActive: nobody looks at the quorums of other proposals.
OtherActiveIgnored(id) == {}

\* Proposals other than id that could still execute.
OtherActive(id) == {i \in Ids \ {id} : IsActive(proposals[i])}

\* Mutant of Stripped: the tallies keep the approval of the removed owner.
StrippedNothing(a) == proposals

\* Every active proposal without the approval of a.
Stripped(a) ==
  [i \in Ids |-> IF IsActive(proposals[i]) /\ counted[i][a] > 0
                   THEN WithoutApproval(proposals[i], counted[i][a])
                   ELSE proposals[i]]

\* Mutant of StrippedCounts: the approval records of the removed owner stay.
StrippedCountsNothing(a) == counted

StrippedCounts(a) ==
  [i \in Ids |-> IF IsActive(proposals[i])
                   THEN [counted[i] EXCEPT ![a] = 0]
                   ELSE counted[i]]

(***************************************************************************)
(* Removing an owner also withdraws the approvals it gave to proposals     *)
(* that can still execute, this one included; the quorums of the others    *)
(* must stay within the remaining weight.                                  *)
(***************************************************************************)
ExecuteRemoveOwner(x, id) ==
  LET a    == proposals[id].kind.owner
      left == TotalAfterRemove(a)
  IN  /\ MayExecute(x, id)
      /\ proposals[id].kind.op = "RemoveOwner"
      /\ left >= threshold
      /\ \A i \in OtherActive(id) : proposals[i].quorum <= left
      /\ \A i \in Ids : IsActive(proposals[i]) => proposals[i].approvals >= counted[i][a]
      /\ weight' = [weight EXCEPT ![a] = 0]
      /\ totalWeight' = left
      /\ SetRoles(a, {})
      /\ counted' = StrippedCounts(a)
      /\ FinishExecute(id, Stripped(a))
      /\ UNCHANGED <<now, threshold, frozen, guardian, maxPct>>

ExecuteChangeWeight(x, id) ==
  LET k        == proposals[id].kind
      newTotal == TotalAfterChange(k)
  IN  /\ MayExecute(x, id)
      /\ k.op = "ChangeOwnerWeight"
      /\ IsOwner(k.owner)
      /\ totalWeight >= weight[k.owner]
      /\ WithinCap(k.weight, newTotal)
      /\ newTotal >= threshold
      /\ \A i \in StillActive(activeIds, proposals) : proposals[i].quorum <= newTotal
      /\ weight' = [weight EXCEPT ![k.owner] = k.weight]
      /\ totalWeight' = newTotal
      /\ Conclude(id)
      /\ UNCHANGED <<threshold, roles, guardian, roleMembers>>

ExecuteChangeThreshold(x, id) ==
  LET k == proposals[id].kind
  IN  /\ MayExecute(x, id)
      /\ k.op = "ChangeThreshold"
      /\ k.threshold <= totalWeight
      /\ threshold' = k.threshold
      /\ Conclude(id)
      /\ UNCHANGED <<weight, totalWeight, roles, guardian, roleMembers>>

ExecuteGrantRole(x, id) ==
  LET k == proposals[id].kind
  IN  /\ MayExecute(x, id)
      /\ k.op = "GrantRole"
      /\ ~HasRole(k.target, k.role)
      /\ SetRoles(k.target, roles[k.target] \cup {k.role})
      /\ Conclude(id)
      /\ UNCHANGED <<weight, totalWeight, threshold, guardian>>

ExecuteRevokeRole(x, id) ==
  LET k == proposals[id].kind
  IN  /\ MayExecute(x, id)
      /\ k.op = "RevokeRole"
      /\ HasRole(k.target, k.role)
      /\ KeepsQuorumWithout(k.target, k.role)
      /\ SetRoles(k.target, roles[k.target] \ {k.role})
      /\ Conclude(id)
      /\ UNCHANGED <<weight, totalWeight, threshold, guardian>>

ExecuteTransferGuardian(x, id) ==
  /\ MayExecute(x, id)
  /\ proposals[id].kind.op = "TransferGuardian"
  /\ guardian' = proposals[id].kind.guardian
  /\ Conclude(id)
  /\ UNCHANGED <<electorateVars, roleMembers>>

-----------------------------------------------------------------------------
(* Co-signed parameter change *)

SetMaxPct(approvers, pct) ==
  /\ pct \in 1..PctCap
  /\ Cosigned(approvers)
  /\ maxPct' = pct
  /\ UNCHANGED <<now, electorateVars, frozen, proposalVars, guardian, roleMembers>>

-----------------------------------------------------------------------------
(* The next-state relation *)

Create ==
  \E p \in Proposers, k \in Menu, d \in Durations :
    \/ ProposeAddOwner(p, k, d)
    \/ ProposeRemoveOwner(p, k, d)
    \/ ProposeChangeWeight(p, k, d)
    \/ ProposeChangeThreshold(p, k, d)
    \/ ProposeGrantRole(p, k, d)
    \/ ProposeRevokeRole(p, k, d)
    \/ ProposeTransferGuardian(p, k, d)

\* Calls on a proposal that leave the state outside the lifecycle alone.
Lifecycle ==
  /\ \/ \E a \in Address, id \in Ids : Approve(a, id)
     \/ \E a \in Address, id \in Ids : Revoke(a, id)
     \/ \E a \in Address, id \in Ids : CancelProposal(a, id)
     \/ \E a \in Address, ids \in SUBSET Ids : CancelExpired(a, ids)
     \/ \E ids \in SUBSET Ids : SweepExpired(ids)
     \/ Tick
  /\ UNCHANGED <<guardian, maxPct, roleMembers>>

Execute ==
  \E x \in Address, id \in Ids :
    \/ ExecuteAddOwner(x, id)
    \/ ExecuteRemoveOwner(x, id)
    \/ ExecuteChangeWeight(x, id)
    \/ ExecuteChangeThreshold(x, id)
    \/ ExecuteGrantRole(x, id)
    \/ ExecuteRevokeRole(x, id)
    \/ ExecuteTransferGuardian(x, id)

Emergency ==
  /\ \/ \E a \in Address : Freeze(a)
     \/ \E S \in SUBSET Address : Unfreeze(S)
     \/ \E S \in SUBSET Address, a \in GuardianCandidates : SetGuardian(S, a)
  /\ UNCHANGED <<maxPct, roleMembers>>

Parameters ==
  \E S \in SUBSET Address, pct \in Pcts : SetMaxPct(S, pct)

Next == Create \/ Lifecycle \/ Execute \/ Emergency \/ Parameters

Spec == Init /\ [][Next]_vars

-----------------------------------------------------------------------------
(* What must hold *)

\* Every variable keeps its type.
TypeOK ==
  /\ now \in Nat \ {0}
  /\ weight \in [Address -> 0..MaxOwnerWeight]
  /\ totalWeight \in Nat
  /\ threshold \in Nat \ {0}
  /\ roles \in [Address -> SUBSET Role]
  /\ frozen \in BOOLEAN
  /\ proposals \in Seq(Proposal)
  /\ counted \in Seq([Address -> Nat])
  /\ Len(counted) = Len(proposals)
  /\ activeIds \subseteq Ids
  /\ activeCount \in 0..MaxActive
  /\ guardian \in Address \cup {NoGuardian}
  /\ maxPct \in Nat
  /\ roleMembers \in [Role -> SUBSET Address]

(***************************************************************************)
(* The threshold, and the quorum of every proposal that can still execute, *)
(* stay within the total weight on record, whatever owner changes execute  *)
(* while they are open (INV-02, and the re-validations of execute).        *)
(***************************************************************************)
QuorumAttainable ==
  /\ threshold <= totalWeight
  /\ \A i \in Ids : IsActive(proposals[i]) => proposals[i].quorum <= totalWeight

(***************************************************************************)
(* The index of active proposals misses none that can still execute and    *)
(* holds none that is finished, and the stored count is its size: creation *)
(* is refused exactly when MaxActive proposals are open (INV-08), and the  *)
(* quorum check of a weight change, which walks the index, misses nothing. *)
(***************************************************************************)
ActiveIndexExact ==
  /\ \A i \in Ids : IsActive(proposals[i]) => i \in activeIds
  /\ \A i \in activeIds : proposals[i].status \notin Terminal
  /\ activeCount = Cardinality(activeIds)

(***************************************************************************)
(* Approvals standing on a proposal that can still execute are all by      *)
(* present owners: removing an owner takes its vote off everything open,   *)
(* and adding it back does not revive it (INV-04).                         *)
(***************************************************************************)
NoGhostVotes ==
  \A i \in Ids, a \in Address :
    IsActive(proposals[i]) /\ counted[i][a] > 0 => IsOwner(a)

(***************************************************************************)
(* The running tally of a proposal that can still execute is the sum of    *)
(* the weights recorded for its approvals, through any order of approvals, *)
(* revocations, weight changes and owner removals (INV-04).                *)
(***************************************************************************)
TallyMatches ==
  \A i \in Ids :
    IsActive(proposals[i]) => proposals[i].approvals = Total(counted[i], Address)

(***************************************************************************)
(* A proposal at its quorum has its timer set, to a past time: an unset    *)
(* readyAt is 0, and the time-lock measured from it would have elapsed     *)
(* long ago (INV-07).                                                      *)
(***************************************************************************)
ReadyHasTimer ==
  \A i \in Ids :
    proposals[i].approvals >= proposals[i].quorum => proposals[i].readyAt \in 1..now

(***************************************************************************)
(* The total weight never under-counts the owners: the quorums checked     *)
(* against it are never larger than checked.                               *)
(***************************************************************************)
TotalCoversOwners == WeightOf(Owners) <= totalWeight

\* The index from role to holders is the inverse of the roles of each address.
RoleIndexExact ==
  \A r \in Role : roleMembers[r] = {a \in Address : HasRole(a, r)}

(***************************************************************************)
(* The moves a proposal's derived status may make, over every call and the *)
(* passing of time: an executed, cancelled or expired proposal is final    *)
(* and only a proposal at its quorum executes (INV-06).                    *)
(***************************************************************************)
LegalMoves ==
  {<<s, s>> : s \in Derived} \cup
  {<<"Pending", "Ready">>, <<"Ready", "Pending">>,
   <<"Pending", "Cancelled">>, <<"Ready", "Executed">>,
   <<"Pending", "Expired">>, <<"Ready", "Expired">>}

LifecycleMoves ==
  [][\A i \in Ids : <<DeriveStatus(proposals[i]), DeriveStatus(proposals[i])'>> \in LegalMoves]_vars

-----------------------------------------------------------------------------
(* The ballots the proposals stand for *)

BallotState(p) ==
  LET s == DeriveStatus(p)
  IN  IF s = "Executed" THEN "carried"
      ELSE IF s = "Cancelled" THEN "withdrawn"
      ELSE IF s = "Expired" THEN "lapsed"
      ELSE "open"

BallotView ==
  [i \in Ids |-> [state  |-> BallotState(proposals[i]),
                  quorum |-> proposals[i].quorum,
                  votes  |-> counted[i]]]

B == INSTANCE Ballots WITH Member     <- Address,
                           Weight     <- Weights,
                           Quorum     <- Nat \ {0},
                           electorate <- Owners,
                           ballots    <- BallotView

(***************************************************************************)
(* Every step of the contract is a step of the ballots it stands for, or   *)
(* none: the running tally, the stored status and the quorum check on them *)
(* do what adding up the present owners' votes would do.                   *)
(***************************************************************************)
ImplementsBallots == B!BallotSpec

-----------------------------------------------------------------------------
(* What the documents state and the code does not keep *)

\* INV-01 of docs/INVARIANTS.md: the total is the sum of the owner weights.
TotalMatchesOwners == totalWeight = WeightOf(Owners)

=============================================================================
