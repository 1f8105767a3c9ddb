------------------------------ MODULE MCGovernance ------------------------------
(* Small instances of Governance for TLC. *)
EXTENDS Governance

CONSTANTS alice, bob, carol

LOCAL F == INSTANCE Functions

\* The counted sums are the sums of the community modules.
ASSUME SumsAgree ==
  \A f \in [1..4 -> 0..3], S \in SUBSET (1..4) : Total(f, S) = F!SumFunctionOnSet(f, S)

Everything ==
  AddOwnerKind \cup RemoveOwnerKind \cup ChangeWeightKind \cup
  [op : {"ChangeThreshold"}, threshold : 1..MaxOwnerWeight * MaxOwners] \cup
  GrantRoleKind \cup RevokeRoleKind \cup TransferGuardianKind

AddCarol      == [op |-> "AddOwner", owner |-> carol, weight |-> 1]
RemoveBob     == [op |-> "RemoveOwner", owner |-> bob]
LighterAlice  == [op |-> "ChangeOwnerWeight", owner |-> alice, weight |-> 1]
Threshold(n) == [op |-> "ChangeThreshold", threshold |-> n]
Grant(t, r)  == [op |-> "GrantRole", target |-> t, role |-> r]
Revoked(t, r) == [op |-> "RevokeRole", target |-> t, role |-> r]
GuardianIs(g) == [op |-> "TransferGuardian", guardian |-> g]

\* Owners alice and bob of weights 2 and 1, carol outside; bob is needed for a quorum of 3.
Genesis1(n) == [weight |-> [x \in {alice, bob, carol} |->
                              IF x = alice THEN 2 ELSE IF x = bob THEN 1 ELSE 0],
               threshold |-> n]
QuorumOfTwo   == {Genesis1(2)}
QuorumOfThree == {Genesis1(3)}

MembershipMenu == {AddCarol, RemoveBob, LighterAlice, Threshold(2), Grant(bob, "Viewer")}
LifecycleMenu  == {RemoveBob, Revoked(bob, "Approver"), GuardianIs(carol)}
AdmissionMenu  == {AddCarol}

=============================================================================
