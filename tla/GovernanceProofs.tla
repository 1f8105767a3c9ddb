---------------------------- MODULE GovernanceProofs ----------------------------
(***************************************************************************)
(* The safety of Governance, and that it implements Ballots, proved for    *)
(* every set of addresses, every bound and every menu of proposals.        *)
(***************************************************************************)
EXTENDS Governance, ProposalsProofs

USE GovernanceAssumption, BoundsAssumption, GuardianAssumption

\* A timer, once set, was set in the past.
TimersPast == \A i \in Ids : proposals[i].readyAt <= now

\* The inductive invariant: each part needs the others to survive a step.
IInv ==
  /\ TypeOK
  /\ QuorumAttainable
  /\ ActiveIndexExact
  /\ NoGhostVotes
  /\ ReadyHasTimer
  /\ TimersPast

-----------------------------------------------------------------------------
(* Sequences of proposals *)

\* The proposals on record are numbered from 1 and typed.
LEMMA IdsAre ==
  ASSUME TypeOK
  PROVE  /\ Len(proposals) \in Nat
         /\ Ids = 1..Len(proposals)
         /\ DOMAIN counted = Ids
         /\ \A i \in Ids : proposals[i] \in Proposal
         /\ \A i \in Ids : counted[i] \in [Address -> Nat]
  <1>1. proposals \in Seq(Proposal) /\ counted \in Seq([Address -> Nat]) /\ Len(counted) = Len(proposals)
    BY DEF TypeOK
  <1>2. Len(proposals) \in Nat /\ Ids = 1..Len(proposals) /\ DOMAIN counted = 1..Len(counted)
    BY <1>1, LenProperties DEF Ids
  <1> QED
    BY <1>1, <1>2, ElementOfSeq

\* Replacing one record keeps the others.
LEMMA ReplaceOne ==
  ASSUME TypeOK, NEW id \in Ids, NEW q \in Proposal,
         proposals' = [proposals EXCEPT ![id] = q]
  PROVE  /\ proposals' \in Seq(Proposal)
         /\ Len(proposals') = Len(proposals)
         /\ Ids' = Ids
         /\ \A i \in Ids : proposals'[i] = IF i = id THEN q ELSE proposals[i]
  <1>1. proposals \in Seq(Proposal) /\ Ids = 1..Len(proposals)
    BY IdsAre DEF TypeOK
  <1>2. /\ proposals' \in Seq(Proposal)
        /\ Len(proposals') = Len(proposals)
        /\ \A i \in 1..Len(proposals) : proposals'[i] = IF i = id THEN q ELSE proposals[i]
    BY <1>1, ExceptSeq
  <1>3. Ids' = 1..Len(proposals')
    BY <1>2, LenProperties DEF Ids
  <1> QED
    BY <1>1, <1>2, <1>3

-----------------------------------------------------------------------------
(* The index of active proposals *)

\* The index is finite: it holds ids on record.
LEMMA IndexFinite ==
  ASSUME TypeOK
  PROVE  IsFiniteSet(activeIds)
  <1>1. IsFiniteSet(Ids)
    BY IdsAre, FS_Interval
  <1> QED
    BY <1>1, FS_Subset DEF TypeOK

(***************************************************************************)
(* remove_active_proposals keeps the index exact, provided the ids it drops*)
(* are no longer active and the step activates nothing.                    *)
(***************************************************************************)
LEMMA RemoveActiveExact ==
  ASSUME TypeOK, ActiveIndexExact, NEW ids,
         proposals' \in Seq(Proposal), Ids' = Ids, now' = now,
         RemoveActive(ids, proposals'),
         \A i \in Ids : IsActive(proposals'[i]) => IsActive(proposals[i]),
         \A i \in Ids : i \in ids => ~IsActive(proposals'[i])
  PROVE  /\ activeIds' \subseteq Ids'
         /\ activeCount' \in 0..MaxActive
         /\ ActiveIndexExact'
  <1>1. activeIds' = {i \in activeIds \ ids : IsActive(proposals'[i])}
    BY DEF RemoveActive, StillActive
  <1>2. activeIds' \subseteq activeIds
    BY <1>1
  <1>3. activeIds' \subseteq Ids'
    BY <1>2 DEF TypeOK
  <1>4. IsFiniteSet(activeIds') /\ Cardinality(activeIds') <= Cardinality(activeIds)
    BY <1>2, IndexFinite, FS_Subset
  <1>5. Cardinality(activeIds') \in Nat
    BY <1>4, FS_CardinalityType
  <1>6. activeCount' \in 0..MaxActive /\ activeCount' = Cardinality(activeIds')
    BY <1>4, <1>5, IndexFinite, FS_CardinalityType DEF RemoveActive, ActiveIndexExact, TypeOK
  <1>7. \A i \in Ids' : proposals'[i] \in Proposal
    BY LenProperties, ElementOfSeq DEF Ids
  <1>8. \A i \in Ids' : IsActive(proposals[i])' <=> IsActive(proposals'[i])
    BY <1>7 DEF IsActive, DeriveStatus
  <1>9. \A i \in Ids' : IsActive(proposals[i])' => i \in activeIds'
    BY <1>1, <1>8 DEF ActiveIndexExact
  <1>10. \A i \in activeIds' : proposals'[i].status \notin Terminal
    BY <1>1, <1>3, <1>7, ActiveStatus
  <1> QED
    BY <1>3, <1>6, <1>9, <1>10 DEF ActiveIndexExact

-----------------------------------------------------------------------------
(* Steps *)

\* When time stands still, a record is active after a step as it was before.
LEMMA ActiveNext ==
  ASSUME now' = now, NEW i \in Ids'
  PROVE  IsActive(proposals[i])' <=> IsActive(proposals'[i])
  BY DEF IsActive, DeriveStatus

\* The initial state satisfies the invariant: nothing is proposed yet.
LEMMA InitInv == Init => IInv
  <1> SUFFICES ASSUME Init PROVE IInv
    OBVIOUS
  <1>1. weight \in [Address -> 0..MaxOwnerWeight] /\ threshold \in Nat \ {0}
    BY DEF Init
  <1>2. totalWeight \in Nat /\ threshold <= totalWeight
    BY DEF Init
  <1>3. roles \in [Address -> SUBSET Role]
    BY DEF Init, Role, DefaultOwnerRoles
  <1>4. /\ proposals \in Seq(Proposal) /\ counted \in Seq([Address -> Nat])
        /\ Len(counted) = Len(proposals) /\ Ids = {}
    BY EmptySeq DEF Init, Ids
  <1>5. roleMembers \in [Role -> SUBSET Address]
    BY DEF Init
  <1>6. activeIds = {} /\ activeCount = 0 /\ activeCount \in 0..MaxActive
    BY DEF Init
  <1>7. now \in Nat \ {0} /\ guardian \in Address \cup {NoGuardian} /\ maxPct \in Nat
    BY DEF Init
  <1>8. frozen \in BOOLEAN
    BY Zenon DEF Init
  <1>9. TypeOK
    BY <1>1, <1>2, <1>3, <1>4, <1>5, <1>6, <1>7, <1>8 DEF TypeOK
  <1>10. ActiveIndexExact
    BY <1>4, <1>6, FS_EmptySet DEF ActiveIndexExact
  <1> QED
    BY <1>2, <1>4, <1>9, <1>10
       DEF IInv, QuorumAttainable, NoGhostVotes, ReadyHasTimer, TimersPast

(***************************************************************************)
(* A new proposal starts with the threshold as its quorum, no approval and *)
(* a place in the index.                                                   *)
(***************************************************************************)
LEMMA ProposeStep ==
  ASSUME IInv, NEW p \in Address, NEW k \in Kind, NEW d \in Nat, Propose(p, k, d)
  PROVE  IInv'
  <1> DEFINE q    == NewProposal(p, k, d)
             id   == Len(proposals) + 1
             kept == StillActive(activeIds, proposals)
             none == [x \in Address |-> 0]
  <1>1. TypeOK
    BY DEF IInv
  <1>2. /\ proposals' = Append(proposals, q) /\ counted' = Append(counted, none)
        /\ activeIds' = kept \cup {id} /\ activeCount' = Cardinality(activeIds')
        /\ Cardinality(kept) < MaxActive /\ d > 0
    BY DEF Propose, Register, HasRoom
  <1>3. UNCHANGED <<now, electorateVars, frozen, guardian, maxPct, roleMembers>>
    BY DEF Propose
  <1>4. q \in Proposal /\ none \in [Address -> Nat] /\ threshold \in Nat \ {0}
    BY <1>1 DEF NewProposal, Proposal, TypeOK, Status
  <1>5. /\ proposals' \in Seq(Proposal) /\ Len(proposals') = id
        /\ Ids' = Ids \cup {id} /\ id \notin Ids
        /\ \A i \in Ids : proposals'[i] = proposals[i]
        /\ proposals'[id] = q
    <2>1. proposals \in Seq(Proposal) /\ Ids = 1..Len(proposals) /\ Len(proposals) \in Nat
      BY <1>1, IdsAre DEF TypeOK
    <2>2. /\ proposals' \in Seq(Proposal) /\ Len(proposals') = id
          /\ \A i \in 1..Len(proposals) : proposals'[i] = proposals[i]
          /\ proposals'[id] = q
      BY <2>1, <1>2, <1>4, AppendProperties
    <2>3. Ids' = 1..id
      BY <2>2, LenProperties DEF Ids
    <2> QED
      BY <2>1, <2>2, <2>3
  <1>6. /\ counted' \in Seq([Address -> Nat]) /\ Len(counted') = Len(proposals')
        /\ \A i \in Ids : counted'[i] = counted[i]
        /\ counted'[id] = none
    <2>1. counted \in Seq([Address -> Nat]) /\ Len(counted) = Len(proposals) /\ Ids = 1..Len(counted)
      BY <1>1, IdsAre DEF TypeOK
    <2> QED
      BY <2>1, <1>2, <1>4, <1>5, AppendProperties
  <1>7. /\ kept \subseteq Ids /\ IsFiniteSet(kept) /\ IsFiniteSet(activeIds')
        /\ Cardinality(activeIds') = Cardinality(kept) + 1 /\ Cardinality(kept) \in Nat
    <2>1. kept \subseteq activeIds /\ activeIds \subseteq Ids
      BY <1>1 DEF StillActive, TypeOK
    <2>2. IsFiniteSet(kept) /\ Cardinality(kept) \in Nat
      BY <2>1, <1>1, IndexFinite, FS_Subset, FS_CardinalityType
    <2> QED
      BY <2>1, <2>2, <1>2, <1>5, FS_AddElement
  <1>8. activeIds' \subseteq Ids' /\ activeCount' \in 0..MaxActive
    BY <1>2, <1>5, <1>7
  <1>9. TypeOK'
    <2>1. frozen' \in BOOLEAN
      BY <1>1, <1>3, Zenon DEF TypeOK
    <2> QED
      BY <2>1, <1>1, <1>3, <1>5, <1>6, <1>8 DEF TypeOK, electorateVars
  <1>10. \A i \in Ids : IsActive(proposals[i])' <=> IsActive(proposals[i])
    BY <1>3, <1>5, ActiveNext
  <1>11. QuorumAttainable'
    <2>1. q.quorum = threshold
      BY DEF NewProposal
    <2>2. threshold' = threshold /\ totalWeight' = totalWeight /\ threshold <= totalWeight
      BY <1>3 DEF electorateVars, IInv, QuorumAttainable
    <2>3. \A i \in Ids : IsActive(proposals[i])' => proposals'[i].quorum <= totalWeight'
      BY <1>5, <1>10, <2>2 DEF IInv, QuorumAttainable
    <2> QED
      BY <2>1, <2>2, <2>3, <1>5 DEF QuorumAttainable
  <1>12. ActiveIndexExact'
    <2>1. \A i \in Ids' : IsActive(proposals[i])' => i \in activeIds'
      BY <1>2, <1>5, <1>10 DEF IInv, ActiveIndexExact, StillActive
    <2>2. q.status \notin Terminal
      BY DEF NewProposal, Terminal
    <2>3. \A i \in activeIds' : proposals'[i].status \notin Terminal
      BY <1>2, <1>5, <1>7, <2>2 DEF IInv, ActiveIndexExact, StillActive
    <2> QED
      BY <2>1, <2>3, <1>2 DEF ActiveIndexExact
  <1>13. NoGhostVotes'
    <2>1. weight' = weight
      BY <1>3 DEF electorateVars
    <2>2. \A i \in Ids, x \in Address :
             IsActive(proposals[i])' /\ counted'[i][x] > 0 => weight'[x] > 0
      BY <1>6, <1>10, <2>1 DEF IInv, NoGhostVotes, IsOwner
    <2> QED
      BY <2>2, <1>5, <1>6 DEF NoGhostVotes, IsOwner
  <1>14. ReadyHasTimer' /\ TimersPast'
    <2>1. q.approvals = 0 /\ q.quorum = threshold /\ q.readyAt = 0
      BY DEF NewProposal
    <2>2. now' = now /\ now \in Nat \ {0} /\ threshold \in Nat \ {0}
      BY <1>1, <1>3 DEF TypeOK
    <2>3. \A i \in Ids : /\ proposals'[i].approvals >= proposals'[i].quorum
                               => proposals'[i].readyAt \in 1..now'
                       /\ proposals'[i].readyAt <= now'
      BY <1>5, <2>2 DEF IInv, ReadyHasTimer, TimersPast
    <2>4. ~(q.approvals >= q.quorum) /\ q.readyAt <= now'
      BY <2>1, <2>2
    <2> QED
      BY <2>3, <2>4, <1>5 DEF ReadyHasTimer, TimersPast
  <1> QED
    BY <1>9, <1>11, <1>12, <1>13, <1>14 DEF IInv

\* The variables a step leaves to the electorate and the parameters, typed.
RestTyped ==
  /\ weight \in [Address -> 0..MaxOwnerWeight]
  /\ totalWeight \in Nat
  /\ threshold \in Nat \ {0}
  /\ roles \in [Address -> SUBSET Role]
  /\ frozen \in BOOLEAN
  /\ guardian \in Address \cup {NoGuardian}
  /\ maxPct \in Nat
  /\ roleMembers \in [Role -> SUBSET Address]

(***************************************************************************)
(* A step that rewrites records without activating any keeps the invariant *)
(* when it keeps the index exact, the quorums within the total, the counted*)
(* votes with owners, and the timers set.                                  *)
(***************************************************************************)
LEMMA RewriteStep ==
  ASSUME IInv, now' = now, RestTyped', threshold' <= totalWeight',
         proposals' \in Seq(Proposal), Ids' = Ids, Len(proposals') = Len(proposals),
         counted' \in Seq([Address -> Nat]), Len(counted') = Len(counted),
         activeIds' \subseteq Ids', activeCount' \in 0..MaxActive, ActiveIndexExact',
         \A i \in Ids : proposals'[i].quorum = proposals[i].quorum,
         \A i \in Ids : IsActive(proposals'[i]) => proposals[i].quorum <= totalWeight',
         \A i \in Ids, x \in Address :
            IsActive(proposals'[i]) /\ counted'[i][x] > 0 => weight'[x] > 0,
         \A i \in Ids : proposals'[i].approvals >= proposals[i].quorum
                          => proposals'[i].readyAt \in 1..now,
         \A i \in Ids : proposals'[i].readyAt <= now
  PROVE  IInv'
  <1>1. TypeOK'
    BY DEF IInv, TypeOK, RestTyped
  <1>2. QuorumAttainable'
    BY ActiveNext DEF QuorumAttainable
  <1>3. NoGhostVotes'
    BY ActiveNext DEF NoGhostVotes, IsOwner
  <1>4. ReadyHasTimer' /\ TimersPast'
    BY DEF ReadyHasTimer, TimersPast
  <1> QED
    BY <1>1, <1>2, <1>3, <1>4 DEF IInv

\* The rest stays typed when it does not change.
LEMMA RestKept ==
  ASSUME TypeOK, UNCHANGED <<electorateVars, frozen, guardian, maxPct, roleMembers>>
  PROVE  RestTyped'
  <1>1. frozen' \in BOOLEAN
    BY Zenon DEF TypeOK
  <1> QED
    BY <1>1 DEF TypeOK, RestTyped, electorateVars

(***************************************************************************)
(* Giving or taking back the vote of an owner on an active proposal.       *)
(***************************************************************************)
LEMMA VoteStep ==
  ASSUME IInv, NEW id \in Ids, NEW x \in Address, NEW v \in Nat, NEW q \in Proposal,
         IsActive(proposals[id]), IsOwner(x),
         q.status \notin Terminal, q.deadline = proposals[id].deadline,
         q.quorum = proposals[id].quorum,
         q.approvals >= q.quorum => q.readyAt \in 1..now,
         q.readyAt <= now,
         counted' = [counted EXCEPT ![id][x] = v],
         proposals' = [proposals EXCEPT ![id] = q],
         UNCHANGED <<now, electorateVars, frozen, activeIds, activeCount>>,
         UNCHANGED <<guardian, maxPct, roleMembers>>
  PROVE  IInv'
  <1>1. TypeOK
    BY DEF IInv
  <1>2. RestTyped'
    BY <1>1, RestKept
  <1>3. /\ proposals' \in Seq(Proposal) /\ Len(proposals') = Len(proposals) /\ Ids' = Ids
        /\ \A i \in Ids : proposals'[i] = IF i = id THEN q ELSE proposals[i]
    BY <1>1, ReplaceOne
  <1>4. /\ counted' \in Seq([Address -> Nat]) /\ Len(counted') = Len(counted)
        /\ \A i \in Ids, y \in Address :
              counted'[i][y] = IF i = id /\ y = x THEN v ELSE counted[i][y]
    <2>1. /\ counted \in Seq([Address -> Nat]) /\ DOMAIN counted = Ids
          /\ Ids = 1..Len(counted) /\ counted[id] \in [Address -> Nat]
      BY <1>1, IdsAre DEF TypeOK
    <2>2. [counted[id] EXCEPT ![x] = v] \in [Address -> Nat]
      BY <2>1
    <2>3. counted' = [counted EXCEPT ![id] = [counted[id] EXCEPT ![x] = v]]
      BY <2>1
    <2>4. /\ counted' \in Seq([Address -> Nat]) /\ Len(counted') = Len(counted)
          /\ \A i \in Ids : counted'[i] = IF i = id THEN [counted[id] EXCEPT ![x] = v]
                                                   ELSE counted[i]
      BY <2>1, <2>2, <2>3, ExceptSeq
    <2> QED
      BY <2>1, <2>4
  <1>5. \A i \in Ids : IsActive(proposals'[i]) <=> IsActive(proposals[i])
    <2>1. IsActive(q) <=> IsActive(proposals[id])
      BY <1>1, IdsAre, ActiveStatus
    <2> QED
      BY <2>1, <1>3
  <1>6. /\ activeIds' \subseteq Ids' /\ activeCount' \in 0..MaxActive
        /\ ActiveIndexExact'
    <2>1. activeIds' \subseteq Ids' /\ activeCount' \in 0..MaxActive
      BY <1>1, <1>3 DEF TypeOK
    <2>2. \A i \in Ids' : IsActive(proposals[i])' => i \in activeIds'
      BY <1>3, <1>5, ActiveNext DEF IInv, ActiveIndexExact
    <2>3. \A i \in activeIds' : proposals'[i].status \notin Terminal
      BY <1>3, <2>1 DEF IInv, ActiveIndexExact
    <2> QED
      BY <2>1, <2>2, <2>3 DEF IInv, ActiveIndexExact
  <1>7. \A i \in Ids : proposals'[i].quorum = proposals[i].quorum
    BY <1>3
  <1>8. /\ threshold' <= totalWeight'
        /\ \A i \in Ids : IsActive(proposals'[i]) => proposals[i].quorum <= totalWeight'
    BY <1>5 DEF IInv, QuorumAttainable, electorateVars
  <1>9. \A i \in Ids, y \in Address :
          IsActive(proposals'[i]) /\ counted'[i][y] > 0 => weight'[y] > 0
    BY <1>4, <1>5, SMTT(30) DEF IInv, NoGhostVotes, IsOwner, electorateVars
  <1>10. \A i \in Ids : /\ proposals'[i].approvals >= proposals[i].quorum
                             => proposals'[i].readyAt \in 1..now
                        /\ proposals'[i].readyAt <= now
    BY <1>3 DEF IInv, ReadyHasTimer, TimersPast
  <1> QED
    BY <1>2, <1>3, <1>4, <1>6, <1>7, <1>8, <1>9, <1>10, RewriteStep

\* approve sets the timer when it completes the quorum.
LEMMA ApproveStep ==
  ASSUME IInv, NEW x \in Address, NEW id \in Ids, Approve(x, id),
         UNCHANGED <<guardian, maxPct, roleMembers>>
  PROVE  IInv'
  <1> DEFINE p == proposals[id]
             q == WithApproval(p, weight[x])
  <1>1. TypeOK /\ p \in Proposal /\ weight[x] \in Nat /\ now \in Nat \ {0}
    <2>1. TypeOK
      BY DEF IInv
    <2>2. p \in Proposal
      BY <2>1, IdsAre
    <2>3. weight[x] \in Nat /\ now \in Nat \ {0}
      BY <2>1 DEF TypeOK
    <2> QED
      BY <2>1, <2>2, <2>3
  <1>2. /\ IsActive(p) /\ IsOwner(x)
        /\ counted' = [counted EXCEPT ![id][x] = weight[x]]
        /\ UNCHANGED <<now, electorateVars, frozen, activeIds, activeCount>>
    BY DEF Approve, MayVote
  <1>3. proposals' = [proposals EXCEPT ![id] = q]
    BY DEF Approve
  <1>4. /\ q \in Proposal /\ q.status \notin Terminal
        /\ q.deadline = p.deadline /\ q.quorum = p.quorum
        /\ q.approvals = p.approvals + weight[x]
        /\ q.readyAt = IF p.readyAt = 0 /\ p.approvals + weight[x] >= p.quorum
                         THEN now ELSE p.readyAt
    BY <1>1, <1>2, ApprovalTyped
  <1>5. p.readyAt \in Nat /\ p.readyAt <= now
    BY <1>1 DEF IInv, TimersPast, Proposal
  <1>6. q.readyAt <= now /\ (q.approvals >= q.quorum => q.readyAt \in 1..now)
    BY <1>1, <1>4, <1>5
  <1> QED
    BY <1>1, <1>2, <1>3, <1>4, <1>6, VoteStep

\* revoke lowers the tally and leaves the timer as it is.
LEMMA RevokeStep ==
  ASSUME IInv, NEW x \in Address, NEW id \in Ids, Revoke(x, id),
         UNCHANGED <<guardian, maxPct, roleMembers>>
  PROVE  IInv'
  <1> DEFINE p == proposals[id]
             w == counted[id][x]
             q == WithoutApproval(p, w)
  <1>1. TypeOK /\ p \in Proposal /\ w \in Nat
    BY IdsAre DEF IInv
  <1>2. /\ IsActive(p) /\ IsOwner(x) /\ p.approvals >= w
        /\ counted' = [counted EXCEPT ![id][x] = 0]
        /\ UNCHANGED <<now, electorateVars, frozen, activeIds, activeCount>>
    BY DEF Revoke, MayVote
  <1>3. proposals' = [proposals EXCEPT ![id] = q]
    BY DEF Revoke
  <1>4. /\ q \in Proposal /\ q.status \notin Terminal
        /\ q.deadline = p.deadline /\ q.quorum = p.quorum
        /\ q.approvals = p.approvals - w /\ q.readyAt = p.readyAt
    BY <1>1, <1>2, RevocationTyped
  <1>5. q.readyAt <= now /\ (q.approvals >= q.quorum => q.readyAt \in 1..now)
    <2>1. p.approvals >= p.quorum => p.readyAt \in 1..now
      BY DEF IInv, ReadyHasTimer
    <2>2. p.approvals \in Nat /\ p.quorum \in Nat /\ p.readyAt <= now
      BY <1>1 DEF IInv, TimersPast, Proposal
    <2> QED
      BY <1>1, <1>4, <2>1, <2>2
  <1> QED
    BY <1>1, <1>2, <1>3, <1>4, <1>5, VoteStep

(***************************************************************************)
(* Closing one proposal for good, cancelled or executed, while the quorums *)
(* of the others stay within the total and no owner leaves.                *)
(***************************************************************************)
LEMMA CloseStep ==
  ASSUME IInv, NEW id \in Ids, NEW s \in Terminal, RestTyped',
         UNCHANGED <<now, counted>>,
         proposals' = [proposals EXCEPT ![id] = [proposals[id] EXCEPT !.status = s]],
         RemoveActive({id}, proposals'),
         threshold' <= totalWeight',
         \A i \in Ids \ {id} : IsActive(proposals[i]) => proposals[i].quorum <= totalWeight',
         \A y \in Address : weight[y] > 0 => weight'[y] > 0
  PROVE  IInv'
  <1> DEFINE p == proposals[id]
             q == [p EXCEPT !.status = s]
  <1>1. TypeOK /\ p \in Proposal
    BY IdsAre DEF IInv
  <1>2. /\ q \in Proposal /\ q.status = s /\ q.quorum = p.quorum
        /\ q.approvals = p.approvals /\ q.readyAt = p.readyAt
    BY <1>1 DEF Proposal, Status, Terminal
  <1>3. /\ proposals' \in Seq(Proposal) /\ Len(proposals') = Len(proposals) /\ Ids' = Ids
        /\ \A i \in Ids : proposals'[i] = IF i = id THEN q ELSE proposals[i]
    BY <1>1, <1>2, ReplaceOne
  <1>4. ~IsActive(q)
    <2> HIDE DEF q
    <2> QED
      BY <1>2, ActiveStatus
  <1>5. \A i \in Ids : IsActive(proposals'[i]) => i # id /\ IsActive(proposals[i])
    BY <1>3, <1>4
  <1>6. activeIds' \subseteq Ids' /\ activeCount' \in 0..MaxActive /\ ActiveIndexExact'
    <2>1. \A i \in Ids : IsActive(proposals'[i]) => IsActive(proposals[i])
      BY <1>5
    <2>2. \A i \in Ids : i \in {id} => ~IsActive(proposals'[i])
      BY <1>5
    <2>3. TypeOK /\ ActiveIndexExact /\ now' = now
      BY DEF IInv
    <2>4. proposals' \in Seq(Proposal) /\ Ids' = Ids
      BY <1>3
    <2> HIDE DEF p, q
    <2> QED
      BY <2>1, <2>2, <2>3, <2>4, RemoveActiveExact
  <1>7. /\ \A i \in Ids : proposals'[i].quorum = proposals[i].quorum
        /\ \A i \in Ids : proposals'[i].approvals = proposals[i].approvals
        /\ \A i \in Ids : proposals'[i].readyAt = proposals[i].readyAt
    BY <1>2, <1>3
  <1>8. \A i \in Ids : IsActive(proposals'[i]) => proposals[i].quorum <= totalWeight'
    BY <1>5
  <1>9. \A i \in Ids, y \in Address :
          IsActive(proposals'[i]) /\ counted'[i][y] > 0 => weight'[y] > 0
    BY <1>5 DEF IInv, NoGhostVotes, IsOwner
  <1>10. \A i \in Ids : /\ proposals'[i].approvals >= proposals[i].quorum
                             => proposals'[i].readyAt \in 1..now
                        /\ proposals'[i].readyAt <= now
    BY <1>7 DEF IInv, ReadyHasTimer, TimersPast
  <1>11. counted' \in Seq([Address -> Nat]) /\ Len(counted') = Len(counted)
    BY <1>1 DEF TypeOK
  <1> QED
    BY <1>3, <1>6, <1>7, <1>8, <1>9, <1>10, <1>11, RewriteStep

\* cancel_proposal closes one pending proposal.
LEMMA CancelStep ==
  ASSUME IInv, NEW x \in Address, NEW id \in Ids, CancelProposal(x, id),
         UNCHANGED <<guardian, maxPct, roleMembers>>
  PROVE  IInv'
  <1>1. RestTyped'
    BY RestKept DEF IInv, CancelProposal
  <1>2. proposals' = [proposals EXCEPT ![id] = [proposals[id] EXCEPT !.status = "Cancelled"]]
    BY IdsAre DEF CancelProposal, IInv
  <1>3. RemoveActive({id}, proposals') /\ UNCHANGED <<now, counted, electorateVars>>
    BY DEF CancelProposal
  <1>4. /\ threshold' <= totalWeight'
        /\ \A i \in Ids : IsActive(proposals[i]) => proposals[i].quorum <= totalWeight'
        /\ \A y \in Address : weight[y] > 0 => weight'[y] > 0
    BY <1>3 DEF IInv, QuorumAttainable, electorateVars
  <1>5. "Cancelled" \in Terminal
    BY DEF Terminal
  <1> QED
    BY <1>1, <1>2, <1>3, <1>4, <1>5, CloseStep

\* cancel_expired and sweep_expired drop expired ids from the index.
LEMMA SweepStep ==
  ASSUME IInv, NEW ids \in SUBSET Ids, Sweep(ExpiredAmong(ids)),
         UNCHANGED <<guardian, maxPct, roleMembers>>
  PROVE  IInv'
  <1>1. TypeOK
    BY DEF IInv
  <1>2. UNCHANGED <<now, electorateVars, frozen, proposals, counted>>
    BY DEF Sweep
  <1>3. RestTyped'
    BY <1>1, <1>2, RestKept
  <1>4. proposals' \in Seq(Proposal) /\ Ids' = Ids /\ Len(proposals') = Len(proposals)
    BY <1>1, <1>2 DEF TypeOK, Ids
  <1>5. counted' \in Seq([Address -> Nat]) /\ Len(counted') = Len(counted)
    BY <1>1, <1>2 DEF TypeOK
  <1>6. activeIds' \subseteq Ids' /\ activeCount' \in 0..MaxActive /\ ActiveIndexExact'
    <2>1. CASE ExpiredAmong(ids) = {}
      <3>1. UNCHANGED <<activeIds, activeCount>>
        BY <2>1 DEF Sweep
      <3>2. \A i \in Ids : IsActive(proposals[i])' <=> IsActive(proposals[i])
        BY <1>2, <1>4, ActiveNext
      <3> QED
        BY <3>1, <3>2, <1>1, <1>2, <1>4 DEF IInv, ActiveIndexExact, TypeOK
    <2>2. CASE ExpiredAmong(ids) # {}
      <3>1. RemoveActive(ExpiredAmong(ids), proposals')
        BY <2>2, <1>2 DEF Sweep
      <3>2. \A i \in Ids : i \in ExpiredAmong(ids) => ~IsActive(proposals'[i])
        BY <1>2 DEF ExpiredAmong, IsActive
      <3> QED
        BY <3>1, <3>2, <1>1, <1>2, <1>4, RemoveActiveExact DEF IInv
    <2> QED
      BY <2>1, <2>2
  <1>7. /\ threshold' <= totalWeight'
        /\ \A i \in Ids : IsActive(proposals'[i]) => proposals[i].quorum <= totalWeight'
    BY <1>2 DEF IInv, QuorumAttainable, electorateVars
  <1>8. \A i \in Ids, y \in Address :
          IsActive(proposals'[i]) /\ counted'[i][y] > 0 => weight'[y] > 0
    BY <1>2 DEF IInv, NoGhostVotes, IsOwner, electorateVars
  <1>9. \A i \in Ids : /\ proposals'[i].approvals >= proposals[i].quorum
                             => proposals'[i].readyAt \in 1..now
                       /\ proposals'[i].readyAt <= now
    BY <1>2 DEF IInv, ReadyHasTimer, TimersPast
  <1> QED
    BY <1>2, <1>3, <1>4, <1>5, <1>6, <1>7, <1>8, <1>9, RewriteStep

\* Time only takes proposals out of the active ones.
LEMMA TickStep ==
  ASSUME IInv, Tick, UNCHANGED <<guardian, maxPct, roleMembers>>
  PROVE  IInv'
  <1>1. TypeOK /\ now' = now + 1
    BY DEF IInv, Tick
  <1>2. UNCHANGED <<electorateVars, frozen, proposals, counted, activeIds, activeCount>>
    BY DEF Tick, proposalVars
  <1>3. RestTyped'
    BY <1>1, <1>2, RestKept
  <1>4. Ids' = Ids /\ \A i \in Ids : proposals[i] \in Proposal
    BY <1>1, <1>2, IdsAre DEF Ids
  <1>5. \A i \in Ids : IsActive(proposals[i])' => IsActive(proposals[i])
    BY <1>1, <1>2, <1>4 DEF IsActive, DeriveStatus, Proposal, TypeOK
  <1>6. TypeOK'
    BY <1>1, <1>2, <1>3, <1>4 DEF TypeOK, RestTyped
  <1>7. QuorumAttainable'
    BY <1>2, <1>4, <1>5 DEF IInv, QuorumAttainable, electorateVars
  <1>8. ActiveIndexExact'
    BY <1>2, <1>4, <1>5 DEF IInv, ActiveIndexExact
  <1>9. NoGhostVotes'
    BY <1>2, <1>4, <1>5 DEF IInv, NoGhostVotes, IsOwner, electorateVars
  <1>10. ReadyHasTimer' /\ TimersPast'
    <2>1. \A i \in Ids : proposals[i].readyAt \in Nat
      BY <1>4 DEF Proposal
    <2> QED
      BY <2>1, <1>1, <1>2, <1>4 DEF IInv, ReadyHasTimer, TimersPast, TypeOK
  <1> QED
    BY <1>6, <1>7, <1>8, <1>9, <1>10 DEF IInv

\* A step outside the proposals and the electorate.
LEMMA QuietStep ==
  ASSUME IInv, UNCHANGED <<now, electorateVars, proposalVars>>,
         frozen' \in BOOLEAN, guardian' \in Address \cup {NoGuardian}, maxPct' \in Nat,
         roleMembers' = roleMembers
  PROVE  IInv'
  <1>1. UNCHANGED <<now, weight, totalWeight, threshold, roles, proposals, counted,
                    activeIds, activeCount>>
    BY DEF electorateVars, proposalVars
  <1>2. Ids' = Ids /\ \A i \in Ids : IsActive(proposals[i])' <=> IsActive(proposals[i])
    <2>1. Ids' = Ids
      BY <1>1 DEF Ids
    <2> QED
      BY <2>1, <1>1, ActiveNext
  <1>3. TypeOK'
    BY <1>1, <1>2 DEF IInv, TypeOK
  <1>4. QuorumAttainable' /\ NoGhostVotes'
    BY <1>1, <1>2 DEF IInv, QuorumAttainable, NoGhostVotes, IsOwner
  <1>5. ActiveIndexExact' /\ ReadyHasTimer' /\ TimersPast'
    BY <1>1, <1>2 DEF IInv, ActiveIndexExact, ReadyHasTimer, TimersPast
  <1> QED
    BY <1>3, <1>4, <1>5 DEF IInv

\* The operation named in a kind tells its other fields.
LEMMA KindFields ==
  ASSUME NEW k \in Kind
  PROVE  /\ k.op = "AddOwner" => k.owner \in Address /\ k.weight \in Weights
         /\ k.op = "RemoveOwner" => k.owner \in Address
         /\ k.op = "ChangeOwnerWeight" => k.owner \in Address /\ k.weight \in Weights
         /\ k.op = "ChangeThreshold" => k.threshold \in Nat \ {0}
         /\ k.op = "GrantRole" => k.target \in Address /\ k.role \in Role
         /\ k.op = "RevokeRole" => k.target \in Address /\ k.role \in Role
         /\ k.op = "TransferGuardian" => k.guardian \in Address
  BY DEF AddOwnerKind, RemoveOwnerKind, ChangeWeightKind, ChangeThresholdKind,
         GrantRoleKind, RevokeRoleKind, TransferGuardianKind

\* update_owner_roles keeps both role maps typed.
LEMMA SetRolesTyped ==
  ASSUME TypeOK, NEW x \in Address, NEW rs \in SUBSET Role, SetRoles(x, rs)
  PROVE  roles' \in [Address -> SUBSET Role] /\ roleMembers' \in [Role -> SUBSET Address]
  BY DEF SetRoles, TypeOK

(***************************************************************************)
(* Executing a kind that leaves the other proposals alone: the invariant   *)
(* is kept if the electorate it leaves can still reach every quorum.       *)
(***************************************************************************)
LEMMA ExecuteStep ==
  ASSUME IInv, NEW id \in Ids, Conclude(id),
         weight' \in [Address -> 0..MaxOwnerWeight], totalWeight' \in Nat,
         threshold' \in Nat \ {0}, roles' \in [Address -> SUBSET Role],
         guardian' \in Address \cup {NoGuardian},
         roleMembers' \in [Role -> SUBSET Address],
         threshold' <= totalWeight',
         \A i \in Ids : IsActive(proposals[i]) => proposals[i].quorum <= totalWeight',
         \A y \in Address : weight[y] > 0 => weight'[y] > 0
  PROVE  IInv'
  <1>1. TypeOK
    BY DEF IInv
  <1>2. UNCHANGED <<now, frozen, counted, maxPct>>
    BY DEF Conclude
  <1>3. /\ proposals' = [proposals EXCEPT ![id] = [proposals[id] EXCEPT !.status = "Executed"]]
        /\ RemoveActive({id}, proposals')
    BY DEF Conclude, FinishExecute
  <1>4. RestTyped'
    <2>1. frozen' \in BOOLEAN
      BY <1>1, <1>2, Zenon DEF TypeOK
    <2> QED
      BY <2>1, <1>1, <1>2 DEF RestTyped, TypeOK
  <1>5. "Executed" \in Terminal
    BY DEF Terminal
  <1> QED
    BY <1>2, <1>3, <1>4, <1>5, CloseStep

\* Every kind but RemoveOwner is such an execution.
LEMMA ExecuteOthers ==
  ASSUME IInv, NEW x \in Address, NEW id \in Ids,
         \/ ExecuteAddOwner(x, id)
         \/ ExecuteChangeWeight(x, id)
         \/ ExecuteChangeThreshold(x, id)
         \/ ExecuteGrantRole(x, id)
         \/ ExecuteRevokeRole(x, id)
         \/ ExecuteTransferGuardian(x, id)
  PROVE  IInv'
  <1> DEFINE k == proposals[id].kind
  <1>1. TypeOK /\ k \in Kind
    BY IdsAre DEF IInv, Proposal
  <1>2. /\ weight \in [Address -> 0..MaxOwnerWeight] /\ totalWeight \in Nat
        /\ threshold \in Nat \ {0} /\ roles \in [Address -> SUBSET Role]
        /\ guardian \in Address \cup {NoGuardian}
        /\ roleMembers \in [Role -> SUBSET Address]
    BY <1>1 DEF TypeOK
  <1>3. /\ threshold <= totalWeight
        /\ \A i \in Ids : IsActive(proposals[i]) => proposals[i].quorum <= totalWeight
    BY DEF IInv, QuorumAttainable
  <1>4. \A i \in Ids : proposals[i].quorum \in Nat
    BY <1>1, IdsAre DEF Proposal
  <1>5. CASE ExecuteAddOwner(x, id)
    <2>1. k.owner \in Address /\ k.weight \in Weights
      BY <1>1, <1>5, KindFields DEF ExecuteAddOwner
    <2>2. /\ weight' = [weight EXCEPT ![k.owner] = k.weight]
          /\ totalWeight' = totalWeight + k.weight /\ UNCHANGED <<threshold, guardian>>
          /\ SetRoles(k.owner, DefaultOwnerRoles) /\ Conclude(id)
      BY <1>5 DEF ExecuteAddOwner, TotalAfterAdd
    <2>3. roles' \in [Address -> SUBSET Role] /\ roleMembers' \in [Role -> SUBSET Address]
      BY <1>1, <2>1, <2>2, SetRolesTyped DEF DefaultOwnerRoles, Role
    <2>4. /\ weight' \in [Address -> 0..MaxOwnerWeight]
          /\ \A y \in Address : weight[y] > 0 => weight'[y] > 0
      BY <1>2, <2>1, <2>2 DEF Weights
    <2>5. totalWeight' \in Nat /\ totalWeight <= totalWeight'
      BY <1>2, <2>1, <2>2 DEF Weights
    <2> HIDE DEF k
    <2> QED
      BY <1>2, <1>3, <1>4, <2>2, <2>3, <2>4, <2>5, ExecuteStep
  <1>6. CASE ExecuteChangeWeight(x, id)
    <2>1. k.owner \in Address /\ k.weight \in Weights
      BY <1>1, <1>6, KindFields DEF ExecuteChangeWeight
    <2>2. /\ weight' = [weight EXCEPT ![k.owner] = k.weight]
          /\ totalWeight' = TotalAfterChange(k) /\ totalWeight >= weight[k.owner]
          /\ threshold <= totalWeight'
          /\ \A i \in StillActive(activeIds, proposals) : proposals[i].quorum <= totalWeight'
          /\ Conclude(id) /\ UNCHANGED <<threshold, roles, guardian, roleMembers>>
      BY <1>6 DEF ExecuteChangeWeight
    <2>3. /\ weight' \in [Address -> 0..MaxOwnerWeight]
          /\ \A y \in Address : weight[y] > 0 => weight'[y] > 0
      BY <1>2, <2>1, <2>2 DEF Weights
    <2>4. totalWeight' \in Nat
      BY <1>2, <2>1, <2>2 DEF Weights, TotalAfterChange
    <2>5. \A i \in Ids : IsActive(proposals[i]) => i \in StillActive(activeIds, proposals)
      BY DEF IInv, ActiveIndexExact, StillActive
    <2>6. \A i \in Ids : IsActive(proposals[i]) => proposals[i].quorum <= totalWeight'
      BY <2>2, <2>5
    <2> HIDE DEF k
    <2> QED
      BY <1>2, <2>2, <2>3, <2>4, <2>6, ExecuteStep
  <1>7. CASE ExecuteChangeThreshold(x, id)
    <2>1. k.threshold \in Nat \ {0}
      BY <1>1, <1>7, KindFields DEF ExecuteChangeThreshold
    <2>2. /\ threshold' = k.threshold /\ k.threshold <= totalWeight /\ Conclude(id)
          /\ UNCHANGED <<weight, totalWeight, roles, guardian, roleMembers>>
      BY <1>7 DEF ExecuteChangeThreshold
    <2> HIDE DEF k
    <2> QED
      BY <1>2, <1>3, <2>1, <2>2, ExecuteStep
  <1>8. CASE ExecuteGrantRole(x, id) \/ ExecuteRevokeRole(x, id)
    <2>1. /\ Conclude(id) /\ UNCHANGED <<weight, totalWeight, threshold, guardian>>
          /\ k.op \in {"GrantRole", "RevokeRole"}
          /\ \E rs \in {roles[k.target] \cup {k.role}, roles[k.target] \ {k.role}} :
                SetRoles(k.target, rs)
      BY <1>8 DEF ExecuteGrantRole, ExecuteRevokeRole
    <2>2. k.target \in Address /\ k.role \in Role
      BY <1>1, <2>1, KindFields
    <2>3. roles' \in [Address -> SUBSET Role] /\ roleMembers' \in [Role -> SUBSET Address]
      BY <1>1, <1>2, <2>1, <2>2, SetRolesTyped
    <2> HIDE DEF k
    <2> QED
      BY <1>2, <1>3, <2>1, <2>3, ExecuteStep
  <1>9. CASE ExecuteTransferGuardian(x, id)
    <2>1. k.guardian \in Address
      BY <1>1, <1>9, KindFields DEF ExecuteTransferGuardian
    <2>2. guardian' = k.guardian /\ Conclude(id) /\ UNCHANGED <<electorateVars, roleMembers>>
      BY <1>9 DEF ExecuteTransferGuardian
    <2>3. UNCHANGED <<weight, totalWeight, threshold, roles, roleMembers>>
      BY <2>2 DEF electorateVars
    <2> HIDE DEF k
    <2> QED
      BY <1>2, <1>3, <2>1, <2>2, <2>3, ExecuteStep
  <1> QED
    BY <1>5, <1>6, <1>7, <1>8, <1>9

(***************************************************************************)
(* Removing an owner takes its vote off every proposal it leaves open, and *)
(* leaves a total that still reaches their quorums.                        *)
(***************************************************************************)
LEMMA RemoveOwnerStep ==
  ASSUME IInv, NEW x \in Address, NEW id \in Ids, ExecuteRemoveOwner(x, id)
  PROVE  IInv'
  <1> DEFINE a    == proposals[id].kind.owner
             left == totalWeight - weight[a]
             done == [proposals[id] EXCEPT !.status = "Executed"]
  <1>1. TypeOK /\ a \in Address
    BY IdsAre, KindFields DEF IInv, Proposal, ExecuteRemoveOwner
  <1>2. /\ left >= threshold
        /\ \A i \in OtherActive(id) : proposals[i].quorum <= left
        /\ \A i \in Ids : IsActive(proposals[i]) => proposals[i].approvals >= counted[i][a]
        /\ weight' = [weight EXCEPT ![a] = 0] /\ totalWeight' = left
        /\ SetRoles(a, {}) /\ counted' = StrippedCounts(a)
        /\ UNCHANGED <<now, threshold, frozen, guardian, maxPct>>
    BY DEF ExecuteRemoveOwner, TotalAfterRemove
  <1>3. /\ proposals' = [Stripped(a) EXCEPT ![id] = done]
        /\ RemoveActive({id}, proposals')
    BY DEF ExecuteRemoveOwner, FinishExecute
  <1> HIDE DEF a
  <1>4. /\ Ids = 1..Len(proposals) /\ Len(proposals) \in Nat /\ Ids = DOMAIN counted
        /\ counted \in Seq([Address -> Nat]) /\ Len(counted) = Len(proposals)
        /\ \A i \in Ids : proposals[i] \in Proposal /\ counted[i] \in [Address -> Nat]
    BY <1>1, IdsAre DEF TypeOK
  <1>5. /\ done \in Proposal /\ done.status = "Executed" /\ done.quorum = proposals[id].quorum
        /\ done.approvals = proposals[id].approvals /\ done.readyAt = proposals[id].readyAt
    BY <1>4 DEF Proposal, Status
  <1>6. ~IsActive(done)
    <2> HIDE DEF done
    <2> QED
      BY <1>5, ActiveStatus DEF Terminal
  <1> HIDE DEF done
  <1>7. \A i \in Ids : /\ Stripped(a)[i] \in Proposal
                       /\ Stripped(a)[i].quorum = proposals[i].quorum
                       /\ Stripped(a)[i].approvals <= proposals[i].approvals
                       /\ Stripped(a)[i].readyAt = proposals[i].readyAt
                       /\ IsActive(Stripped(a)[i]) => IsActive(proposals[i])
    <2> TAKE i \in Ids
    <2> DEFINE p == proposals[i]
               w == counted[i][a]
    <2>1. p \in Proposal /\ w \in Nat /\ p.approvals \in Nat
      BY <1>1, <1>4 DEF Proposal
    <2>2. CASE IsActive(p) /\ w > 0
      <3>1. Stripped(a)[i] = WithoutApproval(p, w) /\ p.approvals >= w
        BY <1>2, <2>2 DEF Stripped
      <3>2. /\ WithoutApproval(p, w) \in Proposal
            /\ WithoutApproval(p, w).quorum = p.quorum
            /\ WithoutApproval(p, w).approvals = p.approvals - w
            /\ WithoutApproval(p, w).readyAt = p.readyAt
        BY <2>1, <2>2, <3>1, RevocationTyped
      <3> QED
        BY <2>1, <2>2, <3>1, <3>2
    <2>3. CASE ~(IsActive(p) /\ w > 0)
      <3>1. Stripped(a)[i] = p
        BY <2>3 DEF Stripped
      <3> QED
        BY <2>1, <3>1
    <2> QED
      BY <2>2, <2>3
  <1>8. /\ DOMAIN proposals' = Ids
        /\ \A i \in Ids : proposals'[i] = IF i = id THEN done ELSE Stripped(a)[i]
    BY <1>3 DEF Stripped
  <1>9. proposals' \in Seq(Proposal) /\ Len(proposals') = Len(proposals) /\ Ids' = Ids
    <2>1. proposals' = [i \in Ids |-> IF i = id THEN done ELSE Stripped(a)[i]]
      BY <1>3 DEF Stripped
    <2>2. proposals' \in [1..Len(proposals) -> Proposal]
      BY <1>4, <1>5, <1>7, <2>1
    <2>3. proposals' \in Seq(Proposal)
      BY <1>4, <2>2, FunctionIsSeq
    <2>4. Len(proposals') = Len(proposals)
      BY <1>4, <2>2, <2>3, LenProperties
    <2>5. Ids' = Ids
      BY <1>8 DEF Ids
    <2> QED
      BY <2>3, <2>4, <2>5
  <1>10. /\ counted' \in Seq([Address -> Nat]) /\ Len(counted') = Len(counted)
         /\ \A i \in Ids : counted'[i] = IF IsActive(proposals[i])
                                           THEN [counted[i] EXCEPT ![a] = 0] ELSE counted[i]
    <2>1. counted' = [i \in Ids |-> IF IsActive(proposals[i])
                                      THEN [counted[i] EXCEPT ![a] = 0] ELSE counted[i]]
      BY <1>2 DEF StrippedCounts
    <2>2. counted' \in [1..Len(proposals) -> [Address -> Nat]]
      BY <1>4, <2>1
    <2> QED
      BY <1>4, <2>1, <2>2, SeqDef, LenProperties
  <1>11. \A i \in Ids : IsActive(proposals'[i]) => i # id /\ IsActive(proposals[i])
    BY <1>6, <1>7, <1>8
  <1>12. activeIds' \subseteq Ids' /\ activeCount' \in 0..MaxActive /\ ActiveIndexExact'
    <2>1. \A i \in Ids : IsActive(proposals'[i]) => IsActive(proposals[i])
      BY <1>11
    <2>2. \A i \in Ids : i \in {id} => ~IsActive(proposals'[i])
      BY <1>11
    <2> QED
      BY <2>1, <2>2, <1>1, <1>2, <1>3, <1>9, RemoveActiveExact DEF IInv
  <1>13. RestTyped'
    <2>1. frozen' \in BOOLEAN
      BY <1>1, <1>2, Zenon DEF TypeOK
    <2>2. roles' \in [Address -> SUBSET Role] /\ roleMembers' \in [Role -> SUBSET Address]
      BY <1>1, <1>2, SetRolesTyped
    <2>3. weight' \in [Address -> 0..MaxOwnerWeight] /\ totalWeight' \in Nat
      BY <1>1, <1>2 DEF TypeOK
    <2> QED
      BY <2>1, <2>2, <2>3, <1>1, <1>2 DEF TypeOK, RestTyped
  <1>14. threshold' <= totalWeight'
    BY <1>1, <1>2 DEF TypeOK
  <1>15. \A i \in Ids : proposals'[i].quorum = proposals[i].quorum
    BY <1>5, <1>7, <1>8
  <1>16. \A i \in Ids : IsActive(proposals'[i]) => proposals[i].quorum <= totalWeight'
    BY <1>2, <1>11 DEF OtherActive
  <1>17. \A i \in Ids, y \in Address :
           IsActive(proposals'[i]) /\ counted'[i][y] > 0 => weight'[y] > 0
    <2>1. \A i \in Ids, y \in Address :
            IsActive(proposals[i]) /\ counted[i][y] > 0 => weight[y] > 0
      BY DEF IInv, NoGhostVotes, IsOwner
    <2>2. \A i \in Ids : IsActive(proposals'[i]) => counted'[i] = [counted[i] EXCEPT ![a] = 0]
      BY <1>10, <1>11
    <2>3. \A i \in Ids, y \in Address :
            IsActive(proposals'[i]) /\ counted'[i][y] > 0 => y # a /\ counted[i][y] > 0
      <3> TAKE i \in Ids, y \in Address
      <3> HAVE IsActive(proposals'[i]) /\ counted'[i][y] > 0
      <3>1. counted'[i] = [counted[i] EXCEPT ![a] = 0] /\ counted[i] \in [Address -> Nat]
        BY <1>4, <2>2
      <3>2. counted'[i][y] = IF y = a THEN 0 ELSE counted[i][y]
        BY <3>1
      <3>3. y # a
        BY <3>2
      <3> QED
        BY <3>2, <3>3
    <2>4. \A y \in Address : y # a => weight'[y] = weight[y]
      BY <1>1, <1>2 DEF TypeOK
    <2> QED
      BY <2>1, <2>3, <2>4, <1>11
  <1>18. \A i \in Ids : /\ proposals'[i].approvals >= proposals[i].quorum
                             => proposals'[i].readyAt \in 1..now
                        /\ proposals'[i].readyAt <= now
    <2>1. \A i \in Ids : /\ proposals[i].approvals >= proposals[i].quorum
                               => proposals[i].readyAt \in 1..now
                         /\ proposals[i].readyAt <= now
      BY DEF IInv, ReadyHasTimer, TimersPast
    <2>2. \A i \in Ids : /\ proposals'[i].approvals <= proposals[i].approvals
                         /\ proposals'[i].readyAt = proposals[i].readyAt
                         /\ proposals'[i].approvals \in Nat
                         /\ proposals[i].approvals \in Nat /\ proposals[i].quorum \in Nat
      <3> TAKE i \in Ids
      <3>1. proposals[i] \in Proposal /\ proposals'[i] \in Proposal
        BY <1>4, <1>5, <1>7, <1>8
      <3>2. /\ proposals[i].approvals \in Nat /\ proposals[i].quorum \in Nat
            /\ proposals'[i].approvals \in Nat
        BY <3>1 DEF Proposal
      <3>3. CASE i = id
        BY <3>2, <3>3, <1>5, <1>8
      <3>4. CASE i # id
        BY <3>2, <3>4, <1>7, <1>8
      <3> QED
        BY <3>3, <3>4
    <2> QED
      BY <2>1, <2>2
  <1> QED
    BY <1>2, <1>9, <1>10, <1>12, <1>13, <1>14, <1>15, <1>16, <1>17, <1>18, RewriteStep

-----------------------------------------------------------------------------
(* Every step keeps the invariant *)

\* Every step, and every stutter, preserves the invariant.
LEMMA NextInv == IInv /\ [Next]_vars => IInv'
  <1> SUFFICES ASSUME IInv, [Next]_vars PROVE IInv'
    OBVIOUS
  <1>1. CASE Create
    <2>1. PICK p \in Proposers, k \in Menu, d \in Durations : Propose(p, k, d)
      BY <1>1, ZenonT(60) DEF Create, ProposeAddOwner, ProposeRemoveOwner, ProposeChangeWeight,
                  ProposeChangeThreshold, ProposeGrantRole, ProposeRevokeRole,
                  ProposeTransferGuardian
    <2> QED
      BY <2>1, ProposeStep
  <1>2. CASE Lifecycle
    <2>1. UNCHANGED <<guardian, maxPct, roleMembers>>
      BY <1>2 DEF Lifecycle
    <2>2. CASE \E x \in Address, id \in Ids : Approve(x, id)
      BY <2>1, <2>2, ApproveStep
    <2>3. CASE \E x \in Address, id \in Ids : Revoke(x, id)
      BY <2>1, <2>3, RevokeStep
    <2>4. CASE \E x \in Address, id \in Ids : CancelProposal(x, id)
      BY <2>1, <2>4, CancelStep
    <2>5. CASE \E x \in Address, ids \in SUBSET Ids : CancelExpired(x, ids)
      BY <2>1, <2>5, SweepStep DEF CancelExpired
    <2>6. CASE \E ids \in SUBSET Ids : SweepExpired(ids)
      <3>1. PICK ids \in SUBSET Ids : Sweep(ExpiredAmong(ids \cap activeIds))
        BY <2>6 DEF SweepExpired
      <3>2. ids \cap activeIds \in SUBSET Ids
        OBVIOUS
      <3> QED
        BY <2>1, <3>1, <3>2, SweepStep
    <2>7. CASE Tick
      BY <2>1, <2>7, TickStep
    <2> QED
      BY <1>2, <2>2, <2>3, <2>4, <2>5, <2>6, <2>7 DEF Lifecycle
  <1>3. CASE Execute
    BY <1>3, ExecuteOthers, RemoveOwnerStep DEF Execute
  <1>4. CASE Emergency
    <2>1. UNCHANGED <<maxPct, roleMembers>>
      BY <1>4 DEF Emergency
    <2>2. maxPct \in Nat /\ guardian \in Address \cup {NoGuardian}
      BY DEF IInv, TypeOK
    <2>3. CASE \E x \in Address : Freeze(x)
      <3>1. UNCHANGED <<now, electorateVars, proposalVars, guardian>>
        BY <2>3 DEF Freeze
      <3>2. frozen' \in BOOLEAN
        BY <2>3, Zenon DEF Freeze
      <3> QED
        BY <3>1, <3>2, <2>1, <2>2, QuietStep
    <2>4. CASE \E S \in SUBSET Address : Unfreeze(S)
      <3>1. UNCHANGED <<now, electorateVars, proposalVars, guardian>>
        BY <2>4 DEF Unfreeze
      <3>2. frozen' \in BOOLEAN
        BY <2>4, Zenon DEF Unfreeze
      <3> QED
        BY <3>1, <3>2, <2>1, <2>2, QuietStep
    <2>5. CASE \E S \in SUBSET Address, x \in GuardianCandidates : SetGuardian(S, x)
      <3>1. UNCHANGED <<now, electorateVars, proposalVars>> /\ guardian' \in Address
        BY <2>5 DEF SetGuardian
      <3>2. frozen' \in BOOLEAN
        BY <2>5, Zenon DEF SetGuardian, IInv, TypeOK
      <3> QED
        BY <3>1, <3>2, <2>1, <2>2, QuietStep
    <2> QED
      BY <1>4, <2>3, <2>4, <2>5 DEF Emergency
  <1>5. CASE Parameters
    <2>1. /\ UNCHANGED <<now, electorateVars, proposalVars, guardian, roleMembers>>
          /\ maxPct' \in Nat /\ guardian' \in Address \cup {NoGuardian}
      BY <1>5 DEF Parameters, SetMaxPct, IInv, TypeOK
    <2>2. frozen' \in BOOLEAN
      BY <1>5, Zenon DEF Parameters, SetMaxPct, IInv, TypeOK
    <2> QED
      BY <2>1, <2>2, QuietStep
  <1>6. CASE UNCHANGED vars
    <2>1. /\ UNCHANGED <<now, electorateVars, proposalVars, roleMembers>>
          /\ maxPct' \in Nat /\ guardian' \in Address \cup {NoGuardian}
      BY <1>6 DEF vars, electorateVars, proposalVars, IInv, TypeOK
    <2>2. frozen' \in BOOLEAN
      BY <1>6, Zenon DEF vars, IInv, TypeOK
    <2> QED
      BY <2>1, <2>2, QuietStep
  <1> QED
    BY <1>1, <1>2, <1>3, <1>4, <1>5, <1>6 DEF Next

-----------------------------------------------------------------------------
(* Tallies *)

(***************************************************************************)
(* A step that gives no vote keeps the tallies, when it makes no proposal  *)
(* active and changes the tally of none that stays active.                 *)
(***************************************************************************)
LEMMA TallyKept ==
  ASSUME TallyMatches, Ids' = Ids, counted' = counted,
         \A i \in Ids : IsActive(proposals[i])' =>
            IsActive(proposals[i]) /\ proposals'[i].approvals = proposals[i].approvals
  PROVE  TallyMatches'
  BY DEF TallyMatches

\* A new proposal has no votes and a tally of 0.
LEMMA ProposeTally ==
  ASSUME IInv, TallyMatches, NEW p \in Address, NEW k \in Kind, NEW d \in Nat,
         Propose(p, k, d)
  PROVE  TallyMatches'
  <1> DEFINE id    == Len(proposals) + 1
             none  == [a \in Address |-> 0]
  <1>1. TypeOK /\ now' = now
    BY DEF IInv, Propose
  <1>2. /\ proposals' = Append(proposals, NewProposal(p, k, d))
        /\ counted' = Append(counted, none)
    BY DEF Propose, Register
  <1>3. /\ proposals \in Seq(Proposal) /\ counted \in Seq([Address -> Nat])
        /\ Len(counted) = Len(proposals) /\ Len(proposals) \in Nat /\ Ids = 1..Len(proposals)
    BY <1>1, IdsAre DEF TypeOK
  <1>4. /\ Ids' = Ids \cup {id}
        /\ proposals'[id] = NewProposal(p, k, d)
        /\ \A i \in Ids : proposals'[i] = proposals[i]
    BY <1>2, <1>3 DEF Ids
  <1>5. counted'[id] = none /\ \A i \in Ids : counted'[i] = counted[i]
    BY <1>2, <1>3
  <1>6. proposals'[id].approvals = Total(counted'[id], Address)
    <2>1. NewProposal(p, k, d).approvals = 0
      BY DEF NewProposal
    <2>2. Total(none, Address) = 0
      BY TotalZero
    <2> QED
      BY <1>4, <1>5, <2>1, <2>2
  <1>7. \A i \in Ids : IsActive(proposals[i])' =>
                          proposals'[i].approvals = Total(counted'[i], Address)
    <2>1. \A i \in Ids : IsActive(proposals[i])' <=> IsActive(proposals[i])
      BY <1>1, <1>4, ActiveNext
    <2> QED
      BY <1>4, <1>5, <2>1 DEF TallyMatches
  <1> QED
    BY <1>4, <1>6, <1>7 DEF TallyMatches

\* A vote given or taken back moves the tally by what its record moves.
LEMMA VoteTally ==
  ASSUME IInv, TallyMatches, NEW id \in Ids, NEW x \in Address, NEW v \in Nat,
         NEW q \in Proposal, IsActive(proposals[id]), now' = now,
         counted' = [counted EXCEPT ![id][x] = v],
         proposals' = [proposals EXCEPT ![id] = q],
         q.approvals = proposals[id].approvals - counted[id][x] + v
  PROVE  TallyMatches'
  <1>1. TypeOK
    BY DEF IInv
  <1>2. Ids' = Ids /\ \A i \in Ids : proposals'[i] = IF i = id THEN q ELSE proposals[i]
    BY <1>1, ReplaceOne
  <1>3. DOMAIN counted = Ids /\ \A i \in Ids : counted[i] \in [Address -> Nat]
    BY <1>1, IdsAre
  <1> DEFINE votes == [counted[id] EXCEPT ![x] = v]
  <1>4. \A i \in Ids : counted'[i] = IF i = id THEN votes ELSE counted[i]
    BY <1>3
  <1>5. q.approvals = Total(votes, Address)
    <2>1. votes \in [Address -> Nat] /\ counted[id] \in [Address -> Nat]
      BY <1>3
    <2>2. votes[x] = v /\ \A y \in Address \ {x} : votes[y] = counted[id][y]
      BY <2>1
    <2>3. Total(votes, Address) = Total(counted[id], Address) - counted[id][x] + votes[x]
      <3> HIDE DEF votes
      <3> QED
        BY <2>1, <2>2, BoundsAssumption, TotalUpdate
    <2>4. proposals[id].approvals = Total(counted[id], Address)
      BY DEF TallyMatches
    <2> QED
      BY <2>2, <2>3, <2>4
  <1>6. \A i \in Ids \ {id} : IsActive(proposals[i])' <=> IsActive(proposals[i])
    BY <1>2, ActiveNext
  <1> HIDE DEF votes
  <1> QED
    BY <1>2, <1>4, <1>5, <1>6 DEF TallyMatches

\* approve counts the weight it records; it recorded none before.
LEMMA ApproveTally ==
  ASSUME IInv, TallyMatches, NEW x \in Address, NEW id \in Ids, Approve(x, id)
  PROVE  TallyMatches'
  <1> DEFINE p == proposals[id]
             q == WithApproval(p, weight[x])
  <1>1. p \in Proposal /\ weight[x] \in Nat /\ now \in Nat
    <2>1. TypeOK
      BY DEF IInv
    <2> QED
      BY <2>1, IdsAre DEF TypeOK
  <1>2. /\ IsActive(p) /\ counted[id][x] = 0 /\ now' = now
        /\ counted' = [counted EXCEPT ![id][x] = weight[x]]
    BY DEF Approve
  <1>3. proposals' = [proposals EXCEPT ![id] = q]
    BY DEF Approve
  <1>4. q \in Proposal /\ q.approvals = p.approvals + weight[x] /\ p.approvals \in Nat
    BY <1>1, <1>2, ApprovalTyped DEF Proposal
  <1>5. q.approvals = p.approvals - counted[id][x] + weight[x]
    BY <1>1, <1>2, <1>4
  <1> HIDE DEF q
  <1> QED
    BY <1>1, <1>2, <1>3, <1>4, <1>5, VoteTally

\* revoke takes off exactly the weight the approval recorded.
LEMMA RevokeTally ==
  ASSUME IInv, TallyMatches, NEW x \in Address, NEW id \in Ids, Revoke(x, id)
  PROVE  TallyMatches'
  <1> DEFINE p == proposals[id]
             w == counted[id][x]
             q == WithoutApproval(p, w)
  <1>1. p \in Proposal /\ w \in Nat
    BY IdsAre DEF IInv
  <1>2. /\ IsActive(p) /\ p.approvals >= w /\ now' = now
        /\ counted' = [counted EXCEPT ![id][x] = 0]
    BY DEF Revoke
  <1>3. proposals' = [proposals EXCEPT ![id] = q]
    BY DEF Revoke
  <1>4. q \in Proposal /\ q.approvals = p.approvals - w /\ p.approvals \in Nat
    BY <1>1, <1>2, RevocationTyped DEF Proposal
  <1>5. q.approvals = p.approvals - w + 0
    BY <1>1, <1>4
  <1> HIDE DEF q
  <1> QED
    BY <1>2, <1>3, <1>4, <1>5, VoteTally

\* Closing a proposal leaves the tallies of the others alone.
LEMMA CloseTally ==
  ASSUME IInv, TallyMatches, NEW id \in Ids, NEW s \in Terminal, now' = now, counted' = counted,
         proposals' = [proposals EXCEPT ![id] = [proposals[id] EXCEPT !.status = s]]
  PROVE  TallyMatches'
  <1> DEFINE q == [proposals[id] EXCEPT !.status = s]
  <1>1. TypeOK /\ proposals[id] \in Proposal
    BY IdsAre DEF IInv
  <1>2. q \in Proposal /\ q.status = s
    BY <1>1 DEF Proposal, Status, Terminal
  <1>3. ~IsActive(q)
    <2> HIDE DEF q
    <2> QED
      BY <1>2, ActiveStatus
  <1>4. Ids' = Ids /\ \A i \in Ids : proposals'[i] = IF i = id THEN q ELSE proposals[i]
    BY <1>1, <1>2, ReplaceOne
  <1> HIDE DEF q
  <1>5. \A i \in Ids : IsActive(proposals[i])' => i # id /\ IsActive(proposals[i])
    BY <1>3, <1>4, ActiveNext
  <1> QED
    BY <1>4, <1>5, TallyKept

(***************************************************************************)
(* Removing an owner takes its recorded weight off every open tally.  The  *)
(* executing proposal itself is written back with its old tally, closed.   *)
(***************************************************************************)
LEMMA RemoveOwnerTally ==
  ASSUME IInv, TallyMatches, NEW x \in Address, NEW id \in Ids, ExecuteRemoveOwner(x, id)
  PROVE  TallyMatches'
  <1> DEFINE a    == proposals[id].kind.owner
             done == [proposals[id] EXCEPT !.status = "Executed"]
  <1>1. TypeOK /\ a \in Address /\ now' = now
    BY IdsAre, KindFields DEF IInv, Proposal, ExecuteRemoveOwner
  <1>2. \A i \in Ids : proposals[i] \in Proposal /\ counted[i] \in [Address -> Nat]
    BY <1>1, IdsAre
  <1>3. /\ \A i \in Ids : IsActive(proposals[i]) => proposals[i].approvals >= counted[i][a]
        /\ counted' = StrippedCounts(a)
        /\ proposals' = [Stripped(a) EXCEPT ![id] = done]
    BY DEF ExecuteRemoveOwner, FinishExecute
  <1>4. ~IsActive(done)
    <2>1. done \in Proposal /\ done.status = "Executed"
      BY <1>2 DEF Proposal, Status
    <2> HIDE DEF done
    <2> QED
      BY <2>1, ActiveStatus DEF Terminal
  <1> HIDE DEF a, done
  <1>5. Ids' = Ids /\ \A i \in Ids : proposals'[i] = IF i = id THEN done ELSE Stripped(a)[i]
    BY <1>3 DEF Ids, Stripped
  <1>6. ASSUME NEW i \in Ids, IsActive(proposals[i])'
        PROVE  proposals'[i].approvals = Total(counted'[i], Address)
    <2> DEFINE p == proposals[i]
               w == counted[i][a]
               c == [counted[i] EXCEPT ![a] = 0]
    <2>1. i # id /\ proposals'[i] = Stripped(a)[i] /\ IsActive(Stripped(a)[i])
      BY <1>1, <1>4, <1>5, <1>6, ActiveNext
    <2>2. IsActive(p)
      <3>1. CASE IsActive(p) /\ w > 0
        BY <3>1
      <3>2. CASE ~(IsActive(p) /\ w > 0)
        <4>1. Stripped(a)[i] = p
          BY <3>2 DEF Stripped
        <4> QED
          BY <2>1, <4>1
      <3> QED
        BY <3>1, <3>2
    <2>3. counted'[i] = c
      BY <1>3, <2>2 DEF StrippedCounts
    <2>4. p.approvals = Total(counted[i], Address) /\ p \in Proposal /\ w \in Nat
      BY <1>1, <1>2, <2>2 DEF TallyMatches
    <2>5. c \in [Address -> Nat] /\ c[a] = 0 /\ \A y \in Address \ {a} : c[y] = counted[i][y]
      BY <1>1, <1>2
    <2>6. Total(c, Address) = Total(counted[i], Address) - w + 0
      <3>1. counted[i] \in [Address -> Nat]
        BY <1>2
      <3> HIDE DEF c
      <3> QED
        BY <1>1, <2>5, <3>1, BoundsAssumption, TotalUpdate
    <2>7. Stripped(a)[i].approvals = p.approvals - w
      <3>1. CASE w > 0
        <4>1. Stripped(a)[i] = WithoutApproval(p, w) /\ p.approvals >= w
          BY <1>3, <2>2, <3>1 DEF Stripped
        <4> QED
          BY <2>2, <2>4, <4>1, RevocationTyped
      <3>2. CASE ~(w > 0)
        <4>1. Stripped(a)[i] = p /\ w = 0 /\ p.approvals \in Nat
          BY <2>4, <3>2 DEF Stripped, Proposal
        <4> QED
          BY <4>1
      <3> QED
        BY <3>1, <3>2
    <2>8. p.approvals \in Nat
      BY <2>4 DEF Proposal
    <2> HIDE DEF p, w, c
    <2> QED
      BY <2>1, <2>3, <2>4, <2>6, <2>7, <2>8
  <1> QED
    BY <1>5, <1>6 DEF TallyMatches

-----------------------------------------------------------------------------
(* The total weight *)

\* The owners weigh what all addresses weigh: the others weigh nothing.
LEMMA OwnersWeigh ==
  ASSUME weight \in [Address -> Nat]
  PROVE  WeightOf(Owners) = Total(weight, Address)
  <1>1. Owners = {a \in Address : weight[a] > 0}
    BY DEF Owners, IsOwner
  <1>2. Total(weight, {a \in Address : weight[a] > 0}) = Total(weight, Address)
    BY TotalPositive
  <1> QED
    BY <1>1, <1>2 DEF WeightOf

\* One address changes weight, and the total by no less.
LEMMA Reweigh ==
  ASSUME TypeOK, TypeOK', TotalCoversOwners, NEW a \in Address, NEW w \in Nat,
         weight' = [weight EXCEPT ![a] = w],
         totalWeight' >= totalWeight - weight[a] + w
  PROVE  TotalCoversOwners'
  <1>1. /\ weight \in [Address -> Nat] /\ weight' \in [Address -> Nat]
        /\ totalWeight \in Nat /\ totalWeight' \in Nat
    <2>1. weight \in [Address -> Nat] /\ totalWeight \in Nat
      BY BoundsAssumption DEF TypeOK
    <2>2. weight' \in [Address -> Nat] /\ totalWeight' \in Nat
      BY BoundsAssumption DEF TypeOK
    <2> QED
      BY <2>1, <2>2
  <1>2. weight'[a] = w /\ \A y \in Address \ {a} : weight'[y] = weight[y]
    BY <1>1
  <1>3. Total(weight', Address) = Total(weight, Address) - weight[a] + weight'[a]
    <2>1. IsFiniteSet(Address) /\ Address \in SUBSET Address
      BY BoundsAssumption
    <2>2. \A f, g \in [Address -> Nat] :
            (\A y \in Address \ {a} : g[y] = f[y])
              => Total(g, Address) = Total(f, Address) - f[a] + g[a]
      BY <2>1, TotalUpdate
    <2> QED
      BY <1>1, <1>2, <2>2
  <1>4. Total(weight, Address) <= totalWeight
    BY <1>1, OwnersWeigh DEF TotalCoversOwners
  <1>5. Total(weight, Address) \in Nat /\ weight[a] \in Nat
    BY <1>1, BoundsAssumption, UnitsFinite
  <1>6. Total(weight', Address) <= totalWeight'
    <2> DEFINE before == Total(weight, Address)
               old    == weight[a]
    <2>1. /\ before \in Nat /\ before <= totalWeight /\ old \in Nat
          /\ Total(weight', Address) = before - old + w
          /\ totalWeight' >= totalWeight - old + w
      BY <1>2, <1>3, <1>4, <1>5
    <2> HIDE DEF before, old
    <2> QED
      BY <1>1, <2>1
  <1>7. WeightOf(Owners)' = Total(weight', Address)
    <2>1. Owners' = {y \in Address : weight'[y] > 0}
      BY DEF Owners, IsOwner
    <2>2. Total(weight', {y \in Address : weight'[y] > 0}) = Total(weight', Address)
      BY <1>1, TotalPositive
    <2> QED
      BY <2>1, <2>2 DEF WeightOf
  <1> QED
    BY <1>6, <1>7 DEF TotalCoversOwners

\* A step that touches neither weights nor total keeps the total covering.
LEMMA TotalKept ==
  ASSUME TotalCoversOwners, UNCHANGED <<weight, totalWeight>>
  PROVE  TotalCoversOwners'
  BY DEF TotalCoversOwners, WeightOf, Owners, IsOwner

-----------------------------------------------------------------------------
(* The two role maps *)

\* update_owner_roles moves an address in both maps alike.
LEMMA SetRolesExact ==
  ASSUME TypeOK, RoleIndexExact, NEW x \in Address, NEW rs \in SUBSET Role, SetRoles(x, rs)
  PROVE  RoleIndexExact'
  <1>1. roles \in [Address -> SUBSET Role]
    BY DEF TypeOK
  <1>2. \A y \in Address : roles'[y] = IF y = x THEN rs ELSE roles[y]
    BY <1>1 DEF SetRoles
  <1>3. \A r \in Role : roleMembers[r] = {y \in Address : r \in roles[y]}
    BY DEF RoleIndexExact, HasRole
  <1>4. ASSUME NEW r \in Role
        PROVE  roleMembers'[r] = {y \in Address : r \in roles'[y]}
    <2>1. roleMembers'[r] =
            LET rest == IF r \in roles[x] THEN roleMembers[r] \ {x} ELSE roleMembers[r]
            IN  IF r \in rs THEN rest \cup {x} ELSE rest
      BY DEF SetRoles
    <2>2. roleMembers'[r] = IF r \in rs THEN {y \in Address : r \in roles[y]} \cup {x}
                                        ELSE {y \in Address : r \in roles[y]} \ {x}
      BY <1>3, <2>1
    <2> QED
      BY <1>2, <2>2
  <1> QED
    BY <1>4 DEF RoleIndexExact, HasRole

\* A step that touches no role keeps the maps inverse.
LEMMA RolesKept ==
  ASSUME RoleIndexExact, UNCHANGED <<roles, roleMembers>>
  PROVE  RoleIndexExact'
  BY DEF RoleIndexExact, HasRole

-----------------------------------------------------------------------------
(* Every step keeps the books *)

\* What the tallies, the total and the role maps add to IInv.
Books == TallyMatches /\ TotalCoversOwners /\ RoleIndexExact

\* Initially there is nothing to tally and the total was summed.
LEMMA InitBooks == Init => Books
  <1> SUFFICES ASSUME Init PROVE Books
    OBVIOUS
  <1>1. TypeOK
    BY InitInv DEF IInv
  <1>2. TallyMatches
    BY DEF Init, Ids, TallyMatches
  <1>3. TotalCoversOwners
    BY <1>1 DEF Init, TotalCoversOwners, TypeOK
  <1>4. RoleIndexExact
    BY DEF Init, RoleIndexExact
  <1> QED
    BY <1>2, <1>3, <1>4 DEF Books

\* A step outside the electorate keeps the books if it keeps the tallies.
LEMMA OutsideElectorate ==
  ASSUME Books, UNCHANGED <<electorateVars, roleMembers>>, TallyMatches'
  PROVE  Books'
  BY TotalKept, RolesKept DEF Books, electorateVars

\* Executing a kind that changes at most one owner's weight and roles.
LEMMA ExecuteBooks ==
  ASSUME IInv, IInv', Books, NEW x \in Address, NEW id \in Ids,
         \/ ExecuteAddOwner(x, id)
         \/ ExecuteChangeWeight(x, id)
         \/ ExecuteChangeThreshold(x, id)
         \/ ExecuteGrantRole(x, id)
         \/ ExecuteRevokeRole(x, id)
         \/ ExecuteTransferGuardian(x, id)
  PROVE  Books'
  <1> DEFINE k == proposals[id].kind
  <1>1. TypeOK /\ TypeOK' /\ k \in Kind
    BY IdsAre DEF IInv, Proposal
  <1>2. TallyMatches /\ TotalCoversOwners /\ RoleIndexExact
    BY DEF Books
  <1>3. Conclude(id)
    BY DEF ExecuteAddOwner, ExecuteChangeWeight, ExecuteChangeThreshold,
           ExecuteGrantRole, ExecuteRevokeRole, ExecuteTransferGuardian
  <1>4. TallyMatches'
    <2>1. proposals' = [proposals EXCEPT ![id] = [proposals[id] EXCEPT !.status = "Executed"]]
      BY <1>3 DEF Conclude, FinishExecute
    <2>2. now' = now /\ counted' = counted
      BY <1>3 DEF Conclude
    <2>3. "Executed" \in Terminal
      BY DEF Terminal
    <2> QED
      BY <1>2, <2>1, <2>2, <2>3, CloseTally
  <1>5. weight \in [Address -> 0..MaxOwnerWeight] /\ totalWeight \in Nat
    BY <1>1 DEF TypeOK
  <1>6. CASE ExecuteAddOwner(x, id)
    <2>1. k.owner \in Address /\ k.weight \in Nat
      BY <1>1, <1>6, KindFields DEF ExecuteAddOwner, Weights
    <2>2. /\ weight' = [weight EXCEPT ![k.owner] = k.weight]
          /\ totalWeight' = totalWeight + k.weight
          /\ SetRoles(k.owner, DefaultOwnerRoles)
      BY <1>6 DEF ExecuteAddOwner, TotalAfterAdd
    <2>3. totalWeight' >= totalWeight - weight[k.owner] + k.weight
      BY <1>5, <2>1, <2>2, BoundsAssumption
    <2>4. TotalCoversOwners'
      BY <1>1, <1>2, <2>1, <2>2, <2>3, Reweigh
    <2>5. RoleIndexExact'
      BY <1>1, <1>2, <2>1, <2>2, SetRolesExact DEF DefaultOwnerRoles, Role
    <2> QED
      BY <1>4, <2>4, <2>5 DEF Books
  <1>7. CASE ExecuteChangeWeight(x, id)
    <2>1. k.owner \in Address /\ k.weight \in Nat
      BY <1>1, <1>7, KindFields DEF ExecuteChangeWeight, Weights
    <2>2. /\ weight' = [weight EXCEPT ![k.owner] = k.weight]
          /\ totalWeight' = totalWeight - weight[k.owner] + k.weight
          /\ UNCHANGED <<roles, roleMembers>>
      BY <1>7 DEF ExecuteChangeWeight, TotalAfterChange
    <2>3. totalWeight' >= totalWeight - weight[k.owner] + k.weight
      BY <1>5, <2>1, <2>2, BoundsAssumption
    <2>4. TotalCoversOwners'
      BY <1>1, <1>2, <2>1, <2>2, <2>3, Reweigh
    <2> QED
      BY <1>2, <1>4, <2>2, <2>4, RolesKept DEF Books
  <1>8. CASE ExecuteChangeThreshold(x, id) \/ ExecuteTransferGuardian(x, id)
    <2>1. UNCHANGED <<weight, totalWeight, roles, roleMembers>>
      BY <1>8 DEF ExecuteChangeThreshold, ExecuteTransferGuardian, electorateVars
    <2> QED
      BY <1>2, <1>4, <2>1, TotalKept, RolesKept DEF Books
  <1>9. CASE ExecuteGrantRole(x, id) \/ ExecuteRevokeRole(x, id)
    <2>1. /\ UNCHANGED <<weight, totalWeight>> /\ k.op \in {"GrantRole", "RevokeRole"}
          /\ \E rs \in {roles[k.target] \cup {k.role}, roles[k.target] \ {k.role}} :
                SetRoles(k.target, rs)
      BY <1>9 DEF ExecuteGrantRole, ExecuteRevokeRole
    <2>2. k.target \in Address /\ k.role \in Role
      BY <1>1, <2>1, KindFields
    <2>3. \E rs \in SUBSET Role : SetRoles(k.target, rs)
      BY <1>1, <2>1, <2>2 DEF TypeOK
    <2>4. RoleIndexExact'
      BY <1>1, <1>2, <2>2, <2>3, SetRolesExact
    <2> QED
      BY <1>2, <1>4, <2>1, <2>4, TotalKept DEF Books
  <1> QED
    BY <1>6, <1>7, <1>8, <1>9

\* Removing an owner.
LEMMA RemoveOwnerBooks ==
  ASSUME IInv, IInv', Books, NEW x \in Address, NEW id \in Ids, ExecuteRemoveOwner(x, id)
  PROVE  Books'
  <1> DEFINE a == proposals[id].kind.owner
  <1>1. TypeOK /\ TypeOK' /\ a \in Address
    BY IdsAre, KindFields DEF IInv, Proposal, ExecuteRemoveOwner
  <1>2. /\ weight' = [weight EXCEPT ![a] = 0]
        /\ totalWeight' = totalWeight - weight[a] /\ SetRoles(a, {})
    BY DEF ExecuteRemoveOwner, TotalAfterRemove
  <1>3. TallyMatches'
    BY RemoveOwnerTally DEF Books
  <1> HIDE DEF a
  <1>4. totalWeight' >= totalWeight - weight[a] + 0
    BY <1>1, <1>2, BoundsAssumption DEF TypeOK
  <1>5. TotalCoversOwners'
    BY <1>1, <1>2, <1>4, Reweigh DEF Books
  <1>6. RoleIndexExact'
    BY <1>1, <1>2, SetRolesExact DEF Books
  <1> QED
    BY <1>3, <1>5, <1>6 DEF Books

\* Every step, and every stutter, keeps the books.
LEMMA NextBooks == IInv /\ Books /\ [Next]_vars => Books'
  <1> SUFFICES ASSUME IInv, Books, [Next]_vars PROVE Books'
    OBVIOUS
  <1>1. IInv' /\ TallyMatches
    BY NextInv DEF Books
  <1>2. CASE Create
    <2>1. PICK p \in Proposers, k \in Menu, d \in Durations : Propose(p, k, d)
      BY <1>2 DEF Create, ProposeAddOwner, ProposeRemoveOwner, ProposeChangeWeight,
                  ProposeChangeThreshold, ProposeGrantRole, ProposeRevokeRole,
                  ProposeTransferGuardian
    <2>2. p \in Address /\ k \in Kind /\ d \in Nat
      BY BoundsAssumption, GovernanceAssumption
    <2>3. TallyMatches'
      BY <1>1, <2>1, <2>2, ProposeTally
    <2>4. UNCHANGED <<electorateVars, roleMembers>>
      BY <2>1 DEF Propose
    <2> QED
      BY <2>3, <2>4, OutsideElectorate
  <1>3. CASE Lifecycle
    <2>1. roleMembers' = roleMembers
      BY <1>3 DEF Lifecycle
    <2>2. CASE \E x \in Address, id \in Ids : Approve(x, id)
      BY <1>1, <2>1, <2>2, ApproveTally, OutsideElectorate DEF Approve
    <2>3. CASE \E x \in Address, id \in Ids : Revoke(x, id)
      BY <1>1, <2>1, <2>3, RevokeTally, OutsideElectorate DEF Revoke
    <2>4. CASE \E x \in Address, id \in Ids : CancelProposal(x, id)
      <3>1. PICK x \in Address, id \in Ids : CancelProposal(x, id)
        BY <2>4
      <3>2. /\ proposals' = [proposals EXCEPT ![id] =
                               [proposals[id] EXCEPT !.status = "Cancelled"]]
            /\ UNCHANGED <<now, electorateVars, counted>>
        BY <3>1, IdsAre DEF CancelProposal, IInv
      <3>3. "Cancelled" \in Terminal
        BY DEF Terminal
      <3>4. TallyMatches'
        BY <1>1, <3>2, <3>3, CloseTally
      <3> QED
        BY <2>1, <3>2, <3>4, OutsideElectorate
    <2>5. CASE \/ \E x \in Address, ids \in SUBSET Ids : CancelExpired(x, ids)
               \/ \E ids \in SUBSET Ids : SweepExpired(ids)
      <3>1. UNCHANGED <<now, electorateVars, proposals, counted>>
        BY <2>5 DEF CancelExpired, SweepExpired, Sweep
      <3>2. TallyMatches'
        BY <1>1, <3>1, ActiveNext, TallyKept DEF Ids
      <3> QED
        BY <2>1, <3>1, <3>2, OutsideElectorate
    <2>6. CASE Tick
      <3>1. /\ UNCHANGED <<electorateVars, proposals, counted>> /\ Ids' = Ids
            /\ now' = now + 1 /\ now \in Nat
        BY <2>6 DEF Tick, proposalVars, Ids, IInv, TypeOK
      <3>2. \A i \in Ids : proposals[i] \in Proposal
        BY IdsAre DEF IInv
      <3>3. \A i \in Ids : IsActive(proposals[i])' => IsActive(proposals[i])
        BY <3>1, <3>2 DEF IsActive, DeriveStatus, Proposal
      <3>4. TallyMatches'
        BY <1>1, <3>1, <3>3, TallyKept
      <3> QED
        BY <2>1, <3>1, <3>4, OutsideElectorate
    <2> QED
      BY <1>3, <2>2, <2>3, <2>4, <2>5, <2>6 DEF Lifecycle
  <1>4. CASE Execute
    BY <1>1, <1>4, ExecuteBooks, RemoveOwnerBooks DEF Execute
  <1>5. CASE Emergency \/ Parameters \/ UNCHANGED vars
    <2>1. UNCHANGED <<now, electorateVars, proposalVars, roleMembers>>
      BY <1>5 DEF Emergency, Freeze, Unfreeze, SetGuardian, Parameters, SetMaxPct,
                  vars, electorateVars, proposalVars
    <2>2. UNCHANGED <<proposals, counted>> /\ Ids' = Ids
      BY <2>1 DEF proposalVars, Ids
    <2>3. TallyMatches'
      BY <1>1, <2>1, <2>2, ActiveNext, TallyKept
    <2> QED
      BY <2>1, <2>3, OutsideElectorate
  <1> QED
    BY <1>2, <1>3, <1>4, <1>5 DEF Next

-----------------------------------------------------------------------------
(* Theorems *)

\* The inductive invariant holds in every reachable state, for every instance.
THEOREM Inductive == Spec => []IInv
  BY InitInv, NextInv, PTL DEF Spec

(***************************************************************************)
(* Type correctness: among others, the index only holds ids on record and  *)
(* never more than MaxActive of them.                                      *)
(***************************************************************************)
THEOREM TypeCorrect == Spec => []TypeOK
  <1>1. IInv => TypeOK
    BY DEF IInv
  <1> QED
    BY <1>1, Inductive, PTL

(***************************************************************************)
(* INV-02: for any set of owners, weights and proposals, no execution      *)
(* leaves the threshold or an open proposal's quorum above the total.      *)
(***************************************************************************)
THEOREM QuorumSafe == Spec => []QuorumAttainable
  <1>1. IInv => QuorumAttainable
    BY DEF IInv
  <1> QED
    BY <1>1, Inductive, PTL

(***************************************************************************)
(* INV-08: the index and its stored count track exactly the proposals that *)
(* can still execute, plus expired ones nothing has purged yet.            *)
(***************************************************************************)
THEOREM IndexSafe == Spec => []ActiveIndexExact
  <1>1. IInv => ActiveIndexExact
    BY DEF IInv
  <1> QED
    BY <1>1, Inductive, PTL

(***************************************************************************)
(* INV-04: no vote of an address that is not an owner stands on a proposal *)
(* that can still execute.                                                 *)
(***************************************************************************)
THEOREM VotesSafe == Spec => []NoGhostVotes
  <1>1. IInv => NoGhostVotes
    BY DEF IInv
  <1> QED
    BY <1>1, Inductive, PTL

(***************************************************************************)
(* INV-07: a proposal at its quorum always has its timer set, so the       *)
(* time-lock of execute is never measured from an unset 0.                 *)
(***************************************************************************)
THEOREM TimerSafe == Spec => []ReadyHasTimer
  <1>1. IInv => ReadyHasTimer
    BY DEF IInv
  <1> QED
    BY <1>1, Inductive, PTL

(***************************************************************************)
(* INV-04: for every instance, the tally of a proposal that can still      *)
(* execute is the sum of the weights its approvals recorded.               *)
(***************************************************************************)
THEOREM TalliesExact == Spec => []TallyMatches
  <1>1. Spec => [](IInv /\ Books)
    BY InitInv, InitBooks, NextInv, NextBooks, PTL DEF Spec
  <1>2. IInv /\ Books => TallyMatches
    BY DEF Books
  <1> QED
    BY <1>1, <1>2, PTL

(***************************************************************************)
(* The total on record never falls below the weight of the owners, though  *)
(* admitting an address twice can leave it above.                          *)
(***************************************************************************)
THEOREM TotalCovers == Spec => []TotalCoversOwners
  <1>1. Spec => [](IInv /\ Books)
    BY InitInv, InitBooks, NextInv, NextBooks, PTL DEF Spec
  <1>2. IInv /\ Books => TotalCoversOwners
    BY DEF Books
  <1> QED
    BY <1>1, <1>2, PTL

\* The map from role to holders stays the inverse of the roles of each address.
THEOREM RolesExact == Spec => []RoleIndexExact
  <1>1. Spec => [](IInv /\ Books)
    BY InitInv, InitBooks, NextInv, NextBooks, PTL DEF Spec
  <1>2. IInv /\ Books => RoleIndexExact
    BY DEF Books
  <1> QED
    BY <1>1, <1>2, PTL

-----------------------------------------------------------------------------
(* Ballots and the proposals behind them *)

\* Both modules add up alike.
LEMMA SameTotal ==
  ASSUME NEW f, NEW S
  PROVE  B!Total(f, S) = Total(f, S)
  BY DEF B!Total, B!Units, B!UnitsOf, B!Cardinality, Total, Units, UnitsOf, Cardinality

\* The ballot of a proposal, field by field.
LEMMA ViewFields ==
  /\ DOMAIN BallotView = Ids
  /\ \A i \in Ids : BallotView[i] = [state  |-> BallotState(proposals[i]),
                                     quorum |-> proposals[i].quorum,
                                     votes  |-> counted[i]]
  BY DEF BallotView

\* A ballot is open exactly while its proposal is active.
LEMMA OpenIsActive ==
  ASSUME TypeOK, NEW i \in Ids
  PROVE  B!IsOpen(i) <=> IsActive(proposals[i])
  <1>1. proposals[i] \in Proposal
    BY IdsAre
  <1>2. BallotView[i].state = BallotState(proposals[i])
    BY ViewFields
  <1> QED
    BY <1>1, <1>2 DEF B!IsOpen, BallotState, IsActive, DeriveStatus, Proposal, Status, Terminal

\* The present owners' votes on an open ballot are the tally on record.
LEMMA OpenTally ==
  ASSUME IInv, TallyMatches, NEW i \in Ids, IsActive(proposals[i])
  PROVE  B!Tally(i) = proposals[i].approvals
  <1> DEFINE f == counted[i]
  <1>1. f \in [Address -> Nat] /\ BallotView[i].votes = f
    BY IdsAre, ViewFields DEF IInv
  <1>2. Total(f, {x \in Address : f[x] > 0}) = Total(f, Address)
    BY <1>1, TotalPositive
  <1>3. {x \in Owners : f[x] > 0} = {x \in Address : f[x] > 0}
    BY DEF IInv, NoGhostVotes, Owners
  <1>4. Total(f, {x \in Owners : f[x] > 0}) = Total(f, Owners)
    <2>1. \A x \in Owners : ~(f[x] > 0) => UnitsOf(f, x) = {}
      BY <1>1 DEF UnitsOf, Owners
    <2>2. Units(f, {x \in Owners : f[x] > 0}) = Units(f, Owners)
      BY <2>1 DEF Units
    <2> QED
      BY <2>2 DEF Total
  <1>5. B!Tally(i) = Total(f, Owners)
    BY <1>1, SameTotal DEF B!Tally
  <1>6. proposals[i].approvals = Total(f, Address)
    BY DEF TallyMatches
  <1> QED
    BY <1>2, <1>3, <1>4, <1>5, <1>6

\* An open ballot may be carried exactly when its proposal is Ready.
LEMMA CarryIsReady ==
  ASSUME IInv, TallyMatches, NEW i \in Ids, IsActive(proposals[i])
  PROVE  B!MayCarry(i) <=> DeriveStatus(proposals[i]) = "Ready"
  <1>1. proposals[i] \in Proposal /\ B!IsOpen(i) /\ B!Tally(i) = proposals[i].approvals
    BY IdsAre, OpenIsActive, OpenTally DEF IInv
  <1>2. BallotView[i].quorum = proposals[i].quorum
    BY ViewFields
  <1> QED
    BY <1>1, <1>2 DEF B!MayCarry, IsActive, DeriveStatus, Proposal, Terminal

\* Rewriting one proposal and its counted weights rewrites one ballot.
LEMMA OneBallot ==
  ASSUME TypeOK, NEW id \in Ids, NEW q \in Proposal, NEW v \in [Address -> Nat], now' = now,
         proposals' = [proposals EXCEPT ![id] = q],
         counted' = [counted EXCEPT ![id] = v],
         q.quorum = proposals[id].quorum
  PROVE  BallotView' = [BallotView EXCEPT ![id] = [state  |-> BallotState(q),
                                                   quorum |-> proposals[id].quorum,
                                                   votes  |-> v]]
  <1>1. Ids' = Ids /\ \A i \in Ids : proposals'[i] = IF i = id THEN q ELSE proposals[i]
    BY ReplaceOne
  <1>2. \A i \in Ids : counted'[i] = IF i = id THEN v ELSE counted[i]
    BY IdsAre
  <1>3. \A i \in Ids : BallotState(proposals[i])' = BallotState(proposals'[i])
    BY DEF BallotState, DeriveStatus
  <1>4. \A i \in Ids : BallotState(proposals'[i]) = IF i = id THEN BallotState(q)
                                                             ELSE BallotState(proposals[i])
    BY <1>1
  <1>5. BallotView' = [i \in Ids |-> [state  |-> BallotState(proposals'[i]),
                                      quorum |-> proposals'[i].quorum,
                                      votes  |-> counted'[i]]]
    BY <1>1, <1>3 DEF BallotView
  <1> HIDE DEF BallotState
  <1>6. BallotView' = [i \in Ids |-> IF i = id THEN [state  |-> BallotState(q),
                                                    quorum |-> proposals[id].quorum,
                                                    votes  |-> v]
                                     ELSE BallotView[i]]
    BY <1>1, <1>2, <1>4, <1>5, ViewFields
  <1> QED
    BY <1>6, ViewFields

\* The ballots as a whole are typed.
BallotType == [state  : {"open", "carried", "withdrawn", "lapsed"},
               quorum : Nat, votes : [Address -> Nat]]

LEMMA ViewTyped == TypeOK => BallotView \in Seq(BallotType) /\ Len(BallotView) = Len(proposals)
  <1> SUFFICES ASSUME TypeOK
               PROVE  BallotView \in Seq(BallotType) /\ Len(BallotView) = Len(proposals)
    OBVIOUS
  <1>1. /\ Len(proposals) \in Nat /\ Ids = 1..Len(proposals)
        /\ \A i \in Ids : proposals[i].quorum \in Nat /\ counted[i] \in [Address -> Nat]
    <2>1. \A i \in Ids : proposals[i] \in Proposal
      BY IdsAre
    <2> QED
      BY <2>1, IdsAre DEF Proposal
  <1>2. \A i \in Ids : BallotState(proposals[i]) \in {"open", "carried", "withdrawn", "lapsed"}
    BY DEF BallotState
  <1>3. BallotView \in [1..Len(proposals) -> BallotType]
    BY <1>1, <1>2 DEF BallotView, BallotType
  <1>4. BallotView \in Seq(BallotType)
    BY <1>1, <1>3, FunctionIsSeq
  <1> QED
    BY <1>1, <1>3, <1>4, LenProperties

\* Rewriting a field of a ballot is rewriting the ballot.
LEMMA RewriteVotes ==
  ASSUME NEW i \in Ids, NEW m, NEW w
  PROVE  [BallotView EXCEPT ![i].votes[m] = w]
           = [BallotView EXCEPT ![i] = [state  |-> BallotState(proposals[i]),
                                        quorum |-> proposals[i].quorum,
                                        votes  |-> [counted[i] EXCEPT ![m] = w]]]
  <1>1. [BallotView EXCEPT ![i].votes[m] = w]
          = [BallotView EXCEPT ![i] = [BallotView[i] EXCEPT !.votes[m] = w]]
    BY DEF BallotView
  <1>2. [BallotView[i] EXCEPT !.votes[m] = w]
          = [state  |-> BallotState(proposals[i]),
             quorum |-> proposals[i].quorum,
             votes  |-> [counted[i] EXCEPT ![m] = w]]
    BY ViewFields
  <1> QED
    BY <1>1, <1>2

LEMMA RewriteState ==
  ASSUME NEW i \in Ids, NEW t
  PROVE  [BallotView EXCEPT ![i].state = t]
           = [BallotView EXCEPT ![i] = [state  |-> t,
                                        quorum |-> proposals[i].quorum,
                                        votes  |-> counted[i]]]
  <1>1. [BallotView EXCEPT ![i].state = t]
          = [BallotView EXCEPT ![i] = [BallotView[i] EXCEPT !.state = t]]
    BY DEF BallotView
  <1>2. [BallotView[i] EXCEPT !.state = t]
          = [state |-> t, quorum |-> proposals[i].quorum, votes |-> counted[i]]
    BY ViewFields
  <1> QED
    BY <1>1, <1>2

-----------------------------------------------------------------------------
(* What each call is on the ballots *)

\* create_*_proposal opens a ballot, at the present threshold.
LEMMA ProposeOpens ==
  ASSUME TypeOK, TypeOK', NEW p \in Address, NEW k \in Kind, NEW d \in Nat, Propose(p, k, d)
  PROVE  B!Open
  <1> DEFINE n    == Len(proposals)
             q    == NewProposal(p, k, d)
             none == [a \in Address |-> 0]
             b    == [state |-> "open", quorum |-> threshold, votes |-> none]
  <1>1. /\ proposals' = Append(proposals, q) /\ counted' = Append(counted, none)
        /\ UNCHANGED <<now, weight, threshold>>
    BY DEF Propose, Register, electorateVars
  <1>2. /\ proposals \in Seq(Proposal) /\ counted \in Seq([Address -> Nat])
        /\ Len(counted) = n /\ n \in Nat /\ Ids = 1..n /\ now \in Nat
        /\ threshold \in Nat \ {0}
    BY IdsAre DEF TypeOK
  <1>3. q \in Proposal
    BY <1>2 DEF NewProposal, Proposal, Status
  <1>4. /\ Ids' = 1..(n + 1)
        /\ \A i \in 1..n : proposals'[i] = proposals[i] /\ counted'[i] = counted[i]
        /\ proposals'[n + 1] = q /\ counted'[n + 1] = none
    <2>1. Len(proposals') = n + 1 /\ Ids' = 1..(n + 1)
      BY <1>1, <1>2, <1>3, AppendProperties DEF Ids
    <2> QED
      BY <1>1, <1>2, <1>3, <2>1, AppendProperties
  <1>5. \A i \in Ids' : BallotState(proposals[i])' = BallotState(proposals'[i])
    BY <1>1 DEF BallotState, DeriveStatus
  <1>6. BallotState(q) = "open"
    BY <1>2 DEF BallotState, DeriveStatus, NewProposal, Terminal
  <1>7. BallotView'[n + 1] = b
    <2>1. n + 1 \in Ids'
      BY <1>2, <1>4
    <2>2. BallotView'[n + 1] = [state |-> BallotState(q), quorum |-> q.quorum, votes |-> none]
      BY <2>1, <1>4, <1>5 DEF BallotView
    <2>3. q.quorum = threshold
      BY DEF NewProposal
    <2> QED
      BY <1>6, <2>2, <2>3
  <1>8. \A i \in 1..n : BallotView'[i] = BallotView[i]
    BY <1>2, <1>4, <1>5 DEF BallotView
  <1>9. /\ BallotView \in Seq(BallotType) /\ Len(BallotView) = n
        /\ BallotView' \in Seq(BallotType) /\ Len(BallotView') = n + 1
    <2>1. (TypeOK => BallotView \in Seq(BallotType) /\ Len(BallotView) = Len(proposals))'
      BY ViewTyped, PTL
    <2>2. Seq(BallotType)' = Seq(BallotType) /\ Len(BallotView)' = Len(BallotView')
      BY DEF BallotType
    <2>3. Len(proposals') = n + 1
      BY <1>1, <1>2, <1>3, AppendProperties
    <2> QED
      BY <2>1, <2>2, <2>3, ViewTyped
  <1>10. b \in BallotType
    BY <1>2 DEF BallotType
  <1>11. BallotView' = Append(BallotView, b)
    <2> DEFINE v == BallotView
               w == BallotView'
    <2>1. \A i \in 1..n : w[i] = v[i]
      BY <1>8
    <2>2. w[n + 1] = b /\ v \in Seq(BallotType) /\ w \in Seq(BallotType) /\ Len(v) = n /\ Len(w) = n + 1
      BY <1>7, <1>9
    <2> HIDE DEF v, w, b, n
    <2>3. /\ Append(v, b) \in Seq(BallotType) /\ Len(Append(v, b)) = n + 1
          /\ \A i \in 1..n : Append(v, b)[i] = v[i]
          /\ Append(v, b)[n + 1] = b
      BY <1>2, <1>10, <2>2, AppendProperties
    <2>4. \A i \in 1..(n + 1) : w[i] = Append(v, b)[i]
      BY <1>2, <2>1, <2>2, <2>3
    <2>5. w = Append(v, b)
      BY <1>2, <2>2, <2>3, <2>4, SeqEqual
    <2> QED
      BY <2>5 DEF v, w
  <1>12. UNCHANGED Owners
    BY <1>1 DEF Owners, IsOwner
  <1> QED
    BY <1>2, <1>7, <1>9, <1>11, <1>12 DEF B!Open

\* approve is a vote of the approver's present weight.
LEMMA ApproveVotes ==
  ASSUME IInv, NEW a \in Address, NEW id \in Ids, Approve(a, id)
  PROVE  B!Vote(id, a, weight[a]) /\ weight[a] \in Weights
  <1> DEFINE p == proposals[id]
             q == WithApproval(p, weight[a])
             v == [counted[id] EXCEPT ![a] = weight[a]]
  <1>1. TypeOK /\ p \in Proposal /\ counted[id] \in [Address -> Nat] /\ now \in Nat
    <2>1. TypeOK
      BY DEF IInv
    <2> QED
      BY <2>1, IdsAre DEF TypeOK
  <1>2. weight[a] \in Weights /\ weight[a] \in Nat
    <2>1. weight[a] > 0
      BY DEF Approve, MayVote, IsOwner
    <2>2. weight \in [Address -> 0..MaxOwnerWeight]
      BY <1>1 DEF TypeOK
    <2>3. weight[a] \in 0..MaxOwnerWeight
      BY <2>2
    <2> QED
      BY <2>1, <2>3 DEF Weights
  <1>3. /\ IsActive(p) /\ IsOwner(a) /\ counted[id][a] = 0 /\ UNCHANGED <<now, weight>>
        /\ proposals' = [proposals EXCEPT ![id] = q]
        /\ counted' = [counted EXCEPT ![id] = v]
    BY DEF Approve, MayVote, electorateVars
  <1>4. q \in Proposal /\ q.quorum = p.quorum /\ q.status \notin Terminal
        /\ q.deadline = p.deadline
    BY <1>1, <1>2, <1>3, ApprovalTyped
  <1>5. v \in [Address -> Nat]
    BY <1>1, <1>2
  <1> HIDE DEF q
  <1>6. BallotState(q) = "open"
    BY <1>1, <1>3, <1>4, ActiveStatus DEF BallotState, DeriveStatus, IsActive
  <1>7. BallotView' = [BallotView EXCEPT ![id] = [state  |-> "open",
                                                  quorum |-> p.quorum,
                                                  votes  |-> v]]
    <2>1. proposals[id].quorum = p.quorum
      OBVIOUS
    <2> HIDE DEF p, v, BallotState
    <2>2. BallotView' = [BallotView EXCEPT ![id] = [state  |-> BallotState(q),
                                                    quorum |-> proposals[id].quorum,
                                                    votes  |-> v]]
      BY <1>1, <1>3, <1>4, <1>5, <2>1, OneBallot
    <2> QED
      BY <1>6, <2>1, <2>2
  <1>8. BallotView[id] = [state |-> "open", quorum |-> p.quorum, votes |-> counted[id]]
    <2>1. BallotState(p) = "open"
      BY <1>1, <1>3, ActiveStatus DEF BallotState, DeriveStatus, IsActive
    <2> QED
      BY <2>1, ViewFields
  <1>9. B!IsOpen(id) /\ a \in Owners /\ BallotView[id].votes[a] = 0 /\ UNCHANGED Owners
    BY <1>1, <1>3, <1>8, OpenIsActive DEF Owners, IsOwner
  <1>10. BallotView' = [BallotView EXCEPT ![id].votes[a] = weight[a]]
    <2>1. BallotState(p) = "open"
      BY <1>8, ViewFields
    <2> HIDE DEF BallotState
    <2>2. [BallotView EXCEPT ![id].votes[a] = weight[a]]
            = [BallotView EXCEPT ![id] = [state  |-> BallotState(proposals[id]),
                                          quorum |-> proposals[id].quorum,
                                          votes  |-> [counted[id] EXCEPT ![a] = weight[a]]]]
      BY RewriteVotes
    <2> QED
      BY <1>7, <2>1, <2>2
  <1> QED
    BY <1>2, <1>9, <1>10 DEF B!Vote

\* revoke takes a standing vote back.
LEMMA RevokeRetracts ==
  ASSUME IInv, NEW a \in Address, NEW id \in Ids, Revoke(a, id)
  PROVE  B!Retract(id, a)
  <1> DEFINE p == proposals[id]
             w == counted[id][a]
             q == WithoutApproval(p, w)
             v == [counted[id] EXCEPT ![a] = 0]
  <1>1. TypeOK /\ p \in Proposal /\ counted[id] \in [Address -> Nat] /\ w \in Nat
    BY IdsAre DEF IInv
  <1>2. /\ IsActive(p) /\ w > 0 /\ p.approvals >= w /\ UNCHANGED <<now, weight>>
        /\ proposals' = [proposals EXCEPT ![id] = q]
        /\ counted' = [counted EXCEPT ![id] = v]
    BY DEF Revoke, electorateVars
  <1>3. q \in Proposal /\ q.quorum = p.quorum /\ q.status \notin Terminal
        /\ q.deadline = p.deadline
    BY <1>1, <1>2, RevocationTyped
  <1>4. v \in [Address -> Nat]
    BY <1>1
  <1> HIDE DEF q
  <1>5. BallotState(q) = "open" /\ BallotState(p) = "open"
    BY <1>1, <1>2, <1>3, ActiveStatus DEF BallotState, DeriveStatus, IsActive
  <1>6. BallotView' = [BallotView EXCEPT ![id] = [state  |-> "open",
                                                  quorum |-> p.quorum,
                                                  votes  |-> v]]
    <2>1. proposals[id].quorum = p.quorum
      OBVIOUS
    <2> HIDE DEF p, v, BallotState
    <2>2. BallotView' = [BallotView EXCEPT ![id] = [state  |-> BallotState(q),
                                                    quorum |-> proposals[id].quorum,
                                                    votes  |-> v]]
      BY <1>1, <1>2, <1>3, <1>4, <2>1, OneBallot
    <2> QED
      BY <1>5, <2>1, <2>2
  <1>7. BallotView[id] = [state |-> "open", quorum |-> p.quorum, votes |-> counted[id]]
    BY <1>5, ViewFields
  <1>8. B!IsOpen(id) /\ BallotView[id].votes[a] > 0 /\ UNCHANGED Owners
    BY <1>1, <1>2, <1>7, OpenIsActive DEF Owners, IsOwner
  <1>9. BallotView' = [BallotView EXCEPT ![id].votes[a] = 0]
    <2> HIDE DEF BallotState
    <2>2. [BallotView EXCEPT ![id].votes[a] = 0]
            = [BallotView EXCEPT ![id] = [state  |-> BallotState(proposals[id]),
                                          quorum |-> proposals[id].quorum,
                                          votes  |-> [counted[id] EXCEPT ![a] = 0]]]
      BY RewriteVotes
    <2> QED
      BY <1>6, <1>5, <2>2
  <1> QED
    BY <1>8, <1>9 DEF B!Retract

\* Closing a proposal rewrites the state of its ballot and nothing else.
LEMMA CloseBallot ==
  ASSUME TypeOK, NEW id \in Ids, NEW s \in Terminal, UNCHANGED <<now, counted>>,
         proposals' = [proposals EXCEPT ![id] = [proposals[id] EXCEPT !.status = s]]
  PROVE  BallotView' = [BallotView EXCEPT ![id].state =
                          IF s = "Executed" THEN "carried" ELSE "withdrawn"]
  <1> DEFINE p == proposals[id]
             q == [p EXCEPT !.status = s]
  <1>1. p \in Proposal /\ counted[id] \in [Address -> Nat] /\ DOMAIN counted = Ids
    BY IdsAre
  <1>2. q \in Proposal /\ q.quorum = p.quorum /\ q.status = s
    BY <1>1 DEF Proposal, Terminal, Status
  <1>3. counted' = [counted EXCEPT ![id] = counted[id]]
    <2>1. counted = [i \in Ids |-> counted[i]]
      BY <1>1, SeqDef DEF TypeOK
    <2> QED
      BY <2>1
  <1> HIDE DEF q
  <1>4. BallotState(q) = IF s = "Executed" THEN "carried" ELSE "withdrawn"
    BY <1>2 DEF BallotState, DeriveStatus, Terminal
  <1>5. BallotView' = [BallotView EXCEPT ![id] = [state  |-> BallotState(q),
                                                  quorum |-> p.quorum,
                                                  votes  |-> counted[id]]]
    <2>1. proposals' = [proposals EXCEPT ![id] = q]
      BY DEF q
    <2> HIDE DEF p
    <2> QED
      BY <1>1, <1>2, <1>3, <2>1, OneBallot DEF p
  <1> HIDE DEF BallotState
  <1> QED
    BY <1>4, <1>5, RewriteState

\* cancel_proposal withdraws a ballot that is short of its quorum.
LEMMA CancelWithdraws ==
  ASSUME IInv, TallyMatches, NEW a \in Address, NEW id \in Ids, CancelProposal(a, id)
  PROVE  B!Withdraw(id)
  <1>1. TypeOK /\ IsActive(proposals[id]) /\ DeriveStatus(proposals[id]) = "Pending"
    BY DEF IInv, CancelProposal, IsActive
  <1>2. B!IsOpen(id) /\ ~B!MayCarry(id)
    BY <1>1, OpenIsActive, CarryIsReady
  <1>3. /\ UNCHANGED <<now, counted, weight>>
        /\ proposals' = [proposals EXCEPT ![id] = [proposals[id] EXCEPT !.status = "Cancelled"]]
    BY <1>1, IdsAre DEF CancelProposal, electorateVars
  <1>4. BallotView' = [BallotView EXCEPT ![id].state = "withdrawn"]
    <2>1. "Cancelled" \in Terminal /\ "Cancelled" # "Executed"
      BY DEF Terminal
    <2> QED
      BY <1>1, <1>3, <2>1, CloseBallot
  <1>5. UNCHANGED Owners
    BY <1>3 DEF Owners, IsOwner
  <1> QED
    BY <1>2, <1>4, <1>5 DEF B!Withdraw

\* A step that touches neither proposals, votes, weights nor time leaves the ballots alone.
LEMMA QuietBallots ==
  ASSUME UNCHANGED <<now, weight, proposals, counted>>
  PROVE  UNCHANGED B!ballotVars
  <1>1. UNCHANGED Owners
    BY DEF Owners, IsOwner
  <1>2. UNCHANGED BallotView
    BY DEF BallotView, BallotState, DeriveStatus, Ids
  <1> QED
    BY <1>1, <1>2 DEF B!ballotVars

\* Time lapses the ballots whose deadline it passes.
LEMMA TickLapses ==
  ASSUME TypeOK, Tick
  PROVE  B!Lapse
  <1> DEFINE S == {i \in Ids : IsActive(proposals[i]) /\ now' > proposals[i].deadline}
  <1>1. UNCHANGED <<weight, proposals, counted>> /\ now' = now + 1 /\ now \in Nat
    BY DEF Tick, electorateVars, proposalVars, TypeOK
  <1>2. /\ Ids' = Ids /\ UNCHANGED Owners
        /\ \A i \in Ids : proposals[i] \in Proposal
    BY <1>1, IdsAre DEF Ids, Owners, IsOwner
  <1>3. S \in SUBSET {i \in B!Numbers : B!IsOpen(i)} /\ B!Numbers = Ids
    BY OpenIsActive, ViewFields DEF B!Numbers
  <1>4. \A i \in Ids : BallotState(proposals[i])' =
                          IF i \in S THEN "lapsed" ELSE BallotState(proposals[i])
    BY <1>1, <1>2 DEF BallotState, DeriveStatus, IsActive, Proposal, Status, Terminal
  <1>5. BallotView' = [i \in Ids |-> [state  |-> BallotState(proposals[i])',
                                      quorum |-> proposals[i].quorum,
                                      votes  |-> counted[i]]]
    BY <1>1, <1>2 DEF BallotView
  <1> HIDE DEF S, BallotState
  <1>6. BallotView' = [i \in Ids |-> IF i \in S THEN [BallotView[i] EXCEPT !.state = "lapsed"]
                                               ELSE BallotView[i]]
    BY <1>4, <1>5, ViewFields
  <1> QED
    BY <1>2, <1>3, <1>6 DEF B!Lapse

\* Executing a kind that leaves the other proposals alone carries its ballot.
LEMMA ConcludeCarries ==
  ASSUME IInv, TallyMatches, NEW x \in Address, NEW id \in Ids, MayExecute(x, id), Conclude(id),
         \/ UNCHANGED Owners
         \/ \E m \in Address : Owners' = Owners \cup {m}
  PROVE  B!Carry(id)
  <1>1. TypeOK /\ DeriveStatus(proposals[id]) = "Ready" /\ IsActive(proposals[id])
    BY DEF IInv, MayExecute, IsActive
  <1>2. B!MayCarry(id)
    BY <1>1, CarryIsReady
  <1>3. /\ UNCHANGED <<now, counted>>
        /\ proposals' = [proposals EXCEPT ![id] = [proposals[id] EXCEPT !.status = "Executed"]]
    BY DEF Conclude, FinishExecute
  <1>4. BallotView' = [BallotView EXCEPT ![id].state = "carried"]
    <2>1. "Executed" \in Terminal
      BY DEF Terminal
    <2> QED
      BY <1>1, <1>3, <2>1, CloseBallot
  <1> QED
    BY <1>2, <1>4 DEF B!Carry

\* Every kind but RemoveOwner carries its ballot, and admits one address at most.
LEMMA ExecuteCarries ==
  ASSUME IInv, TallyMatches, NEW x \in Address, NEW id \in Ids,
         \/ ExecuteAddOwner(x, id)
         \/ ExecuteChangeWeight(x, id)
         \/ ExecuteChangeThreshold(x, id)
         \/ ExecuteGrantRole(x, id)
         \/ ExecuteRevokeRole(x, id)
         \/ ExecuteTransferGuardian(x, id)
  PROVE  B!Carry(id)
  <1> DEFINE k == proposals[id].kind
  <1>1. k \in Kind /\ weight \in [Address -> Nat]
    <2>1. TypeOK
      BY DEF IInv
    <2>2. proposals[id] \in Proposal
      BY <2>1, IdsAre
    <2>3. weight \in [Address -> Nat]
      BY <2>1, BoundsAssumption DEF TypeOK
    <2> QED
      BY <2>2, <2>3 DEF Proposal
  <1>2. MayExecute(x, id) /\ Conclude(id)
    BY DEF ExecuteAddOwner, ExecuteChangeWeight, ExecuteChangeThreshold, ExecuteGrantRole,
           ExecuteRevokeRole, ExecuteTransferGuardian
  <1>3. CASE ExecuteAddOwner(x, id) \/ ExecuteChangeWeight(x, id)
    <2>1. /\ k.owner \in Address /\ k.weight \in Weights
          /\ weight' = [weight EXCEPT ![k.owner] = k.weight]
      BY <1>1, <1>3, KindFields DEF ExecuteAddOwner, ExecuteChangeWeight
    <2> DEFINE m == k.owner
               w == k.weight
    <2>2. m \in Address /\ w > 0 /\ weight' = [weight EXCEPT ![m] = w]
      BY <2>1 DEF Weights
    <2> HIDE DEF m, w, k
    <2>3. Owners' = Owners \cup {m}
      BY <1>1, <2>2 DEF Owners, IsOwner
    <2> QED
      BY <1>2, <2>2, <2>3, ConcludeCarries
  <1>4. CASE \/ ExecuteChangeThreshold(x, id) \/ ExecuteGrantRole(x, id)
             \/ ExecuteRevokeRole(x, id) \/ ExecuteTransferGuardian(x, id)
    <2>1. weight' = weight
      BY <1>4 DEF ExecuteChangeThreshold, ExecuteGrantRole, ExecuteRevokeRole,
                  ExecuteTransferGuardian, electorateVars
    <2>2. UNCHANGED Owners
      BY <2>1 DEF Owners, IsOwner
    <2> QED
      BY <1>2, <2>2, ConcludeCarries
  <1> QED
    BY <1>3, <1>4

\* What the removal of an owner does to every proposal.
LEMMA RemovalRewrites ==
  ASSUME IInv, NEW x \in Address, NEW id \in Ids, ExecuteRemoveOwner(x, id)
  PROVE  /\ Ids' = Ids /\ now' = now
         /\ proposals'[id] \in Proposal /\ proposals'[id].status = "Executed"
         /\ \A i \in Ids : proposals'[i].quorum = proposals[i].quorum
         /\ \A i \in Ids \ {id} : ~IsActive(proposals[i]) => proposals'[i] = proposals[i]
         /\ \A i \in Ids \ {id} : IsActive(proposals[i]) =>
              proposals'[i] \in Proposal /\ IsActive(proposals'[i])
  <1> DEFINE a    == proposals[id].kind.owner
             done == [proposals[id] EXCEPT !.status = "Executed"]
  <1>1. TypeOK /\ a \in Address
    BY IdsAre, KindFields DEF IInv, Proposal, ExecuteRemoveOwner
  <1>2. /\ \A i \in Ids : IsActive(proposals[i]) => proposals[i].approvals >= counted[i][a]
        /\ proposals' = [Stripped(a) EXCEPT ![id] = done]
        /\ now' = now
    BY DEF ExecuteRemoveOwner, FinishExecute
  <1>3. \A i \in Ids : proposals[i] \in Proposal /\ counted[i] \in [Address -> Nat]
    BY <1>1, IdsAre
  <1>4. done \in Proposal /\ done.status = "Executed" /\ done.quorum = proposals[id].quorum
    BY <1>3 DEF Proposal, Status
  <1> HIDE DEF a, done
  <1>5. /\ Ids' = Ids
        /\ \A i \in Ids : proposals'[i] = IF i = id THEN done ELSE Stripped(a)[i]
    <2>1. DOMAIN proposals' = Ids
      BY <1>2 DEF Stripped
    <2> QED
      BY <1>2, <2>1 DEF Stripped, Ids
  <1>6. ASSUME NEW i \in Ids
        PROVE  /\ Stripped(a)[i].quorum = proposals[i].quorum
               /\ ~IsActive(proposals[i]) => Stripped(a)[i] = proposals[i]
               /\ IsActive(proposals[i]) => Stripped(a)[i] \in Proposal /\ IsActive(Stripped(a)[i])
    <2> DEFINE p == proposals[i]
               w == counted[i][a]
    <2>1. p \in Proposal /\ w \in Nat
      BY <1>1, <1>3
    <2>2. CASE IsActive(p) /\ w > 0
      <3>1. Stripped(a)[i] = WithoutApproval(p, w) /\ p.approvals >= w
        BY <1>2, <2>2 DEF Stripped
      <3>2. /\ WithoutApproval(p, w) \in Proposal
            /\ WithoutApproval(p, w).status \notin Terminal
            /\ WithoutApproval(p, w).quorum = p.quorum
            /\ WithoutApproval(p, w).deadline = p.deadline
        BY <2>1, <2>2, <3>1, RevocationTyped
      <3>3. ~(now > p.deadline)
        BY <2>1, <2>2, ActiveStatus
      <3> DEFINE q == WithoutApproval(p, w)
      <3>4. q \in Proposal /\ q.status \notin Terminal /\ q.deadline = p.deadline
        BY <3>2
      <3> HIDE DEF q, p
      <3>5. IsActive(q)
        BY <3>3, <3>4, ActiveStatus
      <3> QED
        BY <2>2, <3>1, <3>2, <3>5 DEF q, p
    <2>3. CASE ~(IsActive(p) /\ w > 0)
      <3>1. Stripped(a)[i] = p
        BY <2>3 DEF Stripped
      <3> QED
        BY <2>1, <3>1
    <2> QED
      BY <2>2, <2>3
  <1> QED
    BY <1>2, <1>4, <1>5, <1>6

\* Removing an owner carries its ballot and takes the leaver's votes off the open ones.
LEMMA RemovalCarries ==
  ASSUME IInv, TallyMatches, NEW x \in Address, NEW id \in Ids, ExecuteRemoveOwner(x, id)
  PROVE  \E a \in Address : B!CarryRemoval(id, a)
  <1> DEFINE a == proposals[id].kind.owner
  <1>1. TypeOK /\ a \in Address
    BY IdsAre, KindFields DEF IInv, Proposal, ExecuteRemoveOwner
  <1>2. /\ weight' = [weight EXCEPT ![a] = 0] /\ weight \in [Address -> Nat]
        /\ counted' = StrippedCounts(a)
        /\ DeriveStatus(proposals[id]) = "Ready" /\ IsActive(proposals[id])
    BY <1>1, BoundsAssumption DEF ExecuteRemoveOwner, MayExecute, IsActive, TypeOK
  <1> HIDE DEF a
  <1>3. B!MayCarry(id)
    BY <1>2, CarryIsReady
  <1>4. Owners' = Owners \ {a}
    BY <1>1, <1>2 DEF Owners, IsOwner
  <1>5. \A i \in Ids : counted'[i] = IF IsActive(proposals[i])
                                        THEN [counted[i] EXCEPT ![a] = 0] ELSE counted[i]
    BY <1>2 DEF StrippedCounts
  <1>6. \A i \in Ids : BallotState(proposals[i])' = IF i = id THEN "carried"
                                                              ELSE BallotState(proposals[i])
    <2> TAKE i \in Ids
    <2>1. BallotState(proposals[i])' = BallotState(proposals'[i])
      BY RemovalRewrites DEF BallotState, DeriveStatus
    <2>2. CASE i = id
      BY <2>1, <2>2, RemovalRewrites DEF BallotState, DeriveStatus, Terminal
    <2>3. CASE i # id /\ IsActive(proposals[i])
      <3>1. IsActive(proposals'[i])
        BY <2>3, RemovalRewrites
      <3> QED
        BY <2>1, <2>3, <3>1 DEF BallotState, IsActive
    <2>4. CASE i # id /\ ~IsActive(proposals[i])
      <3>1. proposals'[i] = proposals[i]
        BY <2>4, RemovalRewrites
      <3> QED
        BY <2>1, <2>4, <3>1
    <2> QED
      BY <2>2, <2>3, <2>4
  <1>7. BallotView' = [i \in Ids |-> [state  |-> BallotState(proposals[i])',
                                      quorum |-> proposals[i].quorum,
                                      votes  |-> counted'[i]]]
    BY RemovalRewrites DEF BallotView
  <1> HIDE DEF BallotState
  <1>8. BallotView' = [j \in Ids |->
          [state  |-> IF j = id THEN "carried" ELSE BallotView[j].state,
           quorum |-> BallotView[j].quorum,
           votes  |-> IF B!IsOpen(j) THEN [BallotView[j].votes EXCEPT ![a] = 0]
                                     ELSE BallotView[j].votes]]
    <2>1. ASSUME NEW j \in Ids
          PROVE  /\ BallotState(proposals[j])' = IF j = id THEN "carried" ELSE BallotView[j].state
                 /\ proposals[j].quorum = BallotView[j].quorum
                 /\ counted'[j] = IF B!IsOpen(j) THEN [BallotView[j].votes EXCEPT ![a] = 0]
                                                  ELSE BallotView[j].votes
      <3>1. /\ BallotView[j].votes = counted[j] /\ BallotView[j].quorum = proposals[j].quorum
            /\ BallotView[j].state = BallotState(proposals[j])
        BY ViewFields
      <3>2. counted'[j] = IF B!IsOpen(j) THEN [counted[j] EXCEPT ![a] = 0] ELSE counted[j]
        BY <1>1, <1>5, OpenIsActive
      <3> QED
        BY <1>6, <3>1, <3>2
    <2> QED
      BY <1>7, <2>1
  <1>9. B!Numbers = Ids
    BY ViewFields DEF B!Numbers
  <1>10. B!CarryRemoval(id, a)
    BY <1>3, <1>4, <1>8, <1>9 DEF B!CarryRemoval
  <1> QED
    BY <1>1, <1>10

-----------------------------------------------------------------------------
(* The refinement *)

\* Initially nothing is proposed and no ballot is open.
LEMMA InitBallots == Init => B!BallotInit
  <1> SUFFICES ASSUME Init PROVE B!BallotInit
    OBVIOUS
  <1>1. proposals = << >> /\ Ids = {}
    BY DEF Init, Ids
  <1>2. BallotView = << >>
    BY <1>1 DEF BallotView
  <1> QED
    BY <1>2 DEF B!BallotInit, Owners

\* Every step of the contract is a step of the ballots, or leaves them alone.
LEMMA NextBallots ==
  IInv /\ TallyMatches /\ [Next]_vars => [B!BallotNext]_(B!ballotVars)
  <1> SUFFICES ASSUME IInv, TallyMatches, [Next]_vars
               PROVE  B!BallotNext \/ UNCHANGED B!ballotVars
    OBVIOUS
  <1>1. TypeOK /\ TypeOK' /\ B!Numbers = Ids
    BY NextInv, ViewFields DEF IInv, B!Numbers
  <1>2. CASE Create
    <2>1. PICK p \in Proposers, k \in Menu, d \in Durations : Propose(p, k, d)
      BY <1>2 DEF Create, ProposeAddOwner, ProposeRemoveOwner, ProposeChangeWeight,
                  ProposeChangeThreshold, ProposeGrantRole, ProposeRevokeRole,
                  ProposeTransferGuardian
    <2>2. p \in Address /\ k \in Kind /\ d \in Nat
      BY BoundsAssumption, GovernanceAssumption
    <2> QED
      BY <1>1, <2>1, <2>2, ProposeOpens DEF B!BallotNext
  <1>3. CASE Lifecycle
    <2>1. CASE \E a \in Address, id \in Ids : Approve(a, id)
      <3>1. PICK a \in Address, id \in Ids : Approve(a, id)
        BY <2>1
      <3>2. B!Vote(id, a, weight[a]) /\ weight[a] \in Weights
        BY <3>1, ApproveVotes
      <3> QED
        BY <1>1, <3>2 DEF B!BallotNext
    <2>2. CASE \E a \in Address, id \in Ids : Revoke(a, id)
      BY <1>1, <2>2, RevokeRetracts DEF B!BallotNext
    <2>3. CASE \E a \in Address, id \in Ids : CancelProposal(a, id)
      BY <1>1, <2>3, CancelWithdraws DEF B!BallotNext
    <2>4. CASE \/ \E a \in Address, ids \in SUBSET Ids : CancelExpired(a, ids)
               \/ \E ids \in SUBSET Ids : SweepExpired(ids)
      <3>1. UNCHANGED <<now, weight, proposals, counted>>
        BY <2>4 DEF CancelExpired, SweepExpired, Sweep, electorateVars
      <3> QED
        BY <3>1, QuietBallots
    <2>5. CASE Tick
      BY <1>1, <2>5, TickLapses DEF B!BallotNext
    <2> QED
      BY <1>3, <2>1, <2>2, <2>3, <2>4, <2>5 DEF Lifecycle
  <1>4. CASE Execute
    <2>1. PICK x \in Address, id \in Ids :
            \/ ExecuteAddOwner(x, id)
            \/ ExecuteRemoveOwner(x, id)
            \/ ExecuteChangeWeight(x, id)
            \/ ExecuteChangeThreshold(x, id)
            \/ ExecuteGrantRole(x, id)
            \/ ExecuteRevokeRole(x, id)
            \/ ExecuteTransferGuardian(x, id)
      BY <1>4 DEF Execute
    <2>2. CASE ExecuteRemoveOwner(x, id)
      <3>1. PICK a \in Address : B!CarryRemoval(id, a)
        BY <2>2, RemovalCarries
      <3> QED
        BY <1>1, <3>1 DEF B!BallotNext
    <2>3. CASE ~ExecuteRemoveOwner(x, id)
      <3>1. B!Carry(id)
        BY <2>1, <2>3, ExecuteCarries
      <3> QED
        BY <1>1, <3>1 DEF B!BallotNext
    <2> QED
      BY <2>2, <2>3
  <1>5. CASE Emergency \/ Parameters \/ UNCHANGED vars
    <2>1. UNCHANGED <<now, weight, proposals, counted>>
      BY <1>5 DEF Emergency, Freeze, Unfreeze, SetGuardian, Parameters, SetMaxPct,
                  vars, electorateVars, proposalVars
    <2> QED
      BY <2>1, QuietBallots
  <1> QED
    BY <1>2, <1>3, <1>4, <1>5 DEF Next

-----------------------------------------------------------------------------
(* The moves of a status *)

\* Where the status of every proposal on record may go in one step.
Moves == \A i \in Ids : <<DeriveStatus(proposals[i]), DeriveStatus(proposals[i])'>> \in LegalMoves

\* The derived statuses.
LEMMA StatusDerived ==
  ASSUME TypeOK, NEW i \in Ids
  PROVE  DeriveStatus(proposals[i]) \in Derived
  <1>1. proposals[i] \in Proposal
    BY IdsAre
  <1> QED
    BY <1>1 DEF DeriveStatus, Derived, Status, Proposal

\* What a step may do to a proposal while time stands.
MayMove(p, q) ==
  \/ p = q
  \/ IsActive(p) /\ IsActive(q)
  \/ <<DeriveStatus(p), DeriveStatus(q)>> \in LegalMoves

LEMMA MovesNow ==
  ASSUME TypeOK, now' = now, Ids \subseteq Ids',
         \A i \in Ids : MayMove(proposals[i], proposals'[i])
  PROVE  Moves
  <1> SUFFICES ASSUME NEW i \in Ids
               PROVE  <<DeriveStatus(proposals[i]), DeriveStatus(proposals[i])'>> \in LegalMoves
    BY DEF Moves
  <1>1. DeriveStatus(proposals[i])' = DeriveStatus(proposals'[i])
    BY DEF DeriveStatus
  <1>4. MayMove(proposals[i], proposals'[i])
    OBVIOUS
  <1>2. CASE proposals'[i] = proposals[i]
    BY <1>1, <1>2, StatusDerived DEF LegalMoves
  <1>3. CASE IsActive(proposals[i]) /\ IsActive(proposals'[i])
    BY <1>1, <1>3 DEF IsActive, LegalMoves, Derived, Status
  <1> QED
    BY <1>4, <1>1, <1>2, <1>3 DEF MayMove

\* One proposal rewritten, the others as they were.
LEMMA MovesOne ==
  ASSUME TypeOK, now' = now, NEW id \in Ids, NEW q \in Proposal,
         proposals' = [proposals EXCEPT ![id] = q],
         MayMove(proposals[id], q)
  PROVE  Moves
  <1>1. Ids' = Ids /\ \A i \in Ids : proposals'[i] = IF i = id THEN q ELSE proposals[i]
    BY ReplaceOne
  <1>2. \A i \in Ids : MayMove(proposals[i], proposals'[i])
    BY <1>1 DEF MayMove
  <1> QED
    BY <1>1, <1>2, MovesNow

LEMMA NextMoves == IInv /\ [Next]_vars => [Moves]_vars
  <1> SUFFICES ASSUME IInv, Next PROVE Moves
    OBVIOUS
  <1>1. /\ TypeOK /\ proposals \in Seq(Proposal) /\ now \in Nat /\ threshold \in Nat
        /\ weight \in [Address -> Nat]
        /\ \A i \in Ids : proposals[i] \in Proposal /\ counted[i] \in [Address -> Nat]
    <2>1. TypeOK
      BY DEF IInv
    <2> QED
      BY <2>1, IdsAre, BoundsAssumption DEF TypeOK
  <1>2. CASE Create
    <2>1. PICK p \in Proposers, k \in Menu, d \in Durations : Propose(p, k, d)
      BY <1>2 DEF Create, ProposeAddOwner, ProposeRemoveOwner, ProposeChangeWeight,
                  ProposeChangeThreshold, ProposeGrantRole, ProposeRevokeRole,
                  ProposeTransferGuardian
    <2> DEFINE q == NewProposal(p, k, d)
    <2>2. q \in Proposal
      <3>1. p \in Address /\ k \in Kind /\ d \in Nat
        BY BoundsAssumption, GovernanceAssumption
      <3> QED
        BY <1>1, <3>1 DEF NewProposal, Proposal, Status
    <2>3. proposals' = Append(proposals, q) /\ now' = now
      BY <2>1 DEF Propose, Register
    <2>4. Ids \subseteq Ids' /\ \A i \in Ids : proposals'[i] = proposals[i]
      <3>1. Ids = 1..Len(proposals) /\ Len(proposals) \in Nat
        BY <1>1, IdsAre
      <3> HIDE DEF q
      <3> QED
        BY <1>1, <2>2, <2>3, <3>1, AppendProperties DEF Ids
    <2> QED
      BY <1>1, <2>3, <2>4, MovesNow DEF MayMove
  <1>3. CASE Lifecycle
    <2>1. CASE \E a \in Address, id \in Ids : Approve(a, id)
      <3>1. PICK a \in Address, id \in Ids : Approve(a, id)
        BY <2>1
      <3> DEFINE p == proposals[id]
                 w == weight[a]
                 q == WithApproval(p, w)
      <3>2. p \in Proposal /\ w \in Nat /\ IsActive(p) /\ now' = now
            /\ proposals' = [proposals EXCEPT ![id] = q]
        BY <1>1, <3>1 DEF Approve
      <3>3. q \in Proposal /\ q.status \notin Terminal /\ q.deadline = p.deadline
        BY <1>1, <3>2, ApprovalTyped
      <3> HIDE DEF q, p
      <3>4. IsActive(q)
        BY <3>2, <3>3, ActiveStatus
      <3> QED
        BY <1>1, <3>2, <3>3, <3>4, MovesOne DEF p, MayMove
    <2>2. CASE \E a \in Address, id \in Ids : Revoke(a, id)
      <3>1. PICK a \in Address, id \in Ids : Revoke(a, id)
        BY <2>2
      <3> DEFINE p == proposals[id]
                 w == counted[id][a]
                 q == WithoutApproval(p, w)
      <3>2. p \in Proposal /\ w \in Nat /\ IsActive(p) /\ p.approvals >= w /\ now' = now
            /\ proposals' = [proposals EXCEPT ![id] = q]
        BY <1>1, <3>1 DEF Revoke
      <3>3. q \in Proposal /\ q.status \notin Terminal /\ q.deadline = p.deadline
        BY <1>1, <3>2, RevocationTyped
      <3> HIDE DEF q, p
      <3>4. IsActive(q)
        BY <3>2, <3>3, ActiveStatus
      <3> QED
        BY <1>1, <3>2, <3>3, <3>4, MovesOne DEF p, MayMove
    <2>3. CASE \E a \in Address, id \in Ids : CancelProposal(a, id)
      <3>1. PICK a \in Address, id \in Ids : CancelProposal(a, id)
        BY <2>3
      <3> DEFINE q == [proposals[id] EXCEPT !.status = "Cancelled"]
      <3>2. proposals' = [proposals EXCEPT ![id] = q] /\ now' = now
            /\ DeriveStatus(proposals[id]) = "Pending"
        BY <1>1, <3>1, IdsAre DEF CancelProposal
      <3>3. q \in Proposal /\ DeriveStatus(q) = "Cancelled"
        BY <1>1 DEF Proposal, Status, DeriveStatus, Terminal
      <3> HIDE DEF q
      <3>4. <<DeriveStatus(proposals[id]), DeriveStatus(q)>> \in LegalMoves
        BY <3>2, <3>3 DEF LegalMoves
      <3> QED
        BY <1>1, <3>2, <3>3, <3>4, MovesOne DEF MayMove
    <2>4. CASE \/ \E a \in Address, ids \in SUBSET Ids : CancelExpired(a, ids)
               \/ \E ids \in SUBSET Ids : SweepExpired(ids)
      <3>1. UNCHANGED <<now, proposals>>
        BY <2>4 DEF CancelExpired, SweepExpired, Sweep
      <3> QED
        BY <1>1, <3>1, MovesNow DEF Ids, MayMove
    <2>5. CASE Tick
      <3>1. UNCHANGED proposals /\ now' = now + 1
        BY <2>5 DEF Tick, proposalVars
      <3>2. ASSUME NEW i \in Ids
            PROVE  <<DeriveStatus(proposals[i]), DeriveStatus(proposals[i])'>> \in LegalMoves
        <4> DEFINE p == proposals[i]
        <4>1. p \in Proposal /\ now \in Nat
          BY <1>1
        <4>2. p.status \in Status /\ p.deadline \in Nat
          BY <4>1 DEF Proposal
        <4>3. DeriveStatus(p)' =
                IF p.status \in Terminal THEN p.status
                ELSE IF now + 1 > p.deadline THEN "Expired"
                ELSE IF p.approvals >= p.quorum THEN "Ready" ELSE "Pending"
          BY <3>1 DEF DeriveStatus
        <4>4. DeriveStatus(p)' \in {DeriveStatus(p), "Expired"}
          <5>1. now > p.deadline => now + 1 > p.deadline
            BY <4>1, <4>2
          <5> HIDE DEF p
          <5>2. CASE p.status \in Terminal
            BY <5>2, <4>3 DEF DeriveStatus
          <5>3. CASE p.status \notin Terminal
            BY <5>1, <5>3, <4>3, ZenonT(30) DEF DeriveStatus
          <5> QED
            BY <5>2, <5>3
        <4>5. /\ DeriveStatus(p) \in Derived
              /\ DeriveStatus(p) \notin {"Pending", "Ready", "Expired"} => DeriveStatus(p)' = DeriveStatus(p)
          BY <4>2, <4>3 DEF DeriveStatus, Derived, Status, Terminal
        <4> HIDE DEF p
        <4>6. <<DeriveStatus(p), DeriveStatus(p)'>> \in LegalMoves
          BY <4>4, <4>5 DEF LegalMoves, Derived, Status
        <4> QED
          BY <4>6 DEF p
      <3> QED
        BY <3>2 DEF Moves
    <2> QED
      BY <1>3, <2>1, <2>2, <2>3, <2>4, <2>5 DEF Lifecycle
  <1>4. CASE Execute
    <2>1. PICK x \in Address, id \in Ids :
            \/ ExecuteAddOwner(x, id)
            \/ ExecuteRemoveOwner(x, id)
            \/ ExecuteChangeWeight(x, id)
            \/ ExecuteChangeThreshold(x, id)
            \/ ExecuteGrantRole(x, id)
            \/ ExecuteRevokeRole(x, id)
            \/ ExecuteTransferGuardian(x, id)
      BY <1>4 DEF Execute
    <2>2. DeriveStatus(proposals[id]) = "Ready"
      BY <2>1 DEF ExecuteAddOwner, ExecuteRemoveOwner, ExecuteChangeWeight,
           ExecuteChangeThreshold, ExecuteGrantRole, ExecuteRevokeRole,
           ExecuteTransferGuardian, MayExecute
    <2>3. CASE ExecuteRemoveOwner(x, id)
      <3>1. /\ Ids' = Ids /\ now' = now /\ DeriveStatus(proposals'[id]) = "Executed"
            /\ \A i \in Ids \ {id} : \/ proposals'[i] = proposals[i]
                                     \/ IsActive(proposals[i]) /\ IsActive(proposals'[i])
        BY <2>3, RemovalRewrites DEF DeriveStatus, Terminal
      <3>2. <<DeriveStatus(proposals[id]), DeriveStatus(proposals'[id])>> \in LegalMoves
        BY <2>2, <3>1 DEF LegalMoves
      <3> QED
        BY <1>1, <3>1, <3>2, MovesNow DEF MayMove
    <2>4. CASE ~ExecuteRemoveOwner(x, id)
      <3> DEFINE q == [proposals[id] EXCEPT !.status = "Executed"]
      <3>1. proposals' = [proposals EXCEPT ![id] = q] /\ now' = now
        BY <2>1, <2>4 DEF ExecuteAddOwner, ExecuteChangeWeight, ExecuteChangeThreshold,
             ExecuteGrantRole, ExecuteRevokeRole, ExecuteTransferGuardian, Conclude, FinishExecute
      <3>2. q \in Proposal /\ DeriveStatus(q) = "Executed"
        BY <1>1 DEF Proposal, Status, DeriveStatus, Terminal
      <3> HIDE DEF q
      <3>3. <<DeriveStatus(proposals[id]), DeriveStatus(q)>> \in LegalMoves
        BY <2>2, <3>2 DEF LegalMoves
      <3> QED
        BY <1>1, <3>1, <3>2, <3>3, MovesOne DEF MayMove
    <2> QED
      BY <2>3, <2>4
  <1>5. CASE Emergency \/ Parameters
    <2>1. UNCHANGED <<now, proposals>>
      BY <1>5 DEF Emergency, Freeze, Unfreeze, SetGuardian, Parameters, SetMaxPct, proposalVars
    <2> QED
      BY <1>1, <2>1, MovesNow DEF Ids, MayMove
  <1> QED
    BY <1>2, <1>3, <1>4, <1>5 DEF Next

-----------------------------------------------------------------------------
(* Theorems *)

(***************************************************************************)
(* For every set of owners, weights, menu of proposals and order of calls: *)
(* a proposal executes only with the quorum given by present owners, who   *)
(* join and leave by such proposals alone.                                 *)
(***************************************************************************)
THEOREM Implements == Spec => ImplementsBallots
  <1>1. Spec => [](IInv /\ Books)
    BY InitInv, InitBooks, NextInv, NextBooks, PTL DEF Spec
  <1>2. IInv /\ Books => TallyMatches
    BY DEF Books
  <1> QED
    BY <1>1, <1>2, InitBallots, NextBallots, PTL DEF Spec, ImplementsBallots, B!BallotSpec

(***************************************************************************)
(* INV-06: the status of a proposal moves along its lifecycle only, over   *)
(* every call and the passing of time.                                     *)
(***************************************************************************)
THEOREM MovesLegal == Spec => LifecycleMoves
  <1>1. [Moves]_vars => [\A i \in Ids : <<DeriveStatus(proposals[i]),
                                          DeriveStatus(proposals[i])'>> \in LegalMoves]_vars
    BY DEF Moves
  <1> QED
    BY <1>1, Inductive, NextMoves, PTL DEF Spec, LifecycleMoves

===============================================================================
