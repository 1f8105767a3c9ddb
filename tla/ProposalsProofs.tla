---------------------------- MODULE ProposalsProofs ----------------------------
(***************************************************************************)
(* What every call of the proposal lifecycle does to the records, whatever *)
(* the kinds of proposal: the lemmas the safety of Governance and of       *)
(* Treasury rests on.                                                      *)
(***************************************************************************)
EXTENDS Proposals, SumsProofs, SequenceTheorems

-----------------------------------------------------------------------------
(* The status of a proposal *)

\* A proposal is active exactly while it is not terminal and not past its deadline.
LEMMA ActiveStatus ==
  ASSUME NEW p \in Proposal
  PROVE  IsActive(p) <=> p.status \notin Terminal /\ ~(now > p.deadline)
  BY DEF IsActive, DeriveStatus, Proposal, Status, Terminal

\* Re-deriving the status of an active proposal keeps it active and keeps the rest.
LEMMA RestatusTyped ==
  ASSUME NEW q \in Proposal, IsActive(q)
  PROVE  /\ Restatus(q) \in Proposal
         /\ Restatus(q).status \notin Terminal
         /\ Restatus(q).kind = q.kind
         /\ Restatus(q).proposer = q.proposer
         /\ Restatus(q).deadline = q.deadline
         /\ Restatus(q).quorum = q.quorum
         /\ Restatus(q).approvals = q.approvals
         /\ Restatus(q).readyAt = q.readyAt
  <1>1. DeriveStatus(q) \in Status /\ DeriveStatus(q) \notin Terminal
    BY DEF IsActive, Status, Terminal
  <1> QED
    BY <1>1 DEF Restatus, Proposal

\* Recording an approval on an active proposal changes its tally and timer only.
LEMMA ApprovalTyped ==
  ASSUME NEW p \in Proposal, NEW w \in Nat, IsActive(p), now \in Nat
  PROVE  /\ WithApproval(p, w) \in Proposal
         /\ WithApproval(p, w).status \notin Terminal
         /\ WithApproval(p, w).kind = p.kind
         /\ WithApproval(p, w).proposer = p.proposer
         /\ WithApproval(p, w).deadline = p.deadline
         /\ WithApproval(p, w).quorum = p.quorum
         /\ WithApproval(p, w).approvals = p.approvals + w
         /\ WithApproval(p, w).readyAt =
              IF p.readyAt = 0 /\ p.approvals + w >= p.quorum THEN now ELSE p.readyAt
  <1> DEFINE t == IF p.readyAt = 0 /\ p.approvals + w >= p.quorum THEN now ELSE p.readyAt
             q == [p EXCEPT !.approvals = p.approvals + w, !.readyAt = t]
  <1>1. p.approvals \in Nat /\ p.readyAt \in Nat
    BY DEF Proposal
  <1>2. p.approvals + w \in Nat /\ t \in Nat
    BY <1>1
  <1>3. /\ q \in Proposal
        /\ q.approvals = p.approvals + w /\ q.readyAt = t
        /\ q.status = p.status /\ q.deadline = p.deadline /\ q.quorum = p.quorum
        /\ q.kind = p.kind /\ q.proposer = p.proposer
    BY <1>2 DEF Proposal
  <1>4. IsActive(q)
    BY <1>3, ActiveStatus
  <1>5. WithApproval(p, w) = Restatus(q)
    BY DEF WithApproval
  <1> HIDE DEF q
  <1> QED
    BY <1>3, <1>4, <1>5, RestatusTyped

\* Reversing one changes the tally only.
LEMMA RevocationTyped ==
  ASSUME NEW p \in Proposal, NEW w \in Nat, IsActive(p), p.approvals >= w
  PROVE  /\ WithoutApproval(p, w) \in Proposal
         /\ WithoutApproval(p, w).status \notin Terminal
         /\ WithoutApproval(p, w).kind = p.kind
         /\ WithoutApproval(p, w).proposer = p.proposer
         /\ WithoutApproval(p, w).deadline = p.deadline
         /\ WithoutApproval(p, w).quorum = p.quorum
         /\ WithoutApproval(p, w).approvals = p.approvals - w
         /\ WithoutApproval(p, w).readyAt = p.readyAt
  <1> DEFINE q == [p EXCEPT !.approvals = p.approvals - w]
  <1>1. p.approvals - w \in Nat
    BY DEF Proposal
  <1>2. /\ q \in Proposal
        /\ q.approvals = p.approvals - w /\ q.readyAt = p.readyAt
        /\ q.status = p.status /\ q.deadline = p.deadline /\ q.quorum = p.quorum
        /\ q.kind = p.kind /\ q.proposer = p.proposer
    BY <1>1 DEF Proposal
  <1>3. IsActive(q)
    BY <1>2, ActiveStatus
  <1>4. WithoutApproval(p, w) = Restatus(q)
    BY DEF WithoutApproval
  <1> QED
    BY <1>2, <1>3, <1>4, RestatusTyped

-----------------------------------------------------------------------------
(* The records *)

\* A function on an initial segment of the positive numbers is a sequence.
LEMMA FunctionIsSeq ==
  ASSUME NEW n \in Nat, NEW S, NEW f \in [1..n -> S]
  PROVE  f \in Seq(S)
  BY SeqDef

\* The records are typed, each with the weights counted for it.
RecordsOK ==
  /\ proposals \in Seq(Proposal)
  /\ counted \in Seq([Address -> Nat])
  /\ Len(counted) = Len(proposals)

\* The records are numbered from 1.
LEMMA RecordsAre ==
  ASSUME RecordsOK
  PROVE  /\ Len(proposals) \in Nat
         /\ Ids = 1..Len(proposals)
         /\ DOMAIN counted = Ids
         /\ \A i \in Ids : proposals[i] \in Proposal
         /\ \A i \in Ids : counted[i] \in [Address -> Nat]
  <1>1. Len(proposals) \in Nat /\ Ids = 1..Len(proposals) /\ DOMAIN counted = 1..Len(counted)
    BY LenProperties DEF RecordsOK, Ids
  <1> QED
    BY <1>1, ElementOfSeq DEF RecordsOK

\* What a step may not change in the records of other calls: who asked for what.
SameTerms ==
  /\ Ids \subseteq Ids'
  /\ \A i \in Ids : /\ proposals'[i].kind = proposals[i].kind
                    /\ proposals'[i].proposer = proposals[i].proposer

Executed(ps) == {i \in DOMAIN ps : ps[i].status = "Executed"}

\* A step that replaces one record by another with the same terms.
LEMMA ReplaceRecord ==
  ASSUME RecordsOK, NEW id \in Ids, NEW q \in Proposal,
         q.kind = proposals[id].kind, q.proposer = proposals[id].proposer,
         proposals' = [proposals EXCEPT ![id] = q]
  PROVE  /\ proposals' \in Seq(Proposal)
         /\ Len(proposals') = Len(proposals)
         /\ Ids' = Ids
         /\ \A i \in Ids : proposals'[i] = IF i = id THEN q ELSE proposals[i]
         /\ SameTerms
  <1>1. proposals \in Seq(Proposal) /\ Ids = 1..Len(proposals)
    BY RecordsAre DEF RecordsOK
  <1>2. /\ proposals' \in Seq(Proposal)
        /\ Len(proposals') = Len(proposals)
        /\ \A i \in 1..Len(proposals) : proposals'[i] = IF i = id THEN q ELSE proposals[i]
    BY <1>1, ExceptSeq
  <1>3. Ids' = Ids
    BY <1>1, <1>2, LenProperties DEF Ids
  <1> QED
    BY <1>1, <1>2, <1>3 DEF SameTerms

-----------------------------------------------------------------------------
(* The calls *)

\* Registering a proposal adds one record, which is not executed.
LEMMA RegisterRecords ==
  ASSUME RecordsOK, now \in Nat, threshold \in Nat,
         NEW p \in Address, NEW k \in Kind, NEW d \in Nat, Register(p, k, d)
  PROVE  /\ RecordsOK' /\ SameTerms /\ Executed(proposals') = Executed(proposals)
         /\ \A i \in Ids' \ Ids : proposals'[i].kind = k
  <1> DEFINE q    == NewProposal(p, k, d)
             id   == Len(proposals) + 1
             none == [x \in Address |-> 0]
  <1>1. proposals' = Append(proposals, q) /\ counted' = Append(counted, none)
    BY DEF Register
  <1>2. q \in Proposal /\ q.status = "Pending" /\ none \in [Address -> Nat]
    BY DEF NewProposal, Proposal, Status
  <1>3. /\ proposals' \in Seq(Proposal) /\ Len(proposals') = id
        /\ \A i \in 1..Len(proposals) : proposals'[i] = proposals[i]
        /\ proposals'[id] = q
    BY <1>1, <1>2, AppendProperties DEF RecordsOK
  <1>4. counted' \in Seq([Address -> Nat]) /\ Len(counted') = Len(proposals')
    BY <1>1, <1>2, <1>3, AppendProperties DEF RecordsOK
  <1>5. Len(proposals) \in Nat /\ Ids = 1..Len(proposals) /\ Ids' = 1..id
    BY <1>3, RecordsAre, LenProperties DEF Ids
  <1>6. SameTerms
    BY <1>3, <1>5 DEF SameTerms
  <1>7. \A i \in Ids' : proposals'[i].status = "Executed"
                         <=> i \in Ids /\ proposals[i].status = "Executed"
    <2> HIDE DEF q
    <2> QED
      BY <1>2, <1>3, <1>5
  <1>8. Executed(proposals') = Executed(proposals)
    BY <1>5, <1>6, <1>7 DEF Executed, Ids, SameTerms
  <1>9. \A i \in Ids' \ Ids : proposals'[i].kind = k
    BY <1>3, <1>5 DEF NewProposal
  <1> QED
    BY <1>3, <1>4, <1>6, <1>8, <1>9 DEF RecordsOK

\* Replacing an unexecuted record by another one executes nothing.
LEMMA ReplaceUnexecuted ==
  ASSUME RecordsOK, NEW id \in Ids, NEW q \in Proposal,
         q.kind = proposals[id].kind, q.proposer = proposals[id].proposer,
         proposals[id].status # "Executed", q.status # "Executed",
         proposals' = [proposals EXCEPT ![id] = q]
  PROVE  /\ proposals' \in Seq(Proposal) /\ Len(proposals') = Len(proposals)
         /\ SameTerms /\ Ids' = Ids /\ Executed(proposals') = Executed(proposals)
  BY ReplaceRecord DEF Executed, Ids

\* approve and revoke rewrite an open record and its counted weights.
LEMMA VoteRecords ==
  ASSUME RecordsOK, now \in Nat, weight \in [Address -> Nat],
         NEW a \in Address, NEW id \in Ids, Approve(a, id) \/ Revoke(a, id)
  PROVE  RecordsOK' /\ SameTerms /\ Ids' = Ids /\ Executed(proposals') = Executed(proposals)
  <1> DEFINE p == proposals[id]
  <1>1. p \in Proposal /\ counted[id] \in [Address -> Nat] /\ weight[a] \in Nat
    BY RecordsAre
  <1>2. IsActive(p) /\ p.status # "Executed"
    BY <1>1, ActiveStatus DEF Approve, Revoke, Terminal
  <1>3. PICK v \in Nat : counted' = [counted EXCEPT ![id][a] = v]
    BY <1>1 DEF Approve, Revoke
  <1>4. PICK q \in Proposal :
          /\ proposals' = [proposals EXCEPT ![id] = q]
          /\ q.kind = p.kind /\ q.proposer = p.proposer /\ q.status # "Executed"
    <2>1. CASE Approve(a, id)
      <3>1. proposals' = [proposals EXCEPT ![id] = WithApproval(p, weight[a])]
        BY <2>1 DEF Approve
      <3> QED
        BY <3>1, <1>1, <1>2, ApprovalTyped DEF Terminal
    <2>2. CASE Revoke(a, id)
      <3>1. /\ proposals' = [proposals EXCEPT ![id] = WithoutApproval(p, counted[id][a])]
            /\ p.approvals >= counted[id][a]
        BY <2>2 DEF Revoke
      <3>2. counted[id][a] \in Nat /\ IsActive(p)
        BY <1>1, <1>2
      <3>3. LET q == WithoutApproval(p, counted[id][a])
            IN  /\ q \in Proposal /\ q.status \notin Terminal
                /\ q.kind = p.kind /\ q.proposer = p.proposer
        BY <3>1, <3>2, <1>1, RevocationTyped
      <3> QED
        BY <3>1, <3>3 DEF Terminal
    <2> QED
      BY <2>1, <2>2
  <1>5. /\ proposals' \in Seq(Proposal) /\ Len(proposals') = Len(proposals)
        /\ SameTerms /\ Ids' = Ids /\ Executed(proposals') = Executed(proposals)
    BY <1>2, <1>4, ReplaceUnexecuted
  <1>6. counted' \in Seq([Address -> Nat]) /\ Len(counted') = Len(counted)
    <2>1. Ids = 1..Len(counted) /\ DOMAIN counted = Ids
      BY RecordsAre DEF RecordsOK
    <2>2. [counted[id] EXCEPT ![a] = v] \in [Address -> Nat]
      BY <1>1
    <2>3. counted' = [counted EXCEPT ![id] = [counted[id] EXCEPT ![a] = v]]
      BY <2>1, <1>3
    <2> QED
      BY <2>1, <2>2, <2>3, ExceptSeq DEF RecordsOK
  <1> QED
    BY <1>5, <1>6 DEF RecordsOK

\* cancel_proposal closes a pending record.
LEMMA CancelRecords ==
  ASSUME RecordsOK, NEW a \in Address, NEW id \in Ids, CancelProposal(a, id)
  PROVE  RecordsOK' /\ SameTerms /\ Ids' = Ids /\ Executed(proposals') = Executed(proposals)
  <1> DEFINE p == proposals[id]
             q == [p EXCEPT !.status = "Cancelled"]
  <1>1. p \in Proposal /\ counted' = counted
    BY RecordsAre DEF CancelProposal
  <1>2. proposals' = [proposals EXCEPT ![id] = q]
    BY DEF CancelProposal
  <1>3. p.status # "Executed"
    BY <1>1 DEF CancelProposal, DeriveStatus, Terminal
  <1>4. q \in Proposal /\ q.kind = p.kind /\ q.proposer = p.proposer /\ q.status # "Executed"
    BY <1>1 DEF Proposal, Status
  <1> HIDE DEF q
  <1> QED
    BY <1>1, <1>2, <1>3, <1>4, ReplaceUnexecuted DEF RecordsOK

\* Sweeping the index and the passing of time leave the records alone.
LEMMA IdleRecords ==
  ASSUME RecordsOK, UNCHANGED <<proposals, counted>>
  PROVE  RecordsOK' /\ SameTerms /\ Ids' = Ids /\ Executed(proposals') = Executed(proposals)
  BY DEF RecordsOK, SameTerms, Executed, Ids

\* execute adds its own proposal to the executed ones.
LEMMA ExecuteRecords ==
  ASSUME RecordsOK, NEW a \in Address, NEW id \in Ids, MayExecute(a, id),
         FinishExecute(id, proposals), counted' = counted
  PROVE  /\ RecordsOK' /\ SameTerms /\ Ids' = Ids
         /\ id \notin Executed(proposals)
         /\ Executed(proposals') = Executed(proposals) \cup {id}
  <1> DEFINE p == proposals[id]
             q == [p EXCEPT !.status = "Executed"]
  <1>1. p \in Proposal
    BY RecordsAre
  <1>2. proposals' = [proposals EXCEPT ![id] = q]
    BY DEF FinishExecute
  <1>3. p.status # "Executed"
    BY <1>1 DEF MayExecute, DeriveStatus, Terminal
  <1>4. q \in Proposal /\ q.kind = p.kind /\ q.proposer = p.proposer /\ q.status = "Executed"
    BY <1>1 DEF Proposal, Status
  <1> HIDE DEF q
  <1>5. /\ proposals' \in Seq(Proposal) /\ Len(proposals') = Len(proposals)
        /\ Ids' = Ids /\ SameTerms
        /\ \A i \in Ids : proposals'[i] = IF i = id THEN q ELSE proposals[i]
    BY <1>2, <1>4, ReplaceRecord
  <1>6. Executed(proposals') = Executed(proposals) \cup {id}
    BY <1>4, <1>5 DEF Executed, Ids
  <1> QED
    BY <1>3, <1>5, <1>6 DEF RecordsOK, Executed

=============================================================================
