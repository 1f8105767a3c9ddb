----------------------------- MODULE TreasuryProofs -----------------------------
(***************************************************************************)
(* The safety of the treasury, proved for every set of tokens, every menu  *)
(* of proposals and every bound: the escrows are accounted for, an escrow  *)
(* ends once, what stops outflows stops them, and the first window of a    *)
(* limit is bounded by it.                                                 *)
(***************************************************************************)
EXTENDS SpendingHistory, ProposalsProofs

\* The types of what money is counted in, and of the escrows.
TreasuryTypeOK ==
  /\ now \in Nat \ {0}
  /\ weight \in [Address -> Nat]
  /\ threshold \in Nat
  /\ RecordsOK
  /\ balance \in [Token -> Nat]
  /\ reserved \in [Token -> Nat]
  /\ window \in [Address -> [Token -> Nat]]
  /\ limit \in [Address -> [Token -> Nat \cup {NoLimit}]]
  /\ tracker \in [Address -> [Token -> Tracker]]
  /\ nextEscrow \in Nat \ {0}
  /\ DOMAIN escrows \subseteq 1..(nextEscrow - 1)
  /\ escrows \in [DOMAIN escrows -> Escrow]

\* The inductive invariant: paying and settling keep the reservations exact
\* only because the ids are fresh and every record is an escrow.
IInv == TreasuryTypeOK /\ ReservedMatchesEscrows /\ CoveredUnlessSplit

(***************************************************************************)
(* What ties the documented window to the tracker while a limit is set: the*)
(* tracker's epoch is the start of the first window, and as long as that   *)
(* window runs both count the same, within the limit.                      *)
(***************************************************************************)
InStep(a, t) ==
  LET h  == spending[a][t]
      tr == tracker[a][t]
  IN  limit[a][t] # NoLimit =>
        /\ 1 <= tr.epoch /\ tr.epoch <= h.start /\ h.start <= now
        /\ h.start = tr.epoch /\ now <= tr.epoch + window[a][t]
             => h.sum = tr.spent /\ tr.spent <= limit[a][t]

WindowsInStep ==
  /\ spending \in [Address -> [Token -> [start : Nat, sum : Nat]]]
  /\ \A a \in Address, t \in Token : InStep(a, t)

-----------------------------------------------------------------------------
(* What the kinds ask for *)

\* The operation named in a kind tells its other fields.
LEMMA KindFields ==
  ASSUME NEW k \in Kind
  PROVE  /\ k.op = "Transfer" => k.legs \in Seq(Leg)
         /\ k.op = "CreateEscrow" =>
              /\ k.token \in Token /\ k.amount \in Nat /\ k.releaseAt \in Nat
              /\ k.mode \in {"OwnerQuorumUntil", "Deadline"}
         /\ k.op = "SetSpendingLimit" => k.owner \in Address /\ k.token \in Token /\ k.limit \in Nat
         /\ k.op = "SetSpendingLimitWindow" =>
              k.owner \in Address /\ k.token \in Token /\ k.limit \in Nat /\ k.window \in Nat
  BY TreasuryAssumption
     DEF TreasuryOps, TransferKind, EscrowKind, LimitKind, LimitWindowKind,
         RegistryKind, ApproveTokenKind, UnapproveTokenKind

\* A batch pays nothing of a token it does not name.
LEMMA BatchTotals ==
  ASSUME NEW legs \in Seq(Leg), NEW t
  PROVE  /\ TotalOf(legs, t) \in Nat
         /\ t \notin TokensOf(legs) => TotalOf(legs, t) = 0
  <1> DEFINE f == [i \in DOMAIN legs |-> legs[i].amount]
             S == {i \in DOMAIN legs : legs[i].token = t}
  <1>1. IsFiniteSet(DOMAIN legs) /\ \A i \in DOMAIN legs : legs[i] \in Leg
    BY LenProperties, ElementOfSeq, FS_Interval
  <1>2. f \in [DOMAIN legs -> Nat] /\ S \subseteq DOMAIN legs
    BY <1>1 DEF Leg
  <1>3. TotalOf(legs, t) = Total(f, S) /\ (t \notin TokensOf(legs) => S = {})
    BY DEF TotalOf, TokensOf
  <1> HIDE DEF f, S
  <1>4. Total(f, S) \in Nat
    BY <1>1, <1>2, FS_Subset, UnitsFinite
  <1> QED
    BY <1>3, <1>4, TotalEmpty

\* A token named by one leg only is paid what that leg asks for.
LEMMA OneLeg ==
  ASSUME NEW legs \in Seq(Leg), NEW i \in DOMAIN legs,
         \A j \in DOMAIN legs : legs[j].token = legs[i].token => j = i
  PROVE  TotalOf(legs, legs[i].token) = legs[i].amount
  <1> DEFINE f == [j \in DOMAIN legs |-> legs[j].amount]
             S == {j \in DOMAIN legs : legs[j].token = legs[i].token}
  <1>1. IsFiniteSet(DOMAIN legs) /\ \A j \in DOMAIN legs : legs[j] \in Leg
    BY LenProperties, ElementOfSeq, FS_Interval
  <1>2. f \in [DOMAIN legs -> Nat] /\ f[i] = legs[i].amount /\ S \subseteq DOMAIN legs
    BY <1>1 DEF Leg
  <1>3. TotalOf(legs, legs[i].token) = Total(f, S) /\ i \in S /\ S \ {i} = {}
    BY DEF TotalOf
  <1> HIDE DEF f, S
  <1>4. IsFiniteSet(S)
    BY <1>1, <1>2, FS_Subset
  <1>5. Total(f, S) = Total(f, S \ {i}) + f[i]
    BY <1>2, <1>3, <1>4, TotalRemove
  <1>6. Total(f, S \ {i}) = 0 /\ f[i] \in Nat
    BY <1>2, <1>3, TotalEmpty
  <1> QED
    BY <1>2, <1>3, <1>5, <1>6

\* What a spend leaves in the tracker.
LEMMA ChargedIs ==
  ASSUME NEW tr \in Tracker, NEW n \in Nat, NEW length, now \in Nat
  PROVE  LET epoch == IF tr.epoch = 0 THEN now ELSE tr.epoch
         IN  Charged(tr, n, length) =
               [spent |-> IF now > epoch + length THEN n ELSE tr.spent + n, epoch |-> epoch]
  <1> DEFINE epoch   == IF tr.epoch = 0 THEN now ELSE tr.epoch
             started == [tr EXCEPT !.epoch = IF @ = 0 THEN now ELSE @]
  <1>1. started = [spent |-> tr.spent, epoch |-> epoch]
    BY DEF Tracker
  <1>2. Charged(tr, n, length) =
          [started EXCEPT !.spent = IF now > started.epoch + length THEN n ELSE @ + n]
    BY DEF Charged, WindowOver
  <1> HIDE DEF epoch, started
  <1>3. Charged(tr, n, length) =
          [spent |-> IF now > epoch + length THEN n ELSE tr.spent + n, epoch |-> epoch]
    BY <1>1, <1>2
  <1> QED
    BY <1>3 DEF epoch

-----------------------------------------------------------------------------
(* What the escrows promise *)

Promised(E, t) ==
  Total([n \in DOMAIN E |-> E[n].amount], {n \in DOMAIN E : E[n].token = t})

\* Two books of escrows that differ by escrow m differ by its amount, in its token.
LEMMA PromisedBut ==
  ASSUME NEW D, IsFiniteSet(D), NEW m \in D, NEW B, B = D \ {m},
         NEW E \in [D -> Escrow], NEW F \in [B -> Escrow],
         \A n \in B : F[n] = E[n], NEW t
  PROVE  /\ Promised(F, t) \in Nat
         /\ E[m].token = t => Promised(E, t) = Promised(F, t) + E[m].amount
         /\ E[m].token # t => Promised(E, t) = Promised(F, t)
  <1> DEFINE f == [n \in D |-> E[n].amount]
             g == [n \in B |-> F[n].amount]
             S == {n \in D : E[n].token = t}
             T == {n \in B : F[n].token = t}
  <1>1. f \in [D -> Nat] /\ g \in [B -> Nat]
    BY DEF Escrow
  <1>2. S \subseteq D /\ T \subseteq B /\ B \subseteq D
    OBVIOUS
  <1>3. Promised(E, t) = Total(f, S) /\ Promised(F, t) = Total(g, T)
    <2>1. DOMAIN E = D /\ DOMAIN F = B
      OBVIOUS
    <2> QED
      BY <2>1 DEF Promised
  <1>4. \A n \in T : f[n] = g[n]
    OBVIOUS
  <1>5. /\ E[m].token = t => m \in S /\ S \ {m} = T
        /\ E[m].token # t => S = T
    OBVIOUS
  <1>6. f[m] = E[m].amount
    OBVIOUS
  <1> HIDE DEF f, g, S, T
  <1>7. IsFiniteSet(S) /\ IsFiniteSet(T)
    BY <1>2, FS_Subset
  <1>8. Total(g, T) \in Nat
    BY <1>1, <1>2, <1>7, UnitsFinite
  <1>9. Total(f, T) = Total(g, T)
    BY <1>4, TotalSame
  <1>10. m \in S => Total(f, S) = Total(f, S \ {m}) + f[m]
    BY <1>1, <1>2, <1>7, TotalRemove
  <1> QED
    BY <1>3, <1>5, <1>6, <1>8, <1>9, <1>10

\* The ids of the escrows are finitely many.
LEMMA EscrowsFinite ==
  ASSUME TreasuryTypeOK
  PROVE  /\ IsFiniteSet(DOMAIN escrows) /\ nextEscrow \notin DOMAIN escrows
         /\ \A t : Promised(escrows, t) \in Nat
  <1>1. IsFiniteSet(1..(nextEscrow - 1)) /\ nextEscrow \notin 1..(nextEscrow - 1)
    <2>1. nextEscrow \in Nat \ {0}
      BY DEF TreasuryTypeOK
    <2>2. nextEscrow - 1 \in Int /\ 1 \in Int /\ nextEscrow \notin 1..(nextEscrow - 1)
      BY <2>1
    <2> QED
      BY <2>2, FS_Interval
  <1>2. IsFiniteSet(DOMAIN escrows) /\ nextEscrow \notin DOMAIN escrows
    BY <1>1, FS_Subset DEF TreasuryTypeOK
  <1>3. ASSUME NEW t PROVE Promised(escrows, t) \in Nat
    <2> DEFINE f == [n \in DOMAIN escrows |-> escrows[n].amount]
               S == {n \in DOMAIN escrows : escrows[n].token = t}
    <2>1. f \in [DOMAIN escrows -> Nat]
      BY DEF TreasuryTypeOK, Escrow
    <2>2. S \subseteq DOMAIN escrows /\ Promised(escrows, t) = Total(f, S)
      BY DEF Promised
    <2> HIDE DEF f, S
    <2> QED
      BY <1>2, <2>1, <2>2, FS_Subset, UnitsFinite
  <1> QED
    BY <1>2, <1>3

\* What is reserved is what is promised.
LEMMA ReservedPromised == ReservedMatchesEscrows <=> \A t \in Token : reserved[t] = Promised(escrows, t)
  BY DEF ReservedMatchesEscrows, Promised

\* No batch executed so far pays a token twice.
Unsplit == \A i \in Executed(proposals) : ~Splits(proposals[i].kind)

LEMMA CoveredUnless == CoveredUnlessSplit <=> (Unsplit => \A t \in Token : reserved[t] <= balance[t])
  BY DEF CoveredUnlessSplit, Unsplit, Executed, Ids

\* What was executed unsplit stays so: a batch that splits is never forgotten.
LEMMA UnsplitBefore ==
  ASSUME RecordsOK, SameTerms, Executed(proposals) \subseteq Executed(proposals'), Unsplit'
  PROVE  Unsplit
  BY DEF SameTerms, Unsplit, Executed, Ids

-----------------------------------------------------------------------------
(* Steps *)

\* The first state: nothing is proposed, reserved or tracked.
LEMMA InitInv == Init => IInv
  <1> SUFFICES ASSUME Init PROVE IInv
    OBVIOUS
  <1>1. RecordsOK
    BY EmptySeq DEF Init, RecordsOK
  <1>2. DOMAIN escrows = {} /\ escrows \in [DOMAIN escrows -> Escrow]
    BY DEF Init
  <1>3. /\ now = 1 /\ nextEscrow = 1 /\ threshold \in Nat
        /\ weight \in [Address -> Nat]
    BY TreasuryAssumption, BoundsAssumption DEF Init
  <1>4. /\ balance \in [Token -> Nat] /\ reserved = [t \in Token |-> 0]
        /\ window \in [Address -> [Token -> Nat]]
        /\ limit \in [Address -> [Token -> Nat \cup {NoLimit}]]
        /\ tracker \in [Address -> [Token -> Tracker]]
    BY VaultAssumption DEF Init, VaultInit, Tracker
  <1>5. TreasuryTypeOK
    BY <1>1, <1>2, <1>3, <1>4 DEF TreasuryTypeOK
  <1>6. \A t : Promised(escrows, t) = 0
    <2>1. ASSUME NEW t PROVE Promised(escrows, t) = 0
      <3>1. {n \in DOMAIN escrows : escrows[n].token = t} = {}
        BY <1>2
      <3> QED
        BY <3>1, TotalEmpty DEF Promised
    <2> QED
      BY <2>1
  <1>7. ReservedMatchesEscrows
    BY <1>4, <1>6, ReservedPromised
  <1>8. CoveredUnlessSplit
    BY <1>4, CoveredUnless
  <1> QED
    BY <1>5, <1>7, <1>8 DEF IInv

\* A step that moves no money, settles nothing and changes no policy.
Silent ==
  /\ RecordsOK' /\ SameTerms /\ Executed(proposals') = Executed(proposals)
  /\ UNCHANGED <<weight, threshold, balance, reserved, policyVars, tracker, escrows, nextEscrow>>
  /\ now' \in {now, now + 1}

\* Proposing, voting, closing, the emergency stop and recovery mode are silent.
LEMMA CreateSilent ==
  ASSUME TreasuryTypeOK, Create
  PROVE  Silent /\ now' = now /\ UNCHANGED frozen
  <1>1. PICK p \in Proposers, k \in Kind, d \in Durations :
          \/ ProposeTransfer(p, k, d)
          \/ ProposeEscrow(p, k, d)
          \/ ProposeSpendingLimit(p, k, d)
          \/ ProposeSpendingWindow(p, k, d)
          \/ ProposeAssetRegistry(p, k, d)
          \/ ProposeApproveToken(p, k, d)
          \/ ProposeUnapproveToken(p, k, d)
    BY DEF Create
  <1>2. Propose(p, k, d)
    BY <1>1 DEF ProposeTransfer, ProposeEscrow, ProposeSpendingLimit, ProposeSpendingWindow,
                ProposeAssetRegistry, ProposeApproveToken, ProposeUnapproveToken
  <1>3. Register(p, k, d) /\ p \in Address /\ d \in Nat
    BY <1>2, BoundsAssumption DEF Propose
  <1>4. /\ UNCHANGED <<now, weight, threshold, frozen>>
        /\ UNCHANGED <<balance, reserved, policyVars, tracker, escrows, nextEscrow>>
    BY <1>2 DEF Propose, electorateVars, vaultVars, policyVars
  <1> QED
    BY <1>3, <1>4, RegisterRecords DEF TreasuryTypeOK, Silent

LEMMA LifecycleSilent ==
  ASSUME TreasuryTypeOK, Lifecycle
  PROVE  Silent /\ UNCHANGED frozen
  <1>1. UNCHANGED <<balance, reserved, policyVars, tracker, escrows, nextEscrow>>
    BY DEF Lifecycle, vaultVars, policyVars
  <1>2. RecordsOK /\ now \in Nat /\ weight \in [Address -> Nat]
    BY DEF TreasuryTypeOK
  <1>3. ASSUME NEW a \in Address, NEW id \in Ids, Approve(a, id) \/ Revoke(a, id)
        PROVE  Silent /\ UNCHANGED frozen
    <2>1. UNCHANGED <<now, weight, threshold, frozen>>
      BY <1>3 DEF Approve, Revoke, electorateVars
    <2> QED
      BY <1>1, <1>2, <1>3, <2>1, VoteRecords DEF Silent
  <1>4. ASSUME NEW a \in Address, NEW id \in Ids, CancelProposal(a, id)
        PROVE  Silent /\ UNCHANGED frozen
    <2>1. UNCHANGED <<now, weight, threshold, frozen>>
      BY <1>4 DEF CancelProposal, electorateVars
    <2> QED
      BY <1>1, <1>2, <1>4, <2>1, CancelRecords DEF Silent
  <1>5. ASSUME NEW S, Sweep(S)
        PROVE  Silent /\ UNCHANGED frozen
    <2>1. UNCHANGED <<now, weight, threshold, frozen, proposals, counted>>
      BY <1>5 DEF Sweep, electorateVars
    <2> QED
      BY <1>1, <1>2, <2>1, IdleRecords DEF Silent
  <1>6. ASSUME Tick
        PROVE  Silent /\ UNCHANGED frozen
    <2>1. UNCHANGED <<weight, threshold, frozen, proposals, counted>> /\ now' = now + 1
      BY <1>6 DEF Tick, electorateVars, proposalVars
    <2> QED
      BY <1>1, <1>2, <2>1, IdleRecords DEF Silent
  <1> QED
    BY <1>3, <1>4, <1>5, <1>6 DEF Lifecycle, CancelExpired, SweepExpired

LEMMA EmergencySilent ==
  ASSUME TreasuryTypeOK, Emergency \/ Recovery
  PROVE  Silent /\ now' = now
  <1>1. UNCHANGED <<now, electorateVars, proposalVars, escrows, nextEscrow>>
    BY DEF Emergency, Recovery, Freeze, Unfreeze, SetGuardian, EnterRecovery, ExitRecovery
  <1>2. UNCHANGED <<balance, reserved, policyVars, tracker>>
    BY DEF Emergency, Recovery, vaultVars, policyVars, EnterRecovery, ExitRecovery
  <1>3. UNCHANGED <<now, weight, threshold, proposals, counted>>
    BY <1>1 DEF electorateVars, proposalVars
  <1> QED
    BY <1>1, <1>2, <1>3, IdleRecords DEF TreasuryTypeOK, Silent

\* A silent step keeps the invariant.
LEMMA SilentStep ==
  ASSUME IInv, Silent
  PROVE  IInv'
  <1>1. TreasuryTypeOK'
    BY DEF IInv, TreasuryTypeOK, Silent, policyVars
  <1>2. ReservedMatchesEscrows'
    BY DEF IInv, ReservedMatchesEscrows, Silent
  <1>3. Unsplit' => Unsplit
    BY UnsplitBefore DEF IInv, TreasuryTypeOK, Silent
  <1>4. CoveredUnlessSplit'
    BY <1>3, CoveredUnless DEF IInv, Silent, CoveredUnlessSplit, Unsplit, Executed, Ids
  <1> QED
    BY <1>1, <1>2, <1>4 DEF IInv

\* Money that comes in covers what was covered.
LEMMA IncomeStep ==
  ASSUME IInv, Income
  PROVE  IInv'
  <1>1. PICK t \in Token : Deposit(t)
    BY DEF Income
  <1>2. /\ balance' = [balance EXCEPT ![t] = @ + 1]
        /\ UNCHANGED <<now, weight, threshold, proposals, counted, reserved, policyVars, tracker>>
    BY <1>1 DEF Deposit, electorateVars, proposalVars
  <1>3. UNCHANGED <<escrows, nextEscrow>>
    BY DEF Income
  <1>4. TreasuryTypeOK
    BY DEF IInv
  <1>5. balance' \in [Token -> Nat] /\ \A u \in Token : balance[u] <= balance'[u]
    BY <1>2, <1>4 DEF TreasuryTypeOK
  <1>6. RecordsOK' /\ SameTerms /\ Executed(proposals') = Executed(proposals)
    BY <1>2, <1>4, IdleRecords DEF TreasuryTypeOK
  <1>7. TreasuryTypeOK'
    BY <1>2, <1>3, <1>4, <1>5, <1>6 DEF TreasuryTypeOK, policyVars
  <1>8. ReservedMatchesEscrows'
    BY <1>2, <1>3 DEF IInv, ReservedMatchesEscrows
  <1>9. CoveredUnlessSplit'
    <2>1. Unsplit' => \A u \in Token : reserved[u] <= balance[u]
      BY <1>4, <1>6, UnsplitBefore, CoveredUnless DEF IInv, TreasuryTypeOK
    <2>2. \A u \in Token : reserved[u] \in Nat /\ balance[u] \in Nat /\ balance'[u] \in Nat
      BY <1>4, <1>5 DEF TreasuryTypeOK
    <2>3. Unsplit' => \A u \in Token : reserved'[u] <= balance'[u]
      BY <2>1, <2>2, <1>2, <1>5
    <2> QED
      BY <2>3, CoveredUnless DEF CoveredUnlessSplit, Unsplit, Executed, Ids
  <1> QED
    BY <1>7, <1>8, <1>9 DEF IInv

\* What every execution does besides what its kind asks for.
LEMMA Concluded ==
  ASSUME TreasuryTypeOK, NEW x \in Address, NEW id \in Ids, MayExecute(x, id), Conclude(id)
  PROVE  /\ RecordsOK' /\ SameTerms
         /\ proposals[id] \in Proposal /\ proposals[id].kind \in Kind
         /\ id \notin Executed(proposals) /\ Executed(proposals') = Executed(proposals) \cup {id}
         /\ UNCHANGED <<now, weight, threshold>>
         /\ ~frozen
  <1>1. RecordsOK /\ proposals[id] \in Proposal /\ counted' = counted
    BY RecordsAre DEF TreasuryTypeOK, Conclude
  <1>2. FinishExecute(id, proposals) /\ UNCHANGED <<now, weight, threshold>>
    BY DEF Conclude, electorateVars
  <1>3. ~frozen /\ proposals[id].kind \in Kind
    BY <1>1 DEF MayExecute, Proposal
  <1> QED
    BY <1>1, <1>2, <1>3, ExecuteRecords

(***************************************************************************)
(* A batch keeps the reservations and, unless it pays a token twice, what  *)
(* covers them: each leg fits what is not reserved.                        *)
(***************************************************************************)
LEMMA TransferStep ==
  ASSUME IInv, NEW x \in Address, NEW id \in Ids, ExecuteTransfer(x, id)
  PROVE  IInv'
  <1> DEFINE legs == proposals[id].kind.legs
             who  == proposals[id].proposer
  <1>1. TreasuryTypeOK /\ MayExecute(x, id) /\ Conclude(id) /\ proposals[id].kind.op = "Transfer"
    BY DEF IInv, ExecuteTransfer
  <1>2. /\ RecordsOK' /\ SameTerms
        /\ proposals[id] \in Proposal /\ proposals[id].kind \in Kind
        /\ Executed(proposals') = Executed(proposals) \cup {id}
        /\ UNCHANGED <<now, weight, threshold>>
    BY <1>1, Concluded
  <1>3. legs \in Seq(Leg) /\ who \in Address
    BY <1>1, <1>2, KindFields DEF Proposal
  <1>4. /\ \A i \in DOMAIN legs : Available(legs[i].token) >= legs[i].amount
        /\ \A t \in TokensOf(legs) : balance[t] >= TotalOf(legs, t)
        /\ balance' = [t \in Token |-> balance[t] - TotalOf(legs, t)]
        /\ tracker' = [tracker EXCEPT ![who] =
             [t \in Token |->
                IF t \in TokensOf(legs)
                  THEN Charged(@[t], TotalOf(legs, t), window[who][t])
                  ELSE @[t]]]
        /\ UNCHANGED <<reserved, policyVars, escrows, nextEscrow>>
    BY DEF ExecuteTransfer
  <1> HIDE DEF legs, who
  <1>5. \A t \in Token : TotalOf(legs, t) \in Nat /\ balance[t] \in Nat /\ reserved[t] \in Nat
    BY <1>1, <1>3, BatchTotals DEF TreasuryTypeOK
  <1>6. balance' \in [Token -> Nat]
    <2>1. \A t \in Token : balance[t] - TotalOf(legs, t) \in Nat
      BY <1>3, <1>4, <1>5, BatchTotals
    <2> QED
      BY <2>1, <1>4
  <1>7. tracker' \in [Address -> [Token -> Tracker]]
    <2>1. \A t \in Token : Charged(tracker[who][t], TotalOf(legs, t), window[who][t]) \in Tracker
      <3> SUFFICES ASSUME NEW t \in Token
                   PROVE  Charged(tracker[who][t], TotalOf(legs, t), window[who][t]) \in Tracker
        OBVIOUS
      <3>1. tracker[who][t] \in Tracker /\ TotalOf(legs, t) \in Nat /\ now \in Nat
        BY <1>1, <1>3, <1>5 DEF TreasuryTypeOK
      <3> QED
        BY <3>1, ChargedIs DEF Tracker
    <2>2. tracker \in [Address -> [Token -> Tracker]]
      BY <1>1 DEF TreasuryTypeOK
    <2> QED
      BY <2>1, <2>2, <1>3, <1>4
  <1>8. TreasuryTypeOK'
    BY <1>1, <1>2, <1>4, <1>6, <1>7 DEF TreasuryTypeOK, policyVars
  <1>9. ReservedMatchesEscrows'
    BY <1>4 DEF IInv, ReservedMatchesEscrows
  <1>10. CoveredUnlessSplit'
    <2>1. SUFFICES ASSUME Unsplit', NEW t \in Token PROVE reserved'[t] <= balance'[t]
      BY CoveredUnless DEF CoveredUnlessSplit, Unsplit, Executed, Ids
    <2>2. reserved[t] <= balance[t]
      BY <1>1, <1>2, <2>1, UnsplitBefore, CoveredUnless DEF IInv, TreasuryTypeOK
    <2>3. ~Splits(proposals[id].kind)
      BY <1>2, <2>1 DEF Unsplit, SameTerms
    <2>4. CASE t \notin TokensOf(legs)
      BY <2>2, <2>4, <1>3, <1>4, <1>5, BatchTotals
    <2>5. CASE t \in TokensOf(legs)
      <3>1. PICK i \in DOMAIN legs : legs[i].token = t
        BY <2>5 DEF TokensOf
      <3>2. \A j \in DOMAIN legs : legs[j].token = t => j = i
        BY <2>3, <3>1, <1>1 DEF Splits, legs
      <3>3. TotalOf(legs, t) = legs[i].amount
        BY <3>1, <3>2, <1>3, OneLeg
      <3>4. balance[t] - reserved[t] >= TotalOf(legs, t)
        BY <3>1, <3>3, <1>4 DEF Available
      <3> QED
        BY <3>4, <1>4, <1>5
    <2> QED
      BY <2>4, <2>5
  <1> QED
    BY <1>8, <1>9, <1>10 DEF IInv

\* A new escrow reserves what it promises, out of what nothing else reserves.
LEMMA EscrowStep ==
  ASSUME IInv, NEW x \in Address, NEW id \in Ids, ExecuteEscrow(x, id)
  PROVE  IInv'
  <1> DEFINE k == proposals[id].kind
             e == [token |-> k.token, amount |-> k.amount, mode |-> k.mode,
                   releaseAt |-> k.releaseAt]
             D == DOMAIN escrows \cup {nextEscrow}
  <1>1. TreasuryTypeOK /\ MayExecute(x, id) /\ Conclude(id) /\ k.op = "CreateEscrow"
    BY DEF IInv, ExecuteEscrow
  <1>2. /\ RecordsOK' /\ SameTerms /\ k \in Kind
        /\ Executed(proposals') = Executed(proposals) \cup {id}
        /\ UNCHANGED <<now, weight, threshold>>
    BY <1>1, Concluded
  <1>3. /\ k.amount >= 1 /\ balance[k.token] - reserved[k.token] >= k.amount
        /\ reserved' = [reserved EXCEPT ![k.token] = @ + k.amount]
        /\ escrows' = [n \in D |-> IF n = nextEscrow THEN e ELSE escrows[n]]
        /\ nextEscrow' = nextEscrow + 1
        /\ UNCHANGED <<balance, policyVars, tracker>>
    BY DEF ExecuteEscrow, ReserveFor, Available
  <1>4. k.token \in Token /\ k.amount \in Nat \ {0} /\ e \in Escrow
    BY <1>1, <1>2, <1>3, KindFields DEF Escrow
  <1>5. e.token = k.token /\ e.amount = k.amount
    OBVIOUS
  <1> HIDE DEF k, e
  <1>6. /\ IsFiniteSet(DOMAIN escrows) /\ nextEscrow \notin DOMAIN escrows
        /\ \A t : Promised(escrows, t) \in Nat
    BY <1>1, EscrowsFinite
  <1>7. /\ DOMAIN escrows' = D /\ escrows' \in [D -> Escrow]
        /\ escrows'[nextEscrow] = e
        /\ \A n \in DOMAIN escrows : escrows'[n] = escrows[n]
    BY <1>1, <1>3, <1>4, <1>6 DEF TreasuryTypeOK
  <1>8. TreasuryTypeOK'
    <2>1. DOMAIN escrows' \subseteq 1..(nextEscrow' - 1) /\ nextEscrow' \in Nat \ {0}
      BY <1>1, <1>3, <1>7 DEF TreasuryTypeOK
    <2>2. reserved' \in [Token -> Nat]
      BY <1>1, <1>3, <1>4 DEF TreasuryTypeOK
    <2>3. escrows' \in [DOMAIN escrows' -> Escrow]
      BY <1>7
    <2> QED
      BY <1>1, <1>2, <1>3, <2>1, <2>2, <2>3 DEF TreasuryTypeOK, policyVars
  <1>9. ReservedMatchesEscrows'
    <2>1. SUFFICES ASSUME NEW t \in Token PROVE reserved'[t] = Promised(escrows', t)
      BY DEF ReservedMatchesEscrows, Promised
    <2>2. /\ e.token = t => Promised(escrows', t) = Promised(escrows, t) + e.amount
          /\ e.token # t => Promised(escrows', t) = Promised(escrows, t)
      <3>1. IsFiniteSet(D) /\ nextEscrow \in D /\ DOMAIN escrows = D \ {nextEscrow}
        BY <1>6, FS_AddElement
      <3>2. escrows \in [DOMAIN escrows -> Escrow]
        BY <1>1 DEF TreasuryTypeOK
      <3>3. \A n \in DOMAIN escrows : escrows[n] = escrows'[n]
        BY <1>7
      <3> HIDE DEF D
      <3> QED
        BY <3>1, <3>2, <3>3, <1>7, PromisedBut
    <2>3. reserved[t] = Promised(escrows, t) /\ reserved \in [Token -> Nat]
      BY ReservedPromised DEF IInv, TreasuryTypeOK
    <2> QED
      BY <2>2, <2>3, <1>3, <1>5
  <1>10. CoveredUnlessSplit'
    <2>1. SUFFICES ASSUME Unsplit', NEW t \in Token PROVE reserved'[t] <= balance'[t]
      BY CoveredUnless DEF CoveredUnlessSplit, Unsplit, Executed, Ids
    <2>2. reserved[t] <= balance[t]
      BY <1>1, <1>2, <2>1, UnsplitBefore, CoveredUnless DEF IInv, TreasuryTypeOK
    <2>3. reserved \in [Token -> Nat] /\ balance \in [Token -> Nat]
      BY <1>1 DEF TreasuryTypeOK
    <2> QED
      BY <2>2, <2>3, <1>3, <1>4
  <1> QED
    BY <1>8, <1>9, <1>10 DEF IInv

\* Settling an escrow frees its own reservation; what is left stays exact.
LEMMA SettleReserved ==
  ASSUME IInv, NEW n \in DOMAIN escrows, Settle(n)
  PROVE  /\ escrows[n] \in Escrow /\ escrows[n].amount <= reserved[escrows[n].token]
         /\ reserved' = [reserved EXCEPT ![escrows[n].token] = @ - escrows[n].amount]
         /\ reserved' \in [Token -> Nat] /\ ReservedMatchesEscrows'
         /\ DOMAIN escrows' = DOMAIN escrows \ {n}
         /\ escrows' \in [DOMAIN escrows' -> Escrow]
  <1> DEFINE e == escrows[n]
             B == DOMAIN escrows \ {n}
  <1>1. TreasuryTypeOK /\ escrows \in [DOMAIN escrows -> Escrow] /\ reserved \in [Token -> Nat]
    BY DEF IInv, TreasuryTypeOK
  <1>2. e \in Escrow /\ e.token \in Token /\ e.amount \in Nat
    BY <1>1 DEF Escrow
  <1>3. /\ reserved' = [reserved EXCEPT ![e.token] = @ - e.amount]
        /\ escrows' = [m \in B |-> escrows[m]]
    BY DEF Settle
  <1>4. DOMAIN escrows' = B /\ escrows' \in [B -> Escrow] /\ \A m \in B : escrows'[m] = escrows[m]
    BY <1>1, <1>3
  <1>5. ASSUME NEW t \in Token
        PROVE  /\ Promised(escrows', t) \in Nat
               /\ e.token = t => Promised(escrows, t) = Promised(escrows', t) + e.amount
               /\ e.token # t => Promised(escrows, t) = Promised(escrows', t)
    <2>1. IsFiniteSet(DOMAIN escrows)
      BY <1>1, EscrowsFinite
    <2> DEFINE D == DOMAIN escrows
    <2>2. B = D \ {n} /\ IsFiniteSet(D) /\ escrows \in [D -> Escrow] /\ n \in D
      BY <2>1, <1>1
    <2> HIDE DEF B, D, e
    <2> QED
      BY <2>2, <1>4, PromisedBut DEF e
  <1>6. \A t \in Token : reserved[t] = Promised(escrows, t)
    BY ReservedPromised DEF IInv
  <1> HIDE DEF e, B
  <1>7. \A t \in Token : reserved'[t] = Promised(escrows', t)
    <2>1. SUFFICES ASSUME NEW t \in Token PROVE reserved'[t] = Promised(escrows', t)
      OBVIOUS
    <2>2. CASE e.token = t
      <3>1. reserved'[t] = reserved[t] - e.amount
        BY <2>2, <1>1, <1>3
      <3>2. /\ Promised(escrows', t) \in Nat
            /\ reserved[t] = Promised(escrows', t) + e.amount
        BY <2>2, <1>5, <1>6
      <3> QED
        BY <3>1, <3>2, <1>2
    <2>3. CASE e.token # t
      BY <2>3, <1>1, <1>3, <1>5, <1>6
    <2> QED
      BY <2>2, <2>3
  <1>8. ReservedMatchesEscrows'
    BY <1>7 DEF ReservedMatchesEscrows, Promised
  <1>9. reserved' \in [Token -> Nat] /\ e.amount <= reserved[e.token]
    <2>1. reserved' \in [Token -> Nat]
      <3>1. reserved' = [t \in Token |-> reserved'[t]]
        BY <1>1, <1>3
      <3> QED
        BY <3>1, <1>5, <1>7
    <2>2. Promised(escrows', e.token) \in Nat /\ reserved[e.token] \in Nat
          /\ reserved[e.token] = Promised(escrows', e.token) + e.amount
      BY <1>1, <1>2, <1>5, <1>6
    <2> QED
      BY <2>1, <2>2, <1>2
  <1> QED
    BY <1>2, <1>3, <1>4, <1>8, <1>9 DEF e, B

\* An escrow is settled: paid out of the treasury, or given back to it.
LEMMA SettleStep ==
  ASSUME IInv, SettleEscrow
  PROVE  /\ IInv'
         /\ \E n \in DOMAIN escrows :
              /\ DOMAIN escrows' = DOMAIN escrows \ {n}
              /\ (Paid(n) /\ ~frozen) \/ Returned(n)
         /\ UNCHANGED <<now, weight, threshold, proposals, policyVars, tracker, nextEscrow>>
  <1>1. PICK n \in DOMAIN escrows :
          \/ \E S \in SUBSET Address : ReleaseEscrow(S, n)
          \/ ReleaseEscrowByDeadline(n)
          \/ RefundEscrow(n)
    BY DEF SettleEscrow
  <1>2. /\ Settle(n)
        /\ UNCHANGED <<now, weight, threshold, proposals, counted, policyVars, tracker>>
        /\ \/ Paid(n) /\ ~frozen /\ balance[escrows[n].token] >= escrows[n].amount
           \/ Returned(n)
    BY <1>1 DEF ReleaseEscrow, ReleaseEscrowByDeadline, RefundEscrow, PayEscrow, Refundable,
                Paid, Returned, electorateVars, proposalVars
  <1> DEFINE e == escrows[n]
  <1>3. /\ e \in Escrow /\ e.amount <= reserved[e.token]
        /\ reserved' = [reserved EXCEPT ![e.token] = @ - e.amount]
        /\ reserved' \in [Token -> Nat] /\ ReservedMatchesEscrows'
        /\ DOMAIN escrows' = DOMAIN escrows \ {n}
        /\ escrows' \in [DOMAIN escrows' -> Escrow] /\ nextEscrow' = nextEscrow
    BY <1>2, SettleReserved DEF Settle
  <1>4. TreasuryTypeOK /\ e.token \in Token /\ e.amount \in Nat
        /\ reserved \in [Token -> Nat] /\ balance \in [Token -> Nat]
    BY <1>3 DEF Escrow, IInv, TreasuryTypeOK
  <1>5. \/ /\ balance' = [balance EXCEPT ![e.token] = @ - e.amount]
           /\ balance[e.token] >= e.amount
        \/ balance' = balance
    BY <1>2 DEF Paid, Returned
  <1> HIDE DEF e
  <1>6. balance' \in [Token -> Nat]
    BY <1>4, <1>5
  <1>7. RecordsOK' /\ SameTerms /\ Executed(proposals') = Executed(proposals)
    BY <1>2, <1>4, IdleRecords DEF TreasuryTypeOK
  <1>8. TreasuryTypeOK'
    BY <1>2, <1>3, <1>4, <1>6, <1>7 DEF TreasuryTypeOK, policyVars
  <1>9. CoveredUnlessSplit'
    <2>1. SUFFICES ASSUME Unsplit', NEW t \in Token PROVE reserved'[t] <= balance'[t]
      BY CoveredUnless DEF CoveredUnlessSplit, Unsplit, Executed, Ids
    <2>2. reserved[t] <= balance[t]
      BY <1>4, <1>7, <2>1, UnsplitBefore, CoveredUnless DEF IInv, TreasuryTypeOK
    <2> QED
      BY <2>2, <1>3, <1>4, <1>5
  <1> QED
    BY <1>2, <1>3, <1>8, <1>9 DEF IInv

\* The other kinds change the policy, and move no money.
Policy(x, id) ==
  \/ ExecuteSpendingLimit(x, id)
  \/ ExecuteSpendingWindow(x, id)
  \/ ExecuteAssetRegistry(x, id)
  \/ ExecuteApproveToken(x, id)
  \/ ExecuteUnapproveToken(x, id)

LEMMA PolicyStep ==
  ASSUME IInv, NEW x \in Address, NEW id \in Ids, Policy(x, id)
  PROVE  IInv' /\ UNCHANGED <<balance, escrows, nextEscrow>> /\ ~frozen
  <1> DEFINE k == proposals[id].kind
  <1>1. TreasuryTypeOK /\ MayExecute(x, id) /\ Conclude(id)
    BY DEF IInv, Policy, ExecuteSpendingLimit, ExecuteSpendingWindow, ExecuteAssetRegistry,
           ExecuteApproveToken, ExecuteUnapproveToken
  <1>2. /\ RecordsOK' /\ SameTerms /\ k \in Kind
        /\ Executed(proposals') = Executed(proposals) \cup {id}
        /\ UNCHANGED <<now, weight, threshold>> /\ ~frozen
    BY <1>1, Concluded
  <1>3. UNCHANGED <<balance, reserved, escrows, nextEscrow>>
    BY DEF Policy, ExecuteSpendingLimit, ExecuteSpendingWindow, ExecuteAssetRegistry,
           ExecuteApproveToken, ExecuteUnapproveToken
  <1>4. \/ UNCHANGED <<limit, window, tracker>>
        \/ /\ k.op \in {"SetSpendingLimit", "SetSpendingLimitWindow"}
           /\ SetLimit(k)
           /\ \/ window' = window
              \/ /\ k.op = "SetSpendingLimitWindow"
                 /\ window' = [window EXCEPT ![k.owner][k.token] = k.window]
    BY DEF Policy, ExecuteSpendingLimit, ExecuteSpendingWindow, ExecuteAssetRegistry,
           ExecuteApproveToken, ExecuteUnapproveToken
  <1>5. /\ window' \in [Address -> [Token -> Nat]]
        /\ limit' \in [Address -> [Token -> Nat \cup {NoLimit}]]
        /\ tracker' \in [Address -> [Token -> Tracker]]
    <2>1. CASE UNCHANGED <<limit, window, tracker>>
      BY <2>1, <1>1 DEF TreasuryTypeOK
    <2>2. CASE k.op \in {"SetSpendingLimit", "SetSpendingLimitWindow"} /\ SetLimit(k)
      <3>1. k.owner \in Address /\ k.token \in Token /\ k.limit \in Nat
        BY <2>2, <1>2, KindFields
      <3>2. /\ limit' = [limit EXCEPT ![k.owner][k.token] = k.limit]
            /\ tracker' = [tracker EXCEPT ![k.owner][k.token] = [spent |-> 0, epoch |-> now]]
        BY <2>2 DEF SetLimit
      <3>3. [spent |-> 0, epoch |-> now] \in Tracker
        BY <1>1 DEF Tracker, TreasuryTypeOK
      <3>4. window' = window \/ (k.window \in Nat /\ window' = [window EXCEPT ![k.owner][k.token] = k.window])
        BY <2>2, <1>2, <1>4, KindFields
      <3> HIDE DEF k
      <3>5. limit' \in [Address -> [Token -> Nat \cup {NoLimit}]]
        BY <1>1, <3>1, <3>2 DEF TreasuryTypeOK
      <3>6. tracker' \in [Address -> [Token -> Tracker]]
        BY <1>1, <3>1, <3>2, <3>3 DEF TreasuryTypeOK
      <3>7. window' \in [Address -> [Token -> Nat]]
        <4>1. window \in [Address -> [Token -> Nat]]
          BY <1>1 DEF TreasuryTypeOK
        <4>2. ASSUME k.window \in Nat PROVE [window EXCEPT ![k.owner][k.token] = k.window]
                                             \in [Address -> [Token -> Nat]]
          BY <4>1, <4>2, <3>1
        <4> QED
          BY <4>1, <4>2, <3>4
      <3> QED
        BY <3>5, <3>6, <3>7
    <2> QED
      BY <1>4, <2>1, <2>2
  <1>6. TreasuryTypeOK'
    BY <1>1, <1>2, <1>3, <1>5 DEF TreasuryTypeOK
  <1>7. ReservedMatchesEscrows'
    BY <1>3 DEF IInv, ReservedMatchesEscrows
  <1>8. CoveredUnlessSplit'
    <2>1. Unsplit' => Unsplit
      BY <1>1, <1>2, UnsplitBefore DEF TreasuryTypeOK
    <2> QED
      BY <2>1, <1>3, CoveredUnless DEF IInv, CoveredUnlessSplit, Unsplit, Executed, Ids
  <1> QED
    BY <1>2, <1>3, <1>6, <1>7, <1>8 DEF IInv

\* Every step of the treasury, by what it does to the money.
LEMMA Steps ==
  ASSUME IInv, Next
  PROVE  \/ Silent
         \/ Income
         \/ \E x \in Address, id \in Ids :
              ExecuteTransfer(x, id) \/ ExecuteEscrow(x, id) \/ Policy(x, id)
         \/ SettleEscrow
  <1>1. TreasuryTypeOK
    BY DEF IInv
  <1>2. Create \/ Lifecycle \/ Emergency \/ Recovery => Silent
    BY <1>1, CreateSilent, LifecycleSilent, EmergencySilent
  <1> QED
    BY <1>2 DEF Next, Execute, Policy

\* The invariant survives every step.
LEMMA NextInv == IInv /\ [Next]_vars => IInv'
  <1> SUFFICES ASSUME IInv, [Next]_vars PROVE IInv'
    OBVIOUS
  <1>1. CASE UNCHANGED vars
    <2>1. RecordsOK' /\ UNCHANGED <<now, weight, threshold, balance, reserved, window, limit, tracker,
                                    proposals, escrows, nextEscrow>>
      BY <1>1 DEF vars, IInv, TreasuryTypeOK, RecordsOK
    <2> QED
      BY <2>1 DEF IInv, TreasuryTypeOK, ReservedMatchesEscrows, CoveredUnlessSplit, Ids
  <1>2. CASE Next
    BY <1>2, Steps, SilentStep, IncomeStep, TransferStep, EscrowStep, PolicyStep, SettleStep
  <1> QED
    BY <1>1, <1>2

\* The books of the treasury are in order in every reachable state.
THEOREM Inductive == Spec => []IInv
  <1>1. Init => IInv
    BY InitInv
  <1>2. IInv /\ [Next]_vars => IInv'
    BY NextInv
  <1> QED
    BY <1>1, <1>2, PTL DEF Spec

(***************************************************************************)
(* What is reserved is what the unsettled escrows promise, and the treasury*)
(* holds it unless an executed batch paid a token in several legs          *)
(* (execute, release_escrow, refund_escrow of lib.rs).                     *)
(***************************************************************************)
THEOREM FundsSafe == Spec => []FundsAccounted
  <1>1. IInv => FundsAccounted
    BY DEF IInv, FundsAccounted
  <1> QED
    BY <1>1, Inductive, PTL

-----------------------------------------------------------------------------
(* Action properties *)

\* A batch apart, only an escrow lowers a balance, by what was set aside for it.
LEMMA WhoPays ==
  ASSUME IInv, Next
  PROVE  \/ \E x \in Address, id \in Ids : ExecuteTransfer(x, id)
         \/ \A t \in Token : PaysOut(t) => OutOfEscrow(t)
  <1>1. balance \in [Token -> Nat]
    BY DEF IInv, TreasuryTypeOK
  <1>2. CASE balance' = balance
    BY <1>1, <1>2 DEF PaysOut
  <1>3. CASE Income
    <2>1. PICK u \in Token : balance' = [balance EXCEPT ![u] = @ + 1]
      BY <1>3 DEF Income, Deposit
    <2> QED
      BY <2>1, <1>1 DEF PaysOut
  <1>4. CASE SettleEscrow
    <2>1. PICK n \in DOMAIN escrows : Settle(n) /\ (Paid(n) \/ balance' = balance)
      BY <1>4 DEF SettleEscrow, ReleaseEscrow, ReleaseEscrowByDeadline, RefundEscrow, PayEscrow, Paid
    <2> DEFINE e == escrows[n]
    <2>2. /\ e.token \in Token /\ e.amount \in Nat
          /\ reserved \in [Token -> Nat]
      BY DEF IInv, TreasuryTypeOK, Escrow
    <2>3. /\ reserved' = [reserved EXCEPT ![e.token] = @ - e.amount]
          /\ n \notin DOMAIN escrows'
      BY <2>1 DEF Settle
    <2>4. balance' = [balance EXCEPT ![e.token] = @ - e.amount] \/ balance' = balance
      BY <2>1 DEF Paid
    <2>5. ASSUME NEW t \in Token, PaysOut(t) PROVE OutOfEscrow(t)
      <3>1. t = e.token /\ balance'[t] = balance[t] - e.amount
        BY <1>1, <2>2, <2>4, <2>5 DEF PaysOut
      <3>2. reserved'[t] = reserved[t] - e.amount
        BY <2>2, <2>3, <3>1
      <3>3. balance[t] \in Nat /\ reserved[t] \in Nat
        BY <1>1, <2>2
      <3>4. balance[t] - balance'[t] = e.amount /\ reserved[t] - reserved'[t] = e.amount
        BY <2>2, <3>1, <3>2, <3>3
      <3> QED
        BY <2>3, <3>1, <3>4 DEF OutOfEscrow
    <2> QED
      BY <2>5
  <1>5. Silent => balance' = balance
    BY DEF Silent
  <1>6. \A x \in Address, id \in Ids : ExecuteEscrow(x, id) => balance' = balance
    BY DEF ExecuteEscrow
  <1>7. \A x \in Address, id \in Ids : Policy(x, id) => balance' = balance
    BY PolicyStep
  <1> QED
    BY <1>2, <1>3, <1>4, <1>5, <1>6, <1>7, Steps

\* What a step does to the set of escrows.
LEMMA EscrowsMove ==
  ASSUME IInv, Next
  PROVE  \/ UNCHANGED <<escrows, nextEscrow>>
         \/ /\ ~frozen
            /\ DOMAIN escrows' = DOMAIN escrows \cup {nextEscrow} /\ nextEscrow' = nextEscrow + 1
         \/ \E n \in DOMAIN escrows : /\ DOMAIN escrows' = DOMAIN escrows \ {n}
                                      /\ Paid(n) \/ Returned(n)
  <1>1. Silent \/ Income => UNCHANGED <<escrows, nextEscrow>>
    BY DEF Silent, Income
  <1>2. \A x \in Address, id \in Ids :
          ExecuteTransfer(x, id) \/ Policy(x, id) => UNCHANGED <<escrows, nextEscrow>>
    BY PolicyStep DEF ExecuteTransfer
  <1>3. \A x \in Address, id \in Ids :
          ExecuteEscrow(x, id) =>
            /\ ~frozen
            /\ DOMAIN escrows' = DOMAIN escrows \cup {nextEscrow} /\ nextEscrow' = nextEscrow + 1
    BY DEF ExecuteEscrow, MayExecute
  <1> QED
    BY <1>1, <1>2, <1>3, Steps, SettleStep

(***************************************************************************)
(* An escrow ends once, paid in full or given back after its time, and its *)
(* id is never used again (release_escrow, release_escrow_by_deadline and  *)
(* refund_escrow of lib.rs).                                               *)
(***************************************************************************)
THEOREM EscrowsEnd == Spec => EscrowsEndOnce
  <1> DEFINE Step == /\ \A n \in DOMAIN escrows \ DOMAIN escrows' : Paid(n) \/ Returned(n)
                     /\ \A n \in DOMAIN escrows' \ DOMAIN escrows :
                           n >= nextEscrow /\ n < nextEscrow'
  <1>1. IInv /\ [Next]_vars => [Step]_vars
    <2> SUFFICES ASSUME IInv, Next PROVE Step
      OBVIOUS
    <2>1. nextEscrow \in Nat
      BY DEF IInv, TreasuryTypeOK
    <2>2. ASSUME NEW n \in DOMAIN escrows \ DOMAIN escrows' PROVE Paid(n) \/ Returned(n)
      BY <2>2, EscrowsMove
    <2>3. ASSUME NEW n \in DOMAIN escrows' \ DOMAIN escrows
          PROVE  n >= nextEscrow /\ n < nextEscrow'
      <3>1. n = nextEscrow /\ nextEscrow' = nextEscrow + 1
        BY <2>3, EscrowsMove
      <3> QED
        BY <2>1, <3>1
    <2> QED
      BY <2>2, <2>3
  <1> QED
    BY <1>1, Inductive, PTL DEF Spec, EscrowsEndOnce

(***************************************************************************)
(* In recovery mode, and of a token the registry does not approve, nothing *)
(* leaves but what was set aside for an escrow; a frozen contract pays     *)
(* nobody (lib.rs:3689, 3724-3725, 5648-5671).                             *)
(***************************************************************************)
THEOREM StopsSafe == Spec => StopsHoldFunds
  <1> DEFINE Step == RecoveryHolds /\ FreezeHolds /\ RegistryHolds
  <1>1. IInv /\ [Next]_vars => [Step]_vars
    <2> SUFFICES ASSUME IInv, Next PROVE Step
      OBVIOUS
    <2>1. ASSUME NEW x \in Address, NEW id \in Ids, ExecuteTransfer(x, id)
          PROVE  /\ ~recovery /\ ~frozen
                 /\ registryOn => \A t \in Token \ approved : ~PaysOut(t)
      <3> DEFINE legs == proposals[id].kind.legs
      <3>1. /\ TreasuryTypeOK /\ MayExecute(x, id) /\ Conclude(id) /\ ~recovery
            /\ proposals[id].kind.op = "Transfer"
            /\ \A i \in DOMAIN legs : TokenAllowed(legs[i].token)
            /\ balance' = [t \in Token |-> balance[t] - TotalOf(legs, t)]
        BY <2>1 DEF ExecuteTransfer, RecoveryAllows, IInv
      <3>2. legs \in Seq(Leg) /\ ~frozen
        BY <3>1, Concluded, KindFields
      <3> HIDE DEF legs
      <3>3. ASSUME registryOn, NEW t \in Token \ approved PROVE ~PaysOut(t)
        <4>1. t \notin TokensOf(legs)
          BY <3>1, <3>3 DEF TokensOf, TokenAllowed
        <4>2. TotalOf(legs, t) = 0 /\ balance[t] \in Nat
          BY <3>1, <3>2, <4>1, BatchTotals DEF TreasuryTypeOK
        <4> QED
          BY <3>1, <4>2 DEF PaysOut
      <3> QED
        BY <3>1, <3>2, <3>3
    <2>2. RecoveryHolds /\ RegistryHolds
      BY <2>1, WhoPays DEF RecoveryHolds, RegistryHolds
    <2>3. FreezeHolds
      <3> SUFFICES ASSUME frozen
                   PROVE  /\ \A t \in Token : ~PaysOut(t)
                          /\ UNCHANGED policyVars
                          /\ DOMAIN escrows' \subseteq DOMAIN escrows
        BY DEF FreezeHolds
      <3>1. balance \in [Token -> Nat]
        BY DEF IInv, TreasuryTypeOK
      <3>2. \A x \in Address, id \in Ids :
              ~(ExecuteTransfer(x, id) \/ ExecuteEscrow(x, id) \/ Policy(x, id))
        BY PolicyStep DEF ExecuteTransfer, ExecuteEscrow, MayExecute
      <3>3. CASE Silent
        BY <3>1, <3>3 DEF Silent, PaysOut
      <3>4. CASE Income
        <4>1. PICK u \in Token : balance' = [balance EXCEPT ![u] = @ + 1] /\ UNCHANGED policyVars
          BY <3>4 DEF Income, Deposit
        <4> QED
          BY <4>1, <3>1, <3>4 DEF PaysOut, Income
      <3>5. CASE SettleEscrow
        <4>1. PICK n \in DOMAIN escrows : DOMAIN escrows' = DOMAIN escrows \ {n} /\ Returned(n)
          BY <3>5, SettleStep
        <4> QED
          BY <4>1, <3>1, <3>5, SettleStep DEF Returned, PaysOut
      <3> QED
        BY <3>2, <3>3, <3>4, <3>5, Steps
    <2> QED
      BY <2>2, <2>3
  <1> QED
    BY <1>1, Inductive, PTL DEF Spec, StopsHoldFunds

-----------------------------------------------------------------------------
(* The first window of a limit *)

\* The proposals a step executes are those it adds to the executed ones.
LEMMA NoneExecuted ==
  ASSUME SameTerms, Executed(proposals') = Executed(proposals)
  PROVE  ExecutedNow = {}
  BY DEF SameTerms, ExecutedNow, Executed, Ids

LEMMA OneExecuted ==
  ASSUME SameTerms, NEW id \in Ids, id \notin Executed(proposals),
         Executed(proposals') = Executed(proposals) \cup {id}
  PROVE  ExecutedNow = {id}
  BY DEF SameTerms, ExecutedNow, Executed, Ids

\* What a proposal pays of a token, if it is executed.
LEMMA PaidForTyped ==
  ASSUME RecordsOK, NEW i \in Ids, NEW a, NEW t
  PROVE  PaidFor(i, a, t) \in Nat
  <1>1. proposals[i].kind \in Kind
    BY RecordsAre DEF Proposal
  <1>2. proposals[i].kind.op = "Transfer" => TotalOf(proposals[i].kind.legs, t) \in Nat
    BY <1>1, KindFields, BatchTotals
  <1> QED
    BY <1>2 DEF PaidFor

\* What a step pays for an owner: nothing when it executes nothing, and what
\* its proposal pays when it executes one.
LEMMA PaidNow ==
  ASSUME RecordsOK, NEW a, NEW t
  PROVE  /\ ExecutedNow = {} => Total([i \in Ids |-> PaidFor(i, a, t)], ExecutedNow) = 0
         /\ \A id \in Ids : ExecutedNow = {id} =>
              Total([i \in Ids |-> PaidFor(i, a, t)], ExecutedNow) = PaidFor(id, a, t)
  <1> DEFINE f == [i \in Ids |-> PaidFor(i, a, t)]
  <1>1. f \in [Ids -> Nat]
    BY PaidForTyped
  <1>2. \A id \in Ids : f[id] = PaidFor(id, a, t) /\ f[id] \in Nat
    BY PaidForTyped
  <1> HIDE DEF f
  <1>3. Total(f, {}) = 0
    BY TotalEmpty
  <1>4. ASSUME NEW id \in Ids PROVE Total(f, {id}) = PaidFor(id, a, t)
    <2>1. IsFiniteSet({id}) /\ {id} \ {id} = {} /\ {id} \in SUBSET Ids /\ id \in {id}
      BY FS_Singleton
    <2>2. Total(f, {id}) = Total(f, {id} \ {id}) + f[id]
      BY <2>1, <1>1, TotalRemove
    <2> QED
      BY <2>1, <2>2, <1>2, <1>3
  <1>5. /\ ExecutedNow = {} => Total(f, ExecutedNow) = 0
        /\ \A id \in Ids : ExecutedNow = {id} => Total(f, ExecutedNow) = PaidFor(id, a, t)
    BY <1>3, <1>4
  <1> QED
    BY <1>5 DEF f

\* A window and a tracker in step stay so when an amount within the limit is spent.
LEMMA ChargeInStep ==
  ASSUME now \in Nat \ {0}, NEW W \in Nat, NEW L \in Nat, NEW n \in Nat,
         NEW h \in [start : Nat, sum : Nat], NEW tr \in Tracker,
         1 <= tr.epoch, tr.epoch <= h.start, h.start <= now,
         h.start = tr.epoch /\ now <= tr.epoch + W => h.sum = tr.spent /\ tr.spent <= L,
         now <= tr.epoch + W => tr.spent + n <= L
  PROVE  /\ Charged(tr, n, W).epoch = tr.epoch
         /\ Spent(h, n, W) \in [start : Nat, sum : Nat]
         /\ tr.epoch <= Spent(h, n, W).start /\ Spent(h, n, W).start <= now
         /\ Spent(h, n, W).start = tr.epoch /\ now <= tr.epoch + W
              => /\ Spent(h, n, W).sum = Charged(tr, n, W).spent
                 /\ Charged(tr, n, W).spent <= L
  <1>1. tr.epoch \in Nat /\ tr.spent \in Nat /\ h.start \in Nat /\ h.sum \in Nat
    BY DEF Tracker
  <1>2. /\ Charged(tr, n, W).epoch = tr.epoch
        /\ Charged(tr, n, W).spent = IF now > tr.epoch + W THEN n ELSE tr.spent + n
    BY <1>1, ChargedIs
  <1>3. CASE n = 0
    <2>1. Spent(h, n, W) = h
      BY <1>3 DEF Spent
    <2> QED
      BY <2>1, <1>1, <1>2, <1>3
  <1>4. CASE n # 0 /\ now > h.start + W
    <2>1. /\ Spent(h, n, W) = [start |-> now, sum |-> n]
      BY <1>4, <1>1 DEF Spent
    <2> QED
      BY <2>1, <1>1, <1>2, <1>4
  <1>5. CASE n # 0 /\ ~(now > h.start + W)
    <2>1. Spent(h, n, W) = [h EXCEPT !.sum = @ + n]
      BY <1>5, <1>1 DEF Spent
    <2>2. /\ Spent(h, n, W) \in [start : Nat, sum : Nat]
          /\ Spent(h, n, W).start = h.start /\ Spent(h, n, W).sum = h.sum + n
      BY <2>1, <1>1
    <2> QED
      BY <2>2, <1>1, <1>2, <1>5
  <1> QED
    BY <1>3, <1>4, <1>5

\* Where nothing is paid, and neither limit nor tracker changes, time alone passes.
LEMMA WaitInStep ==
  ASSUME IInv, WindowsInStep, NEW a \in Address, NEW t \in Token,
         now' \in {now, now + 1}, spending'[a][t] = spending[a][t],
         tracker'[a][t] = tracker[a][t], limit'[a][t] = limit[a][t],
         window'[a][t] = window[a][t]
  PROVE  InStep(a, t)'
  <1>1. InStep(a, t) /\ spending[a][t] \in [start : Nat, sum : Nat]
    BY DEF WindowsInStep
  <1>2. now \in Nat /\ tracker[a][t] \in Tracker /\ window[a][t] \in Nat
    BY DEF IInv, TreasuryTypeOK
  <1>3. tracker[a][t].epoch \in Nat /\ spending[a][t].start \in Nat
    BY <1>1, <1>2 DEF Tracker
  <1> QED
    BY <1>1, <1>2, <1>3 DEF InStep

\* How HistoryNext moves the documented window of an owner and a token.
LEMMA SpendingIs ==
  ASSUME HistoryNext, NEW a \in Address, NEW t \in Token
  PROVE  spending'[a][t] =
           IF \E i \in ExecutedNow : SetsLimit(proposals[i].kind, a, t)
             THEN [start |-> now, sum |-> 0]
             ELSE Spent(spending[a][t], Total([i \in Ids |-> PaidFor(i, a, t)], ExecutedNow),
                        window[a][t])
  BY DEF HistoryNext

\* A step that executes nothing leaves the windows alone.
LEMMA NothingSpent ==
  ASSUME RecordsOK, HistoryNext, ExecutedNow = {}, NEW a \in Address, NEW t \in Token
  PROVE  spending'[a][t] = spending[a][t]
  <1>1. Total([i \in Ids |-> PaidFor(i, a, t)], ExecutedNow) = 0
    BY PaidNow
  <1>2. spending'[a][t] = Spent(spending[a][t], 0, window[a][t])
    BY <1>1, SpendingIs
  <1> QED
    BY <1>2 DEF Spent

\* A step that executes one proposal spends what that proposal pays, or starts
\* the window of the limit it sets.
LEMMA OneSpent ==
  ASSUME RecordsOK, HistoryNext, NEW id \in Ids, ExecutedNow = {id},
         NEW a \in Address, NEW t \in Token
  PROVE  spending'[a][t] =
           IF SetsLimit(proposals[id].kind, a, t) THEN [start |-> now, sum |-> 0]
           ELSE Spent(spending[a][t], PaidFor(id, a, t), window[a][t])
  BY SpendingIs, PaidNow, ZenonT(60)

\* The documented windows keep their type.
LEMMA SpendingTyped ==
  ASSUME HistoryNext,
         \A a \in Address, t \in Token : spending'[a][t] \in [start : Nat, sum : Nat]
  PROVE  spending' \in [Address -> [Token -> [start : Nat, sum : Nat]]]
  <1>1. spending' = [a \in Address |-> [t \in Token |-> spending'[a][t]]]
    BY DEF HistoryNext
  <1> QED
    BY <1>1

\* Steps that execute nothing.
LEMMA IdleInStep ==
  ASSUME IInv, WindowsInStep, HistoryNext, Executed(proposals') = Executed(proposals), SameTerms,
         now' \in {now, now + 1}, UNCHANGED <<limit, window, tracker>>
  PROVE  WindowsInStep'
  <1>1. ExecutedNow = {}
    BY NoneExecuted
  <1>2. RecordsOK
    BY DEF IInv, TreasuryTypeOK
  <1>3. \A a \in Address, t \in Token : spending'[a][t] = spending[a][t]
    BY <1>1, <1>2, NothingSpent
  <1>4. spending' \in [Address -> [Token -> [start : Nat, sum : Nat]]]
    BY <1>3, SpendingTyped DEF WindowsInStep
  <1>5. \A a \in Address, t \in Token : InStep(a, t)'
    BY <1>3, WaitInStep
  <1> QED
    BY <1>4, <1>5 DEF WindowsInStep

\* A batch spends within the limit of its proposer, in the window of both books.
LEMMA TransferInStep ==
  ASSUME IInv, WindowsInStep, HistoryNext,
         NEW x \in Address, NEW id \in Ids, ExecuteTransfer(x, id)
  PROVE  WindowsInStep'
  <1> DEFINE k    == proposals[id].kind
             legs == k.legs
             who  == proposals[id].proposer
  <1>1. /\ TreasuryTypeOK /\ RecordsOK /\ MayExecute(x, id) /\ Conclude(id)
        /\ k.op = "Transfer"
    BY DEF IInv, TreasuryTypeOK, ExecuteTransfer
  <1>2. /\ SameTerms /\ k \in Kind /\ proposals[id] \in Proposal /\ now' = now
        /\ id \notin Executed(proposals) /\ Executed(proposals') = Executed(proposals) \cup {id}
    BY <1>1, Concluded
  <1>3. legs \in Seq(Leg) /\ who \in Address
    BY <1>1, <1>2, KindFields DEF Proposal
  <1>4. ExecutedNow = {id}
    BY <1>2, OneExecuted
  <1>5. /\ \A t \in TokensOf(legs) : WithinLimit(who, t, TotalOf(legs, t))
        /\ tracker' = [tracker EXCEPT ![who] =
             [t \in Token |->
                IF t \in TokensOf(legs)
                  THEN Charged(@[t], TotalOf(legs, t), window[who][t])
                  ELSE @[t]]]
        /\ UNCHANGED <<limit, window>>
    BY DEF ExecuteTransfer, policyVars
  <1>6. \A a \in Address, t \in Token :
          /\ ~SetsLimit(k, a, t)
          /\ PaidFor(id, a, t) = IF a = who THEN TotalOf(legs, t) ELSE 0
    BY <1>1 DEF SetsLimit, PaidFor
  <1>7. \A a \in Address, t \in Token :
          spending'[a][t] = Spent(spending[a][t], PaidFor(id, a, t), window[a][t])
    BY <1>1, <1>4, <1>6, OneSpent
  <1>8. \A a \in Address, t \in Token :
          tracker'[a][t] = IF a = who /\ t \in TokensOf(legs)
                             THEN Charged(tracker[a][t], TotalOf(legs, t), window[a][t])
                             ELSE tracker[a][t]
    <2>1. tracker \in [Address -> [Token -> Tracker]]
      BY <1>1 DEF TreasuryTypeOK
    <2> QED
      BY <2>1, <1>3, <1>5
  <1> HIDE DEF k, legs, who
  <1>9. ASSUME NEW a \in Address, NEW t \in Token
        PROVE  spending'[a][t] \in [start : Nat, sum : Nat] /\ InStep(a, t)'
    <2> DEFINE n  == PaidFor(id, a, t)
               h  == spending[a][t]
               tr == tracker[a][t]
               W  == window[a][t]
    <2>1. /\ h \in [start : Nat, sum : Nat] /\ tr \in Tracker /\ W \in Nat /\ now \in Nat \ {0}
          /\ limit[a][t] \in Nat \cup {NoLimit} /\ n \in Nat
      BY <1>1, PaidForTyped DEF WindowsInStep, TreasuryTypeOK
    <2>2. Spent(h, n, W) \in [start : Nat, sum : Nat]
      <3>1. h.start \in Nat /\ h.sum \in Nat /\ h.sum + n \in Nat
        BY <2>1
      <3>2. [h EXCEPT !.sum = @ + n] \in [start : Nat, sum : Nat]
        BY <2>1, <3>1
      <3> QED
        BY <2>1, <3>2 DEF Spent
    <2>3. CASE a = who /\ t \in TokensOf(legs)
      <3>1. n = TotalOf(legs, t) /\ tracker'[a][t] = Charged(tr, n, W) /\ WithinLimit(a, t, n)
        BY <2>3, <1>5, <1>6, <1>8
      <3>2. SUFFICES ASSUME limit[a][t] # NoLimit PROVE InStep(a, t)'
        BY <2>2, <1>5, <1>7 DEF InStep
      <3>3. /\ 1 <= tr.epoch /\ tr.epoch <= h.start /\ h.start <= now
            /\ h.start = tr.epoch /\ now <= tr.epoch + W => h.sum = tr.spent /\ tr.spent <= limit[a][t]
        BY <3>2 DEF WindowsInStep, InStep
      <3>4. now <= tr.epoch + W => tr.spent + n <= limit[a][t]
        <4>1. tr.epoch \in Nat /\ tr.epoch # 0
          BY <2>1, <3>3 DEF Tracker
        <4> QED
          BY <4>1, <2>1, <3>1, <3>2 DEF WithinLimit, EffectiveSpent, WindowOver
      <3> DEFINE tr2 == tracker'[a][t]
                 h2  == spending'[a][t]
      <3>5. tr2 = Charged(tr, n, W) /\ h2 = Spent(h, n, W) /\ limit[a][t] \in Nat
        BY <2>1, <3>1, <3>2, <1>7
      <3>6. /\ tr2.epoch = tr.epoch
            /\ tr.epoch <= h2.start /\ h2.start <= now
            /\ h2.start = tr.epoch /\ now <= tr.epoch + W
                 => h2.sum = tr2.spent /\ tr2.spent <= limit[a][t]
        <4> HIDE DEF n, h, tr, W, tr2, h2
        <4> QED
          BY <2>1, <3>3, <3>4, <3>5, ChargeInStep
      <3> QED
        BY <3>3, <3>6, <1>2, <1>5 DEF InStep
    <2>4. CASE ~(a = who /\ t \in TokensOf(legs))
      <3>1. n = 0 /\ tracker'[a][t] = tr
        BY <2>4, <1>3, <1>6, <1>8, BatchTotals
      <3>2. spending'[a][t] = h
        BY <3>1, <1>7 DEF Spent
      <3> QED
        BY <2>1, <3>1, <3>2, <1>2, <1>5, WaitInStep
    <2> QED
      BY <2>3, <2>4, <2>2, <1>7
  <1> QED
    BY <1>9, SpendingTyped DEF WindowsInStep

\* The other kinds pay nothing; a new limit starts both books afresh.
LEMMA OtherInStep ==
  ASSUME IInv, WindowsInStep, HistoryNext,
         NEW x \in Address, NEW id \in Ids, ExecuteEscrow(x, id) \/ Policy(x, id)
  PROVE  WindowsInStep'
  <1> DEFINE k == proposals[id].kind
  <1>1. /\ TreasuryTypeOK /\ RecordsOK /\ MayExecute(x, id) /\ Conclude(id)
        /\ k.op # "Transfer"
    BY DEF IInv, TreasuryTypeOK, Policy, ExecuteEscrow, ExecuteSpendingLimit,
           ExecuteSpendingWindow, ExecuteAssetRegistry, ExecuteApproveToken, ExecuteUnapproveToken
  <1>2. /\ SameTerms /\ k \in Kind /\ now' = now
        /\ id \notin Executed(proposals) /\ Executed(proposals') = Executed(proposals) \cup {id}
    BY <1>1, Concluded
  <1>3. ExecutedNow = {id}
    BY <1>2, OneExecuted
  <1>4. \A a \in Address, t \in Token : PaidFor(id, a, t) = 0
    BY <1>1 DEF PaidFor
  <1>5. \A a \in Address, t \in Token :
          spending'[a][t] = IF SetsLimit(k, a, t) THEN [start |-> now, sum |-> 0] ELSE spending[a][t]
    BY <1>1, <1>3, <1>4, OneSpent, ZenonT(60) DEF Spent
  <1>6. /\ limit \in [Address -> [Token -> Nat \cup {NoLimit}]]
        /\ tracker \in [Address -> [Token -> Tracker]]
        /\ window \in [Address -> [Token -> Nat]]
    BY <1>1 DEF TreasuryTypeOK
  <1>7. \/ /\ k.op \notin {"SetSpendingLimit", "SetSpendingLimitWindow"}
           /\ UNCHANGED <<limit, tracker, window>>
        \/ /\ k.op \in {"SetSpendingLimit", "SetSpendingLimitWindow"}
           /\ k.owner \in Address /\ k.token \in Token /\ k.limit \in Nat
           /\ limit' = [limit EXCEPT ![k.owner][k.token] = k.limit]
           /\ tracker' = [tracker EXCEPT ![k.owner][k.token] = [spent |-> 0, epoch |-> now]]
           /\ window' = window \/ window' = [window EXCEPT ![k.owner][k.token] = k.window]
    BY <1>2, KindFields
       DEF Policy, ExecuteEscrow, ExecuteSpendingLimit, ExecuteSpendingWindow, ExecuteAssetRegistry,
           ExecuteApproveToken, ExecuteUnapproveToken, SetLimit, policyVars
  <1> HIDE DEF k
  <1>8. ASSUME NEW a \in Address, NEW t \in Token
        PROVE  spending'[a][t] \in [start : Nat, sum : Nat] /\ InStep(a, t)'
    <2>1. now \in Nat \ {0} /\ spending[a][t] \in [start : Nat, sum : Nat]
      BY <1>1 DEF WindowsInStep, TreasuryTypeOK
    <2>2. CASE SetsLimit(k, a, t)
      <3>1. /\ limit'[a][t] = k.limit /\ k.limit \in Nat
            /\ tracker'[a][t] = [spent |-> 0, epoch |-> now]
            /\ spending'[a][t] = [start |-> now, sum |-> 0]
        BY <2>2, <1>5, <1>6, <1>7 DEF SetsLimit
      <3> QED
        BY <2>1, <3>1, <1>2 DEF InStep
    <2>3. CASE ~SetsLimit(k, a, t)
      <3>1. /\ limit'[a][t] = limit[a][t] /\ tracker'[a][t] = tracker[a][t]
            /\ window'[a][t] = window[a][t]
        BY <2>3, <1>6, <1>7 DEF SetsLimit
      <3>2. spending'[a][t] = spending[a][t]
        BY <2>3, <1>5
      <3> QED
        BY <2>1, <3>1, <3>2, <1>2, WaitInStep
    <2> QED
      BY <2>2, <2>3
  <1> QED
    BY <1>8, SpendingTyped DEF WindowsInStep

\* The windows stay in step through every step of the history.
LEMMA HistoryInv == IInv /\ WindowsInStep /\ [HistoryNext]_historyVars => WindowsInStep'
  <1> SUFFICES ASSUME IInv, WindowsInStep, [HistoryNext]_historyVars PROVE WindowsInStep'
    OBVIOUS
  <1>1. CASE UNCHANGED historyVars
    BY <1>1 DEF historyVars, vars, WindowsInStep, InStep
  <1>2. CASE HistoryNext
    <2>1. Next /\ TreasuryTypeOK
      BY <1>2 DEF HistoryNext, IInv
    <2>2. CASE Silent
      <3>1. /\ Executed(proposals') = Executed(proposals) /\ SameTerms
            /\ now' \in {now, now + 1} /\ UNCHANGED <<limit, window, tracker>>
        BY <2>2 DEF Silent, policyVars
      <3> QED
        BY <3>1, <1>2, IdleInStep
    <2>3. CASE Income \/ SettleEscrow
      <3>1. UNCHANGED <<now, proposals, policyVars, tracker>>
        BY <2>3, SettleStep DEF Income, Deposit, proposalVars
      <3>2. /\ Executed(proposals') = Executed(proposals) /\ SameTerms
            /\ now' \in {now, now + 1} /\ UNCHANGED <<limit, window, tracker>>
        BY <3>1 DEF Executed, SameTerms, Ids, policyVars
      <3> QED
        BY <3>2, <1>2, IdleInStep
    <2> QED
      BY <2>1, <2>2, <2>3, <1>2, Steps, TransferInStep, OtherInStep
  <1> QED
    BY <1>1, <1>2

(***************************************************************************)
(* In the window that a new limit opens, all executed batches of an owner  *)
(* together stay within the limit (check_spending_limit and the tracker of *)
(* execute in lib.rs), in every order of proposals and executions.         *)
(***************************************************************************)
THEOREM WindowBounded == HistorySpec => []FirstWindowBounded
  <1>1. HistoryInit => IInv /\ WindowsInStep
    <2> SUFFICES ASSUME HistoryInit PROVE IInv /\ WindowsInStep
      OBVIOUS
    <2>1. Init /\ spending = [a \in Address |-> [t \in Token |-> [start |-> 0, sum |-> 0]]]
      BY DEF HistoryInit
    <2>2. \A a \in Address, t \in Token : limit[a][t] = NoLimit
      BY <2>1 DEF Init, VaultInit
    <2> QED
      BY <2>1, <2>2, InitInv DEF WindowsInStep, InStep
  <1>2. [HistoryNext]_historyVars => [Next]_vars
    BY DEF HistoryNext, historyVars
  <1>3. IInv /\ [HistoryNext]_historyVars => IInv'
    BY <1>2, NextInv
  <1>4. IInv /\ WindowsInStep => FirstWindowBounded
    BY DEF IInv, WindowsInStep, InStep, FirstWindowBounded, Running
  <1> QED
    BY <1>1, <1>3, <1>4, HistoryInv, PTL DEF HistorySpec

=============================================================================
