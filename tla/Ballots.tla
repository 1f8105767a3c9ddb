-------------------------------- MODULE Ballots --------------------------------
(***************************************************************************)
(* What a multisig promises about its proposals, with no contract storage: *)
(* a ballot is open until it is carried, withdrawn or lapses; its votes are*)
(* weights given by members of the electorate; it is carried only by votes *)
(* that add up to its quorum, all by members at that moment; and the       *)
(* electorate changes by carried ballots only, a member leaving it taking  *)
(* its votes off every open ballot.                                        *)
(***************************************************************************)
EXTENDS Integers, Sequences, Sums

CONSTANTS
  Member,  \* all who may ever be in the electorate
  Weight,  \* what a vote may weigh
  Quorum   \* the quorums ballots are opened with

VARIABLES
  electorate,  \* the present members
  ballots      \* the ballots opened so far

ballotVars == <<electorate, ballots>>

Numbers == DOMAIN ballots

IsOpen(i)   == ballots[i].state = "open"
Tally(i)    == Total(ballots[i].votes, electorate)
MayCarry(i) == IsOpen(i) /\ Tally(i) >= ballots[i].quorum

\* A new ballot has a number of its own, some quorum and no votes.
Open ==
  /\ Len(ballots') = Len(ballots) + 1
  /\ LET q == ballots'[Len(ballots')].quorum
     IN  /\ q \in Quorum
         /\ ballots' = Append(ballots, [state  |-> "open", quorum |-> q,
                                       votes  |-> [m \in Member |-> 0]])
  /\ UNCHANGED electorate

Vote(i, m, w) ==
  /\ IsOpen(i) /\ m \in electorate /\ ballots[i].votes[m] = 0
  /\ ballots' = [ballots EXCEPT ![i].votes[m] = w]
  /\ UNCHANGED electorate

Retract(i, m) ==
  /\ IsOpen(i) /\ ballots[i].votes[m] > 0
  /\ ballots' = [ballots EXCEPT ![i].votes[m] = 0]
  /\ UNCHANGED electorate

Withdraw(i) ==
  /\ IsOpen(i) /\ ~MayCarry(i)
  /\ ballots' = [ballots EXCEPT ![i].state = "withdrawn"]
  /\ UNCHANGED electorate

\* Ballots lapse together, when time passes.
Lapse ==
  \E S \in SUBSET {i \in Numbers : IsOpen(i)} :
    /\ ballots' = [i \in Numbers |-> IF i \in S THEN [ballots[i] EXCEPT !.state = "lapsed"]
                                               ELSE ballots[i]]
    /\ UNCHANGED electorate

Carry(i) ==
  /\ MayCarry(i)
  /\ ballots' = [ballots EXCEPT ![i].state = "carried"]
  /\ \/ UNCHANGED electorate
     \/ \E m \in Member : electorate' = electorate \cup {m}

CarryRemoval(i, m) ==
  /\ MayCarry(i)
  /\ electorate' = electorate \ {m}
  /\ ballots' = [j \in Numbers |->
       [state  |-> IF j = i THEN "carried" ELSE ballots[j].state,
        quorum |-> ballots[j].quorum,
        votes  |-> IF IsOpen(j) THEN [ballots[j].votes EXCEPT ![m] = 0] ELSE ballots[j].votes]]

BallotInit == electorate \subseteq Member /\ ballots = << >>

BallotNext ==
  \/ Open
  \/ \E i \in Numbers, m \in Member, w \in Weight : Vote(i, m, w)
  \/ \E i \in Numbers, m \in Member : Retract(i, m) \/ CarryRemoval(i, m)
  \/ \E i \in Numbers : Withdraw(i) \/ Carry(i)
  \/ Lapse

BallotSpec == BallotInit /\ [][BallotNext]_ballotVars

=============================================================================
