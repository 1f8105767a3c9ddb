---------------------------- MODULE EventTimeline ----------------------------
(***************************************************************************)
(* The activity timeline of a proposal's page and the feed of weight       *)
(* changes, rebuilt from a page of the contract's events.  An event is     *)
(* named by its place in the chain; what is written about it is left out.  *)
(***************************************************************************)
EXTENDS ConsoleAccounts, Integers, Sequences, FiniteSets

CONSTANTS
  Watched,    \* the proposal whose page is open
  Beginning,  \* what the contract emitted before
  Numbers,    \* the proposals that are decided meanwhile
  Majority,   \* standing approvals that make a proposal ready
  Reach,      \* ledgers that a question for events goes back
  PageSize,   \* events in an answer
  FeedSize,   \* changes in the feed
  MaxEvents   \* bound on the chain

Topics  == {"approved", "revoked", "executed", "c_wgt", "r_crt", "str_clm"}
Emitted == [topic: Topics, number: Nat, ledger: Nat, tx: Nat]

ASSUME TimelineAssumption ==
  /\ Watched \in Numbers /\ Numbers \subseteq Nat
  /\ {Majority, Reach, PageSize, FeedSize, MaxEvents} \subseteq Nat \ {0}
  /\ Beginning \in Seq(Emitted)
  /\ None \notin {"owner_weight_changed", "recurring_stream_claimed",
                  "approved", "revoked", "executed"}

VARIABLES
  chain,     \* the contract's events in order: topic, number, ledger, transaction
  status,    \* the status the page was last given
  asOf,      \* the length of the chain it was derived from
  start,     \* the first ledger each question asks for, 0 until it is known
  answer     \* the answer to each question, None while it waits

timelineVars == <<chain, status, asOf, start, answer>>

Feeds == {"proposal", "weights"}

-------------------------------------------------------------------------------
(***************************************************************************)
(* The contract's side: what it has emitted.                               *)
(***************************************************************************)
Newest == IF chain = << >> THEN 1 ELSE chain[Len(chain)].ledger
Count(t, n) == Cardinality({i \in DOMAIN chain : chain[i].topic = t /\ chain[i].number = n})
Standing(n) == Count("approved", n) - Count("revoked", n)

StatusOf(n) ==
  IF Count("executed", n) > 0 THEN "executed"
  ELSE IF Standing(n) >= Majority THEN "ready" ELSE "pending"

\* One transaction of ledger l; a proposal's effects are emitted before its end.
Emit(l, topics, n) ==
  LET tx == IF chain = << >> THEN 1 ELSE chain[Len(chain)].tx + 1 IN
  /\ Len(chain) + Len(topics) <= MaxEvents
  /\ chain' = chain \o [k \in 1..Len(topics) |->
                          [topic |-> topics[k], number |-> n, ledger |-> l, tx |-> tx]]
  /\ UNCHANGED <<status, asOf, start, answer>>

Vote(l, n) ==
  /\ StatusOf(n) # "executed"
  /\ \/ Emit(l, <<"approved">>, n)
     \/ Standing(n) > 0 /\ Emit(l, <<"revoked">>, n)
Execute(l, n) ==
  /\ StatusOf(n) = "ready"
  /\ \E effect \in {<< >>, <<"c_wgt">>, <<"r_crt">>} : Emit(l, effect \o <<"executed">>, n)
ClaimStream(l, n) == Emit(l, <<"str_clm">>, n)

-------------------------------------------------------------------------------
(***************************************************************************)
(* What the console makes of an answer.                                    *)
(***************************************************************************)
(* The oldest events of the range, up to the page's size.                  *)
Page(from, upto) ==
  LET range == {i \in 1..upto : chain[i].ledger >= from} IN
  {i \in range : Cardinality({j \in range : j < i}) < PageSize}

(* The answers of the node carry no index, so the key of an event is its   *)
(* transaction's.                                                          *)
KeyOfLedger(i) == chain[i].ledger
canonicalEventKey(i) == <<chain[i].ledger, chain[i].tx>>

dedupeContractEvents(rows) ==
  {i \in rows : \A j \in rows : canonicalEventKey(j) = canonicalEventKey(i) => i <= j}

(* Of the topics the contract uses, those the console knows; a schedule's  *)
(* creation, payments, pauses and cancellation are not among them.         *)
resolveEventType(topic) ==
  IF topic = "c_wgt" THEN "owner_weight_changed"
  ELSE IF topic = "str_clm" THEN "recurring_stream_claimed"
  ELSE IF topic \in {"approved", "revoked", "executed"} THEN topic ELSE None

IsWeightChange(i) == resolveEventType(chain[i].topic) = "owner_weight_changed"

(* A change of weight belongs to every timeline; the other events to the   *)
(* proposal of their number, even where that is a schedule's.              *)
getProposalEvents(page) ==
  {i \in dedupeContractEvents(page) :
     /\ resolveEventType(chain[i].topic) # None
     /\ chain[i].number = Watched \/ IsWeightChange(i)}

getHistoricalWeightChangeEvents(page) == {i \in page : IsWeightChange(i)}

(* A change that is not in the proposal's events yet is added, one for     *)
(* each ledger.                                                            *)
Merged(mine, changes) ==
  mine \cup {i \in changes :
               \A j \in changes : chain[j].ledger = chain[i].ledger =>
                 i <= j /\ ~(\E k \in mine : IsWeightChange(k) /\ chain[k].ledger = chain[i].ledger)}

(* The feed of the dashboard and the notices: newest ledger first, within  *)
(* a ledger in the order of the answer.                                    *)
FeedBefore(i, j) ==
  chain[i].ledger > chain[j].ledger \/ (chain[i].ledger = chain[j].ledger /\ i < j)
getOwnerWeightChangeEvents(page) ==
  LET changes == getHistoricalWeightChangeEvents(page) IN
  {i \in changes : Cardinality({j \in changes : FeedBefore(j, i)}) < FeedSize}

-------------------------------------------------------------------------------
NotAsked == [q \in Feeds |-> 0]
Waiting  == [q \in Feeds |-> None]

TimelineInit ==
  /\ chain = Beginning
  /\ status = "pending"
  /\ asOf = Len(chain)
  /\ start = NotAsked
  /\ answer = Waiting

(* Each question first asks how far the chain is; without an answer it     *)
(* asks for everything.                                                    *)
FindStart(q) ==
  /\ start[q] = 0
  /\ \E from \in {1, IF Newest > Reach THEN Newest - Reach ELSE 1} :
       start' = [start EXCEPT ![q] = from]
  /\ UNCHANGED <<chain, status, asOf, answer>>

(* A question that fails counts as an empty answer.                        *)
AnswerFeed(q) ==
  LET page == Page(start[q], Len(chain))
      rows == IF q = "proposal" THEN getProposalEvents(page)
              ELSE getHistoricalWeightChangeEvents(page)
  IN
  /\ start[q] > 0 /\ answer[q] = None
  /\ \E a \in {[upto |-> Len(chain), rows |-> rows], [upto |-> 0, rows |-> {}]} :
       answer' = [answer EXCEPT ![q] = a]
  /\ UNCHANGED <<chain, status, asOf, start>>

\* The page shows it once both questions are answered.
timeline ==
  IF \A q \in Feeds : answer[q] # None
    THEN Merged(answer["proposal"].rows, answer["weights"].rows) ELSE None

(* A load that changes the proposal's status starts the questions anew;    *)
(* answers to earlier ones are ignored.                                    *)
GiveStatus ==
  /\ status # StatusOf(Watched)
  /\ status' = StatusOf(Watched)
  /\ asOf' = Len(chain)
  /\ start' = NotAsked
  /\ answer' = Waiting
  /\ UNCHANGED chain

TimelineNext ==
  \/ \E l \in {Newest, Newest + 1} :
       (\E n \in Numbers : Vote(l, n) \/ Execute(l, n)) \/ ClaimStream(l, Watched)
  \/ \E q \in Feeds : FindStart(q) \/ AnswerFeed(q)
  \/ GiveStatus

TimelineSpec == TimelineInit /\ [][TimelineNext]_timelineVars

-------------------------------------------------------------------------------
Alone(i) == \A j \in DOMAIN chain : chain[j].tx = chain[i].tx => j = i
About(i) == chain[i].number = Watched /\ chain[i].topic \in {"approved", "revoked", "executed"}

(* As long as the node's page holds all of the range, the timeline shows   *)
(* every vote on its proposal, and its execution unless the transaction    *)
(* emitted something before it, up to the moment of the status above it.   *)
NothingOfItMissing ==
  timeline # None /\ answer["proposal"].upto \in 1..PageSize =>
    \A i \in 1..asOf :
      About(i) /\ Alone(i) /\ chain[i].ledger >= start["proposal"] => i \in timeline

(* It shows nothing of another proposal; of a weight change, the only      *)
(* thing that belongs to all of them, it never knows less than the ledger. *)
NothingForeignShown ==
  timeline # None =>
    /\ \A i \in timeline : IsWeightChange(i) \/ About(i)
                           \/ (chain[i].topic = "str_clm" /\ chain[i].number = Watched)
    /\ \A i \in answer["weights"].rows :
         \E j \in timeline : IsWeightChange(j) /\ chain[j].ledger = chain[i].ledger

(* The feed leaves a change out only for others at least as new.           *)
FeedNewest ==
  LET feed == getOwnerWeightChangeEvents(Page(1, Len(chain))) IN
  \A i \in getHistoricalWeightChangeEvents(Page(1, Len(chain))) \ feed :
    /\ Cardinality(feed) = FeedSize
    /\ \A j \in feed : chain[j].ledger >= chain[i].ledger

(* What the timeline and the feed show of the contract's history           *)
(* (ProposalDetailPage.tsx:86-155, contract.ts:860-1263, 1386-1485).       *)
TimelineSound == NothingOfItMissing /\ NothingForeignShown /\ FeedNewest
=============================================================================
