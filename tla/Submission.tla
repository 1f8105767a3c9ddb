-------------------------------- MODULE Submission --------------------------------
(* A call of the contract from a click to its outcome, with the node and the      *)
(* wallet around it: the console's submitTransaction, withSubmissionRetry and     *)
(* simulateView (frontend/src/lib/submit.ts, contract.ts), its co-signing helpers *)
(* and the SDK's executeTransaction and simulateView (packages/sdk/src/client.ts).*)
EXTENDS Naturals, FiniteSets, TLC, SdkClient, ConsoleCalls

CONSTANTS Clicks,        \* what the users of one account do, one call each
          Deployments,   \* the settings explored, by name
          TxLifetime,    \* setTimeout(30), in polling periods of 2 s
          PollFor,       \* the 30 s a submission waits for its transaction
          CosignPollFor, \* the 60 s the co-signing helper waits
          MaxAttempts,   \* withSubmissionRetry
          MaxTime,       \* bound: the last instant of a click
          MaxFaults,     \* bound: requests that fail
          Nothing        \* no call, transaction or outcome yet

ASSUME SubmissionAssumption ==
  /\ TxLifetime \in Nat /\ PollFor \in Nat /\ CosignPollFor \in Nat
  /\ MaxAttempts \in Nat \ {0} /\ MaxTime \in Nat /\ MaxFaults \in Nat
  /\ IsFiniteSet(Clicks) /\ Nothing \notin Clicks /\ Nothing # "success"

\* submit.ts polls for the 30 s that it gives a transaction to live.
ASSUME PollingAssumption == TxLifetime <= PollFor

VARIABLES
  conf,      \* the name of this behaviour's settings
  op,        \* the asynchronous call of each click
  flight,    \* inFlightSubmissions: the click that executes each call
  pool,      \* transactions the node has queued
  landed,    \* transactions in ledgers, with their result
  now, faults

vars == <<conf, op, flight, pool, landed, now, faults>>

(* Every method of the two clients; the co-signing helper executes what another    *)
(* screen has built.                                                              *)
Tables == [sdk     |-> SdkTables, console |-> ConsoleTables,
           cosign  |-> {[execute |-> ProposalSends.executeProposal]}]
Calls  == UNION {UNION {{<<client, name>>: name \in DOMAIN t}: t \in Tables[client]}: client \in DOMAIN Tables}
Method == [k \in Calls |-> LET t == CHOOSE t \in Tables[k[1]]: k[2] \in DOMAIN t
                           IN  [client |-> k[1]] @@ t[k[2]]]
Fits(m) == HostAccepts(m.fn, m.kind, m.sends)
Fitting == {k \in Calls: Fits(Method[k])}

Settings == Deployments[conf]
Of(c)    == Method[op[c].call]

(* The contract refuses a second approval of one proposal, but not a second        *)
(* proposal like the first.                                                       *)
OnceOnly == {"approve", "execute", "revoke"}
ContractAccepts(k) ==
  k \in Fitting
  /\ (Method[k].fn \in OnceOnly => ~\E tx \in landed: Method[tx.call].fn = Method[k].fn /\ tx.ok)

Resting == [at |-> "idle", call |-> Nothing, flaws |-> {}, attempt |-> 0, tx |-> Nothing,
            pollAt |-> 0, until |-> 0, asked |-> FALSE, outcome |-> Nothing]

(* Whoever executes a call: the submission behind its key, or an SDK, co-signing   *)
(* or read call on its own.                                                       *)
Executing(c) == op[c].at \in {"account", "simulate", "share", "sign", "send", "poll"}
Settled(c)   == op[c].at = "settled"

(* Account sequence numbers: one transaction of the account in each.               *)
Sequence == Cardinality(landed)

NoFault       == UNCHANGED faults
Fault         == Settings.fail /\ faults < MaxFaults /\ faults' = faults + 1

-----------------------------------------------------------------------------
(* Errors. what: where the error comes from; network: does its text look like a    *)
(* network failure (isNetworkSubmissionError)?                                    *)

Error(what, network) == [what |-> what, network |-> network]

MapSubmissionError(e) ==
  CASE e.what = "rejected"             -> "rejected in the wallet"
    [] e.what = "contract"             -> "the contract's reason"
    [] e.what \notin {"rejected", "contract"} /\ e.network -> "network"
    [] e.what = "onchain" /\ ~e.network -> "failed on-chain"
    [] OTHER                           -> "something went wrong"

(* The SDK: a contract error keeps its code, any other failure is an RPC error.    *)
ParseContractError(e) == IF e.what = "contract" THEN "the contract's reason" ELSE "rpc error"

(* The console's writes go through submitTransaction and withSubmissionRetry. Their *)
(* key is the call with its arguments: getSubmissionKey.                          *)
Guarded(k) == Method[k].client = "console" /\ Method[k].kind = "write"

(* After the last attempt, or an error that is not the network's, the operation    *)
(* fails with a message; otherwise it waits and is run again.                      *)
AfterError(o, e) ==
  IF Guarded(o.call) /\ e.network /\ o.attempt < MaxAttempts
  THEN [o EXCEPT !.at = "backoff"]
  ELSE [o EXCEPT !.at = "settled",
          !.outcome = CASE Method[o.call].fallback # "throws" -> "default"
                        [] Guarded(o.call)               -> MapSubmissionError(e)
                        [] Method[o.call].client = "sdk" -> ParseContractError(e)
                        [] OTHER                         -> "an error"]

\* Mutant of Sharing: only the click that executes the call is told its outcome.
SharingAlone(c) == {c}

(* The execution of c ends: its key is free again, and everyone who joined it gets *)
(* the same result.                                                               *)
Sharing(c)   == {c} \cup {d \in Clicks: op[d].at = "join" /\ op[d].call = op[c].call
                                          /\ flight[op[d].call] = c}
Leave(c)     == flight' = [k \in DOMAIN flight |-> IF flight[k] = c THEN Nothing ELSE flight[k]]
Fail(c, e)   == /\ op' = [d \in Clicks |-> IF d \in Sharing(c) THEN AfterError(op[d], e) ELSE op[d]]
                /\ Leave(c)
Succeed(c, result) ==
  /\ op' = [d \in Clicks |-> IF d \in Sharing(c)
                             THEN [op[d] EXCEPT !.at = "settled", !.outcome = result] ELSE op[d]]
  /\ Leave(c)

Go(c, changed) == op' = [op EXCEPT ![c] = changed] /\ UNCHANGED flight

-----------------------------------------------------------------------------
(* The steps of a call.                                                          *)

\* Mutant of SubmitTransaction: the submissions in flight are not looked up.
SubmitUnguarded(c, o) ==
  IF ~Guarded(o.call)
  THEN Go(c, [o EXCEPT !.at = "account", !.attempt = 1])
  ELSE /\ op' = [op EXCEPT ![c] = [o EXCEPT !.at = "account", !.attempt = @ + 1, !.asked = TRUE]]
       /\ flight' = [flight EXCEPT ![o.call] = c]

(* submitTransaction: a call like one in flight waits for that one; otherwise it   *)
(* is in flight before anything is awaited.                                       *)
SubmitTransaction(c, o) ==
  IF ~Guarded(o.call)
  THEN Go(c, [o EXCEPT !.at = "account", !.attempt = 1])
  ELSE IF flight[o.call] # Nothing
  THEN Go(c, [o EXCEPT !.at = "join", !.attempt = @ + 1])
  ELSE /\ op' = [op EXCEPT ![c] = [o EXCEPT !.at = "account", !.attempt = @ + 1, !.asked = TRUE]]
       /\ flight' = [flight EXCEPT ![o.call] = c]

Click(c) ==
  /\ op[c].at = "idle" /\ now <= MaxTime /\ c \in Settings.clicks
  /\ \E k \in Settings.calls: \E flaws \in {{}} \cup
            (IF Settings.flawed /\ k[1] = "sdk" THEN {{f}: f \in FlawsOf(Method[k])} ELSE {}):
       LET o == [Resting EXCEPT !.call = k, !.flaws = flaws]
       IN  IF Refuses(Method[k], flaws)
           THEN Go(c, [o EXCEPT !.at = "settled", !.outcome = "invalid"])
           ELSE SubmitTransaction(c, o)
  /\ NoFault /\ UNCHANGED <<conf, pool, landed, now>>

Backoff(c) == /\ op[c].at = "backoff" /\ SubmitTransaction(c, op[c])
              /\ NoFault /\ UNCHANGED <<conf, pool, landed, now>>

(* getAccount, and the transaction built from it. An SDK read does without the     *)
(* account.                                                                       *)
Build(c) == [click |-> c, call |-> op[c].call, seq |-> Sequence + 1, maxTime |-> now + TxLifetime]
GetAccount(c) ==
  /\ op[c].at = "account"
  /\ \/ /\ Go(c, [op[c] EXCEPT !.at = "simulate", !.tx = Build(c)]) /\ NoFault
     \/ /\ Fault
        /\ IF Of(c).client = "sdk" /\ Of(c).kind = "read"
           THEN Go(c, [op[c] EXCEPT !.at = "simulate", !.tx = Build(c)])
           ELSE Fail(c, Error("network", TRUE))
  /\ UNCHANGED <<conf, pool, landed, now>>

(* What a read makes of the answer.                                               *)
Decoded(m) == IF IF m.client = "sdk" THEN Understands(m.decoder, Answers(m.fn))
                                     ELSE MapsAnswer(m.decoder, Answers(m.fn))
              THEN "answer" ELSE "misread"

SimulateTransaction(c) ==
  /\ op[c].at = "simulate"
  /\ LET m == Of(c)
     IN \/ /\ Fits(m) /\ op[c].flaws = {} /\ NoFault
           /\ CASE m.kind = "read"     -> Succeed(c, Decoded(m))
                [] m.kind = "estimate" -> Succeed(c, "fee")
                [] OTHER -> /\ ContractAccepts(op[c].call)
                            /\ Go(c, [op[c] EXCEPT !.at = IF m.client = "cosign" THEN "share" ELSE "sign"])
        \/ /\ ~Fits(m) /\ Fail(c, Error("host", FALSE)) /\ NoFault
        \/ /\ Fits(m) /\ (op[c].flaws # {} \/ (m.kind = "write" /\ ~ContractAccepts(op[c].call)))
           /\ Fail(c, Error("contract", FALSE)) /\ NoFault
        \/ Fault /\ Fail(c, Error("network", TRUE))
  /\ UNCHANGED <<conf, pool, landed, now>>

(* The assembled transaction waits for the other signer to take it up.             *)
SignShared(c) == /\ op[c].at = "share" /\ Go(c, [op[c] EXCEPT !.at = "sign"])
                 /\ NoFault /\ UNCHANGED <<conf, pool, landed, now>>

SignTx(c) ==
  /\ op[c].at = "sign"
  /\ \/ Go(c, [op[c] EXCEPT !.at = "send"]) /\ NoFault
     \/ Fault /\ Fail(c, Error("rejected", FALSE))
     \/ Fault /\ Fail(c, Error("wallet", TRUE))
  /\ UNCHANGED <<conf, pool, landed, now>>

(* sendTransaction. PENDING queues it; ERROR refuses it; TRY_AGAIN_LATER, which    *)
(* the code does not tell from PENDING, does not queue it. A request that fails    *)
(* may have reached the node.                                                     *)
Sendable(tx) == tx.seq = Sequence + 1 /\ now < tx.maxTime /\ ~\E q \in pool: q.seq = tx.seq

\* Mutant of PollPeriod: the submission gives up one period before its transaction expires.
PollTooShort(m) == IF m.client = "cosign" THEN CosignPollFor ELSE PollFor - 1

PollPeriod(m) == IF m.client = "cosign" THEN CosignPollFor ELSE PollFor
AfterSend(c)  == [op[c] EXCEPT !.at = "poll", !.pollAt = now + 1, !.until = now + PollPeriod(Of(c))]
Sent(c)       == IF Of(c).client = "sdk" THEN Succeed(c, "sent") ELSE Go(c, AfterSend(c))
SendTransaction(c) ==
  /\ op[c].at = "send"
  /\ \/ Sendable(op[c].tx) /\ pool' = pool \cup {op[c].tx} /\ Sent(c) /\ NoFault
     \/ ~Sendable(op[c].tx) /\ UNCHANGED pool /\ Fail(c, Error("unsent", FALSE)) /\ NoFault
     \/ Fault /\ UNCHANGED pool /\ Sent(c)
     \/ Fault /\ UNCHANGED pool /\ Fail(c, Error("network", TRUE))
     \/ /\ Settings.loseAnswers /\ Fault /\ Sendable(op[c].tx)
        /\ pool' = pool \cup {op[c].tx} /\ Fail(c, Error("network", TRUE))
  /\ UNCHANGED <<conf, landed, now>>

(* One round of polling: every period until the deadline. A failed poll is ignored *)
(* by submitTransaction and ends the co-signing helper.                            *)
KeepPolling(c) == IF now >= op[c].until THEN Fail(c, Error("unconfirmed", FALSE))
                  ELSE Go(c, [op[c] EXCEPT !.pollAt = now + 1])
PollTransaction(c) ==
  /\ op[c].at = "poll" /\ now >= op[c].pollAt
  /\ LET mine == {tx \in landed: tx.click = c /\ tx.seq = op[c].tx.seq /\ tx.maxTime = op[c].tx.maxTime}
     IN \/ \E tx \in mine: /\ NoFault
                           /\ IF tx.ok THEN Succeed(c, "success") ELSE Fail(c, Error("onchain", FALSE))
        \/ mine = {} /\ KeepPolling(c) /\ NoFault
        \/ /\ Fault /\ IF Of(c).client = "cosign" THEN Fail(c, Error("network", TRUE))
                                                       ELSE KeepPolling(c)
  /\ UNCHANGED <<conf, pool, landed, now>>

-----------------------------------------------------------------------------
(* The network: external.                                                        *)

(* A queued transaction is taken into a ledger while it is valid, or lost. Its time *)
(* bound is the builder's clock rounded down, so the last period counts as over.   *)
Landed(tx, ok) == [click |-> tx.click, call |-> tx.call, seq |-> tx.seq, maxTime |-> tx.maxTime, ok |-> ok]
CanLand(tx) == tx.seq = Sequence + 1 /\ now < tx.maxTime
Land == \E tx \in pool:
          /\ CanLand(tx) /\ pool' = pool \ {tx}
          /\ landed' = landed \cup {Landed(tx, ContractAccepts(tx.call))}
          /\ UNCHANGED <<conf, op, flight, now, faults>>
Drop == \E tx \in pool:
          /\ pool' = pool \ {tx} /\ ((~CanLand(tx) /\ NoFault) \/ Fault)
          /\ UNCHANGED <<conf, op, flight, landed, now>>

(* Time goes on for the calls that wait for it. A poll may be late: bounded by one  *)
(* period past the deadline.                                                      *)
Tick == /\ (now <= MaxTime \/ \E c \in Clicks: op[c].at = "poll")
        /\ \A c \in Clicks: op[c].at = "poll" => now <= op[c].until
        /\ now' = now + 1
        /\ UNCHANGED <<conf, op, flight, pool, landed, faults>>

-----------------------------------------------------------------------------
Init ==
  /\ conf \in DOMAIN Deployments
  /\ op = [c \in Clicks |-> Resting]
  /\ flight = [k \in {k \in Settings.calls: Guarded(k)} |-> Nothing]
  /\ pool = {} /\ landed = {} /\ now = 0 /\ faults = 0

Step(c) == Backoff(c) \/ GetAccount(c) \/ SimulateTransaction(c) \/ SignShared(c) \/ SignTx(c)
           \/ SendTransaction(c) \/ PollTransaction(c)

Next == (\E c \in Clicks: Click(c) \/ Step(c)) \/ Land \/ Drop \/ Tick

(* Requests are answered or fail, the wallet answers, timers fire and time passes. *)
Spec == /\ Init /\ [][Next]_vars
        /\ \A c \in Clicks: WF_vars(Step(c))
        /\ WF_vars(Tick)

-----------------------------------------------------------------------------
(* Properties.                                                                   *)

(* "Prevent concurrent double-submits" (lib/__tests__/rpcChaos.test.ts 48): two     *)
(* clicks never execute one call at the same time, whatever fails and is retried,  *)
(* and unless the node's answer to a submission is lost a call takes effect at most *)
(* as often as clicks have executed it.                                            *)
NoDoubleSubmit ==
  \A k \in DOMAIN flight:
    /\ Cardinality({c \in Clicks: Executing(c) /\ op[c].call = k}) <= 1
    /\ ~Settings.loseAnswers
       => Cardinality({tx \in landed: tx.call = k /\ tx.ok})
            <= Cardinality({c \in Clicks: op[c].asked /\ op[c].call = k})

(* What a click is told is true. A success stands for a transaction that took     *)
(* effect, for those who joined the submission as well (submit.ts 91-99); a console *)
(* call that has failed is over, so the user may try again: no transaction made for *)
(* it can still take effect, since its own time bound ends before the polling gives *)
(* up (submit.ts 66-73, 93-107).                                                   *)
SuccessIsReal ==
  \A c \in Clicks: op[c].outcome = "success" => \E tx \in landed: tx.ok /\ tx.call = op[c].call

ErrorMeansOver ==
  ~Settings.loseAnswers =>
  \A c \in Clicks: Settled(c) /\ op[c].outcome # "success" /\ Of(c).client = "console"
    => \A tx \in pool: tx.click = c => now >= tx.maxTime

\* Every click acts at most once and is told what came of it.
ClicksActOnce == NoDoubleSubmit /\ SuccessIsReal /\ ErrorMeansOver

(* Every click is answered, whatever fails: retries and polling end.               *)
CallsSettle == \A c \in Clicks: op[c].at # "idle" ~> Settled(c)

(* What does not fit the contract. The console calls functions the contract does   *)
(* not export, or with other arguments; the rest of its calls arrive.              *)
NotTheContracts ==
  {"getWeightCapPct", "getClaimableAmount", "getRecurringPayments", "getTotalRecurringPayments",
   "createDelegation", "createSpendingLimitProposal", "createSetGuardianProposal",
   "createUnfreezeProposal", "createRecurringPaymentProposal", "estimateCreateRecurringPaymentFee"}
OtherArguments ==
  {"getAllRoles", "hasRole", "getRoleMembers", "hasApproved", "getApprovers",
   "createAddOwnerProposal", "createModifyRecurringProposal", "disburseRecurringPayment"}

(* Answers in another form than the console takes them for: three weights as a     *)
(* record, outgoing delegations as a list, and everything that holds an enum, which *)
(* is decoded neither as a name nor as an object of one key, though a comment says  *)
(* so (contract.ts 66-68), but as an array.                                        *)
Misread ==
  {"getProposalApprovalProgress", "getDelegations", "getProposal", "getProposalsPaged",
   "getRecurringPayment", "getRecurringPaymentsPaged", "getRoles"}

(* Every other call of the console reaches the contract: voting, executing,         *)
(* transfers, and the governance the screens offer; and what it reads it            *)
(* understands but for those answers, which it always takes for something else. No  *)
(* card says what its proposal is about: all kinds appear as a transfer of 0 to     *)
(* nobody.                                                                        *)
ConsoleFits ==
  \A c \in Clicks: Settled(c) /\ Of(c).client = "console"
                     /\ op[c].call[2] \notin NotTheContracts \cup OtherArguments
    => /\ Fits(Of(c))
       /\ op[c].outcome = "misread" => op[c].call[2] \in Misread
       /\ op[c].outcome = "answer"  => op[c].call[2] \notin Misread
       /\ Of(c).decoder \in {"proposal", "proposals"}
            => \A kind \in ProposalKinds, details \in {mapKindDetails, SubmitKindDetails}:
                 ~ShowsKind(details, kind)
=============================================================================
