----------------------------- MODULE ConsoleProofs -----------------------------
(***************************************************************************)
(* What the console does and what it shows of the past.  A call acts once  *)
(* and its outcome is what its click is told, for any number of clicks,    *)
(* every method of the clients and every order of answers, failures and    *)
(* retries; the timeline of a proposal is sound; and the treasury reports  *)
(* that stand next to each other agree.                                    *)
(***************************************************************************)
EXTENDS Submission, EventTimeline, AnalyticsScreen, SumsProofs, SequenceTheorems

-----------------------------------------------------------------------------
(* The inductive invariant *)

Fields == {"at", "call", "flaws", "attempt", "tx", "pollAt", "until", "asked", "outcome"}

Running == {"account", "simulate", "share", "sign", "send", "poll"}
Built   == {"simulate", "share", "sign", "send", "poll"}
Stages  == {"idle", "join", "backoff", "settled"} \cup Running

(* Every click is at a stage of some call; only guarded calls are joined or retried. *)
ClicksTyped ==
  /\ now \in Nat
  /\ op = [c \in Clicks |-> op[c]]
  /\ \A c \in Clicks :
       /\ DOMAIN op[c] = Fields /\ op[c].at \in Stages
       /\ op[c].at # "idle" => op[c].call \in Settings.calls
       /\ op[c].at \in {"join", "backoff"} => Guarded(op[c].call)

(* A guarded call that is executed is in flight under the click that executes it.  *)
FlightExact ==
  /\ DOMAIN flight = {k \in Settings.calls : Guarded(k)}
  /\ flight = [k \in DOMAIN flight |-> flight[k]]
  /\ \A c \in Clicks : op[c].at \in Running /\ Guarded(op[c].call)
                       => flight[op[c].call] = c /\ op[c].asked

IsTx(tx) == DOMAIN tx = {"click", "call", "seq", "maxTime"} /\ tx.maxTime \in Nat

(* A built transaction is the click's own, and the console polls for it until its   *)
(* time is over.                                                                   *)
BuiltInTime ==
  \A c \in Clicks :
    /\ op[c].at \in Built => /\ IsTx(op[c].tx) /\ op[c].tx.click = c
                             /\ op[c].tx.call = op[c].call
                             /\ op[c].tx.maxTime <= now + TxLifetime
    /\ op[c].at = "poll" /\ Of(c).client = "console"
       => op[c].until \in Nat /\ op[c].tx.maxTime <= op[c].until

\* What the node has of a click is for the call it made.
ForTheCall ==
  /\ \A tx \in pool : IsTx(tx)
  /\ \A tx \in landed : tx.ok \in BOOLEAN
  /\ \A tx \in pool \cup landed :
       tx.click \in Clicks /\ op[tx.click].at # "idle" /\ tx.call = op[tx.click].call

(* While no answer is lost, the node has at most the last transaction of a click,   *)
(* once, and the click is past sending it.                                         *)
NodeKnowsLast ==
  ~Settings.loseAnswers =>
  /\ \A tx \in pool \cup landed : /\ op[tx.click].at \in {"poll", "settled"}
                                  /\ Guarded(tx.call) => op[tx.click].asked
  /\ \A tx \in pool : tx = op[tx.click].tx
  /\ \A tx \in landed : tx = Landed(op[tx.click].tx, tx.ok)
  /\ \A tx \in pool, l \in landed : tx.click # l.click

SubmissionInv ==
  /\ ClicksTyped /\ FlightExact /\ BuiltInTime /\ ForTheCall /\ NodeKnowsLast
  /\ SuccessIsReal /\ ErrorMeansOver

-----------------------------------------------------------------------------
(* Operators *)

\* A transaction that lands keeps its fields.
LEMMA LandedFields ==
  ASSUME NEW tx, IsTx(tx), NEW b
  PROVE  LET l == Landed(tx, b)
         IN  l.click = tx.click /\ l.call = tx.call /\ l.ok = b
  BY DEF Landed

Errors == [what : {"network", "host", "contract", "rejected", "wallet", "unsent",
                   "unconfirmed", "onchain"},
           network : BOOLEAN]

(* An error ends an execution or sends it to wait for another attempt, never to a   *)
(* success; only the network's errors are retried, of guarded calls.               *)
LEMMA AfterErrorIs ==
  ASSUME NEW o, DOMAIN o = Fields, NEW e \in Errors
  PROVE  LET r == AfterError(o, e)
         IN  /\ DOMAIN r = Fields /\ r.call = o.call /\ r.tx = o.tx /\ r.asked = o.asked
             /\ \/ r.at = "backoff" /\ Guarded(o.call) /\ e.network /\ r.outcome = o.outcome
                \/ r.at = "settled" /\ r.outcome # "success"
  <1> DEFINE Told == CASE Method[o.call].fallback # "throws" -> "default"
                       [] Guarded(o.call)               -> MapSubmissionError(e)
                       [] Method[o.call].client = "sdk" -> ParseContractError(e)
                       [] OTHER                         -> "an error"
  <1>1. MapSubmissionError(e) # "success" /\ ParseContractError(e) # "success"
    <2>1. e.network \in BOOLEAN
      BY DEF Errors
    <2> QED
      BY <2>1 DEF MapSubmissionError, ParseContractError
  <1>2. Told # "success"
    BY <1>1
  <1>3. AfterError(o, e) = IF Guarded(o.call) /\ e.network /\ o.attempt < MaxAttempts
                           THEN [o EXCEPT !.at = "backoff"]
                           ELSE [o EXCEPT !.at = "settled", !.outcome = Told]
    BY DEF AfterError
  <1> HIDE DEF Told
  <1> QED
    BY <1>2, <1>3 DEF Fields

-----------------------------------------------------------------------------
(* Steps of one click *)

(* A click goes on by itself: it makes its call, joins one, executes it, or begins  *)
(* to poll for what it has sent.                                                   *)
LEMMA GoKeeps ==
  ASSUME SubmissionInv, NEW c \in Clicks, NEW r,
         DOMAIN r = Fields, r.at \in Stages \ {"idle"}, r.call \in Settings.calls,
         op[c].at # "idle" => r.call = op[c].call,
         r.at \in {"join", "backoff"} => Guarded(r.call),
         op' = [op EXCEPT ![c] = r],
         \/ /\ UNCHANGED flight
            /\ r.at \in Running /\ Guarded(r.call) => flight[r.call] = c /\ r.asked
         \/ /\ flight' = [flight EXCEPT ![r.call] = c]
            /\ flight[r.call] = Nothing /\ Guarded(r.call) /\ r.asked,
         r.at \in Built => /\ IsTx(r.tx) /\ r.tx.click = c /\ r.tx.call = r.call
                           /\ r.tx.maxTime <= now + TxLifetime,
         r.at = "poll" /\ Method[r.call].client = "console"
           => r.until \in Nat /\ r.tx.maxTime <= r.until,
         \/ r.outcome # "success"
         \/ op[c].at # "idle" /\ r.outcome = op[c].outcome,
         op[c].at # "settled",
         r.at = "settled" => op[c].at = "idle",
         op[c].at = "poll" => r.at = "poll" /\ r.tx = op[c].tx /\ r.asked = op[c].asked,
         \/ pool' = pool
         \/ /\ op[c].at = "send" /\ r.at = "poll" /\ r.tx = op[c].tx
            /\ pool' = pool \cup {r.tx},
         UNCHANGED <<conf, landed, now>>
  PROVE  SubmissionInv'
  <1> USE SubmissionAssumption
  <1>1. /\ ClicksTyped /\ FlightExact /\ BuiltInTime /\ ForTheCall /\ NodeKnowsLast
        /\ SuccessIsReal /\ ErrorMeansOver
    BY DEF SubmissionInv
  <1>2. /\ op'[c] = r
        /\ \A d \in Clicks \ {c} : op'[d] = op[d]
        /\ op' = [d \in Clicks |-> op'[d]]
        /\ Settings' = Settings
    BY <1>1 DEF ClicksTyped, Settings
  <1>3. ClicksTyped'
    BY <1>1, <1>2 DEF ClicksTyped, Guarded
  <1>4. FlightExact'
    <2>1. DOMAIN flight' = DOMAIN flight /\ flight' = [k \in DOMAIN flight' |-> flight'[k]]
      BY <1>1 DEF FlightExact
    <2>2. ASSUME NEW d \in Clicks, op'[d].at \in Running, Guarded(op'[d].call)
          PROVE  flight'[op'[d].call] = d /\ op'[d].asked
      <3>1. CASE d = c
        BY <1>1, <1>2, <2>2, <3>1 DEF FlightExact
      <3>2. CASE d # c
        <4>1. op[d].at \in Running /\ Guarded(op[d].call) /\ flight[op[d].call] = d
              /\ op[d].asked
          BY <1>1, <1>2, <2>2, <3>2 DEF FlightExact
        <4>2. op[d].call = r.call => flight[r.call] # Nothing
          BY <4>1
        <4>3. op[d].call \in DOMAIN flight /\ op'[d] = op[d]
          BY <1>1, <1>2, <3>2, <4>1 DEF ClicksTyped, FlightExact, Running
        <4> QED
          BY <4>1, <4>2, <4>3
      <3> QED
        BY <3>1, <3>2
    <2>3. DOMAIN flight' = {k \in Settings' .calls : Guarded(k)}
      BY <1>1, <1>2, <2>1 DEF FlightExact, Guarded
    <2> QED
      BY <2>1, <2>2, <2>3 DEF FlightExact, Guarded
  <1>5. BuiltInTime'
    BY <1>1, <1>2 DEF BuiltInTime, Of
  <1>6. ForTheCall'
    BY <1>1, <1>2 DEF ForTheCall, BuiltInTime, Built
  <1>7. NodeKnowsLast'
    <2> SUFFICES ASSUME ~Settings.loseAnswers PROVE NodeKnowsLast'
      BY <1>2 DEF NodeKnowsLast
    <2>1. \A tx \in pool \cup landed : tx.click = c => op[c].at = "poll"
      BY <1>1, <1>2 DEF NodeKnowsLast
    <2>2. \A tx \in pool \cup landed : /\ op'[tx.click].at = op[tx.click].at
                                       /\ op'[tx.click].tx = op[tx.click].tx
                                       /\ op'[tx.click].asked = op[tx.click].asked
      BY <1>1, <1>2, <2>1 DEF ForTheCall
    <2>3. ASSUME op[c].at = "send", r.at = "poll", r.tx = op[c].tx, pool' = pool \cup {r.tx}
          PROVE  /\ r.tx.click = c /\ r.tx.call = r.call /\ op'[c].tx = r.tx
                 /\ Guarded(r.call) => r.asked
                 /\ \A l \in landed : l.click # c
      BY <1>1, <1>2, <2>1, <2>3 DEF BuiltInTime, Built, FlightExact, Running
    <2> QED
      BY <1>1, <1>2, <2>2, <2>3 DEF NodeKnowsLast, Guarded
  <1>8. SuccessIsReal'
    BY <1>1, <1>2 DEF SuccessIsReal
  <1>9. ErrorMeansOver'
    <2> SUFFICES ASSUME ~Settings.loseAnswers, NEW d \in Clicks, op'[d].at = "settled",
                        op'[d].outcome # "success", Method[op'[d].call].client = "console",
                        NEW tx \in pool', tx.click = d
                 PROVE  now >= tx.maxTime
      BY <1>2 DEF ErrorMeansOver, Settled, Of
    <2>1. tx \in pool /\ (d = c => op[c].at = "idle")
      BY <1>1, <1>2 DEF BuiltInTime, Built
    <2>2. d # c
      BY <1>1, <2>1 DEF ForTheCall
    <2> QED
      BY <1>1, <1>2, <2>1, <2>2 DEF ErrorMeansOver, Settled, Of
  <1> QED
    BY <1>3, <1>4, <1>5, <1>6, <1>7, <1>8, <1>9 DEF SubmissionInv

-----------------------------------------------------------------------------
(* The end of an execution *)

\* What the end of c's execution does to a click that shares it.
Ended(d) ==
  /\ DOMAIN op'[d] = Fields /\ op'[d].call = op[d].call /\ op'[d].tx = op[d].tx
  /\ op'[d].asked = op[d].asked
  /\ \/ op'[d].at = "settled"
     \/ op'[d].at = "backoff" /\ Guarded(op[d].call)

Ends(c) ==
  /\ op' = [d \in Clicks |-> op'[d]]
  /\ \A d \in Clicks \ Sharing(c) : op'[d] = op[d]
  /\ \A d \in Sharing(c) : Ended(d)
  /\ Leave(c)

LEMMA FailEnds ==
  ASSUME ClicksTyped, NEW c \in Clicks, NEW e \in Errors, Fail(c, e)
  PROVE  /\ Ends(c)
         /\ \A d \in Sharing(c) : op'[d].at = "settled" => op'[d].outcome # "success"
         /\ \A d \in Sharing(c) : op'[d].at = "backoff" => op'[d].outcome = op[d].outcome
         /\ ~e.network \/ ~Guarded(op[c].call) => op'[c].at = "settled"
  <1>1. /\ op' = [d \in Clicks |-> IF d \in Sharing(c) THEN AfterError(op[d], e) ELSE op[d]]
        /\ Leave(c)
    BY DEF Fail
  <1>2. Sharing(c) \subseteq Clicks /\ c \in Sharing(c)
    BY DEF Sharing
  <1>3. ASSUME NEW d \in Sharing(c)
        PROVE  /\ Ended(d)
               /\ op'[d].at = "settled" => op'[d].outcome # "success"
               /\ op'[d].at = "backoff" => /\ op'[d].outcome = op[d].outcome
                                           /\ e.network /\ Guarded(op[d].call)
    <2>1. op'[d] = AfterError(op[d], e) /\ DOMAIN op[d] = Fields
      BY <1>1, <1>2 DEF ClicksTyped
    <2>2. LET r == AfterError(op[d], e)
          IN  /\ DOMAIN r = Fields /\ r.call = op[d].call /\ r.tx = op[d].tx
              /\ r.asked = op[d].asked
              /\ \/ r.at = "backoff" /\ Guarded(op[d].call) /\ e.network
                    /\ r.outcome = op[d].outcome
                 \/ r.at = "settled" /\ r.outcome # "success"
      BY <2>1, AfterErrorIs
    <2> QED
      BY <2>1, <2>2 DEF Ended
  <1>4. \A d \in Clicks \ Sharing(c) : op'[d] = op[d]
    BY <1>1
  <1>5. op' = [d \in Clicks |-> op'[d]]
    BY <1>1
  <1>6. op'[c].at = "settled" \/ (e.network /\ Guarded(op[c].call))
    <2>1. op'[c] = AfterError(op[c], e) /\ DOMAIN op[c] = Fields
      BY <1>1, <1>2 DEF ClicksTyped
    <2>2. LET r == AfterError(op[c], e)
          IN  \/ r.at = "backoff" /\ Guarded(op[c].call) /\ e.network
              \/ r.at = "settled"
      BY <2>1, AfterErrorIs
    <2> QED
      BY <2>1, <2>2
  <1> QED
    BY <1>1, <1>3, <1>4, <1>5, <1>6 DEF Ends

LEMMA SucceedEnds ==
  ASSUME ClicksTyped, NEW c \in Clicks, NEW result, Succeed(c, result)
  PROVE  /\ Ends(c)
         /\ \A d \in Sharing(c) : op'[d].at = "settled" /\ op'[d].outcome = result
  <1>1. /\ op' = [d \in Clicks |-> IF d \in Sharing(c)
                                   THEN [op[d] EXCEPT !.at = "settled", !.outcome = result]
                                   ELSE op[d]]
        /\ Leave(c)
    BY DEF Succeed
  <1>2. Sharing(c) \subseteq Clicks
    BY DEF Sharing
  <1>3. ASSUME NEW d \in Sharing(c)
        PROVE  Ended(d) /\ op'[d].at = "settled" /\ op'[d].outcome = result
    BY <1>1, <1>2 DEF ClicksTyped, Ended, Fields
  <1>4. \A d \in Clicks \ Sharing(c) : op'[d] = op[d]
    BY <1>1
  <1>5. op' = [d \in Clicks |-> op'[d]]
    BY <1>1
  <1> QED
    BY <1>1, <1>3, <1>4, <1>5 DEF Ends

(* An execution ends. What of it the node may still take in is over by then, unless *)
(* its answer was lost.                                                            *)
LEMMA EndKeeps ==
  ASSUME SubmissionInv, NEW c \in Clicks, op[c].at \in Running, Ends(c),
         \A d \in Sharing(c) :
            \/ op'[d].outcome # "success"
            \/ op'[d].outcome = op[d].outcome
            \/ \E tx \in landed : tx.ok /\ tx.call = op[c].call,
         \/ pool' = pool
         \/ op[c].at = "send" /\ pool' = pool \cup {op[c].tx},
         ~Settings.loseAnswers =>
            /\ op[c].at = "poll" \/ pool' # pool => op'[c].at = "settled"
            /\ pool' # pool => Of(c).client # "console"
            /\ op[c].at = "poll" /\ Of(c).client = "console"
               => op'[c].outcome = "success" \/ (\A tx \in pool : tx.click = c => now >= tx.maxTime),
         UNCHANGED <<conf, landed, now>>
  PROVE  SubmissionInv'
  <1> USE SubmissionAssumption
  <1>1. /\ ClicksTyped /\ FlightExact /\ BuiltInTime /\ ForTheCall /\ NodeKnowsLast
        /\ SuccessIsReal /\ ErrorMeansOver
    BY DEF SubmissionInv
  <1>2. /\ op' = [d \in Clicks |-> op'[d]] /\ Settings' = Settings
        /\ \A d \in Clicks \ Sharing(c) : op'[d] = op[d]
        /\ \A d \in Sharing(c) : Ended(d)
        /\ \A d \in Clicks : op'[d].call = op[d].call /\ op'[d].tx = op[d].tx
                             /\ op'[d].asked = op[d].asked /\ DOMAIN op'[d] = Fields
    BY <1>1 DEF ClicksTyped, Settings, Ends, Ended
  <1>3. /\ Sharing(c) \subseteq Clicks /\ c \in Sharing(c)
        /\ \A d \in Sharing(c) \ {c} : op[d].at = "join" /\ op[d].call = op[c].call
    BY DEF Sharing
  <1>4. \A d \in Clicks : op'[d].at \in Stages /\ (op'[d].at = "idle" <=> op[d].at = "idle")
    <2>1. ASSUME NEW d \in Sharing(c) PROVE op[d].at # "idle"
      BY <1>3 DEF Running
    <2> QED
      BY <1>1, <1>2, <2>1 DEF ClicksTyped, Stages, Ended
  <1>5. ClicksTyped'
    <2>1. ASSUME NEW d \in Clicks, op'[d].at \in {"join", "backoff"} PROVE Guarded(op'[d].call)
      <3>1. op'[d].call = op[d].call
        BY <1>2
      <3>2. Guarded(op[d].call)
        BY <1>1, <1>2, <2>1 DEF ClicksTyped, Ended
      <3> QED
        BY <3>1, <3>2
    <2>2. \A d \in Clicks : op'[d].at # "idle" => op'[d].call \in Settings'.calls
      BY <1>1, <1>2, <1>4 DEF ClicksTyped
    <2> QED
      BY <1>1, <1>2, <1>4, <2>1, <2>2 DEF ClicksTyped, Guarded
  <1>6. FlightExact'
    <2>1. /\ DOMAIN flight' = DOMAIN flight /\ flight' = [k \in DOMAIN flight' |-> flight'[k]]
          /\ \A k \in DOMAIN flight : flight[k] # c => flight'[k] = flight[k]
      BY DEF Ends, Leave
    <2>2. ASSUME NEW d \in Clicks, op'[d].at \in Running, Guarded(op'[d].call)
          PROVE  flight'[op'[d].call] = d /\ op'[d].asked
      <3>1. d \notin Sharing(c)
        BY <1>2, <2>2 DEF Ended, Running
      <3>2. op'[d] = op[d] /\ d # c
        BY <1>2, <1>3, <3>1
      <3>3. flight[op[d].call] = d /\ op[d].asked /\ op[d].call \in DOMAIN flight
        BY <1>1, <2>2, <3>2 DEF FlightExact, ClicksTyped, Running
      <3> QED
        BY <2>1, <3>2, <3>3
    <2>3. DOMAIN flight' = {k \in Settings' .calls : Guarded(k)}
      BY <1>1, <1>2, <2>1 DEF FlightExact, Guarded
    <2> QED
      BY <2>1, <2>2, <2>3 DEF FlightExact, Guarded
  <1>7. BuiltInTime'
    <2>1. ASSUME NEW d \in Clicks, op'[d].at \in Built PROVE op'[d] = op[d]
      BY <1>2, <2>1 DEF Ended, Built
    <2>2. ASSUME NEW d \in Clicks, op'[d].at \in Built
          PROVE  /\ IsTx(op'[d].tx) /\ op'[d].tx.click = d /\ op'[d].tx.call = op'[d].call
                 /\ op'[d].tx.maxTime <= now + TxLifetime
      BY <1>1, <2>1, <2>2 DEF BuiltInTime
    <2>3. ASSUME NEW d \in Clicks, op'[d].at = "poll", Method[op'[d].call].client = "console"
          PROVE  op'[d].until \in Nat /\ op'[d].tx.maxTime <= op'[d].until
      BY <1>1, <2>1, <2>3 DEF BuiltInTime, Built, Of
    <2> QED
      BY <2>2, <2>3 DEF BuiltInTime, Of
  <1>8. ForTheCall'
    <2>1. op[c].at = "send" => IsTx(op[c].tx) /\ op[c].tx.click = c /\ op[c].tx.call = op[c].call
      BY <1>1 DEF BuiltInTime, Built
    <2>2. op[c].at # "idle"
      BY DEF Running
    <2> QED
      BY <1>1, <1>2, <1>4, <2>1, <2>2 DEF ForTheCall
  <1>9. NodeKnowsLast'
    <2> SUFFICES ASSUME ~Settings.loseAnswers PROVE NodeKnowsLast'
      BY <1>2 DEF NodeKnowsLast
    <2>1. ASSUME NEW tx \in pool \cup landed
          PROVE  op'[tx.click].at \in {"poll", "settled"} /\ tx.click \in Clicks
      <3>1. op[tx.click].at \in {"poll", "settled"} /\ tx.click \in Clicks
        BY <1>1 DEF NodeKnowsLast, ForTheCall
      <3>2. CASE tx.click \in Sharing(c)
        <4>1. tx.click = c /\ op[c].at = "poll"
          BY <1>3, <3>1, <3>2 DEF Running
        <4> QED
          BY <3>1, <4>1
      <3> QED
        BY <1>2, <3>1, <3>2
    <2>2. ASSUME op[c].at = "send", pool' = pool \cup {op[c].tx}, op[c].tx \notin pool
          PROVE  /\ op[c].tx.click = c /\ op[c].tx.call = op[c].call /\ op'[c].at = "settled"
                 /\ Guarded(op[c].call) => op[c].asked
                 /\ \A l \in landed : l.click # c
      <3>1. \A l \in landed : op[l.click].at \in {"poll", "settled"}
        BY <1>1 DEF NodeKnowsLast
      <3>2. \A l \in landed : l.click # c
        BY <2>2, <3>1
      <3>3. pool' # pool
        BY <2>2
      <3> QED
        BY <1>1, <2>2, <3>2, <3>3 DEF BuiltInTime, Built, FlightExact, Running
    <2>3. /\ \A tx \in pool \cup landed : /\ tx.call = op[tx.click].call
                                          /\ Guarded(tx.call) => op'[tx.click].asked
          /\ \A tx \in pool : tx = op'[tx.click].tx
          /\ \A tx \in landed : tx = Landed(op'[tx.click].tx, tx.ok)
          /\ \A tx \in pool, l \in landed : tx.click # l.click
      BY <1>1, <1>2, <2>1 DEF NodeKnowsLast, ForTheCall
    <2> QED
      BY <1>2, <1>3, <2>1, <2>2, <2>3 DEF NodeKnowsLast, Guarded
  <1>10. SuccessIsReal'
    <2> SUFFICES ASSUME NEW d \in Clicks, op'[d].outcome = "success"
                 PROVE  \E tx \in landed : tx.ok /\ tx.call = op[d].call
      BY <1>2 DEF SuccessIsReal
    <2>1. op[d].call = op[c].call \/ op'[d] = op[d]
      BY <1>2, <1>3
    <2> QED
      BY <1>1, <1>2, <1>3, <2>1 DEF SuccessIsReal
  <1>11. ErrorMeansOver'
    <2> SUFFICES ASSUME ~Settings.loseAnswers, NEW d \in Clicks, op'[d].at = "settled",
                        op'[d].outcome # "success", Method[op'[d].call].client = "console",
                        NEW tx \in pool', tx.click = d
                 PROVE  now >= tx.maxTime
      BY <1>2 DEF ErrorMeansOver, Settled, Of
    <2>1. Method[op[d].call].client = "console" /\ (d = c => pool' = pool)
      BY <1>2 DEF Of
    <2>2. CASE d \notin Sharing(c)
      <3>1. op'[d] = op[d] /\ d # c
        BY <1>2, <1>3, <2>2
      <3>2. op[c].at = "send" => op[c].tx.click = c
        BY <1>1 DEF BuiltInTime, Built
      <3>3. tx \in pool
        BY <3>1, <3>2
      <3> QED
        BY <1>1, <3>1, <3>3 DEF ErrorMeansOver, Settled, Of
    <2>3. CASE d = c
      <3>1. tx \in pool
        BY <2>1, <2>3
      <3>2. op[c].at = "poll"
        BY <1>1, <2>3, <3>1 DEF NodeKnowsLast, Running
      <3> QED
        BY <2>1, <2>3, <3>1, <3>2 DEF Of
    <2>4. CASE d \in Sharing(c) \ {c}
      <3>1. op[d].at = "join" /\ d # c
        BY <1>3, <2>4
      <3>2. op[c].at = "send" => op[c].tx.click = c
        BY <1>1 DEF BuiltInTime, Built
      <3>3. tx \in pool
        BY <3>1, <3>2
      <3> QED
        BY <1>1, <3>1, <3>3 DEF NodeKnowsLast
    <2> QED
      BY <2>2, <2>3, <2>4
  <1> QED
    BY <1>5, <1>6, <1>7, <1>8, <1>9, <1>10, <1>11 DEF SubmissionInv

-----------------------------------------------------------------------------
(* Every step *)

\* A typed transaction that c builds.
LEMMA BuildIs ==
  ASSUME ClicksTyped, NEW c \in Clicks
  PROVE  /\ IsTx(Build(c)) /\ Build(c).click = c /\ Build(c).call = op[c].call
         /\ Build(c).maxTime <= now + TxLifetime
  BY SubmissionAssumption DEF ClicksTyped, Build, IsTx

\* submitTransaction, for a click whose call o is.
LEMMA SubmitKeeps ==
  ASSUME SubmissionInv, NEW c \in Clicks, NEW o,
         DOMAIN o = Fields, o.call \in Settings.calls,
         \/ op[c].at = "idle" /\ o.outcome # "success"
         \/ op[c].at = "backoff" /\ o = op[c],
         SubmitTransaction(c, o), UNCHANGED <<conf, pool, landed, now>>
  PROVE  SubmissionInv'
  <1> DEFINE alone  == [o EXCEPT !.at = "account", !.attempt = 1]
             joined == [o EXCEPT !.at = "join", !.attempt = @ + 1]
             first  == [o EXCEPT !.at = "account", !.attempt = @ + 1, !.asked = TRUE]
  <1>1. CASE ~Guarded(o.call)
    <2>1. op' = [op EXCEPT ![c] = alone] /\ UNCHANGED flight
      BY <1>1 DEF SubmitTransaction, Go
    <2>2. DOMAIN alone = Fields /\ alone.at = "account" /\ alone.call = o.call
          /\ alone.outcome = o.outcome
      BY DEF Fields
    <2> HIDE DEF alone
    <2> QED
      BY <1>1, <2>1, <2>2, GoKeeps DEF Stages, Running, Built
  <1>2. CASE Guarded(o.call) /\ flight[o.call] # Nothing
    <2>1. op' = [op EXCEPT ![c] = joined] /\ UNCHANGED flight
      BY <1>2 DEF SubmitTransaction, Go
    <2>2. DOMAIN joined = Fields /\ joined.at = "join" /\ joined.call = o.call
          /\ joined.outcome = o.outcome
      BY DEF Fields
    <2> HIDE DEF joined
    <2> QED
      BY <1>2, <2>1, <2>2, GoKeeps DEF Stages, Running, Built
  <1>3. CASE Guarded(o.call) /\ flight[o.call] = Nothing
    <2>1. op' = [op EXCEPT ![c] = first] /\ flight' = [flight EXCEPT ![o.call] = c]
      BY <1>3 DEF SubmitTransaction
    <2>2. DOMAIN first = Fields /\ first.at = "account" /\ first.call = o.call
          /\ first.outcome = o.outcome /\ first.asked
      BY DEF Fields
    <2> HIDE DEF first
    <2> QED
      BY <1>3, <2>1, <2>2, GoKeeps DEF Stages, Running, Built
  <1> QED
    BY <1>1, <1>2, <1>3

LEMMA ClickKeeps ==
  ASSUME SubmissionInv, NEW c \in Clicks, Click(c)
  PROVE  SubmissionInv'
  <1>1. PICK k, flaws, o :
          /\ k \in Settings.calls /\ o = [Resting EXCEPT !.call = k, !.flaws = flaws]
          /\ IF Refuses(Method[k], flaws)
             THEN Go(c, [o EXCEPT !.at = "settled", !.outcome = "invalid"])
             ELSE SubmitTransaction(c, o)
    BY DEF Click
  <1>2. op[c].at = "idle" /\ UNCHANGED <<conf, pool, landed, now>>
    BY DEF Click
  <1>3. k \in Settings.calls /\ DOMAIN o = Fields /\ o.call = k /\ o.outcome = Nothing
    BY <1>1 DEF Resting, Fields
  <1>4. CASE Refuses(Method[k], flaws)
    <2>1. PICK r : r = [o EXCEPT !.at = "settled", !.outcome = "invalid"]
      OBVIOUS
    <2>2. DOMAIN r = Fields /\ r.call = k /\ r.at = "settled" /\ r.outcome = "invalid"
      BY <1>3, <2>1 DEF Fields
    <2>3. op' = [op EXCEPT ![c] = r] /\ UNCHANGED flight
      BY <1>1, <1>4, <2>1 DEF Go
    <2> QED
      BY <1>2, <1>3, <2>2, <2>3, GoKeeps DEF Stages, Running, Built
  <1>5. CASE ~Refuses(Method[k], flaws)
    <2>1. SubmitTransaction(c, o)
      BY <1>1, <1>5
    <2>2. o.call \in Settings.calls /\ o.outcome # "success"
      BY <1>3, SubmissionAssumption
    <2> QED
      BY <1>2, <1>3, <2>1, <2>2, SubmitKeeps
  <1> QED
    BY <1>4, <1>5

LEMMA BackoffKeeps ==
  ASSUME SubmissionInv, NEW c \in Clicks, Backoff(c)
  PROVE  SubmissionInv'
  <1>1. op[c].at = "backoff" /\ SubmitTransaction(c, op[c])
        /\ UNCHANGED <<conf, pool, landed, now>>
    BY DEF Backoff
  <1>2. DOMAIN op[c] = Fields /\ op[c].call \in Settings.calls
    BY <1>1 DEF SubmissionInv, ClicksTyped
  <1> QED
    BY <1>1, <1>2, SubmitKeeps

(* An execution that goes on from before the sending, with the same call.          *)
LEMMA AdvanceKeeps ==
  ASSUME SubmissionInv, NEW c \in Clicks, NEW r, op[c].at \in Running \ {"poll"},
         DOMAIN r = Fields, r.at \in Built \ {"poll"}, r.call = op[c].call,
         r.asked = op[c].asked, r.outcome = op[c].outcome,
         (r.tx = op[c].tx /\ op[c].at \in Built) \/ r.tx = Build(c),
         Go(c, r), UNCHANGED <<conf, pool, landed, now>>
  PROVE  SubmissionInv'
  <1>1. /\ ClicksTyped /\ FlightExact /\ BuiltInTime
    BY DEF SubmissionInv
  <1>2. op' = [op EXCEPT ![c] = r] /\ UNCHANGED flight
    BY DEF Go
  <1>3. /\ IsTx(r.tx) /\ r.tx.click = c /\ r.tx.call = r.call
        /\ r.tx.maxTime <= now + TxLifetime
    BY <1>1, BuildIs DEF BuiltInTime
  <1>4. Guarded(r.call) => flight[r.call] = c /\ r.asked
    BY <1>1 DEF FlightExact
  <1>5. r.call \in Settings.calls /\ op[c].at # "idle" /\ op[c].at # "settled"
    BY <1>1 DEF ClicksTyped, Running
  <1>6. r.at \in Stages \ {"idle"} /\ r.at \notin {"join", "backoff", "settled", "poll"}
    BY DEF Stages, Built, Running
  <1> QED
    BY <1>2, <1>3, <1>4, <1>5, <1>6, GoKeeps

\* An execution fails.
LEMMA FailKeeps ==
  ASSUME SubmissionInv, NEW c \in Clicks, NEW e \in Errors, op[c].at \in Running, Fail(c, e),
         \/ pool' = pool
         \/ op[c].at = "send" /\ pool' = pool \cup {op[c].tx} /\ Settings.loseAnswers,
         op[c].at = "poll" =>
            /\ ~e.network \/ ~Guarded(op[c].call)
            /\ ~Settings.loseAnswers /\ Of(c).client = "console"
               => \A tx \in pool : tx.click = c => now >= tx.maxTime,
         UNCHANGED <<conf, landed, now>>
  PROVE  SubmissionInv'
  <1>1. /\ Ends(c)
        /\ \A d \in Sharing(c) : op'[d].at = "settled" => op'[d].outcome # "success"
        /\ \A d \in Sharing(c) : op'[d].at = "backoff" => op'[d].outcome = op[d].outcome
        /\ ~e.network \/ ~Guarded(op[c].call) => op'[c].at = "settled"
    BY FailEnds DEF SubmissionInv
  <1>2. \A d \in Sharing(c) : op'[d].outcome # "success" \/ op'[d].outcome = op[d].outcome
    BY <1>1 DEF Ends, Ended
  <1>3. op[c].at = "poll" => op'[c].at = "settled"
    BY <1>1
  <1> QED
    BY <1>1, <1>2, <1>3, EndKeeps

\* An execution succeeds; only one that has polled is told "success".
LEMMA SucceedKeeps ==
  ASSUME SubmissionInv, NEW c \in Clicks, NEW result, op[c].at \in Running, Succeed(c, result),
         \/ result # "success"
         \/ \E tx \in landed : tx.ok /\ tx.call = op[c].call,
         \/ pool' = pool
         \/ op[c].at = "send" /\ pool' = pool \cup {op[c].tx} /\ Of(c).client = "sdk",
         op[c].at = "poll" => result = "success",
         UNCHANGED <<conf, landed, now>>
  PROVE  SubmissionInv'
  <1>1. /\ Ends(c)
        /\ \A d \in Sharing(c) : op'[d].at = "settled" /\ op'[d].outcome = result
    BY SucceedEnds DEF SubmissionInv
  <1>2. op'[c].at = "settled" /\ op'[c].outcome = result
    BY <1>1 DEF Sharing
  <1>3. pool' # pool => Of(c).client # "console"
    OBVIOUS
  <1>4. \A d \in Sharing(c) :
            \/ op'[d].outcome # "success"
            \/ op'[d].outcome = op[d].outcome
            \/ \E tx \in landed : tx.ok /\ tx.call = op[c].call
    BY <1>1
  <1>5. \/ pool' = pool
        \/ op[c].at = "send" /\ pool' = pool \cup {op[c].tx}
    OBVIOUS
  <1>6. /\ op[c].at = "poll" \/ pool' # pool => op'[c].at = "settled"
        /\ op[c].at = "poll" /\ Of(c).client = "console"
           => op'[c].outcome = "success" \/ (\A tx \in pool : tx.click = c => now >= tx.maxTime)
    BY <1>2
  <1> QED
    BY <1>1, <1>3, <1>4, <1>5, <1>6, EndKeeps

LEMMA GetAccountKeeps ==
  ASSUME SubmissionInv, NEW c \in Clicks, GetAccount(c)
  PROVE  SubmissionInv'
  <1>1. op[c].at = "account" /\ UNCHANGED <<conf, pool, landed, now>>
    BY DEF GetAccount
  <1>2. PICK r : r = [op[c] EXCEPT !.at = "simulate", !.tx = Build(c)]
    OBVIOUS
  <1>3. Go(c, r) \/ Fail(c, Error("network", TRUE))
    BY <1>2 DEF GetAccount
  <1>4. CASE Go(c, r)
    <2>1. /\ DOMAIN r = Fields /\ r.at = "simulate" /\ r.call = op[c].call
          /\ r.asked = op[c].asked /\ r.outcome = op[c].outcome /\ r.tx = Build(c)
      BY <1>2 DEF SubmissionInv, ClicksTyped, Fields
    <2> QED
      BY <1>1, <1>4, <2>1, AdvanceKeeps DEF Running, Built
  <1>5. CASE Fail(c, Error("network", TRUE))
    <2>1. Error("network", TRUE) \in Errors
      BY DEF Error, Errors
    <2> QED
      BY <1>1, <1>5, <2>1, FailKeeps DEF Running
  <1> QED
    BY <1>3, <1>4, <1>5

LEMMA SimulateKeeps ==
  ASSUME SubmissionInv, NEW c \in Clicks, SimulateTransaction(c)
  PROVE  SubmissionInv'
  <1>1. op[c].at = "simulate" /\ UNCHANGED <<conf, pool, landed, now>>
    BY DEF SimulateTransaction
  <1>2. PICK r : r = [op[c] EXCEPT !.at = IF Of(c).client = "cosign" THEN "share" ELSE "sign"]
    OBVIOUS
  <1>3. \/ \E result \in {"answer", "misread", "fee"} : Succeed(c, result)
        \/ Go(c, r)
        \/ \E e \in Errors : Fail(c, e)
    <2>1. \A network \in BOOLEAN : \A what \in {"host", "contract", "network"} :
             Error(what, network) \in Errors
      BY DEF Error, Errors
    <2>2. Decoded(Of(c)) \in {"answer", "misread", "fee"}
      BY DEF Decoded
    <2>3. CASE /\ Fits(Of(c)) /\ op[c].flaws = {} /\ NoFault
               /\ CASE Of(c).kind = "read"     -> Succeed(c, Decoded(Of(c)))
                    [] Of(c).kind = "estimate" -> Succeed(c, "fee")
                    [] OTHER -> ContractAccepts(op[c].call) /\ Go(c, r)
      BY <2>2, <2>3
    <2>4. CASE Fail(c, Error("host", FALSE)) \/ Fail(c, Error("contract", FALSE))
               \/ Fail(c, Error("network", TRUE))
      BY <2>1, <2>4
    <2> QED
      BY <1>2, <2>3, <2>4 DEF SimulateTransaction
  <1>4. CASE Go(c, r)
    <2>1. /\ DOMAIN r = Fields /\ r.at \in {"share", "sign"} /\ r.call = op[c].call
          /\ r.asked = op[c].asked /\ r.outcome = op[c].outcome /\ r.tx = op[c].tx
      BY <1>2 DEF SubmissionInv, ClicksTyped, Fields
    <2> QED
      BY <1>1, <1>4, <2>1, AdvanceKeeps DEF Running, Built
  <1>5. CASE \E result \in {"answer", "misread", "fee"} : Succeed(c, result)
    BY <1>1, <1>5, SucceedKeeps DEF Running
  <1>6. CASE \E e \in Errors : Fail(c, e)
    BY <1>1, <1>6, FailKeeps DEF Running
  <1> QED
    BY <1>3, <1>4, <1>5, <1>6

LEMMA SignKeeps ==
  ASSUME SubmissionInv, NEW c \in Clicks, SignShared(c) \/ SignTx(c)
  PROVE  SubmissionInv'
  <1>1. op[c].at \in {"share", "sign"} /\ UNCHANGED <<conf, pool, landed, now>>
    BY DEF SignShared, SignTx
  <1>2. ASSUME NEW at \in {"sign", "send"}, Go(c, [op[c] EXCEPT !.at = at]) PROVE SubmissionInv'
    <2>1. PICK r : r = [op[c] EXCEPT !.at = at]
      OBVIOUS
    <2>2. /\ DOMAIN r = Fields /\ r.at = at /\ r.call = op[c].call
          /\ r.asked = op[c].asked /\ r.outcome = op[c].outcome /\ r.tx = op[c].tx
      BY <2>1 DEF SubmissionInv, ClicksTyped, Fields
    <2> QED
      BY <1>1, <1>2, <2>1, <2>2, AdvanceKeeps DEF Running, Built
  <1>3. ASSUME NEW e \in Errors, Fail(c, e) PROVE SubmissionInv'
    BY <1>1, <1>3, FailKeeps DEF Running
  <1>4. Error("rejected", FALSE) \in Errors /\ Error("wallet", TRUE) \in Errors
    BY DEF Error, Errors
  <1> QED
    BY <1>2, <1>3, <1>4 DEF SignShared, SignTx

LEMMA SendKeeps ==
  ASSUME SubmissionInv, NEW c \in Clicks, SendTransaction(c)
  PROVE  SubmissionInv'
  <1>1. op[c].at = "send" /\ UNCHANGED <<conf, landed, now>>
    BY DEF SendTransaction
  <1>2. \/ pool' = pool
        \/ pool' = pool \cup {op[c].tx}
    BY DEF SendTransaction
  <1>3. ASSUME Sent(c) PROVE SubmissionInv'
    <2>1. CASE Of(c).client = "sdk"
      <3>1. Succeed(c, "sent")
        BY <1>3, <2>1 DEF Sent
      <3> QED
        BY <1>1, <1>2, <2>1, <3>1, SucceedKeeps DEF Running
    <2>2. CASE Of(c).client # "sdk"
      <3>1. PICK r : r = AfterSend(c)
        OBVIOUS
      <3>2. op' = [op EXCEPT ![c] = r] /\ UNCHANGED flight
        BY <1>3, <2>2, <3>1 DEF Sent, Go
      <3>3. ClicksTyped /\ BuiltInTime /\ FlightExact
        BY DEF SubmissionInv
      <3>4. /\ DOMAIN r = Fields /\ r.at = "poll" /\ r.call = op[c].call
            /\ r.asked = op[c].asked /\ r.outcome = op[c].outcome /\ r.tx = op[c].tx
            /\ r.until = now + PollPeriod(Of(c))
        BY <3>1, <3>3 DEF AfterSend, ClicksTyped, Fields
      <3>5. /\ IsTx(r.tx) /\ r.tx.click = c /\ r.tx.call = r.call
            /\ r.tx.maxTime <= now + TxLifetime
        BY <1>1, <3>3, <3>4 DEF BuiltInTime, Built
      <3>6. Of(c).client = "console" => r.until \in Nat /\ r.tx.maxTime <= r.until
        BY <3>3, <3>4, <3>5, SubmissionAssumption, PollingAssumption
           DEF PollPeriod, ClicksTyped, IsTx
      <3>7. Of(c) = Method[r.call] /\ r.call \in Settings.calls
        BY <1>1, <3>3, <3>4 DEF Of, ClicksTyped
      <3>8. Guarded(r.call) => flight[r.call] = c /\ r.asked
        BY <1>1, <3>3, <3>4 DEF FlightExact, Running
      <3> QED
        BY <1>1, <1>2, <3>2, <3>4, <3>5, <3>6, <3>7, <3>8, GoKeeps DEF Stages, Running, Built
    <2> QED
      BY <2>1, <2>2
  <1>4. ASSUME NEW e \in Errors, Fail(c, e),
               \/ pool' = pool
               \/ pool' = pool \cup {op[c].tx} /\ Settings.loseAnswers
        PROVE  SubmissionInv'
    BY <1>1, <1>4, FailKeeps DEF Running
  <1>5. Error("unsent", FALSE) \in Errors /\ Error("network", TRUE) \in Errors
    BY DEF Error, Errors
  <1> QED
    BY <1>3, <1>4, <1>5 DEF SendTransaction

LEMMA PollKeeps ==
  ASSUME SubmissionInv, NEW c \in Clicks, PollTransaction(c)
  PROVE  SubmissionInv'
  <1>1. op[c].at = "poll" /\ UNCHANGED <<conf, pool, landed, now>>
    BY DEF PollTransaction
  <1>2. ClicksTyped /\ FlightExact /\ BuiltInTime /\ ForTheCall /\ NodeKnowsLast
    BY DEF SubmissionInv
  <1>3. ASSUME KeepPolling(c) PROVE SubmissionInv'
    <2>1. CASE now >= op[c].until
      <3>1. Fail(c, Error("unconfirmed", FALSE))
        BY <1>3, <2>1 DEF KeepPolling
      <3>2. Error("unconfirmed", FALSE) \in Errors /\ ~Error("unconfirmed", FALSE).network
        BY DEF Error, Errors
      <3>3. ASSUME ~Settings.loseAnswers, Of(c).client = "console", NEW tx \in pool, tx.click = c
            PROVE  now >= tx.maxTime
        <4>1. tx = op[c].tx
          BY <1>2, <3>3 DEF NodeKnowsLast
        <4>2. op[c].until \in Nat /\ tx.maxTime <= op[c].until /\ tx.maxTime \in Nat /\ now \in Nat
          BY <1>1, <1>2, <3>3, <4>1 DEF BuiltInTime, Built, IsTx, ClicksTyped
        <4> QED
          BY <2>1, <4>2
      <3> QED
        BY <1>1, <3>1, <3>2, <3>3, FailKeeps DEF Running
    <2>2. CASE ~(now >= op[c].until)
      <3>1. PICK r : r = [op[c] EXCEPT !.pollAt = now + 1]
        OBVIOUS
      <3>2. op' = [op EXCEPT ![c] = r] /\ UNCHANGED flight
        BY <1>3, <2>2, <3>1 DEF KeepPolling, Go
      <3>3. /\ DOMAIN r = Fields /\ r.at = "poll" /\ r.call = op[c].call /\ r.until = op[c].until
            /\ r.asked = op[c].asked /\ r.outcome = op[c].outcome /\ r.tx = op[c].tx
        BY <1>1, <1>2, <3>1 DEF ClicksTyped, Fields
      <3>4. /\ IsTx(r.tx) /\ r.tx.click = c /\ r.tx.call = r.call
            /\ r.tx.maxTime <= now + TxLifetime
        BY <1>1, <1>2, <3>3 DEF BuiltInTime, Built
      <3>5. Method[r.call].client = "console" => r.until \in Nat /\ r.tx.maxTime <= r.until
        BY <1>1, <1>2, <3>3 DEF BuiltInTime, Of
      <3>6. r.call \in Settings.calls /\ (Guarded(r.call) => flight[r.call] = c /\ r.asked)
        BY <1>1, <1>2, <3>3 DEF FlightExact, ClicksTyped, Running
      <3> QED
        BY <1>1, <3>2, <3>3, <3>4, <3>5, <3>6, GoKeeps DEF Stages, Running, Built
    <2> QED
      BY <2>1, <2>2
  <1>4. ASSUME NEW tx \in landed, tx.click = c, tx.ok, Succeed(c, "success")
        PROVE  SubmissionInv'
    <2>1. tx.call = op[c].call
      BY <1>2, <1>4 DEF ForTheCall
    <2> QED
      BY <1>1, <1>4, <2>1, SucceedKeeps DEF Running
  <1>5. ASSUME NEW tx \in landed, tx.click = c, Fail(c, Error("onchain", FALSE))
        PROVE  SubmissionInv'
    <2>1. Error("onchain", FALSE) \in Errors /\ ~Error("onchain", FALSE).network
      BY DEF Error, Errors
    <2>2. ~Settings.loseAnswers => \A q \in pool : q.click # c
      BY <1>2, <1>5 DEF NodeKnowsLast
    <2> QED
      BY <1>1, <1>5, <2>1, <2>2, FailKeeps DEF Running
  <1>6. ASSUME Of(c).client = "cosign", Fail(c, Error("network", TRUE)) PROVE SubmissionInv'
    <2>1. Error("network", TRUE) \in Errors /\ ~Guarded(op[c].call)
      BY <1>6 DEF Error, Errors, Guarded, Of
    <2> QED
      BY <1>1, <1>6, <2>1, FailKeeps DEF Running
  <1> QED
    BY <1>3, <1>4, <1>5, <1>6 DEF PollTransaction

\* A queued transaction lands: it is its click's last, and leaves the queue.
LEMMA LandKeeps ==
  ASSUME SubmissionInv, Land
  PROVE  SubmissionInv'
  <1>1. /\ ClicksTyped /\ FlightExact /\ BuiltInTime /\ ForTheCall /\ NodeKnowsLast
        /\ SuccessIsReal /\ ErrorMeansOver
    BY DEF SubmissionInv
  <1>2. PICK tx \in pool : /\ pool' = pool \ {tx}
                           /\ landed' = landed \cup {Landed(tx, ContractAccepts(tx.call))}
                           /\ UNCHANGED <<conf, op, flight, now, faults>>
    BY DEF Land
  <1>3. PICK l : l = Landed(tx, ContractAccepts(tx.call))
    OBVIOUS
  <1>4. /\ l.click = tx.click /\ l.call = tx.call /\ l.ok = ContractAccepts(tx.call)
        /\ l.ok \in BOOLEAN
    <2>1. IsTx(tx)
      BY <1>1 DEF ForTheCall
    <2>2. \A b : LET x == Landed(tx, b) IN x.click = tx.click /\ x.call = tx.call /\ x.ok = b
      BY <2>1, LandedFields
    <2>3. ContractAccepts(tx.call) \in BOOLEAN
      BY DEF ContractAccepts
    <2> QED
      BY <1>3, <2>2, <2>3
  <1>5. landed' = landed \cup {l} /\ Settings' = Settings
    BY <1>2, <1>3 DEF Settings
  <1>6. ClicksTyped' /\ FlightExact' /\ BuiltInTime'
    BY <1>1, <1>2, <1>5 DEF ClicksTyped, FlightExact, BuiltInTime, Guarded, Of
  <1>7. ForTheCall'
    BY <1>1, <1>2, <1>4, <1>5 DEF ForTheCall
  <1>8. NodeKnowsLast'
    <2> SUFFICES ASSUME ~Settings.loseAnswers PROVE NodeKnowsLast'
      BY <1>5 DEF NodeKnowsLast
    <2>1. \A q \in pool \ {tx} : q.click # tx.click
      BY <1>1 DEF NodeKnowsLast
    <2>2. l = Landed(op[l.click].tx, l.ok)
      BY <1>1, <1>3, <1>4 DEF NodeKnowsLast
    <2> QED
      BY <1>1, <1>2, <1>4, <1>5, <2>1, <2>2 DEF NodeKnowsLast, Guarded
  <1>9. SuccessIsReal'
    BY <1>1, <1>2, <1>5 DEF SuccessIsReal
  <1>10. ErrorMeansOver'
    BY <1>1, <1>2, <1>5 DEF ErrorMeansOver, Settled, Of
  <1> QED
    BY <1>6, <1>7, <1>8, <1>9, <1>10 DEF SubmissionInv

LEMMA DropKeeps ==
  ASSUME SubmissionInv, Drop
  PROVE  SubmissionInv'
  <1>1. /\ ClicksTyped /\ FlightExact /\ BuiltInTime /\ ForTheCall /\ NodeKnowsLast
        /\ SuccessIsReal /\ ErrorMeansOver
    BY DEF SubmissionInv
  <1>2. /\ pool' \subseteq pool /\ UNCHANGED <<conf, op, flight, landed, now>>
        /\ Settings' = Settings
    BY DEF Drop, Settings
  <1>3. ClicksTyped' /\ FlightExact' /\ BuiltInTime'
    BY <1>1, <1>2 DEF ClicksTyped, FlightExact, BuiltInTime, Guarded, Of
  <1>4. ForTheCall' /\ NodeKnowsLast'
    BY <1>1, <1>2 DEF ForTheCall, NodeKnowsLast, Guarded
  <1>5. SuccessIsReal' /\ ErrorMeansOver'
    BY <1>1, <1>2 DEF SuccessIsReal, ErrorMeansOver, Settled, Of
  <1> QED
    BY <1>3, <1>4, <1>5 DEF SubmissionInv

\* What is over stays over.
LEMMA TickKeeps ==
  ASSUME SubmissionInv, Tick
  PROVE  SubmissionInv'
  <1> USE SubmissionAssumption
  <1>1. /\ ClicksTyped /\ FlightExact /\ BuiltInTime /\ ForTheCall /\ NodeKnowsLast
        /\ SuccessIsReal /\ ErrorMeansOver
    BY DEF SubmissionInv
  <1>2. /\ now' = now + 1 /\ UNCHANGED <<conf, op, flight, pool, landed>> /\ now \in Nat
        /\ Settings' = Settings
    BY <1>1 DEF Tick, Settings, ClicksTyped
  <1>3. ClicksTyped' /\ FlightExact'
    BY <1>1, <1>2 DEF ClicksTyped, FlightExact, Guarded
  <1>4. BuiltInTime'
    <2>1. \A c \in Clicks : op[c].at \in Built => op[c].tx.maxTime <= now' + TxLifetime
      BY <1>1, <1>2 DEF BuiltInTime, IsTx
    <2> QED
      BY <1>1, <1>2, <2>1 DEF BuiltInTime, Of
  <1>5. ForTheCall' /\ NodeKnowsLast' /\ SuccessIsReal'
    BY <1>1, <1>2 DEF ForTheCall, NodeKnowsLast, SuccessIsReal, Guarded
  <1>6. ErrorMeansOver'
    <2>1. \A tx \in pool : now >= tx.maxTime => now' >= tx.maxTime
      BY <1>1, <1>2 DEF ForTheCall, IsTx
    <2> QED
      BY <1>1, <1>2, <2>1 DEF ErrorMeansOver, Settled, Of
  <1> QED
    BY <1>3, <1>4, <1>5, <1>6 DEF SubmissionInv

LEMMA InitSubmits == Init => SubmissionInv
  <1> SUFFICES ASSUME Init PROVE SubmissionInv
    OBVIOUS
  <1>1. /\ op = [c \in Clicks |-> Resting] /\ pool = {} /\ landed = {} /\ now = 0
        /\ flight = [k \in {k \in Settings.calls : Guarded(k)} |-> Nothing]
    BY DEF Init
  <1>2. DOMAIN Resting = Fields /\ Resting.at = "idle" /\ Resting.outcome = Nothing
    BY DEF Resting, Fields
  <1>3. ClicksTyped
    BY <1>1, <1>2 DEF ClicksTyped, Stages
  <1>4. FlightExact
    BY <1>1, <1>2 DEF FlightExact, Running
  <1>5. BuiltInTime /\ ForTheCall /\ NodeKnowsLast
    BY <1>1, <1>2 DEF BuiltInTime, ForTheCall, NodeKnowsLast, Built
  <1>6. SuccessIsReal /\ ErrorMeansOver
    BY <1>1, <1>2, SubmissionAssumption DEF SuccessIsReal, ErrorMeansOver
  <1> QED
    BY <1>3, <1>4, <1>5, <1>6 DEF SubmissionInv

LEMMA NextSubmits == SubmissionInv /\ [Next]_vars => SubmissionInv'
  <1> SUFFICES ASSUME SubmissionInv, [Next]_vars PROVE SubmissionInv'
    OBVIOUS
  <1>1. CASE UNCHANGED vars
    <2>1. UNCHANGED <<conf, op, flight, pool, landed, now>> /\ Settings' = Settings
      BY <1>1 DEF vars, Settings
    <2>2. ClicksTyped' /\ FlightExact' /\ BuiltInTime'
      BY <2>1 DEF SubmissionInv, ClicksTyped, FlightExact, BuiltInTime, Guarded, Of
    <2>3. ForTheCall' /\ NodeKnowsLast'
      BY <2>1 DEF SubmissionInv, ForTheCall, NodeKnowsLast, Guarded
    <2>4. SuccessIsReal' /\ ErrorMeansOver'
      BY <2>1 DEF SubmissionInv, SuccessIsReal, ErrorMeansOver, Settled, Of
    <2> QED
      BY <2>2, <2>3, <2>4 DEF SubmissionInv
  <1>2. ASSUME NEW c \in Clicks, Click(c) \/ Step(c) PROVE SubmissionInv'
    BY <1>2, ClickKeeps, BackoffKeeps, GetAccountKeeps, SimulateKeeps, SignKeeps, SendKeeps,
       PollKeeps DEF Step
  <1>3. CASE Land \/ Drop \/ Tick
    BY <1>3, LandKeeps, DropKeeps, TickKeeps
  <1> QED
    BY <1>1, <1>2, <1>3 DEF Next

-----------------------------------------------------------------------------
(* Theorems *)

(* Clicks that execute a guarded call are the one that is in flight under its key,  *)
(* and each effect of the call is of a click of its own that has executed it.       *)
LEMMA OnceFromInv == SubmissionInv => NoDoubleSubmit
  <1> SUFFICES ASSUME SubmissionInv, NEW k \in DOMAIN flight
               PROVE  /\ Cardinality({c \in Clicks : Executing(c) /\ op[c].call = k}) <= 1
                      /\ ~Settings.loseAnswers
                         => Cardinality({tx \in landed : tx.call = k /\ tx.ok})
                              <= Cardinality({c \in Clicks : op[c].asked /\ op[c].call = k})
    BY DEF NoDoubleSubmit
  <1>1. Guarded(k)
    BY DEF SubmissionInv, FlightExact
  <1>2. Cardinality({c \in Clicks : Executing(c) /\ op[c].call = k}) <= 1
    <2> DEFINE busy == {c \in Clicks : Executing(c) /\ op[c].call = k}
               only == {flight[k]}
    <2>1. busy \in SUBSET only
      BY <1>1 DEF SubmissionInv, FlightExact, Executing, Running
    <2>2. IsFiniteSet(only) /\ Cardinality(only) = 1
      BY FS_Singleton
    <2> HIDE DEF busy, only
    <2>3. Cardinality(busy) <= 1
      BY <2>1, <2>2, FS_Subset
    <2> QED
      BY <2>3 DEF busy
  <1>3. ASSUME ~Settings.loseAnswers
        PROVE  Cardinality({tx \in landed : tx.call = k /\ tx.ok})
                 <= Cardinality({c \in Clicks : op[c].asked /\ op[c].call = k})
    <2> DEFINE effects == {tx \in landed : tx.call = k /\ tx.ok}
               clicks  == {c \in Clicks : op[c].asked /\ op[c].call = k}
               by      == [tx \in effects |-> tx.click]
    <2>1. \A tx \in effects : tx.click \in clicks
      BY <1>1, <1>3 DEF SubmissionInv, ForTheCall, NodeKnowsLast
    <2>2. \A tx \in effects : tx = Landed(op[tx.click].tx, TRUE)
      BY <1>3 DEF SubmissionInv, ForTheCall, NodeKnowsLast
    <2>3. by \in Injection(effects, clicks)
      <3>1. by \in [effects -> clicks]
        BY <2>1
      <3>2. IsInjective(by)
        <4>1. ASSUME NEW a \in effects, NEW b \in effects, a.click = b.click PROVE a = b
          BY <2>2, <4>1
        <4>2. DOMAIN by = effects /\ \A a \in effects : by[a] = a.click
          OBVIOUS
        <4> HIDE DEF effects, by
        <4> QED
          BY <4>1, <4>2 DEF IsInjective
      <3> HIDE DEF by
      <3> QED
        BY <3>1, <3>2 DEF Injection
    <2>4. IsFiniteSet(clicks)
      BY SubmissionAssumption, FS_Subset
    <2> HIDE DEF effects, clicks, by
    <2>5. Cardinality(effects) <= Cardinality(clicks)
      BY <2>3, <2>4, FS_Injection
    <2> QED
      BY <2>5 DEF effects, clicks
  <1> QED
    BY <1>2, <1>3

(* Whatever fails and is retried, no two clicks execute one call together, a call   *)
(* takes effect at most once for each click that executed it, a success told is a   *)
(* transaction that took effect, and an error told by the console means that nothing *)
(* of the click can still take effect (submitTransaction, submit.ts).               *)
THEOREM ClicksSafe == Spec => []ClicksActOnce
  <1>1. Init => SubmissionInv
    BY InitSubmits
  <1>2. SubmissionInv /\ [Next]_vars => SubmissionInv'
    BY NextSubmits
  <1>3. SubmissionInv => ClicksActOnce
    BY OnceFromInv DEF SubmissionInv, ClicksActOnce
  <1> QED
    BY <1>1, <1>2, <1>3, PTL DEF Spec

-----------------------------------------------------------------------------
(* The timeline of a proposal *)

\* The first k of an order, when there are more.
LEMMA FirstOnes ==
  ASSUME NEW S, IsFiniteSet(S), NEW before \in [S -> SUBSET S], NEW k \in Nat,
         \A x \in S : x \notin before[x],
         \A x, y \in S : x # y => x \in before[y] \/ y \in before[x],
         \A x, y \in S : x \in before[y] => before[x] \subseteq before[y],
         NEW z \in S, Cardinality(before[z]) >= k
  PROVE  Cardinality({x \in S : Cardinality(before[x]) < k}) = k
  <1> DEFINE n == Cardinality(S)
             r == [x \in S |-> Cardinality(before[x])]
             first == {x \in S : Cardinality(before[x]) < k}
             g == [x \in first |-> r[x]]
  <1>1. n \in Nat
    BY FS_CardinalityType
  <1>2. ASSUME NEW x \in S
        PROVE  IsFiniteSet(before[x]) /\ r[x] \in 0..n - 1
    <2>1. before[x] \in SUBSET S /\ before[x] # S
      OBVIOUS
    <2>2. IsFiniteSet(before[x]) /\ Cardinality(before[x]) <= n /\ Cardinality(before[x]) # n
      BY <2>1, FS_Subset
    <2>3. Cardinality(before[x]) \in Nat
      BY <2>2, FS_CardinalityType
    <2> QED
      BY <1>1, <2>2, <2>3
  <1>3. ASSUME NEW x \in S, NEW y \in S, x \in before[y]
        PROVE  r[x] # r[y]
    <2>1. before[x] \in SUBSET before[y] /\ before[x] # before[y] /\ IsFiniteSet(before[y])
      BY <1>2, <1>3
    <2>2. Cardinality(before[y]) # Cardinality(before[x])
      BY <2>1, FS_Subset
    <2> QED
      BY <2>2
  <1>4. \A x, y \in S : r[x] = r[y] => x = y
    <2>1. \A x, y \in S : x \in before[y] => r[x] # r[y]
      BY <1>3
    <2> HIDE DEF r
    <2> QED
      BY <2>1
  <1>5. r \in Injection(S, 0..n - 1)
    <2>1. r \in [S -> 0..n - 1]
      BY <1>2
    <2> HIDE DEF r, n
    <2> QED
      BY <1>4, <2>1 DEF Injection, IsInjective
  <1>6. IsFiniteSet(0..n - 1) /\ Cardinality(0..n - 1) = n
    <2>1. 0 \in Int /\ n - 1 \in Int /\ n - 1 - 0 + 1 = n /\ (0 > n - 1 => n = 0)
      BY <1>1
    <2> HIDE DEF n
    <2> QED
      BY <2>1, FS_Interval
  <1>7. r \in Surjection(S, 0..n - 1)
    BY <1>5, <1>6, FS_Injection
  <1>8. \A i \in 0..n - 1 : \E x \in S : r[x] = i
    BY <1>7 DEF Surjection
  <1>9. r[z] >= k /\ r[z] \in 0..n - 1
    BY <1>2
  <1>10. \A x \in first : x \in S /\ r[x] \in 0..k - 1
    BY <1>2
  <1>11. ASSUME NEW i \in 0..k - 1
         PROVE  \E x \in first : g[x] = i
    <2>1. i \in 0..n - 1
      BY <1>1, <1>9
    <2>2. PICK x \in S : r[x] = i
      BY <1>8, <2>1
    <2>3. x \in first
      BY <2>2
    <2> QED
      BY <2>2, <2>3
  <1> HIDE DEF r, n
  <1>12. g \in Surjection(first, 0..k - 1)
    BY <1>10, <1>11 DEF Surjection
  <1>13. g \in Injection(first, 0..k - 1)
    BY <1>4, <1>10 DEF Injection, IsInjective
  <1>14. IsFiniteSet(first)
    BY FS_Subset
  <1>15. Cardinality(0..k - 1) = k
    BY FS_Interval
  <1> HIDE DEF first, g
  <1>16. Cardinality(0..k - 1) = Cardinality(first)
    BY <1>12, <1>13, <1>14, FS_Surjection
  <1> QED
    BY <1>15, <1>16 DEF first

-----------------------------------------------------------------------------
(* The timeline *)

RowsFrom(q, page) ==
  IF q = "proposal" THEN getProposalEvents(page) ELSE getHistoricalWeightChangeEvents(page)

\* An answer is what the chain held when it was given, or it failed.
AnswerTrue(q) ==
  /\ start[q] > 0
  /\ \/ answer[q] = [upto |-> 0, rows |-> {}]
     \/ \E u \in asOf..Len(chain) :
          answer[q] = [upto |-> u, rows |-> RowsFrom(q, Page(start[q], u))]

TimelineTyped ==
  /\ chain \in Seq(Emitted)
  /\ asOf \in 0..Len(chain)
  /\ start \in [Feeds -> Nat]
  /\ DOMAIN answer = Feeds

TimelineInv == TimelineTyped /\ \A q \in Feeds : answer[q] # None => AnswerTrue(q)

\* An event of the chain.
LEMMA EventAt ==
  ASSUME chain \in Seq(Emitted)
  PROVE  /\ Len(chain) \in Nat /\ DOMAIN chain = 1..Len(chain)
         /\ \A i \in DOMAIN chain : /\ chain[i] \in Emitted
                                    /\ chain[i].ledger \in Nat /\ chain[i].tx \in Nat
  <1>1. Len(chain) \in Nat /\ DOMAIN chain = 1..Len(chain)
    BY LenProperties
  <1>2. \A i \in DOMAIN chain : chain[i] \in Emitted
    BY ElementOfSeq, <1>1
  <1> QED
    BY <1>1, <1>2 DEF Emitted

\* An answer speaks of events there were.
LEMMA PageOfChain ==
  ASSUME chain \in Seq(Emitted), NEW from \in Nat, NEW u \in 0..Len(chain)
  PROVE  /\ Page(from, u) \in SUBSET (1..u) /\ 1..u \subseteq DOMAIN chain
         /\ IsFiniteSet(Page(from, u))
         /\ \A q \in Feeds : RowsFrom(q, Page(from, u)) \in SUBSET Page(from, u)
  <1>1. Page(from, u) \in SUBSET (1..u)
    BY DEF Page
  <1>2. IsFiniteSet(1..u)
    <2>1. u \in Nat
      BY EventAt
    <2> QED
      BY ONLY <2>1, FS_Interval
  <1>3. IsFiniteSet(Page(from, u))
    <2> PICK page : page = Page(from, u)
      OBVIOUS
    <2>1. page \in SUBSET (1..u)
      BY <1>1
    <2>2. IsFiniteSet(page)
      BY ONLY <1>2, <2>1, FS_Subset
    <2> QED
      BY <2>2
  <1>4. 1..u \subseteq DOMAIN chain
    BY EventAt
  <1>5. ASSUME NEW q \in Feeds, NEW page
        PROVE  RowsFrom(q, page) \in SUBSET page
    BY DEF RowsFrom, getProposalEvents, dedupeContractEvents, getHistoricalWeightChangeEvents
  <1> QED
    BY <1>1, <1>3, <1>4, <1>5

\* What was answered stays what the chain held then.
LEMMA RowsKept ==
  ASSUME chain \in Seq(Emitted), Len(chain)' \in Nat, Len(chain) <= Len(chain)',
         \A i \in DOMAIN chain : chain'[i] = chain[i],
         NEW q \in Feeds, NEW from \in Nat, NEW u \in 0..Len(chain)
  PROVE  RowsFrom(q, Page(from, u))' = RowsFrom(q, Page(from, u))
  <1>1. \A i \in 1..u : chain'[i] = chain[i]
    BY EventAt
  <1>2. Page(from, u)' = Page(from, u)
    BY <1>1 DEF Page
  <1>3. Page(from, u) \in SUBSET (1..u)
    BY PageOfChain
  <1> PICK page : page = Page(from, u)
    OBVIOUS
  <1>4. ASSUME NEW i \in page
        PROVE  /\ canonicalEventKey(i)' = canonicalEventKey(i)
               /\ resolveEventType(chain'[i].topic) = resolveEventType(chain[i].topic)
               /\ IsWeightChange(i)' = IsWeightChange(i)
               /\ chain'[i].number = chain[i].number
    BY <1>1, <1>3 DEF canonicalEventKey, IsWeightChange, resolveEventType
  <1>5. dedupeContractEvents(page)' = dedupeContractEvents(page)
    BY <1>4 DEF dedupeContractEvents
  <1>6. dedupeContractEvents(page) \in SUBSET page
    BY DEF dedupeContractEvents
  <1>7. getProposalEvents(page)' = getProposalEvents(page)
    BY <1>4, <1>5, <1>6 DEF getProposalEvents
  <1>8. getHistoricalWeightChangeEvents(page)' = getHistoricalWeightChangeEvents(page)
    BY <1>4 DEF getHistoricalWeightChangeEvents
  <1> QED
    BY <1>2, <1>7, <1>8 DEF RowsFrom

\* New events come after those that the answers speak of.
LEMMA EmitKeeps ==
  ASSUME TimelineInv, NEW l \in Nat, NEW topics \in Seq(Topics), NEW n \in Nat,
         Emit(l, topics, n)
  PROVE  TimelineInv'
  <1> DEFINE tx  == IF chain = << >> THEN 1 ELSE chain[Len(chain)].tx + 1
             new == [k \in 1..Len(topics) |->
                       [topic |-> topics[k], number |-> n, ledger |-> l, tx |-> tx]]
  <1>1. /\ chain \in Seq(Emitted) /\ chain' = chain \o new
        /\ asOf' = asOf /\ start' = start /\ answer' = answer
    BY DEF Emit, TimelineInv, TimelineTyped
  <1>2. Len(topics) \in Nat /\ \A k \in 1..Len(topics) : topics[k] \in Topics
    BY LenProperties, ElementOfSeq
  <1>3. tx \in Nat
    <2>1. CASE chain = << >>
      BY <2>1
    <2>2. CASE chain # << >>
      <3>1. Len(chain) \in DOMAIN chain
        BY <1>1, <2>2, EmptySeq, EventAt
      <3> QED
        BY <1>1, <2>2, <3>1, EventAt
    <2> QED
      BY <2>1, <2>2
  <1> HIDE DEF tx
  <1>4. new \in [1..Len(topics) -> Emitted]
    BY <1>2, <1>3 DEF Emitted
  <1>5. new \in Seq(Emitted)
    <2> HIDE DEF new
    <2> QED
      BY <1>2, <1>4, SeqDef
  <1> HIDE DEF new
  <1>6. /\ chain' \in Seq(Emitted) /\ Len(chain') = Len(chain) + Len(new)
        /\ Len(chain) \in Nat /\ Len(new) \in Nat
        /\ \A i \in 1..Len(chain) + Len(new) :
             chain'[i] = IF i <= Len(chain) THEN chain[i] ELSE new[i - Len(chain)]
    BY <1>1, <1>5, ConcatProperties, LenProperties
  <1>7. /\ Len(chain') \in Nat /\ Len(chain) <= Len(chain')
        /\ \A i \in DOMAIN chain : chain'[i] = chain[i]
    BY <1>1, <1>6, EventAt
  <1>8. TimelineTyped'
    BY <1>1, <1>6, <1>7 DEF TimelineInv, TimelineTyped
  <1>9. ASSUME NEW q \in Feeds, answer[q] # None
        PROVE  AnswerTrue(q)'
    <2>1. AnswerTrue(q)
      BY <1>9 DEF TimelineInv
    <2>2. CASE answer[q] = [upto |-> 0, rows |-> {}]
      BY <1>1, <2>1, <2>2 DEF AnswerTrue
    <2>3. CASE answer[q] # [upto |-> 0, rows |-> {}]
      <3>1. PICK u \in asOf..Len(chain) :
              answer[q] = [upto |-> u, rows |-> RowsFrom(q, Page(start[q], u))]
        BY <2>1, <2>3 DEF AnswerTrue
      <3>2. asOf \in 0..Len(chain) /\ start[q] \in Nat
        BY DEF TimelineInv, TimelineTyped
      <3>3. u \in 0..Len(chain) /\ u \in asOf..Len(chain')
        BY <1>6, <3>2
      <3>4. RowsFrom(q, Page(start[q], u))' = RowsFrom(q, Page(start[q], u))
        <4> PICK from : from = start[q]
          OBVIOUS
        <4>1. RowsFrom(q, Page(from, u))' = RowsFrom(q, Page(from, u))
          BY <1>1, <1>7, <3>2, <3>3, RowsKept
        <4>2. Page(start[q], u)' = Page(from, u)'
          BY <1>1 DEF Page
        <4>3. RowsFrom(q, Page(start[q], u))' = RowsFrom(q, Page(from, u))'
          BY <4>2 DEF RowsFrom, getProposalEvents, dedupeContractEvents,
                      getHistoricalWeightChangeEvents
        <4> QED
          BY <4>1, <4>3
      <3> QED
        BY <1>1, <2>1, <3>1, <3>3, <3>4 DEF AnswerTrue
    <2> QED
      BY <2>2, <2>3
  <1> QED
    BY <1>1, <1>8, <1>9 DEF TimelineInv

\* The rows of an answer do not depend on what comes later.
LEMMA RowsStay ==
  ASSUME chain' = chain, NEW q \in Feeds, start'[q] = start[q], NEW u
  PROVE  RowsFrom(q, Page(start[q], u))' = RowsFrom(q, Page(start[q], u))
  <1>1. Page(start[q], u)' = Page(start[q], u)
    BY DEF Page
  <1> PICK page : page = Page(start[q], u)
    OBVIOUS
  <1>2. \A i : /\ canonicalEventKey(i)' = canonicalEventKey(i)
               /\ IsWeightChange(i)' = IsWeightChange(i)
    BY DEF canonicalEventKey, IsWeightChange
  <1>3. dedupeContractEvents(page)' = dedupeContractEvents(page)
    BY DEF dedupeContractEvents, canonicalEventKey
  <1>4. getProposalEvents(page)' = getProposalEvents(page)
    BY <1>2, <1>3 DEF getProposalEvents
  <1>5. getHistoricalWeightChangeEvents(page)' = getHistoricalWeightChangeEvents(page)
    BY <1>2 DEF getHistoricalWeightChangeEvents
  <1>6. RowsFrom(q, page)' = RowsFrom(q, page)
    BY <1>4, <1>5 DEF RowsFrom
  <1>7. RowsFrom(q, Page(start[q], u))' = RowsFrom(q, page)'
    BY <1>1 DEF RowsFrom, getProposalEvents, dedupeContractEvents,
                getHistoricalWeightChangeEvents
  <1> QED
    BY <1>6, <1>7

\* The search for a start keeps the invariant,
LEMMA FindStartKeeps ==
  ASSUME TimelineInv, NEW q \in Feeds, FindStart(q)
  PROVE  TimelineInv'
  <1>1. /\ chain \in Seq(Emitted) /\ start \in [Feeds -> Nat] /\ start[q] = 0
        /\ chain' = chain /\ asOf' = asOf /\ answer' = answer
    BY DEF FindStart, TimelineInv, TimelineTyped
  <1>2. Newest \in Nat
    BY <1>1, EmptySeq, EventAt DEF Newest
  <1>3. PICK from \in {1, IF Newest > Reach THEN Newest - Reach ELSE 1} :
          start' = [start EXCEPT ![q] = from]
    BY DEF FindStart
  <1>4. from \in Nat /\ Reach \in Nat
    BY <1>2, TimelineAssumption
  <1>5. answer[q] = None
    BY <1>1 DEF TimelineInv, AnswerTrue
  <1>6. \A r \in Feeds : r # q => start'[r] = start[r]
    BY <1>1, <1>3
  <1>7. ASSUME NEW r \in Feeds, answer[r] # None
        PROVE  AnswerTrue(r)'
    <2>1. start'[r] = start[r] /\ AnswerTrue(r)
      BY <1>5, <1>6, <1>7 DEF TimelineInv
    <2>2. \A u : RowsFrom(r, Page(start[r], u))' = RowsFrom(r, Page(start[r], u))
      BY <1>1, <2>1, RowsStay
    <2> QED
      BY <1>1, <2>1, <2>2 DEF AnswerTrue
  <1>8. TimelineTyped'
    BY <1>1, <1>3, <1>4 DEF TimelineInv, TimelineTyped
  <1> QED
    BY <1>1, <1>7, <1>8 DEF TimelineInv

\* and so does the answer of a feed,
LEMMA AnswerFeedKeeps ==
  ASSUME TimelineInv, NEW q \in Feeds, AnswerFeed(q)
  PROVE  TimelineInv'
  <1>1. /\ chain \in Seq(Emitted) /\ start[q] > 0 /\ asOf \in 0..Len(chain)
        /\ chain' = chain /\ asOf' = asOf /\ start' = start /\ DOMAIN answer = Feeds
    BY DEF AnswerFeed, TimelineInv, TimelineTyped
  <1>2. PICK a \in {[upto |-> Len(chain), rows |-> RowsFrom(q, Page(start[q], Len(chain)))],
                    [upto |-> 0, rows |-> {}]} :
          answer' = [answer EXCEPT ![q] = a]
    BY DEF AnswerFeed, RowsFrom
  <1>3. \A r \in Feeds : \A u : RowsFrom(r, Page(start[r], u))' = RowsFrom(r, Page(start[r], u))
    BY <1>1, RowsStay
  <1>4. Len(chain) \in asOf..Len(chain)
    BY <1>1, EventAt
  <1>5. ASSUME NEW r \in Feeds, answer'[r] # None
        PROVE  AnswerTrue(r)'
    <2>1. CASE r = q
      <3>1. answer'[r] = a /\ start'[r] > 0
        BY <1>1, <1>2, <2>1
      <3> QED
        BY <1>1, <1>2, <1>3, <1>4, <2>1, <3>1 DEF AnswerTrue
    <2>2. CASE r # q
      <3>1. answer'[r] = answer[r]
        BY <1>1, <1>2, <2>2
      <3>2. AnswerTrue(r)
        BY <1>5, <3>1 DEF TimelineInv
      <3> QED
        BY <1>1, <1>3, <3>1, <3>2 DEF AnswerTrue
    <2> QED
      BY <2>1, <2>2
  <1>6. TimelineTyped'
    BY <1>1, <1>2 DEF TimelineInv, TimelineTyped
  <1> QED
    BY <1>5, <1>6 DEF TimelineInv

\* The timeline opens with no answer and nothing shown.
LEMMA TimelineFirst ==
  ASSUME TimelineInit PROVE TimelineInv
  <1>1. chain \in Seq(Emitted) /\ asOf = Len(chain) /\ start = NotAsked /\ answer = Waiting
    BY TimelineAssumption DEF TimelineInit
  <1> QED
    BY <1>1, EventAt DEF TimelineInv, TimelineTyped, NotAsked, Waiting

\* and the status that is given.
LEMMA GiveStatusKeeps ==
  ASSUME TimelineInv, GiveStatus PROVE TimelineInv'
  <1>1. /\ chain \in Seq(Emitted) /\ chain' = chain /\ asOf' = Len(chain)
        /\ start' = NotAsked /\ answer' = Waiting
    BY DEF TimelineInv, TimelineTyped, GiveStatus
  <1> QED
    BY <1>1, EventAt DEF TimelineInv, TimelineTyped, NotAsked, Waiting

\* One topic is a sequence of topics.
LEMMA OneTopic ==
  ASSUME NEW S, NEW t \in S PROVE <<t>> \in Seq(S)
  OBVIOUS

\* Every step keeps the invariant.
LEMMA TimelineStep ==
  ASSUME TimelineInv, [TimelineNext]_timelineVars PROVE TimelineInv'
  <1>1. Newest \in Nat
    BY EmptySeq, EventAt DEF Newest, TimelineInv, TimelineTyped
  <1>2. Numbers \subseteq Nat /\ Watched \in Nat
    BY TimelineAssumption
  <1>3. \A l \in {Newest, Newest + 1} : l \in Nat
    BY <1>1
  <1>4. ASSUME NEW l \in {Newest, Newest + 1}, NEW n \in Numbers, Vote(l, n)
        PROVE  TimelineInv'
    <2>1. PICK topics \in {<<"approved">>, <<"revoked">>} : Emit(l, topics, n)
      BY <1>4 DEF Vote
    <2>2. topics \in Seq(Topics)
      <3>1. "approved" \in Topics /\ "revoked" \in Topics
        BY DEF Topics
      <3> QED
        BY <3>1, OneTopic
    <2> QED
      BY <1>2, <1>3, <2>1, <2>2, EmitKeeps
  <1>5. ASSUME NEW l \in {Newest, Newest + 1}, NEW n \in Numbers, Execute(l, n)
        PROVE  TimelineInv'
    <2>1. PICK effect \in {<< >>, <<"c_wgt">>, <<"r_crt">>} :
            Emit(l, effect \o <<"executed">>, n)
      BY <1>5 DEF Execute
    <2>2. effect \in Seq(Topics) /\ <<"executed">> \in Seq(Topics)
      <3>1. "c_wgt" \in Topics /\ "r_crt" \in Topics /\ "executed" \in Topics
        BY DEF Topics
      <3> QED
        BY <3>1, OneTopic, EmptySeq
    <2>3. effect \o <<"executed">> \in Seq(Topics)
      BY <2>2, ConcatProperties
    <2> QED
      BY <1>2, <1>3, <2>1, <2>3, EmitKeeps
  <1>6. ASSUME NEW l \in {Newest, Newest + 1}, ClaimStream(l, Watched)
        PROVE  TimelineInv'
    <2>1. Emit(l, <<"str_clm">>, Watched) /\ <<"str_clm">> \in Seq(Topics)
      <3>1. "str_clm" \in Topics
        BY DEF Topics
      <3> QED
        BY <1>6, <3>1, OneTopic DEF ClaimStream
    <2> QED
      BY <1>2, <1>3, <2>1, EmitKeeps
  <1>7. CASE UNCHANGED timelineVars
    <2>1. /\ chain' = chain /\ asOf' = asOf /\ start' = start /\ answer' = answer
      BY <1>7 DEF timelineVars
    <2>2. \A r \in Feeds : \A u : RowsFrom(r, Page(start[r], u))' = RowsFrom(r, Page(start[r], u))
      BY <2>1, RowsStay
    <2>3. ASSUME NEW r \in Feeds, answer[r] # None
          PROVE  AnswerTrue(r)'
      <3>1. AnswerTrue(r)
        BY <2>3 DEF TimelineInv
      <3> QED
        BY <2>1, <2>2, <3>1 DEF AnswerTrue
    <2> QED
      BY <2>1, <2>3 DEF TimelineInv, TimelineTyped
  <1> QED
    BY <1>4, <1>5, <1>6, <1>7, FindStartKeeps, AnswerFeedKeeps, GiveStatusKeeps DEF TimelineNext

-----------------------------------------------------------------------------
(* What an answer that succeeded means *)

\* A shown timeline is what two answers give.
LEMMA ShownFromTwo ==
  ASSUME timeline # None
  PROVE  /\ answer["proposal"] # None /\ answer["weights"] # None
         /\ timeline = Merged(answer["proposal"].rows, answer["weights"].rows)
  BY DEF timeline, Feeds

\* The rows of an answer are some page's.
LEMMA RowsOfAnswer ==
  ASSUME TimelineInv, NEW q \in Feeds, answer[q] # None
  PROVE  /\ \A i \in answer[q].rows : i \in DOMAIN chain
         /\ \E page : answer[q].rows = {} \/ answer[q].rows = RowsFrom(q, page)
  <1>1. AnswerTrue(q) /\ chain \in Seq(Emitted) /\ asOf \in 0..Len(chain) /\ start[q] \in Nat
    BY DEF TimelineInv, TimelineTyped
  <1>2. CASE answer[q] = [upto |-> 0, rows |-> {}]
    BY <1>2
  <1>3. CASE answer[q] # [upto |-> 0, rows |-> {}]
    <2>1. PICK u \in asOf..Len(chain) :
            answer[q] = [upto |-> u, rows |-> RowsFrom(q, Page(start[q], u))]
      BY <1>1, <1>3 DEF AnswerTrue
    <2>2. u \in 0..Len(chain)
      BY <1>1
    <2>3. answer[q].rows = RowsFrom(q, Page(start[q], u))
      BY <2>1
    <2>4. RowsFrom(q, Page(start[q], u)) \in SUBSET DOMAIN chain
      BY <1>1, <2>2, PageOfChain
    <2> QED
      BY <2>3, <2>4
  <1> QED
    BY <1>2, <1>3

\* A timeline whose page had room misses no event of the proposal,
LEMMA NothingMissing == ASSUME TimelineInv PROVE NothingOfItMissing
  <1> DEFINE a == answer["proposal"]
             from == start["proposal"]
  <1>1. SUFFICES ASSUME timeline # None, a.upto \in 1..PageSize, NEW i \in 1..asOf,
                        About(i), Alone(i), chain[i].ledger >= from
                 PROVE  i \in timeline
    BY DEF NothingOfItMissing
  <1>2. /\ AnswerTrue("proposal") /\ chain \in Seq(Emitted) /\ asOf \in 0..Len(chain)
        /\ "proposal" \in Feeds /\ from \in Nat
    BY <1>1, ShownFromTwo DEF TimelineInv, TimelineTyped, Feeds
  <1>3. PageSize \in Nat
    BY TimelineAssumption
  <1>4. a # [upto |-> 0, rows |-> {}]
    BY <1>1, <1>3
  <1>5. PICK u \in asOf..Len(chain) :
          a = [upto |-> u, rows |-> RowsFrom("proposal", Page(from, u))]
    BY <1>2, <1>4 DEF AnswerTrue
  <1>6. /\ a.upto = u /\ a.rows = getProposalEvents(Page(from, u))
        /\ Len(chain) \in Nat /\ u \in 0..Len(chain) /\ i \in 1..u /\ u <= PageSize
    BY <1>1, <1>2, <1>3, <1>5, EventAt DEF RowsFrom
  <1> HIDE DEF a
  <1>7. i \in Page(from, u)
    <2> DEFINE range == {k \in 1..u : chain[k].ledger >= from}
               below == {j \in range : j < i}
    <2>1. below \in SUBSET (1..i - 1)
      BY <1>6
    <2>2. IsFiniteSet(1..i - 1) /\ Cardinality(1..i - 1) = i - 1
      <3>1. i \in Nat /\ i - 1 \in Int /\ i >= 1
        BY <1>6
      <3> QED
        BY <3>1, FS_Interval
    <2>3. Cardinality(below) <= i - 1 /\ IsFiniteSet(below)
      BY <2>1, <2>2, FS_Subset
    <2>4. Cardinality(below) \in Nat
      BY <2>3, FS_CardinalityType
    <2>5. Cardinality(below) < PageSize
      BY <1>3, <1>6, <2>3, <2>4
    <2>6. i \in range
      BY <1>1, <1>6
    <2>7. Page(from, u) = {k \in range : Cardinality({j \in range : j < k}) < PageSize}
      BY DEF Page
    <2> QED
      BY <2>5, <2>6, <2>7
  <1>8. Page(from, u) \in SUBSET DOMAIN chain
    BY <1>2, <1>6, PageOfChain
  <1>9. i \in dedupeContractEvents(Page(from, u))
    <2>1. \A j \in Page(from, u) : canonicalEventKey(j) = canonicalEventKey(i) => j = i
      BY <1>1, <1>8 DEF canonicalEventKey, Alone
    <2>2. i <= i
      BY <1>6
    <2> QED
      BY <1>7, <2>1, <2>2 DEF dedupeContractEvents
  <1>10. resolveEventType(chain[i].topic) # None /\ chain[i].number = Watched
    BY <1>1, TimelineAssumption DEF About, resolveEventType
  <1>11. i \in a.rows
    BY <1>6, <1>9, <1>10 DEF getProposalEvents
  <1> QED
    BY <1>1, <1>11, ShownFromTwo DEF Merged, a

\* none shows an event of another one,
LEMMA NothingForeign == ASSUME TimelineInv PROVE NothingForeignShown
  <1> DEFINE mine    == answer["proposal"].rows
             changes == answer["weights"].rows
  <1>1. SUFFICES ASSUME timeline # None
                 PROVE  /\ \A i \in timeline : IsWeightChange(i) \/ About(i)
                              \/ (chain[i].topic = "str_clm" /\ chain[i].number = Watched)
                        /\ \A i \in changes :
                             \E j \in timeline : IsWeightChange(j) /\ chain[j].ledger = chain[i].ledger
    BY DEF NothingForeignShown
  <1>2. /\ timeline = Merged(mine, changes) /\ "proposal" \in Feeds /\ "weights" \in Feeds
        /\ answer["proposal"] # None /\ answer["weights"] # None
    BY <1>1, ShownFromTwo DEF Feeds
  <1>3. \A i \in changes : i \in DOMAIN chain /\ IsWeightChange(i)
    BY <1>2, RowsOfAnswer DEF RowsFrom, getHistoricalWeightChangeEvents
  <1>4. \A i \in mine : /\ resolveEventType(chain[i].topic) # None
                        /\ chain[i].number = Watched \/ IsWeightChange(i)
    BY <1>2, RowsOfAnswer DEF RowsFrom, getProposalEvents
  <1>5. Len(chain) \in Nat /\ DOMAIN chain = 1..Len(chain)
    BY EventAt DEF TimelineInv, TimelineTyped
  <1> HIDE DEF mine, changes
  <1>6. ASSUME NEW i \in timeline
        PROVE  IsWeightChange(i) \/ About(i)
                 \/ (chain[i].topic = "str_clm" /\ chain[i].number = Watched)
    <2>1. i \in changes => IsWeightChange(i)
      BY <1>3
    <2>2. i \in mine =>
            IsWeightChange(i) \/ About(i)
              \/ (chain[i].topic = "str_clm" /\ chain[i].number = Watched)
      BY <1>4 DEF resolveEventType, IsWeightChange, About
    <2> QED
      BY <1>2, <1>6, <2>1, <2>2 DEF Merged
  <1>7. ASSUME NEW i \in changes
        PROVE  \E j \in timeline : IsWeightChange(j) /\ chain[j].ledger = chain[i].ledger
    <2> DEFINE same == {j \in changes : chain[j].ledger = chain[i].ledger}
    <2>1. same \in SUBSET Nat /\ same # {}
      BY <1>3, <1>5
    <2>2. PICK m \in same : \A j \in same : m <= j
      <3> HIDE DEF same
      <3> QED
        BY <2>1, LeastMember
    <2>3. CASE \E k \in mine : IsWeightChange(k) /\ chain[k].ledger = chain[i].ledger
      BY <1>2, <2>3 DEF Merged
    <2>4. CASE ~(\E k \in mine : IsWeightChange(k) /\ chain[k].ledger = chain[i].ledger)
      <3>1. m \in changes /\ chain[m].ledger = chain[i].ledger
        OBVIOUS
      <3>2. m \in Merged(mine, changes)
        BY <2>2, <2>4, <3>1 DEF Merged
      <3> QED
        BY <1>2, <1>3, <3>1, <3>2
    <2> QED
      BY <2>3, <2>4
  <1> QED
    BY <1>6, <1>7 DEF changes

\* and the feed of weight changes keeps the newest of them.
LEMMA NewestFirst == ASSUME TimelineInv PROVE FeedNewest
  <1> DEFINE changes == getHistoricalWeightChangeEvents(Page(1, Len(chain)))
             feed    == getOwnerWeightChangeEvents(Page(1, Len(chain)))
             before  == [i \in changes |-> {j \in changes : FeedBefore(j, i)}]
  <1>1. chain \in Seq(Emitted) /\ Len(chain) \in Nat /\ Len(chain) \in 0..Len(chain)
    BY EventAt DEF TimelineInv, TimelineTyped
  <1>2. changes \in SUBSET (1..Len(chain)) /\ IsFiniteSet(changes)
    <2>1. Page(1, Len(chain)) \in SUBSET (1..Len(chain)) /\ IsFiniteSet(Page(1, Len(chain)))
      BY <1>1, PageOfChain
    <2>2. changes \in SUBSET Page(1, Len(chain))
      BY DEF getHistoricalWeightChangeEvents
    <2> HIDE DEF changes
    <2> QED
      BY <2>1, <2>2, FS_Subset
  <1>3. feed = {i \in changes : Cardinality({j \in changes : FeedBefore(j, i)}) < FeedSize}
    BY DEF getOwnerWeightChangeEvents
  <1>4. \A i \in changes : i \in Nat /\ chain[i].ledger \in Nat
    <2>1. \A i \in 1..Len(chain) : chain[i].ledger \in Nat
      BY <1>1, EventAt
    <2> HIDE DEF changes
    <2> QED
      BY <1>2, <2>1
  <1> HIDE DEF changes, feed
  <1>5. FeedSize \in Nat
    BY TimelineAssumption
  <1>6. /\ before \in [changes -> SUBSET changes]
        /\ \A x \in changes : x \notin before[x]
    BY <1>4 DEF FeedBefore
  <1>7. \A x, y \in changes : x # y => x \in before[y] \/ y \in before[x]
    BY <1>4 DEF FeedBefore
  <1>8. ASSUME NEW x \in changes, NEW y \in changes, FeedBefore(x, y)
        PROVE  before[x] \subseteq before[y]
    <2>1. ASSUME NEW w \in changes, FeedBefore(w, x)
          PROVE  FeedBefore(w, y)
      BY <1>4, <1>8, <2>1 DEF FeedBefore
    <2> QED
      BY <2>1
  <1>9. \A x, y \in changes : x \in before[y] => before[x] \subseteq before[y]
    BY <1>8
  <1>10. feed = {x \in changes : Cardinality(before[x]) < FeedSize}
    BY <1>3
  <1>11. \A x \in changes : IsFiniteSet(before[x]) /\ Cardinality(before[x]) \in Nat
    BY <1>2, <1>6, FS_Subset, FS_CardinalityType
  <1>12. \A x, y \in changes : chain[x].ledger > chain[y].ledger => x \in before[y]
    BY DEF FeedBefore
  <1> HIDE DEF before
  <1>13. ASSUME NEW i \in changes \ feed
         PROVE  /\ Cardinality(feed) = FeedSize
                /\ \A j \in feed : chain[j].ledger >= chain[i].ledger
    <2>1. i \in changes /\ Cardinality(before[i]) >= FeedSize
      BY <1>5, <1>10, <1>11
    <2>2. Cardinality({x \in changes : Cardinality(before[x]) < FeedSize}) = FeedSize
      BY <1>2, <1>5, <1>6, <1>7, <1>9, <2>1, FirstOnes
    <2>3. ASSUME NEW j \in feed, ~(chain[j].ledger >= chain[i].ledger)
          PROVE  FALSE
      <3>1. j \in changes /\ Cardinality(before[j]) < FeedSize
        BY <1>10
      <3>2. i \in before[j]
        BY <1>4, <1>12, <2>1, <2>3, <3>1
      <3>3. before[i] \in SUBSET before[j]
        BY <1>9, <2>1, <3>1, <3>2
      <3>4. Cardinality(before[i]) <= Cardinality(before[j])
        BY <1>11, <3>1, <3>3, FS_Subset
      <3> QED
        BY <1>5, <1>11, <2>1, <3>1, <3>4
    <2> QED
      BY <1>10, <2>2, <2>3
  <1> QED
    BY <1>13 DEF FeedNewest, feed, changes

\* What a proposal's timeline and the feed show of the contract's history, however
\* the chain grows, the statuses change and the answers come in between.
THEOREM TimelineTrue == TimelineSpec => []TimelineSound
  <1>1. TimelineInit => TimelineInv
    BY TimelineFirst
  <1>2. TimelineInv /\ [TimelineNext]_timelineVars => TimelineInv'
    BY TimelineStep
  <1>3. TimelineInv => TimelineSound
    BY NothingMissing, NothingForeign, NewestFirst DEF TimelineSound
  <1> QED
    BY <1>1, <1>2, <1>3, PTL DEF TimelineSpec

-----------------------------------------------------------------------------
(* The reports: amounts and tables *)

Worth == [i \in DOMAIN Book |-> Book[i].amount]

\* The book is finite, with amounts and times that are natural numbers.
LEMMA BookTyped ==
  /\ IsFiniteSet(DOMAIN Book) /\ Worth \in [DOMAIN Book -> Nat]
  /\ \A i \in DOMAIN Book : Book[i].at \in Nat /\ i \in Nat
  <1>1. IsFiniteSet(1..Len(Book))
    <2>1. Len(Book) \in Nat
      BY ReportsAssumption
    <2> QED
      BY ONLY <2>1, FS_Interval
  <1>2. DOMAIN Book = 1..Len(Book) /\ Len(Book) \in Nat
    BY ReportsAssumption
  <1>3. IsFiniteSet(DOMAIN Book)
    BY <1>1, <1>2
  <1>4. \A i \in DOMAIN Book : Book[i].at \in Nat /\ Book[i].amount \in Nat
    BY ReportsAssumption
  <1>5. Worth \in [DOMAIN Book -> Nat]
    BY <1>4 DEF Worth
  <1>6. \A i \in DOMAIN Book : i \in Nat
    BY ONLY <1>2
  <1> QED
    BY <1>3, <1>4, <1>5, <1>6

\* The amount of entries is the total of what each is worth.
LEMMA AmountTotal ==
  ASSUME NEW F \in SUBSET DOMAIN Book
  PROVE  AmountOf(F) = Total(Worth, F) /\ AmountOf(F) \in Nat /\ IsFiniteSet(F)
  <1> DEFINE f == [i \in F |-> Book[i].amount]
  <1>1. \A i \in F : f[i] = Worth[i]
    BY DEF Worth
  <1>2. DOMAIN f = F
    OBVIOUS
  <1> HIDE DEF f
  <1>3. Total(f, F) = Total(Worth, F)
    BY <1>1, TotalSame
  <1>4. AmountOf(F) = Total(f, F)
    BY <1>2 DEF AmountOf, Sigma, f
  <1>5. IsFiniteSet(F)
    BY BookTyped, FS_Subset
  <1>6. Total(Worth, F) \in Nat
    BY <1>5, BookTyped, UnitsFinite
  <1> QED
    BY <1>3, <1>4, <1>5, <1>6

\* A table that splits entries by their keys adds up to them, whatever rows of
\* nothing it has besides.
LEMMA TableSum ==
  ASSUME NEW F \in SUBSET DOMAIN Book, NEW rows, IsFiniteSet(DOMAIN rows), NEW key,
         \A i \in F : key[i] \in DOMAIN rows,
         \A k \in DOMAIN rows : rows[k] = AmountOf({i \in F : key[i] = k})
  PROVE  Sigma(rows) = AmountOf(F)
  <1> DEFINE w == [i \in F |-> Worth[i]]
             by == [i \in F |-> key[i]]
  <1>1. w \in [F -> Nat] /\ IsFiniteSet(F) /\ by \in [F -> DOMAIN rows]
    BY BookTyped, AmountTotal
  <1>2. ASSUME NEW k \in DOMAIN rows
        PROVE  rows[k] = Total(w, {i \in F : by[i] = k})
    <2> DEFINE G == {i \in F : by[i] = k}
    <2>1. G = {i \in F : key[i] = k} /\ G \in SUBSET DOMAIN Book
      OBVIOUS
    <2>2. \A i \in G : w[i] = Worth[i]
      OBVIOUS
    <2> HIDE DEF G, w
    <2>3. Total(w, G) = Total(Worth, G)
      BY <2>2, TotalSame
    <2> QED
      BY <2>1, <2>3, AmountTotal DEF G
  <1>3. \A i \in F : w[i] = Worth[i]
    OBVIOUS
  <1> HIDE DEF w, by
  <1>4. Total(rows, DOMAIN rows) = Total(w, F)
    BY <1>1, <1>2, Regrouped
  <1>5. Total(w, F) = Total(Worth, F)
    BY <1>3, TotalSame
  <1> QED
    BY <1>4, <1>5, AmountTotal DEF Sigma

\* The rows of one token add up to the entries in it.
LEMMA TokenSum ==
  ASSUME NEW F \in SUBSET DOMAIN Book, NEW rows, IsFiniteSet(DOMAIN rows), NEW key, NEW t,
         \A i \in F : key[i] \in DOMAIN rows /\ key[i][2] = Token(i),
         \A k \in DOMAIN rows : rows[k] = AmountOf({i \in F : key[i] = k})
  PROVE  Sigma(OfToken(rows, t)) = AmountOf({i \in F : Token(i) = t})
  <1> DEFINE part == OfToken(rows, t)
             G == {i \in F : Token(i) = t}
  <1>1. DOMAIN part = {k \in DOMAIN rows : k[2] = t} /\ \A k \in DOMAIN part : part[k] = rows[k]
    BY DEF OfToken
  <1>2. DOMAIN part \in SUBSET DOMAIN rows
    BY <1>1
  <1>3. IsFiniteSet(DOMAIN part)
    BY <1>2, FS_Subset
  <1>4. G \in SUBSET DOMAIN Book /\ \A i \in G : key[i] \in DOMAIN part
    BY <1>1
  <1>5. ASSUME NEW k \in DOMAIN part
        PROVE  part[k] = AmountOf({i \in G : key[i] = k})
    <2>1. k \in DOMAIN rows /\ k[2] = t /\ part[k] = rows[k]
      BY <1>1
    <2>2. {i \in G : key[i] = k} = {i \in F : key[i] = k}
      BY <2>1
    <2> QED
      BY <2>1, <2>2
  <1> HIDE DEF part, G
  <1>6. Sigma(part) = AmountOf(G)
    BY <1>3, <1>4, <1>5, TableSum
  <1> QED
    BY <1>6 DEF part, G

-----------------------------------------------------------------------------
(* The calendar *)

\* A later tick has no earlier bucket,
LEMMA BucketOrder ==
  ASSUME NEW g \in DOMAIN Span, NEW t \in Nat, NEW u \in Nat, t <= u
  PROVE  /\ bucketStart(t, g) \in Int /\ bucketStart(u, g) \in Int
         /\ bucketStart(t, g) + Shift[g] \in Nat
         /\ bucketStart(t, g) <= bucketStart(u, g)
  <1> PICK h \in Nat : h = Shift[g]
    BY ReportsAssumption
  <1> PICK s \in Nat \ {0} : s = Span[g]
    BY ReportsAssumption
  <1> DEFINE x == t + h
             y == u + h
  <1>1. x \in Nat /\ y \in Nat /\ x <= y
    OBVIOUS
  <1>2. x % s \in 0..s - 1 /\ y % s \in 0..s - 1
    BY <1>1, Remainder
  <1>3. x - (x % s) <= y - (y % s) /\ x - (x % s) \in Nat
    BY <1>1, FloorMonotone, FloorKept
  <1>4. bucketStart(t, g) = t - (x % s) /\ bucketStart(u, g) = u - (y % s)
    BY DEF bucketStart
  <1>5. x = t + h /\ y = u + h
    OBVIOUS
  <1> PICK a, b : a = x % s /\ b = y % s
    OBVIOUS
  <1> HIDE DEF x, y
  <1> QED
    BY <1>1, <1>2, <1>3, <1>4, <1>5

\* the start of a bucket lies in it,
LEMMA BucketKept ==
  ASSUME NEW g \in DOMAIN Span, NEW t \in Nat
  PROVE  bucketStart(bucketStart(t, g), g) = bucketStart(t, g)
  <1> PICK h \in Nat : h = Shift[g]
    BY ReportsAssumption
  <1> PICK s \in Nat \ {0} : s = Span[g]
    BY ReportsAssumption
  <1> PICK x \in Nat : x = t + h
    OBVIOUS
  <1> PICK r \in 0..s - 1 : r = x % s
    BY Remainder
  <1>1. (x - r) % s = 0
    BY FloorKept
  <1>2. bucketStart(t, g) = t - r
    BY DEF bucketStart
  <1>3. bucketStart(t - r, g) = (t - r) - (((t - r) + h) % s)
    BY DEF bucketStart
  <1>4. (t - r) + h = x - r
    OBVIOUS
  <1>5. bucketStart(t - r, g) = (t - r) - 0
    BY ONLY <1>1, <1>3, <1>4
  <1> QED
    BY <1>2, <1>5

\* A bucket holds whole days.
LEMMA BucketOfDay ==
  ASSUME NEW g \in DOMAIN Span, NEW day \in Nat, day % TicksPerDay = 0,
         NEW t \in Nat, t < day + TicksPerDay
  PROVE  bucketStart(t, g) <= bucketStart(day, g)
  <1> PICK h \in Nat : h = Shift[g] /\ h % TicksPerDay = 0
    BY ReportsAssumption
  <1> PICK s \in Nat \ {0} : s = Span[g] /\ s % TicksPerDay = 0
    BY ReportsAssumption
  <1> PICK d \in Nat \ {0} : d = TicksPerDay
    BY ReportsAssumption
  <1>1. CASE t <= day
    BY <1>1, BucketOrder
  <1>2. CASE day < t
    <2>1. PICK e \in 0..d - 1 : t = day + e
      <3>1. t - day \in 0..d - 1 /\ t = day + (t - day)
        BY <1>2
      <3> QED
        BY <3>1
    <2>2. PICK x \in Nat : x = day + h
      OBVIOUS
    <2>3. x % d = 0
      <3>1. day = (day \div d) * d + (day % d) /\ h = (h \div d) * d + (h % d)
            /\ day \div d \in Nat /\ h \div d \in Nat
        BY Remainder, Quotient
      <3> PICK a \in Nat : a = day \div d
        BY <3>1
      <3> PICK b \in Nat : b = h \div d
        BY <3>1
      <3>2. day = a * d /\ h = b * d
        <4>1. a * d \in Nat /\ b * d \in Nat
          BY TimesMonotone
        <4> QED
          BY <3>1, <4>1
      <3>3. (a + b) * d = a * d + b * d
        BY ONLY a \in Nat, b \in Nat, d \in Nat \ {0}
      <3> PICK c \in Nat : c = a + b
        OBVIOUS
      <3>4. x = c * d + 0
        <4>1. c * d \in Nat
          BY TimesMonotone
        <4> QED
          BY <2>2, <3>2, <3>3, <4>1
      <3>5. 0 \in 0..d - 1
        OBVIOUS
      <3>6. (c * d + 0) % d = 0
        BY <3>5, DivUnique
      <3> QED
        BY ONLY <3>4, <3>6
    <2>4. (x + e) - ((x + e) % s) = x - (x % s)
      <3>1. s % d = 0
        OBVIOUS
      <3> QED
        BY ONLY <2>3, <3>1, x \in Nat, s \in Nat \ {0}, d \in Nat \ {0}, e \in 0..d - 1, FloorOfUnit
    <2>5. bucketStart(t, g) = t - ((t + h) % s) /\ bucketStart(day, g) = day - ((day + h) % s)
      BY DEF bucketStart
    <2>6. t + h = x + e
      BY ONLY <2>1, <2>2, t \in Nat, h \in Nat, x \in Nat, e \in 0..d - 1, d \in Nat, day \in Nat
    <2>7. x + e \in Nat
      BY <2>1, <2>2
    <2> PICK a \in 0..s - 1 : a = (x + e) % s
      BY <2>7, Remainder
    <2> PICK b \in 0..s - 1 : b = x % s
      BY <2>2, Remainder
    <2>8. bucketStart(t, g) = t - a /\ bucketStart(day, g) = day - b
      BY ONLY <2>2, <2>5, <2>6, a = (x + e) % s, b = x % s
    <2> QED
      BY <2>1, <2>2, <2>4, <2>6, <2>8
  <1> QED
    BY <1>1, <1>2

\* The bucket of a tick is among those of a range that holds it.
LEMMA BucketInRange ==
  ASSUME NEW g \in DOMAIN Span, NEW first \in Nat, NEW last \in Nat, NEW t \in Nat,
         first <= t, t <= last \/ (last % TicksPerDay = 0 /\ t < last + TicksPerDay)
  PROVE  bucketStart(t, g) \in Buckets(first, last, g)
  <1>1. /\ bucketStart(first, g) \in Int /\ bucketStart(t, g) \in Int
        /\ bucketStart(first, g) <= bucketStart(t, g)
    BY BucketOrder
  <1>2. bucketStart(last, g) \in Int
    BY BucketOrder
  <1>3. bucketStart(t, g) <= bucketStart(last, g)
    BY BucketOrder, BucketOfDay
  <1> QED
    BY <1>1, <1>2, <1>3, BucketKept DEF Buckets

\* A range has finitely many buckets.
LEMMA BucketsFinite ==
  ASSUME NEW g \in DOMAIN Span, NEW first \in Nat, NEW last \in Nat
  PROVE  IsFiniteSet(Buckets(first, last, g)) /\ Buckets(first, last, g) \in SUBSET Int
  <1>1. bucketStart(first, g) \in Int /\ bucketStart(last, g) \in Int
    BY BucketOrder
  <1>2. IsFiniteSet(bucketStart(first, g)..bucketStart(last, g))
    BY <1>1, FS_Interval
  <1>3. Buckets(first, last, g) \in SUBSET (bucketStart(first, g)..bucketStart(last, g))
    BY DEF Buckets
  <1>4. bucketStart(first, g)..bucketStart(last, g) \subseteq Int
    OBVIOUS
  <1> QED
    BY <1>2, <1>3, <1>4, FS_Subset

-----------------------------------------------------------------------------
(* The range of a chart *)

\* A query of days, as the pages ask it.
Question(q) ==
  /\ DOMAIN q = {"start", "end", "category", "owner", "token", "granularity",
                 "limit", "offset", "misread"}
  /\ q.granularity \in DOMAIN Span
  /\ \A date \in {q.start, q.end} \ {None} : date \in Nat /\ date % TicksPerDay = 0
  /\ DatesInOrder(q)
  /\ Comparable(q)

\* Entries that a flow counts.
Moving(q) ==
  {i \in DOMAIN Book : Book[i].kind \in {"transfer", "deposit"} /\ inDateRange(Book[i].at, q)}

\* Some entry is the first and some the last.
LEMMA FirstAndLast ==
  ASSUME NEW S \in SUBSET DOMAIN Book, S # {}
  PROVE  /\ Earliest(S) \in Nat /\ Latest(S) \in Nat
         /\ \A i \in S : Earliest(S) <= Book[i].at /\ Book[i].at <= Latest(S)
  <1> DEFINE f == [i \in S |-> Book[i].at]
             T == {f[i] : i \in S}
  <1>1. T = Times(S)
    BY DEF Times
  <1>2. IsFiniteSet(S) /\ DOMAIN f = S
    BY AmountTotal
  <1> HIDE DEF f
  <1>3. IsFiniteSet(T)
    BY <1>2, FiniteImage
  <1> HIDE DEF T
  <1>4. IsFiniteSet(Times(S))
    BY <1>1, <1>3
  <1>5. Times(S) \in SUBSET Nat /\ Times(S) # {}
    BY BookTyped DEF Times
  <1>6. \E t \in Times(S) : \A u \in Times(S) : t <= u
    BY <1>5, LeastMember
  <1>7. \E t \in Times(S) : \A u \in Times(S) : u <= t
    BY <1>4, <1>5, FiniteGreatest
  <1>8. \E t \in Times(S) : \A u \in Times(S) : t >= u
    BY <1>5, <1>7
  <1>9. Earliest(S) \in Times(S) /\ \A u \in Times(S) : Earliest(S) <= u
    BY <1>6 DEF Earliest
  <1>10. Latest(S) \in Times(S) /\ \A u \in Times(S) : Latest(S) >= u
    BY <1>8 DEF Latest
  <1>11. \A i \in S : Book[i].at \in Times(S) /\ Book[i].at \in Nat
    BY BookTyped DEF Times
  <1> QED
    BY <1>5, <1>9, <1>10, <1>11

\* The range of a chart holds all that the chart counts.
LEMMA RangeHolds ==
  ASSUME NEW q, Question(q), NEW S \in SUBSET Moving(q), S # {}
  PROVE  /\ ~NoRange(q, S)
         /\ IsFiniteSet(Buckets(RangeStart(q, S), RangeEnd(q, S), q.granularity))
         /\ Buckets(RangeStart(q, S), RangeEnd(q, S), q.granularity) \in SUBSET Int
         /\ \A i \in S : bucketStart(Book[i].at, q.granularity) \in
                           Buckets(RangeStart(q, S), RangeEnd(q, S), q.granularity)
  <1> PICK a : a = RangeStart(q, S)
    OBVIOUS
  <1> PICK b : b = RangeEnd(q, S)
    OBVIOUS
  <1> PICK T \in Nat \ {0} : T = TicksPerDay
    BY ReportsAssumption
  <1>1. S \in SUBSET DOMAIN Book /\ None \notin Nat
    BY ReportsAssumption DEF Moving
  <1>2. /\ Earliest(S) \in Nat /\ Latest(S) \in Nat
        /\ \A i \in S : Earliest(S) <= Book[i].at /\ Book[i].at <= Latest(S)
    BY <1>1, FirstAndLast
  <1>3. \A i \in S : /\ Book[i].at \in Nat /\ inDateRange(Book[i].at, q)
                     /\ Book[i].kind \in {"transfer", "deposit"}
    BY <1>1, BookTyped DEF Moving
  <1>4. a = IF q.start # None THEN q.start ELSE Earliest(S)
    BY DEF RangeStart
  <1>5. b = IF q.end # None THEN q.end ELSE Latest(S)
    BY DEF RangeEnd
  <1>6. /\ q.start # None => q.start \in Nat
        /\ q.end # None => q.end \in Nat /\ q.end % TicksPerDay = 0
        /\ q.granularity \in DOMAIN Span
    BY DEF Question
  <1>7. a \in Nat /\ b \in Nat
    BY <1>2, <1>4, <1>5, <1>6
  <1>8. ASSUME NEW i \in S
        PROVE  /\ a <= Book[i].at
               /\ Book[i].at <= b \/ (b % TicksPerDay = 0 /\ Book[i].at < b + TicksPerDay)
    <2> PICK t \in Nat : t = Book[i].at
      BY <1>3
    <2>1. inDateRange(t, q) /\ Earliest(S) <= t /\ t <= Latest(S)
      BY <1>2, <1>3
    <2>2. a <= t
      BY <1>4, <1>7, <2>1 DEF inDateRange
    <2>3. CASE q.end # None
      <3>1. t <= q.end + TicksPerDay - 1
        BY <2>1, <2>3 DEF inDateRange
      <3>2. t < b + TicksPerDay
        BY <1>5, <1>7, <2>3, <3>1
      <3> QED
        BY <1>5, <1>6, <2>2, <2>3, <3>2
    <2>4. CASE q.end = None
      BY <1>5, <2>1, <2>2, <2>4
    <2> QED
      BY <2>3, <2>4
  <1>9. a <= b
    <2>1. PICK i \in S : TRUE
      OBVIOUS
    <2> PICK t \in Nat : t = Book[i].at
      BY <1>3
    <2>2. a <= t /\ inDateRange(t, q) /\ t <= Latest(S)
      BY <1>2, <1>3, <1>8
    <2>3. CASE q.end = None
      BY <1>5, <1>7, <2>2, <2>3
    <2>4. CASE q.end # None /\ q.start # None
      BY <1>4, <1>5, <1>6, <2>4 DEF Question, DatesInOrder
    <2>5. CASE q.end # None /\ q.start = None
      <3>1. t <= q.end + TicksPerDay - 1
        BY <2>2, <2>5 DEF inDateRange
      <3>2. ~(q.end < t /\ t < q.end + TicksPerDay)
        BY <1>1, <1>3, <2>5 DEF Question, Comparable
      <3>3. t <= b
        BY <1>5, <1>7, <2>5, <3>1, <3>2
      <3> QED
        BY <1>7, <2>2, <3>3
    <2> QED
      BY <2>3, <2>4, <2>5
  <1>10. ~NoRange(q, S)
    BY <1>1, <1>7, <1>9 DEF NoRange
  <1>11. \A i \in S : bucketStart(Book[i].at, q.granularity) \in Buckets(a, b, q.granularity)
    BY <1>3, <1>6, <1>7, <1>8, BucketInRange
  <1> QED
    BY <1>6, <1>7, <1>10, <1>11, BucketsFinite

-----------------------------------------------------------------------------
(* The endpoints' tables *)

\* Entries have finitely many keys.
LEMMA KeysFinite ==
  ASSUME NEW F \in SUBSET DOMAIN Book, NEW key
  PROVE  IsFiniteSet({key[i] : i \in F})
  <1> DEFINE f == [i \in F |-> key[i]]
  <1>1. IsFiniteSet(F) /\ DOMAIN f = F /\ \A i \in F : f[i] = key[i]
    BY AmountTotal
  <1> HIDE DEF f
  <1>2. IsFiniteSet({f[i] : i \in F})
    BY <1>1, FiniteImage
  <1>3. {f[i] : i \in F} = {key[i] : i \in F}
    BY <1>1
  <1> QED
    BY <1>2, <1>3

\* A table of the amounts by the key of each entry.
Tabled(rows, F, key) ==
  /\ IsFiniteSet(DOMAIN rows)
  /\ \A i \in F : key[i] \in DOMAIN rows
  /\ \A k \in DOMAIN rows : rows[k] = AmountOf({i \in F : key[i] = k})

\* Rows of zeros change nothing of that.
LEMMA FilledTable ==
  ASSUME NEW F \in SUBSET DOMAIN Book, NEW rows, NEW key, Tabled(rows, F, key),
         NEW keys, IsFiniteSet(keys)
  PROVE  Tabled(ZeroFilled(rows, keys), F, key)
  <1> DEFINE full == ZeroFilled(rows, keys)
  <1>1. /\ DOMAIN full = keys \cup DOMAIN rows
        /\ \A k \in DOMAIN full : full[k] = IF k \in DOMAIN rows THEN rows[k] ELSE 0
    BY DEF ZeroFilled
  <1>2. IsFiniteSet(DOMAIN full)
    <2>1. IsFiniteSet(keys) /\ IsFiniteSet(DOMAIN rows)
      BY DEF Tabled
    <2>2. IsFiniteSet(keys \cup DOMAIN rows)
      BY <2>1, FS_Union
    <2> QED
      BY ONLY <1>1, <2>2
  <1>3. ASSUME NEW k \in DOMAIN full
        PROVE  full[k] = AmountOf({i \in F : key[i] = k})
    <2>1. CASE k \in DOMAIN rows
      BY <1>1, <2>1 DEF Tabled
    <2>2. CASE k \notin DOMAIN rows
      <3>1. {i \in F : key[i] = k} = {}
        BY <2>2 DEF Tabled
      <3>2. AmountOf({}) = 0
        BY AmountTotal, TotalEmpty
      <3> QED
        BY <1>1, <2>2, <3>1, <3>2
    <2> QED
      BY <2>1, <2>2
  <1> HIDE DEF full
  <1> QED
    BY <1>1, <1>2, <1>3 DEF Tabled, full

\* A table adds up to its entries,
LEMMA TabledSum ==
  ASSUME NEW F \in SUBSET DOMAIN Book, NEW rows, NEW key, Tabled(rows, F, key)
  PROVE  Sigma(rows) = AmountOf(F)
  BY TableSum DEF Tabled

\* and the rows of a token to those of the token.
LEMMA TabledTokenSum ==
  ASSUME NEW F \in SUBSET DOMAIN Book, NEW rows, NEW key, NEW t, Tabled(rows, F, key),
         \A i \in F : key[i][2] = Token(i)
  PROVE  Sigma(OfToken(rows, t)) = AmountOf({i \in F : Token(i) = t})
  BY TokenSum DEF Tabled

\* The transfers that the tables of a query split.
Matching(q) == {i \in ExecutedTransfers : proposalMatchesFilters(i, q)}

\* What the endpoints select is in the book.
LEMMA MatchingInBook ==
  ASSUME indexed \in 0..Len(Book), NEW q
  PROVE  /\ Indexed \in SUBSET DOMAIN Book
         /\ ExecutedTransfers \in SUBSET DOMAIN Book /\ Deposits \in SUBSET DOMAIN Book
         /\ Matching(q) \in SUBSET DOMAIN Book
  <1>1. 1..indexed \subseteq 1..Len(Book)
    BY ReportsAssumption
  <1> QED
    BY <1>1, ReportsAssumption DEF Indexed, ExecutedTransfers, Deposits, Matching

\* The table by category splits the matching transfers,
LEMMA CategoryTable ==
  ASSUME indexed \in 0..Len(Book), NEW q
  PROVE  Tabled(handleGetSpendByCategory(q), Matching(q),
                [i \in DOMAIN Book |-> <<Category(i), Token(i)>>])
  <1> DEFINE F    == Matching(q)
             key  == [i \in DOMAIN Book |-> <<Category(i), Token(i)>>]
             rows == handleGetSpendByCategory(q)
  <1>1. F \in SUBSET DOMAIN Book /\ \A i \in DOMAIN Book : key[i] = CategoryAndToken(i)
    BY MatchingInBook DEF CategoryAndToken
  <1>2. /\ DOMAIN rows = {CategoryAndToken(i) : i \in F}
        /\ \A k \in DOMAIN rows : rows[k] = AmountOf({i \in F : CategoryAndToken(i) = k})
    BY DEF handleGetSpendByCategory, TotalsBy, Matching
  <1> HIDE DEF F, key, rows
  <1>3. {CategoryAndToken(i) : i \in F} = {key[i] : i \in F}
    BY <1>1
  <1>4. \A k : {i \in F : CategoryAndToken(i) = k} = {i \in F : key[i] = k}
    BY <1>1
  <1>5. IsFiniteSet(DOMAIN rows)
    <2>1. IsFiniteSet({key[i] : i \in F})
      BY <1>1, KeysFinite
    <2> QED
      BY ONLY <1>2, <1>3, <2>1
  <1>6. Tabled(rows, F, key)
    BY <1>2, <1>3, <1>4, <1>5 DEF Tabled
  <1> QED
    BY <1>6 DEF F, key, rows

\* and so does the table by owner, whose rows of zeros add nothing.
LEMMA OwnerTable ==
  ASSUME indexed \in 0..Len(Book), NEW q
  PROVE  Tabled(handleGetSpendByOwner(q), Matching(q),
                [i \in DOMAIN Book |-> <<Proposer(i), Token(i)>>])
  <1> DEFINE F    == Matching(q)
             key  == [i \in DOMAIN Book |-> <<Proposer(i), Token(i)>>]
             rows == TotalsBy(F, OwnerAndToken)
             idle == {o \in Members : /\ \A k \in DOMAIN rows : k[1] # o
                                      /\ q.owner # None => o = q.owner}
             zeroToken == IF q.token = None THEN "XLM" ELSE q.token
  <1>1. F \in SUBSET DOMAIN Book /\ \A i \in DOMAIN Book : key[i] = OwnerAndToken(i)
    BY MatchingInBook DEF OwnerAndToken
  <1>2. /\ DOMAIN rows = {OwnerAndToken(i) : i \in F}
        /\ \A k \in DOMAIN rows : rows[k] = AmountOf({i \in F : OwnerAndToken(i) = k})
    BY DEF TotalsBy
  <1>3. handleGetSpendByOwner(q) = ZeroFilled(rows, idle \X {zeroToken})
    BY DEF handleGetSpendByOwner, Matching
  <1>4. IsFiniteSet(idle \X {zeroToken})
    <2>1. IsFiniteSet(idle)
      BY ReportsAssumption, FS_Subset
    <2> HIDE DEF idle
    <2> QED
      BY <2>1, FS_Singleton, FS_Product
  <1> HIDE DEF F, key, rows, idle, zeroToken
  <1>5. {OwnerAndToken(i) : i \in F} = {key[i] : i \in F}
    BY <1>1
  <1>6. \A k : {i \in F : OwnerAndToken(i) = k} = {i \in F : key[i] = k}
    BY <1>1
  <1>7. IsFiniteSet(DOMAIN rows)
    <2>1. IsFiniteSet({key[i] : i \in F})
      BY <1>1, KeysFinite
    <2> QED
      BY ONLY <1>2, <1>5, <2>1
  <1>8. Tabled(rows, F, key)
    BY <1>2, <1>5, <1>6, <1>7 DEF Tabled
  <1>9. Tabled(ZeroFilled(rows, idle \X {zeroToken}), F, key)
    BY <1>1, <1>4, <1>8, FilledTable
  <1> QED
    BY <1>3, <1>9 DEF F, key

\* What a flow counts as going out and as coming in.
Outgoing(q) ==
  {i \in ExecutedTransfers : /\ q.token # None => Token(i) = q.token
                             /\ inDateRange(Book[i].at, q)}
Incoming(q) ==
  {i \in Deposits : /\ q.token # None => Token(i) = q.token
                    /\ inDateRange(Book[i].at, q)}

Outflows(flow) == [k \in DOMAIN flow |-> flow[k].outflow]

\* The flow selects moves of the dates asked for.
LEMMA FlowMoves ==
  ASSUME indexed \in 0..Len(Book), NEW q
  PROVE  Outgoing(q) \cup Incoming(q) \in SUBSET Moving(q)
  BY MatchingInBook DEF Outgoing, Incoming, Moving, ExecutedTransfers, Deposits

\* The ends of a range are ticks.
LEMMA RangeTyped ==
  ASSUME NEW q, Question(q), NEW S \in SUBSET Moving(q), ~NoRange(q, S)
  PROVE  RangeStart(q, S) \in Nat /\ RangeEnd(q, S) \in Nat
  <1>1. S \in SUBSET DOMAIN Book
    BY DEF Moving
  <1>2. S # {} => Earliest(S) \in Nat /\ Latest(S) \in Nat
    BY <1>1, FirstAndLast
  <1>3. /\ q.start # None => q.start \in Nat
        /\ q.end # None => q.end \in Nat
    BY DEF Question
  <1> QED
    BY <1>2, <1>3 DEF NoRange, RangeStart, RangeEnd

\* The outflow of the flow splits the transfers that go out.
LEMMA FlowTable ==
  ASSUME indexed \in 0..Len(Book), NEW q, Question(q)
  PROVE  Tabled(Outflows(handleGetTreasuryFlow(q)), Outgoing(q),
                [i \in DOMAIN Book |-> <<bucketStart(Book[i].at, q.granularity), Token(i)>>])
  <1> DEFINE F      == Outgoing(q)
             moved  == Outgoing(q) \cup Incoming(q)
             tokens == {Token(i) : i \in moved} \cup (IF q.token = None THEN {} ELSE {q.token})
             key    == [i \in DOMAIN Book |-> <<bucketStart(Book[i].at, q.granularity), Token(i)>>]
             flow   == handleGetTreasuryFlow(q)
             buckets == Buckets(RangeStart(q, moved), RangeEnd(q, moved), q.granularity)
             cell(k) == {i \in F : <<bucketStart(Book[i].at, q.granularity), Token(i)>> = k}
             empty  == tokens = {} \/ NoRange(q, moved)
  <1>1. /\ F \in SUBSET DOMAIN Book /\ moved \in SUBSET DOMAIN Book
        /\ moved \in SUBSET Moving(q)
    BY FlowMoves DEF Moving
  <1>2. empty => flow = << >>
    BY DEF handleGetTreasuryFlow, Outgoing, Incoming
  <1>3. ~empty => /\ DOMAIN flow = buckets \X tokens
                  /\ \A k \in DOMAIN flow : flow[k].outflow = AmountOf(cell(k))
    BY DEF handleGetTreasuryFlow, Outgoing, Incoming
  <1>4. DOMAIN << >> = {}
    OBVIOUS
  <1>5. IsFiniteSet(tokens)
    <2> DEFINE of == [i \in DOMAIN Book |-> Token(i)]
    <2>1. {of[i] : i \in moved} = {Token(i) : i \in moved}
      BY <1>1
    <2> HIDE DEF of, moved
    <2>2. IsFiniteSet({of[i] : i \in moved})
      BY <1>1, KeysFinite
    <2>3. IsFiniteSet({Token(i) : i \in moved})
      BY ONLY <2>1, <2>2
    <2>4. IsFiniteSet(IF q.token = None THEN {} ELSE {q.token})
      BY FS_EmptySet, FS_Singleton
    <2> QED
      BY <2>3, <2>4, FS_Union
  <1> HIDE DEF moved, tokens, flow
  <1>6. ASSUME ~empty
        PROVE  IsFiniteSet(buckets \X tokens)
    <2>1. RangeStart(q, moved) \in Nat /\ RangeEnd(q, moved) \in Nat
      BY <1>1, <1>6, RangeTyped
    <2>2. IsFiniteSet(buckets)
      BY <2>1, BucketsFinite DEF Question
    <2> HIDE DEF buckets
    <2> QED
      BY <1>5, <2>2, FS_Product
  <1> DEFINE rows == Outflows(flow)
  <1>7. DOMAIN rows = DOMAIN flow /\ \A k \in DOMAIN rows : rows[k] = flow[k].outflow
    BY DEF Outflows
  <1> HIDE DEF empty, rows
  <1>8. IsFiniteSet(DOMAIN rows)
    BY <1>2, <1>3, <1>4, <1>6, <1>7, FS_EmptySet
  <1>9. ASSUME NEW i \in F
        PROVE  key[i] \in DOMAIN rows
    <2>1. i \in moved /\ i \in DOMAIN Book /\ moved # {} /\ Token(i) \in tokens
      BY <1>1 DEF moved, tokens
    <2>2. ~NoRange(q, moved) /\ bucketStart(Book[i].at, q.granularity) \in buckets
      BY <1>1, <2>1, RangeHolds
    <2>3. ~empty
      BY <2>1, <2>2 DEF empty
    <2> HIDE DEF buckets
    <2> QED
      BY <1>3, <1>7, <2>1, <2>2, <2>3
  <1>10. ASSUME NEW k \in DOMAIN rows
         PROVE  rows[k] = AmountOf({i \in F : key[i] = k})
    <2>1. ~empty
      BY <1>2, <1>4, <1>7
    <2>2. cell(k) = {i \in F : key[i] = k}
      BY <1>1
    <2> QED
      BY <1>3, <1>7, <2>1, <2>2
  <1> HIDE DEF key, F
  <1>11. Tabled(rows, F, key)
    BY <1>8, <1>9, <1>10 DEF Tabled
  <1> QED
    BY <1>11 DEF rows, F, key, flow

\* The tables of the endpoints split the same spending.
LEMMA EndpointsTrue ==
  ASSUME indexed \in 0..Len(Book), NEW q, Question(q)
  PROVE  EndpointsAgree(q)
  <1> DEFINE F == Matching(q)
  <1>1. F \in SUBSET DOMAIN Book
    BY MatchingInBook
  <1>2. ASSUME NEW t
        PROVE  /\ Sigma(OfToken(handleGetSpendByCategory(q), t)) = AmountOf({i \in F : Token(i) = t})
               /\ Sigma(OfToken(handleGetSpendByOwner(q), t)) = AmountOf({i \in F : Token(i) = t})
    <2> PICK byC : byC = [i \in DOMAIN Book |-> <<Category(i), Token(i)>>]
      OBVIOUS
    <2> PICK byO : byO = [i \in DOMAIN Book |-> <<Proposer(i), Token(i)>>]
      OBVIOUS
    <2>1. \A i \in F : byC[i][2] = Token(i) /\ byO[i][2] = Token(i)
      BY <1>1
    <2>2. Tabled(handleGetSpendByCategory(q), F, byC)
      BY CategoryTable
    <2>3. Tabled(handleGetSpendByOwner(q), F, byO)
      BY OwnerTable
    <2> HIDE DEF F
    <2> QED
      BY <1>1, <2>1, <2>2, <2>3, TabledTokenSum
  <1>3. ASSUME NEW t \in Tokens, q.token = None
        PROVE  Sigma(handleGetSpendByCategory([q EXCEPT !.token = t]))
                 = AmountOf({i \in F : Token(i) = t})
    <2> DEFINE asked == [q EXCEPT !.token = t]
    <2>1. /\ asked.token = t /\ asked.category = q.category /\ asked.owner = q.owner
          /\ asked.start = q.start /\ asked.end = q.end
      BY DEF Question
    <2>2. t # None
      BY <1>3, ReportsAssumption DEF Tokens, Token
    <2> HIDE DEF asked
    <2>3. Matching(asked) = {i \in F : Token(i) = t}
      BY <1>3, <2>1, <2>2 DEF Matching, proposalMatchesFilters, inDateRange
    <2>4. Matching(asked) \in SUBSET DOMAIN Book
      BY MatchingInBook
    <2>5. Sigma(handleGetSpendByCategory(asked)) = AmountOf(Matching(asked))
      BY <2>4, CategoryTable, TabledSum
    <2> QED
      BY <2>3, <2>5 DEF asked
  <1>4. ASSUME NEW t, q.category = None, q.owner = None
        PROVE  LET totals == handleGetStatsSummary(q).totalDisbursed IN
                 AmountOf({i \in F : Token(i) = t}) = IF t \in DOMAIN totals THEN totals[t] ELSE 0
    <2> DEFINE totals == handleGetStatsSummary(q).totalDisbursed
               spent == {i \in ExecutedTransfers :
                           /\ q.token # None => Book[i].token = q.token
                           /\ inDateRange(Book[i].at, q)}
    <2>1. spent = F
      <3>1. ASSUME NEW i \in ExecutedTransfers, q.token # None
            PROVE  Book[i].token = q.token <=> Token(i) = q.token
        <4>1. i \in DOMAIN Book /\ Book[i].kind = "transfer"
          BY MatchingInBook DEF ExecutedTransfers
        <4>2. q.token = "XLM" => Book[i].token # None
          BY <4>1 DEF Question, Comparable
        <4> QED
          BY <3>1, <4>2 DEF Token
      <3> QED
        BY <1>4, <3>1 DEF Matching, proposalMatchesFilters
    <2>2. totals = TotalsBy(spent, Token)
      BY DEF handleGetStatsSummary
    <2>3. totals = TotalsBy(F, Token)
      BY <2>1, <2>2 DEF TotalsBy
    <2>4. /\ DOMAIN totals = {Token(i) : i \in F}
          /\ \A k \in DOMAIN totals : totals[k] = AmountOf({i \in F : Token(i) = k})
      BY <2>3 DEF TotalsBy
    <2>5. AmountOf({}) = 0
      BY AmountTotal, TotalEmpty
    <2>6. t \notin DOMAIN totals => {i \in F : Token(i) = t} = {}
      BY <2>4
    <2> HIDE DEF totals, F
    <2>7. AmountOf({i \in F : Token(i) = t}) = IF t \in DOMAIN totals THEN totals[t] ELSE 0
      BY <2>4, <2>5, <2>6
    <2> QED
      BY <2>7 DEF totals
  <1>5. ASSUME NEW t, q.category = None, q.owner = None
        PROVE  LET flow == handleGetTreasuryFlow(q) IN
                 Sigma([k \in {k \in DOMAIN flow : k[2] = t} |-> flow[k].outflow])
                   = AmountOf({i \in F : Token(i) = t})
    <2> PICK flow : flow = handleGetTreasuryFlow(q)
      OBVIOUS
    <2> PICK key : key = [i \in DOMAIN Book |-> <<bucketStart(Book[i].at, q.granularity), Token(i)>>]
      OBVIOUS
    <2>1. F = Outgoing(q)
      BY <1>5 DEF Matching, Outgoing, proposalMatchesFilters
    <2>2. Tabled(Outflows(flow), F, key)
      BY <2>1, FlowTable
    <2>3. \A i \in F : key[i][2] = Token(i)
      BY <1>1
    <2>4. Sigma(OfToken(Outflows(flow), t)) = AmountOf({i \in F : Token(i) = t})
      BY <1>1, <2>2, <2>3, TabledTokenSum
    <2>5. [k \in {k \in DOMAIN flow : k[2] = t} |-> flow[k].outflow] = OfToken(Outflows(flow), t)
      BY DEF OfToken, Outflows
    <2> QED
      BY <2>4, <2>5
  <1> HIDE DEF F
  <1> QED
    BY <1>2, <1>3, <1>4, <1>5 DEF EndpointsAgree

-----------------------------------------------------------------------------
(* The library's figures *)

\* The query without its category, owner and token.
Free(q) == [q EXCEPT !.category = None, !.owner = None, !.token = None]

\* Such a query is one of days too.
LEMMA FreeQuestion ==
  ASSUME NEW q, Question(q)
  PROVE  /\ Question(Free(q))
         /\ Free(q).category = None /\ Free(q).owner = None /\ Free(q).token = None
         /\ Free(q).start = q.start /\ Free(q).end = q.end /\ Free(q).granularity = q.granularity
  <1> DEFINE free == Free(q)
  <1>1. /\ DOMAIN free = DOMAIN q
        /\ free.category = None /\ free.owner = None /\ free.token = None
        /\ free.start = q.start /\ free.end = q.end /\ free.granularity = q.granularity
    BY DEF Free, Question
  <1> HIDE DEF free
  <1>2. DatesInOrder(free)
    BY <1>1 DEF Question, DatesInOrder
  <1>3. Comparable(free)
    BY <1>1, ReportsAssumption DEF Question, Comparable
  <1>4. Question(free)
    BY <1>1, <1>2, <1>3 DEF Question
  <1> QED
    BY <1>1, <1>4 DEF free

\* Executed transfers in the dates of a query.
Spent(q) == {i \in ExecutedTransfers : inDateRange(Book[i].at, q)}

\* What was spent is in the book.
LEMMA SpentInBook ==
  ASSUME indexed \in 0..Len(Book), NEW q
  PROVE  Spent(q) \in SUBSET DOMAIN Book
  BY MatchingInBook DEF Spent

\* The library's table by category adds up to what was spent,
LEMMA CategoriesAddUp ==
  ASSUME indexed \in 0..Len(Book), NEW q
  PROVE  Sigma(computeSpendByCategory(q)) = AmountOf(Spent(q))
  <1> DEFINE F    == Spent(q)
             key  == [i \in DOMAIN Book |-> NormalCategory(i)]
             rows == TotalsBy(F, NormalCategory)
  <1>1. F \in SUBSET DOMAIN Book /\ \A i \in DOMAIN Book : key[i] = NormalCategory(i)
    BY SpentInBook
  <1>2. /\ DOMAIN rows = {NormalCategory(i) : i \in F}
        /\ \A k \in DOMAIN rows : rows[k] = AmountOf({i \in F : NormalCategory(i) = k})
    BY DEF TotalsBy
  <1>3. {i \in ExecutedTransfers : inSpendDateRange(Book[i].at, q)} = F
    BY DEF inSpendDateRange, inDateRange, Spent
  <1>4. computeSpendByCategory(q) = ZeroFilled(rows, Categories)
    BY <1>3 DEF computeSpendByCategory
  <1> HIDE DEF F, key, rows
  <1>5. {NormalCategory(i) : i \in F} = {key[i] : i \in F}
    BY <1>1
  <1>6. \A k : {i \in F : NormalCategory(i) = k} = {i \in F : key[i] = k}
    BY <1>1
  <1>7. IsFiniteSet(DOMAIN rows)
    <2>1. IsFiniteSet({key[i] : i \in F})
      BY <1>1, KeysFinite
    <2> QED
      BY ONLY <1>2, <1>5, <2>1
  <1>8. Tabled(rows, F, key)
    BY <1>2, <1>5, <1>6, <1>7 DEF Tabled
  <1>9. Tabled(ZeroFilled(rows, Categories), F, key)
    BY <1>1, <1>8, ReportsAssumption, FilledTable
  <1> QED
    BY <1>1, <1>4, <1>9, TabledSum DEF F

\* and its table by owner,
LEMMA OwnersAddUp ==
  ASSUME indexed \in 0..Len(Book), NEW q
  PROVE  Sigma(computeSpendByOwner(q)) = AmountOf(Spent(q))
  <1> DEFINE F    == Spent(q)
             key  == [i \in DOMAIN Book |-> Proposer(i)]
             rows == TotalsBy(F, Proposer)
  <1>1. F \in SUBSET DOMAIN Book /\ \A i \in DOMAIN Book : key[i] = Proposer(i)
    BY SpentInBook
  <1>2. /\ DOMAIN rows = {Proposer(i) : i \in F}
        /\ \A k \in DOMAIN rows : rows[k] = AmountOf({i \in F : Proposer(i) = k})
    BY DEF TotalsBy
  <1>4. computeSpendByOwner(q) = ZeroFilled(rows, Members)
    BY DEF computeSpendByOwner, Spent
  <1> HIDE DEF F, key, rows
  <1>5. {Proposer(i) : i \in F} = {key[i] : i \in F}
    BY <1>1
  <1>6. \A k : {i \in F : Proposer(i) = k} = {i \in F : key[i] = k}
    BY <1>1
  <1>7. IsFiniteSet(DOMAIN rows)
    <2>1. IsFiniteSet({key[i] : i \in F})
      BY <1>1, KeysFinite
    <2> QED
      BY ONLY <1>2, <1>5, <2>1
  <1>8. Tabled(rows, F, key)
    BY <1>2, <1>5, <1>6, <1>7 DEF Tabled
  <1>9. Tabled(ZeroFilled(rows, Members), F, key)
    BY <1>1, <1>8, ReportsAssumption, FilledTable
  <1> QED
    BY <1>1, <1>4, <1>9, TabledSum DEF F

\* and its summary.
LEMMA SummaryAddsUp ==
  ASSUME indexed \in 0..Len(Book), NEW q, q.token = None
  PROVE  Sigma(computeTreasurySummary(q).totalDisbursed) = AmountOf(Spent(q))
  <1> DEFINE F    == Spent(q)
             key  == [i \in DOMAIN Book |-> Token(i)]
             rows == computeTreasurySummary(q).totalDisbursed
             all  == {i \in ExecutedTransfers :
                        /\ q.token # None => Book[i].token = q.token
                        /\ inDateRange(Book[i].at, q)}
  <1>1. F \in SUBSET DOMAIN Book /\ \A i \in DOMAIN Book : key[i] = Token(i)
    BY SpentInBook
  <1>2. rows = TotalsBy(all, Token) /\ all = F
    BY DEF computeTreasurySummary, Spent
  <1>3. /\ DOMAIN rows = {Token(i) : i \in F}
        /\ \A k \in DOMAIN rows : rows[k] = AmountOf({i \in F : Token(i) = k})
    BY <1>2 DEF TotalsBy
  <1> HIDE DEF F, key, rows
  <1>5. {Token(i) : i \in F} = {key[i] : i \in F}
    BY <1>1
  <1>6. \A k : {i \in F : Token(i) = k} = {i \in F : key[i] = k}
    BY <1>1
  <1>7. IsFiniteSet(DOMAIN rows)
    <2>1. IsFiniteSet({key[i] : i \in F})
      BY <1>1, KeysFinite
    <2> QED
      BY ONLY <1>3, <1>5, <2>1
  <1>8. Tabled(rows, F, key)
    BY <1>3, <1>5, <1>6, <1>7 DEF Tabled
  <1> QED
    BY <1>1, <1>8, TabledSum DEF F, rows

\* The running total at the end of a flow.
Ending(f) ==
  IF DOMAIN f = {} THEN 0
  ELSE f[CHOOSE t \in DOMAIN f : \A u \in DOMAIN f : u <= t].cumulative

\* No entries are worth nothing.
LEMMA AmountOfNone == AmountOf({}) = 0
  BY AmountTotal, TotalEmpty

\* What holds of the greatest period holds of the end.
LEMMA EndingIs ==
  ASSUME NEW f, NEW whole, DOMAIN f \in SUBSET Int, IsFiniteSet(DOMAIN f),
         DOMAIN f = {} => whole = 0,
         \A t \in DOMAIN f : (\A u \in DOMAIN f : u <= t) => f[t].cumulative = whole
  PROVE  Ending(f) = whole
  <1>1. CASE DOMAIN f = {}
    BY <1>1 DEF Ending
  <1>2. CASE DOMAIN f # {}
    <2>1. \E t \in DOMAIN f : \A u \in DOMAIN f : u <= t
      BY <1>2, GreatestInteger
    <2>2. PICK m : m = CHOOSE t \in DOMAIN f : \A u \in DOMAIN f : u <= t
      OBVIOUS
    <2>3. m \in DOMAIN f /\ \A u \in DOMAIN f : u <= m
      BY <2>1, <2>2
    <2> QED
      BY <1>2, <2>2, <2>3 DEF Ending
  <1> QED
    BY <1>1, <1>2

\* The last running total of the library's flow.
LEMMA FlowEnds ==
  ASSUME indexed \in 0..Len(Book), NEW q, Question(q)
  PROVE  Ending(computeTreasuryFlow(q)) = AmountOf(Spent(q))
  <1> DEFINE F      == Spent(q)
             paidIn == {i \in Deposits : inDateRange(Book[i].at, q)}
             moved  == F \cup paidIn
             g      == q.granularity
             buckets == Buckets(RangeStart(q, moved), RangeEnd(q, moved), g)
             flow   == computeTreasuryFlow(q)
  <1>1. /\ F \in SUBSET DOMAIN Book /\ F \in SUBSET moved
        /\ moved \in SUBSET Moving(q)
    BY MatchingInBook DEF Spent, Moving, ExecutedTransfers, Deposits
  <1>2. NoRange(q, moved) => flow = << >>
    BY DEF computeTreasuryFlow, Spent
  <1>3. ~NoRange(q, moved) =>
          /\ DOMAIN flow = buckets
          /\ \A t \in buckets : flow[t].cumulative =
               AmountOf({i \in F : bucketStart(Book[i].at, g) \in {u \in buckets : u <= t}})
    BY DEF computeTreasuryFlow, Spent
  <1>4. DOMAIN << >> = {}
    OBVIOUS
  <1>5. F # {} => /\ ~NoRange(q, moved)
                  /\ \A i \in F : bucketStart(Book[i].at, g) \in buckets
    BY <1>1, RangeHolds
  <1>6. ~NoRange(q, moved) => IsFiniteSet(buckets) /\ buckets \in SUBSET Int
    BY <1>1, RangeTyped, BucketsFinite DEF Question
  <1> HIDE DEF F, moved, flow, buckets
  <1>7. DOMAIN flow \in SUBSET Int /\ IsFiniteSet(DOMAIN flow)
    BY <1>2, <1>3, <1>4, <1>6, FS_EmptySet
  <1>8. DOMAIN flow = {} => AmountOf(F) = 0
    BY <1>3, <1>5, AmountOfNone
  <1>9. ASSUME NEW t \in DOMAIN flow, \A u \in DOMAIN flow : u <= t
        PROVE  flow[t].cumulative = AmountOf(F)
    <2>1. ~NoRange(q, moved) /\ DOMAIN flow = buckets
      BY <1>2, <1>3, <1>4
    <2>2. {i \in F : bucketStart(Book[i].at, g) \in {u \in buckets : u <= t}} = F
      BY <1>5, <1>9, <2>1
    <2> QED
      BY <1>3, <2>1, <2>2
  <1>10. Ending(flow) = AmountOf(F)
    BY <1>7, <1>8, <1>9, EndingIs
  <1> QED
    BY <1>10 DEF flow, F

\* The last running total of the page's chart.
LEMMA ChartEnds ==
  ASSUME indexed \in 0..Len(Book), NEW q, Question(q), q.token = None
  PROVE  Ending(toTreasuryFlowChart(handleGetTreasuryFlow(q))) = AmountOf(Spent(q))
  <1> DEFINE F     == Spent(q)
             flow  == handleGetTreasuryFlow(q)
             chart == toTreasuryFlowChart(flow)
             moved == Outgoing(q) \cup Incoming(q)
             key   == [i \in DOMAIN Book |-> <<bucketStart(Book[i].at, q.granularity), Token(i)>>]
             periods == {k[1] : k \in DOMAIN flow}
  <1>1. F \in SUBSET DOMAIN Book /\ Outgoing(q) = F
    BY SpentInBook DEF Spent, Outgoing
  <1>2. Tabled(Outflows(flow), F, key)
    BY <1>1, FlowTable
  <1>3. DOMAIN Outflows(flow) = DOMAIN flow
    BY DEF Outflows
  <1>4. Sigma(Outflows(flow)) = AmountOf(F)
    <2> HIDE DEF flow, F, key
    <2> QED
      BY <1>1, <1>2, TabledSum
  <1>5. ASSUME NEW k \in DOMAIN flow PROVE k[1] \in Int
    <2> DEFINE tokens == {Token(i) : i \in moved} \cup (IF q.token = None THEN {} ELSE {q.token})
               buckets == Buckets(RangeStart(q, moved), RangeEnd(q, moved), q.granularity)
    <2>1. ~(tokens = {} \/ NoRange(q, moved)) => DOMAIN flow = buckets \X tokens
      BY DEF handleGetTreasuryFlow, Outgoing, Incoming
    <2>2. tokens = {} \/ NoRange(q, moved) => flow = << >>
      BY DEF handleGetTreasuryFlow, Outgoing, Incoming
    <2>3. DOMAIN << >> = {}
      OBVIOUS
    <2>4. moved \in SUBSET Moving(q)
      BY FlowMoves
    <2> HIDE DEF flow, tokens, moved
    <2>5. ~NoRange(q, moved) /\ k \in buckets \X tokens
      BY <1>5, <2>1, <2>2, <2>3
    <2>6. buckets \in SUBSET Int
      BY <2>4, <2>5, RangeTyped, BucketsFinite DEF Question
    <2> QED
      BY <2>5, <2>6
  <1>6. DOMAIN chart = periods
    BY DEF toTreasuryFlowChart
  <1>7. \A t \in periods :
          chart[t].cumulative = Sigma([k \in {k \in DOMAIN flow : k[1] <= t} |-> flow[k].outflow])
    BY DEF toTreasuryFlowChart
  <1> HIDE DEF flow, chart, F
  <1>8. periods \in SUBSET Int
    BY <1>5
  <1>9. IsFiniteSet(periods)
    <2> DEFINE first == [k \in DOMAIN flow |-> k[1]]
    <2>1. IsFiniteSet(DOMAIN flow)
      BY <1>2, <1>3 DEF Tabled
    <2>2. DOMAIN first = DOMAIN flow /\ \A k \in DOMAIN flow : first[k] = k[1]
      OBVIOUS
    <2> HIDE DEF first
    <2>3. IsFiniteSet({first[k] : k \in DOMAIN flow})
      BY <2>1, <2>2, FiniteImage
    <2>4. {first[k] : k \in DOMAIN flow} = periods
      BY <2>2
    <2> QED
      BY ONLY <2>3, <2>4
  <1>10. DOMAIN chart = {} => AmountOf(F) = 0
    <2>1. SUFFICES ASSUME DOMAIN chart = {} PROVE F = {}
      BY AmountOfNone
    <2>2. DOMAIN flow = {}
      BY <1>6, <2>1
    <2> QED
      BY <1>2, <1>3, <2>2 DEF Tabled
  <1>11. ASSUME NEW t \in DOMAIN chart, \A u \in DOMAIN chart : u <= t
         PROVE  chart[t].cumulative = AmountOf(F)
    <2>1. {k \in DOMAIN flow : k[1] <= t} = DOMAIN flow
      BY <1>6, <1>11
    <2>2. chart[t].cumulative = Sigma(Outflows(flow))
      BY <1>6, <1>7, <2>1 DEF Outflows
    <2> QED
      BY <1>4, <2>2
  <1>12. Ending(chart) = AmountOf(F)
    <2> HIDE DEF periods
    <2> QED
      BY <1>6, <1>8, <1>9, <1>10, <1>11, EndingIs
  <1> QED
    BY <1>12 DEF chart, flow, F

\* The library's figures add up.
LEMMA LibraryTrue ==
  ASSUME indexed \in 0..Len(Book), NEW q, Question(q)
  PROVE  LibraryAgrees(q)
  <1>1. PICK free : free = Free(q)
    OBVIOUS
  <1>2. Question(free) /\ free.category = None /\ free.owner = None /\ free.token = None
    BY <1>1, FreeQuestion
  <1>3. filterExecutedTransfers(free) = Spent(free)
    BY <1>2 DEF filterExecutedTransfers, Spent
  <1>4. /\ Sigma(computeSpendByCategory(free)) = AmountOf(Spent(free))
        /\ Sigma(computeSpendByOwner(free)) = AmountOf(Spent(free))
        /\ Sigma(computeTreasurySummary(free).totalDisbursed) = AmountOf(Spent(free))
    BY <1>2, CategoriesAddUp, OwnersAddUp, SummaryAddsUp
  <1>5. /\ Ending(computeTreasuryFlow(free)) = AmountOf(Spent(free))
        /\ Ending(toTreasuryFlowChart(handleGetTreasuryFlow(free))) = AmountOf(Spent(free))
    BY <1>2, FlowEnds, ChartEnds
  <1>6. LibraryAgrees(q) <=>
          LET whole == AmountOf(filterExecutedTransfers(free))
          IN  /\ Sigma(computeSpendByCategory(free)) = whole
              /\ Sigma(computeSpendByOwner(free)) = whole
              /\ Sigma(computeTreasurySummary(free).totalDisbursed) = whole
              /\ Ending(computeTreasuryFlow(free)) = whole
              /\ Ending(toTreasuryFlowChart(handleGetTreasuryFlow(free))) = whole
    BY <1>1 DEF LibraryAgrees, Free, Ending
  <1> QED
    BY <1>3, <1>4, <1>5, <1>6

-----------------------------------------------------------------------------
(* The tool's figures *)

\* A table of the tool adds up to its summary.
LEMMA ToolTable ==
  ASSUME indexed \in 0..Len(Book), NEW rows, NEW key,
         DOMAIN rows = {key[i] : i \in normalizeProposals},
         \A k \in DOMAIN rows : rows[k] = ToolTotal({i \in normalizeProposals : key[i] = k})
  PROVE  AddUp(rows)
  <1> DEFINE F == normalizeProposals
  <1>1. F \in SUBSET DOMAIN Book
    BY MatchingInBook DEF normalizeProposals
  <1>2. runSummary = ToolTotal(F)
    BY DEF runSummary
  <1> HIDE DEF F
  <1>3. CASE \E i \in F : Book[i].kind = "action"
    <2>1. PICK i \in F : Book[i].kind = "action"
      BY <1>3
    <2>2. key[i] \in DOMAIN rows /\ rows[key[i]] = NaN
      BY <2>1 DEF ToolTotal, F
    <2>3. runSummary = NaN
      BY <1>2, <1>3 DEF ToolTotal
    <2> QED
      BY <2>2, <2>3 DEF AddUp
  <1>4. CASE ~\E i \in F : Book[i].kind = "action"
    <2>1. /\ runSummary = AmountOf(F)
          /\ \A k \in DOMAIN rows : rows[k] = AmountOf({i \in F : key[i] = k})
      BY <1>2, <1>4 DEF ToolTotal, F
    <2>2. ASSUME NEW k \in DOMAIN rows PROVE rows[k] # NaN
      <3>1. AmountOf({i \in F : key[i] = k}) \in Nat
        BY <1>1, AmountTotal
      <3>2. rows[k] \in Nat
        BY <2>1, <3>1
      <3> QED
        BY <3>2, ReportsAssumption DEF NaN
    <2>3. IsFiniteSet(DOMAIN rows)
      <3>1. IsFiniteSet({key[i] : i \in F})
        BY <1>1, KeysFinite
      <3> QED
        BY <3>1 DEF F
    <2>4. Tabled(rows, F, key)
      BY <2>1, <2>3 DEF Tabled, F
    <2>5. Sigma(rows) = AmountOf(F)
      BY <1>1, <2>4, TabledSum
    <2> QED
      BY <2>1, <2>2, <2>5 DEF AddUp
  <1> QED
    BY <1>3, <1>4

\* The tool's tables add up, or all of them are spoiled.
LEMMA ToolTrue ==
  ASSUME indexed \in 0..Len(Book), NEW q
  PROVE  ToolAgrees(q)
  <1> DEFINE F == normalizeProposals
  <1>1. F \in SUBSET DOMAIN Book
    BY MatchingInBook DEF normalizeProposals
  <1>2. AddUp(runSpendByCategory)
    <2> DEFINE key == [i \in DOMAIN Book |-> Category(i)]
    <2>1. /\ DOMAIN runSpendByCategory = {Category(i) : i \in F}
          /\ \A k \in DOMAIN runSpendByCategory :
               runSpendByCategory[k] = ToolTotal({i \in F : Category(i) = k})
      BY DEF runSpendByCategory, ToolRows
    <2>2. {Category(i) : i \in F} = {key[i] : i \in F}
      BY <1>1
    <2>3. \A k : {i \in F : Category(i) = k} = {i \in F : key[i] = k}
      BY <1>1
    <2> HIDE DEF key
    <2>4. /\ DOMAIN runSpendByCategory = {key[i] : i \in normalizeProposals}
          /\ \A k \in DOMAIN runSpendByCategory :
               runSpendByCategory[k] = ToolTotal({i \in normalizeProposals : key[i] = k})
      BY <2>1, <2>2, <2>3
    <2> QED
      BY <2>4, ToolTable
  <1>3. ASSUME NEW g PROVE AddUp(runTreasuryFlow(g))
    <2> DEFINE period(i) == bucketStart(Book[i].at, IF g = "month" THEN "month" ELSE "day")
               key == [i \in DOMAIN Book |-> period(i)]
               rows == runTreasuryFlow(g)
    <2>1. /\ DOMAIN rows = {period(i) : i \in F}
          /\ \A k \in DOMAIN rows : rows[k] = ToolTotal({i \in F : period(i) = k})
      BY DEF runTreasuryFlow, ToolRows
    <2>2. {period(i) : i \in F} = {key[i] : i \in F}
      BY <1>1
    <2>3. \A k : {i \in F : period(i) = k} = {i \in F : key[i] = k}
      BY <1>1
    <2> HIDE DEF key, period, rows
    <2>4. /\ DOMAIN rows = {key[i] : i \in normalizeProposals}
          /\ \A k \in DOMAIN rows :
               rows[k] = ToolTotal({i \in normalizeProposals : key[i] = k})
      BY <2>1, <2>2, <2>3
    <2>5. AddUp(rows)
      BY <2>4, ToolTable
    <2> QED
      BY <2>5 DEF rows
  <1> QED
    BY <1>2, <1>3 DEF ToolAgrees

-----------------------------------------------------------------------------
(* The page *)

\* A batch whose query the endpoints refuse has failed, or has an answer to
\* come that will make it fail.
ReportsInv ==
  /\ indexed \in 0..Len(Book)
  /\ query \in Filters
  /\ spentRequests \in Int
  /\ DOMAIN asking = {"open", "failed", "seen"}
  /\ ~parseAndValidateAnalyticsQuery(query) =>
       /\ figures = None
       /\ asking = Idle \/ asking.failed \/ asking.open # 0

\* There are endpoints to ask.
LEMMA SomeEndpoints == Cardinality(Endpoints) \in Nat \ {0}
  <1>1. IsFiniteSet(Endpoints)
    <2>1. Endpoints = {"summary"} \cup ({"balance"} \cup ({"byCategory"} \cup
                        ({"byOwner"} \cup {"flow"})))
      BY DEF Endpoints
    <2>2. \A x : IsFiniteSet({x})
      BY FS_Singleton
    <2>3. IsFiniteSet({"byOwner"} \cup {"flow"})
      BY <2>2, FS_Union
    <2>4. IsFiniteSet({"byCategory"} \cup ({"byOwner"} \cup {"flow"}))
      BY <2>2, <2>3, FS_Union
    <2>5. IsFiniteSet({"balance"} \cup ({"byCategory"} \cup ({"byOwner"} \cup {"flow"})))
      BY <2>2, <2>4, FS_Union
    <2> QED
      BY <2>1, <2>2, <2>5, FS_Union
  <1>2. Endpoints # {}
    BY DEF Endpoints
  <1> QED
    BY <1>1, <1>2, FS_CardinalityType, FS_EmptySet

\* A new batch has failed or has requests open.
LEMMA BatchSent ==
  ASSUME NEW q, spentRequests \in Int, Batch(q)
  PROVE  /\ spentRequests' \in Int
         /\ DOMAIN asking' = {"open", "failed", "seen"}
         /\ asking'.failed \/ asking'.open # 0
  <1>1. PICK sent : /\ sent = IF validateAnalyticsQuery(q)
                                THEN Least(Cardinality(Endpoints), RequestsPerMinute - spentRequests)
                                ELSE 0
                    /\ asking' = [open |-> sent, failed |-> sent < Cardinality(Endpoints), seen |-> {}]
                    /\ spentRequests' = spentRequests + sent
    BY DEF Batch
  <1>2. Cardinality(Endpoints) \in Nat \ {0} /\ RequestsPerMinute \in Nat
    BY SomeEndpoints, AnalyticsAssumption
  <1>3. sent \in Int
    BY <1>1, <1>2 DEF Least
  <1>4. sent < Cardinality(Endpoints) \/ sent # 0
    BY <1>2, <1>3
  <1>5. DOMAIN asking' = {"open", "failed", "seen"} /\ asking'.open = sent
    BY <1>1
  <1>6. asking'.failed = (sent < Cardinality(Endpoints))
    BY <1>1
  <1>7. spentRequests' \in Int
    BY <1>1, <1>3
  <1>8. asking'.failed \/ asking'.open # 0
    BY ONLY <1>4, <1>5, <1>6, Zenon
  <1> QED
    BY <1>5, <1>7, <1>8

\* No step gives figures to a query that the endpoints refuse.
LEMMA ReportsStep == ReportsInv /\ [AnalyticsNext]_reportVars => ReportsInv'
  <1> SUFFICES ASSUME ReportsInv, [AnalyticsNext]_reportVars
               PROVE  ReportsInv'
    OBVIOUS
  <1> USE DEF ReportsInv
  <1>1. Len(Book) \in Nat
    BY ReportsAssumption
  <1>2. ASSUME query' = query PROVE parseAndValidateAnalyticsQuery(query)' = parseAndValidateAnalyticsQuery(query)
    BY <1>2 DEF parseAndValidateAnalyticsQuery, PageInRange, WellNamed, DatesInOrder
  <1>3. CASE PollAnalytics
    <2>1. /\ Batch(query) /\ UNCHANGED <<indexed, query, figures>>
      BY <1>3 DEF PollAnalytics
    <2>2. /\ spentRequests' \in Int
          /\ DOMAIN asking' = {"open", "failed", "seen"}
          /\ asking'.failed \/ asking'.open # 0
      BY <2>1, BatchSent
    <2> QED
      BY <1>2, <2>1, <2>2
  <1>4. ASSUME NEW q \in Filters, SetFilters(q) PROVE ReportsInv'
    <2>1. /\ Batch(q) /\ query' = q /\ figures' = None /\ indexed' = indexed
      BY <1>4 DEF SetFilters
    <2>2. /\ spentRequests' \in Int
          /\ DOMAIN asking' = {"open", "failed", "seen"}
          /\ asking'.failed \/ asking'.open # 0
      BY <2>1, BatchSent
    <2> QED
      BY <2>1, <2>2
  <1>5. CASE AnswerRequest
    <2>1. /\ UNCHANGED <<indexed, query, figures, spentRequests>>
          /\ DOMAIN asking' = DOMAIN asking
          /\ ~parseAndValidateAnalyticsQuery(query) => asking'.failed
      BY <1>5 DEF AnswerRequest
    <2> QED
      BY <1>2, <2>1
  <1>6. CASE RequestFails
    <2>1. /\ UNCHANGED <<indexed, query, figures, spentRequests>>
          /\ DOMAIN asking' = DOMAIN asking /\ asking'.failed
      BY <1>6 DEF RequestFails
    <2> QED
      BY <1>2, <2>1
  <1>7. CASE BatchEnds
    <2>1. /\ UNCHANGED <<indexed, query, spentRequests>> /\ asking' = Idle
          /\ asking # Idle /\ asking.open = 0
          /\ asking.failed => figures' = figures
      BY <1>7 DEF BatchEnds, Pending
    <2>2. DOMAIN Idle = {"open", "failed", "seen"} /\ Idle' = Idle
      BY DEF Idle
    <2> QED
      BY <1>2, <2>1, <2>2
  <1>8. CASE MinutePasses
    <2>1. /\ UNCHANGED <<indexed, query, asking, figures>> /\ spentRequests' = 0
          /\ Idle' = Idle
      BY <1>8 DEF MinutePasses, Idle
    <2> QED
      BY <1>2, <2>1
  <1>9. CASE IndexEntry
    <2>1. /\ UNCHANGED <<query, asking, figures, spentRequests>>
          /\ indexed < Len(Book) /\ indexed' = indexed + 1 /\ Idle' = Idle
      BY <1>9 DEF IndexEntry, Idle
    <2> QED
      BY <1>1, <1>2, <2>1
  <1>10. CASE UNCHANGED reportVars
    <2>1. UNCHANGED <<indexed, query, asking, figures, spentRequests>> /\ Idle' = Idle
      BY <1>10 DEF reportVars, Idle
    <2> QED
      BY <1>2, <2>1
  <1> QED
    BY <1>3, <1>4, <1>5, <1>6, <1>7, <1>8, <1>9, <1>10 DEF AnalyticsNext

\* The page's invariant, with the tables, is what the reports promise.
LEMMA ReportsInvAgree ==
  ASSUME \A q \in Filters : Comparable(q), ReportsInv
  PROVE  ReportsAgree
  <1>1. figures # None => parseAndValidateAnalyticsQuery(query)
    BY DEF ReportsInv
  <1>2. ASSUME figures = {indexed} PROVE Question(query) /\ indexed \in 0..Len(Book)
    <2>1. figures # None
      BY <1>2, AnalyticsAssumption DEF ReportsInv
    <2>2. DatesInOrder(query)
      BY <1>1, <2>1 DEF parseAndValidateAnalyticsQuery
    <2> QED
      BY <2>2, AnalyticsAssumption DEF ReportsInv, Question
  <1>3. figures = {indexed} => EndpointsAgree(query) /\ LibraryAgrees(query) /\ ToolAgrees(query)
    BY <1>2, EndpointsTrue, LibraryTrue, ToolTrue
  <1> QED
    BY <1>1, <1>3 DEF ReportsAgree

\* For questions whose answers can be compared, the figures that stand next
\* to each other on the page split the same spending, the library's and the
\* tool's versions add up to it, and a query that the endpoints refuse has no
\* figures: for every book, every length of a bucket that is made of whole
\* days, and every set of filters.
THEOREM ReportsTrue ==
  (\A q \in Filters : Comparable(q)) => (ReportsSpec => []ReportsAgree)
  <1> SUFFICES ASSUME \A q \in Filters : Comparable(q)
               PROVE  ReportsSpec => []ReportsAgree
    OBVIOUS
  <1>1. AnalyticsInit => ReportsInv
    BY AnalyticsAssumption DEF AnalyticsInit, ReportsInv, Idle
  <1>2. ReportsInv /\ [AnalyticsNext]_reportVars => ReportsInv'
    BY ReportsStep
  <1>3. ReportsInv => ReportsAgree
    BY ReportsInvAgree
  <1> QED
    BY <1>1, <1>2, <1>3, PTL DEF ReportsSpec
=============================================================================
