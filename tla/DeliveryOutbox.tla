----------------------------- MODULE DeliveryOutbox -----------------------------
(* The dispatchers of indexer/src/webhooks.js and notifications.js. Both have one *)
(* shape: a tick copies events past a cursor into a durable outbox, then sends    *)
(* what is due. They differ in where their targets come from: subscriptions are   *)
(* read once when the process starts, destinations on every tick, and an operator *)
(* may edit those at any time.                                                    *)
EXTENDS IndexerStore

CONSTANTS
  Wanted,        \* the topics each target asked for, or None for all of them
  MaxAttempts,   \* attempts before a delivery is dead-lettered
  BatchSize,     \* events copied, and deliveries claimed, at a time
  MaxInterventions   \* bound: requeue commands and changes of the configured targets

ASSUME OutboxAssumption == /\ MaxAttempts \in Nat \ {0} /\ BatchSize \in Nat \ {0}
                           /\ MaxInterventions \in Nat

VARIABLES
  configured,    \* the targets that exist and are enabled
  t,             \* the tick: its local variables
  requests,      \* requests each target has been sent for each event
  accepted,      \* the events each target has taken in
  spent,         \* [requeues, edits]: how much of the bound is used up
  history        \* the events already stored when a target was first seen

Resting == [at |-> "idle", targets |-> {}, left |-> {}, cursor |-> None,
            claimed |-> {}, flight |-> [s \in Target |-> None]]

Matching(s, rows) ==
  {r \in rows: Wanted[s] = None \/ Chain[r.ev].topic \in Wanted[s]}

-----------------------------------------------------------------------------
(* A timer fires while no tick is running. The webhook dispatcher starts none when *)
(* the process finds no subscription, whatever the outbox holds.                   *)
StartTick ==
  /\ t.at = "idle"
  /\ conf.channel = "webhook" => configured # {}
  /\ t' = [Resting EXCEPT !.at = "enqueue", !.targets = configured, !.left = configured]
  /\ UNCHANGED <<db, conf, configured, requests, accepted, spent, history>>

(* A target seen for the first time starts at the present.                        *)
StartCursor(s) ==
  /\ t.at = "enqueue" /\ s \in t.left /\ db.cursors[s] = None /\ t.cursor = None
  /\ db' = [db EXCEPT !.cursors[s] = LatestAccordEventId(db)]
  /\ t' = [t EXCEPT !.left = @ \ {s}]
  /\ history' = [history EXCEPT ![s] = {r.ev: r \in db.events}]
  /\ UNCHANGED <<conf, configured, requests, accepted, spent>>

(* The copying loop of a target keeps its cursor in a local variable.             *)
MayCopy(s) == /\ t.at = "enqueue" /\ s \in t.left /\ db.cursors[s] # None
              /\ t.cursor # None => t.cursor.of = s
NextRows(s) ==
  AccordEventsAfter(db, IF t.cursor = None THEN db.cursors[s] ELSE t.cursor.id, BatchSize)

Advance(s, rows) ==
  t' = IF Cardinality(rows) < BatchSize
       THEN [t EXCEPT !.left = @ \ {s}, !.cursor = None]
       ELSE [t EXCEPT !.cursor = [of |-> s, id |-> HighestId(rows)]]

\* Mutant of EnqueueNew: the cursor is moved, the rows are left to a second transaction.
EnqueueNewSplit(s) ==
  /\ MayCopy(s)
  /\ db' = IF NextRows(s) = {} THEN db ELSE [db EXCEPT !.cursors[s] = HighestId(NextRows(s))]
  /\ Advance(s, NextRows(s))
  /\ UNCHANGED <<conf, configured, requests, accepted, spent, history>>

(* One round of the copying loop: the events past the cursor that the target      *)
(* asked for become deliveries, in one transaction with the cursor; a short batch *)
(* ends the loop.                                                                 *)
EnqueueNew(s) ==
  /\ MayCopy(s)
  /\ LET rows == NextRows(s)
     IN  /\ db' = IF rows = {} THEN db
                  ELSE EnqueueDeliveries(db, s, Matching(s, rows), HighestId(rows))
         /\ Advance(s, rows)
  /\ UNCHANGED <<conf, configured, requests, accepted, spent, history>>

ClaimDue ==
  /\ t.at = "enqueue" /\ t.left = {}
  /\ t' = [t EXCEPT !.at = "send", !.claimed = ClaimDueDeliveries(db, BatchSize)]
  /\ UNCHANGED <<db, conf, configured, requests, accepted, spent, history>>

-----------------------------------------------------------------------------
(* The claimed deliveries of one target, one after another; targets in parallel.  *)
Group(s)  == {i \in t.claimed: db.outbox[i].target = s}

\* Mutant of NextOf: the group is sent newest first.
NewestOf(s) == Max(Group(s))

NextOf(s) == Min(Group(s))

\* Mutant of Unconfigured: the delivery is passed over and stays pending.
UnconfiguredKept(s) ==
  /\ t.at = "send" /\ Group(s) # {} /\ t.flight[s] = None /\ s \notin t.targets
  /\ t' = [t EXCEPT !.claimed = @ \ {NextOf(s)}]
  /\ UNCHANGED <<db, conf, configured, requests, accepted, spent, history>>

Unconfigured(s) ==
  /\ t.at = "send" /\ Group(s) # {} /\ t.flight[s] = None /\ s \notin t.targets
  /\ db' = CompleteDelivery(db, NextOf(s), "dead", db.outbox[NextOf(s)].attempts + 1)
  /\ t' = [t EXCEPT !.claimed = @ \ {NextOf(s)}]
  /\ UNCHANGED <<conf, configured, requests, accepted, spent, history>>

(* The request goes out. The target takes it in or not; what the sender learns is *)
(* the status it answers, or a timeout that tells nothing.                        *)
Send(s) ==
  /\ t.at = "send" /\ Group(s) # {} /\ t.flight[s] = None /\ s \in t.targets
  /\ LET e == db.outbox[NextOf(s)].ev
     IN  \E takes \in BOOLEAN, answer \in {"2xx", "refused", "timeout"}:
           /\ (answer = "2xx") => takes
           /\ (answer = "refused") => ~takes
           /\ requests' = [requests EXCEPT ![s][e] = @ + 1]
           /\ accepted' = [accepted EXCEPT ![s] = IF takes THEN @ \cup {e} ELSE @]
           /\ t' = [t EXCEPT !.flight[s] = answer]
  /\ UNCHANGED <<db, conf, configured, spent, history>>

\* Mutant of RecordAttempt: a timeout is taken for an acceptance.
RecordTimeoutAsDone(s) ==
  /\ t.at = "send" /\ t.flight[s] # None
  /\ LET i == NextOf(s)
         n == db.outbox[i].attempts + 1
         outcome == IF t.flight[s] # "refused" THEN "delivered"
                    ELSE IF n >= MaxAttempts THEN "dead" ELSE "retry"
     IN  /\ db' = CompleteDelivery(db, i, outcome, n)
         /\ t' = [t EXCEPT !.claimed = @ \ {i}, !.flight[s] = None]
  /\ UNCHANGED <<conf, configured, requests, accepted, spent, history>>

(* The outcome is written; a retry waits for its backoff.                         *)
RecordAttempt(s) ==
  /\ t.at = "send" /\ t.flight[s] # None
  /\ LET i == NextOf(s)
         n == db.outbox[i].attempts + 1
         outcome == IF t.flight[s] = "2xx" THEN "delivered"
                    ELSE IF n >= MaxAttempts THEN "dead" ELSE "retry"
     IN  /\ db' = CompleteDelivery(db, i, outcome, n)
         /\ t' = [t EXCEPT !.claimed = @ \ {i}, !.flight[s] = None]
  /\ UNCHANGED <<conf, configured, requests, accepted, spent, history>>

FinishTick ==
  /\ t.at = "send" /\ t.claimed = {}
  /\ t' = Resting
  /\ UNCHANGED <<db, conf, configured, requests, accepted, spent, history>>

(* computeBackoffMs, as the moment it elapses: some time later, never none.        *)
BackoffElapses(i) ==
  /\ ~db.outbox[i].due
  /\ db' = [db EXCEPT !.outbox[i].due = TRUE]
  /\ UNCHANGED <<conf, configured, t, requests, accepted, spent, history>>

-----------------------------------------------------------------------------
(* webhooks-requeue and notifications-requeue, run beside the service.             *)
Requeue(s) ==
  /\ spent.requeues + spent.edits < MaxInterventions
  /\ \E i \in DOMAIN db.outbox: db.outbox[i].status = "dead" /\ db.outbox[i].target = s
  /\ db' = RequeueDeadDeliveries(db, s)
  /\ spent' = [spent EXCEPT !.requeues = @ + 1]
  /\ UNCHANGED <<conf, configured, t, requests, accepted, history>>

Toggle(s) == (configured \ {s}) \cup ({s} \ configured)

(* The API adds, edits, disables or deletes a destination while a tick may run.     *)
EditDestination(s) ==
  /\ conf.channel = "notification" /\ spent.requeues + spent.edits < MaxInterventions
  /\ configured' = Toggle(s)
  /\ spent' = [spent EXCEPT !.edits = @ + 1]
  /\ UNCHANGED <<db, conf, t, requests, accepted, history>>

-----------------------------------------------------------------------------
OutboxInit ==
  /\ configured = Target
  /\ t = Resting
  /\ requests = [s \in Target |-> [e \in Event |-> 0]]
  /\ accepted = [s \in Target |-> {}]
  /\ spent = [requeues |-> 0, edits |-> 0]
  /\ history = [s \in Target |-> {}]

EnqueueStep == \/ StartTick \/ ClaimDue
               \/ \E s \in Target: StartCursor(s) \/ EnqueueNew(s)

SendStep == \/ FinishTick
            \/ \E s \in Target: Unconfigured(s) \/ Send(s) \/ RecordAttempt(s)

OutboxEnvironment == \E s \in Target: Requeue(s) \/ EditDestination(s)
=============================================================================
