-------------------------------- MODULE Keeper --------------------------------
(* The example keeper, scripts/keeper-recurring.js: it scans the schedules for  *)
(* what is due and disburses each in turn, beside whoever else may call the     *)
(* permissionless entrypoint. The contract is external: the script's header     *)
(* expects a view that says what is due, and an error number of its own for a   *)
(* schedule that does not exist; the deployed contract has neither.             *)
EXTENDS Naturals, Sequences, FiniteSets

CONSTANTS
  Hosts,         \* contracts explored: [view |-> .., known |-> ..]
  MaxMade,       \* bound: schedules ever made
  MaxScanIds,    \* KEEPER_MAX_SCAN_IDS
  PeekTo,        \* no early stop below this id (20)
  MissesIdle,    \* misses in a row that end the scan when nothing is active (3)
  MissesActive,  \* and otherwise (10)
  MaxTurns       \* bound: changes of the contract, and requests that fail

ASSUME KeeperAssumption ==
  /\ {MaxMade, MaxScanIds, PeekTo, MissesIdle, MissesActive, MaxTurns} \subseteq Nat
  /\ MaxScanIds > 0

VARIABLES
  host,     \* the contract: [view, known]
  made,     \* schedules 1..made exist
  ripe,     \* those that owe something now
  queued,     \* disbursements the node has queued
  cycle,    \* the keeper: its local variables
  sight,    \* history: what this cycle read, found and tried
  turns     \* how much of the bound is used up

keeperVars == <<host, made, ripe, queued, cycle, sight, turns>>

Asleep == [at |-> "asleep", dry |-> FALSE, id |-> 0, misses |-> 0, idle |-> FALSE,
           due |-> <<>>]
Unseen == [made |-> 0, failed |-> {}, found |-> {}, tried |-> {}]

KeeperInit ==
  /\ host \in Hosts
  /\ made = 0 /\ ripe = {} /\ queued = {}
  /\ cycle = Asleep /\ sight = Unseen
  /\ turns = 0

MayTurn   == turns < MaxTurns
Turn      == turns' = turns + 1
Steady    == UNCHANGED turns
Failing   == MayTurn /\ Turn

-----------------------------------------------------------------------------
(* A cycle first asks how many schedules are active; an error leaves it unknown. *)
StartCycle ==
  /\ cycle.at = "asleep"
  /\ \E idle, dry \in BOOLEAN:
       /\ idle => ripe = {}
       /\ cycle' = [Asleep EXCEPT !.at = "scan", !.id = 1, !.dry = dry, !.idle = idle]
  /\ sight' = [Unseen EXCEPT !.made = made]
  /\ UNCHANGED <<host, made, ripe, queued, turns>>

\* Mutant of IsMissing: a read that fails counts as a schedule that is not there.
IsMissingOrFailing(id) == TRUE

(* isMissingContractError of a read that was refused.                           *)
IsMissing(id) == id > made /\ host.known

Onward(id) == IF id < MaxScanIds THEN [cycle EXCEPT !.id = id + 1]
             ELSE [cycle EXCEPT !.at = "found"]
Enough(misses, id) ==
  misses >= (IF cycle.idle THEN MissesIdle ELSE MissesActive) /\ id >= PeekTo

(* getClaimableAmount answers: a positive amount is due.                         *)
ReadAnswered ==
  /\ cycle.at = "scan" /\ host.view /\ cycle.id <= made
  /\ LET due == cycle.id \in ripe IN
       /\ cycle' = [Onward(cycle.id) EXCEPT
                      !.misses = 0,
                      !.due = IF due THEN Append(@, cycle.id) ELSE @]
       /\ sight' = [sight EXCEPT !.found = IF due THEN @ \cup {cycle.id} ELSE @]
  /\ UNCHANGED <<host, made, ripe, queued, turns>>

(* The read fails: misses in a row may end the scan, any other error is passed   *)
(* over.                                                                        *)
ReadRefused(missing) ==
  cycle' = IF missing
             THEN IF Enough(cycle.misses + 1, cycle.id)
                    THEN [cycle EXCEPT !.at = "found"]
                    ELSE [Onward(cycle.id) EXCEPT !.misses = @ + 1]
             ELSE [Onward(cycle.id) EXCEPT !.misses = 0]

ReadFails ==
  /\ cycle.at = "scan"
  /\ IF host.view /\ cycle.id <= made THEN Failing ELSE Steady
  /\ ReadRefused(IsMissing(cycle.id))
  /\ sight' = [sight EXCEPT !.failed = @ \cup {cycle.id}]
  /\ UNCHANGED <<host, made, ripe, queued>>

(* A dry run, or a scan that found nothing, ends here.                          *)
Settle ==
  /\ cycle.at = "found"
  /\ cycle' = IF cycle.due = <<>> \/ cycle.dry THEN Asleep ELSE [cycle EXCEPT !.at = "pay"]
  /\ sight' = IF cycle.due = <<>> \/ cycle.dry THEN Unseen ELSE sight
  /\ UNCHANGED <<host, made, ripe, queued, turns>>

-----------------------------------------------------------------------------
AfterThis ==
  IF Len(cycle.due) > 1 THEN [cycle EXCEPT !.at = "pay", !.due = Tail(@)] ELSE Asleep
Tried == [sight EXCEPT !.tried = @ \cup {Head(cycle.due)}]
Leaving == IF Len(cycle.due) > 1 THEN Tried ELSE Unseen

(* The simulation, or the node, refuses: the schedule is skipped. It may have    *)
(* been paid, paused or ended since it was read, or the request fails.          *)
Skip ==
  /\ cycle.at = "pay"
  /\ IF Head(cycle.due) \in ripe THEN Failing ELSE Steady
  /\ cycle' = AfterThis
  /\ sight' = Leaving
  /\ UNCHANGED <<host, made, ripe, queued>>

Disburse ==
  /\ cycle.at = "pay" /\ Head(cycle.due) \in ripe
  /\ queued' = queued \cup {Head(cycle.due)}
  /\ cycle' = [cycle EXCEPT !.at = "confirm"]
  /\ sight' = Tried
  /\ UNCHANGED <<host, made, ripe, turns>>

(* The transaction has succeeded, failed or expired, or a poll of it fails.      *)
Confirm ==
  /\ cycle.at = "confirm"
  /\ IF Head(cycle.due) \in queued THEN Failing ELSE Steady
  /\ cycle' = AfterThis
  /\ sight' = Leaving
  /\ UNCHANGED <<host, made, ripe, queued>>

(* A queued disbursement lands: it pays what is still owed, or fails.            *)
Land(id) ==
  /\ id \in queued
  /\ queued' = queued \ {id}
  /\ ripe' = ripe \ {id}
  /\ UNCHANGED <<host, made, cycle, sight, turns>>

(* A schedule is made, comes due, or is paid, paused or ended by someone else.   *)
Change ==
  /\ MayTurn /\ Turn
  /\ \/ made < MaxMade /\ made' = made + 1 /\ UNCHANGED ripe
     \/ \E id \in 1..made:
          /\ ripe' = IF id \in ripe THEN ripe \ {id} ELSE ripe \cup {id}
          /\ UNCHANGED made
  /\ UNCHANGED <<host, queued, cycle, sight>>

KeeperNext ==
  \/ StartCycle \/ ReadAnswered \/ ReadFails \/ Settle \/ Skip \/ Disburse \/ Confirm
  \/ \E id \in queued: Land(id)
  \/ Change

KeeperSpec == KeeperInit /\ [][KeeperNext]_keeperVars

-----------------------------------------------------------------------------
Scanned == cycle.at \in {"found", "pay", "confirm"}
Unconfirmed == {cycle.due[i]: i \in DOMAIN cycle.due}

(* One bad schedule or request costs only itself: a scan that has ended has      *)
(* looked at every schedule there was when it began, whose own read did not      *)
(* fail; and whatever it found due is tried, in a wet run, however the others     *)
(* end. It is never due on a contract without the view the header counts on      *)
(* (keeper-recurring.js:218-267, 338-355).                                      *)
KeeperThorough ==
  /\ Scanned => \A id \in 1..MaxScanIds:
       id <= sight.made => id \in sight.failed \/ id <= cycle.id
  /\ Scanned => sight.found = Unconfirmed \cup sight.tried
  /\ ~host.view => Unconfirmed = {} /\ queued = {}
=============================================================================
