----------------------------- MODULE Notifications -----------------------------
(* Notification destinations that change while the indexer sends                *)
(* (indexer/src/notifications.js, api.js, the tables of store/): the console's  *)
(* panel saves, deletes and tests them over HTTP, the worker reads them once a  *)
(* tick, fills its outbox and sends. DeliveryOutbox has the outbox's claims,    *)
(* back-off and crashes; here a letter is one row of it.                        *)
EXTENDS Naturals, Sequences, FiniteSets

CONSTANTS
  Destinations,   \* well-formed ids
  Before(_, _),   \* their order
  Entries,        \* what is typed or put, by key: id, kind, url, secret, mail, topics (Nil: null), on
  Stored,         \* keys put before
  ByHand,         \* keys that only other clients of the API put
  Feed,           \* topics of the events, in the order they are indexed
  NotifyAttempts, \* maxAttempts
  NotifyBatch,    \* batchSize
  MinSecret,      \* MIN_SECRET_LENGTH
  MaxPuts, MaxMishaps,   \* bounds: changes of the table; restarts and errors
  Nil

ASSUME NotificationsAssumption ==
  /\ NotifyBatch \in Nat \ {0}
  /\ ByHand \cup Stored \subseteq DOMAIN Entries
  /\ Nil \notin Nat

VARIABLES
  destinations,  \* the table: kind, topics, on, or Nil
  places,        \* the cursors in indexer_state
  letters,       \* the outbox: to, ev, kind, status, tries, due
  happened,      \* events indexed
  ticking,       \* the worker's flag
  ticks,         \* its ticks under way, by slot
  posted,        \* history: requests made for a letter
  lostPosts,     \* history: those whose outcome was not recorded
  panel,         \* the console's panel: list, loading, saving, testing
  asks,          \* its requests, by slot
  notes          \* history: bounds used, events before an id, what disturbed the panel

serverVars == <<destinations, places, letters, happened>>
workerVars == <<ticking, ticks, posted, lostPosts>>
notifyVars == <<serverVars, workerVars, panel, asks, notes>>

Lanes == 1..2

-----------------------------------------------------------------------------
(* What the API accepts.                                                        *)
validateDestinationConfig(e) ==
  CASE e.kind = "webhook"             -> e.url \in {"https", "local"} /\ e.secret >= MinSecret
    [] e.kind \in {"slack", "discord"} -> e.url = "https"
    [] e.kind = "email"               -> e.mail
    [] OTHER                          -> FALSE

(* The panel sends null for topics left blank, which is no array.               *)
parseDestination(e) ==
  IF e.id \in Destinations /\ e.topics # Nil /\ validateDestinationConfig(e)
    THEN [kind |-> e.kind, topics |-> e.topics, on |-> e.on] ELSE Nil

\* No topics stand for all of them.
Matches(d, ev) == d.topics = {} \/ Feed[ev] \in d.topics

-----------------------------------------------------------------------------
(* The worker.                                                                  *)
NoTick == [at |-> "off", known |-> [d \in Destinations |-> Nil], left |-> {},
           groups |-> [d \in Destinations |-> <<>>], asking |-> {}]

\* A mutant of loadDestinations.
loadEveryDestination == [d \in Destinations |-> destinations[d]]
loadDestinations ==
  [d \in Destinations |->
     IF destinations[d] # Nil /\ destinations[d].on THEN destinations[d] ELSE Nil]

\* A mutant of MayTick.
MayTickAlways(s)     == ticks[s].at = "off"

MayTick(s) == ~ticking /\ ticks[s].at = "off" /\ \A r \in 1..s - 1: ticks[r].at # "off"

StartNotifyTick(s) ==
  /\ MayTick(s)
  /\ LET known == loadDestinations IN
     ticks' = [ticks EXCEPT ![s] =
                 [at |-> "queue", known |-> known, left |-> {d \in Destinations: known[d] # Nil},
                  groups |-> NoTick.groups, asking |-> {}]]
  /\ ticking' = TRUE
  /\ UNCHANGED <<serverVars, posted, lostPosts, panel, asks, notes>>

\* One destination after the other, by id.
NextUp(s, d) ==
  /\ ticks[s].at = "queue" /\ d \in ticks[s].left
  /\ \A c \in ticks[s].left: Before(d, c) \/ c = d

(* A destination without a cursor starts at the newest event.                    *)
StartPlace(s, d) ==
  /\ NextUp(s, d) /\ places[d] = Nil
  /\ places' = [places EXCEPT ![d] = happened]
  /\ ticks' = [ticks EXCEPT ![s].left = @ \ {d}]
  /\ UNCHANGED <<destinations, letters, happened, ticking, posted, lostPosts, panel, asks, notes>>

\* The numbers of a set, in order: what ORDER BY id gives.
Listed(S) ==
  [k \in 1..Cardinality(S) |-> CHOOSE x \in S: Cardinality({y \in S: y <= x}) = k]

(* A batch of events goes past the cursor in one transaction; a short one ends.  *)
enqueueNew(s, d) ==
  LET upto  == IF places[d] + NotifyBatch < happened THEN places[d] + NotifyBatch ELSE happened
      dest  == ticks[s].known[d]
      new   == {ev \in places[d] + 1..upto:
                  /\ Matches(dest, ev)
                  /\ \A i \in DOMAIN letters: letters[i].to # d \/ letters[i].ev # ev}
      batch == [k \in 1..Cardinality(new) |->
                  [to |-> d, ev |-> Listed(new)[k], kind |-> dest.kind, status |-> "pending",
                   tries |-> 0, due |-> TRUE]]
  IN
  /\ NextUp(s, d) /\ places[d] # Nil
  /\ letters' = letters \o batch
  /\ posted' = posted \o [k \in DOMAIN batch |-> 0]
  /\ lostPosts' = lostPosts \o [k \in DOMAIN batch |-> 0]
  /\ places' = [places EXCEPT ![d] = upto]
  /\ ticks' = [ticks EXCEPT ![s].left = IF upto - places[d] < NotifyBatch THEN @ \ {d} ELSE @]
  /\ UNCHANGED <<destinations, happened, ticking, panel, asks, notes>>

\* What is due, in order, with the attempts it has had; grouped by destination.
claimDueNotificationDeliveries ==
  LET due  == {i \in DOMAIN letters: letters[i].status = "pending" /\ letters[i].due}
      some == {i \in due: Cardinality({j \in due: j <= i}) <= NotifyBatch}
      group(d) == Listed({i \in some: letters[i].to = d})
  IN  [d \in Destinations |->
         [k \in DOMAIN group(d) |-> [letter |-> group(d)[k], tries |-> letters[group(d)[k]].tries]]]

ClaimLetters(s) ==
  /\ ticks[s].at = "queue" /\ ticks[s].left = {}
  /\ ticks' = [ticks EXCEPT ![s].at = "send", ![s].groups = claimDueNotificationDeliveries]
  /\ UNCHANGED <<serverVars, ticking, posted, lostPosts, panel, asks, notes>>

Completed(i, tries, ok) ==
  [letters EXCEPT ![i].tries = tries,
                  ![i].status = IF ok THEN "delivered"
                                ELSE IF tries >= NotifyAttempts THEN "dead" ELSE "pending",
                  ![i].due = ok \/ tries >= NotifyAttempts]

(* The rest of a group waits for the letter before it.                           *)
attempt(s, d) ==
  LET head == Head(ticks[s].groups[d]) IN
  /\ ticks[s].at \in {"send", "adrift"} /\ ticks[s].groups[d] # <<>> /\ d \notin ticks[s].asking
  /\ IF ticks[s].known[d] = Nil
       THEN /\ letters' = [letters EXCEPT ![head.letter].status = "dead",
                                          ![head.letter].tries = head.tries + 1]
            /\ lostPosts' = [lostPosts EXCEPT ![head.letter] = @ - 1]
            /\ ticks' = [ticks EXCEPT ![s].groups[d] = Tail(@)]
            /\ UNCHANGED posted
       ELSE /\ posted' = [posted EXCEPT ![head.letter] = @ + 1]
            /\ ticks' = [ticks EXCEPT ![s].asking = @ \cup {d}]
            /\ UNCHANGED <<letters, lostPosts>>
  /\ UNCHANGED <<destinations, places, happened, ticking, panel, asks, notes>>

dispatchOne(s, d) ==
  LET head == Head(ticks[s].groups[d]) IN
  /\ d \in ticks[s].asking
  /\ \E ok \in BOOLEAN: letters' = Completed(head.letter, head.tries + 1, ok)
  /\ ticks' = [ticks EXCEPT ![s].groups[d] = Tail(@), ![s].asking = @ \ {d}]
  /\ UNCHANGED <<destinations, places, happened, ticking, posted, lostPosts, panel, asks, notes>>

(* The outcome cannot be written: the tick ends, but the other groups of its      *)
(* Promise.all go on.                                                            *)
RecordFails(s, d) ==
  LET head == Head(ticks[s].groups[d]) IN
  /\ d \in ticks[s].asking /\ notes.mishaps < MaxMishaps
  /\ ticks' = [ticks EXCEPT ![s].groups[d] = <<>>, ![s].asking = @ \ {d}, ![s].at = "adrift"]
  /\ ticking' = (ticking /\ ticks[s].at = "adrift")
  /\ lostPosts' = [lostPosts EXCEPT ![head.letter] = @ + 1]
  /\ notes' = [notes EXCEPT !.mishaps = @ + 1, !.adrift = TRUE]
  /\ UNCHANGED <<serverVars, posted, panel, asks>>

EndNotifyTick(s) ==
  /\ ticks[s].at \in {"send", "adrift"}
  /\ \A d \in Destinations: ticks[s].groups[d] = <<>>
  /\ ticks' = [ticks EXCEPT ![s] = NoTick]
  /\ ticking' = (ticking /\ ticks[s].at = "adrift")
  /\ UNCHANGED <<serverVars, posted, lostPosts, panel, asks, notes>>

\* Letters some tick is asking for.
Asking(s) == {Head(ticks[s].groups[d]).letter: d \in ticks[s].asking}

(* A restart: what was asked for is asked again.                                  *)
WorkerRestarts ==
  /\ notes.mishaps < MaxMishaps /\ ticking
  /\ ticking' = FALSE
  /\ ticks' = [s \in Lanes |-> NoTick]
  /\ lostPosts' = [i \in DOMAIN letters |->
                     lostPosts[i] + Cardinality({s \in Lanes: i \in Asking(s)})]
  /\ notes' = [notes EXCEPT !.mishaps = @ + 1]
  /\ UNCHANGED <<serverVars, posted, panel, asks>>

RetryDue(i) ==
  /\ letters[i].status = "pending" /\ ~letters[i].due
  /\ letters' = [letters EXCEPT ![i].due = TRUE]
  /\ UNCHANGED <<destinations, places, happened, workerVars, panel, asks, notes>>

NextEvent ==
  /\ happened < Len(Feed)
  /\ happened' = happened + 1
  /\ UNCHANGED <<destinations, places, letters, workerVars, panel, asks, notes>>

-----------------------------------------------------------------------------
(* The API and the panel.                                                        *)
PanelAsk(what, of) == [what |-> what, of |-> of, answer |-> Nil, ends |-> FALSE]

Listings == [Destinations -> {parseDestination(Entries[k]): k \in DOMAIN Entries} \cup {Nil}]
Requests ==
  LET asked(whats, of) == [what: whats, of: of, answer: {Nil, "ok", "refused"} \cup Listings,
                           ends: BOOLEAN]
  IN  asked({"list"}, {Nil}) \cup asked({"save"}, DOMAIN Entries)
        \cup asked({"delete", "test"}, Destinations)

ASSUME NilAssumption == Nil \notin {"ok", "refused"} \cup Requests

\* Everything the panel asks for beside something else may be answered out of order.
Place(ask) ==
  \E a \in Lanes:
    /\ asks[a] = Nil /\ \A b \in 1..a - 1: asks[b] # Nil
    /\ asks' = [asks EXCEPT ![a] = ask]
Beside == [notes EXCEPT !.disturbed = @ \/ \E a \in Lanes: asks[a] # Nil]

\* The panel has read its list; what is stored has its cursor.
NotifyInit ==
  /\ destinations = [d \in Destinations |->
                       IF \E k \in Stored: Entries[k].id = d
                         THEN parseDestination(Entries[CHOOSE k \in Stored: Entries[k].id = d]) ELSE Nil]
  /\ places = [d \in Destinations |-> IF destinations[d] = Nil THEN Nil ELSE 0]
  /\ letters = <<>> /\ happened = 0
  /\ ticking = FALSE /\ ticks = [s \in Lanes |-> NoTick]
  /\ posted = <<>> /\ lostPosts = <<>>
  /\ panel = [list |-> destinations, loading |-> FALSE, saving |-> FALSE, testing |-> {}]
  /\ asks = [a \in Lanes |-> Nil]
  /\ notes = [puts |-> 0, mishaps |-> 0, adrift |-> FALSE, disturbed |-> FALSE,
              before |-> [d \in Destinations |-> IF destinations[d] = Nil THEN Nil ELSE 0]]

\* One statement puts or removes a row; remembers when an id was first put.
Upsert(d, row) ==
  /\ destinations' = [destinations EXCEPT ![d] = row]
  /\ UNCHANGED <<places, letters, happened>>
FirstPut(d, n) == [n EXCEPT !.before[d] = IF @ = Nil THEN happened ELSE @]

(* handleSave: the button is held until the list has been read again.            *)
handleSave(k) ==
  /\ ~panel.saving /\ k \notin ByHand /\ notes.puts < MaxPuts
  /\ Place(PanelAsk("save", k))
  /\ panel' = [panel EXCEPT !.saving = TRUE]
  /\ notes' = [Beside EXCEPT !.puts = @ + 1]
  /\ UNCHANGED <<serverVars, workerVars>>

handleDelete(d) ==
  /\ ~panel.loading /\ panel.list[d] # Nil /\ notes.puts < MaxPuts
  /\ Place(PanelAsk("delete", d))
  /\ notes' = [Beside EXCEPT !.puts = @ + 1]
  /\ UNCHANGED <<serverVars, workerVars, panel>>

handleTest(d) ==
  /\ ~panel.loading /\ panel.list[d] # Nil /\ d \notin panel.testing /\ notes.puts < MaxPuts
  /\ Place(PanelAsk("test", d))
  /\ panel' = [panel EXCEPT !.testing = @ \cup {d}]
  /\ notes' = [Beside EXCEPT !.puts = @ + 1]
  /\ UNCHANGED <<serverVars, workerVars>>

(* The API serves a request: one statement, then the answer is on its way.        *)
Route(a) ==
  LET ask   == asks[a]
      reply(x) == asks' = [asks EXCEPT ![a].answer = x]
  IN
  /\ ask # Nil /\ ask.answer = Nil
  /\ \/ ask.what = "list" /\ reply(destinations) /\ UNCHANGED <<serverVars, notes>>
     \/ /\ ask.what = "save"
        /\ LET row == parseDestination(Entries[ask.of]) IN
           IF row = Nil THEN reply("refused") /\ UNCHANGED <<serverVars, notes>>
           ELSE /\ reply("ok")
                /\ Upsert(Entries[ask.of].id, row)
                /\ notes' = FirstPut(Entries[ask.of].id, notes)
     \/ /\ ask.what = "delete"
        /\ reply(IF destinations[ask.of] = Nil THEN "refused" ELSE "ok")
        /\ Upsert(ask.of, Nil)
        /\ UNCHANGED notes
     \/ /\ ask.what = "test"
        /\ \E ok \in BOOLEAN: reply(IF ok /\ destinations[ask.of] # Nil THEN "ok" ELSE "refused")
        /\ UNCHANGED <<serverVars, notes>>
  /\ UNCHANGED <<workerVars, panel>>

\* What follows an answer in the same lane: a refresh, or nothing.
Then(a, ends) == asks' = [asks EXCEPT ![a] = [PanelAsk("list", Nil) EXCEPT !.ends = ends]]
Done(a)       == asks' = [asks EXCEPT ![a] = Nil]

refresh(a) ==
  LET ask == asks[a] IN
  /\ ask # Nil /\ ask.answer # Nil
  /\ \/ /\ ask.what = "list"
        /\ panel' = [panel EXCEPT !.list = ask.answer, !.loading = FALSE,
                                  !.saving = @ /\ ~ask.ends]
        /\ Done(a)
     \/ /\ ask.what \in {"save", "delete"} /\ ask.answer = "ok"
        /\ panel' = [panel EXCEPT !.loading = TRUE]
        /\ Then(a, ask.what = "save")
     \/ /\ ask.what \in {"save", "delete"} /\ ask.answer = "refused"
        /\ panel' = [panel EXCEPT !.saving = @ /\ ask.what = "delete"]
        /\ Done(a)
     \/ /\ ask.what = "test"
        /\ panel' = [panel EXCEPT !.testing = @ \ {ask.of}]
        /\ Done(a)
  /\ UNCHANGED <<serverVars, workerVars, notes>>

(* The answer is lost, or the request never arrived.                              *)
AnswerLost(a) ==
  LET ask == asks[a] IN
  /\ ask # Nil /\ notes.mishaps < MaxMishaps
  /\ panel' = [panel EXCEPT !.loading = @ /\ ask.what # "list",
                            !.saving = @ /\ ask.what # "save" /\ ~ask.ends,
                            !.testing = IF ask.what = "test" THEN @ \ {ask.of} ELSE @]
  /\ Done(a)
  /\ notes' = [notes EXCEPT !.mishaps = @ + 1, !.disturbed = TRUE]
  /\ UNCHANGED <<serverVars, workerVars>>

(* Another client of the API; only these disable a destination.                    *)
PutByHand(k) ==
  /\ k \in ByHand /\ notes.puts < MaxPuts /\ parseDestination(Entries[k]) # Nil
  /\ Upsert(Entries[k].id, parseDestination(Entries[k]))
  /\ notes' = [FirstPut(Entries[k].id, notes) EXCEPT !.puts = @ + 1, !.disturbed = TRUE]
  /\ UNCHANGED <<workerVars, panel, asks>>

NotifyNext ==
  \/ \E s \in Lanes:
       \/ StartNotifyTick(s) \/ ClaimLetters(s) \/ EndNotifyTick(s)
       \/ \E d \in Destinations:
            \/ StartPlace(s, d) \/ enqueueNew(s, d)
            \/ attempt(s, d) \/ dispatchOne(s, d) \/ RecordFails(s, d)
  \/ WorkerRestarts \/ NextEvent
  \/ \E i \in DOMAIN letters: RetryDue(i)
  \/ \E a \in Lanes: Route(a) \/ refresh(a) \/ AnswerLost(a)
  \/ \E k \in DOMAIN Entries: handleSave(k) \/ PutByHand(k)
  \/ \E d \in Destinations: handleDelete(d) \/ handleTest(d)

NotifySpec == NotifyInit /\ [][NotifyNext]_notifyVars

-----------------------------------------------------------------------------
(* A letter is asked for by one tick at a time, and its attempts are the requests  *)
(* made for it but for those that a restart cut off and the one that buried it      *)
(* when its destination was gone, whatever is saved and deleted meanwhile. An       *)
(* error while an outcome is recorded ends this: the tick is over for the timer,     *)
(* its other groups still send (notifications.js:305-345, 348-371).                 *)
RequestsAccounted ==
  ~notes.adrift =>
    \A i \in DOMAIN letters:
      LET open == Cardinality({s \in Lanes: i \in Asking(s)}) IN
      open <= 1 /\ posted[i] = letters[i].tries + open + lostPosts[i]

(* No destination gets an event from before it was first put                       *)
(* (notifications.js:276-279), nor one twice, nor is one skipped of the topics it   *)
(* has had all along.                                                              *)
EachLetterOnce ==
  /\ \A i \in DOMAIN letters: letters[i].ev > notes.before[letters[i].to]
  /\ \A i, j \in DOMAIN letters:
       letters[i].to = letters[j].to /\ letters[i].ev = letters[j].ev => i = j
  /\ \A d \in Destinations, ev \in 1..happened:
       /\ \A k \in DOMAIN Entries:
            Entries[k].id = d /\ parseDestination(Entries[k]) # Nil => Matches(parseDestination(Entries[k]), ev)
       /\ places[d] # Nil /\ ev <= places[d]
       /\ \E i \in DOMAIN letters: letters[i].to = d /\ letters[i].ev < ev
       => \E i \in DOMAIN letters: letters[i].to = d /\ letters[i].ev = ev

(* What the tick in progress did not find enabled gets no request of it.            *)
NoneToTheGone ==
  \A s \in Lanes, d \in Destinations:
    ticks[s].known[d] = Nil \/ ~ticks[s].known[d].on => d \notin ticks[s].asking

(* When the panel waits for nothing it lists the table, unless an answer was lost,   *)
(* requests overlapped or another client changed it                                  *)
(* (NotificationDestinationsPanel.tsx:45-55, 70-113).                                *)
PanelTells ==
  ~notes.disturbed /\ (\A a \in Lanes: asks[a] = Nil)
    => panel.list = destinations /\ ~panel.loading /\ ~panel.saving

NotificationsSound == RequestsAccounted /\ EachLetterOnce /\ NoneToTheGone /\ PanelTells
=============================================================================
