------------------------------ MODULE IndexerProofs ------------------------------
(***************************************************************************)
(* The safety of the indexer for every chain of events, every deployment   *)
(* and every order of batches, ticks, commands, answers and crashes: its   *)
(* tables hold no event twice, its outbox claims no more than was done, no *)
(* checkpoint or completed command leaves an event behind, its cached and  *)
(* running balances are the sums of the transfers it stores, and what it   *)
(* stores is a prefix of the final events.                                 *)
(***************************************************************************)
EXTENDS Indexer, SumsProofs, SequenceTheorems

-----------------------------------------------------------------------------
(* What the store holds *)

Transfers == {e \in Event : IsTransfer(e)}

EntryRow == [id : Nat, ev : Transfers, balance : Int]
EventRow == [id : Nat, ev : Event]
Position == Nat \union {None}
Walk     == [from : Position, to : Position, cursor : Nat, done : BOOLEAN]
Outgoing == [target : Target, ev : Event, status : {"pending", "delivered", "dead"},
             attempts : Nat, due : BOOLEAN]

Store ==
  [backend : {"sqlite", "postgres"},
   entries : SUBSET EntryRow, events : SUBSET EventRow,
   issued : [entries : Nat, events : Nat],
   balances : [Token -> Int],
   next_ledger : Position, event_cursor : Nat, last_seen_ledger : Position,
   walk : [{"backfill", "reindex"} -> Walk], rebuilding : BOOLEAN,
   cursors : [Target -> Position],
   outbox : Seq(Outgoing)]

OnePerEvent(rows) == \A r, q \in rows : r.ev = q.ev => r = q
OnePerId(rows)    == \A r, q \in rows : r.id = q.id => r = q

\* A store whose tables hold each event once, and each row of the protocol's
\* events under an id of its own, below the next one.
Sound(d) ==
  /\ d \in Store
  /\ IsFiniteSet(d.entries) /\ IsFiniteSet(d.events)
  /\ OnePerEvent(d.entries) /\ OnePerEvent(d.events)
  /\ OnePerId(d.events)
  /\ \A r \in d.events : r.id < NextId(d, "events")

LEMMA EventNumbers ==
  /\ Len(Chain) \in Nat /\ Event = 1..Len(Chain) /\ Event \in SUBSET Nat /\ IsFiniteSet(Event)
  /\ \A e \in Event : LedgerOf(e) \in Nat \ {0} /\ Chain[e].amount \in Nat
  <1>1. Chain \in Seq([ledger : Nat \ {0}, contract : Token \union {Treasury},
                       topic : STRING, from : STRING, to : STRING, amount : Nat])
    BY ChainAssumption
  <1>2. Len(Chain) \in Nat /\ Event = 1..Len(Chain)
    BY <1>1, LenProperties DEF Event
  <1>3. IsFiniteSet(Event)
    BY <1>2, FS_Interval
  <1>4. ASSUME NEW e \in Event PROVE LedgerOf(e) \in Nat \ {0} /\ Chain[e].amount \in Nat
    <2>1. Chain[e] \in [ledger : Nat \ {0}, contract : Token \union {Treasury},
                       topic : STRING, from : STRING, to : STRING, amount : Nat]
      BY <1>1, <1>2, ElementOfSeq
    <2> QED
      BY <2>1 DEF LedgerOf
  <1> QED
    BY <1>2, <1>3, <1>4

\* The next event of a page, and the last.
LEMMA FirstOfPage ==
  ASSUME NEW S \in SUBSET Event, S # {}
  PROVE  Min(S) \in S /\ \A e \in S : Min(S) <= e
  <1>1. S \in SUBSET Nat
    BY EventNumbers
  <1>2. \E x \in S : \A y \in S : x <= y
    BY <1>1, LeastMember
  <1> QED
    BY <1>2 DEF Min

LEMMA LastOfPage ==
  ASSUME NEW S \in SUBSET Event
  PROVE  /\ Max(S \union {0}) \in Nat /\ Max(S \union {0}) \in S \union {0}
         /\ \A e \in S : e <= Max(S \union {0})
  <1>1. S \union {0} \in SUBSET Nat /\ IsFiniteSet(S \union {0})
    <2>1. IsFiniteSet(S)
      BY EventNumbers, FS_Subset
    <2> QED
      BY <2>1, EventNumbers, FS_AddElement
  <1>2. \E m \in S \union {0} : \A x \in S \union {0} : x <= m
    BY <1>1, FiniteGreatest
  <1>3. \E m \in S \union {0} : \A x \in S \union {0} : m >= x
    BY <1>1, <1>2
  <1>4. Max(S \union {0}) \in S \union {0} /\ \A x \in S \union {0} : Max(S \union {0}) >= x
    BY <1>3 DEF Max
  <1> QED
    BY <1>1, <1>4

LEMMA TransferShape ==
  ASSUME NEW e \in Transfers
  PROVE  /\ ParseTokenTransferEvent(e).token \in Token
         /\ ParseTokenTransferEvent(e).delta \in Int
  <1>1. e \in Event /\ ParseTokenTransferEvent(e) # None
    BY DEF Transfers, IsTransfer
  <1>2. Chain[e].amount \in Nat
    BY <1>1, EventNumbers
  <1>3. /\ Chain[e].contract \in Token
        /\ ParseTokenTransferEvent(e) =
             [token |-> Chain[e].contract,
              delta |-> IF Chain[e].to = Treasury THEN Chain[e].amount ELSE -Chain[e].amount]
    BY <1>1 DEF ParseTokenTransferEvent
  <1>4. (IF Chain[e].to = Treasury THEN Chain[e].amount ELSE -Chain[e].amount) \in Int
    BY <1>2
  <1> QED
    BY <1>3, <1>4

\* The highest id of a table.
LEMMA HighestOf ==
  ASSUME NEW rows, IsFiniteSet(rows), \A r \in rows : r.id \in Nat
  PROVE  /\ HighestId(rows) \in Nat /\ HighestId(rows) \in {r.id : r \in rows} \union {0}
         /\ \A r \in rows : r.id <= HighestId(rows)
  <1> DEFINE ids == {r.id : r \in rows}
             f   == [r \in rows |-> r.id]
  <1>1. IsFiniteSet(ids)
    <2>1. DOMAIN f = rows
      OBVIOUS
    <2> HIDE DEF f
    <2>2. IsFiniteSet({f[r] : r \in rows})
      BY <2>1, FiniteImage
    <2>3. {f[r] : r \in rows} = ids
      BY DEF f
    <2> QED
      BY <2>2, <2>3
  <1>2. ids \union {0} \in SUBSET Nat /\ IsFiniteSet(ids \union {0}) /\ ids \union {0} # {}
    <2>1. ids \union {0} \in SUBSET Nat
      OBVIOUS
    <2> HIDE DEF ids
    <2> QED
      BY <1>1, <2>1, FS_AddElement
  <1>3. \E m \in ids \union {0} : \A x \in ids \union {0} : x <= m
    BY <1>2, FiniteGreatest
  <1>4. \E m \in ids \union {0} : \A x \in ids \union {0} : m >= x
    BY <1>2, <1>3
  <1>5. HighestId(rows) = Max(ids \union {0})
    BY DEF HighestId
  <1> HIDE DEF ids
  <1>6. Max(ids \union {0}) \in ids \union {0} /\ \A x \in ids \union {0} : Max(ids \union {0}) >= x
    BY <1>4 DEF Max
  <1>7. \A r \in rows : r.id \in ids
    BY DEF ids
  <1> QED
    BY <1>2, <1>5, <1>6, <1>7 DEF ids

\* The sum of what rows move.
LEMMA DeltasTyped ==
  ASSUME NEW rows \in SUBSET EntryRow, IsFiniteSet(rows)
  PROVE  SumDeltas(rows) \in Int
  <1> DEFINE in  == [r \in rows |-> IF DeltaOf(r) > 0 THEN DeltaOf(r) ELSE 0]
             out == [r \in rows |-> IF DeltaOf(r) < 0 THEN -DeltaOf(r) ELSE 0]
  <1>1. \A r \in rows : DeltaOf(r) \in Int
    BY TransferShape DEF EntryRow, DeltaOf
  <1>2. in \in [rows -> Nat] /\ out \in [rows -> Nat]
    BY <1>1
  <1>3. SumDeltas(rows) = Total(in, rows) - Total(out, rows)
    BY DEF SumDeltas
  <1> HIDE DEF in, out
  <1>4. Total(in, rows) \in Nat /\ Total(out, rows) \in Nat
    BY <1>2, UnitsFinite
  <1> QED
    BY <1>3, <1>4

-----------------------------------------------------------------------------
(* What the methods of the store do *)

\* Two stores with the same tables, or the same checkpoints.
TablesKept(d, e) == e.entries = d.entries /\ e.events = d.events
MarksKept(d, e)  == /\ e.next_ledger = d.next_ledger /\ e.event_cursor = d.event_cursor
                    /\ e.walk = d.walk /\ e.rebuilding = d.rebuilding

EventsKept(d, e)  == e.events = d.events /\ e.issued.events = d.issued.events
EventAdded(d, e)  ==
  \E x \in Event :
    /\ ~Has(d.events, x)
    /\ e.events = d.events \union {[id |-> NextId(d, "events"), ev |-> x]}
    /\ e.issued.events = NextId(d, "events")
EventsCut(d, e)   == e.events \subseteq d.events /\ e.issued.events = d.issued.events

\* One store follows another without the outbox noticing.
Alike(d, e) == e.backend = d.backend /\ e.cursors = d.cursors /\ e.outbox = d.outbox

LEMMA NextIdTyped ==
  ASSUME NEW d \in Store, IsFiniteSet(d.events)
  PROVE  NextId(d, "events") \in Nat \ {0}
  <1>1. \A r \in d.events : r.id \in Nat
    BY DEF Store, EventRow
  <1>2. HighestId(d.events) \in Nat
    BY <1>1, HighestOf
  <1>3. d.issued.events \in Nat
    BY DEF Store
  <1>4. d["events"] = d.events /\ d.issued["events"] = d.issued.events
    OBVIOUS
  <1> QED
    BY <1>2, <1>3, <1>4 DEF NextId

LEMMA NextEntryIdTyped ==
  ASSUME NEW d \in Store, IsFiniteSet(d.entries)
  PROVE  NextId(d, "entries") \in Nat
  <1>1. \A r \in d.entries : r.id \in Nat
    BY DEF Store, EntryRow
  <1>2. HighestId(d.entries) \in Nat
    BY <1>1, HighestOf
  <1>3. d.issued.entries \in Nat
    BY DEF Store
  <1>4. d["entries"] = d.entries /\ d.issued["entries"] = d.issued.entries
    OBVIOUS
  <1> QED
    BY <1>2, <1>3, <1>4 DEF NextId

LEMMA RecordTransferSound ==
  ASSUME NEW d, Sound(d), NEW e \in Transfers, NEW before \in Int
  PROVE  LET n == RecordTransfer(d, e, before)
         IN  Sound(n) /\ Alike(d, n) /\ EventsKept(d, n)
  <1> DEFINE x   == ParseTokenTransferEvent(e)
             id  == NextId(d, "entries")
             row == [id |-> id, ev |-> e, balance |-> before + x.delta]
             n   == [d EXCEPT !.entries = @ \union {row}, !.issued.entries = id,
                              !.balances[x.token] = before + x.delta]
  <1>1. CASE Has(d.entries, e)
    BY <1>1 DEF RecordTransfer, Alike, EventsKept
  <1>2. CASE ~Has(d.entries, e)
    <2>1. /\ d \in Store /\ IsFiniteSet(d.entries) /\ IsFiniteSet(d.events)
          /\ OnePerEvent(d.entries) /\ OnePerEvent(d.events) /\ OnePerId(d.events)
          /\ \A r \in d.events : r.id < NextId(d, "events")
      BY DEF Sound
    <2>2. x.token \in Token /\ x.delta \in Int /\ id \in Nat /\ before + x.delta \in Int
      BY <2>1, TransferShape, NextEntryIdTyped
    <2>3. row \in EntryRow
      BY <2>2 DEF EntryRow
    <2>4. RecordTransfer(d, e, before) = n
      BY <1>2 DEF RecordTransfer
    <2> DEFINE entries  == d.entries \union {row}
               issued   == [d.issued EXCEPT !.entries = id]
               balances == [d.balances EXCEPT ![x.token] = before + x.delta]
    <2>5. /\ entries \in SUBSET EntryRow /\ issued \in [entries : Nat, events : Nat]
          /\ balances \in [Token -> Int] /\ issued.events = d.issued.events
      BY <2>1, <2>2, <2>3 DEF Store
    <2>6. IsFiniteSet(entries)
      BY <2>1, FS_AddElement
    <2>7. OnePerEvent(entries)
      BY <1>2, <2>1 DEF OnePerEvent, Has
    <2>8. n = [d EXCEPT !.entries = entries, !.issued = issued, !.balances = balances]
      BY <2>1 DEF Store
    <2> HIDE DEF n, entries, issued, balances
    <2>9. /\ n \in Store /\ n.entries = entries /\ n.issued = issued /\ n.events = d.events
          /\ n.backend = d.backend /\ n.cursors = d.cursors /\ n.outbox = d.outbox
      BY <2>1, <2>5, <2>8 DEF Store
    <2>10. NextId(n, "events") = NextId(d, "events")
      BY <2>5, <2>9 DEF NextId
    <2> QED
      BY <2>1, <2>4, <2>5, <2>6, <2>7, <2>9, <2>10 DEF Sound, Alike, EventsKept
  <1> QED
    BY <1>1, <1>2

LEMMA RecordTransferLockedSound ==
  ASSUME NEW d, Sound(d), NEW e \in Transfers
  PROVE  LET n == RecordTransferLocked(d, e)
         IN  Sound(n) /\ Alike(d, n) /\ EventsKept(d, n)
  <1>1. CASE Has(d.entries, e)
    BY <1>1 DEF RecordTransferLocked, Alike, EventsKept
  <1>2. CASE ~Has(d.entries, e)
    <2>1. d.balances[ParseTokenTransferEvent(e).token] \in Int
      BY TransferShape DEF Sound, Store
    <2> QED
      BY <1>2, <2>1, RecordTransferSound DEF RecordTransferLocked
  <1> QED
    BY <1>1, <1>2

LEMMA RecordAccordEventSound ==
  ASSUME NEW d, Sound(d), NEW e \in Event
  PROVE  LET n == RecordAccordEvent(d, e)
         IN  Sound(n) /\ Alike(d, n) /\ (EventsKept(d, n) \/ EventAdded(d, n))
  <1> DEFINE id  == NextId(d, "events")
             row == [id |-> id, ev |-> e]
             n   == [d EXCEPT !.events = @ \union {row}, !.issued.events = id]
  <1>1. CASE Has(d.events, e)
    BY <1>1 DEF RecordAccordEvent, Alike, EventsKept
  <1>2. CASE ~Has(d.events, e)
    <2>1. /\ d \in Store /\ IsFiniteSet(d.entries) /\ IsFiniteSet(d.events)
          /\ OnePerEvent(d.entries) /\ OnePerEvent(d.events) /\ OnePerId(d.events)
          /\ \A r \in d.events : r.id < id /\ r.id \in Nat
      BY DEF Sound, Store, EventRow
    <2>2. id \in Nat
      BY <2>1, NextIdTyped
    <2>3. row \in EventRow
      BY <2>2 DEF EventRow
    <2>4. RecordAccordEvent(d, e) = n
      BY <1>2 DEF RecordAccordEvent
    <2> DEFINE events == d.events \union {row}
               issued == [d.issued EXCEPT !.events = id]
    <2>5. /\ events \in SUBSET EventRow /\ issued \in [entries : Nat, events : Nat]
          /\ issued.events = id
      BY <2>1, <2>2, <2>3 DEF Store
    <2>6. IsFiniteSet(events)
      BY <2>1, FS_AddElement
    <2>7. OnePerEvent(events)
      BY <1>2, <2>1 DEF OnePerEvent, Has
    <2>8. OnePerId(events)
      BY <2>1, <2>2 DEF OnePerId
    <2>9. /\ \A r \in events : r.id \in Nat /\ r.id <= id
          /\ \E r \in events : r.id = id
      <3>1. row \in events /\ row.id = id
        OBVIOUS
      <3>2. \A r \in events : r \in d.events \/ r = row
        OBVIOUS
      <3> HIDE DEF id, row, events
      <3>3. ASSUME NEW r \in events PROVE r.id \in Nat /\ r.id <= id
        BY <2>1, <2>2, <3>1, <3>2
      <3> QED
        BY <3>1, <3>3
    <2>10. events = d.events \union {row}
      OBVIOUS
    <2>11. n = [d EXCEPT !.events = events, !.issued = issued]
      BY <2>1 DEF Store
    <2> HIDE DEF n, events, issued
    <2>12. /\ n \in Store /\ n.entries = d.entries /\ n.issued = issued /\ n.events = events
           /\ n.backend = d.backend /\ n.cursors = d.cursors /\ n.outbox = d.outbox
      BY <2>1, <2>5, <2>11 DEF Store
    <2> HIDE DEF id
    <2>13. \A r \in n.events : r.id < NextId(n, "events")
      <3>1. HighestId(events) \in Nat /\ \A r \in events : r.id <= HighestId(events)
        BY <2>6, <2>9, HighestOf
      <3>2. n["events"] = events /\ n.issued["events"] = id
        BY <2>5, <2>12
      <3>3. NextId(n, "events") = IF n.backend = "sqlite" THEN HighestId(events) + 1 ELSE id + 1
        BY <3>2 DEF NextId
      <3> QED
        BY <2>2, <2>9, <2>12, <3>1, <3>3
    <2>14. Sound(n)
      BY <2>1, <2>6, <2>7, <2>8, <2>12, <2>13 DEF Sound
    <2>15. EventAdded(d, n)
      BY <1>2, <2>5, <2>10, <2>12 DEF EventAdded, id
    <2> QED
      BY <2>4, <2>12, <2>14, <2>15 DEF Alike
  <1> QED
    BY <1>1, <1>2

\* Folding the balances again changes no row but its balance.
LEMMA ReplaySound ==
  ASSUME NEW d \in Store, IsFiniteSet(d.entries), OnePerEvent(d.entries)
  PROVE  LET n == ReplayBalances(d)
         IN  /\ n \in Store /\ IsFiniteSet(n.entries) /\ OnePerEvent(n.entries)
             /\ n.events = d.events /\ n.issued = d.issued /\ Alike(d, n)
  <1> DEFINE new(r)  == SumDeltas(UpTo(OfToken(d.entries, ParseTokenTransferEvent(r.ev).token), r))
             moved   == [r \in d.entries |-> [r EXCEPT !.balance = new(r)]]
             entries == {moved[r] : r \in d.entries}
             balances == [tk \in Token |-> SumDeltas(OfToken(d.entries, tk))]
             n == ReplayBalances(d)
  <1>1. d.entries \in SUBSET EntryRow
    BY DEF Store
  <1>2. ASSUME NEW S \in SUBSET d.entries PROVE SumDeltas(S) \in Int
    <2>1. IsFiniteSet(S) /\ S \in SUBSET EntryRow
      BY <1>1, FS_Subset
    <2> QED
      BY <2>1, DeltasTyped
  <1>3. ASSUME NEW r \in d.entries PROVE new(r) \in Int
    <2>1. UpTo(OfToken(d.entries, ParseTokenTransferEvent(r.ev).token), r) \in SUBSET d.entries
      BY DEF UpTo, OfToken
    <2> QED
      BY <1>2, <2>1
  <1>4. balances \in [Token -> Int]
    <2>1. \A tk \in Token : OfToken(d.entries, tk) \in SUBSET d.entries
      BY DEF OfToken
    <2> QED
      BY <1>2, <2>1
  <1>5. n = [d EXCEPT !.entries = entries, !.balances = balances]
    BY DEF ReplayBalances
  <1> HIDE DEF new
  <1>6. \A r \in d.entries : moved[r] \in EntryRow /\ moved[r].ev = r.ev
    BY <1>1, <1>3 DEF EntryRow
  <1>7. DOMAIN moved = d.entries
    OBVIOUS
  <1> HIDE DEF moved, balances, n
  <1>8. IsFiniteSet(entries)
    BY <1>7, FiniteImage
  <1>9. entries \in SUBSET EntryRow /\ OnePerEvent(entries)
    BY <1>6 DEF OnePerEvent
  <1> HIDE DEF entries
  <1>10. n \in Store /\ n.entries = entries /\ n.events = d.events /\ n.issued = d.issued
         /\ n.backend = d.backend /\ n.cursors = d.cursors /\ n.outbox = d.outbox
    BY <1>4, <1>5, <1>9 DEF Store
  <1> QED
    BY <1>8, <1>9, <1>10 DEF Alike, n

LEMMA RewindSound ==
  ASSUME NEW d, Sound(d), NEW l
  PROVE  LET n == RewindToLedger(d, l)
         IN  Sound(n) /\ Alike(d, n) /\ EventsCut(d, n)
  <1> DEFINE entries == {r \in d.entries : LedgerOf(r.ev) <= l}
             events  == {r \in d.events : LedgerOf(r.ev) <= l}
             c == [d EXCEPT !.entries = entries, !.events = events]
             n == ReplayBalances(c)
  <1>1. RewindToLedger(d, l) = n
    BY DEF RewindToLedger
  <1>2. /\ d \in Store /\ IsFiniteSet(d.entries) /\ IsFiniteSet(d.events)
        /\ OnePerEvent(d.entries) /\ OnePerEvent(d.events) /\ OnePerId(d.events)
        /\ \A r \in d.events : r.id < NextId(d, "events") /\ r.id \in Nat
    BY DEF Sound, Store, EventRow
  <1>3. entries \in SUBSET d.entries /\ events \in SUBSET d.events
    OBVIOUS
  <1> HIDE DEF entries, events
  <1>4. IsFiniteSet(entries) /\ IsFiniteSet(events)
    BY <1>2, <1>3, FS_Subset
  <1>5. OnePerEvent(entries) /\ OnePerEvent(events) /\ OnePerId(events)
    BY <1>2, <1>3 DEF OnePerEvent, OnePerId
  <1>6. entries \in SUBSET EntryRow /\ events \in SUBSET EventRow
    BY <1>2, <1>3 DEF Store
  <1>7. c \in Store /\ c.entries = entries /\ c.events = events /\ c.issued = d.issued
        /\ Alike(d, c)
    BY <1>2, <1>6 DEF Store, Alike
  <1> HIDE DEF c
  <1>8. /\ n \in Store /\ IsFiniteSet(n.entries) /\ OnePerEvent(n.entries)
        /\ n.events = events /\ n.issued = d.issued /\ Alike(c, n)
    BY <1>4, <1>5, <1>7, ReplaySound
  <1> HIDE DEF n
  <1>9. \A r \in events : r.id < NextId(n, "events")
    <2>1. n["events"] = events /\ n.issued["events"] = d.issued.events /\ d.issued.events \in Nat
      BY <1>2, <1>8 DEF Store
    <2>2. HighestId(events) \in Nat /\ \A r \in events : r.id <= HighestId(events)
      BY <1>2, <1>3, <1>4, HighestOf
    <2>3. n.backend = d.backend
      BY <1>7, <1>8 DEF Alike
    <2>4. NextId(n, "events") =
            IF d.backend = "sqlite" THEN HighestId(events) + 1 ELSE d.issued.events + 1
      BY <2>1, <2>3 DEF NextId
    <2>5. d.backend # "sqlite" => NextId(d, "events") = d.issued.events + 1
      BY DEF NextId
    <2> QED
      BY <1>2, <1>3, <2>1, <2>2, <2>4, <2>5
  <1> QED
    BY <1>1, <1>3, <1>4, <1>5, <1>7, <1>8, <1>9 DEF Sound, Alike, EventsCut

LEMMA ClearSound ==
  ASSUME NEW d, Sound(d)
  PROVE  LET n == ClearHistory(d)
         IN  /\ Sound(n) /\ n.backend = d.backend /\ n.outbox = d.outbox /\ n.events = {}
             /\ n.cursors = [s \in Target |-> None]
             /\ n.last_seen_ledger = d.last_seen_ledger
  <1> DEFINE n == ClearHistory(d)
  <1>1. d \in Store
    BY DEF Sound
  <1>2. /\ [tk \in Token |-> 0] \in [Token -> Int]
        /\ [s \in Target |-> None] \in [Target -> Position]
    BY DEF Position
  <1>3. /\ n \in Store /\ n.backend = d.backend /\ n.outbox = d.outbox /\ n.events = {}
        /\ n.entries = {} /\ n.cursors = [s \in Target |-> None]
        /\ n.last_seen_ledger = d.last_seen_ledger
    BY <1>1, <1>2 DEF ClearHistory, Store
  <1>4. IsFiniteSet({})
    BY FS_EmptySet
  <1> QED
    BY <1>3, <1>4 DEF Sound, OnePerEvent, OnePerId

\* A write of a checkpoint leaves the tables alone.
LEMMA SameTablesSound ==
  ASSUME NEW d, Sound(d), NEW n \in Store,
         n.backend = d.backend, n.entries = d.entries, n.events = d.events, n.issued = d.issued
  PROVE  Sound(n)
  <1>1. NextId(n, "events") = NextId(d, "events")
    BY DEF NextId
  <1> QED
    BY <1>1 DEF Sound

\* Folding the balances again, as the end of a command.
LEMMA RecomputeSound ==
  ASSUME NEW d, Sound(d)
  PROVE  LET n == ReplayBalances(d)
         IN  Sound(n) /\ Alike(d, n) /\ EventsKept(d, n)
             /\ n.last_seen_ledger = d.last_seen_ledger
  <1> DEFINE n == ReplayBalances(d)
  <1>1. d \in Store /\ IsFiniteSet(d.entries) /\ OnePerEvent(d.entries)
    BY DEF Sound
  <1>2. n.last_seen_ledger = d.last_seen_ledger
    BY <1>1 DEF ReplayBalances, Store
  <1>3. /\ n \in Store /\ IsFiniteSet(n.entries) /\ OnePerEvent(n.entries)
        /\ n.events = d.events /\ n.issued = d.issued /\ Alike(d, n)
    BY <1>1, ReplaySound
  <1> HIDE DEF n
  <1>4. NextId(n, "events") = NextId(d, "events")
    BY <1>3 DEF NextId, Alike
  <1>5. Sound(n) /\ EventsKept(d, n)
    BY <1>3, <1>4 DEF Sound, EventsKept
  <1> QED
    BY <1>2, <1>3, <1>5 DEF n

\* Recording an event leaves the recorded head alone.
LEMMA RecordKeepsSeen ==
  ASSUME NEW d, Sound(d), NEW e, NEW before
  PROVE  /\ RecordTransfer(d, e, before).last_seen_ledger = d.last_seen_ledger
         /\ RecordTransferLocked(d, e).last_seen_ledger = d.last_seen_ledger
         /\ RecordAccordEvent(d, e).last_seen_ledger = d.last_seen_ledger
  <1>1. d \in Store
    BY DEF Sound
  <1>2. ASSUME NEW v
        PROVE  RecordTransfer(d, e, v).last_seen_ledger = d.last_seen_ledger
    BY <1>1 DEF RecordTransfer, Store
  <1>3. RecordAccordEvent(d, e).last_seen_ledger = d.last_seen_ledger
    BY <1>1 DEF RecordAccordEvent, Store
  <1> QED
    BY <1>2, <1>3 DEF RecordTransferLocked

\* The checkpoints, each written on its own.
LEMMA CheckpointsSound ==
  ASSUME NEW d, Sound(d)
  PROVE  /\ \A v \in Position : LET n == [d EXCEPT !.next_ledger = v]
                                IN  Sound(n) /\ Alike(d, n) /\ EventsKept(d, n)
                                    /\ n.last_seen_ledger = d.last_seen_ledger
         /\ \A v \in Nat : LET n == [d EXCEPT !.event_cursor = v]
                           IN  Sound(n) /\ Alike(d, n) /\ EventsKept(d, n)
                               /\ n.last_seen_ledger = d.last_seen_ledger
         /\ \A v \in Position : LET n == [d EXCEPT !.last_seen_ledger = v]
                                IN  Sound(n) /\ Alike(d, n) /\ EventsKept(d, n)
                                    /\ n.last_seen_ledger = v
         /\ \A w \in [{"backfill", "reindex"} -> Walk] :
              LET n == [d EXCEPT !.walk = w]
              IN  Sound(n) /\ Alike(d, n) /\ EventsKept(d, n)
                  /\ n.last_seen_ledger = d.last_seen_ledger
         /\ \A v \in BOOLEAN : LET n == [d EXCEPT !.rebuilding = v]
                               IN  Sound(n) /\ Alike(d, n) /\ EventsKept(d, n)
                                   /\ n.last_seen_ledger = d.last_seen_ledger
  <1>1. d \in Store
    BY DEF Sound
  <1>2. ASSUME NEW v \in Position
        PROVE  LET n == [d EXCEPT !.next_ledger = v]
               IN  Sound(n) /\ Alike(d, n) /\ EventsKept(d, n)
                   /\ n.last_seen_ledger = d.last_seen_ledger
    <2> DEFINE n == [d EXCEPT !.next_ledger = v]
    <2>1. /\ n \in Store /\ n.backend = d.backend /\ n.entries = d.entries /\ n.events = d.events
          /\ n.issued = d.issued /\ n.cursors = d.cursors /\ n.outbox = d.outbox
          /\ n.last_seen_ledger = d.last_seen_ledger
      BY <1>1 DEF Store
    <2> QED
      BY <2>1, SameTablesSound DEF Alike, EventsKept
  <1>3. ASSUME NEW v \in Nat
        PROVE  LET n == [d EXCEPT !.event_cursor = v]
               IN  Sound(n) /\ Alike(d, n) /\ EventsKept(d, n)
                   /\ n.last_seen_ledger = d.last_seen_ledger
    <2> DEFINE n == [d EXCEPT !.event_cursor = v]
    <2>1. /\ n \in Store /\ n.backend = d.backend /\ n.entries = d.entries /\ n.events = d.events
          /\ n.issued = d.issued /\ n.cursors = d.cursors /\ n.outbox = d.outbox
          /\ n.last_seen_ledger = d.last_seen_ledger
      BY <1>1 DEF Store
    <2> QED
      BY <2>1, SameTablesSound DEF Alike, EventsKept
  <1>4. ASSUME NEW v \in Position
        PROVE  LET n == [d EXCEPT !.last_seen_ledger = v]
               IN  Sound(n) /\ Alike(d, n) /\ EventsKept(d, n)
                   /\ n.last_seen_ledger = v
    <2> DEFINE n == [d EXCEPT !.last_seen_ledger = v]
    <2>1. /\ n \in Store /\ n.backend = d.backend /\ n.entries = d.entries /\ n.events = d.events
          /\ n.issued = d.issued /\ n.cursors = d.cursors /\ n.outbox = d.outbox
          /\ n.last_seen_ledger = v
      BY <1>1 DEF Store
    <2> QED
      BY <2>1, SameTablesSound DEF Alike, EventsKept
  <1>5. ASSUME NEW w \in [{"backfill", "reindex"} -> Walk]
        PROVE  LET n == [d EXCEPT !.walk = w]
               IN  Sound(n) /\ Alike(d, n) /\ EventsKept(d, n)
                   /\ n.last_seen_ledger = d.last_seen_ledger
    <2> DEFINE n == [d EXCEPT !.walk = w]
    <2>1. /\ n \in Store /\ n.backend = d.backend /\ n.entries = d.entries /\ n.events = d.events
          /\ n.issued = d.issued /\ n.cursors = d.cursors /\ n.outbox = d.outbox
          /\ n.last_seen_ledger = d.last_seen_ledger
      BY <1>1 DEF Store
    <2> QED
      BY <2>1, SameTablesSound DEF Alike, EventsKept
  <1>6. ASSUME NEW v \in BOOLEAN
        PROVE  LET n == [d EXCEPT !.rebuilding = v]
               IN  Sound(n) /\ Alike(d, n) /\ EventsKept(d, n)
                   /\ n.last_seen_ledger = d.last_seen_ledger
    <2> DEFINE n == [d EXCEPT !.rebuilding = v]
    <2>1. /\ n \in Store /\ n.backend = d.backend /\ n.entries = d.entries /\ n.events = d.events
          /\ n.issued = d.issued /\ n.cursors = d.cursors /\ n.outbox = d.outbox
          /\ n.last_seen_ledger = d.last_seen_ledger
      BY <1>1 DEF Store
    <2> QED
      BY <2>1, SameTablesSound DEF Alike, EventsKept
  <1> QED
    BY <1>2, <1>3, <1>4, <1>5, <1>6

-----------------------------------------------------------------------------
(* The state of the processes *)

Before == Int \union {None}

\* The fields of a record and what the properties need of them.
BatchTyped(x) ==
  /\ DOMAIN x = {"at", "cursor", "nextLedger", "startingLedger", "previousLatest", "latestSeen",
                 "pages", "firstHeldBack", "reorgChecked", "todo", "last", "full", "before",
                 "checkpoint"}
  /\ x.cursor \in Nat /\ x.nextLedger \in Nat /\ x.startingLedger \in Nat
  /\ x.previousLatest \in Nat /\ x.latestSeen \in Nat /\ x.firstHeldBack \in Nat
  /\ x.last \in Nat /\ x.todo \in SUBSET Event /\ x.before \in Before

RunTyped(x) ==
  /\ DOMAIN x = {"at", "cmd", "start", "end", "cursor", "todo", "full", "last", "before"}
  /\ x.at # "idle" => x.cmd \in {"backfill", "reindex"}
  /\ x.start \in Nat /\ x.end \in Nat /\ x.cursor \in Nat /\ x.last \in Nat
  /\ x.todo \in SUBSET Event /\ x.before \in Before

TickTyped(x) ==
  /\ DOMAIN x = {"at", "targets", "left", "cursor", "claimed", "flight"}
  /\ x.cursor \in {None} \union [of : Target, id : Nat]
  /\ x.claimed \in SUBSET Nat
  /\ DOMAIN x.flight = Target

SyncTyped ==
  /\ conf \in Deployment /\ db.backend = conf.backend
  /\ closed \in Nat /\ seen \in Nat
  /\ BatchTyped(b) /\ RunTyped(h)

\* A node whose answers never regress never sends a batch to the rewind.
HeadsSeen ==
  ~conf.regress => /\ b.at # "rewind"
                   /\ b.previousLatest <= seen /\ b.latestSeen <= seen
                   /\ Or(db.last_seen_ledger, 0) <= seen

TablesInv == SyncTyped /\ Sound(db) /\ HeadsSeen

LEMMA DeploymentOf ==
  ASSUME NEW c \in Deployment
  PROVE  /\ c.backend \in {"sqlite", "postgres"} /\ c.lag \in Nat
         /\ c.pageLimit \in Nat \ {0} /\ c.maxPages \in Nat \ {0}
         /\ c.regress \in BOOLEAN /\ c.starts \in SUBSET Nat
         /\ c.commands \in SUBSET {"backfill", "reindex"}
  BY DeploymentAssumption DEF Settings

\* What a batch or a command does to the store, as its other users see it.
StoreStep ==
  /\ Sound(db') /\ Alike(db, db')
  /\ \/ EventsKept(db, db') \/ EventAdded(db, db')
     \/ b.at = "rewind" /\ conf' = conf /\ EventsCut(db, db')
Emptied ==
  /\ Sound(db') /\ db'.backend = db.backend /\ db'.outbox = db.outbox /\ db'.events = {}
  /\ db'.cursors = [s \in Target |-> None]
  /\ db'.last_seen_ledger = db.last_seen_ledger

\* The view of the node.
LEMMA ViewTyped ==
  ASSUME SyncTyped, NEW head, View(head)
  PROVE  head \in Nat /\ head >= 1 /\ seen' \in Nat /\ (~conf.regress => head >= seen)
         /\ seen' >= seen /\ seen' >= head
  BY DEF View, SyncTyped

LEMMA PageTyped ==
  ASSUME NEW c, NEW l, NEW k, NEW m
  PROVE  GetEvents(c, l, k, m) \in SUBSET Event
  BY DEF GetEvents

LEMMA StartBatchOK ==
  ASSUME TablesInv, StartBatch
  PROVE  /\ BatchTyped(b') /\ db' = db
         /\ b'.at = "request" /\ b'.latestSeen = Or(db.last_seen_ledger, 0)
         /\ b'.previousLatest = Or(db.last_seen_ledger, 0)
  <1>1. db.next_ledger \in Position /\ db.last_seen_ledger \in Position /\ db.event_cursor \in Nat
    BY DEF TablesInv, Sound, Store
  <1>2. Or(db.next_ledger, StartLedger) \in Nat /\ Or(db.last_seen_ledger, 0) \in Nat
        /\ Infinity \in Nat
    BY <1>1, SyncAssumption DEF Or, Position, Infinity
  <1> DEFINE next == Or(db.next_ledger, StartLedger)
             prev == Or(db.last_seen_ledger, 0)
  <1> HIDE DEF next, prev
  <1>3. db' = db /\ b' = [Idle EXCEPT !.at = "request", !.cursor = db.event_cursor,
                 !.nextLedger = next, !.startingLedger = next,
                 !.previousLatest = prev, !.latestSeen = prev, !.firstHeldBack = Infinity]
    BY DEF StartBatch, next, prev
  <1>4. next \in Nat /\ prev \in Nat
    BY <1>2 DEF next, prev
  <1>5. BatchTyped(Idle)
    BY DEF Idle, BatchTyped, Before
  <1>6. BatchTyped(b')
    BY <1>1, <1>2, <1>3, <1>4, <1>5 DEF BatchTyped
  <1>7. b'.at = "request" /\ b'.latestSeen = prev /\ b'.previousLatest = prev
    BY <1>3, <1>5 DEF BatchTyped
  <1> QED
    BY <1>3, <1>6, <1>7 DEF prev

\* A page changes the local variables only; its view is never behind the last one
\* unless answers may regress, and then only a regress sends the batch to the rewind.
LEMMA FetchPageOK ==
  ASSUME TablesInv, FetchPage
  PROVE  /\ BatchTyped(b') /\ seen' \in Nat /\ db' = db
         /\ (~conf.regress /\ b.previousLatest <= seen /\ b.latestSeen <= seen
             => /\ seen <= seen' /\ b'.at # "rewind"
                /\ b'.previousLatest <= seen' /\ b'.latestSeen <= seen')
  <1> DEFINE page(head)   == GetEvents(b.cursor, b.nextLedger, head, conf.pageLimit)
             last(head)   == Max(page(head) \union {0})
             latest(head) == Max2(b.latestSeen, head)
             reorg(head)  == ~b.reorgChecked /\ DetectReorg(b.previousLatest, head)
             full(head)   == Cardinality(page(head)) = conf.pageLimit
             previous(head) == IF b.reorgChecked THEN b.previousLatest ELSE head
  <1>1. BatchTyped(b) /\ SyncTyped
    BY DEF TablesInv, SyncTyped
  <1>2. PICK head \in 1..MaxLedger :
          /\ View(head)
          /\ b' = IF reorg(head)
                  THEN [b EXCEPT !.at = "rewind", !.reorgChecked = TRUE,
                                 !.previousLatest = head, !.latestSeen = head]
                  ELSE [b EXCEPT !.at = "ingest", !.reorgChecked = TRUE,
                                 !.previousLatest = previous(head), !.latestSeen = latest(head),
                                 !.todo = page(head), !.full = full(head), !.last = last(head)]
    BY DEF FetchPage
  <1>3. head \in Nat /\ head >= 1 /\ seen' \in Nat /\ (~conf.regress => head >= seen)
        /\ seen' >= seen /\ seen' >= head
    BY <1>1, <1>2, ViewTyped
  <1>4. page(head) \in SUBSET Event
    BY PageTyped
  <1>5. last(head) \in Nat
    BY <1>4, LastOfPage
  <1>6. b.previousLatest \in Nat /\ b.latestSeen \in Nat /\ seen \in Nat
    BY <1>1 DEF BatchTyped, SyncTyped
  <1>7. previous(head) \in Nat /\ latest(head) \in Nat /\ full(head) \in BOOLEAN
        /\ (latest(head) = head \/ latest(head) = b.latestSeen)
        /\ (previous(head) = head \/ previous(head) = b.previousLatest)
    BY <1>3, <1>6 DEF Max2
  <1>8. reorg(head) => b.previousLatest > 0 /\ head < b.previousLatest
    BY DEF DetectReorg
  <1>9. db' = db
    BY DEF FetchPage
  <1> HIDE DEF page, last, latest, reorg, full, previous
  <1>10. CASE reorg(head)
    <2>1. b' = [b EXCEPT !.at = "rewind", !.reorgChecked = TRUE,
                         !.previousLatest = head, !.latestSeen = head]
      BY <1>2, <1>10
    <2>2. BatchTyped(b')
      BY <1>1, <1>3, <2>1 DEF BatchTyped
    <2> QED
      BY <1>3, <1>6, <1>8, <1>9, <1>10, <2>2
  <1>11. CASE ~reorg(head)
    <2>1. b' = [b EXCEPT !.at = "ingest", !.reorgChecked = TRUE,
                         !.previousLatest = previous(head), !.latestSeen = latest(head),
                         !.todo = page(head), !.full = full(head), !.last = last(head)]
      BY <1>2, <1>11
    <2>2. BatchTyped(b')
      BY <1>1, <1>3, <1>4, <1>5, <1>7, <2>1 DEF BatchTyped
    <2>3. b'.at = "ingest" /\ b'.previousLatest = previous(head) /\ b'.latestSeen = latest(head)
      BY <1>1, <2>1 DEF BatchTyped
    <2> QED
      BY <1>3, <1>6, <1>7, <1>9, <2>2, <2>3
  <1> QED
    BY <1>10, <1>11

\* One step of a batch.
LEMMA BatchOK ==
  ASSUME TablesInv, BatchStep
  PROVE  BatchTyped(b') /\ seen' \in Nat /\ StoreStep /\ HeadsSeen'
  <1> DEFINE OK == BatchTyped(b') /\ seen' \in Nat /\ StoreStep /\ HeadsSeen'
  <1>1. /\ conf \in Deployment /\ db.backend = conf.backend /\ closed \in Nat /\ seen \in Nat
        /\ BatchTyped(b) /\ Sound(db) /\ HeadsSeen
    BY DEF TablesInv, SyncTyped
  <1>2. conf.lag \in Nat /\ conf.backend \in {"sqlite", "postgres"}
    BY <1>1, DeploymentOf
  <1>3. Sound(db) /\ Alike(db, db) /\ EventsKept(db, db)
    BY <1>1 DEF Alike, EventsKept
  <1>4. db \in Store
    BY <1>1 DEF Sound
  <1>5. FinalLedgerFor(b.latestSeen, conf.lag) \in Nat /\ Infinity \in Nat
    BY <1>1, <1>2, SyncAssumption DEF FinalLedgerFor, Max2, BatchTyped, Infinity
  <1>6. b.todo # {} => /\ Upcoming \in b.todo /\ Upcoming \in Event
                       /\ b.todo \ {Upcoming} \in SUBSET Event
    BY <1>1, FirstOfPage DEF Upcoming, BatchTyped
  <1>7. CASE StartBatch
    <2>1. /\ BatchTyped(b') /\ db' = db
          /\ b'.at = "request" /\ b'.latestSeen = Or(db.last_seen_ledger, 0)
          /\ b'.previousLatest = Or(db.last_seen_ledger, 0)
      BY <1>7, StartBatchOK
    <2>2. conf' = conf /\ seen' = seen
      BY <1>7 DEF StartBatch
    <2> QED
      BY <1>1, <1>3, <2>1, <2>2 DEF StoreStep, HeadsSeen
  <1>8. CASE FetchPage
    <2>1. /\ BatchTyped(b') /\ seen' \in Nat /\ db' = db
          /\ (~conf.regress /\ b.previousLatest <= seen /\ b.latestSeen <= seen
             => /\ seen <= seen' /\ b'.at # "rewind"
                /\ b'.previousLatest <= seen' /\ b'.latestSeen <= seen')
      BY <1>8, FetchPageOK
    <2>2. conf' = conf
      BY <1>8 DEF FetchPage
    <2>3. Or(db.last_seen_ledger, 0) \in Nat
      BY <1>4 DEF Store, Position, Or
    <2>4. HeadsSeen'
      BY <1>1, <2>1, <2>2, <2>3 DEF HeadsSeen
    <2> QED
      BY <1>3, <2>1, <2>4 DEF StoreStep
  <1>9. CASE Rewind
    <2> DEFINE target == FinalLedgerFor(b.latestSeen, conf.lag)
    <2>1. /\ Sound(RewindToLedger(db, target)) /\ Alike(db, RewindToLedger(db, target))
          /\ EventsCut(db, RewindToLedger(db, target))
      BY <1>1, RewindSound
    <2> HIDE DEF target
    <2>2. /\ b.at = "rewind" /\ db' = RewindToLedger(db, target) /\ conf' = conf /\ seen' = seen
          /\ b'  = [b EXCEPT !.at = "unpark", !.nextLedger = target + 1,
                            !.startingLedger = target + 1, !.cursor = 0]
      BY <1>9 DEF Rewind, target
    <2>3. target \in Nat /\ target + 1 \in Nat
      BY <1>5 DEF target
    <2>4. BatchTyped(b')
      BY <1>1, <2>2, <2>3 DEF BatchTyped
    <2>5. conf.regress /\ HeadsSeen'
      BY <1>1, <2>2 DEF HeadsSeen
    <2> QED
      BY <1>1, <2>1, <2>2, <2>4, <2>5 DEF StoreStep
  <1>10. CASE ClearCursorAfterRewind
    <2>1. /\ db' = [db EXCEPT !.event_cursor = 0] /\ conf' = conf /\ seen' = seen
          /\ b' = [b EXCEPT !.at = "request", !.firstHeldBack = Infinity]
      BY <1>10 DEF ClearCursorAfterRewind
    <2>2. Sound(db') /\ Alike(db, db') /\ EventsKept(db, db')
          /\ db'.last_seen_ledger = db.last_seen_ledger
      BY <1>1, <2>1, CheckpointsSound
    <2>3. /\ BatchTyped(b') /\ b'.at = "request" /\ b'.previousLatest = b.previousLatest
          /\ b'.latestSeen = b.latestSeen
      BY <1>1, <1>5, <2>1 DEF BatchTyped
    <2> QED
      BY <1>1, <2>1, <2>2, <2>3 DEF StoreStep, HeadsSeen
  <1>11. CASE HoldBack
    <2>1. db' = db /\ conf' = conf /\ seen' = seen /\ b.todo # {} /\ b.at = "ingest"
      BY <1>11 DEF HoldBack
    <2>2. LedgerOf(Upcoming) \in Nat
      BY <1>6, <2>1, EventNumbers
    <2> DEFINE held == IF LedgerOf(Upcoming) < b.firstHeldBack
                       THEN LedgerOf(Upcoming) ELSE b.firstHeldBack
    <2>3. held \in Nat
      BY <1>1, <2>2 DEF BatchTyped
    <2>4. b' = [b EXCEPT !.todo = b.todo \ {Upcoming}, !.firstHeldBack = held]
      BY <1>1, <1>11 DEF HoldBack, BatchTyped
    <2> HIDE DEF held
    <2>5. /\ BatchTyped(b') /\ b'.at = b.at /\ b'.previousLatest = b.previousLatest
          /\ b'.latestSeen = b.latestSeen
      BY <1>1, <1>6, <2>1, <2>3, <2>4 DEF BatchTyped
    <2> QED
      BY <1>1, <1>3, <2>1, <2>5 DEF StoreStep, HeadsSeen
  <1>12. CASE ReadBalance
    <2>1. /\ db' = db /\ conf' = conf /\ seen' = seen /\ b.todo # {} /\ IsTransfer(Upcoming)
          /\ b' = [b EXCEPT !.before = db.balances[ParseTokenTransferEvent(Upcoming).token]]
      BY <1>12 DEF ReadBalance
    <2>2. db.balances[ParseTokenTransferEvent(Upcoming).token] \in Before
      BY <1>4, <1>6, <2>1, TransferShape DEF Transfers, Store, Before
    <2>3. /\ BatchTyped(b') /\ b'.at = b.at /\ b'.previousLatest = b.previousLatest
          /\ b'.latestSeen = b.latestSeen
      BY <1>1, <2>1, <2>2 DEF BatchTyped
    <2> QED
      BY <1>1, <1>3, <2>1, <2>3 DEF StoreStep, HeadsSeen
  <1>13. CASE IngestEvent
    <2>1. /\ conf' = conf /\ seen' = seen /\ b.todo # {}
          /\ IsTransfer(Upcoming) /\ conf.backend = "sqlite" => b.before # None
          /\ b' = [b EXCEPT !.todo = @ \ {Upcoming}, !.before = None]
      BY <1>13 DEF IngestEvent
    <2>2. /\ BatchTyped(b') /\ b'.at = b.at /\ b'.previousLatest = b.previousLatest
          /\ b'.latestSeen = b.latestSeen
      BY <1>1, <1>6, <2>1 DEF BatchTyped, Before
    <2>3. /\ Sound(db') /\ Alike(db, db') /\ (EventsKept(db, db') \/ EventAdded(db, db'))
          /\ db'.last_seen_ledger = db.last_seen_ledger
      <3>1. CASE IsTransfer(Upcoming) /\ conf.backend = "sqlite"
        <4>1. Upcoming \in Transfers /\ b.before \in Int
          BY <1>1, <1>6, <2>1, <3>1 DEF Transfers, BatchTyped, Before
        <4>2. db' = RecordTransfer(db, Upcoming, b.before)
          BY <1>13, <3>1 DEF IngestEvent
        <4> QED
          BY <1>1, <4>1, <4>2, RecordTransferSound, RecordKeepsSeen
      <3>2. CASE IsTransfer(Upcoming) /\ conf.backend # "sqlite"
        <4>1. Upcoming \in Transfers
          BY <1>6, <2>1, <3>2 DEF Transfers
        <4>2. db' = RecordTransferLocked(db, Upcoming)
          BY <1>13, <3>2 DEF IngestEvent
        <4> QED
          BY <1>1, <4>1, <4>2, RecordTransferLockedSound, RecordKeepsSeen
      <3>3. CASE ~IsTransfer(Upcoming) /\ IsAccordEvent(Upcoming)
        <4>1. db' = RecordAccordEvent(db, Upcoming)
          BY <1>13, <3>3 DEF IngestEvent
        <4> QED
          BY <1>1, <1>6, <2>1, <4>1, RecordAccordEventSound, RecordKeepsSeen
      <3>4. CASE ~IsTransfer(Upcoming) /\ ~IsAccordEvent(Upcoming)
        BY <1>3, <1>13, <3>4 DEF IngestEvent
      <3> QED
        BY <3>1, <3>2, <3>3, <3>4
    <2> QED
      BY <1>1, <2>1, <2>2, <2>3 DEF StoreStep, HeadsSeen
  <1>14. CASE NextPage
    <2> DEFINE at == IF b.pages + 1 < conf.maxPages THEN "request" ELSE "finish"
    <2>0. at # "rewind"
      OBVIOUS
    <2>1. /\ db' = [db EXCEPT !.event_cursor = b.last] /\ conf' = conf /\ seen' = seen
          /\ b' = [b EXCEPT !.cursor = b.last, !.pages = @ + 1, !.at = at]
      BY <1>14 DEF NextPage
    <2> HIDE DEF at
    <2>2. Sound(db') /\ Alike(db, db') /\ EventsKept(db, db')
          /\ db'.last_seen_ledger = db.last_seen_ledger
      BY <1>1, <2>1, CheckpointsSound DEF BatchTyped
    <2>3. /\ BatchTyped(b') /\ b'.at = at /\ b'.previousLatest = b.previousLatest
          /\ b'.latestSeen = b.latestSeen
      BY <1>1, <2>1 DEF BatchTyped
    <2> QED
      BY <1>1, <2>0, <2>1, <2>2, <2>3 DEF StoreStep, HeadsSeen
  <1>15. CASE ReachTip
    <2> DEFINE next == Max2(b.startingLedger,
                            IF b.firstHeldBack < Infinity THEN b.firstHeldBack
                            ELSE FinalLedgerFor(b.latestSeen, conf.lag) + 1)
    <2>1. /\ db' = [db EXCEPT !.next_ledger = next] /\ conf' = conf /\ seen' = seen
          /\ b' = [b EXCEPT !.at = "tip"]
      BY <1>15 DEF ReachTip
    <2>2. next \in Position
      BY <1>1, <1>5 DEF Max2, BatchTyped, Position
    <2> HIDE DEF next
    <2>3. Sound(db') /\ Alike(db, db') /\ EventsKept(db, db')
          /\ db'.last_seen_ledger = db.last_seen_ledger
      BY <1>1, <2>1, <2>2, CheckpointsSound
    <2>4. /\ BatchTyped(b') /\ b'.at = "tip" /\ b'.previousLatest = b.previousLatest
          /\ b'.latestSeen = b.latestSeen
      BY <1>1, <2>1 DEF BatchTyped
    <2> QED
      BY <1>1, <2>1, <2>3, <2>4 DEF StoreStep, HeadsSeen
  <1>16. CASE DropCursor
    <2>1. /\ db' = [db EXCEPT !.event_cursor = 0] /\ conf' = conf /\ seen' = seen
          /\ b' = [b EXCEPT !.at = "finish"]
      BY <1>16 DEF DropCursor
    <2>2. Sound(db') /\ Alike(db, db') /\ EventsKept(db, db')
          /\ db'.last_seen_ledger = db.last_seen_ledger
      BY <1>1, <2>1, CheckpointsSound
    <2>3. /\ BatchTyped(b') /\ b'.at = "finish" /\ b'.previousLatest = b.previousLatest
          /\ b'.latestSeen = b.latestSeen
      BY <1>1, <2>1 DEF BatchTyped
    <2> QED
      BY <1>1, <2>1, <2>2, <2>3 DEF StoreStep, HeadsSeen
  <1>17. CASE FinishBatch
    <2>1. /\ db' = IF b.latestSeen > 0 THEN [db EXCEPT !.last_seen_ledger = b.latestSeen] ELSE db
          /\ conf' = conf /\ seen' = seen /\ b' = Idle
      BY <1>17 DEF FinishBatch
    <2>2. /\ BatchTyped(b') /\ b'.at = "idle" /\ b'.previousLatest = 0 /\ b'.latestSeen = 0
      BY <2>1 DEF BatchTyped, Idle, Before
    <2>3. b.latestSeen \in Nat /\ b.latestSeen \in Position /\ b.latestSeen # None
      BY <1>1, ChainAssumption DEF BatchTyped, Position
    <2>4. /\ Sound(db') /\ Alike(db, db') /\ EventsKept(db, db')
          /\ db'.last_seen_ledger \in {db.last_seen_ledger, b.latestSeen}
      <3>1. CASE b.latestSeen > 0
        <4>1. db' = [db EXCEPT !.last_seen_ledger = b.latestSeen]
          BY <2>1, <3>1
        <4> QED
          BY <1>1, <2>3, <4>1, CheckpointsSound
      <3>2. CASE ~(b.latestSeen > 0)
        BY <1>3, <2>1, <3>2
      <3> QED
        BY <3>1, <3>2
    <2>5. HeadsSeen'
      BY <1>1, <2>1, <2>2, <2>3, <2>4 DEF HeadsSeen, Or
    <2> QED
      BY <1>1, <2>1, <2>2, <2>4, <2>5 DEF StoreStep
  <1> QED
    BY <1>7, <1>8, <1>9, <1>10, <1>11, <1>12, <1>13, <1>14, <1>15, <1>16, <1>17 DEF BatchStep

\* What a history command may do: a step like a batch's, or a reindex that starts
\* over while the service rests.
RunStep == StoreStep \/ (Emptied /\ b = Idle /\ t = Resting)

LEMMA StartRunOK ==
  ASSUME TablesInv, NEW c \in conf.commands, MayStart(c), StartRun(c)
  PROVE  RunTyped(h') /\ RunStep /\ HeadsSeen'
  <1>1. /\ conf \in Deployment /\ Sound(db) /\ RunTyped(h) /\ closed \in Nat /\ HeadsSeen
    BY DEF TablesInv, SyncTyped
  <1>2. /\ conf.lag \in Nat /\ conf.starts \in SUBSET Nat
        /\ conf.commands \in SUBSET {"backfill", "reindex"}
    BY <1>1, DeploymentOf
  <1> DEFINE range(from) == ResolveHistoryRange(from, None)
             resuming(from) == db.rebuilding /\ Resumes(db, c, range(from).start, range(from).end)
             at(from) == IF c = "reindex" /\ ~resuming(from) THEN "blank"
                         ELSE IF c = "reindex" THEN "mark" ELSE "begin"
  <1>3. PICK from \in conf.starts :
          /\ h' = IF range(from).start > range(from).end THEN NoRun
                  ELSE [NoRun EXCEPT !.at = at(from), !.cmd = c,
                                     !.start = range(from).start, !.end = range(from).end]
          /\ db' = IF c = "reindex" /\ ~resuming(from) THEN ClearHistory(db) ELSE db
    BY DEF StartRun
  <1>4. range(from).start \in Nat /\ range(from).end \in Nat
    BY <1>1, <1>2 DEF ResolveHistoryRange, FinalLedgerFor, Max2
  <1>5. /\ conf' = conf /\ b' = b /\ seen' = seen
    BY DEF StartRun, syncState
  <1>6. c \in {"backfill", "reindex"}
    BY <1>2
  <1>7. RunTyped(NoRun)
    BY DEF RunTyped, NoRun, Before
  <1> DEFINE clears == c = "reindex" /\ ~resuming(from)
             start  == range(from).start
             end    == range(from).end
             phase  == at(from)
  <1> HIDE DEF range, resuming, at, clears, start, end, phase
  <1>8. RunTyped(h')
    <2>1. h' = NoRun \/ h' = [NoRun EXCEPT !.at = phase, !.cmd = c, !.start = start, !.end = end]
      BY <1>3 DEF phase, start, end
    <2>2. start \in Nat /\ end \in Nat
      BY <1>4 DEF start, end
    <2> QED
      BY <1>6, <1>7, <2>1, <2>2 DEF RunTyped
  <1>9. CASE clears
    <2>1. db' = ClearHistory(db) /\ b = Idle /\ t = Resting
      BY <1>3, <1>9 DEF clears, MayStart
    <2>2. Emptied
      BY <1>1, <2>1, ClearSound DEF Emptied
    <2>3. HeadsSeen'
      BY <1>1, <1>5, <2>2 DEF HeadsSeen, Emptied
    <2> QED
      BY <1>8, <2>1, <2>2, <2>3 DEF RunStep
  <1>10. CASE ~clears
    <2>1. db' = db
      BY <1>3, <1>10 DEF clears
    <2> QED
      BY <1>1, <1>5, <1>8, <2>1 DEF RunStep, StoreStep, HeadsSeen, Alike, EventsKept
  <1> QED
    BY <1>9, <1>10

LEMMA HistoryOK ==
  ASSUME TablesInv, History
  PROVE  RunTyped(h') /\ RunStep /\ HeadsSeen'
  <1>1. /\ conf \in Deployment /\ db.backend = conf.backend /\ closed \in Nat /\ seen \in Nat
        /\ RunTyped(h) /\ Sound(db) /\ HeadsSeen
    BY DEF TablesInv, SyncTyped
  <1>2. conf.lag \in Nat /\ conf.backend \in {"sqlite", "postgres"}
    BY <1>1, DeploymentOf
  <1>3. Sound(db) /\ Alike(db, db) /\ EventsKept(db, db)
    BY <1>1 DEF Alike, EventsKept
  <1>4. db \in Store
    BY <1>1 DEF Sound
  <1>5. h.todo # {} => /\ NextToRecord \in h.todo /\ NextToRecord \in Event
                       /\ h.todo \ {NextToRecord} \in SUBSET Event
    BY <1>1, FirstOfPage DEF NextToRecord, RunTyped
  <1>6. CASE h.at = "idle"
    <2>1. PICK c \in conf.commands : MayStart(c) /\ StartRun(c)
      BY <1>6 DEF History
    <2> QED
      BY <2>1, StartRunOK
  <1>7. ASSUME h.at # "idle"
        PROVE  RunTyped(h') /\ RunStep /\ HeadsSeen'
    <2>1. h.cmd \in {"backfill", "reindex"}
      BY <1>1, <1>7 DEF RunTyped
    <2>2. db.walk \in [{"backfill", "reindex"} -> Walk]
      BY <1>4 DEF Store
    <2>3. SUFFICES /\ conf' = conf /\ b' = b /\ seen' = seen /\ RunTyped(h')
                   /\ Sound(db') /\ Alike(db, db')
                   /\ (EventsKept(db, db') \/ EventAdded(db, db'))
                   /\ db'.last_seen_ledger = db.last_seen_ledger
      BY <1>1 DEF RunStep, StoreStep, HeadsSeen
    <2>4. CASE BlankCheckpoint
      <3> DEFINE w == [db.walk EXCEPT !["reindex"] = [@ EXCEPT !.cursor = 0, !.done = FALSE]]
      <3>1. /\ conf' = conf /\ b' = b /\ seen' = seen /\ h' = [h EXCEPT !.at = "mark"]
            /\ h.at = "blank"
        BY <2>4 DEF BlankCheckpoint, syncState
      <3>2. db' = [db EXCEPT !.walk = w]
        BY <2>2, <2>4 DEF BlankCheckpoint
      <3>3. w \in [{"backfill", "reindex"} -> Walk]
        BY <2>2 DEF Walk
      <3> HIDE DEF w
      <3>4. RunTyped(h')
        BY <1>1, <3>1 DEF RunTyped
      <3> QED
        BY <1>1, <3>1, <3>2, <3>3, <3>4, CheckpointsSound
    <2>5. CASE MarkRebuilding
      <3>1. /\ conf' = conf /\ b' = b /\ seen' = seen /\ h' = [h EXCEPT !.at = "begin"]
            /\ h.at = "mark" /\ db' = [db EXCEPT !.rebuilding = TRUE]
        BY <2>5 DEF MarkRebuilding, syncState
      <3>2. RunTyped(h')
        BY <1>1, <3>1 DEF RunTyped
      <3> QED
        BY <1>1, <3>1, <3>2, CheckpointsSound
    <2>6. CASE BeginWalk
      <3> DEFINE w == [db.walk EXCEPT ![h.cmd] = [@ EXCEPT !.from = h.start, !.to = h.end,
                                                           !.done = FALSE]]
                 cursor == IF Resumes(db, h.cmd, h.start, h.end)
                           THEN db.walk[h.cmd].cursor ELSE 0
      <3>1. /\ conf' = conf /\ b' = b /\ seen' = seen /\ h.at = "begin"
            /\ h' = [h EXCEPT !.at = "request", !.cursor = cursor]
        BY <2>6 DEF BeginWalk, syncState
      <3>2. db' = [db EXCEPT !.walk = w]
        BY <2>1, <2>2, <2>6 DEF BeginWalk
      <3>3. h.start \in Position /\ h.end \in Position
        BY <1>1 DEF RunTyped, Position
      <3>4. w \in [{"backfill", "reindex"} -> Walk]
        BY <2>1, <2>2, <3>3 DEF Walk
      <3>5. cursor \in Nat
        BY <2>1, <2>2 DEF Walk
      <3> HIDE DEF w, cursor
      <3>6. RunTyped(h')
        BY <1>1, <2>1, <3>1, <3>5 DEF RunTyped
      <3> QED
        BY <1>1, <3>1, <3>2, <3>4, <3>6, CheckpointsSound
    <2>7. CASE RequestPage
      <3> DEFINE page == GetEvents(h.cursor, h.start, closed, conf.pageLimit)
                 todo == {e \in page : LedgerOf(e) \in h.start..h.end}
                 full == /\ Cardinality(page) = conf.pageLimit
                         /\ \A e \in page : LedgerOf(e) <= h.end
                 last == Max(page \union {0})
      <3>1. /\ conf' = conf /\ b' = b /\ seen' = seen /\ db' = db
            /\ h' = [h EXCEPT !.at = "record", !.todo = todo, !.full = full, !.last = last]
        BY <2>7 DEF RequestPage, syncState
      <3>2. page \in SUBSET Event
        BY PageTyped
      <3>3. todo \in SUBSET Event
        BY <3>2
      <3> HIDE DEF page
      <3>4. last \in Nat
        BY <3>2, LastOfPage
      <3> HIDE DEF todo, full, last
      <3>5. RunTyped(h')
        BY <1>1, <2>1, <3>1, <3>3, <3>4 DEF RunTyped
      <3> QED
        BY <1>3, <3>1, <3>5
    <2>8. CASE ReadBalanceBefore
      <3>1. /\ conf' = conf /\ b' = b /\ seen' = seen /\ db' = db /\ h.todo # {}
            /\ IsTransfer(NextToRecord)
            /\ h' = [h EXCEPT !.before = db.balances[ParseTokenTransferEvent(NextToRecord).token]]
        BY <2>8 DEF ReadBalanceBefore, syncState
      <3>2. db.balances[ParseTokenTransferEvent(NextToRecord).token] \in Before
        BY <1>4, <1>5, <3>1, TransferShape DEF Transfers, Store, Before
      <3>3. RunTyped(h')
        BY <1>1, <2>1, <3>1, <3>2 DEF RunTyped
      <3> QED
        BY <1>3, <3>1, <3>3
    <2>9. CASE RecordHistoric
      <3>1. /\ conf' = conf /\ b' = b /\ seen' = seen /\ h.todo # {}
            /\ IsTransfer(NextToRecord) /\ conf.backend = "sqlite" => h.before # None
            /\ h' = [h EXCEPT !.todo = @ \ {NextToRecord}, !.before = None]
        BY <2>9 DEF RecordHistoric, syncState
      <3>2. RunTyped(h')
        BY <1>1, <1>5, <2>1, <3>1 DEF RunTyped, Before
      <3>3. /\ Sound(db') /\ Alike(db, db') /\ (EventsKept(db, db') \/ EventAdded(db, db'))
            /\ db'.last_seen_ledger = db.last_seen_ledger
        <4>1. CASE IsTransfer(NextToRecord) /\ conf.backend = "sqlite"
          <5>1. NextToRecord \in Transfers /\ h.before \in Int
            BY <1>1, <1>5, <3>1, <4>1 DEF Transfers, RunTyped, Before
          <5>2. db' = RecordTransfer(db, NextToRecord, h.before)
            BY <2>9, <4>1 DEF RecordHistoric
          <5> QED
            BY <1>1, <5>1, <5>2, RecordTransferSound, RecordKeepsSeen
        <4>2. CASE IsTransfer(NextToRecord) /\ conf.backend # "sqlite"
          <5>1. NextToRecord \in Transfers
            BY <1>5, <3>1, <4>2 DEF Transfers
          <5>2. db' = RecordTransferLocked(db, NextToRecord)
            BY <2>9, <4>2 DEF RecordHistoric
          <5> QED
            BY <1>1, <5>1, <5>2, RecordTransferLockedSound, RecordKeepsSeen
        <4>3. CASE ~IsTransfer(NextToRecord) /\ IsAccordEvent(NextToRecord)
          <5>1. db' = RecordAccordEvent(db, NextToRecord)
            BY <2>9, <4>3 DEF RecordHistoric
          <5> QED
            BY <1>1, <1>5, <3>1, <5>1, RecordAccordEventSound, RecordKeepsSeen
        <4>4. CASE ~IsTransfer(NextToRecord) /\ ~IsAccordEvent(NextToRecord)
          BY <1>3, <2>9, <4>4 DEF RecordHistoric
        <4> QED
          BY <4>1, <4>2, <4>3, <4>4
      <3> QED
        BY <3>1, <3>2, <3>3
    <2>10. CASE StorePage
      <3> DEFINE w == [db.walk EXCEPT ![h.cmd] = [@ EXCEPT !.cursor = h.last]]
      <3>1. /\ conf' = conf /\ b' = b /\ seen' = seen
            /\ h' = [h EXCEPT !.cursor = h.last, !.at = "request"]
        BY <2>10 DEF StorePage, syncState
      <3>2. db' = [db EXCEPT !.walk = w]
        BY <2>1, <2>2, <2>10 DEF StorePage
      <3>3. w \in [{"backfill", "reindex"} -> Walk]
        BY <1>1, <2>1, <2>2 DEF Walk, RunTyped
      <3> HIDE DEF w
      <3>4. RunTyped(h')
        BY <1>1, <2>1, <3>1 DEF RunTyped
      <3> QED
        BY <1>1, <3>1, <3>2, <3>3, <3>4, CheckpointsSound
    <2>11. CASE CompleteWalk
      <3> DEFINE w == [db.walk EXCEPT ![h.cmd] = [@ EXCEPT !.done = TRUE]]
      <3>1. /\ conf' = conf /\ b' = b /\ seen' = seen /\ h' = [h EXCEPT !.at = "done"]
        BY <2>11 DEF CompleteWalk, syncState
      <3>2. db' = [db EXCEPT !.walk = w]
        BY <2>1, <2>2, <2>11 DEF CompleteWalk
      <3>3. w \in [{"backfill", "reindex"} -> Walk]
        BY <2>1, <2>2 DEF Walk
      <3> HIDE DEF w
      <3>4. RunTyped(h')
        BY <1>1, <2>1, <3>1 DEF RunTyped
      <3> QED
        BY <1>1, <3>1, <3>2, <3>3, <3>4, CheckpointsSound
    <2>12. CASE ClearWalkCursor
      <3> DEFINE w == [db.walk EXCEPT ![h.cmd] = [@ EXCEPT !.cursor = 0]]
      <3>1. /\ conf' = conf /\ b' = b /\ seen' = seen /\ h' = [h EXCEPT !.at = "handover"]
        BY <2>12 DEF ClearWalkCursor, syncState
      <3>2. db' = [db EXCEPT !.walk = w]
        BY <2>1, <2>2, <2>12 DEF ClearWalkCursor
      <3>3. w \in [{"backfill", "reindex"} -> Walk]
        BY <2>1, <2>2 DEF Walk
      <3> HIDE DEF w
      <3>4. RunTyped(h')
        BY <1>1, <2>1, <3>1 DEF RunTyped
      <3> QED
        BY <1>1, <3>1, <3>2, <3>3, <3>4, CheckpointsSound
    <2>13. CASE ReadNextLedger
      <3>1. /\ conf' = conf /\ b' = b /\ seen' = seen /\ db' = db
            /\ h' = [h EXCEPT !.at = "finish", !.last = Or(db.next_ledger, 0)]
        BY <2>13 DEF ReadNextLedger, syncState
      <3>2. Or(db.next_ledger, 0) \in Nat
        BY <1>4 DEF Or, Store, Position
      <3>3. RunTyped(h')
        BY <1>1, <2>1, <3>1, <3>2 DEF RunTyped
      <3> QED
        BY <1>3, <3>1, <3>3
    <2>14. CASE FinishHistoryRun
      <3>1. /\ conf' = conf /\ b' = b /\ seen' = seen /\ h' = [h EXCEPT !.at = "unpark"]
            /\ db' = IF h.end + 1 > h.last THEN [db EXCEPT !.next_ledger = h.end + 1] ELSE db
        BY <2>14 DEF FinishHistoryRun, syncState
      <3>2. h.end + 1 \in Position
        BY <1>1 DEF RunTyped, Position
      <3>3. RunTyped(h')
        BY <1>1, <2>1, <3>1 DEF RunTyped
      <3>4. CASE h.end + 1 > h.last
        <4>1. db' = [db EXCEPT !.next_ledger = h.end + 1]
          BY <3>1, <3>4
        <4> QED
          BY <1>1, <3>1, <3>2, <3>3, <4>1, CheckpointsSound
      <3>5. CASE ~(h.end + 1 > h.last)
        BY <1>3, <3>1, <3>3, <3>5
      <3> QED
        BY <3>4, <3>5
    <2>15. CASE DropLiveCursor
      <3>1. /\ conf' = conf /\ b' = b /\ seen' = seen /\ h' = [h EXCEPT !.at = "balances"]
            /\ db' = [db EXCEPT !.event_cursor = 0]
        BY <2>15 DEF DropLiveCursor, syncState
      <3>2. RunTyped(h')
        BY <1>1, <2>1, <3>1 DEF RunTyped
      <3> QED
        BY <1>1, <3>1, <3>2, CheckpointsSound
    <2>16. CASE RecomputeBalances
      <3> DEFINE n == ReplayBalances(db)
                 v == IF h.cmd = "reindex" THEN FALSE ELSE n.rebuilding
      <3>1. /\ conf' = conf /\ b' = b /\ seen' = seen /\ h' = NoRun
        BY <2>16 DEF RecomputeBalances, syncState
      <3>2. db' = [n EXCEPT !.rebuilding = v]
        BY <2>16 DEF RecomputeBalances
      <3>3. Sound(n) /\ Alike(db, n) /\ EventsKept(db, n)
             /\ n.last_seen_ledger = db.last_seen_ledger
        BY <1>1, RecomputeSound
      <3> HIDE DEF n
      <3>4. v \in BOOLEAN
        BY <3>3 DEF Sound, Store
      <3> HIDE DEF v
      <3>5. /\ Sound(db') /\ Alike(n, db') /\ EventsKept(n, db')
            /\ db'.last_seen_ledger = n.last_seen_ledger
        BY <3>2, <3>3, <3>4, CheckpointsSound
      <3>6. RunTyped(h')
        BY <3>1 DEF RunTyped, NoRun, Before
      <3> QED
        BY <3>1, <3>3, <3>5, <3>6 DEF Alike, EventsKept
    <2>17. CASE InterruptRun
      <3>1. /\ conf' = conf /\ b' = b /\ seen' = seen /\ db' = db
            /\ h' = [NoRun EXCEPT !.cmd = h.cmd]
        BY <2>17 DEF InterruptRun, syncState
      <3>2. RunTyped(h')
        BY <3>1 DEF RunTyped, NoRun, Before
      <3> QED
        BY <1>3, <3>1, <3>2
    <2>18. \A c \in {"backfill", "reindex"} : ~StartRun(c)
      BY <1>7 DEF StartRun
    <2> QED
      BY <2>4, <2>5, <2>6, <2>7, <2>8, <2>9, <2>10, <2>11, <2>12, <2>13, <2>14, <2>15, <2>16,
         <2>17, <2>18 DEF History, HistoryNext
  <1> QED
    BY <1>6, <1>7

-----------------------------------------------------------------------------
(* The outbox *)

LEMMA LeastOf ==
  ASSUME NEW S \in SUBSET Nat, S # {}
  PROVE  Min(S) \in S
  <1>1. \E x \in S : \A y \in S : x <= y
    BY LeastMember
  <1> QED
    BY <1>1 DEF Min

\* In the order of their ids, rows of distinct ids are all there, and nothing else.
LEMMA IdOrder ==
  ASSUME NEW rows, IsFiniteSet(rows), OnePerId(rows), \A r \in rows : r.id \in Nat
  PROVE  /\ Cardinality(rows) \in Nat
         /\ InIdOrder(rows) \in [1..Cardinality(rows) -> rows]
         /\ \A r \in rows : \E i \in 1..Cardinality(rows) : InIdOrder(rows)[i] = r
  <1> DEFINE n        == Cardinality(rows)
             below(r) == {q \in rows : q.id <= r.id}
             rank     == [r \in rows |-> Cardinality(below(r))]
  <1>1. n \in Nat
    BY FS_CardinalityType
  <1>2. ASSUME NEW r \in rows
        PROVE  /\ below(r) \in SUBSET rows /\ r \in below(r) /\ IsFiniteSet(below(r))
               /\ Cardinality(below(r)) \in 1..n
    <2>1. below(r) \in SUBSET rows /\ r \in below(r)
      OBVIOUS
    <2>2. IsFiniteSet(below(r)) /\ Cardinality(below(r)) <= n
      BY <2>1, FS_Subset
    <2>3. Cardinality(below(r)) \in Nat /\ Cardinality(below(r)) # 0
      BY <2>1, <2>2, FS_CardinalityType, FS_EmptySet
    <2> QED
      BY <1>1, <2>1, <2>2, <2>3
  <1>3. ASSUME NEW r \in rows, NEW q \in rows, r.id < q.id
        PROVE  Cardinality(below(r)) # Cardinality(below(q))
    <2>1. below(r) \in SUBSET below(q) /\ below(r) # below(q)
      <3>1. r.id \in Nat /\ q.id \in Nat
        OBVIOUS
      <3>2. ASSUME NEW x \in below(r) PROVE x \in below(q)
        <4>1. x \in rows /\ x.id \in Nat /\ x.id <= r.id
          OBVIOUS
        <4> QED
          BY <1>3, <3>1, <4>1
      <3>3. q \in below(q) /\ q \notin below(r)
        BY <1>3, <3>1
      <3> QED
        BY <3>2, <3>3
    <2>2. IsFiniteSet(below(q))
      BY <1>2
    <2> HIDE DEF below
    <2> QED
      BY <2>1, <2>2, FS_Subset
  <1>4. ASSUME NEW r \in rows, NEW q \in rows, Cardinality(below(r)) = Cardinality(below(q))
        PROVE  r = q
    <2>1. ~(r.id < q.id) /\ ~(q.id < r.id)
      BY <1>3, <1>4
    <2> QED
      BY <2>1 DEF OnePerId
  <1> HIDE DEF below
  <1>5. rank \in [rows -> 1..n]
    BY <1>2
  <1>6. \A r, q \in rows : rank[r] = rank[q] => r = q
    BY <1>4
  <1>7. rank \in Injection(rows, 1..n)
    BY <1>5, <1>6 DEF Injection, IsInjective
  <1>8. IsFiniteSet(1..n) /\ Cardinality(1..n) = n
    BY <1>1, FS_Interval
  <1>9. rank \in Surjection(rows, 1..n)
    BY <1>7, <1>8, FS_Injection
  <1>10. \A i \in 1..n : \E r \in rows : rank[r] = i
    BY <1>9 DEF Surjection
  <1>11. InIdOrder(rows) = [i \in 1..n |-> CHOOSE r \in rows : Cardinality(below(r)) = i]
    BY DEF InIdOrder, below
  <1>12. \A r \in rows : rank[r] = Cardinality(below(r))
    OBVIOUS
  <1> HIDE DEF rank, n
  <1>13. InIdOrder(rows) \in [1..n -> rows]
    BY <1>10, <1>11, <1>12
  <1>14. ASSUME NEW r \in rows PROVE \E i \in 1..n : InIdOrder(rows)[i] = r
    <2>1. rank[r] \in 1..n
      BY <1>5
    <2>2. \E q \in rows : Cardinality(below(q)) = rank[r]
      BY <1>12
    <2>3. InIdOrder(rows)[rank[r]] = CHOOSE q \in rows : Cardinality(below(q)) = rank[r]
      BY <1>11, <2>1
    <2>4. /\ InIdOrder(rows)[rank[r]] \in rows
          /\ Cardinality(below(InIdOrder(rows)[rank[r]])) = rank[r]
      BY <2>2, <2>3
    <2>5. InIdOrder(rows)[rank[r]] = r
      BY <1>4, <1>12, <2>4
    <2> QED
      BY <2>1, <2>5
  <1> QED
    BY <1>1, <1>13, <1>14 DEF n

\* The outbox only grows at its end, and no delivery changes its target or event.
Extends(q, p) ==
  /\ Len(q) <= Len(p)
  /\ \A i \in 1..Len(q) : p[i].target = q[i].target /\ p[i].ev = q[i].ev

\* A store differs in its cursors and its outbox only.
OutboxStep(d, n) ==
  /\ Sound(n) /\ EventsKept(d, n) /\ n.backend = d.backend
  /\ TablesKept(d, n) /\ MarksKept(d, n) /\ n.balances = d.balances /\ n.issued = d.issued
  /\ n.last_seen_ledger = d.last_seen_ledger
  /\ Extends(d.outbox, n.outbox)

WithOutbox(d, q, c) == [d EXCEPT !.outbox = q, !.cursors = c]

LEMMA NewOutbox ==
  ASSUME NEW d, Sound(d), NEW q \in Seq(Outgoing), NEW c \in [Target -> Position],
         Extends(d.outbox, q), NEW n, n = WithOutbox(d, q, c)
  PROVE  OutboxStep(d, n) /\ n.outbox = q /\ n.cursors = c
  <1>1. d \in Store
    BY DEF Sound
  <1>2. /\ n \in Store /\ n.backend = d.backend /\ n.entries = d.entries /\ n.events = d.events
        /\ n.issued = d.issued /\ n.cursors = c /\ n.outbox = q
        /\ n.last_seen_ledger = d.last_seen_ledger /\ MarksKept(d, n) /\ n.balances = d.balances
    BY <1>1 DEF Store, WithOutbox, MarksKept
  <1>3. Sound(n)
    BY <1>2, SameTablesSound
  <1> QED
    BY <1>2, <1>3 DEF OutboxStep, EventsKept, TablesKept

\* One delivery is replaced.
LEMMA ReplaceOne ==
  ASSUME NEW d, Sound(d), NEW i \in DOMAIN d.outbox, NEW x \in Outgoing,
         x.target = d.outbox[i].target, x.ev = d.outbox[i].ev
  PROVE  LET n == [d EXCEPT !.outbox = [@ EXCEPT ![i] = x]]
         IN  /\ OutboxStep(d, n) /\ n.cursors = d.cursors
             /\ DOMAIN n.outbox = DOMAIN d.outbox
             /\ \A j \in DOMAIN d.outbox : n.outbox[j] = IF j = i THEN x ELSE d.outbox[j]
  <1> DEFINE q == [d.outbox EXCEPT ![i] = x]
             n == [d EXCEPT !.outbox = [@ EXCEPT ![i] = x]]
             cursors == d.cursors
  <1>1. d \in Store /\ d.outbox \in Seq(Outgoing) /\ d.cursors \in [Target -> Position]
    BY DEF Sound, Store
  <1>2. DOMAIN d.outbox = 1..Len(d.outbox) /\ Len(d.outbox) \in Nat
    BY <1>1, LenProperties
  <1>3. /\ q \in Seq(Outgoing) /\ Len(q) = Len(d.outbox)
        /\ \A j \in 1..Len(d.outbox) : q[j] = IF j = i THEN x ELSE d.outbox[j]
    BY <1>1, <1>2, ExceptSeq
  <1>4. DOMAIN q = DOMAIN d.outbox
    OBVIOUS
  <1>5. n = WithOutbox(d, q, cursors) /\ cursors \in [Target -> Position]
    BY <1>1 DEF Store, WithOutbox
  <1> HIDE DEF q, n, cursors
  <1>6. Extends(d.outbox, q)
    BY <1>2, <1>3 DEF Extends
  <1>7. OutboxStep(d, n) /\ n.outbox = q /\ n.cursors = cursors
    BY <1>3, <1>5, <1>6, NewOutbox
  <1>8. \A j \in DOMAIN d.outbox : q[j] = IF j = i THEN x ELSE d.outbox[j]
    BY <1>2, <1>3
  <1> QED
    BY <1>4, <1>7, <1>8 DEF n, cursors

LEMMA CompleteSound ==
  ASSUME NEW d, Sound(d), NEW i \in DOMAIN d.outbox,
         NEW outcome \in {"retry", "delivered", "dead"}, NEW k \in Nat
  PROVE  LET n == CompleteDelivery(d, i, outcome, k)
         IN  /\ OutboxStep(d, n) /\ n.cursors = d.cursors
             /\ DOMAIN n.outbox = DOMAIN d.outbox
             /\ \A j \in DOMAIN d.outbox : j # i => n.outbox[j] = d.outbox[j]
             /\ n.outbox[i].status = "delivered" => outcome = "delivered"
  <1> DEFINE status == IF outcome = "retry" THEN "pending" ELSE outcome
             due == outcome # "retry"
             x == [d.outbox[i] EXCEPT !.status = status, !.attempts = k, !.due = due]
             n == CompleteDelivery(d, i, outcome, k)
  <1>1. d \in Store /\ d.outbox \in Seq(Outgoing)
    BY DEF Sound, Store
  <1>2. d.outbox[i] \in Outgoing
    BY <1>1, LenProperties, ElementOfSeq
  <1>3. status \in {"pending", "delivered", "dead"} /\ due \in BOOLEAN
        /\ (status = "delivered" => outcome = "delivered")
    OBVIOUS
  <1>4. n = [d EXCEPT !.outbox = [@ EXCEPT ![i] = x]]
    <2>1. n = [d EXCEPT !.outbox[i].status = status, !.outbox[i].attempts = k,
                        !.outbox[i].due = due]
      BY DEF CompleteDelivery
    <2>2. DOMAIN d.outbox[i] = {"target", "ev", "status", "attempts", "due"}
      BY <1>2 DEF Outgoing
    <2>3. "outbox" \in DOMAIN d
      BY <1>1 DEF Store
    <2> HIDE DEF status, due, n
    <2> QED
      BY <2>1, <2>2, <2>3
  <1> HIDE DEF status, due, n
  <1>5. x \in Outgoing /\ x.target = d.outbox[i].target /\ x.ev = d.outbox[i].ev
        /\ x.status = status
    BY <1>2, <1>3 DEF Outgoing
  <1> HIDE DEF x
  <1>6. /\ OutboxStep(d, n) /\ n.cursors = d.cursors
        /\ DOMAIN n.outbox = DOMAIN d.outbox
        /\ \A j \in DOMAIN d.outbox : n.outbox[j] = IF j = i THEN x ELSE d.outbox[j]
    BY <1>4, <1>5, ReplaceOne
  <1> QED
    BY <1>3, <1>5, <1>6 DEF n

LEMMA DueSound ==
  ASSUME NEW d, Sound(d), NEW i \in DOMAIN d.outbox
  PROVE  LET n == [d EXCEPT !.outbox[i].due = TRUE]
         IN  /\ OutboxStep(d, n) /\ n.cursors = d.cursors
             /\ DOMAIN n.outbox = DOMAIN d.outbox
             /\ \A j \in DOMAIN d.outbox : n.outbox[j].status = d.outbox[j].status
  <1> DEFINE x == [d.outbox[i] EXCEPT !.due = TRUE]
             n == [d EXCEPT !.outbox[i].due = TRUE]
  <1>1. d \in Store /\ d.outbox \in Seq(Outgoing)
    BY DEF Sound, Store
  <1>2. d.outbox[i] \in Outgoing
    BY <1>1, LenProperties, ElementOfSeq
  <1>3. n = [d EXCEPT !.outbox = [@ EXCEPT ![i] = x]]
    BY <1>1, <1>2 DEF Outgoing, Store
  <1> HIDE DEF n
  <1>4. x \in Outgoing /\ x.target = d.outbox[i].target /\ x.ev = d.outbox[i].ev
        /\ x.status = d.outbox[i].status
    BY <1>2 DEF Outgoing
  <1> HIDE DEF x
  <1>5. /\ OutboxStep(d, n) /\ n.cursors = d.cursors
        /\ DOMAIN n.outbox = DOMAIN d.outbox
        /\ \A j \in DOMAIN d.outbox : n.outbox[j] = IF j = i THEN x ELSE d.outbox[j]
    BY <1>3, <1>4, ReplaceOne
  <1> QED
    BY <1>4, <1>5 DEF n

LEMMA RequeueSound ==
  ASSUME NEW d, Sound(d), NEW s
  PROVE  LET n == RequeueDeadDeliveries(d, s)
         IN  /\ OutboxStep(d, n) /\ n.cursors = d.cursors
             /\ DOMAIN n.outbox = DOMAIN d.outbox
             /\ \A j \in DOMAIN d.outbox :
                  n.outbox[j].status = "delivered" => d.outbox[j].status = "delivered"
  <1> DEFINE x(i) == IF d.outbox[i].status = "dead" /\ d.outbox[i].target = s
                     THEN [d.outbox[i] EXCEPT !.status = "pending", !.attempts = 0, !.due = TRUE]
                     ELSE d.outbox[i]
             q == [i \in DOMAIN d.outbox |-> x(i)]
             n == RequeueDeadDeliveries(d, s)
             cursors == d.cursors
  <1>1. d \in Store /\ d.outbox \in Seq(Outgoing) /\ d.cursors \in [Target -> Position]
    BY DEF Sound, Store
  <1>2. DOMAIN d.outbox = 1..Len(d.outbox) /\ Len(d.outbox) \in Nat
    BY <1>1, LenProperties
  <1>3. ASSUME NEW i \in DOMAIN d.outbox
        PROVE  /\ x(i) \in Outgoing /\ x(i).target = d.outbox[i].target
               /\ x(i).ev = d.outbox[i].ev
               /\ x(i).status = "delivered" => d.outbox[i].status = "delivered"
    <2>1. d.outbox[i] \in Outgoing
      BY <1>1, <1>2, ElementOfSeq
    <2> QED
      BY <2>1 DEF Outgoing
  <1>4. n = WithOutbox(d, q, cursors) /\ cursors \in [Target -> Position]
    BY <1>1 DEF RequeueDeadDeliveries, Store, WithOutbox
  <1> HIDE DEF x, n, cursors
  <1>5. q \in [1..Len(d.outbox) -> Outgoing]
    BY <1>2, <1>3
  <1>6. q \in Seq(Outgoing) /\ DOMAIN q = 1..Len(d.outbox)
    BY <1>2, <1>5, SeqDef
  <1>7. Len(q) = Len(d.outbox)
    BY <1>2, <1>6, LenProperties
  <1>8. \A i \in DOMAIN d.outbox : q[i] = x(i)
    OBVIOUS
  <1> HIDE DEF q
  <1>9. Extends(d.outbox, q)
    BY <1>2, <1>3, <1>7, <1>8 DEF Extends
  <1>10. OutboxStep(d, n) /\ n.outbox = q /\ n.cursors = cursors
    BY <1>4, <1>6, <1>9, NewOutbox
  <1> QED
    BY <1>2, <1>3, <1>6, <1>8, <1>10 DEF n, cursors

\* What a round of the copying loop queues: every row it read, after all that was there.
LEMMA EnqueueSound ==
  ASSUME NEW d, Sound(d), NEW s \in Target, NEW rows \in SUBSET d.events, NEW c \in Nat
  PROVE  LET n == EnqueueDeliveries(d, s, rows, c)
         IN  /\ OutboxStep(d, n)
             /\ n.cursors = [d.cursors EXCEPT ![s] = c]
             /\ \A i \in DOMAIN n.outbox :
                  \/ i \in DOMAIN d.outbox /\ n.outbox[i] = d.outbox[i]
                  \/ n.outbox[i].status = "pending"
             /\ \A r \in rows : Queued(n, s, r.ev)
  <1> DEFINE fresh == {r \in rows : ~Queued(d, s, r.ev)}
             order == InIdOrder(fresh)
             more  == [i \in DOMAIN order |-> Delivery(s, order[i].ev)]
             q == d.outbox \o more
             cursors == [d.cursors EXCEPT ![s] = c]
             n == EnqueueDeliveries(d, s, rows, c)
  <1>1. d \in Store /\ d.outbox \in Seq(Outgoing) /\ d.cursors \in [Target -> Position]
        /\ d.events \in SUBSET EventRow /\ IsFiniteSet(d.events) /\ OnePerId(d.events)
    BY DEF Sound, Store
  <1>2. fresh \in SUBSET d.events
    OBVIOUS
  <1>3. n = WithOutbox(d, q, cursors)
    BY <1>1 DEF EnqueueDeliveries, Store, WithOutbox
  <1>4. \A r \in rows : r \in fresh \/ Queued(d, s, r.ev)
    OBVIOUS
  <1> HIDE DEF fresh, n
  <1>5. /\ IsFiniteSet(fresh) /\ OnePerId(fresh) /\ \A r \in fresh : r.id \in Nat /\ r.ev \in Event
    BY <1>1, <1>2, FS_Subset DEF OnePerId, EventRow
  <1> DEFINE k == Cardinality(fresh)
  <1>6. k \in Nat /\ order \in [1..k -> fresh] /\ \A r \in fresh : \E i \in 1..k : order[i] = r
    BY <1>5, IdOrder
  <1> HIDE DEF k, order
  <1>7. more \in [1..k -> Outgoing]
        /\ \A i \in 1..k : more[i] = Delivery(s, order[i].ev)
    <2>1. DOMAIN order = 1..k
      BY <1>6
    <2>2. ASSUME NEW i \in 1..k PROVE Delivery(s, order[i].ev) \in Outgoing
      BY <1>5, <1>6 DEF Delivery, Outgoing
    <2> QED
      BY <2>1, <2>2
  <1> HIDE DEF more
  <1>8. more \in Seq(Outgoing) /\ DOMAIN more = 1..k
    BY <1>6, <1>7, SeqDef
  <1>9. Len(more) = k
    BY <1>6, <1>8, LenProperties
  <1>10. DOMAIN d.outbox = 1..Len(d.outbox) /\ Len(d.outbox) \in Nat
    BY <1>1, LenProperties
  <1>11. /\ q \in Seq(Outgoing) /\ Len(q) = Len(d.outbox) + k
         /\ \A i \in 1..(Len(d.outbox) + k) :
              q[i] = IF i <= Len(d.outbox) THEN d.outbox[i] ELSE more[i - Len(d.outbox)]
    BY <1>1, <1>8, <1>9, ConcatProperties
  <1> HIDE DEF q
  <1>12. DOMAIN q = 1..(Len(d.outbox) + k)
    BY <1>11, LenProperties
  <1>13. Extends(d.outbox, q)
    BY <1>6, <1>10, <1>11 DEF Extends
  <1>14. cursors \in [Target -> Position]
    BY <1>1 DEF Position
  <1> HIDE DEF cursors
  <1>15. OutboxStep(d, n) /\ n.outbox = q /\ n.cursors = cursors
    BY <1>3, <1>11, <1>13, <1>14, NewOutbox
  <1>16. ASSUME NEW i \in DOMAIN q
         PROVE  \/ i \in DOMAIN d.outbox /\ q[i] = d.outbox[i]
                \/ q[i].status = "pending"
    <2>1. CASE i <= Len(d.outbox)
      BY <1>6, <1>10, <1>11, <1>12, <2>1
    <2>2. CASE ~(i <= Len(d.outbox))
      <3>1. i - Len(d.outbox) \in 1..k /\ q[i] = more[i - Len(d.outbox)]
        BY <1>6, <1>10, <1>11, <1>12, <2>2
      <3> QED
        BY <1>7, <3>1 DEF Delivery
    <2> QED
      BY <2>1, <2>2
  <1>17. ASSUME NEW r \in rows PROVE Queued(n, s, r.ev)
    <2>1. CASE Queued(d, s, r.ev)
      <3>1. PICK i \in DOMAIN d.outbox : d.outbox[i].target = s /\ d.outbox[i].ev = r.ev
        BY <2>1 DEF Queued
      <3>2. i \in DOMAIN q /\ q[i] = d.outbox[i]
        BY <1>6, <1>10, <1>11, <1>12, <3>1
      <3> QED
        BY <1>15, <3>1, <3>2 DEF Queued
    <2>2. CASE r \in fresh
      <3>1. PICK i \in 1..k : order[i] = r
        BY <1>6, <2>2
      <3>2. /\ Len(d.outbox) + i \in DOMAIN q
            /\ q[Len(d.outbox) + i] = more[i]
        <4>1. Len(d.outbox) + i \in 1..(Len(d.outbox) + k) /\ ~(Len(d.outbox) + i <= Len(d.outbox))
              /\ (Len(d.outbox) + i) - Len(d.outbox) = i
          BY <1>6, <1>10, <3>1
        <4> QED
          BY <1>11, <1>12, <4>1
      <3>3. more[i].target = s /\ more[i].ev = r.ev
        BY <1>7, <3>1 DEF Delivery
      <3> QED
        BY <1>15, <3>2, <3>3 DEF Queued
    <2> QED
      BY <1>4, <2>1, <2>2
  <1> QED
    BY <1>15, <1>16, <1>17 DEF n, cursors

-----------------------------------------------------------------------------
(* The invariant of the dispatcher *)

\* Row ids stand for one event for ever: a row is never followed by another one with
\* its id, on Postgres by the sequence, on SQLite while nothing is rolled back.
StableIds == conf.backend = "postgres" \/ ~conf.regress

\* No target has read past the ids given out.
CursorsBehind ==
  \A s \in Target : db.cursors[s] # None => db.cursors[s] < NextId(db, "events")

\* A request is under way only for a claimed delivery, and only in the sending phase.
ClaimsKept ==
  /\ t.at # "send" => t.claimed = {} /\ \A s \in Target : t.flight[s] = None
  /\ t.claimed \subseteq DOMAIN db.outbox
  /\ \A s \in Target : t.flight[s] # None => Group(s) # {}

\* An answer of success in hand is about an event its target took in.
AnswersTrue ==
  \A s \in Target : t.flight[s] = "2xx" /\ t.flight[s] # None
                    => db.outbox[NextOf(s)].ev \in accepted[s]

\* The copying loop's own cursor is the stored one.
CopyInStep == t.cursor # None => t.cursor.id = db.cursors[t.cursor.of]

OutboxInv ==
  /\ TickTyped(t) /\ DOMAIN accepted = Target /\ DOMAIN history = Target
  /\ ClaimsKept /\ AnswersTrue /\ CopyInStep
  /\ DeliveredMeansAccepted
  /\ StableIds => CursorsBehind /\ CursorMeansQueued

LEMMA RestingTyped ==
  /\ TickTyped(Resting) /\ Resting.at = "idle" /\ Resting.cursor = None
  /\ Resting.claimed = {} /\ \A s \in Target : Resting.flight[s] = None
  BY DEF TickTyped, Resting

\* The claims of a target depend on the targets of the deliveries only.
LEMMA GroupKept ==
  ASSUME Sound(db), OutboxInv, Extends(db.outbox, db'.outbox),
         t'.claimed \subseteq t.claimed, NEW s \in Target
  PROVE  /\ Group(s) \in SUBSET Nat
         /\ \A i \in t.claimed : /\ i \in DOMAIN db.outbox
                                 /\ db'.outbox[i].target = db.outbox[i].target
                                 /\ db'.outbox[i].ev = db.outbox[i].ev
         /\ Group(s)' = Group(s) \cap t'.claimed
         /\ (Group(s)' = Group(s) => NextOf(s)' = NextOf(s))
         /\ (Group(s) # {} => NextOf(s) \in Group(s) /\ db.outbox[NextOf(s)].target = s)
  <1>1. db.outbox \in Seq(Outgoing)
    BY DEF Sound, Store
  <1>2. DOMAIN db.outbox = 1..Len(db.outbox)
    BY <1>1, LenProperties
  <1>3. t.claimed \subseteq DOMAIN db.outbox /\ t.claimed \in SUBSET Nat
    BY DEF OutboxInv, ClaimsKept, TickTyped
  <1>4. \A i \in t.claimed : /\ i \in DOMAIN db.outbox
                             /\ db'.outbox[i].target = db.outbox[i].target
                             /\ db'.outbox[i].ev = db.outbox[i].ev
    BY <1>2, <1>3 DEF Extends
  <1>5. Group(s)' = Group(s) \cap t'.claimed
    BY <1>4 DEF Group
  <1>6. Group(s) \in SUBSET Nat
    BY <1>3 DEF Group
  <1>7. Group(s) # {} => NextOf(s) \in Group(s)
    BY <1>6, LeastOf DEF NextOf
  <1>8. \A i \in Group(s) : db.outbox[i].target = s
    BY DEF Group
  <1>9. Group(s)' = Group(s) => NextOf(s)' = NextOf(s)
    BY DEF NextOf
  <1> QED
    BY <1>4, <1>5, <1>6, <1>7, <1>8, <1>9

LEMMA QueuedKept ==
  ASSUME NEW d, NEW n, Sound(d), Sound(n), Extends(d.outbox, n.outbox), NEW s, NEW e,
         Queued(d, s, e)
  PROVE  Queued(n, s, e)
  <1>1. d.outbox \in Seq(Outgoing) /\ n.outbox \in Seq(Outgoing)
    BY DEF Sound, Store
  <1>2. /\ DOMAIN d.outbox = 1..Len(d.outbox) /\ DOMAIN n.outbox = 1..Len(n.outbox)
        /\ Len(d.outbox) \in Nat /\ Len(n.outbox) \in Nat
    BY <1>1, LenProperties
  <1>3. PICK i \in 1..Len(d.outbox) : d.outbox[i].target = s /\ d.outbox[i].ev = e
    BY <1>2 DEF Queued
  <1>4. i \in DOMAIN n.outbox /\ n.outbox[i].target = s /\ n.outbox[i].ev = e
    BY <1>2, <1>3 DEF Extends
  <1> QED
    BY <1>4 DEF Queued

LEMMA NothingChanged ==
  ASSUME NEW d, Sound(d)
  PROVE  OutboxStep(d, d)
  <1>1. d.outbox \in Seq(Outgoing)
    BY DEF Sound, Store
  <1>2. Len(d.outbox) \in Nat
    BY <1>1, LenProperties
  <1> QED
    BY <1>2 DEF OutboxStep, EventsKept, TablesKept, MarksKept, Extends

LEMMA SameNextId ==
  ASSUME NEW d, NEW n, EventsKept(d, n), n.backend = d.backend
  PROVE  NextId(n, "events") = NextId(d, "events")
  BY DEF EventsKept, NextId

\* What batches and commands do to the tables leaves the dispatcher's invariant.
LEMMA SyncKeepsOutbox ==
  ASSUME TablesInv, OutboxInv, RunStep, conf' = conf, t' = t \/ t' = Resting,
         accepted' = accepted, history' = history
  PROVE  OutboxInv'
  <1>1. Sound(db) /\ HeadsSeen /\ db.backend = conf.backend /\ TickTyped(t)
    BY DEF TablesInv, SyncTyped, OutboxInv
  <1>2. db'.outbox = db.outbox /\ db'.backend = db.backend
    BY DEF RunStep, StoreStep, Alike, Emptied
  <1>3. TickTyped(t') /\ ClaimsKept' /\ AnswersTrue'
    <2>1. CASE t' = t
      <3>1. \A s \in Target : Group(s)' = Group(s) /\ NextOf(s)' = NextOf(s)
        BY <1>2, <2>1 DEF Group, NextOf
      <3> QED
        BY <1>2, <2>1, <3>1 DEF OutboxInv, ClaimsKept, AnswersTrue
    <2>2. CASE t' = Resting
      BY <2>2, RestingTyped DEF ClaimsKept, AnswersTrue
    <2> QED
      BY <2>1, <2>2
  <1>4. DeliveredMeansAccepted'
    BY <1>2 DEF OutboxInv, DeliveredMeansAccepted
  <1>5. CASE StoreStep
    <2>1. /\ Sound(db') /\ db'.cursors = db.cursors
          /\ \/ EventsKept(db, db') \/ EventAdded(db, db')
             \/ b.at = "rewind" /\ EventsCut(db, db')
      BY <1>5 DEF StoreStep, Alike
    <2>2. CopyInStep'
      BY <2>1, RestingTyped DEF OutboxInv, CopyInStep
    <2>3. ASSUME StableIds PROVE CursorsBehind' /\ CursorMeansQueued'
      <3>1. CursorsBehind /\ CursorMeansQueued
        BY <2>3 DEF OutboxInv
      <3>2. db \in Store /\ IsFiniteSet(db.events) /\ db' \in Store /\ IsFiniteSet(db'.events)
        BY <1>1, <2>1 DEF Sound
      <3>3. NextId(db, "events") \in Nat /\ NextId(db', "events") \in Nat
        BY <3>2, NextIdTyped
      <3>4. \A s \in Target : db.cursors[s] # None => db.cursors[s] \in Nat
        BY <3>2 DEF Store, Position
      <3>5. NextId(db, "events") <= NextId(db', "events")
        <4>1. CASE EventsKept(db, db')
          BY <1>2, <3>3, <4>1, SameNextId
        <4>2. CASE EventAdded(db, db')
          <5>1. PICK x \in Event :
                  db'.events = db.events \union {[id |-> NextId(db, "events"), ev |-> x]}
            BY <4>2 DEF EventAdded
          <5>2. [id |-> NextId(db, "events"), ev |-> x] \in db'.events
            BY <5>1
          <5>3. NextId(db, "events") < NextId(db', "events")
            BY <2>1, <5>2 DEF Sound
          <5> QED
            BY <3>3, <5>3
        <4>3. CASE b.at = "rewind" /\ EventsCut(db, db')
          <5>1. db.backend # "sqlite" /\ db'.issued.events = db.issued.events
            BY <1>1, <2>3, <4>3 DEF StableIds, HeadsSeen, EventsCut
          <5>2. NextId(db', "events") = NextId(db, "events")
            BY <1>2, <5>1 DEF NextId
          <5> QED
            BY <3>3, <5>2
        <4> QED
          BY <2>1, <4>1, <4>2, <4>3
      <3>6. CursorsBehind'
        <4>1. ASSUME NEW s \in Target, db.cursors[s] # None
              PROVE  db.cursors[s] < NextId(db', "events")
          <5>1. db.cursors[s] \in Nat /\ db.cursors[s] < NextId(db, "events")
            BY <3>1, <3>4, <4>1 DEF CursorsBehind
          <5> QED
            BY <3>3, <3>5, <5>1
        <4> QED
          BY <2>1, <4>1 DEF CursorsBehind
      <3>7. ASSUME NEW s \in Target, NEW r \in db'.events,
                   db.cursors[s] # None, r.id <= db.cursors[s]
            PROVE  r \in db.events
        <4>1. CASE EventsKept(db, db') \/ EventsCut(db, db')
          BY <4>1 DEF EventsKept, EventsCut
        <4>2. CASE EventAdded(db, db')
          <5>1. PICK x \in Event :
                  db'.events = db.events \union {[id |-> NextId(db, "events"), ev |-> x]}
            BY <4>2 DEF EventAdded
          <5>2. r \in db.events \/ r.id = NextId(db, "events")
            BY <5>1
          <5>3. db.cursors[s] \in Nat /\ db.cursors[s] < NextId(db, "events")
            BY <3>1, <3>4, <3>7 DEF CursorsBehind
          <5> QED
            BY <3>3, <3>7, <5>2, <5>3
        <4> QED
          BY <2>1, <4>1, <4>2
      <3>8. \A s, e : Queued(db, s, e) => Queued(db', s, e)
        BY <1>2 DEF Queued
      <3> QED
        BY <2>1, <3>1, <3>6, <3>7, <3>8 DEF CursorMeansQueued
    <2>4. StableIds' => StableIds
      BY DEF StableIds
    <2> QED
      BY <1>3, <1>4, <2>2, <2>3, <2>4 DEF OutboxInv
  <1>6. CASE Emptied /\ t = Resting
    <2>1. db'.events = {} /\ db'.cursors = [s \in Target |-> None] /\ t'.cursor = None
      BY <1>6, RestingTyped DEF Emptied
    <2>2. CursorsBehind' /\ CursorMeansQueued' /\ CopyInStep'
      BY <2>1 DEF CursorsBehind, CursorMeansQueued, CopyInStep
    <2> QED
      BY <1>3, <1>4, <2>2 DEF OutboxInv
  <1> QED
    BY <1>5, <1>6 DEF RunStep

\* The rows read past a cursor reach to the highest of them without a gap.
LEMMA PageOfRows ==
  ASSUME NEW d, Sound(d), NEW c \in Nat
  PROVE  LET rows == AccordEventsAfter(d, c, BatchSize)
         IN  /\ rows \in SUBSET d.events
             /\ rows # {} => HighestId(rows) \in Nat /\ HighestId(rows) < NextId(d, "events")
             /\ rows # {} => \A r \in d.events : r.id <= HighestId(rows) => r.id <= c \/ r \in rows
  <1> DEFINE after == {r \in d.events : r.id > c}
             below(r) == {q \in after : q.id <= r.id}
             rows == AccordEventsAfter(d, c, BatchSize)
             high == HighestId(rows)
  <1>1. /\ IsFiniteSet(d.events) /\ \A r \in d.events : r.id \in Nat /\ r.id < NextId(d, "events")
    BY DEF Sound, Store, EventRow
  <1>2. BatchSize \in Nat
    BY OutboxAssumption
  <1>3. rows = {r \in after : Cardinality(below(r)) <= BatchSize}
    BY DEF AccordEventsAfter
  <1>4. rows \in SUBSET d.events /\ after \in SUBSET d.events
    BY <1>3
  <1>5. IsFiniteSet(rows) /\ IsFiniteSet(after)
    BY <1>1, <1>4, FS_Subset
  <1>6. /\ high \in Nat /\ high \in {r.id : r \in rows} \union {0}
        /\ \A r \in rows : r.id <= high
    BY <1>1, <1>4, <1>5, HighestOf
  <1>7. ASSUME NEW r \in rows PROVE r.id \in Nat /\ r.id > c
    BY <1>1, <1>3, <1>4
  <1> HIDE DEF rows, high
  <1>8. ASSUME rows # {}
        PROVE  \E m \in rows : m.id = high
    <2>1. PICK r \in rows : TRUE
      BY <1>8
    <2>2. high # 0
      BY <1>6, <1>7, <2>1
    <2> QED
      BY <1>6, <2>2
  <1>9. ASSUME rows # {}, NEW r \in d.events, r.id <= high, ~(r.id <= c)
        PROVE  r \in rows
    <2>1. PICK m \in rows : m.id = high
      BY <1>8, <1>9
    <2>2. r \in after
      BY <1>1, <1>9
    <2>3. below(r) \in SUBSET below(m)
      <3>1. ASSUME NEW q \in below(r) PROVE q \in below(m)
        <4>1. q \in after /\ q.id \in Nat /\ q.id <= r.id /\ r.id \in Nat
          BY <1>1, <1>4
        <4> QED
          BY <1>6, <1>9, <2>1, <4>1
      <3> QED
        BY <3>1
    <2>4. below(m) \in SUBSET after
      OBVIOUS
    <2>5. m \in after /\ Cardinality(below(m)) <= BatchSize
      BY <1>3
    <2> HIDE DEF below, after
    <2>6. IsFiniteSet(below(m)) /\ IsFiniteSet(below(r))
          /\ Cardinality(below(r)) <= Cardinality(below(m))
      BY <1>5, <2>3, <2>4, FS_Subset
    <2>7. Cardinality(below(r)) \in Nat /\ Cardinality(below(m)) \in Nat
      BY <2>6, FS_CardinalityType
    <2>8. Cardinality(below(r)) <= BatchSize
      BY <1>2, <2>5, <2>6, <2>7
    <2> QED
      BY <1>3, <2>2, <2>8
  <1>10. rows # {} => high < NextId(d, "events")
    BY <1>1, <1>4, <1>8
  <1> QED
    BY <1>4, <1>6, <1>9, <1>10 DEF rows, high

\* A step of the dispatcher or of its operator: the tables stay, the outbox grows.
LEMMA EnqueueStepOK ==
  ASSUME TablesInv, OutboxInv, EnqueueStep
  PROVE  OutboxStep(db, db') /\ OutboxInv'
  <1>1. /\ Sound(db) /\ db.backend = conf.backend /\ TickTyped(t)
        /\ DOMAIN accepted = Target /\ DOMAIN history = Target
        /\ ClaimsKept /\ AnswersTrue /\ CopyInStep /\ DeliveredMeansAccepted
    BY DEF TablesInv, SyncTyped, OutboxInv
  <1>2. db \in Store /\ IsFiniteSet(db.events) /\ db.outbox \in Seq(Outgoing)
        /\ db.cursors \in [Target -> Position]
    BY <1>1 DEF Sound, Store
  <1>3. OutboxStep(db, db)
    BY <1>1, NothingChanged
  <1>4. NextId(db, "events") \in Nat
    BY <1>2, NextIdTyped
  <1>5. CASE StartTick
    <2>1. /\ db' = db /\ conf' = conf /\ accepted' = accepted /\ history' = history
          /\ t' = [Resting EXCEPT !.at = "enqueue", !.targets = configured, !.left = configured]
      BY <1>5 DEF StartTick
    <2>2. /\ TickTyped(t') /\ t'.cursor = None /\ t'.claimed = {}
          /\ \A s \in Target : t'.flight[s] = None
      BY <2>1, RestingTyped DEF TickTyped
    <2>3. ClaimsKept' /\ AnswersTrue' /\ CopyInStep'
      BY <2>2 DEF ClaimsKept, AnswersTrue, CopyInStep
    <2>4. /\ DeliveredMeansAccepted' = DeliveredMeansAccepted /\ StableIds' = StableIds
          /\ CursorsBehind' = CursorsBehind /\ CursorMeansQueued' = CursorMeansQueued
      BY <2>1 DEF DeliveredMeansAccepted, StableIds, CursorsBehind, CursorMeansQueued
    <2> QED
      BY <1>3, <2>1, <2>2, <2>3, <2>4 DEF OutboxInv
  <1>6. CASE ClaimDue
    <2> DEFINE claims == ClaimDueDeliveries(db, BatchSize)
    <2>1. /\ db' = db /\ conf' = conf /\ accepted' = accepted /\ history' = history
          /\ t.at = "enqueue" /\ t' = [t EXCEPT !.at = "send", !.claimed = claims]
      BY <1>6 DEF ClaimDue
    <2>2. claims \subseteq DOMAIN db.outbox
      BY DEF ClaimDueDeliveries
    <2>3. DOMAIN db.outbox \subseteq Nat
      BY <1>2, LenProperties
    <2> HIDE DEF claims
    <2>4. /\ TickTyped(t') /\ t'.cursor = t.cursor /\ t'.claimed = claims
          /\ t'.at = "send" /\ \A s \in Target : t'.flight[s] = None
      BY <1>1, <2>1, <2>2, <2>3 DEF TickTyped, ClaimsKept
    <2>5. ClaimsKept' /\ AnswersTrue' /\ CopyInStep'
      BY <1>1, <2>1, <2>2, <2>4 DEF ClaimsKept, AnswersTrue, CopyInStep
    <2>6. /\ DeliveredMeansAccepted' = DeliveredMeansAccepted /\ StableIds' = StableIds
          /\ CursorsBehind' = CursorsBehind /\ CursorMeansQueued' = CursorMeansQueued
      BY <2>1 DEF DeliveredMeansAccepted, StableIds, CursorsBehind, CursorMeansQueued
    <2> QED
      BY <1>3, <2>1, <2>4, <2>5, <2>6 DEF OutboxInv
  <1>7. ASSUME NEW s \in Target, StartCursor(s)
        PROVE  OutboxStep(db, db') /\ OutboxInv'
    <2> DEFINE id == LatestAccordEventId(db)
               cursors == [db.cursors EXCEPT ![s] = id]
    <2>1. /\ conf' = conf /\ accepted' = accepted /\ t.cursor = None
          /\ db' = [db EXCEPT !.cursors[s] = id]
          /\ t' = [t EXCEPT !.left = @ \ {s}]
          /\ history' = [history EXCEPT ![s] = {r.ev : r \in db.events}]
      BY <1>7 DEF StartCursor
    <2>2. \A r \in db.events : r.id \in Nat /\ r.id < NextId(db, "events")
      BY <1>1 DEF Sound, Store, EventRow
    <2>3. /\ id \in Nat /\ id \in {r.id : r \in db.events} \union {0}
          /\ \A r \in db.events : r.id <= id
      BY <1>2, <2>2, HighestOf DEF LatestAccordEventId
    <2>4. id < NextId(db, "events")
      BY <1>2, <2>2, <2>3, NextIdTyped
    <2> HIDE DEF id
    <2>5. /\ cursors \in [Target -> Position] /\ cursors[s] = id
          /\ \A x \in Target : x # s => cursors[x] = db.cursors[x]
      BY <1>2, <2>3 DEF Position
    <2>6. db' = WithOutbox(db, db.outbox, cursors)
      BY <1>2, <2>1 DEF WithOutbox, Store
    <2> HIDE DEF cursors
    <2>7. Extends(db.outbox, db.outbox)
      BY <1>3 DEF OutboxStep
    <2>8. OutboxStep(db, db') /\ db'.outbox = db.outbox /\ db'.cursors = cursors
      BY <1>1, <1>2, <2>5, <2>6, <2>7, NewOutbox
    <2>9. /\ TickTyped(t') /\ t'.cursor = None /\ t'.claimed = t.claimed /\ t'.at = t.at
          /\ t'.flight = t.flight
      BY <1>1, <2>1 DEF TickTyped
    <2>10. \A x \in Target : Group(x)' = Group(x) /\ NextOf(x)' = NextOf(x)
      BY <2>8, <2>9 DEF Group, NextOf
    <2>11. ClaimsKept' /\ AnswersTrue' /\ CopyInStep' /\ DeliveredMeansAccepted'
      BY <1>1, <2>1, <2>8, <2>9, <2>10
         DEF ClaimsKept, AnswersTrue, CopyInStep, DeliveredMeansAccepted
    <2>12. NextId(db', "events") = NextId(db, "events") /\ db'.events = db.events
      BY <2>8, SameNextId DEF OutboxStep, EventsKept
    <2>13. ASSUME StableIds PROVE CursorsBehind' /\ CursorMeansQueued'
      <3>1. CursorsBehind /\ CursorMeansQueued
        BY <2>13 DEF OutboxInv
      <3>2. CursorsBehind'
        BY <2>4, <2>5, <2>8, <2>12, <3>1 DEF CursorsBehind
      <3>3. /\ \A r \in db.events : r.ev \in history'[s]
            /\ \A x \in Target : x # s => history'[x] = history[x]
        BY <1>1, <2>1
      <3>4. \A x, e : Queued(db', x, e) = Queued(db, x, e)
        BY <2>8 DEF Queued
      <3>5. CursorMeansQueued'
        BY <2>5, <2>8, <2>12, <3>1, <3>3, <3>4 DEF CursorMeansQueued
      <3> QED
        BY <3>2, <3>5
    <2>14. StableIds' = StableIds /\ DOMAIN history' = Target
      BY <1>1, <2>1 DEF StableIds
    <2> QED
      BY <1>1, <2>1, <2>8, <2>9, <2>11, <2>13, <2>14 DEF OutboxInv
  <1>8. ASSUME NEW s \in Target, EnqueueNew(s)
        PROVE  OutboxStep(db, db') /\ OutboxInv'
    <2> DEFINE rows == NextRows(s)
               wanted == Matching(s, rows)
               high == HighestId(rows)
    <2>1. /\ conf' = conf /\ accepted' = accepted /\ history' = history
          /\ t.at = "enqueue" /\ db.cursors[s] # None /\ (t.cursor # None => t.cursor.of = s)
          /\ db' = IF rows = {} THEN db ELSE EnqueueDeliveries(db, s, wanted, high)
          /\ t' = IF Cardinality(rows) < BatchSize
                  THEN [t EXCEPT !.left = @ \ {s}, !.cursor = None]
                  ELSE [t EXCEPT !.cursor = [of |-> s, id |-> high]]
      BY <1>8 DEF EnqueueNew, MayCopy, Advance
    <2>2. db.cursors[s] \in Nat
      BY <1>2, <2>1 DEF Position
    <2>3. rows = AccordEventsAfter(db, db.cursors[s], BatchSize)
      <3>1. (IF t.cursor = None THEN db.cursors[s] ELSE t.cursor.id) = db.cursors[s]
        BY <1>1, <2>1 DEF CopyInStep
      <3> QED
        BY <3>1 DEF NextRows
    <2>4. /\ rows \in SUBSET db.events
          /\ rows # {} => high \in Nat /\ high < NextId(db, "events")
          /\ rows # {} => \A r \in db.events : r.id <= high => r.id <= db.cursors[s] \/ r \in rows
      BY <1>1, <2>2, <2>3, PageOfRows
    <2>5. /\ wanted \in SUBSET rows
          /\ \A r \in rows : Wanted[s] = None \/ Chain[r.ev].topic \in Wanted[s] => r \in wanted
      BY DEF Matching
    <2> HIDE DEF rows, wanted, high
    <2>6. Cardinality(rows) < BatchSize \/ rows # {}
      <3>1. Cardinality({}) = 0 /\ BatchSize \in Nat \ {0}
        BY FS_EmptySet, OutboxAssumption
      <3> QED
        BY <3>1
    <2>7. /\ TickTyped(t') /\ t'.claimed = t.claimed /\ t'.at = t.at /\ t'.flight = t.flight
          /\ t'.cursor # None => rows # {} /\ t'.cursor = [of |-> s, id |-> high]
      <3>1. CASE Cardinality(rows) < BatchSize
        <4>1. t' = [t EXCEPT !.left = @ \ {s}, !.cursor = None]
          BY <2>1, <3>1
        <4> QED
          BY <1>1, <4>1 DEF TickTyped
      <3>2. CASE ~(Cardinality(rows) < BatchSize)
        <4>1. t' = [t EXCEPT !.cursor = [of |-> s, id |-> high]]
          BY <2>1, <3>2
        <4>2. rows # {} /\ high \in Nat
          BY <2>4, <2>6, <3>2
        <4>3. [of |-> s, id |-> high] \in [of : Target, id : Nat]
          BY <4>2
        <4> QED
          BY <1>1, <4>1, <4>2, <4>3 DEF TickTyped
      <3> QED
        BY <3>1, <3>2
    <2>8. /\ OutboxStep(db, db')
          /\ rows # {} => db'.cursors = [db.cursors EXCEPT ![s] = high]
          /\ rows = {} => db' = db
          /\ \A i \in DOMAIN db'.outbox :
               \/ i \in DOMAIN db.outbox /\ db'.outbox[i] = db.outbox[i]
               \/ db'.outbox[i].status = "pending"
          /\ rows # {} => \A r \in wanted : Queued(db', s, r.ev)
      <3>1. CASE rows = {}
        BY <1>3, <2>1, <3>1
      <3>2. CASE rows # {}
        <4>1. db' = EnqueueDeliveries(db, s, wanted, high)
          BY <2>1, <3>2
        <4>2. wanted \in SUBSET db.events /\ high \in Nat
          BY <2>4, <2>5, <3>2
        <4> DEFINE n == EnqueueDeliveries(db, s, wanted, high)
        <4>3. /\ OutboxStep(db, n)
              /\ n.cursors = [db.cursors EXCEPT ![s] = high]
              /\ \A i \in DOMAIN n.outbox :
                   \/ i \in DOMAIN db.outbox /\ n.outbox[i] = db.outbox[i]
                   \/ n.outbox[i].status = "pending"
              /\ \A r \in wanted : Queued(n, s, r.ev)
          BY <1>1, <4>2, EnqueueSound
        <4> HIDE DEF n
        <4>4. db' = n
          BY <4>1 DEF n
        <4> QED
          BY <3>2, <4>3, <4>4
      <3> QED
        BY <3>1, <3>2
    <2>9. Sound(db') /\ Extends(db.outbox, db'.outbox) /\ db'.events = db.events
          /\ NextId(db', "events") = NextId(db, "events")
      BY <2>8, SameNextId DEF OutboxStep, EventsKept
    <2>10. t.claimed = {} /\ \A x \in Target : t.flight[x] = None
      BY <1>1, <2>1 DEF ClaimsKept
    <2>11. ClaimsKept' /\ AnswersTrue'
      BY <2>7, <2>10 DEF ClaimsKept, AnswersTrue
    <2>12. CopyInStep'
      BY <1>2, <2>7, <2>8 DEF CopyInStep
    <2>13. DeliveredMeansAccepted'
      <3>1. ASSUME NEW i \in DOMAIN db'.outbox, db'.outbox[i].status = "delivered"
            PROVE  db'.outbox[i].ev \in accepted[db'.outbox[i].target]
        <4>1. i \in DOMAIN db.outbox /\ db'.outbox[i] = db.outbox[i]
          BY <2>8, <3>1
        <4> QED
          BY <1>1, <3>1, <4>1 DEF DeliveredMeansAccepted
      <3> QED
        BY <2>1, <3>1 DEF DeliveredMeansAccepted
    <2>14. ASSUME StableIds PROVE CursorsBehind' /\ CursorMeansQueued'
      <3>1. CursorsBehind /\ CursorMeansQueued
        BY <2>14 DEF OutboxInv
      <3>2. /\ \A x \in Target : x # s => db'.cursors[x] = db.cursors[x]
            /\ rows # {} => db'.cursors[s] = high
            /\ rows = {} => db'.cursors[s] = db.cursors[s]
        BY <1>2, <2>8
      <3>3. CursorsBehind'
        BY <2>4, <2>9, <3>1, <3>2 DEF CursorsBehind
      <3>4. \A x, e : Queued(db, x, e) => Queued(db', x, e)
        BY <1>1, <2>9, QueuedKept
      <3>5. ASSUME NEW r \in db.events, r.id <= db'.cursors[s],
                   Wanted[s] = None \/ Chain[r.ev].topic \in Wanted[s],
                   r.ev \notin history[s]
            PROVE  Queued(db', s, r.ev)
        <4>1. r.id <= db.cursors[s] \/ (rows # {} /\ r \in rows)
          BY <2>4, <3>2, <3>5
        <4>2. CASE r.id <= db.cursors[s]
          <5>1. Queued(db, s, r.ev)
            BY <2>1, <3>1, <3>5, <4>2 DEF CursorMeansQueued
          <5> QED
            BY <3>4, <5>1
        <4>3. CASE rows # {} /\ r \in rows
          BY <2>5, <2>8, <3>5, <4>3
        <4> QED
          BY <4>1, <4>2, <4>3
      <3>6. ASSUME NEW x \in Target, NEW r \in db.events, db'.cursors[x] # None,
                   r.id <= db'.cursors[x],
                   Wanted[x] = None \/ Chain[r.ev].topic \in Wanted[x],
                   r.ev \notin history[x]
            PROVE  Queued(db', x, r.ev)
        <4>1. CASE x = s
          BY <3>5, <3>6, <4>1
        <4>2. CASE x # s
          <5>1. Queued(db, x, r.ev)
            BY <3>1, <3>2, <3>6, <4>2 DEF CursorMeansQueued
          <5> QED
            BY <3>4, <5>1
        <4> QED
          BY <4>1, <4>2
      <3>7. CursorMeansQueued'
        BY <2>1, <2>9, <3>6 DEF CursorMeansQueued
      <3> QED
        BY <3>3, <3>7
    <2>15. StableIds' = StableIds
      BY <2>1 DEF StableIds
    <2> QED
      BY <1>1, <2>1, <2>7, <2>8, <2>11, <2>12, <2>13, <2>14, <2>15 DEF OutboxInv
  <1> QED
    BY <1>5, <1>6, <1>7, <1>8 DEF EnqueueStep

LEMMA SendStepOK ==
  ASSUME TablesInv, OutboxInv, SendStep
  PROVE  OutboxStep(db, db') /\ OutboxInv'
  <1>1. /\ Sound(db) /\ db.backend = conf.backend /\ TickTyped(t)
        /\ DOMAIN accepted = Target /\ DOMAIN history = Target
        /\ ClaimsKept /\ AnswersTrue /\ CopyInStep /\ DeliveredMeansAccepted
    BY DEF TablesInv, SyncTyped, OutboxInv
  <1>2. db \in Store /\ IsFiniteSet(db.events) /\ db.outbox \in Seq(Outgoing)
        /\ db.cursors \in [Target -> Position]
    BY <1>1 DEF Sound, Store
  <1>3. OutboxStep(db, db)
    BY <1>1, NothingChanged
  <1>4. ASSUME OutboxStep(db, db'), db'.cursors = db.cursors, conf' = conf, history' = history
        PROVE  /\ StableIds' = StableIds
               /\ StableIds => CursorsBehind' /\ CursorMeansQueued'
               /\ (t'.cursor = t.cursor \/ t'.cursor = None) => CopyInStep'
    <2>1. /\ NextId(db', "events") = NextId(db, "events") /\ db'.events = db.events
          /\ Sound(db') /\ Extends(db.outbox, db'.outbox)
      BY <1>4, SameNextId DEF OutboxStep, EventsKept
    <2>2. \A x, e : Queued(db, x, e) => Queued(db', x, e)
      BY <1>1, <2>1, QueuedKept
    <2>3. ASSUME StableIds PROVE CursorsBehind' /\ CursorMeansQueued'
      <3>1. CursorsBehind /\ CursorMeansQueued
        BY <2>3 DEF OutboxInv
      <3>2. CursorsBehind'
        BY <1>4, <2>1, <3>1 DEF CursorsBehind
      <3>3. CursorMeansQueued'
        BY <1>4, <2>1, <2>2, <3>1 DEF CursorMeansQueued
      <3> QED
        BY <3>2, <3>3
    <2>4. (t'.cursor = t.cursor \/ t'.cursor = None) => CopyInStep'
      BY <1>1, <1>4 DEF CopyInStep
    <2>5. StableIds' = StableIds
      BY <1>4 DEF StableIds
    <2> QED
      BY <2>3, <2>4, <2>5
  <1>5. CASE FinishTick
    <2>1. /\ db' = db /\ conf' = conf /\ accepted' = accepted /\ history' = history
          /\ t' = Resting
      BY <1>5 DEF FinishTick
    <2>2. TickTyped(t') /\ ClaimsKept' /\ AnswersTrue' /\ t'.cursor = None
      BY <2>1, RestingTyped DEF ClaimsKept, AnswersTrue
    <2>3. DeliveredMeansAccepted'
      BY <1>1, <2>1 DEF DeliveredMeansAccepted
    <2> QED
      BY <1>1, <1>3, <1>4, <2>1, <2>2, <2>3 DEF OutboxInv
  <1>6. ASSUME NEW s \in Target, Send(s)
        PROVE  OutboxStep(db, db') /\ OutboxInv'
    <2> DEFINE e == db.outbox[NextOf(s)].ev
    <2>1. /\ db' = db /\ conf' = conf /\ history' = history
          /\ t.at = "send" /\ Group(s) # {}
      BY <1>6 DEF Send
    <2>2. PICK takes \in BOOLEAN, answer \in {"2xx", "refused", "timeout"} :
            /\ (answer = "2xx") => takes
            /\ accepted' = [accepted EXCEPT ![s] = IF takes THEN @ \union {e} ELSE @]
            /\ t' = [t EXCEPT !.flight[s] = answer]
      BY <1>6 DEF Send
    <2>3. /\ TickTyped(t') /\ t'.at = t.at /\ t'.claimed = t.claimed /\ t'.cursor = t.cursor
          /\ t'.flight[s] = answer /\ \A x \in Target : x # s => t'.flight[x] = t.flight[x]
      BY <1>1, <2>2 DEF TickTyped
    <2>4. /\ DOMAIN accepted' = Target
          /\ \A x \in Target : accepted[x] \subseteq accepted'[x]
          /\ takes => e \in accepted'[s]
      BY <1>1, <2>2
    <2>5. \A x \in Target : Group(x)' = Group(x) /\ NextOf(x)' = NextOf(x)
      BY <2>1, <2>3 DEF Group, NextOf
    <2>6. ClaimsKept'
      BY <1>1, <2>1, <2>3, <2>5 DEF ClaimsKept
    <2>7. ASSUME NEW x \in Target, t'.flight[x] = "2xx" /\ t'.flight[x] # None
          PROVE  db.outbox[NextOf(x)].ev \in accepted'[x]
      <3>1. CASE x = s
        BY <2>2, <2>3, <2>4, <2>7, <3>1
      <3>2. CASE x # s
        BY <1>1, <2>3, <2>4, <2>7, <3>2 DEF AnswersTrue
      <3> QED
        BY <3>1, <3>2
    <2>8. AnswersTrue'
      BY <2>1, <2>5, <2>7 DEF AnswersTrue
    <2>9. DeliveredMeansAccepted'
      <3>1. ASSUME NEW i \in DOMAIN db.outbox, db.outbox[i].status = "delivered"
            PROVE  db.outbox[i].ev \in accepted'[db.outbox[i].target]
        <4>1. db.outbox[i] \in Outgoing
          BY <1>2, LenProperties, ElementOfSeq
        <4>2. db.outbox[i].target \in Target
          BY <4>1 DEF Outgoing
        <4> QED
          BY <1>1, <2>4, <3>1, <4>2 DEF DeliveredMeansAccepted
      <3> QED
        BY <2>1, <3>1 DEF DeliveredMeansAccepted
    <2> QED
      BY <1>1, <1>3, <1>4, <2>1, <2>3, <2>4, <2>6, <2>8, <2>9 DEF OutboxInv
  <1>7. ASSUME NEW s \in Target, NEW outcome \in {"retry", "delivered", "dead"},
               t.at = "send", Group(s) # {},
               outcome = "delivered" => t.flight[s] = "2xx" /\ t.flight[s] # None,
               db' = CompleteDelivery(db, NextOf(s), outcome, db.outbox[NextOf(s)].attempts + 1),
               t'.claimed = t.claimed \ {NextOf(s)}, TickTyped(t'), t'.at = t.at,
               t'.cursor = t.cursor, t'.flight[s] = None,
               \A x \in Target : x # s => t'.flight[x] = t.flight[x],
               conf' = conf, accepted' = accepted, history' = history
        PROVE  OutboxStep(db, db') /\ OutboxInv'
    <2> DEFINE i == NextOf(s)
    <2>1. i \in Group(s) /\ i \in t.claimed /\ i \in DOMAIN db.outbox /\ db.outbox[i].target = s
      <3>1. Group(s) \in SUBSET Nat
        BY <1>1 DEF Group, TickTyped
      <3>2. i \in Group(s)
        BY <1>7, <3>1, LeastOf DEF NextOf
      <3> QED
        BY <1>1, <3>2 DEF Group, ClaimsKept
    <2>2. db.outbox[i] \in Outgoing
      BY <1>2, <2>1, LenProperties, ElementOfSeq
    <2>3. db.outbox[i].attempts + 1 \in Nat
      BY <2>2 DEF Outgoing
    <2> HIDE DEF i
    <2>4. /\ OutboxStep(db, db') /\ db'.cursors = db.cursors
          /\ DOMAIN db'.outbox = DOMAIN db.outbox
          /\ \A j \in DOMAIN db.outbox : j # i => db'.outbox[j] = db.outbox[j]
          /\ db'.outbox[i].status = "delivered" => outcome = "delivered"
      BY <1>1, <1>7, <2>1, <2>3, CompleteSound DEF i
    <2>5. Extends(db.outbox, db'.outbox)
      BY <2>4 DEF OutboxStep
    <2>6. ASSUME NEW x \in Target
          PROVE  /\ Group(x) \in SUBSET Nat
                 /\ \A k \in t.claimed : /\ k \in DOMAIN db.outbox
                                         /\ db'.outbox[k].target = db.outbox[k].target
                                         /\ db'.outbox[k].ev = db.outbox[k].ev
                 /\ Group(x)' = Group(x) \cap t'.claimed
                 /\ (Group(x)' = Group(x) => NextOf(x)' = NextOf(x))
                 /\ (Group(x) # {} => NextOf(x) \in Group(x) /\ db.outbox[NextOf(x)].target = x)
      BY <1>1, <1>7, <2>5, GroupKept
    <2>7. ASSUME NEW x \in Target, x # s
          PROVE  Group(x)' = Group(x) /\ NextOf(x)' = NextOf(x)
      <3>1. i \notin Group(x)
        BY <2>1, <2>7 DEF Group
      <3>2. Group(x) \subseteq t.claimed
        BY DEF Group
      <3>3. t'.claimed = t.claimed \ {i}
        BY <1>7 DEF i
      <3>4. Group(x) \cap t'.claimed = Group(x)
        BY <3>1, <3>2, <3>3
      <3> QED
        BY <2>6, <3>4
    <2>8. ClaimsKept'
      BY <1>1, <1>7, <2>4, <2>7 DEF ClaimsKept
    <2>9. AnswersTrue'
      <3>1. ASSUME NEW x \in Target, t'.flight[x] = "2xx" /\ t'.flight[x] # None
            PROVE  db'.outbox[NextOf(x)'].ev \in accepted[x]
        <4>1. x # s /\ t.flight[x] = "2xx" /\ t.flight[x] # None
          BY <1>7, <3>1
        <4>2. Group(x) # {} /\ db.outbox[NextOf(x)].ev \in accepted[x]
          BY <1>1, <4>1 DEF ClaimsKept, AnswersTrue
        <4>3. NextOf(x) \in t.claimed
          BY <2>6, <4>2 DEF Group
        <4> QED
          BY <2>6, <2>7, <4>1, <4>2, <4>3
      <3> QED
        BY <1>7, <3>1 DEF AnswersTrue
    <2>10. DeliveredMeansAccepted'
      <3>1. ASSUME NEW j \in DOMAIN db.outbox, db'.outbox[j].status = "delivered"
            PROVE  db'.outbox[j].ev \in accepted[db'.outbox[j].target]
        <4>1. CASE j = i
          <5>1. db.outbox[i].ev \in accepted[s]
            BY <1>1, <1>7, <2>4, <3>1, <4>1 DEF AnswersTrue, i
          <5>2. db'.outbox[i].ev = db.outbox[i].ev /\ db'.outbox[i].target = s
            BY <2>1, <2>6
          <5> QED
            BY <4>1, <5>1, <5>2
        <4>2. CASE j # i
          BY <1>1, <2>4, <3>1, <4>2 DEF DeliveredMeansAccepted
        <4> QED
          BY <4>1, <4>2
      <3> QED
        BY <1>7, <2>4, <3>1 DEF DeliveredMeansAccepted
    <2> QED
      BY <1>1, <1>4, <1>7, <2>4, <2>8, <2>9, <2>10 DEF OutboxInv
  <1>8. ASSUME NEW s \in Target, Unconfigured(s)
        PROVE  OutboxStep(db, db') /\ OutboxInv'
    <2>1. /\ t.at = "send" /\ Group(s) # {} /\ t.flight[s] = None
          /\ db' = CompleteDelivery(db, NextOf(s), "dead", db.outbox[NextOf(s)].attempts + 1)
          /\ t' = [t EXCEPT !.claimed = @ \ {NextOf(s)}]
          /\ conf' = conf /\ accepted' = accepted /\ history' = history
      BY <1>8 DEF Unconfigured
    <2>2. /\ TickTyped(t') /\ t'.claimed = t.claimed \ {NextOf(s)} /\ t'.at = t.at
          /\ t'.cursor = t.cursor /\ t'.flight = t.flight
      BY <1>1, <2>1 DEF TickTyped
    <2> QED
      BY <1>7, <2>1, <2>2
  <1>9. ASSUME NEW s \in Target, RecordAttempt(s)
        PROVE  OutboxStep(db, db') /\ OutboxInv'
    <2> DEFINE n == db.outbox[NextOf(s)].attempts + 1
               outcome == IF t.flight[s] = "2xx" THEN "delivered"
                          ELSE IF n >= MaxAttempts THEN "dead" ELSE "retry"
    <2>1. /\ t.at = "send" /\ t.flight[s] # None
          /\ db' = CompleteDelivery(db, NextOf(s), outcome, db.outbox[NextOf(s)].attempts + 1)
          /\ t' = [t EXCEPT !.claimed = @ \ {NextOf(s)}, !.flight[s] = None]
          /\ conf' = conf /\ accepted' = accepted /\ history' = history
      BY <1>9 DEF RecordAttempt
    <2>2. outcome \in {"retry", "delivered", "dead"}
          /\ (outcome = "delivered" => t.flight[s] = "2xx" /\ t.flight[s] # None)
      BY <2>1
    <2>3. Group(s) # {}
      BY <1>1, <2>1 DEF ClaimsKept
    <2> HIDE DEF n, outcome
    <2>4. /\ TickTyped(t') /\ t'.claimed = t.claimed \ {NextOf(s)} /\ t'.at = t.at
          /\ t'.cursor = t.cursor /\ t'.flight[s] = None
          /\ \A x \in Target : x # s => t'.flight[x] = t.flight[x]
      BY <1>1, <2>1 DEF TickTyped
    <2> QED
      BY <1>7, <2>1, <2>2, <2>3, <2>4
  <1> QED
    BY <1>5, <1>6, <1>8, <1>9 DEF SendStep

\* The backoff of a delivery elapses, an operator requeues or edits.
LEMMA OthersOK ==
  ASSUME TablesInv, OutboxInv,
         \/ \E i \in DOMAIN db.outbox : BackoffElapses(i)
         \/ OutboxEnvironment
  PROVE  OutboxStep(db, db') /\ OutboxInv' /\ conf' = conf
  <1>1. /\ Sound(db) /\ TickTyped(t) /\ DOMAIN accepted = Target /\ DOMAIN history = Target
        /\ ClaimsKept /\ AnswersTrue /\ CopyInStep /\ DeliveredMeansAccepted
    BY DEF TablesInv, SyncTyped, OutboxInv
  <1>2. /\ conf' = conf /\ t' = t /\ accepted' = accepted /\ history' = history
    BY DEF BackoffElapses, OutboxEnvironment, Requeue, EditDestination
  <1>3. /\ OutboxStep(db, db') /\ db'.cursors = db.cursors
        /\ DOMAIN db'.outbox = DOMAIN db.outbox
        /\ \A j \in DOMAIN db.outbox :
             db'.outbox[j].status = "delivered" => db.outbox[j].status = "delivered"
    <2>1. CASE \E i \in DOMAIN db.outbox : BackoffElapses(i)
      BY <1>1, <2>1, DueSound DEF BackoffElapses
    <2>2. CASE OutboxEnvironment
      <3>1. PICK s \in Target : Requeue(s) \/ EditDestination(s)
        BY <2>2 DEF OutboxEnvironment
      <3>2. CASE Requeue(s)
        BY <1>1, <3>2, RequeueSound DEF Requeue
      <3>3. CASE EditDestination(s)
        BY <1>1, <3>3, NothingChanged DEF EditDestination
      <3> QED
        BY <3>1, <3>2, <3>3
    <2> QED
      BY <2>1, <2>2
  <1>4. /\ NextId(db', "events") = NextId(db, "events") /\ db'.events = db.events
        /\ Sound(db') /\ Extends(db.outbox, db'.outbox)
    BY <1>3, SameNextId DEF OutboxStep, EventsKept
  <1>5. \A x, e : Queued(db, x, e) => Queued(db', x, e)
    BY <1>1, <1>4, QueuedKept
  <1>6. \A i \in DOMAIN db.outbox : db'.outbox[i].target = db.outbox[i].target
                                    /\ db'.outbox[i].ev = db.outbox[i].ev
    <2>1. DOMAIN db.outbox = 1..Len(db.outbox)
      BY <1>1, LenProperties DEF Sound, Store
    <2> QED
      BY <1>4, <2>1 DEF Extends
  <1>7. \A x \in Target : Group(x)' = Group(x) /\ NextOf(x)' = NextOf(x)
    <2>1. t.claimed \subseteq DOMAIN db.outbox
      BY <1>1 DEF ClaimsKept
    <2> QED
      BY <1>2, <1>6, <2>1 DEF Group, NextOf
  <1>8. ClaimsKept' /\ CopyInStep'
    BY <1>1, <1>2, <1>3, <1>7 DEF ClaimsKept, CopyInStep
  <1>9. AnswersTrue'
    <2>1. ASSUME NEW x \in Target, t.flight[x] = "2xx" /\ t.flight[x] # None
          PROVE  db'.outbox[NextOf(x)].ev \in accepted[x]
      <3>1. Group(x) # {} /\ db.outbox[NextOf(x)].ev \in accepted[x]
        BY <1>1, <2>1 DEF ClaimsKept, AnswersTrue
      <3>2. NextOf(x) \in Group(x)
        <4>1. Group(x) \in SUBSET Nat
          BY <1>1 DEF Group, TickTyped
        <4> QED
          BY <3>1, <4>1, LeastOf DEF NextOf
      <3>3. NextOf(x) \in DOMAIN db.outbox
        BY <1>1, <3>2 DEF Group, ClaimsKept
      <3> QED
        BY <1>6, <3>1, <3>3
    <2> QED
      BY <1>2, <1>7, <2>1 DEF AnswersTrue
  <1>10. DeliveredMeansAccepted'
    BY <1>1, <1>2, <1>3, <1>6 DEF DeliveredMeansAccepted
  <1>11. StableIds' = StableIds
    BY <1>2 DEF StableIds
  <1>12. ASSUME StableIds PROVE CursorsBehind' /\ CursorMeansQueued'
    <2>1. CursorsBehind /\ CursorMeansQueued
      BY <1>12 DEF OutboxInv
    <2>2. CursorsBehind'
      BY <1>3, <1>4, <2>1 DEF CursorsBehind
    <2>3. CursorMeansQueued'
      BY <1>2, <1>3, <1>4, <1>5, <2>1 DEF CursorMeansQueued
    <2> QED
      BY <2>2, <2>3
  <1> QED
    BY <1>1, <1>2, <1>3, <1>8, <1>9, <1>10, <1>11, <1>12 DEF OutboxInv

-----------------------------------------------------------------------------
(* The theorems *)

IndexerInv == TablesInv /\ OutboxInv

LEMMA IndexerStarts == Init => IndexerInv
  <1> SUFFICES ASSUME Init PROVE IndexerInv
    OBVIOUS
  <1>1. /\ conf \in Deployment /\ db = [EmptyStore EXCEPT !.backend = conf.backend]
        /\ closed = 1 /\ seen = 0 /\ b = Idle /\ h = NoRun /\ t = Resting
        /\ accepted = [s \in Target |-> {}] /\ history = [s \in Target |-> {}]
    BY DEF Init, SyncInit, OutboxInit, HistoryInit
  <1>2. conf.backend \in {"sqlite", "postgres"}
    BY <1>1, DeploymentOf
  <1>3. EmptyStore \in Store
    <2>1. <<>> \in Seq(Outgoing)
      BY EmptySeq
    <2>2. [tk \in Token |-> 0] \in [Token -> Int] /\ [s \in Target |-> None] \in [Target -> Position]
      BY DEF Position
    <2>3. [c \in {"backfill", "reindex"} |-> NoWalk] \in [{"backfill", "reindex"} -> Walk]
      BY DEF NoWalk, Walk, Position
    <2>4. [entries |-> 0, events |-> 0] \in [entries : Nat, events : Nat]
      OBVIOUS
    <2> QED
      BY <2>1, <2>2, <2>3, <2>4 DEF EmptyStore, Store, Position
  <1>4. /\ db \in Store /\ db.backend = conf.backend /\ db.entries = {} /\ db.events = {}
        /\ db.outbox = <<>> /\ db.cursors = [s \in Target |-> None]
        /\ db.last_seen_ledger = None
    BY <1>1, <1>2, <1>3 DEF Store, EmptyStore
  <1>5. Sound(db)
    BY <1>4, FS_EmptySet DEF Sound, OnePerEvent, OnePerId
  <1>6. BatchTyped(b) /\ RunTyped(h)
    BY <1>1 DEF BatchTyped, RunTyped, Idle, NoRun, Before
  <1>7. b.at = "idle" /\ b.previousLatest = 0 /\ b.latestSeen = 0
    BY <1>1 DEF Idle
  <1>8. TablesInv
    BY <1>1, <1>4, <1>5, <1>6, <1>7 DEF TablesInv, SyncTyped, HeadsSeen, Or
  <1>9. ClaimsKept /\ AnswersTrue /\ CopyInStep /\ TickTyped(t)
    BY <1>1, RestingTyped DEF ClaimsKept, AnswersTrue, CopyInStep
  <1>10. DeliveredMeansAccepted /\ CursorsBehind /\ CursorMeansQueued
    <2>1. DOMAIN db.outbox = {}
      BY <1>4
    <2> QED
      BY <1>4, <2>1 DEF DeliveredMeansAccepted, CursorsBehind, CursorMeansQueued
  <1> QED
    BY <1>1, <1>8, <1>9, <1>10 DEF IndexerInv, OutboxInv

LEMMA IndexerStep == IndexerInv /\ [Next]_vars => IndexerInv'
  <1> SUFFICES ASSUME IndexerInv, [Next]_vars PROVE IndexerInv'
    OBVIOUS
  <1>1. /\ TablesInv /\ OutboxInv /\ SyncTyped /\ Sound(db) /\ HeadsSeen
        /\ conf \in Deployment /\ db.backend = conf.backend
        /\ closed \in Nat /\ seen \in Nat /\ BatchTyped(b) /\ RunTyped(h)
    BY DEF IndexerInv, TablesInv, SyncTyped
  <1>2. RunStep => Sound(db') /\ db'.backend = db.backend
    BY DEF RunStep, StoreStep, Emptied, Alike
  <1>3. CASE Batch
    <2>1. BatchTyped(b') /\ seen' \in Nat /\ StoreStep /\ HeadsSeen'
      BY <1>1, <1>3, BatchOK DEF Batch
    <2>2. /\ conf' = conf /\ closed' = closed /\ h' = h /\ t' = t
          /\ accepted' = accepted /\ history' = history
      BY <1>3 DEF Batch, BatchStep, StartBatch, FetchPage, Rewind, ClearCursorAfterRewind, HoldBack,
                  ReadBalance, IngestEvent, NextPage, ReachTip, DropCursor, FinishBatch,
                  outboxVars, walkVars
    <2>3. RunStep
      BY <2>1 DEF RunStep
    <2>4. OutboxInv'
      BY <1>1, <2>2, <2>3, SyncKeepsOutbox
    <2> QED
      BY <1>1, <1>2, <2>1, <2>2, <2>3, <2>4 DEF IndexerInv, TablesInv, SyncTyped
  <1>4. ASSUME OutboxStep(db, db'), OutboxInv', conf' = conf, closed' = closed, seen' = seen,
               b' = b, h' = h
        PROVE  IndexerInv'
    BY <1>1, <1>4 DEF IndexerInv, TablesInv, SyncTyped, HeadsSeen, OutboxStep
  <1>5. CASE Enqueue
    <2>1. OutboxStep(db, db') /\ OutboxInv'
      BY <1>1, <1>5, EnqueueStepOK DEF Enqueue
    <2>2. conf' = conf /\ closed' = closed /\ seen' = seen /\ b' = b /\ h' = h
      BY <1>5 DEF Enqueue, EnqueueStep, StartTick, ClaimDue, StartCursor, EnqueueNew,
                  syncVars, walkVars
    <2> QED
      BY <1>4, <2>1, <2>2
  <1>6. CASE Deliver
    <2>1. OutboxStep(db, db') /\ OutboxInv'
      BY <1>1, <1>6, SendStepOK DEF Deliver
    <2>2. conf' = conf /\ closed' = closed /\ seen' = seen /\ b' = b /\ h' = h
      BY <1>6 DEF Deliver, SendStep, FinishTick, Unconfigured, Send, RecordAttempt,
                  syncVars, walkVars
    <2> QED
      BY <1>4, <2>1, <2>2
  <1>7. CASE Backoff \/ (OutboxEnvironment /\ UNCHANGED <<syncVars, walkVars>>)
    <2>1. OutboxStep(db, db') /\ OutboxInv' /\ conf' = conf
      BY <1>1, <1>7, OthersOK DEF Backoff
    <2>2. closed' = closed /\ seen' = seen /\ b' = b /\ h' = h
      BY <1>7 DEF Backoff, syncVars, walkVars
    <2> QED
      BY <1>4, <2>1, <2>2
  <1>8. /\ Alike(db, db) /\ EventsKept(db, db)
    BY DEF Alike, EventsKept
  <1>9. BatchTyped(Idle) /\ Idle.at = "idle" /\ Idle.previousLatest = 0 /\ Idle.latestSeen = 0
    BY DEF BatchTyped, Idle, Before
  <1>10. ASSUME db' = db, conf' = conf, closed' \in Nat, seen' = seen, b' = b \/ b' = Idle, h' = h,
                t' = t \/ t' = Resting, accepted' = accepted, history' = history
         PROVE  IndexerInv'
    <2>1. RunStep
      BY <1>1, <1>8, <1>10 DEF RunStep, StoreStep
    <2>2. OutboxInv'
      BY <1>1, <1>10, <2>1, SyncKeepsOutbox
    <2>3. HeadsSeen'
      BY <1>1, <1>9, <1>10 DEF HeadsSeen
    <2>4. BatchTyped(b')
      BY <1>1, <1>9, <1>10
    <2> QED
      BY <1>1, <1>10, <2>2, <2>3, <2>4 DEF IndexerInv, TablesInv, SyncTyped
  <1>11. CASE Restart
    BY <1>1, <1>10, <1>11 DEF Restart, walkVars
  <1>12. CASE (CloseLedger \/ FailBatch) /\ UNCHANGED <<outboxVars, walkVars>>
    <2>1. closed + 1 \in Nat
      BY <1>1
    <2> QED
      BY <1>1, <1>10, <1>12, <2>1 DEF CloseLedger, FailBatch, outboxVars, walkVars
  <1>13. CASE History
    <2>1. RunTyped(h') /\ RunStep /\ HeadsSeen'
      BY <1>1, <1>13, HistoryOK
    <2>2. /\ conf' = conf /\ closed' = closed /\ seen' = seen /\ b' = b
          /\ t' = t /\ accepted' = accepted /\ history' = history
      BY <1>13 DEF History, HistoryNext, StartRun, BlankCheckpoint, MarkRebuilding, BeginWalk,
                   RequestPage, ReadBalanceBefore, RecordHistoric, StorePage, CompleteWalk,
                   ClearWalkCursor, ReadNextLedger, FinishHistoryRun, DropLiveCursor,
                   RecomputeBalances, InterruptRun, syncState, outboxVars
    <2>3. OutboxInv'
      BY <1>1, <2>1, <2>2, SyncKeepsOutbox
    <2> QED
      BY <1>1, <1>2, <2>1, <2>2, <2>3 DEF IndexerInv, TablesInv, SyncTyped
  <1>14. CASE UNCHANGED vars
    BY <1>1, <1>10, <1>14 DEF vars, syncVars, outboxVars, walkVars
  <1> QED
    BY <1>3, <1>5, <1>6, <1>7, <1>11, <1>12, <1>13, <1>14 DEF Next

THEOREM IndexerInvariant == Spec => []IndexerInv
  BY IndexerStarts, IndexerStep, PTL DEF Spec

\* No table ever holds two rows for one event, whatever pages overlap after a crash, a
\* rollback, a backfill beside the service or a rebuild.
THEOREM OneRowPerEvent == Spec => []EachEventOnce
  <1>1. IndexerInv => EachEventOnce
    BY DEF IndexerInv, TablesInv, Sound, OnePerEvent, EachEventOnce
  <1> QED
    BY <1>1, IndexerInvariant, PTL

\* A delivery is marked delivered only when its target has taken the event in, in every
\* deployment, across timeouts, restarts, edits and rebuilds.
THEOREM DeliveredWasAccepted == Spec => []DeliveredMeansAccepted
  <1>1. IndexerInv => DeliveredMeansAccepted
    BY DEF IndexerInv, OutboxInv
  <1> QED
    BY <1>1, IndexerInvariant, PTL

\* Where ids are stable, a cursor is never past an event that was not queued.
THEOREM NothingSkipped == Spec => [](StableIds => CursorMeansQueued)
  <1>1. IndexerInv => (StableIds => CursorMeansQueued)
    BY DEF IndexerInv, OutboxInv
  <1> QED
    BY <1>1, IndexerInvariant, PTL

\* The outbox claims no more than was done, in every set of deployments that leaves
\* SQLite to a node whose answers never go back: there a rollback frees ids again.
THEOREM OutboxSafe ==
  ASSUME \A c \in Deployment : c.backend = "postgres" \/ ~c.regress
  PROVE  Spec => []OutboxSound
  <1>1. IndexerInv => OutboxSound
    BY DEF IndexerInv, TablesInv, SyncTyped, OutboxInv, OutboxSound, StableIds
  <1> QED
    BY <1>1, IndexerInvariant, PTL

-----------------------------------------------------------------------------
(* What the checkpoints promise *)

\* The second store records what the first does, and more only of the given events.
Gains(d, n, more) == \A e \in Event : Recorded(n, e) <=> Recorded(d, e) \/ e \in more

\* What a page does with one of its events.
Recording(d, e, before) ==
  IF IsTransfer(e)
  THEN IF conf.backend = "sqlite" THEN RecordTransfer(d, e, before) ELSE RecordTransferLocked(d, e)
  ELSE IF IsAccordEvent(e) THEN RecordAccordEvent(d, e) ELSE d

LEMMA KeptIsRecorded ==
  ASSUME NEW d, NEW n, TablesKept(d, n)
  PROVE  Gains(d, n, {})
  BY DEF TablesKept, Gains, Recorded

LEMMA RowRecorded ==
  ASSUME NEW d, NEW n, NEW e
  PROVE  /\ (n.events = d.events /\ (\E i, k : n.entries = d.entries \union {[id |-> i, ev |-> e, balance |-> k]})
             => Gains(d, n, {e}))
         /\ (n.entries = d.entries /\ (\E i : n.events = d.events \union {[id |-> i, ev |-> e]})
             => Gains(d, n, {e}))
  <1>1. ASSUME NEW i, NEW k, n.events = d.events,
               n.entries = d.entries \union {[id |-> i, ev |-> e, balance |-> k]}
        PROVE  Gains(d, n, {e})
    <2> DEFINE row == [id |-> i, ev |-> e, balance |-> k]
    <2>1. row.ev = e /\ n.entries = d.entries \union {row}
      BY <1>1
    <2> HIDE DEF row
    <2> QED
      BY <1>1, <2>1 DEF Gains, Recorded, Has
  <1>2. ASSUME NEW i, n.entries = d.entries, n.events = d.events \union {[id |-> i, ev |-> e]}
        PROVE  Gains(d, n, {e})
    <2> DEFINE row == [id |-> i, ev |-> e]
    <2>1. row.ev = e /\ n.events = d.events \union {row}
      BY <1>2
    <2> HIDE DEF row
    <2> QED
      BY <1>2, <2>1 DEF Gains, Recorded, Has
  <1> QED
    BY <1>1, <1>2

LEMMA TransferGains ==
  ASSUME NEW d \in Store, NEW e, NEW before
  PROVE  LET n == RecordTransfer(d, e, before)
         IN  Gains(d, n, {e}) /\ MarksKept(d, n)
  <1> DEFINE x   == ParseTokenTransferEvent(e)
             id  == NextId(d, "entries")
             balance == before + x.delta
             row == [id |-> id, ev |-> e, balance |-> balance]
             n   == [d EXCEPT !.entries = @ \union {row}, !.issued.entries = id,
                              !.balances[x.token] = balance]
  <1>1. CASE Has(d.entries, e)
    BY <1>1 DEF RecordTransfer, Gains, MarksKept, Recorded
  <1>2. CASE ~Has(d.entries, e)
    <2>1. RecordTransfer(d, e, before) = n
      BY <1>2 DEF RecordTransfer
    <2>2. n.entries = d.entries \union {row} /\ n.events = d.events /\ MarksKept(d, n)
      BY DEF Store, MarksKept
    <2> HIDE DEF id, balance, n
    <2>3. \E i, k : n.entries = d.entries \union {[id |-> i, ev |-> e, balance |-> k]}
      BY <2>2
    <2>4. Gains(d, n, {e})
      BY <2>2, <2>3, RowRecorded
    <2> QED
      BY <2>1, <2>2, <2>4
  <1> QED
    BY <1>1, <1>2

LEMMA AccordEventGains ==
  ASSUME NEW d \in Store, NEW e
  PROVE  LET n == RecordAccordEvent(d, e)
         IN  Gains(d, n, {e}) /\ MarksKept(d, n)
  <1> DEFINE id  == NextId(d, "events")
             row == [id |-> id, ev |-> e]
             n   == [d EXCEPT !.events = @ \union {row}, !.issued.events = id]
  <1>1. CASE Has(d.events, e)
    BY <1>1 DEF RecordAccordEvent, Gains, MarksKept, Recorded
  <1>2. CASE ~Has(d.events, e)
    <2>1. RecordAccordEvent(d, e) = n
      BY <1>2 DEF RecordAccordEvent
    <2>2. n.events = d.events \union {row} /\ n.entries = d.entries /\ MarksKept(d, n)
      BY DEF Store, MarksKept
    <2> HIDE DEF id, n
    <2>3. \E i : n.events = d.events \union {[id |-> i, ev |-> e]}
      BY <2>2
    <2>4. Gains(d, n, {e})
      BY <2>2, <2>3, RowRecorded
    <2> QED
      BY <2>1, <2>2, <2>4
  <1> QED
    BY <1>1, <1>2

\* A page's event is recorded if it belongs to a table, and no checkpoint moves.
LEMMA RecordingGains ==
  ASSUME NEW d \in Store, NEW e \in Event, NEW before
  PROVE  LET n == Recording(d, e, before)
         IN  Gains(d, n, {e} \intersect Indexed) /\ MarksKept(d, n)
  <1> DEFINE n == Recording(d, e, before)
  <1>1. e \in Indexed <=> IsTransfer(e) \/ IsAccordEvent(e)
    BY DEF Indexed
  <1>2. \A k : Gains(d, RecordTransfer(d, e, k), {e}) /\ MarksKept(d, RecordTransfer(d, e, k))
    BY TransferGains
  <1>3. Gains(d, RecordAccordEvent(d, e), {e}) /\ MarksKept(d, RecordAccordEvent(d, e))
    BY AccordEventGains
  <1>4. MarksKept(d, d)
    BY DEF MarksKept
  <1>5. CASE e \notin Indexed
    <2>1. n = d
      BY <1>1, <1>5 DEF Recording
    <2>2. {e} \intersect Indexed = {}
      BY <1>5
    <2> QED
      BY <1>4, <2>1, <2>2 DEF Gains
  <1>6. CASE e \in Indexed
    <2>1. {e} \intersect Indexed = {e}
      BY <1>6
    <2>2. n = RecordAccordEvent(d, e) \/ (\E k : n = RecordTransfer(d, e, k))
          \/ (n = d /\ Has(d.entries, e))
      BY <1>1, <1>6 DEF Recording, RecordTransferLocked
    <2>3. Has(d.entries, e) => Gains(d, d, {e})
      BY DEF Gains, Recorded
    <2> HIDE DEF n
    <2> QED
      BY <1>2, <1>3, <1>4, <2>1, <2>2, <2>3 DEF n
  <1> QED
    BY <1>5, <1>6

\* Folding the balances again records nothing and forgets nothing.
LEMMA ReplayGains ==
  ASSUME NEW d \in Store
  PROVE  LET n == ReplayBalances(d)
         IN  Gains(d, n, {}) /\ MarksKept(d, n)
  <1> DEFINE new(r)  == SumDeltas(UpTo(OfToken(d.entries, ParseTokenTransferEvent(r.ev).token), r))
             moved   == [r \in d.entries |-> [r EXCEPT !.balance = new(r)]]
             entries == {moved[r] : r \in d.entries}
             balances == [tk \in Token |-> SumDeltas(OfToken(d.entries, tk))]
             n == ReplayBalances(d)
  <1>1. n = [d EXCEPT !.entries = entries, !.balances = balances]
    BY DEF ReplayBalances
  <1>2. d.entries \in SUBSET EntryRow
    BY DEF Store
  <1> HIDE DEF new
  <1>3. \A r \in d.entries : moved[r].ev = r.ev
    BY <1>2 DEF EntryRow
  <1> HIDE DEF moved, balances, n
  <1>4. \A e : Has(entries, e) <=> Has(d.entries, e)
    BY <1>3 DEF Has
  <1> HIDE DEF entries
  <1>5. n.entries = entries /\ n.events = d.events /\ MarksKept(d, n)
    BY <1>1 DEF Store, MarksKept
  <1>6. Gains(d, n, {})
    BY <1>4, <1>5 DEF Gains, Recorded
  <1> QED
    BY <1>5, <1>6 DEF n

LEMMA ClearForgets ==
  ASSUME NEW d \in Store
  PROVE  LET n == ClearHistory(d)
         IN  (\A e \in Event : ~Recorded(n, e)) /\ MarksKept(d, n)
  <1> DEFINE n == ClearHistory(d)
  <1>1. n.entries = {} /\ n.events = {} /\ MarksKept(d, n)
    BY DEF ClearHistory, Store, MarksKept
  <1> QED
    BY <1>1 DEF Recorded, Has

-----------------------------------------------------------------------------
(* The pages of the node *)

LEMMA ChainOrder ==
  ASSUME NEW e \in Event, NEW f \in Event
  PROVE  (e <= f => LedgerOf(e) <= LedgerOf(f)) /\ (LedgerOf(e) < LedgerOf(f) => e < f)
  <1>1. e \in Nat /\ f \in Nat /\ LedgerOf(e) \in Nat /\ LedgerOf(f) \in Nat
    BY EventNumbers
  <1>2. (e < f => LedgerOf(e) <= LedgerOf(f)) /\ (f < e => LedgerOf(f) <= LedgerOf(e))
    BY ChainAssumption
  <1> QED
    BY <1>1, <1>2

Available(cursor, fromLedger, head) ==
  {e \in Event : /\ LedgerOf(e) <= head
                 /\ IF cursor # 0 THEN e > cursor ELSE LedgerOf(e) >= fromLedger}

\* A page is the first events that match; one of another length than the limit is all.
LEMMA PageOfChain ==
  ASSUME NEW cursor, NEW fromLedger, NEW head, NEW limit \in Nat \ {0}
  PROVE  LET page == GetEvents(cursor, fromLedger, head, limit)
             all  == Available(cursor, fromLedger, head)
         IN  /\ page \subseteq all /\ page \in SUBSET Event
             /\ \A e \in all : e <= Max(page \union {0}) => e \in page
             /\ Cardinality(page) # limit => page = all
             /\ Cardinality(page) = limit => Max(page \union {0}) \in page
  <1> DEFINE all     == Available(cursor, fromLedger, head)
             upTo(e) == {f \in all : f <= e}
             page    == {e \in all : Cardinality(upTo(e)) <= limit}
  <1>1. GetEvents(cursor, fromLedger, head, limit) = page
    BY DEF GetEvents, Available
  <1>2. all \in SUBSET Event /\ all \in SUBSET Nat /\ IsFiniteSet(all)
    <2>1. all \in SUBSET Event
      BY DEF Available
    <2> QED
      BY <2>1, EventNumbers, FS_Subset
  <1> HIDE DEF all
  <1>3. \A e : IsFiniteSet(upTo(e)) /\ Cardinality(upTo(e)) \in Nat
    <2>1. \A e : upTo(e) \in SUBSET all
      OBVIOUS
    <2> QED
      BY <1>2, <2>1, FS_Subset, FS_CardinalityType
  <1>4. page \in SUBSET all /\ page \in SUBSET Event /\ IsFiniteSet(page)
    <2>1. page \in SUBSET all
      OBVIOUS
    <2> HIDE DEF page
    <2> QED
      BY <1>2, <2>1, FS_Subset
  <1>5. ASSUME NEW f \in page, NEW e \in all, e <= f PROVE e \in page
    <2>1. e \in Nat /\ f \in Nat /\ f \in all
      BY <1>2, <1>4, <1>5
    <2>2. upTo(e) \subseteq upTo(f)
      <3>1. ASSUME NEW x \in all, x <= e PROVE x <= f
        <4>1. x \in Nat
          BY <1>2
        <4> QED
          BY <1>5, <2>1, <3>1, <4>1
      <3> QED
        BY <3>1
    <2>3. Cardinality(upTo(e)) <= Cardinality(upTo(f))
      BY <1>3, <2>2, FS_Subset
    <2>4. Cardinality(upTo(f)) <= limit
      BY <1>5
    <2>5. Cardinality(upTo(e)) <= limit
      BY <1>3, <2>3, <2>4
    <2> QED
      BY <2>5
  <1>6. /\ Max(page \union {0}) \in Nat /\ Max(page \union {0}) \in page \union {0}
    BY <1>4, LastOfPage
  <1>7. ASSUME NEW e \in all, e <= Max(page \union {0}) PROVE e \in page
    <2>1. e \in Nat /\ e # 0
      <3>1. e \in Event
        BY <1>2
      <3> QED
        BY <3>1, EventNumbers
    <2>2. Max(page \union {0}) \in page
      BY <1>6, <1>7, <2>1
    <2> QED
      BY <1>5, <1>7, <2>2
  <1>8. ASSUME page # all PROVE Cardinality(page) = limit
    <2> DEFINE out == all \ page
    <2>1. out # {} /\ out \in SUBSET Event
      BY <1>2, <1>4, <1>8
    <2>2. PICK m \in out : \A x \in out : m <= x
      <3>1. Min(out) \in out /\ \A x \in out : Min(out) <= x
        BY <2>1, FirstOfPage
      <3> QED
        BY <3>1
    <2>3. m \in all /\ m \notin page /\ m \in Nat
      BY <1>2, <2>2
    <2>4. upTo(m) = page \union {m}
      <3>1. ASSUME NEW f \in all, f <= m, f # m PROVE f \in page
        <4>1. f \in Nat
          BY <1>2
        <4>2. f \notin out
          BY <2>2, <2>3, <3>1, <4>1
        <4> QED
          BY <4>2
      <3>2. ASSUME NEW f \in page PROVE f <= m
        <4>1. f \in Nat /\ f \in all
          BY <1>2, <1>4
        <4>2. ~(m <= f)
          BY <1>5, <2>3
        <4> QED
          BY <2>3, <4>1, <4>2
      <3>3. m <= m /\ page \subseteq all
        BY <1>4, <2>3
      <3> HIDE DEF page
      <3>4. ASSUME NEW f \in all PROVE f <= m <=> f \in page \/ f = m
        BY <3>1, <3>2, <3>3
      <3> QED
        BY <2>3, <3>3, <3>4
    <2>5. Cardinality(upTo(m)) = Cardinality(page) + 1
      BY <1>4, <2>3, <2>4, FS_AddElement
    <2>6. Cardinality(upTo(m)) > limit
      BY <1>3, <2>3
    <2>7. Cardinality(page) \in Nat
      BY <1>4, FS_CardinalityType
    <2>8. Cardinality(page) <= limit
      <3>1. CASE page = {}
        <4>1. Cardinality(page) = 0
          BY <3>1, FS_EmptySet
        <4> QED
          BY <4>1
      <3>2. CASE page # {}
        <4>1. PICK g \in page : \A x \in page : x <= g
          <5>1. page \in SUBSET Nat
            BY <1>2, <1>4
          <5> QED
            BY <1>4, <3>2, <5>1, FiniteGreatest
        <4>2. page \subseteq upTo(g)
          BY <1>4, <4>1
        <4>3. Cardinality(page) <= Cardinality(upTo(g)) /\ Cardinality(upTo(g)) \in Nat
          BY <1>3, <4>2, FS_Subset
        <4>4. Cardinality(upTo(g)) <= limit
          BY <4>1
        <4> HIDE DEF page
        <4> QED
          BY <2>7, <4>3, <4>4
      <3> QED
        BY <3>1, <3>2
    <2> QED
      BY <2>5, <2>6, <2>7, <2>8
  <1>9. ASSUME Cardinality(page) = limit PROVE Max(page \union {0}) \in page
    <2>1. page # {}
      BY <1>9, FS_EmptySet
    <2>2. PICK x \in page : x \in Nat \ {0}
      <3>1. \A x \in Event : x \in Nat \ {0}
        BY EventNumbers
      <3> QED
        BY <1>4, <2>1, <3>1
    <2>3. x <= Max(page \union {0})
      BY <1>4, LastOfPage
    <2> QED
      BY <1>6, <2>2, <2>3
  <1> HIDE DEF page
  <1> QED
    BY <1>1, <1>4, <1>7, <1>8, <1>9 DEF all

-----------------------------------------------------------------------------
(* No event is left behind *)

\* The node never answers from an older view, and the operator runs one kind of
\* command, over a range that begins in one place.
Orderly ==
  /\ ~conf.regress
  /\ \E c \in {"backfill", "reindex"} : conf.commands \subseteq {c}
  /\ \E from \in 1..StartLedger : conf.starts \subseteq {from}

\* A page that fills the limit ends among the final ledgers.
FullPagesFinal ==
  b.at = "ingest" /\ b.full => LedgerOf(b.last) <= FinalLedgerFor(b.latestSeen, conf.lag)

Final     == FinalLedgerFor(closed, conf.lag)
NextUp(d) == Or(d.next_ledger, StartLedger)

\* Every due event before a ledger, or up to an event, is in its table.
Reached(d, l) == \A e \in Due : LedgerOf(e) < l => Recorded(d, e)
Passed(d, c)  == \A e \in Due : e <= c => Recorded(d, e)
Grows(d, n)   == \A e \in Event : Recorded(d, e) => Recorded(n, e)

\* The stored checkpoints are true, unless a rebuild is pending, and nothing recorded
\* or passed over lies beyond the final ledger.
Checkpoints ==
  /\ h.cmd # "reindex" => Reached(db, NextUp(db)) /\ Passed(db, db.event_cursor)
  /\ \A e \in Due : LedgerOf(e) < NextUp(db) \/ e <= db.event_cursor => LedgerOf(e) <= Final
  /\ \A e \in Event : Recorded(db, e) => LedgerOf(e) <= Final

\* What is left of a page, and what lies before its end.
BatchPage ==
  /\ \A e \in b.todo : LedgerOf(e) <= b.latestSeen /\ (b.full => e <= b.last)
  /\ b.full => b.last \in Event /\ LedgerOf(b.last) <= b.latestSeen /\ b.firstHeldBack = Infinity
  /\ b.firstHeldBack = Infinity \/ b.firstHeldBack <= b.latestSeen
  /\ \A e \in Due : LedgerOf(e) <= b.latestSeen /\ (b.full => e <= b.last)
                    => Recorded(db, e) \/ e \in b.todo \/ b.firstHeldBack <= LedgerOf(e)

\* A batch works from checkpoints that are true.
BatchPlace ==
  /\ seen <= closed /\ seen <= MaxLedger
  /\ b.at \in {"idle", "request", "ingest", "tip", "finish"}
  /\ b.at # "idle" =>
       /\ h.cmd # "reindex" /\ b.startingLedger = b.nextLedger
       /\ Reached(db, b.nextLedger) /\ Passed(db, b.cursor)
       /\ \A e \in Due : LedgerOf(e) < b.nextLedger => LedgerOf(e) <= Final
  /\ b.at = "request" => b.firstHeldBack = Infinity
  /\ b.at = "ingest" => BatchPage

\* The checkpoint a command resumes from is true, or such that it will not be used.
WalkTrue(c) ==
  \A e \in Indexed, from \in conf.starts :
    from <= LedgerOf(e) /\ e <= db.walk[c].cursor => Recorded(db, e)
WalkOutdated(c) ==
  ~db.rebuilding \/ db.walk[c].done \/ db.walk[c].to = None \/ db.walk[c].to < Final
WalkPlace ==
  \A c \in conf.commands :
    /\ db.walk[c].from \in conf.starts \union {None}
    /\ db.walk[c].from = None => db.walk[c].to = None
    /\ db.walk[c].to # None => db.walk[c].to <= Final
    /\ WalkTrue(c) \/ (c = "reindex" /\ h.at \in {"idle", "blank"} /\ WalkOutdated(c))

\* A rebuild runs alone, over a range that holds all that was ever passed over.
RunRange ==
  /\ h.cmd \in conf.commands \union {None}
  /\ h.cmd # None => \A from \in conf.starts : from <= Final
  /\ h.cmd = "reindex" => b = Idle
  /\ h.at \in {"blank", "mark"} => h.cmd = "reindex"
  /\ h.at # "idle" => /\ h.end <= Final /\ h.start \in conf.starts /\ h.start <= h.end
                      /\ h.cmd = "reindex" =>
                           \A e \in Due : LedgerOf(e) < NextUp(db) => LedgerOf(e) <= h.end
  /\ h.at = "balances" /\ h.cmd = "reindex" => db.event_cursor = 0

\* What is left of a page of a command, and what lies before it.
RunPage ==
  /\ h.at \in {"request", "record"} =>
       \A e \in Indexed : LedgerOf(e) \in h.start..h.end /\ e <= h.cursor => Recorded(db, e)
  /\ h.at = "record" =>
       /\ \A e \in h.todo : LedgerOf(e) \in h.start..h.end
       /\ h.full => h.last \in Event /\ LedgerOf(h.last) <= h.end
       /\ \A e \in Indexed : LedgerOf(e) \in h.start..h.end /\ (h.full => e <= h.last)
                             => Recorded(db, e) \/ e \in h.todo

RunPlace == WalkPlace /\ RunRange /\ RunPage /\ RangeCovered

GapInv == Checkpoints /\ BatchPlace /\ RunPlace

LEMMA DueTyped ==
  /\ Due \in SUBSET Event /\ Due \in SUBSET Indexed /\ Indexed \in SUBSET Event
  /\ \A e \in Due : e \in Nat /\ e # 0 /\ LedgerOf(e) \in Nat /\ LedgerOf(e) >= StartLedger
  /\ \A e \in Indexed : e \in Nat /\ e # 0 /\ LedgerOf(e) \in Nat
  BY EventNumbers DEF Due, Indexed

LEMMA FinalTyped ==
  ASSUME SyncTyped
  PROVE  /\ conf.lag \in Nat /\ Final \in Nat /\ Final <= closed
         /\ \A l \in Nat : /\ FinalLedgerFor(l, conf.lag) \in Nat /\ FinalLedgerFor(l, conf.lag) <= l
                           /\ l <= closed => FinalLedgerFor(l, conf.lag) <= Final
         /\ \A l \in Nat : l >= closed => FinalLedgerFor(l, conf.lag) >= Final
  <1>1. conf.lag \in Nat /\ closed \in Nat
    BY DeploymentOf DEF SyncTyped
  <1> QED
    BY <1>1 DEF FinalLedgerFor, Max2, Final

LEMMA MarksTyped ==
  ASSUME TablesInv
  PROVE  /\ db \in Store /\ BatchTyped(b) /\ RunTyped(h) /\ SyncTyped
         /\ NextUp(db) \in Nat /\ db.event_cursor \in Nat /\ db.rebuilding \in BOOLEAN
         /\ \A c \in {"backfill", "reindex"} :
              /\ db.walk[c].cursor \in Nat /\ db.walk[c].from \in Position
              /\ db.walk[c].to \in Position /\ db.walk[c].done \in BOOLEAN
         /\ conf.commands \in SUBSET {"backfill", "reindex"} /\ conf.starts \in SUBSET Nat
         /\ StartLedger \in Nat \ {0} /\ None \notin {"backfill", "reindex"} /\ None \notin Int
  <1>1. db \in Store /\ SyncTyped /\ conf \in Deployment /\ BatchTyped(b) /\ RunTyped(h)
    BY DEF TablesInv, Sound, SyncTyped
  <1>2. StartLedger \in Nat \ {0} /\ None \notin {"backfill", "reindex"} /\ None \notin Int
    BY SyncAssumption, HistoryAssumption, ChainAssumption
  <1>3. NextUp(db) \in Nat /\ db.event_cursor \in Nat /\ db.rebuilding \in BOOLEAN
    BY <1>1, <1>2 DEF Store, NextUp, Or, Position
  <1>4. db.walk \in [{"backfill", "reindex"} -> Walk]
    BY <1>1 DEF Store
  <1>5. conf.commands \in SUBSET {"backfill", "reindex"} /\ conf.starts \in SUBSET Nat
    BY <1>1, DeploymentOf
  <1> QED
    BY <1>1, <1>2, <1>3, <1>4, <1>5 DEF Walk

\* The writes of the checkpoints.
LEMMA NextLedgerGains ==
  ASSUME NEW d \in Store, NEW v, NEW n, n = [d EXCEPT !.next_ledger = v]
  PROVE  /\ Gains(d, n, {}) /\ n.next_ledger = v /\ n.event_cursor = d.event_cursor
         /\ n.walk = d.walk /\ n.rebuilding = d.rebuilding
  BY KeptIsRecorded DEF Store, TablesKept, MarksKept

LEMMA CursorGains ==
  ASSUME NEW d \in Store, NEW v, NEW n, n = [d EXCEPT !.event_cursor = v]
  PROVE  /\ Gains(d, n, {}) /\ n.next_ledger = d.next_ledger /\ n.event_cursor = v
         /\ n.walk = d.walk /\ n.rebuilding = d.rebuilding
  BY KeptIsRecorded DEF Store, TablesKept, MarksKept

LEMMA LastSeenGains ==
  ASSUME NEW d \in Store, NEW v, NEW n, n = [d EXCEPT !.last_seen_ledger = v]
  PROVE  Gains(d, n, {}) /\ MarksKept(d, n)
  BY KeptIsRecorded DEF Store, TablesKept, MarksKept

LEMMA WalkGains ==
  ASSUME NEW d \in Store, NEW v, NEW n, n = [d EXCEPT !.walk = v]
  PROVE  /\ Gains(d, n, {}) /\ n.next_ledger = d.next_ledger
         /\ n.event_cursor = d.event_cursor /\ n.walk = v /\ n.rebuilding = d.rebuilding
  BY KeptIsRecorded DEF Store, TablesKept, MarksKept

LEMMA RebuildingGains ==
  ASSUME NEW d \in Store, NEW v, NEW n, n = [d EXCEPT !.rebuilding = v]
  PROVE  /\ Gains(d, n, {}) /\ n.next_ledger = d.next_ledger
         /\ n.event_cursor = d.event_cursor /\ n.walk = d.walk /\ n.rebuilding = v
  BY KeptIsRecorded DEF Store, TablesKept, MarksKept

LEMMA GainsGrows ==
  ASSUME NEW d, NEW n, NEW more, Gains(d, n, more)
  PROVE  Grows(d, n)
  BY DEF Gains, Grows

\* The checkpoints stay true when the tables grow by final events.
LEMMA CheckpointsKept ==
  ASSUME Checkpoints, SyncTyped, SyncTyped', conf' = conf, closed' >= closed,
         h'.cmd = "reindex" \/ h.cmd # "reindex",
         db'.next_ledger = db.next_ledger, db'.event_cursor = db.event_cursor,
         NEW more, Gains(db, db', more), \A e \in more : LedgerOf(e) <= Final
  PROVE  Checkpoints'
  <1>1. closed \in Nat /\ closed' \in Nat
    BY DEF SyncTyped
  <1>2. Final \in Nat /\ Final' \in Nat /\ Final <= Final'
    BY <1>1, FinalTyped DEF Final, SyncTyped
  <1>3. \A e \in Event : LedgerOf(e) \in Nat
    BY EventNumbers
  <1>4. NextUp(db') = NextUp(db)
    BY DEF NextUp
  <1>5. \A e \in Due : LedgerOf(e) < NextUp(db') \/ e <= db'.event_cursor => LedgerOf(e) <= Final'
    BY <1>2, <1>3, <1>4, DueTyped DEF Checkpoints
  <1>6. \A e \in Event : Recorded(db', e) => LedgerOf(e) <= Final'
    BY <1>2, <1>3 DEF Checkpoints, Gains
  <1>7. h'.cmd # "reindex" => Reached(db', NextUp(db')) /\ Passed(db', db'.event_cursor)
    BY <1>4, DueTyped DEF Checkpoints, Gains, Reached, Passed
  <1> QED
    BY <1>5, <1>6, <1>7 DEF Checkpoints

\* A batch keeps its place while others add to the tables.
LEMMA BatchKept ==
  ASSUME BatchPlace, TablesInv, SyncTyped', conf' = conf, closed' >= closed, seen' = seen,
         b' = b, Grows(db, db'), b.at # "idle" => h'.cmd # "reindex"
  PROVE  BatchPlace'
  <1>1. closed \in Nat /\ closed' \in Nat /\ seen \in Nat /\ BatchTyped(b)
    BY DEF SyncTyped, TablesInv
  <1>2. Final \in Nat /\ Final' \in Nat /\ Final <= Final'
    BY <1>1, FinalTyped DEF Final, SyncTyped, TablesInv
  <1>3. \A e \in Due : Recorded(db, e) => Recorded(db', e)
    BY DueTyped DEF Grows
  <1>4. seen' <= closed' /\ seen' <= MaxLedger
    BY <1>1 DEF BatchPlace
  <1>5. ASSUME b.at # "idle"
        PROVE  /\ h'.cmd # "reindex" /\ b.startingLedger = b.nextLedger
               /\ Reached(db', b.nextLedger) /\ Passed(db', b.cursor)
               /\ \A e \in Due : LedgerOf(e) < b.nextLedger => LedgerOf(e) <= Final'
    BY <1>2, <1>3, <1>5, DueTyped DEF BatchPlace, Reached, Passed
  <1>6. ASSUME b.at = "ingest" PROVE BatchPage'
    BY <1>3, <1>6 DEF BatchPlace, BatchPage
  <1> QED
    BY <1>4, <1>5, <1>6 DEF BatchPlace

\* A batch that ends, or is lost, leaves nothing to keep.
LEMMA BatchEnded ==
  ASSUME BatchPlace, SyncTyped, SyncTyped', closed' >= closed, seen' = seen, b' = Idle
  PROVE  BatchPlace'
  <1>1. b'.at = "idle"
    BY DEF Idle
  <1>2. closed \in Nat /\ closed' \in Nat /\ seen \in Nat
    BY DEF SyncTyped
  <1> QED
    BY <1>1, <1>2 DEF BatchPlace

\* A command keeps its place while others add to the tables.
LEMMA RunKept ==
  ASSUME RunPlace, TablesInv, TablesInv', conf' = conf, closed' >= closed, h' = h,
         Grows(db, db'), db'.walk = db.walk, db'.rebuilding = db.rebuilding,
         b' = b \/ b' = Idle \/ h.cmd # "reindex",
         h.cmd = "reindex" => /\ db'.next_ledger = db.next_ledger
                              /\ db'.event_cursor = db.event_cursor
  PROVE  RunPlace'
  <1>1. closed \in Nat /\ closed' \in Nat /\ RunTyped(h)
    BY DEF SyncTyped, TablesInv
  <1>2. Final \in Nat /\ Final' \in Nat /\ Final <= Final'
    BY <1>1, FinalTyped DEF Final, SyncTyped, TablesInv
  <1>3. \A e \in Indexed : Recorded(db, e) => Recorded(db', e)
    BY DueTyped DEF Grows
  <1>4. \A c \in conf.commands : db.walk[c].to # None => db.walk[c].to \in Nat
    BY MarksTyped DEF Position
  <1>5. WalkPlace'
    <2>1. ASSUME NEW c \in conf.commands
          PROVE  /\ WalkTrue(c) => WalkTrue(c)'
                 /\ WalkOutdated(c) => WalkOutdated(c)'
                 /\ db.walk[c].to # None /\ db.walk[c].to <= Final => db.walk[c].to <= Final'
      BY <1>2, <1>3, <1>4 DEF WalkTrue, WalkOutdated
    <2> QED
      BY <2>1 DEF RunPlace, WalkPlace
  <1>6. RunRange'
    <2>1. NextUp(db') = NextUp(db) \/ h.cmd # "reindex"
      BY DEF NextUp
    <2>2. \A from \in conf.starts : from \in Nat
      BY MarksTyped
    <2>3. \A from \in conf.starts : from <= Final => from <= Final'
      BY <1>2, <2>2
    <2>4. h.end <= Final => h.end <= Final'
      BY <1>1, <1>2 DEF RunTyped
    <2> QED
      BY <2>1, <2>3, <2>4 DEF RunPlace, RunRange
  <1>7. RunPage' /\ RangeCovered'
    BY <1>3 DEF RunPlace, RunPage, RangeCovered
  <1> QED
    BY <1>5, <1>6, <1>7 DEF RunPlace

\* The local variables of a batch, one action at a time.
LEMMA PageLimits ==
  ASSUME TablesInv, BatchPlace, Orderly
  PROVE  /\ seen \in Nat /\ closed \in Nat /\ seen <= closed /\ seen < Infinity
         /\ b.latestSeen \in Nat /\ b.latestSeen <= seen /\ Infinity \in Nat
         /\ FinalLedgerFor(b.latestSeen, conf.lag) \in Nat
         /\ FinalLedgerFor(b.latestSeen, conf.lag) <= Final
         /\ FinalLedgerFor(b.latestSeen, conf.lag) <= b.latestSeen
         /\ Final \in Nat /\ conf.lag \in Nat
         /\ \A e \in b.todo : e \in Event /\ e \in Nat /\ LedgerOf(e) \in Nat
         /\ b.last \in Nat /\ b.firstHeldBack \in Nat /\ b.nextLedger \in Nat
         /\ Or(db.last_seen_ledger, 0) \in Nat /\ Or(db.last_seen_ledger, 0) <= seen
  <1>1. BatchTyped(b) /\ SyncTyped /\ HeadsSeen /\ db \in Store
    BY MarksTyped DEF TablesInv
  <1>2. seen \in Nat /\ closed \in Nat /\ MaxLedger \in Nat /\ seen <= closed /\ seen <= MaxLedger
    BY <1>1, SyncAssumption DEF SyncTyped, BatchPlace
  <1>3. b.latestSeen \in Nat /\ b.latestSeen <= seen
    BY <1>1 DEF BatchTyped, HeadsSeen, Orderly
  <1>4. Or(db.last_seen_ledger, 0) \in Nat /\ Or(db.last_seen_ledger, 0) <= seen
    BY <1>1 DEF Store, Position, Or, HeadsSeen, Orderly
  <1>5. b.latestSeen <= closed
    BY <1>2, <1>3
  <1>6. \A e \in b.todo : e \in Event /\ e \in Nat /\ LedgerOf(e) \in Nat
    BY <1>1, EventNumbers DEF BatchTyped
  <1> QED
    BY <1>1, <1>2, <1>3, <1>4, <1>5, <1>6, FinalTyped DEF Infinity, BatchTyped

LEMMA StartBatchGaps ==
  ASSUME TablesInv, Orderly, Checkpoints, BatchPlace, h.cmd # "reindex", h' = h, StartBatch
  PROVE  BatchPlace'
  <1>1. /\ db' = db /\ conf' = conf /\ closed' = closed /\ seen' = seen
        /\ b' = [Idle EXCEPT !.at = "request", !.cursor = db.event_cursor,
                   !.nextLedger = NextUp(db), !.startingLedger = NextUp(db),
                   !.previousLatest = Or(db.last_seen_ledger, 0),
                   !.latestSeen = Or(db.last_seen_ledger, 0), !.firstHeldBack = Infinity]
    BY DEF StartBatch, NextUp
  <1>2. /\ b'.at = "request" /\ b'.cursor = db.event_cursor /\ b'.nextLedger = NextUp(db)
        /\ b'.startingLedger = NextUp(db) /\ b'.firstHeldBack = Infinity
    BY <1>1 DEF Idle
  <1> QED
    BY <1>1, <1>2 DEF BatchPlace, Checkpoints, Final

\* Whatever is due up to the view's head is recorded, or on the page.
LEMMA FetchPageGaps ==
  ASSUME TablesInv, TablesInv', Orderly, BatchPlace, h.cmd # "reindex", h' = h, FetchPage
  PROVE  BatchPlace'
  <1> DEFINE page(head)   == GetEvents(b.cursor, b.nextLedger, head, conf.pageLimit)
             last(head)   == Max(page(head) \union {0})
             latest(head) == Max2(b.latestSeen, head)
             full(head)   == Cardinality(page(head)) = conf.pageLimit
             previous(head) == IF b.reorgChecked THEN b.previousLatest ELSE head
  <1>1. BatchTyped(b) /\ SyncTyped /\ HeadsSeen /\ conf.pageLimit \in Nat \ {0}
    BY DeploymentOf DEF TablesInv, SyncTyped
  <1>2. PICK head \in 1..MaxLedger :
          /\ View(head)
          /\ b' = IF ~b.reorgChecked /\ DetectReorg(b.previousLatest, head)
                  THEN [b EXCEPT !.at = "rewind", !.reorgChecked = TRUE,
                                 !.previousLatest = head, !.latestSeen = head]
                  ELSE [b EXCEPT !.at = "ingest", !.reorgChecked = TRUE,
                                 !.previousLatest = previous(head), !.latestSeen = latest(head),
                                 !.todo = page(head), !.full = full(head), !.last = last(head)]
    BY DEF FetchPage
  <1>3. head \in Nat /\ head >= seen /\ head <= closed /\ head <= MaxLedger /\ seen' = head
    <2>1. MaxLedger \in Nat /\ closed \in Nat /\ seen \in Nat
      BY <1>1, SyncAssumption DEF SyncTyped
    <2> QED
      BY <1>2, <2>1 DEF View, Orderly
  <1>4. b.at = "request" /\ db' = db /\ conf' = conf /\ closed' = closed
    BY DEF FetchPage
  <1>5. b.previousLatest \in Nat /\ b.latestSeen \in Nat /\ b.previousLatest <= seen
        /\ b.latestSeen <= seen /\ seen \in Nat
    BY <1>1 DEF BatchTyped, SyncTyped, HeadsSeen, Orderly
  <1>6. ~DetectReorg(b.previousLatest, head)
    BY <1>3, <1>5 DEF DetectReorg
  <1>7. latest(head) = head
    BY <1>3, <1>5 DEF Max2
  <1> DEFINE all == Available(b.cursor, b.nextLedger, head)
  <1>8. /\ page(head) \subseteq all /\ page(head) \in SUBSET Event
        /\ \A e \in all : e <= last(head) => e \in page(head)
        /\ ~full(head) => page(head) = all
        /\ full(head) => last(head) \in page(head)
    BY <1>1, PageOfChain
  <1>9. \A e \in page(head) : LedgerOf(e) <= head /\ e <= last(head)
    BY <1>8, LastOfPage DEF Available
  <1>10. ASSUME NEW e \in Due, LedgerOf(e) <= head, ~Recorded(db, e) PROVE e \in all
    <2>1. ~(LedgerOf(e) < b.nextLedger) /\ ~(e <= b.cursor)
      BY <1>4, <1>10 DEF BatchPlace, Reached, Passed
    <2>2. e \in Event /\ e \in Nat /\ LedgerOf(e) \in Nat /\ b.nextLedger \in Nat /\ b.cursor \in Nat
      BY <1>1, DueTyped DEF BatchTyped
    <2> QED
      BY <1>10, <2>1, <2>2 DEF Available
  <1> DEFINE todo == page(head)
             lst  == last(head)
             fll  == full(head)
             prev == previous(head)
  <1>11. /\ b' = [b EXCEPT !.at = "ingest", !.reorgChecked = TRUE, !.previousLatest = prev,
                           !.latestSeen = head, !.todo = todo, !.full = fll, !.last = lst]
    BY <1>2, <1>6, <1>7
  <1>12. /\ fll \in BOOLEAN
         /\ \A e \in todo : LedgerOf(e) <= head /\ e <= lst
         /\ fll => lst \in todo /\ lst \in Event
         /\ \A e \in Due : LedgerOf(e) <= head /\ (fll => e <= lst) => Recorded(db, e) \/ e \in todo
    BY <1>8, <1>9, <1>10
  <1> HIDE DEF page, last, latest, full, previous, all, todo, lst, fll, prev
  <1>13. /\ b'.at = "ingest" /\ b'.latestSeen = head /\ b'.todo = todo /\ b'.full = fll /\ b'.last = lst
         /\ b'.firstHeldBack = b.firstHeldBack /\ b'.startingLedger = b.startingLedger
         /\ b'.nextLedger = b.nextLedger /\ b'.cursor = b.cursor
    BY <1>1, <1>11 DEF BatchTyped
  <1>14. b.firstHeldBack = Infinity
    BY <1>4 DEF BatchPlace
  <1>15. BatchPage'
    BY <1>4, <1>12, <1>13, <1>14 DEF BatchPage
  <1> QED
    BY <1>3, <1>4, <1>13, <1>15 DEF BatchPlace, Final

\* Only events beyond the final ledger are held back, so never from a full page.
LEMMA HoldBackGaps ==
  ASSUME TablesInv, TablesInv', Orderly, BatchPlace, FullPagesFinal, h' = h, HoldBack
  PROVE  BatchPlace'
  <1>1. BatchTyped(b) /\ b.at = "ingest" /\ b.todo # {} /\ ~IsFinal(Upcoming)
    BY DEF HoldBack, TablesInv, SyncTyped
  <1>2. db' = db /\ conf' = conf /\ closed' = closed /\ seen' = seen
    BY DEF HoldBack
  <1>3. Upcoming \in b.todo /\ Upcoming \in Event /\ LedgerOf(Upcoming) \in Nat
    BY <1>1, FirstOfPage, EventNumbers DEF Upcoming, BatchTyped
  <1> DEFINE held == IF LedgerOf(Upcoming) < b.firstHeldBack
                     THEN LedgerOf(Upcoming) ELSE b.firstHeldBack
  <1>4. b' = [b EXCEPT !.todo = b.todo \ {Upcoming}, !.firstHeldBack = held]
    BY <1>1 DEF HoldBack, BatchTyped
  <1>5. /\ b'.at = "ingest" /\ b'.latestSeen = b.latestSeen /\ b'.todo = b.todo \ {Upcoming}
        /\ b'.full = b.full /\ b'.last = b.last
        /\ b'.firstHeldBack = held /\ b'.startingLedger = b.startingLedger
        /\ b'.nextLedger = b.nextLedger /\ b'.cursor = b.cursor
    BY <1>1, <1>4 DEF BatchTyped
  <1>6. BatchPage
    BY <1>1 DEF BatchPlace
  <1>7. ~b.full
    <2> SUFFICES ASSUME b.full PROVE FALSE
      OBVIOUS
    <2>1. LedgerOf(b.last) <= FinalLedgerFor(b.latestSeen, conf.lag) /\ b.last \in Event
          /\ Upcoming <= b.last
      BY <1>1, <1>3, <1>6 DEF FullPagesFinal, BatchPage
    <2>2. LedgerOf(Upcoming) <= LedgerOf(b.last) /\ LedgerOf(b.last) \in Nat
      BY <1>3, <2>1, ChainOrder, EventNumbers
    <2>3. FinalLedgerFor(b.latestSeen, conf.lag) \in Nat
      BY PageLimits
    <2> QED
      BY <1>1, <1>3, <2>1, <2>2, <2>3 DEF IsFinal
  <1>8. /\ held <= LedgerOf(Upcoming) /\ held <= b.firstHeldBack /\ held \in Nat
        /\ held <= b.latestSeen /\ b.firstHeldBack \in Nat
    BY <1>3, <1>6, PageLimits DEF BatchPage
  <1> HIDE DEF held
  <1>9. BatchPage'
    <2>1. ASSUME NEW e \in Due, LedgerOf(e) <= b.latestSeen
          PROVE  Recorded(db, e) \/ e \in b.todo \ {Upcoming} \/ held <= LedgerOf(e)
      <3>1. Recorded(db, e) \/ e \in b.todo \/ b.firstHeldBack <= LedgerOf(e)
        BY <1>6, <1>7, <2>1 DEF BatchPage
      <3>2. LedgerOf(e) \in Nat
        BY DueTyped
      <3> QED
        BY <1>8, <3>1, <3>2
    <2> QED
      BY <1>2, <1>5, <1>6, <1>7, <1>8, <2>1 DEF BatchPage
  <1> QED
    BY <1>1, <1>2, <1>5, <1>9 DEF BatchPlace, Final

\* An event of the page is recorded.
LEMMA IngestGaps ==
  ASSUME TablesInv, TablesInv', Orderly, BatchPlace, Checkpoints, h' = h, IngestEvent
  PROVE  /\ BatchPlace' /\ Checkpoints' /\ Grows(db, db') /\ MarksKept(db, db')
  <1>1. /\ BatchTyped(b) /\ b.at = "ingest" /\ b.todo # {} /\ IsFinal(Upcoming)
        /\ db \in Store /\ SyncTyped /\ SyncTyped'
    BY MarksTyped DEF IngestEvent, TablesInv, SyncTyped
  <1>2. conf' = conf /\ closed' = closed /\ seen' = seen /\ h.cmd # "reindex"
    BY <1>1 DEF IngestEvent, BatchPlace
  <1>3. Upcoming \in b.todo /\ Upcoming \in Event
    BY <1>1, FirstOfPage DEF Upcoming, BatchTyped
  <1>4. db' = Recording(db, Upcoming, b.before)
    BY DEF IngestEvent, Recording
  <1>5. Gains(db, db', {Upcoming} \intersect Indexed) /\ MarksKept(db, db')
    BY <1>1, <1>3, <1>4, RecordingGains
  <1>6. LedgerOf(Upcoming) <= Final
    <2>1. LedgerOf(Upcoming) \in Nat
      BY <1>3, EventNumbers
    <2> QED
      BY <1>1, <2>1, PageLimits DEF IsFinal
  <1>7. Checkpoints'
    <2>1. closed' >= closed
      BY <1>1, <1>2 DEF SyncTyped
    <2> QED
      BY <1>1, <1>2, <1>5, <1>6, <2>1, CheckpointsKept DEF MarksKept
  <1>8. Grows(db, db')
    BY <1>5, GainsGrows
  <1>9. b' = [b EXCEPT !.todo = b.todo \ {Upcoming}, !.before = None]
    BY <1>1 DEF IngestEvent, BatchTyped
  <1>10. /\ b'.at = "ingest" /\ b'.latestSeen = b.latestSeen /\ b'.todo = b.todo \ {Upcoming}
         /\ b'.full = b.full /\ b'.last = b.last /\ b'.firstHeldBack = b.firstHeldBack
         /\ b'.startingLedger = b.startingLedger
         /\ b'.nextLedger = b.nextLedger /\ b'.cursor = b.cursor
    BY <1>1, <1>9 DEF BatchTyped
  <1>11. BatchPage'
    <2>1. BatchPage
      BY <1>1 DEF BatchPlace
    <2>2. ASSUME NEW e \in Due, Recorded(db, e) \/ e \in b.todo
          PROVE  Recorded(db', e) \/ e \in b.todo \ {Upcoming}
      BY <1>5, <2>2, DueTyped DEF Gains
    <2> QED
      BY <1>2, <1>10, <2>1, <2>2 DEF BatchPage
  <1>12. Reached(db', b.nextLedger) /\ Passed(db', b.cursor)
    BY <1>1, <1>8, DueTyped DEF BatchPlace, Reached, Passed, Grows
  <1> QED
    BY <1>1, <1>2, <1>5, <1>7, <1>8, <1>10, <1>11, <1>12 DEF BatchPlace, Final

\* A full page is left when all of it is recorded.
LEMMA NextPageGaps ==
  ASSUME TablesInv, TablesInv', Orderly, BatchPlace, Checkpoints, h' = h, NextPage
  PROVE  BatchPlace' /\ Checkpoints' /\ Gains(db, db', {})
  <1>1. /\ BatchTyped(b) /\ b.at = "ingest" /\ b.todo = {} /\ b.full
        /\ db \in Store /\ SyncTyped
    BY MarksTyped DEF NextPage, TablesInv, SyncTyped
  <1>2. conf' = conf /\ closed' = closed /\ seen' = seen /\ h.cmd # "reindex"
        /\ db' = [db EXCEPT !.event_cursor = b.last]
    BY <1>1 DEF NextPage, BatchPlace
  <1>3. Gains(db, db', {}) /\ db'.next_ledger = db.next_ledger /\ db'.event_cursor = b.last
    BY <1>1, <1>2, CursorGains
  <1>4. BatchPage
    BY <1>1 DEF BatchPlace
  <1>5. b.last \in Event /\ LedgerOf(b.last) <= b.latestSeen /\ b.firstHeldBack = Infinity
        /\ LedgerOf(b.last) \in Nat
    BY <1>1, <1>4, EventNumbers DEF BatchPage
  <1>6. ASSUME NEW e \in Due, e <= b.last PROVE Recorded(db, e)
    <2>1. LedgerOf(e) <= LedgerOf(b.last) /\ LedgerOf(e) \in Nat
      BY <1>5, <1>6, ChainOrder, DueTyped
    <2>2. LedgerOf(e) <= b.latestSeen /\ LedgerOf(e) < Infinity
      BY <1>5, <2>1, PageLimits
    <2>3. Recorded(db, e) \/ e \in b.todo \/ b.firstHeldBack <= LedgerOf(e)
      BY <1>4, <1>6, <2>2 DEF BatchPage
    <2> QED
      BY <1>1, <1>5, <2>1, <2>2, <2>3, PageLimits
  <1>7. \A e \in Event : Recorded(db', e) <=> Recorded(db, e)
    BY <1>3 DEF Gains
  <1>8. \A e \in Due : e \in Event
    BY DueTyped
  <1>9. Checkpoints'
    <2>1. NextUp(db') = NextUp(db) /\ Final' = Final
      BY <1>2, <1>3 DEF NextUp, Final
    <2>2. Reached(db', NextUp(db')) /\ Passed(db', db'.event_cursor)
      BY <1>2, <1>3, <1>6, <1>7, <1>8, <2>1 DEF Checkpoints, Reached, Passed
    <2>3. \A e \in Due : LedgerOf(e) < NextUp(db') \/ e <= db'.event_cursor => LedgerOf(e) <= Final'
      BY <1>3, <1>6, <1>8, <2>1 DEF Checkpoints
    <2> QED
      BY <1>7, <2>1, <2>2, <2>3 DEF Checkpoints
  <1> DEFINE at == IF b.pages + 1 < conf.maxPages THEN "request" ELSE "finish"
  <1>10. at \in {"request", "finish"}
    OBVIOUS
  <1>11. b' = [b EXCEPT !.cursor = b.last, !.pages = @ + 1, !.at = at]
    BY DEF NextPage
  <1> HIDE DEF at
  <1>12. /\ b'.at = at /\ b'.firstHeldBack = b.firstHeldBack
         /\ b'.startingLedger = b.startingLedger
         /\ b'.nextLedger = b.nextLedger /\ b'.cursor = b.last
    BY <1>1, <1>11 DEF BatchTyped
  <1>13. Reached(db', b.nextLedger) /\ Passed(db', b.last)
    BY <1>1, <1>6, <1>7, <1>8 DEF BatchPlace, Reached, Passed
  <1> QED
    BY <1>1, <1>2, <1>3, <1>5, <1>9, <1>10, <1>12, <1>13 DEF BatchPlace, Final

\* A short page ends at the tip: the next ledger is the first held back, or the first
\* that is not final, and all before it is recorded.
LEMMA ReachTipGaps ==
  ASSUME TablesInv, TablesInv', Orderly, BatchPlace, Checkpoints, h' = h, ReachTip
  PROVE  BatchPlace' /\ Checkpoints' /\ Gains(db, db', {})
  <1> DEFINE bound == IF b.firstHeldBack < Infinity THEN b.firstHeldBack
                      ELSE FinalLedgerFor(b.latestSeen, conf.lag) + 1
             next  == Max2(b.startingLedger, bound)
  <1>1. /\ BatchTyped(b) /\ b.at = "ingest" /\ b.todo = {} /\ ~b.full
        /\ db \in Store /\ SyncTyped
    BY MarksTyped DEF ReachTip, TablesInv, SyncTyped
  <1>2. conf' = conf /\ closed' = closed /\ seen' = seen /\ h.cmd # "reindex"
        /\ db' = [db EXCEPT !.next_ledger = next]
    BY <1>1 DEF ReachTip, BatchPlace
  <1>3. BatchPage /\ b.startingLedger = b.nextLedger
    BY <1>1 DEF BatchPlace
  <1>4. bound \in Nat /\ b.startingLedger \in Nat
    BY <1>1, PageLimits DEF BatchTyped
  <1>5. next \in Nat /\ (next = b.startingLedger \/ next = bound)
    BY <1>4 DEF Max2
  <1>6. ASSUME NEW e \in Due, LedgerOf(e) < bound
        PROVE  Recorded(db, e)
    <2>1. LedgerOf(e) \in Nat
      BY DueTyped
    <2>2. LedgerOf(e) <= b.latestSeen /\ LedgerOf(e) < b.firstHeldBack
      <3>1. b.firstHeldBack = Infinity \/ b.firstHeldBack <= b.latestSeen
        BY <1>3 DEF BatchPage
      <3> QED
        BY <1>6, <2>1, <3>1, PageLimits
    <2>3. Recorded(db, e) \/ e \in b.todo \/ b.firstHeldBack <= LedgerOf(e)
      BY <1>1, <1>3, <2>2 DEF BatchPage
    <2> QED
      BY <1>1, <2>1, <2>2, <2>3, PageLimits
  <1> HIDE DEF next, bound
  <1>7. Gains(db, db', {}) /\ db'.next_ledger = next /\ db'.event_cursor = db.event_cursor
    BY <1>1, <1>2, NextLedgerGains
  <1>8. ASSUME NEW e \in Due, LedgerOf(e) < next PROVE Recorded(db, e)
    BY <1>1, <1>3, <1>5, <1>6, <1>8 DEF BatchPlace, Reached
  <1>9. \A e \in Event : Recorded(db', e) <=> Recorded(db, e)
    BY <1>7 DEF Gains
  <1>10. \A e \in Due : e \in Event
    BY DueTyped
  <1>11. Checkpoints'
    <2>1. NextUp(db') = next /\ Final' = Final
      <3>1. next # None
        BY <1>5, ChainAssumption
      <3> QED
        BY <1>2, <1>7, <3>1 DEF NextUp, Final, Or
    <2>2. Reached(db', NextUp(db')) /\ Passed(db', db'.event_cursor)
      BY <1>2, <1>7, <1>8, <1>9, <1>10, <2>1 DEF Checkpoints, Reached, Passed
    <2>3. \A e \in Due : LedgerOf(e) < NextUp(db') \/ e <= db'.event_cursor => LedgerOf(e) <= Final'
      BY <1>7, <1>8, <1>10, <2>1 DEF Checkpoints
    <2> QED
      BY <1>9, <2>1, <2>2, <2>3 DEF Checkpoints
  <1>12. /\ b'.at = "tip" /\ b'.firstHeldBack = b.firstHeldBack
         /\ b'.startingLedger = b.startingLedger
         /\ b'.nextLedger = b.nextLedger /\ b'.cursor = b.cursor
    BY <1>1 DEF BatchTyped, ReachTip
  <1>13. Reached(db', b.nextLedger) /\ Passed(db', b.cursor)
    BY <1>1, <1>9, <1>10 DEF BatchPlace, Reached, Passed
  <1> QED
    BY <1>1, <1>2, <1>7, <1>11, <1>12, <1>13 DEF BatchPlace, Final

\* One step of a batch leaves nothing behind.
LEMMA BatchGaps ==
  ASSUME TablesInv, TablesInv', Orderly, FullPagesFinal, GapInv, Batch
  PROVE  GapInv'
  <1>0. /\ h' = h /\ h.cmd # "reindex" /\ conf' = conf /\ closed' = closed
    BY DEF Batch, BatchStep, StartBatch, FetchPage, Rewind, ClearCursorAfterRewind, HoldBack,
           ReadBalance, IngestEvent, NextPage, ReachTip, DropCursor, FinishBatch,
           outboxVars, walkVars, ServiceDown
  <1>1. /\ h' = h /\ conf' = conf /\ closed' = closed /\ h.cmd # "reindex"
        /\ Checkpoints /\ BatchPlace /\ RunPlace /\ db \in Store /\ SyncTyped /\ SyncTyped'
        /\ closed' >= closed
    BY <1>0, MarksTyped DEF GapInv, TablesInv, SyncTyped
  <1>2. SUFFICES /\ BatchPlace' /\ Checkpoints' /\ Grows(db, db')
                 /\ db'.walk = db.walk /\ db'.rebuilding = db.rebuilding
    BY <1>1, RunKept DEF GapInv
  <1>3. Gains(db, db, {}) /\ Grows(db, db) /\ MarksKept(db, db)
    BY DEF Gains, Grows, MarksKept
  <1>4. ASSUME db' = db, BatchPlace'
        PROVE  /\ BatchPlace' /\ Checkpoints' /\ Grows(db, db')
               /\ db'.walk = db.walk /\ db'.rebuilding = db.rebuilding
    BY <1>1, <1>3, <1>4, CheckpointsKept
  <1>5. CASE StartBatch
    <2>1. db' = db
      BY <1>5 DEF StartBatch
    <2> QED
      BY <1>1, <1>4, <1>5, <2>1, StartBatchGaps
  <1>6. CASE FetchPage
    <2>1. db' = db
      BY <1>6 DEF FetchPage
    <2> QED
      BY <1>1, <1>4, <1>6, <2>1, FetchPageGaps
  <1>7. CASE Rewind \/ ClearCursorAfterRewind
    BY <1>1, <1>7 DEF Rewind, ClearCursorAfterRewind, BatchPlace
  <1>8. CASE HoldBack
    <2>1. db' = db
      BY <1>8 DEF HoldBack
    <2> QED
      BY <1>1, <1>4, <1>8, <2>1, HoldBackGaps
  <1>9. CASE ReadBalance
    <2>1. /\ db' = db /\ seen' = seen /\ BatchTyped(b)
          /\ b' = [b EXCEPT !.before = db.balances[ParseTokenTransferEvent(Upcoming).token]]
      BY <1>1, <1>9 DEF ReadBalance, SyncTyped
    <2>2. /\ b'.at = b.at /\ b'.latestSeen = b.latestSeen /\ b'.todo = b.todo /\ b'.full = b.full
          /\ b'.last = b.last /\ b'.firstHeldBack = b.firstHeldBack
          /\ b'.startingLedger = b.startingLedger /\ b'.nextLedger = b.nextLedger
          /\ b'.cursor = b.cursor
      BY <2>1 DEF BatchTyped
    <2>3. BatchPlace'
      BY <1>1, <2>1, <2>2 DEF BatchPlace, BatchPage, Final
    <2> QED
      BY <1>4, <2>1, <2>3
  <1>10. CASE IngestEvent
    BY <1>1, <1>10, IngestGaps DEF MarksKept
  <1>11. CASE NextPage
    <2>1. db' = [db EXCEPT !.event_cursor = b.last]
      BY <1>11 DEF NextPage
    <2>2. db'.walk = db.walk /\ db'.rebuilding = db.rebuilding
      BY <1>1, <2>1, CursorGains
    <2> QED
      BY <1>1, <1>11, <2>2, NextPageGaps, GainsGrows
  <1>12. CASE ReachTip
    <2>1. \E v : db' = [db EXCEPT !.next_ledger = v]
      BY <1>12 DEF ReachTip
    <2>2. db'.walk = db.walk /\ db'.rebuilding = db.rebuilding
      BY <1>1, <2>1, NextLedgerGains
    <2> QED
      BY <1>1, <1>12, <2>2, ReachTipGaps, GainsGrows
  <1>13. CASE DropCursor
    <2>1. /\ db' = [db EXCEPT !.event_cursor = 0] /\ seen' = seen /\ BatchTyped(b) /\ b.at = "tip"
          /\ b' = [b EXCEPT !.at = "finish"]
      BY <1>1, <1>13 DEF DropCursor, SyncTyped
    <2>2. Gains(db, db', {}) /\ db'.next_ledger = db.next_ledger /\ db'.event_cursor = 0
          /\ db'.walk = db.walk /\ db'.rebuilding = db.rebuilding
      BY <1>1, <2>1, CursorGains
    <2>3. \A e \in Event : Recorded(db', e) <=> Recorded(db, e)
      BY <2>2 DEF Gains
    <2>4. NextUp(db') = NextUp(db) /\ Final' = Final
      BY <1>1, <2>2 DEF NextUp, Final
    <2>5. \A e \in Due : e \in Event /\ ~(e <= db'.event_cursor)
      BY <2>2, DueTyped
    <2>6. Checkpoints'
      BY <1>1, <2>3, <2>4, <2>5 DEF Checkpoints, Reached, Passed
    <2>7. /\ b'.at = "finish" /\ b'.startingLedger = b.startingLedger
          /\ b'.nextLedger = b.nextLedger /\ b'.cursor = b.cursor
      BY <2>1 DEF BatchTyped
    <2>8. Reached(db', b.nextLedger) /\ Passed(db', b.cursor)
      BY <1>1, <2>1, <2>3, <2>5 DEF BatchPlace, Reached, Passed
    <2>9. BatchPlace'
      BY <1>1, <2>1, <2>4, <2>7, <2>8 DEF BatchPlace
    <2> QED
      BY <2>2, <2>6, <2>9, GainsGrows
  <1>14. CASE FinishBatch
    <2>1. /\ db' = db \/ db' = [db EXCEPT !.last_seen_ledger = b.latestSeen]
          /\ seen' = seen /\ b' = Idle
      BY <1>14 DEF FinishBatch
    <2>2. Gains(db, db', {}) /\ MarksKept(db, db')
      BY <1>1, <1>3, <2>1, LastSeenGains
    <2>3. Checkpoints'
      BY <1>1, <2>2, CheckpointsKept DEF MarksKept
    <2>4. BatchPlace'
      BY <1>1, <2>1, BatchEnded
    <2> QED
      BY <2>2, <2>3, <2>4, GainsGrows DEF MarksKept
  <1> QED
    BY <1>5, <1>6, <1>7, <1>8, <1>9, <1>10, <1>11, <1>12, <1>13, <1>14 DEF Batch, BatchStep

\* The commands of an orderly operator are one, and its ranges begin in one place.
LEMMA OneCommand ==
  ASSUME TablesInv, Orderly, RunPlace
  PROVE  /\ \A c, d \in conf.commands : c = d
         /\ \A f \in conf.starts : f \in Nat /\ f <= StartLedger
         /\ \A f, g \in conf.starts : f = g
         /\ h.at # "idle" => /\ h.cmd \in conf.commands /\ h.cmd \in {"backfill", "reindex"}
                             /\ h.start \in Nat /\ h.end \in Nat /\ h.end <= Final
                             /\ h.start \in conf.starts /\ h.start <= StartLedger
                             /\ h.start <= h.end
         /\ Final \in Nat /\ Final <= closed
  <1>1. RunTyped(h) /\ SyncTyped /\ conf.starts \in SUBSET Nat /\ StartLedger \in Nat \ {0}
        /\ conf.commands \in SUBSET {"backfill", "reindex"} /\ None \notin {"backfill", "reindex"}
    BY MarksTyped
  <1>2. Final \in Nat /\ Final <= closed
    BY <1>1, FinalTyped
  <1>3. /\ \A c, d \in conf.commands : c = d
        /\ \A f \in conf.starts : f \in Nat /\ f <= StartLedger
        /\ \A f, g \in conf.starts : f = g
    BY <1>1 DEF Orderly
  <1> QED
    BY <1>1, <1>2, <1>3 DEF RunTyped, RunPlace, RunRange

\* A rebuild begins where nothing is recorded, and will not resume what it finds; any
\* other command begins from a checkpoint that is true.
LEMMA StartRunGaps ==
  ASSUME TablesInv, TablesInv', Orderly, GapInv, NEW c \in conf.commands, MayStart(c), StartRun(c)
  PROVE  GapInv'
  <1>1. Checkpoints /\ BatchPlace /\ RunPlace /\ WalkPlace /\ RunRange /\ db \in Store
        /\ SyncTyped /\ SyncTyped' /\ closed \in Nat
    BY MarksTyped DEF GapInv, RunPlace, TablesInv, SyncTyped
  <1>2. /\ b' = b /\ seen' = seen /\ conf' = conf /\ closed' = closed /\ h.at = "idle"
        /\ Final' = Final
    BY DEF StartRun, syncState, Final
  <1>3. /\ \A d \in conf.commands : c = d
        /\ \A f \in conf.starts : f \in Nat /\ f <= StartLedger
        /\ \A f, g \in conf.starts : f = g
        /\ Final \in Nat /\ Final <= closed
    BY <1>1, OneCommand
  <1>4. c \in {"backfill", "reindex"} /\ None \notin {"backfill", "reindex"} /\ None \notin Int
        /\ StartLedger \in Nat
    BY MarksTyped
  <1> DEFINE range(from) == ResolveHistoryRange(from, None)
             resuming(from) == db.rebuilding /\ Resumes(db, c, range(from).start, range(from).end)
             at(from) == IF c = "reindex" /\ ~resuming(from) THEN "blank"
                         ELSE IF c = "reindex" THEN "mark" ELSE "begin"
  <1>5. PICK from \in conf.starts :
          /\ h' = IF range(from).start > range(from).end THEN NoRun
                  ELSE [NoRun EXCEPT !.at = at(from), !.cmd = c,
                                     !.start = range(from).start, !.end = range(from).end]
          /\ db' = IF c = "reindex" /\ ~resuming(from) THEN ClearHistory(db) ELSE db
    BY DEF StartRun
  <1>6. range(from).start = from /\ range(from).end = Final
    BY DEF ResolveHistoryRange, Final
  <1> DEFINE resumes == db.rebuilding /\ Resumes(db, c, from, Final)
             clears  == c = "reindex" /\ ~resumes
             phase   == IF clears THEN "blank" ELSE IF c = "reindex" THEN "mark" ELSE "begin"
  <1>7. /\ h' = IF from > Final THEN NoRun
                ELSE [NoRun EXCEPT !.at = phase, !.cmd = c, !.start = from, !.end = Final]
        /\ db' = IF clears THEN ClearHistory(db) ELSE db
    BY <1>5, <1>6
  <1> HIDE DEF range, resuming, at
  <1>8. NoRun.at = "idle" /\ NoRun.cmd = None
    BY DEF NoRun
  <1>9. phase \in {"blank", "mark", "begin"}
    OBVIOUS
  <1>10. from > Final \/ (from <= Final /\ h'.at = phase /\ h'.cmd = c /\ h'.start = from /\ h'.end = Final)
    BY <1>3, <1>7 DEF NoRun
  <1>11. db.walk[c].to \in Position /\ db.walk[c].done \in BOOLEAN /\ db.rebuilding \in BOOLEAN
    BY <1>4, MarksTyped
  <1>12. resumes <=> /\ db.rebuilding /\ ~db.walk[c].done
                     /\ db.walk[c].from = from /\ db.walk[c].to = Final
    BY DEF Resumes
  <1>13. ~resumes => WalkOutdated(c)
    <2>1. db.walk[c].from # from => db.walk[c].to = None
      BY <1>1, <1>3 DEF WalkPlace
    <2>2. db.walk[c].to # Final => db.walk[c].to = None \/ db.walk[c].to < Final
      BY <1>1, <1>3, <1>11 DEF WalkPlace, Position
    <2> QED
      BY <1>11, <1>12, <2>1, <2>2 DEF WalkOutdated
  <1>14. resumes => ~WalkOutdated(c)
    BY <1>3, <1>4, <1>12 DEF WalkOutdated
  <1> HIDE DEF resumes
  <1>15. c = "reindex" => b = Idle
    BY DEF MayStart
  <1>16. CASE clears
    <2>1. c = "reindex" /\ WalkOutdated(c) /\ db' = ClearHistory(db) /\ b' = Idle
      BY <1>2, <1>7, <1>13, <1>15, <1>16
    <2>2. (\A e \in Event : ~Recorded(db', e)) /\ MarksKept(db, db')
      BY <1>1, <2>1, ClearForgets
    <2>3. NextUp(db') = NextUp(db)
      BY <2>2 DEF NextUp, MarksKept
    <2>4. BatchPlace'
      BY <1>1, <1>2, <2>1, BatchEnded DEF BatchPlace
    <2>5. \A e \in Due : LedgerOf(e) < NextUp(db') \/ e <= db'.event_cursor => LedgerOf(e) <= Final
      BY <1>1, <2>2, <2>3 DEF Checkpoints, MarksKept
    <2>6. h'.cmd = "reindex" \/ (Reached(db', NextUp(db')) /\ Passed(db', db'.event_cursor))
      <3>1. CASE from > Final
        <4>1. ASSUME NEW e \in Due PROVE ~(LedgerOf(e) <= Final)
          BY <1>3, <1>4, <3>1, DueTyped
        <4> QED
          BY <2>5, <4>1 DEF Reached, Passed
      <3>2. CASE ~(from > Final)
        BY <1>10, <2>1, <3>2
      <3> QED
        BY <3>1, <3>2
    <2>7. Checkpoints'
      BY <1>2, <2>2, <2>5, <2>6 DEF Checkpoints
    <2>8. h'.at \in {"idle", "blank"}
      BY <1>7, <1>8, <1>10, <1>16
    <2>9. WalkPlace'
      <3>1. WalkOutdated(c)'
        BY <1>2, <2>1, <2>2 DEF WalkOutdated, MarksKept
      <3> QED
        BY <1>1, <1>2, <1>3, <2>1, <2>2, <2>8, <3>1 DEF WalkPlace, MarksKept
    <2>10. RunRange'
      <3>1. CASE from > Final
        <4>1. h'.at = "idle" /\ h'.cmd = None
          BY <1>7, <1>8, <3>1
        <4> QED
          BY <1>4, <4>1 DEF RunRange
      <3>2. CASE ~(from > Final)
        <4>1. from <= Final /\ h'.at = "blank" /\ h'.cmd = c /\ h'.start = from /\ h'.end = Final
          BY <1>10, <1>16, <3>2
        <4>2. \A f \in conf.starts : f <= Final
          BY <1>3, <4>1
        <4>3. Final <= Final
          BY <1>3
        <4> QED
          BY <1>2, <2>1, <2>5, <4>1, <4>2, <4>3 DEF RunRange
      <3> QED
        BY <3>1, <3>2
    <2>11. RunPage' /\ RangeCovered'
      BY <2>8 DEF RunPage, RangeCovered
    <2> QED
      BY <2>4, <2>7, <2>9, <2>10, <2>11 DEF GapInv, RunPlace
  <1>17. CASE ~clears
    <2>1. db' = db /\ Gains(db, db', {}) /\ Grows(db, db')
      BY <1>7, <1>17 DEF Gains, Grows
    <2>2. CASE from > Final
      <3>1. h'.at = "idle" /\ h'.cmd = None
        BY <1>7, <1>8, <2>2
      <3>2. h.cmd = None
        BY <1>1, <1>3, <2>2 DEF RunRange
      <3>3. Checkpoints'
        BY <1>1, <1>2, <2>1, <1>4, <3>2, CheckpointsKept
      <3>4. BatchPlace'
        BY <1>1, <1>2, <1>4, <2>1, <3>1, BatchKept
      <3>5. WalkPlace'
        BY <1>1, <1>2, <2>1, <3>1 DEF WalkPlace, WalkTrue, WalkOutdated
      <3>6. RunRange' /\ RunPage' /\ RangeCovered'
        BY <1>4, <3>1 DEF RunRange, RunPage, RangeCovered
      <3> QED
        BY <3>3, <3>4, <3>5, <3>6 DEF GapInv, RunPlace
    <2>3. CASE ~(from > Final)
      <3>1. /\ from <= Final /\ h'.at = phase /\ phase \in {"mark", "begin"} /\ h'.cmd = c
            /\ h'.start = from /\ h'.end = Final /\ (phase = "mark" => c = "reindex")
        BY <1>10, <1>17, <2>3
      <3> HIDE DEF phase
      <3>2. h'.cmd = "reindex" \/ h.cmd # "reindex"
        BY <1>1, <1>3, <1>4, <3>1 DEF RunRange
      <3>3. Checkpoints'
        BY <1>1, <1>2, <2>1, <3>2, CheckpointsKept
      <3>4. BatchPlace'
        <4>1. b.at # "idle" => h'.cmd # "reindex"
          BY <1>15, <3>1 DEF Idle
        <4> QED
          BY <1>1, <1>2, <2>1, <4>1, BatchKept
      <3>5. WalkTrue(c)
        BY <1>1, <1>14, <1>17 DEF WalkPlace
      <3>6. WalkPlace'
        BY <1>1, <1>2, <1>3, <2>1, <3>5 DEF WalkPlace, WalkTrue
      <3>7. RunRange'
        <4>1. \A f \in conf.starts : f <= Final
          BY <1>3, <3>1
        <4>2. Final <= Final
          BY <1>3
        <4> QED
          BY <1>1, <1>2, <1>15, <2>1, <3>1, <4>1, <4>2 DEF RunRange, Checkpoints
      <3>8. RunPage' /\ RangeCovered'
        BY <3>1 DEF RunPage, RangeCovered
      <3> QED
        BY <3>3, <3>4, <3>6, <3>7, <3>8 DEF GapInv, RunPlace
    <2> QED
      BY <2>2, <2>3
  <1> QED
    BY <1>16, <1>17

\* The range of a running command while it moves on without touching the checkpoints.
LEMMA RangeKept ==
  ASSUME RunRange, conf' = conf, closed' = closed, b' = b, h.at # "idle",
         h'.at \notin {"blank", "mark"} \/ h.cmd = "reindex", h'.cmd = h.cmd,
         h'.start = h.start, h'.end = h.end, db'.next_ledger = db.next_ledger,
         h'.at # "balances"
  PROVE  RunRange'
  BY DEF RunRange, Final, NextUp

\* The walk's checkpoint, when a command writes it.
LEMMA WalkWritten ==
  ASSUME TablesInv, Orderly, RunPlace, h.at # "idle", conf' = conf, Final' = Final,
         NEW c, c = h.cmd,
         LET w == db'.walk[c]
         IN  /\ \/ w.from = db.walk[c].from /\ w.to = db.walk[c].to
                \/ w.from = h.start /\ w.to = h.end
             /\ \A e \in Indexed, from \in conf.starts :
                  from <= LedgerOf(e) /\ e <= w.cursor => Recorded(db', e)
  PROVE  WalkPlace'
  <1>1. conf.commands = {c} /\ h.start \in conf.starts /\ h.end <= Final /\ h.end \in Nat
        /\ h.start \in Nat
    BY OneCommand
  <1>2. h.start # None /\ h.end # None
    BY <1>1, MarksTyped
  <1>3. WalkPlace
    BY DEF RunPlace
  <1> DEFINE w == db'.walk[c]
  <1>4. WalkTrue(c)'
    BY DEF WalkTrue
  <1>5. /\ w.from \in conf.starts \union {None}
        /\ w.from = None => w.to = None
        /\ w.to # None => w.to <= Final
    BY <1>1, <1>2, <1>3 DEF WalkPlace
  <1>6. \A d \in conf'.commands : d = c
    BY <1>1
  <1> HIDE DEF w
  <1>7. /\ db'.walk[c].from \in conf'.starts \union {None}
        /\ db'.walk[c].from = None => db'.walk[c].to = None
        /\ db'.walk[c].to # None => db'.walk[c].to <= Final'
    BY <1>5 DEF w
  <1> QED
    BY <1>4, <1>6, <1>7 DEF WalkPlace

\* The phases of a command, one action at a time.
LEMMA BlankGaps ==
  ASSUME TablesInv, TablesInv', Orderly, GapInv, BlankCheckpoint
  PROVE  RunPlace' /\ Gains(db, db', {}) /\ h'.cmd = h.cmd
         /\ db'.next_ledger = db.next_ledger /\ db'.event_cursor = db.event_cursor
  <1> DEFINE w == [db.walk EXCEPT !["reindex"] = [@ EXCEPT !.cursor = 0, !.done = FALSE]]
  <1>1. db \in Store /\ RunTyped(h) /\ db.walk \in [{"backfill", "reindex"} -> Walk]
    BY MarksTyped DEF Store
  <1>2. /\ conf' = conf /\ closed' = closed /\ b' = b /\ Final' = Final
        /\ h.at = "blank" /\ h' = [h EXCEPT !.at = "mark"] /\ RunPlace /\ RunRange
    BY DEF BlankCheckpoint, syncState, Final, GapInv, RunPlace
  <1>3. db' = [db EXCEPT !.walk = w]
    BY <1>1 DEF BlankCheckpoint
  <1>4. /\ w["reindex"].from = db.walk["reindex"].from /\ w["reindex"].to = db.walk["reindex"].to
        /\ w["reindex"].cursor = 0
    BY <1>1 DEF Walk
  <1> HIDE DEF w
  <1>5. /\ Gains(db, db', {}) /\ db'.next_ledger = db.next_ledger
        /\ db'.event_cursor = db.event_cursor /\ db'.walk = w
    BY <1>1, <1>3, WalkGains
  <1>6. /\ h'.at = "mark" /\ h'.cmd = h.cmd /\ h'.start = h.start /\ h'.end = h.end
    BY <1>1, <1>2 DEF RunTyped
  <1>7. h.cmd = "reindex"
    BY <1>2 DEF RunRange
  <1>8. \A e \in Indexed : ~(e <= w["reindex"].cursor)
    BY <1>4, DueTyped
  <1>9. WalkPlace'
    BY <1>2, <1>4, <1>5, <1>7, <1>8, WalkWritten
  <1>10. RunRange'
    BY <1>2, <1>5, <1>6, <1>7, RangeKept
  <1> QED
    BY <1>5, <1>6, <1>9, <1>10 DEF RunPlace, RunPage, RangeCovered

LEMMA MarkGaps ==
  ASSUME TablesInv, TablesInv', Orderly, GapInv, MarkRebuilding
  PROVE  RunPlace' /\ Gains(db, db', {}) /\ h'.cmd = h.cmd
         /\ db'.next_ledger = db.next_ledger /\ db'.event_cursor = db.event_cursor
  <1>1. db \in Store /\ RunTyped(h)
    BY MarksTyped
  <1>2. /\ conf' = conf /\ closed' = closed /\ b' = b /\ Final' = Final /\ h.at = "mark"
        /\ h' = [h EXCEPT !.at = "begin"] /\ RunPlace /\ RunRange /\ WalkPlace
        /\ db' = [db EXCEPT !.rebuilding = TRUE]
    BY DEF MarkRebuilding, syncState, Final, GapInv, RunPlace
  <1>3. /\ Gains(db, db', {}) /\ db'.next_ledger = db.next_ledger
        /\ db'.event_cursor = db.event_cursor /\ db'.walk = db.walk
    BY <1>1, <1>2, RebuildingGains
  <1>4. /\ h'.at = "begin" /\ h'.cmd = h.cmd /\ h'.start = h.start /\ h'.end = h.end
    BY <1>1, <1>2 DEF RunTyped
  <1>5. \A e \in Indexed : Recorded(db', e) <=> Recorded(db, e)
    BY <1>3, DueTyped DEF Gains
  <1>6. WalkPlace'
    BY <1>2, <1>3, <1>5 DEF WalkPlace, WalkTrue
  <1>7. RunRange'
    <2>1. h.cmd = "reindex"
      BY <1>2 DEF RunRange
    <2> QED
      BY <1>2, <1>3, <1>4, <2>1, RangeKept
  <1> QED
    BY <1>3, <1>4, <1>6, <1>7 DEF RunPlace, RunPage, RangeCovered

LEMMA BeginWalkGaps ==
  ASSUME TablesInv, TablesInv', Orderly, GapInv, BeginWalk
  PROVE  RunPlace' /\ Gains(db, db', {}) /\ h'.cmd = h.cmd
         /\ db'.next_ledger = db.next_ledger /\ db'.event_cursor = db.event_cursor
  <1>1. PICK c : c = h.cmd
    OBVIOUS
  <1> DEFINE w == [db.walk EXCEPT ![c] = [@ EXCEPT !.from = h.start, !.to = h.end, !.done = FALSE]]
             cursor == IF Resumes(db, h.cmd, h.start, h.end) THEN db.walk[h.cmd].cursor ELSE 0
  <1>2. db \in Store /\ RunTyped(h) /\ db.walk \in [{"backfill", "reindex"} -> Walk]
    BY MarksTyped DEF Store
  <1>3. /\ conf' = conf /\ closed' = closed /\ b' = b /\ Final' = Final /\ RunPlace /\ RunRange
        /\ WalkPlace /\ h.at = "begin" /\ h' = [h EXCEPT !.at = "request", !.cursor = cursor]
    BY DEF BeginWalk, syncState, Final, GapInv, RunPlace
  <1>4. c \in conf.commands /\ c \in {"backfill", "reindex"} /\ h.start \in conf.starts
        /\ h.start \in Nat /\ h.end \in Nat
    BY <1>1, <1>3, OneCommand
  <1>5. db' = [db EXCEPT !.walk = w]
    BY <1>1, <1>2, <1>4 DEF BeginWalk
  <1>6. w[c].from = h.start /\ w[c].to = h.end /\ w[c].cursor = db.walk[c].cursor
    BY <1>2, <1>4 DEF Walk
  <1>7. cursor = db.walk[c].cursor \/ cursor = 0
    BY <1>1
  <1> HIDE DEF w, cursor
  <1>8. /\ Gains(db, db', {}) /\ db'.next_ledger = db.next_ledger
        /\ db'.event_cursor = db.event_cursor /\ db'.walk = w
    BY <1>2, <1>5, WalkGains
  <1>9. /\ h'.at = "request" /\ h'.cmd = c /\ h'.start = h.start /\ h'.end = h.end
        /\ h'.cursor = cursor
    BY <1>1, <1>2, <1>3 DEF RunTyped
  <1>10. \A e \in Indexed : Recorded(db', e) <=> Recorded(db, e)
    BY <1>8, DueTyped DEF Gains
  <1>11. WalkTrue(c)
    BY <1>3, <1>4 DEF WalkPlace
  <1>12. WalkPlace'
    BY <1>1, <1>3, <1>6, <1>8, <1>10, <1>11, WalkWritten DEF WalkTrue
  <1>13. RunRange'
    BY <1>1, <1>3, <1>8, <1>9, RangeKept
  <1>14. RunPage'
    <2>1. ASSUME NEW e \in Indexed, LedgerOf(e) \in h.start..h.end, e <= cursor
          PROVE  Recorded(db', e)
      <3>1. cursor = db.walk[c].cursor
        BY <1>7, <2>1, DueTyped
      <3>2. h.start <= LedgerOf(e)
        BY <2>1
      <3> QED
        BY <1>4, <1>10, <1>11, <2>1, <3>1, <3>2 DEF WalkTrue
    <2> QED
      BY <1>9, <2>1 DEF RunPage
  <1> QED
    BY <1>1, <1>8, <1>9, <1>12, <1>13, <1>14 DEF RunPlace, RangeCovered

\* The tables stay as they are, and so do the range and the walk's checkpoint.
LEMMA RunMoves ==
  ASSUME GapInv, conf' = conf, closed' = closed, b' = b, db' = db, h'.cmd = h.cmd,
         h.at \notin {"idle", "blank", "mark"}, h'.start = h.start, h'.end = h.end,
         h'.at \notin {"blank", "mark", "balances"}
  PROVE  WalkPlace' /\ RunRange' /\ Gains(db, db', {})
  <1>1. WalkPlace /\ RunRange /\ Final' = Final
    BY DEF GapInv, RunPlace, Final
  <1>2. WalkPlace'
    BY <1>1 DEF WalkPlace, WalkTrue, WalkOutdated
  <1>3. RunRange'
    BY <1>1, RangeKept
  <1> QED
    BY <1>2, <1>3 DEF Gains

LEMMA RequestGaps ==
  ASSUME TablesInv, TablesInv', Orderly, GapInv, RequestPage
  PROVE  RunPlace' /\ Gains(db, db', {}) /\ h'.cmd = h.cmd /\ db' = db
  <1> DEFINE page == GetEvents(h.cursor, h.start, closed, conf.pageLimit)
             all  == Available(h.cursor, h.start, closed)
             todo == {e \in page : LedgerOf(e) \in h.start..h.end}
             full == /\ Cardinality(page) = conf.pageLimit
                     /\ \A e \in page : LedgerOf(e) <= h.end
             last == Max(page \union {0})
  <1>1. db \in Store /\ RunTyped(h) /\ SyncTyped /\ closed \in Nat
    BY MarksTyped DEF SyncTyped
  <1>2. /\ conf' = conf /\ closed' = closed /\ b' = b /\ db' = db /\ h.at = "request" /\ RunPlace
        /\ h' = [h EXCEPT !.at = "record", !.todo = todo, !.full = full, !.last = last]
    BY DEF RequestPage, syncState, GapInv
  <1>3. /\ h.start \in Nat /\ h.end \in Nat /\ h.end <= closed /\ h.cursor \in Nat
        /\ conf.pageLimit \in Nat \ {0}
    <2>1. h.end \in Nat /\ h.start \in Nat /\ h.end <= Final /\ Final \in Nat /\ Final <= closed
      BY <1>2, OneCommand
    <2> QED
      BY <1>1, <2>1, DeploymentOf DEF RunTyped, SyncTyped
  <1>4. /\ page \subseteq all /\ page \in SUBSET Event
        /\ \A e \in all : e <= last => e \in page
        /\ Cardinality(page) # conf.pageLimit => page = all
        /\ Cardinality(page) = conf.pageLimit => last \in page
    BY <1>3, PageOfChain
  <1>5. \A e \in page : e <= last
    BY <1>4, LastOfPage
  <1>6. ASSUME NEW e \in Indexed, LedgerOf(e) \in h.start..h.end, ~Recorded(db, e) PROVE e \in all
    <2>1. ~(e <= h.cursor)
      BY <1>2, <1>6 DEF RunPlace, RunPage
    <2>2. e \in Event /\ e \in Nat /\ LedgerOf(e) \in Nat
      BY DueTyped
    <2> QED
      BY <1>1, <1>3, <1>6, <2>1, <2>2 DEF Available
  <1>7. full \in BOOLEAN /\ (full => last \in Event /\ LedgerOf(last) <= h.end)
    BY <1>4
  <1> HIDE DEF all, page
  <1>8. ASSUME NEW e \in Indexed, LedgerOf(e) \in h.start..h.end, full => e <= last, ~Recorded(db, e)
        PROVE  e \in todo
    <2>1. e \in all /\ e \in Event
      BY <1>6, <1>8, DueTyped
    <2>2. CASE full
      BY <1>4, <1>8, <2>1, <2>2
    <2>3. CASE Cardinality(page) # conf.pageLimit
      BY <1>4, <1>8, <2>1, <2>3
    <2>4. CASE \E x \in page : ~(LedgerOf(x) <= h.end)
      <3>1. PICK x \in page : ~(LedgerOf(x) <= h.end)
        BY <2>4
      <3>2. x \in Event /\ x \in Nat /\ LedgerOf(x) \in Nat /\ e \in Nat /\ LedgerOf(e) \in Nat
            /\ last \in Nat
        BY <1>4, <2>1, EventNumbers, LastOfPage
      <3>3. LedgerOf(e) < LedgerOf(x)
        BY <1>3, <1>8, <3>1, <3>2
      <3>4. e < x /\ x <= last
        BY <1>5, <2>1, <3>1, <3>2, <3>3, ChainOrder
      <3>5. e <= last
        BY <3>2, <3>4
      <3> QED
        BY <1>4, <1>8, <2>1, <3>5
    <2> QED
      BY <2>2, <2>3, <2>4
  <1>9. \A e \in todo : LedgerOf(e) \in h.start..h.end
    OBVIOUS
  <1> HIDE DEF todo, full, last
  <1>10. /\ h'.at = "record" /\ h'.cmd = h.cmd /\ h'.start = h.start /\ h'.end = h.end
         /\ h'.cursor = h.cursor /\ h'.todo = todo /\ h'.full = full /\ h'.last = last
    BY <1>1, <1>2 DEF RunTyped
  <1>11. WalkPlace' /\ RunRange' /\ Gains(db, db', {})
    BY <1>2, <1>10, RunMoves
  <1>12. RunPage'
    BY <1>2, <1>7, <1>8, <1>9, <1>10 DEF RunPlace, RunPage
  <1> QED
    BY <1>2, <1>10, <1>11, <1>12 DEF RunPlace, RangeCovered

LEMMA RecordGaps ==
  ASSUME TablesInv, TablesInv', Orderly, GapInv, RecordHistoric
  PROVE  /\ RunPlace' /\ h'.cmd = h.cmd /\ MarksKept(db, db')
         /\ \E more \in SUBSET Event : /\ Gains(db, db', more)
                                       /\ \A e \in more : LedgerOf(e) <= Final
  <1>1. db \in Store /\ RunTyped(h) /\ h.at = "record" /\ h.todo # {}
    BY MarksTyped DEF RecordHistoric
  <1>2. conf' = conf /\ closed' = closed /\ b' = b /\ Final' = Final /\ RunPlace /\ RunRange
        /\ RunPage
    BY DEF RecordHistoric, syncState, Final, GapInv, RunPlace
  <1>3. NextToRecord \in h.todo /\ NextToRecord \in Event
    BY <1>1, FirstOfPage DEF NextToRecord, RunTyped
  <1>4. db' = Recording(db, NextToRecord, h.before)
    BY DEF RecordHistoric, Recording
  <1>5. Gains(db, db', {NextToRecord} \intersect Indexed) /\ MarksKept(db, db')
    BY <1>1, <1>3, <1>4, RecordingGains
  <1>6. LedgerOf(NextToRecord) <= Final
    <2>1. LedgerOf(NextToRecord) \in h.start..h.end /\ LedgerOf(NextToRecord) \in Nat
      BY <1>1, <1>2, <1>3, EventNumbers DEF RunPage
    <2>2. h.end \in Nat /\ h.start \in Nat /\ h.end <= Final /\ Final \in Nat
      BY <1>1, <1>2, OneCommand
    <2> QED
      BY <2>1, <2>2
  <1>7. h' = [h EXCEPT !.todo = h.todo \ {NextToRecord}, !.before = None]
    BY <1>1 DEF RecordHistoric, RunTyped
  <1>8. /\ h'.at = "record" /\ h'.cmd = h.cmd /\ h'.start = h.start /\ h'.end = h.end
        /\ h'.cursor = h.cursor /\ h'.todo = h.todo \ {NextToRecord} /\ h'.full = h.full
        /\ h'.last = h.last
    BY <1>1, <1>7 DEF RunTyped
  <1>9. \A e \in Indexed : Recorded(db', e) <=> Recorded(db, e) \/ e = NextToRecord
    BY <1>5, DueTyped DEF Gains
  <1>10. WalkPlace'
    BY <1>2, <1>1, <1>5, <1>8, <1>9 DEF RunPlace, WalkPlace, WalkTrue, MarksKept
  <1>11. RunRange'
    BY <1>1, <1>2, <1>5, <1>8, RangeKept DEF MarksKept
  <1>12. RunPage'
    <2>1. ASSUME NEW e \in Indexed, Recorded(db, e) \/ e \in h.todo
          PROVE  Recorded(db', e) \/ e \in h.todo \ {NextToRecord}
      BY <1>9, <2>1
    <2> QED
      BY <1>1, <1>2, <1>8, <1>9, <2>1 DEF RunPage
  <1>13. {NextToRecord} \intersect Indexed \in SUBSET Event
         /\ \A e \in {NextToRecord} \intersect Indexed : LedgerOf(e) <= Final
    BY <1>3, <1>6
  <1> QED
    BY <1>5, <1>8, <1>10, <1>11, <1>12, <1>13 DEF RunPlace, RangeCovered

LEMMA StorePageGaps ==
  ASSUME TablesInv, TablesInv', Orderly, GapInv, StorePage
  PROVE  RunPlace' /\ Gains(db, db', {}) /\ h'.cmd = h.cmd
         /\ db'.next_ledger = db.next_ledger /\ db'.event_cursor = db.event_cursor
  <1>1. PICK c : c = h.cmd
    OBVIOUS
  <1> DEFINE w == [db.walk EXCEPT ![c] = [@ EXCEPT !.cursor = h.last]]
  <1>2. db \in Store /\ RunTyped(h) /\ db.walk \in [{"backfill", "reindex"} -> Walk]
    BY MarksTyped DEF Store
  <1>3. /\ conf' = conf /\ closed' = closed /\ b' = b /\ Final' = Final /\ RunPlace /\ RunRange
        /\ RunPage /\ h.at = "record" /\ h.todo = {} /\ h.full
        /\ h' = [h EXCEPT !.cursor = h.last, !.at = "request"]
    BY DEF StorePage, syncState, Final, GapInv, RunPlace
  <1>4. c \in {"backfill", "reindex"} /\ h.start \in conf.starts /\ h.start \in Nat /\ h.end \in Nat
        /\ (\A f \in conf.starts : f = h.start)
    BY <1>1, <1>3, OneCommand
  <1>5. db' = [db EXCEPT !.walk = w]
    BY <1>1, <1>2, <1>4 DEF StorePage
  <1>6. /\ w[c].from = db.walk[c].from /\ w[c].to = db.walk[c].to /\ w[c].cursor = h.last
    BY <1>2, <1>4 DEF Walk
  <1> HIDE DEF w
  <1>7. /\ Gains(db, db', {}) /\ db'.next_ledger = db.next_ledger
        /\ db'.event_cursor = db.event_cursor /\ db'.walk = w
    BY <1>2, <1>5, WalkGains
  <1>8. /\ h'.at = "request" /\ h'.cmd = h.cmd /\ h'.start = h.start /\ h'.end = h.end
        /\ h'.cursor = h.last
    BY <1>2, <1>3 DEF RunTyped
  <1>9. ASSUME NEW e \in Indexed, h.start <= LedgerOf(e), e <= h.last PROVE Recorded(db', e)
    <2>1. h.last \in Event /\ LedgerOf(h.last) <= h.end /\ LedgerOf(h.last) \in Nat
      BY <1>3, EventNumbers DEF RunPage
    <2>2. e \in Event /\ LedgerOf(e) \in Nat
      BY DueTyped
    <2>3. LedgerOf(e) <= LedgerOf(h.last)
      BY <1>9, <2>1, <2>2, ChainOrder
    <2>4. LedgerOf(e) \in h.start..h.end
      BY <1>4, <1>9, <2>1, <2>2, <2>3
    <2> QED
      BY <1>3, <1>7, <1>9, <2>2, <2>4 DEF RunPage, Gains
  <1>10. WalkPlace'
    BY <1>1, <1>3, <1>4, <1>6, <1>7, <1>9, WalkWritten
  <1>11. RunRange'
    BY <1>3, <1>7, <1>8, RangeKept
  <1>12. RunPage'
    <2>1. ASSUME NEW e \in Indexed, LedgerOf(e) \in h.start..h.end, e <= h.last
          PROVE  Recorded(db', e)
      BY <1>9, <2>1
    <2> QED
      BY <1>8, <2>1 DEF RunPage
  <1> QED
    BY <1>7, <1>8, <1>10, <1>11, <1>12 DEF RunPlace, RangeCovered

LEMMA CompleteGaps ==
  ASSUME TablesInv, TablesInv', Orderly, GapInv, CompleteWalk
  PROVE  RunPlace' /\ Gains(db, db', {}) /\ h'.cmd = h.cmd
         /\ db'.next_ledger = db.next_ledger /\ db'.event_cursor = db.event_cursor
  <1>1. PICK c : c = h.cmd
    OBVIOUS
  <1> DEFINE w == [db.walk EXCEPT ![c] = [@ EXCEPT !.done = TRUE]]
  <1>2. db \in Store /\ RunTyped(h) /\ db.walk \in [{"backfill", "reindex"} -> Walk]
    BY MarksTyped DEF Store
  <1>3. /\ conf' = conf /\ closed' = closed /\ b' = b /\ Final' = Final /\ RunPlace /\ RunRange
        /\ RunPage /\ WalkPlace /\ h.at = "record" /\ h.todo = {} /\ ~h.full
        /\ h' = [h EXCEPT !.at = "done"]
    BY DEF CompleteWalk, syncState, Final, GapInv, RunPlace
  <1>4. c \in {"backfill", "reindex"} /\ c \in conf.commands
    BY <1>1, <1>3, OneCommand
  <1>5. db' = [db EXCEPT !.walk = w]
    BY <1>1, <1>2, <1>4 DEF CompleteWalk
  <1>6. /\ w[c].from = db.walk[c].from /\ w[c].to = db.walk[c].to
        /\ w[c].cursor = db.walk[c].cursor
    BY <1>2, <1>4 DEF Walk
  <1> HIDE DEF w
  <1>7. /\ Gains(db, db', {}) /\ db'.next_ledger = db.next_ledger
        /\ db'.event_cursor = db.event_cursor /\ db'.walk = w
    BY <1>2, <1>5, WalkGains
  <1>8. /\ h'.at = "done" /\ h'.cmd = h.cmd /\ h'.start = h.start /\ h'.end = h.end
    BY <1>2, <1>3 DEF RunTyped
  <1>9. \A e \in Indexed : Recorded(db', e) <=> Recorded(db, e)
    BY <1>7, DueTyped DEF Gains
  <1>10. WalkTrue(c)
    BY <1>3, <1>4 DEF WalkPlace
  <1>11. WalkPlace'
    BY <1>1, <1>3, <1>6, <1>7, <1>9, <1>10, WalkWritten DEF WalkTrue
  <1>12. RunRange'
    BY <1>3, <1>7, <1>8, RangeKept
  <1>13. RangeCovered'
    BY <1>3, <1>8, <1>9 DEF RunPage, RangeCovered
  <1> QED
    BY <1>7, <1>8, <1>11, <1>12, <1>13 DEF RunPlace, RunPage

LEMMA ClearWalkGaps ==
  ASSUME TablesInv, TablesInv', Orderly, GapInv, ClearWalkCursor
  PROVE  RunPlace' /\ Gains(db, db', {}) /\ h'.cmd = h.cmd
         /\ db'.next_ledger = db.next_ledger /\ db'.event_cursor = db.event_cursor
  <1>1. PICK c : c = h.cmd
    OBVIOUS
  <1> DEFINE w == [db.walk EXCEPT ![c] = [@ EXCEPT !.cursor = 0]]
  <1>2. db \in Store /\ RunTyped(h) /\ db.walk \in [{"backfill", "reindex"} -> Walk]
    BY MarksTyped DEF Store
  <1>3. /\ conf' = conf /\ closed' = closed /\ b' = b /\ Final' = Final /\ RunPlace /\ RunRange
        /\ RangeCovered /\ h.at = "done" /\ h' = [h EXCEPT !.at = "handover"]
    BY DEF ClearWalkCursor, syncState, Final, GapInv, RunPlace
  <1>4. c \in {"backfill", "reindex"}
    BY <1>1, <1>3, OneCommand
  <1>5. db' = [db EXCEPT !.walk = w]
    BY <1>1, <1>2, <1>4 DEF ClearWalkCursor
  <1>6. /\ w[c].from = db.walk[c].from /\ w[c].to = db.walk[c].to /\ w[c].cursor = 0
    BY <1>2, <1>4 DEF Walk
  <1> HIDE DEF w
  <1>7. /\ Gains(db, db', {}) /\ db'.next_ledger = db.next_ledger
        /\ db'.event_cursor = db.event_cursor /\ db'.walk = w
    BY <1>2, <1>5, WalkGains
  <1>8. /\ h'.at = "handover" /\ h'.cmd = h.cmd /\ h'.start = h.start /\ h'.end = h.end
    BY <1>2, <1>3 DEF RunTyped
  <1>9. \A e \in Indexed : (Recorded(db', e) <=> Recorded(db, e)) /\ ~(e <= w[c].cursor)
    BY <1>6, <1>7, DueTyped DEF Gains
  <1>10. WalkPlace'
    BY <1>1, <1>3, <1>6, <1>7, <1>9, WalkWritten
  <1>11. RunRange'
    BY <1>3, <1>7, <1>8, RangeKept
  <1>12. RangeCovered'
    BY <1>3, <1>8, <1>9 DEF RangeCovered
  <1> QED
    BY <1>7, <1>8, <1>10, <1>11, <1>12 DEF RunPlace, RunPage

\* All that is due before the end of a finished range is recorded.
LEMMA RangeIsRecorded ==
  ASSUME TablesInv, Orderly, RunPlace,
         h.at \in {"done", "handover", "finish", "unpark", "balances"},
         NEW e \in Due, LedgerOf(e) <= h.end
  PROVE  Recorded(db, e)
  <1>1. h.start \in Nat /\ h.end \in Nat /\ h.start <= StartLedger /\ StartLedger \in Nat
    BY OneCommand, MarksTyped
  <1>2. e \in Indexed /\ LedgerOf(e) \in Nat /\ LedgerOf(e) >= StartLedger
    BY DueTyped
  <1>3. LedgerOf(e) \in h.start..h.end
    BY <1>1, <1>2
  <1> QED
    BY <1>2, <1>3 DEF RunPlace, RangeCovered

LEMMA FinishRunGaps ==
  ASSUME TablesInv, TablesInv', Orderly, GapInv, FinishHistoryRun
  PROVE  RunPlace' /\ Checkpoints' /\ Gains(db, db', {}) /\ h'.cmd = h.cmd
  <1>1. db \in Store /\ RunTyped(h) /\ SyncTyped /\ SyncTyped'
    BY MarksTyped DEF TablesInv
  <1>2. /\ conf' = conf /\ closed' = closed /\ b' = b /\ Final' = Final /\ RunPlace /\ RunRange
        /\ RangeCovered /\ WalkPlace /\ Checkpoints /\ h.at = "finish"
        /\ h' = [h EXCEPT !.at = "unpark"]
        /\ db' = IF h.end + 1 > h.last THEN [db EXCEPT !.next_ledger = h.end + 1] ELSE db
    BY DEF FinishHistoryRun, syncState, Final, GapInv, RunPlace
  <1>3. h.start \in Nat /\ h.end \in Nat /\ h.end <= Final /\ Final \in Nat
    BY <1>2, OneCommand
  <1>4. /\ h'.at = "unpark" /\ h'.cmd = h.cmd /\ h'.start = h.start /\ h'.end = h.end
    BY <1>1, <1>2 DEF RunTyped
  <1>5. /\ Gains(db, db', {}) /\ db'.event_cursor = db.event_cursor
        /\ db'.walk = db.walk /\ db'.rebuilding = db.rebuilding
        /\ db'.next_ledger \in {db.next_ledger, h.end + 1}
    <2>1. CASE h.end + 1 > h.last
      BY <1>1, <1>2, <2>1, NextLedgerGains
    <2>2. CASE ~(h.end + 1 > h.last)
      BY <1>2, <2>2 DEF Gains
    <2> QED
      BY <2>1, <2>2
  <1>6. NextUp(db') = NextUp(db) \/ NextUp(db') = h.end + 1
    <2>1. h.end + 1 # None
      BY <1>3, ChainAssumption
    <2> QED
      BY <1>5, <2>1 DEF NextUp, Or
  <1>7. \A e \in Event : Recorded(db', e) <=> Recorded(db, e)
    BY <1>5 DEF Gains
  <1>8. ASSUME NEW e \in Due, LedgerOf(e) < NextUp(db'), NextUp(db') # NextUp(db)
        PROVE  LedgerOf(e) <= h.end /\ LedgerOf(e) <= Final /\ Recorded(db', e)
    <2>1. LedgerOf(e) <= h.end /\ e \in Event /\ LedgerOf(e) \in Nat
      BY <1>3, <1>6, <1>8, DueTyped
    <2>2. Recorded(db, e)
      BY <1>2, <2>1, RangeIsRecorded
    <2> QED
      BY <1>3, <1>7, <2>1, <2>2
  <1>9. Checkpoints'
    <2>1. \A e \in Due : LedgerOf(e) < NextUp(db') \/ e <= db'.event_cursor => LedgerOf(e) <= Final'
      BY <1>2, <1>5, <1>8 DEF Checkpoints
    <2>2. h'.cmd # "reindex" => Reached(db', NextUp(db')) /\ Passed(db', db'.event_cursor)
      BY <1>2, <1>4, <1>5, <1>7, <1>8, DueTyped DEF Checkpoints, Reached, Passed
    <2> QED
      BY <1>2, <1>7, <2>1, <2>2 DEF Checkpoints
  <1>10. \A e \in Indexed : Recorded(db', e) <=> Recorded(db, e)
    BY <1>7, DueTyped
  <1>11. WalkPlace'
    BY <1>2, <1>5, <1>10 DEF WalkPlace, WalkTrue
  <1>12. RunRange'
    BY <1>2, <1>4, <1>8 DEF RunRange
  <1>13. RangeCovered'
    BY <1>2, <1>4, <1>10 DEF RangeCovered
  <1> QED
    BY <1>4, <1>5, <1>9, <1>11, <1>12, <1>13 DEF RunPlace, RunPage

LEMMA DropLiveGaps ==
  ASSUME TablesInv, TablesInv', Orderly, GapInv, DropLiveCursor
  PROVE  RunPlace' /\ Checkpoints' /\ Gains(db, db', {}) /\ h'.cmd = h.cmd
  <1>1. db \in Store /\ RunTyped(h)
    BY MarksTyped
  <1>2. /\ conf' = conf /\ closed' = closed /\ b' = b /\ Final' = Final /\ RunPlace /\ RunRange
        /\ RangeCovered /\ WalkPlace /\ Checkpoints /\ h.at = "unpark"
        /\ h' = [h EXCEPT !.at = "balances"] /\ db' = [db EXCEPT !.event_cursor = 0]
    BY DEF DropLiveCursor, syncState, Final, GapInv, RunPlace
  <1>3. /\ h'.at = "balances" /\ h'.cmd = h.cmd /\ h'.start = h.start /\ h'.end = h.end
    BY <1>1, <1>2 DEF RunTyped
  <1>4. /\ Gains(db, db', {}) /\ db'.event_cursor = 0 /\ db'.next_ledger = db.next_ledger
        /\ db'.walk = db.walk /\ db'.rebuilding = db.rebuilding
    BY <1>1, <1>2, CursorGains
  <1>5. \A e \in Event : Recorded(db', e) <=> Recorded(db, e)
    BY <1>4 DEF Gains
  <1>6. \A e \in Due : e \in Event /\ ~(e <= db'.event_cursor)
    BY <1>4, DueTyped
  <1>7. \A e \in Indexed : Recorded(db', e) <=> Recorded(db, e)
    BY <1>5, DueTyped
  <1>8. NextUp(db') = NextUp(db)
    BY <1>4 DEF NextUp
  <1>9. Checkpoints'
    BY <1>2, <1>3, <1>5, <1>6, <1>8 DEF Checkpoints, Reached, Passed
  <1>10. WalkPlace'
    BY <1>2, <1>4, <1>7 DEF WalkPlace, WalkTrue
  <1>11. RunRange'
    BY <1>2, <1>3, <1>4, <1>8 DEF RunRange
  <1>12. RangeCovered'
    BY <1>2, <1>3, <1>7 DEF RangeCovered
  <1> QED
    BY <1>3, <1>4, <1>9, <1>10, <1>11, <1>12 DEF RunPlace, RunPage

\* A rebuild that ends hands the live indexer checkpoints that are true again.
LEMMA RecomputeGaps ==
  ASSUME TablesInv, TablesInv', Orderly, GapInv, RecomputeBalances
  PROVE  RunPlace' /\ Checkpoints' /\ Gains(db, db', {}) /\ h'.cmd = None
  <1> DEFINE n == ReplayBalances(db)
             v == IF h.cmd = "reindex" THEN FALSE ELSE n.rebuilding
  <1>1. db \in Store /\ RunTyped(h) /\ Sound(db)
    BY MarksTyped DEF TablesInv
  <1>2. /\ conf' = conf /\ closed' = closed /\ b' = b /\ Final' = Final /\ RunPlace /\ RunRange
        /\ RangeCovered /\ WalkPlace /\ Checkpoints /\ h.at = "balances" /\ h' = NoRun
        /\ db' = [n EXCEPT !.rebuilding = v]
    BY DEF RecomputeBalances, syncState, Final, GapInv, RunPlace
  <1>3. Gains(db, n, {}) /\ MarksKept(db, n)
    BY <1>1, ReplayGains
  <1>4. n \in Store
    BY <1>1, RecomputeSound DEF Sound
  <1> HIDE DEF n, v
  <1>5. /\ Gains(n, db', {}) /\ db'.next_ledger = n.next_ledger
        /\ db'.event_cursor = n.event_cursor /\ db'.walk = n.walk
    BY <1>2, <1>4, RebuildingGains
  <1>6. /\ Gains(db, db', {}) /\ db'.next_ledger = db.next_ledger
        /\ db'.event_cursor = db.event_cursor /\ db'.walk = db.walk
    BY <1>3, <1>5 DEF MarksKept, Gains
  <1>7. h'.at = "idle" /\ h'.cmd = None /\ None # "reindex"
    BY <1>2, MarksTyped DEF NoRun
  <1>8. \A e \in Event : Recorded(db', e) <=> Recorded(db, e)
    BY <1>6 DEF Gains
  <1>9. \A e \in Due : e \in Event
    BY DueTyped
  <1>10. \A e \in Indexed : Recorded(db', e) <=> Recorded(db, e)
    BY <1>8, DueTyped
  <1>11. NextUp(db') = NextUp(db)
    BY <1>6 DEF NextUp
  <1>12. Reached(db, NextUp(db)) /\ Passed(db, db.event_cursor)
    <2>1. CASE h.cmd # "reindex"
      BY <1>2, <2>1 DEF Checkpoints
    <2>2. CASE h.cmd = "reindex"
      <3>1. ASSUME NEW e \in Due, LedgerOf(e) < NextUp(db) PROVE Recorded(db, e)
        <4>1. LedgerOf(e) <= h.end
          BY <1>2, <2>2, <3>1 DEF RunRange
        <4> QED
          BY <1>2, <4>1, RangeIsRecorded
      <3>2. db.event_cursor = 0
        BY <1>2, <2>2 DEF RunRange
      <3>3. \A e \in Due : ~(e <= db.event_cursor)
        BY <3>2, DueTyped
      <3> QED
        BY <3>1, <3>3 DEF Reached, Passed
    <2> QED
      BY <2>1, <2>2
  <1>13. Checkpoints'
    BY <1>2, <1>6, <1>8, <1>9, <1>11, <1>12 DEF Checkpoints, Reached, Passed
  <1>14. WalkPlace'
    BY <1>2, <1>6, <1>10 DEF WalkPlace, WalkTrue
  <1>15. RunRange' /\ RunPage' /\ RangeCovered'
    BY <1>7, MarksTyped DEF RunRange, RunPage, RangeCovered
  <1> QED
    BY <1>6, <1>7, <1>13, <1>14, <1>15 DEF RunPlace

LEMMA InterruptGaps ==
  ASSUME TablesInv, TablesInv', Orderly, GapInv, InterruptRun
  PROVE  RunPlace' /\ Gains(db, db', {}) /\ h'.cmd = h.cmd /\ db' = db
  <1>1. /\ conf' = conf /\ closed' = closed /\ b' = b /\ db' = db /\ Final' = Final
        /\ h' = [NoRun EXCEPT !.cmd = h.cmd] /\ RunRange /\ WalkPlace
    BY DEF InterruptRun, syncState, Final, GapInv, RunPlace
  <1>2. h'.at = "idle" /\ h'.cmd = h.cmd
    BY <1>1 DEF NoRun
  <1>3. WalkPlace'
    BY <1>1, <1>2 DEF WalkPlace, WalkTrue, WalkOutdated
  <1>4. RunRange' /\ RunPage' /\ RangeCovered'
    BY <1>1, <1>2 DEF RunRange, RunPage, RangeCovered
  <1> QED
    BY <1>1, <1>2, <1>3, <1>4 DEF RunPlace, Gains

\* One step of a command leaves nothing behind.
LEMMA HistoryGaps ==
  ASSUME TablesInv, TablesInv', Orderly, GapInv, History
  PROVE  GapInv'
  <1>1. CASE h.at = "idle"
    <2>1. PICK c \in conf.commands : MayStart(c) /\ StartRun(c)
      BY <1>1 DEF History
    <2> QED
      BY <2>1, StartRunGaps
  <1>2. CASE h.at # "idle"
    <2>1. \A c \in {"backfill", "reindex"} : ~StartRun(c)
      BY <1>2 DEF StartRun
    <2>2. /\ b' = b /\ seen' = seen /\ conf' = conf /\ closed' = closed
      BY <2>1 DEF History, HistoryNext, BlankCheckpoint, MarkRebuilding, BeginWalk,
                  RequestPage, ReadBalanceBefore, RecordHistoric, StorePage, CompleteWalk,
                  ClearWalkCursor, ReadNextLedger, FinishHistoryRun, DropLiveCursor,
                  RecomputeBalances, InterruptRun, syncState
    <2>3. Checkpoints /\ BatchPlace /\ RunPlace /\ RunPage /\ SyncTyped /\ SyncTyped' /\ closed \in Nat
          /\ RunTyped(h) /\ None # "reindex"
      BY MarksTyped DEF GapInv, RunPlace, TablesInv, SyncTyped
    <2>4. closed' >= closed
      BY <2>2, <2>3
    <2>5. ASSUME RunPlace', Checkpoints', NEW more, Gains(db, db', more), h'.cmd = h.cmd \/ h'.cmd = None
          PROVE  GapInv'
      <3>1. Grows(db, db')
        BY <2>5, GainsGrows
      <3>2. b.at # "idle" => h'.cmd # "reindex"
        BY <2>3, <2>5 DEF BatchPlace
      <3>3. BatchPlace'
        BY <2>2, <2>3, <2>4, <3>1, <3>2, BatchKept
      <3> QED
        BY <2>5, <3>3 DEF GapInv
    <2>6. ASSUME RunPlace', NEW more \in SUBSET Event, Gains(db, db', more), h'.cmd = h.cmd,
                 \A e \in more : LedgerOf(e) <= Final,
                 db'.next_ledger = db.next_ledger, db'.event_cursor = db.event_cursor
          PROVE  GapInv'
      <3>1. Checkpoints'
        BY <2>2, <2>3, <2>4, <2>6, CheckpointsKept
      <3> QED
        BY <2>5, <2>6, <3>1
    <2>7. {} \in SUBSET Event /\ \A e \in {} : LedgerOf(e) <= Final
      OBVIOUS
    <2>8. CASE BlankCheckpoint
      BY <2>6, <2>7, <2>8, BlankGaps
    <2>9. CASE MarkRebuilding
      BY <2>6, <2>7, <2>9, MarkGaps
    <2>10. CASE BeginWalk
      BY <2>6, <2>7, <2>10, BeginWalkGaps
    <2>11. CASE RequestPage
      BY <2>6, <2>7, <2>11, RequestGaps
    <2>12. CASE ReadBalanceBefore
      <3>1. /\ db' = db /\ h.at = "record"
            /\ h' = [h EXCEPT !.before = db.balances[ParseTokenTransferEvent(NextToRecord).token]]
        BY <2>12 DEF ReadBalanceBefore
      <3>2. /\ h'.at = h.at /\ h'.cmd = h.cmd /\ h'.start = h.start /\ h'.end = h.end
            /\ h'.cursor = h.cursor /\ h'.todo = h.todo /\ h'.full = h.full /\ h'.last = h.last
        BY <2>3, <3>1 DEF RunTyped
      <3>3. WalkPlace' /\ RunRange' /\ Gains(db, db', {})
        BY <2>2, <3>1, <3>2, RunMoves
      <3>4. RunPage' /\ RangeCovered'
        BY <2>3, <3>1, <3>2 DEF RunPage, RangeCovered
      <3>5. RunPlace'
        BY <3>3, <3>4 DEF RunPlace
      <3> QED
        BY <2>6, <2>7, <3>1, <3>2, <3>3, <3>5
    <2>13. CASE RecordHistoric
      <3>1. /\ RunPlace' /\ h'.cmd = h.cmd /\ MarksKept(db, db')
            /\ \E more \in SUBSET Event : /\ Gains(db, db', more)
                                          /\ \A e \in more : LedgerOf(e) <= Final
        BY <2>13, RecordGaps
      <3>2. PICK more \in SUBSET Event : /\ Gains(db, db', more)
                                         /\ \A e \in more : LedgerOf(e) <= Final
        BY <3>1
      <3> QED
        BY <2>6, <3>1, <3>2 DEF MarksKept
    <2>14. CASE StorePage
      BY <2>6, <2>7, <2>14, StorePageGaps
    <2>15. CASE CompleteWalk
      BY <2>6, <2>7, <2>15, CompleteGaps
    <2>16. CASE ClearWalkCursor
      BY <2>6, <2>7, <2>16, ClearWalkGaps
    <2>17. CASE ReadNextLedger
      <3>1. /\ db' = db /\ h.at = "handover"
            /\ h' = [h EXCEPT !.at = "finish", !.last = Or(db.next_ledger, 0)]
        BY <2>17 DEF ReadNextLedger
      <3>2. /\ h'.at = "finish" /\ h'.cmd = h.cmd /\ h'.start = h.start /\ h'.end = h.end
        BY <2>3, <3>1 DEF RunTyped
      <3>3. WalkPlace' /\ RunRange' /\ Gains(db, db', {})
        BY <2>2, <3>1, <3>2, RunMoves
      <3>4. RunPage' /\ RangeCovered'
        BY <2>3, <3>1, <3>2 DEF RunPlace, RunPage, RangeCovered
      <3>5. RunPlace'
        BY <3>3, <3>4 DEF RunPlace
      <3> QED
        BY <2>6, <2>7, <3>1, <3>2, <3>3, <3>5
    <2>18. CASE FinishHistoryRun
      BY <2>5, <2>18, FinishRunGaps
    <2>19. CASE DropLiveCursor
      BY <2>5, <2>19, DropLiveGaps
    <2>20. CASE RecomputeBalances
      BY <2>5, <2>20, RecomputeGaps
    <2>21. CASE InterruptRun
      BY <2>6, <2>7, <2>21, InterruptGaps
    <2> QED
      BY <2>1, <2>8, <2>9, <2>10, <2>11, <2>12, <2>13, <2>14, <2>15, <2>16, <2>17, <2>18, <2>19,
         <2>20, <2>21 DEF History, HistoryNext
  <1> QED
    BY <1>1, <1>2

-----------------------------------------------------------------------------
(* The other steps, and the theorems *)

\* A step that leaves the tables and the checkpoints leaves what they promise; a batch
\* goes on, or is lost.
LEMMA RestGaps ==
  ASSUME TablesInv, TablesInv', GapInv, conf' = conf, closed' >= closed, seen' = seen, h' = h,
         b' = b \/ b' = Idle, TablesKept(db, db'), MarksKept(db, db')
  PROVE  GapInv'
  <1>1. /\ Checkpoints /\ BatchPlace /\ RunPlace /\ SyncTyped /\ SyncTyped'
        /\ db'.next_ledger = db.next_ledger /\ db'.event_cursor = db.event_cursor
        /\ db'.walk = db.walk /\ db'.rebuilding = db.rebuilding
    BY DEF GapInv, TablesInv, MarksKept
  <1>2. Gains(db, db', {}) /\ Grows(db, db') /\ \A e \in {} : LedgerOf(e) <= Final
    BY KeptIsRecorded, GainsGrows
  <1>3. h'.cmd = "reindex" \/ h.cmd # "reindex"
    OBVIOUS
  <1>4. Checkpoints'
    BY <1>1, <1>2, <1>3, CheckpointsKept
  <1>5. BatchPlace'
    <2>1. CASE b' = b
      <3>1. b.at # "idle" => h'.cmd # "reindex"
        BY <1>1 DEF BatchPlace
      <3> QED
        BY <1>1, <1>2, <2>1, <3>1, BatchKept
    <2>2. CASE b' = Idle
      BY <1>1, <2>2, BatchEnded
    <2> QED
      BY <2>1, <2>2
  <1>6. RunPlace'
    BY <1>1, <1>2, RunKept
  <1> QED
    BY <1>4, <1>5, <1>6 DEF GapInv

LEMMA GapStarts == Init => GapInv
  <1> SUFFICES ASSUME Init PROVE GapInv
    OBVIOUS
  <1>1. /\ conf \in Deployment /\ db = [EmptyStore EXCEPT !.backend = conf.backend]
        /\ closed = 1 /\ seen = 0 /\ b = Idle /\ h = NoRun
    BY DEF Init, SyncInit, HistoryInit
  <1>2. TablesInv /\ SyncTyped
    BY IndexerStarts DEF IndexerInv, TablesInv
  <1>3. /\ db.entries = {} /\ db.events = {} /\ db.next_ledger = None /\ db.event_cursor = 0
        /\ db.walk = [c \in {"backfill", "reindex"} |-> NoWalk] /\ db.rebuilding = FALSE
    BY <1>1 DEF EmptyStore
  <1>4. StartLedger \in Nat \ {0} /\ MaxLedger \in Nat /\ None \notin {"backfill", "reindex"}
        /\ conf.commands \in SUBSET {"backfill", "reindex"}
    BY <1>1, SyncAssumption, HistoryAssumption, DeploymentOf
  <1>5. NextUp(db) = StartLedger
    BY <1>3 DEF NextUp, Or
  <1>6. \A e \in Due : e \in Nat /\ ~(e <= 0) /\ LedgerOf(e) \in Nat /\ ~(LedgerOf(e) < StartLedger)
    BY <1>4, DueTyped
  <1>7. \A e : ~Recorded(db, e)
    BY <1>3 DEF Recorded, Has
  <1>8. Checkpoints
    BY <1>3, <1>5, <1>6, <1>7 DEF Checkpoints, Reached, Passed
  <1>9. BatchPlace
    BY <1>1, <1>4 DEF BatchPlace, Idle
  <1>10. /\ h.at = "idle" /\ h.cmd = None
    BY <1>1 DEF NoRun
  <1>11. \A e \in Indexed : e \in Nat /\ ~(e <= 0)
    BY DueTyped
  <1>12. WalkPlace
    <2>1. \A c \in conf.commands :
            db.walk[c].from = None /\ db.walk[c].to = None /\ db.walk[c].cursor = 0
      BY <1>3, <1>4 DEF NoWalk
    <2> QED
      BY <1>11, <2>1 DEF WalkPlace, WalkTrue
  <1>13. RunRange /\ RunPage /\ RangeCovered
    BY <1>4, <1>10 DEF RunRange, RunPage, RangeCovered
  <1> QED
    BY <1>8, <1>9, <1>12, <1>13 DEF GapInv, RunPlace

LEMMA GapStep ==
  IndexerInv /\ IndexerInv' /\ Orderly /\ FullPagesFinal /\ GapInv /\ [Next]_vars => GapInv'
  <1> SUFFICES ASSUME IndexerInv, IndexerInv', Orderly, FullPagesFinal, GapInv, [Next]_vars
               PROVE  GapInv'
    OBVIOUS
  <1>1. TablesInv /\ TablesInv' /\ OutboxInv /\ SyncTyped /\ closed \in Nat /\ Sound(db)
    BY DEF IndexerInv, TablesInv, SyncTyped
  <1>2. TablesKept(db, db) /\ MarksKept(db, db) /\ closed >= closed /\ closed + 1 >= closed
    BY <1>1 DEF TablesKept, MarksKept
  <1>3. ASSUME OutboxStep(db, db'), conf' = conf, closed' = closed, seen' = seen, b' = b, h' = h
        PROVE  GapInv'
    BY <1>1, <1>2, <1>3, RestGaps DEF OutboxStep
  <1>4. CASE Batch
    BY <1>1, <1>4, BatchGaps
  <1>5. CASE History
    BY <1>1, <1>5, HistoryGaps
  <1>6. CASE Enqueue
    <2>1. OutboxStep(db, db')
      BY <1>1, <1>6, EnqueueStepOK DEF Enqueue
    <2>2. conf' = conf /\ closed' = closed /\ seen' = seen /\ b' = b /\ h' = h
      BY <1>6 DEF Enqueue, EnqueueStep, StartTick, ClaimDue, StartCursor, EnqueueNew,
                  syncVars, walkVars
    <2> QED
      BY <1>3, <2>1, <2>2
  <1>7. CASE Deliver
    <2>1. OutboxStep(db, db')
      BY <1>1, <1>7, SendStepOK DEF Deliver
    <2>2. conf' = conf /\ closed' = closed /\ seen' = seen /\ b' = b /\ h' = h
      BY <1>7 DEF Deliver, SendStep, FinishTick, Unconfigured, Send, RecordAttempt,
                  syncVars, walkVars
    <2> QED
      BY <1>3, <2>1, <2>2
  <1>8. CASE Backoff \/ (OutboxEnvironment /\ UNCHANGED <<syncVars, walkVars>>)
    <2>1. OutboxStep(db, db') /\ conf' = conf
      BY <1>1, <1>8, OthersOK DEF Backoff
    <2>2. closed' = closed /\ seen' = seen /\ b' = b /\ h' = h
      BY <1>8 DEF Backoff, syncVars, walkVars
    <2> QED
      BY <1>3, <2>1, <2>2
  <1>9. ASSUME db' = db, conf' = conf, closed' = closed \/ closed' = closed + 1, seen' = seen,
               h' = h, b' = b \/ b' = Idle
        PROVE  GapInv'
    BY <1>1, <1>2, <1>9, RestGaps
  <1>10. CASE Restart
    BY <1>9, <1>10 DEF Restart, walkVars
  <1>11. CASE (CloseLedger \/ FailBatch) /\ UNCHANGED <<outboxVars, walkVars>>
    BY <1>9, <1>11 DEF CloseLedger, FailBatch, outboxVars, walkVars
  <1>12. CASE UNCHANGED vars
    BY <1>9, <1>12 DEF vars, syncVars, outboxVars, walkVars
  <1> QED
    BY <1>4, <1>5, <1>6, <1>7, <1>8, <1>10, <1>11, <1>12 DEF Next

\* The deployment never changes.
LEMMA ConfStays == [Next]_vars => conf' = conf
  BY DEF Next, vars, syncVars, outboxVars, walkVars, Batch, BatchStep, StartBatch, FetchPage, Rewind,
         ClearCursorAfterRewind, HoldBack, ReadBalance, IngestEvent, NextPage, ReachTip, DropCursor,
         FinishBatch, Enqueue, EnqueueStep, StartTick, ClaimDue, StartCursor, EnqueueNew, Deliver,
         SendStep, FinishTick, Unconfigured, Send, RecordAttempt, Backoff, BackoffElapses, Restart,
         History, HistoryNext, StartRun, BlankCheckpoint, MarkRebuilding, BeginWalk, RequestPage,
         ReadBalanceBefore, RecordHistoric, StorePage, CompleteWalk, ClearWalkCursor, ReadNextLedger,
         FinishHistoryRun, DropLiveCursor, RecomputeBalances, InterruptRun, syncState, CloseLedger,
         FailBatch, OutboxEnvironment, Requeue, EditDestination

\* True checkpoints are what the two properties say.
LEMMA GapsClosed ==
  ASSUME TablesInv, GapInv
  PROVE  NothingDropped /\ WalkCovers
  <1>1. ASSUME h.cmd # "reindex", NEW e \in Indexed, StartLedger <= LedgerOf(e), BehindCheckpoint(e)
        PROVE  Recorded(db, e)
    <2>1. e \in Due
      BY <1>1, DueTyped DEF Due
    <2>2. Reached(db, NextUp(db)) /\ Passed(db, db.event_cursor)
      BY <1>1 DEF GapInv, Checkpoints
    <2>3. e <= db.event_cursor \/ LedgerOf(e) < NextUp(db)
      BY <1>1 DEF BehindCheckpoint, NextUp
    <2> QED
      BY <2>1, <2>2, <2>3 DEF Reached, Passed
  <1> QED
    BY <1>1 DEF NothingDropped, WalkCovers, GapInv, RunPlace

\* As long as every full page ends among the final ledgers, an orderly indexer never goes
\* past an event it has not recorded, and no command completes over a gap.
THEOREM NoEventLeftBehind ==
  Spec /\ []FullPagesFinal => [](Orderly => NothingDropped /\ WalkCovers)
  <1>1. Init => (Orderly => GapInv)
    BY GapStarts
  <1>2. IndexerInv /\ IndexerInv' /\ FullPagesFinal /\ (Orderly => GapInv) /\ [Next]_vars
        => (Orderly => GapInv)'
    BY GapStep, ConfStays DEF Orderly
  <1>3. IndexerInv /\ (Orderly => GapInv) => (Orderly => NothingDropped /\ WalkCovers)
    BY GapsClosed DEF IndexerInv
  <1> QED
    BY <1>1, <1>2, <1>3, IndexerInvariant, PTL DEF Spec

\* Settings under which no full page can reach past the final ledger: every closed ledger
\* is final, or a page has room for all the events there are.
WholePages == conf.lag = 0 \/ conf.pageLimit > Len(Chain)

\* A full page is one of that many events.
PageInv == b.at = "ingest" /\ b.full => conf.pageLimit <= Len(Chain)

LEMMA PageStep == IndexerInv /\ PageInv /\ [Next]_vars => PageInv'
  <1> SUFFICES ASSUME IndexerInv, PageInv, [Next]_vars PROVE PageInv'
    OBVIOUS
  <1>0. conf' = conf
    BY ConfStays
  <1>1. BatchTyped(b) /\ conf' = conf
    BY <1>0 DEF IndexerInv, TablesInv, SyncTyped
  <1>2. ASSUME b' = b \/ b'.at # "ingest" \/ (b'.at = b.at /\ b'.full = b.full) PROVE PageInv'
    BY <1>1, <1>2 DEF PageInv
  <1>3. CASE FetchPage
    <2>1. PICK head \in 1..MaxLedger :
            LET page   == GetEvents(b.cursor, b.nextLedger, head, conf.pageLimit)
                latest == Max2(b.latestSeen, head)
                reorg  == ~b.reorgChecked /\ DetectReorg(b.previousLatest, head)
            IN  b' = IF reorg
                     THEN [b EXCEPT !.at = "rewind", !.reorgChecked = TRUE,
                                    !.previousLatest = head, !.latestSeen = head]
                     ELSE [b EXCEPT !.at = "ingest", !.reorgChecked = TRUE,
                                    !.previousLatest = IF b.reorgChecked THEN @ ELSE head,
                                    !.latestSeen = latest, !.todo = page,
                                    !.full = Cardinality(page) = conf.pageLimit,
                                    !.last = Max(page \union {0})]
      BY <1>3 DEF FetchPage
    <2> DEFINE page == GetEvents(b.cursor, b.nextLedger, head, conf.pageLimit)
    <2>2. b'.at = "ingest" /\ b'.full => Cardinality(page) = conf.pageLimit
      BY <1>1, <2>1 DEF BatchTyped
    <2>3. page \in SUBSET Event
      BY PageTyped
    <2> HIDE DEF page
    <2>4. Cardinality(page) <= Cardinality(Event)
      BY <2>3, FS_Subset, EventNumbers
    <2>5. Cardinality(Event) = Len(Chain)
      <3>1. Len(Chain) \in Nat /\ Event = 1..Len(Chain)
        BY EventNumbers
      <3> DEFINE n == Len(Chain)
      <3>2. n \in Nat
        BY <3>1
      <3> HIDE DEF n
      <3>3. Cardinality(1..n) = IF 1 > n THEN 0 ELSE n - 1 + 1
        BY <3>2, FS_Interval
      <3>4. Cardinality(1..n) = n
        BY <3>2, <3>3
      <3> QED
        BY <3>1, <3>4 DEF n
    <2>6. ASSUME b'.at = "ingest" /\ b'.full PROVE conf'.pageLimit <= Len(Chain)
      <3>1. Cardinality(page) = conf.pageLimit
        BY <2>2, <2>6
      <3> QED
        BY <1>0, <2>4, <2>5, <3>1
    <2> QED
      BY <2>6 DEF PageInv
  <1>4. CASE Batch /\ ~FetchPage
    <2>1. CASE StartBatch \/ Rewind \/ ClearCursorAfterRewind \/ NextPage \/ ReachTip \/ DropCursor
               \/ FinishBatch
      <3>1. CASE StartBatch
        <4>1. b'.at = "request"
          BY <3>1 DEF StartBatch, Idle
        <4> QED
          BY <1>2, <4>1
      <3>2. CASE Rewind \/ ClearCursorAfterRewind \/ ReachTip \/ DropCursor
        <4>1. b'.at \in {"unpark", "request", "tip", "finish"}
          BY <1>1, <3>2 DEF Rewind, ClearCursorAfterRewind, ReachTip, DropCursor, BatchTyped
        <4> QED
          BY <1>2, <4>1
      <3>3. CASE NextPage
        <4>1. b'.at = IF b.pages + 1 < conf.maxPages THEN "request" ELSE "finish"
          BY <1>1, <3>3 DEF NextPage, BatchTyped
        <4> QED
          BY <1>2, <4>1
      <3>4. CASE FinishBatch
        <4>1. b'.at = "idle"
          BY <3>4 DEF FinishBatch, Idle
        <4> QED
          BY <1>2, <4>1
      <3> QED
        BY <2>1, <3>1, <3>2, <3>3, <3>4
    <2>2. CASE HoldBack \/ ReadBalance \/ IngestEvent
      <3>1. b'.at = b.at /\ b'.full = b.full
        BY <1>1, <2>2 DEF HoldBack, ReadBalance, IngestEvent, BatchTyped
      <3> QED
        BY <1>2, <3>1
    <2> QED
      BY <1>4, <2>1, <2>2 DEF Batch, BatchStep
  <1>5. CASE ~Batch
    <2>1. b' = b \/ b' = Idle
      BY <1>5 DEF Next, vars, syncVars, walkVars, Enqueue, Deliver, Backoff, Restart, History,
                  HistoryNext, StartRun, BlankCheckpoint, MarkRebuilding, BeginWalk, RequestPage,
                  ReadBalanceBefore, RecordHistoric, StorePage, CompleteWalk, ClearWalkCursor,
                  ReadNextLedger, FinishHistoryRun, DropLiveCursor, RecomputeBalances, InterruptRun,
                  syncState, CloseLedger, FailBatch
    <2> QED
      BY <1>2, <2>1 DEF Idle
  <1> QED
    BY <1>3, <1>4, <1>5

LEMMA WholePagesFinal ==
  IndexerInv /\ PageInv /\ GapInv /\ Orderly /\ WholePages => FullPagesFinal
  <1> SUFFICES ASSUME IndexerInv, PageInv, GapInv, Orderly, WholePages, b.at = "ingest", b.full
               PROVE  LedgerOf(b.last) <= FinalLedgerFor(b.latestSeen, conf.lag)
    BY DEF FullPagesFinal
  <1>1. conf.pageLimit \in Nat /\ Len(Chain) \in Nat
    BY DeploymentOf, EventNumbers DEF IndexerInv, TablesInv, SyncTyped
  <1>2. conf.lag = 0
    <2>1. conf.pageLimit <= Len(Chain)
      BY DEF PageInv
    <2> QED
      BY <1>1, <2>1 DEF WholePages
  <1>3. b.last \in Event /\ LedgerOf(b.last) <= b.latestSeen
    BY DEF GapInv, BatchPlace, BatchPage
  <1>4. b.latestSeen \in Nat
    BY DEF IndexerInv, TablesInv, SyncTyped, BatchTyped
  <1> QED
    BY <1>2, <1>3, <1>4 DEF FinalLedgerFor, Max2

\* With such settings an orderly indexer never goes past an event it has not recorded, and
\* no command completes over a gap.
THEOREM NoEventLeftBehindByWholePages ==
  Spec => [](Orderly /\ WholePages => NothingDropped /\ WalkCovers)
  <1> DEFINE Whole == Orderly /\ WholePages
             Inv == PageInv /\ (Whole => GapInv)
  <1>1. Init => Inv
    <2>1. Init => b.at = "idle"
      BY DEF Init, SyncInit, Idle
    <2> QED
      BY <2>1, GapStarts DEF PageInv
  <1>2. IndexerInv /\ Inv => (Whole => FullPagesFinal)
    BY WholePagesFinal
  <1>3. IndexerInv /\ IndexerInv' /\ Inv /\ [Next]_vars => Inv'
    <2>1. [Next]_vars => (Whole' => Whole)
      BY ConfStays DEF Orderly, WholePages
    <2> QED
      BY <1>2, <2>1, GapStep, PageStep
  <1>4. IndexerInv /\ Inv => (Whole => NothingDropped /\ WalkCovers)
    BY GapsClosed DEF IndexerInv
  <1> QED
    BY <1>1, <1>3, <1>4, IndexerInvariant, PTL DEF Spec

-----------------------------------------------------------------------------
(* The cached balances *)

TokenOf(e)     == ParseTokenTransferEvent(e).token
EventsIn(rows) == {r.ev : r \in rows}

\* What a set of transfers has brought in and taken out.
Gain      == [e \in Transfers |-> LET x == ParseTokenTransferEvent(e).delta IN IF x > 0 THEN x ELSE 0]
Loss      == [e \in Transfers |-> LET x == ParseTokenTransferEvent(e).delta IN IF x < 0 THEN -x ELSE 0]
SumOf(E)  == Total(Gain, E) - Total(Loss, E)

\* The cached balances are the sums of the stored transfers, and so is the running balance
\* of every row; rows are numbered upwards.
CacheTrue(d) == \A tk \in Token : d.balances[tk] = SumDeltas(OfToken(d.entries, tk))
RowsFold(d)  == \A r \in d.entries :
                  r.balance = SumDeltas(UpTo(OfToken(d.entries, TokenOf(r.ev)), r))
IdsBelow(d)  == \A r \in d.entries : r.id < NextId(d, "entries")

LEMMA GainTyped ==
  /\ Gain \in [Transfers -> Nat] /\ Loss \in [Transfers -> Nat]
  /\ \A e \in Transfers : Gain[e] - Loss[e] = ParseTokenTransferEvent(e).delta
  <1>1. \A e \in Transfers : ParseTokenTransferEvent(e).delta \in Int
    BY TransferShape
  <1>2. ASSUME NEW e \in Transfers
        PROVE  /\ Gain[e] \in Nat /\ Loss[e] \in Nat
               /\ Gain[e] - Loss[e] = ParseTokenTransferEvent(e).delta
    BY <1>1 DEF Gain, Loss
  <1> QED
    BY <1>2 DEF Gain, Loss

LEMMA TotalOne ==
  ASSUME NEW D, NEW f \in [D -> Nat], NEW x \in D
  PROVE  Total(f, {x}) = f[x]
  <1>1. {} \in SUBSET D /\ IsFiniteSet({}) /\ x \notin {} /\ {} \union {x} = {x}
    BY FS_EmptySet
  <1>2. Total(f, {} \union {x}) = Total(f, {}) + f[x]
    BY <1>1, TotalAdd
  <1>3. Total(f, {}) = 0
    BY TotalEmpty
  <1>4. f[x] \in Nat
    OBVIOUS
  <1> QED
    BY <1>1, <1>2, <1>3, <1>4

\* A new transfer adds what it moves.
LEMMA SumOfAdd ==
  ASSUME NEW E \in SUBSET Transfers, IsFiniteSet(E)
  PROVE  /\ SumOf(E) \in Int
         /\ \A e \in Transfers : e \notin E =>
              SumOf(E \union {e}) = SumOf(E) + ParseTokenTransferEvent(e).delta
  <1>1. Total(Gain, E) \in Nat /\ Total(Loss, E) \in Nat
    BY GainTyped, UnitsFinite
  <1>2. ASSUME NEW e \in Transfers, e \notin E
        PROVE  SumOf(E \union {e}) = SumOf(E) + ParseTokenTransferEvent(e).delta
    <2>1. Total(Gain, E \union {e}) = Total(Gain, E) + Gain[e]
      BY <1>2, GainTyped, TotalAdd
    <2>2. Total(Loss, E \union {e}) = Total(Loss, E) + Loss[e]
      BY <1>2, GainTyped, TotalAdd
    <2>3. Gain[e] \in Nat /\ Loss[e] \in Nat /\ Gain[e] - Loss[e] = ParseTokenTransferEvent(e).delta
      BY GainTyped
    <2> QED
      BY <1>1, <2>1, <2>2, <2>3 DEF SumOf
  <1> QED
    BY <1>1, <1>2 DEF SumOf

\* A sum over one representative of each group.
LEMMA OneOfEach ==
  ASSUME NEW R, IsFiniteSet(R), NEW w \in [R -> Nat], NEW K, IsFiniteSet(K), NEW key \in [R -> K],
         NEW f, \A k \in K : \E r \in R : /\ key[r] = k /\ f[k] = w[r]
                                          /\ \A q \in R : key[q] = k => q = r
  PROVE  Total(f, K) = Total(w, R)
  <1>1. ASSUME NEW k \in K
        PROVE  f[k] = Total(w, {x \in R : key[x] = k})
    <2>1. PICK r \in R : key[r] = k /\ f[k] = w[r] /\ \A q \in R : key[q] = k => q = r
      OBVIOUS
    <2>2. {x \in R : key[x] = k} = {r}
      BY <2>1
    <2> QED
      BY <2>1, <2>2, TotalOne
  <1>2. \A k \in K : f[k] = Total(w, {x \in R : key[x] = k})
    BY <1>1
  <1> QED
    BY <1>2, Regrouped, SMTT(60)

\* A sum over rows depends on their events only.
LEMMA SumByEvents ==
  ASSUME NEW rows \in SUBSET EntryRow, IsFiniteSet(rows), OnePerEvent(rows)
  PROVE  /\ SumDeltas(rows) = SumOf(EventsIn(rows))
         /\ EventsIn(rows) \in SUBSET Transfers /\ IsFiniteSet(EventsIn(rows))
  <1> DEFINE in  == [r \in rows |-> IF DeltaOf(r) > 0 THEN DeltaOf(r) ELSE 0]
             out == [r \in rows |-> IF DeltaOf(r) < 0 THEN -DeltaOf(r) ELSE 0]
             key == [r \in rows |-> r.ev]
             K   == EventsIn(rows)
  <1>1. \A r \in rows : r.ev \in Transfers /\ DeltaOf(r) = ParseTokenTransferEvent(r.ev).delta
                        /\ DeltaOf(r) \in Int
    BY TransferShape DEF EntryRow, DeltaOf
  <1>2. in \in [rows -> Nat] /\ out \in [rows -> Nat] /\ key \in [rows -> K]
    BY <1>1 DEF EventsIn
  <1>3. K \in SUBSET Transfers
    BY <1>1 DEF EventsIn
  <1>4. IsFiniteSet(K)
    <2>1. DOMAIN key = rows /\ K = {key[r] : r \in rows}
      BY DEF EventsIn
    <2> HIDE DEF key, K
    <2> QED
      BY <2>1, FiniteImage
  <1>5. \A r \in rows : /\ in[r] = Gain[r.ev] /\ out[r] = Loss[r.ev] /\ key[r] = r.ev
    BY <1>1 DEF Gain, Loss
  <1>6. \A k \in K : \E r \in rows : r.ev = k
    BY DEF EventsIn
  <1>7. SumDeltas(rows) = Total(in, rows) - Total(out, rows)
    BY DEF SumDeltas
  <1> HIDE DEF in, out, key, K
  <1>8. ASSUME NEW k \in K
        PROVE  \E r \in rows : /\ key[r] = k /\ Gain[k] = in[r] /\ Loss[k] = out[r]
                               /\ \A q \in rows : key[q] = k => q = r
    <2>1. PICK r \in rows : r.ev = k
      BY <1>6
    <2> QED
      BY <1>5, <2>1 DEF OnePerEvent
  <1>9. Total(Gain, K) = Total(in, rows)
    BY <1>2, <1>4, <1>8, OneOfEach
  <1>10. Total(Loss, K) = Total(out, rows)
    BY <1>2, <1>4, <1>8, OneOfEach
  <1> QED
    BY <1>3, <1>4, <1>7, <1>9, <1>10 DEF SumOf, K

LEMMA SameEventsSameSum ==
  ASSUME NEW S \in SUBSET EntryRow, IsFiniteSet(S), OnePerEvent(S),
         NEW T \in SUBSET EntryRow, IsFiniteSet(T), OnePerEvent(T), EventsIn(S) = EventsIn(T)
  PROVE  SumDeltas(S) = SumDeltas(T)
  BY SumByEvents

LEMMA PartSums ==
  ASSUME NEW d, Sound(d), NEW S \in SUBSET d.entries
  PROVE  S \in SUBSET EntryRow /\ IsFiniteSet(S) /\ OnePerEvent(S) /\ SumDeltas(S) \in Int
  <1>1. d.entries \in SUBSET EntryRow /\ IsFiniteSet(d.entries) /\ OnePerEvent(d.entries)
    BY DEF Sound, Store
  <1>2. S \in SUBSET EntryRow /\ IsFiniteSet(S) /\ OnePerEvent(S)
    BY <1>1, FS_Subset DEF OnePerEvent
  <1> QED
    BY <1>2, DeltasTyped

\* Rows of SQLite are always below the next id; those of Postgres are as long as the sequence
\* is at or above them.
LEMMA NextEntryId ==
  ASSUME NEW d, Sound(d)
  PROVE  /\ NextId(d, "entries") = IF d.backend = "sqlite" THEN HighestId(d.entries) + 1
                                   ELSE d.issued.entries + 1
         /\ NextId(d, "entries") \in Nat
         /\ d.backend = "sqlite" => IdsBelow(d)
         /\ \A r \in d.entries : r.id \in Nat
  <1>1. d \in Store /\ IsFiniteSet(d.entries)
    BY DEF Sound
  <1>2. \A r \in d.entries : r.id \in Nat
    BY <1>1 DEF Store, EntryRow
  <1>3. HighestId(d.entries) \in Nat /\ \A r \in d.entries : r.id <= HighestId(d.entries)
    BY <1>1, <1>2, HighestOf
  <1>4. d["entries"] = d.entries /\ d.issued["entries"] = d.issued.entries
    OBVIOUS
  <1>5. NextId(d, "entries") = IF d.backend = "sqlite" THEN HighestId(d.entries) + 1
                               ELSE d.issued.entries + 1
    BY <1>4 DEF NextId
  <1>6. d.backend = "sqlite" => IdsBelow(d)
    BY <1>2, <1>3, <1>5 DEF IdsBelow
  <1> QED
    BY <1>1, <1>2, <1>5, <1>6, NextEntryIdTyped

\* The protocol's table holds no transfer.
EventsApart(d) == \A r \in d.events : ~IsTransfer(r.ev)

LEMMA SumOfNone == SumDeltas({}) = 0
  BY TotalEmpty DEF SumDeltas

LEMMA AddRow ==
  ASSUME NEW rows \in SUBSET EntryRow, IsFiniteSet(rows), OnePerEvent(rows),
         NEW r \in EntryRow, \A q \in rows : q.ev # r.ev
  PROVE  SumDeltas(rows \union {r}) = SumDeltas(rows) + DeltaOf(r)
  <1> DEFINE more == rows \union {r}
  <1>1. more \in SUBSET EntryRow /\ IsFiniteSet(more) /\ OnePerEvent(more)
    BY FS_AddElement DEF OnePerEvent
  <1>2. EventsIn(more) = EventsIn(rows) \union {r.ev} /\ r.ev \notin EventsIn(rows)
        /\ r.ev \in Transfers
    BY DEF EventsIn, EntryRow
  <1> HIDE DEF more
  <1>3. SumDeltas(more) = SumOf(EventsIn(more)) /\ SumDeltas(rows) = SumOf(EventsIn(rows))
        /\ EventsIn(rows) \in SUBSET Transfers /\ IsFiniteSet(EventsIn(rows))
    BY <1>1, SumByEvents
  <1>4. SumOf(EventsIn(rows) \union {r.ev})
          = SumOf(EventsIn(rows)) + ParseTokenTransferEvent(r.ev).delta
    BY <1>2, <1>3, SumOfAdd
  <1> QED
    BY <1>2, <1>3, <1>4 DEF DeltaOf, more

\* What leaves the table of transfers and the cache leaves their agreement.
LEMMA KeptFolds ==
  ASSUME NEW d, NEW n, n.entries = d.entries, n.balances = d.balances,
         n.issued.entries = d.issued.entries, n.backend = d.backend
  PROVE  /\ CacheTrue(d) => CacheTrue(n)
         /\ RowsFold(d) => RowsFold(n)
         /\ IdsBelow(d) => IdsBelow(n)
  <1>1. NextId(n, "entries") = NextId(d, "entries")
    BY DEF NextId
  <1> QED
    BY <1>1 DEF CacheTrue, RowsFold, IdsBelow

\* A transfer that is recorded with the balance before it moves the cached balance by what
\* it moves; if no later transfer is stored, its own balance is right and no other changes.
LEMMA TransferFolds ==
  ASSUME NEW d, Sound(d), CacheTrue(d), IdsBelow(d), NEW e \in Transfers, ~Has(d.entries, e)
  PROVE  LET n == RecordTransfer(d, e, d.balances[TokenOf(e)])
         IN  /\ CacheTrue(n) /\ IdsBelow(n) /\ n.events = d.events
             /\ RowsFold(d) /\ (\A q \in d.entries : LedgerOf(q.ev) <= LedgerOf(e)) => RowsFold(n)
  <1> DEFINE x   == ParseTokenTransferEvent(e)
             tk  == TokenOf(e)
             id  == NextId(d, "entries")
             new == d.balances[tk] + x.delta
             row == [id |-> id, ev |-> e, balance |-> new]
             n   == RecordTransfer(d, e, d.balances[tk])
             own == OfToken(d.entries, tk)
  <1>1. /\ d \in Store /\ d.entries \in SUBSET EntryRow /\ d.balances \in [Token -> Int]
        /\ d.issued \in [entries : Nat, events : Nat] /\ d.backend \in {"sqlite", "postgres"}
    BY DEF Sound, Store
  <1>2. x.token = tk /\ tk \in Token /\ x.delta \in Int /\ d.balances[tk] \in Int /\ new \in Int
    BY <1>1, TransferShape DEF TokenOf
  <1>3. /\ id \in Nat /\ \A r \in d.entries : r.id \in Nat /\ r.id < id
    BY NextEntryId DEF IdsBelow
  <1>4. row \in EntryRow /\ row.id = id /\ row.ev = e /\ row.balance = new /\ DeltaOf(row) = x.delta
        /\ TokenOf(row.ev) = tk
    BY <1>2, <1>3 DEF EntryRow, DeltaOf
  <1>5. /\ n.entries = d.entries \union {row} /\ n.balances = [d.balances EXCEPT ![tk] = new]
        /\ n.issued.entries = id /\ n.events = d.events /\ n.backend = d.backend
    BY <1>1, <1>2 DEF RecordTransfer, Store
  <1>6. Sound(n)
    BY <1>2, RecordTransferSound
  <1> HIDE DEF row, n, id, new
  <1>7. \A r \in d.entries : r.ev # e /\ r.ev \in Transfers
    BY <1>1 DEF Has, EntryRow
  <1>8. CacheTrue(n)
    <2>1. ASSUME NEW k \in Token, k # tk PROVE n.balances[k] = SumDeltas(OfToken(n.entries, k))
      <3>1. OfToken(n.entries, k) = OfToken(d.entries, k)
        BY <1>4, <1>5, <2>1 DEF OfToken, TokenOf
      <3> QED
        BY <1>1, <1>5, <2>1, <3>1 DEF CacheTrue
    <2>2. n.balances[tk] = SumDeltas(OfToken(n.entries, tk))
      <3>1. OfToken(n.entries, tk) = own \union {row}
        BY <1>4, <1>5 DEF OfToken, TokenOf
      <3>2. own \in SUBSET EntryRow /\ IsFiniteSet(own) /\ OnePerEvent(own)
        BY PartSums DEF OfToken
      <3>3. \A q \in own : q.ev # row.ev
        BY <1>4, <1>7 DEF OfToken
      <3>4. SumDeltas(own \union {row}) = SumDeltas(own) + DeltaOf(row)
        BY <1>4, <3>2, <3>3, AddRow
      <3>5. SumDeltas(own) = d.balances[tk]
        BY <1>2 DEF CacheTrue
      <3> QED
        BY <1>1, <1>2, <1>4, <1>5, <3>1, <3>4, <3>5 DEF new
    <2> QED
      BY <2>1, <2>2 DEF CacheTrue
  <1>9. IdsBelow(n)
    <2>1. CASE d.backend = "sqlite"
      BY <1>5, <1>6, <2>1, NextEntryId
    <2>2. CASE d.backend # "sqlite"
      <3>1. NextId(n, "entries") = id + 1
        BY <1>5, <1>6, <2>2, NextEntryId
      <3> QED
        BY <1>3, <1>4, <1>5, <3>1 DEF IdsBelow
    <2> QED
      BY <2>1, <2>2
  <1>10. ASSUME RowsFold(d), \A q \in d.entries : LedgerOf(q.ev) <= LedgerOf(e)
         PROVE  RowsFold(n)
    <2>0. \A r \in n.entries : LedgerOf(r.ev) \in Nat /\ r.id \in Nat
      BY <1>3, <1>4, <1>5, <1>7, EventNumbers DEF Transfers
    <2>1. ASSUME NEW r \in d.entries
          PROVE  r.balance = SumDeltas(UpTo(OfToken(n.entries, TokenOf(r.ev)), r))
      <3>1. ~(LedgerOf(e) < LedgerOf(r.ev)) /\ ~(LedgerOf(e) = LedgerOf(r.ev) /\ row.id <= r.id)
        BY <1>3, <1>4, <1>5, <1>10, <2>0
      <3>2. UpTo(OfToken(n.entries, TokenOf(r.ev)), r) = UpTo(OfToken(d.entries, TokenOf(r.ev)), r)
        BY <1>4, <1>5, <3>1 DEF UpTo, OfToken
      <3> QED
        BY <1>10, <3>2 DEF RowsFold
    <2>2. row.balance = SumDeltas(UpTo(OfToken(n.entries, tk), row))
      <3>1. \A q \in n.entries : \/ LedgerOf(q.ev) < LedgerOf(row.ev)
                                 \/ LedgerOf(q.ev) = LedgerOf(row.ev) /\ q.id <= row.id
        BY <1>3, <1>4, <1>5, <1>10, <2>0
      <3>2. UpTo(OfToken(n.entries, tk), row) = OfToken(n.entries, tk)
        BY <3>1 DEF UpTo, OfToken
      <3>3. n.balances[tk] = SumDeltas(OfToken(n.entries, tk))
        BY <1>2, <1>8 DEF CacheTrue
      <3>4. n.balances[tk] = new
        BY <1>1, <1>2, <1>5
      <3> QED
        BY <1>4, <3>2, <3>3, <3>4
    <2> QED
      BY <1>4, <1>5, <2>1, <2>2 DEF RowsFold
  <1> QED
    BY <1>5, <1>8, <1>9, <1>10 DEF n

\* What a page does with one of its events, the balance having been read just before.
LEMMA RecordingFolds ==
  ASSUME NEW d, Sound(d), CacheTrue(d), IdsBelow(d), EventsApart(d), NEW e \in Event, NEW before,
         conf.backend = "sqlite" /\ IsTransfer(e) => before = d.balances[TokenOf(e)]
  PROVE  LET n == Recording(d, e, before)
         IN  /\ CacheTrue(n) /\ IdsBelow(n) /\ EventsApart(n)
             /\ RowsFold(d) /\ (Recorded(d, e) \/ \A q \in d.entries : LedgerOf(q.ev) <= LedgerOf(e))
                => RowsFold(n)
  <1> DEFINE n == Recording(d, e, before)
  <1>1. CASE IsTransfer(e)
    <2>1. e \in Transfers
      BY <1>1 DEF Transfers
    <2>2. CASE Has(d.entries, e)
      <3>1. n = d
        BY <1>1, <2>2 DEF Recording, RecordTransfer, RecordTransferLocked
      <3> QED
        BY <3>1
    <2>3. CASE ~Has(d.entries, e)
      <3>1. n = RecordTransfer(d, e, d.balances[TokenOf(e)])
        BY <1>1, <2>3 DEF Recording, RecordTransferLocked, TokenOf
      <3>2. ~Recorded(d, e)
        BY <1>1, <2>3 DEF Recorded, Has, EventsApart
      <3> HIDE DEF n
      <3>3. /\ CacheTrue(n) /\ IdsBelow(n) /\ n.events = d.events
            /\ RowsFold(d) /\ (\A q \in d.entries : LedgerOf(q.ev) <= LedgerOf(e)) => RowsFold(n)
        BY <2>1, <2>3, <3>1, TransferFolds
      <3>4. EventsApart(n)
        BY <3>3 DEF EventsApart
      <3> QED
        BY <3>2, <3>3, <3>4 DEF n
    <2> QED
      BY <2>2, <2>3
  <1>2. CASE ~IsTransfer(e)
    <2>1. CASE n = d
      BY <2>1
    <2>2. CASE n # d
      <3> DEFINE id  == NextId(d, "events")
                 row == [id |-> id, ev |-> e]
      <3>1. n = [d EXCEPT !.events = @ \union {row}, !.issued.events = id]
        BY <1>2, <2>2 DEF Recording, RecordAccordEvent
      <3>2. d \in Store /\ d.issued \in [entries : Nat, events : Nat]
        BY DEF Sound, Store
      <3> HIDE DEF n, id
      <3>3. /\ n.entries = d.entries /\ n.balances = d.balances /\ n.backend = d.backend
            /\ n.issued.entries = d.issued.entries /\ n.events = d.events \union {row}
        BY <3>1, <3>2 DEF Store
      <3>4. EventsApart(n)
        BY <1>2, <3>3 DEF EventsApart
      <3> QED
        BY <3>3, <3>4, KeptFolds DEF n
    <2> QED
      BY <2>1, <2>2
  <1> QED
    BY <1>1, <1>2

\* Folding the balances again makes every one of them right.
LEMMA ReplayFolds ==
  ASSUME NEW d \in Store, IsFiniteSet(d.entries), OnePerEvent(d.entries)
  PROVE  LET n == ReplayBalances(d)
         IN  /\ CacheTrue(n) /\ RowsFold(n) /\ n.events = d.events
             /\ \A r \in n.entries : \E q \in d.entries : r.id = q.id /\ r.ev = q.ev
  <1> DEFINE new(r)   == SumDeltas(UpTo(OfToken(d.entries, ParseTokenTransferEvent(r.ev).token), r))
             moved    == [r \in d.entries |-> [r EXCEPT !.balance = new(r)]]
             entries  == {moved[r] : r \in d.entries}
             balances == [tk \in Token |-> SumDeltas(OfToken(d.entries, tk))]
             n == ReplayBalances(d)
  <1>1. d.entries \in SUBSET EntryRow
    BY DEF Store
  <1>2. n = [d EXCEPT !.entries = entries, !.balances = balances]
    BY DEF ReplayBalances
  <1>3. entries \in SUBSET EntryRow /\ IsFiniteSet(entries) /\ OnePerEvent(entries)
        /\ n.entries = entries /\ n.balances = balances /\ n.events = d.events
    <2>1. n \in Store /\ IsFiniteSet(n.entries) /\ OnePerEvent(n.entries) /\ n.events = d.events
      BY ReplaySound
    <2>2. n.entries = entries /\ n.balances = balances
      BY <1>2 DEF Store
    <2> HIDE DEF n, entries, balances
    <2> QED
      BY <2>1, <2>2 DEF Store
  <1>4. \A tk \in Token : balances[tk] = SumDeltas(OfToken(d.entries, tk))
    OBVIOUS
  <1> HIDE DEF n, balances
  <1>5. \A r \in d.entries : /\ moved[r].id = r.id /\ moved[r].ev = r.ev
                             /\ moved[r].balance = new(r) /\ moved[r] \in entries
    BY <1>1 DEF EntryRow
  <1>6. \A r \in d.entries :
          moved[r].balance = SumDeltas(UpTo(OfToken(d.entries, TokenOf(r.ev)), r))
    BY <1>5 DEF TokenOf
  <1> HIDE DEF new, moved
  <1>7. \A r \in entries : \E q \in d.entries : r = moved[q]
    OBVIOUS
  <1> HIDE DEF entries
  \* Rows and the rows they have become.
  <1>8. ASSUME NEW S \in SUBSET d.entries, NEW T \in SUBSET entries,
               \A q \in d.entries : q \in S <=> moved[q] \in T
        PROVE  SumDeltas(T) = SumDeltas(S)
    <2>1. S \in SUBSET EntryRow /\ IsFiniteSet(S) /\ OnePerEvent(S)
      BY <1>1, FS_Subset DEF OnePerEvent
    <2>2. T \in SUBSET EntryRow /\ IsFiniteSet(T) /\ OnePerEvent(T)
      BY <1>3, FS_Subset DEF OnePerEvent
    <2>3. EventsIn(S) = EventsIn(T)
      BY <1>5, <1>7, <1>8 DEF EventsIn
    <2> QED
      BY <2>1, <2>2, <2>3, SameEventsSameSum
  <1>9. CacheTrue(n)
    <2>1. ASSUME NEW tk \in Token
          PROVE  SumDeltas(OfToken(entries, tk)) = SumDeltas(OfToken(d.entries, tk))
      <3>1. \A q \in d.entries : q \in OfToken(d.entries, tk) <=> moved[q] \in OfToken(entries, tk)
        BY <1>5 DEF OfToken
      <3>2. OfToken(d.entries, tk) \in SUBSET d.entries /\ OfToken(entries, tk) \in SUBSET entries
        BY DEF OfToken
      <3> QED
        BY <1>8, <3>1, <3>2
    <2> QED
      BY <1>3, <1>4, <2>1 DEF CacheTrue
  <1>10. RowsFold(n)
    <2>1. ASSUME NEW r \in entries
          PROVE  r.balance = SumDeltas(UpTo(OfToken(entries, TokenOf(r.ev)), r))
      <3>1. PICK p \in d.entries : r = moved[p]
        BY <1>7
      <3>2. r.ev = p.ev /\ r.id = p.id
        BY <1>5, <3>1
      <3> DEFINE tk == TokenOf(r.ev)
      <3>3. \A q \in d.entries : q \in UpTo(OfToken(d.entries, tk), p)
                                 <=> moved[q] \in UpTo(OfToken(entries, tk), r)
        BY <1>5, <3>2 DEF UpTo, OfToken
      <3>4. /\ UpTo(OfToken(d.entries, tk), p) \in SUBSET d.entries
            /\ UpTo(OfToken(entries, tk), r) \in SUBSET entries
        BY DEF UpTo, OfToken
      <3>5. SumDeltas(UpTo(OfToken(entries, tk), r)) = SumDeltas(UpTo(OfToken(d.entries, tk), p))
        BY <1>8, <3>3, <3>4
      <3> QED
        BY <1>6, <3>1, <3>2, <3>5
    <2> QED
      BY <1>3, <2>1 DEF RowsFold
  <1>11. \A r \in n.entries : \E q \in d.entries : r.id = q.id /\ r.ev = q.ev
    BY <1>3, <1>5, <1>7
  <1> QED
    BY <1>3, <1>9, <1>10, <1>11 DEF n

\* Rows stay below the next id when no row is given a new one.
LEMMA IdsStayBelow ==
  ASSUME NEW d, Sound(d), IdsBelow(d), NEW n, Sound(n), n.backend = d.backend,
         n.issued = d.issued, \A r \in n.entries : \E q \in d.entries : r.id = q.id
  PROVE  IdsBelow(n)
  <1>1. CASE d.backend = "sqlite"
    BY <1>1, NextEntryId
  <1>2. CASE d.backend # "sqlite"
    <2>1. NextId(n, "entries") = NextId(d, "entries")
      BY <1>2, NextEntryId
    <2> QED
      BY <2>1 DEF IdsBelow
  <1> QED
    BY <1>1, <1>2

LEMMA RecomputeFolds ==
  ASSUME NEW d, Sound(d), IdsBelow(d), EventsApart(d)
  PROVE  LET n == ReplayBalances(d)
         IN  CacheTrue(n) /\ RowsFold(n) /\ IdsBelow(n) /\ EventsApart(n)
  <1> DEFINE n == ReplayBalances(d)
  <1>1. d \in Store /\ IsFiniteSet(d.entries) /\ OnePerEvent(d.entries)
    BY DEF Sound
  <1>2. Sound(n)
    BY RecomputeSound
  <1>3. n.issued = d.issued /\ n.backend = d.backend
    BY <1>1, ReplaySound DEF Alike
  <1>4. CacheTrue(n) /\ RowsFold(n) /\ n.events = d.events
        /\ \A r \in n.entries : \E q \in d.entries : r.id = q.id /\ r.ev = q.ev
    BY <1>1, ReplayFolds
  <1> HIDE DEF n
  <1>5. IdsBelow(n)
    BY <1>2, <1>3, <1>4, IdsStayBelow
  <1>6. EventsApart(n)
    BY <1>4 DEF EventsApart
  <1> QED
    BY <1>4, <1>5, <1>6 DEF n

LEMMA RewindFolds ==
  ASSUME NEW d, Sound(d), IdsBelow(d), EventsApart(d), NEW l
  PROVE  LET n == RewindToLedger(d, l)
         IN  CacheTrue(n) /\ RowsFold(n) /\ IdsBelow(n) /\ EventsApart(n)
  <1> DEFINE entries == {r \in d.entries : LedgerOf(r.ev) <= l}
             events  == {r \in d.events : LedgerOf(r.ev) <= l}
             c == [d EXCEPT !.entries = entries, !.events = events]
             n == ReplayBalances(c)
  <1>1. RewindToLedger(d, l) = n
    BY DEF RewindToLedger
  <1>2. d \in Store /\ IsFiniteSet(d.entries) /\ OnePerEvent(d.entries)
    BY DEF Sound
  <1>3. entries \in SUBSET d.entries /\ events \in SUBSET d.events
    OBVIOUS
  <1> HIDE DEF entries, events
  <1>4. IsFiniteSet(entries) /\ OnePerEvent(entries) /\ entries \in SUBSET EntryRow
        /\ events \in SUBSET EventRow
    BY <1>2, <1>3, FS_Subset DEF OnePerEvent, Store
  <1>5. /\ c \in Store /\ c.entries = entries /\ c.events = events /\ c.issued = d.issued
        /\ c.backend = d.backend
    BY <1>2, <1>4 DEF Store
  <1>6. Sound(n)
    BY <1>1, RewindSound
  <1> HIDE DEF c
  <1>7. n.issued = c.issued /\ n.backend = c.backend
    BY <1>4, <1>5, ReplaySound DEF Alike
  <1>8. CacheTrue(n) /\ RowsFold(n) /\ n.events = c.events
        /\ \A r \in n.entries : \E q \in c.entries : r.id = q.id /\ r.ev = q.ev
    BY <1>4, <1>5, ReplayFolds
  <1> HIDE DEF n
  <1>9. \A r \in n.entries : \E q \in d.entries : r.id = q.id
    BY <1>3, <1>5, <1>8
  <1>10. IdsBelow(n)
    BY <1>5, <1>6, <1>7, <1>9, IdsStayBelow
  <1>11. EventsApart(n)
    BY <1>3, <1>5, <1>8 DEF EventsApart
  <1> QED
    BY <1>1, <1>8, <1>10, <1>11

LEMMA ClearFolds ==
  ASSUME NEW d, Sound(d)
  PROVE  LET n == ClearHistory(d)
         IN  CacheTrue(n) /\ RowsFold(n) /\ IdsBelow(n) /\ EventsApart(n) /\ n.entries = {}
  <1> DEFINE n == ClearHistory(d)
  <1>1. n.entries = {} /\ n.events = {} /\ n.balances = [tk \in Token |-> 0]
    BY DEF ClearHistory, Sound, Store
  <1> HIDE DEF n
  <1>2. \A tk \in Token : OfToken(n.entries, tk) = {}
    BY <1>1 DEF OfToken
  <1>3. CacheTrue(n)
    BY <1>1, <1>2, SumOfNone DEF CacheTrue
  <1> QED
    BY <1>1, <1>3 DEF RowsFold, IdsBelow, EventsApart, n

-----------------------------------------------------------------------------
(* The cache is always true *)

SumsTrue(d)    == CacheTrue(d) /\ IdsBelow(d) /\ EventsApart(d)
SumsKept(d, n) == TablesKept(d, n) /\ n.balances = d.balances /\ n.issued = d.issued
                  /\ n.backend = d.backend

\* A balance that was read is used before it changes: SQLite's writers take turns.
BatchReads ==
  b.before # None =>
    /\ b.at = "ingest" /\ conf.backend = "sqlite" /\ b.todo # {}
    /\ IsFinal(Upcoming) /\ IsTransfer(Upcoming) /\ b.before = db.balances[TokenOf(Upcoming)]
RunReads ==
  h.before # None =>
    /\ h.at = "record" /\ conf.backend = "sqlite" /\ h.todo # {}
    /\ IsTransfer(NextToRecord) /\ h.before = db.balances[TokenOf(NextToRecord)]
Alone == conf.backend = "sqlite" /\ h.at # "idle" => b = Idle

CacheInv == SumsTrue(db) /\ BatchReads /\ RunReads /\ Alone

LEMMA SumsStayTrue ==
  ASSUME NEW d, NEW n, SumsKept(d, n)
  PROVE  (SumsTrue(d) => SumsTrue(n)) /\ (RowsFold(d) => RowsFold(n))
  BY KeptFolds DEF SumsKept, TablesKept, SumsTrue, EventsApart

\* The writes of the checkpoints.
LEMMA MarksKeepSums ==
  ASSUME NEW d \in Store, NEW v
  PROVE  /\ SumsKept(d, [d EXCEPT !.next_ledger = v]) /\ SumsKept(d, [d EXCEPT !.event_cursor = v])
         /\ SumsKept(d, [d EXCEPT !.last_seen_ledger = v]) /\ SumsKept(d, [d EXCEPT !.walk = v])
         /\ SumsKept(d, [d EXCEPT !.rebuilding = v]) /\ SumsKept(d, d)
  BY DEF Store, SumsKept, TablesKept

LEMMA RecordingSums ==
  ASSUME NEW d, Sound(d), SumsTrue(d), NEW e \in Event, NEW before,
         conf.backend = "sqlite" /\ IsTransfer(e) => before = d.balances[TokenOf(e)]
  PROVE  SumsTrue(Recording(d, e, before))
  BY RecordingFolds DEF SumsTrue

LEMMA BatchSums ==
  ASSUME TablesInv, CacheInv, Batch
  PROVE  CacheInv'
  <1>1. /\ h' = h /\ conf' = conf /\ ~(h.at # "idle" /\ conf.backend = "sqlite")
    BY DEF Batch, BatchStep, StartBatch, FetchPage, Rewind, ClearCursorAfterRewind, HoldBack,
           ReadBalance, IngestEvent, NextPage, ReachTip, DropCursor, FinishBatch,
           outboxVars, walkVars, ServiceDown
  <1>2. BatchTyped(b) /\ db \in Store /\ Sound(db) /\ SumsTrue(db) /\ BatchReads /\ RunReads
    BY MarksTyped DEF TablesInv, CacheInv
  <1>3. h'.before = None /\ RunReads' /\ Alone'
    <2>1. h.before = None
      BY <1>1, <1>2 DEF RunReads
    <2> QED
      BY <1>1, <2>1 DEF RunReads, Alone
  <1>4. SUFFICES SumsTrue(db') /\ BatchReads'
    BY <1>3 DEF CacheInv
  <1>5. ASSUME SumsKept(db, db'), b'.before = None
        PROVE  SumsTrue(db') /\ BatchReads'
    BY <1>2, <1>5, SumsStayTrue DEF BatchReads
  <1>6. SumsKept(db, db)
    BY <1>2, MarksKeepSums
  <1>7. b.at # "ingest" \/ b.todo = {} \/ ~IsFinal(Upcoming) => b.before = None
    BY <1>2 DEF BatchReads
  <1>8. CASE StartBatch
    <2>1. db' = db /\ b'.before = None
      BY <1>8 DEF StartBatch, Idle
    <2> QED
      BY <1>5, <1>6, <2>1
  <1>9. CASE FetchPage
    <2>1. db' = db /\ b'.before = b.before /\ b.at = "request"
      BY <1>2, <1>9 DEF FetchPage, BatchTyped
    <2> QED
      BY <1>5, <1>6, <1>7, <2>1
  <1>10. CASE Rewind
    <2>1. b'.before = b.before /\ b.at = "rewind"
          /\ db' = RewindToLedger(db, FinalLedgerFor(b.latestSeen, conf.lag))
      BY <1>2, <1>10 DEF Rewind, BatchTyped
    <2>2. SumsTrue(db')
      BY <1>2, <2>1, RewindFolds DEF SumsTrue
    <2> QED
      BY <1>7, <2>1, <2>2 DEF BatchReads
  <1>11. CASE ClearCursorAfterRewind
    <2>1. b'.before = b.before /\ b.at = "unpark" /\ db' = [db EXCEPT !.event_cursor = 0]
      BY <1>2, <1>11 DEF ClearCursorAfterRewind, BatchTyped
    <2> QED
      BY <1>2, <1>5, <1>7, <2>1, MarksKeepSums
  <1>12. CASE HoldBack
    <2>1. db' = db /\ b'.before = b.before /\ ~IsFinal(Upcoming)
      BY <1>2, <1>12 DEF HoldBack, BatchTyped
    <2> QED
      BY <1>5, <1>6, <1>7, <2>1
  <1>13. CASE ReadBalance
    <2>1. /\ db' = db /\ b.at = "ingest" /\ b.todo # {} /\ IsFinal(Upcoming)
          /\ IsTransfer(Upcoming) /\ conf.backend = "sqlite"
          /\ b' = [b EXCEPT !.before = db.balances[ParseTokenTransferEvent(Upcoming).token]]
      BY <1>13 DEF ReadBalance
    <2>2. /\ b'.at = b.at /\ b'.todo = b.todo /\ b'.latestSeen = b.latestSeen
          /\ b'.before = db.balances[TokenOf(Upcoming)]
      BY <1>2, <2>1 DEF BatchTyped, TokenOf
    <2>3. Upcoming' = Upcoming /\ (IsFinal(Upcoming))' = IsFinal(Upcoming)
      BY <1>1, <2>2 DEF Upcoming, IsFinal
    <2>4. BatchReads'
      BY <1>1, <2>1, <2>2, <2>3 DEF BatchReads
    <2> QED
      BY <1>2, <2>1, <2>4
  <1>14. CASE IngestEvent
    <2>1. /\ b.at = "ingest" /\ b.todo # {} /\ IsFinal(Upcoming) /\ b'.before = None
          /\ IsTransfer(Upcoming) /\ conf.backend = "sqlite" => b.before # None
      BY <1>2, <1>14 DEF IngestEvent, BatchTyped
    <2>2. Upcoming \in Event
      BY <1>2, <2>1, FirstOfPage DEF Upcoming, BatchTyped
    <2>3. db' = Recording(db, Upcoming, b.before)
      BY <1>14 DEF IngestEvent, Recording
    <2>4. SumsTrue(db')
      BY <1>2, <2>1, <2>2, <2>3, RecordingSums DEF BatchReads
    <2> QED
      BY <2>1, <2>4 DEF BatchReads
  <1>15. CASE NextPage \/ ReachTip
    <2>1. /\ b'.before = b.before /\ b.todo = {}
          /\ \E v : db' = [db EXCEPT !.event_cursor = v] \/ db' = [db EXCEPT !.next_ledger = v]
      BY <1>2, <1>15 DEF NextPage, ReachTip, BatchTyped
    <2> QED
      BY <1>2, <1>5, <1>7, <2>1, MarksKeepSums
  <1>16. CASE DropCursor
    <2>1. b'.before = b.before /\ b.at = "tip" /\ db' = [db EXCEPT !.event_cursor = 0]
      BY <1>2, <1>16 DEF DropCursor, BatchTyped
    <2> QED
      BY <1>2, <1>5, <1>7, <2>1, MarksKeepSums
  <1>17. CASE FinishBatch
    <2>1. /\ b'.before = None
          /\ db' = db \/ db' = [db EXCEPT !.last_seen_ledger = b.latestSeen]
      BY <1>17 DEF FinishBatch, Idle
    <2> QED
      BY <1>2, <1>5, <2>1, MarksKeepSums
  <1> QED
    BY <1>8, <1>9, <1>10, <1>11, <1>12, <1>13, <1>14, <1>15, <1>16, <1>17 DEF Batch, BatchStep

LEMMA HistorySums ==
  ASSUME TablesInv, CacheInv, History
  PROVE  CacheInv'
  <1>1. /\ RunTyped(h) /\ db \in Store /\ Sound(db) /\ SumsTrue(db) /\ BatchReads /\ RunReads
        /\ Alone /\ None \notin {"backfill", "reindex"} /\ conf.backend \in {"sqlite", "postgres"}
    BY MarksTyped, DeploymentOf DEF TablesInv, SyncTyped, CacheInv
  <1>2. b' = b /\ conf' = conf /\ \A c \in conf.commands : h.at = "idle" /\ MayStart(c)
          => b = Idle \/ conf.backend = "postgres"
    BY DEF History, HistoryNext, StartRun, BlankCheckpoint, MarkRebuilding, BeginWalk,
           RequestPage, ReadBalanceBefore, RecordHistoric, StorePage, CompleteWalk,
           ClearWalkCursor, ReadNextLedger, FinishHistoryRun, DropLiveCursor,
           RecomputeBalances, InterruptRun, syncState, MayStart
  <1>3. conf.backend = "sqlite" => b = Idle
    BY <1>1, <1>2 DEF History, Alone
  <1>4. b.before = None
    BY <1>1, <1>3 DEF BatchReads, Idle
  <1>5. BatchReads' /\ Alone'
    BY <1>2, <1>3, <1>4 DEF BatchReads, Alone
  <1>6. SUFFICES SumsTrue(db') /\ RunReads'
    BY <1>5 DEF CacheInv
  <1>7. ASSUME SumsKept(db, db'), h'.before = None
        PROVE  SumsTrue(db') /\ RunReads'
    BY <1>1, <1>7, SumsStayTrue DEF RunReads
  <1>8. SumsKept(db, db)
    BY <1>1, MarksKeepSums
  <1>9. h.at # "record" \/ h.todo = {} => h.before = None
    BY <1>1 DEF RunReads
  <1>10. ASSUME NEW c \in {"backfill", "reindex"}, StartRun(c)
         PROVE  SumsTrue(db') /\ RunReads'
    <2>1. h'.before = None
      BY <1>10 DEF StartRun, NoRun
    <2>2. db' = db \/ db' = ClearHistory(db)
      BY <1>10 DEF StartRun
    <2>3. SumsTrue(ClearHistory(db))
      BY <1>1, ClearFolds DEF SumsTrue
    <2> QED
      BY <1>1, <2>1, <2>2, <2>3 DEF RunReads
  <1>11. CASE BlankCheckpoint \/ BeginWalk \/ StorePage \/ CompleteWalk \/ ClearWalkCursor
    <2>1. h'.before = h.before /\ (h.at # "record" \/ h.todo = {})
      BY <1>1, <1>11 DEF BlankCheckpoint, BeginWalk, StorePage, CompleteWalk, ClearWalkCursor,
                         RunTyped
    <2>2. SumsKept(db, db')
      BY <1>1, <1>11 DEF BlankCheckpoint, BeginWalk, StorePage, CompleteWalk, ClearWalkCursor,
                         Store, SumsKept, TablesKept
    <2> QED
      BY <1>7, <1>9, <2>1, <2>2
  <1>12. CASE MarkRebuilding \/ FinishHistoryRun \/ DropLiveCursor
    <2>1. h'.before = h.before /\ h.at # "record"
      BY <1>1, <1>12 DEF MarkRebuilding, FinishHistoryRun, DropLiveCursor, RunTyped
    <2>2. \/ db' = db
          \/ \E v : \/ db' = [db EXCEPT !.rebuilding = v] \/ db' = [db EXCEPT !.next_ledger = v]
                    \/ db' = [db EXCEPT !.event_cursor = v]
      BY <1>12 DEF MarkRebuilding, FinishHistoryRun, DropLiveCursor
    <2>3. SumsKept(db, db')
      BY <1>1, <2>2, MarksKeepSums
    <2> QED
      BY <1>7, <1>9, <2>1, <2>3
  <1>13. CASE RequestPage \/ ReadNextLedger
    <2>1. h'.before = h.before /\ h.at # "record" /\ db' = db
      BY <1>1, <1>13 DEF RequestPage, ReadNextLedger, RunTyped
    <2> QED
      BY <1>7, <1>8, <1>9, <2>1
  <1>14. CASE ReadBalanceBefore
    <2>1. /\ db' = db /\ h.at = "record" /\ h.todo # {} /\ IsTransfer(NextToRecord)
          /\ conf.backend = "sqlite"
          /\ h' = [h EXCEPT !.before = db.balances[ParseTokenTransferEvent(NextToRecord).token]]
      BY <1>14 DEF ReadBalanceBefore
    <2>2. h'.at = h.at /\ h'.todo = h.todo /\ h'.before = db.balances[TokenOf(NextToRecord)]
      BY <1>1, <2>1 DEF RunTyped, TokenOf
    <2>3. NextToRecord' = NextToRecord
      BY <2>2 DEF NextToRecord
    <2>4. RunReads'
      BY <1>2, <2>1, <2>2, <2>3 DEF RunReads
    <2> QED
      BY <1>1, <2>1, <2>4
  <1>15. CASE RecordHistoric
    <2>1. /\ h.at = "record" /\ h.todo # {} /\ h'.before = None
          /\ IsTransfer(NextToRecord) /\ conf.backend = "sqlite" => h.before # None
      BY <1>1, <1>15 DEF RecordHistoric, RunTyped
    <2>2. NextToRecord \in Event
      BY <1>1, <2>1, FirstOfPage DEF NextToRecord, RunTyped
    <2>3. db' = Recording(db, NextToRecord, h.before)
      BY <1>15 DEF RecordHistoric, Recording
    <2>4. SumsTrue(db')
      BY <1>1, <2>1, <2>2, <2>3, RecordingSums DEF RunReads
    <2> QED
      BY <2>1, <2>4 DEF RunReads
  <1>16. CASE RecomputeBalances
    <2> DEFINE n == ReplayBalances(db)
    <2>1. h'.before = None /\ \E v : db' = [n EXCEPT !.rebuilding = v]
      BY <1>16 DEF RecomputeBalances, NoRun
    <2>2. SumsTrue(n) /\ n \in Store
      BY <1>1, RecomputeFolds, RecomputeSound DEF SumsTrue, Sound
    <2> HIDE DEF n
    <2>3. SumsTrue(db')
      BY <2>1, <2>2, MarksKeepSums, SumsStayTrue
    <2> QED
      BY <2>1, <2>3 DEF RunReads
  <1>17. CASE InterruptRun
    <2>1. db' = db /\ h'.before = None
      BY <1>17 DEF InterruptRun, NoRun
    <2> QED
      BY <1>7, <1>8, <2>1
  <1> QED
    BY <1>10, <1>11, <1>12, <1>13, <1>14, <1>15, <1>16, <1>17 DEF History, HistoryNext

\* Other steps leave the tables; a batch goes on, or is lost.
LEMMA RestSums ==
  ASSUME CacheInv, conf' = conf, h' = h, b' = b \/ b' = Idle, SumsKept(db, db')
  PROVE  CacheInv'
  <1>1. SumsTrue(db')
    BY SumsStayTrue DEF CacheInv
  <1>2. db'.balances = db.balances
    BY DEF SumsKept
  <1>3. RunReads'
    BY <1>2 DEF CacheInv, RunReads, NextToRecord
  <1>4. Alone'
    BY DEF CacheInv, Alone
  <1>5. BatchReads'
    <2>1. CASE b' = b
      BY <1>2, <2>1 DEF CacheInv, BatchReads, Upcoming, IsFinal
    <2>2. CASE b' = Idle
      BY <2>2 DEF BatchReads, Idle
    <2> QED
      BY <2>1, <2>2
  <1> QED
    BY <1>1, <1>3, <1>4, <1>5 DEF CacheInv

\* The steps of neither a batch nor a command.
LEMMA OtherSteps ==
  ASSUME IndexerInv, [Next]_vars, ~Batch, ~History
  PROVE  /\ conf' = conf /\ h' = h /\ (b' = b \/ b' = Idle) /\ seen' = seen /\ closed' >= closed
         /\ SumsKept(db, db') /\ MarksKept(db, db')
  <1>1. TablesInv /\ OutboxInv /\ closed \in Nat /\ conf' = conf
    BY ConfStays DEF IndexerInv, TablesInv, SyncTyped
  <1>2. SumsKept(db, db) /\ MarksKept(db, db) /\ closed >= closed /\ closed + 1 >= closed
    BY <1>1 DEF SumsKept, TablesKept, MarksKept
  <1>3. ASSUME OutboxStep(db, db') PROVE SumsKept(db, db') /\ MarksKept(db, db')
    BY <1>3 DEF OutboxStep, SumsKept
  <1>4. CASE Enqueue
    <2>1. OutboxStep(db, db')
      BY <1>1, <1>4, EnqueueStepOK DEF Enqueue
    <2>2. closed' = closed /\ seen' = seen /\ b' = b /\ h' = h
      BY <1>4 DEF Enqueue, EnqueueStep, StartTick, ClaimDue, StartCursor, EnqueueNew,
                  syncVars, walkVars
    <2> QED
      BY <1>1, <1>2, <1>3, <2>1, <2>2
  <1>5. CASE Deliver
    <2>1. OutboxStep(db, db')
      BY <1>1, <1>5, SendStepOK DEF Deliver
    <2>2. closed' = closed /\ seen' = seen /\ b' = b /\ h' = h
      BY <1>5 DEF Deliver, SendStep, FinishTick, Unconfigured, Send, RecordAttempt,
                  syncVars, walkVars
    <2> QED
      BY <1>1, <1>2, <1>3, <2>1, <2>2
  <1>6. CASE Backoff \/ (OutboxEnvironment /\ UNCHANGED <<syncVars, walkVars>>)
    <2>1. OutboxStep(db, db')
      BY <1>1, <1>6, OthersOK DEF Backoff
    <2>2. closed' = closed /\ seen' = seen /\ b' = b /\ h' = h
      BY <1>6 DEF Backoff, syncVars, walkVars
    <2> QED
      BY <1>1, <1>2, <1>3, <2>1, <2>2
  <1>7. CASE Restart
    BY <1>1, <1>2, <1>7 DEF Restart, walkVars
  <1>8. CASE (CloseLedger \/ FailBatch) /\ UNCHANGED <<outboxVars, walkVars>>
    BY <1>1, <1>2, <1>8 DEF CloseLedger, FailBatch, outboxVars, walkVars
  <1>9. CASE UNCHANGED vars
    BY <1>1, <1>2, <1>9 DEF vars, syncVars, outboxVars, walkVars
  <1> QED
    BY <1>4, <1>5, <1>6, <1>7, <1>8, <1>9 DEF Next

LEMMA CacheStarts == Init => CacheInv
  <1> SUFFICES ASSUME Init PROVE CacheInv
    OBVIOUS
  <1>1. db = [EmptyStore EXCEPT !.backend = conf.backend] /\ b = Idle /\ h = NoRun
    BY DEF Init, SyncInit, HistoryInit
  <1>2. db.entries = {} /\ db.events = {} /\ db.balances = [tk \in Token |-> 0]
    BY <1>1 DEF EmptyStore
  <1>3. \A tk \in Token : OfToken(db.entries, tk) = {}
    BY <1>2 DEF OfToken
  <1>4. SumsTrue(db)
    BY <1>2, <1>3, SumOfNone DEF SumsTrue, CacheTrue, IdsBelow, EventsApart
  <1> QED
    BY <1>1, <1>4 DEF CacheInv, BatchReads, RunReads, Alone, Idle, NoRun

LEMMA CacheStep == IndexerInv /\ CacheInv /\ [Next]_vars => CacheInv'
  <1> SUFFICES ASSUME IndexerInv, CacheInv, [Next]_vars PROVE CacheInv'
    OBVIOUS
  <1>1. TablesInv
    BY DEF IndexerInv
  <1>2. CASE Batch
    BY <1>1, <1>2, BatchSums
  <1>3. CASE History
    BY <1>1, <1>3, HistorySums
  <1>4. CASE ~Batch /\ ~History
    BY <1>4, OtherSteps, RestSums
  <1> QED
    BY <1>2, <1>3, <1>4

\* The first conjunct of BalancesFold, at all times.
CachedBalances == \A tk \in Token : db.balances[tk] = SumDeltas(OfToken(db.entries, tk))

\* Each cached balance is the sum of the stored transfers of its token at all times, also
\* while a command is running or interrupted, whatever is rolled back, re-ingested or lost.
THEOREM CacheIsTheSum == Spec => []CachedBalances
  <1>1. CacheInv => CachedBalances
    BY DEF CacheInv, SumsTrue, CacheTrue, CachedBalances
  <1> QED
    BY <1>1, CacheStarts, CacheStep, IndexerInvariant, PTL DEF Spec

-----------------------------------------------------------------------------
(* The running balances *)

\* The commands begin where the live indexer does.
OneStart == conf.starts \subseteq {StartLedger}

\* What is recorded is older than what is not, or lies in the reach of a command.
Ordered(d, top) ==
  \A f \in Due, q \in Event :
    ~Recorded(d, f) /\ Recorded(d, q) => LedgerOf(q) <= LedgerOf(f) \/ LedgerOf(q) <= top
Reach == IF h.cmd = None THEN 0 ELSE IF h.at = "idle" THEN Final ELSE h.end

\* Nothing older than the first ledger is asked for, and nothing final is held back.
FromStart(c)  == c = 0 \/ (c \in Event /\ LedgerOf(c) >= StartLedger)
MarksPlace(d) == NextUp(d) >= StartLedger /\ FromStart(d.event_cursor)
PagePlace ==
  /\ \A e \in b.todo : LedgerOf(e) >= StartLedger
  /\ FromStart(b.last)
  /\ b.firstHeldBack = Infinity \/ b.firstHeldBack > FinalLedgerFor(b.latestSeen, conf.lag)
LivePlace ==
  /\ b.at # "idle" => b.nextLedger >= StartLedger /\ FromStart(b.cursor)
  /\ b.at = "ingest" => PagePlace

OrderInv == Ordered(db, Reach) /\ MarksPlace(db) /\ LivePlace /\ (h.cmd = None => RowsFold(db))

LEMMA OrderKept ==
  ASSUME NEW d, NEW n, Gains(d, n, {}), NEW k, NEW l, k \in Nat, l \in Nat, k <= l, Ordered(d, k)
  PROVE  Ordered(n, l)
  <1>1. \A q \in Event : LedgerOf(q) \in Nat
    BY EventNumbers
  <1>2. \A e \in Event : Recorded(n, e) <=> Recorded(d, e)
    BY DEF Gains
  <1> QED
    BY <1>1, <1>2, DueTyped DEF Ordered

LEMMA ReachTyped ==
  ASSUME TablesInv
  PROVE  /\ Reach \in Nat /\ Final \in Nat /\ h.end \in Nat
         /\ h.at # "idle" => h.cmd # None /\ Reach = h.end
  <1>1. RunTyped(h) /\ SyncTyped /\ None \notin {"backfill", "reindex"}
    BY MarksTyped
  <1>2. Final \in Nat
    BY <1>1, FinalTyped
  <1> QED
    BY <1>1, <1>2 DEF Reach, RunTyped

LEMMA MarksPlaceKept ==
  ASSUME NEW d, NEW n, MarksKept(d, n), MarksPlace(d)
  PROVE  MarksPlace(n)
  BY DEF MarksKept, MarksPlace, NextUp

\* An event of a page is recorded when every due event before its ledger is.
LEMMA IngestOrder ==
  ASSUME TablesInv, GapInv, Orderly, OrderInv, CacheInv, IngestEvent
  PROVE  Ordered(db', Reach) /\ MarksPlace(db') /\ (h.cmd = None => RowsFold(db'))
  <1> DEFINE e == Upcoming
             final == FinalLedgerFor(b.latestSeen, conf.lag)
  <1>1. /\ b.at = "ingest" /\ b.todo # {} /\ IsFinal(e) /\ BatchPage /\ PagePlace
        /\ BatchTyped(b) /\ db \in Store /\ Sound(db) /\ SumsTrue(db) /\ BatchReads
        /\ IsTransfer(e) /\ conf.backend = "sqlite" => b.before # None
    BY MarksTyped DEF IngestEvent, GapInv, BatchPlace, OrderInv, LivePlace, TablesInv, CacheInv
  <1>2. e \in b.todo /\ e \in Event /\ \A f \in b.todo : e <= f
    BY <1>1, FirstOfPage DEF Upcoming, BatchTyped
  <1>3. db' = Recording(db, e, b.before)
    BY DEF IngestEvent, Recording
  <1>4. /\ b.latestSeen \in Nat /\ b.latestSeen < Infinity /\ final \in Nat
        /\ b.firstHeldBack \in Nat /\ Infinity \in Nat
        /\ LedgerOf(e) \in Nat /\ e \in Nat /\ b.last \in Nat
    BY <1>2, PageLimits, EventNumbers DEF GapInv
  <1>5. LedgerOf(e) <= final /\ LedgerOf(e) <= b.latestSeen /\ (b.full => e <= b.last)
        /\ LedgerOf(e) >= StartLedger
    BY <1>1, <1>2 DEF IsFinal, BatchPage, PagePlace
  <1> HIDE DEF e, final
  <1>6. ASSUME NEW f \in Due, ~Recorded(db, f) PROVE LedgerOf(e) <= LedgerOf(f)
    <2> SUFFICES ASSUME LedgerOf(f) < LedgerOf(e) PROVE FALSE
      BY <1>4, DueTyped
    <2>1. f \in Event /\ f \in Nat /\ LedgerOf(f) \in Nat /\ f < e
      BY <1>2, ChainOrder, DueTyped
    <2>2. LedgerOf(f) <= b.latestSeen /\ (b.full => f <= b.last)
      BY <1>4, <1>5, <2>1
    <2>3. f \in b.todo \/ b.firstHeldBack <= LedgerOf(f)
      BY <1>1, <1>6, <2>2 DEF BatchPage
    <2>4. f \notin b.todo
      BY <1>2, <1>4, <2>1
    <2>5. b.firstHeldBack = Infinity \/ b.firstHeldBack > final
      BY <1>1 DEF PagePlace, final
    <2> QED
      BY <1>4, <1>5, <2>1, <2>2, <2>3, <2>4, <2>5
  <1>7. Gains(db, db', {e} \intersect Indexed) /\ MarksKept(db, db')
    BY <1>1, <1>2, <1>3, RecordingGains
  <1>8. MarksPlace(db')
    BY <1>7, MarksPlaceKept DEF OrderInv
  <1>9. Ordered(db', Reach)
    <2>1. ASSUME NEW f \in Due, NEW q \in Event, ~Recorded(db', f), Recorded(db', q)
          PROVE  LedgerOf(q) <= LedgerOf(f) \/ LedgerOf(q) <= Reach
      <3>1. ~Recorded(db, f) /\ (Recorded(db, q) \/ q = e)
        BY <1>7, <2>1, DueTyped DEF Gains
      <3> QED
        BY <1>6, <3>1 DEF OrderInv, Ordered
    <2> QED
      BY <2>1 DEF Ordered
  <1>10. ASSUME h.cmd = None PROVE RowsFold(db')
    <2>1. RowsFold(db) /\ Reach = 0
      BY <1>10 DEF OrderInv, Reach
    <2>2. ASSUME e \in Indexed, ~Recorded(db, e), NEW q \in db.entries
          PROVE  LedgerOf(q.ev) <= LedgerOf(e)
      <3>1. e \in Due
        BY <1>5, <2>2 DEF Due
      <3>2. q.ev \in Event /\ Recorded(db, q.ev)
        BY <1>1 DEF Store, EntryRow, Transfers, Recorded, Has
      <3>3. LedgerOf(q.ev) \in Nat \ {0}
        BY <3>2, EventNumbers
      <3> QED
        BY <2>1, <2>2, <3>1, <3>2, <3>3 DEF OrderInv, Ordered
    <2>3. CASE e \in Indexed
      <3>1. conf.backend = "sqlite" /\ IsTransfer(e) => b.before = db.balances[TokenOf(e)]
        BY <1>1 DEF BatchReads, e
      <3>2. Recorded(db, e) \/ \A q \in db.entries : LedgerOf(q.ev) <= LedgerOf(e)
        BY <2>2, <2>3
      <3> QED
        BY <1>1, <1>2, <1>3, <2>1, <3>1, <3>2, RecordingFolds DEF SumsTrue
    <2>4. CASE e \notin Indexed
      <3>1. db' = db
        BY <1>2, <1>3, <2>4 DEF Recording, Indexed
      <3> QED
        BY <2>1, <3>1
    <2> QED
      BY <2>3, <2>4
  <1> QED
    BY <1>8, <1>9, <1>10

LEMMA FetchPlace ==
  ASSUME TablesInv, LivePlace, BatchPlace, BatchPlace', FetchPage
  PROVE  LivePlace'
  <1>1. BatchTyped(b) /\ b.at = "request" /\ b.firstHeldBack = Infinity /\ b'.at # "rewind"
        /\ conf' = conf
    BY MarksTyped DEF BatchPlace, FetchPage
  <1>2. PICK head \in 1..MaxLedger :
          LET page   == GetEvents(b.cursor, b.nextLedger, head, conf.pageLimit)
              latest == Max2(b.latestSeen, head)
              reorg  == ~b.reorgChecked /\ DetectReorg(b.previousLatest, head)
          IN  b' = IF reorg
                   THEN [b EXCEPT !.at = "rewind", !.reorgChecked = TRUE,
                                  !.previousLatest = head, !.latestSeen = head]
                   ELSE [b EXCEPT !.at = "ingest", !.reorgChecked = TRUE,
                                  !.previousLatest = IF b.reorgChecked THEN @ ELSE head,
                                  !.latestSeen = latest, !.todo = page,
                                  !.full = Cardinality(page) = conf.pageLimit,
                                  !.last = Max(page \union {0})]
    BY DEF FetchPage
  <1> DEFINE page == GetEvents(b.cursor, b.nextLedger, head, conf.pageLimit)
             last == Max(page \union {0})
  <1>3. /\ b'.at = "ingest" /\ b'.todo = page /\ b'.last = last
        /\ b'.nextLedger = b.nextLedger /\ b'.cursor = b.cursor /\ b'.firstHeldBack = Infinity
    BY <1>1, <1>2 DEF BatchTyped
  <1>4. \A e \in page : e \in Event /\ IF b.cursor # 0 THEN e > b.cursor
                                       ELSE LedgerOf(e) >= b.nextLedger
    BY DEF GetEvents
  <1> HIDE DEF page
  <1>5. b.nextLedger \in Nat /\ b.nextLedger >= StartLedger /\ FromStart(b.cursor)
        /\ StartLedger \in Nat
    BY <1>1, SyncAssumption DEF LivePlace, BatchTyped
  <1>6. ASSUME NEW e \in page PROVE LedgerOf(e) >= StartLedger
    <2>1. e \in Event /\ e \in Nat /\ LedgerOf(e) \in Nat
      BY <1>4, EventNumbers
    <2>2. CASE b.cursor = 0
      BY <1>4, <1>5, <2>1, <2>2
    <2>3. CASE b.cursor # 0
      <3>1. b.cursor \in Event /\ LedgerOf(b.cursor) >= StartLedger
        BY <1>5, <2>3 DEF FromStart
      <3>2. b.cursor \in Nat /\ LedgerOf(b.cursor) \in Nat
        BY <3>1, EventNumbers
      <3>3. b.cursor <= e
        BY <1>4, <2>1, <2>3, <3>2
      <3>4. LedgerOf(b.cursor) <= LedgerOf(e)
        BY <2>1, <3>1, <3>3, ChainOrder
      <3> QED
        BY <1>5, <2>1, <3>1, <3>2, <3>4
    <2> QED
      BY <2>2, <2>3
  <1>7. FromStart(last)
    <2>1. page \in SUBSET Event
      BY <1>4
    <2>2. last \in page \union {0}
      BY <2>1, LastOfPage
    <2> QED
      BY <1>6, <2>1, <2>2 DEF FromStart
  <1> HIDE DEF last
  <1>8. PagePlace'
    BY <1>1, <1>3, <1>6, <1>7 DEF PagePlace, Infinity
  <1> QED
    BY <1>3, <1>5, <1>8 DEF LivePlace

LEMMA BatchOrderKept ==
  ASSUME TablesInv, TablesInv', Orderly, GapInv, GapInv', CacheInv, OrderInv, Batch
  PROVE  OrderInv'
  <1>0. /\ h' = h /\ conf' = conf /\ closed' = closed
    BY DEF Batch, BatchStep, StartBatch, FetchPage, Rewind, ClearCursorAfterRewind, HoldBack,
           ReadBalance, IngestEvent, NextPage, ReachTip, DropCursor, FinishBatch,
           outboxVars, walkVars
  <1>1. /\ BatchTyped(b) /\ db \in Store /\ BatchPlace /\ BatchPlace' /\ LivePlace
        /\ Ordered(db, Reach) /\ MarksPlace(db) /\ (h.cmd = None => RowsFold(db))
    BY MarksTyped DEF GapInv, OrderInv
  <1>2. Reach' = Reach /\ Reach \in Nat
    BY <1>0, ReachTyped DEF Reach, Final
  <1>3. ASSUME SumsKept(db, db'), MarksPlace(db'), LivePlace' PROVE OrderInv'
    <2>1. Gains(db, db', {})
      BY <1>3, KeptIsRecorded DEF SumsKept
    <2>2. Ordered(db', Reach)
      BY <1>1, <1>2, <2>1, OrderKept
    <2>3. h'.cmd = None => RowsFold(db')
      BY <1>0, <1>1, <1>3, SumsStayTrue
    <2> QED
      BY <1>2, <1>3, <2>2, <2>3 DEF OrderInv
  <1>4. /\ SumsKept(db, db) /\ StartLedger \in Nat \ {0} /\ NextUp(db) \in Nat
        /\ NextUp(db) >= StartLedger /\ FromStart(db.event_cursor) /\ FromStart(0)
        /\ b.nextLedger \in Nat
    BY <1>1, MarksKeepSums, MarksTyped DEF MarksPlace, FromStart, BatchTyped
  <1>5. CASE StartBatch
    <2>1. /\ db' = db /\ b'.at = "request" /\ b'.nextLedger = NextUp(db)
          /\ b'.cursor = db.event_cursor
      BY <1>5 DEF StartBatch, Idle, NextUp
    <2>2. LivePlace'
      BY <1>4, <2>1 DEF LivePlace
    <2> QED
      BY <1>1, <1>3, <1>4, <2>1, <2>2
  <1>6. CASE FetchPage
    <2>1. db' = db
      BY <1>6 DEF FetchPage
    <2> QED
      BY <1>1, <1>3, <1>4, <1>6, <2>1, FetchPlace
  <1>7. CASE Rewind \/ ClearCursorAfterRewind
    BY <1>1, <1>7 DEF Rewind, ClearCursorAfterRewind, BatchPlace
  <1>8. ASSUME b.at = "ingest", b'.at = "ingest", b'.nextLedger = b.nextLedger,
               b'.cursor = b.cursor, b'.last = b.last, b'.latestSeen = b.latestSeen,
               b'.todo \subseteq b.todo,
               b'.firstHeldBack = b.firstHeldBack
               \/ b'.firstHeldBack > FinalLedgerFor(b.latestSeen, conf.lag)
        PROVE  LivePlace'
    BY <1>0, <1>1, <1>8 DEF LivePlace, PagePlace, Infinity
  <1>9. CASE HoldBack
    <2>1. /\ db' = db /\ b.at = "ingest" /\ b.todo # {} /\ ~IsFinal(Upcoming)
          /\ b' = [b EXCEPT !.todo = b.todo \ {Upcoming},
                            !.firstHeldBack = IF LedgerOf(Upcoming) < b.firstHeldBack
                                              THEN LedgerOf(Upcoming) ELSE b.firstHeldBack]
      BY <1>1, <1>9 DEF HoldBack, BatchTyped
    <2>2. /\ b'.at = "ingest" /\ b'.nextLedger = b.nextLedger /\ b'.cursor = b.cursor
          /\ b'.last = b.last /\ b'.latestSeen = b.latestSeen /\ b'.todo \subseteq b.todo
          /\ b'.firstHeldBack \in {b.firstHeldBack, LedgerOf(Upcoming)}
      BY <1>1, <2>1 DEF BatchTyped
    <2>3. LedgerOf(Upcoming) > FinalLedgerFor(b.latestSeen, conf.lag)
      <3>1. Upcoming \in Event
        BY <1>1, <2>1, FirstOfPage DEF Upcoming, BatchTyped
      <3>2. LedgerOf(Upcoming) \in Nat /\ FinalLedgerFor(b.latestSeen, conf.lag) \in Nat
        BY <1>1, <3>1, EventNumbers, PageLimits
      <3> QED
        BY <2>1, <3>2 DEF IsFinal
    <2>4. LivePlace'
      BY <1>8, <2>1, <2>2, <2>3
    <2> QED
      BY <1>1, <1>3, <1>4, <2>1, <2>4
  <1>10. CASE ReadBalance
    <2>1. /\ db' = db /\ b.at = "ingest"
          /\ b' = [b EXCEPT !.before = db.balances[ParseTokenTransferEvent(Upcoming).token]]
      BY <1>10 DEF ReadBalance
    <2>2. LivePlace'
      BY <1>1, <1>8, <2>1 DEF BatchTyped
    <2> QED
      BY <1>1, <1>3, <1>4, <2>1, <2>2
  <1>11. CASE IngestEvent
    <2>1. b.at = "ingest" /\ b' = [b EXCEPT !.todo = b.todo \ {Upcoming}, !.before = None]
      BY <1>1, <1>11 DEF IngestEvent, BatchTyped
    <2>2. /\ b'.at = "ingest" /\ b'.nextLedger = b.nextLedger /\ b'.cursor = b.cursor
          /\ b'.last = b.last /\ b'.latestSeen = b.latestSeen /\ b'.todo \subseteq b.todo
          /\ b'.firstHeldBack = b.firstHeldBack
      BY <1>1, <2>1 DEF BatchTyped
    <2>3. LivePlace'
      BY <1>8, <2>1, <2>2
    <2> QED
      BY <1>0, <1>2, <1>11, <2>3, IngestOrder DEF OrderInv
  <1>12. CASE NextPage
    <2>1. /\ db' = [db EXCEPT !.event_cursor = b.last] /\ b.at = "ingest"
          /\ b'.at # "ingest" /\ b'.cursor = b.last /\ b'.nextLedger = b.nextLedger
      BY <1>1, <1>12 DEF NextPage, BatchTyped
    <2>2. SumsKept(db, db') /\ db'.next_ledger = db.next_ledger /\ db'.event_cursor = b.last
      <3>1. SumsKept(db, db')
        BY <1>1, <2>1, MarksKeepSums
      <3> QED
        BY <1>1, <2>1, <3>1, CursorGains
    <2>3. FromStart(b.last) /\ b.nextLedger >= StartLedger
      BY <1>1, <2>1 DEF LivePlace, PagePlace
    <2>4. MarksPlace(db') /\ LivePlace'
      BY <1>4, <2>1, <2>2, <2>3 DEF MarksPlace, NextUp, LivePlace
    <2> QED
      BY <1>3, <2>2, <2>4
  <1>13. CASE ReachTip
    <2>1. /\ b.at = "ingest" /\ b'.at = "tip" /\ b'.cursor = b.cursor
          /\ b'.nextLedger = b.nextLedger /\ b.startingLedger = b.nextLedger
          /\ b.nextLedger >= StartLedger /\ FromStart(b.cursor)
      BY <1>1, <1>13 DEF ReachTip, BatchTyped, BatchPlace, LivePlace
    <2> DEFINE l == IF b.firstHeldBack < Infinity THEN b.firstHeldBack
                    ELSE FinalLedgerFor(b.latestSeen, conf.lag) + 1
               next == Max2(b.startingLedger, l)
    <2>2. db' = [db EXCEPT !.next_ledger = next]
      BY <1>13 DEF ReachTip
    <2>3. l \in Nat
      BY <1>1, PageLimits
    <2> HIDE DEF l
    <2>4. next \in Nat /\ next >= StartLedger
      BY <1>4, <2>1, <2>3 DEF Max2
    <2> HIDE DEF next
    <2>5. SumsKept(db, db') /\ db'.next_ledger = next /\ db'.event_cursor = db.event_cursor
      BY <1>1, <2>2, MarksKeepSums, NextLedgerGains
    <2>6. NextUp(db') >= StartLedger
      BY <1>4, <2>4, <2>5 DEF NextUp, Or
    <2>7. MarksPlace(db') /\ LivePlace'
      BY <1>4, <2>1, <2>5, <2>6 DEF MarksPlace, LivePlace
    <2> QED
      BY <1>3, <2>5, <2>7
  <1>14. CASE DropCursor
    <2>1. /\ db' = [db EXCEPT !.event_cursor = 0] /\ b.at = "tip"
          /\ b'.at = "finish" /\ b'.cursor = b.cursor /\ b'.nextLedger = b.nextLedger
      BY <1>1, <1>14 DEF DropCursor, BatchTyped
    <2>2. SumsKept(db, db') /\ db'.next_ledger = db.next_ledger /\ db'.event_cursor = 0
      <3>1. SumsKept(db, db')
        BY <1>1, <2>1, MarksKeepSums
      <3> QED
        BY <1>1, <2>1, <3>1, CursorGains
    <2>3. MarksPlace(db') /\ LivePlace'
      BY <1>1, <1>4, <2>1, <2>2 DEF MarksPlace, NextUp, LivePlace
    <2> QED
      BY <1>3, <2>2, <2>3
  <1>15. CASE FinishBatch
    <2>1. /\ db' = db \/ db' = [db EXCEPT !.last_seen_ledger = b.latestSeen]
          /\ b'.at = "idle"
      BY <1>15 DEF FinishBatch, Idle
    <2>2. SumsKept(db, db') /\ MarksKept(db, db')
      <3>1. SumsKept(db, db')
        BY <1>1, <2>1, MarksKeepSums
      <3>2. MarksKept(db, db)
        BY DEF MarksKept
      <3> QED
        BY <1>1, <2>1, <3>1, <3>2, LastSeenGains
    <2>3. LivePlace'
      BY <2>1 DEF LivePlace
    <2> QED
      BY <1>1, <1>3, <2>2, <2>3, MarksPlaceKept
  <1> QED
    BY <1>5, <1>6, <1>7, <1>9, <1>10, <1>11, <1>12, <1>13, <1>14, <1>15 DEF Batch, BatchStep

\* A command that begins, or finds nothing to do.
LEMMA StartOrder ==
  ASSUME TablesInv, GapInv, Orderly, OrderInv, NEW c \in conf.commands, StartRun(c)
  PROVE  Ordered(db', Reach') /\ MarksPlace(db') /\ (h'.cmd = None => RowsFold(db'))
  <1>1. /\ db \in Store /\ Sound(db) /\ RunPlace /\ RunRange /\ h.at = "idle"
        /\ Ordered(db, Reach) /\ MarksPlace(db) /\ (h.cmd = None => RowsFold(db))
        /\ conf' = conf /\ closed' = closed /\ Final' = Final
    BY MarksTyped DEF TablesInv, GapInv, RunPlace, OrderInv, StartRun, syncState, Final
  <1>2. Reach \in Nat /\ Final \in Nat /\ Reach \in {0, Final} /\ (h.cmd = None => Reach = 0)
    BY <1>1, ReachTyped DEF Reach
  <1>3. c \in {"backfill", "reindex"} /\ None \notin {"backfill", "reindex"}
    BY MarksTyped
  <1>4. PICK from \in conf.starts :
          LET range == ResolveHistoryRange(from, None)
              empty == range.start > range.end
              resuming == db.rebuilding /\ Resumes(db, c, range.start, range.end)
          IN  /\ h' = IF empty THEN NoRun
                      ELSE [NoRun EXCEPT !.at = IF c = "reindex" /\ ~resuming THEN "blank"
                                                ELSE IF c = "reindex" THEN "mark" ELSE "begin",
                                         !.cmd = c, !.start = range.start, !.end = range.end]
              /\ db' = IF c = "reindex" /\ ~resuming THEN ClearHistory(db) ELSE db
    BY DEF StartRun
  <1> DEFINE range == ResolveHistoryRange(from, None)
             phase == IF c = "reindex" /\ ~(db.rebuilding /\ Resumes(db, c, range.start, range.end))
                      THEN "blank" ELSE IF c = "reindex" THEN "mark" ELSE "begin"
  <1>5. range.start = from /\ range.end = Final /\ from \in Nat
    BY MarksTyped DEF ResolveHistoryRange, Final
  <1>6. /\ from > Final => h' = NoRun
        /\ ~(from > Final) => h' = [NoRun EXCEPT !.at = phase, !.cmd = c, !.start = from, !.end = Final]
    BY <1>4, <1>5
  <1>7. phase # "idle"
    OBVIOUS
  <1> HIDE DEF range, phase
  <1>8. /\ from > Final => h'.cmd = None
        /\ ~(from > Final) => h'.cmd = c /\ h'.at # "idle" /\ h'.end = Final
    <2>1. ASSUME from > Final PROVE h'.cmd = None
      BY <1>6, <2>1 DEF NoRun
    <2>2. ASSUME ~(from > Final) PROVE h'.cmd = c /\ h'.at = phase /\ h'.end = Final
      <3>1. h' = [NoRun EXCEPT !.at = phase, !.cmd = c, !.start = from, !.end = Final]
        BY <1>6, <2>2
      <3> QED
        BY ONLY <3>1 DEF NoRun
    <2> QED
      BY <1>7, <2>1, <2>2
  <1>9. Reach' = IF from > Final THEN 0 ELSE Final
    BY <1>3, <1>8 DEF Reach
  <1>10. CASE db' = ClearHistory(db)
    <2>1. (\A e \in Event : ~Recorded(db', e)) /\ MarksKept(db, db')
      BY <1>1, <1>10, ClearForgets
    <2>2. RowsFold(db')
      BY <1>1, <1>10, ClearFolds
    <2> QED
      BY <1>1, <2>1, <2>2, MarksPlaceKept DEF Ordered
  <1>11. CASE db' = db
    <2>1. CASE from > Final
      <3>1. h.cmd = None
        BY <1>1, <1>2, <1>5, <2>1 DEF RunRange
      <3> QED
        BY <1>1, <1>2, <1>9, <1>11, <2>1, <3>1
    <2>2. CASE ~(from > Final)
      <3>1. Gains(db, db', {}) /\ Reach <= Final
        BY <1>2, <1>11 DEF Gains
      <3>2. Ordered(db', Final)
        BY <1>1, <1>2, <3>1, OrderKept
      <3> QED
        BY <1>1, <1>3, <1>8, <1>9, <1>11, <2>2, <3>2
    <2> QED
      BY <2>1, <2>2
  <1> QED
    BY <1>4, <1>10, <1>11

\* The end of a command: its whole range is recorded.
LEMMA RecomputeOrder ==
  ASSUME TablesInv, GapInv, Orderly, OrderInv, CacheInv, RecomputeBalances
  PROVE  Ordered(db', Reach') /\ MarksPlace(db') /\ (h'.cmd = None => RowsFold(db'))
  <1> DEFINE n == ReplayBalances(db)
             v == IF h.cmd = "reindex" THEN FALSE ELSE n.rebuilding
  <1>1. /\ db \in Store /\ Sound(db) /\ SumsTrue(db) /\ RunPlace /\ h.at = "balances"
        /\ Ordered(db, Reach) /\ MarksPlace(db) /\ h' = NoRun /\ db' = [n EXCEPT !.rebuilding = v]
    BY MarksTyped DEF TablesInv, GapInv, OrderInv, CacheInv, RecomputeBalances
  <1>2. Gains(db, n, {}) /\ MarksKept(db, n) /\ n \in Store /\ RowsFold(n)
    BY <1>1, ReplayGains, RecomputeSound, RecomputeFolds DEF SumsTrue, Sound
  <1> HIDE DEF n, v
  <1>3. /\ Gains(n, db', {}) /\ db'.next_ledger = n.next_ledger
        /\ db'.event_cursor = n.event_cursor /\ db'.walk = n.walk
    BY <1>1, <1>2, RebuildingGains
  <1>4. SumsKept(n, db')
    BY <1>1, <1>2, MarksKeepSums
  <1>5. RowsFold(db')
    BY <1>2, <1>4, SumsStayTrue
  <1>6. MarksPlace(db')
    BY <1>1, <1>2, <1>3 DEF MarksPlace, MarksKept, NextUp
  <1>7. Reach = h.end /\ h.end \in Nat /\ Reach' = 0
    BY <1>1, ReachTyped DEF Reach, NoRun
  <1>8. Ordered(db', 0)
    <2>1. ASSUME NEW f \in Due, NEW q \in Event, ~Recorded(db', f), Recorded(db', q)
          PROVE  LedgerOf(q) <= LedgerOf(f)
      <3>1. ~Recorded(db, f) /\ Recorded(db, q)
        BY <1>2, <1>3, <2>1, DueTyped DEF Gains
      <3>2. ~(LedgerOf(f) <= h.end)
        BY <1>1, <3>1, RangeIsRecorded
      <3>3. LedgerOf(f) \in Nat /\ LedgerOf(q) \in Nat
        BY EventNumbers, DueTyped
      <3>4. LedgerOf(q) <= LedgerOf(f) \/ LedgerOf(q) <= h.end
        BY <1>1, <1>7, <3>1 DEF Ordered
      <3> QED
        BY <1>7, <3>2, <3>3, <3>4
    <2> QED
      BY <2>1 DEF Ordered
  <1> QED
    BY <1>5, <1>6, <1>7, <1>8

LEMMA RecordHistoricOrder ==
  ASSUME TablesInv, GapInv, Orderly, OrderInv, RecordHistoric
  PROVE  Ordered(db', h.end) /\ MarksKept(db, db')
  <1>1. db \in Store /\ RunTyped(h) /\ h.at = "record" /\ h.todo # {} /\ RunPage
        /\ Ordered(db, Reach)
    BY MarksTyped DEF RecordHistoric, GapInv, RunPlace, OrderInv
  <1>2. NextToRecord \in h.todo /\ NextToRecord \in Event
    BY <1>1, FirstOfPage DEF NextToRecord, RunTyped
  <1>3. db' = Recording(db, NextToRecord, h.before)
    BY DEF RecordHistoric, Recording
  <1>4. Gains(db, db', {NextToRecord} \intersect Indexed) /\ MarksKept(db, db')
    BY <1>1, <1>2, <1>3, RecordingGains
  <1>5. LedgerOf(NextToRecord) \in h.start..h.end
    BY <1>1, <1>2 DEF RunPage
  <1>6. LedgerOf(NextToRecord) <= h.end /\ Reach = h.end
    BY <1>1, <1>5, ReachTyped DEF RunTyped
  <1>7. ASSUME NEW f \in Due, NEW q \in Event, ~Recorded(db', f), Recorded(db', q)
        PROVE  LedgerOf(q) <= LedgerOf(f) \/ LedgerOf(q) <= h.end
    <2>1. ~Recorded(db, f) /\ (Recorded(db, q) \/ q = NextToRecord)
      BY <1>4, <1>7, DueTyped DEF Gains
    <2> QED
      BY <1>1, <1>6, <2>1 DEF Ordered
  <1> QED
    BY <1>4, <1>7 DEF Ordered

LEMMA HistoryOrderKept ==
  ASSUME TablesInv, TablesInv', Orderly, OneStart, GapInv, CacheInv, OrderInv, History
  PROVE  OrderInv'
  <1>1. /\ b' = b /\ conf' = conf /\ closed' = closed
    BY DEF History, HistoryNext, StartRun, BlankCheckpoint, MarkRebuilding, BeginWalk,
           RequestPage, ReadBalanceBefore, RecordHistoric, StorePage, CompleteWalk,
           ClearWalkCursor, ReadNextLedger, FinishHistoryRun, DropLiveCursor,
           RecomputeBalances, InterruptRun, syncState
  <1>2. /\ RunTyped(h) /\ db \in Store /\ RunRange /\ Final' = Final /\ StartLedger \in Nat
        /\ Ordered(db, Reach) /\ MarksPlace(db) /\ LivePlace
    BY <1>1, MarksTyped DEF GapInv, RunPlace, OrderInv, Final
  <1>3. LivePlace'
    BY <1>1, <1>2 DEF LivePlace, PagePlace
  <1>4. SUFFICES Ordered(db', Reach') /\ MarksPlace(db') /\ (h'.cmd = None => RowsFold(db'))
    BY <1>3 DEF OrderInv
  <1>5. CASE h.at = "idle"
    BY <1>5, StartOrder DEF History
  <1>6. CASE h.at # "idle"
    <2>1. Reach = h.end /\ h.cmd # None /\ Reach \in Nat
      BY <1>6, ReachTyped
    <2>2. ASSUME h'.at # "idle", h'.cmd = h.cmd, h'.end = h.end PROVE Reach' = Reach
      BY <2>1, <2>2 DEF Reach
    <2>3. ASSUME h'.at # "idle", h'.cmd = h.cmd, h'.end = h.end, SumsKept(db, db'), MarksPlace(db')
          PROVE  Ordered(db', Reach') /\ MarksPlace(db') /\ (h'.cmd = None => RowsFold(db'))
      <3>1. Gains(db, db', {})
        BY <2>3, KeptIsRecorded DEF SumsKept
      <3>2. Ordered(db', Reach)
        BY <1>2, <2>1, <3>1, OrderKept
      <3> QED
        BY <2>1, <2>2, <2>3, <3>2
    <2>4. ASSUME NEW c \in {"backfill", "reindex"} PROVE ~StartRun(c)
      BY <1>6 DEF StartRun
    <2>5. CASE BlankCheckpoint \/ BeginWalk \/ StorePage \/ CompleteWalk \/ ClearWalkCursor
      <3>1. h'.at # "idle" /\ h'.cmd = h.cmd /\ h'.end = h.end
        BY <1>2, <2>5 DEF BlankCheckpoint, BeginWalk, StorePage, CompleteWalk, ClearWalkCursor,
                           RunTyped
      <3>2. SumsKept(db, db')
        BY <1>2, <2>5 DEF BlankCheckpoint, BeginWalk, StorePage, CompleteWalk, ClearWalkCursor,
                           Store, SumsKept, TablesKept
      <3>3. db'.next_ledger = db.next_ledger /\ db'.event_cursor = db.event_cursor
        BY <1>2, <2>5 DEF BlankCheckpoint, BeginWalk, StorePage, CompleteWalk, ClearWalkCursor, Store
      <3>4. MarksPlace(db')
        BY <1>2, <3>3 DEF MarksPlace, NextUp
      <3> QED
        BY <2>3, <3>1, <3>2, <3>4
    <2>6. CASE MarkRebuilding
      <3>1. h'.at # "idle" /\ h'.cmd = h.cmd /\ h'.end = h.end
            /\ db' = [db EXCEPT !.rebuilding = TRUE]
        BY <1>2, <2>6 DEF MarkRebuilding, RunTyped
      <3>2. SumsKept(db, db')
        BY <1>2, <3>1, MarksKeepSums
      <3>3. db'.next_ledger = db.next_ledger /\ db'.event_cursor = db.event_cursor
        BY <1>2, <3>1, RebuildingGains
      <3>4. MarksPlace(db')
        BY <1>2, <3>3 DEF MarksPlace, NextUp
      <3> QED
        BY <2>3, <3>1, <3>2, <3>4
    <2>7. CASE RequestPage \/ ReadNextLedger \/ ReadBalanceBefore
      <3>1. h'.at # "idle" /\ h'.cmd = h.cmd /\ h'.end = h.end /\ db' = db
        BY <1>2, <2>7 DEF RequestPage, ReadNextLedger, ReadBalanceBefore, RunTyped
      <3>2. SumsKept(db, db')
        BY <1>2, <3>1, MarksKeepSums
      <3> QED
        BY <1>2, <2>3, <3>1, <3>2
    <2>8. CASE RecordHistoric
      <3>1. h'.at # "idle" /\ h'.cmd = h.cmd /\ h'.end = h.end
        BY <1>2, <2>8 DEF RecordHistoric, RunTyped
      <3>2. Ordered(db', h.end) /\ MarksKept(db, db')
        BY <2>8, RecordHistoricOrder
      <3> QED
        BY <1>2, <2>1, <2>2, <3>1, <3>2, MarksPlaceKept
    <2>9. CASE FinishHistoryRun
      <3>1. /\ h'.at # "idle" /\ h'.cmd = h.cmd /\ h'.end = h.end
            /\ db' = db \/ db' = [db EXCEPT !.next_ledger = h.end + 1]
        BY <1>2, <2>9 DEF FinishHistoryRun, RunTyped
      <3>2. SumsKept(db, db')
        BY <1>2, <3>1, MarksKeepSums
      <3>3. h.end \in Nat /\ h.end >= StartLedger /\ None \notin Int
        BY <1>2, <1>6, MarksTyped DEF RunRange, OneStart, RunTyped
      <3>4. CASE db' = db
        BY <1>2, <2>3, <3>1, <3>2, <3>4
      <3>5. CASE db' = [db EXCEPT !.next_ledger = h.end + 1]
        <4>1. db'.next_ledger = h.end + 1 /\ db'.event_cursor = db.event_cursor
          BY <1>2, <3>5, NextLedgerGains
        <4>2. NextUp(db') >= StartLedger
          BY <1>2, <3>3, <4>1 DEF NextUp, Or
        <4>3. MarksPlace(db')
          BY <1>2, <4>1, <4>2 DEF MarksPlace
        <4> QED
          BY <2>3, <3>1, <3>2, <4>3
      <3> QED
        BY <3>1, <3>4, <3>5
    <2>10. CASE DropLiveCursor
      <3>1. /\ h'.at # "idle" /\ h'.cmd = h.cmd /\ h'.end = h.end
            /\ db' = [db EXCEPT !.event_cursor = 0]
        BY <1>2, <2>10 DEF DropLiveCursor, RunTyped
      <3>2. SumsKept(db, db')
        BY <1>2, <3>1, MarksKeepSums
      <3>3. db'.next_ledger = db.next_ledger /\ db'.event_cursor = 0
        BY <1>2, <3>1, CursorGains
      <3>4. MarksPlace(db')
        BY <1>2, <3>3 DEF MarksPlace, NextUp, FromStart
      <3> QED
        BY <2>3, <3>1, <3>2, <3>4
    <2>11. CASE RecomputeBalances
      BY <2>11, RecomputeOrder
    <2>12. CASE InterruptRun
      <3>1. db' = db /\ h'.at = "idle" /\ h'.cmd = h.cmd
        BY <2>12 DEF InterruptRun, NoRun
      <3>2. Reach' = Final /\ Final \in Nat /\ Reach <= Final
        BY <1>2, <1>6, <2>1, <3>1, ReachTyped DEF Reach, RunRange
      <3>3. Gains(db, db', {})
        BY <3>1 DEF Gains
      <3>4. Ordered(db', Final)
        BY <1>2, <2>1, <3>2, <3>3, OrderKept
      <3> QED
        BY <1>2, <2>1, <3>1, <3>2, <3>4
    <2> QED
      BY <2>4, <2>5, <2>6, <2>7, <2>8, <2>9, <2>10, <2>11, <2>12 DEF History, HistoryNext
  <1> QED
    BY <1>5, <1>6

LEMMA OrderStarts == Init => OrderInv
  <1> SUFFICES ASSUME Init PROVE OrderInv
    OBVIOUS
  <1>1. db = [EmptyStore EXCEPT !.backend = conf.backend] /\ b = Idle /\ h = NoRun
        /\ StartLedger \in Nat
    BY SyncAssumption DEF Init, SyncInit, HistoryInit
  <1>2. db.entries = {} /\ db.events = {} /\ db.next_ledger = None /\ db.event_cursor = 0
    BY <1>1 DEF EmptyStore
  <1>3. \A e \in Event : ~Recorded(db, e)
    BY <1>2 DEF Recorded, Has
  <1>4. Ordered(db, Reach) /\ RowsFold(db)
    BY <1>2, <1>3 DEF Ordered, RowsFold
  <1>5. MarksPlace(db)
    BY <1>1, <1>2 DEF MarksPlace, NextUp, Or, FromStart
  <1>6. LivePlace
    BY <1>1 DEF LivePlace, Idle
  <1> QED
    BY <1>4, <1>5, <1>6 DEF OrderInv

LEMMA OrderStep ==
  /\ IndexerInv /\ IndexerInv' /\ Orderly /\ OneStart /\ FullPagesFinal
  /\ GapInv /\ CacheInv /\ OrderInv /\ [Next]_vars
  => OrderInv'
  <1> SUFFICES ASSUME IndexerInv, IndexerInv', Orderly, OneStart, FullPagesFinal, GapInv, CacheInv,
                      OrderInv, [Next]_vars
               PROVE  OrderInv'
    OBVIOUS
  <1>1. TablesInv /\ TablesInv' /\ GapInv'
    BY GapStep DEF IndexerInv
  <1>2. CASE Batch
    BY <1>1, <1>2, BatchOrderKept
  <1>3. CASE History
    BY <1>1, <1>3, HistoryOrderKept
  <1>4. CASE ~Batch /\ ~History
    <2>1. /\ conf' = conf /\ h' = h /\ (b' = b \/ b' = Idle) /\ seen' = seen /\ closed' >= closed
          /\ SumsKept(db, db') /\ MarksKept(db, db')
      BY <1>4, OtherSteps
    <2>2. /\ Ordered(db, Reach) /\ MarksPlace(db) /\ LivePlace /\ (h.cmd = None => RowsFold(db))
          /\ SyncTyped /\ SyncTyped'
      BY <1>1 DEF OrderInv, TablesInv
    <2>3. Final \in Nat /\ Final' \in Nat /\ Final <= Final'
      <3>1. closed \in Nat /\ closed' \in Nat
        BY <2>2 DEF SyncTyped
      <3> QED
        BY <2>1, <2>2, <3>1, FinalTyped DEF Final, SyncTyped
    <2>4. Reach \in Nat /\ Reach' \in Nat /\ Reach <= Reach'
      BY <1>1, <2>1, <2>3, ReachTyped DEF Reach
    <2>5. Gains(db, db', {})
      BY <2>1, KeptIsRecorded DEF SumsKept
    <2>6. Ordered(db', Reach')
      BY <2>2, <2>4, <2>5, OrderKept
    <2>7. MarksPlace(db') /\ (h'.cmd = None => RowsFold(db'))
      BY <2>1, <2>2, MarksPlaceKept, SumsStayTrue
    <2>8. LivePlace'
      <3>1. CASE b' = b
        BY <2>1, <2>2, <3>1 DEF LivePlace, PagePlace
      <3>2. CASE b' = Idle
        BY <3>2 DEF LivePlace, Idle
      <3> QED
        BY <2>1, <3>1, <3>2
    <2> QED
      BY <2>6, <2>7, <2>8 DEF OrderInv
  <1> QED
    BY <1>2, <1>3, <1>4

\* True caches, and running balances that are right whenever no command is pending.
LEMMA TablesFolded ==
  ASSUME IndexerInv, CacheInv, OrderInv
  PROVE  TablesExact
  <1>1. EachEventOnce
    BY DEF IndexerInv, TablesInv, Sound, OnePerEvent, EachEventOnce
  <1>2. BalancesFold
    BY DEF CacheInv, OrderInv, SumsTrue, CacheTrue, RowsFold, TokenOf, BalancesFold, HistoryPending
  <1> QED
    BY <1>1, <1>2 DEF TablesExact

\* As long as every full page ends among the final ledgers, the tables of an orderly indexer
\* whose commands begin at its first ledger are exact: each event once, and every cached and
\* running balance the fold of the stored transfers in chain order.
THEOREM TablesStayExact ==
  Spec /\ []FullPagesFinal => [](Orderly /\ OneStart => TablesExact)
  <1> DEFINE Inv == CacheInv /\ (Orderly => GapInv) /\ (Orderly /\ OneStart => OrderInv)
  <1>1. Init => Inv
    BY CacheStarts, GapStarts, OrderStarts
  <1>2. IndexerInv /\ IndexerInv' /\ FullPagesFinal /\ Inv /\ [Next]_vars => Inv'
    BY CacheStep, GapStep, OrderStep, ConfStays DEF Orderly, OneStart
  <1>3. IndexerInv /\ Inv => (Orderly /\ OneStart => TablesExact)
    BY TablesFolded
  <1> QED
    BY <1>1, <1>2, <1>3, IndexerInvariant, PTL DEF Spec

\* With whole pages nothing need be assumed of the run.
THEOREM TablesStayExactByWholePages ==
  Spec => [](Orderly /\ OneStart /\ WholePages => TablesExact)
  <1> DEFINE Whole == Orderly /\ WholePages
             Inv == PageInv /\ CacheInv /\ (Whole => GapInv) /\ (Whole /\ OneStart => OrderInv)
  <1>1. Init => Inv
    <2>1. Init => b.at = "idle"
      BY DEF Init, SyncInit, Idle
    <2> QED
      BY <2>1, CacheStarts, GapStarts, OrderStarts DEF PageInv
  <1>2. IndexerInv /\ Inv => (Whole => FullPagesFinal)
    BY WholePagesFinal
  <1>3. IndexerInv /\ IndexerInv' /\ Inv /\ [Next]_vars => Inv'
    <2>1. [Next]_vars => (Whole' => Whole) /\ (OneStart' => OneStart)
      BY ConfStays DEF Orderly, WholePages, OneStart
    <2> QED
      BY <1>2, <2>1, GapStep, PageStep, CacheStep, OrderStep
  <1>4. IndexerInv /\ Inv => (Orderly /\ OneStart /\ WholePages => TablesExact)
    BY TablesFolded
  <1> QED
    BY <1>1, <1>3, <1>4, IndexerInvariant, PTL DEF Spec

-----------------------------------------------------------------------------
(* The log of final events *)

\* No due event is missing before one that is recorded.
Prefixed(d) == \A f, q \in Due : f < q /\ Recorded(d, q) => Recorded(d, f)

\* What a step may do to the log: leave it, take in the event after all that is recorded
\* once that is final, or forget everything.
Appends(e) == /\ LedgerOf(e) <= Final
              /\ Gains(db, db', {e} \intersect Indexed)
              /\ \A f \in Due : f < e => Recorded(db, f)
LogMoves == \/ Gains(db, db', {})
            \/ closed' = closed /\ \E e \in Event : Appends(e)
            \/ closed' = closed /\ \A e \in Event : ~Recorded(db', e)

LEMMA IngestAppends ==
  ASSUME TablesInv, GapInv, Orderly, OrderInv, IngestEvent
  PROVE  \E e \in Event : Appends(e)
  <1> DEFINE e == Upcoming
             final == FinalLedgerFor(b.latestSeen, conf.lag)
  <1>1. /\ b.at = "ingest" /\ b.todo # {} /\ IsFinal(e) /\ BatchPage /\ PagePlace
        /\ BatchTyped(b) /\ db \in Store
    BY MarksTyped DEF IngestEvent, GapInv, BatchPlace, OrderInv, LivePlace
  <1>2. e \in b.todo /\ e \in Event /\ \A f \in b.todo : e <= f
    BY <1>1, FirstOfPage DEF Upcoming, BatchTyped
  <1>3. db' = Recording(db, e, b.before)
    BY DEF IngestEvent, Recording
  <1>4. /\ b.latestSeen \in Nat /\ b.latestSeen < Infinity /\ final \in Nat /\ final <= Final
        /\ Final \in Nat /\ b.firstHeldBack \in Nat /\ Infinity \in Nat
        /\ LedgerOf(e) \in Nat /\ e \in Nat /\ b.last \in Nat
    BY <1>2, PageLimits, EventNumbers DEF GapInv
  <1>5. LedgerOf(e) <= final /\ LedgerOf(e) <= b.latestSeen /\ (b.full => e <= b.last)
    BY <1>1, <1>2 DEF IsFinal, BatchPage
  <1>6. b.firstHeldBack = Infinity \/ b.firstHeldBack > final
    BY <1>1 DEF PagePlace
  <1> HIDE DEF e, final
  <1>7. ASSUME NEW f \in Due, f < e PROVE Recorded(db, f)
    <2>1. f \in Event /\ f \in Nat /\ LedgerOf(f) \in Nat
      BY DueTyped
    <2>2. LedgerOf(f) <= LedgerOf(e)
      BY <1>2, <1>4, <1>7, <2>1, ChainOrder
    <2>3. LedgerOf(f) <= b.latestSeen /\ (b.full => f <= b.last)
      BY <1>4, <1>5, <1>7, <2>1, <2>2
    <2>4. Recorded(db, f) \/ f \in b.todo \/ b.firstHeldBack <= LedgerOf(f)
      BY <1>1, <2>3 DEF BatchPage
    <2>5. f \notin b.todo
      BY <1>2, <1>4, <1>7, <2>1
    <2> QED
      BY <1>4, <1>5, <1>6, <2>1, <2>2, <2>4, <2>5
  <1>8. Gains(db, db', {e} \intersect Indexed)
    BY <1>1, <1>2, <1>3, RecordingGains
  <1>9. LedgerOf(e) <= Final
    BY <1>4, <1>5
  <1> QED
    BY <1>2, <1>7, <1>8, <1>9 DEF Appends

\* What is left of a command's full page comes no later than the page's last event.
RestOfPage == h.at = "record" /\ h.full => \A e \in h.todo : e <= h.last

LEMMA HistoricAppends ==
  ASSUME TablesInv, GapInv, OneStart, RestOfPage, RecordHistoric
  PROVE  \E e \in Event : Appends(e)
  <1> DEFINE e == NextToRecord
  <1>1. db \in Store /\ RunTyped(h) /\ h.at = "record" /\ h.todo # {} /\ RunPage /\ RunRange
        /\ conf.starts \in SUBSET Nat /\ StartLedger \in Nat /\ SyncTyped
    BY MarksTyped DEF RecordHistoric, GapInv, RunPlace
  <1>2. e \in h.todo /\ e \in Event /\ \A f \in h.todo : e <= f
    BY <1>1, FirstOfPage DEF NextToRecord, RunTyped
  <1>3. db' = Recording(db, e, h.before)
    BY DEF RecordHistoric, Recording
  <1>4. Gains(db, db', {e} \intersect Indexed)
    BY <1>1, <1>2, <1>3, RecordingGains
  <1>5. h.start = StartLedger /\ h.end <= Final /\ h.end \in Nat /\ Final \in Nat /\ h.last \in Nat
    BY <1>1, FinalTyped DEF RunRange, OneStart, RunTyped
  <1>6. LedgerOf(e) \in h.start..h.end /\ LedgerOf(e) \in Nat /\ e \in Nat
    BY <1>1, <1>2, EventNumbers DEF RunPage
  <1> HIDE DEF e
  <1>7. LedgerOf(e) <= Final
    BY <1>5, <1>6
  <1>8. ASSUME NEW f \in Due, f < e PROVE Recorded(db, f)
    <2>1. /\ f \in Event /\ f \in Nat /\ f \in Indexed /\ LedgerOf(f) \in Nat
          /\ LedgerOf(f) >= StartLedger
      BY DueTyped
    <2>2. LedgerOf(f) <= LedgerOf(e)
      BY <1>2, <1>6, <1>8, <2>1, ChainOrder
    <2>3. LedgerOf(f) \in h.start..h.end
      BY <1>1, <1>5, <1>6, <2>1, <2>2
    <2>4. h.full => f <= h.last
      <3>1. h.full => e <= h.last
        BY <1>1, <1>2 DEF RestOfPage
      <3> QED
        BY <1>5, <1>6, <1>8, <2>1, <3>1
    <2>5. Recorded(db, f) \/ f \in h.todo
      BY <1>1, <2>1, <2>3, <2>4 DEF RunPage
    <2> QED
      BY <1>2, <1>6, <1>8, <2>1, <2>5
  <1> QED
    BY <1>2, <1>4, <1>7, <1>8 DEF Appends

LEMMA BatchMoves ==
  ASSUME TablesInv, GapInv, Orderly, OrderInv, Batch
  PROVE  LogMoves
  <1>1. db \in Store /\ BatchTyped(b) /\ BatchPlace
    BY MarksTyped DEF GapInv
  <1>2. CASE IngestEvent
    BY <1>2, IngestAppends DEF LogMoves, IngestEvent
  <1>3. CASE Rewind \/ ClearCursorAfterRewind
    BY <1>1, <1>3 DEF Rewind, ClearCursorAfterRewind, BatchPlace
  <1>4. CASE StartBatch \/ FetchPage \/ HoldBack \/ ReadBalance \/ NextPage \/ ReachTip
             \/ DropCursor \/ FinishBatch
    <2>1. TablesKept(db, db')
      BY <1>1, <1>4 DEF StartBatch, FetchPage, HoldBack, ReadBalance, NextPage, ReachTip,
                        DropCursor, FinishBatch, Store, TablesKept
    <2> QED
      BY <2>1, KeptIsRecorded DEF LogMoves
  <1> QED
    BY <1>2, <1>3, <1>4 DEF Batch, BatchStep

LEMMA HistoryMoves ==
  ASSUME TablesInv, GapInv, OneStart, RestOfPage, History
  PROVE  LogMoves
  <1>1. db \in Store /\ closed' = closed
    BY MarksTyped DEF History, HistoryNext, StartRun, BlankCheckpoint, MarkRebuilding, BeginWalk,
           RequestPage, ReadBalanceBefore, RecordHistoric, StorePage, CompleteWalk,
           ClearWalkCursor, ReadNextLedger, FinishHistoryRun, DropLiveCursor,
           RecomputeBalances, InterruptRun, syncState
  <1>2. ASSUME NEW c \in {"backfill", "reindex"}, StartRun(c) PROVE LogMoves
    <2>1. db' = db \/ db' = ClearHistory(db)
      BY <1>2 DEF StartRun
    <2>2. CASE db' = db
      BY <2>2 DEF LogMoves, Gains
    <2>3. CASE db' = ClearHistory(db)
      BY <1>1, <2>3, ClearForgets DEF LogMoves
    <2> QED
      BY <2>1, <2>2, <2>3
  <1>3. CASE BlankCheckpoint \/ MarkRebuilding \/ BeginWalk \/ RequestPage \/ ReadBalanceBefore
             \/ StorePage \/ CompleteWalk \/ ClearWalkCursor \/ ReadNextLedger
             \/ FinishHistoryRun \/ DropLiveCursor \/ InterruptRun
    <2>1. db'.entries = db.entries /\ db'.events = db.events
      BY <1>1, <1>3 DEF BlankCheckpoint, MarkRebuilding, BeginWalk, RequestPage, ReadBalanceBefore,
                        StorePage, CompleteWalk, ClearWalkCursor, ReadNextLedger,
                        FinishHistoryRun, DropLiveCursor, InterruptRun, Store
    <2> QED
      BY <2>1 DEF LogMoves, Gains, Recorded
  <1>4. CASE RecordHistoric
    BY <1>1, <1>4, HistoricAppends DEF LogMoves
  <1>5. CASE RecomputeBalances
    <2> DEFINE n == ReplayBalances(db)
               v == IF h.cmd = "reindex" THEN FALSE ELSE n.rebuilding
    <2>1. Gains(db, n, {}) /\ n \in Store
      BY <1>1, ReplayGains, RecomputeSound DEF TablesInv, Sound
    <2>2. db' = [n EXCEPT !.rebuilding = v]
      BY <1>5 DEF RecomputeBalances
    <2> HIDE DEF n, v
    <2>3. Gains(n, db', {})
      BY <2>1, <2>2, RebuildingGains
    <2> QED
      BY <2>1, <2>3 DEF LogMoves, Gains
  <1> QED
    BY <1>2, <1>3, <1>4, <1>5 DEF History, HistoryNext

LEMMA StepMoves ==
  ASSUME IndexerInv, GapInv, Orderly, OneStart, OrderInv, RestOfPage, [Next]_vars
  PROVE  LogMoves
  <1>1. TablesInv
    BY DEF IndexerInv
  <1>2. CASE Batch
    BY <1>1, <1>2, BatchMoves
  <1>3. CASE History
    BY <1>1, <1>3, HistoryMoves
  <1>4. CASE ~Batch /\ ~History
    <2>1. SumsKept(db, db')
      BY <1>4, OtherSteps
    <2> QED
      BY <2>1, KeptIsRecorded DEF LogMoves, SumsKept
  <1> QED
    BY <1>2, <1>3, <1>4

LEMMA PrefixKept ==
  ASSUME LogMoves, Prefixed(db)
  PROVE  Prefixed(db')
  <1>1. \A f \in Due : f \in Event
    BY DueTyped
  <1>2. CASE Gains(db, db', {})
    BY <1>1, <1>2 DEF Prefixed, Gains
  <1>3. ASSUME NEW e \in Event, Appends(e) PROVE Prefixed(db')
    BY <1>1, <1>3 DEF Prefixed, Gains, Appends
  <1>4. CASE \A e \in Event : ~Recorded(db', e)
    BY <1>1, <1>4 DEF Prefixed
  <1> QED
    BY <1>2, <1>3, <1>4 DEF LogMoves

LEMMA RestOfPageKept ==
  ASSUME TablesInv, RestOfPage, History
  PROVE  RestOfPage'
  <1>1. RunTyped(h)
    BY MarksTyped
  <1>2. CASE RequestPage
    <2> DEFINE page == GetEvents(h.cursor, h.start, closed, conf.pageLimit)
    <2>1. h'.todo \subseteq page /\ h'.last = Max(page \union {0})
      BY <1>1, <1>2 DEF RequestPage, RunTyped
    <2>2. page \in SUBSET Event
      BY DEF GetEvents
    <2> HIDE DEF page
    <2> QED
      BY <2>1, <2>2, LastOfPage DEF RestOfPage
  <1>3. CASE RecordHistoric \/ ReadBalanceBefore
    <2>1. h.at = "record" /\ h'.todo \subseteq h.todo /\ h'.full = h.full /\ h'.last = h.last
      BY <1>1, <1>3 DEF RecordHistoric, ReadBalanceBefore, RunTyped
    <2> QED
      BY <2>1 DEF RestOfPage
  <1>4. ASSUME NEW c \in {"backfill", "reindex"}, StartRun(c) PROVE RestOfPage'
    <2>1. h'.at # "record"
      BY <1>4 DEF StartRun, NoRun
    <2> QED
      BY <2>1 DEF RestOfPage
  <1>5. CASE BlankCheckpoint \/ MarkRebuilding \/ BeginWalk \/ StorePage \/ CompleteWalk
             \/ ClearWalkCursor \/ ReadNextLedger \/ FinishHistoryRun \/ DropLiveCursor
             \/ RecomputeBalances \/ InterruptRun
    <2>1. CASE BlankCheckpoint \/ MarkRebuilding \/ BeginWalk \/ StorePage \/ CompleteWalk
      <3>1. h'.at # "record"
        BY <1>1, <2>1 DEF BlankCheckpoint, MarkRebuilding, BeginWalk, StorePage, CompleteWalk, RunTyped
      <3> QED
        BY <3>1 DEF RestOfPage
    <2>2. CASE ClearWalkCursor \/ ReadNextLedger \/ FinishHistoryRun \/ DropLiveCursor
      <3>1. h'.at # "record"
        BY <1>1, <2>2 DEF ClearWalkCursor, ReadNextLedger, FinishHistoryRun, DropLiveCursor, RunTyped
      <3> QED
        BY <3>1 DEF RestOfPage
    <2>3. CASE RecomputeBalances \/ InterruptRun
      <3>1. h' = NoRun \/ h' = [NoRun EXCEPT !.cmd = h.cmd]
        BY <2>3 DEF RecomputeBalances, InterruptRun
      <3>2. h'.at = "idle"
        BY ONLY <3>1 DEF NoRun
      <3> QED
        BY <3>2 DEF RestOfPage
    <2> QED
      BY <1>5, <2>1, <2>2, <2>3
  <1> QED
    BY <1>2, <1>3, <1>4, <1>5 DEF History, HistoryNext

LEMMA LogStep ==
  ASSUME IndexerInv, GapInv, Orderly, OneStart, OrderInv, RestOfPage, Prefixed(db), [Next]_vars
  PROVE  RestOfPage' /\ Prefixed(db')
  <1>1. Prefixed(db')
    BY StepMoves, PrefixKept
  <1>2. ASSUME History PROVE RestOfPage'
    BY <1>2, RestOfPageKept DEF IndexerInv
  <1>3. ASSUME Batch PROVE RestOfPage'
    <2>1. h' = h
      BY <1>3 DEF Batch, walkVars
    <2> QED
      BY <2>1 DEF RestOfPage
  <1>4. ASSUME ~Batch, ~History PROVE RestOfPage'
    <2>1. h' = h
      BY <1>4, OtherSteps
    <2> QED
      BY <2>1 DEF RestOfPage
  <1>5. RestOfPage'
    BY <1>2, <1>3, <1>4
  <1> QED
    BY <1>1, <1>5

\* A log without holes consists of the due events up to the last one stored.
StoredIn(d) == {e \in Due : Recorded(d, e)}

LEMMA StoredPrefix ==
  ASSUME NEW d, Prefixed(d)
  PROVE  LET S == StoredIn(d)
         IN  /\ S = {e \in Due : e <= Max(S \union {0})}
             /\ S \in SUBSET Due /\ IsFiniteSet(S) /\ Cardinality(S) \in Nat
             /\ \A e \in Due, q \in S : e <= q => e \in S
  <1> DEFINE S == StoredIn(d)
             top == Max(S \union {0})
  <1>1. S \in SUBSET Due /\ S \in SUBSET Event /\ IsFiniteSet(S) /\ Cardinality(S) \in Nat
    <2>1. S \in SUBSET Due /\ S \in SUBSET Event /\ IsFiniteSet(Event)
      BY DueTyped, EventNumbers DEF StoredIn
    <2> QED
      BY <2>1, FS_Subset, FS_CardinalityType
  <1> HIDE DEF S
  <1>2. top \in Nat /\ top \in S \union {0} /\ \A e \in S : e <= top
    BY <1>1, LastOfPage
  <1> HIDE DEF top
  <1>3. ASSUME NEW e \in Due, NEW q \in S, e <= q PROVE e \in S
    <2>1. q \in Due /\ Recorded(d, q) /\ q \in Nat /\ e \in Nat
      BY DueTyped DEF S, StoredIn
    <2>2. Recorded(d, e)
      BY <1>3, <2>1 DEF Prefixed
    <2> QED
      BY <2>2 DEF S, StoredIn
  <1>4. ASSUME NEW e \in Due, e <= top PROVE e \in S
    <2>1. e \in Nat /\ e # 0
      BY DueTyped
    <2>2. top # 0
      BY <1>2, <1>4, <2>1
    <2> QED
      BY <1>2, <1>3, <1>4, <2>2
  <1>5. S = {e \in Due : e <= top}
    BY <1>1, <1>2, <1>4
  <1> QED
    BY <1>1, <1>3, <1>5 DEF S, top

\* The event taken in is the next of the log, and a log of more than it has a place for it.
LEMMA NextOfLog ==
  ASSUME NEW S, S \in SUBSET Due, NEW e \in Due, e \notin S, \A f \in Due : f <= e <=> f \in S \union {e}
  PROVE  /\ Cardinality(S) < Len(DueLedgers)
         /\ DueLedgers[Cardinality(S) + 1] = LedgerOf(e)
  <1> DEFINE upto(x) == {f \in Due : f <= x}
             n == Cardinality(S) + 1
             N == Cardinality(Due)
             place == [k \in 1..N |-> LedgerOf(CHOOSE x \in Due : Cardinality(upto(x)) = k)]
  <1>1. IsFiniteSet(Due) /\ IsFiniteSet(S) /\ Cardinality(S) \in Nat /\ N \in Nat /\ Due \in SUBSET Nat
    <2>1. Due \in SUBSET Event /\ IsFiniteSet(Event) /\ Event \in SUBSET Nat
      BY DueTyped, EventNumbers
    <2>2. IsFiniteSet(Due)
      BY <2>1, FS_Subset
    <2> QED
      BY <2>1, <2>2, FS_Subset, FS_CardinalityType
  <1>2. upto(e) = S \union {e}
    OBVIOUS
  <1>3. Cardinality(upto(e)) = n
    BY <1>1, <1>2, FS_AddElement
  <1>4. \A x \in Due : IsFiniteSet(upto(x)) /\ Cardinality(upto(x)) \in Nat /\ upto(x) \in SUBSET Due
    BY <1>1, FS_Subset, FS_CardinalityType
  <1>5. n <= N
    BY <1>1, <1>3, FS_Subset
  <1>6. ASSUME NEW x \in Due, Cardinality(upto(x)) = n PROVE x = e
    <2>1. x \in Nat /\ e \in Nat
      BY <1>1
    <2>2. ASSUME x < e PROVE FALSE
      <3>1. upto(x) \in SUBSET upto(e) /\ e \in upto(e) /\ e \notin upto(x)
        <4>1. ASSUME NEW f \in Due, f <= x PROVE f <= e
          BY <1>1, <2>1, <2>2, <4>1
        <4>2. e <= e /\ ~(e <= x)
          BY <2>1, <2>2
        <4> QED
          BY <4>1, <4>2
      <3>2. upto(x) = upto(e)
        BY <1>3, <1>4, <1>6, <3>1, FS_Subset
      <3> QED
        BY <3>1, <3>2
    <2>3. ASSUME e < x PROVE FALSE
      <3>1. upto(e) \in SUBSET upto(x) /\ x \in upto(x) /\ x \notin upto(e)
        <4>1. ASSUME NEW f \in Due, f <= e PROVE f <= x
          BY <1>1, <2>1, <2>3, <4>1
        <4>2. x <= x /\ ~(x <= e)
          BY <2>1, <2>3
        <4> QED
          BY <4>1, <4>2
      <3>2. upto(x) = upto(e)
        BY <1>3, <1>4, <1>6, <3>1, FS_Subset
      <3> QED
        BY <3>1, <3>2
    <2> QED
      BY <2>1, <2>2, <2>3
  <1>7. DueLedgers = place
    BY DEF DueLedgers
  <1>8. (CHOOSE x \in Due : Cardinality(upto(x)) = n) = e
    BY <1>3, <1>6
  <1> HIDE DEF upto
  <1>9. n \in 1..N
    BY <1>1, <1>5
  <1>10. place[n] = LedgerOf(e)
    BY <1>8, <1>9
  <1>11. Len(place) = N
    <2> DEFINE L == {place[k] : k \in 1..N}
    <2>1. place \in [1..N -> L]
      OBVIOUS
    <2> HIDE DEF place, L
    <2>2. place \in Seq(L)
      BY <1>1, <2>1
    <2> QED
      BY <1>1, <2>1, <2>2, LenProperties
  <1> QED
    BY <1>1, <1>5, <1>7, <1>10, <1>11

LEMMA LogStarts == Init => Log!Init /\ RestOfPage /\ Prefixed(db)
  <1> SUFFICES ASSUME Init PROVE Log!Init /\ RestOfPage /\ Prefixed(db)
    OBVIOUS
  <1>1. /\ db.entries = {} /\ db.events = {} /\ h.at = "idle" /\ IndexerInv
    BY IndexerStarts DEF Init, EmptyStore, HistoryInit, NoRun
  <1>2. \A e \in Event : ~Recorded(db, e)
    BY <1>1 DEF Recorded, Has
  <1>3. Prefixed(db) /\ RestOfPage
    BY <1>1, <1>2, DueTyped DEF Prefixed, RestOfPage
  <1>4. StoredLength = 0
    <2>1. Stored = {}
      BY <1>2, DueTyped DEF Stored
    <2>2. Stored = {e \in Due : e <= Max(Stored \union {0})}
      BY <1>3, StoredPrefix DEF Stored, StoredIn
    <2> QED
      BY <2>1, <2>2, FS_EmptySet DEF StoredLength
  <1>5. FinalLedgerFor(closed, conf.lag) \in Nat
    BY <1>1, FinalTyped DEF IndexerInv, TablesInv, Final
  <1> QED
    BY <1>3, <1>4, <1>5 DEF Log!Init

LEMMA ClockMoves == [Next]_vars => closed' = closed \/ closed' = closed + 1
  BY DEF Next, vars, syncVars, outboxVars, walkVars, Batch, BatchStep, StartBatch, FetchPage, Rewind,
         ClearCursorAfterRewind, HoldBack, ReadBalance, IngestEvent, NextPage, ReachTip, DropCursor,
         FinishBatch, Enqueue, EnqueueStep, StartTick, ClaimDue, StartCursor, EnqueueNew, Deliver,
         SendStep, FinishTick, Unconfigured, Send, RecordAttempt, Backoff, BackoffElapses, Restart,
         History, HistoryNext, StartRun, BlankCheckpoint, MarkRebuilding, BeginWalk, RequestPage,
         ReadBalanceBefore, RecordHistoric, StorePage, CompleteWalk, ClearWalkCursor, ReadNextLedger,
         FinishHistoryRun, DropLiveCursor, RecomputeBalances, InterruptRun, syncState, CloseLedger,
         FailBatch, OutboxEnvironment, Requeue, EditDestination

LEMMA LogMapped ==
  ASSUME IndexerInv, IndexerInv', GapInv, Orderly, OneStart, OrderInv, RestOfPage, Prefixed(db), [Next]_vars
  PROVE  [Log!Next]_Log!logVars
  <1>1. /\ LogMoves /\ conf' = conf /\ Prefixed(db)' /\ db' \in Store
        /\ Due' = Due /\ DueLedgers' = DueLedgers
    BY StepMoves, LogStep, ConfStays, MarksTyped DEF IndexerInv, TablesInv, Sound, Due, DueLedgers
  <1>2. FinalLedgerFor(closed, conf.lag) \in Nat /\ closed \in Nat /\ conf.lag \in Nat
    BY FinalTyped DEF IndexerInv, TablesInv, SyncTyped, Final
  <1> DEFINE S == StoredIn(db)
             T == StoredIn(db')
  <1>3. /\ StoredLength = Cardinality(S) /\ S \in SUBSET Due /\ IsFiniteSet(S) /\ Cardinality(S) \in Nat
        /\ \A e \in Due, q \in S : e <= q => e \in S
    <2>1. Stored = S
      BY DEF Stored, StoredIn
    <2> QED
      BY <2>1, StoredPrefix DEF StoredLength
  <1>4. /\ StoredLength' = Cardinality(T) /\ T \in SUBSET Due /\ IsFiniteSet(T) /\ Cardinality(T) \in Nat
    <2>1. Stored' = T
      BY <1>1 DEF Stored, StoredIn
    <2>2. /\ T = {e \in Due : e <= Max(T \union {0})}
          /\ T \in SUBSET Due /\ IsFiniteSet(T) /\ Cardinality(T) \in Nat
      BY <1>1, StoredPrefix
    <2> HIDE DEF T
    <2>3. StoredLength' = IF T = {e \in Due : e <= Max(T \union {0})} THEN Cardinality(T) ELSE -1
      BY <1>1, <2>1 DEF StoredLength
    <2> QED
      BY <2>2, <2>3
  <1>5. \A e \in Due : e \in Event /\ e \in Indexed /\ e \in Nat /\ LedgerOf(e) \in Nat
    BY DueTyped
  <1> DEFINE final == FinalLedgerFor(closed, conf.lag)
  <1>6. final' \in final..final + 1 /\ (closed' = closed => final' = final)
    <2>1. closed' = closed \/ closed' = closed + 1
      BY ClockMoves
    <2> QED
      BY <1>1, <1>2, <2>1 DEF FinalLedgerFor, Max2
  <1>7. Final = final
    BY DEF Final
  <1>8. ASSUME T = S PROVE Log!Next
    <2>1. StoredLength' = StoredLength
      BY <1>3, <1>4, <1>8
    <2> QED
      BY <1>6, <2>1 DEF Log!Next, Log!Close
  <1>9. CASE Gains(db, db', {})
    <2>1. T = S
      BY <1>5, <1>9 DEF Gains, S, T, StoredIn
    <2> QED
      BY <1>8, <2>1
  <1>10. ASSUME closed' = closed, NEW e \in Event, Appends(e) PROVE Log!Next
    <2>1. CASE e \notin Due \/ e \in S
      <3>1. T = S
        BY <1>5, <1>10, <2>1 DEF Appends, Gains, S, T, StoredIn
      <3> QED
        BY <1>8, <3>1
    <2>2. CASE e \in Due /\ e \notin S
      <3>1. T = S \union {e}
        BY <1>5, <1>10, <2>2 DEF Appends, Gains, S, T, StoredIn
      <3>2. \A f \in Due : f <= e <=> f \in S \union {e}
        <4>1. ASSUME NEW f \in Due, f <= e PROVE f \in S \union {e}
          <5>1. f = e \/ f < e
            BY <1>5, <2>2, <4>1
          <5> QED
            BY <1>10, <5>1 DEF Appends, S, StoredIn
        <4>2. ASSUME NEW f \in Due, f \in S \union {e} PROVE f <= e
          <5>1. f \in Nat /\ e \in Nat
            BY <1>5, <2>2
          <5>2. f \in S => ~(e <= f)
            BY <1>3, <2>2
          <5> QED
            BY <4>2, <5>1, <5>2
        <4> QED
          BY <4>1, <4>2
      <3>3. /\ Cardinality(S) < Len(DueLedgers)
            /\ DueLedgers[Cardinality(S) + 1] = LedgerOf(e)
        BY <1>3, <2>2, <3>2, NextOfLog
      <3>4. StoredLength' = StoredLength + 1
        BY <1>3, <1>4, <2>2, <3>1, FS_AddElement
      <3>5. LedgerOf(e) <= final
        BY <1>7, <1>10 DEF Appends
      <3>6. Log!Append1
        BY <1>3, <1>6, <1>10, <3>3, <3>4, <3>5 DEF Log!Append1
      <3> QED
        BY <3>6 DEF Log!Next
    <2> QED
      BY <2>1, <2>2
  <1>11. CASE closed' = closed /\ \A e \in Event : ~Recorded(db', e)
    <2>1. T = {}
      BY <1>5, <1>11 DEF T, StoredIn
    <2>2. StoredLength' = 0
      BY <1>4, <2>1, FS_EmptySet
    <2>3. Log!Rollback
      BY <1>3, <1>6, <1>11, <2>2 DEF Log!Rollback
    <2> QED
      BY <2>3 DEF Log!Next
  <1> QED
    BY <1>1, <1>9, <1>10, <1>11 DEF LogMoves

\* The safety of ImplementsFinalLog: the tables are at all times a prefix of the due events,
\* which grows by one event at a time, none of them before its ledger is final.
ImplementsLog == Log!Init /\ [][Log!Next]_Log!logVars

\* As long as every full page ends among the final ledgers, an orderly indexer whose commands
\* begin at its first ledger implements that safety, rebuilds included.
THEOREM TablesAreThePrefix ==
  Spec /\ []FullPagesFinal /\ Orderly /\ OneStart => ImplementsLog
  <1> DEFINE Exact == Orderly /\ OneStart
             Inv == CacheInv /\ GapInv /\ OrderInv /\ RestOfPage /\ Prefixed(db)
  <1>1. Init /\ Exact => Inv /\ Log!Init
    BY CacheStarts, GapStarts, OrderStarts, LogStarts
  <1>2. Exact /\ [Next]_vars => Exact'
    BY ConfStays DEF Orderly, OneStart
  <1>3. IndexerInv /\ IndexerInv' /\ FullPagesFinal /\ Exact /\ Inv /\ [Next]_vars => Inv'
    <2> SUFFICES ASSUME IndexerInv, IndexerInv', FullPagesFinal, Exact, Inv, [Next]_vars
                 PROVE  Inv'
      OBVIOUS
    <2>1. CacheInv' /\ GapInv' /\ OrderInv'
      BY CacheStep, GapStep, OrderStep
    <2>2. RestOfPage' /\ Prefixed(db')
      BY LogStep
    <2> QED
      BY <2>1, <2>2
  <1>4. IndexerInv /\ IndexerInv' /\ Exact /\ Inv /\ [Next]_vars => [Log!Next]_Log!logVars
    BY LogMapped
  <1> HIDE DEF Inv, Exact
  <1>5. Spec /\ []FullPagesFinal /\ Exact => ImplementsLog
    BY <1>1, <1>2, <1>3, <1>4, IndexerInvariant, PTL DEF Spec, ImplementsLog
  <1> QED
    BY <1>5 DEF Exact

\* With whole pages nothing need be assumed of the run.
THEOREM TablesAreThePrefixByWholePages ==
  Spec /\ Orderly /\ OneStart /\ WholePages => ImplementsLog
  <1> DEFINE Whole == Orderly /\ WholePages
             Inv == PageInv /\ GapInv
  <1>1. Init /\ Whole => Inv
    <2>1. Init => b.at = "idle"
      BY DEF Init, SyncInit, Idle
    <2> QED
      BY <2>1, GapStarts DEF PageInv
  <1>2. Whole /\ [Next]_vars => Whole'
    BY ConfStays DEF WholePages, Orderly
  <1>3. IndexerInv /\ Whole /\ Inv => FullPagesFinal
    BY WholePagesFinal
  <1>4. IndexerInv /\ IndexerInv' /\ Whole /\ Inv /\ [Next]_vars => Inv'
    BY <1>3, GapStep, PageStep
  <1> HIDE DEF Whole, Inv
  <1>5. Spec /\ Whole => []FullPagesFinal
    BY <1>1, <1>2, <1>3, <1>4, IndexerInvariant, PTL DEF Spec
  <1>6. Orderly /\ WholePages => Whole
    BY DEF Whole
  <1> QED
    BY <1>5, <1>6, TablesAreThePrefix, PTL

=============================================================================
