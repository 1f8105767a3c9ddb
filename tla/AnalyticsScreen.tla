--------------------------- MODULE AnalyticsScreen ---------------------------
(***************************************************************************)
(* The treasury reports and the page that shows them: the query the        *)
(* analytics endpoints accept, what they say of the indexed proposals,     *)
(* deposits and balance snapshots, and the page's hook, which polls the    *)
(* five of them in one batch for the filters that are set, behind a client *)
(* that validates the query and limits the requests of a minute, while the *)
(* indexer goes on recording.  The console's library computes the same     *)
(* figures again from the proposals it has itself, the page merges the     *)
(* endpoints' rows once more for its charts and exports, and a             *)
(* command-line tool has a third version.  The calendar is a line of ticks *)
(* with months of equal length; an amount has no decimals.                 *)
(***************************************************************************)
EXTENDS ConsoleAccounts, Sums, Sequences

CONSTANTS
  Book,         \* what the indexer will have recorded, in order
  TicksPerDay,
  Span,         \* ticks of a "day", a "week" and a "month"
  Shift,        \* where the first of them starts before tick 0
  Members,      \* current owners, in the context of the endpoints
  Categories,   \* known categories, with "Other"
  Lower         \* legacy spellings of known categories

ASSUME ReportsAssumption ==
  /\ Len(Book) \in Nat /\ DOMAIN Book = 1..Len(Book)
  /\ \A i \in DOMAIN Book : Book[i].at \in Nat /\ Book[i].amount \in Nat
  /\ TicksPerDay \in Nat \ {0}
  /\ DOMAIN Span = {"day", "week", "month"} /\ DOMAIN Shift = DOMAIN Span
  /\ \A g \in DOMAIN Span : Span[g] \in Nat \ {0} /\ Shift[g] \in Nat
  /\ \A g \in DOMAIN Span : Span[g] % TicksPerDay = 0 /\ Shift[g] % TicksPerDay = 0
  /\ "Other" \in Categories /\ DOMAIN Lower \cap Categories = {}
  /\ IsFiniteSet(Members) /\ IsFiniteSet(Categories)
  /\ None # "XLM" /\ None \notin Nat

VARIABLE indexed   \* how many entries of the book are indexed

Indexed == 1..indexed

\* Sum of a function's values, and of the amounts of entries.
Sigma(f)    == Total(f, DOMAIN f)
AmountOf(S) == Sigma([i \in S |-> Book[i].amount])

\* Amounts of the entries S by the key of each.
TotalsBy(S, Key(_)) ==
  [k \in {Key(i) : i \in S} |-> AmountOf({i \in S : Key(i) = k})]
ZeroFilled(rows, keys) ==
  [k \in keys \cup DOMAIN rows |-> IF k \in DOMAIN rows THEN rows[k] ELSE 0]

-------------------------------------------------------------------------------
(***************************************************************************)
(* Queries.  A query has every parameter, None where it is not given;      *)
(* misread holds the parameters whose value is none of the allowed ones.   *)
(***************************************************************************)
CONSTANT MaxLimit

PageInRange(q) ==
  /\ q.limit # None => q.limit \in 1..MaxLimit
  /\ q.offset # None => q.offset >= 0
WellNamed(q) == q.misread = {}
DatesInOrder(q) == q.start # None /\ q.end # None => q.start <= q.end

parseAndValidateAnalyticsQuery(q) == PageInRange(q) /\ WellNamed(q) /\ DatesInOrder(q)

(* The end date would stand for its first tick only.                       *)
inDateRangeToMidnight(at, q) ==
  /\ q.start # None => at >= q.start
  /\ q.end # None => at <= q.end

(* The end date covers the day that starts with it.                        *)
inDateRange(at, q) ==
  /\ q.start # None => at >= q.start
  /\ q.end # None => at <= q.end + TicksPerDay - 1

ExecutedTransfers == {i \in Indexed : Book[i].kind = "transfer" /\ Book[i].status = "executed"}
Deposits          == {i \in Indexed : Book[i].kind = "deposit"}
Snapshots         == {i \in Indexed : Book[i].kind = "snapshot"}
ActiveProposals   ==
  {i \in Indexed : Book[i].kind \in {"transfer", "action"} /\ Book[i].status \in {"pending", "ready"}}

Token(i)    == IF Book[i].token = None THEN "XLM" ELSE Book[i].token
Category(i) == IF Book[i].category = None THEN "Other" ELSE Book[i].category
Proposer(i) == Book[i].by

proposalMatchesFilters(i, q) ==
  /\ q.token # None => Token(i) = q.token
  /\ q.category # None => Category(i) = q.category
  /\ q.owner # None => Proposer(i) = q.owner
  /\ inDateRange(Book[i].at, q)

\* Buckets: the start of the one that holds a tick, and those of a range.
bucketStart(t, g) == t - ((t + Shift[g]) % Span[g])
Buckets(first, last, g) ==
  {t \in bucketStart(first, g)..bucketStart(last, g) : bucketStart(t, g) = t}

Times(S) == {Book[i].at : i \in S}
Earliest(S) == CHOOSE t \in Times(S) : \A u \in Times(S) : t <= u
Latest(S)   == CHOOSE t \in Times(S) : \A u \in Times(S) : t >= u

\* The range of a chart: the dates of the query, or the activity.
RangeStart(q, S) == IF q.start # None THEN q.start ELSE IF S = {} THEN None ELSE Earliest(S)
RangeEnd(q, S)   == IF q.end # None THEN q.end ELSE IF S = {} THEN None ELSE Latest(S)
NoRange(q, S) ==
  \/ RangeStart(q, S) = None \/ RangeEnd(q, S) = None
  \/ RangeStart(q, S) > RangeEnd(q, S)

-------------------------------------------------------------------------------
(***************************************************************************)
(* The endpoints (analyticsApi.ts).                                        *)
(***************************************************************************)
(* The token of the summary is compared without the default of the others. *)
handleGetStatsSummary(q) ==
  LET spent == {i \in ExecutedTransfers :
                  /\ q.token # None => Book[i].token = q.token
                  /\ inDateRange(Book[i].at, q)}
      paidIn == {i \in Deposits :
                  /\ q.token # None => Token(i) = q.token
                  /\ inDateRange(Book[i].at, q)}
  IN  [totalDisbursed  |-> TotalsBy(spent, Token),
       totalInflows    |-> TotalsBy(paidIn, Token),
       activeProposals |-> Cardinality(ActiveProposals),
       largestOutflow  |-> IF spent = {} THEN None
                           ELSE CHOOSE i \in spent : \A j \in spent :
                                  \/ Book[i].amount > Book[j].amount
                                  \/ Book[i].amount = Book[j].amount /\ i <= j]

CategoryAndToken(i) == <<Category(i), Token(i)>>
OwnerAndToken(i)    == <<Proposer(i), Token(i)>>

handleGetSpendByCategory(q) ==
  TotalsBy({i \in ExecutedTransfers : proposalMatchesFilters(i, q)}, CategoryAndToken)

(* Owners who spent nothing get a row of their own.                        *)
handleGetSpendByOwner(q) ==
  LET rows == TotalsBy({i \in ExecutedTransfers : proposalMatchesFilters(i, q)}, OwnerAndToken)
      idle == {o \in Members : /\ \A k \in DOMAIN rows : k[1] # o
                               /\ q.owner # None => o = q.owner}
      zeroToken == IF q.token = None THEN "XLM" ELSE q.token
  IN  ZeroFilled(rows, idle \X {zeroToken})

handleGetTreasuryBalance(q) ==
  LET upTo  == {i \in Snapshots : q.end # None => Book[i].at <= q.end + TicksPerDay - 1}
      picked(i) == q.token # None => Token(i) = q.token
      \* the latest, and the last recorded of equal times
      current == CHOOSE i \in upTo : \A j \in upTo :
                   \/ Book[j].at < Book[i].at
                   \/ Book[j].at = Book[i].at /\ j <= i
  IN  [balance |-> IF upTo = {} \/ ~picked(current) THEN None ELSE Book[current].amount,
       timeSeries |-> {i \in Snapshots : inDateRange(Book[i].at, q) /\ picked(i)}]

(* One row per bucket and token, zero where nothing moved.                 *)
handleGetTreasuryFlow(q) ==
  LET kept(S) == {i \in S : /\ q.token # None => Token(i) = q.token
                            /\ inDateRange(Book[i].at, q)}
      moved   == kept(ExecutedTransfers) \cup kept(Deposits)
      tokens  == {Token(i) : i \in moved} \cup (IF q.token = None THEN {} ELSE {q.token})
      cell(S, k) == AmountOf({i \in S : <<bucketStart(Book[i].at, q.granularity), Token(i)>> = k})
  IN  IF tokens = {} \/ NoRange(q, moved) THEN << >>
      ELSE [k \in Buckets(RangeStart(q, moved), RangeEnd(q, moved), q.granularity) \X tokens |->
              [inflow  |-> cell(kept(Deposits), k),
               outflow |-> cell(kept(ExecutedTransfers), k)]]

Endpoints == {"summary", "balance", "byCategory", "byOwner", "flow"}

(* Every endpoint validates the query before it answers.                   *)
handleAnalyticsRoute(e, q) ==
  IF ~parseAndValidateAnalyticsQuery(q) THEN [status |-> 400]
  ELSE [status |-> 200,
        data |-> CASE e = "summary"    -> handleGetStatsSummary(q)
                   [] e = "balance"    -> handleGetTreasuryBalance(q)
                   [] e = "byCategory" -> handleGetSpendByCategory(q)
                   [] e = "byOwner"    -> handleGetSpendByOwner(q)
                   [] e = "flow"       -> handleGetTreasuryFlow(q)]

-----------------------------------------------------------------------------
(* The same figures a second and a third time *)

(***************************************************************************)
(* lib/analytics.ts.                                                       *)
(***************************************************************************)
filterExecutedTransfers(q) ==
  {i \in ExecutedTransfers :
     /\ q.category # None => Category(i) = q.category
     /\ q.owner # None => Proposer(i) = q.owner
     /\ inDateRange(Book[i].at, q)}

inSpendDateRange(at, q) ==
  \/ q.start = None /\ q.end = None
  \/ /\ q.start # None => at >= q.start
     /\ q.end # None => at <= q.end + TicksPerDay - 1

(* A known label whatever its case, another label as it stands.            *)
normalizeCategory(c) ==
  IF c = None THEN "Other" ELSE IF c \in DOMAIN Lower THEN Lower[c] ELSE c
NormalCategory(i) == normalizeCategory(Book[i].category)

computeSpendByCategory(q) ==
  ZeroFilled(TotalsBy({i \in ExecutedTransfers : inSpendDateRange(Book[i].at, q)}, NormalCategory),
             Categories)

computeSpendByOwner(q) ==
  ZeroFilled(TotalsBy({i \in ExecutedTransfers : inDateRange(Book[i].at, q)}, Proposer), Members)

(* Shares are parts of the grand total, zero when nothing was spent.       *)
enrichWithShares(rows) ==
  [k \in DOMAIN rows |-> [total |-> rows[k],
                          share |-> IF Sigma(rows) > 0 THEN (rows[k] * 100) \div Sigma(rows) ELSE 0]]

computeTreasurySummary(q) ==
  LET spent == {i \in ExecutedTransfers :
                  /\ q.token # None => Book[i].token = q.token
                  /\ inDateRange(Book[i].at, q)}
  IN  [totalDisbursed |-> TotalsBy(spent, Token),
       activeProposals |-> Cardinality(ActiveProposals)]

(* A running total over the buckets of the range, zero-filled.             *)
computeTreasuryFlow(q) ==
  LET spent  == {i \in ExecutedTransfers : inDateRange(Book[i].at, q)}
      paidIn == {i \in Deposits : inDateRange(Book[i].at, q)}
      moved  == spent \cup paidIn
      cell(S, t) == AmountOf({i \in S : bucketStart(Book[i].at, q.granularity) = t})
      buckets == Buckets(RangeStart(q, moved), RangeEnd(q, moved), q.granularity)
      upTo(t) == AmountOf({i \in spent : bucketStart(Book[i].at, q.granularity) \in
                                           {u \in buckets : u <= t}})
  IN  IF NoRange(q, moved) THEN << >>
      ELSE [t \in buckets |-> [inflow |-> cell(paidIn, t), outflow |-> cell(spent, t),
                               cumulative |-> upTo(t)]]

(* A proposal counts in the bucket of its creation and, once executed, in  *)
(* that of its execution; the deadline stands in for a date it lacks.      *)
computeProposalActivity(g) ==
  LET proposals == {i \in Indexed : Book[i].kind \in {"transfer", "action"}}
      done == {i \in proposals : Book[i].status = "executed"}
      in(i) == bucketStart(Book[i].at, g)
  IN  [t \in {in(i) : i \in proposals} |->
         [created  |-> Cardinality({i \in proposals : in(i) = t}),
          executed |-> Cardinality({i \in done : in(i) = t})]]

computeProposalActivityMetrics(c) ==
  LET counted == {i \in Indexed : /\ Book[i].kind \in {"transfer", "action"}
                                  /\ c # None => Category(i) = c}
  IN  [created |-> Cardinality(counted),
       executed |-> Cardinality({i \in counted : Book[i].status = "executed"})]

(***************************************************************************)
(* The page's charts: rows of one period are merged over the tokens.       *)
(***************************************************************************)
toTreasuryFlowChart(flow) ==
  LET periods == {k[1] : k \in DOMAIN flow}
      merged(S) == Sigma([k \in S |-> flow[k].outflow])
  IN  [t \in periods |->
         [inflow     |-> Sigma([k \in {k \in DOMAIN flow : k[1] = t} |-> flow[k].inflow]),
          outflow    |-> merged({k \in DOMAIN flow : k[1] = t}),
          cumulative |-> merged({k \in DOMAIN flow : k[1] <= t})]]

(***************************************************************************)
(* scripts/query-analytics.js takes every executed record, whatever its    *)
(* kind; an action has no amount, and its NaN spoils the total it is in.   *)
(***************************************************************************)
normalizeProposals == {i \in Indexed : Book[i].kind \in {"transfer", "action"} /\ Book[i].status = "executed"}
NaN == None
ToolTotal(S) == IF \E i \in S : Book[i].kind = "action" THEN NaN ELSE AmountOf(S)
ToolRows(Key(_)) ==
  [k \in {Key(i) : i \in normalizeProposals} |-> ToolTotal({i \in normalizeProposals : Key(i) = k})]
runSpendByCategory == ToolRows(Category)
(* Weeks are not grouped: only a month shortens the day's key.             *)
runTreasuryFlow(g) ==
  LET period(i) == bucketStart(Book[i].at, IF g = "month" THEN "month" ELSE "day")
  IN  ToolRows(period)
runSummary == ToolTotal(normalizeProposals)

-------------------------------------------------------------------------------
(***************************************************************************)
(* What must agree, for questions about whole days.                        *)
(***************************************************************************)
OfToken(rows, t) == [k \in {k \in DOMAIN rows : k[2] = t} |-> rows[k]]
Tokens == {Token(i) : i \in Indexed}

(* Two questions have answers that differ.  The summary compares the token *)
(* asked for with the token as recorded, the tables with the token that    *)
(* stands for none.  And a flow without a start begins with the first      *)
(* entry, so that one later on the last day leaves it empty.               *)
Comparable(q) ==
  /\ q.token = "XLM" =>
       \A i \in DOMAIN Book : Book[i].kind = "transfer" => Book[i].token # None
  /\ q.start = None /\ q.end # None =>
       \A i \in DOMAIN Book : Book[i].kind \in {"transfer", "deposit"} =>
         ~(q.end < Book[i].at /\ Book[i].at < q.end + TicksPerDay)

(* The tables of the endpoints split the same spending: by category, by    *)
(* owner and, when the query names neither, by bucket and in the summary.  *)
EndpointsAgree(q) ==
  \A t \in Tokens :
    LET asked == [q EXCEPT !.token = t]
        byCategory == Sigma(OfToken(handleGetSpendByCategory(q), t))
        flow == handleGetTreasuryFlow(q)
    IN  /\ byCategory = Sigma(OfToken(handleGetSpendByOwner(q), t))
        /\ q.token = None => byCategory = Sigma(handleGetSpendByCategory(asked))
        /\ q.category = None /\ q.owner = None =>
             LET totals == handleGetStatsSummary(q).totalDisbursed IN
             /\ byCategory = IF t \in DOMAIN totals THEN totals[t] ELSE 0
             /\ byCategory = Sigma([k \in {k \in DOMAIN flow : k[2] = t} |-> flow[k].outflow])

(* The library's figures add up to the filtered transfers, and the last    *)
(* running total of its flow and of the page's chart is all that was spent.*)
LibraryAgrees(q) ==
  LET free == [q EXCEPT !.category = None, !.owner = None, !.token = None]
      whole == AmountOf(filterExecutedTransfers(free))
      flow  == computeTreasuryFlow(free)
      chart == toTreasuryFlowChart(handleGetTreasuryFlow(free))
      last(f) == IF DOMAIN f = {} THEN 0
                 ELSE f[CHOOSE t \in DOMAIN f : \A u \in DOMAIN f : u <= t].cumulative
  IN  /\ Sigma(computeSpendByCategory(free)) = whole
      /\ Sigma(computeSpendByOwner(free)) = whole
      /\ Sigma(computeTreasurySummary(free).totalDisbursed) = whole
      /\ last(flow) = whole /\ last(chart) = whole

(* The tool's tables add up to its summary, or all three are spoiled.      *)
AddUp(rows) ==
  IF \E k \in DOMAIN rows : rows[k] = NaN THEN runSummary = NaN ELSE Sigma(rows) = runSummary
ToolAgrees(q) == AddUp(runSpendByCategory) /\ AddUp(runTreasuryFlow(q.granularity))

-----------------------------------------------------------------------------
(* The page *)

CONSTANTS
  Filters,           \* queries the page is given
  Start,             \* entries indexed when the page is opened
  RequestsPerMinute,
  MaxRefused         \* bound on failed requests

(* Dates are days: the page's fields have no time of day.                  *)
ASSUME AnalyticsAssumption ==
  /\ \A q \in Filters :
       /\ DOMAIN q = {"start", "end", "category", "owner", "token", "granularity",
                      "limit", "offset", "misread"}
       /\ q.granularity \in DOMAIN Span
       /\ \A date \in {q.start, q.end} \ {None} : date \in Nat /\ date % TicksPerDay = 0
  /\ Start \in 0..Len(Book) /\ \A version \in 0..Len(Book) : None # {version}
  /\ RequestsPerMinute \in Nat \ {0} /\ MaxRefused \in Nat

VARIABLES
  query,     \* the filters of the page
  asking,    \* the run of the poll task: requests open, one failed, versions answered
  figures,   \* what the charts show: the versions of its five answers, or None
  broken,   \* the error of the page
  spentRequests, \* counted by the rate limiter in its minute
  lostRequests

reportVars == <<indexed, query, asking, figures, broken, spentRequests, lostRequests>>

Idle == [open |-> 0, failed |-> FALSE, seen |-> {}]
Least(a, b) == IF a <= b THEN a ELSE b

(* The client's own check compares the dates before anything is counted.   *)
validateAnalyticsQuery(q) ==
  /\ q.start # None /\ q.end # None => q.start <= q.end
  /\ q.limit # None => q.limit \in 1..MaxLimit
  /\ q.offset # None => q.offset >= 0

(* Five requests, as many as the minute allows.                            *)
Batch(q) ==
  LET sent == IF validateAnalyticsQuery(q)
                THEN Least(Cardinality(Endpoints), RequestsPerMinute - spentRequests) ELSE 0
  IN  /\ asking' = [open |-> sent, failed |-> sent < Cardinality(Endpoints), seen |-> {}]
      /\ spentRequests' = spentRequests + sent

Quiet == asking = Idle
Pending == asking # Idle

AnalyticsInit ==
  /\ indexed = Start
  /\ query \in Filters
  /\ asking = Idle
  /\ figures = None
  /\ broken = FALSE
  /\ spentRequests = 0
  /\ lostRequests = 0

(* The timer or the retry button; a refresh joins a run that is under way. *)
PollAnalytics ==
  /\ Quiet
  /\ Batch(query)
  /\ UNCHANGED <<indexed, query, figures, broken, lostRequests>>

(* New filters stop the polling of the old ones, whose answers are not     *)
(* looked at any more, and start their own, which empties the page first.  *)
SetFilters(q) ==
  /\ q # query
  /\ query' = q
  /\ figures' = None
  /\ broken' = FALSE
  /\ Batch(q)
  /\ UNCHANGED <<indexed, lostRequests>>

AnswerRequest ==
  /\ asking.open > 0
  /\ asking' = IF parseAndValidateAnalyticsQuery(query)
                THEN [asking EXCEPT !.open = @ - 1, !.seen = @ \cup {indexed}]
                ELSE [asking EXCEPT !.open = @ - 1, !.failed = TRUE]
  /\ UNCHANGED <<indexed, query, figures, broken, spentRequests, lostRequests>>

RequestFails ==
  /\ asking.open > 0 /\ lostRequests < MaxRefused
  /\ lostRequests' = lostRequests + 1
  /\ asking' = [asking EXCEPT !.open = @ - 1, !.failed = TRUE]
  /\ UNCHANGED <<indexed, query, figures, broken, spentRequests>>

(* Once every request has ended; one that failed keeps the old figures.    *)
BatchEnds ==
  /\ Pending /\ asking.open = 0
  /\ figures' = IF asking.failed THEN figures ELSE asking.seen
  /\ broken' = asking.failed
  /\ asking' = Idle
  /\ UNCHANGED <<indexed, query, spentRequests, lostRequests>>

MinutePasses ==
  /\ spentRequests > 0
  /\ spentRequests' = 0
  /\ UNCHANGED <<indexed, query, asking, figures, broken, lostRequests>>

IndexEntry ==
  /\ indexed < Len(Book)
  /\ indexed' = indexed + 1
  /\ UNCHANGED <<query, asking, figures, broken, spentRequests, lostRequests>>

AnalyticsNext ==
  \/ PollAnalytics
  \/ \E q \in Filters : SetFilters(q)
  \/ AnswerRequest
  \/ RequestFails
  \/ BatchEnds
  \/ MinutePasses
  \/ IndexEntry

ReportsSpec == AnalyticsInit /\ [][AnalyticsNext]_reportVars

-------------------------------------------------------------------------------
(* The figures next to each other on the page split the same spending, and *)
(* so do the library's and the tool's versions of them, whenever the five  *)
(* answers are of one state of the index; no query that the endpoints      *)
(* refuse has figures (analyticsApi.ts:336-700, analytics.ts:37-639,       *)
(* AnalyticsPage.tsx:47-118, query-analytics.js:106-209).                  *)
ReportsAgree ==
  /\ figures # None => parseAndValidateAnalyticsQuery(query)
  /\ Quiet /\ figures = {indexed} =>
       /\ EndpointsAgree(query)
       /\ LibraryAgrees(query)
       /\ ToolAgrees(query)
=============================================================================
