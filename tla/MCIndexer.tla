-------------------------------- MODULE MCIndexer --------------------------------
(* Small instances of Indexer for TLC.                                           *)
EXTENDS Indexer

CONSTANTS hook, other

In(l, n)  == [ledger |-> l, contract |-> "xlm", topic |-> "transfer",
              from |-> "payer", to |-> "treasury", amount |-> n]
Out(l, n) == [ledger |-> l, contract |-> "xlm", topic |-> "transfer",
              from |-> "treasury", to |-> "payee", amount |-> n]
Note(l, topic) == [ledger |-> l, contract |-> "treasury", topic |-> topic,
              from |-> "", to |-> "", amount |-> 0]

SyncChain   == <<In(1, 3), Note(2, "created"), Out(2, 1), In(3, 2)>>
OutboxChain == <<Note(1, "created"), Note(1, "approved")>>

Live(lag, size, pages, regress, fail) ==
  [backend |-> "sqlite", channel |-> "webhook", lag |-> lag, pageLimit |-> size,
   maxPages |-> pages, regress |-> regress, fail |-> fail, commands |-> {}, starts |-> {1}]
OnPostgres(c) == [c EXCEPT !.backend = "postgres"]

(* Where the code keeps what it promises: pages that are never full while events  *)
(* are held back, and no failure while the view moves back.                       *)
SyncDeployments == LET plain == {Live(1, 9, 2, FALSE, TRUE), Live(0, 1, 2, FALSE, TRUE),
                                 Live(1, 9, 2, TRUE, FALSE)}
                   IN  plain \cup {OnPostgres(c): c \in plain}

(* The history commands: interrupted and run again, and beside the live service on *)
(* Postgres.                                                                       *)
Command(c, fail) == [Live(0, 2, 2, FALSE, fail) EXCEPT !.commands = {c}]
Commands == {Command("backfill", TRUE), Command("reindex", TRUE),
             OnPostgres(Command("backfill", FALSE))}
LiveAndCommands == SyncDeployments \cup Commands

(* A backfill of the latest ledger, interrupted, and then one of all of them.     *)
TwoRanges == {[Command("backfill", TRUE) EXCEPT !.pageLimit = 1, !.starts = {1, 3}]}

OutboxDeployments == {Live(0, 9, 2, FALSE, TRUE),
                      [Live(0, 9, 2, FALSE, FALSE) EXCEPT !.channel = "notification"]}

(* Those of them whose node never goes back meet the hypotheses under which the    *)
(* module IndexerProofs has theorems about gaps, order and balances.               *)
ASSUME WholePagesOrRegress ==
  \A c \in Deployment \ TwoRanges: ~c.regress =>
    /\ c.lag = 0 \/ c.pageLimit > Len(Chain)
    /\ Cardinality(c.commands) <= 1
    /\ c.starts \subseteq {StartLedger}

Everything   == [s \in Target |-> None]
NoTopics     == <<>>
=============================================================================
