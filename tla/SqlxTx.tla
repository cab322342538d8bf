------------------------------- MODULE SqlxTx -------------------------------
(***************************************************************************)
(* adapters/sqlx: what a function given to Source.Run does with its *sqlx.DB*)
(* through a Handle (Get, Select, Exec, WithTx) or through RunTx, inside   *)
(* the Run of Executor.tla.  The connection pool and the transactions      *)
(* belong to database/sql; of them the module keeps what the adapter       *)
(* relies on.  A function makes one call at a time; the function given to  *)
(* WithTx may use the Handle it was made with and so a second connection.  *)
(***************************************************************************)
EXTENDS Executor

CONSTANT MaxOpen    \* MaxOpen[c]: MaxOpenConns of source c; 0 is no limit

ASSUME MaxOpenAssumption == MaxOpen \in [Ids -> Nat]

VARIABLES
    sql,        \* where p's function is in a call on its Handle
    conns,      \* conns[c]: connections of c's pool, <<p, 1>> that of p's statement or
                \* transaction, <<p, 2>> that of a statement beside p's transaction
    undoing,    \* undoing[c]: connections the pool is still rolling back by itself
    outcome,    \* what became of p's last transaction: "abandoned" once database/sql
                \* has marked it done to roll it back on its own time
    answer      \* what p's last WithTx or RunTx gave its caller

sqlVars == <<sql, conns, undoing, outcome, answer>>
txVars == <<vars, sqlVars>>

SqlLabels == {"none", "statementWait", "statement", "beginWait", "open",
              "besideWait", "beside", "commit"}

TxTypeOK ==
    /\ sql \in [Procs -> SqlLabels]
    /\ conns \in [Ids -> SUBSET (Procs \X {1, 2})]
    /\ undoing \in [Ids -> Nat]
    /\ outcome \in [Procs -> {"none", "open", "committed", "rolledBack", "abandoned"}]
    /\ answer \in [Procs -> {"none", "nil", "beginError", "fnError", "commitError", "panic"}]

TxInit ==
    /\ Init
    /\ sql = [p \in Procs |-> "none"]
    /\ conns = [c \in Ids |-> {}]
    /\ undoing = [c \in Ids |-> 0]
    /\ outcome = [p \in Procs |-> "none"]
    /\ answer = [p \in Procs |-> "none"]

InSql(p, label) == At(p, "running") /\ sql[p] = label

GoSql(p, label) == sql' = [sql EXCEPT ![p] = label]

HasRoom(c) == MaxOpen[c] = 0 \/ Cardinality(conns[c]) + undoing[c] < MaxOpen[c]

PutBack(p, i) == conns' = [conns EXCEPT ![entry[p]] = @ \ {<<p, i>>}]

Answers(p, a) == answer' = [answer EXCEPT ![p] = a]

Settles(p, o) == outcome' = [outcome EXCEPT ![p] = o]

\* tx.Rollback waits for the database when the transaction is still open, and
\* returns ErrTxDone at once when it is committed or database/sql has taken it
\* over.
RollsBack(p) == Settles(p, IF outcome[p] = "open" THEN "rolledBack" ELSE outcome[p])

----------------------------------------------------------------------------

\* The function calls Get, Select or Exec, or WithTx or RunTx, or inside a
\* transaction Get, Select or Exec of the Handle: the pool is asked for a
\* connection.
Asks(p, from, to) ==
    /\ InSql(p, from)
    /\ GoSql(p, to)
    /\ UNCHANGED <<vars, conns, undoing, outcome, answer>>

\* The pool hands out a connection when there is room.
Connects(p, from, to) ==
    /\ InSql(p, from)
    /\ HasRoom(entry[p])
    /\ conns' = [conns EXCEPT ![entry[p]] = @ \cup {<<p, IF to = "beside" THEN 2 ELSE 1>>}]
    /\ GoSql(p, to)
    /\ outcome' = IF to = "open" THEN [outcome EXCEPT ![p] = "open"] ELSE outcome
    /\ UNCHANGED <<vars, undoing, answer>>

\* No connection: the context ended while waiting, or the database refused.
ConnectFails(p, from, to) ==
    /\ InSql(p, from)
    /\ GoSql(p, to)
    /\ IF from = "beginWait" THEN Answers(p, "beginError") /\ Settles(p, "none")
                             ELSE UNCHANGED <<answer, outcome>>
    /\ UNCHANGED <<vars, conns, undoing>>

\* Mutation: the rows of a statement are not closed.
StatementEndsLeaking(p, from, to) ==
    /\ InSql(p, from)
    /\ GoSql(p, to)
    /\ UNCHANGED <<vars, conns, undoing, outcome, answer>>

\* A statement that has a connection to itself is over, with or without an
\* error.
StatementEnds(p, from, to) ==
    /\ InSql(p, from)
    /\ PutBack(p, IF from = "beside" THEN 2 ELSE 1)
    /\ GoSql(p, to)
    /\ UNCHANGED <<vars, undoing, outcome, answer>>

\* fn of WithTx returns nil.
TxFnReturns(p) ==
    /\ InSql(p, "open")
    /\ GoSql(p, "commit")
    /\ UNCHANGED <<vars, conns, undoing, outcome, answer>>

\* Mutation: the rollback follows fn instead of being deferred.
TxFnFailsUndeferred(p, how) ==
    /\ InSql(p, "open")
    /\ IF how = "panic" THEN UNCHANGED <<conns, outcome>>
                        ELSE PutBack(p, 1) /\ Settles(p, "rolledBack")
    /\ GoSql(p, "none")
    /\ Answers(p, how)
    /\ UNCHANGED <<vars, undoing>>

\* fn of WithTx returns an error or panics: the deferred Rollback runs.
TxFnFails(p, how) ==
    /\ InSql(p, "open")
    /\ PutBack(p, 1)
    /\ RollsBack(p)
    /\ GoSql(p, "none")
    /\ Answers(p, how)
    /\ UNCHANGED <<vars, undoing>>

\* Mutation: the deferred Rollback gives back a connection Commit has given
\* back.
CommitReleasesTwice(p) ==
    /\ InSql(p, "commit")
    /\ Settles(p, "committed")
    /\ Answers(p, "nil")
    /\ undoing' = [undoing EXCEPT ![entry[p]] = @ - 1]
    /\ PutBack(p, 1)
    /\ GoSql(p, "none")
    /\ UNCHANGED vars

\* Mutation: Commit's error is dropped.
CommitUnchecked(p) ==
    /\ InSql(p, "commit")
    /\ \/ outcome[p] = "open" /\ Settles(p, "committed")
       \/ RollsBack(p)
    /\ Answers(p, "nil")
    /\ PutBack(p, 1)
    /\ GoSql(p, "none")
    /\ UNCHANGED <<vars, undoing>>

\* Commit.  It fails when database/sql has taken the transaction over or the
\* context has ended; otherwise the database decides, and its error may come
\* after the fact.  The deferred Rollback settles what Commit left open.
Commit(p) ==
    /\ InSql(p, "commit")
    /\ \/ /\ outcome[p] = "open" /\ ctx[p] = "live"
          /\ Settles(p, "committed")
          /\ \E a \in {"nil", "commitError"} : Answers(p, a)
       \/ RollsBack(p) /\ Answers(p, "commitError")
    /\ PutBack(p, 1)
    /\ GoSql(p, "none")
    /\ UNCHANGED <<vars, undoing>>

\* The context of a transaction ends, and database/sql marks it done before
\* it rolls it back on a goroutine of its own: neither fn nor the deferred
\* Rollback waits for that, so the connection may be out when the function
\* has long left its Run.
PoolRollsBack(p) ==
    /\ outcome[p] = "open"
    /\ sql[p] \in {"open", "besideWait", "beside", "commit"}
    /\ ctx[p] # "live"
    /\ Settles(p, "abandoned")
    /\ PutBack(p, 1)
    /\ undoing' = [undoing EXCEPT ![entry[p]] = @ + 1]
    /\ UNCHANGED <<vars, sql, answer>>

\* The database has rolled such a transaction back, or its connection has been
\* dropped.
PoolReleases(c) ==
    /\ undoing[c] > 0
    /\ undoing' = [undoing EXCEPT ![c] = @ - 1]
    /\ UNCHANGED <<vars, sql, conns, outcome, answer>>

\* The function given to Run returns or panics when it is in no call.
RunFnEnds(p) == sql[p] = "none" /\ FnStep(p) /\ UNCHANGED sqlVars

\* Everything of a Run but its function.
AroundFn(p) ==
    /\ (\E n \in Names : Run(p, n)) \/ Cancel(p) \/ RunStep(p)
    /\ UNCHANGED sqlVars

SqlStep(p) ==
    \/ Asks(p, "none", "statementWait") \/ Asks(p, "none", "beginWait") \/ Asks(p, "open", "besideWait")
    \/ Connects(p, "statementWait", "statement")
    \/ Connects(p, "beginWait", "open")
    \/ Connects(p, "besideWait", "beside")
    \/ ConnectFails(p, "statementWait", "none")
    \/ ConnectFails(p, "beginWait", "none")
    \/ ConnectFails(p, "besideWait", "open")
    \/ StatementEnds(p, "statement", "none")
    \/ StatementEnds(p, "beside", "open")
    \/ TxFnReturns(p)
    \/ \E how \in {"fnError", "panic"} : TxFnFails(p, how)
    \/ Commit(p)
    \/ PoolRollsBack(p)

TxNext ==
    \/ \E p \in Procs : SqlStep(p) \/ RunFnEnds(p) \/ AroundFn(p)
    \/ \E c \in Ids : PoolReleases(c)
    \/ DirectoryStep /\ UNCHANGED sqlVars

TxSpec == TxInit /\ [][TxNext]_txVars

----------------------------------------------------------------------------
(* Properties.                                                             *)

\* A function that has left its Run, whether WithTx's fn returned, failed or
\* panicked (handle.go:49, source.go:52), leaves no transaction open and holds
\* no connection.  What may still be out is what database/sql took over when
\* the context ended: it is counted in undoing, and its caller was never told
\* that it is committed.
NoTxLeftOpen ==
    \A p \in Procs : ~At(p, "running") =>
        /\ outcome[p] # "open"
        /\ outcome[p] = "abandoned" => answer[p] # "nil"
        /\ \A c \in Ids, i \in {1, 2} : <<p, i>> \notin conns[c]

\* WithTx answers nil only for a transaction the database has committed, and
\* one whose fn failed or panicked has not been committed: it is rolled back,
\* or database/sql is rolling it back.
AnswerMatchesOutcome ==
    \A p \in Procs : sql[p] = "none" =>
        /\ answer[p] = "nil" => outcome[p] = "committed"
        /\ answer[p] \in {"fnError", "panic"} => outcome[p] \in {"rolledBack", "abandoned"}

\* A source whose pool is at least as large as its throttle.
Matched(c) == Throttled(c) /\ Limit[c] <= MaxOpen[c]

\* "Keep MaxOpenConns >= MaxConcurrency so the throttle is always the one
\* place that can block" (config.go:35-41): in such a source a function that
\* has cleared the throttle waits for its connection only while the pool has
\* rollbacks to finish, or another function uses a second connection beside
\* its transaction, which is what the sentence leaves out.
FunctionsLeaveRoom ==
    \A p \in Procs : entry[p] # None /\ sql[p] \in {"statementWait", "beginWait"} =>
        \/ ~Matched(entry[p])
        \/ HasRoom(entry[p])
        \/ undoing[entry[p]] > 0
        \/ \E q \in Procs : <<q, 2>> \in conns[entry[p]]
============================================================================
