------------------------------ MODULE McpServer ------------------------------
(***************************************************************************)
(* mcpserver: the tools an MCP client may call on a store whose owner goes *)
(* on using it.  A call authorizes an operation on a source by name,       *)
(* checks its input, and only then looks the name up (Executor.Run) or     *)
(* changes the sources (SourceManager).  The store is SourceLifecycle; a   *)
(* throttle is the number of functions a source admits at a time, which is *)
(* what Executor.tla shows it to be.                                       *)
(*                                                                         *)
(* A row is its encoded size; the result of a query is the sequence of     *)
(* sizes its read-only transaction sees.                                   *)
(***************************************************************************)
EXTENDS SourceLifecycle, Integers, Sequences, SequencesExt

CONSTANTS
    Limit,              \* Limit[c]: MaxConcurrency of source c, at least 1
    Servers,            \* the options and the policy a server may be built with
    Requests,           \* the input of a db_query: is it a SELECT, maxRows, maxBytes
    Results,            \* the results a query may have, each a sequence of row sizes
    Estimate,           \* bytes the source, the columns and the 128 spare are put at
    Envelopes,          \* bytes of an encoded answer beside its rows
    DefaultMaxRows, MaximumMaxRows, DefaultMaxBytes, MaximumMaxBytes,
    MayUse              \* MayUse[p]: the tools p calls

Inspections == {"db_list_sources", "db_ping", "db_list_tables", "db_describe_table"}
Tools == Inspections \cup {"db_query", "db_remove_source", "db_register_source"}

\* New refuses a resolver without management and defaults above the maxima.
ASSUME McpAssumption ==
    /\ Limit \in [Ids -> Nat \ {0}]
    /\ Servers \subseteq
           {s \in [management : BOOLEAN, resolver : BOOLEAN, query : BOOLEAN, manage : BOOLEAN] :
                s.resolver => s.management}
    /\ Requests \subseteq [valid : BOOLEAN, rows : Int, bytes : Int]
    /\ Results \subseteq Seq(Nat)
    /\ Estimate \in Nat /\ Envelopes \subseteq Nat
    /\ MaximumMaxRows \in Nat /\ MaximumMaxBytes \in Nat
    /\ DefaultMaxRows \in 1..MaximumMaxRows
    /\ DefaultMaxBytes \in 1..MaximumMaxBytes
    /\ MayUse \in [Procs -> SUBSET Tools]

VARIABLES
    server,     \* Options.EnableManagement, SourceResolver and the policy's grants
    pc,         \* next step of each call
    tool,       \* the tool it is a call of
    source,     \* the source it names
    held,       \* the entry it runs on, removes or opens
    request,    \* the input of a db_query
    limits,     \* the rows and bytes a query may return
    expired,    \* the context of the Run is over
    result,     \* what the query would return in full
    rows,       \* output.Rows
    bytes,      \* responseBytes
    truncated,  \* output.Truncated
    envelope,   \* encoded size of the answer beside its rows
    answer      \* what the client is told

query == <<request, limits, result, rows, bytes, truncated, envelope>>
calls == <<pc, tool, source, held, expired, query, answer>>
vars == <<lifecycleVars, server, calls>>

Labels == {"idle", "authorize", "validate", "run", "throttle", "inspect", "begin",
           "rows", "encode", "ended", "release", "remove", "drain", "resolve", "open",
           "publish", "answered"}

NoRequest == [valid |-> FALSE, rows |-> 0, bytes |-> 0]
NoLimits == [rows |-> 0, bytes |-> 0]

TypeOK ==
    /\ LifecycleTypeOK
    /\ server \in Servers
    /\ pc \in [Procs -> Labels]
    /\ tool \in [Procs -> Tools \cup {None}]
    /\ source \in [Procs -> Names \cup {None}]
    /\ held \in [Procs -> Ids \cup {None}]
    /\ request \in [Procs -> Requests \cup {NoRequest}]
    /\ limits \in [Procs -> [rows : 0..MaximumMaxRows, bytes : 0..MaximumMaxBytes]]
    /\ expired \in [Procs -> BOOLEAN]
    /\ result \in [Procs -> Results \cup {<<>>}]
    /\ rows \in [Procs -> Seq(Nat)]
    /\ bytes \in [Procs -> 0..MaximumMaxBytes]
    /\ truncated \in [Procs -> BOOLEAN]
    /\ envelope \in [Procs -> Envelopes \cup {0}]
    /\ answer \in [Procs -> {"none", "ok", "error"}]

ToAll(value) == [p \in Procs |-> value]

Init ==
    /\ LifecycleInit
    /\ server \in Servers
    /\ pc = ToAll("idle")
    /\ tool = ToAll(None) /\ source = ToAll(None) /\ held = ToAll(None)
    /\ request = ToAll(NoRequest) /\ limits = ToAll(NoLimits)
    /\ expired = ToAll(FALSE)
    /\ result = ToAll(<<>>) /\ rows = ToAll(<<>>)
    /\ bytes = ToAll(0) /\ envelope = ToAll(0)
    /\ truncated = ToAll(FALSE)
    /\ answer = ToAll("none")

At(p, label) == pc[p] = label

Goto(p, label) == pc' = [pc EXCEPT ![p] = label]

Answer(p, a) == Goto(p, "answered") /\ answer' = [answer EXCEPT ![p] = a]

\* The function given to Run is over: with err it answers an error, and what
\* it deferred still runs.
FnEnds(p, label, a) == Goto(p, label) /\ answer' = [answer EXCEPT ![p] = a]

----------------------------------------------------------------------------
(* Every tool.                                                             *)

\* addTools: management tools are offered by a server with a manager, and
\* registration by one with a resolver too.
Offered(t) ==
    /\ t = "db_remove_source" => server.management
    /\ t = "db_register_source" => server.management /\ server.resolver

\* A call with a non-empty source name.
Call(p, t, n, r) ==
    /\ At(p, "idle")
    /\ t \in MayUse[p] /\ Offered(t)
    /\ r = NoRequest <=> t # "db_query"
    /\ Goto(p, "authorize")
    /\ tool' = [tool EXCEPT ![p] = t]
    /\ source' = [source EXCEPT ![p] = n]
    /\ request' = [request EXCEPT ![p] = r]
    /\ UNCHANGED <<lifecycleVars, server, held, limits, expired, result, rows, bytes,
                   truncated, envelope, answer>>

\* Mutation: a tool the policy does not know is let through.
GrantedUnlisted(t) == t = "db_query" => server.query

\* CapabilityPolicy.Authorize, of which the other policies are instances.
Granted(t) ==
    \/ t \in Inspections
    \/ t = "db_query" /\ server.query
    \/ t \in {"db_remove_source", "db_register_source"} /\ server.manage

Authorize(p) ==
    /\ At(p, "authorize")
    /\ IF ~Granted(tool[p]) THEN Answer(p, "error")
       ELSE IF tool[p] = "db_list_sources" THEN Answer(p, "ok")
       ELSE /\ Goto(p, CASE tool[p] = "db_query" -> "validate"
                         [] tool[p] = "db_remove_source" -> "remove"
                         [] tool[p] = "db_register_source" -> "resolve"
                         [] OTHER -> "run")
            /\ UNCHANGED answer
    /\ UNCHANGED <<lifecycleVars, server, tool, source, held, expired, query>>

\* The answer is sent; the call's variables are gone.
Answered(p) ==
    /\ At(p, "answered")
    /\ Goto(p, "idle")
    /\ tool' = [tool EXCEPT ![p] = None]
    /\ source' = [source EXCEPT ![p] = None]
    /\ held' = [held EXCEPT ![p] = None]
    /\ request' = [request EXCEPT ![p] = NoRequest]
    /\ limits' = [limits EXCEPT ![p] = NoLimits]
    /\ expired' = [expired EXCEPT ![p] = FALSE]
    /\ result' = [result EXCEPT ![p] = <<>>]
    /\ rows' = [rows EXCEPT ![p] = <<>>]
    /\ bytes' = [bytes EXCEPT ![p] = 0]
    /\ truncated' = [truncated EXCEPT ![p] = FALSE]
    /\ envelope' = [envelope EXCEPT ![p] = 0]
    /\ answer' = [answer EXCEPT ![p] = "none"]
    /\ UNCHANGED <<lifecycleVars, server>>

----------------------------------------------------------------------------
(* Executor.Run around a tool's function.                                  *)

\* The name is looked up only now, and Acquire refuses a context that is over.
RunSource(p) ==
    /\ At(p, "run")
    /\ IF reg[source[p]] = None
       THEN Answer(p, "error") /\ UNCHANGED <<lifecycleVars, held>>
       ELSE /\ AdmitWork(p, reg[source[p]])
            /\ held' = [held EXCEPT ![p] = reg[source[p]]]
            /\ \/ ~expired[p] /\ Goto(p, "throttle") /\ UNCHANGED answer
               \/ expired[p] /\ FnEnds(p, "release", "error")
    /\ UNCHANGED <<server, tool, source, expired, query>>

InFn == {"inspect", "begin", "rows", "encode", "ended"}

Enter(p) ==
    /\ At(p, "throttle")
    /\ Cardinality({q \in Procs : held[q] = held[p] /\ pc[q] \in InFn}) < Limit[held[p]]
    /\ Goto(p, IF tool[p] = "db_query" THEN "begin" ELSE "inspect")
    /\ UNCHANGED <<lifecycleVars, server, tool, source, held, expired, query, answer>>

\* The client cancels, or a db_query's own timeout ends its Run.
Expire(p) ==
    /\ pc[p] \in {"run", "throttle"} \cup InFn
    /\ ~expired[p]
    /\ expired' = [expired EXCEPT ![p] = TRUE]
    /\ UNCHANGED <<lifecycleVars, server, pc, tool, source, held, query, answer>>

\* Mutation: db_query runs under the request's context, not its own.
GiveUpNever(p) == At(p, "throttle") /\ FALSE

GiveUp(p) ==
    /\ At(p, "throttle")
    /\ expired[p]
    /\ FnEnds(p, "release", "error")
    /\ UNCHANGED <<lifecycleVars, server, tool, source, held, expired, query>>

\* db_ping, db_list_tables, db_describe_table: the database answers, fails,
\* does not know the table, or takes its time.
Inspect(p) ==
    /\ At(p, "inspect")
    /\ \E a \in {"ok", "error"} : FnEnds(p, "ended", a)
    /\ UNCHANGED <<lifecycleVars, server, tool, source, held, expired, query>>

\* The deferred rows.Close, tx.Rollback and Release of the throttle, if they
\* were due; Run returns and the tool answers what its function came to.
Release(p) ==
    /\ pc[p] \in {"ended", "release"}
    /\ FinishWork(p, held[p])
    /\ Goto(p, "answered")
    /\ UNCHANGED <<server, tool, source, held, expired, query, answer>>

----------------------------------------------------------------------------
(* db_query.                                                               *)

OrDefault(asked, default) == IF asked <= 0 THEN default ELSE asked

\* Mutation: only the defaults are held to the server's maxima.
ValidateUncapped(p) ==
    /\ At(p, "validate")
    /\ IF ~request[p].valid THEN Answer(p, "error") /\ UNCHANGED limits
       ELSE /\ limits' = [limits EXCEPT ![p] =
                  [rows |-> OrDefault(request[p].rows, DefaultMaxRows),
                   bytes |-> OrDefault(request[p].bytes, DefaultMaxBytes)]]
            /\ Goto(p, "run")
            /\ UNCHANGED answer
    /\ UNCHANGED <<lifecycleVars, server, tool, source, held, request, expired, result, rows,
                   bytes, truncated, envelope>>

\* The statement is one SELECT, and the limits asked for are within the
\* server's.
Validate(p) ==
    /\ At(p, "validate")
    /\ LET asked == [rows |-> OrDefault(request[p].rows, DefaultMaxRows),
                     bytes |-> OrDefault(request[p].bytes, DefaultMaxBytes)] IN
       IF ~request[p].valid \/ asked.rows > MaximumMaxRows \/ asked.bytes > MaximumMaxBytes
       THEN Answer(p, "error") /\ UNCHANGED limits
       ELSE /\ limits' = [limits EXCEPT ![p] = asked]
            /\ Goto(p, "run")
            /\ UNCHANGED answer
    /\ UNCHANGED <<lifecycleVars, server, tool, source, held, request, expired, result, rows,
                   bytes, truncated, envelope>>

\* The read-only transaction begins, the statement runs, its columns are
\* known and measured.
Begin(p, full, size) ==
    /\ At(p, "begin")
    /\ result' = [result EXCEPT ![p] = full]
    /\ envelope' = [envelope EXCEPT ![p] = size]
    /\ IF Estimate > limits[p].bytes
       THEN FnEnds(p, "ended", "error") /\ UNCHANGED bytes
       ELSE /\ bytes' = [bytes EXCEPT ![p] = Estimate]
            /\ Goto(p, "rows")
            /\ UNCHANGED answer
    /\ UNCHANGED <<lifecycleVars, server, tool, source, held, expired, request, limits, rows,
                   truncated>>

Unread(p) == Len(rows[p]) < Len(result[p])

\* A row that is read is counted and kept, or the query fails on its size.
KeepRow(p) ==
    LET size == result[p][Len(rows[p]) + 1] IN
    IF bytes[p] + size > limits[p].bytes
    THEN FnEnds(p, "ended", "error") /\ UNCHANGED <<rows, bytes>>
    ELSE /\ rows' = [rows EXCEPT ![p] = Append(@, size)]
         /\ bytes' = [bytes EXCEPT ![p] = @ + size]
         /\ UNCHANGED <<pc, answer>>

\* Mutation: the row that reaches the limit marks the answer truncated.
NextRowEarly(p) ==
    /\ At(p, "rows") /\ Unread(p)
    /\ IF Len(rows[p]) = limits[p].rows
       THEN Goto(p, "encode") /\ UNCHANGED <<rows, bytes, truncated, answer>>
       ELSE KeepRow(p) /\ truncated' = [truncated EXCEPT ![p] = Len(rows[p]) + 1 = limits[p].rows]
    /\ UNCHANGED <<lifecycleVars, server, tool, source, held, expired, request, limits,
                   result, envelope>>

\* rows.Next finds a row: the first one over the limit ends the loop.
NextRow(p) ==
    /\ At(p, "rows") /\ Unread(p)
    /\ IF Len(rows[p]) = limits[p].rows
       THEN /\ truncated' = [truncated EXCEPT ![p] = TRUE]
            /\ Goto(p, "encode")
            /\ UNCHANGED <<rows, bytes, answer>>
       ELSE KeepRow(p) /\ UNCHANGED truncated
    /\ UNCHANGED <<lifecycleVars, server, tool, source, held, expired, request, limits,
                   result, envelope>>

NoMoreRows(p) ==
    /\ At(p, "rows") /\ ~Unread(p)
    /\ Goto(p, "encode")
    /\ UNCHANGED <<lifecycleVars, server, tool, source, held, expired, query, answer>>

Total(sizes) == FoldSeq(+, 0, sizes)

EncodedSize(p) == envelope[p] + Total(rows[p])

\* Mutation: the estimate is trusted.
EncodeUnmeasured(p) ==
    /\ At(p, "encode")
    /\ FnEnds(p, "ended", "ok")
    /\ UNCHANGED <<lifecycleVars, server, tool, source, held, expired, query>>

\* The answer is encoded and measured as a whole.
Encode(p) ==
    /\ At(p, "encode")
    /\ FnEnds(p, "ended", IF EncodedSize(p) > limits[p].bytes THEN "error" ELSE "ok")
    /\ UNCHANGED <<lifecycleVars, server, tool, source, held, expired, query>>

\* BeginTxx, the statement, Scan or rows.Err fails; under a context that is
\* over it must, sooner or later.
QueryFails(p) ==
    /\ pc[p] \in {"begin", "rows", "encode"}
    /\ FnEnds(p, "ended", "error")
    /\ UNCHANGED <<lifecycleVars, server, tool, source, held, expired, query>>

----------------------------------------------------------------------------
(* The management tools.                                                   *)

\* SourceManager.Remove gives up the name ...
RemoveSource(p) ==
    /\ At(p, "remove")
    /\ IF reg[source[p]] = None
       THEN Answer(p, "error") /\ UNCHANGED <<lifecycleVars, held>>
       ELSE /\ RetireSource(source[p])
            /\ held' = [held EXCEPT ![p] = reg[source[p]]]
            /\ Goto(p, "drain")
            /\ UNCHANGED answer
    /\ UNCHANGED <<server, tool, source, expired, query>>

\* ... and waits; an error of the client's Close is the tool's.
Drain(p) ==
    /\ At(p, "drain")
    /\ CloseSource(held[p])
    /\ \E a \in {"ok", "error"} : Answer(p, a)
    /\ UNCHANGED <<server, tool, source, held, expired, query>>

Resolve(p) ==
    /\ At(p, "resolve")
    /\ \/ Goto(p, "open") /\ UNCHANGED answer
       \/ Answer(p, "error")
    /\ UNCHANGED <<lifecycleVars, server, tool, source, held, expired, query>>

\* SourceManager.Open: the driver connects, or Open has failed by then.
Open(p, c) ==
    /\ At(p, "open")
    /\ OpenSource(c)
    /\ held' = [held EXCEPT ![p] = c]
    /\ Goto(p, "publish")
    /\ UNCHANGED <<server, tool, source, expired, query, answer>>

OpenFails(p) ==
    /\ At(p, "open")
    /\ Answer(p, "error")
    /\ UNCHANGED <<lifecycleVars, server, tool, source, held, expired, query>>

Publish(p) ==
    /\ At(p, "publish")
    /\ \/ PublishSource(held[p], source[p]) /\ Answer(p, "ok")
       \/ /\ shut \/ reg[source[p]] # None
          /\ CloseSource(held[p])
          /\ Answer(p, "error")
    /\ UNCHANGED <<server, tool, source, held, expired, query>>

----------------------------------------------------------------------------

\* The store's owner opens, removes and closes sources of its own accord.
Owner ==
    /\ \/ \E c \in Ids :
             /\ \A p \in Procs : pc[p] \in {"publish", "drain"} => held[p] # c
             /\ OpenSource(c) \/ CloseSource(c) \/ \E n \in Names : PublishSource(c, n)
       \/ \E n \in Names : RetireSource(n)
       \/ RetireAll
    /\ UNCHANGED <<server, calls>>

LocalStep(p) ==
    \/ Authorize(p) \/ Answered(p) \/ RunSource(p) \/ GiveUp(p)
    \/ Release(p) \/ Validate(p)

QueryStep(p) ==
    \/ \E full \in Results, size \in Envelopes : Begin(p, full, size)
    \/ NextRow(p) \/ NoMoreRows(p) \/ Encode(p) \/ QueryFails(p)

ManageStep(p) ==
    \/ RemoveSource(p) \/ Drain(p) \/ Resolve(p) \/ (\E c \in Ids : Open(p, c)) \/ OpenFails(p)
    \/ Publish(p)

ToolStep(p) == LocalStep(p) \/ QueryStep(p) \/ ManageStep(p) \/ Enter(p) \/ Inspect(p)

Next ==
    \/ \E p \in Procs :
          \/ \E t \in Tools, n \in Names, r \in Requests \cup {NoRequest} : Call(p, t, n, r)
          \/ ToolStep(p)
          \/ Expire(p)
    \/ Owner

Spec == Init /\ [][Next]_vars

(* The server's own steps are taken, the timer fires, and a driver gives up*)
(* a statement whose context is over.  Nothing says a database answers, or *)
(* that a ping or an inspection, which have no timeout, ever leaves the    *)
(* throttle.                                                               *)
Fairness ==
    \A p \in Procs :
        /\ WF_vars(LocalStep(p))
        /\ WF_vars(tool[p] = "db_query" /\ Expire(p))
        /\ WF_vars(expired[p] /\ QueryFails(p))

FairSpec == Spec /\ Fairness

----------------------------------------------------------------------------
(* Properties.                                                             *)

AnsweredQuery(p) == At(p, "answered") /\ tool[p] = "db_query" /\ answer[p] = "ok"

\* An answer is within the limits asked for, they are within the server's,
\* and no query holds more than its limit while it reads (sql.go:197-210,
\* 255-283).
AnswersAreBounded ==
    \A p \in Procs :
        /\ AnsweredQuery(p) =>
               /\ Len(rows[p]) <= limits[p].rows
               /\ EncodedSize(p) <= limits[p].bytes
        /\ pc[p] \in InFn => /\ limits[p].bytes <= MaximumMaxBytes
                             /\ Len(rows[p]) <= limits[p].rows
                             /\ Total(rows[p]) <= limits[p].bytes

\* An answer is the beginning of the result, and it is marked truncated
\* exactly when the result goes on (sql.go:255-258).
TruncationIsExact ==
    \A p \in Procs : AnsweredQuery(p) =>
        /\ IsPrefix(rows[p], result[p])
        /\ truncated[p] <=> rows[p] # result[p]

\* A call changes the store's sources only on a server with management
\* enabled and a policy that grants it, and the database is asked only on
\* one that grants queries (policy.go:51-65, tools.go:121-134).
NothingUngranted ==
    [][\A p \in Procs : pc'[p] # pc[p] =>
          /\ <<reg', stage'>> # <<reg, stage>> => server.management /\ server.manage
          /\ pc'[p] = "begin" => server.query]_vars

\* A db_query is answered although no database call and no other function on
\* the source need ever return (sql.go:211-219).
QueriesAreAnswered ==
    \A p \in Procs : tool[p] = "db_query" ~> At(p, "idle")
============================================================================
