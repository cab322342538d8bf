------------------------------- MODULE Handles -------------------------------
(***************************************************************************)
(* A generated repository's call to one of the four backends: Call, the    *)
(* backend's function, and the operations of the Handle it is given, each  *)
(* an exchange with a store that other callers change and a network that   *)
(* loses, delays or breaks off.  What a Handle makes of the exchange, and  *)
(* Call of the error, is all the caller learns.                            *)
(***************************************************************************)
EXTENDS Naturals

CONSTANTS
    Procs,      \* goroutines that call the repository
    Keys,       \* ids of documents or rows
    Vals,       \* their contents
    None,       \* no document; a Go value left at its zero
    Partial,    \* a Go value a failed decoding left half filled
    Kinds,      \* the kind of source each goroutine may be given
    MaxOps      \* bound: operations of one function, by goroutine

Backends == {"rest", "elasticsearch", "opensearch", "sqlx"}

ASSUME HandlesAssumption ==
    /\ None \notin Vals /\ Partial \notin Vals /\ None # Partial
    /\ Kinds \subseteq [Procs -> Backends]
    /\ MaxOps \in [Procs -> Nat \ {0}]

VARIABLES
    docs,       \* docs[k]: what the store holds under k
    delayed,    \* writes nobody waits for that may still arrive
    kind,       \* kind of the source each goroutine calls
    pc,         \* next step of each call
    op,         \* the operation of the Handle under way, or the last one
    ops,        \* operations the function has made
    reply,      \* what has come back of the exchange
    dest,       \* the Go value the function fills
    err,        \* the error it is about to return, or Call has returned
    value,      \* what Call has returned
    seen        \* history: what the store held under op's key since it was sent

store == <<docs, delayed>>
vars == <<store, kind, pc, op, ops, reply, dest, err, value, seen>>

\* Index, Put, Post and a statement that inserts a row are one verb, "put";
\* "update" is Exec's UPDATE, which only a database has.
Verbs == {"get", "put", "update", "delete"}
NoOp == [verb |-> "none", key |-> None, doc |-> None]
Operations == {o \in [verb : Verbs, key : Keys, doc : Vals \cup {None}] :
                  o.doc # None <=> o.verb \in {"put", "update"}}
Writes == {o \in Operations : o.verb # "get"}

\* "ok" and "cut" have a 2xx status, and the body of "cut" does not decode;
\* "miss" is a 404 or no row, "failed" any other status.
Statuses == {"ok", "miss", "failed", "cut", "lost"}
NoReply == [status |-> "none", doc |-> None]
Errors == {"none", "ErrNotFound", "status", "decode", "transport", "refused"}

TypeOK ==
    /\ docs \in [Keys -> Vals \cup {None}]
    /\ delayed \subseteq Writes
    /\ kind \in Kinds
    /\ pc \in [Procs -> {"idle", "fn", "sent", "replied", "returned"}]
    /\ op \in [Procs -> Operations \cup {NoOp}]
    /\ ops \in [Procs -> Nat] /\ \A p \in Procs : ops[p] <= MaxOps[p]
    /\ reply \in [Procs -> [status : Statuses, doc : Vals \cup {None}] \cup {NoReply}]
    /\ dest \in [Procs -> Vals \cup {None, Partial}]
    /\ err \in [Procs -> Errors]
    /\ value \in [Procs -> Vals \cup {None, Partial}]
    /\ seen \in [Procs -> SUBSET (Vals \cup {None})]

Init ==
    /\ docs \in [Keys -> Vals \cup {None}]
    /\ delayed = {}
    /\ kind \in Kinds
    /\ pc = [p \in Procs |-> "idle"]
    /\ op = [p \in Procs |-> NoOp]
    /\ ops = [p \in Procs |-> 0]
    /\ reply = [p \in Procs |-> NoReply]
    /\ dest = [p \in Procs |-> None]
    /\ err = [p \in Procs |-> "none"]
    /\ value = [p \in Procs |-> None]
    /\ seen = [p \in Procs |-> {}]

At(p, label) == pc[p] = label

Goto(p, label) == pc' = [pc EXCEPT ![p] = label]

----------------------------------------------------------------------------
(* The store and the network.                                              *)

\* What a write leaves under its key: an UPDATE of no row changes nothing.
Stored(o) == IF o.verb = "update" /\ docs[o.key] = None THEN None ELSE o.doc

\* A write takes effect under the eyes of every request on its way.
Takes(o) ==
    /\ docs' = [docs EXCEPT ![o.key] = Stored(o)]
    /\ seen' = [q \in Procs |->
                   IF At(q, "sent") /\ op[q].key = o.key THEN seen[q] \cup {Stored(o)} ELSE seen[q]]

\* A read, or a delete of what is not there, misses; so does a PUT to a path
\* an HTTP service does not have.  A statement that changes no row succeeds.
Misses(p) ==
    \/ docs[op[p].key] = None /\ op[p].verb = "get"
    \/ docs[op[p].key] = None /\ op[p].verb = "delete" /\ kind[p] # "sqlx"
    \/ op[p].verb = "put" /\ kind[p] # "sqlx"

Replies(p, s, d) == reply' = [reply EXCEPT ![p] = [status |-> s, doc |-> d]]

Serve(p) ==
    /\ At(p, "sent")
    /\ Goto(p, "replied")
    /\ \/ /\ Misses(p)
          /\ Replies(p, "miss", None)
          /\ UNCHANGED <<docs, seen>>
       \/ /\ op[p].verb = "get" /\ docs[op[p].key] # None
          /\ \E s \in {"ok", "cut"} : Replies(p, s, docs[op[p].key])
          /\ UNCHANGED <<docs, seen>>
       \/ /\ op[p].verb \in {"put", "update"} \/ (op[p].verb = "delete" /\ ~Misses(p))
          /\ \E s \in {"ok", "cut"} : Replies(p, s, None)
          /\ Takes(op[p])
       \/ /\ Replies(p, "failed", None)
          /\ UNCHANGED <<docs, seen>>
    /\ UNCHANGED <<delayed, kind, op, ops, dest, err, value>>

\* The connection breaks, or the context ends, before the answer is read: the
\* request may still be on its way.
Lose(p) ==
    /\ pc[p] \in {"sent", "replied"}
    /\ Goto(p, "replied")
    /\ reply[p].status # "lost"
    /\ Replies(p, "lost", None)
    /\ \/ UNCHANGED delayed
       \/ At(p, "sent") /\ op[p] \in Writes /\ delayed' = delayed \cup {op[p]}
    /\ UNCHANGED <<docs, kind, op, ops, dest, err, value, seen>>

Arrive(o) ==
    /\ o \in delayed
    /\ delayed' = delayed \ {o}
    /\ Takes(o)
    /\ UNCHANGED <<kind, pc, op, ops, reply, dest, err, value>>

----------------------------------------------------------------------------
(* The Handles.                                                            *)

\* Mutation: the outcome of the exchange is handed on as it is.
RestReturnsRaw(verb, s) == IF s = "ok" THEN "none" ELSE s

\* Get and Delete translate a 404, Post and Put do not; the body of a write's
\* answer is discarded.
RestReturns(verb, s) ==
    CASE s = "miss" /\ verb # "put" -> "ErrNotFound"
      [] s = "failed" \/ (s = "miss" /\ verb = "put") -> "status"
      [] s = "lost" -> "transport"
      [] s = "cut" /\ verb = "get" -> "decode"
      [] OTHER -> "none"

\* Mutation: IsError is not asked.
ElasticReturnsUnchecked(verb, s) ==
    CASE s = "miss" /\ verb # "put" -> "ErrNotFound"
      [] s = "lost" -> "transport"
      [] s = "cut" /\ verb = "get" -> "decode"
      [] OTHER -> "none"

\* Get and Delete translate a 404, and Get a document that is not found;
\* of Index's and Delete's answer only the status is read.
ElasticReturns(verb, s) ==
    CASE s = "miss" /\ verb # "put" -> "ErrNotFound"
      [] s = "failed" \/ (s = "miss" /\ verb = "put") -> "status"
      [] s = "lost" -> "transport"
      [] s = "cut" /\ verb = "get" -> "decode"
      [] OTHER -> "none"

\* Only Get translates, and only a Found of false: every other failure is the
\* client's error, and the client decodes every answer.
OpenSearchReturns(verb, s) ==
    CASE s = "miss" /\ verb = "get" -> "ErrNotFound"
      [] s = "failed" \/ (s = "miss" /\ verb # "get") -> "status"
      [] s = "lost" -> "transport"
      [] s = "cut" -> "decode"
      [] OTHER -> "none"

\* Get translates sql.ErrNoRows; Exec drops its sql.Result, and with it the
\* number of rows the statement changed.
SqlxReturns(verb, s) ==
    CASE s = "miss" /\ verb = "get" -> "ErrNotFound"
      [] s = "failed" \/ (s = "miss" /\ verb # "get") -> "status"
      [] s = "lost" -> "transport"
      [] s = "cut" /\ verb = "get" -> "decode"
      [] OTHER -> "none"

HandleErr(p) ==
    LET verb == op[p].verb
        s == reply[p].status
    IN  CASE kind[p] = "rest" -> RestReturns(verb, s)
          [] kind[p] = "elasticsearch" -> ElasticReturns(verb, s)
          [] kind[p] = "opensearch" -> OpenSearchReturns(verb, s)
          [] kind[p] = "sqlx" -> SqlxReturns(verb, s)

HandleReturns(p) ==
    /\ At(p, "replied")
    /\ Goto(p, "fn")
    /\ err' = [err EXCEPT ![p] = HandleErr(p)]
    /\ \/ /\ HandleErr(p) = "none" /\ op[p].verb = "get"
          /\ dest' = [dest EXCEPT ![p] = reply[p].doc]
       \/ /\ HandleErr(p) = "decode" /\ op[p].verb = "get"
          /\ \E v \in {dest[p], Partial} : dest' = [dest EXCEPT ![p] = v]
       \/ /\ HandleErr(p) \notin {"none", "decode"} \/ op[p].verb # "get"
          /\ UNCHANGED dest
    /\ reply' = [reply EXCEPT ![p] = NoReply]
    /\ UNCHANGED <<store, kind, op, ops, value, seen>>

----------------------------------------------------------------------------
(* The repository.                                                         *)

\* Run admits the function, or refuses the name or the context.
Begin(p) ==
    /\ At(p, "idle")
    /\ \/ Goto(p, "fn") /\ UNCHANGED err
       \/ Goto(p, "returned") /\ err' = [err EXCEPT ![p] = "refused"]
    /\ UNCHANGED <<store, kind, op, ops, reply, dest, value, seen>>

Offers(p, o) == o.verb = "update" => kind[p] = "sqlx"

\* The backend's function goes on while its operations succeed.
Send(p, o) ==
    /\ At(p, "fn") /\ err[p] = "none" /\ ops[p] < MaxOps[p] /\ Offers(p, o)
    /\ op' = [op EXCEPT ![p] = o]
    /\ ops' = [ops EXCEPT ![p] = @ + 1]
    /\ Goto(p, "sent")
    /\ seen' = [seen EXCEPT ![p] = {docs[o.key]}]
    /\ UNCHANGED <<store, kind, reply, dest, err, value>>

\* Marshalling the body or building the request fails: nothing is sent.
SendFails(p, o) ==
    /\ At(p, "fn") /\ err[p] = "none" /\ ops[p] < MaxOps[p] /\ Offers(p, o)
    /\ op' = [op EXCEPT ![p] = o]
    /\ ops' = [ops EXCEPT ![p] = @ + 1]
    /\ seen' = [seen EXCEPT ![p] = {}]
    /\ err' = [err EXCEPT ![p] = "transport"]
    /\ UNCHANGED <<store, kind, pc, reply, dest, value>>

\* Mutation: the result goes out with every error.
CallLeaks(p) ==
    /\ At(p, "fn") /\ ops[p] > 0
    /\ value' = [value EXCEPT ![p] = dest[p]]
    /\ Goto(p, "returned")
    /\ UNCHANGED <<store, kind, op, ops, reply, dest, err, seen>>

\* The function returns what it has, and its error; Call forgets the result of
\* a miss.
Call(p) ==
    /\ At(p, "fn") /\ ops[p] > 0
    /\ value' = [value EXCEPT ![p] = IF err[p] = "ErrNotFound" THEN None ELSE dest[p]]
    /\ Goto(p, "returned")
    /\ UNCHANGED <<store, kind, op, ops, reply, dest, err, seen>>

\* The caller has its answer.
Return(p) ==
    /\ At(p, "returned")
    /\ Goto(p, "idle")
    /\ op' = [op EXCEPT ![p] = NoOp]
    /\ ops' = [ops EXCEPT ![p] = 0]
    /\ dest' = [dest EXCEPT ![p] = None]
    /\ err' = [err EXCEPT ![p] = "none"]
    /\ value' = [value EXCEPT ![p] = None]
    /\ seen' = [seen EXCEPT ![p] = {}]
    /\ UNCHANGED <<store, kind, reply>>

Step(p) ==
    \/ Begin(p)
    \/ (\E o \in Operations : Send(p, o) \/ SendFails(p, o))
    \/ Serve(p) \/ Lose(p) \/ HandleReturns(p)
    \/ Call(p) \/ Return(p)

Next == (\E p \in Procs : Step(p)) \/ (\E o \in Writes : Arrive(o))

Spec == Init /\ [][Next]_vars

----------------------------------------------------------------------------
(* Properties.                                                             *)

Answered(p, e) == At(p, "returned") /\ err[p] = e

\* A repository answers ErrNotFound only if the document was missing at some
\* moment of the exchange that said so, whatever was lost, delayed or half
\* read; and what earlier operations filled in does not come with it
\* (runner.go:27-43, the four handle.go).
MissesAreReal ==
    \A p \in Procs : Answered(p, "ErrNotFound") => value[p] = None /\ None \in seen[p]

\* A call without an error has done what it says: its last read returns what
\* the store held meanwhile, its last write took effect meanwhile, and nothing
\* half decoded goes out (rest/client.go:75-87, elasticsearch/handle.go:32-36).
\* Only an UPDATE may have done nothing, and then there was no row to change
\* (sqlx/handle.go:35-38 drops the count that would tell).
SuccessIsReal ==
    \A p \in Procs : Answered(p, "none") =>
        /\ value[p] # Partial
        /\ op[p].verb = "get" => value[p] \in seen[p] \ {None}
        /\ op[p].verb = "put" => op[p].doc \in seen[p]
        /\ op[p].verb = "update" => op[p].doc \in seen[p] \/ None \in seen[p]
        /\ op[p].verb = "delete" => None \in seen[p]

\* README.md:840-842: "Post/Put/Get/Delete already translate a 404 into
\* dbstore.ErrNotFound" (a restadapter.Handle).
RestTranslatesEvery404 ==
    [][\A p \in Procs :
          kind[p] = "rest" /\ At(p, "replied") /\ pc'[p] = "fn" /\ reply[p].status = "miss"
          => err'[p] = "ErrNotFound"]_vars
=============================================================================
