--------------------------- MODULE HandlesProofs ---------------------------
(***************************************************************************)
(* Proofs about Handles for any number of callers, documents and contents, *)
(* any kind of source for each and any number of operations.               *)
(***************************************************************************)
EXTENDS Handles, TLAPS

USE DEF At, Goto, store, vars, Replies

\* What every Handle makes of an exchange: ErrNotFound of a miss only, and
\* never of a write that stores; no error only of an answer that was read, or
\* of a write's whose body nobody reads.
LEMMA HandleErrors ==
    ASSUME TypeOK, NEW p \in Procs, op[p].verb \in Verbs, reply[p].status \in Statuses
    PROVE  /\ HandleErr(p) \in Errors
           /\ HandleErr(p) = "ErrNotFound" => reply[p].status = "miss" /\ op[p].verb # "put"
           /\ HandleErr(p) = "none" =>
                 reply[p].status = "ok" \/ (reply[p].status = "cut" /\ op[p].verb # "get")
<1> DEFINE verb == op[p].verb
           s == reply[p].status
           Sane(e) == /\ e \in Errors
                      /\ e = "ErrNotFound" => s = "miss" /\ verb # "put"
                      /\ e = "none" => s = "ok" \/ (s = "cut" /\ verb # "get")
<1>1. Sane(RestReturns(verb, s))
  BY DEF RestReturns, Statuses, Verbs, Errors
<1>2. Sane(ElasticReturns(verb, s))
  BY DEF ElasticReturns, Statuses, Verbs, Errors
<1>3. Sane(OpenSearchReturns(verb, s))
  BY DEF OpenSearchReturns, Statuses, Verbs, Errors
<1>4. Sane(SqlxReturns(verb, s))
  BY DEF SqlxReturns, Statuses, Verbs, Errors
<1>5. kind[p] \in Backends
  BY HandlesAssumption DEF TypeOK
<1>6. Sane(HandleErr(p))
  <2>1. CASE kind[p] = "rest"
    BY <1>1, <2>1 DEF HandleErr
  <2>2. CASE kind[p] = "elasticsearch"
    BY <1>2, <2>2 DEF HandleErr
  <2>3. CASE kind[p] = "opensearch"
    BY <1>3, <2>3 DEF HandleErr
  <2>4. CASE kind[p] = "sqlx"
    BY <1>4, <2>4 DEF HandleErr
  <2>5. QED
    BY <1>5, <2>1, <2>2, <2>3, <2>4 DEF Backends
<1>7. QED
  BY <1>6

----------------------------------------------------------------------------
(* The invariant.                                                          *)

\* What a call remembers of the moments of its last exchange: Read and
\* Written are what it means for the operation to have been done.
Done(p) ==
    /\ op[p].verb = "put" => op[p].doc \in seen[p]
    /\ op[p].verb = "update" => op[p].doc \in seen[p] \/ None \in seen[p]
    /\ op[p].verb = "delete" => None \in seen[p]

Read(p, doc) == op[p].verb = "get" => doc \in seen[p] \ {None}

\* Which operation a call is in, and which values of its variables a label
\* allows.
InStep ==
    \A p \in Procs :
        /\ pc[p] \in {"sent", "replied"} => op[p] \in Operations
        /\ pc[p] \in {"fn", "returned"} /\ ops[p] > 0 => op[p] \in Operations
        /\ pc[p] \in {"idle", "sent", "replied"} => err[p] = "none"
        /\ At(p, "idle") => ops[p] = 0
        /\ ~At(p, "returned") => value[p] = None
        /\ At(p, "replied") => reply[p].status \in Statuses
        /\ At(p, "returned") /\ err[p] # "refused" => ops[p] > 0
        /\ dest[p] = Partial => pc[p] \in {"fn", "returned"} /\ err[p] = "decode"
        /\ At(p, "returned") => value[p] = None \/ (value[p] = dest[p] /\ err[p] # "ErrNotFound")
        /\ At(p, "returned") /\ err[p] = "none" => value[p] = dest[p]

\* What is on its way agrees with what the store held meanwhile: a request
\* sees what its key holds, a miss has seen it hold nothing, an answer carries
\* what was seen, and the error of the function says no more.
WitnessOf(p) ==
    /\ At(p, "sent") => docs[op[p].key] \in seen[p]
    /\ At(p, "replied") /\ reply[p].status = "miss" /\ op[p].verb # "put" => None \in seen[p]
    /\ At(p, "replied") /\ reply[p].status \in {"ok", "cut"} => Done(p)
    /\ At(p, "replied") /\ reply[p].status = "ok" => Read(p, reply[p].doc)
    /\ pc[p] \in {"fn", "returned"} /\ err[p] = "ErrNotFound" => None \in seen[p]
    /\ pc[p] \in {"fn", "returned"} /\ err[p] = "none" /\ ops[p] > 0 =>
          Done(p) /\ Read(p, dest[p])

Witnessed == \A p \in Procs : WitnessOf(p)

HandlesInv == TypeOK /\ InStep /\ Witnessed

LEMMA InitHandles == Init => HandlesInv
<1> SUFFICES ASSUME Init PROVE HandlesInv
  OBVIOUS
<1>1. TypeOK
  BY HandlesAssumption DEF Init, TypeOK, Errors
<1>2. InStep /\ Witnessed
  BY HandlesAssumption DEF Init, InStep, Witnessed, WitnessOf
<1>3. QED
  BY <1>1, <1>2 DEF HandlesInv

\* A write that takes effect, whoever sent it.
LEMMA TakesTyped ==
    ASSUME TypeOK, NEW o \in Operations, Takes(o)
    PROVE  /\ docs' \in [Keys -> Vals \cup {None}]
           /\ seen' \in [Procs -> SUBSET (Vals \cup {None})]
BY DEF TypeOK, Takes, Stored, Operations, Verbs

LEMMA NextTyped ==
    ASSUME TypeOK, InStep, [Next]_vars
    PROVE  TypeOK'
<1> USE DEF TypeOK
<1>1. ASSUME NEW p \in Procs, Begin(p) PROVE TypeOK'
  BY <1>1 DEF Begin, Errors
<1>2. ASSUME NEW p \in Procs, NEW o \in Operations, Send(p, o) \/ SendFails(p, o) PROVE TypeOK'
  <2>1. o.key \in Keys
    BY DEF Operations
  <2>2. MaxOps[p] \in Nat
    BY HandlesAssumption
  <2>3. QED
    BY <1>2, <2>1, <2>2 DEF Send, SendFails, Errors
<1>3. ASSUME NEW p \in Procs, Serve(p) PROVE TypeOK'
  <2>1. op[p] \in Operations
    BY <1>3 DEF Serve, InStep
  <2>2. docs[op[p].key] \in Vals \cup {None}
    BY <2>1 DEF Operations
  <2>3. reply' \in [Procs -> [status : Statuses, doc : Vals \cup {None}] \cup {NoReply}]
    BY <1>3, <2>2 DEF Serve, Statuses
  <2>4. docs' \in [Keys -> Vals \cup {None}] /\ seen' \in [Procs -> SUBSET (Vals \cup {None})]
    BY <1>3, <2>1, TakesTyped DEF Serve
  <2>5. QED
    BY <1>3, <2>3, <2>4 DEF Serve
<1>4. ASSUME NEW p \in Procs, Lose(p) PROVE TypeOK'
  BY <1>4 DEF Lose, Statuses
<1>5. ASSUME NEW p \in Procs, HandleReturns(p) PROVE TypeOK'
  <2>1. op[p].verb \in Verbs /\ reply[p].status \in Statuses
    BY <1>5 DEF HandleReturns, InStep, Operations
  <2>2. HandleErr(p) \in Errors
    BY <2>1, HandleErrors
  <2>3. reply[p].doc \in Vals \cup {None}
    BY <1>5, <2>1 DEF NoReply, Statuses
  <2>4. QED
    BY <1>5, <2>2, <2>3 DEF HandleReturns
<1>6. ASSUME NEW p \in Procs, Call(p) PROVE TypeOK'
  BY <1>6 DEF Call
<1>7. ASSUME NEW p \in Procs, Return(p) PROVE TypeOK'
  <2>1. ops' \in [Procs -> Nat] /\ \A q \in Procs : ops'[q] <= MaxOps[q]
    <3>1. MaxOps[p] \in Nat
      BY HandlesAssumption
    <3>2. QED
      BY <1>7, <3>1 DEF Return
  <2>2. QED
    BY <1>7, <2>1 DEF Return, Errors
<1>8. ASSUME NEW o \in Writes, Arrive(o) PROVE TypeOK'
  <2>1. o \in Operations
    BY DEF Writes
  <2>2. QED
    BY <1>8, <2>1, TakesTyped DEF Arrive
<1>9. CASE UNCHANGED vars
  BY <1>9
<1>10. QED
  BY <1>1, <1>2, <1>3, <1>4, <1>5, <1>6, <1>7, <1>8, <1>9 DEF Next, Step

LEMMA NextInStep ==
    ASSUME TypeOK, InStep, [Next]_vars
    PROVE  InStep'
<1> USE DEF TypeOK, InStep
<1>0. None # Partial /\ Partial \notin Vals
  BY HandlesAssumption
<1>1. ASSUME NEW p \in Procs, Begin(p) PROVE InStep'
  BY <1>1, <1>0 DEF Begin
<1>2. ASSUME NEW p \in Procs, NEW o \in Operations, Send(p, o) \/ SendFails(p, o) PROVE InStep'
  BY <1>2, <1>0 DEF Send, SendFails
<1>3. ASSUME NEW p \in Procs, Serve(p) PROVE InStep'
  <2>1. reply'[p].status \in Statuses
    BY <1>3 DEF Serve, Statuses
  <2>2. QED
    BY <1>3, <2>1 DEF Serve
<1>4. ASSUME NEW p \in Procs, Lose(p) PROVE InStep'
  <2>1. reply'[p].status \in Statuses
    BY <1>4 DEF Lose, Statuses
  <2>2. QED
    BY <1>4, <2>1 DEF Lose
<1>5. ASSUME NEW p \in Procs, HandleReturns(p) PROVE InStep'
  <2>1. op[p] \in Operations /\ reply[p].status \in Statuses
    BY <1>5 DEF HandleReturns
  <2>2. reply[p].doc \in Vals \cup {None}
    BY <1>5, <2>1 DEF NoReply, Statuses
  <2>3. dest'[p] = Partial => err'[p] = "decode"
    BY <1>5, <1>0, <2>2 DEF HandleReturns
  <2>4. QED
    BY <1>5, <2>1, <2>3 DEF HandleReturns
<1>6. ASSUME NEW p \in Procs, Call(p) PROVE InStep'
  BY <1>6 DEF Call
<1>7. ASSUME NEW p \in Procs, Return(p) PROVE InStep'
  BY <1>7, <1>0 DEF Return
<1>8. ASSUME NEW o \in Writes, Arrive(o) PROVE InStep'
  BY <1>8 DEF Arrive
<1>9. CASE UNCHANGED vars
  BY <1>9
<1>10. QED
  BY <1>1, <1>2, <1>3, <1>4, <1>5, <1>6, <1>7, <1>8, <1>9 DEF Next, Step

\* A write that takes effect keeps every request that waits informed and takes
\* nothing from what anybody has seen.
LEMMA TakesWitnessed ==
    ASSUME TypeOK, InStep, Witnessed, NEW o \in Operations, Takes(o), NEW q \in Procs
    PROVE  /\ At(q, "sent") => docs'[op[q].key] \in seen'[q]
           /\ ~At(q, "sent") => seen'[q] = seen[q]
           /\ At(q, "sent") /\ op[q] = o => Stored(o) \in seen'[q]
<1>1. o.key \in Keys /\ docs' = [docs EXCEPT ![o.key] = Stored(o)]
  BY DEF Operations, Takes
<1>2. seen'[q] = IF At(q, "sent") /\ op[q].key = o.key THEN seen[q] \cup {Stored(o)} ELSE seen[q]
  BY DEF Takes
<1>3. At(q, "sent") => docs'[op[q].key] \in seen'[q]
  <2> HAVE At(q, "sent")
  <2>1. op[q].key \in Keys
    BY DEF InStep, Operations
  <2>2. docs[op[q].key] \in seen[q]
    BY DEF Witnessed, WitnessOf
  <2>3. QED
    BY <1>1, <1>2, <2>1, <2>2 DEF TypeOK
<1>4. QED
  BY <1>2, <1>3

LEMMA NextWitnessed ==
    ASSUME TypeOK, InStep, Witnessed, [Next]_vars
    PROVE  Witnessed'
<1> USE DEF TypeOK, Witnessed, WitnessOf, Done, Read
<1>1. ASSUME NEW p \in Procs, Begin(p) PROVE Witnessed'
  BY <1>1 DEF Begin, InStep
<1>2. ASSUME NEW p \in Procs, NEW o \in Operations, Send(p, o) \/ SendFails(p, o) PROVE Witnessed'
  BY <1>2 DEF Send, SendFails
<1>3. ASSUME NEW p \in Procs, Serve(p) PROVE Witnessed'
  <2>1. op[p] \in Operations /\ At(p, "sent") /\ docs[op[p].key] \in seen[p]
    BY <1>3 DEF Serve, InStep
  <2>2. /\ Goto(p, "replied")
        /\ reply' = [reply EXCEPT ![p] = reply'[p]]
        /\ UNCHANGED <<kind, op, ops, dest, err>>
    BY <1>3 DEF Serve
  <2>3. ASSUME NEW q \in Procs, q # p
        PROVE  /\ At(q, "sent") => docs'[op[q].key] \in seen'[q]
               /\ ~At(q, "sent") => seen'[q] = seen[q]
    BY <1>3, <2>1, TakesWitnessed DEF Serve
  <2>4. /\ reply'[p].status = "miss" /\ op[p].verb # "put" => None \in seen'[p]
        /\ reply'[p].status \in {"ok", "cut"} => Done(p)'
        /\ reply'[p].status = "ok" => Read(p, reply[p].doc)'
    <3>1. CASE Misses(p) /\ Replies(p, "miss", None) /\ UNCHANGED <<docs, seen>>
      BY <2>1, <2>2, <3>1 DEF Misses
    <3>2. CASE /\ op[p].verb = "get" /\ docs[op[p].key] # None
               /\ \E s \in {"ok", "cut"} : Replies(p, s, docs[op[p].key])
               /\ UNCHANGED <<docs, seen>>
      <4>1. PICK s \in {"ok", "cut"} :
                reply'[p] = [status |-> s, doc |-> docs[op[p].key]]
        BY <3>2
      <4>2. reply'[p].doc = docs[op[p].key] /\ reply'[p].status # "miss"
        BY <4>1
      <4>3. Done(p)'
        BY <2>2, <3>2
      <4>4. Read(p, reply[p].doc)'
        BY <2>1, <2>2, <3>2, <4>2
      <4>5. QED
        BY <4>2, <4>3, <4>4
    <3>3. CASE /\ op[p].verb \in {"put", "update"} \/ (op[p].verb = "delete" /\ ~Misses(p))
               /\ \E s \in {"ok", "cut"} : Replies(p, s, None)
               /\ Takes(op[p])
      <4>1. Stored(op[p]) \in seen'[p]
        BY <2>1, <3>3, TakesWitnessed
      <4>2. /\ op[p].verb = "delete" => Stored(op[p]) = None
            /\ op[p].verb = "put" => Stored(op[p]) = op[p].doc
            /\ op[p].verb = "update" => Stored(op[p]) \in {op[p].doc, None}
        BY <2>1 DEF Operations, Stored
      <4>3. QED
        BY <2>2, <3>3, <4>1, <4>2
    <3>4. CASE Replies(p, "failed", None) /\ UNCHANGED <<docs, seen>>
      BY <2>2, <3>4
    <3>5. QED
      BY <1>3, <3>1, <3>2, <3>3, <3>4 DEF Serve
  <2>5. ASSUME NEW q \in Procs, q # p
        PROVE  /\ pc'[q] = pc[q] /\ op'[q] = op[q] /\ ops'[q] = ops[q]
               /\ err'[q] = err[q] /\ dest'[q] = dest[q] /\ reply'[q] = reply[q]
    BY <2>2, <2>5
  <2>6. pc'[p] = "replied"
    BY <2>2
  <2>7. ASSUME NEW q \in Procs, q # p PROVE WitnessOf(q)'
    <3>1. CASE At(q, "sent")
      BY <2>3, <2>5, <2>7, <3>1
    <3>2. CASE ~At(q, "sent")
      <4>1. seen'[q] = seen[q]
        BY <2>3, <2>7, <3>2
      <4>2. WitnessOf(q)
        OBVIOUS
      <4>3. QED
        BY <2>5, <2>7, <3>2, <4>1, <4>2
    <3>3. QED
      BY <3>1, <3>2
  <2>8. WitnessOf(p)'
    <3> HIDE DEF Done, Read
    <3>1. ~At(p, "sent")' /\ pc'[p] \notin {"fn", "returned"}
      BY <2>6
    <3>2. QED
      BY <2>2, <2>4, <3>1
  <2>9. QED
    BY <2>7, <2>8
<1>4. ASSUME NEW p \in Procs, Lose(p) PROVE Witnessed'
  BY <1>4 DEF Lose
<1>5. ASSUME NEW p \in Procs, HandleReturns(p) PROVE Witnessed'
  <2>1. op[p] \in Operations /\ reply[p].status \in Statuses /\ At(p, "replied")
    BY <1>5 DEF HandleReturns, InStep
  <2>2. op[p].verb \in Verbs
    BY <2>1 DEF Operations
  <2>3. /\ err' = [err EXCEPT ![p] = HandleErr(p)]
        /\ Goto(p, "fn")
        /\ dest' = [dest EXCEPT ![p] = dest'[p]]
        /\ reply' = [reply EXCEPT ![p] = NoReply]
        /\ UNCHANGED <<docs, kind, op, ops, seen>>
    BY <1>5 DEF HandleReturns
  <2>4. HandleErr(p) = "ErrNotFound" => None \in seen[p]
    BY <2>1, <2>2, HandleErrors
  <2>5. HandleErr(p) = "none" => Done(p) /\ Read(p, dest'[p])
    <3>1. HandleErr(p) = "none" =>
              reply[p].status = "ok" \/ (reply[p].status = "cut" /\ op[p].verb # "get")
      BY <2>1, <2>2, HandleErrors
    <3>2. HandleErr(p) = "none" /\ op[p].verb = "get" => dest'[p] = reply[p].doc
      BY <1>5 DEF HandleReturns
    <3>3. QED
      BY <2>1, <3>1, <3>2
  <2>6. QED
    BY <2>1, <2>3, <2>4, <2>5
<1>6. ASSUME NEW p \in Procs, Call(p) PROVE Witnessed'
  BY <1>6 DEF Call
<1>7. ASSUME NEW p \in Procs, Return(p) PROVE Witnessed'
  BY <1>7 DEF Return
<1>8. ASSUME NEW o \in Writes, Arrive(o) PROVE Witnessed'
  <2>1. o \in Operations
    BY DEF Writes
  <2>2. UNCHANGED <<pc, op, ops, reply, dest, err>>
    BY <1>8 DEF Arrive
  <2>3. QED
    BY <1>8, <2>1, <2>2, TakesWitnessed DEF Arrive
<1>9. CASE UNCHANGED vars
  BY <1>9
<1>10. QED
  BY <1>1, <1>2, <1>3, <1>4, <1>5, <1>6, <1>7, <1>8, <1>9 DEF Next, Step

LEMMA NextHandles == HandlesInv /\ [Next]_vars => HandlesInv'
BY NextTyped, NextInStep, NextWitnessed DEF HandlesInv

----------------------------------------------------------------------------
(* The theorems.                                                           *)

\* The invariant the other theorems are read off.
THEOREM HandlesInvariant == Spec => []HandlesInv
<1>1. QED
  BY InitHandles, NextHandles, PTL DEF Spec

\* Every variable of a call, of the store and of the network keeps its type.
THEOREM HandlesTyped == Spec => []TypeOK
<1>1. HandlesInv => TypeOK
  BY DEF HandlesInv
<1>2. QED
  BY <1>1, HandlesInvariant, PTL

\* runner.go:27-43 and the four handle.go: ErrNotFound comes with no value and
\* only of a document that was missing during the exchange.
THEOREM MissesAreAlwaysReal == Spec => []MissesAreReal
<1>1. HandlesInv => MissesAreReal
  BY HandlesAssumption DEF HandlesInv, InStep, Witnessed, WitnessOf,
     MissesAreReal, Answered
<1>2. QED
  BY <1>1, HandlesInvariant, PTL

\* The four handle.go: a call without an error has read what it returns and
\* done what it says.
THEOREM SuccessIsAlwaysReal == Spec => []SuccessIsReal
<1>1. HandlesInv => SuccessIsReal
  BY HandlesAssumption DEF HandlesInv, InStep, Witnessed, WitnessOf,
     Done, Read, SuccessIsReal, Answered
<1>2. QED
  BY <1>1, HandlesInvariant, PTL
============================================================================
