----------------------------- MODULE NestedRuns -----------------------------
(***************************************************************************)
(* Functions that call the library again.  The function a Run executes may *)
(* call Run, under its own context or a fresh one, and Remove or Close,    *)
(* and it waits for them; a process of Executor.tla is then one activation *)
(* of Run, and a goroutine is a chain of them.  The waits these calls make *)
(* are the ones the library cannot see: an activation waits for a token    *)
(* (throttle.go:28-33) or for a source to drain (directory.go:180, 202)    *)
(* while the activations below it hold tokens and places in wait groups.   *)
(* A driver's Open, which Close waits for last, ends by itself.            *)
(***************************************************************************)
EXTENDS Executor, SequencesExt

CONSTANT InOrder    \* pairs <<c, d>>: code running on c may wait for d

ASSUME InOrderAssumption ==
    /\ InOrder \subseteq Ids \X Ids
    /\ \A c \in Ids : <<c, c>> \notin InOrder
    /\ \A c, d, e \in Ids : <<c, d>> \in InOrder /\ <<d, e>> \in InOrder => <<c, e>> \in InOrder

VARIABLES
    callers,    \* callers[q]: the activations whose functions q was called from
    heeds,      \* heeds[q]: the activations whose context's end is the end of q's
    removing    \* removing[p]: the sources a Remove or Close of p's function drains

nestVars == <<callers, heeds, removing>>
nestedVars == <<vars, nestVars>>

CallsInit ==
    /\ callers = [p \in Procs |-> {}]
    /\ heeds = [p \in Procs |-> {}]
    /\ removing = [p \in Procs |-> <<>>]

NestInit == Init /\ CallsInit

HasCalled(p) == \E q \in Procs : p \in callers[q]

\* p's function runs and is not inside a call to the library.
InControl(p) == At(p, "running") /\ ~HasCalled(p) /\ removing[p] = <<>>

\* Activations have no identity: a call of Run takes some free one.
Free(p) == At(p, "idle") /\ p = CHOOSE q \in Procs : At(q, "idle")

----------------------------------------------------------------------------

\* A goroutine that holds nothing calls Run.
TopRun(p, n) ==
    /\ Free(p)
    /\ Run(p, n)
    /\ heeds' = [heeds EXCEPT ![p] = {p}]
    /\ UNCHANGED <<callers, removing>>

\* p's function calls Run, with the context it was given (or one derived from
\* it) or with another.
CallRun(q, p, n) ==
    /\ InControl(p)
    /\ Free(q)
    /\ Run(q, n)
    /\ callers' = [callers EXCEPT ![q] = {p} \cup callers[p]]
    /\ \/ /\ ctx[p] # "live" => ctx'[q] = "dead"
          /\ heeds' = [heeds EXCEPT ![q] = {q} \cup heeds[p]]
       \/ heeds' = [heeds EXCEPT ![q] = {q}]
    /\ UNCHANGED removing

\* p's function calls Remove: the source loses its name, then is drained.
CallRemove(p, n) ==
    /\ InControl(p)
    /\ RetireSource(n)
    /\ removing' = [removing EXCEPT ![p] = <<reg[n]>>]
    /\ UNCHANGED <<executorVars, callers, heeds>>

\* p's function calls Close: every source loses its name, then they are
\* drained one after the other in the order of a map.
CallClose(p) ==
    /\ InControl(p)
    /\ RetireAll
    /\ \E order \in SetToSeqs({c \in Ids : stage[c] = "visible"}) :
          removing' = [removing EXCEPT ![p] = order]
    /\ UNCHANGED <<executorVars, callers, heeds>>

\* Mutation: Remove and Close do not wait for the functions in flight.
DrainUnawaited(p) ==
    /\ removing[p] # <<>>
    /\ stage' = [stage EXCEPT ![Head(removing[p])] = "closed"]
    /\ removing' = [removing EXCEPT ![p] = Tail(@)]
    /\ UNCHANGED <<reg, users, shut, executorVars, callers, heeds>>

\* The source being drained is idle and its client is closed.
DrainEnds(p) ==
    /\ removing[p] # <<>>
    /\ CloseSource(Head(removing[p]))
    /\ removing' = [removing EXCEPT ![p] = Tail(@)]
    /\ UNCHANGED <<executorVars, callers, heeds>>

\* Mutation: fn is given a context of its own instead of the caller's.
CancelAlone(p) == Cancel(p) /\ UNCHANGED nestVars

\* A context ends, and every context derived from it.
CancelDerived(p) ==
    /\ ~At(p, "idle")
    /\ ctx[p] = "live"
    /\ ctx' = [q \in Procs |-> IF p \in heeds[q] /\ ctx[q] = "live" THEN "done" ELSE ctx[q]]
    /\ UNCHANGED <<lifecycleVars, sem, pc, entry, name, told, inflight, nestVars>>

NestedFnStep(p) == InControl(p) /\ FnStep(p) /\ UNCHANGED nestVars

\* When Run returns, its caller's function goes on.
NestedRunStep(p) ==
    /\ RunStep(p)
    /\ IF pc'[p] = "idle"
       THEN /\ callers' = [callers EXCEPT ![p] = {}]
            /\ heeds' = [heeds EXCEPT ![p] = {}]
            /\ UNCHANGED removing
       ELSE UNCHANGED nestVars

LibraryStep(p) == NestedRunStep(p) \/ DrainEnds(p)

\* Other goroutines; a source is closed by whoever removed it.
OthersStep ==
    /\ DirectoryStep
    /\ \A p \in Procs : \A c \in ToSet(removing[p]) : stage'[c] = stage[c]
    /\ UNCHANGED nestVars

NestedNext ==
    \/ \E p \in Procs :
          \/ \E n \in Names : TopRun(p, n) \/ CallRemove(p, n)
          \/ \E q \in Procs \ {p}, n \in Names : CallRun(q, p, n)
          \/ CallClose(p)
          \/ CancelDerived(p)
          \/ NestedFnStep(p)
          \/ LibraryStep(p)
    \/ OthersStep

NestedSpec == NestInit /\ [][NestedNext]_nestedVars

(* The library's steps are taken once they can be; nothing is assumed of   *)
(* functions, of contexts or of other goroutines.                          *)
NestedFairness == \A p \in Procs : WF_nestedVars(LibraryStep(p))

NestedFairSpec == NestedSpec /\ NestedFairness

----------------------------------------------------------------------------
(* Properties.                                                             *)

\* Types, and the shape of the stacks: a function in a nested call is still in
\* flight on its source, whose client is open whatever the call removes; the
\* activations of one goroutine are one below the other; and what a function
\* drains is what nobody can reach any more (directory.go:161-181).
NestTypeOK ==
    /\ TypeOK
    /\ callers \in [Procs -> SUBSET Procs]
    /\ heeds \in [Procs -> SUBSET Procs]
    /\ removing \in [Procs -> Seq(Ids)]
    /\ \A q \in Procs, p \in Procs : p \in callers[q] =>
          /\ At(p, "running") /\ stage[entry[p]] # "closed" /\ callers[p] \subseteq callers[q]
          /\ \A r \in Procs : p \in callers[r] => q = r \/ q \in callers[r] \/ r \in callers[q]
    /\ \A p \in Procs : removing[p] # <<>> =>
          At(p, "running") /\ \A c \in ToSet(removing[p]) : stage[c] = "retired"

\* The activation at the end of the chain p has begun.
Innermost(p) == CHOOSE q \in Procs : (q = p \/ p \in callers[q]) /\ ~HasCalled(q)

\* p is in a call that has nothing to wait for but the library, or code whose
\* context is not p's.
Home(p) ==
    LET q == Innermost(p)
    IN  At(q, "idle") \/ InControl(q) \/ removing[q] # <<>> \/ p \notin heeds[q]

\* "A cancelled ctx returns immediately at Acquire" (executor.go:19), through
\* every Run a function makes under the context it was given: once a Run's
\* context is over, control comes back from wherever in its nest it waited
\* for a token, although nothing says the holders of the tokens will ever
\* return.  Only a removal, and a call under a context of its own, may hold
\* it up.
CancelledNestComesHome == \A p \in Procs : []<>(ctx[p] = "live" \/ Home(p))

\* Where code waits for another source, it is one that comes later.
Ordered ==
    \A p, q \in Procs :
        /\ p \in callers[q] => <<entry[p], entry[q]>> \in InOrder
        /\ p = q \/ p \in callers[q] =>
              \A c \in ToSet(removing[q]) : <<entry[p], c>> \in InOrder

NewCall ==
    \E p \in Procs : \/ At(p, "idle") /\ pc'[p] # "idle"
                     \/ removing[p] = <<>> /\ removing'[p] # <<>>

\* Functions that wait for each other's sources in one order, never for their
\* own, cannot hang on the library: once no new call is made, and if no
\* function keeps control for ever, every Run that waits for a token gets
\* it, every removal comes to its end and every Run returns
\* (executor.go:47-61, directory.go:180, 201-204).
OrderedNestingReturns ==
    (/\ <>[]Ordered
     /\ <>[][~NewCall]_nestedVars
     /\ \A p \in Procs : []<>~InControl(p))
        => \A p \in Procs : []<>At(p, "idle")
============================================================================
