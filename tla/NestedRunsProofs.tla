-------------------------- MODULE NestedRunsProofs --------------------------
(***************************************************************************)
(* Proofs about NestedRuns: what is true of single Runs stays true when    *)
(* their functions call the library again, for every finite set of         *)
(* activations, every set of names and sources and every limit.            *)
(***************************************************************************)
EXTENDS NestedRuns, ExecutorProofs

USE DEF At, Goto, lifecycleVars, executorVars, vars, nestVars, nestedVars

NestTypes ==
    /\ callers \in [Procs -> SUBSET Procs]
    /\ heeds \in [Procs -> SUBSET Procs]
    /\ removing \in [Procs -> Seq(Ids)]

\* The functions below an activation are running and wait for it alone; what
\* is below them is below it, and two activations above one function are one
\* above the other.
Stacked ==
    /\ \A p, q \in Procs : p \in callers[q] =>
           /\ At(p, "running") /\ removing[p] = <<>> /\ p # q
           /\ callers[p] \subseteq callers[q]
    /\ \A p, q, r \in Procs : p \in callers[q] /\ p \in callers[r] =>
           q = r \/ q \in callers[r] \/ r \in callers[q]
    /\ \A q \in Procs : At(q, "idle") => callers[q] = {}

\* A function that drains is running, and each source it has still to drain is
\* retired and waits for this call only.
Draining ==
    /\ \A p \in Procs : removing[p] # <<>> => At(p, "running")
    /\ \A p \in Procs : \A i \in 1..Len(removing[p]) : stage[removing[p][i]] = "retired"
    /\ \A p, q \in Procs : \A i \in 1..Len(removing[p]), j \in 1..Len(removing[q]) :
           removing[p][i] = removing[q][j] => p = q /\ i = j

\* A context belongs to the activation or to one below it, contexts derived
\* from a derived context are derived, and the end of a context is the end of
\* the contexts derived from it.
Derived ==
    /\ \A q \in Procs : heeds[q] \subseteq {q} \cup callers[q]
    /\ \A q \in Procs : At(q, "idle") => heeds[q] = {}
    /\ \A p, q \in Procs : p \in heeds[q] => heeds[p] \subseteq heeds[q]
    /\ \A p, q \in Procs : p \in heeds[q] /\ ctx[p] # "live" => ctx[q] # "live"

VisibleSources == {c \in Ids : stage[c] = "visible"}

NInv ==
    /\ IInv
    /\ VisibleIffRegistered
    /\ IsFiniteSet(VisibleSources)
    /\ NestTypes
    /\ Stacked
    /\ Draining
    /\ Derived

----------------------------------------------------------------------------
(* What single Runs keep.                                                  *)

\* The end of several contexts at once keeps what the end of each keeps.
LEMMA CancelDerivedKeepsRuns ==
    ASSUME IInv, NEW p \in Procs, CancelDerived(p) PROVE IInv'
<1> USE DEF IInv
<1>1. UNCHANGED <<lifecycleVars, sem, pc, entry, name, told, inflight>>
  BY DEF CancelDerived
<1>2. TypeOK'
  <2>1. ctx' \in [Procs -> {"live", "done", "dead"}]
    BY DEF CancelDerived, TypeOK
  <2>2. QED
    BY <1>1, <2>1 DEF TypeOK, LifecycleTypeOK
<1>3. Admitted' /\ Guarded'
  BY <1>1 DEF Admitted, Guarded, Throttled
<1>4. TokensConserved' /\ InflightExact'
  BY <1>1 DEF TokensConserved, HoldsToken, InflightExact, CountedBy
<1>5. TurnedAway'
  <2>1. \A q \in Procs : ctx'[q] = "dead" => ctx[q] = "dead"
    BY DEF CancelDerived
  <2>2. QED
    BY <1>1, <2>1 DEF TurnedAway
<1>6. QED
  BY <1>2, <1>3, <1>4, <1>5

LEMMA HeadAndTail ==
    ASSUME NEW s \in Seq(Ids), s # <<>>
    PROVE  /\ Len(s) \in Nat /\ 1 \in 1..Len(s) /\ Head(s) = s[1] /\ s[1] \in Ids
           /\ Tail(s) \in Seq(Ids) /\ Len(Tail(s)) = Len(s) - 1
           /\ \A i \in 1..Len(Tail(s)) : i + 1 \in 1..Len(s) /\ Tail(s)[i] = s[i + 1]
OBVIOUS

\* Every step but the end of a context is a step of Executor.
LEMMA NestedIsNext ==
    ASSUME NestTypes, NestedNext PROVE Next \/ \E p \in Procs : CancelDerived(p)
<1>1. ASSUME NEW p \in Procs, NEW n \in Names, TopRun(p, n) PROVE Next
  BY <1>1 DEF TopRun, Next
<1>2. ASSUME NEW p \in Procs, NEW n \in Names, CallRemove(p, n) PROVE Next
  BY <1>2 DEF CallRemove, Next, DirectoryStep
<1>3. ASSUME NEW p \in Procs, NEW q \in Procs, NEW n \in Names, CallRun(q, p, n) PROVE Next
  BY <1>3 DEF CallRun, Next
<1>4. ASSUME NEW p \in Procs, CallClose(p) PROVE Next
  BY <1>4 DEF CallClose, Next, DirectoryStep
<1>5. ASSUME NEW p \in Procs, NestedFnStep(p) PROVE Next
  BY <1>5 DEF NestedFnStep, Next
<1>6. ASSUME NEW p \in Procs, NestedRunStep(p) PROVE Next
  BY <1>6 DEF NestedRunStep, Next
<1>7. ASSUME NEW p \in Procs, DrainEnds(p) PROVE Next
  <2>1. Head(removing[p]) \in Ids
    BY <1>7, HeadAndTail DEF DrainEnds, NestTypes
  <2>2. QED
    BY <1>7, <2>1 DEF DrainEnds, Next, DirectoryStep
<1>8. CASE OthersStep
  BY <1>8 DEF OthersStep, Next
<1>9. QED
  BY <1>1, <1>2, <1>3, <1>4, <1>5, <1>6, <1>7, <1>8 DEF NestedNext, LibraryStep

LEMMA NestedKeepsRuns ==
    ASSUME IInv, NestTypes, NestedNext \/ UNCHANGED nestedVars PROVE IInv'
BY NestedIsNext, CancelDerivedKeepsRuns, NextInv

\* So it is an execution of the directory.
LEMMA NestedLifecycle ==
    ASSUME IInv, NestTypes, NestedNext \/ UNCHANGED nestedVars
    PROVE  [LifecycleNext]_lifecycleVars
<1>1. [Next]_vars => [LifecycleNext]_lifecycleVars
  BY NextLifecycle DEF IInv, LifecycleNext, DirectoryStep
<1>2. \A p \in Procs : CancelDerived(p) => UNCHANGED lifecycleVars
  BY DEF CancelDerived
<1>3. QED
  BY <1>1, <1>2, NestedIsNext

\* At most one source more is visible.
LEMMA VisibleStaysFinite ==
    ASSUME LifecycleTypeOK, IsFiniteSet(VisibleSources), [LifecycleNext]_lifecycleVars
    PROVE  IsFiniteSet(VisibleSources)'
<1> USE DEF LifecycleTypeOK
<1>1. ASSUME NEW c, VisibleSources' \subseteq VisibleSources \cup {c}
      PROVE  IsFiniteSet(VisibleSources)'
  <2>1. IsFiniteSet(VisibleSources \cup {c})
    BY FS_AddElement
  <2>2. QED
    BY <1>1, <2>1, FS_Subset
<1>2. ASSUME NEW c \in Ids, NEW n \in Names, PublishSource(c, n)
      PROVE  VisibleSources' \subseteq VisibleSources \cup {c}
  BY <1>2 DEF PublishSource, VisibleSources
<1>3. ASSUME NEW c \in Ids,
             OpenSource(c) \/ CloseSource(c) \/ \E p \in Procs : AdmitWork(p, c) \/ FinishWork(p, c)
      PROVE  VisibleSources' \subseteq VisibleSources
  BY <1>3 DEF OpenSource, CloseSource, AdmitWork, FinishWork, VisibleSources
<1>4. CASE \E n \in Names : RetireSource(n)
  <2>1. VisibleSources' \subseteq VisibleSources
    BY <1>4 DEF RetireSource, VisibleSources
  <2>2. QED
    BY <1>1, <2>1
<1>5. CASE RetireAll \/ UNCHANGED lifecycleVars
  <2>1. VisibleSources' \subseteq VisibleSources
    BY <1>5 DEF RetireAll, VisibleSources
  <2>2. QED
    BY <1>1, <2>1
<1>6. QED
  BY <1>1, <1>2, <1>3, <1>4, <1>5 DEF LifecycleNext

----------------------------------------------------------------------------
(* How the steps move the activations.                                     *)

\* A step of the library moves one Run, which is not in its function, and
\* leaves the stages alone; the context is given up when Run returns.
LEMMA RunMoves ==
    ASSUME TypeOK, NEW p \in Procs, RunStep(p)
    PROVE  /\ pc[p] \notin {"idle", "running"}
           /\ pc' = [pc EXCEPT ![p] = pc'[p]]
           /\ ctx' = IF pc'[p] = "idle" THEN [ctx EXCEPT ![p] = "live"] ELSE ctx
           /\ UNCHANGED stage
<1> USE DEF TypeOK, Labels, Callbacks, Via
<1>1. CASE Acquire(p)
  BY <1>1 DEF Acquire
<1>2. CASE TakeToken(p) \/ GiveUp(p)
  BY <1>2 DEF TakeToken, GiveUp
<1>3. CASE MemberReturns(p) \/ MemberPanics(p)
  BY <1>3 DEF MemberReturns, MemberPanics, InCallback
<1>4. CASE ObserveRefused(p) \/ ObserveAcquire(p) \/ ObserveComplete(p)
  BY <1>4 DEF ObserveRefused, ObserveAcquire, ObserveComplete, Told
<1>5. CASE ThrottleRelease(p)
  BY <1>5 DEF ThrottleRelease
<1>6. CASE Release(p)
  BY <1>6 DEF Release, FinishWork
<1>7. QED
  BY <1>1, <1>2, <1>3, <1>4, <1>5, <1>6 DEF RunStep

\* A function that returns or panics is running no more, and its Run is not
\* over yet.
LEMMA FnMoves ==
    ASSUME TypeOK, NEW p \in Procs, FnStep(p)
    PROVE  /\ At(p, "running")
           /\ pc' = [pc EXCEPT ![p] = pc'[p]]
           /\ pc'[p] \notin {"idle", "running"}
           /\ UNCHANGED <<ctx, stage>>
BY DEF FnStep, FnReturns, FnPanics, Via, TypeOK

\* A Run begins where the activation was idle.
LEMMA RunBegins ==
    ASSUME TypeOK, NEW q \in Procs, NEW n \in Names, Run(q, n)
    PROVE  /\ At(q, "idle")
           /\ pc' = [pc EXCEPT ![q] = "acquire"]
           /\ \A p \in Procs \ {q} : ctx'[p] = ctx[p]
           /\ UNCHANGED stage
BY DEF Run, AdmitWork, TypeOK

----------------------------------------------------------------------------
(* Types.                                                                  *)

\* The order in which Close drains is an order of finitely many sources.
LEMMA CloseOrder ==
    ASSUME IsFiniteSet(VisibleSources), NEW order \in SetToSeqs(VisibleSources)
    PROVE  /\ order \in Seq(Ids)
           /\ \A i \in 1..Len(order) : stage[order[i]] = "visible"
           /\ \A i, j \in 1..Len(order) : order[i] = order[j] => i = j
<1> DEFINE size == Cardinality(VisibleSources)
<1>1. size \in Nat
  BY FS_CardinalityType
<1>2. /\ order \in [1..size -> VisibleSources]
      /\ \A i, j \in 1..size : i # j => order[i] # order[j]
  BY DEF SetToSeqs
<1>3. VisibleSources \subseteq Ids
  BY DEF VisibleSources
<1> HIDE DEF size
<1>4. order \in Seq(Ids)
  BY <1>1, <1>2, <1>3
<1>5. Len(order) = size
  BY <1>1, <1>2
<1>6. QED
  BY <1>2, <1>4, <1>5 DEF VisibleSources

LEMMA NextNestTypes ==
    ASSUME TypeOK, IsFiniteSet(VisibleSources), NestTypes, NestedNext \/ UNCHANGED nestedVars
    PROVE  NestTypes'
<1> USE DEF NestTypes
<1>1. ASSUME NEW p \in Procs, NEW n \in Names, TopRun(p, n) PROVE NestTypes'
  BY <1>1 DEF TopRun
<1>2. ASSUME NEW p \in Procs, NEW n \in Names, CallRemove(p, n) PROVE NestTypes'
  <2>1. reg[n] \in Ids
    BY <1>2 DEF CallRemove, RetireSource, TypeOK, LifecycleTypeOK
  <2>2. <<reg[n]>> \in Seq(Ids)
    BY <2>1
  <2>3. QED
    BY <1>2, <2>2 DEF CallRemove
<1>3. ASSUME NEW p \in Procs, NEW q \in Procs, NEW n \in Names, CallRun(q, p, n)
      PROVE  NestTypes'
  BY <1>3 DEF CallRun
<1>4. ASSUME NEW p \in Procs, CallClose(p) PROVE NestTypes'
  <2>1. PICK order \in SetToSeqs(VisibleSources) : removing' = [removing EXCEPT ![p] = order]
    BY <1>4 DEF CallClose, VisibleSources
  <2>2. order \in Seq(Ids)
    BY CloseOrder
  <2>3. QED
    BY <1>4, <2>1, <2>2 DEF CallClose
<1>5. ASSUME NEW p \in Procs, NestedFnStep(p) PROVE NestTypes'
  BY <1>5 DEF NestedFnStep
<1>6. ASSUME NEW p \in Procs, NestedRunStep(p) PROVE NestTypes'
  BY <1>6 DEF NestedRunStep
<1>7. ASSUME NEW p \in Procs, DrainEnds(p) PROVE NestTypes'
  <2>1. Tail(removing[p]) \in Seq(Ids)
    BY <1>7, HeadAndTail DEF DrainEnds
  <2>2. QED
    BY <1>7, <2>1 DEF DrainEnds
<1>8. ASSUME NEW p \in Procs, CancelDerived(p) PROVE NestTypes'
  BY <1>8 DEF CancelDerived
<1>9. CASE OthersStep \/ UNCHANGED nestedVars
  BY <1>9 DEF OthersStep
<1>10. QED
  BY <1>1, <1>2, <1>3, <1>4, <1>5, <1>6, <1>7, <1>8, <1>9 DEF NestedNext, LibraryStep

----------------------------------------------------------------------------
(* The stacks.                                                             *)

\* A new activation on top of a chain: what the chain p is the top of becomes
\* what is below q.
LEMMA PushStacks ==
    ASSUME TypeOK, NestTypes, Stacked, NEW p \in Procs, NEW q \in Procs, NEW n \in Names,
           CallRun(q, p, n)
    PROVE  Stacked'
<1>1. /\ At(q, "idle") /\ At(p, "running") /\ removing[p] = <<>>
      /\ \A r \in Procs : p \notin callers[r]
  BY DEF CallRun, Free, InControl, HasCalled
<1>2. /\ pc' = [pc EXCEPT ![q] = "acquire"]
      /\ callers' = [callers EXCEPT ![q] = {p} \cup callers[p]]
      /\ UNCHANGED removing
  BY RunBegins DEF CallRun
<1>3. /\ callers'[q] = {p} \cup callers[p]
      /\ \A r \in Procs \ {q} : callers'[r] = callers[r] /\ pc'[r] = pc[r]
      /\ pc'[q] = "acquire"
  BY <1>2 DEF NestTypes, TypeOK
<1>4. \A r \in Procs : q \notin callers[r]
  BY <1>1 DEF Stacked
<1>5. ASSUME NEW a \in Procs, NEW x \in Procs, a \in callers'[x]
      PROVE  /\ At(a, "running")' /\ removing'[a] = <<>> /\ a # x
             /\ callers'[a] \subseteq callers'[x]
  <2>1. a # q /\ At(a, "running") /\ removing[a] = <<>>
    BY <1>1, <1>3, <1>4, <1>5 DEF Stacked
  <2>2. CASE x = q
    BY <1>2, <1>3, <1>5, <2>1, <2>2 DEF Stacked
  <2>3. CASE x # q
    BY <1>2, <1>3, <1>5, <2>1, <2>3 DEF Stacked
  <2>4. QED
    BY <2>2, <2>3
<1>6. ASSUME NEW a \in Procs, NEW x \in Procs, NEW y \in Procs,
             a \in callers'[x], a \in callers'[y]
      PROVE  x = y \/ x \in callers'[y] \/ y \in callers'[x]
  <2>1. ASSUME NEW z \in Procs \ {q}, a \in callers'[q], a \in callers'[z]
        PROVE  z \in callers'[q]
    <3>1. a \in callers[z]
      BY <1>3, <2>1
    <3>2. a \in callers[p]
      BY <1>1, <1>3, <2>1, <3>1
    <3>3. z = p \/ z \in callers[p]
      BY <1>1, <3>1, <3>2 DEF Stacked
    <3>4. QED
      BY <1>3, <3>3
  <2>2. CASE x = q \/ y = q
    BY <1>6, <2>1, <2>2
  <2>3. CASE x # q /\ y # q
    BY <1>3, <1>6, <2>3 DEF Stacked
  <2>4. QED
    BY <2>2, <2>3
<1>7. \A x \in Procs : At(x, "idle")' => callers'[x] = {}
  BY <1>3 DEF Stacked
<1>8. QED
  BY <1>5, <1>6, <1>7 DEF Stacked

LEMMA NextStacked ==
    ASSUME TypeOK, NestTypes, Stacked, Draining, NestedNext \/ UNCHANGED nestedVars
    PROVE  Stacked'
\* Steps of one activation that no other activation is above.
<1>1. ASSUME NEW p \in Procs, pc' = [pc EXCEPT ![p] = pc'[p]],
             \A q \in Procs : p \notin callers[q],
             \/ UNCHANGED callers /\ pc'[p] # "idle"
             \/ callers' = [callers EXCEPT ![p] = {}],
             \A q \in Procs \ {p} : removing'[q] = removing[q]
      PROVE  Stacked'
  <2>1. \A q \in Procs : callers'[q] \subseteq callers[q] /\ (q # p => callers'[q] = callers[q])
    BY <1>1 DEF NestTypes
  <2>2. \A q \in Procs \ {p} : pc'[q] = pc[q]
    BY <1>1 DEF TypeOK
  <2>3. ASSUME NEW a \in Procs, NEW x \in Procs, a \in callers'[x]
        PROVE  /\ At(a, "running")' /\ removing'[a] = <<>> /\ a # x
               /\ callers'[a] \subseteq callers'[x]
    <3>1. a \in callers[x] /\ a # p
      BY <1>1, <2>1, <2>3
    <3>2. x # p \/ UNCHANGED callers
      BY <1>1, <2>3 DEF NestTypes
    <3>3. QED
      BY <1>1, <2>1, <2>2, <2>3, <3>1, <3>2 DEF Stacked
  <2>4. ASSUME NEW a \in Procs, NEW x \in Procs, NEW y \in Procs,
               a \in callers'[x], a \in callers'[y]
        PROVE  x = y \/ x \in callers'[y] \/ y \in callers'[x]
    <3>1. a \in callers[x] /\ a \in callers[y]
      BY <2>1, <2>4
    <3>2. x = y \/ x \in callers[y] \/ y \in callers[x]
      BY <3>1 DEF Stacked
    <3>3. (x = p \/ y = p) => UNCHANGED callers
      BY <1>1, <2>4 DEF NestTypes
    <3>4. QED
      BY <2>1, <3>2, <3>3
  <2>5. \A x \in Procs : At(x, "idle")' => callers'[x] = {}
    BY <1>1, <2>1, <2>2 DEF Stacked, NestTypes
  <2>6. QED
    BY <2>3, <2>4, <2>5 DEF Stacked
<1>2. ASSUME NEW p \in Procs, pc[p] # "running" PROVE \A q \in Procs : p \notin callers[q]
  BY <1>2 DEF Stacked
<1>3. ASSUME NEW p \in Procs, InControl(p) \/ removing[p] # <<>>
      PROVE  \A q \in Procs : p \notin callers[q]
  BY <1>3 DEF InControl, HasCalled, Stacked
<1>4. ASSUME NEW p \in Procs, NEW n \in Names, TopRun(p, n) PROVE Stacked'
  <2>1. At(p, "idle") /\ pc' = [pc EXCEPT ![p] = "acquire"] /\ UNCHANGED <<callers, removing>>
    BY <1>4, RunBegins DEF TopRun
  <2>2. pc'[p] = "acquire"
    BY <2>1 DEF TypeOK
  <2>3. QED
    BY <1>1, <1>2, <2>1, <2>2
<1>5. ASSUME NEW p \in Procs, CallClose(p) \/ \E n \in Names : CallRemove(p, n)
      PROVE  Stacked'
  <2>1. /\ InControl(p) /\ pc[p] = "running" /\ UNCHANGED <<pc, callers>>
        /\ \A q \in Procs \ {p} : removing'[q] = removing[q]
    BY <1>5 DEF CallRemove, CallClose, InControl, NestTypes
  <2>2. pc' = [pc EXCEPT ![p] = pc'[p]] /\ pc'[p] = "running"
    BY <2>1 DEF TypeOK
  <2>3. QED
    BY <1>1, <1>3, <2>1, <2>2
<1>6. ASSUME NEW p \in Procs, NEW q \in Procs, NEW n \in Names, CallRun(q, p, n)
      PROVE  Stacked'
  BY <1>6, PushStacks
<1>7. ASSUME NEW p \in Procs, NestedFnStep(p) PROVE Stacked'
  <2>1. InControl(p) /\ UNCHANGED <<callers, removing>>
    BY <1>7 DEF NestedFnStep
  <2>2. pc' = [pc EXCEPT ![p] = pc'[p]] /\ pc'[p] # "idle"
    BY <1>7, FnMoves DEF NestedFnStep
  <2>3. QED
    BY <1>1, <1>3, <2>1, <2>2
<1>8. ASSUME NEW p \in Procs, NestedRunStep(p) PROVE Stacked'
  <2>1. pc[p] # "running" /\ pc' = [pc EXCEPT ![p] = pc'[p]]
    BY <1>8, RunMoves DEF NestedRunStep
  <2>2. /\ UNCHANGED removing
        /\ IF pc'[p] = "idle" THEN callers' = [callers EXCEPT ![p] = {}] ELSE UNCHANGED callers
    BY <1>8 DEF NestedRunStep
  <2>3. QED
    BY <1>1, <1>2, <2>1, <2>2
<1>9. ASSUME NEW p \in Procs, DrainEnds(p) PROVE Stacked'
  <2>1. /\ removing[p] # <<>> /\ UNCHANGED <<pc, callers>>
        /\ \A q \in Procs \ {p} : removing'[q] = removing[q]
    BY <1>9 DEF DrainEnds, NestTypes
  <2>2. At(p, "running")
    BY <2>1 DEF Draining
  <2>3. pc' = [pc EXCEPT ![p] = pc'[p]] /\ pc'[p] = "running"
    BY <2>1, <2>2 DEF TypeOK
  <2>4. QED
    BY <1>1, <1>3, <2>1, <2>3
<1>10. ASSUME NEW p \in Procs, CancelDerived(p) PROVE Stacked'
  BY <1>10 DEF CancelDerived, Stacked
<1>11. CASE OthersStep \/ UNCHANGED nestedVars
  BY <1>11 DEF OthersStep, DirectoryStep, Stacked
<1>12. QED
  BY <1>4, <1>5, <1>6, <1>7, <1>8, <1>9, <1>10, <1>11 DEF NestedNext, LibraryStep

----------------------------------------------------------------------------
(* What is drained.                                                        *)

\* A call that begins to drain sources which were visible until now: nobody
\* else drains any of them.
LEMMA DrainBegins ==
    ASSUME NestTypes, Draining, NEW p \in Procs, NEW order \in Seq(Ids),
           At(p, "running"), removing[p] = <<>>, UNCHANGED pc,
           removing' = [removing EXCEPT ![p] = order],
           \A i \in 1..Len(order) : stage[order[i]] = "visible" /\ stage'[order[i]] = "retired",
           \A i, j \in 1..Len(order) : order[i] = order[j] => i = j,
           \A c \in Ids : stage[c] = "retired" => stage'[c] = "retired"
    PROVE  Draining'
<1>1. removing'[p] = order /\ \A q \in Procs \ {p} : removing'[q] = removing[q]
  BY DEF NestTypes
<1>2. \A q \in Procs : removing'[q] # <<>> => At(q, "running")'
  BY <1>1 DEF Draining
<1>3. ASSUME NEW q \in Procs, NEW i \in 1..Len(removing'[q])
      PROVE  stage'[removing'[q][i]] = "retired"
  <2>1. CASE q = p
    BY <1>1, <2>1, <1>3
  <2>2. CASE q # p
    <3>1. removing'[q] = removing[q] /\ removing[q] \in Seq(Ids)
      BY <1>1, <2>2 DEF NestTypes
    <3>2. removing[q][i] \in Ids /\ stage[removing[q][i]] = "retired"
      BY <1>3, <3>1 DEF Draining
    <3>3. QED
      BY <3>1, <3>2
  <2>3. QED
    BY <2>1, <2>2
<1>4. ASSUME NEW q \in Procs, NEW r \in Procs,
             NEW i \in 1..Len(removing'[q]), NEW j \in 1..Len(removing'[r]),
             removing'[q][i] = removing'[r][j]
      PROVE  q = r /\ i = j
  <2>1. \A s \in Procs \ {p} : \A k \in 1..Len(removing'[s]) :
            stage[removing'[s][k]] = "retired"
    BY <1>1 DEF Draining
  <2>2. \A k \in 1..Len(removing'[p]) : stage[removing'[p][k]] = "visible"
    BY <1>1
  <2>3. CASE q = p /\ r = p
    BY <1>1, <1>4, <2>3
  <2>4. CASE q # p /\ r # p
    BY <1>1, <1>4, <2>4 DEF Draining
  <2>5. CASE (q = p /\ r # p) \/ (q # p /\ r = p)
    BY <1>4, <2>1, <2>2, <2>5
  <2>6. QED
    BY <2>3, <2>4, <2>5
<1>5. QED
  BY <1>2, <1>3, <1>4 DEF Draining

\* The first source of a call is closed: no other call waits for it, and this
\* one goes on with the rest.
LEMMA DrainGoesOn ==
    ASSUME NestTypes, Draining, LifecycleTypeOK, NEW p \in Procs, DrainEnds(p)
    PROVE  Draining'
<1> DEFINE gone == removing[p][1]
<1>1. /\ removing[p] # <<>> /\ removing[p] \in Seq(Ids) /\ Head(removing[p]) = gone
      /\ 1 \in 1..Len(removing[p]) /\ gone \in Ids
      /\ Len(Tail(removing[p])) = Len(removing[p]) - 1 /\ Len(removing[p]) \in Nat
      /\ \A i \in 1..Len(Tail(removing[p])) :
            i + 1 \in 1..Len(removing[p]) /\ Tail(removing[p])[i] = removing[p][i + 1]
  BY HeadAndTail DEF DrainEnds, NestTypes
<1>2. /\ stage' = [stage EXCEPT ![gone] = "closed"]
      /\ removing' = [removing EXCEPT ![p] = Tail(removing[p])]
      /\ UNCHANGED pc
  BY <1>1 DEF DrainEnds, CloseSource
\* Each place of the new lists was a later one of the old lists.
<1>3. ASSUME NEW q \in Procs, NEW i \in 1..Len(removing'[q])
      PROVE  LET was == IF q = p THEN i + 1 ELSE i
             IN  /\ was \in 1..Len(removing[q]) /\ removing'[q][i] = removing[q][was]
                 /\ removing[q][was] # gone /\ removing[q][was] \in Ids
  <2>1. CASE q = p
    <3>1. removing'[q] = Tail(removing[p])
      BY <1>2, <2>1 DEF NestTypes
    <3>2. i + 1 \in 1..Len(removing[p]) /\ removing'[q][i] = removing[p][i + 1] /\ i + 1 # 1
      BY <1>1, <1>3, <3>1
    <3>3. removing[p][i + 1] # gone
      BY <1>1, <3>2 DEF Draining
    <3>4. QED
      BY <1>1, <2>1, <3>2, <3>3
  <2>2. CASE q # p
    <3>1. removing'[q] = removing[q] /\ removing[q] \in Seq(Ids)
      BY <1>2, <2>2 DEF NestTypes
    <3>2. i \in 1..Len(removing[q])
      BY <1>3, <3>1
    <3>3. removing[q][i] # gone
      BY <1>1, <2>2, <3>2 DEF Draining
    <3>4. QED
      BY <2>2, <3>1, <3>2, <3>3
  <2>3. QED
    BY <2>1, <2>2
<1>4. \A q \in Procs : removing'[q] # <<>> => At(q, "running")'
  BY <1>1, <1>2 DEF Draining, NestTypes
<1>5. ASSUME NEW q \in Procs, NEW i \in 1..Len(removing'[q])
      PROVE  stage'[removing'[q][i]] = "retired"
  <2>1. PICK was \in 1..Len(removing[q]) :
            /\ removing'[q][i] = removing[q][was]
            /\ removing[q][was] # gone /\ removing[q][was] \in Ids
    BY <1>3, <1>5
  <2>2. stage[removing[q][was]] = "retired"
    BY DEF Draining
  <2>3. QED
    BY <1>2, <2>1, <2>2 DEF LifecycleTypeOK
<1>6. ASSUME NEW q \in Procs, NEW r \in Procs,
             NEW i \in 1..Len(removing'[q]), NEW j \in 1..Len(removing'[r]),
             removing'[q][i] = removing'[r][j]
      PROVE  q = r /\ i = j
  <2> DEFINE wasI == IF q = p THEN i + 1 ELSE i
             wasJ == IF r = p THEN j + 1 ELSE j
  <2>1. wasI \in 1..Len(removing[q]) /\ removing'[q][i] = removing[q][wasI]
    BY <1>3
  <2>2. wasJ \in 1..Len(removing[r]) /\ removing'[r][j] = removing[r][wasJ]
    BY <1>3
  <2>3. removing[q][wasI] = removing[r][wasJ]
    BY <1>6, <2>1, <2>2
  <2>4. q = r /\ wasI = wasJ
    <3> HIDE DEF wasI, wasJ
    <3>1. QED
      BY <2>1, <2>2, <2>3 DEF Draining
  <2>5. i \in Int /\ j \in Int
    OBVIOUS
  <2>6. QED
    BY <2>4, <2>5
<1>7. QED
  BY <1>4, <1>5, <1>6 DEF Draining

LEMMA NextDraining ==
    ASSUME TypeOK, Guarded, VisibleIffRegistered, IsFiniteSet(VisibleSources),
           NestTypes, Draining, NestedNext \/ UNCHANGED nestedVars
    PROVE  Draining'
\* Most steps leave lists and stages alone, and running functions that drain.
<1>1. ASSUME NEW p \in Procs, UNCHANGED <<removing, stage>>, removing[p] = <<>>,
             pc' = [pc EXCEPT ![p] = pc'[p]]
      PROVE  Draining'
  <2>1. \A q \in Procs : removing'[q] # <<>> => At(q, "running")'
    BY <1>1 DEF Draining, TypeOK
  <2>2. QED
    BY <1>1, <2>1 DEF Draining
<1>2. ASSUME NEW p \in Procs, pc[p] # "running" PROVE removing[p] = <<>>
  BY <1>2 DEF Draining
<1>3. ASSUME NEW q \in Procs, NEW n \in Names, UNCHANGED removing, Run(q, n) PROVE Draining'
  <2>1. /\ pc[q] # "running" /\ pc' = [pc EXCEPT ![q] = "acquire"]
        /\ UNCHANGED stage
    BY <1>3, RunBegins
  <2>2. pc' = [pc EXCEPT ![q] = pc'[q]]
    BY <2>1 DEF TypeOK
  <2>3. QED
    BY <1>1, <1>2, <1>3, <2>1, <2>2
<1>4. ASSUME NEW p \in Procs, NEW n \in Names, CallRemove(p, n) PROVE Draining'
  <2> DEFINE order == <<reg[n]>>
  <2>1. /\ reg[n] \in Ids /\ stage[reg[n]] = "visible"
        /\ stage' = [stage EXCEPT ![reg[n]] = "retired"]
    BY <1>4 DEF CallRemove, RetireSource, TypeOK, LifecycleTypeOK, Guarded
  <2>2. /\ removing' = [removing EXCEPT ![p] = order]
        /\ At(p, "running") /\ removing[p] = <<>> /\ UNCHANGED pc
    BY <1>4 DEF CallRemove, InControl
  <2>3. /\ \A c \in Ids : stage[c] = "retired" => stage'[c] = "retired"
        /\ stage'[reg[n]] = "retired"
    BY <2>1 DEF TypeOK, LifecycleTypeOK
  <2>4. /\ order \in Seq(Ids)
        /\ \A i \in 1..Len(order) : i = 1 /\ order[i] = reg[n]
    BY <2>1
  <2> HIDE DEF order
  <2>5. QED
    BY <2>1, <2>2, <2>3, <2>4, DrainBegins
<1>5. ASSUME NEW p \in Procs, CallClose(p) PROVE Draining'
  <2>1. PICK order \in SetToSeqs(VisibleSources) : removing' = [removing EXCEPT ![p] = order]
    BY <1>5 DEF CallClose, VisibleSources
  <2>2. /\ order \in Seq(Ids)
        /\ \A i \in 1..Len(order) : order[i] \in Ids /\ stage[order[i]] = "visible"
        /\ \A i, j \in 1..Len(order) : order[i] = order[j] => i = j
    BY CloseOrder
  <2>3. /\ \A c \in Ids : stage[c] = "visible" => stage'[c] = "retired"
        /\ \A c \in Ids : stage[c] = "retired" => stage'[c] = "retired"
    BY <1>5 DEF CallClose, RetireAll, VisibleIffRegistered
  <2>4. At(p, "running") /\ removing[p] = <<>> /\ UNCHANGED pc
    BY <1>5 DEF CallClose, InControl
  <2>5. QED
    BY <2>1, <2>2, <2>3, <2>4, DrainBegins
<1>6. ASSUME NEW p \in Procs, NestedFnStep(p) PROVE Draining'
  <2>1. removing[p] = <<>> /\ UNCHANGED removing
    BY <1>6 DEF NestedFnStep, InControl
  <2>2. pc' = [pc EXCEPT ![p] = pc'[p]] /\ UNCHANGED stage
    BY <1>6, FnMoves DEF NestedFnStep
  <2>3. QED
    BY <1>1, <2>1, <2>2
<1>7. ASSUME NEW p \in Procs, NestedRunStep(p) PROVE Draining'
  <2>1. pc[p] # "running" /\ pc' = [pc EXCEPT ![p] = pc'[p]] /\ UNCHANGED stage
    BY <1>7, RunMoves DEF NestedRunStep
  <2>2. UNCHANGED removing
    BY <1>7 DEF NestedRunStep
  <2>3. QED
    BY <1>1, <1>2, <2>1, <2>2
<1>8. ASSUME NEW p \in Procs, DrainEnds(p) PROVE Draining'
  BY <1>8, DrainGoesOn DEF TypeOK
<1>9. CASE OthersStep
  <2>1. UNCHANGED <<pc, removing>>
    BY <1>9 DEF OthersStep, DirectoryStep
  <2>2. \A p \in Procs : \A i \in 1..Len(removing[p]) :
            stage'[removing[p][i]] = stage[removing[p][i]]
    BY <1>9 DEF OthersStep, ToSet, NestTypes
  <2>3. QED
    BY <2>1, <2>2 DEF Draining
<1>10. CASE UNCHANGED nestedVars \/ \E p \in Procs : CancelDerived(p)
  BY <1>10 DEF CancelDerived, Draining
<1>11. \A p \in Procs, n \in Names : TopRun(p, n) => Run(p, n) /\ UNCHANGED removing
  BY DEF TopRun
<1>12. \A p, q \in Procs, n \in Names : CallRun(q, p, n) => Run(q, n) /\ UNCHANGED removing
  BY DEF CallRun
<1>13. QED
  BY <1>3, <1>4, <1>5, <1>6, <1>7, <1>8, <1>9, <1>10, <1>11, <1>12
     DEF NestedNext, LibraryStep

----------------------------------------------------------------------------
(* The contexts.                                                           *)

LEMMA NextDerived ==
    ASSUME TypeOK, NestTypes, Stacked, Derived, NestedNext \/ UNCHANGED nestedVars
    PROVE  Derived'
\* Nobody heeds an activation whose function does not run but itself.
<1>1. ASSUME NEW p \in Procs, pc[p] # "running" PROVE \A q \in Procs \ {p} : p \notin heeds[q]
  BY <1>1 DEF Stacked, Derived
\* A Run begins with a context of its own, or one derived from p's.
<1>2. ASSUME NEW q \in Procs, NEW n \in Names, Run(q, n), NEW H \in SUBSET Procs,
             NEW C \in SUBSET Procs, H \subseteq C, q \notin C,
             \A a \in H : heeds[a] \subseteq H,
             \A a \in H : ctx[a] # "live" => ctx'[q] # "live",
             heeds' = [heeds EXCEPT ![q] = {q} \cup H],
             callers'[q] = C, \A r \in Procs \ {q} : callers'[r] = callers[r]
      PROVE  Derived'
  <2>1. /\ At(q, "idle") /\ pc'[q] = "acquire"
        /\ \A r \in Procs \ {q} : pc'[r] = pc[r] /\ ctx'[r] = ctx[r]
    BY <1>2, RunBegins DEF TypeOK
  <2>2. /\ heeds'[q] = {q} \cup H
        /\ \A r \in Procs \ {q} : heeds'[r] = heeds[r] /\ q \notin heeds[r]
    BY <1>1, <1>2, <2>1 DEF NestTypes
  <2>3. \A r \in Procs : heeds'[r] \subseteq {r} \cup callers'[r]
    BY <1>2, <2>2 DEF Derived
  <2>4. \A r \in Procs : At(r, "idle")' => heeds'[r] = {}
    BY <2>1, <2>2 DEF Derived
  <2>5. ASSUME NEW a \in Procs, NEW r \in Procs, a \in heeds'[r]
        PROVE  /\ heeds'[a] \subseteq heeds'[r]
               /\ ctx'[a] # "live" => ctx'[r] # "live"
    <3>1. CASE r = q
      BY <1>2, <2>1, <2>2, <2>5, <3>1
    <3>2. CASE r # q
      BY <2>1, <2>2, <2>5, <3>2 DEF Derived
    <3>3. QED
      BY <3>1, <3>2
  <2>6. QED
    BY <2>3, <2>4, <2>5 DEF Derived
<1>3. ASSUME NEW p \in Procs, NEW n \in Names, TopRun(p, n) PROVE Derived'
  <2>1. callers[p] = {} /\ UNCHANGED callers
    BY <1>3 DEF TopRun, Free, Stacked
  <2>2. Run(p, n) /\ heeds' = [heeds EXCEPT ![p] = {p} \cup {}]
    BY <1>3 DEF TopRun
  <2>3. QED
    BY <1>2, <2>1, <2>2
<1>4. ASSUME NEW p \in Procs, NEW q \in Procs, NEW n \in Names, CallRun(q, p, n)
      PROVE  Derived'
  <2> DEFINE C == {p} \cup callers[p]
  <2>1. At(q, "idle") /\ At(p, "running") /\ Run(q, n)
    BY <1>4 DEF CallRun, Free, InControl
  <2>2. C \subseteq Procs /\ q \notin C
    BY <2>1 DEF NestTypes, Stacked
  <2>3. callers'[q] = C /\ \A r \in Procs \ {q} : callers'[r] = callers[r]
    BY <1>4 DEF CallRun, NestTypes
  <2> HIDE DEF C
  <2>4. CASE heeds' = [heeds EXCEPT ![q] = {q}]
    <3>1. PICK H \in SUBSET Procs : H = {}
      OBVIOUS
    <3>2. heeds' = [heeds EXCEPT ![q] = {q} \cup H] /\ H \subseteq C
      BY <2>4, <3>1
    <3>3. \A a \in H : heeds[a] \subseteq H /\ (ctx[a] # "live" => ctx'[q] # "live")
      BY <3>1
    <3>4. QED
      BY <1>2, <2>1, <2>2, <2>3, <3>2, <3>3
  <2>5. CASE /\ ctx[p] # "live" => ctx'[q] = "dead"
             /\ heeds' = [heeds EXCEPT ![q] = {q} \cup heeds[p]]
    <3>1. heeds[p] \subseteq C /\ heeds[p] \subseteq Procs
      BY DEF Derived, C, NestTypes
    <3>2. \A a \in heeds[p] : heeds[a] \subseteq heeds[p] /\ (ctx[a] # "live" => ctx[p] # "live")
      BY <3>1 DEF Derived
    <3>3. QED
      BY <1>2, <2>1, <2>2, <2>3, <2>5, <3>1, <3>2
  <2>6. QED
    BY <1>4, <2>4, <2>5 DEF CallRun
\* Steps that leave the contexts alone and end no Run.
<1>5. ASSUME UNCHANGED <<heeds, callers, ctx>>,
             \A q \in Procs : At(q, "idle")' => At(q, "idle")
      PROVE  Derived'
  BY <1>5 DEF Derived
<1>6. ASSUME NEW p \in Procs, NestedFnStep(p) PROVE Derived'
  BY <1>5, <1>6, FnMoves DEF NestedFnStep, TypeOK
<1>7. ASSUME NEW p \in Procs, NestedRunStep(p) PROVE Derived'
  <2>1. /\ pc[p] \notin {"idle", "running"} /\ pc' = [pc EXCEPT ![p] = pc'[p]]
        /\ ctx' = IF pc'[p] = "idle" THEN [ctx EXCEPT ![p] = "live"] ELSE ctx
    BY <1>7, RunMoves DEF NestedRunStep
  <2>2. CASE pc'[p] # "idle"
    <3>1. UNCHANGED <<heeds, callers, ctx>>
      BY <1>7, <2>1, <2>2 DEF NestedRunStep
    <3>2. QED
      BY <1>5, <2>1, <2>2, <3>1 DEF TypeOK
  <2>3. CASE pc'[p] = "idle"
    <3>1. /\ heeds'[p] = {} /\ callers'[p] = {}
          /\ \A q \in Procs \ {p} :
                /\ heeds'[q] = heeds[q] /\ callers'[q] = callers[q]
                /\ ctx'[q] = ctx[q] /\ pc'[q] = pc[q]
      BY <1>7, <2>1, <2>3 DEF NestedRunStep, NestTypes, TypeOK
    <3>2. \A q \in Procs : p \notin heeds'[q]
      BY <1>1, <2>1, <3>1
    <3>3. \A q \in Procs : /\ heeds'[q] \subseteq {q} \cup callers'[q]
                           /\ At(q, "idle")' => heeds'[q] = {}
      BY <3>1 DEF Derived
    <3>4. ASSUME NEW a \in Procs, NEW r \in Procs, a \in heeds'[r]
          PROVE  /\ heeds'[a] \subseteq heeds'[r]
                 /\ ctx'[a] # "live" => ctx'[r] # "live"
      <4>1. a # p /\ r # p
        BY <3>1, <3>2, <3>4
      <4>2. QED
        BY <3>1, <3>4, <4>1 DEF Derived
    <3>5. QED
      BY <3>3, <3>4 DEF Derived
  <2>4. QED
    BY <2>2, <2>3
<1>8. ASSUME NEW p \in Procs, CancelDerived(p) PROVE Derived'
  <2>1. /\ \A q \in Procs : ctx'[q] = IF p \in heeds[q] /\ ctx[q] = "live" THEN "done" ELSE ctx[q]
        /\ UNCHANGED <<heeds, callers, pc>>
    BY <1>8 DEF CancelDerived
  <2>2. ASSUME NEW a \in Procs, NEW r \in Procs, a \in heeds[r], ctx'[a] # "live"
        PROVE  ctx'[r] # "live"
    <3>1. CASE ctx[a] # "live"
      BY <2>1, <2>2, <3>1 DEF Derived
    <3>2. CASE p \in heeds[a]
      BY <2>1, <2>2, <3>2 DEF Derived
    <3>3. QED
      BY <2>1, <2>2, <3>1, <3>2
  <2>3. QED
    BY <2>1, <2>2 DEF Derived
<1>9. ASSUME NEW p \in Procs,
             CallClose(p) \/ DrainEnds(p) \/ \E n \in Names : CallRemove(p, n)
      PROVE  Derived'
  BY <1>5, <1>9 DEF CallClose, DrainEnds, CallRemove
<1>10. CASE OthersStep \/ UNCHANGED nestedVars
  BY <1>5, <1>10 DEF OthersStep, DirectoryStep
<1>11. QED
  BY <1>3, <1>4, <1>6, <1>7, <1>8, <1>9, <1>10 DEF NestedNext, LibraryStep

----------------------------------------------------------------------------
(* The theorems.                                                           *)

LEMMA InitNested == NestInit => NInv
<1> SUFFICES ASSUME NestInit PROVE NInv
  OBVIOUS
<1>1. IInv
  BY InitInv DEF NestInit
<1>2. VisibleIffRegistered /\ VisibleSources = {}
  BY NoneAssumption
     DEF NestInit, Init, LifecycleInit, VisibleIffRegistered, VisibleSources
<1>3. IsFiniteSet(VisibleSources)
  BY <1>2, FS_EmptySet
<1>4. NestTypes
  <2>1. <<>> \in Seq(Ids)
    OBVIOUS
  <2>2. QED
    BY <2>1 DEF NestInit, CallsInit, NestTypes
<1>5. Stacked /\ Derived
  BY DEF NestInit, CallsInit, Stacked, Derived, Init, ExecutorInit
<1>6. Draining
  BY DEF NestInit, CallsInit, Draining
<1>7. QED
  BY <1>1, <1>2, <1>3, <1>4, <1>5, <1>6 DEF NInv

LEMMA NextNested == NInv /\ [NestedNext]_nestedVars => NInv'
<1> SUFFICES ASSUME NInv, NestedNext \/ UNCHANGED nestedVars PROVE NInv'
  OBVIOUS
<1> USE DEF NInv
<1>1. TypeOK /\ LifecycleTypeOK /\ Guarded
  BY DEF IInv, TypeOK
<1>2. IInv'
  BY NestedKeepsRuns
<1>3. VisibleIffRegistered' /\ IsFiniteSet(VisibleSources)'
  BY <1>1, NestedLifecycle, NamesMatchStages, VisibleStaysFinite
<1>4. NestTypes' /\ Stacked' /\ Derived'
  BY <1>1, NextNestTypes, NextStacked, NextDerived
<1>5. Draining'
  BY <1>1, NextDraining
<1>6. QED
  BY <1>2, <1>3, <1>4, <1>5

\* Whatever functions call, at any depth: single Runs, stacks, removals and
\* contexts stay as they were described above.
THEOREM NestedInvariant == NestedSpec => []NInv
<1>1. QED
  BY InitNested, NextNested, PTL DEF NestedSpec

\* executor.go:47-72, directory.go:161-204: a function in a nested call is in
\* flight on a source whose client is open, whatever the call below it removes
\* or closes; the activations of one goroutine are one below the other; and
\* what a function drains has been retired.
THEOREM NestsAreStacks == NestedSpec => []NestTypeOK
<1>1. NInv => NestTypeOK
  <2> SUFFICES ASSUME NInv PROVE NestTypeOK
    OBVIOUS
  <2> USE DEF NInv, IInv
  <2>1. ASSUME NEW p \in Procs, At(p, "running") PROVE stage[entry[p]] # "closed"
    <3>1. entry[p] \in Ids /\ p \in users[entry[p]]
      BY <2>1, UnderWay
    <3>2. QED
      BY <3>1 DEF Guarded
  <2>2. ASSUME NEW p \in Procs, NEW c \in ToSet(removing[p]) PROVE stage[c] = "retired"
    BY <2>2 DEF ToSet, Draining, NestTypes
  <2>3. QED
    BY <2>1, <2>2 DEF NestTypeOK, NestTypes, Stacked, Draining
<1>2. QED
  BY <1>1, NestedInvariant, PTL

\* throttle.go:21-24: a context that was over before Run was called, for
\* itself or because it is derived from one that was, never gets its function
\* executed, however deep the call.
THEOREM NestedDeadContextsNeverRun == NestedSpec => []DeadContextNeverRuns
<1>1. NInv => DeadContextNeverRuns
  BY DEF NInv, IInv, TurnedAway, DeadContextNeverRuns
<1>2. QED
  BY <1>1, NestedInvariant, PTL

\* throttle.go:18-38, executor.go:53-72: nested calls neither lose nor invent
\* a token and no throttle lets more functions run than it should, although
\* one goroutine may hold a token of every source, or several of one.
THEOREM NestedTokensConserved ==
    NestedSpec => [](TokensConserved /\ ConcurrencyBounded /\ InflightExact)
<1>1. NInv => TokensConserved /\ ConcurrencyBounded /\ InflightExact
  BY InvBounds DEF NInv, IInv
<1>2. QED
  BY <1>1, NestedInvariant, PTL

\* A context derived from one that is over is over.
EndsReachDerived == \A p, q \in Procs : p \in heeds[q] /\ ctx[p] # "live" => ctx[q] # "live"

\* executor.go:48, 61: the context fn is given is the caller's, so the end of a
\* Run's context is the end of the context of every Run made under it, at
\* any depth: none of them can still be waiting under a live context.
THEOREM EndsAlwaysReachDerived == NestedSpec => []EndsReachDerived
<1>1. NInv => EndsReachDerived
  BY DEF NInv, Derived, EndsReachDerived
<1>2. QED
  BY <1>1, NestedInvariant, PTL

\* directory.go:94-106, 161-204: functions that call Run, Remove and Close do
\* with the directory only what SourceLifecycle allows; so a client in use is
\* never closed, not even by a function that runs on it.
THEOREM NestedRunsKeepLifecycle == NestedSpec => LifecycleSpec
<1>1. NestInit => LifecycleInit
  BY DEF NestInit, Init
<1>2. NInv /\ [NestedNext]_nestedVars => [LifecycleNext]_lifecycleVars
  BY NestedLifecycle DEF NInv
<1>3. QED
  BY <1>1, <1>2, NestedInvariant, PTL DEF NestedSpec, LifecycleSpec
=============================================================================
