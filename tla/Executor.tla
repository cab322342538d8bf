------------------------------ MODULE Executor ------------------------------
(***************************************************************************)
(* internal/store/executor.go, throttle.go and the Observer callbacks of a *)
(* Run, fanned out by observer.go: what happens between the moment a       *)
(* directory admits the work and the moment it is told the work is over.   *)
(* The directory is the abstract SourceLifecycle, which Directory.tla      *)
(* implements; each of its steps may be taken by other goroutines at any   *)
(* time.  A member of the MultiObserver is the Prometheus observer, or one *)
(* that may panic and whose own books are its own affair.                  *)
(***************************************************************************)
EXTENDS SourceLifecycle, Integers

CONSTANTS
    Limit,      \* Limit[c]: MaxConcurrency of source c; 0 or less is no limit
    Members,    \* observers in the MultiObserver; 0 is a directory without one
    Faulty      \* the members whose methods may panic

ASSUME LimitAssumption == Limit \in [Ids -> Int]
ASSUME ProcsAssumption == IsFiniteSet(Procs)
ASSUME MembersAssumption == Members \in Nat /\ Faulty \subseteq 1..Members

VARIABLES
    sem,        \* sem[c]: tokens in the channel Throttle.sem of source c
    ctx,        \* ctx[p]: context of p's Run: live, done, or dead on arrival
    pc,         \* next step of each Run
    entry,      \* the directoryEntry the Run was admitted to
    name,       \* the name it asked for
    told,       \* how many members have heard p's callback
    inflight    \* inflight[m][n]: the in-flight gauge of member m for name n

executorVars == <<sem, ctx, pc, entry, name, told, inflight>>
vars == <<lifecycleVars, executorVars>>

Throttled(c) == Limit[c] > 0

Callbacks == {"refused", "acquired", "complete"}

Labels == {"idle", "acquire", "select", "running", "throttleRelease", "release"}
              \cup Callbacks

Sound == (1..Members) \ Faulty

\* A Run that took a token and has not put it back.
HoldsToken(p) == pc[p] \in {"acquired", "running", "complete", "throttleRelease"}

TypeOK ==
    /\ LifecycleTypeOK
    /\ sem \in [Ids -> Nat]
    /\ ctx \in [Procs -> {"live", "done", "dead"}]
    /\ pc \in [Procs -> Labels]
    /\ entry \in [Procs -> Ids \cup {None}]
    /\ name \in [Procs -> Names \cup {None}]
    /\ told \in [Procs -> 0..Members]
    /\ inflight \in [Sound -> [Names -> Int]]

\* Mutation: the channel is made and never filled.
EmptyChannel(c) == 0

\* newThrottle fills the channel; no channel stands for no limit.
FullChannel(c) == IF Throttled(c) THEN Limit[c] ELSE 0

ExecutorInit ==
    /\ sem = [c \in Ids |-> FullChannel(c)]
    /\ ctx = [p \in Procs |-> "live"]
    /\ pc = [p \in Procs |-> "idle"]
    /\ entry = [p \in Procs |-> None]
    /\ name = [p \in Procs |-> None]
    /\ told = [p \in Procs |-> 0]
    /\ inflight = [m \in Sound |-> [n \in Names |-> 0]]

Init == LifecycleInit /\ ExecutorInit

At(p, label) == pc[p] = label

Goto(p, label) == pc' = [pc EXCEPT ![p] = label]

\* A callback is on the way to the next step where there is an observer.
Via(callback, label) == IF Members = 0 THEN label ELSE callback

----------------------------------------------------------------------------

\* Executor.Run is admitted by directory.acquire; the caller's context may
\* already be over.  A name that is not registered is refused without a trace.
Run(p, n) ==
    /\ At(p, "idle")
    /\ reg[n] # None
    /\ AdmitWork(p, reg[n])
    /\ entry' = [entry EXCEPT ![p] = reg[n]]
    /\ name' = [name EXCEPT ![p] = n]
    /\ \E state \in {"live", "dead"} : ctx' = [ctx EXCEPT ![p] = state]
    /\ Goto(p, "acquire")
    /\ UNCHANGED <<sem, told, inflight>>

\* The caller cancels, or its deadline passes.
Cancel(p) ==
    /\ ~At(p, "idle")
    /\ ctx[p] = "live"
    /\ ctx' = [ctx EXCEPT ![p] = "done"]
    /\ UNCHANGED <<lifecycleVars, sem, pc, entry, name, told, inflight>>

\* Mutation: ctx.Err is not asked before the select.
AcquireUnchecked(p) ==
    /\ At(p, "acquire")
    /\ Goto(p, IF Throttled(entry[p]) THEN "select" ELSE Via("acquired", "running"))
    /\ UNCHANGED <<lifecycleVars, sem, ctx, entry, name, told, inflight>>

\* Mutation: every throttle is taken for the unlimited one.
AcquireUnlimited(p) ==
    /\ At(p, "acquire")
    /\ Goto(p, IF ctx[p] # "live" THEN Via("refused", "release") ELSE Via("acquired", "running"))
    /\ UNCHANGED <<lifecycleVars, sem, ctx, entry, name, told, inflight>>

\* Throttle.Acquire: a context that is over is refused, no channel means no
\* waiting.
Acquire(p) ==
    /\ At(p, "acquire")
    /\ \/ ctx[p] # "live" /\ Goto(p, Via("refused", "release"))
       \/ ctx[p] = "live" /\ Throttled(entry[p]) /\ Goto(p, "select")
       \/ ctx[p] = "live" /\ ~Throttled(entry[p]) /\ Goto(p, Via("acquired", "running"))
    /\ UNCHANGED <<lifecycleVars, sem, ctx, entry, name, told, inflight>>

\* Mutation: a token is taken from an empty channel.
TakeTokenAlways(p) ==
    /\ At(p, "select")
    /\ sem' = [sem EXCEPT ![entry[p]] = @ - 1]
    /\ Goto(p, Via("acquired", "running"))
    /\ UNCHANGED <<lifecycleVars, ctx, entry, name, told, inflight>>

\* One arm of the select.  With both ready Go picks either.
TakeToken(p) ==
    /\ At(p, "select")
    /\ sem[entry[p]] > 0
    /\ sem' = [sem EXCEPT ![entry[p]] = @ - 1]
    /\ Goto(p, Via("acquired", "running"))
    /\ UNCHANGED <<lifecycleVars, ctx, entry, name, told, inflight>>

\* Mutation: the Release is deferred before the Acquire has succeeded.
GiveUpReleasing(p) ==
    /\ At(p, "select")
    /\ ctx[p] # "live"
    /\ Goto(p, "throttleRelease")
    /\ UNCHANGED <<lifecycleVars, sem, ctx, entry, name, told, inflight>>

\* The other arm: the context ends while the Run waits.
GiveUp(p) ==
    /\ At(p, "select")
    /\ ctx[p] # "live"
    /\ Goto(p, Via("refused", "release"))
    /\ UNCHANGED <<lifecycleVars, sem, ctx, entry, name, told, inflight>>

InCallback(p) == pc[p] \in Callbacks /\ told[p] < Members

\* The Prometheus observer's in-flight gauge: up with an ObserveAcquire that
\* brings no error, down with ObserveComplete.
GaugeStep(p) == CASE At(p, "acquired") -> 1 [] At(p, "complete") -> -1 [] OTHER -> 0

\* MultiObserver calls the next member, which keeps its books.
MemberReturns(p) ==
    /\ InCallback(p)
    /\ told' = [told EXCEPT ![p] = @ + 1]
    /\ inflight' = IF told'[p] \in Sound
                   THEN [inflight EXCEPT ![told'[p]][name[p]] = @ + GaugeStep(p)]
                   ELSE inflight
    /\ UNCHANGED <<lifecycleVars, sem, ctx, pc, entry, name>>

\* Mutation: only the group is called through safeObserve, not each member.
MemberPanicsForAll(p) ==
    /\ InCallback(p)
    /\ told[p] + 1 \in Faulty
    /\ told' = [told EXCEPT ![p] = Members]
    /\ UNCHANGED <<lifecycleVars, sem, ctx, pc, entry, name, inflight>>

\* safeObserve recovers a member's panic and the loop goes on.
MemberPanics(p) ==
    /\ InCallback(p)
    /\ told[p] + 1 \in Faulty
    /\ told' = [told EXCEPT ![p] = @ + 1]
    /\ UNCHANGED <<lifecycleVars, sem, ctx, pc, entry, name, inflight>>

\* The callback is over for every member.
Told(p, label) == At(p, label) /\ told[p] = Members /\ told' = [told EXCEPT ![p] = 0]

\* ObserveAcquire with the context's error: fn never runs.
ObserveRefused(p) ==
    /\ Told(p, "refused")
    /\ Goto(p, "release")
    /\ UNCHANGED <<lifecycleVars, sem, ctx, entry, name, inflight>>

\* ObserveAcquire with no error, then fn starts.
ObserveAcquire(p) ==
    /\ Told(p, "acquired")
    /\ Goto(p, "running")
    /\ UNCHANGED <<lifecycleVars, sem, ctx, entry, name, inflight>>

\* fn returns, with or without an error.
FnReturns(p) ==
    /\ At(p, "running")
    /\ Goto(p, Via("complete", "throttleRelease"))
    /\ UNCHANGED <<lifecycleVars, sem, ctx, entry, name, told, inflight>>

\* fn panics: the deferred function recovers, reports and panics again, and
\* the other deferred calls still run.
FnPanics(p) ==
    /\ At(p, "running")
    /\ Goto(p, Via("complete", "throttleRelease"))
    /\ UNCHANGED <<lifecycleVars, sem, ctx, entry, name, told, inflight>>

\* Mutation: the directory is released before the throttle.
ObserveCompleteLeaving(p) ==
    /\ Told(p, "complete")
    /\ FinishWork(p, entry[p])
    /\ Goto(p, "throttleRelease")
    /\ UNCHANGED <<sem, ctx, entry, name, inflight>>

\* The deferred ObserveComplete has reached everybody.
ObserveComplete(p) ==
    /\ Told(p, "complete")
    /\ Goto(p, "throttleRelease")
    /\ UNCHANGED <<lifecycleVars, sem, ctx, entry, name, inflight>>

\* Throttle.Release: the send would block on a full channel.
ThrottleRelease(p) ==
    /\ At(p, "throttleRelease")
    /\ IF Throttled(entry[p])
       THEN /\ sem[entry[p]] < Limit[entry[p]]
            /\ sem' = [sem EXCEPT ![entry[p]] = @ + 1]
       ELSE UNCHANGED sem
    /\ Goto(p, "release")
    /\ UNCHANGED <<lifecycleVars, ctx, entry, name, told, inflight>>

\* directory.release, and Run returns.
Release(p) ==
    /\ At(p, "release")
    /\ FinishWork(p, entry[p])
    /\ Goto(p, "idle")
    /\ entry' = [entry EXCEPT ![p] = None]
    /\ name' = [name EXCEPT ![p] = None]
    /\ ctx' = [ctx EXCEPT ![p] = "live"]
    /\ UNCHANGED <<sem, told, inflight>>

\* What other goroutines do to the directory meanwhile.
DirectoryStep ==
    /\ \/ \E c \in Ids :
             \/ OpenSource(c)
             \/ CloseSource(c)
             \/ \E n \in Names : PublishSource(c, n)
       \/ \E n \in Names : RetireSource(n)
       \/ RetireAll
    /\ UNCHANGED executorVars

FnStep(p) == FnReturns(p) \/ FnPanics(p)

\* The steps of a Run that are the library's own.
RunStep(p) ==
    \/ Acquire(p)
    \/ TakeToken(p)
    \/ GiveUp(p)
    \/ MemberReturns(p)
    \/ MemberPanics(p)
    \/ ObserveRefused(p)
    \/ ObserveAcquire(p)
    \/ ObserveComplete(p)
    \/ ThrottleRelease(p)
    \/ Release(p)

Next ==
    \/ \E p \in Procs :
          \/ \E n \in Names : Run(p, n)
          \/ Cancel(p)
          \/ FnStep(p)
          \/ RunStep(p)
    \/ DirectoryStep

Spec == Init /\ [][Next]_vars

----------------------------------------------------------------------------
(* Properties.                                                             *)

Running(c) == {p \in Procs : entry[p] = c /\ At(p, "running")}

\* No more functions execute against a source than MaxConcurrency allows,
\* however they return and however many waiters give up (throttle.go:18-38).
ConcurrencyBounded == \A c \in Ids : Throttled(c) => Cardinality(Running(c)) <= Limit[c]

\* A token is in the channel or in the hands of exactly one Run: none is
\* lost by a panic or a cancellation, none is invented, and so a Release
\* never finds the channel full.
TokensConserved ==
    \A c \in Ids : Throttled(c) =>
        sem[c] + Cardinality({p \in Procs : entry[p] = c /\ HoldsToken(p)}) = Limit[c]

\* A source is closed only when nothing of a Run is left on it: no function,
\* no callback to come and no token outside the channel.
ClosedMeansQuiet ==
    \A c \in Ids : stage[c] = "closed" =>
        /\ \A p \in Procs : entry[p] # c
        /\ Throttled(c) => sem[c] = Limit[c]

\* Member m has heard that p's function is under way and not that it is over.
CountedBy(m, p) ==
    \/ At(p, "running")
    \/ At(p, "acquired") /\ told[p] >= m
    \/ At(p, "complete") /\ told[p] < m

\* Every member that does not panic itself counts exactly the functions in
\* flight it has heard of, whatever the members before it do and however
\* functions end: a panic is confined to one member and one callback, and each
\* ObserveAcquire without an error is matched by one ObserveComplete
\* (observer.go:66-100, executor.go:53-72).
InflightExact ==
    \A m \in Sound, n \in Names :
        inflight[m][n] = Cardinality({p \in Procs : name[p] = n /\ CountedBy(m, p)})

\* A context that was over before Run was called, by itself or because it is
\* derived from one that was (NestedRuns.tla), never gets its function
\* executed, not even when a token is free (throttle.go:21-24).
DeadContextNeverRuns == \A p \in Procs : ctx[p] = "dead" => pc[p] # "running"
============================================================================
