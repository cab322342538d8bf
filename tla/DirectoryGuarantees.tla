------------------------ MODULE DirectoryGuarantees ------------------------
(***************************************************************************)
(* What Directory guarantees beyond DirectoryInv, for every value of the   *)
(* constants: the observer's view, the rollback of a failed Configure, the *)
(* identity of Sources, the frozen drivers, and the refinement of          *)
(* SourceLifecycle.                                                        *)
(***************************************************************************)
EXTENDS DirectoryProofs

USE DEF At, Goto, Locked, locks, directory, registry, clientVars, ghosts, configuring, call,
        detached

\* A step of one goroutine leaves the locals of the others alone.
LocalsKept(q) ==
    /\ pc'[q] = pc[q] /\ op'[q] = op[q] /\ name'[q] = name[q] /\ held'[q] = held[q]
    /\ opened'[q] = opened[q] /\ undone'[q] = undone[q]
    /\ toNotify'[q] = toNotify[q] /\ toDrain'[q] = toDrain[q]
    /\ source'[q] = source[q]

LEMMA OthersKept ==
    ASSUME NEW p \in Procs, Typed, Call(p) \/ Step(p), NEW q \in Procs, q # p
    PROVE  LocalsKept(q)
<1> USE DEF Typed, SharedTyped, LocalTyped, LocalsKept
<1>1. CASE Call(p)
  BY <1>1 DEF Call, RegisterDriver, CallNamed, CallConfigure, CallClose, NewSource
<1>2. CASE RegisterStep(p)
  BY <1>2 DEF RegisterStep, RegisterAdmit, RegisterFailed, Return, DriverOpens, DriverFails,
     DriverPanics, PoolApplied, PoolPanics, Publish, DiscardClient, Reserve,
     NotifyRegistered, RegisterReturns
<1>3. CASE ConfigureStep(p)
  BY <1>3 DEF ConfigureStep, ConfigureNext, ConfigureSucceeds, RollbackNext, RollbackEnds,
     ConfigureFails, Return
<1>4. CASE RemoveStep(p)
  BY <1>4 DEF RemoveStep, Detach, DetachAll, Reserve, NotifyRemoved, NotifyDone, DrainNext,
     WaitDrained, CloseClient, DrainDone, RemoveReturns, AwaitOpenings, Return
<1>5. CASE RunStep(p)
  BY <1>5 DEF RunStep, Acquire, Release, Return
<1>6. QED
  BY <1>1, <1>2, <1>3, <1>4, <1>5 DEF Step

----------------------------------------------------------------------------
(* Clients, Sources and drivers.                                           *)

\* A client a driver handed out stays reachable, by its name or by the
\* goroutine that must close it, until it is closed: a panic of that driver's
\* own ApplyPoolConfig is the one way out.
THEOREM NoClientIsLost == Spec => []NoClientLost
<1>1. DirectoryInv => NoClientLost
  BY DEF DirectoryInv
<1>2. QED
  BY Invariant, <1>1, PTL

\* A run through a Source starts on the entry the Source captured, and
\* neither changes before release.
LEMMA SourceStep ==
    ASSUME Typed, SourceNeverRetargets, [Next]_vars PROVE SourceNeverRetargets'
<1> SUFFICES ASSUME NEW q \in Procs, pc'[q] = "using", op'[q] = "sourceRun"
             PROVE  held'[q] = source'[q].entry
  BY DEF SourceNeverRetargets
<1> USE DEF Typed, SharedTyped, LocalTyped
<1>1. CASE UNCHANGED vars
  BY <1>1 DEF vars, SourceNeverRetargets
<1>2. CASE Call(q) \/ Step(q)
  <2>1. CASE Acquire(q)
    <3>1. op[q] = "sourceRun" /\ AcquireMatches(q) /\ source' = source
      BY <1>2, <2>1 DEF Acquire, Return
    <3>2. held'[q] = entries[name[q]]
      BY <2>1, <3>1 DEF Acquire
    <3>3. QED
      BY <3>1, <3>2 DEF AcquireMatches
  <2>2. CASE pc[q] = "using" /\ op' = op /\ held' = held /\ source' = source
    BY <2>2 DEF SourceNeverRetargets
  <2>3. CASE Call(q)
    BY <2>2, <2>3 DEF Call, RegisterDriver, CallNamed, CallConfigure, CallClose, NewSource
  <2>4. CASE RegisterStep(q)
    BY <2>2, <2>4 DEF RegisterStep, RegisterAdmit, RegisterFailed, Return, DriverOpens,
       DriverFails, DriverPanics, PoolApplied, PoolPanics, Publish, DiscardClient, Reserve,
       NotifyRegistered, RegisterReturns
  <2>5. CASE ConfigureStep(q)
    BY <2>2, <2>5 DEF ConfigureStep, ConfigureNext, ConfigureSucceeds, RollbackNext,
       RollbackEnds, ConfigureFails, Return
  <2>6. CASE RemoveStep(q)
    BY <2>2, <2>6 DEF RemoveStep, Detach, DetachAll, Reserve, NotifyRemoved, NotifyDone,
       DrainNext, WaitDrained, CloseClient, DrainDone, RemoveReturns, AwaitOpenings, Return
  <2>7. CASE Release(q)
    BY <2>7 DEF Release, Return
  <2>8. QED
    BY <1>2, <2>1, <2>3, <2>4, <2>5, <2>6, <2>7 DEF Step, RunStep
<1>3. ASSUME NEW p \in Procs, Call(p) \/ Step(p), p # q PROVE held'[q] = source'[q].entry
  BY <1>3, OthersKept DEF LocalsKept, SourceNeverRetargets
<1>4. QED
  BY <1>1, <1>2, <1>3 DEF Next

\* Source.Run never reaches a later source of the same name.
THEOREM SourcesNeverRetarget == Spec => []SourceNeverRetargets
<1>1. Init => SourceNeverRetargets
  BY DEF Init, SourceNeverRetargets
<1>2. DirectoryInv => Typed
  BY InvIsParts
<1>3. QED
  BY <1>1, <1>2, SourceStep, Invariant, PTL DEF Spec

\* An opening is only ever admitted with the drivers frozen.
FrozenWhileOpening == openings # {} => frozen

LEMMA FrozenStep ==
    ASSUME Typed, FrozenWhileOpening, [Next]_vars PROVE FrozenWhileOpening'
<1> USE DEF FrozenWhileOpening
<1>1. CASE UNCHANGED vars
  BY <1>1 DEF vars
<1>2. ASSUME NEW p \in Procs, Call(p) PROVE FrozenWhileOpening'
  BY <1>2 DEF Call, RegisterDriver, CallNamed, CallConfigure, CallClose, NewSource
<1>3. ASSUME NEW p \in Procs, RegisterStep(p) PROVE FrozenWhileOpening'
  BY <1>3 DEF RegisterStep, RegisterAdmit, RegisterFailed, Return, DriverOpens,
     DriverFails, DriverPanics, PoolApplied, PoolPanics, Publish, DiscardClient, Reserve,
     NotifyRegistered, RegisterReturns
<1>4. ASSUME NEW p \in Procs, ConfigureStep(p) PROVE FrozenWhileOpening'
  BY <1>4 DEF ConfigureStep, ConfigureNext, ConfigureSucceeds, RollbackNext, RollbackEnds,
     ConfigureFails, Return
<1>5. ASSUME NEW p \in Procs, RemoveStep(p) PROVE FrozenWhileOpening'
  BY <1>5 DEF RemoveStep, Detach, DetachAll, Reserve, NotifyRemoved, NotifyDone,
     DrainNext, WaitDrained, CloseClient, DrainDone, RemoveReturns, AwaitOpenings, Return
<1>6. ASSUME NEW p \in Procs, RunStep(p) PROVE FrozenWhileOpening'
  BY <1>6 DEF RunStep, Acquire, Release, Return
<1>7. QED
  BY <1>1, <1>2, <1>3, <1>4, <1>5, <1>6 DEF Next, Step

\* Only RegisterDriver changes the drivers, and a frozen registry refuses it.
LEMMA BuildersStep ==
    ASSUME FrozenWhileOpening, [Next]_vars, openings # {} PROVE builders' = builders
<1>1. CASE UNCHANGED vars
  BY <1>1 DEF vars
<1>2. ASSUME NEW p \in Procs, Call(p) PROVE builders' = builders
  BY <1>2 DEF FrozenWhileOpening, Call, RegisterDriver, CallNamed, CallConfigure, CallClose,
     NewSource
<1>3. ASSUME NEW p \in Procs, RegisterStep(p) PROVE builders' = builders
  BY <1>3 DEF RegisterStep, RegisterAdmit, DriverOpens, DriverFails, DriverPanics,
     PoolApplied, PoolPanics, Publish,
     DiscardClient, Reserve, NotifyRegistered, RegisterReturns
<1>4. ASSUME NEW p \in Procs, ConfigureStep(p) PROVE builders' = builders
  BY <1>4 DEF ConfigureStep, ConfigureNext, ConfigureSucceeds, RollbackNext, RollbackEnds,
     ConfigureFails
<1>5. ASSUME NEW p \in Procs, RemoveStep(p) PROVE builders' = builders
  BY <1>5 DEF RemoveStep, Detach, DetachAll, Reserve, NotifyRemoved, NotifyDone, DrainNext,
     WaitDrained, CloseClient, DrainDone, RemoveReturns, AwaitOpenings
<1>6. ASSUME NEW p \in Procs, RunStep(p) PROVE builders' = builders
  BY <1>6 DEF RunStep, Acquire, Release
<1>7. QED
  BY <1>1, <1>2, <1>3, <1>4, <1>5, <1>6 DEF Next, Step

\* While a driver is opening a client nobody registers another driver.
THEOREM DriversStayFixed == Spec => DriversFixedWhileOpening
<1>1. Init => FrozenWhileOpening
  BY DEF Init, FrozenWhileOpening
<1>2. DirectoryInv => Typed
  BY InvIsParts
<1>3. FrozenWhileOpening /\ [Next]_vars => [openings # {} => builders' = builders]_vars
  BY BuildersStep
<1>4. Spec => []FrozenWhileOpening
  BY <1>1, <1>2, FrozenStep, Invariant, PTL DEF Spec
<1>5. QED
  BY <1>3, <1>4, PTL DEF Spec, DriversFixedWhileOpening

----------------------------------------------------------------------------
(* The observer.                                                           *)

\* A mutation holds mu until it has observerMu, and observerMu until every
\* callback it owes has returned.
LockHolders ==
    \A p \in Procs :
        /\ mu = p <=> pc[p] \in {"reserveRegistered", "reserveRemoved"}
        /\ observerMu = p <=> pc[p] \in {"notifyRegistered", "notifyRemoved"}

\* The callbacks the holder h of a lock still owes for name n.
Coming(h, n) == h # None /\ pc[h] \in {"reserveRegistered", "notifyRegistered"} /\ name[h] = n
Going(h, n) == h # None /\ pc[h] \in {"reserveRemoved", "notifyRemoved"} /\ n \in toNotify[h]

\* n is registered for an observer that knows all but the mutation under mu.
Known(n) == (entries[n] # None \/ Going(mu, n)) /\ ~Coming(mu, n)

\* ... and all but what the holder of observerMu has yet to say.
Seen(n) == (Known(n) \/ Going(observerMu, n)) /\ ~Coming(observerMu, n)

\* The callbacks seen, the ones owed under each lock and the map always add
\* up, and what is owed for a name is a change of it.
InStep(n) ==
    /\ Coming(mu, n) => entries[n] # None
    /\ Going(mu, n) => entries[n] = None
    /\ Coming(observerMu, n) => Known(n)
    /\ Going(observerMu, n) => ~Known(n)
    /\ gauge[n] = IF Seen(n) THEN 1 ELSE 0

ObserverInv == LockHolders /\ \A n \in Names : InStep(n)

LockLabels == {"reserveRegistered", "reserveRemoved", "notifyRegistered", "notifyRemoved"}

\* A step outside the two locks' sections.
OutsideLocks(p) ==
    /\ UNCHANGED <<mu, observerMu, gauge, entries>>
    /\ pc[p] \notin LockLabels /\ pc'[p] \notin LockLabels

LEMMA OutsideLocksKeeps ==
    ASSUME NEW p \in Procs, Typed, Call(p) \/ Step(p), OutsideLocks(p), ObserverInv
    PROVE  ObserverInv'
<1> USE DEF OutsideLocks, LockLabels
<1>1. \A q \in Procs : q # p => LocalsKept(q)
  BY OthersKept
<1>2. LockHolders'
  BY <1>1 DEF ObserverInv, LockHolders, LocalsKept
<1>3. mu # p /\ observerMu # p /\ mu \in Procs \cup {None} /\ observerMu \in Procs \cup {None}
  BY DEF ObserverInv, LockHolders, Typed, SharedTyped
<1>4. \A n \in Names : /\ Coming(mu, n)' <=> Coming(mu, n)
                       /\ Going(mu, n)' <=> Going(mu, n)
                       /\ Coming(observerMu, n)' <=> Coming(observerMu, n)
                       /\ Going(observerMu, n)' <=> Going(observerMu, n)
  BY <1>1, <1>3 DEF Coming, Going, LocalsKept
<1>5. ASSUME NEW n \in Names PROVE InStep(n)'
  BY <1>4 DEF ObserverInv, InStep, Known, Seen
<1>6. QED
  BY <1>2, <1>5 DEF ObserverInv

\* Every step but these is outside the locks.
LockStep(p) ==
    \/ Publish(p) /\ ~closed /\ entries[name[p]] = None
    \/ Detach(p) /\ RemoveMatches(p)
    \/ DetachAll(p)
    \/ Reserve(p, "reserveRegistered", "notifyRegistered")
    \/ Reserve(p, "reserveRemoved", "notifyRemoved")
    \/ NotifyRegistered(p)
    \/ \E n \in Names : NotifyRemoved(p, n)
    \/ NotifyDone(p)

LEMMA OtherSteps ==
    ASSUME NEW p \in Procs, Typed, Call(p) \/ Step(p), ~LockStep(p) PROVE OutsideLocks(p)
<1> USE DEF Typed, SharedTyped, LocalTyped, OutsideLocks, LockLabels
<1>1. CASE Call(p)
  BY <1>1 DEF Call, RegisterDriver, CallNamed, CallConfigure, CallClose, NewSource
<1>2. CASE RegisterStep(p)
  BY <1>2 DEF LockStep, RegisterStep, RegisterAdmit, RegisterFailed, Return, DriverOpens,
     DriverFails, DriverPanics, PoolApplied, PoolPanics, Publish, DiscardClient, RegisterReturns
<1>3. CASE ConfigureStep(p)
  BY <1>3 DEF ConfigureStep, ConfigureNext, ConfigureSucceeds, RollbackNext, RollbackEnds,
     ConfigureFails, Return
<1>4. CASE RemoveStep(p)
  BY <1>4 DEF LockStep, RemoveStep, Detach, DrainNext, WaitDrained, CloseClient, DrainDone,
     RemoveReturns, AwaitOpenings, Return
<1>5. CASE RunStep(p)
  BY <1>5 DEF RunStep, Acquire, Release, Return
<1>6. QED
  BY <1>1, <1>2, <1>3, <1>4, <1>5 DEF Step

LEMMA LockHoldersStep ==
    ASSUME NEW p \in Procs, Typed, Step(p), LockStep(p), LockHolders PROVE LockHolders'
<1> USE NoneAssumption DEF Typed, SharedTyped, LocalTyped
<1>1. \A q \in Procs : q # p => LocalsKept(q)
  BY OthersKept
<1>2. /\ mu' = p <=> pc'[p] \in {"reserveRegistered", "reserveRemoved"}
      /\ observerMu' = p <=> pc'[p] \in {"notifyRegistered", "notifyRemoved"}
      /\ mu' # p => mu' \in {mu, None} /\ (mu = p \/ mu' = mu)
      /\ mu' = p => mu \in {None, p}
      /\ observerMu' # p => /\ observerMu' \in {observerMu, None}
                            /\ observerMu = p \/ observerMu' = observerMu
      /\ observerMu' = p => observerMu \in {None, p}
  BY DEF LockHolders, LockStep, Publish, Detach, DetachAll, Reserve, NotifyRegistered,
     NotifyRemoved, NotifyDone
<1>3. ASSUME NEW q \in Procs, q # p
      PROVE  /\ mu' = q <=> mu = q
             /\ observerMu' = q <=> observerMu = q
  BY <1>2, <1>3
<1>4. QED
  BY <1>1, <1>2, <1>3 DEF LockHolders, LocalsKept

\* What a lock step leaves owed, for one name.
LEMMA LockStepInStep ==
    ASSUME NEW p \in Procs, Typed, Step(p), LockStep(p), ObserverInv, NEW n \in Names
    PROVE  InStep(n)'
<1> USE NoneAssumption DEF Typed, SharedTyped, LocalTyped
<1>0. InStep(n) /\ LockHolders /\ LockHolders'
  BY LockHoldersStep DEF ObserverInv
<1>1. \A q \in Procs : q # p => LocalsKept(q)
  BY OthersKept
<1>2. CASE Publish(p) /\ ~closed /\ entries[name[p]] = None
  <2>1. /\ mu = None /\ mu' = p /\ observerMu' = observerMu /\ gauge' = gauge
        /\ name' = name /\ pc'[p] = "reserveRegistered"
        /\ name[p] \in Names /\ held[p] # None
        /\ entries' = [entries EXCEPT ![name[p]] = held[p]]
        /\ observerMu # p
    BY <1>0, <1>2 DEF Publish, LocalsOK, RegisterLabels, LockHolders
  <2>2. /\ Coming(observerMu, n)' <=> Coming(observerMu, n)
        /\ Going(observerMu, n)' <=> Going(observerMu, n)
    BY <1>1, <2>1 DEF Coming, Going, LocalsKept
  <2>3. /\ Coming(mu, n)' <=> n = name[p]
        /\ ~Going(mu, n)' /\ ~Coming(mu, n) /\ ~Going(mu, n)
    BY <2>1 DEF Coming, Going
  <2>4. entries'[n] # None <=> entries[n] # None \/ n = name[p]
    BY <2>1
  <2>5. Known(n)' <=> Known(n)
    BY <1>2, <2>3, <2>4 DEF Known
  <2>6. QED
    BY <1>0, <2>1, <2>2, <2>3, <2>4, <2>5 DEF InStep, Seen
<1>3. CASE Detach(p) /\ RemoveMatches(p)
  <2>1. /\ mu = None /\ mu' = p /\ observerMu' = observerMu /\ gauge' = gauge
        /\ pc'[p] = "reserveRemoved" /\ toNotify'[p] = {name[p]}
        /\ name[p] \in Names /\ entries[name[p]] # None
        /\ entries' = [entries EXCEPT ![name[p]] = None]
        /\ observerMu # p
    <3>1. /\ mu = None /\ mu' = p /\ observerMu' = observerMu /\ gauge' = gauge
          /\ entries' = [entries EXCEPT ![name[p]] = None]
          /\ toNotify' = [toNotify EXCEPT ![p] = {name[p]}]
          /\ pc[p] = "remove" /\ pc' = [pc EXCEPT ![p] = "reserveRemoved"]
      BY <1>3 DEF Detach
    <3>2. name[p] \in Names /\ entries[name[p]] # None
      BY <1>3, <3>1 DEF RemoveMatches, LocalsOK
    <3>3. observerMu # p
      BY <1>0, <3>1 DEF LockHolders
    <3>4. QED
      BY <3>1, <3>2, <3>3
  <2>2. /\ Coming(observerMu, n)' <=> Coming(observerMu, n)
        /\ Going(observerMu, n)' <=> Going(observerMu, n)
    BY <1>1, <2>1 DEF Coming, Going, LocalsKept
  <2>3. /\ Going(mu, n)' <=> n = name[p]
        /\ ~Coming(mu, n)' /\ ~Coming(mu, n) /\ ~Going(mu, n)
    BY <2>1 DEF Coming, Going
  <2>4. entries'[n] # None <=> entries[n] # None /\ n # name[p]
    BY <2>1
  <2>5. Known(n)' <=> Known(n)
    BY <2>1, <2>3, <2>4 DEF Known
  <2>6. QED
    BY <1>0, <2>1, <2>2, <2>3, <2>4, <2>5 DEF InStep, Seen
<1>4. CASE DetachAll(p)
  <2>1. /\ mu = None /\ mu' = p /\ observerMu' = observerMu /\ gauge' = gauge
        /\ pc'[p] = "reserveRemoved" /\ toNotify'[p] = Registered
        /\ entries'[n] = None
        /\ observerMu # p
    BY <1>0, <1>4 DEF DetachAll, LockHolders
  <2>2. /\ Coming(observerMu, n)' <=> Coming(observerMu, n)
        /\ Going(observerMu, n)' <=> Going(observerMu, n)
    BY <1>1, <2>1 DEF Coming, Going, LocalsKept
  <2>3. /\ Going(mu, n)' <=> entries[n] # None
        /\ ~Coming(mu, n)' /\ ~Coming(mu, n) /\ ~Going(mu, n)
    BY <2>1 DEF Coming, Going, Registered
  <2>4. Known(n)' <=> Known(n)
    BY <2>1, <2>3 DEF Known
  <2>5. QED
    BY <1>0, <2>1, <2>2, <2>3, <2>4 DEF InStep, Seen
<1>5. CASE \/ Reserve(p, "reserveRegistered", "notifyRegistered")
           \/ Reserve(p, "reserveRemoved", "notifyRemoved")
  <2>1. /\ mu = p /\ mu' = None /\ observerMu = None /\ observerMu' = p
        /\ gauge' = gauge /\ entries' = entries /\ name' = name /\ toNotify' = toNotify
        /\ \/ pc[p] = "reserveRegistered" /\ pc'[p] = "notifyRegistered"
           \/ pc[p] = "reserveRemoved" /\ pc'[p] = "notifyRemoved"
    BY <1>0, <1>5 DEF Reserve, LockHolders
  <2>2. /\ Coming(observerMu, n)' <=> Coming(mu, n)
        /\ Going(observerMu, n)' <=> Going(mu, n)
        /\ ~Coming(mu, n)' /\ ~Going(mu, n)'
        /\ ~Coming(observerMu, n) /\ ~Going(observerMu, n)
    BY <2>1 DEF Coming, Going
  <2>3. QED
    BY <1>0, <2>1, <2>2 DEF InStep, Known, Seen
<1>6. CASE NotifyRegistered(p)
  <2>1. /\ observerMu = p /\ observerMu' = None /\ mu' = mu /\ mu # p
        /\ entries' = entries /\ name[p] \in Names
        /\ gauge' = [gauge EXCEPT ![name[p]] = @ + 1]
        /\ pc[p] = "notifyRegistered"
    BY <1>0, <1>6 DEF NotifyRegistered, LockHolders, LocalsOK, RegisterLabels
  <2>2. /\ Coming(mu, n)' <=> Coming(mu, n)
        /\ Going(mu, n)' <=> Going(mu, n)
    BY <1>1, <2>1 DEF Coming, Going, LocalsKept
  <2>3. /\ Coming(observerMu, n) <=> n = name[p]
        /\ ~Going(observerMu, n) /\ ~Coming(observerMu, n)' /\ ~Going(observerMu, n)'
    BY <2>1 DEF Coming, Going
  <2>4. Known(n)' <=> Known(n)
    BY <2>1, <2>2 DEF Known
  <2>5. gauge'[n] = IF n = name[p] THEN gauge[n] + 1 ELSE gauge[n]
    BY <2>1
  <2>6. QED
    BY <1>0, <2>1, <2>2, <2>3, <2>4, <2>5 DEF InStep, Seen
<1>7. ASSUME NEW m \in Names, NotifyRemoved(p, m) PROVE InStep(n)'
  <2>1. /\ observerMu = p /\ observerMu' = p /\ mu' = mu /\ mu # p
        /\ entries' = entries
        /\ gauge' = [gauge EXCEPT ![m] = @ - 1]
        /\ pc[p] = "notifyRemoved" /\ pc' = pc
        /\ m \in toNotify[p] /\ toNotify'[p] = toNotify[p] \ {m}
    BY <1>0, <1>7 DEF NotifyRemoved, LockHolders
  <2>2. /\ Coming(mu, n)' <=> Coming(mu, n)
        /\ Going(mu, n)' <=> Going(mu, n)
    BY <1>1, <2>1 DEF Coming, Going, LocalsKept
  <2>3. /\ Going(observerMu, n)' <=> Going(observerMu, n) /\ n # m
        /\ n = m => Going(observerMu, n)
        /\ ~Coming(observerMu, n) /\ ~Coming(observerMu, n)'
    BY <2>1 DEF Coming, Going
  <2>4. Known(n)' <=> Known(n)
    BY <2>1, <2>2 DEF Known
  <2>5. gauge'[n] = IF n = m THEN gauge[n] - 1 ELSE gauge[n]
    BY <2>1
  <2>6. QED
    BY <1>0, <2>1, <2>2, <2>3, <2>4, <2>5 DEF InStep, Seen
<1>8. CASE NotifyDone(p)
  <2>1. /\ observerMu = p /\ observerMu' = None /\ mu' = mu /\ mu # p
        /\ entries' = entries /\ gauge' = gauge
        /\ pc[p] = "notifyRemoved" /\ toNotify[p] = {}
    BY <1>0, <1>8 DEF NotifyDone, LockHolders
  <2>2. /\ Coming(mu, n)' <=> Coming(mu, n)
        /\ Going(mu, n)' <=> Going(mu, n)
    BY <1>1, <2>1 DEF Coming, Going, LocalsKept
  <2>3. /\ ~Coming(observerMu, n) /\ ~Going(observerMu, n)
        /\ ~Coming(observerMu, n)' /\ ~Going(observerMu, n)'
    BY <2>1 DEF Coming, Going
  <2>4. QED
    BY <1>0, <2>1, <2>2, <2>3 DEF InStep, Known, Seen
<1>9. QED
  BY <1>2, <1>3, <1>4, <1>5, <1>6, <1>7, <1>8 DEF LockStep

LEMMA InitObserver == Init => ObserverInv
<1> SUFFICES ASSUME Init PROVE ObserverInv
  OBVIOUS
<1>1. LockHolders
  BY NoneAssumption DEF Init, LockHolders
<1>2. ASSUME NEW n \in Names PROVE InStep(n)
  BY DEF Init, InStep, Coming, Going, Known, Seen
<1>3. QED
  BY <1>1, <1>2 DEF ObserverInv

LEMMA ObserverStep ==
    ASSUME Typed, ObserverInv, [Next]_vars PROVE ObserverInv'
<1>1. CASE UNCHANGED vars
  BY <1>1 DEF vars, ObserverInv, LockHolders, InStep, Coming, Going, Known, Seen
<1>2. ASSUME NEW p \in Procs, Call(p) \/ Step(p) PROVE ObserverInv'
  <2>1. CASE LockStep(p)
    <3>1. Step(p)
      BY <2>1 DEF LockStep, Step, RegisterStep, RemoveStep
    <3>2. QED
      BY <2>1, <3>1, LockHoldersStep, LockStepInStep DEF ObserverInv
  <2>2. CASE ~LockStep(p)
    BY <1>2, <2>2, OtherSteps, OutsideLocksKeeps
  <2>3. QED
    BY <2>1, <2>2
<1>3. QED
  BY <1>1, <1>2 DEF Next

\* Callbacks follow the mutations they announce: the observer is never told
\* of a source twice, and with no announcement owed it knows the map.
THEOREM ObserverFollows == Spec => []ObserverInStep
<1>1. ObserverInv => ObserverInStep
  <2> SUFFICES ASSUME ObserverInv, NEW n \in Names
               PROVE  /\ gauge[n] \in 0..1
                      /\ mu = None /\ observerMu = None =>
                             gauge[n] = IF n \in Registered THEN 1 ELSE 0
    BY DEF ObserverInStep
  <2>1. gauge[n] = IF Seen(n) THEN 1 ELSE 0
    BY DEF ObserverInv, InStep
  <2>2. ASSUME mu = None, observerMu = None PROVE Seen(n) <=> n \in Registered
    BY <2>2 DEF Seen, Known, Coming, Going, Registered
  <2>3. QED
    BY <2>1, <2>2
<1>2. DirectoryInv => Typed
  BY InvIsParts
<1>3. QED
  BY <1>1, <1>2, InitObserver, ObserverStep, Invariant, PTL DEF Spec

----------------------------------------------------------------------------
(* Rollback.                                                               *)

\* The steps that move a client, its wait group or the directory's end.
ClientStep(p) ==
    \/ \E c \in Ids : DriverOpens(p, c)
    \/ Publish(p) /\ ~closed /\ entries[name[p]] = None
    \/ DiscardClient(p)
    \/ Detach(p) /\ RemoveMatches(p)
    \/ DetachAll(p)
    \/ CloseClient(p)
    \/ Acquire(p) /\ AcquireMatches(p)
    \/ Release(p)

\* Every other step leaves them alone.
LEMMA QuietSteps ==
    ASSUME NEW p \in Procs, Typed, Call(p) \/ Step(p), ~ClientStep(p)
    PROVE  UNCHANGED <<entries, closed, wg, clients, closes, toDrain>>
<1>1. CASE Call(p)
  BY <1>1 DEF Call, RegisterDriver, CallNamed, CallConfigure, CallClose, NewSource
<1>2. CASE RegisterStep(p)
  BY <1>2 DEF ClientStep, RegisterStep, RegisterAdmit, DriverFails, DriverPanics, PoolApplied,
     PoolPanics, Publish, Reserve, NotifyRegistered, RegisterReturns
<1>3. CASE ConfigureStep(p)
  BY <1>3 DEF ConfigureStep, ConfigureNext, ConfigureSucceeds, RollbackNext, RollbackEnds,
     ConfigureFails
<1>4. CASE RemoveStep(p)
  BY <1>4 DEF ClientStep, RemoveStep, Detach, Reserve, NotifyRemoved, NotifyDone,
     DrainNext, WaitDrained, DrainDone, RemoveReturns, AwaitOpenings
<1>5. CASE RunStep(p)
  BY <1>5 DEF ClientStep, RunStep, Acquire
<1>6. QED
  BY <1>1, <1>2, <1>3, <1>4, <1>5 DEF Step

\* c has left the directory: it is closed, or somebody is draining it.
Gone(c) ==
    /\ \A n \in Names : entries[n] # c
    /\ closes[c] = 1 \/ \E q \in Procs : c \in toDrain[q]

\* c is registered as n or has left.
Tracked(n, c) == entries[n] = c \/ Gone(c)

\* A client that has left does not come back, and a registered one only
\* leaves through a removal.
LEMMA TrackedStep ==
    ASSUME NEW p \in Procs, DirectoryInv, Call(p) \/ Step(p), NEW c \in Ids
    PROVE  /\ Gone(c) => Gone(c)'
           /\ \A n \in Names : Tracked(n, c) => Tracked(n, c)'
<1>0. Typed /\ SharedTyped /\ LocalTyped
  BY InvIsParts DEF Typed
<1> USE <1>0, NoneAssumption DEF SharedTyped, Gone, Tracked
<1>1. CASE ~ClientStep(p)
  BY <1>1, QuietSteps
<1>2. CASE \/ \E d \in Ids : DriverOpens(p, d)
           \/ Acquire(p)
           \/ Release(p)
  <2>1. UNCHANGED <<entries, closes, toDrain>>
    BY <1>2 DEF DriverOpens, Acquire, Release
  <2>2. QED
    BY <2>1
<1>3. CASE Publish(p) /\ ~closed /\ entries[name[p]] = None
  <2>1. /\ UNCHANGED <<closes, toDrain>> /\ pc[p] = "publish"
        /\ entries' = [entries EXCEPT ![name[p]] = held[p]]
    BY <1>3 DEF Publish
  <2>2. name[p] \in Names /\ held[p] \in Ids
    BY <2>1 DEF LocalTyped, LocalsOK, RegisterLabels
  <2>3. Owns(p, held[p]) /\ toDrain[p] = {}
    BY <2>1 DEF Owns, DirectoryInv, DrainInProgress
  <2>4. ~Gone(held[p])
    BY <2>2, <2>3 DEF DirectoryInv, OwnedIsOpen, Owns
  <2>5. QED
    BY <1>3, <2>1, <2>2, <2>4
<1>4. CASE DiscardClient(p)
  <2>1. /\ UNCHANGED <<entries, toDrain>> /\ pc[p] = "discard"
        /\ closes' = [closes EXCEPT ![held[p]] = @ + 1]
    BY <1>4 DEF DiscardClient
  <2>2. held[p] \in Ids /\ closes[held[p]] = 0
    <3>1. held[p] \in Ids
      BY <2>1 DEF LocalTyped, LocalsOK
    <3>2. QED
      BY <2>1, <3>1 DEF Owns, DirectoryInv, OwnedIsOpen
  <2>3. closes[c] = 1 => closes'[c] = 1
    BY <2>1, <2>2
  <2>4. QED
    BY <2>1, <2>3
<1>5. CASE Detach(p) /\ RemoveMatches(p)
  <2>1. /\ UNCHANGED closes /\ pc[p] = "remove"
        /\ entries' = [entries EXCEPT ![name[p]] = None]
        /\ toDrain' = [toDrain EXCEPT ![p] = {entries[name[p]]}]
    BY <1>5 DEF Detach
  <2>2. name[p] \in Names /\ toDrain[p] = {}
    BY <2>1 DEF LocalTyped, LocalsOK, DirectoryInv, DrainInProgress
  <2>3. Gone(c) => Gone(c)'
    BY <2>1, <2>2
  <2>4. ASSUME NEW n \in Names, entries[n] = c, n = name[p] PROVE Gone(c)'
    <3>1. \A m \in Names : entries[m] = c => m = n
      BY <2>4 DEF DirectoryInv, RegisteredIsOpen
    <3>2. c \in toDrain'[p]
      BY <2>1, <2>4
    <3>3. QED
      BY <2>1, <2>4, <3>1, <3>2
  <2>5. QED
    BY <2>1, <2>2, <2>3, <2>4
<1>6. CASE DetachAll(p)
  <2>1. /\ UNCHANGED closes /\ pc[p] = "removeAll"
        /\ entries' = [n \in Names |-> None]
        /\ toDrain' = [toDrain EXCEPT ![p] = {entries[n] : n \in Registered}]
    BY <1>6 DEF DetachAll
  <2>2. toDrain[p] = {}
    BY <2>1 DEF DirectoryInv, DrainInProgress
  <2>3. \A n \in Names : entries[n] = c => c \in toDrain'[p]
    BY <2>1 DEF Registered
  <2>4. QED
    BY <2>1, <2>2, <2>3
<1>7. CASE CloseClient(p)
  <2>1. /\ UNCHANGED entries /\ pc[p] = "closeClient"
        /\ closes' = [closes EXCEPT ![held[p]] = @ + 1]
        /\ toDrain' = [toDrain EXCEPT ![p] = @ \ {held[p]}]
    BY <1>7 DEF CloseClient
  <2>2. held[p] \in Ids /\ closes[held[p]] = 0
    <3>1. held[p] \in Ids /\ held[p] \in toDrain[p]
      BY <2>1 DEF LocalTyped, LocalsOK, DirectoryInv, DrainInProgress
    <3>2. QED
      BY <3>1 DEF Owns, DirectoryInv, OwnedIsOpen
  <2>3. /\ closes[c] = 1 => closes'[c] = 1
        /\ c = held[p] => closes'[c] = 1
        /\ \A q \in Procs : c \in toDrain[q] => c \in toDrain'[q] \/ c = held[p]
    BY <2>1, <2>2
  <2>4. QED
    BY <2>1, <2>3
<1>8. QED
  BY <1>1, <1>2, <1>3, <1>4, <1>5, <1>6, <1>7 DEF ClientStep

RemovalLabels == {"reserveRemoved", "notifyRemoved", "drain", "waitDrained", "closeClient",
                  "removed"}

\* What a Configure has opened so far is registered or has left.
OpenedTracked(p) ==
    /\ undone[p] <= Len(opened[p])
    /\ \A i \in 1..Len(opened[p]) : Tracked(opened[p][i].name, opened[p][i].entry)

\* register returns a client only when it has published it, and rollback has
\* not begun while one can still be opened.
HeldTracked(p) ==
    /\ pc[p] \in {"reserveRegistered", "notifyRegistered"} =>
           held[p] # None /\ Tracked(name[p], held[p])
    /\ pc[p] = "registered" /\ held[p] # None => Tracked(name[p], held[p])
    /\ pc[p] \in {"idle", "configure", "register", "driverOpen"} => held[p] = None
    /\ pc[p] \in {"idle", "configure"} \cup RegisterLabels => undone[p] = 0

UndoneGone(p, last) == \A i \in 1..last : Gone(opened[p][i].entry)

\* Rollback walks the list in order, and what it has walked over has left.
Undoing(p) ==
    /\ pc[p] \in {"rollback", "configureError"} => UndoneGone(p, undone[p])
    /\ op[p] = "configure" /\ pc[p] \in RemovalLabels => UndoneGone(p, undone[p])
    /\ pc[p] = "remove" /\ op[p] = "configure" =>
           /\ undone[p] > 0
           /\ name[p] = opened[p][undone[p]].name
           /\ UndoneGone(p, undone[p] - 1)
    /\ pc[p] = "configureError" => undone[p] = Len(opened[p])
    /\ pc[p] = "removeAll" => op[p] = "close"

RollbackOf(p) == OpenedTracked(p) /\ HeldTracked(p) /\ Undoing(p)

RollbackInv == \A p \in Procs : RollbackOf(p)

LEMMA OpenedTyped ==
    ASSUME Typed, NEW q \in Procs
    PROVE  /\ opened[q] \in Seq(OpenedSource) /\ undone[q] \in Nat
           /\ Len(opened[q]) \in Nat
           /\ \A i \in 1..Len(opened[q]) : /\ opened[q][i].name \in Names
                                           /\ opened[q][i].entry \in Ids
<1>1. opened[q] \in Seq(OpenedSource) /\ undone[q] \in Nat
  BY DEF Typed, LocalTyped
<1>2. \A i \in 1..Len(opened[q]) : opened[q][i] \in OpenedSource
  BY <1>1
<1>3. QED
  BY <1>1, <1>2 DEF OpenedSource

\* A step that leaves q's list and its place in it alone keeps what is known
\* of them.
LEMMA ListKept ==
    ASSUME NEW p \in Procs, DirectoryInv, Call(p) \/ Step(p), NEW q \in Procs, RollbackOf(q),
           opened'[q] = opened[q], undone'[q] = undone[q]
    PROVE  /\ OpenedTracked(q)'
           /\ UndoneGone(q, undone[q]) => UndoneGone(q, undone[q])'
           /\ UndoneGone(q, undone[q] - 1) => UndoneGone(q, undone[q] - 1)'
<1>0. Typed
  BY InvIsParts
<1>1. \A i \in 1..Len(opened[q]) :
          /\ Tracked(opened[q][i].name, opened[q][i].entry)'
          /\ Gone(opened[q][i].entry) => Gone(opened[q][i].entry)'
  <2> SUFFICES ASSUME NEW i \in 1..Len(opened[q])
               PROVE  /\ Tracked(opened[q][i].name, opened[q][i].entry)'
                      /\ Gone(opened[q][i].entry) => Gone(opened[q][i].entry)'
    OBVIOUS
  <2>1. opened[q][i].name \in Names /\ opened[q][i].entry \in Ids
    BY <1>0, OpenedTyped
  <2>2. Tracked(opened[q][i].name, opened[q][i].entry)
    BY DEF RollbackOf, OpenedTracked
  <2>3. \A d \in Ids : /\ Gone(d) => Gone(d)'
                       /\ \A m \in Names : Tracked(m, d) => Tracked(m, d)'
    BY TrackedStep
  <2>4. QED
    BY <2>1, <2>2, <2>3 DEF Gone, Tracked
<1>2. undone[q] <= Len(opened[q]) /\ undone[q] \in Nat /\ Len(opened[q]) \in Nat
  BY <1>0, OpenedTyped DEF RollbackOf, OpenedTracked
<1>3. OpenedTracked(q)'
  BY <1>1, <1>2 DEF OpenedTracked
<1>4. /\ \A i \in 1..undone[q] : i \in 1..Len(opened[q])
      /\ \A i \in 1..undone[q] - 1 : i \in 1..Len(opened[q])
  BY <1>2
<1>5. UndoneGone(q, undone[q]) => UndoneGone(q, undone[q])'
  BY <1>1, <1>4 DEF UndoneGone, Gone
<1>6. UndoneGone(q, undone[q] - 1) => UndoneGone(q, undone[q] - 1)'
  BY <1>1, <1>4 DEF UndoneGone, Gone
<1>7. QED
  BY <1>3, <1>5, <1>6

LEMMA OthersRollback ==
    ASSUME NEW p \in Procs, DirectoryInv, Call(p) \/ Step(p), NEW q \in Procs, q # p,
           RollbackOf(q)
    PROVE  RollbackOf(q)'
<1>0. Typed /\ LocalTyped /\ LocalsKept(q)
  BY InvIsParts, OthersKept DEF Typed
<1>1. /\ OpenedTracked(q)'
      /\ UndoneGone(q, undone[q]) => UndoneGone(q, undone[q])'
      /\ UndoneGone(q, undone[q] - 1) => UndoneGone(q, undone[q] - 1)'
  BY <1>0, ListKept DEF LocalsKept
<1>2. HeldTracked(q)'
  <2>1. ASSUME Tracked(name[q], held[q]), name[q] \in Names, held[q] # None
        PROVE  Tracked(name[q], held[q])'
    <3>1. held[q] \in Ids
      BY <1>0, <2>1 DEF LocalTyped
    <3>2. QED
      BY <1>0, <2>1, <3>1, TrackedStep DEF Tracked, Gone, LocalsKept
  <2>2. pc[q] \in RegisterLabels => name[q] \in Names
    BY <1>0 DEF LocalTyped, LocalsOK
  <2>3. QED
    BY <1>0, <2>1, <2>2 DEF RollbackOf, HeldTracked, LocalsKept, RegisterLabels
<1>3. Undoing(q)'
  BY <1>0, <1>1 DEF RollbackOf, Undoing, LocalsKept
<1>4. QED
  BY <1>1, <1>2, <1>3 DEF RollbackOf

LEMMA ReturnRollback ==
    ASSUME NEW p \in Procs, Typed, Return(p) PROVE RollbackOf(p)'
<1>1. /\ pc'[p] = "idle" /\ held'[p] = None /\ opened'[p] = <<>> /\ undone'[p] = 0
  BY DEF Return, Typed, LocalTyped
<1>2. OpenedTracked(p)'
  BY <1>1 DEF OpenedTracked
<1>3. HeldTracked(p)'
  BY <1>1 DEF HeldTracked
<1>4. Undoing(p)'
  BY <1>1 DEF Undoing, RemovalLabels
<1>5. QED
  BY <1>2, <1>3, <1>4 DEF RollbackOf

\* A register that fails ends the call or starts a rollback with nothing
\* undone yet.
LEMMA RegisterFailedRollback ==
    ASSUME NEW p \in Procs, DirectoryInv, Step(p), RollbackOf(p), RegisterFailed(p),
           pc[p] \in RegisterLabels
    PROVE  RollbackOf(p)'
<1>0. Typed /\ LocalTyped
  BY InvIsParts DEF Typed
<1>1. CASE op[p] = "configure"
  <2>1. /\ pc'[p] = "rollback" /\ opened'[p] = opened[p]
        /\ undone'[p] = 0 /\ undone[p] = 0
    BY <1>0, <1>1 DEF RegisterFailed, LocalTyped, RollbackOf, HeldTracked
  <2>2. OpenedTracked(p)'
    BY <2>1, ListKept
  <2>3. HeldTracked(p)' /\ Undoing(p)'
    BY <2>1 DEF HeldTracked, RegisterLabels, Undoing, UndoneGone, RemovalLabels
  <2>4. QED
    BY <2>2, <2>3 DEF RollbackOf
<1>2. CASE op[p] # "configure"
  BY <1>0, <1>2, ReturnRollback DEF RegisterFailed
<1>3. QED
  BY <1>1, <1>2

LEMMA CallRollback ==
    ASSUME NEW p \in Procs, DirectoryInv, Call(p), RollbackOf(p) PROVE RollbackOf(p)'
<1>0. Typed /\ LocalTyped
  BY InvIsParts DEF Typed
<1>1. /\ pc[p] = "idle" /\ UNCHANGED <<opened, undone, held>>
      /\ pc'[p] \in {"idle", "register", "remove", "acquire", "configure", "removeAll"}
      /\ pc'[p] = "remove" => op'[p] = "remove"
      /\ pc'[p] = "removeAll" => op'[p] = "close"
  BY <1>0 DEF LocalTyped, Call, RegisterDriver, CallNamed, CallConfigure, CallClose, NewSource
<1>2. held[p] = None /\ undone[p] = 0
  BY <1>1 DEF RollbackOf, HeldTracked
<1>3. OpenedTracked(p)'
  BY <1>1, ListKept
<1>4. HeldTracked(p)'
  BY <1>1, <1>2 DEF HeldTracked, RegisterLabels
<1>5. Undoing(p)'
  BY <1>1 DEF Undoing, RemovalLabels
<1>6. QED
  BY <1>3, <1>4, <1>5 DEF RollbackOf

LEMMA RegisterRollback ==
    ASSUME NEW p \in Procs, DirectoryInv, RegisterStep(p), RollbackOf(p) PROVE RollbackOf(p)'
<1>0. Typed /\ LocalTyped /\ SharedTyped /\ Step(p)
  BY InvIsParts DEF Typed, Step
<1> USE NoneAssumption
<1>1. ASSUME UNCHANGED <<opened, undone, op>>, pc[p] \in RegisterLabels,
             pc'[p] \in RegisterLabels \cup {"configure"}, HeldTracked(p)'
      PROVE  RollbackOf(p)'
  <2>1. OpenedTracked(p)'
    BY <1>0, <1>1, ListKept
  <2>2. Undoing(p)'
    BY <1>1 DEF Undoing, RemovalLabels, RegisterLabels
  <2>3. QED
    BY <1>1, <2>1, <2>2 DEF RollbackOf
<1>2. ASSUME Tracked(name[p], held[p]), held[p] # None, name[p] \in Names,
             name' = name, held' = held
      PROVE  Tracked(name[p], held[p])'
  <2>1. held[p] \in Ids
    BY <1>0, <1>2 DEF LocalTyped
  <2>2. QED
    BY <1>0, <1>2, <2>1, TrackedStep DEF Tracked, Gone
<1>3. pc[p] \in RegisterLabels => undone[p] = 0 /\ name[p] \in Names
  BY <1>0 DEF RollbackOf, HeldTracked, LocalTyped, LocalsOK
<1>4. CASE RegisterAdmit(p)
  <2>1. CASE RegisterFailed(p)
    BY <1>0, <1>4, <2>1, RegisterFailedRollback DEF RegisterAdmit, RegisterLabels
  <2>2. CASE pc' = [pc EXCEPT ![p] = "driverOpen"] /\ UNCHANGED call
    <3>1. pc[p] = "register" /\ pc'[p] = "driverOpen"
      BY <1>0, <1>4, <2>2 DEF RegisterAdmit, LocalTyped
    <3>2. HeldTracked(p)'
      BY <1>3, <2>2, <3>1 DEF HeldTracked, RegisterLabels, RollbackOf
    <3>3. QED
      BY <1>1, <2>2, <3>1, <3>2 DEF RegisterLabels
  <2>3. QED
    BY <1>4, <2>1, <2>2 DEF RegisterAdmit
<1>5. ASSUME NEW c \in Ids, DriverOpens(p, c) PROVE RollbackOf(p)'
  <2>1. pc[p] = "driverOpen" /\ pc'[p] = "applyPool" /\ UNCHANGED <<opened, undone, op>>
    BY <1>0, <1>5 DEF DriverOpens, LocalTyped
  <2>2. HeldTracked(p)'
    BY <1>3, <2>1 DEF HeldTracked, RegisterLabels
  <2>3. QED
    BY <1>1, <2>1, <2>2 DEF RegisterLabels
<1>6. CASE DriverFails(p)
  <2>1. pc[p] = "driverOpen" /\ pc'[p] = "registered" /\ UNCHANGED call
    BY <1>0, <1>6 DEF DriverFails, LocalTyped
  <2>2. HeldTracked(p)'
    BY <1>3, <2>1 DEF HeldTracked, RegisterLabels, RollbackOf
  <2>3. QED
    BY <1>1, <2>1, <2>2 DEF RegisterLabels
<1>7. CASE DriverPanics(p)
  BY <1>0, <1>7, ReturnRollback DEF DriverPanics
<1>8. CASE PoolApplied(p)
  <2>1. pc[p] = "applyPool" /\ pc'[p] = "publish" /\ UNCHANGED call
    BY <1>0, <1>8 DEF PoolApplied, LocalTyped
  <2>2. HeldTracked(p)'
    BY <1>3, <2>1 DEF HeldTracked, RegisterLabels
  <2>3. QED
    BY <1>1, <2>1, <2>2 DEF RegisterLabels
<1>9. CASE PoolPanics(p)
  BY <1>0, <1>9, ReturnRollback DEF PoolPanics
<1>10. CASE Publish(p)
  <2>1. /\ pc[p] = "publish" /\ UNCHANGED <<opened, undone, op, name, held>>
        /\ pc'[p] \in {"discard", "reserveRegistered"}
        /\ pc'[p] = "reserveRegistered" => entries' = [entries EXCEPT ![name[p]] = held[p]]
    BY <1>0, <1>10 DEF Publish, LocalTyped
  <2>2. held[p] \in Ids /\ name[p] \in Names
    BY <1>0, <2>1 DEF LocalTyped, LocalsOK, RegisterLabels
  <2>3. pc'[p] = "reserveRegistered" => Tracked(name[p], held[p])'
    BY <1>0, <2>1, <2>2 DEF Tracked, SharedTyped
  <2>4. HeldTracked(p)'
    BY <1>3, <2>1, <2>2, <2>3 DEF HeldTracked, RegisterLabels
  <2>5. QED
    BY <1>1, <2>1, <2>4 DEF RegisterLabels
<1>11. CASE DiscardClient(p)
  <2>1. /\ pc[p] = "discard" /\ pc'[p] = "registered" /\ UNCHANGED <<opened, undone, op>>
        /\ held'[p] = None
    BY <1>0, <1>11 DEF DiscardClient, LocalTyped
  <2>2. HeldTracked(p)'
    BY <1>3, <2>1 DEF HeldTracked, RegisterLabels
  <2>3. QED
    BY <1>1, <2>1, <2>2 DEF RegisterLabels
<1>12. CASE Reserve(p, "reserveRegistered", "notifyRegistered") \/ NotifyRegistered(p)
  <2>1. /\ UNCHANGED <<opened, undone, op, name, held>>
        /\ pc[p] \in {"reserveRegistered", "notifyRegistered"}
        /\ pc'[p] \in {"notifyRegistered", "registered"}
    BY <1>0, <1>12 DEF Reserve, NotifyRegistered, LocalTyped
  <2>2. held[p] # None /\ Tracked(name[p], held[p])'
    BY <1>2, <1>3, <2>1 DEF RollbackOf, HeldTracked, RegisterLabels
  <2>3. HeldTracked(p)'
    BY <1>3, <2>1, <2>2 DEF HeldTracked, RegisterLabels
  <2>4. QED
    BY <1>1, <2>1, <2>3 DEF RegisterLabels
<1>13. CASE RegisterReturns(p)
  <2>1. CASE RegisterFailed(p)
    BY <1>0, <1>13, <2>1, RegisterFailedRollback DEF RegisterReturns, RegisterLabels
  <2>2. CASE Return(p)
    BY <1>0, <2>2, ReturnRollback
  <2>3. CASE held[p] # None /\ op[p] = "configure"
    <3> DEFINE new == [name |-> name[p], entry |-> held[p]]
    <3>1. /\ pc[p] = "registered" /\ pc'[p] = "configure" /\ held'[p] = None
          /\ UNCHANGED <<undone, op, name, entries, closes, toDrain>>
          /\ opened'[p] = Append(opened[p], new)
      BY <1>0, <1>13, <2>3 DEF RegisterReturns, LocalTyped
    <3>2. name[p] \in Names /\ held[p] \in Ids /\ undone[p] = 0
      BY <1>0, <1>3, <2>3, <3>1 DEF LocalTyped, RegisterLabels
    <3>3. opened[p] \in Seq(OpenedSource) /\ new \in OpenedSource
      BY <1>0, <3>2 DEF LocalTyped, OpenedSource
    <3>4. /\ Len(opened'[p]) = Len(opened[p]) + 1
          /\ \A i \in 1..Len(opened[p]) : opened'[p][i] = opened[p][i]
          /\ opened'[p][Len(opened[p]) + 1] = new
          /\ Len(opened[p]) \in Nat
      BY <3>1, <3>3
    <3>5. \A i \in 1..Len(opened[p]) + 1 : i \in 1..Len(opened[p]) \/ i = Len(opened[p]) + 1
      BY <3>4
    <3>6. Tracked(name[p], held[p])
      BY <2>3, <3>1 DEF RollbackOf, HeldTracked
    <3>7. OpenedTracked(p)'
      <4>1. undone'[p] <= Len(opened'[p])
        BY <3>1, <3>2, <3>4
      <4>2. ASSUME NEW i \in 1..Len(opened'[p])
            PROVE  Tracked(opened[p][i].name, opened[p][i].entry)'
        <5>1. CASE i \in 1..Len(opened[p])
          BY <3>1, <3>4, <5>1 DEF RollbackOf, OpenedTracked, Tracked, Gone
        <5>2. CASE i = Len(opened[p]) + 1
          BY <3>1, <3>4, <3>6, <5>2 DEF Tracked, Gone
        <5>3. QED
          BY <3>4, <3>5, <5>1, <5>2
      <4>3. QED
        BY <4>1, <4>2 DEF OpenedTracked
    <3>8. HeldTracked(p)'
      BY <3>1, <3>2 DEF HeldTracked
    <3>9. Undoing(p)'
      BY <3>1 DEF Undoing, RemovalLabels
    <3>10. QED
      BY <3>7, <3>8, <3>9 DEF RollbackOf
  <2>4. QED
    BY <1>13, <2>1, <2>2, <2>3 DEF RegisterReturns
<1>14. QED
  BY <1>4, <1>5, <1>6, <1>7, <1>8, <1>9, <1>10, <1>11, <1>12, <1>13 DEF RegisterStep

LEMMA ConfigureRollback ==
    ASSUME NEW p \in Procs, DirectoryInv, ConfigureStep(p), RollbackOf(p) PROVE RollbackOf(p)'
<1>0. Typed /\ LocalTyped /\ Step(p)
  BY InvIsParts DEF Typed, Step
<1>1. ASSUME NEW n \in Names, ConfigureNext(p, n) PROVE RollbackOf(p)'
  <2>1. /\ pc[p] = "configure" /\ pc'[p] = "register" /\ UNCHANGED <<opened, undone, op, held>>
    BY <1>0, <1>1 DEF ConfigureNext, LocalTyped
  <2>2. OpenedTracked(p)'
    BY <1>0, <2>1, ListKept
  <2>3. HeldTracked(p)'
    BY <2>1 DEF RollbackOf, HeldTracked
  <2>4. Undoing(p)'
    BY <2>1 DEF Undoing, RemovalLabels
  <2>5. QED
    BY <2>2, <2>3, <2>4 DEF RollbackOf
<1>2. CASE ConfigureSucceeds(p) \/ ConfigureFails(p)
  BY <1>0, <1>2, ReturnRollback DEF ConfigureSucceeds, ConfigureFails
<1>3. CASE RollbackNext(p)
  <2>1. /\ pc[p] = "rollback" /\ pc'[p] = "remove" /\ undone[p] < Len(opened[p])
        /\ undone'[p] = undone[p] + 1 /\ opened' = opened /\ op' = op
        /\ name'[p] = opened[p][undone[p] + 1].name
        /\ UNCHANGED <<entries, closes, toDrain>>
    BY <1>0, <1>3 DEF RollbackNext, LocalTyped
  <2>2. undone[p] \in Nat /\ Len(opened[p]) \in Nat
    BY <1>0, OpenedTyped
  <2>3. OpenedTracked(p)'
    BY <2>1, <2>2 DEF RollbackOf, OpenedTracked, Tracked, Gone
  <2>4. HeldTracked(p)'
    BY <2>1 DEF HeldTracked, RegisterLabels
  <2>5. UndoneGone(p, undone[p])
    BY <2>1 DEF RollbackOf, Undoing
  <2>6. undone'[p] - 1 = undone[p]
    BY <2>1, <2>2
  <2>7. Undoing(p)'
    <3>1. \A i \in 1..undone'[p] - 1 : Gone(opened[p][i].entry)'
      BY <2>1, <2>5, <2>6 DEF UndoneGone, Gone
    <3>2. undone'[p] > 0 /\ name'[p] = opened'[p][undone'[p]].name
      BY <2>1, <2>2
    <3>3. QED
      BY <2>1, <3>1, <3>2 DEF Undoing, UndoneGone, RemovalLabels
  <2>8. QED
    BY <2>3, <2>4, <2>7 DEF RollbackOf
<1>4. CASE RollbackEnds(p)
  <2>1. /\ pc[p] = "rollback" /\ pc'[p] = "configureError" /\ UNCHANGED <<opened, undone, op>>
        /\ undone[p] = Len(opened[p])
    BY <1>0, <1>4 DEF RollbackEnds, LocalTyped
  <2>2. OpenedTracked(p)' /\ UndoneGone(p, undone[p])'
    BY <1>0, <2>1, ListKept DEF RollbackOf, Undoing
  <2>3. HeldTracked(p)'
    BY <2>1 DEF HeldTracked, RegisterLabels
  <2>4. Undoing(p)'
    BY <2>1, <2>2 DEF Undoing, RemovalLabels
  <2>5. QED
    BY <2>2, <2>3, <2>4 DEF RollbackOf
<1>5. QED
  BY <1>1, <1>2, <1>3, <1>4 DEF ConfigureStep

LEMMA RemoveRollback ==
    ASSUME NEW p \in Procs, DirectoryInv, RemoveStep(p), RollbackOf(p) PROVE RollbackOf(p)'
<1>0. Typed /\ LocalTyped /\ SharedTyped /\ Step(p)
  BY InvIsParts DEF Typed, Step
<1>1. CASE Detach(p)
  <2>1. /\ pc[p] = "remove" /\ UNCHANGED <<opened, undone, op, name>>
        /\ pc'[p] \in {"reserveRemoved", "removed"}
    BY <1>0, <1>1 DEF Detach, LocalTyped
  <2>2. OpenedTracked(p)'
    BY <1>0, <2>1, ListKept
  <2>3. HeldTracked(p)'
    BY <2>1 DEF HeldTracked, RegisterLabels
  <2>4. ASSUME op[p] = "configure" PROVE UndoneGone(p, undone[p])'
    <3>1. /\ undone[p] > 0 /\ name[p] = opened[p][undone[p]].name
          /\ UndoneGone(p, undone[p] - 1) /\ undone[p] <= Len(opened[p])
      BY <2>1, <2>4 DEF RollbackOf, Undoing, OpenedTracked
    <3>2. undone[p] \in 1..Len(opened[p]) /\ undone[p] \in Nat
      BY <1>0, <3>1, OpenedTyped
    <3>3. opened[p][undone[p]].entry \in Ids /\ name[p] \in Names
      BY <1>0, <3>1, <3>2, OpenedTyped
    <3>4. Tracked(name[p], opened[p][undone[p]].entry)
      BY <3>1, <3>2 DEF RollbackOf, OpenedTracked
    <3>5. Tracked(name[p], opened[p][undone[p]].entry)'
      BY <1>0, <2>1, <3>3, <3>4, TrackedStep DEF Tracked, Gone
    <3>6. entries'[name[p]] # opened[p][undone[p]].entry
      BY <1>0, <1>1, <2>4, <3>3, NoneAssumption DEF Detach, RemoveMatches, SharedTyped
    <3>7. Gone(opened[p][undone[p]].entry)'
      BY <2>1, <3>5, <3>6 DEF Tracked
    <3>8. UndoneGone(p, undone[p] - 1)'
      BY <1>0, <2>1, <3>1, ListKept
    <3>9. \A i \in 1..undone[p] : i \in 1..undone[p] - 1 \/ i = undone[p]
      BY <3>2
    <3>10. QED
      BY <2>1, <3>7, <3>8, <3>9 DEF UndoneGone
  <2>5. Undoing(p)'
    BY <2>1, <2>4 DEF Undoing
  <2>6. QED
    BY <2>2, <2>3, <2>5 DEF RollbackOf
<1>2. CASE DetachAll(p)
  <2>1. /\ pc[p] = "removeAll" /\ UNCHANGED <<opened, undone, op>>
        /\ pc'[p] = "reserveRemoved"
    BY <1>0, <1>2 DEF DetachAll, LocalTyped
  <2>2. op[p] = "close"
    BY <2>1 DEF RollbackOf, Undoing
  <2>3. OpenedTracked(p)'
    BY <1>0, <2>1, ListKept
  <2>4. HeldTracked(p)' /\ Undoing(p)'
    BY <2>1, <2>2 DEF HeldTracked, RegisterLabels, Undoing
  <2>5. QED
    BY <2>3, <2>4 DEF RollbackOf
<1>3. CASE \/ Reserve(p, "reserveRemoved", "notifyRemoved")
           \/ \E n \in Names : NotifyRemoved(p, n)
           \/ NotifyDone(p)
           \/ \E c \in Ids : DrainNext(p, c)
           \/ WaitDrained(p)
           \/ CloseClient(p)
           \/ DrainDone(p)
           \/ RemoveReturns(p) /\ op[p] = "configure"
  <2>1. /\ pc[p] \in RemovalLabels /\ UNCHANGED <<opened, undone, op>>
        /\ \/ pc'[p] \in RemovalLabels
           \/ pc'[p] = "awaitOpenings"
           \/ pc'[p] = "rollback" /\ op[p] = "configure"
    BY <1>0, <1>3 DEF Reserve, NotifyRemoved, NotifyDone, DrainNext, WaitDrained, CloseClient,
       DrainDone, RemoveReturns, LocalTyped, RemovalLabels
  <2>2. op[p] = "configure" => UndoneGone(p, undone[p])
    BY <2>1 DEF RollbackOf, Undoing
  <2>3. OpenedTracked(p)' /\ (op[p] = "configure" => UndoneGone(p, undone[p])')
    BY <1>0, <2>1, <2>2, ListKept
  <2>4. HeldTracked(p)'
    BY <2>1 DEF HeldTracked, RegisterLabels, RemovalLabels
  <2>5. Undoing(p)'
    BY <2>1, <2>3 DEF Undoing, RemovalLabels
  <2>6. QED
    BY <2>3, <2>4, <2>5 DEF RollbackOf
<1>4. CASE AwaitOpenings(p) \/ (RemoveReturns(p) /\ op[p] # "configure")
  BY <1>0, <1>4, ReturnRollback DEF RemoveReturns, AwaitOpenings
<1>5. QED
  BY <1>1, <1>2, <1>3, <1>4 DEF RemoveStep

LEMMA RunRollback ==
    ASSUME NEW p \in Procs, DirectoryInv, RunStep(p), RollbackOf(p) PROVE RollbackOf(p)'
<1>0. Typed /\ LocalTyped /\ Step(p)
  BY InvIsParts DEF Typed, Step
<1>1. CASE Return(p)
  BY <1>0, <1>1, ReturnRollback
<1>2. CASE Acquire(p) /\ AcquireMatches(p)
  <2>1. pc'[p] = "using" /\ UNCHANGED <<opened, undone, op>>
    BY <1>0, <1>2 DEF Acquire, LocalTyped
  <2>2. OpenedTracked(p)'
    BY <1>0, <2>1, ListKept
  <2>3. HeldTracked(p)' /\ Undoing(p)'
    BY <2>1 DEF HeldTracked, RegisterLabels, Undoing, RemovalLabels
  <2>4. QED
    BY <2>2, <2>3 DEF RollbackOf
<1>3. QED
  BY <1>1, <1>2 DEF RunStep, Acquire, Release

LEMMA InitRollback == Init => RollbackInv
<1> SUFFICES ASSUME Init, NEW p \in Procs PROVE RollbackOf(p)
  BY DEF RollbackInv
<1>1. /\ pc[p] = "idle" /\ held[p] = None /\ opened[p] = <<>> /\ undone[p] = 0
  BY DEF Init
<1>2. QED
  BY <1>1 DEF RollbackOf, OpenedTracked, HeldTracked, Undoing, RegisterLabels, RemovalLabels

LEMMA RollbackStep == ASSUME DirectoryInv, RollbackInv, [Next]_vars PROVE RollbackInv'
<1> SUFFICES ASSUME NEW q \in Procs PROVE RollbackOf(q)'
  BY DEF RollbackInv
<1>0. RollbackOf(q)
  BY DEF RollbackInv
<1>1. CASE UNCHANGED vars
  <2>1. UNCHANGED <<entries, closes, toDrain, pc, op, name, held, opened, undone>>
    BY <1>1 DEF vars
  <2>2. OpenedTracked(q)' /\ HeldTracked(q)' /\ Undoing(q)'
    BY <1>0, <2>1 DEF RollbackOf, OpenedTracked, HeldTracked, Undoing, UndoneGone, Tracked, Gone
  <2>3. QED
    BY <2>2 DEF RollbackOf
<1>2. CASE Call(q) \/ Step(q)
  BY <1>0, <1>2, CallRollback, RegisterRollback, ConfigureRollback, RemoveRollback, RunRollback
     DEF Step
<1>3. ASSUME NEW p \in Procs, Call(p) \/ Step(p), p # q PROVE RollbackOf(q)'
  BY <1>0, <1>3, OthersRollback
<1>4. QED
  BY <1>1, <1>2, <1>3 DEF Next

LEMMA RollbackInvariant == Spec => [](DirectoryInv /\ RollbackInv)
<1>1. Init => DirectoryInv /\ RollbackInv
  BY InitInv, InitRollback
<1>2. DirectoryInv /\ RollbackInv /\ [Next]_vars => (DirectoryInv /\ RollbackInv)'
  BY NextInv, RollbackStep
<1>3. QED
  BY <1>1, <1>2, PTL DEF Spec

\* A Configure that returns an error has left nothing it opened behind.
THEOREM FailedConfigureRollsBack == Spec => []RolledBack
<1>1. DirectoryInv /\ RollbackInv => RolledBack
  <2> SUFFICES ASSUME DirectoryInv, RollbackInv, NEW p \in Procs, pc[p] = "configureError",
                      NEW i \in 1..Len(opened[p])
               PROVE  LET c == opened[p][i].entry
                      IN  /\ \A n \in Names : entries[n] # c
                          /\ closes[c] = 1 \/ \E q \in Procs \ {p} : c \in toDrain[q]
    BY DEF RolledBack, OpenedBy
  <2>1. Gone(opened[p][i].entry)
    BY DEF RollbackInv, RollbackOf, Undoing, UndoneGone
  <2>2. toDrain[p] = {}
    BY DEF DirectoryInv, DrainInProgress
  <2>3. QED
    BY <2>1, <2>2 DEF Gone
<1>2. QED
  BY <1>1, RollbackInvariant, PTL

\* A rollback never takes a source out that its Configure did not open.
THEOREM RollbackSparesOtherSources == Spec => RollbackSparesOthers
<1>1. ASSUME DirectoryInv, RollbackInv, [Next]_vars,
             NEW p \in Procs, NEW n \in Names,
             pc[p] = "remove", pc'[p] = "reserveRemoved", op[p] = "configure"
      PROVE  entries'[n] = entries[n] \/ entries[n] \in OpenedBy(p)
  <2>1. Typed /\ LocalTyped /\ SharedTyped
    BY <1>1, InvIsParts DEF Typed
  <2>2. Detach(p)
    <3>1. Call(p) \/ Step(p)
      BY <1>1, <2>1, OthersKept DEF Next, vars, LocalsKept
    <3>2. ~Call(p) /\ ~RegisterStep(p) /\ ~ConfigureStep(p) /\ ~RunStep(p)
      BY <1>1 DEF Call, RegisterDriver, CallNamed, CallConfigure, CallClose, NewSource,
         RegisterStep, RegisterAdmit, DriverOpens, DriverFails, DriverPanics, PoolApplied,
         PoolPanics, Publish,
         DiscardClient, Reserve, NotifyRegistered, RegisterReturns, ConfigureStep,
         ConfigureNext, ConfigureSucceeds, RollbackNext, RollbackEnds, ConfigureFails,
         RunStep, Acquire, Release
    <3>3. RemoveStep(p)
      BY <3>1, <3>2 DEF Step
    <3>4. QED
      BY <1>1, <3>3 DEF RemoveStep, DetachAll, Reserve, NotifyRemoved, NotifyDone, DrainNext,
         WaitDrained, CloseClient, DrainDone, RemoveReturns, AwaitOpenings
  <2>3. undone[p] \in 1..Len(opened[p])
    BY <1>1, <2>1, OpenedTyped DEF RollbackInv, RollbackOf, Undoing, OpenedTracked
  <2>4. opened[p][undone[p]].entry \in OpenedBy(p)
    BY <2>3 DEF OpenedBy
  <2>5. CASE RemoveMatches(p)
    <3>1. /\ entries' = [entries EXCEPT ![name[p]] = None]
          /\ entries[name[p]] = opened[p][undone[p]].entry
      BY <1>1, <2>2, <2>5 DEF Detach, RemoveMatches
    <3>2. QED
      BY <2>1, <2>4, <3>1 DEF SharedTyped
  <2>6. CASE ~RemoveMatches(p)
    BY <2>2, <2>6 DEF Detach
  <2>7. QED
    BY <2>5, <2>6
<1>2. DirectoryInv /\ RollbackInv /\ [Next]_vars =>
          [\A p \in Procs, n \in Names :
              At(p, "remove") /\ pc'[p] = "reserveRemoved" /\ op[p] = "configure" =>
                  entries'[n] = entries[n] \/ entries[n] \in OpenedBy(p)]_vars
  BY <1>1
<1>3. QED
  BY <1>2, RollbackInvariant, PTL DEF Spec, RollbackSparesOthers

----------------------------------------------------------------------------
(* Directory implements SourceLifecycle.                                   *)

Visible(c) == \E n \in Names : entries[n] = c
Draining(c) == \E q \in Procs : c \in toDrain[q]

StageOf(c) ==
    IF c \notin clients THEN "none"
    ELSE IF closes[c] > 0 THEN "closed"
    ELSE IF Visible(c) THEN "visible"
    ELSE IF Draining(c) THEN "retired"
    ELSE "opened"

LEMMA StageIsStageOf == Stage = [c \in Ids |-> StageOf(c)] /\ Stage' = [c \in Ids |-> StageOf(c)']
BY DEF Stage, StageOf, Visible, Draining

\* The stage of a client that one goroutine owns, or that has a name.
LEMMA StageFacts ==
    ASSUME DirectoryInv, NEW c \in Ids
    PROVE  /\ c \notin clients => ~Visible(c) /\ ~Draining(c) /\ closes[c] = 0
           /\ Visible(c) => StageOf(c) = "visible" /\ ~Draining(c) /\ closes[c] = 0
           /\ Draining(c) => StageOf(c) = "retired" /\ ~Visible(c) /\ closes[c] = 0
           /\ \A p \in Procs : pc[p] \in {"applyPool", "publish", "discard"} /\ held[p] = c =>
                  StageOf(c) = "opened" /\ ~Visible(c) /\ ~Draining(c) /\ closes[c] = 0
           /\ ~Visible(c) /\ ~Draining(c) => wg[c] = {}
<1> USE NoneAssumption
<1>1. closes[c] \in Nat
  BY DEF DirectoryInv, TypeOK
<1>2. c \notin clients => ~Visible(c) /\ ~Draining(c) /\ closes[c] = 0
  BY DEF DirectoryInv, Visible, Draining, RegisteredIsOpen, OwnedIsOpen, Owns, Unopened
<1>3. Visible(c) => c \in clients /\ ~Draining(c) /\ closes[c] = 0
  BY DEF DirectoryInv, Visible, Draining, RegisteredIsOpen, Owns
<1>4. Draining(c) => c \in clients /\ closes[c] = 0
  BY DEF DirectoryInv, Draining, OwnedIsOpen, Owns
<1>5. ASSUME NEW p \in Procs, pc[p] \in {"applyPool", "publish", "discard"}, held[p] = c
      PROVE  c \in clients /\ ~Visible(c) /\ ~Draining(c) /\ closes[c] = 0
  <2>1. Owns(p, c) /\ toDrain[p] = {}
    BY <1>5 DEF Owns, DirectoryInv, DrainInProgress
  <2>2. c \in clients /\ closes[c] = 0 /\ \A q \in Procs : Owns(q, c) => q = p
    BY <2>1 DEF DirectoryInv, OwnedIsOpen
  <2>3. ~Visible(c)
    BY <2>1 DEF DirectoryInv, RegisteredIsOpen, Visible
  <2>4. ~Draining(c)
    BY <2>1, <2>2 DEF Draining, Owns
  <2>5. QED
    BY <2>2, <2>3, <2>4
<1>6. ~Visible(c) /\ ~Draining(c) => wg[c] = {}
  BY DEF DirectoryInv, UsersAreInside, Visible, Draining
<1>7. QED
  BY <1>1, <1>2, <1>3, <1>4, <1>5, <1>6 DEF StageOf

LEMMA InitRefines == Init => Lifecycle!LifecycleInit
BY DEF Init, Lifecycle!LifecycleInit, Stage

LEMMA RegisterRefines ==
    ASSUME NEW p \in Procs, DirectoryInv, RegisterStep(p), ClientStep(p)
    PROVE  Lifecycle!LifecycleNext
<1>0. Typed /\ SharedTyped /\ LocalTyped
  BY InvIsParts DEF Typed
<1> USE <1>0, NoneAssumption DEF SharedTyped
<1>1. ASSUME NEW c \in Ids, DriverOpens(p, c) PROVE Lifecycle!OpenSource(c)
  <2>1. /\ c \notin clients /\ clients' = clients \cup {c}
        /\ UNCHANGED <<entries, closes, toDrain, wg, closed>>
    BY <1>1 DEF DriverOpens
  <2>2. \A d \in Ids : StageOf(d)' = IF d = c THEN "opened" ELSE StageOf(d)
    BY <2>1, StageFacts DEF StageOf, Visible, Draining
  <2>3. StageOf(c) = "none"
    BY <2>1 DEF StageOf
  <2>4. QED
    BY <2>1, <2>2, <2>3, StageIsStageOf DEF Lifecycle!OpenSource
<1>2. ASSUME Publish(p), ~closed, entries[name[p]] = None
      PROVE  Lifecycle!PublishSource(held[p], name[p])
  <2>1. /\ pc[p] = "publish" /\ UNCHANGED <<clients, closes, toDrain, wg, closed>>
        /\ entries' = [entries EXCEPT ![name[p]] = held[p]]
    BY <1>2 DEF Publish
  <2>2. name[p] \in Names /\ held[p] \in Ids
    BY <2>1 DEF LocalTyped, LocalsOK, RegisterLabels
  <2>3. StageOf(held[p]) = "opened" /\ held[p] \in clients /\ closes[held[p]] = 0
    BY <2>1, <2>2, StageFacts DEF StageOf
  <2>4. \A d \in Ids : Visible(d)' <=> Visible(d) \/ d = held[p]
    BY <1>2, <2>1, <2>2 DEF Visible
  <2>5. \A d \in Ids : StageOf(d)' = IF d = held[p] THEN "visible" ELSE StageOf(d)
    BY <2>1, <2>3, <2>4 DEF StageOf, Draining
  <2>6. QED
    BY <1>2, <2>1, <2>2, <2>3, <2>5, StageIsStageOf DEF Lifecycle!PublishSource
<1>3. ASSUME DiscardClient(p) PROVE Lifecycle!CloseSource(held[p])
  <2>1. /\ pc[p] = "discard" /\ UNCHANGED <<clients, entries, toDrain, wg, closed>>
        /\ closes' = [closes EXCEPT ![held[p]] = @ + 1]
    BY <1>3 DEF DiscardClient
  <2>2. held[p] \in Ids
    BY <2>1 DEF LocalTyped, LocalsOK
  <2>3. /\ StageOf(held[p]) = "opened" /\ held[p] \in clients /\ closes[held[p]] = 0
        /\ wg[held[p]] = {}
    BY <2>1, <2>2, StageFacts DEF StageOf
  <2>4. \A d \in Ids : StageOf(d)' = IF d = held[p] THEN "closed" ELSE StageOf(d)
    BY <2>1, <2>2, <2>3 DEF StageOf, Visible, Draining
  <2>5. QED
    BY <2>1, <2>2, <2>3, <2>4, StageIsStageOf DEF Lifecycle!CloseSource
<1>4. (Publish(p) /\ ~closed /\ entries[name[p]] = None) \/ DiscardClient(p) => held[p] \in Ids
  BY DEF Publish, DiscardClient, LocalTyped, LocalsOK
<1>5. Publish(p) => name[p] \in Names
  BY DEF Publish, LocalTyped, LocalsOK, RegisterLabels
<1>6. \/ \E c \in Ids : DriverOpens(p, c)
      \/ Publish(p) /\ ~closed /\ entries[name[p]] = None
      \/ DiscardClient(p)
  BY DEF ClientStep, RegisterStep, RegisterAdmit, DriverFails, DriverPanics, PoolApplied,
     PoolPanics, Publish, Reserve,
     NotifyRegistered, RegisterReturns, Detach, DetachAll, CloseClient, Acquire, Release
<1>7. QED
  BY <1>1, <1>2, <1>3, <1>4, <1>5, <1>6 DEF Lifecycle!LifecycleNext

LEMMA RemoveRefines ==
    ASSUME NEW p \in Procs, DirectoryInv, RemoveStep(p), ClientStep(p)
    PROVE  Lifecycle!LifecycleNext
<1>0. Typed /\ SharedTyped /\ LocalTyped
  BY InvIsParts DEF Typed
<1> USE <1>0, NoneAssumption DEF SharedTyped
<1>1. ASSUME Detach(p), RemoveMatches(p) PROVE name[p] \in Names /\ Lifecycle!RetireSource(name[p])
  <2> DEFINE gone == entries[name[p]]
  <2>1. /\ pc[p] = "remove" /\ UNCHANGED <<clients, closes, wg, closed>>
        /\ entries' = [entries EXCEPT ![name[p]] = None]
        /\ toDrain' = [toDrain EXCEPT ![p] = {gone}]
    BY <1>1 DEF Detach
  <2>2. name[p] \in Names /\ toDrain[p] = {}
    BY <2>1 DEF LocalTyped, LocalsOK, DirectoryInv, DrainInProgress
  <2>3. gone \in Ids /\ Visible(gone) /\ \A m \in Names : entries[m] = gone => m = name[p]
    BY <1>1, <2>2 DEF RemoveMatches, Visible, DirectoryInv, RegisteredIsOpen
  <2>4. StageOf(gone) = "visible" /\ closes[gone] = 0 /\ gone \in clients
    BY <2>3, StageFacts DEF StageOf
  <2>5. \A d \in Ids : /\ Visible(d)' <=> Visible(d) /\ d # gone
                       /\ Draining(d)' <=> Draining(d) \/ d = gone
    BY <2>1, <2>2, <2>3 DEF Visible, Draining
  <2>6. \A d \in Ids : StageOf(d)' = IF d = gone THEN "retired" ELSE StageOf(d)
    BY <2>1, <2>4, <2>5 DEF StageOf
  <2>7. QED
    BY <1>1, <2>1, <2>2, <2>3, <2>6, StageIsStageOf DEF Lifecycle!RetireSource, RemoveMatches
<1>2. ASSUME DetachAll(p) PROVE Lifecycle!RetireAll
  <2>1. /\ pc[p] = "removeAll" /\ UNCHANGED <<clients, closes, wg>> /\ closed' = TRUE
        /\ entries' = [n \in Names |-> None]
        /\ toDrain' = [toDrain EXCEPT ![p] = {entries[n] : n \in Registered}]
    BY <1>2 DEF DetachAll
  <2>2. toDrain[p] = {}
    BY <2>1 DEF DirectoryInv, DrainInProgress
  <2>3. \A d \in Ids : /\ ~Visible(d)'
                       /\ Draining(d)' <=> Draining(d) \/ Visible(d)
    <3>1. \A d \in Ids : ~Visible(d)'
      BY <2>1 DEF Visible
    <3>2. \A d \in Ids : d \in toDrain'[p] <=> Visible(d)
      BY <2>1 DEF Visible, Registered
    <3>3. \A q \in Procs : q # p => toDrain'[q] = toDrain[q]
      BY <2>1
    <3>4. QED
      BY <2>2, <3>1, <3>2, <3>3 DEF Draining
  <2>4. \A d \in Ids : StageOf(d)' = IF Visible(d) THEN "retired" ELSE StageOf(d)
    BY <2>1, <2>3, StageFacts DEF StageOf
  <2>5. QED
    BY <2>1, <2>4, StageIsStageOf DEF Lifecycle!RetireAll, Visible
<1>3. ASSUME CloseClient(p) PROVE held[p] \in Ids /\ Lifecycle!CloseSource(held[p])
  <2>1. /\ pc[p] = "closeClient" /\ UNCHANGED <<clients, entries, wg, closed>>
        /\ closes' = [closes EXCEPT ![held[p]] = @ + 1]
        /\ toDrain' = [toDrain EXCEPT ![p] = @ \ {held[p]}]
    BY <1>3 DEF CloseClient
  <2>2. held[p] \in Ids /\ held[p] \in toDrain[p] /\ wg[held[p]] = {}
    BY <2>1 DEF LocalTyped, LocalsOK, DirectoryInv, DrainInProgress
  <2>3. /\ StageOf(held[p]) = "retired" /\ closes[held[p]] = 0 /\ held[p] \in clients
    BY <2>2, StageFacts DEF StageOf, Draining
  <2>4. \A d \in Ids : d # held[p] => (Draining(d)' <=> Draining(d))
    BY <2>1 DEF Draining
  <2>5. \A d \in Ids : StageOf(d)' = IF d = held[p] THEN "closed" ELSE StageOf(d)
    BY <2>1, <2>2, <2>3, <2>4 DEF StageOf, Visible
  <2>6. QED
    BY <2>1, <2>2, <2>3, <2>5, StageIsStageOf DEF Lifecycle!CloseSource
<1>4. (Detach(p) /\ RemoveMatches(p)) \/ DetachAll(p) \/ CloseClient(p)
  BY DEF ClientStep, RemoveStep, DriverOpens, Publish, DiscardClient, Acquire, Release, Detach,
     Reserve, NotifyRemoved, NotifyDone, DrainNext, WaitDrained, DrainDone, RemoveReturns,
     AwaitOpenings
<1>5. QED
  BY <1>1, <1>2, <1>3, <1>4 DEF Lifecycle!LifecycleNext

LEMMA RunRefines ==
    ASSUME NEW p \in Procs, DirectoryInv, RunStep(p)
    PROVE  [Lifecycle!LifecycleNext]_(Lifecycle!lifecycleVars)
<1>0. Typed /\ SharedTyped /\ LocalTyped
  BY InvIsParts DEF Typed
<1> USE <1>0, NoneAssumption DEF SharedTyped
<1>1. UNCHANGED <<entries, closed, clients, closes, toDrain>>
  BY DEF RunStep, Acquire, Release
<1>2. Stage' = Stage
  BY <1>1 DEF Stage
<1>3. CASE Acquire(p) /\ AcquireMatches(p)
  <2> DEFINE c == entries[name[p]]
  <2>1. pc[p] = "acquire" /\ wg' = [wg EXCEPT ![c] = @ \cup {p}]
    BY <1>3 DEF Acquire
  <2>2. name[p] \in Names /\ c \in Ids
    <3>1. name[p] \in Names
      BY <2>1 DEF LocalTyped, LocalsOK
    <3>2. QED
      BY <1>3, <3>1 DEF AcquireMatches
  <2>3. p \notin wg[c]
    BY <2>1, <2>2 DEF DirectoryInv, UsersAreInside
  <2>4. Lifecycle!AdmitWork(p, c)
    BY <1>1, <1>2, <2>1, <2>2, <2>3 DEF Lifecycle!AdmitWork
  <2>5. QED
    BY <2>2, <2>4 DEF Lifecycle!LifecycleNext
<1>4. CASE Acquire(p) /\ ~AcquireMatches(p)
  BY <1>1, <1>2, <1>4 DEF Acquire, Lifecycle!lifecycleVars
<1>5. CASE Release(p)
  <2>1. pc[p] = "using" /\ wg' = [wg EXCEPT ![held[p]] = @ \ {p}]
    BY <1>5 DEF Release
  <2>2. held[p] \in Ids
    BY <2>1 DEF LocalTyped, LocalsOK
  <2>3. CASE p \in wg[held[p]]
    <3>1. Lifecycle!FinishWork(p, held[p])
      BY <1>1, <1>2, <2>1, <2>2, <2>3 DEF Lifecycle!FinishWork
    <3>2. QED
      BY <2>2, <3>1 DEF Lifecycle!LifecycleNext
  <2>4. CASE p \notin wg[held[p]]
    <3>1. wg' = wg
      BY <2>1, <2>2, <2>4
    <3>2. QED
      BY <1>1, <1>2, <3>1 DEF Lifecycle!lifecycleVars
  <2>5. QED
    BY <2>3, <2>4
<1>6. QED
  BY <1>3, <1>4, <1>5 DEF RunStep

\* Every step is one of SourceLifecycle's or leaves its variables alone.
LEMMA StepRefines ==
    ASSUME DirectoryInv, [Next]_vars
    PROVE  [Lifecycle!LifecycleNext]_(Lifecycle!lifecycleVars)
<1>0. Typed
  BY InvIsParts
<1>1. CASE UNCHANGED vars
  BY <1>1 DEF vars, Lifecycle!lifecycleVars, Stage
<1>2. ASSUME NEW p \in Procs, Call(p) \/ Step(p)
      PROVE  [Lifecycle!LifecycleNext]_(Lifecycle!lifecycleVars)
  <2>1. CASE ~ClientStep(p)
    BY <1>0, <1>2, <2>1, QuietSteps DEF Lifecycle!lifecycleVars, Stage
  <2>2. CASE ClientStep(p)
    <3>1. RegisterStep(p) \/ RemoveStep(p) \/ RunStep(p)
      BY <2>2 DEF ClientStep, RegisterStep, RemoveStep, RunStep
    <3>2. QED
      BY <2>2, <3>1, RegisterRefines, RemoveRefines, RunRefines
  <2>3. QED
    BY <2>1, <2>2
<1>3. QED
  BY <1>1, <1>2 DEF Next

\* The locks, the wait groups and the two looks at the map amount to the
\* atomic steps SourceLifecycle promises.
THEOREM DirectoryImplementsLifecycle == Spec => ImplementsLifecycle
BY InitRefines, StepRefines, Invariant, PTL
   DEF Spec, ImplementsLifecycle, Lifecycle!LifecycleSpec
============================================================================
