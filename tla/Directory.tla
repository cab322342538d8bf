----------------------------- MODULE Directory -----------------------------
(***************************************************************************)
(* internal/store/directory.go with the driver registry behind it and the  *)
(* Adapter entry points in front of it.  Every goroutine is a process with *)
(* a program counter; a step is one critical section under Directory.mu,   *)
(* one driver or client call made outside it, one wait, or one observer    *)
(* callback.  A critical section that ends in beginLifecycleNotification   *)
(* keeps mu until observerMu is its own, so it is two steps.               *)
(*                                                                         *)
(* A client and the directoryEntry that wraps it are one element of Ids:   *)
(* the pointer that register returns and that Source captures.             *)
(* The function a Run executes is the stay at pc "using"; Executor.tla     *)
(* opens that step up.                                                     *)
(***************************************************************************)
EXTENDS Naturals, Integers, Sequences, FiniteSets

CONSTANTS
    Procs,      \* goroutines; each makes one call at a time
    Names,      \* source names; "" is rejected before any state is read
    Ids,        \* identities of opened clients; bounds the successful opens
    Drivers,    \* driver names a configuration may ask for
    None,       \* no holder, no entry, no name
    MayCall     \* MayCall[p]: the operations goroutine p calls

Operations == {"registerDriver", "open", "configure", "remove", "close",
               "run", "newSource", "sourceRun"}

ASSUME NoneAssumption == None \notin Ids /\ None \notin Procs /\ None \notin Names
ASSUME MayCallAssumption == MayCall \in [Procs -> SUBSET Operations]

VARIABLES
    mu,         \* holder of Directory.mu between two steps, or None
    observerMu, \* holder of Directory.observerMu, or None
    entries,    \* entries[n]: the registered source, or None
    closed,     \* Directory.closed
    openings,   \* goroutines counted by Directory.openings
    wg,         \* wg[c]: goroutines counted by that entry's wg
    builders,   \* DriverRegistry.builders
    frozen,     \* DriverRegistry.frozen
    clients,    \* the clients drivers have handed out
    closes,     \* closes[c]: how often Close was called on client c
    leaked,     \* clients whose last reference a panicking driver unwound
    gauge,      \* gauge[n]: registered minus removed callbacks seen for n
    down,       \* some RemoveAll has returned
    pc,         \* next step of each goroutine
    op,         \* the public call it is inside
    name,       \* register's, removeEntry's and Run's name
    held,       \* the client or entry in a local variable
    todo,       \* Configure: names of cfg.Sources still to open
    opened,     \* Configure: what this call opened, oldest first
    undone,     \* Configure: how many of them rollback has walked over
    toNotify,   \* names whose removal is still to be announced
    toDrain,    \* detached entries still to be drained and closed
    source      \* the Source value built last: its name and entry

locks == <<mu, observerMu>>
directory == <<entries, closed, openings, wg>>
registry == <<builders, frozen>>
clientVars == <<clients, closes, leaked>>
ghosts == <<gauge, down>>
configuring == <<todo, opened, undone>>
call == <<op, name, held, configuring>>
detached == <<toNotify, toDrain>>
vars == <<locks, directory, registry, clientVars, ghosts, pc, call, detached, source>>

\* What Configure remembers of a source it opened.
OpenedSource == [name : Names, entry : Ids]

RegisterLabels == {"register", "driverOpen", "applyPool", "publish", "discard",
                   "reserveRegistered", "notifyRegistered", "registered"}
RemoveLabels == {"remove", "reserveRemoved", "notifyRemoved", "drain", "waitDrained",
                 "closeClient", "removed"}
Labels == {"idle", "configure", "rollback", "configureError", "removeAll", "awaitOpenings",
           "acquire", "using"} \cup RegisterLabels \cup RemoveLabels

TypeOK ==
    /\ mu \in Procs \cup {None}
    /\ observerMu \in Procs \cup {None}
    /\ entries \in [Names -> Ids \cup {None}]
    /\ closed \in BOOLEAN
    /\ openings \in SUBSET Procs
    /\ wg \in [Ids -> SUBSET Procs]
    /\ builders \in SUBSET Drivers
    /\ frozen \in BOOLEAN
    /\ clients \in SUBSET Ids
    /\ closes \in [Ids -> Nat]
    /\ leaked \in SUBSET Ids
    /\ gauge \in [Names -> Int]
    /\ down \in BOOLEAN
    /\ pc \in [Procs -> Labels]
    /\ op \in [Procs -> Operations \cup {None}]
    /\ name \in [Procs -> Names \cup {None}]
    /\ held \in [Procs -> Ids \cup {None}]
    /\ todo \in [Procs -> SUBSET Names]
    /\ opened \in [Procs -> Seq(OpenedSource)]
    /\ undone \in [Procs -> Nat]
    /\ toNotify \in [Procs -> SUBSET Names]
    /\ toDrain \in [Procs -> SUBSET Ids]
    /\ source \in [Procs -> [name : Names \cup {None}, entry : Ids \cup {None}]]

Init ==
    /\ mu = None
    /\ observerMu = None
    /\ entries = [n \in Names |-> None]
    /\ closed = FALSE
    /\ openings = {}
    /\ wg = [c \in Ids |-> {}]
    /\ builders = {}
    /\ frozen = FALSE
    /\ clients = {}
    /\ closes = [c \in Ids |-> 0]
    /\ leaked = {}
    /\ gauge = [n \in Names |-> 0]
    /\ down = FALSE
    /\ pc = [p \in Procs |-> "idle"]
    /\ op = [p \in Procs |-> None]
    /\ name = [p \in Procs |-> None]
    /\ held = [p \in Procs |-> None]
    /\ todo = [p \in Procs |-> {}]
    /\ opened = [p \in Procs |-> <<>>]
    /\ undone = [p \in Procs |-> 0]
    /\ toNotify = [p \in Procs |-> {}]
    /\ toDrain = [p \in Procs |-> {}]
    /\ source = [p \in Procs |-> [name |-> None, entry |-> None]]

----------------------------------------------------------------------------
(* Helpers.                                                                *)

At(p, label) == pc[p] = label

Goto(p, label) == pc' = [pc EXCEPT ![p] = label]

\* A critical section that mu is free for; sections without a reservation
\* lock and unlock within the step.
Locked(p, label) == At(p, label) /\ mu = None

Registered == {n \in Names : entries[n] # None}

\* The public call returns and its locals are gone.
Return(p) ==
    /\ Goto(p, "idle")
    /\ op' = [op EXCEPT ![p] = None]
    /\ name' = [name EXCEPT ![p] = None]
    /\ held' = [held EXCEPT ![p] = None]
    /\ todo' = [todo EXCEPT ![p] = {}]
    /\ opened' = [opened EXCEPT ![p] = <<>>]
    /\ undone' = [undone EXCEPT ![p] = 0]

----------------------------------------------------------------------------
(* Calls.                                                                  *)

\* Adapter.RegisterDriver: a frozen registry and a duplicate name panic and
\* change nothing.
RegisterDriver(p, d) ==
    /\ At(p, "idle") /\ "registerDriver" \in MayCall[p]
    /\ ~frozen
    /\ d \notin builders
    /\ builders' = builders \cup {d}
    /\ UNCHANGED <<locks, directory, frozen, clientVars, ghosts, pc, call, detached,
                   source>>

\* Open, Remove, Executor.Run and Source.Run are called with a name; a
\* Source brings the name it was built with.
CallNamed(p, o, label, n) ==
    /\ At(p, "idle") /\ o \in MayCall[p]
    /\ o = "sourceRun" => n = source[p].name
    /\ Goto(p, label)
    /\ op' = [op EXCEPT ![p] = o]
    /\ name' = [name EXCEPT ![p] = n]
    /\ UNCHANGED <<locks, directory, registry, clientVars, ghosts, held, configuring,
                   detached, source>>

\* Adapter.Configure with the sources S of its config.
CallConfigure(p, S) ==
    /\ At(p, "idle") /\ "configure" \in MayCall[p]
    /\ Goto(p, "configure")
    /\ op' = [op EXCEPT ![p] = "configure"]
    /\ todo' = [todo EXCEPT ![p] = S]
    /\ UNCHANGED <<locks, directory, registry, clientVars, ghosts, name, held, opened,
                   undone, detached, source>>

\* Adapter.Close.
CallClose(p) ==
    /\ At(p, "idle") /\ "close" \in MayCall[p]
    /\ Goto(p, "removeAll")
    /\ op' = [op EXCEPT ![p] = "close"]
    /\ UNCHANGED <<locks, directory, registry, clientVars, ghosts, name, held,
                   configuring, detached, source>>

\* NewSource captures the entry the name stands for now, which may be none.
NewSource(p, n) ==
    /\ At(p, "idle") /\ "newSource" \in MayCall[p]
    /\ mu = None
    /\ source' = [source EXCEPT ![p] = [name |-> n, entry |-> entries[n]]]
    /\ UNCHANGED <<locks, directory, registry, clientVars, ghosts, pc, call, detached>>

Call(p) ==
    \/ \E d \in Drivers : RegisterDriver(p, d)
    \/ \E n \in Names :
          \/ CallNamed(p, "open", "register", n)
          \/ CallNamed(p, "remove", "remove", n)
          \/ CallNamed(p, "run", "acquire", n)
          \/ CallNamed(p, "sourceRun", "acquire", n)
          \/ NewSource(p, n)
    \/ \E S \in SUBSET Names : CallConfigure(p, S)
    \/ CallClose(p)

----------------------------------------------------------------------------
(* register.                                                               *)

\* register gives up before its openings.Add: Open returns the error, and
\* Configure starts to roll back.
RegisterFailed(p) ==
    IF op[p] = "configure"
    THEN Goto(p, "rollback") /\ UNCHANGED call
    ELSE Return(p)

\* Mutation: register without driver.Freeze.
RegisterAdmitUnfrozen(p) ==
    /\ Locked(p, "register")
    /\ ~closed /\ entries[name[p]] = None
    /\ openings' = openings \cup {p}
    /\ Goto(p, "driverOpen")
    /\ UNCHANGED <<locks, entries, closed, wg, registry, clientVars, ghosts, call, detached,
                   source>>

\* The first critical section: refuse a closed directory or a taken name,
\* freeze the drivers, count the opening.
RegisterAdmit(p) ==
    /\ Locked(p, "register")
    /\ IF closed \/ entries[name[p]] # None
       THEN RegisterFailed(p) /\ UNCHANGED <<openings, frozen>>
       ELSE /\ frozen' = TRUE
            /\ openings' = openings \cup {p}
            /\ Goto(p, "driverOpen")
            /\ UNCHANGED call
    /\ UNCHANGED <<locks, entries, closed, wg, builders, clientVars, ghosts, detached,
                   source>>

\* DriverRegistry.open: the driver's Open hands out a fresh client.
DriverOpens(p, c) ==
    /\ At(p, "driverOpen")
    /\ builders # {}
    /\ c \notin clients
    /\ clients' = clients \cup {c}
    /\ held' = [held EXCEPT ![p] = c]
    /\ Goto(p, "applyPool")
    /\ UNCHANGED <<locks, directory, registry, closes, leaked, ghosts, op, name,
                   configuring, detached, source>>

\* An unknown driver, or the driver's own error.
DriverFails(p) ==
    /\ At(p, "driverOpen")
    /\ Goto(p, "registered")
    /\ UNCHANGED <<locks, directory, registry, clientVars, ghosts, call, detached, source>>

\* An Open that panics unwinds register, whose openings.Done is deferred,
\* and Configure, which has no deferred rollback.
DriverPanics(p) ==
    /\ At(p, "driverOpen")
    /\ openings' = openings \ {p}
    /\ Return(p)
    /\ UNCHANGED <<locks, entries, closed, wg, registry, clientVars, ghosts, detached,
                   source>>

\* The driver's ApplyPoolConfig, if it has one, returns.
PoolApplied(p) ==
    /\ At(p, "applyPool")
    /\ Goto(p, "publish")
    /\ UNCHANGED <<locks, directory, registry, clientVars, ghosts, call, detached, source>>

\* An ApplyPoolConfig that panics unwinds the same frames, none of which
\* closes the client Open has just handed out.
PoolPanics(p) ==
    /\ At(p, "applyPool")
    /\ leaked' = leaked \cup {held[p]}
    /\ openings' = openings \ {p}
    /\ Return(p)
    /\ UNCHANGED <<locks, entries, closed, wg, registry, clients, closes, ghosts, detached,
                   source>>

PublishedUnder(p) ==
    /\ entries' = [entries EXCEPT ![name[p]] = held[p]]
    /\ Goto(p, "reserveRegistered")
    /\ UNCHANGED <<observerMu, closed, openings, wg, registry, clientVars, ghosts, call,
                   detached, source>>

\* Mutation: closed is not looked at again.
PublishAfterClose(p) ==
    /\ Locked(p, "publish")
    /\ entries[name[p]] = None
    /\ mu' = p
    /\ PublishedUnder(p)

\* Mutation: the name is not looked at again.
PublishOver(p) ==
    /\ Locked(p, "publish")
    /\ ~closed
    /\ mu' = p
    /\ PublishedUnder(p)

\* Mutation: mu is let go before the callback slot is reserved.
PublishUnordered(p) ==
    /\ Locked(p, "publish")
    /\ ~closed /\ entries[name[p]] = None
    /\ mu' = None
    /\ PublishedUnder(p)

\* Mutation: the client of a register that lost the race is dropped unclosed.
PublishLeaks(p) ==
    /\ Locked(p, "publish")
    /\ closed \/ entries[name[p]] # None
    /\ held' = [held EXCEPT ![p] = None]
    /\ Goto(p, "registered")
    /\ UNCHANGED <<locks, directory, registry, clientVars, ghosts, op, name, configuring,
                   detached, source>>

\* The second critical section: closed and the name are looked at again, and
\* the entry is published with mu kept for the reservation.
Publish(p) ==
    /\ Locked(p, "publish")
    /\ IF closed \/ entries[name[p]] # None
       THEN Goto(p, "discard") /\ UNCHANGED <<mu, entries>>
       ELSE /\ entries' = [entries EXCEPT ![name[p]] = held[p]]
            /\ mu' = p
            /\ Goto(p, "reserveRegistered")
    /\ UNCHANGED <<observerMu, closed, openings, wg, registry, clientVars, ghosts, call,
                   detached, source>>

\* The client nobody will see is closed by the register that opened it.
DiscardClient(p) ==
    /\ At(p, "discard")
    /\ closes' = [closes EXCEPT ![held[p]] = @ + 1]
    /\ held' = [held EXCEPT ![p] = None]
    /\ Goto(p, "registered")
    /\ UNCHANGED <<locks, directory, registry, clients, leaked, ghosts, op, name,
                   configuring, detached, source>>

\* beginLifecycleNotification: take observerMu, then let mu go.
Reserve(p, from, to) ==
    /\ At(p, from)
    /\ observerMu = None
    /\ observerMu' = p
    /\ mu' = None
    /\ Goto(p, to)
    /\ UNCHANGED <<directory, registry, clientVars, ghosts, call, detached, source>>

\* ObserveSourceRegistered, then the deferred observerMu.Unlock.
NotifyRegistered(p) ==
    /\ At(p, "notifyRegistered")
    /\ gauge' = [gauge EXCEPT ![name[p]] = @ + 1]
    /\ observerMu' = None
    /\ Goto(p, "registered")
    /\ UNCHANGED <<mu, directory, registry, clientVars, down, call, detached, source>>

\* The deferred openings.Done, and register returns its entry or an error.
RegisterReturns(p) ==
    /\ At(p, "registered")
    /\ openings' = openings \ {p}
    /\ IF held[p] = None THEN RegisterFailed(p)
       ELSE IF op[p] = "configure"
       THEN /\ opened' = [opened EXCEPT ![p] =
                            Append(@, [name |-> name[p], entry |-> held[p]])]
            /\ held' = [held EXCEPT ![p] = None]
            /\ Goto(p, "configure")
            /\ UNCHANGED <<op, name, todo, undone>>
       ELSE Return(p)
    /\ UNCHANGED <<locks, entries, closed, wg, registry, clientVars, ghosts, detached,
                   source>>

----------------------------------------------------------------------------
(* Adapter.Configure.                                                      *)

\* The range over cfg.Sources picks any remaining name.
ConfigureNext(p, n) ==
    /\ At(p, "configure")
    /\ n \in todo[p]
    /\ todo' = [todo EXCEPT ![p] = @ \ {n}]
    /\ name' = [name EXCEPT ![p] = n]
    /\ Goto(p, "register")
    /\ UNCHANGED <<locks, directory, registry, clientVars, ghosts, op, held, opened,
                   undone, detached, source>>

ConfigureSucceeds(p) ==
    /\ At(p, "configure")
    /\ todo[p] = {}
    /\ Return(p)
    /\ UNCHANGED <<locks, directory, registry, clientVars, ghosts, detached, source>>

\* removeEntry for the next source this call opened, by name and identity.
RollbackNext(p) ==
    /\ At(p, "rollback")
    /\ undone[p] < Len(opened[p])
    /\ undone' = [undone EXCEPT ![p] = @ + 1]
    /\ name' = [name EXCEPT ![p] = opened[p][undone[p] + 1].name]
    /\ Goto(p, "remove")
    /\ UNCHANGED <<locks, directory, registry, clientVars, ghosts, op, held, todo,
                   opened, detached, source>>

\* Mutation: rollback stops before the newest source.
RollbackEndsEarly(p) ==
    /\ At(p, "rollback")
    /\ undone[p] + 1 >= Len(opened[p])
    /\ Goto(p, "configureError")
    /\ UNCHANGED <<locks, directory, registry, clientVars, ghosts, call, detached, source>>

RollbackEnds(p) ==
    /\ At(p, "rollback")
    /\ undone[p] = Len(opened[p])
    /\ Goto(p, "configureError")
    /\ UNCHANGED <<locks, directory, registry, clientVars, ghosts, call, detached, source>>

\* Configure returns the error of the Open that failed.
ConfigureFails(p) ==
    /\ At(p, "configureError")
    /\ Return(p)
    /\ UNCHANGED <<locks, directory, registry, clientVars, ghosts, detached, source>>

----------------------------------------------------------------------------
(* removeEntry and RemoveAll.                                              *)

\* Mutation: rollback removes whatever has the name.
RemoveMatchesName(p) == entries[name[p]] # None

\* A public Remove takes whatever has the name; rollback takes only the
\* entry it opened itself.
RemoveMatches(p) ==
    /\ entries[name[p]] # None
    /\ op[p] = "configure" => entries[name[p]] = opened[p][undone[p]].entry

\* Mutation: the entry stays in the map.
DetachKeepsEntry(p) ==
    /\ Locked(p, "remove")
    /\ RemoveMatches(p)
    /\ toNotify' = [toNotify EXCEPT ![p] = {name[p]}]
    /\ toDrain' = [toDrain EXCEPT ![p] = {entries[name[p]]}]
    /\ mu' = p
    /\ Goto(p, "reserveRemoved")
    /\ UNCHANGED <<observerMu, directory, registry, clientVars, ghosts, call, source>>

Detach(p) ==
    /\ Locked(p, "remove")
    /\ IF RemoveMatches(p)
       THEN /\ entries' = [entries EXCEPT ![name[p]] = None]
            /\ toNotify' = [toNotify EXCEPT ![p] = {name[p]}]
            /\ toDrain' = [toDrain EXCEPT ![p] = {entries[name[p]]}]
            /\ mu' = p
            /\ Goto(p, "reserveRemoved")
       ELSE Goto(p, "removed") /\ UNCHANGED <<mu, entries, detached>>
    /\ UNCHANGED <<observerMu, closed, openings, wg, registry, clientVars, ghosts, call,
                   source>>

\* Mutation: a missing entry is drained like any other.
DetachAllBlindly(p) ==
    /\ Locked(p, "removeAll")
    /\ closed' = TRUE
    /\ entries' = [n \in Names |-> None]
    /\ toNotify' = [toNotify EXCEPT ![p] = Registered]
    /\ toDrain' = [toDrain EXCEPT ![p] = {entries[n] : n \in Names}]
    /\ mu' = p
    /\ Goto(p, "reserveRemoved")
    /\ UNCHANGED <<observerMu, openings, wg, registry, clientVars, ghosts, call, source>>

\* RemoveAll's critical section: close for good and swap the map out.
DetachAll(p) ==
    /\ Locked(p, "removeAll")
    /\ closed' = TRUE
    /\ entries' = [n \in Names |-> None]
    /\ toNotify' = [toNotify EXCEPT ![p] = Registered]
    /\ toDrain' = [toDrain EXCEPT ![p] = {entries[n] : n \in Registered}]
    /\ mu' = p
    /\ Goto(p, "reserveRemoved")
    /\ UNCHANGED <<observerMu, openings, wg, registry, clientVars, ghosts, call, source>>

\* ObserveSourceRemoved for one more name.
NotifyRemoved(p, n) ==
    /\ At(p, "notifyRemoved")
    /\ n \in toNotify[p]
    /\ gauge' = [gauge EXCEPT ![n] = @ - 1]
    /\ toNotify' = [toNotify EXCEPT ![p] = @ \ {n}]
    /\ UNCHANGED <<locks, directory, registry, clientVars, down, pc, call, toDrain, source>>

\* Mutation: observerMu is not unlocked.
NotifyDoneLocked(p) ==
    /\ At(p, "notifyRemoved")
    /\ toNotify[p] = {}
    /\ Goto(p, "drain")
    /\ UNCHANGED <<locks, directory, registry, clientVars, ghosts, call, detached, source>>

\* notifyRemoved's deferred observerMu.Unlock.
NotifyDone(p) ==
    /\ At(p, "notifyRemoved")
    /\ toNotify[p] = {}
    /\ observerMu' = None
    /\ Goto(p, "drain")
    /\ UNCHANGED <<mu, directory, registry, clientVars, ghosts, call, detached, source>>

\* The loop over the detached entries takes them one at a time, in any order.
DrainNext(p, c) ==
    /\ At(p, "drain")
    /\ c \in toDrain[p]
    /\ held' = [held EXCEPT ![p] = c]
    /\ Goto(p, "waitDrained")
    /\ UNCHANGED <<locks, directory, registry, clientVars, ghosts, op, name, configuring,
                   detached, source>>

\* Mutation: the client is closed without waiting.
WaitDrainedNot(p) ==
    /\ At(p, "waitDrained")
    /\ Goto(p, "closeClient")
    /\ UNCHANGED <<locks, directory, registry, clientVars, ghosts, call, detached, source>>

\* entry.wg.Wait.
WaitDrained(p) ==
    /\ At(p, "waitDrained")
    /\ wg[held[p]] = {}
    /\ Goto(p, "closeClient")
    /\ UNCHANGED <<locks, directory, registry, clientVars, ghosts, call, detached, source>>

CloseClient(p) ==
    /\ At(p, "closeClient")
    /\ closes' = [closes EXCEPT ![held[p]] = @ + 1]
    /\ toDrain' = [toDrain EXCEPT ![p] = @ \ {held[p]}]
    /\ held' = [held EXCEPT ![p] = None]
    /\ Goto(p, "drain")
    /\ UNCHANGED <<locks, directory, registry, clients, leaked, ghosts, op, name,
                   configuring, toNotify, source>>

DrainDone(p) ==
    /\ At(p, "drain")
    /\ toDrain[p] = {}
    /\ Goto(p, IF op[p] = "close" THEN "awaitOpenings" ELSE "removed")
    /\ UNCHANGED <<locks, directory, registry, clientVars, ghosts, call, detached, source>>

\* removeEntry returns to Remove's caller or to the rollback loop.
RemoveReturns(p) ==
    /\ At(p, "removed")
    /\ IF op[p] = "configure"
       THEN Goto(p, "rollback") /\ UNCHANGED call
       ELSE Return(p)
    /\ UNCHANGED <<locks, directory, registry, clientVars, ghosts, detached, source>>

\* Mutation: RemoveAll does not wait for openings.
AwaitOpeningsNot(p) ==
    /\ At(p, "awaitOpenings")
    /\ down' = TRUE
    /\ Return(p)
    /\ UNCHANGED <<locks, directory, registry, clientVars, gauge, detached, source>>

\* openings.Wait, and RemoveAll returns.
AwaitOpenings(p) ==
    /\ At(p, "awaitOpenings")
    /\ openings = {}
    /\ down' = TRUE
    /\ Return(p)
    /\ UNCHANGED <<locks, directory, registry, clientVars, gauge, detached, source>>

----------------------------------------------------------------------------
(* acquire, acquireSource and release.                                     *)

\* Mutation: a Source falls back to the live name.
AcquireMatchesName(p) == entries[name[p]] # None

\* Executor.Run looks the name up; Source.Run insists on the entry it has.
AcquireMatches(p) ==
    /\ entries[name[p]] # None
    /\ op[p] = "sourceRun" => entries[name[p]] = source[p].entry

Acquire(p) ==
    /\ Locked(p, "acquire")
    /\ IF AcquireMatches(p)
       THEN /\ wg' = [wg EXCEPT ![entries[name[p]]] = @ \cup {p}]
            /\ held' = [held EXCEPT ![p] = entries[name[p]]]
            /\ Goto(p, "using")
            /\ UNCHANGED <<op, name, configuring>>
       ELSE Return(p) /\ UNCHANGED wg
    /\ UNCHANGED <<locks, entries, closed, openings, registry, clientVars, ghosts,
                   detached, source>>

Release(p) ==
    /\ At(p, "using")
    /\ wg' = [wg EXCEPT ![held[p]] = @ \ {p}]
    /\ Return(p)
    /\ UNCHANGED <<locks, entries, closed, openings, registry, clientVars, ghosts,
                   detached, source>>

----------------------------------------------------------------------------

RegisterStep(p) ==
    \/ RegisterAdmit(p)
    \/ \E c \in Ids : DriverOpens(p, c)
    \/ DriverFails(p)
    \/ DriverPanics(p)
    \/ PoolApplied(p)
    \/ PoolPanics(p)
    \/ Publish(p)
    \/ DiscardClient(p)
    \/ Reserve(p, "reserveRegistered", "notifyRegistered")
    \/ NotifyRegistered(p)
    \/ RegisterReturns(p)

ConfigureStep(p) ==
    \/ \E n \in Names : ConfigureNext(p, n)
    \/ ConfigureSucceeds(p)
    \/ RollbackNext(p)
    \/ RollbackEnds(p)
    \/ ConfigureFails(p)

RemoveStep(p) ==
    \/ Detach(p)
    \/ DetachAll(p)
    \/ Reserve(p, "reserveRemoved", "notifyRemoved")
    \/ \E n \in Names : NotifyRemoved(p, n)
    \/ NotifyDone(p)
    \/ \E c \in Ids : DrainNext(p, c)
    \/ WaitDrained(p)
    \/ CloseClient(p)
    \/ DrainDone(p)
    \/ RemoveReturns(p)
    \/ AwaitOpenings(p)

RunStep(p) == Acquire(p) \/ Release(p)

Step(p) == RegisterStep(p) \/ ConfigureStep(p) \/ RemoveStep(p) \/ RunStep(p)

Next == \E p \in Procs : Call(p) \/ Step(p)

Spec == Init /\ [][Next]_vars

(* Every goroutine in a call keeps running: drivers and observer callbacks *)
(* return, and so do the functions given to Run.  The only steps another   *)
(* goroutine can disable while p waits for them are the sections under mu; *)
(* a sync.Mutex hands itself to a waiter that has starved for a            *)
(* millisecond, so p enters a section that is free again and again.        *)
Fairness == \A p \in Procs : SF_vars(Step(p))

FairSpec == Spec /\ Fairness

----------------------------------------------------------------------------
(* Properties.                                                             *)

\* While a goroutine is counted in an entry's wg, between acquire and
\* release, nobody has closed that entry's client (directory.go:180-181).
NoUseAfterClose == \A c \in Ids : wg[c] # {} => closes[c] = 0

\* Remove, RemoveAll, rollback and the discard in register compete for a
\* client, and it is closed by at most one of them.
ClosedAtMostOnce == \A c \in Ids : closes[c] <= 1

\* The goroutine p must still close client c: it opened c and has not
\* published it, or it detached c.
Owns(p, c) ==
    \/ pc[p] \in {"applyPool", "publish", "discard"} /\ held[p] = c
    \/ c \in toDrain[p]

\* A client a driver handed out is forgotten in one way only, by a panic of
\* that driver's ApplyPoolConfig (driver.go:69): any other client is
\* registered, or some goroutine still has to publish or close it, or it is
\* closed.
NoClientLost ==
    \A c \in clients \ leaked : closes[c] = 0 =>
        \/ \E n \in Names : entries[n] = c
        \/ \E p \in Procs : Owns(p, c)

\* Once closed is set no register that was opening all along gets its source
\* into the map (the recheck at directory.go:103).
NothingPublishedAfterClose == closed => Registered = {}

\* When a RemoveAll has returned, every opening is over and the only clients
\* still open are those another Remove or rollback had detached before and
\* those a panicking ApplyPoolConfig leaked.
CleanShutdown ==
    down => /\ openings = {}
            /\ \A c \in clients \ leaked :
                   closes[c] = 0 => \E p \in Procs : c \in toDrain[p]

\* Callbacks follow the mutations: the observer never sees a source
\* registered twice or removed before it was registered, and whenever no
\* mutation is waiting to be announced it knows exactly what is registered.
ObserverInStep ==
    \A n \in Names :
        /\ gauge[n] \in 0..1
        /\ mu = None /\ observerMu = None =>
               gauge[n] = IF n \in Registered THEN 1 ELSE 0

\* The sources this Configure has opened so far.
OpenedBy(p) == {opened[p][i].entry : i \in 1..Len(opened[p])}

\* When Configure returns an error none of the sources it opened is in the
\* directory, and each is closed or being drained by a concurrent removal.
RolledBack ==
    \A p \in Procs : At(p, "configureError") =>
        \A c \in OpenedBy(p) :
            /\ \A n \in Names : entries[n] # c
            /\ closes[c] = 1 \/ \E q \in Procs \ {p} : c \in toDrain[q]

\* A rollback removes nothing but sources its own Configure opened, even
\* when the name was removed and opened again behind its back.
RollbackSparesOthers ==
    [][\A p \in Procs, n \in Names :
          At(p, "remove") /\ pc'[p] = "reserveRemoved" /\ op[p] = "configure" =>
              entries'[n] = entries[n] \/ entries[n] \in OpenedBy(p)]_vars

\* A function run through a Source is handed the client that was registered
\* when the Source was built, never a later one of the same name.
SourceNeverRetargets ==
    \A p \in Procs :
        At(p, "using") /\ op[p] = "sourceRun" => held[p] = source[p].entry

\* The drivers an opening may look up do not change while it is under way.
DriversFixedWhileOpening == [][openings # {} => builders' = builders]_vars

\* "Close waits for in-flight Runs" (adapter.go:132, README "Terminal
\* close"): once a Close has returned no Run is under way.
CloseWaitsForRuns == down => \A c \in Ids : wg[c] = {}

\* Every call returns: no lock order, wait group or rollback loop leaves a
\* goroutine stuck.
CallsReturn == \A p \in Procs : ~At(p, "idle") ~> At(p, "idle")

\* A closed directory ends up with every client closed that no panicking
\* ApplyPoolConfig leaked.
ClosedDirectoryIsDrained ==
    closed ~> (\A c \in clients \ leaked : closes[c] = 1)

----------------------------------------------------------------------------
(* The inductive invariant behind these properties, in parts.              *)

\* The locals a label reads have been set.
LocalsOK ==
    \A p \in Procs :
        /\ pc[p] \in RegisterLabels \cup {"remove", "acquire", "using"} => name[p] \in Names
        /\ pc[p] \in {"applyPool", "publish", "discard", "waitDrained", "closeClient",
                       "using"} => held[p] \in Ids

\* A registered entry is an open client nobody owns, under one name.
RegisteredIsOpen ==
    \A n \in Names : entries[n] # None =>
        /\ entries[n] \in clients
        /\ closes[entries[n]] = 0
        /\ \A m \in Names : entries[m] = entries[n] => m = n
        /\ \A p \in Procs : ~Owns(p, entries[n])

\* An owned client is open, and one goroutine owns it in one way.
OwnedIsOpen ==
    \A p \in Procs, c \in Ids : Owns(p, c) =>
        /\ c \in clients
        /\ closes[c] = 0
        /\ \A q \in Procs : Owns(q, c) => q = p

\* Detached entries are drained by the goroutine that detached them, which
\* waits for the one it is about to close.
DrainInProgress ==
    \A p \in Procs :
        /\ toDrain[p] # {} => pc[p] \in {"reserveRemoved", "notifyRemoved", "drain",
                                         "waitDrained", "closeClient"}
        /\ pc[p] \in {"waitDrained", "closeClient"} => held[p] \in toDrain[p]
        /\ pc[p] = "closeClient" => wg[held[p]] = {}

\* A wait group counts exactly the goroutines between acquire and release,
\* and only for an entry that is registered or still to be closed.
UsersAreInside ==
    \A c \in Ids :
        /\ \A p \in wg[c] : pc[p] = "using" /\ held[p] = c
        /\ wg[c] # {} => (\E n \in Names : entries[n] = c) \/ (\E p \in Procs : c \in toDrain[p])

\* openings counts exactly the registers between Add and Done.
OpeningsCounted ==
    \A p \in Procs : p \in openings <=> pc[p] \in RegisterLabels \ {"register"}

\* Whoever detached entries for RemoveAll has closed the directory.
ClosingIsClosed ==
    \A p \in Procs :
        /\ pc[p] = "rollback" => op[p] = "configure"
        /\ pc[p] = "remove" => op[p] \in {"remove", "configure"}
        /\ pc[p] = "awaitOpenings" => closed
        /\ op[p] = "close" /\ pc[p] \in {"reserveRemoved", "notifyRemoved", "drain",
                                         "waitDrained", "closeClient"} => closed

\* Unopened clients have not been closed.
Unopened == \A c \in Ids \ clients : closes[c] = 0

\* A leaked client stays open, and nobody is left who could reach it.
LeakedIsOpen ==
    \A c \in leaked :
        /\ c \in clients
        /\ closes[c] = 0
        /\ \A n \in Names : entries[n] # c
        /\ \A p \in Procs : ~Owns(p, c)

DirectoryInv ==
    /\ TypeOK
    /\ LocalsOK
    /\ RegisteredIsOpen
    /\ OwnedIsOpen
    /\ DrainInProgress
    /\ UsersAreInside
    /\ OpeningsCounted
    /\ ClosingIsClosed
    /\ Unopened
    /\ LeakedIsOpen
    /\ ClosedAtMostOnce
    /\ NoClientLost
    /\ NothingPublishedAfterClose
    /\ down => closed /\ openings = {}

\* The stage SourceLifecycle gives a client.
Stage == [c \in Ids |->
    IF c \notin clients THEN "none"
    ELSE IF closes[c] > 0 THEN "closed"
    ELSE IF \E n \in Names : entries[n] = c THEN "visible"
    ELSE IF \E p \in Procs : c \in toDrain[p] THEN "retired"
    ELSE "opened"]

Lifecycle == INSTANCE SourceLifecycle WITH
    stage <- Stage, reg <- entries, users <- wg, shut <- closed

\* The locks, the wait groups and the two looks at the map amount to the
\* atomic steps SourceLifecycle promises.
ImplementsLifecycle == Lifecycle!LifecycleSpec
============================================================================
