--------------------------- MODULE ObserverReentry ---------------------------
(***************************************************************************)
(* A Directory whose Observer breaks the rule of internal/store/observer.go*)
(* and calls Remove on the same Directory from a lifecycle callback.  The  *)
(* callback runs on the goroutine that delivers it, so the inner           *)
(* removeEntry meets the observerMu its own caller holds.                  *)
(***************************************************************************)
EXTENDS Directory

VARIABLE inner    \* inner[p]: where p's removeEntry inside a callback is

reentryVars == <<vars, inner>>

InCallback(p) == pc[p] \in {"notifyRegistered", "notifyRemoved"}

ReentryInit == Init /\ inner = [p \in Procs |-> "none"]

\* A callback calls Remove(n): with the name gone it returns an error, with
\* the name there it deletes the entry and, mu in hand, asks for observerMu.
ReenterRemove(p, n) ==
    /\ InCallback(p) /\ inner[p] = "none"
    /\ mu = None
    /\ entries[n] # None
    /\ entries' = [entries EXCEPT ![n] = None]
    /\ mu' = p
    /\ inner' = [inner EXCEPT ![p] = "reserveRemoved"]
    /\ UNCHANGED <<observerMu, closed, openings, wg, registry, clientVars, ghosts, pc, call,
                   detached, source>>

\* beginLifecycleNotification inside the callback: sync.Mutex.Lock waits for
\* an unlock whoever holds the lock.
ReenterReserve(p) ==
    /\ inner[p] = "reserveRemoved"
    /\ observerMu = None
    /\ observerMu' = p
    /\ mu' = None
    /\ inner' = [inner EXCEPT ![p] = "notifyRemoved"]
    /\ UNCHANGED <<directory, registry, clientVars, ghosts, pc, call, detached, source>>

\* Goroutines outside such a callback go on as before.
ReentryNext ==
    \E p \in Procs :
        \/ \E n \in Names : ReenterRemove(p, n)
        \/ ReenterReserve(p)
        \/ inner[p] = "none" /\ (Call(p) \/ Step(p)) /\ UNCHANGED inner

ReentrySpec == ReentryInit /\ [][ReentryNext]_reentryVars

----------------------------------------------------------------------------

\* README "Guarantees": a callback that reenters the Directory panics rather
\* than hangs.  A goroutine that waits for the lock it holds itself hangs.
ReentryNeverHangs ==
    \A p \in Procs : ~(inner[p] = "reserveRemoved" /\ observerMu = p)
============================================================================
