-------------------------- MODULE DirectoryProofs --------------------------
(***************************************************************************)
(* Proofs about Directory for every set of goroutines, names, clients and  *)
(* drivers and every assignment of calls to goroutines.                    *)
(***************************************************************************)
EXTENDS Directory, TLAPS

USE DEF At, Goto, Locked, locks, directory, registry, clientVars, ghosts, configuring, call,
        detached

\* The typing invariant that is inductive, in two halves: what goroutines
\* share, and the locals of each with the labels that read them.
SharedTyped ==
    /\ mu \in Procs \cup {None}
    /\ observerMu \in Procs \cup {None}
    /\ entries \in [Names -> Ids \cup {None}]
    /\ closed \in BOOLEAN
    /\ openings \in SUBSET Procs
    /\ wg \in [Ids -> SUBSET Procs]
    /\ builders \in SUBSET Drivers
    /\ frozen \in BOOLEAN
    /\ clients \in SUBSET Ids
    /\ closes \in [Ids -> Nat]
    /\ leaked \in SUBSET Ids
    /\ gauge \in [Names -> Int]
    /\ down \in BOOLEAN
    /\ toNotify \in [Procs -> SUBSET Names]
    /\ toDrain \in [Procs -> SUBSET Ids]
    /\ source \in [Procs -> [name : Names \cup {None}, entry : Ids \cup {None}]]

LocalTyped ==
    /\ pc \in [Procs -> Labels]
    /\ op \in [Procs -> Operations \cup {None}]
    /\ name \in [Procs -> Names \cup {None}]
    /\ held \in [Procs -> Ids \cup {None}]
    /\ todo \in [Procs -> SUBSET Names]
    /\ opened \in [Procs -> Seq(OpenedSource)]
    /\ undone \in [Procs -> Nat]
    /\ LocalsOK

Typed == SharedTyped /\ LocalTyped

LEMMA TypedIsTypeOK == Typed <=> TypeOK /\ LocalsOK
BY DEF Typed, SharedTyped, LocalTyped, TypeOK

LEMMA InitTyped == Init => Typed
<1> SUFFICES ASSUME Init PROVE Typed
  OBVIOUS
<1>1. opened \in [Procs -> Seq(OpenedSource)]
  <2>1. <<>> \in Seq(OpenedSource)
    OBVIOUS
  <2>2. QED
    BY <2>1 DEF Init
<1>2. source \in [Procs -> [name : Names \cup {None}, entry : Ids \cup {None}]]
  BY DEF Init
<1>3. pc \in [Procs -> Labels]
  BY DEF Init, Labels
<1>4. TypeOK
  <2>1. /\ mu \in Procs \cup {None}
        /\ observerMu \in Procs \cup {None}
        /\ entries \in [Names -> Ids \cup {None}]
        /\ closed \in BOOLEAN
        /\ openings \in SUBSET Procs
        /\ wg \in [Ids -> SUBSET Procs]
        /\ builders \in SUBSET Drivers
        /\ frozen \in BOOLEAN
        /\ clients \in SUBSET Ids
        /\ leaked \in SUBSET Ids
    BY DEF Init
  <2>2. /\ closes \in [Ids -> Nat]
        /\ gauge \in [Names -> Int]
        /\ down \in BOOLEAN
    <3>1. closes \in [Ids -> Nat]
      BY DEF Init
    <3>2. gauge \in [Names -> Int]
      BY DEF Init
    <3>3. down \in BOOLEAN
      BY DEF Init
    <3>4. QED
      BY <3>1, <3>2, <3>3
  <2>3. /\ op \in [Procs -> Operations \cup {None}]
        /\ name \in [Procs -> Names \cup {None}]
        /\ held \in [Procs -> Ids \cup {None}]
        /\ todo \in [Procs -> SUBSET Names]
        /\ undone \in [Procs -> Nat]
        /\ toNotify \in [Procs -> SUBSET Names]
        /\ toDrain \in [Procs -> SUBSET Ids]
    BY DEF Init
  <2>4. QED
    BY <1>1, <1>2, <1>3, <2>1, <2>2, <2>3 DEF TypeOK
<1>5. LocalsOK
  BY DEF Init, LocalsOK, RegisterLabels
<1>6. QED
  BY <1>4, <1>5, TypedIsTypeOK

\* A call that returns leaves well-typed locals.
LEMMA ReturnTyped == ASSUME NEW p \in Procs, LocalTyped, Return(p) PROVE LocalTyped'
<1>1. <<>> \in Seq(OpenedSource)
  OBVIOUS
<1>2. opened' \in [Procs -> Seq(OpenedSource)]
  BY <1>1 DEF LocalTyped, Return
<1>3. /\ pc' \in [Procs -> Labels]
      /\ op' \in [Procs -> Operations \cup {None}]
      /\ name' \in [Procs -> Names \cup {None}]
      /\ held' \in [Procs -> Ids \cup {None}]
  BY DEF LocalTyped, Return, Labels
<1>4. todo' \in [Procs -> SUBSET Names]
  BY DEF LocalTyped, Return
<1>5. undone' \in [Procs -> Nat]
  BY DEF LocalTyped, Return
<1>6. LocalsOK'
  BY DEF LocalTyped, Return, LocalsOK, RegisterLabels
<1>7. QED
  BY <1>2, <1>3, <1>4, <1>5, <1>6 DEF LocalTyped

\* So does a register that fails, which returns or starts to roll back.
LEMMA RegisterFailedTyped == ASSUME NEW p \in Procs, LocalTyped, RegisterFailed(p)
                             PROVE LocalTyped'
<1>1. CASE op[p] = "configure"
  BY <1>1 DEF RegisterFailed, LocalTyped, LocalsOK, Labels, RegisterLabels
<1>2. CASE op[p] # "configure"
  BY <1>2, ReturnTyped DEF RegisterFailed
<1>3. QED
  BY <1>1, <1>2

\* The calls a goroutine makes keep every variable in its type.
LEMMA CallTyped == ASSUME NEW p \in Procs, Typed, Call(p) PROVE Typed'
<1>0. SharedTyped /\ LocalTyped
  BY DEF Typed
<1>1. ASSUME NEW d \in Drivers, RegisterDriver(p, d) PROVE Typed'
  <2>1. SharedTyped'
    BY <1>0, <1>1 DEF RegisterDriver, LocalTyped, LocalsOK, RegisterLabels, SharedTyped
  <2>2. LocalTyped'
    BY <1>0, <1>1 DEF RegisterDriver, LocalTyped, LocalsOK, Labels, RegisterLabels,
       RemoveLabels, Operations
  <2>3. QED
    BY <2>1, <2>2 DEF Typed
<1>2. ASSUME NEW n \in Names, CallNamed(p, "open", "register", n) PROVE Typed'
  <2>1. SharedTyped'
    BY <1>0, <1>2 DEF CallNamed, LocalTyped, LocalsOK, RegisterLabels, SharedTyped
  <2>2. LocalTyped'
    BY <1>0, <1>2 DEF CallNamed, LocalTyped, LocalsOK, Labels, RegisterLabels,
       RemoveLabels, Operations
  <2>3. QED
    BY <2>1, <2>2 DEF Typed
<1>3. ASSUME NEW n \in Names, CallNamed(p, "remove", "remove", n) PROVE Typed'
  <2>1. SharedTyped'
    BY <1>0, <1>3 DEF CallNamed, LocalTyped, LocalsOK, RegisterLabels, SharedTyped
  <2>2. LocalTyped'
    BY <1>0, <1>3 DEF CallNamed, LocalTyped, LocalsOK, Labels, RegisterLabels,
       RemoveLabels, Operations
  <2>3. QED
    BY <2>1, <2>2 DEF Typed
<1>4. ASSUME NEW n \in Names, CallNamed(p, "run", "acquire", n) PROVE Typed'
  <2>1. SharedTyped'
    BY <1>0, <1>4 DEF CallNamed, LocalTyped, LocalsOK, RegisterLabels, SharedTyped
  <2>2. LocalTyped'
    BY <1>0, <1>4 DEF CallNamed, LocalTyped, LocalsOK, Labels, RegisterLabels,
       RemoveLabels, Operations
  <2>3. QED
    BY <2>1, <2>2 DEF Typed
<1>5. ASSUME NEW n \in Names, CallNamed(p, "sourceRun", "acquire", n) PROVE Typed'
  <2>1. SharedTyped'
    BY <1>0, <1>5 DEF CallNamed, LocalTyped, LocalsOK, RegisterLabels, SharedTyped
  <2>2. LocalTyped'
    BY <1>0, <1>5 DEF CallNamed, LocalTyped, LocalsOK, Labels, RegisterLabels,
       RemoveLabels, Operations
  <2>3. QED
    BY <2>1, <2>2 DEF Typed
<1>6. ASSUME NEW n \in Names, NewSource(p, n) PROVE Typed'
  <2>1. SharedTyped'
    BY <1>0, <1>6 DEF NewSource, LocalTyped, LocalsOK, RegisterLabels, SharedTyped
  <2>2. LocalTyped'
    BY <1>0, <1>6 DEF NewSource, LocalTyped, LocalsOK, Labels, RegisterLabels,
       RemoveLabels, Operations
  <2>3. QED
    BY <2>1, <2>2 DEF Typed
<1>7. ASSUME NEW S \in SUBSET Names, CallConfigure(p, S) PROVE Typed'
  <2>1. SharedTyped'
    BY <1>0, <1>7 DEF CallConfigure, LocalTyped, LocalsOK, RegisterLabels, SharedTyped
  <2>2. LocalTyped'
    BY <1>0, <1>7 DEF CallConfigure, LocalTyped, LocalsOK, Labels, RegisterLabels,
       RemoveLabels, Operations
  <2>3. QED
    BY <2>1, <2>2 DEF Typed
<1>8. ASSUME CallClose(p) PROVE Typed'
  <2>1. SharedTyped'
    BY <1>0, <1>8 DEF CallClose, LocalTyped, LocalsOK, RegisterLabels, SharedTyped
  <2>2. LocalTyped'
    BY <1>0, <1>8 DEF CallClose, LocalTyped, LocalsOK, Labels, RegisterLabels,
       RemoveLabels, Operations
  <2>3. QED
    BY <2>1, <2>2 DEF Typed
<1>9. QED
  BY <1>1, <1>2, <1>3, <1>4, <1>5, <1>6, <1>7, <1>8 DEF Call

\* So does every step of register.
LEMMA RegisterTyped == ASSUME NEW p \in Procs, Typed, RegisterStep(p) PROVE Typed'
<1>0. SharedTyped /\ LocalTyped
  BY DEF Typed
<1>1. ASSUME RegisterAdmit(p) PROVE Typed'
  <2>1. SharedTyped'
    BY <1>0, <1>1 DEF RegisterAdmit, LocalTyped, LocalsOK, RegisterLabels, SharedTyped
  <2>2. LocalTyped'
    BY <1>0, <1>1, RegisterFailedTyped DEF RegisterAdmit, LocalTyped, LocalsOK, Labels,
       RegisterLabels, RemoveLabels, Operations
  <2>3. QED
    BY <2>1, <2>2 DEF Typed
<1>2. ASSUME NEW c \in Ids, DriverOpens(p, c) PROVE Typed'
  <2>1. SharedTyped'
    BY <1>0, <1>2 DEF DriverOpens, LocalTyped, LocalsOK, RegisterLabels, SharedTyped
  <2>2. LocalTyped'
    BY <1>0, <1>2 DEF DriverOpens, LocalTyped, LocalsOK, Labels, RegisterLabels,
       RemoveLabels, Operations
  <2>3. QED
    BY <2>1, <2>2 DEF Typed
<1>3. ASSUME DriverFails(p) PROVE Typed'
  <2>1. SharedTyped'
    BY <1>0, <1>3 DEF DriverFails, LocalTyped, LocalsOK, RegisterLabels, SharedTyped
  <2>2. LocalTyped'
    BY <1>0, <1>3 DEF DriverFails, LocalTyped, LocalsOK, Labels, RegisterLabels,
       RemoveLabels, Operations
  <2>3. QED
    BY <2>1, <2>2 DEF Typed
<1>4. ASSUME DriverPanics(p) PROVE Typed'
  <2>1. SharedTyped'
    BY <1>0, <1>4 DEF DriverPanics, LocalTyped, LocalsOK, RegisterLabels, SharedTyped
  <2>2. LocalTyped'
    BY <1>0, <1>4, ReturnTyped DEF DriverPanics, LocalTyped, LocalsOK, Labels,
       RegisterLabels, RemoveLabels, Operations
  <2>3. QED
    BY <2>1, <2>2 DEF Typed
<1>5. ASSUME PoolApplied(p) PROVE Typed'
  <2>1. SharedTyped'
    BY <1>0, <1>5 DEF PoolApplied, LocalTyped, LocalsOK, RegisterLabels, SharedTyped
  <2>2. LocalTyped'
    BY <1>0, <1>5 DEF PoolApplied, LocalTyped, LocalsOK, Labels, RegisterLabels,
       RemoveLabels, Operations
  <2>3. QED
    BY <2>1, <2>2 DEF Typed
<1>6. ASSUME PoolPanics(p) PROVE Typed'
  <2>1. SharedTyped'
    BY <1>0, <1>6 DEF PoolPanics, LocalTyped, LocalsOK, RegisterLabels, SharedTyped
  <2>2. LocalTyped'
    BY <1>0, <1>6, ReturnTyped DEF PoolPanics, LocalTyped, LocalsOK, Labels,
       RegisterLabels, RemoveLabels, Operations
  <2>3. QED
    BY <2>1, <2>2 DEF Typed
<1>7. ASSUME Publish(p) PROVE Typed'
  <2>1. SharedTyped'
    BY <1>0, <1>7 DEF Publish, LocalTyped, LocalsOK, RegisterLabels, SharedTyped
  <2>2. LocalTyped'
    BY <1>0, <1>7 DEF Publish, LocalTyped, LocalsOK, Labels, RegisterLabels, RemoveLabels,
       Operations
  <2>3. QED
    BY <2>1, <2>2 DEF Typed
<1>8. ASSUME DiscardClient(p) PROVE Typed'
  <2>1. SharedTyped'
    BY <1>0, <1>8 DEF DiscardClient, LocalTyped, LocalsOK, RegisterLabels, SharedTyped
  <2>2. LocalTyped'
    BY <1>0, <1>8 DEF DiscardClient, LocalTyped, LocalsOK, Labels, RegisterLabels,
       RemoveLabels, Operations
  <2>3. QED
    BY <2>1, <2>2 DEF Typed
<1>9. ASSUME Reserve(p, "reserveRegistered", "notifyRegistered") PROVE Typed'
  <2>1. SharedTyped'
    BY <1>0, <1>9 DEF Reserve, LocalTyped, LocalsOK, RegisterLabels, SharedTyped
  <2>2. LocalTyped'
    BY <1>0, <1>9 DEF Reserve, LocalTyped, LocalsOK, Labels, RegisterLabels, RemoveLabels,
       Operations
  <2>3. QED
    BY <2>1, <2>2 DEF Typed
<1>10. ASSUME NotifyRegistered(p) PROVE Typed'
  <2>1. SharedTyped'
    BY <1>0, <1>10 DEF NotifyRegistered, LocalTyped, LocalsOK, RegisterLabels, SharedTyped
  <2>2. LocalTyped'
    BY <1>0, <1>10 DEF NotifyRegistered, LocalTyped, LocalsOK, Labels, RegisterLabels,
       RemoveLabels, Operations
  <2>3. QED
    BY <2>1, <2>2 DEF Typed
<1>11. ASSUME RegisterReturns(p) PROVE Typed'
  <2>1. SharedTyped'
    BY <1>0, <1>11 DEF RegisterReturns, SharedTyped
  <2>2. CASE held[p] = None
    BY <1>0, <1>11, <2>1, <2>2, RegisterFailedTyped DEF RegisterReturns, Typed
  <2>3. CASE held[p] # None /\ op[p] = "configure"
    <3>1. name[p] \in Names /\ held[p] \in Ids
      BY <1>0, <1>11, <2>3 DEF RegisterReturns, LocalTyped, LocalsOK, RegisterLabels
    <3>2. [name |-> name[p], entry |-> held[p]] \in OpenedSource
      BY <3>1 DEF OpenedSource
    <3>3. opened' \in [Procs -> Seq(OpenedSource)]
      <4> DEFINE new == [name |-> name[p], entry |-> held[p]]
      <4>1. opened \in [Procs -> Seq(OpenedSource)] /\ Append(opened[p], new) \in Seq(OpenedSource)
        BY <1>0, <3>2 DEF LocalTyped
      <4>2. opened' = [opened EXCEPT ![p] = Append(opened[p], new)]
        BY <1>11, <2>3 DEF RegisterReturns
      <4>3. QED
        BY <4>1, <4>2
    <3>4. LocalTyped'
      BY <1>0, <1>11, <2>3, <3>3 DEF RegisterReturns, LocalTyped, LocalsOK, Labels,
         RegisterLabels
    <3>5. QED
      BY <2>1, <3>4 DEF Typed
  <2>4. CASE held[p] # None /\ op[p] # "configure"
    BY <1>0, <1>11, <2>1, <2>4, ReturnTyped DEF RegisterReturns, Typed
  <2>5. QED
    BY <2>2, <2>3, <2>4 DEF Typed
<1>12. QED
  BY <1>1, <1>2, <1>3, <1>4, <1>5, <1>6, <1>7, <1>8, <1>9, <1>10, <1>11 DEF RegisterStep

\* So does every step of Configure.
LEMMA ConfigureTyped == ASSUME NEW p \in Procs, Typed, ConfigureStep(p) PROVE Typed'
<1>0. SharedTyped /\ LocalTyped
  BY DEF Typed
<1>1. ASSUME NEW n \in Names, ConfigureNext(p, n) PROVE Typed'
  <2>1. SharedTyped'
    BY <1>0, <1>1 DEF ConfigureNext, LocalTyped, LocalsOK, RegisterLabels, SharedTyped
  <2>2. LocalTyped'
    BY <1>0, <1>1 DEF ConfigureNext, LocalTyped, LocalsOK, Labels, RegisterLabels,
       RemoveLabels, Operations
  <2>3. QED
    BY <2>1, <2>2 DEF Typed
<1>2. ASSUME ConfigureSucceeds(p) PROVE Typed'
  <2>1. SharedTyped'
    BY <1>0, <1>2 DEF ConfigureSucceeds, LocalTyped, LocalsOK, RegisterLabels, SharedTyped
  <2>2. LocalTyped'
    BY <1>0, <1>2, ReturnTyped DEF ConfigureSucceeds, LocalTyped, LocalsOK, Labels,
       RegisterLabels, RemoveLabels, Operations
  <2>3. QED
    BY <2>1, <2>2 DEF Typed
<1>3. ASSUME RollbackNext(p) PROVE Typed'
  <2>1. SharedTyped'
    BY <1>0, <1>3 DEF RollbackNext, SharedTyped
  <2>2. opened[p] \in Seq(OpenedSource) /\ undone[p] \in Nat
    BY <1>0 DEF LocalTyped
  <2>3. opened[p][undone[p] + 1].name \in Names
    <3>1. undone[p] < Len(opened[p])
      BY <1>3 DEF RollbackNext
    <3>2. undone[p] + 1 \in 1..Len(opened[p])
      BY <2>2, <3>1
    <3>3. opened[p][undone[p] + 1] \in OpenedSource
      BY <2>2, <3>2
    <3>4. QED
      BY <3>3 DEF OpenedSource
  <2>4. LocalTyped'
    BY <1>0, <1>3, <2>3 DEF RollbackNext, LocalTyped, LocalsOK, Labels, RegisterLabels,
       RemoveLabels
  <2>5. QED
    BY <2>1, <2>4 DEF Typed
<1>4. ASSUME RollbackEnds(p) PROVE Typed'
  <2>1. SharedTyped'
    BY <1>0, <1>4 DEF RollbackEnds, LocalTyped, LocalsOK, RegisterLabels, SharedTyped
  <2>2. LocalTyped'
    BY <1>0, <1>4 DEF RollbackEnds, LocalTyped, LocalsOK, Labels, RegisterLabels,
       RemoveLabels, Operations
  <2>3. QED
    BY <2>1, <2>2 DEF Typed
<1>5. ASSUME ConfigureFails(p) PROVE Typed'
  <2>1. SharedTyped'
    BY <1>0, <1>5 DEF ConfigureFails, LocalTyped, LocalsOK, RegisterLabels, SharedTyped
  <2>2. LocalTyped'
    BY <1>0, <1>5, ReturnTyped DEF ConfigureFails, LocalTyped, LocalsOK, Labels,
       RegisterLabels, RemoveLabels, Operations
  <2>3. QED
    BY <2>1, <2>2 DEF Typed
<1>6. QED
  BY <1>1, <1>2, <1>3, <1>4, <1>5 DEF ConfigureStep

\* So does every step of removeEntry and RemoveAll.
LEMMA RemoveTyped == ASSUME NEW p \in Procs, Typed, RemoveStep(p) PROVE Typed'
<1>0. SharedTyped /\ LocalTyped
  BY DEF Typed
<1>1. ASSUME Detach(p) PROVE Typed'
  <2>1. name[p] \in Names
    BY <1>0, <1>1 DEF Detach, LocalTyped, LocalsOK
  <2>2. LocalTyped'
    <3>1. pc' \in [Procs -> Labels] /\ UNCHANGED call /\ LocalsOK'
      BY <1>0, <1>1 DEF Detach, LocalTyped, LocalsOK, Labels, RegisterLabels, RemoveLabels
    <3>2. QED
      BY <3>1 DEF LocalTyped, Typed
  <2>3. CASE RemoveMatches(p)
    <3>1. entries[name[p]] \in Ids
      BY <1>0, <2>1, <2>3 DEF RemoveMatches, SharedTyped
    <3>2. /\ entries' \in [Names -> Ids \cup {None}]
          /\ toNotify' \in [Procs -> SUBSET Names]
          /\ toDrain' \in [Procs -> SUBSET Ids]
          /\ mu' \in Procs \cup {None}
      <4>1. entries' = [entries EXCEPT ![name[p]] = None] /\ mu' = p
        BY <1>1, <2>3 DEF Detach
      <4>2. toNotify' = [toNotify EXCEPT ![p] = {name[p]}]
        BY <1>1, <2>3 DEF Detach
      <4>3. toDrain' = [toDrain EXCEPT ![p] = {entries[name[p]]}]
        BY <1>1, <2>3 DEF Detach
      <4>4. entries' \in [Names -> Ids \cup {None}]
        BY <1>0, <4>1 DEF SharedTyped
      <4>5. toNotify' \in [Procs -> SUBSET Names]
        BY <1>0, <2>1, <4>2 DEF SharedTyped
      <4>6. toDrain' \in [Procs -> SUBSET Ids]
        BY <1>0, <3>1, <4>3 DEF SharedTyped
      <4>7. QED
        BY <4>1, <4>4, <4>5, <4>6
    <3>3. SharedTyped'
      BY <1>0, <1>1, <2>3, <3>2 DEF Detach, SharedTyped
    <3>4. QED
      BY <2>2, <3>3 DEF Typed
  <2>4. CASE ~RemoveMatches(p)
    <3>1. SharedTyped'
      BY <1>0, <1>1, <2>4 DEF Detach, SharedTyped
    <3>2. QED
      BY <2>2, <3>1 DEF Typed
  <2>5. QED
    BY <2>3, <2>4 DEF Typed
<1>2. ASSUME DetachAll(p) PROVE Typed'
  <2>1. SharedTyped'
    BY <1>0, <1>2 DEF DetachAll, Registered, LocalTyped, LocalsOK, RegisterLabels, SharedTyped
  <2>2. LocalTyped'
    BY <1>0, <1>2 DEF DetachAll, Registered, LocalTyped, LocalsOK, Labels, RegisterLabels,
       RemoveLabels, Operations
  <2>3. QED
    BY <2>1, <2>2 DEF Typed
<1>3. ASSUME Reserve(p, "reserveRemoved", "notifyRemoved") PROVE Typed'
  <2>1. SharedTyped'
    BY <1>0, <1>3 DEF Reserve, LocalTyped, LocalsOK, RegisterLabels, SharedTyped
  <2>2. LocalTyped'
    BY <1>0, <1>3 DEF Reserve, LocalTyped, LocalsOK, Labels, RegisterLabels, RemoveLabels,
       Operations
  <2>3. QED
    BY <2>1, <2>2 DEF Typed
<1>4. ASSUME NEW n \in Names, NotifyRemoved(p, n) PROVE Typed'
  <2>1. SharedTyped'
    BY <1>0, <1>4 DEF NotifyRemoved, LocalTyped, LocalsOK, RegisterLabels, SharedTyped
  <2>2. LocalTyped'
    BY <1>0, <1>4 DEF NotifyRemoved, LocalTyped, LocalsOK, Labels, RegisterLabels,
       RemoveLabels, Operations
  <2>3. QED
    BY <2>1, <2>2 DEF Typed
<1>5. ASSUME NotifyDone(p) PROVE Typed'
  <2>1. SharedTyped'
    BY <1>0, <1>5 DEF NotifyDone, LocalTyped, LocalsOK, RegisterLabels, SharedTyped
  <2>2. LocalTyped'
    BY <1>0, <1>5 DEF NotifyDone, LocalTyped, LocalsOK, Labels, RegisterLabels,
       RemoveLabels, Operations
  <2>3. QED
    BY <2>1, <2>2 DEF Typed
<1>6. ASSUME NEW c \in Ids, DrainNext(p, c) PROVE Typed'
  <2>1. SharedTyped'
    BY <1>0, <1>6 DEF DrainNext, LocalTyped, LocalsOK, RegisterLabels, SharedTyped
  <2>2. LocalTyped'
    BY <1>0, <1>6 DEF DrainNext, LocalTyped, LocalsOK, Labels, RegisterLabels,
       RemoveLabels, Operations
  <2>3. QED
    BY <2>1, <2>2 DEF Typed
<1>7. ASSUME WaitDrained(p) PROVE Typed'
  <2>1. SharedTyped'
    BY <1>0, <1>7 DEF WaitDrained, LocalTyped, LocalsOK, RegisterLabels, SharedTyped
  <2>2. LocalTyped'
    BY <1>0, <1>7 DEF WaitDrained, LocalTyped, LocalsOK, Labels, RegisterLabels,
       RemoveLabels, Operations
  <2>3. QED
    BY <2>1, <2>2 DEF Typed
<1>8. ASSUME CloseClient(p) PROVE Typed'
  <2>1. SharedTyped'
    BY <1>0, <1>8 DEF CloseClient, LocalTyped, LocalsOK, RegisterLabels, SharedTyped
  <2>2. LocalTyped'
    BY <1>0, <1>8 DEF CloseClient, LocalTyped, LocalsOK, Labels, RegisterLabels,
       RemoveLabels, Operations
  <2>3. QED
    BY <2>1, <2>2 DEF Typed
<1>9. ASSUME DrainDone(p) PROVE Typed'
  <2>1. SharedTyped'
    BY <1>0, <1>9 DEF DrainDone, LocalTyped, LocalsOK, RegisterLabels, SharedTyped
  <2>2. LocalTyped'
    BY <1>0, <1>9 DEF DrainDone, LocalTyped, LocalsOK, Labels, RegisterLabels,
       RemoveLabels, Operations
  <2>3. QED
    BY <2>1, <2>2 DEF Typed
<1>10. ASSUME RemoveReturns(p) PROVE Typed'
  <2>1. SharedTyped'
    BY <1>0, <1>10 DEF RemoveReturns, SharedTyped
  <2>2. CASE op[p] = "configure"
    BY <1>0, <1>10, <2>1, <2>2 DEF RemoveReturns, LocalTyped, LocalsOK, Labels,
       RegisterLabels, Typed
  <2>3. CASE op[p] # "configure"
    BY <1>0, <1>10, <2>1, <2>3, ReturnTyped DEF RemoveReturns, Typed
  <2>4. QED
    BY <2>2, <2>3 DEF Typed
<1>11. ASSUME AwaitOpenings(p) PROVE Typed'
  <2>1. SharedTyped'
    BY <1>0, <1>11 DEF AwaitOpenings, LocalTyped, LocalsOK, RegisterLabels, SharedTyped
  <2>2. LocalTyped'
    BY <1>0, <1>11, ReturnTyped DEF AwaitOpenings, LocalTyped, LocalsOK, Labels,
       RegisterLabels, RemoveLabels, Operations
  <2>3. QED
    BY <2>1, <2>2 DEF Typed
<1>12. QED
  BY <1>1, <1>2, <1>3, <1>4, <1>5, <1>6, <1>7, <1>8, <1>9, <1>10, <1>11 DEF RemoveStep

\* So do acquire and release.
LEMMA RunTyped == ASSUME NEW p \in Procs, Typed, RunStep(p) PROVE Typed'
<1>0. SharedTyped /\ LocalTyped
  BY DEF Typed
<1>1. ASSUME Acquire(p) PROVE Typed'
  <2>1. name[p] \in Names
    BY <1>0, <1>1 DEF Acquire, LocalTyped, LocalsOK
  <2>2. CASE AcquireMatches(p)
    <3>1. entries[name[p]] \in Ids
      BY <1>0, <2>1, <2>2 DEF AcquireMatches, SharedTyped
    <3>2. wg' \in [Ids -> SUBSET Procs] /\ held' \in [Procs -> Ids \cup {None}]
      <4>1. wg' = [wg EXCEPT ![entries[name[p]]] = @ \cup {p}]
        BY <1>1, <2>2 DEF Acquire
      <4>2. held' = [held EXCEPT ![p] = entries[name[p]]]
        BY <1>1, <2>2 DEF Acquire
      <4>3. wg' \in [Ids -> SUBSET Procs]
        BY <1>0, <4>1 DEF SharedTyped
      <4>4. held' \in [Procs -> Ids \cup {None}]
        BY <1>0, <3>1, <4>2 DEF LocalTyped
      <4>5. QED
        BY <4>3, <4>4
    <3>3. SharedTyped'
      BY <1>0, <1>1, <3>2 DEF Acquire, SharedTyped
    <3>4. LocalTyped'
      BY <1>0, <1>1, <2>2, <3>1, <3>2 DEF Acquire, LocalTyped, LocalsOK, Labels, RegisterLabels
    <3>5. QED
      BY <3>3, <3>4 DEF Typed
  <2>3. CASE ~AcquireMatches(p)
    <3>1. SharedTyped'
      BY <1>0, <1>1, <2>3 DEF Acquire, SharedTyped
    <3>2. QED
      BY <1>1, <2>3, <3>1, ReturnTyped DEF Acquire, Typed
  <2>4. QED
    BY <2>2, <2>3 DEF Typed
<1>2. ASSUME Release(p) PROVE Typed'
  <2>1. SharedTyped'
    BY <1>0, <1>2 DEF Release, LocalTyped, LocalsOK, RegisterLabels, SharedTyped
  <2>2. LocalTyped'
    BY <1>0, <1>2, ReturnTyped DEF Release, LocalTyped, LocalsOK, Labels, RegisterLabels,
       RemoveLabels, Operations
  <2>3. QED
    BY <2>1, <2>2 DEF Typed
<1>3. QED
  BY <1>1, <1>2 DEF RunStep

LEMMA StutterTyped == ASSUME Typed, UNCHANGED vars PROVE Typed'
BY DEF vars, Typed, SharedTyped, LocalTyped, LocalsOK

LEMMA NextTyped == ASSUME Typed, [Next]_vars PROVE Typed'
<1>1. ASSUME NEW p \in Procs, Call(p) \/ Step(p) PROVE Typed'
  BY <1>1, CallTyped, RegisterTyped, ConfigureTyped, RemoveTyped, RunTyped DEF Step
<1>2. QED
  BY <1>1, StutterTyped DEF Next

\* Every variable keeps its type, whatever is called from however many
\* goroutines.
THEOREM TypeCorrect == Spec => []TypeOK
<1>1. Typed => TypeOK
  BY TypedIsTypeOK
<1>2. QED
  BY InitTyped, NextTyped, <1>1, PTL DEF Spec
----------------------------------------------------------------------------
(* Who owns which client: one place for each client that is open.           *)

Ownership ==
    /\ RegisteredIsOpen
    /\ OwnedIsOpen
    /\ NoClientLost
    /\ Unopened
    /\ LeakedIsOpen
    /\ ClosedAtMostOnce

\* A step that neither moves an entry nor changes an owner, opens a client or
\* closes one, leaves every client where it was.
LEMMA OwnershipKept ==
    ASSUME Ownership, UNCHANGED <<entries, clients, closes, leaked>>,
           \A q \in Procs, c \in Ids : Owns(q, c)' <=> Owns(q, c),
           clients \in SUBSET Ids, entries \in [Names -> Ids \cup {None}]
    PROVE  Ownership'
<1>1. RegisteredIsOpen'
  BY DEF Ownership, RegisteredIsOpen
<1>2. OwnedIsOpen'
  BY DEF Ownership, OwnedIsOpen
<1>3. NoClientLost'
  BY DEF Ownership, NoClientLost
<1>4. Unopened' /\ ClosedAtMostOnce'
  BY DEF Ownership, Unopened, ClosedAtMostOnce
<1>5. LeakedIsOpen'
  BY DEF Ownership, LeakedIsOpen
<1>6. QED
  BY <1>1, <1>2, <1>3, <1>4, <1>5 DEF Ownership

\* Calls and NewSource touch no client.
LEMMA CallOwnership ==
    ASSUME NEW p \in Procs, Typed, DrainInProgress, UsersAreInside, NothingPublishedAfterClose,
           Ownership, Call(p)
    PROVE  Ownership'
<1>0. SharedTyped /\ LocalTyped
  BY DEF Typed
<1> USE <1>0, NoneAssumption DEF SharedTyped
<1>1. ASSUME NEW d \in Drivers, RegisterDriver(p, d) PROVE Ownership'
  <2>1. UNCHANGED <<entries, clients, closes, leaked>>
    BY <1>1 DEF RegisterDriver
  <2>2. \A q \in Procs, c \in Ids : Owns(q, c)' <=> Owns(q, c)
    BY <1>1 DEF RegisterDriver, Owns, LocalTyped
  <2>3. QED
    BY <2>1, <2>2, OwnershipKept
<1>2. ASSUME NEW n \in Names, CallNamed(p, "open", "register", n) PROVE Ownership'
  <2>1. UNCHANGED <<entries, clients, closes, leaked>>
    BY <1>2 DEF CallNamed
  <2>2. \A q \in Procs, c \in Ids : Owns(q, c)' <=> Owns(q, c)
    BY <1>2 DEF CallNamed, Owns, LocalTyped
  <2>3. QED
    BY <2>1, <2>2, OwnershipKept
<1>3. ASSUME NEW n \in Names, CallNamed(p, "remove", "remove", n) PROVE Ownership'
  <2>1. UNCHANGED <<entries, clients, closes, leaked>>
    BY <1>3 DEF CallNamed
  <2>2. \A q \in Procs, c \in Ids : Owns(q, c)' <=> Owns(q, c)
    BY <1>3 DEF CallNamed, Owns, LocalTyped
  <2>3. QED
    BY <2>1, <2>2, OwnershipKept
<1>4. ASSUME NEW n \in Names, CallNamed(p, "run", "acquire", n) PROVE Ownership'
  <2>1. UNCHANGED <<entries, clients, closes, leaked>>
    BY <1>4 DEF CallNamed
  <2>2. \A q \in Procs, c \in Ids : Owns(q, c)' <=> Owns(q, c)
    BY <1>4 DEF CallNamed, Owns, LocalTyped
  <2>3. QED
    BY <2>1, <2>2, OwnershipKept
<1>5. ASSUME NEW n \in Names, CallNamed(p, "sourceRun", "acquire", n) PROVE Ownership'
  <2>1. UNCHANGED <<entries, clients, closes, leaked>>
    BY <1>5 DEF CallNamed
  <2>2. \A q \in Procs, c \in Ids : Owns(q, c)' <=> Owns(q, c)
    BY <1>5 DEF CallNamed, Owns, LocalTyped
  <2>3. QED
    BY <2>1, <2>2, OwnershipKept
<1>6. ASSUME NEW n \in Names, NewSource(p, n) PROVE Ownership'
  <2>1. UNCHANGED <<entries, clients, closes, leaked>>
    BY <1>6 DEF NewSource
  <2>2. \A q \in Procs, c \in Ids : Owns(q, c)' <=> Owns(q, c)
    BY <1>6 DEF NewSource, Owns, LocalTyped
  <2>3. QED
    BY <2>1, <2>2, OwnershipKept
<1>7. ASSUME NEW S \in SUBSET Names, CallConfigure(p, S) PROVE Ownership'
  <2>1. UNCHANGED <<entries, clients, closes, leaked>>
    BY <1>7 DEF CallConfigure
  <2>2. \A q \in Procs, c \in Ids : Owns(q, c)' <=> Owns(q, c)
    BY <1>7 DEF CallConfigure, Owns, LocalTyped
  <2>3. QED
    BY <2>1, <2>2, OwnershipKept
<1>8. ASSUME CallClose(p) PROVE Ownership'
  <2>1. UNCHANGED <<entries, clients, closes, leaked>>
    BY <1>8 DEF CallClose
  <2>2. \A q \in Procs, c \in Ids : Owns(q, c)' <=> Owns(q, c)
    BY <1>8 DEF CallClose, Owns, LocalTyped
  <2>3. QED
    BY <2>1, <2>2, OwnershipKept
<1>9. QED
  BY <1>1, <1>2, <1>3, <1>4, <1>5, <1>6, <1>7, <1>8 DEF Call

\* register moves its client from the driver to the map, or closes it.
LEMMA RegisterOwnership ==
    ASSUME NEW p \in Procs, Typed, DrainInProgress, UsersAreInside, NothingPublishedAfterClose,
           Ownership, RegisterStep(p)
    PROVE  Ownership'
<1>0. SharedTyped /\ LocalTyped
  BY DEF Typed
<1> USE <1>0, NoneAssumption DEF SharedTyped
<1>1. ASSUME RegisterAdmit(p) PROVE Ownership'
  <2>1. UNCHANGED <<entries, clients, closes, leaked>>
    BY <1>1 DEF RegisterAdmit
  <2>2. \A q \in Procs, c \in Ids : Owns(q, c)' <=> Owns(q, c)
    BY <1>1 DEF RegisterAdmit, RegisterFailed, Return, Owns, LocalTyped
  <2>3. QED
    BY <2>1, <2>2, OwnershipKept
<1>2. ASSUME NEW c \in Ids, DriverOpens(p, c) PROVE Ownership'
  <2>1. /\ c \notin clients /\ clients' = clients \cup {c} /\ UNCHANGED <<entries, closes, leaked>>
        /\ closes[c] = 0
    BY <1>2 DEF DriverOpens, Ownership, Unopened
  <2>2. \A q \in Procs, d \in Ids : Owns(q, d)' <=> Owns(q, d) \/ (q = p /\ d = c)
    BY <1>2 DEF DriverOpens, Owns, LocalTyped
  <2>3. \A q \in Procs : ~Owns(q, c)
    BY <2>1 DEF Ownership, OwnedIsOpen
  <2>4. RegisteredIsOpen'
    BY <2>1, <2>2 DEF Ownership, RegisteredIsOpen
  <2>5. OwnedIsOpen'
    BY <2>1, <2>2, <2>3 DEF Ownership, OwnedIsOpen
  <2>6. NoClientLost'
    BY <2>1, <2>2 DEF Ownership, NoClientLost
  <2>7. Unopened' /\ ClosedAtMostOnce'
    BY <2>1 DEF Ownership, Unopened, ClosedAtMostOnce
  <2>8. LeakedIsOpen'
    BY <2>1, <2>2 DEF Ownership, LeakedIsOpen
  <2>9. QED
    BY <2>4, <2>5, <2>6, <2>7, <2>8 DEF Ownership
<1>3. ASSUME DriverFails(p) PROVE Ownership'
  <2>1. UNCHANGED <<entries, clients, closes, leaked>>
    BY <1>3 DEF DriverFails
  <2>2. \A q \in Procs, c \in Ids : Owns(q, c)' <=> Owns(q, c)
    BY <1>3 DEF DriverFails, Owns, LocalTyped
  <2>3. QED
    BY <2>1, <2>2, OwnershipKept
<1>4. ASSUME DriverPanics(p) PROVE Ownership'
  <2>1. UNCHANGED <<entries, clients, closes, leaked>>
    BY <1>4 DEF DriverPanics
  <2>2. \A q \in Procs, c \in Ids : Owns(q, c)' <=> Owns(q, c)
    BY <1>4 DEF DriverPanics, Return, Owns, LocalTyped
  <2>3. QED
    BY <2>1, <2>2, OwnershipKept
<1>5. ASSUME PoolApplied(p) PROVE Ownership'
  <2>1. UNCHANGED <<entries, clients, closes, leaked>>
    BY <1>5 DEF PoolApplied
  <2>2. \A q \in Procs, c \in Ids : Owns(q, c)' <=> Owns(q, c)
    BY <1>5 DEF PoolApplied, Owns, LocalTyped
  <2>3. QED
    BY <2>1, <2>2, OwnershipKept
<1>6. ASSUME PoolPanics(p) PROVE Ownership'
  <2>1. held[p] \in Ids /\ Owns(p, held[p])
    BY <1>6 DEF PoolPanics, LocalTyped, LocalsOK, Owns
  <2>2. leaked' = leaked \cup {held[p]} /\ UNCHANGED <<entries, clients, closes>>
    BY <1>6 DEF PoolPanics
  <2>3. toDrain[p] = {}
    BY <1>6 DEF PoolPanics, DrainInProgress
  <2>4. \A q \in Procs, c \in Ids : Owns(q, c)' <=> Owns(q, c) /\ q # p
    BY <1>6, <2>3 DEF PoolPanics, Return, Owns, LocalTyped
  <2>5. \A c \in Ids : Owns(p, c) => c = held[p]
    BY <1>6, <2>3 DEF PoolPanics, Owns
  <2>6. /\ held[p] \in clients /\ closes[held[p]] = 0
        /\ \A q \in Procs : Owns(q, held[p]) => q = p
        /\ \A n \in Names : entries[n] # held[p]
    BY <2>1 DEF Ownership, OwnedIsOpen, RegisteredIsOpen
  <2>7. RegisteredIsOpen' /\ OwnedIsOpen'
    BY <2>2, <2>4 DEF Ownership, RegisteredIsOpen, OwnedIsOpen
  <2>8. NoClientLost'
    BY <2>2, <2>4, <2>5 DEF Ownership, NoClientLost
  <2>9. LeakedIsOpen'
    BY <2>2, <2>4, <2>6 DEF Ownership, LeakedIsOpen
  <2>10. Unopened' /\ ClosedAtMostOnce'
    BY <2>2 DEF Ownership, Unopened, ClosedAtMostOnce
  <2>11. QED
    BY <2>7, <2>8, <2>9, <2>10 DEF Ownership
<1>7. ASSUME Publish(p) PROVE Ownership'
  <2>1. held[p] \in Ids /\ name[p] \in Names /\ Owns(p, held[p])
    BY <1>7 DEF Publish, LocalTyped, LocalsOK, RegisterLabels, Owns
  <2>2. CASE closed \/ entries[name[p]] # None
    <3>1. UNCHANGED <<entries, clients, closes, leaked>>
      BY <1>7, <2>2 DEF Publish
    <3>2. \A q \in Procs, c \in Ids : Owns(q, c)' <=> Owns(q, c)
      BY <1>7, <2>2 DEF Publish, Owns, LocalTyped
    <3>3. QED
      BY <3>1, <3>2, OwnershipKept
  <2>3. CASE ~closed /\ entries[name[p]] = None
    <3>1. /\ entries' = [entries EXCEPT ![name[p]] = held[p]]
          /\ UNCHANGED <<clients, closes, leaked>>
      BY <1>7, <2>3 DEF Publish
    <3>2. toDrain[p] = {}
      BY <1>7 DEF Publish, DrainInProgress
    <3>3. \A q \in Procs, c \in Ids : Owns(q, c)' <=> Owns(q, c) /\ q # p
      BY <1>7, <2>3, <3>2 DEF Publish, Owns, LocalTyped
    <3>4. /\ held[p] \in clients /\ closes[held[p]] = 0
          /\ \A q \in Procs : Owns(q, held[p]) => q = p
          /\ \A n \in Names : entries[n] # held[p]
      BY <2>1 DEF Ownership, OwnedIsOpen, RegisteredIsOpen
    <3>5. RegisteredIsOpen'
      BY <2>1, <3>1, <3>3, <3>4 DEF Ownership, RegisteredIsOpen
    <3>6. OwnedIsOpen'
      BY <3>1, <3>3 DEF Ownership, OwnedIsOpen
    <3>7. NoClientLost'
      <4>1. \A c \in Ids : Owns(p, c) => c = held[p]
        BY <1>7, <3>2 DEF Publish, Owns
      <4>2. \A n \in Names : entries[n] # None => entries'[n] = entries[n]
        BY <2>1, <2>3, <3>1
      <4>3. entries'[name[p]] = held[p]
        BY <2>1, <3>1
      <4>4. SUFFICES ASSUME NEW c \in clients \ leaked, closes[c] = 0
                     PROVE  (\E n \in Names : entries'[n] = c) \/ (\E q \in Procs : Owns(q, c)')
        BY <3>1 DEF NoClientLost
      <4>5. CASE \E n \in Names : entries[n] = c
        BY <4>2, <4>5
      <4>6. CASE \E q \in Procs : Owns(q, c)
        BY <2>1, <3>3, <4>1, <4>3, <4>6
      <4>7. QED
        BY <4>4, <4>5, <4>6 DEF Ownership, NoClientLost
    <3>8. Unopened' /\ ClosedAtMostOnce'
      BY <3>1 DEF Ownership, Unopened, ClosedAtMostOnce
    <3>9. LeakedIsOpen'
      BY <2>1, <3>1, <3>3 DEF Ownership, LeakedIsOpen
    <3>10. QED
      BY <3>5, <3>6, <3>7, <3>8, <3>9 DEF Ownership
  <2>4. QED
    BY <2>2, <2>3
<1>8. ASSUME DiscardClient(p) PROVE Ownership'
  <2>1. held[p] \in Ids /\ Owns(p, held[p])
    BY <1>8 DEF DiscardClient, LocalTyped, LocalsOK, Owns
  <2>2. /\ closes' = [closes EXCEPT ![held[p]] = @ + 1]
        /\ UNCHANGED <<entries, clients, leaked>>
    BY <1>8 DEF DiscardClient
  <2>3. toDrain[p] = {}
    BY <1>8 DEF DiscardClient, DrainInProgress
  <2>4. \A q \in Procs, c \in Ids : Owns(q, c)' <=> Owns(q, c) /\ q # p
    BY <1>8, <2>3 DEF DiscardClient, Owns, LocalTyped
  <2>5. \A c \in Ids : Owns(p, c) => c = held[p]
    BY <1>8, <2>3 DEF DiscardClient, Owns
  <2>6. /\ held[p] \in clients /\ closes[held[p]] = 0
        /\ \A q \in Procs : Owns(q, held[p]) => q = p
        /\ \A n \in Names : entries[n] # held[p]
    BY <2>1 DEF Ownership, OwnedIsOpen, RegisteredIsOpen
  <2>7. closes'[held[p]] = 1 /\ \A c \in Ids : c # held[p] => closes'[c] = closes[c]
    BY <2>1, <2>2, <2>6
  <2>8. RegisteredIsOpen'
    BY <2>2, <2>4, <2>6, <2>7 DEF Ownership, RegisteredIsOpen
  <2>9. OwnedIsOpen'
    BY <2>2, <2>4, <2>6, <2>7 DEF Ownership, OwnedIsOpen
  <2>10. NoClientLost'
    BY <2>2, <2>4, <2>5, <2>7 DEF Ownership, NoClientLost
  <2>11. Unopened' /\ ClosedAtMostOnce'
    BY <2>2, <2>6, <2>7 DEF Ownership, Unopened, ClosedAtMostOnce
  <2>12. LeakedIsOpen'
    BY <2>1, <2>2, <2>4, <2>7 DEF Ownership, LeakedIsOpen
  <2>13. QED
    BY <2>8, <2>9, <2>10, <2>11, <2>12 DEF Ownership
<1>9. ASSUME Reserve(p, "reserveRegistered", "notifyRegistered") PROVE Ownership'
  <2>1. UNCHANGED <<entries, clients, closes, leaked>>
    BY <1>9 DEF Reserve
  <2>2. \A q \in Procs, c \in Ids : Owns(q, c)' <=> Owns(q, c)
    BY <1>9 DEF Reserve, Owns, LocalTyped
  <2>3. QED
    BY <2>1, <2>2, OwnershipKept
<1>10. ASSUME NotifyRegistered(p) PROVE Ownership'
  <2>1. UNCHANGED <<entries, clients, closes, leaked>>
    BY <1>10 DEF NotifyRegistered
  <2>2. \A q \in Procs, c \in Ids : Owns(q, c)' <=> Owns(q, c)
    BY <1>10 DEF NotifyRegistered, Owns, LocalTyped
  <2>3. QED
    BY <2>1, <2>2, OwnershipKept
<1>11. ASSUME RegisterReturns(p) PROVE Ownership'
  <2>1. UNCHANGED <<entries, clients, closes, leaked>>
    BY <1>11 DEF RegisterReturns
  <2>2. \A q \in Procs, c \in Ids : Owns(q, c)' <=> Owns(q, c)
    BY <1>11 DEF RegisterReturns, RegisterFailed, Return, Owns, LocalTyped
  <2>3. QED
    BY <2>1, <2>2, OwnershipKept
<1>12. QED
  BY <1>1, <1>2, <1>3, <1>4, <1>5, <1>6, <1>7, <1>8, <1>9, <1>10, <1>11 DEF RegisterStep

\* Configure itself touches no client.
LEMMA ConfigureOwnership ==
    ASSUME NEW p \in Procs, Typed, DrainInProgress, UsersAreInside, NothingPublishedAfterClose,
           Ownership, ConfigureStep(p)
    PROVE  Ownership'
<1>0. SharedTyped /\ LocalTyped
  BY DEF Typed
<1> USE <1>0, NoneAssumption DEF SharedTyped
<1>1. ASSUME NEW n \in Names, ConfigureNext(p, n) PROVE Ownership'
  <2>1. UNCHANGED <<entries, clients, closes, leaked>>
    BY <1>1 DEF ConfigureNext
  <2>2. \A q \in Procs, c \in Ids : Owns(q, c)' <=> Owns(q, c)
    BY <1>1 DEF ConfigureNext, Owns, LocalTyped
  <2>3. QED
    BY <2>1, <2>2, OwnershipKept
<1>2. ASSUME ConfigureSucceeds(p) PROVE Ownership'
  <2>1. UNCHANGED <<entries, clients, closes, leaked>>
    BY <1>2 DEF ConfigureSucceeds
  <2>2. \A q \in Procs, c \in Ids : Owns(q, c)' <=> Owns(q, c)
    BY <1>2 DEF ConfigureSucceeds, Return, Owns, LocalTyped
  <2>3. QED
    BY <2>1, <2>2, OwnershipKept
<1>3. ASSUME RollbackNext(p) PROVE Ownership'
  <2>1. UNCHANGED <<entries, clients, closes, leaked>>
    BY <1>3 DEF RollbackNext
  <2>2. \A q \in Procs, c \in Ids : Owns(q, c)' <=> Owns(q, c)
    BY <1>3 DEF RollbackNext, Owns, LocalTyped
  <2>3. QED
    BY <2>1, <2>2, OwnershipKept
<1>4. ASSUME RollbackEnds(p) PROVE Ownership'
  <2>1. UNCHANGED <<entries, clients, closes, leaked>>
    BY <1>4 DEF RollbackEnds
  <2>2. \A q \in Procs, c \in Ids : Owns(q, c)' <=> Owns(q, c)
    BY <1>4 DEF RollbackEnds, Owns, LocalTyped
  <2>3. QED
    BY <2>1, <2>2, OwnershipKept
<1>5. ASSUME ConfigureFails(p) PROVE Ownership'
  <2>1. UNCHANGED <<entries, clients, closes, leaked>>
    BY <1>5 DEF ConfigureFails
  <2>2. \A q \in Procs, c \in Ids : Owns(q, c)' <=> Owns(q, c)
    BY <1>5 DEF ConfigureFails, Return, Owns, LocalTyped
  <2>3. QED
    BY <2>1, <2>2, OwnershipKept
<1>6. QED
  BY <1>1, <1>2, <1>3, <1>4, <1>5 DEF ConfigureStep

\* removeEntry and RemoveAll take entries out and close them.
LEMMA RemoveOwnership ==
    ASSUME NEW p \in Procs, Typed, DrainInProgress, UsersAreInside, NothingPublishedAfterClose,
           Ownership, RemoveStep(p)
    PROVE  Ownership'
<1>0. SharedTyped /\ LocalTyped
  BY DEF Typed
<1> USE <1>0, NoneAssumption DEF SharedTyped
<1>1. ASSUME Detach(p) PROVE Ownership'
  <2>1. name[p] \in Names /\ toDrain[p] = {}
    BY <1>1 DEF Detach, LocalTyped, LocalsOK, DrainInProgress
  <2>2. CASE ~RemoveMatches(p)
    <3>1. UNCHANGED <<entries, clients, closes, leaked>>
      BY <1>1, <2>2 DEF Detach
    <3>2. \A q \in Procs, c \in Ids : Owns(q, c)' <=> Owns(q, c)
      BY <1>1, <2>2 DEF Detach, Owns, LocalTyped
    <3>3. QED
      BY <3>1, <3>2, OwnershipKept
  <2>3. CASE RemoveMatches(p)
    <3> DEFINE gone == entries[name[p]]
    <3>1. gone \in Ids
      BY <2>1, <2>3 DEF RemoveMatches
    <3>2. /\ entries' = [entries EXCEPT ![name[p]] = None]
          /\ toDrain' = [toDrain EXCEPT ![p] = {gone}]
          /\ UNCHANGED <<clients, closes, leaked>>
      BY <1>1, <2>3 DEF Detach
    <3>3. pc[p] = "remove" /\ pc' = [pc EXCEPT ![p] = "reserveRemoved"] /\ held' = held
      BY <1>1, <2>3 DEF Detach
    <3>4. \A q \in Procs, c \in Ids : Owns(q, c)' <=> Owns(q, c) \/ (q = p /\ c = gone)
      BY <2>1, <3>2, <3>3 DEF Owns, LocalTyped
    <3>5. /\ gone \in clients /\ closes[gone] = 0
          /\ \A m \in Names : entries[m] = gone => m = name[p]
          /\ \A q \in Procs : ~Owns(q, gone)
      BY <2>1, <3>1 DEF Ownership, RegisteredIsOpen
    <3>6. \A n \in Names : entries'[n] = IF n = name[p] THEN None ELSE entries[n]
      BY <3>2
    <3> HIDE DEF gone
    <3>7. RegisteredIsOpen'
      BY <3>2, <3>4, <3>5, <3>6 DEF Ownership, RegisteredIsOpen
    <3>8. OwnedIsOpen'
      BY <3>2, <3>4, <3>5 DEF Ownership, OwnedIsOpen
    <3>9. NoClientLost'
      BY <3>1, <3>2, <3>4, <3>6 DEF Ownership, NoClientLost, gone
    <3>10. Unopened' /\ ClosedAtMostOnce'
      BY <3>2 DEF Ownership, Unopened, ClosedAtMostOnce
    <3>11. LeakedIsOpen'
      BY <2>1, <3>1, <3>2, <3>4, <3>6, NoneAssumption DEF Ownership, LeakedIsOpen, gone
    <3>12. QED
      BY <3>7, <3>8, <3>9, <3>10, <3>11 DEF Ownership
  <2>4. QED
    BY <2>2, <2>3
<1>2. ASSUME DetachAll(p) PROVE Ownership'
  <2>1. toDrain[p] = {}
    BY <1>2 DEF DetachAll, DrainInProgress
  <2>2. /\ entries' = [n \in Names |-> None]
        /\ toDrain' = [toDrain EXCEPT ![p] = {entries[n] : n \in Registered}]
        /\ UNCHANGED <<clients, closes, leaked>>
    BY <1>2 DEF DetachAll
  <2>3. pc[p] = "removeAll" /\ pc' = [pc EXCEPT ![p] = "reserveRemoved"] /\ held' = held
    BY <1>2 DEF DetachAll
  <2>4. \A c \in Ids : c \in toDrain'[p] <=> \E n \in Names : entries[n] = c
    BY <2>2 DEF Registered
  <2>5. \A q \in Procs, c \in Ids :
            Owns(q, c)' <=> Owns(q, c) \/ (q = p /\ \E n \in Names : entries[n] = c)
    BY <2>1, <2>2, <2>3, <2>4 DEF Owns, LocalTyped
  <2>6. RegisteredIsOpen'
    BY <2>2 DEF RegisteredIsOpen
  <2>7. OwnedIsOpen'
    BY <2>2, <2>5 DEF Ownership, OwnedIsOpen, RegisteredIsOpen
  <2>8. NoClientLost'
    BY <2>2, <2>5 DEF Ownership, NoClientLost
  <2>9. Unopened' /\ ClosedAtMostOnce'
    BY <2>2 DEF Ownership, Unopened, ClosedAtMostOnce
  <2>10. LeakedIsOpen'
    BY <2>2, <2>5 DEF Ownership, LeakedIsOpen
  <2>11. QED
    BY <2>6, <2>7, <2>8, <2>9, <2>10 DEF Ownership
<1>3. ASSUME Reserve(p, "reserveRemoved", "notifyRemoved") PROVE Ownership'
  <2>1. UNCHANGED <<entries, clients, closes, leaked>>
    BY <1>3 DEF Reserve
  <2>2. \A q \in Procs, c \in Ids : Owns(q, c)' <=> Owns(q, c)
    BY <1>3 DEF Reserve, Owns, LocalTyped
  <2>3. QED
    BY <2>1, <2>2, OwnershipKept
<1>4. ASSUME NEW n \in Names, NotifyRemoved(p, n) PROVE Ownership'
  <2>1. UNCHANGED <<entries, clients, closes, leaked>>
    BY <1>4 DEF NotifyRemoved
  <2>2. \A q \in Procs, c \in Ids : Owns(q, c)' <=> Owns(q, c)
    BY <1>4 DEF NotifyRemoved, Owns, LocalTyped
  <2>3. QED
    BY <2>1, <2>2, OwnershipKept
<1>5. ASSUME NotifyDone(p) PROVE Ownership'
  <2>1. UNCHANGED <<entries, clients, closes, leaked>>
    BY <1>5 DEF NotifyDone
  <2>2. \A q \in Procs, c \in Ids : Owns(q, c)' <=> Owns(q, c)
    BY <1>5 DEF NotifyDone, Owns, LocalTyped
  <2>3. QED
    BY <2>1, <2>2, OwnershipKept
<1>6. ASSUME NEW c \in Ids, DrainNext(p, c) PROVE Ownership'
  <2>1. UNCHANGED <<entries, clients, closes, leaked>>
    BY <1>6 DEF DrainNext
  <2>2. \A q \in Procs, d \in Ids : Owns(q, d)' <=> Owns(q, d)
    BY <1>6 DEF DrainNext, Owns, LocalTyped
  <2>3. QED
    BY <2>1, <2>2, OwnershipKept
<1>7. ASSUME WaitDrained(p) PROVE Ownership'
  <2>1. UNCHANGED <<entries, clients, closes, leaked>>
    BY <1>7 DEF WaitDrained
  <2>2. \A q \in Procs, c \in Ids : Owns(q, c)' <=> Owns(q, c)
    BY <1>7 DEF WaitDrained, Owns, LocalTyped
  <2>3. QED
    BY <2>1, <2>2, OwnershipKept
<1>8. ASSUME CloseClient(p) PROVE Ownership'
  <2>1. held[p] \in Ids /\ held[p] \in toDrain[p] /\ Owns(p, held[p])
    BY <1>8 DEF CloseClient, LocalTyped, LocalsOK, DrainInProgress, Owns
  <2>2. /\ closes' = [closes EXCEPT ![held[p]] = @ + 1]
        /\ toDrain' = [toDrain EXCEPT ![p] = @ \ {held[p]}]
        /\ UNCHANGED <<entries, clients, leaked>>
    BY <1>8 DEF CloseClient
  <2>3. pc[p] = "closeClient" /\ pc' = [pc EXCEPT ![p] = "drain"]
        /\ held' = [held EXCEPT ![p] = None]
    BY <1>8 DEF CloseClient
  <2>4. \A q \in Procs, c \in Ids :
            Owns(q, c)' <=> Owns(q, c) /\ ~(q = p /\ c = held[p])
    BY <2>1, <2>2, <2>3 DEF Owns, LocalTyped
  <2>5. /\ held[p] \in clients /\ closes[held[p]] = 0
        /\ \A q \in Procs : Owns(q, held[p]) => q = p
        /\ \A n \in Names : entries[n] # held[p]
    BY <2>1 DEF Ownership, OwnedIsOpen, RegisteredIsOpen
  <2>6. closes'[held[p]] = 1 /\ \A c \in Ids : c # held[p] => closes'[c] = closes[c]
    BY <2>1, <2>2, <2>5
  <2>7. RegisteredIsOpen'
    BY <2>2, <2>4, <2>5, <2>6 DEF Ownership, RegisteredIsOpen
  <2>8. OwnedIsOpen'
    BY <2>2, <2>4, <2>5, <2>6 DEF Ownership, OwnedIsOpen
  <2>9. NoClientLost'
    BY <2>2, <2>4, <2>6 DEF Ownership, NoClientLost
  <2>10. Unopened' /\ ClosedAtMostOnce'
    BY <2>2, <2>5, <2>6 DEF Ownership, Unopened, ClosedAtMostOnce
  <2>11. LeakedIsOpen'
    BY <2>1, <2>2, <2>4, <2>6 DEF Ownership, LeakedIsOpen
  <2>12. QED
    BY <2>7, <2>8, <2>9, <2>10, <2>11 DEF Ownership
<1>9. ASSUME DrainDone(p) PROVE Ownership'
  <2>1. UNCHANGED <<entries, clients, closes, leaked>>
    BY <1>9 DEF DrainDone
  <2>2. \A q \in Procs, c \in Ids : Owns(q, c)' <=> Owns(q, c)
    BY <1>9 DEF DrainDone, Owns, LocalTyped
  <2>3. QED
    BY <2>1, <2>2, OwnershipKept
<1>10. ASSUME RemoveReturns(p) PROVE Ownership'
  <2>1. UNCHANGED <<entries, clients, closes, leaked>>
    BY <1>10 DEF RemoveReturns
  <2>2. \A q \in Procs, c \in Ids : Owns(q, c)' <=> Owns(q, c)
    BY <1>10 DEF RemoveReturns, Return, Owns, LocalTyped
  <2>3. QED
    BY <2>1, <2>2, OwnershipKept
<1>11. ASSUME AwaitOpenings(p) PROVE Ownership'
  <2>1. UNCHANGED <<entries, clients, closes, leaked>>
    BY <1>11 DEF AwaitOpenings
  <2>2. \A q \in Procs, c \in Ids : Owns(q, c)' <=> Owns(q, c)
    BY <1>11 DEF AwaitOpenings, Return, Owns, LocalTyped
  <2>3. QED
    BY <2>1, <2>2, OwnershipKept
<1>12. QED
  BY <1>1, <1>2, <1>3, <1>4, <1>5, <1>6, <1>7, <1>8, <1>9, <1>10, <1>11 DEF RemoveStep

\* acquire and release touch no client.
LEMMA RunOwnership ==
    ASSUME NEW p \in Procs, Typed, DrainInProgress, UsersAreInside, NothingPublishedAfterClose,
           Ownership, RunStep(p)
    PROVE  Ownership'
<1>0. SharedTyped /\ LocalTyped
  BY DEF Typed
<1> USE <1>0, NoneAssumption DEF SharedTyped
<1>1. ASSUME Acquire(p) PROVE Ownership'
  <2>1. UNCHANGED <<entries, clients, closes, leaked>>
    BY <1>1 DEF Acquire
  <2>2. \A q \in Procs, c \in Ids : Owns(q, c)' <=> Owns(q, c)
    BY <1>1 DEF Acquire, Return, Owns, LocalTyped
  <2>3. QED
    BY <2>1, <2>2, OwnershipKept
<1>2. ASSUME Release(p) PROVE Ownership'
  <2>1. UNCHANGED <<entries, clients, closes, leaked>>
    BY <1>2 DEF Release
  <2>2. \A q \in Procs, c \in Ids : Owns(q, c)' <=> Owns(q, c)
    BY <1>2 DEF Release, Return, Owns, LocalTyped
  <2>3. QED
    BY <2>1, <2>2, OwnershipKept
<1>3. QED
  BY <1>1, <1>2 DEF RunStep

----------------------------------------------------------------------------
(* What goroutines are doing while clients are drained, and the counts Close     *)
(* relies on.                                                              *)

Work == DrainInProgress /\ UsersAreInside

Shutdown ==
    /\ OpeningsCounted
    /\ NothingPublishedAfterClose
    /\ ClosingIsClosed
    /\ down => closed /\ openings = {}

LEMMA ReturnMoves ==
    ASSUME NEW p \in Procs, LocalTyped, Return(p)
    PROVE  /\ pc' = [pc EXCEPT ![p] = "idle"]
           /\ held' = [held EXCEPT ![p] = None]
           /\ op' = [op EXCEPT ![p] = None]
           /\ \A q \in Procs \ {p} : held'[q] = held[q]
BY DEF Return, LocalTyped

LEMMA RegisterFailedMoves ==
    ASSUME NEW p \in Procs, LocalTyped, RegisterFailed(p)
    PROVE  /\ \/ pc' = [pc EXCEPT ![p] = "idle"] /\ op' = [op EXCEPT ![p] = None]
              \/ /\ pc' = [pc EXCEPT ![p] = "rollback"]
                 /\ op' = op /\ op[p] = "configure"
           /\ \A q \in Procs \ {p} : held'[q] = held[q]
BY ReturnMoves DEF RegisterFailed

\* A goroutine that leaves register for its caller, counted or not, keeps the
\* counts right.
LEMMA ShutdownKept ==
    ASSUME NEW p \in Procs, Typed, Shutdown, UNCHANGED <<entries, closed, down>>,
           openings' = openings \ {p},
           \/ pc' = [pc EXCEPT ![p] = "idle"] /\ op' = [op EXCEPT ![p] = None]
           \/ pc' = [pc EXCEPT ![p] = "rollback"] /\ op' = op /\ op[p] = "configure"
    PROVE  Shutdown'
<1>1. pc \in [Procs -> Labels] /\ op \in [Procs -> Operations \cup {None}] /\ openings \in SUBSET Procs
  BY DEF Typed, SharedTyped, LocalTyped
<1>2. OpeningsCounted'
  BY <1>1 DEF Shutdown, OpeningsCounted, RegisterLabels
<1>3. ClosingIsClosed'
  BY <1>1 DEF Shutdown, ClosingIsClosed
<1>4. QED
  BY <1>2, <1>3 DEF Shutdown, NothingPublishedAfterClose, Registered

\* The two halves of UsersAreInside after a step, for the steps that move a
\* wait group, an entry or a drain.
LEMMA UsersStayInside ==
    ASSUME \A c \in Ids : \A q \in wg'[c] : pc'[q] = "using" /\ held'[q] = c,
           \A c \in Ids : wg'[c] # {} =>
               (\E n \in Names : entries'[n] = c) \/ (\E q \in Procs : c \in toDrain'[q])
    PROVE  UsersAreInside'
BY DEF UsersAreInside

\* A goroutine that moves between labels outside draining and running
\* disturbs neither.
LEMMA WorkKept ==
    ASSUME NEW p \in Procs, Typed, Work, UNCHANGED <<entries, wg, toDrain>>,
           pc[p] \notin {"reserveRemoved", "notifyRemoved", "drain", "waitDrained",
                          "closeClient", "using"},
           \E label \in {"idle", "rollback", "driverOpen", "configure", "removed"} :
               pc' = [pc EXCEPT ![p] = label],
           \A q \in Procs \ {p} : held'[q] = held[q]
    PROVE  Work'
<1>1. pc \in [Procs -> Labels] /\ wg \in [Ids -> SUBSET Procs]
  BY DEF Typed, SharedTyped, LocalTyped
<1>2. \A q \in Procs \ {p} : pc'[q] = pc[q]
  BY <1>1
<1>3. pc'[p] \notin {"waitDrained", "closeClient", "using"} /\ toDrain[p] = {}
  BY <1>1 DEF Work, DrainInProgress
<1>4. DrainInProgress'
  BY <1>2, <1>3 DEF Work, DrainInProgress
<1>5. UsersAreInside'
  BY <1>1, <1>2, <1>3 DEF Work, UsersAreInside
<1>6. QED
  BY <1>4, <1>5 DEF Work

LEMMA CallWork ==
    ASSUME NEW p \in Procs, Typed, Ownership, Work, Call(p) PROVE Work'
<1>0. SharedTyped /\ LocalTyped
  BY DEF Typed
<1> USE <1>0, NoneAssumption DEF Work, LocalTyped, SharedTyped
<1>1. ASSUME NEW d \in Drivers, RegisterDriver(p, d) PROVE Work'
  <2>1. DrainInProgress'
    BY <1>1 DEF RegisterDriver, DrainInProgress
  <2>2. UsersAreInside'
    BY <1>1 DEF RegisterDriver, UsersAreInside
  <2>3. QED
    BY <2>1, <2>2
<1>2. ASSUME NEW n \in Names, CallNamed(p, "open", "register", n) PROVE Work'
  <2>1. DrainInProgress'
    BY <1>2 DEF CallNamed, DrainInProgress
  <2>2. UsersAreInside'
    BY <1>2 DEF CallNamed, UsersAreInside
  <2>3. QED
    BY <2>1, <2>2
<1>3. ASSUME NEW n \in Names, CallNamed(p, "remove", "remove", n) PROVE Work'
  <2>1. DrainInProgress'
    BY <1>3 DEF CallNamed, DrainInProgress
  <2>2. UsersAreInside'
    BY <1>3 DEF CallNamed, UsersAreInside
  <2>3. QED
    BY <2>1, <2>2
<1>4. ASSUME NEW n \in Names, CallNamed(p, "run", "acquire", n) PROVE Work'
  <2>1. DrainInProgress'
    BY <1>4 DEF CallNamed, DrainInProgress
  <2>2. UsersAreInside'
    BY <1>4 DEF CallNamed, UsersAreInside
  <2>3. QED
    BY <2>1, <2>2
<1>5. ASSUME NEW n \in Names, CallNamed(p, "sourceRun", "acquire", n) PROVE Work'
  <2>1. DrainInProgress'
    BY <1>5 DEF CallNamed, DrainInProgress
  <2>2. UsersAreInside'
    BY <1>5 DEF CallNamed, UsersAreInside
  <2>3. QED
    BY <2>1, <2>2
<1>6. ASSUME NEW n \in Names, NewSource(p, n) PROVE Work'
  <2>1. DrainInProgress'
    BY <1>6 DEF NewSource, DrainInProgress
  <2>2. UsersAreInside'
    BY <1>6 DEF NewSource, UsersAreInside
  <2>3. QED
    BY <2>1, <2>2
<1>7. ASSUME NEW S \in SUBSET Names, CallConfigure(p, S) PROVE Work'
  <2>1. DrainInProgress'
    BY <1>7 DEF CallConfigure, DrainInProgress
  <2>2. UsersAreInside'
    BY <1>7 DEF CallConfigure, UsersAreInside
  <2>3. QED
    BY <2>1, <2>2
<1>8. ASSUME CallClose(p) PROVE Work'
  <2>1. DrainInProgress'
    BY <1>8 DEF CallClose, DrainInProgress
  <2>2. UsersAreInside'
    BY <1>8 DEF CallClose, UsersAreInside
  <2>3. QED
    BY <2>1, <2>2
<1>9. QED
  BY <1>1, <1>2, <1>3, <1>4, <1>5, <1>6, <1>7, <1>8 DEF Call

LEMMA RegisterWork ==
    ASSUME NEW p \in Procs, Typed, Ownership, Work, RegisterStep(p) PROVE Work'
<1>0. SharedTyped /\ LocalTyped
  BY DEF Typed
<1> USE <1>0, NoneAssumption DEF Work, LocalTyped, SharedTyped
<1>1. ASSUME RegisterAdmit(p) PROVE Work'
  <2>1. UNCHANGED <<entries, wg, toDrain>> /\ pc[p] = "register"
    BY <1>1 DEF RegisterAdmit
  <2>2. \E label \in {"idle", "rollback", "driverOpen"} : pc' = [pc EXCEPT ![p] = label]
    BY <1>1, RegisterFailedMoves DEF RegisterAdmit
  <2>3. \A q \in Procs \ {p} : held'[q] = held[q]
    BY <1>1, RegisterFailedMoves DEF RegisterAdmit
  <2>4. QED
    BY <2>1, <2>2, <2>3, WorkKept
<1>2. ASSUME NEW c \in Ids, DriverOpens(p, c) PROVE Work'
  <2>1. DrainInProgress'
    BY <1>2 DEF DriverOpens, DrainInProgress
  <2>2. UsersAreInside'
    BY <1>2 DEF DriverOpens, UsersAreInside
  <2>3. QED
    BY <2>1, <2>2
<1>3. ASSUME DriverFails(p) PROVE Work'
  <2>1. DrainInProgress'
    BY <1>3 DEF DriverFails, DrainInProgress
  <2>2. UsersAreInside'
    BY <1>3 DEF DriverFails, UsersAreInside
  <2>3. QED
    BY <2>1, <2>2
<1>4. ASSUME DriverPanics(p) PROVE Work'
  <2>1. DrainInProgress'
    BY <1>4 DEF DriverPanics, Return, DrainInProgress
  <2>2. UsersAreInside'
    BY <1>4 DEF DriverPanics, Return, UsersAreInside
  <2>3. QED
    BY <2>1, <2>2
<1>5. ASSUME PoolApplied(p) PROVE Work'
  <2>1. DrainInProgress'
    BY <1>5 DEF PoolApplied, DrainInProgress
  <2>2. UsersAreInside'
    BY <1>5 DEF PoolApplied, UsersAreInside
  <2>3. QED
    BY <2>1, <2>2
<1>6. ASSUME PoolPanics(p) PROVE Work'
  <2>1. DrainInProgress'
    BY <1>6 DEF PoolPanics, Return, DrainInProgress
  <2>2. UsersAreInside'
    BY <1>6 DEF PoolPanics, Return, UsersAreInside
  <2>3. QED
    BY <2>1, <2>2
<1>7. ASSUME Publish(p) PROVE Work'
  <2>1. held[p] \in Ids /\ name[p] \in Names /\ Owns(p, held[p])
    BY <1>7 DEF Publish, LocalsOK, RegisterLabels, Owns
  <2>2. /\ UNCHANGED <<wg, toDrain, held>>
        /\ pc[p] = "publish"
        /\ \E label \in {"discard", "reserveRegistered"} : pc' = [pc EXCEPT ![p] = label]
    BY <1>7 DEF Publish
  <2>3. \A n \in Names : entries[n] # None => entries'[n] = entries[n]
    BY <1>7 DEF Publish
  <2>4. DrainInProgress'
    BY <2>2 DEF DrainInProgress
  <2>5. UsersAreInside'
    <3>1. ASSUME NEW c \in Ids PROVE \A q \in wg'[c] : pc'[q] = "using" /\ held'[q] = c
      BY <2>2 DEF UsersAreInside
    <3>2. ASSUME NEW c \in Ids, wg'[c] # {}
          PROVE  (\E n \in Names : entries'[n] = c) \/ (\E q \in Procs : c \in toDrain'[q])
      <4>1. CASE \E n \in Names : entries[n] = c
        BY <2>3, <4>1
      <4>2. CASE \E q \in Procs : c \in toDrain[q]
        BY <2>2, <4>2
      <4>3. QED
        BY <2>2, <3>2, <4>1, <4>2 DEF UsersAreInside
    <3>3. QED
      BY <3>1, <3>2, UsersStayInside
  <2>6. QED
    BY <2>4, <2>5
<1>8. ASSUME DiscardClient(p) PROVE Work'
  <2>1. DrainInProgress'
    BY <1>8 DEF DiscardClient, DrainInProgress
  <2>2. UsersAreInside'
    BY <1>8 DEF DiscardClient, UsersAreInside
  <2>3. QED
    BY <2>1, <2>2
<1>9. ASSUME Reserve(p, "reserveRegistered", "notifyRegistered") PROVE Work'
  <2>1. DrainInProgress'
    BY <1>9 DEF Reserve, DrainInProgress
  <2>2. UsersAreInside'
    BY <1>9 DEF Reserve, UsersAreInside
  <2>3. QED
    BY <2>1, <2>2
<1>10. ASSUME NotifyRegistered(p) PROVE Work'
  <2>1. DrainInProgress'
    BY <1>10 DEF NotifyRegistered, DrainInProgress
  <2>2. UsersAreInside'
    BY <1>10 DEF NotifyRegistered, UsersAreInside
  <2>3. QED
    BY <2>1, <2>2
<1>11. ASSUME RegisterReturns(p) PROVE Work'
  <2>1. UNCHANGED <<entries, wg, toDrain>> /\ pc[p] = "registered"
    BY <1>11 DEF RegisterReturns
  <2>2. CASE RegisterFailed(p)
    BY <2>1, <2>2, RegisterFailedMoves, WorkKept
  <2>3. CASE Return(p)
    BY <2>1, <2>3, ReturnMoves, WorkKept
  <2>4. CASE pc' = [pc EXCEPT ![p] = "configure"] /\ held' = [held EXCEPT ![p] = None]
    BY <2>1, <2>4, WorkKept
  <2>5. QED
    BY <1>11, <2>2, <2>3, <2>4 DEF RegisterReturns
<1>12. QED
  BY <1>1, <1>2, <1>3, <1>4, <1>5, <1>6, <1>7, <1>8, <1>9, <1>10, <1>11 DEF RegisterStep

LEMMA ConfigureWork ==
    ASSUME NEW p \in Procs, Typed, Ownership, Work, ConfigureStep(p) PROVE Work'
<1>0. SharedTyped /\ LocalTyped
  BY DEF Typed
<1> USE <1>0, NoneAssumption DEF Work, LocalTyped, SharedTyped
<1>1. ASSUME NEW n \in Names, ConfigureNext(p, n) PROVE Work'
  <2>1. DrainInProgress'
    BY <1>1 DEF ConfigureNext, DrainInProgress
  <2>2. UsersAreInside'
    BY <1>1 DEF ConfigureNext, UsersAreInside
  <2>3. QED
    BY <2>1, <2>2
<1>2. ASSUME ConfigureSucceeds(p) PROVE Work'
  <2>1. UNCHANGED <<entries, wg, toDrain>> /\ pc[p] = "configure"
    BY <1>2 DEF ConfigureSucceeds
  <2>2. pc' = [pc EXCEPT ![p] = "idle"] /\ \A q \in Procs \ {p} : held'[q] = held[q]
    BY <1>2, ReturnMoves DEF ConfigureSucceeds
  <2>3. QED
    BY <2>1, <2>2, WorkKept
<1>3. ASSUME RollbackNext(p) PROVE Work'
  <2>1. DrainInProgress'
    BY <1>3 DEF RollbackNext, DrainInProgress
  <2>2. UsersAreInside'
    BY <1>3 DEF RollbackNext, UsersAreInside
  <2>3. QED
    BY <2>1, <2>2
<1>4. ASSUME RollbackEnds(p) PROVE Work'
  <2>1. DrainInProgress'
    BY <1>4 DEF RollbackEnds, DrainInProgress
  <2>2. UsersAreInside'
    BY <1>4 DEF RollbackEnds, UsersAreInside
  <2>3. QED
    BY <2>1, <2>2
<1>5. ASSUME ConfigureFails(p) PROVE Work'
  <2>1. DrainInProgress'
    BY <1>5 DEF ConfigureFails, Return, DrainInProgress
  <2>2. UsersAreInside'
    BY <1>5 DEF ConfigureFails, Return, UsersAreInside
  <2>3. QED
    BY <2>1, <2>2
<1>6. QED
  BY <1>1, <1>2, <1>3, <1>4, <1>5 DEF ConfigureStep

LEMMA RemoveWork ==
    ASSUME NEW p \in Procs, Typed, Ownership, Work, RemoveStep(p) PROVE Work'
<1>0. SharedTyped /\ LocalTyped
  BY DEF Typed
<1> USE <1>0, NoneAssumption DEF Work, LocalTyped, SharedTyped
<1>1. ASSUME Detach(p) PROVE Work'
  <2>1. name[p] \in Names /\ pc[p] = "remove" /\ toDrain[p] = {}
    BY <1>1 DEF Detach, LocalsOK, DrainInProgress
  <2>2. CASE ~RemoveMatches(p)
    <3>1. UNCHANGED <<entries, wg, toDrain, held>> /\ pc' = [pc EXCEPT ![p] = "removed"]
      BY <1>1, <2>2 DEF Detach
    <3>2. QED
      BY <2>1, <3>1, WorkKept
  <2>3. CASE RemoveMatches(p)
    <3>1. /\ entries' = [entries EXCEPT ![name[p]] = None]
          /\ toDrain' = [toDrain EXCEPT ![p] = {entries[name[p]]}]
          /\ pc' = [pc EXCEPT ![p] = "reserveRemoved"]
          /\ UNCHANGED <<wg, held>>
      BY <1>1, <2>3 DEF Detach
    <3>2. DrainInProgress'
      BY <2>1, <3>1 DEF DrainInProgress
    <3>3. ASSUME NEW c \in Ids PROVE \A q \in wg'[c] : pc'[q] = "using" /\ held'[q] = c
      BY <2>1, <3>1 DEF UsersAreInside
    <3>4. ASSUME NEW c \in Ids, wg'[c] # {}
          PROVE  (\E n \in Names : entries'[n] = c) \/ (\E q \in Procs : c \in toDrain'[q])
      <4>1. CASE c = entries[name[p]]
        BY <3>1, <4>1
      <4>2. CASE c # entries[name[p]] /\ \E n \in Names : entries[n] = c
        BY <2>1, <3>1, <4>2
      <4>3. CASE \E q \in Procs : c \in toDrain[q]
        BY <2>1, <3>1, <4>3
      <4>4. QED
        BY <3>1, <3>4, <4>1, <4>2, <4>3 DEF UsersAreInside
    <3>5. QED
      BY <3>2, <3>3, <3>4, UsersStayInside
  <2>4. QED
    BY <2>2, <2>3
<1>2. ASSUME DetachAll(p) PROVE Work'
  <2>1. pc[p] = "removeAll" /\ toDrain[p] = {}
    BY <1>2 DEF DetachAll, DrainInProgress
  <2>2. /\ toDrain' = [toDrain EXCEPT ![p] = {entries[n] : n \in Registered}]
        /\ pc' = [pc EXCEPT ![p] = "reserveRemoved"]
        /\ UNCHANGED <<wg, held>>
    BY <1>2 DEF DetachAll
  <2>3. \A c \in Ids : c \in toDrain'[p] <=> \E n \in Names : entries[n] = c
    BY <2>2 DEF Registered
  <2>4. DrainInProgress'
    BY <2>1, <2>2 DEF DrainInProgress
  <2>5. ASSUME NEW c \in Ids PROVE \A q \in wg'[c] : pc'[q] = "using" /\ held'[q] = c
    BY <2>1, <2>2 DEF UsersAreInside
  <2>6. ASSUME NEW c \in Ids, wg'[c] # {} PROVE \E q \in Procs : c \in toDrain'[q]
    BY <2>1, <2>2, <2>3, <2>6 DEF UsersAreInside
  <2>7. QED
    BY <2>4, <2>5, <2>6, UsersStayInside
<1>3. ASSUME Reserve(p, "reserveRemoved", "notifyRemoved") PROVE Work'
  <2>1. DrainInProgress'
    BY <1>3 DEF Reserve, DrainInProgress
  <2>2. UsersAreInside'
    BY <1>3 DEF Reserve, UsersAreInside
  <2>3. QED
    BY <2>1, <2>2
<1>4. ASSUME NEW n \in Names, NotifyRemoved(p, n) PROVE Work'
  <2>1. DrainInProgress'
    BY <1>4 DEF NotifyRemoved, DrainInProgress
  <2>2. UsersAreInside'
    BY <1>4 DEF NotifyRemoved, UsersAreInside
  <2>3. QED
    BY <2>1, <2>2
<1>5. ASSUME NotifyDone(p) PROVE Work'
  <2>1. DrainInProgress'
    BY <1>5 DEF NotifyDone, DrainInProgress
  <2>2. UsersAreInside'
    BY <1>5 DEF NotifyDone, UsersAreInside
  <2>3. QED
    BY <2>1, <2>2
<1>6. ASSUME NEW c \in Ids, DrainNext(p, c) PROVE Work'
  <2>1. DrainInProgress'
    BY <1>6 DEF DrainNext, DrainInProgress
  <2>2. UsersAreInside'
    BY <1>6 DEF DrainNext, UsersAreInside
  <2>3. QED
    BY <2>1, <2>2
<1>7. ASSUME WaitDrained(p) PROVE Work'
  <2>1. DrainInProgress'
    BY <1>7 DEF WaitDrained, DrainInProgress
  <2>2. UsersAreInside'
    BY <1>7 DEF WaitDrained, UsersAreInside
  <2>3. QED
    BY <2>1, <2>2
<1>8. ASSUME CloseClient(p) PROVE Work'
  <2>1. /\ held[p] \in Ids /\ held[p] \in toDrain[p] /\ wg[held[p]] = {}
        /\ pc[p] = "closeClient"
    BY <1>8 DEF CloseClient, LocalsOK, DrainInProgress
  <2>2. /\ toDrain' = [toDrain EXCEPT ![p] = @ \ {held[p]}]
        /\ pc' = [pc EXCEPT ![p] = "drain"]
        /\ held' = [held EXCEPT ![p] = None]
        /\ UNCHANGED <<wg, entries>>
    BY <1>8 DEF CloseClient
  <2>3. DrainInProgress'
    BY <2>1, <2>2 DEF DrainInProgress
  <2>4. ASSUME NEW c \in Ids PROVE \A q \in wg'[c] : pc'[q] = "using" /\ held'[q] = c
    BY <2>1, <2>2 DEF UsersAreInside
  <2>5. ASSUME NEW c \in Ids, wg'[c] # {}
        PROVE  (\E n \in Names : entries'[n] = c) \/ (\E q \in Procs : c \in toDrain'[q])
    <3>1. c # held[p] /\ wg[c] # {}
      BY <2>1, <2>2, <2>5
    <3>2. \A q \in Procs : c \in toDrain[q] => c \in toDrain'[q]
      BY <2>2, <3>1
    <3>3. QED
      BY <2>2, <3>1, <3>2 DEF UsersAreInside
  <2>6. QED
    BY <2>3, <2>4, <2>5, UsersStayInside
<1>9. ASSUME DrainDone(p) PROVE Work'
  <2>1. DrainInProgress'
    BY <1>9 DEF DrainDone, DrainInProgress
  <2>2. UsersAreInside'
    BY <1>9 DEF DrainDone, UsersAreInside
  <2>3. QED
    BY <2>1, <2>2
<1>10. ASSUME RemoveReturns(p) PROVE Work'
  <2>1. UNCHANGED <<entries, wg, toDrain>> /\ pc[p] = "removed"
    BY <1>10 DEF RemoveReturns
  <2>2. \E label \in {"idle", "rollback"} : pc' = [pc EXCEPT ![p] = label]
    BY <1>10, ReturnMoves DEF RemoveReturns
  <2>3. \A q \in Procs \ {p} : held'[q] = held[q]
    BY <1>10, ReturnMoves DEF RemoveReturns
  <2>4. QED
    BY <2>1, <2>2, <2>3, WorkKept
<1>11. ASSUME AwaitOpenings(p) PROVE Work'
  <2>1. DrainInProgress'
    BY <1>11 DEF AwaitOpenings, Return, DrainInProgress
  <2>2. UsersAreInside'
    BY <1>11 DEF AwaitOpenings, Return, UsersAreInside
  <2>3. QED
    BY <2>1, <2>2
<1>12. QED
  BY <1>1, <1>2, <1>3, <1>4, <1>5, <1>6, <1>7, <1>8, <1>9, <1>10, <1>11 DEF RemoveStep

LEMMA RunWork ==
    ASSUME NEW p \in Procs, Typed, Ownership, Work, RunStep(p) PROVE Work'
<1>0. SharedTyped /\ LocalTyped
  BY DEF Typed
<1> USE <1>0, NoneAssumption DEF Work, LocalTyped, SharedTyped
<1>1. ASSUME Acquire(p) PROVE Work'
  <2>1. name[p] \in Names /\ pc[p] = "acquire"
    BY <1>1 DEF Acquire, LocalsOK
  <2>2. CASE ~AcquireMatches(p)
    <3>1. UNCHANGED <<entries, wg, toDrain>> /\ Return(p)
      BY <1>1, <2>2 DEF Acquire
    <3>2. QED
      BY <2>1, <3>1, ReturnMoves, WorkKept
  <2>3. CASE AcquireMatches(p)
    <3> DEFINE got == entries[name[p]]
    <3>1. got \in Ids
      BY <2>1, <2>3 DEF AcquireMatches
    <3>2. /\ wg' = [wg EXCEPT ![got] = @ \cup {p}]
          /\ held' = [held EXCEPT ![p] = got]
          /\ pc' = [pc EXCEPT ![p] = "using"]
          /\ UNCHANGED <<entries, toDrain>>
      BY <1>1, <2>3 DEF Acquire
    <3>3. \A q \in Procs : got \notin toDrain[q]
      BY <2>1, <3>1 DEF Ownership, RegisteredIsOpen, Owns
    <3>4. DrainInProgress'
      BY <2>1, <3>1, <3>2, <3>3 DEF DrainInProgress
    <3>5. \A c \in Ids : p \notin wg[c]
      BY <2>1 DEF UsersAreInside
    <3>6. ASSUME NEW c \in Ids PROVE \A q \in wg'[c] : pc'[q] = "using" /\ held'[q] = c
      <4>1. CASE c = got
        BY <3>1, <3>2, <3>5, <4>1 DEF UsersAreInside
      <4>2. CASE c # got
        BY <3>1, <3>2, <3>5, <4>2 DEF UsersAreInside
      <4>3. QED
        BY <4>1, <4>2
    <3>7. ASSUME NEW c \in Ids, wg'[c] # {}
          PROVE  (\E n \in Names : entries'[n] = c) \/ (\E q \in Procs : c \in toDrain'[q])
      <4>1. CASE c = got
        BY <2>1, <3>2, <4>1
      <4>2. CASE c # got
        <5>1. wg[c] # {}
          BY <3>1, <3>2, <3>7, <4>2
        <5>2. QED
          BY <3>2, <5>1 DEF UsersAreInside
      <4>3. QED
        BY <4>1, <4>2
    <3>8. QED
      BY <3>4, <3>6, <3>7, UsersStayInside
  <2>4. QED
    BY <2>2, <2>3
<1>2. ASSUME Release(p) PROVE Work'
  <2>1. held[p] \in Ids /\ pc[p] = "using" /\ toDrain[p] = {}
    BY <1>2 DEF Release, LocalsOK, DrainInProgress
  <2>2. /\ wg' = [wg EXCEPT ![held[p]] = @ \ {p}]
        /\ held' = [held EXCEPT ![p] = None]
        /\ pc' = [pc EXCEPT ![p] = "idle"]
        /\ UNCHANGED <<entries, toDrain>>
    BY <1>2, ReturnMoves DEF Release
  <2>3. \A c \in Ids : wg'[c] \subseteq wg[c]
    BY <2>1, <2>2
  <2>4. DrainInProgress'
    BY <2>1, <2>2, <2>3 DEF DrainInProgress
  <2>5. \A c \in Ids : p \notin wg'[c]
    BY <2>1, <2>2 DEF UsersAreInside
  <2>6. ASSUME NEW c \in Ids PROVE \A q \in wg'[c] : pc'[q] = "using" /\ held'[q] = c
    BY <2>2, <2>3, <2>5 DEF UsersAreInside
  <2>7. ASSUME NEW c \in Ids, wg'[c] # {}
        PROVE  (\E n \in Names : entries'[n] = c) \/ (\E q \in Procs : c \in toDrain'[q])
    BY <2>2, <2>3, <2>7 DEF UsersAreInside
  <2>8. QED
    BY <2>4, <2>6, <2>7, UsersStayInside
<1>3. QED
  BY <1>1, <1>2 DEF RunStep

LEMMA CallShutdown ==
    ASSUME NEW p \in Procs, Typed, Shutdown, Call(p) PROVE Shutdown'
<1>0. SharedTyped /\ LocalTyped
  BY DEF Typed
<1> USE <1>0, NoneAssumption DEF Shutdown, LocalTyped, SharedTyped
<1>1. ASSUME NEW d \in Drivers, RegisterDriver(p, d) PROVE Shutdown'
  BY <1>1 DEF RegisterDriver, OpeningsCounted, RegisterLabels, ClosingIsClosed,
     NothingPublishedAfterClose, Registered
<1>2. ASSUME NEW n \in Names, CallNamed(p, "open", "register", n) PROVE Shutdown'
  BY <1>2 DEF CallNamed, OpeningsCounted, RegisterLabels, ClosingIsClosed,
     NothingPublishedAfterClose, Registered
<1>3. ASSUME NEW n \in Names, CallNamed(p, "remove", "remove", n) PROVE Shutdown'
  BY <1>3 DEF CallNamed, OpeningsCounted, RegisterLabels, ClosingIsClosed,
     NothingPublishedAfterClose, Registered
<1>4. ASSUME NEW n \in Names, CallNamed(p, "run", "acquire", n) PROVE Shutdown'
  BY <1>4 DEF CallNamed, OpeningsCounted, RegisterLabels, ClosingIsClosed,
     NothingPublishedAfterClose, Registered
<1>5. ASSUME NEW n \in Names, CallNamed(p, "sourceRun", "acquire", n) PROVE Shutdown'
  BY <1>5 DEF CallNamed, OpeningsCounted, RegisterLabels, ClosingIsClosed,
     NothingPublishedAfterClose, Registered
<1>6. ASSUME NEW n \in Names, NewSource(p, n) PROVE Shutdown'
  BY <1>6 DEF NewSource, OpeningsCounted, RegisterLabels, ClosingIsClosed,
     NothingPublishedAfterClose, Registered
<1>7. ASSUME NEW S \in SUBSET Names, CallConfigure(p, S) PROVE Shutdown'
  BY <1>7 DEF CallConfigure, OpeningsCounted, RegisterLabels, ClosingIsClosed,
     NothingPublishedAfterClose, Registered
<1>8. ASSUME CallClose(p) PROVE Shutdown'
  BY <1>8 DEF CallClose, OpeningsCounted, RegisterLabels, ClosingIsClosed,
     NothingPublishedAfterClose, Registered
<1>9. QED
  BY <1>1, <1>2, <1>3, <1>4, <1>5, <1>6, <1>7, <1>8 DEF Call

LEMMA RegisterShutdown ==
    ASSUME NEW p \in Procs, Typed, Shutdown, RegisterStep(p) PROVE Shutdown'
<1>0. SharedTyped /\ LocalTyped
  BY DEF Typed
<1> USE <1>0, NoneAssumption DEF Shutdown, LocalTyped, SharedTyped
<1>1. ASSUME RegisterAdmit(p) PROVE Shutdown'
  <2>1. UNCHANGED <<entries, closed, down>> /\ pc[p] = "register"
    BY <1>1 DEF RegisterAdmit
  <2>2. CASE closed \/ entries[name[p]] # None
    <3>1. RegisterFailed(p) /\ openings' = openings \ {p}
      BY <1>1, <2>1, <2>2 DEF RegisterAdmit, OpeningsCounted, RegisterLabels
    <3>2. QED
      BY <2>1, <3>1, RegisterFailedMoves, ShutdownKept
  <2>3. CASE ~(closed \/ entries[name[p]] # None)
    <3>1. /\ openings' = openings \cup {p}
          /\ pc' = [pc EXCEPT ![p] = "driverOpen"]
          /\ op' = op
      BY <1>1, <2>3 DEF RegisterAdmit
    <3>2. OpeningsCounted'
      BY <2>1, <3>1 DEF OpeningsCounted, RegisterLabels
    <3>3. ClosingIsClosed'
      BY <2>1, <3>1 DEF ClosingIsClosed
    <3>4. QED
      BY <2>1, <2>3, <3>2, <3>3 DEF NothingPublishedAfterClose, Registered
  <2>4. QED
    BY <2>2, <2>3
<1>2. ASSUME NEW c \in Ids, DriverOpens(p, c) PROVE Shutdown'
  BY <1>2 DEF DriverOpens, OpeningsCounted, RegisterLabels, ClosingIsClosed,
     NothingPublishedAfterClose, Registered
<1>3. ASSUME DriverFails(p) PROVE Shutdown'
  BY <1>3 DEF DriverFails, OpeningsCounted, RegisterLabels, ClosingIsClosed,
     NothingPublishedAfterClose, Registered
<1>4. ASSUME DriverPanics(p) PROVE Shutdown'
  <2>1. /\ UNCHANGED <<entries, closed, down>> /\ openings' = openings \ {p}
        /\ pc[p] = "driverOpen"
    BY <1>4 DEF DriverPanics
  <2>2. QED
    BY <1>4, <2>1, ReturnMoves, ShutdownKept DEF DriverPanics
<1>5. ASSUME PoolApplied(p) PROVE Shutdown'
  BY <1>5 DEF PoolApplied, OpeningsCounted, RegisterLabels, ClosingIsClosed,
     NothingPublishedAfterClose, Registered
<1>6. ASSUME PoolPanics(p) PROVE Shutdown'
  <2>1. /\ UNCHANGED <<entries, closed, down>> /\ openings' = openings \ {p}
        /\ pc[p] = "applyPool"
    BY <1>6 DEF PoolPanics
  <2>2. QED
    BY <1>6, <2>1, ReturnMoves, ShutdownKept DEF PoolPanics
<1>7. ASSUME Publish(p) PROVE Shutdown'
  <2>1. /\ UNCHANGED <<openings, closed, down, op>> /\ pc[p] = "publish"
        /\ \E label \in {"discard", "reserveRegistered"} : pc' = [pc EXCEPT ![p] = label]
    BY <1>7 DEF Publish
  <2>2. OpeningsCounted' /\ ClosingIsClosed'
    BY <2>1 DEF OpeningsCounted, ClosingIsClosed, RegisterLabels
  <2>3. closed => UNCHANGED entries
    BY <1>7 DEF Publish
  <2>4. NothingPublishedAfterClose'
    BY <2>1, <2>3 DEF NothingPublishedAfterClose, Registered
  <2>5. QED
    BY <2>1, <2>2, <2>4
<1>8. ASSUME DiscardClient(p) PROVE Shutdown'
  BY <1>8 DEF DiscardClient, OpeningsCounted, RegisterLabels, ClosingIsClosed,
     NothingPublishedAfterClose, Registered
<1>9. ASSUME Reserve(p, "reserveRegistered", "notifyRegistered") PROVE Shutdown'
  BY <1>9 DEF Reserve, OpeningsCounted, RegisterLabels, ClosingIsClosed,
     NothingPublishedAfterClose, Registered
<1>10. ASSUME NotifyRegistered(p) PROVE Shutdown'
  BY <1>10 DEF NotifyRegistered, OpeningsCounted, RegisterLabels, ClosingIsClosed,
     NothingPublishedAfterClose, Registered
<1>11. ASSUME RegisterReturns(p) PROVE Shutdown'
  <2>1. /\ UNCHANGED <<entries, closed, down>> /\ openings' = openings \ {p}
        /\ pc[p] = "registered"
    BY <1>11 DEF RegisterReturns
  <2>2. CASE RegisterFailed(p)
    BY <2>1, <2>2, RegisterFailedMoves, ShutdownKept
  <2>3. CASE Return(p)
    BY <2>1, <2>3, ReturnMoves, ShutdownKept
  <2>4. CASE pc' = [pc EXCEPT ![p] = "configure"] /\ op' = op
    <3>1. OpeningsCounted'
      BY <2>1, <2>4 DEF OpeningsCounted, RegisterLabels
    <3>2. ClosingIsClosed'
      BY <2>1, <2>4 DEF ClosingIsClosed
    <3>3. QED
      BY <2>1, <3>1, <3>2 DEF NothingPublishedAfterClose, Registered
  <2>5. QED
    BY <1>11, <2>2, <2>3, <2>4 DEF RegisterReturns
<1>12. QED
  BY <1>1, <1>2, <1>3, <1>4, <1>5, <1>6, <1>7, <1>8, <1>9, <1>10, <1>11 DEF RegisterStep

LEMMA ConfigureShutdown ==
    ASSUME NEW p \in Procs, Typed, Shutdown, ConfigureStep(p) PROVE Shutdown'
<1>0. SharedTyped /\ LocalTyped
  BY DEF Typed
<1> USE <1>0, NoneAssumption DEF Shutdown, LocalTyped, SharedTyped
<1>1. ASSUME NEW n \in Names, ConfigureNext(p, n) PROVE Shutdown'
  BY <1>1 DEF ConfigureNext, OpeningsCounted, RegisterLabels, ClosingIsClosed,
     NothingPublishedAfterClose, Registered
<1>2. ASSUME ConfigureSucceeds(p) PROVE Shutdown'
  BY <1>2 DEF ConfigureSucceeds, Return, OpeningsCounted, RegisterLabels,
     ClosingIsClosed, NothingPublishedAfterClose, Registered
<1>3. ASSUME RollbackNext(p) PROVE Shutdown'
  BY <1>3 DEF RollbackNext, OpeningsCounted, RegisterLabels, ClosingIsClosed,
     NothingPublishedAfterClose, Registered
<1>4. ASSUME RollbackEnds(p) PROVE Shutdown'
  BY <1>4 DEF RollbackEnds, OpeningsCounted, RegisterLabels, ClosingIsClosed,
     NothingPublishedAfterClose, Registered
<1>5. ASSUME ConfigureFails(p) PROVE Shutdown'
  BY <1>5 DEF ConfigureFails, Return, OpeningsCounted, RegisterLabels, ClosingIsClosed,
     NothingPublishedAfterClose, Registered
<1>6. QED
  BY <1>1, <1>2, <1>3, <1>4, <1>5 DEF ConfigureStep

LEMMA RemoveShutdown ==
    ASSUME NEW p \in Procs, Typed, Shutdown, RemoveStep(p) PROVE Shutdown'
<1>0. SharedTyped /\ LocalTyped
  BY DEF Typed
<1> USE <1>0, NoneAssumption DEF Shutdown, LocalTyped, SharedTyped
<1>1. ASSUME Detach(p) PROVE Shutdown'
  <2>1. /\ UNCHANGED <<openings, closed, down, op>> /\ pc[p] = "remove"
        /\ \E label \in {"removed", "reserveRemoved"} : pc' = [pc EXCEPT ![p] = label]
    BY <1>1 DEF Detach
  <2>2. OpeningsCounted' /\ ClosingIsClosed'
    BY <2>1 DEF OpeningsCounted, ClosingIsClosed, RegisterLabels
  <2>3. \A n \in Names : entries'[n] \in {entries[n], None}
    BY <1>1 DEF Detach
  <2>4. NothingPublishedAfterClose'
    BY <2>1, <2>3 DEF NothingPublishedAfterClose, Registered
  <2>5. QED
    BY <2>1, <2>2, <2>4
<1>2. ASSUME DetachAll(p) PROVE Shutdown'
  BY <1>2 DEF DetachAll, OpeningsCounted, RegisterLabels, ClosingIsClosed,
     NothingPublishedAfterClose, Registered
<1>3. ASSUME Reserve(p, "reserveRemoved", "notifyRemoved") PROVE Shutdown'
  BY <1>3 DEF Reserve, OpeningsCounted, RegisterLabels, ClosingIsClosed,
     NothingPublishedAfterClose, Registered
<1>4. ASSUME NEW n \in Names, NotifyRemoved(p, n) PROVE Shutdown'
  BY <1>4 DEF NotifyRemoved, OpeningsCounted, RegisterLabels, ClosingIsClosed,
     NothingPublishedAfterClose, Registered
<1>5. ASSUME NotifyDone(p) PROVE Shutdown'
  BY <1>5 DEF NotifyDone, OpeningsCounted, RegisterLabels, ClosingIsClosed,
     NothingPublishedAfterClose, Registered
<1>6. ASSUME NEW c \in Ids, DrainNext(p, c) PROVE Shutdown'
  BY <1>6 DEF DrainNext, OpeningsCounted, RegisterLabels, ClosingIsClosed,
     NothingPublishedAfterClose, Registered
<1>7. ASSUME WaitDrained(p) PROVE Shutdown'
  BY <1>7 DEF WaitDrained, OpeningsCounted, RegisterLabels, ClosingIsClosed,
     NothingPublishedAfterClose, Registered
<1>8. ASSUME CloseClient(p) PROVE Shutdown'
  BY <1>8 DEF CloseClient, OpeningsCounted, RegisterLabels, ClosingIsClosed,
     NothingPublishedAfterClose, Registered
<1>9. ASSUME DrainDone(p) PROVE Shutdown'
  BY <1>9 DEF DrainDone, OpeningsCounted, RegisterLabels, ClosingIsClosed,
     NothingPublishedAfterClose, Registered
<1>10. ASSUME RemoveReturns(p) PROVE Shutdown'
  <2>1. /\ UNCHANGED <<entries, closed, down>> /\ pc[p] = "removed"
        /\ openings' = openings \ {p}
    <3>1. UNCHANGED <<entries, closed, down, openings>> /\ pc[p] = "removed"
      BY <1>10 DEF RemoveReturns
    <3>2. p \notin openings
      BY <3>1 DEF OpeningsCounted, RegisterLabels
    <3>3. QED
      BY <3>1, <3>2
  <2>2. CASE op[p] = "configure"
    <3>1. pc' = [pc EXCEPT ![p] = "rollback"] /\ op' = op
      BY <1>10, <2>2 DEF RemoveReturns
    <3>2. QED
      BY <2>1, <2>2, <3>1, ShutdownKept
  <2>3. CASE op[p] # "configure"
    BY <1>10, <2>1, <2>3, ReturnMoves, ShutdownKept DEF RemoveReturns
  <2>4. QED
    BY <2>2, <2>3
<1>11. ASSUME AwaitOpenings(p) PROVE Shutdown'
  <2>1. /\ UNCHANGED <<entries, closed, openings>> /\ openings = {} /\ closed
        /\ pc[p] = "awaitOpenings"
    BY <1>11 DEF AwaitOpenings, ClosingIsClosed
  <2>2. pc' = [pc EXCEPT ![p] = "idle"] /\ op' = [op EXCEPT ![p] = None]
    BY <1>11, ReturnMoves DEF AwaitOpenings
  <2>3. OpeningsCounted' /\ ClosingIsClosed'
    BY <2>1, <2>2 DEF OpeningsCounted, ClosingIsClosed, RegisterLabels
  <2>4. QED
    BY <2>1, <2>3 DEF NothingPublishedAfterClose, Registered
<1>12. QED
  BY <1>1, <1>2, <1>3, <1>4, <1>5, <1>6, <1>7, <1>8, <1>9, <1>10, <1>11 DEF RemoveStep

LEMMA RunShutdown ==
    ASSUME NEW p \in Procs, Typed, Shutdown, RunStep(p) PROVE Shutdown'
<1>0. SharedTyped /\ LocalTyped
  BY DEF Typed
<1> USE <1>0, NoneAssumption DEF Shutdown, LocalTyped, SharedTyped
<1>1. ASSUME Acquire(p) PROVE Shutdown'
  <2>1. UNCHANGED <<entries, closed, down, openings>> /\ pc[p] = "acquire"
    BY <1>1 DEF Acquire
  <2>2. \/ pc' = [pc EXCEPT ![p] = "idle"] /\ op' = [op EXCEPT ![p] = None]
        \/ pc' = [pc EXCEPT ![p] = "using"] /\ op' = op
    BY <1>1, ReturnMoves DEF Acquire
  <2>3. OpeningsCounted'
    <3>1. pc'[p] \notin RegisterLabels /\ \A q \in Procs \ {p} : pc'[q] = pc[q]
      BY <2>2 DEF RegisterLabels
    <3>2. QED
      BY <2>1, <3>1 DEF OpeningsCounted, RegisterLabels
  <2>4. ClosingIsClosed'
    <3>1. CASE op' = op
      BY <2>1, <2>2, <3>1 DEF ClosingIsClosed
    <3>2. CASE op' = [op EXCEPT ![p] = None]
      BY <2>1, <2>2, <3>2 DEF ClosingIsClosed
    <3>3. QED
      BY <2>2, <3>1, <3>2
  <2>5. QED
    BY <2>1, <2>3, <2>4 DEF NothingPublishedAfterClose, Registered
<1>2. ASSUME Release(p) PROVE Shutdown'
  BY <1>2 DEF Release, Return, OpeningsCounted, RegisterLabels, ClosingIsClosed,
     NothingPublishedAfterClose, Registered
<1>3. QED
  BY <1>1, <1>2 DEF RunStep

----------------------------------------------------------------------------
(* The theorems.                                                           *)

LEMMA InvIsParts == DirectoryInv <=> Typed /\ Ownership /\ Work /\ Shutdown
BY TypedIsTypeOK DEF DirectoryInv, Ownership, Work, Shutdown

LEMMA InvIsPartsPrimed == (DirectoryInv <=> Typed /\ Ownership /\ Work /\ Shutdown)'
<1>1. Typed' <=> TypeOK' /\ LocalsOK'
  BY DEF Typed, SharedTyped, LocalTyped, TypeOK
<1>2. QED
  BY <1>1 DEF DirectoryInv, Ownership, Work, Shutdown

LEMMA InitInv == Init => DirectoryInv
<1> SUFFICES ASSUME Init PROVE DirectoryInv
  OBVIOUS
<1>1. \A p \in Procs, c \in Ids : ~Owns(p, c)
  BY NoneAssumption DEF Init, Owns
<1>2. Ownership
  BY <1>1 DEF Init, Ownership, RegisteredIsOpen, OwnedIsOpen, NoClientLost, Unopened,
     LeakedIsOpen, ClosedAtMostOnce
<1>3. Work
  BY DEF Init, Work, DrainInProgress, UsersAreInside
<1>4. Shutdown
  BY DEF Init, Shutdown, OpeningsCounted, RegisterLabels, ClosingIsClosed,
     NothingPublishedAfterClose
<1>5. QED
  BY <1>2, <1>3, <1>4, InitTyped, InvIsParts

LEMMA StutterInv == ASSUME DirectoryInv, UNCHANGED vars PROVE DirectoryInv'
<1>1. Typed'
  BY InvIsParts, StutterTyped
<1>2. Ownership'
  BY OwnershipKept, InvIsParts DEF vars, Owns, Typed, SharedTyped
<1>3. Work'
  BY InvIsParts DEF vars, Work, DrainInProgress, UsersAreInside
<1>4. Shutdown'
  <2>1. OpeningsCounted' /\ ClosingIsClosed'
    BY InvIsParts DEF vars, Shutdown, OpeningsCounted, ClosingIsClosed
  <2>2. NothingPublishedAfterClose' /\ (down => closed /\ openings = {})'
    BY InvIsParts DEF vars, Shutdown, NothingPublishedAfterClose, Registered
  <2>3. QED
    BY <2>1, <2>2 DEF Shutdown
<1>5. QED
  BY <1>1, <1>2, <1>3, <1>4, InvIsPartsPrimed

\* The invariant is inductive: one step for each part, one case for each
\* group of actions.
LEMMA NextInv == ASSUME DirectoryInv, [Next]_vars PROVE DirectoryInv'
<1>1. Typed /\ Ownership /\ Work /\ Shutdown
  BY InvIsParts
<1>2. ASSUME NEW p \in Procs, Call(p) \/ Step(p) PROVE DirectoryInv'
  <2>1. Typed'
    BY <1>1, <1>2, NextTyped DEF Next
  <2>2. Ownership'
    BY <1>1, <1>2, CallOwnership, RegisterOwnership, ConfigureOwnership, RemoveOwnership,
       RunOwnership DEF Step, Work, Shutdown
  <2>3. Work'
    BY <1>1, <1>2, CallWork, RegisterWork, ConfigureWork, RemoveWork, RunWork DEF Step
  <2>4. Shutdown'
    BY <1>1, <1>2, CallShutdown, RegisterShutdown, ConfigureShutdown, RemoveShutdown,
       RunShutdown DEF Step
  <2>5. QED
    BY <2>1, <2>2, <2>3, <2>4, InvIsPartsPrimed
<1>3. QED
  BY <1>2, StutterInv DEF Next

THEOREM Invariant == Spec => []DirectoryInv
BY InitInv, NextInv, PTL DEF Spec

\* A Run never executes against a client that somebody closed.
THEOREM RunsNeverMeetAClosedClient == Spec => []NoUseAfterClose
<1>1. DirectoryInv => NoUseAfterClose
  <2> SUFFICES ASSUME DirectoryInv, NEW c \in Ids, wg[c] # {} PROVE closes[c] = 0
    BY DEF NoUseAfterClose
  <2>1. CASE \E n \in Names : entries[n] = c
    BY <2>1, NoneAssumption DEF DirectoryInv, RegisteredIsOpen
  <2>2. CASE \E p \in Procs : c \in toDrain[p]
    BY <2>2 DEF DirectoryInv, OwnedIsOpen, Owns
  <2>3. QED
    BY <2>1, <2>2 DEF DirectoryInv, UsersAreInside
<1>2. QED
  BY Invariant, <1>1, PTL

\* No client is closed twice, whichever of the removals and the discard
\* compete for it.
THEOREM ClientsAreClosedOnce == Spec => []ClosedAtMostOnce
<1>1. DirectoryInv => ClosedAtMostOnce
  BY DEF DirectoryInv
<1>2. QED
  BY Invariant, <1>1, PTL

\* After RemoveAll has set closed, no register publishes a source.
THEOREM CloseIsFinal == Spec => []NothingPublishedAfterClose
<1>1. DirectoryInv => NothingPublishedAfterClose
  BY DEF DirectoryInv
<1>2. QED
  BY Invariant, <1>1, PTL

\* When Close has returned, no opening is under way and a client still open
\* is one another removal is draining or one a panicking ApplyPoolConfig
\* leaked.
THEOREM CloseLeavesOnlyDrains == Spec => []CleanShutdown
<1>1. DirectoryInv => CleanShutdown
  <2> SUFFICES ASSUME DirectoryInv, down
               PROVE  /\ openings = {}
                      /\ \A c \in clients \ leaked :
                             closes[c] = 0 => \E p \in Procs : c \in toDrain[p]
    BY DEF CleanShutdown
  <2>1. closed /\ openings = {}
    BY DEF DirectoryInv
  <2>2. \A p \in Procs : pc[p] \notin {"applyPool", "publish", "discard"}
    BY <2>1 DEF DirectoryInv, OpeningsCounted, RegisterLabels
  <2>3. \A c \in clients, n \in Names : entries[n] # c
    BY <2>1, NoneAssumption DEF DirectoryInv, TypeOK, NothingPublishedAfterClose, Registered
  <2>4. QED
    BY <2>1, <2>2, <2>3 DEF DirectoryInv, NoClientLost, Owns
<1>2. QED
  BY Invariant, <1>1, PTL
============================================================================
