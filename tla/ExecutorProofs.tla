--------------------------- MODULE ExecutorProofs ---------------------------
(***************************************************************************)
(* Proofs about Executor for every finite set of goroutines, every set of  *)
(* names and sources, every limit and every MultiObserver.                 *)
(***************************************************************************)
EXTENDS Executor, FiniteSetTheorems, TLAPS

USE DEF At, Goto, lifecycleVars, executorVars, vars

\* What the counting needs to know of where a Run stands: an idle Run has no
\* source and one under way counts among the users of its own; only a source
\* with a channel makes a Run wait; the roll of the members is called within a
\* callback only.
Admitted ==
    \A p \in Procs :
        /\ At(p, "idle") <=> entry[p] = None
        /\ At(p, "idle") <=> name[p] = None
        /\ entry[p] # None => p \in users[entry[p]]
        /\ At(p, "select") => Throttled(entry[p])
        /\ pc[p] \notin Callbacks => told[p] = 0

\* The directory's side: a name stands for a visible source of its own and
\* work is on no source that is closed.
Guarded ==
    /\ \A n \in Names : reg[n] # None => stage[reg[n]] = "visible"
    /\ \A m, n \in Names : reg[m] = reg[n] /\ reg[m] # None => m = n
    /\ \A c \in Ids : users[c] # {} => stage[c] \in {"visible", "retired"}

\* A context that was over on arrival never gets past Throttle.Acquire.
TurnedAway ==
    \A p \in Procs : ctx[p] = "dead" => pc[p] \in {"acquire", "refused", "release"}

IInv ==
    /\ TypeOK
    /\ Admitted
    /\ Guarded
    /\ TokensConserved
    /\ InflightExact
    /\ TurnedAway

Holders(c) == {p \in Procs : entry[p] = c /\ HoldsToken(p)}

Counted(m, n) == {p \in Procs : name[p] = n /\ CountedBy(m, p)}

LEMMA InitInv == Init => IInv
<1> SUFFICES ASSUME Init PROVE IInv
  OBVIOUS
<1> USE DEF Init, LifecycleInit, ExecutorInit
<1>1. TypeOK
  <2>1. LifecycleTypeOK
    BY DEF LifecycleTypeOK, Stages
  <2>2. sem \in [Ids -> Nat]
    BY LimitAssumption DEF FullChannel, Throttled
  <2>3. /\ ctx \in [Procs -> {"live", "done", "dead"}]
        /\ pc \in [Procs -> Labels]
        /\ entry \in [Procs -> Ids \cup {None}]
        /\ name \in [Procs -> Names \cup {None}]
    BY DEF Labels
  <2>4. told \in [Procs -> 0..Members]
    BY MembersAssumption
  <2>5. inflight \in [Sound -> [Names -> Int]]
    OBVIOUS
  <2>6. QED
    BY <2>1, <2>2, <2>3, <2>4, <2>5 DEF TypeOK
<1>2. Admitted
  BY DEF Admitted
<1>3. Guarded
  BY DEF Guarded
<1>4. TokensConserved
  <2> SUFFICES ASSUME NEW c \in Ids, Throttled(c)
               PROVE  sem[c] + Cardinality(Holders(c)) = Limit[c]
    BY DEF TokensConserved, Holders
  <2>1. Holders(c) = {}
    BY DEF Holders, HoldsToken
  <2>2. QED
    BY <2>1, FS_EmptySet, LimitAssumption DEF FullChannel, Throttled
<1>5. InflightExact
  <2> SUFFICES ASSUME NEW m \in Sound, NEW n \in Names
               PROVE  inflight[m][n] = Cardinality(Counted(m, n))
    BY DEF InflightExact, Counted
  <2>1. Counted(m, n) = {}
    BY DEF Counted, CountedBy
  <2>2. QED
    BY <2>1, FS_EmptySet
<1>6. TurnedAway
  BY DEF TurnedAway
<1>7. QED
  BY <1>1, <1>2, <1>3, <1>4, <1>5, <1>6 DEF IInv

----------------------------------------------------------------------------
(* Types.                                                                  *)

LEMMA LifecycleTyped ==
    ASSUME LifecycleTypeOK, [LifecycleNext]_lifecycleVars
    PROVE  LifecycleTypeOK'
<1> USE DEF LifecycleTypeOK, Stages
<1>1. CASE \E p \in Procs, c \in Ids : AdmitWork(p, c) \/ FinishWork(p, c)
  BY <1>1 DEF AdmitWork, FinishWork
<1>2. CASE \E c \in Ids : OpenSource(c)
  BY <1>2 DEF OpenSource
<1>3. CASE \E c \in Ids : CloseSource(c)
  BY <1>3 DEF CloseSource
<1>4. CASE \E c \in Ids, n \in Names : PublishSource(c, n)
  BY <1>4 DEF PublishSource
<1>5. CASE \E n \in Names : RetireSource(n)
  BY <1>5 DEF RetireSource
<1>6. CASE RetireAll
  BY <1>6 DEF RetireAll
<1>7. CASE UNCHANGED lifecycleVars
  BY <1>7
<1>8. QED
  BY <1>1, <1>2, <1>3, <1>4, <1>5, <1>6, <1>7 DEF LifecycleNext

\* A Run under way has a source and a name.
LEMMA UnderWay ==
    ASSUME TypeOK, Admitted, NEW p \in Procs, ~At(p, "idle")
    PROVE  /\ entry[p] \in Ids
           /\ name[p] \in Names
           /\ p \in users[entry[p]]
BY DEF TypeOK, Admitted

\* An execution of Runs is an execution of the directory they run in.
LEMMA NextLifecycle ==
    ASSUME TypeOK, Admitted, [Next]_vars
    PROVE  \/ \E p \in Procs, c \in Ids : AdmitWork(p, c) \/ FinishWork(p, c)
           \/ DirectoryStep
           \/ UNCHANGED lifecycleVars
<1>1. ASSUME NEW p \in Procs, NEW n \in Names, Run(p, n)
      PROVE  \E c \in Ids : AdmitWork(p, c)
  BY <1>1 DEF Run, TypeOK, LifecycleTypeOK
<1>2. ASSUME NEW p \in Procs, RunStep(p)
      PROVE  UNCHANGED lifecycleVars \/ \E c \in Ids : FinishWork(p, c)
  <2>1. CASE Release(p)
    BY <2>1, UnderWay DEF Release
  <2>2. CASE ~Release(p)
    BY <1>2, <2>2 DEF RunStep, Acquire, TakeToken, GiveUp, MemberReturns, MemberPanics,
       ObserveRefused, ObserveAcquire, ObserveComplete, ThrottleRelease
  <2>3. QED
    BY <2>1, <2>2
<1>3. ASSUME NEW p \in Procs, Cancel(p) \/ FnStep(p)
      PROVE  UNCHANGED lifecycleVars
  BY <1>3 DEF Cancel, FnStep, FnReturns, FnPanics
<1>4. CASE UNCHANGED vars
  BY <1>4
<1>5. QED
  BY <1>1, <1>2, <1>3, <1>4 DEF Next

LEMMA NextTyped ==
    ASSUME TypeOK, Admitted, [Next]_vars
    PROVE  TypeOK'
<1> USE DEF TypeOK, Labels, Callbacks, Via
<1> LifecycleTypeOK'
  BY NextLifecycle, LifecycleTyped DEF LifecycleNext, DirectoryStep
<1>1. ASSUME NEW p \in Procs, NEW n \in Names, Run(p, n) PROVE TypeOK'
  <2>1. reg[n] \in Ids
    BY <1>1 DEF Run, LifecycleTypeOK
  <2>2. QED
    BY <1>1, <2>1 DEF Run
<1>2. ASSUME NEW p \in Procs, Cancel(p) PROVE TypeOK'
  BY <1>2 DEF Cancel
<1>3. ASSUME NEW p \in Procs, FnStep(p) PROVE TypeOK'
  BY <1>3 DEF FnStep, FnReturns, FnPanics
<1>4. ASSUME NEW p \in Procs, RunStep(p) PROVE TypeOK'
  <2>1. CASE Acquire(p)
    BY <2>1 DEF Acquire
  <2>2. CASE TakeToken(p)
    <3>1. entry[p] \in Ids
      BY <2>2, UnderWay DEF TakeToken
    <3>2. QED
      BY <2>2, <3>1 DEF TakeToken
  <2>3. CASE GiveUp(p)
    BY <2>3 DEF GiveUp
  <2>4. CASE MemberReturns(p)
    <3>1. told' \in [Procs -> 0..Members]
      BY <2>4, MembersAssumption DEF MemberReturns, InCallback
    <3>2. inflight' \in [Sound -> [Names -> Int]]
      <4>1. GaugeStep(p) \in Int
        BY DEF GaugeStep
      <4>2. name[p] \in Names
        BY <2>4, UnderWay DEF MemberReturns, InCallback
      <4>3. QED
        BY <2>4, <4>1, <4>2 DEF MemberReturns
    <3>3. QED
      BY <2>4, <3>1, <3>2 DEF MemberReturns
  <2>5. CASE MemberPanics(p)
    <3>1. told' \in [Procs -> 0..Members]
      BY <2>5, MembersAssumption DEF MemberPanics, InCallback
    <3>2. QED
      BY <2>5, <3>1 DEF MemberPanics
  <2>6. CASE ObserveRefused(p) \/ ObserveAcquire(p) \/ ObserveComplete(p)
    <3>1. told' \in [Procs -> 0..Members]
      BY <2>6, MembersAssumption DEF ObserveRefused, ObserveAcquire, ObserveComplete, Told
    <3>2. QED
      BY <2>6, <3>1 DEF ObserveRefused, ObserveAcquire, ObserveComplete
  <2>7. CASE ThrottleRelease(p)
    <3>1. entry[p] \in Ids
      BY <2>7, UnderWay DEF ThrottleRelease
    <3>2. QED
      BY <2>7, <3>1 DEF ThrottleRelease
  <2>8. CASE Release(p)
    BY <2>8 DEF Release
  <2>9. QED
    BY <1>4, <2>1, <2>2, <2>3, <2>4, <2>5, <2>6, <2>7, <2>8 DEF RunStep
<1>5. CASE DirectoryStep
  BY <1>5 DEF DirectoryStep
<1>6. CASE UNCHANGED vars
  BY <1>6
<1>7. QED
  BY <1>1, <1>2, <1>3, <1>4, <1>5, <1>6 DEF Next

----------------------------------------------------------------------------
(* Admission.                                                              *)

\* Where Throttle.Acquire leads.
LEMMA AcquireLeads ==
    ASSUME TypeOK, NEW p \in Procs, Acquire(p)
    PROVE  \E next \in {"select", "refused", "release", "acquired", "running"} :
              /\ Goto(p, next)
              /\ next = "select" => Throttled(entry[p])
              /\ Throttled(entry[p]) => next \in {"select", "refused", "release"}
BY DEF Acquire, Via

LEMMA NextAdmitted ==
    ASSUME TypeOK, Admitted, [Next]_vars
    PROVE  Admitted'
<1> USE DEF TypeOK, Labels, Callbacks, Admitted, Via, Throttled
<1>1. ASSUME NEW p \in Procs, NEW n \in Names, Run(p, n) PROVE Admitted'
  <2>1. reg[n] \in Ids /\ n # None /\ reg[n] # None
    BY <1>1, NoneAssumption DEF Run, LifecycleTypeOK
  <2>2. QED
    BY <1>1, <2>1 DEF Run, AdmitWork, LifecycleTypeOK
<1>2. ASSUME NEW p \in Procs, Cancel(p) PROVE Admitted'
  BY <1>2 DEF Cancel
<1>3. ASSUME NEW p \in Procs, FnStep(p) PROVE Admitted'
  BY <1>3 DEF FnStep, FnReturns, FnPanics
<1>4. ASSUME NEW p \in Procs, RunStep(p) PROVE Admitted'
  <2>1. CASE Acquire(p)
    <3>1. PICK next \in {"select", "refused", "release", "acquired", "running"} :
              Goto(p, next) /\ (next = "select" => Throttled(entry[p]))
      BY <2>1, AcquireLeads
    <3>2. At(p, "acquire") /\ UNCHANGED <<lifecycleVars, entry, name, told>>
      BY <2>1 DEF Acquire
    <3>3. QED
      BY <3>1, <3>2
  <2>2. CASE TakeToken(p)
    BY <2>2 DEF TakeToken
  <2>3. CASE GiveUp(p)
    BY <2>3 DEF GiveUp
  <2>4. CASE MemberReturns(p)
    BY <2>4 DEF MemberReturns, InCallback
  <2>5. CASE MemberPanics(p)
    BY <2>5 DEF MemberPanics, InCallback
  <2>6. CASE ObserveRefused(p) \/ ObserveAcquire(p) \/ ObserveComplete(p)
    BY <2>6 DEF ObserveRefused, ObserveAcquire, ObserveComplete, Told
  <2>7. CASE ThrottleRelease(p)
    BY <2>7 DEF ThrottleRelease
  <2>8. CASE Release(p)
    <3>1. entry[p] \in Ids
      BY <2>8, UnderWay DEF Release
    <3>2. users' \in [Ids -> SUBSET Procs]
      BY <2>8, <3>1 DEF Release, FinishWork, LifecycleTypeOK
    <3>3. \A q \in Procs : q # p /\ entry[q] # None => q \in users'[entry[q]]
      BY <2>8, <3>1 DEF Release, FinishWork, LifecycleTypeOK
    <3>4. QED
      BY <2>8, <3>1, <3>2, <3>3 DEF Release
  <2>9. QED
    BY <1>4, <2>1, <2>2, <2>3, <2>4, <2>5, <2>6, <2>7, <2>8 DEF RunStep
<1>5. CASE DirectoryStep
  <2>1. UNCHANGED users
    BY <1>5 DEF DirectoryStep, OpenSource, CloseSource, PublishSource, RetireSource, RetireAll
  <2>2. QED
    BY <1>5, <2>1 DEF DirectoryStep
<1>6. CASE UNCHANGED vars
  BY <1>6
<1>7. QED
  BY <1>1, <1>2, <1>3, <1>4, <1>5, <1>6 DEF Next

LEMMA NextTurnedAway ==
    ASSUME TypeOK, Admitted, TurnedAway, [Next]_vars
    PROVE  TurnedAway'
<1> USE DEF TypeOK, Labels, Callbacks, TurnedAway
<1>1. ASSUME NEW p \in Procs, NEW n \in Names, Run(p, n) PROVE TurnedAway'
  BY <1>1 DEF Run
<1>2. ASSUME NEW p \in Procs, Cancel(p) PROVE TurnedAway'
  BY <1>2 DEF Cancel
<1>3. ASSUME NEW p \in Procs, FnStep(p) PROVE TurnedAway'
  BY <1>3 DEF FnStep, FnReturns, FnPanics
<1>4. ASSUME NEW p \in Procs, RunStep(p) PROVE TurnedAway'
  <2>1. CASE Acquire(p)
    BY <2>1 DEF Acquire, Via
  <2>2. CASE Release(p)
    BY <2>2 DEF Release
  <2>3. CASE ~Acquire(p) /\ ~Release(p)
    BY <1>4, <2>3 DEF RunStep, TakeToken, GiveUp, MemberReturns, MemberPanics,
       ObserveRefused, ObserveAcquire, ObserveComplete, ThrottleRelease, Told, Via
  <2>4. QED
    BY <2>1, <2>2, <2>3
<1>5. CASE DirectoryStep \/ UNCHANGED vars
  BY <1>5 DEF DirectoryStep
<1>6. QED
  BY <1>1, <1>2, <1>3, <1>4, <1>5 DEF Next

\* What the directory does keeps its promise, and so do admissions.
LEMMA LifecycleGuarded ==
    ASSUME LifecycleTypeOK, Guarded,
           \/ \E p \in Procs, c \in Ids : AdmitWork(p, c) \/ FinishWork(p, c)
           \/ DirectoryStep
           \/ UNCHANGED lifecycleVars
    PROVE  Guarded'
<1> USE NoneAssumption DEF LifecycleTypeOK, Guarded
<1>1. CASE \E p \in Procs, c \in Ids : AdmitWork(p, c) \/ FinishWork(p, c)
  <2>1. PICK p \in Procs, c \in Ids : AdmitWork(p, c) \/ FinishWork(p, c)
    BY <1>1
  <2>2. CASE AdmitWork(p, c)
    <3>1. stage[c] = "visible"
      BY <2>2 DEF AdmitWork
    <3>2. QED
      BY <2>2, <3>1 DEF AdmitWork
  <2>3. CASE FinishWork(p, c)
    BY <2>3 DEF FinishWork
  <2>4. QED
    BY <2>1, <2>2, <2>3
<1>2. CASE DirectoryStep
  <2>1. CASE \E c \in Ids : OpenSource(c)
    BY <2>1 DEF OpenSource
  <2>2. CASE \E c \in Ids : CloseSource(c)
    BY <2>2 DEF CloseSource
  <2>3. CASE \E c \in Ids, n \in Names : PublishSource(c, n)
    BY <2>3 DEF PublishSource
  <2>4. CASE \E n \in Names : RetireSource(n)
    BY <2>4 DEF RetireSource
  <2>5. CASE RetireAll
    BY <2>5 DEF RetireAll
  <2>6. QED
    BY <1>2, <2>1, <2>2, <2>3, <2>4, <2>5 DEF DirectoryStep
<1>3. CASE UNCHANGED lifecycleVars
  BY <1>3
<1>4. QED
  BY <1>1, <1>2, <1>3

----------------------------------------------------------------------------
(* Counting: each step adds one Run to a count, takes one from it, or      *)
(* leaves it alone.                                                        *)

LEMMA CountsFinite ==
    /\ \A c \in Ids : IsFiniteSet(Holders(c)) /\ Cardinality(Holders(c)) \in Nat
    /\ \A m \in Sound, n \in Names :
          IsFiniteSet(Counted(m, n)) /\ Cardinality(Counted(m, n)) \in Nat
<1>1. ASSUME NEW S \in SUBSET Procs PROVE IsFiniteSet(S) /\ Cardinality(S) \in Nat
  BY ProcsAssumption, FS_Subset, FS_CardinalityType
<1>2. QED
  BY <1>1 DEF Holders, Counted

LEMMA NextTokens ==
    ASSUME TypeOK, Admitted, TokensConserved, [Next]_vars
    PROVE  TokensConserved'
<1> SUFFICES ASSUME NEW c \in Ids, Throttled(c)
             PROVE  sem'[c] + Cardinality(Holders(c)') = Limit[c]
  BY DEF TokensConserved, Holders, Throttled
<1> USE DEF TypeOK, Callbacks, Via
<1>1. sem[c] + Cardinality(Holders(c)) = Limit[c] /\ sem[c] \in Nat /\ Limit[c] \in Int
  BY LimitAssumption DEF TokensConserved, Holders
<1>2. IsFiniteSet(Holders(c)) /\ Cardinality(Holders(c)) \in Nat
  BY CountsFinite
<1>3. ASSUME sem'[c] = sem[c], Holders(c)' = Holders(c)
      PROVE  sem'[c] + Cardinality(Holders(c)') = Limit[c]
  BY <1>1, <1>3
<1>4. ASSUME NEW p \in Procs, NEW n \in Names, Run(p, n)
      PROVE  sem'[c] = sem[c] /\ Holders(c)' = Holders(c)
  BY <1>4 DEF Run, Holders, HoldsToken
<1>5. ASSUME NEW p \in Procs, Cancel(p)
      PROVE  sem'[c] = sem[c] /\ Holders(c)' = Holders(c)
  BY <1>5 DEF Cancel, Holders, HoldsToken
<1>6. ASSUME NEW p \in Procs, FnStep(p)
      PROVE  sem'[c] = sem[c] /\ Holders(c)' = Holders(c)
  BY <1>6 DEF FnStep, FnReturns, FnPanics, Holders, HoldsToken
<1>7. ASSUME NEW p \in Procs, RunStep(p)
      PROVE  sem'[c] + Cardinality(Holders(c)') = Limit[c]
  <2>1. CASE Acquire(p)
    <3>1. sem'[c] = sem[c] /\ Holders(c)' = Holders(c)
      BY <2>1 DEF Acquire, Holders, HoldsToken
    <3>2. QED
      BY <3>1, <1>3
  <2>2. CASE TakeToken(p)
    <3>1. CASE entry[p] = c
      <4>1. p \notin Holders(c) /\ Holders(c)' = Holders(c) \cup {p}
        BY <2>2, <3>1 DEF TakeToken, Holders, HoldsToken
      <4>2. sem'[c] = sem[c] - 1
        BY <2>2, <3>1 DEF TakeToken
      <4>3. Cardinality(Holders(c)') = Cardinality(Holders(c)) + 1
        BY <4>1, <1>2, FS_AddElement
      <4>4. QED
        BY <4>2, <4>3, <1>1, <1>2
    <3>2. CASE entry[p] # c
      <4>1. sem'[c] = sem[c] /\ Holders(c)' = Holders(c)
        BY <2>2, <3>2 DEF TakeToken, Holders, HoldsToken
      <4>2. QED
        BY <4>1, <1>3
    <3>3. QED
      BY <3>1, <3>2
  <2>3. CASE ThrottleRelease(p)
    <3>1. CASE entry[p] = c
      <4>1. p \in Holders(c) /\ Holders(c)' = Holders(c) \ {p}
        BY <2>3, <3>1 DEF ThrottleRelease, Holders, HoldsToken
      <4>2. sem'[c] = sem[c] + 1
        BY <2>3, <3>1 DEF ThrottleRelease
      <4>3. Cardinality(Holders(c)') = Cardinality(Holders(c)) - 1
        BY <4>1, <1>2, FS_RemoveElement
      <4>4. QED
        BY <4>2, <4>3, <1>1, <1>2
    <3>2. CASE entry[p] # c
      <4>1. sem'[c] = sem[c] /\ Holders(c)' = Holders(c)
        BY <2>3, <3>2 DEF ThrottleRelease, Holders, HoldsToken
      <4>2. QED
        BY <4>1, <1>3
    <3>3. QED
      BY <3>1, <3>2
  <2>4. CASE Release(p)
    <3>1. sem'[c] = sem[c] /\ Holders(c)' = Holders(c)
      BY <2>4 DEF Release, Holders, HoldsToken
    <3>2. QED
      BY <3>1, <1>3
  <2>5. CASE GiveUp(p) \/ MemberReturns(p) \/ MemberPanics(p)
             \/ ObserveRefused(p) \/ ObserveAcquire(p) \/ ObserveComplete(p)
    <3>1. sem'[c] = sem[c] /\ Holders(c)' = Holders(c)
      BY <2>5 DEF GiveUp, MemberReturns, MemberPanics, ObserveRefused, ObserveAcquire,
         ObserveComplete, Told, Holders, HoldsToken
    <3>2. QED
      BY <3>1, <1>3
  <2>6. QED
    BY <1>7, <2>1, <2>2, <2>3, <2>4, <2>5 DEF RunStep
<1>8. CASE DirectoryStep \/ UNCHANGED vars
  <2>1. sem'[c] = sem[c] /\ Holders(c)' = Holders(c)
    BY <1>8 DEF DirectoryStep, Holders, HoldsToken
  <2>2. QED
    BY <2>1, <1>3
<1>9. QED
  BY <1>3, <1>4, <1>5, <1>6, <1>7, <1>8 DEF Next

\* To hear a callback as its k-th member changes nothing for the m-th.
LEMMA OneMemberHears ==
    ASSUME TypeOK, NEW m \in Sound, NEW p \in Procs, NEW q \in Procs,
           told' = [told EXCEPT ![p] = told[p] + 1],
           UNCHANGED pc,
           q = p => told[p] + 1 # m
    PROVE  CountedBy(m, q)' <=> CountedBy(m, q)
<1>1. told[q] \in Nat /\ m \in Nat
  BY MembersAssumption DEF TypeOK, Sound
<1>2. told'[q] = IF q = p THEN told[q] + 1 ELSE told[q]
  BY DEF TypeOK
<1>3. (told'[q] >= m <=> told[q] >= m) /\ (told'[q] < m <=> told[q] < m)
  BY <1>1, <1>2
<1>4. QED
  BY <1>3 DEF CountedBy

LEMMA NextInflight ==
    ASSUME TypeOK, Admitted, InflightExact, [Next]_vars
    PROVE  InflightExact'
<1> SUFFICES ASSUME NEW m \in Sound, NEW n \in Names
             PROVE  inflight'[m][n] = Cardinality(Counted(m, n)')
  BY DEF InflightExact, Counted
<1> USE DEF TypeOK, Callbacks
<1>1. inflight[m][n] = Cardinality(Counted(m, n))
  BY DEF InflightExact, Counted
<1>2. IsFiniteSet(Counted(m, n)) /\ Cardinality(Counted(m, n)) \in Nat
  BY CountsFinite
<1>3. m \in Nat /\ m > 0 /\ m <= Members /\ m \notin Faulty /\ Members # 0
  BY MembersAssumption DEF Sound
<1>4. ASSUME inflight'[m][n] = inflight[m][n], Counted(m, n)' = Counted(m, n)
      PROVE  inflight'[m][n] = Cardinality(Counted(m, n)')
  BY <1>1, <1>4
<1>5. ASSUME NEW p \in Procs, NEW k \in Names, Run(p, k)
      PROVE  inflight'[m][n] = inflight[m][n] /\ Counted(m, n)' = Counted(m, n)
  BY <1>5 DEF Run, Counted, CountedBy
<1>6. ASSUME NEW p \in Procs, Cancel(p)
      PROVE  inflight'[m][n] = inflight[m][n] /\ Counted(m, n)' = Counted(m, n)
  BY <1>6 DEF Cancel, Counted, CountedBy
<1>7. ASSUME NEW p \in Procs, FnStep(p)
      PROVE  inflight'[m][n] = inflight[m][n] /\ Counted(m, n)' = Counted(m, n)
  <2>1. At(p, "running") /\ Goto(p, "complete") /\ told[p] = 0
    BY <1>7, <1>3 DEF FnStep, FnReturns, FnPanics, Via, Admitted
  <2>2. UNCHANGED <<name, told, inflight>>
    BY <1>7 DEF FnStep, FnReturns, FnPanics
  <2>3. QED
    BY <2>1, <2>2, <1>3 DEF Counted, CountedBy
<1>8. ASSUME NEW p \in Procs, RunStep(p)
      PROVE  inflight'[m][n] = Cardinality(Counted(m, n)')
  <2>1. CASE MemberReturns(p)
    <3>1. told' = [told EXCEPT ![p] = told[p] + 1] /\ told[p] \in Nat /\ told'[p] = told[p] + 1
      BY <2>1, MembersAssumption DEF MemberReturns
    <3>2. UNCHANGED <<pc, name>>
      BY <2>1 DEF MemberReturns
    <3>3. CASE told[p] + 1 = m /\ name[p] = n /\ At(p, "acquired")
      <4>1. p \notin Counted(m, n) /\ Counted(m, n)' = Counted(m, n) \cup {p}
        BY <3>1, <3>2, <3>3, <1>3 DEF Counted, CountedBy
      <4>2. GaugeStep(p) = 1
        BY <3>3 DEF GaugeStep
      <4>3. inflight'[m][n] = inflight[m][n] + 1
        BY <2>1, <3>1, <3>3, <4>2 DEF MemberReturns
      <4>4. Cardinality(Counted(m, n)') = Cardinality(Counted(m, n)) + 1
        BY <4>1, <1>2, FS_AddElement
      <4>5. QED
        BY <4>3, <4>4, <1>1
    <3>4. CASE told[p] + 1 = m /\ name[p] = n /\ At(p, "complete")
      <4>1. p \in Counted(m, n) /\ Counted(m, n)' = Counted(m, n) \ {p}
        BY <3>1, <3>2, <3>4, <1>3 DEF Counted, CountedBy
      <4>2. GaugeStep(p) = -1
        BY <3>4 DEF GaugeStep
      <4>3. inflight'[m][n] = inflight[m][n] - 1
        BY <2>1, <3>1, <3>4, <4>2 DEF MemberReturns
      <4>4. Cardinality(Counted(m, n)') = Cardinality(Counted(m, n)) - 1
        BY <4>1, <1>2, FS_RemoveElement
      <4>5. QED
        BY <4>3, <4>4, <1>1
    <3>5. CASE told[p] + 1 = m /\ name[p] = n /\ ~At(p, "acquired") /\ ~At(p, "complete")
      <4>1. Counted(m, n)' = Counted(m, n)
        BY <3>1, <3>2, <3>5, <1>3 DEF Counted, CountedBy
      <4>2. GaugeStep(p) = 0
        BY <3>5 DEF GaugeStep
      <4>3. inflight'[m][n] = inflight[m][n]
        BY <2>1, <3>1, <3>5, <4>2 DEF MemberReturns
      <4>4. QED
        BY <4>1, <4>3, <1>4
    <3>6. CASE ~(told[p] + 1 = m /\ name[p] = n)
      <4>1. Counted(m, n)' = Counted(m, n)
        <5>1. \A q \in Procs : name[q] = n => (CountedBy(m, q)' <=> CountedBy(m, q))
          BY <3>1, <3>2, <3>6, OneMemberHears
        <5>2. QED
          BY <5>1, <3>2 DEF Counted
      <4>2. inflight'[m][n] = inflight[m][n]
        BY <2>1, <3>1, <3>6 DEF MemberReturns
      <4>3. QED
        BY <4>1, <4>2, <1>4
    <3>7. QED
      BY <3>3, <3>4, <3>5, <3>6
  <2>2. CASE MemberPanics(p)
    <3>1. told' = [told EXCEPT ![p] = told[p] + 1] /\ told[p] \in Nat /\ told[p] + 1 # m
      BY <2>2, <1>3, MembersAssumption DEF MemberPanics
    <3>2. UNCHANGED <<pc, name, inflight>>
      BY <2>2 DEF MemberPanics
    <3>3. \A q \in Procs : CountedBy(m, q)' <=> CountedBy(m, q)
      BY <3>1, <3>2, OneMemberHears
    <3>4. Counted(m, n)' = Counted(m, n)
      BY <3>2, <3>3 DEF Counted
    <3>5. QED
      BY <3>2, <3>4, <1>4
  <2>3. CASE ObserveAcquire(p) \/ ObserveComplete(p) \/ ObserveRefused(p)
    <3>1. Counted(m, n)' = Counted(m, n)
      BY <2>3, <1>3, MembersAssumption DEF ObserveAcquire, ObserveComplete, ObserveRefused,
         Told, Counted, CountedBy
    <3>2. UNCHANGED inflight
      BY <2>3 DEF ObserveAcquire, ObserveComplete, ObserveRefused
    <3>3. QED
      BY <3>1, <3>2, <1>4
  <2>4. CASE Release(p)
    <3>1. Counted(m, n)' = Counted(m, n)
      BY <2>4 DEF Release, Counted, CountedBy
    <3>2. QED
      BY <2>4, <3>1, <1>4 DEF Release
  <2>5. CASE Acquire(p) \/ TakeToken(p) \/ GiveUp(p) \/ ThrottleRelease(p)
    <3>1. /\ pc[p] \in {"acquire", "select", "throttleRelease"}
          /\ told[p] = 0
          /\ \E label \in {"select", "refused", "release", "acquired"} : Goto(p, label)
          /\ UNCHANGED <<name, told, inflight>>
      BY <2>5, <1>3 DEF Acquire, TakeToken, GiveUp, ThrottleRelease, Via, Admitted
    <3>2. Counted(m, n)' = Counted(m, n)
      BY <3>1, <1>3 DEF Counted, CountedBy
    <3>3. QED
      BY <3>1, <3>2, <1>4
  <2>6. QED
    BY <1>8, <2>1, <2>2, <2>3, <2>4, <2>5 DEF RunStep
<1>9. CASE DirectoryStep \/ UNCHANGED vars
  <2>1. inflight'[m][n] = inflight[m][n] /\ Counted(m, n)' = Counted(m, n)
    BY <1>9 DEF DirectoryStep, Counted, CountedBy
  <2>2. QED
    BY <2>1, <1>4
<1>10. QED
  BY <1>4, <1>5, <1>6, <1>7, <1>8, <1>9 DEF Next

----------------------------------------------------------------------------
(* The theorems.                                                           *)

LEMMA NextInv == IInv /\ [Next]_vars => IInv'
BY NextTyped, NextAdmitted, NextLifecycle, LifecycleGuarded, NextTokens, NextInflight,
   NextTurnedAway DEF IInv, TypeOK

\* The invariant the theorems below are read off: it is true at the start and
\* every step of every goroutine, directory and caller keeps it.
THEOREM ExecutorInvariant == Spec => []IInv
<1>1. QED
  BY InitInv, NextInv, PTL DEF Spec

\* Every variable of a Run, a throttle and a member's books keeps its type;
\* the in-flight gauges stay integers whatever panics.
THEOREM ExecutorTyped == Spec => []TypeOK
<1>1. IInv => TypeOK
  BY DEF IInv
<1>2. QED
  BY <1>1, ExecutorInvariant, PTL

\* throttle.go: tokens are neither lost nor invented, for any number of Runs,
\* limits, panics and cancellations.
THEOREM TokensAlwaysConserved == Spec => []TokensConserved
<1>1. IInv => TokensConserved
  BY DEF IInv
<1>2. QED
  BY <1>1, ExecutorInvariant, PTL

LEMMA InvBounds == IInv => ConcurrencyBounded
<1> SUFFICES ASSUME IInv, NEW c \in Ids, Throttled(c)
             PROVE  Cardinality(Running(c)) <= Limit[c]
  BY DEF ConcurrencyBounded
<1>1. /\ sem[c] + Cardinality(Holders(c)) = Limit[c]
      /\ sem[c] \in Nat
  BY DEF IInv, TypeOK, TokensConserved, Holders
<1>2. IsFiniteSet(Holders(c)) /\ Cardinality(Holders(c)) \in Nat
  BY CountsFinite
<1>3. Running(c) \in SUBSET Holders(c)
  BY DEF Running, Holders, HoldsToken
<1>4. /\ Cardinality(Running(c)) <= Cardinality(Holders(c))
      /\ Cardinality(Running(c)) \in Nat
  BY <1>2, <1>3, FS_Subset, FS_CardinalityType
<1>5. QED
  BY <1>1, <1>2, <1>4

\* throttle.go:18-38: MaxConcurrency is never exceeded.
THEOREM ConcurrencyAlwaysBounded == Spec => []ConcurrencyBounded
<1>1. QED
  BY InvBounds, ExecutorInvariant, PTL

\* directory.go, executor.go: nothing of a Run is left on a source that has
\* been closed, neither a function nor a callback nor a token.
THEOREM ClosedAlwaysQuiet == Spec => []ClosedMeansQuiet
<1>1. IInv => ClosedMeansQuiet
  <2> SUFFICES ASSUME IInv, NEW c \in Ids, stage[c] = "closed"
               PROVE  /\ \A p \in Procs : entry[p] # c
                      /\ Throttled(c) => sem[c] = Limit[c]
    BY DEF ClosedMeansQuiet
  <2>1. \A p \in Procs : entry[p] # c
    BY NoneAssumption DEF IInv, Guarded, Admitted
  <2>2. ASSUME Throttled(c) PROVE sem[c] = Limit[c]
    <3>1. sem[c] + Cardinality(Holders(c)) = Limit[c] /\ sem[c] \in Nat
      BY <2>2 DEF IInv, TypeOK, TokensConserved, Holders
    <3>2. Holders(c) = {}
      BY <2>1 DEF Holders
    <3>3. QED
      BY <3>1, <3>2, FS_EmptySet
  <2>3. QED
    BY <2>1, <2>2
<1>2. QED
  BY <1>1, ExecutorInvariant, PTL

\* observer.go, executor.go: the in-flight gauge of every member that does
\* not panic itself is exact, for any number of members.
THEOREM InflightAlwaysExact == Spec => []InflightExact
<1>1. IInv => InflightExact
  BY DEF IInv
<1>2. QED
  BY <1>1, ExecutorInvariant, PTL

\* throttle.go:21-24: a Run whose context is over when it is called never
\* executes its function, whatever tokens are free.
THEOREM DeadContextsNeverRun == Spec => []DeadContextNeverRuns
<1>1. IInv => DeadContextNeverRuns
  BY DEF IInv, TurnedAway, DeadContextNeverRuns
<1>2. QED
  BY <1>1, ExecutorInvariant, PTL

\* throttle.go:32-38: the send of a Release never finds the channel full, so
\* putting a token back blocks nobody.
ReleaseNeverBlocks ==
    \A p \in Procs :
        At(p, "throttleRelease") /\ Throttled(entry[p]) => sem[entry[p]] < Limit[entry[p]]

THEOREM NoReleaseBlocks == Spec => []ReleaseNeverBlocks
<1>1. IInv => ReleaseNeverBlocks
  <2> SUFFICES ASSUME IInv, NEW p \in Procs, At(p, "throttleRelease"), Throttled(entry[p])
               PROVE  sem[entry[p]] < Limit[entry[p]]
    BY DEF ReleaseNeverBlocks
  <2> DEFINE c == entry[p]
  <2>1. c \in Ids
    BY UnderWay DEF IInv
  <2>2. sem[c] + Cardinality(Holders(c)) = Limit[c] /\ sem[c] \in Nat
    BY <2>1 DEF IInv, TypeOK, TokensConserved, Holders
  <2>3. IsFiniteSet(Holders(c)) /\ Cardinality(Holders(c)) \in Nat
    BY <2>1, CountsFinite
  <2>4. p \in Holders(c)
    BY DEF Holders, HoldsToken
  <2>5. Cardinality(Holders(c)) # 0
    BY <2>3, <2>4, FS_EmptySet
  <2>6. QED
    BY <2>2, <2>3, <2>5
<1>2. QED
  BY <1>1, ExecutorInvariant, PTL

\* Runs use the directory only as it promises to be used: what SourceLifecycle
\* says of admission, retirement and closing holds of every execution of Runs.
THEOREM RunsKeepLifecycle == Spec => LifecycleSpec
<1>1. Init => LifecycleInit
  BY DEF Init
<1>2. IInv /\ [Next]_vars => [LifecycleNext]_lifecycleVars
  BY NextLifecycle DEF IInv, LifecycleNext, DirectoryStep
<1>3. QED
  BY <1>1, <1>2, ExecutorInvariant, PTL DEF Spec, LifecycleSpec

----------------------------------------------------------------------------
(* What the store promises to all of them.                                 *)

\* A source is visible exactly while a name stands for it.
LEMMA NamesMatchStages ==
    ASSUME LifecycleTypeOK, VisibleIffRegistered, [LifecycleNext]_lifecycleVars
    PROVE  VisibleIffRegistered'
<1> USE NoneAssumption DEF LifecycleTypeOK, VisibleIffRegistered
<1>1. CASE UNCHANGED lifecycleVars
  BY <1>1
<1>2. ASSUME NEW c \in Ids, OpenSource(c) PROVE VisibleIffRegistered'
  BY <1>2 DEF OpenSource
<1>3. ASSUME NEW c \in Ids, CloseSource(c) PROVE VisibleIffRegistered'
  BY <1>3 DEF CloseSource
<1>4. ASSUME NEW c \in Ids, NEW n \in Names, PublishSource(c, n) PROVE VisibleIffRegistered'
  <2>1. \A m \in Names : reg[m] # c
    BY <1>4 DEF PublishSource
  <2>2. /\ stage[c] = "opened" /\ reg[n] = None
        /\ \A m \in Names : reg'[m] = IF m = n THEN c ELSE reg[m]
        /\ \A d \in Ids : stage'[d] = IF d = c THEN "visible" ELSE stage[d]
    BY <1>4 DEF PublishSource
  <2>3. QED
    BY <2>1, <2>2
<1>5. ASSUME NEW c \in Ids, NEW p \in Procs, AdmitWork(p, c) \/ FinishWork(p, c)
      PROVE  VisibleIffRegistered'
  BY <1>5 DEF AdmitWork, FinishWork
<1>6. ASSUME NEW n \in Names, RetireSource(n) PROVE VisibleIffRegistered'
  BY <1>6 DEF RetireSource
<1>7. CASE RetireAll
  BY <1>7 DEF RetireAll
<1>8. QED
  BY <1>1, <1>2, <1>3, <1>4, <1>5, <1>6, <1>7 DEF LifecycleNext

LEMMA NobodyIsInAClosedSource ==
    ASSUME LifecycleTypeOK, VisibleIffRegistered, NoUseAfterClose,
           [LifecycleNext]_lifecycleVars
    PROVE  NoUseAfterClose'
<1> USE NoneAssumption DEF LifecycleTypeOK, NoUseAfterClose
<1>1. CASE UNCHANGED lifecycleVars
  BY <1>1
<1>2. ASSUME NEW c \in Ids, OpenSource(c) \/ CloseSource(c) PROVE NoUseAfterClose'
  BY <1>2 DEF OpenSource, CloseSource
<1>3. ASSUME NEW c \in Ids, NEW n \in Names, PublishSource(c, n) PROVE NoUseAfterClose'
  BY <1>3 DEF PublishSource
<1>4. ASSUME NEW c \in Ids, NEW p \in Procs, AdmitWork(p, c) PROVE NoUseAfterClose'
  <2>1. stage[c] = "visible"
    BY <1>4 DEF AdmitWork, VisibleIffRegistered
  <2>2. QED
    BY <1>4, <2>1 DEF AdmitWork
<1>5. ASSUME NEW c \in Ids, NEW p \in Procs, FinishWork(p, c) PROVE NoUseAfterClose'
  BY <1>5 DEF FinishWork
<1>6. ASSUME NEW n \in Names, RetireSource(n) PROVE NoUseAfterClose'
  BY <1>6 DEF RetireSource
<1>7. CASE RetireAll
  BY <1>7 DEF RetireAll
<1>8. QED
  BY <1>1, <1>2, <1>3, <1>4, <1>5, <1>6, <1>7 DEF LifecycleNext

\* directory.go:148-204: the promise of the store itself.  No source is
\* closed while work is on it, and the names are exactly those of the visible
\* sources; with the refinements it is a promise to every Run, transaction,
\* nested call and tool.
THEOREM LifecyclePromises == LifecycleSpec => [](NoUseAfterClose /\ VisibleIffRegistered)
<1> DEFINE Promise == LifecycleTypeOK /\ NoUseAfterClose /\ VisibleIffRegistered
<1>1. LifecycleInit => Promise
  BY NoneAssumption DEF LifecycleInit, LifecycleTypeOK, Stages, NoUseAfterClose,
     VisibleIffRegistered
<1>2. Promise /\ [LifecycleNext]_lifecycleVars => Promise'
  <2> SUFFICES ASSUME Promise, [LifecycleNext]_lifecycleVars PROVE Promise'
    OBVIOUS
  <2>1. LifecycleTypeOK'
    BY LifecycleTyped
  <2>2. QED
    BY <2>1, NamesMatchStages, NobodyIsInAClosedSource
<1>3. Promise => NoUseAfterClose /\ VisibleIffRegistered
  OBVIOUS
<1> HIDE DEF Promise
<1>4. QED
  BY <1>1, <1>2, <1>3, PTL DEF LifecycleSpec
============================================================================
