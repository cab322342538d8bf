---------------------------- MODULE SqlxTxProofs ----------------------------
(***************************************************************************)
(* Proofs about SqlxTx for every finite set of goroutines, every set of    *)
(* sources, every MaxConcurrency and every MaxOpenConns.                   *)
(***************************************************************************)
EXTENDS SqlxTx, ExecutorProofs

USE DEF At, Goto, lifecycleVars, executorVars, vars, InSql, GoSql, Answers, Settles, RollsBack,
    PutBack, sqlVars, txVars

TxLabels == {"open", "besideWait", "beside", "commit"}

\* A function in a call is running; the first connection of a goroutine is the
\* one of its statement or transaction, the second one of a statement beside
\* its transaction, and both are of the pool of the source it runs on.
ConnsOwned ==
    \A p \in Procs :
        /\ sql[p] # "none" => At(p, "running")
        /\ \A c \in Ids :
              /\ <<p, 1>> \in conns[c] => entry[p] = c /\ sql[p] \in TxLabels \cup {"statement"}
              /\ <<p, 2>> \in conns[c] => entry[p] = c /\ sql[p] = "beside"

\* A transaction that is open is one its function has not left, one that has a
\* function inside is open or taken over, and between transactions the last
\* answer agrees with the last outcome.
OutcomeOwned ==
    \A p \in Procs :
        /\ outcome[p] = "open" => sql[p] \in TxLabels
        /\ sql[p] \in TxLabels => outcome[p] \in {"open", "abandoned"}
        /\ sql[p] \notin TxLabels =>
              /\ answer[p] = "nil" => outcome[p] = "committed"
              /\ answer[p] \in {"fnError", "panic"} => outcome[p] \in {"rolledBack", "abandoned"}

TxInv == IInv /\ TxTypeOK /\ ConnsOwned /\ OutcomeOwned

LEMMA InitTx == TxInit => TxInv
<1> SUFFICES ASSUME TxInit PROVE TxInv
  OBVIOUS
<1>1. IInv
  BY InitInv DEF TxInit
<1>2. TxTypeOK
  BY DEF TxInit, TxTypeOK, SqlLabels
<1>3. ConnsOwned
  BY DEF TxInit, ConnsOwned
<1>4. OutcomeOwned
  BY DEF TxInit, OutcomeOwned, TxLabels
<1>5. QED
  BY <1>1, <1>2, <1>3, <1>4 DEF TxInv

\* To the executor, what a function does with its Handle is nothing, and the
\* end of a function is any end of a function.
LEMMA TxStepIsRunStep ==
    ASSUME [TxNext]_txVars
    PROVE  [Next]_vars
<1>1. ASSUME NEW p \in Procs, SqlStep(p) PROVE UNCHANGED vars
  BY <1>1 DEF SqlStep, Asks, Connects, ConnectFails, StatementEnds, TxFnReturns, TxFnFails,
     Commit, PoolRollsBack
<1>2. ASSUME NEW p \in Procs, RunFnEnds(p) \/ AroundFn(p) PROVE Next
  BY <1>2 DEF RunFnEnds, AroundFn, Next
<1>3. ASSUME NEW c \in Ids, PoolReleases(c) PROVE UNCHANGED vars
  BY <1>3 DEF PoolReleases
<1>4. CASE DirectoryStep /\ UNCHANGED sqlVars
  BY <1>4 DEF Next
<1>5. CASE UNCHANGED txVars
  BY <1>5
<1>6. QED
  BY <1>1, <1>2, <1>3, <1>4, <1>5 DEF TxNext

LEMMA NextTxTyped ==
    ASSUME TypeOK, Admitted, TxTypeOK, ConnsOwned, OutcomeOwned, [TxNext]_txVars
    PROVE  TxTypeOK'
<1> USE DEF TxTypeOK, SqlLabels
<1>1. ASSUME NEW p \in Procs, SqlStep(p) PROVE TxTypeOK'
  <2>1. entry[p] \in Ids
    <3>1. At(p, "running")
      BY <1>1 DEF SqlStep, Asks, Connects, ConnectFails, StatementEnds, TxFnReturns, TxFnFails,
         Commit, PoolRollsBack, ConnsOwned, TxLabels
    <3>2. QED
      BY <3>1, UnderWay
  <2>2. CASE \E from \in SqlLabels, to \in SqlLabels :
                Asks(p, from, to) \/ Connects(p, from, to) \/ ConnectFails(p, from, to)
                                  \/ StatementEnds(p, from, to)
    BY <2>1, <2>2 DEF Asks, Connects, ConnectFails, StatementEnds
  <2>3. CASE TxFnReturns(p) \/ \E how \in {"fnError", "panic"} : TxFnFails(p, how)
    BY <2>1, <2>3 DEF TxFnReturns, TxFnFails
  <2>4. CASE Commit(p)
    BY <2>1, <2>4 DEF Commit
  <2>5. CASE PoolRollsBack(p)
    BY <2>1, <2>5 DEF PoolRollsBack
  <2>6. QED
    BY <1>1, <2>2, <2>3, <2>4, <2>5 DEF SqlStep
<1>2. ASSUME NEW p \in Procs, RunFnEnds(p) \/ AroundFn(p) PROVE TxTypeOK'
  BY <1>2 DEF RunFnEnds, AroundFn
<1>3. ASSUME NEW c \in Ids, PoolReleases(c) PROVE TxTypeOK'
  BY <1>3 DEF PoolReleases
<1>4. CASE UNCHANGED sqlVars
  BY <1>4
<1>5. QED
  BY <1>1, <1>2, <1>3, <1>4 DEF TxNext

\* A step of a Run that is not the end of its function takes no running
\* function anywhere.
LEMMA FunctionsStay ==
    ASSUME TypeOK, Admitted, NEW p \in Procs,
           \/ \E q \in Procs : AroundFn(q)
           \/ \E q \in Procs : q # p /\ RunFnEnds(q)
           \/ DirectoryStep
           \/ UNCHANGED vars,
           At(p, "running")
    PROVE  At(p, "running")' /\ entry'[p] = entry[p]
<1> USE DEF TypeOK
<1>1. ASSUME NEW q \in Procs, \E n \in Names : Run(q, n)
      PROVE  At(p, "running")' /\ entry'[p] = entry[p]
  BY <1>1 DEF Run
<1>2. ASSUME NEW q \in Procs, Cancel(q)
      PROVE  At(p, "running")' /\ entry'[p] = entry[p]
  BY <1>2 DEF Cancel
<1>3. ASSUME NEW q \in Procs, RunStep(q)
      PROVE  At(p, "running")' /\ entry'[p] = entry[p]
  BY <1>3 DEF RunStep, Acquire, TakeToken, GiveUp, MemberReturns, MemberPanics, InCallback,
     Callbacks, ObserveRefused, ObserveAcquire, ObserveComplete, ThrottleRelease, Release, Told
<1>4. ASSUME NEW q \in Procs, q # p, RunFnEnds(q)
      PROVE  At(p, "running")' /\ entry'[p] = entry[p]
  BY <1>4 DEF RunFnEnds, FnStep, FnReturns, FnPanics
<1>5. CASE DirectoryStep \/ UNCHANGED vars
  BY <1>5 DEF DirectoryStep
<1>6. QED
  BY <1>1, <1>2, <1>3, <1>4, <1>5 DEF AroundFn

\* Between SQL steps a function in a call stays where it is.
LEMMA CallsStay ==
    ASSUME TypeOK, Admitted, ConnsOwned, UNCHANGED sqlVars, [TxNext]_txVars,
           NEW p \in Procs, sql[p] # "none"
    PROVE  At(p, "running")' /\ entry'[p] = entry[p]
<1>1. At(p, "running")
  BY DEF ConnsOwned
<1>2. ASSUME NEW q \in Procs, RunFnEnds(q) PROVE q # p
  BY <1>2 DEF RunFnEnds
<1>3. ASSUME NEW q \in Procs, SqlStep(q) PROVE UNCHANGED vars
  BY <1>3 DEF SqlStep, Asks, Connects, ConnectFails, StatementEnds, TxFnReturns, TxFnFails,
     Commit, PoolRollsBack
<1>4. ASSUME NEW c \in Ids, PoolReleases(c) PROVE UNCHANGED vars
  BY <1>4 DEF PoolReleases
<1>5. QED
  BY <1>1, <1>2, <1>3, <1>4, FunctionsStay DEF TxNext

LEMMA NextConnsOwned ==
    ASSUME TypeOK, Admitted, TxTypeOK, ConnsOwned, OutcomeOwned, [TxNext]_txVars
    PROVE  ConnsOwned'
<1> USE DEF TxTypeOK, SqlLabels, TxLabels
<1>1. ASSUME NEW p \in Procs, SqlStep(p) PROVE ConnsOwned'
  <2>1. At(p, "running") /\ entry[p] \in Ids
    <3>1. At(p, "running")
      BY <1>1 DEF SqlStep, Asks, Connects, ConnectFails, StatementEnds, TxFnReturns, TxFnFails,
         Commit, PoolRollsBack, ConnsOwned
    <3>2. QED
      BY <3>1, UnderWay
  <2>2. CASE \E from \in {"none", "open"}, to \in {"statementWait", "beginWait", "besideWait"} :
                /\ from = "open" <=> to = "besideWait"
                /\ Asks(p, from, to)
    BY <2>1, <2>2 DEF Asks, ConnsOwned
  <2>3. CASE Connects(p, "statementWait", "statement") \/ Connects(p, "beginWait", "open")
    BY <2>1, <2>3 DEF Connects, ConnsOwned
  <2>4. CASE Connects(p, "besideWait", "beside")
    BY <2>1, <2>4 DEF Connects, ConnsOwned
  <2>5. CASE \/ ConnectFails(p, "statementWait", "none") \/ ConnectFails(p, "beginWait", "none")
             \/ ConnectFails(p, "besideWait", "open")
    BY <2>1, <2>5 DEF ConnectFails, ConnsOwned
  <2>6. CASE StatementEnds(p, "statement", "none")
    BY <2>1, <2>6 DEF StatementEnds, ConnsOwned
  <2>7. CASE StatementEnds(p, "beside", "open")
    BY <2>1, <2>7 DEF StatementEnds, ConnsOwned
  <2>8. CASE TxFnReturns(p)
    BY <2>1, <2>8 DEF TxFnReturns, ConnsOwned
  <2>9. CASE \E how \in {"fnError", "panic"} : TxFnFails(p, how)
    BY <2>1, <2>9 DEF TxFnFails, ConnsOwned
  <2>10. CASE Commit(p)
    BY <2>1, <2>10 DEF Commit, ConnsOwned
  <2>11. CASE PoolRollsBack(p)
    BY <2>1, <2>11 DEF PoolRollsBack, ConnsOwned
  <2>12. QED
    BY <1>1, <2>2, <2>3, <2>4, <2>5, <2>6, <2>7, <2>8, <2>9, <2>10, <2>11 DEF SqlStep
<1>2. CASE UNCHANGED sqlVars
  BY <1>2, CallsStay DEF ConnsOwned
<1>3. ASSUME NEW c \in Ids, PoolReleases(c) PROVE ConnsOwned'
  BY <1>3 DEF PoolReleases, ConnsOwned
<1>4. QED
  BY <1>1, <1>2, <1>3 DEF TxNext, RunFnEnds, AroundFn

LEMMA NextOutcomeOwned ==
    ASSUME TxTypeOK, OutcomeOwned, [TxNext]_txVars
    PROVE  OutcomeOwned'
<1> USE DEF TxTypeOK, SqlLabels, TxLabels
<1>1. ASSUME NEW p \in Procs, SqlStep(p) PROVE OutcomeOwned'
  <2>1. CASE \E from \in {"none", "open"}, to \in {"statementWait", "beginWait", "besideWait"} :
                /\ from = "open" <=> to = "besideWait"
                /\ Asks(p, from, to)
    BY <2>1 DEF Asks, OutcomeOwned
  <2>2. CASE \/ Connects(p, "statementWait", "statement") \/ Connects(p, "beginWait", "open")
             \/ Connects(p, "besideWait", "beside")
    BY <2>2 DEF Connects, OutcomeOwned
  <2>3. CASE \/ ConnectFails(p, "statementWait", "none") \/ ConnectFails(p, "beginWait", "none")
             \/ ConnectFails(p, "besideWait", "open")
    BY <2>3 DEF ConnectFails, OutcomeOwned
  <2>4. CASE StatementEnds(p, "statement", "none") \/ StatementEnds(p, "beside", "open")
    BY <2>4 DEF StatementEnds, OutcomeOwned
  <2>5. CASE TxFnReturns(p)
    BY <2>5 DEF TxFnReturns, OutcomeOwned
  <2>6. CASE \E how \in {"fnError", "panic"} : TxFnFails(p, how)
    BY <2>6 DEF TxFnFails, OutcomeOwned
  <2>7. CASE Commit(p)
    BY <2>7 DEF Commit, OutcomeOwned
  <2>8. CASE PoolRollsBack(p)
    BY <2>8 DEF PoolRollsBack, OutcomeOwned
  <2>9. QED
    BY <1>1, <2>1, <2>2, <2>3, <2>4, <2>5, <2>6, <2>7, <2>8 DEF SqlStep
<1>2. CASE UNCHANGED sqlVars
  BY <1>2 DEF OutcomeOwned
<1>3. ASSUME NEW c \in Ids, PoolReleases(c) PROVE OutcomeOwned'
  BY <1>3 DEF PoolReleases, OutcomeOwned
<1>4. QED
  BY <1>1, <1>2, <1>3 DEF TxNext, RunFnEnds, AroundFn

----------------------------------------------------------------------------
(* The theorems.                                                           *)

LEMMA NextTx == TxInv /\ [TxNext]_txVars => TxInv'
<1> SUFFICES ASSUME TxInv, [TxNext]_txVars PROVE TxInv'
  OBVIOUS
<1>1. IInv'
  BY TxStepIsRunStep, NextInv DEF TxInv
<1>2. TxTypeOK' /\ ConnsOwned' /\ OutcomeOwned'
  BY NextTxTyped, NextConnsOwned, NextOutcomeOwned DEF TxInv, IInv
<1>3. QED
  BY <1>1, <1>2 DEF TxInv

\* The invariant the other theorems are read off.
THEOREM TxInvariant == TxSpec => []TxInv
<1>1. QED
  BY InitTx, NextTx, PTL DEF TxSpec

\* adapters/sqlx adds nothing to what a Run may do: every execution of
\* functions on sqlx sources is an execution of Executor.
THEOREM TxIsRun == TxSpec => Spec
<1>1. TxInit => Init
  BY DEF TxInit
<1>2. QED
  BY <1>1, TxStepIsRunStep, PTL DEF TxSpec, Spec

\* Every variable of the pools and of the transactions keeps its type: a
\* pool never releases a connection it was not rolling back.
THEOREM TxTyped == TxSpec => []TxTypeOK
<1>1. TxInv => TxTypeOK
  BY DEF TxInv
<1>2. QED
  BY <1>1, TxInvariant, PTL

\* handle.go:49, source.go:52: when its function has left the Run, whatever fn
\* did and whenever the context ended, a transaction is committed, rolled back
\* or taken over by database/sql, and no connection is in the function's hands.
THEOREM NoTxIsEverLeftOpen == TxSpec => []NoTxLeftOpen
<1>1. TxInv => NoTxLeftOpen
  BY DEF TxInv, ConnsOwned, OutcomeOwned, NoTxLeftOpen, TxLabels
<1>2. QED
  BY <1>1, TxInvariant, PTL

\* handle.go, source.go: nil is answered only for what was committed, and
\* nothing is committed whose fn failed or panicked.
THEOREM AnswersAlwaysMatch == TxSpec => []AnswerMatchesOutcome
<1>1. TxInv => AnswerMatchesOutcome
  BY DEF TxInv, OutcomeOwned, AnswerMatchesOutcome, TxLabels
<1>2. QED
  BY <1>1, TxInvariant, PTL

\* config.go:35-41: with MaxOpenConns >= MaxConcurrency the throttle is the
\* one place that can block, except beside a transaction and while the pool
\* rolls back, for any two such numbers: each connection but those is in the
\* hands of a function of its own that has cleared the throttle.
THEOREM FunctionsAlwaysLeaveRoom == TxSpec => []FunctionsLeaveRoom
<1>1. TxInv => FunctionsLeaveRoom
  <2> SUFFICES ASSUME TxInv, NEW p \in Procs,
                      entry[p] # None, sql[p] \in {"statementWait", "beginWait"},
                      Matched(entry[p]),
                      ~(undoing[entry[p]] > 0),
                      \A q \in Procs : <<q, 2>> \notin conns[entry[p]]
               PROVE  HasRoom(entry[p])
    BY DEF FunctionsLeaveRoom
  <2> DEFINE c == entry[p]
             others == Running(c) \ {p}
             owner == [x \in conns[c] |-> x[1]]
  <2>1. c \in Ids /\ At(p, "running")
    BY DEF TxInv, IInv, TypeOK, ConnsOwned
  <2>2. /\ MaxOpen[c] \in Nat
        /\ Limit[c] \in Int
        /\ Limit[c] > 0
        /\ Limit[c] <= MaxOpen[c]
        /\ undoing[c] = 0
    BY <2>1, MaxOpenAssumption, LimitAssumption DEF Matched, Throttled, TxInv, TxTypeOK
  <2>3. Cardinality(Running(c)) <= Limit[c]
    BY <2>1, <2>2, InvBounds DEF TxInv, ConcurrencyBounded, Matched
  <2>4. IsFiniteSet(Running(c)) /\ Cardinality(Running(c)) \in Nat
    BY ProcsAssumption, FS_Subset, FS_CardinalityType DEF Running
  <2>5. IsFiniteSet(others) /\ Cardinality(others) = Cardinality(Running(c)) - 1
    BY <2>1, <2>4, FS_RemoveElement DEF Running
  <2>6. \A x \in conns[c] : \E q \in others : x = <<q, 1>>
    <3> SUFFICES ASSUME NEW x \in conns[c] PROVE \E q \in others : x = <<q, 1>>
      OBVIOUS
    <3>1. PICK q \in Procs : x = <<q, 1>>
      BY <2>1 DEF TxInv, TxTypeOK
    <3>2. entry[q] = c /\ sql[q] \in TxLabels \cup {"statement"}
      BY <2>1, <3>1 DEF TxInv, ConnsOwned
    <3>3. At(q, "running") /\ q # p
      BY <3>2 DEF TxInv, ConnsOwned, TxLabels
    <3>4. QED
      BY <3>1, <3>2, <3>3 DEF Running
  <2>7. owner \in Injection(conns[c], others)
    BY <2>6 DEF Injection, IsInjective
  <2>8. IsFiniteSet(conns[c]) /\ Cardinality(conns[c]) <= Cardinality(others)
    BY <2>5, <2>7, FS_Injection
  <2>9. Cardinality(conns[c]) \in Nat
    BY <2>8, FS_CardinalityType
  <2>10. QED
    BY <2>2, <2>3, <2>4, <2>5, <2>8, <2>9 DEF HasRoom
<1>2. QED
  BY <1>1, TxInvariant, PTL
============================================================================
