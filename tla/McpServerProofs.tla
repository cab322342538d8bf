-------------------------- MODULE McpServerProofs --------------------------
(***************************************************************************)
(* Proofs about McpServer for any number of clients and sources, any       *)
(* policies, requests, results and limits.                                 *)
(***************************************************************************)
EXTENDS McpServer, SequenceTheorems, FiniteSetTheorems, WellFoundedInduction, TLAPS

USE DEF At, Goto, Answer, FnEnds, query, calls, vars, lifecycleVars

----------------------------------------------------------------------------
(* Authorization.                                                          *)

Managing == {"remove", "drain", "resolve", "open", "publish"}

Management == {"db_remove_source", "db_register_source"}

\* A call is of a tool its server offers, it manages sources only under a
\* grant, and a db_query is past Authorize only under one.
Authorized ==
    /\ pc \in [Procs -> Labels]
    /\ tool \in [Procs -> Tools \cup {None}]
    /\ \A p \in Procs :
          /\ ~At(p, "idle") /\ tool[p] \in Management => server.management
          /\ pc[p] \in Managing => server.management /\ server.manage
          /\ pc[p] \in {"validate", "run", "throttle"} /\ tool[p] = "db_query" => server.query

LEMMA InitAuthorized == Init => Authorized
BY DEF Init, ToAll, Authorized, Labels, Managing

\* The next label of a call that Authorize lets through.
LEMMA AuthorizeLeads ==
    ASSUME Authorized, NEW p \in Procs, Authorize(p)
    PROVE  \E next \in {"answered", "validate", "remove", "resolve", "run"} :
              /\ Goto(p, next)
              /\ next \in {"remove", "resolve"} => tool[p] \in Management /\ Granted(tool[p])
              /\ next \in {"validate", "run"} => Granted(tool[p])
BY DEF Authorize, Management

LEMMA NextAuthorized ==
    ASSUME Authorized, [Next]_vars
    PROVE  Authorized'
<1> USE DEF Authorized, Labels, Managing
<1>1. ASSUME NEW p \in Procs, NEW t \in Tools, NEW n \in Names, NEW r, Call(p, t, n, r)
      PROVE  Authorized'
  BY <1>1 DEF Call, Offered, Management
<1>2. ASSUME NEW p \in Procs, LocalStep(p) PROVE Authorized'
  <2>1. CASE Authorize(p)
    <3>1. PICK next \in {"answered", "validate", "remove", "resolve", "run"} :
              /\ Goto(p, next)
              /\ next \in {"remove", "resolve"} => tool[p] \in Management /\ Granted(tool[p])
              /\ next \in {"validate", "run"} => Granted(tool[p])
      BY <2>1, AuthorizeLeads
    <3>2. At(p, "authorize") /\ UNCHANGED <<server, tool>>
      BY <2>1 DEF Authorize
    <3>3. QED
      BY <3>1, <3>2 DEF Granted, Management, Inspections
  <2>2. CASE Answered(p)
    BY <2>2 DEF Answered
  <2>3. CASE RunSource(p)
    BY <2>3 DEF RunSource
  <2>4. CASE GiveUp(p) \/ Release(p) \/ Validate(p)
    BY <2>4 DEF GiveUp, Release, Validate
  <2>5. QED
    BY <1>2, <2>1, <2>2, <2>3, <2>4 DEF LocalStep
<1>3. ASSUME NEW p \in Procs, QueryStep(p) PROVE Authorized'
  BY <1>3 DEF QueryStep, Begin, NextRow, KeepRow, NoMoreRows, Encode, QueryFails
<1>4. ASSUME NEW p \in Procs, ManageStep(p) PROVE Authorized'
  BY <1>4 DEF ManageStep, RemoveSource, Drain, Resolve, Open, OpenFails, Publish
<1>5. ASSUME NEW p \in Procs, Enter(p) \/ Inspect(p) \/ Expire(p) PROVE Authorized'
  BY <1>5 DEF Enter, Inspect, Expire
<1>6. CASE Owner \/ UNCHANGED vars
  BY <1>6 DEF Owner
<1>7. QED
  BY <1>1, <1>2, <1>3, <1>4, <1>5, <1>6 DEF Next, ToolStep

LEMMA StepsAreGranted ==
    ASSUME Authorized, [Next]_vars, NEW p \in Procs, pc'[p] # pc[p]
    PROVE  /\ <<reg', stage'>> # <<reg, stage>> => server.management /\ server.manage
           /\ pc'[p] = "begin" => server.query
<1> USE DEF Authorized, Labels
<1>1. ASSUME NEW q \in Procs, NEW t \in Tools, NEW n \in Names, NEW r, Call(q, t, n, r)
      PROVE  UNCHANGED <<reg, stage>> /\ pc'[p] # "begin"
  BY <1>1 DEF Call
<1>2. ASSUME NEW q \in Procs, LocalStep(q)
      PROVE  UNCHANGED <<reg, stage>> /\ pc'[p] # "begin"
  <2>1. CASE Authorize(q)
    BY <2>1, AuthorizeLeads DEF Authorize
  <2>2. CASE ~Authorize(q)
    BY <1>2, <2>2 DEF LocalStep, Answered, RunSource, GiveUp, Release, Validate, AdmitWork,
       FinishWork
  <2>3. QED
    BY <2>1, <2>2
<1>3. ASSUME NEW q \in Procs, QueryStep(q)
      PROVE  UNCHANGED <<reg, stage>> /\ pc'[p] # "begin"
  BY <1>3 DEF QueryStep, Begin, NextRow, KeepRow, NoMoreRows, Encode, QueryFails
<1>4. ASSUME NEW q \in Procs, ManageStep(q)
      PROVE  server.management /\ server.manage /\ pc'[p] # "begin"
  BY <1>4 DEF ManageStep, RemoveSource, Drain, Resolve, Open, OpenFails, Publish, Managing
<1>5. ASSUME NEW q \in Procs, Enter(q) \/ Inspect(q) \/ Expire(q)
      PROVE  UNCHANGED <<reg, stage>> /\ (pc'[p] = "begin" => server.query)
  BY <1>5 DEF Enter, Inspect, Expire
<1>6. CASE Owner \/ UNCHANGED vars
  BY <1>6 DEF Owner
<1>7. QED
  BY <1>1, <1>2, <1>3, <1>4, <1>5, <1>6 DEF Next, ToolStep

LEMMA AlwaysAuthorized == Spec => []Authorized
BY InitAuthorized, NextAuthorized, PTL DEF Spec

\* policy.go:51-65, tools.go:121-134: a tool changes the sources of the store,
\* and asks a database for rows, only where options and policy say so; the
\* owner of the store may do as it likes meanwhile.
THEOREM NothingIsUngranted == Spec => NothingUngranted
<1>1. Authorized /\ [Next]_vars =>
          [\A p \in Procs : pc'[p] # pc[p] =>
              /\ <<reg', stage'>> # <<reg, stage>> => server.management /\ server.manage
              /\ pc'[p] = "begin" => server.query]_vars
  BY StepsAreGranted
<1>2. QED
  BY <1>1, AlwaysAuthorized, PTL DEF Spec, NothingUngranted

----------------------------------------------------------------------------
(* The rows of an answer.                                                  *)

\* The rows read so far are the beginning of the result.
Beginning(p) ==
    /\ Len(rows[p]) <= Len(result[p])
    /\ \A i \in 1..Len(rows[p]) : rows[p][i] = result[p][i]

Exact(p) == truncated[p] <=> rows[p] # result[p]

\* Only a query reads rows, it reads them in order, and once it has stopped it
\* has said whether there are more: what the label l and the answer a of a call
\* say of what it has read.
Tells(p, l, a) ==
    /\ l \in Managing \cup {"inspect"} => tool[p] # "db_query"
    /\ l \notin {"rows", "encode", "ended", "release", "answered"} => rows[p] = <<>>
    /\ l \notin {"encode", "ended", "release", "answered"} => ~truncated[p]
    /\ l = "encode" => Exact(p)
    /\ l = "release" => a = "error"
    /\ l \in {"ended", "answered"} /\ tool[p] = "db_query" /\ a = "ok" => Exact(p)

Reading ==
    /\ result \in [Procs -> Seq(Nat)]
    /\ rows \in [Procs -> Seq(Nat)]
    /\ truncated \in [Procs -> BOOLEAN]
    /\ answer \in [Procs -> {"none", "ok", "error"}]
    /\ \A p \in Procs : Beginning(p) /\ Tells(p, pc[p], answer[p])

LEMMA InitReading == Init => Reading
<1> SUFFICES ASSUME Init PROVE Reading
  OBVIOUS
<1> USE DEF Init, ToAll
<1>1. result \in [Procs -> Seq(Nat)] /\ rows \in [Procs -> Seq(Nat)]
  BY EmptySeq
<1>2. \A p \in Procs : Beginning(p)
  BY DEF Beginning
<1>3. QED
  BY <1>1, <1>2 DEF Reading, Tells, Managing

\* The next row of a result continues what has been read, and without one
\* everything has been.
LEMMA RowsContinue ==
    ASSUME Reading, NEW p \in Procs
    PROVE  /\ Len(rows[p]) \in Nat /\ Len(result[p]) \in Nat
           /\ Unread(p) => rows[p] # result[p]
           /\ ~Unread(p) => rows[p] = result[p]
           /\ Unread(p) =>
                 LET more == Append(rows[p], result[p][Len(rows[p]) + 1]) IN
                 /\ more \in Seq(Nat)
                 /\ Len(more) <= Len(result[p])
                 /\ \A i \in 1..Len(more) : more[i] = result[p][i]
<1>1. rows[p] \in Seq(Nat) /\ result[p] \in Seq(Nat) /\ Beginning(p)
  BY DEF Reading
<1>2. Len(rows[p]) \in Nat /\ Len(result[p]) \in Nat
  BY <1>1, LenProperties
<1>3. ~Unread(p) => rows[p] = result[p]
  <2> HAVE ~Unread(p)
  <2>1. Len(rows[p]) = Len(result[p])
    BY <1>1, <1>2 DEF Unread, Beginning
  <2>2. QED
    BY <1>1, <2>1, SeqEqual DEF Beginning
<1>4. ASSUME Unread(p)
      PROVE  LET more == Append(rows[p], result[p][Len(rows[p]) + 1]) IN
             /\ more \in Seq(Nat)
             /\ Len(more) <= Len(result[p])
             /\ \A i \in 1..Len(more) : more[i] = result[p][i]
  <2> DEFINE next == Len(rows[p]) + 1
             more == Append(rows[p], result[p][next])
  <2>1. next \in 1..Len(result[p])
    BY <1>2, <1>4 DEF Unread
  <2>2. result[p][next] \in Nat
    BY <1>1, <2>1, ElementOfSeq
  <2>3. more \in Seq(Nat) /\ Len(more) = next
    BY <1>1, <2>2
  <2>4. \A i \in 1..Len(more) : more[i] = result[p][i]
    BY <1>1, <1>2, <2>2, <2>3 DEF Beginning
  <2>5. QED
    BY <1>2, <2>1, <2>3, <2>4
<1>5. QED
  BY <1>2, <1>3, <1>4 DEF Unread

\* A step that reads nothing.
LEMMA ReadsNothing ==
    ASSUME Authorized, Reading, UNCHANGED <<tool, result, rows, truncated>>,
           NEW p \in Procs, NEW l \in Labels, NEW a \in {"none", "ok", "error"},
           Goto(p, l), answer' = [answer EXCEPT ![p] = a], Tells(p, l, a)
    PROVE  Reading'
<1> USE DEF Authorized, Reading
<1>1. \A q \in Procs : Beginning(q)'
  BY DEF Beginning
<1>2. \A m, b : \A q \in Procs : Tells(q, m, b) => Tells(q, m, b)'
  BY DEF Tells, Exact
<1>3. \A q \in Procs : Tells(q, pc'[q], answer'[q])
  <2>1. pc'[p] = l /\ answer'[p] = a
    OBVIOUS
  <2>2. \A q \in Procs : q # p => pc'[q] = pc[q] /\ answer'[q] = answer[q]
    OBVIOUS
  <2>3. QED
    BY <2>1, <2>2
<1>4. QED
  BY <1>1, <1>2, <1>3

\* The same when the call's answer stays what it is, or when all calls do.
LEMMA SaysNothing ==
    ASSUME Authorized, Reading, UNCHANGED <<tool, result, rows, truncated, answer>>,
           NEW p \in Procs, NEW l \in Labels, Goto(p, l), Tells(p, l, answer[p])
    PROVE  Reading'
<1>1. answer[p] \in {"none", "ok", "error"} /\ answer' = [answer EXCEPT ![p] = answer[p]]
  BY DEF Reading
<1>2. QED
  BY <1>1, ReadsNothing

LEMMA DoesNothing ==
    ASSUME Reading, UNCHANGED <<pc, tool, result, rows, truncated, answer>>
    PROVE  Reading'
BY DEF Reading, Beginning, Tells, Exact

\* A step that changes what one call has read, and nothing of any other.
LEMMA ReadsOne ==
    ASSUME Authorized, Reading, NEW p \in Procs,
           result' \in [Procs -> Seq(Nat)],
           rows' \in [Procs -> Seq(Nat)],
           truncated' \in [Procs -> BOOLEAN],
           answer' \in [Procs -> {"none", "ok", "error"}],
           \A q \in Procs : q # p =>
               /\ pc'[q] = pc[q] /\ tool'[q] = tool[q] /\ answer'[q] = answer[q]
               /\ result'[q] = result[q] /\ rows'[q] = rows[q] /\ truncated'[q] = truncated[q],
           Beginning(p)', Tells(p, pc[p], answer[p])'
    PROVE  Reading'
<1>1. ASSUME NEW q \in Procs, q # p
      PROVE  Beginning(q)' /\ Tells(q, pc[q], answer[q])'
  <2>1. Beginning(q) /\ Tells(q, pc[q], answer[q])
    BY DEF Reading
  <2>2. /\ pc'[q] = pc[q] /\ tool'[q] = tool[q] /\ answer'[q] = answer[q]
        /\ result'[q] = result[q] /\ rows'[q] = rows[q] /\ truncated'[q] = truncated[q]
    BY <1>1
  <2>3. Beginning(q)'
    BY <2>1, <2>2 DEF Beginning
  <2>4. Exact(q)' <=> Exact(q)
    BY <2>2, Zenon DEF Exact
  <2>5. Tells(q, pc[q], answer[q])'
    BY <2>1, <2>2, <2>4, Zenon DEF Tells
  <2>6. QED
    BY <2>3, <2>5
<1>2. QED
  BY <1>1 DEF Reading

LEMMA NextReading ==
    ASSUME Authorized, Reading, [Next]_vars
    PROVE  Reading'
<1> USE DEF Labels, Managing
<1>0. /\ answer \in [Procs -> {"none", "ok", "error"}]
      /\ \A p \in Procs : Tells(p, pc[p], answer[p])
  BY DEF Reading
<1>1. ASSUME NEW p \in Procs, NEW t \in Tools, NEW n \in Names, NEW r, Call(p, t, n, r)
      PROVE  Reading'
  <2>1. rows[p] = <<>> /\ ~truncated[p]
    BY <1>0, <1>1 DEF Call, Tells
  <2>2. /\ UNCHANGED <<result, rows, truncated, answer>>
        /\ pc' = [pc EXCEPT ![p] = "authorize"]
        /\ tool' = [tool EXCEPT ![p] = t]
    BY <1>1 DEF Call
  <2>3. Beginning(p)' /\ Tells(p, pc[p], answer[p])'
    BY <2>1, <2>2 DEF Reading, Beginning, Tells, Authorized
  <2>4. QED
    BY <2>2, <2>3, ReadsOne DEF Reading, Authorized
<1>2. ASSUME NEW p \in Procs, LocalStep(p) PROVE Reading'
  <2>1. CASE Authorize(p)
    <3>1. /\ At(p, "authorize") /\ rows[p] = <<>> /\ ~truncated[p]
          /\ UNCHANGED <<tool, result, rows, truncated>>
      BY <1>0, <2>1 DEF Authorize, Tells
    <3>2. CASE ~Granted(tool[p])
      <4>1. Answer(p, "error")
        BY <2>1, <3>2 DEF Authorize
      <4>2. QED
        BY <3>1, <4>1, ReadsNothing DEF Tells
    <3>3. CASE Granted(tool[p]) /\ tool[p] = "db_list_sources"
      <4>1. Answer(p, "ok")
        BY <2>1, <3>3 DEF Authorize
      <4>2. QED
        BY <3>1, <3>3, <4>1, ReadsNothing DEF Tells
    <3>4. CASE Granted(tool[p]) /\ tool[p] # "db_list_sources"
      <4>1. UNCHANGED answer
        BY <2>1, <3>4 DEF Authorize
      <4>2. PICK next \in {"validate", "remove", "resolve", "run"} :
                Goto(p, next) /\ (next \in {"remove", "resolve"} => tool[p] \in Management)
        BY <2>1, <3>4 DEF Authorize, Management
      <4>3. QED
        BY <3>1, <4>1, <4>2, SaysNothing DEF Tells, Management
    <3>5. QED
      BY <3>2, <3>3, <3>4
  <2>2. CASE Answered(p)
    <3>1. Beginning(p)' /\ Tells(p, pc[p], answer[p])'
      BY <2>2 DEF Answered, Beginning, Tells, Exact, Reading, Authorized
    <3>2. rows' \in [Procs -> Seq(Nat)] /\ result' \in [Procs -> Seq(Nat)]
      BY <2>2, EmptySeq DEF Answered, Reading
    <3>3. QED
      BY <2>2, <3>1, <3>2, ReadsOne DEF Answered, Reading, Authorized
  <2>3. CASE RunSource(p)
    <3>1. /\ rows[p] = <<>> /\ ~truncated[p]
          /\ UNCHANGED <<tool, result, rows, truncated>>
      BY <1>0, <2>3 DEF RunSource, Tells
    <3>2. \/ Answer(p, "error")
          \/ Goto(p, "throttle") /\ UNCHANGED answer
          \/ FnEnds(p, "release", "error")
      BY <2>3 DEF RunSource
    <3>3. QED
      BY <3>1, <3>2, ReadsNothing, SaysNothing DEF Tells
  <2>4. CASE GiveUp(p)
    BY <1>0, <2>4, ReadsNothing DEF GiveUp, Tells
  <2>5. CASE Release(p)
    <3>1. Tells(p, "answered", answer[p])
      BY <1>0, <2>5 DEF Release, Tells
    <3>2. QED
      BY <2>5, <3>1, SaysNothing DEF Release
  <2>6. CASE Validate(p)
    <3>1. /\ rows[p] = <<>> /\ ~truncated[p]
          /\ UNCHANGED <<tool, result, rows, truncated>>
          /\ Answer(p, "error") \/ (Goto(p, "run") /\ UNCHANGED answer)
      BY <1>0, <2>6 DEF Validate, Tells
    <3>2. QED
      BY <3>1, ReadsNothing, SaysNothing DEF Tells
  <2>7. QED
    BY <1>2, <2>1, <2>2, <2>3, <2>4, <2>5, <2>6 DEF LocalStep
<1>3. ASSUME NEW p \in Procs, QueryStep(p) PROVE Reading'
  <2>1. CASE \E full \in Results, size \in Envelopes : Begin(p, full, size)
    <3>1. PICK full \in Results, size \in Envelopes : Begin(p, full, size)
      BY <2>1
    <3>2. full \in Seq(Nat) /\ Len(full) \in Nat
      BY McpAssumption, LenProperties
    <3>3. rows[p] = <<>> /\ ~truncated[p]
      BY <1>0, <3>1 DEF Begin, Tells
    <3>4. result' = [result EXCEPT ![p] = full] /\ UNCHANGED <<rows, truncated, tool>>
      BY <3>1 DEF Begin
    <3>5. (Goto(p, "rows") /\ UNCHANGED answer) \/ FnEnds(p, "ended", "error")
      BY <3>1 DEF Begin
    <3>6. Beginning(p)'
      BY <3>2, <3>3, <3>4 DEF Beginning, Reading
    <3>7. Tells(p, pc[p], answer[p])'
      BY <3>3, <3>4, <3>5 DEF Tells, Reading, Authorized
    <3>8. QED
      BY <3>2, <3>4, <3>5, <3>6, <3>7, ReadsOne DEF Reading, Authorized
  <2>2. CASE NextRow(p)
    <3>1. /\ At(p, "rows") /\ Unread(p) /\ ~truncated[p]
          /\ UNCHANGED <<tool, result>>
      BY <1>0, <2>2 DEF NextRow, Tells
    <3>2. CASE Len(rows[p]) = limits[p].rows
      <4>1. /\ truncated' = [truncated EXCEPT ![p] = TRUE]
            /\ Goto(p, "encode")
            /\ UNCHANGED <<rows, answer>>
        BY <2>2, <3>2 DEF NextRow
      <4>2. Exact(p)' /\ Beginning(p)'
        BY <3>1, <4>1, RowsContinue DEF Exact, Beginning, Reading
      <4>3. Tells(p, pc[p], answer[p])'
        BY <4>1, <4>2 DEF Tells, Authorized
      <4>4. QED
        BY <3>1, <4>1, <4>2, <4>3, ReadsOne DEF Reading, Authorized
    <3>3. CASE FnEnds(p, "ended", "error") /\ UNCHANGED <<rows, truncated>>
      BY <3>1, <3>3, ReadsNothing DEF Tells
    <3>4. CASE /\ rows' = [rows EXCEPT ![p] = Append(rows[p], result[p][Len(rows[p]) + 1])]
               /\ UNCHANGED <<pc, answer, truncated>>
      <4>1. rows' \in [Procs -> Seq(Nat)]
        BY <3>1, <3>4, RowsContinue DEF Reading
      <4>2. Beginning(p)'
        BY <3>1, <3>4, RowsContinue DEF Beginning, Reading
      <4>3. Tells(p, pc[p], answer[p])'
        BY <3>1, <3>4 DEF Tells
      <4>4. QED
        BY <3>1, <3>4, <4>1, <4>2, <4>3, ReadsOne DEF Reading
    <3>5. QED
      BY <2>2, <3>2, <3>3, <3>4 DEF NextRow, KeepRow
  <2>3. CASE NoMoreRows(p)
    <3>1. Exact(p) /\ ~truncated[p]
      BY <1>0, <2>3, RowsContinue DEF NoMoreRows, Exact, Tells
    <3>2. QED
      BY <2>3, <3>1, SaysNothing DEF NoMoreRows, Tells
  <2>4. CASE Encode(p)
    <3>1. Exact(p)
      BY <1>0, <2>4 DEF Encode, Tells
    <3>2. QED
      BY <2>4, <3>1, ReadsNothing DEF Encode, Tells
  <2>5. CASE QueryFails(p)
    BY <2>5, ReadsNothing DEF QueryFails, Tells
  <2>6. QED
    BY <1>3, <2>1, <2>2, <2>3, <2>4, <2>5 DEF QueryStep
<1>4. ASSUME NEW p \in Procs, ManageStep(p) PROVE Reading'
  <2>1. UNCHANGED <<tool, result, rows, truncated>> /\ pc[p] \in Managing
    BY <1>4 DEF ManageStep, RemoveSource, Drain, Resolve, Open, OpenFails, Publish
  <2>2. \/ \E a \in {"ok", "error"} : Answer(p, a)
        \/ UNCHANGED answer /\ \E next \in Managing : Goto(p, next)
    BY <1>4 DEF ManageStep, RemoveSource, Drain, Resolve, Open, OpenFails, Publish
  <2>3. rows[p] = <<>> /\ ~truncated[p] /\ tool[p] # "db_query"
    BY <1>0, <2>1 DEF Tells
  <2>4. QED
    BY <2>1, <2>2, <2>3, ReadsNothing, SaysNothing DEF Tells
<1>5. ASSUME NEW p \in Procs, Enter(p) PROVE Reading'
  <2>1. rows[p] = <<>> /\ ~truncated[p]
    BY <1>0, <1>5 DEF Enter, Tells
  <2>2. QED
    BY <1>5, <2>1, SaysNothing DEF Enter, Tells
<1>6. ASSUME NEW p \in Procs, Inspect(p) PROVE Reading'
  <2>1. tool[p] # "db_query"
    BY <1>0, <1>6 DEF Inspect, Tells
  <2>2. QED
    BY <1>6, <2>1, ReadsNothing DEF Inspect, Tells
<1>7. ASSUME NEW p \in Procs, Expire(p) PROVE Reading'
  BY <1>7, DoesNothing DEF Expire
<1>8. CASE Owner \/ UNCHANGED vars
  BY <1>8, DoesNothing DEF Owner
<1>9. QED
  BY <1>1, <1>2, <1>3, <1>4, <1>5, <1>6, <1>7, <1>8 DEF Next, ToolStep

LEMMA AlwaysReading == Spec => []Reading
BY InitReading, NextReading, AlwaysAuthorized, PTL DEF Spec, Init

\* sql.go:255-258: the rows of an answer are the beginning of the result of its
\* query, and truncated says whether they are less than all of it.
THEOREM TruncationIsAlwaysExact == Spec => []TruncationIsExact
<1>1. Reading => TruncationIsExact
  <2> SUFFICES ASSUME Reading, NEW p \in Procs, AnsweredQuery(p)
               PROVE  IsPrefix(rows[p], result[p]) /\ Exact(p)
    BY DEF TruncationIsExact, Exact
  <2>1. rows[p] \in Seq(Nat) /\ result[p] \in Seq(Nat) /\ Beginning(p)
    BY DEF Reading
  <2>2. Len(rows[p]) \in 0..Len(result[p])
    BY <2>1, LenProperties DEF Beginning
  <2> DEFINE s == SubSeq(rows[p], 1, Len(rows[p]))
             t == SubSeq(result[p], 1, Len(rows[p]))
  <2>3. /\ s \in Seq(Nat) /\ Len(s) = Len(rows[p])
        /\ \A i \in 1..Len(rows[p]) : s[i] = rows[p][i]
    BY <2>1, SubSeqFull
  <2>4. /\ t \in Seq(Nat) /\ Len(t) = Len(rows[p])
        /\ \A i \in 1..Len(rows[p]) : t[i] = result[p][i]
    BY <2>1, <2>2
  <2>5. s = t
    BY <2>1, <2>3, <2>4, SeqEqual DEF Beginning
  <2>6. Exact(p)
    BY DEF Reading, Tells, AnsweredQuery
  <2>7. QED
    BY <2>2, <2>5, <2>6 DEF IsPrefix
<1>2. QED
  BY <1>1, AlwaysReading, PTL

----------------------------------------------------------------------------
(* Sums.  Total folds + over a sequence in an order that is not specified; *)
(* these lemmas show that it adds up all the same.                         *)

\* Finite sets are as many as numbers, so that among some of them there is a
\* smallest one.
LEMMA Smallest ==
    ASSUME NEW U, IsFiniteSet(U), NEW B \in SUBSET SUBSET U, B # {}
    PROVE  \E D \in B : \A E \in B : Cardinality(D) <= Cardinality(E)
<1> DEFINE sizes == {Cardinality(D) : D \in B}
<1>1. \A D \in B : Cardinality(D) \in Nat
  BY FS_Subset, FS_CardinalityType
<1>2. sizes \subseteq Nat /\ sizes # {}
  BY <1>1
<1>3. IsWellFoundedOn(OpToRel(<, Nat), Nat)
  BY NatLessThanWellFounded
<1> HIDE DEF sizes
<1>4. PICK least \in sizes : \A size \in sizes : <<size, least>> \notin OpToRel(<, Nat)
  BY <1>2, <1>3, WFMin
<1>5. ASSUME NEW size \in sizes PROVE least <= size
  <2>1. size \in Nat /\ least \in Nat
    BY <1>2
  <2>2. size < least => <<size, least>> \in OpToRel(<, Nat)
    BY <2>1 DEF OpToRel
  <2>3. ~(size < least)
    BY <1>4, <2>2
  <2>4. QED
    BY <2>1, <2>3
<1>6. QED
  BY <1>1, <1>5 DEF sizes

\* The same for numbers, as a principle of induction.
LEMMA EveryNumber ==
    ASSUME NEW K \in SUBSET Nat, 0 \in K, \A k \in K : k + 1 \in K
    PROVE  K = Nat
<1> SUFFICES ASSUME Nat \ K # {} PROVE FALSE
  OBVIOUS
<1>1. IsWellFoundedOn(OpToRel(<, Nat), Nat)
  BY NatLessThanWellFounded
<1>2. PICK k \in Nat \ K : \A j \in Nat \ K : <<j, k>> \notin OpToRel(<, Nat)
  BY <1>1, WFMin
<1>3. k - 1 \in Nat \ K
  OBVIOUS
<1>4. <<k - 1, k>> \in OpToRel(<, Nat)
  BY <1>3 DEF OpToRel
<1>5. QED
  BY <1>2, <1>3, <1>4

Anyone(D) == CHOOSE i \in D : TRUE

\* What the sum over the places D of s is when the sums over fewer are known.
Adds(s, sum, D) == IF D = {} THEN 0 ELSE s[Anyone(D)] + sum[D \ {Anyone(D)}]

Sums(s) == CHOOSE sum : sum = [D \in SUBSET DOMAIN s |-> Adds(s, sum, D)]

LEMMA TotalIsSum ==
    ASSUME NEW s PROVE Total(s) = Sums(s)[DOMAIN s]
BY DEF Total, FoldSeq, FoldFunction, FoldFunctionOnSet, MapThenFoldSet, Sums, Adds, Anyone

LEMMA Places ==
    ASSUME NEW s \in Seq(Nat)
    PROVE  /\ DOMAIN s = 1..Len(s) /\ IsFiniteSet(1..Len(s))
           /\ \A D \in SUBSET (1..Len(s)) :
                 /\ IsFiniteSet(D) /\ Cardinality(D) \in Nat
                 /\ D # {} => Anyone(D) \in D
                 /\ \A i \in D : Cardinality(D \ {i}) = Cardinality(D) - 1
                 /\ Cardinality(D) = 0 <=> D = {}
<1>1. Len(s) \in Nat /\ DOMAIN s = 1..Len(s)
  BY LenProperties
<1>2. IsFiniteSet(1..Len(s))
  BY <1>1, FS_Interval
<1>3. ASSUME NEW D \in SUBSET (1..Len(s)) PROVE IsFiniteSet(D) /\ Cardinality(D) \in Nat
  BY <1>2, FS_Subset, FS_CardinalityType
<1>4. ASSUME NEW D \in SUBSET (1..Len(s)) PROVE Cardinality(D) = 0 <=> D = {}
  BY <1>3, FS_EmptySet
<1>5. ASSUME NEW D \in SUBSET (1..Len(s)), NEW i \in D
      PROVE  Cardinality(D \ {i}) = Cardinality(D) - 1
  BY <1>3, FS_RemoveElement
<1>6. QED
  BY <1>1, <1>2, <1>3, <1>4, <1>5 DEF Anyone

\* There are such sums: of no places, then of one more at a time.
Summed(s, k) ==
    \E sum \in [SUBSET (1..Len(s)) -> Nat] : \A D \in SUBSET (1..Len(s)) :
        Cardinality(D) <= k => sum[D] = Adds(s, sum, D)

LEMMA OneMorePlace ==
    ASSUME NEW s \in Seq(Nat), NEW k \in Nat, Summed(s, k) PROVE Summed(s, k + 1)
<1> DEFINE U == 1..Len(s)
<1>1. PICK sum \in [SUBSET U -> Nat] : \A D \in SUBSET U :
          Cardinality(D) <= k => sum[D] = Adds(s, sum, D)
  BY DEF Summed
<1>2. PICK more : more = [D \in SUBSET U |-> Adds(s, sum, D)]
  OBVIOUS
<1>3. ASSUME NEW D \in SUBSET U, D # {}
      PROVE  /\ Anyone(D) \in U /\ s[Anyone(D)] \in Nat
             /\ D \ {Anyone(D)} \in SUBSET U
             /\ Cardinality(D) \in Nat
             /\ Cardinality(D \ {Anyone(D)}) = Cardinality(D) - 1
  BY <1>3, Places, ElementOfSeq
<1>4. ASSUME NEW D \in SUBSET U
      PROVE  more[D] = Adds(s, sum, D) /\ more[D] \in Nat
  <2>1. more[D] = Adds(s, sum, D)
    BY <1>2
  <2>2. CASE D = {}
    BY <2>1, <2>2 DEF Adds
  <2>3. CASE D # {}
    <3>1. s[Anyone(D)] \in Nat /\ D \ {Anyone(D)} \in SUBSET U
      BY <1>3, <2>3
    <3>2. sum[D \ {Anyone(D)}] \in Nat
      BY <3>1
    <3>3. QED
      BY <2>1, <2>3, <3>1, <3>2 DEF Adds
  <2>4. QED
    BY <2>2, <2>3
<1>5. ASSUME NEW D \in SUBSET U, Cardinality(D) <= k + 1
      PROVE  more[D] = Adds(s, more, D)
  <2>1. CASE D = {}
    BY <1>4, <2>1 DEF Adds
  <2>2. CASE D # {}
    <3>0. /\ D \ {Anyone(D)} \in SUBSET U
          /\ Cardinality(D) \in Nat
          /\ Cardinality(D \ {Anyone(D)}) = Cardinality(D) - 1
      BY <1>3, <2>2
    <3>1. Cardinality(D \ {Anyone(D)}) <= k
      BY <1>5, <3>0
    <3>2. more[D \ {Anyone(D)}] = sum[D \ {Anyone(D)}]
      BY <1>1, <1>4, <3>0, <3>1
    <3>3. QED
      BY <1>4, <2>2, <3>2 DEF Adds
  <2>3. QED
    BY <2>1, <2>2
<1>6. more \in [SUBSET U -> Nat]
  BY <1>2, <1>4
<1>7. QED
  BY <1>5, <1>6 DEF Summed

LEMMA SumsExist ==
    ASSUME NEW s \in Seq(Nat)
    PROVE  /\ Sums(s) \in [SUBSET (1..Len(s)) -> Nat]
           /\ \A D \in SUBSET (1..Len(s)) : Sums(s)[D] = Adds(s, Sums(s), D)
<1> DEFINE U == 1..Len(s)
<1>1. Summed(s, 0)
  <2>1. PICK zero : zero = [D \in SUBSET U |-> 0]
    OBVIOUS
  <2>2. ASSUME NEW D \in SUBSET U, Cardinality(D) <= 0 PROVE zero[D] = Adds(s, zero, D)
    <3>1. Cardinality(D) \in Nat /\ (Cardinality(D) = 0 <=> D = {})
      BY Places
    <3>2. D = {}
      BY <2>2, <3>1
    <3>3. QED
      BY <2>1, <3>2 DEF Adds
  <2>3. zero \in [SUBSET U -> Nat]
    BY <2>1
  <2>4. QED
    BY <2>2, <2>3 DEF Summed
<1>2. \A k \in Nat : Summed(s, k)
  <2>1. \A k \in Nat : Summed(s, k) => Summed(s, k + 1)
    BY OneMorePlace
  <2>2. PICK K \in SUBSET Nat : \A k \in Nat : k \in K <=> Summed(s, k)
    <3>1. {k \in Nat : Summed(s, k)} \in SUBSET Nat
      OBVIOUS
    <3>2. QED
      BY <3>1
  <2>3. 0 \in K /\ \A k \in K : k + 1 \in K
    BY <1>1, <2>1, <2>2
  <2>4. K = Nat
    BY <2>3, EveryNumber
  <2>5. QED
    BY <2>2, <2>4
<1>4. PICK sum \in [SUBSET U -> Nat] : \A D \in SUBSET U :
          Cardinality(D) <= Cardinality(U) => sum[D] = Adds(s, sum, D)
  <2>1. Summed(s, Cardinality(U))
    BY <1>2, Places
  <2>2. QED
    BY <2>1 DEF Summed
<1>5. \A D \in SUBSET U : sum[D] = Adds(s, sum, D)
  <2>1. \A D \in SUBSET U : Cardinality(D) <= Cardinality(U)
    BY Places, FS_Subset
  <2>2. QED
    BY <1>4, <2>1
<1>6. sum = [D \in SUBSET DOMAIN s |-> Adds(s, sum, D)]
  BY <1>4, <1>5, Places
<1>7. Sums(s) = [D \in SUBSET DOMAIN s |-> Adds(s, Sums(s), D)]
  BY <1>6 DEF Sums
<1>8. Sums(s) \in [SUBSET U -> Nat]
  <2>1. DOMAIN Sums(s) = SUBSET U /\ \A D \in SUBSET U : Sums(s)[D] = Adds(s, Sums(s), D)
    BY <1>7, Places
  <2> DEFINE B == {D \in SUBSET U : Sums(s)[D] \notin Nat}
  <2>2. SUFFICES ASSUME B # {} PROVE FALSE
    BY <1>7, <2>1, Places
  <2>3. PICK D \in B : \A E \in B : Cardinality(D) <= Cardinality(E)
    <3> HIDE DEF B
    <3>1. B \in SUBSET SUBSET U
      BY DEF B
    <3>2. QED
      BY <2>2, <3>1, Places, Smallest
  <2>4. D \in SUBSET U /\ Sums(s)[D] \notin Nat /\ Sums(s)[D] = Adds(s, Sums(s), D)
    BY <2>1, <2>3
  <2>5. D # {}
    <3> HIDE DEF B, U
    <3>1. QED
      BY <2>4 DEF Adds
  <2> DEFINE rest == D \ {Anyone(D)}
  <2>6. Anyone(D) \in D /\ s[Anyone(D)] \in Nat /\ rest \in SUBSET U
    BY <2>4, <2>5, Places, ElementOfSeq
  <2>7. Cardinality(D) \in Nat /\ Cardinality(rest) = Cardinality(D) - 1
    BY <2>4, <2>6, Places
  <2>8. rest \notin B
    <3> HIDE DEF rest, B
    <3>1. QED
      BY <2>3, <2>7
  <2>9. Sums(s)[rest] \in Nat
    BY <2>6, <2>8
  <2>10. Sums(s)[D] = s[Anyone(D)] + Sums(s)[rest]
    BY <2>4, <2>5 DEF Adds
  <2>11. QED
    BY <2>4, <2>6, <2>9, <2>10
<1>9. QED
  BY <1>7, <1>8, Places

\* Whichever place is taken away first.
LEMMA AnyPlaceFirst ==
    ASSUME NEW s \in Seq(Nat), NEW D \in SUBSET (1..Len(s)), NEW i \in D
    PROVE  Sums(s)[D] = s[i] + Sums(s)[D \ {i}]
<1> DEFINE Fails(E) == \E j \in E : Sums(s)[E] # s[j] + Sums(s)[E \ {j}]
<1>1. SUFFICES ASSUME Fails(D) PROVE FALSE
  OBVIOUS
<1>2. PICK B \in SUBSET SUBSET (1..Len(s)) : \A E \in SUBSET (1..Len(s)) : E \in B <=> Fails(E)
  <2>1. {E \in SUBSET (1..Len(s)) : Fails(E)} \in SUBSET SUBSET (1..Len(s))
    OBVIOUS
  <2> HIDE DEF Fails
  <2>2. QED
    BY <2>1
<1>3. PICK E \in B : \A F \in B : Cardinality(E) <= Cardinality(F)
  <2>1. D \in B
    BY <1>1, <1>2
  <2>2. QED
    BY <2>1, Places, Smallest
<1>4. E \in SUBSET (1..Len(s)) /\ Fails(E)
  BY <1>2, <1>3
<1>5. PICK j \in E : Sums(s)[E] # s[j] + Sums(s)[E \ {j}]
  BY <1>4
<1>6. PICK k \in E : k = Anyone(E)
  BY <1>4, <1>5, Places
<1>7. ASSUME NEW F \in SUBSET (1..Len(s)), ~(Cardinality(E) <= Cardinality(F)), NEW m \in F
      PROVE  Sums(s)[F] = s[m] + Sums(s)[F \ {m}]
  BY <1>2, <1>3, <1>7
<1>8. Sums(s)[E] = s[k] + Sums(s)[E \ {k}]
  <2>1. E # {}
    BY <1>6
  <2>2. QED
    BY <1>4, <1>6, <2>1, SumsExist DEF Adds
<1>9. k # j
  BY <1>5, <1>8
<1>10. /\ Cardinality(E) \in Nat
       /\ Cardinality(E \ {k}) = Cardinality(E) - 1
       /\ Cardinality(E \ {j}) = Cardinality(E) - 1
  BY <1>4, Places
<1>11. Sums(s)[E \ {k}] = s[j] + Sums(s)[(E \ {k}) \ {j}]
  <2>1. E \ {k} \in SUBSET (1..Len(s)) /\ j \in E \ {k}
    BY <1>4, <1>9
  <2>2. ~(Cardinality(E) <= Cardinality(E \ {k}))
    BY <1>10
  <2>3. QED
    BY <1>7, <2>1, <2>2
<1>12. Sums(s)[E \ {j}] = s[k] + Sums(s)[(E \ {k}) \ {j}]
  <2>1. E \ {j} \in SUBSET (1..Len(s)) /\ k \in E \ {j}
    BY <1>4, <1>9
  <2>2. ~(Cardinality(E) <= Cardinality(E \ {j}))
    BY <1>10
  <2>3. (E \ {j}) \ {k} = (E \ {k}) \ {j}
    OBVIOUS
  <2>4. QED
    BY <1>7, <2>1, <2>2, <2>3
<1>13. s[k] \in Nat /\ s[j] \in Nat /\ Sums(s)[(E \ {k}) \ {j}] \in Nat
  <2>1. (E \ {k}) \ {j} \in SUBSET (1..Len(s)) /\ k \in 1..Len(s) /\ j \in 1..Len(s)
    BY <1>4
  <2>2. QED
    BY <2>1, SumsExist, ElementOfSeq
<1>14. PICK others \in Nat : others = Sums(s)[(E \ {k}) \ {j}]
  BY <1>13
<1>15. Sums(s)[E] = s[k] + (s[j] + others)
  BY <1>8, <1>11, <1>14
<1>16. s[j] + Sums(s)[E \ {j}] = s[j] + (s[k] + others)
  BY <1>12, <1>14
<1>17. s[k] + (s[j] + others) = s[j] + (s[k] + others)
  <2>1. \A a, b, c \in Nat : a + (b + c) = b + (a + c)
    OBVIOUS
  <2>2. QED
    BY <1>13, <2>1
<1>18. QED
  BY <1>5, <1>15, <1>16, <1>17

\* The places of s have the same sums in a longer sequence.
LEMMA SameSums ==
    ASSUME NEW s \in Seq(Nat), NEW t \in Seq(Nat), Len(s) <= Len(t),
           \A i \in 1..Len(s) : t[i] = s[i],
           NEW D \in SUBSET (1..Len(s))
    PROVE  Sums(t)[D] = Sums(s)[D]
<1>0. SUBSET (1..Len(s)) \subseteq SUBSET (1..Len(t))
  BY LenProperties
<1>1. SUFFICES ASSUME Sums(t)[D] # Sums(s)[D] PROVE FALSE
  OBVIOUS
<1>2. PICK B \in SUBSET SUBSET (1..Len(s)) :
          \A E \in SUBSET (1..Len(s)) : E \in B <=> Sums(t)[E] # Sums(s)[E]
  <2>1. {E \in SUBSET (1..Len(s)) : Sums(t)[E] # Sums(s)[E]} \in SUBSET SUBSET (1..Len(s))
    OBVIOUS
  <2>2. QED
    BY <2>1
<1>3. PICK E \in B : \A F \in B : Cardinality(E) <= Cardinality(F)
  <2>1. D \in B
    BY <1>1, <1>2
  <2>2. QED
    BY <2>1, Places, Smallest
<1>4. E \in SUBSET (1..Len(s)) /\ E \in SUBSET (1..Len(t)) /\ Sums(t)[E] # Sums(s)[E]
  BY <1>0, <1>2, <1>3
<1>5. Sums(s)[E] = Adds(s, Sums(s), E) /\ Sums(t)[E] = Adds(t, Sums(t), E)
  BY <1>4, SumsExist
<1>6. E # {}
  BY <1>4, <1>5 DEF Adds
<1>7. PICK rest \in SUBSET (1..Len(s)) : rest = E \ {Anyone(E)}
  BY <1>4
<1>8. /\ Anyone(E) \in 1..Len(s) /\ Cardinality(E) \in Nat
      /\ Cardinality(rest) = Cardinality(E) - 1
  BY <1>4, <1>6, <1>7, Places
<1>9. Sums(t)[rest] = Sums(s)[rest]
  <2>1. rest \notin B
    BY <1>3, <1>8
  <2>2. QED
    BY <1>2, <2>1
<1>10. QED
  BY <1>4, <1>5, <1>6, <1>7, <1>8, <1>9 DEF Adds

\* So Total is a sum: nothing, and one more size each time a row is kept.
LEMMA TotalAdds ==
    /\ Total(<<>>) = 0
    /\ \A s \in Seq(Nat) : Total(s) \in Nat
    /\ \A s \in Seq(Nat), x \in Nat : Total(Append(s, x)) = Total(s) + x
<1>1. ASSUME NEW s \in Seq(Nat)
      PROVE  Total(s) = Sums(s)[1..Len(s)] /\ Total(s) \in Nat
  <2>1. Total(s) = Sums(s)[1..Len(s)]
    BY TotalIsSum, Places
  <2>2. QED
    BY <2>1, SumsExist
<1>2. Total(<<>>) = 0
  <2>1. <<>> \in Seq(Nat) /\ 1..Len(<<>>) = {}
    OBVIOUS
  <2>2. Sums(<<>>)[{}] = Adds(<<>>, Sums(<<>>), {})
    BY <2>1, SumsExist
  <2>3. Adds(<<>>, Sums(<<>>), {}) = 0
    BY DEF Adds
  <2>4. QED
    BY <1>1, <2>1, <2>2, <2>3
<1>3. ASSUME NEW s \in Seq(Nat), NEW x \in Nat
      PROVE  Total(Append(s, x)) = Total(s) + x
  <2>1. PICK t : t = Append(s, x)
    OBVIOUS
  <2>2. /\ t \in Seq(Nat) /\ Len(s) \in Nat /\ Len(t) = Len(s) + 1
        /\ t[Len(t)] = x /\ \A i \in 1..Len(s) : t[i] = s[i]
    BY <2>1, LenProperties
  <2>3. /\ 1..Len(t) \in SUBSET (1..Len(t)) /\ Len(t) \in 1..Len(t)
        /\ (1..Len(t)) \ {Len(t)} = 1..Len(s)
    BY <2>2
  <2>4. Sums(t)[1..Len(t)] = t[Len(t)] + Sums(t)[(1..Len(t)) \ {Len(t)}]
    BY <2>2, <2>3, AnyPlaceFirst
  <2>5. Sums(t)[1..Len(s)] = Sums(s)[1..Len(s)]
    <3>1. Len(s) <= Len(t) /\ 1..Len(s) \in SUBSET (1..Len(s))
      BY <2>2
    <3>2. QED
      BY <2>2, <3>1, SameSums
  <2>6. Total(t) = Sums(t)[1..Len(t)] /\ Total(s) = Sums(s)[1..Len(s)] /\ Total(s) \in Nat
    BY <1>1, <2>2
  <2>7. Total(t) = x + Total(s)
    <3>1. Total(t) = x + Sums(t)[1..Len(s)]
      BY <2>2, <2>3, <2>4, <2>6
    <3>2. QED
      BY <2>5, <2>6, <3>1
  <2>8. x + Total(s) = Total(s) + x
    BY <2>6
  <2>9. QED
    BY <2>1, <2>7, <2>8
<1>4. QED
  BY <1>1, <1>2, <1>3

----------------------------------------------------------------------------
(* Types.                                                                  *)

\* A call that is under way names a source.
Named == \A p \in Procs : ~At(p, "idle") => source[p] \in Names

\* The types of what belongs to calls alone.
CallTypes ==
    /\ server \in Servers
    /\ pc \in [Procs -> Labels]
    /\ tool \in [Procs -> Tools \cup {None}]
    /\ source \in [Procs -> Names \cup {None}]
    /\ expired \in [Procs -> BOOLEAN]
    /\ answer \in [Procs -> {"none", "ok", "error"}]

QueryTypes ==
    /\ request \in [Procs -> Requests \cup {NoRequest}]
    /\ limits \in [Procs -> [rows : 0..MaximumMaxRows, bytes : 0..MaximumMaxBytes]]
    /\ result \in [Procs -> Results \cup {<<>>}]
    /\ rows \in [Procs -> Seq(Nat)]
    /\ bytes \in [Procs -> 0..MaximumMaxBytes]
    /\ truncated \in [Procs -> BOOLEAN]
    /\ envelope \in [Procs -> Envelopes \cup {0}]

StoreTypes == LifecycleTypeOK /\ held \in [Procs -> Ids \cup {None}]

Typed == CallTypes /\ Named /\ QueryTypes /\ StoreTypes

LEMMA InitTyped == Init => Typed
<1> SUFFICES ASSUME Init PROVE Typed
  OBVIOUS
<1> USE DEF Init, ToAll
<1>1. CallTypes /\ Named
  BY DEF CallTypes, Named, Labels
<1>2. StoreTypes
  BY DEF StoreTypes, LifecycleInit, LifecycleTypeOK, Stages
<1>3. QueryTypes
  <2>1. NoLimits \in [rows : 0..MaximumMaxRows, bytes : 0..MaximumMaxBytes]
    BY McpAssumption DEF NoLimits
  <2>2. <<>> \in Seq(Nat) /\ 0 \in 0..MaximumMaxBytes
    BY McpAssumption, EmptySeq
  <2>3. QED
    BY <2>1, <2>2 DEF QueryTypes
<1>4. QED
  BY <1>1, <1>2, <1>3 DEF Typed

LEMMA NextCallTypes ==
    ASSUME CallTypes, Named, [Next]_vars PROVE CallTypes' /\ Named'
<1> USE DEF CallTypes, Named, Labels
<1>1. ASSUME NEW p \in Procs, NEW t \in Tools, NEW n \in Names, NEW r, Call(p, t, n, r)
      PROVE  CallTypes' /\ Named'
  BY <1>1 DEF Call
<1>2. ASSUME NEW p \in Procs, Answered(p) PROVE CallTypes' /\ Named'
  BY <1>2 DEF Answered
\* Every other step of a call leads it on, and may answer.
<1>3. ASSUME NEW p \in Procs, NEW l \in Labels, Goto(p, l), ~At(p, "idle"),
             UNCHANGED <<server, tool, source, expired>>,
             \/ UNCHANGED answer
             \/ \E a \in {"none", "ok", "error"} : answer' = [answer EXCEPT ![p] = a]
      PROVE  CallTypes' /\ Named'
  BY <1>3
<1>4. ASSUME NEW p \in Procs,
             Authorize(p) \/ RunSource(p) \/ GiveUp(p) \/ Release(p) \/ Validate(p)
      PROVE  CallTypes' /\ Named'
  <2>1. CASE Authorize(p)
    <3>1. PICK l \in Labels : Goto(p, l)
      BY <2>1 DEF Authorize
    <3>2. QED
      BY <1>3, <2>1, <3>1 DEF Authorize
  <2>2. CASE RunSource(p)
    <3>1. PICK l \in Labels : Goto(p, l)
      BY <2>2 DEF RunSource
    <3>2. QED
      BY <1>3, <2>2, <3>1 DEF RunSource
  <2>3. CASE GiveUp(p)
    BY <1>3, <2>3 DEF GiveUp
  <2>4. CASE Release(p)
    BY <1>3, <2>4 DEF Release
  <2>5. CASE Validate(p)
    <3>1. PICK l \in Labels : Goto(p, l)
      BY <2>5 DEF Validate
    <3>2. QED
      BY <1>3, <2>5, <3>1 DEF Validate
  <2>6. QED
    BY <1>4, <2>1, <2>2, <2>3, <2>4, <2>5
<1>5. ASSUME NEW p \in Procs, QueryStep(p) PROVE CallTypes' /\ Named'
  <2>1. /\ UNCHANGED <<server, tool, source, expired>> /\ ~At(p, "idle")
        /\ \/ UNCHANGED answer
           \/ \E a \in {"none", "ok", "error"} : answer' = [answer EXCEPT ![p] = a]
    BY <1>5 DEF QueryStep, Begin, NextRow, KeepRow, NoMoreRows, Encode, QueryFails
  <2>2. UNCHANGED pc \/ \E l \in Labels : Goto(p, l)
    BY <1>5 DEF QueryStep, Begin, NextRow, KeepRow, NoMoreRows, Encode, QueryFails
  <2>3. CASE UNCHANGED pc
    BY <2>1, <2>3
  <2>4. QED
    BY <1>3, <2>1, <2>2, <2>3
<1>6. ASSUME NEW p \in Procs, ManageStep(p) PROVE CallTypes' /\ Named'
  <2>1. /\ UNCHANGED <<server, tool, source, expired>> /\ ~At(p, "idle")
        /\ \/ UNCHANGED answer
           \/ \E a \in {"none", "ok", "error"} : answer' = [answer EXCEPT ![p] = a]
    BY <1>6 DEF ManageStep, RemoveSource, Drain, Resolve, Open, OpenFails, Publish
  <2>2. \E l \in Labels : Goto(p, l)
    BY <1>6 DEF ManageStep, RemoveSource, Drain, Resolve, Open, OpenFails, Publish
  <2>3. QED
    BY <1>3, <2>1, <2>2
<1>7. ASSUME NEW p \in Procs, Enter(p) \/ Inspect(p) PROVE CallTypes' /\ Named'
  <2>1. CASE Enter(p)
    <3>1. PICK l \in Labels : Goto(p, l)
      BY <2>1 DEF Enter
    <3>2. QED
      BY <1>3, <2>1, <3>1 DEF Enter
  <2>2. CASE Inspect(p)
    BY <1>3, <2>2 DEF Inspect
  <2>3. QED
    BY <1>7, <2>1, <2>2
<1>8. ASSUME NEW p \in Procs, Expire(p) PROVE CallTypes' /\ Named'
  BY <1>8 DEF Expire
<1>9. CASE Owner \/ UNCHANGED vars
  BY <1>9 DEF Owner
<1>10. QED
  BY <1>1, <1>2, <1>4, <1>5, <1>6, <1>7, <1>8, <1>9 DEF Next, ToolStep, LocalStep

LEMMA NextStoreTypes ==
    ASSUME CallTypes, Named, StoreTypes, [Next]_vars PROVE StoreTypes'
<1> USE DEF StoreTypes
<1>1. ASSUME \/ UNCHANGED lifecycleVars
             \/ \E c : OpenSource(c) \/ CloseSource(c)
             \/ \E c \in Ids \cup {None} : \E n : PublishSource(c, n)
             \/ \E p \in Procs : \E c : AdmitWork(p, c) \/ FinishWork(p, c)
             \/ \E n : RetireSource(n)
             \/ RetireAll
      PROVE  LifecycleTypeOK'
  <2> USE DEF LifecycleTypeOK, Stages
  <2>1. CASE UNCHANGED lifecycleVars
    BY <2>1
  <2>2. CASE \E c : OpenSource(c) \/ CloseSource(c)
    BY <2>2 DEF OpenSource, CloseSource
  <2>3. CASE \E c \in Ids \cup {None} : \E n : PublishSource(c, n)
    BY <2>3 DEF PublishSource
  <2>4. CASE \E p \in Procs : \E c : AdmitWork(p, c) \/ FinishWork(p, c)
    BY <2>4 DEF AdmitWork, FinishWork
  <2>5. CASE \E n : RetireSource(n)
    BY <2>5 DEF RetireSource
  <2>6. CASE RetireAll
    BY <2>6 DEF RetireAll
  <2>7. QED
    BY <1>1, <2>1, <2>2, <2>3, <2>4, <2>5, <2>6
<1>2. ASSUME NEW p \in Procs, RunSource(p) PROVE StoreTypes'
  <2>1. reg[source[p]] \in Ids \cup {None}
    BY <1>2 DEF RunSource, Named, LifecycleTypeOK
  <2>2. held' \in [Procs -> Ids \cup {None}]
    BY <1>2, <2>1 DEF RunSource
  <2>3. UNCHANGED lifecycleVars \/ AdmitWork(p, reg[source[p]])
    BY <1>2 DEF RunSource
  <2>4. QED
    BY <1>1, <2>2, <2>3
<1>3. ASSUME NEW p \in Procs, RemoveSource(p) PROVE StoreTypes'
  <2>1. reg[source[p]] \in Ids \cup {None}
    BY <1>3 DEF RemoveSource, Named, LifecycleTypeOK
  <2>2. held' \in [Procs -> Ids \cup {None}]
    BY <1>3, <2>1 DEF RemoveSource
  <2>3. UNCHANGED lifecycleVars \/ RetireSource(source[p])
    BY <1>3 DEF RemoveSource
  <2>4. QED
    BY <1>1, <2>2, <2>3
<1>4. ASSUME NEW p \in Procs, Release(p) \/ Drain(p) PROVE StoreTypes'
  BY <1>1, <1>4 DEF Release, Drain
<1>5. ASSUME NEW p \in Procs, NEW c \in Ids, Open(p, c) PROVE StoreTypes'
  BY <1>1, <1>5 DEF Open
<1>6. ASSUME NEW p \in Procs, Publish(p) PROVE StoreTypes'
  <2>1. CASE CloseSource(held[p])
    BY <1>1, <1>6, <2>1 DEF Publish
  <2>2. CASE PublishSource(held[p], source[p])
    <3>1. held[p] \in Ids \cup {None} /\ UNCHANGED held
      BY <1>6 DEF Publish
    <3>2. QED
      BY <1>1, <2>2, <3>1
  <2>3. QED
    BY <1>6, <2>1, <2>2 DEF Publish
<1>7. CASE Owner
  <2>1. UNCHANGED held
    BY <1>7 DEF Owner
  <2>2. QED
    BY <1>1, <1>7, <2>1 DEF Owner
\* Whatever else a call does leaves the store and its entry alone, or gives up
\* the entry.
<1>8. ASSUME NEW p \in Procs, UNCHANGED lifecycleVars,
             UNCHANGED held \/ held' = [held EXCEPT ![p] = None]
      PROVE  StoreTypes'
  BY <1>1, <1>8
<1>9. ASSUME NEW p \in Procs,
             \/ \E t \in Tools, n \in Names, r \in Requests \cup {NoRequest} : Call(p, t, n, r)
             \/ Authorize(p) \/ Answered(p) \/ GiveUp(p) \/ Validate(p)
             \/ QueryStep(p)
             \/ Resolve(p) \/ OpenFails(p)
             \/ Enter(p) \/ Inspect(p) \/ Expire(p)
      PROVE  StoreTypes'
  <2>1. UNCHANGED lifecycleVars
    BY <1>9 DEF Call, Authorize, Answered, GiveUp, Validate, QueryStep, Begin, NextRow,
                NoMoreRows, Encode, QueryFails, Resolve, OpenFails, Enter, Inspect, Expire
  <2>2. UNCHANGED held \/ held' = [held EXCEPT ![p] = None]
    BY <1>9 DEF Call, Authorize, Answered, GiveUp, Validate, QueryStep, Begin, NextRow,
                NoMoreRows, Encode, QueryFails, Resolve, OpenFails, Enter, Inspect, Expire
  <2>3. QED
    BY <1>8, <2>1, <2>2
<1>10. CASE UNCHANGED vars
  BY <1>1, <1>10
<1>11. QED
  BY <1>2, <1>3, <1>4, <1>5, <1>6, <1>7, <1>9, <1>10
     DEF Next, ToolStep, LocalStep, ManageStep

\* What a query asks for within the server's limits, and what it reads.
LEMMA NextQueryTypes ==
    ASSUME QueryTypes, [Next]_vars PROVE QueryTypes'
<1> USE DEF QueryTypes
<1>1. ASSUME NEW p \in Procs, NEW t \in Tools, NEW n \in Names,
             NEW r \in Requests \cup {NoRequest}, Call(p, t, n, r)
      PROVE  QueryTypes'
  BY <1>1 DEF Call
<1>2. ASSUME NEW p \in Procs, Answered(p) PROVE QueryTypes'
  <2>1. NoLimits \in [rows : 0..MaximumMaxRows, bytes : 0..MaximumMaxBytes]
    BY McpAssumption DEF NoLimits
  <2>2. <<>> \in Seq(Nat) /\ 0 \in 0..MaximumMaxBytes
    BY McpAssumption, EmptySeq
  <2>3. QED
    BY <1>2, <2>1, <2>2 DEF Answered
<1>3. ASSUME NEW p \in Procs, Validate(p) PROVE QueryTypes'
  <2> DEFINE asked == [rows |-> OrDefault(request[p].rows, DefaultMaxRows),
                       bytes |-> OrDefault(request[p].bytes, DefaultMaxBytes)]
  <2>1. request[p].rows \in Int /\ request[p].bytes \in Int
    BY McpAssumption DEF NoRequest
  <2>2. asked.rows \in Nat /\ asked.bytes \in Nat
    BY <2>1, McpAssumption DEF OrDefault
  <2>3. \/ UNCHANGED limits
        \/ /\ limits' = [limits EXCEPT ![p] = asked]
           /\ ~(asked.rows > MaximumMaxRows) /\ ~(asked.bytes > MaximumMaxBytes)
    BY <1>3 DEF Validate
  <2>4. CASE UNCHANGED limits
    BY <1>3, <2>4 DEF Validate
  <2>5. CASE /\ limits' = [limits EXCEPT ![p] = asked]
             /\ ~(asked.rows > MaximumMaxRows) /\ ~(asked.bytes > MaximumMaxBytes)
    <3>1. asked \in [rows : 0..MaximumMaxRows, bytes : 0..MaximumMaxBytes]
      BY <2>2, <2>5, McpAssumption
    <3> HIDE DEF asked
    <3>2. limits' \in [Procs -> [rows : 0..MaximumMaxRows, bytes : 0..MaximumMaxBytes]]
      BY <2>5, <3>1
    <3>3. QED
      BY <1>3, <3>2 DEF Validate
  <2>6. QED
    BY <2>3, <2>4, <2>5
<1>4. ASSUME NEW p \in Procs, NEW full \in Results, NEW size \in Envelopes, Begin(p, full, size)
      PROVE  QueryTypes'
  <2>1. limits[p].bytes \in 0..MaximumMaxBytes
    OBVIOUS
  <2>2. bytes' \in [Procs -> 0..MaximumMaxBytes]
    <3>1. Estimate \in Nat /\ MaximumMaxBytes \in Nat
      BY McpAssumption
    <3>2. \/ UNCHANGED bytes
          \/ ~(Estimate > limits[p].bytes) /\ bytes' = [bytes EXCEPT ![p] = Estimate]
      BY <1>4 DEF Begin
    <3>3. ~(Estimate > limits[p].bytes) => Estimate \in 0..MaximumMaxBytes
      BY <2>1, <3>1
    <3>4. QED
      BY <3>2, <3>3
  <2>3. QED
    BY <1>4, <2>2 DEF Begin
<1>5. ASSUME NEW p \in Procs, NextRow(p) PROVE QueryTypes'
  <2>1. limits[p].bytes \in 0..MaximumMaxBytes /\ bytes[p] \in Nat /\ MaximumMaxBytes \in Nat
    BY McpAssumption
  <2>2. CASE UNCHANGED <<rows, bytes>>
    <3>1. truncated' \in [Procs -> BOOLEAN]
      BY <1>5 DEF NextRow
    <3>2. QED
      BY <1>5, <2>2, <3>1 DEF NextRow
  <2>3. CASE /\ ~(bytes[p] + result[p][Len(rows[p]) + 1] > limits[p].bytes)
             /\ rows' = [rows EXCEPT ![p] = Append(rows[p], result[p][Len(rows[p]) + 1])]
             /\ bytes' = [bytes EXCEPT ![p] = bytes[p] + result[p][Len(rows[p]) + 1]]
             /\ UNCHANGED truncated
    <3>1. result[p] \in Seq(Nat) /\ rows[p] \in Seq(Nat)
      BY McpAssumption, EmptySeq
    <3>2. Len(rows[p]) + 1 \in 1..Len(result[p])
      BY <1>5, <3>1, LenProperties DEF NextRow, Unread
    <3>3. PICK size \in Nat : size = result[p][Len(rows[p]) + 1]
      BY <3>1, <3>2, ElementOfSeq
    <3>4. Append(rows[p], size) \in Seq(Nat)
      BY <3>1
    <3>5. rows' \in [Procs -> Seq(Nat)]
      BY <2>3, <3>3, <3>4
    <3>6. bytes[p] + size \in 0..MaximumMaxBytes
      BY <2>1, <2>3, <3>3
    <3>7. bytes' \in [Procs -> 0..MaximumMaxBytes]
      BY <2>3, <3>3, <3>6
    <3>8. QED
      BY <1>5, <2>3, <3>5, <3>7 DEF NextRow
  <2>4. QED
    BY <1>5, <2>2, <2>3 DEF NextRow, KeepRow
<1>6. ASSUME NEW p \in Procs,
             \/ NoMoreRows(p) \/ Encode(p) \/ QueryFails(p)
             \/ Authorize(p) \/ RunSource(p) \/ GiveUp(p) \/ Release(p)
             \/ ManageStep(p) \/ Enter(p) \/ Inspect(p) \/ Expire(p)
      PROVE  UNCHANGED query
  BY <1>6 DEF NoMoreRows, Encode, QueryFails, Authorize, RunSource, GiveUp, Release, ManageStep,
              RemoveSource, Drain, Resolve, Open, OpenFails, Publish, Enter, Inspect, Expire
<1>7. CASE UNCHANGED query
  BY <1>7
<1>8. Owner \/ UNCHANGED vars => UNCHANGED query
  BY DEF Owner
<1>9. QED
  BY <1>1, <1>2, <1>3, <1>4, <1>5, <1>6, <1>7, <1>8 DEF Next, ToolStep, LocalStep, QueryStep

\* Every variable of the store and of a call keeps its type: in particular no
\* query counts more bytes than a server may allow (limits.go, sql.go:255-270).
THEOREM McpServerTyped == Spec => []TypeOK
<1>1. Typed /\ [Next]_vars => Typed'
  BY NextCallTypes, NextQueryTypes, NextStoreTypes DEF Typed
<1>2. Typed => TypeOK
  BY DEF Typed, CallTypes, QueryTypes, StoreTypes, TypeOK
<1>3. QED
  BY <1>1, <1>2, InitTyped, PTL DEF Spec

----------------------------------------------------------------------------
(* Bounds.                                                                 *)

\* Before it reads, a query has counted nothing; while it does, it has counted
\* its rows and is within its limits; and only an answer that was measured
\* is sent.
Measured(p) ==
    /\ pc[p] \notin {"rows", "encode", "ended", "release", "answered"} => bytes[p] = 0
    /\ Len(rows[p]) <= limits[p].rows
    /\ Total(rows[p]) <= bytes[p]
    /\ bytes[p] <= limits[p].bytes
    /\ pc[p] \in {"ended", "release", "answered"} /\ tool[p] = "db_query" /\ answer[p] = "ok" =>
           EncodedSize(p) <= limits[p].bytes

Bounded == \A p \in Procs : Measured(p)

LEMMA InitBounded == Init => Bounded
<1>1. Len(<<>>) = 0
  OBVIOUS
<1>2. QED
  BY <1>1, TotalAdds DEF Init, ToAll, NoLimits, Bounded, Measured

\* A step that reads nothing, and does not let an unmeasured query succeed.
LEMMA MeasuresNothing ==
    ASSUME CallTypes, Bounded, UNCHANGED <<tool, limits, rows, bytes, envelope>>,
           NEW p \in Procs, NEW l \in Labels, NEW a, Goto(p, l),
           \A q \in Procs \ {p} : answer'[q] = answer[q],
           answer'[p] = a,
           l \notin {"rows", "encode", "ended", "release", "answered"} => bytes[p] = 0,
           \/ l \notin {"ended", "release", "answered"}
           \/ tool[p] # "db_query"
           \/ a # "ok"
           \/ EncodedSize(p) <= limits[p].bytes
    PROVE  Bounded'
<1>1. \A q \in Procs \ {p} : pc'[q] = pc[q]
  BY DEF CallTypes
<1>2. pc'[p] = l
  BY DEF CallTypes
<1>3. \A q \in Procs : EncodedSize(q)' = EncodedSize(q)
  BY DEF EncodedSize
<1>4. ASSUME NEW q \in Procs PROVE Measured(q)'
  <2>1. Measured(q)
    BY DEF Bounded
  <2>2. Total(rows[q])' = Total(rows[q])
    OBVIOUS
  <2>3. CASE q = p
    BY <1>2, <1>3, <2>1, <2>2, <2>3 DEF Measured
  <2>4. CASE q # p
    BY <1>1, <1>3, <2>1, <2>2, <2>4 DEF Measured
  <2>5. QED
    BY <2>3, <2>4
<1>5. QED
  BY <1>4 DEF Bounded

\* A step that changes what one call has counted, and nothing of any other.
LEMMA MeasuresOne ==
    ASSUME Bounded, NEW p \in Procs, Measured(p)',
           \A q \in Procs \ {p} :
               /\ pc'[q] = pc[q] /\ tool'[q] = tool[q] /\ answer'[q] = answer[q]
               /\ limits'[q] = limits[q] /\ rows'[q] = rows[q] /\ bytes'[q] = bytes[q]
               /\ envelope'[q] = envelope[q]
    PROVE  Bounded'
<1>1. ASSUME NEW q \in Procs \ {p} PROVE Measured(q)'
  <2>1. Measured(q)
    BY DEF Bounded
  <2>2. Total(rows[q])' = Total(rows[q])
    OBVIOUS
  <2>3. EncodedSize(q)' = EncodedSize(q)
    BY <2>2 DEF EncodedSize
  <2>4. QED
    BY <2>1, <2>2, <2>3 DEF Measured
<1>2. QED
  BY <1>1 DEF Bounded

LEMMA NextBounded ==
    ASSUME Typed, Reading, Bounded, [Next]_vars
    PROVE  Bounded'
<1> USE DEF Labels
<1>0. /\ CallTypes /\ QueryTypes
      /\ \A p \in Procs : Measured(p) /\ Tells(p, pc[p], answer[p])
  BY DEF Typed, Bounded, Reading
<1>1. ASSUME NEW p \in Procs
      PROVE  limits[p].rows \in Nat /\ limits[p].bytes \in Nat /\ rows[p] \in Seq(Nat)
  BY <1>0, McpAssumption DEF QueryTypes
<1>2. ASSUME NEW p \in Procs, NEW t \in Tools, NEW n \in Names, NEW r, Call(p, t, n, r)
      PROVE  Bounded'
  <2>1. Measured(p) /\ At(p, "idle")
    BY <1>0, <1>2 DEF Call
  <2>2. UNCHANGED <<limits, rows, bytes, envelope, answer>> /\ pc'[p] = "authorize"
    BY <1>0, <1>2 DEF Call, CallTypes
  <2>3. Measured(p)'
    BY <2>1, <2>2 DEF Measured
  <2>4. \A q \in Procs \ {p} : pc'[q] = pc[q] /\ tool'[q] = tool[q]
    BY <1>0, <1>2 DEF Call, CallTypes
  <2>5. QED
    BY <2>2, <2>3, <2>4, MeasuresOne
<1>3. ASSUME NEW p \in Procs, Answered(p) PROVE Bounded'
  <2>1. /\ pc'[p] = "idle" /\ rows'[p] = <<>> /\ bytes'[p] = 0 /\ limits'[p] = NoLimits
        /\ \A q \in Procs \ {p} :
              /\ pc'[q] = pc[q] /\ tool'[q] = tool[q] /\ answer'[q] = answer[q]
              /\ limits'[q] = limits[q] /\ rows'[q] = rows[q] /\ bytes'[q] = bytes[q]
              /\ envelope'[q] = envelope[q]
    BY <1>0, <1>3 DEF Answered, CallTypes, QueryTypes
  <2>2. Len(<<>>) = 0
    OBVIOUS
  <2>3. Measured(p)'
    BY <2>1, <2>2, TotalAdds DEF Measured, NoLimits
  <2>4. QED
    BY <2>1, <2>3, MeasuresOne
\* A call that has counted nothing and goes on to a step that counts nothing.
<1>4. ASSUME NEW p \in Procs, NEW l \in Labels, Goto(p, l),
             UNCHANGED <<tool, limits, rows, bytes, envelope>>, bytes[p] = 0,
             \/ UNCHANGED answer /\ l \notin {"ended", "release", "answered"}
             \/ answer' = [answer EXCEPT ![p] = "error"]
             \/ tool[p] # "db_query" /\ answer' = [answer EXCEPT ![p] = answer'[p]]
      PROVE  Bounded'
  <2>1. \A q \in Procs \ {p} : answer'[q] = answer[q]
    BY <1>0, <1>4 DEF CallTypes
  <2>2. l \in {"ended", "release", "answered"} => answer'[p] # "ok" \/ tool[p] # "db_query"
    BY <1>0, <1>4 DEF CallTypes
  <2>3. QED
    BY <1>0, <1>4, <2>1, <2>2, MeasuresNothing
<1>5. ASSUME NEW p \in Procs,
             pc[p] \in {"authorize", "validate", "run", "throttle", "begin", "inspect"} \cup Managing
      PROVE  bytes[p] = 0 /\ rows[p] = <<>>
  BY <1>0, <1>5 DEF Measured, Tells, Managing
<1>6. ASSUME NEW p \in Procs, Authorize(p) PROVE Bounded'
  <2>1. bytes[p] = 0 /\ UNCHANGED <<tool, limits, rows, bytes, envelope>>
    BY <1>5, <1>6 DEF Authorize
  <2>2. \/ Answer(p, "error")
        \/ tool[p] = "db_list_sources" /\ Answer(p, "ok")
        \/ UNCHANGED answer /\ \E l \in {"validate", "remove", "resolve", "run"} : Goto(p, l)
    BY <1>6 DEF Authorize
  <2>3. CASE Answer(p, "error")
    BY <1>4, <2>1, <2>3
  <2>4. CASE tool[p] = "db_list_sources" /\ Answer(p, "ok")
    BY <1>0, <1>4, <2>1, <2>4 DEF CallTypes
  <2>5. CASE UNCHANGED answer /\ \E l \in {"validate", "remove", "resolve", "run"} : Goto(p, l)
    BY <1>4, <2>1, <2>5
  <2>6. QED
    BY <2>2, <2>3, <2>4, <2>5, Zenon
<1>7. ASSUME NEW p \in Procs, RunSource(p) PROVE Bounded'
  <2>1. bytes[p] = 0 /\ UNCHANGED <<tool, limits, rows, bytes, envelope>>
    BY <1>5, <1>7 DEF RunSource
  <2>2. \/ Answer(p, "error")
        \/ Goto(p, "throttle") /\ UNCHANGED answer
        \/ FnEnds(p, "release", "error")
    BY <1>7 DEF RunSource
  <2>3. QED
    BY <1>4, <2>1, <2>2
<1>8. ASSUME NEW p \in Procs, GiveUp(p) PROVE Bounded'
  BY <1>4, <1>5, <1>8 DEF GiveUp
<1>9. ASSUME NEW p \in Procs, Release(p) PROVE Bounded'
  <2>1. Measured(p) /\ pc[p] \in {"ended", "release"}
    BY <1>0, <1>9 DEF Release
  <2>2. UNCHANGED <<tool, limits, rows, bytes, envelope, answer>> /\ Goto(p, "answered")
    BY <1>9 DEF Release
  <2>3. \/ tool[p] # "db_query"
        \/ answer[p] # "ok"
        \/ EncodedSize(p) <= limits[p].bytes
    BY <2>1 DEF Measured
  <2>4. QED
    BY <1>0, <2>2, <2>3, MeasuresNothing
<1>10. ASSUME NEW p \in Procs, Validate(p) PROVE Bounded'
  <2>1. bytes[p] = 0 /\ rows[p] = <<>>
    BY <1>5, <1>10 DEF Validate
  <2>2. CASE Answer(p, "error") /\ UNCHANGED limits
    BY <1>4, <1>10, <2>1, <2>2 DEF Validate
  <2>3. CASE Goto(p, "run") /\ UNCHANGED answer
    <3>1. QueryTypes'
      BY <1>0, <1>10, NextQueryTypes DEF Next, ToolStep, LocalStep
    <3>2. limits'[p].rows \in Nat /\ limits'[p].bytes \in Nat
      BY <3>1, McpAssumption DEF QueryTypes
    <3>3. /\ rows'[p] = <<>> /\ bytes'[p] = 0 /\ pc'[p] = "run"
          /\ \A q \in Procs \ {p} :
                /\ pc'[q] = pc[q] /\ tool'[q] = tool[q] /\ answer'[q] = answer[q]
                /\ limits'[q] = limits[q] /\ rows'[q] = rows[q] /\ bytes'[q] = bytes[q]
                /\ envelope'[q] = envelope[q]
      BY <1>0, <1>10, <2>1, <2>3 DEF Validate, CallTypes, QueryTypes
    <3>4. Len(<<>>) = 0
      OBVIOUS
    <3>5. Measured(p)'
      BY <3>2, <3>3, <3>4, TotalAdds DEF Measured
    <3>6. QED
      BY <3>3, <3>5, MeasuresOne
  <2>4. QED
    BY <1>10, <2>2, <2>3 DEF Validate
<1>11. ASSUME NEW p \in Procs, NEW full \in Results, NEW size \in Envelopes, Begin(p, full, size)
       PROVE  Bounded'
  <2>1. bytes[p] = 0 /\ rows[p] = <<>>
    BY <1>5, <1>11 DEF Begin
  <2>2. /\ UNCHANGED <<tool, limits, rows>>
        /\ \A q \in Procs \ {p} :
              /\ pc'[q] = pc[q] /\ answer'[q] = answer[q]
              /\ bytes'[q] = bytes[q] /\ envelope'[q] = envelope[q]
    BY <1>0, <1>11 DEF Begin, CallTypes, QueryTypes
  <2>3. Len(<<>>) = 0 /\ Estimate \in Nat
    BY McpAssumption
  <2>4. \/ /\ pc'[p] = "ended" /\ answer'[p] = "error" /\ bytes'[p] = 0
        \/ /\ pc'[p] = "rows" /\ bytes'[p] = Estimate /\ ~(Estimate > limits[p].bytes)
    BY <1>0, <1>11, <2>1 DEF Begin, CallTypes, QueryTypes
  <2>5. Measured(p)'
    <3>1. /\ rows'[p] = <<>> /\ limits'[p].rows \in Nat /\ limits'[p].bytes \in Nat
          /\ limits'[p] = limits[p] /\ Total(<<>>) = 0
      BY <1>1, <2>1, <2>2, TotalAdds
    <3>2. CASE pc'[p] = "ended" /\ answer'[p] = "error" /\ bytes'[p] = 0
      BY <2>3, <3>1, <3>2 DEF Measured
    <3>3. CASE pc'[p] = "rows" /\ bytes'[p] = Estimate /\ ~(Estimate > limits[p].bytes)
      BY <2>3, <3>1, <3>3 DEF Measured
    <3>4. QED
      BY <2>4, <3>2, <3>3
  <2>6. QED
    BY <2>2, <2>5, MeasuresOne
\* The row is counted before it is kept, and both stay within the limits.
<1>12. ASSUME NEW p \in Procs, NextRow(p) PROVE Bounded'
  <2>1. /\ Measured(p) /\ At(p, "rows") /\ Unread(p)
        /\ UNCHANGED <<tool, limits, envelope>>
    BY <1>0, <1>12 DEF NextRow
  <2>2. CASE UNCHANGED <<rows, bytes, answer>> /\ Goto(p, "encode")
    BY <1>0, <2>1, <2>2, MeasuresNothing
  <2>3. CASE FnEnds(p, "ended", "error") /\ UNCHANGED <<rows, bytes>>
    <3>1. answer'[p] = "error" /\ \A q \in Procs \ {p} : answer'[q] = answer[q]
      BY <1>0, <2>3 DEF CallTypes
    <3>2. QED
      BY <1>0, <2>1, <2>3, <3>1, MeasuresNothing
  <2>4. CASE /\ Len(rows[p]) # limits[p].rows
             /\ ~(bytes[p] + result[p][Len(rows[p]) + 1] > limits[p].bytes)
             /\ rows' = [rows EXCEPT ![p] = Append(rows[p], result[p][Len(rows[p]) + 1])]
             /\ bytes' = [bytes EXCEPT ![p] = bytes[p] + result[p][Len(rows[p]) + 1]]
             /\ UNCHANGED <<pc, answer>>
    <3>1. rows[p] \in Seq(Nat) /\ result[p] \in Seq(Nat)
      BY DEF Reading
    <3>2. Len(rows[p]) \in Nat /\ Len(rows[p]) + 1 \in 1..Len(result[p])
      BY <2>1, <3>1, LenProperties DEF Unread
    <3>3. PICK size \in Nat : size = result[p][Len(rows[p]) + 1]
      BY <3>1, <3>2, ElementOfSeq
    <3>4. rows'[p] = Append(rows[p], size) /\ bytes'[p] = bytes[p] + size /\ bytes[p] \in Nat
      BY <1>0, <2>4, <3>3, McpAssumption DEF QueryTypes
    <3>5. Len(Append(rows[p], size)) = Len(rows[p]) + 1
      BY <3>1, <3>3
    <3>6. Total(Append(rows[p], size)) = Total(rows[p]) + size /\ Total(rows[p]) \in Nat
      BY <3>1, TotalAdds
    <3>7. Len(rows'[p]) <= limits'[p].rows
      BY <1>1, <2>1, <2>4, <3>2, <3>4, <3>5 DEF Measured
    <3>8. Total(rows'[p]) <= bytes'[p]
      BY <2>1, <3>4, <3>6 DEF Measured
    <3>9. bytes'[p] <= limits'[p].bytes
      BY <1>1, <2>1, <2>4, <3>3, <3>4
    <3>10. pc'[p] = "rows"
      BY <2>1, <2>4
    <3>11. Measured(p)'
      BY <3>7, <3>8, <3>9, <3>10 DEF Measured
    <3>12. \A q \in Procs \ {p} : rows'[q] = rows[q] /\ bytes'[q] = bytes[q]
      BY <2>4, <1>0 DEF QueryTypes
    <3>13. QED
      BY <2>1, <2>4, <3>11, <3>12, MeasuresOne
  <2>5. QED
    BY <1>12, <2>2, <2>3, <2>4 DEF NextRow, KeepRow
<1>13. ASSUME NEW p \in Procs, NoMoreRows(p) \/ Encode(p) \/ QueryFails(p) PROVE Bounded'
  <2>1. UNCHANGED <<tool, limits, rows, bytes, envelope>>
    BY <1>13 DEF NoMoreRows, Encode, QueryFails
  <2>2. CASE NoMoreRows(p)
    BY <1>0, <2>1, <2>2, MeasuresNothing DEF NoMoreRows
  <2>3. CASE QueryFails(p)
    <3>1. Goto(p, "ended") /\ answer' = [answer EXCEPT ![p] = "error"]
      BY <2>3 DEF QueryFails
    <3>2. answer'[p] = "error" /\ \A q \in Procs \ {p} : answer'[q] = answer[q]
      BY <1>0, <3>1 DEF CallTypes
    <3>3. QED
      BY <1>0, <2>1, <3>1, <3>2, MeasuresNothing
  <2>4. CASE Encode(p)
    <3>1. EncodedSize(p) \in Int /\ limits[p].bytes \in Nat
      <4>0. Envelopes \subseteq Nat /\ Total(rows[p]) \in Nat
        BY <1>1, TotalAdds, McpAssumption
      <4>1. envelope[p] \in Nat
        <5>1. envelope \in [Procs -> Envelopes \cup {0}]
          BY <1>0 DEF QueryTypes
        <5>2. envelope[p] \in Envelopes \cup {0}
          BY <5>1
        <5>3. Envelopes \cup {0} \subseteq Nat
          BY <4>0
        <5>4. QED
          BY <5>2, <5>3
      <4>2. QED
        BY <1>1, <4>0, <4>1 DEF EncodedSize
    <3>2. /\ Goto(p, "ended")
          /\ answer' = [answer EXCEPT ![p] =
                IF EncodedSize(p) > limits[p].bytes THEN "error" ELSE "ok"]
      BY <2>4 DEF Encode
    <3>3. answer'[p] # "ok" \/ EncodedSize(p) <= limits[p].bytes
      BY <1>0, <3>1, <3>2 DEF CallTypes
    <3>4. \A q \in Procs \ {p} : answer'[q] = answer[q]
      BY <3>2, <1>0 DEF CallTypes
    <3>5. QED
      BY <1>0, <2>1, <3>2, <3>3, <3>4, MeasuresNothing
  <2>5. QED
    BY <1>13, <2>2, <2>3, <2>4
<1>14. ASSUME NEW p \in Procs, ManageStep(p) PROVE Bounded'
  <2>1. UNCHANGED <<tool, limits, rows, bytes, envelope>> /\ pc[p] \in Managing
    BY <1>14 DEF ManageStep, RemoveSource, Drain, Resolve, Open, OpenFails, Publish, Managing
  <2>2. \/ \E a \in {"ok", "error"} : Answer(p, a)
        \/ UNCHANGED answer /\ \E next \in Managing : Goto(p, next)
    BY <1>14 DEF ManageStep, RemoveSource, Drain, Resolve, Open, OpenFails, Publish, Managing
  <2>3. bytes[p] = 0 /\ tool[p] # "db_query"
    BY <1>0, <1>5, <2>1 DEF Tells
  <2>4. CASE \E a \in {"ok", "error"} : Answer(p, a)
    <3>1. answer' = [answer EXCEPT ![p] = answer'[p]] /\ Goto(p, "answered")
      BY <1>0, <2>4 DEF CallTypes
    <3>2. QED
      BY <1>4, <2>1, <2>3, <3>1
  <2>5. CASE UNCHANGED answer /\ \E next \in Managing : Goto(p, next)
    BY <1>4, <2>1, <2>3, <2>5 DEF Managing
  <2>6. QED
    BY <2>2, <2>4, <2>5
<1>15. ASSUME NEW p \in Procs, Enter(p) PROVE Bounded'
  <2>1. bytes[p] = 0 /\ UNCHANGED <<tool, limits, rows, bytes, envelope, answer>>
    BY <1>5, <1>15 DEF Enter
  <2>2. \E l \in {"begin", "inspect"} : Goto(p, l)
    BY <1>15 DEF Enter
  <2>3. QED
    BY <1>4, <2>1, <2>2
<1>16. ASSUME NEW p \in Procs, Inspect(p) PROVE Bounded'
  <2>1. bytes[p] = 0 /\ tool[p] # "db_query" /\ UNCHANGED <<tool, limits, rows, bytes, envelope>>
    BY <1>0, <1>5, <1>16 DEF Inspect, Tells
  <2>2. answer' = [answer EXCEPT ![p] = answer'[p]] /\ Goto(p, "ended")
    BY <1>0, <1>16 DEF Inspect, CallTypes
  <2>3. QED
    BY <1>4, <2>1, <2>2
<1>17. ASSUME UNCHANGED <<pc, tool, limits, rows, bytes, envelope, answer>> PROVE Bounded'
  <2>1. ASSUME NEW q \in Procs PROVE Measured(q)'
    <3>1. Measured(q) /\ Total(rows[q])' = Total(rows[q]) /\ EncodedSize(q)' = EncodedSize(q)
      BY <1>0, <1>17 DEF EncodedSize
    <3>2. QED
      BY <1>17, <3>1 DEF Measured
  <2>2. QED
    BY <2>1 DEF Bounded
<1>18. ASSUME NEW p \in Procs, Expire(p) PROVE Bounded'
  BY <1>17, <1>18 DEF Expire
<1>19. CASE Owner \/ UNCHANGED vars
  BY <1>17, <1>19 DEF Owner
<1>20. QED
  BY <1>2, <1>3, <1>6, <1>7, <1>8, <1>9, <1>10, <1>11, <1>12, <1>13, <1>14, <1>15, <1>16,
     <1>18, <1>19 DEF Next, ToolStep, LocalStep, QueryStep

\* sql.go:197-210, 255-283: an answer is within the limits its request asked
\* for, these are within the server's, and no query keeps more than that while
\* it reads, whatever the database returns.
THEOREM AnswersAlwaysBounded == Spec => []AnswersAreBounded
<1>1. Typed /\ [Next]_vars => Typed'
  BY NextCallTypes, NextQueryTypes, NextStoreTypes DEF Typed
<1>2. Spec => []Typed
  BY <1>1, InitTyped, PTL DEF Spec
<1>3. Typed /\ Bounded => AnswersAreBounded
  <2> SUFFICES ASSUME Typed, Bounded, NEW p \in Procs
               PROVE  /\ AnsweredQuery(p) =>
                             /\ Len(rows[p]) <= limits[p].rows
                             /\ EncodedSize(p) <= limits[p].bytes
                      /\ limits[p].bytes <= MaximumMaxBytes
                      /\ Len(rows[p]) <= limits[p].rows
                      /\ Total(rows[p]) <= limits[p].bytes
    BY DEF AnswersAreBounded
  <2>1. Measured(p) /\ limits[p].bytes \in 0..MaximumMaxBytes /\ bytes[p] \in Int
    BY McpAssumption DEF Bounded, Typed, QueryTypes
  <2>2. rows[p] \in Seq(Nat)
    BY DEF Typed, QueryTypes
  <2>3. Total(rows[p]) \in Nat
    BY <2>2, TotalAdds
  <2>4. QED
    BY <2>1, <2>3, McpAssumption DEF Measured, AnsweredQuery
<1>4. QED
  BY <1>2, <1>3, InitBounded, NextBounded, AlwaysReading, PTL DEF Spec
----------------------------------------------------------------------------
(* The store under the tools.                                              *)

InRun == {"throttle", "release"} \cup InFn

\* The store's side: a name stands for a visible source of its own and work
\* is on no source that is closed.
Guarded ==
    /\ \A n \in Names : reg[n] # None => stage[reg[n]] = "visible"
    /\ \A m, n \in Names : reg[m] = reg[n] /\ reg[m] # None => m = n
    /\ \A c \in Ids : users[c] # {} => stage[c] \in {"visible", "retired"}

\* The calls' side: a Run is counted by the source it entered; a source that
\* is being registered or drained is the tool's own to publish and close.
Standing ==
    /\ \A p \in Procs :
          /\ pc[p] \in InRun => held[p] \in Ids /\ p \in users[held[p]]
          /\ pc[p] = "publish" => held[p] \in Ids /\ stage[held[p]] = "opened"
          /\ pc[p] = "drain" => held[p] \in Ids /\ stage[held[p]] = "retired"
    /\ \A p, q \in Procs :
          pc[p] \in {"publish", "drain"} /\ pc[q] \in {"publish", "drain"} /\ held[p] = held[q]
              => p = q
LEMMA InitStore ==
    ASSUME Init
    PROVE  Guarded /\ Standing
BY NoneAssumption DEF Init, ToAll, LifecycleInit, Guarded, Standing, InRun, InFn

\* A tool does with the store what the store allows, and so does its owner.
LEMMA ToolsTakeSteps ==
    ASSUME Typed, Standing, [Next]_vars
    PROVE  [LifecycleNext]_lifecycleVars
<1> USE DEF LifecycleNext
<1>1. ASSUME NEW p \in Procs, ~At(p, "idle"), reg[source[p]] # None
      PROVE  source[p] \in Names /\ reg[source[p]] \in Ids
  BY <1>1 DEF Typed, Named, StoreTypes, LifecycleTypeOK
<1>2. ASSUME NEW p \in Procs, RunSource(p) PROVE [LifecycleNext]_lifecycleVars
  BY <1>1, <1>2 DEF RunSource
<1>3. ASSUME NEW p \in Procs, Release(p) PROVE [LifecycleNext]_lifecycleVars
  BY <1>3 DEF Release, Standing, InRun, InFn
<1>4. ASSUME NEW p \in Procs, RemoveSource(p) PROVE [LifecycleNext]_lifecycleVars
  BY <1>1, <1>4 DEF RemoveSource
<1>5. ASSUME NEW p \in Procs, Drain(p) PROVE [LifecycleNext]_lifecycleVars
  BY <1>5 DEF Drain, Standing
<1>6. ASSUME NEW p \in Procs, NEW c \in Ids, Open(p, c) PROVE [LifecycleNext]_lifecycleVars
  BY <1>6 DEF Open
<1>7. ASSUME NEW p \in Procs, Publish(p) PROVE [LifecycleNext]_lifecycleVars
  <2>1. held[p] \in Ids /\ source[p] \in Names
    BY <1>7 DEF Publish, Standing, Typed, Named
  <2>2. QED
    BY <1>7, <2>1 DEF Publish
<1>8. CASE Owner
  BY <1>8 DEF Owner
<1>9. ASSUME NEW p \in Procs,
             \/ \E t \in Tools, n \in Names, r \in Requests \cup {NoRequest} : Call(p, t, n, r)
             \/ Authorize(p) \/ Answered(p) \/ GiveUp(p) \/ Validate(p)
             \/ QueryStep(p)
             \/ Resolve(p) \/ OpenFails(p)
             \/ Enter(p) \/ Inspect(p) \/ Expire(p)
      PROVE  UNCHANGED lifecycleVars
  BY <1>9 DEF Call, Authorize, Answered, GiveUp, Validate, QueryStep, Begin, NextRow,
              NoMoreRows, Encode, QueryFails, Resolve, OpenFails, Enter, Inspect, Expire
<1>10. CASE UNCHANGED vars
  BY <1>10
<1>11. QED
  BY <1>2, <1>3, <1>4, <1>5, <1>6, <1>7, <1>8, <1>9, <1>10
     DEF Next, ToolStep, LocalStep, ManageStep

LEMMA StoreStaysGuarded ==
    ASSUME LifecycleTypeOK, Guarded, [LifecycleNext]_lifecycleVars
    PROVE  Guarded'
<1> USE NoneAssumption DEF LifecycleTypeOK, Guarded
<1>1. CASE UNCHANGED lifecycleVars
  BY <1>1
<1>2. ASSUME NEW c \in Ids, OpenSource(c) PROVE Guarded'
  BY <1>2 DEF OpenSource
<1>3. ASSUME NEW c \in Ids, CloseSource(c) PROVE Guarded'
  BY <1>3 DEF CloseSource
<1>4. ASSUME NEW c \in Ids, NEW n \in Names, PublishSource(c, n) PROVE Guarded'
  BY <1>4 DEF PublishSource
<1>5. ASSUME NEW c \in Ids, NEW p \in Procs, AdmitWork(p, c) \/ FinishWork(p, c)
      PROVE  Guarded'
  BY <1>5 DEF AdmitWork, FinishWork
<1>6. ASSUME NEW n \in Names, RetireSource(n) PROVE Guarded'
  BY <1>6 DEF RetireSource
<1>7. CASE RetireAll
  BY <1>7 DEF RetireAll
<1>8. QED
  BY <1>1, <1>2, <1>3, <1>4, <1>5, <1>6, <1>7 DEF LifecycleNext

\* A call that moves on without touching the store, or is over.
LEMMA MovesStand ==
    ASSUME Typed, Standing, NEW p \in Procs, UNCHANGED <<stage, users>>,
           \A q \in Procs \ {p} : pc'[q] = pc[q] /\ held'[q] = held[q],
           pc'[p] \notin {"publish", "drain"},
           pc'[p] \in InRun => pc[p] \in InRun /\ held'[p] = held[p]
    PROVE  Standing'
BY DEF Standing

LEMMA NextStanding ==
    ASSUME Typed, Guarded, Standing, [Next]_vars
    PROVE  Standing'
<1>0. /\ pc \in [Procs -> Labels] /\ held \in [Procs -> Ids \cup {None}]
      /\ stage \in [Ids -> Stages] /\ users \in [Ids -> SUBSET Procs]
      /\ reg \in [Names -> Ids \cup {None}]
  BY DEF Typed, CallTypes, StoreTypes, LifecycleTypeOK
<1>1. ASSUME NEW p \in Procs, RunSource(p) PROVE Standing'
  <2>1. /\ source[p] \in Names /\ UNCHANGED stage
        /\ \A q \in Procs \ {p} : pc'[q] = pc[q] /\ held'[q] = held[q]
    BY <1>0, <1>1 DEF RunSource, AdmitWork, Typed, Named
  <2>2. CASE reg[source[p]] = None
    BY <1>0, <1>1, <2>1, <2>2, MovesStand DEF RunSource, InRun, InFn
  <2>3. CASE reg[source[p]] # None
    <3>1. /\ reg[source[p]] \in Ids /\ held'[p] = reg[source[p]]
          /\ users' = [users EXCEPT ![held'[p]] = @ \cup {p}]
          /\ pc'[p] \in {"throttle", "release"}
      BY <1>0, <1>1, <2>1, <2>3 DEF RunSource, AdmitWork
    <3>2. \A c \in Ids : users[c] \subseteq users'[c]
      BY <1>0, <3>1
    <3>3. p \in users'[held'[p]]
      BY <1>0, <3>1
    <3>4. QED
      BY <2>1, <3>1, <3>2, <3>3 DEF Standing
  <2>4. QED
    BY <2>2, <2>3
<1>2. ASSUME NEW p \in Procs, Release(p) PROVE Standing'
  <2>1. /\ pc[p] \in InRun /\ pc'[p] = "answered" /\ UNCHANGED <<stage, held>>
        /\ \A q \in Procs \ {p} : pc'[q] = pc[q]
        /\ users' = [users EXCEPT ![held[p]] = @ \ {p}]
    BY <1>0, <1>2 DEF Release, FinishWork, InRun, InFn
  <2>2. \A c \in Ids, q \in Procs \ {p} : q \in users[c] => q \in users'[c]
    BY <1>0, <2>1
  <2>3. QED
    BY <2>1, <2>2 DEF Standing, InRun, InFn
<1>3. ASSUME NEW p \in Procs, RemoveSource(p) PROVE Standing'
  <2>1. /\ source[p] \in Names /\ UNCHANGED users
        /\ \A q \in Procs \ {p} : pc'[q] = pc[q] /\ held'[q] = held[q]
    BY <1>0, <1>3 DEF RemoveSource, RetireSource, Typed, Named
  <2>2. CASE reg[source[p]] = None
    BY <1>0, <1>3, <2>1, <2>2, MovesStand DEF RemoveSource, InRun, InFn
  <2>3. CASE reg[source[p]] # None
    <3>1. /\ reg[source[p]] \in Ids /\ held'[p] = reg[source[p]]
          /\ stage[held'[p]] = "visible"
          /\ stage' = [stage EXCEPT ![held'[p]] = "retired"]
          /\ pc'[p] = "drain"
      BY <1>0, <1>3, <2>1, <2>3 DEF RemoveSource, RetireSource, Guarded
    <3>2. \A q \in Procs \ {p} : pc[q] \in {"publish", "drain"} => held[q] # held'[p]
      BY <3>1 DEF Standing
    <3>3. QED
      BY <1>0, <2>1, <3>1, <3>2 DEF Standing, InRun, InFn
  <2>4. QED
    BY <2>2, <2>3
<1>4. ASSUME NEW p \in Procs, NEW c \in Ids, Open(p, c) PROVE Standing'
  <2>1. /\ held'[p] = c /\ stage[c] = "none" /\ stage' = [stage EXCEPT ![c] = "opened"]
        /\ pc'[p] = "publish" /\ UNCHANGED users
        /\ \A q \in Procs \ {p} : pc'[q] = pc[q] /\ held'[q] = held[q]
    BY <1>0, <1>4 DEF Open, OpenSource
  <2>2. \A q \in Procs \ {p} : pc[q] \in {"publish", "drain"} => held[q] # c
    BY <2>1 DEF Standing
  <2>3. QED
    BY <1>0, <2>1, <2>2 DEF Standing, InRun, InFn
\* A tool that publishes or closes its source is done with it.
<1>5. ASSUME NEW p \in Procs, Publish(p) \/ Drain(p) PROVE Standing'
  <2>1. /\ pc[p] \in {"publish", "drain"} /\ pc'[p] = "answered" /\ UNCHANGED <<users, held>>
        /\ \A q \in Procs \ {p} : pc'[q] = pc[q]
        /\ \A c \in Ids : c # held[p] => stage'[c] = stage[c]
    BY <1>0, <1>5 DEF Publish, Drain, PublishSource, CloseSource
  <2>2. \A q \in Procs \ {p} : pc[q] \in {"publish", "drain"} => held[q] # held[p]
    BY <2>1 DEF Standing
  <2>3. QED
    BY <2>1, <2>2 DEF Standing, InRun, InFn
<1>6. CASE Owner
  <2>1. UNCHANGED <<pc, held, users>>
    BY <1>6 DEF Owner, OpenSource, CloseSource, PublishSource, RetireSource, RetireAll
  <2>2. \A q \in Procs : pc[q] \in {"publish", "drain"} => stage'[held[q]] = stage[held[q]]
    <3> SUFFICES ASSUME NEW q \in Procs, pc[q] \in {"publish", "drain"}
                 PROVE  stage'[held[q]] = stage[held[q]]
      OBVIOUS
    <3>1. held[q] \in Ids /\ stage[held[q]] \in {"opened", "retired"}
      BY DEF Standing
    <3>2. CASE \E c \in Ids : c # held[q] /\ (OpenSource(c) \/ CloseSource(c)
                                              \/ \E n \in Names : PublishSource(c, n))
      BY <1>0, <3>1, <3>2 DEF OpenSource, CloseSource, PublishSource
    <3>3. CASE \E n \in Names : RetireSource(n)
      BY <1>0, <3>1, <3>3 DEF RetireSource, Guarded
    <3>4. CASE RetireAll
      BY <1>0, <3>1, <3>4, NoneAssumption DEF RetireAll, Guarded
    <3>5. QED
      BY <1>6, <3>2, <3>3, <3>4 DEF Owner
  <2>3. QED
    BY <2>1, <2>2 DEF Standing
<1>7. ASSUME NEW p \in Procs,
             \/ \E t \in Tools, n \in Names, r \in Requests \cup {NoRequest} : Call(p, t, n, r)
             \/ Authorize(p) \/ Answered(p) \/ GiveUp(p) \/ Validate(p)
             \/ QueryStep(p)
             \/ Resolve(p) \/ OpenFails(p)
             \/ Enter(p) \/ Inspect(p) \/ Expire(p)
      PROVE  Standing'
  <2>1. UNCHANGED <<stage, users>>
    BY <1>7 DEF Call, Authorize, Answered, GiveUp, Validate, QueryStep, Begin, NextRow,
                NoMoreRows, Encode, QueryFails, Resolve, OpenFails, Enter, Inspect, Expire
  <2>2. CASE \/ \E t \in Tools, n \in Names, r \in Requests \cup {NoRequest} : Call(p, t, n, r)
             \/ Authorize(p) \/ Answered(p) \/ Validate(p) \/ Resolve(p) \/ OpenFails(p)
    <3>1. pc'[p] \notin InRun \cup {"publish", "drain"}
      BY <1>0, <2>2 DEF Call, Authorize, Answered, Validate, Resolve, OpenFails, InRun, InFn
    <3>2. \A q \in Procs \ {p} : pc'[q] = pc[q] /\ held'[q] = held[q]
      BY <1>0, <2>2 DEF Call, Authorize, Answered, Validate, Resolve, OpenFails
    <3>3. QED
      BY <2>1, <3>1, <3>2, MovesStand
  <2>3. CASE GiveUp(p) \/ QueryStep(p) \/ Enter(p) \/ Inspect(p) \/ Expire(p)
    <3>1. UNCHANGED held /\ \A q \in Procs \ {p} : pc'[q] = pc[q]
      BY <1>0, <2>3 DEF GiveUp, QueryStep, Begin, NextRow, KeepRow, NoMoreRows, Encode,
         QueryFails, Enter, Inspect, Expire
    <3>2. pc'[p] \notin {"publish", "drain"} /\ (pc'[p] \in InRun => pc[p] \in InRun)
      BY <1>0, <2>3 DEF GiveUp, QueryStep, Begin, NextRow, KeepRow, NoMoreRows, Encode,
         QueryFails, Enter, Inspect, Expire, InRun, InFn
    <3>3. QED
      BY <2>1, <3>1, <3>2, MovesStand
  <2>4. QED
    BY <1>7, <2>2, <2>3
<1>8. CASE UNCHANGED vars
  BY <1>8 DEF Standing
<1>9. QED
  BY <1>1, <1>2, <1>3, <1>4, <1>5, <1>6, <1>7, <1>8
     DEF Next, ToolStep, LocalStep, ManageStep
StoreInv == Typed /\ Guarded /\ Standing

LEMMA AlwaysStoreInv == Spec => []StoreInv
<1>1. Init => StoreInv
  BY InitTyped, InitStore DEF StoreInv
<1>2. StoreInv /\ [Next]_vars => StoreInv'
  <2> SUFFICES ASSUME StoreInv, [Next]_vars PROVE StoreInv'
    OBVIOUS
  <2>1. Typed /\ Guarded /\ Standing /\ LifecycleTypeOK
    BY DEF StoreInv, Typed, StoreTypes
  <2>2. Typed'
    BY <2>1, NextCallTypes, NextStoreTypes, NextQueryTypes DEF Typed
  <2>3. Guarded'
    BY <2>1, ToolsTakeSteps, StoreStaysGuarded
  <2>4. QED
    BY <2>1, <2>2, <2>3, NextStanding DEF StoreInv
<1>3. QED
  BY <1>1, <1>2, PTL DEF Spec

\* tools.go:137-199, sql.go:29-287: the tools and the owner of the store do with
\* it only what SourceLifecycle allows, which Directory implements.
THEOREM ToolsKeepLifecycle == Spec => LifecycleSpec
<1>1. Init => LifecycleInit
  BY DEF Init
<1>2. StoreInv /\ [Next]_vars => [LifecycleNext]_lifecycleVars
  BY ToolsTakeSteps DEF StoreInv
<1>3. QED
  BY <1>1, <1>2, AlwaysStoreInv, PTL DEF Spec, LifecycleSpec

\* The client a tool's function was given is open for as long as it runs, and
\* the client a management tool has opened or detached is no name's, nobody
\* else's to close, and not closed yet.
ToolsMeetOpenSources ==
    \A p \in Procs :
        /\ pc[p] \in InRun => stage[held[p]] \in {"visible", "retired"}
        /\ pc[p] \in {"publish", "drain"} =>
               /\ stage[held[p]] \in {"opened", "retired"}
               /\ \A n \in Names : reg[n] # held[p]
               /\ \A q \in Procs \ {p} : pc[q] \in {"publish", "drain"} => held[q] # held[p]

\* tools.go:144-199, sql.go:186-287: no tool queries, pings or inspects a client that
\* has been closed under it, and none is closed twice, whatever the owner and
\* the other calls do with the names meanwhile.
THEOREM ToolsNeverMeetAClosedSource == Spec => []ToolsMeetOpenSources
<1>1. ASSUME StoreInv PROVE ToolsMeetOpenSources
  <2>1. \A p \in Procs : pc[p] \in InRun => stage[held[p]] \in {"visible", "retired"}
    <3> SUFFICES ASSUME NEW p \in Procs, pc[p] \in InRun
                 PROVE  stage[held[p]] \in {"visible", "retired"}
      OBVIOUS
    <3>1. held[p] \in Ids /\ p \in users[held[p]]
      BY <1>1 DEF StoreInv, Standing
    <3>2. QED
      BY <1>1, <3>1 DEF StoreInv, Guarded
  <2>2. ASSUME NEW p \in Procs, pc[p] \in {"publish", "drain"}
        PROVE  /\ stage[held[p]] \in {"opened", "retired"}
               /\ \A n \in Names : reg[n] # held[p]
               /\ \A q \in Procs \ {p} : pc[q] \in {"publish", "drain"} => held[q] # held[p]
    <3>1. held[p] \in Ids /\ stage[held[p]] \in {"opened", "retired"}
      BY <1>1, <2>2 DEF StoreInv, Standing
    <3>2. \A n \in Names : reg[n] # held[p]
      BY <1>1, <3>1, NoneAssumption DEF StoreInv, Guarded
    <3>3. \A q \in Procs \ {p} : pc[q] \in {"publish", "drain"} => held[q] # held[p]
      BY <1>1, <2>2 DEF StoreInv, Standing
    <3>4. QED
      BY <3>1, <3>2, <3>3
  <2>3. QED
    BY <2>1, <2>2 DEF ToolsMeetOpenSources
<1>2. QED
  BY <1>1, AlwaysStoreInv, PTL
=============================================================================
