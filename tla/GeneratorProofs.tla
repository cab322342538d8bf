--------------------------- MODULE GeneratorProofs ---------------------------
(***************************************************************************)
(* Proofs about Generator for any names, methods, interfaces, command      *)
(* lines and number of edits.                                              *)
(***************************************************************************)
EXTENDS Generator, SequenceTheorems, TLAPS

USE DEF inputs, run, verdict, history, vars

----------------------------------------------------------------------------
(* The invariant.                                                          *)

BeforeWrites == {"arguments", "parse", "resolve", "inspect"}

\* The files a run may not change if it finds them.
Kept == Paths \ {config.out, RegistryPath}

\* Only the glue and the registry are written whether they exist or not.
Lawful == {output \in Outputs : output.when = "always" => output.path \notin Kept}

IInv ==
    /\ TypeOK
    /\ pc = "idle" => queue = <<>> /\ view = NothingRead
    /\ pc \in {"idle", "arguments", "parse", "resolve"} => checked = 0
    /\ pc # "idle" => result = "none"
    /\ pc \in BeforeWrites => dir = before
    /\ pc # "idle" => \A path \in Kept : before[path].there => dir[path] = before[path]
    /\ queue \in Seq(Lawful)
    /\ pc = "writing" =>
          /\ queue # <<>>
          /\ Head(queue).path \in Kept => ~before[Head(queue).path].there

----------------------------------------------------------------------------
(* What the operators return.                                              *)

LEMMA PathsOfBackends ==
    ASSUME NEW b \in Names
    PROVE  StubPath(b) \in Paths /\ FixturePath(b) \in Paths
BY DEF Paths

LEMMA FilesTyped ==
    /\ Absent \in Files /\ Damaged \in Files /\ Scaffold \in Files
    /\ \A v \in Views : GeneratedFrom(v) \in Files
    /\ \A b \in Names, M \in SUBSET Methods : Backend(b, M) \in Files
BY DEF Absent, Damaged, Scaffold, GeneratedFrom, Backend, Files, Views, NoView

LEMMA NamesTyped ==
    ASSUME NEW specs \in Seq(Specs)
    PROVE  NamesOf(specs) \in Seq(Names)
<1>1. Len(specs) \in Nat /\ DOMAIN specs = 1..Len(specs)
      /\ \A i \in 1..Len(specs) : specs[i] \in Specs
  BY ElementOfSeq
<1>2. NamesOf(specs) \in [1..Len(specs) -> Names]
  BY <1>1 DEF NamesOf, Specs
<1>3. QED
  BY <1>1, <1>2

\* What a run plans to write are sound outputs, and only the glue and the
\* registry are written whether they exist or not.
LEMMA OutputsLawful ==
    ASSUME NEW v \in [methods : SUBSET Methods, backends : Seq(Names)],
           NEW found, NEW test, config.out \in {OutPath, AwayPath}
    PROVE  OutputsOf(v, found, config.out, test) \in Seq(Lawful)
<1> DEFINE view_ == [methods |-> v.methods, backends |-> ToSet(v.backends)]
           names_ == [methods |-> {}, backends |-> ToSet(v.backends)]
           fixture(b) == WrittenOnce(FixturePath(b), Scaffold)
           stub(b) == [WrittenOnce(StubPath(b), Backend(b, v.methods))
                          EXCEPT !.when = IF b \in found THEN "never" ELSE "missing"]
           fixtures == [i \in DOMAIN v.backends |-> fixture(v.backends[i])]
           stubs == [i \in DOMAIN v.backends |-> stub(v.backends[i])]
           tests == <<WrittenOnce(SuitePath, Scaffold)>> \o fixtures
                        \o <<WrittenAlways(RegistryPath, GeneratedFrom(names_))>>
           glue == WrittenAlways(config.out, GeneratedFrom(view_))
<1>1. v.methods \in SUBSET Methods /\ v.backends \in Seq(Names)
  OBVIOUS
<1>2. view_ \in Views /\ names_ \in Views
  <2>1. \A i \in DOMAIN v.backends : v.backends[i] \in Names
    BY <1>1, ElementOfSeq
  <2>2. ToSet(v.backends) \in SUBSET Names
    BY <2>1 DEF ToSet
  <2>3. QED
    BY <1>1, <2>2 DEF Views
<1>3. glue \in Lawful
  BY <1>2, FilesTyped DEF WrittenAlways, Lawful, Outputs, Kept, Paths
<1>4. \A b \in Names : fixture(b) \in Lawful
  BY FilesTyped, PathsOfBackends DEF WrittenOnce, Lawful, Outputs
<1>5. \A b \in Names : stub(b) \in Lawful
  <2> TAKE b \in Names
  <2>1. Backend(b, v.methods) \in Files /\ StubPath(b) \in Paths
    BY <1>1, FilesTyped, PathsOfBackends
  <2>2. QED
    BY <2>1 DEF WrittenOnce, Lawful, Outputs
<1>6. WrittenOnce(SuitePath, Scaffold) \in Lawful
  BY FilesTyped DEF WrittenOnce, Lawful, Outputs, Paths
<1>7. WrittenAlways(RegistryPath, GeneratedFrom(names_)) \in Lawful
  BY <1>2, FilesTyped DEF WrittenAlways, Lawful, Outputs, Kept, Paths
<1>8. fixtures \in Seq(Lawful) /\ stubs \in Seq(Lawful)
  <2> HIDE DEF fixture, stub
  <2>1. Len(v.backends) \in Nat /\ DOMAIN v.backends = 1..Len(v.backends)
        /\ \A i \in 1..Len(v.backends) : v.backends[i] \in Names
    BY <1>1, ElementOfSeq
  <2>2. fixtures \in [1..Len(v.backends) -> Lawful] /\ stubs \in [1..Len(v.backends) -> Lawful]
    BY <1>4, <1>5, <2>1
  <2>3. QED
    BY <2>1, <2>2
<1>9. OutputsOf(v, found, config.out, test) =
          <<glue>> \o (IF test THEN tests ELSE <<>>) \o stubs
  BY DEF OutputsOf
<1>10. tests \in Seq(Lawful)
  <2> HIDE DEF fixtures
  <2>1. <<WrittenOnce(SuitePath, Scaffold)>> \in Seq(Lawful)
        /\ <<WrittenAlways(RegistryPath, GeneratedFrom(names_))>> \in Seq(Lawful)
    BY <1>6, <1>7
  <2>2. QED
    BY <1>8, <2>1, ConcatProperties
<1>11. QED
  <2> HIDE DEF glue, tests, stubs
  <2>1. <<glue>> \in Seq(Lawful) /\ (IF test THEN tests ELSE <<>>) \in Seq(Lawful)
    BY <1>3, <1>10
  <2>2. <<glue>> \o (IF test THEN tests ELSE <<>>) \o stubs \in Seq(Lawful)
    BY <1>8, <2>1, ConcatProperties
  <2>3. QED
    BY <1>9, <2>2

----------------------------------------------------------------------------
(* The invariant is one.                                                   *)

LEMMA InitInv == Init => IInv
<1> SUFFICES ASSUME Init PROVE IInv
  OBVIOUS
<1>1. EmptyDir \in [Paths -> Files]
  BY FilesTyped DEF EmptyDir
<1>2. NothingRead \in [methods : SUBSET Methods, backends : Seq(Names)]
      /\ Len(NothingRead.backends) = 0
  BY DEF NothingRead
<1>3. TypeOK
  <2>1. /\ view \in [methods : SUBSET Methods, backends : Seq(Names)]
        /\ checked \in 0..Len(view.backends) /\ edits \in 0..MaxEdits
    BY <1>2, ConfigsAssumption DEF Init
  <2>2. queue \in Seq(Outputs)
    BY EmptySeq DEF Init
  <2>3. blamed \in Names \cup {<<>>} /\ existing \in SUBSET Names
    BY DEF Init
  <2>4. dir \in [Paths -> Files] /\ before \in [Paths -> Files]
    BY <1>1 DEF Init
  <2>5. iface \in Interfaces /\ config \in Configs /\ pc = "idle" /\ stable \in BOOLEAN
        /\ result \in Results
    BY DEF Init, Results
  <2>6. QED
    BY <2>1, <2>2, <2>3, <2>4, <2>5 DEF TypeOK
<1>4. QED
  BY <1>3 DEF Init, IInv, BeforeWrites

\* However a run ends, it leaves the directory to the application.
LEMMA EndKeepsInv ==
    ASSUME IInv, NEW outcome \in Results, NEW b \in Names \cup {<<>>}, End(outcome, b),
           dir' \in [Paths -> Files]
    PROVE  IInv'
<1>1. EmptyDir \in [Paths -> Files]
  BY FilesTyped DEF EmptyDir
<1>2. NothingRead \in [methods : SUBSET Methods, backends : Seq(Names)]
      /\ Len(NothingRead.backends) = 0
  BY DEF NothingRead
<1>3. TypeOK'
  <2>1. /\ before' \in [Paths -> Files] /\ stable' \in BOOLEAN /\ queue' = <<>>
        /\ view' \in [methods : SUBSET Methods, backends : Seq(Names)]
        /\ checked' \in 0..Len(view'.backends)
    BY <1>1, <1>2 DEF End
  <2>2. QED
    BY <2>1 DEF End, IInv, TypeOK
<1>4. QED
  BY <1>3 DEF End, IInv, BeforeWrites

\* A step of a run that touches no file and ends nothing.
LEMMA PlansKeepInv ==
    ASSUME IInv, UNCHANGED <<inputs, dir, verdict, history>>, pc # "idle", pc # "writing",
           pc' \in {"arguments", "parse", "resolve", "inspect", "output"},
           pc' \in BeforeWrites => pc \in BeforeWrites,
           pc' \in {"arguments", "parse", "resolve"} => checked' = 0,
           view' \in [methods : SUBSET Methods, backends : Seq(Names)],
           existing' \in SUBSET Names,
           checked' \in 0..Len(view'.backends),
           queue' \in Seq(Lawful)
    PROVE  IInv'
<1>1. queue' \in Seq(Outputs)
  BY DEF Lawful
<1>2. TypeOK'
  BY <1>1 DEF IInv, TypeOK
<1>3. Kept' = Kept /\ Lawful' = Lawful
  BY DEF Kept, Lawful
<1>4. QED
  BY <1>2, <1>3 DEF IInv, BeforeWrites

\* What is at the head of the queue, and what follows it.
LEMMA HeadOfQueue ==
    ASSUME IInv, queue # <<>>
    PROVE  Head(queue) \in Lawful /\ Tail(queue) \in Seq(Lawful)
BY HeadTailProperties DEF IInv

LEMMA CommandKeepsInv ==
    ASSUME IInv, Command
    PROVE  IInv'
<1> USE DEF BeforeWrites
<1>0. TypeOK /\ queue \in Seq(Lawful)
  BY DEF IInv
<1>1. CASE Start
  <2>1. TypeOK'
    BY <1>0, <1>1 DEF Start, TypeOK, Results
  <2>2. queue' = queue /\ Lawful' = Lawful /\ pc = "idle"
    BY <1>1 DEF Start, Lawful, Kept
  <2>3. QED
    BY <1>0, <1>1, <2>1, <2>2 DEF Start, IInv
<1>2. CASE ReadArguments
  <2>0. checked = 0
    BY <1>2 DEF ReadArguments, IInv
  <2>1. CASE End("arguments", <<>>)
    BY <1>0, <1>2, <2>1, EndKeepsInv DEF ReadArguments, TypeOK, Results, Refusals
  <2>2. CASE pc' = "parse" /\ UNCHANGED <<inputs, view, existing, checked, queue, verdict, history>>
    BY <1>0, <1>2, <2>0, <2>2, PlansKeepInv DEF ReadArguments, TypeOK
  <2>3. QED
    BY <1>2, <2>1, <2>2 DEF ReadArguments
<1>3. CASE ParseInterface
  <2>0. checked = 0
    BY <1>3 DEF ParseInterface, IInv
  <2>1. CASE End("interface", <<>>)
    BY <1>0, <1>3, <2>1, EndKeepsInv DEF ParseInterface, TypeOK, Results, Refusals
  <2>2. CASE /\ view' = [view EXCEPT !.methods = iface]
             /\ pc' = "resolve"
             /\ UNCHANGED <<inputs, existing, checked, queue, verdict, history>>
    <3>1. iface \in SUBSET Methods
      BY <1>0, ConfigsAssumption DEF TypeOK
    <3>2. view' \in [methods : SUBSET Methods, backends : Seq(Names)]
          /\ view'.backends = view.backends
      BY <1>0, <2>2, <3>1 DEF TypeOK
    <3>3. QED
      BY <1>0, <1>3, <2>0, <2>2, <3>2, PlansKeepInv DEF ParseInterface, TypeOK
  <2>3. QED
    BY <1>3, <2>1, <2>2 DEF ParseInterface
<1>4. CASE ResolveBackends
  <2>1. CASE End("backends", <<>>)
    BY <1>0, <1>4, <2>1, EndKeepsInv DEF ResolveBackends, TypeOK, Results, Refusals
  <2>2. CASE /\ view' = [view EXCEPT !.backends = NamesOf(config.specs)]
             /\ pc' = "inspect"
             /\ UNCHANGED <<inputs, existing, checked, queue, verdict, history>>
    <3>1. NamesOf(config.specs) \in Seq(Names)
      BY <1>0, ConfigsAssumption, NamesTyped DEF TypeOK, Arguments
    <3>2. view' \in [methods : SUBSET Methods, backends : Seq(Names)]
      BY <1>0, <2>2, <3>1 DEF TypeOK
    <3>3. checked' \in 0..Len(view'.backends)
      <4>1. checked = 0
        BY <1>4 DEF ResolveBackends, IInv
      <4>2. QED
        BY <2>2, <3>2, <4>1, LenProperties
    <3>4. QED
      BY <1>0, <1>4, <2>2, <3>2, <3>3, PlansKeepInv DEF ResolveBackends, TypeOK
  <2>3. QED
    BY <1>4, <2>1, <2>2 DEF ResolveBackends
<1>5. CASE Inspect
  <2> DEFINE b == view.backends[checked + 1]
  <2>1. b \in Names /\ checked + 1 \in 0..Len(view.backends)
    <3>1. checked + 1 \in 1..Len(view.backends) /\ view.backends \in Seq(Names)
      BY <1>0, <1>5, LenProperties DEF Inspect, TypeOK
    <3>2. QED
      BY <3>1, ElementOfSeq
  <2>2. CASE \E outcome \in {"unparsable", "missing", "foreign"} : End(outcome, b)
    BY <1>0, <1>5, <2>1, <2>2, EndKeepsInv DEF Inspect, TypeOK, Results, Refusals
  <2>3. CASE /\ checked' = checked + 1
             /\ existing' \in {existing, existing \cup {b}}
             /\ UNCHANGED <<inputs, pc, view, queue, verdict, history>>
    BY <1>0, <1>5, <2>1, <2>3, PlansKeepInv DEF Inspect, TypeOK
  <2>4. QED
    BY <1>5, <2>2, <2>3 DEF Inspect
<1>6. CASE PlanOutputs
  <2>1. queue' \in Seq(Lawful)
    <3>1. view \in [methods : SUBSET Methods, backends : Seq(Names)]
          /\ config.out \in {OutPath, AwayPath}
      BY <1>0, ConfigsAssumption DEF TypeOK, Arguments
    <3>2. QED
      BY <1>6, <3>1, OutputsLawful DEF PlanOutputs
  <2>2. QED
    BY <1>0, <1>6, <2>1, PlansKeepInv DEF PlanOutputs, TypeOK
<1>7. CASE OutputSkipped
  BY <1>0, <1>7, HeadOfQueue, PlansKeepInv DEF OutputSkipped, TypeOK
<1>8. CASE OutputOpened
  <2> DEFINE output == Head(queue)
  <2>1. output \in Lawful /\ ~Skipped(output) /\ pc = "output" /\ queue # <<>>
    BY <1>8, HeadOfQueue DEF OutputOpened
  <2>2. output.path \in Paths
    BY <2>1 DEF Lawful, Outputs
  <2>3. output.path \in Kept => ~before[output.path].there
    <3>1. output.path \in Kept => ~dir[output.path].there
      BY <2>1 DEF Lawful, Skipped, Outputs
    <3>2. QED
      BY <2>1, <3>1 DEF IInv
  <2>4. dir' = [dir EXCEPT ![output.path] = Damaged] /\ dir' \in [Paths -> Files]
    BY <1>0, <1>8, <2>2, FilesTyped DEF OutputOpened, TypeOK
  <2>5. TypeOK'
    BY <1>0, <1>8, <2>4 DEF OutputOpened, TypeOK
  <2>6. Kept' = Kept /\ Lawful' = Lawful
    BY <1>8 DEF OutputOpened, Kept, Lawful
  <2>7. \A path \in Kept : before[path].there => dir'[path] = before[path]
    BY <1>0, <2>1, <2>2, <2>3, <2>4 DEF IInv, TypeOK, Kept
  <2>8. QED
    BY <1>0, <1>8, <2>1, <2>3, <2>5, <2>6, <2>7 DEF OutputOpened, IInv
<1>9. CASE OutputWritten
  <2> DEFINE output == Head(queue)
  <2>1. pc = "writing" /\ queue # <<>> /\ (output.path \in Kept => ~before[output.path].there)
    BY <1>9 DEF OutputWritten, IInv
  <2>2. output \in Lawful /\ Tail(queue) \in Seq(Lawful)
    BY <2>1, HeadOfQueue
  <2>3. output.path \in Paths /\ output.content \in Files
    BY <2>2 DEF Lawful, Outputs
  <2>4. dir' = [dir EXCEPT ![output.path] = output.content] /\ dir' \in [Paths -> Files]
    BY <1>0, <1>9, <2>3 DEF OutputWritten, TypeOK
  <2>5. Kept' = Kept /\ Lawful' = Lawful
    BY <1>9 DEF OutputWritten, Kept, Lawful
  <2>6. queue' \in Seq(Lawful) /\ queue' \in Seq(Outputs)
    BY <1>9, <2>2 DEF OutputWritten, Lawful
  <2>7. TypeOK'
    BY <1>0, <1>9, <2>4, <2>6 DEF OutputWritten, TypeOK
  <2>8. \A path \in Kept : before[path].there => dir'[path] = before[path]
    BY <1>0, <2>1, <2>3, <2>4 DEF IInv, TypeOK, Kept
  <2>9. QED
    BY <1>9, <2>1, <2>5, <2>6, <2>7, <2>8 DEF OutputWritten, IInv
<1>10. CASE WriteBreaksOff
  <2>1. Head(queue) \in Lawful
    BY <1>10, HeadOfQueue DEF WriteBreaksOff, IInv
  <2>2. Head(queue).path \in Paths /\ Head(queue).content \in Files
    BY <2>1 DEF Lawful, Outputs
  <2>3. Leftovers(Head(queue).content) \subseteq Files
    <3> DEFINE content == Head(queue).content
    <3>1. \A I \in SUBSET content.impl : [content EXCEPT !.impl = I, !.view = NoView] \in Files
      BY <2>2 DEF Files, Views, NoView
    <3>2. QED
      BY <3>1, FilesTyped DEF Leftovers
  <2>4. dir' \in [Paths -> Files]
    BY <1>0, <1>10, <2>2, <2>3 DEF WriteBreaksOff, TypeOK
  <2>5. QED
    BY <1>10, <2>4, EndKeepsInv DEF WriteBreaksOff, Results
<1>11. CASE Killed \/ Succeed
  BY <1>0, <1>11, EndKeepsInv DEF Killed, Succeed, TypeOK, Results
<1>12. QED
  BY <1>1, <1>2, <1>3, <1>4, <1>5, <1>6, <1>7, <1>8, <1>9, <1>10, <1>11 DEF Command

LEMMA ApplicationKeepsInv ==
    ASSUME IInv, Application
    PROVE  IInv'
<1>0. TypeOK /\ Edit /\ pc = "idle" /\ queue = <<>>
  BY DEF IInv, Application, EditInterface, EditConfig, EditFile, Edit
<1>1. iface' \in Interfaces /\ config' \in Configs /\ dir' \in [Paths -> Files]
  <2>1. CASE \E M \in Interfaces : EditInterface(M)
    BY <1>0, <2>1 DEF EditInterface, TypeOK
  <2>2. CASE \E c \in Configs : EditConfig(c)
    BY <1>0, <2>2 DEF EditConfig, TypeOK
  <2>3. CASE \E path \in Paths, file \in Files : EditFile(path, file)
    BY <1>0, <2>3 DEF EditFile, TypeOK
  <2>4. (\E b \in Names, M \in SUBSET (Methods \ Unsupported) :
            \E path \in {StubPath(b), OtherPath} : EditFile(path, Backend(b, M)))
        => \E path \in Paths, file \in Files : EditFile(path, file)
    <3> SUFFICES ASSUME NEW b \in Names, NEW M \in SUBSET (Methods \ Unsupported),
                        NEW path \in {StubPath(b), OtherPath}, EditFile(path, Backend(b, M))
                 PROVE  \E p \in Paths, file \in Files : EditFile(p, file)
      OBVIOUS
    <3>1. Backend(b, M) \in Files
      BY FilesTyped
    <3>2. path \in Paths
      BY PathsOfBackends DEF Paths
    <3>3. QED
      BY <3>1, <3>2
  <2>5. (\E path \in Paths : dir[path].there /\ \E file \in {Absent, Damaged} : EditFile(path, file))
        => \E path \in Paths, file \in Files : EditFile(path, file)
    BY FilesTyped
  <2>6. QED
    BY <2>1, <2>2, <2>3, <2>4, <2>5 DEF Application
<1>2. edits' \in 0..MaxEdits /\ UNCHANGED <<run, before>> /\ stable' = FALSE
      /\ result' = "none" /\ blamed' = <<>>
  BY <1>0, ConfigsAssumption DEF Edit, TypeOK
<1>3. TypeOK'
  BY <1>0, <1>1, <1>2 DEF TypeOK, Results
<1>4. queue' = <<>> /\ pc' = "idle"
  BY <1>0, <1>2
<1>5. QED
  BY <1>2, <1>3, <1>4 DEF IInv, BeforeWrites

LEMMA NextInv ==
    ASSUME IInv, [Next]_vars
    PROVE  IInv'
<1>1. CASE UNCHANGED vars
  BY <1>1 DEF IInv, TypeOK, Kept, Lawful, BeforeWrites
<1>2. QED
  BY <1>1, CommandKeepsInv, ApplicationKeepsInv DEF Next

\* The inductive invariant: what a run has read and planned, and what it has
\* left alone of the directory it found.
THEOREM GeneratorInvariant == Spec => []IInv
BY InitInv, NextInv, PTL DEF Spec

\* Every reachable state is well typed: what the command plans, writes and may
\* leave behind are files of the package directory.
THEOREM GeneratorTyped == Spec => []TypeOK
<1>1. IInv => TypeOK
  BY DEF IInv
<1>2. QED
  BY <1>1, GeneratorInvariant, PTL
----------------------------------------------------------------------------
(* What a run leaves alone.                                                *)

\* A run refuses before it has written anything.
LEMMA RefusalsComeFirst ==
    ASSUME IInv, [Next]_vars, pc # "idle", result' \in Refusals
    PROVE  dir' = before
<1> USE DEF IInv, Refusals, BeforeWrites
<1>1. result' # result /\ Command
  BY DEF Next, Application, EditInterface, EditConfig, EditFile, Edit
<1>2. CASE pc \in BeforeWrites
  <2>1. UNCHANGED dir
    BY <1>1, <1>2 DEF Command, Start, ReadArguments, ParseInterface, ResolveBackends, Inspect,
       PlanOutputs, OutputSkipped, OutputOpened, OutputWritten, WriteBreaksOff, Killed, Succeed
  <2>2. QED
    BY <1>2, <2>1
<1>3. CASE pc \notin BeforeWrites
  BY <1>1, <1>3 DEF Command, Start, ReadArguments, ParseInterface, ResolveBackends, Inspect,
     PlanOutputs, OutputSkipped, OutputOpened, OutputWritten, WriteBreaksOff, Killed, Succeed,
     End
<1>4. QED
  BY <1>2, <1>3

\* main.go:36-128: whatever makes a run refuse, it has written nothing.
THEOREM RefusalsWriteNothing == Spec => RefusalWritesNothing
<1>1. IInv /\ [Next]_vars => [pc # "idle" /\ result' \in Refusals => dir' = before]_vars
  BY RefusalsComeFirst
<1>2. QED
  BY <1>1, GeneratorInvariant, PTL DEF Spec, RefusalWritesNothing

\* A step of a run changes a file it found only if it is the glue or the
\* registry.
LEMMA FilesFoundAreKept ==
    ASSUME IInv, [Next]_vars, pc # "idle", NEW path \in Paths \ {config.out, RegistryPath},
           before[path].there
    PROVE  dir'[path] = dir[path]
<1>0. path \in Kept /\ dir \in [Paths -> Files]
  BY DEF Kept, IInv, TypeOK
<1>1. CASE OutputOpened
  <2>1. pc = "output" /\ Head(queue) \in Lawful /\ ~Skipped(Head(queue))
    BY <1>1, HeadOfQueue DEF OutputOpened
  <2>2. Head(queue).path # path
    <3>1. dir[path].there
      BY <1>0, <2>1 DEF IInv
    <3>2. QED
      BY <1>0, <2>1, <3>1 DEF Lawful, Outputs, Skipped
  <2>3. QED
    BY <1>0, <1>1, <2>2 DEF OutputOpened
<1>2. CASE pc = "writing"
  <2>1. Head(queue).path # path
    BY <1>0, <1>2 DEF IInv
  <2>2. UNCHANGED dir \/ \E file : dir' = [dir EXCEPT ![Head(queue).path] = file]
    BY <1>2 DEF Next, Command, Start, ReadArguments, ParseInterface, ResolveBackends, Inspect,
       PlanOutputs, OutputSkipped, OutputOpened, OutputWritten, WriteBreaksOff, Killed, Succeed,
       Application, EditInterface, EditConfig, EditFile, Edit
  <2>3. QED
    BY <1>0, <2>1, <2>2
<1>3. CASE pc # "writing" /\ ~OutputOpened
  BY <1>3 DEF Next, Command, Start, ReadArguments, ParseInterface, ResolveBackends, Inspect,
     PlanOutputs, OutputSkipped, OutputWritten, WriteBreaksOff, Killed, Succeed, Application,
     EditInterface, EditConfig, EditFile, Edit
<1>4. QED
  BY <1>1, <1>2, <1>3

\* main.go:207-229: whatever a run does and wherever it is broken off, the
\* files it found are as they were, but for the glue and the registry.
THEOREM ApplicationFilesAreKept == Spec => ApplicationFilesKept
<1>1. IInv /\ [Next]_vars =>
          [pc # "idle" =>
              \A path \in Paths \ {config.out, RegistryPath} :
                  before[path].there => dir'[path] = dir[path]]_vars
  BY FilesFoundAreKept
<1>2. QED
  BY <1>1, GeneratorInvariant, PTL DEF Spec, ApplicationFilesKept
----------------------------------------------------------------------------
(* What a run owes.  The outputs of OutputsOf, by name.                    *)

Wanted == ToSet(view.backends)

Glue == WrittenAlways(config.out, GeneratedFrom([methods |-> view.methods, backends |-> Wanted]))
Suite == WrittenOnce(SuitePath, Scaffold)
Registry == WrittenAlways(RegistryPath, GeneratedFrom([methods |-> {}, backends |-> Wanted]))
Fixture(b) == WrittenOnce(FixturePath(b), Scaffold)
Stub(b) == [WrittenOnce(StubPath(b), Backend(b, view.methods))
               EXCEPT !.when = IF b \in existing THEN "never" ELSE "missing"]

Plan == {Glue} \cup {Stub(b) : b \in Wanted}
            \cup (IF config.test THEN {Suite, Registry} \cup {Fixture(b) : b \in Wanted} ELSE {})

\* An output that needs no further write: a file that was missing is whole.
Done(output) ==
    /\ output.when = "always" => dir[output.path] = output.content
    /\ output.when = "missing" =>
           dir[output.path].there /\ (before[output.path].there \/ dir[output.path] = output.content)

\* What a run that gets past its arguments, and past its backends, was given.
Loads ==
    config.loads /\ (config.file => config.specs # <<>> /\ IsInjective(NamesOf(config.specs)))
Usable ==
    (\A i \in DOMAIN config.specs : config.specs[i].ok) /\ IsInjective(NamesOf(config.specs))

\* A run has read what is there: neither the interface nor the command line
\* changes under it.
Faithful ==
    /\ pc \notin {"idle", "arguments"} => Loads
    /\ pc \in {"resolve", "inspect", "output", "writing"} =>
           view.methods = iface /\ iface \cap Unsupported = {}
    /\ pc \in {"inspect", "output", "writing"} =>
           view.backends = NamesOf(config.specs) /\ Usable

\* What preflight has found out stays true while it goes on.
Inspected ==
    /\ pc \in {"idle", "arguments", "parse", "resolve"} => existing = {}
    /\ pc = "inspect" =>
           /\ checked > 0 => \A path \in Sources : dir[path].parses
           /\ \A b \in existing : iface \subseteq Implemented(b) /\ Implemented(b) # {}
           /\ \A i \in 1..checked :
                  view.backends[i] \notin existing => ~dir[StubPath(view.backends[i])].there

BeingWritten(path) == pc = "writing" /\ path = Head(queue).path

\* What a run writes is planned, and what it is writing is not yet whole.
Queued ==
    pc \in {"output", "writing"} =>
        /\ ToSet(queue) \subseteq Plan
        /\ pc = "writing" => dir[Head(queue).path] = Damaged

\* Every output is still queued or done, and one still queued is as it was or
\* written already; a backend preflight found is still implemented; one that
\* does not implement the interface has its stub in the queue, and the stub's
\* file is free.
Planned ==
    pc \in {"output", "writing"} /\ WellNamed(config) =>
        /\ \A output \in Plan \ ToSet(queue) : Done(output)
        /\ \A output \in ToSet(queue) :
               dir[output.path] \in {before[output.path], output.content} \/ BeingWritten(output.path)
        /\ Wanted # {} => \A path \in Sources : dir[path].parses \/ BeingWritten(path)
        /\ \A b \in Wanted \cap existing : Implemented(b) # {}
        /\ \A b \in Wanted :
               \/ iface \subseteq Implemented(b)
               \/ /\ Stub(b) \in ToSet(queue) /\ b \notin existing
                  /\ ~dir[StubPath(b)].there \/ BeingWritten(StubPath(b))

\* Only a backend whose stub is the file of the glue is implemented there.
Bare ==
    \A b \in Names, m \in Methods : <<b, m>> \in dir[OutPath].impl => StubPath(b) = OutPath

\* What a run that succeeds leaves behind, and would not refuse but for a
\* backend without methods.
Complete ==
    LET backends == ToSet(NamesOf(config.specs)) IN
    /\ Loads /\ Usable /\ iface \cap Unsupported = {}
    /\ dir[config.out] = GeneratedFrom([methods |-> iface, backends |-> backends])
    /\ backends # {} => \A path \in Sources : dir[path].parses
    /\ \A b \in backends : iface \subseteq Implemented(b)
    /\ \A b \in backends : Implemented(b) # {} \/ dir[StubPath(b)].there
    /\ config.test =>
           /\ dir[RegistryPath] = GeneratedFrom([methods |-> {}, backends |-> backends])
           /\ dir[SuitePath].there
           /\ \A b \in backends : dir[FixturePath(b)].there

\* A run over a complete directory finds every backend, and has planned
\* nothing but to write the glue and the registry again as they are.
Repeating ==
    stable /\ WellNamed(config) =>
        /\ pc \in BeforeWrites \cup {"idle"} => Complete
        /\ pc = "inspect" => \A i \in 1..checked : view.backends[i] \in existing
        /\ pc \in {"output", "writing"} =>
               /\ \A path \in Paths : dir[path] = before[path] \/ BeingWritten(path)
               /\ \A output \in ToSet(queue) :
                      /\ output.when = "always" => before[output.path] = output.content
                      /\ output.when = "missing" => before[output.path].there
        /\ pc = "writing" => Head(queue).when = "always"

CInv == IInv /\ Faithful /\ Inspected /\ Queued /\ Planned /\ Bare /\ Repeating
----------------------------------------------------------------------------
(* The output paths of a run differ.                                       *)

LEMMA PathsApart ==
    /\ \A b \in Names : IsTestFile(FixturePath(b)) /\ StubPath(b) # AwayPath
    /\ \A b, c \in Names : FixturePath(b) = FixturePath(c) => b = c
    /\ IsTestFile(SuitePath) /\ IsTestFile(RegistryPath) /\ SuitePath # RegistryPath
    /\ ~IsTestFile(OutPath) /\ ~IsTestFile(AwayPath) /\ ~IsTestFile(OtherPath)
<1> DEFINE Words == STRING \cup {"test", "compliance", "gen"}
<1>1. ASSUME NEW b \in Seq(Words)
      PROVE  /\ FixturePath(b) \in Seq(Words) /\ Len(FixturePath(b)) = Len(b) + 1
             /\ FixturePath(b)[Len(b) + 1] = "test"
             /\ \A i \in 1..Len(b) : FixturePath(b)[i] = b[i]
  <2>1. <<"test">> \in Seq(Words) /\ Len(<<"test">>) = 1 /\ <<"test">>[1] = "test"
    <3>1. "test" \in Words
      OBVIOUS
    <3>2. QED
      BY <3>1
  <2>2. QED
    BY <1>1, <2>1, ConcatProperties, LenProperties DEF FixturePath
<1>2. \A b \in Names : b \in Seq(Words)
  BY NamesAssumption, SeqMonotonic
<1>3. \A b \in Names : IsTestFile(FixturePath(b))
  BY <1>1, <1>2 DEF IsTestFile, Last
<1>4. ASSUME NEW b \in Seq(Words), NEW c \in Seq(Words), FixturePath(b) = FixturePath(c)
      PROVE  b = c
  <2>1. Len(b) = Len(c)
    <3>1. Len(b) \in Nat /\ Len(c) \in Nat
      BY LenProperties
    <3>2. Len(b) + 1 = Len(c) + 1
      BY <1>1, <1>4
    <3>3. QED
      BY <3>1, <3>2
  <2>2. \A i \in 1..Len(b) : b[i] = c[i]
    BY <1>1, <1>4, <2>1
  <2>3. QED
    BY <2>1, <2>2, SeqEqual
<1> HIDE DEF Words
<1>5. /\ IsTestFile(SuitePath) /\ IsTestFile(RegistryPath) /\ SuitePath # RegistryPath
      /\ ~IsTestFile(OutPath) /\ ~IsTestFile(AwayPath) /\ ~IsTestFile(OtherPath)
  BY DEF IsTestFile, Last, SuitePath, RegistryPath, OutPath, AwayPath, OtherPath
<1>6. \A b \in Names : StubPath(b) # AwayPath
  BY NamesAssumption DEF StubPath
<1>7. QED
  BY <1>2, <1>3, <1>4, <1>5, <1>6

\* The outputs are files that parse, each for the name it carries.
LEMMA OutputsKnown ==
    ASSUME TypeOK, NEW output \in Plan
    PROVE  /\ \/ output = Glue
              \/ \E b \in Wanted : output = Stub(b)
              \/ config.test /\ output \in {Suite, Registry}
              \/ config.test /\ \E b \in Wanted : output = Fixture(b)
           /\ output.content.parses /\ output.content.there
<1>1. \/ output = Glue
      \/ \E b \in Wanted : output = Stub(b)
      \/ config.test /\ output \in {Suite, Registry}
      \/ config.test /\ \E b \in Wanted : output = Fixture(b)
  BY DEF Plan
<1>2. Scaffold.parses /\ Scaffold.there
  BY DEF Scaffold, Absent
<1>3. /\ \A v : GeneratedFrom(v).parses /\ GeneratedFrom(v).there
      /\ \A b, M : Backend(b, M).parses /\ Backend(b, M).there
  BY DEF GeneratedFrom, Backend, Scaffold, Absent
<1>4. Glue.content.parses /\ Glue.content.there /\ Registry.content.parses /\ Registry.content.there
  BY <1>3 DEF Glue, Registry, WrittenAlways
<1>5. Suite.content.parses /\ Suite.content.there
  BY <1>2 DEF Suite, WrittenOnce
<1>6. \A b : /\ Fixture(b).content.parses /\ Fixture(b).content.there
             /\ Stub(b).content.parses /\ Stub(b).content.there
  BY <1>2, <1>3 DEF Fixture, Stub, WrittenOnce
<1>7. QED
  BY <1>1, <1>4, <1>5, <1>6

LEMMA Fields ==
    /\ Glue.path = config.out /\ Glue.when = "always"
    /\ Glue.content = GeneratedFrom([methods |-> view.methods, backends |-> Wanted])
    /\ Registry.path = RegistryPath /\ Registry.when = "always"
    /\ Registry.content = GeneratedFrom([methods |-> {}, backends |-> Wanted])
    /\ Suite.path = SuitePath /\ Suite.when = "missing"
    /\ \A b : /\ Fixture(b).path = FixturePath(b) /\ Fixture(b).when = "missing"
              /\ Stub(b).path = StubPath(b) /\ Stub(b).content = Backend(b, view.methods)
              /\ b \in existing => Stub(b).when = "never"
              /\ b \notin existing => Stub(b).when = "missing"
BY DEF Glue, Stub, Suite, Registry, Fixture, WrittenAlways, WrittenOnce

LEMMA WantedAreNames ==
    ASSUME TypeOK
    PROVE  Wanted \in SUBSET Names
<1>1. view.backends \in Seq(Names)
  BY DEF TypeOK
<1>2. \A i \in DOMAIN view.backends : view.backends[i] \in Names
  BY <1>1, LenProperties, ElementOfSeq
<1>3. QED
  BY <1>2 DEF Wanted, ToSet

\* What well-chosen names give the backends of a run.
LEMMA WantedApart ==
    ASSUME Faithful, WellNamed(config), pc \in {"inspect", "output", "writing"}
    PROVE  \A b \in Wanted : /\ ~IsTestFile(StubPath(b)) /\ StubPath(b) # config.out
                             /\ config.test => FixturePath(b) \notin {SuitePath, RegistryPath}
BY DEF Faithful, WellNamed, Wanted

\* Two outputs of one run are never written to the same file.
LEMMA OutputsApart ==
    ASSUME TypeOK, Faithful, WellNamed(config), pc \in {"inspect", "output", "writing"},
           NEW o1 \in Plan, NEW o2 \in Plan, o1.path = o2.path
    PROVE  o1 = o2
<1>1. config.out \in {OutPath, AwayPath}
  BY ConfigsAssumption DEF TypeOK, Arguments
<1>2. \A b \in Wanted : b \in Names
  BY WantedAreNames
<1>3. \A b : StubPath(b) = b
  BY DEF StubPath
<1> DEFINE Shape(o) == \/ o = Glue
                       \/ \E b \in Wanted : o = Stub(b)
                       \/ config.test /\ o \in {Suite, Registry}
                       \/ config.test /\ \E b \in Wanted : o = Fixture(b)
<1>4. Shape(o1) /\ Shape(o2)
  BY OutputsKnown
<1>5. ASSUME NEW o, Shape(o), o.path = config.out
      PROVE  o = Glue
  BY <1>1, <1>2, <1>5, Fields, PathsApart, WantedApart
<1>6. ASSUME NEW o, Shape(o), NEW b \in Wanted, o.path = StubPath(b)
      PROVE  o = Stub(b)
  BY <1>1, <1>2, <1>3, <1>6, Fields, PathsApart, WantedApart
<1>7. ASSUME NEW o, Shape(o), config.test, NEW b \in Wanted, o.path = FixturePath(b)
      PROVE  o = Fixture(b)
  BY <1>1, <1>2, <1>7, Fields, PathsApart, WantedApart
<1>8. ASSUME NEW o, Shape(o), o.path = SuitePath
      PROVE  o = Suite
  BY <1>1, <1>2, <1>8, Fields, PathsApart, WantedApart
<1>9. ASSUME NEW o, Shape(o), o.path = RegistryPath
      PROVE  o = Registry
  BY <1>1, <1>2, <1>9, Fields, PathsApart, WantedApart
<1> HIDE DEF Shape
<1>10. CASE o1 = Glue
  BY <1>4, <1>5, <1>10, Fields
<1>11. CASE \E b \in Wanted : o1 = Stub(b)
  BY <1>4, <1>6, <1>11, Fields
<1>12. CASE config.test /\ \E b \in Wanted : o1 = Fixture(b)
  BY <1>4, <1>7, <1>12, Fields
<1>13. CASE o1 \in {Suite, Registry}
  BY <1>4, <1>8, <1>9, <1>13, Fields
<1>14. QED
  BY <1>4, <1>10, <1>11, <1>12, <1>13 DEF Shape

\* What the command plans are those outputs.
LEMMA ToSetOfConcat ==
    ASSUME NEW S, NEW s \in Seq(S), NEW t \in Seq(S)
    PROVE  ToSet(s \o t) = ToSet(s) \cup ToSet(t)
<1>1. /\ Len(s) \in Nat /\ Len(t) \in Nat
      /\ DOMAIN s = 1..Len(s) /\ DOMAIN t = 1..Len(t)
      /\ DOMAIN (s \o t) = 1..(Len(s) + Len(t))
      /\ \A i \in 1..(Len(s) + Len(t)) : (s \o t)[i] = IF i <= Len(s) THEN s[i] ELSE t[i - Len(s)]
  BY ConcatProperties, LenProperties
<1>2. \A i \in DOMAIN s : i \in DOMAIN (s \o t) /\ (s \o t)[i] = s[i]
  BY <1>1
<1>3. \A i \in DOMAIN t : i + Len(s) \in DOMAIN (s \o t) /\ (s \o t)[i + Len(s)] = t[i]
  BY <1>1
<1>4. \A i \in DOMAIN (s \o t) : (s \o t)[i] \in ToSet(s) \cup ToSet(t)
  <2> TAKE i \in DOMAIN (s \o t)
  <2>1. CASE i <= Len(s)
    BY <1>1, <2>1 DEF ToSet
  <2>2. CASE ~(i <= Len(s))
    <3>1. i - Len(s) \in DOMAIN t /\ (s \o t)[i] = t[i - Len(s)]
      BY <1>1, <2>2
    <3>2. QED
      BY <3>1 DEF ToSet
  <2>3. QED
    BY <2>1, <2>2
<1>5. ToSet(s \o t) \subseteq ToSet(s) \cup ToSet(t)
  BY <1>4 DEF ToSet
<1>6. ToSet(s) \subseteq ToSet(s \o t)
  BY <1>2 DEF ToSet
<1>7. ToSet(t) \subseteq ToSet(s \o t)
  BY <1>3 DEF ToSet
<1>8. QED
  BY <1>5, <1>6, <1>7

LEMMA ToSetOfTail ==
    ASSUME NEW S, NEW s \in Seq(S), s # <<>>
    PROVE  /\ Head(s) \in ToSet(s)
           /\ ToSet(Tail(s)) \subseteq ToSet(s)
           /\ ToSet(s) \subseteq ToSet(Tail(s)) \cup {Head(s)}
<1>1. /\ Len(s) \in Nat \ {0} /\ DOMAIN s = 1..Len(s)
      /\ Head(s) = s[1]
  BY EmptySeq, LenProperties
<1>2. /\ Tail(s) \in Seq(S) /\ Len(Tail(s)) = Len(s) - 1
      /\ \A i \in 1..(Len(s) - 1) : Tail(s)[i] = s[i + 1]
  BY HeadTailProperties
<1>3. DOMAIN Tail(s) = 1..(Len(s) - 1)
  BY <1>2, LenProperties
<1>4. 1 \in DOMAIN s /\ \A i \in DOMAIN Tail(s) : i + 1 \in DOMAIN s /\ Tail(s)[i] = s[i + 1]
  BY <1>1, <1>2, <1>3
<1>5. \A i \in DOMAIN s : s[i] \in ToSet(Tail(s)) \cup {Head(s)}
  <2> TAKE i \in DOMAIN s
  <2>1. CASE i = 1
    BY <1>1, <2>1
  <2>2. CASE i # 1
    <3>1. i - 1 \in DOMAIN Tail(s) /\ Tail(s)[i - 1] = s[i]
      BY <1>1, <1>2, <1>3, <2>2
    <3>2. QED
      BY <3>1 DEF ToSet
  <2>3. QED
    BY <2>1, <2>2
<1>6. QED
  BY <1>1, <1>4, <1>5 DEF ToSet
LEMMA OutputsArePlan ==
    ASSUME TypeOK
    PROVE  ToSet(OutputsOf(view, existing, config.out, config.test)) = Plan
<1> DEFINE s == view.backends
           fixtures == [i \in DOMAIN s |-> Fixture(s[i])]
           stubs == [i \in DOMAIN s |-> Stub(s[i])]
           glue == <<Glue>>
           suite == <<Suite>>
           registry == <<Registry>>
           tests == suite \o fixtures \o registry
           middle == IF config.test THEN tests ELSE <<>>
           All == {Glue, Suite, Registry} \cup {Fixture(b) : b \in Wanted}
                      \cup {Stub(b) : b \in Wanted}
<1>1. Len(s) \in Nat /\ DOMAIN s = 1..Len(s)
  BY LenProperties DEF TypeOK
<1>2. OutputsOf(view, existing, config.out, config.test) = glue \o middle \o stubs
  BY DEF OutputsOf, Glue, Suite, Registry, Fixture, Stub, Wanted
<1>3. \A i \in DOMAIN s : s[i] \in Wanted
  BY DEF Wanted, ToSet
<1> HIDE DEF s
<1>4. fixtures \in Seq(All) /\ ToSet(fixtures) = {Fixture(b) : b \in Wanted}
  <2>1. fixtures \in [1..Len(s) -> All]
    BY <1>1, <1>3
  <2>2. ToSet(fixtures) = {Fixture(s[i]) : i \in DOMAIN s}
    BY DEF ToSet
  <2>3. Wanted = {s[i] : i \in DOMAIN s}
    BY DEF Wanted, ToSet, s
  <2>4. QED
    BY <1>1, <2>1, <2>2, <2>3
<1>5. stubs \in Seq(All) /\ ToSet(stubs) = {Stub(b) : b \in Wanted}
  <2>1. stubs \in [1..Len(s) -> All]
    BY <1>1, <1>3
  <2>2. ToSet(stubs) = {Stub(s[i]) : i \in DOMAIN s}
    BY DEF ToSet
  <2>3. Wanted = {s[i] : i \in DOMAIN s}
    BY DEF Wanted, ToSet, s
  <2>4. QED
    BY <1>1, <2>1, <2>2, <2>3
<1>6. ASSUME NEW x \in All
      PROVE  <<x>> \in Seq(All) /\ ToSet(<<x>>) = {x}
  <2>1. <<x>> \in Seq(All) /\ DOMAIN <<x>> = {1} /\ <<x>>[1] = x
    OBVIOUS
  <2>2. QED
    BY <2>1 DEF ToSet
<1>7. Glue \in All /\ Suite \in All /\ Registry \in All
  OBVIOUS
<1> HIDE DEF fixtures, stubs, All
<1>8. /\ glue \in Seq(All) /\ ToSet(glue) = {Glue}
      /\ suite \in Seq(All) /\ ToSet(suite) = {Suite}
      /\ registry \in Seq(All) /\ ToSet(registry) = {Registry}
  BY <1>6, <1>7
<1> HIDE DEF glue, suite, registry
<1>0. \A a, b \in Seq(All) : a \o b \in Seq(All) /\ ToSet(a \o b) = ToSet(a) \cup ToSet(b)
  BY ToSetOfConcat, ConcatProperties
<1>9. tests \in Seq(All) /\ ToSet(tests) = {Suite, Registry} \cup {Fixture(b) : b \in Wanted}
  <2>1. suite \o fixtures \in Seq(All)
        /\ ToSet(suite \o fixtures) = {Suite} \cup {Fixture(b) : b \in Wanted}
    BY <1>0, <1>4, <1>8
  <2>2. tests \in Seq(All)
        /\ ToSet(tests) = ToSet(suite \o fixtures) \cup ToSet(registry)
    BY <1>0, <1>8, <2>1
  <2>3. QED
    BY <1>8, <2>1, <2>2
<1> HIDE DEF tests
<1>10. middle \in Seq(All)
       /\ ToSet(middle) = IF config.test
                          THEN {Suite, Registry} \cup {Fixture(b) : b \in Wanted} ELSE {}
  <2>1. CASE config.test
    BY <1>9, <2>1
  <2>2. CASE ~config.test
    <3>1. <<>> \in Seq(All) /\ ToSet(<<>>) = {}
      BY DEF ToSet
    <3>2. QED
      BY <2>2, <3>1
  <2>3. QED
    BY <2>1, <2>2
<1> HIDE DEF middle
<1>11. glue \o middle \in Seq(All)
       /\ ToSet(glue \o middle) = {Glue} \cup ToSet(middle)
  BY <1>0, <1>8, <1>10
<1>12. ToSet(glue \o middle \o stubs) = ToSet(glue \o middle) \cup ToSet(stubs)
  BY <1>0, <1>5, <1>11
<1>13. QED
  BY <1>2, <1>5, <1>10, <1>11, <1>12 DEF Plan

\* Writing a file in which a backend is not implemented takes none of its
\* methods away.
LEMMA ImplementedGrows ==
    ASSUME dir \in [Paths -> Files], NEW path \in Paths, NEW file, NEW b,
           dir' = [dir EXCEPT ![path] = file],
           path \in Sources => \A m : <<b, m>> \notin dir[path].impl
    PROVE  Implemented(b) \subseteq Implemented(b)'
<1> SUFFICES ASSUME NEW m \in Implemented(b)
             PROVE  m \in Implemented(b)'
  OBVIOUS
<1>1. PICK p \in Sources : m \in Methods /\ <<b, m>> \in dir[p].impl
  BY DEF Implemented
<1>2. p # path /\ dir'[p] = dir[p]
  BY <1>1 DEF Sources
<1>3. p \in Sources'
  BY <1>1, <1>2 DEF Sources
<1>4. QED
  BY <1>1, <1>2, <1>3 DEF Implemented
----------------------------------------------------------------------------
(* Steps that write nothing.                                               *)

LEMMA StaysComplete ==
    ASSUME UNCHANGED <<iface, config, dir>>
    PROVE  Complete' = Complete
BY DEF Complete, Loads, Usable, Sources, Implemented

\* A run that has written everything leaves the directory complete, and every
\* output whole that it did not find there.
LEMMA SuccessCompletes ==
    ASSUME CInv, pc = "output", queue = <<>>, WellNamed(config)
    PROVE  /\ Complete
           /\ \A output \in Plan : Done(output)
<1>1. /\ Loads /\ Usable /\ iface \cap Unsupported = {} /\ view.methods = iface
      /\ Wanted = ToSet(NamesOf(config.specs))
  BY DEF CInv, Faithful, Wanted
<1>2. ToSet(queue) = {}
  BY DEF ToSet
<1>3. \A output \in Plan : Done(output)
  BY <1>2 DEF CInv, Planned
<1>4. dir[config.out] = GeneratedFrom([methods |-> iface, backends |-> Wanted])
  <2>1. Glue \in Plan
    BY DEF Plan
  <2>2. QED
    BY <1>1, <1>3, <2>1, Fields DEF Done
<1>5. Wanted # {} => \A path \in Sources : dir[path].parses
  BY DEF CInv, Planned, BeingWritten
<1>6. \A b \in Wanted : iface \subseteq Implemented(b)
  BY <1>2 DEF CInv, Planned
<1>7. \A b \in Wanted : Implemented(b) # {} \/ dir[StubPath(b)].there
  <2> TAKE b \in Wanted
  <2>1. CASE b \in existing
    BY <2>1 DEF CInv, Planned
  <2>2. CASE b \notin existing
    <3>1. Stub(b) \in Plan
      BY DEF Plan
    <3>2. QED
      BY <1>3, <2>2, <3>1, Fields DEF Done
  <2>3. QED
    BY <2>1, <2>2
<1>8. config.test =>
          /\ dir[RegistryPath] = GeneratedFrom([methods |-> {}, backends |-> Wanted])
          /\ dir[SuitePath].there
          /\ \A b \in Wanted : dir[FixturePath(b)].there
  <2> SUFFICES ASSUME config.test
               PROVE  /\ dir[RegistryPath] = GeneratedFrom([methods |-> {}, backends |-> Wanted])
                      /\ dir[SuitePath].there
                      /\ \A b \in Wanted : dir[FixturePath(b)].there
    OBVIOUS
  <2>1. Registry \in Plan /\ Suite \in Plan /\ \A b \in Wanted : Fixture(b) \in Plan
    BY DEF Plan
  <2>2. QED
    BY <1>3, <2>1, Fields DEF Done
<1>9. QED
  BY <1>1, <1>3, <1>4, <1>5, <1>6, <1>7, <1>8 DEF Complete

LEMMA EmptyDirBare == OutPath \in Paths /\ EmptyDir[OutPath].impl = {}
BY DEF EmptyDir, Paths, Absent

LEMMA InitComplete == Init => CInv
<1> SUFFICES ASSUME Init PROVE CInv
  OBVIOUS
<1>1. IInv
  BY InitInv
<1>2. Bare
  BY EmptyDirBare DEF Init, Bare
<1>3. QED
  BY <1>1, <1>2 DEF Init, CInv, Faithful, Inspected, Queued, Planned, Repeating

\* A run that ends without touching a file, or breaks off.
LEMMA EndKeepsComplete ==
    ASSUME CInv, IInv', NEW outcome, NEW b, End(outcome, b), Bare',
           \/ outcome = "brokenOff"
           \/ outcome \in Refusals /\ UNCHANGED dir /\ pc \in BeforeWrites
           \/ outcome = "ok" /\ UNCHANGED dir /\ (WellNamed(config) => Complete)
    PROVE  CInv'
<1>1. pc' = "idle" /\ existing' = {} /\ UNCHANGED <<iface, config>>
  BY DEF End
<1>2. stable' /\ WellNamed(config) => Complete'
  <2>1. CASE outcome = "brokenOff"
    BY <2>1 DEF End, Refusals
  <2>2. CASE outcome \in Refusals /\ UNCHANGED dir /\ pc \in BeforeWrites
    <3>1. stable' => stable
      BY <2>2 DEF End, Refusals
    <3>2. stable /\ WellNamed(config) => Complete
      BY <2>2 DEF CInv, Repeating
    <3>3. QED
      BY <1>1, <2>2, <3>1, <3>2, StaysComplete
  <2>3. CASE outcome = "ok" /\ UNCHANGED dir /\ (WellNamed(config) => Complete)
    BY <1>1, <2>3, StaysComplete
  <2>4. QED
    BY <2>1, <2>2, <2>3
<1>3. WellNamed(config') <=> WellNamed(config)
  BY <1>1
<1>4. QED
  BY <1>1, <1>2, <1>3 DEF CInv, Faithful, Inspected, Queued, Planned, Repeating

LEMMA PreflightSafe ==
    ASSUME CInv, IInv', UNCHANGED <<inputs, dir, history>>,
           pc \in {"arguments", "parse", "resolve"}, pc' \in {"parse", "resolve"},
           existing' = existing, Faithful'
    PROVE  CInv'
<1>1. Bare'
  BY DEF CInv, Bare
<1>2. stable' /\ WellNamed(config') => Complete'
  BY StaysComplete DEF CInv, Repeating, BeforeWrites
<1>3. Inspected'
  BY DEF CInv, Inspected
<1>4. QED
  BY <1>1, <1>2, <1>3 DEF CInv, Queued, Planned, Repeating

LEMMA InspectComplete ==
    ASSUME CInv, IInv', Inspect
    PROVE  CInv'
<1> DEFINE b == view.backends[checked + 1]
<1>0. TypeOK /\ pc = "inspect" /\ UNCHANGED dir /\ checked < Len(view.backends)
      /\ checked \in Nat /\ Len(view.backends) \in Nat
      /\ DOMAIN view.backends = 1..Len(view.backends)
  <2>1. TypeOK
    BY DEF CInv, IInv
  <2>2. view.backends \in Seq(Names) /\ checked \in 0..Len(view.backends)
    BY <2>1 DEF TypeOK
  <2>3. QED
    BY <2>1, <2>2, LenProperties DEF Inspect
<1>1. CASE \E outcome \in {"unparsable", "missing", "foreign"} : End(outcome, b)
  <2>1. Bare'
    BY <1>0 DEF CInv, Bare
  <2>2. QED
    BY <1>0, <1>1, <2>1, EndKeepsComplete DEF Refusals, BeforeWrites
<1>2. CASE /\ \A path \in Sources : dir[path].parses
           /\ ~(Implemented(b) # {} /\ ~(view.methods \subseteq Implemented(b)))
           /\ ~(Implemented(b) = {} /\ dir[StubPath(b)].there)
           /\ checked' = checked + 1
           /\ existing' = IF Implemented(b) # {} THEN existing \cup {b} ELSE existing
           /\ UNCHANGED <<inputs, pc, view, queue, verdict, history>>
  <2>1. Sources' = Sources /\ \A x : Implemented(x)' = Implemented(x)
    BY <1>0 DEF Sources, Implemented
  <2>2. view.methods = iface /\ view.backends = NamesOf(config.specs)
    BY <1>0 DEF CInv, Faithful
  <2>3. Faithful' /\ Bare'
    BY <1>0, <1>2 DEF CInv, Faithful, Loads, Usable, Bare
  <2>4. Inspected'
    <3>1. \A x \in existing' : iface \subseteq Implemented(x) /\ Implemented(x) # {}
      BY <1>0, <1>2, <2>2 DEF CInv, Inspected
    <3>2. \A i \in 1..checked' :
              view.backends[i] \notin existing' => ~dir[StubPath(view.backends[i])].there
      <4> SUFFICES ASSUME NEW i \in 1..(checked + 1), view.backends[i] \notin existing'
                   PROVE  ~dir[StubPath(view.backends[i])].there
        BY <1>2
      <4>1. CASE i \in 1..checked
        BY <1>0, <1>2, <4>1 DEF CInv, Inspected
      <4>2. CASE i = checked + 1
        BY <1>2, <4>2
      <4>3. QED
        BY <1>0, <4>1, <4>2
    <3>3. QED
      BY <1>0, <1>2, <2>1, <3>1, <3>2 DEF Inspected
  <2>5. Repeating'
    <3> SUFFICES ASSUME stable, WellNamed(config)
                 PROVE  Complete' /\ \A i \in 1..(checked + 1) : view.backends[i] \in existing'
      BY <1>0, <1>2 DEF Repeating
    <3>1. Complete /\ Complete'
      BY <1>0, <1>2, StaysComplete DEF CInv, Repeating, BeforeWrites
    <3>2. b \in ToSet(NamesOf(config.specs))
      <4>1. checked + 1 \in DOMAIN view.backends
        BY <1>0
      <4>2. QED
        BY <2>2, <4>1 DEF ToSet
    <3>3. Implemented(b) # {}
      BY <1>2, <3>1, <3>2 DEF Complete
    <3>4. \A i \in 1..checked : view.backends[i] \in existing
      BY <1>0 DEF CInv, Repeating
    <3>5. \A i \in 1..(checked + 1) : i \in 1..checked \/ i = checked + 1
      BY <1>0
    <3>6. QED
      BY <1>2, <3>1, <3>3, <3>4, <3>5
  <2>6. QED
    BY <1>0, <1>2, <2>3, <2>4, <2>5 DEF CInv, Queued, Planned
<1>3. QED
  BY <1>1, <1>2 DEF Inspect

LEMMA PlanComplete ==
    ASSUME CInv, IInv', PlanOutputs
    PROVE  CInv'
<1>0. /\ TypeOK /\ pc = "inspect" /\ pc' = "output" /\ checked = Len(view.backends)
      /\ UNCHANGED <<inputs, dir, view, existing, checked, verdict, history>>
  BY DEF CInv, IInv, PlanOutputs
<1>1. ToSet(queue') = Plan
  BY <1>0, OutputsArePlan DEF PlanOutputs
<1>2. Plan' = Plan /\ Wanted' = Wanted /\ Sources' = Sources
      /\ \A b : Implemented(b)' = Implemented(b) /\ Stub(b)' = Stub(b)
  BY <1>0 DEF Plan, Wanted, Sources, Implemented, Glue, Suite, Registry, Fixture, Stub
<1>3. Faithful' /\ Inspected' /\ Bare'
  BY <1>0 DEF CInv, Faithful, Loads, Usable, Inspected, Bare
<1>4. \A b \in Wanted : \E i \in 1..checked : b = view.backends[i]
  <2>1. DOMAIN view.backends = 1..checked
    BY <1>0, LenProperties DEF TypeOK
  <2>2. QED
    BY <2>1 DEF Wanted, ToSet
<1>5. Planned'
  <2>1. Wanted # {} => \A path \in Sources : dir[path].parses
    <3>1. Wanted # {} => checked > 0
      <4>1. checked \in Nat
        BY <1>0, LenProperties DEF TypeOK
      <4>2. QED
        BY <1>4, <4>1
    <3>2. QED
      BY <1>0, <3>1 DEF CInv, Inspected
  <2>2. ASSUME NEW b \in Wanted
        PROVE  \/ iface \subseteq Implemented(b)
               \/ Stub(b) \in Plan /\ b \notin existing /\ ~dir[StubPath(b)].there
    <3>1. PICK i \in 1..checked : b = view.backends[i]
      BY <1>4
    <3>2. Stub(b) \in Plan
      BY DEF Plan
    <3>3. QED
      BY <1>0, <3>1, <3>2 DEF CInv, Inspected
  <2>3. \A b \in existing : Implemented(b) # {}
    BY <1>0 DEF CInv, Inspected
  <2>4. dir = before
    BY <1>0 DEF CInv, IInv, BeforeWrites
  <2>5. QED
    BY <1>0, <1>1, <1>2, <2>1, <2>2, <2>3, <2>4 DEF Planned
<1>6. Repeating'
  <2> SUFFICES ASSUME stable, WellNamed(config)
               PROVE  /\ \A path \in Paths : dir[path] = before[path]
                      /\ \A output \in Plan :
                             /\ output.when = "always" => before[output.path] = output.content
                             /\ output.when = "missing" => before[output.path].there
    BY <1>0, <1>1 DEF Repeating, BeforeWrites
  <2>1. dir = before
    BY <1>0 DEF CInv, IInv, BeforeWrites
  <2>2. Complete
    BY <1>0 DEF CInv, Repeating, BeforeWrites
  <2>3. view.methods = iface /\ Wanted = ToSet(NamesOf(config.specs))
    BY <1>0 DEF CInv, Faithful, Wanted
  <2>4. \A b \in Wanted : Stub(b).when = "never"
    <3>1. \A b \in Wanted : b \in existing
      BY <1>0, <1>4 DEF CInv, Repeating
    <3>2. QED
      BY <3>1, Fields
  <2>5. dir[Glue.path] = Glue.content
    BY <2>2, <2>3, Fields DEF Complete
  <2>6. config.test =>
            /\ dir[Registry.path] = Registry.content
            /\ dir[Suite.path].there
            /\ \A b \in Wanted : dir[Fixture(b).path].there
    BY <2>2, <2>3, Fields DEF Complete
  <2>7. ASSUME NEW output \in Plan
        PROVE  /\ output.when = "always" => dir[output.path] = output.content
               /\ output.when = "missing" => dir[output.path].there
    <3>1. CASE output = Glue
      BY <2>5, <3>1, Fields
    <3>2. CASE \E b \in Wanted : output = Stub(b)
      BY <2>4, <3>2
    <3>3. CASE config.test /\ output \in {Suite, Registry}
      BY <2>6, <3>3, Fields
    <3>4. CASE config.test /\ \E b \in Wanted : output = Fixture(b)
      BY <2>6, <3>4, Fields
    <3>5. QED
      BY <1>0, <3>1, <3>2, <3>3, <3>4, OutputsKnown
  <2>8. QED
    BY <2>1, <2>7
<1>7. Queued'
  BY <1>0, <1>1, <1>2 DEF Queued
<1>8. QED
  BY <1>3, <1>5, <1>6, <1>7 DEF CInv
----------------------------------------------------------------------------
(* Steps that write.                                                       *)

\* The output at the head of the queue.
LEMMA HeadPlanned ==
    ASSUME CInv, pc \in {"output", "writing"}, queue # <<>>
    PROVE  /\ Head(queue) \in Plan /\ Head(queue) \in Outputs /\ Head(queue).path \in Paths
           /\ Head(queue) \in ToSet(queue)
           /\ ToSet(Tail(queue)) \subseteq ToSet(queue)
           /\ ToSet(queue) \subseteq ToSet(Tail(queue)) \cup {Head(queue)}
<1>1. queue \in Seq(Lawful) /\ Head(queue) \in Lawful
  BY HeadOfQueue DEF CInv, IInv
<1>2. /\ Head(queue) \in ToSet(queue)
      /\ ToSet(Tail(queue)) \subseteq ToSet(queue)
      /\ ToSet(queue) \subseteq ToSet(Tail(queue)) \cup {Head(queue)}
  BY <1>1, ToSetOfTail
<1>3. QED
  BY <1>1, <1>2 DEF CInv, Queued, Lawful, Outputs

\* Only a stub implements anything, and only its own backend.
LEMMA GlueIsBare ==
    ASSUME TypeOK, NEW output \in Plan, output.path = OutPath
    PROVE  \A b, m : <<b, m>> \in output.content.impl => StubPath(b) = OutPath
<1>1. Scaffold.impl = {} /\ \A v : GeneratedFrom(v).impl = {}
  BY DEF Scaffold, GeneratedFrom, Absent
<1>2. CASE output \in {Glue, Registry}
  BY <1>1, <1>2, Fields
<1>3. CASE output = Suite \/ \E b \in Wanted : output = Fixture(b)
  BY <1>1, <1>3 DEF Suite, Fixture, WrittenOnce
<1>4. CASE \E b \in Wanted : output = Stub(b)
  <2>1. PICK b \in Wanted : output = Stub(b)
    BY <1>4
  <2>2. StubPath(b) = OutPath /\ output.content = Backend(b, view.methods)
    BY <2>1, Fields
  <2>3. output.content.impl = {b} \X view.methods
    BY <2>2 DEF Backend, Scaffold, Absent
  <2>4. QED
    BY <2>2, <2>3
<1>5. QED
  BY <1>2, <1>3, <1>4, OutputsKnown

LEMMA PlanStays ==
    ASSUME UNCHANGED <<inputs, view, existing>>
    PROVE  /\ Plan' = Plan /\ Wanted' = Wanted
           /\ \A b : Stub(b)' = Stub(b)
BY DEF Plan, Wanted, Glue, Suite, Registry, Fixture, Stub

LEMMA SkipComplete ==
    ASSUME CInv, IInv', OutputSkipped
    PROVE  CInv'
<1> DEFINE output == Head(queue)
<1>0. /\ TypeOK /\ pc = "output" /\ queue # <<>> /\ Skipped(output) /\ queue' = Tail(queue)
      /\ UNCHANGED <<inputs, dir, pc, view, existing, checked, verdict, history>>
  BY DEF CInv, IInv, OutputSkipped
<1>1. output \in Plan
      /\ ToSet(queue') \subseteq ToSet(queue)
      /\ ToSet(queue) \subseteq ToSet(queue') \cup {output}
  BY <1>0, HeadPlanned
<1>2. Plan' = Plan /\ Wanted' = Wanted /\ Sources' = Sources
      /\ \A b : Implemented(b)' = Implemented(b) /\ Stub(b)' = Stub(b)
  BY <1>0, PlanStays DEF Sources, Implemented
<1>3. Faithful' /\ Inspected' /\ Bare'
  BY <1>0 DEF CInv, Faithful, Loads, Usable, Inspected, Bare
<1>4. Planned'
  <2> SUFFICES ASSUME WellNamed(config) PROVE Planned'
    BY <1>0 DEF Planned
  <2>1. \A o \in Plan \ ToSet(queue') : Done(o)
    <3>1. dir[output.path] \in {before[output.path], output.content}
      BY <1>0, <1>1, HeadPlanned DEF CInv, Planned, BeingWritten
    <3>2. Done(output)
      BY <1>0, <3>1 DEF Skipped, Done
    <3>3. QED
      BY <1>0, <1>1, <3>2 DEF CInv, Planned
  <2>2. Wanted # {} => \A path \in Sources : dir[path].parses
    BY <1>0 DEF CInv, Planned, BeingWritten
  <2>3. ASSUME NEW b \in Wanted
        PROVE  \/ iface \subseteq Implemented(b)
               \/ Stub(b) \in ToSet(queue') /\ b \notin existing /\ ~dir[StubPath(b)].there
    <3>1. \/ iface \subseteq Implemented(b)
          \/ Stub(b) \in ToSet(queue) /\ b \notin existing /\ ~dir[StubPath(b)].there
      BY <1>0 DEF CInv, Planned, BeingWritten
    <3>2. b \notin existing /\ ~dir[StubPath(b)].there => output # Stub(b)
      BY <1>0, Fields DEF Skipped
    <3>3. QED
      BY <1>1, <3>1, <3>2
  <2>4. \A o : Done(o)' = Done(o)
    BY <1>0 DEF Done
  <2>5. \A o \in ToSet(queue') : dir[o.path] \in {before[o.path], o.content}
    BY <1>0, <1>1 DEF CInv, Planned, BeingWritten
  <2>6. \A b \in Wanted \cap existing : Implemented(b) # {}
    BY <1>0 DEF CInv, Planned
  <2>7. QED
    BY <1>0, <1>2, <2>1, <2>2, <2>3, <2>4, <2>5, <2>6 DEF Planned
<1>5. Repeating'
  BY <1>0, <1>1 DEF CInv, Repeating, BeforeWrites, BeingWritten
<1>6. Queued'
  BY <1>0, <1>1, <1>2 DEF CInv, Queued
<1>7. QED
  BY <1>3, <1>4, <1>5, <1>6 DEF CInv

LEMMA OpenComplete ==
    ASSUME CInv, IInv', OutputOpened
    PROVE  CInv'
<1> DEFINE output == Head(queue)
<1>0. /\ TypeOK /\ pc = "output" /\ queue # <<>> /\ ~Skipped(output) /\ pc' = "writing"
      /\ dir' = [dir EXCEPT ![output.path] = Damaged] /\ dir \in [Paths -> Files]
      /\ UNCHANGED <<inputs, view, existing, checked, queue, verdict, history>>
  BY DEF CInv, IInv, OutputOpened, TypeOK
<1>1. output \in Plan /\ output \in ToSet(queue) /\ output \in Outputs /\ output.path \in Paths
      /\ ToSet(queue) \subseteq Plan
  BY <1>0, HeadPlanned DEF CInv, Queued
<1>2. Plan' = Plan /\ Wanted' = Wanted /\ \A b : Stub(b)' = Stub(b)
  BY <1>0, PlanStays
<1>3. \A path : BeingWritten(path)' <=> path = output.path
  BY <1>0 DEF BeingWritten
<1>4. dir'[output.path] = Damaged /\ \A path \in Paths : path # output.path => dir'[path] = dir[path]
  BY <1>0, <1>1
<1>5. Damaged.impl = {} /\ Damaged.there
  BY DEF Damaged, Absent
<1>6. Faithful /\ Faithful' /\ Inspected'
  BY <1>0 DEF CInv, Faithful, Loads, Usable, Inspected
<1>7. ASSUME WellNamed(config), NEW b \in Wanted
      PROVE  Implemented(b) \subseteq Implemented(b)'
  <2>1. output.path \in Sources => \A m : <<b, m>> \notin dir[output.path].impl
    <3>1. CASE output.when = "missing"
      BY <1>0, <3>1 DEF Skipped, Sources
    <3>2. CASE output = Glue
      <4>1. config.out \in {OutPath, AwayPath} /\ b \in Names /\ OutPath \in Paths
        BY <1>0, ConfigsAssumption, WantedAreNames DEF TypeOK, Arguments, Paths
      <4>2. StubPath(b) # config.out
        BY <1>0, <1>6, <1>7, WantedApart
      <4>3. config.out = OutPath => \A m \in Methods : <<b, m>> \notin dir[OutPath].impl
        BY <4>1, <4>2 DEF CInv, Bare
      <4>4. dir[OutPath].impl \subseteq Names \X Methods
        BY <1>0, <4>1 DEF Files
      <4>5. config.out = OutPath => \A m : <<b, m>> \notin dir[OutPath].impl
        BY <4>3, <4>4
      <4>6. QED
        BY <3>2, <4>1, <4>5, Fields DEF Sources
    <3>3. CASE output = Registry
      BY <3>3, Fields, PathsApart DEF Sources
    <3>4. output.when # "never"
      BY <1>0 DEF Skipped
    <3>5. QED
      BY <1>0, <1>1, <3>1, <3>2, <3>3, <3>4, OutputsKnown, Fields
  <2>2. QED
    BY <1>0, <1>1, <2>1, ImplementedGrows
<1>8. Bare'
  <2>1. OutPath \in Paths
    BY DEF Paths
  <2>2. QED
    BY <1>4, <1>5, <2>1 DEF CInv, Bare
<1>9. Planned'
  <2> SUFFICES ASSUME WellNamed(config) PROVE Planned'
    BY <1>0 DEF Planned
  <2>1. \A o \in Plan \ ToSet(queue) : Done(o)'
    <3> SUFFICES ASSUME NEW o \in Plan \ ToSet(queue) PROVE Done(o)'
      OBVIOUS
    <3>1. Done(o)
      BY <1>0 DEF CInv, Planned
    <3>2. o.path # output.path
      BY <1>0, <1>1, <1>6, OutputsApart
    <3>3. dir'[o.path] = dir[o.path]
      BY <1>0, <3>2
    <3>4. QED
      BY <1>0, <3>1, <3>3 DEF Done
  <2>2. Wanted # {} => \A path \in Sources' : dir'[path].parses \/ path = output.path
    <3> SUFFICES ASSUME Wanted # {}, NEW path \in Sources', path # output.path
                 PROVE  dir'[path].parses
      OBVIOUS
    <3>1. dir'[path] = dir[path] /\ path \in Sources
      BY <1>4 DEF Sources
    <3>2. QED
      BY <1>0, <3>1 DEF CInv, Planned, BeingWritten
  <2>3. ASSUME NEW b \in Wanted
        PROVE  \/ iface \subseteq Implemented(b)'
               \/ /\ Stub(b) \in ToSet(queue) /\ b \notin existing
                  /\ ~dir'[StubPath(b)].there \/ StubPath(b) = output.path
    <3>1. \/ iface \subseteq Implemented(b)
          \/ Stub(b) \in ToSet(queue) /\ b \notin existing /\ ~dir[StubPath(b)].there
      BY <1>0 DEF CInv, Planned, BeingWritten
    <3>2. StubPath(b) \in Paths
      BY <1>0, WantedAreNames, PathsOfBackends
    <3>3. QED
      BY <1>4, <1>7, <3>1, <3>2
  <2>4. \A o \in ToSet(queue) :
            dir'[o.path] \in {before[o.path], o.content} \/ o.path = output.path
    <3> SUFFICES ASSUME NEW o \in ToSet(queue), o.path # output.path
                 PROVE  dir'[o.path] \in {before[o.path], o.content}
      OBVIOUS
    <3>1. dir'[o.path] = dir[o.path]
      BY <1>0
    <3>2. QED
      BY <1>0, <3>1 DEF CInv, Planned, BeingWritten
  <2>5. \A b \in Wanted \cap existing : Implemented(b)' # {}
    BY <1>0, <1>7 DEF CInv, Planned
  <2>6. QED
    BY <1>0, <1>2, <1>3, <2>1, <2>2, <2>3, <2>4, <2>5 DEF Planned
<1>10. Repeating'
  <2> SUFFICES ASSUME stable, WellNamed(config)
               PROVE  /\ \A path \in Paths : dir'[path] = before[path] \/ path = output.path
                      /\ \A o \in ToSet(queue) :
                             /\ o.when = "always" => before[o.path] = o.content
                             /\ o.when = "missing" => before[o.path].there
                      /\ output.when = "always"
    BY <1>0, <1>3 DEF Repeating, BeforeWrites
  <2>1. /\ \A path \in Paths : dir[path] = before[path]
        /\ \A o \in ToSet(queue) :
               /\ o.when = "always" => before[o.path] = o.content
               /\ o.when = "missing" => before[o.path].there
    BY <1>0 DEF CInv, Repeating, BeingWritten
  <2>2. output.when = "always"
    BY <1>0, <1>1, <2>1 DEF Skipped, Outputs
  <2>3. QED
    BY <1>4, <2>1, <2>2
<1>11. Queued'
  BY <1>0, <1>1, <1>2, <1>4 DEF Queued
<1>12. QED
  BY <1>6, <1>8, <1>9, <1>10, <1>11 DEF CInv

LEMMA WriteComplete ==
    ASSUME CInv, IInv', OutputWritten
    PROVE  CInv'
<1> DEFINE output == Head(queue)
<1>0. /\ TypeOK /\ pc = "writing" /\ queue # <<>> /\ pc' = "output" /\ queue' = Tail(queue)
      /\ dir' = [dir EXCEPT ![output.path] = output.content] /\ dir \in [Paths -> Files]
      /\ UNCHANGED <<inputs, view, existing, checked, verdict, history>>
  BY DEF CInv, IInv, OutputWritten, TypeOK
<1>1. /\ output \in Plan /\ output \in ToSet(queue) /\ output \in Outputs /\ output.path \in Paths
      /\ ToSet(queue) \subseteq Plan
      /\ ToSet(queue') \subseteq ToSet(queue)
      /\ ToSet(queue) \subseteq ToSet(queue') \cup {output}
  BY <1>0, HeadPlanned DEF CInv, Queued
<1>2. Plan' = Plan /\ Wanted' = Wanted /\ \A b : Stub(b)' = Stub(b)
  BY <1>0, PlanStays
<1>3. /\ dir[output.path] = Damaged /\ dir'[output.path] = output.content
      /\ \A path \in Paths : path # output.path => dir'[path] = dir[path]
  BY <1>0, <1>1 DEF CInv, Queued
<1>4. output.content.parses /\ output.content.there
  BY <1>0, <1>1, OutputsKnown
<1>5. \A b : Implemented(b) \subseteq Implemented(b)'
  <2>1. dir[output.path].impl = {}
    BY <1>3 DEF Damaged, Absent
  <2>2. QED
    BY <1>0, <1>1, <2>1, ImplementedGrows
<1>6. Faithful /\ Faithful' /\ Inspected'
  BY <1>0 DEF CInv, Faithful, Loads, Usable, Inspected
<1>7. Bare'
  <2>1. OutPath \in Paths
    BY DEF Paths
  <2>2. CASE output.path = OutPath
    BY <1>0, <1>1, <1>3, <2>2, GlueIsBare DEF Bare
  <2>3. CASE output.path # OutPath
    BY <1>3, <2>1, <2>3 DEF CInv, Bare
  <2>4. QED
    BY <2>2, <2>3
<1>8. Planned'
  <2> SUFFICES ASSUME WellNamed(config) PROVE Planned'
    BY <1>0 DEF Planned
  <2>1. \A o \in Plan \ ToSet(queue') : Done(o)'
    <3> SUFFICES ASSUME NEW o \in Plan \ ToSet(queue') PROVE Done(o)'
      OBVIOUS
    <3>1. CASE o = output
      BY <1>3, <1>4, <3>1 DEF Done
    <3>2. CASE o # output
      <4>1. Done(o)
        BY <1>0, <1>1, <3>2 DEF CInv, Planned
      <4>2. o.path # output.path
        BY <1>0, <1>1, <1>6, <3>2, OutputsApart
      <4>3. dir'[o.path] = dir[o.path]
        BY <1>0, <4>2
      <4>4. QED
        BY <1>0, <4>1, <4>3 DEF Done
    <3>3. QED
      BY <3>1, <3>2
  <2>2. Wanted # {} => \A path \in Sources' : dir'[path].parses
    <3> SUFFICES ASSUME Wanted # {}, NEW path \in Sources'
                 PROVE  dir'[path].parses
      OBVIOUS
    <3>1. CASE path = output.path
      BY <1>3, <1>4, <3>1
    <3>2. CASE path # output.path
      <4>1. dir'[path] = dir[path] /\ path \in Sources
        BY <1>3, <3>2 DEF Sources
      <4>2. QED
        BY <1>0, <3>2, <4>1 DEF CInv, Planned, BeingWritten
    <3>3. QED
      BY <3>1, <3>2
  <2>3. ASSUME NEW b \in Wanted
        PROVE  \/ iface \subseteq Implemented(b)'
               \/ Stub(b) \in ToSet(queue') /\ b \notin existing /\ ~dir'[StubPath(b)].there
    <3>0. StubPath(b) \in Paths /\ b \in Names /\ Stub(b) \in Plan
      BY <1>0, WantedAreNames, PathsOfBackends DEF Plan
    <3>1. CASE output = Stub(b)
      <4>1. StubPath(b) \in Sources' /\ dir'[StubPath(b)] = Backend(b, iface)
        <5>1. output.path = StubPath(b) /\ output.content = Backend(b, iface)
          BY <1>0, <3>1, Fields DEF CInv, Faithful
        <5>2. StubPath(b) # AwayPath /\ ~IsTestFile(StubPath(b))
          BY <1>0, <1>6, <3>0, PathsApart, WantedApart
        <5>3. QED
          BY <1>3, <1>4, <3>0, <5>1, <5>2 DEF Sources
      <4>2. iface \subseteq Methods
        BY <1>0, ConfigsAssumption DEF TypeOK
      <4>3. \A m \in iface : <<b, m>> \in Backend(b, iface).impl
        BY DEF Backend, Scaffold, Absent
      <4>4. iface \subseteq Implemented(b)'
        BY <4>1, <4>2, <4>3 DEF Implemented
      <4>5. QED
        BY <4>4
    <3>2. CASE output # Stub(b)
      <4>1. output.path # StubPath(b)
        BY <1>0, <1>1, <1>6, <3>0, <3>2, Fields, OutputsApart
      <4>2. \/ iface \subseteq Implemented(b)
            \/ Stub(b) \in ToSet(queue) /\ b \notin existing /\ ~dir[StubPath(b)].there
        BY <1>0, <4>1 DEF CInv, Planned, BeingWritten
      <4>3. QED
        BY <1>1, <1>3, <1>5, <3>0, <3>2, <4>1, <4>2
    <3>3. QED
      BY <3>1, <3>2
  <2>4. \A o \in ToSet(queue') : dir'[o.path] \in {before[o.path], o.content}
    <3> SUFFICES ASSUME NEW o \in ToSet(queue')
                 PROVE  dir'[o.path] \in {before[o.path], o.content}
      OBVIOUS
    <3>1. CASE o = output
      BY <1>3, <3>1
    <3>2. CASE o # output
      <4>1. o.path # output.path
        BY <1>0, <1>1, <1>6, <3>2, OutputsApart
      <4>2. dir'[o.path] = dir[o.path]
        BY <1>0, <4>1
      <4>3. QED
        BY <1>0, <1>1, <4>1, <4>2 DEF CInv, Planned, BeingWritten
    <3>3. QED
      BY <3>1, <3>2
  <2>5. \A b \in Wanted \cap existing : Implemented(b)' # {}
    BY <1>0, <1>5 DEF CInv, Planned
  <2>6. QED
    BY <1>0, <1>2, <2>1, <2>2, <2>3, <2>4, <2>5 DEF Planned
<1>9. Repeating'
  <2> SUFFICES ASSUME stable, WellNamed(config)
               PROVE  /\ \A path \in Paths : dir'[path] = before[path]
                      /\ \A o \in ToSet(queue') :
                             /\ o.when = "always" => before[o.path] = o.content
                             /\ o.when = "missing" => before[o.path].there
    BY <1>0 DEF Repeating, BeforeWrites
  <2>1. /\ \A path \in Paths : dir[path] = before[path] \/ path = output.path
        /\ \A o \in ToSet(queue) :
               /\ o.when = "always" => before[o.path] = o.content
               /\ o.when = "missing" => before[o.path].there
        /\ output.when = "always"
    BY <1>0 DEF CInv, Repeating, BeingWritten
  <2>2. dir'[output.path] = before[output.path]
    BY <1>1, <1>3, <2>1
  <2>3. QED
    BY <1>1, <1>3, <2>1, <2>2
<1>10. Queued'
  BY <1>0, <1>1, <1>2 DEF Queued
<1>11. QED
  BY <1>6, <1>7, <1>8, <1>9, <1>10 DEF CInv

LEMMA BreakOffComplete ==
    ASSUME CInv, IInv', WriteBreaksOff
    PROVE  CInv'
<1>0. TypeOK /\ pc = "writing" /\ queue # <<>> /\ dir \in [Paths -> Files]
  BY DEF CInv, IInv, WriteBreaksOff, TypeOK
<1>1. PICK file \in Leftovers(Head(queue).content) : dir' = [dir EXCEPT ![Head(queue).path] = file]
  BY DEF WriteBreaksOff
<1>2. Bare'
  <2>1. OutPath \in Paths
    BY DEF Paths
  <2>2. CASE Head(queue).path = OutPath
    <3>1. Head(queue).content \in Files
          /\ \A b, m : <<b, m>> \in Head(queue).content.impl => StubPath(b) = OutPath
      BY <1>0, <2>2, GlueIsBare, HeadPlanned DEF Outputs
    <3>2. Damaged.impl = {}
      BY DEF Damaged, Absent
    <3>3. file.impl \subseteq Head(queue).content.impl
      BY <3>1, <3>2 DEF Leftovers, Files
    <3>4. dir'[OutPath] = file
      BY <1>0, <1>1, <2>1, <2>2
    <3>5. QED
      BY <3>1, <3>3, <3>4 DEF Bare
  <2>3. CASE Head(queue).path # OutPath
    BY <1>0, <1>1, <2>1, <2>3 DEF CInv, Bare
  <2>4. QED
    BY <2>2, <2>3
<1>3. QED
  BY <1>2, EndKeepsComplete DEF WriteBreaksOff

LEMMA EditsComplete ==
    ASSUME CInv, IInv', Application
    PROVE  CInv'
<1>0. /\ TypeOK /\ pc = "idle" /\ pc' = "idle" /\ stable' = FALSE /\ existing' = existing
      /\ dir \in [Paths -> Files]
  BY DEF CInv, IInv, TypeOK, Application, EditInterface, EditConfig, EditFile, Edit
<1>1. Bare'
  <2>1. OutPath \in Paths
    BY DEF Paths
  <2>2. CASE UNCHANGED dir
    BY <2>2 DEF CInv, Bare
  <2>3. ASSUME NEW b \in Names, NEW M, NEW path \in {StubPath(b), OtherPath},
               EditFile(path, Backend(b, M))
        PROVE  Bare'
    <3>1. path = OutPath => StubPath(b) = OutPath
      BY PathsApart DEF OutPath, OtherPath, IsTestFile
    <3>2. \A c, m : <<c, m>> \in Backend(b, M).impl => c = b
      BY DEF Backend, Scaffold, Absent
    <3>3. dir' = [dir EXCEPT ![path] = Backend(b, M)]
      BY <2>3 DEF EditFile
    <3>4. CASE path = OutPath
      BY <1>0, <2>1, <3>1, <3>2, <3>3, <3>4 DEF Bare
    <3>5. CASE path # OutPath
      BY <1>0, <2>1, <3>3, <3>5 DEF CInv, Bare
    <3>6. QED
      BY <3>4, <3>5
  <2>4. ASSUME NEW path \in Paths, NEW file \in {Absent, Damaged}, EditFile(path, file)
        PROVE  Bare'
    <3>1. Damaged.impl = {} /\ Absent.impl = {}
      BY DEF Damaged, Absent
    <3>2. QED
      BY <1>0, <2>1, <2>4, <3>1 DEF EditFile, CInv, Bare
  <2>5. QED
    BY <2>2, <2>3, <2>4 DEF Application, EditInterface, EditConfig
<1>2. QED
  BY <1>0, <1>1 DEF CInv, Faithful, Inspected, Queued, Planned, Repeating

LEMMA NextComplete ==
    ASSUME CInv, [Next]_vars
    PROVE  CInv'
<1>0. IInv /\ IInv' /\ TypeOK
  BY NextInv DEF CInv, IInv
<1>1. CASE UNCHANGED vars
  <2>1. Complete' = Complete /\ Plan' = Plan /\ Wanted' = Wanted
        /\ Sources' = Sources /\ \A b : Implemented(b)' = Implemented(b) /\ Stub(b)' = Stub(b)
    BY <1>1, StaysComplete, PlanStays DEF Sources, Implemented
  <2>2. Faithful' /\ Inspected' /\ Bare'
    BY <1>1, <2>1 DEF CInv, Faithful, Loads, Usable, Inspected, Bare
  <2>3. Planned' /\ Queued'
    BY <1>1, <2>1 DEF CInv, Queued, Planned, Done, BeingWritten
  <2>4. Repeating'
    BY <1>1, <2>1 DEF CInv, Repeating, BeingWritten
  <2>5. QED
    BY <1>0, <2>2, <2>3, <2>4 DEF CInv
<1>2. CASE Start
  <2>1. pc = "idle" /\ pc' = "arguments" /\ UNCHANGED <<inputs, dir, existing, stable>>
    BY <1>2 DEF Start
  <2>2. Complete' = Complete
    BY <2>1, StaysComplete
  <2>3. QED
    BY <1>0, <2>1, <2>2 DEF CInv, Faithful, Inspected, Queued, Planned, Bare, Repeating,
       BeforeWrites
<1>3. CASE ReadArguments
  <2>0. pc = "arguments" /\ UNCHANGED dir
    BY <1>3 DEF ReadArguments
  <2>1. CASE End("arguments", <<>>)
    BY <1>0, <2>0, <2>1, EndKeepsComplete DEF Refusals, BeforeWrites, CInv, Bare
  <2>2. CASE /\ Loads /\ pc' = "parse"
             /\ UNCHANGED <<inputs, view, existing, checked, queue, verdict, history>>
    <3>1. Faithful'
      BY <2>2 DEF Faithful, Loads
    <3>2. QED
      BY <1>0, <2>0, <2>2, <3>1, PreflightSafe
  <2>3. QED
    BY <1>3, <2>1, <2>2 DEF ReadArguments, Loads
<1>4. CASE ParseInterface
  <2>0. pc = "parse" /\ UNCHANGED dir
    BY <1>4 DEF ParseInterface
  <2>1. CASE End("interface", <<>>)
    BY <1>0, <2>0, <2>1, EndKeepsComplete DEF Refusals, BeforeWrites, CInv, Bare
  <2>2. CASE /\ iface \cap Unsupported = {} /\ view' = [view EXCEPT !.methods = iface]
             /\ pc' = "resolve" /\ UNCHANGED <<inputs, existing, checked, queue, verdict, history>>
    <3>1. Faithful'
      BY <1>0, <2>0, <2>2 DEF CInv, Faithful, Loads, TypeOK
    <3>2. QED
      BY <1>0, <2>0, <2>2, <3>1, PreflightSafe
  <2>3. QED
    BY <1>4, <2>1, <2>2 DEF ParseInterface
<1>5. CASE ResolveBackends
  <2>0. pc = "resolve" /\ UNCHANGED dir
    BY <1>5 DEF ResolveBackends
  <2>1. CASE End("backends", <<>>)
    BY <1>0, <2>0, <2>1, EndKeepsComplete DEF Refusals, BeforeWrites, CInv, Bare
  <2>2. CASE /\ Usable /\ view' = [view EXCEPT !.backends = NamesOf(config.specs)]
             /\ pc' = "inspect" /\ UNCHANGED <<inputs, existing, checked, queue, verdict, history>>
    <3>1. Faithful'
      BY <1>0, <2>0, <2>2 DEF CInv, Faithful, Loads, Usable, TypeOK
    <3>2. existing = {} /\ checked = 0
      BY <2>0 DEF CInv, Inspected, IInv
    <3>3. Inspected'
      BY <2>2, <3>2 DEF Inspected
    <3>4. stable' /\ WellNamed(config') => Complete'
      BY <2>0, <2>2, StaysComplete DEF CInv, Repeating, BeforeWrites
    <3>5. Repeating'
      BY <2>2, <3>2, <3>4 DEF Repeating
    <3>6. QED
      BY <1>0, <2>0, <2>2, <3>1, <3>3, <3>5 DEF CInv, Queued, Planned, Bare
  <2>3. QED
    BY <1>5, <2>1, <2>2 DEF ResolveBackends, Usable
<1>6. CASE Killed
  BY <1>0, <1>6, EndKeepsComplete DEF Killed, CInv, Bare
<1>7. CASE Succeed
  BY <1>0, <1>7, EndKeepsComplete, SuccessCompletes DEF Succeed, CInv, Bare
<1>8. QED
  BY <1>0, <1>1, <1>2, <1>3, <1>4, <1>5, <1>6, <1>7, InspectComplete, PlanComplete, SkipComplete,
     OpenComplete, WriteComplete, BreakOffComplete, EditsComplete DEF Next, Command

----------------------------------------------------------------------------
(* What a run that succeeds leaves behind.                                 *)

\* The second inductive invariant: a run is faithful to what it read, owes
\* only outputs that are still queued, and over a complete directory repeats
\* what is there.
THEOREM CompletenessInvariant == Spec => []CInv
BY InitComplete, NextComplete, PTL DEF Spec

\* A run ends well only when it has written everything.
LEMMA SuccessLeavesAll ==
    ASSUME CInv, [Next]_vars, pc # "idle", result' = "ok", WellNamed(config)
    PROVE  LET backends == ToSet(NamesOf(config.specs))
               tests == {SuitePath} \cup {FixturePath(b) : b \in backends}
           IN  /\ dir'[config.out] = GeneratedFrom([methods |-> iface, backends |-> backends])
               /\ backends # {} => \A path \in Sources' : dir'[path].parses
               /\ \A b \in backends : iface \subseteq Implemented(b)'
               /\ config.test =>
                      /\ dir'[RegistryPath].view.backends = backends
                      /\ \A path \in tests :
                             dir'[path] = IF before[path].there THEN before[path] ELSE Scaffold
<1> DEFINE backends == ToSet(NamesOf(config.specs))
           tests == {SuitePath} \cup {FixturePath(b) : b \in backends}
<1>1. Succeed
  <2>1. result # "ok"
    BY DEF CInv, IInv
  <2>2. QED
    BY <2>1 DEF Next, Command, Start, ReadArguments, ParseInterface, ResolveBackends, Inspect,
       PlanOutputs, OutputSkipped, OutputOpened, OutputWritten, WriteBreaksOff, Killed, End,
       Application, EditInterface, EditConfig, EditFile, Edit
<1>2. pc = "output" /\ queue = <<>> /\ dir' = dir
  BY <1>1 DEF Succeed
<1>3. Complete /\ \A output \in Plan : Done(output)
  BY <1>2, SuccessCompletes
<1>4. Sources' = Sources /\ \A b : Implemented(b)' = Implemented(b)
  BY <1>2 DEF Sources, Implemented
<1>5. \A v : GeneratedFrom(v).view = v
  BY DEF GeneratedFrom, Scaffold, Absent
<1>6. ASSUME config.test, NEW path \in tests
      PROVE  dir[path] = IF before[path].there THEN before[path] ELSE Scaffold
  <2>1. TypeOK /\ Faithful /\ Wanted = backends
    BY <1>2 DEF CInv, IInv, Faithful, Wanted
  <2>2. PICK output \in Plan : /\ output.path = path /\ output.when = "missing"
                               /\ output.content = Scaffold
    <3>1. Suite \in Plan /\ \A b \in Wanted : Fixture(b) \in Plan
      BY <1>6 DEF Plan
    <3>2. Suite.content = Scaffold /\ \A b : Fixture(b).content = Scaffold
      BY DEF Suite, Fixture, WrittenOnce
    <3>3. QED
      BY <1>6, <2>1, <3>1, <3>2, Fields
  <2>3. path \in Kept
    <3>1. config.out \in {OutPath, AwayPath}
      BY <2>1, ConfigsAssumption DEF TypeOK, Arguments
    <3>2. Wanted \subseteq Names
      BY <2>1, WantedAreNames
    <3>3. path \in Paths /\ IsTestFile(path)
      BY <1>6, <2>1, <3>2, PathsOfBackends, PathsApart DEF Paths
    <3>4. path # RegistryPath
      BY <1>2, <1>6, <2>1, WantedApart, PathsApart
    <3>5. QED
      BY <3>1, <3>3, <3>4, PathsApart DEF Kept
  <2>4. before[path].there => dir[path] = before[path]
    BY <1>2, <2>3 DEF CInv, IInv
  <2>5. before[path].there \/ dir[path] = Scaffold
    BY <1>3, <2>2 DEF Done
  <2>6. QED
    BY <2>4, <2>5
<1>7. QED
  BY <1>2, <1>3, <1>4, <1>5, <1>6 DEF Complete

\* main.go:36-229: when a run succeeds the glue mirrors the interface and the
\* backends, every backend implements every method, and with tests the registry
\* lists the backends, and the suite and the fixtures are whole or as the run
\* found them.
THEOREM SuccessIsAlwaysComplete == Spec => SuccessIsComplete
<1>1. CInv /\ [Next]_vars =>
          [pc # "idle" /\ result' = "ok" /\ WellNamed(config) =>
             LET backends == ToSet(NamesOf(config.specs))
                 tests == {SuitePath} \cup {FixturePath(b) : b \in backends}
             IN  /\ dir'[config.out] = GeneratedFrom([methods |-> iface, backends |-> backends])
                 /\ backends # {} => \A path \in Sources' : dir'[path].parses
                 /\ \A b \in backends : iface \subseteq Implemented(b)'
                 /\ config.test =>
                        /\ dir'[RegistryPath].view.backends = backends
                        /\ \A path \in tests :
                               dir'[path] = IF before[path].there THEN before[path]
                                            ELSE Scaffold]_vars
  BY SuccessLeavesAll
<1>2. QED
  BY <1>1, CompletenessInvariant, PTL DEF Spec, SuccessIsComplete

\* A run over what an undisturbed success left behind.
LEMMA RerunIsQuiet ==
    ASSUME CInv, [Next]_vars, stable, pc # "idle", pc' = "idle", WellNamed(config)
    PROVE  /\ result' \in Refusals => result' = "foreign" /\ iface = {}
           /\ result' = "ok" => dir' = before
<1>0. IInv /\ TypeOK /\ IInv'
  BY NextInv DEF CInv, IInv
<1>1. pc \in BeforeWrites => Complete
  BY DEF CInv, Repeating
<1>2. CASE ReadArguments
  BY <1>1, <1>2 DEF ReadArguments, Complete, Loads, BeforeWrites
<1>3. CASE ParseInterface
  BY <1>1, <1>3 DEF ParseInterface, Complete, BeforeWrites
<1>4. CASE ResolveBackends
  BY <1>1, <1>4 DEF ResolveBackends, Complete, Usable, BeforeWrites
<1>5. CASE Inspect
  <2> DEFINE b == view.backends[checked + 1]
  <2>1. pc = "inspect" /\ checked < Len(view.backends) /\ Complete
    BY <1>1, <1>5 DEF Inspect, BeforeWrites
  <2>2. view.methods = iface /\ view.backends = NamesOf(config.specs)
    BY <2>1 DEF CInv, Faithful
  <2>3. b \in ToSet(NamesOf(config.specs))
    <3>1. checked + 1 \in DOMAIN view.backends
      BY <1>0, <2>1, LenProperties DEF TypeOK
    <3>2. QED
      BY <2>2, <3>1 DEF ToSet
  <2>4. (\A path \in Sources : dir[path].parses) /\ iface \subseteq Implemented(b)
    BY <2>1, <2>3 DEF Complete
  <2>5. CASE End("foreign", b) /\ Implemented(b) = {}
    BY <2>4, <2>5 DEF End
  <2>6. QED
    BY <1>5, <2>1, <2>2, <2>4, <2>5 DEF Inspect
<1>6. CASE Succeed
  <2>1. pc = "output" /\ dir' = dir /\ result' = "ok"
    BY <1>6 DEF Succeed, End
  <2>2. \A path \in Paths : dir[path] = before[path]
    BY <2>1 DEF CInv, Repeating, BeingWritten
  <2>3. dir = before
    BY <1>0, <2>2 DEF TypeOK
  <2>4. QED
    BY <2>1, <2>3 DEF Refusals
<1>7. CASE WriteBreaksOff \/ Killed
  BY <1>7 DEF WriteBreaksOff, Killed, End, Refusals
<1>8. QED
  BY <1>2, <1>3, <1>4, <1>5, <1>6, <1>7 DEF Next, Command, Start, PlanOutputs, OutputSkipped,
     OutputOpened, OutputWritten, Application, EditInterface, EditConfig, EditFile, Edit

\* main.go:36-229: the command run again on what it left behind is refused only
\* over an interface without methods, and if it gets to its end every file is
\* as it was.
THEOREM RerunsChangeNothing == Spec => RerunChangesNothing
<1>1. CInv /\ [Next]_vars =>
          [stable /\ pc # "idle" /\ pc' = "idle" /\ WellNamed(config) =>
              /\ result' \in Refusals => result' = "foreign" /\ iface = {}
              /\ result' = "ok" => dir' = before]_vars
  BY RerunIsQuiet
<1>2. QED
  BY <1>1, CompletenessInvariant, PTL DEF Spec, RerunChangesNothing
=============================================================================
