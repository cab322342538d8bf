------------------------------ MODULE Generator ------------------------------
(***************************************************************************)
(* cmd/dbstore-gen: one run of the command after another over the package  *)
(* directory of a domain interface, with the application's edits between   *)
(* the runs and a kill, or an I/O error, anywhere inside one.              *)
(*                                                                         *)
(* A Go file is what the command can tell of it: whether it parses, the    *)
(* backend types and backend methods it declares, and, of a file the       *)
(* command generates, what it was generated from.                          *)
(***************************************************************************)
EXTENDS Naturals, Sequences, SequencesExt

CONSTANTS
    Names,        \* backend names, each the sequence of its words: "a_b" is <<"a", "b">>
    Methods,      \* method names
    Unsupported,  \* the methods parseMethod rejects
    Interfaces,   \* method sets the domain interface may have
    Configs,      \* what the command line may ask for, see Arguments
    MaxEdits      \* bound: edits of the application

\* A -backend flag or an entry of backends:.  ok: its name and adapter are
\* not empty, the name is an identifier and the adapter loads and exports
\* Handle and Source.
Specs == [name : Names, ok : BOOLEAN]

\* The files <source base>_<words>.go.
OutPath == <<"gen">>
SuitePath == <<"compliance", "test">>
RegistryPath == <<"compliance", "gen", "test">>
StubPath(b) == b
FixturePath(b) == b \o <<"test">>
OtherPath == <<"other">>      \* where the application may move a backend to
AwayPath == <<"..", "away">>  \* a file of another directory, for -out

IsTestFile(path) == Last(path) = "test"

\* A command line.  file: -config, rather than -interface and -backend; loads:
\* it names an interface and a source, once, and the config file can be read
\* and has no field the command does not know; out: -out, or its default.
Arguments == [specs : Seq(Specs), test : BOOLEAN, file : BOOLEAN, loads : BOOLEAN,
              out : {OutPath, AwayPath}]

ASSUME ConfigsAssumption ==
    /\ Unsupported \subseteq Methods
    /\ Interfaces \subseteq SUBSET Methods
    /\ Configs \subseteq Arguments
    /\ MaxEdits \in Nat

\* A name is an identifier, so none leads out of the directory; it may be gen,
\* compliance or test (WellNamed says what comes of that).
ASSUME NamesAssumption ==
    \A b \in Names : b \in Seq(STRING) \ {<<>>} /\ b # AwayPath

Paths == {OutPath, SuitePath, RegistryPath, OtherPath, AwayPath}
             \cup {StubPath(b) : b \in Names} \cup {FixturePath(b) : b \in Names}

\* What a run generates from: the interface and the backends.
Views == [methods : SUBSET Methods, backends : SUBSET Names]
NoView == [methods |-> {}, backends |-> {}]

Files == [there : BOOLEAN, parses : BOOLEAN, types : SUBSET Names,
          impl : SUBSET (Names \X Methods), view : Views]

Absent == [there |-> FALSE, parses |-> TRUE, types |-> {}, impl |-> {}, view |-> NoView]
Damaged == [Absent EXCEPT !.there = TRUE, !.parses = FALSE]
Scaffold == [Absent EXCEPT !.there = TRUE]
GeneratedFrom(v) == [Scaffold EXCEPT !.view = v]
Backend(b, M) == [Scaffold EXCEPT !.types = {b}, !.impl = {b} \X M]

VARIABLES
    iface,      \* the methods of the domain interface
    config,     \* the configuration
    dir,        \* the package directory
    pc,         \* next step of the run, or idle
    view,       \* what the run read: methods, and the backends in order
    existing,   \* backends preflight found implemented
    checked,    \* how many backends preflight has looked at
    queue,      \* the outputs still to be written, in order
    result,     \* how the last run ended
    blamed,     \* the backend an error was about
    before,     \* dir when the run under way started
    stable,     \* nothing has happened since the last run that succeeded
    edits       \* how many edits the application has made

inputs == <<iface, config>>
run == <<pc, view, existing, checked, queue>>
verdict == <<result, blamed>>
history == <<before, stable, edits>>
vars == <<inputs, dir, run, verdict, history>>

Refusals == {"arguments", "backends", "interface", "unparsable", "missing", "foreign"}
Results == Refusals \cup {"none", "ok", "brokenOff"}

\* when it is written: always, when it is missing, or never.
Outputs == [path : Paths, when : {"always", "missing", "never"}, content : Files]

TypeOK ==
    /\ iface \in Interfaces
    /\ config \in Configs
    /\ dir \in [Paths -> Files]
    /\ pc \in {"idle", "arguments", "parse", "resolve", "inspect", "output", "writing"}
    /\ view \in [methods : SUBSET Methods, backends : Seq(Names)]
    /\ existing \in SUBSET Names
    /\ checked \in 0..Len(view.backends)
    /\ queue \in Seq(Outputs)
    /\ result \in Results
    /\ blamed \in Names \cup {<<>>}
    /\ before \in [Paths -> Files]
    /\ stable \in BOOLEAN
    /\ edits \in 0..MaxEdits

EmptyDir == [path \in Paths |-> Absent]
NothingRead == [methods |-> {}, backends |-> <<>>]

Init ==
    /\ iface \in Interfaces
    /\ config \in Configs
    /\ dir = EmptyDir
    /\ pc = "idle"
    /\ view = NothingRead
    /\ existing = {}
    /\ checked = 0
    /\ queue = <<>>
    /\ result = "none"
    /\ blamed = <<>>
    /\ before = EmptyDir
    /\ stable = FALSE
    /\ edits = 0

----------------------------------------------------------------------------
(* A run.                                                                  *)

Start ==
    /\ pc = "idle"
    /\ pc' = "arguments"
    /\ before' = dir
    /\ result' = "none" /\ blamed' = <<>>
    /\ UNCHANGED <<inputs, dir, view, existing, checked, queue, stable, edits>>

\* Mutation: a loop counter survives the run.
EndKeepingCount(outcome, b) ==
    /\ pc' = "idle"
    /\ view' = NothingRead
    /\ existing' = {} /\ checked' = checked /\ queue' = <<>>
    /\ result' = outcome /\ blamed' = b
    /\ stable' = (outcome = "ok" \/ (outcome \in Refusals /\ stable))
    /\ before' = EmptyDir
    /\ UNCHANGED <<inputs, edits>>

\* run returns; its variables are gone.
End(outcome, b) ==
    /\ pc' = "idle"
    /\ view' = NothingRead
    /\ existing' = {} /\ checked' = 0 /\ queue' = <<>>
    /\ result' = outcome /\ blamed' = b
    /\ stable' = (outcome = "ok" \/ (outcome \in Refusals /\ stable))
    /\ before' = EmptyDir
    /\ UNCHANGED <<inputs, edits>>

NamesOf(specs) == [i \in DOMAIN specs |-> specs[i].name]

\* The flags, and loadConfig: a file must list a backend and no name twice.
ReadArguments ==
    /\ pc = "arguments"
    /\ IF ~config.loads \/ (config.file /\ (config.specs = <<>> \/ ~IsInjective(NamesOf(config.specs))))
       THEN End("arguments", <<>>)
       ELSE /\ pc' = "parse"
            /\ UNCHANGED <<inputs, view, existing, checked, queue, verdict, history>>
    /\ UNCHANGED dir

\* parseInterface: one method outside the v1 signatures refuses them all.
ParseInterface ==
    /\ pc = "parse"
    /\ IF iface \cap Unsupported # {}
       THEN End("interface", <<>>)
       ELSE /\ view' = [view EXCEPT !.methods = iface]
            /\ pc' = "resolve"
            /\ UNCHANGED <<inputs, existing, checked, queue, verdict, history>>
    /\ UNCHANGED dir

\* Mutation: the output file is opened before the backends are inspected.
ResolveBackendsOpening ==
    /\ pc = "resolve"
    /\ view' = [view EXCEPT !.backends = NamesOf(config.specs)]
    /\ dir' = [dir EXCEPT ![OutPath] = Damaged]
    /\ pc' = "inspect"
    /\ UNCHANGED <<inputs, existing, checked, queue, verdict, history>>

\* parseBackendSpec and resolveBackend for each spec; a name may not repeat.
ResolveBackends ==
    /\ pc = "resolve"
    /\ IF (\A i \in DOMAIN config.specs : config.specs[i].ok)
             /\ IsInjective(NamesOf(config.specs))
       THEN /\ view' = [view EXCEPT !.backends = NamesOf(config.specs)]
            /\ pc' = "inspect"
            /\ UNCHANGED <<inputs, existing, checked, queue, verdict, history>>
       ELSE End("backends", <<>>)
    /\ UNCHANGED dir

\* The files inspectBackend reads: every Go file that is no test file.
Sources == {path \in Paths \ {AwayPath} : dir[path].there /\ ~IsTestFile(path)}

\* The methods they declare with b's backend type as their receiver.
Implemented(b) == {m \in Methods : \E path \in Sources : <<b, m>> \in dir[path].impl}

\* Mutation: a backend that exists is taken to be complete.
InspectIncomplete ==
    /\ pc = "inspect"
    /\ checked < Len(view.backends)
    /\ LET b == view.backends[checked + 1] IN
       IF \E path \in Sources : ~dir[path].parses THEN End("unparsable", b)
       ELSE IF Implemented(b) = {} /\ dir[StubPath(b)].there THEN End("foreign", b)
       ELSE /\ checked' = checked + 1
            /\ existing' = IF Implemented(b) # {} THEN existing \cup {b} ELSE existing
            /\ UNCHANGED <<inputs, pc, view, queue, verdict, history>>
    /\ UNCHANGED dir

\* The preflight loop, one backend a step: an implementation must be
\* complete, and without one the stub's file must be free.
Inspect ==
    /\ pc = "inspect"
    /\ checked < Len(view.backends)
    /\ LET b == view.backends[checked + 1] IN
       IF \E path \in Sources : ~dir[path].parses THEN End("unparsable", b)
       ELSE IF Implemented(b) # {} /\ ~(view.methods \subseteq Implemented(b))
       THEN End("missing", b)
       ELSE IF Implemented(b) = {} /\ dir[StubPath(b)].there THEN End("foreign", b)
       ELSE /\ checked' = checked + 1
            /\ existing' = IF Implemented(b) # {} THEN existing \cup {b} ELSE existing
            /\ UNCHANGED <<inputs, pc, view, queue, verdict, history>>
    /\ UNCHANGED dir

WrittenAlways(path, content) == [path |-> path, when |-> "always", content |-> content]
WrittenOnce(path, content) == [path |-> path, when |-> "missing", content |-> content]

\* The glue, the tests if they are asked for, and a stub for every backend
\* but those preflight found.
OutputsOf(v, found, out, test) ==
    LET glue == GeneratedFrom([methods |-> v.methods, backends |-> ToSet(v.backends)])
        registry == GeneratedFrom([methods |-> {}, backends |-> ToSet(v.backends)])
        fixture(b) == WrittenOnce(FixturePath(b), Scaffold)
        stub(b) == [WrittenOnce(StubPath(b), Backend(b, v.methods))
                       EXCEPT !.when = IF b \in found THEN "never" ELSE "missing"]
        each(op(_), s) == [i \in DOMAIN s |-> op(s[i])]
        tests == <<WrittenOnce(SuitePath, Scaffold)>> \o each(fixture, v.backends)
                     \o <<WrittenAlways(RegistryPath, registry)>>
    IN  <<WrittenAlways(out, glue)>>
            \o (IF test THEN tests ELSE <<>>)
            \o each(stub, v.backends)

PlanOutputs ==
    /\ pc = "inspect"
    /\ checked = Len(view.backends)
    /\ queue' = OutputsOf(view, existing, config.out, config.test)
    /\ pc' = "output"
    /\ UNCHANGED <<inputs, dir, view, existing, checked, verdict, history>>

Skipped(output) ==
    output.when = "never" \/ (output.when = "missing" /\ dir[output.path].there)

\* The backend is implemented, or writeIfMissing finds the file there.
OutputSkipped ==
    /\ pc = "output" /\ queue # <<>>
    /\ Skipped(Head(queue))
    /\ queue' = Tail(queue)
    /\ UNCHANGED <<inputs, dir, pc, view, existing, checked, verdict, history>>

\* Mutation: writeIfMissing does not look.
OutputOpenedBlindly ==
    /\ pc = "output" /\ queue # <<>> /\ Head(queue).when # "never"
    /\ dir' = [dir EXCEPT ![Head(queue).path] = Damaged]
    /\ pc' = "writing"
    /\ UNCHANGED <<inputs, view, existing, checked, queue, verdict, history>>

\* os.WriteFile creates or truncates the file ...
OutputOpened ==
    /\ pc = "output" /\ queue # <<>>
    /\ ~Skipped(Head(queue))
    /\ dir' = [dir EXCEPT ![Head(queue).path] = Damaged]
    /\ pc' = "writing"
    /\ UNCHANGED <<inputs, view, existing, checked, queue, verdict, history>>

\* Mutation: what was rendered is not written.
OutputWrittenEmpty ==
    /\ pc = "writing"
    /\ dir' = [dir EXCEPT ![Head(queue).path] = Scaffold]
    /\ queue' = Tail(queue)
    /\ pc' = "output"
    /\ UNCHANGED <<inputs, view, existing, checked, verdict, history>>

\* ... and fills it.
OutputWritten ==
    /\ pc = "writing"
    /\ dir' = [dir EXCEPT ![Head(queue).path] = Head(queue).content]
    /\ queue' = Tail(queue)
    /\ pc' = "output"
    /\ UNCHANGED <<inputs, view, existing, checked, verdict, history>>

\* What a write that breaks off can leave: a file that does not parse, or
\* one cut between two declarations.
Leftovers(content) ==
    {Damaged} \cup {[content EXCEPT !.impl = I, !.view = NoView] : I \in SUBSET content.impl}

\* An I/O error, or a kill, in the middle of a write.
WriteBreaksOff ==
    /\ pc = "writing"
    /\ \E file \in Leftovers(Head(queue).content) :
           dir' = [dir EXCEPT ![Head(queue).path] = file]
    /\ End("brokenOff", <<>>)

\* A kill between two file operations, or an I/O error at the next one.
Killed ==
    /\ pc \notin {"idle", "writing"}
    /\ End("brokenOff", <<>>)
    /\ UNCHANGED dir

Succeed ==
    /\ pc = "output" /\ queue = <<>>
    /\ End("ok", <<>>)
    /\ UNCHANGED dir

----------------------------------------------------------------------------
(* The application between two runs.                                       *)

Edit ==
    /\ pc = "idle"
    /\ edits < MaxEdits
    /\ edits' = edits + 1
    /\ stable' = FALSE
    /\ result' = "none" /\ blamed' = <<>>
    /\ UNCHANGED <<run, before>>

EditInterface(M) ==
    /\ Edit /\ M # iface
    /\ iface' = M
    /\ UNCHANGED <<config, dir>>

EditConfig(c) ==
    /\ Edit /\ c # config
    /\ config' = c
    /\ UNCHANGED <<iface, dir>>

\* Backends are written, completed and moved by hand; files are deleted and
\* left half edited.
EditFile(path, file) ==
    /\ Edit /\ file # dir[path]
    /\ dir' = [dir EXCEPT ![path] = file]
    /\ UNCHANGED inputs

Application ==
    \/ \E M \in Interfaces : EditInterface(M)
    \/ \E c \in Configs : EditConfig(c)
    \/ \E b \in Names, M \in SUBSET (Methods \ Unsupported) :
           \E path \in {StubPath(b), OtherPath} : EditFile(path, Backend(b, M))
    \/ \E path \in Paths : dir[path].there /\ \E file \in {Absent, Damaged} : EditFile(path, file)

Command ==
    \/ Start \/ ReadArguments \/ ParseInterface \/ ResolveBackends \/ Inspect \/ PlanOutputs
    \/ OutputSkipped \/ OutputOpened \/ OutputWritten \/ WriteBreaksOff
    \/ Killed \/ Succeed

Next == Command \/ Application

Spec == Init /\ [][Next]_vars

----------------------------------------------------------------------------
(* Properties.                                                             *)

\* No run, complete or broken off, changes a file it found there, other than
\* the file of -out and the registry: backends, suite and fixtures are the
\* application's from the moment they exist (main.go:207-229).
ApplicationFilesKept ==
    [][pc # "idle" =>
          \A path \in Paths \ {config.out, RegistryPath} :
              before[path].there => dir'[path] = dir[path]]_vars

\* A run that refuses (an unreadable config file, an unusable backend, an
\* unsupported method, a file that does not parse, an incomplete
\* implementation, a file in the way) has written nothing at all: every check
\* comes before the first write (main.go:36-128).
RefusalWritesNothing ==
    [][pc # "idle" /\ result' \in Refusals => dir' = before]_vars

\* No two outputs of a run are one file, and preflight reads every stub.  A
\* backend called gen, compliance or test breaks it, and nothing refuses one.
WellNamed(c) ==
    \A b \in ToSet(NamesOf(c.specs)) :
        /\ ~IsTestFile(StubPath(b)) /\ StubPath(b) # c.out
        /\ c.test => FixturePath(b) \notin {SuitePath, RegistryPath}

\* When a run succeeds the glue mirrors the interface and the backends, each
\* backend implements every method in files that parse (a run for none reads
\* none), and with tests the registry lists exactly the configured backends;
\* the suite and each backend's fixture are whole, or were there before the
\* run, which does not look at them: one that an earlier run left cut off stays
\* cut off (main.go:36-229).
SuccessIsComplete ==
    [][pc # "idle" /\ result' = "ok" /\ WellNamed(config) =>
          LET backends == ToSet(NamesOf(config.specs))
              tests == {SuitePath} \cup {FixturePath(b) : b \in backends}
          IN  /\ dir'[config.out] = GeneratedFrom([methods |-> iface, backends |-> backends])
              /\ backends # {} => \A path \in Sources' : dir'[path].parses
              /\ \A b \in backends : iface \subseteq Implemented(b)'
              /\ config.test =>
                     /\ dir'[RegistryPath].view.backends = backends
                     /\ \A path \in tests :
                            dir'[path] = IF before[path].there THEN before[path] ELSE Scaffold]_vars

\* Running the command again on what it left behind leaves the directory as it
\* was when it succeeds, and is refused only over an interface without methods:
\* preflight knows a backend by its methods, so it takes the stub the first run
\* wrote for a stranger's file (main.go:98-126, implementation.go:33-44).
RerunChangesNothing ==
    [][stable /\ pc # "idle" /\ pc' = "idle" /\ WellNamed(config) =>
          /\ result' \in Refusals => result' = "foreign" /\ iface = {}
          /\ result' = "ok" => dir' = before]_vars

\* "<file> exists but does not declare <type>" (main.go:123): the file the
\* message names has no declaration of the backend type it names.
ForeignFileHasNoBackend ==
    result = "foreign" => blamed \notin dir[StubPath(blamed)].types
============================================================================
