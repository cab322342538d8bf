# dbstore: TLA+ models, checks and proofs

dbstore registers named data sources of one client type, hands functions a
client under a lifecycle that closes it safely, and bounds how many functions
run against a source. Around that core are adapters (SQL, REST, search), an MCP
server and a code generator. This directory holds TLA+ models of the parts with
state worth checking, the TLC configurations that check them on small instances, and
proofs, for every size, of all the safety they check: of the seven modules that model
the code, and that each layer implements the one it is built on.

Paths below are relative to the repository's root.

## Inventory

| Part | Source | State it keeps | Operations | Modelled in |
|---|---|---|---|---|
| Directory and Adapter | `internal/store/directory.go`, `adapter.go` | the map of entries, `closed`, `openings`, one wait group per entry, two mutexes | Open, Configure (with rollback), Remove, Close, acquire/release of a Run, Sources | `Directory`, abstractly `SourceLifecycle` |
| Driver registry | `internal/store/driver.go` | builders, `frozen` | RegisterDriver, Freeze, open | `Directory` |
| Executor, Throttle | `internal/store/executor.go`, `throttle.go` | a channel of tokens per entry | Run from admission to release | `Executor`; Runs inside Runs in `NestedRuns` |
| Source | `internal/store/source.go` | a name and the entry captured at construction | NewSource, Run | `Directory` (`newSource`, `sourceRun`) |
| Observer, MultiObserver | `internal/store/observer.go` | none of its own; observers keep gauges | four callbacks, fanned out to the members | callbacks are steps of `Directory` and `Executor`, where the fan-out is a loop over members that may panic; a callback that reenters is `ObserverReentry` |
| Exec, Call | `internal/store/runner.go` | none | the two shapes of a repository call | `Handles` |
| sqlx adapter | `adapters/sqlx` | database/sql's pool, transactions | Get, Select, Exec, WithTx, RunTx | `SqlxTx` |
| REST, search adapters | `adapters/rest`, `elasticsearch`, `opensearch` | none | one exchange per operation of the Handle | `Handles` |
| Prometheus adapter | `adapters/prometheus` | gauges and counters | the four callbacks | the in-flight gauge in `Executor`; what sources_active rests on is `ObserverInStep` |
| MCP server | `mcpserver` | options, a policy | seven tools | `McpServer` |
| dbstore-mcp | `cmd/dbstore-mcp` | none | wiring | its store's owner and its resolver are steps of `McpServer` |
| dbstore-gen | `cmd/dbstore-gen` | the files of a package directory | one run of the command | `Generator` |
| dbstoretest, facade, examples | `dbstoretest`, `dbstore.go`, `examples` | none | | not modelled |

How they interact: an Adapter calls its Directory; Run asks the Directory for
an entry (counted in the entry's wait group under `Directory.mu`), waits for the
entry's throttle, runs the function and gives both back. Remove and Close take
entries out of the map under `mu`, announce that to the Observer, wait for the
wait group and close the client. Open calls a driver with no lock held between
two critical sections. The sqlx adapter's functions run inside a Run and take
connections of a pool that dbstore does not own. A generated repository calls
Call, which runs a backend's function on a Handle inside a Run. The MCP server is a
client of the Executor and of Adapter's Open and Remove, on a store that its owner
goes on using. The generator only shares the
file system with the application.

What is hard: the driver call outside the lock (two looks at a map that may
have changed), three kinds of removal competing for one client, callbacks that
must follow the order of mutations without running under the lock, Close racing
everything, identity against name (Source, rollback), the select of the throttle
with both arms ready, panics through a stack of defers and out of one observer among
several, functions that call the library again and so wait while others wait for
them, a transaction's context ending while its function runs, an exchange whose answer is lost or broken off, a
query behind a statement that never ends, and a generator killed inside a write.
`PROJECT.json` lists each of these at its line with the properties that watch it.

## Modules

**`Directory`** is `directory.go` with the registry behind it and the Adapter in
front. Each goroutine is a process with a program counter; a step is one critical
section under `mu`, one driver or client call made outside it, one wait, or one
callback. A critical section that ends in `beginLifecycleNotification` keeps `mu`
until `observerMu` is free, so it is two steps (`Publish` then `Reserve`, `Detach`
or `DetachAll` then `Reserve`): a slow callback blocks everybody behind `mu`, as
in the code. A wait group is the set of goroutines it counts. A client and the
entry that wraps it are one element of `Ids`, the identity `removeEntry` and
`acquireSource` compare. The driver call is two steps, as in `driver.go:60-71`: the
driver's Open and its ApplyPoolConfig. A panic in the second unwinds with the only
reference to a client that is already open, and no deferred call closes it, although
`directory.go:205-209` has Close wait for late cleanups. The model counts such clients
in `leaked`; `NoClientLost`, `CleanShutdown` and `ClosedDirectoryIsDrained` promise the
close of every other. `op` tells whether `register` and `removeEntry` return to
Open and Remove or into Configure's loops. `gauge` and `down` are history: what an
observer would count, and that some Close has returned.
The empty name, which is refused before any state is read, error values and the
contents of a configuration are left out; `MayCall` restricts which calls a
goroutine of an instance makes and is otherwise every operation.

**`SourceLifecycle`** is what the directory promises with no locks and no
goroutines: a source is opened, published, retired and closed by atomic steps, and
closed only when nobody uses it. `Directory!Stage` maps a client's history to its
stage, and `ImplementsLifecycle` is the refinement.

**`Executor`** opens the step a Run spends "using" in `Directory`: the early
`ctx.Err`, the select, ObserveAcquire, the function returning or panicking, and
the deferred calls in their order. A callback is a loop over the `Members` of a
MultiObserver (none, and the callback is skipped): each is called through
`safeObserve`, those in `Faulty` may panic, and each of the others keeps the
Prometheus observer's in-flight gauge. The module is built on `SourceLifecycle` rather than
on `Directory`, which is sound because Directory implements it
(`DirectoryImplementsLifecycle`); other goroutines
may take any lifecycle step in between.

**`NestedRuns`** extends `Executor` with functions that call the library again. A
process is then one activation of Run; `callers` says below which activations it is,
so that a goroutine is a chain of them, and only the function at its end is in
control. A nested Run has the context its caller was given (`heeds`), whose end is
then its own, or a fresh one. A Remove or Close called by a function takes its names
away at once and then drains the sources one after another (`removing`), waiting for
each to be idle. The code neither detects nor forbids that such waits close a cycle:
a function that removes its own source, or calls Run on it with MaxConcurrency 1,
waits for itself, and nests that cross wait for each other. What the module states is
therefore what does hold: a context's end undoes every wait for a token below it
(`CancelledNestComesHome`), and waits that follow one order of the sources
(`InOrder`) always end (`OrderedNestingReturns`). Take that order away and TLC shows
the cycle.

**`SqlxTx`** extends `Executor`: it opens the function's step into statements and
transactions (`WithTx`, `runTx`) on database/sql's pool. The pool and the
transaction's own rollback goroutine belong to the library and are modelled from
what the adapter relies on (marked external in the map): a connection is handed
out when there is room, and a Commit may fail before or after the database did it. A
transaction whose context ends is first marked done (`abandoned`), behind the
function's back; the database's rollback and the return of the connection follow in
database/sql's own time (`undoing`). The adapter's deferred Rollback gets ErrTxDone at
once and does not wait for them, so both may outlive the Run: `NoTxLeftOpen` says that
nothing else does. The function given to WithTx may also use the Handle it was made with, which takes a
second connection beside the transaction's. `FunctionsLeaveRoom` shows that this, with
rollbacks under way, is all that makes a pool with MaxOpenConns >= MaxConcurrency
block: the sentence of `config.go:39-41`, by which the throttle is then "always the one
place that can block", is true of functions that use one connection at a time. With as
many such functions as connections each waits for the others until a context ends.

**`McpServer`** is the server's tools, one process per call of a client: the policy
gate, the check of the input, Executor.Run and, in it, db_query's transaction row by
row, or one exchange for a ping or an inspection; and the two management tools, on
`SourceLifecycle`. A throttle is the number of functions it admits at a time, which
is what `Executor` shows of it, at least one; MaxConcurrency <= 0, no throttle, is a
limit no smaller than the number of calls. `server` is the options New accepted and the policy's
grants, fixed from the start; the shipped policies are instances of it. A row is its
encoded size with its comma, and the answer beside its rows has a size of its own
(`Envelopes`), since the running estimate and the final measure count different
things. The lexical check of a query is its outcome, and the store's owner
(`Owner`), which in dbstore-mcp is `main`, may take any lifecycle step.

**`Handles`** is one call of a generated repository (Call around a backend's function)
and the operations of the four Handles, each an exchange with a store that another
caller changes: the request takes effect or not, the answer is lost, breaks off after
its status, or the request arrives long after everybody stopped waiting. `RestReturns`
and its three siblings are what each Handle makes of an exchange, `Call` what the
caller is told. An UPDATE through the sqlx Handle is a verb of its own: `Exec` drops the
count of rows (`sqlx/handle.go:35-38`), so that an UPDATE of no row returns nil and has
done nothing, which `SuccessIsReal` allows and no other write may do. The store, the network and the official clients are external.
An OpenSearch client is taken to report a missing document as an answer with Found false,
which is the only case opensearch/handle.go translates; should it report a 404 as an
error, as it does for the other verbs, Get would not translate it. `seen`
is history: what the store held under a request's key while it was on its way.

**`ObserverReentry`** adds to `Directory` one callback that calls Remove on its own
Directory.

**`Generator`** is a sequence of runs of dbstore-gen over a package directory, with
edits of the application (interface, configuration, files) between them and a
kill or an I/O error anywhere in a run. A file is what the command can tell of
it: whether it parses, which backend types and methods it declares, and what it
was generated from. Every `os.WriteFile` is two steps, truncation and content.
A configuration is a command line: its backends given by flags or by a config file,
which refuses other things and earlier, and the glue written into the package or, with
-out, elsewhere. Of -out the model has the default and one file of another directory;
`main.go:129-132` accepts any path, a backend's file of the package among them. Backend
names are sequences of words; two names with one Go type are left out.

Three things the command does not promise show in the properties' premises.

* The stub of a backend called `gen` is the glue's default file; with tests, the fixture
  of one called `compliance` or `compliance_gen` is the suite or the registry; and
  preflight does not read the stub of one called `test` or `..._test`. Nothing refuses such
  names. The instance has a backend called `gen`: `RefusalWritesNothing` and
  `ApplicationFilesKept` hold of all names, `SuccessIsComplete` and `RerunChangesNothing`
  only where `WellNamed`.
* A suite or fixture that a kill cut off is found by the next run, which does not look
  inside: it skips the file and reports success. `SuccessIsComplete` therefore says that a
  test file is whole or was there before.
* A backend is recognised by its methods, so for an interface without methods a second run
  takes its own stub for a stranger's file. `RerunChangesNothing` names that as the one case
  in which the second run is refused.

The definitions headed "Mutation:" are wrong variants of the action below them,
used to see that each property can fail; no specification mentions them.

## What the runs check

| Run | Instance | Shows |
|---|---|---|
| `Directory_safety` | 3 goroutines (two of them open, configure, remove and close; one runs, builds a Source and runs it), 2 names, 2 clients | the type invariant; no client is closed in use or twice, or lost except by a panicking ApplyPoolConfig; nothing is published after Close; Close leaves only removals that were already draining; callbacks follow mutations; a failed Configure leaves nothing; a Source is never retargeted; `Directory` implements `SourceLifecycle`; rollback removes only its own sources; no driver appears during an opening |
| `Directory_liveness` | a goroutine that configures, one that removes and closes, one that runs | every call returns; a closed directory ends with every client closed except such lost ones |
| `Directory_close_waits` | one that opens and removes, one that closes, one that runs | **violated**: see findings |
| `Directory_reentry` | two goroutines, one client | **violated**: see findings |
| `Executor_safety` | 3 Runs, two generations of a name, limits 2 and none, an observer that may panic before one that counts | concurrency bound, token conservation, quiet closed sources, exact gauge |
| `Executor_liveness` | `MCNestedRuns`: 3 activations, 2 registered sources that admit one function each, no observer | a context's end brings a nest home; ordered waits end; no function starts under a context that is over; a function in a nested call keeps its source |
| `SqlxTx_safety` | 2 Runs, two generations: 2 connections with limit 2, 1 connection without a limit | a transaction ends with its function or was abandoned to database/sql before it; nil means committed, a failed function's transaction is not; only second connections and rollbacks fill a matching pool |
| `McpServer_queries` | 2 calls at a time (one client queries, one lists, pings, registers and removes), 3 servers, 5 requests, 2 results, one name, 2 clients, one function at a time | answers are bounded and exactly truncated; nothing ungranted is done; every query is answered |
| `Handles_safety` | one caller of each backend with up to two operations, one over HTTP with one; one document | ErrNotFound means the document was missing and carries no value; success means it was done, or was an UPDATE of no row |
| `Handles_rest_put` | the same | **violated**: see findings |
| `Generator_safety` | 2 backends, one called `gen`, interfaces of none to two methods, one of them with an unsupported method, 7 command lines, 2 edits | refusals write nothing and application files are kept; where `WellNamed`, success is complete and repeatable |
| `Generator_foreign` | the same | **violated**: see findings |

**Bounds.** Two clients are enough for a name to be reused behind a rollback's or
a Source's back, and for a race lost at the second look; two names for a Configure
that fails after a success; three goroutines for a removal, a Close or Configure
and a Run at once. `Ids` bounds the successful opens, after which a driver can
only fail or panic. Three Runs are one more than the largest limit of the
instances. Two members of a MultiObserver are a panic and somebody behind it. Three
activations are enough for a function to wait for itself, for a removal in one
function and a Run in another to wait for each other, and for a third to be caught
behind them; two levels of nesting with a cancelled outermost context make the end
travel. `MCNestedRuns` starts with both sources registered: how they come and go is
`Directory`'s matter. In `SqlxTx` two functions each with a transaction fill the
larger pool, so that a second connection has to wait. The requests of `McpServer_queries` take every branch of the validation and
of the loop (default and explicit limits, no SELECT, limits above the maxima, an
estimate, a row and an encoded answer that do not fit, a truncated and a whole
result); two results around two limits are enough for the counts to disagree, and the
second client is what removes, replaces and blocks the source. In `Handles` two
operations let a first one fill the value that a second one's error must not carry,
and a second caller, with the delayed writes, changes the document under way; the
kind of the second caller does not matter to the first. In the generator two edits allow a backend to be moved and the
interface to change, or a file to be damaged and repaired; a backend
called `gen` has its stub in the glue's file by default and beside it with -out; a kill may happen in
every run, and nothing bounds the runs.

**Fairness.** `Directory!FairSpec` is strong fairness of each goroutine's own
steps: drivers, callbacks and functions return, and a goroutine that finds `mu`
free again and again gets it (sync.Mutex hands itself to a waiter that has starved
for a millisecond). Nothing is assumed of calls being made. In `NestedRuns` only the
library's steps are weakly fair: nothing says that functions return, that contexts
end or that other goroutines do anything. `OrderedNestingReturns` has what functions
must do in its premise: the order is kept, no new call is made, and no function keeps
control for ever. In `McpServer` the server's own steps are fair, the
timer of db_query fires, and a driver gives up a statement whose context is over;
nothing says that a database answers or that a ping, which has no timeout of its own,
ever ends. That is why `QueriesAreAnswered` needs GiveUp: behind a stuck ping only the
query's own timeout gets it out of the throttle.

**Deadlock** is checked in every run. The programs never stop: goroutines may
always make another call, functions may return, the command may be run again.

## What is proved

Eight modules hold proofs. None bounds the number of goroutines, names, clients, callers,
documents, rows or edits; the assumptions are the named ASSUMEs of the modules, which TLC
evaluates on every instance. Each proof goes action by action over an inductive invariant,
because hardly any of the properties is inductive; every invariant was first checked by
TLC on the instance of its module. With them every safety invariant, every action property
and the refinement that a passing run checks are proved.

**`DirectoryProofs`**, from the two assumptions of `Directory` (`None` is nobody; each
goroutine has a set of operations): `TypeCorrect`, `Invariant` (that `DirectoryInv` is
inductive), and from it `RunsNeverMeetAClosedClient`, `ClientsAreClosedOnce`,
`CloseIsFinal`, `CloseLeavesOnlyDrains`.
`NoUseAfterClose` depends on who may
close a client, so the invariant says who owns each open client (`Owns`: the
register that opened it until it is published or discarded, or the goroutine that
detached it), that a registered client is open and nobody's (`RegisteredIsOpen`),
that an owned client is open and has one owner (`OwnedIsOpen`), that a leaked client stays
open and is out of everybody's reach (`LeakedIsOpen`), that whoever is
about to close a detached client has seen its wait group empty
(`DrainInProgress`), and that a wait group counts exactly the goroutines inside
and only on a client that is registered or still to be closed (`UsersAreInside`).
Since an entry leaves the map before the wait, nobody can join a wait group that
is being waited for, which is the reason for calling `wg.Add` under `mu`.
`OpeningsCounted` and `ClosingIsClosed` carry `CleanShutdown`: `openings` counts
exactly the registers after their admission, none is admitted after `closed`, and
so an empty `openings` at the wait stays empty.

**`DirectoryGuarantees`** continues from `DirectoryInv`:

* `NoClientIsLost`, `SourcesNeverRetarget` and `DriversStayFixed` need little more than
  it. The first is that of any open client, unless a panicking ApplyPoolConfig leaked it,
  somebody is left to close it. For the second, whoever runs a Source's function holds the entry the Source was
  made for, because `acquireSource` compares and nothing after it assigns.
* `ObserverFollows` is the order of the callbacks. A mutation holds `mu` until it has
  `observerMu` (`LockHolders`), so for each name (`InStep`) the map, the announcement owed
  under `mu`, the one owed under `observerMu` and the gauge differ by exactly the
  announcements still to come, and each of these is a change of what was said before.
* `FailedConfigureRollsBack` and `RollbackSparesOtherSources` follow `opened` through the
  loops (`RollbackInv`): each source on the list is still registered under the name it was
  opened with or is gone (closed, or in some removal's `toDrain`), a gone source never
  comes back, and rollback has walked over exactly the first `undone`, all of them gone.
* `DirectoryImplementsLifecycle`: every step maps to a step of `SourceLifecycle` or to a
  stutter. A client's stage is read off who owns it, so each case is what a step does to
  the owner. The step that ends an abstract client's use is the wait group's Done and
  not the function's return; its closing is the close, after the wait.

**`ExecutorProofs`**, for a finite set of goroutines at a time (`ProcsAssumption`: tokens
are counted), any integers as limits, any number of members: `ExecutorTyped`,
`TokensAlwaysConserved`, `ConcurrencyAlwaysBounded`, `ClosedAlwaysQuiet`,
`InflightAlwaysExact`, `DeadContextsNeverRun`, and three that no run checks:
`NoReleaseBlocks` (the send of Release never finds the channel full, so that the deferred
calls of a Run always end), `RunsKeepLifecycle` (Executor implements
`SourceLifecycle`) and `LifecyclePromises` (what every implementation of
`SourceLifecycle` inherits: no source is closed with work on it, and the names are those
of the visible sources). Tokens are conserved only together with where a Run stands: it waits
at a throttle only of a source that has one, it is counted by the source it entered
(`Admitted`), and no work is on a closed source (`Guarded`). Conservation says that the
tokens in the channel are exactly the Runs between acquire and release; the bound, and
that a Release has room, follow by counting.

**`NestedRunsProofs`** adds to that invariant what nesting is (`NInv`): the activations of
a goroutine are a stack of running functions (`Stacked`), what a function drains is
retired and drained by nobody else (`Draining`), and a context derived from one that is
over is over (`Derived`). `NestsAreStacks` is `NestTypeOK`, by which a function in a nested
call keeps its source; `NestedDeadContextsNeverRun` is stronger than its counterpart
in `Executor`, since a context may be over through any number of calls. No run checks the
rest: `EndsAlwaysReachDerived`, `NestedTokensConserved` (tokens, the bound and the gauges
hold although one goroutine may hold several tokens) and `NestedRunsKeepLifecycle`. A
call below takes many names or ends many contexts in one step, so that a step here is
several of `Executor`'s and its proofs are redone, not inherited. That the registered
sources are finite in number, since each registration adds one, is part of the invariant too:
Close drains them in some order. The theorems are about `NestedSpec`, which starts with nothing
registered; `MCNestedRuns` starts from a state it can reach.

**`SqlxTxProofs`**: `TxIsRun` (`SqlxTx` implements `Executor`, so that all of the above
holds of functions that use transactions), `TxTyped`, `NoTxIsEverLeftOpen`,
`AnswersAlwaysMatch`, `FunctionsAlwaysLeaveRoom`. The invariant adds to Executor's that a
connection still in a function's hands belongs to one that is running and to the step of
it that took it (`ConnsOwned`), and that an open transaction is one its function has not
left, while one already abandoned is never answered nil (`OutcomeOwned`). `FunctionsAlwaysLeaveRoom` injects the connections that are neither a
second one nor rolling back into the functions past the throttle, which
`ConcurrencyBounded` counts.

**`HandlesProofs`**: `HandlesTyped`, `MissesAreAlwaysReal`, `SuccessIsAlwaysReal`, for any
callers, documents, delayed writes and operations per call. `Witnessed` is the argument:
whatever a request, an answer or a value claims of a document, the store was seen to say
so while the request was on its way; of an UPDATE that succeeded, that the store held
either what it wrote or nothing to update. `InStep` says which claims each step can make.

**`McpServerProofs`**, for any clients, sources, policies, results and limits, with the
owner of the store doing as it likes meanwhile:

* `NothingIsUngranted` needs that a call past the gate still carries the grant the gate saw
  (`Authorized`).
* `TruncationIsAlwaysExact` needs that the rows read are always the beginning of the
  result, and that a call which has stopped reading has settled `truncated` (`Reading`).
* `McpServerTyped` and `AnswersAlwaysBounded` sum the rows of an answer. The sum is a fold
  of the community modules; that it exists and grows by each row's size is proved without an
  induction rule, by taking the least counterexample (`WFMin` on the naturals).
* `ToolsKeepLifecycle` (the tools implement `SourceLifecycle`) and
  `ToolsNeverMeetAClosedSource`, which no run checks: the client a query, ping or
  inspection runs on is open, and one that is to be published or closed is open, no
  name's and no other call's (`Guarded`, `Standing`).

**`GeneratorProofs`**, for any names (sequences of words),
interfaces, command lines and edits: `GeneratorTyped`, `RefusalsWriteNothing`,
`ApplicationFilesAreKept`, `SuccessIsAlwaysComplete`, `RerunsChangeNothing`. The first
invariant (`IInv`) says that a run before its
first write has changed nothing, that all it has planned to write whatever is there is
the glue and the registry, and that what it is writing otherwise was missing at its start.
Completeness needs a second one (`CInv`): the run is faithful to what it read
(`Faithful`), what preflight found stays so (`Inspected`), what it writes is planned and
what it is writing is not yet whole (`Queued`), and, if the command line is `WellNamed`,
every planned output is in the queue or done and a backend to be stubbed has its file
free until the stub is written (`Planned`), and a run over a complete directory plans
only to write what is there (`Repeating`). The glue's file implements only a backend
whose stub it is (`Bare`), hence none of a `WellNamed` run. A write keeps what was done
before it because the outputs of such a run are different files (`WantedApart`,
`PathsApart`, `OutputsApart`). `RerunsChangeNothing` covers interfaces without methods: it
shows that they are all a second run is refused for.

**Only model-checked.** The liveness properties `CallsReturn`, `ClosedDirectoryIsDrained`,
`CancelledNestComesHome`, `OrderedNestingReturns` and `QueriesAreAnswered`: they rest on
fairness and so on ENABLED, which the prover does not handle. The statements of the
documentation that the code does not keep (see Findings) are refuted by TLC, on an instance.

## Findings

* **Close does not wait for every Run.** `adapter.go:132` and README "Terminal
  close" say that Close waits for in-flight Runs. It waits for those on sources it
  took out of the map itself; a source a concurrent Remove or rollback is draining
  is left to that call (`Directory_close_waits`). What does hold, and is proved, is
  `CleanShutdown`.
* **A reentrant Observer hangs.** README "Guarantees" says it "panics on purpose
  rather than hanging". `beginLifecycleNotification` takes a plain `sync.Mutex`, so
  it hangs, as the README's own "Precise semantics" says (`Directory_reentry`).
* **Put and Post do not translate a 404.** README "REST Adapter" says that all four verbs
  of a `restadapter.Handle` do; only Get and Delete do (`Handles_rest_put`).
* **"exists but does not declare".** dbstore-gen recognises a backend by its
  methods; a file that declares the type without methods is refused with a message
  that says the type is not declared (`Generator_foreign`).

## Plan

Done first, because the rest of the library rests on it: `Directory`, its
abstract specification, its runs and its inductive invariant; then `Executor`,
`SqlxTx`, `Generator`, `McpServer`, `Handles` and the documentation checks.

1. Extended since: nested calls of Run, Remove and Close from a function
   (`NestedRuns`), the fan-out of MultiObserver with its recovered panics, a second
   connection beside a transaction, and dbstore-gen's config file and -out.
2. Proved since: every safety invariant and action property of the runs, for every size,
   the refinement of `SourceLifecycle` by `Directory`, `Executor`, `NestedRuns` and
   `McpServer`, and that of `Executor` by `SqlxTx`.
3. Left: the safety half of the liveness arguments, as invariants a proof can reach: that
   the goroutines waiting in `Directory` always wait for one that is not waiting, and
   that waits which follow `InOrder` form no cycle in `NestedRuns`.
