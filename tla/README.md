# Verification of agent-otel

TLA+ models of the Go library in this repository, the TLC runs that check them
on small instances and the TLAPS proofs that hold for every instance. Paths
below are relative to the repository; modules are in this directory.

## The system

agent-otel sets up OpenTelemetry (OTel) for agent programs and gives them typed
recorders for GenAI spans, metrics and logs. The parts, the state each keeps and
what makes each correct:

| Part | Source | State | Operations | Correct when |
| --- | --- | --- | --- | --- |
| Shutdown handle | `cleanup.go` | two lists of hooks, a mutex, a flag, the stored error | `ForceFlush`, `Shutdown` | hooks run once, in order, none skipped; every caller learns the outcome; nobody waits for a hung provider he did not call |
| Bootstrap | `bootstrap.go`, `exporters.go` | exporters and providers built so far; four process-wide OTel slots | `Init` | all or nothing, nothing leaked on any exit, a missing collector is no error |
| Dev sink | `devsink_lotel.go` | a second exporter behind each primary one | compose at `Init`; export, flush, shutdown | never changes what the primary path does |
| Cardinality filter | `cardinality.go` | the set of violations already logged | `Filter`, `CheckAllowedLabels` | no unbounded label reaches a metric, each violation is logged once |
| Recorders | `instruments.go`, `usage.go`, `providers.go` | none of their own | `Record*` | a point is recorded with its allowed labels, or the caller gets an error |
| Spans and payload capture | `spans.go`, `events.go`, `redact.go`, `openllmetry.go` | the attributes and events of a span | `Start*`, `AddFallbackEvent`, `MarkSpanError` | nothing unredacted is exported |
| Exporting pipeline | `devsink_lotel.go`, `exporters.go` | per signal a processor of the SDK with a buffer, behind it one exporter or a pair | `Export`, `ForceFlush`, `Shutdown` | both exporters of a pair are asked; the dev sink's errors and silence stay with it; a flush vouches for what it flushed |
| Option constructors | `options.go`, `openllmetry.go`, `redact.go`, `datadog.go` | structs and maps reached from several `Options` | `ApplyOptions`, `With*` | a result means what was asked for, and nobody else's options change |
| Configuration | `config.go`, `env.go`, `datadog.go`, `exporters.go` | none (pure resolution of options, environment and presets) | `resolveConfig`, the exporters' and processors' options | the documented precedence, per signal |
| Logs bridge | `slog.go`, `genai_attrs.go` | none | `SlogHandler` | it hands on the logger provider it was given |
| Test receiver | `internal/otlptest` | received records behind a mutex | `Snapshot`, `WaitFor`, `Export` | a waiter sees what was received |
| Integration helper | `test/integration/lotelhelper` | reference count of a shared collector process, who started it | `Start`, `cleanup`, `WaitFor*` | the collector runs while it is referenced, and is stopped only by a package that takes it for its own |

Who calls whom: `Init` resolves the options (configuration), dials the
collectors, composes each primary exporter with a dev sink exporter, builds a
provider per signal and the metric instruments, installs the providers in
OTel's process-wide slots and returns them with a shutdown handle whose hooks
are the providers' `ForceFlush` and `Shutdown`. Request goroutines then call the
recorders and the span functions at any time and in any number; the recorders
pass their labels through the cardinality filter. The library starts no
goroutine of its own; the batch processors of the SDK do.

What is hard: two or more goroutines in the shutdown handle, in `Init` (which
writes process-wide state) and in the filter's unguarded map; structs copied
with the maps and pointers in them; a flush or a shutdown that meets requests
under way, full buffers and collectors that hang; collectors and dev
sinks that come and go between the check and the use; failures half way through
`Init`, a redaction or a chain of hooks; deadlines that expire while a provider
is being drained; precedence decided in five hand-written cascades; a collector
process shared by the tests of several packages. Each is listed, at its line, as
a hazard in `PROJECT.json`.

## Modules

| Module | Models | Extends |
| --- | --- | --- |
| `Cleanup` | `cleanup.go`: concurrent `ForceFlush` and `Shutdown` on one handle | |
| `OneShutdown` | what the handle promises to the callers of `Shutdown` (abstract) | |
| `CleanupProofs` | theorems about `Cleanup`, and that it implements `OneShutdown` | `Cleanup` |
| `Bootstrap` | `bootstrap.go`, `exporters.go`, `devsink_lotel.go`: concurrent calls of `Init` | |
| `BootstrapProofs` | theorems about `Bootstrap` | `Bootstrap` |
| `Metrics` | `instruments.go`, `usage.go`, `cardinality.go`: concurrent recorders and the filter | |
| `Receiver` | `internal/otlptest/receiver.go`: what the collector keeps, and a test that waits for it | |
| `Pipeline` | the fan-out exporters of `devsink_lotel.go` between the SDK's processors and the collectors, with the handle's calls | `Receiver` |
| `Options` | `options.go`, `openllmetry.go`, `redact.go`, `datadog.go`: `ApplyOptions` on a heap | |
| `Config` | `config.go`, `env.go`, `datadog.go`, the dialling and the clients of `exporters.go` | |
| `Spans` | `spans.go`, `events.go`, `redact.go`, `openllmetry.go`: one span from start to end | |
| `LotelHelper` | `test/integration/lotelhelper`: concurrent tests of several packages | |
| `MetricsProofs`, `PipelineProofs`, `OptionsProofs`, `ConfigProofs`, `SpansProofs`, `LotelHelperProofs` | theorems about the module of that name; those about `Receiver` are in `PipelineProofs` | the module |
| `MC...` | constants of the runs, one per module | the module, or its proofs |

### Cleanup

One invocation per element of `Calls`, each with its program counter `pc`, its
position `idx` in the list of hooks and its local error `err`. `mu` is the mutex,
`shutDown` the flag, `shutdownErr` the stored error; `answer` records what each
provider answered to whom. The two critical sections of `Shutdown` are
`Acquire`-`AlreadyShutDown`/`ClaimShutdown` and `Reacquire`-`Publish`; the
iterations of `callAll` between them (`EnterHook`, `HookReturns`, `SkipNilHook`)
hold no lock. Errors are sets of providers:
joining is union. A nil handle returns at once. `drainer` and `prior` are history:
who claimed the hooks, and which calls had returned when a call began.

`OneShutdown` has no mutex, flag or loop: providers are stopped once and in
order, and a caller's answer is one step. `Cleanup` maps to it with `PhaseOf`,
`OutcomeOf` and `ReplyOf`.

### Bootstrap

Each call in `Inits` has its options and goes through the stages of `Init`: the
configuration, the resource, the dials, then for each signal in `BuildOrder` the
exporter, the dev sink's exporter and the provider, then the instruments; on a
failure the exit it takes hands on its list of what to stop. Each exit of
`buildOTLPProviders` has a list of its own in the code, and so it has here
(`DialExit`, `TraceExit`, `MetricExit`, `LogExit`, `InstrumentExit`), with what it
returns; the hooks of the handle are one more (`Hooks`). `stops` is what is left of
the list, which `Unwind` goes through without a look at what runs. `InstallSlot`
sets one process-wide slot per step, so that two calls interleave. Every dial and
constructor may fail each time. `HandleStops` is the use of the handle: one hook of
`Cleanup` at a time. `outage` and `torn` are history.

### Metrics

A validator, its mode and logger, and calls that each take a request through
the labels a recorder builds (`Points`), the loop of `Filter` label by label
(`KeepLabel`, `DropLabel`), `log` in three steps (`Look`, `Mark`, `CallLogger`)
and the instrument (`Record`). A label is its key. The map of logged violations
has no lock: two calls that meet in it may both find a violation missing, lose
an insertion, or be stopped by the Go runtime (`MapsMeet`). `raced` is history.

### Receiver and Pipeline

`Receiver` has the requests the collector has kept (`kept`) and one `WaitFor`
(`waiter`): `Look` is a round of its loop, `GiveUp` the branch of the `select`
in which the context is done. `sure` is history: the predicate held at the call.

`Pipeline` extends it. `fate` says of each record where it is: waiting in the
buffer, taken by the worker, answered or refused by the primary exporter, dropped.
`job` is the one call of its exporter that a processor has under way, with its stage
(`primary`, then `dev` for a pair) and whether its export timeout is passing.
`AskPrimary` and `AskDev` are the two lines of each method of a pair; `PairError` is
what it returns. `call` goes through the hooks of the handle in order: `EnterHook`
takes stock of what waits, `TakeBatch` puts it to the exporter, `SettleHook` flushes
or shuts down the exporter, `EndCall` returns. The deadline of the caller passes
(`CallExpires`) only while something is silent; then the hook gives up
(`GiveUpHook`) and the processor goes on stopping by itself (`StopInBackground`).
`blame` and `vouched` are history: whose primary failed during the call, and what
the last call vouches for. An exporter that is not answered in time may have been
heard all the same: the primary then fails and keeps the request. The concurrency of
two calls of the handle is `Cleanup`'s; here there is one at a time.

`CallsVouch` is about a `ForceFlush` without error and a `Shutdown` in time. A dev
sink that hangs can use up the deadline of a `Shutdown`, since a pair asks its
exporters one after the other with one context; what waits is then not put to the
primary before the call returns. The model has those behaviours, and the property
does not promise them away.

### Options

The heap is a sequence of cells: structs of options and maps. An address is a
position. `Options` is copied, so that a call has four pointers of its own (`opts`)
to cells it may share. Each option of the list is taken in steps: `Open` copies the
struct there is and clones its map, `Refine` runs one suboption (with `PutAll`,
which makes the map if there is none), `Close` sets the pointer. Two goroutines
interleave between those steps, and a result may be the base of the next call.
`Meant` is the reference: what the list says on top of what the base meant when the
call began, the last one that says something of a text or of a key winning; it reads
no cell that an option writes to. `InitProviders` makes the trace headers from a
clone (`TraceHeaders`) and keeps the pointers that providers keep. A capture may
lack a redactor: the caller's literal need not have one, and a suboption of the
caller's may reset it after the default has been put in. The three text fields of
compatibility options that behave alike are one.

### Config

A setting is a set, empty when it is not set. Each setting has the cascade that
`env.go` writes for it (`resolveProtocol`, `resolveEndpoint`, `resolveInsecure`,
`resolveHeaders`, `resolveTimeout`), a chain of `OrElse`; `PrecedenceFollowed`
compares them with one order of sources (`Ranks`, `Given`) that is stated apart from
them. Hosts, paths and the names of headers and protocols are constants. An endpoint
is its parts (scheme, host, port, path, white space). The steps are `Resolve` for
each signal in the order of `resolveConfig`, then the dials and the exporters.
`clients` is what the clients of the collectors and the processors are told; a
setting that is empty or not positive they are not told, and of TLS they are told at
most "insecure". `Milli` and `Half` stand for `time.Millisecond` and 2^63, small
enough for TLC to meet the overflow.

### Spans

An attribute is its key and who set it; a payload its kind. `StartSpan` is the whole
of a start up to the redaction, `Redact` one call of the redactor with every answer
it may give, `AttachContent` the event. Without a redactor, as in a literal of the
caller's, nothing is captured (`events.go:13`). After that the caller adds fallback
events, marks errors and ends the span, in any order, also after the end, which the
SDK ignores.

### LotelHelper

Tests are goroutines, packages are processes with variables of their own
(`refs`, `started`, the mutexes) and the collector is a process of the machine.
`ensureRunning` is one action per command or lock, so that `cleanup`, which does
not take `startupMu`, comes between any two of them. Commands fail, with their
effect or without. A health check is one of them: when it fails on a collector that
runs, the test goes on to start one, the start finds a collector there and succeeds,
and the package takes the collector for its own (`lotelhelper.go:205-216`). `met`,
`failed` and `missed` are history; `missed` has the packages that has happened to.

## Runs

| Run | Bounds | Shows |
| --- | --- | --- |
| `cleanup` | three calls, one of them with a deadline; logs and traces; a nil hook | the hooks run once, in order, completely; the handle implements `OneShutdown`; no call waits for another's provider |
| `cleanup_doc` | as above | finding: an overlapping `Shutdown` returns nil |
| `bootstrap` | two calls, all options, all failures | nothing leaked, an outage is no error, the dev sink never decides, `Init` returns |
| `pipeline` | logs with a dev sink and two records, traces without and one; a buffer and a request of one record; one flush, one shutdown, one waiting test | both exporters of a pair are asked, the dev sink's errors are nobody's, a flush vouches, `WaitFor` tells the truth, every call returns |
| `options` | two calls of two goroutines, one `Init`, five lists of options, two bases, shared maps | nobody else reaches what a call is writing to; a result means what was asked and goes on to; nobody else's options change |
| `metrics` | two calls, 31 requests, three modes, symmetric | what is recorded is what the lint helper accepts, usage is whole, the log is complete |
| `metrics_log_doc` | as above | finding: a violation is logged twice |
| `config` | one general endpoint in every shape; every mixture of sources | usable endpoints, plain text only as asked, the order of the sources in each of the five cascades, signals kept apart |
| `config_dial_doc`, `config_timeout_doc` | as above | findings below |
| `lotel_helper` | two tests of one package, one of another, all failures | references, who may stop whose collector, no wait without end |
| `spans` | calls with up to three payloads, every capture setting, two calls after | redaction, fail-closed, no span lost |

What each run checks, by name:

| Run | Properties |
| --- | --- |
| `cleanup` | `TypeOK`, `ShutdownHooksRunOnce`, `HooksInOrder`, `NothingSkipped`, `ImplementsOneShutdown`, `LateShutdownNeverBlocks`, `BoundedCallReturns` |
| `cleanup_doc` | `RepeatedCallsSameError` |
| `bootstrap` | `TypeOK`, `NoOrphan`, `OutageIsNoError`, `DevSinkNeverDecides`, `TracesStopLast`, `GlobalsAgree`, `InitReturns` |
| `metrics` | `TypeOK`, `RecordsWhatLintAccepts`, `ViolationsLogged` |
| `metrics_log_doc` | `LoggedOncePerProcess` |
| `config` | `TypeOK`, `ExportersGetUsable`, `PrecedenceFollowed`, `SignalsKeptApart` |
| `config_dial_doc` | `NoopOnlyWhenRefused` |
| `config_timeout_doc` | `TimeoutNonNegative` |
| `lotel_helper` | `TypeOK`, `RunningWhileUsed`, `NothingLeft`, `OutsideStoppedOnlyWhenMissed`, `CallsReturn` |
| `spans` | `TypeOK`, `OnlyWhatTheRedactorReturned`, `FailClosed`, `NativeKept` |
| `pipeline` | `TypeOK`, `PairStaysTogether`, `OnlyPrimaryFails`, `CallsVouch`, `WaitTellsTruth`, `CallsReturn`, `PrimaryIsAsked` |
| `options` | `NobodyElseReaches`, `MeansWhatWasAsked`, `OthersKeepTheirs` |

Why the bounds are enough to meet the interesting cases. Three calls of
`Cleanup` are one that runs the hooks, one that overlaps it and one that comes
after; two hooks are an earlier and a later one; the proofs cover any number of
both. Two calls of `Init` are enough to tear the
slots, and the proofs again cover any number. In `Pipeline` a buffer of one
record is full with the first, a request under way has one waiting behind it, and
the two signals are the two shapes there are: a pair whose exporter can be flushed,
and a primary alone that cannot. In `Options` a third call would share no more than
two do: a literal, a result or a map. Every violation in the map of the
filter needs two calls: a third would only repeat. In `Config` the signals share
their code, so that sources vary for traces, with one more for metrics to show
what could leak between them; options also say what does not count (a `FALSE`, an
empty map, a negative timeout). Three payloads are one redacted, one that fails and
one that is never tried. In `LotelHelper` two tests share a process and a third
does not.

`MCBootstrap` orders its two calls by their options instead of declaring a symmetry
set, which would be unsound under fairness. Bounded counters: `MaxAfter` (calls on a
returned span), `MaxRecords` and `MaxFlushes` (`Pipeline`), `MaxCalls` and
`MaxInits` (`Options`). `pipeline` and `options` do not check for deadlock: when the
bounded calls are over nothing needs to happen.

## Fairness

`Cleanup`: Go schedules every goroutine that can run, `sync.Mutex` hands itself
to every waiter in the end (starvation mode: strong fairness of the two lock
actions), a deadline passes, and a provider returns once its context is done. A
provider whose context has no deadline may hang for ever, and does in the run.
`Pipeline`: goroutines run, an export timeout passes while an exporter is silent,
the processor of a living signal or of the hook that waits starts its next export;
the deadline of the caller need not pass, and the collectors need never answer.
`Bootstrap`: each step of `Init` ends, as a dial has a timeout (one second) and
constructors do not wait for the collector. Nothing is assumed of the collector.
`LotelHelper`: goroutines are scheduled, commands have timeouts, deadlines pass;
commands need not succeed. The other modules state no liveness and no fairness.

## Proofs

`CleanupProofs`, for any calls, providers and lists of distinct hooks, under the
assumptions named in `Cleanup` (`NoCall` is no call, hooks are providers or nil,
no provider twice in a list): type correctness, `ShutdownHooksRunOnce`,
`HooksInOrder`, `NothingSkipped`, and `Spec => ImplementsOneShutdown`; and three that
no run checks on their own, as the refinement implies them: `LaterCallSameError`,
`NeverPartialError` and `FinalIsFinal`. None of them is inductive. `IInv` adds who may
hold the mutex (`InvLock`), that one call at most is past the check
(`InvDrainer`), the loop invariant of `callAll` (`InvLoop`: hooks before the
position have answered, those after it have not been called, the error is what
the answers make it) and what the stored error is at each moment (`InvStored`,
`InvPrior`). The refinement shows each action to be a step of `OneShutdown` or a
stutter under `IInv`. Then the safety part of its liveness: `WaitersAreServed` (who
holds the mutex is in a critical section, where there is nothing to wait for) and
`CallIsBounded`, an action property: `StepsLeft` bounds the steps of an invocation by
the length of its list of hooks, each of its steps uses one up (`StepCounts`) and no
step of another adds one (`LeftAlone`).

`BootstrapProofs`, for any number of concurrent calls, from `NoInit` being no call:
type correctness, the five safety properties of the run and `GlobalsUsable`. `IInv`
says how far each call has come (`InvStage`), that what is open belongs to a running
provider or is being made (`InvOwned`), that stops go from the end of the build
order (`InvOrder`), that what is left of its list is what still runs, in every
exit and in the handle (`InvStops`, from `RunsAt` for what runs where a call
fails), why a result is what it is (`InvReason`) and which slots a call
that installs has set (`InvGlobal`). From the same invariant, of the liveness of
`Init`: `InitIsBounded`, each step uses up one of at most 27, so that no dial and no
constructor is tried twice whatever fails; and `AllGoOn`, at each stage there is
what the next step needs.

`PipelineProofs`, for any signals, buffers, requests and numbers of records and
flushes, any number of them with a dev sink, under `SignalsAssumption` (the list of
hooks names each signal once) and `PipelineAssumption` (types of the constants):
type correctness, `PairStaysTogether`, `OnlyPrimaryFails`, `CallsVouch` and, for the
receiver inside it, `WaitTellsTruth`. `CallsVouch` speaks of calls that are over;
`InvVouch` says where a record that was there when the call began is while hooks run:
ahead of the hook at work it is what that hook waits for, in the batch or gone, and
behind the hooks that are through nothing is left of it. That the batch is what has
been taken and not concluded (`InvJob`), what the dev sink has been asked for
(`InvDev`), who is to blame (`InvBlame`) and that a hook that settles waits for its
own method (`InvCall`) support it. Two more, on top of `IInv`, are the safety part of
`CallsReturn`. `HooksGoOn`, from `InvHook`: only the hook of a `Shutdown` stops a
processor and only a stopped one its exporter, so that an exporter with records to take
for a hook takes them. `DrainAdvances`, an action property, from `InvDrain`: a hook
waits for records older than the rest of what waits, so that the least of them, which
there is (`Least`), is in the next request (`BatchDrains`), and what is recorded
meanwhile is younger (`RecordDrain`). `Least` rests on the library's theorem that
inclusion of finite sets is well founded, as induction over numbers is out of reach.

`OptionsProofs`, for any goroutines, options and heap of the caller, under
`OptionsAssumption` and `ListsAssumption` (what the caller built and passes is well
formed, a capture with a redactor or without, and the constants are told apart):
type correctness, `OthersKeepTheirs`, and `ResultsAreStable`, an action property: no
step changes what any result means, so that what a result means is settled when its
call returns. These follow from `NobodyElseReaches`, a property of its own: the
struct that a call fills in, and its map, lie behind the caller's cells, and no
result, no running provider and no other call reaches them, nor do the options the
call itself holds, until `Close` sets the pointer. On top of it,
`MeansWhatWasAsked`: `InvMeant` says of a call that runs that what is left of its
list (`Left`) makes of the options at hand (`Now`, with the suboptions that still
have to say something of the struct at work) what was meant when it began. That the
list can be taken one option and one suboption at a time is what the lemmas on
`LastSaid` (`LastStep`, `TextInStep`, `ValueInStep`, `MadeStep`), on `Built`
(`BuiltTwice`) and on `MeantOf` (`MeantNothing`, `MeantOther`, `MeantBuilt`,
`MeantMade`) say, for lists of any length; as `LastSaid` is the maximum of a set of
positions and no recursion, they need no induction over lists.

`SpansProofs`, for any call with any attributes and number of payloads and every
answer of the redactor, under `CallsAssumption` and `MaxAfterAssumption`: type
correctness and the three safety properties. While payloads are redacted the
content is what all answers so far make it (`InvRedact`, with `Tells`), and the
attributes of the span are those of its start with only keys added that are not
native (`InvAttrs`, with `Adds`).

`MetricsProofs`, for any calls and any requests of `RequestType`
(`RequestsAssumption`): type correctness and both safety properties. The points
recorded and those left are the plan of the call (`TodoInv`); what the filter has
kept is the selection of the labels that the table allows among those it has passed
(`FilterInv`, with `Selection`); `firstErr` is the first it has refused, which is the
verdict of the lint helper when it is through (`ErrInv`). For the log: what the
filter has passed and refused is in the map or logged (`SettledInv`), what is in the
map is logged or some call is about to log it (`SeenInv`), and as long as no two
calls met in the map at most one call is about to log a violation (`AloneInv`).

`ConfigProofs`, for any hosts, paths and names and any inputs of `InputType`
(`InputsAssumption`), under `NamesAssumption` (the names the code writes are names)
and `NumbersAssumption`: type correctness and the three safety properties. The
invariant is short: each setting is what the input resolves to (`CfgInv`), a dev
sink stands beside a setting of its signal (`DevInv`), clients are told the settings
of their own signal (`ClientInv`), and nothing is dialled before all is resolved
(`OrderInv`). The work is in the lemmas about what the cascades and the
normalization return (`ResolvedIs`, `EndpointNormal`, `HeadersIn`, `Int64In`).

`LotelHelperProofs`, for any number of packages and any finite set of tests
(`TestsAssumption`, `PackagesAssumption`; `NobodyAssumption` and `OutsideAssumption`
keep names apart): type correctness and the three safety properties. `IInv` counts
the helpers of a package (`InvRefs`), says who holds `startupMu` (`InvStartup`),
that a test that looks at the collector is the first (`InvFirst`), that only
packages in `missed` take a collector of somebody else for their own (`InvOutside`)
and, while no stop has met anybody, that one test at most stops, when no helper is
left (`InvLast`), and that whoever made the collector has a test that will see to
its stop (`InvLeft`). `WaitersAreServed` has an invariant of its own (`Held`): a
lock is held by a test of its package that is where the code holds it, at a command
with a timeout.

The theorems by name:

| Module | Theorem | What it establishes |
| --- | --- | --- |
| `CleanupProofs` | `Invariance` | The inductive invariant of the handle holds in every reachable state, for any calls and hooks. |
| `CleanupProofs` | `TypeCorrect` (`TypeOK`) | Every variable keeps its type. |
| `CleanupProofs` | `RunOnce` (`ShutdownHooksRunOnce`) | No shutdown hook is entered on behalf of two invocations. |
| `CleanupProofs` | `InOrder` (`HooksInOrder`) | A hook is entered only when all hooks before it have returned. |
| `CleanupProofs` | `Complete` (`NothingSkipped`) | No hook is skipped and no error lost. |
| `CleanupProofs` | `LaterSame` | A Shutdown that starts after the run has returned gets its error. |
| `CleanupProofs` | `NeverPartial` | No Shutdown returns a part of the joined error, even while the hooks run. |
| `CleanupProofs` | `Final` | Nothing of a published shutdown run changes. |
| `CleanupProofs` | `Implements` (`ImplementsOneShutdown`) | The handle implements OneShutdown: every step is a step of it or a stutter. |
| `CleanupProofs` | `NobodyWaitsForWaiters` (`WaitersAreServed`) | Who is kept from the mutex is kept by an invocation in a critical section, which waits for nothing. |
| `CleanupProofs` | `CallEnds` (`CallIsBounded`) | Each step of an invocation, hooks that fail included, is one of a number fixed when it starts, and no other invocation's step adds to it. |
| `BootstrapProofs` | `TypeCorrect` (`TypeOK`) | Every variable of Bootstrap keeps its type, for any number of concurrent calls of Init. |
| `BootstrapProofs` | `NeverOrphan` (`NoOrphan`) | Whatever fails and in whichever order, a call of Init that is over has left no exporter open outside a running provider of its live handle. |
| `BootstrapProofs` | `FailOpen` (`OutageIsNoError`) | Only its options can make Init return an error, never the absence of a collector. |
| `BootstrapProofs` | `DevSinkSecondary` (`DevSinkNeverDecides`) | No failure of the dev sink makes an enabled Init fall back to no-op providers. |
| `BootstrapProofs` | `StopOrder` (`TracesStopLast`) | Traces stop last, in the unwinding of a failed start as in the live handle. |
| `BootstrapProofs` | `InstalledIsUsable` | A process-wide slot only ever holds the provider of a call that returned providers without error. |
| `BootstrapProofs` | `InstalledTogether` (`GlobalsAgree`) | Calls of Init that do not overlap while they install leave the four slots with one call. |
| `BootstrapProofs` | `StartIsBounded` (`InitIsBounded`) | Each step of Init, whatever fails, is one of the at most 27 it has left, and nothing another call or a handle does gives it more. |
| `BootstrapProofs` | `NeverStuck` | What the next step of a call of Init needs is there at each stage: a signal to build, at the next place of its exit's list a provider that runs, a slot to set. |
| `MetricsProofs` | `Invariance` | The inductive invariant of the recorders and the filter holds in every reachable state, for any calls and requests. |
| `MetricsProofs` | `TypeCorrect` (`TypeOK`) | Every variable keeps its type, and the filter stays within the labels of its point. |
| `MetricsProofs` | `RecordsWhatLintDoes` (`RecordsWhatLintAccepts`) | What is exported is exactly what the lint helper accepts, a strict error is the helper's, and a usage is recorded whole or not at all. |
| `MetricsProofs` | `NoViolationIsSilent` (`ViolationsLogged`) | No violation goes unlogged, nor, unless calls meet in the map, is logged twice. |
| `ConfigProofs` | `Invariance` | The inductive invariant of the resolution holds in every reachable state, for any input. |
| `ConfigProofs` | `TypeCorrect` (`TypeOK`) | Every variable keeps its type: a timeout stays an int64, and no client or processor is told one that is not positive. |
| `ConfigProofs` | `ValidIsUsable` (`ExportersGetUsable`) | What passed validation an exporter can use as it is, and its client is told to use plain text where the scheme or the operator has it so and nowhere else. |
| `ConfigProofs` | `FirstSourceWins` (`PrecedenceFollowed`) | Protocol, endpoint, headers and timeout of every signal are what the first of their sources says, then the preset's, for traces only, then the default. |
| `ConfigProofs` | `SignalsDoNotMix` (`SignalsKeptApart`) | The API key goes to the client of the trace collector alone, and signals that share a collector over HTTP are told apart by their paths. |
| `LotelHelperProofs` | `Invariance` | The inductive invariant of the helper holds in every reachable state, for any number of packages and tests. |
| `LotelHelperProofs` | `TypeCorrect` (`TypeOK`) | Every variable keeps its type. |
| `LotelHelperProofs` | `CollectorForUsers` (`RunningWhileUsed`) | A collector runs while a test uses it, but for the windows the property names. |
| `LotelHelperProofs` | `CollectorIsStopped` (`NothingLeft`) | When every test has ended no collector of theirs is left, but for the windows the property names. |
| `LotelHelperProofs` | `OutsideIsLeftAlone` (`OutsideStoppedOnlyWhenMissed`) | A collector that somebody else started is stopped only by a package whose health check of it failed, and by no other step. |
| `LotelHelperProofs` | `NobodyWaitsForWaiters` (`WaitersAreServed`) | Who is kept from startupMu or ingestMu is kept by a test of its package that is at a command with a timeout and waits for no lock. |
| `SpansProofs` | `Invariance` | The inductive invariant of a span holds in every reachable state, for any call and any answers of the redactor. |
| `SpansProofs` | `TypeCorrect` (`TypeOK`) | Every variable keeps its type. |
| `SpansProofs` | `EventTellsTheAnswers` (`OnlyWhatTheRedactorReturned`) | The content event has exactly the values the redactor returned for payloads of a known kind, in their order. |
| `SpansProofs` | `FailsClosed` (`FailClosed`) | A failed redaction leaves a mark and no content, is an error in strict mode only, and the caller gets the span. |
| `SpansProofs` | `NativeIsKept` (`NativeKept`) | Nothing set on the span after the native attributes changes the value of a native key. |
| `PipelineProofs` | `Invariance` | The inductive invariant of the pipeline, with its receiver, holds in every reachable state. |
| `PipelineProofs` | `TypeCorrect` (`TypeOK`) | Every variable keeps its type. |
| `PipelineProofs` | `PairTogether` (`PairStaysTogether`) | Both exporters of a pair are asked, whatever the primary answers: the dev sink for every batch the primary was asked for, if with a context that has ended, and both for the shutdown. |
| `PipelineProofs` | `PrimaryAlone` (`OnlyPrimaryFails`) | An error of a pair is one of its primary, never of the dev sink. |
| `PipelineProofs` | `CallsVouchForAll` (`CallsVouch`) | A flush or shutdown without error vouches for every record made before it. |
| `PipelineProofs` | `WaitForIsRight` (`WaitTellsTruth`) | A test that waits is told what the receiver has, and gives up only for a reason. |
| `PipelineProofs` | `HooksAreServed` (`HooksGoOn`) | No hook waits for what cannot come: an export under way has a timeout, and an exporter that has records to take for a hook has not been stopped. |
| `PipelineProofs` | `HooksDrain` (`DrainAdvances`) | Every request made while a hook waits has some of what it waits for, which nothing is added to: what is recorded meanwhile does not hold up a flush or a shutdown. |
| `OptionsProofs` | `Invariance` | The inductive invariant of the options holds in every reachable state: nobody else reaches what a call is writing to. |
| `OptionsProofs` | `TypeCorrect` | Every pointer of the heap, of a call, of a result and of a running provider leads to a cell of its kind. |
| `OptionsProofs` | `CallsWriteTheirOwn` (`NobodyElseReaches`) | Nobody but the call reaches the struct and the map it is filling in, so that no goroutine reads or writes what another one writes. |
| `OptionsProofs` | `OthersAreSafe` (`OthersKeepTheirs`) | Neither what the caller built nor what running providers read is changed by options applied later. |
| `OptionsProofs` | `ResultsAreStable` | No step of any call or of Init changes what a result means, even if it is the base of calls that are running. |
| `OptionsProofs` | `ResultsMeanWhatWasAsked` (`MeansWhatWasAsked`) | Whatever options are applied, to whatever base and beside whatever other calls, the result means what they say on top of the base, and goes on meaning it. |

Only model-checked: liveness (`LateShutdownNeverBlocks`, `BoundedCallReturns`,
`InitReturns`, `PrimaryIsAsked`, `CallsReturn` of `Pipeline` and of `LotelHelper`),
which is out of the prover's reach. What it rests on besides fairness is stated and
proved in the proof modules: that who waits waits for somebody who goes on
(`WaitersAreServed`, `HooksGoOn`, `AllGoOn`) and that each step brings the end
nearer (`CallIsBounded`, `InitIsBounded`, `DrainAdvances`). These are no properties
of a run: the runs check the liveness they are parts of. That fairness then leads
there, and that an action is enabled, only TLC says.

## What does not hold

Findings, each with a run that shows it:

- `cleanup.go:40`: a `Shutdown` that overlaps the first one returns nil at once,
  while the documentation has repeated calls return the same joined error.
- `cardinality.go:262`: the map of logged violations is not guarded; a violation
  may be logged twice, and Go may stop the process.
- `exporters.go:274`: an `https` URL without a port, as the documentation's own
  Datadog example has it, cannot be dialled; `Init` always falls back to no-op.
- `env.go:318`: a large timeout overflows and becomes negative.

Met while modelling, without a run: the size limits on payloads that
`docs/redaction.md:139` requires do not exist (`events.go:37`); a dev sink that
hangs delays the primary collector, up to the whole deadline of a `Shutdown`
(`devsink_lotel.go:89`); `http://:4318` passes for an endpoint with a host
(`env.go:173` looks at name and port together), where `docs/env-vars.md:194-200` and
`docs/bootstrap-design.md:106-107` want an empty host rejected: `EndpointsUsable`
says so, an HTTP endpoint has a host or a port, and one without a name is dialled on
the local machine; a gRPC client is told "insecure" or nothing
(`exporters.go:134-136,148-150,162-164`), so that for an `https` endpoint the
variables the SDK reads by itself, `OTEL_EXPORTER_OTLP_INSECURE` among them, still
decide, where `docs/env-vars.md:112` has TLS for any setting: `PlaintextAgrees` is
about what a client is told and does not claim that one who is told nothing uses
TLS; the filter looks at keys only (`cardinality.go:225`), so that a label with an
empty value is kept, as `docs/cardinality-runtime.md:109` has it and line 116 has
not; the instruments `Init` makes have no violation logger, and no option adds one
(`providers.go:79`), so that what they drop is never logged; a general endpoint with
a path sends every signal to that path (`exporters.go:289`).

`RunningWhileUsed` and `NothingLeft` except, by name, the windows in which the
collector of the integration tests is stopped under a test or left running
(`met`, `failed`); those windows exist, and nothing in the repository promises
that they do not. So does the one in which a package stops a collector that somebody
else started, after a failed health check (`missed`): `OutsideStoppedOnlyWhenMissed`
says that there is no other. `GlobalsAgree` excepts two calls of `Init` that set the
slots at the same time (`torn`).

## Not modelled

The values and wording of attributes, span names, log texts; gRPC and HTTP
transport; parsing of headers and URLs character by character; the slog bridge,
which keeps no state; examples, build files and scripts. The SDK is external: in
`Bootstrap` a provider is running or stopped and an exporter open or closed, in
`Pipeline` a processor is a bounded buffer, a worker and an export timeout. The
periodic reader of the metrics, which collects anew instead of queueing, exports
each time what has accumulated; `Pipeline` treats a point as a record, so that the
repeated export of an old point is left out. A `ForceFlush` after a `Shutdown`, and
two calls of the handle at once, are in `Cleanup` and not in `Pipeline`.
`Options` leaves out the options without pointers (durations, names), which are
copied, and the caller who writes through a pointer of its own.

## Plan

Done: all modules, and a theorem for every safety and action property of the passing
runs. What is left is liveness itself, which stays with TLC, and two calls of the handle
at once in `Pipeline`.
