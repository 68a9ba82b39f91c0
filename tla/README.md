# A TLA+ model of Open Adaptive AUTOSAR

This directory holds TLA+ modules that model the concurrent core of the repository (the
`ara::com` channels and registry in shared memory, the Execution Manager, the client that
owns an application's SIGTERM, the core runtime, and the tire pressure application) and of
the way from ARXML manifests to started processes, the TLC
configurations that check them on small instances, and proofs that the TLA+ proof system
checks for every value of the constants. `PROJECT.json` lists the runs, the theorems, the
lines of code each definition models, and the hazards the properties are for. Paths below
are relative to the root of the repository; `ipc` stands for
`src/ara/com/shared_memory_ipc.cpp`, `registry` for `src/ara/com/com_runtime_state.cpp`,
`em` for `src/ara/exec/main_exec.cpp`, `client` for `src/ara/exec/execution_client.cpp`, and `merge` and `arxml` for
`merge_execution_manifests.py` and `arxml2json.py` in `scripts/manifests/`.

To check a run: `tlc -config MethodChannel.cfg MCMethodChannel.tla`. To check the
proofs of a module: `tlapm MethodChannelProofs.tla`.

## 1. Inventory

### The parts of the system and their state

| Part | State | Operations | Hard behaviours |
|---|---|---|---|
| Request/response channel (`ipc` 181-191, 286-419) | a shared `MethodLayout`: one request slot, one response slot, two sequence numbers, two correlation ids; a named semaphore; the local variables of each `Call`; each provider's `last_method_sequence_` | `Call` (post, then poll every 10 ms until a deadline), `TakeRequest`, `SendResponse` | several callers share each slot; a late answer; a provider that runs twice or restarts; a process killed inside a section |
| Event channel (`ipc` 174-179, 219-284) | a shared `EventLayout`, a semaphore, each reader's last-seen sequence | `Publish`, `ReadIfNew` | torn reads, conflation, restart of readers and writers |
| Fire-and-forget channel (`ipc` 193-198, 421-486) | as above, under another magic number | `Send`, `Take` | as above; names that lose their punctuation, so that channels of both kinds may share a region |
| Service registry (`registry`) | two tables of 64 slots in one region, one semaphore for the whole platform, a static handle per process | `OfferService`, `StopOfferService`, `FindServices`, `RegisterInstanceMapping`, `ResolveInstanceIDs`, each after `OpenRegistry` | two sections per operation, search and insertion in two scans, full tables, strings that do not fit, error returns inside a section |
| Execution Manager (`em` 598-994) | machine state, table of managed processes by pid, a signalfd, a datagram socket of reports; in the kernel: children, pending and blocked signals | start, poll, signal, reap, report, timeout, shutdown | signals that coalesce, reports that outlive their senders, children that ignore SIGTERM, death of the manager itself |
| Manifest tools (`arxml`, `merge`) | the merged manifest under construction, the output file | conversion of each application's manifest, merge, validation, output | one space of names for all applications, lost packages, a file that is read while it is rewritten |
| Manifest loading (`em` 42-596, 667-674, 724-760) | the machine state, the processes, the settings of the platform | a JSON reader, `ParseProcessExecutionManifest`, `HasMatchingStartupConfig`, the arguments of a process | malformed input, missing members, references that do not resolve, a file that is read twice |
| `ExecutionClient` (`client`) | a global pointer to a callback, the disposition of SIGTERM | `Create`, move, destruction, `ReportExecutionState`, the handler | ownership across moves, a mutex in a signal handler |
| `StateClient`, `RuntimeState` | a map of function groups, a flag, under a mutex | `SetState`, `ReportExecutionState`, `GetExecutionError` | one report of many |
| Core: `Initialize`, `Abort` | an atomic flag; a list of handlers under a mutex | `Initialize`, `Deinitialize`, `AddAbortHandler`, `AbortImpl` | threads that abort at once; handlers that register others or abort again; a main that returns meanwhile |
| Tire pressure application (`apps/02_tire_pressure`) | the skeleton's latest sample, the proxy's cached sample, `running_` and receiver thread, last-seen sequences | the loops of both mains, `OfferService`, `Publish`, `Subscribe`, `StopSubscription` | two registry operations per offer, two channels that must agree, a join of a thread that is in a call, restarts |
| Value types, error domains, logger, build scripts, hello world | none that outlives a call | | |

### How they interact

A provider process registers its instance and offers its service in the registry, then loops:
it publishes a sample, takes at most one request and answers it, and takes at most one
fire-and-forget message. A consumer resolves the instance, reads events every 100 ms and
calls the method. All of this goes through shared memory and named semaphores that outlive
the processes. The build converts and merges the applications' manifests into the file the
Execution Manager reads; the Execution Manager starts both applications with `fork` and `execve`; they
report to it through a datagram socket, and it ends them with signals.

### What makes each part correct

- Method channel: an answer is the answer to this very request; a call ends; a provider does
  not go back; the last request is taken.
- Latest-value channels: a reader's sample is whole and is the one of its sequence number;
  none twice, none out of order; the latest is reached; none of the other kind of channel.
- Registry: one entry per key; every operation takes effect at one moment; every operation
  returns.
- Execution Manager: the table is exactly the set of children not waited for; no exit and no
  silence goes unnoticed; a report counts only for its sender; a stop request ends the
  manager; nobody survives it.
- `ExecutionClient`: the global never points into a dead client; the client that registered last
  is the one SIGTERM is for; the signal handler returns.
- Manifests: what an application defines keeps its meaning in the merged file; what the build
  wrote loads; a process is started in the states, and with the arguments, its ARXML says;
  the reader accepts what JSON's grammar derives and nothing else, but for words, of which it
  takes some that JSON does not have and refuses some that it has (see `JsonWords`).
- Core: every handler registered before an abort is called, none twice by one call; an abort
  ends the process; one initialisation and one report succeed.
- Tire pressure application: an answer is never older than the event that led to the question; a
  low pressure comes back as an alarm; a subscription can be stopped, unless its thread waits for a
  semaphore that a killed process has kept.

## 2. Modules

| Module | What it is |
|---|---|
| `NamedSemaphore` | the POSIX semaphore and the two ends of `SemaphoreGuard`; extended by the three models of shared memory |
| `RequestResponse` | abstract: a call ends with the answer to its own request, or fails |
| `MethodChannel` | `SharedMemoryMethodChannel` and its users' loops; implements `RequestResponse` |
| `ConflatingFeed` | abstract: a log of samples of which a reader is given the newest, once |
| `LatestValueChannel` | `SharedMemoryEventChannel` and `SharedMemoryFireAndForgetChannel`, also on one region; implements `ConflatingFeed` |
| `ServiceDirectory` | abstract: a directory of offers and mappings with atomic operations |
| `ServiceRegistry` | the registry; implements `ServiceDirectory` |
| `ProcessSupervision` | abstract: a process is started once, heard of by what it says, noticed after its end, asked to end before it is killed |
| `ExecutionManager` | the Execution Manager, its children and the kernel between them; implements `ProcessSupervision` |
| `ExecutionClient` | the clients of one process, the global callback, and SIGTERM |
| `JsonWords` | the strings, numbers and literals of a text, as that reader takes them and as JSON has them |
| `JsonParser` | the Execution Manager's JSON reader, with the grammar as reference; extends `JsonWords` |
| `ManifestPipeline` | conversion, merge, output file, loading and selection; extends `JsonParser` |
| `CoreRuntime` | the threads of one process: `Initialize`, `RuntimeState`, abort handlers |
| `TirePressure` | provider and consumers over `ConflatingFeed` (twice) and `RequestResponse` |
| `MC...` | small instances for TLC: sets of model values and crash points, symmetry |
| `...Proofs` | theorems and proofs about the module they are named after |

### MethodChannel

One variable `layout` is the shared `MethodLayout`; `pc` gives each process its control point.
`Call` is `CallBegin`, `PostAcquire` (`sem_wait` and the `memset` of a region without the magic
number), `PostId`, `PostRequest` (payload, sequence number, `response_sequence`, `sem_post`),
and the loop of `PollBegin`, `PollAcquire`, `PollHit` or `PollMiss`, left by `CallTimeout` when
the clock, which `Expire` advances, is found past the deadline. `TakeRequest` is `TakeBegin`,
`TakeAcquire`, and `TakeRequest` or `TakeNothing`; `SendResponse` is `SendBegin` or
`SendRefused`, `SendAcquire`, `SendPayload`, `SendCommit`. Sections that write are two steps,
so that a half-written slot exists in the model and only the semaphore hides it. The payload
of a request is its number and the payload of an answer is the number it answers: a wrong
answer is visible as a wrong number. `CallerCrash` and `ServerCrash` kill a process at any
point of `CrashPoints`; it starts again with fresh locals (a provider with
`last_method_sequence_ = 0`), and region and semaphore stay as they were.

Left out: the content and size of payloads (an oversized one is a refusal), the sleeps, the
names. Counters are unbounded integers: the code's are 64 bits wide and are not exhausted.

### LatestValueChannel

The same style: `PublishBegin`, `PublishAcquire`, `WritePayload`, `PublishCommit`, and
`ReadBegin`, `ReadAcquire`, `ReadNew` or `ReadNothing`. `log` is a history variable: the samples
in the order of their sequence numbers; `delivered` counts what each reader was given, so that a
sample handed over twice shows in the refinement. A publication that is refused touches nothing
and is not modelled.

`Send` and `Take` of the fire-and-forget channel are step for step `Publish` and `ReadIfNew`
on a layout of the same shape with another magic number. `kind` says which of the two each
process takes the region for. `SanitizeChannelName` (`ipc` 25-38) maps names that differ only in
punctuation to one name, so two channels of different kind may meet in one region: a writer
clears it when it finds the other's magic number (`Initialised`), and a reader finds nothing
there (`IsNew`). `KindChoices` has the assignments in which all agree and one in which they do
not; `NoCrossTalk` is about both, the refinement about the former.

### ServiceRegistry

An operation is `Begin`, the section of `OpenRegistry` (`OpenAcquire`, then `OpenInUse` or
`OpenFresh` and `Reset`), and the section of the operation itself: `OpAcquire`, a scan
(`ScanToUpdate`, `ScanToStop`, `Find`, `Resolve`), a write (`Overwrite`, `Insert`, `TableFull`,
`StopOffer`) and `Release`. Between the scan and the write the process remembers only a slot
number, which must still be right when it writes. `reach` says how much a process managed to
open: the handles are static, so what failed the first time fails always. A string is one that
fits or one of `TooLong`; `PartlyOverwritten` says what `CopyString` leaves behind when it
refuses a string in the middle of an update. One `IpcBindingRuntime` serves both binding types.

### ExecutionManager

`em` is the control point of `Run` and `Shutdown`; `managed` is `managed_processes_`. A turn of
the loop is `Poll`, one signal (`HandleStopSignal`, or `HandleChildSignal` and then `ReapChild`
until `EndReaping`), one report (`HandleExecutionReport`) and
`CheckExecutionReportingTimeouts`, with children that act between any two of these steps.
`Shutdown` is `SendSigterm`, the grace loop (`GraceAttempt`, reaping, `GraceEnds`),
`SendSigkill`, the second loop (`KillAttempt`) and `Exit`. A child goes through `forked`, `armed`
(after `prctl`) and `program` (after `getppid` and `execve`), then is a zombie until it is waited
for. The kernel is modelled as the code uses it: a signal is pending or not, however often it
was sent; a signalfd hands out the lowest number first; a child inherits the mask, and a program
keeps it unless its entry is one of `UnblockingApps` (no program of this repository unblocks
SIGTERM, but a manifest may name any executable); the pid of a
child that was not waited for is not given again. A pid is used once in a behaviour.

`ProcessSupervision` knows phases of the manager and lives of processes, and neither signals,
masks, queues nor the table. `Phase` and `Life` map the control points to them; `Expected`,
`Known` and `Suspected` are what the table says of its children. Reading a signal, polling and
counting attempts are stutters, and so is a report whose sender was reaped, or whose name is not
the one under which its pid is in the table.

Left out: arguments and environment (see `ManifestPipeline`), exit codes, log messages, the
reading of the manifests (its failure is `SetupFails`, its result the constant `Selected`), and
`state` values other than `Running` and malformed reports, which `ExecutionClient` never sends.

### ExecutionClient

One process. `client` says for each piece of storage whether a client is alive there, which
function it holds (numbered; 0 is an empty `std::function`) and its `owns_sigterm_handler_`;
`callback` is `g_sigterm_callback`, `action` the disposition of SIGTERM, `mutex` the holder of
`g_sigterm_mutex`. A thread in a call has a control point `pc` and the objects `this` and
`target`. Construction is `Construct`, `ConstructLock`, `Register`, `Install`, `ConstructUnlock`;
`Create` goes on with `EndCreate` (the move into the `Result`) and the destruction of its
temporary; `Move` and `EndMove` are the defaulted move constructor and assignment; destruction is
`BeginDestroy`, `DestroyLock`, `Compare`, `Default`, `Forget`, `DestroyUnlock`,
`Die`. Between any two of these a SIGTERM may end the process (`DieOfSignal`) or
interrupt a thread (`Interrupt`), which then executes `HandlerLock`, `HandlerCheck`,
`HandlerCopy`, `HandlerUnlock`, `HandlerReturn` and nothing else. A lock that its own thread
holds is never free, so an unlucky interrupt wedges the process. `HandlerCopyInMove` is the copy
of a function that somebody is moving, a data race: the copy is empty, or either function, or the
process crashes. `newest` and `displaced` are history variables.

Left out: `g_sigterm_handler_installed`, which nothing reads; constructors that refuse an empty
function, before they touch anything; what the detached worker does. SIGTERM is not blocked in
this module, as in an application that is started by hand; under the Execution Manager it is
(see `ExecutionManager`).

### JsonWords, JsonParser and ManifestPipeline

`JsonWords` takes one word apart. Its characters fall into the classes that `ParseString` (219) and
`ParseNumber` (264) or JSON (RFC 8259) tell apart. `ReadsString` and `ReadsNumber` say what these two
functions take, `IsJsonString` and `IsJsonNumber` what JSON has. They differ, and `Lenient` and
`Unsupported` name the differences:

- The reader takes control characters in strings; zeros in front of a number (`007`); and a point, an
  exponent or a sign without digits after it (`1.`, `1e`, `-.5`).
- It refuses `\u` escapes, which are JSON, and numbers that are JSON but make `std::stod` (292) throw
  `out_of_range` (`1e999`); whether a number does is the constant `OutOfRange`.

`JsonParser` is the reader of `em` 42-316 by tokens: words, and marks of punctuation, which have names
(`lbrace`, `comma`). What is left of a word in which a text is cut off is a word, too. Its functions
call each other; here the open calls are a stack of half-built objects and arrays (`stack`), and `expect` is the place in
the innermost one. `ParseScalar`, `OpenObject`, `ParseKey`, `ParseColon`, `ParseComma`,
`CloseObject`, `OpenArray`, `CloseArray` are the steps of a text that goes well, `Refuse` an
exception, `EndOfText` the end of the file. `Json` is the reference: all texts of up to
`MaxTokens` tokens that the grammar derives, with their values, built up by length and not by a stack.
Its words are JSON's and those that the reader takes. Of two members of one name JSON does not say
which counts; the grammar has both values, the reader keeps the first. `AcceptsJson` then says three
things. An accepted text is one of these, and each of its words is JSON's or `Lenient`. A token is
refused only when no such text goes on with it, or when it is `Unsupported`. A text that is cut is
none of these. Left out are the white space between tokens (of which the reader takes `\v` and `\f`,
too, which JSON does not), what a string decodes to (two spellings of one name are two names here),
and the encoding of characters.
`at`, in each open call, is a history variable: the place of its bracket in the text.

In `ManifestPipeline` a JSON object is a record, and a member that is missing is a field that is
not there. A `world` is what a build is given: the ARXML of the applications, the platform's
JSON, the machine manifest, an older output. The merge goes entry by entry (`LoadPlatform`, `AddEntry` or
`EntryFails`, `NextCategory`, `Validate`), empties its output (`OpenOutput`) and fills it
(`DumpOutput`); the conversion of `arxml` is what an entry looks like when the merge meets it
(`JsonEntry`). Meanwhile the manager may load the machine manifest, load the processes, load
the settings from the same file again, and start what it selects, process by process
(`StartProcess`, `PassProcess`), in one state or in `Startup` and again in `Running`
(`StartThenRun`, `EnterLoop`). The order in which code looks at things is kept where it decides: the first of two
entries of one name is the manager's, the last is the merge's, and a process that is there twice is
refused only if the definitions differ.

Left out: environment variables, which the same loop collects as it does arguments (they are
appended to the inherited environment, in which `getenv` finds the inherited one first); members the
manager does not read (version, permissions, scheduling); the conversion of machine and service
manifests and `verify_arxml.py`.

### CoreRuntime

The threads of one process. `Initialize`, `Deinitialize`, `ReportExecutionState` and `SetState`
are one step each (an atomic exchange; one section under a mutex). `AddAbortHandler` is
`AddBegin`, `AddLock`, `AddDuplicate` or `AddFound` and `AddPush`. `AbortImpl` is `AbortBegin`,
`CopyLock`, `Copy`, `CallHandler` for each of the local copies, and `StdAbort`, which ends all
threads. A handler is the program's own code: while it runs, its thread may do all of this again,
and `depth` counts nested calls of `Abort`, of which only the innermost ever goes on
(`Abort` does not return). `MainReturns` ends a process in which another thread is aborting.
`called`, `begun`, `owed`, `balance` and `accepted` are history variables.

`RuntimeState` accepts one report, and a second is an error; under the Execution Manager, when a
socket is there, `ExecutionClient` sends every report instead. No operation sets `is_undefined`,
so `GetExecutionError`, which changes nothing and is left out, never has an event to return.

### TirePressure

The two programs over the *abstract* channels: `Events` and `Alarms` are instances of
`ConflatingFeed`, which `LatestValueChannel` implements, and `Calls` one of `RequestResponse`, which
`MethodChannel` implements; so the module is about what the programs do with the channels, and
what it shows rests on those refinements. What the abstract channels do not know is a semaphore that
nobody posts: `wedged` is the set of channels in whose section a process was killed (`Killed`), and an
operation on one of these does not succeed (`Succeeds`), nor return, unless it fails before it waits for
the semaphore (`Fails`) or, of a call, the deadline passes between two looks. `provider` is the control point of the provider's main:
`RegisterMapping` and `OfferService`, then turns of `LoadSample`, `Publish`, `TakeMethodCall` and
`SendMethodResponse` (or `NoMethodCall`), `TakeAlarm` (or `NoAlarm`), with the early exits
(`PublishFails`, `StopOfferService`, `ProviderDies`). A consumer is its main thread
(`ConsumerStarts`, or `ConsumerDies` in `Connect`; `StopSubscription`, `Joined`) and its receiver thread: `ReceiverLoops`,
`GetNewEvent`, the handler's call (`GetLatestByRequest`, `CallAnswered`, `CallFails`,
`CallRefused`) and `SendLowPressureAlarm` or `NoAlarmSent`. Samples are numbers in the order of
loading, `LowSamples` those below 100 kPa, and 0 the empty sample that `value_or` would send.

`Connect` returns success on each of its paths, so the retries of the consumer's main
(main_tp_consumer.cpp 67-73) never happen and the registry's content changes nothing: it is two
flags here. Nothing clears `keep_running` (finding 3), so the loop ends only by a failure.

Left out: the text of samples and messages, the sleeps; two providers at once, which the
manifests never start. Two providers that overlap (a survivor of finding 2 and its
replacement) would answer from different samples, and the first to stop would withdraw the other's
offer.

## 3. Runs

Each passing run's properties have a mutant in `PROJECT.json`: a definition of the module with
a plausible bug, under which the property fails.

| Run | Instance | What it shows |
|---|---|---|
| `MethodChannel` | 2 callers, 1 provider, 2 calls, 2 faults anywhere, inside the section too | the inductive invariant, `AnswersOwnRequest`, `TakesNewerRequests`, `ImplementsRequestResponse`; `CallReturnsUnlessWedged`, `ProvidersCatchUp`, and `UndisturbedCallAnswered`: the polling loop loses no answer before the deadline |
| `MethodChannelWedged` | 1 caller, 1 provider killed in its section | **violated**: `CallReturns` (finding 1) |
| `LatestValue` | 2 writers, 2 readers, 3 samples, 2 faults anywhere; one kind, two channels on one region, a reader of the other kind | `NoCrossTalk`, the inductive invariant, `ImplementsConflatingFeed`, `ReadersCatchUp` |
| `ServiceRegistryOffers` | 2 processes, 2 keys, 2 slots, 1 endpoint too long, 1 fault anywhere | `OneEntryPerKey`, the inductive invariant, `ImplementsServiceDirectory` |
| `ServiceRegistryMappings` | 2 processes, 3 specifiers, 1 slot, one string of each kind too long, 1 fault outside the section | `ImplementsServiceDirectory` for the full table and the partial overwrite, `OperationsReturn`, and no deadlock |
| `ExecutionManager` | 2 pids of one entry that both states select, 2 attempts, 1 report each, manager may be killed | `TableListsChildren`, `NoForgottenExit`, `NoSurvivor`, the inductive invariant (with `ReportedByItself`), `ImplementsProcessSupervision`, `ExitsAreReaped`, `StopEndsManager`, `SilenceIsNoticed` |
| `ExecutionManagerOrphans` | 1 child, manager killed | **violated**: `NoOrphan` (finding 2) |
| `ExecutionClientSigterm` | 2 threads, storage for 2 clients, 2 functions, 1 move, 2 SIGTERMs | `CallbackAlive`, `NewestRegistered`, `HandlerReturns`, `NewestIsTold` |
| `ExecutionClientCreate` | 1 thread, 1 client from `Create`, 1 SIGTERM | **violated**: `ToldNotKilled` (finding 3) |
| `TirePressure` | 1 consumer, 3 samples of which the last two are low, 2 calls, 2 starts, 1 fault anywhere, inside a section too | `AnswerIsFresh`, the inductive invariant, `LowPressureIsReported`, `SubscriptionEnds` |
| `ManifestPipeline` | up to 2 applications of several thousand shapes, a manager that loads at any time; texts of up to 9 tokens | the inductive invariant, `DefinitionsKeepMeaning`, `WrittenManifestLoads`, `StartedAsDeclared`, `AcceptsJson` |
| `CoreRuntime` | 2 threads, 2 handlers, `Abort` nested twice | the inductive invariant, `RegisteredAreTold`, `AbortEnds` |

**Bounds.** `MaxCalls`, `MaxSamples`, `MaxFaults`, `MaxReports`, `MaxHandlers`, `MaxMoves`,
`MaxSignals`, `MaxStarts`, `MaxDepth` and `MaxTokens` bound behaviours; all stand in
guards. Two callers and two calls are the least that give an overwritten request, and a late
answer to a caller that has called again; two faults give a provider that restarts, takes a
request again that its predecessor answered, and a kill after it. Three samples with two readers
give a skip, a repeat after a restart and a writer overtaking; with two kinds they give a
region cleared twice. Two slots with two
keys give a free slot before a used one, which is where a one-scan insertion fails; one slot
gives the full table. Two children of one entry give two reports under one name and two exits
for one SIGCHLD, and two
attempts give a loop that ends by its count. Two clients give a registration that is overruled and
then destroyed, and one move between them the address of a client whose function has gone; a
second SIGTERM arrives while the first is handled. The application has one consumer; two calls give an answer that comes after the next sample, two low
samples an alarm that is overwritten before the provider takes it, two starts a consumer that reads
the last event again, one fault a provider or a consumer that is killed, and a channel wedged by it,
or an operation that fails (the safety properties are proved for any number of faults); when
the samples are used up the provider's turns go on without new ones. Nine tokens give an object
with two members, an object in an array in an object, and every text that is one token away
from these. Of the seven words, one string and one number are taken by the reader and are JSON, one of
each is taken and is not, one of each is JSON and is refused, and a string that does not end is neither.
The worlds of
`MCManifestPipeline` have processes with and without configurations of their own, references to
another package, one name defined twice with and without differences, selectors of another function group and
selectors that are given twice, and each member missing that the ARXML may leave out. Two nested
aborts on each of two threads, with two handlers that register each other, give a copy that is
older than the list. The proofs need none of these bounds.

**Deadlock** is not checked in runs whose bounded behaviours end (all calls made, all samples
published, the manager gone, the process aborted); `CallReturnsUnlessWedged`, `StopEndsManager` and
`AbortEnds` say there that nobody is stuck. `ServiceRegistryMappings` checks it.

**Fairness.** Weak fairness of the steps inside a process: the operating system schedules it.
Strong fairness of `sem_wait`: between two sections a poller sleeps (10 ms in `Call`, 100 and
250 ms in the application's loops), so the semaphore is free again and again and a waiter is
served. Nothing makes a clock advance: `CallReturns` and
`CallReturnsUnlessWedged` speak of calls whose deadline has passed, `UndisturbedCallAnswered` of calls
that are given the time. Nothing makes a client call, a child
end or report, or a user ask for a stop. A pending SIGTERM is delivered, and a thread that waits
for a mutex which is free again and again gets it; `HandlerReturns` excepts the thread that waits
for itself, which is never served. In `TirePressure` the loops of both programs go on, and an operation on a channel that is not wedged
returns, which is what `CallReturnsUnlessWedged` and `ReadersCatchUp` say of the channels; nothing is assumed
of an operation on a wedged channel (finding 1), so `SubscriptionEnds` excepts the receiver thread that is in one
(`Blocked`): `StopSubscription` then joins it in vain. That an operation fails counts as a fault, and
`LowPressureIsReported` is about behaviours without one; a call may time out at any time. In `CoreRuntime` an abort
handler returns in the end, as `abort.cpp` expects of it; one that aborts anew every time it is
called would recurse for ever, and `MaxDepth` stands for its end. `ManifestPipeline` states no
liveness.

What a kill inside a section does is finding 1. The other liveness properties of the channels except
exactly that: `CallReturnsUnlessWedged` and `ProvidersCatchUp` a channel in which a process was killed and the
semaphore is taken with nobody in the section (`Wedged`), `ReadersCatchUp` one whose semaphore is
not free again and again. The registry's liveness run has kills outside the section only.

### Findings

1. **A kill inside a section blocks the channel for ever** (`ipc` 155, run
   `MethodChannelWedged`). `Call` takes a timeout, and `apps/02_tire_pressure/README.md` line 72
   says "Manages timeout and unavailability scenarios", but `sem_wait` waits without one. After
   a process was killed between `sem_wait` and `sem_post`, neither callers nor the restarted
   provider ever return. The registry's semaphore is used in the same way.
2. **A child outlives its manager** (`em` 682 and 802, run `ExecutionManagerOrphans`). The comment
   says "Ensure managed applications are terminated if Execution Manager exits unexpectedly",
   and `prctl` asks for SIGTERM. But SIGTERM is in the mask that `SetupSignals` blocked, children
   inherit the mask through `fork` and `execve`, and nothing unblocks it.
3. **A client from `Create` is deaf to SIGTERM** (`client` 63, run `ExecutionClientCreate`).
   `apps/02_tire_pressure/README.md` line 108 lists "**Cleanup**: Deinitialize on shutdown", and
   every application leaves its loop in the function it gives to `Create`. The constructor of
   `Create`'s temporary registers the address of its own member; the defaulted move copies
   `owns_sigterm_handler_`, so the temporary's destructor finds its address registered and
   restores the default action. SIGTERM then kills the process, and nothing is called.

## 4. Proofs

All proofs hold for every value of the constants, from the assumptions that stand in the
modules (`ChannelAssumption`, `RegistryAssumption`, `ManagerAssumption`, `ClientAssumption`,
`ApplicationAssumption`, `WordsAssumption`, `ParserAssumption`, `WorldAssumption`, `CoreAssumption`: the sets of processes
are disjoint, bounds are natural numbers, crash points are control points, `Unknown` is not an
entry, each word has a spelling and none is a mark of punctuation; a manifest has its three lists, whose entries have what the
conversion gives each: a name, a configuration its list of states, a startup configuration its arguments).

- **MethodChannelProofs**: `TypeCorrect`, `Invariance`, `AnswersAreOwn`, `TakesInOrder`,
  `Refinement`. That an answer is one's own is not inductive: one needs that the calls in flight
  have different correlation ids, that each provider's `taken` carries the payload of the call
  whose id it carries, and that the same is true of both slots *whenever somebody may look at
  them*. The last point is `RequestReadable` and `ResponseReadable`: false while a writer is in
  the middle and false for ever after a writer was killed there, because then nobody takes the
  semaphore again. The refinement maps waiting callers to `open`, and uses the invariant to show
  that `PollHit` is an answer the abstract service allows.
- **LatestValueChannelProofs**: `TypeCorrect`, `Exclusion`, `Invariance`, `NeverTheOtherKind`,
  `NoTornSample`, `Refinement`, along the same argument (`Readable`, `RegionInv`). That no sample of
  the other kind is ever delivered needs `OwnerInv`, that a writer in its section has made the region
  its own, and that the last sample of the log was handed to the kind whose magic number the region
  bears.
- **ServiceRegistryProofs**: `TypeCorrect`, `Invariance`, `NoDoubleEntry`, `Refinement`. The
  strengthening is `ScanInv`: what the scan found is still what a scan would find, because the section
  excludes every other writer, and `ResetInv`: nobody clears a region that is in use. That `First` is the
  least element of a set of slots is proved by well-founded induction on the natural numbers. The
  refinement maps the two tables to what they say of each key (`View`). An operation takes effect where
  it writes its slot or reads its table; opening, scanning and clearing an empty region are stutters.
  A table is full exactly when the directory is (`RoomIsFreeSlot`): with one entry per key, the used slots
  and the known keys are in bijection.
- **ExecutionManagerProofs**: `TypeCorrect`, `Invariance`, `TableIsExact`, `ExitsAreRemembered`,
  `ReportsAreOwn`, `ShutdownIsComplete`, `Refinement`. `NoSurvivor` needs that the table is exact (whoever lives
  is in it, so SIGKILL reaches it) and that nothing is started after `EnterLoop`; that a report is
  its sender's needs the invariant of the queue. The refinement rests on the same parts: a process is
  watched exactly when it is in the table (`WatchedAreListed`), so SIGTERM and SIGKILL go to all that
  are left; a process of which the manager learns has spoken (`QueueInv`); and the manager goes down
  when nobody lives whom it has not killed (`KillInv`), or when setting up failed and nobody was started
  (`LoopInv`).
- **ExecutionClientProofs**: `Invariance`, `NoDanglingCallback`, `NewestKeepsSigterm`. That the
  global never dangles rests on `OwnsInv`: a constructed client has `owns_sigterm_handler_` set,
  moved from or not, so its destructor never returns early; and on `SeparateInv`, that no two
  threads work on one client. That the newest keeps SIGTERM needs `HandlerInv` as well: no two
  clients hold one function.
- **TirePressureProofs**: `Invariance`, `FreshAnswers`. That an answer is fresh needs three facts of
  different parts: everything a consumer can know of was loaded (`KnownWasLoaded`), the provider
  answers with the sample it loaded last (`LatestIsLoaded`), and the request of an open call has
  only answers that were given after the event (`OpenCallsAreFresh`).

- **ManifestPipelineProofs**: `Invariance`, `NothingIsRedefined`, `WrittenLoads`,
  `StartsAreDeclared`. That definitions keep their meaning needs `MergedInv`, that every entry the
  merge has passed is in the merged manifest as it is, that nothing else is, and that names are
  unique there; and `WrittenInv`, that the file holds nothing but an older output, a
  cut text or exactly that manifest. Uniqueness makes the manager's first entry of a name the merge's
  last. For `WrittenLoads` one needs besides that every entry comes from a manifest of which the
  conversion can say what it has (`WellFormed`, `OfWorld`), and that references were checked. For
  `StartsAreDeclared` one needs `MachineInv`, which states the manager has entered, and `StartedInv`:
  the loop over the processes has started, of those that it has come past, each one that is due, once,
  with the record that the manifest gives. The theorem then follows each reference twice, by name
  through the merged manifest and by path through the application's own, and shows that both give
  the same arguments, sequence by sequence.

  `ReadsJson` is about the JSON reader, for texts of any length (any `MaxTokens`) over words of any
  spelling. About words, `ReadIsJson` says that one that is taken is JSON's or `Lenient`, and
  `ReadOrUnsupported` that one of JSON's is taken or `Unsupported`; for numbers this needs that the places
  at which `ParseNumber` stops are those that JSON's grammar allows (`ReadNumberIsJson`,
  `JsonNumberIsRead`). The grammar
  `JsonOf` is a recursive function. The induction theorems of the library cannot be applied to it, so
  the proof takes, of the lengths at which it would have no solution, the least (`Least`), and derives a
  contradiction (`JsonUnfolds`). What a rule derives is then stated about two places of one text
  (`Derives`, `Spans`), and each rule once in each direction (`ArrayDerived`, `ItemsAre`, ...), so that the
  reader's argument puts no sequences together. The inductive invariant `ReaderInv` has five parts.
  `ShapeInv` says which calls can be open where. `SoundInv` says that what the open calls have built is
  what the grammar derives from the tokens between their bracket and the reader's place; so an
  accepted text is the grammar's, with its value. `ViableInv` is the other direction: every text of the
  grammar that begins
  with what was read goes on as the innermost call expects, and after its end as the calls around it
  do (`Rest`). The grammar builds a list from its end and the reader meets it from its beginning;
  `ItemsGoOn` and `MembersGoOn` say that both are the same. `VerdictInv` then holds because `Meets`
  says that no such text has a next token that the reader refuses, other than a word that it does not
  support, and `WordsInv` says that it has taken every word it has passed. `Rest` and the places of the
  brackets (`at`, which no call of the code keeps) are what makes these parts inductive.
- **CoreRuntimeProofs**: `Invariance`, `NobodyIsForgotten`. That whoever reaches `std::abort` has
  called everyone who was owed needs `CopyInv`: the list only grows, so a copy that is
  made after the first call of `Abort` contains them, and a thread calls its copy from the first to the last.

**Only model-checked**: liveness (`LowPressureIsReported`, `SubscriptionEnds`, `HandlerReturns`,
`NewestIsTold`, `CallReturnsUnlessWedged`, `UndisturbedCallAnswered`, `ProvidersCatchUp`, `ReadersCatchUp`,
`OperationsReturn`, `ExitsAreReaped`, `StopEndsManager`, `SilenceIsNoticed`, `AbortEnds`), which rests on
fairness and `ENABLED`, beyond the prover. Every safety invariant of the runs is stated by a theorem.

## 5. Not modelled

Not modelled:

- value types, error domains, the logger (sequential, no state that outlives a call);
- the text of samples and service manifests, which the tire pressure application reads by regular
  expressions; `verify_arxml.py` and the conversion of machine and service manifests; build scripts;
- malformed reports: a report longer than 511 bytes is cut (`em` 852) and `std::stoi` throws on a pid that is
  no number, which ends the manager. `ExecutionClient` alone writes reports, and its text is
  shorter unless a process has a name of some 400 characters;
- hello world, whose steps are those of `CoreRuntime` and `ExecutionClient`.

What the models say about the manifests and the code does not promise, so that no property states it:

- The repository's `README.md` (lines 294-297) calls the merged file a "single runtime-consumable manifest". The merge checks
  names and references only: if the ARXML leaves out a reporting or a termination behaviour, or the
  platform's own manifest a path, it is written and the manager refuses it
  (the exceptions of `WrittenManifestLoads`).
- A process without startup configurations of its own is given those of the first process in the
  document (`arxml` 453-454); `StartedAsDeclared` is about processes that have their own.
- The manager reads the file twice, for the processes and for the settings; a build in between
  mixes two manifests. A merge that fails leaves the older output in place.
