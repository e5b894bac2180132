# A formal model of vyos-nats-agent

`vyos-nats-agent` is a Go daemon on a VyOS router.  It listens on NATS for
`configure` notifications and `action` commands, brings the router to the
desired configuration kept in a JetStream KV bucket, runs packet captures and
remote terminals on request, and reports what it did.  This directory holds a
TLA+ model of the agent, the TLC configurations that check it on small
instances, and proofs, checked by TLAPS, of its safety properties for every
instance.  Paths such as `internal/configure/service.go:138` are relative to
the source tree; `PROJECT.json` names the lines each definition stands for.

## 1. The system

### 1.1 Components

| Component | State it keeps | Operations | Model |
|---|---|---|---|
| Configure service, `internal/configure` | one mutex; all else is in KV, the checkpoint file and the router | `Handle` (a notification), `Reconcile` (start and reconnection), `fail`, `failCommon` | `ConfigureService`, `DesiredSync`, `ConfigureConvergence`, `ConfigureReporting` |
| State file store, `internal/state` | the checkpoint file: target and UUID last applied | `Save`, `Load` | `FileStore`, `AtomicCheckpoint`; under the configure service in `ConfigureOnDisk` |
| Remote terminals, `internal/actions/vyos_rtty.go` | the tracked process (`activeCmd`, `activePID`, `activeDone`), two mutexes | `Execute`, `KillExisting`, `Start`, one waiter goroutine per process | `RttySession`, under the action service in `RttyAction` |
| Trace executor, `internal/actions/vyos_trace.go` | nothing between calls; in one, a temporary file, a child process, a pipe, a goroutine, two derived contexts | `resolveNetwork`, `Execute`, `uploadFile` | `TraceCapture`; the choice of the interface in `InterfaceChoice` |
| Action service, `internal/actions/service.go` | nothing between commands | `Handle`, `fail` | `ActionService`, composed with the executors in `TraceAction` and `RttyAction` |
| Agent runtime, `internal/agent` | `closed`, the cancelled context, a WaitGroup, the agentcore client | `Run`, `Start`, `Close`, the reconnect handler, handlers | `RuntimeLifecycle` |
| Placeholders, `internal/{actions,apply,renderer}/placeholder*.go` | none | refuse or accept | `Renderable` of `ConfigureService` |
| Renderer adapter, `internal/renderervyos` | none | build the input of the renderer: payload, schema name and version | `RenderInput`; `Render`, `RenderFails` of `ConfigureService` |
| Apply adapter, `internal/applyvyos` | none | call the engine's `Apply` | `Apply`, `ApplyFails` of `ConfigureService` |
| Configuration, `internal/config` | none after start | load, validate, convert, redact | the check of patterns: `SubjectPattern` |
| Command line, `cmd/vyos-nats-agent` | none | flags, signals, exit code | `RuntimeLifecycle` |

Outside this repository, and modelled by what the code here can see of them:
the controller with its KV bucket and its lossy notifications, the agentcore
library, the renderer and apply engine of `olg-renderer-vyos`, the router, the
kernel (files, processes, PIDs, power failures), tcpdump and the upload server.

### 1.2 How they interact

    controller --KV put--> desired.<target>        controller --notification--> agentcore
                                  |                                   |
                                  | LoadDesiredConfig                 | HandleConfigure      OnReconnected
                                  v                                   v                           |
      FileStore <-- Load/Save -- configure.Service (one mutex) <-----------------  Runtime pass (WaitGroup)
                                  | Render, Apply                                             ^
                                  v                                                           |
                               router                       cmd/main --Run/Close--> Runtime --+

    agentcore --action command--> actions.Service --Execute--> trace: tcpdump, file, pipe, HTTP
                                                  \--Execute--> rtty: KillExisting, Start, waiters

* A notification, its duplicate, the reconcile pass of the start and those of
  reconnections are goroutines that take turns by `Service.mu`
  (`service.go:89`, `:160`).
* `Runtime.mu` guards `closed` and the counting of passes; `Close` waits for the
  counted passes, then closes the client.
* A waiter of the terminal executor shares the tracking with `KillExisting` and
  `Start` under `RealRTTYProcessRunner.mu`, which `Start` keeps for the whole of
  its 50ms watch.
* The capture's goroutine and the HTTP client share only the pipe.

### 1.3 What is hard, and what makes each part correct

* **Configure.**  Notifications are lost, duplicated, delayed and overtaken;
  the process dies, the router reboots, a commit takes effect in part, a save
  fails after an apply.  Correct means: a success result is true when it is
  published; the checkpoint never runs ahead of the router; what is recorded is
  not applied again; a live agent never goes back to an older configuration;
  and when failures stop, the router gets the latest record and every request
  its answer.
* **Checkpoint.**  A save is a sequence of system calls, each of which may fail
  and between any two of which the power may fail.  Correct means atomic.
* **Terminals.**  Exit, reaping, the closing of a channel and the end of the
  tracking are four moments of one process, and a new process may be started
  between them.  Correct means: no live session escapes the next preemption, no
  two are left side by side, who is told of success has the one that stays, and
  every command is answered.
* **Trace.**  Two deadlines, a cancellation, the exit of tcpdump and the end of
  the upload race; the file is removed while a goroutine may still read it.
  Correct means: success is only told of a whole capture at the server; nothing
  is left behind; everything ends.  The interface is looked up in sysfs, file by
  file, while the configure path may be changing it.  Correct means: what is
  captured on was one to capture on, and an ambiguity that lasts is noticed.
* **Runtime.**  A look at the configuration must not become a second agent.  A
  reconnection races `Close`; passes and handlers block one
  another.  Correct means: the client starts only if that was asked for, no pass
  outlives it, exit code 0 means that what was asked for was done, and a signal
  ends the process.
* **Configuration.**  The patterns of subjects and keys are format strings, and
  no compiler sees them.  Correct means: what validation lets pass can be
  formatted, and what can be formatted it lets pass.
* **Payload.**  Four places may state a schema, each may be ill-typed or null.
  Correct means: the innermost statement goes with the configuration rendered.

`PROJECT.json` lists the hazards one by one, each at its line, with the
properties that cover it, or the reason why none does.

## 2. The modules

### 2.1 ConfigureService

One worker is one goroutine in `Handle` or `Reconcile`; `pc[w]` is the place in
that call and `job[w]` its locals.  The code's order is kept, and with it the
difference that matters most: `Handle` loads the record before the checkpoint,
`Reconcile` the checkpoint before the record.

| Variable | In the code or its world |
|---|---|
| `submissions`, `kv`, `notices` | what the controller wrote and sent |
| `holder` | `Service.mu` |
| `pc`, `job` | the running calls: `msg`, `desired.Record`, `state.State` |
| `file`, `stored` | `agent.state_file`, and what a power failure may turn it into |
| `device`, `boot` | the running and the saved configuration of the router |
| `result` | the final result published by the last step |
| `up`, `stable` | the process runs; the world has stopped misbehaving |

| Action | Code |
|---|---|
| `Acquire`, `FirstPlace` | the lock and the checks of the message |
| `HandleLoadsDesired`, `RecordMatches` | `LoadDesiredConfig` and the target/UUID checks of `Handle` |
| `LoadState`, `InSync` | `store.Load`, `already in sync` |
| `ReconcileLoadsDesired`, `ReconcileReturns` | the second half of `Reconcile` before the apply path |
| `Render`, `Apply`, `Save`, `Report` and their failing twins | `renderApplySaveAndReport` |
| `Fail` | `fail` and `failCommon`: a failed status, then a failure result |
| `Crash`, `Reboot`, `LoseFile` | the process dies; the router reboots; the file is removed or damaged |
| `WriteBack` | the state directory is synced, by `Save` or by the kernel in its own time |

A UUID is the number of the submission that first used it, which gives `older`
and `newer` their meaning.  A failing apply leaves the router as it was, with
part of the new configuration, or with all of it: the engine's stages (validate,
commit, save) may each fail.  `SaveAfterCommit` and `StateFileSurvives` are the
two deployment choices that decide what a reboot undoes.

`Save`, `WriteBack` and `Reboot` treat the file as `AtomicCheckpoint` promises:
the sync of the directory is best effort, so a save that was acknowledged may
still give way to an earlier checkpoint when the power fails.  The service must
then apply the same configuration once more, and nothing worse.  That one step
may stand for the system calls of `Save` is not assumed: `ConfigureOnDisk` (2.2)
shows it.

`Renderable` is the check of the placeholder.  The adapter hands a blank target or
UUID on to its backend, which is taken to refuse it as well; only a reconcile
pass gets that far, for `Handle` refuses a blank record itself.

Left out: status messages of this path.  A status that cannot be published is
logged and nothing else follows, so no modelled state depends on one.
Handlers run concurrently in the model; `handler_mode: sync` allows fewer
behaviours, so a safety property that holds here holds there.

`DesiredSync` is the promise made to the controller, with neither process nor
mutex nor message: configurations move forward, what is recorded runs or is
older, a success answer is true.  `Synchronises` says that the service
implements it.  `ConfigureConvergence` adds one history variable, `settled`: the
calls that have started, or still waited for the mutex, since nothing fails any
more.  What such a call must have achieved when it ends (`SettledCalls`) is the
safety half of `Converges` and `EveryRequestAnswered`, and can be proved.
`ConfigureReporting` adds one, the UUIDs whose success could not be reported, for
the two properties about what a later call says of them.

### 2.2 FileStore, ConfigureOnDisk

One action per system call group of `Save` (`Create`, `Write`, `Sync`, `Settle`
for chmod, close and the last look at the context, `Rename`, `SyncDir`), one
`Fail` for every early return, `Kill` and `PowerFailure` anywhere.  `current` is
what the name leads to now, `stored` the set of what it may lead to after a
power failure: a rename reaches the disk now or later, data that was not synced
may be damaged.  `Load` takes a damaged file for no checkpoint, which is why
`NeverDamaged` matters: damage would be silent.  `Remove` is the hand of an
operator.  `AtomicCheckpoint` is the
register with a pending write that it implements.  The sync of the directory is
best effort in the code, so a successful save may still be undone by a power
failure; the abstract specification says so (`past`).  Removing the temporary
file is assumed to succeed.

`ConfigureOnDisk` is `ConfigureService` with `FileStore` under it.  A call that
comes to the save enters `FileStore.Save` (`Enter`), keeps the mutex through its
system calls (`InSave`), and goes on or ends as it returns; other calls arrive,
the controller writes, the process dies and the power fails between any two of
them.  `file` and `stored` are what `Load` would make of the data on disk
(`Mirrored`), so that `OnePieceSaves` can ask whether this still is the service
of 2.1, and `AtomicSaves` whether the store keeps its own promise to such a
caller.  Only a file on storage that a reboot preserves is composed: one under
`/tmp` has no power failure to survive.

### 2.3 RttySession, RttyAction

`pc` is the place in `Execute`; `waiter[s]` splits what happens after an exit
into the four moments at which the code can be interleaved.  `Start` holds the
lock from `Launch` to the end of the watch, so `Clear`, the only step of a
waiter that needs it, waits (`Unlocked`).  A session is recognised by PID, as
in `vyos_rtty.go:131`, and the kernel gives a PID back when the process is
reaped, before the tracking ends; `EarlyReuse` says whether it may be given out
again before the waiter of the first process is through (`Holds`).  Later it may
be at any time.  That `Process.Kill` fails, which the code only logs, is not told
apart from its success: it fails only for a process that is gone.  `Restart` is the death of the agent: sessions live on in process
groups of their own and belong to nobody (`Owned`).

`RttyAction` puts it under `ActionService`: one command after another, each
served by `Handle`, whose executor is `Execute`.  What a command leaves behind, a
live session, a victim that is slow to die, a waiter, goes on beside the next.
`opened` remembers what the command has launched, for the property about what
its success tells.

### 2.4 RuntimeLifecycle

`pc` follows the process from its arguments (`ParseArgs`, `LoadConfig`,
`PrintConfig`, `Decide`, `Create`) through `Run`, `Start`, the wait for a signal
and `Close` to its exit code.  `asked` and `sound` stand for the command line and
the configuration file: whether it asks for help, is nonsense, looks at the
configuration or runs; whether the file can be read and is valid.  Before
`NotifyContext` a signal kills the process (`Killed`).  `kind`
says what each other goroutine does.  The reconnect handler holds `Runtime.mu`
between its look at `closed` and the `Add` (`counting`); that of `Close` is one
step.  `why` tells the two callers of `Close` apart: a startup that failed
returns an error whatever `Close` returns.  `prompt` never changes: it splits
the behaviours into those in which goroutines end within the timeout of `Close`
and those in which the timeout may strike.

### 2.5 TraceCapture, InterfaceChoice, ActionService, TraceAction

`TraceCapture` is one `Execute`: `ctx`, `capErr`, `upErr` are the errors of the
caller's context and of the two derived from it; a file is a number of packets.
The goroutine of the upload and the HTTP client are actions of their own.  The
code decides by looking at `captureCtx.Err()` after `Run` has returned, and so
does `Captured`.  The code takes any
final 2xx for an acceptance.  That such an answer is given only to a request the
server got as a whole, never early and never after a redirect that drops the
body, is an assumption about the server, and what `TruthfulSuccess` says of the
server depends on it.  It may reject, stall or drop a request when it likes.  Validation of the payload is
one refusal.

`InterfaceChoice` is the stage of it that looks at the network.  The listing, the
alias of each interface and the master of each are reads of their own, and
`Change` may come between any two: an interface comes, goes, gets or loses the
alias or a master.  In the code all is read before any is judged; the model
judges each as it is read, which comes to the same, and reads them in any order.
`wasNamed`, `wasFree` and `lasting` are history variables: they say what was so
at some moment of the call, and what was so throughout.

`ActionService` is `Handle` with each publication succeeding, failing, or
failing although it was delivered; what a status says is of no consequence, only
whether it could be published.  `TraceAction` conjoins the two: `Executed`
takes the outcome `Execute` returned, and nothing else is shared.

### 2.6 SubjectPattern

`CheckShape` and the `Scan` actions are one character after the other of
`validateFormatPlaceholders` and what its callers test before; the actions of
`Sprintf` are those of Go's formatter, as far as it can be called for strings.
It runs after every scan, whatever the verdict, so that a refusal can be judged
too.  `Sprintf` consumes an argument for some errors as well; since `garbled`
stays, nothing depends on that.  Explicit argument indexes (`%[1]s`) are left
out: validation refuses them as it does any verb but `s`.

### 2.7 RenderInput, AgentInputs

`RenderInput` is `payloadAndMetadata` for one of the two fields, name or version,
which do not touch each other.  `stated` has the four places in the order in
which the code lets them override one another.  JSON's `null` decodes into a
string without an error, as the empty one, and so counts as a statement.

`AgentInputs` runs `SubjectPattern`, `InterfaceChoice` and `RenderInput`, one in
each behaviour: three sequential readers that share nothing.

## 3. The runs

| Run | Question | Bounds, and why they are enough |
|---|---|---|
| `configure_core` | safety of the configure path and its refinement, with unlimited crashes, power failures, losses and duplicates | 2 workers: one call is read against one that changed what it read. 3 submissions: what is running, what is being applied, and a newer one. 1061120 states |
| `configure_liveness` | convergence and an answer to every request, and what a call that runs in calm achieves, with the documented defaults (no boot save, a checkpoint under `/tmp`) | 2 workers, 2 submissions: an older configuration to come from. Records and notifications may be malformed. 104874 states |
| `configure_on_disk` | atomicity of the checkpoint one system call at a time, and whether the service may count on it, with any records (foreign, blank, submitted again) | 2 workers: one in `Save`, one that waits or arrives. 2 submissions: a checkpoint in effect, one being saved, an older one to come back. Crashes and power failures without bound. 1121306 states |
| `rtty_session` | preemption of sessions and the answers to their commands | 3 sessions: one given up, one being replaced, one replacing; commands without bound. The agent may restart. 248121 states |
| `lifecycle_shutdown` | the process from its arguments to its exit code | 3 workers: two passes and a handler that blocks them. 4401 states |
| `trace_action` | truth, cleanliness and termination of a capture, and the answers to its command | 2 packets: none, some, all of the file copied. 5388 states |
| `agent_inputs` | validation of patterns against what `Sprintf` makes of them; the interface chosen while the network changes; the schema of a payload | patterns of up to 5 of 7 kinds of characters: two placeholders and one more character anywhere. Loopback and 3 interfaces: one that is read, one before, one behind it; changes without bound. Two values of a field, null, and ill-typed ones, in four places. 637468 states |

Five more runs end in a counterexample, because the code does something that a
document or comment of the repository denies; section 5 tells them.

The properties:

* `SuccessIsTrue`, `CheckpointNotAhead`, `NoRedundantApply`, `NeverRegress`,
  `Synchronises`: see 1.3.  All but the first are about failures between two
  steps: an apply without its save, a reboot without a boot save.
  `RecordedAsRun`: what a live agent writes to the checkpoint runs at that moment.
* `SettledCalls`: a notification that is served in calm is answered with success
  exactly if it announces the record, and a reconcile pass leaves the router and
  the checkpoint at the latest record.
* `Converges`, `EveryRequestAnswered`: once `stable` holds.  The premise of
  `Converges` is that a reconcile pass is due, for the code has no other way to
  find a record whose notification was lost (nothing polls), and that the record
  can be rendered.
* `AtomicSaves`, `OnePieceSaves`: the checkpoint file, for itself and for the
  service.  `DiskInv` contains that it is never damaged (`Intact`).
* `Preemptable`, `OneSession`, `TrackingEnds`: terminals.  `SessionTold` relates
  the answer to a command to all sessions there are: one is its own and stays,
  the others were sent SIGKILL.  `CommandReturns`: each command is answered, or
  the agent restarted.
* `StartsWhenAsked`, `NoAddAfterWait`, `ClientClosedLast`, `CleanExit`, `ShutdownReturns` (goroutines
  may be stuck for ever) and `ClosesGracefully` (they are not): the runtime.
* `WholeCapture`, `NothingLeft`, `TruthfulSuccess`, `Answered`, `HandleReturns`,
  `ProducerEnds`: the trace action.
* `AcceptedFormats`, `RefusedForReason`: a pattern is accepted exactly if
  `Sprintf` fills it with every argument and no error, flags, other verbs and
  escaped percent signs aside.
* `Witnessed`, `NoRival`, `FoundIfCalm`: the interface of a trace.  `Witnessed`
  says as much as the code achieves: alias and master are read at two moments,
  and an interface may have been fit at neither as a whole.
* `Innermost`: of all that states the schema of a payload the innermost decides.
* `IInv` (of the configure service), `RuntimeInv`, `PatternInv`, `JointInv`,
  `DiskInv`: the inductive invariants, checked before they were proved.

Every property of a passing run has a mutant in `PROJECT.json`: a plausible bug,
written in the module as an operator next to the one it replaces and marked
`Mutant`, that violates the property under the same configuration.

`CHECK_DEADLOCK FALSE` stands where the system may come to rest: an agent with
nothing left to do, a command that was answered, a process that has exited, an
input that was read.  A terminal executor can always be called again, up to the
bound.

### 3.1 Fairness, and why the code gives it

* **Running goroutines run** (weak fairness of the steps of calls): Go's
  scheduler is preemptive and fair to runnable goroutines.
* **A mutex serves those who wait** (strong fairness of `Acquire`, `MarkClosed`,
  `Waiter`): `sync.Mutex` goes to starvation mode when a waiter has waited for
  1ms and is then handed over in order.
* **The agent is restarted** (`Restart` of `ConfigureService`): it is run by a
  supervisor.
* **Timers fire** (`GraceEnds`, `GiveUp`, `WatchEnds`, `TimeOut`,
  `CaptureTimeout`, `UploadTimeout`): `select` with `time.After` and contexts
  with deadlines.  The end of a context that nothing ends (`EndContext`,
  `CancelledInGrace`) has no fairness.
* **SIGKILL kills**: a process that was sent it exits in the end, tcpdump too
  when its context ends.  SIGTERM promises nothing.
* **Publications return**, with or without an error: agentcore's are bounded by
  `publish_timeout`.
* **A closed pipe stops the goroutine**; reading a local file does not block.

No fairness is assumed of packets, of the upload server, of passes and handlers
of the runtime (except where `ClosesGracefully` assumes it openly, as
`Cooperation`), of exits by themselves, of notifications or of reconnections.

## 4. The proofs

TLC checks the instances above; the theorems hold for every number of workers,
submissions, sessions, packets, crashes and PIDs.  Each follows one pattern: an
inductive invariant `Inv`, `Init => Inv`, one step per action for
`Inv /\ [Next]_vars => Inv'`, and the property from the invariant.

**ConfigureServiceProofs** comes in three parts.

*Any deployment.*  `BaseInvariant` proves `BaseInv`, which assumes nothing of the
records: `LockInv`, that exactly the call inside its critical section holds the
mutex, and `CallInv`, what a call has established at each place: that message
and record agree, that a record about to be applied can be rendered and is not
what the checkpoint records, that the router runs what is about to be recorded.
It survives the steps of others because they cannot apply or save (`LockInv`).
`RecordsAsRun` follows, and `AppliedOnce` if no record names another router: the
in-sync test of a reconcile pass is about this router's own name, so a foreign
record is applied again by every pass.

*A disciplined deployment* (`Disciplined`): records name this router, a UUID is
not submitted twice, and a checkpoint that survives a reboot goes with
`save_after_commit`.  Without any one of the three a property is false: the runs
`configure_foreign` and `configure_rollback` show it of the first two, and the
design gap that section 5 tells, of a reboot, is the third.
`SuccessIsTrue` is not inductive: a success result that says `already in sync`
relies on the checkpoint, and that on everything that was done to the router
since.  `IInv` adds to `BaseInv`

* `OrderInv`: latest record >= running >= boot configuration and checkpoint,
  boot configuration >= every checkpoint that a power failure may bring back, and
  a checkpoint equal to the running UUID means that all of it runs;
* `ForwardInv`: a record about to be applied is not older than what runs
  (`Current`) and newer than what is recorded.  This survives the steps of the
  controller because submissions only grow.

`SuccessResultsAreTrue`, `CheckpointHonest` and `NoRegression` follow;
`ImplementsDesiredSync` shows that every step maps to one of `DesiredSync` or to
a stutter, and `PromiseMeans` that this is worth having: from `DesiredSync` alone
it follows that the checkpoint is not ahead of the router, nor the router of the
controller, and that a success answer names what runs.

*Calm.*  `SettledInvariant` says that a settled call works on the record and the
checkpoint as they are: nobody writes a record any more, and whoever else could
save or apply does not hold the mutex.  `RequestsDecided` follows in any
deployment; `CalmCallsDeliver` needs the disciplined one for reconcile passes,
which believe a checkpoint that is in sync.  These are the two liveness
properties short of that the calls end.

**ConfigureOnDiskProofs**, from `DiskAssumption`: damaged data is no record, and
a reboot preserves the state file.  First the store: `IInv` of `FileStore` says
what is in the temporary file at each system call, and that it is synced before
the rename; each step is one of `AtomicCheckpoint` or a stutter.  Then the two
together.  That the steps are steps of the service needs the store (what the
rename brings into effect is what the service meant to save), and that they are
steps of the store needs the service (what it saves is a record, and no second
call gets into `Save`).  So `DiskInv` is one invariant: `BaseInv`, the store's
`IInv`, the mirror, and who is in `Save` (`SaverInv`).  `SavesInOnePiece` and
`SavesAreAtomic` follow, and with the first `PromisesKeptOnDisk`: what is proved
of `ConfigureService` holds on the real store.

**RttySessionProofs**, assuming `~EarlyReuse` (`rtty_reuse` shows what happens
otherwise): sessions that still hold their PID have different ones, so a waiter
ends its own tracking and no other; whoever is taken out of the tracking is the victim or was killed.
`NoneForgotten` and `NoTwoSessions` follow.  The second needs that nothing is
tracked between `Take` and `Launch`.  `Composition` shows that the commands are
calls of `Execute`, so both carry over to `RttyAction`.  `JointInvariant` adds
that from `Launch` on nothing else is tracked than what the command opened, and
that this was not sent SIGKILL; `ToldOfTheOne` follows with `Preemptable`, and
`AnsweredOnce` from the lemmas of `ActionService`.

**ActionService** holds the lemmas about the service that both compositions use:
it keeps its invariant, and answers with success only what it was told is one.

**RuntimeLifecycleProofs**, from `MainAssumption` alone: `closed` is set exactly
from `MarkClosed` on, and while it is set no reconnect handler counts.  Hence no
pass is added once `Close` waits (`WaitMissesNoPass`), so an empty WaitGroup
stays empty until the client is closed (`PassesEndFirst`).  Where the process has
got to says what it was asked and that its configuration is valid:
`LookingStartsNothing`, and with the paths to `exit` `ExitCodeHonest`.

**TraceActionProofs**: `CaptureInvariant` for the executor alone (what is
written does not change once tcpdump has exited, and only the whole of it closes
the pipe without an error) gives `WholeRequests`.  `Composition` shows that a
behaviour of the composed action is one of each of its parts, so what is proved
of the capture alone carries over.  `Invariant` adds how far the command has got
when `Execute` runs; `SuccessIsTrue`, `CleanedUp` and `AnsweredOnce` follow.

**SubjectPatternProofs**, from `MaxLengthAssumption` alone, for patterns of any
length: `PatternInv` says that the scan has seen only placeholders so far and counted
them, and that `Sprintf`, wherever it has got to, has used as many arguments as
there are placeholders behind it.  Two lemmas count the percent signs of a prefix
one character longer.  `AcceptedIsUsable` and `RefusedIsUseless` follow at the
end of the pattern.  `PatternInvariant` carries it over to `AgentInputs`.  For
payloads, from `ValuesAssumption` (a schema name is neither of the two words the
model keeps for none and for an ill-typed one): what has been decided so far is
the innermost statement among the places read (`Decides`), and `InnermostDecides`
follows.

**InterfaceChoice** holds the lemmas about the choice of an interface: `ScanInv`
says that what lasts is a candidate or is still to be read, and that a candidate
was seen with the alias and without a master; changes only add to the history
and take from what lasts.  SubjectPatternProofs, which extends `AgentInputs`,
carries them over to the composition, from `LoopbackAssumption` and for any
number of interfaces: `ChoiceInvariant`, and with it `NoStranger`,
`AmbiguityNoticed` and `CalmSuffices`.

Only model-checked: the liveness properties (`Converges`,
`EveryRequestAnswered`, `TrackingEnds`, `CommandReturns`, `ShutdownReturns`,
`ClosesGracefully`, `HandleReturns`, `ProducerEnds`), which need reasoning about
fairness and `ENABLED` that TLAPS does not support.  Every other property that a
passing run checks is a theorem.

## 5. Findings

| Run | What the code does | What the repository says |
|---|---|---|
| `configure_foreign` | `Reconcile` takes the target from the record and applies a record that names another router | `README.md:346`: reconcile passes verify target and UUID |
| `configure_late_failure` | a configuration is applied and checkpointed, its success result is lost, and a later pass over the same UUID that cannot read KV answers failure | `SPEC.md:607-610` forbids the contradictory failure |
| `configure_rollback` | after a failed save, resubmitting the previous UUID is answered `already in sync` although the router runs the newer one | `tests/lab/README.md:200-201` recommends resubmitting a known-good configuration |
| `configure_silent_pass` | the success of an applied and checkpointed configuration could not be published, and the next reconcile pass finds it in sync and publishes nothing either | `README.md:346-347`: reconcile passes, too, publish `already_in_sync` success; `SPEC.md:688` only asks them to continue normally |
| `rtty_reuse` | a waiter recognises its session by a PID that was given back, and ends the tracking of a session started since | `vyos_rtty.go:101-103`: a session lives until preempted |

A gap in the design rather than a divergence: with a durable state file and the
default `save_after_commit: false`, a reboot loses the configuration of the router
but not the checkpoint, and the startup pass, which compares UUIDs as
`SPEC.md:688` prescribes, finds it in sync and leaves the router at what it
booted with.  No document promises anything else, but `tests/lab/README.md:192-193`
asks for a state path outside `/tmp` in production without mentioning
`save_after_commit`.  `Disciplined` rules the combination out, so `SuccessIsTrue`
and what follows from it are claimed only without it.

Seen while modelling, without a run: sessions outlive a restart of the agent and
are then out of its reach (by the design of `Setsid`); a tcpdump that fails just
before its time is up counts as a capture; a success result that was delivered
although its publication reported an error is followed by a failure result; the
pattern for interface names in the code (`safeInterfaceRegex`) is not the one of
`SPEC.md`; the `received` status of an action precedes the test whether it is
enabled, where `SPEC.md` lists them the other way round.

## 6. Not modelled, and why

* Logging, message envelopes and the printing of the configuration: formatting.
* The inside of the renderer and the apply engine: other repositories.
* Loading, defaults and conversion of the configuration: copies of fields.  The
  other checks of `validate.go` compare one field with a constant each; in
  `RuntimeLifecycle` they are `sound`.
* The commands run for the terminals, argument by argument; the text of errors;
  which characters an interface name may have.
* Whether an action is enabled and has an executor: both are fixed when the agent
  starts, and a refusal is one choice of `TellReceived`.
* Overlapping trace commands: they share nothing, each has its own file.
* Whether agentcore delivers: notifications may simply be lost here.
* A failure to remove a temporary file.
* Tests, scripts, prompts and the lab: not part of the program.

## 7. Plan

The order of the work: the configure path and its promise first, because a router
that runs something else than the controller was told is the worst that can
happen; the file it relies on, with what a power failure brings back; the
sessions; the process and its shutdown; the trace action; then the commands of
both actions from end to end, and the readers of patterns, payloads and
interfaces.

What is left is proving more:

1. The safety half of the other liveness properties, as `SettledCalls` is that of
   `Converges`: that a step of the runtime or of a command that ends it leaves
   nothing to be done.
2. That a second `rtty` command that ends in success leaves the first one's
   session dead in the end: `SessionTold` with the liveness of SIGKILL, which
   stays with TLC.
