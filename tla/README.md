# NephMesh: specifications and proofs

NephMesh drives LoRa mesh radios from Kubernetes. A `MeshtasticNode` declares
the configuration of one radio; an operator reads the radio, compares, writes
what differs, reboots it and reports on the object's status. Around that core
there are an intent compiler, a spectrum exporter, resilience accounting and a
Model Context Protocol server. This directory specifies the core in TLA+,
model-checks it with TLC and proves its main safety properties with TLAPS.

Paths below are relative to the repository; `op/` stands for
`src/operators/meshtastic-operator/`.

## 1. The system

### 1.1 Components

| Component | State it keeps | Operations | Talks to |
|---|---|---|---|
| Convergence step, `op/internal/reconcile/converge.go` | none: `State` in, `Outcome` out | `Converge`, `NextState` | a `device.Client` |
| Device clients, `op/internal/device` | the radio (outside), the Fake's copy of it | `ExportConfig`, `Apply`, `ApplyChannels`, `Reboot`, `Info`, error classification | the radio, through Python helpers (`op/hack`) |
| `MeshtasticNode` controller, `op/internal/controller/meshtasticnode_controller.go` | the status subresource (attempts, hash, conditions, fingerprint of bound Secrets), the finalizer | `Reconcile`, event filter, finalizer, failure reports | API server, informer cache, work queue, Secrets, the step, gauges |
| Node gauges, `op/internal/metrics` | Prometheus series per node | `Record`, `Forget` | the controller, scrapes |
| Demo loop, `op/cmd/reconcile-demo` | a `State` between steps | the loop around `Converge` | the Fake or a real radio |
| Comparison, `op/internal/config` | none | `FromSpec`, `Drift`, `ChannelDrift`, `WriteOnlyPasswordHash`, `SecretsFingerprint` | the step, the controller |
| Intent compiler and controller, `op/internal/intent`, `op/internal/controller/communicationintent_controller.go` | status of a `CommunicationIntent` | `Compile`, `Reconcile` | API server, airtime model |
| Airtime and planning, `op/internal/airtime`, `op/internal/plan` | none | `TimeOnAir`, `Fleet`, plans | compiler, controller conditions |
| Delivery probe, `demo/resilience/probe.py` | what was sent and received in this run, the log it writes | a sending thread, callbacks of the receiver interfaces | the mesh; its log is read later |
| Resilience accounting, `op/internal/resilience` | none (a reduction over a log) | `Reduce`, `ReducePhases` | the probe's log, command line |
| Spectrum, `op/internal/spectrum`, `op/internal/specexport`, `op/cmd/spectrum-exporter` | the last sweep's gauges | parsing, classification, `Publish`, `PublishError` | a radio scanner process, scrapes |
| Operator process, `op/cmd/main.go` | its informers, queues, gauges; leader election off by default | start, stop, probes | every replica shares API server and radios with the others |
| Offline plan, `op/internal/plan`, `op/cmd/nephmeshctl` | none | `ParseSpec`, `Run`, `FromResult`, exit codes | the intent compiler; used by the command line and the MCP server |
| MCP server, `op/internal/mcpserver`, `op/cmd/nephmesh-mcp` | none between requests | one request or notification at a time over a pipe | a model client, the offline plan, the spectrum analysis |
| Advisor, `op/internal/advisor` | none | validation of proposals | a language model |
| Mesh frames, secrets, command line | none | parsing, redaction, presentation | |

The flow of one reconcile: pop the key, read the object from the informer
cache, handle the finalizer, read the Secrets (uncached, one after the other),
build the desired state and the reconcile memory from the status, run one
convergence step, publish gauges, write the status under optimistic
concurrency, and return a delay after which the key comes back.

One convergence step: export the configuration; if the export carries no node
id, ask `--info`; compare; then return in-sync, unobservable, gave-up, or write
one surface (the scalar configuration first, channels only once it matches),
reboot, and return with one attempt more.

### 1.2 What is hard

* **Write-only state.** The radio never exports the MQTT password. A hash in
  the status stands for it, so the status and the radio must never disagree in
  the direction "status says written, radio does not have it".
* **A bound on reboots.** Every write reboots a radio. Fields the radio does
  not echo look like drift forever, so attempts are counted in the status, and
  the count must survive drops, conflicts, crashes and stale reads.
* **Calls that fail half way.** A session that drops under `Apply` may have
  written all, nothing or part of it. A hard error after a write is retried by
  back-off.
* **Optimistic concurrency and stale caches.** The status write may conflict
  with an edit, and a reconcile may start from a copy older than its own last
  write.
* **Waking up.** Status writes are filtered from the watch, Secrets are not
  watched, the finalizer is added without a requeue: progress rests on the
  `RequeueAfter` of each return and on which updates pass the predicate.
* **Deletion.** The finalizer goes before the gauges; what happens in between
  decides whether a deleted node's series remain.
* **Two operators.** During a rolling update, or with two replicas, two
  processes reconcile one node, each with its own cache and memory of the step
  it is in, against a radio that tells no client from another.
* **Two pipes.** The MCP server writes an answer before it reads on; host and
  server can each wait for the other, and a line can end with the file.

### 1.3 What makes each component correct

* Step: the attempt is counted whenever `Apply` was called and not on a hard
  error; the hash advances only on an acknowledged scalar write or with Ready;
  channels are never written against an export without them; every outcome asks
  for another look.
* Loop: applies stay within the bound; converged means the password is on the
  radio, and that the configuration has been booted but for a write that landed under a
  dropped session or whose reboot was refused, until the next boot.
* Controller: applies beyond the status's count are exactly those whose result
  was lost; the stored hash is of the radio's password unless a write is
  unacknowledged; Ready is stored only over the spec it was verified for; no
  object is forgotten; a deleted object's gauges go; deletion completes; after
  the last disturbance the status settles to what is true.
* Comparison: drift is reported exactly where a declared field differs after
  normalisation; a channel is compared by slot, and the forms of the default key
  are one key; what was written is found again.
* Device clients: an outage, a timeout, a shutdown and a hard error are told
  apart; a channel list is checked before it is written and, where the library
  can, written whole or not at all; every call returns.
* Intent: an intent renders exactly when every target can have its own node;
  the airtime verdict agrees with the percentage shown and adding load never
  helps; a stored verdict is of the generation it names and is written once;
  no edit is missed.
* Resilience: a window is never credited beyond what it expects, a receipt
  counts in the phase of its own send, the two reducers agree, and what the
  probe summarises can be had from its log.
* Spectrum: between sweeps the gauges are the last sweep's, a band it missed has
  no values, no value is older than the time stamp; noise floor, occupancy, peak and
  width are what the capture holds, whatever samples and rows were skipped.
* Offline plan: a verdict is of the whole text it was asked of, and the command
  line and the MCP server give the same one.
* MCP server: a request gets exactly one answer, in order and under its own id,
  a notification none, and every session ends whose host keeps reading.
* Two operators: every apply past the bound is paid for by a status write that
  was refused, a fault or an edit, but for the one in flight; the stored hash is of
  the password on the radio unless one of the two has a write unacknowledged.

The hazards behind these, each at its line, are listed in `PROJECT.json`.

## 2. The modules

| Module | What it is |
|---|---|
| `Converge` | the convergence step in progress, the radio, the world around it: one action per device call and per branch of the comparison. It has no `Next` of its own: a caller extends it. |
| `ConvergeProofs` | what every caller of `Converge` may rely on, as lemmas |
| `ConvergeLoop` | `Converge` called in a loop by the demo |
| `Provisioning` | what that loop promises of a secret nobody can read back: the abstract specification it implements |
| `ConvergeLoopProofs` | its theorems |
| `NodeController` | `Converge` called by `Reconcile`: API server, informer, queue, timers, Secrets, gauges, crashes, users |
| `NodeControllerProofs` | its theorems |
| `MCNodeController` | specs and symmetry for TLC |
| `TwoOperators`, `MCTwoOperators` | two instances of `NodeController` over one API server and one radio |
| `TwoOperatorsProofs` | its theorems |
| `Airtime` | LoRa time on air and fleet utilization, in integers |
| `IntentCompile` | `Compile`: feasibility, preset selection, airtime verdict |
| `IntentPlan`, `MCIntentPlan` | an intent revised step by step and compiled after each revision, as `nephmeshctl plan` does |
| `IntentController`, `MCIntentController` | the reconciler of `CommunicationIntent` around `Compile`: API server, informer, queue, conflicts, restarts, broken watches |
| `IntentRegister` | what the reconciler promises: the abstract specification it implements |
| `IntentControllerProofs` | its theorems |
| `OfflinePlan` | `ParseSpec`, `Run` and `nephmeshctl plan`, over YAML documents |
| `McpServer`, `MCMcpServer` | one session of `nephmesh-mcp`: the loop over two pipes, every method and tool, and its host |
| `Resilience` | both delivery reducers, as operators on a log |
| `DeliveryProbe`, `MCDeliveryProbe` | the probe's threads and the log they leave behind, reduced in every state |
| `ResilienceProofs` | theorems of the probe and the reducers |
| `ConfigDiff` | desired state, export document, `Drift`, `ChannelDrift` and channel keys, over one field of each family |
| `DeviceCLI`, `MCDeviceCLI` | the calls of `CLIClient`, the helper process of each call, its context and the radio it writes |
| `DeviceCLIProofs` | theorems of the comparison and of the client |
| `SweepAnalysis` | a power sweep reduced to numbers per band and to emissions |
| `SpectrumExporter`, `MCSpectrumExporter` | the sweep loop and `Publish`, one series at a time |
| `SurfaceProofs` | theorems of the surfaces: planning (`IntentPlan`), the server's session (`McpServer`), the publication (`SpectrumExporter`), what a sweep reports (`SweepAnalysis`) |

`NodeController` and `ConvergeLoop` extend `Converge`; `IntentController` extends
`IntentCompile`, which extends `Airtime`, and so does `IntentPlan`; `DeliveryProbe`
extends `Resilience`, `DeviceCLI` extends `ConfigDiff` and `SpectrumExporter` extends
`SweepAnalysis`; `McpServer` extends `OfflinePlan`, which extends `IntentCompile`.
`TwoOperators` instantiates `NodeController` twice, and its proofs `NodeControllerProofs`
twice; `SurfaceProofs` extends the three it is about, whose specifications are
therefore named apart: `Spec`, `PlanSpec` and `ExporterSpec`. `DeviceCLI` is what stands behind the calls that `Converge` treats as
acked, dropped or failed: it shows where each of the three comes from.

### 2.1 State and actions against the code

`Converge`. `radio` is what the device holds (`up`, whether it has `booted` its
configuration, whether the exporter is the `stock` one, and the scalar
configuration, password and channels as opaque values). `pc` is the next call
of the step; `desired` and `prior` are the arguments of `Converge`; `live`,
`identified` and `write` its locals; `outcome` its result. Every `return` of
`Converge` is an operator (`ReadyOutcome`, `DegradedOutcome`, ...) and every
call an action: `ExportRead`/`Dropped`/`Failed`, `InfoRead`/..., `CompareInSync`,
`CompareUnobserved`, `CompareGivesUp`, `CompareWrites`, `ApplyAcked`/`Dropped`/
`Failed`, `Reboot`. `World` is the radio failing, coming back and being edited
by another client between any two calls. `faults` and the bound `MaxFaults`
limit only what goes wrong, never what the code does. `tries` is a history
variable: `Apply` calls since the budget was last reset.

`ConvergeLoop` adds the loop's `state`, its exit and one more history variable:
`bootOwed`, true from a write of the loop that landed to the next boot, unless the
reboot that Converge sends after it was taken. It is booked where the two calls are
made (`LoopCalls`) and where the radio boots by itself (`LoopWaits`).

Data are abstracted to what the step does with them: `config.Drift` is "the
scalar configurations differ", `ChannelDrift` "the channel sets differ", and a
`MuteScalars` configuration is one that the radio never echoes as declared.

`NodeController`. `obj` is the object in the API server; `undelivered` says
that some version the informer has not delivered yet passes the event filter;
`cache` the informer's copy; `queued` and `timer` the work queue's one key; `at`
the place of `Reconcile`, with `node` the copy it works on; `stale` which copies
are older than `obj`, which is all a `resourceVersion` is used for; `gauge` the
Prometheus series. `uncounted`, `unacked` and `orphaned` are history: applies
not in the status, a radio password no status acknowledges, an object that went
without an acknowledged finalizer removal. One action per step of `Reconcile`,
with each API write split into made, refused, and made-but-unanswered;
`Persisted`/`NotPersisted` is the status update. `Crash` loses the queue, the
timers, the gauges and the reconcile in flight. `Users` edit the spec, rotate
and delete Secrets, delete, strip the finalizer and re-create.

`Airtime` and `IntentCompile`. The code computes milliseconds and percent in
floating point; the module computes microseconds and cross-multiplies, which is
exact for the eight presets. A spec is the list of targets with their node
names, the approved presets in order, and the traffic or none; a result is what
`Compile` returns, with the rendered nodes reduced to which target has which
preset. Offline no admission check has run, so unknown presets, empty lists and
duplicate names are inputs.

`IntentController`. `object`, `cache` and `working` are versions of the stored
object, its informer copy and the copy under reconcile; `rv` the resource
version, `feed` the watch events on their way. `declared` (the spec at each
generation of the object that stands) and `writes` are history. `Inform` is the
predicate applied to the difference between the old copy and the new one,
deletions and creations always pass. A status update is stored, refused by the
resource version, or fails, stored or not. `Relist` is the informer listing again
after a broken watch: it sees one version and none of those between.

`Resilience` and `DeliveryProbe`. A log is the sequence of EVENT lines. Every
line is flushed, so each state of `log` is what a probe killed at that moment
leaves: no action for the kill is needed. `OnReceive` and `EmitReceipt` are the two
halves of a callback, under the lock and after it; `SendText`, `RecordSent` and
`EmitSent` the parts of one send. Ratios are fractions and the tolerance whole
percents, so a drop exactly at the tolerance is "unchanged" as the comment has
it, where the code's floating point may round either way. Latencies are left out,
the wall clock does not step back, and only the intervals advance it. A schedule may
ask for no interval at all (`probe.py:83`): then the clock of the model stands still and a
boundary can fall on the very time of the send before it, which the reducer counts
to the later phase. In the code the call of `sendText` and the line keep the two apart, as a
rule by more than the microsecond a BOUNDARY is printed with. `Custody` is
claimed of the schedules that leave time between their segments (`Spaced`).

`ConfigDiff` and `DeviceCLI`. A document is a set of leaves, each with the style its key
was written in, so a comparison can fail to find a field that is there. A call
(`Call`) starts a helper (`Spawn`) whose steps, `Connect`, `ReadConfig`, `WriteSection`,
`WriteSlot`, `Commit`, run against the deadline (`Expire`), a shutdown (`Cancel`), a
link that drops (`LinkLost`) and a radio that stops answering (`Hang`). `staged` is the
open settings transaction of `mesh-apply.py`. `cause` is why the helper ended; `Return`
classifies it as `looksUnreachable` reads the text. `settled` is history: what has been
written with success and not been edited by `OtherClient` since. What `mesh-export.py`
reads is what the library has been streamed. A section that did not arrive is left out if
asking for it raises; the library may also answer for the MQTT module with the defaults of
its protobuf, and an export cannot tell that from a radio with MQTT off (`Streamed`).

`SweepAnalysis` and `SpectrumExporter`. A capture is a sequence of rows with powers;
a token that is no finite number is `Absent`, a row that is skipped has no powers.
Frequencies are in half hertz, since a bin stands at the centre of its step, and the
grid is stable to the hertz, so grouping by rounded frequency is grouping by frequency.
Percentages are compared by cross-multiplication. A sort is its result: each thing is put
at the place that counts what does not come after it (`InPlace`, `Ascending`, `Sorted`),
and a loop that appends what passes a test keeps the positions that pass (`Keep`); written so,
without recursion, the reduction can be proved about. `Publish` is three actions per series
(`Create`, `Set`, `Delete`) and `Stamp`: the registry is read from another goroutine with
no lock around `Publish`, so each state is one a scrape can see in part. `written` and
`published` are history.

`TwoOperators`. The radio, the object and the Secrets are shared, every other variable
of `NodeController` is there twice. `OperatorA` is a step of the first instance; what
it stores leaves the other's copies behind and goes to the other's informer through the
same predicate (`WatchedByB`). The resource version decides between two status writes, so
one of two that race is refused, which `refused` counts. Both start on a node that is
managed already and was never applied. A user only rotates a Secret; the other edits are in `node`.

`OfflinePlan`. A text is a sequence of YAML documents, each told apart by what `ParseSpec`
looks at: whether it is a mapping, its `kind`, whether it has a `spec`, what the spec says.
The library decodes only the first document; `ParseError` refuses a text with more. Output and errors are values; how they are printed is
left out.

`McpServer`. `input` and `output` are the two pipes with all that went through them,
`read` and `taken` how far each side has come, so `InPipe` and `OutPipe` bound the
differences. A request's own id is the number of its line; `line` in an answer is history
and tells for which line it was written. `ServeLine` is one turn of `Serve`: handle a line,
then write and flush, which waits while the pipe is full. `stdin` is "cut" when it ended
without a newline: the end of file then comes with the last line, and the loop handles that
line before it stops (`AfterLine`). An ended pipe that is empty stops it as well (`ServeEOF`). The host writes, reads, closes its end or dies at any time.

### 2.2 Refinements

`Provisioning` knows a secret that was asked for, the secret stored, attempts
and a claim of success, and nothing of exports, hashes, sessions or reboots. `ConvergeLoop`
implements it (`ImplementsProvisioning`), with the password of the desired state as what is
wanted, the radio's as what is stored, applies as attempts and the loop's exit as the claim.

`IntentRegister` knows the specs an intent has been given and one verdict, published as
if compiled from the current spec in that instant and at most once a generation.
`IntentController` implements it (`ImplementsRegister`), with the stored object's history as
the specs and its status as the verdict; cache, queue, conflicts and restarts are stutters.

### 2.3 Bounds

`MaxApplyAttempts` is the code's constant (5) made smaller; `MaxFaults`,
`MaxEdits` and `MaxSteps` bound how often the world, the users and the demo loop
act in one behaviour. `MaxChanges`, `MaxFaults`, `MaxRestarts` and `MaxRelists` do the
same for `IntentController`, `MaxCalls` for `DeviceCLI`, `MaxSweeps` for
`SpectrumExporter`, `MaxLines` for `McpServer`; `MaxNodes` bounds the targets of
`IntentPlan`, `MaxRaces` the refused status writes and the rotations of `TwoOperators`. All
appear only in guards. `InPipe` and `OutPipe` are what the kernel holds, and part of the system.

## 3. What TLC checks

| Run | Shows | Bounds |
|---|---|---|
| `loop` | the loop implements `Provisioning`: it writes within the bound, only what was declared, and ends converged only when it is there; a converged radio that has not booted what it stores had a write that landed under a dropped session, or whose reboot was refused, and no boot since | two configurations, one of them mute, two channel sets, both exporters, 2 attempts, 2 faults, 7 steps |
| `node` | the controller's accounting of attempts and of the password, Ready only for the declared spec, nothing forgotten, gauges removed | two specs (one with everything, one of which the radio echoes nothing), two passwords and two channel sets (symmetric), both exporters, 2 attempts, 1 fault, 2 user actions |
| `liveness` | the status settles to what is true, deletion completes | three specs, one with an unsupported transport, one password, two channel sets, the bundled exporter, 4 attempts, 1 fault, 1 user action |
| `plan` | every intent of up to four targets with duplicate names, unknown presets and odd rates, after each revision; time on air against the datasheet's count of coding blocks | three names, five approved lists, five rates, eight payloads at the bounds of the CRD |
| `intent` | the reconciler implements `IntentRegister`: verdicts are of the spec that stands and stored once a generation; no wake-up is lost and every intent settles, but that a broken watch may cost an intent its first verdict | three specs, 5 changes by users, 2 faults, 1 restart, 2 broken watches |
| `delivery` | credits, agreement of the reducers, summary against log, declared against observed receivers, phases | two receivers over two segments, one over three with four messages, a list that names one of two twice, one over three segments of which one is empty and one leaves no time between its sends; three scopes; every split time |
| `device` | drift is reported exactly as far as the export was streamed, what was written stays converged, channels are checked before they are written and written whole, errors are told apart, every call returns | five specs and four channel lists, three radios, both transports, helpers and libraries, 2 slots, 2 calls, 1 fault |
| `exporter` | gauges are those of the last sweep, none older than the stamp; what a band reports is what some 400 captures hold, and no two emissions share a frequency | two bands, rows of up to four bins on and off the grid, up to two rows, 2 sweeps |
| `operators` | two operators overrun the bound of applies only where a status write was refused, the Secret was rotated or one apply is in flight; the stored hash is true unless one of them has a write unacknowledged | a password and a field the radio never echoes, two passwords (symmetric), 2 attempts, no fault, 1 refusal or rotation |
| `session` | every request is answered once, in order and under its id; a tool call says what the command line says of the same text; every line is handled and every session ends | two lines out of 27 kinds, pipes of one line |
| `rotation_back`, `reboot_bound` | what a comment or a document says and the code does not do; see section 5 | as small as the counterexample allows |

Why the bounds are enough. Two attempts are the smallest bound at which "one
left" and "none left" are different from "the first"; four in `liveness` lets a
password, a scalar configuration and a channel set each take a write, with one
to lose. Two configurations, passwords or channel sets are enough to differ, to
rotate and to rotate back. One fault with two user actions covers a lost write
or a crash at each point of a reconcile with an edit on both sides; the second
fault of `loop` covers a drop during the retry of a drop. The seven
steps of `loop` are what two attempts, each with a drop and a reboot to
wait for, and the final look need.

Five changes in `intent` are a create, an edit, a delete and a re-creation with
an edit, so generations of two objects of the same name meet in cache, queue and
write; a second broken watch can hit the object whose first verdict the first one cost.
Two receivers are the fewest of which one can be silent while the
other is not; three segments have one with neighbours on both sides, and a
first segment of two messages has delivery ratios between none and all. The
approved lists of `plan` have an unknown preset first, alone and nowhere, and the
rates and payloads include zero, a negative rate and both sides of the default.

Both exporters are in `node`; `liveness` has the bundled one only, because over the
stock exporter declared channels are never observed and the status rightly stays
short of Ready. Two calls in `device` are a write and the look at it, or a write cut
short and the next; one field of each family suffices because fields of a family
are handled by the same line of code, and two slots are one the spec names and one
it does not. In `exporter` two sweeps let a band be covered and then missed, or the
reverse, with a failure before or between; four bins have a quiet half and a busy
half at the 50th percentile, gaps that are one, two or three steps wide, and, with
two rows, several samples of one frequency.

In `operators` one race is enough for the loser of a status write to have applied, and one
rotation for the two to hold different passwords; crashes, drops and edits of
one operator are in `node`, and a fault here would only pay for what the run wants to see
unpaid. Two lines in `session` are the fewest of which the second can be overtaken, answered
under the first's id, or cut off by the end of the file; with pipes of one line
two lines already leave each side waiting for the other, and the 27 kinds have each way a line, a
request or a tool call can fail and every form of an intent.

Deadlock is not checked: sessions and helpers end, users may leave an object deleted, and the bounds stop
the world; a system with nothing queued and no timer is at rest, and
`NeverForgotten` says when it may be.

### 3.1 Fairness

`liveness`, `intent`, `device` and `session` assume it. The worker, the informer and the timers keep
running: controller-runtime's worker pops while the queue is not empty, a
delayed add fires, a watch delivers. Weak fairness is enough, because none of the
three is disabled by another part of the system for ever. A radio that is down
comes back (`RadioReturns`): without that nothing could be said of what the
status settles to. The world and the users owe nothing.

In `intent` the informer delivers (`Observe`), the worker pops (`Reconcile`) and the
server answers a write it received (`UpdateStored` or `UpdateRefused`, whichever is
due). Watches may break in any behaviour. What that can cost is in the properties:
`IdleMeansSettled` and `EventuallySettled` except the intent that has no verdict yet
(`FirstVerdictMissed`), and no other; section 5 says how it comes about.

In `device` the deadline passes (`Expire`), a process whose context is done is killed
(`Kill`) and `Wait` returns (`Return`): timers, the kernel and `exec.CommandContext`.
`cli.go` sets no `WaitDelay` (only `op/cmd/spectrum-exporter/main.go:152` does), so `Wait`
returns because the pipes of a killed helper close with it: the bundled helpers and the
Meshtastic CLI start no child that would keep its output open. A helper owes nothing
itself, so `CallsReturn` rests on the deadline alone.

In `session` the server's loop runs, and a host that is alive reads what it is sent; it need
not write, nor ever close its end. A host that stops reading for good while it keeps both
pipes open blocks the server, as it would block any program: the mutual wait of two full
pipes is assumed away with the host's fairness and not excluded by the server's code.

## 4. What is proved

Every theorem holds for every set of configurations, passwords, channel sets, specs,
lines and captures, for every bound on attempts, slots and pipes, and for any number of
faults, edits, calls and steps, under the named assumptions of the modules:

* `ConvergeAssumption`, `NodeControllerAssumption`: the hash of a password is never the
  empty hash, "absent" is no value, the bound on attempts is positive;
* `ConfigDiffAssumption`: no field has two names and no key two meanings;
* `DeviceCLIAssumption`: the channels of a declaration have different indexes, which the
  CRD enforces (`listMapKey=index`, `meshtasticnode_types.go:60-62`);
* `McpServerAssumption`, `CallsAssumption`, `OfflinePlanAssumption`: a line has one of three
  forms, a tool call's text is a text, a pipe holds something;
* `TwoOperatorsAssumption`: what `ConvergeAssumption` and `NodeControllerAssumption` say,
  for both operators;
* `IntentPlanAssumption`: rates and payloads are integers, approved lists are sequences of
  strings, and "no preset" is no preset;
* `SweepAnalysisAssumption`, `SpectrumExporterAssumption`: options are integers of either
  sign, as the flags are not checked; so are a row's frequency, width and powers, and any
  power may be missing;
* `IntentControllerAssumption`, `DeliveryProbeAssumption`: types of the constants.

TLC evaluates all of them on the instances it checks.

`ConvergeProofs` holds the lemmas about the step that both callers use: every
return of `Converge` is a well-formed `Outcome` with the attempts and the hash
it should carry, the step keeps its type invariant, a step before the write
changes nothing, a step from the write on makes one apply and never lets the
hash run ahead of an acknowledgement.

`ConvergeLoopProofs`:

* `TypeCorrect`: the loop's memory is well formed.
* `Bounded`: at most `MaxApplyAttempts` applies. Inductive invariant
  `AttemptsCounted`: what the step was given is what has been applied, plus one
  from the write on. Without the conjunct for `pc = "reboot"` an apply that was
  acknowledged would be uncounted until the step returns.
* `PasswordReachesRadio`: converged means the password is on the radio.
  Inductive invariant `HashBehindRadio`: no hash the loop, the step or its
  outcome carries is ahead of the radio.
* `LoopProvisions`: the loop implements `Provisioning`. `AttemptsCounted` gives the
  guard of an attempt, `HashBehindRadio` that of the claim; every other step is a stutter.
* `ConfigurationIsBooted`: converged and not booted means that a boot is owed
  (`bootOwed`), for any number of faults. Inductive invariant `BootedWhenSeen`: a radio
  that is up and has not booted what it holds is owed a boot, or is between an acknowledged
  write and the reboot that follows it; a step past its export has seen the radio up. Every
  step books what it does to the radio (`BootOwedBySteps`).

`NodeControllerProofs`:

* `NodeTypeCorrect`: type correctness together with `StepMemory`. `TypeOK` is not
  inductive alone: a written outcome subtracts one from `uncounted`, which stays
  in Nat only because a step that has applied remembers it.
* `CopiesAreFresh`: a copy that is not stale is the object, so a write that
  succeeds changes exactly what the reconcile read.
* `AttemptsAreAccounted`: `tries = attempts + uncounted`. A written outcome is over
  the object the step started from (`CopiesFresh`); its attempts are those of the
  status plus one if it wrote (`StepMemory`), unless the budget starts afresh.
* `AppliesAreBounded`: `tries <= MaxApplyAttempts + faults + edits`. The invariant
  `BudgetCovered` says who pays for each apply the status does not count. The difficult
  case is a status at its bound that owes a new budget (`Owed`, after an edit or a
  rotation): a reconcile from a copy that is behind may apply once more, and its status
  write is refused. It has therefore to be paid for before it writes: by the edit that
  left the copy behind, or by the fault that left an earlier answer unread.
* `HashIsTrue` and `ReadyIsTrue`: the stored hash, and Ready, stand for the
  password on the radio unless a write is unacknowledged. Inductive invariant
  `HashSource`: an outcome's hash comes from an acknowledged write, from a
  comparison without drift, or from the status.
* `FinalizersInOrder`, `ExistenceIsDelivered` and `NothingIsForgotten`: every
  action that ends a reconcile, changes the object or loses a queue entry leaves
  one of the four ways to wake up. Adding the finalizer does so only because the
  filter passes it, removing it only because the object is then gone
  (`FinalizerPaths`), a Get that finds nothing only because the event for a new
  object is still on its way (`ExistenceDelivered`).
* `GaugesGo`: an object that went by the operator's own hand leaves no gauges.
  `GaugesHeld`: gauges, a copy that would be reconciled, and a reconcile past the
  finalizer each stand for an object whose finalizer holds it. A reconcile from an old copy
  could publish gauges after the deletion but for `LagsTogether` (theorem
  `CopiesLagTogether`): whoever works on the newest version works on one the informer has.
* `ReadyIsVerified`: the action property that Ready is stored only over the spec
  that was compared. Inductive invariant `ComparedWithSpec`.

`IntentControllerProofs` proves `IntentTypeCorrect` (the type invariant `TypeOK`, which the
rest needs), `VerdictIsTrue`, `WrittenOnce` and
`VerdictAdvances` from one inductive invariant. A resource version is never used
twice, so two copies with the same one are the same version
(`CopiesAreTrue`, `WorkIsTrue`), and a write that passes the precondition is over the
object the worker read: its verdict is of that object's spec and generation, which
`declared` books. `writes` stays behind the generation observed because a reconcile
whose copy already has its verdict writes nothing. `RegisterImplemented` is the refinement:
from the same invariant a stored write is a `Publish`, and every other step leaves
specs and verdict alone. `NoEditIsMissed` needs `NoWakeUpLost`, an invariant over all events
on their way: from any copy that has its verdict, either some later event still passes the
predicate, or the stored object has its verdict too, or none yet after a broken watch. A
relist drops every event between, so two more invariants say what it compares: `LastIsStored`
(no event but the last is of the stored version) and `VerdictMeansSeen` (once an object has a
verdict every copy on its way is of this object, and a copy of the present generation lacks no
more than the verdict). Then an update that the predicate drops at a relist loses nothing, or
the first verdict of an object the informer took for another.

`ResilienceProofs` proves, for every command line, scope, split time and tolerance:

* `ProbeTypeCorrect`, which needs that between a send and its line the message is
  transmitted and its number still current (`SendUnderWay`);
* `NeverOverCredited`: `WindowBounded` counts credits as a subset of messages times
  receivers;
* `ReducersAlwaysAgree`: `OneBoundary` shows that one boundary makes the same two
  windows as the split, and `HealthyHasTraffic` that a healthy baseline cannot be
  empty, which is what the two verdicts ask for in different words.

* `LogHoldsSummary` and `ObservedAlwaysFlatters`, from `LogInv` (theorem `LogInvariant`).
  `Books` says what has been sent, transmitted and logged at each point of the main
  thread, `ReceiptsKept` that a receipt is of a declared receiver and is logged or about
  to be, `Summarized` that the summary counted what there was when it was written. The
  first theorem then splits the log at its boundary and finds every receipt credited in one
  of the two parts (`PartsAddUp`, `WindowsAddUp`, `ReceiptsAreCredited`). The second needs
  that a receiver without a line adds to what is expected and nothing to what
  is delivered (`SilentReceiversOnlyDilute`), and the list to name nobody twice: a repeated
  receiver is counted twice as a declared one and once as an observed one, and a third
  command line in `delivery` repeats one.
* `LinesStayInTheirPhase`, the action property `Custody`, from `SegmentInv` (theorem
  `SegmentInvariant`). Which segment a message is of is a matter of counting sends; which
  phase, of comparing times: nothing in the code relates the two. `Counted` ties the
  sequence number to the segment under way, `Bounded` the boundaries to the clock, and
  `Placed` says that each message that was logged is of the phase its segment is and that
  its segment's interval has passed since, so that the next boundary is later than it
  (`PhaseStays`). The message being logged is of the last phase, because no boundary is
  later than its stamp (`PhaseIsLast`), and one logged before keeps its time whatever is
  logged after (`TimesKept`). Both windows before and after a step are then those of the
  segments (`PhasesAreSegments`, `OneSegment`), where a line touches its own only
  (`OthersUntouched`).

`TwoOperatorsProofs` uses what is proved of one operator through an instance of
`NodeControllerProofs` for each. A step of one is, for the other, a step that changes what
both share and may leave its copies behind; the section "Beside another operator" of
`NodeControllerProofs` has one lemma for each invariant under such a step.

* `BothAreSound`: type correctness and freshness of copies (`Sound`) hold for both.
* `HashIsTrueForBoth`. `HashSource`, which is inductive for one operator, is not beside
  another: the other may overwrite the radio between an operator's export and its status
  write. `HashKnown` has the exception: the belief of an operator holds unless the other has
  an unacknowledged write, or the operator's own copy lags, and then its status write is
  refused and the belief goes with it.
* `OverrunsArePaidFor`: `tries <= MaxApplyAttempts + 1 + refused + faults + edits`.
  `DebtCovered` is the strengthening. What is neither counted by the status nor about to
  be (`Debt`) and what may yet be applied without being counted (`Reserved`) are covered by
  what has been paid (`Funds`): refusals, faults, edits, and one more while a copy lags,
  because the refusal of its write is then certain. While the status may start a
  budget afresh, after an edit or a rotation, one more is kept back. The two
  operators do not simply add up: when one stores its status, the other's pending
  apply turns from one that will be counted into one that will be refused.

`SurfaceProofs`, on planning, for every set of names, lists, rates and payloads:

* `RenderableIntentsAreRendered`: names are distinct when no two of a list coincide
  (`DistinctNames`), and the first usable preset of a list is the least of the usable
  positions (`SelectedIsFirst`, `LeastNatural`).
* `PercentsFitVerdicts`: a percentage rounded to the nearest whole number lies on the side of
  the ceiling that the exact one is on, or at the ceiling (`PercentIsRounded`).
* `TimesOnAirAreSemtech`: rounding a quotient up gives the least number of blocks that hold
  the coded bits (`LeastBlocks`), for every payload and each of the modulations a known
  preset can have (`Modulations`).
* `OverBudgetStays`: time on air grows with the payload (`LongerLasts`, from `CeilingsGrow`),
  and the fleet's use of the channel with time on air, rate and size (`LoadAddsUp`).

`SurfaceProofs`, on the session, proves `RequestsAnsweredOnce` and `SurfacesDoAgree` from one
invariant: each answer is `HandleMessage` of its line (`Answered`), answers are in the order
of the lines (`InOrder`), and no line that was read and is owed one lacks it, but for a
failed write (`Complete`). The second theorem adds that a text without an error is one
document, or none (`VerdictIsOfText`), so the verdict on the document decoded is of all of it.

`SurfaceProofs`, on the exporter, proves `StampComesLast` and `GaugesAreOfLastSweep`. The
invariant `PublishedUpToHere` (theorem `PublishedInOrder`) holds in the middle of `Publish`:
a series with no update to come already has this sweep's value and time. That every series
gets an update (`UpdatesReachEverySeries`) is what lets the stamp be set at the end.

On what is published, `SurfaceProofs` proves, for every capture, every list of bands and
every option:

* `ScrapesAreWellTyped`: whatever instant a scrape hits, an occupancy is a share of at least
  one bin and a peak lies in its band. `TypeOK` is not inductive: what is set next comes from
  `stats`, so `ExporterInv` says of a reduction what is owed of it (`StatOK`), that a capture
  about to be sensed is one, and that the clock counts what was published, what failed and
  the sweep under way (`SweepsOK`), without which the counters have no bound.
* `ReportsAreMeasured`: the argument is counting. Places given by an order are all different
  and no more than the things to place, so all are taken (`OrderPlaces`, `PlacesFill`); hence
  parsing has one bin per cell (`ParseIs`), a band the bins of its cells (`InsideIs`), and
  powers counted by place and by cell agree (`PowersInside`, `MeasuredIs`). At the k-th place
  of the sorted powers stands one that k do not exceed and fewer than k are below
  (`RankCounts`), which is what the floor, and with a margin of zero or more the occupancy,
  claim (`PercentileIs`, `SharesAre`). Two runs of bins that overlap are the same run, since
  each is as long as it can be (`ClassifyIs`).

`DeviceCLIProofs`:

* `DriftReportedExactly`. The comparison half is about documents alone: a spec declares a
  field once (`DeclaredOnce`), what a radio reports is what it holds
  (`ReportedAsHeld`), so no drift and holding the declared leaves are the same
  (`HeldShowsNoDrift`, `NoDriftIsHeld`), and so are holding them and satisfying the spec
  (`HeldIsSatisfied`); for channels, with both forms of the default key, `LiveIsCarried`.
  The lemmas hold of any configuration, so also of what was streamed (`Streamed`).
* `WrittenStays` and `WholeOrNothing`, from `ClientKeepsOrder`: what is not written yet is
  still to be written (`SectionsLeft`, `SlotsLeft`), so a helper that ended well wrote
  everything (`Accomplished`), and later writes of the same declaration never undo it
  (`SettledIsWritten`); `SlotWritten` needs the indexes to differ.
* `ErrorsAreToldApart`: inductive with `CausesNamed`.

## 5. Where the repository and the code disagree

Two of these are runs that TLC must find violated.

* `docs/guides/operations.md:122-125` says a rotated password is applied; a
  password that is rotated back after an unacknowledged write is not
  (`rotation_back`).
* `meshtasticnode_types.go:225-229` says the attempt count bounds the reboot
  loop; each lost status write costs a reboot more (`reboot_bound`).
  `AttemptsAccounted` and `AppliesBounded` say by how much.

The others have no run.

* A converged loop, and a Ready node, can be over a radio that still runs the configuration
  from before a write: the session dropped under a write that landed, and the next export
  shows what is stored, or the explicit reboot was refused and its error discarded
  (`converge.go:288-294`). `ConvergedMeansBooted` says that these are the only ways and that
  any boot ends them.
* `mesh-export.py:99-116` calls a device that does not return its MQTT module "best effort",
  to be left out. If the library answers with defaults instead, a spec that turns MQTT off is
  in sync with a radio that has it on (`DriftIsExact` allows it).
* `metrics.go:44-46` describes the degraded gauge as the Degraded condition; a device error
  (`deviceFailure`) keeps the condition and drops the gauge. Two steps show it: a node gives
  up and is Degraded, with the gauge at one; its next reconcile meets a hard error and
  records the gauges afresh, without it, while the condition in the status stays.
* `metrics.go:112-113` says gauges of a deleted node do not linger. They do when the
  finalizer goes without this process seeing its own update succeed (`orphaned`), and on a
  second replica after any deletion, since only the process that removes the finalizer
  forgets.
* Two operators exceed the bound on applies without any fault: each may apply from its own
  copy, and the loser's status write is refused. A slow one that read an old Secret
  can put a password back after the other has rotated it; the hash then shows it.
* `communicationintent_controller.go:114-115` says the generation predicate drops
  status-only events; after a broken watch (`Relist`) it also drops the replacement of an
  intent by another of the same name and generation, and the new intent has no verdict until
  its next edit or a restart (`FirstVerdictMissed`).
* `publisher.go:24-26` promises absence rather than a false zero; a scrape between `With`
  and `Set` of a series that was absent reads zero (`Create`), and one in the middle of
  `Publish` mixes two sweeps. A capture of comments only is no error: it is published as
  a sweep that covers nothing (`NotASweep`).
* `cli.go:90-96` keeps a broken installation apart from a reboot; over serial, a missing
  helper script prints the text a missing port does and counts as a reboot
  (`ErrorsToldApart` allows it).
* `condition.go:29-30` calls Ready "the composite" of Reachable, ConfigInSync and not
  RebootPending; a node whose channels cannot be observed has all three and is not Ready
  (`UnobservedOutcome`).
* `resilience.go:141-142` says a node is credited at most once per message; `Credits` is
  per entry of the receiver list, so a node that `-receivers` names twice counts twice,
  on both sides of the ratio. Only with such a list can the ratio over observed receivers,
  which counts each once, be below the declared one (`ObservedFlatters`).
* `server.go:132` answers a line it cannot decode under the null id because "the id is
  unknown"; a line of readable JSON with a member of the wrong type has an id, and is
  answered under null all the same (`HandleMessage`).
* `advisor.go:178-182` says a stray brace in the prose around a proposal does not shadow the
  object; an empty object `{}` in the prose does, being valid JSON.

## 6. Only checked, not modelled, and why

Every safety property a run checks is proved too, but for the one of each violation run,
which does not hold. Model-checked only:

* **Liveness** (`Settles`, `DeletionCompletes`, `EventuallySettled`, `CallsReturn`,
  `SessionEnds`): fairness and ENABLED are outside the prover's reach.

Not modelled:

* **Advisor**: prompts, a model's answer and a check of the parsed proposal; nothing is
  kept and nothing is applied, and the proposal that passes goes through the
  planner modelled in `OfflinePlan`.
* **Mesh frames**: parsing of one frame, a pure function that its fuzz tests reach better.
  **Secret wrapper**: formatting. **Scripts, manifests, images**: no state.
* **Command line**: only `plan` with its exit codes; the other commands parse flags and print
  what the packages modelled here compute.
* In `DeviceCLI` colliding normalised keys, malformed export entries, YAML, files and
  redaction are left out; in `SweepAnalysis` means, confidences, the peak frequency of
  an emission and the text rendering, because nothing is decided by them. Its arithmetic
  is exact: `p/100*n` in floating point can exceed a whole number by one rounding (7 of 100
  values at 7 percent), and the rank `math.Ceil` takes is then the next one.
* The fleet airtime is modelled; what one node measures and predicts
  (`Healthy`, `DutyCyclePercent`, `PredictedChannelUtilizationPercent`) is not: floating
  point without a decision of the controller that depends on it.
* In `McpServer` a read of stdin that fails in the middle is left out: the kernel does
  not fail a pipe that way. The protocol lets a server refuse requests
  before `initialize`; this one keeps no such state, so neither does the module.
* `NewDevice` never fails in this program (`newCLIDevice` returns no error), so
  its error path is not an action.
* In `Converge` an export is what the radio holds or a failure. That a section can be missing
  from it, or be read as its defaults, is in `DeviceCLI` only.
* Telemetry and airtime conditions, Events, log lines and `LastHeard` are left
  out: no property reads them. A status write counts as a new version even when
  nothing in the model changed, because `LastHeard` may have.
* Nobody changes the broker password on the radio behind the operator, other than a
  second operator. A reset radio keeps the old hash in the status and is not rewritten;
  with that step in the model nothing could be said about the password at all.
* One node: the work queue never runs one key twice at once and nodes share nothing.
  `TwoOperators` has two processes; what a user does to the object is in `node` only.

## 7. How it was built, and what could come next

The order was: the convergence step and its two callers, with their proofs; the intent
compiler and its callers; the probe and its reducers; the comparison and the device
client with its helpers; the spectrum reduction and its exporter; the abstract
specifications and their refinements; two operators; the planning surfaces; and the
proofs of what had only been checked.

Left, should the code grow that way: the advisor's acceptance of proposals once something
acts on them; the airtime conditions of one node once a decision depends on them; the
device calls of `Converge` as a refinement of `DeviceCLI`.
