# Formal model of awf

awf executes agentic workflows: a definition is a tree of steps (code, agent,
await) and control nodes (if, loop, gate, try, parallel, map, call, react). A
run is durable: every committed step is recorded in an append-only log, and a
run whose process died, was paused, failed or was interrupted is continued by
`awf resume`, which folds the log and skips what is committed. This directory
holds TLA+ models of the parts of awf whose correctness depends on the order of
events or on rules that are hard to get right, the TLC configurations that check
them, and TLAPS proofs about most of them.

PROJECT.json lists the components, the runs with their properties, one mutant
per property, the source lines every definition stands for, the findings, the
hazards and the theorems.

## Inventory

| component | state it keeps | operations | what is hard | what makes it correct | module |
|---|---|---|---|---|---|
| event log (`state/log.go`) | frames in a file; seq and epoch in memory | open with repair, exclusive create, append, fsync, scan | torn tails, lost unsynced bytes, failed writes | a synced record is readable for ever; numbers without gap | RunJournal |
| blob store (`state/blobs.go`) | files named by content | put, get | concurrent puts, directory syncs | a ref in the log can be read | RunJournal |
| run lock (`runlock`) | an flock per run | acquire, release | released by death only | one writer per log | RunJournal |
| commit (`engine/commit.go`) | - | put artifacts, append node.completed, fsync, record | crash between any two | acknowledged means durable; once per step | RunJournal, CommitLedger |
| interpreter and fold (`engine/interpreter.go`, `fold.go`) | RunState | walk, skip committed, dispatch, fail | memory against log | live state is replayed state | RunJournal, ControlFlow |
| controls (`engine/controls.go`, `signal/control.go`) | pause.json, cancel.json, flags | write, poll, clear, journal a verdict | poller against walk, stale files, many epochs | a seen request wins; one verdict per driver | RunLifecycle |
| admission and status (`cli/resume_admission.go`, `obs/runstatus.go`) | - (read the log) | admit, derive | logs with several verdicts | an unfinished run can be resumed and is listed so | RunLifecycle |
| targeted and edited re-run (`engine/rerun.go`, `verifytrace.go`) | node.invalidated, digests | compute, journal, clear | crash between; nine indices; edits | no stale result behind a re-run step | RunLifecycle, EditedResume |
| signals (`signal/broker.go`, `engine/signal_step.go`) | numbered files in control/ and consumed/ | write, receive, receive matching | three processes on two directories | delivered once, in order, to who may have it | SignalAwait |
| gate, loop, if, try, skip, parallel | attempts, iterations, branches in the log | one attempt, one iteration, fork, join, unwind | resume in the middle, errors in handlers, cancelled siblings | bounded attempts; finally always runs | ControlFlow |
| map, reduce, prune (`engine/map.go` ...) | item records, frontier, reduce record | start, finish, prune, tally, reduce, replay | item goroutines against pruning and cancellation | deterministic disposition, verdict read off the log | MapFanOut |
| call, compose (`engine/call_step.go`, `compose.go`) | call.started, containers | pin, create, walk, destroy, preflight | pins and containers over resumes | the same input and runtimes on every attempt | SubworkflowCall |
| react (`engine/react.go`) | leaves, rounds | model call, tool calls, close a round, replay | crash within a round | the same conversation after every takeover | ReactLoop |
| retry (`retry`, `engine/retry_loop.go`) | attempt counter | merge, classify, back off | arithmetic, cancellation | bounded attempts and delays | RetryPolicy, AgentDispatch |
| dispatcher (`engine/local_dispatcher*.go`, `agent_event_sink.go`) | contexts, channels, timers | prepare, launch, drain, journal events, classify | idle timer, sink, late events | every event before the verdict, one verdict | AgentDispatch |
| process adapters (`agent/claude`, `claudesession`, `codex`, `droid`, `goose`) | pipes, scanner, outcome | launch, forward, scan, reduce | cancellation, truncated and repeated verdicts | one outcome, and it is what the CLI said | AgentAdapters |
| adapter configuration (`with_guard.go`, `ValidateConfig`) | - | guard, merge role, render, validate, launch | templates, two validations | refused before anything is spent | AdapterConfig |
| awf/llm (`agent/awfllm`) | stream state, cached names | build request, read stream, classify; probe, create | four protocols, drops, expiry | an answer is whole; a document uploaded once | LlmTransport, GeminiCache |
| live sessions (`agent/live`, `codexlive`) | session record, lease, turn | prepare, lease, start turn, follow, finalize | crashes between record and provider | one driver; a started turn leaves the record in named ways only | LiveSession |
| app-server client (`agent/codexlive/process_client.go`) | pending calls, kept events | call, read, register, close | reader against registration and close | each event read is in one place, a step sees them in order | CodexClient |
| containers (`container/docker`, `container/native`) | handles, snapshots, directories | create, exec, snapshot, restore, destroy | partial failure, cancellation, death | restored work equals committed work; nothing leaks | DockerBackend, ContainerExec, NativeBackend |
| references (`ir/validate_refs.go`, `engine/scope.go` ...) | - | validate, resolve | two separate passes over static and runtime paths | what validates resolves, to the right instance | References |
| templates (`template`) | - | scan, lex, parse, evaluate | escapes, precedence, missing values | the grammar, and nothing else | Templates |
| loading (`loader`, `ir/validate_jury.go`) | modules, assets | import, read, lower | cycles, links, a directory that changes | reads stay inside; a whole snapshot | Loader, JuryLowering, WorkflowGraph |
| skills, graph, obs, ui, pricing | - | read the log, print | - | - | not modelled |

Components call each other in one process, except: drivers of the same run meet
in the lock, the log and the blob store; operators and drivers meet in the
control directory; drivers of different runs meet in the blob store, in the
live registry and in the container engine. The log is the only thing a resume
believes.

## Modules

### RunJournal, CommitLedger, RunJournalProofs

`RunJournal` has any number of awf processes on one run. Its state is the log
file (`log`, the records a scan can read; `torn`, whether a partial frame
follows; `stable`, the synced prefix; `file`, its directory entry), the blob
store `cas`, the `lock`, and a program counter and memory per process. One
action is one system call or one step between two: `OpenLogExclusive`,
`RunAcquire`, `RunRemove`, `AppendRunStarted`, `SyncRunStarted` for `awf run`;
`ResumeStat` to `SyncRunResumed` for `awf resume`; `InterpNodes` to `FinishExit`
for the walk, the commit (`PutStat`, `PutLink`, `PutSync`,
`AppendNodeCompleted`, `SyncNodeCompleted`), the failure path and the verdict.
The environment crashes a process at any point (in the middle of a write the
tail is torn), fails the power (unsynced bytes are lost, and with `"dirent"`
unsynced directory entries too), lets a log write fail half way (`"short"`), and
puts blobs for other runs. The workflow is the sequence `1 .. N`: the journal
does not depend on the shape of the tree.

`CommitLedger` is what the commit protocol promises: steps become visible one
after the other, visible ones are acknowledged, only unacknowledged ones may be
taken back. `RunJournal` implements it (`LedgerSpec`).

### RunLifecycle

One run through its drivers, with the control files, the poller goroutine, the
walk, the verdict and the two readers of the log. An append is one durable step
here, and there is one driver at a time: that is what RunJournal shows. `pc` is
the driver's position, `events` the log, `done`, `paused`, `cancelled` the
RunState, `ctxDone` and `polling` the context and the goroutine of `engine.Run`.
`ResumeFold` has a target for `--from` (forced, no admission) or for an edited
definition.

### ControlFlow

The recursive walk over sequences, steps, if, loop, gate, try, parallel and
skip, with any nesting: `tree` is a workflow, a call of a handler is a frame at
a path (`act`), its result waits in `ret` until the caller goes on. Every
handler of the interpreter is a few actions, one between any two calls it makes:
`LoopStart`, `LoopIter`, `LoopStop` are `runLoop`; `TryDo`, `TryCatch`,
`TryFinally`, `TryEnd` are `runTryWithContext`; the branches of a parallel are
active at the same time. A frame knows the contexts it runs under, so that a
failing sibling or an interrupt reaches the steps it should and `finally` is
detached. The log has the events of the walk; `branch.taken`, `loop.iter` and
`node.skipped` are not synced and a crash may take an unsynced tail. What a
handler looks up in RunState (`LookupBranch`, `LookupLoopIters`, `Attempts`,
`Completed`) is read off the log: that the RunState mirrors the log is what
RunJournal and RunLifecycle show. Conditions may have either value each time
they are evaluated, which includes every template. `Earned` is a reference
semantics: the results a node may have, from the committed events alone. `seen`
is history for the properties. `walkNodes` is the resume preflight of live
sessions (`engine/live_resume_preflight.go`), a second walk over the tree that
must find the steps the driver will run first.

### MapFanOut

One map node. Every item is a goroutine (`pc[i]`) that registers with the prune
controller, waits for a slot of the semaphore, creates its container, runs its
body and reports; `main` is the handler that starts the goroutines, joins them,
commits the frontier, tallies and reduces. `pr` is `pruneRun` and its controller
(scores, marks, the decision computed outside the lock), `local` the handler's
statuses, `journal` the fold of the node's records, `mem` the RunState. Pruning,
an interrupt, a crash and another driver may come between any two of these.
`keep: top(k)`, `stop_when`, `min_success` as a number or a fraction, quorum and
command reducers, per-item images and an `over` of another length after an edit
are parameters of the definitions.

### AgentDispatch

One agent or code step: `main` is the interpreter's handler with the retry loop;
`ctx`, `adapter` and `drain` are the context, channels and drain goroutine of
each attempt; `sink` is the goroutine and buffered channel that journal live
events; `log` has the events of the node. The adapter is the environment. A
drain goroutine may outlive its attempt. Timers that are armed may fire at any
moment. The finalizer of a live session runs behind the commit (`liveFinalizer`),
and one that fails appends one more event of the node, live.finalizer.warning,
behind node.completed (`engine/agent_step.go:460-474`).

### SignalAwait, ReactLoop, SubworkflowCall (MCSteps)

`SignalAwait` has the signals of one name: `awf signal` processes (`ScanSeq`,
`OpenExclusive`, `WritePayload`), await steps in parallel branches
(`ScanAndRead`, `Claim`, `AppendReceived`, `AppendCompleted`, with their
failures), crashes and resumes of the driver. A file is an inode with a name,
since a rename moves whatever has the name at that moment. One scan of the
directory is atomic.

`ReactLoop` is the react step: `models` and `leaves` are the committed answers
and tool results, `rounds` the closed rounds, `msgs` the conversation in the
memory of the driver. A driver that takes over rebuilds `msgs` from the leaves.

`SubworkflowCall` is the call of a child and the compose block: the pins of
call.started, the containers at the backend (`boxes`), the walk of the body as one
action, destruction on every way out, and the preflight over recorded calls. A
driver compares the installed runtimes with the pins once, before it creates
anything; an upgrade behind that comparison is kept in `crept`, and steps of the
body may then be committed under it.

### DockerBackend, ContainerExec, NativeBackend (MCContainers)

`DockerBackend` has the daemon's containers (`ctr`), the backend's table
(`handles`), the engine's handles (`held`), the blob store's snapshots (`refs`),
the refs of committed steps (`committed`) and a call under way per caller (`op`),
whose `pc` is the daemon call it makes next. Every daemon call may fail before it
took effect or behind it, when only its answer was lost: a create may leave a
container whose id nobody learns, a remove that reports an error may have removed
its container, which Destroy then registers again. A cancelled context makes all
calls fail, the driver may die between any two.
The delete wrapper of a restored container is a process of its own that talks to
the backend over marker files. `ContainerExec` has the goroutines of the Execs of
one container on either backend; the daemon may end an attach stream while the
command still runs (Inspect then says exit code 0), and errors of the stream and
of Inspect come back as the code hands them on. The numbers of pid files
start again with every backend while a restored container may hold the files of
earlier ones (`Leftovers`). `NativeBackend` the work directory of one runtime and the
archive that is written and read entry by entry. Entries that are neither files,
directories nor links (fifos, devices) are skipped by the archiver
(`container/native/snapshot.go:157`) and are not in the model: `NativeSafe` speaks
of the paths that an archive can hold.

### LiveSession, CodexClient, GeminiCache (MCLive)

Three pieces of state that several steps share: the session record and lease
that processes of one host read and write, the app-server client that parallel
steps call, and the map of cached contents that the launches of a fan-out use.
Reads and writes of a record are separate actions; the lock covers what the
code's lock covers. The session record has the path of the provider binary and
its version; `Drifted` compares the path only, as CheckSessionDrift does, so the
model has upgrades that move the path and upgrades in place.

`CodexClient` has the table of pending calls, the reader goroutine of each
server, the early events, the turn channels and the last push of registerTurnEvents
behind its unlock, which races with the reader. A reader ends behind a dead
server's last line or gives up on a line above 4 MiB while the server is alive
(`failPending`, bounded by the faults of the run).
In `GeminiCache` the key of a content stands for the document: the digest of model,
system prompt and files is taken for injective, and `NamesMatch` says nothing of it.

### AgentAdapters, AdapterConfig (MCAdapters)

`AgentAdapters` has the pipeline of a launch: the CLI, the forwarding goroutine,
the scanner, the reducer and the reader of the events. The reduction of the
lines to an outcome is one operator per adapter; `lines` is history.
`AdapterConfig` takes a `with:` through the guard of `awf run`, the role, the
rendering, the second validation and the building of the command or request, or
through the react path, which has neither. A bare claude may have either of
ANTHROPIC_API_KEY and ANTHROPIC_AUTH_TOKEN; awf/llm has the three cache_* keys.

### The definition of a workflow (MCDefinitions)

Modules that are mostly operators, with a small state machine that produces
their inputs:

* `References`: a producer and a consumer under nests of scopes. The state is a
  run of the program; at every moment the consumer runs, what validation accepts
  on static paths (`ir/validate_refs.go`, `validate_continues.go`) is compared
  with what the runtime scopes resolve (`engine/scope.go`, `artifact_scope.go`,
  `map_product_scope.go`, `reduce_scope.go`), and with the instance of the
  producer the reader means.
* `Templates`: sources that grow by a character or token: host texts,
  references, string literals, short conditions over all tokens, and long ones
  over the operators, whose operands and operators alternate; scanner, renderer,
  lexer, parser and evaluator are compared with declarative definitions.
* `JuryLowering`, `WorkflowGraph`: `ir.WalkNodes`, the validation of juries and
  their lowering to a map.
* `Loader`: reading files and imports from a directory that changes under it.
* `RetryPolicy`: merging, validation and the pause before each attempt, in
  `Width`-bit arithmetic that overflows where 64 bits do.
* `EditedResume`: the digests, the verifying trace, `--from` and the journalled
  invalidation, over definitions that are edited between two drivers.
* `LlmTransport`: a call of awf/llm over the four wire protocols.

## Runs

Modules that share nothing are checked by one run where a variable (`part`,
`side`) chooses which of them moves; the others keep an idle state, so the state
spaces add up and do not multiply. A property that groups several named ones
(`CommitSafe`, `RunHonest`, `WalkSafe`, `MapSafe`, `ReferencesSound`, ...) is the
conjunction written at the end of its module.

| run | bounds | shows |
|---|---|---|
| `journal` | 2 processes, 2 steps, 2 blobs, 2 faults (power) | every promise of the journal, the refinement, and that a resumed run finishes |
| `lifecycle` | 2 steps, 3 drivers, 3 troubles | verdicts, re-runs, requests and listing agree; a request stops a driver; a resumed run finishes |
| `steps` | 3 writers in turn and 2 awaits, 2 faults; react of 3 rounds, 2 calls a round, 4 drivers, 2 mishaps; 2 containers, 2 runtime versions, 4 walks, 3 troubles | delivery once, in order, to who may have it; the same conversation for every driver; pins and containers of a call; every driver returns |
| `control` | 6 workflows, 3 drivers, 2 faults | results are earned, replay does not recompute, rounds in order, finally always runs, the preflight finds what runs first, every walk returns |
| `map` | 6 maps of up to 3 items, 2 scores, 2 drivers, 2 faults | the frontier is the top k, verdicts are read off the log, records are final, nothing outlives the handler, every map returns |
| `dispatch` | 4 steps, up to 3 attempts and 3 events, buffer of 1 | the journal has every event in order before the verdict; a step with a wall timeout returns |
| `definitions` | 184 programs of up to three nested scopes; hosts of 7 and references of 5 characters, string literals of 7, conditions of 4 tokens and of 7 tokens of operators; 14-bit durations over 18 attempts; 960 workflows with juries; 96 trees with 2 changes; 4 definitions with 2 edits and 3 starts; streams of 3 items | references mean what validation promised; the template language is its grammar; pauses stay in bounds; loading stays inside its directory; a kept result is a current one; an accepted answer is what the server sent |
| `containers` | 3 runtimes, 2 files, 2 container ids, 1 fault, 2 epochs; 2 execs on docker, 1 on native, 1 dropped stream; 2 entries, 2 lives | no container unaccounted for, restored equals committed, results end their stream, a cancelled command is killed, calls return |
| `live` | 2 launchers, 2 attempts, 2 epochs, 2 faults; 2 callers, 2 servers; 3 launches, 2 documents | one driver per session, a turn leaves the record in named ways, events accounted for and in order, one upload per document |
| `adapters` | 5 adapters, 2 or 3 lines, channels of 1; 7 adapters, up to 2 keys | one outcome that the CLI's output earned; a configuration is refused before anything is spent |
| `adapters_react`, `definitions_truncated` | the smallest instance each | findings |

Bounds. Two steps are enough to distinguish "the first uncommitted step" from
"any uncommitted step", two blobs a shared from a private artifact, two processes
every race for the lock; a third process adds only another loser. Two faults
allow a fault during the recovery from a fault. The interesting lifecycle logs
have a failure, a resume and a re-run, that is three drivers and three troubles.
Three signals and two awaits, one keyed and one with a schema, contain every way
in which a scan may skip a file and a claim may lose. The six workflows of
`control` put every kind of node below every kind that changes its behaviour (a
gate beside a step and in a loop, a try around and inside a parallel, a skip
through try, loop, gate, branch and root); two faults allow a failure while
another one unwinds, three drivers a resume of a resume. Three items are the
fewest with a queued item, a running one and a finished one behind a concurrency
of two, and a `top(2)` that drops one. A channel of capacity one is full after
one send, which is all that blocking needs. Three attempts have a first, a
middle and a last. The daemon's two ids let a name clash with a container left
behind. Nests of three scopes have a common prefix, a scope the reader is not in
and one the producer is not in. Fourteen bits and a doubling pause overflow
within eighteen attempts as 64 bits do within sixty-four; the bound of 7
characters of a host holds an escaped and an unescaped slot. Seven tokens are
three operands and two binary operators with a negation and a pair of
parentheses, or four operands and three operators: precedence, associativity and
what parentheses change all occur. Seven characters hold two string literals, or
one with two escapes and a tail. The largest run, `live`, has 3.8 million states.

`CHECK_DEADLOCK FALSE` is said where the system may stop: a finished run has
nothing left to do. `journal` checks deadlock.

## Fairness

Liveness assumes weak fairness of the steps a scheduled process or goroutine
takes by itself (Go schedules every runnable goroutine, the operating system
every runnable process) and of an operator who resumes an admitted run. No
fairness is assumed of faults, requests, failures or interrupts. In particular:

* `RunJournal`: every process's steps, and strong fairness of the operator's
  attempt to resume, which may find the lock taken again and again.
  `EventuallyFinished` speaks of the case that from some moment on one operator
  resumes; two operators who run and resume for ever can take the lock from each
  other for ever.
* `RunLifecycle`: `SchedulingSpec` does not assume that a step ends: a request
  must stop the driver anyway, since Exec returns when its context is cancelled.
  `EventuallyFinished` has the fairness of a step that ends as a hypothesis.
* `ControlFlow`: handlers go on and steps end. `MapFanOut`: the handler and every
  item goroutine, whose body ends in some way.
* `AgentDispatch`: interpreter, sink, drain goroutines and the wall timer; not
  the adapter, which may stay silent for ever, and not the idle timer.
* `SignalAwait`, `ReactLoop`, `SubworkflowCall`: the steps of writers, awaits and
  drivers, and a resume of the awaiting run.
* `DockerBackend`: callers and the delete wrapper. `ContainerExec`: the backend's
  goroutines and the reader of the chunks; not the command, which may ignore its
  context and keep its output open.
* `AgentAdapters`: the goroutines of the launch, and the dispatcher's reading of
  events as long as its context lives.

## Proofs

Each theorem is about every value of the constants that satisfies the named
assumption of its module. The assumptions type the constants, keep a sentinel
(`"none"`, 0) out of a set it must differ from, or say what the loader and the
validator guarantee (a channel has room for one element, a policy at least one
attempt, a gate at least one score above "no output").

| module | theorem | states |
|---|---|---|
| `RunJournalProofs` | eleven, below | the promises of the commit protocol and the refinement of `CommitLedger` |
| `LifecycleProofs` | `RunIsHonest` | `RunHonest` |
| `DispatchProofs` | `JournalIsFaithful` | `JournalFaithful` |
| `MapProofs` | `MapIsSafe`, `MapRecordsHold` | `MapSafe`, `MapRecords` |
| `StepProofs` | `DeliveredExactlyOnceHolds`, `RightSignalHolds` | the two properties of signals, if writers do not overlap |
| | `CallIsSafe` | `CallSafe` |
| | `ReactLoopIsSafe` | `ReactSafe` but for `SameConversation` |
| `WalkProofs` | `WalkIsSafe` | `WalkSafe` |
| `ContainerProofs` | `ExecIsSafe`, `NativeIsSafe`, `DockerIsSafe` | `ExecSafe`, `NativeSafe`, `DockerSafe` |
| `LiveProofs` | `RegistryIsSafe`, `RegistryStepsHold` | `RegistrySafe`, `RegistrySteps` |
| | `CacheIsSafe` | `CacheSafe` |
| | `AdapterIsSafe` | `AdapterSafe` |
| | `ClientIsSafe` | `ClientSafe` |

### The journal

`RunJournalProofs` proves, for every set of processes, number of steps, set of
blobs and number of faults, from `ConstantsAssumption` alone:

* `TypeCorrect` and `SingleWriterHolds`, for every kind of fault;
* `SyncedPrefixKeptHolds` and `NoDanglingRefHolds`, if directory entries are not
  lost (`"dirent" \notin Faults`);
* `DurableCommitHolds`, `NoRedispatchHolds`, `CommitOnceHolds`,
  `FinishedOkCompleteHolds`, `ImplementsLedger`, if in addition no log write
  fails half way;
* `SeqAndEpochHolds`, without short writes;
* `CommitSafeHolds`, the type invariant and the safety properties above together,
  under both assumptions.

The assumptions are needed. With `"short"` in `Faults` TLC refutes
`DurableCommit`: appendNodeStarted drops the error of a half-written frame
(`engine/node_started.go:24`, `state/log.go:155`), and what is committed behind
it is not found by the next scan. With `"dirent"` TLC refutes `NoDanglingRef`
(the stat fast path of `Blobs.Put`, `state/blobs.go:82`, trusts a rename that no
directory sync covers yet) and `DurableCommit` (the directory of the log is never
synced after `OpenLogExclusive`, `state/log.go:131`).

None of the properties is inductive. A commit is durable because
the process that acknowledged it wrote it behind readable frames; so the
invariant says that a walking process finds no torn frame (`CleanInv`), that is
because the opener repaired it and nobody else can tear the tail while the lock
is held (`LockInv`: a driving process holds the lock), except a process that has
created the log and not yet locked it, for which the log is still empty
(`CreateInv`). A committed step is not executed again because the RunState of a
walking process equals what a fold of the log would give (`MirrorInv`), and
acknowledged steps have a record in the synced prefix (`AckInv`). No ref dangles
because the artifacts of the step being committed are present from their Put on
(`PutInv`). Each layer is an inductive invariant relative to the ones below it;
every layer has one lemma per group of actions (appends, syncs, walk, control,
environment), from frame lemmas that say what each action changes.

### The others

* Lifecycle. Besides `RunHonest` the invariant says what the log says by itself
  (only run.resumed follows a verdict, failures are named), where the driver is
  and what the last record then is (`DriverAt`), and what the poller has seen
  and the driver remembers of it (`Requests`). Every action but `ApplyRerun` and
  `CommitStep` leaves the completed steps alone, so an append is treated once.
* Walk. `WalkIsSafe` holds for a workflow tree of any shape. All that is assumed of
  the tree (`ControlAssumption`) is what the loader builds: nodes numbered in
  preorder, each subtree an interval (`Preorder`), and the number of children its
  kind has (`Arity`); the six workflows of the run are six such trees. Nothing is
  an induction over the tree. Because a subtree is an interval of numbers, "below"
  is arithmetic on numbers and prefixes of paths (`Over`), and two children of one
  node are never below each other (`SidesAreApart`). The invariant has three parts.
  `Struct`: every active frame but the root is awaited by exactly one active
  caller, which waits for that child and round, and a result without a caller is
  one of a parallel that is about to be told (`Hanging`). `LogOK`: each record
  of the log is justified by the records before it - a commit, by the branch
  and the rounds it lies in, and by no other commit of that path. `Frames`: what
  an active frame knows (`Knows`) - its branch or round is on record, every commit
  below it lies in the branch it took and in rounds up to the present one, and what
  it has not entered yet has nothing on record. A
  step of one frame leaves the other ones alone because what it records is
  beside or below them (`Speaks`). An append, a call, a
  return, an exit and a crash are one lemma each, and every handler is an instance. A crash
  keeps a prefix of the log, to which `LogOK` passes without an argument,
  and leaves no frame. That settled work is not executed again (`SettledNotRerun`)
  needs more: what handlers return must be what a later walk will find in the log.
  `Replay` is the set of answers the log gives without executing anything, the
  greatest set of pairs (path, result) each of which has a reason (`Why`) in the
  log and in the answers of its children; loops and tries have none, since a
  resume goes past them again. `TellInv` says that a result that was returned
  agrees with the answer of the log and, without a loop or try below, is one
  (`Tells`), that a frame in the middle of its children remembers such results
  (`Recalls`), and that what settled is answered by every prefix of the log from
  then on (`SettledIn`). If the log answers at a path, it answers at every active
  path below (`ActiveBelowAnswers`, by taking the lowest such node), and it never
  answers at a step that runs; so a step that runs has nothing settled above it
  and its commit takes no answer away. A greatest set makes an induction over the
  tree unnecessary: to show that an answer survives, its reasons are collected.
* Dispatch. Each attempt is a pipeline: adapter, channel, drain goroutine, sink
  queue, pending deltas, log. `Stations` says that what an attempt emitted, read
  from the log backwards to the channel, is one interval of numbers cut at the
  borders of the stations, and that an older attempt has nothing left in front
  of the sink once its retry is recorded; `Control` ties the handler's position
  to the state of its goroutines; `Journal` gives the shape of the log. A step
  moves events over one border, so every action has a short lemma behind two
  frame lemmas.
* Map. What a map commits is settled while its items race, so the invariant
  follows the prune run: a loser decided so far loses against the items scored so
  far, and a bigger field has only more losers; every loser of the field is
  pruned or about to be; a stop has a winner that is not pruned; an item that
  ended without an error is scored or recorded. With all items joined this is
  what the frontier, the verdict and the quorum say of the log.
* Signals. One inode has one name at any moment, and a claim moves the inode
  that was read because no writer can have taken the number meanwhile; that
  is where the assumption about writers is used (`Overlapping = FALSE`). TLC refutes
  the property without it (see Findings).
* Calls. What exists at the backend is held by the driver or was left behind
  with a reason; what a body ran under are the pins of call.started or a version
  that was installed behind the driver's comparison (`crept`): the driver's pins
  are the installed ones unless they crept in, step by step.
* React. A round's calls are on record in order, and the place of the driver in
  a round is the first call without a leaf. `SameConversation` compares the
  memory of a driver with what its predecessors sent, a sequence rebuilt by
  concatenating over all rounds: that is an induction over data, and it stays
  with TLC.
* Exec. Each call satisfies a condition on its own record, pid file and sequence
  number, so that the cross-talk of two calls reduces to the kill reading
  its own pid file. Chunks are conserved: written = in the pipe + accepted,
  accepted = delivered + in the channel, less what a dropped stream took. A pid
  file has the pid of its own command, or is one the container was restored with
  and its command has not yet written it: the one way a kill may go astray.
* Docker. `DInv` has one part per call (`CallerGood`: where the call may be, what it
  holds, what its snapshot has copied, how far its restore is) and a few facts
  about all calls together: one call per runtime, who owns each container, and
  `Reserved`, which says that the daemon has an unused id for every create
  that has no container yet. A container is `excused` once its remove failed, its
  driver died or the answer to its create was lost. Seven frame lemmas cover the shapes a step can
  have (within a call's container, on to a later point, begin, gain a container,
  quit, finish, and the container's own steps), and every action is an instance of one.
  The hand-over after a restore rests on `Wrapper` and `Turns`: host and
  delete wrapper are never more than one marker apart, so the host finds the
  work ready only behind the wrapper's last step. Snapshots are only ever added
  (`Longer`), so what the ref of a restore denotes does not change under it.
* Native. A snapshot under way lists exactly the paths walked so far, a restore
  under way has written exactly the entries read so far into an empty directory.
* Live sessions. The copy a launch holds of the session record is current while
  it holds the lease, except in the places where the code reads before it leases, and
  there only the fields that cannot change under it are used. `LossInv` follows
  the turns that left the record: a launch that holds a copy from before its lease
  may write it over a turn, never over its own (`SeenFrom`), and each loss so far is
  one that `LeftTheRecord` names (`Explained`).
* Cached contents. A name that is gone never comes back, and the map knows every
  content whose name was not lost with its response.
* CLI adapters. The reduction of a stream is a fold, but what an outcome reads
  of it is the last line of a kind: the last verdict, message, notice, failure.
  `Reduced` says so of the running reduction, adapter by adapter, with `LastIn`
  over the lines read so far; one more line is then a case of `LastIn`
  (`LastGrows`), without induction over the stream.
* App-server client. Two parts for each turn. `OnWire`: the lines of its server
  hold its events `r + 1 .. sent` in their order. `Kept`: the events `1 .. r` are each in
  one of the reader's hand, the kept events, those about to be pushed, the
  channel and what the step saw. A step moves one event over one border, or the
  border `r` by one. `OwnWire` says that no other server has the events of a
  turn, and `CallOf` where a call in the table is, from which the single
  response follows. `OrderInv` is about the order inside `Kept`: seen,
  channel, about to be pushed, kept and the reader's hand form one row without a gap
  with the hand at its end, until a send overtakes the kept events; `RowLength` ties
  the row to the border `r`. The count of `EventsAccounted` is the length of the
  interval (`WireCounted`).

What the proofs changed in the models. An attempt to prove `MapSafe` for a map
of zero items showed that `VerdictFromLog` did not say what an empty map is;
`Tally`, `checkRef` of References and `createOrRestore` of DockerBackend had CASE
arms that overlap, whose meaning TLC fixes by taking the first and TLA+ does not;
the callers of DockerBackend are assumed to be finitely many, because the ids
that are left are counted against them;
the flush before a retry was one step that found the sink idle, and is now the
request, the drain and the acknowledgement that the code has (`flushWait`,
`FlushAck`, `RetryAttempt`); a code step has no sink; and the positional properties of
the agent journal replace ones over filtered sequences;
AgentAdapters names the absence of a text `"none"` (the empty string is beyond
tlapm's SMT backend) and states what its constants are, and CodexClient that the
servers are numbered from 1. All runs were repeated.

### Only model-checked

* Liveness (TLAPS has no ENABLED and no fairness): `EventuallyFinished`,
  `RequestStopsDriver`, `EventuallyServed`, `DriversReturn`, `WalkReturns`,
  `MapReturns`, `StepReturns`, `ContainerCallsReturn`, `LaunchReturns`.
* What rests on recursive definitions or on an induction over a sequence or
  tree: `TemplatesFaithful`, `EditedResumeSound`, `JuryLowered`, `LoadSafe`
  (their modules have RECURSIVE operators), `SameConversation`, `ResumeSound` (what a
  log earns, `Earned`, and what the preflight visits, `walkNode`, are defined by
  recursion over the workflow; that finally ran is one conjunct of it), and the
  text of an answer in `LlmSafe`, which is a fold over the lines.
* `RetrySane`: powers of two are uninterpreted to the SMT backend, and what it
  would need about `2^n` is an induction.
* Not attempted yet: see the plan.

## Findings

Each finding of PROJECT.json is a run that TLC refutes, with the sentence of the
repository it refutes.

* `adapters_react`: validation requires `with.uses: awf/llm` of a react step, the
  react step hands its `with:` unchanged to awf/llm, and awf/llm refuses `uses` as
  an unknown key: no react step reaches its model.
* `definitions_truncated`: the launch of awf/llm tests `finish == "length"`
  (`agent/awfllm/launch.go:89-90`), callGemini hands on Gemini's own word MAX_TOKENS
  (`agent/awfllm/transport.go:622`): an answer cut off at its limit is taken for whole.

Further behaviour met on the way, kept here without a run of its own. Where a
property has an exception for it, the exception is written at the property.

Journal and lifecycle

* A short write of node.started is swallowed (`engine/node_started.go:24`) and
  hides what is committed behind it; the model has it as the fault `"short"`.
* DeriveStatus takes the first run.finished (`obs/runstatus.go:50`): a run that
  failed, was resumed and finished is listed as failed.
* Admission refuses a run whose latest verdict is ok (`cli/resume_admission.go:34`):
  a finished run re-entered with `--from` and interrupted is
  refused by a plain resume.
* A cancelled run that is resumed is journalled as cancelled again whatever it
  did (`engine/fold.go:386`). `docs/runtime-design.md:304` calls a cancelled run
  not resumable; admission resumes it.
* Resume compares the loaded definition with the one of run.started only: a step
  that was re-run under an edited definition keeps its result when the edit is
  taken back, as `man/awf-workflow.5.md:2328` says of an unchanged definition.
* A pause ends the step in flight as a retryable failure
  (`engine/controls.go:67`), it does not wait for a commit boundary.

Signals

* A crash between the rename into consumed/ and signal.received
  (`signal/broker.go:295`, `engine/signal_step.go:221`) loses the signal;
  `man/awf.1.md:297-299` says it is never lost.
* Two overlapping `awf signal` processes can get one number, when the first file
  is consumed between the scan and the exclusive create of the second
  (`signal/broker.go:133`); an await that read the first file can then claim the
  second under the same name. A signal file is also visible before its payload
  is. The run `steps` therefore has the writers one after the other
  (`Overlapping = FALSE`).

Control nodes

* A loop that ended runs once more on every resume, past max_iters
  (`engine/interpreter.go:590`).
* An internal error in a branch is dropped behind the typed failure of a branch
  of lower index (`engine/parallel.go:191`) and can then be caught.
* The "unreachable" end of `runGateWithContext` (`engine/gate.go:202`) is reached
  by every resume of a gate that used up its attempts.
* The `do` of a try whose failure was caught is run again by a resume: nothing
  journals that it was caught.
* A step without container that starts under a cancelled context ends with an
  internal error, not a typed failure (`engine/interpreter.go:445`).
* The live preflight stops at a skip that the driver passes, ignores the catch
  of a try, and takes a loop at its bound for done (`Overlooked`).

Map and dispatch

* `stop_when` marks an item that already failed as item_pruned.
* An interrupt of a prune map commits the cancelled items as item_failed, and
  they are not run again; a committed reduction may not match items that are run
  again later.
* A score that is no number ends the map with an internal error;
  `engine/prune.go` says it fails the map as permanent.
* `docs/runtime-design.md:249` has a failing image render tolerated as an item;
  the code fails the whole map.
* A send on the sink after `closeWait` panics.

Call, react and compose

* An unknown tool gets a message and no leaf, so a resume of that round fails
  with "replay missing committed tool leaf"; a final answer that violates its
  schema is called retryable although its leaf is committed and every resume
  fails again; provider errors of a tool loop are internal errors.
* The `with:` of a react step is neither rendered nor guarded, and a role's
  `with:` is not merged into it.
* A skip at the root of a child makes runCallStep journal node.failed with
  outcome "ok" and unwinds the scope of the caller.
* Runtimes are compared with the pins once per driver: an upgrade behind the
  comparison is used without notice by the steps that follow.
* A call under map, loop or gate is reported by the preflight as "no longer maps
  to a call step"; the preflight checks completed calls for drift too.
* The exports of a child are read with the frame path of its caller
  (`engine/workflow_exports.go:178`), so a call inside a loop or gate may export
  another iteration or a rejected attempt (`ExportsSettled` excludes them).

References

* An artifact of a gate in a map item, loop or gate is looked up under the static
  path of the gate; `engine/artifact_scope.go:121-128` says validation rejects it.
* `input_files: input.files.<name>` of a call validates; the runtime accepts step
  and asset references only. A reference to a step that runs later validates, as
  do references into loops that the runtime refuses, and
  `{{ <react-id>.stop_reason }}`, which no scope resolves.
* The comment of `map_product_scope.go` that products and files have the same
  survivors does not hold for every reduction; collisions of input files are
  compared for adjacent sorted paths only.

Containers

* A ContainerCreate that took effect and lost its answer leaves a container nobody
  knows (`container/docker/backend.go:252-258`); a ContainerRemove that took effect
  and timed out registers a gone container again (`backend.go:400-405`).
* An attach stream that the daemon ends while the command runs gives exit code 0
  and no error (`container/docker/exec.go:137-193`).
* A container left by a crash or pause holds the name its successor needs, and a
  resume fails on it; the sanitised name is not injective.
* Restoring a restored container nests the delete wrapper once more
  (`container/backend.go:155-156` says the round trip preserves the
  configuration).
* A command killed before it has written its pid file is not found by the kill
  script; pid files of an earlier container come back with its snapshot, and a
  cancelled command that has not written its own may kill a stranger's number.
* The native Create keeps a directory that was left behind, though
  `cli/resume.go` says infrastructure is rebuilt; output behind a process that
  keeps the pipe open is cut off when Exec returns.

Live sessions

* The first attempt under `recovery: continue` abandons the turn of a dead
  process (`agent/codexlive/launch.go:80`, against the comment above it).
* Records are read and written outside the lock: two first launches start two
  threads, and the lease of a crashed run is not taken over before its TTL. A
  turn that is committed and not finalized blocks its session. A record that is
  written back, or the intent of another launch, may take a started turn off it.
* CheckSessionDrift compares the path of the provider binary
  (`agent/live/session.go:147-158`): an upgrade in place is not noticed.
* registerTurnEvents pushes the kept events behind its unlock
  (`agent/codexlive/process_client.go:436`, `455-461`): the reader may send a later
  event first, and a step that leaves on the last one never sees the kept ones. The
  push also waits for room in the channel that its own caller does not read yet;
  the model has the wait and no property promises its end.
* On a line above 4 MiB the reader fails the pending calls and ends while the
  server lives: a later call waits for its own context.
* `ensureStarted` checks and then acts, so two servers can be started, and the
  reader of the old one fails the calls of the new one; Close by one step ends
  the turns of the others, and may close a channel that is still sent to.
* The lock of the cached contents is held during the HTTP call; the key has
  neither base URL nor API key; a create whose response is lost leaves a content.

Adapters and awf/llm

* A line of more than 1 MiB stops the scanner, and codex, droid and goose then
  deliver no outcome (`agent/codex/launch.go:147`: "send exactly one").
* An error event of goose without text erases an earlier error; success lines are
  accepted despite a nonzero exit; the last verdict wins.
* A templated number, boolean or list passes the guard and is rejected when it is
  rendered; one suppressed error hides later ones; some invalid values of claude
  and droid are dropped silently.
* A react round accepts an answer at its length limit
  (`agent/awfllm/transport.go:252-288`); a stream that ends in good order without a
  stop reason is accepted; a dropped connection after an error event
  hides a permanent error behind a retryable one.

Definitions

* `a.0.1` is rejected by the lexer, which reads a decimal fraction, against the
  grammar at `template/lexer.go:17`.
* The structural digest ignores skip nodes; `--from` over a reordered definition
  keeps results computed from invalidated ones; a run resumed with `--from` over
  a structural change can only be resumed with `--from`.
* The exponential pause overflows well before the guard on the shift
  (`retry/policy.go:188`): from there the pause is zero, not the maximum.
* The limit on all assets can be exceeded by files that grow behind the stat; a
  file imported twice is read twice and may differ.

## Plan

Done: every module above.

Left, in order of importance:

1. Theorems: `ConfigSafe`, `ReferencesSound`; of `ResumeSound`, that every finally
   that was entered ran (`FinallyRan`).
2. Composition: map, call and react as nodes of the walk of ControlFlow.
3. Two runs that share one container name (the clash is in the model of one run
   only), and more than one caller of DockerBackend.
4. Skills: that skills.selected is pinned before the first attempt.

## Not modelled

Command-line parsing, YAML and JSON decoding, the text of command lines and of
messages to external programs and services, tar and image formats, kernel
sandboxing, floating-point skill ranking, pricing tables, JSON-schema
validation, the field-by-field structural checks of `ir/validate*.go`, and the
read-only projections for display (`graph`, `obs`, `ui`). The fake adapter and
the fake backend are test doubles. The conformance suite is a test program; it
was read as documentation.
