--------------------------- MODULE AgentDispatch ---------------------------
(***************************************************************************)
(* One agent or code step from its preparation to its verdict: the         *)
(* interpreter's handler (engine/agent_step.go), the retry loop            *)
(* (engine/retry_loop.go), one attempt of the dispatcher                   *)
(* (engine/local_dispatcher.go, engine/local_dispatcher_agent.go) with     *)
(* its wall and idle timers and its drain goroutine, and the goroutine     *)
(* that journals live events (engine/agent_event_sink.go).  The adapter is *)
(* the environment: it emits events and ends, or never ends.               *)
(*                                                                         *)
(* Time is left out: a timer that is armed may fire at any moment.  Every  *)
(* attempt has its own context, channels and drain goroutine, and that     *)
(* goroutine may outlive the attempt.                                      *)
(***************************************************************************)
EXTENDS Integers, Sequences, FiniteSets, SequencesExt

CONSTANTS
  Definitions, \* the steps of the instance
  MaxAttempts, \* bound on policy.Attempts over Definitions
  SinkBuffer   \* capacity of the sink's channel (agentEventSinkBuffer)

ASSUME DispatchAssumption ==
  /\ MaxAttempts \in Nat \ {0} /\ SinkBuffer \in Nat \ {0}
  /\ \A d \in Definitions :
       d.attempts \in 1 .. MaxAttempts /\ d.events \in Nat /\ d.kind \in {"agent", "code"}

VARIABLES
  def,     \* the step: kind, attempts, events an adapter emits at most, ...
  main,    \* the interpreter's goroutine
  attempt, \* 1-based attempt of the retry loop
  dr,      \* Outcome of the last DispatchResult, "none" for the empty one
  stopped, \* dispatchCtx is cancelled: operator, sibling or sink
  ctx,     \* attempt -> "off", "live", or why its context ended
  adapter, \* attempt -> events emitted, unread events, outcome
  drain,   \* attempt -> the drain goroutine
  sink,    \* the event sink
  log      \* events of the node, in order

vars == <<def, main, attempt, dr, stopped, ctx, adapter, drain, sink, log>>

Attempts == 1 .. MaxAttempts
Outcomes == {"ok", "retryable", "permanent"}
Committed == {"committed", "ok"}
Results == Outcomes \cup Committed \cup {"internal", "panic"}
IdleDrain == [pc |-> "off", hold |-> <<>>, buf |-> <<>>, err |-> FALSE]

Init ==
  /\ def \in Definitions
  /\ main = "prepare" /\ attempt = 1 /\ dr = "none" /\ stopped = FALSE
  /\ ctx = [a \in Attempts |-> "off"]
  /\ adapter = [a \in Attempts |-> [emitted |-> 0, queue |-> <<>>, outcome |-> "none"]]
  /\ drain = [a \in Attempts |-> IdleDrain]
  /\ sink = [queue |-> <<>>, closed |-> FALSE, pending |-> <<>>, timer |-> FALSE,
             flushing |-> FALSE, exited |-> FALSE, err |-> FALSE, done |-> "none"]
  /\ log = <<>>

Entry(t, ids) == [t |-> t, ids |-> ids]
IsDelta(id) == id[2] \in def.deltas

-----------------------------------------------------------------------------
(* The adapter, under the contract of agent/adapter.go or not. *)

AdapterEmits(a) ==
  /\ drain[a].pc \in {"loop", "deliver"} /\ adapter[a].outcome = "none"
  /\ adapter[a].emitted < def.events
  /\ LET id == <<a, adapter[a].emitted + 1>>
     IN  adapter' = [adapter EXCEPT ![a].emitted = @ + 1,
                                    ![a].queue = Append(@, id)]
  /\ UNCHANGED <<def, main, attempt, dr, stopped, ctx, drain, sink, log>>

\* the events channel is closed and the outcome sent
AdapterEnds(a) ==
  /\ drain[a].pc # "off" /\ adapter[a].outcome = "none"
  /\ \E oc \in {"ok", "unparseable", "error", "denied", "replay"} :
       /\ oc = "replay" => def.persistent
       /\ adapter' = [adapter EXCEPT ![a].outcome = oc]
  /\ UNCHANGED <<def, main, attempt, dr, stopped, ctx, drain, sink, log>>

-----------------------------------------------------------------------------
(* Contexts and timers. *)

EndContext(c, a, why) == [c EXCEPT ![a] = IF @ = "live" THEN why ELSE @]

IdleFires(a) ==
  /\ def.idle /\ ctx[a] = "live" /\ drain[a].pc \in {"loop", "deliver"}
  /\ ctx' = EndContext(ctx, a, "idle")
  /\ UNCHANGED <<def, main, attempt, dr, stopped, adapter, drain, sink, log>>

WallFires(a) ==
  /\ def.wall /\ ctx[a] = "live"
  /\ ctx' = EndContext(ctx, a, "wall")
  /\ UNCHANGED <<def, main, attempt, dr, stopped, adapter, drain, sink, log>>

\* dispatchCtx ends and with it the context of the running attempt
StopAll(c) == [a \in Attempts |-> IF c[a] = "live" THEN "parent" ELSE c[a]]

Interrupt ==
  /\ main \notin Results /\ ~ stopped
  /\ stopped' = TRUE /\ ctx' = StopAll(ctx)
  /\ UNCHANGED <<def, main, attempt, dr, adapter, drain, sink, log>>

-----------------------------------------------------------------------------
(* The drain goroutine of an attempt. *)

DrainEnd(a, err) == drain' = [drain EXCEPT ![a].pc = "done", ![a].hold = <<>>, ![a].err = err]

DrainTake(a) ==
  /\ drain[a].pc = "loop" /\ ctx[a] = "live" /\ adapter[a].queue # <<>>
  /\ drain' = [drain EXCEPT ![a].pc = "deliver", ![a].hold = <<Head(adapter[a].queue)>>]
  /\ adapter' = [adapter EXCEPT ![a].queue = Tail(@)]
  /\ UNCHANGED <<def, main, attempt, dr, stopped, ctx, sink, log>>

\* the channel is closed and empty, or the context ended
DrainStops(a) ==
  /\ drain[a].pc = "loop"
  /\ \/ ctx[a] # "live"
     \/ adapter[a].outcome # "none" /\ adapter[a].queue = <<>>
  /\ DrainEnd(a, FALSE)
  /\ UNCHANGED <<def, main, attempt, dr, stopped, ctx, adapter, sink, log>>

DrainBuffers(a) ==
  /\ drain[a].pc = "deliver" /\ ~ def.live
  /\ drain' = [drain EXCEPT ![a].pc = "loop", ![a].hold = <<>>, ![a].buf = @ \o drain[a].hold]
  /\ UNCHANGED <<def, main, attempt, dr, stopped, ctx, adapter, sink, log>>

Send(a, room) ==
  /\ drain[a].pc = "deliver" /\ def.live /\ ~ stopped /\ ~ sink.closed /\ room
  /\ sink' = [sink EXCEPT !.queue = @ \o drain[a].hold]
  /\ drain' = [drain EXCEPT ![a].pc = "loop", ![a].hold = <<>>]
  /\ UNCHANGED <<def, main, attempt, dr, stopped, ctx, adapter, log>>

\* a live event goes to the sink
SinkSend(a) == Send(a, Len(sink.queue) < SinkBuffer)

\* the sink is stopped, or full, which stops it and the provider
SinkRefuses(a) ==
  /\ drain[a].pc = "deliver" /\ def.live
  /\ \/ stopped /\ UNCHANGED <<sink, stopped>>
     \/ /\ ~ stopped /\ ~ sink.closed /\ Len(sink.queue) >= SinkBuffer
        /\ sink' = [sink EXCEPT !.err = TRUE] /\ stopped' = TRUE
  /\ DrainEnd(a, TRUE)
  /\ ctx' = StopAll(EndContext(ctx, a, "sink"))
  /\ UNCHANGED <<def, main, attempt, dr, adapter, log>>

\* a send on the channel that closeWait has closed
SendOnClosed(a) ==
  /\ drain[a].pc = "deliver" /\ def.live /\ ~ stopped /\ sink.closed
  /\ main' = "panic"
  /\ UNCHANGED <<def, attempt, dr, stopped, ctx, adapter, drain, sink, log>>

-----------------------------------------------------------------------------
(* The sink goroutine: deltas are merged until something else comes. *)

\* deltas that wait together become one agent.event
Group(ids) == IF ids = <<>> THEN <<>> ELSE <<Entry("event", ids)>>

Flushed(s) == log \o Group(s.pending)

Take(ordered) ==
  /\ ~ sink.exited /\ sink.queue # <<>>
  /\ LET id == Head(sink.queue)
     IN  IF IsDelta(id)
         THEN /\ sink' = [sink EXCEPT !.queue = Tail(@), !.timer = ~ sink.flushing,
                                      !.pending = Append(@, id)]
              /\ UNCHANGED log
         ELSE /\ sink' = [sink EXCEPT !.queue = Tail(@), !.timer = FALSE,
                                      !.pending = IF ordered THEN <<>> ELSE @]
              /\ log' = Append(IF ordered THEN Flushed(sink) ELSE log, Entry("event", <<id>>))
  /\ UNCHANGED <<def, main, attempt, dr, stopped, ctx, adapter, drain>>

HandleForgetsDelta == Take(FALSE)

handleEvent == Take(TRUE)

DeltaTimer ==
  /\ ~ sink.exited /\ sink.timer /\ ~ sink.flushing
  /\ log' = Flushed(sink)
  /\ sink' = [sink EXCEPT !.timer = FALSE, !.pending = <<>>]
  /\ UNCHANGED <<def, main, attempt, dr, stopped, ctx, adapter, drain>>

\* appending an event fails: the error stops the provider and the sink
AppendFails ==
  /\ ~ sink.exited /\ sink.queue # <<>> /\ def.logFails
  /\ sink' = [sink EXCEPT !.queue = Tail(@), !.err = TRUE, !.exited = TRUE, !.done = "err",
                          !.flushing = FALSE]
  /\ stopped' = TRUE /\ ctx' = StopAll(ctx)
  /\ UNCHANGED <<def, main, attempt, dr, adapter, drain, log>>

\* closed and drained: the last delta, then the final error or nil
SinkClosed ==
  /\ ~ sink.exited /\ sink.closed /\ sink.queue = <<>> /\ ~ sink.flushing
  /\ log' = Flushed(sink)
  /\ sink' = [sink EXCEPT !.exited = TRUE, !.pending = <<>>,
                          !.done = IF sink.err THEN "err" ELSE "nil"]
  /\ UNCHANGED <<def, main, attempt, dr, stopped, ctx, adapter, drain>>

\* a code step has no sink that could stop
SinkStopped ==
  /\ ~ sink.exited /\ stopped /\ ~ sink.flushing /\ def.kind = "agent"
  /\ sink' = [sink EXCEPT !.exited = TRUE, !.done = "err"]
  /\ UNCHANGED <<def, main, attempt, dr, stopped, ctx, adapter, drain, log>>

-----------------------------------------------------------------------------
(* The interpreter's goroutine. *)

\* templates, policy, thread, input files resolve; node.started is journaled
Prepare ==
  /\ main = "prepare"
  /\ main' = "dispatch"
  /\ log' = Append(log, Entry("started", <<>>))
  /\ UNCHANGED <<def, attempt, dr, stopped, ctx, adapter, drain, sink>>

\* an author's error fails the step before anything ran, an unreadable
\* artifact halts without a verdict
PrepareFails ==
  /\ main = "prepare"
  /\ \/ main' = "permanent" /\ log' = Append(log, Entry("failed", <<>>))
     \/ main' = "internal" /\ UNCHANGED log
  /\ UNCHANGED <<def, attempt, dr, stopped, ctx, adapter, drain, sink>>

EndAttempt(oc) ==
  /\ main' = "decide" /\ dr' = oc
  /\ ctx' = EndContext(ctx, attempt, "returned")

\* unknown adapter or handle, a capability the adapter lacks, a session that
\* cannot be restored, inputs that cannot be staged, a refused configuration
DispatchRefused ==
  /\ main = "dispatch"
  /\ \E oc \in {"none", "permanent", "retryable"} : EndAttempt(oc)
  /\ UNCHANGED <<def, attempt, stopped, adapter, drain, sink, log>>

Launch ==
  /\ main = "dispatch" /\ def.kind = "agent"
  /\ main' = "await"
  /\ ctx' = [ctx EXCEPT ![attempt] = IF stopped THEN "parent" ELSE "live"]
  /\ drain' = [drain EXCEPT ![attempt].pc = "loop"]
  /\ UNCHANGED <<def, attempt, dr, stopped, adapter, sink, log>>

\* what a code step's attempt runs into: transport and timeout errors beat the
\* exit code, a declared non-retryable code beats a parse error
ClassifyOutcome(exit, parseErr, callErr) ==
  CASE callErr -> "retryable"
    [] ~ callErr /\ exit \in def.nonRetryable -> "permanent"
    [] OTHER -> IF exit # 0 \/ parseErr THEN "retryable" ELSE "ok"

\* an oversized or unsupported snapshot is final, any other fault may pass
snapshotFailureOutcome(terminal) == IF terminal THEN "permanent" ELSE "retryable"

\* stage, exec, drain every chunk, capture the files of a clean exit, parse,
\* classify, snapshot a success; an expired timer is a transport error
runCode ==
  /\ main = "dispatch" /\ def.kind = "code"
  /\ \E exit \in {0, 1, 78}, parseErr \in BOOLEAN, fault \in {"none", "call", "capture", "snap", "toolarge"} :
       LET oc == ClassifyOutcome(exit, parseErr, fault = "call" \/ stopped)
           seen == fault # "call" /\ ~ stopped /\ ~ (exit = 0 /\ fault = "capture")
       IN  /\ adapter' = [adapter EXCEPT ![attempt].outcome =
                             IF seen /\ exit \in def.nonRetryable THEN "denied" ELSE "exited"]
           /\ EndAttempt(CASE exit = 0 /\ fault = "capture" -> "retryable"
                           [] oc = "ok" /\ fault = "snap" -> snapshotFailureOutcome(FALSE)
                           [] oc = "ok" /\ fault = "toolarge" -> snapshotFailureOutcome(TRUE)
                           [] OTHER -> oc)
  /\ UNCHANGED <<def, attempt, stopped, drain, sink, log>>

AwaitOutcome ==
  /\ main = "await" /\ adapter[attempt].outcome # "none"
  /\ main' = "join"
  /\ UNCHANGED <<def, attempt, dr, stopped, ctx, adapter, drain, sink, log>>

\* only the engine's own wall deadline is permanent
classifyAgentLaunchErr(why) == IF why = "wall" THEN "permanent" ELSE "retryable"

CancelledWaitsForAdapter ==
  /\ main \in {"await", "join"} /\ ctx[attempt] # "live" /\ adapter[attempt].outcome # "none"
  /\ EndAttempt(classifyAgentLaunchErr(ctx[attempt]))
  /\ UNCHANGED <<def, attempt, stopped, adapter, drain, sink, log>>

\* the context ends before the outcome or the drain: neither is waited for
CancelledResult ==
  /\ main \in {"await", "join"} /\ ctx[attempt] # "live"
  /\ EndAttempt(IF drain[attempt].pc = "done" /\ drain[attempt].err THEN "none"
                ELSE classifyAgentLaunchErr(ctx[attempt]))
  /\ UNCHANGED <<def, attempt, stopped, adapter, drain, sink, log>>

\* what the adapter's outcome comes to; files, the workspace and the session are
\* captured with the context of the attempt (an oversized snapshot is final), and
\* a live turn that must be replayed is a direct error
Classify(oc) ==
  CASE oc = "ok" -> {"ok"} \cup (IF def.files \/ ctx[attempt] # "live" THEN {"retryable"} ELSE {})
                           \cup (IF def.files THEN {snapshotFailureOutcome(TRUE)} ELSE {})
    [] oc = "unparseable" -> {IF def.persistent THEN "replay" ELSE "retryable"}
    [] oc = "error" -> {"retryable", classifyAgentLaunchErr(ctx[attempt])}
    [] oc = "denied" -> {"permanent"}
    [] OTHER -> {"replay"}

JoinDrain ==
  /\ main = "join" /\ drain[attempt].pc = "done"
  /\ \E oc \in IF drain[attempt].err THEN {"none"} ELSE Classify(adapter[attempt].outcome) :
       EndAttempt(oc)
  /\ UNCHANGED <<def, attempt, stopped, adapter, drain, sink, log>>

\* recovery: continue turns a replay signal into a retryable failure
Outcome == IF dr # "replay" THEN dr ELSE IF def.recover THEN "retryable" ELSE "none"

RetryDecide ==
  /\ main = "decide"
  /\ dr' = Outcome
  /\ main' = IF Outcome # "retryable" \/ attempt >= def.attempts THEN "close"
             ELSE IF def.kind = "agent" THEN "flush" ELSE "retry"
  /\ UNCHANGED <<def, attempt, stopped, ctx, adapter, drain, sink, log>>

\* the sink takes the request, unless it has stopped
flushWait ==
  /\ main = "flush" /\ ~ stopped /\ ~ sink.exited
  /\ main' = "flushing"
  /\ sink' = [sink EXCEPT !.flushing = TRUE, !.timer = FALSE]
  /\ UNCHANGED <<def, attempt, dr, stopped, ctx, adapter, drain, log>>

\* what the sink holds is journaled, then the flush is acknowledged
FlushAck ==
  /\ ~ sink.exited /\ sink.flushing /\ sink.queue = <<>>
  /\ log' = Flushed(sink)
  /\ sink' = [sink EXCEPT !.flushing = FALSE, !.pending = <<>>]
  /\ IF main # "flushing" THEN UNCHANGED <<main, dr>>
     ELSE IF sink.err THEN main' = "close" /\ dr' = "none"
     ELSE main' = "retry" /\ UNCHANGED dr
  /\ UNCHANGED <<def, attempt, stopped, ctx, adapter, drain>>

FlushStopped ==
  /\ main \in {"flush", "flushing"} /\ stopped
  /\ main' = "close" /\ dr' = "none"
  /\ UNCHANGED <<def, attempt, stopped, ctx, adapter, drain, sink, log>>

\* retry.attempt, after the events of the attempt
RetryAttempt ==
  /\ main = "retry"
  /\ main' = "sleep"
  /\ log' = Append(log, Entry("retry", <<attempt>>))
  /\ UNCHANGED <<def, attempt, dr, stopped, ctx, adapter, drain, sink>>

Wake ==
  /\ main = "sleep" /\ ~ stopped
  /\ main' = "dispatch" /\ attempt' = attempt + 1
  /\ UNCHANGED <<def, dr, stopped, ctx, adapter, drain, sink, log>>

SleepStopped ==
  /\ main = "sleep" /\ stopped
  /\ main' = "close"
  /\ UNCHANGED <<def, attempt, dr, stopped, ctx, adapter, drain, sink, log>>

CloseSink ==
  /\ main = "close"
  /\ sink' = [sink EXCEPT !.closed = TRUE]
  /\ main' = "closing"
  /\ UNCHANGED <<def, attempt, dr, stopped, ctx, adapter, drain, log>>

Buffered == drain[attempt].buf
VerdictEntries ==
  [i \in 1 .. Len(Buffered) |-> Entry("event", <<Buffered[i]>>)]

\* the turn of a live session is finalized behind its commit
Finalized == def.kind = "agent" /\ def.live /\ def.persistent

\* buffered events, then the verdict; a sink error or an empty result halts
Verdict ==
  /\ main = "closing" /\ sink.done # "none"
  /\ LET r == IF sink.done = "err" \/ dr = "none" THEN "internal" ELSE dr
     IN  /\ main' = IF r = "ok" /\ Finalized THEN "committed" ELSE r
         /\ log' = log \o VerdictEntries
                   \o (IF r = "internal" THEN <<>>
                       ELSE <<Entry(IF r = "ok" THEN "completed" ELSE "failed", <<>>)>>)
  /\ UNCHANGED <<def, attempt, dr, stopped, ctx, adapter, drain, sink>>

\* a finalizer that fails is one more event of the node, live.finalizer.warning
liveFinalizer ==
  /\ main = "committed"
  /\ main' = "ok"
  /\ log' \in {log, Append(log, Entry("warning", <<>>))}
  /\ UNCHANGED <<def, attempt, dr, stopped, ctx, adapter, drain, sink>>

Running == main # "panic"

Interpreter ==
  \/ Prepare \/ PrepareFails \/ DispatchRefused \/ runCode \/ Launch \/ AwaitOutcome
  \/ CancelledResult \/ JoinDrain \/ RetryDecide \/ flushWait \/ FlushStopped
  \/ RetryAttempt \/ Wake \/ SleepStopped \/ CloseSink \/ Verdict
  \/ liveFinalizer

DrainStep(a) ==
  \/ DrainTake(a) \/ DrainStops(a) \/ DrainBuffers(a) \/ SinkSend(a)
  \/ SinkRefuses(a) \/ SendOnClosed(a)

SinkStep ==
  handleEvent \/ DeltaTimer \/ AppendFails \/ FlushAck \/ SinkClosed \/ SinkStopped

Timers(a) == IdleFires(a) \/ WallFires(a)

Next ==
  /\ Running
  /\ \/ Interpreter \/ SinkStep \/ Interrupt
     \/ \E a \in Attempts :
          DrainStep(a) \/ Timers(a) \/ AdapterEmits(a) \/ AdapterEnds(a)

Spec == Init /\ [][Next]_vars

\* goroutines run and an armed wall timer fires; nothing is assumed of the adapter
FairSpec ==
  /\ Spec
  /\ WF_vars(Running /\ Interpreter)
  /\ WF_vars(Running /\ SinkStep)
  /\ \A a \in Attempts : /\ WF_vars(Running /\ DrainStep(a))
                         /\ WF_vars(Running /\ WallFires(a))

-----------------------------------------------------------------------------
(* Properties. *)

TypeOK ==
  /\ main \in Results \cup {"prepare", "dispatch", "await", "join", "decide", "flush",
                            "flushing", "retry", "sleep", "close", "closing"}
  /\ attempt \in 1 .. def.attempts
  /\ dr \in Outcomes \cup {"none", "replay"}
  /\ ctx \in [Attempts -> {"off", "live", "idle", "wall", "parent", "sink", "returned"}]
  /\ \A a \in Attempts : drain[a].pc \in {"off", "loop", "deliver", "done"}
  /\ Len(sink.queue) <= SinkBuffer /\ sink.done \in {"none", "nil", "err"}

EventAt == {p \in 1 .. Len(log) : log[p].t = "event"}
RetryAt == {p \in 1 .. Len(log) : log[p].t = "retry"}
Journaled == UNION {ToSet(log[p].ids) : p \in EventAt}

\* ids are pairs of an attempt and a number; only those of one attempt are in order
Increasing(ids) ==
  \A i, j \in 1 .. Len(ids) : i < j /\ ids[i][1] = ids[j][1] => ids[i][2] < ids[j][2]
Precede(S, T) == \A x \in S, y \in T : x[1] = y[1] => x[2] < y[2]

\* The journal shows the events of an attempt in the order the adapter emitted
\* them and each once, though deltas wait in the sink and other events overtake
\* them in memory (agent_event_sink.go, handleEvent; agent_step.go:421).
EventsInOrder ==
  /\ \A p \in EventAt : Increasing(log[p].ids)
  /\ \A p, q \in EventAt : p < q => Precede(ToSet(log[p].ids), ToSet(log[q].ids))

\* A committed step has all its events in the journal and no other, unless its
\* timer or an interrupt cut the drain short.
CommittedComplete ==
  main \in Committed /\ ctx[attempt] = "returned" =>
    {id \in Journaled : id[1] = attempt} = {<<attempt, n>> : n \in 1 .. adapter[attempt].emitted}

\* Behind its verdict the node gets no entry but the warning of a live session's
\* finalizer, which follows a commit and nothing else (agent_step.go:460-474); every
\* failed attempt but the last has one retry.attempt, in order (retry_loop.go).
JournalShape ==
  /\ \A p \in 1 .. Len(log) :
       /\ log[p].t = "failed" => p = Len(log)
       /\ log[p].t = "completed" /\ p < Len(log) =>
            Finalized /\ p + 1 = Len(log) /\ log[p + 1].t = "warning"
       /\ log[p].t = "warning" => p > 1 /\ log[p - 1].t = "completed"
  /\ \E n \in {attempt - 1, attempt} : {log[p].ids : p \in RetryAt} = {<<a>> : a \in 1 .. n}
  /\ \A p, q \in RetryAt : p < q => log[p].ids[1] < log[q].ids[1]

\* A failure the code calls final is never retried: the step's wall deadline, a
\* refused permission, an exit code the author declared non-retryable
\* (classifyAgentLaunchErr, ClassifyOutcome).
FinalIsFinal ==
  \A a \in Attempts : a < attempt =>
    /\ ctx[a] = "wall" => adapter[a].outcome # "none"
    /\ adapter[a].outcome = "denied" => ctx[a] \notin {"off", "returned"}

\* A step with a verdict of the workflow (ok or a typed failure) lost nothing to
\* the sink: backpressure or a failed append halts without a verdict.
SinkErrorHalts == main \in Outcomes \cup Committed => ~ sink.err

\* A step with a wall timeout ends whatever its adapter does: no wait of the
\* handler, the drain or the sink is for ever.  That a finalizer comes back is assumed.
StepReturns == def.wall => <>(main \in Results \ {"committed"})

\* The journal of an agent step has the events of every attempt in the order the
\* adapter sent them, all of them before a commit, a retry between two attempts
\* and one verdict, with at most a finalizer's warning behind it, although three
\* goroutines and two timers race.  A final failure ends the step, whatever attempts
\* are left, and so does an event that could not be journaled: neither is retried
\* away or reported as a result.
JournalFaithful ==
    /\ TypeOK
    /\ EventsInOrder
    /\ CommittedComplete
    /\ JournalShape
    /\ FinalIsFinal
    /\ SinkErrorHalts
=============================================================================
