---------------------------- MODULE RunLifecycle ----------------------------
(***************************************************************************)
(* One run seen from outside: `awf run`, then any number of `awf resume`   *)
(* (plain, over an edited definition, or --from), the pause.json and       *)
(* cancel.json files an operator writes meanwhile, the goroutine that      *)
(* polls them, the verdict the driver journals, and the two readers of     *)
(* the log that decide what happens next: resumeAdmission and DeriveStatus.*)
(*                                                                         *)
(* RunJournal covers appends, fsyncs and the run lock: here an append is   *)
(* one durable step and there is at most one driver.                       *)
(***************************************************************************)
EXTENDS Naturals, Sequences, FiniteSets

CONSTANTS
    N,          \* the workflow is the sequence of top-level steps 1 .. N
    MaxEpoch,   \* bound on the number of drivers
    MaxTrouble  \* bound on crashes, failures, interrupts and operator requests

ASSUME LifecycleAssumption == N \in Nat /\ MaxEpoch \in Nat /\ MaxTrouble \in Nat

Nodes == 1 .. N

VARIABLES
    events,     \* the run's log
    pauseFile,  \* control/pause.json exists
    cancelFile, \* control/cancel.json exists
    pc,         \* where the driver is; "idle" when no driver holds the lock
    epoch,      \* FileLog.epoch of the driver
    target,     \* RunOptions.RerunFrom, 0 when empty
    done,       \* RunState.Completed
    paused,     \* RunState.Paused # nil
    cancelled,  \* RunState.Cancelled
    ctxDone,    \* the walk's context is cancelled
    polling,    \* the pollControls goroutine is alive
    outcome,    \* what interpNodes returned
    detected,   \* history: <<epoch, request>> the pollers have detected
    killed,     \* history: epochs whose driver did not exit by itself
    trouble     \* how much trouble is left

control == <<pauseFile, cancelFile>>
memory == <<epoch, target, done, paused, cancelled>>
walker == <<ctxDone, polling, outcome>>
history == <<detected, killed>>
vars == <<events, pauseFile, cancelFile, pc, epoch, target, done, paused,
          cancelled, ctxDone, polling, outcome, detected, killed, trouble>>

-----------------------------------------------------------------------------
(* The log and what is read from it.                                       *)

Failures == {"retryable_failure", "permanent_failure"}
Verdicts == {"run.finished", "run.paused", "run.cancelled"}
EventTypes == Verdicts \cup {"run.started", "run.resumed", "node.completed",
                             "node.failed", "node.invalidated"}

Event == [type : EventTypes, paths : SUBSET Nodes, epoch : Nat,
          status : Failures \cup {"ok", "none"}]

OfType(l, type) == {i \in 1 .. Len(l) : l[i].type = type}

\* RunState.Completed after a fold: a node.invalidated takes back the
\* completions before it
CompletedIn(l) ==
    {n \in Nodes : \E i \in OfType(l, "node.completed") :
        /\ n \in l[i].paths
        /\ \A j \in OfType(l, "node.invalidated") : j > i => n \notin l[j].paths}

\* mutant of Admits: only an unfinished run is admitted
AdmitsUnfinished(l) == OfType(l, "run.finished") = {}

\* resumeAdmission: the latest run.finished is not ok
Admits(l) == \A i \in OfType(l, "run.finished") :
                l[i].status = "ok" => \E j \in OfType(l, "run.finished") : j > i

\* DeriveStatus: the first run.cancelled or run.finished of the log decides;
\* without one the last event, then the latest of run.paused and run.resumed
DeriveStatus(l) ==
    LET ends == OfType(l, "run.cancelled") \cup OfType(l, "run.finished")
        first == CHOOSE i \in ends : \A j \in ends : i <= j
        Named(status) == IF status = "ok" THEN "finished"
                         ELSE IF status = "retryable_failure" THEN "resumable" ELSE "failed"
    IN  CASE ends # {} /\ l[first].type = "run.cancelled" -> "cancelled"
          [] ends # {} /\ l[first].type = "run.finished" -> Named(l[first].status)
          [] ends = {} /\ l # <<>> /\ l[Len(l)].type = "node.failed" -> Named(l[Len(l)].status)
          [] ends = {} /\ \E i \in OfType(l, "run.paused") :
                             \A j \in OfType(l, "run.resumed") : j < i -> "paused"
          [] OTHER -> "incomplete"

-----------------------------------------------------------------------------
(* Building blocks.                                                        *)

Log(type, paths, status) ==
    events' = Append(events, [type |-> type, paths |-> paths, epoch |-> epoch,
                              status |-> status])

SpendTrouble == trouble > 0 /\ trouble' = trouble - 1

Walking == {"walk", "step", "walked", "verdict"}

\* the driver's process is gone: nothing of its memory matters any more
Gone ==
    /\ pc' = "idle"
    /\ target' = 0
    /\ done' = {}
    /\ paused' = FALSE
    /\ cancelled' = FALSE
    /\ ctxDone' = FALSE
    /\ polling' = FALSE
    /\ outcome' = "none"
    /\ UNCHANGED epoch

\* engine.Run from the start of the poller on
StartWalk == pc' = "walk" /\ polling' = TRUE /\ UNCHANGED <<ctxDone, outcome>>

-----------------------------------------------------------------------------
(* `awf run` and `awf resume`.                                             *)

RunStart ==
    /\ events = <<>>
    /\ Log("run.started", {}, "none")
    /\ StartWalk
    /\ UNCHANGED <<control, memory, history, trouble>>

\* Lock, open, fold and admission.  --from skips the admission; an edited
\* definition that passes the structural guard picks its own target.
ResumeFold(from, forced) ==
    /\ pc = "idle"
    /\ events # <<>>
    /\ epoch < MaxEpoch
    /\ IF forced THEN from # 0 /\ SpendTrouble ELSE Admits(events) /\ UNCHANGED trouble
    /\ epoch' = events[Len(events)].epoch + 1
    /\ target' = from
    /\ done' = CompletedIn(events)
    /\ cancelled' = (OfType(events, "run.cancelled") # {})
    /\ pc' = "res.clear"
    /\ UNCHANGED <<events, control, paused, walker, history>>

\* broker.ClearPauseCancel, before run.resumed is journaled
ClearPauseCancel ==
    /\ pc = "res.clear"
    /\ pauseFile' = FALSE
    /\ cancelFile' = FALSE
    /\ pc' = "res.append"
    /\ UNCHANGED <<events, memory, walker, history, trouble>>

\* a definition, pin, container or runtime check refuses the resume
ResumeAbort ==
    /\ pc \in {"res.clear", "res.append"}
    /\ SpendTrouble
    /\ Gone
    /\ UNCHANGED <<events, control, history>>

AppendRunResumed ==
    /\ pc = "res.append"
    /\ Log("run.resumed", {}, "none")
    /\ pc' = "res.rerun"
    /\ UNCHANGED <<control, memory, walker, history, trouble>>

\* mutant of ComputeRerunInvalidation: only the target itself is re-run
InvalidateTargetOnly == {n \in done : n = target}

\* the target and everything after its top-level node
ComputeRerunInvalidation == IF target = 0 THEN {} ELSE {n \in done : n >= target}

\* engine.Run journals the invalidation and then applies it to its RunState
ApplyRerun ==
    /\ pc = "res.rerun"
    /\ IF ComputeRerunInvalidation = {}
       THEN UNCHANGED events
       ELSE Log("node.invalidated", ComputeRerunInvalidation, "none")
    /\ done' = done \ ComputeRerunInvalidation
    /\ StartWalk
    /\ UNCHANGED <<control, epoch, target, paused, cancelled, history, trouble>>

-----------------------------------------------------------------------------
(* The walk.                                                               *)

\* the first node that is not completed
Frontier == CHOOSE n \in Nodes \ done : \A m \in Nodes \ done : n <= m

StartStep ==
    /\ pc = "walk"
    /\ done # Nodes
    /\ pc' = "step"
    /\ UNCHANGED <<events, control, memory, walker, history, trouble>>

CommitStep ==
    /\ pc = "step"
    /\ Log("node.completed", {Frontier}, "ok")
    /\ done' = done \cup {Frontier}
    /\ pc' = "walk"
    /\ UNCHANGED <<control, epoch, target, paused, cancelled, walker, history, trouble>>

\* the step itself fails: node.failed, and the walk returns its outcome
FailStep(status) ==
    /\ pc = "step"
    /\ SpendTrouble
    /\ Log("node.failed", {Frontier}, status)
    /\ outcome' = status
    /\ pc' = "walked"
    /\ UNCHANGED <<control, memory, ctxDone, polling, history>>

\* the dispatch ends because its context is cancelled: a transport error,
\* classified retryable_failure and journaled as node.failed
StepInterrupted ==
    /\ pc = "step"
    /\ ctxDone
    /\ Log("node.failed", {Frontier}, "retryable_failure")
    /\ outcome' = "retryable_failure"
    /\ pc' = "walked"
    /\ UNCHANGED <<control, memory, ctxDone, polling, history, trouble>>

\* an internal error: no outcome and no node.failed
StepBroken ==
    /\ pc = "step"
    /\ SpendTrouble
    /\ outcome' = "internal"
    /\ pc' = "walked"
    /\ UNCHANGED <<events, control, memory, ctxDone, polling, history>>

\* every node returned ok
WalkDone ==
    /\ pc = "walk"
    /\ done = Nodes
    /\ outcome' = "ok"
    /\ pc' = "walked"
    /\ UNCHANGED <<events, control, memory, ctxDone, polling, history, trouble>>

\* Broker.CheckPauseCancel: which request files exist
CheckPauseCancel == [pause |-> pauseFile, cancel |-> cancelFile]

\* mutant of PollControls: the request is recorded, the walk's context is not cancelled
PollDoesNotCancel ==
    /\ polling
    /\ cancelFile \/ pauseFile
    /\ cancelled' = (cancelled \/ cancelFile)
    /\ paused' = ~cancelFile
    /\ detected' = detected \cup {<<epoch, IF cancelFile THEN "cancel" ELSE "pause">>}
    /\ polling' = FALSE
    /\ UNCHANGED <<events, control, pc, epoch, target, done, ctxDone, outcome, killed, trouble>>

\* one tick of pollControls that finds a request; cancel wins over pause
PollControls ==
    /\ polling
    /\ \/ /\ CheckPauseCancel.cancel
          /\ cancelled' = TRUE
          /\ detected' = detected \cup {<<epoch, "cancel">>}
          /\ UNCHANGED paused
       \/ /\ ~CheckPauseCancel.cancel
          /\ CheckPauseCancel.pause
          /\ paused' = TRUE
          /\ detected' = detected \cup {<<epoch, "pause">>}
          /\ UNCHANGED cancelled
    /\ ctxDone' = TRUE
    /\ polling' = FALSE
    /\ UNCHANGED <<events, control, pc, epoch, target, done, outcome, killed, trouble>>

\* the poller sees its context done before it sees a request
PollerExit ==
    /\ polling
    /\ ctxDone
    /\ polling' = FALSE
    /\ UNCHANGED <<events, control, pc, memory, ctxDone, outcome, history, trouble>>

\* interpNodes has returned: cancel() and <-pollDone
AwaitPoller ==
    /\ pc = "walked"
    /\ ctxDone' = TRUE
    /\ IF polling THEN UNCHANGED pc ELSE pc' = "verdict"
    /\ UNCHANGED <<events, control, memory, polling, outcome, history, trouble>>

-----------------------------------------------------------------------------
(* The verdict: appendTerminalControlEvents, then finishRunResult.         *)

AppendRunCancelled ==
    /\ pc = "verdict"
    /\ cancelled
    /\ Log("run.cancelled", {}, "none")
    /\ Gone
    /\ UNCHANGED <<control, history, trouble>>

AppendRunPaused ==
    /\ pc = "verdict"
    /\ ~cancelled
    /\ paused
    /\ Log("run.paused", {}, "none")
    /\ Gone
    /\ UNCHANGED <<control, history, trouble>>

\* run.finished carries the walk's outcome; an internal error leaves no record
FinishRun ==
    /\ pc = "verdict"
    /\ ~cancelled
    /\ ~paused
    /\ IF outcome = "internal" THEN UNCHANGED events ELSE Log("run.finished", {}, outcome)
    /\ Gone
    /\ UNCHANGED <<control, history, trouble>>

-----------------------------------------------------------------------------
(* The operator and the environment.                                       *)

\* the request files after a write of one of them
writeControlJSON(pause, cancel) == pauseFile' = pause /\ cancelFile' = cancel

WritePause ==
    /\ events # <<>>
    /\ SpendTrouble
    /\ writeControlJSON(TRUE, cancelFile)
    /\ UNCHANGED <<events, pc, memory, walker, history>>

WriteCancel ==
    /\ events # <<>>
    /\ SpendTrouble
    /\ writeControlJSON(pauseFile, TRUE)
    /\ UNCHANGED <<events, pc, memory, walker, history>>

\* SIGINT or SIGTERM: the context given to engine.Run is cancelled
Interrupt ==
    /\ pc \in {"walk", "step"}
    /\ ~ctxDone
    /\ SpendTrouble
    /\ ctxDone' = TRUE
    /\ UNCHANGED <<events, control, pc, memory, polling, outcome, history>>

Crash ==
    /\ pc # "idle"
    /\ SpendTrouble
    /\ killed' = killed \cup {epoch}
    /\ Gone
    /\ UNCHANGED <<events, control, detected>>

-----------------------------------------------------------------------------
(* The specification.                                                      *)

Init ==
    /\ events = <<>>
    /\ pauseFile = FALSE
    /\ cancelFile = FALSE
    /\ pc = "idle"
    /\ epoch = 0
    /\ target = 0
    /\ done = {}
    /\ paused = FALSE
    /\ cancelled = FALSE
    /\ ctxDone = FALSE
    /\ polling = FALSE
    /\ outcome = "none"
    /\ detected = {}
    /\ killed = {}
    /\ trouble = MaxTrouble

\* what a driver that is scheduled does, however long its steps take
Drive ==
    \/ ClearPauseCancel \/ AppendRunResumed \/ ApplyRerun
    \/ StartStep \/ StepInterrupted \/ WalkDone
    \/ AwaitPoller
    \/ AppendRunCancelled \/ AppendRunPaused \/ FinishRun

Poll == PollControls \/ PollerExit

Resume == \E from \in Nodes \cup {0}, forced \in BOOLEAN : ResumeFold(from, forced)

Next ==
    \/ RunStart
    \/ Resume
    \/ Drive
    \/ CommitStep
    \/ Poll
    \/ ResumeAbort
    \/ \E status \in Failures : FailStep(status)
    \/ StepBroken
    \/ WritePause \/ WriteCancel \/ Interrupt \/ Crash

Spec == Init /\ [][Next]_vars

\* The driver and the poller goroutine are scheduled.  A dispatched step may
\* run for ever, but returns once its context is cancelled.
SchedulingSpec == Spec /\ WF_vars(Drive) /\ WF_vars(Poll)

-----------------------------------------------------------------------------
(* Properties.                                                             *)

\* Every variable has its type.
TypeOK ==
    /\ events \in Seq(Event)
    /\ {pauseFile, cancelFile, paused, cancelled, ctxDone, polling} \subseteq BOOLEAN
    /\ pc \in Walking \cup {"idle", "res.clear", "res.append", "res.rerun"}
    /\ epoch \in 0 .. MaxEpoch
    /\ target \in Nodes \cup {0}
    /\ done \in SUBSET Nodes
    /\ outcome \in Failures \cup {"ok", "internal", "none"}
    /\ detected \in SUBSET ((0 .. MaxEpoch) \X {"pause", "cancel"})
    /\ killed \in SUBSET (0 .. MaxEpoch)
    /\ trouble \in 0 .. MaxTrouble

\* Live state is replayed state: while a driver walks, its RunState.Completed
\* is what a fold of the log would rebuild, re-runs included, so a crash at
\* any point resumes exactly where the walk was.
MirrorsFold == pc \in Walking => done = CompletedIn(events)

\* Steps complete in order and a re-run leaves no later step behind: whatever
\* crashed or was re-run, the completed steps are a prefix of the workflow.
CompletedPrefix ==
    \A n \in CompletedIn(events) : \A m \in 1 .. n : m \in CompletedIn(events)

\* A driver journals at most one verdict, as its last record (execute.go
\* returns before run.finished on ErrPaused and ErrCancelled).
OneVerdictPerEpoch ==
    \A i, j \in 1 .. Len(events) :
        i < j /\ events[i].type \in Verdicts => events[i].epoch < events[j].epoch

\* run.finished{ok} is journaled only over a log in which every step is
\* completed, also when steps were invalidated by a re-run before it.
FinishedOkComplete ==
    \A i \in OfType(events, "run.finished") :
        events[i].status = "ok" => CompletedIn(SubSeq(events, 1, i)) = Nodes

\* A request the poller detected is never dropped in favour of the walk's own
\* outcome: unless the driver was killed, its epoch ends with run.cancelled
\* (a cancel) or with one of run.paused and run.cancelled (a pause).
DetectedRequestJournaled ==
    \A d \in detected :
        \/ d[1] \in killed
        \/ d[1] = epoch /\ pc # "idle"
        \/ \E i \in OfType(events, "run.cancelled") : events[i].epoch = d[1]
        \/ /\ d[2] = "pause"
           /\ \E i \in OfType(events, "run.paused") : events[i].epoch = d[1]

\* A pause or cancel request a live poller can see stops the driver: it gives
\* up the run lock, whatever the step in flight does.
RequestStopsDriver == (polling /\ (pauseFile \/ cancelFile)) ~> (pc = "idle")

\* A run whose steps all end, and that an operator starts and resumes after
\* every pause, failure, crash or interrupt, finishes ok, unless it was ever
\* cancelled.
EventuallyFinished ==
    WF_vars(CommitStep) /\ WF_vars(RunStart) /\ WF_vars(ResumeFold(0, FALSE))
    => <>( \/ \E i \in OfType(events, "run.finished") : events[i].status = "ok"
        \/ OfType(events, "run.cancelled") # {} )

\* What is listed is what happened: a run is listed as finished when all its
\* steps were committed, as cancelled when it was asked to, as paused when it was
\* asked to and nothing was committed since; and a run that is listed as paused
\* or incomplete can be resumed (DeriveStatus, resumeAdmission).
ListedHonestly ==
    LET status == DeriveStatus(events)
        Earliest(t) == CHOOSE i \in OfType(events, t) : \A j \in OfType(events, t) : i <= j
        Latest(t) == CHOOSE i \in OfType(events, t) : \A j \in OfType(events, t) : i >= j
    IN  /\ status = "finished" => CompletedIn(SubSeq(events, 1, Earliest("run.finished"))) = Nodes
        /\ status = "cancelled" => <<events[Earliest("run.cancelled")].epoch, "cancel">> \in detected
        /\ status = "paused" => /\ <<events[Latest("run.paused")].epoch, "pause">> \in detected
                                /\ \A i \in OfType(events, "node.completed") : i < Latest("run.paused")
        /\ status \in {"paused", "incomplete"} => Admits(events)

\* At every moment the driver's own state is what a fold of the log would say,
\* also behind a targeted re-run; what is committed is a prefix of the workflow,
\* an epoch has one verdict, ok means complete, a pause or cancel that the
\* driver saw is in the log, and the status listed for the run says so.
RunHonest ==
    /\ TypeOK
    /\ MirrorsFold
    /\ CompletedPrefix
    /\ OneVerdictPerEpoch
    /\ FinishedOkComplete
    /\ DetectedRequestJournaled
    /\ ListedHonestly
=============================================================================
