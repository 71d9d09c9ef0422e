--------------------------- MODULE SubworkflowCall ---------------------------
(***************************************************************************)
(* The two nodes that own containers of their own: a call of a child       *)
(* workflow (runCallStep), whose first entry pins the child's input and    *)
(* the versions of its agent runtimes in a call.started record, and a      *)
(* compose block (runCompose), whose compose file an earlier step made.    *)
(* Both create containers, walk a body, and destroy the containers         *)
(* whatever the body returned.  A resume checks the pins of every          *)
(* recorded call before it walks anything.                                 *)
(***************************************************************************)
EXTENDS Naturals, Sequences, FiniteSets

CONSTANTS
    Boxes,        \* the child's declared containers, a sequence sorted by name
    Snapshotted,  \* those with snapshot: workspace
    ImageTargets, \* those a map of the child renders itself
    Versions,     \* versions an agent runtime may be at
    NameClash,    \* the backend refuses to create a container whose name is taken
    MaxWalks,     \* bound on drivers
    MaxTrouble    \* bound on failures and crashes

\* "unpinned" stands for a call without a record
ASSUME CallAssumption ==
    /\ "unpinned" \notin Versions
    /\ Boxes \in Seq(STRING) /\ Snapshotted \subseteq {Boxes[i] : i \in DOMAIN Boxes}
    /\ NameClash \in BOOLEAN /\ MaxWalks \in Nat /\ MaxTrouble \in Nat

VARIABLES
    node,      \* "call" or "compose"
    version,   \* the runtime version found when it is asked for
    started,   \* the version pinned by call.started, or Unpinned
    body,      \* what the log holds of the body: "none", "part" or "whole"
    snapshot,  \* the containers with a committed workspace snapshot
    done,      \* the node has a node.completed
    boxes,     \* the containers that exist at the backend
    cpc,       \* where the driver is
    nth,       \* position in the child's containers
    mine,      \* the containers whose handle this driver holds
    read,      \* the version this driver resolved, or Unpinned
    unclean,   \* a destroy of this walk failed
    inner,     \* what the walk of the body returned
    status,    \* what the node returned to its caller
    walks,     \* number of drivers so far
    trouble,   \* failures left
    lost,      \* history: containers a failed destroy or a crash left behind
    restored,  \* history: containers of this walk that came from their snapshot
    ran,       \* history: the versions that steps of the body were committed under
    crept      \* history: the versions installed under a driver that had compared already

pins == <<node, started, done>>
history == <<ran, crept>>
callVars == <<node, version, started, body, snapshot, done, boxes, cpc, nth, mine, read, unclean, inner,
              status, walks, trouble, lost, restored, ran, crept>>

Unpinned == "unpinned"
\* createRuntimeHandles leaves out what a map renders itself
Wanted == SelectSeq(Boxes, LAMBDA b : b \notin ImageTargets)
Hit == trouble > 0 /\ trouble' = trouble - 1
Well == UNCHANGED trouble

\* what a driver forgets when it leaves the node
Leave(s) ==
    /\ status' = s /\ cpc' = "idle" /\ nth' = 0 /\ read' = Unpinned /\ inner' = "none"
    /\ unclean' = FALSE /\ restored' = {}

-----------------------------------------------------------------------------
(* A driver reaches the node.                                              *)

\* awf run or awf resume; a resume looks at the recorded calls first
Start ==
    /\ cpc = "idle" /\ walks < MaxWalks /\ status # "ok"
    /\ walks' = walks + 1
    /\ status' = "none"
    /\ cpc' = IF node = "call" /\ started # Unpinned THEN "preflight" ELSE "enter"
    /\ nth' = 1
    /\ UNCHANGED <<pins, history, version, body, snapshot, boxes, mine, read, unclean, inner, lost, restored>> /\ Well

\* an agent runtime is upgraded, at any time
Upgrade ==
    /\ node = "call"
    /\ \E v \in Versions \ {version} : version' = v
    /\ crept' = IF read = Unpinned THEN crept ELSE crept \cup {version'}
    /\ Hit
    /\ UNCHANGED <<pins, ran, body, snapshot, boxes, cpc, nth, mine, read, unclean, inner, status, walks, lost, restored>>

-----------------------------------------------------------------------------
(* createRuntimeHandles and destroyRuntimeHandles.                         *)

Creating == cpc \in {"preflight", "create"} /\ nth <= Len(Wanted)
Refused(b) == NameClash /\ b \in boxes

\* mutant of Create: a container that is to be restored is created afresh
CreateAlwaysFresh ==
    /\ Creating
    /\ ~Refused(Wanted[nth])
    /\ boxes' = boxes \cup {Wanted[nth]} /\ mine' = mine \cup {Wanted[nth]}
    /\ nth' = nth + 1
    /\ UNCHANGED <<pins, history, version, body, snapshot, cpc, read, unclean, inner, status, walks, lost, restored>> /\ Well

\* createOrRestoreRuntimeHandle
Create ==
    /\ Creating
    /\ LET b == Wanted[nth] IN
          /\ ~Refused(b)
          /\ boxes' = boxes \cup {b} /\ mine' = mine \cup {b}
          /\ restored' = IF b \in Snapshotted /\ b \in snapshot THEN restored \cup {b} ELSE restored
    /\ nth' = nth + 1
    /\ UNCHANGED <<pins, history, version, body, snapshot, cpc, read, unclean, inner, status, walks, lost>> /\ Well

\* one cannot be created: the others are destroyed, the call fails retryable,
\* a preflight refuses the resume
CreateFails ==
    /\ Creating
    /\ IF Refused(Wanted[nth]) THEN Well ELSE Hit
    /\ inner' = IF cpc = "preflight" THEN "internal" ELSE "retryable_failure"
    /\ cpc' = "destroy" /\ nth' = 0
    /\ UNCHANGED <<pins, history, version, body, snapshot, boxes, mine, read, unclean, status, walks, lost, restored>>

Destroying == cpc \in {"destroy", "preflight.destroy"}

\* destroyRuntimeHandles goes on behind a container it cannot destroy
DestroyOne ==
    /\ Destroying
    /\ \E b \in mine :
          /\ mine' = mine \ {b}
          /\ \/ boxes' = boxes \ {b} /\ Well /\ UNCHANGED <<lost, unclean>>
             \/ lost' = lost \cup {b} /\ Hit /\ unclean' = TRUE /\ UNCHANGED boxes
    /\ UNCHANGED <<pins, history, version, body, snapshot, cpc, nth, read, inner, status, walks, restored>>

-----------------------------------------------------------------------------
(* The agent runtimes of the child's steps, as one version.                *)

\* WalkRuntimeRefs and ResolveRuntimes: each adapter is asked for its version
ResolveRuntimes == version
\* CheckRuntimesDrift: what was recorded is what is found, runtime by runtime
CheckRuntimesDrift(recorded, current) == recorded = current

-----------------------------------------------------------------------------
(* The preflight of the recorded calls.                                    *)

\* preflightOneCallStartedRuntime: CheckRuntimesDrift against the record
PreflightCheck ==
    /\ cpc = "preflight" /\ nth > Len(Wanted)
    /\ cpc' = "preflight.destroy" /\ nth' = 0
    /\ inner' = IF CheckRuntimesDrift(started, ResolveRuntimes) THEN "ok" ELSE "internal"
    /\ UNCHANGED <<pins, history, version, body, snapshot, boxes, mine, read, unclean, status, walks, lost, restored>> /\ Well

\* its handles go again, and nobody looks whether that worked
PreflightEnd ==
    /\ cpc = "preflight.destroy" /\ mine = {}
    /\ \/ /\ inner = "ok"
          /\ cpc' = "enter" /\ nth' = 1 /\ inner' = "none" /\ restored' = {}
          /\ unclean' = FALSE /\ UNCHANGED <<status, read>>
       \/ inner # "ok" /\ Leave(inner)
    /\ UNCHANGED <<pins, history, version, body, snapshot, boxes, mine, walks, lost>> /\ Well

-----------------------------------------------------------------------------
(* runCallStep.                                                            *)

\* a completed call is replayed; a recorded one keeps its pins; a new one
\* evaluates its input and input files and puts the input blob
CallEnter ==
    /\ node = "call" /\ cpc = "enter"
    /\ \/ done /\ Leave("ok") /\ Well
       \/ ~done /\ cpc' = "create" /\ nth' = 1 /\ UNCHANGED <<status, read, unclean, inner, restored>> /\ Well
       \/ ~done /\ started = Unpinned /\ Hit /\ (Leave("permanent_failure") \/ Leave("internal"))
    /\ UNCHANGED <<pins, history, version, body, snapshot, boxes, mine, walks, lost>>

\* ResolveRuntimes; a recorded call compares again (CheckRuntimesDrift)
CallResolve ==
    /\ node = "call" /\ cpc = "create" /\ nth > Len(Wanted)
    /\ \/ started = Unpinned /\ read' = ResolveRuntimes /\ cpc' = "record" /\ Well /\ UNCHANGED <<inner, nth>>
       \/ /\ started # Unpinned /\ CheckRuntimesDrift(started, ResolveRuntimes)
          /\ read' = ResolveRuntimes /\ cpc' = "body" /\ Well /\ UNCHANGED <<inner, nth>>
       \/ /\ started # Unpinned /\ ~CheckRuntimesDrift(started, ResolveRuntimes)
          /\ inner' = "internal" /\ cpc' = "destroy" /\ nth' = 0
          /\ read' = ResolveRuntimes /\ Well
       \/ inner' = (IF started = Unpinned THEN "permanent_failure" ELSE "internal")
            /\ cpc' = "destroy" /\ nth' = 0 /\ Hit /\ UNCHANGED read
    /\ UNCHANGED <<pins, history, version, body, snapshot, boxes, mine, unclean, status, walks, lost, restored>>

\* appendCallStarted and RecordCallStarted
CallRecord ==
    /\ cpc = "record"
    /\ \/ started' = read /\ cpc' = "body" /\ Well /\ UNCHANGED <<inner, nth>>
       \/ inner' = "internal" /\ cpc' = "destroy" /\ nth' = 0 /\ Hit /\ UNCHANGED started
    /\ UNCHANGED <<node, history, done, version, body, snapshot, boxes, mine, read, unclean, status, walks, lost, restored>>

\* a step of the body is committed, with a snapshot of its container
BodyStep ==
    /\ cpc = "body" /\ inner = "none" /\ body # "whole"
    /\ body' = IF body = "none" THEN "part" ELSE "whole"
    /\ snapshot' = IF node = "call" THEN snapshot \cup (Snapshotted \cap mine) ELSE snapshot
    /\ ran' = IF node = "call" THEN ran \cup {version} ELSE ran
    /\ UNCHANGED <<pins, crept, version, boxes, cpc, nth, mine, read, unclean, inner, status, walks, lost, restored>> /\ Well

\* interpNodes returns: everything committed, a skip, or a failure
BodyEnd ==
    /\ cpc = "body" /\ inner = "none"
    /\ \/ inner' = "ok" /\ body = "whole" /\ Well
       \/ inner' \in {"skip", "retryable_failure", "permanent_failure", "internal"} /\ Hit
    /\ cpc' = IF node = "call" /\ inner' = "ok" THEN "product" ELSE "destroy"
    /\ nth' = 0
    /\ UNCHANGED <<pins, history, version, body, snapshot, boxes, mine, read, unclean, status, walks, lost, restored>>

\* evaluateWorkflowExports and commitCallProduct; then the deferred destroys
CallProduct ==
    /\ cpc = "product"
    /\ \/ done' = TRUE /\ inner' = "ok" /\ Well
       \/ done' = FALSE /\ inner' \in {"permanent_failure", "internal"} /\ Hit
    /\ cpc' = "destroy"
    /\ UNCHANGED <<node, history, started, version, body, snapshot, boxes, nth, mine, read, unclean, status, walks, lost, restored>>

\* mutant of CallReturn: the call waits until every container is gone
CallReturnWaits ==
    /\ node = "call" /\ cpc = "destroy" /\ mine = {} /\ ~unclean
    /\ Leave(inner)
    /\ UNCHANGED <<pins, history, version, body, snapshot, boxes, mine, walks, lost>> /\ Well

\* the outcome of the body is the outcome of the call, and whether the destroys
\* worked is not looked at; a skip of the child unwinds its caller
CallReturn ==
    /\ node = "call" /\ cpc = "destroy" /\ mine = {}
    /\ Leave(inner)
    /\ UNCHANGED <<pins, history, version, body, snapshot, boxes, mine, walks, lost>> /\ Well

-----------------------------------------------------------------------------
(* runCompose.                                                             *)

ComposeBox == "compose"

\* the compose file, the service and the validation of the file
ComposeEnter ==
    /\ node = "compose" /\ cpc = "enter"
    /\ \/ cpc' = "compose" /\ Well /\ UNCHANGED <<status, nth, read, unclean, inner, restored>>
       \/ Hit /\ (Leave("permanent_failure") \/ Leave("internal"))
    /\ UNCHANGED <<pins, history, version, body, snapshot, boxes, mine, walks, lost>>

ComposeCreate ==
    /\ cpc = "compose"
    /\ \/ /\ ~Refused(ComposeBox)
          /\ boxes' = boxes \cup {ComposeBox} /\ mine' = {ComposeBox}
          /\ cpc' = "body"
          /\ Well /\ UNCHANGED <<status, nth, read, unclean, inner, restored>>
       \/ /\ IF Refused(ComposeBox) THEN Well ELSE Hit
          /\ Leave("retryable_failure")
          /\ UNCHANGED <<boxes, mine>>
    /\ UNCHANGED <<pins, history, version, body, snapshot, walks, lost>>

\* a failed destroy is a failure of its own, unless the body failed already
ComposeReturn ==
    /\ node = "compose" /\ cpc = "destroy" /\ mine = {}
    /\ Leave(IF unclean /\ inner \in {"ok", "skip"} THEN "retryable_failure" ELSE inner)
    /\ UNCHANGED <<pins, history, version, body, snapshot, boxes, mine, walks, lost>> /\ Well

-----------------------------------------------------------------------------
(* The specification.                                                      *)

\* the driver dies: its containers stay
Die ==
    /\ cpc # "idle"
    /\ Hit
    /\ lost' = lost \cup mine
    /\ mine' = {}
    /\ Leave("crashed")
    /\ UNCHANGED <<pins, history, version, body, snapshot, boxes, walks>>

CallInit ==
    /\ node \in {"call", "compose"}
    /\ version \in Versions
    /\ started = Unpinned /\ body = "none" /\ snapshot = {} /\ done = FALSE
    /\ boxes = {} /\ cpc = "idle" /\ nth = 0 /\ mine = {} /\ read = Unpinned /\ inner = "none"
    /\ unclean = FALSE /\ status = "none" /\ walks = 0 /\ trouble = MaxTrouble /\ lost = {} /\ restored = {}
    /\ ran = {} /\ crept = {}

CallStepNext ==
    \/ Create \/ CreateFails \/ DestroyOne
    \/ PreflightCheck \/ PreflightEnd
    \/ CallEnter \/ CallResolve \/ CallRecord \/ BodyStep \/ BodyEnd \/ CallProduct \/ CallReturn
    \/ ComposeEnter \/ ComposeCreate \/ ComposeReturn
CallNext == Start \/ Upgrade \/ CallStepNext \/ Die
CallSpec == CallInit /\ [][CallNext]_callVars

-----------------------------------------------------------------------------
(* Properties.                                                             *)

\* Every variable of the call has its type.
CallTypeOK ==
    /\ version \in Versions /\ started \in Versions \cup {Unpinned} /\ read \in Versions \cup {Unpinned}
    /\ body \in {"none", "part", "whole"}
    /\ mine \subseteq boxes
    /\ status \in {"none", "ok", "skip", "retryable_failure", "permanent_failure", "internal", "crashed"}

\* No container outlives the node that created it: when a driver has left the
\* node, by whatever return, a container of it exists only if its destroy
\* failed or a driver died holding it.
NoLeakedBox == cpc = "idle" => boxes \subseteq lost

\* Every step of a call's body, over all drivers, is committed under the runtime
\* version that call.started pins, but for a version installed while a driver
\* that had compared already was at work: the comparison is made once per driver,
\* and an upgrade behind it goes unnoticed until the next one.
BodyUnderPins == ran \subseteq {started} \cup crept

\* A call completes once, over a body that is complete, and is never entered
\* again.
DoneIsFinal ==
    /\ done => body = "whole"
    /\ done => cpc \notin {"create", "record", "body", "product"}

\* A workspace that a committed step left behind is not lost: a later walk of
\* the body has that container restored from its snapshot, not created empty.
WorkspaceRestored ==
    [][cpc' = "body" /\ cpc # "body" /\ node = "call" => Snapshotted \cap snapshot \cap mine \subseteq restored]_callVars

\* A container that could not be removed is never reported as success, nor as
\* the clean unwind of a skip, by the compose block that owned it.
FailedDestroyReported ==
    [][node = "compose" /\ cpc = "destroy" /\ unclean /\ status' # status => status' \notin {"ok", "skip"}]_callVars

\* A call or compose leaves no container behind but those of a driver that died or
\* could not destroy them, walks its body under the runtimes it recorded, unless
\* one is replaced behind the comparison, and in the workspace that was committed,
\* completes once, and does not hide a failed destroy.
CallSafe ==
    /\ [](CallTypeOK /\ NoLeakedBox /\ BodyUnderPins /\ DoneIsFinal)
    /\ WorkspaceRestored
    /\ FailedDestroyReported
=============================================================================
