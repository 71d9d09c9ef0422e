----------------------------- MODULE ControlFlow -----------------------------
(***************************************************************************)
(* The recursive walk of engine.Run over the control nodes: sequences,     *)
(* steps, if, loop, gate, try, parallel and skip.  A driver walks the tree *)
(* and journals; it may be interrupted, fail or die anywhere, and a resume *)
(* walks the same tree again from what the log tells it.                   *)
(*                                                                         *)
(* A call of a handler is a frame at a path: the node and the numbers of   *)
(* the iterations and attempts around it.  The branches of a parallel are  *)
(* goroutines: their frames are active at the same time.  Conditions are   *)
(* data and may have either value whenever they are evaluated.             *)
(***************************************************************************)
EXTENDS Naturals, Sequences, FiniteSets, Functions

CONSTANTS
    Workflows,   \* the trees a run may have: sequences of node records
    MaxEpoch,    \* bound on drivers
    MaxFaults    \* bound on failures, interrupts and crashes

\* A node: its kind, its children, the last node of its subtree (nodes are
\* numbered in preorder), and max_iters or max_attempts.
Kinds == {"seq", "step", "if", "loop", "gate", "try", "parallel", "skip"}

\* w lists a tree in preorder: a subtree is an interval, and the subtrees of
\* the children of n, one after the other, lie in the one of n and fill it
Preorder(w) ==
    /\ w # <<>>
    /\ \A n \in 1 .. Len(w) :
          LET kids == w[n].kids
          IN  /\ w[n].last \in n .. Len(w)
              /\ \A m \in n .. w[n].last : w[m].last <= w[n].last
              /\ \A i \in 1 .. Len(kids) : kids[i] \in n + 1 .. w[n].last
              /\ \A i, j \in 1 .. Len(kids) : i < j => w[kids[i]].last < kids[j]
              /\ \A m \in n + 1 .. w[n].last :
                    \E i \in 1 .. Len(kids) : m \in kids[i] .. w[kids[i]].last

\* the node lists that a control node has; an absent else, catch or finally is
\* an empty list
Arity(w) ==
    \A n \in 1 .. Len(w) :
        LET has == Len(w[n].kids)
        IN  /\ w[n].kind \in {"step", "skip"} => has = 0
            /\ w[n].kind = "loop" => has = 1
            /\ w[n].kind \in {"if", "gate"} => has = 2
            /\ w[n].kind = "try" => has = 3

ASSUME ControlAssumption ==
    /\ \A w \in Workflows : /\ w \in Seq([kind : Kinds, kids : Seq(Nat), last : Nat, max : Nat])
                            /\ Preorder(w)
                            /\ Arity(w)
    /\ MaxEpoch \in Nat
    /\ MaxFaults \in Nat

VARIABLES
    tree,       \* the workflow of this run
    log,        \* the events of the walk, in the order of the file
    stable,     \* the prefix that an fsync covers
    act,        \* [active paths -> frame]
    ret,        \* [returned paths whose caller has not gone on yet -> result]
    cancelled,  \* the cancelled contexts: the root's or a parallel's
    up,         \* a driver walks
    outcome,    \* what the last driver's walk returned
    epoch,      \* number of drivers so far
    faultsLeft,
    seen        \* history: what the properties remember of this run

journal == <<log, stable>>
vars == <<tree, log, stable, act, ret, cancelled, up, outcome, epoch, faultsLeft, seen>>
fixed == <<tree, up, outcome, epoch>>

-----------------------------------------------------------------------------
(* Nodes, paths and frames.                                                *)

TypedFailures == {"retryable_failure", "permanent_failure", "rejected"}
Results == {"ok", "skip", "internal"} \cup TypedFailures

Nodes == 1 .. Len(tree)
Root == <<1, <<>>>>
RootContext == <<0, <<>>>>

Node(p) == tree[p[1]]
Kind(p) == Node(p).kind

\* IterPath and AttemptPath add a number to the path of a loop or a gate
Kid(p, i, k) == <<Node(p).kids[i],
                  IF Kind(p) \in {"loop", "gate"} THEN Append(p[2], k) ELSE p[2]>>

Above(p, q) ==
    /\ q[1] \in p[1] .. Node(p).last
    /\ Len(p[2]) <= Len(q[2])
    /\ SubSeq(q[2], 1, Len(p[2])) = p[2]

Frame(ctx) == [at |-> 0, k |-> 0, held |-> "ok", outs |-> <<>>, ctx |-> ctx]

Callee(p) == Kid(p, act[p].at, act[p].k)
Fresh(p, kind) == p \in DOMAIN act /\ Kind(p) = kind /\ act[p].at = 0
Back(p, kind) == p \in DOMAIN act /\ Kind(p) = kind /\ act[p].at > 0 /\ Callee(p) \in DOMAIN ret
Got(p) == ret[Callee(p)]
Cancelled(p) == act[p].ctx \cap cancelled # {}

Forget(f, p) == Restrict(f, DOMAIN f \ {p})
Extend(f, p, x) == [q \in DOMAIN f \cup {p} |-> IF q = p THEN x ELSE f[q]]

\* the result of the child that returned, if any, is taken
Taken(p) == IF act[p].at > 0 THEN Forget(ret, Callee(p)) ELSE ret

\* p calls its child i under the contexts ctx
CallUnder(p, i, k, held, ctx) ==
    /\ act' = Extend([act EXCEPT ![p] = [@ EXCEPT !.at = i, !.k = k, !.held = held]],
                     Kid(p, i, k), Frame(ctx))
    /\ ret' = Taken(p)
    /\ UNCHANGED cancelled

Call(p, i, k) == CallUnder(p, i, k, "ok", act[p].ctx)

\* p returns r to its caller
Return(p, r) ==
    /\ act' = Forget(act, p)
    /\ ret' = Extend(Taken(p), p, r)
    /\ UNCHANGED cancelled

\* the nodes whose replay must not execute anything: no loop and no try below
Replayable(p) == \A m \in p[1] .. Node(p).last : tree[m].kind \notin {"loop", "try"}

\* history of a return: a node that settled, at which length of the log
Settle(p, len) ==
    seen' = [seen EXCEPT !.settled =
                IF Replayable(p) THEN @ \cup {[path |-> p, len |-> len]} ELSE @]
\* history of a failure that no cancellation explains
Break(p) == seen' = [seen EXCEPT !.broken = @ \cup {p}]
Keep == UNCHANGED seen

-----------------------------------------------------------------------------
(* The log and what a fold finds in it.                                    *)

Event(type, p, n) == [type |-> type, path |-> p, n |-> n]

\* Append without Sync: the event rides on the next fsync
Observe(e) == log' = Append(log, e) /\ UNCHANGED stable
\* Append and Sync
Commit(e) == log' = Append(log, e) /\ stable' = Len(log) + 1
Silent == UNCHANGED journal

Events(type, p) == {i \in 1 .. Len(log) : log[i].type = type /\ log[i].path = p}

Completed(p) == Events("node.completed", p) # {}
LastOf(type, p) == log[CHOOSE i \in Events(type, p) : \A j \in Events(type, p) : j <= i].n
LookupBranch(p) == IF Events("branch.taken", p) = {} THEN 0 ELSE LastOf("branch.taken", p)
LookupLoopIters(p) == IF Events("loop.iter", p) = {} THEN 0 ELSE LastOf("loop.iter", p)

\* attempts are journaled under their outcome
Attempts(p) == Events("gate.passed", p) \cup Events("gate.rejected", p)
LastPassed(p) == \E i \in Events("gate.passed", p) : \A j \in Attempts(p) : j <= i

Fault == faultsLeft > 0 /\ faultsLeft' = faultsLeft - 1
NoFault == UNCHANGED faultsLeft

-----------------------------------------------------------------------------
(* Sequences: interpNodes.                                                 *)

SeqStart(p) ==
    /\ Fresh(p, "seq")
    /\ \/ Node(p).kids # <<>> /\ Call(p, 1, 0) /\ Keep
       \/ Node(p).kids = <<>> /\ Return(p, "ok") /\ Settle(p, Len(log))
    /\ Silent /\ NoFault /\ UNCHANGED fixed

SeqNext(p) ==
    /\ Back(p, "seq")
    /\ \/ /\ Got(p) = "ok"
          /\ act[p].at < Len(Node(p).kids)
          /\ Call(p, act[p].at + 1, 0)
          /\ Keep
       \/ /\ Got(p) = "ok"
          /\ act[p].at = Len(Node(p).kids)
          /\ Return(p, "ok")
          /\ Settle(p, Len(log))
       \/ /\ Got(p) # "ok"
          /\ Return(p, Got(p))
          /\ Keep
    /\ Silent /\ NoFault /\ UNCHANGED fixed

-----------------------------------------------------------------------------
(* Steps: runCodeStepWithContext, from the resume check to Commit.         *)

StepReplay(p) ==
    /\ Fresh(p, "step")
    /\ Completed(p)
    /\ Return(p, "ok")
    /\ Keep /\ Silent /\ NoFault /\ UNCHANGED fixed

StepRun(p) ==
    /\ Fresh(p, "step")
    /\ ~Completed(p)
    /\ act' = [act EXCEPT ![p] = [@ EXCEPT !.at = 1]]
    /\ Keep /\ Silent /\ NoFault /\ UNCHANGED <<fixed, ret, cancelled>>

\* a step without container gets a workspace of its own first, and Create
\* refuses a cancelled context: an error without outcome
StepRefused(p) ==
    /\ Fresh(p, "step")
    /\ ~Completed(p)
    /\ Cancelled(p)
    /\ Return(p, "internal")
    /\ Keep /\ Silent /\ NoFault /\ UNCHANGED fixed

Running(p) == p \in DOMAIN act /\ Kind(p) = "step" /\ act[p].at = 1
StepReturn(p, r) ==
    /\ act' = Forget(act, p)
    /\ ret' = Extend(ret, p, r)
    /\ UNCHANGED cancelled

StepCommit(p) ==
    /\ Running(p)
    /\ Commit(Event("node.completed", p, 0))
    /\ StepReturn(p, "ok")
    /\ Settle(p, Len(log) + 1)
    /\ NoFault /\ UNCHANGED fixed

\* the dispatch fails: failStep
StepFail(p) ==
    /\ Running(p)
    /\ Fault
    /\ Commit(Event("node.failed", p, 0))
    /\ StepReturn(p, "permanent_failure")
    /\ Break(p)
    /\ UNCHANGED fixed

\* Exec returns the error of a cancelled context: a retryable failure
StepCancelled(p) ==
    /\ Running(p)
    /\ Cancelled(p)
    /\ Commit(Event("node.failed", p, 0))
    /\ StepReturn(p, "retryable_failure")
    /\ Keep
    /\ NoFault /\ UNCHANGED fixed

\* an error without outcome (workspace, dispatcher, commit): nothing journaled
StepInternal(p) ==
    /\ Running(p)
    /\ Fault
    /\ StepReturn(p, "internal")
    /\ Break(p)
    /\ Silent /\ UNCHANGED fixed

\* runSkip: outcome ok with a SkipUnwind
RunSkip(p) ==
    /\ Fresh(p, "skip")
    /\ Return(p, "skip")
    /\ Keep /\ Silent /\ NoFault /\ UNCHANGED fixed

-----------------------------------------------------------------------------
(* runIf.                                                                  *)

IfReplay(p) ==
    /\ Fresh(p, "if")
    /\ LookupBranch(p) # 0
    /\ Call(p, LookupBranch(p), 0)
    /\ Keep /\ Silent /\ NoFault /\ UNCHANGED fixed

IfDecide(p) ==
    /\ Fresh(p, "if")
    /\ LookupBranch(p) = 0
    /\ \E which \in 1 .. 2 :
          /\ Observe(Event("branch.taken", p, which))
          /\ Call(p, which, 0)
    /\ Keep /\ NoFault /\ UNCHANGED fixed

IfReturn(p) ==
    /\ Back(p, "if")
    /\ Return(p, Got(p))
    /\ IF Got(p) = "ok" THEN Settle(p, Len(log)) ELSE Keep
    /\ Silent /\ NoFault /\ UNCHANGED fixed

\* a condition of an if, a loop or a gate cannot be evaluated: failStep
CondError(p) ==
    /\ \/ Fresh(p, "if") /\ LookupBranch(p) = 0
       \/ Back(p, "gate") /\ act[p].at = 2 /\ Got(p) = "ok"
    /\ Fault
    /\ Commit(Event("node.failed", p, 0))
    /\ Return(p, "permanent_failure")
    /\ Break(p)
    /\ UNCHANGED fixed

-----------------------------------------------------------------------------
(* runLoop.                                                                *)

LoopStart(p) ==
    /\ Fresh(p, "loop")
    /\ Call(p, 1, LookupLoopIters(p) + 1)
    /\ Keep /\ Silent /\ NoFault /\ UNCHANGED fixed

\* loop.iter, behind node.skipped if a skip ended the iteration
IterEvents(p) ==
    (IF Got(p) = "skip" THEN <<Event("node.skipped", Callee(p), 0)>> ELSE <<>>)
        \o <<Event("loop.iter", p, act[p].k)>>

\* the iteration is complete: until and max_iters are looked at
LoopIter(p) ==
    /\ Back(p, "loop")
    /\ Got(p) \in {"ok", "skip"}
    /\ log' = log \o IterEvents(p) /\ UNCHANGED stable
    /\ \/ Return(p, "ok")                                          \* until
       \/ act[p].k < Node(p).max /\ Call(p, 1, act[p].k + 1)
    /\ Keep /\ NoFault /\ UNCHANGED fixed

\* until cannot be evaluated: the iteration stays journaled
LoopUntilError(p) ==
    /\ Back(p, "loop")
    /\ Got(p) \in {"ok", "skip"}
    /\ Fault
    /\ log' = log \o Append(IterEvents(p), Event("node.failed", p, 0))
    /\ stable' = Len(log')
    /\ Return(p, "permanent_failure")
    /\ Break(p)
    /\ UNCHANGED fixed

LoopStop(p) ==
    /\ Back(p, "loop")
    /\ Got(p) \notin {"ok", "skip"}
    /\ Return(p, Got(p))
    /\ Keep /\ Silent /\ NoFault /\ UNCHANGED fixed

-----------------------------------------------------------------------------
(* runGateWithContext.                                                     *)

\* mutant of GateStart: a gate that passed is not recognised
GateIgnoresPass(p) ==
    /\ Fresh(p, "gate")
    /\ \/ /\ Cardinality(Attempts(p)) < Node(p).max
          /\ Call(p, 1, Cardinality(Attempts(p)) + 1)
       \/ /\ Cardinality(Attempts(p)) >= Node(p).max
          /\ Return(p, "rejected")
    /\ Keep /\ Silent /\ NoFault /\ UNCHANGED fixed

GateStart(p) ==
    /\ Fresh(p, "gate")
    /\ \/ LastPassed(p) /\ Return(p, "ok") /\ Settle(p, Len(log))
       \/ /\ ~LastPassed(p)
          /\ Cardinality(Attempts(p)) < Node(p).max
          /\ Call(p, 1, Cardinality(Attempts(p)) + 1)
          /\ Keep
       \/ /\ ~LastPassed(p)
          /\ Cardinality(Attempts(p)) >= Node(p).max
          /\ Return(p, "rejected")
          /\ Keep
    /\ Silent /\ NoFault /\ UNCHANGED fixed

GateEvaluate(p) ==
    /\ Back(p, "gate")
    /\ act[p].at = 1
    /\ Got(p) = "ok"
    /\ Call(p, 2, act[p].k)
    /\ Keep /\ Silent /\ NoFault /\ UNCHANGED fixed

GatePass(p) ==
    /\ Back(p, "gate")
    /\ act[p].at = 2
    /\ Got(p) = "ok"
    /\ Commit(Event("gate.passed", p, act[p].k))
    /\ Return(p, "ok")
    /\ Settle(p, Len(log) + 1)
    /\ NoFault /\ UNCHANGED fixed

GateReject(p) ==
    /\ Back(p, "gate")
    /\ act[p].at = 2
    /\ Got(p) = "ok"
    /\ Commit(Event("gate.rejected", p, act[p].k))
    /\ \/ act[p].k = Node(p).max /\ Return(p, "rejected")
       \/ act[p].k < Node(p).max /\ Call(p, 1, act[p].k + 1)
    /\ Keep /\ NoFault /\ UNCHANGED fixed

\* a skip in generate or evaluate ends the whole gate as ok
GateSkip(p) ==
    /\ Back(p, "gate")
    /\ Got(p) = "skip"
    /\ Observe(Event("node.skipped", p, 0))
    /\ Return(p, "ok")
    /\ Settle(p, Len(log) + 1)
    /\ NoFault /\ UNCHANGED fixed

\* a crash is not a verdict: no gate.attempt
GateStop(p) ==
    /\ Back(p, "gate")
    /\ Got(p) \notin {"ok", "skip"}
    /\ Return(p, Got(p))
    /\ Keep /\ Silent /\ NoFault /\ UNCHANGED fixed

-----------------------------------------------------------------------------
(* runTryWithContext: children 1 do, 2 catch, 3 finally.                   *)

HasCatch(p) == tree[Node(p).kids[2]].kids # <<>>
Caught(p) == act[p].at = 1 /\ Got(p) \in TypedFailures /\ HasCatch(p)

TryDo(p) ==
    /\ Fresh(p, "try")
    /\ Call(p, 1, 0)
    /\ seen' = [seen EXCEPT !.entered = @ \cup {p}]
    /\ Silent /\ NoFault /\ UNCHANGED fixed

TryCatch(p) ==
    /\ Back(p, "try")
    /\ Caught(p)
    /\ Call(p, 2, 0)
    /\ Keep /\ Silent /\ NoFault /\ UNCHANGED fixed

\* finally runs whatever do or catch returned, detached from cancellation;
\* a skip of do leaves a trace
TryFinally(p) ==
    /\ Back(p, "try")
    /\ act[p].at \in {1, 2}
    /\ ~Caught(p)
    /\ IF act[p].at = 1 /\ Got(p) = "skip"
          THEN Observe(Event("node.skipped", p, 0))
          ELSE Silent
    /\ CallUnder(p, 3, 0, Got(p), {})
    /\ Keep /\ NoFault /\ UNCHANGED fixed

\* the error of finally wins, then cancellation, then what do or catch returned
TryEnd(p) ==
    /\ Back(p, "try")
    /\ act[p].at = 3
    /\ Return(p, IF Got(p) # "ok" THEN Got(p)
                 ELSE IF Cancelled(p) THEN "retryable_failure"
                 ELSE act[p].held)
    /\ Keep /\ Silent /\ NoFault /\ UNCHANGED fixed

-----------------------------------------------------------------------------
(* runParallelWithContext.                                                 *)

Branches(p) == 1 .. Len(Node(p).kids)

\* one goroutine per branch, under a context of the group
ParallelFork(p) ==
    /\ Fresh(p, "parallel")
    /\ act' = [q \in DOMAIN act \cup {Kid(p, i, 0) : i \in Branches(p)} |->
                  IF q = p THEN [act[p] EXCEPT !.at = 1, !.outs = [i \in Branches(p) |-> "none"]]
                  ELSE IF q \in DOMAIN act THEN act[q]
                  ELSE Frame(act[p].ctx \cup {p})]
    /\ Keep /\ Silent /\ NoFault /\ UNCHANGED <<fixed, ret, cancelled>>

Forked(p) == p \in DOMAIN act /\ Kind(p) = "parallel" /\ act[p].at = 1

\* mutant of ParallelBranch: a branch that skipped is never marked as ended
ParallelLosesSkip(p) ==
    /\ Forked(p)
    /\ \E i \in Branches(p) :
          LET c == Kid(p, i, 0) IN
          /\ c \in DOMAIN ret
          /\ act' = [act EXCEPT ![p].outs[i] = IF ret[c] = "skip" THEN @ ELSE ret[c]]
          /\ ret' = Forget(ret, c)
          /\ cancelled' = IF ret[c] \in {"ok", "skip"} THEN cancelled ELSE cancelled \cup {p}
    /\ Keep /\ Silent /\ NoFault /\ UNCHANGED fixed

\* a branch ends: a skip ends it as ok, an error cancels the group
ParallelBranch(p) ==
    /\ Forked(p)
    /\ \E i \in Branches(p) :
          LET c == Kid(p, i, 0) IN
          /\ c \in DOMAIN ret
          /\ act' = [act EXCEPT ![p].outs[i] = IF ret[c] = "skip" THEN "ok" ELSE ret[c]]
          /\ ret' = Forget(ret, c)
          /\ cancelled' = IF ret[c] \in {"ok", "skip"} THEN cancelled ELSE cancelled \cup {p}
          /\ IF ret[c] = "skip" THEN Observe(Event("node.skipped", p, 0)) ELSE Silent
    /\ Keep /\ NoFault /\ UNCHANGED fixed

\* the error of the branch with the lowest index, whichever came first
GroupResult(p) ==
    LET bad == {i \in Branches(p) : act[p].outs[i] # "ok"}
    IN  IF bad = {} THEN "ok"
        ELSE act[p].outs[CHOOSE i \in bad : \A j \in bad : i <= j]

\* g.Wait: every branch has ended
ParallelJoin(p) ==
    /\ Forked(p)
    /\ \A i \in Branches(p) : act[p].outs[i] # "none"
    /\ act' = Forget(act, p)
    /\ ret' = Extend(ret, p, GroupResult(p))
    /\ IF GroupResult(p) = "ok" THEN Settle(p, Len(log)) ELSE Keep
    /\ Silent /\ NoFault /\ UNCHANGED <<fixed, cancelled>>

-----------------------------------------------------------------------------
(* engine.Run, the verdict, and what ends a driver.                        *)

Idle ==
    /\ act' = <<>>
    /\ ret' = <<>>
    /\ cancelled' = {}
    /\ up' = FALSE

\* a skip that reaches the root is ok; run.finished is synced unless the
\* result is an internal error
WalkEnd ==
    /\ up
    /\ Root \in DOMAIN ret
    /\ outcome' = IF ret[Root] = "skip" THEN "ok" ELSE ret[Root]
    /\ log' = IF ret[Root] = "skip" THEN Append(log, Event("node.skipped", RootContext, 0)) ELSE log
    /\ stable' = IF ret[Root] = "internal" THEN stable ELSE Len(log')
    /\ Idle
    /\ NoFault /\ UNCHANGED <<tree, epoch, seen>>

\* Ctrl-C, or a pause or cancel request: the context of the walk
Interrupt ==
    /\ up
    /\ RootContext \notin cancelled
    /\ Fault
    /\ cancelled' = cancelled \cup {RootContext}
    /\ UNCHANGED <<fixed, log, stable, act, ret, seen>>

\* the driver dies, or the power fails: an unsynced tail may be lost
Crash ==
    /\ up
    /\ Fault
    /\ \E n \in stable .. Len(log) :
          /\ log' = SubSeq(log, 1, n)
          /\ stable' = n
          /\ seen' = [seen EXCEPT !.settled = {s \in @ : s.len <= n}]
    /\ outcome' = "crashed"
    /\ Idle
    /\ UNCHANGED <<tree, epoch>>

\* awf run, and awf resume of a run that did not finish ok: the run.resumed
\* event syncs what the last driver left
Drive ==
    /\ ~up
    /\ outcome # "ok"
    /\ epoch < MaxEpoch
    /\ epoch' = epoch + 1
    /\ up' = TRUE
    /\ outcome' = "none"
    /\ act' = [q \in {Root} |-> Frame({RootContext})]
    /\ seen' = [seen EXCEPT !.entered = {}, !.broken = {}, !.driven = Len(log)]
    /\ stable' = Len(log)
    /\ NoFault /\ UNCHANGED <<tree, log, ret, cancelled>>

-----------------------------------------------------------------------------
(* The specification.                                                      *)

Init ==
    /\ tree \in Workflows
    /\ log = <<>>
    /\ stable = 0
    /\ act = <<>>
    /\ ret = <<>>
    /\ cancelled = {}
    /\ up = FALSE
    /\ outcome = "none"
    /\ epoch = 0
    /\ faultsLeft = MaxFaults
    /\ seen = [settled |-> {}, entered |-> {}, broken |-> {}, driven |-> 0]

\* what the goroutines of the walk do by themselves
Walk(p) ==
    \/ SeqStart(p) \/ SeqNext(p)
    \/ StepReplay(p) \/ StepRun(p) \/ StepRefused(p) \/ StepCommit(p) \/ StepCancelled(p)
    \/ RunSkip(p)
    \/ IfReplay(p) \/ IfDecide(p) \/ IfReturn(p)
    \/ LoopStart(p) \/ LoopIter(p) \/ LoopStop(p)
    \/ GateStart(p) \/ GateEvaluate(p) \/ GatePass(p) \/ GateReject(p) \/ GateSkip(p) \/ GateStop(p)
    \/ TryDo(p) \/ TryCatch(p) \/ TryFinally(p) \/ TryEnd(p)
    \/ ParallelFork(p) \/ ParallelBranch(p) \/ ParallelJoin(p)

Fails(p) == StepFail(p) \/ StepInternal(p) \/ CondError(p) \/ LoopUntilError(p)

Next ==
    \/ \E p \in DOMAIN act : Walk(p) \/ Fails(p)
    \/ WalkEnd \/ Interrupt \/ Crash \/ Drive

Spec == Init /\ [][Next]_vars

\* Goroutines are scheduled and steps end.
FairSpec == Spec /\ WF_vars((\E p \in DOMAIN act : Walk(p)) \/ WalkEnd)

-----------------------------------------------------------------------------
(* What the log accounts for: the results a handler at p may return without *)
(* executing anything, read off the committed events alone.                *)

Earned[p \in Nodes \X Seq(Nat)] ==
    LET kids == 1 .. Len(Node(p).kids)
        Of(i, k) == Earned[Kid(p, i, k)]
        Ran(i, k) == Of(i, k) # {}
        n == Cardinality(Attempts(p))
    IN  CASE Kind(p) = "step" -> {r \in {"ok"} : Completed(p)}
          [] Kind(p) = "skip" -> {"skip"}
          [] Kind(p) = "seq" ->
                {r \in {"ok"} : \A i \in kids : "ok" \in Of(i, 0)} \cup
                {r \in {"skip"} : \E i \in kids : /\ "skip" \in Of(i, 0)
                                                  /\ \A j \in 1 .. i - 1 : "ok" \in Of(j, 0)}
          [] Kind(p) = "if" -> IF LookupBranch(p) = 0 THEN {} ELSE Of(LookupBranch(p), 0)
          [] Kind(p) = "loop" ->
                {r \in {"ok"} : /\ LookupLoopIters(p) > 0
                                /\ \A k \in 1 .. LookupLoopIters(p) : Ran(1, k)}
          [] Kind(p) = "gate" ->
                {r \in {"ok"} : \/ LastPassed(p) /\ "ok" \in Of(1, n) /\ "ok" \in Of(2, n)
                                \/ "skip" \in Of(1, n + 1)
                                \/ "ok" \in Of(1, n + 1) /\ "skip" \in Of(2, n + 1)}
          [] Kind(p) = "parallel" -> {r \in {"ok"} : \A i \in kids : Ran(i, 0)}
          [] Kind(p) = "try" ->
                (IF "ok" \in Of(3, 0) THEN Of(1, 0) \cup (IF HasCatch(p) THEN Of(2, 0) ELSE {}) ELSE {})
                \cup (Of(3, 0) \cap {"skip"})

-----------------------------------------------------------------------------
(* LiveResumePreflightRequests: awf resume asks the adapters of the steps   *)
(* that will run first, before it appends anything.  Conditions may have    *)
(* either value, so the walk has a set of results: whether it stopped at a  *)
(* frontier, and the steps asked for.                                       *)

Through == [found |-> FALSE, asks |-> {}]
Frontier(asks) == [found |-> TRUE, asks |-> asks]

\* walkNodes: up to the first frontier
walkNodes(walks) ==
    {r \in UNION Range(walks) :
        \E i \in DOMAIN walks : /\ r \in walks[i] /\ r.found
                                /\ \A j \in 1 .. i - 1 : Through \in walks[j]}
    \cup {r \in {Through} : \A i \in DOMAIN walks : Through \in walks[i]}

\* mutant of walkParallel: the first branch that is not through
WalkFirstBranch(walks) == walkNodes(walks)

\* walkParallel: the frontiers of all branches
walkParallel(walks) ==
    {[found |-> \E i \in DOMAIN f : f[i].found, asks |-> UNION {f[i].asks : i \in DOMAIN f}] :
        f \in {g \in [DOMAIN walks -> UNION Range(walks)] : \A i \in DOMAIN g : g[i] \in walks[i]}}

\* the recorded branch, or the one the condition chooses
walkIf(p, then, else) ==
    IF LookupBranch(p) = 0 THEN then \cup else ELSE IF LookupBranch(p) = 1 THEN then ELSE else

\* until, over the last iteration, and max_iters; then the next iteration
walkLoop(p, next) ==
    (IF LookupLoopIters(p) > 0 THEN {Through} ELSE {})
    \cup (IF LookupLoopIters(p) >= Node(p).max THEN {Through} ELSE next)

\* a failure of do runs it again: catch is not looked at
walkTry(do, finally) == walkNodes(<<do, finally>>)

\* a gate that did not pass is a frontier: its next attempt, or its rejection
walkGate(p, generate, evaluate) ==
    IF LastPassed(p) THEN {Through}
    ELSE IF Cardinality(Attempts(p)) + 1 > Node(p).max THEN {Frontier({})}
    ELSE {IF r.found THEN r ELSE Frontier({}) : r \in walkNodes(<<generate, evaluate>>)}

walkNode[p \in Nodes \X Seq(Nat)] ==
    LET Of(i, k) == walkNode[Kid(p, i, k)]
        All == [i \in 1 .. Len(Node(p).kids) |-> Of(i, 0)]
        n == Cardinality(Attempts(p)) + 1
    IN  CASE Kind(p) = "step" -> {IF Completed(p) THEN Through ELSE Frontier({p})}
          [] Kind(p) = "skip" -> {Frontier({})}
          [] Kind(p) = "seq" -> walkNodes(All)
          [] Kind(p) = "if" -> walkIf(p, Of(1, 0), Of(2, 0))
          [] Kind(p) = "loop" -> walkLoop(p, Of(1, LookupLoopIters(p) + 1))
          [] Kind(p) = "try" -> walkTry(Of(1, 0), Of(3, 0))
          [] Kind(p) = "gate" -> walkGate(p, Of(1, n), Of(2, n))
          [] Kind(p) = "parallel" -> walkParallel(All)

-----------------------------------------------------------------------------
(* Properties.                                                             *)

RoundTypes == {"loop.iter", "gate.passed", "gate.rejected"}

\* q lies in round n of the loop or gate p
InRound(p, n, q) == Above(p, q) /\ Len(q[2]) > Len(p[2]) /\ q[2][Len(p[2]) + 1] = n

\* the number of loops and gates around node m
Depth(m) == Cardinality({a \in Nodes : a < m /\ m <= tree[a].last /\ tree[a].kind \in {"loop", "gate"}})

\* Every variable has its type.
TypeOK ==
    /\ tree \in Workflows
    /\ log \in Seq([type : {"node.completed", "node.failed", "node.skipped", "branch.taken",
                            "loop.iter", "gate.passed", "gate.rejected"},
                    path : (Nodes \cup {0}) \X Seq(Nat), n : Nat])
    /\ stable \in 0 .. Len(log)
    /\ \A p \in DOMAIN act : /\ p \in Nodes \X Seq(Nat)
                             /\ act[p].at \in {0, 1} \cup 1 .. Len(Node(p).kids)
                             /\ act[p].held \in Results
    /\ \A p \in DOMAIN ret : p \in Nodes \X Seq(Nat) /\ ret[p] \in Results
    /\ cancelled \in SUBSET ((Nodes \cup {0}) \X Seq(Nat))
    /\ up \in BOOLEAN
    /\ outcome \in Results \cup {"none", "crashed"}
    /\ epoch \in 0 .. MaxEpoch
    /\ faultsLeft \in 0 .. MaxFaults

\* A success is earned: whenever a handler returns ok or a skip, in whatever
\* order its branches ended and whatever an earlier driver left, the events in
\* the log account for that result, from the steps up.
SuccessIsEarned ==
    \A p \in DOMAIN ret : ret[p] \in {"ok", "skip"} => ret[p] \in Earned[p]

\* No step is committed twice at one path, over all drivers, although every
\* driver walks the tree from its root.
CommitOnce ==
    \A i, j \in 1 .. Len(log) :
        /\ log[i].type = "node.completed"
        /\ log[j] = log[i]
        => i = j

\* Committed work is replayed, not recomputed: below an if, a gate, a parallel
\* or a sequence (without loop or try) that returned ok, and whose events
\* survived, no driver executes a step again.
SettledNotRerun ==
    \A p \in DOMAIN act : Running(p) => \A s \in seen.settled : ~Above(s.path, p)

\* An if commits steps of one branch only, also when the driver died after the
\* branch was chosen and before anything was synced.
OneBranch ==
    \A i, j \in 1 .. Len(log) :
        /\ log[i].type = "node.completed"
        /\ log[j].type = "node.completed"
        => \A m \in Nodes : tree[m].kind = "if" =>
              LET then == tree[m].kids[1]
                  else == tree[m].kids[2]
              IN  ~ /\ log[i].path[1] \in then .. tree[then].last
                    /\ log[j].path[1] \in else .. tree[else].last
                    /\ SubSeq(log[i].path[2], 1, Depth(m)) = SubSeq(log[j].path[2], 1, Depth(m))

\* The rounds of a gate or a loop follow each other in the log: their numbers
\* have no gap and no repetition, nothing of round k + 1 is committed before
\* the record of round k, and nothing of a gate after it passed.
RoundsInOrder ==
    \A i, j \in 1 .. Len(log) :
        LET e == log[i]
            f == log[j]
        IN  i < j =>
            /\ e.type \in RoundTypes /\ f.type \in RoundTypes /\ e.path = f.path
                  => e.n < f.n /\ e.type # "gate.passed"
            /\ e.type = "node.completed" /\ f.type \in RoundTypes
                  => ~InRound(f.path, f.n + 1, e.path)
            /\ e.type \in RoundTypes /\ f.type = "node.completed"
                  => ~InRound(e.path, e.n, f.path)

\* A gate never makes more than max_attempts attempts, over all drivers.
GateBound ==
    \A i \in 1 .. Len(log) :
        log[i].type \in {"gate.passed", "gate.rejected"} => log[i].n <= tree[log[i].path[1]].max

\* finally always runs: when a walk returns, every try it entered has
\* committed the steps of its finally, or one of them failed by itself: no
\* interrupt and no failing sibling takes it away.
FinallyRan ==
    outcome \in Results =>
        \A p \in seen.entered :
            LET f == tree[p[1]].kids[3]
                steps == {<<m, p[2]>> : m \in {m \in f .. tree[f].last : tree[m].kind = "step"}}
            IN  (\A q \in steps : Completed(q)) \/ steps \cap seen.broken # {}

\* No goroutine outlives the handler that started it: nothing is active below
\* a node that returned.
NoOrphans == \A p \in DOMAIN ret, q \in DOMAIN act : ~Above(p, q)

\* Every walk returns: cancelled branches, waiting parallels and nested
\* handlers never wait for each other for ever.
WalkReturns == up ~> ~up

\* What a resume preflight leaves out on purpose or by omission: steps behind a
\* skip, at which its walk stops, and iterations past max_iters, which it takes
\* for done and the driver runs.
Overlooked(p) ==
    \/ \E m \in 1 .. p[1] - 1 : tree[m].kind = "skip"
    \/ \E m \in 1 .. p[1] : tree[m].kind = "loop" /\ p[1] <= tree[m].last /\ p[2][Depth(m) + 1] > tree[m].max

\* The steps a resumed driver executes first, before it has appended anything
\* and before anything failed, were asked for by the preflight over the same log: an active live turn is
\* found before the run is resumed and not in the middle of it.
PreflightCovers ==
    \A p \in DOMAIN act :
        /\ Running(p) /\ epoch > 1 /\ ~Overlooked(p)
        /\ Len(log) = seen.driven /\ seen.broken = {} /\ cancelled = {}
        => \E r \in walkNode[Root] : p \in r.asks

\* The preflight asks for no step that is committed, and for steps of one
\* driver's frontier only: two of them are never in one sequence.
PreflightIsFrontier ==
    ~up => \A r \in walkNode[Root] : \A p, q \in r.asks :
        /\ ~Completed(p)
        /\ p # q => \E m \in Nodes : /\ tree[m].kind = "parallel"
                                     /\ m < p[1] /\ m < q[1] /\ p[1] <= tree[m].last /\ q[1] <= tree[m].last

\* Over all drivers of a run, with failures, interrupts and crashes anywhere: no
\* step is committed twice, no step of settled work is executed again, an if
\* commits steps of one branch, rounds follow each other within the bound of a
\* gate, and when a handler returns nothing runs below it any more.
WalkSafe ==
    /\ TypeOK
    /\ CommitOnce
    /\ SettledNotRerun
    /\ OneBranch
    /\ RoundsInOrder
    /\ GateBound
    /\ NoOrphans

\* What a resume builds on: a success is earned by what is in the log, a walk
\* that returned has run every finally it owed, and the resume preflight and the
\* driver agree on what runs first.
ResumeSound ==
    /\ SuccessIsEarned
    /\ FinallyRan
    /\ PreflightCovers
    /\ PreflightIsFrontier
=============================================================================
