------------------------------ MODULE RunJournal ------------------------------
(***************************************************************************)
(* The durable core of awf: one run's append-only log, the content-        *)
(* addressed blob store (CAS) it points into, the run lock, and the driver *)
(* processes (`awf run`, `awf resume`) that execute a sequence of steps    *)
(* and commit each of them.  A driver may crash between any two system     *)
(* calls; the machine may lose power; a later `awf resume` folds the log   *)
(* and continues.                                                          *)
(*                                                                         *)
(* The log file is modelled by what state.scanFile can read of it: `log`   *)
(* is the longest prefix of good frames, `torn` says that bytes of a       *)
(* partial frame follow it.  Whatever is appended after a torn frame is    *)
(* not readable, and the next open truncates it.                           *)
(***************************************************************************)
EXTENDS Naturals, Sequences, FiniteSets

CONSTANTS
    Procs,      \* awf processes that may drive this run
    NoProc,     \* "nobody holds the lock"
    N,          \* the workflow is the sequence of leaf steps 1 .. N
    Refs,       \* blob addresses, i.e. distinct contents
    Faults,     \* which faults the environment may inject, see FaultKinds
    MaxFaults   \* bound on crashes, power failures and step failures

(***************************************************************************)
(* "power":  a power failure loses log bytes that were never fsynced.      *)
(* "dirent": a power failure also loses directory entries (a renamed blob, *)
(*           a created log file) whose directory was never fsynced.        *)
(* "short":  a log write may fail after writing part of its frame          *)
(*           (a full disk) without the process dying.                      *)
(***************************************************************************)
FaultKinds == {"power", "dirent", "short"}

ASSUME ConstantsAssumption ==
    /\ NoProc \notin Procs
    /\ N \in Nat
    /\ MaxFaults \in Nat
    /\ Faults \subseteq FaultKinds

Nodes == 1 .. N

VARIABLES
    file,       \* the log's directory entry: "absent", "linked" or "durable"
    log,        \* the readable records of the log file
    torn,       \* a partial frame follows the readable records
    stable,     \* length of the prefix of log covered by an fsync
    cas,        \* [Refs -> {"absent", "linked", "durable"}]
    lock,       \* holder of the run.lock flock
    pc,         \* [Procs -> step the process is about to take]
    mem,        \* [Procs -> the process's in-memory state]
    acked,      \* history: the nodes whose Commit returned success
    faultsLeft  \* faults the environment may still inject

vars == <<file, log, torn, stable, cas, lock, pc, mem, acked, faultsLeft>>

-----------------------------------------------------------------------------
(* Records, the process memory and the control states.                     *)

EventTypes == {"run.started", "run.resumed", "node.started", "node.completed",
               "node.failed", "run.finished"}

Record == [type : EventTypes, node : Nodes \cup {0}, refs : SUBSET Refs,
           status : {"ok", "failed", "none"}, seq : Nat, epoch : Nat]

\* FileLog.seq / FileLog.epoch, RunState.Completed, the node being executed,
\* its artifacts, those still to be Put, the one being Put, the outcome.
Memory == [seq : Nat, epoch : Nat, done : SUBSET Nodes, cur : Nodes \cup {0},
           art : SUBSET Refs, todo : SUBSET Refs, put : SUBSET Refs,
           status : {"ok", "failed"}]

Blank == [seq |-> 0, epoch |-> 0, done |-> {}, cur |-> 0,
          art |-> {}, todo |-> {}, put |-> {}, status |-> "failed"]

\* states in which `awf run` has created the log and not yet written to it
Creating == {"run.lock", "run.remove", "run.start"}
\* states whose next step is a Log.Append
Appending == {"run.start", "res.append", "node.start", "commit.append",
              "fail.append", "fin.append"}
\* states between picking a node and having appended its node.completed
Executing == {"node.start", "dispatch", "put", "put.link", "put.sync", "commit.append"}
\* states in which the RunState mirrors a log that starts with run.started
Walking == Executing \cup {"run.sync", "res.append", "res.sync", "walk",
                           "commit.sync", "fail.append", "fail.sync",
                           "fin.append", "fin.sync", "exit"}
\* states of a process that owns the run lock
Driving == Walking \cup {"run.start", "res.open", "res.fold"}

States == Driving \cup Creating \cup {"idle", "res.lock"}

\* the events a scan of the log yields for the given type
OfType(l, type) == {i \in 1 .. Len(l) : l[i].type = type}

\* RunState.Completed as engine.Fold rebuilds it from the events
CompletedIn(l) == {l[i].node : i \in OfType(l, "node.completed")}

Present(r) == cas[r] # "absent"

-----------------------------------------------------------------------------
(* Building blocks of the file operations.                                 *)

\* one Log.Append by p: assign seq and epoch, write the frame
Write(p, type, node, refs, status) ==
    /\ log' = IF torn THEN log
              ELSE Append(log, [type |-> type, node |-> node, refs |-> refs,
                                status |-> status, seq |-> mem[p].seq + 1,
                                epoch |-> mem[p].epoch])
    /\ UNCHANGED torn

\* one Log.Sync
Sync == stable' = Len(log)

Goto(p, s) == pc' = [pc EXCEPT ![p] = s]

Remember(p, m) == mem' = [mem EXCEPT ![p] = m]

\* the deferred log.Close and lock.Release of a process that returns
Exit(p) ==
    /\ pc' = [pc EXCEPT ![p] = "idle"]
    /\ Remember(p, Blank)
    /\ lock' = IF lock = p THEN NoProc ELSE lock

-----------------------------------------------------------------------------
(* `awf run`: claim the run id, lock, journal run.started.                 *)

OpenLogExclusive(p) ==
    /\ pc[p] = "idle"
    /\ file = "absent"
    /\ file' = "linked"
    /\ log' = <<>>
    /\ torn' = FALSE
    /\ stable' = 0
    /\ Remember(p, Blank)
    /\ Goto(p, "run.lock")
    /\ UNCHANGED <<cas, lock, acked, faultsLeft>>

\* runlock.Acquire: a non-blocking exclusive flock; a holder is ErrHeld
Acquire(p) == lock = NoProc /\ lock' = p

RunAcquire(p) ==
    /\ pc[p] = "run.lock"
    /\ \/ /\ Acquire(p)
          /\ Goto(p, "run.start")
       \/ /\ lock # NoProc
          /\ Goto(p, "run.remove")
          /\ UNCHANGED lock
    /\ UNCHANGED <<file, log, torn, stable, cas, mem, acked, faultsLeft>>

\* the lock was held: the deferred cleanup removes the log it created
RunRemove(p) ==
    /\ pc[p] = "run.remove"
    /\ file' = "absent"
    /\ log' = <<>>
    /\ torn' = FALSE
    /\ stable' = 0
    /\ Exit(p)
    /\ UNCHANGED <<cas, acked, faultsLeft>>

AppendRunStarted(p) ==
    /\ pc[p] = "run.start"
    /\ Write(p, "run.started", 0, {}, "none")
    /\ Remember(p, [mem[p] EXCEPT !.seq = @ + 1])
    /\ Goto(p, "run.sync")
    /\ UNCHANGED <<file, stable, cas, lock, acked, faultsLeft>>

SyncRunStarted(p) ==
    /\ pc[p] = "run.sync"
    /\ Sync
    /\ Goto(p, "walk")
    /\ UNCHANGED <<file, log, torn, cas, lock, mem, acked, faultsLeft>>

-----------------------------------------------------------------------------
(* `awf resume`: stat, lock, open and repair, fold, admit, run.resumed.    *)

ResumeStat(p) ==
    /\ pc[p] = "idle"
    /\ file # "absent"
    /\ Goto(p, "res.lock")
    /\ UNCHANGED <<file, log, torn, stable, cas, lock, mem, acked, faultsLeft>>

ResumeAcquire(p) ==
    /\ pc[p] = "res.lock"
    /\ \/ /\ Acquire(p)
          /\ Goto(p, "res.open")
       \/ /\ lock # NoProc
          /\ Goto(p, "idle")
          /\ UNCHANGED lock
    /\ UNCHANGED <<file, log, torn, stable, cas, mem, acked, faultsLeft>>

\* mutant of OpenLogExisting: a torn tail takes the last good frame with it
OpenCutsGoodFrame(p) ==
    /\ pc[p] = "res.open"
    /\ file # "absent"
    /\ torn' = FALSE
    /\ log' = IF torn /\ log # <<>> THEN SubSeq(log, 1, Len(log) - 1) ELSE log
    /\ stable' = IF stable > Len(log') THEN Len(log') ELSE stable
    /\ Remember(p, [Blank EXCEPT
          !.seq = Len(log'),
          !.epoch = IF log' = <<>> THEN 0 ELSE log'[Len(log')].epoch + 1])
    /\ Goto(p, "res.fold")
    /\ UNCHANGED <<file, cas, lock, acked, faultsLeft>>

\* openLog: scan to the last good frame, truncate there, continue its seq
\* under the next epoch.  A log removed since the stat is an error exit.
OpenLogExisting(p) ==
    /\ pc[p] = "res.open"
    /\ \/ /\ file # "absent"
          /\ torn' = FALSE
          /\ Remember(p, [Blank EXCEPT
                !.seq = IF log = <<>> THEN 0 ELSE log[Len(log)].seq,
                !.epoch = IF log = <<>> THEN 0 ELSE log[Len(log)].epoch + 1])
          /\ Goto(p, "res.fold")
          /\ UNCHANGED lock
       \/ /\ file = "absent"
          /\ Exit(p)
          /\ UNCHANGED torn
    /\ UNCHANGED <<file, log, stable, cas, acked, faultsLeft>>

\* engine.Fold accepts a log that starts with run.started and whose
\* node.completed events all resolve in the blob store
Foldable == /\ log # <<>>
            /\ log[1].type = "run.started"
            /\ \A i \in OfType(log, "node.completed") :
                  \A r \in log[i].refs : Present(r)

\* mutant of Admitted: any finished run is refused, a failed one too
AdmitsUnfinishedOnly == OfType(log, "run.finished") = {}

\* resumeAdmission refuses only a run whose latest run.finished is ok
Admitted == \A i \in OfType(log, "run.finished") :
               (\A j \in OfType(log, "run.finished") : j <= i) => log[i].status # "ok"

FoldLog(p) ==
    /\ pc[p] = "res.fold"
    /\ \/ /\ Foldable
          /\ Admitted
          /\ Remember(p, [mem[p] EXCEPT !.done = CompletedIn(log)])
          /\ Goto(p, "res.append")
          /\ UNCHANGED lock
       \/ /\ ~(Foldable /\ Admitted)
          /\ Exit(p)
    /\ UNCHANGED <<file, log, torn, stable, cas, acked, faultsLeft>>

AppendRunResumed(p) ==
    /\ pc[p] = "res.append"
    /\ Write(p, "run.resumed", 0, {}, "none")
    /\ Remember(p, [mem[p] EXCEPT !.seq = @ + 1])
    /\ Goto(p, "res.sync")
    /\ UNCHANGED <<file, stable, cas, lock, acked, faultsLeft>>

SyncRunResumed(p) ==
    /\ pc[p] = "res.sync"
    /\ Sync
    /\ Goto(p, "walk")
    /\ UNCHANGED <<file, log, torn, cas, lock, mem, acked, faultsLeft>>

-----------------------------------------------------------------------------
(* engine.Run over the node sequence: a completed node is skipped, the     *)
(* first uncompleted one is executed.                                      *)

\* mutant of InterpNodes: nodes are executed in any order
InterpAnyOrder(p) ==
    /\ pc[p] = "walk"
    /\ \/ /\ mem[p].done = Nodes
          /\ Remember(p, [mem[p] EXCEPT !.status = "ok"])
          /\ Goto(p, "fin.append")
       \/ \E n \in Nodes \ mem[p].done :
             /\ Remember(p, [mem[p] EXCEPT !.cur = n])
             /\ Goto(p, "node.start")
    /\ UNCHANGED <<file, log, torn, stable, cas, lock, acked, faultsLeft>>

InterpNodes(p) ==
    /\ pc[p] = "walk"
    /\ \/ /\ mem[p].done = Nodes
          /\ Remember(p, [mem[p] EXCEPT !.status = "ok"])
          /\ Goto(p, "fin.append")
       \/ \E n \in Nodes \ mem[p].done :
             /\ \A m \in 1 .. (n - 1) : m \in mem[p].done
             /\ Remember(p, [mem[p] EXCEPT !.cur = n])
             /\ Goto(p, "node.start")
    /\ UNCHANGED <<file, log, torn, stable, cas, lock, acked, faultsLeft>>

\* node.started is best effort: a failed append is ignored, even when part
\* of its frame reached the file
AppendNodeStarted(p) ==
    /\ pc[p] = "node.start"
    /\ \/ /\ Write(p, "node.started", mem[p].cur, {}, "none")
          /\ Remember(p, [mem[p] EXCEPT !.seq = @ + 1])
          /\ UNCHANGED faultsLeft
       \/ /\ "short" \in Faults
          /\ faultsLeft > 0
          /\ faultsLeft' = faultsLeft - 1
          /\ torn' \in {torn, TRUE}
          /\ UNCHANGED <<log, mem>>
    /\ Goto(p, "dispatch")
    /\ UNCHANGED <<file, stable, cas, lock, acked>>

\* the dispatched step ends ok with some artifacts, or fails
Dispatch(p) ==
    /\ pc[p] = "dispatch"
    /\ \/ \E a \in SUBSET Refs :
             /\ Remember(p, [mem[p] EXCEPT !.art = a, !.todo = a])
             /\ Goto(p, "put")
             /\ UNCHANGED faultsLeft
       \/ /\ faultsLeft > 0
          /\ faultsLeft' = faultsLeft - 1
          /\ Goto(p, "fail.append")
          /\ UNCHANGED mem
    /\ UNCHANGED <<file, log, torn, stable, cas, lock, acked>>

-----------------------------------------------------------------------------
(* engine.Commit: Put every artifact, then append, then sync.  A Put of a  *)
(* content that is already there returns at once; otherwise it renames a   *)
(* synced temporary file into place and syncs the directory.               *)

PutStat(p) ==
    /\ pc[p] = "put"
    /\ \/ /\ mem[p].todo = {}
          /\ Goto(p, "commit.append")
          /\ UNCHANGED mem
       \/ \E r \in mem[p].todo :
             \/ /\ Present(r)
                /\ Remember(p, [mem[p] EXCEPT !.todo = @ \ {r}])
                /\ UNCHANGED pc
             \/ /\ ~Present(r)
                /\ Remember(p, [mem[p] EXCEPT !.put = {r}])
                /\ Goto(p, "put.link")
    /\ UNCHANGED <<file, log, torn, stable, cas, lock, acked, faultsLeft>>

PutLink(p) ==
    /\ pc[p] = "put.link"
    /\ cas' = [r \in Refs |-> IF r \in mem[p].put /\ ~Present(r)
                              THEN "linked" ELSE cas[r]]
    /\ Goto(p, "put.sync")
    /\ UNCHANGED <<file, log, torn, stable, lock, mem, acked, faultsLeft>>

PutSync(p) ==
    /\ pc[p] = "put.sync"
    /\ cas' = [r \in Refs |-> IF r \in mem[p].put THEN "durable" ELSE cas[r]]
    /\ Remember(p, [mem[p] EXCEPT !.todo = @ \ mem[p].put, !.put = {}])
    /\ Goto(p, "put")
    /\ UNCHANGED <<file, log, torn, stable, lock, acked, faultsLeft>>

AppendNodeCompleted(p) ==
    /\ pc[p] = "commit.append"
    /\ Write(p, "node.completed", mem[p].cur, mem[p].art, "ok")
    /\ Remember(p, [mem[p] EXCEPT !.seq = @ + 1])
    /\ Goto(p, "commit.sync")
    /\ UNCHANGED <<file, stable, cas, lock, acked, faultsLeft>>

\* mutant of SyncNodeCompleted: Commit returns without the fsync
CommitWithoutSync(p) ==
    /\ pc[p] = "commit.sync"
    /\ Remember(p, [mem[p] EXCEPT !.done = @ \cup {mem[p].cur},
                                  !.cur = 0, !.art = {}])
    /\ acked' = acked \cup {mem[p].cur}
    /\ Goto(p, "walk")
    /\ UNCHANGED <<file, log, torn, stable, cas, lock, faultsLeft>>

\* Log.Sync returns, Commit returns, RunState.RecordCompleted
SyncNodeCompleted(p) ==
    /\ pc[p] = "commit.sync"
    /\ Sync
    /\ Remember(p, [mem[p] EXCEPT !.done = @ \cup {mem[p].cur},
                                           !.cur = 0, !.art = {}])
    /\ acked' = acked \cup {mem[p].cur}
    /\ Goto(p, "walk")
    /\ UNCHANGED <<file, log, torn, cas, lock, faultsLeft>>

-----------------------------------------------------------------------------
(* A step that failed is journaled as node.failed; the walk's outcome is   *)
(* journaled as run.finished and the process exits.                        *)

AppendNodeFailed(p) ==
    /\ pc[p] = "fail.append"
    /\ Write(p, "node.failed", mem[p].cur, {}, "failed")
    /\ Remember(p, [mem[p] EXCEPT !.seq = @ + 1])
    /\ Goto(p, "fail.sync")
    /\ UNCHANGED <<file, stable, cas, lock, acked, faultsLeft>>

SyncNodeFailed(p) ==
    /\ pc[p] = "fail.sync"
    /\ Sync
    /\ Goto(p, "fin.append")
    /\ UNCHANGED <<file, log, torn, cas, lock, mem, acked, faultsLeft>>

AppendRunFinished(p) ==
    /\ pc[p] = "fin.append"
    /\ Write(p, "run.finished", 0, {}, mem[p].status)
    /\ Remember(p, [mem[p] EXCEPT !.seq = @ + 1])
    /\ Goto(p, "fin.sync")
    /\ UNCHANGED <<file, stable, cas, lock, acked, faultsLeft>>

SyncRunFinished(p) ==
    /\ pc[p] = "fin.sync"
    /\ Sync
    /\ Goto(p, "exit")
    /\ UNCHANGED <<file, log, torn, cas, lock, mem, acked, faultsLeft>>

FinishExit(p) ==
    /\ pc[p] = "exit"
    /\ Exit(p)
    /\ UNCHANGED <<file, log, torn, stable, cas, acked, faultsLeft>>

-----------------------------------------------------------------------------
(* The environment.                                                        *)

\* a Put of the same content by a process that drives another run
ForeignPut(r) ==
    /\ \/ /\ cas[r] = "absent"
          /\ cas' = [cas EXCEPT ![r] = "linked"]
       \/ /\ cas[r] = "linked"
          /\ cas' = [cas EXCEPT ![r] = "durable"]
    /\ UNCHANGED <<file, log, torn, stable, lock, pc, mem, acked, faultsLeft>>

\* p dies, possibly in the middle of a write; the kernel frees its flock
Crash(p) ==
    /\ pc[p] # "idle"
    /\ faultsLeft > 0
    /\ faultsLeft' = faultsLeft - 1
    /\ torn' \in IF pc[p] \in Appending THEN {torn, TRUE} ELSE {torn}
    /\ Exit(p)
    /\ UNCHANGED <<file, log, stable, cas, acked>>

\* every process dies; log bytes past the last fsync may be lost, and so
\* may directory entries that were not synced ("dirent")
PowerFailure ==
    /\ "power" \in Faults
    /\ faultsLeft > 0
    /\ faultsLeft' = faultsLeft - 1
    /\ pc' = [p \in Procs |-> "idle"]
    /\ mem' = [p \in Procs |-> Blank]
    /\ lock' = NoProc
    /\ \E gone \in IF "dirent" \in Faults
                   THEN SUBSET {r \in Refs : cas[r] = "linked"} ELSE {{}} :
          cas' = [r \in Refs |-> IF r \in gone THEN "absent"
                                 ELSE IF Present(r) THEN "durable" ELSE "absent"]
    /\ \/ \E k \in stable .. Len(log) :
             /\ log' = SubSeq(log, 1, k)
             /\ stable' = k
             /\ torn' \in IF k < Len(log) \/ torn THEN BOOLEAN ELSE {FALSE}
             /\ file' = IF file = "absent" THEN "absent" ELSE "durable"
       \/ /\ "dirent" \in Faults
          /\ file = "linked"
          /\ file' = "absent"
          /\ log' = <<>>
          /\ stable' = 0
          /\ torn' = FALSE
    /\ UNCHANGED acked

-----------------------------------------------------------------------------
(* The specification.                                                      *)

Init ==
    /\ file = "absent"
    /\ log = <<>>
    /\ torn = FALSE
    /\ stable = 0
    /\ cas = [r \in Refs |-> "absent"]
    /\ lock = NoProc
    /\ pc = [p \in Procs |-> "idle"]
    /\ mem = [p \in Procs |-> Blank]
    /\ acked = {}
    /\ faultsLeft = MaxFaults

\* the steps of `awf run` up to the walk
RunStep(p) ==
    \/ RunAcquire(p)
    \/ RunRemove(p)
    \/ AppendRunStarted(p)
    \/ SyncRunStarted(p)

\* the steps of `awf resume` up to the walk
ResumeStep(p) ==
    \/ ResumeAcquire(p)
    \/ OpenLogExisting(p)
    \/ FoldLog(p)
    \/ AppendRunResumed(p)
    \/ SyncRunResumed(p)

\* the steps of engine.Run and of the shared tail of both commands
WalkStep(p) ==
    \/ InterpNodes(p)
    \/ AppendNodeStarted(p)
    \/ Dispatch(p)
    \/ PutStat(p)
    \/ PutLink(p)
    \/ PutSync(p)
    \/ AppendNodeCompleted(p)
    \/ SyncNodeCompleted(p)
    \/ AppendNodeFailed(p)
    \/ SyncNodeFailed(p)
    \/ AppendRunFinished(p)
    \/ SyncRunFinished(p)
    \/ FinishExit(p)

Next ==
    \/ \E p \in Procs :
          \/ OpenLogExclusive(p)
          \/ RunStep(p)
          \/ ResumeStat(p)
          \/ ResumeStep(p)
          \/ WalkStep(p)
          \/ Crash(p)
    \/ \E r \in Refs : ForeignPut(r)
    \/ PowerFailure

Spec == Init /\ [][Next]_vars

\* A process that is scheduled takes its steps; an operator starts the run
\* and keeps resuming it while it has not finished ok.
Fairness ==
    /\ \A p \in Procs : WF_vars(RunStep(p) \/ ResumeStep(p) \/ WalkStep(p))
    /\ WF_vars(\E p \in Procs : OpenLogExclusive(p))
    /\ SF_vars(\E p \in Procs : ResumeStat(p))

FairSpec == Spec /\ Fairness

-----------------------------------------------------------------------------
(* Properties.                                                             *)

\* Every variable has its type; the synced prefix lies inside the log.
TypeOK ==
    /\ file \in {"absent", "linked", "durable"}
    /\ log \in Seq(Record)
    /\ torn \in BOOLEAN
    /\ stable \in 0 .. Len(log)
    /\ cas \in [Refs -> {"absent", "linked", "durable"}]
    /\ lock \in Procs \cup {NoProc}
    /\ pc \in [Procs -> States]
    /\ mem \in [Procs -> Memory]
    /\ acked \in SUBSET Nodes
    /\ faultsLeft \in Nat

\* Content-address-then-pointer-swap (engine/commit.go): no node.completed in
\* the log refers to an artifact that is not in the blob store, whichever
\* processes put, crash and resume in between.
NoDanglingRef ==
    \A i \in OfType(log, "node.completed") : \A r \in log[i].refs : Present(r)

\* Once engine.Commit has returned, the node's node.completed is readable
\* from the log for ever: crashes, torn tails and their repair by a later
\* resume never take a commit back.
DurableCommit == acked \subseteq CompletedIn(log)

\* Resume is a fold: a node is committed at most once in the life of the run,
\* however many drivers crashed and resumed while executing it.
CommitOnce ==
    \A i, j \in OfType(log, "node.completed") :
        log[i].node = log[j].node => i = j

\* A committed node is replayed, never executed again: no driver is executing
\* a node that the log already records as completed.
NoRedispatch ==
    \A p \in Procs : pc[p] \in Executing => mem[p].cur \notin CompletedIn(log)

\* Append numbers events without gap or reuse across crashes, truncations and
\* reopens, and each run.resumed opens an epoch no earlier event carries.
SeqAndEpoch ==
    \A i \in 1 .. Len(log) :
        /\ log[i].seq = i
        /\ \A j \in 1 .. (i - 1) :
              /\ log[j].epoch <= log[i].epoch
              /\ log[i].type = "run.resumed" => log[j].epoch < log[i].epoch

\* The lock makes the log single-writer: two processes are never both past
\* the lock, and the torn-tail repair of an open log never happens while
\* another driver is writing.
SingleWriter == \A p, q \in Procs : {pc[p], pc[q]} \subseteq Driving => p = q

\* run.finished{ok} is only journaled when every node is committed.
FinishedOkComplete ==
    \A i \in OfType(log, "run.finished") : log[i].status = "ok" => CompletedIn(log) = Nodes

\* What an fsync covered is never rewritten: every step keeps the synced
\* prefix of the log as a prefix (log.go repairs only past the good frames).
SyncedPrefixKept ==
    [][ /\ stable <= Len(log')
        /\ \A i \in 1 .. stable : log'[i] = log[i] ]_vars

\* The journal implements the ledger: seen through the nodes a fold of the
\* log finds completed, every step of every driver and every fault is a step
\* of CommitLedger or changes nothing.
Ledger == INSTANCE CommitLedger WITH visible <- CompletedIn(log)
LedgerSpec == Ledger!Spec

\* A run that one operator resumes often enough finishes ok.  The exception is
\* a driver that died between creating the log and journaling run.started: that
\* run id can be neither started again nor resumed.  (Two operators who start
\* and resume the same run at once may take the lock from each other for ever.)
Finished == \E i \in OfType(log, "run.finished") : log[i].status = "ok"
NeverStarted == file # "absent" /\ log = <<>> /\ \A p \in Procs : pc[p] \notin Creating
Alone(p) == \A q \in Procs \ {p} : pc[q] = "idle"
EventuallyFinished == (\E p \in Procs : []Alone(p)) => <>(Finished \/ NeverStarted)

\* Whatever two processes do, die or lose: the journal has one writer at a time,
\* its epochs and numbers go up by one, a commit in it is on disk with the blobs
\* it names, no step is committed or dispatched again behind its commit, and a
\* run that is reported ok has all of them.
CommitSafe ==
    /\ TypeOK
    /\ NoDanglingRef
    /\ DurableCommit
    /\ CommitOnce
    /\ NoRedispatch
    /\ SeqAndEpoch
    /\ SingleWriter
    /\ FinishedOkComplete
=============================================================================
