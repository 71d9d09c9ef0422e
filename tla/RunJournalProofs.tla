-------------------------- MODULE RunJournalProofs --------------------------
(***************************************************************************)
(* Machine-checked proofs about RunJournal, for any number of processes,   *)
(* steps, contents and faults.                                             *)
(***************************************************************************)
EXTENDS RunJournal, TLAPS

-----------------------------------------------------------------------------
(* Facts about the log operators.                                          *)

\* Appending a record adds its node when it is a node.completed, and nothing
\* otherwise; earlier records keep their place.
LEMMA AppendCompleted ==
    ASSUME NEW l \in Seq(Record), NEW e \in Record
    PROVE  /\ Append(l, e) \in Seq(Record)
           /\ Len(Append(l, e)) = Len(l) + 1
           /\ \A i \in 1 .. Len(l) : Append(l, e)[i] = l[i]
           /\ Append(l, e)[Len(l) + 1] = e
           /\ e.type = "node.completed" =>
                 CompletedIn(Append(l, e)) = CompletedIn(l) \cup {e.node}
           /\ e.type # "node.completed" =>
                 CompletedIn(Append(l, e)) = CompletedIn(l)
<1> DEFINE m == Append(l, e)
<1>1. /\ m \in Seq(Record)
      /\ Len(m) = Len(l) + 1
      /\ \A i \in 1 .. Len(l) : m[i] = l[i]
      /\ m[Len(l) + 1] = e
  OBVIOUS
<1>2. 1 .. Len(m) = (1 .. Len(l)) \cup {Len(l) + 1}
  BY <1>1
<1> HIDE DEF m
<1>3. e.type = "node.completed" => CompletedIn(m) = CompletedIn(l) \cup {e.node}
  BY <1>1, <1>2 DEF CompletedIn, OfType
<1>4. e.type # "node.completed" => CompletedIn(m) = CompletedIn(l)
  BY <1>1, <1>2 DEF CompletedIn, OfType
<1>5. QED
  BY <1>1, <1>3, <1>4 DEF m

\* A prefix of the log is a log, agrees with it, and completes no node the
\* log does not complete.
LEMMA PrefixCompleted ==
    ASSUME NEW l \in Seq(Record), NEW k \in 0 .. Len(l)
    PROVE  /\ SubSeq(l, 1, k) \in Seq(Record)
           /\ Len(SubSeq(l, 1, k)) = k
           /\ \A i \in 1 .. k : SubSeq(l, 1, k)[i] = l[i]
           /\ CompletedIn(SubSeq(l, 1, k)) \subseteq CompletedIn(l)
           /\ k = 0 => SubSeq(l, 1, k) = <<>>
<1> DEFINE m == SubSeq(l, 1, k)
<1>1. /\ m \in Seq(Record)
      /\ Len(m) = k
      /\ \A i \in 1 .. k : m[i] = l[i]
      /\ k = 0 => m = <<>>
  OBVIOUS
<1> HIDE DEF m
<1>2. CompletedIn(m) \subseteq CompletedIn(l)
  BY <1>1 DEF CompletedIn, OfType
<1>3. QED
  BY <1>1, <1>2 DEF m

-----------------------------------------------------------------------------
(* Effects of the building blocks.                                         *)

LEMMA BlankType == Blank \in Memory
  BY DEF Blank, Memory

\* Every update the actions make to a process's memory yields a Memory.
LEMMA MemoryUpdates ==
    ASSUME NEW m \in Memory
    PROVE  /\ [m EXCEPT !.seq = @ + 1] \in Memory
           /\ [m EXCEPT !.status = "ok"] \in Memory
           /\ \A a \in SUBSET Refs : [m EXCEPT !.art = a, !.todo = a] \in Memory
           /\ \A r \in Refs : [m EXCEPT !.todo = @ \ {r}] \in Memory
           /\ \A r \in Refs : [m EXCEPT !.put = {r}] \in Memory
           /\ [m EXCEPT !.todo = @ \ m.put, !.put = {}] \in Memory
           /\ \A n \in Nodes : [m EXCEPT !.cur = n] \in Memory
           /\ \A n \in Nodes :
                 [m EXCEPT !.done = @ \cup {n}, !.cur = 0, !.art = {}] \in Memory
           /\ \A d \in SUBSET Nodes : [m EXCEPT !.done = d] \in Memory
<1>1. [m EXCEPT !.seq = @ + 1] \in Memory
  BY DEF Memory
<1>2. [m EXCEPT !.status = "ok"] \in Memory
  BY DEF Memory
<1>3. \A a \in SUBSET Refs : [m EXCEPT !.art = a, !.todo = a] \in Memory
  BY DEF Memory
<1>4. \A r \in Refs : [m EXCEPT !.todo = @ \ {r}] \in Memory
  BY DEF Memory
<1>5. \A r \in Refs : [m EXCEPT !.put = {r}] \in Memory
  BY DEF Memory
<1>6. [m EXCEPT !.todo = @ \ m.put, !.put = {}] \in Memory
  BY DEF Memory
<1>7. \A n \in Nodes : [m EXCEPT !.cur = n] \in Memory
  BY DEF Memory
<1>8. \A n \in Nodes : [m EXCEPT !.done = @ \cup {n}, !.cur = 0, !.art = {}] \in Memory
  BY DEF Memory
<1>9. \A d \in SUBSET Nodes : [m EXCEPT !.done = d] \in Memory
  BY DEF Memory
<1> QED
  BY <1>1, <1>2, <1>3, <1>4, <1>5, <1>6, <1>7, <1>8, <1>9

\* The memory of a process that has just opened the log.
LEMMA OpenedType ==
    ASSUME NEW s \in Nat, NEW e \in Nat
    PROVE  [Blank EXCEPT !.seq = s, !.epoch = e] \in Memory
  BY DEF Memory, Blank

\* What Goto, Remember and Exit leave behind.
LEMMA GotoEffect ==
    ASSUME TypeOK, NEW p \in Procs, NEW s \in States, Goto(p, s)
    PROVE  /\ pc' \in [Procs -> States]
           /\ pc'[p] = s
           /\ \A q \in Procs : q # p => pc'[q] = pc[q]
  BY DEF TypeOK, Goto

LEMMA RememberEffect ==
    ASSUME TypeOK, NEW p \in Procs, NEW m \in Memory, Remember(p, m)
    PROVE  /\ mem' \in [Procs -> Memory]
           /\ mem'[p] = m
           /\ \A q \in Procs : q # p => mem'[q] = mem[q]
  BY DEF TypeOK, Remember

LEMMA ExitEffect ==
    ASSUME TypeOK, NEW p \in Procs, Exit(p)
    PROVE  /\ pc' \in [Procs -> States]
           /\ pc'[p] = "idle"
           /\ \A q \in Procs : q # p => pc'[q] = pc[q]
           /\ mem' \in [Procs -> Memory]
           /\ mem'[p] = Blank
           /\ \A q \in Procs : q # p => mem'[q] = mem[q]
           /\ lock' \in Procs \cup {NoProc}
           /\ lock = p => lock' = NoProc
           /\ lock # p => lock' = lock
<1>1. "idle" \in States
  BY DEF States
<1>2. QED
  BY <1>1, BlankType DEF TypeOK, Exit, Remember

LEMMA StatesFact ==
    {"idle", "run.lock", "run.remove", "run.start", "run.sync", "res.lock",
     "res.open", "res.fold", "res.append", "res.sync", "walk", "node.start",
     "dispatch", "put", "put.link", "put.sync", "commit.append", "commit.sync",
     "fail.append", "fail.sync", "fin.append", "fin.sync", "exit"} \subseteq States
  BY DEF States, Driving, Walking, Executing, Creating

-----------------------------------------------------------------------------
(* Type correctness.  TypeOK alone is not inductive: a commit adds mem.cur *)
(* to the completed nodes, and a fold takes them from the log.             *)

CurOK == \A p \in Procs : pc[p] \in Executing \cup {"commit.sync"} => mem[p].cur \in Nodes

LogNodes == CompletedIn(log) \subseteq Nodes

TInv == TypeOK /\ CurOK /\ LogNodes

\* The steps that append a record, and those that fsync the log.
AppendStep(p) ==
    \/ AppendRunStarted(p)
    \/ AppendRunResumed(p)
    \/ AppendNodeStarted(p)
    \/ AppendNodeCompleted(p)
    \/ AppendNodeFailed(p)
    \/ AppendRunFinished(p)

SyncStep(p) ==
    \/ SyncRunStarted(p)
    \/ SyncRunResumed(p)
    \/ SyncNodeCompleted(p)
    \/ SyncNodeFailed(p)
    \/ SyncRunFinished(p)

\* What an appending step writes: the record, or nothing at all when the
\* best-effort append of node.started fails ("short").
LEMMA AppendRecord ==
    ASSUME TypeOK, NEW p \in Procs, AppendStep(p)
    PROVE  \/ log' = log /\ AppendNodeStarted(p)
           \/ \E e \in Record :
                 /\ torn' = torn
                 /\ log' = IF torn THEN log ELSE Append(log, e)
                 /\ e.seq = mem[p].seq + 1 /\ e.epoch = mem[p].epoch
                 /\ \/ AppendRunStarted(p) /\ e.type = "run.started"
                    \/ AppendRunResumed(p) /\ e.type = "run.resumed"
                    \/ AppendNodeStarted(p) /\ e.type = "node.started"
                    \/ /\ AppendNodeCompleted(p)
                       /\ e.type = "node.completed"
                       /\ e.node = mem[p].cur
                       /\ e.refs = mem[p].art
                    \/ AppendNodeFailed(p) /\ e.type = "node.failed"
                    \/ /\ AppendRunFinished(p)
                       /\ e.type = "run.finished"
                       /\ e.status = mem[p].status
<1>0. mem[p] \in Memory
  BY DEF TypeOK
<1>1. CASE AppendRunStarted(p)
  <2> DEFINE e == [type |-> "run.started", node |-> 0, refs |-> {},
                   status |-> "none", seq |-> mem[p].seq + 1, epoch |-> mem[p].epoch]
  <2>1. /\ e \in Record
        /\ e.seq = mem[p].seq + 1 /\ e.epoch = mem[p].epoch /\ e.type = "run.started"
        /\ e.node = 0 /\ e.refs = {} /\ e.status = "none"
    BY <1>0 DEF Memory, Record, EventTypes
  <2>2. (torn' = torn /\ log' = IF torn THEN log ELSE Append(log, e))
    BY <1>1 DEF AppendRunStarted, Write
  <2> HIDE DEF e
  <2> QED
    BY <1>1, <2>1, <2>2
<1>2. CASE AppendRunResumed(p)
  <2> DEFINE e == [type |-> "run.resumed", node |-> 0, refs |-> {},
                   status |-> "none", seq |-> mem[p].seq + 1, epoch |-> mem[p].epoch]
  <2>1. /\ e \in Record
        /\ e.seq = mem[p].seq + 1 /\ e.epoch = mem[p].epoch /\ e.type = "run.resumed"
        /\ e.node = 0 /\ e.refs = {} /\ e.status = "none"
    BY <1>0 DEF Memory, Record, EventTypes
  <2>2. (torn' = torn /\ log' = IF torn THEN log ELSE Append(log, e))
    BY <1>2 DEF AppendRunResumed, Write
  <2> HIDE DEF e
  <2> QED
    BY <1>2, <2>1, <2>2
<1>3. CASE AppendNodeStarted(p)
  <2> DEFINE e == [type |-> "node.started", node |-> mem[p].cur, refs |-> {},
                   status |-> "none", seq |-> mem[p].seq + 1, epoch |-> mem[p].epoch]
  <2>1. /\ e \in Record
        /\ e.seq = mem[p].seq + 1 /\ e.epoch = mem[p].epoch /\ e.type = "node.started"
        /\ e.node = mem[p].cur /\ e.refs = {} /\ e.status = "none"
    BY <1>0 DEF Memory, Record, EventTypes
  <2>2. log' = log \/ (torn' = torn /\ log' = IF torn THEN log ELSE Append(log, e))
    BY <1>3 DEF AppendNodeStarted, Write
  <2> HIDE DEF e
  <2> QED
    BY <1>3, <2>1, <2>2
<1>4. CASE AppendNodeCompleted(p)
  <2> DEFINE e == [type |-> "node.completed", node |-> mem[p].cur, refs |-> mem[p].art,
                   status |-> "ok", seq |-> mem[p].seq + 1, epoch |-> mem[p].epoch]
  <2>1. /\ e \in Record
        /\ e.seq = mem[p].seq + 1 /\ e.epoch = mem[p].epoch /\ e.type = "node.completed"
        /\ e.node = mem[p].cur /\ e.refs = mem[p].art /\ e.status = "ok"
    BY <1>0 DEF Memory, Record, EventTypes
  <2>2. (torn' = torn /\ log' = IF torn THEN log ELSE Append(log, e))
    BY <1>4 DEF AppendNodeCompleted, Write
  <2> HIDE DEF e
  <2> QED
    BY <1>4, <2>1, <2>2
<1>5. CASE AppendNodeFailed(p)
  <2> DEFINE e == [type |-> "node.failed", node |-> mem[p].cur, refs |-> {},
                   status |-> "failed", seq |-> mem[p].seq + 1, epoch |-> mem[p].epoch]
  <2>1. /\ e \in Record
        /\ e.seq = mem[p].seq + 1 /\ e.epoch = mem[p].epoch /\ e.type = "node.failed"
        /\ e.node = mem[p].cur /\ e.refs = {} /\ e.status = "failed"
    BY <1>0 DEF Memory, Record, EventTypes
  <2>2. (torn' = torn /\ log' = IF torn THEN log ELSE Append(log, e))
    BY <1>5 DEF AppendNodeFailed, Write
  <2> HIDE DEF e
  <2> QED
    BY <1>5, <2>1, <2>2
<1>6. CASE AppendRunFinished(p)
  <2> DEFINE e == [type |-> "run.finished", node |-> 0, refs |-> {},
                   status |-> mem[p].status, seq |-> mem[p].seq + 1, epoch |-> mem[p].epoch]
  <2>1. /\ e \in Record
        /\ e.seq = mem[p].seq + 1 /\ e.epoch = mem[p].epoch /\ e.type = "run.finished"
        /\ e.node = 0 /\ e.refs = {} /\ e.status = mem[p].status
    BY <1>0 DEF Memory, Record, EventTypes
  <2>2. (torn' = torn /\ log' = IF torn THEN log ELSE Append(log, e))
    BY <1>6 DEF AppendRunFinished, Write
  <2> HIDE DEF e
  <2> QED
    BY <1>6, <2>1, <2>2
<1>7. QED
  BY <1>1, <1>2, <1>3, <1>4, <1>5, <1>6 DEF AppendStep

\* An appending step changes the log, the writer's seq and its control state.
LEMMA AppendFrame ==
    ASSUME TypeOK, NEW p \in Procs, AppendStep(p)
    PROVE  /\ pc' \in [Procs -> States]
           /\ \A q \in Procs : q # p => pc'[q] = pc[q] /\ mem'[q] = mem[q]
           /\ mem' \in [Procs -> Memory]
           /\ \/ mem'[p] = mem[p] /\ "short" \in Faults /\ AppendNodeStarted(p)
              \/ mem'[p] = [mem[p] EXCEPT !.seq = @ + 1] /\ torn' = torn
           /\ mem'[p].cur = mem[p].cur
           /\ AppendRunStarted(p) => pc'[p] = "run.sync"
           /\ AppendRunResumed(p) => pc'[p] = "res.sync"
           /\ AppendNodeStarted(p) => pc'[p] = "dispatch"
           /\ AppendNodeCompleted(p) => pc'[p] = "commit.sync"
           /\ AppendNodeFailed(p) => pc'[p] = "fail.sync"
           /\ AppendRunFinished(p) => pc'[p] = "fin.sync"
           /\ UNCHANGED <<file, stable, cas, lock, acked>>
<1> USE DEF AppendStep, AppendRunStarted, AppendRunResumed, AppendNodeStarted,
            AppendNodeCompleted, AppendNodeFailed, AppendRunFinished
<1>0. mem[p] \in Memory /\ [mem[p] EXCEPT !.seq = @ + 1] \in Memory
  BY MemoryUpdates DEF TypeOK
<1>1. /\ pc' \in [Procs -> States]
      /\ \A q \in Procs : q # p => pc'[q] = pc[q]
      /\ AppendRunStarted(p) => pc'[p] = "run.sync"
      /\ AppendRunResumed(p) => pc'[p] = "res.sync"
      /\ AppendNodeStarted(p) => pc'[p] = "dispatch"
      /\ AppendNodeCompleted(p) => pc'[p] = "commit.sync"
      /\ AppendNodeFailed(p) => pc'[p] = "fail.sync"
      /\ AppendRunFinished(p) => pc'[p] = "fin.sync"
  BY StatesFact, GotoEffect
<1>2. \/ mem' = mem /\ "short" \in Faults /\ AppendNodeStarted(p)
      \/ Remember(p, [mem[p] EXCEPT !.seq = @ + 1]) /\ torn' = torn
  BY DEF Write
<1>3. /\ mem' \in [Procs -> Memory]
      /\ \A q \in Procs : q # p => mem'[q] = mem[q]
      /\ \/ mem'[p] = mem[p] /\ "short" \in Faults /\ AppendNodeStarted(p)
         \/ mem'[p] = [mem[p] EXCEPT !.seq = @ + 1] /\ torn' = torn
  <2>1. CASE mem' = mem /\ "short" \in Faults /\ AppendNodeStarted(p)
    BY <2>1 DEF TypeOK
  <2>2. CASE Remember(p, [mem[p] EXCEPT !.seq = @ + 1]) /\ torn' = torn
    <3> DEFINE m == [mem[p] EXCEPT !.seq = @ + 1]
    <3> HIDE DEF m
    <3>1. m \in Memory /\ Remember(p, m)
      BY <1>0, <2>2 DEF m
    <3>2. mem' \in [Procs -> Memory] /\ mem'[p] = m
          /\ \A q \in Procs : q # p => mem'[q] = mem[q]
      BY <3>1, RememberEffect
    <3> QED
      BY <2>2, <3>2 DEF m
  <2> QED
    BY <1>2, <2>1, <2>2
<1>4. mem'[p].cur = mem[p].cur
  BY <1>0, <1>3 DEF Memory
<1>5. UNCHANGED <<file, stable, cas, lock, acked>>
  OBVIOUS
<1>6. QED
  BY <1>1, <1>3, <1>4, <1>5

LEMMA TypeAppend ==
    ASSUME TInv, NEW p \in Procs, AppendStep(p)
    PROVE  TInv'
<1>0. TypeOK /\ mem[p] \in Memory
  BY DEF TInv, TypeOK
<1>1. /\ log' \in Seq(Record)
      /\ Len(log') \in {Len(log), Len(log) + 1}
      /\ \/ CompletedIn(log') = CompletedIn(log)
         \/ AppendNodeCompleted(p) /\ CompletedIn(log') = CompletedIn(log) \cup {mem[p].cur}
  <2>1. CASE log' = log
    BY <1>0, <2>1 DEF TypeOK
  <2>2. CASE log' # log
    <3>1. PICK e \in Record :
             /\ log' = Append(log, e)
             /\ e.type = "node.completed" => AppendNodeCompleted(p) /\ e.node = mem[p].cur
      BY <1>0, <2>2, AppendRecord
    <3> QED
      BY <1>0, <3>1, AppendCompleted DEF TypeOK
  <2> QED
    BY <2>1, <2>2
<1>2. CurOK'
  <2>1. AppendNodeCompleted(p) => pc[p] = "commit.append"
    BY DEF AppendNodeCompleted
  <2>2. AppendNodeStarted(p) => pc[p] = "node.start"
    BY DEF AppendNodeStarted
  <2>3. pc'[p] \in Executing \cup {"commit.sync"} => mem[p].cur \in Nodes
    BY <1>0, <2>1, <2>2, AppendFrame DEF TInv, CurOK, Executing, AppendStep
  <2> QED
    BY <1>0, <2>3, AppendFrame DEF TInv, CurOK
<1>3. LogNodes'
  BY <1>1 DEF LogNodes, TInv, CurOK, AppendNodeCompleted, Executing
<1>4. stable' \in 0 .. Len(log')
  <2>1. stable' = stable
    BY <1>0, AppendFrame
  <2> QED
    BY <1>0, <1>1, <2>1 DEF TypeOK
<1>5. torn' \in BOOLEAN
  <2>1. torn' = torn \/ torn' = TRUE
    BY DEF AppendStep, AppendRunStarted, AppendRunResumed, Write,
       AppendNodeStarted, AppendNodeCompleted, AppendNodeFailed, AppendRunFinished
  <2> QED
    BY <1>0, <2>1, Zenon DEF TypeOK
<1>6. faultsLeft' \in Nat
  <2>1. \/ faultsLeft' = faultsLeft
        \/ faultsLeft > 0 /\ faultsLeft' = faultsLeft - 1
    BY DEF AppendStep, AppendRunStarted, AppendRunResumed,
       AppendNodeStarted, AppendNodeCompleted, AppendNodeFailed, AppendRunFinished
  <2> QED
    BY <1>0, <2>1 DEF TypeOK
<1>7. QED
  BY <1>0, <1>1, <1>2, <1>3, <1>4, <1>5, <1>6, AppendFrame DEF TInv, TypeOK

\* A syncing step makes the whole log stable; SyncNodeCompleted also
\* acknowledges the node.
LEMMA SyncFrame ==
    ASSUME TInv, NEW p \in Procs, SyncStep(p)
    PROVE  /\ pc' \in [Procs -> States]
           /\ \A q \in Procs : q # p => pc'[q] = pc[q] /\ mem'[q] = mem[q]
           /\ mem' \in [Procs -> Memory]
           /\ stable' = Len(log)
           /\ SyncNodeCompleted(p) =>
                 /\ mem[p].cur \in Nodes
                 /\ mem'[p] = [mem[p] EXCEPT !.done = @ \cup {mem[p].cur},
                                             !.cur = 0, !.art = {}]
                 /\ acked' = acked \cup {mem[p].cur}
           /\ ~SyncNodeCompleted(p) => mem' = mem /\ acked' = acked
           /\ SyncRunStarted(p) => pc'[p] = "walk"
           /\ SyncRunResumed(p) => pc'[p] = "walk"
           /\ SyncNodeCompleted(p) => pc'[p] = "walk"
           /\ SyncNodeFailed(p) => pc'[p] = "fin.append"
           /\ SyncRunFinished(p) => pc'[p] = "exit"
           /\ UNCHANGED <<file, log, torn, cas, lock, faultsLeft>>
<1> USE DEF SyncStep, SyncRunStarted, SyncRunResumed, SyncNodeCompleted,
            SyncNodeFailed, SyncRunFinished
<1>0. TypeOK /\ mem[p] \in Memory
  BY DEF TInv, TypeOK
<1>1. /\ pc' \in [Procs -> States]
      /\ \A q \in Procs : q # p => pc'[q] = pc[q]
      /\ SyncRunStarted(p) => pc'[p] = "walk"
      /\ SyncRunResumed(p) => pc'[p] = "walk"
      /\ SyncNodeCompleted(p) => pc'[p] = "walk"
      /\ SyncNodeFailed(p) => pc'[p] = "fin.append"
      /\ SyncRunFinished(p) => pc'[p] = "exit"
  BY <1>0, StatesFact, GotoEffect
<1>2. CASE SyncNodeCompleted(p)
  <2>1. mem[p].cur \in Nodes
    BY <1>2 DEF TInv, CurOK
  <2> DEFINE m == [mem[p] EXCEPT !.done = @ \cup {mem[p].cur}, !.cur = 0, !.art = {}]
  <2>2. m \in Memory /\ Remember(p, m)
    BY <1>0, <1>2, <2>1, MemoryUpdates
  <2> HIDE DEF m
  <2>3. mem' \in [Procs -> Memory] /\ mem'[p] = m
        /\ \A q \in Procs : q # p => mem'[q] = mem[q]
    BY <1>0, <2>2, RememberEffect
  <2> QED
    BY <1>1, <1>2, <2>1, <2>3 DEF m, Sync
<1>3. CASE ~SyncNodeCompleted(p)
  BY <1>0, <1>1, <1>3 DEF Sync, TypeOK
<1>4. QED
  BY <1>2, <1>3

LEMMA TypeSync ==
    ASSUME TInv, NEW p \in Procs, SyncStep(p)
    PROVE  TInv'
<1>1. TypeOK'
  <2>1. torn' \in BOOLEAN
    BY SyncFrame, Zenon DEF TInv, TypeOK
  <2>2. stable' \in 0 .. Len(log') /\ log' \in Seq(Record)
    <3>1. log' = log /\ stable' = Len(log)
      BY SyncFrame
    <3> QED
      BY <3>1 DEF TInv, TypeOK
  <2>3. acked' \in SUBSET Nodes
    BY SyncFrame DEF TInv, TypeOK
  <2> QED
    BY <2>1, <2>2, <2>3, SyncFrame DEF TInv, TypeOK
<1>2. CurOK'
  <2>1. pc'[p] \notin Executing \cup {"commit.sync"}
    BY SyncFrame DEF SyncStep, Executing
  <2> QED
    BY <2>1, SyncFrame DEF TInv, CurOK
<1>3. LogNodes'
  BY SyncFrame DEF TInv, LogNodes
<1>4. QED
  BY <1>1, <1>2, <1>3 DEF TInv

\* The walking steps that touch neither the log nor its stability.
WalkingStep(p) ==
    \/ InterpNodes(p)
    \/ Dispatch(p)
    \/ PutStat(p)
    \/ PutLink(p)
    \/ PutSync(p)

\* They change the memory and control state of p, the blob store, and no more.
WalkEffect(p) ==
    /\ pc' \in [Procs -> States]
    /\ \A q \in Procs : q # p => pc'[q] = pc[q] /\ mem'[q] = mem[q]
    /\ mem' \in [Procs -> Memory]
    /\ mem'[p].seq = mem[p].seq /\ mem'[p].epoch = mem[p].epoch
    /\ mem'[p].done = mem[p].done
    /\ \/ /\ pc[p] = "walk" /\ pc'[p] = "fin.append"
          /\ mem[p].done = Nodes /\ mem'[p].status = "ok"
       \/ /\ pc[p] = "walk" /\ pc'[p] = "node.start"
          /\ mem'[p].cur \in Nodes \ mem[p].done
          /\ \A i \in 1 .. (mem'[p].cur - 1) : i \in mem[p].done
          /\ mem'[p].status = mem[p].status
       \/ /\ \/ pc[p] = "dispatch" /\ pc'[p] \in {"put", "fail.append"}
             \/ pc[p] = "put" /\ pc'[p] \in {"put", "put.link", "commit.append"}
             \/ pc[p] = "put.link" /\ pc'[p] = "put.sync"
             \/ pc[p] = "put.sync" /\ pc'[p] = "put"
          /\ mem'[p].cur = mem[p].cur
          /\ mem'[p].status = mem[p].status
    /\ UNCHANGED <<file, log, torn, stable, lock, acked>>

LEMMA MoveEffect ==
    ASSUME TypeOK, NEW p \in Procs, NEW s \in States, NEW m \in Memory,
           Goto(p, s), Remember(p, m)
    PROVE  /\ pc' \in [Procs -> States] /\ mem' \in [Procs -> Memory]
           /\ pc'[p] = s /\ mem'[p] = m
           /\ \A q \in Procs : q # p => pc'[q] = pc[q] /\ mem'[q] = mem[q]
  BY GotoEffect, RememberEffect

LEMMA WalkFrame ==
    ASSUME TInv, NEW p \in Procs, WalkingStep(p)
    PROVE  WalkEffect(p)
<1>0. TypeOK /\ mem[p] \in Memory
  BY DEF TInv, TypeOK
<1>s. UNCHANGED <<file, log, torn, stable, lock, acked>>
  BY DEF WalkingStep, InterpNodes, Dispatch, PutStat, PutLink, PutSync
<1>k. /\ mem \in [Procs -> Memory] /\ pc \in [Procs -> States]
  BY <1>0 DEF TypeOK
<1>1. CASE InterpNodes(p)
  <2>1. CASE mem[p].done = Nodes /\ Goto(p, "fin.append")
             /\ Remember(p, [mem[p] EXCEPT !.status = "ok"])
    <3> DEFINE m == [mem[p] EXCEPT !.status = "ok"]
    <3>1. /\ m \in Memory /\ Remember(p, m)
          /\ m.seq = mem[p].seq /\ m.epoch = mem[p].epoch
          /\ m.done = mem[p].done /\ m.status = "ok"
      <4>1. m \in Memory /\ Remember(p, m)
        BY <1>0, <2>1, MemoryUpdates
      <4> QED
        BY <1>0, <4>1 DEF Memory
    <3> HIDE DEF m
    <3> QED
      BY <1>0, <1>1, <1>s, <2>1, <3>1, StatesFact, MoveEffect DEF InterpNodes, WalkEffect
  <2>2. ASSUME NEW n \in Nodes \ mem[p].done, Goto(p, "node.start"),
               \A i \in 1 .. (n - 1) : i \in mem[p].done,
               Remember(p, [mem[p] EXCEPT !.cur = n])
        PROVE  WalkEffect(p)
    <3> DEFINE m == [mem[p] EXCEPT !.cur = n]
    <3>1. /\ m \in Memory /\ Remember(p, m)
          /\ m.seq = mem[p].seq /\ m.epoch = mem[p].epoch
          /\ m.done = mem[p].done /\ m.status = mem[p].status /\ m.cur = n
      BY <1>0, <2>2, MemoryUpdates, ZenonT(60) DEF Memory
    <3> HIDE DEF m
    <3>2. pc[p] = "walk" /\ "node.start" \in States
      BY <1>1, StatesFact DEF InterpNodes
    <3>3. /\ pc' \in [Procs -> States] /\ mem' \in [Procs -> Memory]
          /\ pc'[p] = "node.start" /\ mem'[p] = m
          /\ \A q \in Procs : q # p => pc'[q] = pc[q] /\ mem'[q] = mem[q]
      BY <1>0, <2>2, <3>1, <3>2, MoveEffect
    <3> QED
      BY <1>s, <2>2, <3>1, <3>2, <3>3 DEF WalkEffect
  <2> QED
    BY <1>1, <2>1, <2>2 DEF InterpNodes
<1>2. CASE Dispatch(p)
  <2>1. ASSUME NEW a \in SUBSET Refs, Goto(p, "put"),
               Remember(p, [mem[p] EXCEPT !.art = a, !.todo = a])
        PROVE  WalkEffect(p)
    <3> DEFINE m == [mem[p] EXCEPT !.art = a, !.todo = a]
    <3>1. /\ m \in Memory /\ Remember(p, m)
          /\ m.seq = mem[p].seq /\ m.epoch = mem[p].epoch
          /\ m.done = mem[p].done /\ m.status = mem[p].status /\ m.cur = mem[p].cur
      BY <1>0, <2>1, MemoryUpdates DEF Memory
    <3> HIDE DEF m
    <3> QED
      BY <1>0, <1>2, <1>s, <2>1, <3>1, StatesFact, MoveEffect DEF Dispatch, WalkEffect
  <2>2. CASE Goto(p, "fail.append") /\ mem' = mem
    BY <1>0, <1>2, <1>k, <1>s, <2>2, StatesFact, GotoEffect DEF Dispatch, WalkEffect
  <2> QED
    BY <1>2, <2>1, <2>2 DEF Dispatch
<1>3. CASE PutStat(p)
  <2>1. CASE Goto(p, "commit.append") /\ mem' = mem
    BY <1>0, <1>3, <1>k, <1>s, <2>1, StatesFact, GotoEffect DEF PutStat, WalkEffect
  <2>2. ASSUME NEW r \in mem[p].todo, pc' = pc,
               Remember(p, [mem[p] EXCEPT !.todo = @ \ {r}])
        PROVE  WalkEffect(p)
    <3> DEFINE m == [mem[p] EXCEPT !.todo = @ \ {r}]
    <3>0. r \in Refs
      BY <1>0 DEF Memory
    <3>1. /\ m \in Memory /\ Remember(p, m)
          /\ m.seq = mem[p].seq /\ m.epoch = mem[p].epoch
          /\ m.done = mem[p].done /\ m.status = mem[p].status /\ m.cur = mem[p].cur
      BY <1>0, <2>2, <3>0, MemoryUpdates, ZenonT(60) DEF Memory
    <3> HIDE DEF m
    <3> QED
      BY <1>0, <1>3, <1>k, <1>s, <2>2, <3>1, RememberEffect DEF PutStat, WalkEffect
  <2>3. ASSUME NEW r \in mem[p].todo, Goto(p, "put.link"),
               Remember(p, [mem[p] EXCEPT !.put = {r}])
        PROVE  WalkEffect(p)
    <3> DEFINE m == [mem[p] EXCEPT !.put = {r}]
    <3>0. r \in Refs
      BY <1>0 DEF Memory
    <3>1. /\ m \in Memory /\ Remember(p, m)
          /\ m.seq = mem[p].seq /\ m.epoch = mem[p].epoch
          /\ m.done = mem[p].done /\ m.status = mem[p].status /\ m.cur = mem[p].cur
      <4>1. m \in Memory /\ Remember(p, m)
        BY <1>0, <2>3, <3>0, MemoryUpdates
      <4> QED
        BY <1>0, <4>1 DEF Memory
    <3> HIDE DEF m
    <3>2. pc[p] = "put" /\ "put.link" \in States
      BY <1>3, StatesFact DEF PutStat
    <3>3. /\ pc' \in [Procs -> States] /\ mem' \in [Procs -> Memory]
          /\ pc'[p] = "put.link" /\ mem'[p] = m
          /\ \A q \in Procs : q # p => pc'[q] = pc[q] /\ mem'[q] = mem[q]
      BY <1>0, <2>3, <3>1, <3>2, MoveEffect
    <3> QED
      BY <1>s, <3>1, <3>2, <3>3 DEF WalkEffect
  <2> QED
    BY <1>3, <2>1, <2>2, <2>3 DEF PutStat
<1>4. CASE PutLink(p)
  BY <1>0, <1>4, <1>k, <1>s, StatesFact, GotoEffect DEF PutLink, WalkEffect
<1>5. CASE PutSync(p)
  <2> DEFINE m == [mem[p] EXCEPT !.todo = @ \ mem[p].put, !.put = {}]
  <2>1. /\ m \in Memory /\ Remember(p, m)
        /\ m.seq = mem[p].seq /\ m.epoch = mem[p].epoch
        /\ m.done = mem[p].done /\ m.status = mem[p].status /\ m.cur = mem[p].cur
    BY <1>0, <1>5, MemoryUpdates, ZenonT(60) DEF Memory, PutSync
  <2>2. Goto(p, "put") /\ pc[p] = "put.sync"
    BY <1>5 DEF PutSync
  <2> HIDE DEF m
  <2> QED
    BY <1>0, <1>s, <2>1, <2>2, StatesFact, MoveEffect DEF WalkEffect
<1>6. QED
  BY <1>1, <1>2, <1>3, <1>4, <1>5 DEF WalkingStep

LEMMA TypeWalk ==
    ASSUME TInv, NEW p \in Procs, WalkingStep(p)
    PROVE  TInv'
<1>0. TypeOK /\ WalkEffect(p)
  BY WalkFrame DEF TInv
<1>1. cas' \in [Refs -> {"absent", "linked", "durable"}]
  BY <1>0 DEF TypeOK, WalkingStep, InterpNodes, Dispatch, PutStat, PutLink, PutSync
<1>2. faultsLeft' \in Nat
  <2>1. \/ faultsLeft' = faultsLeft
        \/ faultsLeft > 0 /\ faultsLeft' = faultsLeft - 1
    BY DEF WalkingStep, InterpNodes, Dispatch, PutStat, PutLink, PutSync
  <2> QED
    BY <1>0, <2>1 DEF TypeOK
<1>3. torn' \in BOOLEAN
  BY <1>0, Zenon DEF WalkEffect, TypeOK
<1>4. TypeOK'
  BY <1>0, <1>1, <1>2, <1>3 DEF WalkEffect, TypeOK
<1>5. CurOK'
  BY <1>0 DEF WalkEffect, CurOK, TInv, Executing
<1>6. LogNodes'
  BY <1>0 DEF WalkEffect, LogNodes, TInv
<1>7. QED
  BY <1>4, <1>5, <1>6 DEF TInv

\* The remaining steps of a process: claiming, locking, opening, folding,
\* exiting and crashing.
ControlStep(p) ==
    \/ OpenLogExclusive(p)
    \/ RunAcquire(p)
    \/ RunRemove(p)
    \/ ResumeStat(p)
    \/ ResumeAcquire(p)
    \/ OpenLogExisting(p)
    \/ FoldLog(p)
    \/ FinishExit(p)
    \/ Crash(p)

Opened == [Blank EXCEPT !.seq = IF log = <<>> THEN 0 ELSE log[Len(log)].seq,
                        !.epoch = IF log = <<>> THEN 0 ELSE log[Len(log)].epoch + 1]

\* They move p, and leave the blob store and the acknowledgements alone.
ControlEffect(p) ==
    /\ pc' \in [Procs -> States]
    /\ \A q \in Procs : q # p => pc'[q] = pc[q] /\ mem'[q] = mem[q]
    /\ mem' \in [Procs -> Memory]
    /\ UNCHANGED <<cas, acked>>
    /\ \/ /\ pc[p] = "idle" /\ pc'[p] = "run.lock" /\ mem'[p] = Blank
          /\ file = "absent" /\ file' = "linked" /\ log' = <<>> /\ torn' = FALSE /\ stable' = 0
          /\ lock' = lock
       \/ /\ pc[p] = "run.lock" /\ mem' = mem
          /\ UNCHANGED <<file, log, torn, stable>>
          /\ \/ lock = NoProc /\ lock' = p /\ pc'[p] = "run.start"
             \/ lock # NoProc /\ lock' = lock /\ pc'[p] = "run.remove"
       \/ /\ pc[p] = "run.remove" /\ Exit(p)
          /\ file' = "absent" /\ log' = <<>> /\ torn' = FALSE /\ stable' = 0
       \/ /\ pc[p] = "idle" /\ pc'[p] = "res.lock" /\ mem' = mem
          /\ file # "absent" /\ UNCHANGED <<file, log, torn, stable, lock>>
       \/ /\ pc[p] = "res.lock" /\ mem' = mem
          /\ UNCHANGED <<file, log, torn, stable>>
          /\ \/ lock = NoProc /\ lock' = p /\ pc'[p] = "res.open"
             \/ lock # NoProc /\ lock' = lock /\ pc'[p] = "idle"
       \/ /\ pc[p] = "res.open" /\ pc'[p] = "res.fold" /\ mem'[p] = Opened
          /\ file # "absent" /\ torn' = FALSE /\ UNCHANGED <<file, log, stable, lock>>
       \/ /\ pc[p] = "res.fold" /\ pc'[p] = "res.append"
          /\ mem'[p] = [mem[p] EXCEPT !.done = CompletedIn(log)]
          /\ Foldable
          /\ UNCHANGED <<file, log, torn, stable, lock>>
       \/ /\ Exit(p) /\ pc[p] # "idle"
          /\ UNCHANGED <<file, log, stable>>
          /\ \/ torn' = torn
             \/ pc[p] \in Appending

LEMMA OpenedMemory ==
    ASSUME TypeOK
    PROVE  Opened \in Memory
<1>1. log # <<>> => log[Len(log)] \in Record
  BY DEF TypeOK
<1>2. /\ (IF log = <<>> THEN 0 ELSE log[Len(log)].seq) \in Nat
      /\ (IF log = <<>> THEN 0 ELSE log[Len(log)].epoch + 1) \in Nat
  BY <1>1 DEF Record
<1>3. QED
  BY <1>2, OpenedType DEF Opened

LEMMA ControlFrame ==
    ASSUME TInv, NEW p \in Procs, ControlStep(p)
    PROVE  ControlEffect(p)
<1>0. TypeOK /\ mem[p] \in Memory
  BY DEF TInv, TypeOK
<1>k. /\ mem \in [Procs -> Memory] /\ pc \in [Procs -> States]
  BY <1>0 DEF TypeOK
<1>x. Exit(p) => /\ pc' \in [Procs -> States]
                 /\ \A q \in Procs : q # p => pc'[q] = pc[q] /\ mem'[q] = mem[q]
                 /\ mem' \in [Procs -> Memory]
  BY <1>0, ExitEffect
<1>1. CASE OpenLogExclusive(p)
  <2>1. Goto(p, "run.lock") /\ Remember(p, Blank)
    BY <1>1 DEF OpenLogExclusive
  <2>2. /\ pc' \in [Procs -> States] /\ mem' \in [Procs -> Memory]
        /\ pc'[p] = "run.lock" /\ mem'[p] = Blank
        /\ \A q \in Procs : q # p => pc'[q] = pc[q] /\ mem'[q] = mem[q]
    BY <1>0, <2>1, StatesFact, BlankType, MoveEffect
  <2> QED
    BY <1>1, <2>2 DEF OpenLogExclusive, ControlEffect
<1>2. CASE RunAcquire(p)
  BY <1>0, <1>2, <1>k, StatesFact, GotoEffect DEF RunAcquire, Acquire, ControlEffect
<1>3. CASE RunRemove(p)
  BY <1>3, <1>x DEF RunRemove, ControlEffect
<1>4. CASE ResumeStat(p)
  BY <1>0, <1>4, <1>k, StatesFact, GotoEffect DEF ResumeStat, ControlEffect
<1>5. CASE ResumeAcquire(p)
  BY <1>0, <1>5, <1>k, StatesFact, GotoEffect DEF ResumeAcquire, Acquire, ControlEffect
<1>6. CASE OpenLogExisting(p)
  <2>1. CASE file = "absent"
    BY <1>6, <1>x, <2>1 DEF OpenLogExisting, ControlEffect
  <2>2. CASE file # "absent"
    <3>1. Goto(p, "res.fold") /\ Remember(p, Opened)
      BY <1>6, <2>2 DEF OpenLogExisting, Opened
    <3>2. /\ pc' \in [Procs -> States] /\ mem' \in [Procs -> Memory]
          /\ pc'[p] = "res.fold" /\ mem'[p] = Opened
          /\ \A q \in Procs : q # p => pc'[q] = pc[q] /\ mem'[q] = mem[q]
      BY <1>0, <3>1, StatesFact, OpenedMemory, MoveEffect
    <3> QED
      BY <1>6, <2>2, <3>2 DEF OpenLogExisting, ControlEffect
  <2> QED
    BY <2>1, <2>2
<1>7. CASE FoldLog(p)
  <2>1. CASE Exit(p)
    BY <1>7, <1>x, <2>1 DEF FoldLog, ControlEffect
  <2>2. CASE ~Exit(p)
    <3> DEFINE m == [mem[p] EXCEPT !.done = CompletedIn(log)]
    <3>0. m \in Memory
      BY <1>0, MemoryUpdates DEF TInv, LogNodes
    <3> HIDE DEF m
    <3>1. Goto(p, "res.append") /\ Remember(p, m) /\ Foldable /\ lock' = lock
      BY <1>7, <2>2 DEF FoldLog, m
    <3>2. /\ pc' \in [Procs -> States] /\ mem' \in [Procs -> Memory]
          /\ pc'[p] = "res.append" /\ mem'[p] = m
          /\ \A q \in Procs : q # p => pc'[q] = pc[q] /\ mem'[q] = mem[q]
      BY <1>0, <3>0, <3>1, StatesFact, MoveEffect
    <3> QED
      BY <1>7, <3>1, <3>2 DEF FoldLog, ControlEffect, m
  <2> QED
    BY <2>1, <2>2
<1>8. CASE FinishExit(p)
  BY <1>8, <1>x DEF FinishExit, ControlEffect
<1>9. CASE Crash(p)
  BY <1>9, <1>x DEF Crash, ControlEffect
<1>10. QED
  BY <1>1, <1>2, <1>3, <1>4, <1>5, <1>6, <1>7, <1>8, <1>9 DEF ControlStep

LEMMA TypeControl ==
    ASSUME TInv, NEW p \in Procs, ControlStep(p)
    PROVE  TInv'
<1>0. TypeOK /\ ControlEffect(p)
  BY ControlFrame DEF TInv
<1>1. torn' \in BOOLEAN
  <2>1. torn' = torn \/ torn' = TRUE \/ torn' = FALSE
    BY DEF ControlStep, OpenLogExclusive, RunAcquire, RunRemove, ResumeStat,
           ResumeAcquire, OpenLogExisting, FoldLog, FinishExit, Crash
  <2> QED
    BY <1>0, <2>1, Zenon DEF TypeOK
<1>2. faultsLeft' \in Nat
  <2>1. \/ faultsLeft' = faultsLeft
        \/ faultsLeft > 0 /\ faultsLeft' = faultsLeft - 1
    BY DEF ControlStep, OpenLogExclusive, RunAcquire, RunRemove, ResumeStat,
           ResumeAcquire, OpenLogExisting, FoldLog, FinishExit, Crash
  <2> QED
    BY <1>0, <2>1 DEF TypeOK
<1>3. /\ log' \in Seq(Record) /\ stable' \in 0 .. Len(log')
      /\ log' \in {log, <<>>}
  <2>1. \/ log' = log /\ stable' = stable
        \/ log' = <<>> /\ stable' = 0
    BY <1>0 DEF ControlEffect
  <2>2. CASE log' = log /\ stable' = stable
    BY <1>0, <2>2 DEF TypeOK
  <2>3. CASE log' = <<>> /\ stable' = 0
    BY <2>3
  <2> QED
    BY <2>1, <2>2, <2>3
<1>4. lock' \in Procs \cup {NoProc} /\ file' \in {"absent", "linked", "durable"}
  BY <1>0, ExitEffect DEF ControlEffect, TypeOK
<1>5. CurOK'
  <2>1. pc'[p] \notin Executing \cup {"commit.sync"}
    <3>1. Exit(p) => pc'[p] = "idle"
      BY <1>0, ExitEffect
    <3> QED
      BY <1>0, <3>1 DEF ControlEffect, Executing
  <2> QED
    BY <1>0, <2>1 DEF ControlEffect, CurOK, TInv
<1>6. LogNodes'
  BY <1>3 DEF LogNodes, TInv, CompletedIn, OfType
<1>7. QED
  BY <1>0, <1>1, <1>2, <1>3, <1>4, <1>5, <1>6 DEF ControlEffect, TInv, TypeOK

\* The environment's steps.  A power failure keeps a prefix of the log that
\* contains its synced part, unless the whole file was never linked durably.
LEMMA PowerLog ==
    ASSUME TypeOK, PowerFailure
    PROVE  /\ log' \in Seq(Record)
           /\ Len(log') \in 0 .. Len(log)
           /\ \A i \in 1 .. Len(log') : log'[i] = log[i]
           /\ CompletedIn(log') \subseteq CompletedIn(log)
           /\ stable' = Len(log')
           /\ "dirent" \notin Faults => stable <= Len(log')
           /\ file' = "absent" => log' = <<>> \/ file = "absent"
<1>1. CASE log' = <<>> /\ stable' = 0 /\ "dirent" \in Faults
  BY <1>1 DEF TypeOK, CompletedIn, OfType
<1>2. CASE \E k \in stable .. Len(log) :
             /\ log' = SubSeq(log, 1, k) /\ stable' = k
             /\ file' = IF file = "absent" THEN "absent" ELSE "durable"
  <2>1. PICK k \in stable .. Len(log) :
             /\ log' = SubSeq(log, 1, k) /\ stable' = k
             /\ file' = IF file = "absent" THEN "absent" ELSE "durable"
    BY <1>2
  <2>2. k \in 0 .. Len(log) /\ stable <= k
    BY DEF TypeOK
  <2>3. log \in Seq(Record)
    BY DEF TypeOK
  <2> QED
    BY <2>1, <2>2, <2>3, PrefixCompleted
<1>3. QED
  BY <1>1, <1>2 DEF PowerFailure

LEMMA TypeEnv ==
    ASSUME TInv, \/ \E r \in Refs : ForeignPut(r)
                 \/ PowerFailure
    PROVE  TInv'
<1>0. TypeOK
  BY DEF TInv
<1>1. CASE \E r \in Refs : ForeignPut(r)
  <2>1. torn' \in BOOLEAN
    BY <1>0, <1>1, Zenon DEF ForeignPut, TypeOK
  <2>2. stable' \in 0 .. Len(log')
    BY <1>0, <1>1 DEF ForeignPut, TypeOK
  <2>3. TypeOK'
    BY <1>0, <1>1, <2>1, <2>2 DEF ForeignPut, TypeOK
  <2>4. CurOK' /\ LogNodes'
    BY <1>1 DEF ForeignPut, TInv, CurOK, LogNodes
  <2> QED
    BY <2>3, <2>4 DEF TInv
<1>2. CASE PowerFailure
  <2>1. torn' \in BOOLEAN
    <3>1. torn' \in BOOLEAN \/ torn' \in {FALSE} \/ torn' = FALSE
      BY <1>2 DEF PowerFailure
    <3> QED
      BY <3>1, Zenon
  <2>2. /\ log' \in Seq(Record) /\ CompletedIn(log') \subseteq CompletedIn(log)
    BY <1>0, <1>2, PowerLog
  <2>3. stable' \in 0 .. Len(log')
    <3>1. stable' = Len(log')
      BY <1>0, <1>2, PowerLog
    <3> QED
      BY <2>2, <3>1
  <2>4. faultsLeft' \in Nat
    BY <1>0, <1>2 DEF PowerFailure, TypeOK
  <2>5. /\ pc' = [q \in Procs |-> "idle"] /\ mem' = [q \in Procs |-> Blank]
        /\ lock' = NoProc /\ acked' = acked
        /\ file' \in {"absent", "durable"}
    BY <1>2 DEF PowerFailure
  <2>6. cas' \in [Refs -> {"absent", "linked", "durable"}]
    BY <1>2 DEF PowerFailure
  <2>7. TypeOK'
    BY <1>0, <2>1, <2>2, <2>3, <2>4, <2>5, <2>6, StatesFact, BlankType DEF TypeOK
  <2>8. CurOK' /\ LogNodes'
    BY <2>2, <2>5 DEF TInv, CurOK, LogNodes, Executing
  <2> QED
    BY <2>7, <2>8 DEF TInv
<1>3. QED
  BY <1>1, <1>2

\* How the proofs split the next-state relation.
LEMMA NextCases ==
    ASSUME Next
    PROVE  \/ \E p \in Procs : \/ AppendStep(p)
                               \/ SyncStep(p)
                               \/ WalkingStep(p)
                               \/ ControlStep(p)
           \/ \E r \in Refs : ForeignPut(r)
           \/ PowerFailure
  BY Zenon DEF Next, RunStep, ResumeStep, WalkStep, AppendStep, SyncStep,
               WalkingStep, ControlStep

LEMMA TypeInit == Init => TInv
<1> SUFFICES ASSUME Init PROVE TInv
  OBVIOUS
<1>1. torn \in BOOLEAN
  BY Zenon DEF Init
<1>2. log \in Seq(Record) /\ stable \in 0 .. Len(log)
  BY DEF Init
<1>3. CurOK
  BY DEF Init, CurOK, Executing
<1>4. LogNodes
  BY DEF Init, LogNodes, CompletedIn, OfType
<1>5. TypeOK
  BY <1>1, <1>2, StatesFact, BlankType, ConstantsAssumption DEF Init, TypeOK
<1>6. QED
  BY <1>3, <1>4, <1>5 DEF TInv

LEMMA TypeNext == TInv /\ [Next]_vars => TInv'
<1> SUFFICES ASSUME TInv, [Next]_vars PROVE TInv'
  OBVIOUS
<1>1. CASE Next
  BY <1>1, NextCases, TypeAppend, TypeSync, TypeWalk, TypeControl, TypeEnv
<1>2. CASE UNCHANGED vars
  BY <1>2, Zenon DEF vars, TInv, TypeOK, CurOK, LogNodes, CompletedIn, OfType
<1>3. QED
  BY <1>1, <1>2

LEMMA TypeInvariant == Spec => []TInv
  BY TypeInit, TypeNext, PTL DEF Spec

\* Type correctness of the journal, for all constants and all faults: in
\* particular the fsynced length never exceeds the readable log, and only
\* nodes of the workflow are ever acknowledged.
THEOREM TypeCorrect == Spec => []TypeOK
<1>1. TInv => TypeOK
  BY DEF TInv
<1>2. QED
  BY <1>1, TypeInvariant, PTL

-----------------------------------------------------------------------------
(* The inductive invariant, in the layers in which it is proved.           *)

\* The flock: whoever is past the lock holds it.
LockInv == \A p \in Procs : pc[p] \in Driving => lock = p

\* A log that is being created is empty and has one creator; a walking
\* process has a log with a run.started in it, so nobody can be removing it.
CreateInv ==
    /\ file = "absent" => log = <<>> /\ ~torn
    /\ \A p \in Procs : pc[p] \in Creating =>
          /\ file # "absent" /\ log = <<>> /\ ~torn /\ mem[p] = Blank
          /\ \A q \in Procs : pc[q] \in Creating => q = p
    /\ \A p \in Procs : pc[p] \in Walking => file # "absent" /\ log # <<>>
    /\ \A p \in Procs : pc[p] \in {"idle", "res.lock", "res.open"} => mem[p] = Blank

\* Blobs are in place before the record that names them is written.
PutInv ==
    \A p \in Procs :
        /\ pc[p] \in {"put", "put.link", "put.sync", "commit.append"} =>
              \A r \in mem[p].art \ mem[p].todo : Present(r)
        /\ pc[p] = "put.sync" => \A r \in mem[p].put : Present(r)
        /\ pc[p] = "commit.append" => mem[p].todo = {}

\* A process that has opened the log, or walks, sees no torn frame.
CleanInv == \A p \in Procs : pc[p] \in Walking \cup {"res.fold"} => ~torn

\* The writer's sequence number and epoch continue those of the log.
SeqInv ==
    /\ SeqAndEpoch
    /\ \A p \in Procs : pc[p] \in Walking \cup {"res.fold"} =>
          /\ mem[p].seq = Len(log)
          /\ \A i \in 1 .. Len(log) : log[i].epoch <= mem[p].epoch
    /\ \A p \in Procs : pc[p] \in {"res.fold", "res.append"} =>
          \A i \in 1 .. Len(log) : log[i].epoch < mem[p].epoch

\* The in-memory RunState of p mirrors the log.
Mirror(p) ==
    /\ pc[p] \in Walking \ {"commit.sync"} => mem[p].done = CompletedIn(log)
    /\ pc[p] = "commit.sync" => CompletedIn(log) = mem[p].done \cup {mem[p].cur}
    /\ pc[p] \in Executing \cup {"commit.sync"} =>
          /\ mem[p].cur \notin mem[p].done
          /\ \A i \in 1 .. (mem[p].cur - 1) : i \in mem[p].done
    /\ mem[p].status = "ok" =>
          pc[p] \in {"fin.append", "fin.sync", "exit"} /\ mem[p].done = Nodes
    /\ pc[p] = "res.fold" => mem[p].done = {}

MirrorInv == \A p \in Procs : Mirror(p)

\* The node.completed record of n at place i.
CompletedAt(n, i) == log[i].type = "node.completed" /\ log[i].node = n

\* Acknowledged nodes lie in the synced prefix, and a run.finished{ok} is
\* preceded by the completion of every node.
AckInv == \A n \in acked : \E i \in 1 .. stable : CompletedAt(n, i)

FinishInv ==
    \A i \in OfType(log, "run.finished") : log[i].status = "ok" =>
        \A n \in Nodes : \E j \in 1 .. (i - 1) : CompletedAt(n, j)


-----------------------------------------------------------------------------
(* Layer 1: the lock and the creation of the log.                          *)

\* Appending, syncing and walking are done by a process past the lock.
LEMMA WriterStep ==
    ASSUME TInv, NEW p \in Procs, AppendStep(p) \/ SyncStep(p) \/ WalkingStep(p)
    PROVE  /\ pc[p] \in Driving
           /\ pc[p] \in Walking \/ AppendRunStarted(p)
           /\ AppendRunStarted(p) => pc[p] = "run.start"
           /\ pc'[p] \in Walking
           /\ UNCHANGED <<file, lock>>
           /\ \A q \in Procs : q # p => pc'[q] = pc[q] /\ mem'[q] = mem[q]
<1>0. TypeOK
  BY DEF TInv
<1>1. CASE AppendStep(p)
  <2>1. /\ pc[p] \in Driving
        /\ pc[p] \in Walking \/ AppendRunStarted(p)
        /\ AppendRunStarted(p) => pc[p] = "run.start"
    BY <1>1 DEF AppendStep, AppendRunStarted, AppendRunResumed, AppendNodeStarted,
                AppendNodeCompleted, AppendNodeFailed, AppendRunFinished,
                Driving, Walking, Executing
  <2>2. pc'[p] \in Walking
    BY <1>0, <1>1, AppendFrame DEF AppendStep, Walking, Executing
  <2> QED
    BY <1>0, <1>1, <2>1, <2>2, AppendFrame
<1>2. CASE SyncStep(p)
  <2>1. pc[p] \in Walking \cap Driving /\ pc[p] # "run.start"
    BY <1>2 DEF SyncStep, SyncRunStarted, SyncRunResumed, SyncNodeCompleted,
                SyncNodeFailed, SyncRunFinished, Driving, Walking, Executing
  <2>2. pc'[p] \in Walking
    BY <1>2, SyncFrame DEF SyncStep, Walking
  <2> QED
    BY <1>2, <2>1, <2>2, SyncFrame DEF AppendRunStarted
<1>3. CASE WalkingStep(p)
  <2>1. WalkEffect(p)
    BY <1>3, WalkFrame
  <2>2. pc[p] \in Walking \cap Driving /\ pc[p] # "run.start" /\ pc'[p] \in Walking
    BY <2>1 DEF WalkEffect, Driving, Walking, Executing
  <2> QED
    BY <2>1, <2>2 DEF AppendRunStarted, WalkEffect
<1>4. QED
  BY <1>1, <1>2, <1>3

LEMMA LockNext == TInv /\ LockInv /\ [Next]_vars => LockInv'
<1> SUFFICES ASSUME TInv, LockInv, [Next]_vars PROVE LockInv'
  OBVIOUS
<1>0. TypeOK /\ NoProc \notin Procs
  BY ConstantsAssumption DEF TInv
<1>1. ASSUME NEW p \in Procs, AppendStep(p) \/ SyncStep(p) \/ WalkingStep(p)
      PROVE  LockInv'
  BY <1>1, WriterStep DEF LockInv
<1>2. ASSUME NEW p \in Procs, ControlStep(p)
      PROVE  LockInv'
  <2>1. ControlEffect(p)
    BY <1>2, ControlFrame
  <2>2. CASE Exit(p)
    <3>1. pc'[p] \notin Driving
      BY <1>0, <2>2, ExitEffect DEF Driving, Walking, Executing
    <3> QED
      BY <1>0, <2>2, <3>1, ExitEffect DEF LockInv
  <2>3. CASE ~Exit(p)
    <3>1. \/ lock' = p /\ lock = NoProc
          \/ lock' = lock /\ (pc'[p] \in Driving => pc[p] \in Driving)
      BY <2>1, <2>3 DEF ControlEffect, Driving, Walking, Executing
    <3> QED
      BY <1>0, <2>1, <3>1 DEF LockInv, ControlEffect
  <2> QED
    BY <2>2, <2>3
<1>3. CASE \E r \in Refs : ForeignPut(r)
  BY <1>3 DEF ForeignPut, LockInv
<1>4. CASE PowerFailure
  BY <1>4 DEF PowerFailure, LockInv, Driving, Walking, Executing
<1>5. CASE UNCHANGED vars
  BY <1>5 DEF vars, LockInv
<1>6. QED
  BY <1>1, <1>2, <1>3, <1>4, <1>5, NextCases

\* Two processes are never both past the run lock: at most one of them can
\* append to, repair or fold the log, whatever the others do and however
\* they crash.
THEOREM SingleWriterHolds == Spec => []SingleWriter
<1>1. Init => LockInv
  BY DEF Init, LockInv, Driving, Walking, Executing
<1>2. LockInv => SingleWriter
  BY DEF LockInv, SingleWriter
<1>3. QED
  BY <1>1, <1>2, TypeInvariant, LockNext, PTL DEF Spec

\* Control states of different kinds.
LEMMA StateKinds ==
    /\ "idle" \notin Driving \cup Creating
    /\ "res.lock" \notin Driving \cup Creating
    /\ Creating \cap Walking = {}
    /\ Walking \subseteq Driving
    /\ \A s \in {"res.open", "res.fold"} : s \notin Creating \cup Walking /\ s \in Driving
    /\ \A s \in {"idle", "res.lock", "res.open", "res.fold"} : s \notin Creating \cup Walking
    /\ \A s \in {"run.lock", "run.remove"} : s \in Creating /\ s \notin Driving
    /\ "run.start" \in Creating \cap Driving
    /\ "res.append" \in Walking
    /\ \A s \in Appending : s = "run.start" \/ s \in Walking
  BY DEF Driving, Walking, Executing, Creating, Appending

LEMMA AppendGrows ==
    ASSUME TInv, NEW p \in Procs, AppendStep(p)
    PROVE  /\ log # <<>> => log' # <<>>
           /\ AppendRunStarted(p) /\ ~torn => log' # <<>>
<1>0. TypeOK /\ log \in Seq(Record)
  BY DEF TInv, TypeOK
<1>1. \/ log' = log /\ AppendNodeStarted(p)
      \/ torn /\ log' = log
      \/ \E e \in Record : log' = Append(log, e)
  BY <1>0, AppendRecord
<1>2. ASSUME NEW e \in Record, log' = Append(log, e) PROVE log' # <<>>
  BY <1>0, <1>2
<1>3. AppendRunStarted(p) => ~AppendNodeStarted(p)
  BY DEF AppendRunStarted, AppendNodeStarted
<1>4. QED
  BY <1>1, <1>2, <1>3

LEMMA CreateNext == TInv /\ LockInv /\ CreateInv /\ [Next]_vars => CreateInv'
<1> SUFFICES ASSUME TInv, LockInv, CreateInv, [Next]_vars PROVE CreateInv'
  OBVIOUS
<1>0. TypeOK /\ NoProc \notin Procs
  BY ConstantsAssumption DEF TInv
<1>1. ASSUME NEW p \in Procs, AppendStep(p) \/ SyncStep(p) \/ WalkingStep(p)
      PROVE  CreateInv'
  <2>1. /\ file # "absent"
        /\ \A q \in Procs : pc[q] \in Creating => q = p
        /\ pc'[p] \in Walking /\ pc'[p] \notin Creating
        /\ \A q \in Procs : q # p => pc'[q] = pc[q] /\ mem'[q] = mem[q]
        /\ file' = file
    BY <1>1, WriterStep, StateKinds DEF CreateInv
  <2>2. log' # <<>>
    <3>1. CASE AppendStep(p)
      <4>1. log # <<>> \/ (AppendRunStarted(p) /\ ~torn)
        BY <3>1, WriterStep, StateKinds DEF CreateInv
      <4> QED
        BY <3>1, <4>1, AppendGrows
    <3>2. CASE SyncStep(p) \/ WalkingStep(p)
      <4>1. log' = log
        BY <3>2, SyncFrame, WalkFrame DEF WalkEffect
      <4>2. ~AppendRunStarted(p)
        BY <3>2 DEF AppendRunStarted, SyncStep, SyncRunStarted, SyncRunResumed,
           SyncNodeCompleted, SyncNodeFailed, SyncRunFinished,
           WalkingStep, InterpNodes, Dispatch, PutStat, PutLink, PutSync
      <4> QED
        BY <1>1, <4>1, <4>2, WriterStep DEF CreateInv
    <3> QED
      BY <1>1, <3>1, <3>2
  <2> QED
    BY <2>1, <2>2, StateKinds DEF CreateInv
<1>2. ASSUME NEW p \in Procs, ControlStep(p)
      PROVE  CreateInv'
  <2>1. ControlEffect(p)
    BY <1>2, ControlFrame
  <2>2. CASE /\ Exit(p) /\ log' = log /\ file' = file
             /\ torn' = torn \/ pc[p] \in Appending
    <3>1. pc'[p] = "idle" /\ mem'[p] = Blank
      BY <1>0, <2>2, ExitEffect
    <3>2. torn' = torn \/ pc[p] = "run.start" \/ pc[p] \in Walking
      BY <2>2, StateKinds
    <3>3. CASE torn' = torn
      BY <2>1, <2>2, <3>1, <3>3, StateKinds DEF CreateInv, ControlEffect
    <3>4. CASE pc[p] = "run.start"
      BY <2>1, <2>2, <3>1, <3>4, StateKinds DEF CreateInv, ControlEffect
    <3>5. CASE pc[p] \in Walking
      BY <2>1, <2>2, <3>1, <3>5, StateKinds DEF CreateInv, ControlEffect
    <3> QED
      BY <3>2, <3>3, <3>4, <3>5
  <2>3. CASE pc[p] = "run.remove" /\ Exit(p) /\ file' = "absent" /\ log' = <<>> /\ torn' = FALSE
    <3>1. pc'[p] = "idle" /\ mem'[p] = Blank
      BY <1>0, <2>3, ExitEffect
    <3> QED
      BY <2>1, <2>3, <3>1, StateKinds DEF CreateInv, ControlEffect
  <2>4. CASE ~Exit(p) /\ pc[p] = "idle" /\ file = "absent"
    BY <2>1, <2>4, StateKinds DEF CreateInv, ControlEffect
  <2>5. CASE ~Exit(p) /\ pc[p] = "idle" /\ file # "absent"
    BY <2>1, <2>5, StateKinds DEF CreateInv, ControlEffect
  <2>6. CASE ~Exit(p) /\ pc[p] \in {"run.lock", "res.lock"}
    BY <2>1, <2>6, StateKinds DEF CreateInv, ControlEffect
  <2>7. CASE ~Exit(p) /\ pc[p] = "res.open"
    BY <2>1, <2>7, StateKinds DEF CreateInv, ControlEffect
  <2>8. CASE ~Exit(p) /\ pc[p] = "res.fold"
    BY <2>1, <2>8, StateKinds DEF CreateInv, ControlEffect, Foldable
  <2>9. \/ /\ Exit(p) /\ log' = log /\ file' = file
           /\ torn' = torn \/ pc[p] \in Appending
        \/ pc[p] = "run.remove" /\ Exit(p) /\ file' = "absent" /\ log' = <<>> /\ torn' = FALSE
        \/ ~Exit(p) /\ pc[p] \in {"idle", "run.lock", "res.lock", "res.open", "res.fold"}
    <3>1. Exit(p) => pc'[p] = "idle"
      BY <1>0, ExitEffect
    <3> QED
      BY <2>1, <3>1 DEF ControlEffect
  <2> QED
    BY <2>2, <2>3, <2>4, <2>5, <2>6, <2>7, <2>8, <2>9
<1>3. CASE \E r \in Refs : ForeignPut(r)
  BY <1>3 DEF ForeignPut, CreateInv
<1>4. CASE PowerFailure
  <2>1. \A q \in Procs : pc'[q] = "idle" /\ mem'[q] = Blank
    BY <1>4 DEF PowerFailure
  <2>2. file' = "absent" => log' = <<>> /\ ~torn'
    <3>1. CASE log' = <<>> /\ torn' = FALSE
      BY <3>1
    <3>2. CASE \E k \in stable .. Len(log) :
             /\ log' = SubSeq(log, 1, k)
             /\ torn' \in IF k < Len(log) \/ torn THEN BOOLEAN ELSE {FALSE}
             /\ file' = IF file = "absent" THEN "absent" ELSE "durable"
      <4>1. SUFFICES ASSUME file = "absent" PROVE log' = <<>> /\ ~torn'
        BY <3>2
      <4>2. log = <<>> /\ ~torn
        BY <4>1 DEF CreateInv
      <4>3. log' = <<>>
        BY <1>0, <1>4, <4>2, PowerLog DEF TypeOK
      <4>4. PICK k \in stable .. Len(log) :
               torn' \in IF k < Len(log) \/ torn THEN BOOLEAN ELSE {FALSE}
        BY <3>2
      <4>5. ~(k < Len(log))
        BY <1>0, <4>2 DEF TypeOK
      <4> QED
        BY <4>2, <4>3, <4>4, <4>5
    <3> QED
      BY <1>4, <3>1, <3>2 DEF PowerFailure
  <2> QED
    BY <2>1, <2>2, StateKinds DEF CreateInv
<1>5. CASE UNCHANGED vars
  BY <1>5 DEF vars, CreateInv
<1>6. QED
  BY <1>1, <1>2, <1>3, <1>4, <1>5, NextCases

\* What every reachable state satisfies whatever the faults.
BaseInv == TInv /\ LockInv /\ CreateInv

LEMMA BaseInit == Init => BaseInv
<1>1. Init => LockInv
  BY DEF Init, LockInv, Driving, Walking, Executing
<1>2. Init => CreateInv
  BY StateKinds DEF Init, CreateInv
<1>3. QED
  BY <1>1, <1>2, TypeInit DEF BaseInv

LEMMA BaseNext == BaseInv /\ [Next]_vars => BaseInv'
  BY TypeNext, LockNext, CreateNext DEF BaseInv

LEMMA BaseInvariant == Spec => []BaseInv
  BY BaseInit, BaseNext, PTL DEF Spec

\* The fsynced prefix survives every step, unless a power failure can unlink
\* a log whose directory entry was never made durable.
THEOREM SyncedPrefixKeptHolds ==
    ASSUME "dirent" \notin Faults
    PROVE  Spec => SyncedPrefixKept
<1>1. BaseInv /\ [Next]_vars =>
         [/\ stable <= Len(log')
          /\ \A i \in 1 .. stable : log'[i] = log[i]]_vars
  <2> SUFFICES ASSUME BaseInv, Next
               PROVE  /\ stable <= Len(log')
                      /\ \A i \in 1 .. stable : log'[i] = log[i]
    OBVIOUS
  <2>0. TInv /\ TypeOK /\ log \in Seq(Record) /\ stable \in 0 .. Len(log) /\ CreateInv
    BY DEF BaseInv, TInv, TypeOK
  <2>1. ASSUME NEW p \in Procs, AppendStep(p)
        PROVE  /\ stable <= Len(log')
               /\ \A i \in 1 .. stable : log'[i] = log[i]
    <3>1. log' = log \/ \E e \in Record : log' = Append(log, e)
      BY <2>0, <2>1, AppendRecord
    <3>2. ASSUME NEW e \in Record, log' = Append(log, e)
          PROVE  Len(log') = Len(log) + 1 /\ \A i \in 1 .. Len(log) : log'[i] = log[i]
      BY <2>0, <3>2, AppendCompleted
    <3> QED
      BY <2>0, <3>1, <3>2
  <2>2. ASSUME NEW p \in Procs, SyncStep(p) \/ WalkingStep(p)
        PROVE  log' = log
    BY <2>0, <2>2, SyncFrame, WalkFrame DEF WalkEffect
  <2>3. ASSUME NEW p \in Procs, ControlStep(p)
        PROVE  log' = log \/ stable = 0
    <3>1. ControlEffect(p)
      BY <2>0, <2>3, ControlFrame
    <3>2. log = <<>> => stable = 0
      BY <2>0
    <3>3. pc[p] = "run.remove" => log = <<>>
      BY <2>0, StateKinds DEF CreateInv
    <3> QED
      BY <2>0, <3>1, <3>2, <3>3 DEF ControlEffect, CreateInv
  <2>4. CASE \E r \in Refs : ForeignPut(r)
    BY <2>0, <2>4 DEF ForeignPut
  <2>5. CASE PowerFailure
    <3>1. /\ Len(log') \in 0 .. Len(log) /\ stable <= Len(log')
          /\ \A i \in 1 .. Len(log') : log'[i] = log[i]
      BY <2>0, <2>5, PowerLog
    <3> QED
      BY <2>0, <3>1
  <2>6. log' \in Seq(Record)
    BY <2>0, TypeNext DEF TInv, TypeOK
  <2>7. CASE log' = log \/ stable = 0
    BY <2>0, <2>6, <2>7
  <2>8. QED
    BY <2>1, <2>2, <2>3, <2>4, <2>5, <2>7, NextCases
<1>2. QED
  BY <1>1, BaseInvariant, PTL DEF Spec, SyncedPrefixKept

-----------------------------------------------------------------------------
(* Layer 2: blobs before pointers.                                         *)

\* A blob that is present stays present, unless a power failure can lose a
\* directory entry.
LEMMA PresentKept ==
    ASSUME "dirent" \notin Faults, TInv, Next, NEW r \in Refs, Present(r)
    PROVE  Present(r)'
<1>0. cas \in [Refs -> {"absent", "linked", "durable"}] /\ cas[r] # "absent" /\ TypeOK
  BY DEF Present, TInv, TypeOK
<1>1. ASSUME NEW p \in Procs, AppendStep(p) \/ SyncStep(p) \/ ControlStep(p)
      PROVE  cas' = cas
  BY <1>0, <1>1, AppendFrame, SyncFrame, ControlFrame DEF ControlEffect
<1>2. ASSUME NEW p \in Procs, WalkingStep(p)
      PROVE  cas'[r] # "absent"
  BY <1>0, <1>2 DEF WalkingStep, InterpNodes, Dispatch, PutStat, PutLink, PutSync
<1>3. ASSUME NEW s \in Refs, ForeignPut(s)
      PROVE  cas'[r] # "absent"
  BY <1>0, <1>3 DEF ForeignPut
<1>4. CASE PowerFailure
  BY <1>0, <1>4 DEF PowerFailure, Present
<1>5. QED
  BY <1>0, <1>1, <1>2, <1>3, <1>4, NextCases DEF Present

PutStates == {"put", "put.link", "put.sync", "commit.append"}

LEMMA PutNext ==
    ASSUME "dirent" \notin Faults
    PROVE  TInv /\ PutInv /\ [Next]_vars => PutInv'
<1> SUFFICES ASSUME TInv, PutInv, [Next]_vars PROVE PutInv'
  OBVIOUS
<1>1. CASE UNCHANGED vars
  BY <1>1 DEF vars, PutInv, Present
<1>2. CASE Next
  <2>0. TypeOK /\ mem \in [Procs -> Memory]
    BY DEF TInv, TypeOK
  <2>1. \A r \in Refs : Present(r) => Present(r)'
    BY <1>2, PresentKept
  <2>2. ASSUME NEW p \in Procs, AppendStep(p) \/ SyncStep(p) \/ ControlStep(p)
        PROVE  PutInv'
    <3>1. /\ pc'[p] \notin PutStates
          /\ \A q \in Procs : q # p => pc'[q] = pc[q] /\ mem'[q] = mem[q]
      <4>1. CASE AppendStep(p)
        BY <2>0, <4>1, AppendFrame DEF AppendStep, PutStates
      <4>2. CASE SyncStep(p)
        BY <4>2, SyncFrame DEF SyncStep, PutStates
      <4>3. CASE ControlStep(p)
        <5>1. ControlEffect(p) /\ (Exit(p) => pc'[p] = "idle")
          BY <2>0, <4>3, ControlFrame, ExitEffect
        <5> QED
          BY <5>1 DEF ControlEffect, PutStates
      <4> QED
        BY <2>2, <4>1, <4>2, <4>3
    <3>2. \A q \in Procs : mem[q].art \subseteq Refs /\ mem[q].put \subseteq Refs
      BY <2>0 DEF Memory
    <3> QED
      BY <2>1, <3>1, <3>2 DEF PutInv, PutStates
  <2>3. ASSUME NEW p \in Procs, WalkingStep(p)
        PROVE  PutInv'
    <3>0. WalkEffect(p) /\ mem[p] \in Memory
      BY <2>0, <2>3, WalkFrame
    <3>1. \A q \in Procs : mem[q].art \subseteq Refs /\ mem[q].put \subseteq Refs
      BY <2>0 DEF Memory
    <3>2. CASE InterpNodes(p)
      <4>1. pc'[p] \notin PutStates
        BY <3>0, <3>2 DEF InterpNodes, WalkEffect, PutStates
      <4> QED
        BY <2>1, <3>0, <3>1, <4>1 DEF PutInv, PutStates, WalkEffect
    <3>3. CASE Dispatch(p)
      <4>1. \/ pc'[p] \notin PutStates
            \/ pc'[p] = "put" /\ mem'[p].art = mem'[p].todo
        <5>1. ASSUME NEW a \in SUBSET Refs, Goto(p, "put"),
                     Remember(p, [mem[p] EXCEPT !.art = a, !.todo = a])
              PROVE  pc'[p] = "put" /\ mem'[p].art = mem'[p].todo
          <6>1. mem'[p] = [mem[p] EXCEPT !.art = a, !.todo = a]
            BY <2>0, <5>1 DEF Remember
          <6>2. pc'[p] = "put"
            BY <2>0, <5>1 DEF Goto, TypeOK
          <6> QED
            BY <3>0, <6>1, <6>2 DEF Memory
        <5>2. CASE Goto(p, "fail.append")
          BY <2>0, <5>2 DEF Goto, TypeOK, PutStates
        <5> QED
          BY <3>3, <5>1, <5>2 DEF Dispatch
      <4> QED
        BY <2>1, <3>0, <3>1, <4>1 DEF PutInv, PutStates, WalkEffect
    <3>4. CASE PutStat(p)
      <4>1. /\ pc[p] = "put" /\ mem'[p].art = mem[p].art
            /\ \/ pc'[p] = "commit.append" /\ mem'[p].todo = {} /\ mem[p].todo = {}
               \/ \E r \in mem[p].todo : /\ pc'[p] = "put" /\ Present(r)
                                         /\ mem'[p].todo = mem[p].todo \ {r}
               \/ pc'[p] = "put.link" /\ mem'[p].todo = mem[p].todo
        <5>0. pc[p] = "put" /\ pc \in [Procs -> States]
          BY <2>0, <3>4 DEF PutStat, TypeOK
        <5>1. CASE mem[p].todo = {} /\ Goto(p, "commit.append") /\ mem' = mem
          BY <5>0, <5>1 DEF Goto
        <5>2. ASSUME NEW r \in mem[p].todo, Present(r), pc' = pc,
                     Remember(p, [mem[p] EXCEPT !.todo = @ \ {r}])
              PROVE  /\ mem'[p].art = mem[p].art /\ pc'[p] = "put"
                     /\ mem'[p].todo = mem[p].todo \ {r}
          BY <2>0, <3>0, <5>0, <5>2 DEF Remember, Memory
        <5>3. ASSUME NEW r \in mem[p].todo, Goto(p, "put.link"),
                     Remember(p, [mem[p] EXCEPT !.put = {r}])
              PROVE  /\ mem'[p].art = mem[p].art /\ pc'[p] = "put.link"
                     /\ mem'[p].todo = mem[p].todo
          BY <2>0, <3>0, <5>0, <5>3 DEF Remember, Memory, Goto
        <5> QED
          BY <3>4, <5>0, <5>1, <5>2, <5>3 DEF PutStat
      <4> QED
        BY <2>1, <3>0, <3>1, <4>1 DEF PutInv, WalkEffect
    <3>5. CASE PutLink(p)
      <4>1. /\ pc[p] = "put.link" /\ pc'[p] = "put.sync" /\ mem' = mem
            /\ \A r \in mem[p].put : Present(r)'
        BY <2>0, <3>0, <3>1, <3>5 DEF PutLink, WalkEffect, Present, TypeOK
      <4> QED
        BY <2>1, <3>0, <3>1, <4>1 DEF PutInv, WalkEffect
    <3>6. CASE PutSync(p)
      <4>1. /\ pc[p] = "put.sync" /\ pc'[p] = "put" /\ mem'[p].art = mem[p].art
            /\ mem'[p].todo = mem[p].todo \ mem[p].put
        BY <2>0, <3>0, <3>6 DEF PutSync, WalkEffect, Remember, Memory, TypeOK
      <4> QED
        BY <2>1, <3>0, <3>1, <4>1 DEF PutInv, WalkEffect
    <3> QED
      BY <2>3, <3>2, <3>3, <3>4, <3>5, <3>6 DEF WalkingStep
  <2>4. CASE \E r \in Refs : ForeignPut(r)
    <3>1. \A q \in Procs : mem[q].art \subseteq Refs /\ mem[q].put \subseteq Refs
      BY <2>0 DEF Memory
    <3> QED
      BY <2>1, <2>4, <3>1 DEF ForeignPut, PutInv
  <2>5. CASE PowerFailure
    BY <2>5 DEF PowerFailure, PutInv
  <2> QED
    BY <1>2, <2>2, <2>3, <2>4, <2>5, NextCases
<1>3. QED
  BY <1>1, <1>2

LEMMA DanglingNext ==
    ASSUME "dirent" \notin Faults
    PROVE  TInv /\ PutInv /\ NoDanglingRef /\ [Next]_vars => NoDanglingRef'
<1> SUFFICES ASSUME TInv, PutInv, NoDanglingRef, [Next]_vars PROVE NoDanglingRef'
  OBVIOUS
<1>1. CASE UNCHANGED vars
  BY <1>1 DEF vars, NoDanglingRef, OfType, Present
<1>2. CASE Next
  <2>0. TypeOK /\ log \in Seq(Record)
    BY DEF TInv, TypeOK
  <2>1. \A r \in Refs : Present(r) => Present(r)'
    BY <1>2, PresentKept
  <2>2. \A i \in 1 .. Len(log) : log[i].refs \subseteq Refs
    <3>1. \A i \in 1 .. Len(log) : log[i] \in Record
      BY <2>0
    <3> QED
      BY <3>1 DEF Record
  <2>3. CASE log' = log
    <3>1. OfType(log, "node.completed")' = OfType(log, "node.completed")
      BY <2>3 DEF OfType
    <3>2. \A i \in OfType(log, "node.completed") : log[i].refs \subseteq Refs
      BY <2>2 DEF OfType
    <3> QED
      BY <2>1, <2>3, <3>1, <3>2 DEF NoDanglingRef
  <2>4. ASSUME NEW p \in Procs, AppendStep(p)
        PROVE  NoDanglingRef'
    <3>1. CASE log' # log
      <4>1. PICK e \in Record :
               /\ log' = Append(log, e)
               /\ e.type = "node.completed" =>
                     AppendNodeCompleted(p) /\ e.refs = mem[p].art
        BY <2>0, <2>4, <3>1, AppendRecord
      <4>2. /\ Len(log') = Len(log) + 1
            /\ \A i \in 1 .. Len(log) : log'[i] = log[i]
            /\ log'[Len(log) + 1] = e
        BY <2>0, <4>1, AppendCompleted
      <4>3. e.type = "node.completed" => \A r \in e.refs : Present(r)
        BY <4>1 DEF AppendNodeCompleted, PutInv
      <4>4. e.refs \subseteq Refs
        BY DEF Record
      <4>5. \A i \in 1 .. Len(log') : i \in 1 .. Len(log) \/ i = Len(log) + 1
        BY <2>0, <4>2
      <4> QED
        BY <2>1, <2>2, <4>2, <4>3, <4>4, <4>5 DEF NoDanglingRef, OfType
    <3> QED
      BY <2>3, <3>1
  <2>5. ASSUME NEW p \in Procs, SyncStep(p) \/ WalkingStep(p)
        PROVE  log' = log
    BY <2>5, SyncFrame, WalkFrame DEF WalkEffect
  <2>6. ASSUME NEW p \in Procs, ControlStep(p)
        PROVE  log' = log \/ log' = <<>>
    BY <2>6, ControlFrame DEF ControlEffect
  <2>7. CASE \E r \in Refs : ForeignPut(r)
    BY <2>3, <2>7 DEF ForeignPut
  <2>8. CASE PowerFailure
    <3>1. /\ log' \in Seq(Record) /\ Len(log') \in 0 .. Len(log)
          /\ \A i \in 1 .. Len(log') : log'[i] = log[i]
      BY <2>0, <2>8, PowerLog
    <3>2. \A i \in 1 .. Len(log') : i \in 1 .. Len(log)
      BY <2>0, <3>1
    <3> QED
      BY <2>1, <2>2, <3>1, <3>2 DEF NoDanglingRef, OfType
  <2>9. CASE log' = <<>>
    BY <2>9 DEF NoDanglingRef, OfType
  <2> QED
    BY <1>2, <2>3, <2>4, <2>5, <2>6, <2>7, <2>8, <2>9, NextCases
<1>3. QED
  BY <1>1, <1>2

\* No node.completed ever names a blob that is not in the store, for any
\* interleaving of drivers, crashes, torn writes and power failures that do
\* not lose directory entries.
THEOREM NoDanglingRefHolds ==
    ASSUME "dirent" \notin Faults
    PROVE  Spec => []NoDanglingRef
<1>1. Init => PutInv /\ NoDanglingRef
  BY DEF Init, PutInv, NoDanglingRef, OfType
<1>2. QED
  BY <1>1, TypeInvariant, PutNext, DanglingNext, PTL DEF Spec

-----------------------------------------------------------------------------
(* Layer 3: the RunState mirrors the log, when no partial frame is left    *)
(* behind by a live process ("short").                                     *)

LEMMA CleanNext ==
    ASSUME "short" \notin Faults
    PROVE  BaseInv /\ CleanInv /\ [Next]_vars => CleanInv'
<1> SUFFICES ASSUME BaseInv, CleanInv, [Next]_vars PROVE CleanInv'
  OBVIOUS
<1>0. TInv /\ TypeOK /\ LockInv /\ CreateInv
  BY DEF BaseInv, TInv
<1>1. ASSUME NEW p \in Procs, AppendStep(p) \/ SyncStep(p) \/ WalkingStep(p)
      PROVE  CleanInv'
  <2>1. torn' = torn
    BY <1>0, <1>1, AppendFrame, SyncFrame, WalkFrame DEF WalkEffect
  <2>2. ~torn
    BY <1>0, <1>1, WriterStep, StateKinds DEF CleanInv, CreateInv
  <2> QED
    BY <2>1, <2>2 DEF CleanInv
<1>2. ASSUME NEW p \in Procs, ControlStep(p)
      PROVE  CleanInv'
  <2>1. ControlEffect(p) /\ (Exit(p) => pc'[p] = "idle")
    BY <1>0, <1>2, ControlFrame, ExitEffect
  <2>2. CASE torn' = FALSE
    BY <2>2 DEF CleanInv
  <2>3. CASE torn' = torn /\ pc'[p] \notin Walking \cup {"res.fold"}
    BY <2>1, <2>3 DEF CleanInv, ControlEffect
  <2>4. CASE torn' = torn /\ pc[p] = "res.fold"
    BY <2>1, <2>4 DEF CleanInv, ControlEffect
  <2>5. CASE pc[p] \in Appending /\ pc'[p] = "idle"
    <3>1. pc[p] \in Driving
      BY <2>5, StateKinds
    <3>2. \A q \in Procs : pc[q] \in Walking \cup {"res.fold"} => q = p
      BY <1>0, <3>1, StateKinds DEF LockInv
    <3> QED
      BY <2>1, <2>5, <3>2, StateKinds DEF CleanInv, ControlEffect
  <2> QED
    <3>1. \/ torn' = FALSE
          \/ torn' = torn /\ pc'[p] \notin Walking \cup {"res.fold"}
          \/ torn' = torn /\ pc[p] = "res.fold"
          \/ pc[p] \in Appending /\ pc'[p] = "idle"
      BY <2>1, StateKinds DEF ControlEffect, Walking, Executing
    <3> QED
      BY <2>2, <2>3, <2>4, <2>5, <3>1
<1>3. CASE \E r \in Refs : ForeignPut(r)
  BY <1>3 DEF ForeignPut, CleanInv
<1>4. CASE PowerFailure
  BY <1>4, StateKinds DEF PowerFailure, CleanInv
<1>5. CASE UNCHANGED vars
  BY <1>5 DEF vars, CleanInv
<1>6. QED
  BY <1>1, <1>2, <1>3, <1>4, <1>5, NextCases

\* Under these conditions every append reaches the readable log.
LEMMA CleanAppend ==
    ASSUME "short" \notin Faults, BaseInv, CleanInv, NEW p \in Procs, AppendStep(p)
    PROVE  \E e \in Record :
              /\ log' = Append(log, e)
              /\ e.seq = mem[p].seq + 1 /\ e.epoch = mem[p].epoch
              /\ mem'[p] = [mem[p] EXCEPT !.seq = @ + 1]
              /\ \/ AppendRunStarted(p) /\ e.type = "run.started"
                 \/ AppendRunResumed(p) /\ e.type = "run.resumed"
                 \/ AppendNodeStarted(p) /\ e.type = "node.started"
                 \/ /\ AppendNodeCompleted(p)
                    /\ e.type = "node.completed"
                    /\ e.node = mem[p].cur
                 \/ AppendNodeFailed(p) /\ e.type = "node.failed"
                 \/ /\ AppendRunFinished(p)
                    /\ e.type = "run.finished"
                    /\ e.status = mem[p].status
<1>0. TInv /\ TypeOK /\ CreateInv
  BY DEF BaseInv, TInv
<1>1. ~torn
  BY <1>0, WriterStep, StateKinds DEF CleanInv, CreateInv
<1>2. mem'[p] = [mem[p] EXCEPT !.seq = @ + 1]
  BY <1>0, AppendFrame
<1>3. log' # log
  <2>1. mem[p] \in Memory
    BY <1>0 DEF TypeOK
  <2>2. AppendNodeStarted(p) => Write(p, "node.started", mem[p].cur, {}, "none")
    BY DEF AppendNodeStarted
  <2>3. AppendStep(p) => \E e : log' = Append(log, e)
    BY <1>1, <2>2 DEF AppendStep, Write, AppendRunStarted, AppendRunResumed,
       AppendNodeCompleted, AppendNodeFailed, AppendRunFinished
  <2> QED
    BY <1>0, <2>3 DEF TypeOK
<1>4. QED
  BY <1>0, <1>1, <1>2, <1>3, AppendRecord

\* A step that changes the completed nodes leaves no other process walking.
LEMMA MirrorOthers ==
    ASSUME BaseInv, MirrorInv, Next, NEW p \in Procs, NEW q \in Procs, q # p,
           AppendStep(p) \/ SyncStep(p) \/ WalkingStep(p) \/ ControlStep(p)
    PROVE  Mirror(q)'
<1>0. TInv /\ TypeOK /\ LockInv /\ CreateInv /\ Mirror(q)
  BY DEF BaseInv, TInv, MirrorInv
<1>1. pc'[q] = pc[q] /\ mem'[q] = mem[q]
  BY <1>0, WriterStep, ControlFrame DEF ControlEffect
<1>2. pc[q] \in Walking => log' = log
  <2>1. CASE AppendStep(p) \/ SyncStep(p) \/ WalkingStep(p)
    BY <1>0, <2>1, WriterStep, StateKinds DEF LockInv
  <2>2. CASE ControlStep(p)
    BY <1>0, <2>2, ControlFrame, StateKinds DEF ControlEffect, CreateInv
  <2> QED
    BY <2>1, <2>2
<1>3. pc[q] \in Walking => CompletedIn(log)' = CompletedIn(log)
  BY <1>2
<1>4. "commit.sync" \in Walking
  BY DEF Walking
<1>5. QED
  BY <1>0, <1>1, <1>3, <1>4 DEF Mirror

LEMMA MirrorNext ==
    ASSUME "short" \notin Faults
    PROVE  BaseInv /\ CleanInv /\ MirrorInv /\ [Next]_vars => MirrorInv'
<1> SUFFICES ASSUME BaseInv, CleanInv, MirrorInv, [Next]_vars PROVE MirrorInv'
  OBVIOUS
<1>0. TInv /\ TypeOK /\ LockInv /\ CreateInv /\ mem \in [Procs -> Memory]
  BY DEF BaseInv, TInv, TypeOK
<1>1. ASSUME Next, NEW p \in Procs, AppendStep(p)
      PROVE  MirrorInv'
  <2>1. PICK e \in Record :
           /\ log' = Append(log, e)
           /\ mem'[p] = [mem[p] EXCEPT !.seq = @ + 1]
           /\ \/ AppendRunStarted(p) /\ e.type = "run.started"
              \/ AppendRunResumed(p) /\ e.type = "run.resumed"
              \/ AppendNodeStarted(p) /\ e.type = "node.started"
              \/ /\ AppendNodeCompleted(p)
                 /\ e.type = "node.completed"
                 /\ e.node = mem[p].cur
              \/ AppendNodeFailed(p) /\ e.type = "node.failed"
              \/ AppendRunFinished(p) /\ e.type = "run.finished"
    BY <1>1, CleanAppend
  <2>2. /\ mem'[p].done = mem[p].done /\ mem'[p].cur = mem[p].cur
        /\ mem'[p].status = mem[p].status
    BY <1>0, <2>1 DEF Memory
  <2>3. /\ e.type = "node.completed" => CompletedIn(log)' = CompletedIn(log) \cup {e.node}
        /\ e.type # "node.completed" => CompletedIn(log)' = CompletedIn(log)
    BY <1>0, <2>1, AppendCompleted DEF TypeOK
  <2>4. Mirror(p)
    BY DEF MirrorInv
  <2>5. Mirror(p)'
    <3>1. CASE AppendRunStarted(p)
      <4>1. pc[p] = "run.start" /\ pc'[p] = "run.sync" /\ e.type # "node.completed"
        BY <1>0, <1>1, <2>1, <3>1, AppendFrame
           DEF AppendRunStarted, AppendRunResumed, AppendNodeStarted,
               AppendNodeCompleted, AppendNodeFailed, AppendRunFinished
      <4>2. log = <<>> /\ mem[p] = Blank
        BY <1>0, <4>1, StateKinds DEF CreateInv
      <4>3. CompletedIn(log) = {} /\ mem[p].done = {} /\ mem[p].status # "ok"
        BY <4>2 DEF CompletedIn, OfType, Blank
      <4>4. "run.sync" \notin Executing
        BY DEF Executing
      <4> QED
        BY <2>2, <2>3, <4>1, <4>3, <4>4 DEF Mirror
    <3>2. CASE AppendNodeCompleted(p)
      <4>1. /\ pc[p] = "commit.append" /\ pc'[p] = "commit.sync"
            /\ e.type = "node.completed" /\ e.node = mem[p].cur
        BY <1>0, <1>1, <2>1, <3>2, AppendFrame
           DEF AppendRunStarted, AppendRunResumed, AppendNodeStarted,
               AppendNodeCompleted, AppendNodeFailed, AppendRunFinished
      <4> QED
        BY <2>2, <2>3, <2>4, <4>1 DEF Mirror, Walking, Executing
    <3>3. CASE ~AppendRunStarted(p) /\ ~AppendNodeCompleted(p)
      <4>1. /\ e.type # "node.completed"
            /\ \/ pc[p] = "res.append" /\ pc'[p] = "res.sync"
               \/ pc[p] = "node.start" /\ pc'[p] = "dispatch"
               \/ pc[p] = "fail.append" /\ pc'[p] = "fail.sync"
               \/ pc[p] = "fin.append" /\ pc'[p] = "fin.sync"
        BY <1>0, <1>1, <2>1, <3>3, AppendFrame
           DEF AppendRunResumed, AppendNodeStarted, AppendNodeFailed, AppendRunFinished
      <4> QED
        BY <2>2, <2>3, <2>4, <4>1 DEF Mirror, Walking, Executing
    <3> QED
      BY <3>1, <3>2, <3>3
  <2> QED
    BY <1>1, <2>5, MirrorOthers DEF MirrorInv
<1>2. ASSUME Next, NEW p \in Procs, SyncStep(p)
      PROVE  MirrorInv'
  <2>0. Mirror(p) /\ CompletedIn(log)' = CompletedIn(log)
    BY <1>0, <1>2, SyncFrame DEF MirrorInv
  <2>1. CASE SyncNodeCompleted(p)
    <3>1. /\ pc[p] = "commit.sync" /\ pc'[p] = "walk"
          /\ mem'[p].done = mem[p].done \cup {mem[p].cur}
          /\ mem'[p].status = mem[p].status
      <4>1. /\ mem'[p] = [mem[p] EXCEPT !.done = @ \cup {mem[p].cur}, !.cur = 0, !.art = {}]
            /\ pc'[p] = "walk" /\ pc[p] = "commit.sync" /\ mem[p] \in Memory
        BY <1>0, <1>2, <2>1, SyncFrame DEF SyncNodeCompleted
      <4> QED
        BY <4>1 DEF Memory
    <3> QED
      BY <1>2, <2>0, <3>1, MirrorOthers DEF MirrorInv, Mirror, Walking, Executing
  <2>2. CASE ~SyncNodeCompleted(p)
    <3>1. /\ mem' = mem
          /\ \/ pc[p] \in {"run.sync", "res.sync"} /\ pc'[p] = "walk"
             \/ pc[p] = "fail.sync" /\ pc'[p] = "fin.append"
             \/ pc[p] = "fin.sync" /\ pc'[p] = "exit"
      BY <1>0, <1>2, <2>2, SyncFrame
         DEF SyncStep, SyncRunStarted, SyncRunResumed, SyncNodeFailed, SyncRunFinished
    <3> QED
      BY <1>2, <2>0, <3>1, MirrorOthers DEF MirrorInv, Mirror, Walking, Executing
  <2> QED
    BY <2>1, <2>2
<1>3. ASSUME Next, NEW p \in Procs, WalkingStep(p)
      PROVE  MirrorInv'
  <2>1. WalkEffect(p) /\ Mirror(p)
    BY <1>0, <1>3, WalkFrame DEF MirrorInv
  <2>2. CompletedIn(log)' = CompletedIn(log)
    BY <2>1 DEF WalkEffect
  <2>3. Mirror(p)'
    BY <2>1, <2>2 DEF WalkEffect, Mirror, Walking, Executing
  <2> QED
    BY <1>3, <2>3, MirrorOthers DEF MirrorInv
<1>4. ASSUME Next, NEW p \in Procs, ControlStep(p)
      PROVE  MirrorInv'
  <2>1. ControlEffect(p) /\ Mirror(p)
    BY <1>0, <1>4, ControlFrame DEF MirrorInv
  <2>2. ASSUME mem'[p] = Blank, pc'[p] \notin Walking \cup {"res.fold"}
        PROVE  Mirror(p)'
    BY <2>2 DEF Mirror, Blank, Walking, Executing
  <2>3. ASSUME pc'[p] = "res.fold", mem'[p] = Opened
        PROVE  Mirror(p)'
    BY <2>3 DEF Mirror, Blank, Opened, Walking, Executing
  <2>4. ASSUME pc[p] = "res.fold", pc'[p] = "res.append", log' = log,
               mem'[p] = [mem[p] EXCEPT !.done = CompletedIn(log)]
        PROVE  Mirror(p)'
    <3>0. CompletedIn(log)' = CompletedIn(log)
      BY <2>4
    <3>1. mem'[p].done = CompletedIn(log) /\ mem'[p].status = mem[p].status
      BY <1>0, <2>4 DEF Memory
    <3> QED
      BY <2>1, <2>4, <3>0, <3>1 DEF Mirror, Walking, Executing
  <2>5. \/ mem'[p] = Blank /\ pc'[p] \notin Walking \cup {"res.fold"}
        \/ pc[p] = "res.open" /\ pc'[p] = "res.fold" /\ mem'[p] = Opened
        \/ /\ pc[p] = "res.fold" /\ pc'[p] = "res.append"
           /\ mem'[p] = [mem[p] EXCEPT !.done = CompletedIn(log)] /\ log' = log
    <3>1. Exit(p) => mem'[p] = Blank /\ pc'[p] = "idle"
      BY <1>0, ExitEffect
    <3>2. pc[p] \in {"idle", "run.lock", "res.lock"} => mem[p] = Blank
      BY <1>0, StateKinds DEF CreateInv
    <3>3. {"idle", "run.lock", "run.remove", "run.start", "res.lock", "res.open"}
             \cap (Walking \cup {"res.fold"}) = {}
      BY DEF Walking, Executing
    <3> QED
      BY <2>1, <3>1, <3>2, <3>3 DEF ControlEffect
  <2> QED
    BY <1>4, <2>2, <2>3, <2>4, <2>5, MirrorOthers DEF MirrorInv
<1>5. CASE \E r \in Refs : ForeignPut(r)
  BY <1>5 DEF ForeignPut, MirrorInv, Mirror, CompletedIn, OfType
<1>6. CASE PowerFailure
  BY <1>6, StateKinds DEF PowerFailure, MirrorInv, Mirror, Blank, Executing
<1>7. CASE UNCHANGED vars
  BY <1>7 DEF vars, MirrorInv, Mirror, CompletedIn, OfType
<1>8. QED
  BY <1>1, <1>2, <1>3, <1>4, <1>5, <1>6, <1>7, NextCases

-----------------------------------------------------------------------------
(* Layer 4: what the log promises.                                         *)

\* An acknowledged node, or a completed one, is at some place of the log.
LEMMA CompletedPlace ==
    ASSUME NEW n, n \in CompletedIn(log)
    PROVE  \E i \in 1 .. Len(log) : CompletedAt(n, i)
  BY DEF CompletedIn, OfType, CompletedAt

LEMMA AckNext ==
    ASSUME "short" \notin Faults, "dirent" \notin Faults
    PROVE  BaseInv /\ MirrorInv /\ AckInv /\ [Next]_vars => AckInv'
<1> SUFFICES ASSUME BaseInv, MirrorInv, AckInv, [Next]_vars PROVE AckInv'
  OBVIOUS
<1>0. TInv /\ TypeOK /\ CreateInv /\ log \in Seq(Record) /\ stable \in 0 .. Len(log)
  BY DEF BaseInv, TInv, TypeOK
<1>1. ASSUME acked' = acked, stable' \in Nat, stable <= stable',
             \A i \in 1 .. stable : log'[i] = log[i]
      PROVE  AckInv'
  BY <1>0, <1>1 DEF AckInv, CompletedAt
<1>2. ASSUME NEW p \in Procs, AppendStep(p)
      PROVE  AckInv'
  <2>1. log' = log \/ \E e \in Record : log' = Append(log, e)
    BY <1>0, <1>2, AppendRecord
  <2>2. \A i \in 1 .. Len(log) : log'[i] = log[i]
    BY <1>0, <2>1, AppendCompleted
  <2>3. stable' = stable /\ acked' = acked
    BY <1>0, <1>2, AppendFrame
  <2> QED
    BY <1>0, <1>1, <2>2, <2>3
<1>3. ASSUME NEW p \in Procs, SyncStep(p)
      PROVE  AckInv'
  <2>1. log' = log /\ stable' = Len(log)
    BY <1>0, <1>3, SyncFrame
  <2>2. CASE ~SyncNodeCompleted(p)
    <3>1. acked' = acked
      BY <1>0, <1>3, <2>2, SyncFrame
    <3> QED
      BY <1>0, <1>1, <2>1, <3>1
  <2>3. CASE SyncNodeCompleted(p)
    <3>1. acked' = acked \cup {mem[p].cur} /\ pc[p] = "commit.sync"
      BY <2>3 DEF SyncNodeCompleted
    <3>2. mem[p].cur \in CompletedIn(log)
      BY <3>1 DEF MirrorInv, Mirror
    <3>3. \E i \in 1 .. Len(log) : CompletedAt(mem[p].cur, i)
      BY <3>2, CompletedPlace
    <3>4. \A n \in acked : \E i \in 1 .. Len(log) : CompletedAt(n, i)
      BY <1>0 DEF AckInv
    <3>5. \A n \in acked' : \E i \in 1 .. Len(log) : CompletedAt(n, i)
      BY <3>1, <3>3, <3>4
    <3> QED
      BY <2>1, <3>5 DEF AckInv, CompletedAt
  <2> QED
    BY <2>2, <2>3
<1>4. ASSUME NEW p \in Procs, WalkingStep(p)
      PROVE  AckInv'
  <2>1. log' = log /\ stable' = stable /\ acked' = acked
    BY <1>0, <1>4, WalkFrame DEF WalkEffect
  <2> QED
    BY <1>0, <1>1, <2>1
<1>5. ASSUME NEW p \in Procs, ControlStep(p)
      PROVE  AckInv'
  <2>1. ControlEffect(p)
    BY <1>0, <1>5, ControlFrame
  <2>2. CASE log' = log /\ stable' = stable
    BY <1>0, <1>1, <2>1, <2>2 DEF ControlEffect
  <2>3. CASE log = <<>>
    <3>1. stable = 0 /\ acked' = acked
      BY <1>0, <2>1, <2>3 DEF ControlEffect
    <3> QED
      BY <3>1 DEF AckInv
  <2> QED
    BY <1>0, <2>1, <2>2, <2>3, StateKinds DEF ControlEffect, CreateInv
<1>6. CASE \E r \in Refs : ForeignPut(r)
  BY <1>6 DEF ForeignPut, AckInv, CompletedAt
<1>7. CASE PowerFailure
  <2>1. /\ \A i \in 1 .. Len(log') : log'[i] = log[i]
        /\ stable' = Len(log') /\ stable <= Len(log') /\ Len(log') \in 0 .. Len(log)
    BY <1>0, <1>7, PowerLog
  <2>2. acked' = acked
    BY <1>7 DEF PowerFailure
  <2> QED
    BY <1>0, <1>1, <2>1, <2>2
<1>8. CASE UNCHANGED vars
  BY <1>8 DEF vars, AckInv, CompletedAt
<1>9. QED
  BY <1>2, <1>3, <1>4, <1>5, <1>6, <1>7, <1>8, NextCases

\* The invariant of a file system that keeps synced data and directory
\* entries and never leaves half a frame behind a live process.
CommitInv == BaseInv /\ CleanInv /\ MirrorInv /\ AckInv

LEMMA CommitInvariant ==
    ASSUME "short" \notin Faults, "dirent" \notin Faults
    PROVE  Spec => []CommitInv
<1>1. Init => CommitInv
  <2> SUFFICES ASSUME Init PROVE CleanInv /\ MirrorInv /\ AckInv
    BY BaseInit DEF CommitInv
  <2>1. \A p \in Procs : pc[p] = "idle" /\ mem[p] = Blank
    BY DEF Init
  <2>2. CleanInv
    BY <2>1, StateKinds DEF CleanInv
  <2>3. MirrorInv
    BY <2>1, StateKinds DEF MirrorInv, Mirror, Blank, Executing
  <2>4. AckInv
    BY DEF Init, AckInv
  <2> QED
    BY <2>2, <2>3, <2>4
<1>2. CommitInv /\ [Next]_vars => CommitInv'
  BY BaseNext, CleanNext, MirrorNext, AckNext DEF CommitInv
<1>3. QED
  BY <1>1, <1>2, PTL DEF Spec

\* Durability of commits: once engine.Commit has returned for a node, every
\* later reader of the log finds its node.completed, through any number of
\* crashes, power failures, torn tails and resumes.
THEOREM DurableCommitHolds ==
    ASSUME "short" \notin Faults, "dirent" \notin Faults
    PROVE  Spec => []DurableCommit
<1>1. CommitInv => DurableCommit
  <2> SUFFICES ASSUME CommitInv, NEW n \in acked PROVE n \in CompletedIn(log)
    BY DEF DurableCommit
  <2>1. stable \in 0 .. Len(log) /\ log \in Seq(Record)
    BY DEF CommitInv, BaseInv, TInv, TypeOK
  <2>2. PICK i \in 1 .. stable : CompletedAt(n, i)
    BY DEF CommitInv, AckInv
  <2>3. i \in 1 .. Len(log)
    BY <2>1
  <2> QED
    BY <2>2, <2>3 DEF CompletedIn, OfType, CompletedAt
<1>2. QED
  BY <1>1, CommitInvariant, PTL

\* Replay, not re-execution: no driver is executing a node the log records
\* as completed.
THEOREM NoRedispatchHolds ==
    ASSUME "short" \notin Faults, "dirent" \notin Faults
    PROVE  Spec => []NoRedispatch
<1>1. CommitInv => NoRedispatch
  BY DEF CommitInv, MirrorInv, Mirror, NoRedispatch, Walking, Executing
<1>2. QED
  BY <1>1, CommitInvariant, PTL

\* A node is committed at most once in the life of the run.
THEOREM CommitOnceHolds ==
    ASSUME "short" \notin Faults, "dirent" \notin Faults
    PROVE  Spec => []CommitOnce
<1>1. Init => CommitOnce
  BY DEF Init, CommitOnce, OfType
<1>2. CommitInv /\ CommitOnce /\ [Next]_vars => CommitOnce'
  <2> SUFFICES ASSUME CommitInv, CommitOnce, [Next]_vars PROVE CommitOnce'
    OBVIOUS
  <2>0. BaseInv /\ TInv /\ TypeOK /\ CleanInv /\ MirrorInv /\ log \in Seq(Record)
    BY DEF CommitInv, BaseInv, TInv, TypeOK
  <2>1. CASE log' = log
    BY <2>1 DEF CommitOnce, OfType
  <2>2. CASE log' = <<>>
    BY <2>2 DEF CommitOnce, OfType
  <2>3. ASSUME NEW p \in Procs, AppendStep(p)
        PROVE  CommitOnce'
    <3>1. PICK e \in Record :
             /\ log' = Append(log, e)
             /\ e.type = "node.completed" => AppendNodeCompleted(p) /\ e.node = mem[p].cur
      BY <2>0, <2>3, CleanAppend
    <3>2. e.type = "node.completed" => e.node \notin CompletedIn(log)
      BY <2>0, <3>1 DEF AppendNodeCompleted, MirrorInv, Mirror, Walking, Executing
    <3>3. /\ Len(log') = Len(log) + 1
          /\ \A i \in 1 .. Len(log) : log'[i] = log[i]
          /\ log'[Len(log) + 1] = e
      BY <2>0, <3>1, AppendCompleted
    <3>4. \A i \in 1 .. Len(log') : i \in 1 .. Len(log) \/ i = Len(log) + 1
      BY <2>0, <3>3
    <3>5. \A i \in OfType(log, "node.completed") : log[i].node \in CompletedIn(log)
      BY DEF CompletedIn
    <3> QED
      BY <3>2, <3>3, <3>4, <3>5 DEF CommitOnce, OfType
  <2>4. ASSUME NEW p \in Procs, SyncStep(p) \/ WalkingStep(p)
        PROVE  log' = log
    BY <2>0, <2>4, SyncFrame, WalkFrame DEF WalkEffect
  <2>5. ASSUME NEW p \in Procs, ControlStep(p)
        PROVE  log' = log \/ log' = <<>>
    BY <2>0, <2>5, ControlFrame DEF ControlEffect
  <2>6. CASE \E r \in Refs : ForeignPut(r)
    BY <2>1, <2>6 DEF ForeignPut
  <2>7. CASE PowerFailure
    <3>1. /\ log' \in Seq(Record) /\ Len(log') \in 0 .. Len(log)
          /\ \A i \in 1 .. Len(log') : log'[i] = log[i]
      BY <2>0, <2>7, PowerLog
    <3>2. \A i \in 1 .. Len(log') : i \in 1 .. Len(log)
      BY <2>0, <3>1
    <3> QED
      BY <3>1, <3>2 DEF CommitOnce, OfType
  <2>8. CASE UNCHANGED vars
    BY <2>1, <2>8 DEF vars
  <2> QED
    BY <2>1, <2>2, <2>3, <2>4, <2>5, <2>6, <2>7, <2>8, NextCases
<1>3. QED
  BY <1>1, <1>2, CommitInvariant, PTL DEF Spec

LEMMA FinishNext ==
    ASSUME "short" \notin Faults
    PROVE  CommitInv /\ FinishInv /\ [Next]_vars => FinishInv'
<1> SUFFICES ASSUME CommitInv, FinishInv, [Next]_vars PROVE FinishInv'
  OBVIOUS
<1>0. BaseInv /\ TInv /\ TypeOK /\ CleanInv /\ MirrorInv /\ log \in Seq(Record)
  BY DEF CommitInv, BaseInv, TInv, TypeOK
<1>1. CASE log' = log
  BY <1>1 DEF FinishInv, OfType, CompletedAt
<1>2. CASE log' = <<>>
  BY <1>2 DEF FinishInv, OfType
<1>3. ASSUME NEW p \in Procs, AppendStep(p)
      PROVE  FinishInv'
  <2>1. PICK e \in Record :
           /\ log' = Append(log, e)
           /\ e.type = "run.finished" => AppendRunFinished(p) /\ e.status = mem[p].status
    BY <1>0, <1>3, CleanAppend
  <2>2. e.type = "run.finished" /\ e.status = "ok" =>
           \A n \in Nodes : \E j \in 1 .. Len(log) : CompletedAt(n, j)
    <3>1. AppendRunFinished(p) /\ mem[p].status = "ok" => CompletedIn(log) = Nodes
      BY <1>0 DEF AppendRunFinished, MirrorInv, Mirror, Walking
    <3> QED
      BY <2>1, <3>1, CompletedPlace
  <2>3. /\ Len(log') = Len(log) + 1 /\ Len(log) \in Nat
        /\ \A i \in 1 .. Len(log) : log'[i] = log[i]
        /\ log'[Len(log) + 1] = e
    BY <1>0, <2>1, AppendCompleted
  <2>4. \A i \in 1 .. Len(log') : i \in 1 .. Len(log) \/ i = Len(log) + 1
    BY <1>0, <2>3
  <2>5. SUFFICES ASSUME NEW i \in 1 .. Len(log'), log'[i].type = "run.finished",
                        log'[i].status = "ok", NEW n \in Nodes
                 PROVE  \E j \in 1 .. (i - 1) : CompletedAt(n, j)'
    BY DEF FinishInv, OfType
  <2>6. CASE i \in 1 .. Len(log)
    <3>1. PICK j \in 1 .. (i - 1) : CompletedAt(n, j)
      BY <2>3, <2>5, <2>6 DEF FinishInv, OfType
    <3>2. j \in 1 .. Len(log)
      BY <2>3, <2>6
    <3> QED
      BY <2>3, <3>1, <3>2 DEF CompletedAt
  <2>7. CASE i = Len(log) + 1
    <3>1. PICK j \in 1 .. Len(log) : CompletedAt(n, j)
      BY <2>2, <2>3, <2>5, <2>7
    <3>2. j \in 1 .. (i - 1)
      BY <2>3, <2>7
    <3> QED
      BY <2>3, <3>1, <3>2 DEF CompletedAt
  <2> QED
    BY <2>4, <2>6, <2>7
<1>4. ASSUME NEW p \in Procs, SyncStep(p) \/ WalkingStep(p)
      PROVE  log' = log
  BY <1>0, <1>4, SyncFrame, WalkFrame DEF WalkEffect
<1>5. ASSUME NEW p \in Procs, ControlStep(p)
      PROVE  log' = log \/ log' = <<>>
  BY <1>0, <1>5, ControlFrame DEF ControlEffect
<1>6. CASE \E r \in Refs : ForeignPut(r)
  BY <1>1, <1>6 DEF ForeignPut
<1>7. CASE PowerFailure
  <2>1. /\ log' \in Seq(Record) /\ Len(log') \in 0 .. Len(log)
        /\ \A i \in 1 .. Len(log') : log'[i] = log[i]
    BY <1>0, <1>7, PowerLog
  <2>2. \A i \in 1 .. Len(log') : i \in 1 .. Len(log) /\ 1 .. (i - 1) \subseteq 1 .. Len(log')
    BY <1>0, <2>1
  <2> QED
    BY <2>1, <2>2 DEF FinishInv, OfType, CompletedAt
<1>8. CASE UNCHANGED vars
  BY <1>1, <1>8 DEF vars
<1>9. QED
  BY <1>1, <1>2, <1>3, <1>4, <1>5, <1>6, <1>7, <1>8, NextCases

\* A run.finished{ok} that survives in the log vouches for every node.
THEOREM FinishedOkCompleteHolds ==
    ASSUME "short" \notin Faults, "dirent" \notin Faults
    PROVE  Spec => []FinishedOkComplete
<1>1. Init => FinishInv
  BY DEF Init, FinishInv, OfType
<1>2. CommitInv /\ FinishInv => FinishedOkComplete
  <2> SUFFICES ASSUME CommitInv, FinishInv, NEW i \in OfType(log, "run.finished"),
                      log[i].status = "ok"
               PROVE  CompletedIn(log) = Nodes
    BY DEF FinishedOkComplete
  <2>1. CompletedIn(log) \subseteq Nodes /\ log \in Seq(Record)
    BY DEF CommitInv, BaseInv, TInv, LogNodes, TypeOK
  <2>2. ASSUME NEW n \in Nodes PROVE n \in CompletedIn(log)
    <3>1. PICK j \in 1 .. (i - 1) : CompletedAt(n, j)
      BY DEF FinishInv
    <3>2. j \in 1 .. Len(log)
      BY <2>1 DEF OfType
    <3> QED
      BY <3>1, <3>2 DEF CompletedIn, OfType, CompletedAt
  <2> QED
    BY <2>1, <2>2
<1>3. QED
  BY <1>1, <1>2, FinishNext, CommitInvariant, PTL DEF Spec

\* Sequence numbers and epochs: the inductive step.
LEMMA SeqNext ==
    ASSUME "short" \notin Faults
    PROVE  BaseInv /\ CleanInv /\ SeqInv /\ [Next]_vars => SeqInv'
<1> SUFFICES ASSUME BaseInv, CleanInv, SeqInv, [Next]_vars PROVE SeqInv'
  OBVIOUS
<1>0. /\ TInv /\ TypeOK /\ LockInv /\ CreateInv /\ log \in Seq(Record)
      /\ mem \in [Procs -> Memory] /\ Len(log) \in Nat
  BY DEF BaseInv, TInv, TypeOK
<1>1. ASSUME NEW p \in Procs, AppendStep(p)
      PROVE  SeqInv'
  <2>1. PICK e \in Record :
           /\ log' = Append(log, e)
           /\ e.seq = mem[p].seq + 1 /\ e.epoch = mem[p].epoch
           /\ mem'[p] = [mem[p] EXCEPT !.seq = @ + 1]
           /\ e.type = "run.resumed" => AppendRunResumed(p)
    BY <1>1, CleanAppend
  <2>2. /\ Len(log') = Len(log) + 1
        /\ \A i \in 1 .. Len(log) : log'[i] = log[i]
        /\ log'[Len(log) + 1] = e
    BY <1>0, <2>1, AppendCompleted
  <2>3. mem'[p].seq = mem[p].seq + 1 /\ mem'[p].epoch = mem[p].epoch
    BY <1>0, <2>1 DEF Memory
  <2>4. /\ mem[p].seq = Len(log) /\ mem[p].epoch \in Nat
        /\ \A i \in 1 .. Len(log) : log[i].epoch <= mem[p].epoch
        /\ e.type = "run.resumed" => \A i \in 1 .. Len(log) : log[i].epoch < mem[p].epoch
    <3>1. mem[p].epoch \in Nat
      BY <1>0 DEF Memory
    <3>2. CASE pc[p] \in Walking
      BY <2>1, <3>1, <3>2 DEF SeqInv, AppendRunResumed
    <3>3. CASE AppendRunStarted(p)
      <4>1. log = <<>> /\ mem[p] = Blank
        BY <1>0, <1>1, <3>3, WriterStep, StateKinds DEF CreateInv
      <4>2. Len(log) = 0 /\ mem[p].seq = 0
        BY <4>1 DEF Blank
      <4> QED
        BY <3>1, <4>2
    <3> QED
      BY <1>0, <1>1, <3>2, <3>3, WriterStep
  <2>5. \A i \in 1 .. Len(log') : i \in 1 .. Len(log) \/ i = Len(log) + 1
    BY <1>0, <2>2
  <2>6. SeqAndEpoch'
    <3>1. SUFFICES ASSUME NEW i \in 1 .. Len(log')
                   PROVE  /\ log'[i].seq = i
                          /\ \A j \in 1 .. (i - 1) :
                                /\ log'[j].epoch <= log'[i].epoch
                                /\ log'[i].type = "run.resumed" =>
                                      log'[j].epoch < log'[i].epoch
      BY DEF SeqAndEpoch
    <3>2. CASE i \in 1 .. Len(log)
      <4>1. \A j \in 1 .. (i - 1) : log'[j] = log[j]
        BY <1>0, <2>2, <3>2
      <4> QED
        BY <2>2, <3>2, <4>1 DEF SeqInv, SeqAndEpoch
    <3>3. CASE i = Len(log) + 1
      <4>1. 1 .. (i - 1) = 1 .. Len(log) /\ log'[i] = e
        BY <1>0, <2>2, <3>3
      <4>2. e.seq = i
        BY <2>1, <2>4, <3>3
      <4>3. \A j \in 1 .. Len(log) : log'[j].epoch = log[j].epoch
        BY <2>2
      <4> QED
        BY <2>1, <2>4, <4>1, <4>2, <4>3
    <3> QED
      BY <2>5, <3>2, <3>3
  <2>7. \A q \in Procs : pc'[q] \in Walking \cup {"res.fold"} => q = p
    BY <1>0, <1>1, WriterStep, StateKinds DEF LockInv
  <2>8. pc'[p] \notin {"res.fold", "res.append"}
    BY <1>0, <1>1, AppendFrame DEF AppendStep
  <2>9. /\ mem'[p].seq = Len(log')
        /\ \A i \in 1 .. Len(log') : log'[i].epoch <= mem'[p].epoch
    <3>1. \A i \in 1 .. Len(log) : log'[i].epoch <= mem'[p].epoch
      BY <2>2, <2>3, <2>4
    <3>2. e.epoch <= mem'[p].epoch
      BY <2>1, <2>3, <2>4
    <3> QED
      BY <2>2, <2>3, <2>4, <2>5, <3>1, <3>2
  <2>10. "res.append" \in Walking
    BY StateKinds
  <2> QED
    BY <2>6, <2>7, <2>8, <2>9, <2>10 DEF SeqInv
<1>2. ASSUME NEW p \in Procs, SyncStep(p) \/ WalkingStep(p)
      PROVE  SeqInv'
  <2>1. log' = log /\ mem'[p].seq = mem[p].seq /\ mem'[p].epoch = mem[p].epoch
    <3>1. CASE WalkingStep(p)
      BY <1>0, <3>1, WalkFrame DEF WalkEffect
    <3>2. CASE SyncStep(p)
      <4>1. \/ mem'[p] = mem[p]
            \/ mem'[p] = [mem[p] EXCEPT !.done = @ \cup {mem[p].cur}, !.cur = 0, !.art = {}]
        BY <1>0, <3>2, SyncFrame
      <4>2. log' = log
        BY <1>0, <3>2, SyncFrame
      <4>3. mem[p] \in Memory
        BY <1>0
      <4> QED
        BY <4>1, <4>2, <4>3 DEF Memory
    <3> QED
      BY <1>2, <3>1, <3>2
  <2>2. pc[p] \in Walking /\ pc'[p] \notin {"res.fold", "res.append"}
    <3>1. CASE WalkingStep(p)
      <4>1. WalkEffect(p)
        BY <1>0, <3>1, WalkFrame
      <4> QED
        BY <4>1 DEF WalkEffect, Walking, Executing
    <3>2. CASE SyncStep(p)
      <4>1. pc'[p] \notin {"res.fold", "res.append"}
        BY <1>0, <3>2, SyncFrame DEF SyncStep
      <4> QED
        BY <3>2, <4>1 DEF SyncStep, SyncRunStarted, SyncRunResumed, SyncNodeCompleted,
           SyncNodeFailed, SyncRunFinished, Walking
    <3> QED
      BY <1>2, <3>1, <3>2
  <2>3. \A q \in Procs : q # p => pc'[q] = pc[q] /\ mem'[q] = mem[q]
    BY <1>0, <1>2, WriterStep
  <2> QED
    BY <2>1, <2>2, <2>3 DEF SeqInv, SeqAndEpoch
<1>3. ASSUME NEW p \in Procs, ControlStep(p)
      PROVE  SeqInv'
  <2>1. ControlEffect(p) /\ (Exit(p) => pc'[p] = "idle")
    BY <1>0, <1>3, ControlFrame, ExitEffect
  <2>2. log' = log
    BY <1>0, <2>1, StateKinds DEF ControlEffect, CreateInv
  <2>3. ASSUME pc'[p] = "res.fold", mem'[p] = Opened
        PROVE  /\ mem'[p].seq = Len(log)
               /\ \A i \in 1 .. Len(log) : log[i].epoch < mem'[p].epoch
               /\ mem'[p].epoch \in Nat
    <3>1. CASE log = <<>>
      BY <2>3, <3>1 DEF Opened, Blank
    <3>2. CASE log # <<>>
      <4>1. Len(log) \in 1 .. Len(log) /\ log[Len(log)] \in Record
        BY <1>0, <3>2
      <4>2. /\ mem'[p].seq = log[Len(log)].seq
            /\ mem'[p].epoch = log[Len(log)].epoch + 1
        BY <2>3, <3>2 DEF Opened, Blank
      <4>3. log[Len(log)].seq = Len(log)
        BY <4>1 DEF SeqInv, SeqAndEpoch
      <4>4. log[Len(log)].epoch \in Nat
        BY <4>1 DEF Record
      <4>5. ASSUME NEW i \in 1 .. Len(log)
            PROVE  log[i].epoch < log[Len(log)].epoch + 1
        <5>1. log[i].epoch \in Nat
          <6>1. log[i] \in Record
            BY <1>0
          <6> QED
            BY <6>1 DEF Record
        <5>2. CASE i = Len(log)
          BY <4>4, <5>2
        <5>3. CASE i # Len(log)
          <6>1. i \in 1 .. (Len(log) - 1)
            BY <1>0, <5>3
          <6>2. log[i].epoch <= log[Len(log)].epoch
            BY <4>1, <6>1 DEF SeqInv, SeqAndEpoch
          <6> QED
            BY <4>4, <5>1, <6>2
        <5> QED
          BY <5>2, <5>3
      <4> QED
        BY <4>2, <4>3, <4>4, <4>5
    <3> QED
      BY <3>1, <3>2
  <2>4. \/ pc'[p] \notin Walking \cup {"res.fold"}
        \/ pc'[p] = "res.fold" /\ mem'[p] = Opened
        \/ /\ pc[p] = "res.fold" /\ pc'[p] = "res.append"
           /\ mem'[p] = [mem[p] EXCEPT !.done = CompletedIn(log)]
    <3>1. {"idle", "run.lock", "run.remove", "run.start", "res.lock", "res.open"}
             \cap (Walking \cup {"res.fold"}) = {}
      BY DEF Walking, Executing
    <3> QED
      BY <2>1, <3>1 DEF ControlEffect
  <2>5. ASSUME NEW q \in Procs, pc'[q] \in Walking \cup {"res.fold"}
        PROVE  /\ mem'[q].seq = Len(log)
               /\ \A i \in 1 .. Len(log) : log[i].epoch <= mem'[q].epoch
               /\ pc'[q] \in {"res.fold", "res.append"} =>
                     \A i \in 1 .. Len(log) : log[i].epoch < mem'[q].epoch
    <3>1. CASE q # p
      <4>1. pc'[q] = pc[q] /\ mem'[q] = mem[q]
        BY <2>1, <3>1 DEF ControlEffect
      <4> QED
        BY <2>5, <4>1 DEF SeqInv
    <3>2. CASE q = p /\ pc'[p] = "res.fold" /\ mem'[p] = Opened
      <4>1. \A i \in 1 .. Len(log) : log[i].epoch \in Nat
        <5>1. \A i \in 1 .. Len(log) : log[i] \in Record
          BY <1>0
        <5> QED
          BY <5>1 DEF Record
      <4> QED
        BY <2>3, <3>2, <4>1
    <3>3. CASE /\ q = p /\ pc[p] = "res.fold" /\ pc'[p] = "res.append"
               /\ mem'[p] = [mem[p] EXCEPT !.done = CompletedIn(log)]
      <4>1. mem'[p].seq = mem[p].seq /\ mem'[p].epoch = mem[p].epoch
        BY <1>0, <3>3 DEF Memory
      <4> QED
        BY <3>3, <4>1 DEF SeqInv
    <3> QED
      BY <2>4, <2>5, <3>1, <3>2, <3>3
  <2>6. SeqAndEpoch'
    BY <2>2 DEF SeqInv, SeqAndEpoch
  <2>7. "res.append" \in Walking
    BY StateKinds
  <2> QED
    BY <2>2, <2>5, <2>6, <2>7 DEF SeqInv
<1>4. CASE \E r \in Refs : ForeignPut(r)
  BY <1>4 DEF ForeignPut, SeqInv, SeqAndEpoch
<1>5. CASE PowerFailure
  <2>1. /\ log' \in Seq(Record) /\ Len(log') \in 0 .. Len(log)
        /\ \A i \in 1 .. Len(log') : log'[i] = log[i]
    BY <1>0, <1>5, PowerLog
  <2>2. \A i \in 1 .. Len(log') : i \in 1 .. Len(log) /\ 1 .. (i - 1) \subseteq 1 .. Len(log')
    BY <1>0, <2>1
  <2>3. \A q \in Procs : pc'[q] = "idle"
    BY <1>5 DEF PowerFailure
  <2>4. SeqAndEpoch'
    BY <2>1, <2>2 DEF SeqInv, SeqAndEpoch
  <2> QED
    BY <2>3, <2>4, StateKinds DEF SeqInv
<1>6. CASE UNCHANGED vars
  BY <1>6 DEF vars, SeqInv, SeqAndEpoch
<1>7. QED
  BY <1>1, <1>2, <1>3, <1>4, <1>5, <1>6, NextCases

\* Events are numbered 1, 2, 3, ... across crashes, repairs and resumes, and
\* every resume opens an epoch that no earlier event carries.
THEOREM SeqAndEpochHolds ==
    ASSUME "short" \notin Faults
    PROVE  Spec => []SeqAndEpoch
<1>1. Init => CleanInv /\ SeqInv
  BY StateKinds DEF Init, CleanInv, SeqInv, SeqAndEpoch
<1>2. SeqInv => SeqAndEpoch
  BY DEF SeqInv
<1>3. QED
  BY <1>1, <1>2, BaseInvariant, CleanNext, SeqNext, PTL DEF Spec

\* All promises of a commit together: one writer, no pointer without its
\* artifacts, a commit that returned stays, no step is committed or executed
\* again behind its commit, numbers and epochs go up by one, and ok is complete
\* (engine/commit.go, state/log.go, state/lock.go).
THEOREM CommitSafeHolds ==
    ASSUME "short" \notin Faults, "dirent" \notin Faults
    PROVE  Spec => []CommitSafe
<1>1. /\ TypeOK /\ NoDanglingRef /\ DurableCommit /\ CommitOnce /\ NoRedispatch
      /\ SeqAndEpoch /\ SingleWriter /\ FinishedOkComplete
      => CommitSafe
  BY DEF CommitSafe
<1>2. QED
  BY <1>1, TypeCorrect, NoDanglingRefHolds, DurableCommitHolds, CommitOnceHolds, NoRedispatchHolds,
     SeqAndEpochHolds, SingleWriterHolds, FinishedOkCompleteHolds, PTL

-----------------------------------------------------------------------------
(* The journal implements the ledger.                                      *)

\* Each step of the journal is a step of CommitLedger, seen through
\* CompletedIn(log), or leaves the ledger unchanged.
THEOREM ImplementsLedger ==
    ASSUME "short" \notin Faults, "dirent" \notin Faults
    PROVE  Spec => LedgerSpec
<1>1. Init => Ledger!Init
  BY DEF Init, Ledger!Init, CompletedIn, OfType
<1>2. CommitInv /\ CommitInv' /\ [Next]_vars =>
         [Ledger!Next]_<<CompletedIn(log), acked>>
  <2> SUFFICES ASSUME CommitInv, CommitInv', Next
               PROVE  Ledger!Next \/ UNCHANGED <<CompletedIn(log), acked>>
    BY DEF vars, CompletedIn, OfType
  <2>0. /\ BaseInv /\ TInv /\ TypeOK /\ CreateInv /\ CleanInv /\ MirrorInv
        /\ log \in Seq(Record)
    BY DEF CommitInv, BaseInv, TInv, TypeOK
  <2>1. ASSUME NEW p \in Procs, AppendStep(p)
        PROVE  Ledger!Next \/ UNCHANGED <<CompletedIn(log), acked>>
    <3>1. PICK e \in Record :
             /\ log' = Append(log, e)
             /\ e.type = "node.completed" => AppendNodeCompleted(p) /\ e.node = mem[p].cur
      BY <2>0, <2>1, CleanAppend
    <3>2. acked' = acked
      BY <2>0, <2>1, AppendFrame
    <3>3. CASE e.type # "node.completed"
      BY <2>0, <3>1, <3>2, <3>3, AppendCompleted
    <3>4. CASE e.type = "node.completed"
      <4>1. CompletedIn(log)' = CompletedIn(log) \cup {mem[p].cur}
        BY <2>0, <3>1, <3>4, AppendCompleted
      <4>2. pc[p] = "commit.append"
        BY <3>1, <3>4 DEF AppendNodeCompleted
      <4>3. /\ mem[p].cur \in 1 .. N
            /\ mem[p].cur \notin CompletedIn(log)
            /\ \A i \in 1 .. (mem[p].cur - 1) : i \in CompletedIn(log)
        BY <2>0, <4>2 DEF TInv, CurOK, Nodes, MirrorInv, Mirror, Walking, Executing
      <4> QED
        BY <3>2, <4>1, <4>3 DEF Ledger!Next, Ledger!Expose
    <3> QED
      BY <3>3, <3>4
  <2>2. ASSUME NEW p \in Procs, SyncStep(p)
        PROVE  Ledger!Next \/ UNCHANGED <<CompletedIn(log), acked>>
    <3>1. log' = log /\ CompletedIn(log)' = CompletedIn(log)
      BY <2>0, <2>2, SyncFrame
    <3>2. CASE SyncNodeCompleted(p)
      <4>1. /\ acked' = acked \cup {mem[p].cur} /\ mem[p].cur \in 1 .. N
            /\ mem[p].cur \in CompletedIn(log)
        BY <2>0, <3>2 DEF SyncNodeCompleted, MirrorInv, Mirror, TInv, CurOK, Nodes
      <4> QED
        BY <3>1, <4>1 DEF Ledger!Next, Ledger!Acknowledge
    <3>3. CASE ~SyncNodeCompleted(p)
      BY <2>0, <2>2, <3>1, <3>3, SyncFrame
    <3> QED
      BY <3>2, <3>3
  <2>3. ASSUME NEW p \in Procs, WalkingStep(p)
        PROVE  UNCHANGED <<CompletedIn(log), acked>>
    BY <2>0, <2>3, WalkFrame DEF WalkEffect
  <2>4. ASSUME NEW p \in Procs, ControlStep(p)
        PROVE  UNCHANGED <<CompletedIn(log), acked>>
    <3>1. log' = log /\ acked' = acked
      BY <2>0, <2>4, ControlFrame, StateKinds DEF ControlEffect, CreateInv
    <3> QED
      BY <3>1
  <2>5. CASE \E r \in Refs : ForeignPut(r)
    BY <2>5 DEF ForeignPut
  <2>6. CASE PowerFailure
    <3>1. CompletedIn(log)' \subseteq CompletedIn(log) /\ acked' = acked
      BY <2>0, <2>6, PowerLog DEF PowerFailure
    <3>2. acked' \subseteq CompletedIn(log)'
      <4>1. stable' \in 0 .. Len(log') /\ log' \in Seq(Record)
        BY DEF CommitInv, BaseInv, TInv, TypeOK
      <4>2. \A n \in acked' : \E i \in 1 .. stable' : CompletedAt(n, i)'
        BY DEF CommitInv, AckInv
      <4>3. 1 .. stable' \subseteq 1 .. Len(log')
        BY <4>1
      <4> QED
        BY <4>2, <4>3 DEF CompletedIn, OfType, CompletedAt
    <3> QED
      BY <3>1, <3>2 DEF Ledger!Next, Ledger!Lose
  <2> QED
    BY <2>1, <2>2, <2>3, <2>4, <2>5, <2>6, NextCases
<1>3. QED
  BY <1>1, <1>2, CommitInvariant, PTL DEF Spec, LedgerSpec, Ledger!Spec
=============================================================================
