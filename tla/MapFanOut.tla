----------------------------- MODULE MapFanOut -----------------------------
(***************************************************************************)
(* One map node of a workflow: engine/map.go with the prune frontier of    *)
(* engine/prune.go and the fan-in of engine/reduce.go.  Every item is a    *)
(* goroutine with its own context; the handler joins them, commits the     *)
(* frontier of a prune map, tallies and reduces.  A driver may die or be   *)
(* interrupted, and a later driver of the run enters the map again.        *)
(*                                                                         *)
(* The body of an item is one producing step, whose typed output is a      *)
(* score; the walk of longer bodies is ControlFlow.  Appends are durable   *)
(* when they return, which is what RunJournal shows; `journal' is the fold *)
(* of the events of this node, since their order does not matter to it.    *)
(***************************************************************************)
EXTENDS Integers, FiniteSets, FiniteSetsExt

CONSTANTS
  MaxItems,    \* length of `over' in the first definition
  Scores,      \* scores a body may commit
  Target,      \* stop_when is best.score >= Target; a vote is score >= Target
  Definitions, \* the map definitions of the instance
  MaxEpoch,    \* bound on the drivers of the run
  MaxFaults    \* bound on failures, interrupts, crashes and edits

ASSUME MapAssumption ==
  /\ MaxItems \in Nat \ {0}
  /\ Scores \subseteq Nat \ {0} /\ Target \in Nat \ {0} \* 0 stands for no output
  /\ MaxEpoch \in Nat \ {0} /\ MaxFaults \in Nat
  /\ \A d \in Definitions :
       /\ d.size \in 0 .. MaxItems /\ d.k \in Nat
       /\ d.prune \in {"none", "keep", "stop"} /\ d.reduce \in {"none", "quorum", "run"}

VARIABLES
  def,       \* the definition: prune, k, min, cap, reduce, image
  size,      \* length of `over' as the current driver evaluates it
  journal,   \* fold of the node's events
  mem,       \* RunState.MapItems: item -> status, "pending" while it runs
  pc,        \* position of each item's goroutine
  local,     \* what dispatchItem will return or commit for each item
  pr,        \* the pruneRun: registry of cancels, pruned set, scores
  live,      \* containers created and not yet destroyed
  statusErr, \* the first internal error: "none", "internal", "definition"
  main,      \* the handler: "idle", "fan", "joined", "reduce" or a result
  cancelled, \* the context of the walk
  epoch, faults,
  seen       \* history: a definition fault happened under this driver

vars == <<def, size, journal, mem, pc, local, pr, live, statusErr, main,
          cancelled, epoch, faults, seen>>

Items == 1 .. MaxItems
Statuses == {"item_passed", "item_failed", "item_pruned"}
Results == {"ok", "retryable", "permanent", "internal"}
NoItem == [status |-> "none", outcome |-> "none", reason |-> "none"]
NoReduce == [done |-> FALSE, agree |-> 0, votes |-> 0, verdict |-> FALSE]
NoDecision == [stop |-> FALSE, losers |-> {}]

\* nil, an integer or a fraction num/den, read against a total
ratioThreshold(r, total) ==
  CASE r.kind = "int"  -> IF r.num > total THEN total ELSE r.num
    [] r.kind = "frac" -> LET ceil == (r.num * total + r.den - 1) \div r.den
                          IN  IF ceil < 1 THEN 1 ELSE ceil
    [] OTHER -> total

WithStatus(st, s) == {i \in 1 .. size : st[i] = s}

\* the verdict of the handler over the items' statuses
TallyPasses(st) ==
  LET total == size - Cardinality(WithStatus(st, "item_pruned"))
  IN  Cardinality(WithStatus(st, "item_passed")) >= ratioThreshold(def.min, total)

isPruned(p, i) == i \in p.pruned \/ (p.stopAll /\ i \notin p.completed)

ItemCancelled(i) == cancelled \/ i \in pr.cancelled

\* best scores first, ties to the lower index; everything past k loses
Beats(sc, i, j) == sc[i] > sc[j] \/ (sc[i] = sc[j] /\ i < j)
lowestBeyondK(sc, scored, k) ==
  {i \in scored : Cardinality({j \in scored : Beats(sc, j, i)}) >= k}

Committed(i) == journal.items[i].status # "none"

\* only a retryable failure of a plain map that was not for want of an image
shouldRerunItem(i) ==
  /\ epoch > 1 /\ def.prune = "none"
  /\ journal.items[i].status = "item_failed"
  /\ journal.items[i].reason # "image_unavailable"
  /\ journal.items[i].outcome = "retryable"

IdleRun == [registered |-> {}, cancelled |-> {}, pruned |-> {}, completed |-> {},
            stopAll |-> FALSE, scored |-> {},
            decision |-> [i \in Items |-> NoDecision]]

Init ==
  /\ def \in Definitions
  /\ size = def.size
  /\ journal = [body |-> [i \in Items |-> 0], items |-> [i \in Items |-> NoItem],
                frontiers |-> 0, reduce |-> NoReduce]
  /\ mem = [i \in Items |-> "none"]
  /\ pc = [i \in Items |-> "idle"]
  /\ local = [i \in Items |-> NoItem]
  /\ pr = IdleRun
  /\ live = {} /\ statusErr = "none" /\ main = "idle" /\ cancelled = FALSE
  /\ epoch = 1 /\ faults = 0 /\ seen = FALSE

Fault == faults < MaxFaults /\ faults' = faults + 1

-----------------------------------------------------------------------------
(* The handler up to the fan-out. *)

Fresh(i) == i <= size /\ (~ Committed(i) \/ shouldRerunItem(i))

StartAt(Dispatched(_)) ==
  /\ main = "idle"
  /\ size > 0 /\ \A i \in Items : Committed(i) => i <= size
  /\ main' = "fan"
  /\ pc' = [i \in Items |-> IF Dispatched(i) THEN "start" ELSE "done"]
  /\ local' = [i \in Items |-> IF Dispatched(i) THEN NoItem ELSE journal.items[i]]
  /\ mem' = [i \in Items |-> IF Dispatched(i) THEN "pending" ELSE mem[i]]
  /\ UNCHANGED <<def, size, journal, pr, live, statusErr, cancelled, epoch, faults, seen>>

StartRerunsPermanent ==
  StartAt(LAMBDA i : i <= size /\ journal.items[i].status \notin {"item_passed", "item_pruned"})

\* committed items replay, the others get a pending record and a goroutine
MapStart == StartAt(Fresh)

Return(r) ==
  /\ main' = r
  /\ UNCHANGED <<def, size, pc, local, pr, live, statusErr, cancelled, epoch, seen>>

\* no items, or `over' yields fewer items than a past driver committed
MapTrivial ==
  /\ main = "idle"
  /\ \/ size = 0 /\ Return("ok")
     \/ size > 0 /\ (\E i \in Items : i > size /\ Committed(i)) /\ Return("internal")
  /\ UNCHANGED <<journal, mem, faults>>

\* `over' does not evaluate, or not to an array
OverFails ==
  /\ main = "idle" /\ Fault
  /\ Return("permanent")
  /\ UNCHANGED <<journal, mem>>

-----------------------------------------------------------------------------
(* One item. *)

Goto(i, l) == pc' = [pc EXCEPT ![i] = l]
Only(i, l) ==
  /\ Goto(i, l)
  /\ UNCHANGED <<def, size, journal, mem, local, pr, live, statusErr, main,
                 cancelled, epoch, faults, seen>>

\* statusErr: the first error wins, and not that of a pruned item
Raise(i, e) ==
  IF (def.prune # "none" /\ isPruned(pr, i)) \/ statusErr # "none"
  THEN UNCHANGED statusErr
  ELSE statusErr' = e

Holding == {i \in Items : pc[i] \in {"slot", "create", "body", "commit", "report", "decide", "apply"}}

\* a prune map registers the item's cancel before it looks at the pruned set
ItemRegister(i) ==
  /\ pc[i] = "start"
  /\ Goto(i, IF def.prune = "none" THEN "wait" ELSE "queued")
  /\ pr' = IF def.prune = "none" THEN pr ELSE [pr EXCEPT !.registered = @ \cup {i}]
  /\ UNCHANGED <<def, size, journal, mem, local, live, statusErr, main, cancelled,
                 epoch, faults, seen>>

QueuedLosesDone(i) ==
  /\ pc[i] = "queued"
  /\ Only(i, IF isPruned(pr, i) THEN "idle" ELSE "wait")

ItemQueued(i) ==
  /\ pc[i] = "queued"
  /\ Only(i, IF isPruned(pr, i) THEN "done" ELSE "wait")

ItemAcquire(i) ==
  /\ pc[i] = "wait"
  /\ Cardinality(Holding) < def.cap
  /\ Only(i, "slot")

\* the context ends while the item waits for a slot
ItemAcquireCancelled(i) ==
  /\ pc[i] = "wait" /\ ItemCancelled(i)
  /\ Goto(i, "done")
  /\ Raise(i, "internal")
  /\ UNCHANGED <<def, size, journal, mem, local, pr, live, main, cancelled, epoch,
                 faults, seen>>

ItemRecheck(i) ==
  /\ pc[i] = "slot"
  /\ Only(i, IF def.prune # "none" /\ isPruned(pr, i) THEN "done" ELSE "create")

ItemCreate(i) ==
  /\ pc[i] = "create"
  /\ live' = live \cup {i}
  /\ Goto(i, "body")
  /\ UNCHANGED <<def, size, journal, mem, local, pr, statusErr, main, cancelled,
                 epoch, faults, seen>>

\* dispatchItem ends with an error: the deferred Destroy runs, runMap records it
DispatchError(i, e) ==
  /\ Goto(i, "done")
  /\ live' = live \ {i}
  /\ Raise(i, e)
  /\ UNCHANGED <<def, size, journal, mem, local, pr, main, cancelled, epoch>>

\* the image template does not render, or the backend refuses the spec
CreateDefinitionFault(i) ==
  /\ pc[i] = "create" /\ Fault /\ def.image
  /\ seen' = TRUE
  /\ DispatchError(i, "definition")

\* a static container does not start, or the context ended during Create
CreateFails(i) ==
  /\ pc[i] = "create" /\ UNCHANGED seen
  /\ \/ Fault /\ ~ def.image
     \/ ItemCancelled(i) /\ UNCHANGED faults
  /\ DispatchError(i, "internal")

\* dispatchItem has a status: a plain map commits it, a prune map defers it
BodyEnds(i, rec) ==
  /\ local' = [local EXCEPT ![i] = rec]
  /\ IF def.prune = "none"
     THEN Goto(i, "commit") /\ UNCHANGED live
     ELSE /\ Goto(i, IF rec.status = "item_passed" THEN "report" ELSE "done")
          /\ live' = live \ {i}

Passed == [status |-> "item_passed", outcome |-> "none", reason |-> "none"]
FailedWith(oc) == [status |-> "item_failed", outcome |-> oc, reason |-> "none"]

ImageUnavailable(i) ==
  /\ pc[i] = "create" /\ Fault /\ def.image
  /\ BodyEnds(i, [status |-> "item_failed", outcome |-> "none",
                  reason |-> "image_unavailable"])
  /\ UNCHANGED <<def, size, journal, mem, pr, statusErr, main, cancelled, epoch, seen>>

\* the step of the body is committed already, or commits a score now
BodyPasses(i) ==
  /\ pc[i] = "body"
  /\ \E s \in IF journal.body[i] # 0 THEN {journal.body[i]}
              ELSE IF def.prune = "none" /\ def.reduce = "none" THEN {Target} ELSE Scores :
       journal' = [journal EXCEPT !.body[i] = s]
  /\ BodyEnds(i, Passed)
  /\ UNCHANGED <<def, size, mem, pr, statusErr, main, cancelled, epoch, faults, seen>>

BodySkips(i) ==
  /\ pc[i] = "body" /\ journal.body[i] = 0 /\ Fault
  /\ BodyEnds(i, Passed)
  /\ UNCHANGED <<def, size, journal, mem, pr, statusErr, main, cancelled, epoch, seen>>

BodyFails(i) ==
  /\ pc[i] = "body" /\ journal.body[i] = 0
  /\ \/ Fault /\ \E oc \in {"retryable", "permanent"} : BodyEnds(i, FailedWith(oc))
     \/ ItemCancelled(i) /\ BodyEnds(i, FailedWith("retryable")) /\ UNCHANGED faults
  /\ UNCHANGED <<def, size, journal, mem, pr, statusErr, main, cancelled, epoch, seen>>

BodyInternal(i) ==
  /\ pc[i] = "body" /\ journal.body[i] = 0 /\ Fault /\ UNCHANGED seen
  /\ DispatchError(i, "internal")

\* map.item, appended and synced, then the deferred Destroy
commitMapItem(i) ==
  /\ pc[i] = "commit"
  /\ journal' = [journal EXCEPT !.items[i] = local[i]]
  /\ mem' = [mem EXCEPT ![i] = local[i].status]
  /\ live' = live \ {i}
  /\ Goto(i, "done")
  /\ UNCHANGED <<def, size, local, pr, statusErr, main, cancelled, epoch, faults, seen>>

-----------------------------------------------------------------------------
(* pruneRun.report: three critical sections of two mutexes. *)

\* a body that committed no output cannot be scored
ReportMark(i) ==
  /\ pc[i] = "report"
  /\ IF journal.body[i] = 0
     THEN Goto(i, "done") /\ Raise(i, "internal") /\ UNCHANGED pr
     ELSE /\ Goto(i, "decide") /\ UNCHANGED statusErr
          /\ pr' = [pr EXCEPT !.completed = @ \cup {i}]
  /\ UNCHANGED <<def, size, journal, mem, local, live, main, cancelled, epoch, faults, seen>>

Decision(scored) ==
  IF def.prune = "stop"
  THEN [stop |-> \E j \in scored : journal.body[j] >= Target, losers |-> {}]
  ELSE [stop |-> FALSE,
        losers |-> IF Cardinality(scored) <= def.k THEN {}
                   ELSE lowestBeyondK(journal.body, scored, def.k)]

ReportDecide(i) ==
  /\ pc[i] = "decide"
  /\ LET scored == pr.scored \cup {i}
     IN  pr' = [pr EXCEPT !.scored = scored, !.decision[i] = Decision(scored)]
  /\ Goto(i, "apply")
  /\ UNCHANGED <<def, size, journal, mem, local, live, statusErr, main, cancelled, epoch,
                 faults, seen>>

Prune(i, losers, all) ==
  /\ pr' = [pr EXCEPT !.pruned = @ \cup losers, !.cancelled = @ \cup losers,
                      !.stopAll = @ \/ all, !.decision[i] = NoDecision]
  /\ Goto(i, "done")
  /\ UNCHANGED <<def, size, journal, mem, local, live, statusErr, main, cancelled, epoch,
                 faults, seen>>

\* losers of top(k), or every registered item that has not completed
ReportApply(i) ==
  /\ pc[i] = "apply"
  /\ IF pr.decision[i].stop
     THEN Prune(i, pr.registered \ pr.completed, TRUE)
     ELSE Prune(i, pr.decision[i].losers, FALSE)

\* the score is not a number, or stop_when does not evaluate
ReportFails(i) ==
  /\ pc[i] = "decide" /\ Fault
  /\ Goto(i, "done")
  /\ statusErr' = IF statusErr = "none" THEN "internal" ELSE statusErr
  /\ UNCHANGED <<def, size, journal, mem, local, pr, live, main, cancelled, epoch, seen>>

-----------------------------------------------------------------------------
(* The handler after the join. *)

Joined == main = "fan" /\ \A i \in 1 .. size : pc[i] = "done"

Final(i) ==
  IF ~ Committed(i) /\ isPruned(pr, i)
  THEN [status |-> "item_pruned", outcome |-> "none", reason |-> "none"]
  ELSE [local[i] EXCEPT !.outcome = "none", !.reason = "none"]

FrontierOf ==
  IF def.prune = "none" \/ statusErr # "none"
     \/ \A i \in 1 .. size : Committed(i)
  THEN UNCHANGED <<journal, mem, local>>
  ELSE LET disposition == [i \in Items |-> IF i > size \/ Committed(i)
                                           THEN journal.items[i] ELSE Final(i)]
       IN  /\ journal' = [journal EXCEPT !.items = disposition, !.frontiers = @ + 1]
           /\ local' = disposition
           /\ mem' = [i \in Items |-> IF i > size THEN mem[i] ELSE disposition[i].status]

\* map.frontier: every fresh disposition of a prune map in one event
commitMapFrontier ==
  /\ Joined
  /\ main' = "joined"
  /\ FrontierOf
  /\ UNCHANGED <<def, size, pc, pr, live, statusErr, cancelled, epoch, faults, seen>>

LocalStatus == [i \in Items |-> local[i].status]

TallyIgnoresPruned ==
  /\ main = "joined"
  /\ \/ statusErr = "internal" /\ Return("internal")
     \/ statusErr = "definition" /\ Return("permanent")
     \/ statusErr = "none" /\ def.reduce # "none" /\ Return("reduce")
     \/ /\ statusErr = "none" /\ def.reduce = "none"
        /\ Return(IF Cardinality(WithStatus(LocalStatus, "item_passed"))
                             >= ratioThreshold(def.min, size) THEN "ok" ELSE "retryable")
  /\ UNCHANGED <<journal, mem, faults>>

\* an internal error, a definition error, the tally, or on to the reduce
Tally ==
  /\ main = "joined"
  /\ \/ statusErr = "internal" /\ Return("internal")
     \/ statusErr = "definition" /\ Return("permanent")
     \/ statusErr = "none" /\ def.reduce # "none" /\ Return("reduce")
     \/ /\ statusErr = "none" /\ def.reduce = "none"
        /\ Return(IF TallyPasses(LocalStatus) THEN "ok" ELSE "retryable")
  /\ UNCHANGED <<journal, mem, faults>>

\* the passed items of the RunState that committed an output
collectReduceBranches == {i \in Items : mem[i] = "item_passed" /\ journal.body[i] # 0}

Cohort == size - Cardinality(WithStatus(LocalStatus, "item_pruned"))

ReduceReplay ==
  /\ main = "reduce" /\ journal.reduce.done
  /\ Return("ok") /\ UNCHANGED <<journal, mem, faults>>

CommitReduce(branches, cohort) ==
  LET agree == Cardinality({i \in branches : journal.body[i] >= Target})
  IN  journal' = [journal EXCEPT !.reduce =
        [done |-> TRUE, agree |-> agree, votes |-> cohort,
         verdict |-> agree >= ratioThreshold(def.quorum, cohort)]]

\* always commits and always ok: a miss is a verdict, not a failure
runQuorumReduce ==
  /\ main = "reduce" /\ ~ journal.reduce.done /\ def.reduce = "quorum"
  /\ CommitReduce(collectReduceBranches, Cohort)
  /\ Return("ok") /\ UNCHANGED <<mem, faults>>

\* a command over the staged branches: commits, fails, or dies with the context
runCommandReduce ==
  /\ main = "reduce" /\ ~ journal.reduce.done /\ def.reduce = "run"
  /\ \/ /\ CommitReduce(collectReduceBranches, Cohort)
        /\ Return("ok") /\ UNCHANGED faults
     \/ /\ Fault /\ UNCHANGED journal
        /\ \E r \in {"retryable", "permanent", "internal"} : Return(r)
     \/ cancelled /\ Return("retryable") /\ UNCHANGED <<journal, faults>>
  /\ UNCHANGED mem

-----------------------------------------------------------------------------
(* The environment. *)

Interrupt ==
  /\ main \in {"fan", "reduce"} /\ ~ cancelled /\ Fault
  /\ cancelled' = TRUE
  /\ UNCHANGED <<def, size, journal, mem, pc, local, pr, live, statusErr, main, epoch, seen>>

Alive == main \notin Results \cup {"dead"}

Crash ==
  /\ Alive /\ Fault
  /\ main' = "dead"
  /\ pc' = [i \in Items |-> "idle"]
  /\ UNCHANGED <<def, size, journal, mem, local, pr, live, statusErr, cancelled, epoch, seen>>

\* a later driver folds the log and reaches the map again: the map failed, or
\* something after it did.  An edit of the definition may shorten `over'.
Drive ==
  /\ main \in Results \cup {"dead"}
  /\ epoch < MaxEpoch /\ epoch' = epoch + 1
  /\ main' = "idle"
  /\ \/ UNCHANGED <<size, faults>>
     \/ Fault /\ size' = size - 1 /\ size > 0
  /\ mem' = [i \in Items |-> journal.items[i].status]
  /\ pc' = [i \in Items |-> "idle"]
  /\ local' = [i \in Items |-> NoItem]
  /\ pr' = IdleRun /\ live' = {} /\ statusErr' = "none" /\ cancelled' = FALSE
  /\ seen' = FALSE
  /\ UNCHANGED <<def, journal>>

ItemStep(i) ==
  \/ ItemRegister(i) \/ ItemQueued(i) \/ ItemAcquire(i) \/ ItemAcquireCancelled(i)
  \/ ItemRecheck(i) \/ ItemCreate(i) \/ BodyPasses(i) \/ commitMapItem(i)
  \/ ReportMark(i) \/ ReportDecide(i) \/ ReportApply(i)

ItemTrouble(i) ==
  \/ CreateDefinitionFault(i) \/ CreateFails(i) \/ ImageUnavailable(i)
  \/ BodySkips(i) \/ BodyFails(i) \/ BodyInternal(i) \/ ReportFails(i)

Handler ==
  \/ MapStart \/ MapTrivial \/ commitMapFrontier \/ Tally
  \/ ReduceReplay \/ runQuorumReduce \/ runCommandReduce

Next ==
  \/ Handler \/ OverFails
  \/ \E i \in Items : ItemStep(i) \/ ItemTrouble(i)
  \/ Interrupt \/ Crash \/ Drive

Spec == Init /\ [][Next]_vars

\* goroutines are scheduled, bodies end, a free slot is given to a waiter
FairSpec ==
  /\ Spec
  /\ WF_vars(Handler)
  /\ \A i \in Items : WF_vars(ItemStep(i) \/ ItemTrouble(i))

-----------------------------------------------------------------------------
(* Properties. *)

TypeOK ==
  /\ size \in 0 .. MaxItems
  /\ journal.body \in [Items -> Scores \cup {0, Target}]
  /\ \A i \in Items : journal.items[i].status \in Statuses \cup {"none"}
  /\ mem \in [Items -> Statuses \cup {"none", "pending"}]
  /\ pc \in [Items -> {"idle", "start", "queued", "wait", "slot", "create", "body",
                       "commit", "report", "decide", "apply", "done"}]
  /\ pr.pruned \subseteq Items /\ pr.completed \subseteq Items /\ live \subseteq Items
  /\ statusErr \in {"none", "internal", "definition"}
  /\ main \in Results \cup {"idle", "fan", "joined", "reduce", "dead"}

Disposed(s) == {i \in Items : journal.items[i].status = s}

\* keep: top(k) commits the k best of the items that passed, whatever the order
\* in which their goroutines reported (prune.go, lowestBeyondK; map.go, 3c).
FrontierIsTopK ==
  def.prune = "keep" /\ journal.frontiers > 0 =>
    LET ran == Disposed("item_passed") \cup Disposed("item_pruned")
    IN  Disposed("item_pruned") = lowestBeyondK(journal.body, ran, def.k)

\* stop_when discards items only for the sake of a survivor that reached the
\* target (prune.go, the completed set against a concurrent StopAll).
StopHasWinner ==
  def.prune = "stop" /\ Disposed("item_pruned") # {} =>
    \E i \in Disposed("item_passed") : journal.body[i] >= Target

\* What an item came to is final: passed, pruned and permanently failed items
\* keep their disposition over every resume, and a committed body its output.
DispositionFinal ==
  [][/\ \A i \in Items :
          LET r == journal.items[i]
          IN  r.status \in {"item_passed", "item_pruned"} \/ r.outcome = "permanent"
              => journal'.items[i] = r
     /\ \A i \in Items : journal.body[i] # 0 => journal'.body[i] = journal.body[i]
     /\ journal.frontiers > 0 => journal'.items = journal.items]_vars

\* The verdict a driver returned is the verdict a reader of the log computes:
\* statuses in the goroutines' memory and in the fold agree (map.go, 5).  A map
\* of no items is ok, which a fractional min_success would not say of a tally.
VerdictFromLog ==
  main \in {"ok", "retryable"} /\ def.reduce = "none" =>
    (main = "ok") = (size = 0 \/ TallyPasses([i \in Items |-> journal.items[i].status]))

\* Nothing outlives the handler: when it returns, no item goroutine runs and
\* every per-item container was destroyed, on error paths too.
NoLeak ==
  main \in Results => live = {} /\ \A i \in 1 .. size : pc[i] \in {"done", "idle"}

\* A broken image template or container spec is never counted as a tolerated
\* item failure: it fails the map (map.go, createConfigError), unless stop_when
\* discarded the item.
FailsLoud ==
  seen /\ main \in Results /\ def.prune # "stop" => main \in {"permanent", "internal"}

\* A quorum counts the agreeing survivors against every item that was not
\* pruned, the crashed ones included, and is committed once (reduce.go).
QuorumHonest ==
  [][journal'.reduce # journal.reduce =>
       /\ ~ journal.reduce.done
       /\ LET cohort == size - Cardinality(Disposed("item_pruned") \cap (1 .. size))
              agree == {i \in Disposed("item_passed") : journal.body[i] >= Target}
          IN  journal'.reduce.verdict =
                (Cardinality(agree) >= ratioThreshold(def.quorum, cohort))]_vars

\* A map that was entered returns or its process dies: a pruned or cancelled
\* item never keeps its slot or waits for ever.
MapReturns == (main = "idle") ~> (main \in Results \cup {"dead"})

\* A map that ends is told by its log: the items it kept are the best, the ones
\* it stopped lost to one that reached the target, its verdict follows from the
\* recorded dispositions, a fault of the definition is never tolerated, and no
\* container and no goroutine of it is left.
MapSafe ==
    /\ TypeOK
    /\ FrontierIsTopK
    /\ StopHasWinner
    /\ VerdictFromLog
    /\ NoLeak
    /\ FailsLoud

\* What a map has recorded of an item or of its reduction is final, and a quorum
\* counts what the items really said.
MapRecords ==
    /\ DispositionFinal
    /\ QuorumHonest
=============================================================================
