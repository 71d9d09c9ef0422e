------------------------------ MODULE MapProofs ------------------------------
(***************************************************************************)
(* Proofs about the map node.  What a map commits is settled while its     *)
(* items race, so the inductive invariant follows the prune run: every     *)
(* loser decided so far loses against the items scored so far (a bigger    *)
(* field has only more losers), every loser of the field is pruned or      *)
(* about to be, a stop has a winner that is not pruned, and an item that   *)
(* ended without an error is scored or recorded.  With all items joined    *)
(* this is what the frontier, the verdict and the quorum say of the log.   *)
(***************************************************************************)
EXTENDS MapFanOut, FiniteSetTheorems, TLAPS

-----------------------------------------------------------------------------
(* The inductive invariant.                                                *)

Points == {"idle", "start", "queued", "wait", "slot", "create", "body",
           "commit", "report", "decide", "apply", "done"}

ItemRecords ==
  [status : Statuses \cup {"none"}, outcome : {"none", "retryable", "permanent"},
   reason : {"none", "image_unavailable"}]

Prunes ==
  [registered : SUBSET Items, cancelled : SUBSET Items, pruned : SUBSET Items,
   completed : SUBSET Items, stopAll : BOOLEAN, scored : SUBSET Items,
   decision : [Items -> [stop : BOOLEAN, losers : SUBSET Items]]]

Reduces == [done : BOOLEAN, agree : Nat, votes : Int, verdict : BOOLEAN]

Journals ==
  [body : [Items -> Scores \cup {0, Target}], items : [Items -> ItemRecords],
   frontiers : Nat, reduce : Reduces]

Typed ==
  /\ def \in Definitions
  /\ size \in 0 .. MaxItems
  /\ journal \in Journals
  /\ mem \in [Items -> Statuses \cup {"none", "pending"}]
  /\ pc \in [Items -> Points]
  /\ local \in [Items -> ItemRecords]
  /\ pr \in Prunes
  /\ live \subseteq Items
  /\ statusErr \in {"none", "internal", "definition"}
  /\ main \in Results \cup {"idle", "fan", "joined", "reduce", "dead"}

Working(i) == pc[i] \notin {"idle", "done"}

\* the goroutine and the RunState know what the log says of the item
Recorded(i) ==
  /\ local[i].status = journal.items[i].status
  /\ mem[i] = journal.items[i].status

\* goroutines run only while the handler fans out, and containers with them
Phases ==
  /\ main # "fan" => \A i \in Items : ~ Working(i)
  /\ main = "idle" => /\ pr = IdleRun /\ live = {} /\ statusErr = "none" /\ ~ seen
                      /\ \A i \in Items : mem[i] = journal.items[i].status
  /\ main \in {"fan", "joined", "reduce"} => size > 0
  /\ main = "reduce" => statusErr = "none" /\ def.reduce # "none"
  /\ main # "dead" => \A i \in live : pc[i] \in {"body", "commit"}

\* items past the end of `over' have no goroutine
Beyond ==
  main = "fan" => \A i \in Items : i > size => ~ Working(i) /\ Recorded(i)

\* joined without an error: every item is recorded
JoinedRecorded ==
  main \in {"joined", "reduce"} /\ statusErr = "none" => \A i \in Items : Recorded(i)

Faulty == seen /\ def.prune # "stop" => statusErr # "none"

\* what the log may say of items: a running one has no final disposition, and
\* the frontier of a prune map is committed as a whole
Dispositions ==
  /\ \A i \in Items : ~ Committed(i) => journal.items[i] = NoItem
  /\ \A i \in Items : Working(i) =>
       \/ ~ Committed(i)
       \/ journal.items[i].status = "item_failed" /\ journal.items[i].outcome = "retryable"
  /\ def.prune = "none" => journal.frontiers = 0
  /\ def.prune # "none" /\ journal.frontiers = 0 => \A i \in Items : ~ Committed(i)
  /\ def.prune # "none" /\ journal.frontiers > 0 =>
       /\ \A i \in 1 .. size : Committed(i)
       /\ \A i \in Items : ~ Working(i)

Plain ==
  def.prune = "none" =>
    /\ pr = IdleRun
    /\ \A i \in Items : pc[i] \notin {"queued", "report", "decide", "apply"}
    /\ \A i \in Items : pc[i] = "commit" => local[i].status # "none"
    /\ statusErr = "none" => \A i \in Items : pc[i] = "done" => Recorded(i)

\* how far an item of a prune map has come with its report
Reporting(i) ==
  /\ i \in pr.scored => /\ i \in pr.completed /\ journal.body[i] # 0
                        /\ local[i].status = "item_passed" /\ pc[i] \in {"apply", "done"}
  /\ pc[i] \in {"report", "decide", "apply"} => local[i].status = "item_passed"
  /\ pc[i] \in {"decide", "apply"} => journal.body[i] # 0 /\ i \in pr.completed
  /\ pc[i] = "apply" => i \in pr.scored
  /\ journal.frontiers = 0 => local[i].status # "item_pruned"

Pruning ==
  def.prune # "none" =>
    /\ \A i \in Items : pc[i] # "commit"
    /\ main = "fan" => \A i \in Items : Reporting(i)
    /\ main = "fan" /\ journal.frontiers > 0 => pr = IdleRun /\ \A i \in Items : Recorded(i)

Losers == lowestBeyondK(journal.body, pr.scored, def.k)

\* keep: the decisions, applied or not, are the losers of the scored field
Keeping ==
  def.prune = "keep" /\ main = "fan" =>
    /\ ~ pr.stopAll /\ \A i \in Items : ~ pr.decision[i].stop
    /\ pr.pruned \subseteq Losers
    /\ \A i \in Items : pr.decision[i].losers \subseteq Losers
    /\ \A j \in Losers : \/ j \in pr.pruned
                         \/ \E a \in Items : pc[a] = "apply" /\ j \in pr.decision[a].losers

\* keep: who passed has been scored, unless an error was raised
KeptScored ==
  def.prune = "keep" /\ main = "fan" /\ journal.frontiers = 0 /\ statusErr = "none" =>
    \A i \in Items : pc[i] = "done" /\ local[i].status = "item_passed" => i \in pr.scored

\* an item of a prune map that ended without a status is pruned, or an error was raised
Ended ==
  def.prune # "none" /\ main = "fan" /\ journal.frontiers = 0 /\ statusErr = "none" =>
    \A i \in 1 .. size : pc[i] = "done" => local[i].status # "none" \/ isPruned(pr, i)

\* stop_when: a decision to stop has a scored winner, and once it is applied
\* the winner is not among the pruned
Stopping ==
  def.prune = "stop" /\ main = "fan" =>
    /\ ~ pr.stopAll => pr.pruned = {}
    /\ pr.stopAll => \E w \in pr.scored : w \notin pr.pruned /\ journal.body[w] >= Target
    /\ \A i \in Items :
         /\ pr.decision[i].losers = {}
         /\ pr.decision[i].stop => \E w \in pr.scored : journal.body[w] >= Target

Reported == FrontierIsTopK /\ StopHasWinner /\ VerdictFromLog /\ FailsLoud

Inv ==
  /\ Typed /\ Phases /\ Beyond /\ JoinedRecorded /\ Faulty /\ Dispositions
  /\ Plain /\ Pruning /\ Keeping /\ KeptScored /\ Ended /\ Stopping /\ Reported

-----------------------------------------------------------------------------
(* The losers of a field.                                                  *)

Scoring == [Items -> Nat]

\* a set of items is finite
LEMMA ItemsFinite ==
  ASSUME NEW S \in SUBSET Items
  PROVE  IsFiniteSet(S) /\ Cardinality(S) \in Nat
<1>1. IsFiniteSet(Items) BY FS_Interval, MapAssumption DEF Items
<1>2. IsFiniteSet(S) BY <1>1, FS_Subset
<1> QED BY <1>2, FS_CardinalityType

\* lowestBeyondK: who loses in a field loses in a larger one
LEMMA LosersGrow ==
  ASSUME NEW sc, NEW k \in Nat, NEW T \in SUBSET Items, NEW S \in SUBSET T
  PROVE  lowestBeyondK(sc, S, k) \subseteq lowestBeyondK(sc, T, k)
<1> SUFFICES ASSUME NEW i \in S, Cardinality({j \in S : Beats(sc, j, i)}) >= k
             PROVE  Cardinality({j \in T : Beats(sc, j, i)}) >= k
    BY DEF lowestBeyondK
<1> DEFINE small == {j \in S : Beats(sc, j, i)}
           large == {j \in T : Beats(sc, j, i)}
<1>1. small \in SUBSET large /\ large \in SUBSET Items /\ small \in SUBSET Items OBVIOUS
<1>2. IsFiniteSet(large) /\ Cardinality(large) \in Nat /\ Cardinality(small) \in Nat
      BY <1>1, ItemsFinite
<1> HIDE DEF small, large
<1>3. Cardinality(small) <= Cardinality(large) BY <1>1, <1>2, FS_Subset
<1>4. Cardinality(small) >= k BY DEF small
<1>5. Cardinality(large) >= k BY <1>2, <1>3, <1>4
<1> QED BY <1>5 DEF large

\* lowestBeyondK: a field of at most k items has no loser
LEMMA SmallField ==
  ASSUME NEW sc \in Scoring, NEW k \in Nat, NEW S \in SUBSET Items, Cardinality(S) <= k
  PROVE  lowestBeyondK(sc, S, k) = {}
<1> SUFFICES ASSUME NEW i \in S, Cardinality({j \in S : Beats(sc, j, i)}) >= k
             PROVE  FALSE
    BY DEF lowestBeyondK
<1> DEFINE above == {j \in S : Beats(sc, j, i)}
<1>1. ~ Beats(sc, i, i) BY DEF Beats, Scoring, Items
<1>2. above \in SUBSET (S \ {i}) BY <1>1
<1>3. IsFiniteSet(S) /\ Cardinality(S) \in Nat BY ItemsFinite
<1>4. IsFiniteSet(S \ {i}) /\ Cardinality(S \ {i}) = Cardinality(S) - 1
      BY <1>3, FS_RemoveElement
<1>5. Cardinality(above) <= Cardinality(S \ {i}) BY <1>2, <1>4, FS_Subset
<1>6. Cardinality(above) \in Nat BY <1>2, ItemsFinite
<1>7. Cardinality(above) >= k OBVIOUS
<1> HIDE DEF above
<1> QED BY <1>3, <1>4, <1>5, <1>6, <1>7

\* lowestBeyondK looks only at the scores of the field
LEMMA LosersLocal ==
  ASSUME NEW sc, NEW tc, NEW k, NEW S, \A i \in S : sc[i] = tc[i]
  PROVE  lowestBeyondK(sc, S, k) = lowestBeyondK(tc, S, k)
<1>1. ASSUME NEW i \in S PROVE {j \in S : Beats(sc, j, i)} = {j \in S : Beats(tc, j, i)}
      BY <1>1 DEF Beats
<1> QED BY <1>1 DEF lowestBeyondK

LEMMA BodiesAreScores ==
  ASSUME Typed
  PROVE  journal.body \in Scoring /\ def.k \in Nat
<1>1. def.k \in Nat BY MapAssumption DEF Typed
<1>2. Scores \cup {0, Target} \subseteq Nat BY MapAssumption
<1>3. journal.body \in [Items -> Scores \cup {0, Target}] BY DEF Typed, Journals
<1> QED BY <1>1, <1>2, <1>3 DEF Scoring

-----------------------------------------------------------------------------
(* Steps of an item before its report.                                     *)

\* an item runs only during the fan-out, within `over', before any frontier
LEMMA RunningItem ==
  ASSUME Inv, NEW i \in Items, Working(i)
  PROVE  /\ main = "fan" /\ i <= size
         /\ def.prune # "none" => journal.frontiers = 0 /\ ~ Committed(i)
BY MapAssumption DEF Inv, Typed, Phases, Beyond, Dispositions, Journals, Items

\* keep: an item that has not been scored is not pruned
LEMMA UnscoredNotPruned ==
  ASSUME Inv, def.prune = "keep", NEW i \in Items, Working(i), pc[i] # "apply"
  PROVE  i \notin pr.scored /\ ~ isPruned(pr, i)
<1>1. main = "fan" BY RunningItem
<1>2. i \notin pr.scored BY <1>1 DEF Inv, Pruning, Reporting, Working
<1>3. pr.pruned \subseteq pr.scored /\ ~ pr.stopAll
      BY <1>1 DEF Inv, Keeping, Losers, lowestBeyondK
<1> QED BY <1>2, <1>3 DEF isPruned

\* while items run, what the handler reports later is not yet due
LEMMA NothingReported ==
  ASSUME Inv, NEW i \in Items, Working(i), UNCHANGED <<def, main>>,
         def.prune # "none" => journal'.items = journal.items /\ journal'.frontiers = journal.frontiers
  PROVE  Reported'
<1>1. main = "fan" /\ (def.prune # "none" => journal.frontiers = 0)
      BY RunningItem
<1>2. FrontierIsTopK' BY <1>1 DEF FrontierIsTopK
<1>3. StopHasWinner'
  <2>1. def.prune # "none" => \A j \in Items : ~ Committed(j) BY <1>1 DEF Inv, Dispositions
  <2> QED BY <2>1 DEF StopHasWinner, Disposed, Committed
<1>4. VerdictFromLog' /\ FailsLoud' BY <1>1 DEF VerdictFromLog, FailsLoud, Results
<1> QED BY <1>2, <1>3, <1>4 DEF Reported

\* an item that moves on before its body, or finds itself pruned, keeps Inv
LEMMA AdvanceKeeps ==
  ASSUME Inv, NEW i \in Items, NEW l \in {"queued", "wait", "slot", "create", "body", "done"},
         pc[i] \in {"start", "queued", "wait", "slot", "create"},
         pc' = [pc EXCEPT ![i] = l],
         l = "queued" => def.prune # "none",
         l = "done" => def.prune # "none" /\ isPruned(pr, i),
         \/ pr' = pr
         \/ def.prune # "none" /\ pr' = [pr EXCEPT !.registered = @ \cup {i}],
         live' = live \/ (l = "body" /\ live' = live \cup {i}),
         UNCHANGED <<def, size, journal, mem, local, statusErr, main, seen>>
  PROVE  Inv'
<1>1. /\ Working(i) /\ pc[i] # "apply" /\ main = "fan" /\ i <= size
      /\ def.prune # "none" => journal.frontiers = 0
      BY RunningItem DEF Working
<1>2. /\ pr' \in Prunes /\ pr'.pruned = pr.pruned /\ pr'.completed = pr.completed
      /\ pr'.stopAll = pr.stopAll /\ pr'.scored = pr.scored /\ pr'.decision = pr.decision
      /\ def.prune = "none" => pr' = pr
      BY DEF Inv, Typed, Prunes
<1>3. def.prune = "keep" => l # "done" BY <1>1, UnscoredNotPruned
<1>4. pc \in [Items -> Points] BY DEF Inv, Typed
<1>5. \A j \in Items : j # i => pc'[j] = pc[j] BY <1>4
<1>6. pc'[i] = l BY <1>4
<1>7. Typed' BY <1>2 DEF Inv, Typed, Points
<1>8. Phases' BY <1>1, <1>5, <1>6 DEF Inv, Typed, Phases, Working
<1>9. Beyond' /\ JoinedRecorded' /\ Faulty'
      BY <1>1, <1>5 DEF Inv, Beyond, JoinedRecorded, Faulty, Working, Recorded, Items
<1>10. Dispositions' BY <1>1, <1>5 DEF Inv, Dispositions, Working, Committed
<1>11. Plain' BY <1>1, <1>2, <1>5, <1>6 DEF Inv, Plain, Recorded
<1>12. Pruning' BY <1>1, <1>2, <1>5, <1>6 DEF Inv, Pruning, Reporting
<1>13. Keeping' BY <1>1, <1>2, <1>5, <1>6 DEF Inv, Keeping, Losers
<1>14. KeptScored' BY <1>1, <1>2, <1>3, <1>5, <1>6 DEF Inv, KeptScored
<1>15. Stopping' BY <1>1, <1>2 DEF Inv, Stopping
<1>16. Reported' BY <1>1, NothingReported
<1>17. Ended'
  <2>1. 1 .. size \subseteq Items BY MapAssumption DEF Inv, Typed, Items
  <2> QED BY <1>1, <1>2, <1>5, <1>6, <2>1 DEF Inv, Ended, isPruned
<1> QED BY <1>7, <1>8, <1>9, <1>10, <1>11, <1>12, <1>13, <1>14, <1>15, <1>16, <1>17 DEF Inv

\* an item that ends with an error keeps Inv, if the error is not lost
LEMMA AbortKeeps ==
  ASSUME Inv, NEW i \in Items, Working(i), pc[i] # "apply",
         pc' = [pc EXCEPT ![i] = "done"],
         live' = live \/ live' = live \ {i},
         live' = live => i \notin live,
         statusErr' \in {"none", "internal", "definition"},
         statusErr # "none" => statusErr' # "none",
         def.prune # "stop" => statusErr' # "none",
         statusErr' = "none" => isPruned(pr, i),
         UNCHANGED <<def, size, journal, mem, local, pr, main>>
  PROVE  Inv'
<1>1. /\ main = "fan" /\ i <= size
      /\ def.prune # "none" => journal.frontiers = 0
      BY RunningItem
<1>4. pc \in [Items -> Points] BY DEF Inv, Typed
<1>5. \A j \in Items : j # i => pc'[j] = pc[j] BY <1>4
<1>6. pc'[i] = "done" BY <1>4
<1>7. Typed' BY DEF Inv, Typed, Points
<1>8. Phases' BY <1>1, <1>5, <1>6 DEF Inv, Typed, Phases, Working
<1>9. Beyond' /\ JoinedRecorded' /\ Faulty'
      BY <1>1, <1>5 DEF Inv, Beyond, JoinedRecorded, Faulty, Working, Recorded, Items
<1>10. Dispositions' BY <1>1, <1>5, <1>6 DEF Inv, Dispositions, Working, Committed
<1>11. Plain' BY <1>1, <1>5, <1>6 DEF Inv, Plain, Recorded
<1>12. Pruning' BY <1>1, <1>5, <1>6 DEF Inv, Pruning, Reporting, Working
<1>13. Keeping' BY <1>1, <1>5, <1>6 DEF Inv, Keeping, Losers
<1>14. KeptScored' BY <1>1 DEF Inv, KeptScored
<1>15. Stopping' BY <1>1 DEF Inv, Stopping
<1>16. Reported' BY <1>1, NothingReported
<1>17. Ended'
  <2>1. 1 .. size \subseteq Items BY MapAssumption DEF Inv, Typed, Items
  <2> QED BY <1>1, <1>5, <1>6, <2>1 DEF Inv, Ended, isPruned
<1> QED BY <1>7, <1>8, <1>9, <1>10, <1>11, <1>12, <1>13, <1>14, <1>15, <1>16, <1>17 DEF Inv

\* Raise: outside stop_when an error of an unreported item is never dropped
LEMMA RaiseTells ==
  ASSUME Inv, NEW i \in Items, Working(i), pc[i] # "apply",
         NEW e \in {"internal", "definition"}, Raise(i, e)
  PROVE  /\ statusErr' \in {"none", "internal", "definition"}
         /\ statusErr # "none" => statusErr' # "none"
         /\ def.prune # "stop" => statusErr' # "none"
         /\ statusErr' = "none" => isPruned(pr, i)
<1>1. def.prune = "keep" => ~ isPruned(pr, i) BY UnscoredNotPruned
<1>2. def.prune \in {"none", "keep", "stop"} BY MapAssumption DEF Inv, Typed
<1> QED BY <1>1, <1>2 DEF Raise, Inv, Typed

\* a body that ends with a status keeps Inv: the status waits for its commit or report
LEMMA BodyEndsKeeps ==
  ASSUME Inv, NEW i \in Items, pc[i] \in {"create", "body"},
         NEW rec \in ItemRecords, rec.status \in {"item_passed", "item_failed"},
         BodyEnds(i, rec),
         journal' \in Journals, journal'.items = journal.items,
         journal'.frontiers = journal.frontiers,
         \A j \in Items : j # i => journal'.body[j] = journal.body[j],
         UNCHANGED <<def, size, mem, pr, statusErr, main, seen>>
  PROVE  Inv'
<1>1. /\ Working(i) /\ pc[i] # "apply" /\ main = "fan" /\ i <= size
      /\ def.prune # "none" => journal.frontiers = 0
      BY RunningItem DEF Working
<1>2. def.prune # "none" => i \notin pr.scored BY <1>1 DEF Inv, Pruning, Reporting
<1>3. def.prune # "none" => \A j \in pr.scored : journal'.body[j] = journal.body[j]
      BY <1>2 DEF Inv, Typed, Prunes
<1>4. pc \in [Items -> Points] /\ local \in [Items -> ItemRecords] BY DEF Inv, Typed
<1>5. \A j \in Items : j # i => pc'[j] = pc[j] /\ local'[j] = local[j]
      BY <1>4 DEF BodyEnds, Goto
<1>6. /\ local'[i] = rec
      /\ def.prune = "none" => pc'[i] = "commit" /\ live' = live
      /\ def.prune # "none" => /\ live' = live \ {i}
                               /\ rec.status = "item_passed" => pc'[i] = "report"
                               /\ rec.status # "item_passed" => pc'[i] = "done"
      BY <1>4 DEF BodyEnds, Goto
<1>7. Typed'
  <2>1. pc' \in [Items -> Points] BY <1>4 DEF BodyEnds, Goto, Points
  <2>2. local' \in [Items -> ItemRecords] BY <1>4 DEF BodyEnds
  <2>3. live' \subseteq Items BY <1>6 DEF Inv, Typed
  <2> QED BY <2>1, <2>2, <2>3 DEF Inv, Typed
<1>8. Phases' BY <1>1, <1>5, <1>6 DEF Inv, Typed, Phases, Working
<1>9. Beyond' /\ JoinedRecorded' /\ Faulty'
      BY <1>1, <1>5 DEF Inv, Beyond, JoinedRecorded, Faulty, Working, Recorded, Items
<1>10. Dispositions' BY <1>1, <1>5 DEF Inv, Dispositions, Working, Committed
<1>11. Plain' BY <1>1, <1>5, <1>6 DEF Inv, Plain, Recorded
<1>12. Pruning'
  <2>1. def.prune # "none" => \A j \in Items : Reporting(j)' 
        BY <1>1, <1>2, <1>3, <1>5, <1>6 DEF Inv, Pruning, Reporting
  <2> QED BY <1>1, <1>5, <1>6, <2>1 DEF Inv, Pruning
<1>13. Keeping'
  <2>1. def.prune # "none" => Losers' = Losers BY <1>3, LosersLocal DEF Losers
  <2> QED BY <1>1, <1>5, <1>6, <2>1 DEF Inv, Keeping
<1>14. KeptScored' BY <1>1, <1>5, <1>6 DEF Inv, KeptScored
<1>15. Stopping' BY <1>1, <1>3 DEF Inv, Stopping
<1>16. Reported' BY <1>1, NothingReported
<1>17. Ended'
  <2>1. 1 .. size \subseteq Items BY MapAssumption DEF Inv, Typed, Items
  <2> QED BY <1>1, <1>5, <1>6, <2>1 DEF Inv, Ended, isPruned
<1> QED BY <1>7, <1>8, <1>9, <1>10, <1>11, <1>12, <1>13, <1>14, <1>15, <1>16, <1>17 DEF Inv

-----------------------------------------------------------------------------
(* The actions of an item.                                                 *)

\* ItemRegister, ItemQueued, ItemAcquire, ItemRecheck, ItemCreate
LEMMA AdvancingItem ==
  ASSUME Inv, NEW i \in Items,
         \/ ItemRegister(i) \/ ItemQueued(i) \/ ItemAcquire(i) \/ ItemRecheck(i) \/ ItemCreate(i)
  PROVE  Inv'
<1>1. CASE ItemRegister(i)
  <2>1. CASE def.prune = "none"
        BY <1>1, <2>1, AdvanceKeeps DEF ItemRegister, Goto
  <2>2. CASE def.prune # "none"
        BY <1>1, <2>2, AdvanceKeeps DEF ItemRegister, Goto
  <2> QED BY <2>1, <2>2
<1>2. CASE ItemQueued(i)
  <2>1. def.prune # "none" BY <1>2 DEF ItemQueued, Inv, Plain
  <2>2. CASE isPruned(pr, i) BY <1>2, <2>1, <2>2, AdvanceKeeps DEF ItemQueued, Only, Goto
  <2>3. CASE ~ isPruned(pr, i) BY <1>2, <2>1, <2>3, AdvanceKeeps DEF ItemQueued, Only, Goto
  <2> QED BY <2>2, <2>3
<1>3. CASE ItemAcquire(i) BY <1>3, AdvanceKeeps DEF ItemAcquire, Only, Goto
<1>4. CASE ItemRecheck(i)
  <2>1. CASE def.prune # "none" /\ isPruned(pr, i)
        BY <1>4, <2>1, AdvanceKeeps DEF ItemRecheck, Only, Goto
  <2>2. CASE ~ (def.prune # "none" /\ isPruned(pr, i))
        BY <1>4, <2>2, AdvanceKeeps DEF ItemRecheck, Only, Goto
  <2> QED BY <2>1, <2>2
<1>5. CASE ItemCreate(i) BY <1>5, AdvanceKeeps DEF ItemCreate, Goto
<1> QED BY <1>1, <1>2, <1>3, <1>4, <1>5

\* ItemAcquireCancelled, the errors of Create and of the body, ReportFails
LEMMA AbortingItem ==
  ASSUME Inv, NEW i \in Items,
         \/ ItemAcquireCancelled(i) \/ CreateDefinitionFault(i) \/ CreateFails(i)
         \/ BodyInternal(i) \/ ReportFails(i)
  PROVE  Inv'
<1>1. Working(i) /\ pc[i] # "apply"
      BY DEF ItemAcquireCancelled, CreateDefinitionFault, CreateFails, BodyInternal,
             ReportFails, Working
<1>2. i \in live => pc[i] \in {"body", "commit"}
      BY <1>1, RunningItem DEF Inv, Phases
<1>3. CASE ItemAcquireCancelled(i)
      BY <1>1, <1>2, <1>3, RaiseTells, AbortKeeps DEF ItemAcquireCancelled, Goto
<1>4. CASE \E e \in {"internal", "definition"} : DispatchError(i, e)
  <2>1. PICK e \in {"internal", "definition"} : DispatchError(i, e) BY <1>4
  <2>2. Raise(i, e) BY <2>1 DEF DispatchError
  <2>3. live' = live => i \notin live BY <2>1 DEF DispatchError
  <2> QED BY <1>1, <2>1, <2>2, <2>3, RaiseTells, AbortKeeps DEF DispatchError, Goto
<1>5. CASE ReportFails(i)
  <2>1. statusErr' \in {"internal", "definition"} BY <1>5 DEF ReportFails, Inv, Typed
  <2> QED BY <1>1, <1>2, <1>5, <2>1, AbortKeeps DEF ReportFails, Goto
<1> QED BY <1>3, <1>4, <1>5 DEF CreateDefinitionFault, CreateFails, BodyInternal

\* ImageUnavailable, BodyPasses, BodySkips, BodyFails
LEMMA EndingItem ==
  ASSUME Inv, NEW i \in Items,
         ImageUnavailable(i) \/ BodyPasses(i) \/ BodySkips(i) \/ BodyFails(i)
  PROVE  Inv'
<1>1. journal \in Journals BY DEF Inv, Typed
<1>2. CASE ImageUnavailable(i)
  <2> DEFINE rec == [status |-> "item_failed", outcome |-> "none", reason |-> "image_unavailable"]
  <2>1. rec \in ItemRecords /\ rec.status = "item_failed" BY DEF ItemRecords, Statuses
  <2>2. BodyEnds(i, rec) BY <1>2 DEF ImageUnavailable
  <2> HIDE DEF rec
  <2> QED BY <1>1, <1>2, <2>1, <2>2, BodyEndsKeeps DEF ImageUnavailable
<1>3. Passed \in ItemRecords /\ Passed.status = "item_passed" BY DEF Passed, ItemRecords, Statuses
<1>4. CASE BodyPasses(i)
  <2>1. PICK s \in Scores \cup {0, Target} : journal' = [journal EXCEPT !.body[i] = s]
        BY <1>1, <1>4 DEF BodyPasses, Journals
  <2>2. /\ journal' \in Journals /\ journal'.items = journal.items
        /\ journal'.frontiers = journal.frontiers
        /\ \A j \in Items : j # i => journal'.body[j] = journal.body[j]
        BY <1>1, <2>1 DEF Journals
  <2> QED BY <1>3, <1>4, <2>2, BodyEndsKeeps DEF BodyPasses
<1>5. CASE BodySkips(i) BY <1>1, <1>3, <1>5, BodyEndsKeeps DEF BodySkips
<1>6. CASE BodyFails(i)
  <2>1. PICK oc \in {"retryable", "permanent"} : BodyEnds(i, FailedWith(oc))
        BY <1>6 DEF BodyFails
  <2>2. FailedWith(oc) \in ItemRecords /\ FailedWith(oc).status = "item_failed"
        BY DEF FailedWith, ItemRecords, Statuses
  <2> QED BY <1>1, <1>6, <2>1, <2>2, BodyEndsKeeps DEF BodyFails
<1> QED BY <1>2, <1>4, <1>5, <1>6

\* commitMapItem: the log, the RunState and the goroutine agree on the item
LEMMA CommittingItem ==
  ASSUME Inv, NEW i \in Items, commitMapItem(i)
  PROVE  Inv'
<1>1. /\ Working(i) /\ main = "fan" /\ i <= size /\ def.prune = "none"
      BY RunningItem DEF Working, commitMapItem, Inv, Pruning
<1>2. local[i].status # "none" /\ local \in [Items -> ItemRecords] /\ journal \in Journals
      BY <1>1 DEF commitMapItem, Inv, Plain, Typed
<1>3. /\ journal' \in Journals /\ journal'.body = journal.body
      /\ journal'.frontiers = journal.frontiers
      /\ journal'.items[i] = local[i]
      /\ \A j \in Items : j # i => journal'.items[j] = journal.items[j]
      BY <1>2 DEF commitMapItem, Journals
<1>4. local[i].status \in Statuses BY <1>2 DEF ItemRecords
<1>5. /\ mem' \in [Items -> Statuses \cup {"none", "pending"}] /\ mem'[i] = local[i].status
      /\ \A j \in Items : j # i => mem'[j] = mem[j]
      BY <1>4 DEF commitMapItem, Inv, Typed
<1>6. /\ pc' \in [Items -> Points] /\ pc'[i] = "done"
      /\ \A j \in Items : j # i => pc'[j] = pc[j]
      BY DEF commitMapItem, Inv, Typed, Goto, Points
<1>7. /\ live' = live \ {i}
      /\ UNCHANGED <<def, size, local, pr, statusErr, main, cancelled, epoch, faults, seen>>
      BY DEF commitMapItem
<1>8. Typed' BY <1>3, <1>5, <1>6, <1>7 DEF Inv, Typed
<1>9. Phases' BY <1>1, <1>6, <1>7 DEF Inv, Typed, Phases, Working
<1>10. Beyond' /\ JoinedRecorded' /\ Faulty'
      BY <1>1, <1>3, <1>5, <1>6, <1>7
      DEF Inv, Beyond, JoinedRecorded, Faulty, Working, Recorded, Items
<1>11. Dispositions' BY <1>1, <1>2, <1>3, <1>6, <1>7 DEF Inv, Dispositions, Working, Committed
<1>12. Plain' BY <1>1, <1>3, <1>5, <1>6, <1>7 DEF Inv, Plain, Recorded
<1>13. Pruning' /\ Keeping' /\ KeptScored' /\ Ended' /\ Stopping'
      BY <1>1, <1>7 DEF Pruning, Keeping, KeptScored, Ended, Stopping
<1>14. Reported' BY <1>1, <1>7, NothingReported
<1> QED BY <1>8, <1>9, <1>10, <1>11, <1>12, <1>13, <1>14 DEF Inv

-----------------------------------------------------------------------------
(* The report of an item of a prune map.                                   *)

\* what every action of the report shares: only pc[i] and pr change
LEMMA ReportFrame ==
  ASSUME Inv, NEW i \in Items, NEW l \in {"decide", "apply", "done"},
         pc[i] \in {"report", "decide", "apply"}, pc' = [pc EXCEPT ![i] = l], pr' \in Prunes,
         UNCHANGED <<def, size, journal, mem, local, live, statusErr, main, seen>>
  PROVE  /\ Working(i) /\ main = "fan" /\ def.prune # "none" /\ journal.frontiers = 0
         /\ pc'[i] = l /\ \A j \in Items : j # i => pc'[j] = pc[j]
         /\ Typed' /\ Phases' /\ Beyond' /\ JoinedRecorded' /\ Faulty'
         /\ Dispositions' /\ Plain' /\ Reported'
<1>1. /\ Working(i) /\ main = "fan" /\ def.prune # "none" /\ i <= size /\ journal.frontiers = 0
      BY RunningItem DEF Working, Inv, Plain
<1>2. pc \in [Items -> Points] BY DEF Inv, Typed
<1>3. pc'[i] = l /\ \A j \in Items : j # i => pc'[j] = pc[j] BY <1>2
<1>4. Typed' BY <1>2 DEF Inv, Typed, Points
<1>5. Phases' BY <1>1, <1>3 DEF Inv, Typed, Phases, Working
<1>6. Beyond' /\ JoinedRecorded' /\ Faulty'
      BY <1>1, <1>3 DEF Inv, Beyond, JoinedRecorded, Faulty, Working, Recorded, Items
<1>7. Dispositions' BY <1>1, <1>3 DEF Inv, Dispositions, Working, Committed
<1>8. Plain' BY <1>1 DEF Plain
<1>9. Reported' BY <1>1, NothingReported
<1> QED BY <1>1, <1>3, <1>4, <1>5, <1>6, <1>7, <1>8, <1>9

\* ReportMark: the item is completed, or has nothing to be scored by
LEMMA MarkingItem ==
  ASSUME Inv, NEW i \in Items, ReportMark(i)
  PROVE  Inv'
<1>1. CASE journal.body[i] = 0
  <2>1. Working(i) /\ pc[i] # "apply" /\ i \notin live
        BY RunningItem DEF ReportMark, Working, Inv, Phases
  <2>2. Raise(i, "internal") BY <1>1 DEF ReportMark
  <2> QED BY <1>1, <2>1, <2>2, RaiseTells, AbortKeeps DEF ReportMark, Goto
<1>2. CASE journal.body[i] # 0
  <2>1. /\ pr' \in Prunes /\ pr'.completed = pr.completed \cup {i} /\ pr'.pruned = pr.pruned
        /\ pr'.stopAll = pr.stopAll /\ pr'.scored = pr.scored /\ pr'.decision = pr.decision
        BY <1>2 DEF ReportMark, Inv, Typed, Prunes
  <2>2. pc[i] = "report" /\ pc' = [pc EXCEPT ![i] = "decide"]
        /\ UNCHANGED <<def, size, journal, mem, local, live, statusErr, main, seen>>
        BY <1>2 DEF ReportMark, Goto
  <2>3. /\ Working(i) /\ main = "fan" /\ def.prune # "none" /\ journal.frontiers = 0
        /\ pc'[i] = "decide" /\ \A j \in Items : j # i => pc'[j] = pc[j]
        /\ Typed' /\ Phases' /\ Beyond' /\ JoinedRecorded' /\ Faulty'
        /\ Dispositions' /\ Plain' /\ Reported'
        BY <2>1, <2>2, ReportFrame
  <2>4. Pruning'
    <3>1. \A j \in Items : Reporting(j)'
          BY <1>2, <2>1, <2>2, <2>3 DEF Inv, Pruning, Reporting
    <3> QED BY <2>2, <2>3, <3>1 DEF Inv, Pruning
  <2>5. Keeping' BY <2>1, <2>2, <2>3 DEF Inv, Keeping, Losers
  <2>6. KeptScored' BY <2>1, <2>2, <2>3 DEF Inv, KeptScored
  <2>7. Stopping' BY <2>1, <2>2 DEF Inv, Stopping
  <2>8. Ended'
    <3>1. 1 .. size \subseteq Items BY MapAssumption DEF Inv, Typed, Items
    <3> QED BY <2>1, <2>2, <2>3, <3>1 DEF Inv, Ended, isPruned
  <2> QED BY <2>3, <2>4, <2>5, <2>6, <2>7, <2>8 DEF Inv
<1> QED BY <1>1, <1>2

\* Decision: under keep, all the losers of the field; under stop_when, a winner
LEMMA DecisionIsSound ==
  ASSUME Typed, NEW S \in SUBSET Items
  PROVE  /\ Decision(S) \in [stop : BOOLEAN, losers : SUBSET Items]
         /\ def.prune # "stop" =>
              ~ Decision(S).stop /\ Decision(S).losers = lowestBeyondK(journal.body, S, def.k)
         /\ def.prune = "stop" =>
              /\ Decision(S).losers = {}
              /\ Decision(S).stop => \E w \in S : journal.body[w] >= Target
<1>1. journal.body \in Scoring /\ def.k \in Nat BY BodiesAreScores
<1>2. CASE def.prune = "stop" BY <1>2 DEF Decision
<1>3. CASE def.prune # "stop"
  <2>1. Cardinality(S) \in Nat BY ItemsFinite
  <2>2. Cardinality(S) <= def.k => lowestBeyondK(journal.body, S, def.k) = {}
        BY <1>1, SmallField
  <2>3. lowestBeyondK(journal.body, S, def.k) \in SUBSET Items BY DEF lowestBeyondK
  <2>4. Decision(S) = [stop |-> FALSE, losers |-> lowestBeyondK(journal.body, S, def.k)]
        BY <1>3, <2>2 DEF Decision
  <2> QED BY <1>3, <2>3, <2>4
<1> QED BY <1>2, <1>3

\* ReportDecide: the decision is about the whole field, so it covers every loser
LEMMA DecidingItem ==
  ASSUME Inv, NEW i \in Items, ReportDecide(i)
  PROVE  Inv'
<1> DEFINE S == pr.scored \cup {i}
           D == Decision(S)
<1>1. Typed /\ pr \in Prunes /\ S \in SUBSET Items BY DEF Inv, Typed, Prunes
<1>2. /\ D \in [stop : BOOLEAN, losers : SUBSET Items]
      /\ def.prune # "stop" => ~ D.stop /\ D.losers = lowestBeyondK(journal.body, S, def.k)
      /\ def.prune = "stop" => /\ D.losers = {}
                               /\ D.stop => \E w \in S : journal.body[w] >= Target
      BY <1>1, DecisionIsSound
<1>3. pr' = [pr EXCEPT !.scored = S, !.decision[i] = D] BY DEF ReportDecide
<1> HIDE DEF D
<1>4. /\ pr' \in Prunes /\ pr'.scored = S /\ pr'.completed = pr.completed
      /\ pr'.pruned = pr.pruned /\ pr'.stopAll = pr.stopAll /\ pr'.decision[i] = D
      /\ \A j \in Items : j # i => pr'.decision[j] = pr.decision[j]
      BY <1>1, <1>2, <1>3 DEF Prunes
<1>5. /\ pc[i] = "decide" /\ pc' = [pc EXCEPT ![i] = "apply"]
      /\ UNCHANGED <<def, size, journal, mem, local, live, statusErr, main, seen>>
      BY DEF ReportDecide, Goto
<1>6. /\ Working(i) /\ main = "fan" /\ def.prune # "none" /\ journal.frontiers = 0
      /\ pc'[i] = "apply" /\ \A j \in Items : j # i => pc'[j] = pc[j]
      /\ Typed' /\ Phases' /\ Beyond' /\ JoinedRecorded' /\ Faulty'
      /\ Dispositions' /\ Plain' /\ Reported'
      BY <1>4, <1>5, ReportFrame
<1>7. Pruning'
  <2>1. \A j \in Items : Reporting(j)'
        BY <1>4, <1>5, <1>6 DEF Inv, Pruning, Reporting
  <2> QED BY <1>5, <1>6, <2>1 DEF Inv, Pruning
<1>8. Keeping'
  <2>1. SUFFICES ASSUME def.prune = "keep" PROVE Keeping' BY <1>5 DEF Keeping
  <2>2. Losers' = lowestBeyondK(journal.body, S, def.k) BY <1>4, <1>5 DEF Losers
  <2>3. def.k \in Nat BY <1>1, BodiesAreScores
  <2>4. Losers \subseteq Losers' BY <1>1, <2>2, <2>3, LosersGrow DEF Losers
  <2>5. Losers' = D.losers /\ ~ D.stop BY <1>2, <2>1, <2>2
  <2> QED BY <1>4, <1>5, <1>6, <2>1, <2>4, <2>5 DEF Inv, Keeping
<1>9. KeptScored' BY <1>4, <1>5, <1>6 DEF Inv, KeptScored
<1>10. Stopping'
  <2>1. SUFFICES ASSUME def.prune = "stop" PROVE Stopping' BY <1>5 DEF Stopping
  <2> QED BY <1>2, <1>4, <1>5, <1>6, <2>1 DEF Inv, Stopping
<1>11. Ended'
  <2>1. 1 .. size \subseteq Items BY MapAssumption DEF Inv, Typed, Items
  <2> QED BY <1>4, <1>5, <1>6, <2>1 DEF Inv, Ended, isPruned
<1> QED BY <1>6, <1>7, <1>8, <1>9, <1>10, <1>11 DEF Inv

\* ReportApply: losers become pruned; a stop prunes who has not completed, so
\* not the winner
LEMMA ApplyingItem ==
  ASSUME Inv, NEW i \in Items, ReportApply(i)
  PROVE  Inv'
<1> DEFINE D == pr.decision[i]
           gone == IF D.stop THEN pr.registered \ pr.completed ELSE D.losers
<1>1. pr \in Prunes /\ D \in [stop : BOOLEAN, losers : SUBSET Items] /\ gone \in SUBSET Items
  <2>1. pr \in Prunes BY DEF Inv, Typed
  <2>2. D \in [stop : BOOLEAN, losers : SUBSET Items] BY <2>1 DEF Prunes
  <2> QED BY <2>1, <2>2 DEF Prunes
<1>2. pr' = [pr EXCEPT !.pruned = @ \cup gone, !.cancelled = @ \cup gone,
                       !.stopAll = @ \/ D.stop, !.decision[i] = NoDecision]
      BY <1>1 DEF ReportApply, Prune
<1> HIDE DEF D, gone
<1>3. NoDecision \in [stop : BOOLEAN, losers : SUBSET Items] /\ ~ NoDecision.stop
      /\ NoDecision.losers = {}
      BY DEF NoDecision
<1>4. /\ pr' \in Prunes /\ pr'.scored = pr.scored /\ pr'.completed = pr.completed
      /\ pr'.pruned = pr.pruned \cup gone
      /\ pr'.stopAll = (pr.stopAll \/ D.stop) /\ pr'.decision[i] = NoDecision
      /\ \A j \in Items : j # i => pr'.decision[j] = pr.decision[j]
      BY <1>1, <1>2, <1>3 DEF Prunes
<1>5. /\ pc[i] = "apply" /\ pc' = [pc EXCEPT ![i] = "done"]
      /\ UNCHANGED <<def, size, journal, mem, local, live, statusErr, main, seen>>
      BY DEF ReportApply, Prune, Goto
<1>6. /\ Working(i) /\ main = "fan" /\ def.prune # "none" /\ journal.frontiers = 0
      /\ pc'[i] = "done" /\ \A j \in Items : j # i => pc'[j] = pc[j]
      /\ Typed' /\ Phases' /\ Beyond' /\ JoinedRecorded' /\ Faulty'
      /\ Dispositions' /\ Plain' /\ Reported'
      BY <1>4, <1>5, ReportFrame
<1>7. \A j \in Items : Reporting(j) BY <1>6 DEF Inv, Pruning
<1>8. Pruning'
  <2>1. \A j \in Items : Reporting(j)' BY <1>4, <1>5, <1>6, <1>7 DEF Reporting
  <2> QED BY <1>5, <1>6, <2>1 DEF Inv, Pruning
<1>9. Keeping'
  <2>1. SUFFICES ASSUME def.prune = "keep" PROVE Keeping' BY <1>5 DEF Keeping
  <2>2. Losers' = Losers BY <1>4, <1>5 DEF Losers
  <2>3. ~ D.stop /\ gone = D.losers BY <1>6, <2>1 DEF Inv, Keeping, gone, D
  <2>4. gone \subseteq Losers BY <1>6, <2>1, <2>3 DEF Inv, Keeping, D
  <2>5. \A j \in Losers : \/ j \in pr'.pruned
                          \/ \E a \in Items : pc'[a] = "apply" /\ j \in pr'.decision[a].losers
        BY <1>4, <1>5, <1>6, <2>1, <2>3 DEF Inv, Keeping, D
  <2> QED BY <1>3, <1>4, <1>5, <1>6, <2>1, <2>2, <2>3, <2>4, <2>5 DEF Inv, Keeping
<1>10. KeptScored' BY <1>4, <1>5, <1>6, <1>7 DEF Inv, KeptScored, Reporting
<1>11. Stopping'
  <2>1. SUFFICES ASSUME def.prune = "stop" PROVE Stopping' BY <1>5 DEF Stopping
  <2>2. ~ D.stop => gone = {} BY <1>6, <2>1 DEF Inv, Stopping, gone, D
  <2>3. \A w \in pr.scored : w \in pr.completed BY <1>1, <1>7 DEF Reporting, Prunes
  <2>4. gone \cap pr.scored = {} BY <2>2, <2>3 DEF gone
  <2>5. pr'.stopAll => \E w \in pr.scored : w \notin pr'.pruned /\ journal.body[w] >= Target
    <3>1. CASE pr.stopAll BY <1>4, <1>6, <2>1, <2>4, <3>1 DEF Inv, Stopping
    <3>2. CASE ~ pr.stopAll /\ D.stop
      <4>1. pr.pruned = {} BY <1>6, <2>1, <3>2 DEF Inv, Stopping
      <4>2. PICK w \in pr.scored : journal.body[w] >= Target
            BY <1>6, <2>1, <3>2 DEF Inv, Stopping, D
      <4> QED BY <1>4, <2>4, <4>1, <4>2
    <3> QED BY <1>4, <3>1, <3>2
  <2> QED BY <1>3, <1>4, <1>5, <1>6, <2>1, <2>2, <2>5 DEF Inv, Stopping
<1>12. Ended'
  <2>1. 1 .. size \subseteq Items BY MapAssumption DEF Inv, Typed, Items
  <2>2. \A j \in Items : isPruned(pr, j) => isPruned(pr', j) BY <1>4 DEF isPruned
  <2>3. local[i].status = "item_passed" BY <1>5, <1>7 DEF Reporting
  <2> QED BY <1>5, <1>6, <2>1, <2>2, <2>3 DEF Inv, Ended
<1> QED BY <1>6, <1>8, <1>9, <1>10, <1>11, <1>12 DEF Inv

-----------------------------------------------------------------------------
(* The handler.                                                            *)

\* a step from or to a state without goroutines asks little of the invariant
LEMMA QuietKeeps ==
  ASSUME Inv, UNCHANGED <<def, size, pc, local, pr, live, statusErr, seen, mem>>,
         main # "fan", main # "dead", main' \notin {"fan", "idle", "dead"},
         journal' \in Journals, journal'.items = journal.items, journal'.body = journal.body,
         journal'.frontiers = journal.frontiers,
         main' \in Results \cup {"joined", "reduce"},
         main' \in {"joined", "reduce"} => main \in {"joined", "reduce"},
         main' = "reduce" => statusErr = "none" /\ def.reduce # "none",
         VerdictFromLog', FailsLoud'
  PROVE  Inv'
<1>1. Typed' BY DEF Inv, Typed
<1>2. Phases' BY DEF Inv, Phases, Working
<1>3. Beyond' /\ JoinedRecorded' /\ Faulty'
      BY DEF Inv, Beyond, JoinedRecorded, Faulty, Working, Recorded
<1>4. Dispositions' BY DEF Inv, Dispositions, Working, Committed
<1>5. Plain' BY DEF Inv, Plain, Recorded
<1>6. Pruning' BY DEF Inv, Pruning
<1>7. Keeping' /\ KeptScored' /\ Ended' /\ Stopping' BY DEF Keeping, KeptScored, Ended, Stopping
<1>8. FrontierIsTopK' /\ StopHasWinner'
      BY DEF Inv, Reported, FrontierIsTopK, StopHasWinner, Disposed
<1> QED BY <1>1, <1>2, <1>3, <1>4, <1>5, <1>6, <1>7, <1>8 DEF Inv, Reported

\* MapStart: a frontier leaves nothing to dispatch
LEMMA StartKeeps ==
  ASSUME Inv, MapStart
  PROVE  Inv'
<1>1. /\ main = "idle" /\ size > 0 /\ main' = "fan"
      /\ pc' = [i \in Items |-> IF Fresh(i) THEN "start" ELSE "done"]
      /\ local' = [i \in Items |-> IF Fresh(i) THEN NoItem ELSE journal.items[i]]
      /\ mem' = [i \in Items |-> IF Fresh(i) THEN "pending" ELSE mem[i]]
      /\ UNCHANGED <<def, size, journal, pr, live, statusErr, cancelled, epoch, faults, seen>>
      BY DEF MapStart, StartAt
<1>2. pr = IdleRun /\ live = {} /\ statusErr = "none" /\ ~ seen
      BY <1>1 DEF Inv, Phases
<1>3. \A i \in Items : mem[i] = journal.items[i].status BY <1>1 DEF Inv, Phases
<1>4. NoItem \in ItemRecords /\ NoItem.status = "none" BY DEF NoItem, ItemRecords
<1>5. \A i \in Items : Fresh(i) =>
        /\ i <= size
        /\ \/ ~ Committed(i)
           \/ /\ journal.items[i].status = "item_failed" /\ journal.items[i].outcome = "retryable"
              /\ def.prune = "none"
      BY DEF Fresh, shouldRerunItem
<1>6. def.prune # "none" /\ journal.frontiers > 0 => \A i \in Items : ~ Fresh(i)
  <2>1. \A i \in Items : i <= size => i \in 1 .. size
        BY MapAssumption DEF Inv, Typed, Items
  <2> QED BY <1>5, <2>1 DEF Inv, Dispositions
<1>7. \A i \in Items : ~ Fresh(i) => Recorded(i)' BY <1>1, <1>3 DEF Recorded
<1>8. journal.frontiers \in Nat /\ journal \in Journals BY DEF Inv, Typed, Journals
<1>9. Typed'
  <2>1. pc' \in [Items -> Points] BY <1>1 DEF Points
  <2>2. local' \in [Items -> ItemRecords] BY <1>1, <1>4, <1>8 DEF Journals
  <2>3. mem' \in [Items -> Statuses \cup {"none", "pending"}] BY <1>1 DEF Inv, Typed
  <2> QED BY <1>1, <2>1, <2>2, <2>3 DEF Inv, Typed
<1>10. Phases' BY <1>1, <1>2 DEF Phases
<1>11. Beyond'
  <2>1. \A i \in Items : i > size => ~ Fresh(i) BY <1>5, MapAssumption DEF Inv, Typed, Items
  <2> QED BY <1>1, <1>7, <2>1 DEF Beyond, Working
<1>12. JoinedRecorded' /\ Faulty' BY <1>1, <1>2 DEF JoinedRecorded, Faulty
<1>13. Dispositions' BY <1>1, <1>5, <1>6 DEF Inv, Dispositions, Working, Committed
<1>14. Plain' BY <1>1, <1>2, <1>7 DEF Plain
<1>15. pr.scored = {} /\ pr.pruned = {} /\ ~ pr.stopAll
       /\ \A i \in Items : pr.decision[i] = NoDecision
       BY <1>2 DEF IdleRun
<1>16. Pruning'
  <2>1. def.prune # "none" /\ journal.frontiers = 0 => \A i \in Items : local'[i].status = "none"
        BY <1>1, <1>4 DEF Inv, Dispositions, Committed
  <2>2. def.prune # "none" => \A i \in Items : Reporting(i)'
        BY <1>1, <1>15, <2>1 DEF Reporting
  <2> QED BY <1>1, <1>2, <1>6, <1>7, <2>2 DEF Pruning
<1>17. Keeping'
  <2>1. Losers' = {} BY <1>1, <1>15 DEF Losers, lowestBeyondK
  <2> QED BY <1>1, <1>15, <2>1 DEF Keeping, NoDecision
<1>18. KeptScored'
  <2>1. def.prune # "none" /\ journal.frontiers = 0 => \A i \in Items : local'[i].status = "none"
        BY <1>1, <1>4 DEF Inv, Dispositions, Committed
  <2> QED BY <1>1, <2>1 DEF KeptScored
<1>19. Ended'
  <2>1. def.prune # "none" /\ journal.frontiers = 0 => \A i \in 1 .. size : i \in Items /\ Fresh(i)
        BY MapAssumption DEF Inv, Typed, Dispositions, Fresh, Items
  <2> QED BY <1>1, <2>1 DEF Ended
<1>20. Stopping' BY <1>1, <1>15 DEF Stopping, NoDecision
<1>21. Reported'
  <2>1. VerdictFromLog' /\ FailsLoud' BY <1>1 DEF VerdictFromLog, FailsLoud, Results
  <2>2. FrontierIsTopK' /\ StopHasWinner'
        BY <1>1 DEF Inv, Reported, FrontierIsTopK, StopHasWinner, Disposed
  <2> QED BY <2>1, <2>2 DEF Reported
<1> QED BY <1>9, <1>10, <1>11, <1>12, <1>13, <1>14, <1>16, <1>17, <1>18, <1>19, <1>20, <1>21 DEF Inv

\* MapTrivial and OverFails return before anything was dispatched
LEMMA TrivialKeeps ==
  ASSUME Inv, MapTrivial \/ OverFails
  PROVE  Inv'
<1>1. /\ main = "idle" /\ ~ seen /\ main' \in {"ok", "internal", "permanent"}
      /\ main' = "ok" => size = 0
      /\ UNCHANGED <<def, size, pc, local, pr, live, statusErr, seen, mem, journal>>
      BY DEF MapTrivial, OverFails, Return, Inv, Phases
<1>2. VerdictFromLog' BY <1>1 DEF VerdictFromLog
<1>3. FailsLoud' BY <1>1 DEF FailsLoud
<1>4. journal \in Journals BY DEF Inv, Typed
<1> QED BY <1>1, <1>2, <1>3, <1>4, QuietKeeps DEF Results

\* Tally: with every item recorded the verdict is the one of the log
LEMMA TallyKeeps ==
  ASSUME Inv, Tally
  PROVE  Inv'
<1>1. /\ main = "joined" /\ size > 0 /\ journal \in Journals
      /\ UNCHANGED <<def, size, pc, local, pr, live, statusErr, seen, mem, journal>>
      BY DEF Tally, Return, Inv, Phases, Typed
<1>2. CASE statusErr # "none"
  <2>1. main' \in {"internal", "permanent"} BY <1>2 DEF Tally, Return, Inv, Typed
  <2>2. VerdictFromLog' /\ FailsLoud' BY <2>1 DEF VerdictFromLog, FailsLoud
  <2> QED BY <1>1, <2>1, <2>2, QuietKeeps DEF Results
<1>3. CASE statusErr = "none" /\ def.reduce # "none"
  <2>1. main' = "reduce" BY <1>3 DEF Tally, Return
  <2>2. VerdictFromLog' /\ FailsLoud' BY <2>1 DEF VerdictFromLog, FailsLoud, Results
  <2> QED BY <1>1, <1>3, <2>1, <2>2, QuietKeeps
<1>4. CASE statusErr = "none" /\ def.reduce = "none"
  <2>1. \/ main' = "ok" /\ TallyPasses(LocalStatus)
        \/ main' = "retryable" /\ ~ TallyPasses(LocalStatus)
        BY <1>4 DEF Tally, Return
  <2>2. \A i \in Items : Recorded(i) BY <1>1, <1>4 DEF Inv, JoinedRecorded
  <2>3. LocalStatus = [i \in Items |-> journal.items[i].status]
        BY <2>2 DEF LocalStatus, Recorded
  <2>4. VerdictFromLog'
        BY <1>1, <2>1, <2>3 DEF VerdictFromLog, TallyPasses, WithStatus
  <2>5. FailsLoud' BY <1>1, <1>4 DEF FailsLoud, Inv, Faulty
  <2> QED BY <1>1, <1>4, <2>1, <2>4, <2>5, QuietKeeps DEF Results
<1> QED BY <1>2, <1>3, <1>4

\* the quorum's counts are numbers
LEMMA CommitReduceTyped ==
  ASSUME Typed, NEW branches \in SUBSET Items, NEW cohort \in Int, CommitReduce(branches, cohort)
  PROVE  /\ journal' \in Journals /\ journal'.items = journal.items
         /\ journal'.body = journal.body /\ journal'.frontiers = journal.frontiers
         /\ journal'.reduce.verdict =
              (Cardinality({i \in branches : journal.body[i] >= Target})
                 >= ratioThreshold(def.quorum, cohort))
<1> DEFINE agree == Cardinality({i \in branches : journal.body[i] >= Target})
           verdict == agree >= ratioThreshold(def.quorum, cohort)
           r == [done |-> TRUE, agree |-> agree, votes |-> cohort, verdict |-> verdict]
<1>1. agree \in Nat
  <2>1. {i \in branches : journal.body[i] >= Target} \in SUBSET Items OBVIOUS
  <2> QED BY <2>1, ItemsFinite
<1>2. verdict \in BOOLEAN OBVIOUS
<1>3. journal' = [journal EXCEPT !.reduce = r] BY DEF CommitReduce
<1> HIDE DEF agree, verdict
<1>4. r \in Reduces /\ r.verdict = verdict BY <1>1, <1>2 DEF Reduces
<1> HIDE DEF r
<1>5. journal \in Journals BY DEF Typed
<1>6. /\ journal' \in Journals /\ journal'.items = journal.items
      /\ journal'.body = journal.body /\ journal'.frontiers = journal.frontiers
      /\ journal'.reduce = r
      BY <1>3, <1>4, <1>5 DEF Journals
<1> QED BY <1>4, <1>6 DEF agree, verdict

LEMMA CohortIsInt ==
  ASSUME Typed
  PROVE  Cohort \in Int /\ collectReduceBranches \in SUBSET Items
<1>1. WithStatus(LocalStatus, "item_pruned") \in SUBSET Items
      BY MapAssumption DEF WithStatus, Typed, Items
<1>2. Cardinality(WithStatus(LocalStatus, "item_pruned")) \in Nat BY <1>1, ItemsFinite
<1>3. size \in Int BY MapAssumption DEF Typed
<1> QED BY <1>2, <1>3 DEF Cohort, collectReduceBranches

\* ReduceReplay, runQuorumReduce, runCommandReduce
LEMMA ReduceKeeps ==
  ASSUME Inv, ReduceReplay \/ runQuorumReduce \/ runCommandReduce
  PROVE  Inv'
<1>1. /\ main = "reduce" /\ statusErr = "none" /\ def.reduce # "none" /\ main' \in Results
      /\ UNCHANGED <<def, size, pc, local, pr, live, statusErr, seen, mem>>
      BY DEF ReduceReplay, runQuorumReduce, runCommandReduce, Return, Inv, Phases, Results
<1>2. /\ journal' \in Journals /\ journal'.items = journal.items
      /\ journal'.body = journal.body /\ journal'.frontiers = journal.frontiers
  <2>1. CASE CommitReduce(collectReduceBranches, Cohort)
        BY <2>1, CohortIsInt, CommitReduceTyped DEF Inv
  <2>2. CASE UNCHANGED journal BY <2>2 DEF Inv, Typed
  <2> QED BY <2>1, <2>2 DEF ReduceReplay, runQuorumReduce, runCommandReduce
<1>3. VerdictFromLog' BY <1>1 DEF VerdictFromLog
<1>4. FailsLoud' BY <1>1 DEF FailsLoud, Inv, Faulty
<1> QED BY <1>1, <1>2, <1>3, <1>4, QuietKeeps DEF Results

-----------------------------------------------------------------------------
(* The frontier of a prune map.                                            *)

\* all goroutines have returned: nobody works, and every item is done or beyond
LEMMA JoinedItems ==
  ASSUME Inv, Joined
  PROVE  /\ main = "fan" /\ size > 0
         /\ \A i \in Items : ~ Working(i)
         /\ \A i \in Items : i <= size => pc[i] = "done"
         /\ \A i \in Items : i > size => Recorded(i)
<1>1. main = "fan" /\ size > 0 BY DEF Joined, Inv, Phases
<1>2. \A i \in Items : i <= size => pc[i] = "done"
      BY MapAssumption DEF Joined, Items, Inv, Typed
<1>3. \A i \in Items : i > size => ~ Working(i) /\ Recorded(i) BY <1>1 DEF Inv, Beyond
<1>4. \A i \in Items : i <= size \/ i > size BY MapAssumption DEF Items, Inv, Typed
<1> QED BY <1>1, <1>2, <1>3, <1>4 DEF Working

Fates == [i \in Items |-> IF i > size \/ Committed(i) THEN journal.items[i] ELSE Final(i)]

\* the first frontier: nothing is committed, and every item within `over' gets
\* pruned, or what its goroutine came to
LEMMA FirstFrontier ==
  ASSUME Inv, Joined, def.prune # "none", statusErr = "none", journal.frontiers = 0
  PROVE  /\ Fates \in [Items -> ItemRecords]
         /\ \A i \in Items : i > size => Fates[i] = NoItem /\ i \notin pr.scored
         /\ \A i \in Items : i <= size =>
              /\ isPruned(pr, i) => Fates[i].status = "item_pruned"
              /\ ~ isPruned(pr, i) => /\ Fates[i].status = local[i].status
                                      /\ local[i].status \in {"item_passed", "item_failed"}
<1>1. \A i \in Items : journal.items[i] = NoItem /\ ~ Committed(i) BY DEF Inv, Dispositions
<1>2. NoItem \in ItemRecords /\ NoItem.status = "none" BY DEF NoItem, ItemRecords
<1>3. local \in [Items -> ItemRecords] BY DEF Inv, Typed
<1>4. \A i \in Items : Final(i) \in ItemRecords
      BY <1>3 DEF Final, ItemRecords, Statuses
<1>5. Fates \in [Items -> ItemRecords] BY <1>1, <1>2, <1>4 DEF Fates
<1>6. \A i \in Items : Reporting(i) BY JoinedItems DEF Inv, Pruning
<1>7. ASSUME NEW i \in Items, i <= size
      PROVE  /\ isPruned(pr, i) => Fates[i].status = "item_pruned"
             /\ ~ isPruned(pr, i) => /\ Fates[i].status = local[i].status
                                     /\ local[i].status \in {"item_passed", "item_failed"}
  <2>1. ~ (i > size) /\ i \in 1 .. size BY <1>7, MapAssumption DEF Items, Inv, Typed
  <2>2. Fates[i] = Final(i) BY <1>1, <2>1 DEF Fates
  <2>3. isPruned(pr, i) => Final(i).status = "item_pruned" BY <1>1 DEF Final
  <2>4. ~ isPruned(pr, i) => Final(i).status = local[i].status BY <1>1, <1>3 DEF Final, ItemRecords
  <2>5. ~ isPruned(pr, i) => local[i].status # "none"
        BY <1>7, <2>1, JoinedItems DEF Inv, Ended
  <2>6. local[i].status # "item_pruned" BY <1>6 DEF Reporting
  <2>7. local[i].status \in Statuses \cup {"none"} BY <1>3 DEF ItemRecords
  <2> QED BY <2>2, <2>3, <2>4, <2>5, <2>6, <2>7 DEF Statuses
<1>8. ASSUME NEW i \in Items, i > size
      PROVE  Fates[i] = NoItem /\ i \notin pr.scored
  <2>1. local[i].status = "none" BY <1>1, <1>2, <1>8, JoinedItems DEF Recorded
  <2> QED BY <1>1, <1>6, <1>8, <2>1 DEF Fates, Reporting
<1> QED BY <1>5, <1>7, <1>8

\* what commitMapFrontier does: nothing, or the first frontier
LEMMA FrontierCases ==
  ASSUME Inv, commitMapFrontier
  PROVE  /\ Joined /\ main' = "joined"
         /\ UNCHANGED <<def, size, pc, pr, live, statusErr, seen>>
         /\ \/ /\ UNCHANGED <<journal, mem, local>>
               /\ statusErr = "none" => \A i \in Items : Recorded(i)
            \/ /\ def.prune # "none" /\ statusErr = "none" /\ journal.frontiers = 0
               /\ journal' = [journal EXCEPT !.items = Fates, !.frontiers = @ + 1]
               /\ local' = Fates
               /\ mem' = [i \in Items |-> IF i > size THEN mem[i] ELSE Fates[i].status]
<1>1. /\ Joined /\ main' = "joined"
      /\ UNCHANGED <<def, size, pc, pr, live, statusErr, seen>> /\ FrontierOf
      BY DEF commitMapFrontier
<1>2. \A i \in Items : i <= size \/ i > size BY MapAssumption DEF Items, Inv, Typed
<1>3. CASE def.prune = "none"
  <2>1. UNCHANGED <<journal, mem, local>> BY <1>1, <1>3 DEF FrontierOf
  <2>2. statusErr = "none" => \A i \in Items : Recorded(i)
        BY <1>1, <1>2, <1>3, JoinedItems DEF Inv, Plain
  <2> QED BY <1>1, <2>1, <2>2
<1>4. CASE statusErr # "none" BY <1>1, <1>4 DEF FrontierOf
<1>5. CASE def.prune # "none" /\ journal.frontiers # 0
  <2>1. journal.frontiers > 0 BY <1>5 DEF Inv, Typed, Journals
  <2>2. \A i \in 1 .. size : Committed(i) BY <1>5, <2>1 DEF Inv, Dispositions
  <2>3. \A i \in Items : Recorded(i) BY <1>1, <1>5, <2>1, JoinedItems DEF Inv, Pruning
  <2> QED BY <1>1, <2>2, <2>3 DEF FrontierOf
<1>6. CASE def.prune # "none" /\ statusErr = "none" /\ journal.frontiers = 0
  <2>1. \A i \in Items : ~ Committed(i) BY <1>6 DEF Inv, Dispositions
  <2>2. 1 \in Items /\ 1 \in 1 .. size
        BY <1>1, JoinedItems, MapAssumption DEF Items, Inv, Typed
  <2>3. ~ \A i \in 1 .. size : Committed(i) BY <2>1, <2>2
  <2> QED BY <1>1, <1>6, <2>3 DEF FrontierOf, Fates
<1> QED BY <1>3, <1>4, <1>5, <1>6

\* keep: the first frontier prunes exactly the losers of those that passed
LEMMA FirstFrontierIsTopK ==
  ASSUME Inv, Joined, def.prune = "keep", statusErr = "none", journal.frontiers = 0
  PROVE  LET pruned == {i \in Items : Fates[i].status = "item_pruned"}
             passed == {i \in Items : Fates[i].status = "item_passed"}
         IN  pruned = lowestBeyondK(journal.body, passed \cup pruned, def.k)
<1> DEFINE pruned == {i \in Items : Fates[i].status = "item_pruned"}
           passed == {i \in Items : Fates[i].status = "item_passed"}
<1>1. main = "fan" /\ \A i \in Items : ~ Working(i) BY JoinedItems
<1>2. \A i \in Items : Reporting(i) BY <1>1 DEF Inv, Pruning
<1>3. pr.pruned \subseteq Losers /\ Losers \subseteq pr.pruned /\ ~ pr.stopAll
      BY <1>1 DEF Inv, Keeping, Working
<1>4. pr.scored \subseteq Items /\ Losers \subseteq pr.scored
      BY DEF Inv, Typed, Prunes, Losers, lowestBeyondK
<1>5. \A i \in Items : isPruned(pr, i) <=> i \in Losers BY <1>3 DEF isPruned
<1>6. \A i \in Items : i <= size \/ i > size BY MapAssumption DEF Items, Inv, Typed
<1>7. NoItem.status = "none" BY DEF NoItem
<1>8. pruned = Losers
      BY <1>4, <1>5, <1>6, <1>7, FirstFrontier
<1>9. \A i \in Items : i <= size => (local[i].status = "item_passed" <=> i \in pr.scored)
      BY <1>1, <1>2, JoinedItems DEF Inv, KeptScored, Reporting
<1>10. passed \cup pruned = pr.scored
  <2>1. ASSUME NEW i \in Items, i > size PROVE i \notin passed /\ i \notin pruned /\ i \notin pr.scored
        BY <1>7, <2>1, FirstFrontier
  <2>2. ASSUME NEW i \in Items, i <= size
        PROVE  (i \in passed \/ i \in pruned) <=> i \in pr.scored
    <3>1. CASE isPruned(pr, i) BY <1>4, <1>5, <1>8, <3>1
    <3>2. CASE ~ isPruned(pr, i)
          BY <1>5, <1>8, <1>9, <2>2, <3>2, FirstFrontier
    <3> QED BY <3>1, <3>2
  <2> HIDE DEF passed, pruned
  <2>3. passed \subseteq Items /\ pruned \subseteq Items BY DEF passed, pruned
  <2> QED BY <1>4, <1>6, <2>1, <2>2, <2>3
<1> HIDE DEF passed, pruned
<1>11. pruned = lowestBeyondK(journal.body, passed \cup pruned, def.k) BY <1>8, <1>10 DEF Losers
<1> QED BY <1>11 DEF passed, pruned

\* stop_when: if the first frontier prunes, a winner passes
LEMMA FirstFrontierHasWinner ==
  ASSUME Inv, Joined, def.prune = "stop", statusErr = "none", journal.frontiers = 0,
         NEW i \in Items, Fates[i].status = "item_pruned"
  PROVE  \E w \in Items : Fates[w].status = "item_passed" /\ journal.body[w] >= Target
<1>1. main = "fan" BY JoinedItems
<1>2. \A j \in Items : Reporting(j) BY <1>1 DEF Inv, Pruning
<1>3. \A j \in Items : j <= size \/ j > size BY MapAssumption DEF Items, Inv, Typed
<1>4. NoItem.status = "none" BY DEF NoItem
<1>5. i <= size BY <1>3, <1>4, FirstFrontier
<1>6. local[i].status # "item_pruned" BY <1>2 DEF Reporting
<1>7. isPruned(pr, i) BY <1>5, <1>6, FirstFrontier
<1>8. pr.stopAll BY <1>1, <1>7 DEF Inv, Stopping, isPruned
<1>9. PICK w \in pr.scored : w \notin pr.pruned /\ journal.body[w] >= Target
      BY <1>1, <1>8 DEF Inv, Stopping
<1>10. w \in Items BY DEF Inv, Typed, Prunes
<1>11. w \in pr.completed /\ local[w].status = "item_passed" BY <1>2, <1>10 DEF Reporting
<1>12. ~ isPruned(pr, w) BY <1>9, <1>11 DEF isPruned
<1>13. w <= size BY <1>3, <1>10, FirstFrontier
<1>14. Fates[w].status = "item_passed" BY <1>10, <1>11, <1>12, <1>13, FirstFrontier
<1> QED BY <1>9, <1>10, <1>14

\* commitMapFrontier
LEMMA FrontierKeeps ==
  ASSUME Inv, commitMapFrontier
  PROVE  Inv'
<1>1. /\ Joined /\ main' = "joined" /\ main = "fan"
      /\ UNCHANGED <<def, size, pc, pr, live, statusErr, seen>>
      BY FrontierCases, JoinedItems
<1>2. \A i \in Items : ~ Working(i) BY <1>1, JoinedItems
<1>3. Phases' BY <1>1, <1>2 DEF Inv, Typed, Phases, Working
<1>4. Beyond' /\ Keeping' /\ KeptScored' /\ Ended' /\ Stopping'
      BY <1>1 DEF Beyond, Keeping, KeptScored, Ended, Stopping
<1>5. Faulty' BY <1>1 DEF Inv, Faulty
<1>6. VerdictFromLog' /\ FailsLoud' BY <1>1 DEF VerdictFromLog, FailsLoud, Results
<1>7. CASE /\ UNCHANGED <<journal, mem, local>>
           /\ statusErr = "none" => \A i \in Items : Recorded(i)
  <2>1. Typed' BY <1>1, <1>7 DEF Inv, Typed
  <2>2. JoinedRecorded' BY <1>1, <1>7 DEF JoinedRecorded, Recorded
  <2>3. Dispositions' BY <1>1, <1>7 DEF Inv, Dispositions, Working, Committed
  <2>4. Plain' BY <1>1, <1>7 DEF Inv, Plain, Recorded
  <2>5. Pruning' BY <1>1, <1>7 DEF Inv, Pruning
  <2>6. FrontierIsTopK' /\ StopHasWinner'
        BY <1>1, <1>7 DEF Inv, Reported, FrontierIsTopK, StopHasWinner, Disposed
  <2> QED BY <1>3, <1>4, <1>5, <1>6, <2>1, <2>2, <2>3, <2>4, <2>5, <2>6 DEF Inv, Reported
<1>8. CASE /\ def.prune # "none" /\ statusErr = "none" /\ journal.frontiers = 0
           /\ journal' = [journal EXCEPT !.items = Fates, !.frontiers = @ + 1]
           /\ local' = Fates
           /\ mem' = [i \in Items |-> IF i > size THEN mem[i] ELSE Fates[i].status]
  <2>1. Fates \in [Items -> ItemRecords] BY <1>1, <1>8, FirstFrontier
  <2>2. /\ journal' \in Journals /\ journal'.items = Fates /\ journal'.body = journal.body
        /\ journal'.frontiers = 1
    <3>1. journal \in Journals /\ journal.frontiers + 1 = 1 BY <1>8 DEF Inv, Typed
    <3>2. journal' = [journal EXCEPT !.items = Fates, !.frontiers = 1] BY <1>8, <3>1
    <3>3. 1 \in Nat OBVIOUS
    <3> QED BY <2>1, <3>1, <3>2, <3>3 DEF Journals
  <2>3. \A i \in Items : i > size => Fates[i] = NoItem /\ mem[i] = "none"
    <3>1. \A i \in Items : journal.items[i] = NoItem BY <1>8 DEF Inv, Dispositions
    <3>2. NoItem.status = "none" BY DEF NoItem
    <3> QED BY <1>1, <1>8, <3>1, <3>2, FirstFrontier, JoinedItems DEF Recorded
  <2>4. \A i \in Items : ~ (i > size) => Fates[i].status \in Statuses
    <3>1. \A i \in Items : ~ (i > size) => i <= size BY MapAssumption DEF Items, Inv, Typed
    <3> QED BY <1>1, <1>8, <3>1, FirstFrontier DEF Statuses
  <2>5. NoItem.status = "none" /\ "none" \notin Statuses BY DEF NoItem, Statuses
  <2>6. Typed'
    <3>1. mem' \in [Items -> Statuses \cup {"none", "pending"}]
          BY <1>8, <2>3, <2>4 DEF Inv, Typed
    <3> QED BY <1>1, <1>8, <2>1, <2>2, <3>1 DEF Inv, Typed
  <2>7. JoinedRecorded' BY <1>8, <2>2, <2>3, <2>5 DEF JoinedRecorded, Recorded
  <2>8. Dispositions'
    <3>1. \A i \in 1 .. size : i \in Items /\ ~ (i > size) BY MapAssumption DEF Items, Inv, Typed
    <3> QED BY <1>1, <1>2, <1>8, <2>2, <2>3, <2>4, <2>5, <3>1 DEF Dispositions, Working, Committed
  <2>9. Plain' BY <1>1, <1>8 DEF Plain
  <2>10. Pruning' BY <1>1, <1>8 DEF Inv, Pruning
  <2>11. FrontierIsTopK' 
    <3>1. SUFFICES ASSUME def.prune = "keep" PROVE FrontierIsTopK' BY <1>1 DEF FrontierIsTopK
    <3>2. Disposed("item_pruned")' = {i \in Items : Fates[i].status = "item_pruned"}
          BY <2>2 DEF Disposed
    <3>3. Disposed("item_passed")' = {i \in Items : Fates[i].status = "item_passed"}
          BY <2>2 DEF Disposed
    <3>4. Disposed("item_pruned")' = lowestBeyondK(journal.body,
                 Disposed("item_passed")' \cup Disposed("item_pruned")', def.k)
          BY <1>1, <1>8, <3>1, <3>2, <3>3, FirstFrontierIsTopK
    <3> QED BY <1>1, <2>2, <3>4 DEF FrontierIsTopK
  <2>12. StopHasWinner'
    <3>1. SUFFICES ASSUME def.prune = "stop", NEW i \in Items, Fates[i].status = "item_pruned"
                   PROVE  \E w \in Items : Fates[w].status = "item_passed" /\ journal.body[w] >= Target
          BY <1>1, <2>2 DEF StopHasWinner, Disposed
    <3> QED BY <1>1, <1>8, <3>1, FirstFrontierHasWinner
  <2> QED BY <1>3, <1>4, <1>5, <1>6, <2>6, <2>7, <2>8, <2>9, <2>10, <2>11, <2>12 DEF Inv, Reported
<1> QED BY <1>7, <1>8, FrontierCases

-----------------------------------------------------------------------------
(* The environment.                                                        *)

\* Interrupt only ends the context
LEMMA InterruptKeeps ==
  ASSUME Inv, Interrupt
  PROVE  Inv'
<1>1. UNCHANGED <<def, size, journal, mem, pc, local, pr, live, statusErr, main, seen>>
      BY DEF Interrupt
<1>2. Typed' /\ Phases' /\ Beyond' /\ JoinedRecorded' /\ Faulty' /\ Dispositions' /\ Plain'
      BY <1>1 DEF Inv, Typed, Phases, Beyond, JoinedRecorded, Faulty, Dispositions, Plain,
                  Working, Recorded, Committed
<1>3. Pruning' /\ Keeping' /\ KeptScored' /\ Ended' /\ Stopping'
      BY <1>1 DEF Inv, Pruning, Reporting, Recorded, Keeping, Losers, KeptScored, Ended, Stopping
<1>4. FrontierIsTopK' /\ StopHasWinner'
      BY <1>1 DEF Inv, Reported, FrontierIsTopK, StopHasWinner, Disposed
<1>5. VerdictFromLog'
      BY <1>1 DEF Inv, Reported, VerdictFromLog, TallyPasses, WithStatus
<1>6. FailsLoud' BY <1>1 DEF Inv, Reported, FailsLoud
<1> QED BY <1>2, <1>3, <1>4, <1>5, <1>6 DEF Inv, Reported

\* Crash: the goroutines are gone, the log is kept
LEMMA CrashKeeps ==
  ASSUME Inv, Crash
  PROVE  Inv'
<1>1. /\ main' = "dead" /\ pc' = [i \in Items |-> "idle"]
      /\ UNCHANGED <<def, size, journal, mem, local, pr, live, statusErr, seen>>
      BY DEF Crash
<1>2. Typed' BY <1>1 DEF Inv, Typed, Points
<1>3. Phases' /\ Beyond' /\ JoinedRecorded' /\ Faulty'
      BY <1>1 DEF Inv, Phases, Beyond, JoinedRecorded, Faulty, Working
<1>4. Dispositions' BY <1>1 DEF Inv, Dispositions, Working, Committed
<1>5. Plain' BY <1>1 DEF Inv, Plain
<1>6. Pruning' /\ Keeping' /\ KeptScored' /\ Ended' /\ Stopping'
      BY <1>1 DEF Pruning, Keeping, KeptScored, Ended, Stopping
<1>7. FrontierIsTopK' /\ StopHasWinner'
      BY <1>1 DEF Inv, Reported, FrontierIsTopK, StopHasWinner, Disposed
<1>8. VerdictFromLog' /\ FailsLoud' BY <1>1 DEF VerdictFromLog, FailsLoud, Results
<1> QED BY <1>2, <1>3, <1>4, <1>5, <1>6, <1>7, <1>8 DEF Inv, Reported

\* an idle prune run and its fields
LEMMA IdleRunTyped == IdleRun \in Prunes
<1>1. NoDecision \in [stop : BOOLEAN, losers : SUBSET Items] BY DEF NoDecision
<1> QED BY <1>1 DEF IdleRun, Prunes

\* Drive: a later driver folds the log; `over' may have become shorter
LEMMA DriveKeeps ==
  ASSUME Inv, Drive
  PROVE  Inv'
<1>1. /\ main' = "idle" /\ size' \in 0 .. MaxItems /\ size' <= size
      /\ mem' = [i \in Items |-> journal.items[i].status]
      /\ pc' = [i \in Items |-> "idle"]
      /\ local' = [i \in Items |-> NoItem]
      /\ pr' = IdleRun /\ live' = {} /\ statusErr' = "none" /\ seen' = FALSE
      /\ UNCHANGED <<def, journal>>
      BY MapAssumption DEF Drive, Inv, Typed, Fault
<1>2. NoItem \in ItemRecords BY DEF NoItem, ItemRecords
<1>3. Typed'
  <2>1. mem' \in [Items -> Statuses \cup {"none", "pending"}]
        BY <1>1 DEF Inv, Typed, Journals, ItemRecords
  <2>2. pr' \in Prunes BY <1>1, IdleRunTyped
  <2> QED BY <1>1, <1>2, <2>1, <2>2 DEF Inv, Typed, Points
<1>4. Phases' /\ Beyond' /\ JoinedRecorded' /\ Faulty'
      BY <1>1 DEF Phases, Beyond, JoinedRecorded, Faulty, Working
<1>5. Dispositions'
  <2>1. \A i \in 1 .. size' : i \in 1 .. size BY <1>1, MapAssumption DEF Inv, Typed
  <2> QED BY <1>1, <2>1 DEF Inv, Dispositions, Working, Committed
<1>6. Plain' BY <1>1 DEF Plain
<1>7. Pruning' /\ Keeping' /\ KeptScored' /\ Ended' /\ Stopping'
      BY <1>1 DEF Pruning, Keeping, KeptScored, Ended, Stopping
<1>8. FrontierIsTopK' /\ StopHasWinner'
      BY <1>1 DEF Inv, Reported, FrontierIsTopK, StopHasWinner, Disposed
<1>9. VerdictFromLog' /\ FailsLoud' BY <1>1 DEF VerdictFromLog, FailsLoud, Results
<1> QED BY <1>3, <1>4, <1>5, <1>6, <1>7, <1>8, <1>9 DEF Inv, Reported

LEMMA InitHolds == Init => Inv
<1> SUFFICES ASSUME Init PROVE Inv OBVIOUS
<1>1. NoItem \in ItemRecords /\ NoItem.status = "none" BY DEF NoItem, ItemRecords
<1>2. NoReduce \in Reduces BY DEF NoReduce, Reduces
<1>3. journal \in Journals BY <1>1, <1>2 DEF Init, Journals
<1>4. journal.frontiers = 0 /\ \A i \in Items : journal.items[i] = NoItem BY DEF Init
<1>5. Typed
  <2>1. size \in 0 .. MaxItems BY MapAssumption DEF Init
  <2>2. pr \in Prunes BY IdleRunTyped DEF Init
  <2> QED BY <1>1, <1>3, <2>1, <2>2 DEF Init, Typed, Points, Results
<1>6. Phases /\ Beyond /\ JoinedRecorded /\ Faulty
      BY <1>1, <1>4 DEF Init, Phases, Beyond, JoinedRecorded, Faulty, Working
<1>7. Dispositions BY <1>1, <1>4 DEF Init, Dispositions, Working, Committed
<1>8. Plain BY DEF Init, Plain
<1>9. Pruning /\ Keeping /\ KeptScored /\ Ended /\ Stopping
      BY DEF Init, Pruning, Keeping, KeptScored, Ended, Stopping
<1>10. FrontierIsTopK /\ StopHasWinner
      BY <1>1, <1>4 DEF FrontierIsTopK, StopHasWinner, Disposed
<1>11. VerdictFromLog /\ FailsLoud BY DEF Init, VerdictFromLog, FailsLoud, Results
<1> QED BY <1>5, <1>6, <1>7, <1>8, <1>9, <1>10, <1>11 DEF Inv, Reported

LEMMA StepHolds == Inv /\ [Next]_vars => Inv'
<1> SUFFICES ASSUME Inv, [Next]_vars PROVE Inv' OBVIOUS
<1>1. CASE Handler
      BY <1>1, StartKeeps, TrivialKeeps, FrontierKeeps, TallyKeeps, ReduceKeeps DEF Handler
<1>2. CASE OverFails BY <1>2, TrivialKeeps
<1>3. ASSUME NEW i \in Items, ItemStep(i) PROVE Inv'
      BY <1>3, AdvancingItem, AbortingItem, EndingItem, CommittingItem, MarkingItem,
         DecidingItem, ApplyingItem DEF ItemStep
<1>4. ASSUME NEW i \in Items, ItemTrouble(i) PROVE Inv'
      BY <1>4, AbortingItem, EndingItem DEF ItemTrouble
<1>5. CASE Interrupt BY <1>5, InterruptKeeps
<1>6. CASE Crash BY <1>6, CrashKeeps
<1>7. CASE Drive BY <1>7, DriveKeeps
<1>8. CASE UNCHANGED vars
  <2>1. UNCHANGED <<def, size, journal, mem, pc, local, pr, live, statusErr, main, seen>>
        BY <1>8 DEF vars
  <2>2. Typed' /\ Phases' /\ Beyond' /\ JoinedRecorded' /\ Faulty' /\ Dispositions' /\ Plain'
        BY <2>1 DEF Inv, Typed, Phases, Beyond, JoinedRecorded, Faulty, Dispositions, Plain,
                    Working, Recorded, Committed
  <2>3. Pruning' /\ Keeping' /\ KeptScored' /\ Ended' /\ Stopping'
        BY <2>1 DEF Inv, Pruning, Reporting, Recorded, Keeping, Losers, KeptScored, Ended, Stopping
  <2>4. FrontierIsTopK' /\ StopHasWinner' /\ FailsLoud'
        BY <2>1 DEF Inv, Reported, FrontierIsTopK, StopHasWinner, Disposed, FailsLoud
  <2>5. VerdictFromLog'
        BY <2>1 DEF Inv, Reported, VerdictFromLog, TallyPasses, WithStatus
  <2> QED BY <2>2, <2>3, <2>4, <2>5 DEF Inv, Reported
<1> QED BY <1>1, <1>2, <1>3, <1>4, <1>5, <1>6, <1>7, <1>8 DEF Next

LEMMA InvIsSafe == Inv => MapSafe
<1> SUFFICES ASSUME Inv PROVE MapSafe OBVIOUS
<1>1. TypeOK
  <2>1. journal \in Journals /\ pr \in Prunes BY DEF Inv, Typed
  <2>2. \A i \in Items : journal.items[i].status \in Statuses \cup {"none"}
        BY <2>1 DEF Journals, ItemRecords
  <2> QED BY <2>1, <2>2 DEF TypeOK, Inv, Typed, Journals, Prunes, Points
<1>2. NoLeak
  <2>1. SUFFICES ASSUME main \in Results
                 PROVE  live = {} /\ \A i \in 1 .. size : pc[i] \in {"done", "idle"}
        BY DEF NoLeak
  <2>2. main # "fan" /\ main # "dead" BY <2>1 DEF Results
  <2>3. \A i \in Items : ~ Working(i) BY <2>2 DEF Inv, Phases
  <2>4. live \subseteq Items /\ \A i \in live : pc[i] \in {"body", "commit"}
        BY <2>2 DEF Inv, Phases, Typed
  <2>5. 1 .. size \subseteq Items BY MapAssumption DEF Inv, Typed, Items
  <2> QED BY <2>3, <2>4, <2>5 DEF Working
<1> QED BY <1>1, <1>2 DEF MapSafe, Inv, Reported

\* MapSafe, for every number of items and every definition: keep: top(k) commits
\* the k best of the items that passed in whatever order they reported, stop_when
\* discards only for a survivor that reached the target, the verdict is the one
\* the log gives, a broken definition fails the map, nothing outlives the handler.
THEOREM MapIsSafe == Spec => []MapSafe
<1>1. Spec => []Inv BY InitHolds, StepHolds, PTL DEF Spec
<1> QED BY <1>1, InvIsSafe, PTL

-----------------------------------------------------------------------------
(* What is recorded is final, and the quorum is honest.                    *)

KeepsFinal ==
  /\ \A i \in Items :
       LET r == journal.items[i]
       IN  r.status \in {"item_passed", "item_pruned"} \/ r.outcome = "permanent"
           => journal'.items[i] = r
  /\ \A i \in Items : journal.body[i] # 0 => journal'.body[i] = journal.body[i]
  /\ journal.frontiers > 0 => journal'.items = journal.items

CountsHonestly ==
  journal'.reduce # journal.reduce =>
    /\ ~ journal.reduce.done
    /\ LET cohort == size - Cardinality(Disposed("item_pruned") \cap (1 .. size))
           agree == {i \in Disposed("item_passed") : journal.body[i] >= Target}
       IN  journal'.reduce.verdict =
             (Cardinality(agree) >= ratioThreshold(def.quorum, cohort))

\* a step writes the journal in one of four ways
LEMMA JournalSteps ==
  ASSUME Inv, [Next]_vars
  PROVE  \/ journal' = journal
         \/ \E i \in Items : BodyPasses(i) \/ commitMapItem(i)
         \/ commitMapFrontier
         \/ /\ main = "reduce" /\ ~ journal.reduce.done
            /\ CommitReduce(collectReduceBranches, Cohort)
<1>1. CASE Handler \/ OverFails
      BY <1>1 DEF Handler, OverFails, MapStart, StartAt, MapTrivial, Tally, ReduceReplay,
                  runQuorumReduce, runCommandReduce
<1>2. ASSUME NEW i \in Items, ItemStep(i)
      PROVE  journal' = journal \/ BodyPasses(i) \/ commitMapItem(i)
      BY <1>2 DEF ItemStep, ItemRegister, ItemQueued, ItemAcquire, ItemAcquireCancelled,
                  ItemRecheck, ItemCreate, ReportMark, ReportDecide, ReportApply, Only, Prune
<1>3. ASSUME NEW i \in Items, ItemTrouble(i) PROVE journal' = journal
      BY <1>3 DEF ItemTrouble, CreateDefinitionFault, CreateFails, ImageUnavailable,
                  BodySkips, BodyFails, BodyInternal, ReportFails, DispatchError
<1>4. CASE Interrupt \/ Crash \/ Drive BY <1>4 DEF Interrupt, Crash, Drive
<1>5. CASE UNCHANGED vars BY <1>5 DEF vars
<1> QED BY <1>1, <1>2, <1>3, <1>4, <1>5 DEF Next

LEMMA StepKeepsFinal ==
  ASSUME Inv, [Next]_vars
  PROVE  KeepsFinal
<1>1. journal \in Journals BY DEF Inv, Typed
<1>2. CASE journal' = journal BY <1>2 DEF KeepsFinal
<1>3. ASSUME NEW i \in Items, BodyPasses(i) PROVE KeepsFinal
  <2>1. PICK s \in IF journal.body[i] # 0 THEN {journal.body[i]}
                   ELSE IF def.prune = "none" /\ def.reduce = "none" THEN {Target} ELSE Scores :
          journal' = [journal EXCEPT !.body[i] = s]
        BY <1>3 DEF BodyPasses
  <2>2. journal.body[i] # 0 => s = journal.body[i] BY <2>1
  <2>3. /\ journal'.items = journal.items
        /\ \A j \in Items : journal'.body[j] = IF j = i THEN s ELSE journal.body[j]
        BY <1>1, <2>1 DEF Journals
  <2> QED BY <2>2, <2>3 DEF KeepsFinal
<1>4. ASSUME NEW i \in Items, commitMapItem(i) PROVE KeepsFinal
  <2>1. Working(i) /\ def.prune = "none" BY <1>4 DEF commitMapItem, Working, Inv, Pruning
  <2>2. journal.frontiers = 0 BY <2>1 DEF Inv, Dispositions
  <2>3. /\ journal.items[i].status \in {"none", "item_failed"}
        /\ journal.items[i].outcome # "permanent"
        BY <2>1 DEF Inv, Dispositions, Committed, NoItem
  <2>4. /\ journal'.body = journal.body
        /\ \A j \in Items : j # i => journal'.items[j] = journal.items[j]
        BY <1>1, <1>4 DEF commitMapItem, Journals
  <2> QED BY <2>2, <2>3, <2>4 DEF KeepsFinal
<1>5. CASE commitMapFrontier
  <2>1. CASE UNCHANGED journal BY <1>2, <2>1
  <2>2. CASE /\ def.prune # "none" /\ journal.frontiers = 0
             /\ journal' = [journal EXCEPT !.items = Fates, !.frontiers = @ + 1]
    <3>1. \A i \in Items : journal.items[i] = NoItem BY <2>2 DEF Inv, Dispositions
    <3>2. journal'.body = journal.body BY <1>1, <2>2 DEF Journals
    <3> QED BY <2>2, <3>1, <3>2 DEF KeepsFinal, NoItem
  <2> QED BY <1>5, <2>1, <2>2, FrontierCases
<1>6. CASE CommitReduce(collectReduceBranches, Cohort)
      BY <1>6, CohortIsInt, CommitReduceTyped DEF Inv, KeepsFinal
<1> QED BY <1>2, <1>3, <1>4, <1>5, <1>6, JournalSteps

LEMMA StepCountsHonestly ==
  ASSUME Inv, [Next]_vars
  PROVE  CountsHonestly
<1>1. journal \in Journals BY DEF Inv, Typed
<1>2. CASE journal' = journal BY <1>2 DEF CountsHonestly
<1>3. ASSUME NEW i \in Items, BodyPasses(i) \/ commitMapItem(i) PROVE CountsHonestly
  <2>1. journal'.reduce = journal.reduce BY <1>1, <1>3 DEF BodyPasses, commitMapItem, Journals
  <2> QED BY <2>1 DEF CountsHonestly
<1>4. CASE commitMapFrontier
  <2>1. journal'.reduce = journal.reduce BY <1>1, <1>4, FrontierCases DEF Journals
  <2> QED BY <2>1 DEF CountsHonestly
<1>5. CASE /\ main = "reduce" /\ ~ journal.reduce.done
           /\ CommitReduce(collectReduceBranches, Cohort)
  <2> DEFINE cohort == size - Cardinality(Disposed("item_pruned") \cap (1 .. size))
             agree == {i \in Disposed("item_passed") : journal.body[i] >= Target}
             agreeing == {i \in collectReduceBranches : journal.body[i] >= Target}
  <2>1. \A i \in Items : Recorded(i) BY <1>5 DEF Inv, Phases, JoinedRecorded
  <2>2. WithStatus(LocalStatus, "item_pruned") = Disposed("item_pruned") \cap (1 .. size)
    <3>1. 1 .. size \subseteq Items BY MapAssumption DEF Inv, Typed, Items
    <3> QED BY <2>1, <3>1 DEF WithStatus, LocalStatus, Disposed, Recorded
  <2>3. Cohort = cohort BY <2>2 DEF Cohort
  <2>4. agreeing = agree
    <3>1. \A i \in Items : journal.body[i] >= Target => journal.body[i] # 0
          BY MapAssumption, BodiesAreScores DEF Inv, Scoring
    <3> QED BY <2>1, <3>1 DEF collectReduceBranches, Disposed, Recorded
  <2>5. journal'.reduce.verdict = (Cardinality(agreeing) >= ratioThreshold(def.quorum, Cohort))
        BY <1>5, CohortIsInt, CommitReduceTyped DEF Inv
  <2> HIDE DEF cohort, agree, agreeing
  <2>6. journal'.reduce.verdict = (Cardinality(agree) >= ratioThreshold(def.quorum, cohort))
        BY <2>3, <2>4, <2>5
  <2> QED BY <1>5, <2>6 DEF CountsHonestly, cohort, agree
<1> QED BY <1>2, <1>3, <1>4, <1>5, JournalSteps

\* MapRecords, for every number of items and every definition: no resume, rerun or
\* race changes a final disposition, a committed output or a frontier, and a
\* quorum is committed once, over what the log says of the items.
THEOREM MapRecordsHold == Spec => MapRecords
<1>1. Spec => []Inv BY InitHolds, StepHolds, PTL DEF Spec
<1>2. Inv /\ [Next]_vars => [KeepsFinal]_vars BY StepKeepsFinal
<1>3. Inv /\ [Next]_vars => [CountsHonestly]_vars BY StepCountsHonestly
<1>4. Spec => [][KeepsFinal]_vars BY <1>1, <1>2, PTL DEF Spec
<1>5. Spec => [][CountsHonestly]_vars BY <1>1, <1>3, PTL DEF Spec
<1>6. Spec => DispositionFinal BY <1>4, PTL DEF DispositionFinal, KeepsFinal
<1>7. Spec => QuorumHonest BY <1>5, PTL DEF QuorumHonest, CountsHonestly
<1> QED BY <1>6, <1>7 DEF MapRecords
=============================================================================
