----------------------------- MODULE StepProofs -----------------------------
(***************************************************************************)
(* Proofs about the steps that outlive a driver: the call of a child       *)
(* workflow and the compose block, for any containers, runtime versions,   *)
(* failures and number of drivers; the await step and its signals, for any *)
(* number of awaits and of writers that come one after the other; and the  *)
(* react step, for any bound on turns and any answers of its model.        *)
(***************************************************************************)
EXTENDS SignalAwait, ReactLoop, SubworkflowCall, FiniteSetTheorems, TLAPS

-----------------------------------------------------------------------------
(* Calls and compose blocks.                                               *)

Statuses == {"none", "ok", "skip", "retryable_failure", "permanent_failure", "internal", "crashed"}
CallTypes == CallTypeOK /\ inner \in Statuses
\* a driver that has left the node, or is about to create something, holds nothing
HoldsNothing == cpc \in {"idle", "enter", "compose"} => mine = {}
\* what exists is held by the driver or was left behind
BoxesAccounted == boxes \subseteq lost \cup mine
\* what a new call is about to pin was read
PinWasRead == cpc = "record" => read # Unpinned /\ started = Unpinned
\* the driver in the body compared what it found with what is pinned
BodyCompared == node = "call" /\ cpc = "body" => read = started /\ started # Unpinned
\* a version other than the one that the driver found came behind its comparison
MovedIsSeen == read # Unpinned => version = read \/ version \in crept
\* nothing ran before the first record
RanIsPinned == started = Unpinned => ran = {}
\* the phases of the two kinds of node
PhaseOfNode ==
    /\ cpc = "compose" => node = "compose"
    /\ cpc = "product" => node = "call" /\ body = "whole"
    /\ done => node = "call"
\* a container of this walk that has a snapshot came from it
RestoredSoFar == cpc \in {"create", "record"} => Snapshotted \cap snapshot \cap mine \subseteq restored
CallInv ==
    /\ CallTypes /\ HoldsNothing /\ BoxesAccounted
    /\ PinWasRead /\ BodyCompared /\ MovedIsSeen /\ RanIsPinned /\ BodyUnderPins
    /\ PhaseOfNode /\ DoneIsFinal
    /\ RestoredSoFar

LEMMA CallInitInv == CallInit => CallInv
BY DEF CallInit, CallInv, CallTypes, CallTypeOK, Statuses, HoldsNothing, BoxesAccounted, PinWasRead, BodyCompared, MovedIsSeen, RanIsPinned, BodyUnderPins,
   PhaseOfNode, DoneIsFinal, RestoredSoFar

LEMMA CallTypesKept ==
    ASSUME CallInv, CallNext
    PROVE  CallTypes'
<1>1. CASE Start \/ Upgrade \/ Die
  BY <1>1 DEF CallInv, CallTypes, CallTypeOK, Statuses, Start, Upgrade, Die, Leave, pins, history, Hit, Well
<1>2. CASE Create \/ CreateFails
  BY <1>2 DEF CallInv, CallTypes, CallTypeOK, Statuses, Create, CreateFails, pins, history, Hit, Well
<1>3. CASE DestroyOne
  BY <1>3 DEF CallInv, CallTypes, CallTypeOK, Statuses, DestroyOne, pins, history, Hit, Well
<1>4. CASE PreflightCheck \/ PreflightEnd
  BY <1>4 DEF CallInv, CallTypes, CallTypeOK, Statuses, PreflightCheck, PreflightEnd, Leave, pins, history, Hit, Well
<1>5. CASE CallEnter \/ CallResolve \/ CallRecord
  BY <1>5 DEF CallInv, CallTypes, CallTypeOK, Statuses, CallEnter, CallResolve, CallRecord, ResolveRuntimes, Leave, pins, history, Hit, Well
<1>6. CASE BodyStep \/ BodyEnd \/ CallProduct \/ CallReturn
  BY <1>6 DEF CallInv, CallTypes, CallTypeOK, Statuses, BodyStep, BodyEnd, CallProduct, CallReturn, Leave, pins, history, Hit, Well
<1>7. CASE ComposeEnter \/ ComposeCreate \/ ComposeReturn
  BY <1>7 DEF CallInv, CallTypes, CallTypeOK, Statuses, ComposeEnter, ComposeCreate, ComposeReturn, Leave, pins, history, Hit, Well
<1>8. QED BY <1>1, <1>2, <1>3, <1>4, <1>5, <1>6, <1>7 DEF CallNext, CallStepNext

\* the containers: created, held, destroyed or left behind
LEMMA BoxesKept ==
    ASSUME CallInv, CallNext
    PROVE  HoldsNothing' /\ BoxesAccounted'
<1>1. CASE Start \/ Upgrade \/ Die
  BY <1>1 DEF CallInv, HoldsNothing, BoxesAccounted, Start, Upgrade, Die, Leave, pins, history
<1>2. CASE Create \/ CreateFails
  BY <1>2 DEF CallInv, HoldsNothing, BoxesAccounted, Create, CreateFails, Creating, pins, history
<1>3. CASE DestroyOne
  BY <1>3 DEF CallInv, HoldsNothing, BoxesAccounted, DestroyOne, Destroying, pins, history
<1>4. CASE PreflightCheck \/ PreflightEnd
  BY <1>4 DEF CallInv, HoldsNothing, BoxesAccounted, PreflightCheck, PreflightEnd, Leave, pins, history
<1>5. CASE CallEnter \/ CallResolve \/ CallRecord
  BY <1>5 DEF CallInv, HoldsNothing, BoxesAccounted, CallEnter, CallResolve, CallRecord, Leave, pins, history
<1>6. CASE BodyStep \/ BodyEnd \/ CallProduct \/ CallReturn
  BY <1>6 DEF CallInv, HoldsNothing, BoxesAccounted, BodyStep, BodyEnd, CallProduct, CallReturn, Leave, pins, history
<1>7. CASE ComposeEnter \/ ComposeCreate \/ ComposeReturn
  BY <1>7 DEF CallInv, HoldsNothing, BoxesAccounted, ComposeEnter, ComposeCreate, ComposeReturn, Leave, pins, history
<1>8. QED BY <1>1, <1>2, <1>3, <1>4, <1>5, <1>6, <1>7 DEF CallNext, CallStepNext

\* the pins, the completion and the snapshots
LEMMA PinsKept ==
    ASSUME CallInv, CallNext
    PROVE  PinWasRead' /\ BodyCompared' /\ MovedIsSeen' /\ RanIsPinned' /\ BodyUnderPins' /\ PhaseOfNode' /\ DoneIsFinal'
<1> USE DEF PinWasRead, BodyCompared, MovedIsSeen, RanIsPinned, BodyUnderPins, PhaseOfNode, DoneIsFinal
<1>1. CASE Start \/ Upgrade \/ Die
  BY <1>1 DEF CallInv, Start, Upgrade, Die, Leave, pins, history
<1>2. CASE Create \/ CreateFails \/ DestroyOne
  BY <1>2 DEF CallInv, Create, CreateFails, DestroyOne, Creating, pins, history
<1>3. CASE PreflightCheck \/ PreflightEnd
  BY <1>3 DEF CallInv, PreflightCheck, PreflightEnd, Leave, pins, history
<1>4. CASE CallEnter
  BY <1>4 DEF CallInv, CallEnter, Leave, pins, history
<1>5. CASE CallResolve
  BY <1>5, CallAssumption DEF CallInv, CallTypes, CallTypeOK, CallResolve, ResolveRuntimes, CheckRuntimesDrift, Unpinned, pins, history
<1>6. CASE CallRecord
  BY <1>6 DEF CallInv, CallTypes, CallTypeOK, CallRecord, pins, history
<1>7. CASE BodyStep \/ BodyEnd
  BY <1>7 DEF CallInv, BodyStep, BodyEnd, pins, history
<1>8. CASE CallProduct \/ CallReturn
  BY <1>8 DEF CallInv, CallProduct, CallReturn, Leave, pins, history
<1>9. CASE ComposeEnter \/ ComposeCreate \/ ComposeReturn
  BY <1>9 DEF CallInv, ComposeEnter, ComposeCreate, ComposeReturn, Leave, pins, history
<1>10. QED BY <1>1, <1>2, <1>3, <1>4, <1>5, <1>6, <1>7, <1>8, <1>9 DEF CallNext, CallStepNext

LEMMA RestoredKept ==
    ASSUME CallInv, CallNext
    PROVE  RestoredSoFar'
<1> USE DEF RestoredSoFar
<1>1. CASE Start \/ Upgrade \/ Die
  BY <1>1 DEF CallInv, Start, Upgrade, Die, Leave, pins, history
<1>2. CASE Create
  <2>1. CASE cpc = "create"
    <3>1. PICK b : b = Wanted[nth]
      OBVIOUS
    <3>2. /\ cpc' = cpc /\ snapshot' = snapshot /\ mine' = mine \cup {b}
          /\ restored' = IF b \in Snapshotted /\ b \in snapshot THEN restored \cup {b} ELSE restored
      BY <1>2, <3>1 DEF Create
    <3>3. QED BY <2>1, <3>2 DEF CallInv
  <2>2. QED BY <1>2, <2>1 DEF Create, Creating
<1>3. CASE CreateFails \/ DestroyOne
  BY <1>3 DEF CallInv, CreateFails, DestroyOne, Destroying
<1>4. CASE PreflightCheck \/ PreflightEnd
  BY <1>4 DEF CallInv, PreflightCheck, PreflightEnd, Leave
<1>5. CASE CallEnter \/ CallResolve \/ CallRecord
  BY <1>5 DEF CallInv, HoldsNothing, CallEnter, CallResolve, CallRecord, Leave
<1>6. CASE BodyStep \/ BodyEnd \/ CallProduct \/ CallReturn
  BY <1>6 DEF CallInv, BodyStep, BodyEnd, CallProduct, CallReturn, Leave
<1>7. CASE ComposeEnter \/ ComposeCreate \/ ComposeReturn
  BY <1>7 DEF CallInv, ComposeEnter, ComposeCreate, ComposeReturn, Leave
<1>8. QED BY <1>1, <1>2, <1>3, <1>4, <1>5, <1>6, <1>7 DEF CallNext, CallStepNext

LEMMA CallNextInv == CallInv /\ [CallNext]_callVars => CallInv'
<1>1. SUFFICES ASSUME CallInv, [CallNext]_callVars PROVE CallInv'
  OBVIOUS
<1>2. CASE CallNext
  BY <1>1, <1>2, CallTypesKept, BoxesKept, PinsKept, RestoredKept DEF CallInv
<1>3. CASE UNCHANGED callVars
  BY <1>1, <1>3 DEF callVars, CallInv, CallTypes, CallTypeOK, HoldsNothing, BoxesAccounted, PinWasRead,
     BodyCompared, MovedIsSeen, RanIsPinned, BodyUnderPins, PhaseOfNode, DoneIsFinal, RestoredSoFar
<1>4. QED BY <1>1, <1>2, <1>3

\* the steps that enter the body of a call
LEMMA BodyEntered ==
    ASSUME CallInv, [CallNext]_callVars, cpc' = "body", cpc # "body", node = "call"
    PROVE  Snapshotted \cap snapshot \cap mine \subseteq restored
<1>1. CallResolve \/ CallRecord
  <2>1. ~(Start \/ Upgrade \/ Die \/ Create \/ CreateFails \/ DestroyOne \/ PreflightCheck \/ PreflightEnd)
    BY DEF Start, Upgrade, Die, Create, CreateFails, DestroyOne, PreflightCheck, PreflightEnd, Leave
  <2>2. ~(CallEnter \/ BodyStep \/ BodyEnd \/ CallProduct \/ CallReturn \/ ComposeEnter \/ ComposeReturn)
    BY DEF CallEnter, BodyStep, BodyEnd, CallProduct, CallReturn, ComposeEnter, ComposeReturn, Leave
  <2>3. ~ComposeCreate
    BY DEF CallInv, PhaseOfNode, ComposeCreate
  <2>4. cpc' # cpc
    OBVIOUS
  <2>5. QED BY <2>1, <2>2, <2>3, <2>4 DEF CallNext, CallStepNext, callVars
<1>2. cpc \in {"create", "record"}
  BY <1>1 DEF CallResolve, CallRecord
<1>3. QED BY <1>2 DEF CallInv, RestoredSoFar

\* what a compose block returns behind a destroy that failed
LEMMA UncleanReported ==
    ASSUME CallInv, [CallNext]_callVars, node = "compose", cpc = "destroy", unclean, status' # status
    PROVE  status' \notin {"ok", "skip"}
<1>1. ComposeReturn \/ Die
  <2>1. ~(Start \/ Upgrade \/ Create \/ CreateFails \/ DestroyOne \/ PreflightCheck \/ PreflightEnd)
    BY DEF Start, Upgrade, Create, CreateFails, DestroyOne, PreflightCheck, PreflightEnd, Creating
  <2>2. ~(CallEnter \/ CallResolve \/ CallRecord \/ BodyStep \/ BodyEnd \/ CallProduct \/ CallReturn)
    BY DEF CallEnter, CallResolve, CallRecord, BodyStep, BodyEnd, CallProduct, CallReturn
  <2>3. ~(ComposeEnter \/ ComposeCreate)
    BY DEF ComposeEnter, ComposeCreate
  <2>4. QED BY <2>1, <2>2, <2>3 DEF CallNext, CallStepNext, callVars
<1>2. QED BY <1>1 DEF ComposeReturn, Die, Leave

\* For any containers, versions, failures and number of drivers: a call or
\* compose block leaves no container behind but those of a failed destroy or
\* of a driver that died, walks its body under the runtimes it recorded, unless
\* one is replaced behind the comparison, and in the workspace that was
\* committed, completes once, and does not hide a failed destroy.
THEOREM CallIsSafe == CallSpec => CallSafe
<1>1. CallSpec => []CallInv
  BY CallInitInv, CallNextInv, PTL DEF CallSpec
<1>2. CallInv => CallTypeOK /\ NoLeakedBox /\ BodyUnderPins /\ DoneIsFinal
  BY DEF CallInv, CallTypes, HoldsNothing, BoxesAccounted, NoLeakedBox
<1>3. CallInv /\ [CallNext]_callVars =>
        [cpc' = "body" /\ cpc # "body" /\ node = "call" => Snapshotted \cap snapshot \cap mine \subseteq restored]_callVars
  BY BodyEntered
<1>4. CallInv /\ [CallNext]_callVars =>
        [node = "compose" /\ cpc = "destroy" /\ unclean /\ status' # status => status' \notin {"ok", "skip"}]_callVars
  BY UncleanReported
<1>5. CallSpec => [](CallTypeOK /\ NoLeakedBox /\ BodyUnderPins /\ DoneIsFinal)
  BY <1>1, <1>2, PTL
<1>6. CallSpec => WorkspaceRestored
  BY <1>1, <1>3, PTL DEF CallSpec, WorkspaceRestored
<1>7. CallSpec => FailedDestroyReported
  BY <1>1, <1>4, PTL DEF CallSpec, FailedDestroyReported
<1>8. QED BY <1>5, <1>6, <1>7 DEF CallSafe
-----------------------------------------------------------------------------
(* Signals and awaits, when awf signal processes do not overlap.           *)

Deliveries == [seq : Nat, from : SUBSET Writers, full : BOOLEAN]
\* the writers that have a number, and those that have a file
Alloc == {w \in Writers : seqOf[w] # 0}
Filed(w) == dir[w] \in {"control", "consumed"}
WriterPhase(w) ==
    /\ wpc[w] = "idle" => seqOf[w] = 0 /\ dir[w] = "none"
    /\ wpc[w] = "open" => seqOf[w] # 0 /\ dir[w] = "none"
    /\ wpc[w] \in {"write", "sent"} => seqOf[w] # 0 /\ Filed(w)
OneWriter == \A v, w \in Writers : wpc[v] \notin {"idle", "sent"} /\ wpc[w] \notin {"idle", "sent"} => v = w
UniqueSeq == \A v, w \in Alloc : seqOf[v] = seqOf[w] => v = w
\* the largest number is the number of numbers
SeqCount ==
    /\ \A w \in Writers : seqOf[w] <= Cardinality(Alloc)
    /\ Alloc # {} => \E w \in Alloc : seqOf[w] = Cardinality(Alloc)
\* a number that is allocated and not yet filed is above all that are
OpenIsLast == \A v, w \in Writers : wpc[w] = "open" /\ Filed(v) => seqOf[v] < seqOf[w]
WritersInv ==
    /\ \A w \in Writers : WriterPhase(w)
    /\ OneWriter /\ UniqueSeq /\ SeqCount /\ OpenIsLast

LEMMA AllocFinite ==
    /\ IsFiniteSet(Alloc) /\ Cardinality(Alloc) \in Nat
    /\ Cardinality(Writers) \in Nat /\ Cardinality(Alloc) <= Cardinality(Writers)
<1>1. Alloc \in SUBSET Writers
  BY DEF Alloc
<1>2. IsFiniteSet(Writers)
  BY SignalAssumption
<1>3. IsFiniteSet(Alloc) /\ Cardinality(Alloc) <= Cardinality(Writers)
  BY <1>1, <1>2, FS_Subset
<1>4. QED BY <1>2, <1>3, FS_CardinalityType

\* the number a writer is given when nobody else is writing
LEMMA NextSeqIs ==
    ASSUME TypeOK, WritersInv, \A v \in Writers : wpc[v] \in {"idle", "sent"}
    PROVE  NextSeq = Cardinality(Alloc) + 1
<1> DEFINE c == Cardinality(Alloc)
           Fits(n) == /\ \A w \in Writers : dir[w] \in {"control", "consumed"} => seqOf[w] < n
                      /\ n = 1 \/ \E w \in Writers : dir[w] \in {"control", "consumed"} /\ seqOf[w] = n - 1
<1>1. c \in Nat /\ c <= Cardinality(Writers) /\ Cardinality(Writers) \in Nat
  BY AllocFinite
<1>2. \A w \in Writers : seqOf[w] \in Nat /\ seqOf[w] <= c
  BY <1>1 DEF TypeOK, WritersInv, SeqCount
<1>3. \A w \in Writers : w \in Alloc <=> Filed(w)
  BY DEF WritersInv, WriterPhase, Filed, Alloc
<1>4. Alloc = {} => c = 0
  BY FS_EmptySet
<1>5. c + 1 \in 1 .. Cardinality(Writers) + 1 /\ Fits(c + 1)
  <2>1. c + 1 \in 1 .. Cardinality(Writers) + 1 /\ (\A w \in Writers : seqOf[w] < c + 1)
    BY <1>1, <1>2
  <2>2. CASE Alloc = {}
    BY <1>4, <2>1, <2>2
  <2>3. CASE Alloc # {}
    <3>1. PICK w \in Alloc : seqOf[w] = c
      BY <2>3 DEF WritersInv, SeqCount
    <3>2. w \in Writers /\ dir[w] \in {"control", "consumed"} /\ seqOf[w] = (c + 1) - 1
      BY <1>1, <1>3, <3>1 DEF Alloc, Filed
    <3>3. QED BY <2>1, <3>2
  <2>4. QED BY <2>2, <2>3
<1>6. ASSUME NEW n \in 1 .. Cardinality(Writers) + 1, Fits(n) PROVE n = c + 1
  <2>1. n \in Nat /\ 1 <= n
    BY <1>1
  <2>2. CASE Alloc = {}
    <3>1. ~ \E w \in Writers : dir[w] \in {"control", "consumed"}
      BY <1>3, <2>2 DEF Filed
    <3>2. QED BY <1>4, <1>6, <2>2, <3>1
  <2>3. CASE Alloc # {}
    <3>1. PICK w \in Alloc : seqOf[w] = c
      BY <2>3 DEF WritersInv, SeqCount
    <3>2. w \in Writers /\ dir[w] \in {"control", "consumed"} /\ c # 0
      BY <1>3, <3>1 DEF Alloc, Filed
    <3>3. c < n
      BY <1>6, <3>1, <3>2
    <3>4. PICK v \in Writers : seqOf[v] = n - 1
      BY <1>1, <1>6, <2>1, <3>2, <3>3
    <3>5. QED BY <1>1, <1>2, <2>1, <3>3, <3>4
  <2>4. QED BY <2>2, <2>3
<1> HIDE DEF c
<1>7. QED
  <2>1. NextSeq = CHOOSE n \in 1 .. Cardinality(Writers) + 1 : Fits(n)
    BY DEF NextSeq
  <2> HIDE DEF Fits
  <2>2. QED BY <1>5, <1>6, <2>1 DEF c

LEMMA ScanSeqInv ==
    ASSUME TypeOK, WritersInv, ~Overlapping, NEW w \in Writers, ScanSeq(w)
    PROVE  WritersInv' /\ seqOf' \in [Writers -> 0 .. Cardinality(Writers) + 1]
<1> DEFINE c == Cardinality(Alloc)
<1>1. /\ wpc[w] = "idle" /\ (\A v \in Writers : wpc[v] \in {"idle", "sent"})
      /\ seqOf' = [seqOf EXCEPT ![w] = NextSeq] /\ wpc' = [wpc EXCEPT ![w] = "open"] /\ dir' = dir
  BY DEF ScanSeq
<1>2. NextSeq = c + 1 /\ c \in Nat /\ c <= Cardinality(Writers) /\ Cardinality(Writers) \in Nat
  BY <1>1, NextSeqIs, AllocFinite
<1>3. /\ seqOf' \in [Writers -> 0 .. Cardinality(Writers) + 1]
      /\ seqOf'[w] = c + 1 /\ (\A v \in Writers \ {w} : seqOf'[v] = seqOf[v])
      /\ wpc'[w] = "open" /\ (\A v \in Writers \ {w} : wpc'[v] = wpc[v])
  BY <1>1, <1>2 DEF TypeOK
<1>4. \A v \in Writers : WriterPhase(v) /\ seqOf[v] \in Nat /\ seqOf[v] <= c
  BY <1>2 DEF TypeOK, WritersInv, SeqCount
<1>5. seqOf[w] = 0 /\ dir[w] = "none"
  BY <1>1, <1>4 DEF WriterPhase
<1>6. Alloc' = Alloc \cup {w} /\ w \notin Alloc
  BY <1>2, <1>3, <1>5 DEF Alloc
<1>7. Cardinality(Alloc') = c + 1
  BY <1>2, <1>6, AllocFinite, FS_AddElement
<1>8. \A v \in Writers : WriterPhase(v)'
  BY <1>1, <1>2, <1>3, <1>4, <1>5 DEF WriterPhase, Filed
<1>9. OneWriter' /\ OpenIsLast'
  BY <1>1, <1>2, <1>3, <1>4, <1>5 DEF OneWriter, OpenIsLast, Filed
<1>10. UniqueSeq'
  BY <1>2, <1>3, <1>4, <1>6 DEF WritersInv, UniqueSeq, Alloc
<1>11. SeqCount'
  <2>1. \A v \in Writers : seqOf'[v] <= c + 1
    BY <1>2, <1>3, <1>4
  <2>2. w \in Alloc' /\ seqOf'[w] = c + 1
    BY <1>3, <1>6
  <2>3. QED BY <1>7, <2>1, <2>2 DEF SeqCount
<1>12. QED BY <1>3, <1>8, <1>9, <1>10, <1>11 DEF WritersInv

\* a step of a writer that keeps the numbers: only its own file appears, in control/
LEMMA WriteInv ==
    ASSUME TypeOK, WritersInv, NEW w \in Writers, OpenExclusive(w) \/ WritePayload(w)
    PROVE  /\ WritersInv' /\ seqOf' = seqOf
           /\ \A v \in Writers : dir'[v] = dir[v] \/ (v = w /\ dir[w] = "none" /\ dir'[w] = "control" /\ wpc[w] = "open")
<1>1. \A v \in Writers : WriterPhase(v)
  BY DEF WritersInv
<1>2. CASE WritePayload(w)
  <2>1. /\ wpc[w] = "write" /\ wpc' = [wpc EXCEPT ![w] = "sent"] /\ seqOf' = seqOf /\ dir' = dir
    BY <1>2 DEF WritePayload
  <2>2. Alloc' = Alloc
    BY <2>1 DEF Alloc
  <2>3. \A v \in Writers : WriterPhase(v)'
    BY <1>1, <2>1 DEF TypeOK, WriterPhase, Filed
  <2>4. OneWriter' /\ OpenIsLast' /\ UniqueSeq' /\ SeqCount'
    BY <2>1, <2>2 DEF TypeOK, WritersInv, OneWriter, OpenIsLast, UniqueSeq, SeqCount, Filed
  <2>5. QED BY <2>1, <2>3, <2>4 DEF WritersInv
<1>3. CASE OpenExclusive(w)
  <2>1. wpc[w] = "open" /\ dir[w] = "none" /\ w \in Alloc
    BY <1>1, <1>3 DEF OpenExclusive, WriterPhase, Alloc
  <2>2. ASSUME NEW v \in Writers, v \in Pending(seqOf[w]) PROVE FALSE
    <3>1. dir[v] = "control" /\ seqOf[v] = seqOf[w]
      BY <2>2 DEF Pending
    <3>2. v \in Alloc
      BY <1>1, <2>1, <3>1 DEF Alloc
    <3>3. QED BY <2>1, <3>1, <3>2 DEF WritersInv, UniqueSeq
  <2>3. Pending(seqOf[w]) = {}
    BY <2>2 DEF Pending
  <2>4. seqOf' = seqOf /\ dir' = [dir EXCEPT ![w] = "control"] /\ wpc' = [wpc EXCEPT ![w] = "write"]
    BY <1>3, <2>3 DEF OpenExclusive
  <2>5. Alloc' = Alloc
    BY <2>4 DEF Alloc
  <2>6. /\ dir'[w] = "control" /\ (\A v \in Writers \ {w} : dir'[v] = dir[v])
        /\ wpc'[w] = "write" /\ (\A v \in Writers \ {w} : wpc'[v] = wpc[v])
    BY <2>4 DEF TypeOK
  <2>7. \A v \in Writers : WriterPhase(v)'
    BY <1>1, <2>1, <2>4, <2>6 DEF WriterPhase, Filed
  <2>8. OneWriter' /\ UniqueSeq' /\ SeqCount'
    BY <2>1, <2>4, <2>5, <2>6 DEF WritersInv, OneWriter, UniqueSeq, SeqCount
  <2>9. OpenIsLast'
    BY <2>1, <2>4, <2>6 DEF WritersInv, OneWriter, OpenIsLast, Filed
  <2>10. QED BY <2>1, <2>4, <2>6, <2>7, <2>8, <2>9 DEF WritersInv
<1>4. QED BY <1>2, <1>3

\* a step of an await or of the driver moves files into consumed/ at most
LEMMA WritersKept ==
    ASSUME WritersInv, UNCHANGED <<wpc, seqOf>>,
           \A w \in Writers : dir'[w] = dir[w] \/ (dir[w] = "control" /\ dir'[w] = "consumed")
    PROVE  WritersInv'
<1>1. Alloc' = Alloc
  BY DEF Alloc
<1>2. \A w \in Writers : Filed(w)' = Filed(w)
  BY DEF Filed
<1>3. \A w \in Writers : WriterPhase(w)'
  BY <1>2 DEF WritersInv, WriterPhase, Filed
<1>4. OneWriter' /\ UniqueSeq' /\ SeqCount' /\ OpenIsLast'
  BY <1>1, <1>2 DEF WritersInv, OneWriter, UniqueSeq, SeqCount, OpenIsLast
<1>5. QED BY <1>3, <1>4 DEF WritersInv

\* what an await is about to claim is a file, accepted by its clause, and for a
\* plain await no file that waits is before it
ClaimIsFile(a) == apc[a] = "claim" =>
    \E w \in Writers :
        /\ Filed(w) /\ got[a].from = {w} /\ got[a].seq = seqOf[w]
        /\ a \in Keyed => w \in Accepted
        /\ a \notin Keyed => \A v \in Writers : dir[v] = "control" => seqOf[w] <= seqOf[v]
\* what an await has claimed is gone from control/, and no other has it
GotConsumed(a) == apc[a] = "got" => \A w \in got[a].from : dir[w] = "consumed"
GotAlone == \A a, b \in Awaits : apc[a] = "got" /\ apc[b] = "got" /\ a # b => got[a].from \cap got[b].from = {}
GotFresh == \A a \in Awaits, i \in 1 .. Len(log) :
    apc[a] = "got" /\ log[i].type = "signal.received" => got[a].from \cap log[i].from = {}
\* an await that has journaled its signal is behind that, and keeps what it journaled
ReceivedPhase(a) == Logged("signal.received", a) # {} => apc[a] \in {"received", "completed", "down"}
ReceivedKept(a) == apc[a] = "received" => \E i \in Logged("signal.received", a) : log[i].from = got[a].from
AwaitInv(a) == ClaimIsFile(a) /\ GotConsumed(a) /\ ReceivedPhase(a) /\ ReceivedKept(a)
ReceivedConsumed ==
    \A i \in 1 .. Len(log) : log[i].type = "signal.received" => \A w \in log[i].from : dir[w] = "consumed"
SignalInv ==
    /\ TypeOK /\ WritersInv
    /\ \A a \in Awaits : AwaitInv(a)
    /\ GotAlone /\ GotFresh /\ ReceivedConsumed
    /\ DeliveredOnce /\ CompletesWhatItReceived

LEMMA SignalInitInv == Init => SignalInv
<1>1. SUFFICES ASSUME Init PROVE SignalInv
  OBVIOUS
<1>2. Cardinality(Writers) \in Nat
  BY AllocFinite
<1>3. TypeOK
  <2>1. NoneGot \in [seq : Nat, from : SUBSET Writers, full : BOOLEAN]
    BY DEF NoneGot
  <2>2. got \in [Awaits -> [seq : Nat, from : SUBSET Writers, full : BOOLEAN]] /\ log \in Seq(Record)
    BY <1>1, <2>1 DEF Init
  <2>3. seqOf \in [Writers -> 0 .. Cardinality(Writers) + 1] /\ faultsLeft \in 0 .. MaxFaults
    BY <1>1, <1>2, SignalAssumption DEF Init
  <2>4. /\ wpc \in [Writers -> {"idle", "open", "write", "sent"}]
        /\ dir \in [Writers -> {"none", "control", "consumed", "replaced"}]
        /\ apc \in [Awaits -> {"down", "poll", "claim", "got", "received", "completed", "failed"}]
    BY <1>1 DEF Init
  <2>5. full \in [Writers -> BOOLEAN] /\ up \in BOOLEAN
    BY <1>1 DEF Init
  <2>6. QED BY <2>2, <2>3, <2>4, <2>5 DEF TypeOK
<1>4. Alloc = {} /\ Cardinality(Alloc) = 0
  BY <1>1, FS_EmptySet DEF Init, Alloc
<1>5. WritersInv
  BY <1>1, <1>4 DEF Init, WritersInv, WriterPhase, OneWriter, UniqueSeq, SeqCount, OpenIsLast, Filed
<1>6. \A a \in Awaits : AwaitInv(a)
  BY <1>1 DEF Init, AwaitInv, ClaimIsFile, GotConsumed, ReceivedPhase, ReceivedKept
<1>7. GotAlone /\ GotFresh /\ ReceivedConsumed /\ DeliveredOnce /\ CompletesWhatItReceived
  BY <1>1 DEF Init, GotAlone, GotFresh, ReceivedConsumed, DeliveredOnce, CompletesWhatItReceived, Logged
<1>8. QED BY <1>3, <1>5, <1>6, <1>7 DEF SignalInv

\* the log of a step that journals nothing
LEMMA LogKept ==
    ASSUME SignalInv, log' = log
    PROVE  /\ \A t, a : Logged(t, a)' = Logged(t, a)
           /\ DeliveredOnce' /\ CompletesWhatItReceived'
BY DEF SignalInv, Logged, DeliveredOnce, CompletesWhatItReceived

LEMMA SignalWriterInv ==
    ASSUME SignalInv, ~Overlapping, NEW w \in Writers, WriterStep(w)
    PROVE  SignalInv'
<1>1. TypeOK /\ WritersInv /\ (\A v \in Writers : WriterPhase(v))
  BY DEF SignalInv, WritersInv
<1>2. WritersInv' /\ seqOf' \in [Writers -> 0 .. Cardinality(Writers) + 1]
  BY <1>1, ScanSeqInv, WriteInv DEF WriterStep, TypeOK
<1>3. UNCHANGED <<up, apc, got, log, faultsLeft>>
  BY DEF WriterStep, ScanSeq, OpenExclusive, WritePayload
<1>4. \A v \in Writers : /\ Filed(v) => seqOf'[v] = seqOf[v] /\ dir'[v] = dir[v]
                         /\ dir'[v] # dir[v] => v = w /\ dir'[v] = "control" /\ wpc[v] = "open" /\ seqOf' = seqOf
  <2>1. CASE ScanSeq(w)
    <3>1. dir' = dir /\ dir[w] = "none" /\ (\A v \in Writers \ {w} : seqOf'[v] = seqOf[v])
      BY <1>1, <2>1 DEF ScanSeq, WriterPhase, TypeOK
    <3>2. QED BY <3>1 DEF Filed
  <2>2. CASE OpenExclusive(w) \/ WritePayload(w)
    BY <1>1, <2>2, WriteInv DEF Filed
  <2>3. QED BY <2>1, <2>2 DEF WriterStep
<1>5. TypeOK'
  <2>1. wpc' \in [Writers -> {"idle", "open", "write", "sent"}] /\ full' \in [Writers -> BOOLEAN]
    BY <1>1 DEF TypeOK, WriterStep, ScanSeq, OpenExclusive, WritePayload
  <2>2. dir' \in [Writers -> {"none", "control", "consumed", "replaced"}]
    BY <1>1 DEF TypeOK, WriterStep, ScanSeq, OpenExclusive, WritePayload
  <2>3. QED BY <1>1, <1>2, <1>3, <2>1, <2>2 DEF TypeOK
<1>6. ASSUME NEW a \in Awaits PROVE ClaimIsFile(a)'
  <2>1. SUFFICES ASSUME apc[a] = "claim" PROVE ClaimIsFile(a)'
    BY <1>3 DEF ClaimIsFile
  <2>2. PICK x \in Writers :
           /\ Filed(x) /\ got[a].from = {x} /\ got[a].seq = seqOf[x]
           /\ a \in Keyed => x \in Accepted
           /\ a \notin Keyed => \A v \in Writers : dir[v] = "control" => seqOf[x] <= seqOf[v]
    BY <2>1 DEF SignalInv, AwaitInv, ClaimIsFile
  <2>3. Filed(x)' /\ seqOf'[x] = seqOf[x] /\ got' = got
    BY <1>3, <1>4, <2>2 DEF Filed
  <2>4. ASSUME NEW v \in Writers, a \notin Keyed, dir'[v] = "control" PROVE seqOf'[x] <= seqOf'[v]
    <3>1. seqOf[x] \in Nat /\ seqOf[v] \in Nat
      BY <1>1, AllocFinite DEF TypeOK
    <3>2. CASE dir[v] = "control"
      BY <1>4, <2>2, <2>3, <2>4, <3>2 DEF Filed
    <3>3. CASE dir[v] # "control"
      <4>1. wpc[v] = "open" /\ seqOf' = seqOf
        BY <1>4, <2>4, <3>3
      <4>2. seqOf[x] < seqOf[v]
        BY <1>1, <2>2, <4>1 DEF WritersInv, OpenIsLast
      <4>3. QED BY <3>1, <4>1, <4>2
    <3>4. QED BY <3>2, <3>3
  <2>5. QED BY <2>2, <2>3, <2>4 DEF ClaimIsFile
<1>7. ASSUME NEW a \in Awaits
      PROVE  GotConsumed(a)' /\ ReceivedPhase(a)' /\ ReceivedKept(a)'
  <2>1. AwaitInv(a) /\ got[a].from \subseteq Writers
    BY <1>1 DEF SignalInv, TypeOK
  <2>2. GotConsumed(a)'
    BY <1>3, <1>4, <2>1 DEF AwaitInv, GotConsumed, Filed
  <2>3. QED BY <1>3, <2>1, <2>2, LogKept DEF AwaitInv, ReceivedPhase, ReceivedKept
<1>8. ReceivedConsumed' /\ GotAlone' /\ GotFresh'
  <2>1. ASSUME NEW i \in 1 .. Len(log) PROVE log[i].from \subseteq Writers
    <3>1. log[i] \in Record
      BY <1>1 DEF TypeOK
    <3>2. QED BY <3>1 DEF Record
  <2>2. ReceivedConsumed'
    BY <1>3, <1>4, <2>1 DEF SignalInv, ReceivedConsumed, Filed
  <2>3. QED BY <1>3, <2>2 DEF SignalInv, GotAlone, GotFresh
<1>9. QED BY <1>2, <1>3, <1>5, <1>6, <1>7, <1>8, LogKept DEF SignalInv, AwaitInv
\* an await that a step leaves alone
LEMMA OtherAwait ==
    ASSUME SignalInv, NEW b \in Awaits, seqOf' = seqOf,
           \A w \in Writers : dir'[w] = dir[w] \/ (dir[w] = "control" /\ dir'[w] = "consumed"),
           apc'[b] = apc[b], got'[b] = got[b],
           Logged("signal.received", b)' = Logged("signal.received", b),
           \A i \in Logged("signal.received", b) : log'[i] = log[i]
    PROVE  AwaitInv(b)'
<1>1. AwaitInv(b) /\ got[b].from \subseteq Writers
  BY DEF SignalInv, TypeOK
<1>2. ClaimIsFile(b)'
  BY <1>1 DEF AwaitInv, ClaimIsFile, Filed
<1>3. GotConsumed(b)' /\ ReceivedPhase(b)' /\ ReceivedKept(b)'
  BY <1>1 DEF AwaitInv, GotConsumed, ReceivedPhase, ReceivedKept
<1>4. QED BY <1>2, <1>3 DEF AwaitInv

\* what a record adds to the log
LEMMA JournalEffect ==
    ASSUME TypeOK, NEW a \in Awaits, NEW type \in {"signal.received", "node.completed", "node.failed"}, Journal(type, a)
    PROVE  /\ log' \in Seq(Record) /\ Len(log') = Len(log) + 1 /\ Len(log) \in Nat
           /\ \A i \in 1 .. Len(log) : log'[i] = log[i] /\ i \in 1 .. Len(log')
           /\ \A i \in 1 .. Len(log') : i \in 1 .. Len(log) \/ i = Len(log')
           /\ log'[Len(log')].type = type /\ log'[Len(log')].await = a /\ log'[Len(log')].from = got[a].from
           /\ \A t, b : Logged(t, b)' = Logged(t, b) \cup (IF t = type /\ b = a THEN {Len(log')} ELSE {})
<1> DEFINE rec == [type |-> type, await |-> a, seq |-> got[a].seq, from |-> got[a].from, full |-> got[a].full]
<1>1. got[a] \in [seq : Nat, from : SUBSET Writers, full : BOOLEAN]
  BY DEF TypeOK
<1>2. rec \in Record /\ rec.type = type /\ rec.await = a /\ rec.from = got[a].from
  BY <1>1 DEF Record
<1> HIDE DEF rec
<1>3. log' = Append(log, rec) /\ log \in Seq(Record)
  BY DEF Journal, TypeOK, rec
<1>4. /\ log' \in Seq(Record) /\ Len(log') = Len(log) + 1 /\ Len(log) \in Nat
      /\ (\A i \in 1 .. Len(log) : log'[i] = log[i]) /\ log'[Len(log')] = rec
  BY <1>2, <1>3
<1>5. /\ \A i \in 1 .. Len(log) : i \in 1 .. Len(log')
      /\ \A i \in 1 .. Len(log') : i \in 1 .. Len(log) \/ i = Len(log')
      /\ Len(log') \in 1 .. Len(log')
  BY <1>4
<1>6. ASSUME NEW t, NEW b PROVE Logged(t, b)' = Logged(t, b) \cup (IF t = type /\ b = a THEN {Len(log')} ELSE {})
  BY <1>2, <1>4, <1>5 DEF Logged
<1>7. QED BY <1>2, <1>4, <1>5, <1>6
LEMMA ScanAndReadInv ==
    ASSUME SignalInv, NEW a \in Awaits, ScanAndRead(a)
    PROVE  SignalInv'
<1>1. PICK w \in Candidates(a) :
         /\ \A v \in Candidates(a) : seqOf[w] <= seqOf[v]
         /\ got' = [got EXCEPT ![a] = [seq |-> seqOf[w], from |-> {w}, full |-> full[w]]]
  BY DEF ScanAndRead
<1>2. /\ apc[a] = "poll" /\ apc' = [apc EXCEPT ![a] = "claim"]
      /\ UNCHANGED <<wpc, seqOf, dir, full, up, log, faultsLeft>>
  BY DEF ScanAndRead, Step, writers
<1>3. TypeOK /\ w \in Writers /\ dir[w] = "control" /\ seqOf[w] \in Nat
  BY <1>1, AllocFinite DEF SignalInv, TypeOK, Candidates
<1>4. /\ apc'[a] = "claim" /\ got'[a].seq = seqOf[w] /\ got'[a].from = {w}
      /\ (\A b \in Awaits \ {a} : apc'[b] = apc[b] /\ got'[b] = got[b])
      /\ apc' \in [Awaits -> {"down", "poll", "claim", "got", "received", "completed", "failed"}]
  BY <1>1, <1>2, <1>3 DEF TypeOK
<1>5. TypeOK'
  <2>1. got' \in [Awaits -> [seq : Nat, from : SUBSET Writers, full : BOOLEAN]]
    BY <1>1, <1>3 DEF TypeOK
  <2>2. QED BY <1>2, <1>3, <1>4, <2>1 DEF TypeOK
<1>6. WritersInv'
  BY <1>2, WritersKept DEF SignalInv
<1>7. AwaitInv(a)'
  <2>1. ClaimIsFile(a)'
    <3>1. a \in Keyed => w \in Accepted
      BY <1>1 DEF Candidates
    <3>2. a \notin Keyed => \A v \in Writers : dir[v] = "control" => seqOf[w] <= seqOf[v]
      BY <1>1 DEF Candidates
    <3>3. QED BY <1>2, <1>3, <1>4, <3>1, <3>2 DEF ClaimIsFile, Filed
  <2>2. GotConsumed(a)' /\ ReceivedKept(a)'
    BY <1>4 DEF GotConsumed, ReceivedKept
  <2>3. Logged("signal.received", a) = {}
    BY <1>2 DEF SignalInv, AwaitInv, ReceivedPhase
  <2>4. QED BY <1>2, <2>1, <2>2, <2>3, LogKept DEF AwaitInv, ReceivedPhase
<1>8. ASSUME NEW b \in Awaits, b # a PROVE AwaitInv(b)'
  BY <1>2, <1>4, <1>8, OtherAwait, LogKept
<1>9. GotAlone' /\ GotFresh' /\ ReceivedConsumed'
  BY <1>2, <1>4 DEF SignalInv, GotAlone, GotFresh, ReceivedConsumed
<1>10. QED BY <1>2, <1>5, <1>6, <1>7, <1>8, <1>9, LogKept DEF SignalInv

\* the rename moves the file that was read, and no other
LEMMA ClaimMoves ==
    ASSUME SignalInv, NEW a \in Awaits, apc[a] = "claim", Pending(got[a].seq) # {}
    PROVE  \E w \in Writers :
              /\ Pending(got[a].seq) = {w} /\ got[a].from = {w} /\ got[a].seq = seqOf[w] /\ dir[w] = "control"
              /\ \A v \in Writers : seqOf[v] = seqOf[w] => v = w
              /\ a \in Keyed => w \in Accepted
              /\ a \notin Keyed => \A v \in Writers : dir[v] = "control" => seqOf[w] <= seqOf[v]
<1>1. PICK w \in Writers :
         /\ Filed(w) /\ got[a].from = {w} /\ got[a].seq = seqOf[w]
         /\ a \in Keyed => w \in Accepted
         /\ a \notin Keyed => \A v \in Writers : dir[v] = "control" => seqOf[w] <= seqOf[v]
  BY DEF SignalInv, AwaitInv, ClaimIsFile
<1>2. wpc \in [Writers -> {"idle", "open", "write", "sent"}] /\ (\A v \in Writers : WriterPhase(v)) /\ UniqueSeq
  BY DEF SignalInv, WritersInv, TypeOK
<1>3. seqOf[w] # 0
  BY <1>1, <1>2 DEF WriterPhase, Filed
<1>4. \A v \in Writers : seqOf[v] = seqOf[w] => v = w
  BY <1>2, <1>3 DEF UniqueSeq, Alloc
<1>5. Pending(got[a].seq) = {w} /\ dir[w] = "control"
  BY <1>1, <1>4 DEF Pending
<1>6. QED BY <1>1, <1>4, <1>5

LEMMA ClaimInv ==
    ASSUME SignalInv, NEW a \in Awaits, Claim(a)
    PROVE  SignalInv'
<1>1. apc[a] = "claim" /\ UNCHANGED <<wpc, seqOf, full, up, log, faultsLeft>> /\ TypeOK
  BY DEF Claim, SignalInv, writers
<1>2. Logged("signal.received", a) = {}
  BY <1>1 DEF SignalInv, AwaitInv, ReceivedPhase
<1>3. CASE Pending(got[a].seq) # {}
  <2>1. PICK w \in Writers :
           /\ Pending(got[a].seq) = {w} /\ got[a].from = {w} /\ got[a].seq = seqOf[w] /\ dir[w] = "control"
           /\ \A v \in Writers : seqOf[v] = seqOf[w] => v = w
    BY <1>1, <1>3, ClaimMoves
  <2>2. /\ got' = got /\ apc' = [apc EXCEPT ![a] = "got"]
        /\ dir' = [v \in Writers |-> IF v \in Pending(got[a].seq) THEN "consumed"
                                     ELSE IF dir[v] = "consumed" /\ seqOf[v] = got[a].seq THEN "replaced"
                                     ELSE dir[v]]
    BY <1>3 DEF Claim, Step
  <2>3. dir'[w] = "consumed" /\ (\A v \in Writers \ {w} : dir'[v] = dir[v])
    BY <2>1, <2>2
  <2>4. /\ apc'[a] = "got" /\ (\A b \in Awaits \ {a} : apc'[b] = apc[b])
        /\ apc' \in [Awaits -> {"down", "poll", "claim", "got", "received", "completed", "failed"}]
        /\ dir' \in [Writers -> {"none", "control", "consumed", "replaced"}]
    BY <1>1, <2>2 DEF TypeOK
  <2>5. TypeOK'
    BY <1>1, <2>2, <2>4 DEF TypeOK
  <2>6. WritersInv'
    BY <1>1, <2>1, <2>3, WritersKept DEF SignalInv
  <2>7. AwaitInv(a)'
    BY <1>1, <1>2, <2>1, <2>2, <2>3, <2>4, LogKept
       DEF AwaitInv, ClaimIsFile, GotConsumed, ReceivedPhase, ReceivedKept
  <2>8. ASSUME NEW b \in Awaits, b # a PROVE AwaitInv(b)'
    BY <1>1, <2>1, <2>2, <2>3, <2>4, <2>8, OtherAwait, LogKept
  <2>9. GotAlone'
    <3>1. ASSUME NEW b \in Awaits, b # a, apc[b] = "got" PROVE w \notin got[b].from
      BY <2>1, <3>1 DEF SignalInv, AwaitInv, GotConsumed
    <3>2. QED BY <2>1, <2>2, <2>4, <3>1 DEF SignalInv, GotAlone
  <2>10. GotFresh'
    <3>1. ASSUME NEW i \in 1 .. Len(log), log[i].type = "signal.received" PROVE w \notin log[i].from
      BY <2>1, <3>1 DEF SignalInv, ReceivedConsumed
    <3>2. QED BY <1>1, <2>1, <2>2, <2>4, <3>1 DEF SignalInv, GotFresh
  <2>11. ReceivedConsumed'
    <3>1. ASSUME NEW i \in 1 .. Len(log) PROVE log[i].from \subseteq Writers
      <4>1. log[i] \in Record
        BY <1>1 DEF TypeOK
      <4>2. QED BY <4>1 DEF Record
    <3>2. QED BY <1>1, <2>3, <3>1 DEF SignalInv, ReceivedConsumed
  <2>12. QED BY <1>1, <2>5, <2>6, <2>7, <2>8, <2>9, <2>10, <2>11, LogKept DEF SignalInv
<1>4. CASE Pending(got[a].seq) = {}
  <2>1. got' = [got EXCEPT ![a] = NoneGot] /\ apc' = [apc EXCEPT ![a] = "poll"] /\ dir' = dir
    BY <1>4 DEF Claim, Step
  <2>2. /\ apc'[a] = "poll" /\ (\A b \in Awaits \ {a} : apc'[b] = apc[b] /\ got'[b] = got[b])
        /\ apc' \in [Awaits -> {"down", "poll", "claim", "got", "received", "completed", "failed"}]
    BY <1>1, <2>1 DEF TypeOK
  <2>3. TypeOK'
    <3>1. NoneGot \in [seq : Nat, from : SUBSET Writers, full : BOOLEAN]
      BY DEF NoneGot
    <3>2. got' \in [Awaits -> [seq : Nat, from : SUBSET Writers, full : BOOLEAN]]
      BY <1>1, <2>1, <3>1 DEF TypeOK
    <3>3. QED BY <1>1, <2>1, <2>2, <3>2 DEF TypeOK
  <2>4. WritersInv'
    BY <1>1, <2>1, WritersKept DEF SignalInv
  <2>5. AwaitInv(a)'
    BY <1>1, <1>2, <2>2, LogKept DEF AwaitInv, ClaimIsFile, GotConsumed, ReceivedPhase, ReceivedKept
  <2>6. ASSUME NEW b \in Awaits, b # a PROVE AwaitInv(b)'
    BY <1>1, <2>1, <2>2, <2>6, OtherAwait, LogKept
  <2>7. GotAlone' /\ GotFresh' /\ ReceivedConsumed'
    BY <1>1, <2>1, <2>2 DEF SignalInv, GotAlone, GotFresh, ReceivedConsumed
  <2>8. QED BY <1>1, <2>3, <2>4, <2>5, <2>6, <2>7, LogKept DEF SignalInv
<1>5. QED BY <1>3, <1>4

\* an await journals a record of some type and moves on; it had received
\* nothing before, or does not receive now
LEMMA JournalInv ==
    ASSUME SignalInv, NEW a \in Awaits, NEW type, NEW to, Journal(type, a), Step(a, to),
           UNCHANGED <<wpc, seqOf, dir, full, up, got>>, faultsLeft' \in 0 .. MaxFaults,
           \/ type = "signal.received" /\ to = "received" /\ apc[a] = "got"
           \/ type = "node.completed" /\ to = "completed" /\ apc[a] = "received"
           \/ type = "node.failed" /\ to = "failed" /\ apc[a] \in {"poll", "got"}
    PROVE  SignalInv'
<1>1. TypeOK /\ apc' = [apc EXCEPT ![a] = to] /\ type \in {"signal.received", "node.completed", "node.failed"}
  BY DEF SignalInv, Step
<1>2. /\ log' \in Seq(Record) /\ Len(log') = Len(log) + 1 /\ Len(log) \in Nat
      /\ \A i \in 1 .. Len(log) : log'[i] = log[i] /\ i \in 1 .. Len(log')
      /\ \A i \in 1 .. Len(log') : i \in 1 .. Len(log) \/ i = Len(log')
      /\ log'[Len(log')].type = type /\ log'[Len(log')].await = a /\ log'[Len(log')].from = got[a].from
      /\ \A t, b : Logged(t, b)' = Logged(t, b) \cup (IF t = type /\ b = a THEN {Len(log')} ELSE {})
  BY <1>1, JournalEffect
<1>3. /\ apc'[a] = to /\ (\A b \in Awaits \ {a} : apc'[b] = apc[b])
      /\ apc' \in [Awaits -> {"down", "poll", "claim", "got", "received", "completed", "failed"}]
  BY <1>1 DEF TypeOK
<1>4. TypeOK'
  BY <1>1, <1>2, <1>3 DEF TypeOK
<1>5. WritersInv'
  BY WritersKept DEF SignalInv
<1>6. apc[a] # "received" => Logged("signal.received", a) = {}
  BY DEF SignalInv, AwaitInv, ReceivedPhase
<1>7. AwaitInv(a)'
  <2>1. ClaimIsFile(a)' /\ GotConsumed(a)'
    BY <1>3 DEF ClaimIsFile, GotConsumed
  <2>2. ReceivedPhase(a)'
    BY <1>2, <1>3, <1>6 DEF ReceivedPhase
  <2>3. ReceivedKept(a)'
    BY <1>2, <1>3 DEF ReceivedKept
  <2>4. QED BY <2>1, <2>2, <2>3 DEF AwaitInv
<1>8. ASSUME NEW b \in Awaits, b # a PROVE AwaitInv(b)'
  <2>1. Logged("signal.received", b)' = Logged("signal.received", b)
    BY <1>2, <1>8
  <2>2. \A i \in Logged("signal.received", b) : log'[i] = log[i]
    BY <1>2 DEF Logged
  <2>3. QED BY <1>3, <1>8, <2>1, <2>2, OtherAwait
<1>9. \A b \in Awaits \ {a} : apc[a] = "got" /\ apc'[b] = "got" => got[a].from \cap got[b].from = {}
  BY <1>3 DEF SignalInv, GotAlone
<1>10. GotAlone' /\ GotFresh'
  <2>1. GotAlone'
    BY <1>3 DEF SignalInv, GotAlone
  <2>2. ASSUME NEW b \in Awaits, NEW i \in 1 .. Len(log'), apc'[b] = "got", log'[i].type = "signal.received"
        PROVE  got[b].from \cap log'[i].from = {}
    <3>1. b # a /\ apc[b] = "got"
      BY <1>3, <2>2
    <3>2. CASE i \in 1 .. Len(log)
      BY <1>2, <2>2, <3>1, <3>2 DEF SignalInv, GotFresh
    <3>3. CASE i = Len(log')
      BY <1>2, <1>9, <2>2, <3>1, <3>3
    <3>4. QED BY <1>2, <3>2, <3>3
  <2>3. QED BY <2>1, <2>2 DEF GotFresh
<1>11. ReceivedConsumed'
  <2>1. ASSUME NEW i \in 1 .. Len(log'), log'[i].type = "signal.received", NEW w \in log'[i].from
        PROVE  dir[w] = "consumed"
    <3>1. CASE i \in 1 .. Len(log)
      BY <1>2, <2>1, <3>1 DEF SignalInv, ReceivedConsumed
    <3>2. CASE i = Len(log')
      BY <1>2, <2>1, <3>2 DEF SignalInv, AwaitInv, GotConsumed
    <3>3. QED BY <1>2, <3>1, <3>2
  <2>2. QED BY <2>1 DEF ReceivedConsumed
<1>12. DeliveredOnce'
  <2>1. ASSUME NEW i \in 1 .. Len(log), log[i].type = "signal.received", type = "signal.received"
        PROVE  got[a].from \cap log[i].from = {}
    BY <2>1 DEF SignalInv, GotFresh
  <2>2. ASSUME NEW i \in 1 .. Len(log'), NEW j \in 1 .. Len(log'),
               log'[i].type = "signal.received", log'[j].type = "signal.received",
               log'[i].from \cap log'[j].from # {}
        PROVE  i = j
    <3>1. CASE i \in 1 .. Len(log) /\ j \in 1 .. Len(log)
      BY <1>2, <2>2, <3>1 DEF SignalInv, DeliveredOnce
    <3>2. CASE i \in 1 .. Len(log) /\ j = Len(log')
      BY <1>2, <2>1, <2>2, <3>2
    <3>3. CASE i = Len(log') /\ j \in 1 .. Len(log)
      BY <1>2, <2>1, <2>2, <3>3
    <3>4. QED BY <1>2, <3>1, <3>2, <3>3
  <2>3. QED BY <2>2 DEF DeliveredOnce
<1>13. CompletesWhatItReceived'
  <2>1. ASSUME NEW b \in Awaits, NEW i \in Logged("signal.received", b)', NEW j \in Logged("signal.received", b)'
        PROVE  i = j
    BY <1>2, <1>6, <2>1 DEF SignalInv, CompletesWhatItReceived
  <2>2. ASSUME NEW b \in Awaits, NEW i \in Logged("node.completed", b)'
        PROVE  \E j \in Logged("signal.received", b)' : j < i /\ log'[j].from = log'[i].from
    <3>1. CASE i \in Logged("node.completed", b)
      <4>1. PICK j \in Logged("signal.received", b) : j < i /\ log[j].from = log[i].from
        BY <3>1 DEF SignalInv, CompletesWhatItReceived
      <4>2. i \in 1 .. Len(log) /\ j \in 1 .. Len(log)
        BY <3>1, <4>1 DEF Logged
      <4>3. QED BY <1>2, <4>1, <4>2
    <3>2. CASE i = Len(log') /\ b = a /\ type = "node.completed"
      <4>1. PICK j \in Logged("signal.received", a) : log[j].from = got[a].from
        BY <3>2 DEF SignalInv, AwaitInv, ReceivedKept
      <4>2. j \in 1 .. Len(log)
        BY <4>1 DEF Logged
      <4>3. QED BY <1>2, <3>2, <4>1, <4>2
    <3>3. QED BY <1>2, <3>1, <3>2
  <2>3. QED BY <2>1, <2>2 DEF CompletesWhatItReceived
<1>14. QED BY <1>4, <1>5, <1>7, <1>8, <1>10, <1>11, <1>12, <1>13 DEF SignalInv
\* the awaits are set back to where they rest, as the log has them
LEMMA AwaitsReset ==
    ASSUME SignalInv, UNCHANGED <<wpc, seqOf, dir, full, log>>, TypeOK',
           \A a \in Awaits : apc'[a] \notin {"claim", "got"},
           \A a \in Awaits : ReceivedPhase(a)' /\ ReceivedKept(a)'
    PROVE  SignalInv'
<1>1. WritersInv'
  BY WritersKept DEF SignalInv
<1>2. \A a \in Awaits : AwaitInv(a)'
  BY DEF AwaitInv, ClaimIsFile, GotConsumed
<1>3. GotAlone' /\ GotFresh' /\ ReceivedConsumed'
  BY DEF SignalInv, GotAlone, GotFresh, ReceivedConsumed
<1>4. QED BY <1>1, <1>2, <1>3, LogKept DEF SignalInv

LEMMA DownInv ==
    ASSUME SignalInv, Exit \/ Crash
    PROVE  SignalInv'
<1>1. /\ up' = FALSE /\ apc' = [a \in Awaits |-> "down"] /\ got' = [a \in Awaits |-> NoneGot]
      /\ UNCHANGED <<wpc, seqOf, dir, full, log>> /\ TypeOK
  BY DEF Exit, Crash, Down, writers, SignalInv
<1>2. faultsLeft' \in 0 .. MaxFaults
  BY <1>1, SignalAssumption DEF Exit, Crash, TypeOK
<1>3. TypeOK'
  <2>1. NoneGot \in [seq : Nat, from : SUBSET Writers, full : BOOLEAN]
    BY DEF NoneGot
  <2>2. got' \in [Awaits -> [seq : Nat, from : SUBSET Writers, full : BOOLEAN]]
    BY <1>1, <2>1
  <2>3. QED BY <1>1, <1>2, <2>2 DEF TypeOK
<1>4. \A a \in Awaits : apc'[a] = "down"
  BY <1>1
<1>5. QED BY <1>1, <1>3, <1>4, AwaitsReset DEF ReceivedPhase, ReceivedKept

LEMMA ResumeInv ==
    ASSUME SignalInv, Resume
    PROVE  SignalInv'
<1>1. /\ up' = TRUE /\ UNCHANGED <<wpc, seqOf, dir, full, log, faultsLeft>> /\ TypeOK
      /\ apc' = [a \in Awaits |-> IF Logged("node.completed", a) # {} THEN "completed"
                                  ELSE IF Logged("signal.received", a) # {} THEN "received"
                                  ELSE "poll"]
      /\ got' = [a \in Awaits |-> IF Logged("signal.received", a) # {} THEN ReceivedAt(a) ELSE NoneGot]
  BY DEF Resume, writers, SignalInv
<1>2. ASSUME NEW a \in Awaits, Logged("signal.received", a) # {}
      PROVE  /\ ReceivedAt(a) \in [seq : Nat, from : SUBSET Writers, full : BOOLEAN]
             /\ \E i \in Logged("signal.received", a) : log[i].from = ReceivedAt(a).from
  <2>1. PICK i \in Logged("signal.received", a) :
           ReceivedAt(a) = [seq |-> log[i].seq, from |-> log[i].from, full |-> log[i].full]
    BY <1>2 DEF ReceivedAt
  <2>2. log[i] \in Record
    BY <1>1 DEF Logged, TypeOK
  <2>3. QED BY <2>1, <2>2 DEF Record
<1>3. TypeOK'
  <2>1. NoneGot \in [seq : Nat, from : SUBSET Writers, full : BOOLEAN]
    BY DEF NoneGot
  <2>2. got' \in [Awaits -> [seq : Nat, from : SUBSET Writers, full : BOOLEAN]]
    BY <1>1, <1>2, <2>1
  <2>3. apc' \in [Awaits -> {"down", "poll", "claim", "got", "received", "completed", "failed"}]
    BY <1>1
  <2>4. QED BY <1>1, <2>2, <2>3 DEF TypeOK
<1>4. ASSUME NEW a \in Awaits PROVE apc'[a] \notin {"claim", "got"} /\ ReceivedPhase(a)' /\ ReceivedKept(a)'
  <2>1. Logged("signal.received", a)' = Logged("signal.received", a)
    BY <1>1, LogKept
  <2>2. ReceivedPhase(a)'
    BY <1>1, <2>1 DEF ReceivedPhase
  <2>3. ReceivedKept(a)'
    BY <1>1, <1>2, <2>1 DEF ReceivedKept
  <2>4. QED BY <1>1, <2>2, <2>3
<1>5. QED BY <1>1, <1>3, <1>4, AwaitsReset

LEMMA StoppedInv ==
    ASSUME SignalInv, NEW a \in Awaits, StoppedByRequest(a)
    PROVE  SignalInv'
<1>1. /\ apc[a] = "poll" /\ apc' = [apc EXCEPT ![a] = "failed"]
      /\ UNCHANGED <<wpc, seqOf, dir, full, up, got, log>> /\ TypeOK
  BY DEF StoppedByRequest, Step, writers, SignalInv
<1>2. faultsLeft' \in 0 .. MaxFaults
  BY <1>1, SignalAssumption DEF StoppedByRequest, TypeOK
<1>3. /\ apc'[a] = "failed" /\ (\A b \in Awaits \ {a} : apc'[b] = apc[b])
      /\ apc' \in [Awaits -> {"down", "poll", "claim", "got", "received", "completed", "failed"}]
  BY <1>1 DEF TypeOK
<1>4. TypeOK'
  BY <1>1, <1>2, <1>3 DEF TypeOK
<1>5. WritersInv'
  BY <1>1, WritersKept DEF SignalInv
<1>6. AwaitInv(a)'
  <2>1. Logged("signal.received", a) = {}
    BY <1>1 DEF SignalInv, AwaitInv, ReceivedPhase
  <2>2. QED BY <1>1, <1>3, <2>1, LogKept DEF AwaitInv, ClaimIsFile, GotConsumed, ReceivedPhase, ReceivedKept
<1>7. ASSUME NEW b \in Awaits, b # a PROVE AwaitInv(b)'
  BY <1>1, <1>3, <1>7, OtherAwait, LogKept
<1>8. GotAlone' /\ GotFresh' /\ ReceivedConsumed'
  BY <1>1, <1>3 DEF SignalInv, GotAlone, GotFresh, ReceivedConsumed
<1>9. QED BY <1>1, <1>4, <1>5, <1>6, <1>7, <1>8, LogKept DEF SignalInv

LEMMA SignalNextInv ==
    ASSUME SignalInv, ~Overlapping, [Next]_vars
    PROVE  SignalInv'
<1>1. CASE UNCHANGED vars
  <2>1. UNCHANGED <<wpc, seqOf, dir, full, up, apc, got, log, faultsLeft>>
    BY <1>1 DEF vars
  <2>2. TypeOK' /\ WritersInv'
    BY <2>1, WritersKept DEF SignalInv, TypeOK
  <2>3. \A a \in Awaits : AwaitInv(a)'
    BY <2>1, OtherAwait, LogKept
  <2>4. GotAlone' /\ GotFresh' /\ ReceivedConsumed'
    BY <2>1 DEF SignalInv, GotAlone, GotFresh, ReceivedConsumed
  <2>5. QED BY <2>1, <2>2, <2>3, <2>4, LogKept DEF SignalInv
<1>2. ASSUME NEW a \in Awaits, AwaitStep(a) \/ Timeout(a) \/ StoppedByRequest(a) PROVE SignalInv'
  <2>1. CASE AppendReceived(a)
    <3>1. faultsLeft' \in 0 .. MaxFaults
      BY <2>1 DEF AppendReceived, SignalInv, TypeOK
    <3>2. QED BY <2>1, <3>1, JournalInv DEF AppendReceived, writers
  <2>2. CASE AppendCompleted(a)
    <3>1. faultsLeft' \in 0 .. MaxFaults
      BY <2>2 DEF AppendCompleted, SignalInv, TypeOK
    <3>2. QED BY <2>2, <3>1, JournalInv DEF AppendCompleted, writers
  <2>3. CASE RejectPayload(a) \/ SiblingFailed(a) \/ Timeout(a)
    <3>1. faultsLeft' \in 0 .. MaxFaults
      BY <2>3, SignalAssumption DEF RejectPayload, SiblingFailed, Timeout, SignalInv, TypeOK
    <3>2. /\ Journal("node.failed", a) /\ Step(a, "failed") /\ apc[a] \in {"poll", "got"}
          /\ UNCHANGED <<wpc, seqOf, dir, full, up, got>>
      BY <2>3 DEF RejectPayload, SiblingFailed, Timeout, writers
    <3>3. QED BY <3>1, <3>2, JournalInv
  <2>4. QED BY <1>2, <2>1, <2>2, <2>3, ScanAndReadInv, ClaimInv, StoppedInv DEF AwaitStep
<1>3. CASE Next
  BY <1>2, <1>3, SignalWriterInv, DownInv, ResumeInv DEF Next
<1>4. QED BY <1>1, <1>3

\* As long as the awf signal processes of a run do not overlap, and whatever
\* number of them, of awaits, crashes and resumes: a signal is delivered to one
\* await at most, and an await completes with the signal that its run recorded.
THEOREM DeliveredExactlyOnceHolds ==
    ASSUME ~Overlapping
    PROVE  Spec => []DeliveredExactlyOnce
<1>1. SignalInv /\ [Next]_vars => SignalInv'
  BY SignalNextInv
<1>2. SignalInv => DeliveredExactlyOnce
  BY DEF SignalInv, DeliveredExactlyOnce
<1>3. QED BY <1>1, <1>2, SignalInitInv, PTL DEF Spec

\* the step that claims is the claim of that await
LEMMA ClaimsByClaim ==
    ASSUME TypeOK, [Next]_vars, NEW a \in Awaits, apc[a] = "claim", apc'[a] = "got"
    PROVE  Claim(a) /\ Pending(got[a].seq) # {}
<1>1. apc' # apc /\ (\A b \in Awaits : apc'[b] = apc[b] => b # a)
  OBVIOUS
<1>2. ASSUME NEW w \in Writers, WriterStep(w) PROVE FALSE
  BY <1>1, <1>2 DEF WriterStep, ScanSeq, OpenExclusive, WritePayload
<1>3. ~(Exit \/ Crash \/ Resume)
  <2>1. ~(Exit \/ Crash)
    BY DEF Exit, Crash, Down
  <2>2. ~Resume
    BY DEF Resume
  <2>3. QED BY <2>1, <2>2
<1>4. ASSUME NEW b \in Awaits, AwaitStep(b) \/ Timeout(b) \/ StoppedByRequest(b) PROVE b = a /\ Claim(a)
  <2>1. b = a
    BY <1>4 DEF TypeOK, AwaitStep, ScanAndRead, Claim, AppendReceived, RejectPayload, AppendCompleted, SiblingFailed,
       Timeout, StoppedByRequest, Step
  <2>2. QED BY <1>4, <2>1 DEF AwaitStep, ScanAndRead, AppendReceived, RejectPayload, AppendCompleted, SiblingFailed,
       Timeout, StoppedByRequest
<1>5. Claim(a)
  BY <1>1, <1>2, <1>3, <1>4 DEF Next, vars
<1>6. QED BY <1>5 DEF Claim, Step, TypeOK

\* Under the same condition an await takes the earliest of the signals it may
\* take, and a keyed one never moves a signal its clause does not accept.
THEOREM RightSignalHolds ==
    ASSUME ~Overlapping
    PROVE  Spec => RightSignal
<1>1. SignalInv /\ [Next]_vars => SignalInv'
  BY SignalNextInv
<1>2. Spec => []SignalInv
  BY <1>1, SignalInitInv, PTL DEF Spec
<1>3. ASSUME SignalInv, [Next]_vars, NEW a \in Awaits, apc[a] = "claim", apc'[a] = "got"
      PROVE  /\ a \notin Keyed => \A w \in Writers : dir[w] = "control" => seqOf[w] >= got[a].seq
             /\ a \in Keyed => \A w \in Writers : dir[w] # dir'[w] => w \in Accepted
  <2>1. TypeOK /\ Claim(a) /\ Pending(got[a].seq) # {}
    BY <1>3, ClaimsByClaim DEF SignalInv
  <2>2. PICK w \in Writers :
           /\ Pending(got[a].seq) = {w} /\ got[a].from = {w} /\ got[a].seq = seqOf[w] /\ dir[w] = "control"
           /\ \A v \in Writers : seqOf[v] = seqOf[w] => v = w
           /\ a \in Keyed => w \in Accepted
           /\ a \notin Keyed => \A v \in Writers : dir[v] = "control" => seqOf[w] <= seqOf[v]
    BY <1>3, <2>1, ClaimMoves
  <2>3. \A v \in Writers : seqOf[v] \in Nat
    BY <2>1, AllocFinite DEF TypeOK
  <2>4. \A v \in Writers : dir[v] # dir'[v] => v = w
    BY <2>1, <2>2 DEF Claim
  <2>5. QED BY <2>2, <2>3, <2>4
<1>4. SignalInv /\ [Next]_vars =>
        [\A a \in Awaits \ Keyed : apc[a] = "claim" /\ apc'[a] = "got" =>
            \A w \in Writers : dir[w] = "control" => seqOf[w] >= got[a].seq]_vars
  BY <1>3
<1>5. SignalInv /\ [Next]_vars =>
        [\A a \in Keyed : apc[a] = "claim" /\ apc'[a] = "got" =>
            \A w \in Writers : dir[w] # dir'[w] => w \in Accepted]_vars
  BY <1>3, SignalAssumption
<1>6. Spec => EarliestFirst
  BY <1>2, <1>4, PTL DEF Spec, EarliestFirst
<1>7. Spec => KeyedLeavesOthers
  BY <1>2, <1>5, PTL DEF Spec, KeyedLeavesOthers
<1>8. QED BY <1>6, <1>7 DEF RightSignal
-----------------------------------------------------------------------------
(* The react step.                                                         *)

ReactPhases == {"idle", "model", "decide", "tools"}
Results == {"none", "ok", "retryable_failure", "permanent_failure", "internal", "crashed"}
RoundsTyped ==
    /\ rounds \in Nat /\ rounds < Turns
    /\ DOMAIN models \subseteq 1 .. rounds + 1
    /\ \A k \in DOMAIN models : models[k] \in Answers
    /\ DOMAIN leaves \subseteq (1 .. rounds + 1) \X (Nat \ {0})
    /\ \A t \in DOMAIN leaves : t[1] \in DOMAIN models
DriverTyped == rpc \in ReactPhases /\ result \in Results /\ mishaps \in 0 .. MaxMishaps
\* all rounds below the open one are closed, and closed ones are complete
RoundClosed(k) ==
    /\ k \in DOMAIN models
    /\ models[k].finish = "tool_calls"
    /\ \A j \in 1 .. Len(models[k].calls) : models[k].calls[j] \in Offered => <<k, j>> \in DOMAIN leaves
RoundsClosed == \A k \in 1 .. rounds : RoundClosed(k)
\* where a driver is in the open round
InRound ==
    /\ rpc # "idle" => turn = rounds + 1
    /\ rpc \in {"decide", "tools"} => turn \in DOMAIN models
    /\ rpc = "tools" =>
          /\ models[turn].finish = "tool_calls" /\ turn < Turns
          /\ at \in Nat \ {0} /\ at <= Len(models[turn].calls) + 1
          /\ \A j \in 1 .. at - 1 : models[turn].calls[j] \in Offered => <<turn, j>> \in DOMAIN leaves
\* a process that ended is the one of the open tool call, which has no leaf
ProcOpen == proc # NoTool => rpc = "tools" /\ at <= Len(models[turn].calls) /\ <<turn, at>> \notin DOMAIN leaves
\* tools run only in rounds that asked for them and are not the last
RanInRounds ==
    \A t \in ranTools : t[1] \in DOMAIN models /\ t[1] < Turns /\ models[t[1]].finish = "tool_calls"
\* the product is of the open round, and no driver is in it
ProductLast ==
    product # NoProduct =>
        /\ rpc = "idle" /\ product.round = rounds + 1 /\ product.round \in DOMAIN models
        /\ product.stop = "max_turns" <=> models[product.round].finish = "tool_calls"
        /\ models[product.round].finish # "tool_calls" \/ product.round = Turns
ReactInv ==
    RoundsTyped /\ DriverTyped /\ RoundsClosed /\ InRound /\ ProcOpen /\ RanInRounds /\ ProductLast

LEMMA TurnsPositive == Turns \in Nat /\ 1 <= Turns
BY ReactAssumption DEF Turns

LEMMA ReactInitInv == ReactInit => ReactInv
BY TurnsPositive, ReactAssumption DEF ReactInit, ReactInv, RoundsTyped, DriverTyped, ReactPhases, Results, RoundsClosed, InRound,
   ProcOpen, RanInRounds, ProductLast

\* a driver that returns, for whatever reason, with nothing committed
LEMMA ReturnsInv ==
    ASSUME ReactInv, NEW r \in Results, Returns(r), UNCHANGED <<models, leaves, rounds, product, ranTools>>,
           mishaps' \in 0 .. MaxMishaps
    PROVE  ReactInv'
<1>1. rpc' = "idle" /\ result' = r /\ proc' = NoTool
  BY DEF Returns
<1>2. RoundsTyped' /\ DriverTyped'
  BY <1>1 DEF ReactInv, RoundsTyped, DriverTyped, ReactPhases
<1>3. RoundsClosed' /\ InRound' /\ ProcOpen' /\ RanInRounds' /\ ProductLast'
  BY <1>1 DEF ReactInv, RoundsClosed, RoundClosed, InRound, ProcOpen, RanInRounds, ProductLast
<1>4. QED BY <1>2, <1>3 DEF ReactInv

LEMMA MishapEffect ==
    ASSUME ReactInv, Mishap \/ UNCHANGED mishaps
    PROVE  mishaps' \in 0 .. MaxMishaps
BY ReactAssumption DEF ReactInv, DriverTyped, Mishap

LEMMA EnterInv ==
    ASSUME ReactInv, Enter
    PROVE  ReactInv'
<1>1. UNCHANGED <<models, leaves, rounds, product, mishaps, ranTools>> /\ rpc = "idle"
  BY DEF Enter, durable
<1>2. mishaps' \in 0 .. MaxMishaps
  BY <1>1, MishapEffect
<1>3. CASE Returns("ok") \/ Returns("internal")
  BY <1>1, <1>2, <1>3, ReturnsInv DEF Results
<1>4. CASE /\ product = NoProduct /\ turn' = rounds + 1 /\ result' = "none" /\ proc' = proc
           /\ rpc' = IF rounds + 1 <= Turns THEN "model" ELSE "fell through"
  <2>1. rpc' = "model" /\ turn' = rounds + 1 /\ proc' = NoTool
    <3>1. rounds \in Nat /\ rounds < Turns
      BY DEF ReactInv, RoundsTyped
    <3>2. rounds + 1 <= Turns
      BY <3>1, TurnsPositive
    <3>3. proc = NoTool
      BY <1>1 DEF ReactInv, ProcOpen
    <3>4. QED BY <1>4, <3>2, <3>3
  <2>2. RoundsTyped' /\ DriverTyped'
    BY <1>1, <1>4, <2>1 DEF ReactInv, RoundsTyped, DriverTyped, ReactPhases, Results
  <2>3. RoundsClosed' /\ InRound' /\ ProcOpen' /\ RanInRounds' /\ ProductLast'
    BY <1>1, <1>4, <2>1 DEF ReactInv, RoundsClosed, RoundClosed, InRound, ProcOpen, RanInRounds, ProductLast
  <2>4. QED BY <2>2, <2>3 DEF ReactInv
<1>5. QED BY <1>3, <1>4 DEF Enter

\* the steps that return with nothing committed
LEMMA GivesUpInv ==
    ASSUME ReactInv, PromptError \/ ModelError \/ ToolError \/ DriverCrash
    PROVE  ReactInv'
<1>1. UNCHANGED <<models, leaves, rounds, product, ranTools>> /\ Mishap
  BY DEF PromptError, ModelError, ToolError, DriverCrash, durable
<1>2. \E r \in Results : Returns(r)
  BY DEF PromptError, ModelError, ToolError, DriverCrash, Results
<1>3. QED BY <1>1, <1>2, MishapEffect, ReturnsInv

LEMMA ModelReplayInv ==
    ASSUME ReactInv, ModelReplay
    PROVE  ReactInv'
<1>1. /\ rpc = "model" /\ turn \in DOMAIN models /\ rpc' = "decide"
      /\ UNCHANGED <<models, leaves, rounds, product, turn, at, proc, result, mishaps, ranTools>>
  BY DEF ModelReplay, durable
<1>2. proc = NoTool
  BY <1>1 DEF ReactInv, ProcOpen
<1>3. RoundsTyped' /\ DriverTyped'
  BY <1>1 DEF ReactInv, RoundsTyped, DriverTyped, ReactPhases
<1>4. RoundsClosed' /\ InRound' /\ ProcOpen' /\ RanInRounds' /\ ProductLast'
  BY <1>1, <1>2 DEF ReactInv, RoundsClosed, RoundClosed, InRound, ProcOpen, RanInRounds, ProductLast
<1>5. QED BY <1>3, <1>4 DEF ReactInv

LEMMA ModelCallInv ==
    ASSUME ReactInv, ModelCall
    PROVE  ReactInv'
<1>1. /\ rpc = "model" /\ turn \notin DOMAIN models
      /\ UNCHANGED <<leaves, rounds, product, mishaps, ranTools>>
  BY DEF ModelCall
<1>2. CASE Returns("retryable_failure") /\ UNCHANGED models
  BY <1>1, <1>2, ReturnsInv, MishapEffect DEF Results
<1>3. ASSUME NEW a \in Answers, models' = Bind(models, turn, a), rpc' = "decide", UNCHANGED <<turn, at, proc, result>>
      PROVE  ReactInv'
  <2>1. /\ DOMAIN models' = DOMAIN models \cup {turn} /\ models'[turn] = a
        /\ \A k \in DOMAIN models : models'[k] = models[k]
    BY <1>1, <1>3 DEF Bind
  <2>2. turn = rounds + 1 /\ proc = NoTool /\ product = NoProduct /\ rounds \in Nat
    BY <1>1 DEF ReactInv, InRound, ProcOpen, ProductLast, RoundsTyped
  <2>3. RoundsTyped'
    BY <1>1, <1>3, <2>1, <2>2 DEF ReactInv, RoundsTyped
  <2>4. DriverTyped'
    BY <1>1, <1>3 DEF ReactInv, DriverTyped, ReactPhases
  <2>5. RoundsClosed'
    BY <1>1, <2>1 DEF ReactInv, RoundsClosed, RoundClosed
  <2>6. InRound' /\ ProcOpen' /\ RanInRounds' /\ ProductLast'
    BY <1>1, <1>3, <2>1, <2>2 DEF ReactInv, InRound, ProcOpen, RanInRounds, ProductLast
  <2>7. QED BY <2>3, <2>4, <2>5, <2>6 DEF ReactInv
<1>4. QED BY <1>2, <1>3 DEF ModelCall

LEMMA DecideInv ==
    ASSUME ReactInv, Decide
    PROVE  ReactInv'
<1>1. /\ rpc = "decide" /\ models[turn].finish = "tool_calls" /\ turn < Turns /\ rpc' = "tools" /\ at' = 1
      /\ UNCHANGED <<models, leaves, rounds, product, turn, proc, result, mishaps, ranTools>>
  BY DEF Decide, durable
<1>2. proc = NoTool /\ turn \in DOMAIN models
  BY <1>1 DEF ReactInv, ProcOpen, InRound
<1>3. Len(models[turn].calls) \in Nat
  <2>1. models[turn].calls \in Seq(STRING)
    BY <1>2, ReactAssumption DEF ReactInv, RoundsTyped
  <2>2. QED BY <2>1
<1>4. RoundsTyped' /\ DriverTyped'
  BY <1>1 DEF ReactInv, RoundsTyped, DriverTyped, ReactPhases
<1>5. RoundsClosed' /\ InRound' /\ ProcOpen' /\ RanInRounds' /\ ProductLast'
  BY <1>1, <1>2, <1>3 DEF ReactInv, RoundsClosed, RoundClosed, InRound, ProcOpen, RanInRounds, ProductLast
<1>6. QED BY <1>4, <1>5 DEF ReactInv

LEMMA TerminalInv ==
    ASSUME ReactInv, Terminal
    PROVE  ReactInv'
<1>1. /\ rpc = "decide" /\ (models[turn].finish # "tool_calls" \/ turn = Turns)
      /\ UNCHANGED <<models, leaves, rounds, mishaps, ranTools>>
  BY DEF Terminal
<1>2. CASE Returns("retryable_failure") /\ UNCHANGED product
  BY <1>1, <1>2, ReturnsInv, MishapEffect DEF Results
<1>3. CASE product' = [stop |-> StopReason, round |-> turn] /\ Returns("ok")
  <2>1. turn = rounds + 1 /\ turn \in DOMAIN models /\ rpc = "decide"
    BY <1>1 DEF ReactInv, InRound
  <2>2. rpc' = "idle" /\ result' = "ok" /\ proc' = NoTool /\ product'.round = turn /\ product'.stop = StopReason
    BY <1>3 DEF Returns
  <2>3. RoundsTyped' /\ DriverTyped'
    BY <1>1, <2>2 DEF ReactInv, RoundsTyped, DriverTyped, ReactPhases, Results
  <2>4. RoundsClosed' /\ InRound' /\ ProcOpen' /\ RanInRounds'
    BY <1>1, <2>2 DEF ReactInv, RoundsClosed, RoundClosed, InRound, ProcOpen, RanInRounds
  <2>5. ProductLast'
    BY <1>1, <2>1, <2>2 DEF ProductLast, StopReason
  <2>6. QED BY <2>3, <2>4, <2>5 DEF ReactInv
<1>4. QED BY <1>2, <1>3 DEF Terminal
\* the tool calls of the open round
LEMMA ToolsFacts ==
    ASSUME ReactInv, rpc = "tools"
    PROVE  /\ rounds \in Nat /\ turn = rounds + 1 /\ turn \in DOMAIN models /\ turn < Turns /\ product = NoProduct
           /\ models[turn].finish = "tool_calls" /\ Calls = models[turn].calls /\ Len(models[turn].calls) \in Nat
           /\ at \in Nat \ {0} /\ at <= Len(models[turn].calls) + 1
           /\ \A j \in 1 .. at - 1 : models[turn].calls[j] \in Offered => <<turn, j>> \in DOMAIN leaves
<1>1. rounds \in Nat /\ turn = rounds + 1 /\ turn \in DOMAIN models /\ product = NoProduct
  BY DEF ReactInv, RoundsTyped, InRound, ProductLast
<1>2. models[turn].calls \in Seq(STRING)
  BY <1>1, ReactAssumption DEF ReactInv, RoundsTyped
<1>3. Len(models[turn].calls) \in Nat
  BY <1>2
<1>4. QED BY <1>1, <1>3 DEF ReactInv, InRound, Calls

\* the next tool call, with a leaf for the one behind it if it was offered
LEMMA ToolStepInv ==
    ASSUME ReactInv, rpc = "tools", at <= Len(models[turn].calls), at' = at + 1, proc' = NoTool,
           UNCHANGED <<models, rounds, product, rpc, turn, result, mishaps, ranTools>>,
           DOMAIN leaves \subseteq DOMAIN leaves', DOMAIN leaves' \subseteq DOMAIN leaves \cup {<<turn, at>>},
           models[turn].calls[at] \in Offered => <<turn, at>> \in DOMAIN leaves'
    PROVE  ReactInv'
<1>1. /\ rounds \in Nat /\ turn = rounds + 1 /\ turn \in DOMAIN models /\ turn < Turns /\ product = NoProduct
      /\ models[turn].finish = "tool_calls" /\ Len(models[turn].calls) \in Nat
      /\ at \in Nat \ {0} /\ at <= Len(models[turn].calls) + 1
      /\ \A j \in 1 .. at - 1 : models[turn].calls[j] \in Offered => <<turn, j>> \in DOMAIN leaves
  BY ToolsFacts
<1>2. RoundsTyped'
  <2>1. DOMAIN leaves \subseteq (1 .. rounds + 1) \X (Nat \ {0})
    BY DEF ReactInv, RoundsTyped
  <2>2. <<turn, at>> \in (1 .. rounds + 1) \X (Nat \ {0}) /\ <<turn, at>>[1] = turn
    BY <1>1
  <2>3. DOMAIN leaves' \subseteq (1 .. rounds + 1) \X (Nat \ {0})
    BY <2>1, <2>2
  <2>4. \A t \in DOMAIN leaves' : t[1] \in DOMAIN models
    BY <1>1, <2>2 DEF ReactInv, RoundsTyped
  <2>5. QED BY <2>3, <2>4 DEF ReactInv, RoundsTyped
<1>3. DriverTyped'
  BY DEF ReactInv, DriverTyped
<1>4. RoundsClosed'
  BY DEF ReactInv, RoundsClosed, RoundClosed
<1>5. InRound'
  <2>1. \A j \in 1 .. (at + 1) - 1 : j \in 1 .. at - 1 \/ j = at
    BY <1>1
  <2>2. \A j \in 1 .. (at + 1) - 1 : models[turn].calls[j] \in Offered => <<turn, j>> \in DOMAIN leaves'
    BY <1>1, <2>1
  <2>3. at + 1 \in Nat \ {0} /\ at + 1 <= Len(models[turn].calls) + 1
    BY <1>1
  <2>4. QED BY <1>1, <2>2, <2>3 DEF InRound
<1>6. ProcOpen' /\ RanInRounds' /\ ProductLast'
  BY <1>1 DEF ReactInv, ProcOpen, RanInRounds, ProductLast
<1>7. QED BY <1>2, <1>3, <1>4, <1>5, <1>6 DEF ReactInv

LEMMA ToolsInv ==
    ASSUME ReactInv, ToolReplay \/ ToolUnknown \/ ToolCommit
    PROVE  ReactInv'
<1>1. rpc = "tools" /\ UNCHANGED <<models, rounds, product, rpc, turn, result, mishaps, ranTools>> /\ at' = at + 1
  BY DEF ToolReplay, ToolUnknown, ToolCommit, InTools, NextTool, durable
<1>2. Calls = models[turn].calls
  BY DEF Calls
<1>3. CASE ToolReplay \/ ToolUnknown
  <2>1. /\ leaves' = leaves /\ proc' = NoTool /\ at <= Len(models[turn].calls)
        /\ models[turn].calls[at] \in Offered => <<turn, at>> \in DOMAIN leaves
    BY <1>2, <1>3 DEF ToolReplay, ToolUnknown, InTools, durable
  <2>2. QED BY <1>1, <2>1, ToolStepInv
<1>4. CASE ToolCommit
  <2>1. leaves' = Bind(leaves, <<turn, at>>, boundToolResult(proc)) /\ proc' = NoTool /\ proc # NoTool
    BY <1>4 DEF ToolCommit
  <2>2. DOMAIN leaves' = DOMAIN leaves \cup {<<turn, at>>}
    BY <2>1 DEF Bind
  <2>3. at <= Len(models[turn].calls)
    BY <2>1 DEF ReactInv, ProcOpen
  <2>4. QED BY <1>1, <2>1, <2>2, <2>3, ToolStepInv
<1>5. QED BY <1>3, <1>4

LEMMA ToolRunInv ==
    ASSUME ReactInv, ToolRun
    PROVE  ReactInv'
<1>1. /\ rpc = "tools" /\ at <= Len(models[turn].calls) /\ <<turn, at>> \notin DOMAIN leaves
      /\ ranTools' = ranTools \cup {<<turn, at>>}
      /\ UNCHANGED <<models, leaves, rounds, product, rpc, turn, at, result, mishaps>>
  BY DEF ToolRun, InTools, Calls, durable
<1>2. turn \in DOMAIN models /\ turn < Turns /\ models[turn].finish = "tool_calls" /\ product = NoProduct
  BY <1>1, ToolsFacts
<1>3. RoundsTyped' /\ DriverTyped' /\ RoundsClosed' /\ InRound'
  BY <1>1 DEF ReactInv, RoundsTyped, DriverTyped, RoundsClosed, RoundClosed, InRound
<1>4. RanInRounds'
  BY <1>1, <1>2 DEF ReactInv, RanInRounds
<1>5. ProcOpen' /\ ProductLast'
  BY <1>1, <1>2 DEF ProcOpen, ProductLast
<1>6. QED BY <1>3, <1>4, <1>5 DEF ReactInv

LEMMA CloseRoundInv ==
    ASSUME ReactInv, CloseRound
    PROVE  ReactInv'
<1>1. /\ rpc = "tools" /\ proc = NoTool /\ at > Len(Calls) /\ rounds' = rounds + 1 /\ turn' = turn + 1 /\ at' = 0
      /\ rpc' = IF turn + 1 <= Turns THEN "model" ELSE "fell through"
      /\ UNCHANGED <<models, leaves, product, proc, result, mishaps, ranTools>>
  BY DEF CloseRound
<1>2. /\ rounds \in Nat /\ turn = rounds + 1 /\ turn \in DOMAIN models /\ turn < Turns /\ product = NoProduct
      /\ models[turn].finish = "tool_calls" /\ Calls = models[turn].calls /\ Len(models[turn].calls) \in Nat
      /\ at \in Nat \ {0} /\ at <= Len(models[turn].calls) + 1
      /\ \A j \in 1 .. at - 1 : models[turn].calls[j] \in Offered => <<turn, j>> \in DOMAIN leaves
  BY <1>1, ToolsFacts
<1>3. rounds \in Nat /\ rounds' = rounds + 1 /\ turn = rounds + 1 /\ turn < Turns /\ turn' = turn + 1
  BY <1>1, <1>2
<1>4. rpc' = "model" /\ turn' = rounds' + 1 /\ rounds' \in Nat /\ rounds' < Turns
  <2>1. turn + 1 <= Turns /\ turn' = rounds' + 1 /\ rounds' \in Nat /\ rounds' < Turns
    BY <1>3, TurnsPositive
  <2>2. QED BY <1>1, <2>1
<1>5. RoundClosed(turn)
  <2>1. at > Len(models[turn].calls) /\ at <= Len(models[turn].calls) + 1 /\ at \in Nat /\ Len(models[turn].calls) \in Nat
    BY <1>1, <1>2
  <2>2. at - 1 = Len(models[turn].calls)
    BY <2>1
  <2>3. QED BY <1>2, <2>2 DEF RoundClosed
<1>6. RoundsTyped'
  <2>1. 1 .. rounds + 1 \subseteq 1 .. rounds' + 1
    BY <1>3
  <2>2. (1 .. rounds + 1) \X (Nat \ {0}) \subseteq (1 .. rounds' + 1) \X (Nat \ {0})
    BY <2>1
  <2>3. QED BY <1>1, <1>4, <2>1, <2>2 DEF ReactInv, RoundsTyped
<1>7. DriverTyped'
  BY <1>1, <1>4 DEF ReactInv, DriverTyped, ReactPhases
<1>8. RoundsClosed'
  <2>1. \A k \in 1 .. rounds' : k \in 1 .. rounds \/ k = turn
    BY <1>3
  <2>2. \A k \in 1 .. rounds' : RoundClosed(k)
    BY <1>5, <2>1 DEF ReactInv, RoundsClosed
  <2>3. QED BY <1>1, <2>2 DEF RoundsClosed, RoundClosed
<1>9. InRound' /\ ProcOpen' /\ RanInRounds' /\ ProductLast'
  BY <1>1, <1>2, <1>4 DEF ReactInv, InRound, ProcOpen, RanInRounds, ProductLast
<1>10. QED BY <1>6, <1>7, <1>8, <1>9 DEF ReactInv

LEMMA ReactNextInv == ReactInv /\ [ReactNext]_reactVars => ReactInv'
<1>1. SUFFICES ASSUME ReactInv, [ReactNext]_reactVars PROVE ReactInv'
  OBVIOUS
<1>2. CASE ReactNext
  BY <1>1, <1>2, EnterInv, GivesUpInv, ModelReplayInv, ModelCallInv, DecideInv, TerminalInv, ToolsInv, ToolRunInv,
     CloseRoundInv DEF ReactNext, ReactStep
<1>3. CASE UNCHANGED reactVars
  BY <1>1, <1>3 DEF reactVars, ReactInv, RoundsTyped, DriverTyped, RoundsClosed, RoundClosed, InRound, ProcOpen,
     RanInRounds, ProductLast
<1>4. QED BY <1>1, <1>2, <1>3

LEMMA ReactInvSafe == ReactInv => ReactTypeOK /\ NeverFallsThrough /\ ClosedRoundsComplete /\ DanglingCallsNotRun
<1>1. SUFFICES ASSUME ReactInv PROVE ReactTypeOK /\ NeverFallsThrough /\ ClosedRoundsComplete /\ DanglingCallsNotRun
  OBVIOUS
<1>2. rounds \in Nat /\ rounds < Turns /\ Turns \in Nat /\ rounds + 1 <= Turns
  BY <1>1, TurnsPositive DEF ReactInv, RoundsTyped
<1>3. 1 .. rounds + 1 \subseteq 1 .. Turns
  BY <1>2
<1>4. ReactTypeOK
  <2>1. DOMAIN models \subseteq 1 .. Turns /\ DOMAIN leaves \subseteq (1 .. Turns) \X (Nat \ {0})
    BY <1>1, <1>3 DEF ReactInv, RoundsTyped
  <2>2. rounds \in 0 .. Turns
    BY <1>2
  <2>3. QED BY <1>1, <2>1, <2>2 DEF ReactInv, RoundsTyped, DriverTyped, ReactPhases, Results, ReactTypeOK
<1>5. NeverFallsThrough
  BY <1>1 DEF ReactInv, DriverTyped, ReactPhases, NeverFallsThrough
<1>6. ClosedRoundsComplete
  <2>1. \A t \in DOMAIN leaves : t[1] \in 1 .. rounds + 1
    BY <1>1 DEF ReactInv, RoundsTyped
  <2>2. QED BY <1>1, <1>2, <2>1 DEF ReactInv, RoundsTyped, RoundsClosed, RoundClosed, ClosedRoundsComplete
<1>7. DanglingCallsNotRun
  <2>1. ASSUME product # NoProduct, NEW t \in ranTools PROVE t[1] < product.round
    <3>1. t[1] \in DOMAIN models /\ t[1] < Turns /\ models[t[1]].finish = "tool_calls"
      BY <1>1 DEF ReactInv, RanInRounds
    <3>2. t[1] \in 1 .. rounds + 1 /\ product.round = rounds + 1
      BY <1>1, <2>1, <3>1 DEF ReactInv, RoundsTyped, ProductLast
    <3>3. t[1] # product.round
      BY <1>1, <1>2, <2>1, <3>1, <3>2 DEF ReactInv, ProductLast
    <3>4. QED BY <1>2, <3>2, <3>3
  <2>2. QED BY <1>1, <2>1 DEF ReactInv, RanInRounds, ProductLast, DanglingCallsNotRun
<1>8. QED BY <1>4, <1>5, <1>6, <1>7

LEMMA ReactCommits ==
    ASSUME ReactInv, [ReactNext]_reactVars
    PROVE  /\ \A k \in DOMAIN models : models'[k] = models[k]
           /\ \A t \in DOMAIN leaves : leaves'[t] = leaves[t] /\ ~(proc # proc' /\ proc' # NoTool /\ <<turn, at>> = t)
           /\ rounds' \in {rounds, rounds + 1}
<1>1. CASE UNCHANGED reactVars
  BY <1>1 DEF reactVars
<1>2. CASE Enter \/ PromptError \/ ModelError \/ ToolError \/ DriverCrash
  BY <1>2 DEF Enter, PromptError, ModelError, ToolError, DriverCrash, durable, Returns
<1>3. CASE ModelReplay \/ Decide \/ Terminal \/ ToolReplay \/ ToolUnknown
  BY <1>3 DEF ModelReplay, Decide, Terminal, ToolReplay, ToolUnknown, durable, Returns
<1>4. CASE ModelCall
  BY <1>4 DEF ModelCall, Returns, Bind
<1>5. CASE ToolRun
  BY <1>5 DEF ToolRun, durable
<1>6. CASE ToolCommit
  <2>1. <<turn, at>> \notin DOMAIN leaves
    BY <1>6 DEF ToolCommit, ReactInv, ProcOpen
  <2>2. leaves' = Bind(leaves, <<turn, at>>, boundToolResult(proc)) /\ proc' = NoTool /\ UNCHANGED <<models, rounds>>
    BY <1>6 DEF ToolCommit
  <2>3. \A t \in DOMAIN leaves : leaves'[t] = leaves[t]
    BY <2>1, <2>2 DEF Bind
  <2>4. QED BY <2>2, <2>3
<1>7. CASE CloseRound
  BY <1>7 DEF CloseRound
<1>8. QED BY <1>1, <1>2, <1>3, <1>4, <1>5, <1>6, <1>7 DEF ReactNext, ReactStep

\* For any bound on turns, any answers of the provider and any number of
\* drivers, failures and crashes of a react step: the loop never runs off its
\* bound, a closed round is complete on record, the tools of the turn that ends
\* the loop are never run, and no driver repeats a model call or a tool process
\* that is on record.
THEOREM ReactLoopIsSafe ==
    ReactSpec => /\ [](ReactTypeOK /\ NeverFallsThrough /\ ClosedRoundsComplete /\ DanglingCallsNotRun)
                 /\ CommittedNotRepeated
<1>1. ReactSpec => []ReactInv
  BY ReactInitInv, ReactNextInv, PTL DEF ReactSpec
<1>2. ReactInv /\ [ReactNext]_reactVars =>
        [/\ \A k \in DOMAIN models : models'[k] = models[k]
         /\ \A t \in DOMAIN leaves : leaves'[t] = leaves[t] /\ ~(proc # proc' /\ proc' # NoTool /\ <<turn, at>> = t)
         /\ rounds' \in {rounds, rounds + 1}]_reactVars
  BY ReactCommits
<1>3. ReactSpec => CommittedNotRepeated
  BY <1>1, <1>2, PTL DEF ReactSpec, CommittedNotRepeated
<1>4. QED BY <1>1, <1>3, ReactInvSafe, PTL
=============================================================================
