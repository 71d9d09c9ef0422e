-------------------------- MODULE LifecycleProofs --------------------------
(***************************************************************************)
(* Proofs about RunLifecycle: RunHonest holds at every moment, for every   *)
(* workflow length and every number of drivers, crashes, requests and      *)
(* re-runs.                                                                *)
(*                                                                         *)
(* RunHonest is not inductive.  What it needs besides is in LogSound (what *)
(* the log says by itself), DriverAt (where the driver is and what the     *)
(* last record of the log then is) and Requests (what the poller has seen  *)
(* and the driver remembers of it).  All but ApplyRerun and CommitStep     *)
(* leave the completed steps alone, so an append is treated once           *)
(* (AppendKeepsLog) and each action only shows what it appends.            *)
(***************************************************************************)
EXTENDS RunLifecycle, WellFoundedInduction, TLAPS

-----------------------------------------------------------------------------
(* The inductive invariant.                                                *)

Last == events[Len(events)]

Ends(l) == OfType(l, "run.cancelled") \cup OfType(l, "run.finished")

\* the only record that may follow a verdict is run.resumed
ResumedAfterVerdict ==
    \A i, j \in 1 .. Len(events) :
        i < j /\ events[i].type \in Verdicts =>
            \E k \in OfType(events, "run.resumed") : i < k /\ k <= j

FailuresNamed == \A i \in OfType(events, "node.failed") : events[i].status \in Failures

FirstEnd == Ends(events) # {} => \E i \in Ends(events) : \A j \in Ends(events) : i <= j

FirstCancelAsked ==
    OfType(events, "run.cancelled") # {} =>
        \E i \in OfType(events, "run.cancelled") :
            /\ \A j \in OfType(events, "run.cancelled") : i <= j
            /\ <<events[i].epoch, "cancel">> \in detected

PausesAsked == \A i \in OfType(events, "run.paused") : <<events[i].epoch, "pause">> \in detected

LogSound ==
    /\ OneVerdictPerEpoch
    /\ FinishedOkComplete
    /\ ResumedAfterVerdict
    /\ FailuresNamed
    /\ FirstEnd
    /\ FirstCancelAsked
    /\ PausesAsked

\* where the driver is
DriverAt ==
    /\ events = <<>> => pc = "idle"
    /\ events # <<>> => Last.epoch <= epoch
    /\ pc = "idle" => done = {} /\ outcome = "none" /\ ~polling
    /\ pc \in {"res.clear", "res.append"} => epoch = Last.epoch + 1
    /\ pc \in Walking \cup {"res.rerun"} => Last.epoch = epoch /\ Last.type \notin Verdicts
    /\ pc # "idle" => done = CompletedIn(events)
    /\ pc = "step" => done # Nodes
    /\ polling => pc \in Walking
    /\ outcome = "ok" => pc \in {"walked", "verdict"} /\ done = Nodes

\* what was asked of it
Requests ==
    /\ detected # {} => events # <<>>
    /\ \A d \in detected : d[1] <= Last.epoch
    /\ pc = "res.rerun" => \A d \in detected : d[1] < epoch
    /\ pc \in Walking => /\ <<epoch, "cancel">> \in detected => cancelled
                         /\ <<epoch, "pause">> \in detected => paused
    /\ paused => pc \in Walking /\ <<epoch, "pause">> \in detected
    /\ cancelled => /\ pc # "idle"
                    /\ \/ OfType(events, "run.cancelled") # {}
                       \/ <<epoch, "cancel">> \in detected

Inv ==
    /\ TypeOK
    /\ CompletedPrefix
    /\ LogSound
    /\ DriverAt
    /\ Requests
    /\ DetectedRequestJournaled

-----------------------------------------------------------------------------
(* Appending to a log.                                                     *)

LEMMA AppendEvent ==
    ASSUME NEW l \in Seq(Event), NEW e \in Event
    PROVE  /\ Append(l, e) \in Seq(Event)
           /\ Len(l) \in Nat
           /\ Len(Append(l, e)) = Len(l) + 1
           /\ Append(l, e) # <<>>
           /\ \A i \in 1 .. Len(l) : Append(l, e)[i] = l[i] /\ l[i] \in Event
           /\ Append(l, e)[Len(l) + 1] = e
  OBVIOUS

LEMMA AppendOfType ==
    ASSUME NEW l \in Seq(Event), NEW e \in Event, NEW t
    PROVE  OfType(Append(l, e), t) =
             OfType(l, t) \cup (IF e.type = t THEN {Len(l) + 1} ELSE {})
<1> DEFINE m == Append(l, e)
<1>1. /\ Len(l) \in Nat
      /\ Len(m) = Len(l) + 1
      /\ \A i \in 1 .. Len(l) : m[i] = l[i]
      /\ m[Len(l) + 1] = e
  BY AppendEvent
<1> HIDE DEF m
<1>2. 1 .. Len(m) = (1 .. Len(l)) \cup {Len(l) + 1}
  BY <1>1
<1> SUFFICES OfType(m, t) = OfType(l, t) \cup (IF e.type = t THEN {Len(l) + 1} ELSE {})
  BY DEF m
<1> QED
  BY <1>1, <1>2 DEF OfType

LEMMA OfTypeIndex ==
    ASSUME NEW l \in Seq(Event), NEW t, NEW i \in OfType(l, t)
    PROVE  i \in 1 .. Len(l) /\ i \in Nat /\ i <= Len(l) /\ i < Len(l) + 1 /\ l[i].type = t /\ l[i] \in Event
  BY DEF OfType

\* what an append does to RunState.Completed
LEMMA AppendCompleted ==
    ASSUME NEW l \in Seq(Event), NEW e \in Event
    PROVE  /\ e.type = "node.completed" => CompletedIn(Append(l, e)) = CompletedIn(l) \cup e.paths
           /\ e.type = "node.invalidated" => CompletedIn(Append(l, e)) = CompletedIn(l) \ e.paths
           /\ e.type \notin {"node.completed", "node.invalidated"} =>
                 CompletedIn(Append(l, e)) = CompletedIn(l)
<1> DEFINE m == Append(l, e)
           n == Len(l) + 1
<1>1. /\ Len(l) \in Nat
      /\ \A i \in 1 .. Len(l) : m[i] = l[i]
      /\ m[n] = e
  BY AppendEvent
<1>2. \A t : OfType(m, t) = OfType(l, t) \cup (IF e.type = t THEN {n} ELSE {})
  BY AppendOfType
<1>3. \A t : \A i \in OfType(l, t) : i \in 1 .. Len(l) /\ i < n /\ i # n /\ ~(n < i) /\ i \in Nat /\ m[i] = l[i]
  BY <1>1, OfTypeIndex
<1>4. e.paths \subseteq Nodes /\ n \in Nat /\ ~(n > n)
  BY <1>1 DEF Event
<1> HIDE DEF m, n
<1>5. ASSUME e.type = "node.completed"
      PROVE  CompletedIn(m) = CompletedIn(l) \cup e.paths
  <2>1. /\ OfType(m, "node.completed") = OfType(l, "node.completed") \cup {n}
        /\ OfType(m, "node.invalidated") = OfType(l, "node.invalidated")
    BY <1>2, <1>5
  <2> QED
    BY <2>1, <1>1, <1>3, <1>4 DEF CompletedIn
<1>6. ASSUME e.type = "node.invalidated"
      PROVE  CompletedIn(m) = CompletedIn(l) \ e.paths
  <2>1. /\ OfType(m, "node.completed") = OfType(l, "node.completed")
        /\ OfType(m, "node.invalidated") = OfType(l, "node.invalidated") \cup {n}
    BY <1>2, <1>6
  <2>2. \A i \in OfType(m, "node.completed") : n > i /\ m[i] = l[i]
    BY <2>1, <1>3, <1>4
  <2> QED
    BY <2>1, <2>2, <1>1, <1>3, <1>4 DEF CompletedIn
<1>7. ASSUME e.type \notin {"node.completed", "node.invalidated"}
      PROVE  CompletedIn(m) = CompletedIn(l)
  <2>1. /\ OfType(m, "node.completed") = OfType(l, "node.completed")
        /\ OfType(m, "node.invalidated") = OfType(l, "node.invalidated")
    BY <1>2, <1>7
  <2> QED
    BY <2>1, <1>3 DEF CompletedIn
<1> QED
  BY <1>5, <1>6, <1>7 DEF m

LEMMA AppendPrefix ==
    ASSUME NEW l \in Seq(Event), NEW e \in Event
    PROVE  /\ \A i \in 1 .. Len(l) : SubSeq(Append(l, e), 1, i) = SubSeq(l, 1, i)
           /\ SubSeq(Append(l, e), 1, Len(l) + 1) = Append(l, e)
<1> DEFINE m == Append(l, e)
<1>1. /\ m \in Seq(Event)
      /\ Len(l) \in Nat
      /\ Len(m) = Len(l) + 1
      /\ \A i \in 1 .. Len(l) : m[i] = l[i]
  BY AppendEvent
<1> HIDE DEF m
<1>2. ASSUME NEW i \in 1 .. Len(l)
      PROVE  SubSeq(m, 1, i) = SubSeq(l, 1, i)
  BY <1>1, <1>2
<1>3. SubSeq(m, 1, Len(m)) = m
  BY <1>1
<1> QED
  BY <1>1, <1>2, <1>3 DEF m

-----------------------------------------------------------------------------
(* One append by the driver.                                               *)

Statuses == Failures \cup {"ok", "none"}

LEMMA LogEffect ==
    ASSUME TypeOK, NEW t \in EventTypes, NEW p \in SUBSET Nodes, NEW s \in Statuses, Log(t, p, s)
    PROVE  /\ events' \in Seq(Event)
           /\ events' # <<>>
           /\ Len(events) \in Nat
           /\ Len(events') = Len(events) + 1
           /\ \A i \in 1 .. Len(events) : events'[i] = events[i] /\ events[i] \in Event
           /\ events'[Len(events) + 1].type = t
           /\ events'[Len(events) + 1].epoch = epoch
           /\ events'[Len(events) + 1].status = s
           /\ \A u : OfType(events', u) = OfType(events, u) \cup (IF t = u THEN {Len(events) + 1} ELSE {})
           /\ t = "node.completed" => CompletedIn(events') = CompletedIn(events) \cup p
           /\ t = "node.invalidated" => CompletedIn(events') = CompletedIn(events) \ p
           /\ t \notin {"node.completed", "node.invalidated"} => CompletedIn(events') = CompletedIn(events)
           /\ \A i \in 1 .. Len(events) : SubSeq(events', 1, i) = SubSeq(events, 1, i)
           /\ SubSeq(events', 1, Len(events) + 1) = events'
<1> DEFINE e == [type |-> t, paths |-> p, epoch |-> epoch, status |-> s]
<1>1. epoch \in Nat /\ events \in Seq(Event)
  BY LifecycleAssumption DEF TypeOK
<1>2. e \in Event
  BY <1>1 DEF Event, Statuses
<1>3. e.type = t /\ e.paths = p /\ e.epoch = epoch /\ e.status = s
  OBVIOUS
<1>4. events' = Append(events, e)
  BY DEF Log
<1> HIDE DEF e
<1>5. /\ events' \in Seq(Event)
      /\ events' # <<>>
      /\ Len(events) \in Nat
      /\ Len(events') = Len(events) + 1
      /\ \A i \in 1 .. Len(events) : events'[i] = events[i] /\ events[i] \in Event
      /\ events'[Len(events) + 1] = e
  BY <1>1, <1>2, <1>4, AppendEvent
<1>6. \A u : OfType(events', u) = OfType(events, u) \cup (IF t = u THEN {Len(events) + 1} ELSE {})
  BY <1>1, <1>2, <1>3, <1>4, AppendOfType
<1>7. /\ t = "node.completed" => CompletedIn(events') = CompletedIn(events) \cup p
      /\ t = "node.invalidated" => CompletedIn(events') = CompletedIn(events) \ p
      /\ t \notin {"node.completed", "node.invalidated"} => CompletedIn(events') = CompletedIn(events)
  BY <1>1, <1>2, <1>3, <1>4, AppendCompleted
<1>8. /\ \A i \in 1 .. Len(events) : SubSeq(events', 1, i) = SubSeq(events, 1, i)
      /\ SubSeq(events', 1, Len(events) + 1) = events'
  BY <1>1, <1>2, <1>4, AppendPrefix
<1> QED
  BY <1>3, <1>5, <1>6, <1>7, <1>8

\* what must hold for a record of type t and status s to be appended
MayAppend(t, s) ==
    /\ t = "run.resumed" => Last.epoch < epoch
    /\ t # "run.resumed" /\ events # <<>> => Last.epoch <= epoch /\ Last.type \notin Verdicts
    /\ t = "node.failed" => s \in Failures
    /\ t = "run.paused" => <<epoch, "pause">> \in detected
    /\ t = "run.cancelled" => OfType(events, "run.cancelled") # {} \/ <<epoch, "cancel">> \in detected
    /\ t = "run.finished" /\ s = "ok" => CompletedIn(events) = Nodes

LEMMA IndexFacts ==
    ASSUME TypeOK, NEW t, NEW i \in OfType(events, t)
    PROVE  i \in 1 .. Len(events) /\ i <= Len(events) + 1
<1>1. events \in Seq(Event)
  BY DEF TypeOK
<1> QED
  BY <1>1, OfTypeIndex

LEMMA AppendKeepsVerdicts ==
    ASSUME TypeOK, LogSound, NEW t \in EventTypes, NEW p \in SUBSET Nodes, NEW s \in Statuses,
           Log(t, p, s), MayAppend(t, s)
    PROVE  OneVerdictPerEpoch' /\ ResumedAfterVerdict'
<1> DEFINE n == Len(events) + 1
<1>1. /\ Len(events) \in Nat
      /\ Len(events') = n
      /\ \A i \in 1 .. Len(events) : events'[i] = events[i] /\ events[i] \in Event
      /\ events'[n].epoch = epoch
      /\ \A u : OfType(events', u) = OfType(events, u) \cup (IF t = u THEN {n} ELSE {})
  BY LogEffect
<1>2. ASSUME NEW i \in 1 .. Len(events'), NEW j \in 1 .. Len(events'), i < j,
             events'[i].type \in Verdicts
      PROVE  /\ events'[i].epoch < events'[j].epoch
             /\ \E k \in OfType(events', "run.resumed") : i < k /\ k <= j
  <2>1. i \in 1 .. Len(events) /\ events'[i] = events[i]
    BY <1>1, <1>2
  <2>2. CASE j # n
    <3>1. j \in 1 .. Len(events) /\ events'[j] = events[j]
      BY <1>1, <1>2, <2>2
    <3> QED
      BY <1>1, <1>2, <2>1, <3>1 DEF LogSound, OneVerdictPerEpoch, ResumedAfterVerdict
  <2>3. CASE j = n
    <3>1. events # <<>> /\ Len(events) \in 1 .. Len(events) /\ Last \in Event
      BY <2>1, <1>1 DEF Last
    <3>2. events[i].epoch \in Nat /\ Last.epoch \in Nat /\ epoch \in Nat
      BY <2>1, <3>1, <1>1, LifecycleAssumption DEF Event, TypeOK
    <3>3. CASE t = "run.resumed"
      <4>1. Last.epoch < epoch
        BY <3>3 DEF MayAppend
      <4>2. events[i].epoch <= Last.epoch
        <5>1. CASE i = Len(events)
          BY <5>1, <3>2 DEF Last
        <5>2. CASE i # Len(events)
          <6>1. i < Len(events)
            BY <5>2, <2>1, <1>1
          <6>2. events[i].epoch < Last.epoch
            BY <6>1, <3>1, <2>1, <1>2 DEF LogSound, OneVerdictPerEpoch, Last
          <6> QED
            BY <6>2, <3>2
        <5> QED
          BY <5>1, <5>2
      <4>3. events[i].epoch < epoch
        BY <4>1, <4>2, <3>2
      <4>4. n \in OfType(events', "run.resumed")
        BY <1>1, <3>3
      <4>5. i < n /\ n <= n
        BY <2>1, <1>1
      <4> QED
        BY <4>3, <4>4, <4>5, <2>1, <2>3, <1>1
    <3>4. CASE t # "run.resumed"
      <4>1. Last.epoch <= epoch /\ Last.type \notin Verdicts
        BY <3>4, <3>1 DEF MayAppend
      <4>2. i < Len(events)
        BY <4>1, <2>1, <1>1, <1>2 DEF Last
      <4>3. /\ events[i].epoch < Last.epoch
            /\ \E k \in OfType(events, "run.resumed") : i < k /\ k <= Len(events)
        BY <4>2, <3>1, <2>1, <1>2 DEF LogSound, OneVerdictPerEpoch, ResumedAfterVerdict, Last
      <4>4. events[i].epoch < epoch
        BY <4>3, <4>1, <3>2
      <4>5. PICK k \in OfType(events, "run.resumed") : i < k /\ k <= Len(events)
        BY <4>3
      <4>6. k \in OfType(events', "run.resumed") /\ k <= n
        BY <4>5, <1>1, IndexFacts
      <4> QED
        BY <4>4, <4>5, <4>6, <2>1, <2>3, <1>1
    <3> QED
      BY <3>3, <3>4
  <2> QED
    BY <2>2, <2>3
<1> QED
  BY <1>2 DEF OneVerdictPerEpoch, ResumedAfterVerdict

LEMMA AppendKeepsLog ==
    ASSUME TypeOK, LogSound, NEW t \in EventTypes, NEW p \in SUBSET Nodes, NEW s \in Statuses,
           Log(t, p, s), MayAppend(t, s), detected' = detected
    PROVE  LogSound'
<1> DEFINE n == Len(events) + 1
<1>1. /\ Len(events) \in Nat
      /\ Len(events') = n
      /\ \A i \in 1 .. Len(events) : events'[i] = events[i] /\ events[i] \in Event
      /\ events'[n].type = t
      /\ events'[n].epoch = epoch
      /\ events'[n].status = s
      /\ \A u : OfType(events', u) = OfType(events, u) \cup (IF t = u THEN {n} ELSE {})
  BY LogEffect
<1>2. \A u : \A i \in OfType(events, u) : i \in 1 .. Len(events) /\ i <= n
  BY IndexFacts
<1>3. OneVerdictPerEpoch' /\ ResumedAfterVerdict'
  BY AppendKeepsVerdicts
<1>4. FinishedOkComplete'
  <2> SUFFICES ASSUME NEW i \in OfType(events', "run.finished"), events'[i].status = "ok"
               PROVE  CompletedIn(SubSeq(events', 1, i)) = Nodes
    BY DEF FinishedOkComplete
  <2>1. CASE i \in OfType(events, "run.finished")
    <3>1. SubSeq(events', 1, i) = SubSeq(events, 1, i) /\ events'[i] = events[i]
      BY <2>1, <1>1, <1>2, LogEffect
    <3> QED
      BY <3>1, <2>1 DEF LogSound, FinishedOkComplete
  <2>2. CASE i \notin OfType(events, "run.finished")
    <3>1. i = n /\ t = "run.finished" /\ s = "ok"
      BY <2>2, <1>1
    <3>2. SubSeq(events', 1, n) = events' /\ CompletedIn(events') = CompletedIn(events)
      BY <3>1, LogEffect
    <3>3. CompletedIn(events) = Nodes
      BY <3>1 DEF MayAppend
    <3> QED
      BY <3>1, <3>2, <3>3
  <2> QED
    BY <2>1, <2>2
<1>5. FailuresNamed'
  <2> SUFFICES ASSUME NEW i \in OfType(events', "node.failed")
               PROVE  events'[i].status \in Failures
    BY DEF FailuresNamed
  <2>1. CASE i \in OfType(events, "node.failed")
    BY <2>1, <1>1, <1>2 DEF LogSound, FailuresNamed
  <2>2. CASE i \notin OfType(events, "node.failed")
    BY <2>2, <1>1 DEF MayAppend
  <2> QED
    BY <2>1, <2>2
<1>6. FirstEnd'
  <2>1. \A i \in Ends(events) : i <= n
    BY <1>2 DEF Ends
  <2>2. Ends(events') = Ends(events) \cup (IF t \in {"run.cancelled", "run.finished"} THEN {n} ELSE {})
    BY <1>1 DEF Ends
  <2>3. n <= n
    BY <1>1
  <2> QED
    BY <2>1, <2>2, <2>3 DEF LogSound, FirstEnd
<1>7. FirstCancelAsked'
  <2>1. CASE OfType(events, "run.cancelled") = {}
    <3> SUFFICES ASSUME OfType(events', "run.cancelled") # {}
                 PROVE  FirstCancelAsked'
      BY DEF FirstCancelAsked
    <3>1. t = "run.cancelled" /\ OfType(events', "run.cancelled") = {n} /\ n <= n
      BY <2>1, <1>1
    <3>2. <<events'[n].epoch, "cancel">> \in detected
      BY <3>1, <2>1, <1>1 DEF MayAppend
    <3> QED
      BY <3>1, <3>2 DEF FirstCancelAsked
  <2>2. CASE OfType(events, "run.cancelled") # {}
    <3>1. PICK i \in OfType(events, "run.cancelled") :
                 /\ \A j \in OfType(events, "run.cancelled") : i <= j
                 /\ <<events[i].epoch, "cancel">> \in detected
      BY <2>2 DEF LogSound, FirstCancelAsked
    <3>2. i \in OfType(events', "run.cancelled") /\ events'[i] = events[i] /\ i <= n
      BY <3>1, <1>1, <1>2
    <3>3. \A j \in OfType(events', "run.cancelled") : i <= j
      BY <3>1, <3>2, <1>1
    <3> QED
      BY <3>1, <3>2, <3>3 DEF FirstCancelAsked
  <2> QED
    BY <2>1, <2>2
<1>8. PausesAsked'
  <2> SUFFICES ASSUME NEW i \in OfType(events', "run.paused")
               PROVE  <<events'[i].epoch, "pause">> \in detected
    BY DEF PausesAsked
  <2>1. CASE i \in OfType(events, "run.paused")
    BY <2>1, <1>1, <1>2 DEF LogSound, PausesAsked
  <2>2. CASE i \notin OfType(events, "run.paused")
    BY <2>2, <1>1 DEF MayAppend
  <2> QED
    BY <2>1, <2>2
<1> QED
  BY <1>3, <1>4, <1>5, <1>6, <1>7, <1>8 DEF LogSound

-----------------------------------------------------------------------------
(* What an action that keeps or extends the log preserves.                 *)

\* one append, or none
Extends == \/ events' = events
           \/ \E t \in EventTypes, p \in SUBSET Nodes, s \in Statuses : Log(t, p, s)

LEMMA QuietKeepsLog ==
    ASSUME LogSound, CompletedPrefix, events' = events, detected \subseteq detected'
    PROVE  LogSound' /\ CompletedPrefix'
<1>1. \A u : OfType(events', u) = OfType(events, u)
  OBVIOUS
<1>2. OneVerdictPerEpoch' /\ ResumedAfterVerdict' /\ FailuresNamed' /\ FirstEnd'
  BY DEF LogSound, OneVerdictPerEpoch, ResumedAfterVerdict, FailuresNamed, FirstEnd
<1>3. FinishedOkComplete' /\ CompletedPrefix'
  BY DEF LogSound, FinishedOkComplete, CompletedPrefix
<1>4. FirstCancelAsked' /\ PausesAsked'
  BY DEF LogSound, FirstCancelAsked, PausesAsked
<1> QED
  BY <1>2, <1>3, <1>4 DEF LogSound

\* the request d has its record, or its driver was killed
Answered(d) ==
    \/ d[1] \in killed
    \/ \E i \in OfType(events, "run.cancelled") : events[i].epoch = d[1]
    \/ /\ d[2] = "pause"
       /\ \E i \in OfType(events, "run.paused") : events[i].epoch = d[1]

LEMMA ExtendsEffect ==
    ASSUME TypeOK, Extends
    PROVE  /\ events' \in Seq(Event)
           /\ events # <<>> => events' # <<>>
           /\ \A u : \A i \in OfType(events, u) : i \in OfType(events', u) /\ events'[i] = events[i]
<1>1. CASE events' = events
  BY <1>1 DEF TypeOK
<1>2. ASSUME NEW t \in EventTypes, NEW p \in SUBSET Nodes, NEW s \in Statuses, Log(t, p, s)
      PROVE  /\ events' \in Seq(Event)
             /\ events' # <<>>
             /\ \A u : \A i \in OfType(events, u) : i \in OfType(events', u) /\ events'[i] = events[i]
  <2>1. /\ events' \in Seq(Event)
        /\ events' # <<>>
        /\ \A i \in 1 .. Len(events) : events'[i] = events[i]
        /\ \A u : OfType(events', u) = OfType(events, u) \cup (IF t = u THEN {Len(events) + 1} ELSE {})
    BY <1>2, LogEffect
  <2>2. \A u : \A i \in OfType(events, u) : i \in 1 .. Len(events)
    BY IndexFacts
  <2> QED
    BY <2>1, <2>2
<1> QED
  BY <1>1, <1>2 DEF Extends

LEMMA AnswersStay ==
    ASSUME TypeOK, Extends, killed \subseteq killed', NEW d, Answered(d)
    PROVE  Answered(d)'
<1>1. \A u : \A i \in OfType(events, u) : i \in OfType(events', u) /\ events'[i] = events[i]
  BY ExtendsEffect
<1>2. CASE d[1] \in killed
  BY <1>2 DEF Answered
<1>3. CASE \E i \in OfType(events, "run.cancelled") : events[i].epoch = d[1]
  BY <1>3, <1>1 DEF Answered
<1>4. CASE d[2] = "pause" /\ \E i \in OfType(events, "run.paused") : events[i].epoch = d[1]
  BY <1>4, <1>1 DEF Answered
<1> QED
  BY <1>2, <1>3, <1>4 DEF Answered

\* a driver that goes on still owes what it owed
LEMMA DebtsStay ==
    ASSUME TypeOK, DetectedRequestJournaled, Extends, killed' = killed, detected' = detected,
           epoch' = epoch, pc' = pc \/ pc' # "idle"
    PROVE  DetectedRequestJournaled'
<1> SUFFICES ASSUME NEW d \in detected
             PROVE  Answered(d)' \/ (d[1] = epoch' /\ pc' # "idle")
  BY DEF DetectedRequestJournaled, Answered
<1>1. Answered(d) \/ (d[1] = epoch /\ pc # "idle")
  BY DEF DetectedRequestJournaled, Answered
<1> QED
  BY <1>1, AnswersStay

\* a driver that ends must have answered every request of its epoch
LEMMA DebtsPaid ==
    ASSUME TypeOK, DetectedRequestJournaled, Extends, killed \subseteq killed', detected' = detected,
           \A d \in detected : d[1] = epoch /\ pc # "idle" => Answered(d)'
    PROVE  DetectedRequestJournaled'
<1> SUFFICES ASSUME NEW d \in detected
             PROVE  Answered(d)'
  BY DEF DetectedRequestJournaled, Answered
<1>1. Answered(d) \/ (d[1] = epoch /\ pc # "idle")
  BY DEF DetectedRequestJournaled, Answered
<1> QED
  BY <1>1, AnswersStay

-----------------------------------------------------------------------------
(* The actions that leave the log alone.                                   *)

LEMMA LastTyped ==
    ASSUME TypeOK, events # <<>>
    PROVE  Last \in Event /\ Last.epoch \in Nat /\ epoch \in Nat
<1>1. Last \in Event
  BY DEF TypeOK, Last
<1>2. epoch \in Nat
  BY LifecycleAssumption DEF TypeOK
<1> QED
  BY <1>1, <1>2 DEF Event

LEMMA ResumeKeeps ==
    ASSUME Inv, NEW from \in Nodes \cup {0}, NEW forced \in BOOLEAN, ResumeFold(from, forced)
    PROVE  Inv'
<1>1. Last.epoch \in Nat /\ epoch \in Nat /\ events # <<>> /\ Last.epoch <= epoch
  BY LastTyped DEF Inv, ResumeFold, DriverAt
<1>2. events' = events /\ Last' = Last /\ epoch' = Last.epoch + 1 /\ detected' = detected
  BY DEF ResumeFold, Last, history
<1>3. TypeOK'
  <2>1. epoch' \in 0 .. MaxEpoch
    BY <1>1, <1>2, LifecycleAssumption DEF ResumeFold
  <2>2. trouble' \in 0 .. MaxTrouble
    BY LifecycleAssumption DEF ResumeFold, SpendTrouble, Inv, TypeOK
  <2>3. done' \in SUBSET Nodes /\ target' \in Nodes \cup {0}
    BY DEF ResumeFold, CompletedIn
  <2> QED
    BY <2>1, <2>2, <2>3 DEF ResumeFold, Inv, TypeOK, control, walker, history
<1>4. LogSound' /\ CompletedPrefix'
  BY <1>2, QuietKeepsLog DEF Inv
<1>5. DriverAt'
  BY <1>1, <1>2 DEF ResumeFold, Inv, DriverAt, walker, Walking
<1>6. Requests'
  BY <1>1, <1>2 DEF ResumeFold, Inv, Requests, walker, Walking
<1>7. DetectedRequestJournaled'
  BY <1>2, DebtsPaid DEF ResumeFold, Inv, history, Extends
<1> QED
  BY <1>3, <1>4, <1>5, <1>6, <1>7 DEF Inv

\* the actions of a driver that goes on without an append or a detection
Quiet == \/ ClearPauseCancel \/ StartStep \/ StepBroken \/ WalkDone \/ PollerExit
         \/ AwaitPoller \/ WritePause \/ WriteCancel \/ Interrupt

LEMMA QuietKeeps ==
    ASSUME Inv, Quiet
    PROVE  Inv'
<1>1. /\ UNCHANGED <<events, memory, history>>
      /\ pc' = pc \/ pc' # "idle"
      /\ Last' = Last
  BY DEF Quiet, ClearPauseCancel, StartStep, StepBroken, WalkDone, PollerExit, AwaitPoller,
         WritePause, WriteCancel, Interrupt, Last, history, memory
<1>2. TypeOK'
  <2>0. trouble' = trouble \/ (trouble > 0 /\ trouble' = trouble - 1)
    BY DEF Quiet, ClearPauseCancel, StartStep, StepBroken, WalkDone, PollerExit, AwaitPoller,
           WritePause, WriteCancel, Interrupt, SpendTrouble
  <2>1. trouble' \in 0 .. MaxTrouble
    BY <2>0, LifecycleAssumption DEF Inv, TypeOK
  <2>2. {pauseFile', cancelFile', paused', cancelled', ctxDone', polling'} \subseteq BOOLEAN
    BY DEF Quiet, ClearPauseCancel, StartStep, StepBroken, WalkDone, PollerExit, AwaitPoller,
           WritePause, WriteCancel, Interrupt, Inv, TypeOK, control, memory, walker, writeControlJSON
  <2>3. /\ pc' \in Walking \cup {"idle", "res.clear", "res.append", "res.rerun"}
        /\ outcome' \in Failures \cup {"ok", "internal", "none"}
    BY DEF Quiet, ClearPauseCancel, StartStep, StepBroken, WalkDone, PollerExit, AwaitPoller,
           WritePause, WriteCancel, Interrupt, Inv, TypeOK, walker, Walking
  <2> QED
    BY <1>1, <2>1, <2>2, <2>3 DEF Inv, TypeOK, memory, history
<1>3. LogSound' /\ CompletedPrefix'
  BY <1>1, QuietKeepsLog DEF Inv, history
<1>4. DriverAt'
  <2>1. CASE ClearPauseCancel
    BY <1>1, <2>1 DEF ClearPauseCancel, Inv, DriverAt, walker, memory, Walking
  <2>2. CASE StartStep
    BY <1>1, <2>2 DEF StartStep, Inv, DriverAt, walker, memory, Walking
  <2>3. CASE StepBroken
    BY <1>1, <2>3 DEF StepBroken, Inv, DriverAt, walker, memory, Walking
  <2>4. CASE WalkDone
    BY <1>1, <2>4 DEF WalkDone, Inv, DriverAt, walker, memory, Walking
  <2>5. CASE PollerExit
    BY <1>1, <2>5 DEF PollerExit, Inv, DriverAt, walker, memory, Walking
  <2>6. CASE AwaitPoller
    BY <1>1, <2>6 DEF AwaitPoller, Inv, DriverAt, walker, memory, Walking
  <2>7. CASE WritePause
    BY <1>1, <2>7 DEF WritePause, Inv, DriverAt, walker, memory, Walking
  <2>8. CASE WriteCancel
    BY <1>1, <2>8 DEF WriteCancel, Inv, DriverAt, walker, memory, Walking
  <2>9. CASE Interrupt
    BY <1>1, <2>9 DEF Interrupt, Inv, DriverAt, walker, memory, Walking
  <2> QED
    BY <2>1, <2>2, <2>3, <2>4, <2>5, <2>6, <2>7, <2>8, <2>9 DEF Quiet
<1>5. Requests'
  BY <1>1 DEF Quiet, ClearPauseCancel, StartStep, StepBroken, WalkDone, PollerExit, AwaitPoller,
           WritePause, WriteCancel, Interrupt, Inv, Requests, walker, memory, history, Walking
<1>6. DetectedRequestJournaled'
  BY <1>1, DebtsStay DEF Inv, history, memory, Extends
<1> QED
  BY <1>2, <1>3, <1>4, <1>5, <1>6 DEF Inv

LEMMA PollKeeps ==
    ASSUME Inv, PollControls
    PROVE  Inv'
<1>1. /\ UNCHANGED <<events, pauseFile, cancelFile, pc, epoch, target, done, outcome, killed, trouble>>
      /\ detected \subseteq detected'
      /\ pc \in Walking
      /\ Last' = Last
  BY DEF PollControls, Inv, DriverAt, Last, control
<1>2. PICK r \in {"pause", "cancel"} :
           /\ detected' = detected \cup {<<epoch, r>>}
           /\ r = "cancel" => cancelled' = TRUE /\ paused' = paused
           /\ r = "pause" => paused' = TRUE /\ cancelled' = cancelled
  BY DEF PollControls
<1>3. epoch \in 0 .. MaxEpoch /\ epoch \in Nat /\ Last.epoch = epoch
  BY <1>1, LifecycleAssumption DEF Inv, TypeOK, DriverAt
<1>3a. events # <<>>
  BY <1>1 DEF Inv, DriverAt, Walking
<1>4. TypeOK'
  <2>1. detected' \in SUBSET ((0 .. MaxEpoch) \X {"pause", "cancel"})
    BY <1>2, <1>3 DEF Inv, TypeOK
  <2>2. {paused', cancelled', ctxDone', polling'} \subseteq BOOLEAN
    BY <1>2 DEF PollControls, Inv, TypeOK
  <2> QED
    BY <1>1, <2>1, <2>2 DEF Inv, TypeOK
<1>5. LogSound' /\ CompletedPrefix'
  BY <1>1, QuietKeepsLog DEF Inv
<1>6. DriverAt'
  BY <1>1 DEF PollControls, Inv, DriverAt, Walking
<1>7. Requests'
  <2>1. \A d \in detected' : d[1] <= Last.epoch
    BY <1>2, <1>3 DEF Inv, Requests
  <2>2. pc # "res.rerun" /\ pc # "idle"
    BY <1>1 DEF Walking
  <2> QED
    BY <1>1, <1>2, <1>3a, <2>1, <2>2 DEF Inv, Requests
<1>8. DetectedRequestJournaled'
  <2> SUFFICES ASSUME NEW d \in detected'
               PROVE  Answered(d)' \/ (d[1] = epoch' /\ pc' # "idle")
    BY DEF DetectedRequestJournaled, Answered
  <2>1. CASE d \in detected
    <3>1. Answered(d) \/ (d[1] = epoch /\ pc # "idle")
      BY <2>1 DEF Inv, DetectedRequestJournaled, Answered
    <3>2. Answered(d) => Answered(d)'
      BY <1>1, AnswersStay DEF Inv, Extends
    <3> QED
      BY <1>1, <3>1, <3>2
  <2>2. CASE d = <<epoch, r>>
    BY <1>1, <2>2 DEF Walking
  <2> QED
    BY <1>2, <2>1, <2>2
<1> QED
  BY <1>4, <1>5, <1>6, <1>7, <1>8 DEF Inv

\* the driver is gone without a record: refused, or killed
LEMMA GoneKeeps ==
    ASSUME Inv, ResumeAbort \/ Crash
    PROVE  Inv'
<1>1. UNCHANGED <<events, pauseFile, cancelFile, epoch, detected>> /\ Gone /\ Last' = Last /\ SpendTrouble
  BY DEF ResumeAbort, Crash, Gone, control, history, Last
<1>2. TypeOK'
  <2>1. trouble' \in 0 .. MaxTrouble
    BY <1>1, LifecycleAssumption DEF SpendTrouble, Inv, TypeOK
  <2>2. killed' \in SUBSET (0 .. MaxEpoch)
    BY DEF ResumeAbort, Crash, history, Inv, TypeOK
  <2> QED
    BY <1>1, <2>1, <2>2 DEF Gone, Inv, TypeOK
<1>3. LogSound' /\ CompletedPrefix'
  BY <1>1, QuietKeepsLog DEF Inv
<1>4. DriverAt'
  BY <1>1 DEF Gone, Inv, DriverAt, Walking
<1>5. Requests'
  BY <1>1 DEF Gone, Inv, Requests, Walking
<1>6. DetectedRequestJournaled'
  <2>1. CASE ResumeAbort
    <3>1. pc \in {"res.clear", "res.append"} /\ killed' = killed
      BY <2>1 DEF ResumeAbort, history
    <3>2. events # <<>> /\ epoch = Last.epoch + 1 /\ Last.epoch \in Nat
      BY <3>1, LastTyped DEF Inv, DriverAt
    <3>3. ASSUME NEW d \in detected
          PROVE  d[1] # epoch
      <4>1. d[1] <= Last.epoch /\ d[1] \in Nat
        BY LifecycleAssumption DEF Inv, Requests, TypeOK
      <4> QED
        BY <4>1, <3>2
    <3> QED
      BY <1>1, <3>1, <3>3, DebtsPaid DEF Inv, Extends
  <2>2. CASE Crash
    <3>1. killed' = killed \cup {epoch}
      BY <2>2 DEF Crash
    <3>2. ASSUME NEW d \in detected, d[1] = epoch
          PROVE  Answered(d)'
      BY <3>1, <3>2 DEF Answered
    <3> QED
      BY <1>1, <3>1, <3>2, DebtsPaid DEF Inv, Extends
  <2> QED
    BY <2>1, <2>2
<1> QED
  BY <1>2, <1>3, <1>4, <1>5, <1>6 DEF Inv

-----------------------------------------------------------------------------
(* The frontier of the walk.                                               *)

LEMMA LeastExists ==
    ASSUME NEW T \in SUBSET Nat, T # {}
    PROVE  \E n \in T : \A m \in T : n <= m
<1> DEFINE R == OpToRel(<, Nat)
<1>1. \A m, n \in Nat : <<m, n>> \in R <=> m < n
  BY DEF OpToRel
<1>2. IsWellFoundedOn(R, Nat)
  BY NatLessThanWellFounded
<1> HIDE DEF R
<1>3. PICK n \in T : \A m \in T : ~(<<m, n>> \in R)
  BY <1>2, WFMin
<1>4. ASSUME NEW m \in T
      PROVE  n <= m
  <2>1. m \in Nat /\ n \in Nat /\ ~(m < n)
    BY <1>1, <1>3
  <2> QED
    BY <2>1
<1> QED
  BY <1>4

LEMMA FrontierIsFirst ==
    ASSUME TypeOK, done # Nodes
    PROVE  Frontier \in Nodes \ done /\ \A m \in Nodes \ done : Frontier <= m
<1> DEFINE Least(n) == \A m \in Nodes \ done : n <= m
<1>0. Nodes \subseteq Nat
  BY LifecycleAssumption DEF Nodes
<1>1. Nodes \ done # {} /\ Nodes \ done \in SUBSET Nat
  BY <1>0 DEF TypeOK
<1>2. PICK n \in Nodes \ done : Least(n)
  BY <1>1, LeastExists
<1>4. Frontier = CHOOSE k \in Nodes \ done : Least(k)
  BY DEF Frontier
<1> HIDE DEF Least
<1>5. Frontier \in Nodes \ done /\ Least(Frontier)
  BY <1>2, <1>4
<1> QED
  BY <1>5 DEF Least

-----------------------------------------------------------------------------
(* The actions that append.                                                *)

LEMMA LastAppended ==
    ASSUME TypeOK, NEW t \in EventTypes, NEW p \in SUBSET Nodes, NEW s \in Statuses, Log(t, p, s)
    PROVE  Last'.epoch = epoch /\ Last'.type = t
<1>1. /\ Len(events') = Len(events) + 1
      /\ events'[Len(events) + 1].type = t
      /\ events'[Len(events) + 1].epoch = epoch
  BY LogEffect
<1> QED
  BY <1>1 DEF Last

\* a record that leaves the completed steps alone
LEMMA PlainAppend ==
    ASSUME Inv, NEW t \in EventTypes \ {"node.completed", "node.invalidated"}, NEW p \in SUBSET Nodes,
           NEW s \in Statuses, Log(t, p, s), MayAppend(t, s), detected' = detected
    PROVE  /\ events' \in Seq(Event)
           /\ events' # <<>>
           /\ Extends
           /\ LogSound'
           /\ CompletedPrefix'
           /\ CompletedIn(events') = CompletedIn(events)
           /\ Last'.epoch = epoch
           /\ Last'.type = t
           /\ OfType(events, "run.cancelled") # {} => OfType(events', "run.cancelled") # {}
<1>1. TypeOK /\ LogSound /\ t \in EventTypes
  BY DEF Inv
<1>2. CompletedIn(events') = CompletedIn(events) /\ events' \in Seq(Event) /\ events' # <<>>
  BY <1>1, LogEffect
<1>3. Extends
  BY <1>1 DEF Extends
<1>4. LogSound'
  BY <1>1, AppendKeepsLog
<1>5. CompletedPrefix'
  BY <1>2 DEF CompletedPrefix, Inv
<1>6. Last'.epoch = epoch /\ Last'.type = t
  BY <1>1, LastAppended
<1>7. \A i \in OfType(events, "run.cancelled") : i \in OfType(events', "run.cancelled")
  BY <1>1, <1>3, ExtendsEffect
<1> QED
  BY <1>2, <1>3, <1>4, <1>5, <1>6, <1>7

LEMMA RunStartKeeps ==
    ASSUME Inv, RunStart
    PROVE  Inv'
<1>1. /\ events = <<>>
      /\ pc = "idle"
      /\ done = {} /\ outcome = "none" /\ detected = {} /\ paused = FALSE /\ cancelled = FALSE
      /\ pc' = "walk" /\ polling' = TRUE
      /\ UNCHANGED <<pauseFile, cancelFile, epoch, target, done, paused, cancelled, ctxDone, outcome,
                     detected, killed, trouble>>
  BY DEF RunStart, StartWalk, Inv, DriverAt, Requests, TypeOK, control, memory, history
<1>2. Log("run.started", {}, "none") /\ MayAppend("run.started", "none")
  BY <1>1 DEF RunStart, MayAppend
<1>3. "run.started" \in EventTypes \ {"node.completed", "node.invalidated"} /\ "none" \in Statuses
      /\ "run.started" \notin Verdicts
  BY DEF EventTypes, Verdicts, Statuses
<1>4. /\ events' \in Seq(Event)
      /\ events' # <<>>
      /\ Extends
      /\ LogSound'
      /\ CompletedPrefix'
      /\ CompletedIn(events') = CompletedIn(events)
      /\ Last'.epoch = epoch
      /\ Last'.type = "run.started"
  BY <1>1, <1>2, <1>3, PlainAppend
<1>5. TypeOK'
  BY <1>1, <1>4 DEF Inv, TypeOK, Walking
<1>6. CompletedIn(events) = {}
  BY <1>1 DEF CompletedIn, OfType
<1>7. epoch \in Nat /\ epoch <= epoch
  BY LifecycleAssumption DEF Inv, TypeOK
<1>8. DriverAt'
  BY <1>1, <1>3, <1>4, <1>6, <1>7 DEF DriverAt, Walking
<1>9. Requests'
  BY <1>1 DEF Requests, Walking
<1>10. DetectedRequestJournaled'
  BY <1>1 DEF DetectedRequestJournaled
<1> QED
  BY <1>4, <1>5, <1>8, <1>9, <1>10 DEF Inv

LEMMA AppendRunResumedKeeps ==
    ASSUME Inv, AppendRunResumed
    PROVE  Inv'
<1>1. /\ pc = "res.append" /\ pc' = "res.rerun"
      /\ UNCHANGED <<pauseFile, cancelFile, epoch, target, done, paused, cancelled, ctxDone, polling, outcome,
                     detected, killed, trouble>>
  BY DEF AppendRunResumed, control, memory, walker, history
<1>2. events # <<>> /\ epoch = Last.epoch + 1 /\ Last.epoch \in Nat /\ epoch \in Nat
  BY <1>1, LastTyped DEF Inv, DriverAt
<1>3. Log("run.resumed", {}, "none") /\ MayAppend("run.resumed", "none")
  BY <1>2 DEF AppendRunResumed, MayAppend
<1>4. "run.resumed" \in EventTypes \ {"node.completed", "node.invalidated"} /\ "none" \in Statuses
      /\ "run.resumed" \notin Verdicts
  BY DEF EventTypes, Verdicts, Statuses
<1>5. /\ events' \in Seq(Event)
      /\ events' # <<>>
      /\ Extends
      /\ LogSound'
      /\ CompletedPrefix'
      /\ CompletedIn(events') = CompletedIn(events)
      /\ Last'.epoch = epoch
      /\ Last'.type = "run.resumed"
      /\ OfType(events, "run.cancelled") # {} => OfType(events', "run.cancelled") # {}
  BY <1>1, <1>3, <1>4, PlainAppend
<1>6. TypeOK'
  BY <1>1, <1>5 DEF Inv, TypeOK
<1>7. DriverAt'
  BY <1>1, <1>2, <1>4, <1>5 DEF Inv, DriverAt, Walking
<1>8. Requests'
  <2>1. ASSUME NEW d \in detected
        PROVE  d[1] < epoch /\ d[1] <= epoch
    <3>1. d[1] <= Last.epoch /\ d[1] \in Nat
      BY LifecycleAssumption DEF Inv, Requests, TypeOK
    <3> QED
      BY <3>1, <1>2
  <2> QED
    BY <2>1, <1>1, <1>5 DEF Inv, Requests, Walking
<1>9. DetectedRequestJournaled'
  BY <1>1, <1>5, DebtsStay DEF Inv
<1> QED
  BY <1>5, <1>6, <1>7, <1>8, <1>9 DEF Inv

\* a failed step: node.failed, and the walk is over
LEMMA FailKeeps ==
    ASSUME Inv, NEW status \in Failures, FailStep(status) \/ (StepInterrupted /\ status = "retryable_failure")
    PROVE  Inv'
<1>1. /\ pc = "step" /\ pc' = "walked" /\ outcome' = status
      /\ Log("node.failed", {Frontier}, status)
      /\ UNCHANGED <<pauseFile, cancelFile, epoch, target, done, paused, cancelled, ctxDone, polling,
                     detected, killed>>
      /\ trouble' = trouble \/ (trouble > 0 /\ trouble' = trouble - 1)
  BY DEF FailStep, StepInterrupted, SpendTrouble, control, memory, history
<1>2. events # <<>> /\ Last.epoch = epoch /\ Last.type \notin Verdicts /\ epoch \in Nat /\ done # Nodes
      /\ done = CompletedIn(events)
  BY <1>1, LifecycleAssumption DEF Inv, DriverAt, Walking, TypeOK
<1>3. {Frontier} \in SUBSET Nodes
  BY <1>2, FrontierIsFirst DEF Inv
<1>4. MayAppend("node.failed", status)
  BY <1>2 DEF MayAppend
<1>5. "node.failed" \in EventTypes \ {"node.completed", "node.invalidated"} /\ status \in Statuses
      /\ "node.failed" \notin Verdicts /\ status # "ok"
  BY DEF EventTypes, Verdicts, Statuses, Failures
<1>6. /\ events' \in Seq(Event)
      /\ events' # <<>>
      /\ Extends
      /\ LogSound'
      /\ CompletedPrefix'
      /\ CompletedIn(events') = CompletedIn(events)
      /\ Last'.epoch = epoch
      /\ Last'.type = "node.failed"
      /\ OfType(events, "run.cancelled") # {} => OfType(events', "run.cancelled") # {}
  BY <1>1, <1>3, <1>4, <1>5, PlainAppend
<1>7. TypeOK'
  <2>1. trouble' \in 0 .. MaxTrouble
    BY <1>1, LifecycleAssumption DEF Inv, TypeOK
  <2> QED
    BY <1>1, <1>6, <2>1 DEF Inv, TypeOK, Walking
<1>8. DriverAt'
  BY <1>1, <1>2, <1>5, <1>6 DEF Inv, DriverAt, Walking
<1>9. Requests'
  BY <1>1, <1>2, <1>6 DEF Inv, Requests, Walking
<1>10. DetectedRequestJournaled'
  BY <1>1, <1>6, DebtsStay DEF Inv
<1> QED
  BY <1>6, <1>7, <1>8, <1>9, <1>10 DEF Inv

\* a record that changes the completed steps, and with it the driver's own copy
LEMMA CompletionAppend ==
    ASSUME Inv, NEW t \in {"node.completed", "node.invalidated"}, NEW p \in SUBSET Nodes,
           NEW s \in Statuses, Log(t, p, s), pc \in {"step", "res.rerun"}, detected' = detected
    PROVE  /\ events' \in Seq(Event)
           /\ events' # <<>>
           /\ Extends
           /\ LogSound'
           /\ t = "node.completed" => CompletedIn(events') = done \cup p
           /\ t = "node.invalidated" => CompletedIn(events') = done \ p
           /\ Last'.epoch = epoch
           /\ Last'.type = t
           /\ Last'.type \notin Verdicts
           /\ OfType(events, "run.cancelled") # {} => OfType(events', "run.cancelled") # {}
<1>1. /\ TypeOK /\ LogSound
      /\ t \in EventTypes /\ t \notin Verdicts
      /\ t \notin {"run.resumed", "node.failed", "run.paused", "run.cancelled", "run.finished"}
  BY DEF Inv, EventTypes, Verdicts
<1>2. Last.epoch = epoch /\ Last.type \notin Verdicts /\ epoch \in Nat /\ done = CompletedIn(events)
  BY LifecycleAssumption DEF Inv, DriverAt, Walking, TypeOK
<1>3. MayAppend(t, s)
  BY <1>1, <1>2 DEF MayAppend
<1>4. /\ events' \in Seq(Event) /\ events' # <<>>
      /\ t = "node.completed" => CompletedIn(events') = CompletedIn(events) \cup p
      /\ t = "node.invalidated" => CompletedIn(events') = CompletedIn(events) \ p
  BY <1>1, LogEffect
<1>5. Extends
  BY <1>1 DEF Extends
<1>6. LogSound'
  BY <1>1, <1>3, AppendKeepsLog
<1>7. Last'.epoch = epoch /\ Last'.type = t
  BY <1>1, LastAppended
<1>8. \A i \in OfType(events, "run.cancelled") : i \in OfType(events', "run.cancelled")
  BY <1>1, <1>5, ExtendsEffect
<1> QED
  BY <1>1, <1>2, <1>4, <1>5, <1>6, <1>7, <1>8

LEMMA CommitKeeps ==
    ASSUME Inv, CommitStep
    PROVE  Inv'
<1>1. /\ pc = "step" /\ pc' = "walk" /\ done' = done \cup {Frontier}
      /\ Log("node.completed", {Frontier}, "ok")
      /\ UNCHANGED <<pauseFile, cancelFile, epoch, target, paused, cancelled, ctxDone, polling, outcome,
                     detected, killed, trouble>>
  BY DEF CommitStep, control, walker, history
<1>2. done # Nodes /\ epoch \in Nat /\ done = CompletedIn(events) /\ done \in SUBSET Nodes /\ Last.epoch = epoch
  BY <1>1, LifecycleAssumption DEF Inv, DriverAt, Walking, TypeOK
<1>3. Frontier \in Nodes \ done /\ \A m \in Nodes \ done : Frontier <= m
  BY <1>2, FrontierIsFirst DEF Inv
<1>4. "ok" \in Statuses /\ {Frontier} \in SUBSET Nodes
  BY <1>3 DEF Statuses
<1>5. /\ events' \in Seq(Event)
      /\ events' # <<>>
      /\ Extends
      /\ LogSound'
      /\ CompletedIn(events') = done'
      /\ Last'.epoch = epoch
      /\ Last'.type \notin Verdicts
      /\ OfType(events, "run.cancelled") # {} => OfType(events', "run.cancelled") # {}
  BY <1>1, <1>4, CompletionAppend
<1>6. TypeOK'
  BY <1>1, <1>2, <1>3, <1>5 DEF Inv, TypeOK, Walking
<1>7. CompletedPrefix'
  <2> SUFFICES ASSUME NEW n \in done', NEW m \in 1 .. n
               PROVE  m \in done'
    BY <1>5 DEF CompletedPrefix
  <2>1. n \in Nodes /\ n \in 1 .. N /\ N \in Nat
    BY <1>1, <1>2, <1>3, LifecycleAssumption DEF Nodes
  <2>2. m \in Nodes
    BY <2>1 DEF Nodes
  <2>3. CASE n \in done
    BY <2>3, <1>1, <1>2 DEF Inv, CompletedPrefix
  <2>4. CASE n = Frontier
    <3>1. CASE m = Frontier
      BY <3>1, <1>1
    <3>2. CASE m # Frontier
      <4>1. ~(Frontier <= m)
        BY <2>1, <2>4, <3>2
      <4> QED
        BY <4>1, <2>2, <1>1, <1>3
    <3> QED
      BY <3>1, <3>2
  <2> QED
    BY <2>3, <2>4, <1>1
<1>8. DriverAt'
  BY <1>1, <1>2, <1>5 DEF Inv, DriverAt, Walking
<1>9. Requests'
  BY <1>1, <1>2, <1>5 DEF Inv, Requests, Walking
<1>10. DetectedRequestJournaled'
  BY <1>1, <1>5, DebtsStay DEF Inv
<1> QED
  BY <1>5, <1>6, <1>7, <1>8, <1>9, <1>10 DEF Inv

LEMMA ApplyRerunKeeps ==
    ASSUME Inv, ApplyRerun
    PROVE  Inv'
<1> DEFINE R == ComputeRerunInvalidation
<1>1. /\ pc = "res.rerun" /\ pc' = "walk" /\ done' = done \ R /\ polling' = TRUE
      /\ UNCHANGED <<pauseFile, cancelFile, epoch, target, paused, cancelled, ctxDone, outcome,
                     detected, killed, trouble>>
  BY DEF ApplyRerun, StartWalk, control, history
<1>2. epoch \in Nat /\ done = CompletedIn(events) /\ done \in SUBSET Nodes /\ Last.epoch = epoch /\ events # <<>>
      /\ Last.type \notin Verdicts /\ outcome # "ok"
  BY <1>1, LifecycleAssumption DEF Inv, DriverAt, Walking, TypeOK
<1>3. R \in SUBSET Nodes /\ "none" \in Statuses
  BY <1>2 DEF ComputeRerunInvalidation, Statuses
<1>4. /\ events' \in Seq(Event)
      /\ events' # <<>>
      /\ Extends
      /\ LogSound'
      /\ CompletedIn(events') = done'
      /\ Last'.epoch = epoch
      /\ Last'.type \notin Verdicts
      /\ OfType(events, "run.cancelled") # {} => OfType(events', "run.cancelled") # {}
  <2>1. CASE R = {}
    <3>1. events' = events /\ done' = done
      BY <2>1, <1>1 DEF ApplyRerun
    <3>2. LogSound'
      BY <3>1, <1>1, QuietKeepsLog DEF Inv
    <3> QED
      BY <3>1, <3>2, <1>2 DEF Inv, TypeOK, Extends, Last
  <2>2. CASE R # {}
    <3>1. Log("node.invalidated", R, "none")
      BY <2>2 DEF ApplyRerun
    <3> HIDE DEF R
    <3> QED
      BY <3>1, <1>1, <1>3, CompletionAppend
  <2> QED
    BY <2>1, <2>2
<1>5. TypeOK'
  BY <1>1, <1>2, <1>4 DEF Inv, TypeOK, Walking
<1>6. CompletedPrefix'
  <2> SUFFICES ASSUME NEW n \in done', NEW m \in 1 .. n
               PROVE  m \in done'
    BY <1>4 DEF CompletedPrefix
  <2>1. n \in done /\ n \notin R
    BY <1>1
  <2>2. n \in 1 .. N /\ N \in Nat /\ m \in Nat /\ m <= n /\ n \in Nat
    BY <2>1, <1>2, LifecycleAssumption DEF Nodes
  <2>3. m \in done
    BY <2>1, <1>2 DEF Inv, CompletedPrefix
  <2>4. m \notin R
    <3>1. CASE target = 0
      BY <3>1 DEF ComputeRerunInvalidation
    <3>2. CASE target # 0
      <4>1. target \in Nat
        BY LifecycleAssumption DEF Inv, TypeOK, Nodes
      <4>2. ~(n >= target)
        BY <2>1, <3>2 DEF ComputeRerunInvalidation
      <4>3. ~(m >= target)
        BY <4>1, <4>2, <2>2
      <4> QED
        BY <4>3 DEF ComputeRerunInvalidation
    <3> QED
      BY <3>1, <3>2
  <2> QED
    BY <2>3, <2>4, <1>1
<1> HIDE DEF R
<1>7. DriverAt'
  BY <1>1, <1>2, <1>4 DEF DriverAt, Walking
<1>8. Requests'
  <2>1. \A d \in detected : d[1] < epoch /\ d[1] <= Last.epoch
    BY <1>1 DEF Inv, Requests
  <2>2. <<epoch, "cancel">> \notin detected /\ <<epoch, "pause">> \notin detected
    BY <2>1, <1>2
  <2> QED
    BY <1>1, <1>2, <1>4, <2>1, <2>2 DEF Inv, Requests, Walking
<1>9. DetectedRequestJournaled'
  BY <1>1, <1>4, DebtsStay DEF Inv
<1> QED
  BY <1>4, <1>5, <1>6, <1>7, <1>8, <1>9 DEF Inv

\* the driver ends, with its verdict or after an internal error
LEMMA EndKeeps ==
    ASSUME Inv, AppendRunCancelled \/ AppendRunPaused \/ FinishRun
    PROVE  Inv'
<1>1. /\ pc = "verdict" /\ Gone
      /\ UNCHANGED <<pauseFile, cancelFile, epoch, detected, killed, trouble>>
  BY DEF AppendRunCancelled, AppendRunPaused, FinishRun, Gone, control, history
<1>2. events # <<>> /\ Last.epoch = epoch /\ Last.type \notin Verdicts /\ epoch \in Nat
      /\ done = CompletedIn(events)
  BY <1>1, LifecycleAssumption DEF Inv, DriverAt, Walking, TypeOK
<1>3. ASSUME NEW d \in detected, d[1] = epoch
      PROVE  (d[2] = "cancel" /\ cancelled) \/ (d[2] = "pause" /\ paused)
  <2>1. d \in (0 .. MaxEpoch) \X {"pause", "cancel"}
    BY DEF Inv, TypeOK
  <2>2. d = <<epoch, d[2]>> /\ d[2] \in {"pause", "cancel"}
    BY <2>1, <1>3
  <2> QED
    BY <2>2, <1>1 DEF Inv, Requests, Walking
<1>4. ASSUME NEW t \in Verdicts, NEW s \in Statuses, Log(t, {}, s), MayAppend(t, s),
             \A d \in detected : d[1] = epoch =>
                 t = "run.cancelled" \/ (t = "run.paused" /\ d[2] = "pause")
      PROVE  Inv'
  <2>1. t \in EventTypes \ {"node.completed", "node.invalidated"} /\ t \in EventTypes
    BY DEF EventTypes, Verdicts
  <2>2. /\ events' \in Seq(Event)
        /\ events' # <<>>
        /\ Extends
        /\ LogSound'
        /\ CompletedPrefix'
        /\ Last'.epoch = epoch
    BY <1>1, <1>4, <2>1, PlainAppend
  <2>3. TypeOK'
    BY <1>1, <2>2 DEF Inv, TypeOK, Gone
  <2>4. DriverAt'
    BY <1>1, <1>2, <2>2 DEF DriverAt, Gone, Walking
  <2>5. Requests'
    BY <1>1, <1>2, <2>2 DEF Inv, Requests, Gone, Walking
  <2>6. ASSUME NEW d \in detected, d[1] = epoch
        PROVE  Answered(d)'
    <3>1. /\ events'[Len(events) + 1].epoch = epoch
          /\ Len(events) + 1 \in OfType(events', t)
      BY <1>4, <2>1, LogEffect DEF Inv
    <3> QED
      BY <3>1, <2>6, <1>4 DEF Answered
  <2>7. DetectedRequestJournaled'
    BY <1>1, <2>2, <2>6, DebtsPaid DEF Inv
  <2> QED
    BY <2>2, <2>3, <2>4, <2>5, <2>7 DEF Inv
<1>5. Verdicts = {"run.finished", "run.paused", "run.cancelled"} /\ "none" \in Statuses
  BY DEF Verdicts, Statuses
<1>6. CASE AppendRunCancelled
  <2>1. Log("run.cancelled", {}, "none") /\ cancelled
    BY <1>6 DEF AppendRunCancelled
  <2>2. MayAppend("run.cancelled", "none")
    BY <2>1, <1>2 DEF MayAppend, Inv, Requests
  <2> QED
    BY <2>1, <2>2, <1>4, <1>5
<1>7. CASE AppendRunPaused
  <2>1. Log("run.paused", {}, "none") /\ ~cancelled /\ paused
    BY <1>7 DEF AppendRunPaused
  <2>2. MayAppend("run.paused", "none")
    BY <2>1, <1>2 DEF MayAppend, Inv, Requests
  <2> QED
    BY <2>1, <2>2, <1>3, <1>4, <1>5
<1>8. CASE FinishRun
  <2>1. ~cancelled /\ ~paused
    BY <1>8 DEF FinishRun
  <2>2. \A d \in detected : d[1] # epoch
    BY <2>1, <1>3
  <2>3. CASE outcome = "internal"
    <3>1. events' = events /\ Last' = Last
      BY <2>3, <1>8 DEF FinishRun, Last
    <3>2. LogSound' /\ CompletedPrefix'
      BY <3>1, <1>1, QuietKeepsLog DEF Inv
    <3>3. TypeOK'
      BY <1>1, <3>1 DEF Inv, TypeOK, Gone
    <3>4. DriverAt'
      BY <1>1, <1>2, <3>1 DEF DriverAt, Gone, Walking
    <3>5. Requests'
      BY <1>1, <1>2, <3>1 DEF Inv, Requests, Gone, Walking
    <3>6. DetectedRequestJournaled'
      BY <1>1, <3>1, <2>2, DebtsPaid DEF Inv, Extends
    <3> QED
      BY <3>2, <3>3, <3>4, <3>5, <3>6 DEF Inv
  <2>4. CASE outcome # "internal"
    <3>1. Log("run.finished", {}, outcome) /\ outcome \in Statuses
      BY <2>4, <1>8 DEF FinishRun, Inv, TypeOK, Statuses
    <3>2. MayAppend("run.finished", outcome)
      BY <1>2 DEF MayAppend, Inv, DriverAt
    <3> QED
      BY <3>1, <3>2, <2>2, <1>4, <1>5
  <2> QED
    BY <2>3, <2>4
<1> QED
  BY <1>6, <1>7, <1>8

-----------------------------------------------------------------------------
(* The listed status.                                                      *)

\* the first and the last index of a set are what CHOOSE says
LEMMA LeastIsChosen ==
    ASSUME NEW T \in SUBSET Nat, NEW i \in T, \A j \in T : i <= j
    PROVE  (CHOOSE k \in T : \A j \in T : k <= j) = i
<1> DEFINE Least(k) == \A j \in T : k <= j
           c == CHOOSE k \in T : Least(k)
<1>1. c \in T /\ Least(c)
  OBVIOUS
<1>2. c <= i /\ i <= c /\ c \in Nat /\ i \in Nat
  BY <1>1
<1> HIDE DEF c
<1>3. c = i
  BY <1>2
<1> QED
  BY <1>3 DEF c

LEMMA GreatestIsChosen ==
    ASSUME NEW T \in SUBSET Nat, NEW i \in T, \A j \in T : i >= j
    PROVE  (CHOOSE k \in T : \A j \in T : k >= j) = i
<1> DEFINE Greatest(k) == \A j \in T : k >= j
           c == CHOOSE k \in T : Greatest(k)
<1>1. c \in T /\ Greatest(c)
  OBVIOUS
<1>2. c >= i /\ i >= c /\ c \in Nat /\ i \in Nat
  BY <1>1
<1> HIDE DEF c
<1>3. c = i
  BY <1>2
<1> QED
  BY <1>3 DEF c

\* a verdict after which nothing was resumed is the last record
LEMMA UnresumedIsLast ==
    ASSUME TypeOK, LogSound, NEW i \in OfType(events, "run.paused"),
           \A j \in OfType(events, "run.resumed") : j < i
    PROVE  i = Len(events)
<1>1. i \in 1 .. Len(events) /\ events[i].type \in Verdicts /\ Len(events) \in Nat
  BY DEF OfType, Verdicts, TypeOK
<1>2. SUFFICES ASSUME i # Len(events)
               PROVE  FALSE
  OBVIOUS
<1>3. Len(events) \in 1 .. Len(events) /\ i < Len(events)
  BY <1>1, <1>2
<1>4. PICK k \in OfType(events, "run.resumed") : i < k /\ k <= Len(events)
  BY <1>1, <1>3 DEF LogSound, ResumedAfterVerdict
<1>5. k < i /\ k \in 1 .. Len(events)
  BY <1>4, IndexFacts
<1> QED
  BY <1>1, <1>4, <1>5

LEMMA StatusListedHonestly ==
    ASSUME Inv
    PROVE  ListedHonestly
<1> DEFINE ends == OfType(events, "run.cancelled") \cup OfType(events, "run.finished")
           first == CHOOSE i \in ends : \A j \in ends : i <= j
           Named(status) == IF status = "ok" THEN "finished"
                            ELSE IF status = "retryable_failure" THEN "resumable" ELSE "failed"
           Unresumed == \E i \in OfType(events, "run.paused") :
                            \A j \in OfType(events, "run.resumed") : j < i
           Earliest(t) == CHOOSE i \in OfType(events, t) : \A j \in OfType(events, t) : i <= j
           Latest(t) == CHOOSE i \in OfType(events, t) : \A j \in OfType(events, t) : i >= j
           status == DeriveStatus(events)
<1>1. TypeOK /\ LogSound /\ events \in Seq(Event) /\ Len(events) \in Nat
  BY DEF Inv, TypeOK
<1>2. \A t : OfType(events, t) \in SUBSET Nat
  BY DEF OfType
<1>3. status = CASE ends # {} /\ events[first].type = "run.cancelled" -> "cancelled"
                 [] ends # {} /\ events[first].type = "run.finished" -> Named(events[first].status)
                 [] ends = {} /\ events # <<>> /\ events[Len(events)].type = "node.failed"
                       -> Named(events[Len(events)].status)
                 [] ends = {} /\ Unresumed -> "paused"
                 [] OTHER -> "incomplete"
  BY DEF DeriveStatus
<1>4. \A x : Named(x) \notin {"cancelled", "paused", "incomplete"} /\ (Named(x) = "finished" => x = "ok")
  OBVIOUS
<1>5. ends # {} => first \in ends /\ \A j \in ends : first <= j
  <2>1. ends # {} => \E i \in ends : \A j \in ends : i <= j
    BY <1>1 DEF LogSound, FirstEnd, Ends
  <2> QED
    BY <2>1
<1>6. ends \in SUBSET Nat
  BY <1>2
<1>7. ends # {} => events[first].type \in {"run.cancelled", "run.finished"}
  BY <1>5 DEF OfType
<1>8. events # <<>> /\ events[Len(events)].type = "node.failed" => events[Len(events)].status # "ok"
  <2> SUFFICES ASSUME events # <<>>, events[Len(events)].type = "node.failed"
               PROVE  events[Len(events)].status # "ok"
    OBVIOUS
  <2>1. Len(events) \in OfType(events, "node.failed")
    BY <1>1 DEF OfType
  <2> QED
    BY <2>1, <1>1 DEF LogSound, FailuresNamed, Failures
<1>9. Unresumed => events # <<>> /\ events[Len(events)].type = "run.paused"
  <2>1. ASSUME NEW i \in OfType(events, "run.paused"), \A j \in OfType(events, "run.resumed") : j < i
        PROVE  events # <<>> /\ events[Len(events)].type = "run.paused"
    BY <1>1, <2>1, UnresumedIsLast DEF OfType
  <2> QED
    BY <2>1
<1> HIDE DEF first, Named, Unresumed, status
<1>10. /\ status = "finished" => ends # {} /\ events[first].type = "run.finished" /\ events[first].status = "ok"
       /\ status = "cancelled" => ends # {} /\ events[first].type = "run.cancelled"
       /\ status = "paused" => ends = {} /\ Unresumed
       /\ status = "incomplete" => ends = {}
  <2>1. CASE ends # {} /\ events[first].type = "run.cancelled"
    BY <2>1, <1>3
  <2>2. CASE ends # {} /\ events[first].type = "run.finished"
    <3>1. status = Named(events[first].status)
      BY <2>2, <1>3
    <3> QED
      BY <3>1, <2>2, <1>4
  <2>3. CASE ends = {} /\ events # <<>> /\ events[Len(events)].type = "node.failed"
    <3>1. ~Unresumed
      BY <2>3, <1>9
    <3>2. status = Named(events[Len(events)].status)
      BY <2>3, <3>1, <1>3
    <3> QED
      BY <3>2, <2>3, <1>4, <1>8
  <2>4. CASE ends = {} /\ ~(events # <<>> /\ events[Len(events)].type = "node.failed")
    BY <2>4, <1>3
  <2> QED
    BY <2>1, <2>2, <2>3, <2>4, <1>7
<1>11. ASSUME status = "finished"
       PROVE  CompletedIn(SubSeq(events, 1, Earliest("run.finished"))) = Nodes
  <2>1. first \in OfType(events, "run.finished") /\ events[first].status = "ok"
    BY <1>5, <1>10, <1>11 DEF OfType
  <2>2. \A j \in OfType(events, "run.finished") : first <= j
    BY <1>5, <1>10, <1>11
  <2>3. Earliest("run.finished") = first
    BY <2>1, <2>2, <1>2, LeastIsChosen
  <2>4. CompletedIn(SubSeq(events, 1, first)) = Nodes
    BY <2>1, <1>1 DEF LogSound, FinishedOkComplete
  <2> QED
    BY <2>3, <2>4
<1>12. ASSUME status = "cancelled"
       PROVE  <<events[Earliest("run.cancelled")].epoch, "cancel">> \in detected
  <2>1. first \in OfType(events, "run.cancelled")
    BY <1>5, <1>10, <1>12 DEF OfType
  <2>2. PICK i \in OfType(events, "run.cancelled") :
               /\ \A j \in OfType(events, "run.cancelled") : i <= j
               /\ <<events[i].epoch, "cancel">> \in detected
    BY <2>1, <1>1 DEF LogSound, FirstCancelAsked
  <2>3. Earliest("run.cancelled") = i
    BY <2>2, <1>2, LeastIsChosen
  <2> QED
    BY <2>2, <2>3
<1>13. ASSUME status = "paused"
       PROVE  /\ <<events[Latest("run.paused")].epoch, "pause">> \in detected
              /\ \A i \in OfType(events, "node.completed") : i < Latest("run.paused")
  <2>1. PICK i \in OfType(events, "run.paused") : \A j \in OfType(events, "run.resumed") : j < i
    BY <1>10, <1>13 DEF Unresumed
  <2>2. i = Len(events)
    BY <2>1, <1>1, UnresumedIsLast
  <2>3. \A j \in OfType(events, "run.paused") : i >= j
    BY <2>2, <1>1 DEF OfType
  <2>4. Latest("run.paused") = i
    BY <2>3, <1>2, GreatestIsChosen
  <2>5. <<events[i].epoch, "pause">> \in detected
    BY <1>1 DEF LogSound, PausesAsked
  <2>6. ASSUME NEW j \in OfType(events, "node.completed")
        PROVE  j < i
    <3>1. j \in 1 .. Len(events) /\ j # i
      BY <2>6 DEF OfType
    <3> QED
      BY <3>1, <2>2, <1>1
  <2> QED
    BY <2>4, <2>5, <2>6
<1>14. ASSUME status \in {"paused", "incomplete"}
       PROVE  Admits(events)
  BY <1>10, <1>14 DEF Admits
<1> QED
  BY <1>11, <1>12, <1>13, <1>14 DEF ListedHonestly, status

-----------------------------------------------------------------------------
(* The theorem.                                                            *)

LEMMA InitInv ==
    ASSUME Init
    PROVE  Inv
<1>1. TypeOK
  <2>1. events \in Seq(Event) /\ 0 \in 0 .. MaxEpoch /\ MaxTrouble \in 0 .. MaxTrouble
    BY LifecycleAssumption DEF Init
  <2> QED
    BY <2>1 DEF Init, TypeOK, Walking
<1>2. \A t : OfType(events, t) = {}
  BY DEF Init, OfType
<1>3. CompletedPrefix
  BY <1>2 DEF CompletedPrefix, CompletedIn
<1>4. LogSound
  BY <1>2 DEF Init, LogSound, OneVerdictPerEpoch, FinishedOkComplete, ResumedAfterVerdict, FailuresNamed,
              FirstEnd, Ends, FirstCancelAsked, PausesAsked
<1>5. DriverAt
  BY DEF Init, DriverAt, Walking
<1>6. Requests
  BY DEF Init, Requests, Walking
<1>7. DetectedRequestJournaled
  BY DEF Init, DetectedRequestJournaled
<1> QED
  BY <1>1, <1>3, <1>4, <1>5, <1>6, <1>7 DEF Inv

LEMMA StutterKeeps ==
    ASSUME Inv, UNCHANGED vars
    PROVE  Inv'
<1>1. TypeOK' /\ CompletedPrefix'
  BY DEF Inv, vars, TypeOK, CompletedPrefix
<1>2. OneVerdictPerEpoch' /\ FinishedOkComplete'
  BY DEF Inv, vars, LogSound, OneVerdictPerEpoch, FinishedOkComplete
<1>3. ResumedAfterVerdict' /\ FailuresNamed'
  BY DEF Inv, vars, LogSound, ResumedAfterVerdict, FailuresNamed
<1>4. FirstEnd' /\ FirstCancelAsked' /\ PausesAsked'
  BY DEF Inv, vars, LogSound, FirstEnd, FirstCancelAsked, PausesAsked
<1>5. DriverAt'
  BY DEF Inv, vars, DriverAt, Last
<1>6. Requests' /\ DetectedRequestJournaled'
  BY DEF Inv, vars, Requests, DetectedRequestJournaled, Last
<1> QED
  BY <1>1, <1>2, <1>3, <1>4, <1>5, <1>6 DEF Inv, LogSound

LEMMA NextKeeps ==
    ASSUME Inv, [Next]_vars
    PROVE  Inv'
<1>1. CASE RunStart
  BY <1>1, RunStartKeeps
<1>2. CASE Resume
  BY <1>2, ResumeKeeps DEF Resume
<1>3. CASE Quiet
  BY <1>3, QuietKeeps
<1>4. CASE PollControls
  BY <1>4, PollKeeps
<1>5. CASE ResumeAbort \/ Crash
  BY <1>5, GoneKeeps
<1>6. CASE AppendRunResumed
  BY <1>6, AppendRunResumedKeeps
<1>7. CASE ApplyRerun
  BY <1>7, ApplyRerunKeeps
<1>8. CASE CommitStep
  BY <1>8, CommitKeeps
<1>9. CASE \E status \in Failures : FailStep(status)
  BY <1>9, FailKeeps
<1>10. CASE StepInterrupted
  BY <1>10, FailKeeps DEF Failures
<1>11. CASE AppendRunCancelled \/ AppendRunPaused \/ FinishRun
  BY <1>11, EndKeeps
<1>12. CASE UNCHANGED vars
  BY <1>12, StutterKeeps
<1> QED
  BY <1>1, <1>2, <1>3, <1>4, <1>5, <1>6, <1>7, <1>8, <1>9, <1>10, <1>11, <1>12
  DEF Next, Drive, Poll, Quiet

LEMMA InvGivesHonest ==
    ASSUME Inv
    PROVE  RunHonest
<1>1. MirrorsFold
  BY DEF Inv, DriverAt, MirrorsFold, Walking
<1>2. ListedHonestly
  BY StatusListedHonestly
<1> QED
  BY <1>1, <1>2 DEF Inv, LogSound, RunHonest

(***************************************************************************)
(* Whatever crashes, is refused, paused, cancelled, interrupted or re-run, *)
(* at every moment: the driver's Completed set is what a fold of the log   *)
(* rebuilds (engine/fold.go) and is a prefix of the workflow; an epoch   *)
(* has one verdict, its last record; run.finished{ok} stands over a log in *)
(* which every step is completed; a pause or cancel that pollControls saw  *)
(* is in the log unless its driver was killed; and DeriveStatus lists the  *)
(* run as what happened to it.                                             *)
(***************************************************************************)
THEOREM RunIsHonest == Spec => []RunHonest
<1>1. Init => Inv
  BY InitInv
<1>2. Inv /\ [Next]_vars => Inv'
  BY NextKeeps
<1>3. Inv => RunHonest
  BY InvGivesHonest
<1> QED
  BY <1>1, <1>2, <1>3, PTL DEF Spec
=============================================================================
