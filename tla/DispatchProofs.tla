--------------------------- MODULE DispatchProofs ---------------------------
(***************************************************************************)
(* Proofs about one agent or code step.  An event passes through the       *)
(* adapter's channel, the drain goroutine, the sink's channel and the      *)
(* deltas that wait in the sink before it is in the journal.  The          *)
(* inductive invariant says that these stations hold the events in the     *)
(* order of the adapter, each once (InOrder), that none is missing while   *)
(* the attempt's context lives and the sink has no error (Whole), and that *)
(* no goroutine can still append when the step has its verdict (Over).     *)
(***************************************************************************)
EXTENDS AgentDispatch, TLAPS

-----------------------------------------------------------------------------
(* The inductive invariant.                                                *)

Ids == Attempts \X Nat
Entries ==
  [t : {"started", "event", "retry", "completed", "failed", "warning"}, ids : Seq(Ids) \cup Seq(Nat)]
Mains == Results \cup {"prepare", "dispatch", "await", "join", "decide", "flush", "flushing",
                       "retry", "sleep", "close", "closing"}
Contexts == {"off", "live", "idle", "wall", "parent", "sink", "returned"}
Ends == {"none", "ok", "unparseable", "error", "denied", "replay", "exited"}
Adapters == [emitted : Nat, queue : Seq(Ids), outcome : Ends]
Drains == [pc : {"off", "loop", "deliver", "done"}, hold : Seq(Ids), buf : Seq(Ids), err : BOOLEAN]
Sinks ==
  [queue : Seq(Ids), closed : BOOLEAN, pending : Seq(Ids), timer : BOOLEAN, flushing : BOOLEAN,
   exited : BOOLEAN, err : BOOLEAN, done : {"none", "nil", "err"}]

Typed ==
  /\ def \in Definitions /\ main \in Mains /\ attempt \in 1 .. def.attempts
  /\ dr \in Outcomes \cup {"none", "replay"} /\ stopped \in BOOLEAN
  /\ ctx \in [Attempts -> Contexts]
  /\ adapter \in [Attempts -> Adapters] /\ drain \in [Attempts -> Drains]
  /\ sink \in Sinks /\ log \in Seq(Entries)

\* where an attempt's context, drain and adapter are, as the handler goes on
Launched(a) ==
  /\ drain[a].pc = "off" <=> ctx[a] = "off"
  /\ ctx[a] = "off" => adapter[a].emitted = 0 /\ adapter[a].queue = <<>>
                       /\ drain[a].hold = <<>> /\ drain[a].buf = <<>>
  /\ ctx[a] = "live" => a = attempt /\ main \in {"await", "join"}
  /\ a > attempt => ctx[a] = "off" /\ adapter[a].outcome = "none"
  /\ drain[a].pc # "deliver" => drain[a].hold = <<>>
  /\ ctx[a] = "live" /\ drain[a].pc = "done" =>
       adapter[a].queue = <<>> /\ adapter[a].outcome # "none"
  /\ ctx[a] = "returned" =>
       adapter[a].queue = <<>> /\ adapter[a].outcome # "none" /\ drain[a].pc = "done"

Handling ==
  /\ main \in {"prepare", "dispatch"} => ctx[attempt] = "off" /\ adapter[attempt].outcome = "none"
  /\ main \in {"await", "join"} => ctx[attempt] \notin {"off", "returned"}
  /\ main = "join" => adapter[attempt].outcome # "none"
  /\ main = "prepare" => \A a \in Attempts : ctx[a] = "off"
  /\ main \in {"flush", "flushing", "retry", "sleep"} => attempt < def.attempts
  /\ main \in {"flush", "flushing", "retry", "sleep", "close", "closing"} => dr # "replay"
  /\ def.kind = "code" => \A a \in Attempts : ctx[a] = "off"

\* the channel and the goroutine of the sink
Sinking ==
  /\ sink.exited <=> sink.done # "none"
  /\ sink.done = "nil" => sink.closed /\ sink.queue = <<>> /\ sink.pending = <<>> /\ ~ sink.err
  /\ sink.closed => main \in Results \cup {"closing"}
  /\ main = "closing" => sink.closed
  /\ main = "prepare" => ~ sink.timer /\ ~ sink.flushing
  /\ sink.flushing => ~ sink.exited
  /\ Len(sink.queue) <= SinkBuffer
  /\ (\A a \in Attempts : ctx[a] = "off") => sink.queue = <<>> /\ sink.pending = <<>> /\ ~ sink.err

\* after the verdict nothing can be appended
Over ==
  main \in Results \ {"panic"} =>
    \/ sink.exited /\ sink.closed
    \/ ~ sink.closed /\ ~ sink.flushing /\ ~ sink.timer /\ \A a \in Attempts : ctx[a] = "off"

Pend == ToSet(sink.pending)
Queue == ToSet(sink.queue)
Hold(a) == ToSet(drain[a].hold)
Buf(a) == ToSet(drain[a].buf)
Unread(a) == ToSet(adapter[a].queue)
Sent(a) == {<<a, n>> : n \in 1 .. adapter[a].emitted}

\* every event is where it belongs
Owned ==
  /\ \A x \in Journaled \cup Pend \cup Queue : x \in Ids /\ x \in Sent(x[1])
  /\ \A a \in Attempts : Hold(a) \cup Buf(a) \cup Unread(a) \subseteq Sent(a)
  /\ def.live => \A a \in Attempts : drain[a].buf = <<>>
  /\ ~ def.live => sink.pending = <<>> /\ sink.queue = <<>> /\ (main \notin Results => Journaled = {})

\* the stations of an event, in the order of the adapter
InOrder ==
  /\ Increasing(sink.pending) /\ Increasing(sink.queue)
  /\ Precede(Journaled, Pend) /\ Precede(Journaled \cup Pend, Queue)
  /\ \A a \in Attempts :
       /\ Increasing(drain[a].buf) /\ Increasing(adapter[a].queue)
       /\ Len(drain[a].hold) <= 1
       /\ Precede(Journaled \cup Pend \cup Queue \cup Buf(a), Hold(a) \cup Unread(a))
       /\ Precede(Hold(a), Unread(a))

\* nothing is lost while the context lives and the sink has no error
Whole ==
  sink.done # "err" => \A a \in Attempts : ctx[a] \in {"off", "live", "returned"} =>
    Sent(a) \subseteq Journaled \cup Pend \cup Queue \cup Hold(a) \cup Buf(a) \cup Unread(a)

\* an attempt that may be, or was, tried again did not end for good
Settled(a) ==
  /\ ctx[a] = "wall" => adapter[a].outcome # "none"
  /\ adapter[a].outcome = "denied" => ctx[a] \notin {"off", "returned"}

Retried ==
  /\ \A a \in Attempts : a < attempt => Settled(a)
  /\ \/ main \in {"flush", "flushing", "retry", "sleep"}
     \/ main = "decide" /\ dr \in {"retryable", "replay"}
     => Settled(attempt)

\* what the properties say of the journal, for any log
Events(L) == {p \in 1 .. Len(L) : L[p].t = "event"}
Retries(L) == {p \in 1 .. Len(L) : L[p].t = "retry"}
Recorded(L) == UNION {ToSet(L[p].ids) : p \in Events(L)}

Ordered(L) ==
  /\ \A p \in Events(L) : Increasing(L[p].ids)
  /\ \A p, q \in Events(L) : p < q => Precede(ToSet(L[p].ids), ToSet(L[q].ids))

RetriesUpTo(L, n) ==
  /\ {L[p].ids : p \in Retries(L)} = {<<a>> : a \in 1 .. n}
  /\ \A p, q \in Retries(L) : p < q => L[p].ids[1] < L[q].ids[1]

Open(L) == \A p \in 1 .. Len(L) : L[p].t \notin {"completed", "failed", "warning"}
\* nothing behind a verdict
Closed(L) ==
  \A p \in 1 .. Len(L) :
    L[p].t # "warning" /\ (L[p].t \in {"completed", "failed"} => p = Len(L))
\* a commit is the last entry
Fresh(L) == Closed(L) /\ Len(L) > 0 /\ L[Len(L)].t = "completed"
\* a commit, and a finalizer's warning is the last entry
Warned(L) ==
  /\ Len(L) > 1 /\ L[Len(L)].t = "warning" /\ L[Len(L) - 1].t = "completed"
  /\ \A p \in 1 .. (Len(L) - 2) : L[p].t \notin {"completed", "failed", "warning"}

Trying == {"prepare", "dispatch", "await", "join", "decide", "flush", "flushing", "retry"}

Shaped ==
  /\ main \notin Results => Open(log)
  /\ \/ Closed(log)
     \/ main \in Results /\ Finalized /\ Warned(log)
  /\ main = "committed" => Finalized /\ Fresh(log)
  /\ main \in Trying => RetriesUpTo(log, attempt - 1)
  /\ main = "sleep" => RetriesUpTo(log, attempt)
  /\ RetriesUpTo(log, attempt - 1) \/ RetriesUpTo(log, attempt)

Control == Typed /\ (\A a \in Attempts : Launched(a)) /\ Handling /\ Sinking /\ Over /\ Retried
Stations == Owned /\ InOrder /\ EventsInOrder /\ Whole
Journal == Shaped /\ CommittedComplete /\ SinkErrorHalts

Inv == Control /\ Stations /\ Journal

-----------------------------------------------------------------------------
(* Sequences of events.                                                    *)

LEMMA ToSetEmpty == ToSet(<<>>) = {} /\ Increasing(<<>>)
  BY DEF ToSet, Increasing

LEMMA ToSetOne == ASSUME NEW x PROVE ToSet(<<x>>) = {x} /\ Increasing(<<x>>)
  BY DEF ToSet, Increasing

LEMMA ToSetElements ==
  ASSUME NEW S, NEW s \in Seq(S) PROVE ToSet(s) \subseteq S /\ (ToSet(s) = {} => s = <<>>)
PROOF
<1>1. Len(s) \in Nat /\ DOMAIN s = 1 .. Len(s) /\ (\A i \in 1 .. Len(s) : s[i] \in S)
  OBVIOUS
<1>2. ToSet(s) \subseteq S
  BY <1>1 DEF ToSet
<1>3. ASSUME s # <<>> PROVE ToSet(s) # {}
  <2>1. Len(s) > 0
    BY <1>3
  <2>2. 1 \in DOMAIN s
    BY <1>1, <2>1
  <2> QED
    BY <2>2 DEF ToSet
<1> QED
  BY <1>2, <1>3

LEMMA ToSetMember ==
  ASSUME NEW S, NEW s \in Seq(S), NEW x \in ToSet(s)
  PROVE \E i \in 1 .. Len(s) : s[i] = x
  BY DEF ToSet

LEMMA SeqEqual ==
  ASSUME NEW S, NEW s \in Seq(S), NEW t \in Seq(S), Len(s) = Len(t),
         \A i \in 1 .. Len(s) : s[i] = t[i]
  PROVE s = t
  OBVIOUS

LEMMA ConcatFacts ==
  ASSUME NEW S, NEW s \in Seq(S), NEW t \in Seq(S)
  PROVE /\ s \o t \in Seq(S) /\ Len(s) \in Nat /\ Len(s \o t) = Len(s) + Len(t)
        /\ \A p \in 1 .. Len(s) : (s \o t)[p] = s[p]
        /\ \A p \in (Len(s) + 1) .. Len(s \o t) :
             p - Len(s) \in 1 .. Len(t) /\ (s \o t)[p] = t[p - Len(s)]
PROOF
<1>1. s \o t \in Seq(S) /\ Len(s) \in Nat /\ Len(t) \in Nat /\ Len(s \o t) = Len(s) + Len(t)
  OBVIOUS
<1>2. \A p \in 1 .. Len(s) : (s \o t)[p] = s[p]
  OBVIOUS
<1>3. ASSUME NEW p \in (Len(s) + 1) .. Len(s \o t)
      PROVE p - Len(s) \in 1 .. Len(t) /\ (s \o t)[p] = t[p - Len(s)]
  <2>1. p \in Int /\ p > Len(s) /\ p <= Len(s) + Len(t) /\ p - Len(s) \in 1 .. Len(t)
    BY <1>1
  <2> QED
    BY <1>1, <2>1
<1> QED
  BY <1>1, <1>2, <1>3

\* An event put at the end is after all the others.
LEMMA AppendEvents ==
  ASSUME NEW s \in Seq(Ids), NEW x \in Ids
  PROVE /\ Append(s, x) \in Seq(Ids)
        /\ ToSet(Append(s, x)) = ToSet(s) \cup {x}
        /\ Increasing(s) /\ Precede(ToSet(s), {x}) => Increasing(Append(s, x))
PROOF
<1> DEFINE t == Append(s, x)
<1>1. /\ t \in Seq(Ids) /\ Len(t) = Len(s) + 1 /\ t[Len(s) + 1] = x
      /\ \A i \in 1 .. Len(s) : t[i] = s[i]
  OBVIOUS
<1>2. Len(s) \in Nat /\ DOMAIN s = 1 .. Len(s) /\ DOMAIN t = 1 .. (Len(s) + 1)
  BY <1>1
<1> HIDE DEF t
<1>3. ToSet(t) = ToSet(s) \cup {x}
  BY <1>1, <1>2 DEF ToSet
<1>4. ASSUME Increasing(s), Precede(ToSet(s), {x}) PROVE Increasing(t)
  <2>1. ASSUME NEW i \in 1 .. Len(t), NEW j \in 1 .. Len(t), i < j, t[i][1] = t[j][1]
        PROVE t[i][2] < t[j][2]
    <3>1. CASE j \in 1 .. Len(s)
      BY <1>1, <1>2, <1>4, <2>1, <3>1 DEF Increasing
    <3>2. CASE j = Len(s) + 1
      <4>1. i \in 1 .. Len(s) /\ t[i] = s[i] /\ s[i] \in ToSet(s) /\ t[j] = x
        BY <1>1, <1>2, <2>1, <3>2 DEF ToSet
      <4> QED
        BY <1>4, <2>1, <4>1 DEF Precede
    <3> QED
      BY <1>1, <1>2, <3>1, <3>2
  <2> QED
    BY <2>1 DEF Increasing
<1> QED
  BY <1>1, <1>3, <1>4 DEF t

\* The first event is before all the others.
LEMMA TailEvents ==
  ASSUME NEW s \in Seq(Ids), s # <<>>
  PROVE /\ Head(s) \in Ids /\ Tail(s) \in Seq(Ids) /\ Len(Tail(s)) = Len(s) - 1
        /\ ToSet(s) = {Head(s)} \cup ToSet(Tail(s))
        /\ Increasing(s) => Increasing(Tail(s)) /\ Precede({Head(s)}, ToSet(Tail(s)))
PROOF
<1> DEFINE t == Tail(s)
           h == Head(s)
<1>1. /\ t \in Seq(Ids) /\ Len(t) = Len(s) - 1 /\ h = s[1] /\ h \in Ids /\ Len(s) > 0
      /\ \A i \in 1 .. Len(t) : t[i] = s[i + 1]
  OBVIOUS
<1>2. Len(s) \in Nat /\ Len(t) \in Nat /\ DOMAIN s = 1 .. Len(s) /\ DOMAIN t = 1 .. Len(t)
  BY <1>1
<1> HIDE DEF t, h
<1>3. ToSet(s) = {h} \cup ToSet(t)
  <2>1. ASSUME NEW i \in 1 .. Len(s) PROVE s[i] \in {h} \cup ToSet(t)
    <3>1. CASE i = 1
      BY <1>1, <3>1
    <3>2. CASE i # 1
      <4>1. i - 1 \in 1 .. Len(t) /\ t[i - 1] = s[i]
        BY <1>1, <1>2, <2>1, <3>2
      <4> QED
        BY <1>2, <4>1 DEF ToSet
    <3> QED
      BY <3>1, <3>2
  <2>2. \A i \in 1 .. Len(t) : t[i] \in ToSet(s)
    BY <1>1, <1>2 DEF ToSet
  <2>3. h \in ToSet(s)
    BY <1>1, <1>2 DEF ToSet
  <2> QED
    BY <1>2, <2>1, <2>2, <2>3 DEF ToSet
<1>4. ASSUME Increasing(s) PROVE Increasing(t)
  <2>1. ASSUME NEW i \in 1 .. Len(t), NEW j \in 1 .. Len(t), i < j, t[i][1] = t[j][1]
        PROVE t[i][2] < t[j][2]
    <3>1. i + 1 \in 1 .. Len(s) /\ j + 1 \in 1 .. Len(s) /\ i + 1 < j + 1
      BY <1>1, <1>2, <2>1
    <3> QED
      BY <1>1, <1>4, <2>1, <3>1 DEF Increasing
  <2> QED
    BY <2>1 DEF Increasing
<1>5. ASSUME Increasing(s) PROVE Precede({h}, ToSet(t))
  <2>1. ASSUME NEW j \in 1 .. Len(t), h[1] = t[j][1] PROVE h[2] < t[j][2]
    <3>1. 1 \in 1 .. Len(s) /\ j + 1 \in 1 .. Len(s) /\ 1 < j + 1
      BY <1>1, <1>2, <2>1
    <3> QED
      BY <1>1, <1>5, <2>1, <3>1 DEF Increasing
  <2> QED
    BY <1>2, <2>1 DEF Precede, ToSet
<1> QED
  BY <1>1, <1>3, <1>4, <1>5 DEF t, h

\* The event a drain holds goes behind the others.
LEMMA JoinEvents ==
  ASSUME NEW s \in Seq(Ids), NEW h \in Seq(Ids), Len(h) <= 1
  PROVE /\ s \o h \in Seq(Ids) /\ Len(s \o h) <= Len(s) + 1
        /\ ToSet(s \o h) = ToSet(s) \cup ToSet(h)
        /\ Increasing(s) /\ Precede(ToSet(s), ToSet(h)) => Increasing(s \o h)
PROOF
<1>1. CASE h = <<>>
  <2>1. s \o h = s
    BY <1>1
  <2> QED
    BY <1>1, <2>1, ToSetEmpty
<1>2. CASE h # <<>>
  <2>1. PICK x \in Ids : h = <<x>>
    <3>1. Len(h) # 0 /\ Len(h) \in Nat
      BY <1>2
    <3>2. Len(h) = 1
      <4> DEFINE n == Len(h)
      <4>1. n # 0 /\ n \in Nat /\ n <= 1
        BY <3>1
      <4> HIDE DEF n
      <4>2. n = 1
        BY <4>1
      <4> QED
        BY <4>2 DEF n
    <3>3. h[1] \in Ids /\ <<h[1]>> \in Seq(Ids) /\ Len(<<h[1]>>) = 1
      BY <3>2
    <3>4. h = <<h[1]>>
      BY <3>2, <3>3, SeqEqual
    <3> QED
      BY <3>3, <3>4
  <2>2. s \o h = Append(s, x)
    BY <2>1
  <2>3. ToSet(h) = {x}
    BY <2>1, ToSetOne
  <2>4. Len(Append(s, x)) = Len(s) + 1
    OBVIOUS
  <2> HIDE DEF Ids
  <2>5. s \in Seq(Ids) /\ x \in Ids
    OBVIOUS
  <2>6. /\ Append(s, x) \in Seq(Ids)
        /\ ToSet(Append(s, x)) = ToSet(s) \cup {x}
        /\ Increasing(s) /\ Precede(ToSet(s), {x}) => Increasing(Append(s, x))
    BY AppendEvents
  <2> QED
    BY <2>2, <2>3, <2>4, <2>6
<1> QED
  BY <1>1, <1>2

-----------------------------------------------------------------------------
(* Entries of the journal.                                                 *)

LEMMA JournalReading ==
  /\ Journaled = Recorded(log) /\ (EventsInOrder <=> Ordered(log))
  /\ Shaped /\ Len(log) \in Nat => JournalShape
PROOF
<1>1. EventAt = Events(log) /\ RetryAt = Retries(log)
  BY DEF EventAt, RetryAt, Events, Retries
<1>2. Journaled = Recorded(log)
  BY <1>1 DEF Journaled, Recorded
<1>3. EventsInOrder <=> Ordered(log)
  BY <1>1 DEF EventsInOrder, Ordered
<1>4. ASSUME Shaped, Len(log) \in Nat PROVE JournalShape
  <2>1. CASE Closed(log)
    BY <1>1, <1>4, <2>1 DEF Shaped, JournalShape, Closed, RetriesUpTo
  <2>2. CASE Finalized /\ Warned(log)
    <3>1. \A p \in 1 .. Len(log) :
            \/ p \in 1 .. (Len(log) - 2) /\ log[p].t \notin {"completed", "failed", "warning"}
            \/ p = Len(log) - 1 /\ log[p].t = "completed" /\ log[p + 1].t = "warning" /\ p + 1 = Len(log)
            \/ p = Len(log) /\ log[p].t = "warning" /\ p > 1 /\ log[p - 1].t = "completed"
      BY <1>4, <2>2 DEF Warned
    <3> QED
      BY <1>1, <1>4, <2>2, <3>1 DEF Shaped, JournalShape, RetriesUpTo
  <2> QED
    BY <1>4, <2>1, <2>2 DEF Shaped
<1> QED
  BY <1>2, <1>3, <1>4

LEMMA AppendFacts ==
  ASSUME NEW L \in Seq(Entries), NEW e \in Entries
  PROVE /\ Append(L, e) \in Seq(Entries) /\ Len(L) \in Nat
        /\ Len(Append(L, e)) = Len(L) + 1 /\ Append(L, e)[Len(L) + 1] = e
        /\ \A p \in 1 .. Len(L) : Append(L, e)[p] = L[p]
PROOF
<1> HIDE DEF Entries
<1> QED
  OBVIOUS

\* An entry that is no retry and no verdict leaves the retries and the
\* absence of a verdict as they are.
LEMMA AppendNeutral ==
  ASSUME NEW L \in Seq(Entries), NEW e \in Entries, e.t # "retry"
  PROVE /\ \A n : RetriesUpTo(L, n) => RetriesUpTo(Append(L, e), n)
        /\ Open(L) /\ e.t # "warning" => Closed(Append(L, e))
        /\ Open(L) /\ e.t = "completed" => Fresh(Append(L, e))
        /\ Fresh(L) /\ e.t = "warning" => Warned(Append(L, e))
        /\ Open(L) /\ e.t \notin {"completed", "failed", "warning"} => Open(Append(L, e))
PROOF
<1> DEFINE M == Append(L, e)
<1>1. /\ Len(L) \in Nat /\ Len(M) = Len(L) + 1 /\ M[Len(L) + 1] = e
      /\ \A p \in 1 .. Len(L) : M[p] = L[p]
  BY AppendFacts
<1> HIDE DEF M
<1>2. Retries(M) = Retries(L) /\ (\A p \in Retries(L) : M[p] = L[p])
  BY <1>1 DEF Retries
<1>3. \A n : RetriesUpTo(L, n) => RetriesUpTo(M, n)
  BY <1>2 DEF RetriesUpTo
<1>4. Open(L) /\ e.t # "warning" => Closed(M)
  BY <1>1 DEF Open, Closed
<1>5. Open(L) /\ e.t \notin {"completed", "failed", "warning"} => Open(M)
  BY <1>1 DEF Open
<1>6. Open(L) /\ e.t = "completed" => Fresh(M)
  BY <1>1, <1>4 DEF Fresh
<1>7. ASSUME Fresh(L), e.t = "warning" PROVE Warned(M)
  <2>1. \A p \in 1 .. (Len(L) - 1) : L[p].t \notin {"completed", "failed", "warning"}
    BY <1>1, <1>7 DEF Fresh, Closed
  <2>2. Len(M) > 1 /\ Len(M) - 2 = Len(L) - 1 /\ Len(M) - 1 = Len(L)
    BY <1>1, <1>7 DEF Fresh
  <2>3. M[Len(M)].t = "warning" /\ M[Len(M) - 1].t = "completed"
    BY <1>1, <1>7, <2>2 DEF Fresh
  <2>4. \A p \in 1 .. (Len(M) - 2) : M[p].t \notin {"completed", "failed", "warning"}
    BY <1>1, <2>1, <2>2
  <2> QED
    BY <2>2, <2>3, <2>4 DEF Warned
<1> QED
  BY <1>3, <1>4, <1>5, <1>6, <1>7 DEF M

LEMMA AppendRetry ==
  ASSUME NEW L \in Seq(Entries), NEW n \in Nat, RetriesUpTo(L, n), Open(L),
         Entry("retry", <<n + 1>>) \in Entries
  PROVE /\ RetriesUpTo(Append(L, Entry("retry", <<n + 1>>)), n + 1)
        /\ Open(Append(L, Entry("retry", <<n + 1>>)))
        /\ Closed(Append(L, Entry("retry", <<n + 1>>)))
        /\ Recorded(Append(L, Entry("retry", <<n + 1>>))) = Recorded(L)
        /\ Ordered(L) => Ordered(Append(L, Entry("retry", <<n + 1>>)))
PROOF
<1> DEFINE e == Entry("retry", <<n + 1>>)
           M == Append(L, e)
<1>1. e.t = "retry" /\ e.ids = <<n + 1>>
  BY DEF Entry
<1>2. /\ Len(L) \in Nat /\ Len(M) = Len(L) + 1 /\ M[Len(L) + 1] = e
      /\ \A p \in 1 .. Len(L) : M[p] = L[p]
  BY AppendFacts
<1> HIDE DEF M, e
<1>3. Retries(M) = Retries(L) \cup {Len(L) + 1} /\ Retries(L) \subseteq 1 .. Len(L)
  BY <1>1, <1>2 DEF Retries
<1>4. {M[p].ids : p \in Retries(M)} = {L[p].ids : p \in Retries(L)} \cup {<<n + 1>>}
  <2>1. \A p \in Retries(L) : M[p].ids = L[p].ids
    BY <1>2, <1>3
  <2>2. M[Len(L) + 1].ids = <<n + 1>>
    BY <1>1, <1>2
  <2> QED
    BY <1>3, <2>1, <2>2
<1>5. {<<a>> : a \in 1 .. (n + 1)} = {<<a>> : a \in 1 .. n} \cup {<<n + 1>>}
  <2>1. 1 .. (n + 1) = (1 .. n) \cup {n + 1}
    OBVIOUS
  <2> QED
    BY <2>1
<1>6. {M[p].ids : p \in Retries(M)} = {<<a>> : a \in 1 .. (n + 1)}
  BY <1>4, <1>5 DEF RetriesUpTo
<1>7. \A p, q \in Retries(M) : p < q => M[p].ids[1] < M[q].ids[1]
  <2>1. ASSUME NEW p \in Retries(M), NEW q \in Retries(M), p < q
        PROVE M[p].ids[1] < M[q].ids[1]
    <3>1. p \in Retries(L) /\ M[p].ids = L[p].ids
      BY <1>2, <1>3, <2>1
    <3>2. CASE q \in Retries(L)
      BY <1>2, <1>3, <2>1, <3>1, <3>2 DEF RetriesUpTo
    <3>3. CASE q = Len(L) + 1
      <4>1. PICK a \in 1 .. n : L[p].ids = <<a>>
        BY <3>1 DEF RetriesUpTo
      <4>2. M[p].ids[1] = a /\ M[q].ids[1] = n + 1
        BY <1>1, <1>2, <3>1, <3>3, <4>1
      <4> QED
        BY <4>2
    <3> QED
      BY <1>3, <3>2, <3>3
  <2> QED
    BY <2>1
<1>8. RetriesUpTo(M, n + 1)
  BY <1>6, <1>7 DEF RetriesUpTo
<1>9. Open(M) /\ Closed(M)
  BY <1>1, <1>2, SMTT(30) DEF Open, Closed
<1>10. Events(M) = Events(L) /\ \A p \in Events(L) : M[p] = L[p]
  BY <1>1, <1>2 DEF Events
<1>11. Recorded(M) = Recorded(L) /\ (Ordered(L) => Ordered(M))
  BY <1>10 DEF Recorded, Ordered
<1> QED
  BY <1>8, <1>9, <1>11 DEF M, e

LEMMA AppendOther ==
  ASSUME NEW L \in Seq(Entries), NEW e \in Entries, e.t # "event"
  PROVE Recorded(Append(L, e)) = Recorded(L) /\ (Ordered(L) => Ordered(Append(L, e)))
PROOF
<1> DEFINE M == Append(L, e)
<1>1. /\ Len(L) \in Nat /\ Len(M) = Len(L) + 1 /\ M[Len(L) + 1] = e
      /\ \A p \in 1 .. Len(L) : M[p] = L[p]
  BY AppendFacts
<1> HIDE DEF M
<1>2. Events(M) = Events(L) /\ \A p \in Events(L) : M[p] = L[p]
  BY <1>1 DEF Events
<1>3. Recorded(M) = Recorded(L) /\ (Ordered(L) => Ordered(M))
  BY <1>2 DEF Recorded, Ordered
<1> QED
  BY <1>3 DEF M

LEMMA AppendEvent ==
  ASSUME NEW L \in Seq(Entries), NEW ids \in Seq(Ids)
  PROVE /\ Append(L, Entry("event", ids)) \in Seq(Entries)
        /\ Recorded(Append(L, Entry("event", ids))) = Recorded(L) \cup ToSet(ids)
        /\ Ordered(L) /\ Increasing(ids) /\ Precede(Recorded(L), ToSet(ids))
             => Ordered(Append(L, Entry("event", ids)))
        /\ \A n : RetriesUpTo(L, n) => RetriesUpTo(Append(L, Entry("event", ids)), n)
        /\ Open(L) => Open(Append(L, Entry("event", ids))) /\ Closed(Append(L, Entry("event", ids)))
PROOF
<1> DEFINE e == Entry("event", ids)
           M == Append(L, e)
<1>1. e \in Entries /\ e.t = "event" /\ e.ids = ids
  BY DEF Entry, Entries
<1>2. /\ Len(L) \in Nat /\ Len(M) = Len(L) + 1 /\ M[Len(L) + 1] = e
      /\ \A p \in 1 .. Len(L) : M[p] = L[p]
      /\ M \in Seq(Entries)
  BY <1>1, AppendFacts
<1>3. /\ \A n : RetriesUpTo(L, n) => RetriesUpTo(M, n)
      /\ Open(L) => Open(M) /\ Closed(M)
  BY <1>1, AppendNeutral
<1> HIDE DEF M, e
<1>4. Events(M) = Events(L) \cup {Len(L) + 1} /\ Events(L) \subseteq 1 .. Len(L)
  BY <1>1, <1>2 DEF Events
<1>5. \A p \in Events(L) : M[p] = L[p] /\ ToSet(M[p].ids) \subseteq Recorded(L)
  BY <1>2, <1>4 DEF Recorded
<1>6. M[Len(L) + 1].ids = ids
  BY <1>1, <1>2
<1>7. Recorded(M) = Recorded(L) \cup ToSet(ids)
  BY <1>4, <1>5, <1>6 DEF Recorded
<1>8. ASSUME Ordered(L), Increasing(ids), Precede(Recorded(L), ToSet(ids)) PROVE Ordered(M)
  <2>1. \A p \in Events(M) : Increasing(M[p].ids)
    BY <1>4, <1>5, <1>6, <1>8 DEF Ordered
  <2>2. ASSUME NEW p \in Events(M), NEW q \in Events(M), p < q
        PROVE Precede(ToSet(M[p].ids), ToSet(M[q].ids))
    <3>1. p \in Events(L)
      BY <1>2, <1>4, <2>2
    <3>2. CASE q \in Events(L)
      BY <1>5, <1>8, <2>2, <3>1, <3>2 DEF Ordered
    <3>3. CASE q = Len(L) + 1
      BY <1>5, <1>6, <1>8, <3>1, <3>3 DEF Precede
    <3> QED
      BY <1>4, <3>2, <3>3
  <2> QED
    BY <2>1, <2>2 DEF Ordered
<1> QED
  BY <1>2, <1>3, <1>7, <1>8 DEF M, e

\* The deltas that wait are one entry, or none.
LEMMA AppendGroup ==
  ASSUME NEW L \in Seq(Entries), NEW ids \in Seq(Ids)
  PROVE /\ L \o Group(ids) \in Seq(Entries)
        /\ Recorded(L \o Group(ids)) = Recorded(L) \cup ToSet(ids)
        /\ Ordered(L) /\ Increasing(ids) /\ Precede(Recorded(L), ToSet(ids))
             => Ordered(L \o Group(ids))
        /\ \A n : RetriesUpTo(L, n) => RetriesUpTo(L \o Group(ids), n)
        /\ Open(L) => Open(L \o Group(ids)) /\ Closed(L \o Group(ids))
PROOF
<1> HIDE DEF Ids
<1>1. CASE ids = <<>>
  <2>1. L \o Group(ids) = L
    <3> HIDE DEF Entries
    <3> QED
      BY <1>1 DEF Group
  <2>2. Open(L) => Closed(L)
    BY DEF Open, Closed
  <2> QED
    BY <1>1, <2>1, <2>2, ToSetEmpty
<1>2. CASE ids # <<>>
  <2>1. Entry("event", ids) \in Entries
    BY DEF Entry, Entries
  <2>2. L \o Group(ids) = Append(L, Entry("event", ids))
    <3> HIDE DEF Entries
    <3>1. Group(ids) = <<Entry("event", ids)>>
      BY <1>2 DEF Group
    <3>2. ASSUME NEW e \in Entries PROVE L \o <<e>> = Append(L, e)
      OBVIOUS
    <3> QED
      BY <2>1, <3>1, <3>2
  <2> QED
    BY <2>2, AppendEvent
<1> QED
  BY <1>1, <1>2

\* The events a plain adapter's drain has kept are one entry each.
LEMMA AppendBuffered ==
  ASSUME NEW L \in Seq(Entries), NEW ids \in Seq(Ids), NEW V \in Seq(Entries),
         Len(V) = Len(ids),
         \A i \in 1 .. Len(ids) : V[i].t = "event" /\ V[i].ids = <<ids[i]>>
  PROVE /\ L \o V \in Seq(Entries)
        /\ Recorded(L \o V) = Recorded(L) \cup ToSet(ids)
        /\ Ordered(L) /\ Increasing(ids) /\ Precede(Recorded(L), ToSet(ids)) => Ordered(L \o V)
        /\ \A n : RetriesUpTo(L, n) => RetriesUpTo(L \o V, n)
        /\ Open(L) => Open(L \o V) /\ Closed(L \o V)
PROOF
<1> DEFINE M == L \o V
<1>1. Len(ids) \in Nat /\ DOMAIN ids = 1 .. Len(ids) /\ \A i \in 1 .. Len(ids) : ids[i] \in Ids
  OBVIOUS
<1>2. \A i \in 1 .. Len(ids) : V[i].t = "event" /\ V[i].ids = <<ids[i]>>
  OBVIOUS
<1>3. Len(V) = Len(ids)
  OBVIOUS
<1>4. /\ M \in Seq(Entries) /\ Len(L) \in Nat /\ Len(M) = Len(L) + Len(ids)
      /\ \A p \in 1 .. Len(L) : M[p] = L[p]
      /\ \A p \in (Len(L) + 1) .. Len(M) : p - Len(L) \in 1 .. Len(ids) /\ M[p] = V[p - Len(L)]
  BY <1>3, ConcatFacts, SMTT(30)
<1> HIDE DEF M
<1> DEFINE New == (Len(L) + 1) .. Len(M)
<1>5. \A p \in New : M[p].t = "event" /\ M[p].ids = <<ids[p - Len(L)]>>
  BY <1>2, <1>4
<1>6. 1 .. Len(M) = (1 .. Len(L)) \cup New
  BY <1>1, <1>4
<1>7. Events(M) = Events(L) \cup New /\ Events(L) \subseteq 1 .. Len(L)
  BY <1>4, <1>5, <1>6 DEF Events
<1>8. Retries(M) = Retries(L) /\ (\A p \in Retries(L) : M[p] = L[p])
  BY <1>4, <1>5, <1>6 DEF Retries
<1>9. \A n : RetriesUpTo(L, n) => RetriesUpTo(M, n)
  BY <1>8 DEF RetriesUpTo
<1>10. Open(L) => Open(M) /\ Closed(M)
  BY <1>4, <1>5, <1>6 DEF Open, Closed
<1>11. \A p \in Events(L) : M[p] = L[p] /\ ToSet(M[p].ids) \subseteq Recorded(L)
  BY <1>4, <1>7 DEF Recorded
<1>12. \A p \in New : ToSet(M[p].ids) = {ids[p - Len(L)]} /\ Increasing(M[p].ids)
  BY <1>5, ToSetOne
<1>13. ToSet(ids) = {ids[p - Len(L)] : p \in New}
  <2>1. \A i \in 1 .. Len(ids) : Len(L) + i \in New /\ (Len(L) + i) - Len(L) = i
    BY <1>1, <1>4
  <2>2. \A p \in New : p - Len(L) \in 1 .. Len(ids)
    BY <1>4
  <2> HIDE DEF New
  <2>3. \A x : (\E i \in 1 .. Len(ids) : ids[i] = x) <=> (\E p \in New : ids[p - Len(L)] = x)
    BY <2>1, <2>2
  <2>4. \A x : x \in ToSet(ids) <=> \E i \in 1 .. Len(ids) : ids[i] = x
    BY <1>1 DEF ToSet
  <2> QED
    BY <2>3, <2>4
<1> HIDE DEF New
<1>14. Recorded(M) = Recorded(L) \cup ToSet(ids)
  <2>1. Recorded(M) \subseteq Recorded(L) \cup ToSet(ids)
    BY <1>7, <1>11, <1>12, <1>13 DEF Recorded
  <2>2. Recorded(L) \subseteq Recorded(M)
    BY <1>7, <1>11 DEF Recorded
  <2>3. ToSet(ids) \subseteq Recorded(M)
    BY <1>7, <1>12, <1>13 DEF Recorded
  <2> QED
    BY <2>1, <2>2, <2>3
<1>15. ASSUME Ordered(L), Increasing(ids), Precede(Recorded(L), ToSet(ids)) PROVE Ordered(M)
  <2>1. \A p \in Events(M) : Increasing(M[p].ids)
    BY <1>7, <1>11, <1>12, <1>15 DEF Ordered
  <2>2. ASSUME NEW p \in Events(M), NEW q \in Events(M), p < q
        PROVE Precede(ToSet(M[p].ids), ToSet(M[q].ids))
    <3>1. CASE p \in Events(L) /\ q \in Events(L)
      BY <1>11, <1>15, <2>2, <3>1 DEF Ordered
    <3>2. CASE p \in Events(L) /\ q \in New
      <4>1. ToSet(M[q].ids) \subseteq ToSet(ids)
        BY <1>12, <1>13, <3>2
      <4> QED
        BY <1>11, <1>15, <3>2, <4>1 DEF Precede
    <3>3. CASE p \in New /\ q \in New
      <4>1. p - Len(L) \in 1 .. Len(ids) /\ q - Len(L) \in 1 .. Len(ids) /\ p - Len(L) < q - Len(L)
        BY <1>1, <1>4, <2>2, <3>3 DEF New
      <4>2. ASSUME NEW i \in 1 .. Len(ids), NEW j \in 1 .. Len(ids), i < j
            PROVE Precede({ids[i]}, {ids[j]})
        BY <1>15, <4>2 DEF Precede, Increasing
      <4> QED
        BY <1>12, <3>3, <4>1, <4>2
    <3>4. CASE p \in New /\ q \in Events(L)
      BY <1>4, <1>7, <2>2, <3>4 DEF New
    <3> QED
      BY <1>7, <3>1, <3>2, <3>3, <3>4
  <2> QED
    BY <2>1, <2>2 DEF Ordered
<1> QED
  BY <1>4, <1>9, <1>10, <1>14, <1>15 DEF M

-----------------------------------------------------------------------------
(* What a step that leaves the events alone keeps.                         *)

LEMMA AttemptFacts ==
  ASSUME Typed
  PROVE /\ attempt \in Attempts /\ attempt \in Nat \ {0} /\ Attempts \subseteq Nat \ {0}
        /\ def.attempts \in Nat /\ def.attempts \in Attempts
        /\ def.kind \in {"agent", "code"} /\ def.events \in Nat
PROOF
<1>1. def.attempts \in 1 .. MaxAttempts /\ MaxAttempts \in Nat /\ def.kind \in {"agent", "code"}
      /\ def.events \in Nat
  BY DispatchAssumption DEF Typed
<1> QED
  BY <1>1 DEF Typed, Attempts

Alive == {"off", "live", "returned"}

Kept ==
  /\ def' = def /\ log' = log
  /\ sink'.pending = sink.pending /\ sink'.queue = sink.queue
  /\ sink'.done # "err" => sink.done # "err"
  /\ main \in Results => main' \in Results
  /\ \A a \in Attempts :
       /\ drain'[a].hold = drain[a].hold /\ drain'[a].buf = drain[a].buf
       /\ adapter'[a].queue = adapter[a].queue /\ adapter'[a].emitted = adapter[a].emitted
       /\ ctx'[a] \in Alive => ctx[a] \in Alive

LEMMA StationsFrame == ASSUME Stations, Kept PROVE Stations'
PROOF
<1>1. /\ Journaled' = Journaled /\ Pend' = Pend /\ Queue' = Queue
      /\ \A a \in Attempts :
           Hold(a)' = Hold(a) /\ Buf(a)' = Buf(a) /\ Unread(a)' = Unread(a) /\ Sent(a)' = Sent(a)
  BY DEF Kept, Journaled, EventAt, Pend, Queue, Hold, Buf, Unread, Sent
<1>2. EventsInOrder'
  BY DEF Stations, Kept, EventsInOrder, EventAt
<1>3. Owned'
  <2>1. \A x \in Journaled \cup Pend \cup Queue : x \in Ids /\ x[1] \in Attempts /\ x \in Sent(x[1])
    BY DEF Stations, Owned, Ids
  <2> QED
    BY <1>1, <2>1 DEF Stations, Owned, Kept
<1>4. InOrder'
  BY <1>1 DEF Stations, InOrder, Kept
<1>5. Whole'
  BY <1>1 DEF Stations, Whole, Kept, Alive
<1> QED
  BY <1>2, <1>3, <1>4, <1>5 DEF Stations

JournalKept ==
  /\ log' = log /\ attempt' = attempt /\ def' = def
  /\ main' = "committed" => main = "committed"
  /\ main \in Results => main' \in Results
  /\ main' \in Trying => main \in Trying
  /\ main' = "sleep" => main = "sleep"
  /\ main' \in Outcomes \cup Committed => main' = main /\ (sink'.err => sink.err)
  /\ adapter'[attempt].emitted = adapter[attempt].emitted
  /\ ctx'[attempt] = "returned" => ctx[attempt] = "returned" \/ main' \notin Committed

LEMMA JournalFrame == ASSUME Journal, JournalKept PROVE Journal'
PROOF
<1>1. Journaled' = Journaled
  BY DEF JournalKept, Journaled, EventAt
<1>2. Shaped'
  BY DEF Journal, JournalKept, Shaped, Finalized
<1>3. CommittedComplete'
  BY <1>1 DEF Journal, JournalKept, CommittedComplete, Outcomes
<1>4. SinkErrorHalts'
  BY DEF Journal, JournalKept, SinkErrorHalts
<1> QED
  BY <1>2, <1>3, <1>4 DEF Journal

-----------------------------------------------------------------------------
(* Contexts and timers.                                                    *)

ContextsEnd ==
  /\ ctx' \in [Attempts -> Contexts]
  /\ \A a \in Attempts : \/ ctx'[a] = ctx[a]
                         \/ ctx[a] = "live" /\ ctx'[a] \in {"idle", "wall", "parent", "sink"}

LEMMA EndsContexts ==
  ASSUME Typed, NEW a \in Attempts, NEW why \in {"idle", "wall", "parent", "sink"}
  PROVE /\ ctx' = EndContext(ctx, a, why) => ContextsEnd
        /\ ctx' = StopAll(ctx) => ContextsEnd
        /\ ctx' = StopAll(EndContext(ctx, a, why)) => ContextsEnd
  BY DEF Typed, EndContext, StopAll, ContextsEnd, Contexts

LEMMA ContextControl ==
  ASSUME Control, ContextsEnd, stopped' \in BOOLEAN,
         UNCHANGED <<def, main, attempt, dr, adapter, drain, sink, log>>
  PROVE Control'
PROOF
<1>1. Typed'
  BY DEF Control, Typed, ContextsEnd
<1>2. ASSUME NEW a \in Attempts PROVE Launched(a)'
  BY <1>2 DEF Control, Launched, ContextsEnd
<1>3. Handling'
  BY AttemptFacts DEF Control, Handling, ContextsEnd
<1>4. Sinking' /\ Over'
  BY DEF Control, Sinking, Over, ContextsEnd
<1>5. Retried'
  BY AttemptFacts DEF Control, Retried, Settled, Launched, ContextsEnd
<1> QED
  BY <1>1, <1>2, <1>3, <1>4, <1>5 DEF Control

LEMMA ContextStep ==
  ASSUME Inv, ContextsEnd, stopped' \in BOOLEAN,
         UNCHANGED <<def, main, attempt, dr, adapter, drain, sink, log>>
  PROVE Inv'
PROOF
<1>1. Control'
  BY ContextControl DEF Inv
<1>2. Kept /\ JournalKept
  BY AttemptFacts DEF Inv, Control, Kept, JournalKept, ContextsEnd, Alive
<1> QED
  BY <1>1, <1>2, StationsFrame, JournalFrame DEF Inv

LEMMA TimersKeep == ASSUME Inv, NEW a \in Attempts, Timers(a) PROVE Inv'
PROOF
<1>1. ContextsEnd
  <2>1. CASE IdleFires(a)
    BY <2>1, EndsContexts DEF IdleFires, Inv, Control
  <2>2. CASE WallFires(a)
    BY <2>2, EndsContexts DEF WallFires, Inv, Control
  <2> QED
    BY <2>1, <2>2 DEF Timers
<1>2. stopped' \in BOOLEAN /\ UNCHANGED <<def, main, attempt, dr, adapter, drain, sink, log>>
  BY DEF Timers, IdleFires, WallFires, Inv, Control, Typed
<1> QED
  BY <1>1, <1>2, ContextStep

LEMMA InterruptKeeps == ASSUME Inv, Interrupt PROVE Inv'
PROOF
<1>1. ContextsEnd
  BY EndsContexts, AttemptFacts DEF Interrupt, Inv, Control
<1>2. stopped' \in BOOLEAN /\ UNCHANGED <<def, main, attempt, dr, adapter, drain, sink, log>>
  BY DEF Interrupt
<1> QED
  BY <1>1, <1>2, ContextStep

-----------------------------------------------------------------------------
(* The interpreter's goroutine between two entries of the journal.         *)

LEMMA MoveKeeps ==
  ASSUME Inv, Control', UNCHANGED <<def, attempt, adapter, drain, log>>,
         sink'.pending = sink.pending, sink'.queue = sink.queue,
         sink'.done = sink.done, sink'.err = sink.err,
         main' \notin Outcomes \cup Committed, main \notin Results \/ main' \in Results,
         main' \in Trying => main \in Trying, main' # "sleep",
         \A a \in Attempts : ctx'[a] \in Alive => ctx[a] \in Alive
  PROVE Inv'
PROOF
<1>1. Kept
  BY DEF Kept
<1>2. JournalKept
  BY DEF JournalKept, Outcomes, Committed, Results
<1> QED
  BY <1>1, <1>2, StationsFrame, JournalFrame DEF Inv

LEMMA AwaitKeeps == ASSUME Inv, AwaitOutcome PROVE Inv'
PROOF
<1> USE DEF Inv, Control
<1>1. Typed'
  BY DEF AwaitOutcome, Typed, Mains
<1>2. ASSUME NEW a \in Attempts PROVE Launched(a)'
  BY <1>2 DEF AwaitOutcome, Launched
<1>3. Handling' /\ Sinking' /\ Over' /\ Retried'
  BY DEF AwaitOutcome, Handling, Sinking, Over, Retried, Settled, Results, Committed, Outcomes
<1>4. Control'
  BY <1>1, <1>2, <1>3
<1> QED
  BY <1>4, MoveKeeps DEF AwaitOutcome, Outcomes, Committed, Results, Trying

LEMMA DecideKeeps == ASSUME Inv, RetryDecide PROVE Inv'
PROOF
<1> USE DEF Inv, Control
<1>0. Outcome \in Outcomes \cup {"none"} /\ (Outcome = "retryable" => dr \in {"retryable", "replay"})
  BY DEF Outcome, Typed, Outcomes
<1>a. main' \in {"close", "flush", "retry"} /\ (main' # "close" => Outcome = "retryable" /\ attempt < def.attempts)
  BY AttemptFacts DEF RetryDecide
<1>1. Typed'
  BY <1>0, <1>a DEF RetryDecide, Typed, Mains
<1>2. ASSUME NEW a \in Attempts PROVE Launched(a)'
  BY <1>2, <1>a DEF RetryDecide, Launched
<1>3. Handling'
  BY <1>0, <1>a DEF RetryDecide, Handling, Outcomes
<1>4. Sinking' /\ Over'
  BY <1>a DEF RetryDecide, Sinking, Over, Results, Committed, Outcomes
<1>5. Retried'
  BY <1>0, <1>a DEF RetryDecide, Retried, Settled
<1>6. Control'
  BY <1>1, <1>2, <1>3, <1>4, <1>5
<1> QED
  BY <1>6, <1>a, MoveKeeps DEF RetryDecide, Outcomes, Committed, Results, Trying

LEMMA StopsKeep == ASSUME Inv, FlushStopped \/ SleepStopped PROVE Inv'
PROOF
<1> USE DEF Inv, Control
<1>0. /\ main \in {"flush", "flushing", "sleep"} /\ main' = "close"
      /\ dr' = "none" \/ (main = "sleep" /\ dr' = dr)
      /\ UNCHANGED <<def, attempt, stopped, ctx, adapter, drain, sink, log>>
  BY DEF FlushStopped, SleepStopped
<1>1. Typed'
  BY <1>0 DEF Typed, Mains
<1>2. ASSUME NEW a \in Attempts PROVE Launched(a)'
  BY <1>0, <1>2 DEF Launched
<1>3. Handling'
  BY <1>0 DEF Handling
<1>4. Sinking' /\ Over' /\ Retried'
  BY <1>0 DEF Sinking, Over, Retried, Settled, Results, Committed, Outcomes
<1>5. Control'
  BY <1>1, <1>2, <1>3, <1>4
<1> QED
  BY <1>0, <1>5, MoveKeeps DEF Outcomes, Committed, Results, Trying

LEMMA FlushKeeps == ASSUME Inv, flushWait PROVE Inv'
PROOF
<1> USE DEF Inv, Control
<1>0. /\ sink' \in Sinks /\ sink'.flushing /\ ~ sink'.timer
      /\ sink'.queue = sink.queue /\ sink'.pending = sink.pending /\ sink'.closed = sink.closed
      /\ sink'.exited = sink.exited /\ sink'.err = sink.err /\ sink'.done = sink.done
  BY DEF flushWait, Typed, Sinks
<1>1. Typed'
  BY <1>0 DEF flushWait, Typed, Mains
<1>2. ASSUME NEW a \in Attempts PROVE Launched(a)'
  BY <1>2 DEF flushWait, Launched
<1>3. Handling'
  BY DEF flushWait, Handling
<1>4. Sinking' /\ Over' /\ Retried'
  BY <1>0 DEF flushWait, Sinking, Over, Retried, Settled, Results, Committed, Outcomes
<1>5. Control'
  BY <1>1, <1>2, <1>3, <1>4
<1> QED
  BY <1>0, <1>5, MoveKeeps DEF flushWait, Outcomes, Committed, Results, Trying

LEMMA CloseKeeps == ASSUME Inv, CloseSink PROVE Inv'
PROOF
<1> USE DEF Inv, Control
<1>0. /\ sink' \in Sinks /\ sink'.closed
      /\ sink'.queue = sink.queue /\ sink'.pending = sink.pending /\ sink'.timer = sink.timer
      /\ sink'.exited = sink.exited /\ sink'.err = sink.err /\ sink'.done = sink.done
      /\ sink'.flushing = sink.flushing
  BY DEF CloseSink, Typed, Sinks
<1>1. Typed'
  BY <1>0 DEF CloseSink, Typed, Mains
<1>2. ASSUME NEW a \in Attempts PROVE Launched(a)'
  BY <1>2 DEF CloseSink, Launched
<1>3. Handling'
  BY DEF CloseSink, Handling
<1>4. Sinking' /\ Over' /\ Retried'
  BY <1>0 DEF CloseSink, Sinking, Over, Retried, Settled, Results, Committed, Outcomes
<1>5. Control'
  BY <1>1, <1>2, <1>3, <1>4
<1> QED
  BY <1>0, <1>5, MoveKeeps DEF CloseSink, Outcomes, Committed, Results, Trying

LEMMA LaunchKeeps == ASSUME Inv, Launch PROVE Inv'
PROOF
<1> USE DEF Inv, Control
<1>0. attempt \in Attempts /\ Attempts \subseteq Nat
  BY AttemptFacts
<1>a. /\ ctx' \in [Attempts -> Contexts] /\ drain' \in [Attempts -> Drains]
      /\ ctx[attempt] = "off" /\ ctx'[attempt] \in {"live", "parent"}
      /\ drain'[attempt].pc = "loop" /\ drain[attempt].pc = "off"
      /\ drain'[attempt].hold = drain[attempt].hold /\ drain'[attempt].buf = drain[attempt].buf
      /\ \A a \in Attempts \ {attempt} : ctx'[a] = ctx[a] /\ drain'[a] = drain[a]
      /\ main = "dispatch" /\ main' = "await" /\ def.kind = "agent"
      /\ UNCHANGED <<def, attempt, dr, stopped, adapter, sink, log>>
  BY <1>0, ZenonT(60) DEF Launch, Typed, Contexts, Drains, Handling, Launched
<1>1. Typed'
  BY <1>a DEF Typed, Mains
<1>2. ASSUME NEW a \in Attempts PROVE Launched(a)'
  BY <1>0, <1>2, <1>a DEF Launched
<1>3. Handling'
  BY <1>0, <1>a DEF Handling
<1>4. Sinking' /\ Over'
  BY <1>0, <1>a DEF Sinking, Over, Results, Committed, Outcomes
<1>5. Retried'
  BY <1>0, <1>a DEF Retried, Settled
<1>6. Control'
  BY <1>1, <1>2, <1>3, <1>4, <1>5
<1>7. Kept
  BY <1>0, <1>a DEF Kept, Alive, Results, Committed, Outcomes
<1>8. JournalKept
  BY <1>0, <1>a DEF JournalKept, Results, Committed, Outcomes, Trying
<1> QED
  BY <1>6, <1>7, <1>8, StationsFrame, JournalFrame

LEMMA WakeKeeps == ASSUME Inv, Wake PROVE Inv'
PROOF
<1> USE DEF Inv, Control
<1>a. /\ main = "sleep" /\ attempt < def.attempts /\ attempt \in Nat /\ def.attempts \in Nat
      /\ attempt \in Attempts /\ Attempts \subseteq Nat /\ def.attempts \in 1 .. MaxAttempts
  BY AttemptFacts DEF Wake, Handling, Attempts
<1>b. attempt + 1 \in 1 .. def.attempts /\ attempt + 1 \in Attempts /\ (attempt + 1) - 1 = attempt
  BY <1>a, DispatchAssumption DEF Attempts
<1>0. /\ attempt \in Attempts /\ Attempts \subseteq Nat /\ attempt < def.attempts
      /\ attempt + 1 \in Attempts /\ attempt + 1 \in 1 .. def.attempts
      /\ attempt' = attempt + 1 /\ attempt' - 1 = attempt
      /\ main = "sleep" /\ main' = "dispatch"
      /\ UNCHANGED <<def, dr, stopped, ctx, adapter, drain, sink, log>>
  BY <1>a, <1>b DEF Wake
<1>1. Typed'
  BY <1>0 DEF Typed, Mains
<1>2. ASSUME NEW a \in Attempts PROVE Launched(a)'
  BY <1>0, <1>2 DEF Launched
<1>3. Handling'
  BY <1>0 DEF Handling, Launched
<1>4. Sinking' /\ Over'
  BY <1>0 DEF Sinking, Over, Results, Committed, Outcomes
<1>5. Retried'
  BY <1>0 DEF Retried, Settled
<1>6. Control'
  BY <1>1, <1>2, <1>3, <1>4, <1>5
<1>7. Kept
  BY <1>0 DEF Kept, Results, Committed, Outcomes
<1>8. Journal'
  BY <1>0 DEF Journal, Shaped, CommittedComplete, SinkErrorHalts, Results, Committed, Outcomes, Trying
<1> QED
  BY <1>6, <1>7, <1>8, StationsFrame

-----------------------------------------------------------------------------
(* The end of an attempt.                                                  *)

LEMMA OutcomeFacts ==
  ASSUME Typed, NEW a \in Attempts, NEW oc \in Ends,
         adapter' = [adapter EXCEPT ![a].outcome = oc]
  PROVE /\ adapter' \in [Attempts -> Adapters] /\ adapter'[a].outcome = oc
        /\ \A b \in Attempts : adapter'[b].queue = adapter[b].queue
                               /\ adapter'[b].emitted = adapter[b].emitted
        /\ \A b \in Attempts \ {a} : adapter'[b] = adapter[b]
PROOF
<1> DEFINE new == [adapter[a] EXCEPT !.outcome = oc]
<1>0. adapter \in [Attempts -> Adapters]
  BY DEF Typed
<1>1. adapter' = [b \in Attempts |-> IF b = a THEN new ELSE adapter[b]] /\ adapter[a] \in Adapters
  BY <1>0
<1>2. /\ new \in Adapters /\ new.outcome = oc
      /\ new.queue = adapter[a].queue /\ new.emitted = adapter[a].emitted
  BY <1>1 DEF Adapters
<1> HIDE DEF new
<1> QED
  BY <1>0, <1>1, <1>2

\* A context that still lives has returned; one that ended keeps its reason.
LEMMA EndFacts ==
  ASSUME Inv, NEW oc, EndAttempt(oc)
  PROVE /\ main' = "decide" /\ dr' = oc /\ ctx' \in [Attempts -> Contexts]
        /\ ctx'[attempt] = IF ctx[attempt] = "live" THEN "returned" ELSE ctx[attempt]
        /\ \A a \in Attempts \ {attempt} : ctx'[a] = ctx[a]
        /\ \A a \in Attempts : ctx'[a] # "live" /\ (ctx'[a] = "off" <=> ctx[a] = "off")
PROOF
<1>1. /\ main' = "decide" /\ dr' = oc /\ ctx' \in [Attempts -> Contexts]
      /\ ctx'[attempt] = IF ctx[attempt] = "live" THEN "returned" ELSE ctx[attempt]
      /\ \A a \in Attempts \ {attempt} : ctx'[a] = ctx[a]
  BY AttemptFacts DEF EndAttempt, EndContext, Inv, Control, Typed, Contexts
<1>2. \A a \in Attempts : ctx[a] = "live" => a = attempt
  BY DEF Inv, Control, Launched
<1> QED
  BY <1>1, <1>2

\* What an attempt must show at its end, whatever ended it.
LEMMA EndKeeps ==
  ASSUME Inv, NEW oc \in Outcomes \cup {"none", "replay"}, EndAttempt(oc),
         main \in {"dispatch", "await", "join"},
         UNCHANGED <<def, attempt, stopped, drain, sink, log>>,
         adapter' \in [Attempts -> Adapters],
         \A a \in Attempts : adapter'[a].queue = adapter[a].queue
                             /\ adapter'[a].emitted = adapter[a].emitted,
         \A a \in Attempts \ {attempt} : adapter'[a] = adapter[a],
         ctx[attempt] # "off" => adapter'[attempt] = adapter[attempt],
         ctx[attempt] = "live" => adapter[attempt].outcome # "none" /\ drain[attempt].pc = "done",
         oc \in {"retryable", "replay"} => Settled(attempt)'
  PROVE Inv'
PROOF
<1> USE DEF Inv, Control
<1>0. /\ attempt \in Attempts /\ Attempts \subseteq Nat /\ attempt \in Nat
      /\ main' = "decide" /\ dr' = oc /\ ctx' \in [Attempts -> Contexts]
      /\ ctx'[attempt] = IF ctx[attempt] = "live" THEN "returned" ELSE ctx[attempt]
      /\ \A a \in Attempts \ {attempt} : ctx'[a] = ctx[a]
      /\ \A a \in Attempts : ctx'[a] # "live" /\ (ctx'[a] = "off" <=> ctx[a] = "off")
  BY EndFacts, AttemptFacts
<1>1. Typed'
  BY <1>0 DEF Typed, Mains
<1>2. ASSUME NEW a \in Attempts PROVE Launched(a)'
  <2>1. CASE a # attempt
    BY <1>0, <1>2, <2>1 DEF Launched
  <2>2. CASE a = attempt
    BY <1>0, <1>2, <2>2 DEF Launched
  <2> QED
    BY <2>1, <2>2
<1>3. Handling'
  BY <1>0 DEF Handling
<1>4. Sinking' /\ Over'
  BY <1>0 DEF Sinking, Over, Results, Committed, Outcomes
<1>5. Retried'
  <2>1. ASSUME NEW a \in Attempts, a < attempt PROVE Settled(a)'
    <3>1. a # attempt /\ ctx'[a] = ctx[a] /\ adapter'[a] = adapter[a] /\ Settled(a)
      BY <1>0, <2>1 DEF Retried
    <3> QED
      BY <3>1 DEF Settled
  <2> QED
    BY <1>0, <2>1 DEF Retried
<1>6. Control'
  BY <1>1, <1>2, <1>3, <1>4, <1>5
<1>7. Kept
  BY <1>0 DEF Kept, Alive, Results, Committed, Outcomes
<1>8. JournalKept
  BY <1>0 DEF JournalKept, Results, Committed, Outcomes, Trying
<1> QED
  BY <1>6, <1>7, <1>8, StationsFrame, JournalFrame

LEMMA RefusedKeeps == ASSUME Inv, DispatchRefused PROVE Inv'
PROOF
<1>1. PICK oc \in {"none", "permanent", "retryable"} : EndAttempt(oc)
  BY DEF DispatchRefused
<1>2. /\ main = "dispatch" /\ ctx[attempt] = "off" /\ adapter[attempt].outcome = "none"
      /\ UNCHANGED <<def, attempt, stopped, adapter, drain, sink, log>>
  BY DEF DispatchRefused, Inv, Control, Handling
<1>3. Settled(attempt)'
  BY <1>1, <1>2, EndFacts DEF Settled
<1>4. adapter' \in [Attempts -> Adapters] /\ oc \in Outcomes \cup {"none", "replay"}
  BY <1>2 DEF Inv, Control, Typed, Outcomes
<1> QED
  BY <1>1, <1>2, <1>3, <1>4, EndKeeps

LEMMA CancelledKeeps == ASSUME Inv, CancelledResult PROVE Inv'
PROOF
<1> DEFINE oc == IF drain[attempt].pc = "done" /\ drain[attempt].err THEN "none"
                 ELSE classifyAgentLaunchErr(ctx[attempt])
<1>1. /\ EndAttempt(oc) /\ main \in {"await", "join"} /\ ctx[attempt] # "live"
      /\ UNCHANGED <<def, attempt, stopped, adapter, drain, sink, log>>
  BY DEF CancelledResult
<1>2. oc \in Outcomes \cup {"none", "replay"} /\ (oc \in {"retryable", "replay"} => ctx[attempt] # "wall")
  BY DEF classifyAgentLaunchErr, Outcomes
<1> HIDE DEF oc
<1>3. ctx[attempt] \notin {"off", "returned"}
  BY <1>1 DEF Inv, Control, Handling
<1>4. oc \in {"retryable", "replay"} => Settled(attempt)'
  BY <1>1, <1>2, <1>3, EndFacts DEF Settled
<1>5. adapter' \in [Attempts -> Adapters]
  BY <1>1 DEF Inv, Control, Typed
<1> QED
  BY <1>1, <1>2, <1>4, <1>5, EndKeeps

LEMMA JoinKeeps == ASSUME Inv, JoinDrain PROVE Inv'
PROOF
<1>1. PICK oc \in IF drain[attempt].err THEN {"none"} ELSE Classify(adapter[attempt].outcome) :
        EndAttempt(oc)
  BY DEF JoinDrain
<1>2. /\ main = "join" /\ drain[attempt].pc = "done"
      /\ UNCHANGED <<def, attempt, stopped, adapter, drain, sink, log>>
  BY DEF JoinDrain
<1>3. /\ oc \in Outcomes \cup {"none", "replay"}
      /\ oc \in {"retryable", "replay"} => adapter[attempt].outcome # "denied"
  BY <1>1 DEF Classify, Outcomes, classifyAgentLaunchErr, snapshotFailureOutcome
<1>4. adapter[attempt].outcome # "none"
  BY <1>2 DEF Inv, Control, Handling
<1>5. oc \in {"retryable", "replay"} => Settled(attempt)'
  BY <1>2, <1>3, <1>4 DEF Settled
<1>6. adapter' \in [Attempts -> Adapters]
  BY <1>2 DEF Inv, Control, Typed
<1> QED
  BY <1>1, <1>2, <1>3, <1>4, <1>5, <1>6, EndKeeps

LEMMA CodeKeeps == ASSUME Inv, runCode PROVE Inv'
PROOF
<1>1. PICK exit \in {0, 1, 78}, parseErr \in BOOLEAN,
           fault \in {"none", "call", "capture", "snap", "toolarge"} :
        LET oc == ClassifyOutcome(exit, parseErr, fault = "call" \/ stopped)
            seen == fault # "call" /\ ~ stopped /\ ~ (exit = 0 /\ fault = "capture")
        IN  /\ adapter' = [adapter EXCEPT ![attempt].outcome =
                              IF seen /\ exit \in def.nonRetryable THEN "denied" ELSE "exited"]
            /\ EndAttempt(CASE exit = 0 /\ fault = "capture" -> "retryable"
                            [] oc = "ok" /\ fault = "snap" -> snapshotFailureOutcome(FALSE)
                            [] oc = "ok" /\ fault = "toolarge" -> snapshotFailureOutcome(TRUE)
                            [] OTHER -> oc)
  BY DEF runCode
<1> DEFINE oc == ClassifyOutcome(exit, parseErr, fault = "call" \/ stopped)
           seen == fault # "call" /\ ~ stopped /\ ~ (exit = 0 /\ fault = "capture")
           end == CASE exit = 0 /\ fault = "capture" -> "retryable"
                    [] oc = "ok" /\ fault = "snap" -> snapshotFailureOutcome(FALSE)
                    [] oc = "ok" /\ fault = "toolarge" -> snapshotFailureOutcome(TRUE)
                    [] OTHER -> oc
           said == IF seen /\ exit \in def.nonRetryable THEN "denied" ELSE "exited"
<1>2. oc \in Outcomes /\ (seen /\ exit \in def.nonRetryable => oc = "permanent")
  BY DEF ClassifyOutcome, Outcomes
<1>3. EndAttempt(end) /\ adapter' = [adapter EXCEPT ![attempt].outcome = said]
  BY <1>1
<1>4. end \in Outcomes /\ (said = "denied" => end = "permanent") /\ said \in {"denied", "exited"}
  <2> HIDE DEF oc
  <2> QED
    BY <1>2 DEF Outcomes, snapshotFailureOutcome
<1> HIDE DEF end, said, oc, seen
<1>5. /\ main = "dispatch" /\ def.kind = "code"
      /\ UNCHANGED <<def, attempt, stopped, drain, sink, log>>
  BY DEF runCode
<1>6. attempt \in Attempts /\ ctx[attempt] = "off"
  BY <1>5, AttemptFacts DEF Inv, Control, Handling
<1>7. /\ adapter' \in [Attempts -> Adapters] /\ adapter'[attempt].outcome = said
      /\ \A a \in Attempts : adapter'[a].queue = adapter[a].queue
                             /\ adapter'[a].emitted = adapter[a].emitted
      /\ \A a \in Attempts \ {attempt} : adapter'[a] = adapter[a]
  <2>1. Typed /\ said \in Ends
    BY <1>4 DEF Inv, Control, Ends
  <2> QED
    BY <1>3, <1>6, <2>1, OutcomeFacts
<1>8. end \in {"retryable", "replay"} => Settled(attempt)'
  <2>1. ctx'[attempt] = "off" /\ attempt' = attempt
    BY <1>3, <1>5, <1>6, EndFacts
  <2> QED
    BY <1>4, <1>7, <2>1 DEF Settled
<1> QED
  BY <1>3, <1>4, <1>5, <1>6, <1>7, <1>8, EndKeeps

-----------------------------------------------------------------------------
(* The adapter.                                                            *)

LEMMA EndsKeep == ASSUME Inv, NEW a \in Attempts, AdapterEnds(a) PROVE Inv'
PROOF
<1> USE DEF Inv, Control
<1>1. PICK oc \in {"ok", "unparseable", "error", "denied", "replay"} :
        adapter' = [adapter EXCEPT ![a].outcome = oc]
  BY DEF AdapterEnds
<1>2. /\ drain[a].pc # "off" /\ adapter[a].outcome = "none"
      /\ UNCHANGED <<def, main, attempt, dr, stopped, ctx, drain, sink, log>>
  BY DEF AdapterEnds
<1>3. /\ adapter' \in [Attempts -> Adapters] /\ adapter'[a].outcome # "none"
      /\ \A b \in Attempts : adapter'[b].queue = adapter[b].queue
                             /\ adapter'[b].emitted = adapter[b].emitted
      /\ \A b \in Attempts \ {a} : adapter'[b] = adapter[b]
  <2>1. Typed /\ oc \in Ends /\ oc # "none"
    BY DEF Ends
  <2> QED
    BY <1>1, <2>1, OutcomeFacts
<1>4. ctx[a] \notin {"off", "returned"} /\ attempt \in Attempts /\ Attempts \subseteq Nat
  BY <1>2, AttemptFacts DEF Launched
<1>5. Typed'
  BY <1>2, <1>3 DEF Typed
<1>6. ASSUME NEW b \in Attempts PROVE Launched(b)'
  BY <1>2, <1>3, <1>4, <1>6 DEF Launched
<1>7. Handling'
  BY <1>2, <1>3, <1>4 DEF Handling
<1>8. Sinking' /\ Over'
  BY <1>2 DEF Sinking, Over
<1>9. Retried'
  BY <1>2, <1>3, <1>4 DEF Retried, Settled
<1>10. Control'
  BY <1>5, <1>6, <1>7, <1>8, <1>9
<1>11. Kept /\ JournalKept
  BY <1>2, <1>3, <1>4 DEF Kept, JournalKept
<1> QED
  BY <1>10, <1>11, StationsFrame, JournalFrame

LEMMA EmitsKeep == ASSUME Inv, NEW a \in Attempts, AdapterEmits(a) PROVE Inv'
PROOF
<1> USE DEF Inv, Control
<1> DEFINE n == adapter[a].emitted + 1
           id == <<a, n>>
<1>0. attempt \in Attempts /\ Attempts \subseteq Nat
  BY AttemptFacts
<1>1. /\ drain[a].pc \in {"loop", "deliver"} /\ adapter[a].outcome = "none"
      /\ adapter' = [adapter EXCEPT ![a].emitted = @ + 1, ![a].queue = Append(@, id)]
      /\ UNCHANGED <<def, main, attempt, dr, stopped, ctx, drain, sink, log>>
  BY DEF AdapterEmits
<1>2. adapter[a] \in Adapters /\ adapter[a].emitted \in Nat /\ adapter[a].queue \in Seq(Ids)
  BY DEF Typed, Adapters
<1>3. n \in Nat /\ id \in Ids /\ id[1] = a /\ id[2] = n
  BY <1>2 DEF Ids
<1>4. /\ Append(adapter[a].queue, id) \in Seq(Ids)
      /\ ToSet(Append(adapter[a].queue, id)) = Unread(a) \cup {id}
      /\ Increasing(adapter[a].queue) /\ Precede(Unread(a), {id})
           => Increasing(Append(adapter[a].queue, id))
  BY <1>2, <1>3, AppendEvents DEF Unread
<1>5. /\ adapter'[a].emitted = n /\ adapter'[a].queue = Append(adapter[a].queue, id)
      /\ adapter'[a].outcome = adapter[a].outcome
      /\ \A b \in Attempts \ {a} : adapter'[b] = adapter[b]
      /\ adapter' \in [Attempts -> Adapters]
  <2> HIDE DEF n, id, Ids
  <2> DEFINE new == [adapter[a] EXCEPT !.emitted = n, !.queue = Append(adapter[a].queue, id)]
  <2>0. adapter \in [Attempts -> Adapters]
    BY DEF Typed
  <2>1. adapter' = [b \in Attempts |-> IF b = a THEN new ELSE adapter[b]]
    BY <1>1, <2>0 DEF n
  <2>2. /\ new \in Adapters /\ new.emitted = n /\ new.outcome = adapter[a].outcome
        /\ new.queue = Append(adapter[a].queue, id)
    BY <1>2, <1>3, <1>4 DEF Adapters
  <2> HIDE DEF new
  <2> QED
    BY <2>0, <2>1, <2>2
<1> HIDE DEF n, id, Ids
<1>6. Typed'
  BY <1>1, <1>5 DEF Typed
<1>7. ASSUME NEW b \in Attempts PROVE Launched(b)'
  BY <1>0, <1>1, <1>5, <1>7 DEF Launched
<1>8. Handling' /\ Retried'
  BY <1>0, <1>1, <1>5 DEF Handling, Retried, Settled
<1>9. Sinking' /\ Over'
  BY <1>1 DEF Sinking, Over
<1>10. Control'
  BY <1>6, <1>7, <1>8, <1>9
<1>11. /\ Journaled' = Journaled /\ Pend' = Pend /\ Queue' = Queue
       /\ \A b \in Attempts : Hold(b)' = Hold(b) /\ Buf(b)' = Buf(b)
       /\ Unread(a)' = Unread(a) \cup {id}
       /\ \A b \in Attempts \ {a} : Unread(b)' = Unread(b) /\ Sent(b)' = Sent(b)
  BY <1>1, <1>4, <1>5 DEF Journaled, EventAt, Pend, Queue, Hold, Buf, Unread, Sent
<1>12. Sent(a)' = Sent(a) \cup {id}
  <2>1. 1 .. n = (1 .. adapter[a].emitted) \cup {n}
    BY <1>2 DEF n
  <2> QED
    BY <1>5, <2>1 DEF Sent, id
<1>13. \A x \in Sent(a) : x[1] = a /\ x[2] < n
  BY <1>2, <1>3 DEF Sent, n
<1>14. \A x \in Journaled \cup Pend \cup Queue : x \in Ids /\ x[1] \in Attempts /\ x \in Sent(x[1])
  BY DEF Stations, Owned, Ids
<1>15. Precede(Journaled \cup Pend \cup Queue \cup Buf(a) \cup Hold(a) \cup Unread(a), {id})
  BY <1>3, <1>13, <1>14 DEF Precede, Stations, Owned
<1>16. Owned'
  BY <1>1, <1>11, <1>12, <1>14 DEF Stations, Owned
<1>17. EventsInOrder'
  BY <1>1 DEF Stations, EventsInOrder, EventAt
<1>18. InOrder'
  <2>1. Increasing(adapter'[a].queue)
    BY <1>4, <1>5, <1>15 DEF Stations, InOrder, Precede
  <2>2. /\ Precede(Journaled \cup Pend \cup Queue \cup Buf(a), Hold(a) \cup Unread(a)')
        /\ Precede(Hold(a), Unread(a)')
    BY <1>11, <1>15 DEF Stations, InOrder, Precede
  <2> QED
    BY <1>1, <1>5, <1>11, <2>1, <2>2 DEF Stations, InOrder
<1>19. Whole'
  BY <1>1, <1>11, <1>12 DEF Stations, Whole
<1>20. Journal'
  <2>1. main \in Committed /\ ctx[attempt] = "returned" => a # attempt
    BY <1>1, <1>0 DEF Launched
  <2> QED
    BY <1>0, <1>1, <1>5, <1>11, <2>1
       DEF Journal, Shaped, CommittedComplete, SinkErrorHalts, Finalized
<1> QED
  BY <1>10, <1>16, <1>17, <1>18, <1>19, <1>20 DEF Stations

-----------------------------------------------------------------------------
(* The drain goroutine.                                                    *)

LEMMA DrainTyped ==
  ASSUME Typed, NEW a \in Attempts
  PROVE /\ drain[a] \in Drains /\ drain[a].hold \in Seq(Ids) /\ drain[a].buf \in Seq(Ids)
        /\ adapter[a] \in Adapters /\ adapter[a].queue \in Seq(Ids)
        /\ sink \in Sinks /\ sink.queue \in Seq(Ids) /\ sink.pending \in Seq(Ids)
        /\ drain \in [Attempts -> Drains] /\ adapter \in [Attempts -> Adapters]
  BY DEF Typed, Drains, Adapters, Sinks

\* A step of one drain that changes neither the contexts nor the sink's state
\* keeps the control part, when it moves from one live state to another.
LEMMA DrainControl ==
  ASSUME Control, NEW a \in Attempts,
         UNCHANGED <<def, main, attempt, dr, stopped, ctx, log>>,
         drain' \in [Attempts -> Drains], adapter' \in [Attempts -> Adapters], sink' \in Sinks,
         \A b \in Attempts \ {a} : drain'[b] = drain[b] /\ adapter'[b] = adapter[b],
         adapter'[a].outcome = adapter[a].outcome,
         drain[a].pc \in {"loop", "deliver"}, drain'[a].pc \in {"loop", "deliver", "done"},
         drain'[a].pc # "deliver" => drain'[a].hold = <<>>,
         drain'[a].pc = "done" /\ ctx[a] = "live" =>
           adapter'[a].queue = <<>> /\ adapter'[a].outcome # "none",
         sink'.closed = sink.closed, sink'.timer = sink.timer, sink'.flushing = sink.flushing,
         sink'.exited = sink.exited, sink'.err = sink.err, sink'.done = sink.done,
         sink'.pending = sink.pending,
         sink'.queue = sink.queue \/ (~ sink.closed /\ Len(sink'.queue) <= SinkBuffer)
  PROVE Control'
PROOF
<1> USE DEF Control
<1>0. attempt \in Attempts /\ Attempts \subseteq Nat /\ ctx[a] \notin {"off", "returned"}
  BY AttemptFacts DEF Launched
<1>1. Typed'
  BY DEF Typed
<1>2. ASSUME NEW b \in Attempts PROVE Launched(b)'
  BY <1>0, <1>2 DEF Launched
<1>3. Handling' /\ Retried'
  BY <1>0 DEF Handling, Retried, Settled
<1>4. Sinking'
  BY <1>0 DEF Sinking
<1>5. Over'
  BY DEF Over
<1> QED
  BY <1>1, <1>2, <1>3, <1>4, <1>5

LEMMA StopsDraining == ASSUME Inv, NEW a \in Attempts, DrainStops(a) PROVE Inv'
PROOF
<1>1. /\ drain[a].pc = "loop" /\ drain[a].hold = <<>> /\ Typed
      /\ UNCHANGED <<def, main, attempt, dr, stopped, ctx, adapter, sink, log>>
      /\ ctx[a] = "live" => adapter[a].queue = <<>> /\ adapter[a].outcome # "none"
  BY DEF DrainStops, Inv, Control, Launched
<1>2. /\ drain'[a].pc = "done" /\ drain'[a].hold = <<>> /\ drain'[a].buf = drain[a].buf
      /\ drain' \in [Attempts -> Drains] /\ \A b \in Attempts \ {a} : drain'[b] = drain[b]
  <2> DEFINE new == [drain[a] EXCEPT !.pc = "done", !.hold = <<>>, !.err = FALSE]
  <2> HIDE DEF Ids
  <2>1. drain' = [b \in Attempts |-> IF b = a THEN new ELSE drain[b]]
    BY <1>1, DrainTyped DEF DrainStops, DrainEnd
  <2>2. new \in Drains /\ new.pc = "done" /\ new.hold = <<>> /\ new.buf = drain[a].buf
    BY <1>1, DrainTyped DEF Drains
  <2> HIDE DEF new
  <2> QED
    BY <1>1, <2>1, <2>2, DrainTyped
<1>3. adapter' \in [Attempts -> Adapters] /\ sink' \in Sinks
  BY <1>1 DEF Typed
<1>4. Control'
  BY <1>1, <1>2, <1>3, DrainControl DEF Inv
<1>5. Kept /\ JournalKept
  BY <1>1, <1>2, AttemptFacts DEF Kept, JournalKept
<1> QED
  BY <1>4, <1>5, StationsFrame, JournalFrame DEF Inv

LEMMA TakesKeep == ASSUME Inv, NEW a \in Attempts, DrainTake(a) PROVE Inv'
PROOF
<1> DEFINE h == Head(adapter[a].queue)
           t == Tail(adapter[a].queue)
<1>1. /\ drain[a].pc = "loop" /\ drain[a].hold = <<>> /\ Typed /\ adapter[a].queue # <<>>
      /\ UNCHANGED <<def, main, attempt, dr, stopped, ctx, sink, log>>
  BY DEF DrainTake, Inv, Control, Launched
<1>2. /\ h \in Ids /\ t \in Seq(Ids) /\ Unread(a) = {h} \cup ToSet(t)
      /\ Increasing(adapter[a].queue) => Increasing(t) /\ Precede({h}, ToSet(t))
  BY <1>1, DrainTyped, TailEvents DEF Unread
<1>3. <<h>> \in Seq(Ids) /\ Len(<<h>>) <= 1
  <2> HIDE DEF h, Ids
  <2> QED
    BY <1>2
<1> HIDE DEF h, t, Ids
<1>4. /\ drain'[a].pc = "deliver" /\ drain'[a].hold = <<h>> /\ drain'[a].buf = drain[a].buf
      /\ drain' \in [Attempts -> Drains] /\ \A b \in Attempts \ {a} : drain'[b] = drain[b]
  <2> DEFINE new == [drain[a] EXCEPT !.pc = "deliver", !.hold = <<h>>]
  <2>1. drain' = [b \in Attempts |-> IF b = a THEN new ELSE drain[b]]
    BY <1>1, DrainTyped DEF DrainTake, h
  <2>2. new \in Drains /\ new.pc = "deliver" /\ new.hold = <<h>> /\ new.buf = drain[a].buf
    BY <1>1, <1>3, DrainTyped DEF Drains
  <2> HIDE DEF new
  <2> QED
    BY <1>1, <2>1, <2>2, DrainTyped
<1>5. /\ adapter'[a].queue = t /\ adapter'[a].emitted = adapter[a].emitted
      /\ adapter'[a].outcome = adapter[a].outcome
      /\ adapter' \in [Attempts -> Adapters] /\ \A b \in Attempts \ {a} : adapter'[b] = adapter[b]
  <2> DEFINE new == [adapter[a] EXCEPT !.queue = t]
  <2>1. adapter' = [b \in Attempts |-> IF b = a THEN new ELSE adapter[b]]
    BY <1>1, DrainTyped DEF DrainTake, t
  <2>2. /\ new \in Adapters /\ new.queue = t /\ new.emitted = adapter[a].emitted
        /\ new.outcome = adapter[a].outcome
    BY <1>1, <1>2, DrainTyped DEF Adapters
  <2> HIDE DEF new
  <2> QED
    BY <1>1, <2>1, <2>2, DrainTyped
<1>6. Control'
  <2>1. sink' \in Sinks
    BY <1>1 DEF Typed
  <2> QED
    BY <1>1, <1>4, <1>5, <2>1, DrainControl DEF Inv
<1>7. /\ Journaled' = Journaled /\ Pend' = Pend /\ Queue' = Queue
      /\ \A b \in Attempts : Buf(b)' = Buf(b) /\ Sent(b)' = Sent(b)
      /\ \A b \in Attempts \ {a} : Unread(b)' = Unread(b) /\ Hold(b)' = Hold(b)
      /\ Unread(a)' = ToSet(t) /\ Hold(a)' = {h} /\ Hold(a) = {}
  BY <1>1, <1>4, <1>5, ToSetOne, ToSetEmpty
     DEF Journaled, EventAt, Pend, Queue, Hold, Buf, Unread, Sent
<1>8. Owned'
  <2>1. \A x \in Journaled \cup Pend \cup Queue : x \in Ids /\ x[1] \in Attempts /\ x \in Sent(x[1])
    BY DEF Inv, Stations, Owned, Ids
  <2>2. \A b \in Attempts : (Hold(b) \cup Buf(b) \cup Unread(b) \subseteq Sent(b))'
    BY <1>2, <1>7 DEF Inv, Stations, Owned
  <2>3. \A b \in Attempts : drain'[b].buf = drain[b].buf
    BY <1>4
  <2> QED
    BY <1>1, <1>7, <2>1, <2>2, <2>3 DEF Inv, Stations, Owned
<1>9. InOrder'
  <2>1. Increasing(adapter'[a].queue) /\ Precede(Hold(a)', Unread(a)')
    BY <1>2, <1>5, <1>7 DEF Inv, Stations, InOrder
  <2>2. Precede(Journaled \cup Pend \cup Queue \cup Buf(a), Hold(a)' \cup Unread(a)')
    BY <1>2, <1>7 DEF Inv, Stations, InOrder, Precede
  <2> QED
    BY <1>1, <1>3, <1>4, <1>5, <1>7, <2>1, <2>2 DEF Inv, Stations, InOrder
<1>10. Whole' /\ EventsInOrder'
  BY <1>1, <1>2, <1>7 DEF Inv, Stations, Whole, EventsInOrder, EventAt
<1>11. JournalKept
  BY <1>1, <1>5, AttemptFacts DEF JournalKept
<1> QED
  BY <1>6, <1>8, <1>9, <1>10, <1>11, JournalFrame DEF Inv, Stations

LEMMA BuffersKeep == ASSUME Inv, NEW a \in Attempts, DrainBuffers(a) PROVE Inv'
PROOF
<1> DEFINE h == drain[a].hold
           s == drain[a].buf \o h
<1>1. /\ drain[a].pc = "deliver" /\ ~ def.live /\ Typed
      /\ UNCHANGED <<def, main, attempt, dr, stopped, ctx, adapter, sink, log>>
  BY DEF DrainBuffers, Inv, Control
<1>2. /\ s \in Seq(Ids) /\ ToSet(s) = Buf(a) \cup Hold(a)
      /\ Increasing(drain[a].buf) /\ Precede(Buf(a), Hold(a)) => Increasing(s)
  <2>1. Len(h) <= 1 /\ h \in Seq(Ids) /\ drain[a].buf \in Seq(Ids)
    BY <1>1, DrainTyped DEF Inv, Stations, InOrder
  <2> QED
    BY <2>1, JoinEvents DEF Buf, Hold
<1> HIDE DEF h, s, Ids
<1>3. /\ drain'[a].pc = "loop" /\ drain'[a].hold = <<>> /\ drain'[a].buf = s
      /\ drain' \in [Attempts -> Drains] /\ \A b \in Attempts \ {a} : drain'[b] = drain[b]
  <2> DEFINE new == [drain[a] EXCEPT !.pc = "loop", !.hold = <<>>, !.buf = s]
  <2>1. drain' = [b \in Attempts |-> IF b = a THEN new ELSE drain[b]]
    BY <1>1, DrainTyped DEF DrainBuffers, s, h
  <2>2. new \in Drains /\ new.pc = "loop" /\ new.hold = <<>> /\ new.buf = s
    <3>1. drain[a] \in Drains /\ s \in Seq(Ids) /\ <<>> \in Seq(Ids)
      BY <1>1, <1>2, DrainTyped
    <3> QED
      BY <3>1 DEF Drains
  <2> HIDE DEF new
  <2> QED
    BY <1>1, <2>1, <2>2, DrainTyped
<1>4. Control'
  <2>1. sink' \in Sinks /\ adapter' \in [Attempts -> Adapters]
    BY <1>1 DEF Typed
  <2> QED
    BY <1>1, <1>3, <2>1, DrainControl DEF Inv
<1>5. /\ Journaled' = Journaled /\ Pend' = Pend /\ Queue' = Queue
      /\ \A b \in Attempts : Unread(b)' = Unread(b) /\ Sent(b)' = Sent(b)
      /\ \A b \in Attempts \ {a} : Buf(b)' = Buf(b) /\ Hold(b)' = Hold(b)
      /\ Buf(a)' = Buf(a) \cup Hold(a) /\ Hold(a)' = {}
  BY <1>1, <1>2, <1>3, ToSetEmpty
     DEF Journaled, EventAt, Pend, Queue, Hold, Buf, Unread, Sent
<1>6. Owned'
  <2>1. \A x \in Journaled \cup Pend \cup Queue : x \in Ids /\ x[1] \in Attempts /\ x \in Sent(x[1])
    BY DEF Inv, Stations, Owned, Ids
  <2>2. \A b \in Attempts : (Hold(b) \cup Buf(b) \cup Unread(b) \subseteq Sent(b))'
    BY <1>5 DEF Inv, Stations, Owned
  <2> QED
    BY <1>1, <1>5, <2>1, <2>2 DEF Inv, Stations, Owned
<1>7. InOrder'
  <2>1. Increasing(drain'[a].buf)
    BY <1>2, <1>3 DEF Inv, Stations, InOrder, Precede
  <2>2. /\ Precede(Journaled \cup Pend \cup Queue \cup Buf(a)', Hold(a)' \cup Unread(a)')
        /\ Precede(Hold(a)', Unread(a)')
    BY <1>5 DEF Inv, Stations, InOrder, Precede
  <2>3. Len(drain'[a].hold) <= 1
    BY <1>3
  <2> QED
    BY <1>1, <1>3, <1>5, <2>1, <2>2, <2>3 DEF Inv, Stations, InOrder
<1>8. Whole' /\ EventsInOrder'
  BY <1>1, <1>5 DEF Inv, Stations, Whole, EventsInOrder, EventAt
<1>9. JournalKept
  BY <1>1, AttemptFacts DEF JournalKept
<1> QED
  BY <1>4, <1>6, <1>7, <1>8, <1>9, JournalFrame DEF Inv, Stations

LEMMA SendsKeep == ASSUME Inv, NEW a \in Attempts, SinkSend(a) PROVE Inv'
PROOF
<1> DEFINE h == drain[a].hold
           s == sink.queue \o h
<1>1. /\ drain[a].pc = "deliver" /\ def.live /\ Typed /\ ~ sink.closed
      /\ Len(sink.queue) < SinkBuffer
      /\ UNCHANGED <<def, main, attempt, dr, stopped, ctx, adapter, log>>
  BY DEF SinkSend, Send, Inv, Control
<1>2. /\ s \in Seq(Ids) /\ ToSet(s) = Queue \cup Hold(a) /\ Len(s) <= SinkBuffer
      /\ Increasing(sink.queue) /\ Precede(Queue, Hold(a)) => Increasing(s)
  <2>1. Len(h) <= 1 /\ h \in Seq(Ids) /\ sink.queue \in Seq(Ids)
    BY <1>1, DrainTyped DEF Inv, Stations, InOrder
  <2>2. /\ s \in Seq(Ids) /\ ToSet(s) = Queue \cup Hold(a) /\ Len(s) <= Len(sink.queue) + 1
        /\ Increasing(sink.queue) /\ Precede(Queue, Hold(a)) => Increasing(s)
    BY <2>1, JoinEvents DEF Queue, Hold
  <2> HIDE DEF s, h, Ids
  <2>3. Len(sink.queue) \in Nat /\ Len(s) \in Nat /\ SinkBuffer \in Nat
    <3>1. sink.queue \in Seq(Ids) /\ s \in Seq(Ids)
      BY <2>1, <2>2
    <3>2. SinkBuffer \in Nat
      BY DispatchAssumption
    <3> QED
      BY <3>1, <3>2
  <2>4. Len(s) <= SinkBuffer
    <3>1. Len(sink.queue) < SinkBuffer /\ Len(s) <= Len(sink.queue) + 1
      BY <1>1, <2>2
    <3> QED
      BY <2>3, <3>1
  <2> QED
    BY <2>2, <2>4
<1> HIDE DEF h, s, Ids
<1>3. /\ drain'[a].pc = "loop" /\ drain'[a].hold = <<>> /\ drain'[a].buf = drain[a].buf
      /\ drain' \in [Attempts -> Drains] /\ \A b \in Attempts \ {a} : drain'[b] = drain[b]
  <2> DEFINE new == [drain[a] EXCEPT !.pc = "loop", !.hold = <<>>]
  <2>1. drain' = [b \in Attempts |-> IF b = a THEN new ELSE drain[b]]
    BY <1>1, DrainTyped DEF SinkSend, Send
  <2>2. new \in Drains /\ new.pc = "loop" /\ new.hold = <<>> /\ new.buf = drain[a].buf
    <3>1. drain[a] \in Drains /\ <<>> \in Seq(Ids)
      BY <1>1, DrainTyped
    <3> QED
      BY <3>1 DEF Drains
  <2> HIDE DEF new
  <2> QED
    BY <1>1, <2>1, <2>2, DrainTyped
<1>4. /\ sink' \in Sinks /\ sink'.queue = s /\ sink'.pending = sink.pending
      /\ sink'.closed = sink.closed /\ sink'.timer = sink.timer /\ sink'.flushing = sink.flushing
      /\ sink'.exited = sink.exited /\ sink'.err = sink.err /\ sink'.done = sink.done
  <2>1. sink \in Sinks /\ s \in Seq(Ids)
    BY <1>1, <1>2, DrainTyped
  <2>2. sink' = [sink EXCEPT !.queue = s]
    BY DEF SinkSend, Send, s, h
  <2> QED
    BY <2>1, <2>2 DEF Sinks
<1>5. Control'
  <2>1. adapter' \in [Attempts -> Adapters]
    BY <1>1 DEF Typed
  <2> QED
    BY <1>1, <1>2, <1>3, <1>4, <2>1, DrainControl DEF Inv
<1>6. /\ Journaled' = Journaled /\ Pend' = Pend /\ Queue' = Queue \cup Hold(a) /\ Hold(a)' = {}
      /\ \A b \in Attempts : Unread(b)' = Unread(b) /\ Sent(b)' = Sent(b) /\ Buf(b)' = Buf(b)
      /\ \A b \in Attempts \ {a} : Hold(b)' = Hold(b)
  BY <1>1, <1>2, <1>3, <1>4, ToSetEmpty
     DEF Journaled, EventAt, Pend, Queue, Hold, Buf, Unread, Sent
<1>7. \A x \in Hold(a) : x \in Ids /\ x[1] = a /\ x \in Sent(a)
  BY <1>1, DrainTyped, ToSetElements DEF Inv, Stations, Owned, Hold, Sent
<1>8. Owned'
  <2>1. \A x \in Journaled \cup Pend \cup Queue : x \in Ids /\ x[1] \in Attempts /\ x \in Sent(x[1])
    BY DEF Inv, Stations, Owned, Ids
  <2>2. \A x \in (Journaled \cup Pend \cup Queue)' : x \in Ids /\ x \in Sent(x[1])'
    BY <1>6, <1>7, <2>1
  <2>3. \A b \in Attempts : (Hold(b) \cup Buf(b) \cup Unread(b) \subseteq Sent(b))'
    BY <1>6 DEF Inv, Stations, Owned
  <2>4. \A b \in Attempts : drain'[b].buf = <<>>
    BY <1>1, <1>3 DEF Inv, Stations, Owned
  <2> QED
    BY <1>1, <2>2, <2>3, <2>4 DEF Owned
<1>9. InOrder'
  <2>1. Increasing(sink'.queue)
    BY <1>2, <1>4 DEF Inv, Stations, InOrder, Precede
  <2>2. Precede(Journaled \cup Pend, Queue')
    BY <1>6 DEF Inv, Stations, InOrder, Precede
  <2>3. ASSUME NEW b \in Attempts
        PROVE Precede(Journaled \cup Pend \cup Queue' \cup Buf(b), Hold(b)' \cup Unread(b))
    <3>1. CASE b = a
      BY <1>6, <3>1 DEF Inv, Stations, InOrder, Precede
    <3>2. CASE b # a
      <4>1. \A y \in Hold(b) \cup Unread(b) : y[1] = b
        BY DEF Inv, Stations, Owned, Sent
      <4>2. Hold(b)' = Hold(b)
        BY <1>6, <3>2
      <4>3. Precede(Hold(a), Hold(b) \cup Unread(b))
        BY <1>7, <3>2, <4>1 DEF Precede
      <4> QED
        BY <1>6, <4>2, <4>3 DEF Inv, Stations, InOrder, Precede
    <3> QED
      BY <3>1, <3>2
  <2>4. \A b \in Attempts : Precede(Hold(b)', Unread(b)) /\ Len(drain'[b].hold) <= 1
    BY <1>3, <1>6 DEF Inv, Stations, InOrder, Precede
  <2>5. \A b \in Attempts : drain'[b].buf = drain[b].buf /\ adapter'[b] = adapter[b]
    BY <1>1, <1>3
  <2> QED
    BY <1>4, <1>6, <2>1, <2>2, <2>3, <2>4, <2>5 DEF Inv, Stations, InOrder
<1>10. Whole' /\ EventsInOrder'
  BY <1>1, <1>4, <1>6 DEF Inv, Stations, Whole, EventsInOrder, EventAt
<1>11. JournalKept
  BY <1>1, <1>4, AttemptFacts DEF JournalKept
<1> QED
  BY <1>5, <1>8, <1>9, <1>10, <1>11, JournalFrame DEF Inv, Stations

LEMMA PanicKeeps == ASSUME Inv, NEW a \in Attempts, SendOnClosed(a) PROVE Inv'
PROOF
<1> USE DEF Inv, Control
<1>0. /\ main' = "panic" /\ sink.closed
      /\ ctx[a] # "off" /\ UNCHANGED <<def, attempt, dr, stopped, ctx, adapter, drain, sink, log>>
  BY DEF SendOnClosed, Launched
<1>1. Typed'
  BY <1>0 DEF Typed, Mains, Results
<1>2. ASSUME NEW b \in Attempts PROVE Launched(b)'
  <2>1. ctx[b] # "live"
    BY <1>0, <1>2 DEF Launched, Sinking, Results, Committed, Outcomes
  <2> QED
    BY <1>0, <1>2, <2>1 DEF Launched
<1>3. Handling' /\ Sinking' /\ Over' /\ Retried'
  BY <1>0 DEF Handling, Sinking, Over, Retried, Settled, Results
<1>4. Control'
  BY <1>1, <1>2, <1>3
<1> QED
  BY <1>0, <1>4, MoveKeeps DEF Results, Committed, Outcomes, Trying

\* The event a drain holds is lost with its context.
LEMMA RefusesKeep == ASSUME Inv, NEW a \in Attempts, SinkRefuses(a) PROVE Inv'
PROOF
<1>1. /\ drain[a].pc = "deliver" /\ Typed /\ stopped' \in BOOLEAN
      /\ UNCHANGED <<def, main, attempt, dr, adapter, log>>
  BY DEF SinkRefuses, Inv, Control, Typed
<1>2. /\ drain'[a].pc = "done" /\ drain'[a].hold = <<>> /\ drain'[a].buf = drain[a].buf
      /\ drain' \in [Attempts -> Drains] /\ \A b \in Attempts \ {a} : drain'[b] = drain[b]
  <2> DEFINE new == [drain[a] EXCEPT !.pc = "done", !.hold = <<>>, !.err = TRUE]
  <2> HIDE DEF Ids
  <2>1. drain' = [b \in Attempts |-> IF b = a THEN new ELSE drain[b]]
    BY <1>1, DrainTyped DEF SinkRefuses, DrainEnd
  <2>2. new \in Drains /\ new.pc = "done" /\ new.hold = <<>> /\ new.buf = drain[a].buf
    <3>1. drain[a] \in Drains /\ <<>> \in Seq(Ids)
      BY <1>1, DrainTyped
    <3> QED
      BY <3>1 DEF Drains
  <2> HIDE DEF new
  <2> QED
    BY <1>1, <2>1, <2>2, DrainTyped
<1>3. ctx[a] \notin {"off", "returned"}
  BY <1>1 DEF Inv, Control, Launched
<1>4. /\ ContextsEnd /\ ctx'[a] \notin Alive
      /\ \A b \in Attempts : ctx'[b] \in Alive => ctx[b] \in Alive
      /\ \A b \in Attempts : (ctx'[b] = "off" <=> ctx[b] = "off")
      /\ \A b \in Attempts : ctx'[b] \in {"live", "returned"} => ctx'[b] = ctx[b]
      /\ \A b \in Attempts : ctx'[b] # "live" => ctx'[b] = ctx[b] \/ ctx[b] = "live"
  <2>1. ContextsEnd /\ ctx' = StopAll(EndContext(ctx, a, "sink"))
    BY <1>1, EndsContexts DEF SinkRefuses
  <2>2. ctx'[a] \notin Alive
    BY <1>1, <1>3, <2>1 DEF Typed, StopAll, EndContext, Alive
  <2> QED
    BY <2>1, <2>2 DEF ContextsEnd, Alive
<1>5. /\ sink' \in Sinks /\ sink'.queue = sink.queue /\ sink'.pending = sink.pending
      /\ sink'.closed = sink.closed /\ sink'.timer = sink.timer /\ sink'.flushing = sink.flushing
      /\ sink'.exited = sink.exited /\ sink'.done = sink.done
      /\ sink'.err = sink.err \/ ~ sink.closed
  BY <1>1, DrainTyped DEF SinkRefuses, Sinks
<1>6. Control'
  <2> USE DEF Inv, Control
  <2>0. attempt \in Attempts /\ Attempts \subseteq Nat
    BY AttemptFacts
  <2>1. Typed'
    BY <1>1, <1>2, <1>4, <1>5 DEF Typed, ContextsEnd
  <2>2. ASSUME NEW b \in Attempts PROVE Launched(b)'
    <3>1. CASE b = a
      BY <1>1, <1>2, <1>3, <1>4, <2>0, <3>1 DEF Launched, Alive, ContextsEnd
    <3>2. CASE b # a
      BY <1>1, <1>2, <1>4, <2>0, <2>2, <3>2 DEF Launched, ContextsEnd
    <3> QED
      BY <3>1, <3>2
  <2>3. Handling'
    BY <1>1, <1>3, <1>4, <2>0 DEF Handling, ContextsEnd
  <2>4. Sinking'
    BY <1>1, <1>3, <1>4, <1>5 DEF Sinking
  <2>5. Over'
    BY <1>1, <1>3, <1>5 DEF Over
  <2>6. Retried'
    BY <1>1, <1>4, <2>0 DEF Retried, Settled, Launched, ContextsEnd
  <2> QED
    BY <2>1, <2>2, <2>3, <2>4, <2>5, <2>6
<1>7. /\ Journaled' = Journaled /\ Pend' = Pend /\ Queue' = Queue /\ Hold(a)' = {}
      /\ \A b \in Attempts : Unread(b)' = Unread(b) /\ Sent(b)' = Sent(b) /\ Buf(b)' = Buf(b)
      /\ \A b \in Attempts \ {a} : Hold(b)' = Hold(b)
  BY <1>1, <1>2, <1>5, ToSetEmpty
     DEF Journaled, EventAt, Pend, Queue, Hold, Buf, Unread, Sent
<1>8. Owned'
  <2>1. \A x \in Journaled \cup Pend \cup Queue : x \in Ids /\ x[1] \in Attempts /\ x \in Sent(x[1])
    BY DEF Inv, Stations, Owned, Ids
  <2>2. \A b \in Attempts : (Hold(b) \cup Buf(b) \cup Unread(b) \subseteq Sent(b))'
    BY <1>7 DEF Inv, Stations, Owned
  <2>3. \A b \in Attempts : drain'[b].buf = drain[b].buf
    BY <1>2
  <2> QED
    BY <1>1, <1>5, <1>7, <2>1, <2>2, <2>3 DEF Inv, Stations, Owned
<1>9. InOrder'
  <2>1. \A b \in Attempts : Hold(b)' \subseteq Hold(b) /\ Len(drain'[b].hold) <= 1
                            /\ drain'[b].buf = drain[b].buf
    <3>1. \A b \in Attempts : Len(drain[b].hold) <= 1
      BY DEF Inv, Stations, InOrder
    <3>2. Len(<<>>) <= 1
      OBVIOUS
    <3> QED
      BY <1>2, <1>7, <3>1, <3>2
  <2>2. ASSUME NEW b \in Attempts
        PROVE /\ Precede(Journaled \cup Pend \cup Queue \cup Buf(b), Hold(b)' \cup Unread(b))
              /\ Precede(Hold(b)', Unread(b))
    BY <2>1, <2>2 DEF Inv, Stations, InOrder, Precede
  <2> QED
    BY <1>1, <1>5, <1>7, <2>1, <2>2 DEF Inv, Stations, InOrder
<1>10. Whole' /\ EventsInOrder'
  BY <1>1, <1>4, <1>5, <1>7 DEF Inv, Stations, Whole, EventsInOrder, EventAt, Alive
<1>11. JournalKept
  <2>1. main \in Outcomes \cup Committed => sink.closed
    BY <1>3 DEF Inv, Control, Over, Results, Committed, Outcomes
  <2> QED
    BY <1>1, <1>4, <1>5, <2>1, AttemptFacts DEF JournalKept
<1> QED
  BY <1>6, <1>8, <1>9, <1>10, <1>11, JournalFrame DEF Inv, Stations

-----------------------------------------------------------------------------
(* The sink goroutine.                                                     *)

\* A sink that can still append serves a step without a verdict.
LEMMA NotOver ==
  ASSUME Inv, Running, ~ sink.exited,
         sink.queue # <<>> \/ sink.timer \/ sink.flushing \/ sink.closed
  PROVE main \notin Results
  BY DEF Inv, Control, Over, Sinking, Running

\* What the sink moves stays in order.
LEMMA SinkStations ==
  ASSUME Inv, UNCHANGED <<def, drain, adapter>>, EventsInOrder',
         Increasing(sink'.pending), Increasing(sink'.queue),
         Precede(Journaled', Pend'), Precede(Journaled' \cup Pend', Queue'),
         Journaled' \cup Pend' \cup Queue' \subseteq Journaled \cup Pend \cup Queue,
         sink'.done # "err" =>
           sink.done # "err" /\ Journaled \cup Pend \cup Queue \subseteq Journaled' \cup Pend' \cup Queue',
         ~ def.live => sink'.pending = <<>> /\ sink'.queue = <<>>
                       /\ (main' \notin Results => Journaled' = {}),
         \A a \in Attempts : ctx'[a] \in Alive => ctx[a] \in Alive
  PROVE Stations'
PROOF
<1> DEFINE A == Journaled \cup Pend \cup Queue
           B == Journaled' \cup Pend' \cup Queue'
<1>1. \A a \in Attempts :
        Hold(a)' = Hold(a) /\ Buf(a)' = Buf(a) /\ Unread(a)' = Unread(a) /\ Sent(a)' = Sent(a)
  BY DEF Hold, Buf, Unread, Sent
<1>2. \A x \in B : x \in Ids /\ x[1] \in Attempts /\ x \in Sent(x[1])
  BY DEF Inv, Stations, Owned, Ids
<1>3. Owned'
  <2>1. \A x \in (Journaled \cup Pend \cup Queue)' : x \in Ids /\ x \in Sent(x[1])'
    BY <1>1, <1>2
  <2>2. \A a \in Attempts : (Hold(a) \cup Buf(a) \cup Unread(a) \subseteq Sent(a))'
    BY <1>1 DEF Inv, Stations, Owned
  <2>3. (def.live => \A a \in Attempts : drain[a].buf = <<>>)'
    BY DEF Inv, Stations, Owned
  <2> QED
    BY <2>1, <2>2, <2>3 DEF Owned
<1>4. InOrder'
  <2>1. ASSUME NEW a \in Attempts PROVE Precede(B \cup Buf(a), Hold(a) \cup Unread(a))
    <3>1. Precede(A \cup Buf(a), Hold(a) \cup Unread(a))
      BY DEF Inv, Stations, InOrder
    <3>2. B \subseteq A
      OBVIOUS
    <3> QED
      BY <3>1, <3>2 DEF Precede
  <2> QED
    BY <1>1, <2>1 DEF Inv, Stations, InOrder
<1>5. Whole'
  <2>1. ASSUME sink'.done # "err", NEW a \in Attempts, ctx'[a] \in Alive
        PROVE Sent(a) \subseteq B \cup Hold(a) \cup Buf(a) \cup Unread(a)
    <3>1. Sent(a) \subseteq A \cup Hold(a) \cup Buf(a) \cup Unread(a) /\ A \subseteq B
      BY <2>1 DEF Inv, Stations, Whole, Alive
    <3> QED
      BY <3>1
  <2> QED
    BY <1>1, <2>1 DEF Whole, Alive
<1> QED
  BY <1>3, <1>4, <1>5 DEF Stations

LEMMA SinkControl ==
  ASSUME Control, UNCHANGED <<def, main, attempt, dr, adapter, drain>>,
         stopped' \in BOOLEAN, ContextsEnd, sink' \in Sinks, log' \in Seq(Entries),
         Sinking', Over'
  PROVE Control'
PROOF
<1> USE DEF Control
<1>0. attempt \in Attempts /\ Attempts \subseteq Nat
  BY AttemptFacts
<1>1. Typed'
  BY DEF Typed, ContextsEnd
<1>2. ASSUME NEW a \in Attempts PROVE Launched(a)'
  BY <1>2 DEF Launched, ContextsEnd
<1>3. Handling'
  BY <1>0 DEF Handling, ContextsEnd
<1>4. Retried'
  BY <1>0 DEF Retried, Settled, Launched, ContextsEnd
<1> QED
  BY <1>1, <1>2, <1>3, <1>4

\* Events in the journal of a step without a verdict.
LEMMA JournalGrows ==
  ASSUME Journal, main \notin Results, main' \notin Results, attempt' = attempt,
         main' \in Trying => main \in Trying, main' = "sleep" => main = "sleep",
         Open(log'), Closed(log'), \A n : RetriesUpTo(log, n) => RetriesUpTo(log', n)
  PROVE Journal'
PROOF
<1>1. Shaped'
  BY DEF Journal, Shaped, Results, Committed
<1>2. CommittedComplete' /\ SinkErrorHalts'
  BY DEF CommittedComplete, SinkErrorHalts, Results, Committed, Outcomes
<1> QED
  BY <1>1, <1>2 DEF Journal

\* What the sink had waiting is in the journal.
LEMMA FlushedFacts ==
  ASSUME Inv, main \notin Results
  PROVE /\ Flushed(sink) \in Seq(Entries)
        /\ Recorded(Flushed(sink)) = Journaled \cup Pend
        /\ Ordered(Flushed(sink)) /\ Open(Flushed(sink)) /\ Closed(Flushed(sink))
        /\ \A n : RetriesUpTo(log, n) => RetriesUpTo(Flushed(sink), n)
PROOF
<1>1. log \in Seq(Entries) /\ sink.pending \in Seq(Ids) /\ Open(log) /\ Ordered(log)
      /\ Journaled = Recorded(log) /\ Increasing(sink.pending) /\ Precede(Recorded(log), Pend)
  BY JournalReading DEF Inv, Control, Typed, Sinks, Journal, Shaped, Stations, InOrder
<1> QED
  BY <1>1, AppendGroup DEF Flushed, Pend

LEMMA SinkFacts ==
  ASSUME Inv
  PROVE /\ sink \in Sinks /\ sink.queue \in Seq(Ids) /\ sink.pending \in Seq(Ids)
        /\ Increasing(sink.queue) /\ Increasing(sink.pending)
        /\ Precede(Journaled, Pend) /\ Precede(Journaled \cup Pend, Queue)
        /\ log \in Seq(Entries) /\ Journaled = Recorded(log) /\ Ordered(log)
        /\ Journaled' = Recorded(log') /\ (EventsInOrder' <=> Ordered(log'))
        /\ Journaled \cup Pend \cup Queue \subseteq Ids
        /\ ~ def.live => sink.pending = <<>> /\ sink.queue = <<>>
                         /\ (main \notin Results => Journaled = {})
PROOF
<1>1. Journaled' = Recorded(log') /\ (EventsInOrder' <=> Ordered(log'))
  BY DEF Journaled, Recorded, EventAt, Events, EventsInOrder, Ordered
<1> QED
  BY <1>1, JournalReading DEF Inv, Control, Typed, Sinks, Stations, InOrder, Owned

\* A step of the sink that journals what waits, and nothing else.
LEMMA FlushStations ==
  ASSUME Inv, main \notin Results, log' = Flushed(sink), sink'.pending = <<>>,
         sink'.queue = sink.queue, UNCHANGED <<def, drain, adapter, ctx>>,
         sink'.done # "err" => sink.done # "err"
  PROVE Stations'
PROOF
<1>1. Journaled' = Journaled \cup Pend /\ EventsInOrder'
  BY FlushedFacts, SinkFacts
<1>2. Pend' = {} /\ Queue' = Queue
  BY ToSetEmpty DEF Pend, Queue
<1>3. Increasing(sink'.pending) /\ Increasing(sink'.queue)
  BY SinkFacts, ToSetEmpty
<1>4. Precede(Journaled', Pend') /\ Precede(Journaled' \cup Pend', Queue')
  BY <1>1, <1>2, SinkFacts DEF Precede
<1>5. ~ def.live => sink'.pending = <<>> /\ sink'.queue = <<>> /\ Journaled' = {}
  BY <1>1, SinkFacts, ToSetEmpty DEF Pend
<1> QED
  BY <1>1, <1>2, <1>3, <1>4, <1>5, SinkStations

LEMMA TimerKeeps == ASSUME Inv, Running, DeltaTimer PROVE Inv'
PROOF
<1>1. /\ main \notin Results /\ log' = Flushed(sink) /\ ~ sink.exited /\ sink.timer
      /\ UNCHANGED <<def, main, attempt, dr, stopped, ctx, adapter, drain>>
  BY NotOver DEF DeltaTimer
<1>2. /\ sink' \in Sinks /\ sink'.pending = <<>> /\ sink'.queue = sink.queue
      /\ sink'.done = sink.done /\ sink'.exited = sink.exited /\ sink'.closed = sink.closed
      /\ sink'.flushing = sink.flushing /\ sink'.err = sink.err
  <2> HIDE DEF Ids
  <2>1. sink \in Sinks /\ <<>> \in Seq(Ids)
    BY SinkFacts
  <2> QED
    BY <2>1 DEF DeltaTimer, Sinks
<1>3. Control'
  <2>1. Sinking' /\ Over'
    BY <1>1, <1>2 DEF Inv, Control, Sinking, Over
  <2>2. ContextsEnd /\ stopped' \in BOOLEAN
    BY <1>1 DEF Inv, Control, Typed, ContextsEnd
  <2> QED
    BY <1>1, <1>2, <2>1, <2>2, FlushedFacts, SinkControl DEF Inv
<1>4. Stations'
  BY <1>1, <1>2, FlushStations
<1>5. Journal'
  BY <1>1, FlushedFacts, JournalGrows DEF Inv
<1> QED
  BY <1>3, <1>4, <1>5 DEF Inv

LEMMA ClosedKeeps == ASSUME Inv, Running, SinkClosed PROVE Inv'
PROOF
<1>1. /\ main \notin Results /\ log' = Flushed(sink) /\ sink.closed /\ sink.queue = <<>>
      /\ ~ sink.exited /\ ~ sink.flushing
      /\ UNCHANGED <<def, main, attempt, dr, stopped, ctx, adapter, drain>>
  BY NotOver DEF SinkClosed
<1>2. /\ sink' \in Sinks /\ sink'.pending = <<>> /\ sink'.queue = sink.queue
      /\ sink'.exited /\ sink'.closed = sink.closed
      /\ sink'.done \in {"nil", "err"} /\ (sink'.done = "nil" => ~ sink.err)
      /\ sink'.flushing = sink.flushing /\ sink'.err = sink.err
  <2> HIDE DEF Ids
  <2>1. sink \in Sinks /\ <<>> \in Seq(Ids)
    BY SinkFacts
  <2> QED
    BY <2>1 DEF SinkClosed, Sinks
<1>3. Control'
  <2>1. Sinking' /\ Over'
    BY <1>1, <1>2 DEF Inv, Control, Sinking, Over
  <2>2. ContextsEnd /\ stopped' \in BOOLEAN
    BY <1>1 DEF Inv, Control, Typed, ContextsEnd
  <2> QED
    BY <1>1, <1>2, <2>1, <2>2, FlushedFacts, SinkControl DEF Inv
<1>4. Stations'
  <2>1. sink.done # "err"
    BY <1>1 DEF Inv, Control, Sinking
  <2> QED
    BY <1>1, <1>2, <2>1, FlushStations
<1>5. Journal'
  BY <1>1, FlushedFacts, JournalGrows DEF Inv
<1> QED
  BY <1>3, <1>4, <1>5 DEF Inv

LEMMA StoppedKeeps == ASSUME Inv, SinkStopped PROVE Inv'
PROOF
<1>1. /\ ~ sink.exited /\ ~ sink.flushing
      /\ UNCHANGED <<def, main, attempt, dr, stopped, ctx, adapter, drain, log>>
  BY DEF SinkStopped
<1>2. /\ sink' \in Sinks /\ sink'.pending = sink.pending /\ sink'.queue = sink.queue
      /\ sink'.exited /\ sink'.closed = sink.closed /\ sink'.done = "err"
      /\ sink'.flushing = sink.flushing /\ sink'.err = sink.err /\ sink'.timer = sink.timer
  BY SinkFacts DEF SinkStopped, Sinks
<1>3. Control'
  <2>1. Sinking' /\ Over'
    BY <1>1, <1>2 DEF Inv, Control, Sinking, Over
  <2>2. ContextsEnd /\ stopped' \in BOOLEAN
    BY <1>1 DEF Inv, Control, Typed, ContextsEnd
  <2>3. log' \in Seq(Entries)
    BY <1>1, SinkFacts
  <2> QED
    BY <1>1, <1>2, <2>1, <2>2, <2>3, SinkControl DEF Inv
<1>4. Kept /\ JournalKept
  BY <1>1, <1>2 DEF Kept, JournalKept
<1> QED
  BY <1>3, <1>4, StationsFrame, JournalFrame DEF Inv

LEMMA FailsKeep == ASSUME Inv, Running, AppendFails PROVE Inv'
PROOF
<1> DEFINE t == Tail(sink.queue)
<1>1. /\ main \notin Results /\ ~ sink.exited /\ sink.queue # <<>> /\ stopped' = TRUE
      /\ ctx' = StopAll(ctx)
      /\ UNCHANGED <<def, main, attempt, dr, adapter, drain, log>>
  BY NotOver DEF AppendFails
<1>2. /\ t \in Seq(Ids) /\ Len(t) = Len(sink.queue) - 1 /\ Increasing(t) /\ ToSet(t) \subseteq Queue
  BY <1>1, SinkFacts, TailEvents DEF Queue
<1> HIDE DEF t, Ids
<1>3. /\ sink' \in Sinks /\ sink'.queue = t /\ sink'.pending = sink.pending /\ sink'.err
      /\ sink'.exited /\ sink'.done = "err" /\ ~ sink'.flushing /\ sink'.closed = sink.closed
  <2>1. sink \in Sinks /\ t \in Seq(Ids)
    BY <1>2, SinkFacts
  <2>2. sink' = [sink EXCEPT !.queue = t, !.err = TRUE, !.exited = TRUE, !.done = "err",
                             !.flushing = FALSE]
    BY DEF AppendFails, t
  <2> QED
    BY <2>1, <2>2 DEF Sinks
<1>4. ContextsEnd /\ \A a \in Attempts : ctx'[a] \in Alive => ctx[a] \in Alive
  <2>1. ContextsEnd
    BY <1>1, EndsContexts, AttemptFacts DEF Inv, Control
  <2> QED
    BY <2>1 DEF ContextsEnd, Alive
<1>5. Control'
  <2>1. ~ (\A a \in Attempts : ctx[a] = "off")
    BY <1>1 DEF Inv, Control, Sinking
  <2>2. ~ (\A a \in Attempts : ctx'[a] = "off")
    BY <1>4, <2>1 DEF ContextsEnd
  <2>3. Len(sink'.queue) <= SinkBuffer
    <3>1. Len(sink.queue) <= SinkBuffer /\ Len(sink.queue) \in Nat /\ SinkBuffer \in Nat
      BY SinkFacts, DispatchAssumption DEF Inv, Control, Sinking
    <3> QED
      BY <1>2, <1>3, <3>1
  <2>4. Sinking'
    BY <1>1, <1>3, <2>1, <2>2, <2>3 DEF Inv, Control, Sinking, Handling
  <2>5. Over'
    BY <1>1 DEF Over
  <2>6. log' \in Seq(Entries) /\ stopped' \in BOOLEAN
    BY <1>1, SinkFacts
  <2> QED
    BY <1>1, <1>3, <1>4, <2>4, <2>5, <2>6, SinkControl DEF Inv
<1>6. Stations'
  <2>1. Journaled' = Journaled /\ EventsInOrder' /\ Pend' = Pend /\ Queue' = ToSet(t)
    BY <1>1, <1>3, SinkFacts DEF Pend, Queue
  <2>2. Precede(Journaled', Pend') /\ Precede(Journaled' \cup Pend', Queue')
    BY <1>2, <2>1, SinkFacts DEF Precede
  <2>3. def.live
    BY <1>1, SinkFacts
  <2>4. Increasing(sink'.pending) /\ Increasing(sink'.queue) /\ sink'.done = "err"
    BY <1>2, <1>3, SinkFacts
  <2>5. Journaled' \cup Pend' \cup Queue' \subseteq Journaled \cup Pend \cup Queue
    BY <1>2, <2>1
  <2> QED
    BY <1>1, <1>4, <2>1, <2>2, <2>3, <2>4, <2>5, SinkStations
<1>7. JournalKept
  BY <1>1, <1>4, AttemptFacts DEF JournalKept, Results, Committed, Outcomes, Inv, Control, ContextsEnd
<1> QED
  BY <1>5, <1>6, <1>7, JournalFrame DEF Inv

LEMMA AckKeeps == ASSUME Inv, Running, FlushAck PROVE Inv'
PROOF
<1>1. /\ main \notin Results /\ log' = Flushed(sink) /\ ~ sink.exited /\ sink.flushing
      /\ UNCHANGED <<def, attempt, stopped, ctx, adapter, drain>>
      /\ \/ main' = main /\ dr' = dr
         \/ main = "flushing" /\ main' = "close" /\ dr' = "none"
         \/ main = "flushing" /\ main' = "retry" /\ dr' = dr
  BY NotOver DEF FlushAck
<1>2. /\ sink' \in Sinks /\ sink'.pending = <<>> /\ sink'.queue = sink.queue
      /\ sink'.done = sink.done /\ sink'.exited = sink.exited /\ sink'.closed = sink.closed
      /\ ~ sink'.flushing /\ sink'.err = sink.err
  <2> HIDE DEF Ids
  <2>1. sink \in Sinks /\ <<>> \in Seq(Ids)
    BY SinkFacts
  <2> QED
    BY <2>1 DEF FlushAck, Sinks
<1>3. Control'
  <2> USE DEF Inv, Control
  <2>1. Typed'
    BY <1>1, <1>2, FlushedFacts DEF Typed, Mains, Outcomes
  <2>2. ASSUME NEW a \in Attempts PROVE Launched(a)'
    BY <1>1, <2>2 DEF Launched
  <2>3. Handling'
    BY <1>1 DEF Handling
  <2>4. Sinking'
    BY <1>1, <1>2 DEF Sinking, Results, Committed, Outcomes
  <2>5. Over'
    BY <1>1 DEF Over, Results, Committed, Outcomes
  <2>6. Retried'
    BY <1>1 DEF Retried, Settled
  <2> QED
    BY <2>1, <2>2, <2>3, <2>4, <2>5, <2>6
<1>4. Stations'
  BY <1>1, <1>2, FlushStations
<1>5. Journal'
  BY <1>1, FlushedFacts, JournalGrows DEF Inv, Results, Committed, Outcomes, Trying
<1> QED
  BY <1>3, <1>4, <1>5 DEF Inv

\* A delta waits, behind the deltas that wait already.
LEMMA DeltaKeeps ==
  ASSUME Inv, Running, handleEvent, IsDelta(Head(sink.queue)) PROVE Inv'
PROOF
<1> DEFINE h == Head(sink.queue)
           t == Tail(sink.queue)
           p == Append(sink.pending, h)
<1>1. /\ main \notin Results /\ ~ sink.exited /\ sink.queue # <<>>
      /\ UNCHANGED <<def, main, attempt, dr, stopped, ctx, adapter, drain, log>>
  BY NotOver DEF handleEvent, Take
<1>2. /\ h \in Ids /\ t \in Seq(Ids) /\ Len(t) = Len(sink.queue) - 1
      /\ Queue = {h} \cup ToSet(t) /\ Increasing(t) /\ Precede({h}, ToSet(t))
  BY <1>1, SinkFacts, TailEvents DEF Queue
<1>3. p \in Seq(Ids) /\ ToSet(p) = Pend \cup {h} /\ Increasing(p)
  <2>1. Precede(Pend, {h})
    BY <1>2, SinkFacts DEF Precede
  <2> QED
    BY <1>2, <2>1, SinkFacts, AppendEvents DEF Pend
<1>4. /\ sink' \in Sinks /\ sink'.queue = t /\ sink'.pending = p /\ sink'.err = sink.err
      /\ sink'.exited = sink.exited /\ sink'.done = sink.done /\ sink'.flushing = sink.flushing
      /\ sink'.closed = sink.closed
  <2> HIDE DEF h, t, p, Ids
  <2>1. sink \in Sinks /\ t \in Seq(Ids) /\ p \in Seq(Ids)
    BY <1>2, <1>3, SinkFacts
  <2>2. sink' = [sink EXCEPT !.queue = t, !.timer = ~ sink.flushing, !.pending = p]
    BY DEF handleEvent, Take, h, t, p
  <2>3. (~ sink.flushing) \in BOOLEAN
    OBVIOUS
  <2> QED
    BY <2>1, <2>2, <2>3 DEF Sinks
<1> HIDE DEF h, t, p, Ids
<1>5. Control'
  <2>1. ~ (\A a \in Attempts : ctx[a] = "off")
    BY <1>1 DEF Inv, Control, Sinking
  <2>2. Len(sink'.queue) <= SinkBuffer
    <3>1. Len(sink.queue) <= SinkBuffer /\ Len(sink.queue) \in Nat /\ SinkBuffer \in Nat
      BY SinkFacts, DispatchAssumption DEF Inv, Control, Sinking
    <3> QED
      BY <1>2, <1>4, <3>1
  <2>3. Sinking'
    BY <1>1, <1>4, <2>1, <2>2 DEF Inv, Control, Sinking, Handling
  <2>4. Over'
    BY <1>1 DEF Over
  <2>5. log' \in Seq(Entries) /\ stopped' \in BOOLEAN /\ ContextsEnd
    BY <1>1, SinkFacts DEF Inv, Control, Typed, ContextsEnd
  <2> QED
    BY <1>1, <1>4, <2>3, <2>4, <2>5, SinkControl DEF Inv
<1>6. Stations'
  <2>1. /\ Journaled' = Journaled /\ EventsInOrder'
        /\ Pend' = Pend \cup {h} /\ Queue' = ToSet(t)
    BY <1>1, <1>3, <1>4, SinkFacts DEF Pend, Queue
  <2>2. Precede(Journaled', Pend') /\ Precede(Journaled' \cup Pend', Queue')
    BY <1>2, <2>1, SinkFacts DEF Precede
  <2>3. def.live
    BY <1>1, SinkFacts
  <2>4. Increasing(sink'.pending) /\ Increasing(sink'.queue) /\ sink'.done = sink.done
    BY <1>2, <1>3, <1>4
  <2>5. Journaled' \cup Pend' \cup Queue' = Journaled \cup Pend \cup Queue
    BY <1>2, <2>1
  <2> QED
    BY <1>1, <2>1, <2>2, <2>3, <2>4, <2>5, SinkStations
<1>7. JournalKept
  BY <1>1, <1>4, AttemptFacts DEF JournalKept
<1> QED
  BY <1>5, <1>6, <1>7, JournalFrame DEF Inv

\* Any other event is journaled behind the deltas that waited.
LEMMA OtherKeeps ==
  ASSUME Inv, Running, handleEvent, ~ IsDelta(Head(sink.queue)) PROVE Inv'
PROOF
<1> DEFINE h == Head(sink.queue)
           t == Tail(sink.queue)
           L == Flushed(sink)
<1>1. /\ main \notin Results /\ ~ sink.exited /\ sink.queue # <<>>
      /\ UNCHANGED <<def, main, attempt, dr, stopped, ctx, adapter, drain>>
      /\ log' = Append(L, Entry("event", <<h>>))
  BY NotOver DEF handleEvent, Take
<1>2. /\ h \in Ids /\ t \in Seq(Ids) /\ Len(t) = Len(sink.queue) - 1
      /\ Queue = {h} \cup ToSet(t) /\ Increasing(t) /\ Precede({h}, ToSet(t))
  BY <1>1, SinkFacts, TailEvents DEF Queue
<1>3. /\ sink' \in Sinks /\ sink'.queue = t /\ sink'.pending = <<>> /\ sink'.err = sink.err
      /\ sink'.exited = sink.exited /\ sink'.done = sink.done /\ sink'.flushing = sink.flushing
      /\ sink'.closed = sink.closed
  <2> HIDE DEF h, t, Ids
  <2>1. sink \in Sinks /\ t \in Seq(Ids) /\ <<>> \in Seq(Ids)
    BY <1>2, SinkFacts
  <2>2. sink' = [sink EXCEPT !.queue = t, !.timer = FALSE, !.pending = <<>>]
    BY DEF handleEvent, Take, h, t
  <2> QED
    BY <2>1, <2>2 DEF Sinks
<1>4. /\ L \in Seq(Entries) /\ Recorded(L) = Journaled \cup Pend /\ Ordered(L) /\ Open(L)
      /\ \A n : RetriesUpTo(log, n) => RetriesUpTo(L, n)
  BY <1>1, FlushedFacts
<1> HIDE DEF h, t, L, Ids
<1>5. /\ log' \in Seq(Entries) /\ Recorded(log') = Journaled \cup Pend \cup {h} /\ Ordered(log')
      /\ Open(log') /\ Closed(log') /\ \A n : RetriesUpTo(log, n) => RetriesUpTo(log', n)
  <2>1. <<h>> \in Seq(Ids) /\ ToSet(<<h>>) = {h} /\ Increasing(<<h>>)
    BY <1>2, ToSetOne
  <2>2. Precede(Recorded(L), {h})
    BY <1>2, <1>4, SinkFacts DEF Precede
  <2> QED
    BY <1>1, <1>4, <2>1, <2>2, AppendEvent
<1>6. Control'
  <2>1. ~ (\A a \in Attempts : ctx[a] = "off")
    BY <1>1 DEF Inv, Control, Sinking
  <2>2. Len(sink'.queue) <= SinkBuffer
    <3>1. Len(sink.queue) <= SinkBuffer /\ Len(sink.queue) \in Nat /\ SinkBuffer \in Nat
      BY SinkFacts, DispatchAssumption DEF Inv, Control, Sinking
    <3> QED
      BY <1>2, <1>3, <3>1
  <2>3. Sinking'
    BY <1>1, <1>3, <2>1, <2>2 DEF Inv, Control, Sinking, Handling
  <2>4. Over'
    BY <1>1 DEF Over
  <2>5. stopped' \in BOOLEAN /\ ContextsEnd
    BY <1>1 DEF Inv, Control, Typed, ContextsEnd
  <2> QED
    BY <1>1, <1>3, <1>5, <2>3, <2>4, <2>5, SinkControl DEF Inv
<1>7. Stations'
  <2>1. /\ Journaled' = Journaled \cup Pend \cup {h} /\ EventsInOrder'
        /\ Pend' = {} /\ Queue' = ToSet(t)
    BY <1>3, <1>5, SinkFacts, ToSetEmpty DEF Pend, Queue
  <2>2. Precede(Journaled', Pend') /\ Precede(Journaled' \cup Pend', Queue')
    BY <1>2, <2>1, SinkFacts DEF Precede
  <2>3. def.live
    BY <1>1, SinkFacts
  <2>4. Increasing(sink'.pending) /\ Increasing(sink'.queue) /\ sink'.done = sink.done
    BY <1>2, <1>3, ToSetEmpty
  <2>5. Journaled' \cup Pend' \cup Queue' = Journaled \cup Pend \cup Queue
    BY <1>2, <2>1
  <2> QED
    BY <1>1, <2>1, <2>2, <2>3, <2>4, <2>5, SinkStations
<1>8. Journal'
  BY <1>1, <1>5, JournalGrows DEF Inv
<1> QED
  BY <1>6, <1>7, <1>8 DEF Inv

-----------------------------------------------------------------------------
(* The entries of the interpreter.                                         *)

LEMMA EntryTyped ==
  /\ \A t \in {"started", "completed", "failed", "warning"} :
       Entry(t, <<>>) \in Entries /\ Entry(t, <<>>).t = t
  /\ \A n \in Nat : Entry("retry", <<n>>) \in Entries /\ Entry("retry", <<n>>).t = "retry"
  BY DEF Entry, Entries

\* The events stay where they are while an entry that is no event is journaled.
LEMMA EntryStations ==
  ASSUME Inv, UNCHANGED <<def, ctx, adapter, drain, sink>>, log' \in Seq(Entries),
         Recorded(log') = Recorded(log), Ordered(log'), main \notin Results
  PROVE Stations'
PROOF
<1>1. Journaled' = Journaled /\ EventsInOrder' /\ Pend' = Pend /\ Queue' = Queue
  BY SinkFacts DEF Pend, Queue
<1> QED
  BY <1>1, SinkFacts, SinkStations DEF Alive

LEMMA PrepareKeeps == ASSUME Inv, Prepare \/ PrepareFails PROVE Inv'
PROOF
<1> USE DEF Inv, Control
<1>0. /\ main = "prepare" /\ main' \in {"dispatch", "permanent", "internal"}
      /\ UNCHANGED <<def, attempt, dr, stopped, ctx, adapter, drain, sink>>
      /\ \/ main' = "internal" /\ log' = log
         \/ \E t \in {"started", "failed"} : log' = Append(log, Entry(t, <<>>))
                                             /\ (t = "started" <=> main' = "dispatch")
  BY DEF Prepare, PrepareFails
<1>a. log \in Seq(Entries) /\ Ordered(log) /\ Open(log) /\ RetriesUpTo(log, attempt - 1)
  BY <1>0, SinkFacts DEF Journal, Shaped, Results, Committed, Outcomes, Trying
<1>b. /\ log' \in Seq(Entries) /\ Recorded(log') = Recorded(log) /\ Ordered(log')
      /\ RetriesUpTo(log', attempt - 1) /\ Closed(log') /\ (main' = "dispatch" => Open(log'))
  <2>1. CASE log' = log /\ main' = "internal"
    BY <1>a, <2>1 DEF Open, Closed
  <2>2. ASSUME NEW t \in {"started", "failed"}, log' = Append(log, Entry(t, <<>>)),
               t = "started" <=> main' = "dispatch"
        PROVE /\ log' \in Seq(Entries) /\ Recorded(log') = Recorded(log) /\ Ordered(log')
              /\ RetriesUpTo(log', attempt - 1) /\ Closed(log') /\ (main' = "dispatch" => Open(log'))
    <3>1. Entry(t, <<>>) \in Entries /\ Entry(t, <<>>).t = t
      BY EntryTyped
    <3>2. log' \in Seq(Entries)
      BY <1>a, <2>2, <3>1, AppendFacts
    <3>3. Recorded(log') = Recorded(log) /\ Ordered(log')
      BY <1>a, <2>2, <3>1, AppendOther
    <3>4. RetriesUpTo(log', attempt - 1) /\ Closed(log') /\ (t = "started" => Open(log'))
      BY <1>a, <2>2, <3>1, AppendNeutral
    <3> QED
      BY <2>2, <3>2, <3>3, <3>4
  <2> QED
    BY <1>0, <2>1, <2>2
<1>1. Typed'
  BY <1>0, <1>b DEF Typed, Mains, Results, Committed, Outcomes
<1>2. ASSUME NEW a \in Attempts PROVE Launched(a)'
  BY <1>0, <1>2 DEF Launched
<1>3. Handling'
  BY <1>0 DEF Handling
<1>4. Sinking'
  BY <1>0 DEF Sinking, Results, Committed, Outcomes
<1>5. Over'
  BY <1>0 DEF Over, Sinking, Handling, Results, Committed, Outcomes
<1>6. Retried'
  BY <1>0 DEF Retried, Settled
<1>7. Stations'
  BY <1>0, <1>b, EntryStations DEF Results, Committed, Outcomes
<1>8. Journal'
  <2>1. \A a \in Attempts : ctx[a] = "off"
    BY <1>0 DEF Handling
  <2>2. Shaped'
    BY <1>0, <1>b DEF Shaped, Results, Committed, Outcomes, Trying
  <2>3. CommittedComplete' /\ SinkErrorHalts'
    BY <1>0, <2>1 DEF CommittedComplete, SinkErrorHalts, Sinking, Committed
  <2> QED
    BY <2>2, <2>3 DEF Journal
<1> QED
  BY <1>1, <1>2, <1>3, <1>4, <1>5, <1>6, <1>7, <1>8

LEMMA RetryKeeps == ASSUME Inv, RetryAttempt PROVE Inv'
PROOF
<1> USE DEF Inv, Control
<1>0. /\ main = "retry" /\ main' = "sleep" /\ log' = Append(log, Entry("retry", <<attempt>>))
      /\ UNCHANGED <<def, attempt, dr, stopped, ctx, adapter, drain, sink>>
  BY DEF RetryAttempt
<1>a. log \in Seq(Entries) /\ Ordered(log) /\ Open(log) /\ RetriesUpTo(log, attempt - 1)
  BY <1>0, SinkFacts DEF Journal, Shaped, Results, Committed, Outcomes, Trying
<1>b. attempt \in Nat /\ attempt - 1 \in Nat /\ (attempt - 1) + 1 = attempt
  BY AttemptFacts
<1>c. Entry("retry", <<attempt>>) \in Entries
  BY <1>b, EntryTyped
<1>d. /\ log' \in Seq(Entries) /\ Recorded(log') = Recorded(log) /\ Ordered(log')
      /\ RetriesUpTo(log', attempt) /\ Closed(log') /\ Open(log')
  <2>1. log' \in Seq(Entries)
    BY <1>0, <1>a, <1>c, AppendFacts
  <2> DEFINE n == attempt - 1
  <2>2. n \in Nat /\ n + 1 = attempt /\ RetriesUpTo(log, n)
    BY <1>a, <1>b
  <2> HIDE DEF n
  <2>3. Entry("retry", <<n + 1>>) \in Entries /\ log' = Append(log, Entry("retry", <<n + 1>>))
    BY <1>0, <1>c, <2>2
  <2>4. /\ RetriesUpTo(log', n + 1) /\ Open(log') /\ Closed(log')
        /\ Recorded(log') = Recorded(log) /\ Ordered(log')
    BY <1>a, <2>2, <2>3, AppendRetry
  <2> QED
    BY <2>1, <2>2, <2>4
<1>1. Typed'
  BY <1>0, <1>d DEF Typed, Mains
<1>2. ASSUME NEW a \in Attempts PROVE Launched(a)'
  BY <1>0, <1>2 DEF Launched
<1>3. Handling' /\ Sinking' /\ Over' /\ Retried'
  BY <1>0 DEF Handling, Sinking, Over, Retried, Settled, Results, Committed, Outcomes
<1>4. Stations'
  BY <1>0, <1>d, EntryStations DEF Results, Committed, Outcomes
<1>5. Journal'
  BY <1>0, <1>d DEF Journal, Shaped, CommittedComplete, SinkErrorHalts, Results, Committed, Outcomes, Trying
<1> QED
  BY <1>1, <1>2, <1>3, <1>4, <1>5

\* With the sink closed and without an error the buffered events are all that
\* is missing in the journal.
LEMMA VerdictKeeps == ASSUME Inv, Verdict PROVE Inv'
PROOF
<1> USE DEF Inv, Control
<1> DEFINE r == IF sink.done = "err" \/ dr = "none" THEN "internal" ELSE dr
           V == VerdictEntries
           M == log \o V
           end == Entry(IF r = "ok" THEN "completed" ELSE "failed", <<>>)
<1>a. r # "committed"
  BY DEF Typed, Outcomes
<1>0. /\ main = "closing" /\ sink.done # "none"
      /\ \/ main' = r /\ r # "committed"
         \/ main' = "committed" /\ r = "ok" /\ Finalized
      /\ log' = M \o (IF r = "internal" THEN <<>> ELSE <<end>>)
      /\ UNCHANGED <<def, attempt, dr, stopped, ctx, adapter, drain, sink>>
  BY <1>a, Zenon DEF Verdict
<1>1. /\ r \in Outcomes \cup {"internal"} /\ (r # "internal" => sink.done = "nil")
      /\ sink.exited /\ sink.closed
  BY <1>0 DEF Typed, Sinks, Handling, Sinking, Outcomes
<1>2. attempt \in Attempts /\ Buffered \in Seq(Ids) /\ ToSet(Buffered) = Buf(attempt)
  BY AttemptFacts, DrainTyped DEF Buffered, Buf
<1>3. log \in Seq(Entries) /\ Ordered(log) /\ Open(log) /\ Journaled = Recorded(log)
  BY <1>0, SinkFacts DEF Journal, Shaped, Results, Committed, Outcomes
<1>4. V \in Seq(Entries) /\ Len(V) = Len(Buffered)
      /\ \A i \in 1 .. Len(Buffered) : V[i].t = "event" /\ V[i].ids = <<Buffered[i]>>
  <2> HIDE DEF Ids
  <2>1. Len(Buffered) \in Nat /\ \A i \in 1 .. Len(Buffered) : <<Buffered[i]>> \in Seq(Ids)
    BY <1>2
  <2>2. ASSUME NEW ids \in Seq(Ids)
        PROVE Entry("event", ids) \in Entries /\ Entry("event", ids).t = "event"
              /\ Entry("event", ids).ids = ids
    BY DEF Entry, Entries
  <2> HIDE DEF Entries, Entry, Buffered
  <2>3. V = [i \in 1 .. Len(Buffered) |-> Entry("event", <<Buffered[i]>>)]
    BY DEF VerdictEntries
  <2>4. \A i \in 1 .. Len(Buffered) : V[i] = Entry("event", <<Buffered[i]>>) /\ V[i] \in Entries
    BY <2>1, <2>2, <2>3
  <2>5. V \in Seq(Entries) /\ Len(V) = Len(Buffered)
    BY <2>1, <2>3, <2>4
  <2> QED
    BY <2>1, <2>2, <2>4, <2>5, ZenonT(60)
<1>5. Increasing(Buffered) /\ Precede(Recorded(log), Buf(attempt))
  <2>1. Increasing(Buffered)
    BY <1>2 DEF Buffered, Stations, InOrder
  <2>2. CASE def.live
    <3>1. Buf(attempt) = {}
      BY <1>2, <2>2, ToSetEmpty DEF Stations, Owned, Buf
    <3> QED
      BY <2>1, <3>1 DEF Precede
  <2>3. CASE ~ def.live
    <3>1. Recorded(log) = {}
      BY <1>0, <1>3, <2>3 DEF Stations, Owned, Results, Committed, Outcomes
    <3> QED
      BY <2>1, <3>1 DEF Precede
  <2> QED
    BY <2>2, <2>3
<1>6. /\ M \in Seq(Entries) /\ Recorded(M) = Journaled \cup Buf(attempt) /\ Ordered(M)
      /\ Open(M) /\ Closed(M) /\ \A n : RetriesUpTo(log, n) => RetriesUpTo(M, n)
  BY <1>2, <1>3, <1>4, <1>5, AppendBuffered
<1>7. end \in Entries /\ end.t \in {"completed", "failed"} /\ (r = "ok" => end.t = "completed")
  BY EntryTyped
<1> HIDE DEF V, M, end, r
<1>8. /\ log' \in Seq(Entries) /\ Recorded(log') = Recorded(M) /\ Ordered(log')
      /\ Closed(log') /\ (\A n : RetriesUpTo(M, n) => RetriesUpTo(log', n))
      /\ (r = "ok" => Fresh(log'))
  <2>1. CASE r = "internal"
    <3>1. log' = M
      <4> HIDE DEF Entries
      <4> QED
        BY <1>0, <1>6, <2>1
    <3>2. r # "ok"
      BY <2>1
    <3> QED
      BY <1>6, <3>1, <3>2
  <2>2. CASE r # "internal"
    <3>1. log' = Append(M, end)
      <4> HIDE DEF Entries
      <4>1. M \o <<end>> = Append(M, end)
        BY <1>6, <1>7
      <4> QED
        BY <1>0, <2>2, <4>1
    <3>2. log' \in Seq(Entries)
      BY <1>6, <1>7, <3>1, AppendFacts
    <3>3. Recorded(log') = Recorded(M) /\ Ordered(log')
      BY <1>6, <1>7, <3>1, AppendOther
    <3>4. Closed(log') /\ (\A n : RetriesUpTo(M, n) => RetriesUpTo(log', n))
          /\ (r = "ok" => Fresh(log'))
      BY <1>6, <1>7, <3>1, AppendNeutral
    <3> QED
      BY <3>2, <3>3, <3>4
  <2> QED
    BY <2>1, <2>2
<1>9. main' \in Results \ {"panic"}
  BY <1>0, <1>1 DEF Results, Committed, Outcomes
<1>10. Typed'
  BY <1>0, <1>8, <1>9 DEF Typed, Mains
<1>11. ASSUME NEW a \in Attempts PROVE Launched(a)'
  BY <1>0, <1>11 DEF Launched
<1>12. Handling' /\ Sinking' /\ Over' /\ Retried'
  BY <1>0, <1>1, <1>9 DEF Handling, Sinking, Over, Retried, Settled, Results, Committed, Outcomes
<1>13. /\ Journaled' = Journaled \cup Buf(attempt) /\ EventsInOrder'
       /\ Pend' = Pend /\ Queue' = Queue
       /\ \A a \in Attempts : Hold(a)' = Hold(a) /\ Buf(a)' = Buf(a) /\ Unread(a)' = Unread(a)
                              /\ Sent(a)' = Sent(a)
  BY <1>0, <1>6, <1>8, SinkFacts DEF Pend, Queue, Hold, Buf, Unread, Sent
<1>14. \A x \in Buf(attempt) : x \in Ids /\ x[1] = attempt /\ x \in Sent(attempt)
  BY <1>2, ToSetElements DEF Stations, Owned, Sent
<1>15. Owned'
  <2>1. \A x \in Journaled \cup Pend \cup Queue : x \in Ids /\ x[1] \in Attempts /\ x \in Sent(x[1])
    BY DEF Stations, Owned, Ids
  <2>2. \A x \in (Journaled \cup Pend \cup Queue)' : x \in Ids /\ x \in Sent(x[1])'
    BY <1>2, <1>13, <1>14, <2>1
  <2> QED
    BY <1>0, <1>9, <1>13, <2>2 DEF Stations, Owned
<1>16. InOrder'
  <2>1. def.live => Buf(attempt) = {}
    BY <1>2, ToSetEmpty DEF Stations, Owned, Buf
  <2>2. ~ def.live => Pend = {} /\ Queue = {}
    BY ToSetEmpty DEF Stations, Owned, Pend, Queue
  <2>3. Precede(Journaled', Pend') /\ Precede(Journaled' \cup Pend', Queue')
    BY <1>13, <2>1, <2>2 DEF Stations, InOrder, Precede
  <2>4. ASSUME NEW a \in Attempts
        PROVE Precede(Journaled' \cup Pend \cup Queue \cup Buf(a), Hold(a) \cup Unread(a))
    <3>1. \A y \in Hold(a) \cup Unread(a) : y[1] = a
      BY <2>4 DEF Stations, Owned, Sent
    <3>2. Precede(Buf(attempt), Hold(a) \cup Unread(a))
      BY <1>2, <1>14, <3>1 DEF Stations, InOrder, Precede
    <3> QED
      BY <1>13, <3>2 DEF Stations, InOrder, Precede
  <2> QED
    BY <1>0, <1>13, <2>3, <2>4 DEF Stations, InOrder
<1>17. Whole'
  BY <1>0, <1>13 DEF Stations, Whole
<1>18. CommittedComplete'
  <2>1. SUFFICES ASSUME main' \in Committed, ctx[attempt] = "returned"
                 PROVE {id \in Journaled' : id[1] = attempt} = Sent(attempt)
    BY <1>0 DEF CommittedComplete, Sent
  <2>2. sink.done = "nil" /\ Pend = {} /\ Queue = {}
    BY <1>0, <1>1, <2>1, ToSetEmpty DEF Sinking, Pend, Queue, Committed
  <2>3. Hold(attempt) = {} /\ Unread(attempt) = {}
    BY <1>2, <2>1, ToSetEmpty DEF Launched, Hold, Unread
  <2>4. Sent(attempt) \subseteq Journaled'
    BY <1>2, <1>13, <2>1, <2>2, <2>3 DEF Stations, Whole
  <2>5. \A id \in Journaled' : id \in Sent(id[1])
    BY <1>2, <1>13, <1>14 DEF Stations, Owned
  <2>6. \A id \in Sent(attempt) : id[1] = attempt
    BY DEF Sent
  <2> QED
    BY <2>4, <2>5, <2>6
<1>19. Journal'
  <2>1. main' \notin Trying /\ main' # "sleep"
    BY <1>9 DEF Results, Committed, Outcomes, Trying
  <2>2. RetriesUpTo(log', attempt - 1) \/ RetriesUpTo(log', attempt)
    BY <1>6, <1>8 DEF Journal, Shaped
  <2>3. main' = "committed" => Finalized' /\ Fresh(log')
    BY <1>0, <1>8 DEF Finalized
  <2>4. Shaped'
    BY <1>0, <1>8, <1>9, <2>1, <2>2, <2>3 DEF Shaped
  <2>5. SinkErrorHalts'
    BY <1>0, <1>1 DEF SinkErrorHalts, Sinking, Outcomes, Committed
  <2> QED
    BY <1>18, <2>4, <2>5 DEF Journal
<1> QED
  BY <1>10, <1>11, <1>12, <1>13, <1>15, <1>16, <1>17, <1>19 DEF Stations

\* The finalizer's warning stands behind the commit and is the last entry.
LEMMA FinalizerKeeps == ASSUME Inv, liveFinalizer PROVE Inv'
PROOF
<1> USE DEF Inv, Control
<1> DEFINE e == Entry("warning", <<>>)
<1>0. /\ main = "committed" /\ main' = "ok" /\ log' \in {log, Append(log, e)}
      /\ UNCHANGED <<def, attempt, dr, stopped, ctx, adapter, drain, sink>>
  BY DEF liveFinalizer
<1>1. e \in Entries /\ e.t = "warning"
  BY EntryTyped
<1> HIDE DEF e
<1>2. log \in Seq(Entries) /\ Ordered(log) /\ Fresh(log) /\ Journaled = Recorded(log)
      /\ Journaled' = Recorded(log') /\ (EventsInOrder' <=> Ordered(log'))
  BY <1>0, SinkFacts DEF Journal, Shaped
<1>3. log' \in Seq(Entries) /\ Recorded(log') = Recorded(log) /\ Ordered(log')
  <2>1. CASE log' = log
    BY <1>2, <2>1
  <2>2. CASE log' = Append(log, e)
    BY <1>1, <1>2, <2>2, AppendFacts, AppendOther
  <2> QED
    BY <1>0, <2>1, <2>2
<1>4. /\ Closed(log') \/ Warned(log')
      /\ \A n : RetriesUpTo(log, n) => RetriesUpTo(log', n)
  <2>1. CASE log' = log
    BY <1>2, <2>1 DEF Fresh
  <2>2. CASE log' = Append(log, e)
    BY <1>1, <1>2, <2>2, AppendNeutral
  <2> QED
    BY <1>0, <2>1, <2>2
<1>5. Typed'
  BY <1>0, <1>3 DEF Typed, Mains, Results, Committed
<1>6. ASSUME NEW a \in Attempts PROVE Launched(a)'
  BY <1>0, <1>6 DEF Launched
<1>7. Handling' /\ Sinking' /\ Over' /\ Retried'
  BY <1>0 DEF Handling, Sinking, Over, Retried, Settled, Results, Committed, Outcomes
<1>8. Stations'
  <2>1. Journaled' = Journaled /\ EventsInOrder' /\ Pend' = Pend /\ Queue' = Queue
    BY <1>0, <1>2, <1>3 DEF Pend, Queue
  <2>2. main \in Results /\ main' \in Results
    BY <1>0 DEF Results, Committed
  <2> QED
    BY <1>0, <1>2, <2>1, <2>2, SinkFacts, SinkStations DEF Alive
<1>9. Journal'
  <2>1. Finalized /\ Finalized' = Finalized
    BY <1>0 DEF Journal, Shaped, Finalized
  <2>2. Shaped'
    BY <1>0, <1>4, <2>1 DEF Journal, Shaped, Trying, Results, Committed
  <2>3. CommittedComplete' /\ SinkErrorHalts'
    BY <1>0, <1>2, <1>3 DEF Journal, CommittedComplete, SinkErrorHalts, Committed
  <2> QED
    BY <2>2, <2>3 DEF Journal
<1> QED
  BY <1>5, <1>6, <1>7, <1>8, <1>9

-----------------------------------------------------------------------------
(* The theorem.                                                            *)

LEMMA InitHolds == Init => Inv
PROOF
<1> SUFFICES ASSUME Init PROVE Inv
  OBVIOUS
<1> USE DEF Init
<1>0. def.attempts \in Nat /\ def.attempts >= 1
  BY DispatchAssumption
<1>1. Typed
  <2>1. attempt \in 1 .. def.attempts
    BY <1>0
  <2>2. <<>> \in Seq(Ids) /\ <<>> \in Seq(Entries)
    OBVIOUS
  <2>3. [emitted |-> 0, queue |-> <<>>, outcome |-> "none"] \in Adapters /\ IdleDrain \in Drains
        /\ sink \in Sinks
    BY <2>2 DEF Adapters, Ends, Drains, IdleDrain, Sinks
  <2> QED
    BY <2>1, <2>2, <2>3 DEF Typed, Mains, Contexts
<1>2. /\ \A a \in Attempts : /\ ctx[a] = "off" /\ drain[a] = IdleDrain
                             /\ adapter[a].emitted = 0 /\ adapter[a].queue = <<>>
                             /\ adapter[a].outcome = "none"
                             /\ drain[a].pc = "off" /\ drain[a].hold = <<>> /\ drain[a].buf = <<>>
      /\ attempt \in Attempts /\ Attempts \subseteq Nat
  BY <1>1, AttemptFacts DEF IdleDrain
<1>3. ASSUME NEW a \in Attempts PROVE Launched(a)
  BY <1>2, <1>3 DEF Launched
<1>4. Handling /\ Over /\ Retried
  BY <1>2 DEF Handling, Over, Retried, Settled, Results, Committed, Outcomes
<1>5. Sinking
  <2>1. Len(sink.queue) <= SinkBuffer
    BY DispatchAssumption
  <2> QED
    BY <1>2, <2>1 DEF Sinking, Results, Committed, Outcomes
<1>6. /\ Journaled = {} /\ Pend = {} /\ Queue = {} /\ EventsInOrder
      /\ \A a \in Attempts : Hold(a) = {} /\ Buf(a) = {} /\ Unread(a) = {} /\ Sent(a) = {}
  <2>1. EventAt = {}
    BY DEF EventAt
  <2> QED
    BY <1>2, <2>1, ToSetEmpty DEF Journaled, Pend, Queue, EventsInOrder, Hold, Buf, Unread, Sent
<1>7. Owned /\ Whole
  BY <1>2, <1>6 DEF Owned, Whole
<1>8. InOrder
  <2>1. Len(<<>>) <= 1
    OBVIOUS
  <2> QED
    BY <1>2, <1>6, <2>1, ToSetEmpty DEF InOrder, Precede
<1>9. Journal
  <2>1. Open(log) /\ Closed(log)
    BY DEF Open, Closed
  <2>2. RetriesUpTo(log, attempt - 1)
    <3>1. Retries(log) = {} /\ 1 .. (attempt - 1) = {}
      BY DEF Retries
    <3> QED
      BY <3>1 DEF RetriesUpTo
  <2> QED
    BY <2>1, <2>2 DEF Journal, Shaped, CommittedComplete, SinkErrorHalts, Outcomes, Committed
<1> QED
  BY <1>1, <1>3, <1>4, <1>5, <1>6, <1>7, <1>8, <1>9 DEF Inv, Control, Stations

LEMMA StepHolds == Inv /\ [Next]_vars => Inv'
PROOF
<1> SUFFICES ASSUME Inv, [Next]_vars PROVE Inv'
  OBVIOUS
<1>1. CASE Running /\ Interpreter
  BY <1>1, PrepareKeeps, RefusedKeeps, CodeKeeps, LaunchKeeps, AwaitKeeps, CancelledKeeps,
     JoinKeeps, DecideKeeps, FlushKeeps, StopsKeep, RetryKeeps, WakeKeeps, CloseKeeps, VerdictKeeps,
     FinalizerKeeps
     DEF Interpreter
<1>2. CASE Running /\ SinkStep
  BY <1>2, DeltaKeeps, OtherKeeps, TimerKeeps, FailsKeep, AckKeeps, ClosedKeeps, StoppedKeeps
     DEF SinkStep
<1>3. CASE Interrupt
  BY <1>3, InterruptKeeps
<1>4. ASSUME NEW a \in Attempts, DrainStep(a) PROVE Inv'
  BY <1>4, TakesKeep, StopsDraining, BuffersKeep, SendsKeep, RefusesKeep, PanicKeeps DEF DrainStep
<1>5. ASSUME NEW a \in Attempts, Timers(a) \/ AdapterEmits(a) \/ AdapterEnds(a) PROVE Inv'
  BY <1>5, TimersKeep, EmitsKeep, EndsKeep
<1>6. CASE UNCHANGED vars
  <2>1. Kept /\ JournalKept
    BY <1>6 DEF vars, Kept, JournalKept
  <2>2. Control'
    BY <1>6 DEF vars, Inv, Control, Typed, Launched, Handling, Sinking, Over, Retried, Settled
  <2> QED
    BY <2>1, <2>2, StationsFrame, JournalFrame DEF Inv
<1> QED
  BY <1>1, <1>2, <1>3, <1>4, <1>5, <1>6 DEF Next

LEMMA InvFaithful == Inv => JournalFaithful
PROOF
<1> SUFFICES ASSUME Inv PROVE JournalFaithful
  OBVIOUS
<1>1. TypeOK
  BY DEF Inv, Control, Typed, TypeOK, Mains, Contexts, Drains, Sinks, Sinking
<1>2. JournalShape
  BY JournalReading DEF Inv, Control, Typed, Journal
<1>3. FinalIsFinal
  BY DEF Inv, Control, Retried, Settled, FinalIsFinal
<1> QED
  BY <1>1, <1>2, <1>3 DEF Inv, Stations, Journal, JournalFaithful

\* The journal of every agent or code step, whatever its attempts, its events
\* and the capacity of the sink: the events of each attempt in the order of the
\* adapter and each once, all of them under a commit, a retry.attempt between
\* two attempts, one verdict with at most a finalizer's warning behind it; a final failure is not retried and a
\* lost event is never under a verdict (runAgentStepWithContext, RunWithRetry,
\* agentEventSink).
THEOREM JournalIsFaithful == Spec => []JournalFaithful
PROOF
<1>1. Spec => []Inv
  BY InitHolds, StepHolds, PTL DEF Spec
<1> QED
  BY <1>1, InvFaithful, PTL
=============================================================================
