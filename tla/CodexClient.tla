---------------------------- MODULE CodexClient ----------------------------
(***************************************************************************)
(* The client of the codex app-server.  One client serves every codex-live *)
(* step of an awf process.  A call puts a response channel into a table    *)
(* and waits; one goroutine per server reads its lines and hands responses *)
(* to calls and events to turns.  Events that come before their turn is    *)
(* registered are kept.  A step that is through closes the client.         *)
(***************************************************************************)
EXTENDS Naturals, Sequences, FiniteSets, SequencesExt

CONSTANTS
    Callers,      \* steps that share the client, with one call and one turn each
    Servers,      \* app-server processes that may be started, numbered from 1
    LastEvent,    \* a turn has the events 1 .. LastEvent, the last one is turn/completed
    Capacity,     \* least capacity of a turn's channel
    MaxStops      \* bound on contexts that end, servers that die and lines that are too long

ASSUME ClientAssumption ==
    /\ Capacity \in Nat \ {0} /\ LastEvent \in Nat \ {0} /\ MaxStops \in Nat
    /\ Servers \subseteq Nat \ {0}

VARIABLES
    server,      \* the server the client writes to, 0 when it is not started
    born,        \* servers started so far
    alive,       \* servers that run
    out,         \* [Servers -> lines written and not read]
    asks,        \* [Callers -> the server its request was written to, 0 before]
    answered,    \* callers whose response is written
    sent,        \* [Callers -> events of its turn that are written]
    pending,     \* calls whose response channel is in the table
    resp,        \* [Callers -> the response channel of its call]
    turns,       \* turns whose channel is in the table
    early,       \* [Callers -> events kept for its turn]
    earlyClosed, \* turns whose last event is kept
    chan,        \* [Callers -> the channel of its turn and its capacity]
    shut,        \* turns whose channel is closed
    reader,      \* [Servers -> what its reader is about]
    step,        \* [Callers -> where the step is]
    hold,        \* [Callers -> kept events its registration has still to push]
    grabbed,     \* [Callers -> channels its Close has taken from the table]
    got,         \* [Callers -> events the step has seen]
    cut,         \* history: steps that were under way when the client was closed or started anew
    overtaken,   \* history: turns whose reader sent an event while kept ones were still to be pushed
    panicked,    \* a send on a closed channel ended the process
    stops        \* contexts that may end, servers that may die, lines that may be too long

tables == <<pending, turns, early, earlyClosed>>
chans == <<resp, chan, shut>>
steps == <<step, hold, grabbed, got>>
server_ == <<server, born, alive>>
wire == <<out, asks, answered, sent>>
clientVars == <<server_, wire, tables, chans, reader, steps, cut, overtaken, panicked, stops>>

Scan == [do |-> "scan", of |-> "none", ev |-> 0]
Stop == stops > 0 /\ stops' = stops - 1
At(c, label) == step' = [step EXCEPT ![c] = label]
NotCalled == {"idle", "spawn", "call"}
Through == {"closing", "done"}
Hurt == cut \cup {c \in Callers : step[c] \notin NotCalled \cup Through}

-----------------------------------------------------------------------------
(* Starting the server and calling it.                                     *)

\* ensureStarted: the look at started ...
Look(c) ==
    /\ step[c] = "idle"
    /\ At(c, IF server # 0 THEN "call" ELSE "spawn")
    /\ UNCHANGED <<server_, wire, tables, chans, reader, hold, grabbed, got, cut, overtaken, panicked, stops>>

\* ... and, behind an unlock, the new process and new tables
Spawn(c) ==
    /\ step[c] = "spawn" /\ born + 1 \in Servers
    /\ born' = born + 1 /\ server' = born + 1 /\ alive' = alive \cup {born + 1}
    /\ cut' = Hurt
    /\ pending' = {} /\ turns' = {} /\ earlyClosed' = {} /\ early' = [d \in Callers |-> <<>>]
    /\ At(c, "call")
    /\ UNCHANGED <<wire, chans, reader, hold, grabbed, got, overtaken, panicked, stops>>

\* call: the response channel is in the table before the request is written
Call(c) ==
    /\ step[c] = "call"
    /\ \/ /\ server \in alive
          /\ pending' = pending \cup {c}
          /\ asks' = [asks EXCEPT ![c] = server]
          /\ At(c, "wait")
       \/ /\ server \notin alive
          /\ At(c, "leave")
          /\ UNCHANGED <<pending, asks>>
    /\ UNCHANGED <<server_, out, answered, sent, turns, early, earlyClosed, chans, reader, hold, grabbed, got, cut, overtaken, panicked, stops>>

\* the context of a waiting call ends: dropPending
CallStopped(c) ==
    /\ step[c] = "wait" /\ resp[c] = "none"
    /\ Stop
    /\ pending' = pending \ {c}
    /\ At(c, "leave")
    /\ UNCHANGED <<server_, wire, turns, early, earlyClosed, chans, reader, hold, grabbed, got, cut, overtaken, panicked>>

\* the response is taken from the channel
TakeResponse(c) ==
    /\ step[c] = "wait" /\ resp[c] # "none"
    /\ resp' = [resp EXCEPT ![c] = "none"]
    /\ At(c, IF resp[c] = "result" THEN "register" ELSE "leave")
    /\ UNCHANGED <<server_, wire, tables, chan, shut, reader, hold, grabbed, got, cut, overtaken, panicked, stops>>

-----------------------------------------------------------------------------
(* The server.                                                             *)

Written(c, line) == out' = [out EXCEPT ![asks[c]] = Append(@, line)]

\* the response and the events of a turn come in any order
Answer(c) ==
    /\ asks[c] \in alive /\ c \notin answered
    /\ Written(c, [kind |-> "response", of |-> c, ev |-> 0])
    /\ answered' = answered \cup {c}
    /\ UNCHANGED <<server_, asks, sent, tables, chans, reader, steps, cut, overtaken, panicked, stops>>

Emit(c) ==
    /\ asks[c] \in alive /\ sent[c] < LastEvent
    /\ Written(c, [kind |-> "event", of |-> c, ev |-> sent[c] + 1])
    /\ sent' = [sent EXCEPT ![c] = @ + 1]
    /\ UNCHANGED <<server_, asks, answered, tables, chans, reader, steps, cut, overtaken, panicked, stops>>

ServerDies(s) ==
    /\ s \in alive
    /\ Stop
    /\ alive' = alive \ {s}
    /\ UNCHANGED <<server, born, wire, tables, chans, reader, steps, cut, overtaken, panicked>>

-----------------------------------------------------------------------------
(* The reader of a server.                                                 *)

Line(s) == Head(out[s])
Reads(s, kind) ==
    /\ s \in 1 .. born /\ reader[s] = Scan
    /\ out[s] # <<>> /\ Line(s).kind = kind
    /\ out' = [out EXCEPT ![s] = Tail(@)]

\* mutant of deliverResponse: the entry stays in the table
DeliverKeeps(s) ==
    /\ Reads(s, "response")
    /\ LET c == Line(s).of IN
       resp' = IF c \in pending THEN [resp EXCEPT ![c] = "result"] ELSE resp
    /\ UNCHANGED <<server_, asks, answered, sent, tables, chan, shut, reader, steps, cut, overtaken, panicked, stops>>

\* deliverResponse: the entry is taken from the table, so a channel gets one response
deliverResponse(s) ==
    /\ Reads(s, "response")
    /\ LET c == Line(s).of IN
       /\ pending' = pending \ {c}
       /\ resp' = IF c \in pending THEN [resp EXCEPT ![c] = "result"] ELSE resp
    /\ UNCHANGED <<server_, asks, answered, sent, turns, early, earlyClosed, chan, shut, reader, steps, cut, overtaken, panicked, stops>>

\* handleNotification and handleServerRequest: to the turn's channel, or kept
handleNotification(s) ==
    /\ Reads(s, "event")
    /\ LET c == Line(s).of
           last == Line(s).ev = LastEvent IN
       \/ /\ c \in turns
          /\ turns' = IF last THEN turns \ {c} ELSE turns
          /\ reader' = [reader EXCEPT ![s] = [do |-> "send", of |-> c, ev |-> Line(s).ev]]
          /\ UNCHANGED <<early, earlyClosed>>
       \/ /\ c \notin turns
          /\ early' = [early EXCEPT ![c] = Append(@, Line(s).ev)]
          /\ earlyClosed' = IF last THEN earlyClosed \cup {c} ELSE earlyClosed
          /\ UNCHANGED <<turns, reader>>
    /\ UNCHANGED <<server_, asks, answered, sent, pending, chans, steps, cut, overtaken, panicked, stops>>

\* a send: it blocks on a full channel and panics on a closed one
Sent(c, ev, goOn) ==
    \/ /\ c \in shut
       /\ panicked' = TRUE
       /\ UNCHANGED chan
    \/ /\ c \notin shut /\ Len(chan[c].buf) < chan[c].cap
       /\ chan' = [chan EXCEPT ![c].buf = Append(@, ev)]
       /\ goOn
       /\ UNCHANGED panicked

\* the reader sends, outside of the lock, and closes behind the last event
ReaderSend(s) ==
    /\ reader[s].do = "send"
    /\ LET c == reader[s].of IN
       /\ Sent(c, reader[s].ev, TRUE)
       /\ reader' = [reader EXCEPT ![s] = IF reader[s].ev = LastEvent THEN [@ EXCEPT !.do = "close"] ELSE Scan]
       /\ overtaken' = IF hold[c] = <<>> THEN overtaken ELSE overtaken \cup {c}
    /\ UNCHANGED <<server_, wire, tables, resp, shut, steps, cut, stops>>

ReaderClose(s) ==
    /\ reader[s].do = "close"
    /\ shut' = shut \cup {reader[s].of}
    /\ reader' = [reader EXCEPT ![s] = Scan]
    /\ UNCHANGED <<server_, wire, tables, resp, chan, steps, cut, overtaken, panicked, stops>>

\* the reader ends: behind the last line of a dead server, or before a line above
\* the scanner's 4 MiB, whatever its server does.  failPending fails every call in
\* the table, whichever server it asked.  Nobody reads the lines that follow.
failPending(s) ==
    /\ s \in 1 .. born /\ reader[s] = Scan
    /\ \/ /\ s \notin alive /\ out[s] = <<>>
          /\ reader' = [reader EXCEPT ![s] = [Scan EXCEPT !.do = "over"]]
          /\ UNCHANGED stops
       \/ /\ Stop
          /\ reader' = [reader EXCEPT ![s] = [Scan EXCEPT !.do = "deaf"]]
    /\ resp' = [c \in Callers |-> IF c \in pending THEN "closed" ELSE resp[c]]
    /\ pending' = {}
    /\ UNCHANGED <<server_, wire, turns, early, earlyClosed, chan, shut, steps, cut, overtaken, panicked>>

-----------------------------------------------------------------------------
(* A turn.                                                                 *)

\* registerTurnEvents under the lock: what was kept is taken over, a channel is
\* made with room for it, and put into the table unless the turn is over
registerTurnEvents(c) ==
    /\ step[c] = "register"
    /\ hold' = [hold EXCEPT ![c] = early[c]]
    /\ early' = [early EXCEPT ![c] = <<>>]
    /\ earlyClosed' = earlyClosed \ {c}
    /\ chan' = [chan EXCEPT ![c].cap = IF Len(early[c]) + 1 > Capacity THEN Len(early[c]) + 1 ELSE Capacity]
    /\ turns' = IF c \in earlyClosed THEN turns ELSE turns \cup {c}
    /\ At(c, IF c \in earlyClosed THEN "push and close" ELSE "push")
    /\ UNCHANGED <<server_, wire, pending, resp, shut, reader, grabbed, got, cut, overtaken, panicked, stops>>

\* ... and behind the unlock the kept events are sent into it
Push(c) ==
    /\ step[c] \in {"push", "push and close"} /\ hold[c] # <<>>
    /\ Sent(c, Head(hold[c]), TRUE)
    /\ hold' = [hold EXCEPT ![c] = Tail(@)]
    /\ UNCHANGED <<server_, wire, tables, resp, shut, reader, step, grabbed, got, cut, overtaken, stops>>

Pushed(c) ==
    /\ step[c] \in {"push", "push and close"} /\ hold[c] = <<>>
    /\ shut' = IF step[c] = "push" THEN shut ELSE shut \cup {c}
    /\ At(c, "drain")
    /\ UNCHANGED <<server_, wire, tables, resp, chan, reader, hold, grabbed, got, cut, overtaken, panicked, stops>>

\* drainTurn: an event; the last one ends the turn, and so does a closed channel
Drain(c) ==
    /\ step[c] = "drain"
    /\ \/ /\ chan[c].buf # <<>>
          /\ got' = [got EXCEPT ![c] = Append(@, Head(chan[c].buf))]
          /\ chan' = [chan EXCEPT ![c].buf = Tail(@)]
          /\ step' = IF Head(chan[c].buf) = LastEvent THEN [step EXCEPT ![c] = "leave"] ELSE step
       \/ /\ chan[c].buf = <<>> /\ c \in shut
          /\ At(c, "leave")
          /\ UNCHANGED <<got, chan>>
    /\ UNCHANGED <<server_, wire, tables, resp, shut, reader, hold, grabbed, cut, overtaken, panicked, stops>>

\* the context of the step ends, or a permission is denied
DrainStopped(c) ==
    /\ step[c] = "drain"
    /\ Stop
    /\ At(c, "leave")
    /\ UNCHANGED <<server_, wire, tables, chans, reader, hold, grabbed, got, cut, overtaken, panicked>>

\* Close: the tables are emptied and the server is killed ...
CloseClient(c) ==
    /\ step[c] = "leave"
    /\ cut' = cut \cup (Hurt \ {c})
    /\ grabbed' = [grabbed EXCEPT ![c] = turns]
    /\ turns' = {} /\ earlyClosed' = {} /\ early' = [d \in Callers |-> <<>>]
    /\ server' = 0 /\ alive' = alive \ {server}
    /\ At(c, "closing")
    /\ UNCHANGED <<born, wire, pending, chans, reader, hold, got, overtaken, panicked, stops>>

\* ... and the channels that were in the table are closed
CloseChannels(c) ==
    /\ step[c] = "closing"
    /\ shut' = shut \cup grabbed[c]
    /\ grabbed' = [grabbed EXCEPT ![c] = {}]
    /\ At(c, "done")
    /\ UNCHANGED <<server_, wire, tables, resp, chan, reader, hold, got, cut, overtaken, panicked, stops>>

ClientInit ==
    /\ server = 0 /\ born = 0 /\ alive = {}
    /\ out = [s \in Servers |-> <<>>]
    /\ asks = [c \in Callers |-> 0] /\ answered = {} /\ sent = [c \in Callers |-> 0]
    /\ pending = {} /\ resp = [c \in Callers |-> "none"]
    /\ turns = {} /\ early = [c \in Callers |-> <<>>] /\ earlyClosed = {}
    /\ chan = [c \in Callers |-> [buf |-> <<>>, cap |-> 0]] /\ shut = {}
    /\ reader = [s \in Servers |-> Scan]
    /\ step = [c \in Callers |-> "idle"] /\ hold = [c \in Callers |-> <<>>]
    /\ grabbed = [c \in Callers |-> {}] /\ got = [c \in Callers |-> <<>>]
    /\ cut = {} /\ overtaken = {} /\ panicked = FALSE /\ stops = MaxStops

ClientNext ==
    /\ ~panicked
    /\ \/ \E c \in Callers :
             \/ Look(c) \/ Spawn(c) \/ Call(c) \/ CallStopped(c) \/ TakeResponse(c)
             \/ Answer(c) \/ Emit(c)
             \/ registerTurnEvents(c) \/ Push(c) \/ Pushed(c) \/ Drain(c) \/ DrainStopped(c)
             \/ CloseClient(c) \/ CloseChannels(c)
       \/ \E s \in Servers :
             \/ ServerDies(s) \/ deliverResponse(s) \/ handleNotification(s)
             \/ ReaderSend(s) \/ ReaderClose(s) \/ failPending(s)

-----------------------------------------------------------------------------
(* Properties.                                                             *)

Places(c) == got[c] \o chan[c].buf \o hold[c] \o early[c]
             \o SetToSeq({reader[s].ev : s \in {t \in Servers : reader[t].do = "send" /\ reader[t].of = c}})
InWire(c) == {i \in 1 .. Len(out[asks[c]]) : out[asks[c]][i].kind = "event" /\ out[asks[c]][i].of = c}
UnderWay(c) == step[c] \notin NotCalled \cup Through \cup {"leave"}

\* Every variable of the client has its type.
ClientTypeOK ==
    /\ server \in Servers \cup {0} /\ born \in Servers \cup {0} /\ alive \subseteq 1 .. born
    /\ pending \cup turns \cup earlyClosed \cup shut \cup answered \cup cut \cup overtaken \subseteq Callers
    /\ \A c \in Callers : resp[c] \in {"none", "result", "closed"} /\ Len(chan[c].buf) <= chan[c].cap

\* Whatever the order of the response, the events and the registration of a
\* turn: every event the reader took from the server is in exactly one place,
\* kept, about to be pushed, being sent, in the channel or seen, as long as the
\* step is about its turn and nobody closed the client or started a server under
\* it.  A step that leaves, and a send that panics, leave the rest behind.
EventsAccounted ==
    \A c \in Callers : UnderWay(c) /\ c \notin cut /\ ~panicked =>
        /\ IsInjective(Places(c))
        /\ ToSet(Places(c)) = 1 .. (sent[c] - Cardinality(InWire(c)))

\* What a step has seen of its turn is the first events of the turn in their
\* order, so a step that leaves on the last event has seen them all.  Not so when
\* the client was closed or started anew under it, nor when the reader sent an
\* event between registerTurnEvents' unlock and its last push: the kept events
\* then come behind it, and behind the last event nobody takes them.
SeenInOrder ==
    \A c \in Callers \ (cut \cup overtaken) : \A i \in DOMAIN got[c] : got[c][i] = i

\* A call that waits holds its response, or is in the table of a reader that is
\* not through with a dead server.  Not so when a second start of the server
\* replaced the table under it.  A reader that gave up on a line above its buffer
\* answers nobody: a call made behind it stays in the table until its own context
\* ends, those made before it were failed.
WaitingIsAnswerable ==
    \A c \in Callers : step[c] = "wait" /\ c \notin cut =>
        resp[c] # "none" \/ (c \in pending /\ reader[asks[c]].do # "over")

\* A response channel gets one response.  It has room for one: a second one
\* would block the reader of the server, and every turn with it.
OneResponse == [][\A c \in Callers : resp[c] # "none" => resp'[c] \in {resp[c], "none"}]_clientVars

\* An event that was read is in one place as long as its step is about the turn,
\* a step sees the events of a turn in their order unless a send overtook the kept
\* ones, no waiting call is forgotten behind a dead server, and no response
\* channel gets a second response.
ClientSafe ==
    /\ [](ClientTypeOK /\ EventsAccounted /\ SeenInOrder /\ WaitingIsAnswerable)
    /\ OneResponse
=============================================================================
