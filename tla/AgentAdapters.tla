---------------------------- MODULE AgentAdapters ----------------------------
(***************************************************************************)
(* One launch of a command line agent.  Five adapters (agent/claude,       *)
(* agent/claudesession, agent/codex, agent/droid, agent/goose) run a CLI   *)
(* through the streaming Exec of a container and share one shape:          *)
(*                                                                         *)
(*   process --chunks--> goroutine A --pipe--> goroutine B --events-->     *)
(*                                             goroutine B --outcome-->    *)
(*                                                                         *)
(* A forwards stdout into an unbuffered pipe and keeps stderr; B scans     *)
(* lines, emits one event per line (claude: one per content block), and    *)
(* reduces the lines to the single outcome of the launch.  What the lines  *)
(* mean differs per adapter.  A line is represented by what the adapter's  *)
(* parser tells apart:                                                     *)
(*   text    assistant text that is a JSON object     prose  other text    *)
(*   blank   an assistant message without text        done   success       *)
(*   garbled success whose output is no JSON object (claude, droid)        *)
(*   spent   claude: error_max_structured_output_retries                   *)
(*   fail    failure the provider may recover from    mute   same, without *)
(*                                                         an error record *)
(*   denied  authentication failure                                        *)
(*   bad400  codex: turn.failed with status 400 invalid_request_error      *)
(*   notice  codex: a bare error event                notice400  such a 400*)
(*   config  goose: a configuration complaint, not JSON                    *)
(*   junk    a line that is not JSON                                       *)
(*   long    a line of more than 1 MiB, which stops the scanner            *)
(***************************************************************************)
EXTENDS Naturals, Sequences, SequencesExt

CONSTANTS AdapterNames,  \* the adapters launched
          MaxLines,      \* bound: lines the CLI of each adapter writes to stdout
          ChunkCap,      \* capacity of the chunks channel (64 in the code)
          EventCap       \* capacity of the events channel (16 in the code)

ASSUME AdapterConstants ==
  /\ AdapterNames \subseteq {"claude", "session", "codex", "droid", "goose"}
  /\ \A ad \in AdapterNames : MaxLines[ad] \in Nat
  /\ {ChunkCap, EventCap} \subseteq Nat \ {0}

VARIABLES adapter,   \* the adapter, and whether the step has an output_schema
          cli,       \* the process: lines left to write, and how it ended
          ctx,       \* "live" or "done"
          chunks,    \* the chunks channel
          fwd,       \* goroutine A
          scan,      \* goroutine B
          red,       \* what B has made of the lines so far
          events,    \* events in the channel
          outcome,   \* what came out of the outcome channel
          lines      \* history: the lines B scanned and emitted

adapterVars == <<adapter, cli, ctx, chunks, fwd, scan, red, events, outcome, lines>>

\* What the parser of each adapter tells apart.
claudeStream == {"text", "done", "fail", "junk", "long", "garbled", "spent", "denied"}
codexStream  == {"text", "done", "fail", "junk", "long", "prose", "blank", "mute", "bad400", "notice", "notice400"}
droidStream  == {"text", "done", "fail", "junk", "long", "garbled", "denied"}
gooseStream  == {"text", "done", "fail", "junk", "long", "prose", "blank", "mute", "config"}
Alphabet(ad) == CASE ad \in {"claude", "session"} -> claudeStream
                  [] ad = "codex" -> codexStream
                  [] ad = "droid" -> droidStream
                  [] ad = "goose" -> gooseStream
Unparsed == {"junk", "config", "long"}
\* How a CLI may end, as far as its adapter looks: a failed transport, or its
\* exit code (goose) and what it left on stderr (droid, goose).
Endings(ad) ==
  {[err |-> TRUE, code |-> 0, stderr |-> "none"]} \cup
  [err : {FALSE}, code : IF ad = "goose" THEN {0, 1} ELSE {0},
   stderr : IF ad \in {"droid", "goose"} THEN {"none", "text", "config"} ELSE {"none"}]

\* The events of a parsed line: a claude message is split into its blocks.
MessageToEvents(ad, line) == IF ad \in {"claude", "session"} /\ line = "text" THEN 2 ELSE 1

(***************************************************************************)
(* The reduction of B, one operator per adapter: kind and capture for      *)
(* claude and droid, the last message and the flags for codex and goose.   *)
(***************************************************************************)
NothingYet == [kind |-> "none", text |-> "none", done |-> FALSE, failed |-> "none", notice |-> "none", diag |-> "none"]

\* The verdict of a result event: the last one stands.
ExtractResult(line) ==
  CASE line = "done" -> "ok"
    [] line \in {"garbled", "spent"} -> "unparseable"
    [] line = "denied" -> "auth"
    [] line = "fail" -> "fatal"
    [] OTHER -> "none"
ClaudeFirstVerdict(r, line) == [r EXCEPT !.kind = IF @ # "none" THEN @ ELSE ExtractResult(line)]
claudeLine(r, line) == [r EXCEPT !.kind = IF ExtractResult(line) = "none" THEN @ ELSE ExtractResult(line)]

\* Without a schema the final text of a completion is taken as it is.
resultFromCompletion(line, schema) == IF line = "garbled" /\ schema THEN "unparseable" ELSE "ok"
errorFromEvent(line) == IF line = "denied" THEN "auth" ELSE "fatal"
droidLine(r, line, schema) ==
  CASE line \in {"done", "garbled"} -> [r EXCEPT !.kind = resultFromCompletion(line, schema)]
    [] line \in {"denied", "fail"} -> [r EXCEPT !.kind = errorFromEvent(line)]
    [] OTHER -> r

codexLine(r, line) ==
  CASE line \in {"text", "prose", "blank"} -> [r EXCEPT !.text = line]
    [] line = "done" -> [r EXCEPT !.done = TRUE]
    [] line = "mute" -> [r EXCEPT !.failed = IF @ = "none" THEN "mute" ELSE @]
    [] line \in {"fail", "bad400"} -> [r EXCEPT !.failed = line]
    [] line \in {"notice", "notice400"} -> [r EXCEPT !.notice = line]
    [] line = "junk" -> [r EXCEPT !.diag = "junk"]
    [] OTHER -> r

\* goose concatenates: a JSON object anywhere in the text is found again.
assistantText(text, line) == IF "text" \in {text, line} THEN "text" ELSE "prose"
gooseLine(r, line) ==
  CASE line \in {"text", "prose"} -> [r EXCEPT !.text = assistantText(@, line)]
    [] line = "done" -> [r EXCEPT !.done = TRUE]
    [] line = "fail" -> [r EXCEPT !.failed = "fail"]
    [] line = "mute" -> [r EXCEPT !.failed = "none"]
    [] line \in {"config", "junk"} -> [r EXCEPT !.diag = IF "config" \in {@, line} THEN "config" ELSE "junk"]
    [] OTHER -> r

Reduce(r, line) ==
  CASE adapter.name \in {"claude", "session"} -> claudeLine(r, line)
    [] adapter.name = "droid" -> droidLine(r, line, adapter.schema)
    [] adapter.name = "codex" -> codexLine(r, line)
    [] adapter.name = "goose" -> gooseLine(r, line)

\* The scanner stopped at a line it cannot hold.
ScanError(r) ==
  CASE adapter.name \in {"claude", "session", "droid"} -> [r EXCEPT !.kind = IF @ = "none" THEN "fatal" ELSE @]
    [] adapter.name = "codex" -> [r EXCEPT !.diag = "junk"]
    [] adapter.name = "goose" -> [r EXCEPT !.failed = IF @ = "none" THEN "fail" ELSE @]

(***************************************************************************)
(* The outcome: "ok", or the error that classifyAgentLaunchErr (modelled   *)
(* in AgentDispatch) takes for permanent ("permission", "invalid") or for  *)
(* retryable (the others).                                                 *)
(***************************************************************************)
claudeOutcome(r) ==
  CASE r.kind = "auth" -> "permission"
    [] r.kind = "fatal" -> "launch"
    [] r.kind = "none" -> "exit"
    [] OTHER -> r.kind

configErrorFromStderr(stderr) == stderr = "config"
droidOutcome(r, stderr) == IF r.kind = "none" /\ configErrorFromStderr(stderr) THEN "invalid" ELSE claudeOutcome(r)

\* A schema asks for a JSON object in the text of the answer.
buildResult(r, schema) == IF schema /\ r.text = "prose" THEN "unparseable" ELSE "ok"

isPermanentCodexError(message) == message \in {"bad400", "notice400"}
codexOutcome(r, schema) ==
  LET message == IF r.failed \in {"none", "mute"} THEN r.notice ELSE r.failed
  IN  IF r.done /\ r.text \in {"text", "prose"} THEN buildResult(r, schema)
      ELSE CASE message = "none" \/ (r.done /\ r.failed = "none") -> "exit"
             [] isPermanentCodexError(message) /\ (r.failed # "none" \/ ~r.done) -> "invalid"
             [] message \in {"fail", "notice"} /\ (r.failed # "none" \/ ~r.done) -> "launch"

isConfigError(diag) == diag = "config"
gooseOutcome(r, code, stderr, schema) ==
  LET diag == IF r.diag = "none" THEN stderr ELSE r.diag
  IN  IF code # 0 /\ isConfigError(diag) THEN "invalid"
      ELSE IF r.failed # "none" \/ (code # 0 /\ diag # "none") THEN "launch"
      ELSE IF r.done /\ r.text # "none" THEN buildResult(r, schema)
      ELSE "exit"

Outcome(r, res) ==
  IF res.err THEN "launch"
  ELSE CASE adapter.name \in {"claude", "session"} -> claudeOutcome(r)
         [] adapter.name = "droid" -> droidOutcome(r, cli.result.stderr)
         [] adapter.name = "codex" -> codexOutcome(r, adapter.schema)
         [] adapter.name = "goose" -> gooseOutcome(r, res.code, cli.result.stderr, adapter.schema)

(***************************************************************************)
(* The process and its backend (ContainerExec has their detail).           *)
(***************************************************************************)
NoResult == [err |-> FALSE, code |-> 99, stderr |-> "none"]
Running == cli.result = NoResult

AdapterInit ==
  /\ adapter \in [name : AdapterNames, schema : BOOLEAN]
  /\ cli = [left |-> MaxLines[adapter.name], result |-> NoResult]
  /\ ctx = "live"
  /\ chunks = <<>> /\ events = 0
  /\ fwd = [pc |-> "take", line |-> "none"]
  /\ scan = [pc |-> "scan", line |-> "none", pend |-> 0]
  /\ red = NothingYet
  /\ outcome = "none" /\ lines = <<>>

WriteLine(line) ==
  /\ Running /\ cli.left > 0 /\ Len(chunks) < ChunkCap
  /\ chunks' = Append(chunks, line)
  /\ cli' = [cli EXCEPT !.left = @ - 1]
  /\ UNCHANGED <<adapter, ctx, fwd, scan, red, events, outcome, lines>>

\* Exec delivers its result after the last chunk; a blocked send delays both.
Exit(ending) ==
  /\ Running /\ (cli.left = 0 \/ Len(chunks) < ChunkCap)
  /\ cli' = [cli EXCEPT !.left = 0, !.result = [ending EXCEPT !.err = @ \/ ctx = "done"]]
  /\ UNCHANGED <<adapter, ctx, chunks, fwd, scan, red, events, outcome, lines>>

Cancel ==
  /\ ctx = "live" /\ outcome = "none" /\ ctx' = "done"
  /\ UNCHANGED <<adapter, cli, chunks, fwd, scan, red, events, outcome, lines>>

(***************************************************************************)
(* Goroutine A.                                                            *)
(***************************************************************************)
TakeChunk ==
  /\ fwd.pc \in {"take", "drain"} /\ chunks # <<>>
  /\ chunks' = Tail(chunks)
  /\ fwd' = IF fwd.pc = "drain" THEN fwd ELSE [pc |-> "write", line |-> Head(chunks)]
  /\ UNCHANGED <<adapter, cli, ctx, scan, red, events, outcome, lines>>

\* A write fails once B closed its end: the rest is drained.
WriteFails ==
  /\ fwd.pc = "write" /\ scan.pc = "returned"
  /\ fwd' = [fwd EXCEPT !.pc = "drain"]
  /\ UNCHANGED <<adapter, cli, ctx, chunks, scan, red, events, outcome, lines>>

ForwardEnds ==
  /\ fwd.pc \in {"take", "drain"} /\ chunks = <<>> /\ ~Running
  /\ fwd' = [fwd EXCEPT !.pc = "done"]
  /\ UNCHANGED <<adapter, cli, ctx, chunks, scan, red, events, outcome, lines>>

(***************************************************************************)
(* Goroutine B.                                                            *)
(***************************************************************************)
\* A line that is too long stops the scanner with the pipe open: the write may
\* be through or not, the next one blocks.
ScanLine ==
  /\ scan.pc = "scan" /\ fwd.pc = "write"
  /\ fwd' \in {[fwd EXCEPT !.pc = "take"]} \cup (IF fwd.line = "long" THEN {fwd} ELSE {})
  /\ CASE fwd.line = "long" -> /\ scan' = [scan EXCEPT !.pc = "result", !.line = "long"]
                               /\ red' = ScanError(red)
       [] fwd.line \in Unparsed \ {"long"} -> red' = Reduce(red, fwd.line) /\ UNCHANGED scan
       [] OTHER -> /\ scan' = [pc |-> "emit", line |-> fwd.line, pend |-> MessageToEvents(adapter.name, fwd.line)]
                   /\ UNCHANGED red
  /\ UNCHANGED <<adapter, cli, ctx, chunks, events, outcome, lines>>

EmitEvent ==
  /\ scan.pc = "emit" /\ events < EventCap
  /\ events' = events + 1
  /\ IF scan.pend > 1
       THEN scan' = [scan EXCEPT !.pend = @ - 1] /\ UNCHANGED <<red, lines>>
       ELSE /\ scan' = [scan EXCEPT !.pc = "scan", !.pend = 0]
            /\ red' = Reduce(red, scan.line)
            /\ lines' = Append(lines, scan.line)
  /\ UNCHANGED <<adapter, cli, ctx, chunks, fwd, outcome>>

EmitGivesUp ==
  /\ scan.pc = "emit" /\ ctx = "done"
  /\ scan' = [scan EXCEPT !.pc = "returned"]
  /\ UNCHANGED <<adapter, cli, ctx, chunks, fwd, red, events, outcome, lines>>
EmitStopped ==
  /\ scan.pc = "emit" /\ ctx = "done"
  /\ outcome' = "launch"
  /\ scan' = [scan EXCEPT !.pc = "returned"]
  /\ UNCHANGED <<adapter, cli, ctx, chunks, fwd, red, events, lines>>

ScanEnds ==
  /\ scan.pc = "scan" /\ fwd.pc = "done"
  /\ scan' = [scan EXCEPT !.pc = "result"]
  /\ UNCHANGED <<adapter, cli, ctx, chunks, fwd, red, events, outcome, lines>>

\* Which launches wait for goroutine A's stderr before they decide.
WaitsForStderr(ad, r) == ad \in {"codex", "droid", "goose"} \/ (ad = "session" /\ r.kind = "none")

AwaitResult ==
  /\ scan.pc = "result" /\ ~Running
  /\ WaitsForStderr(adapter.name, red) => fwd.pc = "done"
  /\ outcome' = Outcome(red, cli.result)
  /\ scan' = [scan EXCEPT !.pc = "returned"]
  /\ UNCHANGED <<adapter, cli, ctx, chunks, fwd, red, events, lines>>

\* The dispatcher takes events until the channel is closed, or gives up.
TakeEvent ==
  /\ events > 0
  /\ events' = events - 1
  /\ UNCHANGED <<adapter, cli, ctx, chunks, fwd, scan, red, outcome, lines>>

GoroutineStep == \/ TakeChunk \/ WriteFails \/ ForwardEnds
                 \/ ScanLine \/ EmitEvent \/ EmitStopped \/ ScanEnds \/ AwaitResult
AdapterNext ==
  \/ \E line \in Alphabet(adapter.name) : WriteLine(line)
  \/ \E ending \in Endings(adapter.name) : Exit(ending)
  \/ Cancel \/ GoroutineStep \/ TakeEvent
-----------------------------------------------------------------------------
AdapterTypeOK ==
  /\ adapter \in [name : AdapterNames, schema : BOOLEAN]
  /\ Len(chunks) <= ChunkCap /\ events \in 0..EventCap
  /\ cli.left \in 0..MaxLines[adapter.name]
  /\ outcome \in {"none", "ok", "unparseable", "permission", "invalid", "launch", "exit"}

(***************************************************************************)
(* What an outcome may say, in terms of the whole transcript.              *)
(***************************************************************************)
Verdicts(ad) == IF ad \in {"claude", "session", "droid"} THEN {"done", "garbled", "spent", "denied", "fail"}
                ELSE {"done"}
LastOf(S) == LET D == {i \in DOMAIN lines : lines[i] \in S}
             IN  IF D = {} THEN "none" ELSE lines[CHOOSE i \in D : \A j \in D : j <= i]

\* Success needs a transport that ended well and the success event: the last
\* verdict of a claude or droid stream, the end of a codex or goose turn, whose
\* last (codex) message has text.  A crash is never a verdict.
OkIsEarned ==
  outcome = "ok" =>
    /\ ~cli.result.err
    /\ LastOf(Verdicts(adapter.name)) \in {"done"} \cup (IF adapter.name = "droid" /\ ~adapter.schema THEN {"garbled"} ELSE {})
    /\ adapter.name = "codex" => LastOf({"text", "prose", "blank"}) \in (IF adapter.schema THEN {"text"} ELSE {"text", "prose"})
    /\ adapter.name = "goose" => LastOf({"text", "prose"}) # "none" /\ LastOf({"fail", "mute"}) # "fail"

\* A permanent failure, which is not retried, is the CLI's own statement about
\* its configuration or credentials: never a lost transport, a cancellation, a
\* fault that the provider may recover from, or one that the CLI recovered from.
PermanentIsStated ==
  outcome \in {"permission", "invalid"} =>
    /\ ~cli.result.err
    /\ CASE adapter.name \in {"claude", "session", "droid"} ->
              \/ LastOf(Verdicts(adapter.name)) = "denied"
              \/ adapter.name = "droid" /\ cli.result.stderr = "config" /\ LastOf(Verdicts("droid")) = "none"
         [] adapter.name = "codex" ->
              /\ LastOf({"done"}) = "none" \/ LastOf({"text", "prose", "blank"}) \notin {"text", "prose"}
              /\ IF LastOf({"bad400", "fail"}) # "none" THEN LastOf({"bad400", "fail"}) = "bad400"
                 ELSE LastOf({"notice", "notice400"}) = "notice400"
         [] adapter.name = "goose" -> cli.result.code # 0

\* The outcome is decided on everything the CLI wrote, unless the scanner
\* stopped or the launch was cancelled.
WholeOutput ==
  outcome \notin {"none", "launch"} /\ scan.line # "long" => chunks = <<>> /\ fwd.pc = "done" /\ ~Running

\* One launch of a CLI: a success was said by the CLI and holds what the step
\* needs, a permanent failure was stated by the CLI, and both were decided on
\* everything it wrote, however the two goroutines and the context interleave.
AdapterSafe == AdapterTypeOK /\ OkIsEarned /\ PermanentIsStated /\ WholeOutput

\* A launch whose CLI ended delivers its outcome, if the scanner could read
\* every line.
LaunchReturns == ~Running ~> (outcome # "none" \/ scan.line = "long")

=============================================================================
