---------------------------- MODULE LlmTransport ----------------------------
(***************************************************************************)
(* One call of the awf/llm adapter (agent/awfllm): the request a launch or *)
(* a react round becomes, the response of the four wire protocols, and the *)
(* verdict the engine draws from it.                                       *)
(*                                                                         *)
(* The response is a sequence of items, each what its parser tells apart:  *)
(*   prose, obj   a piece of answer text; obj holds a JSON object          *)
(*   stop, length, tool_calls   the reason the answer ended                *)
(*   usage        the token counts          call   a tool call             *)
(*   ping, stray, empty   nothing the adapter keeps                        *)
(*   err400, err503   an error event inside an anthropic stream            *)
(* An anthropic item is an SSE event of one or two data lines that a blank *)
(* line ends; a gateway may split it and may leave out the last blank.     *)
(***************************************************************************)
EXTENDS Naturals, Sequences, SequencesExt

CONSTANTS LlmProviders,  \* the providers called
          MaxItems       \* bound: items of one response (two more lines for anthropic)

VARIABLES job,      \* the invocation
          call,     \* "new", "sent", "streaming" or "over"
          reply,    \* the status line and headers of the response
          wire,     \* history: the lines received
          acc,      \* what the transport has made of them
          llmCtx,   \* "live" or "done"
          shown,    \* the deltas emitted as events
          answer    \* the outcome: its class, and the wait the server asked for

llmVars == <<job, call, reply, wire, acc, llmCtx, shown, answer>>

Pieces == {"prose", "obj"}
Reasons == {"stop", "length", "tool_calls"}
(***************************************************************************)
(* The request: blocks of text in the order they are sent, `mark` where a  *)
(* cache_control breakpoint ends the prefix the provider is to cache.      *)
(***************************************************************************)
mimeModality(mime) == CASE mime = "image/png" -> "image" [] mime = "application/pdf" -> "document" [] OTHER -> "none"
providerForwards(p) == IF p = "ollama" THEN {"image"} ELSE {"image", "document"}
forwardable(p, mime) == mimeModality(mime) \in providerForwards(p)

TextBlock(what, mark) == [what |-> what, mark |-> mark]
Plain(whats) == [i \in DOMAIN whats |-> TextBlock(whats[i], FALSE)]
\* The gate's last verdict goes before the prompt, the schema after it.
assemblePrompt(j, feedback) == (IF feedback THEN <<"verdict">> ELSE <<>>) \o <<"prompt">> \o (IF j.schema THEN <<"schema">> ELSE <<>>)
renderContextEvidence(j) == IF j.evidence THEN <<"evidence">> ELSE <<>>
promptWithContextEvidence(j, feedback) == Plain(renderContextEvidence(j) \o assemblePrompt(j, feedback))
SystemMessage(j, mark) == IF j.system THEN <<TextBlock("system", mark)>> ELSE <<>>
Thread(j) == Plain(FlattenSeq([i \in 1..j.thread |-> <<<<"user", i>>, <<"assistant", i>>>>]))

buildOpenAIParts(j, feedback) == SystemMessage(j, FALSE) \o Thread(j) \o Plain(j.files) \o promptWithContextEvidence(j, feedback)
\* Images ride inside the message that holds the prompt.
ollamaMessages(j, feedback) == SystemMessage(j, FALSE) \o Thread(j) \o promptWithContextEvidence(j, feedback) \o Plain(j.files)
explicitCache(j) == j.cache = "explicit" /\ j.files # <<>>
geminiContents(j, feedback) ==
  (IF explicitCache(j) THEN <<TextBlock("cachedContent", TRUE)>> ELSE SystemMessage(j, FALSE))
  \o Thread(j) \o (IF explicitCache(j) THEN <<>> ELSE Plain(j.files)) \o promptWithContextEvidence(j, feedback)
buildAnthropicBody(j, feedback) ==
  SystemMessage(j, j.cache = "system") \o Thread(j)
  \o [i \in DOMAIN j.files |-> TextBlock(j.files[i], i = Len(j.files) /\ j.cache = "documents")]
  \o [i \in DOMAIN renderContextEvidence(j) |-> TextBlock("evidence", j.cache = "context")]
  \o Plain(assemblePrompt(j, feedback))
Request(j, feedback) == CASE j.provider = "openai" -> buildOpenAIParts(j, feedback)
                          [] j.provider = "ollama" -> ollamaMessages(j, feedback)
                          [] j.provider = "gemini" -> geminiContents(j, feedback)
                          [] j.provider = "anthropic" -> buildAnthropicBody(j, feedback)
\* A file the transport cannot send; a cached document is not looked at.
unsupportedMIME(j) == /\ ~(j.provider = "gemini" /\ explicitCache(j))
                      /\ \E i \in DOMAIN j.files : ~forwardable(j.provider, j.files[i])
(***************************************************************************)
(* Errors.  `api` is an HTTP or stream error, `config` a bad request the   *)
(* adapter noticed itself, `transport` everything else.                    *)
(***************************************************************************)
NoAnswer == [class |-> "none", hint |-> 0]
\* The headers: retry-after-ms wins over Retry-After, a value of 0 is none.
parseRetrySignals(r) == IF r.ms > 0 THEN r.ms ELSE r.sec
\* openai reports the error's own type; the others only tell a bad request.
errType(p, r) == CASE r.body = "invalid" -> "invalid_request_error"
                   [] p = "openai" /\ r.body = "quota" -> "insufficient_quota"
                   [] OTHER -> "error"
apiError(p, r) == [kind |-> "api", status |-> r.status, type |-> errType(p, r), body |-> r.body,
                   after |-> parseRetrySignals(r), should |-> r.should]
anthropicStreamErr(x) == [kind |-> "api", status |-> IF x = "err400" THEN 400 ELSE 503,
                          type |-> IF x = "err400" THEN "invalid_request_error" ELSE "error",
                          body |-> "stream", after |-> 0, should |-> "absent"]
isQuotaOrBudget(e) == e.type = "insufficient_quota" \/ e.body \in {"quota", "budget"}
isPermanentLLMError(e) == \/ e.status \in {401, 403}
                          \/ e.status = 400 /\ e.type = "invalid_request_error"
                          \/ isQuotaOrBudget(e)
\* With classifyAgentLaunchErr, which looks for a config error inside.
classifyLaunchErr(e) ==
  CASE e.kind = "config" -> [class |-> "permanent", hint |-> 0]
    [] e.kind = "transport" -> [class |-> "retryable", hint |-> 0]
    [] e.kind = "api" -> IF e.should = "false" \/ (e.should = "absent" /\ isPermanentLLMError(e))
                           THEN [class |-> "permanent", hint |-> 0]
                           ELSE [class |-> "retryable", hint |-> e.after]
(***************************************************************************)
(* Token counts.  The server worked on Fresh and Cached tokens of input;   *)
(* what it reports differs by provider.                                    *)
(***************************************************************************)
Fresh == 3
Cached == 2
NoUsage == [input |-> 0, read |-> 0]
usageRec(p) == CASE p \in {"openai", "gemini"} -> [input |-> Fresh + Cached, read |-> Cached]
                 [] p = "anthropic" -> [input |-> Fresh, read |-> Cached]
                 [] p = "ollama" -> [input |-> Fresh, read |-> 0]
MetricsSubtractAll(p, u) == [input |-> IF u.input >= u.read THEN u.input - u.read ELSE 0, read |-> u.read]
metricsFrom(p, u) == [input |-> IF p = "anthropic" THEN u.input ELSE u.input - u.read, read |-> u.read]
(***************************************************************************)
(* The readers.  Each folds one line into what is known so far.            *)
(***************************************************************************)
NothingRead == [text |-> <<>>, finish |-> "", usage |-> NoUsage, calls |-> 0, choices |-> FALSE,
                buf |-> <<>>, err |-> "none", priced |-> NoUsage]
Fold(p, a, x) == [a EXCEPT !.text = IF x \in Pieces THEN Append(@, x) ELSE @,
                           !.finish = IF x \in Reasons THEN x ELSE @,
                           !.usage = IF x = "usage" THEN usageRec(p) ELSE @,
                           !.calls = IF x = "call" THEN @ + 1 ELSE @,
                           !.choices = @ \/ x \in Pieces \cup Reasons \cup {"call"},
                           !.err = IF x \in {"err400", "err503"} THEN x ELSE @]
streamOpenAI(a, x) == Fold("openai", a, x)
\* The last line, done, carries the reason and the counts; any line that is
\* not JSON is passed over.
streamOllama(a, x) == IF x \in Reasons THEN Fold("ollama", Fold("ollama", a, "usage"), x) ELSE Fold("ollama", a, x)
\* One body, parsed at the end; its reasons are not the others' names.
callGemini(lines) ==
  LET read(a, x) == IF x = "length" THEN [a EXCEPT !.finish = "MAX_TOKENS", !.choices = TRUE] ELSE Fold("gemini", a, x)
  IN  FoldLeft(read, [NothingRead EXCEPT !.usage = usageRec("gemini")], lines)
\* The data lines of one event are joined; what does not parse is dropped.
Joined(buf) == IF Len(buf) = 1 /\ buf[1][2] = "whole" THEN buf[1][1]
               ELSE IF Len(buf) = 2 /\ buf[1][2] = "head" /\ buf[2][2] = "tail" THEN buf[1][1] ELSE "stray"
dispatch(a) == Fold("anthropic", [a EXCEPT !.buf = <<>>], Joined(a.buf))
callAnthropic(a, line) ==
  CASE line[2] = "blank" -> IF a.buf = <<>> THEN a ELSE dispatch(a)
    [] line[2] = "comment" -> a
    [] OTHER -> [a EXCEPT !.buf = Append(@, line)]
readLine(a, line) == CASE job.provider = "openai" -> streamOpenAI(a, line)
                   [] job.provider = "ollama" -> streamOllama(a, line)
                   [] job.provider = "gemini" -> a
                   [] job.provider = "anthropic" -> callAnthropic(a, line)
\* The response is over: what is left is parsed.  A dropped connection is an
\* error of its own, and so is half a gemini body; an error event the scanner
\* has passed is forgotten when the connection drops behind it.
Closed(a, dropped) ==
  CASE job.provider = "gemini" -> IF dropped THEN [a EXCEPT !.err = "drop"] ELSE callGemini(wire)
    [] job.provider = "anthropic" ->
         LET b == IF a.err = "none" /\ a.buf # <<>> THEN dispatch(a) ELSE a
         IN  IF dropped THEN [b EXCEPT !.err = "drop"] ELSE b
    [] OTHER -> IF dropped THEN [a EXCEPT !.err = "drop"] ELSE a

extractJSONObject(text) == "obj" \in ToSet(text)
\* The launch's verdict on a response that was read to its end.
buildResult(a) == IF a.text = <<>> \/ a.finish = "length" \/ (job.schema /\ ~extractJSONObject(a.text)) THEN "unparseable" ELSE "ok"
\* A react round's: the calls to make, or the answer.
runOneToolCall(a) == IF ~a.choices THEN "error"
                     ELSE IF a.finish = "tool_calls" THEN "tools"
                     ELSE IF job.schema /\ ~extractJSONObject(a.text) THEN "unparseable" ELSE "ok"
StreamError(a) == IF a.err = "drop" THEN [kind |-> "transport"] ELSE anthropicStreamErr(a.err)
Verdict(a) ==
  IF a.err # "none" THEN IF job.react THEN [class |-> "error", hint |-> 0] ELSE classifyLaunchErr(StreamError(a))
  ELSE [class |-> IF job.react THEN runOneToolCall(a) ELSE buildResult(a), hint |-> 0]
-----------------------------------------------------------------------------
(***************************************************************************)
(* The steps.                                                              *)
(***************************************************************************)
Caches(p) == CASE p = "gemini" -> {"none", "explicit"} [] p = "anthropic" -> {"none", "system", "documents", "context"} [] OTHER -> {"none"}
NoReply == [status |-> 0, body |-> "", should |-> "absent", ms |-> 0, sec |-> 0]
LlmInit ==
  /\ \E p \in LlmProviders : \E files \in {<<>>, <<"image/png">>, <<"application/pdf">>, <<"text/csv">>, <<"image/png", "application/pdf">>} :
     \E cache \in Caches(p), react, schema, system, evidence, big \in BOOLEAN, thread \in 0..1 :
       /\ react => p \in {"openai", "gemini"} /\ files = <<>> /\ cache = "none" /\ thread = 0 /\ ~evidence /\ ~big
       /\ big => files # <<>>
       /\ job = [provider |-> p, files |-> files, cache |-> cache, react |-> react, schema |-> schema,
                 system |-> system, evidence |-> evidence, thread |-> thread, big |-> big]
  /\ call = "new" /\ reply = NoReply /\ wire = <<>> /\ acc = NothingRead
  /\ llmCtx = "live" /\ shown = <<>> /\ answer = NoAnswer

Over(e) == call' = "over" /\ answer' = classifyLaunchErr(e) /\ UNCHANGED <<job, reply, wire, acc, llmCtx, shown>>
\* Too many inline bytes, or a context to cache and none given: no request.
LaunchRefuses == /\ call = "new"
                 /\ job.big \/ (job.cache = "context" /\ ~job.evidence) \/ unsupportedMIME(job)
                 /\ Over([kind |-> "config"])
LaunchSends == /\ call = "new" /\ ~job.big /\ ~(job.cache = "context" /\ ~job.evidence) /\ ~unsupportedMIME(job)
               /\ call' = "sent" /\ UNCHANGED <<job, reply, wire, acc, llmCtx, shown, answer>>
ConnectFails == call = "sent" /\ Over([kind |-> "transport"])
\* Gemini's tool loop speaks the openai protocol too.
Responds(r) ==
  /\ call = "sent" /\ reply' = r
  /\ IF r.status = 200
       THEN call' = "streaming" /\ UNCHANGED answer
       ELSE /\ call' = "over"
            /\ answer' = IF job.react THEN [class |-> "error", hint |-> 0] ELSE classifyLaunchErr(apiError(job.provider, r))
  /\ UNCHANGED <<job, wire, acc, llmCtx, shown>>
\* Errors and long responses are told for the plainest request only.
Bare == job.files = <<>> /\ job.cache = "none" /\ ~job.system /\ ~job.evidence /\ job.thread = 0
Replies == {[NoReply EXCEPT !.status = 200]} \cup
           {[status |-> s, body |-> b, should |-> h, ms |-> m, sec |-> n] :
              s \in IF Bare THEN {400, 401, 429, 503} ELSE {}, b \in {"invalid", "quota", "budget", "other"},
              h \in {"absent", "true", "false"}, m \in {0, 1}, n \in {0, 2}}

\* The lines a server may send next.
ItemsOf(p) == CASE p = "openai" -> Pieces \cup Reasons \cup {"usage", "call", "empty"}
              [] p = "ollama" -> Pieces \cup {"stop", "length", "stray"}
              [] p = "gemini" -> Pieces \cup {"stop", "length"}
              [] p = "anthropic" -> Pieces \cup {"stop", "length", "usage", "ping", "err400", "err503"}
Pending == IF wire = <<>> THEN "blank" ELSE Last(wire)[2]
NextLines ==
  IF job.provider # "anthropic" THEN ItemsOf(IF job.react THEN "openai" ELSE job.provider)
  ELSE CASE Pending \in {"blank", "comment"} -> {<<"", "comment">>} \cup {<<x, part>> : x \in ItemsOf("anthropic"), part \in {"whole", "head"}}
         [] Pending = "head" -> {<<Last(wire)[1], "tail">>}
         [] Pending \in {"whole", "tail"} -> {<<"", "blank">>}
\* The deltas of a line are emitted unless the context has ended.
Emitted(b) == IF llmCtx = "live" THEN shown' = b.text ELSE shown' \in {shown, b.text}
ItemBound == IF ~Bare THEN 1 ELSE IF job.provider = "anthropic" THEN MaxItems + 2 ELSE MaxItems
Receive(line) ==
  /\ call = "streaming" /\ acc.err = "none" /\ Len(wire) < ItemBound
  /\ wire' = Append(wire, line)
  /\ acc' = IF job.react THEN streamOpenAI(acc, line) ELSE readLine(acc, line)
  /\ IF job.react THEN UNCHANGED shown ELSE Emitted(acc')
  /\ UNCHANGED <<job, call, reply, llmCtx, answer>>
CancelCall == /\ call \in {"sent", "streaming"} /\ llmCtx = "live" /\ llmCtx' = "done"
              /\ UNCHANGED <<job, call, reply, wire, acc, shown, answer>>
StreamEnds(dropped) ==
  /\ call = "streaming"
  /\ LET a == IF job.react THEN (IF dropped THEN [acc EXCEPT !.err = "drop"] ELSE acc) ELSE Closed(acc, dropped)
         b == [a EXCEPT !.priced = metricsFrom(IF job.react THEN "openai" ELSE job.provider, a.usage)]
     IN  acc' = b /\ answer' = Verdict(b) /\ IF job.react THEN UNCHANGED shown ELSE Emitted(b)
  /\ call' = "over"
  /\ UNCHANGED <<job, reply, wire, llmCtx>>

LlmNext == \/ LaunchRefuses \/ LaunchSends \/ ConnectFails \/ CancelCall
           \/ \E r \in Replies : Responds(r)
           \/ \E line \in NextLines : Receive(line)
           \/ \E dropped \in BOOLEAN : StreamEnds(dropped)
-----------------------------------------------------------------------------
\* The events of a response, reassembled independently of the readers: a line
\* stands for itself, an SSE event for its first data line once it is whole.
Sent(i) == IF job.provider # "anthropic" THEN wire[i]
           ELSE IF wire[i][2] \in {"whole", "tail"} THEN wire[i][1] ELSE "none"
SentItems == [i \in DOMAIN wire |-> Sent(i)]
SentText == SelectSeq(SentItems, LAMBDA x : x \in Pieces)

\* An accepted answer is the text the server sent, in order, under a 200, with
\* no error event, no dropped connection, and an object where one is asked for.
\* It may still be a part of what the model had to say, in three cases and no
\* other: the server closed the stream in good order without naming a reason,
\* a react round stands at its length limit (transport.go:252-288), or gemini
\* calls the limit MAX_TOKENS, which the launch does not know (launch.go:90).
ReasonsSent == SelectSeq(SentItems, LAMBDA x : x \in Reasons)
Truncated == ReasonsSent # <<>> /\ Last(ReasonsSent) = "length"
OkIsWhole ==
  answer.class = "ok" =>
    /\ reply.status = 200 /\ acc.err = "none" /\ acc.text = SentText
    /\ {"err400", "err503"} \cap ToSet(SentItems) = {}
    /\ job.react \/ acc.text # <<>>
    /\ job.schema => "obj" \in ToSet(SentText)
    /\ Truncated => job.react \/ job.provider = "gemini"

\* No launch accepts an answer the server says it cut off: empty output,
\* refusal and truncation are unparseable (launch.go:89), for every provider.
TruncationIsUnparseable == answer.class = "ok" /\ ~job.react => ~Truncated

\* A call is given up only for what a retry cannot mend, the server's own word
\* on retrying decides, and the wait it asked for reaches the engine.
ServerDecides ==
  call = "over" /\ reply.status \notin {0, 200} /\ ~job.react =>
    /\ reply.should = "true" => answer.class = "retryable"
    /\ reply.should = "false" => answer.class = "permanent"
    /\ answer.class = "retryable" => answer.hint = (IF reply.ms > 0 THEN reply.ms ELSE reply.sec)
    /\ reply.should = "absent" => (answer.class = "permanent" <=> (reply.status = 401 \/ (reply.status = 400 /\ reply.body = "invalid") \/ reply.body \in {"quota", "budget"}))

\* Input tokens are paid for once: the fresh ones at their price, the cached
\* ones at theirs, whatever the provider counts into its total.
PaidOnce == call = "over" /\ acc.usage # NoUsage => acc.priced.input = Fresh /\ acc.priced.read \in {0, Cached}

\* The prefix a repair attempt shares with the attempt before it holds every
\* breakpoint and, but for ollama, every file: what is cached is read again.
Shared(r1, r2) == LET D == {n \in 0..Len(r1) : n <= Len(r2) /\ SubSeq(r1, 1, n) = SubSeq(r2, 1, n)}
                  IN  CHOOSE n \in D : \A k \in D : k <= n
CacheStable ==
  call = "sent" =>
    LET r == Request(job, FALSE)  n == Shared(r, Request(job, TRUE))
    IN  /\ \A i \in DOMAIN r : r[i].mark => i <= n
        /\ job.provider # "ollama" => \A f \in ToSet(job.files) : explicitCache(job) \/ \E i \in 1..n : r[i].what = f

\* While its reader listens, every piece of text is shown as it is kept.
ShownIsKept == llmCtx = "live" /\ ~job.react => shown = acc.text

\* A call of awf/llm: no answer is accepted from a connection that dropped or
\* behind an error the server sent, nor one it cut off but in the cases that
\* OkIsWhole names; a call is given up for what the server says cannot be
\* mended, tokens are paid for once, a repair attempt reuses what is cached,
\* and what is shown is what is kept.
LlmSafe == OkIsWhole /\ ServerDecides /\ PaidOnce /\ CacheStable /\ ShownIsKept
=============================================================================
