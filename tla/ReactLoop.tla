----------------------------- MODULE ReactLoop -----------------------------
(***************************************************************************)
(* The react step: rounds of one model call and the tool calls it asks     *)
(* for, until the model stops or max_turns is reached.  Every answer of    *)
(* the model and every tool result is a committed leaf, and a react.round  *)
(* record closes a round; a driver that takes over rebuilds the            *)
(* conversation from the leaves and goes on with the first open round.     *)
(***************************************************************************)
EXTENDS Naturals, Sequences, FiniteSets, Functions

CONSTANTS
    MaxTurns,         \* max_turns of the step, 0 when it is not set
    DefaultMaxTurns,
    Offered,          \* the tools that the step offers and the workflow declares
    HasSchema,        \* the step declares an output_schema
    Answers,          \* what the provider may answer: finish reason, tools called, text
    ToolResults,      \* what a tool process may end with: exit code, kind of stdout
    MaxDrivers,       \* bound on drivers
    MaxMishaps        \* bound on crashes and failures

ASSUME ReactAssumption ==
    /\ MaxTurns \in Nat /\ DefaultMaxTurns \in Nat \ {0}
    /\ MaxDrivers \in Nat /\ MaxMishaps \in Nat
    /\ HasSchema \in BOOLEAN
    /\ \A a \in Answers : a.calls \in Seq(STRING)

VARIABLES
    models,    \* [rounds -> answer]: the committed .model leaves
    leaves,    \* [<<round, index>> -> content]: the committed .tool-J leaves
    rounds,    \* number of react.round records
    product,   \* the committed result of the step, or NoProduct
    rpc,       \* where the driver is
    turn,      \* k, the round the driver is in
    at,        \* position in the tool calls of the round
    proc,      \* the tool process that ended and is not committed yet, or NoProc
    msgs,      \* the conversation in the memory of the driver
    result,    \* what the last driver returned
    drivers,   \* number of drivers so far
    mishaps,   \* crashes and failures left
    told,      \* history: [rounds -> the conversation its model was first asked with]
    ranTools   \* history: the tool calls whose process was ever started

durable == <<models, leaves, rounds, product>>
memory == <<rpc, turn, at, proc, msgs, result>>
reactVars == <<models, leaves, rounds, product, rpc, turn, at, proc, msgs, result, drivers, mishaps, told, ranTools>>

NoProduct == [stop |-> "none", round |-> 0]
NoTool == [exit |-> 0, body |-> "none"]

\* maxTurns: the declared bound or the default
Turns == IF MaxTurns = 0 THEN DefaultMaxTurns ELSE MaxTurns

Bind(f, x, y) == [z \in DOMAIN f \cup {x} |-> IF z = x THEN y ELSE f[z]]

-----------------------------------------------------------------------------
(* Messages.                                                               *)

\* boundToolResult: what of a tool's output the model is shown
boundToolResult(r) ==
    [shown |-> CASE r.body = "binary" -> "descriptor"
                 [] r.body = "long" -> "truncated"
                 [] OTHER -> "whole",
     exit |-> r.exit]

UnknownTool == [shown |-> "unknown tool", exit |-> 0]

Prompt == [role |-> "user", of |-> 0, call |-> 0, text |-> NoTool]
\* buildAssistantTurn
AssistantTurn(k) == [role |-> "assistant", of |-> k, call |-> 0, text |-> NoTool]
ToolTurn(k, j, content) == [role |-> "tool", of |-> k, call |-> j, text |-> content]

\* toolMessageFromLeaf: the content bounded when the leaf was committed
toolMessageFromLeaf(k, j) == ToolTurn(k, j, leaves[<<k, j>>])

\* one closed round of replayMessages
ReplayRound(k) ==
    <<AssistantTurn(k)>> \o [j \in 1 .. Len(models[k].calls) |-> toolMessageFromLeaf(k, j)]

\* replayMessages needs the model leaf and every tool leaf of the closed rounds
CanReplay == \A k \in 1 .. rounds : /\ k \in DOMAIN models
                                    /\ \A j \in 1 .. Len(models[k].calls) : <<k, j>> \in DOMAIN leaves
Replayed[k \in Nat] == IF k = 0 THEN <<Prompt>> ELSE Replayed[k - 1] \o ReplayRound(k)

Calls == models[turn].calls

-----------------------------------------------------------------------------
(* The driver.                                                             *)

Returns(r) == rpc' = "idle" /\ result' = r /\ proc' = NoTool /\ msgs' = <<>> /\ at' = 0 /\ turn' = 0
Mishap == mishaps > 0 /\ mishaps' = mishaps - 1

\* history of a conversation that reaches the model of round k
Tell(k, m) == told' = IF k \in DOMAIN told THEN told ELSE Bind(told, k, m)

\* runReactWithContext up to the round loop
Enter ==
    /\ rpc = "idle"
    /\ drivers < MaxDrivers
    /\ result # "ok"
    /\ drivers' = drivers + 1
    /\ \/ /\ product # NoProduct
          /\ Returns("ok")
          /\ UNCHANGED told
       \/ /\ product = NoProduct
          /\ ~CanReplay
          /\ Returns("internal")
          /\ UNCHANGED told
       \/ /\ product = NoProduct
          /\ CanReplay
          /\ rpc' = IF rounds + 1 <= Turns THEN "model" ELSE "fell through"
          /\ turn' = rounds + 1
          /\ msgs' = Replayed[rounds]
          /\ Tell(rounds + 1, Replayed[rounds])
          /\ result' = "none"
          /\ UNCHANGED <<at, proc>>
    /\ UNCHANGED <<durable, mishaps, ranTools>>

\* the prompt does not evaluate: failStep
PromptError ==
    /\ rpc = "idle" /\ drivers < MaxDrivers /\ result # "ok" /\ product = NoProduct
    /\ Mishap
    /\ drivers' = drivers + 1
    /\ Returns("permanent_failure")
    /\ UNCHANGED <<durable, told, ranTools>>

\* the model leaf of the open round is read back
ModelReplay ==
    /\ rpc = "model"
    /\ turn \in DOMAIN models
    /\ msgs' = Append(msgs, AssistantTurn(turn))
    /\ rpc' = "decide"
    /\ UNCHANGED <<durable, turn, at, proc, result, drivers, mishaps, told, ranTools>>

\* runOneToolCall parses the text of a final answer when there is a schema
Unparseable(a) == HasSchema /\ a.finish # "tool_calls" /\ a.text = "prose"

\* RunToolLoop and commitModelLeaf; a parse miss is failStep before any commit
ModelCall ==
    /\ rpc = "model"
    /\ turn \notin DOMAIN models
    /\ \E a \in Answers :
          \/ /\ Unparseable(a)
             /\ Returns("retryable_failure")
             /\ UNCHANGED models
          \/ /\ ~Unparseable(a)
             /\ models' = Bind(models, turn, a)
             /\ msgs' = Append(msgs, AssistantTurn(turn))
             /\ rpc' = "decide"
             /\ UNCHANGED <<turn, at, proc, result>>
    /\ UNCHANGED <<leaves, rounds, product, drivers, mishaps, told, ranTools>>

\* any other error of the call, and a commit that fails: an error without outcome
ModelError ==
    /\ rpc = "model"
    /\ turn \notin DOMAIN models
    /\ Mishap
    /\ Returns("internal")
    /\ UNCHANGED <<durable, drivers, told, ranTools>>

\* the tools of the round are run unless it is the last one
Decide ==
    /\ rpc = "decide"
    /\ models[turn].finish = "tool_calls" /\ turn < Turns
    /\ rpc' = "tools" /\ at' = 1
    /\ UNCHANGED <<durable, turn, proc, msgs, result, drivers, mishaps, told, ranTools>>

StopReason == IF models[turn].finish # "tool_calls" THEN "stop" ELSE "max_turns"

\* commitTerminal: the schema is enforced on a natural stop only
Terminal ==
    /\ rpc = "decide"
    /\ models[turn].finish # "tool_calls" \/ turn = Turns
    /\ \/ /\ StopReason = "stop" /\ HasSchema /\ models[turn].text # "conforming"
          /\ Returns("retryable_failure")
          /\ UNCHANGED product
       \/ /\ ~(StopReason = "stop" /\ HasSchema /\ models[turn].text # "conforming")
          /\ product' = [stop |-> StopReason, round |-> turn]
          /\ Returns("ok")
    /\ UNCHANGED <<models, leaves, rounds, drivers, mishaps, told, ranTools>>

InTools == rpc = "tools" /\ at <= Len(Calls) /\ proc = NoTool
NextTool(content) ==
    /\ msgs' = Append(msgs, ToolTurn(turn, at, content))
    /\ at' = at + 1

\* dispatchRoundTools: a committed leaf is replayed
ToolReplay ==
    /\ InTools
    /\ <<turn, at>> \in DOMAIN leaves
    /\ NextTool(leaves[<<turn, at>>])
    /\ UNCHANGED <<durable, rpc, turn, proc, result, drivers, mishaps, told, ranTools>>

\* toolByName fails: the model is told, nothing is committed
ToolUnknown ==
    /\ InTools
    /\ <<turn, at>> \notin DOMAIN leaves
    /\ Calls[at] \notin Offered
    /\ NextTool(UnknownTool)
    /\ UNCHANGED <<durable, rpc, turn, proc, result, drivers, mishaps, told, ranTools>>

\* mutant of ToolRun: the leaf is not looked up
ToolRunAgain ==
    /\ InTools
    /\ Calls[at] \in Offered
    /\ \E r \in ToolResults : proc' = r
    /\ ranTools' = ranTools \cup {<<turn, at>>}
    /\ UNCHANGED <<durable, rpc, turn, at, msgs, result, drivers, mishaps, told>>

\* dispatchOneTool: the process of the tool ends, whatever its exit code
ToolRun ==
    /\ InTools
    /\ <<turn, at>> \notin DOMAIN leaves
    /\ Calls[at] \in Offered
    /\ \E r \in ToolResults : proc' = r
    /\ ranTools' = ranTools \cup {<<turn, at>>}
    /\ UNCHANGED <<durable, rpc, turn, at, msgs, result, drivers, mishaps, told>>

\* ... and its leaf is committed with the bounded content
ToolCommit ==
    /\ rpc = "tools" /\ proc # NoTool
    /\ leaves' = Bind(leaves, <<turn, at>>, boundToolResult(proc))
    /\ NextTool(boundToolResult(proc))
    /\ proc' = NoTool
    /\ UNCHANGED <<models, rounds, product, rpc, turn, result, drivers, mishaps, told, ranTools>>

\* no exit code, a template that does not evaluate, a commit that fails
ToolError ==
    /\ rpc = "tools" /\ at <= Len(Calls)
    /\ proc # NoTool \/ (<<turn, at>> \notin DOMAIN leaves /\ Calls[at] \in Offered)
    /\ Mishap
    /\ Returns("internal")
    /\ UNCHANGED <<durable, drivers, told, ranTools>>

\* closeRound: the record is synced behind the leaves of the round
CloseRound ==
    /\ rpc = "tools" /\ proc = NoTool
    /\ at > Len(Calls)
    /\ rounds' = rounds + 1
    /\ turn' = turn + 1 /\ at' = 0
    /\ rpc' = IF turn + 1 <= Turns THEN "model" ELSE "fell through"
    /\ Tell(turn + 1, msgs)
    /\ UNCHANGED <<models, leaves, product, proc, msgs, result, drivers, mishaps, ranTools>>

\* the driver dies: what is not committed is gone
DriverCrash ==
    /\ rpc # "idle"
    /\ Mishap
    /\ Returns("crashed")
    /\ UNCHANGED <<durable, drivers, told, ranTools>>

ReactInit ==
    /\ models = <<>> /\ leaves = <<>> /\ rounds = 0 /\ product = NoProduct
    /\ rpc = "idle" /\ turn = 0 /\ at = 0 /\ proc = NoTool /\ msgs = <<>> /\ result = "none"
    /\ drivers = 0 /\ mishaps = MaxMishaps
    /\ told = <<>> /\ ranTools = {}

ReactStep ==
    \/ ModelReplay \/ ModelCall \/ Decide \/ Terminal
    \/ ToolReplay \/ ToolUnknown \/ ToolRun \/ ToolCommit \/ CloseRound
ReactNext == Enter \/ PromptError \/ ReactStep \/ ModelError \/ ToolError \/ DriverCrash
ReactSpec == ReactInit /\ [][ReactNext]_reactVars

-----------------------------------------------------------------------------
(* Properties.                                                             *)

\* Every variable of the react step has its type.
ReactTypeOK ==
    /\ DOMAIN models \subseteq 1 .. Turns
    /\ \A k \in DOMAIN models : models[k] \in Answers
    /\ DOMAIN leaves \subseteq (1 .. Turns) \X (Nat \ {0})
    /\ rounds \in 0 .. Turns
    /\ rpc \in {"idle", "model", "decide", "tools", "fell through"}
    /\ result \in {"none", "ok", "retryable_failure", "permanent_failure", "internal", "crashed"}
    /\ mishaps \in 0 .. MaxMishaps

\* The conversation a model is asked with in a round is the same for every
\* driver: whatever was in memory when one died, the next one rebuilds it
\* message by message from the leaves (replayMessages), truncations included.
SameConversation == rpc = "model" => msgs = told[turn]

\* The loop never runs off its bound ("Unreachable: the k==maxTurns branch
\* returns inside the loop"), also when it is entered behind closed rounds.
NeverFallsThrough == rpc # "fell through"

\* A round is closed only when all of it is on record: its model leaf, which
\* asked for tools, and the leaf of every tool that was offered; and nothing of
\* a round is committed before the round below it is closed.  So a replay fails
\* only behind a call of an unknown tool, for which no leaf is committed.
ClosedRoundsComplete ==
    /\ \A k \in 1 .. rounds :
          /\ k \in DOMAIN models
          /\ models[k].finish = "tool_calls"
          /\ \A j \in 1 .. Len(models[k].calls) : models[k].calls[j] \in Offered => <<k, j>> \in DOMAIN leaves
    /\ \A k \in DOMAIN models : k <= rounds + 1
    /\ \A t \in DOMAIN leaves : t[1] <= rounds + 1 /\ t[1] \in DOMAIN models

\* The tools asked for in the round that ends the step are never run, and
\* max_turns is reported only for an answer that still wanted tools.
DanglingCallsNotRun ==
    /\ product # NoProduct =>
          /\ \A t \in ranTools : t[1] < product.round
          /\ product.stop = "max_turns" <=> models[product.round].finish = "tool_calls"
    /\ \A t \in ranTools : t[1] < Turns

\* What is committed stays: no driver asks the model again in a round whose
\* answer is on record, or runs the process of a tool whose leaf is.
CommittedNotRepeated ==
    [][/\ \A k \in DOMAIN models : models'[k] = models[k]
       /\ \A t \in DOMAIN leaves : leaves'[t] = leaves[t] /\ ~(proc # proc' /\ proc' # NoTool /\ <<turn, at>> = t)
       /\ rounds' \in {rounds, rounds + 1}]_reactVars

\* Whoever takes a react step over sees the conversation its predecessors had,
\* repeats no model call and no tool that is on record, runs no tool of a turn
\* that ended the loop, and closes only rounds that are complete.
ReactSafe ==
    /\ [](ReactTypeOK /\ SameConversation /\ NeverFallsThrough /\ ClosedRoundsComplete /\ DanglingCallsNotRun)
    /\ CommittedNotRepeated
=============================================================================
