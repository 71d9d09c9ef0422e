------------------------------- MODULE MCSteps -------------------------------
(* Steps that outlive a driver, one kind at a time: await with its signals, *)
(* react, and the calls and compose blocks that own containers.             *)
EXTENDS SignalAwait, ReactLoop, SubworkflowCall

CONSTANTS w1, w2, w3, a1, a2
ThreeWriters == {w1, w2, w3}
TwoAwaits == {a1, a2}
OnlyA1 == {a1}
OnlyA2 == {a2}
W2W3 == {w2, w3}

Answer(finish, calls, text) == [finish |-> finish, calls |-> calls, text |-> text]
ProviderAnswers ==
    { Answer("stop", <<>>, "conforming"), Answer("stop", <<>>, "object"), Answer("stop", <<>>, "prose"),
      Answer("tool_calls", <<>>, "prose"), Answer("tool_calls", <<"grep">>, "prose"),
      Answer("tool_calls", <<"grep", "ls">>, "prose"), Answer("tool_calls", <<"ls", "rm">>, "prose") }
ProcessResults == {[exit |-> 0, body |-> "text"], [exit |-> 1, body |-> "long"], [exit |-> 0, body |-> "binary"]}
TwoBoxes == <<"db", "img", "work">>

VARIABLE part
partVars == <<vars, reactVars, callVars, part>>
MCInit == /\ Init /\ ReactInit /\ CallInit /\ part \in {"await", "react", "call"}
          /\ part # "call" => node = "call" /\ version = CHOOSE v \in Versions : TRUE
MCNext == \/ part = "await" /\ Next /\ UNCHANGED <<reactVars, callVars, part>>
          \/ part = "react" /\ ReactNext /\ UNCHANGED <<vars, callVars, part>>
          \/ part = "call" /\ CallNext /\ UNCHANGED <<vars, reactVars, part>>
\* Writers, awaits and drivers are scheduled; an operator resumes the run.
AwaitOnly == part = "await" /\ UNCHANGED <<reactVars, callVars, part>>
MCFair == /\ \A w \in Writers : WF_partVars(WriterStep(w) /\ AwaitOnly)
          /\ \A a \in Awaits : WF_partVars(AwaitStep(a) /\ AwaitOnly)
          /\ WF_partVars((Exit \/ Resume) /\ AwaitOnly)
          /\ WF_partVars(part = "react" /\ ReactStep /\ UNCHANGED <<vars, callVars, part>>)
          /\ WF_partVars(part = "call" /\ CallStepNext /\ UNCHANGED <<vars, reactVars, part>>)
MCSpec == MCInit /\ [][MCNext]_partVars /\ MCFair

\* Every driver that enters a react step, a call or a compose block returns.
DriversReturn == (rpc # "idle" \/ cpc # "idle") ~> (rpc = "idle" /\ cpc = "idle")
=============================================================================
