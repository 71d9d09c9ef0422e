----------------------------- MODULE MCAdapters -----------------------------
(* One launch of every command line adapter, with and without a schema, and *)
(* the way of a small configuration to the command or request it becomes.   *)
EXTENDS AgentAdapters, AdapterConfig

\* An ok takes two lines of codex, whose failures may be masked: a third may come before or between.
LinesOf == [claude |-> 2, session |-> 2, codex |-> 3, droid |-> 2, goose |-> 2]

VARIABLE part
vars == <<adapterVars, configVars, part>>
NoLaunch == /\ adapter = [name |-> "claude", schema |-> FALSE] /\ cli = [left |-> 0, result |-> NoResult]
            /\ ctx = "done" /\ chunks = <<>> /\ fwd = [pc |-> "idle", line |-> "none"]
            /\ scan = [pc |-> "idle", line |-> "none", pend |-> 0] /\ red = NothingYet
            /\ events = 0 /\ outcome = "none" /\ lines = <<>>
NoConfig == /\ conf = [adapter |-> "none", role |-> Nothing, step |-> Nothing, env |-> {}, late |-> FALSE, evidence |-> FALSE]
            /\ phase = "none" /\ verdict = NoError /\ sent = Nothing
MCInit == \/ part = "launch" /\ AdapterInit /\ NoConfig
          \/ part = "config" /\ ConfigInit /\ NoLaunch
MCNext == \/ part = "launch" /\ AdapterNext /\ UNCHANGED <<configVars, part>>
          \/ part = "config" /\ ConfigNext /\ UNCHANGED <<adapterVars, part>>
MCFair == /\ WF_vars(part = "launch" /\ GoroutineStep /\ UNCHANGED <<configVars, part>>)
          /\ WF_vars(part = "launch" /\ ctx = "live" /\ TakeEvent /\ UNCHANGED <<configVars, part>>)
MCSpec == MCInit /\ [][MCNext]_vars /\ MCFair
\* The configurations alone.
ConfigSpec == part = "config" /\ ConfigInit /\ NoLaunch /\ [][part = "config" /\ ConfigNext /\ UNCHANGED <<adapterVars, part>>]_vars
=============================================================================
