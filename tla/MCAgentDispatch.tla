-------------------------- MODULE MCAgentDispatch --------------------------
EXTENDS AgentDispatch

Plain == [kind |-> "agent", attempts |-> 1, events |-> 2, live |-> TRUE, deltas |-> {},
          idle |-> FALSE, wall |-> TRUE, persistent |-> FALSE, recover |-> FALSE,
          files |-> FALSE, logFails |-> FALSE, nonRetryable |-> {78}]

\* a live session that continues across two attempts, one whose journal fails,
\* a chatty one, a plain adapter with files, a code step
MCDefinitions ==
  { [Plain EXCEPT !.attempts = 2, !.events = 1, !.deltas = {1}, !.idle = TRUE,
                  !.persistent = TRUE, !.recover = TRUE],
    [Plain EXCEPT !.events = 3, !.deltas = {1, 2}, !.logFails = TRUE, !.persistent = TRUE],
    [Plain EXCEPT !.attempts = 2, !.events = 1, !.live = FALSE, !.files = TRUE],
    [Plain EXCEPT !.kind = "code", !.attempts = 3] }
=============================================================================
