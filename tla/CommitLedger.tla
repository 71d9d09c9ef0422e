---------------------------- MODULE CommitLedger ----------------------------
(***************************************************************************)
(* What engine.Commit and resume promise of a workflow of steps 1 .. N,    *)
(* without a log, a blob store, a lock or a process: steps become visible  *)
(* as completed in their order and once, a visible step may be             *)
(* acknowledged, a failure may take back visible steps, and an             *)
(* acknowledged step is never taken back.                                  *)
(***************************************************************************)
EXTENDS Naturals

CONSTANT N

VARIABLES
    visible,    \* the steps a reader would find completed
    acked       \* the steps whose commit was reported to the interpreter

Init == visible = {} /\ acked = {}

Expose(n) ==
    /\ n \notin visible
    /\ \A i \in 1 .. (n - 1) : i \in visible
    /\ visible' = visible \cup {n}
    /\ UNCHANGED acked

Acknowledge(n) ==
    /\ n \in visible
    /\ acked' = acked \cup {n}
    /\ UNCHANGED visible

Lose ==
    /\ visible' \in SUBSET visible
    /\ acked \subseteq visible'
    /\ UNCHANGED acked

Next ==
    \/ \E n \in 1 .. N : Expose(n) \/ Acknowledge(n)
    \/ Lose

Spec == Init /\ [][Next]_<<visible, acked>>
=============================================================================
