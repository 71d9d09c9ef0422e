------------------------------ MODULE MCContainers ------------------------------
(***************************************************************************)
(* The three container models in one run: a behaviour is of one of them,   *)
(* and the state of the other two rests.                                   *)
(***************************************************************************)
EXTENDS DockerBackend, ContainerExec, NativeBackend

VARIABLE side

MCMaxExecs == [docker |-> 2, native |-> 1]
\* No pid file, or one of an earlier process, for the pid that the first exec
\* gets under the number of the second.
MCLeftovers == {[n \in Execs |-> 0], [n \in Execs |-> IF n = 2 THEN 1 ELSE 0]}

MCInit == DInit /\ EInit /\ NInit
          /\ side \in {"docker", "exec", "native"}
          /\ (side # "exec" => backend = "docker" /\ left = {})

DockerSide == side = "docker" /\ DNext /\ UNCHANGED <<evars, nvars, side>>
ExecSide == side = "exec" /\ ENext /\ UNCHANGED <<vars, nvars, side>>
NativeSide == side = "native" /\ NNext /\ UNCHANGED <<vars, evars, side>>

MCSpec == /\ MCInit /\ [][DockerSide \/ ExecSide \/ NativeSide]_<<vars, evars, nvars, side>>
          /\ DFair /\ EFair
\* Every call of the docker engine returns, and so does every cancelled exec.
ContainerCallsReturn == CallsReturn /\ CancelReturns
=============================================================================
