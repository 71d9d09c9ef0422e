---------------------------- MODULE WorkflowGraph ----------------------------
(* The node lists of a workflow and the static path of every node           *)
(* (ir/walk.go, ir/path.go).  A node's children are <<branch, list>> pairs; *)
(* v is what its users know of its body.                                    *)
EXTENDS Naturals, Sequences, SequencesExt

StepKinds == {"code", "agent"}
Node(k, id, v, kids) == [k |-> k, id |-> id, v |-> v, kids |-> kids]
Position == <<"0", "1", "2", "3", "4", "5">>
\* A step is addressed by its id, a control node by its position.
PathFor(parent, n, i) == Append(parent, IF n.k \in StepKinds THEN <<"step", n.id>> ELSE <<n.k, Position[i]>>)
\* The children of a parallel stand under its bare path.
ChildPath(parent, n, i, branch) == IF n.k = "parallel" THEN PathFor(parent, n, i) ELSE Append(PathFor(parent, n, i), <<branch, "">>)
RECURSIVE WalkNodes(_, _)
WalkNodes(list, parent) ==
  LET below(n, i) == FlattenSeq([b \in DOMAIN n.kids |-> WalkNodes(n.kids[b][2], ChildPath(parent, n, i, n.kids[b][1]))])
  IN  FlattenSeq([i \in DOMAIN list |->
        IF list[i].k = "skip" THEN <<>> ELSE <<[path |-> PathFor(parent, list[i], i), node |-> list[i]]>> \o below(list[i], i)])
=============================================================================
