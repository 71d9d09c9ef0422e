---------------------------- MODULE MCControlFlow ----------------------------
(* Workflows for ControlFlow.  Nodes are numbered in preorder.             *)
EXTENDS ControlFlow

N(kind, kids, last, max) == [kind |-> kind, kids |-> kids, last |-> last, max |-> max]
Step(n) == N("step", <<>>, n, 0)
Skip(n) == N("skip", <<>>, n, 0)
NodeList(kids, last) == N("seq", kids, last, 0)

\* parallel: gate || step
GateBesideStep ==
    << NodeList(<<2>>, 8),
         N("parallel", <<3, 8>>, 8, 0),
           N("gate", <<4, 6>>, 7, 1), NodeList(<<5>>, 5), Step(5), NodeList(<<7>>, 7), Step(7),
           Step(8) >>

\* parallel: try { step } finally { step } || step
TryInBranch ==
    << NodeList(<<2>>, 9),
         N("parallel", <<3, 9>>, 9, 0),
           N("try", <<4, 6, 7>>, 8, 0), NodeList(<<5>>, 5), Step(5), NodeList(<<>>, 6),
                                        NodeList(<<8>>, 8), Step(8),
           Step(9) >>

\* loop { if then { step; skip } else { step } }; then a step
LoopWithSkip ==
    << NodeList(<<2, 10>>, 10),
         N("loop", <<3>>, 9, 2), NodeList(<<4>>, 9),
           N("if", <<5, 8>>, 9, 0), NodeList(<<6, 7>>, 7), Step(6), Skip(7),
                                    NodeList(<<9>>, 9), Step(9),
         Step(10) >>

\* try { parallel: step || step } catch { step } finally { step }
TryParallel ==
    << NodeList(<<2>>, 10),
         N("try", <<3, 7, 9>>, 10, 0),
           NodeList(<<4>>, 6), N("parallel", <<5, 6>>, 6, 0), Step(5), Step(6),
           NodeList(<<8>>, 8), Step(8),
           NodeList(<<10>>, 10), Step(10) >>

\* loop { gate: generate { if then { skip } }, evaluate { step } }, one iteration per driver
GateInLoop ==
    << NodeList(<<2>>, 11),
         N("loop", <<3>>, 11, 1), NodeList(<<4>>, 11),
           N("gate", <<5, 10>>, 11, 2),
             NodeList(<<6>>, 9), N("if", <<7, 9>>, 9, 0), NodeList(<<8>>, 8), Skip(8), NodeList(<<>>, 9),
             NodeList(<<11>>, 11), Step(11) >>

\* parallel: try { skip } catch { step } finally { step } || step; then a skip
SkipInBranches ==
    << NodeList(<<2, 11>>, 11),
         N("parallel", <<3, 10>>, 10, 0),
           N("try", <<4, 6, 8>>, 9, 0), NodeList(<<5>>, 5), Skip(5), NodeList(<<7>>, 7), Step(7),
                                        NodeList(<<9>>, 9), Step(9),
           Step(10),
         Skip(11) >>

AllWorkflows == {GateBesideStep, TryInBranch, LoopWithSkip, TryParallel, GateInLoop, SkipInBranches}
=============================================================================
