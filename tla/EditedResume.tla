---------------------------- MODULE EditedResume ----------------------------
(***************************************************************************)
(* Resuming a run whose definition file was edited in the meantime         *)
(* (cli/resume.go, engine/verifytrace.go, engine/rerun.go, ir/digest.go):  *)
(* which committed results are kept, and which are run again.              *)
(*                                                                         *)
(* A node is a code or agent step, a skip, an if (its version "x" takes    *)
(* the branch) or a parallel of steps.  A commit is stamped with its path   *)
(* and epoch and remembers the stamps of the results it could read.        *)
(***************************************************************************)
EXTENDS WorkflowGraph, FiniteSets

CONSTANTS BaseDefs,    \* the definitions a run may start with
          MaxEdits,    \* bound: edits of the definition
          MaxStarts    \* bound: starts and resumes of the run

VARIABLES def,      \* the definition file: graph, assets and imported modules
          started,  \* the definition of run.started
          last,     \* history: the definition of the latest epoch
          done,     \* the committed results, by path
          failed,   \* the path of the trailing node.failed, or <<>>
          epoch,    \* the driver, how its epoch was admitted, and whether --from ever was
          loose,    \* history: --from was used across a structural edit
          edits, starts

resumeVars == <<def, started, last, done, failed, epoch, loose, edits, starts>>
Only == UNCHANGED <<def, started, last, loose, edits, starts>>

Walk(d) == WalkNodes(d.graph, <<>>)
NodeAt(d) == LET w == Walk(d) IN [p \in {w[i].path : i \in DOMAIN w} |-> w[CHOOSE i \in DOMAIN w : w[i].path = p].node]
(***************************************************************************)
(* Digests, as what they are a collision-free hash of.                     *)
(***************************************************************************)
NodeSubtreeDigest(n) == <<"node", n>>
NoDigest == <<"", Node("", "", "", <<>>)>>
ComputeDigest(d) == <<"definition", d.graph, d.assets, d.imports>>
\* The node bodies are left out, and so are the imported modules.
StructuralDigest(d) == LET w == Walk(d) IN <<"structure", d.assets, [i \in DOMAIN w |-> <<w[i].path, w[i].node.k>>]>>
\* Only a code step's record carries the digest of its node.
recordDigest(n) == IF n.k = "code" THEN NodeSubtreeDigest(n) ELSE NoDigest
(***************************************************************************)
(* What is run again.  Root segments are numbered in order, skips left out.*)
(***************************************************************************)
Refused == [ok |-> FALSE, target |-> <<>>]
Target(t) == [ok |-> TRUE, target |-> t]
rerunFirstSegment(p) == <<p[1]>>
rerunRootSlots(d) == LET roots == SelectSeq(Walk(d), LAMBDA e : Len(e.path) = 1)
                     IN  [s \in {roots[i].path : i \in DOMAIN roots} |-> CHOOSE i \in DOMAIN roots : roots[i].path = s]
rerunSupported(p) == \A i \in 1..(Len(p) - 1) : p[i][1] = "parallel"
allCommittedPaths == DOMAIN done
AllMapped(d) == \A p \in allCommittedPaths : rerunFirstSegment(p) \in DOMAIN rerunRootSlots(d)
ReusableByKind(d, p) == rerunSupported(p) /\ p \in DOMAIN NodeAt(d) /\ NodeAt(d)[p].k = "code" /\ done[p].digest # NoDigest
reusable(d, p) == /\ rerunSupported(p) /\ p \in DOMAIN NodeAt(d) /\ NodeAt(d)[p].k = "code"
                  /\ done[p].digest # NoDigest /\ done[p].digest = NodeSubtreeDigest(NodeAt(d)[p])
\* The first root node with a result that cannot be kept; <<>> if all can.
ComputeVerifyingTraceTarget(d) ==
  LET slots == rerunRootSlots(d)
      stale == {rerunFirstSegment(p) : p \in {q \in allCommittedPaths : ~reusable(d, q)}}
  IN  IF ~AllMapped(d) THEN Refused
      ELSE IF stale = {} THEN Target(<<>>)
      ELSE Target(CHOOSE s \in stale : \A t \in stale : slots[s] <= slots[t])
\* --from: a committed path, a root node, the failed node, or a step's id.
ResolveRerunTarget(d, arg) ==
  LET matches == {p \in allCommittedPaths : <<Last(p)>> = arg}
  IN  IF arg \in allCommittedPaths \cup DOMAIN rerunRootSlots(d) THEN Target(arg)
      ELSE IF failed # <<>> /\ (arg = failed \/ arg = <<Last(failed)>>) THEN Target(failed)
      ELSE IF Cardinality(matches) = 1 THEN Target(CHOOSE p \in matches : TRUE) ELSE Refused
Invalidates(d, target) == rerunSupported(target) /\ rerunFirstSegment(target) \in DOMAIN rerunRootSlots(d) /\ AllMapped(d)
ComputeRerunInvalidation(d, target) ==
  LET slots == rerunRootSlots(d)
  IN  {p \in allCommittedPaths : \/ IsPrefix(target, p)
                                 \/ slots[rerunFirstSegment(p)] > slots[rerunFirstSegment(target)]}
clearInvalidatedPaths(d, target) ==
  LET keep == allCommittedPaths \ (IF target = <<>> THEN {} ELSE ComputeRerunInvalidation(d, target))
  IN  [p \in keep |-> done[p]]
\* A resume without --from compares with the digests of run.started.
ResumeTarget(d) ==
  IF ComputeDigest(d) = ComputeDigest(started) THEN Target(<<>>)
  ELSE IF d.imports # "none" \/ StructuralDigest(d) # StructuralDigest(started) THEN Refused
  ELSE ComputeVerifyingTraceTarget(d)
(***************************************************************************)
(* The driver: the next nodes to commit in the definition it has loaded.   *)
(***************************************************************************)
Kids(n) == IF n.kids = <<>> THEN <<>> ELSE n.kids[1][2]
RECURSIVE NextNodes(_, _, _)
NextNodes(list, parent, i) ==
  IF i > Len(list) THEN [todo |-> {}, stop |-> FALSE]
  ELSE LET n == list[i]
           p == PathFor(parent, n, i)
           rest == NextNodes(list, parent, i + 1)
           in == NextNodes(Kids(n), ChildPath(parent, n, i, "then"), 1)
           branches == {PathFor(p, Kids(n)[j], j) : j \in DOMAIN Kids(n)} \ allCommittedPaths
       IN  CASE n.k = "skip" -> [todo |-> {}, stop |-> TRUE]
             [] n.k = "parallel" -> IF branches = {} THEN rest ELSE [todo |-> branches, stop |-> FALSE]
             [] n.k \in StepKinds \cup {"if"} /\ p \notin allCommittedPaths -> [todo |-> {p}, stop |-> FALSE]
             [] n.k = "if" /\ p \in allCommittedPaths ->
                  IF done[p].node.v = "x" /\ (in.todo # {} \/ in.stop) THEN in ELSE rest
             [] n.k \in StepKinds /\ p \in allCommittedPaths -> rest
Todo == NextNodes(last.graph, <<>>, 1).todo
\* The results a node may read: all before it, but for its parallel's others.
Preceding(d, p) ==
  LET w == Walk(d)
      at(q) == CHOOSE i \in DOMAIN w : w[i].path = q
  IN  {q \in allCommittedPaths \cap DOMAIN NodeAt(d) : at(q) < at(p) /\ ~(q[1][1] = "parallel" /\ q[1] = p[1])}
Reads(d, p) == {done[q].stamp : q \in Preceding(d, p)}
-----------------------------------------------------------------------------
EditedInit ==
  /\ def \in BaseDefs
  /\ started = def /\ last = def /\ done = <<>> /\ failed = <<>> /\ loose = FALSE
  /\ epoch = [state |-> "running", mode |-> "start", from |-> FALSE]
  /\ edits = 0 /\ starts = 1

CommitNode(p) ==
  /\ epoch.state = "running" /\ p \in Todo
  /\ LET n == NodeAt(last)[p]
         rec == [digest |-> recordDigest(n), node |-> n, stamp |-> <<p, starts>>, reads |-> Reads(last, p)]
     IN  done' = [q \in allCommittedPaths \cup {p} |-> IF q = p THEN rec ELSE done[q]]
  /\ UNCHANGED <<failed, epoch>> /\ Only
NodeFails(p) == /\ epoch.state = "running" /\ p \in Todo /\ p \notin {<<r>> : r \in {<<"if", i>> : i \in ToSet(Position)}}
                /\ failed' = p /\ epoch' = [epoch EXCEPT !.state = "idle"]
                /\ UNCHANGED done /\ Only
\* A pause, a cancel or a crash.
Interrupt == epoch.state = "running" /\ epoch' = [epoch EXCEPT !.state = "idle"] /\ UNCHANGED <<done, failed>> /\ Only
Finish == /\ epoch.state = "running" /\ Todo = {}
          /\ epoch' = [epoch EXCEPT !.state = "finished"] /\ UNCHANGED <<done, failed>> /\ Only

Flip(v) == IF v = "x" THEN "y" ELSE "x"
EditedGraphs(g) ==
  {[g EXCEPT ![i].v = Flip(@)] : i \in {i \in DOMAIN g : g[i].k \in StepKinds \cup {"if"}}}
  \cup UNION {{[g EXCEPT ![i].kids[1][2][j].v = Flip(@)] : j \in DOMAIN Kids(g[i])} : i \in DOMAIN g}
  \cup {[g EXCEPT ![i].k = IF @ = "code" THEN "agent" ELSE "code"] : i \in {i \in DOMAIN g : g[i].k \in StepKinds}}
  \cup {InsertAt(g, i, Node("skip", "", "", <<>>)) : i \in {j \in 1..(Len(g) + 1) : Len(g) < Len(Position)}}
  \cup {RemoveAt(g, i) : i \in DOMAIN g}
  \cup {[g EXCEPT ![i] = g[i + 1], ![i + 1] = g[i]] : i \in 1..(Len(g) - 1)}
\* The author edits the file between two epochs.
Edit == /\ epoch.state = "idle" /\ edits < MaxEdits /\ edits' = edits + 1
        /\ \/ \E g \in EditedGraphs(def.graph) : def' = [def EXCEPT !.graph = g]
           \/ def' = [def EXCEPT !.assets = Flip(@)]
           \/ def.imports # "none" /\ def' = [def EXCEPT !.imports = IF @ = "m" THEN "n" ELSE "m"]
        /\ UNCHANGED <<started, last, done, failed, epoch, loose, starts>>

Admit(r, mode) ==
  /\ r.ok /\ (r.target # <<>> => Invalidates(def, r.target))
  /\ done' = clearInvalidatedPaths(def, r.target)
  /\ epoch' = [state |-> "running", mode |-> mode, from |-> epoch.from \/ mode = "from"]
  /\ loose' = (loose \/ (mode = "from" /\ StructuralDigest(def) # StructuralDigest(last)))
  /\ last' = def /\ starts' = starts + 1
  /\ UNCHANGED <<def, started, failed, edits>>
CanResume == epoch.state = "idle" /\ starts < MaxStarts
Resume == CanResume /\ Admit(ResumeTarget(def), IF ComputeDigest(def) = ComputeDigest(started) THEN "same" ELSE "verified")
Arguments == {<<Last(p)>> : p \in allCommittedPaths} \cup allCommittedPaths \cup DOMAIN rerunRootSlots(def)
             \cup (IF failed = <<>> THEN {} ELSE {failed, <<Last(failed)>>})
ResumeFrom(arg) == CanResume /\ Admit(ResolveRerunTarget(def, arg), "from")

EditedNext == \/ Interrupt \/ Finish \/ Edit \/ Resume
              \/ \E p \in Todo : CommitNode(p) \/ NodeFails(p)
              \/ \E arg \in Arguments : ResumeFrom(arg)
-----------------------------------------------------------------------------
Driven == epoch.state \in {"running", "finished"}
\* The tree of a definition, bodies and skips left out.
RECURSIVE Skeleton(_)
Skeleton(list) == LET kept == SelectSeq(list, LAMBDA n : n.k # "skip")
                  IN  [i \in DOMAIN kept |-> <<kept[i].k, kept[i].id, Skeleton(Kids(kept[i]))>>]

\* After an edit that resume accepted on its own, every result still kept was
\* made by the node the edited definition has at that path.
VerifiedIsCurrent == Driven /\ epoch.mode = "verified" => \A p \in allCommittedPaths : p \in DOMAIN NodeAt(last) /\ done[p].node = NodeAt(last)[p]
\* What resume accepts has the tree, the assets and no imported module of
\* run.started: an edit that moves a result to another node is refused.
StructureKept == epoch.mode = "verified" => /\ Skeleton(last.graph) = Skeleton(started.graph)
                                            /\ last.assets = started.assets /\ last.imports = "none"
\* No result is kept that was computed from one that is run again: whatever a
\* kept result read is still there, and at the end each read all before it.
ReadsCurrent ==
  Driven /\ ~loose =>
    /\ \A p \in allCommittedPaths : done[p].reads \subseteq {done[q].stamp : q \in allCommittedPaths}
    /\ epoch.state = "finished" => \A p \in allCommittedPaths \cap DOMAIN NodeAt(last) : done[p].reads = Reads(last, p)
\* Resuming an edited run: what the verifying trace keeps is current, a change of
\* structure (but for skips) is refused without --from, and no kept result was computed from one
\* that is run again.
EditedResumeSound == VerifiedIsCurrent /\ StructureKept /\ ReadsCurrent
=============================================================================
