----------------------------- MODULE References -----------------------------
(***************************************************************************)
(* What a reference to an earlier step means.  A workflow is validated     *)
(* once, on STATIC paths (the address of a node in the definition), and    *)
(* its references are resolved while it runs, on RUNTIME paths (the same   *)
(* address with the iteration, attempt or item of every enclosing loop,    *)
(* gate and map).  The two passes are separate code: ir/validate_refs.go,  *)
(* ir/validate_continues.go and ir/validate_input_files.go accept or       *)
(* refuse a reference, engine/scope.go, engine/artifact_scope.go,          *)
(* engine/map_product_scope.go and engine/reduce_scope.go resolve it.      *)
(*                                                                         *)
(* The specification walks one program, a producer step P and a consumer Q *)
(* each under a nest of scopes, through every order of iterations,         *)
(* attempts, items, branches and failures, and asks at every moment Q runs *)
(* what its references resolve to.  The committed result of a step is      *)
(* represented by its own runtime path, so that "the right value" is "the  *)
(* right instance of the producer".                                        *)
(***************************************************************************)
EXTENDS Naturals, Sequences, SequencesExt, FiniteSets

CONSTANTS Programs,     \* the programs walked
          MaxIters,     \* bound: iterations of a loop
          MaxAttempts,  \* bound: attempts of a gate (max_attempts)
          Items         \* bound: the items of every map

ASSUME RefBounds ==
  MaxIters \in Nat \ {0} /\ MaxAttempts \in Nat \ {0} /\ Items \subseteq Nat

VARIABLES prog,       \* the program
          at,         \* the runtime path of the block being run
          finished,   \* the nodes that returned, by runtime path
          completed,  \* RunState.Completed: the committed steps
          iters,      \* RunState.LoopIters
          attempts,   \* RunState.GateAttempts: gate -> its outcomes
          items,      \* RunState.MapItems: map -> item -> status
          branches    \* RunState.Branches: if -> the branch taken

vars == <<prog, at, finished, completed, iters, attempts, items, branches>>

(***************************************************************************)
(* Paths.  A segment is <<kind, n>>: a node and its position in its list,  *)
(* a branch label, or an instance segment.                                 *)
(***************************************************************************)
Kind(seg) == seg[1]
Below(p, kind, n) == Append(p, <<kind, n>>)
IterPath(bodyPath, n) == Below(bodyPath, "iter", n)
AttemptPath(gatePath, n) == Below(gatePath, "attempt", n)
ItemPath(mapPath, n) == Below(mapPath, "item", n)
Within(path, scope) == IsPrefix(scope, path)
Positions(p, kind) == {i \in DOMAIN p : Kind(p[i]) = kind}
Greatest(S) == CHOOSE i \in S : \A j \in S : j <= i
Least(S) == CHOOSE i \in S : \A j \in S : i <= j

\* The static path of a runtime path: an item is a body, attempts and iterations vanish.
runtimeMapPathToStatic(p) ==
  LET inBody == [i \in DOMAIN p |-> IF Kind(p[i]) = "item" THEN <<"body", 0>> ELSE p[i]]
  IN  SelectSeq(inBody, LAMBDA seg : Kind(seg) \notin {"attempt", "iter"})

\* The call frame of a path: what follows the last child-workflow segment.
FrameAt(p) == IF Positions(p, "workflow") = {} THEN 0 ELSE Greatest(Positions(p, "workflow"))
stripRuntimeParent(p) == SubSeq(p, FrameAt(p) + 1, Len(p))
RuntimeParent(p) == SubSeq(p, 1, FrameAt(p))

\* Document order: a container before its content, then by position or branch.
BranchRank(seg) == CASE Kind(seg) \in {"generate", "then", "do"} -> 0
                     [] Kind(seg) \in {"evaluate", "else", "catch"} -> 1
                     [] OTHER -> seg[2]
Diverge(p, q) == LET D == {i \in DOMAIN p \cap DOMAIN q : p[i] # q[i]}
                 IN  IF D = {} THEN 0 ELSE Least(D)
nodeOrderBefore(p, q) ==
  IF Diverge(p, q) = 0 THEN Len(p) < Len(q)
  ELSE BranchRank(p[Diverge(p, q)]) < BranchRank(q[Diverge(p, q)])

(***************************************************************************)
(* A program: the static paths of producer and consumer, what the producer *)
(* is, what its map declares, and what kind of field the consumer reads    *)
(* from ("run": a template of a step, "over": a map's over).               *)
(***************************************************************************)
P == stripRuntimeParent(prog.p)
Q == stripRuntimeParent(prog.q)
OneFrame == RuntimeParent(prog.p) = RuntimeParent(prog.q)
Fields == {"whole", "exit_code", "stdout", "typed", "unknown", "votes"}
Product == SubSeq(P, 1, Least(Positions(P, "map")))   \* the map of a named map product

(***************************************************************************)
(* The walk: the run the references are resolved in.                       *)
(***************************************************************************)
Static(p) == runtimeMapPathToStatic(p)
Children(block) ==
  {Append(block, X[Len(Static(block)) + 1]) :
     X \in {Y \in {prog.p, prog.q} : Within(Y, Static(block)) /\ Len(Y) > Len(Static(block))}}
Left == Children(at) \ finished
InParallel == at # <<>> /\ Kind(Last(at)) = "par"
NextNode(n) == n \in Left /\ (InParallel \/ \A m \in Left : nodeOrderBefore(n, m) \/ n = m)
IsStep(n) == Static(n) \in {prog.p, prog.q}

Init ==
  /\ prog \in Programs
  /\ at = <<>> /\ finished = {} /\ completed = {}
  /\ iters = <<>> /\ attempts = <<>> /\ items = <<>> /\ branches = <<>>

Put(f, x, v) == [y \in DOMAIN f \cup {x} |-> IF y = x THEN v ELSE f[y]]
Get(f, x, d) == IF x \in DOMAIN f THEN f[x] ELSE d
RunState == <<prog, completed, iters, attempts, items, branches>>

\* A step commits.
Commit(n) ==
  /\ NextNode(n) /\ IsStep(n)
  /\ completed' = IF Kind(Last(n)) = "step" THEN completed \cup {n} ELSE completed
  /\ finished' = finished \cup {n}
  /\ UNCHANGED <<prog, at, iters, attempts, items, branches>>

\* A failure unwinds to the innermost try or map item, or ends the run.
Catchers(p) == {i \in DOMAIN p : Kind(p[i]) \in {"do", "item"}}
Unwind(done) ==
  IF Catchers(at) = {} THEN /\ at' = <<<<"halted", 0>>>> /\ finished' = done
                            /\ items' = items
  ELSE LET c == Greatest(Catchers(at))
           node == SubSeq(at, 1, c - 1)
       IN  /\ finished' = done
           /\ IF Kind(at[c]) = "do" THEN at' = Below(node, "catch", 0) /\ items' = items
              ELSE /\ at' = node
                   /\ items' = [items EXCEPT ![node] = Put(@, at[c][2], "item_failed")]

StepFails(n) ==
  /\ NextNode(n) /\ IsStep(n) /\ Unwind(finished)
  /\ UNCHANGED <<prog, completed, iters, attempts, branches>>

EnterLoop(n) ==
  /\ NextNode(n) /\ ~IsStep(n) /\ Kind(Last(n)) = "loop"
  /\ at' = IterPath(Below(n, "body", 0), 1)
  /\ UNCHANGED <<finished, RunState>>

\* The body's last node returned: the iteration is recorded, then the loop goes on or ends.
LeaveIter ==
  /\ at # <<>> /\ Left = {} /\ Kind(Last(at)) = "iter"
  /\ LET body == Front(at) IN
     LET k == Last(at)[2] IN
     /\ iters' = Put(iters, Front(body), k)
     /\ \/ k < MaxIters /\ at' = IterPath(body, k + 1) /\ finished' = finished
        \/ at' = Front(Front(body)) /\ finished' = finished \cup {Front(body)}
  /\ UNCHANGED <<prog, completed, attempts, items, branches>>

EnterGate(n) ==
  /\ NextNode(n) /\ ~IsStep(n) /\ Kind(Last(n)) = "gate"
  /\ at' = Below(AttemptPath(n, 1), "generate", 0)
  /\ UNCHANGED <<finished, RunState>>

LeaveGenerate ==
  /\ at # <<>> /\ Left = {} /\ Kind(Last(at)) = "generate"
  /\ at' = Below(Front(at), "evaluate", 0)
  /\ UNCHANGED <<finished, RunState>>

\* The verdict: the attempt is recorded, then the gate passes, retries or is rejected.
LeaveEvaluate ==
  /\ at # <<>> /\ Left = {} /\ Kind(Last(at)) = "evaluate"
  /\ LET gate == Front(Front(at)) IN
     LET k == at[Len(at) - 1][2] IN
     \/ /\ attempts' = Put(attempts, gate, Append(Get(attempts, gate, <<>>), "passed"))
        /\ at' = Front(gate) /\ finished' = finished \cup {gate} /\ items' = items
     \/ /\ attempts' = Put(attempts, gate, Append(Get(attempts, gate, <<>>), "rejected"))
        /\ IF k < MaxAttempts
           THEN /\ at' = Below(AttemptPath(gate, k + 1), "generate", 0)
                /\ finished' = finished /\ items' = items
           ELSE Unwind(finished)
  /\ UNCHANGED <<prog, completed, iters, branches>>

\* An item starts, in any order: items run concurrently.
EnterItem(m, k) ==
  /\ \/ NextNode(m) /\ ~IsStep(m) /\ Kind(Last(m)) = "map"
     \/ m = at /\ at # <<>> /\ Kind(Last(at)) = "map"
  /\ k \notin DOMAIN Get(items, m, <<>>)
  /\ at' = ItemPath(m, k)
  /\ items' = Put(items, m, Put(Get(items, m, <<>>), k, "running"))
  /\ UNCHANGED <<prog, finished, completed, iters, attempts, branches>>

LeaveItem(status) ==
  /\ at # <<>> /\ Left = {} /\ Kind(Last(at)) = "item"
  /\ at' = Front(at)
  /\ items' = [items EXCEPT ![Front(at)] = Put(@, Last(at)[2], status)]
  /\ UNCHANGED <<prog, finished, completed, iters, attempts, branches>>

\* Every item is settled; a reduce commits its product at the map's own path.
LeaveMap ==
  /\ at # <<>> /\ Kind(Last(at)) = "map" /\ DOMAIN Get(items, at, <<>>) = Items
  /\ at' = Front(at) /\ finished' = finished \cup {at}
  /\ completed' = IF prog.reduce # "none" /\ Within(prog.p, Static(at))
                  THEN completed \cup {at} ELSE completed
  /\ UNCHANGED <<prog, iters, attempts, items, branches>>

TakeBranch(n, b) ==
  /\ NextNode(n) /\ ~IsStep(n) /\ Kind(Last(n)) = "if"
  /\ branches' = Put(branches, n, b) /\ at' = Below(n, b, 0)
  /\ UNCHANGED <<prog, finished, completed, iters, attempts, items>>

EnterPlain(n) ==
  /\ NextNode(n) /\ ~IsStep(n)
  /\ at' = CASE Kind(Last(n)) = "try" -> Below(n, "do", 0)
             [] Kind(Last(n)) = "step" -> Below(n, "workflow", 0)
             [] OTHER -> n
  /\ Kind(Last(n)) \in {"try", "step", "par"}
  /\ UNCHANGED <<finished, RunState>>

\* A branch, a parallel, a try or a child workflow returns; a call commits its product.
LeaveBlock ==
  /\ at # <<>> /\ Left = {}
  /\ Kind(Last(at)) \in {"then", "else", "do", "catch", "par", "workflow"}
  /\ LET node == IF Kind(Last(at)) = "par" THEN at ELSE Front(at) IN
     /\ at' = Front(node) /\ finished' = finished \cup {node}
     /\ completed' = IF Kind(Last(at)) = "workflow" THEN completed \cup {node} ELSE completed
  /\ UNCHANGED <<prog, iters, attempts, items, branches>>

Next ==
  \/ \E n \in Left : Commit(n) \/ StepFails(n) \/ EnterLoop(n) \/ EnterGate(n) \/ EnterPlain(n)
                     \/ \E b \in {"then", "else"} : TakeBranch(n, b)
  \/ \E m \in Left \cup {at}, k \in Items : EnterItem(m, k)
  \/ LeaveIter \/ LeaveGenerate \/ LeaveEvaluate \/ LeaveMap \/ LeaveBlock
  \/ \E s \in {"item_passed", "item_pruned"} : LeaveItem(s)

Spec == Init /\ [][Next]_vars

(***************************************************************************)
(* Validation, on static paths.                                            *)
(***************************************************************************)
\* The one map a producer sits in, when no other map, gate or loop encloses it.
SingleMapBodyShape(p) ==
  /\ Cardinality(Positions(p, "map")) = 1
  /\ Positions(p, "gate") \cup Positions(p, "loop") = {}
  /\ Least(Positions(p, "map")) < Len(p) /\ Kind(p[Least(Positions(p, "map")) + 1]) = "body"
MapOf(p) == SubSeq(p, 1, Least(Positions(p, "map")))
MapProductShape(mapPath) == SingleMapBodyShape(Below(Below(mapPath, "body", 0), "step", 0))

\* A map may have an id when it is a single map and it reduces or ends in a typed step.
validateMapProduct ==
  /\ Positions(P, "map") # {} /\ MapProductShape(Product)
  /\ prog.reduce # "none" \/ Len(P) = Len(Product) + 2

\* The gates and map bodies around a path, as lengths of their prefixes.
opaqueScopes(p) ==
  Positions(p, "gate") \cup {i \in Positions(p, "body") : i > 1 /\ Kind(p[i - 1]) = "map"}

\* A gate blocks only a producer outside its generate; a map body always blocks.
Blocks(p, i) == Kind(p[i]) = "body" \/ Kind(p[i + 1]) # "generate"

\* The innermost scope that keeps a producer from a site: 0 when none does.
blockingScope(p, site) ==
  LET apart == {i \in opaqueScopes(p) : ~Within(site, SubSeq(p, 1, i))}
      blocked == {i \in apart : Blocks(p, i)}
  IN  IF blocked = {} THEN 0 ELSE Greatest(blocked)
PeeledGate(p, i) == \E j \in Positions(p, "gate") : j > i

\* What a field of a reduced map may be: the reducer's schema, or the quorum verdict.
checkReducedMapRef(field) ==
  \/ field = "whole"
  \/ prog.reduce = "quorum" /\ field = "votes"
  \/ prog.reduce = "run" /\ field = "typed"
checkAggregateField(field) ==
  CASE field = "whole" -> "ok"
    [] field \in {"exit_code", "stdout"} -> "AWF5005"
    [] field = "typed" -> "ok"
    [] OTHER -> "AWF3001"

\* What a map is outside of itself: its reduced product, or the list of its items.
checkMapOutput(field, overSink) ==
  IF prog.reduce # "none" THEN IF checkReducedMapRef(field) THEN "ok" ELSE "AWF3001"
  ELSE IF overSink THEN checkAggregateField(field) ELSE "AWF5004"

\* A reference by the id of a map with a product.
checkProductRef(field, site, overSink) ==
  IF Within(site, Product) THEN "AWF5010" ELSE checkMapOutput(field, overSink)

checkStepRef(field, site, overSink) ==
  IF SingleMapBodyShape(P) /\ ~Within(site, MapOf(P)) THEN checkMapOutput(field, overSink)
  ELSE IF SingleMapBodyShape(P) /\ ~Within(site, Below(MapOf(P), "body", 0)) THEN "AWF5002"
  ELSE IF field = "whole" THEN "AWF3001"
  ELSE IF blockingScope(P, site) # 0
       THEN IF Kind(P[blockingScope(P, site)]) = "gate" \/ PeeledGate(P, blockingScope(P, site))
            THEN "AWF5003" ELSE "AWF5002"
  ELSE IF field = "typed" \/ (field \in {"exit_code", "stdout"} /\ prog.kind = "code") THEN "ok"
  ELSE "AWF3001"

Site == Below(Q, prog.site, 0)
checkRef(ref, field) ==
  IF ref = "product" THEN checkProductRef(field, Site, prog.site = "over")
  ELSE checkStepRef(field, Site, prog.site = "over")

\* A reducer's own template reads the items of its map.
checkReduceRef(field) ==
  IF SingleMapBodyShape(P) THEN checkAggregateField(field)
  ELSE checkStepRef(field, Below(SubSeq(P, 1, Greatest(Positions(P, "map"))), "reduce", 0), FALSE)

\* evaluate.* belongs to the innermost gate, and only to its generate block.
evaluateAllowed(q) ==
  Positions(q, "gate") # {} /\ Kind(q[Greatest(Positions(q, "gate")) + 1]) = "generate"

\* step.<id>.files.<name>, read after the producer.
validateNamedArtifactRef ==
  /\ nodeOrderBefore(P, Q)
  /\ \/ SingleMapBodyShape(P) /\ ~Within(Q, MapOf(P)) /\ prog.reduce = "run"
     \/ /\ ~(SingleMapBodyShape(P) /\ ~Within(Q, MapOf(P)) /\ prog.reduce # "none")
        /\ blockingScope(P, Q) = 0

\* continues: the target must have committed whenever the source runs.
scopePrefixOf(p) == Front(p)
dominates(tgt, src) == nodeOrderBefore(tgt, src) /\ Within(src, scopePrefixOf(tgt))
parallelSiblings(tgt, src) ==
  Diverge(tgt, src) > 1 /\ Kind(tgt[Diverge(tgt, src) - 1]) = "par"
inEvaluateBlock(p) ==
  \E i \in Positions(p, "evaluate") : i > 1 /\ Kind(p[i - 1]) = "gate"
validateContinues(tgt, src) ==
  /\ ~(inEvaluateBlock(src) /\ inEvaluateBlock(tgt))
  /\ ~parallelSiblings(tgt, src)
  /\ dominates(tgt, src)
  /\ Cardinality(Positions(tgt, "loop")) <= 1

(***************************************************************************)
(* Resolution, on runtime paths.  A scope is a call frame (the prefix      *)
(* every recorded path is read under) and the context path inside it.      *)
(***************************************************************************)
ScopeAt(path) == [parent |-> RuntimeParent(path), ctx |-> stripRuntimeParent(path)]
LookupCompleted(s, p) == s.parent \o p \in completed
Ok(from) == [st |-> "ok", from |-> from]
Unresolved == [st |-> "AWF4002", from |-> <<>>]
Absent == [st |-> "AWF4006", from |-> <<>>]
NoPath == <<<<"none", 0>>>>

\* The instance of scopePrefix that the context sits in: {} when it is outside.
instanceFromCtx(s, scopePrefix, sep) ==
  IF Within(s.ctx, scopePrefix) /\ Len(s.ctx) > Len(scopePrefix)
     /\ Kind(s.ctx[Len(scopePrefix) + 1]) = sep
  THEN {s.ctx[Len(scopePrefix) + 1][2]} ELSE {}

\* The context's own iteration, otherwise the latest one recorded.
iterForLoop(s, bodyPath) ==
  LET inside == instanceFromCtx(s, bodyPath, "iter") IN
  IF inside # {} THEN inside
  ELSE {k \in {Get(iters, s.parent \o Front(bodyPath), 0)} : k > 0}

\* The accepted attempt: the last that passed.
attemptPath(s, gatePath, rest) ==
  LET outcomes == Get(attempts, s.parent \o gatePath, <<>>)
      passed == {n \in DOMAIN outcomes : outcomes[n] = "passed"}
  IN  IF passed = {} THEN NoPath ELSE AttemptPath(gatePath, Greatest(passed)) \o rest

GateInstance(s, cur, next) ==
  LET inside == instanceFromCtx(s, cur, "attempt") IN
  IF inside # {} THEN AttemptPath(cur, CHOOSE n \in inside : TRUE)
  ELSE IF next # "generate" THEN NoPath ELSE attemptPath(s, cur, <<>>)

\* From the static path of a producer to the runtime path its result is keyed by.
stepRuntimePath(s, static) ==
  LET Extend(cur, i) ==
        LET kind == Kind(static[i])
            prior == IF i = 1 THEN "top" ELSE Kind(static[i - 1])
            next == IF i = Len(static) THEN "end" ELSE Kind(static[i + 1])
            here == Append(cur, static[i])
        IN IF cur = NoPath THEN NoPath ELSE
           CASE kind = "body" /\ prior = "loop" ->
                  LET k == iterForLoop(s, here)
                  IN  IF k = {} THEN NoPath ELSE IterPath(here, CHOOSE n \in k : TRUE)
             [] kind = "body" /\ prior = "map" ->
                  LET k == instanceFromCtx(s, cur, "item")
                  IN  IF k = {} THEN NoPath ELSE ItemPath(cur, CHOOSE n \in k : TRUE)
             [] kind = "gate" -> GateInstance(s, here, next)
             [] OTHER -> here
      runtime[i \in 0..Len(static)] == IF i = 0 THEN <<>> ELSE Extend(runtime[i - 1], i)
  IN  IF Cardinality(Positions(static, "loop")) > 1 THEN NoPath ELSE runtime[Len(static)]

\* Under an if whose other branch was taken, outermost first.
absentDueToUntakenIf(s, p) ==
  LET sides == {i \in DOMAIN p : Kind(p[i]) \in {"then", "else"}}
      Recorded(i) == s.parent \o SubSeq(p, 1, i - 1) \in DOMAIN branches
      Taken(i) == branches[s.parent \o SubSeq(p, 1, i - 1)]
  IN  \E i \in sides : /\ Recorded(i) /\ Taken(i) # Kind(p[i])
                       /\ \A j \in sides : j < i => Recorded(j) /\ Taken(j) = Kind(p[j])

\* What a committed result holds: a code step has an exit code and stdout,
\* a reduced map only its typed product.
HasField(path, field) ==
  \/ field = "whole"
  \/ /\ Kind(Last(path)) = "map"
     /\ \/ prog.reduce = "run" /\ field = "typed"
        \/ prog.reduce = "quorum" /\ field = "votes"
  \/ /\ Kind(Last(path)) # "map"
     /\ field = "typed" \/ (field \in {"exit_code", "stdout"} /\ prog.kind = "code")
Read(s, p, field) == IF HasField(p, field) THEN Ok(<<s.parent \o p>>) ELSE Unresolved

\* Every unpruned item whose producer committed, in item order; the reduced
\* product replaces them.
ItemsInOrder(s, mapPath, keep) ==
  LET recorded == Get(items, s.parent \o mapPath, <<>>)
  IN  SetToSortSeq({n \in DOMAIN recorded : recorded[n] \in keep}, LAMBDA a, b : a < b)
Compact(s, static, keep) ==
  LET rest == SubSeq(static, Len(MapOf(static)) + 2, Len(static))
      path(n) == ItemPath(MapOf(static), n) \o rest
  IN  [i \in DOMAIN SelectSeq(ItemsInOrder(s, MapOf(static), keep),
                              LAMBDA n : LookupCompleted(s, path(n))) |->
         s.parent \o path(SelectSeq(ItemsInOrder(s, MapOf(static), keep),
                                    LAMBDA n : LookupCompleted(s, path(n)))[i])]
aggregateMapOutputs(s, static, field) ==
  LET unpruned == Compact(s, static, {"running", "item_passed", "item_failed"})
  IN  IF LookupCompleted(s, MapOf(static)) THEN Read(s, MapOf(static), field)
      ELSE IF field \in {"whole", "typed"} \/ unpruned = <<>> THEN Ok(unpruned) ELSE Unresolved

resolveStep(s, static, field) ==
  LET rp == stepRuntimePath(s, static) IN
  IF SingleMapBodyShape(static) /\ instanceFromCtx(s, MapOf(static), "item") = {}
  THEN aggregateMapOutputs(s, static, field)
  ELSE IF field = "whole" \/ rp = NoPath THEN Unresolved
  ELSE IF LookupCompleted(s, rp) THEN Read(s, rp, field)
  ELSE IF absentDueToUntakenIf(s, rp) THEN Absent ELSE Unresolved

\* A named map product: the reduced output, or the compact array of the map's last step.
resolveMapProduct(s, static, field) ==
  IF ~MapProductShape(MapOf(static)) THEN Unresolved
  ELSE IF prog.reduce # "none"
       THEN IF LookupCompleted(s, MapOf(static)) THEN Read(s, MapOf(static), field) ELSE Unresolved
  ELSE IF instanceFromCtx(s, MapOf(static), "item") # {} THEN Unresolved
  ELSE aggregateMapOutputs(s, static, field)

\* A reducer's template over the items of its own map.
resolveBodyStepAggregate(s, static, field) ==
  IF field \in {"whole", "typed"} THEN Ok(Compact(s, static, {"item_passed"})) ELSE Unresolved

\* evaluate.*: the latest verdict of the innermost gate whose generate holds the context.
enclosingGateForEvaluate(ctx) ==
  LET G == {i \in DOMAIN ctx : i > 2 /\ Kind(ctx[i]) = "generate"
                              /\ Kind(ctx[i - 1]) = "attempt" /\ Kind(ctx[i - 2]) = "gate"}
  IN  IF G = {} THEN NoPath ELSE SubSeq(ctx, 1, Greatest(G) - 2)
resolveEvaluate(s) ==
  LET gate == enclosingGateForEvaluate(s.ctx) IN
  IF gate = NoPath THEN Unresolved
  ELSE IF Get(attempts, s.parent \o gate, <<>>) = <<>> THEN Ok(<<>>)
  ELSE Ok(<<AttemptPath(s.parent \o gate, Len(attempts[s.parent \o gate]))>>)

\* <as>: the item of the innermost enclosing map that binds the name.
\* Mutant of resolveAsBinding: the outermost map wins.
OutermostBinding(s, as) ==
  LET M == {i \in DOMAIN s.ctx : /\ i > 1 /\ Kind(s.ctx[i]) = "item"
                                /\ prog.as[Cardinality(Positions(SubSeq(s.ctx, 1, i - 1), "map"))] = as}
  IN  IF M = {} THEN Unresolved ELSE Ok(<<s.parent \o SubSeq(s.ctx, 1, Least(M))>>)
resolveAsBinding(s, as) ==
  LET M == {i \in DOMAIN s.ctx : /\ i > 1 /\ Kind(s.ctx[i]) = "item" /\ Kind(s.ctx[i - 1]) = "map"
                                /\ prog.as[Cardinality(Positions(runtimeMapPathToStatic(
                                                         SubSeq(s.ctx, 1, i - 1)), "map"))] = as}
  IN  IF M = {} THEN Unresolved ELSE Ok(<<s.parent \o SubSeq(s.ctx, 1, Greatest(M))>>)

\* Artifacts: the reducer's file, the accepted attempt of a gate, or the step's own.
passedGateArtifactRuntimePath(s, static) ==
  LET g == Greatest(Positions(static, "gate")) IN
  IF Kind(static[g + 1]) # "generate" THEN NoPath
  ELSE attemptPath(s, SubSeq(static, 1, g), SubSeq(static, g + 1, Len(static)))
runtimePathWithinGate(s, static) ==
  instanceFromCtx(s, SubSeq(static, 1, Greatest(Positions(static, "gate"))), "attempt") # {}
ResolveArtifactPath(s, static) ==
  LET viaGate == Positions(static, "gate") # {} /\ ~runtimePathWithinGate(s, static)
      rp == IF viaGate THEN passedGateArtifactRuntimePath(s, static)
            ELSE stepRuntimePath(s, static)
  IN  IF /\ SingleMapBodyShape(static) /\ instanceFromCtx(s, MapOf(static), "item") = {}
         /\ LookupCompleted(s, MapOf(static))
      THEN IF prog.reduce = "run" THEN Ok(<<s.parent \o MapOf(static)>>) ELSE Unresolved
      ELSE IF rp = NoPath THEN Unresolved
      ELSE IF LookupCompleted(s, rp) THEN Ok(<<s.parent \o rp>>)
      ELSE IF ~viaGate /\ absentDueToUntakenIf(s, rp) THEN Absent ELSE Unresolved

\* The exports of a child workflow: its state is read under the call's prefix,
\* the context path is the call's own, in the parent's frame.
ExportScope(callPath) == [parent |-> Below(callPath, "workflow", 0),
                          ctx |-> Below(callPath, "workflow", 0)]
EvaluateExports(callPath, static) == resolveStep(ExportScope(callPath), static, "typed")

(***************************************************************************)
(* Properties                                                              *)
(***************************************************************************)
PathSet(S) == \A p \in S : \A i \in DOMAIN p : p[i] \in STRING \X Nat

\* Every recorded path is a runtime path of the program, and a commit is of a node that returned.
TypeOK ==
  /\ prog.site \in {"run", "over"} /\ prog.reduce \in {"none", "run", "quorum"}
  /\ PathSet(finished \cup completed \cup {at})
  /\ completed \subseteq finished
  /\ \A l \in DOMAIN iters : iters[l] \in 1..MaxIters
  /\ \A g \in DOMAIN attempts : Len(attempts[g]) \in 1..MaxAttempts
  /\ \A m \in DOMAIN items : DOMAIN items[m] \subseteq Items
  /\ \A n \in DOMAIN branches : branches[n] \in {"then", "else"}

\* The consumer about to run, by runtime path.
Consuming == {n \in Left : NextNode(n) /\ Static(n) = prog.q /\ OneFrame}

\* The longest runtime prefix that stands for at most n static segments.
Upto(w, n) == SubSeq(w, 1, Greatest({i \in 0..Len(w) : Len(Static(SubSeq(w, 1, i))) <= n}))
SharedWith(w, c) == Upto(w, Diverge(prog.p, prog.q) - 1) = Upto(c, Diverge(prog.p, prog.q) - 1)

\* Past the scopes it shares with the reader, a result counts only if it is of
\* an accepted attempt and of the last iteration.
Settled(w, from) ==
  \A i \in from..Len(w) :
    /\ Kind(w[i]) = "attempt" => Get(attempts, SubSeq(w, 1, i - 1), <<>>) # <<>>
                                /\ w[i][2] \in DOMAIN attempts[SubSeq(w, 1, i - 1)]
                                /\ attempts[SubSeq(w, 1, i - 1)][w[i][2]] = "passed"
    /\ Kind(w[i]) = "iter" => w[i][2] = Get(iters, SubSeq(w, 1, i - 2), 0)
Instances == {w \in completed : Static(w) = prog.p}
RightInstances(c) ==
  {w \in Instances : SharedWith(w, c)
                     /\ Settled(w, Len(Upto(w, Diverge(prog.p, prog.q) - 1)) + 1)}
Unpruned(w) == LET m == Least(Positions(w, "item")) IN
               items[SubSeq(w, 1, m - 1)][w[m][2]] # "item_pruned"
Aggregated(c) == SingleMapBodyShape(P) /\ ~Within(Q, MapOf(P))

\* A reference that validation accepts never resolves to another instance of its
\* producer than the reader's own: the same item and iteration where both share
\* the scope, the accepted attempt of a gate, the last iteration of a loop, the
\* unpruned items of a map, the product of a reduce; and it is reported absent
\* only when no such instance exists.
RightInstance ==
  \A c \in Consuming, f \in Fields :
    LET r == resolveStep(ScopeAt(c), P, f)
        reduced == RuntimeParent(c) \o MapOf(P)
    IN  checkRef("step", f) = "ok" =>
          /\ r.st = "AWF4006" => RightInstances(c) = {}
          /\ r.st = "ok" =>
               IF Aggregated(c) /\ prog.reduce # "none" /\ reduced \in completed
               THEN r.from = <<reduced>>
               ELSE IF Aggregated(c)
               THEN /\ ToSet(r.from) = {w \in Instances : Within(w, RuntimeParent(c)) /\ Unpruned(w)}
                    /\ \A i, j \in DOMAIN r.from : i < j => r.from[i] # r.from[j]
               ELSE Len(r.from) = 1 /\ r.from[1] \in RightInstances(c)

\* The other direction: an accepted reference resolves as soon as the instance
\* it means has committed.  Two nested loops are the exception scope.go states.
AcceptedResolves ==
  \A c \in Consuming, f \in Fields :
    (/\ checkRef("step", f) = "ok" /\ ~Aggregated(c)
     /\ Cardinality(Positions(P, "loop")) <= 1 /\ RightInstances(c) # {})
      => resolveStep(ScopeAt(c), P, f).st = "ok"

\* A named map product read after its map: the reduced output, or every unpruned
\* item in order.
ProductResolves ==
  \A c \in Consuming, f \in Fields :
    (/\ validateMapProduct
     /\ checkRef("product", f) = "ok" /\ RuntimeParent(c) \o Product \in finished) =>
      LET r == resolveMapProduct(ScopeAt(c), P, f) IN
      /\ r.st = "ok"
      /\ IF prog.reduce # "none" THEN r.from = <<RuntimeParent(c) \o Product>>
         ELSE ToSet(r.from) = {w \in Instances : Within(w, RuntimeParent(c)) /\ Unpruned(w)}

\* A reducer reads the items that passed, each from its own item.
ReducerReadsPassed ==
  \A f \in Fields :
    (/\ SingleMapBodyShape(P) /\ checkReduceRef(f) = "ok"
     /\ Static(at) = RuntimeParent(prog.p) \o MapOf(P) /\ DOMAIN Get(items, at, <<>>) = Items) =>
      LET r == resolveBodyStepAggregate(ScopeAt(at), P, f) IN
      /\ r.st = "ok"
      /\ ToSet(r.from) = {w \in Instances : Within(w, at)
                           /\ items[at][w[Len(at) + 1][2]] = "item_passed"}

\* In a gate's generate block, evaluate.* is the verdict of the attempt before
\* this one, of the same gate instance, and empty in the first.
FeedbackIsPrevious ==
  \A c \in Consuming : evaluateAllowed(Q) =>
    LET i == Greatest(Positions(c, "attempt")) IN
    resolveEvaluate(ScopeAt(c)) =
      IF c[i][2] = 1 THEN Ok(<<>>) ELSE Ok(<<AttemptPath(SubSeq(c, 1, i - 1), c[i][2] - 1)>>)

\* The item a step binds and the sibling output it reads are of the same item.
OneItem ==
  \A c \in Consuming :
    LET shared == Positions(SubSeq(P, 1, Diverge(P, Q) - 1), "map")
        depth == Cardinality(shared)
        r == resolveStep(ScopeAt(c), P, "typed")
        b == resolveAsBinding(ScopeAt(c), prog.as[depth])
    IN  (/\ shared # {} /\ checkRef("step", "typed") = "ok" /\ r.st = "ok" /\ ~Aggregated(c)
         /\ \A d \in (depth + 1)..Cardinality(Positions(Q, "map")) : prog.as[d] # prog.as[depth])
           => /\ b.st = "ok" /\ Within(r.from[1], b.from[1])
              /\ Cardinality(Positions(ScopeAt(b.from[1]).ctx, "item")) = depth

\* A continues: link that validation accepts finds its target committed, in the
\* reader's own instance, whenever the continuing step runs.
ContinuesResolves ==
  \A c \in Consuming : validateContinues(P, Q) =>
    LET rp == RuntimeParent(c) \o stepRuntimePath(ScopeAt(c), P) IN
    rp \in completed /\ rp \in RightInstances(c)

\* An artifact reference means the instance a field reference means.  Producers
\* in a gate that is itself inside a loop, gate or map are left out: the code
\* looks that gate's attempts up under its static path and finds none.
GateAtTop == Positions(P, "gate") # {} =>
               \A i \in 1..(Greatest(Positions(P, "gate")) - 1) :
                 Kind(P[i]) \notin {"loop", "gate", "map"}
ArtifactAgrees ==
  \A c \in Consuming : validateNamedArtifactRef /\ GateAtTop =>
    LET r == ResolveArtifactPath(ScopeAt(c), P) IN
    IF Aggregated(c) THEN r.st = "ok" => r.from = <<RuntimeParent(c) \o MapOf(P)>>
    ELSE /\ r.st = "ok" => r.from[1] \in RightInstances(c)
         /\ RightInstances(c) # {} /\ Cardinality(Positions(P, "loop")) <= 1 => r.st = "ok"

\* A child that is called outside of any loop and gate exports the instance its
\* own references would mean after it ran: the last iteration, the accepted attempt.
ExportsSettled ==
  (/\ at # <<>> /\ Last(at) = <<"workflow", 0>> /\ Left = {} /\ Within(prog.p, Static(at))
   /\ \A i \in DOMAIN at : Kind(at[i]) \notin {"iter", "attempt"}
   /\ checkStepRef("typed", <<<<"outputs", 0>>>>, FALSE) = "ok") =>
    LET r == EvaluateExports(Front(at), P) IN
    r.st = "ok" => \A i \in DOMAIN r.from : Settled(r.from[i], Len(at) + 1)

\* Wherever a producer and a consumer are nested: a step, artifact, item, map or
\* feedback reference that resolves means the instance that lies in the same
\* iterations, attempts and items as its reader, and the survivors of a fan-out.
MeansItsInstance ==
    /\ TypeOK
    /\ RightInstance
    /\ ReducerReadsPassed
    /\ FeedbackIsPrevious
    /\ OneItem
    /\ ArtifactAgrees

\* And what validation accepts, the runtime resolves whenever the reader runs.
ReferencesSound ==
    /\ MeansItsInstance
    /\ AcceptedResolves
    /\ ProductResolves
    /\ ContinuesResolves
    /\ ExportsSettled
=============================================================================
