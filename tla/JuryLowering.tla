---------------------------- MODULE JuryLowering ----------------------------
(***************************************************************************)
(* What the loader does to a decoded workflow before anything else sees    *)
(* it: a jury: block is checked (ir/validate_jury.go) and lowered to a map *)
(* with a quorum (loader/jury.go), and a map without concurrency: gets 1.  *)
(* The body of an agent step is its with:, the boolean fields of its       *)
(* output_schema and its jury; with: and a juror's patch are sets of       *)
(* <<key, value>> pairs.                                                   *)
(***************************************************************************)
EXTENDS WorkflowGraph, FiniteSets

CONSTANT Decoded      \* the decoded workflows
VARIABLE loading      \* [graph, state, from]: from is the graph as decoded
juryVars == <<loading>>

juryBinding(k) == <<k, "{{ __juror }}">>
HasJury(n) == n.k = "agent" /\ n.v.jury.on
Keys(item) == {pair[1] : pair \in item}
uniformKeys(over) == \A i, j \in DOMAIN over : Keys(over[i]) = Keys(over[j])
\* The field the quorum counts: named, or the only boolean one; "" is neither.
JuryField(n) == IF n.v.jury.field # "" THEN n.v.jury.field
                ELSE IF Cardinality(n.v.bools) = 1 THEN CHOOSE f \in n.v.bools : TRUE ELSE ""
\* The findings about one list; exempt is the position a jury may stand at.
RECURSIVE checkJuryPlacement(_, _, _)
checkJuryPlacement(list, parent, exempt) ==
  UNION {(IF HasJury(list[i]) /\ i # exempt THEN {<<PathFor(parent, list[i], i), "AWF1072">>} ELSE {})
         \cup UNION {LET kids == list[i].kids[b][2]
                     IN  checkJuryPlacement(kids, ChildPath(parent, list[i], i, list[i].kids[b][1]),
                                            IF list[i].kids[b][1] = "evaluate" THEN Len(kids) ELSE 0) : b \in DOMAIN list[i].kids}
         : i \in DOMAIN list}
ValidateJury(g) ==
  UNION {LET n == e.node
         IN  IF ~HasJury(n) THEN {}
             ELSE IF ~n.v.schema THEN {<<e.path, "AWF1069">>}
             ELSE (IF uniformKeys(n.v.jury.over) THEN {} ELSE {<<e.path, "AWF1070">>})
                  \cup (IF JuryField(n) # "" THEN {} ELSE {<<e.path, "AWF1071">>})
         : e \in ToSet(WalkNodes(g, <<>>))}
  \cup checkJuryPlacement(g, <<>>, 0)

NoJury == [on |-> FALSE, over |-> <<>>, field |-> ""]
MapBody(over, field, concurrency) == [over |-> over, field |-> field, concurrency |-> concurrency]
WithKeepsAuthors(n, varied) == n.v.with \cup {juryBinding(k) : k \in varied \ Keys(n.v.with)}
newWith(n, varied) == {pair \in n.v.with : pair[1] \notin varied} \cup {juryBinding(k) : k \in varied}
juryToMap(n) ==
  LET varied == UNION {Keys(n.v.jury.over[i]) : i \in DOMAIN n.v.jury.over}
      body == [n EXCEPT !.v = [n.v EXCEPT !.jury = NoJury, !.with = newWith(n, varied)]]
  IN  Node("map", "", MapBody(n.v.jury.over, JuryField(n), 0), <<<<"body", <<body>>>>>>)
RECURSIVE rewriteJuryList(_)
rewriteJuryList(list) ==
  [i \in DOMAIN list |-> IF HasJury(list[i]) THEN juryToMap(list[i])
                         ELSE [list[i] EXCEPT !.kids = [b \in DOMAIN list[i].kids |-> <<list[i].kids[b][1], rewriteJuryList(list[i].kids[b][2])>>]]]
RECURSIVE applyMapConcurrencyDefault(_)
applyMapConcurrencyDefault(list) ==
  [i \in DOMAIN list |->
     LET n == [list[i] EXCEPT !.kids = [b \in DOMAIN list[i].kids |-> <<list[i].kids[b][1], applyMapConcurrencyDefault(list[i].kids[b][2])>>]]
     IN  IF n.k = "map" /\ n.v.concurrency = 0 THEN [n EXCEPT !.v = [n.v EXCEPT !.concurrency = 1]] ELSE n]

JuryInit == \E g \in Decoded : loading = [graph |-> g, state |-> "decoded", from |-> g]
RejectJury == /\ loading.state = "decoded" /\ ValidateJury(loading.graph) # {}
              /\ loading' = [loading EXCEPT !.state = "rejected"]
LowerJury == /\ loading.state = "decoded" /\ ValidateJury(loading.graph) = {}
             /\ loading' = [loading EXCEPT !.state = "loaded", !.graph = applyMapConcurrencyDefault(rewriteJuryList(@))]
-----------------------------------------------------------------------------
Juries(g) == {e \in ToSet(WalkNodes(g, <<>>)) : HasJury(e.node)}
\* The last node of each gate's evaluate list.
RECURSIVE Verdicts(_, _)
Verdicts(list, parent) ==
  UNION {UNION {LET kids == list[i].kids[b][2]
                    under == ChildPath(parent, list[i], i, list[i].kids[b][1])
                IN  Verdicts(kids, under) \cup
                    IF list[i].kids[b][1] = "evaluate" /\ kids # <<>>
                    THEN {[path |-> PathFor(under, Last(kids), Len(kids)), node |-> Last(kids)]} ELSE {}
                : b \in DOMAIN list[i].kids} : i \in DOMAIN list}
\* What a juror runs: the body's with:, its item bound.
Bound1(with, item) == {IF pair[2] = "{{ __juror }}" THEN CHOOSE q \in item : q[1] = pair[1] ELSE pair : pair \in with}
\* A workflow is refused exactly if some jury does not decide a gate, varies
\* different keys from juror to juror, or leaves its field open; once loaded no
\* jury is left, and every juror runs the step its author wrote with its own
\* patch over it, counted by a boolean field; and no map is left unbounded.
JuryLowered ==
  LET old == Juries(loading.from)
      new == ToSet(WalkNodes(loading.graph, <<>>))
      sound(e) == /\ e \in Verdicts(loading.from, <<>>) /\ e.node.v.schema
                  /\ e.node.v.jury.field # "" \/ \E f \in e.node.v.bools : e.node.v.bools = {f}
                  /\ \A a, b \in ToSet(e.node.v.jury.over) : Keys(a) = Keys(b)
  IN  /\ loading.state = "loaded" =>
           /\ Juries(loading.graph) = {}
           /\ \A e \in new : e.node.k = "map" => e.node.v.concurrency > 0
           /\ \A e \in old : \E v \in Verdicts(loading.graph, <<>>) :
                LET n == e.node  mp == v.node  body == mp.kids[1][2][1]
                IN  /\ Front(v.path) = Front(e.path) /\ mp.k = "map" /\ body.id = n.id /\ mp.v.over = n.v.jury.over
                    /\ mp.v.field = n.v.jury.field \/ mp.v.field \in n.v.bools
                    /\ \A i \in DOMAIN mp.v.over :
                         Bound1(body.v.with, mp.v.over[i]) = mp.v.over[i] \cup {pair \in n.v.with : pair[1] \notin Keys(mp.v.over[i])}
      /\ loading.state = "rejected" <=> (loading.state # "decoded" /\ \E e \in old : ~sound(e))
=============================================================================
