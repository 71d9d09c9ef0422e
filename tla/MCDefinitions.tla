--------------------------- MODULE MCDefinitions ---------------------------
(***************************************************************************)
(* The definition of a workflow, from its file to what a run makes of it:  *)
(* loading, lowering, templates, references, retry policies, one call of   *)
(* awf/llm, and resuming after an edit.  Each part runs by itself.         *)
(***************************************************************************)
EXTENDS References, LlmTransport, Templates, EditedResume, RetryPolicy, JuryLowering, Loader

(***************************************************************************)
(* References: producers and consumers under up to three nested scopes.    *)
(***************************************************************************)

Block(b, i) ==
  CASE b = "loop" -> <<<<"loop", i>>, <<"body", 0>>>>
    [] b = "map" -> <<<<"map", i>>, <<"body", 0>>>>
    [] b = "gen" -> <<<<"gate", i>>, <<"generate", 0>>>>
    [] b = "eval" -> <<<<"gate", i>>, <<"evaluate", 0>>>>
    [] b \in {"then", "else"} -> <<<<"if", i>>, <<b, 0>>>>
    [] b \in {"do", "catch"} -> <<<<"try", i>>, <<b, 0>>>>
    [] b = "par" -> <<<<"par", i>>>>
    [] b = "call" -> <<<<"step", i>>, <<"workflow", 0>>>>

\* A nest of blocks, the first at position i of its list.
Nest(bs, i) == FoldLeft(LAMBDA p, k : p \o Block(bs[k], IF k = 1 THEN i ELSE 0),
                        <<>>, [k \in DOMAIN bs |-> k])
PathAt(common, tail, i, leaf) ==
  LET c == Nest(common, 0)
  IN  IF tail = <<>> THEN c \o <<<<leaf, i>>>> ELSE c \o Nest(tail, i) \o <<<<leaf, 0>>>>
Program(common, ptail, qtail, qi, site, reduce) ==
  [p |-> PathAt(common, ptail, 0, "step"), q |-> PathAt(common, qtail, qi, IF site = "over" THEN "map" ELSE "step"),
   site |-> site, reduce |-> reduce, kind |-> IF reduce = "run" THEN "agent" ELSE "code",
   as |-> IF reduce = "none" THEN <<"x", "x">> ELSE <<"x", "y">>]

One == {<<"loop">>, <<"map">>, <<"gen">>, <<"then">>, <<"par">>, <<"do">>, <<"call">>}
Two == {<<"map", "gen">>, <<"gen", "map">>, <<"loop", "gen">>, <<"map", "loop">>, <<"map", "call">>, <<"map", "map">>}
PTails == {<<>>, <<"loop">>, <<"map">>, <<"gen">>, <<"eval">>, <<"then">>, <<"do">>}
QTails == {<<>>, <<"loop">>, <<"map">>, <<"gen">>, <<"else">>}
Deep == {<<"map", "gen">>, <<"gen", "map">>, <<"loop", "map">>, <<"loop", "loop">>, <<"gen", "gen">>,
         <<"then", "else">>, <<"loop", "gen">>, <<"map", "map">>}

\* Two branches of one node: generate and evaluate, do and catch, then and else.
Branches(common) ==
  {[Program(common, pq[1], pq[2], 0, "run", "none") EXCEPT !.q = @] :
     pq \in {<<<<"gen">>, <<"eval">>>>, <<<<"do">>, <<"catch">>>>, <<<<"then">>, <<"else">>>>}}

AllPrograms ==
  LET ones == {Program(<<>>, p, q, 1, "run", "none") : p \in PTails, q \in QTails}
              \cup {Program(c, p, <<>>, 1, "run", "none") : c \in One, p \in PTails}
              \cup {Program(c, <<>>, q, 1, "run", "none") : c \in One, q \in QTails}
              \cup {Program(c, <<>>, <<>>, 1, "run", "none") : c \in Two}
              \cup {Program(<<c>>, <<p>>, <<q>>, 1, "run", "none") :
                       c \in {"map", "loop", "call"}, p \in {"gen", "loop"}, q \in {"gen", "map"}}
      deep == {Program(<<>>, p, <<>>, 1, "run", "none") : p \in Deep}
              \cup {Program(<<>>, p, <<"map">>, 1, "run", "none") : p \in {<<"loop", "gen">>, <<"gen", "gen">>, <<"then", "else">>}}
      overs == {Program(c, p, <<>>, 1, "over", r) :
                  c \in {<<>>, <<"then">>, <<"par">>, <<"call">>}, p \in {<<"map">>, <<"gen">>, <<"map", "gen">>}, r \in {"none", "run"}}
      reduced == {Program(c, <<"map">>, q, 1, "run", r) : c \in {<<>>, <<"do">>}, q \in {<<>>, <<"loop">>}, r \in {"run", "quorum"}}
      siblings == UNION {Branches(c) : c \in {<<>>, <<"map">>, <<"loop">>}}
      backward == {[pr EXCEPT !.p = pr.q, !.q = pr.p] : pr \in {Program(c, <<>>, <<>>, 1, "run", "none") : c \in {<<>>, <<"loop">>}}}
  IN  ones \cup deep \cup overs \cup reduced \cup siblings \cup backward

(***************************************************************************)
(* Edited definitions: a sequence, a branch and a parallel.                *)
(***************************************************************************)
CodeNode(id) == Node("code", id, "x", <<>>)
DefOf(graph, imports) == [graph |-> graph, assets |-> "x", imports |-> imports]
SmallDefs == {DefOf(<<Node("agent", "a", "x", <<>>), CodeNode("b")>>, "none"), DefOf(<<CodeNode("a")>>, "m"),
              DefOf(<<Node("if", "", "x", <<<<"then", <<CodeNode("a")>>>>>>), CodeNode("b")>>, "none"),
              DefOf(<<Node("parallel", "", "", <<<<"children", <<CodeNode("a"), CodeNode("b")>>>>>>), CodeNode("c")>>, "none")}
(***************************************************************************)
(* Retry blocks: each field unset, zero, small, at and beyond the width.   *)
(***************************************************************************)
RetryBlocks == {[attempts |-> a, backoff |-> b, initial |-> i, max |-> m, codes |-> c, recovery |-> ""] :
                  a \in {0, 20}, b \in {"", "exp", "linear", "none", "expo"}, i \in {Unset, 0, 1, 7, 100},
                  m \in {Unset, 0, 5, 1000}, c \in {{Unset}, {}, {1, 78}}}
(***************************************************************************)
(* Juries: every small jury in every position of a gate and outside one.   *)
(***************************************************************************)
AgentNode(id, v) == Node("agent", id, v, <<>>)
JuryBodies == {[with |-> w, schema |-> s, bools |-> b, jury |-> [on |-> j, over |-> o, field |-> f]] :
                 w \in {{}, {<<"m", "1">>, <<"p", "2">>}}, s \in BOOLEAN, b \in {{}, {"pass"}, {"pass", "ok"}}, j \in BOOLEAN,
                 f \in {"", "ok"}, o \in {<<{<<"m", "a">>}, {<<"m", "b">>}>>, <<{<<"m", "a">>}, {<<"p", "b">>}>>}}
Around(k, branch, list) == Node(k, "", MapBody(<<>>, "", 0), <<<<branch, list>>>>)
GateOf(gen, ev) == Node("gate", "", MapBody(<<>>, "", 0), <<<<"generate", gen>>, <<"evaluate", ev>>>>)
JuryPlaces(n) ==
  LET o == AgentNode("o", [with |-> {}, schema |-> TRUE, bools |-> {"pass"}, jury |-> NoJury])
      g == GateOf(<<o>>, <<n>>)
  IN  {<<n>>, <<g>>, <<GateOf(<<n>>, <<o>>)>>, <<GateOf(<<o>>, <<n, o>>)>>, <<GateOf(<<o>>, <<o, n>>)>>,
       <<Around("map", "body", <<g>>)>>, <<GateOf(<<o>>, <<Around("if", "then", <<n>>)>>)>>, <<o, Around("loop", "body", <<n, g>>)>>,
       <<Around("parallel", "children", <<g, Around("map", "body", <<o>>)>>)>>, <<g, GateOf(<<n>>, <<n>>)>>}
JuryWorkflows == UNION {JuryPlaces(AgentNode("j", b)) : b \in JuryBodies}
(***************************************************************************)
(* Directories: files, directories, links in and out of h, and two levels  *)
(* of imports below it.                                                    *)
(***************************************************************************)
Spelled(parts) == [spelling |-> "plain", parts |-> parts]
Misspelled(s) == [spelling |-> s, parts |-> <<"c">>]
DocOf(c, a, i) == [containers |-> c, assets |-> a, imports |-> i, ok |-> TRUE]
Imp(id, p) == [id |-> id, path |-> p]
ToChild == Spelled(<<"d", "n.awf.yaml">>)
ContainerSets == {<<>>, [x |-> Spelled(<<"c">>), y |-> Spelled(<<".", "c">>)], [x |-> Spelled(<<"l", "x">>)], [x |-> Spelled(<<"..", "o">>)], [x |-> Misspelled("absolute")], [x |-> Spelled(<<"d">>)]}
AssetSets == {<<>>, [p |-> Spelled(<<"c">>), q |-> Spelled(<<"d">>)], [p |-> Spelled(<<"d", "..">>)], [p |-> Spelled(<<"e">>)], [p |-> Spelled(<<"f">>)]}
ImportLists == {<<>>, <<Imp("k", ToChild)>>, <<Imp("j", ToChild), Imp("k", ToChild)>>, <<Imp("k", Spelled(<<"m.awf.yaml">>))>>,
                <<Imp("a.b", ToChild)>>, <<Imp("k", Spelled(<<"c">>))>>, <<Imp("k", Spelled(<<"l", "n.awf.yaml">>))>>, <<Imp("k", Spelled(<<"z", "n.awf.yaml">>))>>}
ChildDocs == {DocOf(<<>>, <<>>, <<>>), DocOf([x |-> Spelled(<<"x">>)], [p |-> Spelled(<<"x">>)], <<Imp("k", Spelled(<<"m.awf.yaml">>))>>)}
NestedDocs == {DocOf(<<>>, <<>>, <<Imp("k", Spelled(<<"n.awf.yaml">>))>>), DocOf(<<>>, <<>>, <<Imp("k", Spelled(<<"g", "m.awf.yaml">>))>>)}
LeafDoc == DocOf(<<>>, <<>>, <<Imp("k", Spelled(<<"m.awf.yaml">>))>>)
TreeOf(root, child, nested, size) ==
  LET entries == {<<<<"h">>, DirEntry>>, <<<<"h", "m.awf.yaml">>, FileOf(1, root)>>, <<<<"h", "c">>, FileOf(size, NoDoc)>>,
                  <<<<"h", "d">>, DirEntry>>, <<<<"h", "d", "n.awf.yaml">>, FileOf(1, child)>>, <<<<"h", "d", "m.awf.yaml">>, FileOf(1, nested)>>, <<<<"h", "d", "x">>, FileOf(1, NoDoc)>>,
                  <<<<"h", "d", "g">>, DirEntry>>, <<<<"h", "d", "g", "m.awf.yaml">>, FileOf(1, LeafDoc)>>,
                  <<<<"h", "l">>, LinkTo(<<"h", "d">>)>>, <<<<"h", "e">>, DirEntry>>, <<<<"h", "f">>, DirEntry>>, <<<<"h", "f", "l">>, LinkTo(<<"o">>)>>, <<<<"o">>, FileOf(1, NoDoc)>>}
  IN  [p \in {e[1] : e \in entries} |-> (CHOOSE e \in entries : e[1] = p)[2]]
AllTrees == {TreeOf(DocOf(c, a, <<>>), LeafDoc, LeafDoc, s) : c \in ContainerSets, a \in AssetSets, s \in {2, 3}}
            \cup {TreeOf(DocOf(<<>>, <<>>, i), ch, n, 1) : i \in ImportLists, ch \in ChildDocs, n \in NestedDocs}
            \cup {TreeOf(DocOf([x |-> Spelled(<<"c">>)], [p |-> Spelled(<<"c">>)], <<Imp("k", ToChild)>>), ch, n, 1) : ch \in ChildDocs, n \in NestedDocs}
DiskChanges == {[path |-> <<"h", "c">>, entry |-> LinkTo(<<"o">>)], [path |-> <<"h", "c">>, entry |-> LinkTo(<<"h", "d", "x">>)], [path |-> <<"h", "c">>, entry |-> FileOf(2, NoDoc)], [path |-> <<"h", "c">>, entry |-> FileOf(5, NoDoc)],
            [path |-> <<"h", "d", "x">>, entry |-> FileOf(2, NoDoc)], [path |-> <<"h", "d", "x">>, entry |-> NoEntry], [path |-> <<"h", "d">>, entry |-> LinkTo(<<"h", "e">>)], [path |-> <<"h", "d", "n.awf.yaml">>, entry |-> LinkTo(<<"h", "d", "m.awf.yaml">>)]}
HomeDir == <<"h">>

VARIABLE part
partVars == <<vars, llmVars, templateVars, resumeVars, retryVars, juryVars, loaderVars, part>>
\* The state of a part that does not run: an initial or a final one.
IdleReferences == /\ prog = Program(<<>>, <<>>, <<>>, 1, "run", "none") /\ at = <<>>
                  /\ finished = {prog.p, prog.q} /\ completed = finished
                  /\ iters = <<>> /\ attempts = <<>> /\ items = <<>> /\ branches = <<>>
IdleLlm == /\ job = [provider |-> "openai", files |-> <<>>, cache |-> "none", react |-> FALSE, schema |-> FALSE,
                     system |-> FALSE, evidence |-> FALSE, thread |-> 0, big |-> FALSE]
           /\ call = "new" /\ reply = NoReply /\ wire = <<>> /\ acc = NothingRead
           /\ llmCtx = "live" /\ shown = <<>> /\ answer = NoAnswer
IdleTemplates == source = [kind |-> "host", text |-> <<>>]
IdleEdited == /\ def = DefOf(<<>>, "none") /\ started = def /\ last = def
              /\ done = <<>> /\ failed = <<>> /\ loose = FALSE /\ edits = 0 /\ starts = 1
              /\ epoch = [state |-> "running", mode |-> "start", from |-> FALSE]
IdleRetry == trying = [policy |-> CodeDefault, attempt |-> 1, hint |-> 0, pause |-> 0, jitter |-> 0]
IdleJury == loading = [graph |-> <<>>, state |-> "decoded", from |-> <<>>]
IdleLoader == /\ disk = <<>> /\ opened = {} /\ changes = 0
              /\ ld = [stack |-> <<>>, modules |-> <<>>, edges |-> {}, state |-> "idle", code |-> ""]
Parts == {"references", "llm", "templates", "edited", "retry", "jury", "loader"}
InitOf(p) == /\ part = p
             /\ IF p = "references" THEN Init ELSE IdleReferences
             /\ IF p = "llm" THEN LlmInit ELSE IdleLlm
             /\ IF p = "templates" THEN TemplateInit ELSE IdleTemplates
             /\ IF p = "edited" THEN EditedInit ELSE IdleEdited
             /\ IF p = "retry" THEN RetryInit ELSE IdleRetry
             /\ IF p = "jury" THEN JuryInit ELSE IdleJury
             /\ IF p = "loader" THEN LoaderInit ELSE IdleLoader
MCInit == \E p \in Parts : InitOf(p)
NextReferences == part = "references" /\ Next /\ UNCHANGED <<llmVars, templateVars, resumeVars, retryVars, juryVars, loaderVars, part>>
NextLlm == part = "llm" /\ LlmNext /\ UNCHANGED <<vars, templateVars, resumeVars, retryVars, juryVars, loaderVars, part>>
NextTemplates == part = "templates" /\ Extend /\ UNCHANGED <<vars, llmVars, resumeVars, retryVars, juryVars, loaderVars, part>>
NextEdited == part = "edited" /\ EditedNext /\ UNCHANGED <<vars, llmVars, templateVars, retryVars, juryVars, loaderVars, part>>
NextRetry == part = "retry" /\ RetryNext /\ UNCHANGED <<vars, llmVars, templateVars, resumeVars, juryVars, loaderVars, part>>
NextJury == part = "jury" /\ (RejectJury \/ LowerJury) /\ UNCHANGED <<vars, llmVars, templateVars, resumeVars, retryVars, loaderVars, part>>
NextLoader == part = "loader" /\ LoaderNext /\ UNCHANGED <<vars, llmVars, templateVars, resumeVars, retryVars, juryVars, part>>
MCNext == NextReferences \/ NextLlm \/ NextTemplates \/ NextEdited \/ NextRetry \/ NextJury \/ NextLoader
MCSpec == MCInit /\ [][MCNext]_partVars
\* The calls of awf/llm alone.
LlmSpec == InitOf("llm") /\ [][NextLlm]_partVars
=============================================================================
