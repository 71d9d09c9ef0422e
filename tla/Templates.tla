------------------------------ MODULE Templates ------------------------------
(***************************************************************************)
(* The expression and substitution language of workflow definitions        *)
(* (template/): the slot scanner and renderer, the lexer and parser of     *)
(* references, the parser and evaluator of conditions.  A source text      *)
(* grows character by character, or token by token; at every length what   *)
(* the code makes of it is compared with a definition that does not share  *)
(* its algorithm.                                                          *)
(*   host   characters { } \ a: a string with slots and escapes            *)
(*   ref    characters a 1 0 - . ": one reference                          *)
(*   str    characters " \ a: string literals and what is between them     *)
(*   cond   tokens: any few of them, over the references p and q           *)
(*   long   tokens: a longer condition, in which operands and operators    *)
(*          alternate, so that operators meet each other                   *)
(***************************************************************************)
EXTENDS Integers, Sequences, FiniteSets, SequencesExt

CONSTANTS MaxHost,  \* bound: characters of a host string
          MaxRef,   \* bound: characters of a reference
          MaxCond,  \* bound: tokens of a condition
          MaxLong,  \* bound: tokens of a long condition
          MaxStr    \* bound: characters with string literals

VARIABLE source     \* [kind, text]

templateVars == <<source>>

Starts(s, i, w) == i + Len(w) - 1 <= Len(s) /\ SubSeq(s, i, i + Len(w) - 1) = w
From(s, i, w) == {k \in i..Len(s) : Starts(s, k, w)}
FirstOf(S) == CHOOSE k \in S : \A j \in S : k <= j
slotOpen == <<"{", "{">>
slotClose == <<"}", "}">>
(***************************************************************************)
(* Slots.                                                                  *)
(***************************************************************************)
Slot(start, end) == [start |-> start, end |-> end]
Inner(s, sl) == SubSeq(s, sl.start + 2, sl.end - 2)
NoScan == [ok |-> FALSE, slots |-> <<>>, escapes |-> <<>>]
RECURSIVE scanFrom(_, _, _)
scanFrom(s, i, r) ==
  IF From(s, i, slotOpen) = {} THEN r
  ELSE LET start == FirstOf(From(s, i, slotOpen))
           ends == From(s, start + 2, slotClose)
       IN  IF start > 1 /\ s[start - 1] = "\\"
             THEN scanFrom(s, start + 2, [r EXCEPT !.escapes = Append(@, start - 1)])
           ELSE IF ends = {} THEN NoScan
           ELSE IF \E k \in From(s, start + 2, slotOpen) : k + 1 < FirstOf(ends) THEN NoScan
           ELSE scanFrom(s, FirstOf(ends) + 2, [r EXCEPT !.slots = Append(@, Slot(start, FirstOf(ends) + 1))])
scan(s) == scanFrom(s, 1, [ok |-> TRUE, slots |-> <<>>, escapes |-> <<>>])

\* Copies s from the cursor up to (not including) position end.
RECURSIVE writeUpTo(_, _, _, _)
writeUpTo(s, cursor, end, escapes) ==
  LET due == {k \in DOMAIN escapes : escapes[k] >= cursor /\ escapes[k] < end}
  IN  IF due = {} THEN SubSeq(s, cursor, end - 1)
      ELSE LET e == escapes[FirstOf(due)]
           IN  SubSeq(s, cursor, e - 1) \o slotOpen \o writeUpTo(s, e + 3, end, escapes)
\* What the scope gives for a slot, already rendered to a string: text that
\* looks like a slot of its own.
Value(inner) == <<"{", "{", "a", "\\">>
Substitute(s) ==
  LET r == scan(s)
      RECURSIVE render(_, _)
      render(cursor, k) ==
        IF k > Len(r.slots) THEN writeUpTo(s, cursor, Len(s) + 1, r.escapes)
        ELSE writeUpTo(s, cursor, r.slots[k].start, r.escapes) \o Value(Inner(s, r.slots[k])) \o render(r.slots[k].end + 1, k + 1)
  IN  render(1, 1)
\* A host that is one slot keeps the type of its value.
evalTemplateStringValue(s) ==
  LET r == scan(s)
  IN  IF ~r.ok THEN "syntax"
      ELSE IF Len(r.slots) = 1 /\ r.slots[1] = Slot(1, Len(s)) THEN "typed" ELSE "string"
\* Only the outermost braces, whatever is between them.
UnwrapEnvelope(s) == IF Starts(s, 1, slotOpen) /\ Len(s) > 2 /\ Starts(s, Len(s) - 1, slotClose)
                       THEN SubSeq(s, 3, Len(s) - 2) ELSE s
(***************************************************************************)
(* References: characters to tokens to segments.                           *)
(***************************************************************************)
isDigit(c) == c \in {"0", "1"}
isIdentStart(c) == c = "a"
isIdentCont(c) == isIdentStart(c) \/ isDigit(c) \/ c = "-"
\* The end of the longest run of characters from i.
RunOf(s, i, P(_)) == LET stops == {k \in i..Len(s) : ~P(s[k])} IN IF stops = {} THEN Len(s) ELSE FirstOf(stops) - 1
lexNumber(s, i) ==
  LET whole == RunOf(s, IF s[i] = "-" THEN i + 1 ELSE i, isDigit)
  IN  IF whole + 2 <= Len(s) /\ s[whole + 1] = "." /\ isDigit(s[whole + 2]) THEN RunOf(s, whole + 2, isDigit) ELSE whole
lexIdent(s, i) == RunOf(s, i, isIdentCont)
Token(kind, text) == [kind |-> kind, text |-> text]
BadToken == Token("error", <<>>)
\* A string literal from its opening quote: the literal and the position
\* behind it.  A backslash gives the character behind it, whatever it is.
RECURSIVE StringFrom(_, _, _)
StringFrom(s, i, text) ==
  IF i > Len(s) THEN [token |-> BadToken, next |-> Len(s) + 1]
  ELSE IF s[i] = "\"" THEN [token |-> Token("string", text), next |-> i + 1]
  ELSE IF s[i] = "\\" /\ i < Len(s) THEN StringFrom(s, i + 2, Append(text, s[i + 1]))
  ELSE StringFrom(s, i + 1, Append(text, s[i]))
lexString(s, start) == StringFrom(s, start + 1, <<>>)
RECURSIVE LexFrom(_, _)
LexFrom(s, i) ==
  IF i > Len(s) THEN <<>>
  ELSE IF s[i] = "." THEN <<Token("dot", <<".">>)>> \o LexFrom(s, i + 1)
  ELSE IF s[i] = "\"" THEN <<lexString(s, i).token>> \o LexFrom(s, lexString(s, i).next)
  ELSE IF s[i] = "\\" THEN <<BadToken>>
  ELSE IF s[i] = "-" /\ (i = Len(s) \/ ~isDigit(s[i + 1])) THEN <<BadToken>>
  ELSE LET j == IF isIdentStart(s[i]) THEN lexIdent(s, i) ELSE lexNumber(s, i)
       IN  <<Token(IF isIdentStart(s[i]) THEN "ident" ELSE "number", SubSeq(s, i, j))>> \o LexFrom(s, j + 1)
Lex(s) == LexFrom(s, 1)
\* An index is a number that is an integer and not below zero; -0 is one.
Index(text) == "." \notin ToSet(text) /\ (text[1] = "-" => "1" \notin ToSet(text))
ParseRef(s) ==
  LET t == Lex(s)
      good == /\ Len(t) % 2 = 1 /\ t[1].kind = "ident"
              /\ \A i \in DOMAIN t : IF i % 2 = 0 THEN t[i].kind = "dot"
                                     ELSE t[i].kind = "ident" \/ (i > 1 /\ t[i].kind = "number" /\ Index(t[i].text))
  IN  IF good THEN [i \in 1..((Len(t) + 1) \div 2) |-> t[2 * i - 1].text] ELSE <<>>
(***************************************************************************)
(* Conditions.  A result of the parser: the expression and the next token. *)
(***************************************************************************)
cmpOps == {"==", "!=", "<", ">"}
literals == {"1", "null", "true", "'x'"}
tokAt(t, i) == IF i > Len(t) THEN "EOF" ELSE t[i]
Parsed(e, i) == [ok |-> TRUE, e |-> e, i |-> i]
SyntaxError == [ok |-> FALSE, e |-> <<>>, i |-> 0]
RECURSIVE parseOr(_, _), parseUnary(_, _), orRest(_, _), andRest(_, _)
closeParen(t, p) == IF p.ok /\ tokAt(t, p.i) = ")" THEN Parsed(p.e, p.i + 1) ELSE SyntaxError
parsePrimary(t, i) ==
  CASE tokAt(t, i) = "(" -> closeParen(t, parseOr(t, i + 1))
    [] tokAt(t, i) \in {"p", "q"} -> Parsed(<<"ref", t[i]>>, i + 1)
    [] tokAt(t, i) \in literals -> Parsed(<<"lit", t[i]>>, i + 1)
    [] OTHER -> SyntaxError
\* A second comparison in a row is an error.
rightSide(t, l, r) == IF ~r.ok \/ tokAt(t, r.i) \in cmpOps THEN SyntaxError ELSE Parsed(<<"cmp", t[l.i], l.e, r.e>>, r.i)
comparisonRest(t, l) == IF ~l.ok \/ tokAt(t, l.i) \notin cmpOps THEN l ELSE rightSide(t, l, parsePrimary(t, l.i + 1))
parseComparison(t, i) == comparisonRest(t, parsePrimary(t, i))
Join(op, l, r) == IF ~r.ok THEN r ELSE Parsed(IF op = "not" THEN <<op, r.e>> ELSE <<op, l.e, r.e>>, r.i)
parseUnary(t, i) == IF tokAt(t, i) = "!" THEN Join("not", SyntaxError, parseUnary(t, i + 1)) ELSE parseComparison(t, i)
andRest(t, l) == IF ~l.ok \/ tokAt(t, l.i) # "&&" THEN l ELSE andRest(t, Join("and", l, parseUnary(t, l.i + 1)))
parseAnd(t, i) == andRest(t, parseUnary(t, i))
\* Mutant: || takes no && on its right.
OrTakesUnary(t, l) == IF ~l.ok \/ tokAt(t, l.i) # "||" THEN l ELSE orRest(t, Join("or", l, parseUnary(t, l.i + 1)))
orRest(t, l) == IF ~l.ok \/ tokAt(t, l.i) # "||" THEN l ELSE orRest(t, Join("or", l, parseAnd(t, l.i + 1)))
parseOr(t, i) == orRest(t, parseAnd(t, i))
Whole(t, p) == IF p.ok /\ p.i = Len(t) + 1 THEN p ELSE SyntaxError
ParseExpr(t) == Whole(t, parseOr(t, 1))
(***************************************************************************)
(* Evaluation.  A value is <<kind, v>>; an error carries its AWF code.     *)
(***************************************************************************)
Bool(b) == <<"bool", b>>
Number(n) == <<"num", n>>
Null == <<"null", 0>>
EvalErr(code) == <<"err", code>>
IsErr(v) == v[1] = "err"
requireBool(v) == IF IsErr(v) \/ v[1] = "bool" THEN v ELSE EvalErr("AWF4003")
\* A reference that does not bind, or whose value is too large to inline.
resolveRefValue(scope, name) == CASE scope[name] = <<"missing", 0>> -> EvalErr("AWF4002")
                                  [] scope[name] = <<"huge", 0>> -> EvalErr("AWF4001")
                                  [] OTHER -> scope[name]
sameKind(l, r) == l[1] = r[1] /\ l[1] \in {"bool", "str"}
compare(op, l, r) ==
  IF Null \in {l, r} THEN CASE op = "==" -> Bool(l = r) [] op = "!=" -> Bool(l # r) [] OTHER -> EvalErr("AWF4003")
  ELSE IF l[1] = "num" /\ r[1] = "num"
    THEN Bool(CASE op = "==" -> l[2] = r[2] [] op = "!=" -> l[2] # r[2] [] op = "<" -> l[2] < r[2] [] op = ">" -> l[2] > r[2])
  ELSE IF op \notin {"==", "!="} \/ ~sameKind(l, r) THEN EvalErr("AWF4003")
  ELSE Bool((l[2] = r[2]) = (op = "=="))
RECURSIVE evalExpr(_, _)
\* The right side is looked at only if the left leaves the question open.
evalLogical(l, r, scope, shortCircuitOn) ==
  LET lv == requireBool(evalExpr(l, scope))
  IN  IF IsErr(lv) \/ lv = Bool(shortCircuitOn) THEN lv ELSE requireBool(evalExpr(r, scope))
evalExpr(e, scope) ==
  CASE e[1] = "lit" -> (CASE e[2] = "1" -> Number(1) [] e[2] = "null" -> Null [] e[2] = "true" -> Bool(TRUE) [] OTHER -> <<"str", "x">>)
    [] e[1] = "ref" -> resolveRefValue(scope, e[2])
    [] e[1] = "not" -> LET x == requireBool(evalExpr(e[2], scope)) IN IF IsErr(x) THEN x ELSE Bool(~x[2])
    [] e[1] = "and" -> evalLogical(e[2], e[3], scope, FALSE)
    [] e[1] = "or" -> evalLogical(e[2], e[3], scope, TRUE)
    [] e[1] = "cmp" -> LET l == evalExpr(e[3], scope)  r == evalExpr(e[4], scope)
                       IN  IF IsErr(l) THEN l ELSE IF IsErr(r) THEN r ELSE compare(e[2], l, r)
EvalBool(e, scope) == requireBool(evalExpr(e, scope))
RECURSIVE refsOf(_)
refsOf(e) == CASE e[1] = "ref" -> {e[2]} [] e[1] = "lit" -> {} [] e[1] = "not" -> refsOf(e[2])
                   [] e[1] \in {"and", "or"} -> refsOf(e[2]) \cup refsOf(e[3])
                   [] e[1] = "cmp" -> refsOf(e[3]) \cup refsOf(e[4])
-----------------------------------------------------------------------------
Alphabet(kind) == CASE kind = "host" -> {"{", "}", "\\", "a"}
                    [] kind = "ref" -> {"a", "0", "1", "-", ".", "\""}
                    [] kind = "str" -> {"\"", "\\", "a"}
                    [] kind = "cond" -> {"p", "q", "!", "&&", "||", "==", "<", "(", ")"} \cup literals
                    [] kind = "long" -> {"p", "q", "!", "&&", "||", "==", "(", ")"}
Bound(kind) == CASE kind = "host" -> MaxHost [] kind = "ref" -> MaxRef [] kind = "str" -> MaxStr
                 [] kind = "cond" -> MaxCond [] kind = "long" -> MaxLong
\* A token of a long condition: an operand ends with p, q or a parenthesis.
Alternates(t, c) == (c \in {"&&", "||", "==", ")"}) = (t # <<>> /\ Last(t) \in {"p", "q", ")"})
TemplateInit == \E kind \in {"host", "ref", "str", "cond", "long"} : source = [kind |-> kind, text |-> <<>>]
Extend == /\ Len(source.text) < Bound(source.kind)
          /\ \E c \in Alphabet(source.kind) :
               /\ source.kind = "long" => Alternates(source.text, c)
               /\ source' = [source EXCEPT !.text = Append(@, c)]
-----------------------------------------------------------------------------
(***************************************************************************)
(* The references.                                                         *)
(***************************************************************************)
\* Every {{ of a text, leftmost first, behind a backslash.
RECURSIVE Escaped(_)
Escaped(s) == IF From(s, 1, slotOpen) = {} THEN s
              ELSE LET k == FirstOf(From(s, 1, slotOpen)) IN SubSeq(s, 1, k - 1) \o <<"\\", "{", "{">> \o Escaped(SubSeq(s, k + 2, Len(s)))
\* Any text survives being escaped and rendered.  In a host that scans, every
\* slot closes at the first }} behind it and every {{ is a slot's or escaped;
\* and what a slot is replaced by is not looked at again: putting braces and a
\* backslash into it changes nothing around it.
HostFaithful ==
  LET s == source.text  r == scan(s)
  IN  /\ Substitute(Escaped(s)) = s
      /\ r.ok =>
           /\ \A k \in DOMAIN r.slots : LET sl == r.slots[k] IN
                /\ Starts(s, sl.start, slotOpen) /\ Starts(s, sl.end - 1, slotClose)
                /\ From(Inner(s, sl), 1, slotOpen) = {} /\ From(Inner(s, sl), 1, slotClose) = {}
                /\ k > 1 => r.slots[k - 1].end < sl.start
                /\ sl.start = 1 \/ s[sl.start - 1] # "\\"
           /\ Len(Substitute(s)) = Len(s) - Len(r.escapes)
                + FoldLeft(LAMBDA n, sl : n + 4 - (sl.end - sl.start + 1), 0, r.slots)
           /\ r.slots = <<>> /\ r.escapes = <<>> <=> From(s, 1, slotOpen) = {}
           /\ evalTemplateStringValue(s) = "typed" => Inner(s, r.slots[1]) = UnwrapEnvelope(s)

\* Where a segment may stand: a name, or an index.
Segments(s) == LET dots == {0, Len(s) + 1} \cup {k \in DOMAIN s : s[k] = "."}
                   D == [i \in 1..Cardinality(dots) |-> CHOOSE k \in dots : Cardinality({d \in dots : d < k}) = i - 1]
               IN  [i \in 1..(Len(D) - 1) |-> SubSeq(s, D[i] + 1, D[i + 1] - 1)]
IsName(w) == w # <<>> /\ isIdentStart(w[1]) /\ \A i \in DOMAIN w : w[i] \notin {".", "\""}
IsIndex(w) == w # <<>> /\ (\A i \in DOMAIN w : isDigit(w[i]) \/ (i = 1 /\ w[1] = "-" /\ Len(w) > 1 /\ "1" \notin ToSet(w)))
\* The parser accepts exactly the references of the grammar and reads their
\* segments, but for an index right behind an index, which the lexer takes for
\* a decimal fraction.
RefFaithful ==
  LET s == source.text  w == Segments(s)
      fraction == \E i \in 1..(Len(w) - 1) : IsIndex(w[i]) /\ IsIndex(w[i + 1]) /\ w[i + 1][1] # "-"
      grammar == IsName(w[1]) /\ \A i \in DOMAIN w : IsName(w[i]) \/ IsIndex(w[i])
  IN  ParseRef(s) = IF grammar /\ ~fraction THEN w ELSE <<>>

\* A text as a literal, quotes and backslashes escaped.
Quoted(s) == <<"\"">> \o FlattenSeq([i \in DOMAIN s |-> IF s[i] = "a" THEN <<"a">> ELSE <<"\\", s[i]>>]) \o <<"\"">>
\* Whether an odd number of backslashes stand right before position i.
IsEscaped(s, i) == LET run == {k \in 1..(i - 1) : \A j \in k..(i - 1) : s[j] = "\\"} IN Cardinality(run) % 2 = 1
\* Any text can be written as one literal.  A literal ends at the first quote
\* that is not escaped, stands for what is between the quotes without the
\* backslashes that escape, and what follows is read as if it stood alone; a
\* literal that does not end is an error.
StrFaithful ==
  LET s == source.text
      ends == {k \in 2..Len(s) : s[k] = "\"" /\ ~IsEscaped(s, k)}
      kept(e) == SelectSeq([k \in 1..(e - 2) |-> k + 1], LAMBDA k : s[k] # "\\" \/ IsEscaped(s, k))
  IN  /\ Lex(Quoted(s)) = <<Token("string", s)>>
      /\ s # <<>> /\ s[1] = "\"" =>
           IF ends = {} THEN Lex(s) = <<BadToken>>
           ELSE LET e == FirstOf(ends)
                IN  Lex(s) = <<Token("string", [i \in DOMAIN kept(e) |-> s[kept(e)[i]]])>> \o Lex(SubSeq(s, e + 1, Len(s)))

\* The derivations of t[i..j] from a nonterminal of the grammar.
RECURSIVE Derive(_, _, _, _)
Derive(nt, t, i, j) ==
  IF i > j THEN {}
  ELSE CASE nt = "or" -> Derive("and", t, i, j) \cup
              UNION {{<<"or", l, r>> : l \in Derive("or", t, i, k - 1), r \in Derive("and", t, k + 1, j)} : k \in {k \in i..j : t[k] = "||"}}
         [] nt = "and" -> Derive("unary", t, i, j) \cup
              UNION {{<<"and", l, r>> : l \in Derive("and", t, i, k - 1), r \in Derive("unary", t, k + 1, j)} : k \in {k \in i..j : t[k] = "&&"}}
         [] nt = "unary" -> Derive("comparison", t, i, j) \cup (IF t[i] = "!" THEN {<<"not", x>> : x \in Derive("unary", t, i + 1, j)} ELSE {})
         [] nt = "comparison" -> Derive("primary", t, i, j) \cup
              UNION {{<<"cmp", t[k], l, r>> : l \in Derive("primary", t, i, k - 1), r \in Derive("primary", t, k + 1, j)} : k \in {k \in i..j : t[k] \in cmpOps}}
         [] nt = "primary" -> IF i = j THEN (IF t[i] \in {"p", "q"} THEN {<<"ref", t[i]>>} ELSE IF t[i] \in literals THEN {<<"lit", t[i]>>} ELSE {})
                              ELSE IF t[i] = "(" /\ t[j] = ")" THEN Derive("or", t, i + 1, j - 1) ELSE {}
Scopes == [{"p", "q"} -> {Bool(TRUE), Bool(FALSE), Null, Number(0), Number(1), <<"str", "x">>, <<"map", "m">>, <<"missing", 0>>, <<"huge", 0>>}]
Mirror(op) == CASE op = "<" -> ">" [] op = ">" -> "<" [] OTHER -> op
\* The references a condition cannot do without: not those behind && and ||.
RECURSIVE Asked(_)
Asked(e) == CASE e[1] = "ref" -> {e[2]} [] e[1] = "lit" -> {} [] e[1] \in {"not", "and", "or"} -> Asked(e[2])
              [] e[1] = "cmp" -> Asked(e[3]) \cup Asked(e[4])
\* The grammar is unambiguous and the parser finds its derivation.  What a
\* condition evaluates to is a truth value or one error: a negation moves
\* through && and ||, a comparison reads the same from both sides, and a
\* reference that does not bind fails the condition unless it can be skipped.
CondFaithful ==
  LET t == source.text  p == ParseExpr(t)
  IN  /\ Derive("or", t, 1, Len(t)) = (IF p.ok THEN {p.e} ELSE {})
      /\ p.ok => \A scope \in Scopes :
           LET v == EvalBool(p.e, scope)
           IN  /\ v[1] = "bool" \/ v[2] \in {"AWF4001", "AWF4002", "AWF4003"}
               /\ p.e[1] = "and" => EvalBool(<<"not", p.e>>, scope) = EvalBool(<<"or", <<"not", p.e[2]>>, <<"not", p.e[3]>>>>, scope)
               /\ p.e[1] = "or" => EvalBool(<<"not", p.e>>, scope) = EvalBool(<<"and", <<"not", p.e[2]>>, <<"not", p.e[3]>>>>, scope)
               /\ p.e[1] = "cmp" /\ (\A x \in refsOf(p.e) : scope[x][1] \notin {"missing", "huge"})
                    => v = EvalBool(<<"cmp", Mirror(p.e[2]), p.e[4], p.e[3]>>, scope)
               /\ (\E x \in Asked(p.e) : scope[x][1] \in {"missing", "huge"}) => IsErr(v)

\* What the code makes of a source is what the language says it means.
TemplatesFaithful == CASE source.kind = "host" -> HostFaithful [] source.kind = "ref" -> RefFaithful [] source.kind = "str" -> StrFaithful
                       [] source.kind \in {"cond", "long"} -> CondFaithful
=============================================================================
