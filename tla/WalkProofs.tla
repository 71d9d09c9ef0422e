------------------------------ MODULE WalkProofs ------------------------------
(***************************************************************************)
(* Proofs about the walk of engine.Run over the control nodes, for every   *)
(* workflow tree, any number of drivers, failures, interrupts and crashes. *)
(*                                                                         *)
(* What the invariant says of a tree, a set of frames and a log is written *)
(* for any of them, so that a step is a lemma about plain values: the tree *)
(* t, the frames a, the results r that wait for their callers, the log l.  *)
(***************************************************************************)
EXTENDS ControlFlow, FiniteSetTheorems, TLAPS

-----------------------------------------------------------------------------
(* Trees and paths.                                                        *)

NodeType == [kind : Kinds, kids : Seq(Nat), last : Nat, max : Nat]
Tree(t) == t \in Seq(NodeType) /\ Preorder(t) /\ Arity(t)

Numbers(t) == 1 .. Len(t)
Has(t, n) == 1 .. Len(t[n].kids)
Rounded(t, n) == t[n].kind \in {"loop", "gate"}

\* the loops and gates around node m
Around(t, m) == {a \in Numbers(t) : a < m /\ m <= t[a].last /\ t[a].kind \in {"loop", "gate"}}
DepthIn(t, m) == Cardinality(Around(t, m))

\* a path has one number for each of them
InTree(t, q) == /\ q \in Numbers(t) \X Seq(Nat)
                /\ Len(q[2]) = DepthIn(t, q[1])

\* Kid and Above
Sub(t, p, i, k) == <<t[p[1]].kids[i], IF Rounded(t, p[1]) THEN Append(p[2], k) ELSE p[2]>>
Over(t, p, q) ==
    /\ q[1] \in p[1] .. t[p[1]].last
    /\ Len(p[2]) <= Len(q[2])
    /\ \A x \in 1 .. Len(p[2]) : q[2][x] = p[2][x]

LEMMA NodeFacts ==
    ASSUME NEW t, Tree(t), NEW n \in Numbers(t)
    PROVE  /\ t[n] \in NodeType
           /\ t[n].kind \in Kinds /\ t[n].kids \in Seq(Nat) /\ t[n].last \in Nat /\ t[n].max \in Nat
           /\ n \in Nat /\ Len(t) \in Nat /\ Len(t[n].kids) \in Nat
           /\ t[n].last \in n .. Len(t)
           /\ \A m \in n .. t[n].last : m \in Numbers(t) /\ t[m].last <= t[n].last
           /\ \A i \in Has(t, n) : t[n].kids[i] \in n + 1 .. t[n].last
           /\ \A i, j \in Has(t, n) : i < j => t[t[n].kids[i]].last < t[n].kids[j]
           /\ \A m \in n + 1 .. t[n].last : \E i \in Has(t, n) : m \in t[n].kids[i] .. t[t[n].kids[i]].last
<1>1. t[n] \in NodeType /\ n \in Nat /\ Len(t) \in Nat
  BY DEF Tree, Numbers
<1>2. t[n].kind \in Kinds /\ t[n].kids \in Seq(Nat) /\ t[n].last \in Nat /\ t[n].max \in Nat
  BY <1>1 DEF NodeType
<1>3. Len(t[n].kids) \in Nat
  BY <1>2
<1>4. t[n].last \in n .. Len(t)
  BY DEF Tree, Preorder, Numbers
<1>5. \A m \in n .. t[n].last : m \in Numbers(t) /\ t[m].last <= t[n].last
  BY <1>1, <1>2, <1>4 DEF Tree, Preorder, Numbers
<1>6. \A i \in Has(t, n) : t[n].kids[i] \in n + 1 .. t[n].last
  BY DEF Tree, Preorder, Numbers, Has
<1>7. \A i, j \in Has(t, n) : i < j => t[t[n].kids[i]].last < t[n].kids[j]
  BY DEF Tree, Preorder, Numbers, Has
<1>8. \A m \in n + 1 .. t[n].last : \E i \in Has(t, n) : m \in t[n].kids[i] .. t[t[n].kids[i]].last
  BY DEF Tree, Preorder, Numbers, Has
<1> QED
  BY <1>1, <1>2, <1>3, <1>4, <1>5, <1>6, <1>7, <1>8

LEMMA DepthIsNat ==
    ASSUME NEW t, Tree(t), NEW m \in Numbers(t)
    PROVE  IsFiniteSet(Around(t, m)) /\ DepthIn(t, m) \in Nat
<1>1. Len(t) \in Nat
  BY DEF Tree
<1>2. IsFiniteSet(1 .. Len(t)) /\ Around(t, m) \in SUBSET (1 .. Len(t))
  BY <1>1, FS_Interval DEF Around, Numbers
<1>3. IsFiniteSet(Around(t, m))
  BY <1>2, FS_Subset
<1> QED
  BY <1>3, FS_CardinalityType DEF DepthIn

\* a node below n has at least the loops and gates around n around it
LEMMA DepthGrows ==
    ASSUME NEW t, Tree(t), NEW n \in Numbers(t), NEW m \in n .. t[n].last
    PROVE  /\ m \in Numbers(t)
           /\ DepthIn(t, n) <= DepthIn(t, m)
           /\ Rounded(t, n) /\ m # n => DepthIn(t, n) < DepthIn(t, m)
<1>1. m \in Numbers(t) /\ n \in Nat /\ m \in Nat /\ t[n].last \in Nat /\ t[m].last <= t[n].last
  BY NodeFacts DEF Numbers
<1>2. Around(t, n) \subseteq Around(t, m)
  <2>1. SUFFICES ASSUME NEW a \in Numbers(t), a < n, n <= t[a].last, t[a].kind \in {"loop", "gate"}
                 PROVE  a < m /\ m <= t[a].last
    BY DEF Around
  <2>2. a \in Nat /\ t[a].last \in Nat /\ n \in a .. t[a].last
    BY <1>1, <2>1, NodeFacts
  <2>3. t[n].last <= t[a].last
    BY <2>2, NodeFacts
  <2> QED
    BY <1>1, <2>1, <2>2, <2>3
<1>3. DepthIn(t, n) <= DepthIn(t, m)
  BY <1>1, <1>2, DepthIsNat, FS_Subset DEF DepthIn
<1>4. ASSUME Rounded(t, n), m # n
      PROVE  DepthIn(t, n) # DepthIn(t, m)
  <2>1. n \in Around(t, m) /\ n \notin Around(t, n)
    BY <1>1, <1>4 DEF Around, Rounded
  <2> QED
    BY <1>1, <1>2, <2>1, DepthIsNat, FS_Subset DEF DepthIn
<1>5. DepthIn(t, n) \in Nat /\ DepthIn(t, m) \in Nat
  BY <1>1, DepthIsNat
<1> QED
  BY <1>1, <1>3, <1>4, <1>5

\* and a child of n has no other ones around it but n
LEMMA DepthOfKid ==
    ASSUME NEW t, Tree(t), NEW n \in Numbers(t), NEW i \in Has(t, n)
    PROVE  /\ t[n].kids[i] \in Numbers(t) /\ t[n].kids[i] \in n + 1 .. t[n].last
           /\ DepthIn(t, t[n].kids[i]) = IF Rounded(t, n) THEN DepthIn(t, n) + 1 ELSE DepthIn(t, n)
<1> DEFINE c == t[n].kids[i]
<1>1. c \in n + 1 .. t[n].last /\ n \in Nat /\ t[n].last \in Nat /\ c \in Nat
  BY NodeFacts
<1> HIDE DEF c
<1>2. c \in Numbers(t)
  BY <1>1, NodeFacts
<1>3. Around(t, c) = IF Rounded(t, n) THEN Around(t, n) \cup {n} ELSE Around(t, n)
  <2>1. ASSUME NEW a \in Around(t, c)
        PROVE  a \in Around(t, n) \/ (a = n /\ Rounded(t, n))
    <3>0. a \in Numbers(t) /\ a < c /\ c <= t[a].last /\ t[a].kind \in {"loop", "gate"}
      BY <2>1 DEF Around
    <3>1. a \in Numbers(t) /\ a \in Nat /\ a < c /\ c <= t[a].last /\ t[a].last \in Nat
          /\ t[a].kind \in {"loop", "gate"}
      BY <3>0, NodeFacts
    <3>2. CASE a < n
      BY <1>1, <3>1, <3>2 DEF Around
    <3>3. CASE a = n
      BY <3>1, <3>3 DEF Rounded
    <3>4. CASE n < a
      <4>1. a \in n + 1 .. t[n].last
        BY <1>1, <3>1, <3>4
      <4>2. PICK j \in Has(t, n) : a \in t[n].kids[j] .. t[t[n].kids[j]].last
        BY <4>1, NodeFacts
      <4>3. t[n].kids[j] \in n + 1 .. t[n].last
        BY NodeFacts
      <4>4. t[n].kids[j] \in Numbers(t)
        BY <1>1, <4>3, NodeFacts
      <4>5. t[a].last <= t[t[n].kids[j]].last /\ t[t[n].kids[j]].last \in Nat /\ t[a].last \in Nat
        BY <3>1, <4>2, <4>4, NodeFacts
      <4>6. i \in Nat /\ j \in Nat
        BY DEF Has
      <4>7. ~(j < i)
        <5>1. j < i => t[t[n].kids[j]].last < c
          BY NodeFacts DEF c
        <5> QED
          BY <1>1, <3>1, <4>5, <5>1
      <4>8. ~(i < j)
        <5>1. t[c].last \in Nat /\ c <= t[c].last
          BY <1>2, NodeFacts
        <5>2. i < j => t[c].last < t[n].kids[j]
          BY NodeFacts DEF c
        <5> QED
          BY <1>1, <3>1, <4>2, <4>3, <5>1, <5>2
      <4>9. t[n].kids[j] = c
        BY <4>6, <4>7, <4>8 DEF c
      <4> QED
        BY <1>1, <3>1, <4>2, <4>9
    <3> QED
      BY <1>1, <3>1, <3>2, <3>3, <3>4
  <2>2. Around(t, n) \subseteq Around(t, c)
    <3>1. SUFFICES ASSUME NEW a \in Numbers(t), a < n, n <= t[a].last, t[a].kind \in {"loop", "gate"}
                   PROVE  a < c /\ c <= t[a].last
      BY DEF Around
    <3>2. a \in Nat /\ t[a].last \in Nat /\ n \in a .. t[a].last
      BY <1>1, <3>1, NodeFacts
    <3>3. t[n].last <= t[a].last
      BY <3>2, NodeFacts
    <3> QED
      BY <1>1, <3>1, <3>2, <3>3
  <2>3. Rounded(t, n) => n \in Around(t, c)
    BY <1>1 DEF Around, Rounded
  <2> QED
    BY <2>1, <2>2, <2>3
<1>4. n \notin Around(t, n)
  BY <1>1 DEF Around
<1>5. IsFiniteSet(Around(t, n)) /\ DepthIn(t, n) \in Nat
  BY DepthIsNat
<1>6. DepthIn(t, c) = IF Rounded(t, n) THEN DepthIn(t, n) + 1 ELSE DepthIn(t, n)
  <2>1. CASE Rounded(t, n)
    BY <1>3, <1>4, <1>5, <2>1, FS_AddElement DEF DepthIn
  <2>2. CASE ~Rounded(t, n)
    BY <1>3, <2>2 DEF DepthIn
  <2> QED
    BY <2>1, <2>2
<1> QED
  BY <1>1, <1>2, <1>6 DEF c

-----------------------------------------------------------------------------
(* Paths above paths.                                                      *)

LEMMA SameNumbers ==
    ASSUME NEW s \in Seq(Nat), NEW u \in Seq(Nat), Len(s) = Len(u), \A y \in 1 .. Len(s) : u[y] = s[y]
    PROVE  s = u
<1>1. s = [y \in 1 .. Len(s) |-> s[y]]
  OBVIOUS
<1>2. u = [y \in 1 .. Len(u) |-> u[y]]
  OBVIOUS
<1> QED
  BY <1>1, <1>2

LEMMA PathFacts ==
    ASSUME NEW t, Tree(t), NEW p, InTree(t, p)
    PROVE  /\ p[1] \in Numbers(t) /\ p[1] \in Nat /\ p[2] \in Seq(Nat) /\ p = <<p[1], p[2]>>
           /\ Len(p[2]) = DepthIn(t, p[1]) /\ Len(p[2]) \in Nat
BY DEF InTree, Numbers

LEMMA SubIsBelow ==
    ASSUME NEW t, Tree(t), NEW p, InTree(t, p), NEW i \in Has(t, p[1]), NEW k \in Nat
    PROVE  /\ InTree(t, Sub(t, p, i, k))
           /\ Over(t, p, Sub(t, p, i, k))
           /\ Sub(t, p, i, k)[1] = t[p[1]].kids[i]
           /\ Sub(t, p, i, k)[1] \in p[1] + 1 .. t[p[1]].last
<1> DEFINE c == t[p[1]].kids[i]
           x == IF Rounded(t, p[1]) THEN Append(p[2], k) ELSE p[2]
<1>1. p[1] \in Numbers(t) /\ p[2] \in Seq(Nat) /\ Len(p[2]) = DepthIn(t, p[1]) /\ Len(p[2]) \in Nat /\ p[1] \in Nat
  BY PathFacts
<1>2. c \in Numbers(t) /\ c \in p[1] + 1 .. t[p[1]].last
      /\ DepthIn(t, c) = IF Rounded(t, p[1]) THEN DepthIn(t, p[1]) + 1 ELSE DepthIn(t, p[1])
  BY <1>1, DepthOfKid
<1>3. x \in Seq(Nat) /\ Len(x) = (IF Rounded(t, p[1]) THEN Len(p[2]) + 1 ELSE Len(p[2]))
      /\ (\A y \in 1 .. Len(p[2]) : x[y] = p[2][y])
      /\ (Rounded(t, p[1]) => x[Len(p[2]) + 1] = k)
  BY <1>1
<1>4. Sub(t, p, i, k) = <<c, x>>
  BY DEF Sub
<1> HIDE DEF c, x
<1>5. t[p[1]].last \in Nat
  BY <1>1, NodeFacts
<1>6. c \in Nat /\ c # p[1] /\ c \in p[1] .. t[p[1]].last
  BY <1>1, <1>2, <1>5
<1>7. Sub(t, p, i, k)[1] = c /\ Sub(t, p, i, k)[2] = x
  BY <1>4
<1>8. InTree(t, Sub(t, p, i, k))
  BY <1>1, <1>2, <1>3, <1>4 DEF InTree
<1>9. Over(t, p, Sub(t, p, i, k))
  BY <1>1, <1>3, <1>6, <1>7 DEF Over
<1> QED
  BY <1>1, <1>2, <1>3, <1>6, <1>7, <1>8, <1>9 DEF c

LEMMA SubIsOther ==
    ASSUME NEW t, Tree(t), NEW p, InTree(t, p), NEW i \in Has(t, p[1]), NEW k \in Nat
    PROVE  Sub(t, p, i, k) # p
<1> DEFINE c == Sub(t, p, i, k)
<1>1. c[1] \in p[1] + 1 .. t[p[1]].last /\ p[1] \in Nat /\ t[p[1]].last \in Nat
  BY SubIsBelow, PathFacts, NodeFacts
<1> HIDE DEF c
<1>2. c # p
  BY <1>1
<1> QED
  BY <1>2 DEF c

LEMMA OverItself ==
    ASSUME NEW t, Tree(t), NEW p, InTree(t, p)
    PROVE  Over(t, p, p)
BY PathFacts, NodeFacts DEF Over

LEMMA OverIsTransitive ==
    ASSUME NEW t, Tree(t), NEW p, InTree(t, p), NEW q, InTree(t, q), NEW s, InTree(t, s),
           Over(t, p, q), Over(t, q, s)
    PROVE  Over(t, p, s)
<1>1. p[1] \in Numbers(t) /\ q[1] \in Numbers(t) /\ s[1] \in Numbers(t)
      /\ p[1] \in Nat /\ q[1] \in Nat /\ s[1] \in Nat
      /\ Len(p[2]) \in Nat /\ Len(q[2]) \in Nat /\ Len(s[2]) \in Nat
  BY PathFacts
<1>2. q[1] \in p[1] .. t[p[1]].last /\ s[1] \in q[1] .. t[q[1]].last
  BY DEF Over
<1>3. t[q[1]].last <= t[p[1]].last /\ t[p[1]].last \in Nat /\ t[q[1]].last \in Nat
  BY <1>1, <1>2, NodeFacts
<1>4. s[1] \in p[1] .. t[p[1]].last
  BY <1>1, <1>2, <1>3
<1>5. Len(p[2]) <= Len(s[2])
  BY <1>1 DEF Over
<1>6. \A x \in 1 .. Len(p[2]) : s[2][x] = p[2][x]
  BY <1>1 DEF Over
<1> QED
  BY <1>4, <1>5, <1>6 DEF Over

\* what lies above a child lies above its parent, or is the child
LEMMA OverSub ==
    ASSUME NEW t, Tree(t), NEW p, InTree(t, p), NEW i \in Has(t, p[1]), NEW k \in Nat,
           NEW x, InTree(t, x), Over(t, x, Sub(t, p, i, k)), x # Sub(t, p, i, k)
    PROVE  Over(t, x, p)
<1> DEFINE c == Sub(t, p, i, k)
<1>1. InTree(t, c) /\ Over(t, p, c) /\ c[1] = t[p[1]].kids[i] /\ c[1] \in p[1] + 1 .. t[p[1]].last
  BY SubIsBelow
<1> HIDE DEF c
<1>2. /\ p[1] \in Numbers(t) /\ x[1] \in Numbers(t) /\ c[1] \in Numbers(t)
      /\ p[1] \in Nat /\ x[1] \in Nat /\ c[1] \in Nat
      /\ Len(p[2]) = DepthIn(t, p[1]) /\ Len(x[2]) = DepthIn(t, x[1]) /\ Len(c[2]) = DepthIn(t, c[1])
      /\ p[2] \in Seq(Nat) /\ x[2] \in Seq(Nat) /\ c[2] \in Seq(Nat)
      /\ x = <<x[1], x[2]>> /\ c = <<c[1], c[2]>>
      /\ Len(p[2]) \in Nat /\ Len(x[2]) \in Nat /\ Len(c[2]) \in Nat
  BY <1>1, PathFacts
<1>3. c[1] \in x[1] .. t[x[1]].last /\ Len(x[2]) <= Len(c[2]) /\ \A y \in 1 .. Len(x[2]) : c[2][y] = x[2][y]
  BY DEF Over, c
<1>4. x[1] # c[1]
  <2>1. SUFFICES ASSUME x[1] = c[1] PROVE FALSE
    OBVIOUS
  <2>2. Len(x[2]) = Len(c[2])
    BY <1>2, <2>1
  <2>3. x[2] = c[2]
    BY <1>2, <1>3, <2>2, SameNumbers
  <2> QED
    BY <1>2, <2>1, <2>3 DEF c
<1>5. t[x[1]].last \in Nat /\ t[p[1]].last \in Nat
  BY <1>2, NodeFacts
<1>0. /\ p[1] \in Nat /\ x[1] \in Nat /\ c[1] \in Nat /\ t[x[1]].last \in Nat /\ t[p[1]].last \in Nat
      /\ x[1] <= c[1] /\ c[1] <= t[x[1]].last /\ p[1] < c[1] /\ c[1] <= t[p[1]].last /\ x[1] # c[1]
  <2>1. x[1] <= c[1] /\ c[1] <= t[x[1]].last
    BY <1>2, <1>3, <1>5
  <2>2. p[1] < c[1] /\ c[1] <= t[p[1]].last
    <3>1. c[1] \in p[1] + 1 .. t[p[1]].last
      BY <1>1
    <3>2. p[1] \in Nat /\ c[1] \in Nat /\ t[p[1]].last \in Nat
      BY <1>2, <1>5
    <3> QED
      BY <3>1, <3>2
  <2> QED
    BY <1>2, <1>4, <1>5, <2>1, <2>2
\* x[1] is p[1] or around it: it is no node between p[1] and its child
<1>6. x[1] <= p[1]
  <2>1. SUFFICES ASSUME p[1] < x[1] PROVE FALSE
    BY <1>0
  <2>2. x[1] \in p[1] + 1 .. t[p[1]].last
    BY <1>0, <2>1
  <2>3. PICK j \in Has(t, p[1]) : x[1] \in t[p[1]].kids[j] .. t[t[p[1]].kids[j]].last
    BY <1>2, <2>2, NodeFacts
  <2>4. t[p[1]].kids[j] \in Numbers(t) /\ t[p[1]].kids[j] \in Nat
    <3>1. t[p[1]].kids[j] \in Numbers(t)
      BY <1>2, DepthOfKid
    <3> QED
      BY <3>1 DEF Numbers
  <2>5. t[x[1]].last <= t[t[p[1]].kids[j]].last /\ t[t[p[1]].kids[j]].last \in Nat
    BY <2>3, <2>4, NodeFacts
  <2>6. i \in Nat /\ j \in Nat
    BY DEF Has
  <2>7. ~(j < i)
    <3>1. j < i => t[t[p[1]].kids[j]].last < c[1]
      BY <1>1, <1>2, NodeFacts
    <3> QED
      BY <1>0, <2>5, <3>1
  <2>8. ~(i < j)
    <3>1. t[c[1]].last \in Nat /\ c[1] <= t[c[1]].last
      BY <1>2, NodeFacts
    <3>2. i < j => t[c[1]].last < t[p[1]].kids[j]
      BY <1>1, <1>2, NodeFacts
    <3> QED
      BY <1>0, <2>3, <2>4, <3>1, <3>2
  <2>9. i = j
    BY <2>6, <2>7, <2>8
  <2>10. c[1] <= x[1]
    BY <1>1, <2>3, <2>4, <2>9
  <2> QED
    BY <1>0, <2>10
<1>7. p[1] \in x[1] .. t[x[1]].last
  BY <1>0, <1>6
<1>8. Len(x[2]) <= Len(p[2])
  BY <1>2, <1>7, DepthGrows
<1>9. \A y \in 1 .. Len(x[2]) : p[2][y] = x[2][y]
  <2>1. \A y \in 1 .. Len(p[2]) : c[2][y] = p[2][y]
    BY <1>1 DEF Over
  <2> QED
    BY <1>2, <1>3, <1>8, <2>1
<1> QED
  BY <1>7, <1>8, <1>9 DEF Over

\* a path lies below one child
LEMMA OneKidAbove ==
    ASSUME NEW t, Tree(t), NEW n \in Numbers(t), NEW i \in Has(t, n), NEW j \in Has(t, n),
           NEW m, m \in t[n].kids[i] .. t[t[n].kids[i]].last, m \in t[n].kids[j] .. t[t[n].kids[j]].last
    PROVE  i = j
<1>1. t[n].kids[i] \in Numbers(t) /\ t[n].kids[j] \in Numbers(t)
  BY DepthOfKid
<1>2. t[n].kids[i] \in Nat /\ t[n].kids[j] \in Nat
      /\ t[t[n].kids[i]].last \in Nat /\ t[t[n].kids[j]].last \in Nat
  BY <1>1, NodeFacts
<1>5. m \in Nat /\ i \in Nat /\ j \in Nat
  BY <1>2 DEF Has
<1>3. i < j => t[t[n].kids[i]].last < t[n].kids[j]
  BY NodeFacts
<1>4. j < i => t[t[n].kids[j]].last < t[n].kids[i]
  BY NodeFacts
<1> QED
  BY <1>2, <1>3, <1>4, <1>5

\* nothing lies below a node without children
LEMMA LeafIsLast ==
    ASSUME NEW t, Tree(t), NEW p, InTree(t, p), Has(t, p[1]) = {}, NEW q, InTree(t, q), Over(t, p, q)
    PROVE  q = p
<1>1. /\ p[1] \in Numbers(t) /\ q[1] \in Numbers(t) /\ p[1] \in Nat /\ q[1] \in Nat
      /\ Len(p[2]) = DepthIn(t, p[1]) /\ Len(q[2]) = DepthIn(t, q[1])
      /\ p[2] \in Seq(Nat) /\ q[2] \in Seq(Nat)
      /\ p = <<p[1], p[2]>> /\ q = <<q[1], q[2]>>
  BY PathFacts
<1>2. q[1] \in p[1] .. t[p[1]].last /\ \A y \in 1 .. Len(p[2]) : q[2][y] = p[2][y]
  BY DEF Over
<1>3. q[1] \notin p[1] + 1 .. t[p[1]].last
  BY <1>1, NodeFacts
<1>4. t[p[1]].last \in Nat
  BY <1>1, NodeFacts
<1>5. q[1] = p[1]
  BY <1>1, <1>2, <1>3, <1>4
<1>6. Len(q[2]) = Len(p[2])
  BY <1>1, <1>5
<1>7. q[2] = p[2]
  BY <1>1, <1>2, <1>6, SameNumbers
<1> QED
  BY <1>1, <1>5, <1>7

\* two paths above each other are the same
LEMMA OverIsAntisymmetric ==
    ASSUME NEW t, Tree(t), NEW p, InTree(t, p), NEW q, InTree(t, q), Over(t, p, q), Over(t, q, p)
    PROVE  p = q
<1>1. /\ p[1] \in Nat /\ q[1] \in Nat /\ t[p[1]].last \in Nat /\ t[q[1]].last \in Nat
      /\ Len(p[2]) \in Nat /\ Len(q[2]) \in Nat
      /\ p[2] \in Seq(Nat) /\ q[2] \in Seq(Nat)
      /\ p = <<p[1], p[2]>> /\ q = <<q[1], q[2]>>
  BY PathFacts, NodeFacts
<1>2. p[1] = q[1] /\ Len(p[2]) = Len(q[2])
  BY <1>1 DEF Over
<1>3. \A y \in 1 .. Len(p[2]) : q[2][y] = p[2][y]
  BY DEF Over
<1>4. p[2] = q[2]
  BY <1>1, <1>2, <1>3, SameNumbers
<1> QED
  BY <1>1, <1>2, <1>4

-----------------------------------------------------------------------------
(* The goroutines of a walk: who waits for whom.                           *)

\* the frame p waits for its child i
Waits(t, a, p, i) ==
    IF t[p[1]].kind = "parallel" THEN a[p].at = 1 /\ a[p].outs[i] = "none" ELSE a[p].at = i
Counted(a) == \A p \in DOMAIN a : a[p].k \in Nat
Present(a, r) == DOMAIN a \cup DOMAIN r
\* of what is present, only p itself lies at or below p
Alone(t, a, R, p) == \A q \in DOMAIN a \cup R : Over(t, p, q) => q = p

\* what is above an active or returned path is active, and waits for it
Hanging(t, a, r) ==
    \A q \in Present(a, r) : \A p : InTree(t, p) /\ Over(t, p, q) /\ p # q =>
        /\ p \in DOMAIN a
        /\ \E i \in Has(t, p[1]) : Waits(t, a, p, i) /\ Over(t, Sub(t, p, i, a[p].k), q)
Struct(t, a, r) ==
    /\ DOMAIN a \cap DOMAIN r = {}
    /\ \A q \in Present(a, r) : InTree(t, q)
    /\ Hanging(t, a, r)

LEMMA ReturnedIsBare ==
    ASSUME NEW t, NEW a, NEW r, Struct(t, a, r), NEW c \in DOMAIN r, NEW q \in Present(a, r), Over(t, c, q)
    PROVE  q = c
BY DEF Struct, Hanging, Present

LEMMA AloneIfWaitingForNone ==
    ASSUME NEW t, NEW a, NEW r, Struct(t, a, r), NEW p \in DOMAIN a, \A i \in Has(t, p[1]) : ~Waits(t, a, p, i)
    PROVE  Alone(t, a, DOMAIN r, p)
BY DEF Struct, Hanging, Present, Alone

\* once the child that returned is taken, nothing is left below p
LEMMA AloneBehindCallee ==
    ASSUME NEW t, NEW a, NEW r, Struct(t, a, r), NEW p \in DOMAIN a, t[p[1]].kind # "parallel",
           NEW c \in DOMAIN r, c = Sub(t, p, a[p].at, a[p].k)
    PROVE  Alone(t, a, DOMAIN r \ {c}, p)
<1>1. SUFFICES ASSUME NEW q \in DOMAIN a \cup (DOMAIN r \ {c}), Over(t, p, q), q # p
               PROVE  FALSE
  BY DEF Alone
<1>2. q \in Present(a, r) /\ InTree(t, p)
  BY DEF Present, Struct
<1>3. PICK i \in Has(t, p[1]) : Waits(t, a, p, i) /\ Over(t, Sub(t, p, i, a[p].k), q)
  BY <1>1, <1>2 DEF Struct, Hanging
<1>4. Over(t, c, q)
  BY <1>3 DEF Waits
<1>5. q = c
  BY <1>2, <1>4, ReturnedIsBare
<1> QED
  BY <1>1, <1>5 DEF Struct

LEMMA CallKeepsStruct ==
    ASSUME NEW t, Tree(t), NEW a, NEW r, Struct(t, a, r), Counted(a),
           NEW p \in DOMAIN a, t[p[1]].kind # "parallel", NEW i \in Has(t, p[1]), NEW k \in Nat,
           NEW r2, DOMAIN r2 \subseteq DOMAIN r, Alone(t, a, DOMAIN r2, p),
           NEW c, c = Sub(t, p, i, k),
           NEW a2, DOMAIN a2 = DOMAIN a \cup {c},
           a2[p].at = i, a2[p].k = k, \A q \in DOMAIN a \ {p} : a2[q] = a[q]
    PROVE  Struct(t, a2, r2)
<1>1. InTree(t, p)
  BY DEF Struct, Present
<1>2. InTree(t, c) /\ Over(t, p, c) /\ c # p
  BY <1>1, SubIsBelow, SubIsOther
<1>3. c \notin DOMAIN r2 /\ c \notin DOMAIN a
  BY <1>2 DEF Alone
<1>4. Over(t, c, c)
  BY <1>2, OverItself
<1>5. \A q \in Present(a2, r2) : InTree(t, q)
  BY <1>2 DEF Struct, Present
<1>6. DOMAIN a2 \cap DOMAIN r2 = {}
  BY <1>3 DEF Struct
<1>7. ASSUME NEW q \in Present(a2, r2), NEW x, InTree(t, x), Over(t, x, q), x # q
      PROVE  /\ x \in DOMAIN a2
             /\ \E j \in Has(t, x[1]) : Waits(t, a2, x, j) /\ Over(t, Sub(t, x, j, a2[x].k), q)
  <2>1. CASE q # c
    <3>1. q \in DOMAIN a \cup DOMAIN r2 /\ q \in Present(a, r)
      BY <2>1 DEF Present
    <3>2. x \in DOMAIN a /\ \E j \in Has(t, x[1]) : Waits(t, a, x, j) /\ Over(t, Sub(t, x, j, a[x].k), q)
      BY <1>7, <3>1 DEF Struct, Hanging
    <3>3. x # p
      BY <1>7, <3>1 DEF Alone
    <3>4. a2[x] = a[x] /\ x \in DOMAIN a2
      BY <3>2, <3>3
    <3> QED
      BY <3>2, <3>4 DEF Waits
  <2>2. CASE q = c /\ x = p
    <3>1. p \in DOMAIN a2 /\ Waits(t, a2, p, i)
      BY DEF Waits
    <3> QED
      BY <1>4, <2>2, <3>1
  <2>3. CASE q = c /\ x # p
    <3>1. Over(t, x, p)
      BY <1>1, <1>7, <2>3, OverSub
    <3>2. p \in Present(a, r)
      BY DEF Present
    <3>3. x \in DOMAIN a
      BY <1>7, <2>3, <3>1, <3>2 DEF Struct, Hanging
    <3>4. PICK j \in Has(t, x[1]) : Waits(t, a, x, j) /\ Over(t, Sub(t, x, j, a[x].k), p)
      BY <1>7, <2>3, <3>1, <3>2 DEF Struct, Hanging
    <3>5. InTree(t, Sub(t, x, j, a[x].k))
      BY <1>7, <3>3, SubIsBelow DEF Counted
    <3>6. Over(t, Sub(t, x, j, a[x].k), c)
      BY <1>1, <1>2, <3>4, <3>5, OverIsTransitive
    <3>7. a2[x] = a[x] /\ x \in DOMAIN a2
      BY <2>3, <3>3
    <3> QED
      BY <2>3, <3>4, <3>6, <3>7 DEF Waits
  <2> QED
    BY <2>1, <2>2, <2>3
<1> QED
  BY <1>5, <1>6, <1>7 DEF Struct, Hanging

LEMMA ReturnKeepsStruct ==
    ASSUME NEW t, NEW a, NEW r, Struct(t, a, r), NEW p \in DOMAIN a,
           NEW R, R \subseteq DOMAIN r, Alone(t, a, R, p),
           NEW a2, DOMAIN a2 = DOMAIN a \ {p}, \A q \in DOMAIN a \ {p} : a2[q] = a[q],
           NEW r2, DOMAIN r2 = R \cup {p}
    PROVE  Struct(t, a2, r2)
<1>1. \A q \in Present(a2, r2) : q \in Present(a, r) /\ q \in DOMAIN a \cup R
  BY DEF Present
<1>2. \A q \in Present(a2, r2) : InTree(t, q)
  BY <1>1 DEF Struct
<1>3. DOMAIN a2 \cap DOMAIN r2 = {}
  BY DEF Struct
<1>4. ASSUME NEW q \in Present(a2, r2), NEW x, InTree(t, x), Over(t, x, q), x # q
      PROVE  /\ x \in DOMAIN a2
             /\ \E j \in Has(t, x[1]) : Waits(t, a2, x, j) /\ Over(t, Sub(t, x, j, a2[x].k), q)
  <2>1. x \in DOMAIN a /\ \E j \in Has(t, x[1]) : Waits(t, a, x, j) /\ Over(t, Sub(t, x, j, a[x].k), q)
    BY <1>1, <1>4 DEF Struct, Hanging
  <2>2. x # p
    BY <1>1, <1>4 DEF Alone
  <2>3. a2[x] = a[x] /\ x \in DOMAIN a2
    BY <2>1, <2>2
  <2> QED
    BY <2>1, <2>3 DEF Waits
<1> QED
  BY <1>2, <1>3, <1>4 DEF Struct, Hanging

\* p goes on without calling anybody
LEMMA EditKeepsStruct ==
    ASSUME NEW t, NEW a, NEW r, Struct(t, a, r), NEW p \in DOMAIN a,
           NEW a2, DOMAIN a2 = DOMAIN a, \A q \in DOMAIN a \ {p} : a2[q] = a[q],
           NEW r2, DOMAIN r2 \subseteq DOMAIN r,
           \A q \in DOMAIN a \cup DOMAIN r2 : Over(t, p, q) /\ q # p =>
               \E i \in Has(t, p[1]) : Waits(t, a2, p, i) /\ Over(t, Sub(t, p, i, a2[p].k), q)
    PROVE  Struct(t, a2, r2)
<1>1. \A q \in Present(a2, r2) : q \in Present(a, r) /\ q \in DOMAIN a \cup DOMAIN r2
  BY DEF Present
<1>2. \A q \in Present(a2, r2) : InTree(t, q)
  BY <1>1 DEF Struct
<1>3. DOMAIN a2 \cap DOMAIN r2 = {}
  BY DEF Struct
<1>4. ASSUME NEW q \in Present(a2, r2), NEW x, InTree(t, x), Over(t, x, q), x # q
      PROVE  /\ x \in DOMAIN a2
             /\ \E j \in Has(t, x[1]) : Waits(t, a2, x, j) /\ Over(t, Sub(t, x, j, a2[x].k), q)
  <2>1. x \in DOMAIN a /\ \E j \in Has(t, x[1]) : Waits(t, a, x, j) /\ Over(t, Sub(t, x, j, a[x].k), q)
    BY <1>1, <1>4 DEF Struct, Hanging
  <2>2. CASE x = p
    BY <1>1, <1>4, <2>2
  <2>3. CASE x # p
    <3>1. a2[x] = a[x] /\ x \in DOMAIN a2
      BY <2>1, <2>3
    <3> QED
      BY <2>1, <3>1 DEF Waits
  <2> QED
    BY <2>2, <2>3
<1> QED
  BY <1>2, <1>3, <1>4 DEF Struct, Hanging

LEMMA ForkKeepsStruct ==
    ASSUME NEW t, Tree(t), NEW a, NEW r, Struct(t, a, r), Counted(a),
           NEW p \in DOMAIN a, t[p[1]].kind = "parallel", Alone(t, a, DOMAIN r, p),
           NEW a2, DOMAIN a2 = DOMAIN a \cup {Sub(t, p, i, 0) : i \in Has(t, p[1])},
           \A q \in DOMAIN a \ {p} : a2[q] = a[q],
           a2[p].at = 1, \A i \in Has(t, p[1]) : a2[p].outs[i] = "none"
    PROVE  Struct(t, a2, r)
<1> DEFINE Branch(i) == Sub(t, p, i, 0)
<1>1. InTree(t, p) /\ ~Rounded(t, p[1])
  BY DEF Struct, Present, Rounded
<1>2. ASSUME NEW i \in Has(t, p[1])
      PROVE  InTree(t, Branch(i)) /\ Over(t, p, Branch(i)) /\ Branch(i) # p
  <2> DEFINE c == Branch(i)
  <2>1. InTree(t, c) /\ Over(t, p, c)
    BY <1>1, SubIsBelow
  <2>2. c # p
    BY <1>1, SubIsOther
  <2> QED
    BY <2>1, <2>2
<1>3. \A i \in Has(t, p[1]) : Branch(i) \notin DOMAIN r /\ Branch(i) \notin DOMAIN a
  BY <1>2 DEF Alone
<1>4. \A i \in Has(t, p[1]) : Over(t, Branch(i), Branch(i)) /\ Sub(t, p, i, a2[p].k) = Branch(i)
  BY <1>1, <1>2, OverItself DEF Sub
<1>5. \A q \in Present(a2, r) : InTree(t, q)
  BY <1>2 DEF Struct, Present
<1>6. DOMAIN a2 \cap DOMAIN r = {}
  BY <1>3 DEF Struct
<1>7. ASSUME NEW q \in Present(a2, r), NEW x, InTree(t, x), Over(t, x, q), x # q
      PROVE  /\ x \in DOMAIN a2
             /\ \E j \in Has(t, x[1]) : Waits(t, a2, x, j) /\ Over(t, Sub(t, x, j, a2[x].k), q)
  <2>1. CASE q \in Present(a, r)
    <3>1. q \in DOMAIN a \cup DOMAIN r
      BY <2>1 DEF Present
    <3>2. x \in DOMAIN a /\ \E j \in Has(t, x[1]) : Waits(t, a, x, j) /\ Over(t, Sub(t, x, j, a[x].k), q)
      BY <1>7, <2>1 DEF Struct, Hanging
    <3>3. x # p
      BY <1>7, <3>1 DEF Alone
    <3>4. a2[x] = a[x] /\ x \in DOMAIN a2
      BY <3>2, <3>3
    <3> QED
      BY <3>2, <3>4 DEF Waits
  <2>2. CASE q \notin Present(a, r)
    <3>1. PICK i \in Has(t, p[1]) : q = Branch(i)
      BY <2>2 DEF Present
    <3>2. CASE x = p
      <4>1. p \in DOMAIN a2 /\ Waits(t, a2, p, i)
        BY DEF Waits
      <4> QED
        BY <1>4, <3>1, <3>2, <4>1
    <3>3. CASE x # p
      <4>1. Over(t, x, p)
        BY <1>1, <1>7, <3>1, OverSub
      <4>2. p \in Present(a, r)
        BY DEF Present
      <4>3. x \in DOMAIN a
        BY <1>7, <3>3, <4>1, <4>2 DEF Struct, Hanging
      <4>4. PICK j \in Has(t, x[1]) : Waits(t, a, x, j) /\ Over(t, Sub(t, x, j, a[x].k), p)
        BY <1>7, <3>3, <4>1, <4>2 DEF Struct, Hanging
      <4>5. InTree(t, Sub(t, x, j, a[x].k))
        BY <1>7, <4>3, SubIsBelow DEF Counted
      <4>6. Over(t, Sub(t, x, j, a[x].k), Branch(i))
        BY <1>1, <1>2, <4>4, <4>5, OverIsTransitive
      <4>7. a2[x] = a[x] /\ x \in DOMAIN a2
        BY <3>3, <4>3
      <4> QED
        BY <3>1, <4>4, <4>6, <4>7 DEF Waits
    <3> QED
      BY <3>2, <3>3
  <2> QED
    BY <2>1, <2>2
<1> QED
  BY <1>5, <1>6, <1>7 DEF Struct, Hanging

-----------------------------------------------------------------------------
(* The log: what each event says of those before it.                       *)

EventTypes == {"node.completed", "node.failed", "node.skipped", "branch.taken",
               "loop.iter", "gate.passed", "gate.rejected"}
LogEvent(t) == [type : EventTypes, path : (Numbers(t) \cup {0}) \X Seq(Nat), n : Nat]
\* the events that a later driver looks for
Loud == {"node.completed", "branch.taken"} \cup RoundTypes

CommitAt(l, j, p) == l[j].type = "node.completed" /\ l[j].path = p
BranchAt(l, j, p) == l[j].type = "branch.taken" /\ l[j].path = p
\* the rounds of p among the first n events
RoundsIn(l, p, n) == {j \in 1 .. n : l[j].type \in RoundTypes /\ l[j].path = p}

\* the number of a path in the loop or gate p above it
RoundOf(p, q) == q[2][Len(p[2]) + 1]
LeadsTo(t, p, w, q) == t[p[1]].kids[w] <= q[1] /\ q[1] <= t[t[p[1]].kids[w]].last

CommitOK(t, l, i) ==
    l[i].type = "node.completed" =>
        LET q == l[i].path
        IN  /\ InTree(t, q) /\ t[q[1]].kind = "step"
            /\ \A j \in 1 .. i - 1 : ~CommitAt(l, j, q)
            /\ \A p : InTree(t, p) /\ t[p[1]].kind = "if" /\ Over(t, p, q) =>
                  \A w \in 1 .. 2 : LeadsTo(t, p, w, q) =>
                      \E j \in 1 .. i - 1 : BranchAt(l, j, p) /\ l[j].n = w
            /\ \A p : InTree(t, p) /\ Rounded(t, p[1]) /\ Over(t, p, q) /\ Len(q[2]) > Len(p[2]) =>
                  /\ RoundOf(p, q) >= 2 =>
                        \E j \in 1 .. i - 1 : j \in RoundsIn(l, p, i - 1) /\ l[j].n = RoundOf(p, q) - 1
                  /\ \A j \in RoundsIn(l, p, i - 1) : l[j].n # RoundOf(p, q)
BranchOK(t, l, i) ==
    l[i].type = "branch.taken" =>
        /\ InTree(t, l[i].path) /\ t[l[i].path[1]].kind = "if" /\ l[i].n \in 1 .. 2
        /\ \A j \in 1 .. i - 1 : ~BranchAt(l, j, l[i].path)
RoundOK(t, l, i) ==
    l[i].type \in RoundTypes =>
        LET p == l[i].path
        IN  /\ InTree(t, p)
            /\ t[p[1]].kind = IF l[i].type = "loop.iter" THEN "loop" ELSE "gate"
            /\ l[i].n = Cardinality(RoundsIn(l, p, i))
            /\ l[i].type # "loop.iter" => l[i].n <= t[p[1]].max
            /\ \A j \in RoundsIn(l, p, i - 1) : l[j].type # "gate.passed"
EntryOK(t, l, i) == CommitOK(t, l, i) /\ BranchOK(t, l, i) /\ RoundOK(t, l, i)
LogOK(t, l) ==
    /\ l \in Seq(LogEvent(t))
    /\ \A i \in 1 .. Len(l) : EntryOK(t, l, i)

\* an entry depends on what is before it only
LEMMA EntryKept ==
    ASSUME NEW t, NEW l, NEW l2, NEW i \in Nat, \A j \in 1 .. i : l2[j] = l[j], i >= 1, EntryOK(t, l, i)
    PROVE  EntryOK(t, l2, i)
<1>1. l2[i] = l[i] /\ \A j \in 1 .. i - 1 : l2[j] = l[j]
  OBVIOUS
<1>2. \A p : RoundsIn(l2, p, i) = RoundsIn(l, p, i) /\ RoundsIn(l2, p, i - 1) = RoundsIn(l, p, i - 1)
  BY <1>1 DEF RoundsIn
<1>3. \A p : \A j \in RoundsIn(l, p, i - 1) : l2[j] = l[j]
  BY <1>1 DEF RoundsIn
<1>4. CommitOK(t, l2, i)
  <2>1. SUFFICES ASSUME l2[i].type = "node.completed"
                 PROVE  CommitOK(t, l2, i)
    BY DEF CommitOK
  <2> DEFINE q == l[i].path
  <2>2. /\ InTree(t, q) /\ t[q[1]].kind = "step"
        /\ \A j \in 1 .. i - 1 : ~CommitAt(l, j, q)
        /\ \A p : InTree(t, p) /\ t[p[1]].kind = "if" /\ Over(t, p, q) =>
              \A w \in 1 .. 2 : LeadsTo(t, p, w, q) =>
                  \E j \in 1 .. i - 1 : BranchAt(l, j, p) /\ l[j].n = w
        /\ \A p : InTree(t, p) /\ Rounded(t, p[1]) /\ Over(t, p, q) /\ Len(q[2]) > Len(p[2]) =>
              /\ RoundOf(p, q) >= 2 =>
                    \E j \in 1 .. i - 1 : j \in RoundsIn(l, p, i - 1) /\ l[j].n = RoundOf(p, q) - 1
              /\ \A j \in RoundsIn(l, p, i - 1) : l[j].n # RoundOf(p, q)
    BY <1>1, <2>1 DEF EntryOK, CommitOK
  <2> HIDE DEF q
  <2>3. \A j \in 1 .. i - 1 : ~CommitAt(l2, j, q)
    BY <1>1, <2>2 DEF CommitAt
  <2>4. \A p : InTree(t, p) /\ t[p[1]].kind = "if" /\ Over(t, p, q) =>
           \A w \in 1 .. 2 : LeadsTo(t, p, w, q) =>
               \E j \in 1 .. i - 1 : BranchAt(l2, j, p) /\ l2[j].n = w
    BY <1>1, <2>2 DEF BranchAt
  <2>5. \A p : InTree(t, p) /\ Rounded(t, p[1]) /\ Over(t, p, q) /\ Len(q[2]) > Len(p[2]) =>
              /\ RoundOf(p, q) >= 2 =>
                    \E j \in 1 .. i - 1 : j \in RoundsIn(l2, p, i - 1) /\ l2[j].n = RoundOf(p, q) - 1
              /\ \A j \in RoundsIn(l2, p, i - 1) : l2[j].n # RoundOf(p, q)
    BY <1>1, <1>2, <1>3, <2>2
  <2>6. l2[i].path = q
    BY <1>1 DEF q
  <2> QED
    BY <2>2, <2>3, <2>4, <2>5, <2>6 DEF CommitOK
<1>5. BranchOK(t, l2, i)
  BY <1>1 DEF EntryOK, BranchOK, BranchAt
<1>6. RoundOK(t, l2, i)
  BY <1>1, <1>2, <1>3 DEF EntryOK, RoundOK
<1> QED
  BY <1>4, <1>5, <1>6 DEF EntryOK

Grows(l, l2) == Len(l) <= Len(l2) /\ \A j \in 1 .. Len(l) : l2[j] = l[j]
New(l, l2) == Len(l) + 1 .. Len(l2)

LEMMA LogGrows ==
    ASSUME NEW t, NEW l, LogOK(t, l), NEW l2, l2 \in Seq(LogEvent(t)), Grows(l, l2),
           \A i \in New(l, l2) : l2[i].type \in Loud => EntryOK(t, l2, i)
    PROVE  LogOK(t, l2)
<1>1. Len(l) \in Nat /\ Len(l2) \in Nat
  BY DEF LogOK
<1>2. ASSUME NEW i \in 1 .. Len(l2)
      PROVE  EntryOK(t, l2, i)
  <2>1. CASE i <= Len(l)
    <3>1. i \in Nat /\ i >= 1 /\ i \in 1 .. Len(l) /\ \A j \in 1 .. i : l2[j] = l[j]
      BY <1>1, <2>1 DEF Grows
    <3>2. EntryOK(t, l, i)
      BY <3>1 DEF LogOK
    <3> QED
      BY <3>1, <3>2, EntryKept
  <2>2. CASE i > Len(l) /\ l2[i].type \in Loud
    BY <1>1, <2>2 DEF New
  <2>3. CASE l2[i].type \notin Loud
    BY <2>3 DEF Loud, EntryOK, CommitOK, BranchOK, RoundOK
  <2> QED
    BY <1>1, <2>1, <2>2, <2>3
<1> QED
  BY <1>2 DEF LogOK

\* a crash may cut the log
LEMMA LogCut ==
    ASSUME NEW t, NEW l, LogOK(t, l), NEW n \in 0 .. Len(l)
    PROVE  LogOK(t, SubSeq(l, 1, n)) /\ Len(SubSeq(l, 1, n)) = n
<1> DEFINE l2 == SubSeq(l, 1, n)
<1>1. l2 \in Seq(LogEvent(t)) /\ Len(l2) = n /\ \A j \in 1 .. n : l2[j] = l[j]
  BY DEF LogOK
<1> HIDE DEF l2
<1>2. ASSUME NEW i \in 1 .. Len(l2)
      PROVE  EntryOK(t, l2, i)
  <2>1. i \in Nat /\ i >= 1 /\ i \in 1 .. Len(l) /\ \A j \in 1 .. i : l2[j] = l[j]
    BY <1>1 DEF LogOK
  <2>2. EntryOK(t, l, i)
    BY <2>1 DEF LogOK
  <2> QED
    BY <2>1, <2>2, EntryKept
<1> QED
  BY <1>1, <1>2 DEF LogOK, l2

-----------------------------------------------------------------------------
(* The numbers of the rounds.                                              *)

LEMMA GreatestExists ==
    ASSUME NEW n \in Nat, NEW S \in SUBSET (1 .. n), S # {}
    PROVE  \E i \in S : \A j \in S : j <= i
<1> DEFINE T == {n - i : i \in S}
           R == OpToRel(<, Nat)
<1>1. T \in SUBSET Nat /\ T # {}
  <2>1. \A i \in S : i \in 1 .. n /\ n - i \in Nat
    OBVIOUS
  <2> QED
    BY <2>1
<1>2. \A x, y \in Nat : <<x, y>> \in R <=> x < y
  BY DEF OpToRel
<1>3. IsWellFoundedOn(R, Nat)
  BY NatLessThanWellFounded
<1> HIDE DEF R
<1>4. PICK x \in T : \A y \in T : ~(<<y, x>> \in R)
  BY <1>1, <1>3, WFMin
<1>5. PICK i \in S : x = n - i
  BY <1>4
<1>6. ASSUME NEW j \in S
      PROVE  j <= i
  <2>1. ~(n - j < n - i)
    BY <1>1, <1>2, <1>4, <1>5
  <2> QED
    BY <2>1
<1> QED
  BY <1>6

LEMMA RoundsAreFinite ==
    ASSUME NEW l, NEW p, NEW n \in Nat
    PROVE  IsFiniteSet(RoundsIn(l, p, n)) /\ Cardinality(RoundsIn(l, p, n)) \in Nat
<1>1. IsFiniteSet(1 .. n) /\ RoundsIn(l, p, n) \in SUBSET (1 .. n)
  BY FS_Interval DEF RoundsIn
<1>2. IsFiniteSet(RoundsIn(l, p, n))
  BY <1>1, FS_Subset
<1> QED
  BY <1>2, FS_CardinalityType

\* the rounds of one path are numbered from 1 on, in the order of the log
LEMMA RoundsAreNumbered ==
    ASSUME NEW t, NEW l, LogOK(t, l), NEW p
    PROVE  /\ \A i \in RoundsIn(l, p, Len(l)) : l[i].n \in 1 .. Cardinality(RoundsIn(l, p, Len(l)))
           /\ \A i, j \in RoundsIn(l, p, Len(l)) : i < j => l[i].n < l[j].n /\ l[i].type # "gate.passed"
           /\ RoundsIn(l, p, Len(l)) # {} =>
                 \E i \in RoundsIn(l, p, Len(l)) : /\ l[i].n = Cardinality(RoundsIn(l, p, Len(l)))
                                                   /\ \A j \in RoundsIn(l, p, Len(l)) : j <= i
<1> DEFINE S == RoundsIn(l, p, Len(l))
           Upto(i) == RoundsIn(l, p, i)
<1>1. Len(l) \in Nat
  BY DEF LogOK
<1>2. \A i \in S : /\ i \in 1 .. Len(l) /\ i \in Nat /\ l[i].path = p /\ l[i].type \in RoundTypes
                   /\ RoundOK(t, l, i)
  BY <1>1 DEF RoundsIn, LogOK, EntryOK
<1>3. \A i \in S : /\ l[i].n = Cardinality(Upto(i)) /\ Upto(i) \subseteq S /\ i \in Upto(i)
                   /\ \A j \in RoundsIn(l, p, i - 1) : l[j].type # "gate.passed"
  <2>1. SUFFICES ASSUME NEW i \in S
                 PROVE  /\ l[i].n = Cardinality(Upto(i)) /\ Upto(i) \subseteq S /\ i \in Upto(i)
                        /\ \A j \in RoundsIn(l, p, i - 1) : l[j].type # "gate.passed"
    OBVIOUS
  <2>2. l[i].n = Cardinality(Upto(i)) /\ \A j \in RoundsIn(l, p, i - 1) : l[j].type # "gate.passed"
    BY <1>2 DEF RoundOK
  <2>3. Upto(i) \subseteq S /\ i \in Upto(i)
    BY <1>1, <1>2 DEF RoundsIn
  <2> QED
    BY <2>2, <2>3
<1>4. IsFiniteSet(S) /\ Cardinality(S) \in Nat
  BY <1>1, RoundsAreFinite
<1>5. \A i \in S : IsFiniteSet(Upto(i)) /\ Cardinality(Upto(i)) \in Nat
  BY <1>2, RoundsAreFinite
<1>6. ASSUME NEW i \in S
      PROVE  l[i].n \in 1 .. Cardinality(S)
  <2>1. Cardinality(Upto(i)) <= Cardinality(S)
    BY <1>3, <1>4, FS_Subset
  <2>2. Cardinality(Upto(i)) # 0
    BY <1>3, <1>5, FS_EmptySet
  <2> QED
    BY <1>3, <1>4, <1>5, <2>1, <2>2
<1>7. ASSUME NEW i \in S, NEW j \in S, i < j
      PROVE  l[i].n < l[j].n /\ l[i].type # "gate.passed"
  <2>1. Upto(i) \subseteq Upto(j) /\ j \in Upto(j) /\ j \notin Upto(i) /\ i \in RoundsIn(l, p, j - 1)
    BY <1>2, <1>7 DEF RoundsIn
  <2>2. Cardinality(Upto(i)) <= Cardinality(Upto(j)) /\ Cardinality(Upto(i)) # Cardinality(Upto(j))
    BY <1>5, <2>1, FS_Subset
  <2> QED
    BY <1>3, <1>5, <2>1, <2>2
<1>8. ASSUME S # {}
      PROVE  \E i \in S : l[i].n = Cardinality(S) /\ \A j \in S : j <= i
  <2>1. S \in SUBSET (1 .. Len(l))
    BY DEF RoundsIn
  <2>2. PICK i \in S : \A j \in S : j <= i
    BY <1>1, <1>8, <2>1, GreatestExists
  <2>3. Upto(i) = S
    BY <1>1, <2>1, <2>2, <1>2 DEF RoundsIn
  <2> QED
    BY <1>3, <2>2, <2>3
<1> QED
  BY <1>6, <1>7, <1>8

-----------------------------------------------------------------------------
(* What an active frame at q knows of the log.                             *)

Knows(t, q, at, k, l) ==
    /\ t[q[1]].kind = "step" /\ at = 1 => \A j \in 1 .. Len(l) : ~CommitAt(l, j, q)
    /\ t[q[1]].kind = "if" /\ at > 0 => \E j \in 1 .. Len(l) : BranchAt(l, j, q) /\ l[j].n = at
    /\ Rounded(t, q[1]) /\ at > 0 => k = Cardinality(RoundsIn(l, q, Len(l))) + 1
    /\ t[q[1]].kind = "gate" /\ at > 0 =>
          /\ k <= t[q[1]].max
          /\ \A j \in RoundsIn(l, q, Len(l)) : l[j].type # "gate.passed"
Remembers(t, q, f, l) == Knows(t, q, f.at, f.k, l)
Remembering(t, a, l) == \A q \in DOMAIN a : Remembers(t, q, a[q], l)

\* the events of others do not concern it
LEMMA OthersDoNotMatter ==
    ASSUME NEW t, NEW q, NEW f, NEW l, Len(l) \in Nat, NEW l2, Len(l2) \in Nat, Grows(l, l2),
           \A i \in New(l, l2) : l2[i].path = q => l2[i].type \notin Loud,
           Remembers(t, q, f, l)
    PROVE  Remembers(t, q, f, l2)
<1>1. RoundsIn(l2, q, Len(l2)) = RoundsIn(l, q, Len(l))
  BY DEF RoundsIn, Grows, New, Loud
<1>2. \A j \in RoundsIn(l, q, Len(l)) : l2[j] = l[j]
  BY DEF RoundsIn, Grows
<1>3. (\A j \in 1 .. Len(l) : ~CommitAt(l, j, q)) => \A j \in 1 .. Len(l2) : ~CommitAt(l2, j, q)
  BY DEF CommitAt, Grows, New, Loud
<1>4. \A n : (\E j \in 1 .. Len(l) : BranchAt(l, j, q) /\ l[j].n = n)
               => \E j \in 1 .. Len(l2) : BranchAt(l2, j, q) /\ l2[j].n = n
  BY DEF BranchAt, Grows
<1> QED
  BY <1>1, <1>2, <1>3, <1>4 DEF Remembers, Knows

\* a step commits: nothing of it is committed, the ifs above it have recorded
\* its branch, and the rounds above it are not closed
LEMMA NewCommitOK ==
    ASSUME NEW t, Tree(t), NEW a, NEW r, Struct(t, a, r), Counted(a), NEW l, LogOK(t, l), Remembering(t, a, l),
           NEW p \in DOMAIN a, t[p[1]].kind = "step", a[p].at = 1,
           NEW l2, Grows(l, l2), Len(l2) = Len(l) + 1,
           l2[Len(l2)].type = "node.completed", l2[Len(l2)].path = p
    PROVE  EntryOK(t, l2, Len(l2))
<1> DEFINE n == Len(l2)
<1>1. Len(l) \in Nat /\ n - 1 = Len(l) /\ n \in Nat /\ InTree(t, p) /\ p \in Present(a, r) /\ p[1] \in Numbers(t)
  BY DEF LogOK, Struct, Present, InTree
<1>2. \A j \in 1 .. n - 1 : l2[j] = l[j]
  BY <1>1 DEF Grows
<1> HIDE DEF n
<1>3. \A j \in 1 .. n - 1 : ~CommitAt(l2, j, p)
  BY <1>1, <1>2 DEF Remembering, Remembers, Knows, CommitAt
<1>4. ASSUME NEW x, InTree(t, x), Over(t, x, p), x # p, t[x[1]].kind # "parallel"
      PROVE  /\ x \in DOMAIN a /\ a[x].k \in Nat /\ x[1] \in Numbers(t)
             /\ a[x].at \in Has(t, x[1]) /\ Over(t, Sub(t, x, a[x].at, a[x].k), p)
  BY <1>1, <1>4 DEF Struct, Hanging, Waits, Counted, InTree
<1>5. ASSUME NEW x, InTree(t, x), t[x[1]].kind = "if", Over(t, x, p), NEW w \in 1 .. 2, LeadsTo(t, x, w, p)
      PROVE  \E j \in 1 .. n - 1 : BranchAt(l2, j, x) /\ l2[j].n = w
  <2>1. /\ x \in DOMAIN a /\ a[x].k \in Nat /\ x[1] \in Numbers(t)
        /\ a[x].at \in Has(t, x[1]) /\ Over(t, Sub(t, x, a[x].at, a[x].k), p)
    BY <1>4, <1>5
  <2>2. w \in Has(t, x[1])
    BY <1>5, <2>1 DEF Tree, Arity, Has, Numbers
  <2>3. p[1] \in t[x[1]].kids[a[x].at] .. t[t[x[1]].kids[a[x].at]].last
    BY <2>1 DEF Over, Sub
  <2>4. t[x[1]].kids[w] \in Numbers(t)
    BY <2>1, <2>2, DepthOfKid
  <2>5. t[x[1]].kids[w] \in Nat /\ t[t[x[1]].kids[w]].last \in Nat /\ p[1] \in Nat
    BY <1>1, <2>4, NodeFacts
  <2>6. p[1] \in t[x[1]].kids[w] .. t[t[x[1]].kids[w]].last
    BY <1>5, <2>5 DEF LeadsTo
  <2>7. a[x].at = w
    BY <2>1, <2>2, <2>3, <2>6, OneKidAbove
  <2>8. \E j \in 1 .. Len(l) : BranchAt(l, j, x) /\ l[j].n = w
    BY <1>5, <2>1, <2>7 DEF Remembering, Remembers, Knows
  <2> QED
    BY <1>1, <1>2, <2>8 DEF BranchAt
<1>6. ASSUME NEW x, InTree(t, x), Rounded(t, x[1]), Over(t, x, p)
      PROVE  /\ RoundOf(x, p) >= 2 =>
                    \E j \in 1 .. n - 1 : j \in RoundsIn(l2, x, n - 1) /\ l2[j].n = RoundOf(x, p) - 1
             /\ \A j \in RoundsIn(l2, x, n - 1) : l2[j].n # RoundOf(x, p)
  <2> DEFINE S == RoundsIn(l, x, Len(l))
  <2>1. /\ x \in DOMAIN a /\ a[x].k \in Nat /\ a[x].at \in Has(t, x[1])
        /\ Over(t, Sub(t, x, a[x].at, a[x].k), p)
    BY <1>4, <1>6 DEF Rounded
  <2>2. RoundOf(x, p) = a[x].k
    <3> DEFINE c == Sub(t, x, a[x].at, a[x].k)
    <3>0. c[2] = Append(x[2], a[x].k) /\ x[2] \in Seq(Nat) /\ a[x].k \in Nat
      BY <1>6, <2>1, PathFacts DEF Sub
    <3>1. c[2][Len(x[2]) + 1] = a[x].k /\ Len(c[2]) = Len(x[2]) + 1 /\ Len(x[2]) \in Nat
      BY <3>0
    <3>2. \A y \in 1 .. Len(c[2]) : p[2][y] = c[2][y]
      BY <2>1 DEF Over
    <3> HIDE DEF c
    <3>3. Len(x[2]) + 1 \in 1 .. Len(c[2])
      BY <3>1
    <3> QED
      BY <3>1, <3>2, <3>3 DEF RoundOf
  <2>3. a[x].k = Cardinality(S) + 1
    BY <1>6, <2>1 DEF Remembering, Remembers, Knows, Has
  <2>4. RoundsIn(l2, x, n - 1) = S /\ \A j \in S : l2[j] = l[j] /\ j \in 1 .. n - 1
    BY <1>1, <1>2 DEF RoundsIn
  <2>5. /\ \A i \in S : l[i].n \in 1 .. Cardinality(S)
        /\ S # {} => \E i \in S : l[i].n = Cardinality(S)
    BY RoundsAreNumbered
  <2>6. Cardinality(S) \in Nat /\ (S = {} => Cardinality(S) = 0)
    BY <1>1, RoundsAreFinite, FS_EmptySet
  <2> HIDE DEF S
  <2>7. RoundOf(x, p) >= 2 => S # {} /\ RoundOf(x, p) - 1 = Cardinality(S)
    BY <2>2, <2>3, <2>6
  <2> QED
    BY <2>2, <2>3, <2>4, <2>5, <2>6, <2>7
<1>7. l2[n].type = "node.completed" /\ l2[n].path = p
  BY DEF n
<1>8. CommitOK(t, l2, n)
  BY <1>1, <1>3, <1>5, <1>6, <1>7 DEF CommitOK
<1> QED
  BY <1>7, <1>8 DEF EntryOK, BranchOK, RoundOK, RoundTypes, n

LEMMA NewBranchOK ==
    ASSUME NEW t, NEW l, LogOK(t, l), NEW p, InTree(t, p), t[p[1]].kind = "if",
           \A j \in 1 .. Len(l) : ~BranchAt(l, j, p),
           NEW l2, Grows(l, l2), Len(l2) = Len(l) + 1,
           l2[Len(l2)].type = "branch.taken", l2[Len(l2)].path = p, l2[Len(l2)].n \in 1 .. 2
    PROVE  EntryOK(t, l2, Len(l2))
<1>1. \A j \in 1 .. Len(l2) - 1 : ~BranchAt(l2, j, p)
  BY DEF LogOK, Grows, BranchAt
<1> QED
  BY <1>1 DEF EntryOK, CommitOK, BranchOK, RoundOK, RoundTypes

\* a round is closed
LEMMA NewRoundOK ==
    ASSUME NEW t, NEW l, LogOK(t, l), NEW p, InTree(t, p),
           NEW k, k = Cardinality(RoundsIn(l, p, Len(l))) + 1,
           \A j \in RoundsIn(l, p, Len(l)) : l[j].type # "gate.passed",
           NEW l2, Len(l2) \in Nat, Grows(l, l2),
           NEW n \in New(l, l2), \A j \in New(l, l2) \ {n} : l2[j].type \notin Loud,
           l2[n].path = p, l2[n].n = k, l2[n].type \in RoundTypes,
           l2[n].type = "loop.iter" => t[p[1]].kind = "loop",
           l2[n].type # "loop.iter" => t[p[1]].kind = "gate",
           l2[n].type # "loop.iter" => k <= t[p[1]].max
    PROVE  EntryOK(t, l2, n) /\ Cardinality(RoundsIn(l2, p, Len(l2))) = k
<1>1. Len(l) \in Nat /\ n \in Nat /\ n > Len(l) /\ n <= Len(l2)
  BY DEF LogOK, New
<1>2. RoundsIn(l2, p, n - 1) = RoundsIn(l, p, Len(l)) /\ \A j \in RoundsIn(l, p, Len(l)) : l2[j] = l[j]
  BY <1>1 DEF RoundsIn, Grows, New, Loud
<1>3. RoundsIn(l2, p, n) = RoundsIn(l, p, Len(l)) \cup {n} /\ n \notin RoundsIn(l, p, Len(l))
  BY <1>1 DEF RoundsIn, Grows, New, Loud
<1>4. RoundsIn(l2, p, Len(l2)) = RoundsIn(l2, p, n)
  BY <1>1 DEF RoundsIn, New, Loud
<1>5. IsFiniteSet(RoundsIn(l, p, Len(l)))
  BY <1>1, RoundsAreFinite
<1>6. Cardinality(RoundsIn(l2, p, n)) = k
  BY <1>3, <1>5, FS_AddElement
<1>7. RoundOK(t, l2, n)
  BY <1>2, <1>6 DEF RoundOK
<1>8. CommitOK(t, l2, n) /\ BranchOK(t, l2, n)
  BY DEF CommitOK, BranchOK, RoundTypes
<1> QED
  BY <1>4, <1>6, <1>7, <1>8 DEF EntryOK

-----------------------------------------------------------------------------
(* The frames of a walk and what may happen to them.                       *)

Outs == Seq(Results \cup {"none"})
Contexts(t) == (Numbers(t) \cup {0}) \X Seq(Nat)
FrameType(t) == [at : Nat, k : Nat, held : Results, outs : Outs, ctx : SUBSET Contexts(t)]
FrameOK(t, q, f) ==
    /\ f \in FrameType(t)
    /\ f.at \in {0, 1} \cup Has(t, q[1])
    /\ t[q[1]].kind \notin {"step", "parallel"} /\ f.at # 0 => f.at \in Has(t, q[1])
    /\ t[q[1]].kind = "parallel" /\ f.at = 1 => Len(f.outs) = Len(t[q[1]].kids)

Frames(t, a, r, l) ==
    /\ Struct(t, a, r)
    /\ \A q \in DOMAIN a : FrameOK(t, q, a[q])
    /\ Remembering(t, a, l)
    /\ \A q \in DOMAIN r : r[q] \in Results

\* the loud events that are appended are events of p
Speaks(l, l2, p) ==
    /\ Len(l) \in Nat /\ Len(l2) \in Nat
    /\ Grows(l, l2)
    /\ \A j \in New(l, l2) : l2[j].type \in Loud => l2[j].path = p

LEMMA FramesAreCounted ==
    ASSUME NEW t, NEW a, NEW r, NEW l, Frames(t, a, r, l)
    PROVE  Counted(a)
BY DEF Frames, FrameOK, FrameType, Counted

LEMMA FreshFrameOK ==
    ASSUME NEW t, NEW ctx, ctx \subseteq Contexts(t), NEW q, NEW l
    PROVE  FrameOK(t, q, Frame(ctx)) /\ Remembers(t, q, Frame(ctx), l)
<1>1. <<>> \in Outs
  BY DEF Outs
<1>2. Frame(ctx) \in FrameType(t) /\ Frame(ctx).at = 0
  BY <1>1 DEF Frame, FrameType, Results
<1> QED
  BY <1>2 DEF FrameOK, Remembers, Knows

\* the model's names for children and for what is above
LEMMA ModelPaths ==
    ASSUME TRUE
    PROVE  /\ \A p, i, k : Kid(p, i, k) = Sub(tree, p, i, k)
           /\ \A p : Callee(p) = Sub(tree, p, act[p].at, act[p].k)
           /\ \A p : Kind(p) = tree[p[1]].kind /\ Node(p) = tree[p[1]]
BY DEF Kid, Sub, Callee, Kind, Node, Rounded

LEMMA TakenFacts ==
    ASSUME NEW p
    PROVE  /\ act[p].at > 0 => DOMAIN Taken(p) = DOMAIN ret \ {Callee(p)}
           /\ ~(act[p].at > 0) => DOMAIN Taken(p) = DOMAIN ret
           /\ \A q \in DOMAIN Taken(p) : Taken(p)[q] = ret[q]
BY DEF Taken, Forget, Restrict

LEMMA AloneWhenTaken ==
    ASSUME NEW l, Frames(tree, act, ret, l), NEW p \in DOMAIN act, Kind(p) # "parallel",
           act[p].at = 0 \/ Callee(p) \in DOMAIN ret
    PROVE  Alone(tree, act, DOMAIN Taken(p), p) /\ DOMAIN Taken(p) \subseteq DOMAIN ret
<1>1. Struct(tree, act, ret) /\ act[p].at \in Nat /\ tree[p[1]].kind # "parallel"
  BY ModelPaths DEF Frames, FrameOK, FrameType
<1>2. CASE act[p].at = 0
  <2>1. \A i \in Has(tree, p[1]) : ~Waits(tree, act, p, i)
    BY <1>1, <1>2 DEF Waits, Has
  <2>2. DOMAIN Taken(p) = DOMAIN ret
    <3>1. ~(act[p].at > 0)
      BY <1>2
    <3> QED
      BY <3>1, TakenFacts, Zenon
  <2> QED
    BY <1>1, <2>1, <2>2, AloneIfWaitingForNone
<1>3. CASE act[p].at > 0 /\ Callee(p) \in DOMAIN ret
  <2>1. DOMAIN Taken(p) = DOMAIN ret \ {Callee(p)}
    BY <1>3, TakenFacts
  <2>2. Callee(p) = Sub(tree, p, act[p].at, act[p].k)
    BY ModelPaths
  <2> QED
    BY <1>1, <1>3, <2>1, <2>2, AloneBehindCallee
<1> QED
  BY <1>1, <1>2, <1>3

LEMMA CallMoves ==
    ASSUME Tree(tree), Frames(tree, act, ret, log), NEW p \in DOMAIN act,
           Kind(p) \notin {"step", "parallel"}, act[p].at = 0 \/ Callee(p) \in DOMAIN ret,
           NEW i \in Has(tree, p[1]), NEW k \in Nat, NEW held \in Results, NEW ctx, ctx \subseteq Contexts(tree),
           CallUnder(p, i, k, held, ctx), Speaks(log, log', p),
           NEW f, f = [act[p] EXCEPT !.at = i, !.k = k, !.held = held], Remembers(tree, p, f, log')
    PROVE  Frames(tree, act', ret', log')
<1> DEFINE c == Sub(tree, p, i, k)
<1>1. /\ act' = Extend([act EXCEPT ![p] = [@ EXCEPT !.at = i, !.k = k, !.held = held]], c, Frame(ctx))
      /\ ret' = Taken(p)
  BY ModelPaths DEF CallUnder
<1>2. tree[p[1]].kind \notin {"step", "parallel"} /\ Counted(act) /\ Struct(tree, act, ret)
  BY ModelPaths, FramesAreCounted DEF Frames
<1>3. Alone(tree, act, DOMAIN ret', p) /\ DOMAIN ret' \subseteq DOMAIN ret
  BY <1>1, <1>2, AloneWhenTaken, ModelPaths
<1>4. InTree(tree, p)
  BY <1>2 DEF Struct, Present
<1>5. InTree(tree, c) /\ Over(tree, p, c)
  BY <1>4, SubIsBelow
<1>6. c # p
  BY <1>4, SubIsOther
<1> HIDE DEF c
<1>7. c \notin DOMAIN act
  BY <1>3, <1>5, <1>6 DEF Alone
<1>8. /\ DOMAIN act' = DOMAIN act \cup {c}
      /\ act'[p] = f /\ act'[c] = Frame(ctx)
      /\ \A q \in DOMAIN act \ {p} : act'[q] = act[q]
  BY <1>1, <1>6, <1>7 DEF Extend
<1>9. FrameOK(tree, p, f) /\ f.at = i /\ f.k = k
  <2>1. FrameOK(tree, p, act[p])
    BY DEF Frames
  <2>2. act[p] \in FrameType(tree) /\ i \in Nat
    BY <2>1 DEF FrameOK, Has
  <2>3. f \in FrameType(tree) /\ f.at = i /\ f.k = k
    BY <2>2 DEF FrameType
  <2> QED
    BY <1>2, <2>3 DEF FrameOK
<1>10. Struct(tree, act', ret')
  <2>1. /\ c = Sub(tree, p, i, k) /\ DOMAIN act' = DOMAIN act \cup {c}
        /\ act'[p].at = i /\ act'[p].k = k /\ \A q \in DOMAIN act \ {p} : act'[q] = act[q]
        /\ tree[p[1]].kind # "parallel" /\ DOMAIN ret' \subseteq DOMAIN ret
    BY <1>2, <1>3, <1>8, <1>9 DEF c
  <2> QED
    BY <1>2, <1>3, <2>1, CallKeepsStruct, SMTT(40)
<1>11. FrameOK(tree, c, Frame(ctx)) /\ Remembers(tree, c, Frame(ctx), log')
  BY FreshFrameOK
<1>12. ASSUME NEW q \in DOMAIN act'
       PROVE  FrameOK(tree, q, act'[q])
  BY <1>8, <1>9, <1>11 DEF Frames
<1>13. ASSUME NEW q \in DOMAIN act'
       PROVE  Remembers(tree, q, act'[q], log')
  <2>1. CASE q = p
    BY <1>8, <2>1
  <2>2. CASE q = c
    BY <1>8, <1>11, <2>2
  <2>3. CASE q \in DOMAIN act \ {p}
    <3>1. Remembers(tree, q, act[q], log) /\ act'[q] = act[q]
      BY <1>8, <2>3 DEF Frames, Remembering
    <3>2. \A j \in New(log, log') : log'[j].path = q => log'[j].type \notin Loud
      BY <2>3 DEF Speaks
    <3> QED
      BY <3>1, <3>2, OthersDoNotMatter DEF Speaks
  <2> QED
    BY <1>8, <2>1, <2>2, <2>3
<1>14. \A q \in DOMAIN ret' : ret'[q] \in Results
  BY <1>1, <1>3, TakenFacts DEF Frames
<1> QED
  BY <1>10, <1>12, <1>13, <1>14 DEF Frames, Remembering

LEMMA ReturnMoves ==
    ASSUME Tree(tree), Frames(tree, act, ret, log), NEW p \in DOMAIN act,
           NEW R, DOMAIN R \subseteq DOMAIN ret, \A q \in DOMAIN R : R[q] = ret[q],
           Alone(tree, act, DOMAIN R, p), NEW r \in Results,
           act' = Forget(act, p), ret' = Extend(R, p, r), Speaks(log, log', p)
    PROVE  Frames(tree, act', ret', log')
<1>1. DOMAIN act' = DOMAIN act \ {p} /\ \A q \in DOMAIN act' : act'[q] = act[q]
  BY DEF Forget, Restrict
<1>2. DOMAIN ret' = DOMAIN R \cup {p} /\ \A q \in DOMAIN ret' : ret'[q] = IF q = p THEN r ELSE R[q]
  BY DEF Extend
<1>3. Struct(tree, act', ret')
  <2> DEFINE D == DOMAIN R
  <2>1. D \subseteq DOMAIN ret /\ Alone(tree, act, D, p) /\ Struct(tree, act, ret)
    BY DEF Frames
  <2>2. DOMAIN act' = DOMAIN act \ {p} /\ (\A q \in DOMAIN act \ {p} : act'[q] = act[q]) /\ DOMAIN ret' = D \cup {p}
    BY <1>1, <1>2
  <2> HIDE DEF D
  <2> QED
    BY <2>1, <2>2, ReturnKeepsStruct
<1>4. \A q \in DOMAIN act' : FrameOK(tree, q, act'[q])
  BY <1>1 DEF Frames
<1>5. ASSUME NEW q \in DOMAIN act'
      PROVE  Remembers(tree, q, act'[q], log')
  <2>1. Remembers(tree, q, act[q], log) /\ act'[q] = act[q] /\ q # p
    BY <1>1 DEF Frames, Remembering
  <2>2. \A j \in New(log, log') : log'[j].path = q => log'[j].type \notin Loud
    BY <2>1 DEF Speaks
  <2> QED
    BY <2>1, <2>2, OthersDoNotMatter DEF Speaks
<1>6. \A q \in DOMAIN ret' : ret'[q] \in Results
  BY <1>2 DEF Frames
<1> QED
  BY <1>3, <1>4, <1>5, <1>6 DEF Frames, Remembering

\* the return of a node that took what its child returned
LEMMA NodeReturns ==
    ASSUME Tree(tree), Frames(tree, act, ret, log), NEW p \in DOMAIN act, Kind(p) # "parallel",
           act[p].at = 0 \/ Callee(p) \in DOMAIN ret, NEW r \in Results, Return(p, r), Speaks(log, log', p)
    PROVE  Frames(tree, act', ret', log')
<1>1. Alone(tree, act, DOMAIN Taken(p), p) /\ DOMAIN Taken(p) \subseteq DOMAIN ret
  BY AloneWhenTaken
<1>2. \A q \in DOMAIN Taken(p) : Taken(p)[q] = ret[q]
  BY TakenFacts
<1>3. act' = Forget(act, p) /\ ret' = Extend(Taken(p), p, r)
  BY DEF Return
<1> QED
  BY <1>1, <1>2, <1>3, ReturnMoves

\* the return of a step, below which nothing is
LEMMA StepReturns ==
    ASSUME Tree(tree), Frames(tree, act, ret, log), NEW p \in DOMAIN act, Kind(p) = "step",
           NEW r \in Results, StepReturn(p, r), Speaks(log, log', p)
    PROVE  Frames(tree, act', ret', log')
<1>1. Struct(tree, act, ret) /\ InTree(tree, p) /\ p[1] \in Numbers(tree) /\ tree[p[1]].kind = "step"
  BY ModelPaths DEF Frames, Struct, Present, InTree
<1>2. Has(tree, p[1]) = {}
  BY <1>1 DEF Tree, Arity, Numbers, Has
<1>3. Alone(tree, act, DOMAIN ret, p)
  BY <1>1, <1>2, AloneIfWaitingForNone
<1>4. act' = Forget(act, p) /\ ret' = Extend(ret, p, r)
  BY DEF StepReturn
<1> QED
  BY <1>3, <1>4, ReturnMoves

-----------------------------------------------------------------------------
(* The log in a step: nothing, one event, or some events of one path.      *)

LEMMA SilentLog ==
    ASSUME NEW l, Len(l) \in Nat, NEW l2, l2 = l, NEW p
    PROVE  Speaks(l, l2, p) /\ New(l, l2) = {}
BY DEF Speaks, Grows, New

LEMMA EventIsTyped ==
    ASSUME NEW t, NEW type \in EventTypes, NEW p \in Contexts(t), NEW n \in Nat
    PROVE  /\ Event(type, p, n) \in LogEvent(t)
           /\ Event(type, p, n).type = type /\ Event(type, p, n).path = p /\ Event(type, p, n).n = n
BY DEF Event, LogEvent, Contexts

LEMMA PathIsContext ==
    ASSUME NEW t, NEW p, InTree(t, p)
    PROVE  p \in Contexts(t)
BY DEF InTree, Contexts

\* an event that no driver looks for
LEMMA QuietEvent ==
    ASSUME NEW t, NEW l, LogOK(t, l), NEW e \in LogEvent(t), e.type \notin Loud, NEW l2, l2 = Append(l, e), NEW p
    PROVE  LogOK(t, l2) /\ Speaks(l, l2, p) /\ Len(l2) = Len(l) + 1
<1> DEFINE E == LogEvent(t)
<1>1. l \in Seq(E) /\ e \in E
  BY DEF LogOK
<1> HIDE DEF E
<1>2. /\ l2 \in Seq(E) /\ Len(l) \in Nat /\ Len(l2) = Len(l) + 1
      /\ l2[Len(l) + 1] = e /\ Grows(l, l2) /\ New(l, l2) = {Len(l) + 1}
  <2>1. /\ l2 \in Seq(E) /\ Len(l) \in Nat /\ Len(l2) = Len(l) + 1 /\ l2[Len(l) + 1] = e
        /\ \A j \in 1 .. Len(l) : l2[j] = l[j]
    BY <1>1
  <2> QED
    BY <2>1 DEF Grows, New
<1> USE DEF E
<1>3. \A j \in New(l, l2) : l2[j].type \notin Loud
  BY <1>2
<1>4. LogOK(t, l2)
  BY <1>2, <1>3, LogGrows
<1> QED
  BY <1>2, <1>3, <1>4 DEF Speaks

\* an event that one looks for
LEMMA LoudEvent ==
    ASSUME NEW t, NEW l, LogOK(t, l), NEW p, NEW e \in LogEvent(t), e.path = p, NEW l2, l2 = Append(l, e),
           EntryOK(t, l2, Len(l2))
    PROVE  LogOK(t, l2) /\ Speaks(l, l2, p) /\ Len(l2) = Len(l) + 1
<1> DEFINE E == LogEvent(t)
<1>1. l \in Seq(E) /\ e \in E
  BY DEF LogOK
<1> HIDE DEF E
<1>2. /\ l2 \in Seq(E) /\ Len(l) \in Nat /\ Len(l2) = Len(l) + 1
      /\ l2[Len(l) + 1] = e /\ Grows(l, l2) /\ New(l, l2) = {Len(l) + 1}
  <2>1. /\ l2 \in Seq(E) /\ Len(l) \in Nat /\ Len(l2) = Len(l) + 1 /\ l2[Len(l) + 1] = e
        /\ \A j \in 1 .. Len(l) : l2[j] = l[j]
    BY <1>1
  <2> QED
    BY <2>1 DEF Grows, New
<1> USE DEF E
<1>3. LogOK(t, l2)
  BY <1>2, LogGrows
<1> QED
  BY <1>2, <1>3 DEF Speaks

-----------------------------------------------------------------------------
(* The inductive invariant.                                                *)

Verdicts == Results \cup {"none", "crashed"}
WalkStatic ==
    /\ tree \in Workflows
    /\ cancelled \subseteq Contexts(tree)
    /\ up \in BOOLEAN
    /\ outcome \in Verdicts
    /\ epoch \in 0 .. MaxEpoch
    /\ faultsLeft \in 0 .. MaxFaults
WalkLog ==
    /\ LogOK(tree, log)
    /\ stable \in 0 .. Len(log)
WalkFrames ==
    /\ Frames(tree, act, ret, log)
    /\ ~up => DOMAIN act = {} /\ DOMAIN ret = {}
WalkInv == WalkStatic /\ WalkLog /\ WalkFrames

LEMMA WorkflowIsTree ==
    ASSUME WalkStatic
    PROVE  Tree(tree)
BY ControlAssumption DEF WalkStatic, Tree, NodeType

LEMMA FrameFacts ==
    ASSUME WalkInv, NEW p \in DOMAIN act
    PROVE  /\ InTree(tree, p) /\ p \in Contexts(tree) /\ p[1] \in Numbers(tree) /\ up
           /\ act[p] \in FrameType(tree) /\ act[p].at \in Nat /\ act[p].k \in Nat
           /\ act[p].held \in Results /\ act[p].ctx \subseteq Contexts(tree)
           /\ Remembers(tree, p, act[p], log)
           /\ Kind(p) \notin {"step", "parallel"} /\ act[p].at # 0 => act[p].at \in Has(tree, p[1])
           /\ Callee(p) \in DOMAIN ret => Got(p) \in Results
<1>1. InTree(tree, p) /\ FrameOK(tree, p, act[p]) /\ Remembers(tree, p, act[p], log)
  BY DEF WalkInv, WalkFrames, Frames, Struct, Present, Remembering
<1>2. p \in Contexts(tree) /\ p[1] \in Numbers(tree)
  BY <1>1, PathIsContext DEF InTree
<1>3. /\ act[p] \in FrameType(tree) /\ act[p].at \in Nat /\ act[p].k \in Nat
      /\ act[p].held \in Results /\ act[p].ctx \subseteq Contexts(tree)
  BY <1>1 DEF FrameOK, FrameType
<1>4. Kind(p) \notin {"step", "parallel"} /\ act[p].at # 0 => act[p].at \in Has(tree, p[1])
  BY <1>1, ModelPaths DEF FrameOK
<1>5. Callee(p) \in DOMAIN ret => Got(p) \in Results
  BY DEF WalkInv, WalkFrames, Frames, Got
<1>6. up
  BY DEF WalkInv, WalkFrames, WalkStatic
<1> QED
  BY <1>1, <1>2, <1>3, <1>4, <1>5, <1>6

\* the children that a control node calls exist
LEMMA KidsExist ==
    ASSUME WalkInv, NEW p \in DOMAIN act
    PROVE  /\ Kind(p) = "seq" => Has(tree, p[1]) = 1 .. Len(Node(p).kids)
           /\ Kind(p) \in {"if", "gate"} => Has(tree, p[1]) = 1 .. 2
           /\ Kind(p) = "loop" => Has(tree, p[1]) = 1 .. 1
           /\ Kind(p) = "try" => Has(tree, p[1]) = 1 .. 3
           /\ Kind(p) \in {"step", "skip"} => Has(tree, p[1]) = {}
<1>1. Tree(tree) /\ p[1] \in Numbers(tree)
  BY WorkflowIsTree, FrameFacts DEF WalkInv
<1>2. Kind(p) = tree[p[1]].kind /\ Node(p) = tree[p[1]]
  BY ModelPaths
<1>3. LET n == p[1]
          has == Len(tree[n].kids)
      IN  /\ tree[n].kind \in {"step", "skip"} => has = 0
          /\ tree[n].kind = "loop" => has = 1
          /\ tree[n].kind \in {"if", "gate"} => has = 2
          /\ tree[n].kind = "try" => has = 3
  BY <1>1 DEF Tree, Arity, Numbers
<1>4. Has(tree, p[1]) = 1 .. Len(tree[p[1]].kids) /\ 1 .. 0 = {}
  BY DEF Has
<1> QED
  BY <1>2, <1>3, <1>4

\* what a step of the walk leaves alone
Still == UNCHANGED <<tree, up, outcome, epoch>>
Budget == faultsLeft' \in 0 .. MaxFaults

LEMMA StaticKept ==
    ASSUME WalkInv, Still, Budget, cancelled' \subseteq Contexts(tree)
    PROVE  WalkStatic'
BY DEF WalkInv, WalkStatic, Still, Budget

LEMMA BudgetKept ==
    ASSUME WalkInv
    PROVE  Fault \/ NoFault => Budget
BY ControlAssumption DEF WalkInv, WalkStatic, Budget, Fault, NoFault

\* what p does to the log: nothing, or events of its own behind the others
Logs(p) ==
    /\ LogOK(tree, log') /\ Speaks(log, log', p)
    /\ stable' = stable \/ stable' = Len(log')

LEMMA SilentLogs ==
    ASSUME WalkInv, Silent, NEW p
    PROVE  Logs(p)
<1>1. log' = log /\ stable' = stable
  BY DEF Silent, journal
<1>2. LogOK(tree, log) /\ Len(log) \in Nat
  BY DEF WalkInv, WalkLog, LogOK
<1> QED
  BY <1>1, <1>2, SilentLog DEF Logs

LEMMA Steps ==
    ASSUME WalkInv, Still, Fault \/ NoFault, cancelled' \subseteq Contexts(tree),
           NEW p \in DOMAIN act, Logs(p), Frames(tree, act', ret', log')
    PROVE  WalkInv'
<1>1. WalkStatic'
  BY StaticKept, BudgetKept
<1>2. Len(log) \in Nat /\ Len(log') \in Nat /\ Len(log) <= Len(log')
  BY DEF Logs, Speaks, Grows
<1>3. WalkLog'
  BY <1>2 DEF WalkInv, WalkLog, Still, Logs
<1>4. WalkFrames'
  BY FrameFacts DEF WalkInv, WalkFrames, Still
<1> QED
  BY <1>1, <1>3, <1>4 DEF WalkInv

LEMMA Calls ==
    ASSUME WalkInv, Still, Fault \/ NoFault, NEW p \in DOMAIN act, Logs(p),
           Kind(p) \notin {"step", "parallel"}, act[p].at = 0 \/ Callee(p) \in DOMAIN ret,
           NEW i \in Has(tree, p[1]), NEW k \in Nat, NEW held \in Results, NEW ctx, ctx \subseteq Contexts(tree),
           CallUnder(p, i, k, held, ctx), Knows(tree, p, i, k, log')
    PROVE  WalkInv'
<1> DEFINE f == [act[p] EXCEPT !.at = i, !.k = k, !.held = held]
<1>1. f.at = i /\ f.k = k
  BY FrameFacts DEF FrameType
<1> HIDE DEF f
<1>2. Remembers(tree, p, f, log')
  BY <1>1 DEF Remembers
<1> USE DEF f
<1>3. Tree(tree) /\ Frames(tree, act, ret, log) /\ Speaks(log, log', p)
  BY WorkflowIsTree DEF WalkInv, WalkFrames, Logs
<1>4. Frames(tree, act', ret', log')
  BY <1>2, <1>3, CallMoves
<1>5. cancelled' \subseteq Contexts(tree)
  BY DEF CallUnder, WalkInv, WalkStatic
<1> QED
  BY <1>4, <1>5, Steps

LEMMA Returns ==
    ASSUME WalkInv, Still, Fault \/ NoFault, NEW p \in DOMAIN act, Logs(p), Kind(p) # "parallel",
           act[p].at = 0 \/ Callee(p) \in DOMAIN ret, NEW r \in Results, Return(p, r)
    PROVE  WalkInv'
<1>1. Tree(tree) /\ Frames(tree, act, ret, log) /\ Speaks(log, log', p)
  BY WorkflowIsTree DEF WalkInv, WalkFrames, Logs
<1>2. Frames(tree, act', ret', log')
  BY <1>1, NodeReturns
<1>3. cancelled' \subseteq Contexts(tree)
  BY DEF Return, WalkInv, WalkStatic
<1> QED
  BY <1>2, <1>3, Steps

LEMMA StepEnds ==
    ASSUME WalkInv, Still, Fault \/ NoFault, NEW p \in DOMAIN act, Logs(p), Kind(p) = "step",
           NEW r \in Results, StepReturn(p, r)
    PROVE  WalkInv'
<1>1. Tree(tree) /\ Frames(tree, act, ret, log) /\ Speaks(log, log', p)
  BY WorkflowIsTree DEF WalkInv, WalkFrames, Logs
<1>2. Frames(tree, act', ret', log')
  BY <1>1, StepReturns
<1>3. cancelled' \subseteq Contexts(tree)
  BY DEF StepReturn, WalkInv, WalkStatic
<1> QED
  BY <1>2, <1>3, Steps

\* an event of p that no driver looks for
LEMMA QuietLogs ==
    ASSUME WalkInv, NEW p \in DOMAIN act, NEW type \in EventTypes, type \notin Loud,
           Observe(Event(type, p, 0)) \/ Commit(Event(type, p, 0))
    PROVE  Logs(p)
<1> DEFINE e == Event(type, p, 0)
<1>1. e \in LogEvent(tree) /\ e.type = type
  BY FrameFacts, EventIsTyped
<1>2. log' = Append(log, e) /\ (stable' = stable \/ stable' = Len(log) + 1)
  BY DEF Observe, Commit
<1> HIDE DEF e
<1>3. LogOK(tree, log') /\ Speaks(log, log', p) /\ Len(log') = Len(log) + 1
  BY <1>1, <1>2, QuietEvent DEF WalkInv, WalkLog
<1> QED
  BY <1>2, <1>3 DEF Logs

\* sequences and tries keep nothing in the log
LEMMA NothingToKnow ==
    ASSUME NEW p, Kind(p) \in {"seq", "try"}, NEW i, NEW k, NEW l
    PROVE  Knows(tree, p, i, k, l)
<1>1. tree[p[1]].kind \in {"seq", "try"}
  BY ModelPaths
<1> QED
  BY <1>1 DEF Knows, Rounded

-----------------------------------------------------------------------------
(* The steps of the walk, handler by handler.                              *)

LEMMA CallsHere ==
    ASSUME WalkInv, UNCHANGED fixed, Fault \/ NoFault, NEW p \in DOMAIN act, Logs(p),
           Kind(p) \notin {"step", "parallel"}, act[p].at = 0 \/ Callee(p) \in DOMAIN ret,
           NEW i \in Has(tree, p[1]), NEW k \in Nat, Call(p, i, k), Knows(tree, p, i, k, log')
    PROVE  WalkInv'
<1>1. Still
  BY DEF fixed, Still
<1>2. act[p].ctx \subseteq Contexts(tree)
  BY FrameFacts
<1>3. CallUnder(p, i, k, "ok", act[p].ctx) /\ "ok" \in Results
  BY DEF Call, Results
<1> QED
  BY <1>1, <1>2, <1>3, Calls

LEMMA ReturnsHere ==
    ASSUME WalkInv, UNCHANGED fixed, Fault \/ NoFault, NEW p \in DOMAIN act, Logs(p), Kind(p) # "parallel",
           act[p].at = 0 \/ Callee(p) \in DOMAIN ret, NEW r \in Results, Return(p, r)
    PROVE  WalkInv'
<1>1. Still
  BY DEF fixed, Still
<1> QED
  BY <1>1, Returns

LEMMA SeqSteps ==
    ASSUME WalkInv, NEW p \in DOMAIN act, SeqStart(p) \/ SeqNext(p)
    PROVE  WalkInv'
<1>1. UNCHANGED fixed /\ (Fault \/ NoFault) /\ Kind(p) = "seq" /\ Silent
  BY DEF SeqStart, SeqNext, Fresh, Back
<1>2. Logs(p) /\ Kind(p) \notin {"step", "parallel"} /\ "ok" \in Results
  BY <1>1, SilentLogs DEF Results
<1>3. Has(tree, p[1]) = 1 .. Len(Node(p).kids) /\ Len(Node(p).kids) \in Nat /\ Node(p).kids \in Seq(Nat)
  <2>1. Tree(tree) /\ p[1] \in Numbers(tree) /\ Node(p) = tree[p[1]]
    BY WorkflowIsTree, FrameFacts, ModelPaths DEF WalkInv
  <2> QED
    BY <1>1, <2>1, KidsExist, NodeFacts
<1>4. CASE SeqStart(p)
  <2>1. act[p].at = 0
    BY <1>4 DEF SeqStart, Fresh
  <2>2. CASE Node(p).kids # <<>> /\ Call(p, 1, 0)
    <3>1. 1 \in Has(tree, p[1]) /\ 0 \in Nat
      BY <1>3, <2>2
    <3>2. Knows(tree, p, 1, 0, log')
      BY <1>1, NothingToKnow
    <3> QED
      BY <1>1, <1>2, <2>1, <2>2, <3>1, <3>2, CallsHere
  <2>3. CASE Return(p, "ok")
    BY <1>1, <1>2, <2>1, <2>3, ReturnsHere
  <2> QED
    BY <1>4, <2>2, <2>3 DEF SeqStart
<1>5. CASE SeqNext(p)
  <2>1. Callee(p) \in DOMAIN ret /\ act[p].at > 0 /\ act[p].at \in Nat /\ Got(p) \in Results
    BY <1>5, FrameFacts DEF SeqNext, Back
  <2>2. CASE act[p].at < Len(Node(p).kids) /\ Call(p, act[p].at + 1, 0)
    <3>1. act[p].at + 1 \in Has(tree, p[1]) /\ 0 \in Nat
      BY <1>3, <2>1, <2>2
    <3>2. Knows(tree, p, act[p].at + 1, 0, log')
      BY <1>1, NothingToKnow
    <3> QED
      BY <1>1, <1>2, <2>1, <2>2, <3>1, <3>2, CallsHere
  <2>3. CASE Return(p, "ok")
    BY <1>1, <1>2, <2>1, <2>3, ReturnsHere
  <2>4. CASE Return(p, Got(p))
    BY <1>1, <1>2, <2>1, <2>4, ReturnsHere
  <2> QED
    BY <1>5, <2>2, <2>3, <2>4 DEF SeqNext
<1> QED
  BY <1>4, <1>5

\* one event at the end of the log
LEMMA LastEvent ==
    ASSUME WalkInv, NEW p \in DOMAIN act, NEW type \in EventTypes, NEW n \in Nat,
           Observe(Event(type, p, n)) \/ Commit(Event(type, p, n))
    PROVE  /\ Len(log) \in Nat /\ Len(log') = Len(log) + 1 /\ Grows(log, log')
           /\ log'[Len(log')].type = type /\ log'[Len(log')].path = p /\ log'[Len(log')].n = n
           /\ New(log, log') = {Len(log')}
           /\ EntryOK(tree, log', Len(log')) => Logs(p)
<1> DEFINE e == Event(type, p, n)
           E == LogEvent(tree)
<1>1. e \in E /\ e.type = type /\ e.path = p /\ e.n = n
  BY FrameFacts, EventIsTyped
<1>2. log' = Append(log, e) /\ (stable' = stable \/ stable' = Len(log) + 1)
  BY DEF Observe, Commit
<1>3. log \in Seq(E) /\ LogOK(tree, log)
  BY DEF WalkInv, WalkLog, LogOK
<1> HIDE DEF e
<1>4. EntryOK(tree, log', Len(log')) => LogOK(tree, log') /\ Speaks(log, log', p)
  BY <1>1, <1>2, <1>3, LoudEvent
<1> HIDE DEF E
<1>5. /\ Len(log) \in Nat /\ Len(log') = Len(log) + 1
      /\ log'[Len(log')] = e /\ \A j \in 1 .. Len(log) : log'[j] = log[j]
  BY <1>1, <1>2, <1>3
<1>6. Grows(log, log') /\ New(log, log') = {Len(log')}
  BY <1>5 DEF Grows, New
<1>7. EntryOK(tree, log', Len(log')) => Logs(p)
  BY <1>2, <1>4, <1>5 DEF Logs
<1> QED
  BY <1>1, <1>5, <1>6, <1>7

LEMMA StepSteps ==
    ASSUME WalkInv, NEW p \in DOMAIN act,
           \/ StepReplay(p) \/ StepRun(p) \/ StepRefused(p) \/ StepCommit(p)
           \/ StepCancelled(p) \/ StepFail(p) \/ StepInternal(p)
    PROVE  WalkInv'
<1>1. Still /\ (Fault \/ NoFault) /\ Kind(p) = "step" /\ cancelled' = cancelled
  BY DEF StepReplay, StepRun, StepRefused, StepCommit, StepCancelled, StepFail, StepInternal,
         Return, StepReturn, Fresh, Running, fixed, Still
<1>2. {"ok", "internal", "permanent_failure", "retryable_failure"} \subseteq Results /\ Kind(p) # "parallel"
  BY <1>1 DEF Results, TypedFailures
<1>3. CASE StepReplay(p) \/ StepRefused(p)
  <2>1. UNCHANGED fixed /\ Silent /\ act[p].at = 0 /\ (Return(p, "ok") \/ Return(p, "internal"))
    BY <1>3 DEF StepReplay, StepRefused, Fresh
  <2>2. Logs(p)
    BY <2>1, SilentLogs
  <2> QED
    BY <1>1, <1>2, <2>1, <2>2, ReturnsHere
<1>4. CASE StepRun(p)
  <2>1. /\ act' = [act EXCEPT ![p] = [@ EXCEPT !.at = 1]] /\ ret' = ret
        /\ log' = log /\ stable' = stable /\ ~Completed(p)
    BY <1>4 DEF StepRun, Silent, journal
  <2>2. Logs(p)
    <3>1. Silent
      BY <1>4 DEF StepRun, Silent
    <3> QED
      BY <3>1, SilentLogs
  <2>3. /\ DOMAIN act' = DOMAIN act /\ act'[p] = [act[p] EXCEPT !.at = 1]
        /\ \A q \in DOMAIN act \ {p} : act'[q] = act[q]
    BY <2>1
  <2>4. /\ Tree(tree) /\ Struct(tree, act, ret) /\ InTree(tree, p) /\ tree[p[1]].kind = "step"
        /\ Has(tree, p[1]) = {} /\ DOMAIN ret' \subseteq DOMAIN ret
    BY <1>1, <2>1, WorkflowIsTree, FrameFacts, KidsExist, ModelPaths DEF WalkInv, WalkFrames, Frames
  <2>5. Struct(tree, act', ret')
    <3>1. \A q \in DOMAIN act \cup DOMAIN ret' : Over(tree, p, q) => q = p
      <4>1. \A q \in DOMAIN act \cup DOMAIN ret' : InTree(tree, q)
        BY <2>4 DEF Struct, Present
      <4> QED
        BY <2>4, <4>1, LeafIsLast
    <3> QED
      BY <2>3, <2>4, <3>1, EditKeepsStruct
  <2>6. \A q \in DOMAIN act' : FrameOK(tree, q, act'[q]) /\ Remembers(tree, q, act'[q], log')
    <3>1. FrameOK(tree, p, act[p]) /\ act[p] \in FrameType(tree)
      BY DEF WalkInv, WalkFrames, Frames, FrameOK
    <3>2. act'[p] \in FrameType(tree) /\ act'[p].at = 1
      BY <2>3, <3>1 DEF FrameType
    <3>3. FrameOK(tree, p, act'[p])
      BY <2>4, <3>2 DEF FrameOK
    <3>4. \A j \in 1 .. Len(log') : ~CommitAt(log', j, p)
      BY <2>1 DEF Completed, Events, CommitAt
    <3>5. Remembers(tree, p, act'[p], log')
      BY <2>4, <3>4 DEF Remembers, Knows, Rounded
    <3>6. \A q \in DOMAIN act : FrameOK(tree, q, act[q]) /\ Remembers(tree, q, act[q], log')
      BY <2>1 DEF WalkInv, WalkFrames, Frames, Remembering
    <3> QED
      BY <2>3, <3>3, <3>5, <3>6
  <2>7. Frames(tree, act', ret', log')
    BY <2>1, <2>5, <2>6 DEF WalkInv, WalkFrames, Frames, Remembering
  <2>8. cancelled' \subseteq Contexts(tree)
    BY <1>1 DEF WalkInv, WalkStatic
  <2> QED
    BY <1>1, <2>2, <2>7, <2>8, Steps
<1>5. CASE StepCommit(p)
  <2>1. Commit(Event("node.completed", p, 0)) /\ StepReturn(p, "ok") /\ act[p].at = 1
    BY <1>5 DEF StepCommit, Running
  <2>2. EntryOK(tree, log', Len(log'))
    <3>1. /\ Len(log') = Len(log) + 1 /\ Grows(log, log')
          /\ log'[Len(log')].type = "node.completed" /\ log'[Len(log')].path = p
      BY <2>1, LastEvent DEF EventTypes
    <3>2. Tree(tree) /\ LogOK(tree, log) /\ Frames(tree, act, ret, log) /\ tree[p[1]].kind = "step"
      BY <1>1, WorkflowIsTree, ModelPaths DEF WalkInv, WalkLog, WalkFrames
    <3>3. Struct(tree, act, ret) /\ Counted(act) /\ Remembering(tree, act, log)
      BY <3>2, FramesAreCounted DEF Frames
    <3> QED
      BY <2>1, <3>1, <3>2, <3>3, NewCommitOK
  <2>3. Logs(p)
    BY <2>1, <2>2, LastEvent DEF EventTypes
  <2> QED
    BY <1>1, <1>2, <2>1, <2>3, StepEnds
<1>6. CASE StepCancelled(p) \/ StepFail(p)
  <2>1. /\ Commit(Event("node.failed", p, 0))
        /\ StepReturn(p, "retryable_failure") \/ StepReturn(p, "permanent_failure")
    BY <1>6 DEF StepCancelled, StepFail
  <2>2. Logs(p)
    BY <2>1, QuietLogs DEF EventTypes, Loud, RoundTypes
  <2> QED
    BY <1>1, <1>2, <2>1, <2>2, StepEnds
<1>7. CASE StepInternal(p)
  <2>1. Silent /\ StepReturn(p, "internal")
    BY <1>7 DEF StepInternal
  <2>2. Logs(p)
    BY <2>1, SilentLogs
  <2> QED
    BY <1>1, <1>2, <2>1, <2>2, StepEnds
<1> QED
  BY <1>3, <1>4, <1>5, <1>6, <1>7

LEMMA LastOfIsThere ==
    ASSUME WalkInv, NEW type, NEW p, Events(type, p) # {}
    PROVE  \E i \in Events(type, p) : LastOf(type, p) = log[i].n /\ \A j \in Events(type, p) : j <= i
<1>1. Len(log) \in Nat /\ Events(type, p) \in SUBSET (1 .. Len(log))
  BY DEF WalkInv, WalkLog, LogOK, Events
<1>2. \E i \in Events(type, p) : \A j \in Events(type, p) : j <= i
  BY <1>1, GreatestExists
<1> DEFINE i == CHOOSE x \in Events(type, p) : \A j \in Events(type, p) : j <= x
<1>3. i \in Events(type, p) /\ \A j \in Events(type, p) : j <= i
  BY <1>2
<1>4. LastOf(type, p) = log[i].n
  BY DEF LastOf
<1> QED
  BY <1>3, <1>4

\* the fold finds the branch that was taken, if there is one
LEMMA LookupBranchFinds ==
    ASSUME WalkInv, NEW p
    PROVE  /\ LookupBranch(p) # 0 =>
                 /\ LookupBranch(p) \in 1 .. 2
                 /\ \E j \in 1 .. Len(log) : BranchAt(log, j, p) /\ log[j].n = LookupBranch(p)
           /\ LookupBranch(p) = 0 => \A j \in 1 .. Len(log) : ~BranchAt(log, j, p)
<1>1. CASE Events("branch.taken", p) = {}
  BY <1>1 DEF LookupBranch, Events, BranchAt
<1>2. CASE Events("branch.taken", p) # {}
  <2>1. PICK j \in Events("branch.taken", p) : LastOf("branch.taken", p) = log[j].n
    BY <1>2, LastOfIsThere
  <2>2. j \in 1 .. Len(log) /\ BranchAt(log, j, p)
    BY DEF Events, BranchAt
  <2>3. BranchOK(tree, log, j)
    BY <2>2 DEF WalkInv, WalkLog, LogOK, EntryOK
  <2>4. log[j].n \in 1 .. 2
    BY <2>2, <2>3 DEF BranchOK, BranchAt
  <2>5. LookupBranch(p) = log[j].n
    BY <1>2, <2>1 DEF LookupBranch
  <2> QED
    BY <2>2, <2>4, <2>5
<1> QED
  BY <1>1, <1>2

LEMMA KnowsBranch ==
    ASSUME NEW p, Kind(p) = "if", NEW i, NEW k, NEW l, \E j \in 1 .. Len(l) : BranchAt(l, j, p) /\ l[j].n = i
    PROVE  Knows(tree, p, i, k, l)
<1>1. tree[p[1]].kind = "if"
  BY ModelPaths
<1> QED
  BY <1>1 DEF Knows, Rounded

LEMMA IfSteps ==
    ASSUME WalkInv, NEW p \in DOMAIN act, RunSkip(p) \/ IfReplay(p) \/ IfDecide(p) \/ IfReturn(p)
    PROVE  WalkInv'
<1>1. UNCHANGED fixed /\ (Fault \/ NoFault) /\ Kind(p) \in {"if", "skip"}
  BY DEF RunSkip, IfReplay, IfDecide, IfReturn, Fresh, Back
<1>2. Kind(p) \notin {"step", "parallel"}
  BY <1>1
<1>3. CASE RunSkip(p)
  <2>1. Silent /\ act[p].at = 0 /\ Return(p, "skip") /\ "skip" \in Results
    BY <1>3 DEF RunSkip, Fresh, Results
  <2> QED
    BY <1>1, <1>2, <2>1, SilentLogs, ReturnsHere
<1>4. CASE IfReplay(p)
  <2>1. Silent /\ act[p].at = 0 /\ LookupBranch(p) # 0 /\ Call(p, LookupBranch(p), 0) /\ Kind(p) = "if"
    BY <1>4 DEF IfReplay, Fresh
  <2>2. LookupBranch(p) \in Has(tree, p[1]) /\ 0 \in Nat
    BY <2>1, LookupBranchFinds, KidsExist
  <2>3. log' = log
    BY <2>1 DEF Silent, journal
  <2>4. \E j \in 1 .. Len(log') : BranchAt(log', j, p) /\ log'[j].n = LookupBranch(p)
    BY <2>1, <2>3, LookupBranchFinds
  <2> DEFINE b == LookupBranch(p)
  <2> HIDE DEF b
  <2>5. Knows(tree, p, b, 0, log')
    BY <2>1, <2>4, KnowsBranch DEF b
  <2>6. Logs(p)
    BY <2>1, SilentLogs
  <2>7. b \in Has(tree, p[1]) /\ Call(p, b, 0) /\ act[p].at = 0
    BY <2>1, <2>2 DEF b
  <2> QED
    BY <1>1, <1>2, <2>2, <2>5, <2>6, <2>7, CallsHere
<1>5. CASE IfDecide(p)
  <2>1. PICK which \in 1 .. 2 : Observe(Event("branch.taken", p, which)) /\ Call(p, which, 0)
    BY <1>5 DEF IfDecide
  <2>2. act[p].at = 0 /\ LookupBranch(p) = 0 /\ Kind(p) = "if" /\ tree[p[1]].kind = "if" /\ InTree(tree, p)
    BY <1>5, FrameFacts, ModelPaths DEF IfDecide, Fresh
  <2>3. "branch.taken" \in EventTypes /\ which \in Nat /\ 0 \in Nat
    BY DEF EventTypes
  <2>4. /\ Len(log) \in Nat /\ Len(log') = Len(log) + 1 /\ Grows(log, log')
        /\ log'[Len(log')].type = "branch.taken" /\ log'[Len(log')].path = p /\ log'[Len(log')].n = which
        /\ EntryOK(tree, log', Len(log')) => Logs(p)
    BY <2>1, <2>3, LastEvent
  <2>5. LogOK(tree, log) /\ \A j \in 1 .. Len(log) : ~BranchAt(log, j, p)
    BY <2>2, LookupBranchFinds DEF WalkInv, WalkLog
  <2>6. EntryOK(tree, log', Len(log'))
    BY <2>2, <2>4, <2>5, NewBranchOK
  <2>7. \E j \in 1 .. Len(log') : BranchAt(log', j, p) /\ log'[j].n = which
    BY <2>4 DEF BranchAt
  <2>8. Knows(tree, p, which, 0, log')
    BY <2>2, <2>7, KnowsBranch
  <2>9. which \in Has(tree, p[1])
    BY <2>2, KidsExist
  <2> QED
    BY <1>1, <1>2, <2>1, <2>2, <2>3, <2>4, <2>6, <2>8, <2>9, CallsHere
<1>6. CASE IfReturn(p)
  <2>1. Silent /\ Callee(p) \in DOMAIN ret /\ Return(p, Got(p))
    BY <1>6 DEF IfReturn, Back
  <2> QED
    BY <1>1, <1>2, <2>1, FrameFacts, SilentLogs, ReturnsHere
<1> QED
  BY <1>3, <1>4, <1>5, <1>6

LEMMA CondErrorSteps ==
    ASSUME WalkInv, NEW p \in DOMAIN act, CondError(p)
    PROVE  WalkInv'
<1>1. /\ UNCHANGED fixed /\ (Fault \/ NoFault) /\ Commit(Event("node.failed", p, 0))
      /\ Return(p, "permanent_failure") /\ "permanent_failure" \in Results
  BY DEF CondError, Results, TypedFailures
<1>2. Kind(p) # "parallel" /\ (act[p].at = 0 \/ Callee(p) \in DOMAIN ret)
  BY DEF CondError, Fresh, Back
<1>3. Logs(p)
  BY <1>1, QuietLogs DEF EventTypes, Loud, RoundTypes
<1> QED
  BY <1>1, <1>2, <1>3, ReturnsHere

\* an iteration or an attempt is waited for: it is the next one, and nothing passed
LEMMA NextRound ==
    ASSUME WalkInv, NEW p \in DOMAIN act, Kind(p) \in {"loop", "gate"}, act[p].at > 0
    PROVE  /\ Rounded(tree, p[1]) /\ act[p].k = Cardinality(RoundsIn(log, p, Len(log))) + 1
           /\ \A j \in RoundsIn(log, p, Len(log)) : log[j].type # "gate.passed"
           /\ Kind(p) = "gate" => act[p].k <= tree[p[1]].max
<1>1. Knows(tree, p, act[p].at, act[p].k, log) /\ Kind(p) = tree[p[1]].kind
  BY FrameFacts, ModelPaths DEF Remembers
<1>2. Rounded(tree, p[1]) /\ act[p].k = Cardinality(RoundsIn(log, p, Len(log))) + 1
  BY <1>1 DEF Knows, Rounded
<1>3. Kind(p) = "gate" => /\ act[p].k <= tree[p[1]].max
                          /\ \A j \in RoundsIn(log, p, Len(log)) : log[j].type # "gate.passed"
  BY <1>1 DEF Knows
<1>4. ASSUME Kind(p) = "loop", NEW j \in RoundsIn(log, p, Len(log))
      PROVE  log[j].type # "gate.passed"
  <2>1. j \in 1 .. Len(log) /\ log[j].type \in RoundTypes /\ log[j].path = p
    BY <1>4 DEF RoundsIn
  <2>2. RoundOK(tree, log, j)
    BY <2>1 DEF WalkInv, WalkLog, LogOK, EntryOK
  <2> QED
    BY <1>1, <1>4, <2>1, <2>2 DEF RoundOK
<1> QED
  BY <1>2, <1>3, <1>4

\* the events es, of which one records the round
LEMMA RoundLogs ==
    ASSUME WalkInv, NEW p \in DOMAIN act, Kind(p) \in {"loop", "gate"}, act[p].at > 0,
           NEW es \in Seq(LogEvent(tree)), log' = log \o es, stable' = stable \/ stable' = Len(log'),
           NEW x \in 1 .. Len(es), \A y \in 1 .. Len(es) : y # x => es[y].type \notin Loud,
           es[x].type \in RoundTypes, es[x].path = p, es[x].n = act[p].k,
           Kind(p) = IF es[x].type = "loop.iter" THEN "loop" ELSE "gate"
    PROVE  /\ Logs(p)
           /\ Cardinality(RoundsIn(log', p, Len(log'))) = act[p].k
           /\ es[x].type # "gate.passed" =>
                 \A j \in RoundsIn(log', p, Len(log')) : log'[j].type # "gate.passed"
<1> DEFINE E == LogEvent(tree)
           n == Len(log) + x
<1>1. LogOK(tree, log) /\ InTree(tree, p) /\ Kind(p) = tree[p[1]].kind
  BY FrameFacts, ModelPaths DEF WalkInv, WalkLog
<1>2. /\ act[p].k = Cardinality(RoundsIn(log, p, Len(log))) + 1
      /\ \A j \in RoundsIn(log, p, Len(log)) : log[j].type # "gate.passed"
      /\ es[x].type # "loop.iter" => act[p].k <= tree[p[1]].max
  BY <1>1, NextRound
<1>3. log \in Seq(E) /\ es \in Seq(E)
  BY <1>1 DEF LogOK
<1> HIDE DEF E
<1>4. /\ log' \in Seq(E) /\ Len(log) \in Nat /\ Len(es) \in Nat /\ Len(log') = Len(log) + Len(es)
      /\ \A j \in 1 .. Len(log) : log'[j] = log[j]
      /\ \A y \in 1 .. Len(es) : log'[Len(log) + y] = es[y]
  BY <1>3
<1>5. Len(log') \in Nat /\ Grows(log, log')
  BY <1>4 DEF Grows
<1>6. n \in New(log, log') /\ log'[n] = es[x]
  BY <1>4 DEF New
<1>7. ASSUME NEW j \in New(log, log'), j # n
      PROVE  log'[j].type \notin Loud
  <2>1. j - Len(log) \in 1 .. Len(es) /\ j - Len(log) # x /\ j = Len(log) + (j - Len(log))
    BY <1>4, <1>7 DEF New
  <2>2. log'[j] = es[j - Len(log)]
    BY <1>4, <2>1
  <2> QED
    BY <2>1, <2>2
<1> HIDE DEF n
<1>8. EntryOK(tree, log', n) /\ Cardinality(RoundsIn(log', p, Len(log'))) = act[p].k
  <2>1. /\ InTree(tree, p) /\ n \in New(log, log') /\ \A j \in New(log, log') \ {n} : log'[j].type \notin Loud
        /\ log'[n].path = p /\ log'[n].n = act[p].k /\ log'[n].type \in RoundTypes
        /\ log'[n].type # "loop.iter" => act[p].k <= tree[p[1]].max
    BY <1>1, <1>2, <1>6, <1>7
  <2>2. /\ log'[n].type = "loop.iter" => tree[p[1]].kind = "loop"
        /\ log'[n].type # "loop.iter" => tree[p[1]].kind = "gate"
    BY <1>1, <1>6
  <2>3. PICK l2, k : l2 = log' /\ k = act[p].k
    OBVIOUS
  <2>4. /\ k = Cardinality(RoundsIn(log, p, Len(log))) + 1
        /\ Len(l2) \in Nat /\ Grows(log, l2)
        /\ n \in New(log, l2) /\ \A j \in New(log, l2) \ {n} : l2[j].type \notin Loud
        /\ l2[n].path = p /\ l2[n].n = k /\ l2[n].type \in RoundTypes
        /\ l2[n].type # "loop.iter" => k <= tree[p[1]].max
        /\ l2[n].type = "loop.iter" => tree[p[1]].kind = "loop"
        /\ l2[n].type # "loop.iter" => tree[p[1]].kind = "gate"
    BY <1>2, <1>5, <2>1, <2>2, <2>3
  <2>5. EntryOK(tree, l2, n) /\ Cardinality(RoundsIn(l2, p, Len(l2))) = k
    BY <1>1, <1>2, <2>4, NewRoundOK
  <2> QED
    BY <2>3, <2>5
<1>9. LogOK(tree, log')
  BY <1>1, <1>4, <1>5, <1>7, <1>8, LogGrows DEF E
<1>10. Logs(p)
  BY <1>4, <1>5, <1>6, <1>7, <1>9 DEF Logs, Speaks
<1>11. ASSUME es[x].type # "gate.passed", NEW j \in RoundsIn(log', p, Len(log'))
       PROVE  log'[j].type # "gate.passed"
  <2>1. j \in 1 .. Len(log') /\ log'[j].type \in RoundTypes /\ log'[j].path = p
    BY <1>11 DEF RoundsIn
  <2>2. CASE j <= Len(log)
    <3>1. j \in RoundsIn(log, p, Len(log)) /\ log'[j] = log[j]
      BY <1>4, <2>1, <2>2 DEF RoundsIn
    <3> QED
      BY <1>2, <3>1
  <2>3. CASE j > Len(log)
    <3>1. j \in New(log, log')
      BY <1>4, <2>1, <2>3 DEF New
    <3> QED
      BY <1>6, <1>7, <1>11, <2>1, <3>1 DEF Loud
  <2> QED
    BY <1>4, <2>1, <2>2, <2>3
<1> QED
  BY <1>8, <1>10, <1>11

LEMMA KnowsRound ==
    ASSUME NEW p, Kind(p) \in {"loop", "gate"}, NEW l, NEW i, NEW k,
           k = Cardinality(RoundsIn(l, p, Len(l))) + 1,
           Kind(p) = "gate" => /\ k <= tree[p[1]].max
                               /\ \A j \in RoundsIn(l, p, Len(l)) : l[j].type # "gate.passed"
    PROVE  Knows(tree, p, i, k, l)
<1>1. tree[p[1]].kind = Kind(p)
  BY ModelPaths
<1> QED
  BY <1>1 DEF Knows, Rounded

\* the fold finds the number of iterations
LEMMA LookupLoopItersFinds ==
    ASSUME WalkInv, NEW p \in DOMAIN act, Kind(p) = "loop"
    PROVE  LookupLoopIters(p) = Cardinality(RoundsIn(log, p, Len(log))) /\ LookupLoopIters(p) \in Nat
<1> DEFINE S == RoundsIn(log, p, Len(log))
<1>1. LogOK(tree, log) /\ Len(log) \in Nat /\ Kind(p) = tree[p[1]].kind
  BY ModelPaths DEF WalkInv, WalkLog, LogOK
<1>2. S = Events("loop.iter", p)
  <2>1. Events("loop.iter", p) \subseteq S
    BY DEF Events, RoundsIn, RoundTypes
  <2>2. ASSUME NEW j \in S
        PROVE  j \in Events("loop.iter", p)
    <3>1. j \in 1 .. Len(log) /\ log[j].type \in RoundTypes /\ log[j].path = p
      BY <2>2 DEF RoundsIn
    <3>2. RoundOK(tree, log, j)
      BY <1>1, <3>1 DEF LogOK, EntryOK
    <3> QED
      BY <1>1, <3>1, <3>2 DEF RoundOK, Events
  <2> QED
    BY <2>1, <2>2
<1>3. /\ \A i, j \in S : i < j => log[i].n < log[j].n
      /\ S # {} => \E i \in S : log[i].n = Cardinality(S) /\ \A j \in S : j <= i
  BY <1>1, RoundsAreNumbered
<1>4. Cardinality(S) \in Nat /\ (S = {} => Cardinality(S) = 0) /\ S \in SUBSET (1 .. Len(log))
  BY <1>1, RoundsAreFinite, FS_EmptySet DEF RoundsIn
<1> HIDE DEF S
<1>5. CASE S = {}
  <2>1. LookupLoopIters(p) = 0
    BY <1>2, <1>5, Zenon DEF LookupLoopIters
  <2> QED
    BY <1>4, <1>5, <2>1 DEF S
<1>6. CASE S # {}
  <2>1. PICK i \in S : LastOf("loop.iter", p) = log[i].n /\ \A j \in S : j <= i
    BY <1>2, <1>6, LastOfIsThere
  <2>2. PICK j \in S : log[j].n = Cardinality(S) /\ \A y \in S : y <= j
    BY <1>3, <1>6
  <2>3. i = j
    BY <1>4, <2>1, <2>2
  <2>4. LookupLoopIters(p) = LastOf("loop.iter", p)
    BY <1>2, <1>6, Zenon DEF LookupLoopIters
  <2> QED
    BY <1>4, <2>1, <2>2, <2>3, <2>4 DEF S
<1> QED
  BY <1>5, <1>6

\* what an iteration leaves in the log: its record, perhaps behind a skip
LEMMA IterEventsFacts ==
    ASSUME WalkInv, NEW p \in DOMAIN act, Callee(p) \in DOMAIN ret
    PROVE  /\ IterEvents(p) \in Seq(LogEvent(tree)) /\ Len(IterEvents(p)) \in {1, 2}
           /\ IterEvents(p)[Len(IterEvents(p))] = Event("loop.iter", p, act[p].k)
           /\ Len(IterEvents(p)) = 2 => IterEvents(p)[1].type = "node.skipped"
<1> DEFINE E == LogEvent(tree)
           e == Event("node.skipped", Callee(p), 0)
           f == Event("loop.iter", p, act[p].k)
<1>1. Callee(p) \in Contexts(tree) /\ p \in Contexts(tree) /\ act[p].k \in Nat
  BY FrameFacts, PathIsContext DEF WalkInv, WalkFrames, Frames, Struct, Present
<1>2. e \in E /\ e.type = "node.skipped"
  BY <1>1, EventIsTyped DEF EventTypes
<1>3. f \in E
  BY <1>1, EventIsTyped DEF EventTypes
<1> HIDE DEF E, e, f
<1>4. CASE Got(p) = "skip"
  <2>1. IterEvents(p) = <<e>> \o <<f>>
    BY <1>4, Zenon DEF IterEvents, e, f
  <2>2. PICK x, y \in Seq(E) : x = <<e>> /\ y = <<f>>
    <3>1. <<e>> \in Seq(E)
      BY <1>2
    <3>2. <<f>> \in Seq(E)
      BY <1>3
    <3> QED
      BY <3>1, <3>2
  <2>3. x \o y \in Seq(E) /\ Len(x \o y) = 2 /\ (x \o y)[1] = e /\ (x \o y)[2] = f
    BY <2>2
  <2> QED
    BY <1>2, <2>1, <2>2, <2>3 DEF E, f
<1>5. CASE Got(p) # "skip"
  <2>1. IterEvents(p) = <<>> \o <<f>>
    BY <1>5, Zenon DEF IterEvents, f
  <2>2. <<>> \o <<f>> = <<f>> /\ <<f>> \in Seq(E) /\ Len(<<f>>) = 1 /\ <<f>>[1] = f
    BY <1>3
  <2> QED
    BY <2>1, <2>2 DEF E, f
<1> QED
  BY <1>4, <1>5

LEMMA LoopSteps ==
    ASSUME WalkInv, NEW p \in DOMAIN act, LoopStart(p) \/ LoopIter(p) \/ LoopUntilError(p) \/ LoopStop(p)
    PROVE  WalkInv' /\ Logs(p)
<1>1. UNCHANGED fixed /\ (Fault \/ NoFault) /\ Kind(p) = "loop" /\ (act[p].at = 0 \/ Callee(p) \in DOMAIN ret)
  BY DEF LoopStart, LoopIter, LoopUntilError, LoopStop, Fresh, Back
<1>2. Kind(p) \notin {"step", "parallel"} /\ 1 \in Has(tree, p[1]) /\ "ok" \in Results
      /\ "permanent_failure" \in Results
  BY <1>1, KidsExist DEF Results, TypedFailures
<1>3. CASE LoopStart(p)
  <2> DEFINE k == LookupLoopIters(p) + 1
  <2>1. Silent /\ Call(p, 1, k) /\ log' = log
    BY <1>3 DEF LoopStart, Silent, journal
  <2>2. k = Cardinality(RoundsIn(log', p, Len(log'))) + 1 /\ k \in Nat
    BY <1>1, <2>1, LookupLoopItersFinds
  <2> HIDE DEF k
  <2>3. Knows(tree, p, 1, k, log')
    BY <1>1, <2>2, KnowsRound
  <2>4. Logs(p)
    BY <2>1, SilentLogs
  <2> QED
    BY <1>1, <1>2, <2>1, <2>2, <2>3, <2>4, CallsHere
<1>4. CASE LoopStop(p)
  <2>1. Silent /\ Return(p, Got(p)) /\ Got(p) \in Results
    BY <1>4, FrameFacts DEF LoopStop, Back
  <2> QED
    BY <1>1, <1>2, <2>1, SilentLogs, ReturnsHere
<1> DEFINE es == IterEvents(p)
           more == Append(es, Event("node.failed", p, 0))
           E == LogEvent(tree)
<1>5. ASSUME Callee(p) \in DOMAIN ret, act[p].at > 0
      PROVE  /\ es \in Seq(E) /\ Len(es) \in {1, 2} /\ es[Len(es)] = Event("loop.iter", p, act[p].k)
             /\ Len(es) = 2 => es[1].type = "node.skipped"
             /\ es[Len(es)].type = "loop.iter" /\ es[Len(es)].path = p /\ es[Len(es)].n = act[p].k
             /\ Event("node.failed", p, 0) \in E /\ Event("node.failed", p, 0).type = "node.failed"
  <2>1. p \in Contexts(tree) /\ act[p].k \in Nat
    BY FrameFacts
  <2> QED
    BY <1>5, <2>1, IterEventsFacts, EventIsTyped DEF EventTypes
<1>6. CASE LoopIter(p)
  <2>1. /\ log' = log \o es /\ stable' = stable /\ Callee(p) \in DOMAIN ret /\ act[p].at > 0
        /\ Return(p, "ok") \/ Call(p, 1, act[p].k + 1)
    BY <1>6 DEF LoopIter, Back
  <2> HIDE DEF es
  <2>2. \A y \in 1 .. Len(es) : y # Len(es) => es[y].type \notin Loud
    BY <1>5, <2>1 DEF Loud, RoundTypes
  <2>3. Len(es) \in 1 .. Len(es)
    <3>1. Len(es) \in {1, 2}
      BY <1>5, <2>1
    <3> QED
      BY <3>1
  <2>4. PICK x \in 1 .. Len(es) : x = Len(es)
    BY <2>3
  <2>5. /\ es \in Seq(LogEvent(tree)) /\ \A y \in 1 .. Len(es) : y # x => es[y].type \notin Loud
        /\ es[x].type = "loop.iter" /\ es[x].type \in RoundTypes /\ es[x].path = p /\ es[x].n = act[p].k
    BY <1>5, <2>1, <2>2, <2>4 DEF RoundTypes
  <2> HIDE DEF E
  <2>6. Logs(p) /\ Cardinality(RoundsIn(log', p, Len(log'))) = act[p].k
    BY <1>1, <2>1, <2>5, RoundLogs
  <2>7. CASE Return(p, "ok")
    BY <1>1, <1>2, <2>6, <2>7, ReturnsHere
  <2>8. CASE Call(p, 1, act[p].k + 1)
    <3>1. act[p].k + 1 \in Nat
      BY FrameFacts
    <3>2. Knows(tree, p, 1, act[p].k + 1, log')
      BY <1>1, <2>6, KnowsRound
    <3> QED
      BY <1>1, <1>2, <2>6, <2>8, <3>1, <3>2, CallsHere
  <2> QED
    BY <2>1, <2>7, <2>8
<1>7. CASE LoopUntilError(p)
  <2>1. /\ log' = log \o more /\ stable' = Len(log') /\ Callee(p) \in DOMAIN ret /\ act[p].at > 0
        /\ Return(p, "permanent_failure")
    BY <1>7 DEF LoopUntilError, Back
  <2>2. PICK e : e = Event("node.failed", p, 0)
    OBVIOUS
  <2>3. e \in E /\ e.type = "node.failed"
    BY <1>5, <2>1, <2>2
  <2>4. more = Append(es, e)
    BY <2>2
  <2> HIDE DEF es, more, E
  <2>5. /\ es \in Seq(E) /\ Len(es) \in {1, 2} /\ (Len(es) = 2 => es[1].type = "node.skipped")
        /\ es[Len(es)].type = "loop.iter" /\ es[Len(es)].path = p /\ es[Len(es)].n = act[p].k
    BY <1>5, <2>1
  <2>6. /\ more \in Seq(E) /\ Len(more) = Len(es) + 1 /\ more[Len(es) + 1] = e
        /\ \A y \in 1 .. Len(es) : more[y] = es[y]
    BY <2>3, <2>4, <2>5
  <2>7. PICK x \in 1 .. Len(more) : x = Len(es)
    BY <2>5, <2>6
  <2>8. more[x] = es[Len(es)]
    BY <2>5, <2>6, <2>7
  <2>9. \A y \in 1 .. Len(more) : y # x => more[y].type \notin Loud
    <3>1. SUFFICES ASSUME NEW y \in 1 .. Len(more), y # x PROVE more[y].type \in {"node.failed", "node.skipped"}
      BY DEF Loud, RoundTypes
    <3>2. y = Len(es) + 1 \/ (y = 1 /\ Len(es) = 2)
      BY <2>5, <2>6, <2>7, <3>1
    <3> QED
      BY <2>3, <2>5, <2>6, <3>2
  <2>10. /\ more[x].type = "loop.iter" /\ more[x].type \in RoundTypes /\ more[x].path = p /\ more[x].n = act[p].k
    BY <2>5, <2>8 DEF RoundTypes
  <2>11. Logs(p)
    <3>1. more \in Seq(LogEvent(tree))
      BY <2>6 DEF E
    <3> QED
      BY <1>1, <2>1, <2>9, <2>10, <3>1, RoundLogs
  <2> QED
    BY <1>1, <1>2, <2>1, <2>11, ReturnsHere
<1> QED
  BY <1>3, <1>4, <1>6, <1>7

LEMMA AttemptsAreRounds ==
    ASSUME WalkInv, NEW p \in DOMAIN act, Kind(p) = "gate"
    PROVE  /\ Attempts(p) = RoundsIn(log, p, Len(log)) /\ Cardinality(Attempts(p)) \in Nat
           /\ ~LastPassed(p) => \A j \in RoundsIn(log, p, Len(log)) : log[j].type # "gate.passed"
<1> DEFINE S == RoundsIn(log, p, Len(log))
<1>1. LogOK(tree, log) /\ Len(log) \in Nat /\ Kind(p) = tree[p[1]].kind
  BY ModelPaths DEF WalkInv, WalkLog, LogOK
<1>2. Attempts(p) = S
  <2>1. Attempts(p) \subseteq S
    BY DEF Attempts, Events, RoundsIn, RoundTypes
  <2>2. ASSUME NEW j \in S
        PROVE  j \in Attempts(p)
    <3>1. j \in 1 .. Len(log) /\ log[j].type \in RoundTypes /\ log[j].path = p
      BY <2>2 DEF RoundsIn
    <3>2. RoundOK(tree, log, j)
      BY <1>1, <3>1 DEF LogOK, EntryOK
    <3>3. log[j].type \in {"gate.passed", "gate.rejected"}
      BY <1>1, <3>1, <3>2 DEF RoundOK, RoundTypes
    <3> QED
      BY <3>1, <3>3 DEF Attempts, Events
  <2> QED
    BY <2>1, <2>2
<1>3. Cardinality(S) \in Nat /\ S \in SUBSET (1 .. Len(log))
  BY <1>1, RoundsAreFinite DEF RoundsIn
<1>4. ASSUME NEW i \in S, log[i].type = "gate.passed"
      PROVE  LastPassed(p)
  <2>1. \A j \in S : ~(i < j)
    BY <1>1, <1>4, RoundsAreNumbered
  <2>2. \A j \in S : j <= i
    BY <1>3, <2>1
  <2>3. i \in Events("gate.passed", p)
    BY <1>4 DEF RoundsIn, Events
  <2> QED
    BY <1>2, <2>2, <2>3 DEF LastPassed
<1> QED
  BY <1>2, <1>3, <1>4

\* the verdict of an attempt
LEMMA AttemptLogs ==
    ASSUME WalkInv, NEW p \in DOMAIN act, Kind(p) = "gate", act[p].at > 0,
           NEW type \in {"gate.passed", "gate.rejected"}, Commit(Event(type, p, act[p].k))
    PROVE  /\ Logs(p)
           /\ Cardinality(RoundsIn(log', p, Len(log'))) = act[p].k
           /\ type = "gate.rejected" => \A j \in RoundsIn(log', p, Len(log')) : log'[j].type # "gate.passed"
<1> DEFINE E == LogEvent(tree)
<1>1. PICK e : e = Event(type, p, act[p].k)
  OBVIOUS
<1>2. e \in E /\ e.type = type /\ e.path = p /\ e.n = act[p].k
  BY <1>1, FrameFacts, EventIsTyped DEF EventTypes
<1>3. log' = Append(log, e) /\ stable' = Len(log) + 1
  BY <1>1 DEF Commit
<1>4. log \in Seq(E)
  BY DEF WalkInv, WalkLog, LogOK
<1> HIDE DEF E
<1>5. PICK es \in Seq(E) : es = <<e>>
  <2>1. e \in E
    BY <1>2
  <2>2. <<e>> \in Seq(E)
    BY <2>1
  <2> QED
    BY <2>2
<1>6. Len(es) = 1 /\ es[1] = e
  BY <1>5
<1>7. log' = log \o es /\ Len(log') = Len(log) + 1
  BY <1>2, <1>3, <1>4, <1>5
<1>8. PICK x \in 1 .. Len(es) : x = 1
  BY <1>6
<1>9. /\ \A y \in 1 .. Len(es) : y # x => es[y].type \notin Loud
      /\ es[x].type \in RoundTypes /\ es[x].path = p /\ es[x].n = act[p].k /\ es[x].type = type
      /\ Kind(p) = IF es[x].type = "loop.iter" THEN "loop" ELSE "gate"
      /\ es \in Seq(LogEvent(tree)) /\ (stable' = stable \/ stable' = Len(log'))
  BY <1>2, <1>3, <1>6, <1>7, <1>8 DEF RoundTypes, E
<1> QED
  BY <1>7, <1>9, RoundLogs

LEMMA GateSteps ==
    ASSUME WalkInv, NEW p \in DOMAIN act,
           GateStart(p) \/ GateEvaluate(p) \/ GatePass(p) \/ GateReject(p) \/ GateSkip(p) \/ GateStop(p)
    PROVE  WalkInv'
<1>1. UNCHANGED fixed /\ (Fault \/ NoFault) /\ Kind(p) = "gate" /\ (act[p].at = 0 \/ Callee(p) \in DOMAIN ret)
  BY DEF GateStart, GateEvaluate, GatePass, GateReject, GateSkip, GateStop, Fresh, Back
<1>2. Kind(p) \notin {"step", "parallel"} /\ {"ok", "rejected"} \subseteq Results
      /\ 1 \in Has(tree, p[1]) /\ 2 \in Has(tree, p[1])
  <2>1. Has(tree, p[1]) = 1 .. 2
    BY <1>1, KidsExist
  <2> QED
    BY <1>1, <2>1 DEF Results, TypedFailures
<1>3. Node(p).max = tree[p[1]].max /\ tree[p[1]].max \in Nat /\ act[p].k \in Nat
  <2>1. Tree(tree) /\ p[1] \in Numbers(tree)
    BY WorkflowIsTree, FrameFacts DEF WalkInv
  <2> QED
    BY <2>1, NodeFacts, FrameFacts, ModelPaths
<1>4. CASE GateStart(p)
  <2> DEFINE k == Cardinality(Attempts(p)) + 1
  <2>1. Silent /\ log' = log
    BY <1>4 DEF GateStart, Silent, journal
  <2>2. Logs(p)
    BY <2>1, SilentLogs
  <2>3. CASE Return(p, "ok") \/ Return(p, "rejected")
    BY <1>1, <1>2, <2>2, <2>3, ReturnsHere
  <2>4. CASE ~LastPassed(p) /\ Cardinality(Attempts(p)) < Node(p).max /\ Call(p, 1, k)
    <3>1. /\ k \in Nat /\ k <= tree[p[1]].max
          /\ k = Cardinality(RoundsIn(log', p, Len(log'))) + 1
          /\ \A j \in RoundsIn(log', p, Len(log')) : log'[j].type # "gate.passed"
      BY <1>1, <1>3, <2>1, <2>4, AttemptsAreRounds
    <3> HIDE DEF k
    <3>2. Knows(tree, p, 1, k, log')
      BY <1>1, <3>1, KnowsRound
    <3> QED
      BY <1>1, <1>2, <2>2, <2>4, <3>1, <3>2, CallsHere
  <2> QED
    BY <1>4, <2>3, <2>4 DEF GateStart
<1>5. CASE GateEvaluate(p)
  <2>1. Silent /\ log' = log /\ Call(p, 2, act[p].k) /\ act[p].at > 0
    BY <1>5 DEF GateEvaluate, Back, Silent, journal
  <2>2. Knows(tree, p, 2, act[p].k, log')
    BY <1>1, <2>1, NextRound, KnowsRound
  <2> QED
    BY <1>1, <1>2, <1>3, <2>1, <2>2, SilentLogs, CallsHere
<1>6. CASE GatePass(p)
  <2>1. Commit(Event("gate.passed", p, act[p].k)) /\ Return(p, "ok") /\ act[p].at > 0
    BY <1>6 DEF GatePass, Back
  <2>2. Logs(p)
    BY <1>1, <2>1, AttemptLogs
  <2> QED
    BY <1>1, <1>2, <2>1, <2>2, ReturnsHere
<1>7. CASE GateReject(p)
  <2>1. Commit(Event("gate.rejected", p, act[p].k)) /\ act[p].at > 0
    BY <1>7 DEF GateReject, Back
  <2>2. /\ Logs(p) /\ Cardinality(RoundsIn(log', p, Len(log'))) = act[p].k
        /\ \A j \in RoundsIn(log', p, Len(log')) : log'[j].type # "gate.passed"
    BY <1>1, <2>1, AttemptLogs
  <2>3. CASE Return(p, "rejected")
    BY <1>1, <1>2, <2>2, <2>3, ReturnsHere
  <2>4. CASE act[p].k < Node(p).max /\ Call(p, 1, act[p].k + 1)
    <3>1. act[p].k + 1 \in Nat /\ act[p].k + 1 <= tree[p[1]].max
      BY <1>3, <2>4
    <3>2. Knows(tree, p, 1, act[p].k + 1, log')
      BY <1>1, <2>2, <3>1, KnowsRound
    <3> QED
      BY <1>1, <1>2, <2>2, <2>4, <3>1, <3>2, CallsHere
  <2> QED
    BY <1>7, <2>3, <2>4 DEF GateReject
<1>8. CASE GateSkip(p)
  <2>1. Observe(Event("node.skipped", p, 0)) /\ Return(p, "ok")
    BY <1>8 DEF GateSkip
  <2>2. Logs(p)
    BY <2>1, QuietLogs DEF EventTypes, Loud, RoundTypes
  <2> QED
    BY <1>1, <1>2, <2>1, <2>2, ReturnsHere
<1>9. CASE GateStop(p)
  <2>1. Silent /\ Return(p, Got(p)) /\ Got(p) \in Results
    BY <1>9, FrameFacts DEF GateStop, Back
  <2> QED
    BY <1>1, <1>2, <2>1, SilentLogs, ReturnsHere
<1> QED
  BY <1>4, <1>5, <1>6, <1>7, <1>8, <1>9

LEMMA TrySteps ==
    ASSUME WalkInv, NEW p \in DOMAIN act, TryDo(p) \/ TryCatch(p) \/ TryFinally(p) \/ TryEnd(p)
    PROVE  WalkInv'
<1>1. UNCHANGED fixed /\ (Fault \/ NoFault) /\ Kind(p) = "try" /\ (act[p].at = 0 \/ Callee(p) \in DOMAIN ret)
  BY DEF TryDo, TryCatch, TryFinally, TryEnd, Fresh, Back
<1>2. Kind(p) \notin {"step", "parallel"} /\ Has(tree, p[1]) = 1 .. 3 /\ 0 \in Nat
  BY <1>1, KidsExist
<1>3. 1 \in Has(tree, p[1]) /\ 2 \in Has(tree, p[1]) /\ 3 \in Has(tree, p[1])
  BY <1>2
<1>4. \A i : Knows(tree, p, i, 0, log')
  BY <1>1, NothingToKnow
<1>5. CASE TryDo(p)
  <2>1. Silent /\ Call(p, 1, 0)
    BY <1>5 DEF TryDo
  <2> QED
    BY <1>1, <1>2, <1>3, <1>4, <2>1, SilentLogs, CallsHere
<1>6. CASE TryCatch(p)
  <2>1. Silent /\ Call(p, 2, 0)
    BY <1>6 DEF TryCatch
  <2> QED
    BY <1>1, <1>2, <1>3, <1>4, <2>1, SilentLogs, CallsHere
<1>7. CASE TryFinally(p)
  <2>1. /\ Silent \/ Observe(Event("node.skipped", p, 0))
        /\ CallUnder(p, 3, 0, Got(p), {}) /\ Got(p) \in Results
    BY <1>7, FrameFacts DEF TryFinally, Back
  <2>2. Logs(p)
    BY <2>1, SilentLogs, QuietLogs DEF EventTypes, Loud, RoundTypes
  <2>3. Still
    BY <1>1 DEF Still, fixed
  <2> QED
    BY <1>1, <1>2, <1>3, <1>4, <2>1, <2>2, <2>3, Calls
<1>8. CASE TryEnd(p)
  <2> DEFINE r == IF Got(p) # "ok" THEN Got(p) ELSE IF Cancelled(p) THEN "retryable_failure" ELSE act[p].held
  <2>1. Silent /\ Return(p, r) /\ Callee(p) \in DOMAIN ret
    BY <1>8 DEF TryEnd, Back
  <2>2. r \in Results
    BY <2>1, FrameFacts DEF Results, TypedFailures
  <2> HIDE DEF r
  <2> QED
    BY <1>1, <1>2, <2>1, <2>2, SilentLogs, ReturnsHere
<1> QED
  BY <1>5, <1>6, <1>7, <1>8

LEMMA LeastExists ==
    ASSUME NEW S \in SUBSET Nat, S # {}
    PROVE  \E i \in S : \A j \in S : i <= j
<1> DEFINE R == OpToRel(<, Nat)
<1>1. \A x, y \in Nat : <<x, y>> \in R <=> x < y
  BY DEF OpToRel
<1>2. IsWellFoundedOn(R, Nat)
  BY NatLessThanWellFounded
<1> HIDE DEF R
<1>3. PICK x \in S : \A y \in S : ~(<<y, x>> \in R)
  BY <1>2, WFMin
<1>4. ASSUME NEW y \in S
      PROVE  x <= y
  <2>1. x \in Nat /\ y \in Nat
    OBVIOUS
  <2>2. ~(y < x)
    BY <1>1, <1>3, <2>1
  <2> QED
    BY <2>1, <2>2
<1> QED
  BY <1>4

LEMMA OthersRemember ==
    ASSUME Frames(tree, act, ret, log), NEW p, Speaks(log, log', p), NEW q \in DOMAIN act, q # p
    PROVE  Remembers(tree, q, act[q], log')
<1>1. Remembers(tree, q, act[q], log)
  BY DEF Frames, Remembering
<1>2. \A j \in New(log, log') : log'[j].path = q => log'[j].type \notin Loud
  BY DEF Speaks
<1> QED
  BY <1>1, <1>2, OthersDoNotMatter DEF Speaks

LEMMA ParallelFacts ==
    ASSUME WalkInv, NEW p \in DOMAIN act, Kind(p) = "parallel"
    PROVE  /\ Tree(tree) /\ Struct(tree, act, ret) /\ Frames(tree, act, ret, log) /\ Counted(act)
           /\ InTree(tree, p) /\ tree[p[1]].kind = "parallel" /\ ~Rounded(tree, p[1])
           /\ Branches(p) = Has(tree, p[1]) /\ Len(tree[p[1]].kids) \in Nat
           /\ \A f, l : Remembers(tree, p, f, l)
           /\ \A i, k : Kid(p, i, 0) = Sub(tree, p, i, k)
           /\ act[p] \in FrameType(tree)
           /\ act[p].at = 1 => Len(act[p].outs) = Len(tree[p[1]].kids)
<1>1. Tree(tree) /\ Frames(tree, act, ret, log) /\ Struct(tree, act, ret) /\ InTree(tree, p)
      /\ act[p] \in FrameType(tree) /\ tree[p[1]].kind = "parallel" /\ p[1] \in Numbers(tree)
  BY WorkflowIsTree, FrameFacts, ModelPaths DEF WalkInv, WalkFrames, Frames
<1>2. Counted(act)
  BY <1>1, FramesAreCounted
<1>3. ~Rounded(tree, p[1])
  BY <1>1 DEF Rounded
<1>4. \A f, l : Remembers(tree, p, f, l)
  BY <1>1, <1>3 DEF Remembers, Knows
<1>5. \A i, k : Kid(p, i, 0) = Sub(tree, p, i, k)
  BY <1>3, ModelPaths DEF Sub
<1>6. Branches(p) = Has(tree, p[1])
  BY ModelPaths DEF Branches, Has
<1>7. Len(tree[p[1]].kids) \in Nat
  BY <1>1, NodeFacts
<1>8. act[p].at = 1 => Len(act[p].outs) = Len(tree[p[1]].kids)
  BY <1>1 DEF Frames, FrameOK
<1> QED
  BY <1>1, <1>2, <1>3, <1>4, <1>5, <1>6, <1>7, <1>8

LEMMA ParallelForkStep ==
    ASSUME WalkInv, NEW p \in DOMAIN act, ParallelFork(p)
    PROVE  WalkInv'
<1> DEFINE f == [act[p] EXCEPT !.at = 1, !.outs = [i \in Branches(p) |-> "none"]]
           B == {Kid(p, i, 0) : i \in Branches(p)}
           D == DOMAIN act \cup B
<1>1. /\ Kind(p) = "parallel" /\ act[p].at = 0 /\ Silent /\ NoFault /\ UNCHANGED <<fixed, ret, cancelled>>
      /\ act' = [q \in D |-> IF q = p THEN f ELSE IF q \in DOMAIN act THEN act[q]
                              ELSE Frame(act[p].ctx \cup {p})]
  BY DEF ParallelFork, Fresh
<1>2. /\ Tree(tree) /\ Struct(tree, act, ret) /\ Frames(tree, act, ret, log) /\ Counted(act)
      /\ InTree(tree, p) /\ tree[p[1]].kind = "parallel" /\ ~Rounded(tree, p[1])
      /\ Branches(p) = Has(tree, p[1]) /\ Len(tree[p[1]].kids) \in Nat
      /\ act[p] \in FrameType(tree)
  BY <1>1, ParallelFacts
<1>3. f \in FrameType(tree) /\ f.at = 1 /\ Len(f.outs) = Len(tree[p[1]].kids)
      /\ \A i \in Has(tree, p[1]) : f.outs[i] = "none"
  <2>1. PICK o : o = [i \in Branches(p) |-> "none"]
    OBVIOUS
  <2>2. o \in Outs /\ Len(o) = Len(tree[p[1]].kids) /\ \A i \in Has(tree, p[1]) : o[i] = "none"
    <3>1. PICK n \in Nat : n = Len(tree[p[1]].kids)
      BY <1>2
    <3>2. o = [i \in 1 .. n |-> "none"]
      BY <1>2, <2>1, <3>1 DEF Has
    <3> QED
      BY <3>1, <3>2 DEF Outs, Has
  <2>3. f = [act[p] EXCEPT !.at = 1, !.outs = o]
    BY <2>1
  <2> HIDE DEF f
  <2> QED
    BY <1>2, <2>2, <2>3 DEF FrameType
<1>4. B = {Sub(tree, p, i, 0) : i \in Has(tree, p[1])}
  BY <1>1, <1>2, ParallelFacts
<1> HIDE DEF f, B
<1>5. /\ DOMAIN act' = DOMAIN act \cup B /\ act'[p] = f
      /\ \A q \in DOMAIN act \ {p} : act'[q] = act[q]
      /\ \A q \in DOMAIN act' : q \in DOMAIN act \/ act'[q] = Frame(act[p].ctx \cup {p})
  BY <1>1
<1>6. Alone(tree, act, DOMAIN ret, p)
  <2>1. \A i \in Has(tree, p[1]) : ~Waits(tree, act, p, i)
    BY <1>1, <1>2 DEF Waits
  <2> QED
    BY <1>2, <2>1, AloneIfWaitingForNone
<1>7. Struct(tree, act', ret')
  <2>1. PICK a2 : a2 = act'
    OBVIOUS
  <2>2. /\ DOMAIN a2 = DOMAIN act \cup {Sub(tree, p, i, 0) : i \in Has(tree, p[1])}
        /\ \A q \in DOMAIN act \ {p} : a2[q] = act[q]
        /\ a2[p].at = 1 /\ \A i \in Has(tree, p[1]) : a2[p].outs[i] = "none"
    BY <1>3, <1>4, <1>5, <2>1
  <2>3. Struct(tree, a2, ret)
    BY <1>2, <1>6, <2>2, ForkKeepsStruct
  <2> QED
    BY <1>1, <2>1, <2>3
<1>8. Logs(p) /\ Speaks(log, log', p)
  BY <1>1, SilentLogs DEF Logs
<1>9. act[p].ctx \cup {p} \subseteq Contexts(tree)
  BY FrameFacts
<1>10. ASSUME NEW q \in DOMAIN act'
       PROVE  FrameOK(tree, q, act'[q]) /\ Remembers(tree, q, act'[q], log')
  <2>1. CASE q = p
    <3>1. FrameOK(tree, p, f)
      BY <1>2, <1>3 DEF FrameOK
    <3>2. Remembers(tree, p, f, log')
      BY <1>1, ParallelFacts
    <3> QED
      BY <1>5, <2>1, <3>1, <3>2
  <2>2. CASE q \in DOMAIN act \ {p}
    <3>1. act'[q] = act[q] /\ FrameOK(tree, q, act[q])
      BY <1>2, <1>5, <2>2 DEF Frames
    <3>2. Remembers(tree, q, act[q], log')
      BY <1>2, <1>8, <2>2, OthersRemember
    <3> QED
      BY <3>1, <3>2
  <2>3. CASE act'[q] = Frame(act[p].ctx \cup {p})
    BY <1>9, <2>3, FreshFrameOK
  <2> QED
    BY <1>5, <2>1, <2>2, <2>3
<1>11. \A q \in DOMAIN ret' : ret'[q] \in Results
  BY <1>1, <1>2 DEF Frames
<1>12. Frames(tree, act', ret', log')
  BY <1>7, <1>10, <1>11 DEF Frames, Remembering
<1>13. Still /\ cancelled' \subseteq Contexts(tree)
  BY <1>1 DEF fixed, Still, WalkInv, WalkStatic
<1> QED
  BY <1>1, <1>8, <1>12, <1>13, Steps

LEMMA ParallelBranchStep ==
    ASSUME WalkInv, NEW p \in DOMAIN act, ParallelBranch(p)
    PROVE  WalkInv'
<1>1. Kind(p) = "parallel" /\ act[p].at = 1 /\ NoFault /\ UNCHANGED fixed
  BY DEF ParallelBranch, Forked
<1>2. /\ Tree(tree) /\ Struct(tree, act, ret) /\ Frames(tree, act, ret, log)
      /\ InTree(tree, p) /\ tree[p[1]].kind = "parallel"
      /\ Branches(p) = Has(tree, p[1]) /\ Len(tree[p[1]].kids) \in Nat
      /\ act[p] \in FrameType(tree) /\ Len(act[p].outs) = Len(tree[p[1]].kids)
  BY <1>1, ParallelFacts
<1>3. PICK i \in Branches(p) :
          LET c == Kid(p, i, 0) IN
          /\ c \in DOMAIN ret
          /\ act' = [act EXCEPT ![p].outs[i] = IF ret[c] = "skip" THEN "ok" ELSE ret[c]]
          /\ ret' = Forget(ret, c)
          /\ cancelled' = IF ret[c] \in {"ok", "skip"} THEN cancelled ELSE cancelled \cup {p}
          /\ IF ret[c] = "skip" THEN Observe(Event("node.skipped", p, 0)) ELSE Silent
  BY DEF ParallelBranch
<1>4. PICK c : c = Kid(p, i, 0)
  OBVIOUS
<1>5. PICK o : o = IF ret[c] = "skip" THEN "ok" ELSE ret[c]
  OBVIOUS
<1>6. PICK outs : outs = [act[p].outs EXCEPT ![i] = o]
  OBVIOUS
<1>7. PICK f : f = [act[p] EXCEPT !.outs = outs]
  OBVIOUS
<1>8. /\ c \in DOMAIN ret /\ act' = [act EXCEPT ![p] = f] /\ ret' = Forget(ret, c)
      /\ Silent \/ Observe(Event("node.skipped", p, 0))
  <2>1. /\ c \in DOMAIN ret /\ ret' = Forget(ret, c)
        /\ IF ret[c] = "skip" THEN Observe(Event("node.skipped", p, 0)) ELSE Silent
    BY <1>3, <1>4
  <2>2. act' = [act EXCEPT ![p].outs[i] = o]
    BY <1>3, <1>4, <1>5
  <2>3. act' = [act EXCEPT ![p] = f]
    BY <1>6, <1>7, <2>2
  <2> QED
    BY <2>1, <2>3
<1>9. o \in Results
  BY <1>2, <1>5, <1>8 DEF Frames, Results
<1>10. /\ outs \in Outs /\ Len(outs) = Len(act[p].outs)
       /\ \A j \in Has(tree, p[1]) : j # i => outs[j] = act[p].outs[j]
  <2>1. act[p].outs \in Seq(Results \cup {"none"}) /\ i \in 1 .. Len(act[p].outs)
    BY <1>2 DEF FrameType, Outs, Has
  <2>2. o \in Results \cup {"none"}
    BY <1>9
  <2>3. PICK R : R = Results \cup {"none"}
    OBVIOUS
  <2>4. outs \in Seq(R) /\ Len(outs) = Len(act[p].outs) /\ \A j \in 1 .. Len(act[p].outs) : j # i => outs[j] = act[p].outs[j]
    BY <1>6, <2>1, <2>2, <2>3
  <2> QED
    BY <1>2, <2>3, <2>4 DEF Outs, Has
<1>11. f \in FrameType(tree) /\ f.at = 1 /\ f.k = act[p].k /\ f.outs = outs
  BY <1>1, <1>2, <1>7, <1>10 DEF FrameType
<1>12. /\ DOMAIN act' = DOMAIN act /\ act'[p] = f /\ \A q \in DOMAIN act \ {p} : act'[q] = act[q]
       /\ DOMAIN ret' = DOMAIN ret \ {c} /\ \A q \in DOMAIN ret' : ret'[q] = ret[q]
  BY <1>8 DEF Forget, Restrict
<1>13. ASSUME NEW q \in DOMAIN act \cup DOMAIN ret', Over(tree, p, q), q # p
       PROVE  \E j \in Has(tree, p[1]) : Waits(tree, act', p, j) /\ Over(tree, Sub(tree, p, j, act'[p].k), q)
  <2>1. q \in Present(act, ret) /\ q # c
    BY <1>2, <1>8, <1>12, <1>13 DEF Present, Struct
  <2>2. PICK j \in Has(tree, p[1]) : Waits(tree, act, p, j) /\ Over(tree, Sub(tree, p, j, act[p].k), q)
    BY <1>2, <1>13, <2>1 DEF Struct, Hanging
  <2>3. j # i
    <3>1. SUFFICES ASSUME j = i PROVE FALSE
      OBVIOUS
    <3>2. Over(tree, c, q)
      BY <1>1, <1>4, <2>2, <3>1, ParallelFacts
    <3> QED
      BY <1>2, <1>8, <2>1, <3>2, ReturnedIsBare
  <2>4. Waits(tree, act', p, j)
    BY <1>2, <1>10, <1>11, <1>12, <2>2, <2>3 DEF Waits
  <2>5. act'[p].k = act[p].k
    BY <1>11, <1>12
  <2> QED
    BY <2>2, <2>4, <2>5
<1>14. Struct(tree, act', ret')
  <2>1. PICK a2, r2 : a2 = act' /\ r2 = ret'
    OBVIOUS
  <2>2. /\ DOMAIN a2 = DOMAIN act /\ \A q \in DOMAIN act \ {p} : a2[q] = act[q]
        /\ DOMAIN r2 \subseteq DOMAIN ret
        /\ \A q \in DOMAIN act \cup DOMAIN r2 : Over(tree, p, q) /\ q # p =>
               \E j \in Has(tree, p[1]) : Waits(tree, a2, p, j) /\ Over(tree, Sub(tree, p, j, a2[p].k), q)
    BY <1>12, <1>13, <2>1
  <2>3. Struct(tree, a2, r2)
    BY <1>2, <2>2, EditKeepsStruct
  <2> QED
    BY <2>1, <2>3
<1>15. Logs(p) /\ Speaks(log, log', p)
  BY <1>8, SilentLogs, QuietLogs DEF EventTypes, Loud, RoundTypes, Logs
<1>16. ASSUME NEW q \in DOMAIN act'
       PROVE  FrameOK(tree, q, act'[q]) /\ Remembers(tree, q, act'[q], log')
  <2>1. CASE q = p
    <3>1. FrameOK(tree, p, f)
      BY <1>2, <1>10, <1>11 DEF FrameOK
    <3>2. Remembers(tree, p, f, log')
      BY <1>1, ParallelFacts
    <3> QED
      BY <1>12, <2>1, <3>1, <3>2
  <2>2. CASE q # p
    <3>1. act'[q] = act[q] /\ FrameOK(tree, q, act[q])
      BY <1>2, <1>12, <2>2 DEF Frames
    <3>2. Remembers(tree, q, act[q], log')
      BY <1>2, <1>12, <1>15, <2>2, OthersRemember
    <3> QED
      BY <3>1, <3>2
  <2> QED
    BY <2>1, <2>2
<1>17. \A q \in DOMAIN ret' : ret'[q] \in Results
  BY <1>2, <1>12 DEF Frames
<1>18. Frames(tree, act', ret', log')
  BY <1>14, <1>16, <1>17 DEF Frames, Remembering
<1>19. Still /\ cancelled' \subseteq Contexts(tree)
  <2>1. p \in Contexts(tree) /\ cancelled \subseteq Contexts(tree)
    BY FrameFacts DEF WalkInv, WalkStatic
  <2>2. cancelled' = cancelled \/ cancelled' = cancelled \cup {p}
    BY <1>3
  <2>3. Still
    BY <1>1 DEF fixed, Still
  <2> QED
    BY <2>1, <2>2, <2>3
<1> QED
  BY <1>1, <1>15, <1>18, <1>19, Steps

LEMMA ParallelJoinStep ==
    ASSUME WalkInv, NEW p \in DOMAIN act, ParallelJoin(p)
    PROVE  WalkInv'
<1>1. /\ Kind(p) = "parallel" /\ act[p].at = 1 /\ NoFault /\ Silent /\ UNCHANGED <<fixed, cancelled>>
      /\ \A i \in Branches(p) : act[p].outs[i] # "none"
      /\ act' = Forget(act, p) /\ ret' = Extend(ret, p, GroupResult(p))
  BY DEF ParallelJoin, Forked
<1>2. /\ Tree(tree) /\ Struct(tree, act, ret) /\ Frames(tree, act, ret, log)
      /\ tree[p[1]].kind = "parallel"
      /\ Branches(p) = Has(tree, p[1]) /\ Len(tree[p[1]].kids) \in Nat
      /\ act[p] \in FrameType(tree) /\ Len(act[p].outs) = Len(tree[p[1]].kids)
  BY <1>1, ParallelFacts
<1>3. Alone(tree, act, DOMAIN ret, p)
  <2>1. \A i \in Has(tree, p[1]) : ~Waits(tree, act, p, i)
    BY <1>1, <1>2 DEF Waits
  <2> QED
    BY <1>2, <2>1, AloneIfWaitingForNone
<1>4. GroupResult(p) \in Results
  <2> DEFINE bad == {i \in Branches(p) : act[p].outs[i] # "ok"}
             first == CHOOSE i \in bad : \A j \in bad : i <= j
  <2>1. \A i \in Branches(p) : act[p].outs[i] \in Results
    <3>1. act[p].outs \in Seq(Results \cup {"none"})
      BY <1>2 DEF FrameType, Outs
    <3>2. \A i \in Branches(p) : i \in 1 .. Len(act[p].outs)
      BY <1>2 DEF Has
    <3>3. \A i \in Branches(p) : act[p].outs[i] \in Results \cup {"none"}
      BY <3>1, <3>2
    <3> QED
      BY <1>1, <3>3
  <2>2. bad \in SUBSET Nat
    BY <1>2 DEF Has
  <2>3. CASE bad = {}
    <3>1. GroupResult(p) = "ok"
      BY <2>3, Zenon DEF GroupResult
    <3> QED
      BY <3>1 DEF Results
  <2>4. CASE bad # {}
    <3>1. \E i \in bad : \A j \in bad : i <= j
      BY <2>2, <2>4, LeastExists
    <3>2. first \in bad
      BY <3>1
    <3>3. GroupResult(p) = act[p].outs[first]
      BY <2>4, Zenon DEF GroupResult
    <3> QED
      BY <2>1, <3>2, <3>3
  <2> QED
    BY <2>3, <2>4
<1>5. Logs(p) /\ Speaks(log, log', p)
  BY <1>1, SilentLogs DEF Logs
<1>6. Frames(tree, act', ret', log')
  BY <1>1, <1>2, <1>3, <1>4, <1>5, ReturnMoves
<1>7. Still /\ cancelled' \subseteq Contexts(tree)
  BY <1>1 DEF fixed, Still, WalkInv, WalkStatic
<1> QED
  BY <1>1, <1>5, <1>6, <1>7, Steps

-----------------------------------------------------------------------------
(* The drivers.                                                            *)

\* nobody walks
LEMMA NoFrames ==
    ASSUME NEW t, NEW a, NEW r, NEW l, DOMAIN a = {}, DOMAIN r = {}
    PROVE  Frames(t, a, r, l)
BY DEF Frames, Struct, Hanging, Present, Remembering

LEMMA IdleFrames ==
    ASSUME Idle, UNCHANGED tree
    PROVE  WalkFrames' /\ cancelled' \subseteq Contexts(tree) /\ up' = FALSE
<1>1. DOMAIN act' = {} /\ DOMAIN ret' = {} /\ cancelled' = {} /\ up' = FALSE
  BY DEF Idle
<1>2. Frames(tree', act', ret', log')
  BY <1>1, NoFrames
<1> QED
  BY <1>1, <1>2 DEF WalkFrames

LEMMA WalkEndStep ==
    ASSUME WalkInv, WalkEnd
    PROVE  WalkInv'
<1>1. /\ UNCHANGED <<tree, epoch>> /\ NoFault /\ Idle /\ Root \in DOMAIN ret
      /\ outcome' = IF ret[Root] = "skip" THEN "ok" ELSE ret[Root]
      /\ log' = IF ret[Root] = "skip" THEN Append(log, Event("node.skipped", RootContext, 0)) ELSE log
      /\ stable' = IF ret[Root] = "internal" THEN stable ELSE Len(log')
  BY DEF WalkEnd
<1>2. WalkFrames' /\ cancelled' \subseteq Contexts(tree) /\ up' = FALSE
  BY <1>1, IdleFrames
<1>3. outcome' \in Verdicts
  <2>1. ret[Root] \in Results
    BY <1>1 DEF WalkInv, WalkFrames, Frames
  <2> QED
    BY <1>1, <2>1 DEF Verdicts, Results
<1>4. WalkStatic'
  <2>1. faultsLeft' = faultsLeft
    BY <1>1 DEF NoFault
  <2> QED
    BY <1>1, <1>2, <1>3, <2>1 DEF WalkInv, WalkStatic
<1>5. LogOK(tree, log) /\ stable \in 0 .. Len(log) /\ Len(log) \in Nat
  BY DEF WalkInv, WalkLog, LogOK
<1>6. LogOK(tree, log') /\ (Len(log') = Len(log) \/ Len(log') = Len(log) + 1)
  <2>1. CASE log' = log
    BY <1>5, <2>1
  <2>2. CASE log' = Append(log, Event("node.skipped", RootContext, 0))
    <3>1. PICK e : e = Event("node.skipped", RootContext, 0)
      OBVIOUS
    <3>2. RootContext \in Contexts(tree)
      <4>1. <<>> \in Seq(Nat)
        OBVIOUS
      <4> QED
        BY <4>1 DEF RootContext, Contexts
    <3>3. e \in LogEvent(tree) /\ e.type = "node.skipped"
      BY <3>1, <3>2, EventIsTyped DEF EventTypes
    <3>4. e.type \notin Loud
      BY <3>3 DEF Loud, RoundTypes
    <3>5. log' = Append(log, e)
      BY <2>2, <3>1
    <3> QED
      BY <1>5, <3>3, <3>4, <3>5, QuietEvent
  <2> QED
    BY <1>1, <2>1, <2>2
<1>7. WalkLog'
  <2>1. stable' = stable \/ stable' = Len(log')
    BY <1>1
  <2>2. stable' \in 0 .. Len(log')
    BY <1>5, <1>6, <2>1
  <2> QED
    BY <1>1, <1>6, <2>2 DEF WalkLog
<1> QED
  BY <1>2, <1>4, <1>7 DEF WalkInv

LEMMA InterruptStep ==
    ASSUME WalkInv, Interrupt
    PROVE  WalkInv'
<1>1. UNCHANGED <<fixed, log, stable, act, ret>> /\ Fault /\ cancelled' = cancelled \cup {RootContext}
  BY DEF Interrupt
<1>2. Budget
  BY <1>1, BudgetKept
<1>3. RootContext \in Contexts(tree)
  <2>1. <<>> \in Seq(Nat)
    OBVIOUS
  <2> QED
    BY <2>1 DEF RootContext, Contexts
<1>4. WalkStatic'
  BY <1>1, <1>2, <1>3 DEF WalkInv, WalkStatic, fixed, Budget
<1>5. WalkLog'
  BY <1>1 DEF WalkInv, WalkLog, fixed
<1>6. WalkFrames'
  BY <1>1 DEF WalkInv, WalkFrames, fixed
<1> QED
  BY <1>4, <1>5, <1>6 DEF WalkInv

LEMMA CrashStep ==
    ASSUME WalkInv, Crash
    PROVE  WalkInv'
<1>1. UNCHANGED <<tree, epoch>> /\ Fault /\ Idle /\ outcome' = "crashed"
  BY DEF Crash
<1>2. WalkFrames' /\ cancelled' \subseteq Contexts(tree) /\ up' = FALSE
  BY <1>1, IdleFrames
<1>3. Budget
  BY <1>1, BudgetKept
<1>4. WalkStatic'
  BY <1>1, <1>2, <1>3 DEF WalkInv, WalkStatic, Budget, Verdicts
<1>5. PICK n \in stable .. Len(log) : log' = SubSeq(log, 1, n) /\ stable' = n
  BY DEF Crash
<1>6. LogOK(tree, log) /\ n \in 0 .. Len(log)
  BY DEF WalkInv, WalkLog, LogOK
<1>7. LogOK(tree, log') /\ Len(log') = n
  BY <1>5, <1>6, LogCut
<1>8. WalkLog'
  <2>1. n \in 0 .. n
    BY <1>6 DEF LogOK
  <2> QED
    BY <1>1, <1>5, <1>7, <2>1 DEF WalkLog
<1> QED
  BY <1>2, <1>4, <1>8 DEF WalkInv

\* nothing lies above the root
LEMMA RootIsTop ==
    ASSUME NEW t, Tree(t)
    PROVE  /\ InTree(t, Root)
           /\ \A p : InTree(t, p) /\ Over(t, p, Root) => p = Root
<1>1. 1 \in Numbers(t)
  BY DEF Tree, Preorder, Numbers
<1>2. <<>> \in Seq(Nat) /\ Len(<<>>) = 0
  OBVIOUS
<1>3. DepthIn(t, 1) = 0
  <2>1. Around(t, 1) = {}
    BY DEF Around, Numbers
  <2> QED
    BY <2>1, FS_EmptySet DEF DepthIn
<1>4. InTree(t, Root)
  <2>1. PICK e \in Seq(Nat) : e = <<>> /\ Len(e) = 0
    BY <1>2
  <2>2. Root = <<1, e>>
    BY <2>1 DEF Root
  <2>3. <<1, e>> \in Numbers(t) \X Seq(Nat)
    BY <1>1
  <2>4. <<1, e>>[1] = 1 /\ <<1, e>>[2] = e
    OBVIOUS
  <2> QED
    BY <1>3, <2>1, <2>2, <2>3, <2>4, Zenon DEF InTree
<1>5. ASSUME NEW p, InTree(t, p), Over(t, p, Root)
      PROVE  p = Root
  <2>1. p[1] \in Numbers(t) /\ p[1] \in Nat /\ p[2] \in Seq(Nat) /\ p = <<p[1], p[2]>> /\ Len(p[2]) = DepthIn(t, p[1])
    BY <1>5, PathFacts
  <2>2. 1 \in p[1] .. t[p[1]].last
    BY <1>5 DEF Over, Root
  <2>3. p[1] = 1
    BY <2>1, <2>2 DEF Numbers
  <2>4. Len(p[2]) = 0
    BY <1>3, <2>1, <2>3
  <2>5. p[2] = <<>>
    BY <2>1, <2>4
  <2> QED
    BY <2>1, <2>3, <2>5 DEF Root
<1> QED
  BY <1>4, <1>5

LEMMA DriveStep ==
    ASSUME WalkInv, Drive
    PROVE  WalkInv'
<1>1. /\ ~up /\ epoch < MaxEpoch /\ epoch' = epoch + 1 /\ up' = TRUE /\ outcome' = "none"
      /\ act' = [q \in {Root} |-> Frame({RootContext})] /\ stable' = Len(log) /\ NoFault
      /\ UNCHANGED <<tree, log, ret, cancelled>>
  BY DEF Drive
<1>2. faultsLeft' = faultsLeft
  BY <1>1 DEF NoFault
<1>3. epoch' \in 0 .. MaxEpoch
  BY <1>1, ControlAssumption DEF WalkInv, WalkStatic
<1>4. WalkStatic'
  BY <1>1, <1>2, <1>3 DEF WalkInv, WalkStatic, Verdicts
<1>5. WalkLog'
  BY <1>1 DEF WalkInv, WalkLog, LogOK
<1>6. Tree(tree) /\ DOMAIN ret = {} /\ DOMAIN ret' = {}
  BY <1>1, WorkflowIsTree DEF WalkInv, WalkFrames
<1>7. DOMAIN act' = {Root} /\ act'[Root] = Frame({RootContext})
  BY <1>1
<1>8. Struct(tree, act', ret')
  BY <1>6, <1>7, RootIsTop DEF Struct, Hanging, Present
<1>9. {RootContext} \subseteq Contexts(tree)
  <2>1. <<>> \in Seq(Nat)
    OBVIOUS
  <2>2. RootContext \in Contexts(tree)
    BY <2>1 DEF RootContext, Contexts
  <2> QED
    BY <2>2
<1>10. \A q \in DOMAIN act' : FrameOK(tree, q, act'[q]) /\ Remembers(tree, q, act'[q], log')
  BY <1>7, <1>9, FreshFrameOK
<1>11. Frames(tree, act', ret', log')
  BY <1>6, <1>8, <1>10 DEF Frames, Remembering
<1>12. WalkFrames'
  BY <1>1, <1>11 DEF WalkFrames
<1> QED
  BY <1>4, <1>5, <1>12 DEF WalkInv

-----------------------------------------------------------------------------
(* The invariant holds.                                                    *)

LEMMA WalkInvAtStart == Init => WalkInv
<1>1. SUFFICES ASSUME Init PROVE WalkInv
  OBVIOUS
<1>2. WalkStatic
  <2>1. tree \in Workflows /\ cancelled = {} /\ up = FALSE /\ outcome = "none" /\ epoch = 0 /\ faultsLeft = MaxFaults
    BY <1>1 DEF Init
  <2>2. epoch \in 0 .. MaxEpoch /\ faultsLeft \in 0 .. MaxFaults
    BY <2>1, ControlAssumption
  <2> QED
    BY <2>1, <2>2 DEF WalkStatic, Verdicts
<1>3. LogOK(tree, log) /\ stable \in 0 .. Len(log)
  <2>1. log = <<>> /\ stable = 0
    BY <1>1 DEF Init
  <2>2. PICK E : E = LogEvent(tree)
    OBVIOUS
  <2>3. log \in Seq(E) /\ Len(log) = 0
    BY <2>1
  <2> QED
    BY <2>1, <2>2, <2>3 DEF LogOK
<1>4. DOMAIN act = {} /\ DOMAIN ret = {}
  BY <1>1 DEF Init
<1>5. WalkFrames
  BY <1>4, NoFrames DEF WalkFrames
<1> QED
  BY <1>2, <1>3, <1>5 DEF WalkInv, WalkLog

LEMMA WalkInvKept == WalkInv /\ [Next]_vars => WalkInv'
<1>1. SUFFICES ASSUME WalkInv, [Next]_vars PROVE WalkInv'
  OBVIOUS
<1>2. ASSUME NEW p \in DOMAIN act, Walk(p) \/ Fails(p)
      PROVE  WalkInv'
  BY <1>1, <1>2, SeqSteps, StepSteps, IfSteps, CondErrorSteps, LoopSteps, GateSteps, TrySteps,
     ParallelForkStep, ParallelBranchStep, ParallelJoinStep DEF Walk, Fails
<1>3. CASE UNCHANGED vars
  BY <1>1, <1>3 DEF WalkInv, WalkStatic, WalkLog, WalkFrames, vars
<1> QED
  BY <1>1, <1>2, <1>3, WalkEndStep, InterruptStep, CrashStep, DriveStep DEF Next

\* WalkInv, the strengthening of WalkSafe that every step of the walk preserves.
THEOREM WalkInvariance == Spec => []WalkInv
BY WalkInvAtStart, WalkInvKept, PTL DEF Spec

-----------------------------------------------------------------------------
(* What the invariant says of the properties.                              *)

LEMMA PrefixFacts ==
    ASSUME NEW s \in Seq(Nat), NEW n \in 0 .. Len(s)
    PROVE  /\ SubSeq(s, 1, n) \in Seq(Nat) /\ Len(SubSeq(s, 1, n)) = n
           /\ \A x \in 1 .. n : SubSeq(s, 1, n)[x] = s[x]
OBVIOUS

LEMMA AboveIsOver ==
    ASSUME NEW p, p[2] \in Seq(Nat), NEW q, q[2] \in Seq(Nat), Above(p, q)
    PROVE  Over(tree, p, q)
<1>1. /\ q[1] \in p[1] .. tree[p[1]].last
      /\ Len(p[2]) <= Len(q[2]) /\ SubSeq(q[2], 1, Len(p[2])) = p[2]
  BY DEF Above, Node
<1>2. Len(p[2]) \in 0 .. Len(q[2])
  BY <1>1
<1>3. \A x \in 1 .. Len(p[2]) : q[2][x] = p[2][x]
  BY <1>1, <1>2, PrefixFacts
<1> QED
  BY <1>1, <1>3 DEF Over

LEMMA WalkTyped == WalkInv => TypeOK
<1>1. SUFFICES ASSUME WalkInv PROVE TypeOK
  OBVIOUS
<1>2. log \in Seq([type : {"node.completed", "node.failed", "node.skipped", "branch.taken",
                           "loop.iter", "gate.passed", "gate.rejected"},
                   path : (Nodes \cup {0}) \X Seq(Nat), n : Nat])
  BY <1>1 DEF WalkInv, WalkLog, LogOK, LogEvent, EventTypes, Numbers, Nodes
<1>3. ASSUME NEW p \in DOMAIN act
      PROVE  /\ p \in Nodes \X Seq(Nat)
             /\ act[p].at \in {0, 1} \cup 1 .. Len(Node(p).kids)
             /\ act[p].held \in Results
  <2>1. InTree(tree, p) /\ FrameOK(tree, p, act[p]) /\ act[p].held \in Results
    BY <1>1, FrameFacts DEF WalkInv, WalkFrames, Frames
  <2> QED
    BY <2>1 DEF InTree, Numbers, Nodes, FrameOK, Has, Node
<1>4. ASSUME NEW p \in DOMAIN ret
      PROVE  p \in Nodes \X Seq(Nat) /\ ret[p] \in Results
  <2>1. InTree(tree, p) /\ ret[p] \in Results
    BY <1>1 DEF WalkInv, WalkFrames, Frames, Struct, Present
  <2> QED
    BY <2>1 DEF InTree, Numbers, Nodes
<1>5. cancelled \in SUBSET ((Nodes \cup {0}) \X Seq(Nat))
  BY <1>1 DEF WalkInv, WalkStatic, Contexts, Numbers, Nodes
<1>6. /\ tree \in Workflows /\ stable \in 0 .. Len(log) /\ up \in BOOLEAN
      /\ outcome \in Results \cup {"none", "crashed"}
      /\ epoch \in 0 .. MaxEpoch /\ faultsLeft \in 0 .. MaxFaults
  BY <1>1 DEF WalkInv, WalkStatic, WalkLog, Verdicts
<1> QED
  BY <1>2, <1>3, <1>4, <1>5, <1>6 DEF TypeOK

LEMMA WalkCommitsOnce == WalkInv => CommitOnce
<1>1. SUFFICES ASSUME WalkInv, NEW i \in 1 .. Len(log), NEW j \in 1 .. Len(log),
                      log[i].type = "node.completed", log[j] = log[i], i < j
               PROVE  FALSE
  <2>1. Len(log) \in Nat => \A i, j \in 1 .. Len(log) : i = j \/ i < j \/ j < i
    OBVIOUS
  <2>2. WalkInv => Len(log) \in Nat
    BY DEF WalkInv, WalkLog, LogOK
  <2> QED
    BY <2>1, <2>2 DEF CommitOnce
<1>2. CommitOK(tree, log, j) /\ i \in 1 .. j - 1
  BY <1>1 DEF WalkInv, WalkLog, LogOK, EntryOK
<1> QED
  BY <1>1, <1>2 DEF CommitOK, CommitAt

LEMMA EntriesOK ==
    ASSUME WalkInv, NEW i \in 1 .. Len(log)
    PROVE  /\ CommitOK(tree, log, i) /\ BranchOK(tree, log, i) /\ RoundOK(tree, log, i)
           /\ i \in Nat /\ Len(log) \in Nat
BY DEF WalkInv, WalkLog, LogOK, EntryOK

\* the commits behind both branches of one if
LEMMA WalkTakesOneBranch == WalkInv => OneBranch
<1>1. SUFFICES ASSUME WalkInv, NEW i \in 1 .. Len(log), NEW j \in 1 .. Len(log),
                      log[i].type = "node.completed", log[j].type = "node.completed",
                      NEW m \in Nodes, tree[m].kind = "if",
                      log[i].path[1] \in tree[m].kids[1] .. tree[tree[m].kids[1]].last,
                      log[j].path[1] \in tree[m].kids[2] .. tree[tree[m].kids[2]].last,
                      SubSeq(log[i].path[2], 1, Depth(m)) = SubSeq(log[j].path[2], 1, Depth(m))
               PROVE  FALSE
  BY DEF OneBranch
<1>2. Tree(tree) /\ m \in Numbers(tree) /\ Depth(m) = DepthIn(tree, m)
  BY <1>1, WorkflowIsTree DEF WalkInv, Nodes, Numbers, Depth, DepthIn, Around
<1>3. Has(tree, m) = 1 .. 2
  BY <1>1, <1>2 DEF Tree, Arity, Numbers, Has
<1>4. /\ m \in Nat /\ tree[m].last \in Nat
      /\ \A b \in 1 .. 2 : /\ tree[m].kids[b] \in m + 1 .. tree[m].last
                           /\ tree[m].kids[b] \in Numbers(tree) /\ tree[m].kids[b] \in Nat
                           /\ tree[tree[m].kids[b]].last \in Nat
                           /\ tree[tree[m].kids[b]].last <= tree[m].last
  <2>1. m \in Nat /\ tree[m].last \in Nat
    BY <1>2, NodeFacts
  <2>2. ASSUME NEW b \in 1 .. 2
        PROVE  /\ tree[m].kids[b] \in m + 1 .. tree[m].last
               /\ tree[m].kids[b] \in Numbers(tree)
    BY <1>2, <1>3, DepthOfKid
  <2>3. ASSUME NEW b \in 1 .. 2
        PROVE  /\ tree[m].kids[b] \in Nat /\ tree[tree[m].kids[b]].last \in Nat
               /\ tree[tree[m].kids[b]].last <= tree[m].last
    <3>1. tree[m].kids[b] \in m .. tree[m].last /\ tree[m].kids[b] \in Nat
      BY <2>1, <2>2
    <3> QED
      BY <1>2, <2>2, <3>1, NodeFacts
  <2> QED
    BY <2>1, <2>2, <2>3
\* the if that both commits lie below
<1> DEFINE d == DepthIn(tree, m)
           P == <<m, SubSeq(log[i].path[2], 1, d)>>
<1>5. ASSUME NEW x \in {i, j}, NEW b \in 1 .. 2,
             log[x].path[1] \in tree[m].kids[b] .. tree[tree[m].kids[b]].last
      PROVE  /\ InTree(tree, log[x].path) /\ log[x].path[1] \in m .. tree[m].last
             /\ log[x].path[2] \in Seq(Nat) /\ d \in 0 .. Len(log[x].path[2])
             /\ CommitOK(tree, log, x) /\ x \in 1 .. Len(log) /\ log[x].type = "node.completed"
  <2>1. CommitOK(tree, log, x) /\ log[x].type = "node.completed" /\ x \in 1 .. Len(log)
    BY <1>1, EntriesOK
  <2>2. InTree(tree, log[x].path)
    BY <2>1 DEF CommitOK
  <2>3. log[x].path[1] \in m .. tree[m].last
    <3>1. PICK c : c = tree[m].kids[b]
      OBVIOUS
    <3>2. m \in Nat /\ tree[m].last \in Nat /\ c \in m + 1 .. tree[m].last /\ c \in Nat
          /\ tree[c].last \in Nat /\ tree[c].last <= tree[m].last
      BY <1>4, <3>1
    <3>3. log[x].path[1] \in c .. tree[c].last
      BY <1>5, <3>1
    <3> QED
      BY <3>2, <3>3
  <2>4. d <= DepthIn(tree, log[x].path[1]) /\ d \in Nat
    BY <1>2, <2>3, DepthGrows, DepthIsNat
  <2>5. log[x].path[2] \in Seq(Nat) /\ Len(log[x].path[2]) = DepthIn(tree, log[x].path[1])
    BY <2>2 DEF InTree
  <2>6. Len(log[x].path[2]) \in Nat
    BY <2>5
  <2> QED
    BY <2>1, <2>2, <2>3, <2>4, <2>5, <2>6
<1>6. ASSUME NEW x \in {i, j}, NEW b \in 1 .. 2,
             log[x].path[1] \in tree[m].kids[b] .. tree[tree[m].kids[b]].last
      PROVE  InTree(tree, P) /\ \E y \in 1 .. Len(log) : BranchAt(log, y, P) /\ log[y].n = b
  <2> DEFINE q == log[x].path
  <2>1. /\ InTree(tree, q) /\ q[1] \in m .. tree[m].last
        /\ q[2] \in Seq(Nat) /\ d \in 0 .. Len(q[2])
        /\ CommitOK(tree, log, x) /\ x \in 1 .. Len(log) /\ log[x].type = "node.completed"
    BY <1>5, <1>6
  <2>2. PICK s : s = SubSeq(q[2], 1, d)
    OBVIOUS
  <2>3. P = <<m, s>>
    BY <1>1, <1>2, <1>6, <2>2
  <2> HIDE DEF P, q, d
  <2>4. s \in Seq(Nat) /\ Len(s) = d /\ \A y \in 1 .. d : s[y] = q[2][y]
    BY <2>1, <2>2, PrefixFacts
  <2>5. P[1] = m /\ P[2] = s /\ P \in Numbers(tree) \X Seq(Nat)
    BY <1>2, <2>3, <2>4
  <2>6. InTree(tree, P)
    BY <2>4, <2>5 DEF InTree, d
  <2>7. Over(tree, P, q)
    <3>1. q[1] \in P[1] .. tree[P[1]].last
      BY <2>1, <2>5
    <3>2. Len(P[2]) <= Len(q[2])
      <4>1. Len(s) <= Len(q[2])
        BY <2>1, <2>4
      <4> QED
        BY <2>5, <4>1
    <3>3. \A y \in 1 .. Len(P[2]) : q[2][y] = P[2][y]
      <4>1. \A y \in 1 .. Len(s) : q[2][y] = s[y]
        BY <2>4
      <4> QED
        BY <2>5, <4>1
    <3> QED
      BY <3>1, <3>2, <3>3 DEF Over
  <2>8. LeadsTo(tree, P, b, q) /\ tree[P[1]].kind = "if"
    <3>1. q[1] \in tree[m].kids[b] .. tree[tree[m].kids[b]].last
      BY <1>6 DEF q
    <3> QED
      BY <1>1, <1>4, <2>5, <3>1 DEF LeadsTo
  <2>9. \E y \in 1 .. x - 1 : BranchAt(log, y, P) /\ log[y].n = b
    BY <2>1, <2>6, <2>7, <2>8 DEF CommitOK, q
  <2>10. Len(log) \in Nat /\ x \in Nat /\ x <= Len(log)
    BY <1>1, <2>1, EntriesOK
  <2> QED
    BY <2>6, <2>9, <2>10
<1> HIDE DEF P, d
<1>7. PICK y \in 1 .. Len(log) : BranchAt(log, y, P) /\ log[y].n = 1
  BY <1>1, <1>6
<1>8. PICK z \in 1 .. Len(log) : BranchAt(log, z, P) /\ log[z].n = 2
  BY <1>1, <1>6
<1>9. ASSUME NEW x \in 1 .. Len(log), NEW w \in 1 .. Len(log), BranchAt(log, x, P), BranchAt(log, w, P), x < w
      PROVE  FALSE
  <2>1. BranchOK(tree, log, w) /\ x \in 1 .. w - 1
    BY <1>1, <1>9, EntriesOK
  <2> QED
    BY <1>9, <2>1 DEF BranchOK, BranchAt
<1>10. y < z \/ z < y
  <2>1. y # z /\ y \in Nat /\ z \in Nat
    BY <1>7, <1>8
  <2> QED
    BY <2>1
<1> QED
  BY <1>7, <1>8, <1>9, <1>10

LEMMA WalkKeepsRounds == WalkInv => RoundsInOrder
<1>1. SUFFICES ASSUME WalkInv, NEW i \in 1 .. Len(log), NEW j \in 1 .. Len(log), i < j
               PROVE  /\ log[i].type \in RoundTypes /\ log[j].type \in RoundTypes /\ log[i].path = log[j].path
                            => log[i].n < log[j].n /\ log[i].type # "gate.passed"
                      /\ log[i].type = "node.completed" /\ log[j].type \in RoundTypes
                            => ~InRound(log[j].path, log[j].n + 1, log[i].path)
                      /\ log[i].type \in RoundTypes /\ log[j].type = "node.completed"
                            => ~InRound(log[i].path, log[i].n, log[j].path)
  BY DEF RoundsInOrder
<1>2. Len(log) \in Nat /\ i \in Nat /\ j \in Nat /\ LogOK(tree, log) /\ i \in 1 .. j - 1
  BY <1>1 DEF WalkInv, WalkLog, LogOK
\* a commit in a round of a loop or gate
<1>3. ASSUME NEW x \in 1 .. Len(log), log[x].type = "node.completed",
             NEW y \in 1 .. Len(log), log[y].type \in RoundTypes, NEW n, InRound(log[y].path, n, log[x].path)
      PROVE  LET p == log[y].path
                 q == log[x].path
             IN  /\ RoundOf(p, q) = n
                 /\ n >= 2 => \E z \in 1 .. x - 1 : z \in RoundsIn(log, p, x - 1) /\ log[z].n = n - 1
                 /\ \A z \in RoundsIn(log, p, x - 1) : log[z].n # n
  <2> DEFINE p == log[y].path
             q == log[x].path
  <2>1. InTree(tree, p) /\ tree[p[1]].kind \in {"loop", "gate"}
    <3>1. RoundOK(tree, log, y)
      BY <1>1, EntriesOK
    <3> QED
      BY <1>3, <3>1 DEF RoundOK
  <2>2. CommitOK(tree, log, x)
    BY <1>1, EntriesOK
  <2>3. InTree(tree, q)
    BY <1>3, <2>2 DEF CommitOK
  <2>4. Above(p, q) /\ Len(q[2]) > Len(p[2]) /\ RoundOf(p, q) = n
    BY <1>3 DEF InRound, RoundOf
  <2>5. Over(tree, p, q)
    BY <2>1, <2>3, <2>4, AboveIsOver DEF InTree
  <2>6. /\ RoundOf(p, q) >= 2 =>
              \E z \in 1 .. x - 1 : z \in RoundsIn(log, p, x - 1) /\ log[z].n = RoundOf(p, q) - 1
        /\ \A z \in RoundsIn(log, p, x - 1) : log[z].n # RoundOf(p, q)
    BY <1>3, <2>1, <2>2, <2>4, <2>5 DEF CommitOK, Rounded
  <2> QED
    BY <2>4, <2>6
<1>4. ASSUME log[i].type \in RoundTypes, log[j].type \in RoundTypes, log[i].path = log[j].path
      PROVE  log[i].n < log[j].n /\ log[i].type # "gate.passed"
  <2>1. i \in RoundsIn(log, log[j].path, Len(log)) /\ j \in RoundsIn(log, log[j].path, Len(log))
    BY <1>4 DEF RoundsIn
  <2> QED
    BY <1>1, <1>2, <2>1, RoundsAreNumbered
<1>5. ASSUME log[i].type = "node.completed", log[j].type \in RoundTypes,
             InRound(log[j].path, log[j].n + 1, log[i].path)
      PROVE  FALSE
  <2> DEFINE p == log[j].path
  <2>1. /\ j \in RoundsIn(log, p, Len(log))
        /\ log[j].n \in 1 .. Cardinality(RoundsIn(log, p, Len(log)))
    <3>1. j \in RoundsIn(log, p, Len(log))
      BY <1>5 DEF RoundsIn
    <3> QED
      BY <1>2, <3>1, RoundsAreNumbered
  <2>2. Cardinality(RoundsIn(log, p, Len(log))) \in Nat
    BY <1>2, RoundsAreFinite
  <2>3. log[j].n \in Nat /\ log[j].n >= 1 /\ log[j].n + 1 >= 2 /\ (log[j].n + 1) - 1 = log[j].n
    BY <2>1, <2>2
  <2>4. PICK z \in 1 .. i - 1 : z \in RoundsIn(log, p, i - 1) /\ log[z].n = (log[j].n + 1) - 1
    BY <1>3, <1>5, <2>3
  <2>5. z \in RoundsIn(log, p, Len(log)) /\ z < j
    BY <1>1, <1>2, <2>4 DEF RoundsIn
  <2>6. log[z].n < log[j].n
    BY <1>2, <2>1, <2>5, RoundsAreNumbered
  <2> QED
    BY <2>3, <2>4, <2>6
<1>6. ASSUME log[i].type \in RoundTypes, log[j].type = "node.completed",
             InRound(log[i].path, log[i].n, log[j].path)
      PROVE  FALSE
  <2>1. i \in RoundsIn(log, log[i].path, j - 1)
    BY <1>2, <1>6 DEF RoundsIn
  <2>2. \A z \in RoundsIn(log, log[i].path, j - 1) : log[z].n # log[i].n
    BY <1>3, <1>6, Zenon
  <2> QED
    BY <2>1, <2>2
<1> QED
  BY <1>4, <1>5, <1>6

LEMMA WalkBoundsGates == WalkInv => GateBound
<1>1. SUFFICES ASSUME WalkInv, NEW i \in 1 .. Len(log), log[i].type \in {"gate.passed", "gate.rejected"}
               PROVE  log[i].n <= tree[log[i].path[1]].max
  BY DEF GateBound
<1>2. RoundOK(tree, log, i)
  BY <1>1, EntriesOK
<1> QED
  BY <1>1, <1>2 DEF RoundOK, RoundTypes

LEMMA WalkLeavesNoOrphans == WalkInv => NoOrphans
<1>1. SUFFICES ASSUME WalkInv, NEW p \in DOMAIN ret, NEW q \in DOMAIN act, Above(p, q)
               PROVE  FALSE
  BY DEF NoOrphans
<1>2. Struct(tree, act, ret) /\ InTree(tree, p) /\ InTree(tree, q) /\ q \in Present(act, ret)
  BY <1>1 DEF WalkInv, WalkFrames, Frames, Struct, Present
<1>3. Over(tree, p, q)
  BY <1>1, <1>2, AboveIsOver DEF InTree
<1>4. q = p
  BY <1>2, <1>3, ReturnedIsBare
<1> QED
  BY <1>2, <1>4 DEF Struct

-----------------------------------------------------------------------------
(* What the log answers: the results that a handler returns by replay.     *)

Committed(l, q) == \E j \in 1 .. Len(l) : CommitAt(l, j, q)
Branched(l, q, w) == \E j \in 1 .. Len(l) : BranchAt(l, j, q) /\ l[j].n = w
Passed(l, q) == \E j \in RoundsIn(l, q, Len(l)) : l[j].type = "gate.passed"
NextAt(l, q) == Cardinality(RoundsIn(l, q, Len(l))) + 1

\* two logs that say the same of q
Same(l, l2, q) ==
    /\ Committed(l, q) <=> Committed(l2, q)
    /\ \A w : Branched(l, q, w) <=> Branched(l2, q, w)
    /\ Passed(l, q) <=> Passed(l2, q)
    /\ NextAt(l, q) = NextAt(l2, q)

\* why q answers r, if its children answer what C says; loops and tries do not
\* answer: a resume goes past them again
Why(t, l, C, q, r) ==
    /\ t[q[1]].kind \notin {"loop", "try"}
    /\ t[q[1]].kind = "step" => r = "ok" /\ Committed(l, q)
    /\ t[q[1]].kind = "skip" => r = "skip"
    /\ t[q[1]].kind = "seq" =>
          /\ r = "ok" => \A i \in Has(t, q[1]) : <<Sub(t, q, i, 0), "ok">> \in C
          /\ r = "skip" => \E i \in Has(t, q[1]) :
                /\ <<Sub(t, q, i, 0), "skip">> \in C
                /\ \A j \in Has(t, q[1]) : j < i => <<Sub(t, q, j, 0), "ok">> \in C
    /\ t[q[1]].kind = "if" =>
          \E w \in Has(t, q[1]) : Branched(l, q, w) /\ <<Sub(t, q, w, 0), r>> \in C
    /\ t[q[1]].kind = "gate" =>
          /\ r = "ok"
          /\ \/ Passed(l, q)
             \/ /\ NextAt(l, q) <= t[q[1]].max
                /\ \/ <<Sub(t, q, 1, NextAt(l, q)), "skip">> \in C
                   \/ /\ <<Sub(t, q, 1, NextAt(l, q)), "ok">> \in C
                      /\ <<Sub(t, q, 2, NextAt(l, q)), "skip">> \in C
    /\ t[q[1]].kind = "parallel" =>
          /\ r = "ok"
          /\ \A i \in Has(t, q[1]) : <<Sub(t, q, i, 0), "ok">> \in C \/ <<Sub(t, q, i, 0), "skip">> \in C

\* the answers that have a reason, whose reasons have a reason, and so on
Answers(t) == (Numbers(t) \X Seq(Nat)) \X {"ok", "skip"}
Grounded(t, l, C) == \A q, r : <<q, r>> \in C => InTree(t, q) /\ r \in {"ok", "skip"} /\ Why(t, l, C, q, r)
Replay(t, l) == UNION {C \in SUBSET Answers(t) : Grounded(t, l, C)}

LEMMA GateHasTwo ==
    ASSUME NEW t, Tree(t), NEW q, InTree(t, q), t[q[1]].kind = "gate"
    PROVE  Has(t, q[1]) = 1 .. 2 /\ 1 \in Has(t, q[1]) /\ 2 \in Has(t, q[1])
<1>1. q[1] \in Numbers(t) /\ 1 .. 2 = Has(t, q[1])
  <2>1. q[1] \in 1 .. Len(t)
    BY DEF InTree, Numbers
  <2>2. PICK n \in 1 .. Len(t) : n = q[1]
    BY <2>1
  <2>3. Len(t[n].kids) = 2
    BY <2>2 DEF Tree, Arity
  <2> QED
    BY <2>1, <2>2, <2>3 DEF Has, Numbers
<1> QED
  BY <1>1

LEMMA LeafHasNone ==
    ASSUME NEW t, Tree(t), NEW q, InTree(t, q), t[q[1]].kind \in {"step", "skip"}
    PROVE  Has(t, q[1]) = {}
<1>1. PICK n \in 1 .. Len(t) : n = q[1]
  BY DEF InTree, Numbers
<1>2. Len(t[n].kids) = 0
  BY <1>1 DEF Tree, Arity
<1> QED
  BY <1>1, <1>2 DEF Has

LEMMA WhyMoves ==
    ASSUME NEW t, Tree(t), NEW l, NEW l2, NEW q, InTree(t, q), NEW r, NEW C, NEW D, NextAt(l, q) \in Nat,
           Why(t, l, C, q, r), Same(l, l2, q),
           \A i \in Has(t, q[1]), k \in Nat : \A v : <<Sub(t, q, i, k), v>> \in C => <<Sub(t, q, i, k), v>> \in D
    PROVE  Why(t, l2, D, q, r)
<1>1. t[q[1]].kind \notin {"loop", "try"}
  BY DEF Why
<1>2. t[q[1]].kind = "step" => r = "ok" /\ Committed(l2, q)
  BY DEF Why, Same
<1>3. t[q[1]].kind = "skip" => r = "skip"
  BY DEF Why
<1>4. t[q[1]].kind = "seq" /\ r = "ok" => \A i \in Has(t, q[1]) : <<Sub(t, q, i, 0), "ok">> \in D
  BY DEF Why
<1>5. t[q[1]].kind = "seq" /\ r = "skip" => \E i \in Has(t, q[1]) :
                /\ <<Sub(t, q, i, 0), "skip">> \in D
                /\ \A j \in Has(t, q[1]) : j < i => <<Sub(t, q, j, 0), "ok">> \in D
  BY DEF Why
<1>6. t[q[1]].kind = "if" =>
          \E w \in Has(t, q[1]) : Branched(l2, q, w) /\ <<Sub(t, q, w, 0), r>> \in D
  BY DEF Why, Same
<1>7. ASSUME t[q[1]].kind = "gate"
      PROVE  /\ r = "ok"
             /\ \/ Passed(l2, q)
                \/ /\ NextAt(l2, q) <= t[q[1]].max
                   /\ \/ <<Sub(t, q, 1, NextAt(l2, q)), "skip">> \in D
                      \/ /\ <<Sub(t, q, 1, NextAt(l2, q)), "ok">> \in D
                         /\ <<Sub(t, q, 2, NextAt(l2, q)), "skip">> \in D
  <2>1. 1 \in Has(t, q[1]) /\ 2 \in Has(t, q[1])
    BY <1>7, GateHasTwo
  <2>2. NextAt(l2, q) = NextAt(l, q) /\ (Passed(l2, q) <=> Passed(l, q))
    BY DEF Same
  <2>3. PICK k \in Nat : k = NextAt(l, q)
    OBVIOUS
  <2> QED
    BY <1>7, <2>1, <2>2, <2>3 DEF Why
<1>8. t[q[1]].kind = "parallel" =>
          /\ r = "ok"
          /\ \A i \in Has(t, q[1]) : <<Sub(t, q, i, 0), "ok">> \in D \/ <<Sub(t, q, i, 0), "skip">> \in D
  BY DEF Why
<1> QED
  BY <1>1, <1>2, <1>3, <1>4, <1>5, <1>6, <1>7, <1>8, Zenon DEF Why

LEMMA NextAtIsNat ==
    ASSUME NEW l, Len(l) \in Nat, NEW q
    PROVE  NextAt(l, q) \in Nat
BY RoundsAreFinite DEF NextAt

LEMMA SameItself ==
    ASSUME NEW l, NEW q
    PROVE  Same(l, l, q)
BY DEF Same

\* an answer has a reason in the other answers
LEMMA ReplayHasReason ==
    ASSUME NEW t, Tree(t), NEW l, Len(l) \in Nat, NEW q, NEW r, <<q, r>> \in Replay(t, l)
    PROVE  InTree(t, q) /\ r \in {"ok", "skip"} /\ Why(t, l, Replay(t, l), q, r)
<1>1. PICK C \in SUBSET Answers(t) : Grounded(t, l, C) /\ <<q, r>> \in C
  BY DEF Replay
<1>2. InTree(t, q) /\ r \in {"ok", "skip"} /\ Why(t, l, C, q, r)
  BY <1>1 DEF Grounded
<1>3. C \subseteq Replay(t, l)
  BY <1>1 DEF Replay
<1>4. Why(t, l, Replay(t, l), q, r)
  <2>1. PICK D : D = Replay(t, l)
    OBVIOUS
  <2>2. NextAt(l, q) \in Nat /\ Same(l, l, q) /\ C \subseteq D
    BY <1>3, <2>1, NextAtIsNat, SameItself
  <2>3. Why(t, l, D, q, r)
    BY <1>2, <2>2, WhyMoves
  <2> QED
    BY <2>1, <2>3
<1> QED
  BY <1>2, <1>4

\* what has such a reason is an answer
LEMMA ReasonIsReplay ==
    ASSUME NEW t, Tree(t), NEW l, Len(l) \in Nat, NEW q, InTree(t, q), NEW r \in {"ok", "skip"},
           Why(t, l, Replay(t, l), q, r)
    PROVE  <<q, r>> \in Replay(t, l)
<1> DEFINE C == Replay(t, l) \cup {<<q, r>>}
<1>1. C \in SUBSET Answers(t)
  <2>1. <<q, r>> \in Answers(t)
    BY DEF InTree, Answers
  <2>2. Replay(t, l) \subseteq Answers(t)
    BY DEF Replay
  <2> QED
    BY <2>1, <2>2
<1>2. ASSUME NEW x, NEW v, <<x, v>> \in C
      PROVE  InTree(t, x) /\ v \in {"ok", "skip"} /\ Why(t, l, C, x, v)
  <2>1. InTree(t, x) /\ v \in {"ok", "skip"} /\ Why(t, l, Replay(t, l), x, v)
    <3>1. CASE <<x, v>> \in Replay(t, l)
      BY <3>1, ReplayHasReason
    <3>2. CASE x = q /\ v = r
      BY <3>2
    <3> QED
      BY <1>2, <3>1, <3>2
  <2>2. Replay(t, l) \subseteq C
    OBVIOUS
  <2> HIDE DEF C
  <2> QED
    BY <2>1, <2>2, WhyMoves, NextAtIsNat, SameItself
<1>3. <<q, r>> \in C
  OBVIOUS
<1> HIDE DEF C
<1> QED
  BY <1>1, <1>2, <1>3 DEF Grounded, Replay

\* an answer depends on what the log says of the paths below it
LEMMA ReplayIsLocal ==
    ASSUME NEW t, Tree(t), NEW l, Len(l) \in Nat, NEW l2, NEW c, InTree(t, c), NEW r, <<c, r>> \in Replay(t, l),
           \A q : InTree(t, q) /\ Over(t, c, q) => Same(l, l2, q)
    PROVE  <<c, r>> \in Replay(t, l2)
<1> DEFINE D == {x \in Replay(t, l) : Over(t, c, x[1])}
<1>1. D \in SUBSET Answers(t)
  BY DEF Replay
<1>2. ASSUME NEW q, NEW v, <<q, v>> \in D
      PROVE  InTree(t, q) /\ v \in {"ok", "skip"} /\ Why(t, l2, D, q, v)
  <2>1. <<q, v>> \in Replay(t, l) /\ Over(t, c, q)
    BY <1>2
  <2>2. InTree(t, q) /\ v \in {"ok", "skip"} /\ Why(t, l, Replay(t, l), q, v)
    BY <2>1, ReplayHasReason
  <2>3. Same(l, l2, q)
    BY <2>1, <2>2
  <2>4. ASSUME NEW i \in Has(t, q[1]), NEW k \in Nat, NEW u, <<Sub(t, q, i, k), u>> \in Replay(t, l)
        PROVE  <<Sub(t, q, i, k), u>> \in D
    <3>1. InTree(t, Sub(t, q, i, k)) /\ Over(t, q, Sub(t, q, i, k))
      BY <2>2, SubIsBelow
    <3>2. Over(t, c, Sub(t, q, i, k))
      BY <2>1, <2>2, <3>1, OverIsTransitive
    <3> QED
      BY <2>4, <3>2
  <2> HIDE DEF D
  <2> QED
    BY <2>2, <2>3, <2>4, WhyMoves, NextAtIsNat
<1>3. Over(t, c, c)
  BY OverItself
<1>4. <<c, r>> \in D
  BY <1>3
<1> HIDE DEF D
<1> QED
  BY <1>1, <1>2, <1>4 DEF Grounded, Replay

-----------------------------------------------------------------------------
(* What a walk has seen of the answers.                                    *)

\* no loop and no try at n or below
Bare(t, n) == \A m \in n .. t[n].last : t[m].kind \notin {"loop", "try"}

\* v, which c returned, is what the log answers at c, if it answers at all
Tells(t, l, c, v) ==
    /\ \A r : <<c, r>> \in Replay(t, l) => r = v
    /\ Bare(t, c[1]) /\ v \in {"ok", "skip"} => <<c, v>> \in Replay(t, l)

\* what the frame f at q keeps of the children that returned
Recalls(t, l, q, f) ==
    /\ t[q[1]].kind = "seq" => \A j \in Has(t, q[1]) : j < f.at => Tells(t, l, Sub(t, q, j, 0), "ok")
    /\ t[q[1]].kind = "gate" /\ f.at = 2 => Tells(t, l, Sub(t, q, 1, f.k), "ok")
    /\ t[q[1]].kind = "parallel" /\ f.at = 1 =>
          \A i \in Has(t, q[1]) : f.outs[i] # "none" =>
              \E v \in Results : /\ Tells(t, l, Sub(t, q, i, 0), v)
                                 /\ v = "skip" => f.outs[i] = "ok"
                                 /\ v # "skip" => f.outs[i] = v
Telling(t, a, r, l) ==
    /\ \A q \in DOMAIN r : Tells(t, l, q, r[q])
    /\ \A q \in DOMAIN a : Recalls(t, l, q, a[q])

LEMMA TellsIsLocal ==
    ASSUME NEW t, Tree(t), NEW l, Len(l) \in Nat, NEW l2, Len(l2) \in Nat, NEW c, InTree(t, c), NEW v,
           Tells(t, l, c, v), \A q : InTree(t, q) /\ Over(t, c, q) => Same(l, l2, q)
    PROVE  Tells(t, l2, c, v)
<1>1. \A q : InTree(t, q) /\ Over(t, c, q) => Same(l2, l, q)
  BY DEF Same
<1>2. \A r : <<c, r>> \in Replay(t, l2) => <<c, r>> \in Replay(t, l)
  BY <1>1, ReplayIsLocal
<1>3. \A r : <<c, r>> \in Replay(t, l) => <<c, r>> \in Replay(t, l2)
  BY ReplayIsLocal
<1> QED
  BY <1>2, <1>3 DEF Tells

\* without rounds the number of a round does not matter
LEMMA SubWithoutRound ==
    ASSUME NEW t, NEW p, ~Rounded(t, p[1]), NEW i, NEW k
    PROVE  Sub(t, p, i, k) = Sub(t, p, i, 0)
BY DEF Sub

\* an if takes one branch
LEMMA BranchIsUnique ==
    ASSUME NEW t, NEW l, LogOK(t, l), NEW q, NEW v, NEW w, Branched(l, q, v), Branched(l, q, w)
    PROVE  v = w
<1>1. Len(l) \in Nat
  BY DEF LogOK
<1>2. PICK i \in 1 .. Len(l) : BranchAt(l, i, q) /\ l[i].n = v
  BY DEF Branched
<1>3. PICK j \in 1 .. Len(l) : BranchAt(l, j, q) /\ l[j].n = w
  BY DEF Branched
<1>4. BranchOK(t, l, i) /\ BranchOK(t, l, j)
  BY DEF LogOK, EntryOK
<1>5. ~(i < j)
  BY <1>1, <1>2, <1>3, <1>4 DEF BranchOK, BranchAt
<1>6. ~(j < i)
  BY <1>1, <1>2, <1>3, <1>4 DEF BranchOK, BranchAt
<1>7. i = j
  BY <1>1, <1>5, <1>6
<1> QED
  BY <1>2, <1>3, <1>7

\* if the log answers at y, it answers at the child that y waits for
LEMMA CalleeAnswers ==
    ASSUME NEW t, Tree(t), NEW a, NEW r, NEW l, LogOK(t, l), Frames(t, a, r, l), Telling(t, a, r, l),
           NEW y \in DOMAIN a, NEW v, <<y, v>> \in Replay(t, l),
           NEW i \in Has(t, y[1]), Waits(t, a, y, i)
    PROVE  \E u : <<Sub(t, y, i, a[y].k), u>> \in Replay(t, l)
<1>1. /\ InTree(t, y) /\ y[1] \in Numbers(t) /\ FrameOK(t, y, a[y]) /\ a[y] \in FrameType(t) /\ a[y].k \in Nat
      /\ Knows(t, y, a[y].at, a[y].k, l) /\ Recalls(t, l, y, a[y])
  BY DEF Frames, Struct, Present, FrameOK, FrameType, Remembering, Remembers, Telling, InTree
<1>2. Len(l) \in Nat
  BY DEF LogOK
<1>3. v \in {"ok", "skip"} /\ Why(t, l, Replay(t, l), y, v)
  BY <1>2, ReplayHasReason
<1>4. t[y[1]].kind \notin {"loop", "gate"} => Sub(t, y, i, a[y].k) = Sub(t, y, i, 0)
  BY SubWithoutRound DEF Rounded
<1>5. i \in Nat /\ i >= 1
  BY DEF Has
<1> DEFINE K == t[y[1]].kind
<1>6. CASE K = "seq"
  <2>1. a[y].at = i
    BY <1>6 DEF Waits
  <2>2. \A j \in Has(t, y[1]) : j < i => Tells(t, l, Sub(t, y, j, 0), "ok")
    BY <1>1, <1>6, <2>1 DEF Recalls
  <2>3. CASE v = "ok"
    BY <1>3, <1>4, <1>6, <2>3 DEF Why
  <2>4. CASE v = "skip"
    <3>1. PICK m \in Has(t, y[1]) : /\ <<Sub(t, y, m, 0), "skip">> \in Replay(t, l)
                                    /\ \A j \in Has(t, y[1]) : j < m => <<Sub(t, y, j, 0), "ok">> \in Replay(t, l)
      BY <1>3, <1>6, <2>4 DEF Why
    <3>2. ~(m < i)
      BY <2>2, <3>1 DEF Tells
    <3>3. m \in Nat
      BY DEF Has
    <3>4. i = m \/ i < m
      BY <1>5, <3>2, <3>3
    <3> QED
      BY <1>4, <1>6, <3>1, <3>4
  <2> QED
    BY <1>3, <2>3, <2>4
<1>7. CASE K = "if"
  <2>1. a[y].at = i /\ i > 0
    BY <1>5, <1>7 DEF Waits
  <2>2. Branched(l, y, i)
    BY <1>1, <1>7, <2>1 DEF Knows, Branched
  <2>3. PICK w \in Has(t, y[1]) : Branched(l, y, w) /\ <<Sub(t, y, w, 0), v>> \in Replay(t, l)
    BY <1>3, <1>7 DEF Why
  <2>4. w = i
    BY <2>2, <2>3, BranchIsUnique
  <2> QED
    BY <1>4, <1>7, <2>3, <2>4
<1>8. CASE K = "gate"
  <2>1. a[y].at = i /\ i > 0
    BY <1>5, <1>8 DEF Waits
  <2>2. a[y].k = NextAt(l, y) /\ ~Passed(l, y)
    BY <1>1, <1>8, <2>1 DEF Knows, Rounded, NextAt, Passed
  <2>3. PICK k : k = NextAt(l, y)
    OBVIOUS
  <2>4. \/ <<Sub(t, y, 1, k), "skip">> \in Replay(t, l)
        \/ <<Sub(t, y, 1, k), "ok">> \in Replay(t, l) /\ <<Sub(t, y, 2, k), "skip">> \in Replay(t, l)
    BY <1>3, <1>8, <2>2, <2>3 DEF Why
  <2>5. i = 1 \/ i = 2
    <3>1. Has(t, y[1]) = 1 .. 2
      BY <1>1, <1>8, GateHasTwo
    <3> QED
      BY <3>1
  <2>6. i = 2 => Tells(t, l, Sub(t, y, 1, k), "ok")
    BY <1>1, <1>8, <2>1, <2>2, <2>3 DEF Recalls
  <2>7. i = 2 => ~(<<Sub(t, y, 1, k), "skip">> \in Replay(t, l))
    BY <2>6 DEF Tells
  <2> QED
    BY <2>2, <2>3, <2>4, <2>5, <2>7
<1>9. CASE K = "parallel"
  BY <1>3, <1>4, <1>9 DEF Why
<1>10. CASE K \in {"step", "skip"}
  <2>1. Has(t, y[1]) = {}
    BY <1>1, <1>10, LeafHasNone
  <2> QED
    BY <2>1
<1>11. K \in Kinds /\ K \notin {"loop", "try"}
  BY <1>1, <1>3, NodeFacts DEF Why
<1> QED
  BY <1>6, <1>7, <1>8, <1>9, <1>10, <1>11 DEF Kinds

\* if the log answers at x, it answers at every active path below
LEMMA ActiveBelowAnswers ==
    ASSUME NEW t, Tree(t), NEW a, NEW r, NEW l, LogOK(t, l), Frames(t, a, r, l), Telling(t, a, r, l),
           NEW x, NEW v, <<x, v>> \in Replay(t, l), NEW p \in DOMAIN a, Over(t, x, p)
    PROVE  \E u : <<p, u>> \in Replay(t, l)
<1> DEFINE S == {m \in Numbers(t) : \E y : /\ InTree(t, y) /\ y[1] = m /\ Over(t, x, y) /\ Over(t, y, p)
                                           /\ \E u : <<y, u>> \in Replay(t, l)}
<1>1. Len(l) \in Nat /\ Len(t) \in Nat
  BY DEF LogOK, Tree
<1>2. InTree(t, x) /\ InTree(t, p) /\ Struct(t, a, r) /\ p \in Present(a, r)
  BY <1>1, ReplayHasReason DEF Frames, Struct, Present
<1>3. Over(t, x, x)
  BY <1>2, OverItself
<1>4. x[1] \in S
  BY <1>2, <1>3 DEF InTree
<1>5. S \in SUBSET (1 .. Len(t))
  BY DEF Numbers
<1>6. PICK m \in S : \A j \in S : j <= m
  <2> HIDE DEF S
  <2> QED
    BY <1>1, <1>4, <1>5, GreatestExists
<1>7. PICK y : /\ InTree(t, y) /\ y[1] = m /\ Over(t, x, y) /\ Over(t, y, p)
               /\ \E u : <<y, u>> \in Replay(t, l)
  OBVIOUS
<1>8. SUFFICES ASSUME y # p PROVE FALSE
  BY <1>7
<1>9. /\ y \in DOMAIN a
      /\ \E i \in Has(t, y[1]) : Waits(t, a, y, i) /\ Over(t, Sub(t, y, i, a[y].k), p)
  BY <1>2, <1>7, <1>8 DEF Struct, Hanging
<1>10. PICK i \in Has(t, y[1]) : Waits(t, a, y, i) /\ Over(t, Sub(t, y, i, a[y].k), p)
  BY <1>9
<1>11. PICK c : c = Sub(t, y, i, a[y].k)
  OBVIOUS
<1>12. \E u : <<c, u>> \in Replay(t, l)
  BY <1>7, <1>9, <1>10, <1>11, CalleeAnswers
<1>13. a[y].k \in Nat
  BY <1>9, FramesAreCounted DEF Counted
<1>14. InTree(t, c) /\ Over(t, y, c) /\ c[1] \in y[1] + 1 .. t[y[1]].last
  BY <1>7, <1>11, <1>13, SubIsBelow
<1>15. Over(t, x, c)
  BY <1>2, <1>7, <1>14, OverIsTransitive
<1>16. c[1] \in S
  BY <1>10, <1>11, <1>12, <1>14, <1>15 DEF InTree
<1>17. y[1] \in Nat /\ t[y[1]].last \in Nat
  BY <1>7, PathFacts, NodeFacts
<1> HIDE DEF S
<1> QED
  BY <1>6, <1>7, <1>14, <1>16, <1>17

-----------------------------------------------------------------------------
(* What a step of p leaves of the answers.                                 *)

Quiet(l, l2) == \A j \in New(l, l2) : l2[j].type \notin Loud
\* p does not record anything new if the log answers at p
Harmless(t, l, l2, p) == Quiet(l, l2) \/ \A u : ~(<<p, u>> \in Replay(t, l))

LEMMA SameForOthers ==
    ASSUME NEW l, NEW l2, NEW p, Speaks(l, l2, p), NEW q, q # p \/ Quiet(l, l2)
    PROVE  Same(l, l2, q)
<1>1. Len(l) \in Nat /\ Len(l2) \in Nat /\ Len(l) <= Len(l2) /\ \A j \in 1 .. Len(l) : l2[j] = l[j]
  BY DEF Speaks, Grows
<1>2. \A j \in 1 .. Len(l2) : j \in 1 .. Len(l) \/ j \in New(l, l2)
  BY <1>1 DEF New
<1>3. \A j \in New(l, l2) : l2[j].path = q => l2[j].type \notin Loud
  BY DEF Speaks, Quiet
<1>4. RoundsIn(l2, q, Len(l2)) = RoundsIn(l, q, Len(l))
  <2>1. \A j \in 1 .. Len(l) : j \in 1 .. Len(l2)
    BY <1>1
  <2> QED
    BY <1>1, <1>2, <1>3, <2>1 DEF RoundsIn, Loud
<1>5. \A j \in 1 .. Len(l) : j \in 1 .. Len(l2)
  BY <1>1
<1>6. Committed(l, q) <=> Committed(l2, q)
  BY <1>1, <1>2, <1>3, <1>5 DEF Committed, CommitAt, Loud
<1>7. ASSUME NEW w
      PROVE  Branched(l, q, w) <=> Branched(l2, q, w)
  BY <1>1, <1>2, <1>3, <1>5 DEF Branched, BranchAt, Loud
<1>8. Passed(l, q) <=> Passed(l2, q)
  <2>1. \A j \in RoundsIn(l, q, Len(l)) : l2[j] = l[j]
    BY <1>1 DEF RoundsIn
  <2> QED
    BY <1>4, <2>1 DEF Passed
<1>9. NextAt(l, q) = NextAt(l2, q)
  BY <1>4 DEF NextAt
<1> QED
  BY <1>6, <1>7, <1>8, <1>9 DEF Same

LEMMA OthersTell ==
    ASSUME NEW t, Tree(t), NEW l, NEW l2, NEW p, Speaks(l, l2, p), NEW c, InTree(t, c), NEW v, Tells(t, l, c, v),
           ~Over(t, c, p) \/ Quiet(l, l2)
    PROVE  Tells(t, l2, c, v)
<1>1. Len(l) \in Nat /\ Len(l2) \in Nat
  BY DEF Speaks
<1>2. \A q : InTree(t, q) /\ Over(t, c, q) => Same(l, l2, q)
  BY SameForOthers
<1> QED
  BY <1>1, <1>2, TellsIsLocal

\* no answer is lost
LEMMA ReplayGrows ==
    ASSUME NEW t, Tree(t), NEW a, NEW r, NEW l, LogOK(t, l), Frames(t, a, r, l), Telling(t, a, r, l),
           NEW p \in DOMAIN a, NEW l2, Speaks(l, l2, p), Harmless(t, l, l2, p)
    PROVE  Replay(t, l) \subseteq Replay(t, l2)
<1>1. Len(l) \in Nat
  BY DEF LogOK
<1>2. ASSUME NEW c, NEW v, <<c, v>> \in Replay(t, l)
      PROVE  <<c, v>> \in Replay(t, l2)
  <2>1. InTree(t, c)
    BY <1>1, <1>2, ReplayHasReason
  <2>2. ~Over(t, c, p) \/ Quiet(l, l2)
    BY <1>2, ActiveBelowAnswers DEF Harmless
  <2>3. \A q : InTree(t, q) /\ Over(t, c, q) => Same(l, l2, q)
    BY <2>2, SameForOthers
  <2> QED
    BY <1>1, <1>2, <2>1, <2>3, ReplayIsLocal
<1>3. Replay(t, l) \subseteq Answers(t)
  BY DEF Replay
<1>4. \A x \in Answers(t) : x = <<x[1], x[2]>>
  BY DEF Answers
<1> QED
  BY <1>2, <1>3, <1>4

LEMMA QuietReplay ==
    ASSUME NEW t, Tree(t), NEW l, NEW l2, Len(l) \in Nat, Len(l2) \in Nat, Grows(l, l2), Quiet(l, l2)
    PROVE  Replay(t, l) \subseteq Replay(t, l2)
<1>1. Speaks(l, l2, Root)
  BY DEF Speaks, Quiet
<1>2. ASSUME NEW c, NEW v, <<c, v>> \in Replay(t, l)
      PROVE  <<c, v>> \in Replay(t, l2)
  <2>1. InTree(t, c)
    BY <1>2, ReplayHasReason
  <2>2. \A q : InTree(t, q) /\ Over(t, c, q) => Same(l, l2, q)
    BY <1>1, SameForOthers
  <2> QED
    BY <1>2, <2>1, <2>2, ReplayIsLocal
<1>3. Replay(t, l) \subseteq Answers(t)
  BY DEF Replay
<1>4. \A x \in Answers(t) : x = <<x[1], x[2]>>
  BY DEF Answers
<1> QED
  BY <1>2, <1>3, <1>4

\* what acts lies below no child that its parent does not wait for
LEMMA FinishedIsNotAbove ==
    ASSUME NEW t, Tree(t), NEW a, NEW r, Struct(t, a, r), Counted(a), NEW p \in DOMAIN a, NEW x \in DOMAIN a,
           NEW i \in Has(t, x[1]), ~Waits(t, a, x, i), NEW k \in Nat
    PROVE  ~Over(t, Sub(t, x, i, k), p)
<1>1. InTree(t, p) /\ InTree(t, x) /\ p \in Present(a, r) /\ x[1] \in Numbers(t)
  BY DEF Struct, Present, InTree
<1>2. PICK c : c = Sub(t, x, i, k)
  OBVIOUS
<1>3. InTree(t, c) /\ Over(t, x, c) /\ c[1] = t[x[1]].kids[i] /\ c[1] \in x[1] + 1 .. t[x[1]].last
  BY <1>1, <1>2, SubIsBelow
<1>4. SUFFICES ASSUME Over(t, c, p) PROVE FALSE
  BY <1>2
<1>5. Over(t, x, p)
  BY <1>1, <1>3, <1>4, OverIsTransitive
<1>6. x # p
  <2>1. x[1] \in Nat /\ c[1] \in Nat /\ t[x[1]].last \in Nat
    BY <1>1, <1>3, PathFacts, NodeFacts
  <2>2. p[1] \in c[1] .. t[c[1]].last
    BY <1>4 DEF Over
  <2>3. t[c[1]].last \in Nat
    BY <1>3, PathFacts, NodeFacts
  <2> QED
    BY <1>3, <2>1, <2>2, <2>3
<1>7. PICK j \in Has(t, x[1]) : Waits(t, a, x, j) /\ Over(t, Sub(t, x, j, a[x].k), p)
  BY <1>1, <1>5, <1>6 DEF Struct, Hanging
<1>8. p[1] \in t[x[1]].kids[i] .. t[t[x[1]].kids[i]].last
  BY <1>3, <1>4 DEF Over
<1>9. p[1] \in t[x[1]].kids[j] .. t[t[x[1]].kids[j]].last
  BY <1>7 DEF Over, Sub
<1>10. i = j
  BY <1>1, <1>8, <1>9, OneKidAbove
<1> QED
  BY <1>7, <1>10

LEMMA FreshRecalls ==
    ASSUME NEW t, NEW l, NEW q, NEW ctx
    PROVE  Recalls(t, l, q, Frame(ctx))
BY DEF Recalls, Frame, Has

\* a frame keeps what it recalls
LEMMA FramesRecall ==
    ASSUME NEW t, Tree(t), NEW a, NEW r, NEW l, Frames(t, a, r, l), NEW p \in DOMAIN a,
           NEW l2, Speaks(l, l2, p), NEW x \in DOMAIN a, Recalls(t, l, x, a[x])
    PROVE  Recalls(t, l2, x, a[x])
<1>1. Struct(t, a, r) /\ Counted(a) /\ InTree(t, x) /\ a[x].k \in Nat /\ a[x].at \in Nat
  BY FramesAreCounted DEF Frames, Counted, Struct, Present, FrameOK, FrameType
<1>2. ASSUME NEW i \in Has(t, x[1]), ~Waits(t, a, x, i), NEW k \in Nat, NEW v, Tells(t, l, Sub(t, x, i, k), v)
      PROVE  Tells(t, l2, Sub(t, x, i, k), v)
  <2>1. PICK c : c = Sub(t, x, i, k)
    OBVIOUS
  <2>2. InTree(t, c) /\ ~Over(t, c, p)
    BY <1>1, <1>2, <2>1, SubIsBelow, FinishedIsNotAbove
  <2> QED
    BY <1>2, <2>1, <2>2, OthersTell
<1>3. ASSUME t[x[1]].kind = "seq", NEW j \in Has(t, x[1]), j < a[x].at
      PROVE  Tells(t, l2, Sub(t, x, j, 0), "ok")
  <2>1. ~Waits(t, a, x, j)
    <3>1. j \in Nat
      BY DEF Has
    <3> QED
      BY <1>1, <1>3, <3>1 DEF Waits
  <2>2. Tells(t, l, Sub(t, x, j, 0), "ok")
    BY <1>3 DEF Recalls
  <2> QED
    BY <1>2, <2>1, <2>2
<1>4. ASSUME t[x[1]].kind = "gate", a[x].at = 2
      PROVE  Tells(t, l2, Sub(t, x, 1, a[x].k), "ok")
  <2>1. 1 \in Has(t, x[1]) /\ ~Waits(t, a, x, 1)
    BY <1>1, <1>4, GateHasTwo DEF Waits
  <2>2. Tells(t, l, Sub(t, x, 1, a[x].k), "ok")
    BY <1>4 DEF Recalls
  <2> QED
    BY <1>1, <1>2, <2>1, <2>2
<1>5. ASSUME t[x[1]].kind = "parallel", a[x].at = 1, NEW i \in Has(t, x[1]), a[x].outs[i] # "none"
      PROVE  \E v \in Results : /\ Tells(t, l2, Sub(t, x, i, 0), v)
                                /\ v = "skip" => a[x].outs[i] = "ok"
                                /\ v # "skip" => a[x].outs[i] = v
  <2>1. ~Waits(t, a, x, i)
    BY <1>5 DEF Waits
  <2>2. PICK v \in Results : /\ Tells(t, l, Sub(t, x, i, 0), v)
                             /\ v = "skip" => a[x].outs[i] = "ok"
                             /\ v # "skip" => a[x].outs[i] = v
    BY <1>5 DEF Recalls
  <2>3. Tells(t, l2, Sub(t, x, i, 0), v)
    BY <1>2, <2>1, <2>2
  <2> QED
    BY <2>2, <2>3
<1> QED
  BY <1>3, <1>4, <1>5 DEF Recalls

\* and so does a caller with the results that wait for it
LEMMA ReturnedTell ==
    ASSUME NEW t, Tree(t), NEW a, NEW r, NEW l, Frames(t, a, r, l), Telling(t, a, r, l), NEW p \in DOMAIN a,
           NEW l2, Speaks(l, l2, p), NEW c \in DOMAIN r
    PROVE  Tells(t, l2, c, r[c])
<1>1. Struct(t, a, r) /\ InTree(t, c) /\ p \in Present(a, r) /\ p # c
  BY DEF Frames, Struct, Present
<1>2. ~Over(t, c, p)
  BY <1>1, ReturnedIsBare
<1>3. Tells(t, l, c, r[c])
  BY DEF Telling
<1> QED
  BY <1>1, <1>2, <1>3, OthersTell

-----------------------------------------------------------------------------
(* What has settled is answered from then on.                              *)

SettledIn(t, l, S) ==
    \A s \in S : /\ s.len \in 0 .. Len(l)
                 /\ \A n \in s.len .. Len(l) : <<s.path, "ok">> \in Replay(t, SubSeq(l, 1, n))

LEMMA SameEvents ==
    ASSUME NEW E, NEW s \in Seq(E), NEW u \in Seq(E), Len(s) = Len(u), \A y \in 1 .. Len(s) : s[y] = u[y]
    PROVE  s = u
<1>1. s = [y \in 1 .. Len(s) |-> s[y]]
  OBVIOUS
<1>2. u = [y \in 1 .. Len(u) |-> u[y]]
  OBVIOUS
<1> QED
  BY <1>1, <1>2

LEMMA PrefixEvents ==
    ASSUME NEW E, NEW l \in Seq(E), NEW n \in 0 .. Len(l)
    PROVE  /\ SubSeq(l, 1, n) \in Seq(E) /\ Len(SubSeq(l, 1, n)) = n
           /\ \A y \in 1 .. n : SubSeq(l, 1, n)[y] = l[y]
OBVIOUS

\* two logs that begin alike have the same prefixes
LEMMA SamePrefix ==
    ASSUME NEW E, NEW l \in Seq(E), NEW l2 \in Seq(E), NEW n \in 0 .. Len(l), n <= Len(l2),
           \A y \in 1 .. n : l2[y] = l[y]
    PROVE  SubSeq(l2, 1, n) = SubSeq(l, 1, n)
<1>1. PICK s : s = SubSeq(l, 1, n)
  OBVIOUS
<1>2. s \in Seq(E) /\ Len(s) = n /\ \A y \in 1 .. n : s[y] = l[y]
  BY <1>1, PrefixEvents
<1>3. PICK u : u = SubSeq(l2, 1, n)
  OBVIOUS
<1>4. n \in 0 .. Len(l2)
  OBVIOUS
<1>5. u \in Seq(E) /\ Len(u) = n /\ \A y \in 1 .. n : u[y] = l2[y]
  BY <1>3, <1>4, PrefixEvents
<1>6. s = u
  BY <1>2, <1>5, SameEvents
<1> QED
  BY <1>1, <1>3, <1>6

LEMMA WholePrefix ==
    ASSUME NEW E, NEW l \in Seq(E)
    PROVE  SubSeq(l, 1, Len(l)) = l
<1>1. Len(l) \in 0 .. Len(l)
  OBVIOUS
<1>2. PICK s : s = SubSeq(l, 1, Len(l))
  OBVIOUS
<1>3. s \in Seq(E) /\ Len(s) = Len(l) /\ \A y \in 1 .. Len(l) : s[y] = l[y]
  BY <1>1, <1>2, PrefixEvents
<1> QED
  BY <1>2, <1>3, SameEvents

LEMMA SettledLength ==
    ASSUME NEW t, NEW l, Len(l) \in Nat, NEW S, SettledIn(t, l, S), NEW s \in S
    PROVE  s.len \in Nat /\ s.len <= Len(l)
<1>1. s.len \in 0 .. Len(l)
  BY DEF SettledIn
<1>2. PICK a : a = s.len
  OBVIOUS
<1>3. a \in Nat /\ a <= Len(l)
  BY <1>1, <1>2
<1> QED
  BY <1>2, <1>3

LEMMA SettledGrows ==
    ASSUME NEW t, NEW E, NEW l \in Seq(E), NEW l2 \in Seq(E), Grows(l, l2), NEW S, SettledIn(t, l, S),
           \A l3 : Len(l3) \in Nat /\ Grows(l, l3) /\ Grows(l3, l2) => Replay(t, l) \subseteq Replay(t, l3)
    PROVE  SettledIn(t, l2, S)
<1>1. Len(l) \in Nat /\ Len(l2) \in Nat /\ Len(l) <= Len(l2) /\ \A y \in 1 .. Len(l) : l2[y] = l[y]
  BY DEF Grows
<1>2. ASSUME NEW s \in S, NEW n \in s.len .. Len(l2)
      PROVE  <<s.path, "ok">> \in Replay(t, SubSeq(l2, 1, n))
  <2>1. s.len \in 0 .. Len(l) /\ n \in Nat /\ n <= Len(l2) /\ s.len <= n
    <3>1. s.len \in Nat /\ s.len <= Len(l)
      BY <1>1, SettledLength
    <3>2. PICK a \in Nat : a = s.len
      BY <3>1
    <3>3. a \in 0 .. Len(l) /\ n \in Nat /\ n <= Len(l2) /\ a <= n
      BY <1>1, <1>2, <3>1, <3>2
    <3> QED
      BY <3>2, <3>3
  <2>2. CASE n <= Len(l)
    <3>1. n \in 0 .. Len(l) /\ \A y \in 1 .. n : l2[y] = l[y]
      BY <1>1, <2>1, <2>2
    <3>2. SubSeq(l2, 1, n) = SubSeq(l, 1, n)
      BY <2>1, <3>1, SamePrefix
    <3>3. n \in s.len .. Len(l)
      BY <2>1, <2>2
    <3> QED
      BY <3>2, <3>3 DEF SettledIn
  <2>3. CASE Len(l) < n
    <3>1. PICK l3 : l3 = SubSeq(l2, 1, n)
      OBVIOUS
    <3>2. l3 \in Seq(E) /\ Len(l3) = n /\ \A y \in 1 .. n : l3[y] = l2[y]
      <4>1. n \in 0 .. Len(l2)
        BY <2>1
      <4> QED
        BY <3>1, <4>1, PrefixEvents
    <3>3. Grows(l, l3) /\ Grows(l3, l2)
      BY <1>1, <2>1, <2>3, <3>2 DEF Grows
    <3>4. Replay(t, l) \subseteq Replay(t, l3)
      BY <2>1, <3>2, <3>3
    <3>5. <<s.path, "ok">> \in Replay(t, SubSeq(l, 1, Len(l)))
      <4>1. Len(l) \in s.len .. Len(l)
        BY <2>1
      <4> QED
        BY <4>1 DEF SettledIn
    <3>6. <<s.path, "ok">> \in Replay(t, l)
      BY <3>5, WholePrefix
    <3> QED
      BY <3>1, <3>4, <3>6
  <2> QED
    BY <1>1, <2>1, <2>2, <2>3
<1>3. ASSUME NEW s \in S
      PROVE  s.len \in 0 .. Len(l2)
  <2>1. s.len \in Nat /\ s.len <= Len(l)
    BY <1>1, SettledLength
  <2>2. PICK a \in Nat : a = s.len
    BY <2>1
  <2>3. a \in 0 .. Len(l2)
    BY <1>1, <2>1, <2>2
  <2> QED
    BY <2>2, <2>3
<1> QED
  BY <1>2, <1>3 DEF SettledIn

\* a crash forgets what settled in the part that is lost
LEMMA SettledCut ==
    ASSUME NEW t, NEW E, NEW l \in Seq(E), NEW n \in 0 .. Len(l), NEW S, SettledIn(t, l, S),
           NEW l2, l2 = SubSeq(l, 1, n)
    PROVE  SettledIn(t, l2, {s \in S : s.len <= n})
<1>1. l2 \in Seq(E) /\ Len(l2) = n /\ \A y \in 1 .. n : l2[y] = l[y]
  BY PrefixEvents
<1>2. ASSUME NEW s \in S, s.len <= n
      PROVE  s.len \in 0 .. Len(l2)
  <2>1. s.len \in Nat
    BY SettledLength
  <2>2. PICK a \in Nat : a = s.len
    BY <2>1
  <2>3. a \in 0 .. Len(l2)
    BY <1>1, <1>2, <2>2
  <2> QED
    BY <2>2, <2>3
<1>3. ASSUME NEW s \in S, s.len <= n, NEW m \in s.len .. Len(l2)
      PROVE  <<s.path, "ok">> \in Replay(t, SubSeq(l2, 1, m))
  <2>1. s.len \in Nat /\ m \in Nat /\ m <= n /\ n <= Len(l) /\ Len(l) \in Nat
    <3>1. s.len \in Nat
      BY SettledLength
    <3>2. PICK a \in Nat : a = s.len
      BY <3>1
    <3>3. m \in Nat /\ m <= n /\ n <= Len(l) /\ Len(l) \in Nat
      BY <1>1, <1>3, <3>2
    <3> QED
      BY <3>1, <3>3
  <2>2. m \in s.len .. Len(l) /\ m \in 0 .. Len(l) /\ m <= Len(l2)
    BY <1>1, <2>1
  <2>3. \A y \in 1 .. m : l2[y] = l[y]
    BY <1>1, <2>1
  <2>4. SubSeq(l2, 1, m) = SubSeq(l, 1, m)
    BY <1>1, <2>2, <2>3, SamePrefix
  <2> QED
    BY <2>2, <2>4 DEF SettledIn
<1> QED
  BY <1>2, <1>3 DEF SettledIn

LEMMA SettledGains ==
    ASSUME NEW t, NEW E, NEW l \in Seq(E), NEW S, SettledIn(t, l, S), NEW s, s.len = Len(l),
           <<s.path, "ok">> \in Replay(t, l)
    PROVE  SettledIn(t, l, S \cup {s})
<1>1. Len(l) \in Nat /\ SubSeq(l, 1, Len(l)) = l
  BY WholePrefix
<1>2. s.len \in 0 .. Len(l)
  BY <1>1
<1>3. ASSUME NEW n \in s.len .. Len(l)
      PROVE  <<s.path, "ok">> \in Replay(t, SubSeq(l, 1, n))
  <2>1. n = Len(l)
    BY <1>1
  <2> QED
    BY <1>1, <2>1
<1> QED
  BY <1>2, <1>3 DEF SettledIn

LEMMA StepSettled ==
    ASSUME NEW t, Tree(t), NEW a, NEW r, NEW l, LogOK(t, l), Frames(t, a, r, l), Telling(t, a, r, l),
           NEW p \in DOMAIN a, NEW l2, LogOK(t, l2), Speaks(l, l2, p), Harmless(t, l, l2, p),
           NEW S, SettledIn(t, l, S)
    PROVE  SettledIn(t, l2, S)
<1>1. PICK E : E = LogEvent(t)
  OBVIOUS
<1>2. l \in Seq(E) /\ l2 \in Seq(E) /\ Grows(l, l2) /\ Len(l) \in Nat /\ Len(l2) \in Nat
  BY <1>1 DEF LogOK, Speaks
<1>3. ASSUME NEW l3, Len(l3) \in Nat, Grows(l, l3), Grows(l3, l2)
      PROVE  Replay(t, l) \subseteq Replay(t, l3)
  <2>1. \A j \in New(l, l3) : j \in New(l, l2) /\ l3[j] = l2[j]
    BY <1>2, <1>3 DEF New, Grows
  <2>2. Speaks(l, l3, p)
    BY <1>2, <1>3, <2>1 DEF Speaks
  <2>3. Harmless(t, l, l3, p)
    BY <2>1 DEF Harmless, Quiet
  <2> QED
    BY <2>2, <2>3, ReplayGrows
<1> QED
  BY <1>2, <1>3, SettledGrows

-----------------------------------------------------------------------------
(* What each kind of node answers when it returns.                         *)

LEMMA TellsByReason ==
    ASSUME NEW t, Tree(t), NEW l, Len(l) \in Nat, NEW q, InTree(t, q), NEW v,
           \A r \in {"ok", "skip"} : Why(t, l, Replay(t, l), q, r) => r = v,
           Bare(t, q[1]) /\ v \in {"ok", "skip"} => Why(t, l, Replay(t, l), q, v)
    PROVE  Tells(t, l, q, v)
<1>1. \A r : <<q, r>> \in Replay(t, l) => r = v
  BY ReplayHasReason
<1>2. Bare(t, q[1]) /\ v \in {"ok", "skip"} => <<q, v>> \in Replay(t, l)
  BY ReasonIsReplay
<1> QED
  BY <1>1, <1>2 DEF Tells

LEMMA BareBelow ==
    ASSUME NEW t, Tree(t), NEW q, InTree(t, q), Bare(t, q[1]), NEW i \in Has(t, q[1]), NEW k \in Nat
    PROVE  Bare(t, Sub(t, q, i, k)[1])
<1>1. PICK c : c = Sub(t, q, i, k)[1]
  OBVIOUS
<1>2. c \in q[1] + 1 .. t[q[1]].last
  BY <1>1, SubIsBelow
<1>3. q[1] \in Numbers(t) /\ q[1] \in Nat /\ t[q[1]].last \in Nat /\ c \in Nat
  BY <1>2, PathFacts, NodeFacts
<1>4. c \in q[1] .. t[q[1]].last
  BY <1>2, <1>3
<1>5. c \in Numbers(t) /\ t[c].last <= t[q[1]].last
  BY <1>3, <1>4, NodeFacts
<1>6. t[c].last \in Nat
  BY <1>5, NodeFacts
<1>7. \A m \in c .. t[c].last : m \in q[1] .. t[q[1]].last
  BY <1>3, <1>4, <1>5, <1>6
<1> QED
  BY <1>1, <1>7 DEF Bare

\* a child that tells v answers v, below a node without loop and try
LEMMA ChildAnswers ==
    ASSUME NEW t, Tree(t), NEW l, NEW q, InTree(t, q), NEW i \in Has(t, q[1]), NEW k \in Nat,
           NEW v \in {"ok", "skip"}, Tells(t, l, Sub(t, q, i, k), v), Bare(t, q[1])
    PROVE  <<Sub(t, q, i, k), v>> \in Replay(t, l)
<1>1. PICK c : c = Sub(t, q, i, k)
  OBVIOUS
<1>2. Bare(t, c[1])
  BY <1>1, BareBelow
<1> QED
  BY <1>1, <1>2 DEF Tells

LEMMA LoopTells ==
    ASSUME NEW t, Tree(t), NEW l, Len(l) \in Nat, NEW q, InTree(t, q), t[q[1]].kind \in {"loop", "try"}
    PROVE  (\A v : Tells(t, l, q, v)) /\ \A u : ~(<<q, u>> \in Replay(t, l))
<1>1. q[1] \in q[1] .. t[q[1]].last
  BY PathFacts, NodeFacts
<1>2. ~Bare(t, q[1])
  BY <1>1 DEF Bare
<1>3. \A u : ~(<<q, u>> \in Replay(t, l))
  BY ReplayHasReason DEF Why
<1> QED
  BY <1>2, <1>3 DEF Tells

LEMMA StepTells ==
    ASSUME NEW t, Tree(t), NEW l, Len(l) \in Nat, NEW q, InTree(t, q), t[q[1]].kind = "step"
    PROVE  /\ Committed(l, q) => Tells(t, l, q, "ok")
           /\ ~Committed(l, q) => (\A v : v \notin {"ok", "skip"} => Tells(t, l, q, v))
                                  /\ \A u : ~(<<q, u>> \in Replay(t, l))
<1>1. ASSUME Committed(l, q)
      PROVE  Tells(t, l, q, "ok")
  <2>1. Why(t, l, Replay(t, l), q, "ok")
    BY <1>1 DEF Why
  <2>2. \A r \in {"ok", "skip"} : Why(t, l, Replay(t, l), q, r) => r = "ok"
    BY DEF Why
  <2> QED
    BY <2>1, <2>2, TellsByReason
<1>2. ASSUME ~Committed(l, q)
      PROVE  \A u : ~(<<q, u>> \in Replay(t, l))
  BY <1>2, ReplayHasReason DEF Why
<1> QED
  BY <1>1, <1>2 DEF Tells

LEMMA SkipTells ==
    ASSUME NEW t, Tree(t), NEW l, Len(l) \in Nat, NEW q, InTree(t, q), t[q[1]].kind = "skip"
    PROVE  Tells(t, l, q, "skip")
<1>1. Why(t, l, Replay(t, l), q, "skip")
  BY DEF Why
<1>2. \A r \in {"ok", "skip"} : Why(t, l, Replay(t, l), q, r) => r = "skip"
  BY DEF Why
<1> QED
  BY <1>1, <1>2, TellsByReason

LEMMA SeqTellsOk ==
    ASSUME NEW t, Tree(t), NEW l, Len(l) \in Nat, NEW q, InTree(t, q), t[q[1]].kind = "seq",
           \A j \in Has(t, q[1]) : Tells(t, l, Sub(t, q, j, 0), "ok")
    PROVE  Tells(t, l, q, "ok")
<1>1. ASSUME Bare(t, q[1])
      PROVE  Why(t, l, Replay(t, l), q, "ok")
  <2>1. \A j \in Has(t, q[1]) : <<Sub(t, q, j, 0), "ok">> \in Replay(t, l)
    BY <1>1, ChildAnswers
  <2> QED
    BY <2>1 DEF Why
<1>2. ASSUME Why(t, l, Replay(t, l), q, "skip")
      PROVE  FALSE
  <2>1. PICK i \in Has(t, q[1]) : <<Sub(t, q, i, 0), "skip">> \in Replay(t, l)
    BY <1>2 DEF Why
  <2>2. Tells(t, l, Sub(t, q, i, 0), "ok")
    OBVIOUS
  <2> QED
    BY <2>1, <2>2 DEF Tells
<1> QED
  BY <1>1, <1>2, TellsByReason

LEMMA SeqTellsLast ==
    ASSUME NEW t, Tree(t), NEW l, Len(l) \in Nat, NEW q, InTree(t, q), t[q[1]].kind = "seq",
           NEW i \in Has(t, q[1]), NEW v, v # "ok", Tells(t, l, Sub(t, q, i, 0), v),
           \A j \in Has(t, q[1]) : j < i => Tells(t, l, Sub(t, q, j, 0), "ok")
    PROVE  Tells(t, l, q, v)
<1>1. ASSUME Bare(t, q[1]), v = "skip"
      PROVE  Why(t, l, Replay(t, l), q, "skip")
  <2>1. \A j \in Has(t, q[1]) : j < i => <<Sub(t, q, j, 0), "ok">> \in Replay(t, l)
    BY <1>1, ChildAnswers
  <2>2. <<Sub(t, q, i, 0), "skip">> \in Replay(t, l)
    BY <1>1, ChildAnswers
  <2> QED
    BY <2>1, <2>2 DEF Why
<1>2. ASSUME Why(t, l, Replay(t, l), q, "ok")
      PROVE  FALSE
  <2>1. <<Sub(t, q, i, 0), "ok">> \in Replay(t, l)
    BY <1>2 DEF Why
  <2> QED
    BY <2>1 DEF Tells
<1>3. ASSUME Why(t, l, Replay(t, l), q, "skip")
      PROVE  v = "skip"
  <2>1. PICK m \in Has(t, q[1]) : /\ <<Sub(t, q, m, 0), "skip">> \in Replay(t, l)
                                  /\ \A j \in Has(t, q[1]) : j < m => <<Sub(t, q, j, 0), "ok">> \in Replay(t, l)
    BY <1>3 DEF Why
  <2>2. ~(m < i)
    BY <2>1 DEF Tells
  <2>3. ~(i < m)
    <3>1. i < m => <<Sub(t, q, i, 0), "ok">> \in Replay(t, l)
      BY <2>1
    <3> QED
      BY <3>1 DEF Tells
  <2>4. m \in Nat /\ i \in Nat
    BY DEF Has
  <2>5. m = i
    BY <2>2, <2>3, <2>4
  <2> QED
    BY <2>1, <2>5 DEF Tells
<1>4. \A r \in {"ok", "skip"} : Why(t, l, Replay(t, l), q, r) => r = v
  BY <1>2, <1>3
<1> QED
  BY <1>1, <1>4, TellsByReason

LEMMA IfTells ==
    ASSUME NEW t, Tree(t), NEW l, LogOK(t, l), NEW q, InTree(t, q), t[q[1]].kind = "if",
           NEW w \in Has(t, q[1]), Branched(l, q, w), NEW v, Tells(t, l, Sub(t, q, w, 0), v)
    PROVE  Tells(t, l, q, v)
<1>1. Len(l) \in Nat
  BY DEF LogOK
<1>2. ASSUME NEW r, Why(t, l, Replay(t, l), q, r)
      PROVE  r = v
  <2>1. PICK u \in Has(t, q[1]) : Branched(l, q, u) /\ <<Sub(t, q, u, 0), r>> \in Replay(t, l)
    BY <1>2 DEF Why
  <2>2. u = w
    BY <2>1, BranchIsUnique
  <2> QED
    BY <2>1, <2>2 DEF Tells
<1>3. ASSUME Bare(t, q[1]), v \in {"ok", "skip"}
      PROVE  Why(t, l, Replay(t, l), q, v)
  <2>1. <<Sub(t, q, w, 0), v>> \in Replay(t, l)
    BY <1>3, ChildAnswers
  <2> QED
    BY <2>1 DEF Why
<1> QED
  BY <1>1, <1>2, <1>3, TellsByReason

\* an if without a branch does not answer
LEMMA IfIsMute ==
    ASSUME NEW t, Tree(t), NEW l, Len(l) \in Nat, NEW q, InTree(t, q), t[q[1]].kind = "if",
           \A w : ~Branched(l, q, w)
    PROVE  (\A v : v \notin {"ok", "skip"} => Tells(t, l, q, v)) /\ \A u : ~(<<q, u>> \in Replay(t, l))
<1>1. \A u : ~(<<q, u>> \in Replay(t, l))
  BY ReplayHasReason DEF Why
<1> QED
  BY <1>1 DEF Tells

LEMMA GateTellsPassed ==
    ASSUME NEW t, Tree(t), NEW l, Len(l) \in Nat, NEW q, InTree(t, q), t[q[1]].kind = "gate", Passed(l, q)
    PROVE  Tells(t, l, q, "ok")
<1>1. Why(t, l, Replay(t, l), q, "ok")
  BY DEF Why
<1>2. \A r \in {"ok", "skip"} : Why(t, l, Replay(t, l), q, r) => r = "ok"
  BY DEF Why
<1> QED
  BY <1>1, <1>2, TellsByReason

LEMMA GateIsMute ==
    ASSUME NEW t, Tree(t), NEW l, Len(l) \in Nat, NEW q, InTree(t, q), t[q[1]].kind = "gate", ~Passed(l, q),
           NEW k \in Nat, k = NextAt(l, q),
           \/ ~(k <= t[q[1]].max)
           \/ /\ ~(<<Sub(t, q, 1, k), "skip">> \in Replay(t, l))
              /\ \/ ~(<<Sub(t, q, 1, k), "ok">> \in Replay(t, l))
                 \/ ~(<<Sub(t, q, 2, k), "skip">> \in Replay(t, l))
    PROVE  (\A v : v \notin {"ok", "skip"} => Tells(t, l, q, v)) /\ \A u : ~(<<q, u>> \in Replay(t, l))
<1>1. ASSUME NEW u, <<q, u>> \in Replay(t, l)
      PROVE  FALSE
  <2>1. Why(t, l, Replay(t, l), q, u)
    BY <1>1, ReplayHasReason
  <2>2. /\ k <= t[q[1]].max
        /\ \/ <<Sub(t, q, 1, k), "skip">> \in Replay(t, l)
           \/ /\ <<Sub(t, q, 1, k), "ok">> \in Replay(t, l)
              /\ <<Sub(t, q, 2, k), "skip">> \in Replay(t, l)
    BY <2>1 DEF Why
  <2> QED
    BY <2>2
<1> QED
  BY <1>1 DEF Tells

LEMMA GateTellsSkip ==
    ASSUME NEW t, Tree(t), NEW l, Len(l) \in Nat, NEW q, InTree(t, q), t[q[1]].kind = "gate", ~Passed(l, q),
           NEW k \in Nat, k = NextAt(l, q), k <= t[q[1]].max,
           \/ Tells(t, l, Sub(t, q, 1, k), "skip")
           \/ Tells(t, l, Sub(t, q, 1, k), "ok") /\ Tells(t, l, Sub(t, q, 2, k), "skip")
    PROVE  Tells(t, l, q, "ok")
<1>1. 1 \in Has(t, q[1]) /\ 2 \in Has(t, q[1])
  BY GateHasTwo
<1>2. ASSUME Bare(t, q[1])
      PROVE  Why(t, l, Replay(t, l), q, "ok")
  <2>1. \/ <<Sub(t, q, 1, k), "skip">> \in Replay(t, l)
        \/ /\ <<Sub(t, q, 1, k), "ok">> \in Replay(t, l)
           /\ <<Sub(t, q, 2, k), "skip">> \in Replay(t, l)
    BY <1>1, <1>2, ChildAnswers
  <2> QED
    BY <2>1 DEF Why
<1>3. \A r \in {"ok", "skip"} : Why(t, l, Replay(t, l), q, r) => r = "ok"
  BY DEF Why
<1> QED
  BY <1>2, <1>3, TellsByReason

LEMMA GroupTellsOk ==
    ASSUME NEW t, Tree(t), NEW l, Len(l) \in Nat, NEW q, InTree(t, q), t[q[1]].kind = "parallel",
           \A i \in Has(t, q[1]) : \E v \in {"ok", "skip"} : Tells(t, l, Sub(t, q, i, 0), v)
    PROVE  Tells(t, l, q, "ok")
<1>1. ASSUME Bare(t, q[1])
      PROVE  Why(t, l, Replay(t, l), q, "ok")
  <2>1. ASSUME NEW i \in Has(t, q[1])
        PROVE  <<Sub(t, q, i, 0), "ok">> \in Replay(t, l) \/ <<Sub(t, q, i, 0), "skip">> \in Replay(t, l)
    <3>1. PICK v \in {"ok", "skip"} : Tells(t, l, Sub(t, q, i, 0), v)
      OBVIOUS
    <3>2. <<Sub(t, q, i, 0), v>> \in Replay(t, l)
      BY <1>1, <3>1, ChildAnswers
    <3> QED
      BY <3>2
  <2> QED
    BY <2>1 DEF Why
<1>2. \A r \in {"ok", "skip"} : Why(t, l, Replay(t, l), q, r) => r = "ok"
  BY DEF Why
<1> QED
  BY <1>1, <1>2, TellsByReason

LEMMA GroupTellsFailure ==
    ASSUME NEW t, Tree(t), NEW l, Len(l) \in Nat, NEW q, InTree(t, q), t[q[1]].kind = "parallel",
           NEW i \in Has(t, q[1]), NEW u, u \notin {"ok", "skip"}, Tells(t, l, Sub(t, q, i, 0), u),
           NEW v, v \notin {"ok", "skip"}
    PROVE  Tells(t, l, q, v)
<1>1. ASSUME NEW r, Why(t, l, Replay(t, l), q, r)
      PROVE  FALSE
  <2>1. <<Sub(t, q, i, 0), "ok">> \in Replay(t, l) \/ <<Sub(t, q, i, 0), "skip">> \in Replay(t, l)
    BY <1>1 DEF Why
  <2> QED
    BY <2>1 DEF Tells
<1> QED
  BY <1>1, TellsByReason

-----------------------------------------------------------------------------
(* What a step leaves of what a walk has seen.                             *)

\* p moves: it is at f or returned, the others go on as they were, or start
LEMMA TellingMoves ==
    ASSUME NEW t, Tree(t), NEW a, NEW r, NEW l, Frames(t, a, r, l), Telling(t, a, r, l), NEW p \in DOMAIN a,
           NEW l2, Speaks(l, l2, p), NEW a2, NEW r2,
           \A q \in DOMAIN a2 : \/ q = p /\ Recalls(t, l2, p, a2[p])
                                \/ q \in DOMAIN a /\ a2[q] = a[q]
                                \/ \E ctx : a2[q] = Frame(ctx),
           \A q \in DOMAIN r2 : \/ q = p /\ Tells(t, l2, p, r2[p])
                                \/ q \in DOMAIN r /\ r2[q] = r[q]
    PROVE  Telling(t, a2, r2, l2)
<1>1. ASSUME NEW q \in DOMAIN a2
      PROVE  Recalls(t, l2, q, a2[q])
  <2>1. CASE q = p /\ Recalls(t, l2, p, a2[p])
    BY <2>1
  <2>2. CASE q \in DOMAIN a /\ a2[q] = a[q]
    <3>1. Recalls(t, l, q, a[q])
      BY <2>2 DEF Telling
    <3>2. Recalls(t, l2, q, a[q])
      BY <2>2, <3>1, FramesRecall
    <3> QED
      BY <2>2, <3>2
  <2>3. ASSUME NEW ctx, a2[q] = Frame(ctx)
        PROVE  Recalls(t, l2, q, a2[q])
    BY <2>3, FreshRecalls
  <2> QED
    BY <2>1, <2>2, <2>3
<1>2. ASSUME NEW q \in DOMAIN r2
      PROVE  Tells(t, l2, q, r2[q])
  <2>1. CASE q = p /\ Tells(t, l2, p, r2[p])
    BY <2>1
  <2>2. CASE q \in DOMAIN r /\ r2[q] = r[q]
    BY <2>2, ReturnedTell
  <2> QED
    BY <2>1, <2>2
<1> QED
  BY <1>1, <1>2 DEF Telling

TellInv ==
    /\ "settled" \in DOMAIN seen
    /\ Telling(tree, act, ret, log)
    /\ SettledIn(tree, log, seen.settled)

LEMMA TellFacts ==
    ASSUME WalkInv, TellInv
    PROVE  /\ Tree(tree) /\ LogOK(tree, log) /\ Len(log) \in Nat
           /\ Frames(tree, act, ret, log) /\ Struct(tree, act, ret)
           /\ Telling(tree, act, ret, log) /\ SettledIn(tree, log, seen.settled)
BY WorkflowIsTree DEF WalkInv, WalkLog, WalkFrames, LogOK, Frames, TellInv

\* what a step keeps of what settled
SettledKept(l) == /\ "settled" \in DOMAIN seen'
                  /\ \/ seen'.settled = seen.settled
                     \/ \E s : /\ seen'.settled = seen.settled \cup {s}
                               /\ s.len = Len(l) /\ <<s.path, "ok">> \in Replay(tree, l)

LEMMA TellKept ==
    ASSUME WalkInv, TellInv, UNCHANGED tree, NEW p \in DOMAIN act, Logs(p), Harmless(tree, log, log', p),
           Telling(tree, act', ret', log'), SettledKept(log')
    PROVE  TellInv'
<1>1. PICK l2, S2 : l2 = log' /\ S2 = seen'.settled
  OBVIOUS
<1>2. LogOK(tree, l2) /\ Speaks(log, l2, p) /\ Harmless(tree, log, l2, p)
  BY <1>1 DEF Logs
<1>3. SettledIn(tree, l2, seen.settled)
  BY <1>2, TellFacts, StepSettled
<1>4. l2 \in Seq(LogEvent(tree))
  BY <1>2 DEF LogOK
<1>5. CASE S2 = seen.settled
  BY <1>1, <1>3, <1>5 DEF TellInv, SettledKept
<1>6. CASE \E s : S2 = seen.settled \cup {s} /\ s.len = Len(l2) /\ <<s.path, "ok">> \in Replay(tree, l2)
  <2>1. PICK s : S2 = seen.settled \cup {s} /\ s.len = Len(l2) /\ <<s.path, "ok">> \in Replay(tree, l2)
    BY <1>6
  <2>2. SettledIn(tree, l2, S2)
    BY <1>3, <1>4, <2>1, SettledGains
  <2> QED
    BY <1>1, <2>2 DEF TellInv, SettledKept
<1>7. S2 = seen.settled \/ \E s : S2 = seen.settled \cup {s} /\ s.len = Len(l2) /\ <<s.path, "ok">> \in Replay(tree, l2)
  BY <1>1 DEF SettledKept
<1> QED
  BY <1>5, <1>6, <1>7

LEMMA ReplayableIsBare ==
    ASSUME NEW p, Replayable(p)
    PROVE  Bare(tree, p[1])
BY DEF Replayable, Bare, Node

LEMMA SeenKept ==
    ASSUME "settled" \in DOMAIN seen, NEW p, NEW l, NEW r, Tells(tree, l, p, r),
           \/ Keep \/ Break(p)
           \/ r = "ok" /\ Settle(p, Len(l))
    PROVE  SettledKept(l)
<1>1. CASE Keep \/ Break(p)
  BY <1>1 DEF Keep, Break, SettledKept
<1>2. CASE r = "ok" /\ Settle(p, Len(l))
  <2>1. PICK s : s = [path |-> p, len |-> Len(l)]
    OBVIOUS
  <2>2. s.path = p /\ s.len = Len(l)
    BY <2>1
  <2>3. CASE Replayable(p)
    <3>1. Bare(tree, p[1])
      BY <2>3, ReplayableIsBare
    <3>2. <<s.path, "ok">> \in Replay(tree, l)
      BY <1>2, <2>2, <3>1 DEF Tells
    <3>3. "settled" \in DOMAIN seen' /\ seen'.settled = seen.settled \cup {s}
      BY <1>2, <2>1, <2>3 DEF Settle
    <3> QED
      BY <2>2, <3>2, <3>3 DEF SettledKept
  <2>4. CASE ~Replayable(p)
    BY <1>2, <2>4 DEF Settle, SettledKept
  <2> QED
    BY <2>3, <2>4
<1> QED
  BY <1>1, <1>2

\* p calls its child i
LEMMA TellCalls ==
    ASSUME WalkInv, TellInv, UNCHANGED tree, NEW p \in DOMAIN act, Logs(p), Harmless(tree, log, log', p),
           NEW i \in Has(tree, p[1]), NEW k \in Nat, NEW held, NEW ctx, CallUnder(p, i, k, held, ctx),
           \A f : f.at = i /\ f.k = k => Recalls(tree, log', p, f),
           "settled" \in DOMAIN seen', seen'.settled = seen.settled
    PROVE  TellInv'
<1>1. PICK c : c = Kid(p, i, k)
  OBVIOUS
<1>2. PICK g : g = [act EXCEPT ![p] = [@ EXCEPT !.at = i, !.k = k, !.held = held]]
  OBVIOUS
<1>3. act' = Extend(g, c, Frame(ctx)) /\ ret' = Taken(p)
  BY <1>1, <1>2 DEF CallUnder
<1>4. DOMAIN g = DOMAIN act /\ g[p].at = i /\ g[p].k = k /\ \A q \in DOMAIN act : q # p => g[q] = act[q]
  <2>1. act[p] \in FrameType(tree)
    BY FrameFacts
  <2>2. PICK f : f = [act[p] EXCEPT !.at = i, !.k = k, !.held = held]
    OBVIOUS
  <2>3. f.at = i /\ f.k = k
    BY <2>1, <2>2 DEF FrameType
  <2>4. DOMAIN g = DOMAIN act /\ g[p] = f /\ \A q \in DOMAIN act : q # p => g[q] = act[q]
    BY <1>2, <2>2
  <2> QED
    BY <2>3, <2>4
<1>5. \A q \in DOMAIN act' : \/ q = p /\ Recalls(tree, log', p, act'[p])
                             \/ q \in DOMAIN act /\ act'[q] = act[q]
                             \/ \E x : act'[q] = Frame(x)
  <2>1. DOMAIN act' = DOMAIN act \cup {c} /\ \A q \in DOMAIN act' : act'[q] = IF q = c THEN Frame(ctx) ELSE g[q]
    BY <1>3, <1>4 DEF Extend
  <2>2. SUFFICES ASSUME NEW q \in DOMAIN act'
                 PROVE  \/ q = p /\ Recalls(tree, log', p, act'[p])
                        \/ q \in DOMAIN act /\ act'[q] = act[q]
                        \/ \E x : act'[q] = Frame(x)
    OBVIOUS
  <2>3. CASE q = c
    BY <2>1, <2>3
  <2>4. CASE q # c /\ q = p
    <3>1. act'[p] = g[p]
      BY <2>1, <2>4
    <3>2. Recalls(tree, log', p, g[p])
      BY <1>4
    <3> QED
      BY <2>4, <3>1, <3>2
  <2>5. CASE q # c /\ q # p
    BY <1>4, <2>1, <2>5
  <2> QED
    BY <2>3, <2>4, <2>5
<1>6. \A q \in DOMAIN ret' : q \in DOMAIN ret /\ ret'[q] = ret[q]
  BY <1>3, TakenFacts
<1>7. Telling(tree, act', ret', log')
  <2>1. PICK a2, r2, l2 : a2 = act' /\ r2 = ret' /\ l2 = log'
    OBVIOUS
  <2>2. /\ \A q \in DOMAIN a2 : \/ q = p /\ Recalls(tree, l2, p, a2[p])
                                \/ q \in DOMAIN act /\ a2[q] = act[q]
                                \/ \E x : a2[q] = Frame(x)
        /\ \A q \in DOMAIN r2 : q \in DOMAIN ret /\ r2[q] = ret[q]
        /\ Speaks(log, l2, p)
    BY <1>5, <1>6, <2>1 DEF Logs
  <2>3. Telling(tree, a2, r2, l2)
    BY <2>2, TellFacts, TellingMoves
  <2> QED
    BY <2>1, <2>3
<1>8. SettledKept(log')
  BY DEF SettledKept
<1> QED
  BY <1>7, <1>8, TellKept

\* p returns r
LEMMA TellReturns ==
    ASSUME WalkInv, TellInv, UNCHANGED tree, NEW p \in DOMAIN act, Logs(p), Harmless(tree, log, log', p),
           NEW R, DOMAIN R \subseteq DOMAIN ret, \A q \in DOMAIN R : R[q] = ret[q],
           NEW r, act' = Forget(act, p), ret' = Extend(R, p, r), Tells(tree, log', p, r),
           \/ Keep \/ Break(p)
           \/ r = "ok" /\ Settle(p, Len(log'))
    PROVE  TellInv'
<1>1. PICK a2, r2, l2 : a2 = act' /\ r2 = ret' /\ l2 = log'
  OBVIOUS
<1>2. /\ \A q \in DOMAIN a2 : q \in DOMAIN act /\ a2[q] = act[q]
      /\ \A q \in DOMAIN r2 : \/ q = p /\ Tells(tree, l2, p, r2[p])
                              \/ q \in DOMAIN ret /\ r2[q] = ret[q]
      /\ Speaks(log, l2, p)
  <2>1. \A q \in DOMAIN a2 : q \in DOMAIN act /\ a2[q] = act[q]
    BY <1>1 DEF Forget, Restrict
  <2>2. DOMAIN r2 = DOMAIN R \cup {p} /\ \A q \in DOMAIN r2 : r2[q] = IF q = p THEN r ELSE R[q]
    BY <1>1 DEF Extend
  <2>3. Tells(tree, l2, p, r)
    BY <1>1
  <2>4. \A q \in DOMAIN r2 : \/ q = p /\ Tells(tree, l2, p, r2[p])
                             \/ q \in DOMAIN ret /\ r2[q] = ret[q]
    BY <2>2, <2>3
  <2> QED
    BY <1>1, <2>1, <2>4 DEF Logs
<1>3. Telling(tree, a2, r2, l2)
  BY <1>2, TellFacts, TellingMoves
<1>4. Telling(tree, act', ret', log')
  BY <1>1, <1>3
<1>5. SettledKept(log')
  <2>1. Tells(tree, l2, p, r) /\ (Keep \/ Break(p) \/ (r = "ok" /\ Settle(p, Len(l2))))
    BY <1>1
  <2>2. SettledKept(l2)
    BY <2>1, SeenKept DEF TellInv
  <2> QED
    BY <1>1, <2>2
<1> QED
  BY <1>4, <1>5, TellKept

\* the same, for the returns that take what a child returned
LEMMA TellReturnsHere ==
    ASSUME WalkInv, TellInv, UNCHANGED fixed, NEW p \in DOMAIN act, Logs(p), Harmless(tree, log, log', p),
           NEW r, Return(p, r), Tells(tree, log', p, r),
           \/ Keep \/ Break(p)
           \/ r = "ok" /\ Settle(p, Len(log'))
    PROVE  TellInv'
<1>1. act' = Forget(act, p) /\ ret' = Extend(Taken(p), p, r) /\ UNCHANGED tree
  BY DEF Return, fixed
<1>2. DOMAIN Taken(p) \subseteq DOMAIN ret /\ \A q \in DOMAIN Taken(p) : Taken(p)[q] = ret[q]
  BY TakenFacts
<1> QED
  BY <1>1, <1>2, TellReturns

LEMMA TellCallsHere ==
    ASSUME WalkInv, TellInv, UNCHANGED fixed, NEW p \in DOMAIN act, Logs(p), Harmless(tree, log, log', p),
           NEW i \in Has(tree, p[1]), NEW k \in Nat, Call(p, i, k), Keep,
           \A f : f.at = i /\ f.k = k => Recalls(tree, log', p, f)
    PROVE  TellInv'
<1>1. CallUnder(p, i, k, "ok", act[p].ctx) /\ UNCHANGED tree
  BY DEF Call, fixed
<1>2. "settled" \in DOMAIN seen' /\ seen'.settled = seen.settled
  BY DEF Keep, TellInv
<1> QED
  BY <1>1, <1>2, TellCalls

LEMMA SilentIsHarmless ==
    ASSUME WalkInv, Silent, NEW p
    PROVE  Harmless(tree, log, log', p) /\ Logs(p) /\ log' = log /\ Quiet(log, log')
<1>1. log' = log /\ Logs(p)
  BY SilentLogs DEF Silent, journal
<1>2. Len(log) \in Nat
  BY DEF WalkInv, WalkLog, LogOK
<1>3. New(log, log') = {}
  BY <1>1, <1>2 DEF New
<1> QED
  BY <1>1, <1>3 DEF Harmless, Quiet

LEMMA QuietIsHarmless ==
    ASSUME WalkInv, NEW p \in DOMAIN act, NEW type \in EventTypes, type \notin Loud,
           Observe(Event(type, p, 0)) \/ Commit(Event(type, p, 0))
    PROVE  Harmless(tree, log, log', p) /\ Logs(p) /\ Len(log') = Len(log) + 1 /\ Quiet(log, log')
<1>1. Logs(p)
  BY QuietLogs
<1>2. log'[Len(log')].type = type /\ New(log, log') = {Len(log')} /\ Len(log') = Len(log) + 1
  BY LastEvent
<1> QED
  BY <1>1, <1>2 DEF Harmless, Quiet

\* what p tells survives events that say nothing
LEMMA QuietTells ==
    ASSUME WalkInv, TellInv, NEW p \in DOMAIN act, Logs(p), Quiet(log, log'), NEW v, Tells(tree, log, p, v)
    PROVE  Tells(tree, log', p, v)
<1>1. PICK l2 : l2 = log'
  OBVIOUS
<1>2. Speaks(log, l2, p) /\ Quiet(log, l2) /\ Tree(tree) /\ InTree(tree, p)
  BY <1>1, TellFacts, FrameFacts DEF Logs
<1>3. Tells(tree, l2, p, v)
  BY <1>2, OthersTell
<1> QED
  BY <1>1, <1>3

-----------------------------------------------------------------------------
(* The steps of the walk, handler by handler.                              *)

LEMMA GotTells ==
    ASSUME WalkInv, TellInv, NEW p \in DOMAIN act, Callee(p) \in DOMAIN ret
    PROVE  /\ Tells(tree, log, Sub(tree, p, act[p].at, act[p].k), Got(p))
           /\ ~Rounded(tree, p[1]) => Tells(tree, log, Sub(tree, p, act[p].at, 0), Got(p))
           /\ Recalls(tree, log, p, act[p])
<1>1. Callee(p) = Sub(tree, p, act[p].at, act[p].k)
  BY ModelPaths
<1>2. Tells(tree, log, Callee(p), Got(p))
  BY TellFacts DEF Telling, Got
<1>3. Recalls(tree, log, p, act[p])
  BY TellFacts DEF Telling
<1> QED
  BY <1>1, <1>2, <1>3, SubWithoutRound

LEMMA SeqTells ==
    ASSUME WalkInv, TellInv, NEW p \in DOMAIN act, SeqStart(p) \/ SeqNext(p)
    PROVE  TellInv'
<1>1. UNCHANGED fixed /\ Kind(p) = "seq" /\ Silent
  BY DEF SeqStart, SeqNext, Fresh, Back
<1>2. Harmless(tree, log, log', p) /\ Logs(p) /\ log' = log /\ Quiet(log, log')
  BY <1>1, SilentIsHarmless
<1>3. Has(tree, p[1]) = 1 .. Len(Node(p).kids) /\ Len(Node(p).kids) \in Nat /\ Node(p).kids \in Seq(Nat)
  <2>1. Tree(tree) /\ p[1] \in Numbers(tree) /\ Node(p) = tree[p[1]]
    BY WorkflowIsTree, FrameFacts, ModelPaths DEF WalkInv
  <2> QED
    BY <1>1, <2>1, KidsExist, NodeFacts
<1>4. Tree(tree) /\ Len(log) \in Nat /\ InTree(tree, p) /\ tree[p[1]].kind = "seq" /\ ~Rounded(tree, p[1])
  BY <1>1, TellFacts, FrameFacts, ModelPaths DEF Rounded
<1>5. CASE SeqStart(p)
  <2>1. CASE Node(p).kids # <<>> /\ Call(p, 1, 0) /\ Keep
    <3>1. 1 \in Has(tree, p[1]) /\ 0 \in Nat
      BY <1>3, <2>1
    <3>2. \A j \in Has(tree, p[1]) : ~(j < 1)
      BY DEF Has
    <3>3. \A f : f.at = 1 /\ f.k = 0 => Recalls(tree, log', p, f)
      BY <1>4, <3>2 DEF Recalls
    <3> QED
      BY <1>1, <1>2, <2>1, <3>1, <3>3, TellCallsHere
  <2>2. CASE Node(p).kids = <<>> /\ Return(p, "ok") /\ Settle(p, Len(log))
    <3>1. Has(tree, p[1]) = {}
      BY <1>3, <2>2
    <3>2. Tells(tree, log, p, "ok")
      BY <1>4, <3>1, SeqTellsOk
    <3> QED
      BY <1>1, <1>2, <2>2, <3>2, TellReturnsHere
  <2> QED
    BY <1>5, <2>1, <2>2 DEF SeqStart
<1>6. CASE SeqNext(p)
  <2>1. Callee(p) \in DOMAIN ret /\ act[p].at > 0 /\ act[p].at \in Nat /\ Got(p) \in Results
    BY <1>6, FrameFacts DEF SeqNext, Back
  <2>2. PICK n \in Nat : n = act[p].at
    BY <2>1
  <2>3. n \in Has(tree, p[1])
    BY <1>1, <2>1, <2>2, FrameFacts
  <2>4. Tells(tree, log, Sub(tree, p, n, 0), Got(p))
    BY <1>4, <2>1, <2>2, GotTells
  <2>5. \A j \in Has(tree, p[1]) : j < n => Tells(tree, log, Sub(tree, p, j, 0), "ok")
    BY <1>4, <2>1, <2>2, GotTells DEF Recalls
  <2>6. \A j \in Has(tree, p[1]) : j \in Nat
    BY DEF Has
  <2>7. CASE Got(p) = "ok" /\ n < Len(Node(p).kids) /\ Call(p, n + 1, 0) /\ Keep
    <3>1. n + 1 \in Has(tree, p[1]) /\ 0 \in Nat
      BY <1>3, <2>7
    <3>2. \A j \in Has(tree, p[1]) : j < n + 1 => Tells(tree, log, Sub(tree, p, j, 0), "ok")
      <4>1. \A j \in Has(tree, p[1]) : j < n + 1 => j < n \/ j = n
        BY <2>6
      <4> QED
        BY <2>4, <2>5, <2>7, <4>1
    <3>3. PICK m : m = n + 1
      OBVIOUS
    <3>4. \A f : f.at = m /\ f.k = 0 => Recalls(tree, log', p, f)
      BY <1>2, <1>4, <3>2, <3>3 DEF Recalls
    <3> QED
      BY <1>1, <1>2, <2>7, <3>1, <3>3, <3>4, TellCallsHere
  <2>8. CASE Got(p) = "ok" /\ n = Len(Node(p).kids) /\ Return(p, "ok") /\ Settle(p, Len(log))
    <3>1. \A j \in Has(tree, p[1]) : Tells(tree, log, Sub(tree, p, j, 0), "ok")
      <4>1. \A j \in Has(tree, p[1]) : j < n \/ j = n
        BY <1>3, <2>8
      <4> QED
        BY <2>4, <2>5, <2>8, <4>1
    <3>2. Tells(tree, log, p, "ok")
      BY <1>4, <3>1, SeqTellsOk
    <3> QED
      BY <1>1, <1>2, <2>8, <3>2, TellReturnsHere
  <2>9. CASE Got(p) # "ok" /\ Return(p, Got(p)) /\ Keep
    <3>1. Tells(tree, log, p, Got(p))
      BY <1>4, <2>3, <2>4, <2>5, <2>9, SeqTellsLast
    <3> QED
      BY <1>1, <1>2, <2>9, <3>1, TellReturnsHere
  <2> QED
    BY <1>6, <2>2, <2>7, <2>8, <2>9 DEF SeqNext
<1> QED
  BY <1>5, <1>6

LEMMA StepsTell ==
    ASSUME WalkInv, TellInv, NEW p \in DOMAIN act,
           \/ StepReplay(p) \/ StepRun(p) \/ StepRefused(p) \/ StepCommit(p)
           \/ StepCancelled(p) \/ StepFail(p) \/ StepInternal(p)
    PROVE  TellInv'
<1>1. UNCHANGED tree /\ Kind(p) = "step"
  BY DEF StepReplay, StepRun, StepRefused, StepCommit, StepCancelled, StepFail, StepInternal,
         Fresh, Running, fixed
<1>2. Tree(tree) /\ LogOK(tree, log) /\ Len(log) \in Nat /\ InTree(tree, p) /\ tree[p[1]].kind = "step"
  BY <1>1, TellFacts, FrameFacts, ModelPaths
<1>3. CASE StepReplay(p)
  <2>1. Completed(p) /\ UNCHANGED fixed /\ Return(p, "ok") /\ Silent /\ Keep
    BY <1>3 DEF StepReplay
  <2>2. Committed(log, p)
    BY <2>1 DEF Completed, Events, Committed, CommitAt
  <2>3. Tells(tree, log, p, "ok")
    BY <1>2, <2>2, StepTells
  <2> QED
    BY <2>1, <2>3, SilentIsHarmless, TellReturnsHere
<1>4. CASE StepRun(p)
  <2>1. /\ act' = [act EXCEPT ![p] = [@ EXCEPT !.at = 1]] /\ ret' = ret /\ Silent /\ Keep
    BY <1>4 DEF StepRun
  <2>2. Harmless(tree, log, log', p) /\ Logs(p)
    BY <2>1, SilentIsHarmless
  <2>3. \A f : Recalls(tree, log', p, f)
    BY <1>2 DEF Recalls
  <2>4. PICK a2, r2, l2 : a2 = act' /\ r2 = ret' /\ l2 = log'
    OBVIOUS
  <2>5. /\ \A q \in DOMAIN a2 : \/ q = p /\ Recalls(tree, l2, p, a2[p])
                                \/ q \in DOMAIN act /\ a2[q] = act[q]
        /\ \A q \in DOMAIN r2 : q \in DOMAIN ret /\ r2[q] = ret[q]
        /\ Speaks(log, l2, p)
    BY <2>1, <2>2, <2>3, <2>4 DEF Logs
  <2>6. Telling(tree, a2, r2, l2)
    BY <2>5, TellFacts, TellingMoves
  <2>7. SettledKept(log')
    BY <2>1 DEF SettledKept, Keep, TellInv
  <2> QED
    BY <1>1, <2>2, <2>4, <2>6, <2>7, TellKept
<1>5. CASE StepRefused(p)
  <2>1. ~Completed(p) /\ UNCHANGED fixed /\ Return(p, "internal") /\ Silent /\ Keep
    BY <1>5 DEF StepRefused
  <2>2. ~Committed(log, p)
    BY <2>1 DEF Completed, Events, Committed, CommitAt
  <2>3. Tells(tree, log, p, "internal")
    BY <1>2, <2>2, StepTells
  <2> QED
    BY <2>1, <2>3, SilentIsHarmless, TellReturnsHere
<1>6. ASSUME Running(p)
      PROVE  ~Committed(log, p) /\ \A u : ~(<<p, u>> \in Replay(tree, log))
  <2>1. act[p].at = 1 /\ Knows(tree, p, act[p].at, act[p].k, log)
    BY <1>6, FrameFacts DEF Running, Remembers
  <2>2. ~Committed(log, p)
    BY <1>2, <2>1 DEF Knows, Committed
  <2> QED
    BY <1>2, <2>2, StepTells
<1>7. ASSUME NEW r, StepReturn(p, r), Logs(p), Harmless(tree, log, log', p), Tells(tree, log', p, r),
             Keep \/ Break(p) \/ (r = "ok" /\ Settle(p, Len(log')))
      PROVE  TellInv'
  <2>1. act' = Forget(act, p) /\ ret' = Extend(ret, p, r)
    BY <1>7 DEF StepReturn
  <2> QED
    BY <1>1, <1>7, <2>1, TellReturns
<1>8. CASE StepCommit(p)
  <2>1. Running(p) /\ Commit(Event("node.completed", p, 0)) /\ StepReturn(p, "ok") /\ Settle(p, Len(log) + 1)
    BY <1>8 DEF StepCommit
  <2>2. WalkInv'
    BY <1>8, StepSteps
  <2>3. /\ Len(log') = Len(log) + 1 /\ Grows(log, log') /\ New(log, log') = {Len(log')}
        /\ log'[Len(log')].type = "node.completed" /\ log'[Len(log')].path = p
    BY <2>1, LastEvent DEF EventTypes
  <2>4. LogOK(tree, log') /\ Len(log') \in Nat
    BY <1>1, <1>2, <2>2, <2>3 DEF WalkInv, WalkLog
  <2>5. Logs(p)
    BY <1>2, <2>1, <2>3, <2>4 DEF Logs, Speaks, Commit
  <2>6. Harmless(tree, log, log', p)
    BY <1>6, <2>1 DEF Harmless
  <2>7. PICK l2 : l2 = log'
    OBVIOUS
  <2>8. Committed(l2, p)
    BY <2>3, <2>4, <2>7 DEF Committed, CommitAt
  <2>9. Tells(tree, l2, p, "ok")
    BY <1>2, <2>4, <2>7, <2>8, StepTells
  <2> QED
    BY <1>7, <2>1, <2>3, <2>5, <2>6, <2>7, <2>9
<1>9. CASE StepCancelled(p) \/ StepFail(p)
  <2>1. PICK r \in {"retryable_failure", "permanent_failure"} : StepReturn(p, r)
    BY <1>9 DEF StepCancelled, StepFail
  <2>2. Running(p) /\ Commit(Event("node.failed", p, 0)) /\ (Keep \/ Break(p))
    BY <1>9 DEF StepCancelled, StepFail
  <2>3. Harmless(tree, log, log', p) /\ Logs(p) /\ Quiet(log, log')
    BY <2>2, QuietIsHarmless DEF EventTypes, Loud, RoundTypes
  <2>4. Tells(tree, log, p, r)
    BY <1>2, <1>6, <2>2, StepTells
  <2>5. Tells(tree, log', p, r)
    BY <2>3, <2>4, QuietTells
  <2> QED
    BY <1>7, <2>1, <2>2, <2>3, <2>5
<1>10. CASE StepInternal(p)
  <2>1. Running(p) /\ StepReturn(p, "internal") /\ Silent /\ Break(p)
    BY <1>10 DEF StepInternal
  <2>2. Harmless(tree, log, log', p) /\ Logs(p) /\ log' = log
    BY <2>1, SilentIsHarmless
  <2>3. Tells(tree, log, p, "internal")
    BY <1>2, <1>6, <2>1, StepTells
  <2> QED
    BY <1>7, <2>1, <2>2, <2>3
<1> QED
  BY <1>3, <1>4, <1>5, <1>8, <1>9, <1>10

LEMMA IfsTell ==
    ASSUME WalkInv, TellInv, NEW p \in DOMAIN act, RunSkip(p) \/ IfReplay(p) \/ IfDecide(p) \/ IfReturn(p)
    PROVE  TellInv'
<1>1. UNCHANGED fixed /\ UNCHANGED tree /\ Kind(p) \in {"if", "skip"} /\ Kind(p) = tree[p[1]].kind
  BY ModelPaths DEF RunSkip, IfReplay, IfDecide, IfReturn, Fresh, Back, fixed
<1>2. Tree(tree) /\ LogOK(tree, log) /\ Len(log) \in Nat /\ InTree(tree, p)
  BY TellFacts, FrameFacts
<1>3. \A f : Recalls(tree, log', p, f)
  BY <1>1 DEF Recalls
<1>4. ~Rounded(tree, p[1])
  BY <1>1 DEF Rounded
<1>5. CASE RunSkip(p)
  <2>1. Silent /\ Return(p, "skip") /\ Keep /\ Kind(p) = "skip"
    BY <1>5 DEF RunSkip, Fresh
  <2>2. Tells(tree, log, p, "skip")
    BY <1>1, <1>2, <2>1, SkipTells
  <2> QED
    BY <1>1, <2>1, <2>2, SilentIsHarmless, TellReturnsHere
<1>6. CASE IfReplay(p)
  <2>1. Silent /\ LookupBranch(p) # 0 /\ Call(p, LookupBranch(p), 0) /\ Kind(p) = "if" /\ Keep
    BY <1>6 DEF IfReplay, Fresh
  <2>2. PICK b : b = LookupBranch(p)
    OBVIOUS
  <2>3. b \in Has(tree, p[1]) /\ 0 \in Nat
    BY <2>1, <2>2, LookupBranchFinds, KidsExist
  <2>4. Call(p, b, 0)
    BY <2>1, <2>2
  <2> QED
    BY <1>1, <1>3, <2>1, <2>3, <2>4, SilentIsHarmless, TellCallsHere
<1>7. CASE IfDecide(p)
  <2>1. PICK which \in 1 .. 2 : Observe(Event("branch.taken", p, which)) /\ Call(p, which, 0)
    BY <1>7 DEF IfDecide
  <2>2. LookupBranch(p) = 0 /\ Kind(p) = "if" /\ Keep
    BY <1>7 DEF IfDecide, Fresh
  <2>3. WalkInv'
    BY <1>7, IfSteps
  <2>4. "branch.taken" \in EventTypes /\ which \in Nat /\ 0 \in Nat
    BY DEF EventTypes
  <2>5. /\ Len(log') = Len(log) + 1 /\ Grows(log, log') /\ New(log, log') = {Len(log')}
        /\ log'[Len(log')].path = p
    BY <2>1, <2>4, LastEvent
  <2>6. LogOK(tree, log') /\ Len(log') \in Nat
    BY <1>1, <1>2, <2>3, <2>5 DEF WalkInv, WalkLog
  <2>7. Logs(p)
    BY <1>2, <2>1, <2>5, <2>6 DEF Logs, Speaks, Observe
  <2>8. \A w : ~Branched(log, p, w)
    BY <2>2, LookupBranchFinds DEF Branched
  <2>9. Harmless(tree, log, log', p)
    BY <1>1, <1>2, <2>2, <2>8, IfIsMute DEF Harmless
  <2>10. which \in Has(tree, p[1])
    BY <2>2, KidsExist
  <2> QED
    BY <1>1, <1>3, <2>1, <2>2, <2>4, <2>7, <2>9, <2>10, TellCallsHere
<1>8. CASE IfReturn(p)
  <2>1. /\ Silent /\ Kind(p) = "if" /\ Callee(p) \in DOMAIN ret /\ act[p].at > 0 /\ Return(p, Got(p))
        /\ Keep \/ (Got(p) = "ok" /\ Settle(p, Len(log)))
    BY <1>8 DEF IfReturn, Back
  <2>2. PICK w : w = act[p].at
    OBVIOUS
  <2>3. act[p].at \in Nat /\ Knows(tree, p, act[p].at, act[p].k, log)
    BY <2>1, FrameFacts DEF Remembers
  <2>4. w \in Has(tree, p[1])
    BY <2>1, <2>2, <2>3, FrameFacts
  <2>5. Branched(log, p, w)
    BY <1>1, <2>1, <2>2, <2>3 DEF Knows, Branched
  <2>6. Tells(tree, log, Sub(tree, p, w, 0), Got(p))
    BY <1>4, <2>1, <2>2, GotTells
  <2>7. Tells(tree, log, p, Got(p))
    BY <1>1, <1>2, <2>1, <2>4, <2>5, <2>6, IfTells
  <2>8. Harmless(tree, log, log', p) /\ Logs(p) /\ log' = log
    BY <2>1, SilentIsHarmless
  <2> QED
    BY <1>1, <2>1, <2>7, <2>8, TellReturnsHere
<1> QED
  BY <1>5, <1>6, <1>7, <1>8

\* loops and tries answer nothing, and recall nothing
LEMMA LoopsTell ==
    ASSUME WalkInv, TellInv, NEW p \in DOMAIN act, LoopStart(p) \/ LoopIter(p) \/ LoopUntilError(p) \/ LoopStop(p)
    PROVE  TellInv'
<1>1. UNCHANGED fixed /\ UNCHANGED tree /\ Kind(p) = "loop" /\ tree[p[1]].kind = "loop" /\ (Keep \/ Break(p))
  BY ModelPaths DEF LoopStart, LoopIter, LoopUntilError, LoopStop, Fresh, Back, fixed
<1>2. Tree(tree) /\ LogOK(tree, log) /\ Len(log) \in Nat /\ InTree(tree, p) /\ act[p].k \in Nat
  BY TellFacts, FrameFacts
<1>3. \A f : Recalls(tree, log', p, f)
  BY <1>1 DEF Recalls
<1>4. Harmless(tree, log, log', p)
  BY <1>1, <1>2, LoopTells DEF Harmless
<1>5. 1 \in Has(tree, p[1])
  BY <1>1, KidsExist
<1>6. Logs(p)
  BY LoopSteps
<1>7. LogOK(tree, log')
  BY <1>6 DEF Logs
<1>8. \A v : Tells(tree, log', p, v)
  <2>1. PICK l2 : l2 = log'
    OBVIOUS
  <2>2. Len(l2) \in Nat
    BY <1>7, <2>1 DEF LogOK
  <2>3. \A v : Tells(tree, l2, p, v)
    BY <1>1, <1>2, <2>2, LoopTells
  <2> QED
    BY <2>1, <2>3
<1>9. ASSUME NEW r, Return(p, r)
      PROVE  TellInv'
  BY <1>1, <1>4, <1>6, <1>8, <1>9, TellReturnsHere
<1>10. ASSUME NEW k \in Nat, Call(p, 1, k), Keep
       PROVE  TellInv'
  BY <1>1, <1>3, <1>4, <1>5, <1>6, <1>10, TellCallsHere
<1>11. CASE LoopStart(p)
  <2>1. LookupLoopIters(p) + 1 \in Nat
    BY <1>1, LookupLoopItersFinds
  <2> QED
    BY <1>10, <1>11, <2>1 DEF LoopStart
<1>12. CASE LoopIter(p)
  <2>1. act[p].k + 1 \in Nat
    BY <1>2
  <2> QED
    BY <1>9, <1>10, <1>12, <2>1 DEF LoopIter
<1>13. CASE LoopUntilError(p)
  BY <1>9, <1>13 DEF LoopUntilError
<1>14. CASE LoopStop(p)
  BY <1>9, <1>14 DEF LoopStop
<1> QED
  BY <1>11, <1>12, <1>13, <1>14

LEMMA TriesTell ==
    ASSUME WalkInv, TellInv, NEW p \in DOMAIN act, TryDo(p) \/ TryCatch(p) \/ TryFinally(p) \/ TryEnd(p)
    PROVE  TellInv'
<1>1. UNCHANGED fixed /\ UNCHANGED tree /\ Kind(p) = "try" /\ tree[p[1]].kind = "try"
  BY ModelPaths DEF TryDo, TryCatch, TryFinally, TryEnd, Fresh, Back, fixed
<1>2. Tree(tree) /\ LogOK(tree, log) /\ Len(log) \in Nat /\ InTree(tree, p)
  BY TellFacts, FrameFacts
<1>3. \A f : Recalls(tree, log', p, f)
  BY <1>1 DEF Recalls
<1>4. Logs(p) /\ Harmless(tree, log, log', p)
  <2>1. Silent \/ Observe(Event("node.skipped", p, 0))
    BY DEF TryDo, TryCatch, TryFinally, TryEnd
  <2> QED
    BY <2>1, SilentIsHarmless, QuietIsHarmless DEF EventTypes, Loud, RoundTypes
<1>5. Has(tree, p[1]) = 1 .. 3 /\ 0 \in Nat
  BY <1>1, KidsExist
<1>6. 1 \in Has(tree, p[1]) /\ 2 \in Has(tree, p[1]) /\ 3 \in Has(tree, p[1])
  BY <1>5
<1>7. ASSUME NEW i \in Has(tree, p[1]), NEW held, NEW ctx, CallUnder(p, i, 0, held, ctx),
             "settled" \in DOMAIN seen', seen'.settled = seen.settled
      PROVE  TellInv'
  BY <1>1, <1>3, <1>4, <1>5, <1>7, TellCalls
<1>8. CASE TryDo(p)
  <2>1. CallUnder(p, 1, 0, "ok", act[p].ctx) /\ seen' = [seen EXCEPT !.entered = @ \cup {p}]
    BY <1>8 DEF TryDo, Call
  <2>2. "settled" \in DOMAIN seen' /\ seen'.settled = seen.settled
    BY <2>1 DEF TellInv
  <2> QED
    BY <1>6, <1>7, <2>1, <2>2
<1>9. CASE TryCatch(p)
  <2>1. CallUnder(p, 2, 0, "ok", act[p].ctx) /\ Keep
    BY <1>9 DEF TryCatch, Call
  <2>2. "settled" \in DOMAIN seen' /\ seen'.settled = seen.settled
    BY <2>1 DEF TellInv, Keep
  <2> QED
    BY <1>6, <1>7, <2>1, <2>2
<1>10. CASE TryFinally(p)
  <2>1. CallUnder(p, 3, 0, Got(p), {}) /\ Keep
    BY <1>10 DEF TryFinally
  <2>2. "settled" \in DOMAIN seen' /\ seen'.settled = seen.settled
    BY <2>1 DEF TellInv, Keep
  <2> QED
    BY <1>6, <1>7, <2>1, <2>2
<1>11. CASE TryEnd(p)
  <2>1. PICK r : r = IF Got(p) # "ok" THEN Got(p) ELSE IF Cancelled(p) THEN "retryable_failure" ELSE act[p].held
    OBVIOUS
  <2>2. Return(p, r) /\ Keep /\ log' = log
    BY <1>11, <2>1 DEF TryEnd, Silent, journal
  <2>3. \A v : Tells(tree, log, p, v)
    BY <1>1, <1>2, LoopTells
  <2>4. Tells(tree, log', p, r)
    BY <2>2, <2>3
  <2> QED
    BY <1>1, <1>4, <2>2, <2>4, TellReturnsHere
<1> QED
  BY <1>8, <1>9, <1>10, <1>11

\* what a gate that waits for an attempt knows of its answer
LEMMA GateFacts ==
    ASSUME WalkInv, TellInv, NEW p \in DOMAIN act, Back(p, "gate")
    PROVE  /\ tree[p[1]].kind = "gate" /\ act[p].k \in Nat /\ act[p].k = NextAt(log, p)
           /\ act[p].k <= tree[p[1]].max /\ ~Passed(log, p)
           /\ act[p].at = 1 \/ act[p].at = 2
           /\ act[p].at = 1 => Tells(tree, log, Sub(tree, p, 1, act[p].k), Got(p))
           /\ act[p].at = 2 => /\ Tells(tree, log, Sub(tree, p, 1, act[p].k), "ok")
                               /\ Tells(tree, log, Sub(tree, p, 2, act[p].k), Got(p))
<1>1. Kind(p) = "gate" /\ act[p].at > 0 /\ Callee(p) \in DOMAIN ret /\ tree[p[1]].kind = "gate"
  BY ModelPaths DEF Back
<1>2. act[p].k = NextAt(log, p) /\ act[p].k <= tree[p[1]].max /\ ~Passed(log, p)
  BY <1>1, NextRound DEF NextAt, Passed
<1>3. act[p].k \in Nat /\ act[p].at \in Nat
  BY FrameFacts
<1>4. act[p].at = 1 \/ act[p].at = 2
  <2>1. PICK n \in Nat : n = act[p].at
    BY <1>3
  <2>2. n # 0 /\ Kind(p) \notin {"step", "parallel"}
    BY <1>1, <2>1
  <2>3. n \in Has(tree, p[1])
    BY <2>1, <2>2, FrameFacts
  <2>4. Has(tree, p[1]) = 1 .. 2
    BY <1>1, KidsExist
  <2> QED
    BY <2>1, <2>3, <2>4
<1>5. Tells(tree, log, Sub(tree, p, act[p].at, act[p].k), Got(p)) /\ Recalls(tree, log, p, act[p])
  BY <1>1, GotTells
<1>6. act[p].at = 2 => Tells(tree, log, Sub(tree, p, 1, act[p].k), "ok")
  BY <1>1, <1>5 DEF Recalls
<1> QED
  BY <1>1, <1>2, <1>3, <1>4, <1>5, <1>6

\* unless a skip ended it, such a gate does not answer
LEMMA WaitingGateIsMute ==
    ASSUME WalkInv, TellInv, NEW p \in DOMAIN act, Back(p, "gate"),
           Got(p) # "skip", act[p].at = 1 => Got(p) # "ok"
    PROVE  (\A v : v \notin {"ok", "skip"} => Tells(tree, log, p, v)) /\ \A u : ~(<<p, u>> \in Replay(tree, log))
<1>1. PICK k : k = act[p].k
  OBVIOUS
<1>2. /\ tree[p[1]].kind = "gate" /\ k \in Nat /\ k = NextAt(log, p) /\ ~Passed(log, p)
      /\ act[p].at = 1 \/ act[p].at = 2
      /\ act[p].at = 1 => Tells(tree, log, Sub(tree, p, 1, k), Got(p))
      /\ act[p].at = 2 => /\ Tells(tree, log, Sub(tree, p, 1, k), "ok")
                          /\ Tells(tree, log, Sub(tree, p, 2, k), Got(p))
  BY <1>1, GateFacts
<1>3. /\ ~(<<Sub(tree, p, 1, k), "skip">> \in Replay(tree, log))
      /\ \/ ~(<<Sub(tree, p, 1, k), "ok">> \in Replay(tree, log))
         \/ ~(<<Sub(tree, p, 2, k), "skip">> \in Replay(tree, log))
  <2>1. CASE act[p].at = 1
    BY <1>2, <2>1 DEF Tells
  <2>2. CASE act[p].at = 2
    BY <1>2, <2>2 DEF Tells
  <2> QED
    BY <1>2, <2>1, <2>2
<1>4. Tree(tree) /\ Len(log) \in Nat /\ InTree(tree, p)
  BY TellFacts, FrameFacts
<1> QED
  BY <1>2, <1>3, <1>4, GateIsMute

LEMMA CondErrorsTell ==
    ASSUME WalkInv, TellInv, NEW p \in DOMAIN act, CondError(p)
    PROVE  TellInv'
<1>1. /\ UNCHANGED fixed /\ Commit(Event("node.failed", p, 0)) /\ Return(p, "permanent_failure") /\ Break(p)
  BY DEF CondError
<1>2. Harmless(tree, log, log', p) /\ Logs(p) /\ Quiet(log, log')
  BY <1>1, QuietIsHarmless DEF EventTypes, Loud, RoundTypes
<1>3. Tells(tree, log, p, "permanent_failure")
  <2>1. CASE Fresh(p, "if") /\ LookupBranch(p) = 0
    <3>1. tree[p[1]].kind = "if"
      BY <2>1, ModelPaths DEF Fresh
    <3>2. \A w : ~Branched(log, p, w)
      BY <2>1, LookupBranchFinds DEF Branched
    <3>3. Tree(tree) /\ Len(log) \in Nat /\ InTree(tree, p)
      BY TellFacts, FrameFacts
    <3> QED
      BY <3>1, <3>2, <3>3, IfIsMute
  <2>2. CASE Back(p, "gate") /\ act[p].at = 2 /\ Got(p) = "ok"
    BY <2>2, WaitingGateIsMute
  <2> QED
    BY <2>1, <2>2 DEF CondError
<1>4. Tells(tree, log', p, "permanent_failure")
  BY <1>2, <1>3, QuietTells
<1> QED
  BY <1>1, <1>2, <1>4, TellReturnsHere

LEMMA GatesTell ==
    ASSUME WalkInv, TellInv, NEW p \in DOMAIN act,
           GateStart(p) \/ GateEvaluate(p) \/ GatePass(p) \/ GateReject(p) \/ GateSkip(p) \/ GateStop(p)
    PROVE  TellInv'
<1>1. UNCHANGED fixed /\ UNCHANGED tree /\ Kind(p) = "gate" /\ tree[p[1]].kind = "gate"
  BY ModelPaths DEF GateStart, GateEvaluate, GatePass, GateReject, GateSkip, GateStop, Fresh, Back, fixed
<1>2. /\ Tree(tree) /\ LogOK(tree, log) /\ Len(log) \in Nat /\ InTree(tree, p)
      /\ Node(p).max = tree[p[1]].max /\ tree[p[1]].max \in Nat /\ act[p].k \in Nat
  BY TellFacts, FrameFacts, NodeFacts, ModelPaths
<1>3. 1 \in Has(tree, p[1]) /\ 2 \in Has(tree, p[1])
  BY <1>1, <1>2, GateHasTwo
<1>4. \A f : f.at = 1 => Recalls(tree, log', p, f)
  BY <1>1 DEF Recalls
<1>5. CASE GateStart(p)
  <2>1. Silent
    BY <1>5 DEF GateStart
  <2>2. Harmless(tree, log, log', p) /\ Logs(p) /\ log' = log
    BY <2>1, SilentIsHarmless
  <2>3. /\ Attempts(p) = RoundsIn(log, p, Len(log)) /\ Cardinality(Attempts(p)) \in Nat
        /\ ~LastPassed(p) => ~Passed(log, p)
    BY <1>1, AttemptsAreRounds DEF Passed
  <2>4. CASE LastPassed(p) /\ Return(p, "ok") /\ Settle(p, Len(log))
    <3>1. Passed(log, p)
      BY <2>3, <2>4 DEF LastPassed, Passed, Attempts, Events
    <3>2. Tells(tree, log, p, "ok")
      BY <1>1, <1>2, <3>1, GateTellsPassed
    <3> QED
      BY <1>1, <2>2, <2>4, <3>2, TellReturnsHere
  <2>5. CASE Call(p, 1, Cardinality(Attempts(p)) + 1) /\ Keep
    <3>1. PICK k \in Nat : k = Cardinality(Attempts(p)) + 1
      BY <2>3
    <3> QED
      BY <1>1, <1>3, <1>4, <2>2, <2>5, <3>1, TellCallsHere
  <2>6. CASE ~LastPassed(p) /\ Cardinality(Attempts(p)) >= Node(p).max /\ Return(p, "rejected") /\ Keep
    <3>1. PICK k \in Nat : k = Cardinality(Attempts(p)) + 1
      BY <2>3
    <3>2. k = NextAt(log, p) /\ ~Passed(log, p) /\ ~(k <= tree[p[1]].max)
      BY <1>2, <2>3, <2>6, <3>1 DEF NextAt
    <3>3. Tells(tree, log, p, "rejected")
      BY <1>1, <1>2, <3>2, GateIsMute
    <3> QED
      BY <1>1, <2>2, <2>6, <3>3, TellReturnsHere
  <2> QED
    BY <1>5, <2>4, <2>5, <2>6 DEF GateStart
<1>6. CASE GateEvaluate(p)
  <2>1. Back(p, "gate") /\ Silent /\ Got(p) = "ok" /\ act[p].at = 1 /\ Call(p, 2, act[p].k) /\ Keep
    BY <1>6 DEF GateEvaluate
  <2>2. Harmless(tree, log, log', p) /\ Logs(p) /\ log' = log
    BY <2>1, SilentIsHarmless
  <2>3. PICK k \in Nat : k = act[p].k
    BY <1>2
  <2>4. Tells(tree, log', Sub(tree, p, 1, k), "ok")
    BY <2>1, <2>2, <2>3, GateFacts
  <2>5. \A f : f.at = 2 /\ f.k = k => Recalls(tree, log', p, f)
    BY <1>1, <2>4 DEF Recalls
  <2> QED
    BY <1>1, <1>3, <2>1, <2>2, <2>3, <2>5, TellCallsHere
<1>7. ASSUME Back(p, "gate"), act[p].at = 2, Got(p) = "ok"
      PROVE  Harmless(tree, log, log', p)
  BY <1>7, WaitingGateIsMute DEF Harmless
<1>8. CASE GatePass(p)
  <2>1. /\ Back(p, "gate") /\ act[p].at = 2 /\ Got(p) = "ok" /\ act[p].at > 0
        /\ Commit(Event("gate.passed", p, act[p].k)) /\ Return(p, "ok") /\ Settle(p, Len(log) + 1)
    BY <1>8 DEF GatePass, Back
  <2>2. Logs(p)
    BY <1>1, <2>1, AttemptLogs
  <2>3. Len(log') = Len(log) + 1 /\ log'[Len(log')].type = "gate.passed" /\ log'[Len(log')].path = p
    BY <1>2, <2>1, LastEvent DEF EventTypes
  <2>4. PICK l2 : l2 = log'
    OBVIOUS
  <2>5. Len(l2) \in Nat /\ Len(l2) \in RoundsIn(l2, p, Len(l2)) /\ l2[Len(l2)].type = "gate.passed"
    BY <1>2, <2>3, <2>4 DEF RoundsIn, RoundTypes
  <2>6. Passed(l2, p)
    BY <2>5 DEF Passed
  <2>7. Tells(tree, l2, p, "ok")
    BY <1>1, <1>2, <2>5, <2>6, GateTellsPassed
  <2> QED
    BY <1>1, <1>7, <2>1, <2>2, <2>3, <2>4, <2>7, TellReturnsHere
<1>9. CASE GateReject(p)
  <2>1. /\ Back(p, "gate") /\ act[p].at = 2 /\ Got(p) = "ok" /\ act[p].at > 0 /\ Keep
        /\ Commit(Event("gate.rejected", p, act[p].k))
    BY <1>9 DEF GateReject, Back
  <2>2. /\ Logs(p) /\ Cardinality(RoundsIn(log', p, Len(log'))) = act[p].k
        /\ \A j \in RoundsIn(log', p, Len(log')) : log'[j].type # "gate.passed"
    BY <1>1, <2>1, AttemptLogs
  <2>3. CASE act[p].k = Node(p).max /\ Return(p, "rejected")
    <3>1. PICK l2 : l2 = log'
      OBVIOUS
    <3>2. PICK k \in Nat : k = act[p].k + 1
      BY <1>2
    <3>3. /\ Len(l2) \in Nat /\ k = NextAt(l2, p) /\ ~Passed(l2, p) /\ ~(k <= tree[p[1]].max)
      BY <1>2, <2>2, <2>3, <3>1, <3>2 DEF NextAt, Passed, Logs, LogOK
    <3>4. Tells(tree, l2, p, "rejected")
      BY <1>1, <1>2, <3>3, GateIsMute
    <3> QED
      BY <1>1, <1>7, <2>1, <2>2, <2>3, <3>1, <3>4, TellReturnsHere
  <2>4. CASE Call(p, 1, act[p].k + 1)
    <3>1. PICK k \in Nat : k = act[p].k + 1
      BY <1>2
    <3> QED
      BY <1>1, <1>3, <1>4, <1>7, <2>1, <2>2, <2>4, <3>1, TellCallsHere
  <2> QED
    BY <1>9, <2>3, <2>4 DEF GateReject
<1>10. CASE GateSkip(p)
  <2>1. /\ Back(p, "gate") /\ Got(p) = "skip" /\ Observe(Event("node.skipped", p, 0)) /\ Return(p, "ok")
        /\ Settle(p, Len(log) + 1)
    BY <1>10 DEF GateSkip
  <2>2. Harmless(tree, log, log', p) /\ Logs(p) /\ Quiet(log, log') /\ Len(log') = Len(log) + 1
    BY <2>1, QuietIsHarmless DEF EventTypes, Loud, RoundTypes
  <2>3. PICK k \in Nat : k = act[p].k
    BY <1>2
  <2>4. /\ k = NextAt(log, p) /\ k <= tree[p[1]].max /\ ~Passed(log, p)
        /\ \/ Tells(tree, log, Sub(tree, p, 1, k), "skip")
           \/ Tells(tree, log, Sub(tree, p, 1, k), "ok") /\ Tells(tree, log, Sub(tree, p, 2, k), "skip")
    BY <2>1, <2>3, GateFacts
  <2>5. Tells(tree, log, p, "ok")
    BY <1>1, <1>2, <2>4, GateTellsSkip
  <2>6. Tells(tree, log', p, "ok")
    BY <2>2, <2>5, QuietTells
  <2> QED
    BY <1>1, <2>1, <2>2, <2>6, TellReturnsHere
<1>11. CASE GateStop(p)
  <2>1. Back(p, "gate") /\ Got(p) \notin {"ok", "skip"} /\ Silent /\ Return(p, Got(p)) /\ Keep
    BY <1>11 DEF GateStop
  <2>2. Harmless(tree, log, log', p) /\ Logs(p) /\ log' = log
    BY <2>1, SilentIsHarmless
  <2>3. Tells(tree, log, p, Got(p))
    BY <2>1, WaitingGateIsMute
  <2> QED
    BY <1>1, <2>1, <2>2, <2>3, TellReturnsHere
<1> QED
  BY <1>5, <1>6, <1>8, <1>9, <1>10, <1>11

LEMMA ForkTells ==
    ASSUME WalkInv, TellInv, NEW p \in DOMAIN act, ParallelFork(p)
    PROVE  TellInv'
<1>1. PICK f : f = [act[p] EXCEPT !.at = 1, !.outs = [i \in Branches(p) |-> "none"]]
  OBVIOUS
<1>2. PICK B : B = {Kid(p, i, 0) : i \in Branches(p)}
  OBVIOUS
<1>3. /\ Kind(p) = "parallel" /\ Silent /\ UNCHANGED <<fixed, ret>> /\ UNCHANGED tree /\ Keep
      /\ act' = [q \in DOMAIN act \cup B |-> IF q = p THEN f ELSE IF q \in DOMAIN act THEN act[q]
                                            ELSE Frame(act[p].ctx \cup {p})]
  BY <1>1, <1>2 DEF ParallelFork, Fresh, fixed
<1>4. Harmless(tree, log, log', p) /\ Logs(p)
  BY <1>3, SilentIsHarmless
<1>5. \A i \in Has(tree, p[1]) : f.outs[i] = "none"
  <2>1. PICK o : o = [i \in Branches(p) |-> "none"]
    OBVIOUS
  <2>2. Branches(p) = Has(tree, p[1]) /\ act[p] \in FrameType(tree)
    BY <1>3, ParallelFacts
  <2>3. f.outs = o
    BY <1>1, <2>1, <2>2 DEF FrameType
  <2> QED
    BY <2>1, <2>2, <2>3
<1>6. tree[p[1]].kind = "parallel"
  BY <1>3, ModelPaths
<1>7. Recalls(tree, log', p, f)
  BY <1>5, <1>6 DEF Recalls
<1>8. PICK a2, r2, l2 : a2 = act' /\ r2 = ret' /\ l2 = log'
  OBVIOUS
<1>9. /\ \A q \in DOMAIN a2 : \/ q = p /\ Recalls(tree, l2, p, a2[p])
                              \/ q \in DOMAIN act /\ a2[q] = act[q]
                              \/ \E ctx : a2[q] = Frame(ctx)
      /\ \A q \in DOMAIN r2 : q \in DOMAIN ret /\ r2[q] = ret[q]
      /\ Speaks(log, l2, p)
  <2>1. /\ DOMAIN a2 = DOMAIN act \cup B /\ a2[p] = f
        /\ \A q \in DOMAIN a2 : q = p \/ (q \in DOMAIN act /\ a2[q] = act[q])
                                \/ a2[q] = Frame(act[p].ctx \cup {p})
    BY <1>3, <1>8
  <2> QED
    BY <1>3, <1>4, <1>7, <1>8, <2>1 DEF Logs
<1>10. Telling(tree, a2, r2, l2)
  BY <1>9, TellFacts, TellingMoves
<1>11. SettledKept(log')
  BY <1>3 DEF SettledKept, Keep, TellInv
<1> QED
  BY <1>3, <1>4, <1>8, <1>10, <1>11, TellKept

LEMMA BranchTells ==
    ASSUME WalkInv, TellInv, NEW p \in DOMAIN act, ParallelBranch(p)
    PROVE  TellInv'
<1>1. Kind(p) = "parallel" /\ act[p].at = 1 /\ UNCHANGED fixed /\ UNCHANGED tree /\ Keep
  BY DEF ParallelBranch, Forked, fixed
<1>2. /\ InTree(tree, p) /\ tree[p[1]].kind = "parallel" /\ Branches(p) = Has(tree, p[1])
      /\ act[p] \in FrameType(tree) /\ Len(act[p].outs) = Len(tree[p[1]].kids)
  BY <1>1, ParallelFacts
<1>3. PICK i \in Branches(p) :
          LET c == Kid(p, i, 0) IN
          /\ c \in DOMAIN ret
          /\ act' = [act EXCEPT ![p].outs[i] = IF ret[c] = "skip" THEN "ok" ELSE ret[c]]
          /\ ret' = Forget(ret, c)
          /\ cancelled' = IF ret[c] \in {"ok", "skip"} THEN cancelled ELSE cancelled \cup {p}
          /\ IF ret[c] = "skip" THEN Observe(Event("node.skipped", p, 0)) ELSE Silent
  BY DEF ParallelBranch
<1>4. PICK c : c = Kid(p, i, 0)
  OBVIOUS
<1>5. PICK o : o = IF ret[c] = "skip" THEN "ok" ELSE ret[c]
  OBVIOUS
<1>6. PICK outs : outs = [act[p].outs EXCEPT ![i] = o]
  OBVIOUS
<1>7. PICK f : f = [act[p] EXCEPT !.outs = outs]
  OBVIOUS
<1>8. /\ c \in DOMAIN ret /\ act' = [act EXCEPT ![p] = f] /\ ret' = Forget(ret, c)
      /\ Silent \/ Observe(Event("node.skipped", p, 0))
  <2>1. /\ c \in DOMAIN ret /\ ret' = Forget(ret, c)
        /\ IF ret[c] = "skip" THEN Observe(Event("node.skipped", p, 0)) ELSE Silent
    BY <1>3, <1>4
  <2>2. act' = [act EXCEPT ![p].outs[i] = o]
    BY <1>3, <1>4, <1>5
  <2>3. act' = [act EXCEPT ![p] = f]
    BY <1>6, <1>7, <2>2
  <2> QED
    BY <2>1, <2>3
<1>9. Logs(p) /\ Harmless(tree, log, log', p)
  BY <1>8, SilentIsHarmless, QuietIsHarmless DEF EventTypes, Loud, RoundTypes
<1>10. PICK a2, r2, l2 : a2 = act' /\ r2 = ret' /\ l2 = log'
  OBVIOUS
<1>11. /\ DOMAIN a2 = DOMAIN act /\ a2[p] = f /\ \A q \in DOMAIN act \ {p} : a2[q] = act[q]
       /\ \A q \in DOMAIN r2 : q \in DOMAIN ret /\ r2[q] = ret[q]
       /\ Speaks(log, l2, p)
  BY <1>8, <1>9, <1>10 DEF Forget, Restrict, Logs
<1>12. f.outs = outs /\ \A j \in Has(tree, p[1]) : outs[j] = IF j = i THEN o ELSE act[p].outs[j]
  <2>1. act[p].outs \in Seq(Results \cup {"none"}) /\ i \in 1 .. Len(act[p].outs)
    BY <1>2 DEF FrameType, Outs, Has
  <2>2. f.outs = outs
    BY <1>2, <1>7 DEF FrameType
  <2>3. \A j \in Has(tree, p[1]) : j \in DOMAIN act[p].outs
    BY <1>2, <2>1 DEF Has
  <2> QED
    BY <1>6, <2>2, <2>3
<1>13. Tells(tree, l2, c, ret[c]) /\ ret[c] \in Results
  <2>1. Tells(tree, l2, c, ret[c])
    BY <1>8, <1>11, TellFacts, ReturnedTell
  <2> QED
    BY <1>8, <2>1, TellFacts DEF Frames
<1>14. Recalls(tree, l2, p, act[p])
  <2>1. Recalls(tree, log, p, act[p])
    BY TellFacts DEF Telling
  <2> QED
    BY <1>11, <2>1, TellFacts, FramesRecall
<1>15. c = Sub(tree, p, i, 0)
  BY <1>4, ModelPaths
<1>16. ASSUME NEW j \in Has(tree, p[1]), f.outs[j] # "none"
       PROVE  \E v \in Results : /\ Tells(tree, l2, Sub(tree, p, j, 0), v)
                                 /\ v = "skip" => f.outs[j] = "ok"
                                 /\ v # "skip" => f.outs[j] = v
  <2>1. CASE j = i
    BY <1>5, <1>12, <1>13, <1>15, <2>1
  <2>2. CASE j # i
    <3>1. f.outs[j] = act[p].outs[j]
      BY <1>12, <2>2
    <3> QED
      BY <1>1, <1>2, <1>14, <1>16, <3>1 DEF Recalls
  <2> QED
    BY <2>1, <2>2
<1>17. Recalls(tree, l2, p, f)
  BY <1>2, <1>16 DEF Recalls
<1>18. Telling(tree, a2, r2, l2)
  <2>1. \A q \in DOMAIN a2 : \/ q = p /\ Recalls(tree, l2, p, a2[p])
                             \/ q \in DOMAIN act /\ a2[q] = act[q]
    BY <1>11, <1>17
  <2> QED
    BY <1>11, <2>1, TellFacts, TellingMoves
<1>19. SettledKept(log')
  BY <1>1 DEF SettledKept, Keep, TellInv
<1> QED
  BY <1>1, <1>9, <1>10, <1>18, <1>19, TellKept

LEMMA JoinTells ==
    ASSUME WalkInv, TellInv, NEW p \in DOMAIN act, ParallelJoin(p)
    PROVE  TellInv'
<1>1. /\ Kind(p) = "parallel" /\ act[p].at = 1 /\ Silent /\ UNCHANGED tree
      /\ \A i \in Branches(p) : act[p].outs[i] # "none"
      /\ act' = Forget(act, p) /\ ret' = Extend(ret, p, GroupResult(p))
      /\ Keep \/ (GroupResult(p) = "ok" /\ Settle(p, Len(log)))
  BY DEF ParallelJoin, Forked, fixed
<1>2. /\ Tree(tree) /\ InTree(tree, p) /\ tree[p[1]].kind = "parallel" /\ Branches(p) = Has(tree, p[1])
      /\ Len(log) \in Nat
  BY <1>1, ParallelFacts, TellFacts
<1>3. Harmless(tree, log, log', p) /\ Logs(p) /\ log' = log
  BY <1>1, SilentIsHarmless
<1>4. ASSUME NEW i \in Branches(p)
      PROVE  \E v \in Results : /\ Tells(tree, log, Sub(tree, p, i, 0), v)
                                /\ v = "skip" => act[p].outs[i] = "ok"
                                /\ v # "skip" => act[p].outs[i] = v
  <2>1. Recalls(tree, log, p, act[p])
    BY TellFacts DEF Telling
  <2> QED
    BY <1>1, <1>2, <1>4, <2>1 DEF Recalls
<1> DEFINE bad == {i \in Branches(p) : act[p].outs[i] # "ok"}
           first == CHOOSE i \in bad : \A j \in bad : i <= j
<1>5. CASE bad = {}
  <2>1. GroupResult(p) = "ok"
    BY <1>5, Zenon DEF GroupResult
  <2>2. ASSUME NEW i \in Has(tree, p[1])
        PROVE  \E v \in {"ok", "skip"} : Tells(tree, log, Sub(tree, p, i, 0), v)
    <3>1. act[p].outs[i] = "ok"
      BY <1>2, <1>5
    <3> QED
      BY <1>2, <1>4, <3>1
  <2>3. Tells(tree, log, p, "ok")
    BY <1>2, <2>2, GroupTellsOk
  <2> QED
    BY <1>1, <1>3, <2>1, <2>3, TellReturns
<1>6. CASE bad # {}
  <2>1. bad \in SUBSET Nat
    BY <1>2 DEF Has
  <2>2. \E i \in bad : \A j \in bad : i <= j
    BY <1>6, <2>1, LeastExists
  <2>3. first \in bad
    BY <2>2
  <2>4. GroupResult(p) = act[p].outs[first]
    BY <1>6, Zenon DEF GroupResult
  <2>5. PICK i \in Branches(p) : act[p].outs[i] # "ok" /\ GroupResult(p) = act[p].outs[i]
    BY <2>3, <2>4
  <2>6. PICK v \in Results : /\ Tells(tree, log, Sub(tree, p, i, 0), v)
                             /\ v = "skip" => act[p].outs[i] = "ok"
                             /\ v # "skip" => act[p].outs[i] = v
    BY <1>4
  <2>7. v \notin {"ok", "skip"} /\ GroupResult(p) = v
    BY <2>5, <2>6
  <2>8. Tells(tree, log, p, v)
    BY <1>2, <2>6, <2>7, GroupTellsFailure
  <2> QED
    BY <1>1, <1>3, <2>7, <2>8, TellReturns
<1> QED
  BY <1>5, <1>6

-----------------------------------------------------------------------------
(* The drivers.                                                            *)

LEMMA NothingTold ==
    ASSUME NEW t, NEW a, NEW r, NEW l, DOMAIN a = {}, DOMAIN r = {}
    PROVE  Telling(t, a, r, l)
BY DEF Telling

LEMMA WalkEndTells ==
    ASSUME WalkInv, TellInv, WalkEnd
    PROVE  TellInv'
<1>1. /\ UNCHANGED <<tree, seen>> /\ Idle
      /\ log' = log \/ log' = Append(log, Event("node.skipped", RootContext, 0))
  BY DEF WalkEnd
<1>2. Telling(tree', act', ret', log')
  <2>1. DOMAIN act' = {} /\ DOMAIN ret' = {}
    BY <1>1 DEF Idle
  <2> QED
    BY <2>1, NothingTold
<1>3. SettledIn(tree, log', seen.settled)
  <2>1. CASE log' = log
    BY <2>1, TellFacts
  <2>2. CASE log' = Append(log, Event("node.skipped", RootContext, 0))
    <3>1. PICK e : e = Event("node.skipped", RootContext, 0)
      OBVIOUS
    <3>2. e \in LogEvent(tree) /\ e.type = "node.skipped"
      <4>1. <<>> \in Seq(Nat)
        OBVIOUS
      <4>2. RootContext \in Contexts(tree)
        BY <4>1 DEF RootContext, Contexts
      <4> QED
        BY <3>1, <4>2, EventIsTyped DEF EventTypes
    <3>3. PICK E : E = LogEvent(tree)
      OBVIOUS
    <3>4. PICK l2 : l2 = log'
      OBVIOUS
    <3>5. log \in Seq(E) /\ e \in E /\ l2 = Append(log, e) /\ Tree(tree) /\ SettledIn(tree, log, seen.settled)
      BY <2>2, <3>1, <3>2, <3>3, <3>4, TellFacts DEF LogOK
    <3>6. /\ l2 \in Seq(E) /\ Len(l2) = Len(log) + 1 /\ l2[Len(l2)] = e /\ Grows(log, l2)
          /\ Len(log) \in Nat
      BY <3>5 DEF Grows
    <3>7. ASSUME NEW l3, Len(l3) \in Nat, Grows(log, l3), Grows(l3, l2)
          PROVE  Replay(tree, log) \subseteq Replay(tree, l3)
      <4>1. \A j \in New(log, l3) : j = Len(l2) /\ l3[j] = l2[j]
        BY <3>6, <3>7 DEF New, Grows
      <4>2. Quiet(log, l3)
        BY <3>2, <3>6, <4>1 DEF Quiet, Loud, RoundTypes
      <4> QED
        BY <3>5, <3>6, <3>7, <4>2, QuietReplay
    <3>8. SettledIn(tree, l2, seen.settled)
      BY <3>5, <3>6, <3>7, SettledGrows
    <3> QED
      BY <3>4, <3>8
  <2> QED
    BY <1>1, <2>1, <2>2
<1> QED
  BY <1>1, <1>2, <1>3 DEF TellInv

LEMMA InterruptTells ==
    ASSUME WalkInv, TellInv, Interrupt
    PROVE  TellInv'
<1>1. UNCHANGED <<tree, log, act, ret, seen>>
  BY DEF Interrupt, fixed
<1> QED
  BY <1>1 DEF TellInv

LEMMA CrashTells ==
    ASSUME WalkInv, TellInv, Crash
    PROVE  TellInv'
<1>1. UNCHANGED tree /\ Idle
  BY DEF Crash
<1>2. PICK n \in stable .. Len(log) :
         /\ log' = SubSeq(log, 1, n)
         /\ seen' = [seen EXCEPT !.settled = {s \in @ : s.len <= n}]
  BY DEF Crash
<1>3. Telling(tree', act', ret', log')
  <2>1. DOMAIN act' = {} /\ DOMAIN ret' = {}
    BY <1>1 DEF Idle
  <2> QED
    BY <2>1, NothingTold
<1>4. "settled" \in DOMAIN seen' /\ seen'.settled = {s \in seen.settled : s.len <= n}
  BY <1>2 DEF TellInv
<1>5. n \in 0 .. Len(log)
  BY DEF WalkInv, WalkLog, LogOK
<1>6. PICK l2 : l2 = log'
  OBVIOUS
<1>7. log \in Seq(LogEvent(tree)) /\ SettledIn(tree, log, seen.settled) /\ l2 = SubSeq(log, 1, n)
  BY <1>2, <1>6, TellFacts DEF LogOK
<1>8. SettledIn(tree, l2, {s \in seen.settled : s.len <= n})
  BY <1>5, <1>7, SettledCut
<1> QED
  BY <1>1, <1>3, <1>4, <1>6, <1>8 DEF TellInv

LEMMA DriveTells ==
    ASSUME WalkInv, TellInv, Drive
    PROVE  TellInv'
<1>1. /\ UNCHANGED <<tree, log, ret>> /\ ~up
      /\ act' = [q \in {Root} |-> Frame({RootContext})]
      /\ seen' = [seen EXCEPT !.entered = {}, !.broken = {}, !.driven = Len(log)]
  BY DEF Drive
<1>2. "settled" \in DOMAIN seen' /\ seen'.settled = seen.settled
  BY <1>1 DEF TellInv
<1>3. DOMAIN ret' = {}
  BY <1>1 DEF WalkInv, WalkFrames
<1>4. \A q \in DOMAIN act' : Recalls(tree, log, q, act'[q])
  BY <1>1, FreshRecalls
<1>5. Telling(tree, act', ret', log)
  BY <1>3, <1>4 DEF Telling
<1> QED
  BY <1>1, <1>2, <1>5 DEF TellInv

-----------------------------------------------------------------------------
(* The answers of the log and what they say of settled work.               *)

LEMMA TellInvAtStart == Init => TellInv
<1>1. SUFFICES ASSUME Init PROVE TellInv
  OBVIOUS
<1>2. /\ DOMAIN act = {} /\ DOMAIN ret = {}
      /\ "settled" \in DOMAIN seen /\ seen.settled = {}
  BY <1>1 DEF Init
<1>3. Telling(tree, act, ret, log)
  BY <1>2, NothingTold
<1>4. SettledIn(tree, log, seen.settled)
  BY <1>2 DEF SettledIn
<1> QED
  BY <1>2, <1>3, <1>4 DEF TellInv

LEMMA TellInvKept == WalkInv /\ TellInv /\ [Next]_vars => TellInv'
<1>1. SUFFICES ASSUME WalkInv, TellInv, [Next]_vars PROVE TellInv'
  OBVIOUS
<1>2. ASSUME NEW p \in DOMAIN act, Walk(p) \/ Fails(p)
      PROVE  TellInv'
  BY <1>1, <1>2, SeqTells, StepsTell, IfsTell, CondErrorsTell, LoopsTell, GatesTell, TriesTell,
     ForkTells, BranchTells, JoinTells DEF Walk, Fails
<1>3. CASE UNCHANGED vars
  BY <1>1, <1>3 DEF TellInv, vars
<1> QED
  BY <1>1, <1>2, <1>3, WalkEndTells, InterruptTells, CrashTells, DriveTells DEF Next

\* What the log answers is what the walk has seen returned, and what settled
\* is answered by every longer log.
THEOREM TellInvariance == Spec => [](WalkInv /\ TellInv)
<1>1. Init => WalkInv /\ TellInv
  BY WalkInvAtStart, TellInvAtStart
<1>2. (WalkInv /\ TellInv) /\ [Next]_vars => (WalkInv /\ TellInv)'
  BY WalkInvKept, TellInvKept
<1> QED
  BY <1>1, <1>2, PTL DEF Spec

LEMMA WalkKeepsSettled == WalkInv /\ TellInv => SettledNotRerun
<1>1. SUFFICES ASSUME WalkInv, TellInv, NEW p \in DOMAIN act, Running(p),
                      NEW s \in seen.settled, Above(s.path, p)
               PROVE  FALSE
  BY DEF SettledNotRerun
<1>2. /\ Tree(tree) /\ LogOK(tree, log) /\ Len(log) \in Nat /\ Frames(tree, act, ret, log)
      /\ Telling(tree, act, ret, log) /\ SettledIn(tree, log, seen.settled)
      /\ InTree(tree, p) /\ Remembers(tree, p, act[p], log)
  BY <1>1, TellFacts, FrameFacts
<1>3. <<s.path, "ok">> \in Replay(tree, log)
  <2>1. Len(log) \in s.len .. Len(log)
    <3>1. s.len \in Nat /\ s.len <= Len(log)
      BY <1>2, SettledLength
    <3>2. PICK a \in Nat : a = s.len
      BY <3>1
    <3>3. Len(log) \in a .. Len(log)
      BY <1>2, <3>1, <3>2
    <3> QED
      BY <3>2, <3>3
  <2>2. <<s.path, "ok">> \in Replay(tree, SubSeq(log, 1, Len(log)))
    BY <1>2, <2>1 DEF SettledIn
  <2>3. log \in Seq(LogEvent(tree))
    BY <1>2 DEF LogOK
  <2> QED
    BY <2>2, <2>3, WholePrefix
<1>4. PICK x : x = s.path
  OBVIOUS
<1>5. InTree(tree, x) /\ <<x, "ok">> \in Replay(tree, log)
  BY <1>2, <1>3, <1>4, ReplayHasReason
<1>6. Over(tree, x, p)
  BY <1>1, <1>2, <1>4, <1>5, AboveIsOver DEF InTree
<1>7. \E u : <<p, u>> \in Replay(tree, log)
  BY <1>2, <1>5, <1>6, ActiveBelowAnswers
<1>8. tree[p[1]].kind = "step" /\ act[p].at = 1
  BY <1>1, ModelPaths DEF Running
<1>9. ~Committed(log, p)
  BY <1>2, <1>8 DEF Remembers, Knows, Committed
<1> QED
  BY <1>2, <1>7, <1>8, <1>9, StepTells

-----------------------------------------------------------------------------
\* Whatever driver a run has had and wherever each of them stopped, the walk
\* of a workflow tree of any shape commits no step twice and steps of one branch
\* of an if only, numbers the rounds of its loops and gates in order and within
\* max_attempts, executes no step of what settled again, and leaves nothing
\* running below a handler that returned.
THEOREM WalkIsSafe == Spec => []WalkSafe
<1>1. WalkInv /\ TellInv => WalkSafe
  BY WalkTyped, WalkCommitsOnce, WalkTakesOneBranch, WalkKeepsRounds, WalkBoundsGates, WalkKeepsSettled,
     WalkLeavesNoOrphans DEF WalkSafe
<1> QED
  BY <1>1, TellInvariance, PTL
=============================================================================
