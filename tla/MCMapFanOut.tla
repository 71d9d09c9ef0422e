---------------------------- MODULE MCMapFanOut ----------------------------
(* Maps of three items: plain, with runtime images, with a reduce, pruned.  *)
EXTENDS MapFanOut

All == [kind |-> "nil", num |-> 0, den |-> 1]
AtLeast(n) == [kind |-> "int", num |-> n, den |-> 1]
Fraction(n, d) == [kind |-> "frac", num |-> n, den |-> d]

Map(prune, k, min, cap, reduce, quorum, image, n) ==
  [prune |-> prune, k |-> k, min |-> min, cap |-> cap, reduce |-> reduce,
   quorum |-> quorum, image |-> image, size |-> n]

MCDefinitions ==
  { Map("none", 0, AtLeast(2), 2, "none", All, TRUE, 3),
    Map("none", 0, Fraction(1, 2), 1, "quorum", AtLeast(2), FALSE, 2),
    Map("keep", 1, All, 2, "none", All, FALSE, 3),
    Map("keep", 2, AtLeast(1), 3, "quorum", All, TRUE, 3),
    Map("stop", 0, All, 2, "run", Fraction(1, 2), FALSE, 3),
    Map("none", 0, All, 1, "none", All, FALSE, 0) }
=============================================================================
