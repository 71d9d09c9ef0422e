---------------------------- MODULE MCRunJournal ----------------------------
(* Instances of RunJournal for TLC.                                        *)
EXTENDS RunJournal, TLC

CONSTANTS p1, p2, r1, r2

TwoProcs == {p1, p2}
TwoRefs == {r1, r2}
=============================================================================
