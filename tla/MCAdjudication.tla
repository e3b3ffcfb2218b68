--------------------------- MODULE MCAdjudication ---------------------------
(* Instances of Adjudication for TLC.                                      *)
EXTENDS Adjudication, TLC

CONSTANTS i1, i2, i3, c1, c2, w1, w2

MCSeats == <<"correctness", "tests", "security">>
MCOverlaps == {<<c1, c2>>, <<c2, c1>>}

Symmetry == Permutations({i1, i2, i3}) \cup Permutations({c1, c2}) \cup Permutations({w1, w2})
=============================================================================
