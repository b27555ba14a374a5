--------------------------- MODULE MCDocumentStorage ---------------------------
(* Two sources, one with two facts; one upload.                            *)
EXTENDS DocumentStorage, TLC

CONSTANTS s1, s2, f1, f2, f3

MCSources == {s1, s2}
MCFacts == {f1, f2, f3}
MCSourceOf == f1 :> s1 @@ f2 :> s1 @@ f3 :> s2

\* The two facts of one source are interchangeable.
Symmetry == Permutations({f1, f2})
=============================================================================
