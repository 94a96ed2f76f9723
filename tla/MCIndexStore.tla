---------------------------- MODULE MCIndexStore ----------------------------
(* Instances of IndexStore for TLC.                                        *)
EXTENDS IndexStore, TLC

CONSTANTS p1, p2, r1, f1, f2

\* One Go file and one Python file: two grammars, so BuildFull scans them in
\* parallel; incrementalUpdate takes them one after the other.
TwoLangs == [f \in File |-> f]

Symmetry == Permutations(Proc)
=============================================================================
