--------------------------- MODULE MCFileReplace ---------------------------
(* Instances of FileReplace for TLC: two writers of one path, one reader. *)
EXTENDS FileReplace, TLC

CONSTANTS a1, a2, c1, r1, d1, d2

Either == [w \in Writer |-> Data]
Symmetry == Permutations(Inode) \cup Permutations(Data)
=============================================================================
