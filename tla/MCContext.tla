------------------------------- MODULE MCContext -------------------------------
(***************************************************************************)
(* Small instances of ContextBuilder: artifacts with the same bytes, and   *)
(* the bytes of a damaged file, which belong to no artifact.               *)
(***************************************************************************)
EXTENDS ContextBuilder, TLC

CONSTANTS i1, i2, whole, torn, s1, s2, w1, w2, m1, m2, u1, k1

ConstContentOf == [x \in Artifacts |-> whole]

ConstPieces == [c \in Contents |-> 2]

ConstArtifactSession == [x \in Artifacts |-> s1]

WritersAndMessages == Permutations(Writers) \union Permutations(Messages) \union Permutations(Artifacts)
=============================================================================
