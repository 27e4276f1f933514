--------------------------- MODULE MCArtworkCache ---------------------------
(* An instance of ArtworkCache for TLC: three outputs of two sizes, so that *)
(* one answer is used twice.                                                *)
EXTENDS ArtworkCache, TLC

TwoSizes == <<"large", "small", "large">>

Symmetry == Permutations(Games)
=============================================================================
