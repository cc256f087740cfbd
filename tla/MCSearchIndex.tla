--------------------------- MODULE MCSearchIndex ----------------------------
(* Instances of SearchIndex for TLC. *)
EXTENDS SearchIndex, TLC

CONSTANTS g1, g2, v1, v2

TwoVersions == g1 :> v1 @@ g2 :> v2

(* Callers, chunks of a generation, and generations with their versions    *)
(* can be exchanged.                                                       *)
Same == g1 :> g1 @@ g2 :> g2 @@ v1 :> v1 @@ v2 :> v2
Swap == g1 :> g2 @@ g2 :> g1 @@ v1 :> v2 @@ v2 :> v1
Symmetry ==
  {c @@ p @@ s : c \in Permutations(Callers), p \in Permutations(Pieces), s \in {Same, Swap}}
=============================================================================
