--------------------------- MODULE MCPublication ----------------------------
(* Small instances of one document for TLC.                                *)
EXTENDS Publication, TLC

(* Attempts are interchangeable, and so are contents. *)
Symmetry == Permutations(Attempts) \cup Permutations(Versions)
=============================================================================
