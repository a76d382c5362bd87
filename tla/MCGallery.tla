----------------------------- MODULE MCGallery -----------------------------
(* Instances of Gallery for TLC.                                           *)
EXTENDS Gallery, TLC

Symmetric ==
  Permutations(Category) \cup Permutations(Product) \cup Permutations(Name)
    \cup Permutations(Request)
=============================================================================
