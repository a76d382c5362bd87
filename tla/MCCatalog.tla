----------------------------- MODULE MCCatalog -----------------------------
(* Instances of Catalog for TLC.  The run with liveness cannot use         *)
(* symmetry, and the two that look for a violation do not need it.         *)
EXTENDS Catalog, TLC
=============================================================================
