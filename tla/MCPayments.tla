----------------------------- MODULE MCPayments -----------------------------
(* Instances of Payments for TLC.                                          *)
EXTENDS Payments, TLC

Symmetric == Permutations(Call) \cup Permutations(Key) \cup Permutations(Order)
=============================================================================
