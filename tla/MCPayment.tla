----------------------------- MODULE MCPayment -----------------------------
(* The payment component on a small instance. *)
EXTENDS Payment, TLC

MCSymmetry == Permutations(Tasks) \cup Permutations(Slots) \cup Permutations(Stamps)
MCAmounts == {1, 3}
=============================================================================
