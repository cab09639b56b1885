---------------------------- MODULE MCSettlement ----------------------------
(* The settlement component on a small instance. *)
EXTENDS EscrowedSettlement, TLC

MCSymmetry == Permutations(Slots) \cup Permutations(Stamps) \cup Permutations(Desks)
                \cup Permutations(Terms)
=============================================================================
