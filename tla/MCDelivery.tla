----------------------------- MODULE MCDelivery -----------------------------
(* The delivery of charges on a small instance. *)
EXTENDS Delivery

MCAmounts == {1, 3}
=============================================================================
