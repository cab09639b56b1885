----------------------------- MODULE MCListing -----------------------------
(* Reading a list page by page on a small instance. *)
EXTENDS Listing

CONSTANTS l1, l2, l3

StartRows == <<l1, l2, l3>>
=============================================================================
