---------------------------- MODULE MCSellerStock ----------------------------
(* A small instance of SellerStock for TLC. *)
EXTENDS SellerStock

Lots == {1, 2}
==============================================================================
