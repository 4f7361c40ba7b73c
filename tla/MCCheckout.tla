------------------------------ MODULE MCCheckout ------------------------------
(***************************************************************************)
(* A pull that deletes one entry, replaces two and adds one.               *)
(***************************************************************************)
EXTENDS Checkout

CONSTANTS a, b, c, d
=============================================================================
