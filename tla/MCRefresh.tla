----------------------------- MODULE MCRefresh -----------------------------
(***************************************************************************)
(* Two processes that call and one login.  Two pairs are enough for a      *)
(* rotation, a reuse that ends a family of two, and two families.          *)
(***************************************************************************)
EXTENDS Refresh

CONSTANTS p1, p2, l1
=============================================================================
