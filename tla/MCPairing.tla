----------------------------- MODULE MCPairing -----------------------------
(***************************************************************************)
(* Pairing for TLC: three slots, any of which other clients may hold.      *)
(***************************************************************************)
EXTENDS Pairing

=============================================================================
