------------------------- MODULE MCSecureChannelV2 -------------------------
(***************************************************************************)
(* Instances of SecureChannelV2 for TLC: two commands, a trusted and an    *)
(* untrusted card, a counter that wraps after NonceSpace round trips.      *)
(***************************************************************************)
EXTENDS SecureChannelV2, TLC

CONSTANTS c1, c2, i1, i2

\* The two commands are interchangeable.
CommandSymmetry == Permutations({c1, c2})

=============================================================================
