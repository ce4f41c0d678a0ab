------------------------- MODULE MCSecureChannelV1 -------------------------
(***************************************************************************)
(* Instances of SecureChannelV1 for TLC.                                   *)
(***************************************************************************)
EXTENDS SecureChannelV1, TLC

CONSTANTS c1, c2

=============================================================================
