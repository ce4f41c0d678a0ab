-------------------------- MODULE MCGlobalPlatform --------------------------
(***************************************************************************)
(* GlobalPlatform for TLC: a file of two full blocks and a shorter one.    *)
(***************************************************************************)
EXTENDS GlobalPlatform

=============================================================================
