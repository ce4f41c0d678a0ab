----------------------------- MODULE MCMetadata -----------------------------
(***************************************************************************)
(* Metadata for TLC: four IDs on both sides of the limit, a reader that     *)
(* takes three, and cards on which another writer left up to two ranges,   *)
(* in any order and perhaps overlapping.                                   *)
(***************************************************************************)
EXTENDS Metadata

SmallIds == 0..3

AnyCard == SeqOf([start : 0..2, count : 0..2], 2)

=============================================================================
