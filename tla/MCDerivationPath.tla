-------------------------- MODULE MCDerivationPath --------------------------
(***************************************************************************)
(* DerivationPath for TLC: all paths of at most MaxLength characters.      *)
(***************************************************************************)
EXTENDS DerivationPath

CONSTANTS Alphabet, MaxLength

AllInputs == SeqOf(Alphabet, MaxLength)

=============================================================================
