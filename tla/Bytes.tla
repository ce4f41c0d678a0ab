------------------------------- MODULE Bytes --------------------------------
(***************************************************************************)
(* Bytes, and numbers written with them.  A byte is a number below Base,   *)
(* 256 in the code; its highest bit is set from Half on.                   *)
(***************************************************************************)
EXTENDS Integers, Sequences, SequencesExt

CONSTANT Base

ASSUME BaseAssumption == Base \in Nat /\ Base % 2 = 0 /\ Base \div 2 > 4

Half == Base \div 2
Byte == 0..(Base - 1)

\* Base to the power of k.
Power[k \in Nat] == IF k = 0 THEN 1 ELSE Base * Power[k - 1]

\* n as k bytes, the most significant first.
BigEndian(n, k) == [i \in 1..k |-> (n \div Power[k - i]) % Base]
FromBytes(bytes) == FoldLeft(LAMBDA n, b : Base * n + b, 0, bytes)

=============================================================================
