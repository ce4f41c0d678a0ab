----------------------------- MODULE MCExchange -----------------------------
(***************************************************************************)
(* Exchange for TLC, with lengths below 16, blocks of 5 bytes and tags of  *)
(* 3.  Records are as long as a V2 frame (7 and 8), a V1 frame (9 and 10)  *)
(* and a length (15 and 16) can just be and can no longer be.              *)
(***************************************************************************)
EXTENDS Exchange

PinSet == {<<ToByte(1)>>, <<ToByte(128)>>}
PukSet == {<<ToByte(3)>>, <<ToByte(0)>>}

\* Bytes that look like padding.
Record(n) == [i \in 1..n |-> IF i % 3 = 1 THEN Mark ELSE {}]
RecordSet == {Record(n) : n \in {4, 7, 8, 9, 10, 15, 16}}

=============================================================================
