------------------------------- MODULE Ecdsa --------------------------------
(***************************************************************************)
(* ECDSA as the library's callers see it, over a group small enough for    *)
(* TLC: the points are the numbers below the prime Order, added modulo it, *)
(* and a point and its opposite, one odd and the other even, have the same *)
(* abscissa.  The equations of signing, verifying and recovering a key are *)
(* those of the curve.  Finding a key from its point is easy here; nothing *)
(* below is about that.                                                    *)
(*                                                                         *)
(* Unlike on the curve no abscissa is above Order, so that recovery with v *)
(* of 2 or 3 always fails; on secp256k1 it does but for one r in 2^127.    *)
(***************************************************************************)
EXTENDS Bytes

CONSTANTS
    Order,
    KeyLen      \* 32: bytes of a private key, of r and of s

ASSUME OrderAssumption == Order \in 3..Power[KeyLen] /\ \A n \in 2..(Order - 1) : Order % n # 0

Scalars == 1..(Order - 1)
Abscissa(p) == IF 2 * p < Order THEN p ELSE Order - p
Lift(x, odd) == IF x % 2 = odd THEN x ELSE Order - x
OnCurve(x) == x \in 1..(Order \div 2)

Inv == [a \in Scalars |-> CHOOSE b \in Scalars : (a * b) % Order = 1]

\* The key of d is the point d: the generator is 1.
Hash(bytes) == FromBytes(bytes) % Order

\* nonce is the scalar the signer draws; v says which of the two points it gave.
Sign(d, m, nonce) ==
    LET r == Abscissa(nonce)
    IN  [r |-> r, s |-> (Inv[nonce] * (m + r * d)) % Order, v |-> nonce % 2]

Verify(p, m, r, s) ==
    /\ r \in Scalars /\ s \in Scalars
    /\ Abscissa((Inv[s] * (m + r * p)) % Order) = r

\* The key that made a signature, or 0 when there is none.
Recover(m, r, s, v) ==
    IF r \notin Scalars \/ s \notin Scalars \/ v \notin 0..1 \/ ~OnCurve(r) THEN 0
    ELSE (Inv[r] * ((s * Lift(r, v) - m) % Order)) % Order

-----------------------------------------------------------------------------
(* Encodings *)

Scalar(n) == BigEndian(n, KeyLen)
Compressed(p) == <<2 + (p % 2)>> \o Scalar(Abscissa(p))
Uncompressed(p) == <<4>> \o Scalar(Abscissa(p)) \o Scalar(p)

\* The point of a key in either form, or 0.
ParsePubKey(bytes) ==
    LET x == FromBytes(SubSeq(bytes, 2, KeyLen + 1))
        p == FromBytes(SubSeq(bytes, KeyLen + 2, 2 * KeyLen + 1))
    IN  CASE Len(bytes) = KeyLen + 1 /\ bytes[1] \in 2..3 /\ OnCurve(x) -> Lift(x, bytes[1] - 2)
          [] Len(bytes) = 2 * KeyLen + 1 /\ bytes[1] = 4 /\ Abscissa(p) = x /\ OnCurve(x) -> p
          [] OTHER -> 0

\* An integer of a DER signature: no zero too many, and one in front of a set
\* highest bit.
DerInteger(n) ==
    LET k == CHOOSE k \in 1..KeyLen : n < Power[k] /\ (k = 1 \/ n >= Power[k - 1])
        bytes == BigEndian(n, k)
    IN  IF bytes[1] >= Half THEN <<0>> \o bytes ELSE bytes

=============================================================================
