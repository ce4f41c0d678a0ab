-------------------------------- MODULE Apdu --------------------------------
(***************************************************************************)
(* Commands and responses (apdu/command.go, response.go, utils.go).  A     *)
(* byte is the set of its bits: & is the intersection and exclusive or the *)
(* symmetric difference.  A byte that a cipher made has other members as   *)
(* well (Sealing).  The one byte of a length counts up to LcSpace, 256 in  *)
(* the code.                                                               *)
(***************************************************************************)
EXTENDS Integers, Sequences

CONSTANT LcSpace

ASSUME LcSpaceAssumption == LcSpace \in 2..256

Bit(k) == <<k>>
Place == <<1, 2, 4, 8, 16, 32, 64, 128>>
ToByte(n) == {Bit(k) : k \in {k \in 0..7 : (n \div Place[k + 1]) % 2 = 1}}
ToNumber(byte) == CHOOSE n \in 0..255 : ToByte(n) = byte

\* uint8(len): what does not fit is cut off without an error.
Length(n) == ToByte(n % LcSpace)

\* le: the expected length, one byte, or none.
NewCommand(cla, ins, p1, p2, data) ==
    [cla |-> cla, ins |-> ins, p1 |-> p1, p2 |-> p2, data |-> data, le |-> <<>>]
SetLe(cmd, le) == [cmd EXCEPT !.le = <<le>>]

Head4(cmd) == <<cmd.cla, cmd.ins, cmd.p1, cmd.p2>>

\* Bug: the data is cut with its length.
SerializeCut(cmd) ==
    LET n == Len(cmd.data) % LcSpace
    IN  Head4(cmd) \o (IF n = 0 THEN <<>> ELSE <<Length(n)>> \o SubSeq(cmd.data, 1, n)) \o cmd.le

Serialize(cmd) ==
    Head4(cmd)
    \o (IF cmd.data = <<>> THEN <<>> ELSE <<Length(Len(cmd.data))>> \o cmd.data)
    \o cmd.le

\* [ok, data, sw1, sw2]: sw1 and sw2 are the last two bytes.
BadRawResponse == [ok |-> FALSE, data |-> <<>>, sw1 |-> {}, sw2 |-> {}]
ParseResponse(raw) ==
    LET n == Len(raw)
    IN  IF n < 2 THEN BadRawResponse
        ELSE [ok |-> TRUE, data |-> SubSeq(raw, 1, n - 2), sw1 |-> raw[n - 1], sw2 |-> raw[n]]

Sw(resp) == <<resp.sw1, resp.sw2>>
SwBytes(n) == <<ToByte(n \div 256), ToByte(n % 256)>>
SwOK == SwBytes(36864)

\* resp.Sw & mask = mask
Masked(sw, mask) == mask[1] \subseteq sw[1] /\ mask[2] \subseteq sw[2]

=============================================================================
