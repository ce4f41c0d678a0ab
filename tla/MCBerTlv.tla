------------------------------ MODULE MCBerTlv ------------------------------
(***************************************************************************)
(* BerTlv for TLC, with bytes of five bits: documents of at most two items *)
(* whose lengths are on either side of each form of a length, and foreign  *)
(* buffers.                                                                *)
(***************************************************************************)
EXTENDS BerTlv

Bytes(n) == [i \in 1..n |-> i % Base]

Item(kind, tag, value, number) ==
    [kind |-> kind, tag |-> tag, value |-> value, number |-> number, inner |-> <<>>]

Leaves ==
    {Item("primitive", 4, Bytes(n), 0) : n \in {0, 1, 15, 16, 31, 32, 33}}
    \cup {Item("integer", TLV_INT, IntegerBytes(n), n) :
              n \in {0, 15, 16, 31, 32, 1023, 1024, 524287, -1, -32, -524288}}
    \cup {Item("boolean", TLV_BOOL, <<b * (Base - 1)>>, b) : b \in 0..1}

Constructed(items) ==
    [kind |-> "constructed", tag |-> 5, value |-> <<>>, number |-> 0, inner |-> items]

AllDocuments ==
    SeqOf(Leaves, 2)
    \cup {<<Constructed(items), leaf>> : items \in {<<l>> : l \in Leaves}, leaf \in Leaves}

Buffers == SeqOf({0, 1, 2, 4, 16, 17, 18, 21}, 4)

=============================================================================
