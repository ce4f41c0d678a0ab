------------------------------ MODULE Sealing ------------------------------
(***************************************************************************)
(* What the two secure channels do to the bytes of a command and of an     *)
(* answer (crypto/ccm.go, crypto/crypto.go, ProtectedCommand and Transmit  *)
(* of both channels).  AES is an ideal cipher: byte i of an encrypted      *)
(* block is an unknown <<term, i>>, where the term names the key and the   *)
(* block.  Exclusive or of bytes is the symmetric difference, so that      *)
(* modes, paddings and lengths are computed as the code computes them.     *)
(***************************************************************************)
EXTENDS Apdu

CONSTANTS
    BlockLen,   \* 16 in the code
    TagLen      \* 8: ccmTagLen

ASSUME BlockAssumption ==
    /\ BlockLen \in 5..LcSpace
    /\ TagLen \in 1..BlockLen

Xor(a, b) == (a \ b) \cup (b \ a)
Zeroes(n) == [i \in 1..n |-> {}]

\* chunk, no longer than the block, is added to it.
XorInto(block, chunk) ==
    [i \in DOMAIN block |-> IF i <= Len(chunk) THEN Xor(block[i], chunk[i]) ELSE block[i]]

\* Byte i is byte ByteOf(i) of block BlockOf(i).
BlockOf(i) == ((i - 1) \div BlockLen) + 1
ByteOf(i) == ((i - 1) % BlockLen) + 1

NumBlocks(data) == (Len(data) + BlockLen - 1) \div BlockLen
Block(data, j) ==
    SubSeq(data, (j - 1) * BlockLen + 1, IF j * BlockLen < Len(data) THEN j * BlockLen ELSE Len(data))
Blocks(data) == [j \in 1..NumBlocks(data) |-> Block(data, j)]

-----------------------------------------------------------------------------
(* The block cipher (external) *)

\* The encrypted blocks that went into a block whole, and the rest of it.
TermsIn(block) ==
    {t \in {a[1] : a \in {a \in block[1] : Len(a) = 2}} :
        \A i \in DOMAIN block : <<t, i>> \in block[i]}
Rest(block) ==
    LET terms == TermsIn(block)
    IN  [i \in DOMAIN block |-> block[i] \ {<<t, i>> : t \in terms}]
Whole(terms, rest) == [i \in DOMAIN rest |-> rest[i] \cup {<<t, i>> : t \in terms}]

Unknown(term) == [i \in 1..BlockLen |-> {<<term, i>>}]

Encrypt(key, block) == Unknown(<<key, TermsIn(block), Rest(block)>>)

\* What was not encrypted under this key decrypts to something unknown.
Decrypt(key, block) ==
    LET made == {t \in TermsIn(block) : t[1] = key /\ Len(t) = 3 /\ block = Unknown(t)}
    IN  IF made = {} THEN Unknown(<<key, TermsIn(block), Rest(block), "inverse">>)
        ELSE LET t == CHOOSE t \in made : TRUE IN Whole(t[2], t[3])

\* CBC: what is in the chain before the first block and after each one.
Chain(key, first, blocks) ==
    LET state[j \in 0..Len(blocks)] ==
            IF j = 0 THEN first ELSE Encrypt(key, XorInto(state[j - 1], blocks[j]))
    IN  state

-----------------------------------------------------------------------------
(* CCM (crypto/ccm.go) *)

NonceLen == BlockLen - 3
NonceBytes(n) == [i \in 1..NonceLen |-> IF i = NonceLen THEN ToByte(n) ELSE {}]

buildB0(nonce, msgLen) == <<ToByte(25)>> \o NonceBytes(nonce) \o <<ToByte(msgLen \div 256), ToByte(msgLen)>>
buildCtrBlock(nonce, counter) == <<ToByte(1)>> \o NonceBytes(nonce) \o <<ToByte(counter \div 256), ToByte(counter)>>

computeCBCMAC(key, data, b0) ==
    SubSeq(Chain(key, Encrypt(key, b0), Blocks(data))[NumBlocks(data)], 1, TagLen)

\* Block j is added to what the counter block of j makes.
ctrCrypt(key, nonce, data) ==
    LET stream == [j \in 1..NumBlocks(data) |-> Encrypt(key, buildCtrBlock(nonce, j - 1))]
    IN  [i \in 1..Len(data) |->
            Xor(data[i], stream[BlockOf(i)][ByteOf(i)])]

\* The tag has the first block of the stream, padded, and goes last.
TagFirst(tag, data) == tag \o Zeroes(BlockLen - TagLen) \o data

EncryptAndAuthenticate(key, nonce, plaintext) ==
    LET tag == computeCBCMAC(key, plaintext, buildB0(nonce, Len(plaintext)))
        buf == ctrCrypt(key, nonce, TagFirst(tag, plaintext))
    IN  SubSeq(buf, BlockLen + 1, Len(buf)) \o SubSeq(buf, 1, TagLen)

Failed == [ok |-> FALSE, data |-> <<>>]
Plain(data) == [ok |-> TRUE, data |-> data]

DecryptAndAuthenticate(key, nonce, ciphertext) ==
    LET n == Len(ciphertext) - TagLen
        buf == ctrCrypt(key, nonce,
                   TagFirst(SubSeq(ciphertext, n + 1, n + TagLen), SubSeq(ciphertext, 1, n)))
        plaintext == SubSeq(buf, BlockLen + 1, Len(buf))
    IN  IF n >= 0 /\ SubSeq(buf, 1, TagLen) = computeCBCMAC(key, plaintext, buildB0(nonce, n))
        THEN Plain(plaintext)
        ELSE Failed

-----------------------------------------------------------------------------
(* CBC with padding, and the MAC (crypto/crypto.go) *)

Mark == ToByte(128)

appendPadding(data) == data \o <<Mark>> \o Zeroes(BlockLen - 1 - (Len(data) % BlockLen))

\* The last mark of the last block; its first byte is taken for one unseen.
removePadding(data) ==
    LET first == Len(data) - BlockLen + 1
        marks == {i \in (first + 1)..Len(data) : data[i] = Mark} \cup {first}
    IN  SubSeq(data, 1, (CHOOSE i \in marks : \A j \in marks : j <= i) - 1)

EncryptData(data, key, iv) ==
    LET blocks == Blocks(appendPadding(data))
        chain == Chain(key, iv, blocks)
    IN  [i \in 1..(Len(blocks) * BlockLen) |-> chain[BlockOf(i)][ByteOf(i)]]

\* Each block has the one before it added.
DecryptData(data, key, iv) ==
    LET before == iv \o data
    IN  IF data = <<>> \/ Len(data) % BlockLen # 0 THEN Failed
        ELSE Plain(removePadding([i \in 1..Len(data) |->
                 Xor(Decrypt(key, Block(data, BlockOf(i)))[ByteOf(i)], before[i])]))

\* Whole blocks only.
CalculateMAC(meta, data, key) ==
    LET combined == meta \o data
        numBlocks == Len(combined) \div BlockLen
    IN  Chain(key, Zeroes(BlockLen), [j \in 1..numBlocks |-> Block(combined, j)])[numBlocks]

\* CLA, INS, P1, P2 and the length of MAC and data, or the length alone.
commandMeta(head, length) == head \o <<Length(length)>> \o Zeroes(BlockLen - 5)
answerMeta(length) == <<Length(length)>> \o Zeroes(BlockLen - 1)

=============================================================================
