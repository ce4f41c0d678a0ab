------------------------------- MODULE BerTlv -------------------------------
(***************************************************************************)
(* BER-TLV reader and writer (tlv/tlv.go).  The buffer is either what the  *)
(* writer made of some items or any bytes.                                 *)
(***************************************************************************)
EXTENDS Bytes

CONSTANTS
    Tags,       \* the tags a caller asks for
    TLV_BOOL,
    TLV_INT,
    Documents,  \* sequences of items given to the writer
    Foreign     \* buffers that come from elsewhere

VARIABLES
    buffer,
    pos,        \* r.pos
    last,       \* what the last read returned
    todo,       \* history: the written items that are still to be read
    strayed     \* history: a read failed, or the buffer is foreign

vars == <<buffer, pos, last, todo, strayed>>

\* Nothing, an error, or the bytes and the number or truth value read.
Nil == [ok |-> TRUE, value |-> <<>>, number |-> 0]
Err == [ok |-> FALSE, value |-> <<>>, number |-> 0]
Got(bytes, n) == [ok |-> TRUE, value |-> bytes, number |-> n]

-----------------------------------------------------------------------------
(* Lengths and the writer *)

\* The short form, or the number of bytes and the fewest bytes that hold n.
EncodeBerLength(n) ==
    IF n < Half THEN <<n>>
    ELSE LET k == CHOOSE k \in 1..4 : n < Power[k] /\ (k = 1 \/ n >= Power[k - 1])
         IN  <<Half + k>> \o BigEndian(n, k)

WritePrimitive(tag, value) == <<tag>> \o EncodeBerLength(Len(value)) \o value

\* Numbers have four bytes, of which leading zeroes are dropped unless the number
\* is negative.
IntegerBytes(n) ==
    LET bytes == BigEndian(n % Power[4], 4)
        start == IF n < 0 THEN 1
                 ELSE CHOOSE i \in 1..4 : /\ i = 4 \/ bytes[i] # 0
                                          /\ \A j \in 1..(i - 1) : bytes[j] = 0
    IN  SubSeq(bytes, start, 4)

\* Constructed items hold items, others bytes.
IsConstructed(item) == item.inner # <<>>
Primitives(items) ==
    FoldLeft(LAMBDA out, item : out \o WritePrimitive(item.tag, item.value), <<>>, items)
WriteItem(item) ==
    WritePrimitive(item.tag, IF IsConstructed(item) THEN Primitives(item.inner) ELSE item.value)
ToBytes(items) == FoldLeft(LAMBDA out, item : out \o WriteItem(item), <<>>, items)

\* What a caller gives to the writer: a value with the number it stands for, or
\* values to nest.  Numbers have 32 bits, and so has the length of a value.  A
\* number under a tag that ReadInteger does not expect is a primitive item.
Leaf == [kind : {"primitive", "integer", "boolean"}, tag : Byte,
         value : Seq(Byte), number : Int, inner : {<<>>}]
Nested == [kind : {"constructed"}, tag : Byte, value : {<<>>}, number : {0}, inner : Seq(Leaf)]

IsWritten(item) ==
    /\ Len(item.value) < Power[4]
    /\ item.kind = "integer" =>
          /\ item.tag = TLV_INT
          /\ item.number \in (-(Power[4] \div 2))..(Power[4] \div 2 - 1)
          /\ item.value = IntegerBytes(item.number)
    /\ item.kind = "boolean" =>
          /\ item.tag = TLV_BOOL
          /\ item.number \in 0..1
          /\ item.value = <<item.number * (Base - 1)>>
    /\ IsConstructed(item) => Len(Primitives(item.inner)) < Power[4]

ASSUME DocumentAssumption ==
    /\ Documents \subseteq Seq(Leaf \cup Nested)
    /\ \A items \in Documents : \A i \in DOMAIN items :
          /\ IsWritten(items[i])
          /\ \A j \in DOMAIN items[i].inner : IsWritten(items[i].inner[j])
    /\ Foreign \subseteq Seq(Byte)

-----------------------------------------------------------------------------
(* The reader's calls, on any buffer: where each leaves the reader and what it *)
(* returns.                                                                    *)

At(next, result) == [next |-> next, result |-> result]

\* What DecodeBerLength makes of the bytes from off on: an error, or the value and
\* the offset behind it.
DecodeBerLength(buf, off) ==
    LET first == buf[off + 1]
        k == first - Half
    IN  IF off >= Len(buf) \/ first = Half \/ k > 4 \/ off + 1 + k > Len(buf)
        THEN [ok |-> FALSE, value |-> 0, next |-> off]
        ELSE IF first < Half
        THEN [ok |-> TRUE, value |-> first, next |-> off + 1]
        ELSE [ok |-> TRUE, value |-> FromBytes(SubSeq(buf, off + 2, off + 1 + k)),
              next |-> off + 1 + k]

NextTagIs(buf, at, tag) == at < Len(buf) /\ buf[at + 1] = tag
has(buf, off, length) == off + length <= Len(buf)

\* The tag is consumed even if it is another, the length unless it is malformed.
\* Only these are consumed of a constructed item, and its length bounds nothing
\* that is read of it.
Enter(buf, at, tag) ==
    LET After(len) == IF len.ok THEN At(len.next, Got(<<>>, len.value)) ELSE At(at + 1, Err)
    IN  IF NextTagIs(buf, at, tag) THEN After(DecodeBerLength(buf, at + 1))
        ELSE At(IF at < Len(buf) THEN at + 1 ELSE at, Err)

\* The value behind what Enter consumed, if all of it is there.
Value(buf, e) ==
    IF ~e.result.ok THEN e
    ELSE IF ~has(buf, e.next, e.result.number) THEN At(e.next, Err)
    ELSE LET end == e.next + e.result.number
         IN  At(end, Got(SubSeq(buf, e.next + 1, end), 0))

Read(buf, at, tag) == Value(buf, Enter(buf, at, tag))

\* The bytes of an item turned into a result that may still be an error.
Interpreted(o, Result(_)) == IF o.result.ok THEN At(o.next, Result(o.result.value)) ELSE o

Boolean(bytes) == IF Len(bytes) # 1 THEN Err ELSE Got(bytes, IF bytes[1] = Base - 1 THEN 1 ELSE 0)

\* Bug: the number read has no sign.
Unsigned(n) == n

\* Four bytes with the highest bit set are a negative number.
Signed(n) == IF n >= Power[4] \div 2 THEN n - Power[4] ELSE n
Integer(bytes) == IF Len(bytes) \notin 1..4 THEN Err ELSE Got(bytes, Signed(FromBytes(bytes)))

\* Bug: the length of the value is not skipped with it.
SkipShort(buf, at) ==
    LET e == Enter(buf, at, buf[at + 1])
    IN  IF at >= Len(buf) THEN At(at, Err)
        ELSE IF ~e.result.ok \/ ~has(buf, at, e.result.number) THEN At(e.next, Err)
        ELSE At(at + e.result.number, Nil)

\* Bug: what is skipped need not be there.
SkipUnbounded(buf, at) ==
    LET e == Enter(buf, at, buf[at + 1])
    IN  IF at >= Len(buf) THEN At(at, Err)
        ELSE IF ~e.result.ok THEN e
        ELSE At(e.next + e.result.number, Nil)

Skip(buf, at) ==
    IF at >= Len(buf) THEN At(at, Err)
    ELSE Interpreted(Read(buf, at, buf[at + 1]), LAMBDA bytes : Nil)

-----------------------------------------------------------------------------
(* The reader *)

TypeOK ==
    /\ buffer \in Seq(Byte)
    /\ pos \in 0..Len(buffer)
    /\ last.ok \in BOOLEAN /\ last.value \in Seq(Byte) /\ last.number \in Int
    /\ strayed \in BOOLEAN

Init ==
    /\ \/ todo \in Documents /\ buffer = ToBytes(todo) /\ strayed = FALSE
       \/ todo = <<>> /\ buffer \in Foreign /\ strayed = TRUE
    /\ pos = 0
    /\ last = Nil

\* rest: the written items that are left after a call that succeeds.
Calls(o, rest) ==
    /\ pos' = o.next
    /\ last' = o.result
    /\ strayed' = (strayed \/ ~o.result.ok)
    /\ todo' = IF strayed' THEN todo ELSE rest
    /\ UNCHANGED buffer

ReadPrimitive(tag) == Calls(Read(buffer, pos, tag), Tail(todo))
ReadBoolean == Calls(Interpreted(Read(buffer, pos, TLV_BOOL), Boolean), Tail(todo))
ReadInteger == Calls(Interpreted(Read(buffer, pos, TLV_INT), Integer), Tail(todo))
SkipPrimitive == Calls(Skip(buffer, pos), Tail(todo))

\* Entering a primitive item is no error of the reader's.
EnterConstructed(tag) ==
    IF ~strayed /\ todo # <<>> /\ ~IsConstructed(Head(todo))
    THEN LET o == Enter(buffer, pos, tag)
         IN  pos' = o.next /\ last' = o.result /\ strayed' = TRUE /\ UNCHANGED <<buffer, todo>>
    ELSE Calls(Enter(buffer, pos, tag), Head(todo).inner \o Tail(todo))

Next ==
    \/ \E tag \in Tags : ReadPrimitive(tag)
    \/ \E tag \in Tags : EnterConstructed(tag)
    \/ ReadBoolean
    \/ ReadInteger
    \/ SkipPrimitive

Spec == Init /\ [][Next]_vars

-----------------------------------------------------------------------------
(* Properties *)

\* As long as no read fails, what is left in the buffer is what the writer made
\* of the items that are left, whether items were read, entered or skipped.
InStep == ~strayed => SubSeq(buffer, pos + 1, Len(buffer)) = ToBytes(todo)

\* Whatever WriteInteger, WriteBoolean or WritePrimitive wrote is read back.
Stored(item) ==
    IF item.kind = "primitive" THEN Got(item.value, 0) ELSE Got(item.value, item.number)
ReadsWhatWasWritten ==
    [][~strayed /\ todo # <<>> =>
         LET item == Head(todo)
             ReadsIt == \/ item.kind = "integer" /\ ReadInteger
                        \/ item.kind = "boolean" /\ ReadBoolean
                        \/ item.kind = "primitive" /\ ReadPrimitive(item.tag)
         IN  ReadsIt => ~strayed' /\ last' = Stored(item)]_vars

=============================================================================
