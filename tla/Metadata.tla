------------------------------ MODULE Metadata ------------------------------
(***************************************************************************)
(* The card's metadata (types/metadata.go): wallet IDs, kept in memory as  *)
(* a sorted slice and on the card as ranges.  The card's name is left out. *)
(* An ID has 64 bits in memory, the start of a range 32 bits on the card.  *)
(***************************************************************************)
EXTENDS Integers, Sequences, SequencesExt

CONSTANTS
    Ids,                    \* the IDs the application uses
    StartLimit,             \* 2^32 in the code
    MaxWalletRangeCount,
    MaxTotalWallets,
    Found                   \* what a card may hold at first

ASSUME MetadataAssumption ==
    /\ Ids \subseteq Nat
    /\ {StartLimit, MaxWalletRangeCount, MaxTotalWallets} \subseteq Nat \ {0}
    /\ Found \subseteq Seq([start : 0..(StartLimit - 1), count : 0..(StartLimit - 1)])

VARIABLES
    wallets,        \* m.wallets
    stored,         \* the ranges on the card
    \* history
    disorder,       \* the slice comes from a card on which disorder was
    cardDisorder    \* another writer left it, or Serialize cut a number

vars == <<wallets, stored, disorder, cardDisorder>>

TypeOK ==
    /\ wallets \in Seq(Nat)
    /\ stored \in Seq([start : 0..(StartLimit - 1), count : 0..(StartLimit - 1)])
    /\ disorder \in BOOLEAN
    /\ cardDisorder \in BOOLEAN

\* The IDs ascend, none twice.
Sorted(ws) == \A i, j \in 1..Len(ws) : i < j => ws[i] < ws[j]

\* A range ends before the next one starts.
End(r) == r.start + r.count
Apart(rs) == \A j, k \in 1..Len(rs) : j < k => End(rs[j]) < rs[k].start

\* EmptyMetadata
Init ==
    /\ wallets = <<>>
    /\ stored \in Found
    /\ disorder = FALSE
    /\ cardDisorder = ~Apart(stored)

-----------------------------------------------------------------------------

\* Bug: an ID that is there is looked for before itself.
sortInsertPosPast(ws, id) ==
    LET from[between \in (0..Len(ws)) \X (0..Len(ws))] ==
            LET low == between[1]
                high == between[2]
                mid == (low + high) \div 2
            IN  IF low >= high THEN low
                ELSE IF ws[mid + 1] <= id THEN from[<<mid + 1, high>>] ELSE from[<<low, mid>>]
    IN  from[<<0, Len(ws)>>]

\* The binary search of sortInsertPos and sortSearchPos: the index in the slice,
\* from 0, where id is or would be inserted.
sortInsertPos(ws, id) ==
    LET from[between \in (0..Len(ws)) \X (0..Len(ws))] ==
            LET low == between[1]
                high == between[2]
                mid == (low + high) \div 2
            IN  IF low >= high THEN low
                ELSE IF ws[mid + 1] < id THEN from[<<mid + 1, high>>] ELSE from[<<low, mid>>]
    IN  from[<<0, Len(ws)>>]

IsAt(ws, idx, id) == idx < Len(ws) /\ ws[idx + 1] = id

\* The slice with id and without it.
Added(ws, id) ==
    LET idx == sortInsertPos(ws, id)
    IN  IF IsAt(ws, idx, id) THEN ws ELSE InsertAt(ws, idx + 1, id)
Removed(ws, id) ==
    LET idx == sortInsertPos(ws, id)
    IN  IF IsAt(ws, idx, id) THEN RemoveAt(ws, idx + 1) ELSE ws

AddWallet(id) ==
    /\ wallets' = Added(wallets, id)
    /\ UNCHANGED <<stored, disorder, cardDisorder>>

RemoveWallet(id) ==
    /\ wallets' = Removed(wallets, id)
    /\ UNCHANGED <<stored, disorder, cardDisorder>>

\* Bug: the start of a range counts as one of its count.
RangesFromOne(ws) ==
    FoldLeft(LAMBDA rs, w :
                 IF rs # <<>> /\ w = Last(rs).start + Last(rs).count
                 THEN [rs EXCEPT ![Len(rs)].count = @ + 1]
                 ELSE Append(rs, [start |-> w, count |-> 1]),
             <<>>, ws)

\* Bug: two IDs of which the second is larger continue a range.
RangesBridgeGaps(ws) ==
    FoldLeft(LAMBDA rs, w :
                 IF rs # <<>> /\ w > Last(rs).start + Last(rs).count
                 THEN [rs EXCEPT ![Len(rs)].count = @ + 1]
                 ELSE Append(rs, [start |-> w, count |-> 0]),
             <<>>, ws)

\* Consecutive IDs become a range: its first one, and how many follow.
Ranges(ws) ==
    FoldLeft(LAMBDA rs, w :
                 IF rs # <<>> /\ w = Last(rs).start + Last(rs).count + 1
                 THEN [rs EXCEPT ![Len(rs)].count = @ + 1]
                 ELSE Append(rs, [start |-> w, count |-> 0]),
             <<>>, ws)

\* Bug: the IDs of a range are counted, not those that follow its first.
SerializeLengths(ws) ==
    [k \in DOMAIN Ranges(ws) |->
        [start |-> Ranges(ws)[k].start % StartLimit, count |-> Ranges(ws)[k].count + 1]]

\* Serialize cuts both numbers of a range to 32 bits.
Serialize(ws) ==
    [k \in DOMAIN Ranges(ws) |->
        [start |-> Ranges(ws)[k].start % StartLimit, count |-> Ranges(ws)[k].count % StartLimit]]

Total(rs) == FoldLeft(LAMBDA n, r : n + r.count + 1, 0, rs)

\* ParseMetadata checks the limits as it goes, and keeps the order it finds.
Parses(rs) ==
    /\ \A k \in DOMAIN rs : rs[k].count <= MaxWalletRangeCount
    /\ Total(rs) <= MaxTotalWallets
ParseMetadata(rs) ==
    FoldLeft(LAMBDA ws, r : ws \o [i \in 1..(r.count + 1) |-> r.start + i - 1], <<>>, rs)

Store ==
    /\ stored' = Serialize(wallets)
    /\ cardDisorder' = (disorder \/ Serialize(wallets) # Ranges(wallets))
    /\ UNCHANGED <<wallets, disorder>>

\* An error leaves the caller with what it had.
Load ==
    /\ IF Parses(stored)
       THEN wallets' = ParseMetadata(stored) /\ disorder' = cardDisorder
       ELSE UNCHANGED <<wallets, disorder>>
    /\ UNCHANGED <<stored, cardDisorder>>

Next ==
    \/ \E id \in Ids : AddWallet(id)
    \/ \E id \in Ids : RemoveWallet(id)
    \/ Store
    \/ Load

Spec == Init /\ [][Next]_vars

-----------------------------------------------------------------------------
(* Properties *)

\* Both searches rely on a slice that is sorted and has no ID twice.  Whatever is
\* added, removed, stored and loaded, disorder comes from a card whose ranges
\* another writer left out of order, or from an ID that Serialize cut to 32 bits
\* (metadata.go:89, 214), and lasts until another card is loaded.
NoDuplicates ==
    /\ ~disorder => Sorted(wallets)
    /\ ~cardDisorder => Apart(stored)

\* What Serialize writes is read back unchanged as long as every range starts
\* below the limit and the reader's limits are kept: no call keeps them, a slice
\* may grow past them and then be stored.
ReadsBack ==
    /\ \A k \in DOMAIN Ranges(wallets) : Ranges(wallets)[k].start < StartLimit
    /\ Len(wallets) <= MaxTotalWallets
    /\ MaxTotalWallets <= MaxWalletRangeCount
    /\ MaxTotalWallets <= StartLimit
    => /\ Parses(Serialize(wallets))
       /\ ParseMetadata(Serialize(wallets)) = wallets

\* Memory and card are two sets of IDs, exact where their order is right: every
\* addition adds, a removal from an exact set removes, what is stored and fits is
\* what is loaded.
Abstract == INSTANCE WalletSet WITH
    Limit       <- StartLimit,
    wallets     <- ToSet(wallets),
    exact       <- Sorted(wallets),
    stored      <- ToSet(ParseMetadata(stored)),
    storedExact <- Sorted(ParseMetadata(stored))
ImplementsWalletSet == Abstract!Spec

=============================================================================
