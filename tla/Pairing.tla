------------------------------ MODULE Pairing ------------------------------
(***************************************************************************)
(* Pairing of V1 cards (secure_channel.go: AutoPair, AutoUnpair,           *)
(* UnpairOthers): the client's pairing, the card's table of pairing slots  *)
(* and the exchanges that change either, any message of which may be lost. *)
(*                                                                         *)
(* A pairing key is a number: 1..MaxPairings are the keys this client      *)
(* derives, Other stands for those of other clients, 0 is a free slot.     *)
(* The secure channel appears as its open and established flags; what an   *)
(* open channel guarantees is SecureChannelV1's subject.                   *)
(***************************************************************************)
EXTENDS Naturals

CONSTANTS
    PairingMaxClientCount,  \* slots of the card: 5 in the code
    MaxPairings             \* bound on the pairings this client completes

ASSUME ConstantsAssumption ==
    /\ PairingMaxClientCount \in 1..254
    /\ MaxPairings \in Nat

VARIABLES
    \* SecureChannelV1
    pairing,        \* sc.pairing, [i, k]
    open,           \* sc.open
    established,    \* sc.established
    \* the call in progress
    pc,             \* the point where the call waits or goes on
    i,              \* the loop variable of UnpairOthers
    net,            \* what the reader holds
    last,           \* the call that returned last and whether without error
    \* the card
    slots,          \* key of each pairing slot
    cardOpen,       \* its session with this client is open
    \* history
    keys,           \* pairing keys the card has given this client
    held,           \* those that have been its pairing
    dropped,        \* those whose answer did not reach it
    unpaired,       \* those AutoUnpair was called for
    told            \* slots the card was asked to free since UnpairOthers began

host == <<pairing, open, established>>
card == <<slots, cardOpen>>
hist == <<keys, held, dropped, unpaired, told>>
vars == <<host, pc, i, net, last, card, hist>>

Slots == 0..(PairingMaxClientCount - 1)
Other == MaxPairings + 1

\* currentIndex is 0xFF without a pairing.
NoPairing == [i |-> 255, k |-> 0]
NoIndex == NoPairing.i

Requests == {"pair1", "pair2", "unpair", "plainUnpair"}
Answers == {"ok", "refused", "error"}

\* p1 is the slot of an UNPAIR or of the answer to PAIR's second step.
Message(t, p1) == [t |-> t, p1 |-> p1]
NoMessage == Message("none", 0)

TypeOK ==
    /\ pairing \in [i : Slots \cup {NoIndex}, k : 0..MaxPairings]
    /\ open \in BOOLEAN
    /\ established \in BOOLEAN
    /\ pc \in {"idle", "pair1", "pair2", "unpair", "others", "othersWait"}
    /\ i \in 0..PairingMaxClientCount
    /\ net \in [t : Requests \cup Answers \cup {"none"}, p1 : Slots]
    /\ last \in {"none", "AutoPair", "AutoUnpair", "UnpairOthers"} \X BOOLEAN
    /\ slots \in [Slots -> 0..Other]
    /\ cardOpen \in BOOLEAN
    /\ keys \in 0..MaxPairings
    /\ held \cup dropped \cup unpaired \subseteq 1..MaxPairings
    /\ told \subseteq Slots

\* Other clients hold some of the slots.
Init ==
    /\ pairing = NoPairing
    /\ open = FALSE
    /\ established = FALSE
    /\ pc = "idle"
    /\ i = 0
    /\ net = NoMessage
    /\ last = <<"none", TRUE>>
    /\ slots \in [Slots -> {0, Other}]
    /\ cardOpen = FALSE
    /\ keys = 0
    /\ held = {}
    /\ dropped = {}
    /\ unpaired = {}
    /\ told = {}

Return(call, ok) ==
    /\ pc' = "idle"
    /\ net' = NoMessage
    /\ last' = <<call, ok>>

-----------------------------------------------------------------------------
(* The session: AutoOpen, Reset and what ends it *)

\* AutoOpen opens only with the key of its slot.  A card that answers MUTUALLY
\* AUTHENTICATE inside the session otherwise than 0x9000 and 32 bytes leaves the
\* channel open and not established (secure_channel.go:233-237); any other failure
\* leaves it closed, and the card's session as it may be.
AutoOpen ==
    /\ pc = "idle"
    /\ pairing # NoPairing
    /\ \/ /\ slots[pairing.i] = pairing.k
          /\ open' = TRUE
          /\ cardOpen' = TRUE
          /\ established' \in {TRUE, established}
       \/ /\ open' = FALSE
          /\ cardOpen' \in BOOLEAN
          /\ UNCHANGED established
    /\ last' = <<"none", TRUE>>
    /\ UNCHANGED <<pairing, pc, i, net, slots, hist>>

\* The pairing survives Reset.
Reset ==
    /\ pc = "idle"
    /\ open' = FALSE
    /\ established' = FALSE
    /\ last' = <<"none", TRUE>>
    /\ UNCHANGED <<pairing, pc, i, net, card, hist>>

CardReset ==
    /\ cardOpen' = FALSE
    /\ last' = <<"none", TRUE>>
    /\ UNCHANGED <<host, pc, i, net, slots, hist>>

-----------------------------------------------------------------------------
(* Transmit *)

\* Bug: the plain answer to a PAIR is refused on a closed channel.
TransmitErrsClosed ==
    \/ net.t = "error"
    \/ ~open /\ net.t = "ok" /\ pc = "pair2"

\* Bug: an error of the reader is taken for an answer.
TransmitErrsNever ==
    /\ open
    /\ net.t = "ok"
    /\ pc \in {"pair1", "pair2"}

\* The answer does not come back as sealed: Transmit closes an open channel and
\* fails, but a refusal (SW 0x6982) it closes on is returned as an answer.
TransmitErrs ==
    \/ net.t = "error"
    \/ open /\ net.t = "ok" /\ pc \in {"pair1", "pair2"}

\* sc.open after Transmit.
OpenAfter == open /\ ~TransmitErrs /\ net.t # "refused"

-----------------------------------------------------------------------------
(* AutoPair *)

AutoPair ==
    /\ pc = "idle"
    /\ keys < MaxPairings
    /\ pc' = "pair1"
    /\ net' = Message("pair1", 0)
    /\ last' = <<"none", TRUE>>
    /\ UNCHANGED <<host, i, card, hist>>

\* Step 1 answered: go on, unless Transmit or the card failed or the card's
\* cryptogram is wrong (a wrong pairing password).
Pair1Answered ==
    /\ pc = "pair1"
    /\ net.t \in Answers
    /\ open' = OpenAfter
    /\ \/ /\ net.t = "ok" /\ ~TransmitErrs
          /\ pc' = "pair2"
          /\ net' = Message("pair2", 0)
          /\ UNCHANGED last
       \/ Return("AutoPair", FALSE)
    /\ UNCHANGED <<pairing, established, i, card, hist>>

\* Bug: the pairing is kept even if the second step fails.
Pair2AnsweredEarly ==
    /\ pc = "pair2"
    /\ net.t \in Answers
    /\ open' = OpenAfter
    /\ pairing' = [i |-> net.p1, k |-> keys]
    /\ held' = held \cup {keys}
    /\ Return("AutoPair", net.t = "ok")
    /\ UNCHANGED <<established, i, card, keys, dropped, unpaired, told>>

\* Step 2 answered: the pairing is replaced only now.
Pair2Answered ==
    /\ pc = "pair2"
    /\ net.t \in Answers
    /\ open' = OpenAfter
    /\ \/ /\ net.t = "ok" /\ ~TransmitErrs
          /\ pairing' = [i |-> net.p1, k |-> keys]
          /\ held' = held \cup {keys}
          /\ Return("AutoPair", TRUE)
       \/ /\ net.t # "ok" \/ TransmitErrs
          /\ Return("AutoPair", FALSE)
          /\ UNCHANGED <<pairing, held>>
    /\ UNCHANGED <<established, i, card, keys, dropped, unpaired, told>>

-----------------------------------------------------------------------------
(* AutoUnpair and UnpairOthers *)

\* ProtectedCommand builds the UNPAIR of slot p, sealed or in the clear.
CanSend == open \/ ~established
SendsUnpair(p) == net' = Message(IF open THEN "unpair" ELSE "plainUnpair", p)

\* Fails at once without a pairing, or when ProtectedCommand fails.
AutoUnpair ==
    /\ pc = "idle"
    /\ IF pairing # NoPairing /\ CanSend
       THEN /\ SendsUnpair(pairing.i)
            /\ pc' = "unpair"
            /\ unpaired' = unpaired \cup {pairing.k}
            /\ last' = <<"none", TRUE>>
       ELSE /\ Return("AutoUnpair", FALSE)
            /\ UNCHANGED unpaired
    /\ UNCHANGED <<host, i, card, keys, held, dropped, told>>

\* Only Transmit's error is looked at; sc.pairing stays.
UnpairAnswered ==
    /\ pc = "unpair"
    /\ net.t \in Answers
    /\ open' = OpenAfter
    /\ Return("AutoUnpair", ~TransmitErrs)
    /\ UNCHANGED <<pairing, established, i, card, hist>>

UnpairOthers ==
    /\ pc = "idle"
    /\ pc' = "others"
    /\ i' = 0
    /\ told' = {}
    /\ last' = <<"none", TRUE>>
    /\ UNCHANGED <<host, net, card, keys, held, dropped, unpaired>>

OthersDone ==
    /\ pc = "others"
    /\ i = PairingMaxClientCount
    /\ Return("UnpairOthers", TRUE)
    /\ UNCHANGED <<host, i, card, hist>>

\* Bug: the slot after the client's is skipped as well.
OthersSkipsTwo ==
    /\ pc = "others"
    /\ i < PairingMaxClientCount
    /\ i = pairing.i
    /\ i' = i + 2
    /\ UNCHANGED <<host, pc, net, last, card, hist>>

\* currentIndex is read once; nothing changes the pairing during the loop.
OthersSkips ==
    /\ pc = "others"
    /\ i < PairingMaxClientCount
    /\ i = pairing.i
    /\ i' = i + 1
    /\ UNCHANGED <<host, pc, net, last, card, hist>>

\* Bug: the loop compares with the index after the client's.
OthersSendsOwn ==
    /\ pc = "others"
    /\ i < PairingMaxClientCount
    /\ i # pairing.i + 1
    /\ IF CanSend
       THEN SendsUnpair(i) /\ pc' = "othersWait" /\ UNCHANGED last
       ELSE Return("UnpairOthers", FALSE)
    /\ UNCHANGED <<host, i, card, hist>>

OthersSends ==
    /\ pc = "others"
    /\ i < PairingMaxClientCount
    /\ i # pairing.i
    /\ IF CanSend
       THEN SendsUnpair(i) /\ pc' = "othersWait" /\ UNCHANGED last
       ELSE Return("UnpairOthers", FALSE)
    /\ UNCHANGED <<host, i, card, hist>>

\* Transmit's error ends the loop, a refusal does not.
OthersAnswered ==
    /\ pc = "othersWait"
    /\ net.t \in Answers
    /\ open' = OpenAfter
    /\ IF TransmitErrs
       THEN Return("UnpairOthers", FALSE) /\ UNCHANGED i
       ELSE /\ pc' = "others"
            /\ i' = i + 1
            /\ net' = NoMessage
            /\ UNCHANGED last
    /\ UNCHANGED <<pairing, established, card, hist>>

-----------------------------------------------------------------------------
(* The card and the reader (external) *)

\* PAIR: the first step needs a free slot, the second takes it.
CardPairs ==
    /\ \/ /\ net.t = "pair1"
          /\ net' = Message(IF \E s \in Slots : slots[s] = 0 THEN "ok" ELSE "refused", 0)
          /\ UNCHANGED <<slots, keys>>
       \/ /\ net.t = "pair2"
          /\ \E s \in Slots :
                /\ slots[s] = 0
                /\ \A r \in Slots : r < s => slots[r] # 0
                /\ slots' = [slots EXCEPT ![s] = keys + 1]
                /\ net' = Message("ok", s)
          /\ keys' = keys + 1
    /\ UNCHANGED <<host, pc, i, last, cardOpen, held, dropped, unpaired, told>>

\* UNPAIR is executed inside the session only.  There the card may also answer
\* that it did not (the PIN is not verified): nobody looks at that status word.
CardUnpairs ==
    /\ \/ /\ net.t = "unpair" /\ cardOpen
          /\ slots' \in {slots, [slots EXCEPT ![net.p1] = 0]}
          /\ net' = Message("ok", 0)
          /\ told' = told \cup {net.p1}
          /\ UNCHANGED cardOpen
       \/ /\ net.t = "plainUnpair" \/ (net.t = "unpair" /\ ~cardOpen)
          /\ net' = Message("refused", 0)
          /\ cardOpen' = FALSE
          /\ UNCHANGED <<slots, told>>
    /\ UNCHANGED <<host, pc, i, last, keys, held, dropped, unpaired>>

\* The command or its answer is lost, or damaged beyond Transmit's checks.
SendFails ==
    /\ net.t \in Requests \cup {"ok", "refused"}
    /\ net' = Message("error", 0)
    /\ dropped' = IF pc = "pair2" /\ net.t = "ok" THEN dropped \cup {keys} ELSE dropped
    /\ UNCHANGED <<host, pc, i, last, card, keys, held, unpaired, told>>

-----------------------------------------------------------------------------

Next ==
    \/ AutoOpen
    \/ Reset
    \/ CardReset
    \/ AutoPair
    \/ Pair1Answered
    \/ Pair2Answered
    \/ AutoUnpair
    \/ UnpairAnswered
    \/ UnpairOthers
    \/ OthersDone
    \/ OthersSkips
    \/ OthersSends
    \/ OthersAnswered
    \/ CardPairs
    \/ CardUnpairs
    \/ SendFails

Spec == Init /\ [][Next]_vars

-----------------------------------------------------------------------------
(* Properties *)

\* The client's pairing is always the card's, whatever AutoPair loses halfway,
\* until the client unpairs itself (secure_channel.go:323).
PairingBacked ==
    pairing # NoPairing /\ pairing.k \notin unpaired => slots[pairing.i] = pairing.k

\* When UnpairOthers returns nil on a channel that is still open, the card was
\* asked, inside the session, to free every slot except the client's own.
OthersToldWhileOpen ==
    last = <<"UnpairOthers", TRUE>> /\ open => told = Slots \ {pairing.i}

\* A slot given to this client is lost to it only if the answer to PAIR's second
\* step was: no path of AutoPair drops a pairing it was told of.
SlotLostOnlyWithAnswer ==
    \A s \in Slots : slots[s] \in 1..MaxPairings =>
        slots[s] \in held \cup dropped \/ (pc = "pair2" /\ slots[s] = keys)

\* Interface comment (secure_channel.go:336): UnpairOthers unpairs all other
\* clients; it returned without an error.
UnpairOthersUnpairs ==
    last = <<"UnpairOthers", TRUE>> => \A s \in Slots \ {pairing.i} : slots[s] = 0

=============================================================================
