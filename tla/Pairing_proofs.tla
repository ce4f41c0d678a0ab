--------------------------- MODULE Pairing_proofs ---------------------------
(***************************************************************************)
(* Theorems about Pairing, for every size of the card's table of slots and *)
(* every number of pairings.                                               *)
(***************************************************************************)
EXTENDS Pairing, TLAPS

USE ConstantsAssumption

-----------------------------------------------------------------------------
(* The inductive invariant *)

\* What the reader holds fits the call in progress, and an answer says what
\* the card did.
CallInv ==
    /\ pc \in {"idle", "others"} => net.t = "none"
    /\ pc = "pair1" => net.t \in {"pair1"} \cup Answers /\ keys < MaxPairings
    /\ pc = "pair2" =>
        /\ net.t \in {"pair2"} \cup Answers
        /\ ~open
        /\ net.t = "pair2" => keys < MaxPairings
        /\ net.t = "ok" => keys # 0 /\ slots[net.p1] = keys
    /\ pc \in {"unpair", "othersWait"} => net.t \in {"unpair", "plainUnpair"} \cup Answers
    /\ pc = "unpair" => pairing.k \in unpaired
    /\ pc = "othersWait" =>
        /\ i \in Slots \ {pairing.i}
        /\ net.t \in {"unpair", "plainUnpair"} => net.p1 = i
        /\ net.t = "ok" => i \in told

\* The pairing is one the client was told of, and the card has it.
PairingInv ==
    /\ pairing # NoPairing => pairing.i \in Slots /\ pairing.k \in held
    /\ PairingBacked

\* A slot of this client is in doubt only while the answer is on its way.
SlotsInv ==
    \A s \in Slots : slots[s] \in 1..MaxPairings =>
        \/ slots[s] \in held \cup dropped
        \/ pc = "pair2" /\ net.t = "ok" /\ slots[s] = keys

\* The loop of UnpairOthers has told the card of the slots it has passed, as
\* long as the channel stayed open.
OthersInv ==
    /\ pc \in {"others", "othersWait"} =>
        /\ told \subseteq Slots \ {pairing.i}
        /\ open => \A s \in Slots \ {pairing.i} : s < i => s \in told
    /\ last = <<"UnpairOthers", TRUE>> => pc = "idle"
    /\ OthersToldWhileOpen

IInv == TypeOK /\ CallInv /\ PairingInv /\ SlotsInv /\ OthersInv

-----------------------------------------------------------------------------
(* Typing *)

LEMMA MessageType ==
    ASSUME NEW t \in Requests \cup Answers \cup {"none"}, NEW p \in Slots
    PROVE  /\ Message(t, p) \in [t : Requests \cup Answers \cup {"none"}, p1 : Slots]
           /\ Message(t, p).t = t
           /\ Message(t, p).p1 = p
BY DEF Message

LEMMA NoMessageType ==
    /\ 0 \in Slots
    /\ NoMessage \in [t : Requests \cup Answers \cup {"none"}, p1 : Slots]
    /\ NoMessage.t = "none"
<1>1. 0 \in Slots
  BY DEF Slots
<1> QED
  BY <1>1, MessageType DEF NoMessage

\* A loop variable below the bound is a slot.
LEMMA SlotType ==
    /\ 0 \in 0..PairingMaxClientCount
    /\ \A j \in 0..PairingMaxClientCount : j < PairingMaxClientCount => j \in Slots
    /\ \A s \in Slots : s + 1 \in 0..PairingMaxClientCount
BY DEF Slots

LEMMA TypeInit == Init => TypeOK
<1> SUFFICES ASSUME Init PROVE TypeOK
  OBVIOUS
<1>1. pairing \in [i : Slots \cup {NoIndex}, k : 0..MaxPairings]
  BY DEF Init, NoPairing, NoIndex
<1>2. slots \in [Slots -> 0..Other]
  BY DEF Init, Other
<1>3. <<"none", TRUE>> \in {"none", "AutoPair", "AutoUnpair", "UnpairOthers"} \X BOOLEAN
  OBVIOUS
<1>4. held \cup dropped \cup unpaired \subseteq 1..MaxPairings
  BY DEF Init
<1>5. /\ open \in BOOLEAN /\ established \in BOOLEAN /\ cardOpen \in BOOLEAN
      /\ pc \in {"idle", "pair1", "pair2", "unpair", "others", "othersWait"}
  BY DEF Init
<1>6. i \in 0..PairingMaxClientCount
  BY SlotType DEF Init
<1>7. net \in [t : Requests \cup Answers \cup {"none"}, p1 : Slots]
  BY NoMessageType DEF Init
<1>8. last \in {"none", "AutoPair", "AutoUnpair", "UnpairOthers"} \X BOOLEAN
  BY <1>3 DEF Init
<1>9. keys \in 0..MaxPairings
  BY DEF Init
<1>10. told \subseteq Slots
  BY DEF Init
<1> QED
  BY <1>1, <1>2, <1>4, <1>5, <1>6, <1>7, <1>8, <1>9, <1>10 DEF TypeOK

\* A key is typed because a PAIR is only sent while the bound on pairings is not
\* reached, a slot because only a client with a pairing unpairs itself.
LEMMA TypeStep == IInv /\ [Next]_vars => TypeOK'
<1> SUFFICES ASSUME IInv, [Next]_vars PROVE TypeOK'
  OBVIOUS
<1>o. TypeOK
  BY DEF IInv
<1> USE <1>o DEF TypeOK
<1>a. 0 \in Slots /\ net.p1 \in Slots
  BY NoMessageType
<1>b. ASSUME NEW t \in Requests \cup Answers \cup {"none"}, NEW p \in Slots
      PROVE  Message(t, p) \in [t : Requests \cup Answers \cup {"none"}, p1 : Slots]
  BY MessageType
<1>c. {"pair1", "pair2", "unpair", "plainUnpair", "ok", "refused", "error"}
        \subseteq Requests \cup Answers \cup {"none"}
  BY DEF Requests, Answers
<1>r. ASSUME NEW call \in {"AutoPair", "AutoUnpair", "UnpairOthers"}, NEW ok \in BOOLEAN, Return(call, ok)
      PROVE  /\ pc' = "idle"
             /\ net' \in [t : Requests \cup Answers \cup {"none"}, p1 : Slots]
             /\ last' \in {"none", "AutoPair", "AutoUnpair", "UnpairOthers"} \X BOOLEAN
  BY <1>r, NoMessageType DEF Return
<1>n. <<"none", TRUE>> \in {"none", "AutoPair", "AutoUnpair", "UnpairOthers"} \X BOOLEAN
  OBVIOUS
<1>1. ASSUME AutoOpen \/ Reset \/ CardReset PROVE TypeOK'
  BY <1>1, <1>n DEF AutoOpen, Reset, CardReset, host, card, hist
<1>2. ASSUME AutoPair PROVE TypeOK'
  <2>1. net' \in [t : Requests \cup Answers \cup {"none"}, p1 : Slots]
    BY <1>2, <1>a, <1>b, <1>c DEF AutoPair
  <2> QED
    BY <1>2, <1>n, <2>1 DEF AutoPair, host, card, hist
<1>3. ASSUME Pair1Answered PROVE TypeOK'
  <2>1. /\ pc' \in {"idle", "pair2"}
        /\ net' \in [t : Requests \cup Answers \cup {"none"}, p1 : Slots]
        /\ last' \in {"none", "AutoPair", "AutoUnpair", "UnpairOthers"} \X BOOLEAN
    <3>1. CASE Return("AutoPair", FALSE)
      BY <3>1, <1>r
    <3>2. CASE pc' = "pair2" /\ net' = Message("pair2", 0) /\ UNCHANGED last
      BY <3>2, <1>a, <1>b, <1>c
    <3> QED
      BY <1>3, <3>1, <3>2 DEF Pair1Answered
  <2> QED
    BY <1>3, <2>1 DEF Pair1Answered, OpenAfter, card, hist
<1>4. ASSUME Pair2Answered PROVE TypeOK'
  <2>1. /\ pc' = "idle"
        /\ net' \in [t : Requests \cup Answers \cup {"none"}, p1 : Slots]
        /\ last' \in {"none", "AutoPair", "AutoUnpair", "UnpairOthers"} \X BOOLEAN
    BY <1>4, <1>r DEF Pair2Answered
  <2>2. net.t = "ok" => keys \in 1..MaxPairings
    BY <1>4 DEF Pair2Answered, IInv, CallInv
  <2>3. /\ pairing' \in [i : Slots \cup {NoIndex}, k : 0..MaxPairings]
        /\ held' \subseteq 1..MaxPairings
    <3>1. CASE UNCHANGED <<pairing, held>>
      BY <3>1
    <3>2. CASE net.t = "ok" /\ pairing' = [i |-> net.p1, k |-> keys] /\ held' = held \cup {keys}
      BY <1>a, <2>2, <3>2
    <3> QED
      BY <1>4, <3>1, <3>2 DEF Pair2Answered
  <2> QED
    BY <1>4, <2>1, <2>3 DEF Pair2Answered, OpenAfter, card
<1>5. ASSUME AutoUnpair PROVE TypeOK'
  <2>1. CASE pairing # NoPairing /\ CanSend
    <3>1. pairing.i \in Slots /\ pairing.k \in 1..MaxPairings
      BY <2>1 DEF IInv, PairingInv
    <3>2. net' \in [t : Requests \cup Answers \cup {"none"}, p1 : Slots]
      BY <1>5, <1>b, <1>c, <2>1, <3>1 DEF AutoUnpair, SendsUnpair
    <3> QED
      BY <1>5, <1>n, <2>1, <3>1, <3>2 DEF AutoUnpair, host, card
  <2>2. CASE ~(pairing # NoPairing /\ CanSend)
    <3>1. Return("AutoUnpair", FALSE) /\ UNCHANGED unpaired
      BY <1>5, <2>2 DEF AutoUnpair
    <3>2. /\ pc' = "idle"
          /\ net' \in [t : Requests \cup Answers \cup {"none"}, p1 : Slots]
          /\ last' \in {"none", "AutoPair", "AutoUnpair", "UnpairOthers"} \X BOOLEAN
      BY <1>r, <3>1
    <3> QED
      BY <1>5, <3>1, <3>2 DEF AutoUnpair, host, card
  <2> QED
    BY <2>1, <2>2
<1>6. ASSUME UnpairAnswered PROVE TypeOK'
  <2>1. /\ pc' = "idle"
        /\ net' \in [t : Requests \cup Answers \cup {"none"}, p1 : Slots]
        /\ last' \in {"none", "AutoPair", "AutoUnpair", "UnpairOthers"} \X BOOLEAN
    BY <1>6, <1>r DEF UnpairAnswered
  <2> QED
    BY <1>6, <2>1 DEF UnpairAnswered, OpenAfter, card, hist
<1>7. ASSUME UnpairOthers PROVE TypeOK'
  BY <1>7, <1>n DEF UnpairOthers, host, card
<1>8. ASSUME OthersDone PROVE TypeOK'
  <2>1. /\ pc' = "idle"
        /\ net' \in [t : Requests \cup Answers \cup {"none"}, p1 : Slots]
        /\ last' \in {"none", "AutoPair", "AutoUnpair", "UnpairOthers"} \X BOOLEAN
    BY <1>8, <1>r DEF OthersDone
  <2> QED
    BY <1>8, <2>1 DEF OthersDone, host, card, hist
<1>9. ASSUME OthersSkips PROVE TypeOK'
  BY <1>9 DEF OthersSkips, host, card, hist
<1>10. ASSUME OthersSends PROVE TypeOK'
  <2>1. i \in Slots
    BY <1>10, SlotType DEF OthersSends
  <2>2. /\ pc' \in {"idle", "othersWait"}
        /\ net' \in [t : Requests \cup Answers \cup {"none"}, p1 : Slots]
        /\ last' \in {"none", "AutoPair", "AutoUnpair", "UnpairOthers"} \X BOOLEAN
    <3>1. CASE Return("UnpairOthers", FALSE)
      BY <3>1, <1>r
    <3>2. CASE SendsUnpair(i) /\ pc' = "othersWait" /\ UNCHANGED last
      BY <3>2, <1>b, <1>c, <2>1 DEF SendsUnpair
    <3> QED
      BY <1>10, <3>1, <3>2 DEF OthersSends
  <2> QED
    BY <1>10, <2>2 DEF OthersSends, host, card, hist
<1>11. ASSUME OthersAnswered PROVE TypeOK'
  <2>1. i + 1 \in 0..PairingMaxClientCount
    BY <1>11 DEF OthersAnswered, IInv, CallInv, Slots
  <2>2. /\ pc' \in {"idle", "others"} /\ i' \in 0..PairingMaxClientCount
        /\ net' \in [t : Requests \cup Answers \cup {"none"}, p1 : Slots]
        /\ last' \in {"none", "AutoPair", "AutoUnpair", "UnpairOthers"} \X BOOLEAN
    BY <1>11, <1>r, <2>1, NoMessageType DEF OthersAnswered
  <2> QED
    BY <1>11, <2>2 DEF OthersAnswered, OpenAfter, card, hist
<1>12. ASSUME CardPairs PROVE TypeOK'
  <2>1. net.t = "pair2" => pc = "pair2"
    BY DEF IInv, CallInv, Answers
  <2>2. net.t = "pair2" => keys + 1 \in 0..MaxPairings /\ keys + 1 \in 0..Other
    BY <2>1 DEF IInv, CallInv, Other
  <2>3. /\ slots' \in [Slots -> 0..Other] /\ keys' \in 0..MaxPairings
        /\ net' \in [t : Requests \cup Answers \cup {"none"}, p1 : Slots]
    BY <1>12, <1>a, <1>b, <1>c, <2>2 DEF CardPairs
  <2> QED
    BY <1>12, <2>3 DEF CardPairs, host
<1>13. ASSUME CardUnpairs PROVE TypeOK'
  <2>1. [slots EXCEPT ![net.p1] = 0] \in [Slots -> 0..Other]
    BY DEF Other
  <2>2. /\ slots' \in [Slots -> 0..Other] /\ told' \subseteq Slots
        /\ net' \in [t : Requests \cup Answers \cup {"none"}, p1 : Slots]
    BY <1>13, <1>a, <1>b, <1>c, <2>1 DEF CardUnpairs
  <2> QED
    BY <1>13, <2>2 DEF CardUnpairs, host
<1>14. ASSUME SendFails PROVE TypeOK'
  <2>1. net' \in [t : Requests \cup Answers \cup {"none"}, p1 : Slots]
    BY <1>14, <1>a, <1>b, <1>c DEF SendFails
  <2>2. dropped' \subseteq 1..MaxPairings
    BY <1>14 DEF SendFails, IInv, CallInv
  <2> QED
    BY <1>14, <2>1, <2>2 DEF SendFails, host, card
<1>15. ASSUME UNCHANGED vars PROVE TypeOK'
  BY <1>15 DEF vars, host, card, hist
<1> HIDE DEF TypeOK
<1> QED
  BY <1>1, <1>2, <1>3, <1>4, <1>5, <1>6, <1>7, <1>8, <1>9, <1>10, <1>11, <1>12,
     <1>13, <1>14, <1>15 DEF Next

-----------------------------------------------------------------------------
(* The inductive invariant, conjunct by conjunct.  Each lemma has one case *)
(* for the steps that leave the conjunct's variables alone and one step    *)
(* for every action that can disturb it.                                   *)

\* A call that returns leaves nothing with the reader.
LEMMA ReturnFacts ==
    ASSUME NEW call, NEW ok, Return(call, ok)
    PROVE  pc' = "idle" /\ net'.t = "none" /\ last' = <<call, ok>>
BY NoMessageType DEF Return

\* Any other call than UnpairOthers.
LEMMA OtherReturns ==
    ASSUME NEW call, NEW ok, Return(call, ok), call # "UnpairOthers"
    PROVE  pc' = "idle" /\ last' # <<"UnpairOthers", TRUE>>
BY DEF Return

\* What the reader holds fits the call in progress.
LEMMA CallStep == IInv /\ TypeOK' /\ [Next]_vars => CallInv'
<1> SUFFICES ASSUME IInv, TypeOK', [Next]_vars PROVE CallInv'
  OBVIOUS
<1> USE DEF CallInv
<1>o. TypeOK /\ CallInv
  BY DEF IInv
<1>1. CASE UNCHANGED <<pairing, open, pc, i, net, slots, keys, unpaired, told>>
  BY <1>o, <1>1
<1>2. CASE pc' \in {"idle", "others"} /\ net'.t = "none"
  BY <1>2
<1>3. ASSUME pc = "idle", pc' = "idle", UNCHANGED net PROVE CallInv'
  BY <1>o, <1>3
<1>4. ASSUME AutoPair PROVE CallInv'
  BY <1>o, <1>4 DEF AutoPair, Message, hist
<1>5. ASSUME Pair1Answered PROVE CallInv'
  <2>1. CASE Return("AutoPair", FALSE)
    BY <1>2, <2>1, ReturnFacts
  <2>2. CASE net.t = "ok" /\ ~TransmitErrs /\ pc' = "pair2" /\ net' = Message("pair2", 0)
    <3>1. ~open'
      BY <1>5, <2>2 DEF Pair1Answered, TransmitErrs, OpenAfter
    <3>2. net'.t = "pair2" /\ keys' < MaxPairings
      BY <1>o, <1>5, <2>2 DEF Pair1Answered, Message, hist
    <3> QED
      BY <2>2, <3>1, <3>2
  <2> QED
    BY <1>5, <2>1, <2>2 DEF Pair1Answered
<1>6. ASSUME Pair2Answered \/ UnpairAnswered \/ OthersDone PROVE CallInv'
  BY <1>2, <1>6, ReturnFacts DEF Pair2Answered, UnpairAnswered, OthersDone
<1>7. ASSUME AutoUnpair PROVE CallInv'
  <2>1. CASE Return("AutoUnpair", FALSE)
    BY <1>2, <2>1, ReturnFacts
  <2>2. CASE SendsUnpair(pairing.i) /\ pc' = "unpair" /\ unpaired' = unpaired \cup {pairing.k}
    <3>1. net'.t \in {"unpair", "plainUnpair"} /\ pairing' = pairing
      BY <1>7, <2>2 DEF AutoUnpair, SendsUnpair, Message, host
    <3> QED
      BY <2>2, <3>1
  <2> QED
    BY <1>7, <2>1, <2>2 DEF AutoUnpair
<1>8. ASSUME UnpairOthers PROVE CallInv'
  BY <1>o, <1>2, <1>8 DEF UnpairOthers
<1>9. ASSUME OthersSkips PROVE CallInv'
  BY <1>o, <1>2, <1>9 DEF OthersSkips
<1>10. ASSUME OthersSends PROVE CallInv'
  <2>1. CASE Return("UnpairOthers", FALSE)
    BY <1>2, <2>1, ReturnFacts
  <2>2. CASE SendsUnpair(i) /\ pc' = "othersWait"
    <3>1. net'.t \in {"unpair", "plainUnpair"} /\ net'.p1 = i
      BY <2>2 DEF SendsUnpair, Message
    <3>2. i \in Slots \ {pairing.i} /\ UNCHANGED <<i, pairing>>
      BY <1>o, <1>10, SlotType DEF OthersSends, TypeOK, host
    <3> QED
      BY <2>2, <3>1, <3>2
  <2> QED
    BY <1>10, <2>1, <2>2 DEF OthersSends
<1>11. ASSUME OthersAnswered PROVE CallInv'
  <2>1. CASE Return("UnpairOthers", FALSE)
    BY <1>2, <2>1, ReturnFacts
  <2>2. CASE pc' = "others" /\ net' = NoMessage
    BY <1>2, <2>2, NoMessageType
  <2> QED
    BY <1>11, <2>1, <2>2 DEF OthersAnswered
<1>12. ASSUME CardPairs PROVE CallInv'
  <2>1. CASE net.t = "pair1" /\ UNCHANGED <<slots, keys>>
    <3>1. pc = "pair1" /\ UNCHANGED <<pc, keys>> /\ net'.t \in Answers
      BY <1>o, <1>12, <2>1 DEF CardPairs, TypeOK, Message, Answers
    <3> QED
      BY <1>o, <3>1
  <2>2. CASE net.t = "pair2"
    <3>1. pc = "pair2" /\ ~open /\ UNCHANGED <<pc, open>> /\ keys' = keys + 1
      BY <1>o, <1>12, <2>2 DEF CardPairs, TypeOK, Answers, host
    <3>2. PICK s \in Slots : slots' = [slots EXCEPT ![s] = keys + 1] /\ net' = Message("ok", s)
      BY <1>12, <2>2 DEF CardPairs
    <3>3. net'.t = "ok" /\ slots'[net'.p1] = keys' /\ keys' # 0
      BY <1>o, <3>1, <3>2 DEF Message, TypeOK
    <3> QED
      BY <3>1, <3>3 DEF Answers
  <2> QED
    BY <1>12, <2>1, <2>2 DEF CardPairs
<1>13. ASSUME CardUnpairs PROVE CallInv'
  <2>1. pc \in {"unpair", "othersWait"} /\ UNCHANGED <<pairing, pc, i, unpaired>>
    BY <1>o, <1>13 DEF CardUnpairs, TypeOK, Answers, host
  <2>2. \/ net'.t = "ok" /\ told' = told \cup {net.p1}
        \/ net'.t = "refused"
    BY <1>13 DEF CardUnpairs, Message
  <2>3. pc = "othersWait" => net.p1 = i
    BY <1>o, <1>13 DEF CardUnpairs
  <2> QED
    BY <1>o, <2>1, <2>2, <2>3 DEF Answers
<1>14. ASSUME SendFails PROVE CallInv'
  <2>1. /\ pc \notin {"idle", "others"} /\ net'.t = "error"
        /\ UNCHANGED <<pairing, open, pc, i, keys, unpaired>>
    BY <1>o, <1>14 DEF SendFails, Requests, Message, host
  <2> QED
    BY <1>o, <2>1 DEF Answers
<1>15. ASSUME AutoOpen \/ Reset \/ CardReset PROVE CallInv'
  BY <1>1, <1>3, <1>15 DEF AutoOpen, Reset, CardReset, host, hist
<1> HIDE DEF CallInv
<1> QED
  BY <1>1, <1>4, <1>5, <1>6, <1>7, <1>8, <1>9, <1>10, <1>11, <1>12, <1>13, <1>14, <1>15
  DEF Next, vars, host, card, hist

\* An UNPAIR that the card may execute is not for the client's own pairing,
\* unless the client asked for that.
LEMMA PairingStep == IInv /\ TypeOK' /\ [Next]_vars => PairingInv'
<1> SUFFICES ASSUME IInv, TypeOK', [Next]_vars PROVE PairingInv'
  OBVIOUS
<1> USE DEF PairingInv, PairingBacked
<1>o. TypeOK /\ CallInv /\ PairingInv
  BY DEF IInv
<1>1. CASE UNCHANGED <<pairing, slots, held>> /\ unpaired \subseteq unpaired'
  BY <1>o, <1>1
<1>2. ASSUME Pair2Answered PROVE PairingInv'
  <2>1. CASE UNCHANGED <<pairing, held>>
    BY <1>o, <1>2, <2>1 DEF Pair2Answered, card
  <2>2. CASE net.t = "ok" /\ pairing' = [i |-> net.p1, k |-> keys] /\ held' = held \cup {keys}
    <3>1. pairing'.i \in Slots /\ pairing'.k \in held' /\ slots'[pairing'.i] = pairing'.k
      BY <1>o, <1>2, <2>2 DEF Pair2Answered, CallInv, TypeOK, card
    <3> QED
      BY <3>1
  <2> QED
    BY <1>2, <2>1, <2>2 DEF Pair2Answered
<1>3. ASSUME CardPairs PROVE PairingInv'
  <2>1. CASE UNCHANGED slots
    BY <1>1, <1>3, <2>1 DEF CardPairs, host
  <2>2. ASSUME NEW s \in Slots, slots[s] = 0, slots' = [slots EXCEPT ![s] = keys + 1]
        PROVE  PairingInv'
    <3>1. UNCHANGED <<pairing, held, unpaired>>
      BY <1>3 DEF CardPairs, host
    <3>2. pairing # NoPairing => pairing.k # 0
      BY <1>o DEF TypeOK
    <3>3. pairing # NoPairing /\ pairing.k \notin unpaired => pairing.i # s
      BY <1>o, <2>2, <3>2
    <3> QED
      BY <1>o, <2>2, <3>1, <3>3 DEF TypeOK
  <2> QED
    BY <1>3, <2>1, <2>2 DEF CardPairs
<1>4. ASSUME CardUnpairs PROVE PairingInv'
  <2>1. UNCHANGED <<pairing, held, unpaired>>
    BY <1>4 DEF CardUnpairs, host
  <2>2. CASE UNCHANGED slots
    BY <1>1, <2>1, <2>2
  <2>3. CASE net.t = "unpair" /\ slots' = [slots EXCEPT ![net.p1] = 0]
    <3>1. pc \in {"unpair", "othersWait"}
      BY <1>o, <2>3 DEF CallInv, TypeOK, Answers
    <3>2. pairing.k \in unpaired \/ net.p1 # pairing.i
      BY <1>o, <2>3, <3>1 DEF CallInv
    <3> QED
      BY <1>o, <2>1, <2>3, <3>2 DEF TypeOK
  <2> QED
    BY <1>4, <2>2, <2>3 DEF CardUnpairs
<1>5. ASSUME AutoUnpair \/ UnpairOthers \/ SendFails PROVE PairingInv'
  BY <1>1, <1>5 DEF AutoUnpair, UnpairOthers, SendFails, host, card
<1>6. ASSUME AutoOpen \/ Reset \/ CardReset \/ AutoPair \/ Pair1Answered \/ UnpairAnswered
      PROVE  PairingInv'
  BY <1>1, <1>6 DEF AutoOpen, Reset, CardReset, AutoPair, Pair1Answered, UnpairAnswered, host,
     card, hist
<1>7. ASSUME OthersDone \/ OthersSkips \/ OthersSends \/ OthersAnswered PROVE PairingInv'
  BY <1>1, <1>7 DEF OthersDone, OthersSkips, OthersSends, OthersAnswered, host, card, hist
<1> HIDE DEF PairingInv
<1> QED
  BY <1>1, <1>2, <1>3, <1>4, <1>5, <1>6, <1>7 DEF Next, vars, host, card, hist

\* A slot of this client is known to it, in flight, or lost with an answer.
LEMMA SlotsStep == IInv /\ TypeOK' /\ [Next]_vars => SlotsInv'
<1> SUFFICES ASSUME IInv, TypeOK', [Next]_vars PROVE SlotsInv'
  OBVIOUS
<1> USE DEF SlotsInv
<1>o. TypeOK /\ CallInv /\ SlotsInv
  BY DEF IInv
<1>1. CASE UNCHANGED <<pc, net, slots, keys, held, dropped>>
  BY <1>o, <1>1
<1>2. CASE UNCHANGED <<slots, keys, held, dropped>> /\ ~(pc = "pair2" /\ net.t = "ok")
  BY <1>o, <1>2
<1>3. ASSUME Pair2Answered PROVE SlotsInv'
  <2>1. CASE net.t = "ok"
    <3>1. ~TransmitErrs
      BY <1>o, <1>3, <2>1 DEF Pair2Answered, TransmitErrs, CallInv
    <3>2. held' = held \cup {keys} /\ UNCHANGED <<slots, dropped>>
      BY <1>3, <2>1, <3>1 DEF Pair2Answered, card
    <3> QED
      BY <1>o, <3>2
  <2>2. CASE net.t # "ok"
    BY <1>2, <1>3, <2>2 DEF Pair2Answered, card
  <2> QED
    BY <2>1, <2>2
<1>4. ASSUME CardPairs PROVE SlotsInv'
  <2>1. CASE net.t = "pair1"
    BY <1>2, <1>4, <2>1 DEF CardPairs
  <2>2. CASE net.t = "pair2"
    <3>1. pc' = "pair2" /\ keys' = keys + 1 /\ UNCHANGED <<held, dropped>>
      BY <1>o, <1>4, <2>2 DEF CardPairs, CallInv, TypeOK, Answers
    <3>2. PICK s \in Slots : slots' = [slots EXCEPT ![s] = keys + 1] /\ net' = Message("ok", s)
      BY <1>4, <2>2 DEF CardPairs
    <3>3. net'.t = "ok"
      BY <3>2 DEF Message
    <3>4. \A r \in Slots : slots'[r] = IF r = s THEN keys + 1 ELSE slots[r]
      BY <1>o, <3>2 DEF TypeOK
    <3> QED
      BY <1>o, <2>2, <3>1, <3>3, <3>4
  <2> QED
    BY <1>4, <2>1, <2>2 DEF CardPairs
<1>5. ASSUME CardUnpairs PROVE SlotsInv'
  <2>1. ~(pc = "pair2" /\ net.t = "ok") /\ UNCHANGED <<held, dropped>>
    BY <1>5 DEF CardUnpairs
  <2>2. \A s \in Slots : slots'[s] \in {slots[s], 0}
    BY <1>o, <1>5 DEF CardUnpairs, TypeOK
  <2> QED
    BY <1>o, <2>1, <2>2
<1>6. ASSUME SendFails PROVE SlotsInv'
  <2>1. CASE pc = "pair2" /\ net.t = "ok"
    <3>1. dropped' = dropped \cup {keys} /\ UNCHANGED <<slots, held>>
      BY <1>6, <2>1 DEF SendFails, card
    <3> QED
      BY <1>o, <3>1
  <2>2. CASE ~(pc = "pair2" /\ net.t = "ok")
    BY <1>2, <1>6, <2>2 DEF SendFails, card
  <2> QED
    BY <2>1, <2>2
<1>7. ASSUME AutoOpen \/ Reset \/ CardReset \/ AutoPair \/ Pair1Answered \/ UnpairAnswered
      PROVE  SlotsInv'
  BY <1>1, <1>2, <1>7 DEF AutoOpen, Reset, CardReset, AutoPair, Pair1Answered, UnpairAnswered,
     host, card, hist
<1>8. ASSUME AutoUnpair \/ UnpairOthers \/ OthersDone \/ OthersSkips \/ OthersSends \/ OthersAnswered
      PROVE  SlotsInv'
  BY <1>2, <1>8 DEF AutoUnpair, UnpairOthers, OthersDone, OthersSkips, OthersSends,
     OthersAnswered, host, card, hist
<1> HIDE DEF SlotsInv
<1> QED
  BY <1>1, <1>3, <1>4, <1>5, <1>6, <1>7, <1>8 DEF Next, vars, host, card, hist

\* The loop of UnpairOthers misses no slot as long as the channel stays open.
LEMMA OthersStep == IInv /\ TypeOK' /\ [Next]_vars => OthersInv'
<1> SUFFICES ASSUME IInv, TypeOK', [Next]_vars PROVE OthersInv'
  OBVIOUS
<1> USE DEF OthersInv, OthersToldWhileOpen
<1>o. TypeOK /\ CallInv /\ OthersInv
  BY DEF IInv
<1>1. CASE UNCHANGED <<pairing, open, pc, i, last, told>>
  BY <1>o, <1>1
<1>2. CASE pc' \in {"idle", "pair1", "pair2", "unpair"} /\ last' # <<"UnpairOthers", TRUE>>
  BY <1>2
<1>3. ASSUME AutoOpen \/ Reset PROVE OthersInv'
  <2>1. pc' = "idle" /\ last' = <<"none", TRUE>>
    BY <1>3 DEF AutoOpen, Reset
  <2> QED
    BY <1>2, <2>1
<1>4. ASSUME CardReset PROVE OthersInv'
  <2>1. last' = <<"none", TRUE>> /\ UNCHANGED <<pairing, open, pc, i, told>>
    BY <1>4 DEF CardReset, host, hist
  <2> QED
    BY <1>o, <2>1
<1>5. ASSUME AutoPair PROVE OthersInv'
  <2>1. pc' = "pair1" /\ last' = <<"none", TRUE>>
    BY <1>5 DEF AutoPair
  <2> QED
    BY <1>2, <2>1
<1>6. ASSUME Pair1Answered PROVE OthersInv'
  <2>1. CASE Return("AutoPair", FALSE)
    <3>1. pc' = "idle" /\ last' # <<"UnpairOthers", TRUE>>
      BY <2>1, OtherReturns
    <3> QED
      BY <1>2, <3>1
  <2>2. CASE pc' = "pair2" /\ UNCHANGED last
    <3>1. last # <<"UnpairOthers", TRUE>>
      BY <1>o, <1>6 DEF Pair1Answered
    <3> QED
      BY <1>2, <2>2, <3>1
  <2> QED
    BY <1>6, <2>1, <2>2 DEF Pair1Answered
<1>7. ASSUME Pair2Answered PROVE OthersInv'
  <2>1. pc' = "idle" /\ last' # <<"UnpairOthers", TRUE>>
    BY <1>7, OtherReturns DEF Pair2Answered
  <2> QED
    BY <1>2, <2>1
<1>8. ASSUME UnpairAnswered PROVE OthersInv'
  <2>1. pc' = "idle" /\ last' # <<"UnpairOthers", TRUE>>
    BY <1>8, OtherReturns DEF UnpairAnswered
  <2> QED
    BY <1>2, <2>1
<1>9. ASSUME AutoUnpair PROVE OthersInv'
  <2>1. CASE Return("AutoUnpair", FALSE)
    <3>1. pc' = "idle" /\ last' # <<"UnpairOthers", TRUE>>
      BY <2>1, OtherReturns
    <3> QED
      BY <1>2, <3>1
  <2>2. CASE pc' = "unpair" /\ last' = <<"none", TRUE>>
    BY <1>2, <2>2
  <2> QED
    BY <1>9, <2>1, <2>2 DEF AutoUnpair
<1>10. ASSUME UnpairOthers PROVE OthersInv'
  <2>1. /\ pc' = "others" /\ i' = 0 /\ told' = {}
        /\ last' = <<"none", TRUE>>
    BY <1>10 DEF UnpairOthers
  <2> QED
    BY <2>1 DEF Slots
<1>11. ASSUME OthersDone PROVE OthersInv'
  <2>1. /\ pc' = "idle" /\ UNCHANGED <<pairing, open, told>>
    BY <1>11 DEF OthersDone, Return, host, hist
  <2>2. open => told = Slots \ {pairing.i}
    BY <1>o, <1>11 DEF OthersDone, Slots
  <2> QED
    BY <2>1, <2>2
<1>12. ASSUME OthersSkips PROVE OthersInv'
  <2>1. /\ pc = "others" /\ i = pairing.i /\ i' = i + 1
        /\ UNCHANGED <<pairing, open, pc, last, told>>
    BY <1>12 DEF OthersSkips, host, hist
  <2>2. \A s \in Slots \ {pairing.i} : s < i + 1 => s < i
    BY <1>o, <2>1 DEF Slots, TypeOK
  <2> QED
    BY <1>o, <2>1, <2>2
<1>13. ASSUME OthersSends PROVE OthersInv'
  <2>1. CASE Return("UnpairOthers", FALSE)
    <3>1. pc' = "idle" /\ last' = <<"UnpairOthers", FALSE>>
      BY <2>1, ReturnFacts
    <3>2. last' # <<"UnpairOthers", TRUE>>
      BY <3>1
    <3> QED
      BY <1>2, <3>1, <3>2
  <2>2. CASE pc' = "othersWait" /\ UNCHANGED last
    <3>1. pc = "others" /\ UNCHANGED <<pairing, open, i, told>>
      BY <1>13 DEF OthersSends, host, hist
    <3> QED
      BY <1>o, <2>2, <3>1
  <2> QED
    BY <1>13, <2>1, <2>2 DEF OthersSends
<1>14. ASSUME OthersAnswered PROVE OthersInv'
  <2>1. CASE Return("UnpairOthers", FALSE)
    <3>1. pc' = "idle" /\ last' = <<"UnpairOthers", FALSE>>
      BY <2>1, ReturnFacts
    <3>2. last' # <<"UnpairOthers", TRUE>>
      BY <3>1
    <3> QED
      BY <1>2, <3>1, <3>2
  <2>2. CASE pc' = "others" /\ i' = i + 1 /\ UNCHANGED last
    <3>1. pc = "othersWait" /\ UNCHANGED <<pairing, told>> /\ net.t \in Answers
      BY <1>14 DEF OthersAnswered, hist
    <3>2. open' => open /\ net.t = "ok"
      BY <1>14, <3>1 DEF OthersAnswered, OpenAfter, TransmitErrs, Answers
    <3>3. open' => i \in told
      BY <1>o, <3>1, <3>2 DEF CallInv
    <3>4. \A s \in Slots : s < i + 1 => s < i \/ s = i
      BY <1>o DEF Slots, TypeOK
    <3> QED
      BY <1>o, <2>2, <3>1, <3>2, <3>3, <3>4
  <2> QED
    BY <1>14, <2>1, <2>2 DEF OthersAnswered
<1>15. ASSUME CardUnpairs PROVE OthersInv'
  <2>1. /\ pc \in {"unpair", "othersWait"}
        /\ UNCHANGED <<pairing, open, pc, i, last>>
    BY <1>o, <1>15 DEF CardUnpairs, CallInv, TypeOK, Answers, host
  <2>2. told \subseteq told' /\ told' \subseteq told \cup {net.p1}
    BY <1>15 DEF CardUnpairs
  <2>3. pc = "othersWait" => net.p1 \in Slots \ {pairing.i}
    BY <1>o, <1>15 DEF CardUnpairs, CallInv
  <2> QED
    BY <1>o, <2>1, <2>2, <2>3
<1> HIDE DEF OthersInv
<1> QED
  BY <1>1, <1>3, <1>4, <1>5, <1>6, <1>7, <1>8, <1>9, <1>10, <1>11, <1>12, <1>13, <1>14, <1>15
  DEF Next, CardPairs, SendFails, vars, host, card, hist

\* The initial states satisfy the invariant.
LEMMA InitInv == Init => IInv
<1> SUFFICES ASSUME Init PROVE IInv
  OBVIOUS
<1>1. TypeOK
  BY TypeInit
<1>2. CallInv
  BY NoMessageType DEF Init, CallInv
<1>3. PairingInv
  BY DEF Init, PairingInv, PairingBacked
<1>4. SlotsInv
  BY DEF Init, SlotsInv, Other
<1>5. last # <<"UnpairOthers", TRUE>>
  BY DEF Init
<1>6. OthersInv
  BY <1>5 DEF Init, OthersInv, OthersToldWhileOpen
<1> QED
  BY <1>1, <1>2, <1>3, <1>4, <1>6 DEF IInv

\* Every step preserves it.
LEMMA Inductive == IInv /\ [Next]_vars => IInv'
<1> SUFFICES ASSUME IInv, [Next]_vars PROVE IInv'
  OBVIOUS
<1>1. TypeOK'
  BY TypeStep
<1> QED
  BY <1>1, CallStep, PairingStep, SlotsStep, OthersStep DEF IInv

-----------------------------------------------------------------------------
(* The theorems *)

\* The inductive invariant holds of every instance.
THEOREM Invariance == Spec => []IInv
  BY InitInv, Inductive, PTL DEF Spec

\* Every reachable state is typed.
THEOREM TypeCorrect == Spec => []TypeOK
<1>1. IInv => TypeOK
  BY DEF IInv
<1> QED
  BY <1>1, Invariance, PTL

\* The card keeps the client's pairing until the client unpairs itself, for any
\* number of slots and whatever is lost in between.
THEOREM PairingSafety == Spec => []PairingBacked
<1>1. IInv => PairingBacked
  BY DEF IInv, PairingInv
<1> QED
  BY <1>1, Invariance, PTL

\* A slot is lost to this client only with the answer to PAIR's second step.
THEOREM SlotSafety == Spec => []SlotLostOnlyWithAnswer
<1>1. IInv => SlotLostOnlyWithAnswer
  BY DEF IInv, SlotsInv, SlotLostOnlyWithAnswer
<1> QED
  BY <1>1, Invariance, PTL

\* UnpairOthers that returns nil on an open channel has asked the card to free
\* every slot but the client's own.
THEOREM OthersSafety == Spec => []OthersToldWhileOpen
<1>1. IInv => OthersToldWhileOpen
  BY DEF IInv, OthersInv
<1> QED
  BY <1>1, Invariance, PTL

=============================================================================
