----------------------- MODULE SecureChannelV2_proofs -----------------------
(***************************************************************************)
(* Theorems about SecureChannelV2, for every set of commands and           *)
(* identities, every width of the nonce counter and every number of        *)
(* handshakes.                                                             *)
(***************************************************************************)
EXTENDS SecureChannelV2, TLAPS

USE ConstantsAssumption

(***************************************************************************)
(* Typing of the data the actions build.                                   *)
(***************************************************************************)

\* The constructors build members of the sets TypeOK names.
LEMMA EntryType ==
    ASSUME NEW s \in 0..MaxHandshakes, NEW n \in Nonces, NEW c \in Commands \cup {None}
    PROVE  /\ Entry(s, n, c) \in Entries
           /\ Entry(s, n, c).s = s
           /\ Entry(s, n, c).n = n
           /\ Entry(s, n, c).c = c
BY DEF Entry, Entries

LEMMA MessageType ==
    ASSUME NEW t \in Requests \cup Answers \cup {"none"}, NEW e \in Entries,
           NEW id \in Idents \cup {None}
    PROVE  /\ Message(t, e, id) \in Messages
           /\ Message(t, e, id).t = t
           /\ Message(t, e, id).e = e
           /\ Message(t, e, id).id = id
BY DEF Message, Messages

LEMMA NoEntryType == NoEntry \in Entries /\ 0 \in Nonces
<1>1. 0 \in Nonces /\ 0 \in 0..MaxHandshakes
  BY DEF Nonces
<1> QED
  BY <1>1, EntryType DEF NoEntry

LEMMA BareType ==
    ASSUME NEW t \in Requests \cup Answers \cup {"none"}
    PROVE  Bare(t) \in Messages /\ Bare(t).t = t
BY NoEntryType, MessageType DEF Bare

LEMMA NoMessageType == NoMessage \in Messages /\ NoMessage.t = "none"
BY NoEntryType, MessageType DEF NoMessage

\* The counter stays within its width, and is one more unless it wraps.
LEMMA IncrementedType ==
    ASSUME NEW n \in Nonces
    PROVE  /\ Incremented(n) \in Nonces
           /\ Incremented(n) # 0 => Incremented(n) = n + 1
BY DEF Incremented, Nonces

(***************************************************************************)
(* Type correctness.                                                       *)
(***************************************************************************)

LEMMA TypeInit == Init => TypeOK
<1> SUFFICES ASSUME Init PROVE TypeOK
  OBVIOUS
<1>1. 0 \in Nonces /\ 0 \in 0..MaxHandshakes
  BY NoEntryType
<1> QED
  BY <1>1, NoMessageType DEF Init, TypeOK

\* One step per action; each changes few of the variables.
LEMMA TypeStep == TypeOK /\ [Next]_vars => TypeOK'
<1> SUFFICES ASSUME TypeOK, [Next]_vars PROVE TypeOK'
  OBVIOUS
<1> USE DEF TypeOK
<1>a. 0 \in Nonces /\ 0 \in 0..MaxHandshakes
  BY NoEntryType
<1>b. wire.e \in Entries /\ net.e \in Entries /\ net.t \in Requests \cup Answers \cup {"none"}
  BY DEF Messages
<1>1. ASSUME Reset PROVE TypeOK'
  BY <1>1, <1>a DEF Reset, call, card
<1>2. ASSUME NEW id \in Idents, SetCardCertificate(id) PROVE TypeOK'
  BY <1>2 DEF SetCardCertificate, call, card
<1>3. ASSUME AutoOpen PROVE TypeOK'
  <2>1. handshakes + 1 \in 0..MaxHandshakes
    BY <1>3 DEF AutoOpen
  <2>2. Entry(handshakes + 1, 0, None) \in Entries
    BY <2>1, <1>a, EntryType
  <2>3. net' \in Messages
    BY <1>3, <2>2, MessageType DEF AutoOpen, Requests
  <2> QED
    BY <1>3, <2>1, <2>3 DEF AutoOpen, card
<1>4. ASSUME AutoOpenFails PROVE TypeOK'
  BY <1>4, NoMessageType DEF AutoOpenFails, host, card, hist
<1>5. ASSUME processHandshakeResponse PROVE TypeOK'
  <2>1. /\ key' \in 0..MaxHandshakes
        /\ nonceCounter' \in Nonces
        /\ open' \in BOOLEAN
        /\ established' \in BOOLEAN
        /\ peer' \in Idents \cup {None}
    BY <1>5, <1>a DEF processHandshakeResponse, Messages
  <2> QED
    BY <1>5, <2>1, NoMessageType DEF processHandshakeResponse, card
<1>6. ASSUME NEW c \in Commands, ProtectedCommand(c) PROVE TypeOK'
  <2>1. CASE ~open
    <3>1. Entry(0, 0, c) \in Entries
      BY <1>a, EntryType
    <3>2. wire' = Message("plain", Entry(0, 0, c), None)
      BY <1>6, <2>1 DEF ProtectedCommand
    <3>3. wire' \in Messages
      BY <3>1, <3>2, MessageType DEF Requests
    <3> QED
      BY <1>6, <2>1, <3>3 DEF ProtectedCommand, host, card
  <2>2. CASE open
    <3>1. Entry(key, nonceCounter, c) \in Entries
      BY EntryType
    <3>2. wire' \in Messages /\ wire'.e \in Entries
      BY <1>6, <2>2, <3>1, MessageType DEF ProtectedCommand, Requests
    <3> QED
      BY <1>6, <2>2, <3>2 DEF ProtectedCommand, host, card
  <2> QED
    BY <2>1, <2>2
<1>7. ASSUME Transmit PROVE TypeOK'
  BY <1>7 DEF Transmit, host, card, hist
<1>8. ASSUME TransmitFails PROVE TypeOK'
  BY <1>8, NoMessageType DEF TransmitFails, Returns, card
<1>9. ASSUME TransmitRaw PROVE TypeOK'
  BY <1>9, NoMessageType DEF TransmitRaw, Returns, card
<1>10. ASSUME TransmitDecrypts PROVE TypeOK'
  <2>1. nonceCounter' \in Nonces /\ open' \in BOOLEAN
    BY <1>10, IncrementedType DEF TransmitDecrypts, incrementNonce
  <2>2. accepted' \subseteq [req : Entries, ans : Entries]
    BY <1>10, <1>b DEF TransmitDecrypts
  <2> QED
    BY <1>10, <2>1, <2>2, NoMessageType DEF TransmitDecrypts, Returns, card
<1>11. ASSUME TransmitRejects PROVE TypeOK'
  BY <1>11, NoMessageType DEF TransmitRejects, Returns, card
<1>12. ASSUME CardOpens PROVE TypeOK'
  <2>1. net.e.s \in 0..MaxHandshakes
    BY <1>b DEF Entries
  <2>2. net' \in Messages
    BY <1>12, <1>b, MessageType DEF CardOpens, Answers
  <2>3. signed' \subseteq (0..MaxHandshakes) \X Idents
    <3>1. <<net.e.s, slot>> \in (0..MaxHandshakes) \X Idents
      BY <2>1
    <3>2. signed' = signed \cup {<<net.e.s, slot>>}
      BY <1>12 DEF CardOpens
    <3>3. signed \subseteq (0..MaxHandshakes) \X Idents
      OBVIOUS
    <3> HIDE DEF TypeOK
    <3> QED
      BY <3>1, <3>2, <3>3, Zenon
  <2> QED
    BY <1>12, <1>a, <2>1, <2>2, <2>3 DEF CardOpens, host
<1>13. ASSUME CardExecutes PROVE TypeOK'
  <2>1. net' \in Messages
    BY <1>13, <1>b, MessageType DEF CardExecutes, Answers
  <2>2. cardNonce' \in Nonces /\ cardKey' \in 0..MaxHandshakes
    BY <1>13, <1>a, IncrementedType DEF CardExecutes
  <2> QED
    BY <1>13, <1>b, <2>1, <2>2 DEF CardExecutes, host
<1>14. ASSUME CardRefuses PROVE TypeOK'
  BY <1>14, <1>a, BareType DEF CardRefuses, host, hist, Answers
<1>15. ASSUME CardAnswersPlain PROVE TypeOK'
  <2>1. net' \in Messages
    <3>1. Message("plainAnswer", net.e, None) \in Messages
      BY <1>b, MessageType DEF Answers
    <3>2. Bare("refused") \in Messages
      BY BareType DEF Answers
    <3> QED
      BY <1>15, <3>1, <3>2 DEF CardAnswersPlain
  <2> QED
    BY <1>15, <2>1 DEF CardAnswersPlain, host, card, hist
<1>16. ASSUME NEW id \in Idents, CardReset(id) PROVE TypeOK'
  BY <1>16, <1>a DEF CardReset, host, call, hist
<1>17. ASSUME SendFails PROVE TypeOK'
  BY <1>17, BareType DEF SendFails, host, card, hist, Answers
<1>18. ASSUME AnswerDamaged PROVE TypeOK'
  BY <1>18, BareType DEF AnswerDamaged, host, card, hist, Answers
<1>19. ASSUME AnswerRepeated PROVE TypeOK'
  <2>1. ASSUME NEW e \in executed, net' = Message("answer", e, None) PROVE net' \in Messages
    BY <2>1, MessageType DEF Answers
  <2>2. ASSUME NEW g \in signed, net' = Message("signature", Entry(g[1], 0, None), g[2])
        PROVE  net' \in Messages
    <3>1. g[1] \in 0..MaxHandshakes /\ g[2] \in Idents
      BY DEF Handshakes
    <3>2. Entry(g[1], 0, None) \in Entries
      BY <3>1, <1>a, EntryType
    <3> QED
      BY <2>2, <3>1, <3>2, MessageType DEF Answers
  <2> QED
    BY <1>19, <2>1, <2>2 DEF AnswerRepeated, host, card, hist
<1>20. ASSUME UNCHANGED vars PROVE TypeOK'
  BY <1>20 DEF vars, host, call, card, hist
<1> QED
  BY <1>1, <1>2, <1>3, <1>4, <1>5, <1>6, <1>7, <1>8, <1>9, <1>10, <1>11, <1>12,
     <1>13, <1>14, <1>15, <1>16, <1>17, <1>18, <1>19, <1>20
     DEF Next, Client, Library, Card, Environment, NewSecureChannelV2

\* Every reachable state is typed.
THEOREM TypeCorrect == Spec => []TypeOK
  BY TypeInit, TypeStep, PTL DEF Spec

(***************************************************************************)
(* The inductive invariant, conjunct by conjunct.  Each lemma has one case *)
(* for the steps that leave the conjunct's variables alone and one step    *)
(* for every action that can disturb it.                                   *)
(***************************************************************************)

\* Sessions are numbered by the handshake counter.
LEMMA NumberedStep == IInv /\ TypeOK' /\ [Next]_vars => NumberedInv'
<1> SUFFICES ASSUME IInv, TypeOK', [Next]_vars PROVE NumberedInv'
  OBVIOUS
<1> USE DEF IInv, NumberedInv, TypeOK
<1>1. CASE /\ UNCHANGED <<issued, signed, handshakes>>
           /\ key' \in {key, 0} /\ cardKey' \in {cardKey, 0}
           /\ pc' = "opening" => pc = "opening"
  BY <1>1
<1>2. ASSUME AutoOpen PROVE NumberedInv'
  BY <1>2 DEF AutoOpen, card
<1>3. ASSUME processHandshakeResponse PROVE NumberedInv'
  BY <1>3 DEF processHandshakeResponse, card
<1>4. ASSUME NEW c \in Commands, ProtectedCommand(c) PROVE NumberedInv'
  BY <1>4 DEF ProtectedCommand, OpenInv, host, card, Entry, Message
<1>5. ASSUME CardOpens PROVE NumberedInv'
  BY <1>5 DEF CardOpens, NetInv, host, Entry
<1> QED
  BY <1>1, <1>2, <1>3, <1>4, <1>5
  DEF Next, Client, Library, Card, Environment, NewSecureChannelV2, Reset,
      SetCardCertificate, AutoOpen, AutoOpenFails, processHandshakeResponse,
      ProtectedCommand, Transmit, TransmitFails, TransmitRaw, TransmitDecrypts,
      TransmitRejects, Returns, CardOpens, CardExecutes, CardRefuses,
      CardAnswersPlain, CardReset, SendFails, AnswerDamaged, AnswerRepeated,
      vars, host, call, card, hist

\* An open channel has keys and seals under its current nonce.
LEMMA OpenStep == IInv /\ TypeOK' /\ [Next]_vars => OpenInv'
<1> SUFFICES ASSUME IInv, TypeOK', [Next]_vars PROVE OpenInv'
  OBVIOUS
<1> USE DEF IInv, OpenInv
<1>1. CASE /\ UNCHANGED <<open, key, nonceCounter, wire, issued>>
           /\ Calling' => Calling
           /\ pc' = "opening" => pc = "opening"
  BY <1>1
<1>2. CASE pc' = "idle" /\ (open' => key' # 0)
  BY <1>2 DEF Calling
<1>3. ASSUME AutoOpen PROVE OpenInv'
  BY <1>3 DEF AutoOpen, Calling
<1>4. ASSUME NEW c \in Commands, ProtectedCommand(c) PROVE OpenInv'
  BY <1>4 DEF ProtectedCommand, Calling, host, Entry, Message
<1> QED
  BY <1>1, <1>2, <1>3, <1>4
  DEF Next, Client, Library, Card, Environment, NewSecureChannelV2, Reset,
      SetCardCertificate, AutoOpen, AutoOpenFails, processHandshakeResponse,
      ProtectedCommand, Transmit, TransmitFails, TransmitRaw, TransmitDecrypts,
      TransmitRejects, Returns, CardOpens, CardExecutes, CardRefuses,
      CardAnswersPlain, CardReset, SendFails, AnswerDamaged, AnswerRepeated,
      vars, host, call, card, hist, Calling, NumberedInv, TypeOK

\* What the reader holds fits the call in progress.
LEMMA NetStep == IInv /\ TypeOK' /\ [Next]_vars => NetInv'
<1> SUFFICES ASSUME IInv, TypeOK', [Next]_vars PROVE NetInv'
  OBVIOUS
<1> USE DEF IInv, NetInv
<1>1. CASE net' = NoMessage
  BY <1>1, NoMessageType
<1>2. CASE UNCHANGED <<pc, net, handshakes, wire, executed, signed>>
  BY <1>2
<1>3. CASE /\ UNCHANGED <<pc, wire, handshakes, executed, signed>>
           /\ pc \notin {"idle", "built"}
           /\ net'.t \in {"plainAnswer", "garbled", "refused", "error"}
  BY <1>3
<1>4. ASSUME AutoOpen PROVE NetInv'
  BY <1>4 DEF AutoOpen, Entry, Message
<1>5. ASSUME Transmit PROVE NetInv'
  BY <1>5 DEF Transmit, OpenInv, Calling, host, card, hist
<1>6. ASSUME CardOpens PROVE NetInv'
  BY <1>6 DEF CardOpens, host, Message
<1>7. ASSUME CardExecutes PROVE NetInv'
  BY <1>7, NoMessageType DEF CardExecutes, host, Message
<1>8. ASSUME AnswerRepeated PROVE NetInv'
  <2>1. pc \notin {"idle", "built"} /\ UNCHANGED <<pc, wire, executed, signed, handshakes>>
    BY <1>8 DEF AnswerRepeated, host, card, hist, NoMessage, Bare, Message, Requests, Answers
  <2>2. CASE \E e \in executed : net' = Message("answer", e, None)
    BY <2>1, <2>2 DEF Message
  <2>3. CASE \E g \in signed : net' = Message("signature", Entry(g[1], 0, None), g[2])
    <3>1. PICK g \in signed : net' = Message("signature", Entry(g[1], 0, None), g[2])
      BY <2>3
    <3>2. g = <<g[1], g[2]>>
      BY DEF TypeOK
    <3>3. net'.t = "signature" /\ net'.e.s = g[1] /\ net'.id = g[2]
      BY <3>1 DEF Message, Entry
    <3> QED
      BY <2>1, <3>2, <3>3
  <2> QED
    BY <1>8, <2>2, <2>3 DEF AnswerRepeated
<1> QED
  BY <1>1, <1>2, <1>3, <1>4, <1>5, <1>6, <1>7, <1>8
  DEF Next, Client, Library, Card, Environment, NewSecureChannelV2, Reset,
      SetCardCertificate, AutoOpen, AutoOpenFails, processHandshakeResponse,
      ProtectedCommand, Transmit, TransmitFails, TransmitRaw, TransmitDecrypts,
      TransmitRejects, Returns, CardOpens, CardExecutes, CardRefuses,
      CardAnswersPlain, CardReset, SendFails, AnswerDamaged, AnswerRepeated,
      vars, host, call, card, hist, NoMessage, Bare, Message, Requests, Answers

\* The verdict is about the identity in place, and AutoOpen is called with it.
LEMMA VettedStep == IInv /\ TypeOK' /\ [Next]_vars => VettedInv'
<1> SUFFICES ASSUME IInv, TypeOK', [Next]_vars PROVE VettedInv'
  OBVIOUS
<1> USE DEF IInv, VettedInv
<1>1. CASE /\ UNCHANGED <<cardIdentPub, vetted, overridden>>
           /\ pc' = "opening" => pc = "opening"
  BY <1>1
<1>2. ASSUME Reset PROVE VettedInv'
  BY <1>2 DEF Reset, call
<1>3. ASSUME NEW id \in Idents, SetCardCertificate(id) PROVE VettedInv'
  BY <1>3 DEF SetCardCertificate, call
<1>4. ASSUME AutoOpen PROVE VettedInv'
  BY <1>4 DEF AutoOpen
<1>5. ASSUME processHandshakeResponse PROVE VettedInv'
  BY <1>5 DEF processHandshakeResponse
<1> QED
  BY <1>1, <1>2, <1>3, <1>4, <1>5
  DEF Next, Client, Library, Card, Environment, NewSecureChannelV2, Reset,
      SetCardCertificate, AutoOpen, AutoOpenFails, processHandshakeResponse,
      ProtectedCommand, Transmit, TransmitFails, TransmitRaw, TransmitDecrypts,
      TransmitRejects, Returns, CardOpens, CardExecutes, CardRefuses,
      CardAnswersPlain, CardReset, SendFails, AnswerDamaged, AnswerRepeated,
      vars, host, call, card, hist

\* A fresh entry is above every other of its session.
LEMMA NonceStep == IInv /\ TypeOK' /\ [Next]_vars => NonceNeverReused'
<1> SUFFICES ASSUME IInv, TypeOK', [Next]_vars PROVE NonceNeverReused'
  OBVIOUS
<1> USE DEF IInv, NonceNeverReused
<1>1. CASE UNCHANGED issued
  BY <1>1
<1>2. ASSUME NEW c \in Commands, ProtectedCommand(c) PROVE NonceNeverReused'
  <2>1. CASE ~open
    BY <1>2, <2>1 DEF ProtectedCommand
  <2>2. CASE open
    <3> DEFINE w == Entry(key, nonceCounter, c)
    <3>1. issued' = issued \cup {w} /\ w.s = key /\ w.n = nonceCounter
      BY <1>2, <2>2 DEF ProtectedCommand, Entry, Message
    <3>2. \A e \in issued : e.s = key => e.n < nonceCounter
      BY <1>2, <2>2 DEF ProtectedCommand, CounterInv, Calling
    <3>3. \A e \in issued : ~(e.s = w.s /\ e.n = w.n)
      BY <3>1, <3>2 DEF TypeOK, Nonces
    <3> HIDE DEF w
    <3> QED
      BY <3>1, <3>3
  <2> QED
    BY <2>1, <2>2
<1> QED
  BY <1>1, <1>2
  DEF Next, Client, Library, Card, Environment, NewSecureChannelV2, Reset,
      SetCardCertificate, AutoOpen, AutoOpenFails, processHandshakeResponse,
      ProtectedCommand, Transmit, TransmitFails, TransmitRaw, TransmitDecrypts,
      TransmitRejects, Returns, CardOpens, CardExecutes, CardRefuses,
      CardAnswersPlain, CardReset, SendFails, AnswerDamaged, AnswerRepeated,
      vars, host, call, card, hist

\* What Transmit decrypts is the answer to the command it sent: the frame it
\* matches is the only one issued under this key and nonce.
LEMMA DecryptedOwnAnswer ==
    ASSUME IInv, TransmitDecrypts
    PROVE  net.e = wire.e /\ wire.e \in executed /\ wire.e.n = nonceCounter
<1>1. /\ net.e \in executed
      /\ net.e.s = key /\ net.e.n = nonceCounter
  BY DEF TransmitDecrypts, decryptCCM, IInv, NetInv
<1>2. wire.e \in issued /\ wire.e.s = key /\ wire.e.n = nonceCounter
  BY DEF TransmitDecrypts, Returns, IInv, OpenInv, Calling
<1> QED
  BY <1>1, <1>2 DEF IInv, CardInv, NonceNeverReused

\* Everything issued in the open session is answered, but the call in progress.
LEMMA CounterStep == IInv /\ TypeOK' /\ [Next]_vars => CounterInv'
<1> SUFFICES ASSUME IInv, TypeOK', [Next]_vars PROVE CounterInv'
  OBVIOUS
<1> USE DEF IInv, CounterInv
<1>1. CASE /\ UNCHANGED <<open, key, nonceCounter, issued, accepted, wire>>
           /\ Calling => Calling'
  BY <1>1
<1>2. CASE ~open'
  BY <1>2
<1>3. ASSUME processHandshakeResponse PROVE CounterInv'
  <2>1. ~open /\ \A e \in issued : e.s < handshakes
    BY <1>3 DEF processHandshakeResponse, OpenInv, NumberedInv
  <2>2. open' => key' = handshakes
    BY <1>3, <2>1 DEF processHandshakeResponse
  <2>3. \A e \in issued : e.s # handshakes
    BY <2>1 DEF TypeOK, Entries
  <2> QED
    BY <1>3, <2>2, <2>3 DEF processHandshakeResponse
<1>4. ASSUME NEW c \in Commands, ProtectedCommand(c) PROVE CounterInv'
  BY <1>4 DEF ProtectedCommand, Calling, host, Message
<1>5. ASSUME TransmitDecrypts PROVE CounterInv'
  <2>1. net.e = wire.e /\ wire.e.n = nonceCounter /\ open
    BY <1>5, DecryptedOwnAnswer DEF TransmitDecrypts
  <2>2. open' => nonceCounter' = nonceCounter + 1
    BY <1>5, IncrementedType DEF TransmitDecrypts, incrementNonce, TypeOK
  <2>3. /\ accepted' = accepted \cup {[req |-> wire.e, ans |-> wire.e]}
        /\ key' = key /\ issued' = issued
    BY <1>5, <2>1 DEF TransmitDecrypts, Returns
  <2>4. ASSUME open', NEW e \in issued, e.s = key
        PROVE  e.n < nonceCounter' /\ [req |-> e, ans |-> e] \in accepted'
    <3>1. CASE e = wire.e
      BY <2>1, <2>2, <2>3, <2>4, <3>1 DEF TypeOK, Nonces
    <3>2. CASE e # wire.e
      BY <2>1, <2>2, <2>3, <2>4, <3>2 DEF TypeOK, Nonces, Entries
    <3> QED
      BY <3>1, <3>2
  <2> QED
    BY <2>3, <2>4
<1> QED
  BY <1>1, <1>2, <1>3, <1>4, <1>5
  DEF Next, Client, Library, Card, Environment, NewSecureChannelV2, Reset,
      SetCardCertificate, AutoOpen, AutoOpenFails, processHandshakeResponse,
      ProtectedCommand, Transmit, TransmitFails, TransmitRaw, TransmitDecrypts,
      TransmitRejects, Returns, CardOpens, CardExecutes, CardRefuses,
      CardAnswersPlain, CardReset, SendFails, AnswerDamaged, AnswerRepeated,
      vars, host, call, card, hist, OpenInv, Calling

\* The card stays behind the host by one answer at most.
LEMMA CardStep == IInv /\ TypeOK' /\ [Next]_vars => CardInv'
<1> SUFFICES ASSUME IInv, TypeOK', [Next]_vars PROVE CardInv'
  OBVIOUS
<1> USE DEF IInv, CardInv
<1>1. CASE UNCHANGED <<open, key, nonceCounter, pc, wire, cardKey, cardNonce,
                       handshakes, issued, executed>>
  BY <1>1 DEF Calling
<1>2. CASE /\ UNCHANGED <<cardKey, cardNonce, issued, executed>>
           /\ ~open' /\ pc' # "opening"
  BY <1>2
<1>3. CASE /\ UNCHANGED <<open, key, pc, handshakes, issued, executed>>
           /\ cardKey' = 0
  BY <1>3 DEF NumberedInv, OpenInv, TypeOK
<1>4. ASSUME AutoOpen PROVE CardInv'
  BY <1>4 DEF AutoOpen, NumberedInv, TypeOK, card
<1>5. ASSUME processHandshakeResponse PROVE CardInv'
  BY <1>5 DEF processHandshakeResponse, OpenInv, Calling, card
<1>6. ASSUME NEW c \in Commands, ProtectedCommand(c) PROVE CardInv'
  <2>1. CASE ~open
    BY <1>6, <2>1 DEF ProtectedCommand, host, card
  <2>2. CASE open
    <3>1. wire'.e.s = key /\ wire'.e.n = nonceCounter /\ issued \subseteq issued'
      BY <1>6, <2>2 DEF ProtectedCommand, Entry, Message
    <3>2. cardKey = key => cardNonce = nonceCounter
      BY <1>6, <2>2 DEF ProtectedCommand
    <3>3. cardKey = key => wire'.e \notin executed
      BY <3>1, <3>2 DEF TypeOK, Nonces
    <3> QED
      BY <1>6, <2>2, <3>1, <3>2, <3>3 DEF ProtectedCommand, host, card
  <2> QED
    BY <2>1, <2>2
<1>7. ASSUME Transmit PROVE CardInv'
  BY <1>7 DEF Transmit, Calling, host, card, hist
<1>8. ASSUME TransmitDecrypts PROVE CardInv'
  <2>1. wire.e \in executed /\ Calling /\ open
    BY <1>8, DecryptedOwnAnswer DEF TransmitDecrypts, Returns, Calling
  <2>2. cardKey = key => cardNonce = nonceCounter + 1
    BY <2>1
  <2>3. open' => nonceCounter' = nonceCounter + 1
    BY <1>8, IncrementedType DEF TransmitDecrypts, incrementNonce, TypeOK
  <2> QED
    BY <1>8, <2>2, <2>3 DEF TransmitDecrypts, Returns, card, Calling
<1>9. ASSUME CardOpens PROVE CardInv'
  BY <1>9 DEF CardOpens, NetInv, OpenInv, NumberedInv, TypeOK, host, Entry
<1>10. ASSUME CardExecutes PROVE CardInv'
  <2>1. pc = "sent" /\ net = wire /\ net.e \in issued
    BY <1>10 DEF CardExecutes, NetInv, OpenInv, Calling, NoMessage, Bare, Message, TypeOK
  <2>2. /\ executed' = executed \cup {net.e} /\ issued' = issued
        /\ net.e.s = cardKey /\ net.e.n = cardNonce /\ cardKey # 0
        /\ UNCHANGED <<open, key, nonceCounter, pc, wire, handshakes>>
    BY <1>10 DEF CardExecutes, host
  <2>3. (cardKey' = cardKey /\ cardNonce' = cardNonce + 1) \/ cardKey' = 0
    BY <1>10, IncrementedType DEF CardExecutes, TypeOK
  <2>4. \A e \in executed' : e.s # 0
    BY <2>1, <2>2 DEF NumberedInv, TypeOK
  <2>5. ASSUME NEW e \in executed', e.s = cardKey' PROVE e.n < cardNonce'
    BY <2>2, <2>3, <2>4, <2>5 DEF TypeOK, Entries, Nonces
  <2>6. open /\ cardKey = key => wire.e.n = nonceCounter
    BY <2>1 DEF OpenInv, Calling
  <2> QED
    BY <2>1, <2>2, <2>3, <2>5, <2>6 DEF OpenInv, TypeOK
<1>11. ASSUME Reset \/ AutoOpenFails \/ TransmitFails \/ TransmitRaw \/ TransmitRejects PROVE CardInv'
  BY <1>11, <1>2
  DEF Reset, AutoOpenFails, TransmitFails, TransmitRaw, TransmitRejects, Returns,
      OpenInv, host, call, card, hist
<1> HIDE DEF IInv, CardInv
<1> QED
  BY <1>1, <1>2, <1>3, <1>4, <1>5, <1>6, <1>7, <1>8, <1>9, <1>10, <1>11
  DEF Next, Client, Library, Card, Environment, NewSecureChannelV2, Reset,
      SetCardCertificate, AutoOpen, processHandshakeResponse,
      ProtectedCommand, Transmit, TransmitDecrypts,
      Returns, CardOpens, CardExecutes, CardRefuses,
      CardAnswersPlain, CardReset, SendFails, AnswerDamaged, AnswerRepeated,
      vars, host, call, card, hist

\* Transmit decrypts only the answer to its own command.
LEMMA AnswersStep == IInv /\ TypeOK' /\ [Next]_vars => AnswersOwnCommand'
<1> SUFFICES ASSUME IInv, TypeOK', [Next]_vars PROVE AnswersOwnCommand'
  OBVIOUS
<1> USE DEF IInv, AnswersOwnCommand
<1>1. CASE UNCHANGED accepted
  BY <1>1
<1>2. ASSUME TransmitDecrypts PROVE AnswersOwnCommand'
  BY <1>2, DecryptedOwnAnswer DEF TransmitDecrypts
<1> QED
  BY <1>1, <1>2
  DEF Next, Client, Library, Card, Environment, NewSecureChannelV2, Reset,
      SetCardCertificate, AutoOpen, AutoOpenFails, processHandshakeResponse,
      ProtectedCommand, Transmit, TransmitFails, TransmitRaw, TransmitDecrypts,
      TransmitRejects, Returns, CardOpens, CardExecutes, CardRefuses,
      CardAnswersPlain, CardReset, SendFails, AnswerDamaged, AnswerRepeated,
      vars, host, call, card, hist

\* A session goes on only when its last command was answered.
LEMMA OnlyLastStep == IInv /\ TypeOK' /\ [Next]_vars => OnlyLastInDoubt'
<1> SUFFICES ASSUME IInv, TypeOK', [Next]_vars PROVE OnlyLastInDoubt'
  OBVIOUS
<1> USE DEF IInv, OnlyLastInDoubt
<1>1. CASE UNCHANGED issued /\ accepted \subseteq accepted'
  BY <1>1
<1>2. ASSUME NEW c \in Commands, ProtectedCommand(c) PROVE OnlyLastInDoubt'
  <2>1. CASE ~open
    BY <1>2, <2>1 DEF ProtectedCommand
  <2>2. CASE open
    <3> DEFINE w == Entry(key, nonceCounter, c)
    <3>1. issued' = issued \cup {w} /\ w.s = key /\ w.n = nonceCounter /\ accepted' = accepted
      BY <1>2, <2>2 DEF ProtectedCommand, Entry, Message
    <3>2. \A e \in issued : e.s = key => e.n < nonceCounter
      BY <1>2, <2>2 DEF ProtectedCommand, CounterInv, Calling
    <3>3. \A e \in issued : e.s = key => [req |-> e, ans |-> e] \in accepted
      BY <1>2, <2>2 DEF ProtectedCommand, CounterInv, Calling
    <3> HIDE DEF w
    <3>4. ~(w.n > w.n) /\ \A f \in issued : f.s = w.s => ~(f.n > w.n)
      BY <3>1, <3>2 DEF TypeOK, Nonces, Entries
    <3> QED
      BY <3>1, <3>3, <3>4
  <2> QED
    BY <2>1, <2>2
<1> QED
  BY <1>1, <1>2
  DEF Next, Client, Library, Card, Environment, NewSecureChannelV2, Reset,
      SetCardCertificate, AutoOpen, AutoOpenFails, processHandshakeResponse,
      ProtectedCommand, Transmit, TransmitFails, TransmitRaw, TransmitDecrypts,
      TransmitRejects, Returns, CardOpens, CardExecutes, CardRefuses,
      CardAnswersPlain, CardReset, SendFails, AnswerDamaged, AnswerRepeated,
      vars, host, call, card, hist

\* A channel opens only on the signature of the identity in place.
LEMMA PeerStep == IInv /\ TypeOK' /\ [Next]_vars => AuthenticatedPeer'
<1> SUFFICES ASSUME IInv, TypeOK', [Next]_vars PROVE AuthenticatedPeer'
  OBVIOUS
<1> USE DEF IInv, AuthenticatedPeer
<1>1. CASE /\ UNCHANGED <<key, peer, overridden>>
           /\ open' => open
           /\ signed \subseteq signed'
  BY <1>1
<1>2. CASE ~open'
  BY <1>2
<1>3. ASSUME processHandshakeResponse PROVE AuthenticatedPeer'
  <2>1. CASE verifyCardSignature(net)
    <3>1. /\ <<handshakes, net.id>> \in signed
          /\ cardIdentPub # None /\ net.id = cardIdentPub
      BY <1>3, <2>1 DEF processHandshakeResponse, verifyCardSignature, NetInv
    <3>2. cardIdentPub \in Trusted \/ overridden
      BY <1>3, <3>1 DEF processHandshakeResponse, VettedInv, TypeOK
    <3> QED
      BY <1>3, <2>1, <3>1, <3>2 DEF processHandshakeResponse
  <2>2. CASE ~verifyCardSignature(net)
    BY <1>3, <2>2 DEF processHandshakeResponse, OpenInv
  <2> QED
    BY <2>1, <2>2
<1> QED
  BY <1>1, <1>2, <1>3
  DEF Next, Client, Library, Card, Environment, NewSecureChannelV2, Reset,
      SetCardCertificate, AutoOpen, AutoOpenFails, processHandshakeResponse,
      ProtectedCommand, Transmit, TransmitFails, TransmitRaw, TransmitDecrypts,
      TransmitRejects, Returns, CardOpens, CardExecutes, CardRefuses,
      CardAnswersPlain, CardReset, SendFails, AnswerDamaged, AnswerRepeated,
      vars, host, call, card, hist

\* What was accepted was executed, and is below the counter.
LEMMA AcceptedStep == IInv /\ TypeOK' /\ [Next]_vars => AcceptedInv'
<1> SUFFICES ASSUME IInv, TypeOK', [Next]_vars PROVE AcceptedInv'
  OBVIOUS
<1> USE DEF IInv, AcceptedInv
<1>1. CASE UNCHANGED <<open, key, nonceCounter, accepted>> /\ executed \subseteq executed'
  BY <1>1
<1>2. CASE ~open' /\ UNCHANGED <<executed, accepted>>
  BY <1>2
<1>3. ASSUME processHandshakeResponse PROVE AcceptedInv'
  <2>1. UNCHANGED <<executed, accepted>>
    BY <1>3 DEF processHandshakeResponse
  <2>2. \A r \in accepted : r.ans.s < handshakes
    BY <1>3 DEF processHandshakeResponse, NumberedInv, CardInv
  <2>3. open' => key' = handshakes
    BY <1>3 DEF processHandshakeResponse, OpenInv
  <2>4. \A r \in accepted : r.ans.s # handshakes
    BY <2>2 DEF TypeOK, Entries
  <2> QED
    BY <2>1, <2>3, <2>4
<1>4. ASSUME TransmitDecrypts PROVE AcceptedInv'
  <2>1. /\ accepted' = accepted \cup {[req |-> wire.e, ans |-> net.e]}
        /\ UNCHANGED <<executed, key>>
        /\ open
        /\ net.e \in executed /\ net.e.n = nonceCounter
    BY <1>4, DecryptedOwnAnswer DEF TransmitDecrypts, Returns
  <2>2. open' => nonceCounter' = nonceCounter + 1
    BY <1>4, IncrementedType DEF TransmitDecrypts, incrementNonce, TypeOK
  <2>3. ASSUME open', NEW r \in accepted', r.ans.s = key'
        PROVE  r.ans.n < nonceCounter'
    <3>1. CASE r \in accepted
      BY <2>1, <2>2, <2>3, <3>1 DEF TypeOK, Nonces, Entries
    <3>2. CASE r = [req |-> wire.e, ans |-> net.e]
      BY <2>1, <2>2, <2>3, <3>2 DEF TypeOK, Nonces
    <3> QED
      BY <2>1, <3>1, <3>2
  <2> QED
    BY <2>1, <2>3
<1> QED
  BY <1>1, <1>2, <1>3, <1>4
  DEF Next, Client, Library, Card, Environment, NewSecureChannelV2, Reset,
      SetCardCertificate, AutoOpen, ProtectedCommand, AutoOpenFails, Transmit,
      TransmitFails, TransmitRaw, TransmitRejects, Returns, CardOpens, CardExecutes,
      CardRefuses, CardAnswersPlain, CardReset, SendFails, AnswerDamaged,
      AnswerRepeated, vars, host, call, card, hist

\* The initial states satisfy the invariant.
LEMMA InitInv == Init => IInv
<1> SUFFICES ASSUME Init PROVE IInv
  OBVIOUS
<1>1. TypeOK
  BY TypeInit
<1>2. net.t = "none" /\ Init
  BY NoMessageType DEF Init
<1> QED
  BY <1>1, <1>2
  DEF Init, IInv, NumberedInv, NetInv, OpenInv, CounterInv, CardInv, AcceptedInv, VettedInv,
      NonceNeverReused, AnswersOwnCommand, OnlyLastInDoubt, AuthenticatedPeer, Calling, TypeOK

\* Every step preserves it.
LEMMA Inductive == IInv /\ [Next]_vars => IInv'
<1> SUFFICES ASSUME IInv, [Next]_vars PROVE IInv'
  OBVIOUS
<1>1. TypeOK'
  BY TypeStep DEF IInv
<1> QED
  BY <1>1, NumberedStep, NetStep, OpenStep, CounterStep, CardStep, AcceptedStep,
     VettedStep, NonceStep, AnswersStep, OnlyLastStep, PeerStep
  DEF IInv

(***************************************************************************)
(* The theorems.                                                           *)
(***************************************************************************)

\* The invariant the run checks holds of every instance.
THEOREM Invariance == Spec => []IInv
  BY InitInv, Inductive, PTL DEF Spec

\* No nonce seals two commands under one key, for any width of the counter.
THEOREM NonceSafety == Spec => []NonceNeverReused
<1>1. IInv => NonceNeverReused
  BY DEF IInv
<1> QED
  BY <1>1, Invariance, PTL

\* Transmit returns the answer to its own command or an error.
THEOREM AnswerSafety == Spec => []AnswersOwnCommand
<1>1. IInv => AnswersOwnCommand
  BY DEF IInv
<1> QED
  BY <1>1, Invariance, PTL

\* After any failure only the last command of a session is in doubt.
THEOREM InDoubtSafety == Spec => []OnlyLastInDoubt
<1>1. IInv => OnlyLastInDoubt
  BY DEF IInv
<1> QED
  BY <1>1, Invariance, PTL

\* Whoever authenticated an open channel is trusted, unless the client opened it
\* after it was told that the certificate in place is not.
THEOREM PeerSafety == Spec => []AuthenticatedPeer
<1>1. IInv => AuthenticatedPeer
  BY DEF IInv
<1> QED
  BY <1>1, Invariance, PTL

\* Between calls host and card agree on the nonce of the session they share.
THEOREM LockStepSafety == Spec => []LockStep
<1>1. IInv => LockStep
  BY DEF IInv, LockStep, CardInv, Calling
<1> QED
  BY <1>1, Invariance, PTL

\* A step that opens a closed channel is the end of a successful handshake.
LEMMA OpeningStep ==
    ASSUME [Next]_vars, ~open, open'
    PROVE  /\ processHandshakeResponse
           /\ key' = handshakes
<1>1. processHandshakeResponse
  BY DEF Next, Client, Library, Card, Environment, NewSecureChannelV2, Reset,
      SetCardCertificate, AutoOpen, ProtectedCommand, AutoOpenFails, Transmit,
      TransmitFails, TransmitRaw, TransmitDecrypts, TransmitRejects, CardOpens, CardExecutes,
      CardRefuses, CardAnswersPlain, CardReset, SendFails, AnswerDamaged,
      AnswerRepeated, vars, host, call, card, hist
<1> QED
  BY <1>1 DEF processHandshakeResponse

\* A channel reopens only with keys nothing was sealed under.
THEOREM FreshnessSafety == Spec => ReopensFresh
<1>1. IInv /\ [Next]_vars => [~open /\ open' => \A e \in issued : e.s # key']_vars
  <2> SUFFICES ASSUME IInv, [Next]_vars, ~open, open', NEW e \in issued
               PROVE  e.s # key'
    OBVIOUS
  <2>1. processHandshakeResponse /\ key' = handshakes
    BY OpeningStep
  <2>2. e.s < handshakes /\ e.s \in 0..MaxHandshakes
    BY <2>1 DEF processHandshakeResponse, IInv, NumberedInv, TypeOK, Entries
  <2> QED
    BY <2>1, <2>2
<1> QED
  BY <1>1, Invariance, PTL DEF Spec, ReopensFresh

(***************************************************************************)
(* Refinement: the sessions of the channel are those of SecureSession.     *)
(***************************************************************************)

\* The entries accepted, as SecureSession sees them.
answers == {r.ans : r \in accepted}

\* Facts about that projection.
LEMMA AnswerOfAccepted ==
    ASSUME NEW q, NEW e, [req |-> q, ans |-> e] \in accepted
    PROVE  e \in answers
<1>1. [req |-> q, ans |-> e].ans = e
  OBVIOUS
<1> QED
  BY <1>1, Zenon DEF answers

LEMMA AnswersOfUnion ==
    ASSUME NEW A, NEW x
    PROVE  {r.ans : r \in A \cup {x}} = {r.ans : r \in A} \cup {x.ans}
BY Zenon

\* A new channel is a closed one.
LEMMA RefinementInit == Init => Promise!Init
BY DEF Init, Promise!Init

\* A protected command on the open channel is issued when all before it were
\* accepted, under a number above theirs.
LEMMA IssueStep ==
    ASSUME IInv, NEW c \in Commands, ProtectedCommand(c), open
    PROVE  Promise!Issue
<1> DEFINE w == [s |-> key, n |-> nonceCounter, c |-> c]
<1>1. /\ issued' = issued \cup {w}
      /\ UNCHANGED <<open, key, executed, accepted>>
      /\ key # 0 /\ nonceCounter \in Nonces /\ ~Calling
  BY DEF ProtectedCommand, Entry, Message, host, Calling, IInv, TypeOK
<1>2. \A e \in issued : e.s = key => e.n < nonceCounter /\ e \in answers
  BY <1>1, AnswerOfAccepted DEF IInv, CounterInv
<1>3. answers \subseteq issued
  BY DEF IInv, AcceptedInv, CardInv, answers
<1>4. {e \in issued : e.s = key} = {e \in answers : e.s = key}
  BY <1>2, <1>3
<1> HIDE DEF answers
<1> QED
  BY <1>1, <1>2, <1>4 DEF Promise!Issue, Promise!Of, answers

\* The card executes an issued entry once, after those before it.
LEMMA ExecuteStep ==
    ASSUME IInv, CardExecutes
    PROVE  Promise!Execute
<1>1. /\ net.e \in issued /\ net.e.s = cardKey /\ net.e.n = cardNonce
      /\ executed' = executed \cup {net.e}
      /\ UNCHANGED <<open, key, issued, accepted>>
  BY NoMessageType DEF CardExecutes, IInv, NetInv, OpenInv, Calling, TypeOK, host
<1>2. net.e \notin executed
  BY <1>1 DEF IInv, CardInv, TypeOK, Nonces
<1>3. ASSUME NEW f \in issued, f.s = net.e.s, f.n < net.e.n
      PROVE  f \in executed
  <2>1. net.e.n > f.n
    BY <1>3, <1>1 DEF IInv, TypeOK, Entries, Nonces
  <2>2. [req |-> f, ans |-> f] \in accepted
    BY <1>1, <1>3, <2>1 DEF IInv, OnlyLastInDoubt
  <2> QED
    BY <2>2 DEF IInv, AcceptedInv
<1> QED
  BY <1>1, <1>2, <1>3 DEF Promise!Execute, Promise!Of

\* Transmit accepts the answer of an executed entry, once.
LEMMA AcceptStep ==
    ASSUME IInv, TransmitDecrypts
    PROVE  Promise!Accept
<1>1. /\ net.e \in executed /\ net.e.s = key /\ net.e.n = nonceCounter
      /\ open
      /\ accepted' = accepted \cup {[req |-> wire.e, ans |-> net.e]}
      /\ UNCHANGED <<key, issued, executed>>
  BY DEF TransmitDecrypts, Returns, decryptCCM, IInv, NetInv
<1>2. net.e \notin answers
  BY <1>1 DEF IInv, AcceptedInv, TypeOK, Nonces, answers
<1>3. answers' = answers \cup {net.e}
  <2>1. [req |-> wire.e, ans |-> net.e].ans = net.e
    OBVIOUS
  <2> QED
    BY <1>1, <2>1, AnswersOfUnion DEF answers
<1>4. open' \in BOOLEAN
  BY DEF TransmitDecrypts, incrementNonce
<1> QED
  BY <1>1, <1>2, <1>3, <1>4 DEF Promise!Accept, answers

\* A handshake opens a session nothing was issued in.
LEMMA OpenSessionStep ==
    ASSUME IInv, TypeOK', processHandshakeResponse, open'
    PROVE  Promise!Open
<1>1. pc = "opening" /\ UNCHANGED <<issued, executed, accepted>>
  BY DEF processHandshakeResponse
<1>2. handshakes \in Handshakes /\ \A e \in issued : e.s < handshakes
  BY <1>1 DEF IInv, NumberedInv, TypeOK, Handshakes
<1>3. key' = handshakes
  BY <1>1 DEF processHandshakeResponse, IInv, OpenInv
<1>4. \A e \in issued : e.s # handshakes
  BY <1>2 DEF IInv, TypeOK, Entries
<1> QED
  BY <1>1, <1>2, <1>3, <1>4 DEF Promise!Open, Promise!Of

\* Every step is a step of SecureSession or leaves its variables alone.
LEMMA RefinementStep ==
    IInv /\ TypeOK' /\ [Next]_vars => [Promise!Next]_(Promise!svars)
<1> SUFFICES ASSUME IInv, TypeOK', [Next]_vars
             PROVE  Promise!Next \/ UNCHANGED Promise!svars
  OBVIOUS
<1> USE DEF Promise!Next, Promise!svars
<1>1. CASE UNCHANGED <<open, key, issued, executed, accepted>>
  BY <1>1
<1>2. CASE ~open' /\ UNCHANGED <<issued, executed, accepted>>
  BY <1>2 DEF Promise!Close
<1>3. ASSUME processHandshakeResponse
      PROVE  Promise!Next \/ UNCHANGED Promise!svars
  <2>1. CASE open'
    BY <1>3, <2>1, OpenSessionStep
  <2>2. CASE ~open'
    BY <1>2, <1>3, <2>2 DEF processHandshakeResponse
  <2> QED
    BY <2>1, <2>2
<1>4. ASSUME NEW c \in Commands, ProtectedCommand(c)
      PROVE  Promise!Next \/ UNCHANGED Promise!svars
  <2>1. CASE open
    BY <1>4, <2>1, IssueStep
  <2>2. CASE ~open
    BY <1>1, <1>4, <2>2 DEF ProtectedCommand, host
  <2> QED
    BY <2>1, <2>2
<1>5. CASE TransmitDecrypts
  BY <1>5, AcceptStep
<1>6. CASE CardExecutes
  BY <1>6, ExecuteStep
<1> HIDE DEF Promise!Next, Promise!svars
<1> QED
  BY <1>1, <1>2, <1>3, <1>4, <1>5, <1>6
  DEF Next, Client, Library, Card, Environment, NewSecureChannelV2, Reset,
      SetCardCertificate, AutoOpen, AutoOpenFails, Transmit, TransmitFails, TransmitRaw,
      TransmitRejects, Returns, CardOpens, CardRefuses, CardAnswersPlain, CardReset,
      SendFails, AnswerDamaged, AnswerRepeated, vars, host, call, card, hist

\* The V2 channel keeps the promise of SecureSession.
THEOREM Refinement == Spec => ImplementsSecureSession
<1>1. IInv => TypeOK
  BY DEF IInv
<1> QED
  BY <1>1, Invariance, RefinementInit, RefinementStep, PTL
  DEF Spec, ImplementsSecureSession, Promise!Spec

=============================================================================
