----------------------- MODULE SecureChannelV1_proofs -----------------------
(***************************************************************************)
(* Theorems about SecureChannelV1, for every set of commands and every     *)
(* number of handshakes and of exchanges.                                  *)
(***************************************************************************)
EXTENDS SecureChannelV1, SequenceTheorems, TLAPS

USE ConstantsAssumption

-----------------------------------------------------------------------------
(* The inductive invariant *)

\* The frame of a protected command is on its way, or its answer.
Sealing == wire.s # 0

\* The OPENs that are over.
Before == IF pc = "opening" THEN handshakes - 1 ELSE handshakes

\* s comes from one of the first h OPENs, rightly derived or not.
Derived(s, h) == s \in 0..h \/ s \in (MaxHandshakes + 1)..(MaxHandshakes + h)

NumberedInv ==
    /\ pc = "opening" => handshakes # 0
    /\ Derived(key, Before)
    /\ \A e \in issued : Derived(e.s, Before)
    /\ cardKey <= handshakes

OpenInv ==
    /\ open => key # 0
    /\ pc = "derived" => open
    /\ pc = "authenticating" => Sealing
    /\ Sealing =>
        /\ pc \in {"sent", "authenticating"}
        /\ open
        /\ wire.s = key
        /\ wire \in issued
        /\ wire.n + 1 = Len(iv)
        /\ wire.c \in AllCommands

NetInv ==
    /\ pc \in {"idle", "derived"} => net = NoMessage
    /\ pc = "opening" => net.t \in {"open", "opened", "garbled", "refused", "error"}
    /\ net.t = "open" => pc = "opening" /\ net.e.s = handshakes
    /\ net.t \in {"sealed", "answer"} => Sealing /\ net.e = wire
    /\ net.t = "answer" => wire \in executed
    /\ net.t = "plain" => pc = "sent" /\ ~established

\* In the session they share the card's chain is the host's, but for the
\* command it has not read yet or the answer the host has not read yet.
CardInv ==
    /\ executed \subseteq issued
    /\ pc = "opening" /\ cardKey = handshakes => cardIv = <<>>
    /\ open /\ cardKey = key =>
        \/ ~Sealing /\ cardIv = iv
        \/ Sealing /\ wire \notin executed /\ iv = Append(cardIv, <<"command", wire.c>>)
        \/ Sealing /\ wire \in executed /\ cardIv = Append(iv, <<"answer", wire.c>>)

\* All that was issued in the open session is answered, but the call in progress.
CounterInv ==
    open => \A e \in issued : e.s = key =>
        e.n < Len(iv) /\ ([req |-> e, ans |-> e] \in accepted \/ e = wire)

AcceptedInv ==
    /\ \A r \in accepted : r.ans \in executed
    /\ Sealing => \A r \in accepted : r.ans # wire

EstablishedInv == opened => established

IInv ==
    /\ TypeOK
    /\ NumberedInv
    /\ OpenInv
    /\ NetInv
    /\ CardInv
    /\ CounterInv
    /\ AcceptedInv
    /\ EstablishedInv
    /\ OnlyLastInDoubt

-----------------------------------------------------------------------------
(* Typing of the data the actions build *)

\* The constructors build members of the sets TypeOK names.
LEMMA EntryType ==
    ASSUME NEW s \in Sessions \cup {0}, NEW n \in Positions,
           NEW c \in AllCommands \cup {None}
    PROVE  /\ Entry(s, n, c) \in Entries
           /\ Entry(s, n, c).s = s
           /\ Entry(s, n, c).n = n
           /\ Entry(s, n, c).c = c
BY DEF Entry, Entries

LEMMA MessageType ==
    ASSUME NEW t \in Requests \cup Answers \cup {"none"}, NEW e \in Entries,
           NEW sw \in BOOLEAN
    PROVE  /\ Message(t, e, sw) \in Messages
           /\ Message(t, e, sw).t = t
           /\ Message(t, e, sw).e = e
BY DEF Message, Messages

LEMMA NoEntryType == NoEntry \in Entries /\ NoEntry.s = 0 /\ 0 \in Positions
<1>1. 0 \in Positions
  BY DEF Positions
<1> QED
  BY <1>1, EntryType DEF NoEntry

LEMMA BareType ==
    ASSUME NEW t \in Requests \cup Answers \cup {"none"}
    PROVE  Bare(t) \in Messages /\ Bare(t).t = t
BY NoEntryType, MessageType DEF Bare

LEMMA NoMessageType == NoMessage \in Messages /\ NoMessage.t = "none"
BY BareType DEF NoMessage

\* An exchange adds its command and its answer to the chain.
LEMMA TwoLinks ==
    ASSUME NEW S, NEW q \in Seq(S), NEW a \in S, NEW b \in S
    PROVE  /\ q \o <<a, b>> \in Seq(S)
           /\ q \o <<a, b>> = Append(Append(q, a), b)
<1>1. q \o <<a, b>> \in Seq(S) /\ Append(Append(q, a), b) \in Seq(S)
  OBVIOUS
<1>2. Len(q \o <<a, b>>) = Len(Append(Append(q, a), b))
  OBVIOUS
<1>3. \A i \in 1..Len(q \o <<a, b>>) : (q \o <<a, b>>)[i] = Append(Append(q, a), b)[i]
  OBVIOUS
<1> QED
  BY <1>1, <1>2, <1>3, SeqEqual

-----------------------------------------------------------------------------
(* Type correctness.  A frame's command is typed only because the reader's *)
(* frame is the one the call sealed: TypeOK needs the invariant.           *)

LEMMA TypeInit == Init => TypeOK
<1> SUFFICES ASSUME Init PROVE TypeOK
  OBVIOUS
<1>1. 0 \in 0..MaxHandshakes /\ <<>> \in Seq(Links)
  OBVIOUS
<1> QED
  BY <1>1, NoEntryType, NoMessageType DEF Init, TypeOK

\* What Seals builds.
LEMMA SealsType ==
    ASSUME TypeOK, NEW c \in AllCommands, Seals(c)
    PROVE  /\ wire' \in Entries /\ wire'.s = key /\ wire'.n = Len(iv) /\ wire'.c = c
           /\ iv' \in Seq(Links) /\ Len(iv') = Len(iv) + 1
           /\ net' \in Messages /\ net'.t = "sealed" /\ net'.e = wire'
<1>1. Len(iv) \in Positions
  BY DEF Seals, Positions, TypeOK
<1>2. wire' = Entry(key, Len(iv), c) /\ wire' \in Entries
  BY <1>1, EntryType DEF Seals, TypeOK
<1>3. net' = Message("sealed", wire', TRUE)
  BY DEF Seals
<1>4. <<"command", c>> \in Links
  BY DEF Links
<1>5. iv' \in Seq(Links) /\ Len(iv') = Len(iv) + 1
  BY <1>4 DEF Seals, updateIV, TypeOK
<1>6. key \in Sessions \cup {0} /\ c \in AllCommands \cup {None}
  BY DEF TypeOK
<1>7. wire'.s = key /\ wire'.n = Len(iv) /\ wire'.c = c
  BY <1>1, <1>2, <1>6, EntryType
<1>8. "sealed" \in Requests \cup Answers \cup {"none"}
  BY DEF Requests
<1>9. net' \in Messages /\ net'.t = "sealed" /\ net'.e = wire'
  BY <1>2, <1>3, <1>8, MessageType
<1> QED
  BY <1>2, <1>5, <1>7, <1>9

LEMMA TypeStep == IInv /\ [Next]_vars => TypeOK'
<1> SUFFICES ASSUME IInv, [Next]_vars PROVE TypeOK'
  OBVIOUS
<1>o. TypeOK
  BY DEF IInv
<1> USE <1>o DEF TypeOK
<1>a. 0 \in Positions /\ 0 \in Sessions \cup {0} /\ <<>> \in Seq(Links)
  BY NoEntryType
<1>b. net.e \in Entries /\ net.t \in Requests \cup Answers \cup {"none"} /\ net.sw \in BOOLEAN
  BY DEF Messages
<1>c. ASSUME NEW t \in Answers, NEW sw \in BOOLEAN
      PROVE  Message(t, net.e, sw) \in Messages /\ Bare(t) \in Messages
  BY <1>b, BareType, MessageType
<1>d. {"opened", "answer", "plainAnswer", "refused"} \subseteq Answers
  BY DEF Answers
<1>1. ASSUME NEW p \in {"nil", "valid", "stale"}, SetPairing(p) PROVE TypeOK'
  BY <1>1 DEF SetPairing, call, card, hist
<1>2. ASSUME Reset PROVE TypeOK'
  BY <1>2, <1>a DEF Reset, call, card
<1>3. ASSUME SendsOpen, open' \in BOOLEAN, legacy' \in BOOLEAN PROVE TypeOK'
  <2>1. handshakes + 1 \in 0..MaxHandshakes /\ handshakes + 1 \in Sessions
    BY <1>3 DEF SendsOpen, Sessions
  <2>2. net' \in Messages
    BY <1>3, <2>1, <1>a, EntryType, MessageType DEF SendsOpen, Requests
  <2> QED
    BY <1>3, <2>1, <2>2 DEF SendsOpen, card
<1>4. ASSUME OpenFails PROVE TypeOK'
  BY <1>4, NoMessageType DEF OpenFails, host, card, hist
<1>5. ASSUME processOpenResponse PROVE TypeOK'
  <2>1. handshakes # 0
    BY <1>5 DEF processOpenResponse, IInv, NumberedInv
  <2>2. key' \in Sessions
    BY <1>5, <2>1 DEF processOpenResponse, DeriveSessionKeys, Misderived, Sessions
  <2> QED
    BY <1>5, <1>a, <2>2, NoMessageType DEF processOpenResponse, card, hist
<1>6. ASSUME MutuallyAuthenticate PROVE TypeOK'
  BY <1>6, SealsType DEF MutuallyAuthenticate, Seals, AllCommands, card
<1>7. ASSUME NEW c \in Commands, SendProtected(c) PROVE TypeOK'
  <2>1. CASE open /\ Seals(c)
    BY <1>7, <2>1, SealsType DEF SendProtected, Seals, AllCommands, card
  <2>2. CASE ~open
    <3>1. Entry(0, 0, c) \in Entries
      BY <1>a, EntryType DEF AllCommands
    <3>2. "plain" \in Requests \cup Answers \cup {"none"}
      BY DEF Requests
    <3>3. net' = Message("plain", Entry(0, 0, c), TRUE)
      BY <1>7, <2>2 DEF SendProtected
    <3>4. net' \in Messages
      BY <3>1, <3>2, <3>3, MessageType
    <3> QED
      BY <1>7, <2>2, <3>4 DEF SendProtected, card
  <2> QED
    BY <1>7, <2>1, <2>2 DEF SendProtected
<1>8. ASSUME Pair PROVE TypeOK'
  BY <1>8, BareType DEF Pair, host, card, hist, Requests
<1>9. ASSUME TransmitFails PROVE TypeOK'
  BY <1>9, NoEntryType, NoMessageType DEF TransmitFails, Returns, card
<1>10. ASSUME TransmitRaw PROVE TypeOK'
  BY <1>10, NoEntryType, NoMessageType DEF TransmitRaw, Returns, card
<1>11. ASSUME TransmitDecrypts PROVE TypeOK'
  <2>1. net.e = wire /\ wire.c \in AllCommands
    BY <1>11 DEF TransmitDecrypts, IInv, NetInv, OpenInv
  <2>2. iv' \in Seq(Links)
    BY <1>11, <2>1 DEF TransmitDecrypts, updateIV, Links
  <2>3. accepted' \subseteq [req : Entries, ans : Entries]
    BY <1>11, <1>b DEF TransmitDecrypts
  <2>4. established' \in BOOLEAN /\ opened' \in BOOLEAN /\ open' = open
    BY <1>11 DEF TransmitDecrypts
  <2> QED
    BY <1>11, <2>2, <2>3, <2>4, NoEntryType, NoMessageType DEF TransmitDecrypts, Returns, card
<1>12. ASSUME CardOpens PROVE TypeOK'
  <2>1. net.e.s \in Sessions \cup {0}
    BY <1>b DEF Entries
  <2>2. net' \in Messages
    BY <1>12, <1>c, <1>d DEF CardOpens
  <2> QED
    BY <1>12, <1>a, <2>1, <2>2 DEF CardOpens, host, hist, card
<1>13. ASSUME CardExecutes PROVE TypeOK'
  <2>1. net.e = wire /\ wire.c \in AllCommands
    BY <1>13 DEF CardExecutes, IInv, NetInv, OpenInv
  <2>2. cardIv' \in Seq(Links)
    <3>1. <<"command", wire.c>> \in Links /\ <<"answer", wire.c>> \in Links
      BY <2>1 DEF Links
    <3> QED
      BY <1>13, <2>1, <3>1, TwoLinks DEF CardExecutes
  <2>3. net' \in Messages
    BY <1>13, <1>c, <1>d DEF CardExecutes
  <2> QED
    BY <1>13, <1>b, <2>2, <2>3 DEF CardExecutes, host
<1>14. ASSUME CardRefuses PROVE TypeOK'
  BY <1>14, <1>a, BareType DEF CardRefuses, host, hist, Answers
<1>15. ASSUME CardAnswersPlain PROVE TypeOK'
  <2>1. net' \in Messages
    BY <1>15, <1>c, <1>d DEF CardAnswersPlain
  <2> QED
    BY <1>15, <1>a, <2>1 DEF CardAnswersPlain, host, card, hist
<1>16. ASSUME CardReset PROVE TypeOK'
  BY <1>16, <1>a DEF CardReset, host, call, hist
<1>17. ASSUME SendFails PROVE TypeOK'
  BY <1>17, BareType DEF SendFails, host, card, hist, Answers
<1>18. ASSUME AnswerDamaged PROVE TypeOK'
  BY <1>18, BareType DEF AnswerDamaged, host, card, hist, Answers
<1>19. ASSUME UNCHANGED vars PROVE TypeOK'
  BY <1>19 DEF vars, host, call, card, hist
<1>20. ASSUME AutoOpen \/ OpenSecureChannel PROVE TypeOK'
  BY <1>3, <1>20 DEF AutoOpen, OpenSecureChannel
<1> HIDE DEF TypeOK
<1> QED
  BY <1>1, <1>2, <1>4, <1>5, <1>6, <1>7, <1>8, <1>9, <1>10, <1>11, <1>12,
     <1>13, <1>14, <1>15, <1>16, <1>17, <1>18, <1>19, <1>20
     DEF Next, Client, Library, Card, Environment

-----------------------------------------------------------------------------
(* The inductive invariant, conjunct by conjunct.  Each lemma has one case *)
(* for the steps that leave the conjunct's variables alone and one step    *)
(* for every action that can disturb it.                                   *)

\* A step that seals c on the open channel: of a client's command or of the
\* challenge of an open.
SealsOne(c) ==
    /\ open
    /\ pc \in {"idle", "derived"}
    /\ pc' \in {"sent", "authenticating"}
    /\ Seals(c)
    /\ UNCHANGED <<open, established, key, cardKey, cardIv, handshakes, opened,
                   executed, accepted>>

LEMMA SealsOneOf ==
    /\ IInv /\ MutuallyAuthenticate => SealsOne(Authenticate)
    /\ \A c \in Commands :
        SendProtected(c) =>
            \/ SealsOne(c)
            \/ /\ pc = "idle" /\ pc' = "sent"
               /\ ~open /\ ~established
               /\ net' = Message("plain", Entry(0, 0, c), TRUE)
               /\ UNCHANGED <<open, established, key, iv, wire, cardKey, cardIv,
                              handshakes, opened, issued, executed, accepted>>
BY DEF MutuallyAuthenticate, SendProtected, SealsOne, IInv, OpenInv, card

\* What it seals, and that nothing was sealing before.
LEMMA SealsOneFacts ==
    ASSUME IInv, NEW c \in AllCommands, SealsOne(c)
    PROVE  /\ ~Sealing /\ Sealing'
           /\ wire' \in Entries /\ wire'.s = key /\ wire'.n = Len(iv) /\ wire'.c = c
           /\ iv' = Append(iv, <<"command", c>>) /\ Len(iv') = Len(iv) + 1
           /\ issued' = issued \cup {wire'}
           /\ net'.t = "sealed" /\ net'.e = wire'
           /\ wire' \notin issued
<1>1. TypeOK /\ key # 0 /\ ~Sealing
  BY DEF IInv, OpenInv, SealsOne
<1>2. /\ wire' \in Entries /\ wire'.s = key /\ wire'.n = Len(iv) /\ wire'.c = c
      /\ Len(iv') = Len(iv) + 1
      /\ net'.t = "sealed" /\ net'.e = wire'
  BY <1>1, SealsType DEF SealsOne
<1>3. iv' = Append(iv, <<"command", c>>) /\ issued' = issued \cup {wire'}
  BY DEF SealsOne, Seals, updateIV
<1>4. \A e \in issued : e.s = key => e.n < Len(iv)
  BY DEF SealsOne, IInv, CounterInv
<1>5. Len(iv) \in Nat
  BY <1>1 DEF TypeOK
<1>6. wire' \notin issued
  BY <1>2, <1>4, <1>5
<1> QED
  BY <1>1, <1>2, <1>3, <1>6 DEF Sealing

\* Sessions are numbered by the OPEN they come from.
LEMMA NumberedStep == IInv /\ TypeOK' /\ [Next]_vars => NumberedInv'
<1> SUFFICES ASSUME IInv, TypeOK', [Next]_vars PROVE NumberedInv'
  OBVIOUS
<1> USE DEF NumberedInv, Derived, Before
<1>o. TypeOK /\ NumberedInv
  BY DEF IInv
<1>1. CASE /\ UNCHANGED <<issued, handshakes>>
           /\ key' \in {key, 0} /\ cardKey' \in {cardKey, 0}
           /\ pc' = "opening" <=> pc = "opening"
  BY <1>o, <1>1 DEF TypeOK
<1>2. ASSUME SendsOpen, open' \in BOOLEAN, legacy' \in BOOLEAN PROVE NumberedInv'
  BY <1>o, <1>2 DEF SendsOpen, card, TypeOK, Sessions
<1>3. ASSUME OpenFails PROVE NumberedInv'
  BY <1>o, <1>3 DEF OpenFails, host, card, hist, TypeOK, Sessions
<1>4. ASSUME processOpenResponse PROVE NumberedInv'
  BY <1>o, <1>4 DEF processOpenResponse, DeriveSessionKeys, Misderived, card, hist, TypeOK
<1>5. ASSUME NEW c \in AllCommands, SealsOne(c) PROVE NumberedInv'
  BY <1>o, <1>5, SealsOneFacts DEF SealsOne
<1>6. ASSUME CardOpens PROVE NumberedInv'
  <2>1. pc = "opening" /\ net.e.s = handshakes
    BY <1>6 DEF CardOpens, IInv, NetInv
  <2>2. cardKey' \in {handshakes, cardKey} /\ UNCHANGED <<pc, key, issued, handshakes>>
    BY <1>6, <2>1 DEF CardOpens, host, hist, card
  <2> QED
    BY <1>o, <2>1, <2>2 DEF TypeOK
<1> HIDE DEF NumberedInv
<1> QED
  BY <1>o, <1>1, <1>2, <1>3, <1>4, <1>5, <1>6, SealsOneOf
  DEF Next, Client, Library, Card, Environment, SetPairing, Reset, AutoOpen,
      OpenSecureChannel, Pair, TransmitFails, TransmitRaw, TransmitDecrypts,
      Returns, CardExecutes, CardRefuses, CardAnswersPlain, CardReset, SendFails,
      AnswerDamaged, AllCommands, TypeOK, vars, host, call, card, hist

\* What is sealed is sealed under the keys of the open channel.
LEMMA OpenStep == IInv /\ TypeOK' /\ [Next]_vars => OpenInv'
<1> SUFFICES ASSUME IInv, TypeOK', [Next]_vars PROVE OpenInv'
  OBVIOUS
<1> USE DEF OpenInv, Sealing
<1>o. TypeOK /\ NumberedInv /\ OpenInv
  BY DEF IInv
<1>1. CASE UNCHANGED <<open, key, iv, pc, wire, issued>>
  BY <1>o, <1>1
<1>2. CASE /\ pc' \in {"idle", "opening"} /\ wire'.s = 0
           /\ open' => open /\ key' = key
  BY <1>o, <1>2
<1>3. ASSUME processOpenResponse PROVE OpenInv'
  BY <1>o, <1>3 DEF processOpenResponse, DeriveSessionKeys, Misderived, NumberedInv, TypeOK
<1>4. ASSUME NEW c \in AllCommands, SealsOne(c) PROVE OpenInv'
  BY <1>o, <1>4, SealsOneFacts DEF SealsOne
<1>5. ASSUME pc = "idle", pc' = "sent", UNCHANGED <<open, key, iv, wire, issued>>
      PROVE  OpenInv'
  BY <1>o, <1>5
<1>6. ASSUME NEW c \in Commands, SendProtected(c) PROVE OpenInv'
  BY <1>4, <1>5, <1>6, SealsOneOf DEF AllCommands
<1>7. ASSUME MutuallyAuthenticate PROVE OpenInv'
  BY <1>4, <1>7, SealsOneOf DEF AllCommands
<1>8. ASSUME pc = "idle" PROVE wire.s = 0
  BY <1>o, <1>8
<1>9. ASSUME SendsOpen, open' => open PROVE OpenInv'
  BY <1>2, <1>8, <1>9 DEF SendsOpen
<1>10. ASSUME OpenFails PROVE OpenInv'
  BY <1>o, <1>2, <1>10 DEF OpenFails, host
<1>11. ASSUME Returns, open' => open PROVE OpenInv'
  BY <1>2, <1>11, NoEntryType DEF Returns
<1>12. ASSUME TransmitFails \/ TransmitRaw \/ TransmitDecrypts PROVE OpenInv'
  BY <1>11, <1>12 DEF TransmitFails, TransmitRaw, TransmitDecrypts
<1>13. ASSUME Reset PROVE OpenInv'
  BY <1>2, <1>8, <1>13 DEF Reset, call
<1>14. ASSUME AutoOpen \/ OpenSecureChannel PROVE OpenInv'
  BY <1>9, <1>14 DEF AutoOpen, OpenSecureChannel
<1>15. ASSUME Pair PROVE OpenInv'
  BY <1>5, <1>15 DEF Pair, host, hist
<1> HIDE DEF OpenInv
<1> QED
  BY <1>1, <1>3, <1>6, <1>7, <1>10, <1>12, <1>13, <1>14, <1>15
  DEF Next, Client, Library, Card, Environment, SetPairing, CardOpens, CardExecutes,
      CardRefuses, CardAnswersPlain, CardReset, SendFails, AnswerDamaged, vars, host,
      call, card, hist

\* What the reader holds fits the call in progress.
LEMMA NetStep == IInv /\ TypeOK' /\ [Next]_vars => NetInv'
<1> SUFFICES ASSUME IInv, TypeOK', [Next]_vars PROVE NetInv'
  OBVIOUS
<1> USE DEF NetInv, Sealing
<1>o. TypeOK /\ NetInv
  BY DEF IInv
<1>1. CASE net' = NoMessage /\ pc' # "opening"
  BY <1>1, NoMessageType
<1>2. CASE UNCHANGED <<established, pc, wire, net, handshakes, executed>>
  BY <1>o, <1>2
<1>3. CASE /\ UNCHANGED pc
           /\ pc \in {"opening", "sent", "authenticating"}
           /\ net'.t \in {"plainAnswer", "garbled", "refused", "error"}
           /\ pc = "opening" => net'.t # "plainAnswer"
  BY <1>3
<1>4. ASSUME SendsOpen PROVE NetInv'
  BY <1>4 DEF SendsOpen, Entry, Message
<1>5. ASSUME NEW c \in AllCommands, SealsOne(c) PROVE NetInv'
  BY <1>5, SealsOneFacts DEF SealsOne
<1>6. ASSUME NEW c \in Commands, pc' = "sent", ~established', net' = Message("plain", Entry(0, 0, c), TRUE)
      PROVE  NetInv'
  BY <1>6 DEF Message
<1>7. ASSUME Pair PROVE NetInv'
  BY <1>7 DEF Pair, Bare, Message
<1>8. ASSUME CardOpens PROVE NetInv'
  BY <1>o, <1>8 DEF CardOpens, Bare, Message, host, hist
<1>9. ASSUME CardExecutes PROVE NetInv'
  <2>1. Sealing /\ net.e = wire /\ pc \in {"sent", "authenticating"}
    BY <1>o, <1>9 DEF CardExecutes, IInv, OpenInv
  <2>2. net'.t = "answer" /\ net'.e = wire /\ wire \in executed' /\ UNCHANGED <<pc, wire>>
    BY <1>9, <2>1 DEF CardExecutes, Message
  <2> QED
    BY <2>1, <2>2
<1>10. ASSUME CardRefuses \/ CardAnswersPlain \/ SendFails \/ AnswerDamaged PROVE NetInv'
  <2>1. net.t # "none" /\ net # NoMessage
    BY <1>10, NoMessageType DEF CardRefuses, CardAnswersPlain, SendFails, AnswerDamaged,
       Requests, Answers
  <2>2. pc \in {"opening", "sent", "authenticating"} /\ UNCHANGED pc
    BY <1>o, <1>10, <2>1 DEF CardRefuses, CardAnswersPlain, SendFails, AnswerDamaged, TypeOK
  <2>3. net'.t \in {"plainAnswer", "garbled", "refused", "error"}
    BY <1>10 DEF CardRefuses, CardAnswersPlain, SendFails, AnswerDamaged, Bare, Message
  <2>4. pc = "opening" => net'.t # "plainAnswer"
    BY <1>o, <1>10 DEF CardRefuses, CardAnswersPlain, SendFails, AnswerDamaged, Bare, Message
  <2> QED
    BY <1>3, <2>2, <2>3, <2>4
<1>11. ASSUME pc = "idle", UNCHANGED <<pc, wire, net, handshakes, executed>> PROVE NetInv'
  BY <1>o, <1>11, NoMessageType
<1>12. ASSUME NEW c \in Commands, SendProtected(c) PROVE NetInv'
  BY <1>5, <1>6, <1>12, SealsOneOf DEF AllCommands
<1>13. ASSUME MutuallyAuthenticate PROVE NetInv'
  BY <1>5, <1>13, SealsOneOf DEF AllCommands
<1>14. ASSUME OpenFails \/ processOpenResponse \/ Returns PROVE NetInv'
  BY <1>1, <1>14 DEF OpenFails, processOpenResponse, Returns
<1> HIDE DEF NetInv
<1> QED
  BY <1>2, <1>4, <1>7, <1>8, <1>9, <1>10, <1>11, <1>12, <1>13, <1>14
  DEF Next, Client, Library, Card, Environment, SetPairing, Reset, AutoOpen,
      OpenSecureChannel, TransmitFails, TransmitRaw, TransmitDecrypts, CardReset,
      vars, host, call, card, hist

\* What Transmit decrypts is the answer to the command it sent.
LEMMA DecryptedOwnAnswer ==
    ASSUME IInv, TransmitDecrypts
    PROVE  /\ Sealing /\ open /\ net.e = wire
           /\ wire \in executed /\ wire.s = key /\ wire.n + 1 = Len(iv)
           /\ iv' = Append(iv, <<"answer", wire.c>>) /\ Len(iv') = Len(iv) + 1
           /\ accepted' = accepted \cup {[req |-> wire, ans |-> wire]}
<1>1. Sealing /\ open /\ net.e = wire /\ wire \in executed
  BY DEF TransmitDecrypts, IInv, NetInv
<1>2. wire.s = key /\ wire.n + 1 = Len(iv) /\ wire.c \in AllCommands
  BY <1>1 DEF IInv, OpenInv
<1>3. iv' = Append(iv, <<"answer", wire.c>>)
  BY <1>1 DEF TransmitDecrypts, updateIV
<1>4. iv \in Seq(Links) /\ <<"answer", wire.c>> \in Links
  BY <1>2 DEF IInv, TypeOK, Links
<1>5. Len(iv') = Len(iv) + 1
  BY <1>3, <1>4
<1>6. accepted' = accepted \cup {[req |-> wire, ans |-> wire]}
  BY <1>1 DEF TransmitDecrypts
<1> QED
  BY <1>1, <1>2, <1>3, <1>5, <1>6

\* An open takes keys nothing was sealed under, also when it derives wrong ones.
LEMMA FreshKey ==
    ASSUME IInv, processOpenResponse
    PROVE  key' \in Sessions /\ \A e \in issued : e.s # key'
<1>1. TypeOK /\ NumberedInv /\ pc = "opening"
  BY DEF IInv, processOpenResponse
<1>2. handshakes \in 1..MaxHandshakes /\ key' \in {handshakes, MaxHandshakes + handshakes}
  BY <1>1 DEF TypeOK, NumberedInv, processOpenResponse, DeriveSessionKeys, Misderived
<1>3. ASSUME NEW e \in issued PROVE e.s # key'
  <2>1. e.s \in 0..(handshakes - 1) \/ e.s \in (MaxHandshakes + 1)..(MaxHandshakes + handshakes - 1)
    BY <1>1, <1>2 DEF NumberedInv, Derived, Before
  <2> QED
    BY <1>2, <2>1
<1> QED
  BY <1>2, <1>3 DEF Sessions

\* The card's chain follows the host's.
LEMMA CardStep == IInv /\ TypeOK' /\ [Next]_vars => CardInv'
<1> SUFFICES ASSUME IInv, TypeOK', [Next]_vars PROVE CardInv'
  OBVIOUS
<1> USE DEF CardInv
<1>o. TypeOK /\ NumberedInv /\ OpenInv /\ CardInv
  BY DEF IInv
<1>1. CASE /\ UNCHANGED <<open, key, iv, pc, wire, cardKey, cardIv, handshakes,
                          issued, executed>>
  BY <1>o, <1>1 DEF Sealing
<1>2. CASE /\ UNCHANGED <<cardKey, cardIv, issued, executed>>
           /\ ~open' /\ pc' # "opening"
  BY <1>o, <1>2
<1>3. CASE /\ UNCHANGED <<open, key, pc, wire, handshakes, issued, executed>>
           /\ cardKey' = 0
  BY <1>o, <1>3 DEF NumberedInv, OpenInv, TypeOK
<1>4. ASSUME SendsOpen, open' => open PROVE CardInv'
  <2>1. cardKey' # handshakes'
    BY <1>o, <1>4 DEF SendsOpen, NumberedInv, TypeOK, card, Sessions
  <2>2. ~Sealing /\ ~Sealing'
    BY <1>o, <1>4 DEF SendsOpen, OpenInv, Sealing
  <2> QED
    BY <1>o, <1>4, <2>1, <2>2 DEF SendsOpen, card
<1>5. ASSUME pc' # "opening", ~Sealing, ~Sealing',
             UNCHANGED <<open, key, iv, cardKey, cardIv, issued, executed>>
      PROVE  CardInv'
  BY <1>o, <1>5
<1>6. ASSUME processOpenResponse PROVE CardInv'
  <2>1. ~Sealing /\ ~Sealing'
    BY <1>o, <1>6 DEF processOpenResponse, OpenInv, Sealing
  <2>2. cardKey' = key' => key' = handshakes
    BY <1>o, <1>6 DEF processOpenResponse, DeriveSessionKeys, Misderived, NumberedInv, TypeOK,
                      card, Sessions
  <2>3. /\ pc = "opening" /\ pc' = "derived" /\ iv' = <<>>
        /\ UNCHANGED <<cardKey, cardIv, issued, executed>>
    BY <1>6 DEF processOpenResponse, card, hist
  <2> QED
    BY <1>o, <2>1, <2>2, <2>3
<1>7. ASSUME NEW c \in AllCommands, SealsOne(c) PROVE CardInv'
  <2>1. /\ ~Sealing /\ Sealing' /\ wire'.c = c /\ wire' \notin issued
        /\ iv' = Append(iv, <<"command", c>>) /\ issued \subseteq issued'
    BY <1>7, SealsOneFacts
  <2>2. UNCHANGED <<open, key, cardKey, cardIv, executed>> /\ pc' # "opening"
    BY <1>7 DEF SealsOne
  <2> QED
    BY <1>o, <2>1, <2>2
<1>8. ASSUME TransmitDecrypts PROVE CardInv'
  <2>1. ~Sealing' /\ pc' # "opening" /\ UNCHANGED <<open, key, cardKey, cardIv, issued, executed>>
    BY <1>8, NoEntryType DEF TransmitDecrypts, Returns, Sealing, card
  <2>2. Sealing /\ open /\ wire \in executed /\ iv' = Append(iv, <<"answer", wire.c>>)
    BY <1>8, DecryptedOwnAnswer
  <2> QED
    BY <1>o, <2>1, <2>2
<1>9. ASSUME CardOpens PROVE CardInv'
  <2>1. pc = "opening" /\ net.e.s = handshakes
    BY <1>9 DEF CardOpens, IInv, NetInv
  <2>2. key # handshakes
    BY <1>o, <2>1 DEF NumberedInv, Derived, Before, TypeOK
  <2>3. UNCHANGED <<open, key, iv, pc, wire, handshakes, issued, executed>>
    BY <1>9 DEF CardOpens, host, hist
  <2>4. (cardKey' = handshakes /\ cardIv' = <<>>) \/ UNCHANGED <<cardKey, cardIv>>
    BY <1>9, <2>1 DEF CardOpens, card
  <2> QED
    BY <1>o, <2>2, <2>3, <2>4 DEF Sealing
<1>10. ASSUME CardExecutes PROVE CardInv'
  <2>1. /\ Sealing /\ net.e = wire /\ wire \in issued /\ open /\ wire.s = key
        /\ pc \in {"sent", "authenticating"} /\ wire.n + 1 = Len(iv) /\ wire.c \in AllCommands
    BY <1>o, <1>10 DEF CardExecutes, IInv, NetInv, OpenInv
  <2>2. /\ cardKey = key /\ wire.n = Len(cardIv)
        /\ cardIv' = cardIv \o << <<"command", wire.c>>, <<"answer", wire.c>> >>
        /\ executed' = executed \cup {wire}
        /\ UNCHANGED <<open, key, iv, pc, wire, handshakes, issued>>
    BY <1>10, <2>1 DEF CardExecutes, host
  <2>3. <<"command", wire.c>> \in Links /\ <<"answer", wire.c>> \in Links
    BY <2>1 DEF Links
  <2>4. iv \in Seq(Links) /\ cardIv \in Seq(Links)
    BY <1>o DEF TypeOK
  <2>5. cardIv # Append(iv, <<"answer", wire.c>>)
    <3>1. Len(Append(iv, <<"answer", wire.c>>)) = Len(iv) + 1
      BY <2>3, <2>4
    <3> QED
      BY <2>1, <2>2, <2>4, <3>1, LenProperties
  <2>6. iv = Append(cardIv, <<"command", wire.c>>)
    BY <1>o, <2>1, <2>2, <2>5
  <2>7. cardIv' = Append(iv, <<"answer", wire.c>>)
    <3> DEFINE q == <<"command", wire.c>>
               a == <<"answer", wire.c>>
    <3>1. cardIv' = cardIv \o <<q, a>> /\ iv = Append(cardIv, q)
      BY <2>2, <2>6
    <3>2. q \in Links /\ a \in Links
      BY <2>3
    <3> HIDE DEF q, a
    <3>3. cardIv \o <<q, a>> = Append(Append(cardIv, q), a)
      BY <2>4, <3>2, TwoLinks
    <3>4. cardIv' = Append(iv, a)
      BY <3>1, <3>3
    <3> QED
      BY <3>4 DEF a
  <2>8. Sealing' /\ wire' \in executed' /\ cardIv' = Append(iv', <<"answer", wire'.c>>)
    BY <2>1, <2>2, <2>7 DEF Sealing
  <2>9. executed' \subseteq issued' /\ pc' # "opening"
    BY <1>o, <2>1, <2>2
  <2> QED
    BY <2>8, <2>9
<1>11. ASSUME NEW c \in Commands, SendProtected(c) PROVE CardInv'
  <2>1. ASSUME ~SealsOne(c) PROVE CardInv'
    BY <1>5, <1>11, <1>o, <2>1, SealsOneOf DEF OpenInv, Sealing
  <2> QED
    BY <1>7, <2>1 DEF AllCommands
<1>12. ASSUME MutuallyAuthenticate PROVE CardInv'
  BY <1>7, <1>12, SealsOneOf DEF AllCommands
<1>13. ASSUME Reset \/ TransmitFails \/ TransmitRaw PROVE CardInv'
  BY <1>2, <1>13 DEF Reset, TransmitFails, TransmitRaw, Returns, call, card
<1>14. ASSUME Pair \/ OpenFails PROVE CardInv'
  <2>1. ~Sealing /\ ~Sealing' /\ pc' # "opening"
    BY <1>o, <1>14 DEF Pair, OpenFails, OpenInv, Sealing
  <2> QED
    BY <1>5, <1>14, <2>1 DEF Pair, OpenFails, host, card, hist
<1>15. ASSUME CardRefuses \/ CardAnswersPlain \/ CardReset PROVE CardInv'
  BY <1>1, <1>3, <1>15 DEF CardRefuses, CardAnswersPlain, CardReset, host, call, card, hist
<1>16. ASSUME AutoOpen \/ OpenSecureChannel PROVE CardInv'
  BY <1>4, <1>16 DEF AutoOpen, OpenSecureChannel
<1>17. ASSUME \/ \E p \in {"nil", "valid", "stale"} : SetPairing(p)
              \/ SendFails \/ AnswerDamaged \/ UNCHANGED vars
       PROVE  CardInv'
  BY <1>1, <1>17 DEF SetPairing, SendFails, AnswerDamaged, vars, host, call, card, hist
<1> HIDE DEF CardInv
<1> QED
  BY <1>6, <1>8, <1>9, <1>10, <1>11, <1>12, <1>13, <1>14, <1>15, <1>16, <1>17
  DEF Next, Client, Library, Card, Environment

\* All that was issued in the open session is answered, but the call in progress.
LEMMA CounterStep == IInv /\ TypeOK' /\ [Next]_vars => CounterInv'
<1> SUFFICES ASSUME IInv, TypeOK', [Next]_vars PROVE CounterInv'
  OBVIOUS
<1> USE DEF CounterInv
<1>o. TypeOK /\ CounterInv /\ OpenInv
  BY DEF IInv
<1>1. CASE UNCHANGED <<open, key, iv, wire, issued, accepted>>
  BY <1>o, <1>1
<1>2. CASE ~open'
  BY <1>2
<1>3. ASSUME processOpenResponse PROVE CounterInv'
  BY <1>3, FreshKey DEF processOpenResponse, hist
<1>4. ASSUME NEW c \in AllCommands, SealsOne(c) PROVE CounterInv'
  <2>1. /\ ~Sealing /\ key # 0
        /\ wire'.n = Len(iv) /\ Len(iv') = Len(iv) + 1 /\ issued' = issued \cup {wire'}
        /\ UNCHANGED <<open, key, accepted>> /\ open
    BY <1>o, <1>4, SealsOneFacts DEF SealsOne, OpenInv
  <2>2. ASSUME NEW e \in issued, e.s = key
        PROVE  e.n < Len(iv) /\ [req |-> e, ans |-> e] \in accepted
    BY <1>o, <2>1, <2>2 DEF Sealing
  <2>3. Len(iv) \in Nat /\ \A e \in issued : e.n \in Nat
    BY <1>o DEF TypeOK, Entries, Positions
  <2> QED
    BY <2>1, <2>2, <2>3
<1>5. ASSUME TransmitDecrypts PROVE CounterInv'
  <2>1. /\ wire.n + 1 = Len(iv) /\ Len(iv') = Len(iv) + 1
        /\ accepted' = accepted \cup {[req |-> wire, ans |-> wire]}
        /\ UNCHANGED <<open, key, issued>>
    BY <1>5, DecryptedOwnAnswer DEF TransmitDecrypts, Returns
  <2>2. Len(iv) \in Nat /\ \A e \in issued : e.n \in Nat
    BY <1>o DEF TypeOK, Entries, Positions
  <2>3. ASSUME open, NEW e \in issued, e.s = key
        PROVE  e.n < Len(iv') /\ [req |-> e, ans |-> e] \in accepted'
    BY <1>o, <2>1, <2>2, <2>3
  <2> QED
    BY <2>1, <2>3
<1>6. ASSUME NEW c \in Commands, SendProtected(c) PROVE CounterInv'
  BY <1>2, <1>4, <1>6, SealsOneOf DEF AllCommands
<1>7. ASSUME MutuallyAuthenticate PROVE CounterInv'
  BY <1>4, <1>7, SealsOneOf DEF AllCommands
<1>8. ASSUME Reset \/ AutoOpen \/ TransmitFails \/ TransmitRaw PROVE CounterInv'
  BY <1>2, <1>8 DEF Reset, AutoOpen, TransmitFails, TransmitRaw
<1>9. ASSUME OpenSecureChannel PROVE CounterInv'
  BY <1>1, <1>9 DEF OpenSecureChannel, SendsOpen
<1>10. ASSUME Pair \/ OpenFails PROVE CounterInv'
  BY <1>1, <1>10 DEF Pair, OpenFails, host, hist
<1> HIDE DEF CounterInv
<1> QED
  BY <1>1, <1>3, <1>5, <1>6, <1>7, <1>8, <1>9, <1>10
  DEF Next, Client, Library, Card, Environment, SetPairing, CardOpens, CardExecutes, CardRefuses,
      CardAnswersPlain, CardReset, SendFails, AnswerDamaged, vars, host, call,
      card, hist

\* What was accepted was executed; the call in progress has accepted nothing yet.
LEMMA AcceptedStep == IInv /\ TypeOK' /\ [Next]_vars => AcceptedInv'
<1> SUFFICES ASSUME IInv, TypeOK', [Next]_vars PROVE AcceptedInv'
  OBVIOUS
<1> USE DEF AcceptedInv
<1>o. TypeOK /\ AcceptedInv
  BY DEF IInv
<1>1. CASE UNCHANGED <<wire, accepted>> /\ executed \subseteq executed'
  BY <1>o, <1>1 DEF Sealing
<1>2. CASE ~Sealing' /\ UNCHANGED <<executed, accepted>>
  BY <1>o, <1>2
<1>3. ASSUME NEW c \in AllCommands, SealsOne(c) PROVE AcceptedInv'
  <2>1. wire' \notin issued /\ UNCHANGED <<executed, accepted>>
    BY <1>3, SealsOneFacts DEF SealsOne
  <2>2. executed \subseteq issued
    BY DEF IInv, CardInv
  <2> QED
    BY <1>o, <2>1, <2>2
<1>4. ASSUME TransmitDecrypts PROVE AcceptedInv'
  <2>1. ~Sealing' /\ executed' = executed
    BY <1>4, NoEntryType DEF TransmitDecrypts, Returns, Sealing
  <2>2. wire \in executed /\ accepted' = accepted \cup {[req |-> wire, ans |-> wire]}
    BY <1>4, DecryptedOwnAnswer
  <2> QED
    BY <1>o, <2>1, <2>2
<1>5. ASSUME NEW c \in Commands, SendProtected(c) PROVE AcceptedInv'
  BY <1>1, <1>3, <1>5, SealsOneOf DEF AllCommands
<1>6. ASSUME MutuallyAuthenticate PROVE AcceptedInv'
  BY <1>3, <1>6, SealsOneOf DEF AllCommands
<1>7. ASSUME TransmitFails \/ TransmitRaw PROVE AcceptedInv'
  BY <1>2, <1>7, NoEntryType DEF TransmitFails, TransmitRaw, Returns, Sealing
<1> HIDE DEF AcceptedInv
<1> QED
  BY <1>1, <1>4, <1>5, <1>6, <1>7
  DEF Next, Client, Library, Card, Environment, SetPairing, Reset, AutoOpen,
      OpenSecureChannel, SendsOpen, Pair, OpenFails, processOpenResponse, CardOpens,
      CardExecutes, CardRefuses, CardAnswersPlain, CardReset, SendFails,
      AnswerDamaged, vars, host, call, card, hist

\* No failure forgets that the channel was established.
LEMMA EstablishedStep == IInv /\ TypeOK' /\ [Next]_vars => EstablishedInv'
<1> SUFFICES ASSUME IInv, TypeOK', [Next]_vars PROVE EstablishedInv'
  OBVIOUS
<1> USE DEF IInv, EstablishedInv
<1>1. CASE UNCHANGED opened /\ (established => established')
  BY <1>1
<1>2. ASSUME Reset PROVE EstablishedInv'
  BY <1>2 DEF Reset
<1>3. ASSUME TransmitDecrypts PROVE EstablishedInv'
  BY <1>3 DEF TransmitDecrypts
<1>4. ASSUME NEW c \in Commands, SendProtected(c) PROVE EstablishedInv'
  BY <1>1, <1>4 DEF SendProtected
<1>5. ASSUME processOpenResponse \/ MutuallyAuthenticate \/ TransmitFails \/ TransmitRaw
      PROVE  EstablishedInv'
  BY <1>1, <1>5 DEF processOpenResponse, MutuallyAuthenticate, TransmitFails, TransmitRaw, hist
<1>6. ASSUME Pair \/ OpenFails PROVE EstablishedInv'
  BY <1>1, <1>6 DEF Pair, OpenFails, host, hist
<1>7. ASSUME SendsOpen PROVE EstablishedInv'
  BY <1>1, <1>7 DEF SendsOpen
<1>8. ASSUME Card \/ Environment \/ UNCHANGED vars PROVE EstablishedInv'
  BY <1>1, <1>8
  DEF Card, Environment, CardOpens, CardExecutes, CardRefuses, CardAnswersPlain,
      CardReset, SendFails, AnswerDamaged, vars, host, hist
<1>9. ASSUME NEW p \in {"nil", "valid", "stale"}, SetPairing(p) PROVE EstablishedInv'
  BY <1>1, <1>9 DEF SetPairing, hist
<1> HIDE DEF IInv, EstablishedInv
<1> QED
  BY <1>2, <1>3, <1>4, <1>5, <1>6, <1>7, <1>8, <1>9
  DEF Next, Client, Library, AutoOpen, OpenSecureChannel

\* A session goes on only when its last command was answered.
LEMMA OnlyLastStep == IInv /\ TypeOK' /\ [Next]_vars => OnlyLastInDoubt'
<1> SUFFICES ASSUME IInv, TypeOK', [Next]_vars PROVE OnlyLastInDoubt'
  OBVIOUS
<1> USE DEF OnlyLastInDoubt
<1>o. TypeOK /\ OnlyLastInDoubt
  BY DEF IInv
<1>1. CASE UNCHANGED issued /\ accepted \subseteq accepted'
  BY <1>o, <1>1
<1>2. ASSUME NEW c \in AllCommands, SealsOne(c) PROVE OnlyLastInDoubt'
  <2>1. /\ ~Sealing /\ wire'.s = key /\ wire'.n = Len(iv)
        /\ issued' = issued \cup {wire'} /\ accepted' = accepted
    BY <1>2, SealsOneFacts DEF SealsOne
  <2>2. \A e \in issued : e.s = key => e.n < Len(iv) /\ [req |-> e, ans |-> e] \in accepted
    BY <1>2, <2>1 DEF SealsOne, IInv, CounterInv, OpenInv, Sealing
  <2>3. Len(iv) \in Nat /\ \A e \in issued : e.n \in Nat
    BY <1>o DEF TypeOK, Entries, Positions
  <2>4. ASSUME NEW e \in issued', NEW f \in issued', f.s = e.s, f.n > e.n
        PROVE  [req |-> e, ans |-> e] \in accepted
    <3>1. CASE e \in issued /\ f \in issued
      BY <1>o, <2>4, <3>1
    <3>2. CASE e \in issued /\ f = wire'
      BY <2>1, <2>2, <2>4, <3>2
    <3>3. e # wire'
      <4>1. ASSUME e = wire' PROVE f.s = key /\ f.n > Len(iv)
        BY <2>1, <2>4, <4>1
      <4>2. f \in issued \/ f = wire'
        BY <2>1
      <4>3. ASSUME f \in issued, f.s = key PROVE f.n < Len(iv) /\ f.n \in Nat
        BY <2>2, <2>3, <4>3
      <4>4. ASSUME f = wire' PROVE f.n = Len(iv)
        BY <2>1, <4>4
      <4> QED
        BY <2>3, <4>1, <4>2, <4>3, <4>4
    <3> QED
      BY <2>1, <3>1, <3>2, <3>3
  <2> QED
    BY <2>1, <2>4
<1>3. ASSUME NEW c \in Commands, SendProtected(c) PROVE OnlyLastInDoubt'
  BY <1>1, <1>2, <1>3, SealsOneOf DEF AllCommands
<1>4. ASSUME MutuallyAuthenticate PROVE OnlyLastInDoubt'
  BY <1>2, <1>4, SealsOneOf DEF AllCommands
<1> HIDE DEF OnlyLastInDoubt
<1> QED
  BY <1>1, <1>3, <1>4
  DEF Next, Client, Library, Card, Environment, SetPairing, Reset, AutoOpen,
      OpenSecureChannel, SendsOpen, Pair, OpenFails, processOpenResponse,
      TransmitFails, TransmitRaw, TransmitDecrypts, Returns, CardOpens, CardExecutes,
      CardRefuses, CardAnswersPlain, CardReset, SendFails, AnswerDamaged, vars,
      host, call, card, hist

\* The initial states satisfy the invariant.
LEMMA InitInv == Init => IInv
<1> SUFFICES ASSUME Init PROVE IInv
  OBVIOUS
<1>1. TypeOK
  BY TypeInit
<1>2. ~Sealing /\ net.t = "none"
  BY NoEntryType, NoMessageType DEF Init, Sealing
<1> QED
  BY <1>1, <1>2
  DEF Init, IInv, NumberedInv, Derived, Before, OpenInv, NetInv, CardInv, CounterInv,
      AcceptedInv, EstablishedInv, OnlyLastInDoubt

\* Every step preserves it.
LEMMA Inductive == IInv /\ [Next]_vars => IInv'
<1> SUFFICES ASSUME IInv, [Next]_vars PROVE IInv'
  OBVIOUS
<1>1. TypeOK'
  BY TypeStep
<1> QED
  BY <1>1, NumberedStep, OpenStep, NetStep, CardStep, CounterStep, AcceptedStep,
     EstablishedStep, OnlyLastStep
  DEF IInv

-----------------------------------------------------------------------------
(* The theorems *)

\* The inductive invariant holds of every instance.
THEOREM Invariance == Spec => []IInv
  BY InitInv, Inductive, PTL DEF Spec

\* Every reachable state is typed.
THEOREM TypeCorrect == Spec => []TypeOK
<1>1. IInv => TypeOK
  BY DEF IInv
<1> QED
  BY <1>1, Invariance, PTL

\* Between calls host and card agree on the IV of the session they share.
THEOREM LockStepSafety == Spec => []LockStep
<1>1. IInv => LockStep
  BY DEF IInv, LockStep, CardInv, OpenInv
<1> QED
  BY <1>1, Invariance, PTL

\* After any failure only the last command of a session is in doubt.
THEOREM InDoubtSafety == Spec => []OnlyLastInDoubt
<1>1. IInv => OnlyLastInDoubt
  BY DEF IInv
<1> QED
  BY <1>1, Invariance, PTL

\* Between a successful open and Reset no protected command is sent in the clear.
THEOREM NoPlaintextSafety == Spec => []NoPlaintextAfterOpened
<1>1. IInv => NoPlaintextAfterOpened
  BY DEF IInv, NoPlaintextAfterOpened, NetInv, EstablishedInv
<1> QED
  BY <1>1, Invariance, PTL

-----------------------------------------------------------------------------
(* Refinement: the sessions of the channel are those of SecureSession.  An *)
(* open that derives wrong keys is a session of its own, which the card    *)
(* never enters.                                                           *)

\* The entries accepted, as SecureSession sees them.
answers == {r.ans : r \in accepted}

\* Facts about that projection.
LEMMA AnswerOfAccepted ==
    ASSUME NEW q, NEW e, [req |-> q, ans |-> e] \in accepted
    PROVE  e \in answers
<1>1. [req |-> q, ans |-> e].ans = e
  OBVIOUS
<1> QED
  BY <1>1, Zenon DEF answers

LEMMA AnswersOfUnion ==
    ASSUME NEW A, NEW x
    PROVE  {r.ans : r \in A \cup {x}} = {r.ans : r \in A} \cup {x.ans}
BY Zenon

\* A new channel is a closed one.
LEMMA RefinementInit == Init => Promise!Init
BY DEF Init, Promise!Init

\* What the open channel seals is issued when all before it were accepted,
\* under a number above theirs.
LEMMA IssueStep ==
    ASSUME IInv, NEW c \in AllCommands, SealsOne(c)
    PROVE  Promise!Issue
<1>1. /\ ~Sealing /\ issued' = issued \cup {wire'}
      /\ wire'.s = key /\ wire'.n = Len(iv) /\ wire'.c = c /\ wire' \in Entries
      /\ UNCHANGED <<open, key, executed, accepted>> /\ open /\ key # 0
  BY SealsOneFacts DEF SealsOne, IInv, OpenInv
<1>2. wire' = [s |-> key, n |-> Len(iv), c |-> c] /\ Len(iv) \in Positions
  BY <1>1 DEF Entries
<1>3. \A e \in issued : e.s = key => e.n < Len(iv) /\ [req |-> e, ans |-> e] \in accepted
  BY <1>1 DEF IInv, CounterInv, Sealing
<1>4. \A e \in issued : e.s = key => e \in answers
  BY <1>3, AnswerOfAccepted
<1>5. answers \subseteq issued
  BY DEF IInv, AcceptedInv, CardInv, answers
<1>6. {e \in issued : e.s = key} = {e \in answers : e.s = key}
  BY <1>4, <1>5
<1> HIDE DEF answers
<1> QED
  BY <1>1, <1>2, <1>3, <1>6 DEF Promise!Issue, Promise!Of, answers

\* The card executes an issued entry once, after those before it.
LEMMA ExecuteStep ==
    ASSUME IInv, CardExecutes
    PROVE  Promise!Execute
<1>1. /\ Sealing /\ net.e = wire /\ wire \in issued /\ wire.n + 1 = Len(iv)
      /\ wire.n = Len(cardIv) /\ cardKey = key /\ open
      /\ executed' = executed \cup {wire}
      /\ UNCHANGED <<open, key, issued, accepted>>
  BY DEF CardExecutes, IInv, NetInv, OpenInv, host
<1>2. wire \notin executed
  <2>1. iv \in Seq(Links) /\ <<"answer", wire.c>> \in Links
    BY <1>1 DEF IInv, TypeOK, OpenInv, Links
  <2>2. Len(Append(iv, <<"answer", wire.c>>)) = Len(iv) + 1 /\ Len(iv) \in Nat
    BY <2>1
  <2>3. cardIv # Append(iv, <<"answer", wire.c>>)
    BY <1>1, <2>2
  <2> QED
    BY <1>1, <2>3 DEF IInv, CardInv
<1>3. ASSUME NEW f \in issued, f.s = wire.s, f.n < wire.n
      PROVE  f \in executed
  <2>1. wire.n > f.n /\ wire.s = f.s
    BY <1>1, <1>3 DEF IInv, TypeOK, Entries, Positions
  <2>2. [req |-> f, ans |-> f] \in accepted
    BY <1>1, <1>3, <2>1 DEF IInv, OnlyLastInDoubt
  <2>3. [req |-> f, ans |-> f].ans = f
    OBVIOUS
  <2> QED
    BY <2>2, <2>3 DEF IInv, AcceptedInv
<1> QED
  BY <1>1, <1>2, <1>3 DEF Promise!Execute, Promise!Of

\* Transmit accepts the answer of an executed entry, once.
LEMMA AcceptStep ==
    ASSUME IInv, TransmitDecrypts
    PROVE  Promise!Accept
<1>1. /\ Sealing /\ open /\ wire \in executed /\ wire.s = key
      /\ accepted' = accepted \cup {[req |-> wire, ans |-> wire]}
      /\ UNCHANGED <<open, key, issued, executed>>
  BY DecryptedOwnAnswer DEF TransmitDecrypts, Returns
<1>2. wire \notin answers
  BY <1>1 DEF IInv, AcceptedInv, answers
<1>3. answers' = answers \cup {wire}
  <2>1. [req |-> wire, ans |-> wire].ans = wire
    OBVIOUS
  <2> QED
    BY <1>1, <2>1, AnswersOfUnion DEF answers
<1> QED
  BY <1>1, <1>2, <1>3 DEF Promise!Accept, answers

\* An open starts a session nothing was issued in.
LEMMA OpenSessionStep ==
    ASSUME IInv, processOpenResponse
    PROVE  Promise!Open
<1>1. open' = TRUE /\ UNCHANGED <<issued, executed, accepted>>
  BY DEF processOpenResponse, hist
<1> QED
  BY <1>1, FreshKey DEF Promise!Open, Promise!Of

\* Every step is a step of SecureSession or leaves its variables alone.
LEMMA RefinementStep ==
    IInv /\ [Next]_vars => [Promise!Next]_(Promise!svars)
<1> SUFFICES ASSUME IInv, [Next]_vars
             PROVE  Promise!Next \/ UNCHANGED Promise!svars
  OBVIOUS
<1> USE DEF Promise!Next, Promise!svars
<1>1. CASE UNCHANGED <<open, key, issued, executed, accepted>>
  BY <1>1
<1>2. CASE ~open' /\ UNCHANGED <<issued, executed, accepted>>
  BY <1>2 DEF Promise!Close
<1>3. CASE processOpenResponse
  BY <1>3, OpenSessionStep
<1>4. ASSUME NEW c \in Commands, SendProtected(c)
      PROVE  Promise!Next \/ UNCHANGED Promise!svars
  <2>1. CASE SealsOne(c)
    BY <2>1, IssueStep DEF AllCommands
  <2> QED
    BY <1>1, <1>4, <2>1, SealsOneOf
<1>5. CASE MutuallyAuthenticate
  BY <1>5, SealsOneOf, IssueStep DEF AllCommands
<1>6. CASE TransmitDecrypts
  BY <1>6, AcceptStep
<1>7. CASE CardExecutes
  BY <1>7, ExecuteStep
<1>8. CASE Reset \/ AutoOpen \/ TransmitFails
  BY <1>2, <1>8 DEF Reset, AutoOpen, SendsOpen, TransmitFails, Returns
<1>9. CASE OpenSecureChannel \/ OpenFails \/ TransmitRaw
  BY <1>1, <1>9 DEF OpenSecureChannel, SendsOpen, OpenFails, TransmitRaw, Returns, host, hist
<1>10. CASE Pair \/ \E p \in {"nil", "valid", "stale"} : SetPairing(p)
  BY <1>1, <1>10 DEF Pair, SetPairing, host, hist
<1> HIDE DEF Promise!Next, Promise!svars
<1> QED
  BY <1>1, <1>3, <1>4, <1>5, <1>6, <1>7, <1>8, <1>9, <1>10
  DEF Next, Client, Library, Card, Environment, CardOpens, CardRefuses,
      CardAnswersPlain, CardReset, SendFails, AnswerDamaged, vars, host, hist

\* The V1 channel keeps the promise of SecureSession.
THEOREM Refinement == Spec => ImplementsSecureSession
  BY Invariance, RefinementInit, RefinementStep, PTL
  DEF Spec, ImplementsSecureSession, Promise!Spec

=============================================================================
