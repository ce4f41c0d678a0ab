------------------------------ MODULE Exchange ------------------------------
(***************************************************************************)
(* One call of the command set, down to the bytes in the reader: it seals  *)
(* a command (Sealing) unless the channel is closed, serialises the frame  *)
(* (Apdu), fetches the answer with GET RESPONSE where the card asks for it *)
(* (io/normal_channel.go), unseals it and reads the status word as that    *)
(* call does (VerifyPIN, ChangePIN, UnblockPIN, StoreData and GetData of   *)
(* command_set.go).  The session is open from the start; SecureChannelV1   *)
(* and SecureChannelV2 model how it gets there, and what a closed channel  *)
(* does next.                                                              *)
(***************************************************************************)
EXTENDS Sealing

CONSTANTS
    Pins, Puks,     \* byte strings of one length each
    MaxTries,       \* the card's limit on wrong PINs, and on wrong PUKs
    Records,        \* byte strings a client stores
    MaxRecord,      \* the longest record the card takes
    Pieces,         \* bytes of an answer to GET RESPONSE that may come before 0x61xx
    MaxCalls        \* bound on the calls of a behaviour

ASSUME ExchangeAssumption ==
    /\ Pins # {} /\ Puks # {}
    /\ Pins \cup Puks \cup Records \subseteq Seq(SUBSET {Bit(k) : k \in 0..7})
    /\ MaxTries \in 1..15
    /\ MaxCalls \in Nat /\ MaxRecord \in Nat /\ Pieces \subseteq Nat

VARIABLES
    \* the host
    ver,        \* "V1", "V2", or "clear": a channel that was never opened
    open,       \* sc.open
    nonce,      \* V2: sc.nonceCounter
    iv,         \* V1: sc.iv
    pc,         \* "idle", "sent" (the card's turn) or "answered"
    call,       \* the call in progress, or the last one
    cmd,        \* the command Send transmitted last
    raw,        \* the bytes in the reader
    intact,     \* the reader has not damaged an answer to this call: it does once
    result,     \* what the last call returned
    calls,      \* calls made so far
    \* the card
    session,    \* it shares the channel's keys
    cardNonce, cardIv,
    pending,    \* the rest of an answer, for GET RESPONSE
    verified, pin, pinLeft, puk, pukLeft, stored,
    \* history, of the call in progress or returned last
    executed,   \* the commands the card executed
    answer      \* what the card answered to them, before it was sealed

host == <<ver, open, nonce, iv>>
wallet == <<verified, pin, pinLeft, puk, pukLeft, stored>>
card == <<session, cardNonce, cardIv, pending, wallet>>
hist == <<executed, answer>>
exchangeVars == <<host, pc, call, cmd, raw, intact, result, calls, card, hist>>

-----------------------------------------------------------------------------
(* Commands and results *)

ClaGp == ToByte(128)
ClaISO7816 == ToByte(0)
InsSecuredAPDU == ToByte(24)
InsGetResponse == ToByte(192)
Sw1ResponseDataIncomplete == ToByte(97)
SwSecurityConditionNotSatisfied == SwBytes(27010)
SwWrongPINMask == SwBytes(25536)

InsOf == [VerifyPIN |-> ToByte(32), ChangePIN |-> ToByte(33), UnblockPIN |-> ToByte(34),
          StoreData |-> ToByte(226), GetData |-> ToByte(202)]

Call(name, data) == [name |-> name, data |-> data]
NoCall == Call("none", <<>>)
Requests ==
    {Call(name, p) : name \in {"VerifyPIN", "ChangePIN"}, p \in Pins}
    \cup {Call("UnblockPIN", k \o p) : k \in Puks, p \in Pins}
    \cup {Call("StoreData", r) : r \in Records}
    \cup {Call("GetData", <<>>)}

CommandOf(c) == NewCommand(ClaGp, InsOf[c.name], {}, {}, c.data)
NewCommandGetResponse(length) ==
    SetLe(NewCommand(ClaISO7816, InsGetResponse, {}, {}, <<>>), length)

NoAnswer == [data |-> <<>>, sw |-> <<>>]
Answer(data, sw) == [data |-> data, sw |-> sw]

Result(kind, data, left) == [kind |-> kind, data |-> data, left |-> left]
Error == Result("error", <<>>, 0)

ExchangeInit ==
    /\ ver \in {"V1", "V2", "clear"}
    /\ open = (ver # "clear")
    /\ nonce = 0
    /\ iv = Encrypt("salt", Zeroes(BlockLen))
    /\ pc = "idle"
    /\ call = NoCall
    /\ cmd = CommandOf(Call("GetData", <<>>))
    /\ raw = <<>>
    /\ intact = TRUE
    /\ result = Result("none", <<>>, 0)
    /\ calls = 0
    /\ session = open
    /\ cardNonce = nonce
    /\ cardIv = iv
    /\ pending = <<>>
    /\ verified = FALSE
    /\ pin = CHOOSE p \in Pins : TRUE
    /\ pinLeft \in 0..MaxTries
    /\ puk = CHOOSE k \in Puks : TRUE
    /\ pukLeft = MaxTries
    /\ stored = <<>>
    /\ executed = <<>>
    /\ answer = NoAnswer

-----------------------------------------------------------------------------
(* Sending *)

\* Serialize and Transmit, of Send.
Transmits(c) ==
    /\ cmd' = c
    /\ raw' = Serialize(c)
    /\ pc' = "sent"

Returns(r) ==
    /\ pc' = "idle"
    /\ raw' = <<>>
    /\ result' = r
    /\ UNCHANGED <<call, cmd, intact, calls, card, hist>>

\* ProtectedCommand of V1: the MAC of the frame becomes the IV and goes first.
MaxLength == LcSpace - 1
ProtectedV1(c) ==
    LET encrypted == EncryptData(c.data, "enc", iv)
        length == Len(encrypted) + BlockLen
        mac == CalculateMAC(commandMeta(Head4(c), length), encrypted, "mac")
    IN  /\ length <= MaxLength
        /\ iv' = mac
        /\ Transmits([c EXCEPT !.data = mac \o encrypted])
        /\ UNCHANGED nonce

\* ProtectedCommand of V2: the limit is that of the inner length, not the frame's.
ProtectedV2(c) ==
    LET inner == Head4(c) \o <<Length(Len(c.data))>> \o c.data
    IN  /\ Len(c.data) <= MaxLength
        /\ Transmits(NewCommand(ClaGp, InsSecuredAPDU, {}, {},
                         EncryptAndAuthenticate("h2c", nonce, inner)))
        /\ UNCHANGED <<nonce, iv>>

TooLong(c) ==
    \/ ver = "V1" /\ Len(EncryptData(c.data, "enc", iv)) + BlockLen > MaxLength
    \/ ver = "V2" /\ Len(c.data) > MaxLength

Begin(c) ==
    /\ pc = "idle"
    /\ calls < MaxCalls
    /\ calls' = calls + 1
    /\ call' = c
    /\ executed' = <<>>
    /\ answer' = NoAnswer
    /\ intact' = TRUE
    /\ UNCHANGED <<ver, open, card>>

\* sendProtected.
Sends(c) ==
    /\ Begin(c)
    /\ LET command == CommandOf(c)
       IN  \/ open /\ ver = "V1" /\ ProtectedV1(command)
           \/ open /\ ver = "V2" /\ ProtectedV2(command)
           \/ /\ ~open /\ ver # "V1"
              /\ Transmits(command)
              /\ UNCHANGED <<nonce, iv>>
    /\ UNCHANGED result

\* A V1 channel that was closed, or a payload that is too large.
Refuses(c) ==
    /\ Begin(c)
    /\ \/ ~open /\ ver = "V1"
       \/ open /\ TooLong(CommandOf(c))
    /\ result' = Error
    /\ UNCHANGED <<nonce, iv, pc, cmd, raw>>

-----------------------------------------------------------------------------
(* Receiving *)

resp == ParseResponse(raw)

\* Bug: every 0x61xx is followed up.
WantsMoreAlways == resp.ok /\ resp.sw1 = Sw1ResponseDataIncomplete

\* The answer waits in the card, unless it was GET RESPONSE that came to this.
WantsMore ==
    /\ resp.ok
    /\ resp.sw1 = Sw1ResponseDataIncomplete
    /\ cmd.cla # ClaISO7816 \/ cmd.ins # InsGetResponse

\* Send calls itself; the data of this answer is dropped.
SendsGetResponse ==
    /\ pc = "answered"
    /\ WantsMore
    /\ Transmits(NewCommandGetResponse(resp.sw2))
    /\ UNCHANGED <<host, call, intact, result, calls, card, hist>>

\* Bug: every status word that begins like a wrong PIN's counts as one.
CheckOKLoose(r) ==
    IF ~r.ok THEN Error
    ELSE IF Sw(r) = SwOK THEN Result("ok", r.data, 0)
    ELSE IF call.name \in {"VerifyPIN", "UnblockPIN"} /\ Bit(6) \in r.sw1
    THEN Result("wrong", <<>>, ToNumber(r.sw2 \cap ToByte(15)))
    ELSE Result("refused", <<>>, 0)

\* CheckOK, and the attempts left that VerifyPIN (WrongPINError) and UnblockPIN
\* (WrongPUKError) find in a status word which has the bits of 0x63C0.
CheckOK(r) ==
    IF ~r.ok THEN Error
    ELSE IF Sw(r) = SwOK THEN Result("ok", r.data, 0)
    ELSE IF call.name \in {"VerifyPIN", "UnblockPIN"} /\ Masked(Sw(r), SwWrongPINMask)
    THEN Result("wrong", <<>>, ToNumber(r.sw2 \cap ToByte(15)))
    ELSE Result("refused", <<>>, 0)

Closes(r) ==
    /\ open' = FALSE
    /\ UNCHANGED <<ver, nonce, iv>>
    /\ Returns(r)

\* Send has its answer: an error, or what Transmit makes of it below.
Received == pc = "answered" /\ ~WantsMore

TransmitFails == Received /\ ~resp.ok /\ Closes(Error)

TransmitClear ==
    /\ Received /\ resp.ok
    /\ ~open
    /\ UNCHANGED host
    /\ Returns(CheckOK(resp))

TransmitV1 ==
    /\ Received /\ resp.ok
    /\ open /\ ver = "V1"
    /\ LET rmac == SubSeq(resp.data, 1, BlockLen)
           rdata == SubSeq(resp.data, BlockLen + 1, Len(resp.data))
           plain == DecryptData(rdata, "enc", iv)
           mac == CalculateMAC(answerMeta(Len(resp.data)), rdata, "mac")
       IN  IF Sw(resp) = SwSecurityConditionNotSatisfied THEN Closes(CheckOK(resp))
           ELSE IF Len(resp.data) < BlockLen \/ ~plain.ok THEN Closes(Error)
           ELSE IF mac # rmac
           THEN iv' = mac /\ open' = FALSE /\ UNCHANGED <<ver, nonce>> /\ Returns(Error)
           ELSE /\ iv' = mac
                /\ UNCHANGED <<ver, open, nonce>>
                /\ Returns(CheckOK(ParseResponse(plain.data)))

\* Bug: the tag is not compared.
TransmitV2Unchecked ==
    /\ Received /\ resp.ok
    /\ open /\ ver = "V2"
    /\ LET n == Len(resp.data) - TagLen
           buf == ctrCrypt("c2h", nonce, TagFirst(Zeroes(TagLen), SubSeq(resp.data, 1, n)))
       IN  IF Sw(resp) # SwOK THEN Closes(CheckOK(resp))
           ELSE IF n < 0 THEN Closes(Error)
           ELSE /\ nonce' = nonce + 1
                /\ UNCHANGED <<ver, open, iv>>
                /\ Returns(CheckOK(ParseResponse(SubSeq(buf, BlockLen + 1, Len(buf)))))

TransmitV2 ==
    /\ Received /\ resp.ok
    /\ open /\ ver = "V2"
    /\ LET plain == DecryptAndAuthenticate("c2h", nonce, resp.data)
       IN  IF Sw(resp) # SwOK THEN Closes(CheckOK(resp))
           ELSE IF ~plain.ok THEN Closes(Error)
           ELSE /\ nonce' = nonce + 1
                /\ UNCHANGED <<ver, open, iv>>
                /\ Returns(CheckOK(ParseResponse(plain.data)))

-----------------------------------------------------------------------------
(* The card (external) *)

\* A frame is as long as it says; without data the fifth byte is Le.
Lc == IF Len(raw) <= 5 THEN 0 ELSE ToNumber(raw[5])
WellFormed == Len(raw) \in 4..5 \/ Len(raw) - 5 - Lc \in 0..1
FrameHead == SubSeq(raw, 1, 4)
FrameData == SubSeq(raw, 6, 5 + Lc)

SwWrongLength == SwBytes(26368)
SwConditionsOfUseNotSatisfied == SwBytes(27013)
SwWrongData == SwBytes(27264)
SwTriesLeft(n) == SwBytes(25536 + n)

\* Whole, or the first n bytes and a 0x61xx with the length of the rest.
Delivers(bytes, parts) ==
    /\ pc' = "answered"
    /\ \/ raw' = bytes /\ pending' = <<>>
       \/ \E n \in parts :
             /\ n < Len(bytes) - 2
             /\ raw' = SubSeq(bytes, 1, n) \o <<Sw1ResponseDataIncomplete, Length(Len(bytes) - 2 - n)>>
             /\ pending' = SubSeq(bytes, n + 1, Len(bytes))
    /\ UNCHANGED <<host, call, cmd, intact, result, calls>>

\* T = 1 brings the answer to a command, T = 0 a 0x61xx without any of its bytes.
Answers(bytes) == Delivers(bytes, {0})

\* A wrong PIN or PUK costs one try.
CardVerifiesPIN(data) ==
    LET right == pinLeft > 0 /\ data = pin
        left == IF right THEN MaxTries ELSE IF pinLeft = 0 THEN 0 ELSE pinLeft - 1
    IN  /\ pinLeft' = left
        /\ verified' = right
        /\ answer' = Answer(<<>>, IF right THEN SwOK ELSE SwTriesLeft(left))
        /\ UNCHANGED <<pin, puk, pukLeft, stored>>

CardChangesPIN(data) ==
    /\ IF verified
       THEN pin' = data /\ answer' = Answer(<<>>, SwOK)
       ELSE answer' = Answer(<<>>, SwConditionsOfUseNotSatisfied) /\ UNCHANGED pin
    /\ UNCHANGED <<verified, pinLeft, puk, pukLeft, stored>>

\* Only a blocked PIN is unblocked.
CardUnblocksPIN(data) ==
    LET given == SubSeq(data, 1, Len(puk))
        right == pukLeft > 0 /\ given = puk
        left == IF right THEN MaxTries ELSE IF pukLeft = 0 THEN 0 ELSE pukLeft - 1
    IN  /\ IF pinLeft > 0
           THEN /\ answer' = Answer(<<>>, SwConditionsOfUseNotSatisfied)
                /\ UNCHANGED <<verified, pin, pinLeft, pukLeft>>
           ELSE /\ pukLeft' = left
                /\ verified' = right
                /\ pin' = IF right THEN SubSeq(data, Len(puk) + 1, Len(data)) ELSE pin
                /\ pinLeft' = IF right THEN MaxTries ELSE pinLeft
                /\ answer' = Answer(<<>>, IF right THEN SwOK ELSE SwTriesLeft(left))
        /\ UNCHANGED <<puk, stored>>

CardStoresData(data) ==
    /\ IF Len(data) <= MaxRecord
       THEN stored' = data /\ answer' = Answer(<<>>, SwOK)
       ELSE answer' = Answer(<<>>, SwWrongData) /\ UNCHANGED stored
    /\ UNCHANGED <<verified, pin, pinLeft, puk, pukLeft>>

CardGetsData == answer' = Answer(stored, SwOK) /\ UNCHANGED wallet

Executes(head, data) ==
    /\ executed' = Append(executed, [ins |-> head[2], data |-> data])
    /\ \/ head[2] = InsOf.VerifyPIN /\ CardVerifiesPIN(data)
       \/ head[2] = InsOf.ChangePIN /\ CardChangesPIN(data)
       \/ head[2] = InsOf.UnblockPIN /\ CardUnblocksPIN(data)
       \/ head[2] = InsOf.StoreData /\ CardStoresData(data)
       \/ head[2] = InsOf.GetData /\ CardGetsData

IsGetResponse == FrameHead[1] = ClaISO7816 /\ FrameHead[2] = InsGetResponse

\* A status word outside any sealing; drops: the session ends.
CardRejects(sw, drops) ==
    /\ pc' = "answered"
    /\ raw' = sw
    /\ pending' = <<>>
    /\ session' = (session /\ ~drops)
    /\ UNCHANGED <<host, call, cmd, intact, result, calls, cardNonce, cardIv, wallet, hist>>

CardTurn == pc = "sent" /\ WellFormed

CardRejectsFrame == pc = "sent" /\ ~WellFormed /\ CardRejects(SwWrongLength, FALSE)

CardContinues ==
    /\ CardTurn
    /\ IsGetResponse
    /\ IF pending = <<>> THEN CardRejects(SwConditionsOfUseNotSatisfied, FALSE)
       ELSE Delivers(pending, Pieces) /\ UNCHANGED <<session, cardNonce, cardIv, wallet, hist>>

\* Without secure channel; an applet that has one takes none of these commands
\* in the clear.
CardTakesClear ==
    /\ CardTurn
    /\ ~IsGetResponse
    /\ IF ver = "clear"
       THEN /\ Executes(FrameHead, FrameData)
            /\ Answers(answer'.data \o answer'.sw)
            /\ UNCHANGED <<session, cardNonce, cardIv>>
       ELSE /\ ~session \/ (ver = "V2" /\ FrameHead[2] # InsSecuredAPDU)
            /\ CardRejects(SwConditionsOfUseNotSatisfied, FALSE)

CardTakesV1 ==
    /\ CardTurn
    /\ ~IsGetResponse
    /\ session /\ ver = "V1"
    /\ LET mac == SubSeq(FrameData, 1, BlockLen)
           encrypted == SubSeq(FrameData, BlockLen + 1, Len(FrameData))
           plain == DecryptData(encrypted, "enc", cardIv)
           sealed == EncryptData(answer'.data \o answer'.sw, "enc", mac)
       IN  IF plain.ok /\ mac = CalculateMAC(commandMeta(FrameHead, Len(FrameData)), encrypted, "mac")
           THEN /\ Executes(FrameHead, plain.data)
                /\ cardIv' = CalculateMAC(answerMeta(BlockLen + Len(sealed)), sealed, "mac")
                /\ Answers(cardIv' \o sealed \o SwOK)
                /\ UNCHANGED <<session, cardNonce>>
           ELSE CardRejects(SwSecurityConditionNotSatisfied, TRUE)

CardTakesV2 ==
    /\ CardTurn
    /\ ~IsGetResponse
    /\ session /\ ver = "V2" /\ FrameHead[2] = InsSecuredAPDU
    /\ LET plain == DecryptAndAuthenticate("h2c", cardNonce, FrameData)
           inner == plain.data
       IN  IF plain.ok /\ inner[5] = Length(Len(inner) - 5)
           THEN /\ Executes(SubSeq(inner, 1, 4), SubSeq(inner, 6, Len(inner)))
                /\ Answers(EncryptAndAuthenticate("c2h", cardNonce, answer'.data \o answer'.sw) \o SwOK)
                /\ cardNonce' = cardNonce + 1
                /\ UNCHANGED <<session, cardIv>>
           ELSE CardRejects(SwSecurityConditionNotSatisfied, TRUE)

\* Power is lost: counters and data stay.
CardReset ==
    /\ session \/ pending # <<>> \/ verified
    /\ session' = FALSE
    /\ pending' = <<>>
    /\ verified' = FALSE
    /\ UNCHANGED <<host, pc, call, cmd, raw, intact, result, calls, cardNonce, cardIv,
                   pin, pinLeft, puk, pukLeft, stored, hist>>

-----------------------------------------------------------------------------
(* The reader (external) *)

\* Transmit of the reader returns an error, before the card has the frame or
\* after: Send's error closes the channel.
ReaderFails ==
    /\ pc \in {"sent", "answered"}
    /\ open' = FALSE
    /\ UNCHANGED <<ver, nonce, iv>>
    /\ Returns(Error)

\* The answer does not even have a status word.
AnswerCutShort ==
    /\ pc = "answered"
    /\ intact
    /\ intact' = FALSE
    /\ raw' = SubSeq(raw, 1, 1)
    /\ UNCHANGED <<host, pc, call, cmd, result, calls, card, hist>>

\* A bit of a sealed answer flips, or a byte of it is missing.
AnswerDamaged ==
    /\ pc = "answered"
    /\ open
    /\ intact
    /\ intact' = FALSE
    /\ \E i \in 1..(Len(raw) - 2) :
          \/ raw' = [raw EXCEPT ![i] = Xor(@, {Bit(0)})]
          \/ raw' = SubSeq(raw, 1, i - 1) \o SubSeq(raw, i + 1, Len(raw))
    /\ UNCHANGED <<host, pc, call, cmd, result, calls, card, hist>>

-----------------------------------------------------------------------------

Library ==
    \/ SendsGetResponse
    \/ TransmitFails
    \/ TransmitClear
    \/ TransmitV1
    \/ TransmitV2

Card ==
    \/ CardRejectsFrame
    \/ CardContinues
    \/ CardTakesClear
    \/ CardTakesV1
    \/ CardTakesV2

ExchangeNext ==
    \/ \E c \in Requests : Sends(c)
    \/ \E c \in Requests : Refuses(c)
    \/ Library
    \/ Card
    \/ CardReset
    \/ ReaderFails
    \/ AnswerCutShort
    \/ AnswerDamaged

\* A turn ends with the library transmitting or returning, with the card's answer,
\* or with the reader's error.
TurnEnds == pc # "idle" /\ pc' \in {"idle", "sent", "answered"} \ {pc}

\* Send is a synchronous call: the library runs on, and the reader reports within
\* its own timeout if the card does not answer.
ExchangeSpec == ExchangeInit /\ [][ExchangeNext]_exchangeVars /\ WF_pc(TurnEnds)

-----------------------------------------------------------------------------
(* Properties *)

\* The card executes a call's command once at most, with exactly the data that
\* was asked for: a length that does not fit one byte (apdu/command.go:67), a
\* padding or a GET RESPONSE never makes another command of it or repeats it.
ExecutedAsBuilt ==
    executed # <<>> => executed = <<[ins |-> InsOf[call.name], data |-> call.data]>>

\* What a call returns is what the card answered to this very command, whole:
\* nil with the card's data, a wrong PIN or PUK with the tries the card has left.
TellsCardsAnswer ==
    /\ result.kind = "ok" /\ pc = "idle" =>
          executed # <<>> /\ answer = Answer(result.data, SwOK)
    /\ result.kind = "wrong" /\ pc = "idle" =>
          /\ answer.sw = SwTriesLeft(result.left)
          /\ result.left = IF call.name = "VerifyPIN" THEN pinLeft ELSE pukLeft

\* Every call returns, however the card splits its answers.
CallReturns == []<>(pc = "idle")

=============================================================================
