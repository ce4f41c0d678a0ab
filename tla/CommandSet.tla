----------------------------- MODULE CommandSet -----------------------------
(***************************************************************************)
(* The command set (command_set.go): which secure channel it installs for  *)
(* the applet it selected, and the calls that take several exchanges.      *)
(*                                                                         *)
(* Cards come and go in the reader, also between two exchanges of a call.  *)
(* A channel is known by the card whose certificate or public key it was   *)
(* made from; that a sealed command is executed only by the card of its    *)
(* session is what SecureChannelV1 and SecureChannelV2 show.  An exchange  *)
(* is one step, whose answer may be lost after the card has executed it.   *)
(***************************************************************************)
EXTENDS Naturals, FiniteSetsExt

CONSTANTS
    Cards,
    Kind,       \* of each card: its applet's major version, or no secure channel
    Trusted,    \* the cards whose certificate a CA or the whitelist vouches for
    Records,    \* lengths of NDEF records, in words of four bytes
    ChunkWords, \* NDEFMaxChunkSize, in words
    P2Space,    \* 256: the words an eight-bit P2 can address
    None

ASSUME ConstantsAssumption ==
    /\ Kind \in [Cards -> {"v2", "v3", "v4", "bare"}]
    /\ Trusted \subseteq Cards
    /\ Records \subseteq Nat \ {0} /\ Records # {}
    /\ \E m \in Records : \A k \in Records : k <= m
    /\ ChunkWords \in Nat \ {0}
    /\ P2Space \in Nat \ {0}
    /\ None \notin Cards

VARIABLES
    \* CommandSet
    sc,             \* cs.sc
    appInfo,        \* cs.ApplicationInfo
    \* the call in progress
    pc,             \* "idle", "init" or "ndef"
    record,         \* words of the record SetNDEF stores
    off,            \* words of it sent so far
    last,           \* the call that returned last and whether without error
    \* the cards
    slot,           \* the card in the reader
    selected,       \* its applet is selected
    session,        \* it shares the keys of sc
    initialized,    \* by card
    paired,         \* by card: it knows this client's pairing key
    \* history
    initForm,       \* how the INIT of the current call went out
    initBy,         \* cards that executed the INIT of the current call
    written         \* by card: where it stored which word of the current SetNDEF

host == <<sc, appInfo>>
cards == <<slot, selected, session, initialized, paired>>
hist == <<initForm, initBy, written>>
ndef == <<record, off>>
vars == <<host, pc, ndef, last, cards, hist>>

Versions == {"none", "v2", "v3", "v4"}
Calls ==
    {"none", "Select", "Init", "Open", "Pair", "PairPanics", "Unpair", "Command", "SetNDEF", "FactoryReset"}

\* of: the card the channel was made from; pairing: the card of the pairing.
Channel(ver, c) ==
    [ver |-> ver, of |-> c, pairing |-> None, open |-> FALSE, established |-> FALSE]

\* The words of a record, and where a card can store them.
Words == 0..(Max(Records) - 1)
Addresses == 0..(Max(Records \cup {P2Space + ChunkWords}) - 1)
Unwritten == [c \in Cards |-> [a \in Addresses |-> None]]

TypeOK ==
    /\ sc \in [ver : {"V1", "V2"}, of : Cards \cup {None}, pairing : Cards \cup {None},
               open : BOOLEAN, established : BOOLEAN]
    /\ appInfo \in [of : Cards \cup {None}, version : Versions, capable : BOOLEAN]
    /\ pc \in {"idle", "init", "ndef"}
    /\ record \in Records \cup {0}
    /\ off \in 0..record
    /\ last \in Calls \X BOOLEAN
    /\ slot \in Cards
    /\ selected \in BOOLEAN
    /\ session \in BOOLEAN
    /\ initialized \in [Cards -> BOOLEAN]
    /\ paired \in [Cards -> BOOLEAN]
    /\ initForm \in {"none", "oneShot", "sealed", "plain"}
    /\ initBy \subseteq Cards
    /\ written \in [Cards -> [Addresses -> Words \cup {None}]]

\* NewCommandSetWithCAs: a V2 channel without certificate, an empty info.
Init ==
    /\ sc = Channel("V2", None)
    /\ appInfo = [of |-> None, version |-> "none", capable |-> FALSE]
    /\ pc = "idle"
    /\ record = 0
    /\ off = 0
    /\ last = <<"none", TRUE>>
    /\ slot \in Cards
    /\ selected = FALSE
    /\ session = FALSE
    /\ initialized \in {i \in [Cards -> BOOLEAN] : \A c \in Cards : i[c] => Kind[c] # "bare"}
    /\ paired = [c \in Cards |-> FALSE]
    /\ initForm = "none"
    /\ initBy = {}
    /\ written = Unwritten

\* The histories are those of the call in progress or returned last.
NoRecord == record' = 0 /\ off' = 0 /\ written' = Unwritten
Forget == initForm' = "none" /\ initBy' = {} /\ NoRecord

Begin(call) ==
    /\ pc' = call
    /\ last' = <<"none", TRUE>>

Return(call, ok) ==
    /\ pc' = "idle"
    /\ last' = <<call, ok>>

-----------------------------------------------------------------------------
(* Exchanges *)

\* [done, answer]: whether the card executed a command it could execute, and
\* what came back: "inner" is a status word inside a sealed answer, "refused"
\* one outside, "lost" an error of Send or a damaged answer.
Outcomes(form, able) ==
    LET reached == IF form = "sealed" THEN session ELSE selected
        refusal == IF form = "sealed" /\ session THEN "inner" ELSE "refused"
    IN  {[done |-> FALSE, answer |-> refusal], [done |-> FALSE, answer |-> "lost"]}
        \cup (IF reached /\ able
              THEN {[done |-> TRUE, answer |-> "ok"], [done |-> TRUE, answer |-> "lost"]}
              ELSE {})

\* sendProtected's ProtectedCommand: an error when a V1 channel was closed, and
\* otherwise the form the command goes out in.
Refused == sc.ver = "V1" /\ ~sc.open /\ sc.established
Form == IF sc.open THEN "sealed" ELSE "plain"

\* sendProtected's Transmit: the channel stays open on a sealed answer only.
Transmitted(r) ==
    /\ sc' = [sc EXCEPT !.open = @ /\ r.answer \in {"ok", "inner"}]
    /\ session' = (session /\ r.answer # "refused")

-----------------------------------------------------------------------------
(* Select *)

\* ParseApplicationInfo: an applet that is not initialized shows a public key
\* and no version, except from version 4 on.
AppInfoOf(c) ==
    [of |-> c,
     version |-> IF Kind[c] = "bare" \/ (~initialized[c] /\ Kind[c] # "v4")
                 THEN "none" ELSE Kind[c],
     capable |-> Kind[c] # "bare"]

isSecureChannelV2(info) == info.version = "v4"

\* No usable answer: only the card may have noticed.
SelectFails ==
    /\ pc = "idle"
    /\ \/ selected' = TRUE /\ session' = FALSE
       \/ UNCHANGED <<selected, session>>
    /\ Return("Select", FALSE)
    /\ UNCHANGED <<host, slot, initialized, paired>>
    /\ Forget

\* Bug: the channel is installed before the certificate is looked at.
installBeforeCheck ==
    IF isSecureChannelV2(appInfo')
    THEN /\ sc' = Channel("V2", slot)
         /\ Return("Select", slot \in Trusted)
    ELSE /\ sc' = Channel("V1", slot)
         /\ Return("Select", TRUE)

\* Bug: the V1 channel in place is kept for the sake of its pairing.
installKeepsV1 ==
    IF isSecureChannelV2(appInfo')
    THEN /\ sc' = IF slot \in Trusted THEN Channel("V2", slot) ELSE sc
         /\ Return("Select", slot \in Trusted)
    ELSE /\ sc' = IF sc.ver = "V1" THEN sc ELSE Channel("V1", slot)
         /\ Return("Select", TRUE)

\* A fresh channel for the version found, unless SetCardCertificate rejects the
\* certificate or GenerateSecret the public key: then the old one stays.  A V2
\* channel for an applet that shows no certificate is nobody's: it never opens.
install ==
    \/ /\ isSecureChannelV2(appInfo')
       /\ \/ /\ sc' = IF slot \in Trusted THEN Channel("V2", slot) ELSE sc
             /\ Return("Select", slot \in Trusted)
          \/ /\ sc' = Channel("V2", None)
             /\ Return("Select", TRUE)
    \/ /\ ~isSecureChannelV2(appInfo')
       /\ \/ sc' = Channel("V1", slot) /\ Return("Select", TRUE)
          \/ UNCHANGED sc /\ Return("Select", FALSE)

\* ApplicationInfo is replaced before the channel.
Select ==
    /\ pc = "idle"
    /\ selected' = TRUE
    /\ session' = FALSE
    /\ appInfo' = AppInfoOf(slot)
    /\ IF appInfo'.capable
       THEN install
       ELSE UNCHANGED sc /\ Return("Select", TRUE)
    /\ UNCHANGED <<slot, initialized, paired>>
    /\ Forget

-----------------------------------------------------------------------------
(* Opening *)

\* Bug: the card's signature is not verified against its certificate.
OpenableUnverified ==
    /\ selected
    /\ sc.ver = "V1" => sc.of = slot /\ sc.pairing = slot /\ paired[slot] /\ initialized[slot]

\* The card that is there can complete the handshake of this channel.
Openable ==
    /\ selected
    /\ sc.of = slot
    /\ sc.ver = "V1" => sc.pairing = slot /\ paired[slot] /\ initialized[slot]

\* sc.AutoOpen returns nil, or an error.  Without a pairing a V1 channel is not
\* touched; otherwise it is closed, unless the card's answer to the challenge
\* of an opened V1 channel was an error.
AutoOpenSucceeds ==
    /\ Openable
    /\ sc' = [sc EXCEPT !.open = TRUE, !.established = TRUE]
    /\ session' = TRUE

AutoOpenFails ==
    \/ /\ sc.ver = "V1" /\ sc.pairing = None
       /\ UNCHANGED <<sc, session>>
    \/ /\ sc.ver = "V1" => sc.pairing # None
       /\ sc' = [sc EXCEPT !.open = FALSE]
       /\ session' = FALSE
    \/ /\ sc.ver = "V1" /\ Openable
       /\ sc' = [sc EXCEPT !.open = TRUE]
       /\ session' = TRUE

AutoOpenSecureChannel ==
    /\ pc = "idle"
    /\ \/ AutoOpenSucceeds /\ Return("Open", TRUE)
       \/ AutoOpenFails /\ Return("Open", FALSE)
    /\ UNCHANGED <<appInfo, slot, selected, initialized, paired>>
    /\ Forget

\* The legacy open neither closes the channel first nor waits for the card's
\* answer to the challenge before it marks the channel established.
OpenSecureChannel ==
    /\ pc = "idle"
    /\ \/ /\ sc.ver = "V1" /\ Openable
          /\ sc' = [sc EXCEPT !.open = TRUE, !.established = TRUE]
          /\ session' = TRUE
          /\ \E ok \in BOOLEAN : Return("Open", ok)
       \/ /\ sc.ver = "V1" /\ sc.pairing # None
          /\ sc' = [sc EXCEPT !.open = FALSE, !.established = TRUE]
          /\ session' = FALSE
          /\ Return("Open", FALSE)
       \/ /\ UNCHANGED sc
          /\ session' \in {session, FALSE}
          /\ Return("Open", FALSE)
    /\ UNCHANGED <<appInfo, slot, selected, initialized, paired>>
    /\ Forget

-----------------------------------------------------------------------------
(* Pairing *)

\* The legacy Pair sends in the clear on any channel, and SetPairing drops the
\* result on a V2 one.  AutoPair goes through Transmit, which fails on an open
\* V1 channel and closes it; a V2 channel refuses it.  The legacy Pair slices the
\* answers without measuring them: one of less than 32 bytes to the first step,
\* or an empty one to the second, makes it panic, and nothing has changed on the
\* host for a caller that recovers.
Pair ==
    /\ pc = "idle"
    /\ \/ /\ selected /\ initialized[slot] /\ Kind[slot] \in {"v2", "v3"}
          /\ IF sc.ver = "V1"
             THEN /\ sc' = [sc EXCEPT !.pairing = slot]
                  /\ paired' = [paired EXCEPT ![slot] = TRUE]
             ELSE UNCHANGED <<sc, paired>>
          /\ Return("Pair", TRUE)
       \/ /\ sc' \in {sc, [sc EXCEPT !.open = @ /\ sc.ver = "V2"]}
          /\ UNCHANGED paired
          /\ Return("Pair", FALSE)
       \/ /\ UNCHANGED <<sc, paired>>
          /\ Return("PairPanics", FALSE)
    /\ session' \in {session, FALSE}
    /\ UNCHANGED <<appInfo, slot, selected, initialized>>
    /\ Forget

\* A no-op on a V2 channel.
SetPairing(c) ==
    /\ pc = "idle"
    /\ sc.ver = "V1"
    /\ sc' = [sc EXCEPT !.pairing = c]
    /\ Return("none", TRUE)
    /\ UNCHANGED <<appInfo, cards>>
    /\ Forget

-----------------------------------------------------------------------------
(* Init *)

\* An INIT that reaches a card which can take it.
CardInits(r) ==
    /\ initialized' = IF r.done THEN [initialized EXCEPT ![slot] = TRUE] ELSE initialized
    /\ initBy' = IF r.done THEN {slot} ELSE {}

\* V1: one message encrypted with the secret shared with the card's static key.
InitV1 ==
    /\ pc = "idle"
    /\ sc.ver = "V1"
    /\ initForm' = "oneShot"
    /\ \E r \in Outcomes("oneShot", sc.of = slot /\ ~initialized[slot]) :
          CardInits(r) /\ Return("Init", r.answer = "ok")
    /\ UNCHANGED <<host, slot, selected, session, paired>>
    /\ NoRecord

\* Bug: the error of AutoOpen is not returned.
InitV2Regardless ==
    /\ pc = "idle"
    /\ sc.ver = "V2"
    /\ AutoOpenSucceeds \/ AutoOpenFails
    /\ Begin("init")
    /\ initBy' = {}
    /\ UNCHANGED <<appInfo, slot, selected, initialized, paired>>
    /\ initForm' = "none"
    /\ NoRecord

\* V2: the channel is opened first,
InitV2 ==
    /\ pc = "idle"
    /\ sc.ver = "V2"
    /\ \/ AutoOpenSucceeds /\ Begin("init")
       \/ AutoOpenFails /\ Return("Init", FALSE)
    /\ initBy' = {}
    /\ UNCHANGED <<appInfo, slot, selected, initialized, paired>>
    /\ initForm' = "none"
    /\ NoRecord

\* and INIT is a protected command.
InitSends ==
    /\ pc = "init"
    /\ initForm' = Form
    /\ \E r \in Outcomes(Form, ~initialized[slot]) :
          /\ Transmitted(r)
          /\ CardInits(r)
          /\ Return("Init", r.answer = "ok")
    /\ UNCHANGED <<appInfo, ndef, slot, selected, paired, written>>

-----------------------------------------------------------------------------
(* Calls of one exchange *)

Alone ==
    /\ pc = "idle"
    /\ Forget
    /\ UNCHANGED <<appInfo, slot, selected, initialized>>

\* The call returns an error before it has sent anything.
Rejects(call) ==
    /\ Return(call, FALSE)
    /\ UNCHANGED <<sc, session, paired>>

\* sendProtected; readable: the caller's parser takes the card's answer.
SendProtected(call, readable) ==
    \/ Refused /\ Rejects(call)
    \/ /\ ~Refused
       /\ \E r \in Outcomes(Form, TRUE) :
             Transmitted(r) /\ Return(call, r.answer = "ok" /\ readable)
       /\ UNCHANGED paired

\* VerifyPIN, ChangePIN, UnblockPIN, ChangePUK, ChangePairingSecret and
\* ChangePairingPassword: the arguments go out as they are.
Credentials == Alone /\ SendProtected("Command", TRUE)

\* GetStatus and Identify: an answer may be one the host cannot read, or a
\* signature that does not verify.
Queries == Alone /\ \E readable \in BOOLEAN : SendProtected("Command", readable)

\* GetData, StoreData and GetChallenge: any answer will do.
StoredData == Alone /\ SendProtected("Command", TRUE)

\* Keys made, loaded, derived and removed: a checksum size out of 4..8 or a path
\* KeyPathFromString rejects never leaves the host.
KeyManagement ==
    /\ Alone
    /\ Rejects("Command") \/ SendProtected("Command", TRUE)

\* Keys exported, ECDH and BIP85, and the pinless path: a path that is not
\* absolute (ECDH, SetPinlessPath) or a peer key of another form is rejected as
\* well, and an exported key may not parse.
Exports ==
    /\ Alone
    /\ \/ Rejects("Command")
       \/ \E readable \in BOOLEAN : SendProtected("Command", readable)

\* Sign and its forms; SignPinless goes out in the clear past the channel, which
\* keeps its state whatever comes back.
Signing ==
    /\ Alone
    /\ \/ Rejects("Command")
       \/ \E readable \in BOOLEAN : SendProtected("Command", readable)
       \/ /\ \E r \in Outcomes("plain", TRUE), readable \in BOOLEAN :
                Return("Command", r.answer = "ok" /\ readable)
          /\ session' \in {session, FALSE}
          /\ UNCHANGED <<sc, paired>>

\* Unpair drops the response: a status word other than 0x9000 is no error unless
\* the open channel could not read the answer.
UnpairReports(r, short) ==
    r.answer \in {"ok", "inner"} \/ (r.answer = "refused" /\ ~(sc.open /\ short))

\* own: the index is that of the client's own pairing.
Unpair ==
    /\ Alone
    /\ \/ /\ sc.ver = "V2" \/ Refused
          /\ Rejects("Unpair")
       \/ /\ sc.ver = "V1" /\ ~Refused
          /\ \E r \in Outcomes(Form, TRUE), own, short \in BOOLEAN :
                /\ Transmitted(r)
                /\ paired' = [paired EXCEPT ![slot] = @ /\ ~(r.done /\ own)]
                /\ Return("Unpair", UnpairReports(r, short))

\* The loop over the other slots (Pairing has its exchanges): it ends early
\* with the channel closed, or leaves the session as it was.  It spares the slot
\* of the pairing the channel holds, which need not be this card's.
UnpairOthers ==
    /\ Alone
    /\ \/ /\ sc.ver = "V2" \/ Refused
          /\ Rejects("Unpair")
       \/ /\ sc.ver = "V1" /\ ~Refused
          /\ \/ (sc.open => session) /\ UNCHANGED <<sc, session>>
             \/ sc' = [sc EXCEPT !.open = FALSE] /\ session' \in {session, FALSE}
          /\ \E ok \in BOOLEAN : Return("Unpair", ok)
          /\ \/ UNCHANGED paired
             \/ sc.pairing # slot /\ paired' = [paired EXCEPT ![slot] = FALSE]

-----------------------------------------------------------------------------
(* NDEF and factory reset *)

\* The record goes out in chunks to an applet newer than 2.x, and whole before.
Legacy == appInfo.version \notin {"v3", "v4"}

SetNDEF ==
    /\ pc = "idle"
    /\ Begin("ndef")
    /\ record' \in Records
    /\ off' = 0
    /\ initForm' = "none" /\ initBy' = {} /\ written' = Unwritten
    /\ UNCHANGED <<host, cards>>

\* The words of the command at hand.
chunkSize == IF Legacy THEN record ELSE Min({ChunkWords, record - off})

\* Bug: P2 counts the chunks.
OffsetOfChunk(words) == (words \div ChunkWords) % P2Space

\* StoreDataWithOffset: P2 is the offset in words, cut to eight bits.
StoreDataWithOffset(words) == words % P2Space

\* STORE DATA from version 3 on, SET NDEF before.
Understands(c) == initialized[c] /\ (Legacy <=> Kind[c] = "v2")

CardStores(r) ==
    LET at == StoreDataWithOffset(off)
    IN  written' = IF ~r.done THEN written
                   ELSE [written EXCEPT ![slot] =
                            [a \in Addresses |->
                                IF a \in at..(at + chunkSize - 1) THEN off + (a - at) ELSE @[a]]]

\* Bug: only the error of the last chunk is returned.
NDEFSendsAll ==
    /\ pc = "ndef"
    /\ ~Refused
    /\ \E r \in Outcomes(Form, Understands(slot)) :
          /\ Transmitted(r)
          /\ CardStores(r)
          /\ off' = off + chunkSize
          /\ IF off' = record
             THEN Return("SetNDEF", r.answer = "ok")
             ELSE UNCHANGED <<pc, last>>
    /\ UNCHANGED <<appInfo, record, slot, selected, initialized, paired, initForm, initBy>>

\* The first error ends the loop: chunks already stored stay.
NDEFSends ==
    /\ pc = "ndef"
    /\ \/ Refused /\ Return("SetNDEF", FALSE) /\ UNCHANGED <<sc, session, off, written>>
       \/ /\ ~Refused
          /\ \E r \in Outcomes(Form, Understands(slot)) :
                /\ Transmitted(r)
                /\ CardStores(r)
                /\ off' = off + chunkSize
                /\ IF off' = record \/ r.answer # "ok"
                   THEN Return("SetNDEF", r.answer = "ok")
                   ELSE UNCHANGED <<pc, last>>
    /\ UNCHANGED <<appInfo, record, slot, selected, initialized, paired, initForm, initBy>>

\* Sent in the clear; the host keeps its channel, pairing and info.
FactoryReset ==
    /\ pc = "idle"
    /\ \E r \in Outcomes("plain", TRUE) :
          /\ initialized' = [initialized EXCEPT ![slot] = @ /\ ~r.done]
          /\ paired' = [paired EXCEPT ![slot] = @ /\ ~r.done]
          /\ session' = (session /\ ~r.done)
          /\ Return("FactoryReset", r.answer = "ok")
    /\ UNCHANGED <<host, slot, selected>>
    /\ Forget

-----------------------------------------------------------------------------
(* The reader (external) *)

\* The card loses power, or another takes its place.
Swap(c) ==
    /\ slot' = c
    /\ selected' = FALSE
    /\ session' = FALSE
    /\ UNCHANGED <<host, pc, ndef, last, initialized, paired, hist>>

Next ==
    \/ SelectFails
    \/ Select
    \/ AutoOpenSecureChannel
    \/ OpenSecureChannel
    \/ Pair
    \/ \E c \in Cards \cup {None} : SetPairing(c)
    \/ InitV1
    \/ InitV2
    \/ InitSends
    \/ Credentials
    \/ Queries
    \/ StoredData
    \/ KeyManagement
    \/ Exports
    \/ Signing
    \/ Unpair
    \/ UnpairOthers
    \/ SetNDEF
    \/ NDEFSends
    \/ FactoryReset
    \/ \E c \in Cards : Swap(c)

Spec == Init /\ [][Next]_vars

-----------------------------------------------------------------------------
(* Properties *)

\* Select returns nil on an applet with a secure channel only with a fresh
\* channel of the right version in place, made from that very applet and, for
\* V2, with a certificate it vetted or none at all (command_set.go:102-121).
SelectMatches ==
    last = <<"Select", TRUE>> /\ appInfo.capable =>
        \/ isSecureChannelV2(appInfo) /\ sc \in {Channel("V2", c) : c \in (Trusted \cap {appInfo.of}) \cup {None}}
        \/ ~isSecureChannelV2(appInfo) /\ sc = Channel("V1", appInfo.of)

\* A Select that fails never replaces the channel, although it may already have
\* replaced ApplicationInfo (command_set.go:100-119).
FailedSelectKeepsChannel ==
    [][last' = <<"Select", FALSE>> => sc' = sc]_vars

\* Whatever was selected, failed or swapped since, an open V2 channel belongs to
\* a vetted card, and the card that shares its keys is the one it was made from.
OpenWithItsCard ==
    sc.open => /\ sc.of # None
               /\ sc.ver = "V2" => sc.of \in Trusted
               /\ session => slot = sc.of

\* PIN, PUK and pairing secret never leave in the clear with INIT, and Init
\* returns nil only if the card of the channel took them, although the channel
\* is opened in one exchange and used in another (command_set.go:155-164).
InitReachesItsCard ==
    /\ initForm # "plain"
    /\ last = <<"Init", TRUE>> => initBy = {sc.of}

\* SetNDEF returns nil only if one card stored every word of the record in its
\* place, although cards may be exchanged between two chunks and the last chunk
\* be shorter (command_set.go:842-863), as long as every chunk begins where P2
\* can say: beyond that the end of a record lies over its beginning.
Addressable == Legacy \/ record <= ChunkWords * ((P2Space - 1) \div ChunkWords + 1)

NDEFOnOneCard ==
    last = <<"SetNDEF", TRUE>> /\ Addressable =>
        \E c \in Cards : \A w \in 0..(record - 1) : written[c][w] = w

=============================================================================
