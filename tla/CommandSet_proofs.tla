------------------------- MODULE CommandSet_proofs -------------------------
(***************************************************************************)
(* Theorems about CommandSet, for every set of cards of any kinds, every   *)
(* set of NDEF records and every size of the chunks and of P2.             *)
(***************************************************************************)
EXTENDS CommandSet, TLAPS

USE ConstantsAssumption

-----------------------------------------------------------------------------
(* The inductive invariant *)

\* A call in progress has not returned; Init goes on only on an open V2 channel,
\* SetNDEF only while there is something left to send.
CallInv ==
    /\ pc # "idle" => last = <<"none", TRUE>>
    /\ pc = "init" => sc.ver = "V2" /\ sc.open
    /\ pc = "ndef" => off < record /\ (Legacy => off = 0)

\* A V2 channel is of a vetted card or nobody's, whether open or not.
ChannelInv ==
    /\ sc.ver = "V2" => sc.of \in Trusted \cup {None}
    /\ OpenWithItsCard

\* A record goes out in whole chunks but for the last, and the card the channel
\* still reaches has stored all that was sent of it.
RecordInv ==
    /\ pc = "ndef" /\ ~Legacy => \E k \in Nat : off = k * ChunkWords
    /\ pc = "ndef" /\ Addressable =>
        \E c \in Cards :
            /\ selected \/ session => slot = c
            /\ \A w \in 0..(off - 1) : written[c][w] = w
    /\ NDEFOnOneCard

IInv ==
    /\ TypeOK
    /\ CallInv
    /\ ChannelInv
    /\ SelectMatches
    /\ InitReachesItsCard
    /\ RecordInv

-----------------------------------------------------------------------------
(* Typing of the data the actions build *)

Channels ==
    [ver : {"V1", "V2"}, of : Cards \cup {None}, pairing : Cards \cup {None},
     open : BOOLEAN, established : BOOLEAN]

\* A fresh channel, and what the calls change of one.
LEMMA ChannelType ==
    ASSUME NEW ver \in {"V1", "V2"}, NEW c \in Cards \cup {None}
    PROVE  /\ Channel(ver, c) \in Channels
           /\ Channel(ver, c).ver = ver
           /\ Channel(ver, c).of = c
           /\ ~Channel(ver, c).open
BY DEF Channel, Channels

LEMMA OpenType ==
    ASSUME NEW ch \in Channels, NEW b \in BOOLEAN
    PROVE  /\ [ch EXCEPT !.open = b] \in Channels
           /\ [ch EXCEPT !.open = b].ver = ch.ver
           /\ [ch EXCEPT !.open = b].of = ch.of
           /\ [ch EXCEPT !.open = b].open = b
BY DEF Channels

LEMMA EstablishedType ==
    ASSUME NEW ch \in Channels, NEW b \in BOOLEAN
    PROVE  /\ [ch EXCEPT !.open = b, !.established = TRUE] \in Channels
           /\ [ch EXCEPT !.open = b, !.established = TRUE].ver = ch.ver
           /\ [ch EXCEPT !.open = b, !.established = TRUE].of = ch.of
           /\ [ch EXCEPT !.open = b, !.established = TRUE].open = b
BY DEF Channels

LEMMA PairingType ==
    ASSUME NEW ch \in Channels, NEW c \in Cards \cup {None}
    PROVE  /\ [ch EXCEPT !.pairing = c] \in Channels
           /\ [ch EXCEPT !.pairing = c].ver = ch.ver
           /\ [ch EXCEPT !.pairing = c].of = ch.of
           /\ [ch EXCEPT !.pairing = c].open = ch.open
BY DEF Channels

\* A set with a greatest element has a maximum.
LEMMA MaxType ==
    ASSUME NEW S, S \subseteq Nat, NEW m \in S, \A k \in S : k <= m
    PROVE  Max(S) \in S /\ \A k \in S : k <= Max(S)
<1>1. \E x \in S : \A y \in S : x >= y
  OBVIOUS
<1>2. Max(S) \in S /\ \A y \in S : Max(S) >= y
  BY <1>1 DEF Max
<1> QED
  BY <1>2

LEMMA IntervalMonotone ==
    ASSUME NEW m \in Nat, NEW n \in Nat, m <= n
    PROVE  0..(m - 1) \subseteq 0..(n - 1)
OBVIOUS

LEMMA RecordsMax ==
    /\ Max(Records) \in Nat /\ \A k \in Records : k <= Max(Records)
    /\ \A k \in Records : 0..(k - 1) \subseteq Words /\ 0..(k - 1) \subseteq Addresses
    /\ Addresses \subseteq Nat
<1>1. PICK m \in Records : \A k \in Records : k <= m
  OBVIOUS
<1>2. Records \subseteq Nat
  OBVIOUS
<1>3. Max(Records) \in Records /\ \A k \in Records : k <= Max(Records)
  BY <1>1, <1>2, MaxType
<1> DEFINE top == P2Space + ChunkWords
           S == Records \cup {top}
<1>4. top \in Nat
  OBVIOUS
<1>5. Max(S) \in S /\ \A k \in S : k <= Max(S)
  <2>1. S \subseteq Nat
    BY <1>2, <1>4
  <2>2. CASE m <= top
    <3>1. top \in S /\ \A k \in S : k <= top
      BY <1>1, <1>2, <1>4, <2>2
    <3> HIDE DEF S
    <3> QED
      BY <2>1, <3>1, MaxType
  <2>3. CASE ~(m <= top)
    <3>1. m \in S /\ \A k \in S : k <= m
      BY <1>1, <1>2, <1>4, <2>3
    <3> HIDE DEF S
    <3> QED
      BY <2>1, <3>1, MaxType
  <2> QED
    BY <2>2, <2>3
<1>6. Addresses = 0..(Max(S) - 1)
  BY DEF Addresses
<1>7. Max(S) \in Nat /\ \A k \in Records : k <= Max(S)
  BY <1>2, <1>4, <1>5
<1> HIDE DEF S
<1>8. \A k \in Records : 0..(k - 1) \subseteq Words
  BY <1>2, <1>3, IntervalMonotone DEF Words
<1>9. \A k \in Records : 0..(k - 1) \subseteq Addresses
  BY <1>2, <1>6, <1>7, IntervalMonotone
<1>10. Addresses \subseteq Nat
  BY <1>6, <1>7
<1> QED
  BY <1>2, <1>3, <1>8, <1>9, <1>10

\* What is returned is typed.
LEMMA ReturnType ==
    ASSUME NEW c \in Calls, NEW ok \in BOOLEAN, Return(c, ok)
    PROVE  pc' = "idle" /\ last' = <<c, ok>> /\ last' \in Calls \X BOOLEAN /\ last'[1] = c
BY DEF Return

LEMMA ReturnFails ==
    ASSUME NEW c \in Calls, Return(c, FALSE)
    PROVE  pc' = "idle" /\ last' = <<c, FALSE>> /\ last' \in Calls \X BOOLEAN /\ last'[1] = c
BY DEF Return

\* The histories are dropped at once.
LEMMA ForgetType ==
    /\ NoRecord => record' = 0 /\ off' = 0 /\ written' \in [Cards -> [Addresses -> Words \cup {None}]]
    /\ Forget => NoRecord /\ initForm' = "none" /\ initBy' = {}
BY DEF NoRecord, Forget, Unwritten

-----------------------------------------------------------------------------
(* What the groups of actions do to the channel, whatever they are for *)

\* An exchange can close the channel and end the session, never the contrary.
Weakens ==
    /\ sc' \in Channels
    /\ sc'.ver = sc.ver
    /\ sc'.of = sc.of
    /\ sc'.open => sc.open
    /\ session' \in BOOLEAN
    /\ session' => session

LEMMA KeepsWeakens == TypeOK /\ UNCHANGED <<sc, session>> => Weakens
BY DEF TypeOK, Channels, Weakens

\* A flag that can only be cleared.
LEMMA ClearsType ==
    ASSUME NEW x \in BOOLEAN, NEW y \in {x, FALSE}
    PROVE  y \in BOOLEAN /\ (y => x)
<1>1. CASE y = x
  BY <1>1
<1>2. CASE y = FALSE
  BY <1>2
<1> QED
  BY <1>1, <1>2

LEMMA ClosesWeakens ==
    ASSUME TypeOK, NEW b \in BOOLEAN, sc' = [sc EXCEPT !.open = b], b => sc.open,
           session' \in {session, FALSE}
    PROVE  Weakens
<1>1. sc \in Channels /\ session \in BOOLEAN
  BY DEF TypeOK, Channels
<1>2. sc' \in Channels /\ sc'.ver = sc.ver /\ sc'.of = sc.of /\ sc'.open = b
  BY <1>1, OpenType
<1>3. session' \in BOOLEAN /\ (session' => session)
  BY <1>1, ClearsType
<1>4. sc'.open => sc.open
  BY <1>2
<1> QED
  BY <1>2, <1>3, <1>4 DEF Weakens

LEMMA TransmittedWeakens ==
    ASSUME TypeOK, NEW r, Transmitted(r)
    PROVE  Weakens
<1> DEFINE b == sc.open /\ r.answer \in {"ok", "inner"}
<1>1. b \in BOOLEAN /\ (b => sc.open)
  BY DEF TypeOK
<1>2. sc' = [sc EXCEPT !.open = b]
  BY DEF Transmitted
<1>3. session' \in {session, FALSE}
  BY DEF Transmitted, TypeOK
<1> HIDE DEF b
<1> QED
  BY <1>1, <1>2, <1>3, ClosesWeakens

\* The calls of one exchange.
OneExchange ==
    \/ Credentials \/ Queries \/ StoredData \/ KeyManagement
    \/ Exports \/ Signing \/ Unpair \/ UnpairOthers

LEMMA SendProtectedFacts ==
    ASSUME TypeOK, NEW readable \in BOOLEAN, SendProtected("Command", readable)
    PROVE  /\ Weakens /\ UNCHANGED paired
           /\ pc' = "idle" /\ last'[1] = "Command" /\ last' \in Calls \X BOOLEAN
<1>0. "Command" \in Calls
  BY DEF Calls
<1>1. CASE Rejects("Command")
  BY <1>0, <1>1, ReturnFails, KeepsWeakens DEF Rejects
<1>2. ASSUME NEW r, Transmitted(r), Return("Command", r.answer = "ok" /\ readable), UNCHANGED paired
      PROVE  /\ Weakens /\ UNCHANGED paired
             /\ pc' = "idle" /\ last'[1] = "Command" /\ last' \in Calls \X BOOLEAN
  <2>1. (r.answer = "ok" /\ readable) \in BOOLEAN
    OBVIOUS
  <2>2. pc' = "idle" /\ last'[1] = "Command" /\ last' \in Calls \X BOOLEAN
    BY <1>0, <1>2, <2>1, ReturnType
  <2> QED
    BY <1>2, <2>2, TransmittedWeakens
<1> QED
  BY <1>1, <1>2 DEF SendProtected

LEMMA OneExchangeFacts ==
    ASSUME TypeOK, OneExchange
    PROVE  /\ Weakens /\ paired' \in [Cards -> BOOLEAN] /\ Forget
           /\ pc = "idle" /\ pc' = "idle"
           /\ last'[1] \in {"Command", "Unpair"} /\ last' \in Calls \X BOOLEAN
           /\ UNCHANGED <<appInfo, slot, selected, initialized>>
<1> DEFINE Goal ==
              /\ Weakens /\ paired' \in [Cards -> BOOLEAN]
              /\ pc' = "idle"
              /\ last'[1] \in {"Command", "Unpair"} /\ last' \in Calls \X BOOLEAN
<1>0. {"Command", "Unpair"} \subseteq Calls /\ paired \in [Cards -> BOOLEAN]
  BY DEF Calls, TypeOK
<1>1. ASSUME NEW call \in {"Command", "Unpair"}, Rejects(call) PROVE Goal
  <2>1. Return(call, FALSE) /\ UNCHANGED <<sc, session, paired>>
    BY <1>1 DEF Rejects
  <2> QED
    BY <1>0, <2>1, ReturnFails, KeepsWeakens
<1>2. ASSUME NEW readable \in BOOLEAN, SendProtected("Command", readable) PROVE Goal
  BY <1>0, <1>2, SendProtectedFacts
<1>3. CASE Credentials \/ Queries \/ StoredData \/ KeyManagement \/ Exports
  <2>1. Goal
    BY <1>1, <1>2, <1>3 DEF Credentials, Queries, StoredData, KeyManagement, Exports
  <2> QED
    BY <1>3, <2>1 DEF Credentials, Queries, StoredData, KeyManagement, Exports, Alone
<1>4. CASE Signing
  <2>1. ASSUME NEW r, NEW readable \in BOOLEAN, Return("Command", r.answer = "ok" /\ readable),
               session' \in {session, FALSE}, UNCHANGED <<sc, paired>>
        PROVE  Goal
    <3>1. session' \in BOOLEAN /\ (session' => session)
      BY <2>1, ClearsType, ZenonT(40) DEF TypeOK
    <3>2. Weakens
      BY <2>1, <3>1 DEF Weakens, TypeOK, Channels
    <3>3. (r.answer = "ok" /\ readable) \in BOOLEAN
      OBVIOUS
    <3>4. pc' = "idle" /\ last'[1] = "Command" /\ last' \in Calls \X BOOLEAN
      BY <1>0, <2>1, <3>3, ReturnType
    <3> QED
      BY <1>0, <2>1, <3>2, <3>4
  <2>2. Goal
    BY <1>1, <1>2, <1>4, <2>1 DEF Signing
  <2> QED
    BY <1>4, <2>2 DEF Signing, Alone
<1>5. CASE Unpair
  <2>1. ASSUME NEW r, NEW own \in BOOLEAN, NEW short \in BOOLEAN, Transmitted(r),
               paired' = [paired EXCEPT ![slot] = @ /\ ~(r.done /\ own)],
               Return("Unpair", UnpairReports(r, short))
        PROVE  Goal
    <3>1. UnpairReports(r, short) \in BOOLEAN
      BY DEF UnpairReports
    <3>2. paired' \in [Cards -> BOOLEAN]
      BY <1>0, <2>1
    <3> QED
      BY <1>0, <2>1, <3>1, <3>2, ReturnType, TransmittedWeakens
  <2>2. Goal
    BY <1>1, <1>5, <2>1 DEF Unpair
  <2> QED
    BY <1>5, <2>2 DEF Unpair, Alone
<1>6. CASE UnpairOthers
  <2>1. CASE Rejects("Unpair")
    BY <1>1, <1>6, <2>1 DEF UnpairOthers, Alone
  <2>2. CASE ~Rejects("Unpair")
    <3>1. Weakens
      <4>1. CASE UNCHANGED <<sc, session>>
        BY <4>1, KeepsWeakens
      <4>2. CASE sc' = [sc EXCEPT !.open = FALSE] /\ session' \in {session, FALSE}
        BY <4>2, ClosesWeakens
      <4> QED
        BY <1>6, <2>2, <4>1, <4>2 DEF UnpairOthers
    <3>2. \E ok \in BOOLEAN : Return("Unpair", ok)
      BY <1>6, <2>2 DEF UnpairOthers
    <3>3. paired' \in [Cards -> BOOLEAN]
      BY <1>0, <1>6, <2>2 DEF UnpairOthers
    <3>4. Goal
      BY <1>0, <3>1, <3>2, <3>3, ReturnType
    <3> QED
      BY <1>6, <3>4 DEF UnpairOthers, Alone
  <2> QED
    BY <2>1, <2>2
<1> QED
  BY <1>3, <1>4, <1>5, <1>6 DEF OneExchange

\* An open channel is one that was open, or that the card in the reader opened.
Reopens ==
    /\ sc' \in Channels
    /\ sc'.ver = sc.ver
    /\ sc'.of = sc.of
    /\ session' \in BOOLEAN
    /\ sc'.open => Openable \/ (sc.open /\ (session' => session))

LEMMA WeakensReopens == Weakens => Reopens
BY DEF Weakens, Reopens

LEMMA OpenedReopens ==
    ASSUME TypeOK, Openable, NEW b \in BOOLEAN,
           \/ sc' = [sc EXCEPT !.open = b]
           \/ sc' = [sc EXCEPT !.open = b, !.established = TRUE],
           session' = TRUE
    PROVE  Reopens /\ sc'.open = b
<1>1. sc \in Channels
  BY DEF TypeOK, Channels
<1>2. sc' \in Channels /\ sc'.ver = sc.ver /\ sc'.of = sc.of /\ sc'.open = b
  <2>1. CASE sc' = [sc EXCEPT !.open = b]
    BY <1>1, <2>1, OpenType
  <2>2. CASE sc' = [sc EXCEPT !.open = b, !.established = TRUE]
    BY <1>1, <2>2, EstablishedType
  <2> QED
    BY <2>1, <2>2
<1> QED
  BY <1>2 DEF Reopens

LEMMA TrueType == TRUE \in BOOLEAN /\ FALSE \in BOOLEAN
OBVIOUS

LEMMA AutoOpenSucceedsFacts == TypeOK /\ AutoOpenSucceeds => Reopens /\ sc'.open
<1> SUFFICES ASSUME TypeOK, AutoOpenSucceeds PROVE Reopens /\ sc'.open
  OBVIOUS
<1> DEFINE b == TRUE
<1>1. /\ Openable /\ session' = TRUE
      /\ sc' = [sc EXCEPT !.open = b, !.established = TRUE]
  BY DEF AutoOpenSucceeds
<1>2. b \in BOOLEAN /\ b
  OBVIOUS
<1> HIDE DEF b
<1> QED
  BY <1>1, <1>2, OpenedReopens

\* A channel that is closed.
LEMMA ClosedReopens ==
    ASSUME TypeOK, NEW b \in BOOLEAN, ~b, session' \in BOOLEAN,
           \/ sc' = [sc EXCEPT !.open = b]
           \/ sc' = [sc EXCEPT !.open = b, !.established = TRUE]
    PROVE  Reopens
<1>1. sc \in Channels
  BY DEF TypeOK, Channels
<1>2. sc' \in Channels /\ sc'.ver = sc.ver /\ sc'.of = sc.of /\ sc'.open = b
  <2>1. CASE sc' = [sc EXCEPT !.open = b]
    BY <1>1, <2>1, OpenType
  <2>2. CASE sc' = [sc EXCEPT !.open = b, !.established = TRUE]
    BY <1>1, <2>2, EstablishedType
  <2> QED
    BY <2>1, <2>2
<1> QED
  BY <1>2 DEF Reopens

LEMMA AutoOpenFailsFacts == TypeOK /\ AutoOpenFails => Reopens
<1> SUFFICES ASSUME TypeOK, AutoOpenFails PROVE Reopens
  OBVIOUS
<1> DEFINE no == FALSE
           yes == TRUE
<1>0. no \in BOOLEAN /\ ~no /\ yes \in BOOLEAN
  OBVIOUS
<1>1. \/ UNCHANGED <<sc, session>>
      \/ sc' = [sc EXCEPT !.open = no] /\ session' = no
      \/ Openable /\ sc' = [sc EXCEPT !.open = yes] /\ session' = TRUE
  BY DEF AutoOpenFails
<1> HIDE DEF no, yes
<1>2. CASE UNCHANGED <<sc, session>>
  BY <1>2, KeepsWeakens, WeakensReopens
<1>3. CASE sc' = [sc EXCEPT !.open = no] /\ session' = no
  BY <1>0, <1>3, ClosedReopens
<1>4. CASE Openable /\ sc' = [sc EXCEPT !.open = yes] /\ session' = TRUE
  BY <1>0, <1>4, OpenedReopens
<1> QED
  BY <1>1, <1>2, <1>3, <1>4

LEMMA OpenSecureChannelFacts ==
    ASSUME TypeOK, OpenSecureChannel
    PROVE  /\ Reopens /\ Forget
           /\ pc = "idle" /\ pc' = "idle"
           /\ last'[1] = "Open" /\ last' \in Calls \X BOOLEAN
           /\ UNCHANGED <<appInfo, slot, selected, initialized, paired>>
<1> DEFINE no == FALSE
           yes == TRUE
<1>0. no \in BOOLEAN /\ ~no /\ yes \in BOOLEAN /\ "Open" \in Calls
  BY DEF Calls
<1>1. \/ Openable /\ sc' = [sc EXCEPT !.open = yes, !.established = TRUE] /\ session' = TRUE
      \/ sc' = [sc EXCEPT !.open = no, !.established = TRUE] /\ session' = no
      \/ UNCHANGED sc /\ session' \in {session, FALSE}
  BY DEF OpenSecureChannel
<1>2. \E ok \in BOOLEAN : Return("Open", ok)
  BY DEF OpenSecureChannel
<1>3. pc' = "idle" /\ last'[1] = "Open" /\ last' \in Calls \X BOOLEAN
  BY <1>0, <1>2, ReturnType
<1> HIDE DEF no, yes
<1>4. ASSUME Openable /\ sc' = [sc EXCEPT !.open = yes, !.established = TRUE] /\ session' = TRUE
      PROVE  Reopens
  BY <1>0, <1>4, OpenedReopens
<1>5. ASSUME sc' = [sc EXCEPT !.open = no, !.established = TRUE] /\ session' = no
      PROVE  Reopens
  BY <1>0, <1>5, ClosedReopens
<1>6. ASSUME UNCHANGED sc /\ session' \in {session, FALSE}
      PROVE  Reopens
  <2>1. session' \in BOOLEAN /\ (session' => session)
    BY <1>6, ClearsType, ZenonT(40) DEF TypeOK
  <2> QED
    BY <1>6, <2>1 DEF Reopens, TypeOK, Channels
<1>7. Reopens
  BY <1>1, <1>4, <1>5, <1>6
<1> QED
  BY <1>3, <1>7 DEF OpenSecureChannel

\* PAIR changes the channel's pairing, and may close it.
LEMMA PairFacts ==
    ASSUME TypeOK, Pair
    PROVE  /\ Weakens /\ paired' \in [Cards -> BOOLEAN] /\ Forget
           /\ pc = "idle" /\ pc' = "idle"
           /\ last'[1] \in {"Pair", "PairPanics"} /\ last' \in Calls \X BOOLEAN
           /\ UNCHANGED <<appInfo, slot, selected, initialized>>
<1>0. /\ {"Pair", "PairPanics"} \subseteq Calls /\ sc \in Channels /\ slot \in Cards
      /\ paired \in [Cards -> BOOLEAN]
      /\ session' \in BOOLEAN /\ (session' => session)
  BY ClearsType, ZenonT(40) DEF Calls, Pair, TypeOK, Channels
<1>1. /\ sc' \in Channels /\ sc'.ver = sc.ver /\ sc'.of = sc.of /\ (sc'.open => sc.open)
      /\ paired' \in [Cards -> BOOLEAN]
  <2>1. CASE UNCHANGED <<sc, paired>>
    BY <1>0, <2>1
  <2>2. CASE sc' = [sc EXCEPT !.pairing = slot] /\ paired' = [paired EXCEPT ![slot] = TRUE]
    BY <1>0, <2>2, PairingType
  <2>3. CASE sc' = [sc EXCEPT !.open = @ /\ sc.ver = "V2"] /\ UNCHANGED paired
    <3> DEFINE b == sc.open /\ sc.ver = "V2"
    <3>1. b \in BOOLEAN /\ (b => sc.open)
      OBVIOUS
    <3>2. sc' = [sc EXCEPT !.open = b]
      BY <2>3
    <3> HIDE DEF b
    <3>3. sc' \in Channels /\ sc'.ver = sc.ver /\ sc'.of = sc.of /\ sc'.open = b
      BY <1>0, <3>1, <3>2, OpenType
    <3> QED
      BY <1>0, <2>3, <3>1, <3>3
  <2> QED
    BY <2>1, <2>2, <2>3 DEF Pair
<1>2. \E call \in {"Pair", "PairPanics"}, ok \in BOOLEAN : Return(call, ok)
  <2>1. Return("Pair", TRUE) \/ Return("Pair", FALSE) \/ Return("PairPanics", FALSE)
    BY DEF Pair
  <2> QED
    BY <2>1
<1>3. pc' = "idle" /\ last'[1] \in {"Pair", "PairPanics"} /\ last' \in Calls \X BOOLEAN
  BY <1>0, <1>2, ReturnType
<1>4. Weakens
  BY <1>0, <1>1 DEF Weakens
<1> QED
  BY <1>1, <1>3, <1>4 DEF Pair

LEMMA SetPairingFacts ==
    ASSUME TypeOK, NEW c \in Cards \cup {None}, SetPairing(c)
    PROVE  /\ Weakens /\ Forget
           /\ pc = "idle" /\ pc' = "idle"
           /\ last'[1] = "none" /\ last' \in Calls \X BOOLEAN
           /\ UNCHANGED <<appInfo, cards>>
<1>1. sc \in Channels /\ session \in BOOLEAN
  BY DEF TypeOK, Channels
<1>2. sc' \in Channels /\ sc'.ver = sc.ver /\ sc'.of = sc.of /\ sc'.open = sc.open
  BY <1>1, PairingType DEF SetPairing
<1>3. UNCHANGED session /\ pc' = "idle" /\ last'[1] = "none" /\ last' \in Calls \X BOOLEAN
  BY DEF SetPairing, Return, Calls, cards
<1> QED
  BY <1>1, <1>2, <1>3 DEF SetPairing, Weakens

\* Select leaves a closed channel of its own making or the old one.
LEMMA SelectFacts ==
    ASSUME TypeOK, Select
    PROVE  /\ sc' \in Channels
           /\ \/ sc' = sc
              \/ ~sc'.open /\ sc'.ver = "V1"
              \/ ~sc'.open /\ sc'.ver = "V2" /\ sc'.of \in Trusted \cup {None}
           /\ appInfo' \in [of : Cards \cup {None}, version : Versions, capable : BOOLEAN]
           /\ session' = FALSE /\ selected' = TRUE /\ Forget
           /\ pc = "idle" /\ pc' = "idle"
           /\ last'[1] = "Select" /\ last' \in Calls \X BOOLEAN
           /\ last' = <<"Select", FALSE>> => sc' = sc
           /\ UNCHANGED <<slot, initialized, paired>>
<1>0. /\ "Select" \in Calls /\ sc \in Channels /\ slot \in Cards
      /\ session' = FALSE /\ selected' = TRUE /\ Forget
      /\ pc = "idle"
      /\ UNCHANGED <<slot, initialized, paired>>
  BY DEF Calls, TypeOK, Channels, Select
<1>1. appInfo' \in [of : Cards \cup {None}, version : Versions, capable : BOOLEAN]
  BY <1>0 DEF Select, AppInfoOf, Versions, TypeOK
<1>2. CASE Return("Select", FALSE) /\ sc' = sc
  BY <1>0, <1>1, <1>2, ReturnFails
<1>3. ASSUME Return("Select", TRUE),
             \/ sc' = sc
             \/ sc' = Channel("V1", slot)
             \/ sc' = Channel("V2", slot) /\ slot \in Trusted
             \/ sc' = Channel("V2", None)
      PROVE  /\ sc' \in Channels
             /\ \/ sc' = sc
                \/ ~sc'.open /\ sc'.ver = "V1"
                \/ ~sc'.open /\ sc'.ver = "V2" /\ sc'.of \in Trusted \cup {None}
             /\ pc' = "idle"
             /\ last'[1] = "Select" /\ last' \in Calls \X BOOLEAN
             /\ last' # <<"Select", FALSE>>
  <2>1. pc' = "idle" /\ last' = <<"Select", TRUE>>
    BY <1>3 DEF Return
  <2>2. last'[1] = "Select" /\ last' \in Calls \X BOOLEAN /\ last' # <<"Select", FALSE>>
    BY <1>0, <2>1
  <2>3. /\ sc' \in Channels
        /\ \/ sc' = sc
           \/ ~sc'.open /\ sc'.ver = "V1"
           \/ ~sc'.open /\ sc'.ver = "V2" /\ sc'.of \in Trusted \cup {None}
    BY <1>0, <1>3, ChannelType
  <2> QED
    BY <2>1, <2>2, <2>3
<1>4. \/ Return("Select", FALSE) /\ sc' = sc
      \/ /\ Return("Select", TRUE)
         /\ \/ sc' = sc
            \/ sc' = Channel("V1", slot)
            \/ sc' = Channel("V2", slot) /\ slot \in Trusted
            \/ sc' = Channel("V2", None)
  <2>1. CASE slot \in Trusted
    <3>1. (slot \in Trusted) = TRUE
      BY <2>1
    <3> QED
      BY <2>1, <3>1 DEF Select, install
  <2>2. CASE slot \notin Trusted
    <3>1. (slot \in Trusted) = FALSE
      BY <2>2
    <3> QED
      BY <2>2, <3>1 DEF Select, install
  <2> QED
    BY <2>1, <2>2
<1> QED
  BY <1>0, <1>1, <1>2, <1>3, <1>4

\* The calls that neither change ApplicationInfo nor succeed in what the
\* invariants speak about.
Quiet ==
    /\ Reopens
    /\ Forget
    /\ pc = "idle" /\ pc' = "idle"
    /\ last' \in Calls \X BOOLEAN
    /\ last' \notin {<<"Select", TRUE>>, <<"Init", TRUE>>, <<"SetNDEF", TRUE>>}
    /\ last' = <<"Select", FALSE>> => sc' = sc
    /\ selected' \in BOOLEAN
    /\ initialized' \in [Cards -> BOOLEAN]
    /\ paired' \in [Cards -> BOOLEAN]
    /\ UNCHANGED <<appInfo, slot>>

LEMMA OtherCall ==
    ASSUME last' \in Calls \X BOOLEAN, last'[1] \notin {"Select", "Init", "SetNDEF"}
    PROVE  /\ last' \notin {<<"Select", TRUE>>, <<"Init", TRUE>>, <<"SetNDEF", TRUE>>}
           /\ last' # <<"Select", FALSE>>
<1>1. ASSUME NEW call, NEW ok, last' = <<call, ok>> PROVE last'[1] = call
  BY <1>1
<1> QED
  BY <1>1

LEMMA QuietFacts ==
    ASSUME TypeOK,
           \/ SelectFails \/ AutoOpenSecureChannel \/ OpenSecureChannel \/ Pair
           \/ (\E c \in Cards \cup {None} : SetPairing(c)) \/ OneExchange \/ FactoryReset
    PROVE  Quiet
<1>0. /\ sc \in Channels /\ slot \in Cards /\ session \in BOOLEAN /\ selected \in BOOLEAN
      /\ initialized \in [Cards -> BOOLEAN] /\ paired \in [Cards -> BOOLEAN]
      /\ {"Select", "Open", "FactoryReset"} \subseteq Calls
  BY DEF TypeOK, Channels, Calls
<1>1. CASE SelectFails
  <2>1. UNCHANGED sc /\ session' \in BOOLEAN /\ (session' => session) /\ selected' \in BOOLEAN
    <3>1. CASE UNCHANGED <<selected, session>>
      BY <1>0, <1>1, <3>1 DEF SelectFails, host
    <3>2. CASE selected' = TRUE /\ session' = FALSE
      <4>1. UNCHANGED sc
        BY <1>1 DEF SelectFails, host
      <4> QED
        BY <3>2, <4>1
    <3> QED
      BY <1>1, <3>1, <3>2 DEF SelectFails
  <2>2. pc' = "idle" /\ last' = <<"Select", FALSE>> /\ last' \in Calls \X BOOLEAN
    BY <1>0, <1>1, ReturnFails DEF SelectFails
  <2>3. last' \notin {<<"Select", TRUE>>, <<"Init", TRUE>>, <<"SetNDEF", TRUE>>}
    BY <2>2
  <2>4. Reopens
    BY <1>0, <2>1 DEF Reopens
  <2> QED
    BY <1>0, <1>1, <2>1, <2>2, <2>3, <2>4 DEF SelectFails, Quiet, host
<1>2. CASE AutoOpenSecureChannel
  <2>1. Reopens
    BY <1>2, AutoOpenSucceedsFacts, AutoOpenFailsFacts DEF AutoOpenSecureChannel
  <2>2. \E ok \in BOOLEAN : Return("Open", ok)
    <3>1. Return("Open", TRUE) \/ Return("Open", FALSE)
      BY <1>2 DEF AutoOpenSecureChannel
    <3> QED
      BY <3>1
  <2>3. pc' = "idle" /\ last'[1] = "Open" /\ last' \in Calls \X BOOLEAN
    BY <1>0, <2>2, ReturnType
  <2> QED
    BY <1>0, <1>2, <2>1, <2>3, OtherCall DEF AutoOpenSecureChannel, Quiet
<1>3. CASE OpenSecureChannel
  BY <1>0, <1>3, OpenSecureChannelFacts, OtherCall DEF Quiet
<1>4. CASE Pair
  BY <1>0, <1>4, PairFacts, WeakensReopens, OtherCall DEF Quiet
<1>5. CASE \E c \in Cards \cup {None} : SetPairing(c)
  BY <1>0, <1>5, SetPairingFacts, WeakensReopens, OtherCall DEF Quiet, cards
<1>6. CASE OneExchange
  BY <1>0, <1>6, OneExchangeFacts, WeakensReopens, OtherCall DEF Quiet
<1>7. CASE FactoryReset
  <2>1. PICK r :
          /\ initialized' = [initialized EXCEPT ![slot] = @ /\ ~r.done]
          /\ paired' = [paired EXCEPT ![slot] = @ /\ ~r.done]
          /\ session' = (session /\ ~r.done)
          /\ Return("FactoryReset", r.answer = "ok")
    BY <1>7 DEF FactoryReset
  <2>2. initialized' \in [Cards -> BOOLEAN] /\ paired' \in [Cards -> BOOLEAN]
    BY <1>0, <2>1
  <2>3. session' \in BOOLEAN /\ (session' => session)
    BY <2>1
  <2>4. (r.answer = "ok") \in BOOLEAN
    OBVIOUS
  <2>5. pc' = "idle" /\ last'[1] = "FactoryReset" /\ last' \in Calls \X BOOLEAN
    BY <1>0, <2>1, <2>4, ReturnType
  <2>6. Reopens
    BY <1>0, <1>7, <2>3 DEF FactoryReset, host, Reopens
  <2> QED
    BY <1>0, <1>7, <2>2, <2>5, <2>6, OtherCall DEF FactoryReset, Quiet, host
<1> QED
  BY <1>1, <1>2, <1>3, <1>4, <1>5, <1>6, <1>7

-----------------------------------------------------------------------------
(* The channel *)

\* Opening with the card in the reader keeps the channel with its card.
LEMMA ChannelStep ==
    ASSUME TypeOK, ChannelInv, Reopens, UNCHANGED slot
    PROVE  ChannelInv'
<1>1. sc.open => sc.of # None /\ (sc.ver = "V2" => sc.of \in Trusted) /\ (session => slot = sc.of)
  BY DEF ChannelInv, OpenWithItsCard
<1>2. slot \in Cards /\ None \notin Cards
  BY DEF TypeOK
<1>3. Openable => sc.of = slot
  BY DEF Openable
<1> QED
  BY <1>1, <1>2, <1>3 DEF ChannelInv, OpenWithItsCard, Reopens

\* A call that touches neither SetNDEF nor Init nor Select.
LEMMA QuietStep ==
    ASSUME IInv, Quiet
    PROVE  IInv'
<1>1. TypeOK'
  <2>1. sc' \in Channels /\ session' \in BOOLEAN
    BY DEF Quiet, Reopens
  <2>2. /\ record' = 0 /\ off' = 0 /\ off' \in 0..record'
        /\ written' \in [Cards -> [Addresses -> Words \cup {None}]]
        /\ initForm' = "none" /\ initBy' = {}
    BY ForgetType DEF Quiet
  <2> QED
    BY <2>1, <2>2 DEF IInv, TypeOK, Quiet, Channels
<1>2. CallInv'
  BY DEF CallInv, Quiet
<1>3. ChannelInv'
  BY ChannelStep DEF IInv, Quiet
<1>4. SelectMatches'
  BY DEF SelectMatches, Quiet
<1>5. InitReachesItsCard'
  <2>1. initForm' = "none"
    BY ForgetType DEF Quiet
  <2> QED
    BY <2>1 DEF InitReachesItsCard, Quiet
<1>6. RecordInv'
  BY DEF RecordInv, NDEFOnOneCard, Quiet
<1> QED
  BY <1>1, <1>2, <1>3, <1>4, <1>5, <1>6 DEF IInv

LEMMA InitInv == Init => IInv
<1> SUFFICES ASSUME Init PROVE IInv
  OBVIOUS
<1>1. /\ sc \in Channels /\ sc.ver = "V2" /\ sc.of = None /\ ~sc.open
  BY ChannelType DEF Init
<1>2. TypeOK
  <2>1. /\ off = 0 /\ record = 0 /\ off \in 0..record
        /\ written \in [Cards -> [Addresses -> Words \cup {None}]]
        /\ last \in Calls \X BOOLEAN
    <3>1. off = 0 /\ record = 0 /\ last = <<"none", TRUE>> /\ written = Unwritten
      BY DEF Init
    <3>2. Unwritten \in [Cards -> [Addresses -> Words \cup {None}]]
      BY DEF Unwritten
    <3>3. <<"none", TRUE>> \in Calls \X BOOLEAN
      BY DEF Calls
    <3> QED
      BY <3>1, <3>2, <3>3
  <2>2. paired \in [Cards -> BOOLEAN] /\ initialized \in [Cards -> BOOLEAN]
    BY DEF Init
  <2> QED
    BY <1>1, <2>1, <2>2 DEF Init, TypeOK, Channels, Versions
<1>3. pc = "idle" /\ last = <<"none", TRUE>> /\ initForm = "none"
  BY DEF Init
<1>4. last \notin {<<"Select", TRUE>>, <<"Init", TRUE>>, <<"SetNDEF", TRUE>>}
  BY <1>3
<1> QED
  BY <1>1, <1>2, <1>3, <1>4
  DEF IInv, CallInv, ChannelInv, OpenWithItsCard, SelectMatches, InitReachesItsCard,
      RecordInv, NDEFOnOneCard

\* A card goes, another comes: nobody shares the keys any more.
LEMMA SwapStep ==
    ASSUME IInv, NEW c \in Cards, Swap(c)
    PROVE  IInv'
<1>1. /\ slot' \in Cards /\ selected' = FALSE /\ session' = FALSE
      /\ UNCHANGED <<sc, appInfo, pc, record, off, last, initialized, paired,
                     initForm, initBy, written>>
  BY DEF Swap, host, ndef, hist
<1>2. TypeOK'
  BY <1>1, ZenonT(40) DEF IInv, TypeOK
<1>3. CallInv' /\ ChannelInv' /\ SelectMatches' /\ InitReachesItsCard'
  BY <1>1 DEF IInv, CallInv, Legacy, ChannelInv, OpenWithItsCard, SelectMatches,
              isSecureChannelV2, InitReachesItsCard
<1>4. RecordInv'
  <2>1. UNCHANGED <<Legacy, Addressable, NDEFOnOneCard>>
    BY <1>1 DEF Legacy, Addressable, NDEFOnOneCard
  <2>2. pc = "ndef" /\ Addressable => \E d \in Cards : \A w \in 0..(off - 1) : written[d][w] = w
    BY DEF IInv, RecordInv
  <2> QED
    BY <1>1, <2>1, <2>2 DEF IInv, RecordInv
<1> QED
  BY <1>2, <1>3, <1>4 DEF IInv

\* Select: whatever stays in place is closed, or was there before.
LEMMA SelectStep ==
    ASSUME IInv, Select
    PROVE  IInv'
<1>0. /\ slot \in Cards /\ initialized \in [Cards -> BOOLEAN] /\ paired \in [Cards -> BOOLEAN]
      /\ TypeOK
  BY DEF IInv, TypeOK
<1>1. TypeOK'
  <2>1. /\ record' = 0 /\ off' = 0 /\ off' \in 0..record'
        /\ written' \in [Cards -> [Addresses -> Words \cup {None}]]
        /\ initForm' = "none" /\ initBy' = {}
    BY <1>0, SelectFacts, ForgetType
  <2> QED
    BY <1>0, <2>1, SelectFacts DEF TypeOK, Channels
<1>2. CallInv'
  BY <1>0, SelectFacts DEF CallInv
<1>3. ChannelInv'
  BY <1>0, SelectFacts DEF IInv, ChannelInv, OpenWithItsCard
<1>4. SelectMatches'
  <2> SUFFICES ASSUME last' = <<"Select", TRUE>>, appInfo'.capable
               PROVE  \/ /\ isSecureChannelV2(appInfo')
                         /\ sc' \in {Channel("V2", c) : c \in (Trusted \cap {appInfo'.of}) \cup {None}}
                      \/ /\ ~isSecureChannelV2(appInfo')
                         /\ sc' = Channel("V1", appInfo'.of)
    BY DEF SelectMatches, isSecureChannelV2
  <2>1. appInfo'.of = slot
    BY DEF Select, AppInfoOf
  <2>2. install
    BY DEF Select
  <2>3. ~Return("Select", FALSE)
    BY DEF Return
  <2>4. CASE isSecureChannelV2(appInfo')
    <3>1. \/ sc' = Channel("V2", slot) /\ slot \in Trusted
          \/ sc' = Channel("V2", None)
      <4>1. CASE slot \in Trusted
        BY <2>2, <2>4, <4>1 DEF install
      <4>2. CASE slot \notin Trusted
        <5>1. (slot \in Trusted) = FALSE
          BY <4>2
        <5> QED
          BY <2>2, <2>3, <2>4, <5>1 DEF install
      <4> QED
        BY <4>1, <4>2
    <3> QED
      BY <2>1, <2>4, <3>1
  <2>5. CASE ~isSecureChannelV2(appInfo')
    BY <2>1, <2>2, <2>3, <2>5 DEF install
  <2> QED
    BY <2>4, <2>5
<1>5. InitReachesItsCard' /\ RecordInv'
  <2>1. last' # <<"Init", TRUE>> /\ last' # <<"SetNDEF", TRUE>> /\ pc' = "idle" /\ initForm' = "none"
    <3>1. last'[1] = "Select" /\ pc' = "idle" /\ initForm' = "none"
      BY <1>0, SelectFacts, ForgetType
    <3>2. ASSUME NEW call, NEW ok, last' = <<call, ok>> PROVE last'[1] = call
      BY <3>2
    <3> QED
      BY <3>1, <3>2
  <2> QED
    BY <2>1 DEF InitReachesItsCard, RecordInv, NDEFOnOneCard
<1> QED
  BY <1>1, <1>2, <1>3, <1>4, <1>5 DEF IInv

-----------------------------------------------------------------------------
(* INIT *)

\* What a card answers without error it has executed; it could, and a sealed
\* command reached it through its session, another through its applet.
LEMMA OkIsDone ==
    ASSUME NEW form, NEW able, NEW r \in Outcomes(form, able), r.answer = "ok"
    PROVE  /\ r.done /\ able
           /\ form = "sealed" => session
           /\ form # "sealed" => selected
<1>1. r # [done |-> FALSE, answer |-> "lost"] /\ r # [done |-> TRUE, answer |-> "lost"]
      /\ r # [done |-> FALSE, answer |-> "inner"] /\ r # [done |-> FALSE, answer |-> "refused"]
  OBVIOUS
<1> QED
  BY <1>1 DEF Outcomes

LEMMA DoneType ==
    ASSUME NEW form, NEW able, NEW r \in Outcomes(form, able)
    PROVE  r.done \in BOOLEAN
<1>1. [done |-> FALSE, answer |-> "lost"].done \in BOOLEAN
      /\ [done |-> TRUE, answer |-> "lost"].done \in BOOLEAN
      /\ [done |-> TRUE, answer |-> "ok"].done \in BOOLEAN
      /\ \A a : [done |-> FALSE, answer |-> a].done \in BOOLEAN
  OBVIOUS
<1> QED
  BY <1>1 DEF Outcomes

\* The card in the reader is the only one INIT can reach.
LEMMA CardInitsType ==
    ASSUME TypeOK, NEW r, r.done \in BOOLEAN, CardInits(r)
    PROVE  /\ initialized' \in [Cards -> BOOLEAN] /\ initBy' \subseteq Cards
           /\ r.done => initBy' = {slot}
<1>1. slot \in Cards /\ initialized \in [Cards -> BOOLEAN]
  BY DEF TypeOK
<1>2. CASE r.done
  <2>1. initialized' = [initialized EXCEPT ![slot] = TRUE] /\ initBy' = {slot}
    BY <1>2 DEF CardInits
  <2>2. [initialized EXCEPT ![slot] = TRUE] \in [Cards -> BOOLEAN]
    BY <1>1
  <2> QED
    BY <1>1, <2>1, <2>2
<1>3. CASE ~r.done
  <2>1. initialized' = initialized /\ initBy' = {}
    BY <1>3 DEF CardInits
  <2> QED
    BY <1>1, <1>3, <2>1
<1> QED
  BY <1>2, <1>3

\* INIT as one message to a card without a channel to open.
LEMMA InitV1Step ==
    ASSUME IInv, InitV1
    PROVE  IInv'
<1>0. /\ TypeOK /\ "Init" \in Calls /\ pc = "idle"
      /\ UNCHANGED <<sc, appInfo, slot, selected, session, paired>>
      /\ initForm' = "oneShot" /\ NoRecord
  BY DEF IInv, Calls, InitV1, host
<1>1. PICK r \in Outcomes("oneShot", sc.of = slot /\ ~initialized[slot]) :
         CardInits(r) /\ Return("Init", r.answer = "ok")
  BY DEF InitV1
<1>2. r.done \in BOOLEAN /\ (r.answer = "ok") \in BOOLEAN
  BY DoneType
<1>3. pc' = "idle" /\ last' = <<"Init", r.answer = "ok">> /\ last' \in Calls \X BOOLEAN
  BY <1>0, <1>1, <1>2, ReturnType
<1>4. /\ initialized' \in [Cards -> BOOLEAN] /\ initBy' \subseteq Cards
      /\ r.done => initBy' = {slot}
  BY <1>0, <1>1, <1>2, CardInitsType
<1>5. TypeOK'
  <2>1. /\ record' = 0 /\ off' = 0 /\ off' \in 0..record'
        /\ written' \in [Cards -> [Addresses -> Words \cup {None}]]
    BY <1>0, ForgetType
  <2> QED
    BY <1>0, <1>3, <1>4, <2>1 DEF TypeOK
<1>6. CallInv' /\ ChannelInv'
  BY <1>0, <1>3 DEF IInv, CallInv, ChannelInv, OpenWithItsCard
<1>7. last'[1] = "Init"
  BY <1>3
<1>8. ASSUME NEW call, NEW ok, last' = <<call, ok>> PROVE last'[1] = call /\ last'[2] = ok
  BY <1>8
<1>9. SelectMatches' /\ RecordInv'
  BY <1>3, <1>7, <1>8 DEF SelectMatches, RecordInv, NDEFOnOneCard
<1>10. InitReachesItsCard'
  <2>1. last' = <<"Init", TRUE>> => r.answer = "ok"
    BY <1>3
  <2>2. r.answer = "ok" => r.done /\ sc.of = slot
    BY OkIsDone
  <2> QED
    BY <1>0, <1>4, <2>1, <2>2 DEF InitReachesItsCard
<1> QED
  BY <1>5, <1>6, <1>9, <1>10 DEF IInv

\* The channel is opened before a protected INIT, or Init fails.
LEMMA InitV2Step ==
    ASSUME IInv, InitV2
    PROVE  IInv'
<1>0. /\ TypeOK /\ "Init" \in Calls /\ "none" \in Calls /\ pc = "idle" /\ sc.ver = "V2"
      /\ UNCHANGED <<appInfo, slot, selected, initialized, paired>>
      /\ initBy' = {} /\ initForm' = "none" /\ NoRecord
  BY DEF IInv, Calls, InitV2
<1>1. \/ AutoOpenSucceeds /\ Begin("init")
      \/ AutoOpenFails /\ Return("Init", FALSE)
  BY DEF InitV2
<1>2. Reopens
  BY <1>0, <1>1, AutoOpenSucceedsFacts, AutoOpenFailsFacts
<1>3. /\ last' \in Calls \X BOOLEAN
      /\ \/ pc' = "init" /\ last' = <<"none", TRUE>> /\ sc'.ver = "V2" /\ sc'.open
         \/ pc' = "idle" /\ last' = <<"Init", FALSE>>
  <2>1. CASE AutoOpenSucceeds /\ Begin("init")
    <3>1. sc'.ver = "V2" /\ sc'.open
      BY <1>0, <1>2, <2>1, AutoOpenSucceedsFacts DEF Reopens
    <3>2. pc' = "init" /\ last' = <<"none", TRUE>>
      BY <2>1 DEF Begin
    <3> QED
      BY <1>0, <3>1, <3>2
  <2>2. CASE AutoOpenFails /\ Return("Init", FALSE)
    BY <1>0, <2>2, ReturnFails
  <2> QED
    BY <1>1, <2>1, <2>2
<1>4. TypeOK'
  <2>1. /\ record' = 0 /\ off' = 0 /\ off' \in 0..record'
        /\ written' \in [Cards -> [Addresses -> Words \cup {None}]]
    BY <1>0, ForgetType
  <2> QED
    BY <1>0, <1>2, <1>3, <2>1 DEF TypeOK, Reopens, Channels
<1>5. CallInv'
  BY <1>3 DEF CallInv
<1>6. ChannelInv'
  BY <1>0, <1>2, ChannelStep DEF IInv
<1>7. last' \notin {<<"Select", TRUE>>, <<"Init", TRUE>>, <<"SetNDEF", TRUE>>}
  <2>1. CASE last' = <<"none", TRUE>>
    BY <2>1
  <2>2. CASE last' = <<"Init", FALSE>>
    BY <2>2
  <2> QED
    BY <1>3, <2>1, <2>2
<1>8. SelectMatches' /\ InitReachesItsCard' /\ RecordInv'
  BY <1>0, <1>3, <1>7 DEF SelectMatches, InitReachesItsCard, RecordInv, NDEFOnOneCard
<1> QED
  BY <1>4, <1>5, <1>6, <1>8 DEF IInv

\* The protected INIT: sealed, for the card the channel was opened with.
LEMMA InitSendsStep ==
    ASSUME IInv, InitSends
    PROVE  IInv'
<1>0. /\ TypeOK /\ "Init" \in Calls /\ pc = "init" /\ sc.ver = "V2" /\ sc.open
      /\ UNCHANGED <<appInfo, record, off, slot, selected, paired, written>>
      /\ initForm' = "sealed" /\ Form = "sealed"
  BY DEF IInv, CallInv, Calls, InitSends, ndef, Form
<1>1. PICK r \in Outcomes(Form, ~initialized[slot]) :
         Transmitted(r) /\ CardInits(r) /\ Return("Init", r.answer = "ok")
  BY DEF InitSends
<1>2. r.done \in BOOLEAN /\ (r.answer = "ok") \in BOOLEAN
  BY DoneType
<1>3. pc' = "idle" /\ last' = <<"Init", r.answer = "ok">> /\ last' \in Calls \X BOOLEAN
  BY <1>0, <1>1, <1>2, ReturnType
<1>4. /\ initialized' \in [Cards -> BOOLEAN] /\ initBy' \subseteq Cards
      /\ r.done => initBy' = {slot}
  BY <1>0, <1>1, <1>2, CardInitsType
<1>5. Weakens /\ Reopens
  BY <1>0, <1>1, TransmittedWeakens, WeakensReopens
<1>6. TypeOK'
  BY <1>0, <1>3, <1>4, <1>5 DEF TypeOK, Reopens, Channels
<1>7. CallInv'
  BY <1>3 DEF CallInv
<1>8. ChannelInv'
  BY <1>0, <1>5, ChannelStep DEF IInv
<1>9. last'[1] = "Init"
  BY <1>3
<1>10. ASSUME NEW call, NEW ok, last' = <<call, ok>> PROVE last'[1] = call /\ last'[2] = ok
  BY <1>10
<1>11. SelectMatches' /\ RecordInv'
  BY <1>3, <1>9, <1>10 DEF SelectMatches, RecordInv, NDEFOnOneCard
<1>12. InitReachesItsCard'
  <2>1. last' = <<"Init", TRUE>> => r.answer = "ok"
    BY <1>3
  <2>2. r.answer = "ok" => r.done /\ session
    BY <1>0, OkIsDone
  <2>3. session => slot = sc.of
    BY <1>0 DEF IInv, ChannelInv, OpenWithItsCard
  <2>4. sc'.of = sc.of
    BY <1>5 DEF Weakens
  <2> QED
    BY <1>0, <1>4, <2>1, <2>2, <2>3, <2>4 DEF InitReachesItsCard
<1> QED
  BY <1>6, <1>7, <1>8, <1>11, <1>12 DEF IInv

-----------------------------------------------------------------------------
(* SetNDEF *)

LEMMA MinType ==
    ASSUME NEW m \in Nat, NEW n \in Nat
    PROVE  /\ Min({m, n}) \in {m, n}
           /\ Min({m, n}) <= m /\ Min({m, n}) <= n
<1> DEFINE S == {m, n}
<1>1. \E x \in S : \A y \in S : x <= y
  <2>1. CASE m <= n
    BY <2>1
  <2>2. CASE ~(m <= n)
    BY <2>2
  <2> QED
    BY <2>1, <2>2
<1>2. Min(S) \in S /\ \A y \in S : Min(S) <= y
  <2> HIDE DEF S
  <2> QED
    BY <1>1 DEF Min
<1> QED
  BY <1>2

\* A chunk is not empty, ends in the record, and is short only as the last.
LEMMA ChunkFacts ==
    ASSUME TypeOK, CallInv, pc = "ndef"
    PROVE  /\ record \in Records /\ record \in Nat /\ off \in Nat
           /\ chunkSize \in Nat /\ chunkSize > 0 /\ off + chunkSize <= record
           /\ Legacy => off = 0 /\ chunkSize = record
           /\ ~Legacy => chunkSize = ChunkWords \/ off + chunkSize = record
<1>1. /\ record \in Records /\ record \in Nat /\ off \in Nat /\ off < record
      /\ Legacy => off = 0
  BY DEF TypeOK, CallInv
<1>2. CASE Legacy
  BY <1>1, <1>2 DEF chunkSize
<1>3. CASE ~Legacy
  <2> DEFINE rest == record - off
             size == Min({ChunkWords, rest})
  <2>1. rest \in Nat /\ rest > 0 /\ off + rest = record
    BY <1>1
  <2>2. chunkSize = size
    BY <1>3 DEF chunkSize
  <2> HIDE DEF rest
  <2>3. size \in {ChunkWords, rest} /\ size <= rest
    BY <2>1, MinType
  <2> HIDE DEF size
  <2> QED
    BY <1>1, <1>3, <2>1, <2>2, <2>3
<1> QED
  BY <1>2, <1>3

\* P2 is the offset, as long as every chunk begins where P2 can say.
LEMMA AddressIsOffset ==
    ASSUME TypeOK, CallInv, RecordInv, pc = "ndef", Addressable
    PROVE  StoreDataWithOffset(off) = off
<1>0. record \in Nat /\ off \in Nat /\ off < record /\ P2Space \in Nat /\ P2Space > 0
      /\ ChunkWords \in Nat /\ ChunkWords > 0
  <2>1. P2Space \in Nat /\ P2Space > 0 /\ ChunkWords \in Nat /\ ChunkWords > 0
    OBVIOUS
  <2>2. off < record
    BY DEF CallInv
  <2> QED
    BY <2>1, <2>2, ChunkFacts
<1>1. off < P2Space
  <2>1. CASE Legacy
    BY <1>0, <2>1, ChunkFacts
  <2>2. CASE ~Legacy
    <3> DEFINE q == (P2Space - 1) \div ChunkWords
    <3>1. PICK k \in Nat : off = k * ChunkWords
      BY <2>2 DEF RecordInv
    <3>2. q \in Nat /\ q * ChunkWords <= P2Space - 1
      BY <1>0
    <3>3. record <= ChunkWords * (q + 1)
      BY <2>2 DEF Addressable
    <3> HIDE DEF q
    <3>4. k * ChunkWords < (q + 1) * ChunkWords
      BY <1>0, <3>1, <3>2, <3>3
    <3>5. ~(k >= q + 1)
      <4> SUFFICES ASSUME k >= q + 1 PROVE FALSE
        OBVIOUS
      <4>1. PICK d \in Nat : k = (q + 1) + d
        <5>1. k - (q + 1) \in Nat /\ k = (q + 1) + (k - (q + 1))
          BY <3>2
        <5> QED
          BY <5>1
      <4>2. k * ChunkWords = (q + 1) * ChunkWords + d * ChunkWords
        BY <1>0, <3>2, <4>1
      <4>3. d * ChunkWords \in Nat /\ (q + 1) * ChunkWords \in Nat
        BY <1>0, <3>2
      <4> QED
        BY <3>4, <4>2, <4>3
    <3>6. PICK d \in Nat : q = k + d
      <4>1. q - k \in Nat /\ q = k + (q - k)
        BY <3>2, <3>5
      <4> QED
        BY <4>1
    <3>7. q * ChunkWords = k * ChunkWords + d * ChunkWords /\ d * ChunkWords \in Nat
      BY <1>0, <3>6
    <3>8. k * ChunkWords <= q * ChunkWords
      BY <1>0, <3>1, <3>7
    <3> QED
      BY <1>0, <3>1, <3>2, <3>8
  <2> QED
    BY <2>1, <2>2
<1> QED
  BY <1>0, <1>1 DEF StoreDataWithOffset

\* What the card in the reader holds with the chunk at hand, and what it holds
\* of the words sent before.
Sent ==
    LET at == StoreDataWithOffset(off)
    IN  [a \in Addresses |->
            IF a \in at..(at + chunkSize - 1) THEN off + (a - at) ELSE written[slot][a]]

StoredHere == \A w \in 0..(off - 1) : written[slot][w] = w

\* A chunk leaves nothing but words of the record,
LEMMA CardStoresType ==
    ASSUME TypeOK, CallInv, pc = "ndef", NEW r, CardStores(r)
    PROVE  written' \in [Cards -> [Addresses -> Words \cup {None}]]
<1> DEFINE at == StoreDataWithOffset(off)
           size == chunkSize
<1>0. /\ slot \in Cards /\ written \in [Cards -> [Addresses -> Words \cup {None}]]
      /\ off \in Nat /\ record \in Nat /\ record \in Records
      /\ size \in Nat /\ size > 0 /\ off + size <= record
  BY ChunkFacts DEF TypeOK
<1>1. at \in Nat
  BY <1>0 DEF StoreDataWithOffset
<1>2. 0..(record - 1) \subseteq Words /\ Addresses \subseteq Nat
  BY <1>0, RecordsMax
<1>3. written' = written \/ written' = [written EXCEPT ![slot] = Sent]
  BY DEF CardStores, Sent
<1>4. Sent \in [Addresses -> Words \cup {None}]
  <2> SUFFICES ASSUME NEW a \in Addresses
               PROVE  (IF a \in at..(at + size - 1) THEN off + (a - at) ELSE written[slot][a])
                         \in Words \cup {None}
    BY DEF Sent
  <2>1. CASE a \in at..(at + size - 1)
    <3>1. off + (a - at) \in 0..(record - 1)
      <4> HIDE DEF at, size
      <4> QED
        BY <1>0, <1>1, <1>2, <2>1
    <3> QED
      BY <1>2, <2>1, <3>1
  <2>2. CASE a \notin at..(at + size - 1)
    BY <1>0, <2>2
  <2> QED
    BY <2>1, <2>2
<1> QED
  BY <1>0, <1>3, <1>4

\* where P2 says: behind what is there already.
LEMMA CardStoresWhole ==
    ASSUME TypeOK, CallInv, RecordInv, pc = "ndef", NEW r, CardStores(r),
           off' = off + chunkSize, slot' = slot, r.done, Addressable, StoredHere
    PROVE  StoredHere'
<1> DEFINE at == StoreDataWithOffset(off)
           size == chunkSize
<1>0. /\ slot \in Cards /\ written \in [Cards -> [Addresses -> Words \cup {None}]]
      /\ off \in Nat /\ record \in Nat /\ record \in Records
      /\ size \in Nat /\ size > 0 /\ off + size <= record
  BY ChunkFacts DEF TypeOK
<1>1. at = off
  BY AddressIsOffset
<1>2. 0..(record - 1) \subseteq Addresses
  BY <1>0, RecordsMax
<1>3. written'[slot] = Sent
  BY <1>0 DEF CardStores, Sent
<1> SUFFICES ASSUME NEW w \in 0..(off + size - 1) PROVE written'[slot][w] = w
  BY <1>0 DEF StoredHere
<1>4. w \in Addresses /\ w \in Nat
  <2>1. w \in 0..(record - 1)
    <3> HIDE DEF size
    <3> QED
      BY <1>0
  <2> QED
    BY <1>2, <2>1
<1>5. Sent[w] = IF w \in at..(at + size - 1) THEN off + (w - at) ELSE written[slot][w]
  BY <1>4 DEF Sent
<1> HIDE DEF at, size
<1>6. CASE w \in 0..(off - 1)
  <2>1. written[slot][w] = w
    BY <1>6 DEF StoredHere
  <2> QED
    BY <1>0, <1>1, <1>3, <1>4, <1>5, <1>6, <2>1
<1>7. CASE w \notin 0..(off - 1)
  BY <1>0, <1>1, <1>3, <1>4, <1>5, <1>7
<1> QED
  BY <1>6, <1>7

\* Nothing is sent yet: the card in the reader has all of that.
LEMMA SetNDEFStep ==
    ASSUME IInv, SetNDEF
    PROVE  IInv'
<1>0. /\ TypeOK /\ pc' = "ndef" /\ last' = <<"none", TRUE>> /\ record' \in Records /\ off' = 0
      /\ initForm' = "none" /\ initBy' = {} /\ written' = Unwritten
      /\ UNCHANGED <<sc, appInfo, slot, selected, session, initialized, paired>>
  BY DEF IInv, SetNDEF, Begin, host, cards
<1>1. last' \in Calls \X BOOLEAN /\ last' \notin {<<"Select", TRUE>>, <<"Init", TRUE>>, <<"SetNDEF", TRUE>>}
  <2>1. <<"none", TRUE>> \in Calls \X BOOLEAN
    BY DEF Calls
  <2> QED
    BY <1>0, <2>1
<1>2. TypeOK'
  <2>1. off' \in 0..record' /\ written' \in [Cards -> [Addresses -> Words \cup {None}]]
    BY <1>0 DEF Unwritten
  <2> QED
    BY <1>0, <1>1, <2>1 DEF TypeOK
<1>3. CallInv' /\ ChannelInv' /\ SelectMatches' /\ InitReachesItsCard'
  BY <1>0, <1>1 DEF IInv, CallInv, ChannelInv, OpenWithItsCard, SelectMatches, InitReachesItsCard
<1>4. RecordInv'
  <2>1. off' = 0 * ChunkWords /\ 0 \in Nat
    BY <1>0
  <2>2. slot' \in Cards /\ 0..(off' - 1) = {}
    BY <1>0 DEF TypeOK
  <2> QED
    BY <1>0, <1>1, <2>1, <2>2 DEF RecordInv, NDEFOnOneCard
<1> QED
  BY <1>2, <1>3, <1>4 DEF IInv

\* A chunk that the card acknowledged went to the card that has the others.
LEMMA NDEFSendsStep ==
    ASSUME IInv, NDEFSends
    PROVE  IInv'
<1>0. /\ TypeOK /\ CallInv /\ RecordInv /\ "SetNDEF" \in Calls /\ pc = "ndef" /\ last = <<"none", TRUE>>
      /\ slot \in Cards /\ record \in Nat /\ off \in Nat
      /\ UNCHANGED <<appInfo, record, slot, selected, initialized, paired, initForm, initBy>>
  BY ChunkFacts DEF IInv, CallInv, Calls, NDEFSends, TypeOK
<1>1. ASSUME NEW call, NEW ok, last' = <<call, ok>> PROVE last'[1] = call /\ last'[2] = ok
  BY <1>1
<1>2. CASE Refused /\ Return("SetNDEF", FALSE) /\ UNCHANGED <<sc, session, off, written>>
  <2>1. pc' = "idle" /\ last' = <<"SetNDEF", FALSE>> /\ last' \in Calls \X BOOLEAN
    BY <1>0, <1>2, ReturnFails
  <2>2. TypeOK'
    BY <1>0, <1>2, <2>1 DEF TypeOK
  <2>3. last' \notin {<<"Select", TRUE>>, <<"Init", TRUE>>, <<"SetNDEF", TRUE>>}
    BY <2>1
  <2>4. CallInv' /\ ChannelInv' /\ SelectMatches' /\ InitReachesItsCard' /\ RecordInv'
    BY <1>0, <1>2, <2>1, <2>3
    DEF IInv, CallInv, ChannelInv, OpenWithItsCard, SelectMatches, InitReachesItsCard, RecordInv, NDEFOnOneCard
  <2> QED
    BY <2>2, <2>4 DEF IInv
<1>3. CASE /\ ~Refused
           /\ \E r \in Outcomes(Form, Understands(slot)) :
                 /\ Transmitted(r)
                 /\ CardStores(r)
                 /\ off' = off + chunkSize
                 /\ IF off' = record \/ r.answer # "ok"
                    THEN Return("SetNDEF", r.answer = "ok")
                    ELSE UNCHANGED <<pc, last>>
  <2>1. PICK r \in Outcomes(Form, Understands(slot)) :
           /\ Transmitted(r)
           /\ CardStores(r)
           /\ off' = off + chunkSize
           /\ IF off' = record \/ r.answer # "ok"
              THEN Return("SetNDEF", r.answer = "ok")
              ELSE UNCHANGED <<pc, last>>
    BY <1>3
  <2>2. r.done \in BOOLEAN /\ (r.answer = "ok") \in BOOLEAN
    BY DoneType
  <2>3. /\ off' \in Nat /\ off' <= record /\ off' \in 0..record'
        /\ Legacy => off' = record
        /\ ~Legacy => off' = off + ChunkWords \/ off' = record
    BY <1>0, <2>1, ChunkFacts
  <2>4. Weakens /\ Reopens
    BY <1>0, <2>1, TransmittedWeakens, WeakensReopens
  <2>5. /\ last' \in Calls \X BOOLEAN
        /\ \/ pc' = "idle" /\ last' = <<"SetNDEF", r.answer = "ok">>
              /\ (r.answer = "ok" => off' = record)
           \/ pc' = "ndef" /\ last' = <<"none", TRUE>> /\ r.answer = "ok" /\ off' # record
    <3>1. CASE off' = record \/ r.answer # "ok"
      BY <1>0, <2>1, <2>2, <3>1, ReturnType
    <3>2. CASE ~(off' = record \/ r.answer # "ok")
      BY <1>0, <2>1, <3>2 DEF TypeOK
    <3> QED
      BY <3>1, <3>2
  <2>6. written' \in [Cards -> [Addresses -> Words \cup {None}]]
    BY <1>0, <2>1, CardStoresType
  <2>7. TypeOK'
    BY <1>0, <2>3, <2>4, <2>5, <2>6 DEF TypeOK, Reopens, Channels
  <2>8. UNCHANGED <<Legacy, Addressable>>
    BY <1>0 DEF Legacy, Addressable
  <2>9. CallInv'
    <3>1. CASE pc' = "idle"
      BY <3>1 DEF CallInv
    <3>2. CASE pc' = "ndef" /\ last' = <<"none", TRUE>> /\ off' # record
      <4>1. off' < record' /\ ~Legacy'
        BY <1>0, <2>3, <2>8, <3>2
      <4> QED
        BY <3>2, <4>1 DEF CallInv
    <3> QED
      BY <2>5, <3>1, <3>2
  <2>10. ChannelInv'
    BY <1>0, <2>4, ChannelStep DEF IInv
  <2>11. last' # <<"Select", TRUE>> /\ last' # <<"Init", TRUE>>
    <3>1. CASE last' = <<"SetNDEF", r.answer = "ok">>
      <4>1. last'[1] = "SetNDEF"
        BY <3>1
      <4>2. \A call, ok : last' = <<call, ok>> => call = "SetNDEF"
        BY <1>1, <4>1
      <4> QED
        BY <4>2
    <3>2. CASE last' = <<"none", TRUE>>
      BY <3>2
    <3> QED
      BY <2>5, <3>1, <3>2
  <2>12. SelectMatches' /\ InitReachesItsCard'
    BY <1>0, <2>11 DEF IInv, SelectMatches, InitReachesItsCard
  <2>13. Addressable /\ r.answer = "ok" => StoredHere'
    <3> SUFFICES ASSUME Addressable, r.answer = "ok" PROVE StoredHere'
      OBVIOUS
    <3>1. r.done /\ (selected \/ session)
      BY OkIsDone
    <3>2. StoredHere
      BY <1>0, <3>1 DEF RecordInv, StoredHere
    <3>3. CardStores(r) /\ off' = off + chunkSize /\ slot' = slot
      BY <1>0, <2>1
    <3> QED
      BY <1>0, <3>1, <3>2, <3>3, CardStoresWhole
  <2>14. pc' = "ndef" /\ ~Legacy' => \E k \in Nat : off' = k * ChunkWords
    <3> SUFFICES ASSUME pc' = "ndef", ~Legacy' PROVE \E k \in Nat : off' = k * ChunkWords
      OBVIOUS
    <3>1. PICK k \in Nat : off = k * ChunkWords
      BY <1>0, <2>8 DEF RecordInv
    <3>2. off' = off + ChunkWords
      BY <2>3, <2>5, <2>8
    <3>3. off' = (k + 1) * ChunkWords /\ k + 1 \in Nat
      BY <3>1, <3>2
    <3> QED
      BY <3>3
  <2>15. NDEFOnOneCard'
    <3> SUFFICES ASSUME last' = <<"SetNDEF", TRUE>>, Addressable'
                 PROVE  \E c \in Cards : \A w \in 0..(record' - 1) : written'[c][w] = w
      BY DEF NDEFOnOneCard
    <3>1. last'[1] = "SetNDEF" /\ last'[2] = TRUE
      BY <1>1
    <3>2. r.answer = "ok" /\ off' = record'
      BY <1>0, <2>5, <3>1
    <3>3. StoredHere' /\ slot' \in Cards
      BY <1>0, <2>8, <2>13, <3>2
    <3> QED
      BY <3>2, <3>3 DEF StoredHere
  <2>16. pc' = "ndef" /\ Addressable' =>
           \E c \in Cards :
               /\ selected' \/ session' => slot' = c
               /\ \A w \in 0..(off' - 1) : written'[c][w] = w
    <3> SUFFICES ASSUME pc' = "ndef", Addressable'
                 PROVE  \E c \in Cards :
                            /\ selected' \/ session' => slot' = c
                            /\ \A w \in 0..(off' - 1) : written'[c][w] = w
      OBVIOUS
    <3>1. StoredHere' /\ slot' \in Cards
      BY <1>0, <2>5, <2>8, <2>13
    <3> QED
      BY <3>1 DEF StoredHere
  <2>17. RecordInv'
    BY <2>14, <2>15, <2>16 DEF RecordInv
  <2> QED
    BY <2>7, <2>9, <2>10, <2>12, <2>17 DEF IInv
<1> QED
  BY <1>2, <1>3 DEF NDEFSends

-----------------------------------------------------------------------------
(* The theorems *)

LEMMA Inductive == IInv /\ [Next]_vars => IInv'
<1> SUFFICES ASSUME IInv, [Next]_vars PROVE IInv'
  OBVIOUS
<1>0. TypeOK
  BY DEF IInv
<1>1. CASE SelectFails \/ AutoOpenSecureChannel \/ OpenSecureChannel \/ Pair
           \/ (\E c \in Cards \cup {None} : SetPairing(c)) \/ OneExchange \/ FactoryReset
  BY <1>0, <1>1, QuietFacts, QuietStep
<1>2. CASE Select
  BY <1>2, SelectStep
<1>3. CASE InitV1 \/ InitV2 \/ InitSends
  BY <1>3, InitV1Step, InitV2Step, InitSendsStep
<1>4. CASE SetNDEF \/ NDEFSends
  BY <1>4, SetNDEFStep, NDEFSendsStep
<1>5. CASE \E c \in Cards : Swap(c)
  BY <1>5, SwapStep
<1>6. CASE UNCHANGED vars
  <2>1. UNCHANGED <<Legacy, Addressable, NDEFOnOneCard, SelectMatches, OpenWithItsCard, InitReachesItsCard>>
    BY <1>6 DEF vars, host, ndef, cards, hist, Legacy, Addressable, NDEFOnOneCard, SelectMatches,
                isSecureChannelV2, OpenWithItsCard, InitReachesItsCard
  <2> QED
    <3>1. UNCHANGED <<sc, appInfo, pc, record, off, last, slot, selected, session, initialized,
                      paired, initForm, initBy, written>>
      BY <1>6 DEF vars, host, ndef, cards, hist
    <3>2. TypeOK'
      BY <3>1 DEF IInv, TypeOK
    <3>3. CallInv'
      BY <2>1, <3>1 DEF IInv, CallInv
    <3>4. ChannelInv'
      BY <2>1, <3>1 DEF IInv, ChannelInv
    <3>5. RecordInv'
      BY <2>1, <3>1 DEF IInv, RecordInv
    <3> QED
      BY <2>1, <3>2, <3>3, <3>4, <3>5 DEF IInv
<1> QED
  BY <1>1, <1>2, <1>3, <1>4, <1>5, <1>6 DEF Next, OneExchange

\* The invariant that the others follow from: what is open and of whom, what a
\* call in progress has reached, and what a card has stored of its record.
THEOREM Invariance == Spec => []IInv
BY InitInv, Inductive, PTL DEF Spec

\* Every variable of the command set and of the cards keeps to its type, the
\* chunks of a record to the record and to the addresses of a card.
THEOREM TypeCorrect == Spec => []TypeOK
BY Invariance, PTL DEF IInv

\* Select succeeds only with a fresh channel of the right version, made from the
\* applet selected and, for V2, with a vetted certificate or none
\* (command_set.go:102-121).
THEOREM SelectSafety == Spec => []SelectMatches
BY Invariance, PTL DEF IInv

\* An open V2 channel is of a vetted card, and the card with its keys is the one
\* the channel was made from, whatever was selected, failed or swapped since.
THEOREM ChannelSafety == Spec => []OpenWithItsCard
BY Invariance, PTL DEF IInv, ChannelInv

\* INIT never leaves in the clear, and Init succeeds only at the card of the
\* channel, although cards may change between opening and INIT
\* (command_set.go:155-164).
THEOREM InitSafety == Spec => []InitReachesItsCard
BY Invariance, PTL DEF IInv

\* SetNDEF succeeds only with the whole record on one card, each word in its
\* place, for every length of the record and of the chunks that P2 can address
\* (command_set.go:842-863).
THEOREM NDEFSafety == Spec => []NDEFOnOneCard
BY Invariance, PTL DEF IInv, RecordInv

\* No step at whose end Select has failed replaces the channel: a call in
\* progress has not returned, so what it does to the channel is not Select's.
LEMMA FailedSelectStep ==
    IInv /\ [Next]_vars => [last' = <<"Select", FALSE>> => sc' = sc]_vars
<1> SUFFICES ASSUME IInv, Next, last' = <<"Select", FALSE>> PROVE sc' = sc
  BY DEF vars
<1>0. TypeOK /\ CallInv
  BY DEF IInv
<1>1. ASSUME NEW call, NEW ok, last' = <<call, ok>> PROVE call = "Select"
  <2>1. last'[1] = call /\ last'[1] = "Select"
    BY <1>1
  <2> QED
    BY <2>1
<1>2. CASE SelectFails \/ AutoOpenSecureChannel \/ OpenSecureChannel \/ Pair
           \/ (\E c \in Cards \cup {None} : SetPairing(c)) \/ OneExchange \/ FactoryReset
  BY <1>0, <1>2, QuietFacts DEF Quiet
<1>3. CASE Select
  BY <1>0, <1>3, SelectFacts
<1>4. CASE InitV1 \/ SetNDEF \/ \E c \in Cards : Swap(c)
  BY <1>4 DEF InitV1, SetNDEF, Swap, host
<1>5. CASE InitV2
  BY <1>1, <1>5 DEF InitV2, Begin, Return
<1>6. CASE InitSends
  BY <1>1, <1>6 DEF InitSends, Return
<1>7. CASE NDEFSends
  BY <1>0, <1>1, <1>7 DEF NDEFSends, Return, CallInv
<1> QED
  BY <1>2, <1>3, <1>4, <1>5, <1>6, <1>7 DEF Next, OneExchange

\* A Select that fails leaves the channel in place (command_set.go:100-119).
THEOREM FailedSelectSafety == Spec => FailedSelectKeepsChannel
<1>1. IInv /\ [Next]_vars => [last' = <<"Select", FALSE>> => sc' = sc]_vars
  BY FailedSelectStep
<1> QED
  BY <1>1, Invariance, PTL DEF Spec, FailedSelectKeepsChannel

=============================================================================
