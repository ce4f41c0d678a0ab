-------------------------- MODULE SecureChannelV1 --------------------------
(***************************************************************************)
(* Secure Channel V1 (secure_channel.go) and the legacy open of the        *)
(* command set: the host object, the card and the reader.                  *)
(*                                                                         *)
(* Session keys are derived from the pairing key and a salt the card sends *)
(* with the answer to OPEN SECURE CHANNEL, and every frame is chained: the *)
(* MAC of each command and of each answer becomes the IV of the next one.  *)
(* A key is modelled by the number of the OPEN it was derived from, an IV  *)
(* by the sequence of what the session's MACs have covered so far.         *)
(*                                                                         *)
(* The MAC of an answer covers its ciphertext and not the IV: Transmit     *)
(* accepts any answer made under the session key, and what it decrypts to  *)
(* is the card's answer only if both IVs agree.  The reader loses and      *)
(* damages messages; unlike in SecureChannelV2 it repeats none.            *)
(***************************************************************************)
EXTENDS Naturals, Sequences

CONSTANTS
    Commands,       \* the commands clients send
    Authenticate,   \* MUTUALLY AUTHENTICATE
    None,
    MaxHandshakes,  \* bound on the OPEN SECURE CHANNELs of a behaviour
    MaxExchanges    \* bound on the exchanges of one session

ASSUME ConstantsAssumption ==
    /\ Authenticate \notin Commands
    /\ None \notin Commands \cup {Authenticate}
    /\ MaxHandshakes \in Nat
    /\ MaxExchanges \in Nat \ {0}

VARIABLES
    \* SecureChannelV1
    open,           \* sc.open
    established,    \* sc.established
    key,            \* sc.encKey and sc.macKey, 0 when nil
    iv,             \* sc.iv
    pairing,        \* sc.pairing: "nil", "valid", or "stale" (the slot was reused)
    \* the call in progress
    pc,             \* "idle", "sent", "opening", "derived" or "authenticating"
    legacy,         \* opening through CommandSet.OpenSecureChannel
    wire,           \* the entry the current call sealed
    net,            \* what the reader holds
    \* the card
    cardKey,
    cardIv,
    \* history
    handshakes,     \* OPEN SECURE CHANNELs sent so far
    opened,         \* AutoOpen or OpenSecureChannel has returned nil
    issued,
    executed,
    accepted        \* [req, ans]: the answer Transmit decrypted for req

host == <<open, established, key, iv, pairing>>
call == <<pc, legacy, wire, net>>
card == <<cardKey, cardIv>>
hist == <<handshakes, opened, issued, executed, accepted>>
vars == <<host, call, card, hist>>

-----------------------------------------------------------------------------

\* Bug: a derivation counted past the last open.
MisderivedLate(h) == 2 * MaxHandshakes + h

\* What the host derives from damaged data, or with a stale pairing key, in its
\* h-th OPEN: a key no card has.
Misderived(h) == MaxHandshakes + h

Sessions == 1..(2 * MaxHandshakes)
Positions == 0..(2 * MaxExchanges)
AllCommands == Commands \cup {Authenticate}

Entries == [s : Sessions \cup {0}, n : Positions, c : AllCommands \cup {None}]
Links == {"command", "answer"} \X AllCommands
Chain == UNION {[1..n -> Links] : n \in Positions}

Entry(s, n, c) == [s |-> s, n |-> n, c |-> c]
NoEntry == Entry(0, 0, None)

\* sw is the status word inside an answer: TRUE for 0x9000.
Requests == {"open", "sealed", "plain", "pair"}
Answers == {"opened", "answer", "plainAnswer", "garbled", "refused", "error"}
Messages == [t : Requests \cup Answers \cup {"none"}, e : Entries, sw : BOOLEAN]

Message(t, e, sw) == [t |-> t, e |-> e, sw |-> sw]
Bare(t) == Message(t, NoEntry, TRUE)
NoMessage == Bare("none")

TypeOK ==
    /\ open \in BOOLEAN
    /\ established \in BOOLEAN
    /\ key \in Sessions \cup {0}
    /\ iv \in Seq(Links)
    /\ pairing \in {"nil", "valid", "stale"}
    /\ pc \in {"idle", "sent", "opening", "derived", "authenticating"}
    /\ legacy \in BOOLEAN
    /\ wire \in Entries
    /\ net \in Messages
    /\ cardKey \in Sessions \cup {0}
    /\ cardIv \in Seq(Links)
    /\ handshakes \in 0..MaxHandshakes
    /\ opened \in BOOLEAN
    /\ issued \subseteq Entries
    /\ executed \subseteq Entries
    /\ accepted \subseteq [req : Entries, ans : Entries]

\* NewSecureChannel, GenerateSecret and Reset, as Select leaves the channel.
Init ==
    /\ open = FALSE
    /\ established = FALSE
    /\ key = 0
    /\ iv = <<>>
    /\ pairing = "nil"
    /\ pc = "idle"
    /\ legacy = FALSE
    /\ wire = NoEntry
    /\ net = NoMessage
    /\ cardKey = 0
    /\ cardIv = <<>>
    /\ handshakes = 0
    /\ opened = FALSE
    /\ issued = {}
    /\ executed = {}
    /\ accepted = {}

-----------------------------------------------------------------------------
(* Pairing and reset *)

SetPairing(p) ==
    /\ pc = "idle"
    /\ pairing' = p
    /\ UNCHANGED <<open, established, key, iv, call, card, hist>>

\* Session and keys go; the pairing, the secret and the public key stay.
Reset ==
    /\ pc = "idle"
    /\ open' = FALSE
    /\ established' = FALSE
    /\ key' = 0
    /\ iv' = <<>>
    /\ opened' = FALSE
    /\ UNCHANGED <<pairing, call, card, handshakes, issued, executed, accepted>>

-----------------------------------------------------------------------------
(* Sealing *)

\* Bug: only commands are chained.
updateIVOfCommands(link) ==
    iv' = IF link[1] = "command" THEN Append(iv, link) ELSE iv

\* The MAC over a frame becomes the IV.
updateIV(link) == iv' = Append(iv, link)

\* ProtectedCommand on an open channel: the IV becomes the command's MAC before
\* the command is sent.
Seals(c) ==
    /\ Len(iv) < 2 * MaxExchanges
    /\ wire' = Entry(key, Len(iv), c)
    /\ updateIV(<<"command", c>>)
    /\ issued' = issued \cup {wire'}
    /\ net' = Message("sealed", wire', TRUE)

\* ProtectedCommand and Transmit.  A closed channel sends in the clear if it was
\* never established, and otherwise returns an error without sending.
SendProtected(c) ==
    /\ pc = "idle"
    /\ \/ /\ open
          /\ key # 0
          /\ Seals(c)
       \/ /\ ~open
          /\ ~established
          /\ net' = Message("plain", Entry(0, 0, c), TRUE)
          /\ UNCHANGED <<wire, iv, issued>>
    /\ pc' = "sent"
    /\ UNCHANGED <<open, established, key, pairing, legacy, card, handshakes,
                   opened, executed, accepted>>

\* A PAIR of the caller's: in the clear whatever the state of the channel, and
\* through Transmit, which takes the answer for a sealed one if it is open.
Pair ==
    /\ pc = "idle"
    /\ net' = Bare("pair")
    /\ pc' = "sent"
    /\ UNCHANGED <<host, legacy, wire, card, hist>>

-----------------------------------------------------------------------------
(* Opening *)

SendsOpen ==
    /\ pc = "idle"
    /\ pairing # "nil"
    /\ handshakes < MaxHandshakes
    /\ handshakes' = handshakes + 1
    /\ net' = Message("open", Entry(handshakes + 1, 0, None), TRUE)
    /\ pc' = "opening"
    /\ UNCHANGED <<established, key, iv, pairing, wire, card, opened, issued,
                   executed, accepted>>

\* AutoOpen closes the channel before it sends OPEN SECURE CHANNEL,
AutoOpen ==
    /\ SendsOpen
    /\ open' = FALSE
    /\ legacy' = FALSE

\* CommandSet.OpenSecureChannel leaves it as it is.
OpenSecureChannel ==
    /\ SendsOpen
    /\ legacy' = TRUE
    /\ UNCHANGED open

\* Send failed, a status word other than 0x9000, or not 48 bytes of data.
OpenFails ==
    /\ pc = "opening"
    /\ net.t \in Answers \ {"opened"}
    /\ pc' = "idle"
    /\ net' = NoMessage
    /\ UNCHANGED <<host, legacy, wire, card, hist>>

\* DeriveSessionKeys on 48 bytes: intact, or damaged in a way that shows only
\* when the first answer fails its MAC.
DeriveSessionKeys ==
    IF net.t = "opened" /\ pairing = "valid"
    THEN handshakes
    ELSE Misderived(handshakes)

\* processOpenResponse, or Init, which also sets established.
processOpenResponse ==
    /\ pc = "opening"
    /\ net.t \in {"opened", "garbled"}
    /\ key' = DeriveSessionKeys
    /\ iv' = <<>>
    /\ open' = TRUE
    /\ established' = (established \/ legacy)
    /\ net' = NoMessage
    /\ pc' = "derived"
    /\ UNCHANGED <<pairing, legacy, wire, card, hist>>

\* The challenge of either kind of open is the first command of the session.
MutuallyAuthenticate ==
    /\ pc = "derived"
    /\ Seals(Authenticate)
    /\ pc' = "authenticating"
    /\ UNCHANGED <<open, established, key, pairing, legacy, card, handshakes,
                   opened, executed, accepted>>

-----------------------------------------------------------------------------
(* Transmit with the reader's answer in hand *)

Returns ==
    /\ pc \in {"sent", "authenticating"}
    /\ net.t \in Answers
    /\ pc' = "idle"
    /\ wire' = NoEntry
    /\ net' = NoMessage
    /\ UNCHANGED <<key, pairing, legacy, card, handshakes, issued, executed>>

\* Bug: an error of Send leaves the session open.
TransmitFailsOpen ==
    /\ Returns
    /\ \/ net.t \in {"error", "refused"}
       \/ open /\ ~(net.t = "answer" /\ net.e.s = key)
    /\ open' = (open /\ net.t = "error")
    /\ UNCHANGED <<established, iv, opened, accepted>>

\* Bug: a failure forgets that the channel was established.
TransmitFailsForgets ==
    /\ Returns
    /\ \/ net.t \in {"error", "refused"}
       \/ open /\ ~(net.t = "answer" /\ net.e.s = key)
    /\ open' = FALSE
    /\ established' = FALSE
    /\ UNCHANGED <<iv, opened, accepted>>

\* Send returned an error, SW is 0x6982, or the channel is open and the answer
\* is too short, does not decrypt or fails its MAC.
TransmitFails ==
    /\ Returns
    /\ \/ net.t \in {"error", "refused"}
       \/ open /\ ~(net.t = "answer" /\ net.e.s = key)
    /\ open' = FALSE
    /\ UNCHANGED <<established, iv, opened, accepted>>

\* The channel is closed: the answer is returned as it came.
TransmitRaw ==
    /\ Returns
    /\ ~open
    /\ net.t \notin {"error", "refused"}
    /\ UNCHANGED <<open, established, iv, opened, accepted>>

\* The answer's MAC becomes the IV.  The last answer of AutoOpen sets
\* established unless its inner status word is an error: AutoOpen then returns
\* that error and leaves the channel open.
TransmitDecrypts ==
    /\ Returns
    /\ open
    /\ net.t = "answer"
    /\ net.e.s = key
    /\ updateIV(<<"answer", net.e.c>>)
    /\ accepted' = accepted \cup {[req |-> wire, ans |-> net.e]}
    /\ established' = (established \/ (pc = "authenticating" /\ net.sw))
    /\ opened' = (opened \/ (pc = "authenticating" /\ net.sw))
    /\ UNCHANGED open

-----------------------------------------------------------------------------
(* The card (external) *)

\* It answers OPEN SECURE CHANNEL with a fresh salt and IV; a slot that was
\* freed is refused.
CardOpens ==
    /\ net.t = "open"
    /\ \/ /\ cardKey' = net.e.s
          /\ cardIv' = <<>>
          /\ net' = Message("opened", net.e, TRUE)
       \/ /\ pairing = "stale"
          /\ net' = Bare("refused")
          /\ UNCHANGED card
    /\ UNCHANGED <<host, pc, legacy, wire, hist>>

\* It executes a frame chained to its own IV, with any inner status word,
CardExecutes ==
    /\ net.t = "sealed"
    /\ cardKey # 0
    /\ net.e.s = cardKey
    /\ net.e.n = Len(cardIv)
    /\ executed' = executed \cup {net.e}
    /\ cardIv' = cardIv \o << <<"command", net.e.c>>, <<"answer", net.e.c>> >>
    /\ \E sw \in BOOLEAN : net' = Message("answer", net.e, sw)
    /\ UNCHANGED <<host, pc, legacy, wire, cardKey, handshakes, opened, issued,
                   accepted>>

\* and refuses any other, dropping its session.
CardRefuses ==
    /\ net.t = "sealed"
    /\ cardKey = 0 \/ net.e.s # cardKey \/ net.e.n # Len(cardIv)
    /\ cardKey' = 0
    /\ cardIv' = <<>>
    /\ net' = Bare("refused")
    /\ UNCHANGED <<host, pc, legacy, wire, hist>>

\* A command in the clear may end the session.
CardAnswersPlain ==
    /\ net.t \in {"plain", "pair"}
    /\ \/ net' = Message("plainAnswer", net.e, TRUE)
       \/ net' = Bare("refused")
    /\ \/ UNCHANGED card
       \/ cardKey' = 0 /\ cardIv' = <<>>
    /\ UNCHANGED <<host, pc, legacy, wire, hist>>

CardReset ==
    /\ cardKey' = 0
    /\ cardIv' = <<>>
    /\ UNCHANGED <<host, call, hist>>

-----------------------------------------------------------------------------
(* The reader (external) *)

SendFails ==
    /\ net.t \in Requests \cup (Answers \ {"error"})
    /\ net' = Bare("error")
    /\ UNCHANGED <<host, pc, legacy, wire, card, hist>>

AnswerDamaged ==
    /\ net.t \in {"opened", "answer", "plainAnswer"}
    /\ net' = Bare("garbled")
    /\ UNCHANGED <<host, pc, legacy, wire, card, hist>>

-----------------------------------------------------------------------------

Client ==
    \/ \E p \in {"nil", "valid", "stale"} : SetPairing(p)
    \/ Reset
    \/ AutoOpen
    \/ OpenSecureChannel
    \/ \E c \in Commands : SendProtected(c)
    \/ Pair

Library ==
    \/ OpenFails
    \/ processOpenResponse
    \/ MutuallyAuthenticate
    \/ TransmitFails
    \/ TransmitRaw
    \/ TransmitDecrypts

Card == CardOpens \/ CardExecutes \/ CardRefuses \/ CardAnswersPlain

Environment == CardReset \/ SendFails \/ AnswerDamaged

Next == Client \/ Library \/ Card \/ Environment

Spec == Init /\ [][Next]_vars

-----------------------------------------------------------------------------
(* Properties *)

\* Between calls an open channel and the card's session of the same keys have
\* the same IV: every exchange advanced both chains by the same two links.
LockStep ==
    pc = "idle" /\ open /\ cardKey = key => cardIv = iv

\* Only the last command of a session can be in doubt after a failure.
OnlyLastInDoubt ==
    \A e \in issued :
        (\E f \in issued : f.s = e.s /\ f.n > e.n) => [req |-> e, ans |-> e] \in accepted

\* Once an open has succeeded no protected command goes out in the clear until
\* Reset (secure_channel.go:366-371), however later opens and commands fail.
NoPlaintextAfterOpened ==
    opened => net.t # "plain"

\* The sessions of the channel are those of SecureSession.
Promise == INSTANCE SecureSession WITH
    Sessions <- Sessions,
    Numbers  <- Positions,
    Commands <- AllCommands,
    current  <- IF open THEN key ELSE 0,
    accepted <- {r.ans : r \in accepted}

ImplementsSecureSession == Promise!Spec

=============================================================================
