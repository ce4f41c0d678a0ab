-------------------------- MODULE SecureChannelV2 --------------------------
(***************************************************************************)
(* Secure Channel V2 (secure_channel_v2.go): the host object, the card it  *)
(* talks to and the reader between them.                                   *)
(*                                                                         *)
(* AutoOpen runs one ECDHE handshake, authenticated by the identity key of *)
(* the card's certificate; afterwards every command is an AES-CCM frame    *)
(* whose nonce is a counter both sides advance once per round trip.  A     *)
(* session key pair is modelled by the number of the handshake it was      *)
(* derived from (0 when the keys are nil) and a frame by the session, the  *)
(* nonce and the command it was sealed with: decryption succeeds exactly   *)
(* when session and nonce are the receiver's own.                          *)
(*                                                                         *)
(* A call of the library is cut where other parties can act: sealing the   *)
(* command, handing it to the reader, the answer coming back.  The reader  *)
(* and the card (external) may lose, damage or repeat an answer, and the   *)
(* card may lose power or be exchanged at any moment.                      *)
(***************************************************************************)
EXTENDS Naturals

CONSTANTS
    Commands,       \* the commands clients send
    Idents,         \* card identity public keys
    Trusted,        \* those certified by a trusted CA, or whitelisted
    None,           \* no command, no identity
    NonceSpace,     \* values of the nonce counter: 2^104 in the code
    MaxHandshakes   \* bound on the handshakes of a behaviour

ASSUME ConstantsAssumption ==
    /\ Trusted \subseteq Idents
    /\ None \notin Idents \cup Commands
    /\ NonceSpace \in Nat \ {0}
    /\ MaxHandshakes \in Nat

VARIABLES
    \* SecureChannelV2
    open,           \* sc.open
    key,            \* sc.keyH2C and sc.keyC2H: the handshake they come from
    nonceCounter,   \* sc.nonceCounter
    cardIdentPub,   \* sc.cardIdentPub
    \* the call in progress
    pc,             \* "idle", "built", "sent" or "opening"
    wire,           \* the command APDU ProtectedCommand returned
    net,            \* what the reader holds: a command or an answer
    \* the card
    slot,           \* identity of the card in the reader
    cardKey,        \* the card's session keys
    cardNonce,      \* the card's nonce counter
    \* history
    handshakes,     \* handshakes begun so far, each with a fresh ephemeral key
    vetted,         \* what SetCardCertificate said of the current certificate
    overridden,     \* AutoOpen was called although it had rejected the certificate
    peer,           \* who signed the handshake that opened the channel
    established,    \* AutoOpen has succeeded on this channel object
    signed,         \* <<h, i>>: the card with identity i signed handshake h
    issued,         \* entries sealed by ProtectedCommand
    executed,       \* entries the card executed
    accepted        \* [req, ans]: the answer Transmit returned for req

host == <<open, key, nonceCounter, cardIdentPub>>
call == <<pc, wire, net>>
card == <<slot, cardKey, cardNonce>>
hist == <<handshakes, vetted, overridden, peer, established, signed, issued, executed, accepted>>
vars == <<host, call, card, hist>>

-----------------------------------------------------------------------------
(* APDUs *)

Handshakes == 1..MaxHandshakes
Nonces == 0..(NonceSpace - 1)

Entries == [s : 0..MaxHandshakes, n : Nonces, c : Commands \cup {None}]

Requests == {"open", "secured", "plain"}
Answers == {"signature", "answer", "plainAnswer", "garbled", "refused", "error"}

\* e.s is 0 in what is not bound to a session; id is who signed a handshake.
Messages == [t : Requests \cup Answers \cup {"none"}, e : Entries,
             id : Idents \cup {None}]

Entry(s, n, c) == [s |-> s, n |-> n, c |-> c]
Message(t, e, id) == [t |-> t, e |-> e, id |-> id]

NoEntry == Entry(0, 0, None)
NoMessage == Message("none", NoEntry, None)
Bare(t) == Message(t, NoEntry, None)

\* SW 0x9000: everything but a refusal (any other SW) and an error of Send.
SwOK(m) == m.t \in Answers \ {"refused", "error"}

\* The counter, carried over its 13 bytes.
Incremented(n) == IF n + 1 = NonceSpace THEN 0 ELSE n + 1

TypeOK ==
    /\ open \in BOOLEAN
    /\ key \in 0..MaxHandshakes
    /\ nonceCounter \in Nonces
    /\ cardIdentPub \in Idents \cup {None}
    /\ pc \in {"idle", "built", "sent", "opening"}
    /\ wire \in Messages
    /\ net \in Messages
    /\ slot \in Idents
    /\ cardKey \in 0..MaxHandshakes
    /\ cardNonce \in Nonces
    /\ handshakes \in 0..MaxHandshakes
    /\ vetted \in {"no", "ok", "rejected"}
    /\ overridden \in BOOLEAN
    /\ peer \in Idents \cup {None}
    /\ established \in BOOLEAN
    /\ signed \subseteq (0..MaxHandshakes) \X Idents
    /\ issued \subseteq Entries
    /\ executed \subseteq Entries
    /\ accepted \subseteq [req : Entries, ans : Entries]

\* NewSecureChannelV2
Init ==
    /\ open = FALSE
    /\ key = 0
    /\ nonceCounter = 0
    /\ cardIdentPub = None
    /\ pc = "idle"
    /\ wire = NoMessage
    /\ net = NoMessage
    /\ slot \in Idents
    /\ cardKey = 0
    /\ cardNonce = 0
    /\ handshakes = 0
    /\ vetted = "no"
    /\ overridden = FALSE
    /\ peer = None
    /\ established = FALSE
    /\ signed = {}
    /\ issued = {}
    /\ executed = {}
    /\ accepted = {}

-----------------------------------------------------------------------------
(* The host: certificate and reset *)

\* Keys, counter and identity are wiped; only the trust anchors stay.
Reset ==
    /\ pc = "idle"
    /\ open' = FALSE
    /\ key' = 0
    /\ nonceCounter' = 0
    /\ cardIdentPub' = None
    /\ vetted' = "no"
    /\ overridden' = FALSE
    /\ peer' = None
    /\ established' = FALSE
    /\ UNCHANGED <<call, card, handshakes, signed, issued, executed, accepted>>

\* A fresh object replaces the channel (CommandSet.Select on a V2 card): it
\* starts as Reset leaves one.
NewSecureChannelV2 == Reset

\* The identity is stored before the CA and the whitelist are consulted: a
\* rejected certificate leaves its identity behind, in place of the one an
\* earlier certificate had, and an open channel stays open.
SetCardCertificate(id) ==
    /\ pc = "idle"
    /\ cardIdentPub' = id
    /\ vetted' = IF id \in Trusted THEN "ok" ELSE "rejected"
    /\ UNCHANGED <<open, key, nonceCounter, call, card, handshakes, overridden, peer,
                   established, signed, issued, executed, accepted>>

-----------------------------------------------------------------------------
(* The host: AutoOpen *)

\* open is dropped first; the keys of the previous session stay for now.  What
\* SetCardCertificate said is not looked at.
AutoOpen ==
    /\ pc = "idle"
    /\ handshakes < MaxHandshakes
    /\ open' = FALSE
    /\ overridden' = (vetted = "rejected")
    /\ handshakes' = handshakes + 1
    /\ net' = Message("open", Entry(handshakes + 1, 0, None), None)
    /\ pc' = "opening"
    /\ UNCHANGED <<key, nonceCounter, cardIdentPub, wire, card, vetted, peer,
                   established, signed, issued, executed, accepted>>

\* Bug: a lost answer is retried until one comes.
AutoOpenRetries ==
    /\ pc = "opening"
    /\ net.t = "error"
    /\ net' = Message("open", Entry(handshakes, 0, None), None)
    /\ UNCHANGED <<host, pc, wire, card, hist>>

\* Bug: a failed handshake falls back on the keys of the previous session.
AutoOpenFallsBack ==
    /\ pc = "opening"
    /\ net.t \in Answers \ {"signature"}
    /\ open' = (key # 0)
    /\ pc' = "idle"
    /\ net' = NoMessage
    /\ UNCHANGED <<key, nonceCounter, cardIdentPub, wire, card, hist>>

\* Send failed, SW is not 0x9000, or the answer is too short or holds no curve
\* point: AutoOpen returns before it touches the keys.
AutoOpenFails ==
    /\ pc = "opening"
    /\ net.t \in Answers \ {"signature"}
    /\ pc' = "idle"
    /\ net' = NoMessage
    /\ UNCHANGED <<host, wire, card, hist>>

\* Bug: any well-formed signature over the transcript will do.
verifyAnySigner(m) ==
    /\ m.t = "signature"
    /\ cardIdentPub # None
    /\ m.e.s = handshakes

\* verifyCardSignature: the transcript holds this handshake's salt and keys,
\* and the signer must be the identity of the certificate.
verifyCardSignature(m) ==
    /\ m.t = "signature"
    /\ cardIdentPub # None
    /\ m.e.s = handshakes
    /\ m.id = cardIdentPub

processHandshakeResponse ==
    /\ pc = "opening"
    /\ net.t \in {"signature", "garbled"}
    /\ \/ /\ verifyCardSignature(net)
          /\ key' = handshakes
          /\ nonceCounter' = 0
          /\ open' = TRUE
          /\ established' = TRUE
          /\ peer' = net.id
       \/ /\ ~verifyCardSignature(net)
          /\ key' = 0
          /\ UNCHANGED <<nonceCounter, open, established, peer>>
    /\ pc' = "idle"
    /\ net' = NoMessage
    /\ UNCHANGED <<cardIdentPub, wire, card, handshakes, vetted, overridden, signed,
                   issued, executed, accepted>>

-----------------------------------------------------------------------------
(* The host: ProtectedCommand and Transmit *)

\* Closed: the command goes out as it is.  Open: it is sealed under the current
\* nonce, which does not move.  Without keys encryptCCM fails and nothing is built.
ProtectedCommand(c) ==
    /\ pc = "idle"
    /\ \/ /\ ~open
          /\ wire' = Message("plain", Entry(0, 0, c), None)
          /\ UNCHANGED issued
       \/ /\ open
          /\ key # 0
          /\ wire' = Message("secured", Entry(key, nonceCounter, c), None)
          /\ issued' = issued \cup {wire'.e}
    /\ pc' = "built"
    /\ UNCHANGED <<host, net, card, handshakes, vetted, overridden, peer,
                   established, signed,
                   executed, accepted>>

\* Every caller transmits what it protected (CommandSet.sendProtected).
Transmit ==
    /\ pc = "built"
    /\ net' = wire
    /\ pc' = "sent"
    /\ UNCHANGED <<host, wire, card, hist>>

\* Bug: the counter runs past its width.
incrementNoncePastEnd ==
    /\ nonceCounter' = nonceCounter + 1
    /\ open' = (nonceCounter' # 0)

\* Bug: the counter wraps and the session goes on.
incrementNonceWraps ==
    /\ nonceCounter' = Incremented(nonceCounter)
    /\ open' = open

\* 13-byte big-endian increment; wrapping to zero closes the session.
incrementNonce ==
    /\ nonceCounter' = Incremented(nonceCounter)
    /\ open' = (nonceCounter' # 0)

\* Transmit with the reader's answer in hand: every path ends the call.
Returns ==
    /\ pc = "sent"
    /\ net.t \in Answers
    /\ pc' = "idle"
    /\ wire' = NoMessage
    /\ net' = NoMessage
    /\ UNCHANGED <<key, cardIdentPub, card, handshakes, vetted, overridden, peer,
                   established,
                   signed, issued, executed>>

\* Bug: only a status word closes the channel, an error of Send does not.
TransmitFailsOpen ==
    /\ ~SwOK(net)
    /\ open' = (open /\ net.t = "error")
    /\ UNCHANGED <<nonceCounter, accepted>>
    /\ Returns

\* Send returned an error, or a status word other than 0x9000: closed.
TransmitFails ==
    /\ ~SwOK(net)
    /\ open' = FALSE
    /\ UNCHANGED <<nonceCounter, accepted>>
    /\ Returns

\* The channel is closed: the answer is returned as it came.
TransmitRaw ==
    /\ SwOK(net)
    /\ ~open
    /\ UNCHANGED <<open, nonceCounter, accepted>>
    /\ Returns

\* Bug: the tag is checked under the nonce the answer carries.
decryptAnyNonce(m) ==
    /\ m.t = "answer"
    /\ m.e.s = key

\* decryptCCM succeeds: sealed by the card under these keys and this nonce.
decryptCCM(m) ==
    /\ m.t = "answer"
    /\ m.e.s = key
    /\ m.e.n = nonceCounter

TransmitDecrypts ==
    /\ SwOK(net)
    /\ open
    /\ decryptCCM(net)
    /\ incrementNonce
    /\ accepted' = accepted \cup {[req |-> wire.e, ans |-> net.e]}
    /\ Returns

TransmitRejects ==
    /\ SwOK(net)
    /\ open
    /\ ~decryptCCM(net)
    /\ open' = FALSE
    /\ UNCHANGED <<nonceCounter, accepted>>
    /\ Returns

-----------------------------------------------------------------------------
(* The card (external) *)

\* It derives the session keys, signs the transcript and starts at nonce zero,
CardOpens ==
    /\ net.t = "open"
    /\ cardKey' = net.e.s
    /\ cardNonce' = 0
    /\ signed' = signed \cup {<<net.e.s, slot>>}
    /\ net' = Message("signature", net.e, slot)
    /\ UNCHANGED <<host, pc, wire, slot, handshakes, vetted, overridden, peer,
                   established,
                   issued, executed, accepted>>

\* executes a frame sealed with its session and nonce, and answers under both,
CardExecutes ==
    /\ net.t = "secured"
    /\ cardKey # 0
    /\ net.e.s = cardKey
    /\ net.e.n = cardNonce
    /\ executed' = executed \cup {net.e}
    /\ cardNonce' = Incremented(cardNonce)
    /\ cardKey' = IF cardNonce' = 0 THEN 0 ELSE cardKey
    /\ net' = Message("answer", net.e, None)
    /\ UNCHANGED <<host, pc, wire, slot, handshakes, vetted, overridden, peer,
                   established,
                   signed, issued, accepted>>

\* refuses any other frame and drops its session,
CardRefuses ==
    /\ net.t = "secured"
    /\ cardKey = 0 \/ net.e.s # cardKey \/ net.e.n # cardNonce
    /\ cardKey' = 0
    /\ net' = Bare("refused")
    /\ UNCHANGED <<host, pc, wire, slot, cardNonce, hist>>

\* and answers or refuses a command that is not sealed.
CardAnswersPlain ==
    /\ net.t = "plain"
    /\ \/ net' = Message("plainAnswer", net.e, None)
       \/ net' = Bare("refused")
    /\ UNCHANGED <<host, pc, wire, card, hist>>

\* It loses power, or another card takes its place; either way its session ends.
CardReset(id) ==
    /\ slot' = id
    /\ cardKey' = 0
    /\ cardNonce' = 0
    /\ UNCHANGED <<host, call, hist>>

-----------------------------------------------------------------------------
(* The reader (external): ch.Send *)

\* Send returns an error: the command, or only its answer, was lost.
SendFails ==
    /\ net.t \in Requests \cup (Answers \ {"error"})
    /\ net' = Bare("error")
    /\ UNCHANGED <<host, pc, wire, card, hist>>

\* The answer is damaged: SW 0x9000 with data that is no frame and no point.
AnswerDamaged ==
    /\ net.t \in {"signature", "answer", "plainAnswer"}
    /\ net' = Bare("garbled")
    /\ UNCHANGED <<host, pc, wire, card, hist>>

\* An answer of an earlier exchange comes back instead.
AnswerRepeated ==
    /\ net.t \in Requests \cup Answers
    /\ \/ \E e \in executed : net' = Message("answer", e, None)
       \/ \E g \in signed : net' = Message("signature", Entry(g[1], 0, None), g[2])
    /\ UNCHANGED <<host, pc, wire, card, hist>>

-----------------------------------------------------------------------------

Client ==
    \/ NewSecureChannelV2
    \/ \E id \in Idents : SetCardCertificate(id)
    \/ Reset
    \/ AutoOpen
    \/ \E c \in Commands : ProtectedCommand(c)

\* The rest of a call the client has made.
Library ==
    \/ AutoOpenFails
    \/ processHandshakeResponse
    \/ Transmit
    \/ TransmitFails
    \/ TransmitRaw
    \/ TransmitDecrypts
    \/ TransmitRejects

Card == CardOpens \/ CardExecutes \/ CardRefuses \/ CardAnswersPlain

Environment ==
    \/ \E id \in Idents : CardReset(id)
    \/ SendFails
    \/ AnswerDamaged
    \/ AnswerRepeated

Next == Client \/ Library \/ Card \/ Environment

Spec == Init /\ [][Next]_vars

\* The library runs on, and the card answers what reaches it (or the reader
\* gives up): ch.Send returns, as io.NormalChannel's blocking transmit does.
Fairness == WF_vars(Library) /\ WF_vars(Card \/ SendFails)

FairSpec == Spec /\ Fairness

-----------------------------------------------------------------------------
(* Properties *)

\* A nonce never seals two different commands under one session key: the counter
\* moves at the end of a successful Transmit only, so every failed one must close
\* the session (secure_channel_v2.go:268-294).
NonceNeverReused ==
    \A a, b \in issued : a.s = b.s /\ a.n = b.n => a = b

\* Whatever the reader repeats or loses, an answer Transmit returns as
\* decrypted is the card's answer to the very command it was called with.
AnswersOwnCommand ==
    \A r \in accepted : r.req = r.ans

\* After any failure at most the last command of a session is in doubt: all
\* earlier ones were executed and answered.
OnlyLastInDoubt ==
    \A e \in issued :
        (\E f \in issued : f.s = e.s /\ f.n > e.n) => [req |-> e, ans |-> e] \in accepted

\* Between calls host and card agree on the nonce of the session they share.
LockStep ==
    pc = "idle" /\ open /\ cardKey = key => cardNonce = nonceCounter

\* An open channel was authenticated: the card that signed the handshake its keys
\* come from has a trusted identity, unless AutoOpen was called after
\* SetCardCertificate had returned an error for the certificate then in place
\* (secure_channel_v2.go:76, 165).  Certificates set before, after a failed open
\* or on the open channel make no difference.
AuthenticatedPeer ==
    open => /\ <<key, peer>> \in signed
            /\ peer \in Trusted \/ overridden

\* A channel that closed opens again only with keys nothing was sealed under.
ReopensFresh ==
    [][~open /\ open' => \A e \in issued : e.s # key']_vars

-----------------------------------------------------------------------------
(* The inductive invariant *)

Calling == pc \in {"built", "sent"}

\* Handshakes are numbered by the counter; nothing refers to a later one.
NumberedInv ==
    /\ key <= handshakes
    /\ cardKey <= handshakes
    /\ \A e \in issued : e.s \in 1..handshakes
    /\ \A g \in signed : g[1] <= handshakes
    /\ pc = "opening" => handshakes # 0 /\ \A e \in issued : e.s < handshakes

\* What the reader holds fits the call in progress.
NetInv ==
    /\ pc \in {"idle", "built"} => net = NoMessage
    /\ pc = "opening" => net.t \notin {"secured", "plain"}
    /\ net.t = "open" => pc = "opening" /\ net.e = Entry(handshakes, 0, None)
    /\ net.t = "secured" => net = wire
    /\ net.t = "answer" => net.e \in executed
    /\ net.t = "signature" => <<net.e.s, net.id>> \in signed

\* An open channel has keys, and the command it is calling is sealed under its
\* current nonce.
OpenInv ==
    /\ open => key # 0
    /\ pc = "opening" => ~open
    /\ Calling => wire.t \in {"plain", "secured"}
    /\ Calling /\ wire.t = "secured" => wire.e \in issued
    /\ Calling /\ open => /\ wire.t = "secured"
                           /\ wire.e.s = key
                           /\ wire.e.n = nonceCounter

\* In the open session everything issued is below the counter and answered,
\* except the command of the call in progress.
CounterInv ==
    open => \A e \in issued :
        e.s = key => \/ e.n < nonceCounter /\ [req |-> e, ans |-> e] \in accepted
                     \/ Calling /\ e = wire.e

\* The card has executed only what was issued, up to its own counter; when it
\* shares the open session its counter is the host's, or one ahead while the
\* answer is on its way.
CardInv ==
    /\ executed \subseteq issued
    /\ \A e \in executed : e.s = cardKey => e.n < cardNonce
    /\ pc = "opening" /\ cardKey = handshakes => cardNonce = 0
    /\ open /\ cardKey = key =>
          \/ cardNonce = nonceCounter /\ (Calling => wire.e \notin executed)
          \/ pc = "sent" /\ cardNonce = nonceCounter + 1

\* What was accepted was executed; in the open session it is below the counter.
AcceptedInv ==
    /\ \A r \in accepted : r.ans \in executed
    /\ open => \A r \in accepted : r.ans.s = key => r.ans.n < nonceCounter

\* What SetCardCertificate said is about the identity it stored, and AutoOpen
\* is called with it.
VettedInv ==
    /\ (cardIdentPub = None) = (vetted = "no")
    /\ vetted = "ok" => cardIdentPub \in Trusted
    /\ pc = "opening" => overridden = (vetted = "rejected")

IInv ==
    /\ TypeOK
    /\ NumberedInv
    /\ NetInv
    /\ OpenInv
    /\ CounterInv
    /\ CardInv
    /\ AcceptedInv
    /\ VettedInv
    /\ NonceNeverReused
    /\ AnswersOwnCommand
    /\ OnlyLastInDoubt
    /\ AuthenticatedPeer

-----------------------------------------------------------------------------

\* Every call of the library returns.
CallReturns == (pc # "idle") ~> (pc = "idle")

\* Comments of ProtectedCommand (secure_channel_v2.go:242) and of the interface
\* (secure_channel.go:57-59): once established, a closed channel yields an error
\* and never an unprotected command.
NoPlaintextAfterEstablished ==
    established => wire.t # "plain"

\* The sessions of the channel are those of SecureSession.
Promise == INSTANCE SecureSession WITH
    Sessions <- Handshakes,
    Numbers  <- Nonces,
    Commands <- Commands,
    current  <- IF open THEN key ELSE 0,
    accepted <- {r.ans : r \in accepted}

ImplementsSecureSession == Promise!Spec

=============================================================================
