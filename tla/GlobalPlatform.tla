--------------------------- MODULE GlobalPlatform ---------------------------
(***************************************************************************)
(* The GlobalPlatform side of keycard-go (globalplatform/): an SCP02       *)
(* session with the issuer security domain, the commands sent through it   *)
(* and the loading of a package block by block.                            *)
(*                                                                         *)
(* Every command carries a MAC chained to the MAC of the one before it.    *)
(* The chain is modelled as the sequence of commands it covers: the card   *)
(* accepts a command exactly when its own chain is the one the command was *)
(* wrapped on.  The host's chain moves when a command is wrapped, whether  *)
(* or not it then reaches the card, and the host never closes a session.   *)
(***************************************************************************)
EXTENDS Naturals, Sequences

CONSTANTS
    DataLength,    \* bytes of the load file
    BlockSize,     \* 247 in the code
    IndexSpace,    \* values of the uint8 block index: 256
    MaxSessions,   \* bound on INITIALIZE UPDATEs
    MaxChain       \* bound on the commands wrapped in one session

ASSUME ConstantsAssumption ==
    /\ DataLength \in Nat \ {0}
    /\ BlockSize \in Nat \ {0}
    /\ IndexSpace \in Nat \ {0}
    /\ MaxSessions \in Nat
    /\ MaxChain \in Nat \ {0}

VARIABLES
    \* CommandSet, SecureChannel and SCP02Wrapper
    sc,             \* cs.sc and cs.session: number of the session, 0 when nil
    icv,            \* w.icv
    \* LoadCommandStream
    unread,         \* load.data.Len()
    currentIndex,   \* load.currentIndex
    p1,             \* load.p1
    \* the call in progress
    pc,
    net,            \* what the reader holds
    last,           \* the call that returned last and whether without error
    \* the card (external)
    cardSession,    \* its SCP02 session
    cardChain,      \* commands it has verified in that session
    authenticated,  \* EXTERNAL AUTHENTICATE was among them
    loaded,         \* bytes of the package being loaded, by block
    present,        \* the package is installed
    \* history
    sessions        \* INITIALIZE UPDATEs sent

host == <<sc, icv>>
stream == <<unread, currentIndex, p1>>
card == <<cardSession, cardChain, authenticated, loaded, present>>
vars == <<host, stream, pc, net, last, card, sessions>>

-----------------------------------------------------------------------------

Smaller(a, b) == IF a < b THEN a ELSE b

\* A command, with the block it carries if it is a LOAD.
Plain(name) == [name |-> name, p1 |-> "more", p2 |-> 0, size |-> 0]
Load(x, k, n) == [name |-> "load", p1 |-> x, p2 |-> k, size |-> n]

Single == {"delete", "install", "status"}
Commands ==
    [name : Single \cup {"externalAuthenticate", "installForLoad"},
     p1 : {"more"}, p2 : {0}, size : {0}]
    \cup [name : {"load"}, p1 : {"more", "last"}, p2 : 0..(IndexSpace - 1), size : 1..BlockSize]

\* "initUpdate" carries its session; a wrapped command the session and the
\* chain it was wrapped on.
Request(t, s, chain, c) == [t |-> t, s |-> s, chain |-> chain, c |-> c]
Bare(t) == Request(t, 0, <<>>, Plain("status"))
NoMessage == Bare("none")
Answers == {"ok", "refused", "badCryptogram", "error"}

TypeOK ==
    /\ sc \in 0..MaxSessions
    /\ icv \in Seq(Commands) /\ Len(icv) <= MaxChain
    /\ unread \in 0..DataLength
    /\ currentIndex \in 0..(IndexSpace - 1)
    /\ p1 \in {"more", "last"}
    /\ pc \in {"idle", "initUpdate", "extAuth", "command", "preLoad", "next", "load"}
    /\ net.t \in Answers \cup {"none", "initUpdate", "wrapped"}
    /\ net.s \in 0..MaxSessions
    /\ net.chain \in Seq(Commands)
    /\ net.c \in Commands
    /\ last \in {"none", "open", "command", "load"} \X BOOLEAN
    /\ cardSession \in 0..MaxSessions
    /\ cardChain \in Seq(Commands)
    /\ authenticated \in BOOLEAN
    /\ loaded \in Seq(Commands)
    /\ present \in BOOLEAN
    /\ sessions \in 0..MaxSessions

Init ==
    /\ sc = 0
    /\ icv = <<>>
    /\ unread = 0
    /\ currentIndex = 0
    /\ p1 = "more"
    /\ pc = "idle"
    /\ net = NoMessage
    /\ last = <<"none", TRUE>>
    /\ cardSession = 0
    /\ cardChain = <<>>
    /\ authenticated = FALSE
    /\ loaded = <<>>
    /\ present = FALSE
    /\ sessions = 0

Return(call, ok) ==
    /\ pc' = "idle"
    /\ net' = NoMessage
    /\ last' = <<call, ok>>

-----------------------------------------------------------------------------
(* SecureChannel.Send *)

\* Bug: every command is wrapped on the ICV of the first.
WrapKeepsIcv(c) == icv' = IF icv = <<>> THEN <<c>> ELSE icv

\* Wrap: the MAC over the command becomes the ICV of the next one.
Wrap(c) == icv' = Append(icv, c)

Send(c) ==
    /\ Wrap(c)
    /\ net' = Request("wrapped", sc, icv, c)
    /\ UNCHANGED sc

-----------------------------------------------------------------------------
(* OpenSecureChannel *)

OpenSecureChannel ==
    /\ pc = "idle"
    /\ sessions < MaxSessions
    /\ sessions' = sessions + 1
    /\ net' = Request("initUpdate", sessions + 1, <<>>, Plain("status"))
    /\ pc' = "initUpdate"
    /\ last' = <<"none", TRUE>>
    /\ UNCHANGED <<host, stream, card>>

\* NewSession, tried with the Keycard and the GlobalPlatform keys: the card's
\* cryptogram over both challenges verifies.
NewSession(m) == m.t = "ok"

\* Send, the status word, the length, or both key sets failed: the channel of
\* an earlier open stays in place.
InitializeUpdateFails ==
    /\ pc = "initUpdate"
    /\ net.t \in Answers
    /\ ~NewSession(net)
    /\ Return("open", FALSE)
    /\ UNCHANGED <<host, stream, card, sessions>>

\* The cryptogram matches one of the two key sets: the channel is installed,
\* and EXTERNAL AUTHENTICATE is its first command.
InitializeUpdateSucceeds ==
    /\ pc = "initUpdate"
    /\ NewSession(net)
    /\ sc' = sessions
    /\ icv' = <<Plain("externalAuthenticate")>>
    /\ net' = Request("wrapped", sessions, <<>>, Plain("externalAuthenticate"))
    /\ pc' = "extAuth"
    /\ UNCHANGED <<stream, last, card, sessions>>

\* Bug: the status word is not checked.
ExternalAuthenticatedUnchecked ==
    /\ pc = "extAuth"
    /\ net.t \in Answers
    /\ Return("open", net.t # "error")
    /\ UNCHANGED <<host, stream, card, sessions>>

\* Whatever the answer, the channel stays installed.
ExternalAuthenticated ==
    /\ pc = "extAuth"
    /\ net.t \in Answers
    /\ Return("open", net.t = "ok")
    /\ UNCHANGED <<host, stream, card, sessions>>

-----------------------------------------------------------------------------
(* Delete, InstallForInstall and GetStatus *)

\* These do not check for a nil channel: they are called with one installed.
\* Among the accepted answers DELETE has SW 0x6A88, nothing to delete.
CommandSent(name) ==
    /\ pc = "idle"
    /\ sc # 0
    /\ Len(icv) < MaxChain
    /\ Send(Plain(name))
    /\ pc' = "command"
    /\ last' = <<"none", TRUE>>
    /\ UNCHANGED <<stream, card, sessions>>

CommandAnswered ==
    /\ pc = "command"
    /\ net.t \in Answers
    /\ Return("command", net.t = "ok")
    /\ UNCHANGED <<host, stream, card, sessions>>

-----------------------------------------------------------------------------
(* LoadPackage *)

BlocksCount == (DataLength + BlockSize - 1) \div BlockSize

\* ErrSecureChannelNotOpen without a channel, else INSTALL [for load].
LoadPackage ==
    /\ pc = "idle"
    /\ IF sc = 0
       THEN Return("load", FALSE) /\ UNCHANGED host
       ELSE /\ Len(icv) + 1 + BlocksCount <= MaxChain
            /\ Send(Plain("installForLoad"))
            /\ pc' = "preLoad"
            /\ last' = <<"none", TRUE>>
    /\ UNCHANGED <<stream, card, sessions>>

\* The stream is made once INSTALL [for load] has succeeded; a file that is no
\* ZIP archive is noticed only then.
NewLoadCommandStream ==
    /\ unread' = DataLength
    /\ currentIndex' = 0
    /\ p1' = "more"

PreLoadAnswered ==
    /\ pc = "preLoad"
    /\ net.t \in Answers
    /\ \/ /\ net.t = "ok"
          /\ NewLoadCommandStream
          /\ pc' = "next"
          /\ net' = NoMessage
          /\ UNCHANGED last
       \/ Return("load", FALSE) /\ UNCHANGED stream
    /\ UNCHANGED <<host, card, sessions>>

\* Bug: the last block is counted as a full one.
NextBlockFull ==
    /\ unread' = unread - BlockSize
    /\ currentIndex' = (currentIndex + 1) % IndexSpace
    /\ p1' = IF unread' <= 0 THEN "last" ELSE p1

\* Bug: the last block is announced when it is the next one.
NextAnnouncesEarly ==
    /\ unread' = unread - Smaller(BlockSize, unread)
    /\ currentIndex' = (currentIndex + 1) % IndexSpace
    /\ p1' = IF unread' <= BlockSize THEN "last" ELSE p1

\* load.Next with data left: one block, the last when it empties the data.
NextBlock ==
    /\ unread' = unread - Smaller(BlockSize, unread)
    /\ currentIndex' = (currentIndex + 1) % IndexSpace
    /\ p1' = IF unread' = 0 THEN "last" ELSE p1

\* load.Index: the uint8 before currentIndex.
Index(n) == (n + IndexSpace - 1) % IndexSpace

LoadSent ==
    /\ pc = "next"
    /\ unread # 0
    /\ NextBlock
    /\ Send(Load(p1', Index(currentIndex'), unread - unread'))
    /\ pc' = "load"
    /\ UNCHANGED <<last, card, sessions>>

\* Bug: a block the reader failed to send is sent again, without end.
LoadAnsweredRetries ==
    /\ pc = "load"
    /\ net.t \in Answers
    /\ CASE net.t = "ok" -> pc' = "next" /\ net' = NoMessage /\ UNCHANGED last
         [] net.t = "error" ->
                /\ net' = Request("wrapped", sc, SubSeq(icv, 1, Len(icv) - 1), icv[Len(icv)])
                /\ UNCHANGED <<pc, last>>
         [] OTHER -> Return("load", FALSE)
    /\ UNCHANGED <<host, stream, card, sessions>>

\* Bug: a block whose answer was lost counts as loaded.
LoadAnsweredAnyhow ==
    /\ pc = "load"
    /\ net.t \in Answers
    /\ IF net.t # "refused"
       THEN pc' = "next" /\ net' = NoMessage /\ UNCHANGED last
       ELSE Return("load", FALSE)
    /\ UNCHANGED <<host, stream, card, sessions>>

LoadAnswered ==
    /\ pc = "load"
    /\ net.t \in Answers
    /\ IF net.t = "ok"
       THEN pc' = "next" /\ net' = NoMessage /\ UNCHANGED last
       ELSE Return("load", FALSE)
    /\ UNCHANGED <<host, stream, card, sessions>>

LoadDone ==
    /\ pc = "next"
    /\ unread = 0
    /\ Return("load", TRUE)
    /\ UNCHANGED <<host, stream, card, sessions>>

-----------------------------------------------------------------------------
(* The card (external) *)

\* INITIALIZE UPDATE starts a session; the keys may be ones the host lacks.
CardInitializes ==
    /\ net.t = "initUpdate"
    /\ cardSession' = net.s
    /\ cardChain' = <<>>
    /\ authenticated' = FALSE
    /\ loaded' = <<>>
    /\ net' \in {Bare("ok"), Bare("badCryptogram")}
    /\ UNCHANGED <<host, stream, pc, last, present, sessions>>

\* The MAC verifies, and the session is authenticated or this command does it.
Verified ==
    /\ net.t = "wrapped"
    /\ net.s = cardSession
    /\ net.chain = cardChain
    /\ authenticated \/ net.c.name = "externalAuthenticate"

\* A LOAD block is taken in order, after INSTALL [for load]: the card counts the
\* blocks, and an index that starts again at zero is out of order.
InOrder ==
    net.c.name = "load" => loaded # <<>> /\ net.c.p2 = Len(loaded) - 1

CardExecutes ==
    /\ Verified /\ InOrder
    /\ cardChain' = Append(cardChain, net.c)
    /\ authenticated' = TRUE
    /\ loaded' = CASE net.c.name = "installForLoad" -> <<net.c>>
                   [] net.c.name = "load" -> Append(loaded, net.c)
                   [] OTHER -> <<>>
    /\ present' = (present \/ net.c.p1 = "last")
    /\ net' = Bare("ok")
    /\ UNCHANGED <<host, stream, pc, last, cardSession, sessions>>

\* A bad MAC ends the session; a command out of order, or one the card cannot
\* carry out, is refused inside it.
CardRefuses ==
    /\ net.t = "wrapped"
    /\ \/ ~Verified /\ cardSession' = 0 /\ cardChain' = <<>> /\ authenticated' = FALSE
       \/ /\ Verified
          /\ cardChain' = Append(cardChain, net.c)
          /\ UNCHANGED <<cardSession, authenticated>>
    /\ loaded' = <<>>
    /\ net' = Bare("refused")
    /\ UNCHANGED <<host, stream, pc, last, present, sessions>>

\* Power is lost, or another application is selected.
CardReset ==
    /\ cardSession' = 0
    /\ cardChain' = <<>>
    /\ authenticated' = FALSE
    /\ loaded' = <<>>
    /\ UNCHANGED <<host, stream, pc, net, last, present, sessions>>

\* The reader loses the command or its answer.
SendFails ==
    /\ net.t \in {"initUpdate", "wrapped", "ok", "refused", "badCryptogram"}
    /\ net' = Bare("error")
    /\ UNCHANGED <<host, stream, pc, last, card, sessions>>

-----------------------------------------------------------------------------

Client ==
    \/ OpenSecureChannel
    \/ \E name \in Single : CommandSent(name)
    \/ LoadPackage

Library ==
    \/ InitializeUpdateFails
    \/ InitializeUpdateSucceeds
    \/ ExternalAuthenticated
    \/ CommandAnswered
    \/ PreLoadAnswered
    \/ LoadSent
    \/ LoadAnswered
    \/ LoadDone

Card == CardInitializes \/ CardExecutes \/ CardRefuses

Next == Client \/ Library \/ Card \/ CardReset \/ SendFails

Spec == Init /\ [][Next]_vars

\* The loop of LoadPackage runs on, and Send returns.
FairSpec == Spec /\ WF_vars(Library) /\ WF_vars(Card \/ SendFails)

-----------------------------------------------------------------------------
(* Properties *)

Size(blocks) ==
    LET sum[k \in 0..Len(blocks)] == IF k = 0 THEN 0 ELSE sum[k - 1] + blocks[k].size
    IN  sum[Len(blocks)]

\* LoadPackage returns nil only if the card took every byte of the file, block
\* after block, in this session, and the last block was announced as such.
LoadedCompletely ==
    last = <<"load", TRUE>> /\ cardSession = sc /\ loaded # <<>> =>
        /\ present
        /\ Size(loaded) = DataLength
        /\ \A k \in 2..Len(loaded) : loaded[k].p1 = IF k = Len(loaded) THEN "last" ELSE "more"

\* The card never installs a part of the file.
NeverPartlyPresent ==
    [][present' /\ ~present => Size(loaded') = DataLength]_vars

\* What the card verified in the host's session is a prefix of what the host
\* wrapped: after a lost command the two never meet again in that session.
VerifiedIsPrefix ==
    cardSession = sc /\ sc # 0 /\ pc # "initUpdate" =>
        /\ Len(cardChain) <= Len(icv)
        /\ SubSeq(icv, 1, Len(cardChain)) = cardChain

\* OpenSecureChannel returns nil only with the card authenticated and both
\* chains equal, whatever became of earlier sessions.
OpenedInStep ==
    last = <<"open", TRUE>> /\ cardSession = sc => authenticated /\ cardChain = icv

\* LoadPackage, like every call, returns.
CallReturns == (pc # "idle") ~> (pc = "idle")

=============================================================================
