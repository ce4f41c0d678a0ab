----------------------- MODULE GlobalPlatform_proofs -----------------------
(***************************************************************************)
(* Theorems about GlobalPlatform, for every load file, block size and      *)
(* range of the block index, and for every bound on sessions and commands. *)
(***************************************************************************)
EXTENDS GlobalPlatform, DataInduction, SequenceTheorems

USE ConstantsAssumption

-----------------------------------------------------------------------------
(* The inductive invariant *)

\* The calls that wait for the answer to a wrapped command.
Waiting == {"extAuth", "command", "preLoad", "load"}

\* What can be in the reader at each point of a call, and which calls need a
\* channel.
CallInv ==
    /\ pc # "idle" => last = <<"none", TRUE>>
    /\ pc \in {"idle", "next"} => net.t = "none"
    /\ pc = "initUpdate" => net.t \in Answers \cup {"initUpdate"}
    /\ pc \in Waiting => net.t \in Answers \cup {"wrapped"}
    /\ pc \in Waiting \cup {"next"} => sc # 0
    /\ last \in {<<"open", TRUE>>, <<"load", TRUE>>} => sc # 0

\* Sessions are numbered in the order of their INITIALIZE UPDATE; the one being
\* opened is not the channel's yet and the card has verified nothing in it.
SessionInv ==
    /\ sc <= sessions
    /\ cardSession <= sessions
    /\ pc = "initUpdate" =>
          /\ sc < sessions
          /\ net.t = "initUpdate" => net.s = sessions
          /\ cardSession = sessions => cardChain = <<>>

\* c: what the card has verified, s: what the host has wrapped.
IsPrefixOf(c, s) == Len(c) <= Len(s) /\ SubSeq(s, 1, Len(c)) = c

\* The command in the reader is the last one wrapped, on all that were wrapped
\* before; a card that answered without error has verified them all.
ChainInv ==
    /\ net.t = "wrapped" => net.s = sc /\ icv = Append(net.chain, net.c)
    /\ cardSession = sc /\ sc # 0 => IsPrefixOf(cardChain, icv)
    /\ pc \in Waiting /\ net.t = "ok" /\ cardSession = sc => authenticated /\ cardChain = icv
    /\ OpenedInStep

\* The commands wrapped leave room for the blocks to come.
RoomInv ==
    /\ pc = "preLoad" =>
          \E k \in Nat : Len(icv) + k <= MaxChain /\ DataLength <= k * BlockSize
    /\ pc \in {"next", "load"} =>
          \E k \in Nat : Len(icv) + k <= MaxChain /\ unread <= k * BlockSize

\* A card with these blocks, and that has or has not installed the package,
\* holds the first n bytes of the file and knows whether that is all.
Holds(blocks, installed, n) ==
    /\ blocks # <<>>
    /\ Size(blocks) = n
    /\ \A k \in 2..Len(blocks) :
          blocks[k].p1 = IF k = Len(blocks) /\ n = DataLength THEN "last" ELSE "more"
    /\ n = DataLength => installed

\* What each call has in the reader, and what a card still in the session of
\* the channel holds of the file when LoadPackage is where it is.
LoadInv ==
    /\ net.t = "wrapped" /\ pc # "load" => net.c.p1 = "more"
    /\ net.t = "wrapped" /\ pc = "preLoad" => net.c = Plain("installForLoad")
    /\ pc \in {"next", "load"} => p1 = IF unread = 0 THEN "last" ELSE "more"
    /\ pc = "preLoad" /\ net.t = "ok" /\ cardSession = sc => loaded = <<Plain("installForLoad")>>
    /\ pc = "next" /\ cardSession = sc => Holds(loaded, present, DataLength - unread)
    /\ pc = "load" /\ net.t = "ok" /\ cardSession = sc => Holds(loaded, present, DataLength - unread)
    /\ pc = "load" /\ net.t = "wrapped" =>
          /\ net.c.name = "load"
          /\ net.c.p1 = p1
          /\ net.c.size \in 1..(DataLength - unread)
          /\ cardSession = sc => Holds(loaded, present, DataLength - unread - net.c.size)
    /\ last = <<"load", TRUE>> /\ cardSession = sc => Holds(loaded, present, DataLength)

IInv ==
    /\ TypeOK
    /\ CallInv
    /\ SessionInv
    /\ ChainInv
    /\ RoomInv
    /\ LoadInv

-----------------------------------------------------------------------------
(* Commands, chains and the bytes of a package *)

LEMMA CommandType ==
    ASSUME NEW c \in Commands
    PROVE  c.size \in Nat /\ c.p1 \in {"more", "last"}
BY DEF Commands

LEMMA PlainType ==
    ASSUME NEW name \in Single \cup {"externalAuthenticate", "installForLoad"}
    PROVE  /\ Plain(name) \in Commands
           /\ Plain(name).name = name /\ Plain(name).p1 = "more" /\ Plain(name).size = 0
BY DEF Plain, Commands

LEMMA LoadType ==
    ASSUME NEW x \in {"more", "last"}, NEW k \in 0..(IndexSpace - 1), NEW n \in 1..BlockSize
    PROVE  /\ Load(x, k, n) \in Commands
           /\ Load(x, k, n).name = "load" /\ Load(x, k, n).p1 = x /\ Load(x, k, n).size = n
BY DEF Load, Commands

LEMMA EmptyChain == <<>> \in Seq(Commands) /\ Len(<<>>) = 0
BY EmptySeq

\* A chain is a prefix of itself, and of what is wrapped after it.
LEMMA PrefixOfSelf ==
    ASSUME NEW s \in Seq(Commands)
    PROVE  IsPrefixOf(s, s)
BY LenProperties, SubSeqFull DEF IsPrefixOf

LEMMA EmptyIsPrefix ==
    ASSUME NEW s \in Seq(Commands)
    PROVE  IsPrefixOf(<<>>, s)
<1>1. Len(s) \in Nat /\ Len(<<>>) = 0
  BY LenProperties, EmptyChain
<1>2. SubSeq(s, 1, 0) = <<>>
  BY SubSeqEmpty
<1> QED
  BY <1>1, <1>2 DEF IsPrefixOf

LEMMA PrefixOfAppend ==
    ASSUME NEW c \in Seq(Commands), NEW s \in Seq(Commands), NEW e \in Commands,
           IsPrefixOf(c, s)
    PROVE  IsPrefixOf(c, Append(s, e))
<1>1. /\ Len(c) \in Nat /\ Len(s) \in Nat /\ Len(c) <= Len(s) /\ SubSeq(s, 1, Len(c)) = c
      /\ Len(Append(s, e)) = Len(s) + 1
  BY LenProperties, AppendProperties DEF IsPrefixOf
<1>2. Append(s, e) = s \o <<e>> /\ <<e>> \in Seq(Commands)
  BY AppendIsConcat
<1>3. SubSeq(s \o <<e>>, 1, Len(c)) = SubSeq(s, 1, Len(c))
  <2>1. CASE Len(c) = 0
    BY <1>1, <2>1, SubSeqEmpty
  <2>2. CASE Len(c) # 0
    <3>1. 1 \in 1..Len(s) /\ Len(c) \in 1..Len(s)
      BY <1>1, <2>2
    <3> QED
      BY <1>2, <3>1, SubSeqOfConcat1
  <2> QED
    BY <2>1, <2>2
<1> QED
  BY <1>1, <1>2, <1>3 DEF IsPrefixOf

\* The recursion of Size has a solution, whose last value it is.
LEMMA SizeIsSum ==
    ASSUME NEW b \in Seq(Commands)
    PROVE  \E f \in [0..Len(b) -> Nat] :
              /\ f[0] = 0
              /\ \A k \in 1..Len(b) : f[k] = f[k - 1] + b[k].size
              /\ Size(b) = f[Len(b)]
<1> DEFINE n == Len(b)
           step == [k \in 1..n |-> [v \in Nat |-> v + b[k].size]]
           Sums(f) == f = [k \in 0..n |-> IF k = 0 THEN 0 ELSE f[k - 1] + b[k].size]
<1>1. n \in Nat /\ \A k \in 1..n : b[k].size \in Nat
  BY LenProperties, ElementOfSeq, CommandType
<1>2. step \in Steps(n, Nat)
  BY <1>1 DEF Steps
<1>3. PICK f \in [0..n -> Nat] : f[0] = 0 /\ \A k \in 1..n : f[k] = step[k][f[k - 1]]
  <2> DEFINE zero == 0
  <2>1. zero \in Nat
    OBVIOUS
  <2> HIDE DEF step, n, zero
  <2>2. Iterations(n, Nat, zero, step) # {}
    BY <1>1, <1>2, <2>1, RecursiveFunction
  <2> QED
    BY <2>2 DEF Iterations, zero
<1>4. \A k \in 1..n : f[k] = f[k - 1] + b[k].size
  <2> SUFFICES ASSUME NEW k \in 1..n PROVE f[k] = f[k - 1] + b[k].size
    OBVIOUS
  <2>1. k - 1 \in 0..n
    BY <1>1
  <2>2. f[k - 1] \in Nat
    BY <2>1
  <2> QED
    BY <1>1, <1>3, <2>2
<1>5. Sums(f)
  <2> HIDE DEF step
  <2>1. \A k \in 0..n : f[k] = IF k = 0 THEN 0 ELSE f[k - 1] + b[k].size
    BY <1>1, <1>3, <1>4
  <2> QED
    BY <2>1
<1>6. PICK g : Sums(g) /\ Size(b) = g[n]
  BY <1>5 DEF Size
<1>7. g[0] = 0 /\ \A k \in 1..n : g[k] = g[k - 1] + b[k].size
  <2>1. \A k \in 0..n : g[k] = IF k = 0 THEN 0 ELSE g[k - 1] + b[k].size
    BY <1>6
  <2>2. 0 \in 0..n /\ \A k \in 1..n : k \in 0..n /\ k # 0
    BY <1>1
  <2> QED
    BY <2>1, <2>2
<1>8. \A k \in 0..n : g[k] \in Nat
  <2> DEFINE T == {k \in 0..n : g[k] \in Nat}
  <2>1. 0 \in T
    BY <1>1, <1>7
  <2>2. ASSUME NEW k \in 1..n, k - 1 \in T PROVE k \in T
    <3>1. k \in 0..n /\ b[k].size \in Nat /\ g[k] = g[k - 1] + b[k].size
      BY <1>1, <1>7
    <3> QED
      BY <2>2, <3>1
  <2> HIDE DEF T
  <2>3. 0..n \subseteq T
    BY <1>1, <2>1, <2>2, InductionUpTo
  <2> QED
    BY <2>3 DEF T
<1>9. g \in [0..n -> Nat]
  BY <1>6, <1>8
<1> QED
  BY <1>6, <1>7, <1>9

LEMMA SizeOfAppend ==
    ASSUME NEW b \in Seq(Commands), NEW e \in Commands
    PROVE  /\ Size(b) \in Nat
           /\ Size(Append(b, e)) = Size(b) + e.size
<1> DEFINE n == Len(b)
           a == Append(b, e)
<1>1. /\ n \in Nat /\ a \in Seq(Commands) /\ Len(a) = n + 1
      /\ \A k \in 1..n : a[k] = b[k]
      /\ a[n + 1] = e
  BY LenProperties, AppendProperties
<1> HIDE DEF a
<1>2. PICK f \in [0..n -> Nat] :
         f[0] = 0 /\ (\A k \in 1..n : f[k] = f[k - 1] + b[k].size) /\ Size(b) = f[n]
  BY SizeIsSum
<1>3. PICK g \in [0..(n + 1) -> Nat] :
         g[0] = 0 /\ (\A k \in 1..(n + 1) : g[k] = g[k - 1] + a[k].size) /\ Size(a) = g[n + 1]
  BY <1>1, SizeIsSum
<1> HIDE DEF n
<1>4. g[n] = f[n]
  <2> DEFINE T == {k \in 0..n : g[k] = f[k]}
  <2>1. 0 \in T
    BY <1>1, <1>2, <1>3
  <2>2. ASSUME NEW k \in 1..n, k - 1 \in T PROVE k \in T
    <3>1. k \in 0..n /\ k \in 1..(n + 1) /\ g[k - 1] = f[k - 1] /\ a[k] = b[k]
      BY <1>1, <2>2
    <3>2. f[k] = f[k - 1] + b[k].size /\ g[k] = g[k - 1] + a[k].size
      BY <1>2, <1>3, <3>1
    <3> QED
      BY <3>1, <3>2
  <2> HIDE DEF T
  <2>3. 0..n \subseteq T
    BY <1>1, <2>1, <2>2, InductionUpTo
  <2>4. n \in T
    BY <1>1, <2>3
  <2> QED
    BY <2>4 DEF T
<1>5. g[n + 1] = g[n] + a[n + 1].size
  <2>1. n + 1 \in 1..(n + 1) /\ (n + 1) - 1 = n
    BY <1>1
  <2> QED
    BY <1>3, <2>1
<1>6. Size(b) \in Nat
  BY <1>1, <1>2
<1> QED
  BY <1>1, <1>2, <1>3, <1>4, <1>5, <1>6 DEF a

LEMMA SizeOfOne ==
    ASSUME NEW e \in Commands
    PROVE  Size(<<e>>) = e.size
<1>1. <<>> \in Seq(Commands) /\ Len(<<>>) = 0
  BY EmptyChain
<1>2. Size(<<>>) = 0
  BY <1>1, SizeIsSum
<1>3. Size(Append(<<>>, e)) = 0 + e.size
  BY <1>1, <1>2, SizeOfAppend
<1>4. Append(<<>>, e) = <<e>> /\ e.size \in Nat
  BY CommandType
<1> QED
  BY <1>3, <1>4

LEMMA RequestFields ==
    ASSUME NEW t, NEW s, NEW chain, NEW c
    PROVE  /\ Request(t, s, chain, c).t = t /\ Request(t, s, chain, c).s = s
           /\ Request(t, s, chain, c).chain = chain /\ Request(t, s, chain, c).c = c
BY DEF Request

\* A message without a command.
LEMMA BareType ==
    ASSUME NEW t
    PROVE  /\ Bare(t).t = t /\ Bare(t).s \in 0..MaxSessions
           /\ Bare(t).chain \in Seq(Commands) /\ Bare(t).c \in Commands
<1>1. Plain("status") \in Commands
  BY PlainType DEF Single
<1>2. Bare(t).t = t /\ Bare(t).s = 0 /\ Bare(t).chain = <<>> /\ Bare(t).c = Plain("status")
  BY RequestFields DEF Bare
<1> QED
  BY <1>1, <1>2, EmptyChain

\* The type of every variable but the chains is kept when the reader gets a
\* message without a command.
LEMMA AnswerType ==
    ASSUME NEW t, net' = Bare(t)
    PROVE  net'.t = t /\ net'.s \in 0..MaxSessions /\ net'.chain \in Seq(Commands) /\ net'.c \in Commands
BY BareType

-----------------------------------------------------------------------------
(* The host returns, sends, and goes on *)

\* A call returns: the reader is empty, and what it says of the card holds.
LEMMA ReturnStep ==
    ASSUME IInv, NEW call \in {"none", "open", "command", "load"}, NEW ok \in BOOLEAN,
           Return(call, ok), UNCHANGED <<host, stream, card, sessions>>,
           last' = <<"open", TRUE>> =>
               sc # 0 /\ (cardSession = sc => authenticated /\ cardChain = icv),
           last' = <<"load", TRUE>> =>
               sc # 0 /\ (cardSession = sc => Holds(loaded, present, DataLength))
    PROVE  IInv'
<1>1. /\ pc' = "idle" /\ net'.t = "none" /\ last' = <<call, ok>>
      /\ net'.s \in 0..MaxSessions /\ net'.chain \in Seq(Commands) /\ net'.c \in Commands
  BY AnswerType DEF Return, NoMessage
<1>2. UNCHANGED <<sc, icv, unread, currentIndex, p1, cardSession, cardChain, authenticated,
                  loaded, present, sessions>>
  BY DEF host, stream, card
<1>3. last' \in {"none", "open", "command", "load"} \X BOOLEAN
  BY <1>1
<1>4. TypeOK'
  BY <1>1, <1>2, <1>3 DEF IInv, TypeOK
<1>5. CallInv'
  BY <1>1, <1>2 DEF CallInv, Waiting
<1>6. SessionInv'
  BY <1>1, <1>2 DEF IInv, SessionInv
<1>7. ChainInv'
  BY <1>1, <1>2 DEF IInv, ChainInv, Waiting, OpenedInStep
<1>8. RoomInv'
  BY <1>1 DEF RoomInv
<1>9. LoadInv'
  BY <1>1, <1>2 DEF LoadInv
<1> QED
  BY <1>4, <1>5, <1>6, <1>7, <1>8, <1>9 DEF IInv

\* A command is wrapped and sent: whatever the card verified stays a prefix.
LEMMA SendStep ==
    ASSUME IInv, NEW c \in Commands, Send(c), sc # 0, pc' \in Waiting, last' = <<"none", TRUE>>,
           Len(icv) < MaxChain, UNCHANGED <<card, sessions>>,
           unread' \in 0..DataLength, currentIndex' \in 0..(IndexSpace - 1), p1' \in {"more", "last"}
    PROVE  /\ TypeOK' /\ CallInv' /\ SessionInv' /\ ChainInv'
           /\ net'.t = "wrapped" /\ net'.c = c /\ Len(icv') = Len(icv) + 1
<1>1. /\ net'.t = "wrapped" /\ net'.s = sc /\ net'.chain = icv /\ net'.c = c
      /\ icv' = Append(icv, c) /\ sc' = sc
  BY RequestFields DEF Send, Wrap
<1>2. UNCHANGED <<cardSession, cardChain, authenticated, loaded, present, sessions>>
  BY DEF card
<1>3. icv \in Seq(Commands) /\ cardChain \in Seq(Commands)
  BY DEF IInv, TypeOK
<1>4. icv' \in Seq(Commands) /\ Len(icv') = Len(icv) + 1 /\ Len(icv') <= MaxChain
  BY <1>1, <1>3, AppendProperties, LenProperties
<1>5. pc' # "idle" /\ pc' # "next" /\ pc' # "initUpdate"
  BY DEF Waiting
<1>6. TypeOK'
  <2>1. /\ sc' \in 0..MaxSessions /\ net'.s \in 0..MaxSessions /\ net'.chain \in Seq(Commands)
        /\ net'.c \in Commands
    BY <1>1, <1>3 DEF IInv, TypeOK
  <2>2. last' \in {"none", "open", "command", "load"} \X BOOLEAN
    OBVIOUS
  <2>3. pc' \in {"idle", "initUpdate", "extAuth", "command", "preLoad", "next", "load"}
    BY DEF Waiting
  <2> QED
    BY <1>1, <1>2, <1>4, <2>1, <2>2, <2>3 DEF IInv, TypeOK
<1>7. last' # <<"open", TRUE>> /\ last' # <<"load", TRUE>>
  OBVIOUS
<1>8. CallInv'
  BY <1>1, <1>5, <1>7 DEF CallInv
<1>9. SessionInv'
  BY <1>1, <1>2, <1>5 DEF IInv, SessionInv
<1>10. ChainInv'
  <2>1. cardSession' = sc' /\ sc' # 0 => IsPrefixOf(cardChain', icv')
    BY <1>1, <1>2, <1>3, PrefixOfAppend DEF IInv, ChainInv
  <2>2. net'.t # "ok"
    BY <1>1
  <2> QED
    BY <1>1, <1>7, <2>1, <2>2 DEF ChainInv, OpenedInStep
<1> QED
  BY <1>1, <1>4, <1>6, <1>8, <1>9, <1>10

-----------------------------------------------------------------------------
(* Each action keeps the invariant *)

LEMMA InitInv == Init => IInv
<1> SUFFICES ASSUME Init PROVE IInv
  OBVIOUS
<1>1. /\ net.t = "none" /\ net.s \in 0..MaxSessions
      /\ net.chain \in Seq(Commands) /\ net.c \in Commands
  BY BareType DEF Init, NoMessage
<1>2. last \in {"none", "open", "command", "load"} \X BOOLEAN
  BY DEF Init
<1>3. TypeOK
  <2>1. icv \in Seq(Commands) /\ Len(icv) <= MaxChain
    BY EmptyChain DEF Init
  <2>2. cardChain \in Seq(Commands) /\ loaded \in Seq(Commands)
    BY EmptyChain DEF Init
  <2>3. /\ sc \in 0..MaxSessions /\ cardSession \in 0..MaxSessions /\ sessions \in 0..MaxSessions
        /\ unread \in 0..DataLength /\ currentIndex \in 0..(IndexSpace - 1)
    BY DEF Init
  <2>4. authenticated \in BOOLEAN /\ present \in BOOLEAN /\ p1 = "more" /\ pc = "idle"
    BY DEF Init
  <2> QED
    BY <1>1, <1>2, <2>1, <2>2, <2>3, <2>4 DEF TypeOK
<1>4. CallInv
  BY <1>1 DEF Init, CallInv, Waiting
<1>5. SessionInv
  BY DEF Init, SessionInv
<1>6. ChainInv
  BY <1>1 DEF Init, ChainInv, OpenedInStep, Waiting
<1>7. RoomInv
  BY DEF Init, RoomInv
<1>8. LoadInv
  BY <1>1 DEF Init, LoadInv
<1> QED
  BY <1>3, <1>4, <1>5, <1>6, <1>7, <1>8 DEF IInv

LEMMA OpenStep == IInv /\ OpenSecureChannel => IInv'
<1> SUFFICES ASSUME IInv, OpenSecureChannel PROVE IInv'
  OBVIOUS
<1>1. /\ net'.t = "initUpdate" /\ net'.s = sessions + 1 /\ net'.chain = <<>>
      /\ net'.c = Plain("status")
  BY RequestFields DEF OpenSecureChannel
<1>2. /\ UNCHANGED <<sc, icv, unread, currentIndex, p1, cardSession, cardChain, authenticated,
                     loaded, present>>
      /\ pc = "idle" /\ sessions < MaxSessions /\ sessions' = sessions + 1
      /\ pc' = "initUpdate" /\ last' = <<"none", TRUE>>
  BY DEF OpenSecureChannel, host, stream, card
<1>3. sessions \in 0..MaxSessions /\ sc \in 0..MaxSessions /\ cardSession \in 0..MaxSessions
  BY DEF IInv, TypeOK
<1>4. TypeOK'
  <2>1. net'.chain \in Seq(Commands) /\ net'.c \in Commands
    BY <1>1, EmptyChain, PlainType DEF Single
  <2>2. net'.s \in 0..MaxSessions /\ sessions' \in 0..MaxSessions
    BY <1>1, <1>2, <1>3
  <2>3. last' \in {"none", "open", "command", "load"} \X BOOLEAN
    BY <1>2
  <2> QED
    BY <1>1, <1>2, <2>1, <2>2, <2>3 DEF IInv, TypeOK
<1>5. CallInv'
  BY <1>1, <1>2 DEF CallInv, Waiting
<1>6. SessionInv'
  BY <1>1, <1>2, <1>3 DEF IInv, SessionInv
<1>7. ChainInv'
  BY <1>1, <1>2 DEF IInv, ChainInv, OpenedInStep, Waiting
<1>8. RoomInv'
  BY <1>2 DEF RoomInv
<1>9. LoadInv'
  BY <1>1, <1>2 DEF LoadInv
<1> QED
  BY <1>4, <1>5, <1>6, <1>7, <1>8, <1>9 DEF IInv

\* The calls that return, with what they say of the card.
LEMMA FailStep ==
    ASSUME IInv, NEW call \in {"none", "open", "command", "load"}, Return(call, FALSE),
           UNCHANGED <<host, stream, card, sessions>>
    PROVE  IInv'
<1> DEFINE no == FALSE
<1>1. no \in BOOLEAN /\ Return(call, no)
  OBVIOUS
<1>2. last' # <<"open", TRUE>> /\ last' # <<"load", TRUE>>
  BY DEF Return
<1> HIDE DEF no
<1> QED
  BY <1>1, <1>2, ReturnStep

LEMMA InitializeUpdateFailsStep == IInv /\ InitializeUpdateFails => IInv'
<1> DEFINE call == "open"
<1>1. call \in {"none", "open", "command", "load"}
  OBVIOUS
<1>2. InitializeUpdateFails => Return(call, FALSE) /\ UNCHANGED <<host, stream, card, sessions>>
  BY DEF InitializeUpdateFails
<1> HIDE DEF call
<1> QED
  BY <1>1, <1>2, FailStep

LEMMA ExternalAuthenticatedStep == IInv /\ ExternalAuthenticated => IInv'
<1> SUFFICES ASSUME IInv, ExternalAuthenticated PROVE IInv'
  OBVIOUS
<1> DEFINE call == "open"
           ok == net.t = "ok"
<1>1. /\ call \in {"none", "open", "command", "load"} /\ ok \in BOOLEAN
      /\ Return(call, ok) /\ UNCHANGED <<host, stream, card, sessions>>
  BY DEF ExternalAuthenticated
<1>2. last' = <<"open", TRUE>> =>
         sc # 0 /\ (cardSession = sc => authenticated /\ cardChain = icv)
  <2>1. pc = "extAuth" /\ last' = <<"open", ok>>
    BY DEF ExternalAuthenticated, Return
  <2>2. last' = <<"open", TRUE>> => net.t = "ok"
    BY <2>1
  <2> QED
    BY <2>1, <2>2 DEF IInv, CallInv, ChainInv, Waiting
<1>3. last' # <<"load", TRUE>>
  BY DEF ExternalAuthenticated, Return
<1> HIDE DEF call, ok
<1> QED
  BY <1>1, <1>2, <1>3, ReturnStep

LEMMA CommandAnsweredStep == IInv /\ CommandAnswered => IInv'
<1> SUFFICES ASSUME IInv, CommandAnswered PROVE IInv'
  OBVIOUS
<1> DEFINE call == "command"
           ok == net.t = "ok"
<1>1. /\ call \in {"none", "open", "command", "load"} /\ ok \in BOOLEAN
      /\ Return(call, ok) /\ UNCHANGED <<host, stream, card, sessions>>
  BY DEF CommandAnswered
<1>2. last' # <<"open", TRUE>> /\ last' # <<"load", TRUE>>
  BY DEF CommandAnswered, Return
<1> HIDE DEF call, ok
<1> QED
  BY <1>1, <1>2, ReturnStep

LEMMA LoadDoneStep == IInv /\ LoadDone => IInv'
<1> SUFFICES ASSUME IInv, LoadDone PROVE IInv'
  OBVIOUS
<1> DEFINE call == "load"
           ok == TRUE
<1>1. /\ call \in {"none", "open", "command", "load"} /\ ok \in BOOLEAN
      /\ Return(call, ok) /\ UNCHANGED <<host, stream, card, sessions>>
  BY DEF LoadDone
<1>2. last' # <<"open", TRUE>>
  BY DEF LoadDone, Return
<1>3. sc # 0 /\ (cardSession = sc => Holds(loaded, present, DataLength))
  <2>1. pc = "next" /\ unread = 0 /\ DataLength - unread = DataLength
    BY DEF LoadDone
  <2>2. sc # 0
    BY <2>1 DEF IInv, CallInv
  <2>3. cardSession = sc => Holds(loaded, present, DataLength - unread)
    BY <2>1 DEF IInv, LoadInv
  <2> QED
    BY <2>1, <2>2, <2>3
<1> HIDE DEF call, ok
<1> QED
  BY <1>1, <1>2, <1>3, ReturnStep

LEMMA InitializeUpdateSucceedsStep == IInv /\ InitializeUpdateSucceeds => IInv'
<1> SUFFICES ASSUME IInv, InitializeUpdateSucceeds PROVE IInv'
  OBVIOUS
<1> DEFINE c == Plain("externalAuthenticate")
<1>1. /\ net'.t = "wrapped" /\ net'.s = sessions /\ net'.chain = <<>> /\ net'.c = c
      /\ icv' = <<c>> /\ sc' = sessions
  BY RequestFields DEF InitializeUpdateSucceeds
<1>2. /\ UNCHANGED <<unread, currentIndex, p1, last, cardSession, cardChain, authenticated,
                     loaded, present, sessions>>
      /\ pc = "initUpdate" /\ pc' = "extAuth"
  BY DEF InitializeUpdateSucceeds, stream, card
<1>3. c \in Commands /\ c.p1 = "more"
  BY PlainType
<1> HIDE DEF c
<1>4. icv' = Append(<<>>, c) /\ icv' \in Seq(Commands) /\ Len(icv') = 1
  BY <1>1, <1>3
<1>5. last = <<"none", TRUE>> /\ sc < sessions /\ (cardSession = sessions => cardChain = <<>>)
  BY <1>2 DEF IInv, CallInv, SessionInv
<1>6. sc \in 0..MaxSessions /\ sessions \in 0..MaxSessions
  BY DEF IInv, TypeOK
<1>7. TypeOK'
  <2>1. net'.s \in 0..MaxSessions /\ net'.chain \in Seq(Commands) /\ net'.c \in Commands
    BY <1>1, <1>3, <1>6, EmptyChain
  <2>2. Len(icv') <= MaxChain
    BY <1>4
  <2> QED
    BY <1>1, <1>2, <1>4, <1>6, <2>1, <2>2 DEF IInv, TypeOK
<1>8. CallInv'
  BY <1>1, <1>2, <1>5, <1>6 DEF CallInv, Waiting
<1>9. SessionInv'
  BY <1>1, <1>2, <1>6 DEF IInv, SessionInv
<1>10. ChainInv'
  BY <1>1, <1>2, <1>4, <1>5, EmptyIsPrefix DEF ChainInv, OpenedInStep
<1>11. RoomInv'
  BY <1>2 DEF RoomInv
<1>12. LoadInv'
  BY <1>1, <1>2, <1>3, <1>5 DEF LoadInv
<1> QED
  BY <1>7, <1>8, <1>9, <1>10, <1>11, <1>12 DEF IInv

LEMMA CommandSentStep == ASSUME NEW name \in Single PROVE IInv /\ CommandSent(name) => IInv'
<1> SUFFICES ASSUME IInv, CommandSent(name) PROVE IInv'
  OBVIOUS
<1> DEFINE c == Plain(name)
<1>1. /\ Send(c) /\ sc # 0 /\ pc' = "command" /\ last' = <<"none", TRUE>> /\ Len(icv) < MaxChain
      /\ UNCHANGED <<card, sessions>> /\ UNCHANGED <<unread, currentIndex, p1>>
  BY DEF CommandSent, stream
<1>2. /\ unread' \in 0..DataLength /\ currentIndex' \in 0..(IndexSpace - 1)
      /\ p1' \in {"more", "last"} /\ pc' \in Waiting
  BY <1>1 DEF IInv, TypeOK, Waiting
<1>3. c \in Commands /\ c.p1 = "more"
  BY PlainType
<1> HIDE DEF c
<1>4. TypeOK' /\ CallInv' /\ SessionInv' /\ ChainInv' /\ net'.t = "wrapped" /\ net'.c = c
  BY <1>1, <1>2, <1>3, SendStep
<1>5. RoomInv'
  BY <1>1 DEF RoomInv
<1>6. LoadInv'
  BY <1>1, <1>3, <1>4 DEF LoadInv
<1> QED
  BY <1>4, <1>5, <1>6 DEF IInv

\* Room for every block: BlocksCount is enough for DataLength bytes.
LEMMA BlocksSuffice == BlocksCount \in Nat /\ BlocksCount # 0 /\ DataLength <= BlocksCount * BlockSize
<1> DEFINE m == DataLength + BlockSize - 1
           q == m \div BlockSize
<1>1. m \in Nat /\ BlockSize \in Nat /\ BlockSize > 0 /\ DataLength > 0
  OBVIOUS
<1>2. q \in Nat /\ m = (BlockSize * q) + (m % BlockSize) /\ m % BlockSize \in 0..(BlockSize - 1)
  BY <1>1
<1>3. DataLength <= BlockSize * q
  BY <1>1, <1>2
<1>4. q # 0
  BY <1>1, <1>3
<1> QED
  BY <1>2, <1>3, <1>4 DEF BlocksCount

LEMMA LoadPackageStep == IInv /\ LoadPackage => IInv'
<1> SUFFICES ASSUME IInv, LoadPackage PROVE IInv'
  OBVIOUS
<1>1. ASSUME sc = 0 PROVE IInv'
  <2> DEFINE call == "load"
  <2>1. /\ call \in {"none", "open", "command", "load"} /\ Return(call, FALSE)
        /\ UNCHANGED <<host, stream, card, sessions>>
    BY <1>1 DEF LoadPackage
  <2> HIDE DEF call
  <2> QED
    BY <2>1, FailStep
<1>2. ASSUME sc # 0 PROVE IInv'
  <2> DEFINE c == Plain("installForLoad")
  <2>1. /\ Send(c) /\ pc' = "preLoad" /\ last' = <<"none", TRUE>>
        /\ Len(icv) + 1 + BlocksCount <= MaxChain
        /\ UNCHANGED <<card, sessions>> /\ UNCHANGED <<unread, currentIndex, p1>>
    BY <1>2 DEF LoadPackage, stream
  <2>2. /\ unread' \in 0..DataLength /\ currentIndex' \in 0..(IndexSpace - 1)
        /\ p1' \in {"more", "last"} /\ pc' \in Waiting
    BY <2>1 DEF IInv, TypeOK, Waiting
  <2>3. c \in Commands /\ c.p1 = "more"
    BY PlainType
  <2>4. Len(icv) \in Nat /\ BlocksCount \in Nat /\ DataLength <= BlocksCount * BlockSize
    BY BlocksSuffice, LenProperties DEF IInv, TypeOK
  <2>5. Len(icv) < MaxChain
    BY <2>1, <2>4
  <2>6. net'.c = c => net'.c = Plain("installForLoad")
    OBVIOUS
  <2> HIDE DEF c
  <2>7. /\ TypeOK' /\ CallInv' /\ SessionInv' /\ ChainInv' /\ net'.t = "wrapped" /\ net'.c = c
        /\ Len(icv') = Len(icv) + 1
    BY <1>2, <2>1, <2>2, <2>3, <2>5, SendStep
  <2>8. RoomInv'
    BY <2>1, <2>4, <2>7 DEF RoomInv
  <2>9. LoadInv'
    BY <2>1, <2>3, <2>6, <2>7 DEF LoadInv
  <2> QED
    BY <2>7, <2>8, <2>9 DEF IInv
<1> QED
  BY <1>1, <1>2

\* INSTALL [for load] succeeded: the card has no byte of the file yet.
LEMMA PreLoadAnsweredStep == IInv /\ PreLoadAnswered => IInv'
<1> SUFFICES ASSUME IInv, PreLoadAnswered PROVE IInv'
  OBVIOUS
<1>1. ASSUME Return("load", FALSE), UNCHANGED <<host, stream, card, sessions>> PROVE IInv'
  <2> DEFINE call == "load"
  <2>1. call \in {"none", "open", "command", "load"} /\ Return(call, FALSE)
    BY <1>1
  <2> HIDE DEF call
  <2> QED
    BY <1>1, <2>1, FailStep
<1>2. ASSUME net.t = "ok", NewLoadCommandStream, pc' = "next", net' = NoMessage, UNCHANGED last
      PROVE IInv'
  <2>1. /\ UNCHANGED <<sc, icv, cardSession, cardChain, authenticated, loaded, present, sessions>>
        /\ pc = "preLoad" /\ unread' = DataLength /\ currentIndex' = 0 /\ p1' = "more"
    BY <1>2 DEF PreLoadAnswered, host, card, NewLoadCommandStream
  <2>2. /\ net'.t = "none" /\ net'.s \in 0..MaxSessions
        /\ net'.chain \in Seq(Commands) /\ net'.c \in Commands
    BY <1>2, AnswerType DEF NoMessage
  <2>10. pc # "idle" /\ pc \in Waiting /\ last' = last
    BY <1>2, <2>1 DEF Waiting
  <2>11. last' = <<"none", TRUE>> /\ sc # 0
    BY <2>10 DEF IInv, CallInv
  <2>3. last' = <<"none", TRUE>> /\ last' # <<"open", TRUE>> /\ last' # <<"load", TRUE>> /\ sc # 0
    BY <2>11
  <2>4. TypeOK'
    <3>1. unread' \in 0..DataLength /\ currentIndex' \in 0..(IndexSpace - 1)
      BY <2>1
    <3> QED
      BY <1>2, <2>1, <2>2, <3>1 DEF IInv, TypeOK
  <2>5. CallInv'
    BY <1>2, <2>1, <2>2, <2>3 DEF CallInv, Waiting
  <2>6. SessionInv'
    BY <1>2, <2>1 DEF IInv, SessionInv
  <2>7. ChainInv'
    BY <1>2, <2>1, <2>2, <2>3 DEF IInv, ChainInv, Waiting, OpenedInStep
  <2>8. RoomInv'
    BY <1>2, <2>1 DEF IInv, RoomInv
  <2>9. LoadInv'
    <3>1. ASSUME cardSession = sc PROVE Holds(loaded, present, 0)
      <4> DEFINE e == Plain("installForLoad")
      <4>1. loaded = <<e>> /\ e \in Commands /\ e.size = 0
        BY <1>2, <2>1, <3>1, PlainType DEF IInv, LoadInv
      <4> HIDE DEF e
      <4>2. Size(loaded) = 0 /\ Len(loaded) = 1 /\ loaded # <<>>
        BY <4>1, SizeOfOne
      <4>3. 2..Len(loaded) = {} /\ DataLength # 0
        BY <4>2
      <4> QED
        BY <4>2, <4>3 DEF Holds
    <3>2. DataLength - DataLength = 0 /\ DataLength # 0
      OBVIOUS
    <3> QED
      BY <1>2, <2>1, <2>2, <2>3, <3>1, <3>2 DEF LoadInv
  <2> QED
    BY <2>4, <2>5, <2>6, <2>7, <2>8, <2>9 DEF IInv
<1> QED
  BY <1>1, <1>2 DEF PreLoadAnswered

\* A block of the data left.
LEMMA BlockOfData ==
    ASSUME NEW u \in 1..DataLength, NEW v, NEW s, v = u - Smaller(BlockSize, u), s = u - v
    PROVE  /\ v \in 0..DataLength /\ s \in 1..BlockSize
           /\ s \in 1..(DataLength - v) /\ DataLength - v - s = DataLength - u
           /\ \A n \in Nat : u <= n * BlockSize => n - 1 \in Nat /\ v <= (n - 1) * BlockSize
<1>1. DataLength \in Nat /\ BlockSize \in Nat /\ BlockSize > 0 /\ u \in Nat /\ u > 0 /\ u <= DataLength
  OBVIOUS
<1>2. CASE u <= BlockSize
  <2>1. v = 0 /\ s = u
    BY <1>1, <1>2 DEF Smaller
  <2>2. ASSUME NEW n \in Nat, u <= n * BlockSize PROVE n - 1 \in Nat /\ v <= (n - 1) * BlockSize
    <3>1. n - 1 \in Nat
      BY <1>1, <2>2
    <3>2. (n - 1) * BlockSize \in Nat
      BY <1>1, <3>1
    <3> QED
      BY <2>1, <3>1, <3>2
  <2>3. /\ v \in 0..DataLength /\ s \in 1..BlockSize
        /\ s \in 1..(DataLength - v) /\ DataLength - v - s = DataLength - u
    BY <1>1, <1>2, <2>1
  <2> QED
    BY <2>2, <2>3
<1>3. CASE ~(u <= BlockSize)
  <2>1. v = u - BlockSize /\ s = BlockSize
    BY <1>1, <1>3 DEF Smaller
  <2>2. ASSUME NEW n \in Nat, u <= n * BlockSize PROVE n - 1 \in Nat /\ v <= (n - 1) * BlockSize
    <3>1. n - 1 \in Nat
      BY <1>1, <2>2
    <3>2. (n - 1) * BlockSize = n * BlockSize - BlockSize
      BY <1>1, <3>1
    <3> QED
      BY <1>1, <2>1, <2>2, <3>1, <3>2
  <2>3. /\ v \in 0..DataLength /\ s \in 1..BlockSize
        /\ s \in 1..(DataLength - v) /\ DataLength - v - s = DataLength - u
    BY <1>1, <1>3, <2>1
  <2> QED
    BY <2>2, <2>3
<1> QED
  BY <1>2, <1>3

LEMMA IndexType ==
    ASSUME NEW n \in Nat
    PROVE  Index(n) \in 0..(IndexSpace - 1) /\ n % IndexSpace \in 0..(IndexSpace - 1)
<1> DEFINE m == n + IndexSpace - 1
<1>1. IndexSpace \in Nat /\ IndexSpace > 0
  OBVIOUS
<1>2. m \in Nat
  BY <1>1
<1> HIDE DEF m
<1>3. m % IndexSpace \in 0..(IndexSpace - 1) /\ n % IndexSpace \in 0..(IndexSpace - 1)
  BY <1>1, <1>2
<1> QED
  BY <1>3 DEF Index, m

\* The card holds what it held; with this block, it is to hold the rest.
LEMMA LoadSentStep == IInv /\ LoadSent => IInv'
<1> SUFFICES ASSUME IInv, LoadSent PROVE IInv'
  OBVIOUS
<1> DEFINE size == unread - unread'
           k == Index(currentIndex')
           c == Load(p1', k, size)
<1>1. /\ Send(c) /\ pc = "next" /\ pc' = "load" /\ unread # 0 /\ UNCHANGED <<last, card, sessions>>
      /\ unread' = unread - Smaller(BlockSize, unread)
      /\ currentIndex' = (currentIndex + 1) % IndexSpace
      /\ p1' = IF unread' = 0 THEN "last" ELSE p1
  BY DEF LoadSent, NextBlock
<1>2. unread \in 1..DataLength /\ p1 = "more" /\ sc # 0 /\ last' = <<"none", TRUE>>
  <2>1. unread \in 1..DataLength
    BY <1>1 DEF IInv, TypeOK
  <2>2. p1 = "more"
    BY <1>1 DEF IInv, LoadInv
  <2>3. sc # 0 /\ last = <<"none", TRUE>>
    BY <1>1 DEF IInv, CallInv
  <2> QED
    BY <1>1, <2>1, <2>2, <2>3
<1>3. /\ unread' \in 0..DataLength /\ size \in 1..BlockSize
      /\ size \in 1..(DataLength - unread') /\ DataLength - unread' - size = DataLength - unread
      /\ \A n \in Nat : unread <= n * BlockSize => n - 1 \in Nat /\ unread' <= (n - 1) * BlockSize
  BY <1>1, <1>2, BlockOfData
<1>4. p1' \in {"more", "last"} /\ p1' = IF unread' = 0 THEN "last" ELSE "more"
  BY <1>1, <1>2
<1>5. currentIndex' \in 0..(IndexSpace - 1) /\ k \in 0..(IndexSpace - 1)
  <2>1. currentIndex + 1 \in Nat
    BY DEF IInv, TypeOK
  <2>2. currentIndex' \in 0..(IndexSpace - 1)
    BY <1>1, <2>1, IndexType
  <2>3. currentIndex' \in Nat
    BY <2>2
  <2> QED
    BY <2>2, <2>3, IndexType
<1>6. c \in Commands /\ c.name = "load" /\ c.p1 = p1' /\ c.size = size
  BY <1>3, <1>4, <1>5, LoadType
<1> HIDE DEF c, k
<1>7. PICK n \in Nat : Len(icv) + n <= MaxChain /\ unread <= n * BlockSize
  BY <1>1 DEF IInv, RoomInv
<1>8. Len(icv) \in Nat
  BY LenProperties DEF IInv, TypeOK
<1>9. n # 0 /\ Len(icv) < MaxChain
  BY <1>2, <1>7, <1>8
<1>10. n - 1 \in Nat /\ unread' <= (n - 1) * BlockSize
  BY <1>3, <1>7
<1>11. pc' \in Waiting
  BY <1>1 DEF Waiting
<1>12. /\ TypeOK' /\ CallInv' /\ SessionInv' /\ ChainInv'
       /\ net'.t = "wrapped" /\ net'.c = c /\ Len(icv') = Len(icv) + 1
  BY <1>1, <1>2, <1>3, <1>4, <1>5, <1>6, <1>9, <1>11, SendStep
<1>13. RoomInv'
  <2>1. Len(icv') + (n - 1) <= MaxChain
    BY <1>7, <1>8, <1>12
  <2> QED
    BY <1>1, <1>10, <2>1 DEF RoomInv
<1>14. LoadInv'
  <2>3. cardSession' = sc' => Holds(loaded', present', DataLength - unread' - size)
    BY <1>1, <1>3 DEF IInv, LoadInv, Send, card
  <2>4. net'.c.name = "load" /\ net'.c.p1 = p1' /\ net'.c.size = size
    BY <1>6, <1>12
  <2> HIDE DEF size
  <2>5. last' # <<"load", TRUE>>
    BY <1>2
  <2> QED
    BY <1>1, <1>3, <1>4, <1>12, <2>3, <2>4, <2>5 DEF LoadInv
<1> QED
  BY <1>12, <1>13, <1>14 DEF IInv

LEMMA LoadAnsweredStep == IInv /\ LoadAnswered => IInv'
<1> SUFFICES ASSUME IInv, LoadAnswered PROVE IInv'
  OBVIOUS
<1>1. ASSUME net.t # "ok" PROVE IInv'
  <2> DEFINE call == "load"
  <2>1. /\ call \in {"none", "open", "command", "load"} /\ Return(call, FALSE)
        /\ UNCHANGED <<host, stream, card, sessions>>
    BY <1>1 DEF LoadAnswered
  <2> HIDE DEF call
  <2> QED
    BY <2>1, FailStep
<1>2. ASSUME net.t = "ok" PROVE IInv'
  <2>1. /\ UNCHANGED <<sc, icv, unread, currentIndex, p1, last, cardSession, cardChain,
                       authenticated, loaded, present, sessions>>
        /\ pc = "load" /\ pc' = "next"
    BY <1>2 DEF LoadAnswered, host, stream, card
  <2>2. /\ net'.t = "none" /\ net'.s \in 0..MaxSessions
        /\ net'.chain \in Seq(Commands) /\ net'.c \in Commands
    BY <1>2, AnswerType DEF LoadAnswered, NoMessage
  <2>10. pc # "idle" /\ pc \in Waiting /\ last' = last
    BY <2>1 DEF Waiting
  <2>11. last' = <<"none", TRUE>> /\ sc # 0
    BY <2>10 DEF IInv, CallInv
  <2>3. last' = <<"none", TRUE>> /\ last' # <<"open", TRUE>> /\ last' # <<"load", TRUE>> /\ sc # 0
    BY <2>11
  <2>4. TypeOK'
    BY <2>1, <2>2 DEF IInv, TypeOK
  <2>5. CallInv'
    BY <2>1, <2>2, <2>3 DEF CallInv, Waiting
  <2>6. SessionInv'
    BY <2>1 DEF IInv, SessionInv
  <2>7. ChainInv'
    BY <2>1, <2>2, <2>3 DEF IInv, ChainInv, Waiting, OpenedInStep
  <2>8. RoomInv'
    BY <2>1 DEF IInv, RoomInv
  <2>9. LoadInv'
    BY <1>2, <2>1, <2>2, <2>3 DEF IInv, LoadInv
  <2> QED
    BY <2>4, <2>5, <2>6, <2>7, <2>8, <2>9 DEF IInv
<1> QED
  BY <1>1, <1>2

\* A command of the channel is in the reader: a call waits for its answer.
LEMMA WrappedWaits ==
    ASSUME IInv, net.t = "wrapped"
    PROVE  /\ pc \in Waiting /\ pc # "idle" /\ pc # "next" /\ pc # "initUpdate"
           /\ sc # 0 /\ net.s = sc /\ last = <<"none", TRUE>>
           /\ last # <<"open", TRUE>> /\ last # <<"load", TRUE>>
           /\ icv = Append(net.chain, net.c)
<1>1. pc \in {"idle", "initUpdate", "extAuth", "command", "preLoad", "next", "load"}
  BY DEF IInv, TypeOK
<1>2. pc # "idle" /\ pc # "next" /\ pc # "initUpdate"
  BY DEF IInv, CallInv, Answers
<1>3. pc \in Waiting
  BY <1>1, <1>2 DEF Waiting
<1>4. last = <<"none", TRUE>> /\ sc # 0
  BY <1>2, <1>3 DEF IInv, CallInv
<1>5. net.s = sc /\ icv = Append(net.chain, net.c)
  BY DEF IInv, ChainInv
<1> QED
  BY <1>2, <1>3, <1>4, <1>5

LEMMA CardInitializesStep == IInv /\ CardInitializes => IInv'
<1> SUFFICES ASSUME IInv, CardInitializes PROVE IInv'
  OBVIOUS
<1>1. /\ UNCHANGED <<sc, icv, unread, currentIndex, p1, pc, last, present, sessions>>
      /\ net.t = "initUpdate" /\ cardSession' = net.s /\ cardChain' = <<>>
      /\ authenticated' = FALSE /\ loaded' = <<>>
  BY DEF CardInitializes, host, stream
<1>2. /\ net'.t \in {"ok", "badCryptogram"} /\ net'.s \in 0..MaxSessions
      /\ net'.chain \in Seq(Commands) /\ net'.c \in Commands
  BY AnswerType DEF CardInitializes
<1>3. pc = "initUpdate"
  <2>1. pc # "idle" /\ pc # "next" /\ pc \notin Waiting
    BY <1>1 DEF IInv, CallInv, Answers
  <2>2. pc \in {"idle", "initUpdate", "extAuth", "command", "preLoad", "next", "load"}
    BY DEF IInv, TypeOK
  <2> QED
    BY <2>1, <2>2 DEF Waiting
<1>4. /\ sc < sessions /\ net.s = sessions /\ last = <<"none", TRUE>>
      /\ sc \in 0..MaxSessions /\ sessions \in 0..MaxSessions
  BY <1>1, <1>3 DEF IInv, SessionInv, CallInv, TypeOK
<1>5. cardSession' = sessions /\ cardSession' # sc /\ sessions <= sessions
  BY <1>1, <1>4
<1>6. TypeOK'
  <2>1. /\ cardSession' \in 0..MaxSessions /\ cardChain' \in Seq(Commands)
        /\ authenticated' \in BOOLEAN /\ loaded' \in Seq(Commands)
    BY <1>1, <1>4, EmptyChain
  <2>2. net'.t \in Answers \cup {"none", "initUpdate", "wrapped"}
    BY <1>2 DEF Answers
  <2> QED
    BY <1>1, <1>2, <2>1, <2>2 DEF IInv, TypeOK
<1>7. last' # <<"open", TRUE>> /\ last' # <<"load", TRUE>> /\ last' = <<"none", TRUE>>
  BY <1>1, <1>4
<1>8. CallInv'
  BY <1>1, <1>2, <1>3, <1>7 DEF CallInv, Waiting, Answers
<1>9. SessionInv'
  BY <1>1, <1>2, <1>3, <1>4, <1>5 DEF IInv, SessionInv
<1>10. ChainInv'
  BY <1>1, <1>2, <1>5 DEF ChainInv, OpenedInStep
<1>11. RoomInv'
  BY <1>1, <1>3 DEF RoomInv
<1>12. LoadInv'
  BY <1>1, <1>2, <1>3, <1>7 DEF LoadInv
<1> QED
  BY <1>6, <1>8, <1>9, <1>10, <1>11, <1>12 DEF IInv

\* The block that comes next in the file.
LEMMA HoldsNext ==
    ASSUME NEW b \in Seq(Commands), NEW i \in BOOLEAN, NEW n \in Nat, NEW e \in Commands,
           Holds(b, i, n), e.size \in 1..(DataLength - n),
           e.p1 = IF n + e.size = DataLength THEN "last" ELSE "more"
    PROVE  Holds(Append(b, e), i \/ e.p1 = "last", n + e.size)
<1> DEFINE a == Append(b, e)
           m == n + e.size
           j == i \/ e.p1 = "last"
<1>1. /\ Len(b) \in Nat /\ a \in Seq(Commands) /\ Len(a) = Len(b) + 1
      /\ (\A k \in 1..Len(b) : a[k] = b[k]) /\ a[Len(b) + 1] = e
  BY LenProperties, AppendProperties
<1>2. Size(a) = m
  BY SizeOfAppend DEF Holds
<1>3. a # <<>>
  BY <1>1, EmptyChain
<1>4. n # DataLength /\ m \in Nat
  BY CommandType
<1>5. e.p1 = IF m = DataLength THEN "last" ELSE "more"
  OBVIOUS
<1> HIDE DEF a, m
<1>6. \A k \in 2..Len(a) : a[k].p1 = IF k = Len(a) /\ m = DataLength THEN "last" ELSE "more"
  <2> SUFFICES ASSUME NEW k \in 2..Len(a)
               PROVE  a[k].p1 = IF k = Len(a) /\ m = DataLength THEN "last" ELSE "more"
    OBVIOUS
  <2>1. CASE k = Len(a)
    BY <1>1, <1>5, <2>1
  <2>2. CASE k # Len(a)
    <3>1. k \in 2..Len(b) /\ a[k] = b[k]
      BY <1>1, <2>2
    <3>2. b[k].p1 = "more"
      BY <1>4, <3>1 DEF Holds
    <3> QED
      BY <2>2, <3>1, <3>2
  <2> QED
    BY <2>1, <2>2
<1>7. m = DataLength => j
  BY <1>5
<1> HIDE DEF j
<1>8. Holds(a, j, m)
  BY <1>2, <1>3, <1>6, <1>7 DEF Holds
<1> QED
  BY <1>8 DEF a, j, m

\* The card verifies the command: its chain becomes the host's.
LEMMA CardExecutesStep == IInv /\ CardExecutes => IInv'
<1> SUFFICES ASSUME IInv, CardExecutes PROVE IInv'
  OBVIOUS
<1> DEFINE c == net.c
<1>1. /\ UNCHANGED <<sc, icv, unread, currentIndex, p1, pc, last, cardSession, sessions>>
      /\ net.t = "wrapped" /\ net.s = cardSession /\ net.chain = cardChain
      /\ cardChain' = Append(cardChain, c) /\ authenticated' = TRUE
  BY DEF CardExecutes, Verified, host, stream
<1>2. /\ pc \in Waiting /\ pc # "idle" /\ pc # "next" /\ pc # "initUpdate"
      /\ sc # 0 /\ cardSession = sc /\ last = <<"none", TRUE>>
      /\ last # <<"open", TRUE>> /\ last # <<"load", TRUE>> /\ icv = Append(cardChain, c)
  BY <1>1, WrappedWaits
<1>3. /\ net'.t = "ok" /\ net'.s \in 0..MaxSessions
      /\ net'.chain \in Seq(Commands) /\ net'.c \in Commands
  BY AnswerType DEF CardExecutes
<1>4. c \in Commands /\ cardChain \in Seq(Commands) /\ loaded \in Seq(Commands)
      /\ present \in BOOLEAN /\ icv \in Seq(Commands)
  BY DEF IInv, TypeOK
<1>5. cardChain' = icv /\ cardChain' \in Seq(Commands)
  BY <1>1, <1>2, <1>4
<1>6. loaded' = CASE c.name = "installForLoad" -> <<c>>
                  [] c.name = "load" -> Append(loaded, c)
                  [] OTHER -> <<>>
  BY DEF CardExecutes
<1>7. loaded' \in Seq(Commands)
  <2>1. <<c>> \in Seq(Commands) /\ Append(loaded, c) \in Seq(Commands) /\ <<>> \in Seq(Commands)
    BY <1>4, EmptyChain, AppendProperties
  <2> HIDE DEF c
  <2> QED
    BY <1>6, <2>1
<1>8. present' = (present \/ c.p1 = "last") /\ present' \in BOOLEAN
  BY DEF CardExecutes
<1>9. TypeOK'
  <2>1. net'.t \in Answers \cup {"none", "initUpdate", "wrapped"}
    BY <1>3 DEF Answers
  <2> QED
    BY <1>1, <1>3, <1>5, <1>7, <1>8, <2>1 DEF IInv, TypeOK
<1>10. CallInv'
  BY <1>1, <1>2, <1>3 DEF IInv, CallInv, Answers
<1>11. SessionInv'
  BY <1>1, <1>2 DEF IInv, SessionInv
<1>12. ChainInv'
  <2>1. IsPrefixOf(cardChain', icv')
    BY <1>1, <1>4, <1>5, PrefixOfSelf
  <2> QED
    BY <1>1, <1>2, <1>3, <1>5, <2>1 DEF ChainInv, OpenedInStep
<1>13. RoomInv'
  BY <1>1 DEF IInv, RoomInv
<1>14. LoadInv'
  <2>1. ASSUME pc = "preLoad" PROVE loaded' = <<Plain("installForLoad")>>
    <3>1. c = Plain("installForLoad")
      BY <1>1, <2>1 DEF IInv, LoadInv
    <3>2. c.name = "installForLoad"
      BY <3>1, PlainType
    <3> QED
      BY <1>6, <3>1, <3>2
  <2>2. ASSUME pc = "load" PROVE Holds(loaded', present', DataLength - unread)
    <3> DEFINE n == DataLength - unread - c.size
    <3>1. /\ c.name = "load" /\ c.p1 = p1 /\ c.size \in 1..(DataLength - unread)
          /\ Holds(loaded, present, n)
      BY <1>1, <1>2, <2>2 DEF IInv, LoadInv
    <3>2. p1 = IF unread = 0 THEN "last" ELSE "more"
      BY <2>2 DEF IInv, LoadInv
    <3>3. unread \in 0..DataLength
      BY DEF IInv, TypeOK
    <3>4. n \in Nat /\ c.size \in 1..(DataLength - n) /\ n + c.size = DataLength - unread
      BY <3>1, <3>3
    <3>5. loaded' = Append(loaded, c)
      BY <1>6, <3>1
    <3>6. c.p1 = IF n + c.size = DataLength THEN "last" ELSE "more"
      BY <3>1, <3>2, <3>3, <3>4
    <3> HIDE DEF n, c
    <3>7. Holds(Append(loaded, c), present \/ c.p1 = "last", n + c.size)
      BY <1>4, <3>1, <3>4, <3>6, HoldsNext
    <3> QED
      BY <1>8, <3>4, <3>5, <3>7
  <2> QED
    BY <1>1, <1>2, <1>3, <2>1, <2>2 DEF IInv, LoadInv
<1> QED
  BY <1>9, <1>10, <1>11, <1>12, <1>13, <1>14 DEF IInv

LEMMA CardRefusesStep == IInv /\ CardRefuses => IInv'
<1> SUFFICES ASSUME IInv, CardRefuses PROVE IInv'
  OBVIOUS
<1>1. /\ UNCHANGED <<sc, icv, unread, currentIndex, p1, pc, last, present, sessions>>
      /\ net.t = "wrapped" /\ loaded' = <<>>
  BY DEF CardRefuses, host, stream
<1>2. /\ pc \in Waiting /\ pc # "idle" /\ pc # "next" /\ pc # "initUpdate"
      /\ sc # 0 /\ net.s = sc /\ last = <<"none", TRUE>>
      /\ last # <<"open", TRUE>> /\ last # <<"load", TRUE>> /\ icv = Append(net.chain, net.c)
  BY <1>1, WrappedWaits
<1>3. /\ net'.t = "refused" /\ net'.s \in 0..MaxSessions
      /\ net'.chain \in Seq(Commands) /\ net'.c \in Commands
  BY AnswerType DEF CardRefuses
<1>4. \/ cardSession' = 0 /\ cardChain' = <<>> /\ authenticated' = FALSE
      \/ cardChain' = icv /\ UNCHANGED <<cardSession, authenticated>>
  BY <1>2 DEF CardRefuses, Verified
<1>5. cardChain' \in Seq(Commands) /\ IsPrefixOf(cardChain', icv)
  <2>1. <<>> \in Seq(Commands) /\ icv \in Seq(Commands)
    BY EmptyChain DEF IInv, TypeOK
  <2> QED
    BY <1>4, <2>1, EmptyIsPrefix, PrefixOfSelf
<1>6. TypeOK'
  <2>1. net'.t \in Answers \cup {"none", "initUpdate", "wrapped"} /\ loaded' \in Seq(Commands)
    BY <1>1, <1>3, EmptyChain DEF Answers
  <2>2. cardSession' \in 0..MaxSessions
    BY <1>4 DEF IInv, TypeOK
  <2>3. authenticated \in BOOLEAN
    BY DEF IInv, TypeOK
  <2>4. authenticated' \in BOOLEAN
    BY <1>4, <2>3, Zenon
  <2> QED
    BY <1>1, <1>3, <1>5, <2>1, <2>2, <2>4 DEF IInv, TypeOK
<1>7. CallInv'
  BY <1>1, <1>2, <1>3 DEF IInv, CallInv, Answers
<1>8. SessionInv'
  <2>1. sessions \in Nat /\ cardSession <= sessions /\ sc <= sessions
    BY DEF IInv, SessionInv, TypeOK
  <2> QED
    BY <1>1, <1>2, <1>4, <2>1 DEF SessionInv
<1>9. ChainInv'
  BY <1>1, <1>2, <1>3, <1>5 DEF ChainInv, OpenedInStep
<1>10. RoomInv'
  BY <1>1 DEF IInv, RoomInv
<1>11. LoadInv'
  BY <1>1, <1>2, <1>3 DEF IInv, LoadInv
<1> QED
  BY <1>6, <1>7, <1>8, <1>9, <1>10, <1>11 DEF IInv

\* The card has no session: nothing is claimed of it.
LEMMA CardResetStep == IInv /\ CardReset => IInv'
<1> SUFFICES ASSUME IInv, CardReset PROVE IInv'
  OBVIOUS
<1>1. /\ UNCHANGED <<sc, icv, unread, currentIndex, p1, pc, net, last, present, sessions>>
      /\ cardSession' = 0 /\ cardChain' = <<>> /\ authenticated' = FALSE /\ loaded' = <<>>
  BY DEF CardReset, host, stream
<1>2. TypeOK'
  <2>1. cardChain' \in Seq(Commands) /\ loaded' \in Seq(Commands)
    BY <1>1, EmptyChain
  <2>2. cardSession' \in 0..MaxSessions
    BY <1>1
  <2>3. authenticated' \in BOOLEAN
    BY <1>1, Zenon
  <2> QED
    BY <1>1, <2>1, <2>2, <2>3 DEF IInv, TypeOK
<1>3. CallInv'
  BY <1>1 DEF IInv, CallInv
<1>4. SessionInv'
  <2>1. sessions \in Nat
    BY DEF IInv, TypeOK
  <2> QED
    BY <1>1, <2>1 DEF IInv, SessionInv
<1>5. /\ pc \in Waiting \cup {"next"} => sc # 0
      /\ last = <<"open", TRUE>> => sc # 0
      /\ last = <<"load", TRUE>> => sc # 0
  BY DEF IInv, CallInv
<1>6. ChainInv'
  BY <1>1, <1>5 DEF IInv, ChainInv, OpenedInStep
<1>7. RoomInv'
  BY <1>1 DEF IInv, RoomInv
<1>8. LoadInv'
  BY <1>1, <1>5 DEF IInv, LoadInv, Waiting
<1> QED
  BY <1>2, <1>3, <1>4, <1>6, <1>7, <1>8 DEF IInv

LEMMA SendFailsStep == IInv /\ SendFails => IInv'
<1> SUFFICES ASSUME IInv, SendFails PROVE IInv'
  OBVIOUS
<1>1. /\ UNCHANGED <<sc, icv, unread, currentIndex, p1, pc, last, cardSession, cardChain,
                     authenticated, loaded, present, sessions>>
      /\ net.t \in {"initUpdate", "wrapped", "ok", "refused", "badCryptogram"}
  BY DEF SendFails, host, stream, card
<1>2. /\ net'.t = "error" /\ net'.s \in 0..MaxSessions
      /\ net'.chain \in Seq(Commands) /\ net'.c \in Commands
  BY AnswerType DEF SendFails
<1>3. pc # "idle" /\ pc # "next"
  BY <1>1 DEF IInv, CallInv
<1>4. TypeOK'
  <2>1. net'.t \in Answers \cup {"none", "initUpdate", "wrapped"}
    BY <1>2 DEF Answers
  <2> QED
    BY <1>1, <1>2, <2>1 DEF IInv, TypeOK
<1>5. CallInv'
  BY <1>1, <1>2, <1>3 DEF IInv, CallInv, Answers
<1>6. SessionInv'
  BY <1>1, <1>2 DEF IInv, SessionInv
<1>7. ChainInv'
  BY <1>1, <1>2 DEF IInv, ChainInv, OpenedInStep
<1>8. RoomInv'
  BY <1>1 DEF IInv, RoomInv
<1>9. LoadInv'
  BY <1>1, <1>2 DEF IInv, LoadInv
<1> QED
  BY <1>4, <1>5, <1>6, <1>7, <1>8, <1>9 DEF IInv

LEMMA StutterStep == IInv /\ UNCHANGED vars => IInv'
<1> SUFFICES ASSUME IInv, UNCHANGED vars PROVE IInv'
  OBVIOUS
<1>1. UNCHANGED <<sc, icv, unread, currentIndex, p1, pc, net, last, cardSession, cardChain,
                  authenticated, loaded, present, sessions>>
  BY DEF vars, host, stream, card
<1>2. TypeOK'
  BY <1>1 DEF IInv, TypeOK
<1>3. CallInv' /\ SessionInv'
  BY <1>1 DEF IInv, CallInv, SessionInv
<1>4. ChainInv'
  BY <1>1 DEF IInv, ChainInv, OpenedInStep
<1>5. RoomInv'
  BY <1>1 DEF IInv, RoomInv
<1>6. LoadInv'
  BY <1>1 DEF IInv, LoadInv
<1> QED
  BY <1>2, <1>3, <1>4, <1>5, <1>6 DEF IInv

LEMMA Inductive == IInv /\ [Next]_vars => IInv'
<1> SUFFICES ASSUME IInv, [Next]_vars PROVE IInv'
  OBVIOUS
<1>1. CASE Client
  BY <1>1, OpenStep, CommandSentStep, LoadPackageStep DEF Client
<1>2. CASE Library
  BY <1>2, InitializeUpdateFailsStep, InitializeUpdateSucceedsStep, ExternalAuthenticatedStep,
     CommandAnsweredStep, PreLoadAnsweredStep, LoadSentStep, LoadAnsweredStep, LoadDoneStep
     DEF Library
<1>3. CASE Card
  BY <1>3, CardInitializesStep, CardExecutesStep, CardRefusesStep DEF Card
<1>4. CASE CardReset \/ SendFails
  BY <1>4, CardResetStep, SendFailsStep
<1>5. CASE UNCHANGED vars
  BY <1>5, StutterStep
<1> QED
  BY <1>1, <1>2, <1>3, <1>4, <1>5 DEF Next

-----------------------------------------------------------------------------
(* Theorems *)

\* Every behaviour keeps the inductive invariant.
THEOREM Invariance == Spec => []IInv
<1>1. Init => IInv
  BY InitInv
<1>2. IInv /\ [Next]_vars => IInv'
  BY Inductive
<1> QED
  BY <1>1, <1>2, PTL DEF Spec

\* Every variable keeps its type: among others, the block index stays in its
\* range, however many blocks the file has.
THEOREM TypeCorrect == Spec => []TypeOK
<1>1. IInv => TypeOK
  BY DEF IInv
<1> QED
  BY <1>1, Invariance, PTL

\* What the card verified in the channel's session is a prefix of what
\* SecureChannel.Send wrapped, whatever was lost, refused or reset.
THEOREM PrefixSafety == Spec => []VerifiedIsPrefix
<1>1. IInv => VerifiedIsPrefix
  BY DEF IInv, ChainInv, IsPrefixOf, VerifiedIsPrefix
<1> QED
  BY <1>1, Invariance, PTL

\* OpenSecureChannel returns nil only with the card authenticated and both
\* MAC chains equal.
THEOREM OpenedSafety == Spec => []OpenedInStep
<1>1. IInv => OpenedInStep
  BY DEF IInv, ChainInv
<1> QED
  BY <1>1, Invariance, PTL

\* LoadPackage returns nil only if the card holds the whole file, its last
\* block announced as the last and no other.
THEOREM LoadSafety == Spec => []LoadedCompletely
<1>1. IInv => LoadedCompletely
  <2> SUFFICES ASSUME IInv, last = <<"load", TRUE>>, cardSession = sc
               PROVE  /\ present /\ Size(loaded) = DataLength
                      /\ \A k \in 2..Len(loaded) :
                            loaded[k].p1 = IF k = Len(loaded) THEN "last" ELSE "more"
    BY DEF LoadedCompletely
  <2>1. Holds(loaded, present, DataLength)
    BY DEF IInv, LoadInv
  <2> QED
    BY <2>1 DEF Holds
<1> QED
  BY <1>1, Invariance, PTL

\* The step that installs the package is the card taking its last byte.
LEMMA InstallStep ==
    ASSUME IInv, CardExecutes, present', ~present
    PROVE  Size(loaded') = DataLength
<1> DEFINE c == net.c
           n == DataLength - unread - c.size
<1>1. /\ net.t = "wrapped" /\ net.s = cardSession /\ c.p1 = "last"
      /\ c.name = "load" => loaded' = Append(loaded, c)
  BY DEF CardExecutes, Verified
<1>2. cardSession = sc
  BY <1>1, WrappedWaits
<1>3. pc = "load"
  BY <1>1 DEF IInv, LoadInv
<1>4. /\ c.name = "load" /\ c.p1 = p1 /\ c.size \in 1..(DataLength - unread)
      /\ Holds(loaded, present, n)
  BY <1>1, <1>2, <1>3 DEF IInv, LoadInv
<1>5. unread = 0
  BY <1>1, <1>3, <1>4 DEF IInv, LoadInv
<1>6. Size(loaded) = n /\ loaded \in Seq(Commands) /\ c \in Commands
  BY <1>4 DEF Holds, IInv, TypeOK
<1>7. Size(loaded') = n + c.size
  BY <1>1, <1>4, <1>6, SizeOfAppend
<1>8. n + c.size = DataLength
  BY <1>4, <1>5
<1> QED
  BY <1>7, <1>8

\* The card never installs a part of the file: it has every byte when the
\* block announced as the last one arrives.
THEOREM NeverPartlySafety == Spec => NeverPartlyPresent
<1>1. IInv /\ [Next]_vars => [present' /\ ~present => Size(loaded') = DataLength]_vars
  <2> SUFFICES ASSUME IInv, Next, present', ~present PROVE Size(loaded') = DataLength
    BY DEF vars, card
  <2>1. CASE CardExecutes
    BY <2>1, InstallStep
  <2>2. CASE Next /\ ~CardExecutes
    <3>1. UNCHANGED present
      BY <2>2 DEF Next, Client, Library, Card, OpenSecureChannel, CommandSent, LoadPackage,
         InitializeUpdateFails, InitializeUpdateSucceeds, ExternalAuthenticated, CommandAnswered,
         PreLoadAnswered, LoadSent, LoadAnswered, LoadDone, CardInitializes, CardRefuses,
         CardReset, SendFails, card
    <3> QED
      BY <3>1, Zenon
  <2> QED
    BY <2>1, <2>2
<1> QED
  BY <1>1, Invariance, PTL DEF Spec, NeverPartlyPresent

-----------------------------------------------------------------------------
(* A file too long for the block index *)

\* The bytes of as many blocks as the index has values.
Capacity == IndexSpace * BlockSize

\* What a card has of a file, and what a load in progress or installed had, is no
\* more than that: the card counts the blocks and takes each index once.
CapacityInv ==
    /\ loaded # <<>> =>
          \E k \in 0..IndexSpace : Len(loaded) = k + 1 /\ Size(loaded) <= k * BlockSize
    /\ pc = "next" \/ (pc = "load" /\ net.t = "ok") => DataLength - unread <= Capacity
    /\ present \/ last = <<"load", TRUE>> => DataLength <= Capacity

LEMMA CapacityType == Capacity \in Nat
<1>1. IndexSpace \in Nat /\ BlockSize \in Nat
  OBVIOUS
<1> QED
  BY <1>1 DEF Capacity

LEMMA BlocksFit == DataLength <= Capacity => BlocksCount <= IndexSpace
<1> SUFFICES ASSUME DataLength <= Capacity PROVE BlocksCount <= IndexSpace
  OBVIOUS
<1> DEFINE m == DataLength + BlockSize - 1
           q == m \div BlockSize
           i == IndexSpace
<1>1. m \in Nat /\ BlockSize \in Nat /\ BlockSize > 0 /\ i \in Nat
  OBVIOUS
<1>2. q \in Nat /\ BlockSize * q <= m
  BY <1>1
<1>3. m < i * BlockSize + BlockSize
  BY DEF Capacity
<1> HIDE DEF m, q, i
<1>4. ASSUME q > i PROVE FALSE
  <2>1. q - i - 1 \in Nat /\ q = i + 1 + (q - i - 1)
    BY <1>1, <1>2, <1>4
  <2>2. BlockSize * q = i * BlockSize + BlockSize + BlockSize * (q - i - 1)
    BY <1>1, <2>1
  <2>3. BlockSize * (q - i - 1) \in Nat
    BY <1>1, <2>1
  <2>4. i * BlockSize \in Nat /\ BlockSize * q \in Nat
    BY <1>1, <1>2
  <2> QED
    BY <1>1, <1>2, <1>3, <2>2, <2>3, <2>4
<1> QED
  BY <1>1, <1>2, <1>4 DEF BlocksCount, m, q, i

\* A block the card takes has an index below IndexSpace and the card's count.
LEMMA TakenBlocks ==
    ASSUME IInv, CapacityInv, CardExecutes, loaded' # <<>>
    PROVE  \E k \in 0..IndexSpace : Len(loaded') = k + 1 /\ Size(loaded') <= k * BlockSize
<1> DEFINE c == net.c
<1>1. c \in Commands /\ loaded \in Seq(Commands)
  BY DEF IInv, TypeOK
<1>2. c.size \in Nat /\ (c.name # "load" => c.size = 0)
      /\ (c.name = "load" => c.p2 \in 0..(IndexSpace - 1) /\ c.size \in 1..BlockSize)
  BY <1>1 DEF Commands, Single
<1>3. /\ loaded' = CASE c.name = "installForLoad" -> <<c>>
                    [] c.name = "load" -> Append(loaded, c)
                    [] OTHER -> <<>>
      /\ c.name = "load" => loaded # <<>> /\ c.p2 = Len(loaded) - 1
  BY DEF CardExecutes, InOrder
<1> HIDE DEF c
<1>4. CASE c.name = "installForLoad"
  <2>1. loaded' = <<c>> /\ c.size = 0
    BY <1>2, <1>3, <1>4
  <2>2. Size(loaded') = 0 /\ Len(loaded') = 1
    BY <1>1, <2>1, SizeOfOne
  <2>3. 0 \in 0..IndexSpace /\ 0 * BlockSize = 0
    OBVIOUS
  <2> QED
    BY <2>2, <2>3
<1>5. CASE c.name = "load"
  <2>1. PICK k \in 0..IndexSpace : Len(loaded) = k + 1 /\ Size(loaded) <= k * BlockSize
    BY <1>3, <1>5 DEF CapacityInv
  <2>2. c.p2 = k /\ k + 1 \in 0..IndexSpace
    BY <1>2, <1>3, <1>5, <2>1
  <2>3. loaded' = Append(loaded, c)
    BY <1>3, <1>5
  <2>4. Len(loaded') = Len(loaded) + 1
    BY <1>1, <2>3, AppendProperties
  <2>5. Size(loaded) \in Nat /\ Size(loaded') = Size(loaded) + c.size
    BY <1>1, <2>3, SizeOfAppend
  <2>6. (k + 1) * BlockSize = k * BlockSize + BlockSize /\ k * BlockSize \in Nat
    <3>1. k \in Nat /\ BlockSize \in Nat
      OBVIOUS
    <3> QED
      BY <3>1
  <2>7. Size(loaded') <= (k + 1) * BlockSize
    BY <1>2, <1>5, <2>1, <2>5, <2>6
  <2>8. Len(loaded') = (k + 1) + 1
    BY <2>1, <2>4
  <2> QED
    BY <2>2, <2>7, <2>8
<1>6. CASE c.name \notin {"installForLoad", "load"}
  BY <1>3, <1>6
<1> QED
  BY <1>4, <1>5, <1>6

LEMMA CardExecutesFits == ASSUME IInv, CapacityInv, CardExecutes PROVE CapacityInv'
<1>1. ASSUME loaded' # <<>> PROVE Size(loaded') <= Capacity
  <2>1. PICK k \in 0..IndexSpace : Size(loaded') <= k * BlockSize
    BY <1>1, TakenBlocks
  <2>2. k * BlockSize <= Capacity /\ k * BlockSize \in Nat /\ Capacity \in Nat
    <3>1. k \in Nat /\ BlockSize \in Nat /\ IndexSpace - k \in Nat
      OBVIOUS
    <3>2. IndexSpace * BlockSize = k * BlockSize + (IndexSpace - k) * BlockSize
      BY <3>1
    <3>3. k * BlockSize \in Nat /\ (IndexSpace - k) * BlockSize \in Nat
      BY <3>1
    <3> QED
      BY <3>2, <3>3 DEF Capacity
  <2>3. Size(loaded') \in Nat
    <3>1. loaded' \in Seq(Commands)
      BY CardExecutesStep DEF IInv, TypeOK
    <3>2. PICK e \in Commands : TRUE
      BY PlainType DEF Single
    <3> QED
      BY <3>1, <3>2, SizeOfAppend
  <2> QED
    BY <2>1, <2>2, <2>3
<1>2. /\ UNCHANGED <<sc, unread, pc, last, cardSession>>
      /\ net.t = "wrapped" /\ net.s = cardSession /\ net'.t = "ok"
  BY AnswerType DEF CardExecutes, Verified, host, stream
<1>3. cardSession = sc /\ pc # "next"
  BY <1>2, WrappedWaits
<1>4. pc' = "load" => DataLength - unread' <= Capacity
  <2> SUFFICES ASSUME pc' = "load" PROVE DataLength - unread' <= Capacity
    OBVIOUS
  <2>1. IInv'
    BY CardExecutesStep
  <2>2. Holds(loaded', present', DataLength - unread')
    BY <1>2, <1>3, <2>1 DEF IInv, LoadInv
  <2> QED
    BY <1>1, <2>2 DEF Holds
<1>5. present' /\ ~present => DataLength <= Capacity
  <2> SUFFICES ASSUME present', ~present PROVE DataLength <= Capacity
    OBVIOUS
  <2>1. Size(loaded') = DataLength
    BY InstallStep
  <2>2. loaded' # <<>>
    <3>1. <<>> \in Seq(Commands) /\ Len(<<>>) = 0
      BY EmptyChain
    <3>2. Size(<<>>) = 0
      BY <3>1, SizeIsSum
    <3> QED
      BY <2>1, <3>2
  <2> QED
    BY <1>1, <2>1, <2>2
<1> QED
  BY <1>2, <1>3, <1>4, <1>5, TakenBlocks DEF CapacityInv

\* Everything else leaves the card with what it has or with nothing.
LEMMA OthersFit == ASSUME IInv, CapacityInv, Next, ~CardExecutes PROVE CapacityInv'
<1>1. UNCHANGED present /\ (loaded' = loaded \/ loaded' = <<>>)
  BY DEF Next, Client, Library, Card, OpenSecureChannel, CommandSent, LoadPackage,
     InitializeUpdateFails, InitializeUpdateSucceeds, ExternalAuthenticated, CommandAnswered,
     PreLoadAnswered, LoadSent, LoadAnswered, LoadDone, CardInitializes, CardRefuses,
     CardReset, SendFails, card
<1>2. Capacity \in Nat /\ unread \in 0..DataLength /\ DataLength \in Nat
  BY CapacityType DEF IInv, TypeOK
<1>3. ASSUME pc' = "next" \/ (pc' = "load" /\ net'.t = "ok")
      PROVE  DataLength - unread' <= Capacity
  <2>1. CASE PreLoadAnswered
    <3>1. unread' = DataLength
      BY <1>3, <2>1 DEF PreLoadAnswered, NewLoadCommandStream, Return
    <3> QED
      BY <1>2, <3>1
  <2>2. CASE LoadAnswered
    BY <1>3, <2>2 DEF LoadAnswered, Return, CapacityInv, stream
  <2>3. CASE LoadSent
    <3>1. net'.t = "wrapped" /\ pc' = "load"
      BY <2>3, RequestFields DEF LoadSent, Send
    <3> QED
      BY <1>3, <3>1
  <2>4. CASE CardInitializes \/ CardRefuses \/ SendFails \/ CardReset
    <3>1. UNCHANGED <<pc, unread>> /\ (net'.t = "ok" => CardInitializes \/ net' = net)
      BY <2>4, BareType DEF CardInitializes, CardRefuses, SendFails, CardReset, stream
    <3>2. CardInitializes => net.t = "initUpdate"
      BY DEF CardInitializes
    <3>3. pc = "load" => net.t # "initUpdate"
      BY DEF IInv, CallInv, Waiting, Answers
    <3> QED
      BY <1>3, <3>1, <3>2, <3>3 DEF CapacityInv
  <2>5. CASE Client \/ InitializeUpdateFails \/ InitializeUpdateSucceeds \/ ExternalAuthenticated
               \/ CommandAnswered \/ LoadDone
    <3>1. pc' \notin {"next", "load"}
      BY <2>5 DEF Client, OpenSecureChannel, CommandSent, LoadPackage, InitializeUpdateFails,
         InitializeUpdateSucceeds, ExternalAuthenticated, CommandAnswered, LoadDone, Return
    <3> QED
      BY <1>3, <3>1
  <2> QED
    BY <2>1, <2>2, <2>3, <2>4, <2>5 DEF Next, Library, Card
<1>4. ASSUME last' = <<"load", TRUE>> PROVE DataLength <= Capacity
  <2>1. CASE LoadDone
    <3>1. pc = "next" /\ unread = 0
      BY <2>1 DEF LoadDone
    <3> QED
      BY <1>2, <3>1 DEF CapacityInv
  <2>2. CASE last' = last
    BY <1>4, <2>2 DEF CapacityInv
  <2>3. ASSUME NEW call, NEW ok, last' = <<call, ok>> PROVE call = "load" /\ ok = TRUE
    <3>1. last'[1] = call /\ last'[2] = ok
      BY <2>3
    <3>2. last'[1] = "load" /\ last'[2] = TRUE
      BY <1>4
    <3> QED
      BY <3>1, <3>2
  <2>4. CASE ~LoadDone /\ last' # last
    BY <1>4, <2>3, <2>4
       DEF Next, Client, Library, Card, OpenSecureChannel, CommandSent, LoadPackage,
           InitializeUpdateFails, InitializeUpdateSucceeds, ExternalAuthenticated, CommandAnswered,
           PreLoadAnswered, LoadSent, LoadAnswered, CardInitializes, CardRefuses,
           CardReset, SendFails, Return
  <2> QED
    BY <2>1, <2>2, <2>4
<1> QED
  BY <1>1, <1>3, <1>4 DEF CapacityInv

\* A file of more blocks than the index can count (load.go:78) is never installed,
\* and LoadPackage never returns nil for it: the refusal of the block whose index
\* starts again at zero always reaches the caller.
THEOREM TooLongSafety ==
    Spec => [](BlocksCount > IndexSpace => ~present /\ last # <<"load", TRUE>>)
<1>1. Init => CapacityInv
  <2> SUFFICES ASSUME Init PROVE CapacityInv
    OBVIOUS
  <2>1. /\ loaded = <<>> /\ pc = "idle" /\ present = FALSE /\ last = <<"none", TRUE>>
    BY DEF Init
  <2>2. last # <<"load", TRUE>>
    BY <2>1
  <2> QED
    BY <2>1, <2>2 DEF CapacityInv
<1>2. IInv /\ CapacityInv /\ [Next]_vars => CapacityInv'
  <2> SUFFICES ASSUME IInv, CapacityInv, [Next]_vars PROVE CapacityInv'
    OBVIOUS
  <2>1. CASE UNCHANGED vars
    BY <2>1 DEF vars, host, stream, card, CapacityInv
  <2> QED
    BY <2>1, CardExecutesFits, OthersFit
<1>3. CapacityInv => (BlocksCount > IndexSpace => ~present /\ last # <<"load", TRUE>>)
  <2> SUFFICES ASSUME CapacityInv, BlocksCount > IndexSpace
               PROVE  ~present /\ last # <<"load", TRUE>>
    OBVIOUS
  <2>1. BlocksCount \in Nat /\ IndexSpace \in Nat
    BY BlocksSuffice
  <2>2. ~(DataLength <= Capacity)
    BY <2>1, BlocksFit
  <2> QED
    BY <2>2, Zenon DEF CapacityInv
<1> QED
  BY <1>1, <1>2, <1>3, Invariance, PTL DEF Spec

=============================================================================
