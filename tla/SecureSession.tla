--------------------------- MODULE SecureSession ---------------------------
(***************************************************************************)
(* What a secure channel of keycard-go promises to the command set that    *)
(* uses it, whatever the protocol version: inside one session commands are *)
(* issued one at a time, the card executes each at most once and in the    *)
(* order they were issued, an answer is accepted only for the command that *)
(* was executed, and a session that was closed is never resumed.           *)
(*                                                                         *)
(* An entry [s, n, c] is the n-th command, c, of session s.                *)
(***************************************************************************)
EXTENDS Naturals

CONSTANTS
    Sessions,  \* session identifiers (0 is none of them: no session)
    Numbers,   \* the positions a command may take in its session
    Commands   \* the commands a client issues

VARIABLES
    current,   \* the open session, 0 when the channel is closed
    issued,    \* entries the client has encrypted in some session
    executed,  \* entries the card has decrypted and executed
    accepted   \* entries whose answer the client has accepted

svars == <<current, issued, executed, accepted>>

Entries == [s : Sessions, n : Numbers, c : Commands]

\* The entries of X that belong to session s.
Of(X, s) == {e \in X : e.s = s}

Init ==
    /\ current = 0
    /\ issued = {}
    /\ executed = {}
    /\ accepted = {}

\* A handshake completes: the session it opens was never used before.
Open ==
    \E s \in Sessions :
        /\ Of(issued, s) = {}
        /\ current' = s
        /\ UNCHANGED <<issued, executed, accepted>>

\* The channel closes, for whatever reason; nothing in flight is undone.
Close ==
    /\ current' = 0
    /\ UNCHANGED <<issued, executed, accepted>>

\* A command is issued in the open session, only when no other is unanswered.
Issue ==
    \E c \in Commands, n \in Numbers :
        LET e == [s |-> current, n |-> n, c |-> c] IN
        /\ current # 0
        /\ Of(issued, current) = Of(accepted, current)
        /\ \A f \in Of(issued, current) : f.n < n
        /\ issued' = issued \cup {e}
        /\ UNCHANGED <<current, executed, accepted>>

\* The card executes an issued entry: once, and after the ones before it.
Execute ==
    \E e \in issued \ executed :
        /\ \A f \in Of(issued, e.s) : f.n < e.n => f \in executed
        /\ executed' = executed \cup {e}
        /\ UNCHANGED <<current, issued, accepted>>

\* The client accepts the answer of an executed entry.  Accepting the last
\* answer the session's counter has room for also closes the session.
Accept ==
    \E e \in executed \ accepted :
        /\ e.s = current
        /\ accepted' = accepted \cup {e}
        /\ current' \in {current, 0}
        /\ UNCHANGED <<issued, executed>>

Next == Open \/ Close \/ Issue \/ Execute \/ Accept

Spec == Init /\ [][Next]_svars

=============================================================================
