---------------------------- MODULE MCCommandSet ----------------------------
(***************************************************************************)
(* CommandSet for TLC: an old V1 card, a V2 card, a V2 card without a      *)
(* trusted certificate, and one whose applet has no secure channel.        *)
(***************************************************************************)
EXTENDS CommandSet

CONSTANTS v1Card, v2Card, v2Forged, bareCard

KindOf ==
    [c \in Cards |->
        CASE c = v1Card -> "v2"
          [] c = bareCard -> "bare"
          [] OTHER -> "v4"]

=============================================================================
