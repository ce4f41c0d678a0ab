--------------------------- MODULE MCCardAnswers ----------------------------
(***************************************************************************)
(* CardAnswers for TLC, together with the documents of MCBerTlv.  Tags are *)
(* the same where those of the code are, and different otherwise.  Signing *)
(* with these keys and nonces gives an r of one byte and of two, and an s  *)
(* with and without its highest bit.                                       *)
(***************************************************************************)
EXTENDS MCBerTlv, CardAnswers

Tagged ==
    [BOOL |-> TLV_BOOL, INT |-> TLV_INT, VERSION |-> TLV_INT, SLOTS |-> TLV_INT, R |-> TLV_INT,
     S |-> TLV_INT, PIN |-> TLV_INT, PUK |-> TLV_INT, KEY |-> TLV_BOOL,
     ECDSA_TEMPLATE |-> 3, SIGNATURE_TEMPLATE |-> 20, KEY_TEMPLATE |-> 21,
     APPLICATION_STATUS_TEMPLATE |-> 23, APPLICATION_INFO_TEMPLATE |-> 24,
     PUB_KEY |-> 6, PRIV_KEY |-> 7, CHAIN_CODE |-> 8, LEE_NSK |-> 9, LEE_ASK |-> 10,
     LEE_VSK_D |-> 11, LEE_VSK_Z |-> 12, CERT |-> 13, STATUS |-> 14, CAPABILITIES |-> 15,
     KEY_UID |-> 16, UID |-> 17, SCHNORR |-> 18, GET_STATUS_TEMPLATE |-> 25, AID |-> 26,
     LC |-> 27, LIFE_CYCLE |-> 28]

=============================================================================
