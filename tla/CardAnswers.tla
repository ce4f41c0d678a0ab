----------------------------- MODULE CardAnswers ----------------------------
(***************************************************************************)
(* What the host makes of the data in a card's answers: the parsers of     *)
(* types/*.go as clients of the BER-TLV reader.                            *)
(*                                                                         *)
(* Most of them read fields one after the other, each required or optional *)
(* and of some form: a schema.  Parsing an answer is one step here, after  *)
(* which the answer is the buffer of the reader of BerTlv.                 *)
(***************************************************************************)
EXTENDS BerTlv, Ecdsa

CONSTANTS
    Tag,        \* the constants of tlv.go, by name
    Keys,       \* private keys of cards and of certificate authorities
    Nonces,     \* what signers draw
    Digests     \* the hashes signed

VARIABLES
    asked,      \* the answer given to a parser
    parsed      \* what the parser returned

parsing == <<vars, asked, parsed>>

-----------------------------------------------------------------------------
(* Schemas *)

Field(need, name, tag, form) == [need |-> need, name |-> name, tag |-> Tag[tag], form |-> form]
Required(tag) == Field("required", tag, tag, "bytes")
Optional(tag) == Field("optional", tag, tag, "bytes")

\* The forms of a value: a number or truth value, a secret of fixed length, or
\* flags in the first of some bytes.
Formed(form, o) ==
    CASE form = "integer" -> Interpreted(o, Integer)
      [] form = "boolean" -> Interpreted(o, Boolean)
      [] form = "secret" -> Interpreted(o, LAMBDA b : IF Len(b) = KeyLen THEN Got(b, 0) ELSE Err)
      [] form = "single" -> Interpreted(o, LAMBDA b : IF Len(b) = 1 THEN Got(b, b[1]) ELSE Err)
      [] form = "flags" -> Interpreted(o, LAMBDA b : IF b # <<>> THEN Got(b, b[1]) ELSE Err)
      [] OTHER -> o

\* The fields read so far, by name; absent differs from present and empty.
Absent == [there |-> FALSE, value |-> <<>>, number |-> 0]
Present(r) == [there |-> TRUE, value |-> r.value, number |-> r.number]
NoFields == [name \in DOMAIN Tag |-> Absent]

\* p with the field that was read: a lenient one may fail, wherever that leaves
\* the reader.
WithField(p, f, o) ==
    [ok |-> o.result.ok \/ f.need = "lenient",
     at |-> o.next,
     f |-> IF o.result.ok THEN [p.f EXCEPT ![f.name] = Present(o.result)] ELSE p.f]

\* A bare tag is one byte of any value, and a skipped item any item.
ReadField(buf, p, f) ==
    IF ~p.ok \/ (f.need = "optional" /\ ~NextTagIs(buf, p.at, f.tag)) THEN p
    ELSE WithField(p, f,
             CASE f.need = "skip" -> Skip(buf, p.at)
               [] f.need = "tag" -> At(p.at + 1, IF p.at < Len(buf) THEN Nil ELSE Err)
               [] OTHER -> Formed(f.form, Read(buf, p.at, f.tag)))

ReadFields(buf, at, schema) ==
    FoldLeft(LAMBDA p, f : ReadField(buf, p, f), [ok |-> TRUE, at |-> at, f |-> NoFields], schema)

Failed == [ok |-> FALSE, at |-> 0, f |-> NoFields]

\* The fields of a template: in a reader of their own, or behind the template's
\* length in the same reader.
InTemplate(buf, tag, schema) ==
    LET t == Read(buf, 0, Tag[tag])
    IN  IF t.result.ok THEN ReadFields(t.result.value, 0, schema) ELSE Failed

Behind(buf, tag, schema) ==
    LET t == Enter(buf, 0, Tag[tag])
    IN  IF t.result.ok THEN ReadFields(buf, t.next, schema) ELSE Failed

Rest(buf, at) == SubSeq(buf, at + 1, Len(buf))

-----------------------------------------------------------------------------
(* Signatures *)

NoSignature == [ok |-> FALSE, pubKey |-> <<>>, r |-> <<>>, s |-> <<>>, v |-> 0]
Signature(pubKey, r, s, v) == [ok |-> TRUE, pubKey |-> pubKey, r |-> r, s |-> s, v |-> v]

\* Ecrecover of go-ethereum: 65 bytes, or an error; 0 is an error.
Ecrecover(m, sig) ==
    IF Len(sig) # 2 * KeyLen + 1 THEN 0
    ELSE Recover(m, FromBytes(SubSeq(sig, 1, KeyLen)),
                 FromBytes(SubSeq(sig, KeyLen + 1, 2 * KeyLen)), sig[2 * KeyLen + 1])

ParseRecoverableSignature(m, sig) ==
    LET key == Ecrecover(m, sig)
    IN  IF key = 0 THEN NoSignature
        ELSE Signature(Uncompressed(key), SubSeq(sig, 1, KeyLen),
                       SubSeq(sig, KeyLen + 1, 2 * KeyLen), sig[2 * KeyLen + 1])

\* Bug: the first bytes of a long integer are kept.
FirstBytes(bytes) == IF Len(bytes) > KeyLen THEN SubSeq(bytes, 1, KeyLen) ELSE bytes

\* A long integer loses its first bytes; a short one stays short.
LastBytes(bytes) ==
    IF Len(bytes) > KeyLen THEN SubSeq(bytes, Len(bytes) - KeyLen + 1, Len(bytes)) ELSE bytes

DERSignatureToRS(data) ==
    LET der == InTemplate(data, "ECDSA_TEMPLATE",
                          <<Field("required", "R", "INT", "bytes"), Field("required", "S", "INT", "bytes")>>)
        schnorr == ReadFields(data, 0, <<Optional("SCHNORR")>>).f["SCHNORR"].value
    IN  IF NextTagIs(data, 0, Tag["ECDSA_TEMPLATE"])
        THEN [ok |-> der.ok, r |-> LastBytes(der.f["R"].value), s |-> LastBytes(der.f["S"].value)]
        ELSE [ok |-> Len(schnorr) = 2 * KeyLen,
              r |-> SubSeq(schnorr, 1, KeyLen), s |-> Rest(schnorr, KeyLen)]

\* Bug: an error of one candidate is no reason to stop, as in CreateCertificate.
calculateVGoesOn(m, pubKey, rs) ==
    LET rec(v) == Ecrecover(m, rs \o <<v>>)
        form(key) == IF Len(pubKey) = KeyLen + 1 THEN Compressed(key) ELSE Uncompressed(key)
        stops == {v \in 0..3 : rec(v) # 0 /\ form(rec(v)) = pubKey}
    IN  IF stops = {} THEN [ok |-> TRUE, v |-> 3] ELSE [ok |-> TRUE, v |-> Min(stops)]

\* The first candidate that gives the card's key or an error; 3 and no error when
\* there is neither.
calculateV(m, pubKey, rs) ==
    LET rec(v) == Ecrecover(m, rs \o <<v>>)
        form(key) == IF Len(pubKey) = KeyLen + 1 THEN Compressed(key) ELSE Uncompressed(key)
        stops == {v \in 0..3 : rec(v) = 0 \/ form(rec(v)) = pubKey}
    IN  IF stops = {} THEN [ok |-> TRUE, v |-> 3]
        ELSE [ok |-> rec(Min(stops)) # 0, v |-> Min(stops)]

\* The card's key is beside the signature; a Schnorr signature gets no v.
parseLegacySignature(m, template) ==
    LET key == ReadFields(template, 0, <<Required("PUB_KEY")>>)
        pubKey == key.f["PUB_KEY"].value
        rs == DERSignatureToRS(Rest(template, key.at))
        v == IF NextTagIs(template, key.at, Tag["SCHNORR"]) THEN [ok |-> TRUE, v |-> 0]
             ELSE calculateV(m, pubKey, rs.r \o rs.s)
    IN  IF key.ok /\ rs.ok /\ v.ok THEN Signature(pubKey, rs.r, rs.s, v.v) ELSE NoSignature

\* The template comes first: a raw signature has the tag of a public key.
ParseSignature(m, resp) ==
    LET template == Read(resp, 0, Tag["SIGNATURE_TEMPLATE"])
        raw == ReadFields(resp, 0, <<Optional("PUB_KEY")>>).f["PUB_KEY"].value
    IN  IF NextTagIs(resp, 0, Tag["SIGNATURE_TEMPLATE"])
        THEN IF template.result.ok THEN parseLegacySignature(m, template.result.value) ELSE NoSignature
        ELSE ParseRecoverableSignature(m, raw)

-----------------------------------------------------------------------------
(* Keys *)

KeySchema == <<Optional("PUB_KEY"), Optional("PRIV_KEY"), Optional("CHAIN_CODE")>>

NoKey == [ok |-> FALSE, pub |-> Absent, priv |-> Absent, chain |-> Absent]
KeyOf(pub, f) == [ok |-> TRUE, pub |-> pub, priv |-> f["PRIV_KEY"], chain |-> f["CHAIN_CODE"]]

\* The public key the card left out comes from the private one, which must have
\* its full length and no zero more.
ParseExportKeyResponse(data) ==
    LET p == InTemplate(data, "KEY_TEMPLATE", KeySchema)
        priv == p.f["PRIV_KEY"].value
    IN  IF ~p.ok THEN NoKey
        ELSE IF p.f["PUB_KEY"].value # <<>> \/ priv = <<>> THEN KeyOf(p.f["PUB_KEY"], p.f)
        ELSE IF Len(priv) = KeyLen /\ FromBytes(priv) \in Scalars
        THEN KeyOf(Present(Got(Uncompressed(FromBytes(priv)), 0)), p.f)
        ELSE NoKey

stripLeadingZero(priv) == IF Len(priv) > KeyLen /\ priv[1] = 0 THEN Tail(priv) ELSE priv

\* Bug: the zero in front of a long private key counts as its first byte.
newBip32KeyPairUnstripped(f) ==
    IF f["PRIV_KEY"].there /\ ~f["PUB_KEY"].there
    THEN KeyOf(Present(Got(Compressed(Hash(SubSeq(f["PRIV_KEY"].value, 1, KeyLen))), 0)), f)
    ELSE KeyOf(f["PUB_KEY"], f)

\* Bytes beyond a key's length are cut, and the number is taken modulo Order.
newBip32KeyPair(f) ==
    LET priv == stripLeadingZero(f["PRIV_KEY"].value)
        d == FromBytes(SubSeq(priv, 1, IF Len(priv) > KeyLen THEN KeyLen ELSE Len(priv))) % Order
    IN  IF f["PRIV_KEY"].there /\ ~f["PUB_KEY"].there
        THEN KeyOf(Present(Got(Compressed(d), 0)), f)
        ELSE KeyOf(f["PUB_KEY"], f)

Bip32KeyPairFromTLV(data) ==
    LET p == Behind(data, "KEY_TEMPLATE", KeySchema)
    IN  IF p.ok THEN newBip32KeyPair(p.f) ELSE NoKey

Template(tag, bytes) == WritePrimitive(Tag[tag], bytes)
Written(tag, field) == IF field.there THEN Template(tag, field.value) ELSE <<>>

ToTLV(k, includePublic) ==
    Template("KEY_TEMPLATE",
             (IF includePublic /\ k.pub.value # <<>> THEN Written("PUB_KEY", k.pub) ELSE <<>>)
             \o Written("PRIV_KEY", [k.priv EXCEPT !.value = stripLeadingZero(@)])
             \o Written("CHAIN_CODE", k.chain))

LeeSecrets == <<"LEE_ASK", "LEE_NSK", "LEE_VSK_D", "LEE_VSK_Z">>

ParseLeeKey(data) ==
    InTemplate(data, "KEY_TEMPLATE",
               [i \in 1..4 |-> Field("required", LeeSecrets[i], LeeSecrets[i], "secret")])

-----------------------------------------------------------------------------
(* Application and card *)

\* Bug: the free slots are read where the version is, both being integers.
InfoSchemaSlotsFirst ==
    <<Optional("UID"), Optional("PUB_KEY"), Field("optional", "SLOTS", "INT", "integer"),
      Field("optional", "STATUS", "STATUS", "flags"), Field("required", "VERSION", "INT", "integer"),
      Required("KEY_UID"), Field("optional", "CAPABILITIES", "CAPABILITIES", "flags"),
      Optional("CERT")>>

\* The fields of each generation of the applet, told apart by their tags alone.
InfoSchema ==
    <<Optional("UID"), Optional("PUB_KEY"), Field("required", "VERSION", "INT", "integer"),
      Field("optional", "STATUS", "STATUS", "flags"), Field("optional", "SLOTS", "INT", "integer"),
      Required("KEY_UID"), Field("optional", "CAPABILITIES", "CAPABILITIES", "flags"),
      Optional("CERT")>>

\* An applet that is not initialized shows its public key and nothing else.
ParseApplicationInfo(data) ==
    IF NextTagIs(data, 0, Tag["PUB_KEY"]) THEN ReadFields(data, 0, <<Required("PUB_KEY")>>)
    ELSE Behind(data, "APPLICATION_INFO_TEMPLATE", InfoSchema)

\* EncodeFromBytes: words of four bytes; what is left over is dropped.
Words(data) == [i \in 1..(Len(data) \div 4) |-> FromBytes(SubSeq(data, 4 * i - 3, 4 * i))]

\* Anything that does not begin with the template is the path of the current key.
ParseApplicationStatus(data) ==
    LET e == Enter(data, 0, Tag["APPLICATION_STATUS_TEMPLATE"])
        f == ReadFields(data, e.next,
                 <<Field("lenient", "PIN", "INT", "integer"), Field("lenient", "PUK", "INT", "integer"),
                   Field("lenient", "KEY", "BOOL", "boolean")>>).f
    IN  IF e.result.ok
        THEN [pin |-> f["PIN"].number, puk |-> f["PUK"].number, key |-> f["KEY"].number = 1, path |-> <<>>]
        ELSE [pin |-> 0, puk |-> 0, key |-> FALSE, path |-> Words(data)]

\* The first byte of the two-byte tag of the life cycle is read as a tag.
ParseCardStatus(data) ==
    InTemplate(data, "GET_STATUS_TEMPLATE",
               <<Field("skip", "AID", "AID", "bytes"), Field("tag", "LC", "LC", "bytes"),
                 Field("required", "LIFE_CYCLE", "LIFE_CYCLE", "single")>>)

\* Called on data that is not empty: its first byte is read unasked.
ParseCashApplicationInfo(data) ==
    LET p == Behind(data, "APPLICATION_INFO_TEMPLATE",
                    <<Required("PUB_KEY"), Field("required", "VERSION", "INT", "bytes"),
                      Required("CHAIN_CODE")>>)
    IN  IF p.at = Len(data) THEN p ELSE Failed

-----------------------------------------------------------------------------
(* Certificates *)

NoCertificate == [ok |-> FALSE, identPub |-> <<>>, caPub |-> <<>>, r |-> <<>>, s |-> <<>>, v |-> 0]

\* RecoverPublicKey: every length must be right.
RecoverPublicKey(v, m, r, s) ==
    IF Len(r) = KeyLen /\ Len(s) = KeyLen THEN Recover(m, FromBytes(r), FromBytes(s), v) ELSE 0

\* identPub || r || s || recID, and whatever follows.
ParseCertificate(data) ==
    LET identPub == SubSeq(data, 1, KeyLen + 1)
        r == SubSeq(data, KeyLen + 2, 2 * KeyLen + 1)
        s == SubSeq(data, 2 * KeyLen + 2, 3 * KeyLen + 1)
        v == data[3 * KeyLen + 2]
        ca == RecoverPublicKey(v, Hash(identPub), r, s)
    IN  IF Len(data) < 3 * KeyLen + 2 \/ ca = 0 THEN NoCertificate
        ELSE [ok |-> TRUE, identPub |-> identPub, caPub |-> Compressed(ca), r |-> r, s |-> s, v |-> v]

\* The signature behind the certificate is raw if it has that length, and DER
\* otherwise; its v is not looked at.
IdentitySignature(bytes) ==
    LET der == InTemplate(bytes, "ECDSA_TEMPLATE",
                          <<Field("required", "R", "INT", "bytes"), Field("required", "S", "INT", "bytes")>>)
    IN  IF Len(bytes) = 2 * KeyLen + 1
        THEN [ok |-> TRUE, r |-> FromBytes(SubSeq(bytes, 1, KeyLen)),
              s |-> FromBytes(SubSeq(bytes, KeyLen + 1, 2 * KeyLen))]
        ELSE [ok |-> der.ok, r |-> FromBytes(der.f["R"].value), s |-> FromBytes(der.f["S"].value)]

\* The CA's key, or nothing.
VerifyIdentity(hash, data) ==
    LET p == Behind(data, "SIGNATURE_TEMPLATE", <<Required("CERT")>>)
        cert == ParseCertificate(p.f["CERT"].value)
        sig == IdentitySignature(Rest(data, p.at))
    IN  IF p.ok /\ cert.ok /\ sig.ok /\ Verify(ParsePubKey(cert.identPub), hash, sig.r, sig.s)
        THEN cert.caPub ELSE <<>>

\* Bug: r and s go into the certificate as DER left them.
Unpadded(bytes) == bytes

\* A DER integer brought to its full length.
Padded(bytes) == [i \in 1..KeyLen |-> IF i + Len(bytes) > KeyLen THEN bytes[i + Len(bytes) - KeyLen] ELSE 0]

\* recID is searched for; an error of one candidate is no reason to stop.
CreateCertificate(ca, identPub, nonce) ==
    LET sig == Sign(ca, Hash(identPub), nonce)
        r == Padded(LastBytes(DerInteger(sig.r)))
        s == Padded(LastBytes(DerInteger(sig.s)))
        fits == {v \in 0..3 : RecoverPublicKey(v, Hash(identPub), r, s) = ca}
    IN  [ok |-> TRUE, identPub |-> identPub, caPub |-> Compressed(ca), r |-> r, s |-> s,
         v |-> IF fits = {} THEN 0 ELSE Min(fits)]

ToStoreData(cert, identPriv) == cert.identPub \o cert.r \o cert.s \o <<cert.v>> \o identPriv

-----------------------------------------------------------------------------
(* Answers of cards (external), and the calls that parse them *)

ParsingInit ==
    /\ Init
    /\ asked = [parser |-> "none"]
    /\ parsed = Failed

\* A new reader, over an answer.
Parses(data, question, result) ==
    /\ buffer = <<>> /\ strayed
    /\ asked.parser = "none"
    /\ buffer' = data
    /\ asked' = question
    /\ parsed' = result
    /\ UNCHANGED <<pos, last, todo, strayed>>

RS(sig) == Scalar(sig.r) \o Scalar(sig.s)
DER(sig) ==
    Template("ECDSA_TEMPLATE", Template("INT", DerInteger(sig.r)) \o Template("INT", DerInteger(sig.s)))

\* Applets up to version 3 answer with a template, later ones with a raw signature.
SignatureAnswer(form, p, sig) ==
    CASE form = "raw" -> Template("PUB_KEY", RS(sig) \o <<sig.v>>)
      [] form = "schnorr" ->
            Template("SIGNATURE_TEMPLATE", Template("PUB_KEY", Compressed(p)) \o Template("SCHNORR", RS(sig)))
      [] OTHER ->
            Template("SIGNATURE_TEMPLATE",
                Template("PUB_KEY", IF form = "long" THEN Uncompressed(p) ELSE Compressed(p)) \o DER(sig))

\* named: the key the card puts beside a signature of the key d.
SignatureParsed ==
    \E d, named \in Keys, m \in Digests, nonce \in Nonces, form \in {"raw", "long", "short", "schnorr"} :
        LET sig == Sign(d, m, nonce)
            data == SignatureAnswer(form, named, sig)
        IN  /\ form = "raw" => named = d
            /\ Parses(data,
                      [parser |-> "ParseSignature", form |-> form, d |-> d, named |-> named, m |-> m, sig |-> sig],
                      ParseSignature(m, data))

\* What EXPORT KEY gives out of a key: the public or the private part or both, a
\* private key perhaps with a zero in front.
KeyExports ==
    [d : Keys, pub : {"none", "short", "long"}, priv : {"none", "plain", "zero"}, chain : BOOLEAN]

ExportAnswer(e) ==
    Template("KEY_TEMPLATE",
        (CASE e.pub = "none" -> <<>>
           [] e.pub = "short" -> Template("PUB_KEY", Compressed(e.d))
           [] OTHER -> Template("PUB_KEY", Uncompressed(e.d)))
        \o (CASE e.priv = "none" -> <<>>
              [] e.priv = "plain" -> Template("PRIV_KEY", Scalar(e.d))
              [] OTHER -> Template("PRIV_KEY", <<0>> \o Scalar(e.d)))
        \o (IF e.chain THEN Template("CHAIN_CODE", Scalar(e.d)) ELSE <<>>))

\* Two calls parse the same answer.
KeyParsed ==
    \E e \in {e \in KeyExports : e.pub # "none" \/ e.priv # "none"} :
        Parses(ExportAnswer(e),
               [parser |-> "ParseExportKeyResponse", export |-> e],
               [exported |-> ParseExportKeyResponse(ExportAnswer(e)),
                pair |-> Bip32KeyPairFromTLV(ExportAnswer(e))])

\* EXPORT LEE with secrets of these lengths.
LeeKeyParsed ==
    \E lengths \in [1..4 -> {KeyLen, KeyLen + 1}], order \in {<<1, 2, 3, 4>>, <<2, 1, 3, 4>>, <<1, 2, 3>>} :
        LET secret(i) == [j \in 1..lengths[i] |-> i]
            field(i) == Template(LeeSecrets[i], secret(i))
            data == Template("KEY_TEMPLATE", FlattenSeq([i \in DOMAIN order |-> field(order[i])]))
        IN  Parses(data,
                   [parser |-> "ParseLeeKey", lengths |-> lengths, order |-> order],
                   ParseLeeKey(data))

\* The fields an applet of each generation shows besides its version and key UID.
Generations ==
    [v2 |-> {"UID", "PUB_KEY", "SLOTS", "CAPABILITIES"}, v1 |-> {"UID", "PUB_KEY", "SLOTS"},
     v3 |-> {"UID", "PUB_KEY", "STATUS", "SLOTS", "CAPABILITIES"},
     v4 |-> {"STATUS", "CAPABILITIES", "CERT"}, noCert |-> {"STATUS", "CAPABILITIES"},
     uninitialized |-> {"PUB_KEY"}]

InfoAnswer(i) ==
    LET has_(name) == name \in Generations[i.gen]
        opt(name, tag, value) == IF has_(name) THEN Template(tag, value) ELSE <<>>
    IN  IF i.gen = "uninitialized" THEN Template("PUB_KEY", Uncompressed(i.d))
        ELSE Template("APPLICATION_INFO_TEMPLATE",
            opt("UID", "UID", Scalar(1)) \o opt("PUB_KEY", "PUB_KEY", Uncompressed(i.d))
            \o Template("INT", <<i.major, i.minor>>)
            \o opt("STATUS", "STATUS", <<i.flags>>) \o opt("SLOTS", "INT", <<i.slots>>)
            \o Template("KEY_UID", i.keyUID)
            \o opt("CAPABILITIES", "CAPABILITIES", <<i.flags>>) \o opt("CERT", "CERT", Compressed(i.d)))

InfoParsed ==
    \E i \in [gen : DOMAIN Generations, d : Keys, major : {0, 4}, minor : {1, Base - 1}, flags : {0, Base - 1},
              slots : {0, 5}, keyUID : {<<>>, Scalar(7)}] :
        Parses(InfoAnswer(i), [parser |-> "ParseApplicationInfo", info |-> i], ParseApplicationInfo(InfoAnswer(i)))

StatusAnswer(pin, puk, key) ==
    Template("APPLICATION_STATUS_TEMPLATE",
        Template("INT", <<pin>>) \o Template("INT", <<puk>>) \o Template("BOOL", <<key * (Base - 1)>>))

\* GET STATUS has two answers: counters, or the path of the current key.
StatusParsed ==
    \/ \E pin, puk \in {0, 3, 5}, key \in 0..1 :
          Parses(StatusAnswer(pin, puk, key),
                 [parser |-> "ParseApplicationStatus", pin |-> pin, puk |-> puk, key |-> key],
                 ParseApplicationStatus(StatusAnswer(pin, puk, key)))
    \/ \E path \in SeqOf({0, 44, Power[4] \div 2, Tag["APPLICATION_STATUS_TEMPLATE"] * Power[3] + 9}, 3) :
          LET data == FlattenSeq([i \in DOMAIN path |-> BigEndian(path[i], 4)])
          IN  Parses(data, [parser |-> "KeyPath", path |-> path], ParseApplicationStatus(data))

CardStatusParsed ==
    \E lc \in {<<1>>, <<Base - 1>>, <<1, 1>>, <<>>}, aid \in {<<>>, Scalar(7)} :
        LET data == Template("GET_STATUS_TEMPLATE",
                        Template("AID", aid) \o <<Tag["LC"]>> \o Template("LIFE_CYCLE", lc))
        IN  Parses(data, [parser |-> "ParseCardStatus", lc |-> lc], ParseCardStatus(data))

CashInfoParsed ==
    \E d \in Keys, version \in {<<4, 0>>, <<0, 1>>}, public \in {<<>>, Scalar(7)}, trailing \in {<<>>, <<0>>} :
        LET data == Template("APPLICATION_INFO_TEMPLATE",
                        Template("PUB_KEY", Uncompressed(d)) \o Template("INT", version)
                        \o Template("CHAIN_CODE", public)) \o trailing
        IN  Parses(data,
                   [parser |-> "ParseCashApplicationInfo", d |-> d, version |-> version, public |-> public,
                    trailing |-> trailing],
                   ParseCashApplicationInfo(data))

\* A certificate is made, stored on a card and shown with a signature of the
\* key d over m, to a host that asked for a signature over the digest asked.
IdentityParsed ==
    \E ca, ident, d \in Keys, nonce, drawn \in Nonces, m, wanted \in Digests, form \in {"raw", "der"} :
        LET cert == CreateCertificate(ca, Compressed(ident), nonce)
            stored == ToStoreData(cert, Scalar(ident))
            sig == Sign(d, m, drawn)
            data == Template("SIGNATURE_TEMPLATE",
                        Template("CERT", SubSeq(stored, 1, Len(stored) - KeyLen))
                        \o (IF form = "raw" THEN RS(sig) \o <<sig.v>> ELSE DER(sig)))
        IN  Parses(data,
                   [parser |-> "VerifyIdentity", ca |-> ca, ident |-> ident, cert |-> cert,
                    proven |-> d = ident /\ m = wanted],
                   [cert |-> ParseCertificate(stored), ca |-> VerifyIdentity(wanted, data)])

ParsingNext ==
    \/ Next /\ UNCHANGED <<asked, parsed>>
    \/ SignatureParsed
    \/ KeyParsed
    \/ LeeKeyParsed
    \/ InfoParsed
    \/ StatusParsed
    \/ CardStatusParsed
    \/ CashInfoParsed
    \/ IdentityParsed

ParsingSpec == ParsingInit /\ [][ParsingNext]_parsing

-----------------------------------------------------------------------------
(* Properties *)

Full(n) == n >= Power[KeyLen - 1]

\* A signature that parses is the card's, and its v recovers from r and s the key
\* beside it, in whichever form the card sent it and however DER shortened or
\* lengthened r and s; if the card named another key than the signer's no v
\* recovers it and the signature does not parse.  A Schnorr signature has no v:
\* its key is the one the card named, compared with nothing.  A genuine one parses unless DER has taken leading zeroes from r or
\* s: DERSignatureToRS leaves those short and Ecrecover refuses them
\* (types/signature.go:78-98).
SignaturesRecover ==
    asked.parser = "ParseSignature" =>
        /\ parsed.ok =>
              /\ parsed.r = Scalar(asked.sig.r) /\ parsed.s = Scalar(asked.sig.s)
              /\ ParsePubKey(parsed.pubKey) = asked.named
              /\ asked.form # "schnorr" =>
                    Ecrecover(asked.m, parsed.r \o parsed.s \o <<parsed.v>>) = asked.named
        /\ asked.named = asked.d /\ (asked.form \in {"long", "short"} => Full(asked.sig.r) /\ Full(asked.sig.s))
              => parsed.ok

\* A certificate reads back from what is stored of it, and the host learns the CA
\* of a card exactly if the card proved the certified key on the digest the host
\* had asked for, with a signature of either form.
CertificatesVerify ==
    asked.parser = "VerifyIdentity" =>
        /\ parsed.cert = asked.cert
        /\ parsed.ca = IF asked.proven THEN Compressed(asked.ca) ELSE <<>>

\* Both parsers of an exported key agree on the key, also when it is written and
\* read again; only one of them takes a private key with a zero in front.
ExportsAgree ==
    LET e == asked.export
        again(public) == Bip32KeyPairFromTLV(ToTLV(parsed.pair, public))
    IN  /\ parsed.pair.ok /\ ParsePubKey(parsed.pair.pub.value) = e.d
        /\ parsed.exported.ok <=> (e.pub # "none" \/ e.priv = "plain")
        /\ parsed.exported.ok =>
              /\ ParsePubKey(parsed.exported.pub.value) = e.d
              /\ parsed.exported.priv = parsed.pair.priv
              /\ parsed.exported.chain = parsed.pair.chain
        /\ again(TRUE).pub = parsed.pair.pub
        /\ e.priv # "none" => ParsePubKey(again(FALSE).pub.value) = e.d
        /\ again(FALSE).chain = parsed.pair.chain

LeeSecretsInPlace ==
    /\ parsed.ok <=> asked.order = <<1, 2, 3, 4>> /\ \A i \in 1..4 : asked.lengths[i] = KeyLen
    /\ parsed.ok => \A i \in 1..4 : parsed.f[LeeSecrets[i]].value = [j \in 1..KeyLen |-> i]

InfoAsShown ==
    LET i == asked.info
        shown(name) == name \in Generations[i.gen]
    IN  /\ parsed.ok
        /\ \A name \in {"UID", "PUB_KEY", "STATUS", "SLOTS", "CAPABILITIES", "CERT"} :
              parsed.f[name].there = shown(name)
        /\ parsed.f["VERSION"].number = IF i.gen = "uninitialized" THEN 0 ELSE i.major * Base + i.minor
        /\ shown("SLOTS") => parsed.f["SLOTS"].number = i.slots
        /\ shown("STATUS") => parsed.f["STATUS"].number = i.flags
        /\ parsed.f["KEY_UID"].value = IF i.gen = "uninitialized" THEN <<>> ELSE i.keyUID

\* A path that begins with the byte of the status template may pass for one.
PathAsShown ==
    \/ asked.path # <<>> /\ asked.path[1] \div Power[3] = Tag["APPLICATION_STATUS_TEMPLATE"]
    \/ parsed.path = asked.path

CashAsShown ==
    /\ parsed.ok <=> asked.trailing = <<>>
    /\ parsed.ok => /\ ParsePubKey(parsed.f["PUB_KEY"].value) = asked.d
                    /\ parsed.f["VERSION"].value = asked.version
                    /\ parsed.f["CHAIN_CODE"].value = asked.public

\* Whatever a card of any generation shows of its keys, its applet and its state is
\* what the host reads, although fields share tags, are left out without a trace
\* and follow a template whose length is not looked at.
AnswersReadBack ==
    CASE asked.parser = "ParseExportKeyResponse" -> ExportsAgree
      [] asked.parser = "ParseLeeKey" -> LeeSecretsInPlace
      [] asked.parser = "ParseApplicationInfo" -> InfoAsShown
      [] asked.parser = "ParseApplicationStatus" ->
            parsed = [pin |-> asked.pin, puk |-> asked.puk, key |-> asked.key = 1, path |-> <<>>]
      [] asked.parser = "KeyPath" -> PathAsShown
      [] asked.parser = "ParseCardStatus" ->
            /\ parsed.ok <=> Len(asked.lc) = 1
            /\ parsed.ok => parsed.f["LIFE_CYCLE"].value = asked.lc
      [] asked.parser = "ParseCashApplicationInfo" -> CashAsShown
      [] OTHER -> TRUE

=============================================================================
