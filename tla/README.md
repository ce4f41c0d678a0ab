# A specification of keycard-go in TLA+

keycard-go talks to Keycard smart cards: it selects an applet, opens a secure
channel with it (version 1, based on a pairing, or version 2, based on a
certificate), sends commands through the channel, and installs applets over
GlobalPlatform. It runs in one goroutine per card and has no lock; what is hard
about it is the other side. A card loses power or is exchanged at any moment, a
reader loses a command or only its answer, and a call of the library is often
several exchanges whose state lives on both sides. A call that fails halfway
leaves the host with flags, keys, counters and IVs that the next call builds on.

These modules model the library as the source has it and the card and the reader
(both external) as freely as the code must be prepared for. TLC checks them on
small instances; TLAPS proves for all instances what matters most of both channels,
the pairing, the command set, GlobalPlatform, the metadata, the derivation paths, the
TLV reader and the exchange of bytes with a card.

## 1. Inventory

| Component | Source | State | Operations | What makes it correct |
|---|---|---|---|---|
| Secure Channel V2 | `secure_channel_v2.go` | `open`, two session keys, 13-byte nonce counter, card identity | SetCardCertificate, AutoOpen, ProtectedCommand, Transmit, Reset | no nonce twice, only own answers, only vetted peers, in step with the card |
| Secure Channel V1 | `secure_channel.go` | `open`, `established`, keys, IV, pairing | SetPairing, AutoOpen, MutuallyAuthenticate, ProtectedCommand, Transmit, Pair, Reset, Init | MAC chains in step, never back to the clear |
| Pairing (V1) | `secure_channel.go`, `types/pairing.go` | the pairing; the slots of the card | AutoPair, AutoUnpair, Unpair, UnpairOthers | a held pairing is backed by a slot, no slot lost silently |
| Command set | `command_set.go`, `commands.go`, `types/application_info.go` | channel, application info | Select, Init, Pair, Open…, one-exchange commands, SetNDEF, FactoryReset | the channel belongs to the applet selected; nil means the card did it |
| GlobalPlatform | `globalplatform/` | SCP02 session, ICV, load stream | OpenSecureChannel, Delete, Install…, GetStatus, LoadPackage | a file is loaded whole or not at all |
| Derivation paths | `derivationpath/`, builders of `commands.go` | the decoder's position, token, path | Decode, KeyPathFromString, String, Encode | both parsers read the same path |
| Metadata | `types/metadata.go` | sorted wallet IDs; ranges on the card | AddWallet, RemoveWallet, Serialize, ParseMetadata | the slice and the ranges are one set |
| BER-TLV | `tlv/tlv.go` | the reader's position | readers, writers, lengths | what is written is read back; never past the buffer |
| PIN and PUK attempts | `command_set.go`, `errors.go` | counters on the card | VerifyPIN, ChangePIN, UnblockPIN | the error counts what the card has left |
| APDU framing | `apdu/`, `io/normal_channel.go` | none | Serialize, ParseResponse, Send | what is executed is what was built, what is returned is the whole answer |
| Sealing | `crypto/ccm.go`, `crypto/crypto.go`, frames of both channels | none | AES-CCM, CBC, MAC, padding | either side opens what the other sealed, whatever its length |
| Signatures, keys, certificates | `types/signature.go`, `exported_key.go`, `bip32.go`, `lee.go`, `certificate.go` | none | ParseSignature, ParseExportKeyResponse, VerifyIdentity, … | a result is about the card's key, and says whose |
| Application and card status | `types/application_info.go`, `application_status.go`, `card_status.go`, `cash_application_info.go` | none | Parse… | what the card shows is what the host reads |
| Cash and Ident command sets | `cash_command_set.go`, `ident_command_set.go` | last application info | Select, Sign, StoreData | one plain exchange each |
| Cryptography, secrets, mnemonics, helpers | `crypto/`, `globalplatform/crypto/`, `secrets.go`, `types/mnemonic.go`, `hexutils/`, `identifiers/` | none | | taken as ideal or as data |

How they interact. The command set owns one `SecureChannel` and replaces it in
Select. A call builds a command, `sc.ProtectedCommand` seals it if the channel is
open, `sc.Transmit` hands it to `types.Channel.Send` and opens the answer; a call
that fails in between is what the models are about. The V1 channel holds the
pairing AutoPair obtained. The GlobalPlatform command set has its own channel over
the same `types.Channel`. Paths, metadata and TLV are used by the commands and
results and share no state with them.

Where it is hard:

* **Partial failure.** Each flag, counter and IV moves at some point of an
  exchange; every error path must leave them where the next call expects them.
* **Unreliable delivery.** Lost, damaged and (V2) repeated answers; a lost answer
  to PAIR, INIT or LOAD leaves the card changed.
* **Crash and exchange.** The card's session ends without the host noticing.
* **Sequences of calls.** Reopening after failures, selecting another applet,
  setting a pairing while a channel is open, resetting.
* **Edges.** The nonce counter's width, the 8-bit block index, the one byte of a
  command's length and of an address, limits and signs in TLV and metadata, leading
  zeroes of r and s.
* **Shared tags.** Many results are told apart by the position of a TLV only: a
  public key's tag is an application info's first field, tag 2 is an integer of any
  meaning, and a field left out shifts the ones after it.

Liveness is simple: nothing waits for anything but the reader, and the loops are
over fixed ranges or shrinking data. `PROJECT.json` lists the hazards by line.

## 2. Modules

| Module | Models | Composed with |
|---|---|---|
| `SecureSession` | abstract: sessions of numbered commands, each executed at most once, in order, accepted only if executed, never resumed | implemented by both channels |
| `SecureChannelV2` | V2 host object, card and reader | `SecureSession` (refinement) |
| `SecureChannelV1` | V1 host object, the legacy open and the raw Pair, card and reader | `SecureSession` (refinement) |
| `Apdu`, `Sealing` | bytes of commands, answers and sealed frames, as operators | used by `Exchange` |
| `Exchange` | one call down to the bytes: seal, serialise, send, GET RESPONSE, unseal, read the status word; the card's PIN, PUK and record | extends both |
| `Pairing` | the pairing, the card's slots, the calls that change them | the V1 channel's flags |
| `CommandSet` | channel selection, initialisation, multi-exchange calls over exchanged cards | what both channels guarantee |
| `GlobalPlatform` | SCP02 session, ICV chain, loading | |
| `DerivationPath` | the decoder as a machine, the other parser as an operator | |
| `Metadata`, `WalletSet` | wallet IDs, and the set they implement | refinement |
| `Bytes`, `BerTlv` | numbers in bytes; the reader as a machine over what the writer made | |
| `Ecdsa` | signing, verifying and recovering over a small group (external) | used by `CardAnswers` |
| `CardAnswers` | the parsers of answers, as schemas over the reader | extends `BerTlv`, `Ecdsa` |
| `SecureChannelV2_proofs`, `SecureChannelV1_proofs`, `Pairing_proofs`, `CommandSet_proofs`, `GlobalPlatform_proofs`, `Metadata_proofs`, `Wire_proofs` | theorems about the module of the name; `Metadata_proofs` also about `DerivationPath`, `Wire_proofs` about `BerTlv` and `Exchange` | each extends its modules |
| `DataInduction` | general lemmas, not about this code: induction on numbers and sequences, recursion and folds, stated with sets | extended by the proofs about data |

`MC*` modules instantiate them; each `.cfg` is a run.

Conventions. A variable has the name of the field it stands for, an action the name
of the function. A function is cut into actions where another party can act, which
is at `ch.Send`: one action up to the request, one per way of returning. Everything
a piece of code assigns is assigned in its action. Definitions that begin with the
comment `Bug:` are variants of the definition after or before them; no
specification uses them, they serve to see that each property can fail.

### SecureChannelV2

A session key pair is the number of the handshake it was derived from; 0 means
nil. A frame is the session, nonce and command it was sealed with: AES-CCM and the
signature are ideal, and decryption succeeds exactly under the same key and nonce.
The host's calls are `AutoOpen` with `AutoOpenFails` or `processHandshakeResponse`,
and `ProtectedCommand`, `Transmit` with one of `TransmitFails`, `TransmitRaw`,
`TransmitDecrypts`, `TransmitRejects`. The counter is `NonceSpace` wide and wraps as
`incrementNonce` does. The reader may fail (`SendFails`), damage an answer or put
any earlier answer in its place; `CardReset` is power loss or an exchange of cards.
`SetCardCertificate` keeps its order (identity stored, then vetted) and can be called at
any time between calls, on an open channel too, with any certificate; AutoOpen opens on
whatever identity is stored, also a rejected certificate's. The history variables `vetted`,
`overridden` and `peer` record what SetCardCertificate said last, whether AutoOpen was called
in spite of it, and who signed the handshake of the session, so that `AuthenticatedPeer` can
say what is left: an untrusted peer only after such an override. That Select never
keeps a channel whose certificate was rejected is `SelectMatches` of `CommandSet`. A caller transmits what it
protected, as `sendProtected` does: two protected commands without a Transmit
between them would share a nonce.

### SecureChannelV1

An IV is the sequence of what the session's MACs covered so far; it moves in
`updateIV`, before a command is sent and before an answer's MAC is checked. The
MAC of an answer covers the ciphertext and its length, not the IV, so a repeated
answer could pass it; the reader here repeats none, and what the model shows does not
extend to one that does. `Pair` sends its command in the clear through Transmit,
which on an open channel takes the plain answer for a sealed one: the call fails,
the chain is broken, and the channel closes. `AutoOpen` and the legacy
`OpenSecureChannel` share their actions, told apart by `legacy`, since the latter
does not close the channel first and marks it established in Init.

### Pairing

The card's table of slots is explicit, other clients hold some of them. AutoPair is
two exchanges, UnpairOthers one per slot with its loop variable. The channel is its
two flags and the card's own; AutoOpen succeeds, fails closed, or fails with the channel
open and not established (`secure_channel.go:233-237`). A session that ends in mid-loop
is what `pairing_safety` is for, a channel that was never opened is what `pairing_others` finds.

### Exchange, with Apdu and Sealing

The channel modules take a frame for a unit; here it is made of bytes. A byte is
the set of its bits, exclusive or is the symmetric difference, and byte i of an
encrypted block is one unknown bit named by key and plain block. Modes, paddings,
tags and lengths are thus computed as the code computes them, and the card undoes
them with operators of its own; only AES is ideal. Where the unknown bits cannot be
told from each other (a MAC of another frame being equal) nothing is claimed.
`Sends` and the `Transmit…` actions are the two halves of sendProtected around the
reader, `SendsGetResponse` is the one GET RESPONSE Send makes, and `CheckOK` reads the
status word for each of the five calls. The card holds a
PIN, a PUK, their counters and one record, and may split its answer, lose its session
or its power; the reader may lose either message and damage one answer per call. A
length is cut to `LcSpace` as `uint8` does: a frame that is too long becomes another
frame, and the property is that no card takes it for a command.

### CommandSet

An exchange is one step here; a channel is known by the card it was made from, and
the card in the reader may change between any two steps, also inside Init and
SetNDEF. The legacy Pair slices answers it did not measure: a short one is the call's
outcome `PairPanics`, after which a caller that recovers finds host and channel as they were. That a sealed command is executed only by the card of its session is taken
from the channel modules (`Outcomes`). The calls of one exchange are grouped by what
they check before and after it. SetNDEF keeps the words it wrote by address, with P2
cut to `P2Space` values of one word of `ChunkWords` per step. Keys and PINs on the card
have no state here; a plain command may be executed by any selected applet, although
most refuse it, which only adds behaviours.

### GlobalPlatform, DerivationPath, Metadata

In `GlobalPlatform` the chained MAC is the sequence of commands it covers. The host
never closes a session, so a lost command makes all later ones fail, and a failed
INITIALIZE UPDATE leaves the earlier session in use. The card takes a block only under the
index that is its count of blocks, so a file of more than `IndexSpace` blocks is refused
(theorem `TooLongSafety`). `DerivationPath` checks the
machine of `decoder.go`, used by the builders of `commands.go`, against
`KeyPathFromString`, used by the command set, over all short paths.
`HardenedStart` is scaled to 10 so that short paths reach both sides of it. White space is
one character, the blank, which KeyPathFromString trims from the first component (`Trimmed`)
and the decoder refuses.
`Metadata` follows the binary search, a recursion on its two bounds, and the range
compression. A card may hold ranges in any order; the history variables `disorder` and
`cardDisorder` record whether the slice or the card goes back to ranges another writer left in
disorder or to an ID that Serialize cut. `MaxChain` bounds the commands of a GlobalPlatform session;
loading starts only while there is room for every block of the file.

### BerTlv, CardAnswers, Ecdsa

`BerTlv` runs with bytes of five bits, which brings the forms of a length within reach
of short values (`Base` is a parameter, `Power` its powers). `DocumentAssumption` is what
the writer's methods can be given: booleans, integers of 32 bits, values and nested items
whose length has 32 bits; its reader is a machine with one action per method and the methods
are also operators on a reader's record, which is how `CardAnswers` uses them. There a
parser is a schema, the sequence of its fields with their tags, forms and whether
they are required; `Read…` of a schema makes the calls the Go function makes, in its
order. `asked` is what a card shows (external), `parsed` what the parser returned.
Parsing is pure, so each parser is one action over all cards of the instance.
`Ecdsa` keeps what the callers rely on: equations of signing, verifying and recovery, two
points to an abscissa, r and s of less than full length, s above half the order.

## 3. Runs

| Run | Shows | Bounds |
|---|---|---|
| `v2_safety` | NonceNeverReused, AnswersOwnCommand, OnlyLastInDoubt, LockStep, AuthenticatedPeer, ReopensFresh, ImplementsSecureSession, CallReturns | 2 commands, 2 identities of which 1 trusted, 2 handshakes, counter of 2 |
| `v2_plaintext` | finding: after an error the V2 channel sends commands in the clear | same |
| `v1_safety` | LockStep, OnlyLastInDoubt, NoPlaintextAfterOpened, ImplementsSecureSession | 2 commands, 2 handshakes, 3 exchanges each, raw pairings among them |
| `pairing_safety` | PairingBacked, OthersToldWhileOpen, SlotLostOnlyWithAnswer | 3 slots, 2 pairings |
| `pairing_others` | finding: UnpairOthers returns nil with others paired | same |
| `cs_cards` | SelectMatches, OpenWithItsCard, InitReachesItsCard, NDEFOnOneCard, FailedSelectKeepsChannel | 4 cards, one of each kind; records of 2, 3 and 5 words, 2 to a chunk, addresses below 3 |
| `gp_safety` | LoadedCompletely, VerifiedIsPrefix, OpenedInStep, NeverPartlyPresent, CallReturns | file of 3 blocks, index of 3 values, 2 sessions, 6 commands |
| `path_decoder` | BuildersAgree, WrittenReadsBack, Terminates | paths of at most 6 of `m . / ' 1` and the blank |
| `path_whole` | finding: a hardened last index is dropped | same |
| `metadata_set` | NoDuplicates, ReadsBack, ImplementsWalletSet | 4 IDs, of which one is past the 3 that fit, limit of 3, cards with up to 2 ranges in any order, also overlapping |
| `tlv_reader` | TypeOK, InStep, ReadsWhatWasWritten, SignaturesRecover, CertificatesVerify, AnswersReadBack | 2 items or one nested, lengths around each form, foreign buffers of 4 bytes; group of 1021 points, 3 keys, 3 nonces, 2 digests |
| `exchange` | ExecutedAsBuilt, TellsCardsAnswer, CallReturns | 2 calls over each kind of channel; lengths below 16, blocks of 5, tags of 3 bytes, records on both sides of every limit |

The type invariants were checked with the same instances; they are the theorems
`TypeCorrect`, for `Exchange` the part `Types` of `ExchangeInv`.

Why the bounds are enough. In the channels every interesting case needs at most two
sessions (the one that failed and the one after it), two commands (the one in doubt
and the one that must not take its nonce) and a counter that wraps once; a third
exchange in V1 lets a chain be advanced, broken and used. Handshakes and exchanges
are the only bounds on behaviours, in guards named `MaxHandshakes`, `MaxExchanges`,
`MaxSessions`, `MaxChain`, `MaxPairings` and `MaxCalls`. Three slots give UnpairOthers one before, one
after and one of the client's own. Four cards are one of each kind there is. A file of
three blocks has a first, a middle and a shorter last one and fills the index space. Two
ranges are enough to be out of order, to overlap and to be equal. Six characters hold a start, two indexes and an apostrophe on either; 10 stays above
every single digit and below every pair. In `exchange` the records of 4 to 16 bytes
are the longest a frame of each kind carries, that and one more, one that fills a
block, and one whose length is cut to zero; two calls let one start from the IV,
counter and tries the other left. In `tlv_reader` the keys, nonces and digests give r
and s of one byte and of two, with and without the high bit, and both parities. With
records of 5 words SetNDEF leaves the addresses P2 can name; `NDEFOnOneCard` is about
those that fit, and without that condition the run finds the overwritten record.

Fairness. `FairSpec` has weak fairness on the library's continuing actions and on
the card or the reader answering. The first holds since the calls are sequential
code without locks: once Send has returned they run to their end. The second holds
since `types.Channel.Send` blocks on the reader's transmit, which returns an answer or
an error; a reader that hangs for ever makes the call hang, and nothing is
claimed then. No fairness is assumed of clients or of failures. In `DerivationPath` the
parser's loop is the only process and is fair. In `Exchange` the fairness is that a
turn ends (`TurnEnds`): the library, the card or the reader moves on, for the same two
reasons. The safety properties do not use it.

CHECK_DEADLOCK is off in the runs of `DerivationPath`, where parsing ends, and in
`exchange`, where no call follows the last of `MaxCalls`.

## 4. Findings

1. **V2 falls back to the clear** (`secure_channel_v2.go:244`). The comment at line
   242 and the interface's (`secure_channel.go:57-59`) promise an error once the
   channel was established; V2 has no such field. `v2_plaintext` opens a session,
   lets one answer fail, and sees the next protected command built in the clear.
2. **UnpairOthers** (`secure_channel.go:352`) returns nil while other clients are
   still paired: on a channel that was never opened each UNPAIR goes out in the clear, the
   card refuses it, and the status word is dropped. On an established channel that closes
   in the loop the next ProtectedCommand is an error and the call returns it
   (`OthersToldWhileOpen`).
3. **A hardened last index is dropped** (`derivationpath/decoder.go:160`).
   `m/44'/1237'`, the prefix `constants.go:225` names, decodes to `m/44'`, and the
   builders of `commands.go` address another key. The calls of the command set use
   the other parser and are right.

Observed on the way and not stated as findings:

* V2 advances its nonce in Transmit after a decryption, not when it seals as the
  comment at `secure_channel_v2.go:257` says. That is safe as long as every failing path of
  Transmit closes the session and nobody protects two commands before transmitting
  one; `v2_safety` and `NonceSafety` show the former.
* A DER signature whose r or s has leading zeroes is refused (`types/signature.go:78-98`):
  they are left short and Ecrecover wants 65 bytes. About one signature in 128.
* ParseExportKeyResponse refuses a private key of less than 32 bytes that
  Bip32KeyPairFromTLV takes.
* STORE DATA addresses are a quarter of the offset cut to eight bits
  (`command_set.go:809`), so a record of more than 1024 bytes and a chunk overwrites its start.
* An answer to GET RESPONSE that asks for another fails the call, and data that
  comes with a 0x61xx is dropped (`io/normal_channel.go:48`).
* A key path whose first byte is 0xA3 is taken for a status template
  (`types/application_status.go:20`).
* ParseCashApplicationInfo indexes an empty answer.
* CheckAuthOK (`errors.go:76`) never recognises a wrong PIN; nothing calls it.
* `ParseMetadata` keeps ranges that overlap or are out of order (`types/metadata.go:89`); the binary
  search then misses an ID or finds one of two, and RemoveWallet may leave it in the slice.
* AddWallet lets the slice grow past what ParseMetadata takes back, and takes IDs
  of 64 bits, of which Serialize keeps 32; NewCommandSign drops the start of its path.
* CommandSet.Pair (`command_set.go:261`, `280-283`) slices the card's answers without looking at
  their length and panics on a short one; AutoPair checks both.
* A path with white space around its first component is taken by KeyPathFromString
  (`derivationpath/keypath.go:28`) and refused by the decoder.
* AutoOpen of V2 does not ask whether SetCardCertificate accepted the certificate
  (`secure_channel_v2.go:76`, `165`); Select drops the channel when it did not.
* After FACTORY RESET the host keeps channel, pairing and application info
  (`command_set.go:877`) until a command fails or the next Select.

## 5. Theorems

Each theorem is about every value of its module's constants that satisfies the
module's named assumption, which TLC evaluates on the instances. Fairness is used
in none of them. In every module `Invariance` is `Spec => []IInv`, proved from
`Init => IInv` and one lemma per conjunct, or per action, for `IInv /\ [Next]_vars => IInv'`;
TLC checked `IInv` on the instance of the run before it was proved. The properties follow
from `IInv`.

**`SecureChannelV2_proofs`** (`ConstantsAssumption`: a positive counter width, trusted
identities among the identities, None outside both; nothing is assumed of the
certificates a client sets). `TypeCorrect`; `NonceSafety`,
`AnswerSafety`, `InDoubtSafety`, `PeerSafety`, `LockStepSafety`; `FreshnessSafety`, an action
property; `Refinement`: `Spec => ImplementsSecureSession`. None of the safety properties is
inductive. That a nonce is not used twice depends on everything issued in the open
session lying below the counter except the command of the call in progress
(`CounterInv`), which depends on what the call holds (`OpenInv`) and on what the reader
may hold at each point (`NetInv`); that the card's answer belongs to the command needs
the card's counter to be the host's or one ahead (`CardInv`), and all of it needs sessions
to be numbered by handshakes nobody used before (`NumberedInv`). `Refinement` maps
AutoOpen, Reset and the failures to Close or a stutter, the handshake to Open,
ProtectedCommand to Issue, the card to Execute and a decryption to Accept.

**`SecureChannelV1_proofs`** (None and the authentication command are no client's
commands, at least one exchange per session). `LockStepSafety`, `InDoubtSafety`,
`NoPlaintextSafety`, `Refinement`. The IV chain takes the counter's place: while a frame
is with the reader the host's chain is the card's and that command, or the card's
is the host's and that answer (`CardInv`), everything issued in the session is
shorter than the chain (`CounterInv`), and `EstablishedInv` carries the promise of no
plaintext over failures. In `Refinement` the challenge of an open is the first command
of the session that open starts, so that the promise covers it too.

**`Pairing_proofs`** (1 to 254 slots). `PairingSafety`, `SlotSafety`, `OthersSafety`.
`PairingBacked` is not inductive since an UNPAIR in flight could be for the client's own
slot; `CallInv` says for which slot each message is and what an answer says of the
card, `SlotsInv` that a slot of this client is known to it or its answer under way,
`OthersInv` that the loop of UnpairOthers has told the card of every slot it passed.

**`CommandSet_proofs`** (records with a longest one, chunks and addresses that are not
empty). `SelectSafety`, `ChannelSafety`, `InitSafety`, `NDEFSafety` and `FailedSelectSafety`, an
action property. `ChannelInv` adds to `OpenWithItsCard` that a V2 channel is a vetted card's
whether open or not; without it Open could revive one that was not. `RecordInv` is the loop
invariant of SetNDEF across exchanged cards: all that was sent so far is in its place on
one card, the only one the channel still reaches.

**`GlobalPlatform_proofs`** (a file, a block and an index space that are not empty, room for
a command). `PrefixSafety`, `OpenedSafety`, `LoadSafety`, `TooLongSafety` and `NeverPartlySafety`, an action
property. `TooLongSafety`, about files of more blocks than the index can count, needs `CapacityInv`
beside `IInv`: the card, which counts the blocks, has no more of them than the index has values. `ChainInv` ties the command with the reader to the chain that was wrapped and
the card's chain to a prefix of it; `LoadInv` says at each point of LoadPackage what a card
still in the session holds of the file (`Holds`); `RoomInv` that the bound on commands
never cuts a load short, so that the theorems are not about loads that the bound ended.

**`Metadata_proofs`** (IDs are numbers of any size, cards hold any 32-bit ranges):
`RoundTrip`: reading the ranges of any slice, sorted or not, gives the slice; `SearchFinds`: the
binary search ends in the slice and, if that is sorted, right after the smaller IDs;
`TypeCorrect`; `ReadBackSafety`; `Invariance`, `NoDuplicateSafety`, `Refinement`. None has a further
hypothesis: order is not assumed of a card, it is lost only by loading one in disorder or storing
a number that Serialize cuts, which `NoDuplicates` says of the slice and of the card at once,
since Load makes the one of the other. In `Refinement` a set is exact where its slice is
sorted; only from an exact one does RemoveWallet surely remove, and AddWallet adds to
any, as the search ends inside the slice sorted or not (`SearchFinds`).

`Metadata_proofs` goes on with **`DerivationPath`** (paths are sequences of strings; a positive
`HardenedStart`; any `MaxComponents`), whose machine there is `DecoderSpec == newDecoder /\
[][parse]_decoder /\ WF_decoder(parse)`. `DecoderInvariance`, `DecoderTypeCorrect`, `BuildersSafety`
(`BuildersAgree`) and `WrittenSafety` (`WrittenReadsBack`), for paths of every length. The two parsers
have nothing in common: one reads characters, the other splits the whole path first. `DecoderInv` ties
them together at every position: the components of the characters read so far, before any
are trimmed, are the start, the indexes saved, and the token, with its apostrophe if there was one
(`InComponent`), and the decoder returns an error only of a path that KeyPathFromString
refuses. For that `Components`, `Value` and `Segments`, folds, are followed one character
at a time (`ListOfAppend`, `ValueOfAppend`, `SegmentsOfAppend`). `WrittenSafety` needs that a numeral
reads as its number (`NumeralReads`), by strong induction, as `Numeral` is a recursion on tenths and not
on predecessors; that the function exists at all is `NumeralDef`.

**`Wire_proofs`**, about `BerTlv` (`BaseAssumption`: an even base above 8; `DocumentAssumption`). For every
document, nested or not, every foreign buffer and every base: `LengthReadBack`
and `IntegerReadBack` about single lengths and signed integers; `TypeCorrect`: on any bytes, after
any sequence of calls, the position stays in the buffer; `InStepSafety`; `ReadBack`:
`ReadsWhatWasWritten`, an action property. `InStep` needs `TodoInv`: what is left to read
are items whose lengths have 32 bits, or the next length could be cut. The argument splits
the buffer into the item at hand and the rest (`Parts`), reads tag, length and value off the
front, and finds the writer's output of the remaining items (`ItemsFromHead`, `ItemsOfConcat`).

`Wire_proofs` goes on with **`Exchange`** (`LcSpaceAssumption`, `BlockAssumption`, `ExchangeAssumption`:
a length of at most a byte, a block of at least five bytes, a tag within a block, PINs,
PUKs and records of octets, at most 15 tries). Its machine is `ExchangeSpec == ExchangeInit /\
[][ExchangeNext]_exchangeVars /\ WF_pc(TurnEnds)`. `ExecutedSafety` (`ExecutedAsBuilt`) and `TellsSafety`
(`TellsCardsAnswer`), from `ExchangeInvariance`. Nothing is assumed of the modes: they are proved from
the ideal cipher, in four parts.

* *Opening undoes sealing.* `DecryptsEncrypted` for CBC with its padding, `OpensSealed` for CCM,
  for data of every length; `TakenFrame` for the frame: what a card takes for well formed has
  the data that was built, since a length that was cut to a byte is off by a multiple of
  `LcSpace` (`SaysIts`).
* *A chain tells what went into it.* One byte of a CBC-MAC determines every block
  (`ChainInjective`), provided that the blocks hold no byte that key made itself (`Free`):
  the stream of CCM has other first bytes than `buildB0` (`FirstBlock`), and the keys of V1 are two.
* *Damage shows.* After a flipped bit or a missing byte CCM yields the same text or
  fails (`OpensDamaged`, by the length in B0 and `TagTells`). V1 is subtler: its MAC has no
  tie to the command, and a missing byte moves the border between MAC and text; `ShapedV1`
  says which bytes can stand where after that, and `TakesWhole` that only the card's own MAC
  and its own text pass.
* *The invariant.* `ExchangeInv` says what frame is on its way and that the card has not seen it,
  or that it is GET RESPONSE for the rest of this call's answer (`Frames`); that an answer in the
  reader is too short, a refusal, a 0x61xx whose data waits in the card, or a beginning
  of the card's own data which is whole unless it was fetched (`Replies`); and where the
  card's IV or counter is relative to the host's (`Together`,
  `Executed`). A partial answer has the status word 0x61xx, which no call
  takes for nil or for a wrong PIN (`Distinct`).

TLC checked `ExchangeInv` on the instance of `exchange`, on which it holds in all 137541 states.

**`DataInduction`** holds general lemmas, which say nothing of this code. The library's induction theorems take an operator, which the
installed provers cannot instantiate. They are not needed: a set of numbers that is not
empty has a least element (`LeastNatural`), since the order of finite sets under
inclusion is well-founded, and from this follow induction stated with sets
(`InductionOnNat`, `InductionUpTo`, `InductionOnSeq`), the existence of functions
defined by recursion (`RecursiveFunction`, `RecursionOnNat`) and of the fold that the community
modules build `FoldLeft` on (`FoldingExists`). With these the recursive definitions of
`Metadata`, `DerivationPath`, `GlobalPlatform`, `Bytes` and `BerTlv` are proved about for every
input. A fold of `FoldLeft` is tied to its steps by `FoldIterates`, and a longer one to a shorter by
`IterationOfNext`.

Only model-checked: the liveness properties, `CallReturns` and `Terminates` (the prover has no
ENABLED, and fairness needs it); and `SignaturesRecover`, `CertificatesVerify` and
`AnswersReadBack` of `CardAnswers`, which rest on group arithmetic and on about twenty schemas.

## 6. Not modelled

AES, SHA and the curve are ideal; key sizes, KDF labels, HKDF, PBKDF2 and the DES MACs
are invisible in them. Random numbers are inputs. The CAP file's zip, the
diversification of GlobalPlatform keys, the persisted form of a pairing, the name and
the deprecated paths of metadata, the seed of a master key, Zeroize, Ethereum
addresses, ParseCommand (no caller), formatting, logging and the word list are left
out: they are arithmetic on bytes or text without state, whose tests compare them with
known vectors, and a model of them would be the code over again. The Cash and Ident
command sets are one plain exchange per call with no state but the last application
info; their parsers are in `CardAnswers`. Two goroutines sharing one channel object
are outside the library's contract and outside the models.

## 7. Plan

Order of the work, most important first:

1. done: V2 and its proofs; V1, pairing, command set, GlobalPlatform; the data
   modules; the exchange down to bytes; the parsers.
2. done: the proofs of `SecureChannelV1`, `Pairing`, `CommandSet`, `GlobalPlatform`,
   `Metadata`, `DerivationPath`, `BerTlv` and `Exchange`, and the induction they need.
3. `CardAnswers`: that reading back an answer follows from `ReadBack`, schema by schema.
4. A composition of `CommandSet` with the two channel modules in place of `Outcomes`.
