--------------------------- MODULE DerivationPath ---------------------------
(***************************************************************************)
(* The two parsers of BIP32 paths (package derivationpath).  The command   *)
(* builders of commands.go use the decoder, a machine whose steps are the  *)
(* actions here; the command set uses KeyPathFromString, which splits the  *)
(* path at its separators and is the operator KeyPathOf.                   *)
(*                                                                         *)
(* A path is a sequence of characters, of which " " stands for all white   *)
(* space.  A decoded path has a start and the sequence of its indexes,     *)
(* hardened ones from HardenedStart on.                                    *)
(***************************************************************************)
EXTENDS Integers, Sequences, SequencesExt

CONSTANTS
    Inputs,         \* the paths to parse
    HardenedStart,  \* 2^31 in the code
    MaxComponents   \* 10 in the code

ASSUME PathAssumption ==
    /\ \A s \in Inputs : s \in Seq(STRING)
    /\ HardenedStart \in Nat \ {0}
    /\ MaxComponents \in Nat

VARIABLES
    input,
    pos,        \* d.pos, the characters read
    f,          \* d.f, the parser of the next characters
    token,      \* d.currentToken
    hardened,   \* d.currentTokenHardened
    path,       \* d.path
    start,      \* d.start
    outcome     \* "running", or how parse returned: "ok" or "error"

decoder == <<input, pos, f, token, hardened, path, start, outcome>>

Digits == <<"0", "1", "2", "3", "4", "5", "6", "7", "8", "9">>
IsDigit(c) == Contains(Digits, c)

\* strconv.ParseUint in base 10.
DigitOf(c) == SelectInSeq(Digits, LAMBDA d : d = c) - 1
WithDigit(n, c) == 10 * n + DigitOf(c)
Value(digits) == FoldLeft(WithDigit, 0, digits)

DecoderTypeOK ==
    /\ input \in Inputs
    /\ pos \in 0..Len(input)
    /\ f \in {"start", "separator", "segment"}
    /\ \A i \in 1..Len(token) : IsDigit(token[i])
    /\ hardened \in BOOLEAN
    /\ \A i \in 1..Len(path) : path[i] \in 0..(2 * HardenedStart - 1)
    /\ start \in {"master", "parent", "current"}
    /\ outcome \in {"running", "ok", "error"}

\* Nothing read, and the start the current key.
newDecoder ==
    /\ input \in Inputs
    /\ pos = 0
    /\ f = "start"
    /\ token = <<>>
    /\ hardened = FALSE
    /\ path = <<>>
    /\ start = "current"
    /\ outcome = "running"

-----------------------------------------------------------------------------
(* KeyPathFromString, String and Encode *)

\* strings.Split at the separators.
WithChar(parts, c) ==
    IF c = "/" THEN Append(parts, <<>>) ELSE Append(Front(parts), Append(Last(parts), c))
Components(s) == FoldLeft(WithChar, << <<>> >>, s)

IsHardened(c) == c # <<>> /\ Last(c) = "'"
Body(c) == IF IsHardened(c) THEN Front(c) ELSE c

\* parsePathComponent
IsIndex(c) ==
    /\ Body(c) # <<>>
    /\ \A i \in 1..Len(Body(c)) : IsDigit(Body(c)[i])
    /\ Value(Body(c)) < HardenedStart
Index(c) == Value(Body(c)) + IF IsHardened(c) THEN HardenedStart ELSE 0

Sources == [master |-> <<"m">>, parent |-> <<".", ".">>, current |-> <<".">>]

\* strings.TrimSpace
Trimmed(c) ==
    LET kept == {i \in 1..Len(c) : c[i] # " "}
    IN  IF kept = {} THEN <<>> ELSE SubSeq(c, Min(kept), Max(kept))

\* Of the first component only the white space around it does not count.
FirstTrimmed(parts) == [parts EXCEPT ![1] = Trimmed(@)]

KeyPathFrom(parts) ==
    LET first == parts[1]
        named == {src \in DOMAIN Sources : Sources[src] = first}
        steps == IF named = {} THEN parts ELSE Tail(parts)
        ok == /\ first # <<>>
              /\ Len(steps) <= MaxComponents
              /\ \A k \in 1..Len(steps) : IsIndex(steps[k])
    IN  [ok |-> ok,
         start |-> IF named = {} THEN "current" ELSE CHOOSE src \in named : TRUE,
         path |-> IF ok THEN [k \in 1..Len(steps) |-> Index(steps[k])] ELSE <<>>]
KeyPathOf(s) == KeyPathFrom(FirstTrimmed(Components(s)))

Numeral[n \in Nat] ==
    IF n < 10 THEN <<Digits[n + 1]>> ELSE Append(Numeral[n \div 10], Digits[(n % 10) + 1])

\* Bug: the hardened bit stays in the number.
SegmentKeepsBit(i) == <<"/">> \o Numeral[i] \o IF i >= HardenedStart THEN <<"'">> ELSE <<>>

Segment(i) ==
    IF i >= HardenedStart
    THEN <<"/">> \o Numeral[i - HardenedStart] \o <<"'">>
    ELSE <<"/">> \o Numeral[i]

WithSegment(s, i) == s \o Segment(i)
Segments(p) == FoldLeft(WithSegment, <<>>, p)

\* KeyPath.String; Encode is the same of a path from the master key.
StringOf(src, p) == Sources[src] \o Segments(p)

-----------------------------------------------------------------------------
(* The decoder *)

AtEnd == pos = Len(input)
char == input[pos + 1]

Stop(how) ==
    /\ outcome' = how
    /\ UNCHANGED <<input, pos, f, token, hardened, path, start>>

\* What is not a start is read again.
parseStart ==
    /\ f = "start"
    /\ outcome = "running"
    /\ \/ AtEnd /\ Stop("ok")
       \/ /\ ~AtEnd /\ char = "m"
          /\ pos' = pos + 1 /\ f' = "separator" /\ start' = "master"
          /\ UNCHANGED <<input, token, hardened, path, outcome>>
       \/ /\ ~AtEnd /\ char = "." /\ pos + 1 = Len(input)
          /\ Stop("ok")
       \/ /\ ~AtEnd /\ char = "." /\ pos + 1 < Len(input)
          /\ f' = "separator"
          /\ IF input[pos + 2] = "."
             THEN pos' = pos + 2 /\ start' = "parent"
             ELSE pos' = pos + 1 /\ start' = "current"
          /\ UNCHANGED <<input, token, hardened, path, outcome>>
       \/ /\ ~AtEnd /\ char \notin {"m", "."}
          /\ f' = "segment"
          /\ UNCHANGED <<input, pos, token, hardened, path, start, outcome>>

Accepts(then) ==
    /\ f' = "segment"
    /\ pos' = IF AtEnd THEN pos ELSE pos + 1
    /\ outcome' = then
    /\ UNCHANGED <<input, start>>

Read == Value(token) + IF hardened THEN HardenedStart ELSE 0

\* Bug: the range of an index is left to strconv.ParseUint.
saveSegmentUnchecked(then) ==
    /\ path' = IF token = <<>> THEN path ELSE Append(path, Read)
    /\ token' = <<>>
    /\ hardened' = FALSE
    /\ Accepts(then)

\* Bug: the next token starts out hardened.
saveSegmentHardens(then) ==
    IF token # <<>> /\ Value(token) >= HardenedStart
    THEN Stop("error")
    ELSE /\ path' = IF token = <<>> THEN path ELSE Append(path, Read)
         /\ token' = <<>>
         /\ UNCHANGED hardened
         /\ Accepts(then)

\* Bug: reset is called instead of resetCurrentToken.
saveSegmentResets(then) ==
    /\ pos' = 0
    /\ f' = "start"
    /\ token' = <<>>
    /\ hardened' = FALSE
    /\ path' = <<>>
    /\ start' = "current"
    /\ outcome' = then
    /\ UNCHANGED input

\* Appends the number read, if any; the separator before the first one has none.
saveSegment(then) ==
    IF token # <<>> /\ Value(token) >= HardenedStart
    THEN Stop("error")
    ELSE /\ path' = IF token = <<>> THEN path ELSE Append(path, Read)
         /\ token' = <<>>
         /\ hardened' = FALSE
         /\ Accepts(then)

\* The end of the path is an end here too, whatever token holds.
parseSeparator ==
    /\ f = "separator"
    /\ outcome = "running"
    /\ \/ AtEnd /\ Stop("ok")
       \/ ~AtEnd /\ char = "/" /\ saveSegment("running")
       \/ ~AtEnd /\ char # "/" /\ Stop("error")

parseSegment ==
    /\ f = "segment"
    /\ outcome = "running"
    /\ \/ AtEnd /\ token = <<>> /\ Stop("error")
       \/ AtEnd /\ token # <<>> /\ saveSegment("ok")
       \/ ~AtEnd /\ token # <<>> /\ char = "/" /\ saveSegment("running")
       \/ /\ ~AtEnd /\ token # <<>> /\ char = "'"
          /\ hardened' = TRUE /\ f' = "separator" /\ pos' = pos + 1
          /\ UNCHANGED <<input, token, path, start, outcome>>
       \/ /\ ~AtEnd /\ IsDigit(char)
          /\ token' = Append(token, char) /\ pos' = pos + 1
          /\ UNCHANGED <<input, f, hardened, path, start, outcome>>
       \/ /\ ~AtEnd /\ ~IsDigit(char) /\ (token = <<>> \/ char \notin {"/", "'"})
          /\ Stop("error")

\* Calls d.f until one of them returns an error or the end of the path.
parse ==
    \/ parseStart
    \/ parseSeparator
    \/ parseSegment

DecoderSpec == newDecoder /\ [][parse]_decoder /\ WF_decoder(parse)

-----------------------------------------------------------------------------
(* Commands with a path *)

\* P1 (the start, where the command has one) and the indexes of a command, or
\* the error that keeps it from being built.
Command(from, p) == [ok |-> TRUE, start |-> from, path |-> p]
NotBuilt == [ok |-> FALSE, start |-> "none", path |-> <<>>]

\* The builders of commands.go, with what the decoder returned.  NewCommandSign
\* has no place for the start it decodes.
NewCommandDeriveKey == IF outcome = "ok" THEN Command(start, path) ELSE NotBuilt
NewCommandSign == IF outcome = "ok" THEN Command("none", path) ELSE NotBuilt
NewCommandSetPinlessPath ==
    IF outcome = "ok" /\ (path = <<>> \/ start = "master")
    THEN Command("none", path) ELSE NotBuilt

\* The calls of the command set for the same commands.
DeriveKey(s) ==
    IF KeyPathOf(s).ok THEN Command(KeyPathOf(s).start, KeyPathOf(s).path) ELSE NotBuilt
SetPinlessPath(s) ==
    IF KeyPathOf(s).ok /\ KeyPathOf(s).start = "master"
    THEN Command("none", KeyPathOf(s).path) ELSE NotBuilt

-----------------------------------------------------------------------------
(* Properties *)

Done == outcome # "running"
Long(s) == Len(Components(s)) > MaxComponents
Padded(s) == FirstTrimmed(Components(s)) # Components(s)

\* A builder and the call of the command set make the same command of the same
\* path or both make none, with these exceptions: the decoder takes the empty
\* path and any number of indexes, it refuses white space around the first
\* component (keypath.go:28), a pinless path without index may be relative, and
\* of a path whose last index is hardened (decoder.go:159-170) the decoder reads,
\* and checks, only those before it.
BuildersAgree ==
    /\ Done /\ input # <<>> /\ ~Long(input) /\ ~Padded(input) /\ Last(input) # "'" =>
          /\ NewCommandDeriveKey = DeriveKey(input)
          /\ path # <<>> => NewCommandSetPinlessPath = SetPinlessPath(input)
          /\ NewCommandSign.path = DeriveKey(input).path
    /\ Done /\ DeriveKey(input).ok /\ ~Padded(input) /\ Last(input) = "'" =>
          NewCommandDeriveKey = Command(DeriveKey(input).start, Front(DeriveKey(input).path))
    /\ Done /\ Padded(input) => NewCommandDeriveKey = NotBuilt

\* The decoder reads every index of the path it is given.
DecodesWholePath ==
    outcome = "ok" /\ KeyPathOf(input).ok => path = KeyPathOf(input).path

\* What String or Encode write of a decoded path reads back as the same path.
WrittenReadsBack ==
    outcome = "ok" /\ Len(path) <= MaxComponents =>
        KeyPathOf(StringOf(start, path)) = [ok |-> TRUE, start |-> start, path |-> path]

\* The loop of parse ends on every input.
Terminates == <>Done

=============================================================================
