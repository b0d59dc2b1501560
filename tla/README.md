# A TLA+ model of serde_rton

serde_rton is a Rust crate that reads and writes RTON, the binary object
notation of PvZ2, through serde. This directory models it in TLA+, checks the
models with TLC and proves the central ones with TLAPS. Paths below are those of
the repository; the crate is in `src/`.

## The system

The crate is a library without threads, timers or stored state. A call of
`to_writer` builds one `Serializer`, a call of `to_compact_writer` one
`CompactRtonWriter`, a call of `from_reader` one `Deserializer`; each lives as
long as the call. What makes it hard is that the first and the last are
*protocols driven from outside*: serde calls the serializer method by method in
whatever order the value dictates, every call may fail, and the state that one
call leaves behind (string tables, pending flags, the root flag, open
containers) decides what the next one writes. The reader must go through the
same states while it sees nothing but the bytes. The compact writer adds
addresses: it leaves room for offsets of what has not been written yet, hands
out offsets of what has, and counts them in a u32.

| Component | State | Operations | Correct if |
|---|---|---|---|
| Standard serializer (`ser.rs` 20-193, 490-904) | two string tables and their counters, `is_root`, `pending_varint`, `pending_rtid`, `pending_direct_str`, the writer | header, footer, one method per serde type, one wrapper protocol per newtype name | what it writes reads back as the value; wrappers change what they wrap and nothing else |
| Compact writer (`ser.rs` 195-488) | byte buffer, two tables from text to offset | header, values, keys, blobs, array tables, patches, footer, `write_all` | offsets point where they say; a length that does not fit is never in a finished file |
| Deserializer, standard tags (`de.rs`) | position, two string tables by index, `is_root`, per open array the capacity left | header, footer, `deserialize_any`, `deserialize_option`, map and sequence access | accepts exactly the format; always ends |
| Deserializer, compact tags (`de.rs` 227-330, 480-547, 647-695) | two tables by offset, per open array its offset table | the compact tags, the check of array offsets, the seek over a blob's raw copy | the same, and what the compact writer wrote comes back |
| String tables (in both) | text to index or offset; back | define, refer | a reference means the text it was written for; no text twice |
| Integers (`ser.rs`, `de.rs`, `varint.rs`, `value.rs`) | `pending_varint` | adaptive tags, forced varints, narrowing | number kept; shortest payload |
| RTID (`rtid.rs`, `de.rs` 196-225) | none | Display, FromStr, the runtime pair, binary body | texts and bodies identify the RTID |
| Value and the JSON bridge (`value.rs`) | a tree | its serde calls in binary and human readable formats, its visitor | a value keeps what its formats can hold, in any order of passes |
| BinaryBlob text (`binary.rs`, `de.rs` 112-129) | none | Display, FromStr, hexadecimal text | the pair is inverse; no stop on odd input |
| Crypto (`crypto.rs`) | none | prefix, padding, external cipher | prefix checked before use; padding is harmless |
| Tags, errors, crate root (`tags.rs`, `error.rs`, `lib.rs`) | none | | |

Writers and reader meet only in the bytes: a shared sequence in the model,
written by one and read by the other. The RTID type calls the serializer through
a newtype called `"RTID"`, the VarInt and DirectStr wrappers through newtypes of
their own names; the flag set around the inner call is the shared state between
them. `PROJECT.json` lists the hazards with their lines.

## Modules

`IntCodec` is the integer encoding as operators. An integer is its type, its
sign and its bit length (of v, or of -v-1 when negative). Varint lengths, the
zigzag map, the sign test of the raw varints and the narrowing look at nothing
else, so the true widths of 8 to 64 bits are within TLC's reach.
`IntChannel` sends one integer through writer, reader and Value, then what came
out once more.

`RtidValue` is the Rtid type and the serde calls of its body. `Rtid` holds the
conversions, over strings of *lexemes*: words the regexes match or refuse as a
whole. Three tables say how a number prints and which words are numerals of
which base; "10" is worth 16 in hexadecimal and 10 in decimal, which is what the
ambiguities of the text formats live on. `RtidChannel` prints and parses.

`BlobText` holds the two texts of a blob: the hexadecimal digits inside RTON and
`$BINARY("HEX", len)`. A conversion ends in a value, an error, or "panic" where
the code slices out of range or through a character.

`Serializer` has one action per serde method. The value being serialized is
nondeterministic: a stack of open containers and newtypes says which calls may
come next. Frames carry how many calls are still to come, because serde is
told lengths up front. The stream is a sequence of tokens, a tag with its payload;
the pieces that have no tag (a unit variant's byte, the fields of an RTID body)
are tokens named in parentheses. Two variables are history: `wrote`, the calls
made so far, and `origin`, the call each token belongs to.

`StreamLayout` gives every token its size in bytes, so that positions and seeks
of the compact format are those of the file.

`CompactWriter` is `to_compact_writer`: the Value is nondeterministic again, the
buffer a sequence of tokens at their offsets, and `words` holds the u32s that
`patch_u32` may still change. `Word` is how many numbers a u32 has; every
`as u32` and every checked conversion of the code is there, the sum that
overflows on the way to a table's size too (a debug build stops there, a release
build wraps: both are modelled). `write_all` hands the buffer to the caller's
writer, which may take all of it or a part.

`Deserializer` has one action per arm of `deserialize_any` and of the access
types, refusals included, for standard and compact tags. `seen` is what visitors
were given. `pos` counts tokens; `Position` and `SeekTo` go from tokens to bytes
and back.

`ValueChannel` is the abstract specification of a writer with its reader: parts
of a value go in and come out in order and unchanged; the value is accepted
exactly if it was finished and everything has come out; what was broken off is
refused. Its `Safe` says which steps there are, its `Fair` that the reader comes to
a verdict. `StandardRoundTrip` composes Serializer and Deserializer over the one
stream, `CompactRoundTrip` CompactWriter and Deserializer; each states that the
pair implements ValueChannel, in two halves (`RoundTrip` is `Channel!Safe`, `Returns`
is `Channel!Fair`), under a refinement mapping that maps each recorded part to what
the visitor should be given for it.

`ForeignStream` runs the Deserializer on token sequences that need not come from
a writer of this crate, and says what the format is by recursive operators that
mention neither the reader's state nor its conversions. What a compact blob's text
may be is taken from `tags.rs` (171), what a hexadecimal digit is (`IsHex`) from
Rust's number parser.

`ValueFormats` is what an application does with one Value: write it as standard
RTON, compact RTON or JSON, seal the file, open it, read it back, recover a blob
from its text, in any order and as often as it likes.

`MCRtid`, `MCStandard`, `MCForeign` (with the shapes of `ForeignShapes`), `MCCompact`
and `MCValue` give the constants their values. `MCScalars` puts IntChannel beside
MCRtid, and `MCFiles` ForeignStream beside MCValue: two systems that share nothing in
one run, where a behaviour is one of the one or one of the other. The modules whose
names end in `Proofs` hold the theorems: `CodecProofs` is about the operators of
`IntCodec` and `BlobText`, the texts of `Rtid` and the sequences that the others need,
the others are about the module they are named after: `SerializerProofs` about the
tables, the wrappers and then the stream, `StandardRoundTripProofs` about the tables of
the pair and then the refinement of `ValueChannel`, `CompactWriterProofs` about the
tables, the patches and then the layout of the buffer, `CompactRoundTripProofs` about
what the patched words lead to and then the refinement.

Definitions whose comment says "Mutant of X" are X with one plausible mistake.
Nothing uses them; put in X's place, each makes a property of some run fail,
which shows that the property depends on X.

### Where the model abstracts

- A token is written as a whole or torn; the reader refuses a torn token where
  it meets it. In the standard format that is all that positions matter for. In
  the compact format tokens have sizes, with one byte for a character (four in
  UTF-32) and varints of lengths, indices and RTID numbers below 128. A seek into
  the middle of a token leads to position 0, where the reader is taken to find no
  tag: what random bytes would read as is not explored.
- A text is a sequence of lexemes, most of one character; which texts fit
  Latin-1 is a constant set. The "NUL" at the end of compact texts, and those
  inside a text, are lexemes too.
- The blobs of a standard file are those of the constant `Blobs`: one, of two
  digits a byte, in the runs, any byte strings in the proofs.
- The keys of a map are Strings (a blob that is a key is one if it is UTF-8).
  Targets with identifiers (derived structs) and enums are left out of the reader.
- A float is a zero with a sign, a number that is no zero, or (in `ValueFormats`)
  a NaN.
- Indices of unit variants go up to 3, what OverrideByte needs.
- `from_reader` starts at position 0 of what it is given.
- Where the reader meets a token that does not belong, the model refuses and the code
  sometimes goes on with its bytes. After `Rtid` it takes the next byte for the subtype,
  the tag of another token as well (`de.rs` 197). After `CompactBinaryBlob` and a tag
  that is no text it takes the next four bytes for the raw length (`de.rs` 502); the model
  follows it for the compact text tags and for one tag without a payload, BooleanTrue, when
  the raw copy comes next, and refuses the rest. Past 2^63 the length of a standard blob's
  copy is an error of its own (`de.rs` 120); the model seeks past the end. In the runs'
  streams too little is left behind such a place for the difference to show.
- A declared length is allocated before a byte is read (`de.rs` 56, 231, and the table of a
  compact array at 488), and each open container is a level of recursion. That a huge
  length or a deep nesting may end the program is not in the model, so `Returns` and
  `Decides` say that no path of the reader hangs, not that there is always room for it.
- Of the numbers of an RTID's text only the object number in hexadecimal can be too big
  (`Big`). The overflow of id and group past u64 (`rtid.rs` 90-91, 212-213) and of a decimal
  object number past u32 (`rtid.rs` 117, 280) are left out; each is an error, as that of
  the object number is.

## Runs

| Run | Module, cfg | Shows |
|---|---|---|
| `scalars` | MCScalars, MCScalars | All 364 integers of eight types (sign and bit length), forced or not, twice through: value kept (`ReadBack`), no shorter payload existed (`SmallestPayload`), the second pass changes nothing (`SecondPassIsFixpoint`). RTIDs and their texts: `RoundTripIffFaithful` names exactly the RTIDs that survive their text; `BinaryIsDisplay`; `ParsedIsStable` |
| `int_tag` | IntChannel, MCIntTag | violation: reading into Value and writing again changes tags |
| `rtid_display` | MCRtid, MCRtidDisplay | violation: a raw name that spells a hexadecimal uid |
| `standard_values` | MCStandard, MCStandard | the pair implements ValueChannel (`RoundTrip` its steps, `Returns` its fairness); `WrapperScope`; types |
| `standard_strings` | MCStandard, MCStrings | `RefsResolve`, `DefinedOnce`, `TablesAgree` over strings of both encodings |
| `compact_files` | MCCompact, MCCompact | the compact pair implements ValueChannel (`RoundTrip`, `Returns`); references name the text asked for (`OffsetsResolve`); cut lengths never get into a finished file (`WordsFit`); no patch overwrites anything (`PatchedOnce`); every word after a key and every array table is right at the end (`SlotsTell`); types, every offset a u32 (`TypeOK`) |
| `files_read` | MCFiles, MCFiles | `OnlyThePasses`: what becomes of a value depends on the set of formats it met, not on their order, number or sealing, and the list of losses is complete; `BlobSurvivesItsText`. `TakesExactlyTheFormat`: standard and compact streams from elsewhere, well formed or not, are accepted exactly if they are of the format; `Decides`: the reader ends |
| `unframed_tuple` | MCStandard, MCShape | violation: a tuple has no framing |
| `direct_special` | MCStandard, MCDirect | violation: DirectStr of "*" |
| `blob_odd_digits` | MCValue, MCBlob | violation: an odd number of digits stops `BinaryBlob::from_str` |
| `blob_key_text` | MCForeign, MCForeign | violation: a compact blob whose text has the tag of a key |
| `json_null` | MCValue, MCNull | violation: JSON null is read into Value |

**Bounds.** `scalars` (20,748 states) has none on the integers: every sign and bit
length is there. Its RTIDs have eleven names that each look like another pattern (or
hold "@", a newline, a numeral past u32), four numbers, and texts of every pattern with
one thing wrong. `standard_values` bounds a file to 5 values, depth 3, length 2: enough
for the root map to hold an inner container with a wrapped and a plain value side by
side, the least that shows a flag outliving its value or a missing beginning tag.
`standard_strings` allows 6 values, keys and containers counted, hence at most four
strings, of two Latin-1 and two other texts: two definitions in one table, then references
to either, direct strings in between and tuples to reach odd orders.

`compact_files` (112,564 states) bounds a file to 5 values, depth 3, length 2,
over one value of each kind and five texts: one with the same characters as the
blob's digits (they share a table), one that ends in a NUL, one with a NUL inside,
and one of each encoding that is long enough for the file to pass a u32 of 100
numbers (`Word`). So references between keys, strings, blobs, nested tables and
overflow in the middle of each are there. When the writer fails it keeps all but
two tokens (`Tears`), the second of them torn or gone: what is lost is the footer
and an end, and no proper prefix of a file holds a footer.

`files_read` (167,040 states) has no bound on the passes of a value: the values are
few and the state is finite (17,179 states). Its streams from elsewhere (149,861
states) are all sequences of up to four standard pieces out of eleven, or up to three
compact pieces out of twelve (four out of eight), behind a header and before a good
ending; up to three or two before endings that are cut off or hold one thing that is
wrong (`ForeignShapes`). A definition and a reference in each of the four tables, an
array one element too long, an array with a wrong offset, a nested array, a blob whose
text is defined elsewhere and a seek past the end each fit. A u32 has 60 numbers there.
`TakesExactlyTheFormat` says nothing of streams with a compact blob whose text has
another tag than the writer's two (`BlobTextsAsWritten`): those that tags.rs allows are
what `blob_key_text` is about, and of the rest only `Decides` speaks.

The bounds are constants (`MaxValues`, `MaxDepth`, `MaxLen`, `Tears`, `Shapes`)
and appear in guards and initial states only; a value is begun only if it can be
finished within them. `Word` is no bound but the size of a u32, which the proofs
leave open.

**Fairness.** `from_reader` is one synchronous call: once made it runs to its
end, hence `WF(Read)` in the two round trips and `WF(DNext)` in `ForeignStream`
(`WF(Elsewhere)` in `MCFiles`).
`Returns` and `Decides` are what that buys: there is always an arm of the reader for
what it stands in front of, and none goes round in a circle. They are about the control
flow; memory and call stack are not in the model (see above).
Nothing makes the caller finish a value, so the writers have no fairness.
Deadlock is not checked where a behaviour ends with the call's return.

## What the violations say

1. `TagPreserved`: the README (133-134) advises Value and `to_bytes` for
   exact binary semantics. A forced varint comes back as a plain integer and
   64-bit integers are narrowed, so the second file has other tags.
2. `DisplayRoundTrips`: `rtid.rs` 241 keeps a pattern "to preserve
   Display/FromStr round-trips". For raw RTIDs whose name spells a uid they do
   not: Raw("1.a.10", p) prints as a uid and parses as one, or fails if its third
   numeral passes u32.
3. `WrittenIsReadable`: `to_bytes` returns "a complete standard RTON file"
   (`ser.rs` 166) for a value with a tuple, which `from_bytes` refuses or
   misreads, because a tuple is written without a beginning, capacity or end.
4. `DirectIsDirect`: DirectStr "forces direct string encoding (tags
   0x81/0x82)" (`varint.rs` 75), but "*" and "RTID(0)" are handled before the
   flag is looked at.
5. `InconsistentIsRefused`: `BinaryBlob::from_str` says that it validates the
   number of digits against the declared length (`binary.rs` 64). It compares
   with half the number rounded down, so `$BINARY("6", 0)` passes, and the slice
   of the last pair panics.

6. `JsonNullIsRefused`: `value.rs` 29-31 and the README (124) say that JSON null is
   not accepted into Value. `visit_unit` (`value.rs` 285) takes it for the null RTID,
   so a `Value::Null` kept as JSON is read back as another value without an error.
   `OnlyThePasses` lists that among the losses, as what the code does.
7. `EveryBlobTextIsRead`: `tags.rs` 171 lets a compact blob's text be B0, B1, B4 or B5.
   The reader takes B0 and B1 (`de.rs` 318) and makes of the others the text
   `$BINARY("<unknown>", n)`, without reading their payload; n is then not the length.

One thing was read off the text and is no disagreement with any of it: a blob's
hexadecimal text with a character past 0x7f panics in `decode_hex_bytes` when a slice
falls inside that character. `TakesExactlyTheFormat` lets only such texts stop the
program.

## Proofs

All theorems hold for every value of the constants that satisfies the named
ASSUMEs of the module: any texts (sequences of lexemes, `TextsAssumption`),
integers, RTIDs and byte strings (`BlobsAssumption`), any bounds, any choice of
calls and roots, and in `CompactWriter` any size of u32 above eight
(`WordAssumption`; the header alone takes eight bytes) and any choice of what a failing
writer loses, if it is at least a token or a part of one (`TearsAssumption`).

| Module | Theorem | Property |
|---|---|---|
| IntChannelProofs | `IntegersSurvive` | `ReadBack` |
| | `PayloadsAreSmallest` | `SmallestPayload` |
| | `OnePassIsEnough` | `SecondPassIsFixpoint` |
| CodecProofs | `HexDecodes` | (of the conversions) |
| ValueFormatsProofs | `OrderDoesNotMatter` | `OnlyThePasses` |
| | `BlobKeepsItsBytes` | `BlobSurvivesItsText` |
| RtidChannelProofs | `FaithfulReturns` | `RoundTripIffFaithful` |
| | `BodyIsDisplay` | `BinaryIsDisplay` |
| | `ParsedStays` | `ParsedIsStable` |
| StandardRoundTripProofs | `TablesInStep` | `TablesAgree` |
| | `ReadsWhatWasWritten` | `RoundTrip` of StandardRoundTrip |
| SerializerProofs | `TypeCorrect` | `TypeOK` |
| | `ReferencesResolve` | `RefsResolve` |
| | `OneDefinition` | `DefinedOnce` |
| | `WrappersReachTheirValue` | `WrapperScope` |
| | `CallByCall` | (of the stream) |
| CompactWriterProofs | `TypeCorrect` | `TypeOK` |
| | `ReferencesResolve` | `OffsetsResolve` |
| | `CutsAreCaught` | `WordsFit` |
| | `PatchesOnce` | `PatchedOnce` |
| | `LaidOut` | (of the buffer and the file) |
| CompactRoundTripProofs | `OffsetsTell` | `SlotsTell` |
| | `ReadsWhatWasWritten` | `RoundTrip` of CompactRoundTrip |

**Integers.** `CodecProofs` has the lemmas about the codec, by cases on type,
sign and bit length: what decodes after `EncodeInt` is the integer
(`DecodeEncode`), and no token that decodes to it is shorter (`Smallest`).
`IntInv` then says of every phase of `IntChannel` what it holds by then.

**Blobs.** `HexDecodes`: the digits the writer prints for a byte string are
decoded to it. `decode_hex_bytes` is a fold over pairs of digits and the
printing flattens one, so this is an induction over the length; it is done with
sets (`InductiveSet`: a set of numbers that holds 0 and successors is `Nat`,
from the least number outside it).

**Formats.** `OnlyThePasses` compares the value with a function of the value begun
with and the set of formats behind it (`Became`), but only up to a blob's being its
text, and only while the value is in memory. The invariant `FInv` says, also of a
value that is in a file, that it is `Became` or that both are forms of one blob
(`Same`: the bytes, or a text that spells them); that the file is one of that value;
and, for `BlobSurvivesItsText`, that a blob is a string only after JSON. The step is
one lemma per kind of value: one more format takes `Became(w, been)` to
`Became(w, been \cup {f})` (`NullStep`, `IntStep`, `FloatStep`, `StringStep`,
`RtidStep`), and a form of a blob to a form of that blob (`BlobPass`). They rest on
four facts about the conversions: narrowing an integer twice, or widening it first,
is narrowing it once (`NarrowedProps`); what an RTID's text has been read as spells
that RTID for good (`DisplayStable`, by the patterns of `FromStr`); a text is cut at its NUL
once (`CutProps`); and a blob's text spells it and nothing else does so without being
in the same form (`BlobSpelt`, `BlobRead`). The proof found the property wrong as it
had been stated and checked: it excused no RTID whose wide text is not its own, with
a NUL in it, which is cut in compact RTON only after it has become a string.
`CutLater` now says which values are left out, and `files_read` has one of each kind. The
theorems assume `ValuesAssumption` (integers are of the eight types, the numbers of
a uid are in the model's table) and `NumeralsSpelled`, that `ToString` makes no NUL
of a number, of which the provers know nothing; `MCValue` evaluates it up to 1000.

**RTID.** `RoundTripIffFaithful` is an equivalence, so both directions are proved: an
RTID of the class comes back (`RawComesBack`, `UidComesBack`), and one outside it is
read as another, or as none. Each of the three regexes of `FromStr` is a lemma about
where its literals can be in the text that was printed: a name without "@" is cut at
the only "@" there is (`JoinProps`, `JoinPlaces`), and the full and the colon form match
only what the name and the parent spell on either side of it (`JoinDotted`,
`JoinColonDotted`). The binary body carries the same texts, and `BodyReads` follows
`read_rtid_string` through them. `RInv` says of a text which RTID was printed in it
(`After`), and of an RTID which text it came from (`Before`); `ParsedIsStable` then rests
on what a match leaves in its groups (`DisplayStable`, `RuntimeStable`). The theorems
assume of the instance that the numbers of a uid are in the model's table, and that the
texts parsed do not lead out of it (`RtidsAssumption`, `TextsAssumption`): the runtime
pair reads the object number as hexadecimal and prints it in decimal, so "16" is read as
22, which is printed as "22" and would be read as 34: no finite table of numerals is
closed under that.

**Serializer.** `RefsResolve` is not inductive: that a *new* reference is right
depends on the tables, and that the tables are right depends on what has been
written. The invariant `IInv` adds, for each of the two tables (`TableOK`): its
counter is the number of definitions of its tag in the stream; it holds only
texts of its own encoding; each text in it is defined in the stream at the rank
the table says; and every text defined in the stream is in it. It further needs
the shape of the stack (`StackOK`: newtypes are innermost, and `pending_rtid` is
set exactly inside an RTID body, so that the strings of a body do not go to the
tables), and that each reference belongs to a recorded call. The steps are proved
by kind: one lemma for tokens that are neither definition nor reference
(`QuietStep`), one each for writing a reference (`RefTables`) and a definition
(`DefTables`), one per group of actions that cites them. `RankStable` carries
ranks from a stream to a longer one.

**Wrappers.** `WInv` adds to `IInv` that `pending_varint` and
`pending_direct_str` are set exactly while their newtype is the innermost frame
(`FlagsOK`), that a VarInt newtype has one call to make and of its own type, that
inside an RTID body the last recorded call is the RTID, and that no token belongs
to a call that is yet to come. `GrownScope` then reduces every step to what the
new tokens say of the call just recorded.

**Stream.** The round trip needs to know where each call of the writer lies in the
stream. `SInv` says that there are positions `at`, one after each call, and stacks of
containers `sh`, one after each call, such that (`Layout`) the tokens between
`at[n - 1]` and `at[n]` encode the n-th call and belong to it, (`Shapes`) the n-th
call was legal for `sh[n - 1]` and leaves `sh[n]`, and (`View`) the last of `sh` is
the writer's own stack as a reader sees it: without newtypes, and of a map only
whether a key or a value is due. `solid` is how many tokens are whole and in place:
all of them while the writer runs, all but the footer of a finished file, all but a
torn one of a broken file. A call may be recorded and its tokens still be owed
(inside an RTID body, behind a newtype): `Missing` counts them. `CallByCall` and
`ReadsWhatWasWritten` assume `Readable`: the root is a map, as `from_reader`
expects, and the value holds no tuple and no enum. That is no convenience: the format
frames neither (the run `unframed_tuple` shows what happens), and `RoundTrip` is
false with them. `ReadsWhatWasWritten` also assumes `SameTexts`, that the writer and
the reader mean the same two texts by "*" and "RTID(0)", which are constants of the
one and definitions of the other. The constants of `standard_values` satisfy both.

**Round trip.** `RInv` joins `Written` (the above) to `Reading`: what has been given
to visitors is what was written, part by part; the reader stands at the end of
the part it took last, with the stack `sh` has there. A step of the reader is then
one of three things. It takes the next part (`Took`), whatever the class of its
call: a lemma for each says that the tokens that encode a call are taken by the
arm of `deserialize_any` meant for them, with the same value, and by no other. It
goes from one phase to the next: the header, the root, the footer, an acceptance
that `sh` being empty allows only when everything has been taken. Or it refuses, and
then the tokens of the next part break off in front of it (`BrokenPart`): no arm takes a
torn token or the end of the input, and none stops half way through a call with
something taken. The texts behind references are the writer's by
`TablesInStep`, those of RTIDs, integers and blobs by the lemmas of `IntCodec`,
`BlobText` and the RTID body. With that each step of `StandardRoundTrip` is mapped to
Send, Close, Receive, Accept, Refuse or a stutter.

**Compact writer.** `IInv` has three parts besides the types. `StackOK`: the
document waits for its root until there is one, an array has its table from the
beginning, an object a word to patch while it is inside a value, a blob is
innermost. `TablesOK`: each text in a table has a definition in the buffer whose
text lies at the offset the table says. `FitOK`, for `WordsFit`: either every
length in the buffer is right, or the buffer is already longer than a u32 can say
and the root container has yet to ask for a position, which will fail; a cut
length is at least `Word`, so writing one puts the buffer past it.

**Patches.** `PInv` gives every frame the words it has yet to patch (`Places`:
the rest of an array's table, the word after an object's pending key): they
exist and are zero (`Reserved`), no two frames have one in common (`Apart`), and
every word lies below the end of the buffer (`Below`), so that room left later is
room of its own.

**Reader's tables.** `TablesAgree` compares the two ends while the file is read.
`ReaderInv` says that the reader's table of each encoding lists, in order, the
definitions of its tag among the tokens before `pos` (`ReadsTable`), and that
none of them lies inside what a seek jumps over. A step of the reader leaves the
tables and passes no definition (`Stays`), or passes tokens that are none
(`Skips`), or defines the text of the one it passes (`Defines`); the positions
behind `SeekTo` are running totals of sizes (`Totals`), which grow. With
`TableOK` of the writer the ranks are the writer's.

**Layout.** What lies in the buffer is proved as for the standard stream. `LInv` says
that there are positions `at` and stacks of containers `sh`, one after each part of the
value, such that (`Laid`) the tokens between `at[n - 1]` and `at[n]` are those of part n
and of no other (`Fills`), part n was legal for `sh[n - 1]` and leaves `sh[n]`; (`Lined`)
each token begins where the one before it ends; (`View`) the last of `sh` is the writer's
stack as a reader would see it; and (`Marks`) whatever part n was due in, the table of an
array or the word of a key, says where part n begins. A patch comes before the part it is
about, so the last mark is there only once the writer has settled (`Settled`). `Stable`
carries marks and positions over a step: no token moves, and by `PatchesOnce`'s invariant
no word that has been patched is patched again.

**Offsets.** `SlotsTell` says it without `at` and `sh`, by counting brackets in `wrote`
and by searching `bytes`. `Balance`: what is open is what was opened less what was closed,
so the value that begins with part k ends at the first part that leaves as much open as
there was before k (`ValueEnds`). Up to there the containers further out stay as they are
(`OuterStay`): the object still shows the slot of its key and what the part after the value
found there is the mark; in an array what is left is the count less the elements so far
(`ArrayGoesOn`), so each element finds its own entry of the table, and the end, which comes
only when nothing is left, the last.

**Compact round trip.** `RInv` joins `LInv`'s positions and containers and `FileIs` (the
first `s` tokens of the buffer, with the words as they are at the end, are the file, and
at most a torn one more) to `Reading`: what has been given to visitors is what was
written, part by part; the reader stands where the next part begins; its frames are
those of `sh`, each array with its table and what the elements so far have left of it
(`Frames`); its two tables hold the text of every definition in front of that
place, under the offset of that text (`Knowing`). A part that lies whole in the file is
taken (`ReadPart`), by one lemma per kind: a text is looked up under the offset that
`write_compact_string` put there, which is the definition's of that very text
(`Resolves`); an element or an end of an array stands where the table says, which is
`SlotsTell` in terms of `at` (`PlacedHere`); a blob's three tokens follow one another
and the seek over its digits ends where the next part begins (`ReadBlob`). A part that
does not lie whole in the file is refused (`ReadTorn`), and no part of a finished file
is one. The file's second token tells whether the root is an object (`RootTok`). With
that each step of `CompactRoundTrip` is mapped as in the standard pair (`WriteSends`,
`ReadReceives`). No `Readable` is needed here: `CompactRtonWriter` frames every
container.

Only model-checked: both `Returns` and `Decides` (liveness and ENABLED are out of reach
of TLAPS); and `TakesExactlyTheFormat` (`ForeignStream` uses RECURSIVE operators, and
what they compute is an induction over the stream that the provers have no means for).

## Not modelled

- `deserialize_enum` and `encrypt_data`/`decrypt_data` without the crypto
  feature: they return an error whatever they are given.
- `deserialize_identifier`, `deserialize_ignored_any` and the rest of what serde
  derives for a struct: they forward to `deserialize_any`; what happens to the
  visitor's result is serde's.
- The Rijndael cipher, MD5, the regex engine and serde_json are libraries. The
  regexes are modelled by which lexeme sequences they match, serde_json by the
  visitor calls it makes.
- `lib.rs` re-exports and holds the unit tests, `tests/` the sample tests: the
  models were read against both. `error.rs` has no behaviour beyond its variants.
- A Deserializer built on a reader that is not at position 0: compact offsets are
  absolute, so such a file is refused or misread. It is listed as a hazard.
- A Serializer used again after an error (only `Serializer::new` allows it): the
  flag it would find is in the state after `Unwind`, nothing reads it.

## Plan

Done, in this order: IntCodec, IntChannel; RtidValue, Rtid, RtidChannel;
Serializer; Deserializer; ValueChannel, StandardRoundTrip; ForeignStream;
SerializerProofs; BlobText, StreamLayout; CompactWriter, CompactRoundTrip, the
compact half of Deserializer and ForeignStream; ValueFormats;
CompactWriterProofs; CodecProofs, IntChannelProofs; StandardRoundTripProofs;
ValueFormatsProofs; RtidChannelProofs; CompactRoundTripProofs.

Left: nothing that the provers reach. `TakesExactlyTheFormat` would need the reader's
acceptance of a stream as an induction over the stream, and the two liveness
properties a prover for ENABLED.
