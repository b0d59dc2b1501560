--------------------------- MODULE ForeignStream ---------------------------
(***************************************************************************)
(* The reader on streams nobody's Serializer wrote: any sequence of pieces *)
(* of a small alphabet behind a header, cut off anywhere.                  *)
(***************************************************************************)
EXTENDS Deserializer

CONSTANT Shapes  \* records [start, pieces, most, ending]: a stream is start, at most
                 \* most of the pieces, ending; an RTID or a blob is one piece

FInit == /\ DInit
         /\ \E sh \in Shapes : \E n \in 0 .. sh.most : \E body \in [1 .. n -> sh.pieces] :
              input = sh.start \o FlattenSeq(body) \o sh.ending
FSpec == FInit /\ [][DNext]_dvars /\ WF_dvars(DNext)
-----------------------------------------------------------------------------
(* The format, said without a reader: the position after the value, the    *)
(* elements or the entries that begin at i; 0 if there is no such thing.   *)
Defs(tag, i) == Cardinality({j \in 1 .. i - 1 : Tok(j).tag = tag})
Resolves(i)  == \/ /\ Tok(i).tag = "StringLatin1Reference"
                   /\ Tok(i).idx < Defs("StringLatin1Definition", i)
                \/ /\ Tok(i).tag = "StringUtf8Reference"
                   /\ Tok(i).idx < Defs("StringUtf8Definition", i)
(* A compact string is at most a u32 of bytes into the file; a compact     *)
(* reference names the payload of a definition before it.                  *)
Definition(j) == Tok(j).tag \in CompactDefs /\ ~Misfit(Tok(j), Position(j) + 5)
Referents(i) ==
  {j \in 1 .. i - 1 : /\ Definition(j) /\ Position(j) + 5 = Tok(i).word
                      /\ Tok(j).tag \in Latin1Defs <=> Tok(i).tag \in Latin1Refs}
TextToken(i) == \/ TagAt(i) \in {"StringLatin1Definition", "StringUtf8Definition", "RtidNull",
                                 "StringLatin1Direct", "StringUtf8Direct", "StringAsterisk"}
                \/ Resolves(i)
                \/ Definition(i)
                \/ Tok(i).tag \in CompactRefs /\ Referents(i) # {}
                \/ Tok(i).tag = "CompactRtid" /\ Tok(i).sub \in 0 .. 3
PlainToken(i) == TagAt(i) \in {"BooleanFalse", "BooleanTrue", "F32Zero", "F64Zero", "F32", "F64",
                               "CompactBoolean"} \cup IntTags

(* A blob: the text, as a set with one element or none, and where the raw  *)
(* copy ends, which is as long as it is declared to be.  A compact blob's  *)
(* text is any Latin-1 one (tags.rs: B0, B1, B4 or B5).                    *)
HexTextOf(i) ==
  CASE Tok(i).tag = "BinaryBlob" -> {Tok(i).hex}
    [] Tok(i).tag = "CompactBinaryBlob" ->
         CASE Tok(i + 1).tag \in Latin1Defs /\ Definition(i + 1) -> {PayloadText(Tok(i + 1))}
           [] Tok(i + 1).tag \in Latin1Refs -> {PayloadText(Tok(j)) : j \in Referents(i + 1)}
           [] OTHER -> {}
    [] OTHER -> {}
RawEnd(i) == IF Tok(i).tag = "BinaryBlob"
             THEN SeekTo(Position(i + 1) - Len(Tok(i).raw) + Tok(i).declared)
             ELSE IF Tok(i + 2).tag # "(raw)" THEN 0
             ELSE SeekTo(Position(i + 2) + 4 + Tok(i + 2).declared)

(* Two characters a byte, digits of either case; Rust's number parser lets *)
(* a plus sign be the first.  A byte below 128 begins with a digit below 8.*)
IsHex(s)    == /\ Len(s) % 2 = 0
               /\ \A k \in DOMAIN s : IsDigit(s[k]) \/ (s[k] = "+" /\ k % 2 = 1)
IsAscii(s)  == \A k \in DOMAIN s :
                 k % 2 = 1 => s[k] \in {"+", "0", "1", "2", "3", "4", "5", "6", "7"}
BlobEnd(i)  == IF \E hex \in HexTextOf(i) : IsHex(hex) THEN RawEnd(i) ELSE 0
RtidEnd(i) ==
  LET p == Pieces(Tok(i + 1).byte)
  IN  IF /\ Tok(i).tag = "Rtid" /\ Tok(i + 1).tag = "(byte)" /\ Tok(i + 1).byte \in 0 .. 3
         /\ \A k \in DOMAIN p : Tok(i + 1 + k).tag = p[k]
      THEN i + 2 + Len(p) ELSE 0
TextEnd(i) == IF TextToken(i) THEN i + 1 ELSE RtidEnd(i)
KeyEnd(i)  == IF \E hex \in HexTextOf(i) : IsHex(hex) /\ IsAscii(hex) THEN RawEnd(i) ELSE TextEnd(i)

(* A compact array: no end, but a table of where its elements and its end  *)
(* are, with zeros for what it does not say.                               *)
RECURSIVE ValueEnd(_), ElementsEnd(_, _), CompactElementsEnd(_, _, _), EntriesEnd(_)
ValueEnd(i) ==
  CASE TextEnd(i) # 0 -> TextEnd(i)
    [] BlobEnd(i) # 0 -> BlobEnd(i)
    [] PlainToken(i)  -> i + 1
    [] Tok(i).tag = "ArrayBegin" /\ Tok(i + 1).tag = "ArrayCapacity" ->
         ElementsEnd(i + 2, Tok(i + 1).cap)
    [] Tok(i).tag = "CompactArrayBegin" /\ Tok(i).count + 1 = Len(Tok(i).table) ->
         CompactElementsEnd(i + 1, Tok(i).table, 1)
    [] Tok(i).tag \in {"ObjectBegin", "CompactObjectBegin"} -> EntriesEnd(i + 1)
    [] OTHER -> 0
ElementsEnd(i, capacity) ==
  CASE Tok(i).tag = "ArrayEnd" -> i + 1
    [] Tok(i).tag # "ArrayEnd" /\ capacity > 0 /\ ValueEnd(i) # 0 ->
         ElementsEnd(ValueEnd(i), capacity - 1)
    [] OTHER -> 0
CompactElementsEnd(i, table, k) ==
  IF i = 0 \/ (i # 0 /\ table[k] \notin {0, Position(i)}) THEN 0
  ELSE IF k = Len(table) THEN i ELSE CompactElementsEnd(ValueEnd(i), table, k + 1)
EntriesEnd(i) ==
  CASE Tok(i).tag = "ObjectEnd" -> i + 1
    [] KeyEnd(i) # 0 /\ ValueEnd(KeyEnd(i)) # 0 -> EntriesEnd(ValueEnd(KeyEnd(i)))
    [] OTHER -> 0

(* A file: a supported version, entries with or without a beginning tag    *)
(* (with the compact one if the version is compact), the footer.           *)
FileEnd ==
  LET begins == Tok(2).tag \in {"ObjectBegin", "CompactObjectBegin"}
      end    == EntriesEnd(IF begins THEN 3 ELSE 2)
  IN  IF /\ Tok(1).tag = "(header)" /\ Tok(1).version \in {"standard", "compact"}
         /\ Tok(1).version = "compact" => Tok(2).tag = "CompactObjectBegin"
         /\ end # 0 /\ Tok(end).tag = "(footer)"
      THEN end + 1 ELSE 0

(* No compact blob has a text of another kind than the crate's writer     *)
(* gives it.                                                               *)
BlobTextsAsWritten ==
  \A i \in DOMAIN input : Tok(i).tag = "CompactBinaryBlob" =>
    Tok(i + 1).tag \in {"CompactLatin1StringDefinition", "CompactLatin1StringReference"}

(* The reader takes exactly the files of that format, and takes them up to *)
(* the footer: a reference only to a definition before it, no more         *)
(* elements than the capacity, compact elements where the table says, a    *)
(* string for a key, nothing left open.  What is none of the format is an  *)
(* error, except that a blob's text with a character past 0x7f may stop    *)
(* the program.  (Blobs with other texts: EveryBlobTextIsRead.)            *)
TakesExactlyTheFormat ==
  BlobTextsAsWritten =>
    /\ phase = "ok"    => pos = FileEnd
    /\ phase = "err"   => FileEnd = 0
    /\ phase = "panic" => FileEnd = 0 /\ \E hex \in HexTextOf(pos) : Contains(hex, "<E9>")

(* tags.rs, CompactBinaryBlob: "Payload: a compact Latin-1 hex string      *)
(* (B0/B1/B4/B5), then `u32 raw_len`".  A blob with such a text is given   *)
(* to the visitor as the bytes it spells when the reader goes past it.     *)
EveryBlobTextIsRead ==
  [][/\ Tok(pos).tag = "CompactBinaryBlob" /\ pos' # pos
     /\ \E hex \in HexTextOf(pos) : IsHex(hex)
     => seen'[Len(seen')].visit = "bytes"]_dvars

(* Whatever the bytes, from_reader comes to an end.                        *)
Decides == <>(phase \in {"ok", "err", "panic"})
=============================================================================
