---------------------------- MODULE Deserializer ----------------------------
(***************************************************************************)
(* from_reader and the Deserializer of de.rs on a stream of the tokens     *)
(* that Serializer.tla (standard RTON) and CompactWriter.tla (compact)     *)
(* describe.  One step is one visitor call (or one refusal); frames are    *)
(* the open RtonMapAccess and RtonSeqAccess objects.  seen is history:     *)
(* what the visitors were given, in order.                                 *)
(*                                                                         *)
(* The target is Value, or maps and sequences of the same shape whose      *)
(* nullable parts are options; the keys of a map are Strings.              *)
(***************************************************************************)
EXTENDS StreamLayout, Rtid, BlobText

CONSTANTS
  Options,   \* may a value be asked for through deserialize_option
  Word       \* how many numbers a u32 can hold

VARIABLES
  input,            (* the stream; never changed here                      *)
  pos,              (* the reader's position, in tokens                    *)
  phase,            (* "header", "root", "body", "footer", "ok", "err" or  *)
                    (* "panic"                                             *)
  why,              (* the error                                           *)
  latin1_strings,   (* standard_latin1_strings_by_index                    *)
  utf8_strings,     (* standard_utf8_strings_by_index                      *)
  compact_latin1,   (* compact_latin1_strings_by_offset                    *)
  compact_utf32,    (* compact_utf32_strings_by_offset                     *)
  frames,           (* [kind, left, table]: left is remaining_capacity of  *)
                    (* a "seq", 1 or 0 in a "map" when the value is due;   *)
                    (* table is compact_offsets, <<>> for None             *)
  seen
Strings2 == <<latin1_strings, utf8_strings>>
Compact2 == <<compact_latin1, compact_utf32>>
Strings4 == <<Strings2, Compact2>>
dvars    == <<input, pos, phase, why, Strings4, frames, seen>>

DInit == /\ pos = 1 /\ phase = "header" /\ why = "none"
         /\ latin1_strings = <<>> /\ utf8_strings = <<>>
         /\ compact_latin1 = [o \in {} |-> <<>>] /\ compact_utf32 = [o \in {} |-> <<>>]
         /\ frames = <<>> /\ seen = <<>>

(* A position inside a token (where a seek may lead) is 0; the bytes there *)
(* are taken to be no tags.                                                *)
Eof    == [tag |-> "(eof)"]
Tok(i) == CASE i = 0 -> [tag |-> "(unknown)"]
            [] i \in DOMAIN input -> input[i]
            [] OTHER -> Eof

(* stream_position at a token, and the token a seek to a byte leads to.    *)
Position(i) == LET upto[n \in 0 .. i - 1] == IF n = 0 THEN 0 ELSE upto[n - 1] + Size(Tok(n))
               IN  upto[i - 1]
EndOfInput  == Position(Len(input) + 1)
SeekTo(byte) ==
  IF byte > EndOfInput THEN Len(input) + 1
  ELSE LET there == {i \in 1 .. Len(input) + 1 : Position(i) = byte}
       IN  IF there = {} THEN 0 ELSE Min(there)

(* The RtonTag a byte stands for, where a tag is read; the bytes met here  *)
(* are the unit variants 0 .. 3.                                           *)
TagAt(i) ==
  IF Tok(i).tag # "(byte)" THEN Tok(i).tag
  ELSE CASE Tok(i).byte = 0 -> "BooleanFalse"
         [] Tok(i).byte = 1 -> "BooleanTrue"
         [] Tok(i).byte = 2 -> "StringAsterisk"
         [] OTHER           -> "(unknown)"
Tag == TagAt(pos)

(* An error ends it all; a table may have grown before.                    *)
Stop(end, reason) == /\ phase' = end /\ why' = reason
                     /\ UNCHANGED <<input, pos, frames, seen>>
Fail(error) == Stop("err", error) /\ UNCHANGED Strings4
-----------------------------------------------------------------------------
(* Mutant of validate_header: the root of a compact file is not looked at. *)
validate_header_any_root ==
  /\ phase = "header"
  /\ CASE Tok(1).tag # "(header)" -> Fail(IF Tok(1).tag \in {"(eof)", "(torn)"} THEN "Io" ELSE "InvalidHeader")
       [] Tok(1).tag = "(header)" /\ Tok(1).version = "other" -> Fail("Version")
       [] Tok(1).tag = "(header)" /\ Tok(1).version # "other" ->
            /\ phase' = "root" /\ pos' = 2
            /\ UNCHANGED <<input, why, Strings4, frames, seen>>

validate_header ==
  /\ phase = "header"
  /\ CASE Tok(1).tag # "(header)" -> Fail(IF Tok(1).tag \in {"(eof)", "(torn)"} THEN "Io" ELSE "InvalidHeader")
       [] Tok(1).tag = "(header)" ->
            CASE Tok(1).version = "other" -> Fail("Version")
              [] Tok(1).version = "compact" /\ Tok(2).tag # "CompactObjectBegin" ->
                   Fail(IF Tok(2) = Eof THEN "Io" ELSE "CompactRoot")
              [] OTHER -> /\ phase' = "root" /\ pos' = 2
                          /\ UNCHANGED <<input, why, Strings4, frames, seen>>

(* deserialize_any with is_root: a map whatever comes, and a beginning tag *)
(* is optional.                                                            *)
enter_root ==
  /\ phase = "root"
  /\ IF Tag = "(eof)" THEN Fail("Io")
     ELSE /\ phase' = "body"
          /\ pos' = IF Tag \in {"ObjectBegin", "CompactObjectBegin"} THEN pos + 1 ELSE pos
          /\ frames' = <<[kind |-> "map", left |-> 0, table |-> <<>>]>>
          /\ seen' = Append(seen, [visit |-> "map"])
          /\ UNCHANGED <<input, why, Strings4>>
-----------------------------------------------------------------------------
Here  == frames[Len(frames)]
InMap == phase = "body" /\ Here.kind = "map"
InSeq == phase = "body" /\ Here.kind = "seq"
KeyIsDue == InMap /\ Here.left = 0

(* validate_compact_offset: the table entry of the element that comes next *)
(* (or of the end) is zero or the reader's position.                       *)
InStandardSeq == InSeq /\ Here.table = <<>>
InCompactSeq  == InSeq /\ Here.table # <<>>
Expected      == Here.table[Len(Here.table) - Here.left]
Placed        == Expected = 0 \/ (pos # 0 /\ Expected = Position(pos))
misplaced     == InCompactSeq /\ ~Placed /\ Fail("OffsetMismatch")

(* next_key_seed and next_element_seed at the end: n bytes of end tag.     *)
Leave(visit, n) ==
  /\ pos' = IF n = 0 THEN pos ELSE pos + 1
  /\ frames' = SubSeq(frames, 1, Len(frames) - 1)
  /\ phase' = IF Len(frames) = 1 THEN "footer" ELSE "body"
  /\ seen' = Append(seen, [visit |-> visit])
  /\ UNCHANGED <<input, why, Strings4>>
end_of_map == KeyIsDue /\ Tag = "ObjectEnd" /\ Leave("end_map", 1)
end_of_seq == InStandardSeq /\ Tag = "ArrayEnd" /\ Leave("end_seq", 1)
end_of_compact_seq == InCompactSeq /\ Here.left = 0 /\ Placed /\ Leave("end_seq", 0)

capacity_exceeded == /\ InStandardSeq /\ Here.left = 0
                     /\ Tag \notin {"ArrayEnd", "(eof)"}
                     /\ Fail("ArrayCapacityExceeded")

(* next_key_seed, next_value_seed or next_element_seed goes on to          *)
(* deserialize_any for the token at pos.                                   *)
Due == \/ InStandardSeq /\ Here.left > 0 /\ Tag # "ArrayEnd"
       \/ InCompactSeq /\ Here.left > 0 /\ Placed
       \/ KeyIsDue /\ Tag # "ObjectEnd"
       \/ InMap /\ ~KeyIsDue
Counted == [frames EXCEPT ![Len(frames)].left = IF KeyIsDue THEN 1 ELSE @ - 1]

(* A value goes to the visitor and the reader on to another token; the     *)
(* visitor of a String key takes strings and bytes that are UTF-8 (here:   *)
(* ASCII, no blob has longer characters).                                  *)
IsUtf8(b)   == \A i \in DOMAIN b : b[i] < 128
MakesKey(v) == v.visit = "str" \/ (v.visit = "bytes" /\ IsUtf8(v.bytes))
GiveTo(v, next) ==
  IF KeyIsDue /\ ~MakesKey(v) THEN Stop("err", "InvalidType")
  ELSE /\ seen' = Append(seen, v)
       /\ pos' = next
       /\ frames' = Counted
       /\ UNCHANGED <<input, phase, why>>
Give(v, n) == GiveTo(v, pos + n)
Text(s) == [visit |-> "str", str |-> s]

Scalars == [BooleanFalse   |-> [visit |-> "bool", bool |-> FALSE],
            BooleanTrue    |-> [visit |-> "bool", bool |-> TRUE],
            F32Zero        |-> [visit |-> "float", ty |-> "f32", val |-> "+0"],
            F64Zero        |-> [visit |-> "float", ty |-> "f64", val |-> "+0"],
            StringAsterisk |-> Text(<<"*">>),
            RtidNull       |-> Text(NullText)]

visit_scalar == /\ Due /\ Tag \in DOMAIN Scalars
                /\ Give(Scalars[Tag], 1) /\ UNCHANGED Strings4
visit_float  == /\ Due /\ Tag \in {"F32", "F64"}
                /\ Give([visit |-> "float", ty |-> IF Tag = "F32" THEN "f32" ELSE "f64",
                         val |-> Tok(pos).val], 1)
                /\ UNCHANGED Strings4
visit_int    == /\ Due /\ Tag \in IntTags
                /\ Give([visit |-> "int", int |-> DecodeInt(Tok(pos))], 1) /\ UNCHANGED Strings4
visit_direct == /\ Due /\ Tag \in {"StringLatin1Direct", "StringUtf8Direct"}
                /\ Give(Text(Tok(pos).str), 1) /\ UNCHANGED Strings4

(* Mutant of visit_definition: one table for both encodings.               *)
visit_definition_shared ==
  /\ Due /\ Tag \in {"StringLatin1Definition", "StringUtf8Definition"}
  /\ Give(Text(Tok(pos).str), 1)
  /\ latin1_strings' = Append(latin1_strings, Tok(pos).str)
  /\ UNCHANGED <<utf8_strings, Compact2>>

(* A definition enters its table before the visitor sees it.               *)
visit_definition ==
  /\ Due /\ Tag \in {"StringLatin1Definition", "StringUtf8Definition"}
  /\ LET s == Tok(pos).str
     IN  /\ Give(Text(s), 1)
         /\ latin1_strings' = IF Tag = "StringLatin1Definition" THEN Append(latin1_strings, s)
                              ELSE latin1_strings
         /\ utf8_strings' = IF Tag = "StringUtf8Definition" THEN Append(utf8_strings, s)
                            ELSE utf8_strings
         /\ UNCHANGED Compact2

visit_reference ==
  /\ Due /\ Tag \in {"StringLatin1Reference", "StringUtf8Reference"}
  /\ LET table == IF Tag = "StringLatin1Reference" THEN latin1_strings ELSE utf8_strings
         i     == Tok(pos).idx + 1
     IN  IF i > Len(table) THEN Fail("RefIndexOutOfBounds")
         ELSE Give(Text(table[i]), 1) /\ UNCHANGED Strings4

(* The bytes of a blob come from the hexadecimal text, if it is one; the   *)
(* raw copy is skipped by a seek, whatever length is declared, and not     *)
(* looked at.                                                              *)
GiveBlob(hex, next) ==
  LET d == decode_hex_bytes(hex)
  IN  CASE d.status = "ok"  -> GiveTo([visit |-> "bytes", bytes |-> d.bytes], next)
        [] d.status = "err" -> Stop("err", "InvalidBinaryBlob")
        [] d.status = "panic" -> Stop("panic", "slice of hex_str")
visit_blob ==
  /\ Due /\ Tag = "BinaryBlob"
  /\ LET t == Tok(pos)
     IN  GiveBlob(t.hex, SeekTo(Position(pos) + Size(t) - Len(t.raw) + t.declared))
  /\ UNCHANGED Strings4

(* Rtid: a subtype byte and the fields it announces.                       *)
Pieces(sub) == CASE sub = 0 -> <<>>
                 [] sub = 1 -> <<"(varint)", "(varint)", "(u32)">>
                 [] sub = 2 -> <<"(utf8)", "(varint)", "(varint)", "(u32)">>
                 [] sub = 3 -> <<"(utf8)", "(utf8)">>
FieldToks(n) == SubSeq(input, pos + 2, pos + 1 + n)
visit_rtid ==
  /\ Due /\ Tag = "Rtid"
  /\ LET sub == Tok(pos + 1).byte
         n   == Len(Pieces(sub))
     IN  CASE Tok(pos + 1).tag # "(byte)" -> Fail("Io")
           [] Tok(pos + 1).tag = "(byte)" /\ sub > 3 -> Fail("UnknownRtidSubId")
           [] Tok(pos + 1).tag = "(byte)" /\ sub <= 3 ->
                IF [i \in 1 .. n |-> Tok(pos + 1 + i).tag] # Pieces(sub) THEN Fail("Io")
                ELSE Give(Text(RtidText(sub, FieldToks(n))), n + 2) /\ UNCHANGED Strings4

(* deserialize_option: the null RTID is None; anything else is Some of     *)
(* what the other actions make of it.                                      *)
visit_none == /\ Options /\ Due /\ ~KeyIsDue
              /\ Tag = "RtidNull" \/ (Tag = "CompactRtid" /\ Tok(pos).sub = 0)
              /\ Give([visit |-> "none"], 1) /\ UNCHANGED Strings4

enter_seq ==
  /\ Due /\ Tag = "ArrayBegin"
  /\ CASE KeyIsDue -> Fail("InvalidType")
       [] ~KeyIsDue /\ Tok(pos + 1).tag # "ArrayCapacity" ->
            Fail(IF Tok(pos + 1).tag \in {"(eof)", "(torn)"} THEN "Io" ELSE "ArrayCapacityTagMismatch")
       [] ~KeyIsDue /\ Tok(pos + 1).tag = "ArrayCapacity" ->
            /\ pos' = pos + 2
            /\ frames' = Append(Counted, [kind |-> "seq", left |-> Tok(pos + 1).cap, table |-> <<>>])
            /\ seen' = Append(seen, [visit |-> "seq"])
            /\ UNCHANGED <<input, phase, why, Strings4>>

enter_map ==
  /\ Due /\ Tag \in {"ObjectBegin", "CompactObjectBegin"}
  /\ IF KeyIsDue THEN Fail("InvalidType")
     ELSE /\ pos' = pos + 1
          /\ frames' = Append(Counted, [kind |-> "map", left |-> 0, table |-> <<>>])
          /\ seen' = Append(seen, [visit |-> "map"])
          /\ UNCHANGED <<input, phase, why, Strings4>>

-----------------------------------------------------------------------------
(* The compact tags.  str is the whole payload of a definition.            *)
(* Mutant of PayloadText: both end at their first NUL.                     *)
PayloadTextCut(t) == CutAtNul(t.str)
PayloadText(t) == IF t.tag \in Latin1Defs THEN WithoutNul(t.str) ELSE CutAtNul(t.str)

(* The definition t whose payload is at this offset.                       *)
Misfit(t, offset) == \/ t.tag \in Utf32Defs /\ t.len % 4 # 0
                     \/ offset >= Word
Enter(table, offset, s) == [o \in DOMAIN table \cup {offset} |-> IF o = offset THEN s ELSE table[o]]
Define(t, offset) ==
  /\ compact_latin1' = IF t.tag \in Latin1Defs THEN Enter(compact_latin1, offset, PayloadText(t))
                       ELSE compact_latin1
  /\ compact_utf32' = IF t.tag \in Utf32Defs THEN Enter(compact_utf32, offset, PayloadText(t))
                      ELSE compact_utf32
  /\ UNCHANGED Strings2
TableOf(t) == IF t.tag \in Latin1Refs THEN compact_latin1 ELSE compact_utf32

visit_compact_definition ==
  /\ Due /\ Tag \in CompactDefs
  /\ LET t == Tok(pos)
         offset == Position(pos) + 5
     IN  IF Misfit(t, offset)
         THEN Fail(IF t.len % 4 # 0 THEN "StringLengthMismatch" ELSE "OffsetOverflow")
         ELSE Give(Text(PayloadText(t)), 1) /\ Define(t, offset)

visit_compact_reference ==
  /\ Due /\ Tag \in CompactRefs
  /\ LET t == Tok(pos)
     IN  IF t.word \notin DOMAIN TableOf(t) THEN Fail("RefIndexOutOfBounds")
         ELSE Give(Text(TableOf(t)[t.word]), 1) /\ UNCHANGED Strings4

(* A blob's text is a definition or a reference without a value offset. Of *)
(* any other tag only the byte is read: the word after it is taken for the *)
(* length to skip, and the visitor is given a text that says so.           *)
UnknownBlob(n) == Text(<<"$BINARY(", "<unknown>", ", ", ToString(n), ")">>)
visit_compact_blob ==
  /\ Due /\ Tag = "CompactBinaryBlob"
  /\ LET t      == Tok(pos + 1)
         offset == Position(pos) + 6
         raw    == Tok(pos + 2)
         After(n) == SeekTo(Position(pos + 2) + 4 + n)
         Words(tok) == IF tok.tag \in CompactDefs THEN tok.len ELSE tok.word
     IN  CASE t.tag = "CompactLatin1StringDefinition" /\ raw.tag = "(raw)" ->
                IF Misfit(t, offset) THEN Fail("OffsetOverflow")
                ELSE GiveBlob(PayloadText(t), After(raw.declared)) /\ Define(t, offset)
           [] t.tag = "CompactLatin1StringReference" /\ raw.tag = "(raw)" ->
                IF t.word \notin DOMAIN compact_latin1 THEN Fail("RefIndexOutOfBounds")
                ELSE GiveBlob(compact_latin1[t.word], After(raw.declared)) /\ UNCHANGED Strings4
           [] t.tag \in (CompactDefs \cup CompactRefs)
                          \ {"CompactLatin1StringDefinition", "CompactLatin1StringReference"} ->
                /\ GiveTo(UnknownBlob(Words(t)), SeekTo(offset + Words(t)))
                /\ UNCHANGED Strings4
           [] t.tag = "BooleanTrue" /\ raw.tag = "(raw)" ->
                GiveTo(UnknownBlob(raw.declared), After(raw.declared)) /\ UNCHANGED Strings4
           [] OTHER -> Fail("Io")

visit_compact_rtid ==
  /\ Due /\ Tag = "CompactRtid"
  /\ LET t == Tok(pos)
     IN  IF t.sub > 3 THEN Fail("UnknownRtidSubId")
         ELSE /\ Give(Text(IF t.sub = 0 THEN NullText ELSE read_rtid_string(t.sub, t.names, t.nums)), 1)
              /\ UNCHANGED Strings4

visit_compact_bool ==
  /\ Due /\ Tag = "CompactBoolean"
  /\ Give([visit |-> "bool", bool |-> Tok(pos).byte # 0], 1) /\ UNCHANGED Strings4

(* The count is one less than the number of table entries, which must fit  *)
(* a u32 as well.                                                          *)
enter_compact_seq ==
  /\ Due /\ Tag = "CompactArrayBegin"
  /\ LET t == Tok(pos)
     IN  CASE t.table = <<>> -> Fail(IF Tok(pos + 1) = Eof THEN "Io" ELSE "ArrayCapacityTagMismatch")
           [] t.table # <<>> /\ t.count + 1 = Word -> Fail("CapacityOverflow")
           [] t.table # <<>> /\ t.count + 1 # Word ->
                IF KeyIsDue THEN Fail("InvalidType")
                ELSE /\ pos' = pos + 1
                     /\ frames' = Append(Counted, [kind |-> "seq", left |-> t.count, table |-> t.table])
                     /\ seen' = Append(seen, [visit |-> "seq"])
                     /\ UNCHANGED <<input, phase, why, Strings4>>
-----------------------------------------------------------------------------
(* End of input, half a token, or a byte that is no tag of a value.  The   *)
(* first two bytes of a footer, taken for a value, are a RawVarInt64, and  *)
(* then its N is no tag.                                                   *)
NoValue == {"ObjectEnd", "ArrayEnd", "ArrayCapacity", "(unknown)", "(footer)"}

(* Mutant of refuse: the end of the input is waited out.                   *)
refuse_but_eof == \/ Due /\ Tag = "(torn)" /\ Fail("Io")
                  \/ Due /\ Tag \in NoValue /\ Fail("UnknownTag")
refuse == \/ (Due \/ InStandardSeq) /\ Tag = "(eof)" /\ Fail("Io")
          \/ Due /\ Tag = "(torn)" /\ Fail("Io")
          \/ Due /\ Tag \in NoValue /\ Fail("UnknownTag")

validate_footer ==
  /\ phase = "footer"
  /\ IF Tag = "(footer)"
     THEN /\ phase' = "ok" /\ pos' = pos + 1
          /\ UNCHANGED <<input, why, Strings4, frames, seen>>
     ELSE Fail("InvalidFooter")

DNext == \/ validate_header \/ enter_root \/ end_of_map \/ capacity_exceeded
         \/ end_of_seq \/ end_of_compact_seq \/ misplaced
         \/ visit_scalar \/ visit_float \/ visit_int \/ visit_direct \/ visit_definition
         \/ visit_reference \/ visit_blob \/ visit_rtid \/ visit_none
         \/ visit_compact_definition \/ visit_compact_reference \/ visit_compact_rtid
         \/ visit_compact_blob \/ visit_compact_bool \/ enter_compact_seq
         \/ enter_seq \/ enter_map \/ refuse \/ validate_footer
=============================================================================
