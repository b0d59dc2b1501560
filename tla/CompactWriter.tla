---------------------------- MODULE CompactWriter ----------------------------
(***************************************************************************)
(* to_compact_writer and the CompactRtonWriter of ser.rs: a Value written  *)
(* to a buffer whose byte offsets are part of the format.  Strings are     *)
(* referred to by the offset of their text; the word after a key and the   *)
(* table of an array are left zero and patched once the offset is known.   *)
(* The buffer is a sequence of tokens, each at its offset; the words that  *)
(* patch_u32 may change are kept by offset, in words.                      *)
(*                                                                         *)
(* wrote is history: the parts of the value so far, containers bracketed;  *)
(* an item's of is the part it belongs to.                                 *)
(***************************************************************************)
EXTENDS StreamLayout, RtidValue, BlobText

CONSTANTS
  Strings,    \* the texts of keys and values
  Latin1,     \* texts whose characters all fit in Latin-1
  Ints,       \* integers, a subset of RustInt
  Rtids,      \* RTIDs other than the null one
  Blobs,      \* byte strings
  Kinds,      \* the kinds of Value there may be inside the root
  Roots,      \* the kinds of Value the root may be
  MaxValues,  \* bound on the values and keys of one file
  MaxDepth,   \* bound on the stack
  MaxLen,     \* bound on the length of one array or object
  Tears,      \* bound on what is lost of a file: how many tokens, in whole or in part
  Word        \* how many numbers a u32 can hold

ASSUME CStringsAssumption == \A s \in Strings : s \in Seq(STRING)
ASSUME CIntsAssumption    == Ints \subseteq RustInt
ASSUME CRtidsAssumption   == Rtids \subseteq RtidOver(Strings)
ASSUME CBlobsAssumption   == \A b \in Blobs : b \in Seq(0 .. 255)
ASSUME CBoundsAssumption  == MaxValues \in Nat /\ MaxDepth \in Nat /\ MaxLen \in Nat
ASSUME WordAssumption     == Word \in Nat /\ Word > 8
ASSUME TearsAssumption    == Tears \subseteq Nat \ {0}

VARIABLES
  result,          (* of to_compact_writer: "new", "run", "sealed", "ok",  *)
                   (* "err", or "panic"                                    *)
  stack,           (* frames [kind, count, left, due, slot]: due when a    *)
                   (* value comes next, slot the word or table to patch    *)
  bytes,           (* items [at, tok, of]                                  *)
  len,             (* bytes.len()                                          *)
  words,           (* the patchable words, by offset                       *)
  latin1_offsets,  (* compact_latin1_offsets_by_string                     *)
  utf32_offsets,   (* compact_utf32_offsets_by_string                      *)
  file,            (* the tokens that the caller's writer has taken        *)
  wrote
offsets == <<latin1_offsets, utf32_offsets>>
cvars   == <<result, stack, bytes, len, words, offsets, file, wrote>>

Frame(kind, n, slot) == [kind |-> kind, count |-> n, left |-> n, due |-> FALSE, slot |-> slot]

CInit == /\ result = "new"
         /\ stack = <<[Frame("doc", 0, 0) EXCEPT !.due = TRUE]>>
         /\ bytes = <<>> /\ len = 0 /\ words = [o \in {} |-> 0]
         /\ latin1_offsets = [s \in {} |-> 0] /\ utf32_offsets = [s \in {} |-> 0]
         /\ file = <<>> /\ wrote = <<>>
-----------------------------------------------------------------------------
Top      == stack[Len(stack)]
ValueDue == result = "run" /\ Top.due
KeyDue   == result = "run" /\ Top.kind = "object" /\ ~Top.due /\ Top.slot = 0
With(f)  == [stack EXCEPT ![Len(stack)] = f]
Used     == With([Top EXCEPT !.due = FALSE])
Closed   == SubSeq(stack, 1, Len(stack) - 1)

(* A value with n parts is begun only if it can be finished in bounds.     *)
Parts(f) == f.left * (IF f.kind = "object" THEN 2 ELSE 1) + IF f.due THEN 1 ELSE 0
Begun    == Cardinality({i \in DOMAIN wrote : wrote[i].kind # "end"})
Owed     == MapThenSumSet(LAMBDA i : Parts(stack[i]), DOMAIN stack)
Room(n)  == Begun + Owed + n <= MaxValues /\ (n > 0 => Len(stack) <= MaxDepth)
May(kind) == kind \in IF Top.kind = "doc" THEN Roots ELSE Kinds

(* "as u32".                                                               *)
U32(n)  == IF n < Word THEN n ELSE n % Word

Emit(tok, part) == /\ bytes' = Append(bytes, [at |-> len, tok |-> tok, of |-> part])
                   /\ len' = len + Size(tok)
Zeros(places)   == words' = [o \in DOMAIN words \cup places |-> IF o \in places THEN 0 ELSE words[o]]
Mutated(o, n)   == [p \in DOMAIN words \cup {o} |-> IF p = o THEN n ELSE words[p]]
patch_u32(o, n) == words' = Mutated(o, n)

(* An error, or a panic: the buffer is dropped.                            *)
Abort(how) == result' = how /\ UNCHANGED <<stack, bytes, len, words, offsets, file, wrote>>
position_u32_fails == len >= Word /\ Abort("err")

write_header == /\ result = "new" /\ result' = "run"
                /\ Emit([tag |-> "(header)", version |-> "compact"], 0)
                /\ UNCHANGED <<stack, words, offsets, file, wrote>>
-----------------------------------------------------------------------------
(* The values that are one token: no integer is varint here, no zero has a *)
(* tag of its own, and an RTID's texts go to no table.                     *)
Scalars == [kind : {"null"}] \cup [kind : {"bool"}, bool : BOOLEAN]
             \cup [kind : {"int"}, int : Ints]
             \cup [kind : {"float"}, ty : {"f32", "f64"}, val : {"-0", "x"}]
             \cup [kind : {"rtid"}, rtid : Rtids \cup {Null}]
CompactRtid(sub, names, nums) == [tag |-> "CompactRtid", sub |-> sub, names |-> names, nums |-> nums]
RtidToken(r) ==
  CASE r.kind = "null" -> CompactRtid(0, <<>>, <<>>)
    [] r.kind = "raw"  -> CompactRtid(3, <<r.name, r.parent>>, <<>>)
    [] r.kind = "uid" /\ r.name = None -> CompactRtid(1, <<>>, <<r.group, r.id, r.obj>>)
    [] r.kind = "uid" /\ r.name # None ->
         CompactRtid(2, <<Unwrap(r.name)>>, <<r.group, r.id, r.obj>>)
ScalarToken(v) ==
  CASE v.kind = "null"  -> CompactRtid(0, <<>>, <<>>)
    [] v.kind = "bool"  -> [tag |-> "CompactBoolean", byte |-> IF v.bool THEN 1 ELSE 0]
    [] v.kind = "int"   -> FixedInt(v.int)
    [] v.kind = "float" -> [tag |-> IF v.ty = "f32" THEN "F32" ELSE "F64", val |-> v.val]
    [] v.kind = "rtid"  -> RtidToken(v.rtid)

write_scalar(v) == /\ ValueDue /\ May(v.kind) /\ Room(0)
                   /\ Emit(ScalarToken(v), Len(wrote) + 1)
                   /\ wrote' = Append(wrote, v)
                   /\ stack' = Used
                   /\ UNCHANGED <<result, words, offsets, file>>
-----------------------------------------------------------------------------
(* write_compact_latin1_string and write_compact_utf32_string.  The length *)
(* counts the zero at the end; where the sum or the product passes u32 a   *)
(* debug build panics and a release build goes on with what is left of it. *)
Wide(s)       == s \notin Latin1
Offsets(wide) == IF wide THEN utf32_offsets ELSE latin1_offsets
DefTag(wide, paired) ==
  IF paired THEN IF wide THEN "CompactUtf32StringDefinitionWithValueOffset"
                         ELSE "CompactLatin1StringDefinitionWithValueOffset"
            ELSE IF wide THEN "CompactUtf32StringDefinition" ELSE "CompactLatin1StringDefinition"
RefTag(wide, paired) ==
  IF paired THEN IF wide THEN "CompactUtf32StringReferenceWithValueOffset"
                         ELSE "CompactLatin1StringReferenceWithValueOffset"
            ELSE IF wide THEN "CompactUtf32StringReference" ELSE "CompactLatin1StringReference"
Unit(wide)       == IF wide THEN 4 ELSE 1
LengthPastU32(s, wide) == (U32(Len(s)) + 1) * Unit(wide) >= Word
DefToken(s, wide, paired) == [tag |-> DefTag(wide, paired), str |-> Append(s, "NUL"),
                              len |-> U32((U32(Len(s)) + 1) * Unit(wide))]
RefToken(s, wide, paired) == [tag |-> RefTag(wide, paired), word |-> Offsets(wide)[s]]

(* Mutant of Learn: where the definition begins, and not its text.         *)
LearnTag(s, wide) ==
  LET Learned(f) == [t \in DOMAIN f \cup {s} |-> IF t = s THEN len ELSE f[t]]
  IN  /\ latin1_offsets' = IF wide THEN latin1_offsets ELSE Learned(latin1_offsets)
      /\ utf32_offsets' = IF wide THEN Learned(utf32_offsets) ELSE utf32_offsets
Learn(s, wide) ==
  LET Learned(f) == [t \in DOMAIN f \cup {s} |-> IF t = s THEN len + 5 ELSE f[t]]
  IN  /\ latin1_offsets' = IF wide THEN latin1_offsets ELSE Learned(latin1_offsets)
      /\ utf32_offsets' = IF wide THEN Learned(utf32_offsets) ELSE utf32_offsets

(* write_aux_placeholder, if the string is a key: the word after it.       *)
Aux(tok)        == len + Size(tok) - 4
Placeholder(tok, paired) == IF paired THEN Zeros({Aux(tok)}) ELSE UNCHANGED words

(* Mutant of write_compact_string: the offset is taken as it comes.        *)
write_compact_string_unchecked(s, wide, paired, part) ==
  \/ /\ s \in DOMAIN Offsets(wide)
     /\ Emit(RefToken(s, wide, paired), part)
     /\ Placeholder(RefToken(s, wide, paired), paired)
     /\ UNCHANGED offsets
  \/ /\ s \notin DOMAIN Offsets(wide)
     /\ Emit(DefToken(s, wide, paired), part)
     /\ Placeholder(DefToken(s, wide, paired), paired)
     /\ Learn(s, wide)
write_compact_string(s, wide, paired, part) ==
  \/ /\ s \in DOMAIN Offsets(wide)
     /\ Emit(RefToken(s, wide, paired), part)
     /\ Placeholder(RefToken(s, wide, paired), paired)
     /\ UNCHANGED offsets
  \/ /\ s \notin DOMAIN Offsets(wide) /\ len + 5 < Word
     /\ Emit(DefToken(s, wide, paired), part)
     /\ Placeholder(DefToken(s, wide, paired), paired)
     /\ Learn(s, wide)
string_fails(s, wide) ==
  /\ s \notin DOMAIN Offsets(wide)
  /\ \/ LengthPastU32(s, wide) /\ Abort("panic")
     \/ len + 5 >= Word /\ Abort("err")

write_string(s) ==
  /\ ValueDue /\ May("string") /\ Room(0)
  /\ \/ /\ write_compact_string(s, Wide(s), FALSE, Len(wrote) + 1)
        /\ wrote' = Append(wrote, [kind |-> "string", str |-> s])
        /\ stack' = Used
        /\ UNCHANGED <<result, file>>
     \/ string_fails(s, Wide(s))
-----------------------------------------------------------------------------
(* write_binary_blob: the hexadecimal text shares the table of the Latin-1 *)
(* strings.                                                                *)
write_binary_blob(b) ==
  /\ ValueDue /\ May("binary") /\ Room(0)
  /\ Emit([tag |-> "CompactBinaryBlob"], Len(wrote) + 1)
  /\ wrote' = Append(wrote, [kind |-> "binary", bytes |-> b])
  /\ stack' = Append(Used, Frame("binary", 2, 0))
  /\ UNCHANGED <<result, words, offsets, file>>
InBlob == result = "run" /\ Top.kind = "binary"
Blob   == wrote[Len(wrote)].bytes
blob_text ==
  /\ InBlob /\ Top.left = 2
  /\ \/ /\ write_compact_string(HexStr(Blob), FALSE, FALSE, Len(wrote))
        /\ stack' = With([Top EXCEPT !.left = 1])
        /\ UNCHANGED <<result, file, wrote>>
     \/ string_fails(HexStr(Blob), FALSE)
blob_raw ==
  /\ InBlob /\ Top.left = 1
  /\ Emit([tag |-> "(raw)", declared |-> U32(Len(Blob)), raw |-> Blob], Len(wrote))
  /\ stack' = Closed
  /\ UNCHANGED <<result, words, offsets, file, wrote>>
-----------------------------------------------------------------------------
(* write_array: a table with the offset of every element and of the end,   *)
(* six bytes into the array.                                               *)
TableAt(slot, n) == {slot + 4 * i : i \in 0 .. n}
write_array(n) ==
  /\ ValueDue /\ May("array") /\ Room(n)
  /\ Emit([tag |-> "CompactArrayBegin", count |-> U32(n), table |-> [i \in 1 .. n + 1 |-> 0]],
          Len(wrote) + 1)
  /\ Zeros(TableAt(len + 6, n))
  /\ wrote' = Append(wrote, [kind |-> "array"])
  /\ stack' = Append(Used, Frame("array", n, len + 6))
  /\ UNCHANGED <<result, offsets, file>>

InArray == result = "run" /\ Top.kind = "array" /\ ~Top.due
element_offset ==
  /\ InArray /\ Top.left > 0
  /\ \/ /\ len < Word
        /\ patch_u32(Top.slot + 4 * (Top.count - Top.left), len)
        /\ stack' = With([Top EXCEPT !.left = @ - 1, !.due = TRUE])
        /\ UNCHANGED <<result, bytes, len, offsets, file, wrote>>
     \/ position_u32_fails
(* Mutant of end_array: the last entry is left as it is.                   *)
end_array_unpatched ==
  /\ InArray /\ Top.left = 0
  /\ \/ /\ len < Word
        /\ wrote' = Append(wrote, [kind |-> "end", of |-> "array"])
        /\ stack' = Closed
        /\ UNCHANGED <<result, bytes, len, words, offsets, file>>
     \/ position_u32_fails
end_array ==
  /\ InArray /\ Top.left = 0
  /\ \/ /\ len < Word
        /\ patch_u32(Top.slot + 4 * Top.count, len)
        /\ wrote' = Append(wrote, [kind |-> "end", of |-> "array"])
        /\ stack' = Closed
        /\ UNCHANGED <<result, bytes, len, offsets, file>>
     \/ position_u32_fails
-----------------------------------------------------------------------------
(* write_object: keys are paired with the offset where their value ends.   *)
write_object(n) ==
  /\ ValueDue /\ May("object") /\ Room(2 * n)
  /\ Emit([tag |-> "CompactObjectBegin"], Len(wrote) + 1)
  /\ wrote' = Append(wrote, [kind |-> "object"])
  /\ stack' = Append(Used, Frame("object", n, 0))
  /\ UNCHANGED <<result, words, offsets, file>>

write_key(s) ==
  /\ KeyDue /\ Top.left > 0
  /\ \/ /\ write_compact_string(s, Wide(s), TRUE, Len(wrote) + 1)
        /\ wrote' = Append(wrote, [kind |-> "key", str |-> s])
        /\ stack' = With([Top EXCEPT !.left = @ - 1, !.due = TRUE, !.slot = len' - 4])
        /\ UNCHANGED <<result, file>>
     \/ string_fails(s, Wide(s))

(* Mutants of value_offset: the position is cut to u32, as lengths are;    *)
(* the word before is patched.                                             *)
value_offset_cut ==
  /\ result = "run" /\ Top.kind = "object" /\ ~Top.due /\ Top.slot # 0
  /\ patch_u32(Top.slot, U32(len))
  /\ stack' = With([Top EXCEPT !.slot = 0])
  /\ UNCHANGED <<result, bytes, len, offsets, file, wrote>>
value_offset_before ==
  /\ result = "run" /\ Top.kind = "object" /\ ~Top.due /\ Top.slot # 0
  /\ \/ /\ len < Word
        /\ patch_u32(Top.slot - 4, len)
        /\ stack' = With([Top EXCEPT !.slot = 0])
        /\ UNCHANGED <<result, bytes, len, offsets, file, wrote>>
     \/ position_u32_fails
value_offset ==
  /\ result = "run" /\ Top.kind = "object" /\ ~Top.due /\ Top.slot # 0
  /\ \/ /\ len < Word
        /\ patch_u32(Top.slot, len)
        /\ stack' = With([Top EXCEPT !.slot = 0])
        /\ UNCHANGED <<result, bytes, len, offsets, file, wrote>>
     \/ position_u32_fails

end_object ==
  /\ KeyDue /\ Top.left = 0
  /\ Emit([tag |-> "ObjectEnd"], Len(wrote) + 1)
  /\ wrote' = Append(wrote, [kind |-> "end", of |-> "object"])
  /\ stack' = Closed
  /\ UNCHANGED <<result, words, offsets, file>>
-----------------------------------------------------------------------------
write_footer ==
  /\ result = "run" /\ Top.kind = "doc" /\ ~Top.due
  /\ Emit([tag |-> "(footer)"], Len(wrote) + 1)
  /\ result' = "sealed"
  /\ UNCHANGED <<stack, words, offsets, file, wrote>>

(* write_all: the whole buffer at once, with its words as they are now; or *)
(* a part of it and an error.                                              *)
TokenIn(item) ==
  IF item.tok.tag = "CompactArrayBegin"
  THEN [item.tok EXCEPT !.table = [k \in DOMAIN @ |-> words[item.at + 2 + 4 * k]]]
  ELSE item.tok
Tokens == [i \in DOMAIN bytes |-> TokenIn(bytes[i])]
write_all ==
  /\ result = "sealed"
  /\ \/ result' = "ok" /\ file' = Tokens
     \/ /\ result' = "err"
        /\ \E n \in {Len(bytes) - t : t \in Tears} :
             file' \in {SubSeq(Tokens, 1, n), Append(SubSeq(Tokens, 1, n), [tag |-> "(torn)"])}
  /\ UNCHANGED <<stack, bytes, len, words, offsets, wrote>>

CNext == \/ write_header \/ write_footer \/ write_all
         \/ \E v \in Scalars : write_scalar(v)
         \/ \E s \in Strings : write_string(s) \/ write_key(s)
         \/ \E b \in Blobs : write_binary_blob(b)
         \/ blob_text \/ blob_raw
         \/ \E n \in 0 .. MaxLen : write_array(n) \/ write_object(n)
         \/ element_offset \/ end_array \/ value_offset \/ end_object
CSpec == CInit /\ [][CNext]_cvars
-----------------------------------------------------------------------------
Texts    == Strings \cup {HexStr(b) : b \in Blobs}
Part     == Scalars \cup [kind : {"string", "key"}, str : Strings]
              \cup [kind : {"binary"}, bytes : Blobs]
              \cup [kind : {"array", "object"}]
              \cup [kind : {"end"}, of : {"array", "object"}]
CToken   == [tag : {"CompactBinaryBlob", "CompactObjectBegin", "ObjectEnd", "(footer)"}]
              \cup [tag : {"(header)"}, version : {"compact"}]
              \cup [tag : CompactDefs, str : {Append(s, "NUL") : s \in Texts}, len : Nat]
              \cup [tag : CompactRefs, word : Nat]
              \cup [tag : {"CompactArrayBegin"}, count : Nat, table : Seq({0})]
              \cup [tag : {"(raw)"}, declared : Nat, raw : Blobs]
              \cup {ScalarToken(v) : v \in Scalars}
Item     == [at : Nat, tok : CToken, of : Nat]
FrameSet == [kind : {"doc", "array", "object", "binary"}, count : Nat, left : Nat, due : BOOLEAN, slot : Nat]

(* The types; every offset that has been handed out is a u32.              *)
TypeOK ==
  /\ result \in {"new", "run", "sealed", "ok", "err", "panic"}
  /\ stack \in Seq(FrameSet) /\ stack # <<>>
  /\ bytes \in Seq(Item) /\ len \in Nat
  /\ \A o \in DOMAIN words : o \in Nat /\ words[o] \in 0 .. Word - 1
  /\ DOMAIN latin1_offsets \subseteq Texts /\ DOMAIN utf32_offsets \subseteq Strings
  /\ \A s \in DOMAIN latin1_offsets : latin1_offsets[s] \in 0 .. Word - 1
  /\ \A s \in DOMAIN utf32_offsets : utf32_offsets[s] \in 0 .. Word - 1
  /\ wrote \in Seq(Part)

(* Every definition holds the text that was asked for, and every reference *)
(* is the offset of the text of a definition before it, in the same        *)
(* encoding, of the text that was asked for; a blob asks for its           *)
(* hexadecimal digits, whatever strings have the same characters.          *)
Asked(item) == LET v == wrote[item.of] IN IF v.kind = "binary" THEN HexStr(v.bytes) ELSE v.str
DefsOf(ref) == IF ref \in Latin1Refs THEN Latin1Defs ELSE Utf32Defs
Stands(item, s) == item.tok.tag \in CompactDefs /\ item.tok.str = Append(s, "NUL")
OffsetsResolve ==
  \A i \in DOMAIN bytes :
    LET tok == bytes[i].tok
    IN  /\ tok.tag \in CompactDefs => Stands(bytes[i], Asked(bytes[i]))
        /\ tok.tag \in CompactRefs =>
             \E j \in 1 .. i - 1 : /\ Stands(bytes[j], Asked(bytes[i]))
                                   /\ bytes[j].tok.tag \in DefsOf(tok.tag)
                                   /\ tok.word = bytes[j].at + 5

(* The lengths and counts that are cut to u32 without a check ("as u32")   *)
(* are right in every file that is finished, if the root is a container:   *)
(* whatever is too long makes a later offset fail.                         *)
Fits(tok) ==
  /\ tok.tag \in Latin1Defs => tok.len = Len(tok.str)
  /\ tok.tag \in Utf32Defs  => tok.len = 4 * Len(tok.str)
  /\ tok.tag = "CompactArrayBegin" => tok.count + 1 = Len(tok.table)
  /\ tok.tag = "(raw)" => tok.declared = Len(tok.raw)
WordsFit ==
  result \in {"sealed", "ok"} /\ wrote[1].kind \in {"array", "object"} =>
    \A i \in DOMAIN bytes : Fits(bytes[i].tok)

(* A patch lands on a word that was left for it, and no word is patched    *)
(* twice.                                                                  *)
PatchedOnce ==
  [][/\ bytes' = bytes => DOMAIN words' = DOMAIN words
     /\ \A o \in DOMAIN words : words[o] # 0 => words'[o] = words[o]]_cvars
=============================================================================
