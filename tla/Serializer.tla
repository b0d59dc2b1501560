----------------------------- MODULE Serializer -----------------------------
(***************************************************************************)
(* to_writer and the standard Serializer of ser.rs.  Every serde call on   *)
(* the Serializer is an action; which call comes next is up to the value   *)
(* being serialized, whose open containers and newtypes are the stack.     *)
(* The stream is a sequence of tokens: a tag with its payload, except that *)
(* ArrayCapacity is a token of its own and that the untagged pieces of an  *)
(* RTID body (and of a unit variant) are tokens named in parentheses.      *)
(*                                                                         *)
(* wrote and origin are history: the values passed in so far, containers   *)
(* bracketed, and for each token the value it belongs to.                  *)
(***************************************************************************)
EXTENDS IntCodec, RtidValue, BlobText

CONSTANTS
  Strings,       \* the texts that may be serialized
  Latin1,        \* texts whose characters all fit in Latin-1
  Asterisk,      \* the text "*"
  RtidNullText,  \* the text "RTID(0)"
  Ints,          \* integers, a subset of RustInt
  Rtids,         \* RTIDs other than the null one
  Blobs,         \* byte strings
  Calls,         \* the kinds of call values may make
  Roots,         \* the kinds of call the root value may make
  MaxValues,     \* bound on the values (keys and containers too) of one file
  MaxDepth,      \* bound on the stack
  MaxLen         \* bound on the length of one sequence, tuple or map

ASSUME StringsAssumption == Asterisk # RtidNullText /\ {Asterisk, RtidNullText} \subseteq Latin1
ASSUME TextsAssumption  == \A s \in Strings : s \in Seq(STRING)
ASSUME IntsAssumption   == Ints \subseteq RustInt
ASSUME RtidsAssumption  == Rtids \subseteq RtidOver(Strings)
ASSUME BlobsAssumption  == \A b \in Blobs : b \in Seq(0 .. 255)
ASSUME BoundsAssumption == MaxValues \in Nat /\ MaxDepth \in Nat /\ MaxLen \in Nat

VARIABLES
  result,          (* of to_writer: "new", "run", "ok" or "err"            *)
  stack,           (* frames [kind, left, todo], innermost last            *)
  out,             (* what the underlying writer has taken                 *)
  latin1_indices,  (* standard_latin1_indices_by_string                    *)
  next_latin1,     (* next_standard_latin1_string_index                    *)
  utf8_indices,    (* standard_utf8_indices_by_string                      *)
  next_utf8,       (* next_standard_utf8_string_index                      *)
  is_root,
  pending_varint,  (* "None" or the newtype that set it                    *)
  pending_rtid,
  pending_direct,  (* pending_direct_str                                   *)
  wrote,
  origin
tables == <<latin1_indices, next_latin1, utf8_indices, next_utf8>>
flags  == <<pending_varint, pending_rtid, pending_direct>>
svars  == <<result, stack, out, tables, is_root, flags, wrote, origin>>

VarInts  == {"VarIntI32", "VarIntU32", "VarIntI64", "VarIntU64"}
Newtypes == VarInts \cup {"RTID", "DirectStr"}
VarIntType(name) == CASE name = "VarIntI32" -> "i32" [] name = "VarIntU32" -> "u32"
                      [] name = "VarIntI64" -> "i64" [] name = "VarIntU64" -> "u64"

Init ==
  /\ result = "new"
  /\ stack = <<[kind |-> "doc", left |-> 1, todo |-> <<>>]>>
  /\ out = <<>> /\ wrote = <<>> /\ origin = <<>>
  /\ latin1_indices = [s \in {} |-> 0] /\ next_latin1 = 0
  /\ utf8_indices = [s \in {} |-> 0] /\ next_utf8 = 0
  /\ is_root = TRUE
  /\ pending_varint = "None" /\ pending_rtid = FALSE /\ pending_direct = FALSE
-----------------------------------------------------------------------------
(* Whose turn it is.                                                       *)
Top       == stack[Len(stack)]
InNewtype == Top.kind \in Newtypes

(* The value in progress may make call c now: a newtype makes the calls of *)
(* its todo list in order, the others any call they have room for; the     *)
(* keys of a map are strings.                                              *)
MayCall(c) ==
  /\ result = "run" /\ Top.left > 0
  /\ CASE InNewtype         -> c = Top.todo[Len(Top.todo) - Top.left + 1]
       [] Top.kind = "doc"  -> c.call \in Roots
       [] Top.kind = "map"  -> c.call \in Calls /\ (Top.left % 2 = 0 => c.call = "str")
       [] Top.kind \in {"seq", "tuple"} -> c.call \in Calls

Used            == [stack EXCEPT ![Len(stack)].left = @ - 1]
Opened(k, n, t) == Append(Used, [kind |-> k, left |-> n, todo |-> t])
Closed          == SubSeq(stack, 1, Len(stack) - 1)

(* A value with n parts is begun only if it can be finished in bounds.     *)
Begun   == Cardinality({i \in DOMAIN wrote : wrote[i].is.call # "end"})
Owed    == MapThenSumSet(LAMBDA i : stack[i].left, DOMAIN stack)
Room(n) == InNewtype \/ (Begun + Owed + n <= MaxValues /\ (n > 0 => Len(stack) <= MaxDepth))

(* Record a call, with the newtype it is wrapped in, and the tokens it     *)
(* comes to.  The calls of an RTID's body are part of the RTID.            *)
Record(c) == wrote' = IF Top.kind = "RTID" THEN wrote
                      ELSE Append(wrote, [is |-> c, wrap |-> IF InNewtype THEN Top.kind ELSE "plain"])
Emit(tokens) == /\ out' = out \o tokens
                /\ origin' = origin \o [i \in 1 .. Len(tokens) |-> Len(wrote')]

(* A call that writes one value and touches nothing but the stream.        *)
Plain(c, token) ==
  /\ MayCall(c) /\ Room(0)
  /\ Record(c) /\ Emit(<<token>>)
  /\ stack' = Used
  /\ UNCHANGED <<result, tables, is_root, flags>>
-----------------------------------------------------------------------------
(* to_writer: the header, the value, the footer.                           *)
write_header ==
  /\ result = "new" /\ result' = "run"
  /\ UNCHANGED <<stack, tables, is_root, flags, wrote>>
  /\ Emit(<<[tag |-> "(header)", version |-> "standard"]>>)

write_footer ==
  /\ result = "run" /\ Len(stack) = 1 /\ Top.left = 0
  /\ result' = "ok"
  /\ UNCHANGED <<stack, tables, is_root, flags, wrote>>
  /\ Emit(<<[tag |-> "(footer)"]>>)

serialize_bool(b) ==
  Plain([call |-> "bool", bool |-> b], [tag |-> IF b THEN "BooleanTrue" ELSE "BooleanFalse"])

(* serialize_f32 and serialize_f64: both zeros compare equal to 0.0.       *)
serialize_float(ty, x) ==
  Plain([call |-> "float", ty |-> ty, val |-> x],
        IF x \in {"+0", "-0"} THEN [tag |-> IF ty = "f32" THEN "F32Zero" ELSE "F64Zero"]
                              ELSE [tag |-> IF ty = "f32" THEN "F32" ELSE "F64", val |-> x])

(* serialize_none, _unit and _unit_struct, and Rtid::Null.                 *)
serialize_none == Plain([call |-> "none"], [tag |-> "RtidNull"])

serialize_bytes(b) == Plain([call |-> "bytes", bytes |-> b],
                            [tag |-> "BinaryBlob", hex |-> HexStr(b), declared |-> Len(b), raw |-> b])

(* OverrideByte inside an RTID, and the unit variant of any enum: its      *)
(* index, as a byte, where a tag is expected.                              *)
serialize_unit_variant(i) ==
  Plain([call |-> "unit_variant", index |-> i], [tag |-> "(byte)", byte |-> i])

(* serialize_i8 .. serialize_u64.  Without a tag the bit length stands for *)
(* the number.                                                             *)
serialize_int(v) ==
  LET forced == pending_varint \in VarInts /\ VarIntType(pending_varint) = v.ty
  IN  Plain([call |-> "int", int |-> v],
            IF pending_rtid /\ v.ty \in {"u32", "u64"}
            THEN [tag |-> IF v.ty = "u32" THEN "(u32)" ELSE "(varint)", num |-> v.bits]
            ELSE EncodeInt(v, forced))

(* serialize_u64 and serialize_u32 on the numbers of an RTID body.         *)
serialize_number(wire, n) ==
  Plain([call |-> "number", wire |-> wire, num |-> n],
        IF pending_rtid THEN [tag |-> wire, num |-> n]
        ELSE [tag |-> IF wire = "(u32)" THEN "U32" ELSE "U64", bits |-> n, odd |-> FALSE])
-----------------------------------------------------------------------------
(* write_interned_string: a string is defined where it first appears in    *)
(* its encoding and referred to by its rank among those from then on.      *)
Interned(s) ==
  CASE s \in Latin1 /\ s \in DOMAIN latin1_indices ->
         [tag |-> "StringLatin1Reference", idx |-> latin1_indices[s]]
    [] s \in Latin1 /\ s \notin DOMAIN latin1_indices ->
         [tag |-> "StringLatin1Definition", str |-> s]
    [] s \notin Latin1 /\ s \in DOMAIN utf8_indices ->
         [tag |-> "StringUtf8Reference", idx |-> utf8_indices[s]]
    [] s \notin Latin1 /\ s \notin DOMAIN utf8_indices ->
         [tag |-> "StringUtf8Definition", str |-> s]

Insert(f, s, n) == [t \in DOMAIN f \cup {s} |-> IF t = s THEN n ELSE f[t]]

(* Mutants of Intern: the index is not counted up; the text is not kept.   *)
InternUncounted(s) ==
  /\ latin1_indices' = IF s \in Latin1 /\ s \notin DOMAIN latin1_indices
                       THEN Insert(latin1_indices, s, next_latin1) ELSE latin1_indices
  /\ utf8_indices' = IF s \notin Latin1 /\ s \notin DOMAIN utf8_indices
                     THEN Insert(utf8_indices, s, next_utf8) ELSE utf8_indices
  /\ UNCHANGED <<next_latin1, next_utf8>>
InternForgotten(s) ==
  /\ next_latin1' = IF s \in Latin1 THEN next_latin1 + 1 ELSE next_latin1
  /\ next_utf8' = IF s \in Latin1 THEN next_utf8 ELSE next_utf8 + 1
  /\ UNCHANGED <<latin1_indices, utf8_indices>>

Intern(s) ==
  /\ IF s \in Latin1 /\ s \notin DOMAIN latin1_indices
     THEN /\ latin1_indices' = Insert(latin1_indices, s, next_latin1)
          /\ next_latin1' = next_latin1 + 1
     ELSE UNCHANGED <<latin1_indices, next_latin1>>
  /\ IF s \notin Latin1 /\ s \notin DOMAIN utf8_indices
     THEN /\ utf8_indices' = Insert(utf8_indices, s, next_utf8)
          /\ next_utf8' = next_utf8 + 1
     ELSE UNCHANGED <<utf8_indices, next_utf8>>

(* Mutant of Direct: the tag without the text.                             *)
DirectTagOnly(s) == [tag |-> IF s \in Latin1 THEN "StringLatin1Direct" ELSE "StringUtf8Direct"]

(* write_direct_string.                                                    *)
Direct(s) == [tag |-> IF s \in Latin1 THEN "StringLatin1Direct" ELSE "StringUtf8Direct",
              str |-> s]

(* serialize_str, in the order of its early returns.                       *)
StrToken(s) == CASE pending_rtid -> [tag |-> "(utf8)", str |-> s]
                 [] ~pending_rtid /\ s = Asterisk -> [tag |-> "StringAsterisk"]
                 [] ~pending_rtid /\ s = RtidNullText -> [tag |-> "RtidNull"]
                 [] ~pending_rtid /\ s \notin {Asterisk, RtidNullText} ->
                      IF pending_direct THEN Direct(s) ELSE Interned(s)
GoesToTable(s) == ~pending_rtid /\ s \notin {Asterisk, RtidNullText} /\ ~pending_direct

serialize_str(s) ==
  LET c == [call |-> "str", str |-> s]
  IN  /\ MayCall(c) /\ Room(0)
      /\ Record(c) /\ Emit(<<StrToken(s)>>)
      /\ IF GoesToTable(s) THEN Intern(s) ELSE UNCHANGED tables
      /\ stack' = Used
      /\ UNCHANGED <<result, is_root, flags>>
-----------------------------------------------------------------------------
serialize_seq(n) ==
  LET c == [call |-> "seq", len |-> n]
  IN  /\ MayCall(c) /\ Room(n)
      /\ Record(c)
      /\ Emit(<<[tag |-> "ArrayBegin"], [tag |-> "ArrayCapacity", cap |-> n]>>)
      /\ stack' = Opened("seq", n, <<>>)
      /\ UNCHANGED <<result, tables, is_root, flags>>

(* Mutant of serialize_map: every map is taken for the root.               *)
serialize_map_as_root(n) ==
  LET c == [call |-> "map", len |-> n]
  IN  /\ MayCall(c) /\ Room(2 * n)
      /\ Record(c)
      /\ Emit(IF is_root THEN <<>> ELSE <<[tag |-> "ObjectBegin"]>>)
      /\ stack' = Opened("map", 2 * n, <<>>)
      /\ UNCHANGED <<result, tables, is_root, flags>>

(* serialize_map and serialize_struct, with n entries to come.             *)
serialize_map(n) ==
  LET c == [call |-> "map", len |-> n]
  IN  /\ MayCall(c) /\ Room(2 * n)
      /\ Record(c)
      /\ Emit(IF is_root THEN <<>> ELSE <<[tag |-> "ObjectBegin"]>>)
      /\ is_root' = FALSE
      /\ stack' = Opened("map", 2 * n, <<>>)
      /\ UNCHANGED <<result, tables, flags>>

(* A tuple has neither a beginning nor an end in the stream.               *)
serialize_tuple(n) ==
  LET c == [call |-> "tuple", len |-> n]
  IN  /\ MayCall(c) /\ Room(n)
      /\ Record(c) /\ Emit(<<>>)
      /\ stack' = Opened("tuple", n, <<>>)
      /\ UNCHANGED <<result, tables, is_root, flags>>

(* SerializeSeq::end, SerializeMap::end, SerializeStruct::end and          *)
(* SerializeTuple::end.                                                    *)
End(kind, tokens) ==
  /\ result = "run" /\ Top.kind = kind /\ Top.left = 0
  /\ Record([call |-> "end", of |-> kind]) /\ Emit(tokens)
  /\ stack' = Closed
  /\ UNCHANGED <<result, tables, is_root, flags>>
end_seq   == End("seq", <<[tag |-> "ArrayEnd"]>>)
end_map   == End("map", <<[tag |-> "ObjectEnd"]>>)
end_tuple == End("tuple", <<>>)
-----------------------------------------------------------------------------
(* serialize_newtype_struct: the call before, and what follows the inner   *)
(* value.                                                                  *)
newtype_rtid(r) ==
  LET c == [call |-> "rtid", rtid |-> r]
  IN  /\ MayCall(c) /\ Room(0)
      /\ Record(c) /\ Emit(<<[tag |-> "Rtid"]>>)
      /\ pending_rtid' = TRUE
      /\ stack' = Opened("RTID", Len(RtidBody(r)), RtidBody(r))
      /\ UNCHANGED <<result, tables, is_root, pending_varint, pending_direct>>

newtype_varint(name, v) ==
  /\ MayCall([call |-> "varint"]) /\ Room(0)
  /\ v.ty = VarIntType(name)
  /\ pending_varint' = name
  /\ stack' = Opened(name, 1, <<[call |-> "int", int |-> v]>>)
  /\ UNCHANGED <<result, out, tables, is_root, pending_rtid, pending_direct, wrote, origin>>

newtype_direct(s) ==
  /\ MayCall([call |-> "direct"]) /\ Room(0)
  /\ pending_direct' = TRUE
  /\ stack' = Opened("DirectStr", 1, <<Str(s)>>)
  /\ UNCHANGED <<result, out, tables, is_root, pending_varint, pending_rtid, wrote, origin>>

(* Mutant of end_newtype: the varint wrapper is never taken off.           *)
end_newtype_keeping_varint ==
  /\ result = "run" /\ InNewtype /\ Top.left = 0
  /\ pending_rtid' = IF Top.kind = "RTID" THEN FALSE ELSE pending_rtid
  /\ pending_direct' = IF Top.kind = "DirectStr" THEN FALSE ELSE pending_direct
  /\ stack' = Closed
  /\ UNCHANGED <<result, out, tables, is_root, pending_varint, wrote, origin>>

end_newtype ==
  /\ result = "run" /\ InNewtype /\ Top.left = 0
  /\ pending_rtid' = IF Top.kind = "RTID" THEN FALSE ELSE pending_rtid
  /\ pending_direct' = IF Top.kind = "DirectStr" THEN FALSE ELSE pending_direct
  /\ pending_varint' = IF Top.kind \in VarInts THEN "None" ELSE pending_varint
  /\ stack' = Closed
  /\ UNCHANGED <<result, out, tables, is_root, wrote, origin>>
-----------------------------------------------------------------------------
(* A call of serde that ends in Err before it writes: a sequence of        *)
(* unknown length, a char, a tuple struct, an enum variant with fields.    *)
(* Or the writer refuses, having taken part of a token or none of it (not  *)
(* when a root map is next: its beginning is not written).  The            *)
(* error travels up through every open call with the "?" operator; on the  *)
(* way the RTID and DirectStr newtypes put their flag back and the VarInt  *)
(* ones do not.                                                            *)
Unwind == /\ result' = "err" /\ stack' = <<>>
          /\ pending_rtid' = FALSE /\ pending_direct' = FALSE
          /\ UNCHANGED <<pending_varint, tables, is_root, wrote>>

serialize_unsupported == /\ MayCall([call |-> "unsupported"])
                         /\ Unwind
                         /\ UNCHANGED <<out, origin>>

write_fails == /\ result \in {"new", "run"}
               /\ result = "run" /\ Len(stack) = 1 /\ Top.left = 1 => Roots # {"map"}
               /\ Unwind
               /\ \/ UNCHANGED <<out, origin>>
                  \/ Emit(<<[tag |-> "(torn)"]>>)
-----------------------------------------------------------------------------
Lens   == 0 .. MaxLen
Floats == {"-0", "x"}  \* a zero with a sign and a number that is no zero
Numbers(r) == {r.group, r.id, r.obj}
RtidNumbers == UNION {Numbers(r) : r \in {q \in Rtids : q.kind = "uid"}}

Next ==
  \/ write_header \/ write_footer
  \/ \E b \in BOOLEAN : serialize_bool(b)
  \/ \E ty \in {"f32", "f64"}, x \in Floats : serialize_float(ty, x)
  \/ \E v \in Ints : serialize_int(v)
  \/ \E w \in {"(varint)", "(u32)"}, n \in RtidNumbers : serialize_number(w, n)
  \/ \E s \in Strings : serialize_str(s)
  \/ \E b \in Blobs : serialize_bytes(b)
  \/ \E i \in 0 .. 3 : serialize_unit_variant(i)
  \/ serialize_none
  \/ \E n \in Lens : serialize_seq(n) \/ serialize_map(n) \/ serialize_tuple(n)
  \/ end_seq \/ end_map \/ end_tuple
  \/ \E r \in Rtids : newtype_rtid(r)
  \/ \E name \in VarInts, v \in Ints : newtype_varint(name, v)
  \/ \E s \in Strings : newtype_direct(s)
  \/ end_newtype
  \/ serialize_unsupported \/ write_fails

Spec == Init /\ [][Next]_svars
-----------------------------------------------------------------------------
(* The calls a newtype makes, the calls a value makes, tokens, frames.     *)
BodyCall == [call : {"unit_variant"}, index : Nat]
              \cup [call : {"str"}, str : Strings]
              \cup [call : {"number"}, wire : {"(varint)", "(u32)"}, num : Nat]
              \cup [call : {"int"}, int : RustInt]
Call     == BodyCall
              \cup [call : {"bool"}, bool : BOOLEAN]
              \cup [call : {"float"}, ty : {"f32", "f64"}, val : Floats]
              \cup [call : {"none"}]
              \cup [call : {"bytes"}, bytes : Blobs]
              \cup [call : {"seq", "map", "tuple"}, len : Nat]
              \cup [call : {"end"}, of : {"seq", "map", "tuple"}]
              \cup [call : {"rtid"}, rtid : Rtids]
Entry    == [is : Call, wrap : {"plain"} \cup Newtypes]
Frame    == [kind : {"doc", "seq", "map", "tuple"} \cup Newtypes, left : Nat, todo : Seq(BodyCall)]

DefinitionTags == {"StringLatin1Definition", "StringUtf8Definition"}
ReferenceTags  == {"StringLatin1Reference", "StringUtf8Reference"}
DirectTags     == {"StringLatin1Direct", "StringUtf8Direct"}
Token ==
  [tag : {"BooleanTrue", "BooleanFalse", "F32Zero", "F64Zero", "RtidNull", "StringAsterisk", "Rtid",
          "ArrayBegin", "ArrayEnd", "ObjectBegin", "ObjectEnd", "(footer)", "(torn)"}]
    \cup [tag : {"(header)"}, version : {"standard"}]
    \cup [tag : {"F32", "F64"}, val : Floats]
    \cup {[tag |-> "BinaryBlob", hex |-> HexStr(b), declared |-> Len(b), raw |-> b] : b \in Blobs}
    \cup [tag : {"ArrayCapacity"}, cap : Nat]
    \cup [tag : {"(byte)"}, byte : Nat]
    \cup [tag : {"(varint)", "(u32)"}, num : Nat]
    \cup [tag : IntTags, bits : Nat, odd : BOOLEAN]
    \cup [tag : {"(utf8)"} \cup DefinitionTags \cup DirectTags, str : Strings]
    \cup [tag : ReferenceTags, idx : Nat]

(* The types.                                                              *)
TypeOK ==
  /\ result \in {"new", "run", "ok", "err"}
  /\ stack \in Seq(Frame)
  /\ out \in Seq(Token)
  /\ wrote \in Seq(Entry)
  /\ origin \in Seq(Nat) /\ Len(origin) = Len(out)
  /\ latin1_indices \in [DOMAIN latin1_indices -> Nat] /\ next_latin1 \in Nat
  /\ utf8_indices \in [DOMAIN utf8_indices -> Nat] /\ next_utf8 \in Nat
  /\ is_root \in BOOLEAN
  /\ pending_varint \in {"None"} \cup VarInts
  /\ pending_rtid \in BOOLEAN /\ pending_direct \in BOOLEAN

(* The rank of a definition at i among those of its encoding.              *)
DefTag(ref)    == IF ref = "StringLatin1Reference" THEN "StringLatin1Definition"
                  ELSE "StringUtf8Definition"
Rank(tag, i)   == Cardinality({j \in 1 .. i - 1 : out[j].tag = tag})
AskedFor(i)    == wrote[origin[i]].is.str

(* Every reference, as it lies in the stream, is the rank of a definition  *)
(* written before it, in its own encoding, of the very text that was asked *)
(* for.                                                                    *)
RefsResolve ==
  \A i \in DOMAIN out : out[i].tag \in ReferenceTags =>
    \E j \in 1 .. i - 1 : /\ out[j].tag = DefTag(out[i].tag)
                          /\ out[j].str = AskedFor(i)
                          /\ Rank(DefTag(out[i].tag), j) = out[i].idx

(* No text is defined twice in one stream, in either encoding.             *)
DefinedOnce ==
  \A i, j \in DOMAIN out :
    i # j /\ out[i].tag \in DefinitionTags /\ out[j].tag \in DefinitionTags
      => out[i].str # out[j].str

(* A wrapper reaches the one value it wraps and no other: an integer is    *)
(* forced to its varint tag, a string kept out of the tables, exactly when *)
(* it was wrapped.  (The footer is counted to the last value; it is part   *)
(* of none, and what is left of a torn token says nothing.)                *)
WrapperScope ==
  \A i \in DOMAIN out : origin[i] # 0 /\ out[i].tag \notin {"(torn)", "(footer)"} =>
    LET w == wrote[origin[i]]
    IN  /\ w.is.call = "int" => out[i] = EncodeInt(w.is.int, w.wrap \in VarInts)
        /\ w.is.call = "str" /\ w.is.str \notin {Asterisk, RtidNullText} =>
             (out[i].tag \in DirectTags <=> w.wrap = "DirectStr")

(* varint.rs, DirectStr: "forces direct string encoding (tags 0x81/0x82)". *)
DirectIsDirect ==
  \A i \in DOMAIN out : origin[i] # 0 /\ out[i].tag # "(torn)" /\ wrote[origin[i]].wrap = "DirectStr" =>
    out[i].tag \in DirectTags
=============================================================================
