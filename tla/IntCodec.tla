------------------------------ MODULE IntCodec ------------------------------
(***************************************************************************)
(* Integers on their way into an RTON stream and out of it again: the tag  *)
(* serialize_i8 .. serialize_u64 choose, the varint or fixed-width payload *)
(* they write, what deserialize_any hands to its visitor for that tag, and *)
(* the Value variant that Value::new_int / new_uint settle on.             *)
(*                                                                         *)
(* An integer is known by its type, its sign and its bit length: bits is   *)
(* the length of v when v >= 0 and of -v-1 when v < 0.  That is all the    *)
(* varint lengths, the zigzag map and the narrowing look at, and it keeps  *)
(* the true widths (8 .. 64) within TLC's reach.                           *)
(***************************************************************************)
EXTENDS Naturals

Signed   == {"i8", "i16", "i32", "i64"}
Unsigned == {"u8", "u16", "u32", "u64"}

Width(ty) == CASE ty \in {"i8", "u8"}   -> 8
               [] ty \in {"i16", "u16"} -> 16
               [] ty \in {"i32", "u32"} -> 32
               [] ty \in {"i64", "u64"} -> 64

(* Every Rust integer of the eight types the serializer accepts.           *)
RustInt ==
  {v \in [ty : Signed \cup Unsigned, neg : BOOLEAN, bits : 0 .. 64] :
     IF v.ty \in Signed THEN v.bits < Width(v.ty)
                        ELSE v.bits <= Width(v.ty) /\ ~v.neg}

IsZero(v) == ~v.neg /\ v.bits = 0

(* Length in bytes of a LEB128 varint whose value has this many bits.      *)
varint_len(bits) == IF bits = 0 THEN 1 ELSE (bits + 6) \div 7

(* v as uN, for a signed v: a negative one sets the top bit.               *)
RawBits(v) == IF v.neg THEN Width(v.ty) ELSE v.bits

(* zigzag_i32 / zigzag_i64: 2v for v >= 0, 2(-v-1)+1 for v < 0.            *)
ZigZagBits(v) == IF IsZero(v) THEN 0 ELSE v.bits + 1

RawLen(v)    == varint_len(RawBits(v))
ZigZagLen(v) == varint_len(ZigZagBits(v))

(* The tag names of one width, for the types that have varint tags.        *)
Tags32 == [fixed_i  |-> "I32", zero_i |-> "I32Zero", fixed_u |-> "U32", zero_u |-> "U32Zero",
           raw |-> "RawVarInt32", zigzag |-> "ZigZagVarInt32", unsigned |-> "UnsignedVarInt32"]
Tags64 == [fixed_i  |-> "I64", zero_i |-> "I64Zero", fixed_u |-> "U64", zero_u |-> "U64Zero",
           raw |-> "RawVarInt64", zigzag |-> "ZigZagVarInt64", unsigned |-> "UnsignedVarInt64"]
TagsOf(ty) == IF Width(ty) = 64 THEN Tags64 ELSE Tags32
FixedLen(ty) == Width(ty) \div 8

(* serialize_i8, _u8, _i16, _u16: a zero tag or the fixed width.           *)
NarrowTag(v) ==
  CASE v.ty = "i8"  -> IF IsZero(v) THEN "I8Zero"  ELSE "I8"
    [] v.ty = "u8"  -> IF IsZero(v) THEN "U8Zero"  ELSE "U8"
    [] v.ty = "i16" -> IF IsZero(v) THEN "I16Zero" ELSE "I16"
    [] v.ty = "u16" -> IF IsZero(v) THEN "U16Zero" ELSE "U16"

(* Mutant of SignedTag: either length at the limit is enough for the fixed *)
(* width.                                                                  *)
SignedTagEither(v, forced) ==
  LET t == TagsOf(v.ty)
  IN  CASE forced    -> t.zigzag
        [] ~forced /\ IsZero(v) -> t.zero_i
        [] ~forced /\ ~IsZero(v) ->
             IF RawLen(v) >= FixedLen(v.ty) \/ ZigZagLen(v) >= FixedLen(v.ty) THEN t.fixed_i
             ELSE IF ZigZagLen(v) < RawLen(v) THEN t.zigzag
             ELSE t.raw

(* serialize_i32 and serialize_i64, which differ only in width.            *)
SignedTag(v, forced) ==
  LET t == TagsOf(v.ty)
  IN  CASE forced    -> t.zigzag
        [] ~forced /\ IsZero(v) -> t.zero_i
        [] ~forced /\ ~IsZero(v) ->
             IF RawLen(v) >= FixedLen(v.ty) /\ ZigZagLen(v) >= FixedLen(v.ty) THEN t.fixed_i
             ELSE IF ZigZagLen(v) < RawLen(v) THEN t.zigzag
             ELSE t.raw

(* serialize_u32 and serialize_u64 outside an RTID body.                   *)
UnsignedTag(v, forced) ==
  LET t == TagsOf(v.ty)
  IN  CASE forced    -> t.unsigned
        [] ~forced /\ IsZero(v) -> t.zero_u
        [] ~forced /\ ~IsZero(v) ->
             IF varint_len(v.bits) >= FixedLen(v.ty) THEN t.fixed_u ELSE t.unsigned

(* The token one serialize_<int> call writes.  forced: pending_varint is   *)
(* set for exactly this type.  bits and odd are what the payload carries:  *)
(* the bit length of the number written and, under zigzag, its low bit.    *)
EncodeInt(v, forced) ==
  LET tag == IF Width(v.ty) < 32 THEN NarrowTag(v)
             ELSE IF v.ty \in Signed THEN SignedTag(v, forced) ELSE UnsignedTag(v, forced)
      t   == TagsOf(v.ty)
  IN  CASE tag = t.zigzag -> [tag |-> tag, bits |-> ZigZagBits(v), odd |-> v.neg]
        [] tag = t.raw    -> [tag |-> tag, bits |-> RawBits(v), odd |-> FALSE]
        [] OTHER          -> [tag |-> tag, bits |-> v.bits, odd |-> v.neg]

(* The compact writer's tag: the fixed width, a zero and VarInt<T> too.    *)
FixedTag(ty) == CASE ty = "i8" -> "I8" [] ty = "i16" -> "I16" [] ty = "i32" -> "I32" [] ty = "i64" -> "I64"
                  [] ty = "u8" -> "U8" [] ty = "u16" -> "U16" [] ty = "u32" -> "U32" [] ty = "u64" -> "U64"
FixedInt(v)  == [tag |-> FixedTag(v.ty), bits |-> v.bits, odd |-> v.neg]

(* Payload bytes after the tag.                                            *)
PayloadLen(tok) ==
  CASE tok.tag \in {"I8Zero", "U8Zero", "I16Zero", "U16Zero",
                    "I32Zero", "U32Zero", "I64Zero", "U64Zero"} -> 0
    [] tok.tag \in {"I8", "U8"}   -> 1
    [] tok.tag \in {"I16", "U16"} -> 2
    [] tok.tag \in {"I32", "U32"} -> 4
    [] tok.tag \in {"I64", "U64"} -> 8
    [] OTHER                      -> varint_len(tok.bits)

(* Mutant of RawType: a raw varint is always unsigned.                     *)
RawTypeUnsigned(tok) == IF tok.tag = "RawVarInt32" THEN "u32" ELSE "u64"

(* The type a raw varint is visited as: signed unless its top bit is set.  *)
RawType(tok) ==
  IF tok.tag = "RawVarInt32" THEN IF tok.bits < 32 THEN "i32" ELSE "u32"
                             ELSE IF tok.bits < 64 THEN "i64" ELSE "u64"

(* What deserialize_any passes to the visitor (visit_i8 .. visit_u64).     *)
DecodeInt(tok) ==
  LET Plain(ty) == [ty |-> ty, neg |-> tok.odd, bits |-> tok.bits]
      Zig(ty)   == [ty |-> ty, neg |-> tok.odd,
                    bits |-> IF tok.bits = 0 THEN 0 ELSE tok.bits - 1]
  IN  CASE tok.tag \in {"I8", "I8Zero"}   -> Plain("i8")
        [] tok.tag \in {"U8", "U8Zero"}   -> Plain("u8")
        [] tok.tag \in {"I16", "I16Zero"} -> Plain("i16")
        [] tok.tag \in {"U16", "U16Zero"} -> Plain("u16")
        [] tok.tag \in {"I32", "I32Zero"} -> Plain("i32")
        [] tok.tag \in {"U32", "U32Zero", "UnsignedVarInt32"} -> Plain("u32")
        [] tok.tag \in {"I64", "I64Zero"} -> Plain("i64")
        [] tok.tag \in {"U64", "U64Zero", "UnsignedVarInt64"} -> Plain("u64")
        [] tok.tag \in {"RawVarInt32", "RawVarInt64"} -> Plain(RawType(tok))
        [] tok.tag = "ZigZagVarInt32" -> Zig("i32")
        [] tok.tag = "ZigZagVarInt64" -> Zig("i64")

(* Mutant of NewUint: the limits of the signed types.                      *)
NewUintSigned(v) == [v EXCEPT !.ty = IF v.bits < 8 THEN "u8" ELSE IF v.bits < 16 THEN "u16"
                                     ELSE IF v.bits < 32 THEN "u32" ELSE "u64"]

(* Value::new_int and Value::new_uint: the narrowest variant that holds v. *)
NewInt(v)  == [v EXCEPT !.ty = IF v.bits < 8 THEN "i8" ELSE IF v.bits < 16 THEN "i16"
                               ELSE IF v.bits < 32 THEN "i32" ELSE "i64"]
NewUint(v) == [v EXCEPT !.ty = IF v.bits <= 8 THEN "u8" ELSE IF v.bits <= 16 THEN "u16"
                               ELSE IF v.bits <= 32 THEN "u32" ELSE "u64"]

(* The Value visitor: visit_i64 and visit_u64 narrow, the others do not.   *)
VisitInt(v) == CASE v.ty = "i64" -> NewInt(v)
                 [] v.ty = "u64" -> NewUint(v)
                 [] OTHER        -> v

IntTags == {"I8", "I8Zero", "U8", "U8Zero", "I16", "I16Zero", "U16", "U16Zero",
            "I32", "I32Zero", "U32", "U32Zero", "I64", "I64Zero", "U64", "U64Zero",
            "RawVarInt32", "ZigZagVarInt32", "UnsignedVarInt32",
            "RawVarInt64", "ZigZagVarInt64", "UnsignedVarInt64"}
=============================================================================
