---------------------------- MODULE CodecProofs ----------------------------
(***************************************************************************)
(* Lemmas about the codecs, of which everything else is made.              *)
(* IntCodec.tla, for every integer of the eight types: the token the       *)
(* serializer writes for it is read back as that integer, and is the       *)
(* shortest there is.  BlobText.tla: the hexadecimal text of a byte        *)
(* string, read back, is that byte string.  Rtid.tla: what FromStr makes   *)
(* of a text, pattern by pattern, and that the text Display gives an RTID  *)
(* once read spells it for good.  And induction over the numbers, as a     *)
(* fact about sets, which these and other proofs use.                      *)
(***************************************************************************)
EXTENDS IntCodec, BlobText, Rtid, Integers, FiniteSetTheorems, WellFoundedInduction, TLAPS

(* What the cases below split on.                                          *)
LEMMA IntTyped ==
  ASSUME NEW v \in RustInt
  PROVE  /\ v.ty \in Signed \cup Unsigned /\ v.neg \in BOOLEAN /\ v.bits \in Nat
         /\ v.ty \in Signed => v.bits < Width(v.ty)
         /\ v.ty \in Unsigned => v.bits <= Width(v.ty) /\ ~v.neg
         /\ v = [ty |-> v.ty, neg |-> v.neg, bits |-> v.bits]
BY DEF RustInt, Signed, Unsigned

LEMMA Widths ==
  ASSUME NEW ty \in Signed \cup Unsigned
  PROVE  /\ Width(ty) \in {8, 16, 32, 64}
         /\ Width(ty) < 32 => ty \in {"i8", "u8", "i16", "u16"}
         /\ ~(Width(ty) < 32) => ty \in {"i32", "u32", "i64", "u64"}
BY DEF Signed, Unsigned, Width

(* A negative number as an unsigned one needs every bit of its width, and  *)
(* with it more varint bytes than the width has bytes.                     *)
LEMMA NegativeIsLong ==
  ASSUME NEW v \in RustInt, v.neg, ~(Width(v.ty) < 32)
  PROVE  RawLen(v) > FixedLen(v.ty)
<1>1. v.ty \in {"i32", "i64"}
  BY IntTyped, Widths DEF Signed, Unsigned
<1>2. RawBits(v) = Width(v.ty)
  BY DEF RawBits
<1>3. CASE v.ty = "i32"
  BY <1>2, <1>3 DEF RawLen, FixedLen, Width, varint_len
<1>4. CASE v.ty = "i64"
  BY <1>2, <1>4 DEF RawLen, FixedLen, Width, varint_len
<1>5. QED BY <1>1, <1>3, <1>4
-----------------------------------------------------------------------------
(* The narrow types: a zero tag or the fixed width.                        *)
LEMMA NarrowToken ==
  ASSUME NEW v \in RustInt, NEW wrapped \in BOOLEAN, Width(v.ty) < 32
  PROVE  /\ EncodeInt(v, wrapped) = [tag |-> NarrowTag(v), bits |-> v.bits, odd |-> v.neg]
         /\ DecodeInt(EncodeInt(v, wrapped)) = v
<1>1. v.ty \in {"i8", "u8", "i16", "u16"} /\ v = [ty |-> v.ty, neg |-> v.neg, bits |-> v.bits]
  BY IntTyped, Widths
<1>2. EncodeInt(v, wrapped) = [tag |-> NarrowTag(v), bits |-> v.bits, odd |-> v.neg]
  BY <1>1 DEF EncodeInt, NarrowTag, TagsOf, Tags32, Width
<1>3. DecodeInt([tag |-> NarrowTag(v), bits |-> v.bits, odd |-> v.neg])
        = [ty |-> v.ty, neg |-> v.neg, bits |-> v.bits]
  BY <1>1 DEF DecodeInt, NarrowTag
<1>4. QED BY <1>1, <1>2, <1>3

(* i32 and i64: what is chosen, and when.  A raw varint holds a positive   *)
(* number only.                                                            *)
LEMMA SignedToken ==
  ASSUME NEW v \in RustInt, NEW wrapped \in BOOLEAN, v.ty \in {"i32", "i64"}
  PROVE  \/ /\ EncodeInt(v, wrapped) = [tag |-> TagsOf(v.ty).zigzag, bits |-> ZigZagBits(v), odd |-> v.neg]
            /\ ~wrapped => ZigZagLen(v) < RawLen(v) /\ ZigZagLen(v) < FixedLen(v.ty)
         \/ /\ EncodeInt(v, wrapped) = [tag |-> TagsOf(v.ty).raw, bits |-> v.bits, odd |-> FALSE]
            /\ ~v.neg
            /\ RawLen(v) <= ZigZagLen(v) /\ RawLen(v) < FixedLen(v.ty)
         \/ /\ EncodeInt(v, wrapped) = [tag |-> TagsOf(v.ty).fixed_i, bits |-> v.bits, odd |-> v.neg]
            /\ RawLen(v) >= FixedLen(v.ty) /\ ZigZagLen(v) >= FixedLen(v.ty)
         \/ /\ EncodeInt(v, wrapped) = [tag |-> TagsOf(v.ty).zero_i, bits |-> v.bits, odd |-> v.neg]
            /\ IsZero(v)
<1> DEFINE t == TagsOf(v.ty)
<1>1. /\ ~(Width(v.ty) < 32) /\ v.ty \in Signed /\ v.neg \in BOOLEAN /\ v.bits \in Nat
  BY IntTyped DEF Width, Signed
<1>2. /\ RawLen(v) \in Nat /\ ZigZagLen(v) \in Nat /\ FixedLen(v.ty) \in Nat
  <2>1. RawBits(v) \in Nat /\ ZigZagBits(v) \in Nat
    BY <1>1 DEF RawBits, ZigZagBits, Width
  <2>2. \A b \in Nat : varint_len(b) \in Nat
    BY DEF varint_len
  <2>3. QED BY <2>1, <2>2 DEF RawLen, ZigZagLen, FixedLen, Width
<1>3. t = Tags32 \/ t = Tags64
  BY DEF TagsOf
<1>4. t.zigzag # t.raw /\ t.zigzag # t.fixed_i /\ t.zigzag # t.zero_i /\ t.raw # t.fixed_i /\ t.raw # t.zero_i
  BY <1>3 DEF Tags32, Tags64
<1>5. EncodeInt(v, wrapped) =
        CASE SignedTag(v, wrapped) = t.zigzag -> [tag |-> SignedTag(v, wrapped), bits |-> ZigZagBits(v), odd |-> v.neg]
          [] SignedTag(v, wrapped) = t.raw    -> [tag |-> SignedTag(v, wrapped), bits |-> RawBits(v), odd |-> FALSE]
          [] OTHER          -> [tag |-> SignedTag(v, wrapped), bits |-> v.bits, odd |-> v.neg]
  BY <1>1 DEF EncodeInt
<1> DEFINE zz == ZigZagLen(v)
           rl == RawLen(v)
           fl == FixedLen(v.ty)
<1>6. CASE wrapped
  BY <1>4, <1>5, <1>6 DEF SignedTag
<1>7. CASE ~wrapped /\ IsZero(v)
  BY <1>4, <1>5, <1>7 DEF SignedTag
<1>8. CASE ~wrapped /\ ~IsZero(v) /\ rl >= fl /\ zz >= fl
  BY <1>4, <1>5, <1>8 DEF SignedTag
<1>9. CASE ~wrapped /\ ~IsZero(v) /\ ~(rl >= fl /\ zz >= fl) /\ zz < rl
  <2>1. SignedTag(v, wrapped) = t.zigzag
    BY <1>9 DEF SignedTag
  <2>2. zz < fl
    BY <1>2, <1>9
  <2>3. QED BY <1>4, <1>5, <1>9, <2>1, <2>2
<1>10. CASE ~wrapped /\ ~IsZero(v) /\ ~(rl >= fl /\ zz >= fl) /\ ~(zz < rl)
  <2>1. SignedTag(v, wrapped) = t.raw
    BY <1>10 DEF SignedTag
  <2>2. rl < fl /\ rl <= zz
    BY <1>2, <1>10
  <2>3. ~v.neg
    BY <1>1, <1>2, <2>2, NegativeIsLong
  <2>4. RawBits(v) = v.bits
    BY <2>3 DEF RawBits
  <2>5. QED BY <1>4, <1>5, <2>1, <2>2, <2>3, <2>4
<1>11. QED BY <1>6, <1>7, <1>8, <1>9, <1>10

(* u32 and u64.                                                            *)
LEMMA UnsignedToken ==
  ASSUME NEW v \in RustInt, NEW wrapped \in BOOLEAN, v.ty \in {"u32", "u64"}
  PROVE  \/ /\ EncodeInt(v, wrapped) = [tag |-> TagsOf(v.ty).unsigned, bits |-> v.bits, odd |-> v.neg]
            /\ ~wrapped => varint_len(v.bits) < FixedLen(v.ty)
         \/ /\ EncodeInt(v, wrapped) = [tag |-> TagsOf(v.ty).fixed_u, bits |-> v.bits, odd |-> v.neg]
            /\ varint_len(v.bits) >= FixedLen(v.ty)
         \/ /\ EncodeInt(v, wrapped) = [tag |-> TagsOf(v.ty).zero_u, bits |-> v.bits, odd |-> v.neg]
            /\ IsZero(v)
<1> DEFINE t == TagsOf(v.ty)
<1>1. /\ ~(Width(v.ty) < 32) /\ v.ty \notin Signed /\ v.bits \in Nat
  BY IntTyped DEF Width, Signed
<1>2. varint_len(v.bits) \in Nat /\ FixedLen(v.ty) \in Nat
  BY <1>1 DEF varint_len, FixedLen, Width
<1>3. t = Tags32 \/ t = Tags64
  BY DEF TagsOf
<1>4. /\ t.unsigned # t.zigzag /\ t.unsigned # t.raw /\ t.fixed_u # t.zigzag /\ t.fixed_u # t.raw
      /\ t.zero_u # t.zigzag /\ t.zero_u # t.raw
  BY <1>3 DEF Tags32, Tags64
<1>5. EncodeInt(v, wrapped) =
        CASE UnsignedTag(v, wrapped) = t.zigzag -> [tag |-> UnsignedTag(v, wrapped), bits |-> ZigZagBits(v), odd |-> v.neg]
          [] UnsignedTag(v, wrapped) = t.raw    -> [tag |-> UnsignedTag(v, wrapped), bits |-> RawBits(v), odd |-> FALSE]
          [] OTHER          -> [tag |-> UnsignedTag(v, wrapped), bits |-> v.bits, odd |-> v.neg]
  BY <1>1 DEF EncodeInt
<1>6. CASE wrapped
  BY <1>4, <1>5, <1>6 DEF UnsignedTag
<1>7. CASE ~wrapped /\ IsZero(v)
  BY <1>4, <1>5, <1>7 DEF UnsignedTag
<1>8. CASE ~wrapped /\ ~IsZero(v) /\ varint_len(v.bits) >= FixedLen(v.ty)
  BY <1>4, <1>5, <1>8 DEF UnsignedTag
<1>9. CASE ~wrapped /\ ~IsZero(v) /\ ~(varint_len(v.bits) >= FixedLen(v.ty))
  BY <1>2, <1>4, <1>5, <1>9 DEF UnsignedTag
<1>10. QED BY <1>6, <1>7, <1>8, <1>9

LEMMA RawDecoded ==
  ASSUME NEW tok, tok.tag \in {"RawVarInt32", "RawVarInt64"}
  PROVE  DecodeInt(tok) = [ty |-> RawType(tok), neg |-> tok.odd, bits |-> tok.bits]
BY DEF DecodeInt

(* deserialize_any undoes what serialize_i8 .. serialize_u64 do: the       *)
(* visitor is given the number that was passed in, in its own type.        *)
LEMMA DecodeEncode ==
  ASSUME NEW v \in RustInt, NEW wrapped \in BOOLEAN
  PROVE  DecodeInt(EncodeInt(v, wrapped)) = v
<1>1. /\ v.ty \in Signed \cup Unsigned /\ v.neg \in BOOLEAN /\ v.bits \in Nat
      /\ v = [ty |-> v.ty, neg |-> v.neg, bits |-> v.bits]
      /\ v.ty \in Signed => v.bits < Width(v.ty)
  BY IntTyped
<1>2. CASE Width(v.ty) < 32
  BY <1>2, NarrowToken
<1>3. ASSUME v.ty \in {"i32", "i64"} PROVE DecodeInt(EncodeInt(v, wrapped)) = v
  <2>1. CASE EncodeInt(v, wrapped) = [tag |-> TagsOf(v.ty).zigzag, bits |-> ZigZagBits(v), odd |-> v.neg]
    <3>1. (IF ZigZagBits(v) = 0 THEN 0 ELSE ZigZagBits(v) - 1) = v.bits
      BY <1>1 DEF ZigZagBits, IsZero
    <3>2. DecodeInt(EncodeInt(v, wrapped)) = [ty |-> v.ty, neg |-> v.neg, bits |-> v.bits]
      BY <1>3, <2>1, <3>1 DEF DecodeInt, TagsOf, Tags32, Tags64, Width
    <3>3. QED BY <1>1, <3>2
  <2>2. CASE EncodeInt(v, wrapped) = [tag |-> TagsOf(v.ty).raw, bits |-> v.bits, odd |-> FALSE] /\ ~v.neg
    <3>1. DecodeInt(EncodeInt(v, wrapped)) = [ty |-> v.ty, neg |-> FALSE, bits |-> v.bits]
      <4>1. CASE v.ty = "i32"
        <5>1. EncodeInt(v, wrapped) = [tag |-> "RawVarInt32", bits |-> v.bits, odd |-> FALSE]
          BY <2>2, <4>1 DEF TagsOf, Tags32, Width
        <5>2. v.bits < 32
          BY <1>1, <4>1 DEF Signed, Width
        <5>3. RawType(EncodeInt(v, wrapped)) = "i32"
          BY <5>1, <5>2 DEF RawType
        <5>4. /\ EncodeInt(v, wrapped).tag = "RawVarInt32"
              /\ EncodeInt(v, wrapped).odd = FALSE /\ EncodeInt(v, wrapped).bits = v.bits
          BY <5>1
        <5>5. DecodeInt(EncodeInt(v, wrapped)) = [ty |-> RawType(EncodeInt(v, wrapped)),
                neg |-> EncodeInt(v, wrapped).odd, bits |-> EncodeInt(v, wrapped).bits]
          BY ONLY <5>4, RawDecoded
        <5>6. QED BY <4>1, <5>3, <5>4, <5>5
      <4>2. CASE v.ty = "i64"
        <5>1. EncodeInt(v, wrapped) = [tag |-> "RawVarInt64", bits |-> v.bits, odd |-> FALSE]
          BY <2>2, <4>2 DEF TagsOf, Tags64, Width
        <5>2. v.bits < 64
          BY <1>1, <4>2 DEF Signed, Width
        <5>3. RawType(EncodeInt(v, wrapped)) = "i64"
          BY <5>1, <5>2 DEF RawType
        <5>4. /\ EncodeInt(v, wrapped).tag = "RawVarInt64"
              /\ EncodeInt(v, wrapped).odd = FALSE /\ EncodeInt(v, wrapped).bits = v.bits
          BY <5>1
        <5>5. DecodeInt(EncodeInt(v, wrapped)) = [ty |-> RawType(EncodeInt(v, wrapped)),
                neg |-> EncodeInt(v, wrapped).odd, bits |-> EncodeInt(v, wrapped).bits]
          BY ONLY <5>4, RawDecoded
        <5>6. QED BY <4>2, <5>3, <5>4, <5>5
      <4>3. QED BY <1>3, <4>1, <4>2
    <3>2. QED BY <1>1, <2>2, <3>1
  <2>3. CASE \/ EncodeInt(v, wrapped) = [tag |-> TagsOf(v.ty).fixed_i, bits |-> v.bits, odd |-> v.neg]
             \/ EncodeInt(v, wrapped) = [tag |-> TagsOf(v.ty).zero_i, bits |-> v.bits, odd |-> v.neg]
    <3>1. DecodeInt(EncodeInt(v, wrapped)) = [ty |-> v.ty, neg |-> v.neg, bits |-> v.bits]
      BY <1>3, <2>3 DEF DecodeInt, TagsOf, Tags32, Tags64, Width
    <3>2. QED BY <1>1, <3>1
  <2>4. QED BY <1>3, <2>1, <2>2, <2>3, SignedToken
<1>4. ASSUME v.ty \in {"u32", "u64"} PROVE DecodeInt(EncodeInt(v, wrapped)) = v
  <2>1. \/ EncodeInt(v, wrapped) = [tag |-> TagsOf(v.ty).unsigned, bits |-> v.bits, odd |-> v.neg]
        \/ EncodeInt(v, wrapped) = [tag |-> TagsOf(v.ty).fixed_u, bits |-> v.bits, odd |-> v.neg]
        \/ EncodeInt(v, wrapped) = [tag |-> TagsOf(v.ty).zero_u, bits |-> v.bits, odd |-> v.neg]
    BY <1>4, UnsignedToken
  <2>2. DecodeInt(EncodeInt(v, wrapped)) = [ty |-> v.ty, neg |-> v.neg, bits |-> v.bits]
    BY <1>4, <2>1 DEF DecodeInt, TagsOf, Tags32, Tags64, Width
  <2>3. QED BY <1>1, <2>2
<1>5. QED BY <1>1, <1>2, <1>3, <1>4, Widths
-----------------------------------------------------------------------------
(* An integer token is an integer token, whatever the adaptive choice.     *)
LEMMA EncodeTyped ==
  ASSUME NEW v \in RustInt, NEW forced \in BOOLEAN
  PROVE  EncodeInt(v, forced) \in [tag : IntTags, bits : Nat, odd : BOOLEAN]
<1>0. /\ v.ty \in Signed \cup Unsigned /\ v.neg \in BOOLEAN /\ v.bits \in 0 .. 64
      /\ Width(v.ty) \in {8, 16, 32, 64}
  BY DEF RustInt, Signed, Unsigned, Width
<1>1. CASE Width(v.ty) < 32
  <2>1. NarrowTag(v) \in {"I8Zero", "I8", "U8Zero", "U8", "I16Zero", "I16", "U16Zero", "U16"}
    BY <1>0, <1>1 DEF NarrowTag, Width, Signed, Unsigned
  <2>2. TagsOf(v.ty) = Tags32
    BY <1>1 DEF TagsOf
  <2>3. EncodeInt(v, forced) = [tag |-> NarrowTag(v), bits |-> v.bits, odd |-> v.neg]
    BY <1>1, <2>1, <2>2 DEF EncodeInt, Tags32
  <2>4. QED BY <1>0, <2>1, <2>3 DEF IntTags
<1>2. CASE ~(Width(v.ty) < 32)
  <2> DEFINE t      == TagsOf(v.ty)
             chosen == IF v.ty \in Signed THEN SignedTag(v, forced) ELSE UnsignedTag(v, forced)
  <2>1. t = Tags32 \/ t = Tags64
    BY DEF TagsOf
  <2>2. chosen \in {t.zigzag, t.zero_i, t.fixed_i, t.raw, t.unsigned, t.zero_u, t.fixed_u}
    BY DEF SignedTag, UnsignedTag
  <2>3. chosen \in IntTags
    BY <2>1, <2>2 DEF Tags32, Tags64, IntTags
  <2>4. ZigZagBits(v) \in Nat /\ RawBits(v) \in Nat
    BY <1>0 DEF ZigZagBits, RawBits
  <2>5. \/ EncodeInt(v, forced) = [tag |-> chosen, bits |-> ZigZagBits(v), odd |-> v.neg]
        \/ EncodeInt(v, forced) = [tag |-> chosen, bits |-> RawBits(v), odd |-> FALSE]
        \/ EncodeInt(v, forced) = [tag |-> chosen, bits |-> v.bits, odd |-> v.neg]
    BY <1>2 DEF EncodeInt
  <2>6. v.bits \in Nat /\ v.neg \in BOOLEAN
    BY <1>0
  <2>7. \A b \in Nat, o \in BOOLEAN :
          [tag |-> chosen, bits |-> b, odd |-> o] \in [tag : IntTags, bits : Nat, odd : BOOLEAN]
    BY <2>3
  <2>8. CASE EncodeInt(v, forced) = [tag |-> chosen, bits |-> ZigZagBits(v), odd |-> v.neg]
    BY <2>4, <2>6, <2>7, <2>8, Zenon
  <2>9. CASE EncodeInt(v, forced) = [tag |-> chosen, bits |-> RawBits(v), odd |-> FALSE]
    BY <2>4, <2>7, <2>9, Zenon
  <2>10. CASE EncodeInt(v, forced) = [tag |-> chosen, bits |-> v.bits, odd |-> v.neg]
    BY <2>6, <2>7, <2>10, Zenon
  <2>11. QED BY <2>5, <2>8, <2>9, <2>10
<1>3. QED BY <1>1, <1>2

(* No payload the adaptive writer could have chosen is shorter than the    *)
(* one it wrote.                                                           *)
LEMMA Smallest ==
  ASSUME NEW v \in RustInt, Width(v.ty) >= 32, ~IsZero(v)
  PROVE  LET len == PayloadLen(EncodeInt(v, FALSE))
         IN  /\ len <= FixedLen(v.ty)
             /\ len <= RawLen(v)
             /\ v.ty \in Signed => len <= ZigZagLen(v)
<1>0. PICK tok : tok = EncodeInt(v, FALSE)
  OBVIOUS
<1> SUFFICES /\ PayloadLen(tok) <= FixedLen(v.ty)
             /\ PayloadLen(tok) <= RawLen(v)
             /\ v.ty \in Signed => PayloadLen(tok) <= ZigZagLen(v)
  BY <1>0
<1>1. /\ v.ty \in {"i32", "u32", "i64", "u64"} /\ v.neg \in BOOLEAN /\ v.bits \in Nat
      /\ v.ty \in Unsigned => ~v.neg
  <2>1. ~(Width(v.ty) < 32)
    BY IntTyped, Widths
  <2>2. QED BY <2>1, IntTyped, Widths
<1>2. /\ FixedLen(v.ty) \in Nat /\ RawLen(v) \in Nat /\ ZigZagLen(v) \in Nat
  BY <1>1 DEF FixedLen, RawLen, ZigZagLen, varint_len, RawBits, ZigZagBits, Width
<1>3. CASE v.ty \in {"i32", "i64"}
  <2>1. CASE /\ tok = [tag |-> TagsOf(v.ty).zigzag, bits |-> ZigZagBits(v), odd |-> v.neg]
             /\ ZigZagLen(v) < RawLen(v) /\ ZigZagLen(v) < FixedLen(v.ty)
    <3>1. PayloadLen(tok) = ZigZagLen(v)
      BY <1>3, <2>1 DEF PayloadLen, TagsOf, Tags32, Tags64, ZigZagLen, Width
    <3>2. QED BY <1>2, <2>1, <3>1
  <2>2. CASE /\ tok = [tag |-> TagsOf(v.ty).raw, bits |-> v.bits, odd |-> FALSE] /\ ~v.neg
             /\ RawLen(v) <= ZigZagLen(v) /\ RawLen(v) < FixedLen(v.ty)
    <3>1. PayloadLen(tok) = RawLen(v)
      BY <1>3, <2>2 DEF PayloadLen, TagsOf, Tags32, Tags64, RawLen, RawBits, Width
    <3>2. QED BY <1>2, <2>2, <3>1
  <2>3. CASE /\ tok = [tag |-> TagsOf(v.ty).fixed_i, bits |-> v.bits, odd |-> v.neg]
             /\ RawLen(v) >= FixedLen(v.ty) /\ ZigZagLen(v) >= FixedLen(v.ty)
    <3>1. PayloadLen(tok) = FixedLen(v.ty)
      BY <1>3, <2>3 DEF PayloadLen, TagsOf, Tags32, Tags64, FixedLen, Width
    <3>2. QED BY <1>2, <2>3, <3>1
  <2>4. QED BY <1>0, <1>3, <2>1, <2>2, <2>3, SignedToken
<1>4. CASE v.ty \in {"u32", "u64"}
  <2>1. RawLen(v) = varint_len(v.bits) /\ v.ty \notin Signed
    BY <1>1, <1>4 DEF RawLen, RawBits, Signed, Unsigned
  <2>2. CASE /\ tok = [tag |-> TagsOf(v.ty).unsigned, bits |-> v.bits, odd |-> v.neg]
             /\ varint_len(v.bits) < FixedLen(v.ty)
    <3>1. PayloadLen(tok) = varint_len(v.bits)
      BY <1>4, <2>2 DEF PayloadLen, TagsOf, Tags32, Tags64, Width
    <3>2. QED BY <1>2, <2>1, <2>2, <3>1
  <2>3. CASE /\ tok = [tag |-> TagsOf(v.ty).fixed_u, bits |-> v.bits, odd |-> v.neg]
             /\ varint_len(v.bits) >= FixedLen(v.ty)
    <3>1. PayloadLen(tok) = FixedLen(v.ty)
      BY <1>4, <2>3 DEF PayloadLen, TagsOf, Tags32, Tags64, FixedLen, Width
    <3>2. QED BY <1>2, <2>1, <2>3, <3>1
  <2>4. QED BY <1>0, <1>4, <2>2, <2>3, UnsignedToken
<1>5. QED BY <1>1, <1>3, <1>4
-----------------------------------------------------------------------------

(* A set of numbers that has one has a least one.                          *)
LEMMA LeastNumber ==
  ASSUME NEW T, T \subseteq Nat, T # {}
  PROVE  \E x \in T : \A y \in T : x <= y
<1> DEFINE Less == OpToRel(<, Nat)
<1>1. IsWellFoundedOn(Less, Nat)
  BY NatLessThanWellFounded
<1>2. \A x, y \in Nat : y < x => <<y, x>> \in Less
  BY DEF OpToRel
<1> HIDE DEF Less
<1>3. PICK x \in T : \A y \in T : ~(<<y, x>> \in Less)
  BY <1>1, WFMin
<1>4. \A y \in T : x \in Nat /\ y \in Nat /\ ~(y < x)
  BY <1>2, <1>3
<1>5. QED BY <1>3, <1>4

LEMMA InductiveSet ==
  ASSUME NEW S, S \subseteq Nat, 0 \in S, \A n \in S : n + 1 \in S
  PROVE  S = Nat
<1> SUFFICES ASSUME Nat \ S # {} PROVE FALSE
  OBVIOUS
<1>1. PICK x \in Nat \ S : \A y \in Nat \ S : x <= y
  BY LeastNumber
<1>2. x # 0 /\ x - 1 \in Nat
  BY <1>1
<1>3. x - 1 \in S
  BY <1>1, <1>2
<1>4. QED BY <1>1, <1>2, <1>3

(* Running totals of the first m terms of f exist, and agree with one      *)
(* another.                                                                *)
Totals(f, g, m) == g = [n \in 0 .. m |-> IF n = 0 THEN 0 ELSE g[n - 1] + f[n]]

LEMMA TotalsStep ==
  ASSUME NEW f, NEW m \in Nat, NEW g, Totals(f, g, m)
  PROVE  /\ g[0] = 0
         /\ \A n \in 1 .. m : g[n] = g[n - 1] + f[n]
<1>1. DOMAIN g = 0 .. m /\ \A n \in 0 .. m : g[n] = IF n = 0 THEN 0 ELSE g[n - 1] + f[n]
  BY Zenon DEF Totals
<1>2. QED BY <1>1

LEMMA TotalsExist ==
  ASSUME NEW f
  PROVE  \A m \in Nat : \E g : Totals(f, g, m)
<1> DEFINE S == {m \in Nat : \E g : Totals(f, g, m)}
<1>1. 0 \in S
  <2> DEFINE g == [n \in 0 .. 0 |-> 0]
  <2>1. g = [n \in 0 .. 0 |-> IF n = 0 THEN 0 ELSE g[n - 1] + f[n]]
    OBVIOUS
  <2> HIDE DEF g
  <2>2. Totals(f, g, 0)
    BY <2>1, Zenon DEF Totals
  <2>3. QED BY <2>2
<1>2. ASSUME NEW m \in S PROVE m + 1 \in S
  <2>1. PICK g : Totals(f, g, m)
    OBVIOUS
  <2> DEFINE h == [n \in 0 .. m + 1 |-> IF n = m + 1 THEN g[m] + f[n] ELSE g[n]]
  <2>2. ASSUME NEW n \in 0 .. m + 1 PROVE h[n] = IF n = 0 THEN 0 ELSE h[n - 1] + f[n]
    <3>1. CASE n = m + 1
      BY <3>1
    <3>2. CASE n \in 0 .. m
      <4>1. h[n] = g[n] /\ (n # 0 => h[n - 1] = g[n - 1])
        BY <3>2
      <4>2. QED BY <2>1, <3>2, <4>1, TotalsStep
    <3>3. QED BY <3>1, <3>2
  <2>3. h = [n \in 0 .. m + 1 |-> h[n]]
    OBVIOUS
  <2> HIDE DEF h
  <2>4. h = [n \in 0 .. m + 1 |-> IF n = 0 THEN 0 ELSE h[n - 1] + f[n]]
    BY <2>2, <2>3, Zenon
  <2>5. Totals(f, h, m + 1)
    BY <2>4, Zenon DEF Totals
  <2>6. QED BY <2>5
<1> HIDE DEF S
<1>3. S = Nat
  <2>1. S \subseteq Nat
    BY DEF S
  <2>2. QED BY <1>1, <1>2, <2>1, InductiveSet
<1>4. QED BY <1>3 DEF S

LEMMA TotalsAgree ==
  ASSUME NEW f, NEW m \in Nat, NEW k \in Nat, m <= k, NEW g, Totals(f, g, m), NEW h, Totals(f, h, k)
  PROVE  \A n \in 0 .. m : g[n] = h[n]
<1> DEFINE S == {n \in Nat : n <= m => g[n] = h[n]}
<1>1. 0 \in S
  BY TotalsStep
<1>2. ASSUME NEW n \in S PROVE n + 1 \in S
  <2>1. CASE n + 1 <= m
    <3>1. n + 1 \in 1 .. m /\ n + 1 \in 1 .. k /\ (n + 1) - 1 = n
      BY <2>1
    <3>2. g[n + 1] = g[(n + 1) - 1] + f[n + 1] /\ h[n + 1] = h[(n + 1) - 1] + f[n + 1]
      BY <3>1, TotalsStep
    <3>3. QED BY <2>1, <3>1, <3>2
  <2>2. QED BY <2>1
<1> HIDE DEF S
<1>3. S = Nat
  <2>1. S \subseteq Nat
    BY DEF S
  <2>2. QED BY <1>1, <1>2, <2>1, InductiveSet
<1>4. QED BY <1>3 DEF S
-----------------------------------------------------------------------------
(* Sequences that grow at the end.                                         *)
LEMMA ConcatProps ==
  ASSUME NEW S, NEW s \in Seq(S), NEW t \in Seq(S)
  PROVE  /\ s \o t \in Seq(S)
         /\ Len(s \o t) = Len(s) + Len(t)
         /\ \A i \in 1 .. Len(s) : (s \o t)[i] = s[i]
         /\ \A i \in Len(s) + 1 .. Len(s) + Len(t) : (s \o t)[i] = t[i - Len(s)]
OBVIOUS

(* The other facts about sequences that are needed again and again.        *)
LEMMA SingleProps ==
  ASSUME NEW S, NEW x \in S
  PROVE  <<x>> \in Seq(S) /\ Len(<<x>>) = 1 /\ <<x>>[1] = x
OBVIOUS

LEMMA ElementProps ==
  ASSUME NEW S, NEW s \in Seq(S)
  PROVE  /\ Len(s) \in Nat /\ DOMAIN s = 1 .. Len(s) /\ \A i \in 1 .. Len(s) : s[i] \in S
         /\ s # <<>> <=> Len(s) >= 1
OBVIOUS

LEMMA WiderAlphabet ==
  ASSUME NEW S, NEW T, S \subseteq T, NEW s \in Seq(S)
  PROVE  s \in Seq(T)
OBVIOUS

LEMMA SameElements ==
  ASSUME NEW S, NEW s \in Seq(S), NEW t \in Seq(S), Len(s) = Len(t), \A i \in 1 .. Len(s) : s[i] = t[i]
  PROVE  s = t
OBVIOUS

LEMMA PartProps ==
  ASSUME NEW S, NEW s \in Seq(S), NEW m \in Nat, NEW n \in Nat, m >= 1, n <= Len(s), m <= n + 1
  PROVE  /\ SubSeq(s, m, n) \in Seq(S) /\ Len(SubSeq(s, m, n)) = n - m + 1
         /\ \A i \in 1 .. n - m + 1 : SubSeq(s, m, n)[i] = s[m + i - 1]
OBVIOUS

(* Texts of one character each, one after the other.                       *)
LEMMA FlattenSingles ==
  ASSUME NEW S, NEW s \in Seq(S)
  PROVE  FlattenSeq([i \in DOMAIN s |-> <<s[i]>>]) = s
<1>1. PICK q : q = [i \in DOMAIN s |-> <<s[i]>>]
  OBVIOUS
<1>2. Len(q) = Len(s) /\ Len(s) \in Nat /\ \A i \in 1 .. Len(s) : q[i] = <<s[i]>>
  BY <1>1
<1>3. CASE Len(s) = 0
  <2>1. q = s
    BY <1>1, <1>3
  <2>2. QED BY <1>1, <1>2, <1>3, <2>1 DEF FlattenSeq
<1>4. CASE Len(s) # 0
  <2> DEFINE u == CHOOSE f : f = [i \in 1 .. Len(q) |-> IF i = 1 THEN q[i] ELSE f[i - 1] \o q[i]]
             g == [i \in 1 .. Len(q) |-> SubSeq(s, 1, i)]
  <2>1. ASSUME NEW i \in 1 .. Len(q) PROVE g[i] = IF i = 1 THEN q[i] ELSE g[i - 1] \o q[i]
    <3>1. CASE i = 1
      BY <1>2, <3>1
    <3>2. CASE i # 1
      <4>1. i - 1 \in 1 .. Len(s) /\ i \in 1 .. Len(s)
        BY <1>2, <3>2
      <4>2. SubSeq(s, 1, i) = SubSeq(s, 1, i - 1) \o <<s[i]>>
        BY <4>1
      <4>3. QED BY <1>2, <3>2, <4>1, <4>2
    <3>3. QED BY <3>1, <3>2
  <2>2. g = [i \in 1 .. Len(q) |-> g[i]]
    OBVIOUS
  <2> HIDE DEF g
  <2>3. g = [i \in 1 .. Len(q) |-> IF i = 1 THEN q[i] ELSE g[i - 1] \o q[i]]
    BY <2>1, <2>2, Zenon
  <2>4. u = [i \in 1 .. Len(q) |-> IF i = 1 THEN q[i] ELSE u[i - 1] \o q[i]]
    BY <2>3, Zenon
  <2>5. FlattenSeq(q) = u[Len(q)]
    BY <1>2, <1>4, Zenon DEF FlattenSeq
  <2> HIDE DEF u
  <2>6. \A i \in 1 .. Len(q) : u[i] = IF i = 1 THEN q[i] ELSE u[i - 1] \o q[i]
    BY <2>4, Zenon
  <2> DEFINE T == {n \in Nat : n + 1 <= Len(q) => u[n + 1] = g[n + 1]}
  <2>7. 0 \in T
    BY <1>2, <2>1, <2>6
  <2>8. ASSUME NEW n \in T PROVE n + 1 \in T
    <3>1. CASE (n + 1) + 1 <= Len(q)
      <4>1. /\ (n + 1) + 1 \in 1 .. Len(q) /\ (n + 1) + 1 # 1 /\ ((n + 1) + 1) - 1 = n + 1
            /\ n + 1 <= Len(q)
        BY <1>2, <3>1
      <4>2. /\ u[(n + 1) + 1] = u[n + 1] \o q[(n + 1) + 1]
            /\ g[(n + 1) + 1] = g[n + 1] \o q[(n + 1) + 1]
        BY <2>1, <2>6, <4>1
      <4>3. u[n + 1] = g[n + 1]
        BY <4>1
      <4>4. u[(n + 1) + 1] = g[(n + 1) + 1]
        BY <4>2, <4>3, Zenon
      <4>5. n + 1 \in Nat
        OBVIOUS
      <4>6. QED BY <4>4, <4>5, Zenon
    <3>2. QED BY <3>1
  <2> HIDE DEF T
  <2>9. T = Nat
    <3>1. T \subseteq Nat
      BY DEF T
    <3>2. QED BY <2>7, <2>8, <3>1, InductiveSet
  <2>10. u[Len(q)] = g[Len(q)]
    <3>1. Len(q) - 1 \in T /\ (Len(q) - 1) + 1 = Len(q)
      BY <1>2, <1>4, <2>9
    <3>2. QED BY <1>2, <3>1 DEF T
  <2>11. g[Len(q)] = s
    BY <1>2, <1>4 DEF g
  <2>12. QED BY <1>1, <2>5, <2>10, <2>11
<1>5. QED BY <1>3, <1>4

(* The two digits of a byte.                                               *)
Upper == {"0", "1", "2", "3", "4", "5", "6", "7", "8", "9", "A", "B", "C", "D", "E", "F"}

LEMMA DigitProps ==
  ASSUME NEW n \in 0 .. 15
  PROVE  /\ HexDigits[n + 1] \in Upper
         /\ DigitOf(HexDigits[n + 1]) = n
<1>1. HexDigits[n + 1] \in Upper
  BY DEF HexDigits, Upper
<1>2. \A k \in 0 .. 15 : HexDigits[k + 1] = HexDigits[n + 1] => k = n
  BY DEF HexDigits
<1>3. HexDigits[n + 1] \notin DOMAIN LowerHex
  <2>1. DOMAIN LowerHex = {"a", "b", "c", "d", "e", "f"}
    BY DEF LowerHex
  <2>2. QED BY <1>1, <2>1 DEF Upper
<1>4. DigitOf(HexDigits[n + 1]) = CHOOSE k \in 0 .. 15 : HexDigits[k + 1] = HexDigits[n + 1]
  BY <1>3 DEF DigitOf
<1>5. QED BY <1>1, <1>2, <1>4

LEMMA UpperDigits ==
  ASSUME NEW x \in Upper
  PROVE  IsDigit(x)
<1>1. Upper \subseteq Range(HexDigits)
  <2>1. \A c \in Upper : \E n \in 1 .. 16 : HexDigits[n] = c
    <3>1. /\ HexDigits[1] = "0" /\ HexDigits[2] = "1" /\ HexDigits[3] = "2" /\ HexDigits[4] = "3"
          /\ HexDigits[5] = "4" /\ HexDigits[6] = "5" /\ HexDigits[7] = "6" /\ HexDigits[8] = "7"
          /\ HexDigits[9] = "8" /\ HexDigits[10] = "9" /\ HexDigits[11] = "A" /\ HexDigits[12] = "B"
          /\ HexDigits[13] = "C" /\ HexDigits[14] = "D" /\ HexDigits[15] = "E" /\ HexDigits[16] = "F"
      BY DEF HexDigits
    <3>2. QED BY <3>1 DEF Upper
  <2>2. DOMAIN HexDigits = 1 .. 16
    BY DEF HexDigits
  <2>3. QED BY <2>1, <2>2 DEF Range
<1>2. QED BY <1>1 DEF IsDigit

LEMMA UpperProps ==
  ASSUME NEW x \in Upper, NEW y \in Upper
  PROVE  PairStatus(x, y) = "ok" /\ x # "<E9>" /\ x # "+"
<1>1. IsDigit(x) /\ IsDigit(y)
  BY UpperDigits
<1>2. y # "<C3" /\ x # "<E9>" /\ x # "+"
  BY DEF Upper
<1>3. QED BY <1>1, <1>2 DEF PairStatus

LEMMA HexProps ==
  ASSUME NEW b \in Seq(0 .. 255)
  PROVE  /\ HexStr(b) \in Seq(Upper) /\ Len(HexStr(b)) = 2 * Len(b)
         /\ \A k \in 1 .. Len(b) : PairByte(HexStr(b)[2 * k - 1], HexStr(b)[2 * k]) = b[k]
<1>0. Len(b) \in Nat /\ \A k \in 1 .. Len(b) : b[k] \in 0 .. 255
  <2>1. \A S : \A t \in Seq(S) : Len(t) \in Nat /\ \A k \in 1 .. Len(t) : t[k] \in S
    OBVIOUS
  <2>2. QED BY <2>1, Zenon
<1>1. \A k \in 1 .. Len(b) :
        /\ HexStr(b)[2 * k - 1] = HexDigits[1 + (b[k] \div 16)]
        /\ HexStr(b)[2 * k] = HexDigits[1 + (b[k] % 16)]
  <2> SUFFICES ASSUME NEW k \in 1 .. Len(b)
               PROVE  /\ HexStr(b)[2 * k - 1] = HexDigits[1 + (b[k] \div 16)]
                      /\ HexStr(b)[2 * k] = HexDigits[1 + (b[k] % 16)]
    OBVIOUS
  <2>1. /\ 2 * k \in 1 .. 2 * Len(b) /\ 2 * k - 1 \in 1 .. 2 * Len(b)
        /\ (2 * k) % 2 = 0 /\ (2 * k - 1) % 2 = 1 /\ (2 * k) \div 2 = k /\ ((2 * k - 1) + 1) \div 2 = k
    BY <1>0
  <2>2. HexStr(b)[2 * k - 1] = HexDigits[1 + (b[((2 * k - 1) + 1) \div 2] \div 16)]
    BY <2>1, Zenon DEF HexStr
  <2>3. (2 * k) % 2 # 1
    BY <2>1
  <2>4. HexStr(b)[2 * k] = HexDigits[1 + (b[(2 * k) \div 2] % 16)]
    <3>1. HexStr(b)[2 * k] = HexDigits[1 + IF (2 * k) % 2 = 1 THEN b[((2 * k) + 1) \div 2] \div 16
                                           ELSE b[(2 * k) \div 2] % 16]
      BY <2>1, Zenon DEF HexStr
    <3>2. (IF (2 * k) % 2 = 1 THEN b[((2 * k) + 1) \div 2] \div 16 ELSE b[(2 * k) \div 2] % 16)
            = b[(2 * k) \div 2] % 16
      BY <2>3, Zenon
    <3>3. QED BY <3>1, <3>2, Zenon
  <2>5. QED BY <2>1, <2>2, <2>4, Zenon
<1>2. \A m \in 0 .. 255 : m \div 16 \in 0 .. 15 /\ m % 16 \in 0 .. 15 /\ 16 * (m \div 16) + (m % 16) = m
  <2> SUFFICES ASSUME NEW m \in 0 .. 255
               PROVE  m \div 16 \in 0 .. 15 /\ m % 16 \in 0 .. 15 /\ 16 * (m \div 16) + (m % 16) = m
    OBVIOUS
  <2>1. m \div 16 \in 0 .. 15
    OBVIOUS
  <2>2. m % 16 \in 0 .. 15
    OBVIOUS
  <2>3. 16 * (m \div 16) + (m % 16) = m
    OBVIOUS
  <2>4. QED BY <2>1, <2>2, <2>3
<1>3. \A i \in 1 .. 2 * Len(b) : HexStr(b)[i] \in Upper
  <2> SUFFICES ASSUME NEW i \in 1 .. 2 * Len(b) PROVE HexStr(b)[i] \in Upper
    OBVIOUS
  <2>1. PICK k \in 1 .. Len(b) : i = 2 * k \/ i = 2 * k - 1
    <3>1. CASE i % 2 = 0
      <4>1. i \div 2 \in 1 .. Len(b) /\ i = 2 * (i \div 2)
        BY <1>0, <3>1
      <4>2. QED BY <4>1
    <3>2. CASE i % 2 = 1
      <4>1. (i + 1) \div 2 \in 1 .. Len(b) /\ i = 2 * ((i + 1) \div 2) - 1
        BY <1>0, <3>2
      <4>2. QED BY <4>1
    <3>3. QED BY <1>0, <3>1, <3>2
  <2>2. HexStr(b)[i] = HexDigits[1 + (b[k] \div 16)] \/ HexStr(b)[i] = HexDigits[1 + (b[k] % 16)]
    BY <1>1, <2>1
  <2>3. b[k] \div 16 \in 0 .. 15 /\ b[k] % 16 \in 0 .. 15
    BY <1>0, <1>2
  <2>4. \A n \in 0 .. 15 : HexDigits[1 + n] \in Upper
    <3>1. \A n \in 0 .. 15 : 1 + n = n + 1
      OBVIOUS
    <3>2. QED BY <3>1, DigitProps, Zenon
  <2>5. CASE HexStr(b)[i] = HexDigits[1 + (b[k] \div 16)]
    BY <2>3, <2>4, <2>5, Zenon
  <2>6. CASE HexStr(b)[i] = HexDigits[1 + (b[k] % 16)]
    BY <2>3, <2>4, <2>6, Zenon
  <2>7. QED BY <2>2, <2>5, <2>6, Zenon
<1>4. HexStr(b) \in Seq(Upper) /\ Len(HexStr(b)) = 2 * Len(b)
  <2>1. 2 * Len(b) \in Nat /\ HexStr(b) = [i \in 1 .. 2 * Len(b) |-> HexStr(b)[i]]
    BY <1>0 DEF HexStr
  <2>2. QED BY <1>3, <2>1
<1>5. ASSUME NEW k \in 1 .. Len(b)
      PROVE  PairByte(HexStr(b)[2 * k - 1], HexStr(b)[2 * k]) = b[k]
  <2>1. PICK h \in 0 .. 15 : h = b[k] \div 16
    BY <1>0, <1>2
  <2>2. PICK l \in 0 .. 15 : l = b[k] % 16
    BY <1>0, <1>2
  <2>3. HexStr(b)[2 * k - 1] = HexDigits[h + 1] /\ HexStr(b)[2 * k] = HexDigits[l + 1]
    <3>1. 1 + h = h + 1 /\ 1 + l = l + 1
      OBVIOUS
    <3>2. HexStr(b)[2 * k - 1] = HexDigits[1 + h] /\ HexStr(b)[2 * k] = HexDigits[1 + l]
      BY <1>1, <2>1, <2>2
    <3>3. QED BY <3>1, <3>2
  <2>4. HexDigits[h + 1] # "+" /\ DigitOf(HexDigits[h + 1]) = h /\ DigitOf(HexDigits[l + 1]) = l
    BY DigitProps, UpperProps
  <2>5. PairByte(HexDigits[h + 1], HexDigits[l + 1]) = (16 * h) + l
    BY <2>4 DEF PairByte
  <2>6. 16 * h + l = b[k]
    BY <1>0, <1>2, <2>1, <2>2
  <2>7. QED BY <2>3, <2>5, <2>6
<1>6. QED BY <1>4, <1>5

(* decode_hex_bytes undoes "{:02X}".                                       *)
THEOREM HexDecodes ==
  ASSUME NEW b \in Seq(0 .. 255)
  PROVE  decode_hex_bytes(HexStr(b)) = Decoded(b)
<1>1. PICK s : s = HexStr(b)
  OBVIOUS
<1>2. /\ s \in Seq(Upper) /\ Len(s) = 2 * Len(b) /\ Len(b) \in Nat /\ DOMAIN s = 1 .. Len(s)
      /\ \A i \in 1 .. Len(s) : s[i] \in Upper
      /\ \A k \in 1 .. Len(b) : PairByte(s[2 * k - 1], s[2 * k]) = b[k]
  BY <1>1, HexProps
<1>3. Bytes(s) = s
  <2>1. [i \in DOMAIN s |-> IF s[i] = "<E9>" THEN <<"<C3", "A9>">> ELSE <<s[i]>>] = [i \in DOMAIN s |-> <<s[i]>>]
    BY <1>2, UpperProps
  <2>2. QED BY <1>2, <2>1, FlattenSingles DEF Bytes
<1>4. Len(s) \div 2 = Len(b) /\ Len(s) % 2 = 0
  BY <1>2
<1>5. PICK status : status = [k \in 1 .. Len(b) |-> PairStatus(s[2 * k - 1], s[2 * k])]
  OBVIOUS
<1>6. {k \in DOMAIN status : status[k] # "ok"} = {}
  <2>1. \A k \in 1 .. Len(b) : 2 * k - 1 \in 1 .. Len(s) /\ 2 * k \in 1 .. Len(s)
    BY <1>2
  <2>2. \A k \in 1 .. Len(b) : status[k] = "ok"
    BY <1>2, <1>5, <2>1, UpperProps
  <2>3. QED BY <1>5, <2>2
<1>7. [k \in DOMAIN status |-> PairByte(s[2 * k - 1], s[2 * k])] = b
  <2>1. DOMAIN status = 1 .. Len(b)
    BY <1>5
  <2>2. b = [k \in 1 .. Len(b) |-> b[k]]
    OBVIOUS
  <2>3. QED BY <1>2, <2>1, <2>2
<1>8. decode_hex_bytes(s) = Decoded([k \in DOMAIN status |-> PairByte(s[2 * k - 1], s[2 * k])])
  <2>1. status = [k \in 1 .. Len(s) \div 2 |-> PairStatus(s[2 * k - 1], s[2 * k])]
    BY <1>4, <1>5
  <2>2. Len(s) % 2 # 1
    BY <1>4
  <2>3. QED BY <1>3, <1>4, <1>6, <2>1, <2>2, Zenon DEF decode_hex_bytes
<1>9. QED BY <1>1, <1>7, <1>8
-----------------------------------------------------------------------------
(* STRING, and the words the model builds texts of: those are strings too, *)
(* but the provers do not know that of a literal.                          *)
Letter == STRING \cup {"RTID(", ")", "0", ".", ":", "@", "$BINARY(", ", "} \cup Upper
            \cup DOMAIN HexValue \cup {ToString(n) : n \in Nat}

LEMMA LetterWords ==
  /\ "RTID(" \in Letter /\ ")" \in Letter /\ "0" \in Letter /\ "." \in Letter /\ ":" \in Letter /\ "@" \in Letter
  /\ "$BINARY(" \in Letter /\ ", " \in Letter
  /\ Upper \subseteq Letter /\ DOMAIN HexValue \subseteq Letter /\ STRING \subseteq Letter
  /\ \A n \in Nat : ToString(n) \in Letter
BY DEF Letter

(* Between the brackets of an RTID text.                                   *)
LEMMA WrapElements ==
  ASSUME NEW t \in Seq(Letter)
  PROVE  /\ Wrap(t) \in Seq(Letter) /\ Len(Wrap(t)) = Len(t) + 2 /\ Len(t) \in Nat
         /\ Wrap(t)[1] = "RTID(" /\ Wrap(t)[Len(t) + 2] = ")"
         /\ \A i \in 1 .. Len(t) : Wrap(t)[i + 1] = t[i]
<1>1. PICK a \in Seq(Letter) : a = <<"RTID(">> /\ Len(a) = 1 /\ a[1] = "RTID("
  BY LetterWords, SingleProps
<1>2. PICK z \in Seq(Letter) : z = <<")">> /\ Len(z) = 1 /\ z[1] = ")"
  BY LetterWords, SingleProps
<1>3. PICK m \in Seq(Letter) : m = a \o t
  BY ConcatProps
<1>4. Len(t) \in Nat /\ Len(m) = Len(t) + 1 /\ m[1] = "RTID(" /\ \A i \in 1 .. Len(t) : m[i + 1] = t[i]
  <2>1. /\ Len(m) = Len(a) + Len(t) /\ \A i \in 1 .. Len(a) : m[i] = a[i]
        /\ \A i \in Len(a) + 1 .. Len(a) + Len(t) : m[i] = t[i - Len(a)]
    BY <1>3, ConcatProps
  <2>2. Len(t) \in Nat
    BY ElementProps
  <2>3. QED BY <1>1, <2>1, <2>2
<1>5. PICK w \in Seq(Letter) : w = m \o z
  BY ConcatProps
<1>6. /\ Len(w) = Len(t) + 2 /\ w[1] = "RTID(" /\ w[Len(t) + 2] = ")"
      /\ \A i \in 1 .. Len(t) : w[i + 1] = t[i]
  <2>1. /\ Len(w) = Len(m) + Len(z)
        /\ \A i \in 1 .. Len(m) : w[i] = m[i]
        /\ \A i \in Len(m) + 1 .. Len(m) + Len(z) : w[i] = z[i - Len(m)]
    BY <1>5, ConcatProps
  <2>2. QED BY <1>2, <1>4, <2>1
<1>7. Wrap(t) = w
  BY <1>1, <1>2, <1>3, <1>5 DEF Wrap
<1>8. QED BY <1>4, <1>6, <1>7

LEMMA WrapProps ==
  ASSUME NEW t \in Seq(Letter)
  PROVE  /\ Wrap(t) \in Seq(Letter) /\ Wrap(t) # <<>> /\ Wrap(t)[1] = "RTID("
         /\ Inner(Wrap(t)) = t
         /\ ~Contains(t, "\n") => Wrapped(Wrap(t))
<1>1. PICK w \in Seq(Letter) : w = Wrap(t)
  BY WrapElements
<1>2. /\ Len(w) = Len(t) + 2 /\ Len(t) \in Nat /\ w[1] = "RTID(" /\ w[Len(t) + 2] = ")"
      /\ \A i \in 1 .. Len(t) : w[i + 1] = t[i]
  BY <1>1, WrapElements
<1>3. w # <<>>
  BY <1>2
<1>4. Inner(w) = t
  <2>1. PICK n \in Nat : n = Len(t) /\ n + 1 = Len(w) - 1
    BY <1>2
  <2> DEFINE u == SubSeq(w, 2, n + 1)
  <2>2. /\ u \in Seq(Letter) /\ Len(u) = (n + 1) - 2 + 1
        /\ \A i \in 1 .. (n + 1) - 2 + 1 : u[i] = w[2 + i - 1]
    <3>1. 2 \in Nat /\ n + 1 \in Nat /\ n + 1 <= Len(w) /\ 2 <= (n + 1) + 1 /\ 2 >= 1
      BY <1>2, <2>1
    <3>2. QED BY <3>1, PartProps, ZenonT(40)
  <2> HIDE DEF u
  <2>3. Len(u) = Len(t) /\ \A i \in 1 .. Len(u) : u[i] = t[i]
    BY <1>2, <2>1, <2>2
  <2>4. u = t
    BY <2>2, <2>3, SameElements
  <2>5. QED BY <2>1, <2>4 DEF Inner, u
<1>5. ASSUME ~Contains(t, "\n") PROVE Wrapped(w)
  <2>1. \A i \in 1 .. Len(t) : t[i] # "\n"
    BY <1>5 DEF Contains
  <2>2. ASSUME NEW i \in 1 .. Len(w) PROVE w[i] # "\n"
    <3>1. i = 1 \/ i = Len(t) + 2 \/ (i - 1 \in 1 .. Len(t) /\ i = (i - 1) + 1)
      BY <1>2
    <3>2. CASE i - 1 \in 1 .. Len(t) /\ i = (i - 1) + 1
      <4>1. w[i] = t[i - 1]
        BY <1>2, <3>2
      <4>2. QED BY <2>1, <3>2, <4>1
    <3>3. QED BY <1>2, <3>1, <3>2
  <2>3. ~Contains(w, "\n")
    BY <2>2 DEF Contains
  <2>4. QED BY <1>2, <2>3 DEF Wrapped
<1>6. QED BY <1>1, <1>2, <1>3, <1>4, <1>5

LEMMA InnerProps ==
  ASSUME NEW s \in Seq(Letter), Wrapped(s)
  PROVE  /\ Inner(s) \in Seq(Letter) /\ ~Contains(Inner(s), "\n") /\ Wrap(Inner(s)) = s
         /\ s # <<>> /\ s[1] = "RTID("
<1>1. /\ Len(s) \in Nat /\ Len(s) >= 2 /\ s[1] = "RTID(" /\ s[Len(s)] = ")"
      /\ ~Contains(s, "\n")
  BY ElementProps DEF Wrapped
<1>2. PICK n \in Nat : n = Len(s) - 1
  BY <1>1
<1>3. PICK t \in Seq(Letter) : /\ t = SubSeq(s, 2, n) /\ Len(t) = n - 2 + 1
                               /\ \A i \in 1 .. n - 2 + 1 : t[i] = s[2 + i - 1]
  <2>1. 2 \in Nat /\ n <= Len(s) /\ 2 <= n + 1 /\ 2 >= 1
    BY <1>1, <1>2
  <2>2. /\ SubSeq(s, 2, n) \in Seq(Letter) /\ Len(SubSeq(s, 2, n)) = n - 2 + 1
        /\ \A i \in 1 .. n - 2 + 1 : SubSeq(s, 2, n)[i] = s[2 + i - 1]
    BY <2>1, PartProps, Zenon
  <2>3. QED BY <2>2, Zenon
<1>4. Inner(s) = t
  BY <1>2, <1>3 DEF Inner
<1>5. Len(t) = Len(s) - 2 /\ \A i \in 1 .. Len(t) : t[i] = s[i + 1]
  BY <1>1, <1>2, <1>3
<1>6. ~Contains(t, "\n")
  <2>1. \A i \in 1 .. Len(s) : s[i] # "\n"
    BY <1>1 DEF Contains
  <2>2. \A i \in 1 .. Len(t) : t[i] # "\n"
    BY <1>1, <1>5, <2>1
  <2>3. QED BY <2>2 DEF Contains
<1>7. PICK w \in Seq(Letter) : w = Wrap(t)
  BY WrapElements
<1>8. /\ Len(w) = Len(t) + 2 /\ w[1] = "RTID(" /\ w[Len(t) + 2] = ")"
      /\ \A i \in 1 .. Len(t) : w[i + 1] = t[i]
  BY <1>7, WrapElements
<1>9. w = s
  <2>1. Len(w) = Len(s)
    BY <1>1, <1>5, <1>8
  <2>2. ASSUME NEW i \in 1 .. Len(w) PROVE w[i] = s[i]
    <3>1. i = 1 \/ i = Len(s) \/ (i - 1 \in 1 .. Len(t) /\ i = (i - 1) + 1)
      BY <1>1, <1>5, <2>1
    <3>2. CASE i = Len(s)
      <4>1. i = Len(t) + 2
        BY <1>1, <1>5, <3>2
      <4>2. QED BY <1>1, <1>8, <3>2, <4>1
    <3>3. CASE i - 1 \in 1 .. Len(t) /\ i = (i - 1) + 1
      <4>1. w[i] = t[i - 1] /\ t[i - 1] = s[i]
        BY <1>5, <1>8, <3>3
      <4>2. QED BY <4>1
    <3>4. QED BY <1>1, <1>8, <3>1, <3>2, <3>3
  <2>3. QED BY <2>1, <2>2, SameElements
<1>10. s # <<>>
  BY <1>1
<1>11. QED BY <1>1, <1>4, <1>6, <1>7, <1>9, <1>10

(* What Display writes of the numbers is what FromStr reads.               *)
LEMMA NumbersSpelled ==
  ASSUME NEW n \in Sizes
  PROVE  /\ HexText[n] \in DOMAIN HexValue /\ HexValue[HexText[n]] = n /\ HexText[n] # "\n"
         /\ n # Big => /\ ObjText[n] \in DOMAIN HexValue /\ HexValue[ObjText[n]] = n
                       /\ ObjText[n] # "\n" /\ n <= U32Limit
<1>1. HexText[n] \in DOMAIN HexValue /\ HexValue[HexText[n]] = n /\ HexText[n] # "\n"
  BY DEF Sizes, HexText, HexValue, Big
<1>2. ASSUME n # Big PROVE ObjText[n] \in DOMAIN HexValue /\ HexValue[ObjText[n]] = n /\ ObjText[n] # "\n"
  BY <1>2 DEF Sizes, ObjText, HexValue, Big
<1>3. n # Big => n <= U32Limit
  BY DEF Sizes, Big, U32Limit
<1>4. QED BY <1>1, <1>2, <1>3

LEMMA NumeralTables ==
  /\ \A w \in DOMAIN HexValue : HexValue[w] \in Sizes /\ w # ":"
  /\ \A w \in DOMAIN DecValue : DecValue[w] \in Sizes \ {Big}
  /\ Big > U32Limit /\ 0 \in Sizes \ {Big}
<1>1. ASSUME NEW w \in DOMAIN HexValue PROVE HexValue[w] \in Sizes /\ w # ":"
  BY DEF Sizes, HexValue, Big
<1>2. ASSUME NEW w \in DOMAIN DecValue PROVE DecValue[w] \in Sizes \ {Big}
  BY DEF Sizes, DecValue, Big
<1>3. Big > U32Limit /\ 0 \in Sizes \ {Big}
  BY DEF Sizes, Big, U32Limit
<1>4. QED BY <1>1, <1>2, <1>3

(* FromStr, pattern by pattern: no text matches two.                       *)
LEMMA FromStrPatterns ==
  ASSUME NEW s, NEW t \in Seq(Letter), Wrapped(s), Inner(s) = t
  PROVE  /\ t = <<"0">> => FromStr(s) = {Null}
         /\ Dotted(t, 1, HexValue, HexValue) =>
              FromStr(s) = DottedUid(t, 1, HexValue, HexValue)
         /\ Dotted(t, 2, DecValue, HexValue) /\ t[1] = ":" /\ Len(t) > 7 =>
              FromStr(s) = DottedUid(t, 2, DecValue, HexValue)
         /\ Colon(t) => FromStr(s) = {ColonUid(t)}
         /\ t # <<"0">> /\ ~Dotted(t, 1, HexValue, HexValue) /\ ~Colon(t)
              /\ ~(Dotted(t, 2, DecValue, HexValue) /\ t[1] = ":" /\ Len(t) > 7) =>
              FromStr(s) = IF RawPair(t) THEN {RawRtid(t)} ELSE {}
<1> DEFINE zero  == t = <<"0">>
           one   == Dotted(t, 1, HexValue, HexValue)
           two   == Dotted(t, 2, DecValue, HexValue) /\ t[1] = ":" /\ Len(t) > 7
           colon == Colon(t)
           raw   == IF RawPair(t) THEN {RawRtid(t)} ELSE {}
<1>1. FromStr(s) = CASE zero -> {Null}
                     [] one -> DottedUid(t, 1, HexValue, HexValue)
                     [] two -> DottedUid(t, 2, DecValue, HexValue)
                     [] colon -> {ColonUid(t)}
                     [] OTHER -> raw
  BY DEF FromStr
<1>2. Len(t) \in Nat
  BY ElementProps
<1>3. zero => Len(t) = 1
  OBVIOUS
<1>4. one => Len(t) >= 6 /\ t[1] # ":"
  BY <1>2, NumeralTables DEF Dotted
<1>5. colon => t[1] = ":" /\ Len(t) # 1 /\ ~(Len(t) > 7)
  <2>1. colon => t[1] = ":" /\ Len(t) \in {4, 6}
    BY DEF Colon
  <2>2. \A n \in {4, 6} : n # 1 /\ ~(n > 7)
    OBVIOUS
  <2>3. QED BY <2>1, <2>2, Zenon
<1>6. two => t[1] = ":" /\ Len(t) > 7
  OBVIOUS
<1>7. /\ zero => ~one /\ ~two /\ ~colon
      /\ one => ~two /\ ~colon
      /\ two => ~colon
  <2>1. zero => ~one /\ ~two /\ ~colon
    BY <1>2, <1>3, <1>4, <1>5, <1>6
  <2>2. one => ~two /\ ~colon
    BY <1>4, <1>5, <1>6, Zenon
  <2>3. two => ~colon
    BY <1>5, <1>6, Zenon
  <2>4. QED BY <2>1, <2>2, <2>3, Zenon
<1> HIDE DEF zero, one, two, colon, raw
<1>8. zero => FromStr(s) = {Null}
  BY <1>1, <1>7
<1>9. one => FromStr(s) = DottedUid(t, 1, HexValue, HexValue)
  BY <1>1, <1>7
<1>10. two => FromStr(s) = DottedUid(t, 2, DecValue, HexValue)
  BY <1>1, <1>7
<1>11. colon => FromStr(s) = {ColonUid(t)}
  BY <1>1, <1>7
<1>12. ~zero /\ ~one /\ ~two /\ ~colon => FromStr(s) = raw
  BY <1>1
<1>13. QED
  <2>1. t = <<"0">> => FromStr(s) = {Null}
    BY <1>8, Zenon DEF zero
  <2>2. Dotted(t, 1, HexValue, HexValue) => FromStr(s) = DottedUid(t, 1, HexValue, HexValue)
    BY <1>9, Zenon DEF one
  <2>3. Dotted(t, 2, DecValue, HexValue) /\ t[1] = ":" /\ Len(t) > 7 =>
          FromStr(s) = DottedUid(t, 2, DecValue, HexValue)
    BY <1>10, Zenon DEF two
  <2>4. Colon(t) => FromStr(s) = {ColonUid(t)}
    BY <1>11, Zenon DEF colon
  <2>5. t # <<"0">> /\ ~Dotted(t, 1, HexValue, HexValue) /\ ~Colon(t)
          /\ ~(Dotted(t, 2, DecValue, HexValue) /\ t[1] = ":" /\ Len(t) > 7) =>
          FromStr(s) = IF RawPair(t) THEN {RawRtid(t)} ELSE {}
    BY <1>12, Zenon DEF zero, one, two, colon, raw
  <2>6. QED BY <2>1, <2>2, <2>3, <2>4, <2>5, Zenon

LEMMA NullTextProps ==
  /\ NullText \in Seq(Letter) /\ NullText # <<>> /\ NullText[1] = "RTID("
  /\ FromStr(NullText) = {Null} /\ Display(Null) = NullText
<1>1. PICK t \in Seq(Letter) : t = <<"0">> /\ Len(t) = 1 /\ t[1] = "0"
  BY LetterWords, SingleProps
<1>2. ~Contains(t, "\n")
  BY <1>1 DEF Contains
<1>3. /\ NullText \in Seq(Letter) /\ NullText # <<>> /\ NullText[1] = "RTID("
      /\ Inner(NullText) = t /\ Wrapped(NullText)
  BY <1>1, <1>2, WrapProps DEF NullText
<1>4. FromStr(NullText) = {Null}
  <2>1. Wrapped(NullText) /\ Inner(NullText) = t
    BY <1>3
  <2>2. QED BY <1>1, <2>1, FromStrPatterns
<1>5. QED BY <1>3, <1>4 DEF Display, Null

(* Six words of numbers, then the name, if there is one.                   *)
Dots(a, b, c) == <<a, ".", b, ".", c, "@">>
IsDots(t, a, b, c, q) ==
  /\ t \in Seq(Letter) /\ Len(t) = 6 + Len(q) /\ ~Contains(t, "\n")
  /\ t[1] = a /\ t[2] = "." /\ t[3] = b /\ t[4] = "." /\ t[5] = c /\ t[6] = "@"
  /\ \A i \in 1 .. Len(q) : t[6 + i] = q[i]

LEMMA DottedText ==
  ASSUME NEW a \in Letter, NEW b \in Letter, NEW c \in Letter, NEW q \in Seq(Letter),
         a # "\n", b # "\n", c # "\n", ~Contains(q, "\n"),
         NEW t, t = Dots(a, b, c) \o q
  PROVE  IsDots(t, a, b, c, q)
<1>1. "." \in Letter /\ "@" \in Letter
  BY LetterWords
<1>2. PICK d : d = Dots(a, b, c)
  OBVIOUS
<1>3. /\ d \in Seq(Letter) /\ Len(d) = 6
      /\ d[1] = a /\ d[2] = "." /\ d[3] = b /\ d[4] = "." /\ d[5] = c /\ d[6] = "@"
  BY <1>1, <1>2 DEF Dots
<1>4. PICK w \in Seq(Letter) : w = d \o q
  BY <1>3, ConcatProps
<1>5. /\ Len(q) \in Nat /\ Len(w) = 6 + Len(q)
      /\ \A i \in 1 .. 6 : w[i] = d[i]
      /\ \A i \in 1 .. Len(q) : w[6 + i] = q[i]
  <2>1. /\ Len(w) = Len(d) + Len(q) /\ \A i \in 1 .. Len(d) : w[i] = d[i]
        /\ \A i \in Len(d) + 1 .. Len(d) + Len(q) : w[i] = q[i - Len(d)]
    <3>1. PICK e \in Seq(Letter) : e = d
      BY <1>3
    <3>2. w = e \o q
      BY <1>4, <3>1
    <3>3. /\ Len(e \o q) = Len(e) + Len(q) /\ \A i \in 1 .. Len(e) : (e \o q)[i] = e[i]
          /\ \A i \in Len(e) + 1 .. Len(e) + Len(q) : (e \o q)[i] = q[i - Len(e)]
      BY ConcatProps, Zenon
    <3>4. QED BY <3>1, <3>2, <3>3, Zenon
  <2>2. Len(q) \in Nat
    BY ElementProps
  <2>3. QED BY <1>3, <2>1, <2>2
<1>6. w[1] = a /\ w[2] = "." /\ w[3] = b /\ w[4] = "." /\ w[5] = c /\ w[6] = "@"
  BY <1>3, <1>5
<1>7. ~Contains(w, "\n")
  <2>1. \A i \in 1 .. Len(q) : q[i] # "\n"
    BY DEF Contains
  <2>2. ASSUME NEW i \in 1 .. Len(w) PROVE w[i] # "\n"
    <3>1. i \in {1, 2, 3, 4, 5, 6} \/ (i - 6 \in 1 .. Len(q) /\ i = 6 + (i - 6))
      BY <1>5
    <3>2. CASE i \in {1, 2, 3, 4, 5, 6}
      BY <1>6, <3>2
    <3>3. CASE i - 6 \in 1 .. Len(q) /\ i = 6 + (i - 6)
      <4>1. w[i] = q[i - 6]
        BY <1>5, <3>3
      <4>2. QED BY <2>1, <3>3, <4>1
    <3>4. QED BY <3>1, <3>2, <3>3
  <2>3. QED BY <2>2 DEF Contains
<1>8. w = t
  BY <1>2, <1>4
<1>9. QED BY <1>4, <1>5, <1>6, <1>7, <1>8 DEF IsDots

(* An RTID of numbers within the tables is what its text spells.           *)
LEMMA UidStable ==
  ASSUME NEW g \in Sizes, NEW n \in Sizes, NEW o \in Sizes \ {Big}, NEW nm,
         nm = None \/ \E q \in Seq(Letter) : nm = Some(q) /\ q # <<>> /\ ~Contains(q, "\n")
  PROVE  FromStr(Display(Uid(g, n, o, nm))) = {Uid(g, n, o, nm)}
<1>1. PICK q \in Seq(Letter) : /\ q = NameOr(nm) /\ ~Contains(q, "\n")
                               /\ nm = IF Len(q) = 0 THEN None ELSE Some(q)
  <2>1. CASE nm = None
    <3>1. <<>> \in Seq(Letter) /\ Len(<<>>) = 0 /\ ~Contains(<<>>, "\n")
      BY DEF Contains
    <3>2. QED BY <2>1, <3>1 DEF NameOr
  <2>2. CASE nm # None
    <3>1. PICK q \in Seq(Letter) : nm = Some(q) /\ q # <<>> /\ ~Contains(q, "\n")
      BY <2>2
    <3>2. Unwrap(nm) = q
      BY <3>1 DEF Unwrap, Some
    <3>3. Len(q) # 0
      BY <3>1
    <3>4. QED BY <2>2, <3>1, <3>2, <3>3 DEF NameOr
  <2>3. QED BY <2>1, <2>2
<1>2. /\ HexText[n] \in DOMAIN HexValue /\ HexValue[HexText[n]] = n /\ HexText[n] # "\n"
      /\ HexText[g] \in DOMAIN HexValue /\ HexValue[HexText[g]] = g /\ HexText[g] # "\n"
      /\ ObjText[o] \in DOMAIN HexValue /\ HexValue[ObjText[o]] = o /\ ObjText[o] # "\n" /\ o <= U32Limit
  BY NumbersSpelled
<1>3. PICK a \in Letter, b \in Letter, c \in Letter : a = HexText[n] /\ b = HexText[g] /\ c = ObjText[o]
  BY <1>2, LetterWords
<1>0. PICK t : t = Dots(a, b, c) \o q
  OBVIOUS
<1>4. /\ t \in Seq(Letter)
      /\ Len(t) = 6 + Len(q) /\ ~Contains(t, "\n")
      /\ t[1] = a /\ t[2] = "." /\ t[3] = b /\ t[4] = "." /\ t[5] = c /\ t[6] = "@"
      /\ \A i \in 1 .. Len(q) : t[6 + i] = q[i]
  <2>1. a # "\n" /\ b # "\n" /\ c # "\n" /\ ~Contains(q, "\n")
    BY <1>1, <1>2, <1>3
  <2>2. IsDots(t, a, b, c, q)
    BY <1>0, <2>1, DottedText
  <2>3. QED BY <2>2, Zenon DEF IsDots
<1>5. Display(Uid(g, n, o, nm)) = Wrap(t)
  BY <1>0, <1>1, <1>3 DEF Display, Uid, Dots
<1>6. Wrapped(Wrap(t)) /\ Inner(Wrap(t)) = t
  BY <1>4, WrapProps
<1>7. Len(q) \in Nat
  BY ElementProps
<1>8. Dotted(t, 1, HexValue, HexValue)
  BY <1>2, <1>3, <1>4, <1>7 DEF Dotted
<1>9. NameFrom(t, 7) = nm
  <2>1. CASE Len(q) = 0
    BY <1>1, <1>4, <2>1 DEF NameFrom
  <2>2. CASE Len(q) # 0
    <3>1. PICK m \in Nat : m = Len(t) /\ m = 6 + Len(q)
      BY <1>4, <1>7
    <3> DEFINE u == SubSeq(t, 7, m)
    <3>2. u \in Seq(Letter) /\ Len(u) = m - 7 + 1 /\ \A i \in 1 .. m - 7 + 1 : u[i] = t[7 + i - 1]
      <4>1. 7 \in Nat /\ m <= Len(t) /\ 7 <= m + 1 /\ 7 >= 1
        BY <1>7, <2>2, <3>1
      <4>2. t \in Seq(Letter)
        BY <1>4
      <4>3. /\ SubSeq(t, 7, m) \in Seq(Letter) /\ Len(SubSeq(t, 7, m)) = m - 7 + 1
            /\ \A i \in 1 .. m - 7 + 1 : SubSeq(t, 7, m)[i] = t[7 + i - 1]
        BY <4>1, <4>2, PartProps, SMTT(30)
      <4>4. QED BY <4>3, Zenon
    <3> HIDE DEF u
    <3>3. Len(u) = Len(q) /\ \A i \in 1 .. Len(u) : u[i] = q[i]
      BY <1>4, <1>7, <3>1, <3>2
    <3>4. u = q
      BY <3>2, <3>3, SameElements
    <3>5. ~(Len(t) < 7)
      BY <1>4, <1>7, <2>2
    <3>6. QED BY <1>1, <2>2, <3>1, <3>4, <3>5 DEF NameFrom, u
  <2>3. QED BY <2>1, <2>2
<1>10. DottedUid(t, 1, HexValue, HexValue) = {Uid(g, n, o, nm)}
  <2>1. t[1 + 2] = HexText[g] /\ t[1 + 4] = ObjText[o] /\ NameFrom(t, 1 + 6) = nm
    BY <1>3, <1>4, <1>9
  <2>2. ~(o > U32Limit)
    BY <1>2 DEF Sizes, U32Limit, Big
  <2>3. QED BY <1>2, <1>3, <1>4, <2>1, <2>2 DEF DottedUid
<1>11. FromStr(Wrap(t)) = DottedUid(t, 1, HexValue, HexValue)
  BY <1>4, <1>6, <1>8, FromStrPatterns
<1>12. QED BY <1>5, <1>10, <1>11

(* What is left of a line, if anything, is on one line.                    *)
LEMMA NameFromProps ==
  ASSUME NEW t \in Seq(Letter), ~Contains(t, "\n"), NEW n \in Nat, n >= 1
  PROVE  NameFrom(t, n) = None
           \/ \E q \in Seq(Letter) : NameFrom(t, n) = Some(q) /\ q # <<>> /\ ~Contains(q, "\n")
<1>1. PICK m \in Nat : m = Len(t)
  BY ElementProps
<1>2. CASE m < n
  BY <1>1, <1>2 DEF NameFrom
<1>3. CASE ~(m < n)
  <2> DEFINE u == SubSeq(t, n, m)
  <2>1. u \in Seq(Letter) /\ Len(u) = m - n + 1 /\ \A k \in 1 .. m - n + 1 : u[k] = t[n + k - 1]
    <3>1. m <= Len(t) /\ n <= m + 1 /\ n >= 1
      BY <1>1, <1>3
    <3>2. QED BY <3>1, PartProps
  <2> HIDE DEF u
  <2>2. u # <<>>
    BY <1>3, <2>1, ElementProps
  <2>3. ~Contains(u, "\n")
    <3>1. \A k \in 1 .. Len(t) : t[k] # "\n"
      BY DEF Contains
    <3>2. ASSUME NEW k \in 1 .. Len(u) PROVE u[k] # "\n"
      <4>1. n + k - 1 \in 1 .. Len(t) /\ u[k] = t[n + k - 1]
        BY <1>1, <1>3, <2>1
      <4>2. QED BY <3>1, <4>1
    <3>3. QED BY <3>2 DEF Contains
  <2>4. NameFrom(t, n) = Some(u)
    BY <1>1, <1>3 DEF NameFrom, u
  <2>5. QED BY <2>1, <2>2, <2>3, <2>4
<1>4. QED BY <1>2, <1>3

LEMMA DottedStable ==
  ASSUME NEW t \in Seq(Letter), ~Contains(t, "\n"), NEW i \in {1, 2}, NEW xs, NEW r,
         \A w \in DOMAIN xs : xs[w] \in Sizes,
         Dotted(t, i, xs, HexValue), DottedUid(t, i, xs, HexValue) = {r}
  PROVE  FromStr(Display(r)) = {r}
<1>1. /\ xs[t[i + 2]] \in Sizes /\ xs[t[i]] \in Sizes /\ HexValue[t[i + 4]] \in Sizes
  BY NumeralTables DEF Dotted
<1>2. ~(HexValue[t[i + 4]] > U32Limit)
  BY DEF DottedUid
<1>3. HexValue[t[i + 4]] \in Sizes \ {Big}
  BY <1>1, <1>2, NumeralTables
<1>4. r = Uid(xs[t[i + 2]], xs[t[i]], HexValue[t[i + 4]], NameFrom(t, i + 6))
  BY <1>2 DEF DottedUid
<1>5. NameFrom(t, i + 6) = None
        \/ \E q \in Seq(Letter) : NameFrom(t, i + 6) = Some(q) /\ q # <<>> /\ ~Contains(q, "\n")
  BY NameFromProps
<1>6. QED BY <1>1, <1>3, <1>4, <1>5, UidStable

(* The first of the places where a word stands, and the text around it.    *)
LEMMA FirstPlace ==
  ASSUME NEW t \in Seq(Letter), NEW x, Contains(t, x),
         NEW at, at = Min({i \in 1 .. Len(t) : t[i] = x})
  PROVE  at \in 1 .. Len(t) /\ t[at] = x /\ \A i \in 1 .. at - 1 : t[i] # x
<1> DEFINE I == {i \in 1 .. Len(t) : t[i] = x}
<1>0. Len(t) \in Nat
  BY ElementProps
<1>1. I # {}
  BY DEF Contains
<1>2. at = Min(I)
  OBVIOUS
<1>3. I \subseteq Nat
  BY <1>0
<1> HIDE DEF I
<1>4. \E i \in I : \A j \in I : i <= j
  BY <1>1, <1>3, LeastNumber
<1>5. at \in I /\ \A j \in I : at <= j
  BY <1>2, <1>4 DEF Min
<1>6. ASSUME NEW i \in 1 .. at - 1 PROVE t[i] # x
  <2>1. i \in 1 .. Len(t) /\ ~(at <= i)
    BY <1>0, <1>5 DEF I
  <2>2. QED BY <1>5, <2>1 DEF I
<1>7. QED BY <1>5, <1>6 DEF I

LEMMA Parted ==
  ASSUME NEW t \in Seq(Letter), NEW at \in 1 .. Len(t)
  PROVE  SubSeq(t, 1, at - 1) \o <<t[at]>> \o SubSeq(t, at + 1, Len(t)) = t
<1>1. PICK n \in Nat : n = Len(t)
  BY ElementProps
<1>2. at \in Nat /\ at - 1 \in Nat /\ at + 1 \in Nat /\ 1 <= at /\ at <= n /\ t[at] \in Letter
  BY <1>1, ElementProps
<1> DEFINE a == SubSeq(t, 1, at - 1)
           z == SubSeq(t, at + 1, n)
           m == <<t[at]>>
<1>3. a \in Seq(Letter) /\ Len(a) = (at - 1) - 1 + 1 /\ \A i \in 1 .. (at - 1) - 1 + 1 : a[i] = t[1 + i - 1]
  <2>1. 1 \in Nat /\ 1 >= 1 /\ at - 1 <= Len(t) /\ 1 <= (at - 1) + 1
    BY <1>1, <1>2
  <2>2. QED BY <1>2, <2>1, PartProps
<1>4. z \in Seq(Letter) /\ Len(z) = n - (at + 1) + 1 /\ \A i \in 1 .. n - (at + 1) + 1 : z[i] = t[(at + 1) + i - 1]
  <2>1. at + 1 >= 1 /\ n <= Len(t) /\ at + 1 <= n + 1
    BY <1>1, <1>2
  <2>2. QED BY <1>2, <2>1, PartProps
<1>5. m \in Seq(Letter) /\ Len(m) = 1 /\ m[1] = t[at]
  BY <1>2, SingleProps
<1> HIDE DEF a, z, m
<1> DEFINE w == a \o m
           v == w \o z
<1>6. w \in Seq(Letter) /\ Len(w) = at /\ \A i \in 1 .. at : w[i] = t[i]
  <2>1. /\ w \in Seq(Letter) /\ Len(w) = Len(a) + Len(m) /\ \A i \in 1 .. Len(a) : w[i] = a[i]
        /\ \A i \in Len(a) + 1 .. Len(a) + Len(m) : w[i] = m[i - Len(a)]
    BY <1>3, <1>5, ConcatProps, ZenonT(40)
  <2> HIDE DEF w
  <2>2. Len(a) = at - 1 /\ Len(w) = at
    BY <1>2, <1>3, <1>5, <2>1
  <2>3. ASSUME NEW i \in 1 .. at, i # at PROVE w[i] = t[i]
    <3>1. i \in 1 .. Len(a) /\ i \in 1 .. (at - 1) - 1 + 1 /\ 1 + i - 1 = i
      BY <1>2, <2>2, <2>3
    <3>2. QED BY <1>3, <2>1, <3>1
  <2>4. w[at] = t[at]
    <3>1. at \in Len(a) + 1 .. Len(a) + Len(m) /\ at - Len(a) = 1
      BY <1>2, <1>5, <2>2
    <3>2. QED BY <1>5, <2>1, <3>1
  <2>5. QED BY <2>1, <2>2, <2>3, <2>4
<1> HIDE DEF w
<1>7. v \in Seq(Letter) /\ Len(v) = n /\ \A i \in 1 .. n : v[i] = t[i]
  <2>1. /\ v \in Seq(Letter) /\ Len(v) = Len(w) + Len(z) /\ \A i \in 1 .. Len(w) : v[i] = w[i]
        /\ \A i \in Len(w) + 1 .. Len(w) + Len(z) : v[i] = z[i - Len(w)]
    BY <1>4, <1>6, ConcatProps, ZenonT(40)
  <2> HIDE DEF v
  <2>2. ASSUME NEW i \in 1 .. n, i > at PROVE v[i] = t[i]
    <3>1. i - at \in 1 .. n - (at + 1) + 1 /\ (at + 1) + (i - at) - 1 = i /\ i \in Len(w) + 1 .. Len(w) + Len(z)
      BY <1>2, <1>4, <1>6, <2>2
    <3>2. v[i] = z[i - at] /\ z[i - at] = t[(at + 1) + (i - at) - 1]
      BY <1>4, <1>6, <2>1, <3>1
    <3>3. QED BY <3>1, <3>2
  <2>3. Len(v) = n
    BY <1>2, <1>4, <1>6, <2>1
  <2>4. ASSUME NEW i \in 1 .. n, ~(i > at) PROVE v[i] = t[i]
    <3>1. i \in 1 .. at /\ i \in 1 .. Len(w)
      BY <1>2, <1>6, <2>4
    <3>2. QED BY <1>6, <2>1, <3>1
  <2>5. QED BY <2>1, <2>2, <2>3, <2>4
<1> HIDE DEF v
<1>8. v = t
  BY <1>1, <1>7, SameElements
<1>9. QED BY <1>1, <1>8 DEF a, m, z, w, v

LEMMA RawText ==
  ASSUME NEW t \in Seq(Letter), RawPair(t)
  PROVE  Display(RawRtid(t)) = Wrap(t)
<1>1. Contains(t, "@")
  <2>1. SUFFICES ASSUME ~Contains(t, "@") PROVE FALSE
    OBVIOUS
  <2>2. {i \in DOMAIN t : t[i] = "@"} = {}
    BY <2>1, ElementProps DEF Contains
  <2>3. Cardinality({i \in DOMAIN t : t[i] = "@"}) = 1
    BY DEF RawPair
  <2>4. Cardinality({}) = 0
    BY FS_EmptySet
  <2>5. Cardinality({}) = 1
    BY <2>2, <2>3, Zenon
  <2>6. QED BY <2>4, <2>5
<1>2. PICK at : at = SelectInSeq(t, LAMBDA x : x = "@")
  OBVIOUS
<1>3. at \in 1 .. Len(t) /\ t[at] = "@"
  <2>1. at = Min({i \in 1 .. Len(t) : t[i] = "@"})
    BY <1>1, <1>2 DEF SelectInSeq, Contains
  <2>2. QED BY <1>1, <2>1, FirstPlace
<1>4. RawRtid(t) = Raw(SubSeq(t, 1, at - 1), SubSeq(t, at + 1, Len(t)))
  BY <1>2 DEF RawRtid
<1>5. Display(RawRtid(t)) = Wrap(SubSeq(t, 1, at - 1) \o <<"@">> \o SubSeq(t, at + 1, Len(t)))
  BY <1>4 DEF Display, Raw
<1>6. SubSeq(t, 1, at - 1) \o <<t[at]>> \o SubSeq(t, at + 1, Len(t)) = t
  BY <1>3, Parted
<1>7. QED BY <1>3, <1>5, <1>6

(* FromStr has one answer at most, and none unless the text begins and     *)
(* ends as an RTID's.                                                      *)
LEMMA FromStrProps ==
  ASSUME NEW s \in Seq(Letter), FromStr(s) # {}
  PROVE  /\ Wrapped(s) /\ s # <<>> /\ s[1] = "RTID("
         /\ \E r : FromStr(s) = {r}
<1>1. Wrapped(s)
  BY DEF FromStr
<1>2. PICK t \in Seq(Letter) : t = Inner(s)
  BY <1>1, InnerProps
<1>3. s # <<>> /\ s[1] = "RTID("
  BY <1>1, InnerProps
<1>4. \A i, xs : DottedUid(t, i, xs, HexValue) = {} \/ \E r : DottedUid(t, i, xs, HexValue) = {r}
  BY DEF DottedUid
<1>5. FromStr(s) = {} \/ \E r : FromStr(s) = {r}
  <2>1. CASE Dotted(t, 1, HexValue, HexValue)
    <3>1. FromStr(s) = DottedUid(t, 1, HexValue, HexValue)
      BY <1>1, <1>2, <2>1, FromStrPatterns
    <3>2. QED BY <1>4, <3>1
  <2>2. CASE Dotted(t, 2, DecValue, HexValue) /\ t[1] = ":" /\ Len(t) > 7
    <3>1. FromStr(s) = DottedUid(t, 2, DecValue, HexValue)
      BY <1>1, <1>2, <2>2, FromStrPatterns
    <3>2. QED BY <1>4, <3>1
  <2>3. CASE t = <<"0">>
    <3>1. FromStr(s) = {Null}
      BY <1>1, <1>2, <2>3, FromStrPatterns
    <3>2. QED BY <3>1
  <2>4. CASE Colon(t)
    <3>1. FromStr(s) = {ColonUid(t)}
      BY <1>1, <1>2, <2>4, FromStrPatterns
    <3>2. QED BY <3>1
  <2>5. CASE /\ t # <<"0">> /\ ~Dotted(t, 1, HexValue, HexValue) /\ ~Colon(t)
             /\ ~(Dotted(t, 2, DecValue, HexValue) /\ t[1] = ":" /\ Len(t) > 7)
    <3>1. FromStr(s) = IF RawPair(t) THEN {RawRtid(t)} ELSE {}
      BY <1>1, <1>2, <2>5, FromStrPatterns
    <3>2. QED BY <3>1
  <2>6. QED BY <2>1, <2>2, <2>3, <2>4, <2>5
<1>6. QED BY <1>1, <1>3, <1>5

(* What an RTID's text has once been read as spells it for good.           *)
LEMMA DisplayStable ==
  ASSUME NEW s \in Seq(Letter), NEW r, FromStr(s) = {r}
  PROVE  FromStr(Display(r)) = {r}
<1>1. Wrapped(s)
  BY FromStrProps
<1>2. PICK t \in Seq(Letter) : t = Inner(s) /\ ~Contains(t, "\n") /\ Wrap(t) = s
  BY <1>1, InnerProps
<1>3. CASE t = <<"0">>
  <2>1. FromStr(s) = {Null}
    BY <1>1, <1>2, <1>3, FromStrPatterns
  <2>2. QED BY <2>1, NullTextProps
<1>4. CASE Dotted(t, 1, HexValue, HexValue)
  <2>1. DottedUid(t, 1, HexValue, HexValue) = {r}
    BY <1>1, <1>2, <1>4, FromStrPatterns
  <2>2. \A w \in DOMAIN HexValue : HexValue[w] \in Sizes
    BY NumeralTables
  <2>3. QED BY <1>2, <1>4, <2>1, <2>2, DottedStable
<1>5. CASE Dotted(t, 2, DecValue, HexValue) /\ t[1] = ":" /\ Len(t) > 7
  <2>1. DottedUid(t, 2, DecValue, HexValue) = {r}
    BY <1>1, <1>2, <1>5, FromStrPatterns
  <2>2. \A w \in DOMAIN DecValue : DecValue[w] \in Sizes
    BY NumeralTables
  <2>3. QED BY <1>2, <1>5, <2>1, <2>2, DottedStable
<1>6. CASE Colon(t)
  <2>1. FromStr(s) = {ColonUid(t)}
    BY <1>1, <1>2, <1>6, FromStrPatterns
  <2>2. PICK g, n, o : /\ g = DecValue[t[4]] /\ n = DecValue[t[2]]
                       /\ o = IF Len(t) = 4 THEN 0 ELSE DecValue[t[6]]
    OBVIOUS
  <2>3. /\ t[2] \in DOMAIN DecValue /\ t[4] \in DOMAIN DecValue
        /\ Len(t) # 4 => t[6] \in DOMAIN DecValue
    BY <1>6 DEF Colon
  <2>4. g \in Sizes /\ n \in Sizes /\ o \in Sizes \ {Big}
    BY <2>2, <2>3, NumeralTables
  <2>5. r = Uid(g, n, o, None)
    BY <2>1, <2>2 DEF ColonUid
  <2>6. QED BY <2>4, <2>5, UidStable
<1>7. CASE /\ t # <<"0">> /\ ~Dotted(t, 1, HexValue, HexValue) /\ ~Colon(t)
           /\ ~(Dotted(t, 2, DecValue, HexValue) /\ t[1] = ":" /\ Len(t) > 7)
  <2>1. FromStr(s) = IF RawPair(t) THEN {RawRtid(t)} ELSE {}
    BY <1>1, <1>2, <1>7, FromStrPatterns
  <2>2. RawPair(t) /\ r = RawRtid(t)
    BY <2>1
  <2>3. Display(r) = s
    BY <1>2, <2>2, RawText
  <2>4. QED BY <2>3
<1>8. QED BY <1>3, <1>4, <1>5, <1>6, <1>7
=============================================================================
