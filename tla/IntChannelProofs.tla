-------------------------- MODULE IntChannelProofs --------------------------
(***************************************************************************)
(* Proofs about IntChannel.tla: an integer of any of the eight types and   *)
(* of any magnitude is read back as it was written, in as few bytes as the *)
(* encodings allow, and reading narrows it only once.                      *)
(***************************************************************************)
EXTENDS IntChannel, CodecProofs

(* The Value visitor keeps sign and magnitude, and narrows once: what it   *)
(* has narrowed it leaves alone.                                           *)
LEMMA VisitProps ==
  ASSUME NEW v \in RustInt
  PROVE  /\ VisitInt(v) \in RustInt
         /\ VisitInt(VisitInt(v)) = VisitInt(v)
         /\ VisitInt(v) = [v EXCEPT !.ty = IF Width(v.ty) < 64 THEN v.ty ELSE Narrowest(v)]
<1>1. /\ v.ty \in Signed \cup Unsigned /\ v.neg \in BOOLEAN /\ v.bits \in 0 .. 64
      /\ v.ty \in Signed => v.bits < Width(v.ty)
      /\ v.ty \in Unsigned => v.bits <= Width(v.ty) /\ ~v.neg
      /\ v = [ty |-> v.ty, neg |-> v.neg, bits |-> v.bits]
  BY DEF RustInt, Signed, Unsigned
<1>2. \A ty : [v EXCEPT !.ty = ty] = [ty |-> ty, neg |-> v.neg, bits |-> v.bits]
  BY <1>1
<1>3. \A ty \in Signed : Fits(v, ty) <=> v.bits < Width(ty)
  BY <1>1, <1>2 DEF Fits, RustInt, Signed, Unsigned
<1>4. \A ty \in Unsigned : Fits(v, ty) <=> v.bits <= Width(ty) /\ ~v.neg
  BY <1>1, <1>2 DEF Fits, RustInt, Signed, Unsigned
<1>5. CASE v.ty \in {"i8", "u8", "i16", "u16", "i32", "u32"}
  <2>1. VisitInt(v) = v /\ Width(v.ty) < 64
    BY <1>5 DEF VisitInt, Width
  <2>2. [v EXCEPT !.ty = v.ty] = v
    BY <1>1, <1>2
  <2>3. QED BY <2>1, <2>2
<1>6. CASE v.ty = "i64"
  <2> DEFINE n == IF v.bits < 8 THEN "i8" ELSE IF v.bits < 16 THEN "i16"
                  ELSE IF v.bits < 32 THEN "i32" ELSE "i64"
  <2>1. VisitInt(v) = [ty |-> n, neg |-> v.neg, bits |-> v.bits]
    BY <1>2, <1>6 DEF VisitInt, NewInt
  <2>2. n \in Signed /\ v.bits < Width(n)
    BY <1>1, <1>6 DEF Signed, Width
  <2>3. VisitInt(v) \in RustInt
    BY <1>1, <2>1, <2>2 DEF RustInt, Signed, Unsigned
  <2>4. \A u \in Signed : v.bits < Width(u) => Width(n) <= Width(u)
    BY <1>1 DEF Signed, Width
  <2>5. \A t, u \in Signed : Width(t) <= Width(u) /\ Width(u) <= Width(t) => t = u
    BY DEF Signed, Width
  <2>6. v.ty \in Signed /\ Width(v.ty) = 64
    BY <1>6 DEF Signed, Width
  <2>7. Narrowest(v) = n
    <3> HIDE DEF n
    <3>1. Narrowest(v) = CHOOSE ty \in Signed : /\ Fits(v, ty)
                                                /\ \A u \in Signed : Fits(v, u) => Width(ty) <= Width(u)
      BY <2>6 DEF Narrowest
    <3>2. Fits(v, n) /\ \A u \in Signed : Fits(v, u) => Width(n) <= Width(u)
      BY <1>3, <2>2, <2>4
    <3>3. \A ty \in Signed : Fits(v, ty) /\ (\A u \in Signed : Fits(v, u) => Width(ty) <= Width(u)) => ty = n
      BY <2>2, <2>5, <3>2
    <3>4. QED BY <2>2, <3>1, <3>2, <3>3
  <2>8. VisitInt(VisitInt(v)) = VisitInt(v)
    <3>1. CASE n = "i64"
      BY <1>1, <1>6, <2>1, <3>1
    <3>2. CASE n # "i64"
      <4>1. VisitInt(v).ty \in {"i8", "i16", "i32"}
        BY <2>1, <3>2
      <4>2. QED BY <4>1 DEF VisitInt
    <3>3. QED BY <3>1, <3>2
  <2>9. QED BY <1>2, <2>1, <2>3, <2>6, <2>7, <2>8
<1>7. CASE v.ty = "u64"
  <2> DEFINE n == IF v.bits <= 8 THEN "u8" ELSE IF v.bits <= 16 THEN "u16"
                  ELSE IF v.bits <= 32 THEN "u32" ELSE "u64"
  <2>0. v.ty \in Unsigned /\ v.ty \notin Signed /\ Width(v.ty) = 64 /\ ~v.neg
    BY <1>1, <1>7 DEF Signed, Unsigned, Width
  <2>1. VisitInt(v) = [ty |-> n, neg |-> v.neg, bits |-> v.bits]
    BY <1>2, <1>7 DEF VisitInt, NewUint
  <2>2. n \in Unsigned /\ v.bits <= Width(n)
    BY <1>1, <1>7, <2>0 DEF Unsigned, Width
  <2>3. VisitInt(v) \in RustInt
    BY <1>1, <2>0, <2>1, <2>2 DEF RustInt, Signed, Unsigned
  <2>4. \A u \in Unsigned : v.bits <= Width(u) => Width(n) <= Width(u)
    BY <1>1 DEF Unsigned, Width
  <2>5. \A t, u \in Unsigned : Width(t) <= Width(u) /\ Width(u) <= Width(t) => t = u
    BY DEF Unsigned, Width
  <2>7. Narrowest(v) = n
    <3> HIDE DEF n
    <3>1. Narrowest(v) = CHOOSE ty \in Unsigned : /\ Fits(v, ty)
                                                  /\ \A u \in Unsigned : Fits(v, u) => Width(ty) <= Width(u)
      BY <2>0 DEF Narrowest
    <3>2. Fits(v, n) /\ \A u \in Unsigned : Fits(v, u) => Width(n) <= Width(u)
      BY <1>4, <2>0, <2>2, <2>4
    <3>3. \A ty \in Unsigned : Fits(v, ty) /\ (\A u \in Unsigned : Fits(v, u) => Width(ty) <= Width(u)) => ty = n
      BY <2>2, <2>5, <3>2
    <3>4. QED BY <2>2, <3>1, <3>2, <3>3
  <2>8. VisitInt(VisitInt(v)) = VisitInt(v)
    <3>1. CASE n = "u64"
      BY <1>1, <1>7, <2>1, <3>1
    <3>2. CASE n # "u64"
      <4>1. VisitInt(v).ty \in {"u8", "u16", "u32"}
        BY <2>1, <3>2
      <4>2. QED BY <4>1 DEF VisitInt
    <3>3. QED BY <3>1, <3>2
  <2>9. QED BY <1>2, <2>0, <2>1, <2>3, <2>7, <2>8
<1>8. QED BY <1>1, <1>5, <1>6, <1>7 DEF Signed, Unsigned

-----------------------------------------------------------------------------
(* The token is that of the integer at hand, what was seen is that integer *)
(* read back, and the second pass starts from what a visitor has seen.     *)
IntInv ==
  /\ int_stage \in {"given", "written", "read"} /\ pass \in {1, 2}
  /\ int \in RustInt /\ forced \in BOOLEAN
  /\ int_stage = "written" => token = EncodeInt(int, forced)
  /\ int_stage = "read" => seen = VisitInt(int)
  /\ pass = 2 => ~forced /\ VisitInt(int) = int

LEMMA IntInvariant == IntSpec => []IntInv
<1>1. IntInit => IntInv
  BY DEF IntInit, IntInv
<1>2. ASSUME IntInv, [IntNext]_ivars PROVE IntInv'
  <2>1. CASE UNCHANGED ivars
    BY <1>2, <2>1 DEF IntInv, ivars
  <2>2. CASE Write
    BY <1>2, <2>2 DEF IntInv, Write
  <2>3. CASE Read
    <3>1. seen' = VisitInt(int)
      BY <1>2, <2>3, DecodeEncode DEF IntInv, Read
    <3>2. QED BY <1>2, <2>3, <3>1 DEF IntInv, Read
  <2>4. CASE Again
    <3>1. int' = VisitInt(int)
      BY <1>2, <2>4 DEF IntInv, Again
    <3>2. int' \in RustInt /\ VisitInt(int') = int'
      BY <1>2, <3>1, VisitProps DEF IntInv
    <3>3. QED BY <1>2, <2>4, <3>2 DEF IntInv, Again
  <2>5. QED BY <1>2, <2>1, <2>2, <2>3, <2>4 DEF IntNext
<1>3. QED BY <1>1, <1>2, PTL DEF IntSpec

(* serialize_i8 .. serialize_u64 into deserialize_any: an integer comes    *)
(* back with its sign and magnitude, in its own type up to 32 bits and in  *)
(* the narrowest that holds it from 64.                                    *)
THEOREM IntegersSurvive == IntSpec => []ReadBack
<1>1. IntInv => ReadBack
  BY VisitProps DEF IntInv, ReadBack
<1>2. QED BY <1>1, IntInvariant, PTL

(* The adaptive size rule of serialize_i32 .. serialize_u64 never writes a *)
(* longer payload than it had to.                                          *)
THEOREM PayloadsAreSmallest == IntSpec => []SmallestPayload
<1>1. IntInv => SmallestPayload
  <2> SUFFICES ASSUME IntInv, int_stage = "written", ~forced, Width(int.ty) >= 32, ~IsZero(int)
               PROVE  /\ PayloadLen(token) <= FixedLen(int.ty)
                      /\ PayloadLen(token) <= RawLen(int)
                      /\ int.ty \in Signed => PayloadLen(token) <= ZigZagLen(int)
    BY DEF SmallestPayload
  <2>1. int \in RustInt /\ token = EncodeInt(int, FALSE)
    BY DEF IntInv
  <2>2. QED BY <2>1, Smallest
<1>2. QED BY <1>1, IntInvariant, PTL

(* Value::new_int and Value::new_uint settle on a variant at the first     *)
(* reading; writing and reading that Value again changes nothing.          *)
THEOREM OnePassIsEnough == IntSpec => []SecondPassIsFixpoint
<1>1. IntInv => SecondPassIsFixpoint
  BY DEF IntInv, SecondPassIsFixpoint
<1>2. QED BY <1>1, IntInvariant, PTL
=============================================================================
