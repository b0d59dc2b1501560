----------------------------- MODULE IntChannel -----------------------------
(***************************************************************************)
(* One integer value through to_bytes and from_bytes::<Value>, then once   *)
(* more from the Value that came out: what is read is what gets written    *)
(* the second time round.                                                  *)
(***************************************************************************)
EXTENDS IntCodec

VARIABLES
  int_stage,  (* "given", "written" or "read"                              *)
  pass,       (* 1 for the caller's value, 2 for the Value read back       *)
  int,        (* the integer handed to the serializer                      *)
  forced,     (* it sits in a VarInt<T> wrapper (pending_varint is set)    *)
  token,      (* the token last written                                    *)
  firsttoken, (* the token of the first pass                               *)
  seen        (* the integer the Value visitor settled on                  *)
ivars == <<int_stage, pass, int, forced, token, firsttoken, seen>>

NoToken == [tag |-> "none", bits |-> 0, odd |-> FALSE]

IntInit == /\ int_stage = "given" /\ pass = 1
           /\ int \in RustInt
           /\ forced \in BOOLEAN
           /\ forced => Width(int.ty) >= 32   \* VarInt<T>: i32, u32, i64, u64
           /\ token = NoToken /\ firsttoken = NoToken
           /\ seen = int

Write == /\ int_stage = "given" /\ int_stage' = "written"
         /\ token' = EncodeInt(int, forced)
         /\ firsttoken' = IF pass = 1 THEN token' ELSE firsttoken
         /\ UNCHANGED <<pass, int, forced, seen>>

Read == /\ int_stage = "written" /\ int_stage' = "read"
        /\ seen' = VisitInt(DecodeInt(token))
        /\ UNCHANGED <<pass, int, forced, token, firsttoken>>

(* A visitor builds plain variants only, so the wrapper is gone.           *)
Again == /\ int_stage = "read" /\ pass = 1
         /\ int_stage' = "given" /\ pass' = 2
         /\ int' = seen /\ forced' = FALSE
         /\ UNCHANGED <<token, firsttoken, seen>>

IntNext == Write \/ Read \/ Again
IntSpec == IntInit /\ [][IntNext]_ivars
-----------------------------------------------------------------------------
(* The narrowest type of v's signedness that holds v, stated without the   *)
(* code: the least width among the types it fits.                          *)
Fits(v, ty)  == [v EXCEPT !.ty = ty] \in RustInt
Narrowest(v) == CHOOSE ty \in (IF v.ty \in Signed THEN Signed ELSE Unsigned) :
                  /\ Fits(v, ty)
                  /\ \A u \in (IF v.ty \in Signed THEN Signed ELSE Unsigned) :
                       Fits(v, u) => Width(ty) <= Width(u)

(* An integer survives: sign and magnitude always, the type too up to 32   *)
(* bits; a 64-bit one comes back in the narrowest type that holds it.      *)
ReadBack ==
  int_stage = "read" =>
    seen = [int EXCEPT !.ty = IF Width(int.ty) < 64 THEN int.ty ELSE Narrowest(int)]

(* The adaptive writer (de-facto size rule of serialize_i32 .. u64): no    *)
(* payload it could have chosen is shorter than the one it wrote.          *)
SmallestPayload ==
  int_stage = "written" /\ ~forced /\ Width(int.ty) >= 32 /\ ~IsZero(int) =>
    /\ PayloadLen(token) <= FixedLen(int.ty)
    /\ PayloadLen(token) <= RawLen(int)
    /\ int.ty \in Signed => PayloadLen(token) <= ZigZagLen(int)

(* One pass is enough: the second read returns what the first one did.     *)
SecondPassIsFixpoint == int_stage = "read" /\ pass = 2 => seen = int

(* README: for exact binary semantics keep the data in RTON and go through *)
(* Value and to_bytes, so that the second pass writes the tag it read.     *)
TagPreserved == int_stage = "written" /\ pass = 2 => token.tag = firsttoken.tag
=============================================================================
