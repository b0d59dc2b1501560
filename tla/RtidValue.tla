----------------------------- MODULE RtidValue -----------------------------
(***************************************************************************)
(* The Rtid type and the serde calls its Serialize implementation makes:   *)
(* a one-byte subtype and the fields, as a tuple inside the "RTID"         *)
(* newtype.  An optional value is a set with at most one element.          *)
(***************************************************************************)
EXTENDS Naturals, Sequences

None        == {}
Some(x)     == {x}
Unwrap(opt) == CHOOSE x \in opt : TRUE

Null                    == [kind |-> "null"]
Uid(group, id, obj, nm) == [kind |-> "uid", group |-> group, id |-> id, obj |-> obj, name |-> nm]
Raw(nm, parent)         == [kind |-> "raw", name |-> nm, parent |-> parent]

RtidOver(names) ==
  [kind : {"uid"}, group : Nat, id : Nat, obj : Nat,
   name : {None} \cup {Some(s) : s \in names}]
    \cup [kind : {"raw"}, name : names, parent : names]

Byte(n)      == [call |-> "unit_variant", index |-> n]     \* OverrideByte(n)
Str(s)       == [call |-> "str", str |-> s]
Number(w, n) == [call |-> "number", wire |-> w, num |-> n] \* u64 as "(varint)", u32 as "(u32)"

(* RtidBody's tuple; Rtid::Null never gets here.                           *)
RtidBody(r) ==
  IF r.kind = "raw" THEN <<Byte(3), Str(r.name), Str(r.parent)>>
  ELSE LET Numbers == <<Number("(varint)", r.group), Number("(varint)", r.id),
                        Number("(u32)", r.obj)>>
       IN  IF r.name = None THEN <<Byte(1)>> \o Numbers
           ELSE <<Byte(2), Str(Unwrap(r.name))>> \o Numbers
=============================================================================
