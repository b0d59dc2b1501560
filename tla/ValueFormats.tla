---------------------------- MODULE ValueFormats ----------------------------
(***************************************************************************)
(* One value that is no container, an entry of an object, on its way       *)
(* through the formats a Value can be kept in: standard and compact RTON,  *)
(* JSON text, any of them sealed by encrypt_data, in any order; and        *)
(* through BinaryBlob::from_str, by which an application gets a blob back  *)
(* from its text.  A file is the visitor call that reading the value leads *)
(* to; how the two RTON formats get there is in the other modules,         *)
(* serde_json is external.                                                 *)
(***************************************************************************)
EXTENDS Rtid, BlobText, StreamLayout

CONSTANTS Values,  \* the values to begin with
          Latin1   \* texts whose characters all fit in Latin-1

IsRtid(r) == \/ r = Null
             \/ r \in [kind : {"raw"}, name : Seq(STRING), parent : Seq(STRING)]
             \/ /\ r \in [kind : {"uid"}, group : Sizes, id : Sizes, obj : Sizes \ {Big},
                          name : SUBSET Seq(STRING)]
                /\ r.name = None \/ \E s \in r.name : r.name = Some(s)
IsValue(v) == \/ v = [kind |-> "null"]
              \/ v \in [kind : {"int"}, int : RustInt, forced : BOOLEAN]
              \/ v \in [kind : {"float"}, ty : {"f32", "f64"}, val : {"+0", "-0", "x", "nan"}]
              \/ v \in [kind : {"string"}, str : Seq(STRING)]
              \/ v \in [kind : {"binary"}, bytes : Seq(0 .. 255)]
              \/ v.kind = "rtid" /\ v = [kind |-> "rtid", rtid |-> v.rtid] /\ IsRtid(v.rtid)
ASSUME ValuesAssumption == \A v \in Values : IsValue(v)

VARIABLES
  stage,   (* "value", "file", or "panic"                                  *)
  value,   (* the Value in memory; also while it is in a file              *)
  file,    (* [form, visit, sealed, padded]                                *)
  error,   (* the last call was refused                                    *)
  first,   (* history: the Value begun with                                *)
  passes   (* history: the formats it has been through                     *)
vars == <<stage, value, file, error, first, passes>>

NoFile == [form |-> "none"]
Init == /\ stage = "value" /\ value \in Values /\ first = value
        /\ file = NoFile /\ error = FALSE /\ passes = {}
-----------------------------------------------------------------------------
(* Value::serialize and the serializer, then the deserializer: the visitor *)
(* call.                                                                   *)
Unit       == [visit |-> "unit"]
VStr(s)    == [visit |-> "str", str |-> s]
VInt(n)    == [visit |-> "int", int |-> n]
VFloat(ty, x) == [visit |-> "float", ty |-> ty, val |-> x]
StandardVisit(v) ==
  CASE v.kind = "null"   -> VStr(NullText)
    [] v.kind = "int"    -> VInt(DecodeInt(EncodeInt(v.int, v.forced)))
    [] v.kind = "float"  -> VFloat(v.ty, IF v.val = "-0" THEN "+0" ELSE v.val)
    [] v.kind = "string" -> VStr(v.str)
    [] v.kind = "binary" -> [visit |-> "bytes", bytes |-> decode_hex_bytes(HexStr(v.bytes)).bytes]
    [] v.kind = "rtid"   -> VStr(Display(v.rtid))
CompactVisit(v) ==
  CASE v.kind = "int"    -> VInt(DecodeInt(FixedInt(v.int)))
    [] v.kind = "float"  -> VFloat(v.ty, v.val)
    [] v.kind = "string" -> VStr(IF v.str \in Latin1 THEN v.str ELSE CutAtNul(v.str))
    [] OTHER             -> StandardVisit(v)

(* is_human_readable: a blob and an RTID are their texts, a VarInt its     *)
(* number.  serde_json writes null for "nan", what is not finite, reads a  *)
(* number as i64 if it has a sign, as u64 if it has none, as f64 if it has *)
(* a point.                                                                *)
JsonVisit(v) ==
  CASE v.kind = "null"   -> Unit
    [] v.kind = "int"    -> VInt([v.int EXCEPT !.ty = IF v.int.neg THEN "i64" ELSE "u64"])
    [] v.kind = "float"  -> IF v.val = "nan" THEN Unit ELSE VFloat("f64", v.val)
    [] v.kind = "string" -> VStr(v.str)
    [] v.kind = "binary" -> VStr(BlobDisplay(v.bytes))
    [] v.kind = "rtid"   -> VStr(Display(v.rtid))

IntVal(n)     == [kind |-> "int", int |-> n, forced |-> FALSE]
FloatVal(ty, x) == [kind |-> "float", ty |-> ty, val |-> x]
StringVal(s)  == [kind |-> "string", str |-> s]
BinaryVal(b)  == [kind |-> "binary", bytes |-> b]
RtidVal(r) == [kind |-> "rtid", rtid |-> r]

(* Mutant of visit_str: what begins like an RTID is one.                   *)
visit_str_by_prefix(s) == IF s # <<>> /\ s[1] = "RTID("
                          THEN RtidVal(IF FromStr(s) = {} THEN Null ELSE Unwrap(FromStr(s)))
                          ELSE StringVal(s)
visit_str(s) == IF s # <<>> /\ s[1] = "RTID(" /\ FromStr(s) # {} THEN RtidVal(Unwrap(FromStr(s)))
                ELSE StringVal(s)

(* ValueVisitor: null is the null RTID.                                    *)
Visited(c) == CASE c.visit = "unit"  -> RtidVal(Null)
                [] c.visit = "int"   -> IntVal(VisitInt(c.int))
                [] c.visit = "float" -> FloatVal(c.ty, c.val)
                [] c.visit = "str"   -> visit_str(c.str)
                [] c.visit = "bytes" -> BinaryVal(c.bytes)
-----------------------------------------------------------------------------
write(form, visit) == /\ stage = "value" /\ stage' = "file"
                      /\ file' = [form |-> form, visit |-> visit, sealed |-> FALSE, padded |-> FALSE]
                      /\ error' = FALSE
                      /\ UNCHANGED <<value, first, passes>>
to_bytes         == write("standard", StandardVisit(value))
to_compact_bytes == write("compact", CompactVisit(value))
to_json          == write("json", JsonVisit(value))

(* A sealed file begins with the prefix, which no header does; of zeros    *)
(* after its end a JSON text is refused.                                   *)
Read == /\ stage = "file"
        /\ IF file.sealed \/ (file.form = "json" /\ file.padded)
           THEN /\ error' = TRUE
                /\ UNCHANGED <<stage, value, file, first, passes>>
           ELSE /\ stage' = "value" /\ error' = FALSE
                /\ value' = Visited(file.visit)
                /\ passes' = passes \cup {file.form}
                /\ file' = NoFile
                /\ UNCHANGED first

(* The cipher fills the last block with zeros, which may still be there    *)
(* afterwards.  A file is sealed once at most.                             *)
encrypt_data == /\ stage = "file" /\ ~file.sealed
                /\ file' = [file EXCEPT !.sealed = TRUE] /\ error' = FALSE
                /\ UNCHANGED <<stage, value, first, passes>>
decrypt_data == /\ stage = "file"
                /\ IF file.sealed
                   THEN \E p \in BOOLEAN :
                          /\ file' = [file EXCEPT !.sealed = FALSE, !.padded = @ \/ p]
                          /\ error' = FALSE
                   ELSE error' = TRUE /\ UNCHANGED file
                /\ UNCHANGED <<stage, value, first, passes>>

(* The application: BinaryBlob::from_str on a string.                      *)
recover == /\ stage = "value" /\ value.kind = "string"
           /\ LET d == blob_from_str(value.str)
              IN  /\ stage' = IF d.status = "panic" THEN "panic" ELSE stage
                  /\ error' = (d.status = "err")
                  /\ value' = IF d.status = "ok" THEN BinaryVal(d.bytes) ELSE value
           /\ UNCHANGED <<file, first, passes>>

Next == to_bytes \/ to_compact_bytes \/ to_json \/ Read \/ encrypt_data \/ decrypt_data \/ recover
Spec == Init /\ [][Next]_vars
-----------------------------------------------------------------------------
(* A blob and the text that spells it are one thing to an application that *)
(* knows the field.                                                        *)
AsBlob(v) == IF v.kind = "string" /\ blob_from_str(v.str).status = "ok"
             THEN BinaryVal(blob_from_str(v.str).bytes) ELSE v

OfText(s) == IF FromStr(s) = {} THEN StringVal(s) ELSE RtidVal(Unwrap(FromStr(s)))
Narrowed(n, json) ==
  CASE json /\ n.neg -> NewInt(n) [] json /\ ~n.neg -> NewUint(n) [] ~json -> VisitInt(n)
Outcome(v, been) ==
  LET json == "json" \in been
  IN  CASE v.kind = "null"   -> RtidVal(Null)
        [] v.kind = "int"    -> IntVal(Narrowed(v.int, json))
        [] v.kind = "float"  ->
             IF v.val = "nan" /\ json THEN RtidVal(Null)
             ELSE FloatVal(IF json THEN "f64" ELSE v.ty,
                        IF v.val = "-0" /\ "standard" \in been THEN "+0" ELSE v.val)
        [] v.kind = "string" ->
             OfText(IF "compact" \in been /\ v.str \notin Latin1 THEN CutAtNul(v.str) ELSE v.str)
        [] v.kind = "binary" -> v
        [] v.kind = "rtid"   -> OfText(Display(v.rtid))

(* What becomes of a value depends on the formats it has been through and  *)
(* not on their order or number, on sealing, or on a blob's having been    *)
(* recovered in between; and it loses nothing but the width of an integer, *)
(* the sign of a zero in standard RTON, a NaN and the width of a float in  *)
(* JSON, what follows a NUL in a wide text in compact RTON, and the        *)
(* difference between null and RTID(0) and between an RTID and its text.   *)
(* (A wide text with a NUL in it that spells an RTID is cut unless it is   *)
(* read as one first; that of an RTID which it does not spell is cut once  *)
(* it has become a string.  That null is taken from JSON at all is not what *)
(* the crate's documentation says: see JsonNullIsRefused.)                 *)
CutLater(v) == LET s == IF v.kind = "rtid" THEN Display(v.rtid) ELSE v.str
               IN  /\ v.kind \in {"string", "rtid"} /\ s \notin Latin1 /\ Contains(s, "NUL")
                   /\ v.kind = "string" <=> FromStr(s) # {}
OnlyThePasses ==
  stage = "value" /\ passes # {} /\ ~CutLater(first) =>
    AsBlob(value) = AsBlob(Outcome(AsBlob(first), passes))

(* No RTON file becomes a string instead of the blob that was written, and *)
(* the text of a blob in JSON gives back its bytes.                        *)
BlobSurvivesItsText ==
  first.kind = "binary" /\ stage = "value" =>
    \/ value = first
    \/ /\ "json" \in passes /\ value.kind = "string"
       /\ blob_from_str(value.str) = Decoded(first.bytes)

(* binary.rs, from_str: "Validate consistency: Hex string length (chars)   *)
(* vs Declared Byte Length": what is not consistent is refused.            *)
InconsistentIsRefused == stage # "panic"

(* value.rs, Value::Null: "JSON `null` is not accepted back into `Value`   *)
(* by the current deserializer".  No Value is read from a JSON null.       *)
JsonNullIsRefused ==
  [][file.form = "json" /\ file.visit = Unit => stage' # "value"]_vars
=============================================================================
