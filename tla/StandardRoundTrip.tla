------------------------- MODULE StandardRoundTrip -------------------------
(***************************************************************************)
(* A value written by Serializer.tla and read back by Deserializer.tla.    *)
(* The reader is given whatever the writer left behind: the whole file, or *)
(* after an error the part that had been written.                          *)
(***************************************************************************)
EXTENDS Serializer

CONSTANTS Options, Word
VARIABLES pos, phase, why, latin1_strings, utf8_strings, compact_latin1, compact_utf32, frames, seen
rvars == <<pos, phase, why, latin1_strings, utf8_strings, compact_latin1, compact_utf32, frames, seen>>
vars  == <<svars, rvars>>

R == INSTANCE Deserializer WITH input <- out

RTInit == Init /\ R!DInit
Write  == Next /\ UNCHANGED rvars
Read   == result \in {"ok", "err"} /\ R!DNext /\ UNCHANGED svars
RTNext == Write \/ Read

(* from_reader runs to its end once called.  Nothing makes the caller      *)
(* finish a value.                                                         *)
RTSpec == RTInit /\ [][RTNext]_vars /\ WF_vars(Read)
-----------------------------------------------------------------------------
(* What a visitor should be given for one recorded call: the value, with   *)
(* its newtype gone, an RTID as its text, null as the null RTID and -0.0   *)
(* as 0.0; a tuple as the sequence deserialize_tuple asks for.             *)
Canon(w) ==
  LET c == w.is
  IN  CASE c.call = "str"   -> R!Text(c.str)
        [] c.call = "none"  -> R!Text(R!NullText)
        [] c.call = "rtid"  -> R!Text(R!Display(c.rtid))
        [] c.call = "bool"  -> [visit |-> "bool", bool |-> c.bool]
        [] c.call = "int"   -> [visit |-> "int", int |-> c.int]
        [] c.call = "float" -> [visit |-> "float", ty |-> c.ty,
                                val |-> IF c.val = "-0" THEN "+0" ELSE c.val]
        [] c.call = "bytes" -> [visit |-> "bytes", bytes |-> c.bytes]
        [] c.call = "end"   -> [visit |-> IF c.of = "map" THEN "end_map" ELSE "end_seq"]
        [] c.call = "map"   -> [visit |-> "map"]
        [] c.call \in {"seq", "tuple"} -> [visit |-> "seq"]
        [] c.call = "unit_variant"     -> [visit |-> "variant", index |-> c.index]

(* None and the null RTID are one value on the wire.                       *)
Normal(v) == IF v.visit = "none" THEN R!Text(R!NullText) ELSE v

Channel == INSTANCE ValueChannel WITH
  sent     <- [i \in DOMAIN wrote |-> Canon(wrote[i])],
  status   <- CASE result \in {"new", "run"} -> "open"
                [] result = "ok"  -> "complete"
                [] result = "err" -> "broken",
  received <- [i \in DOMAIN seen |-> Normal(seen[i])],
  verdict  <- CASE phase = "ok" -> "accepted" [] phase = "err" -> "refused" [] OTHER -> "none"

(* to_writer and from_reader together implement Channel!Spec, of which     *)
(* this is the first half: what is read is a prefix of what was written,   *)
(* part by part; a finished file is accepted with every part and is never  *)
(* refused; an unfinished one is never accepted.                           *)
RoundTrip == Channel!Safe

(* And the second: from_reader comes to a verdict on whatever to_writer    *)
(* left behind.                                                            *)
Returns == Channel!Fair
-----------------------------------------------------------------------------
(* The two ends agree on the tables while the file is read: the reader has *)
(* the writer's indices for every text it has met.                         *)
TablesAgree ==
  result \in {"ok", "err"} =>
    /\ Len(latin1_strings) <= next_latin1 /\ Len(utf8_strings) <= next_utf8
    /\ \A s \in DOMAIN latin1_indices :
         latin1_indices[s] < Len(latin1_strings) => latin1_strings[latin1_indices[s] + 1] = s
    /\ \A s \in DOMAIN utf8_indices :
         utf8_indices[s] < Len(utf8_strings) => utf8_strings[utf8_indices[s] + 1] = s

(* ser.rs, to_bytes: "Serializes `value` to a complete standard RTON file":*)
(* one that from_bytes does not refuse.                                    *)
WrittenIsReadable == result = "ok" => phase # "err"
=============================================================================
