-------------------------- MODULE CompactRoundTrip --------------------------
(***************************************************************************)
(* A Value written by CompactWriter.tla and read back by Deserializer.tla, *)
(* which is given what the caller's writer has taken: the whole file, a    *)
(* part of it, or nothing after an error in the value.                     *)
(***************************************************************************)
EXTENDS CompactWriter

VARIABLES pos, phase, why, latin1_strings, utf8_strings, compact_latin1, compact_utf32, frames, seen
rvars == <<pos, phase, why, latin1_strings, utf8_strings, compact_latin1, compact_utf32, frames, seen>>
vars  == <<cvars, rvars>>

R == INSTANCE Deserializer WITH input <- file, Options <- FALSE

RTInit == CInit /\ R!DInit
Write  == CNext /\ UNCHANGED rvars
Read   == result \in {"ok", "err", "panic"} /\ R!DNext /\ UNCHANGED cvars
RTNext == Write \/ Read

(* from_reader runs to its end once called.                                *)
RTSpec == RTInit /\ [][RTNext]_vars /\ WF_vars(Read)
-----------------------------------------------------------------------------
(* What a visitor should be given for one part of a value: a text that is  *)
(* not Latin-1 up to its first NUL, null as the null RTID.                 *)
Canon(v) ==
  CASE v.kind \in {"string", "key"} ->
         R!Text(IF v.str \in Latin1 THEN v.str ELSE CutAtNul(v.str))
    [] v.kind = "null"   -> R!Text(R!NullText)
    [] v.kind = "rtid"   -> R!Text(R!Display(v.rtid))
    [] v.kind = "bool"   -> [visit |-> "bool", bool |-> v.bool]
    [] v.kind = "int"    -> [visit |-> "int", int |-> v.int]
    [] v.kind = "float"  -> [visit |-> "float", ty |-> v.ty, val |-> v.val]
    [] v.kind = "binary" -> [visit |-> "bytes", bytes |-> v.bytes]
    [] v.kind = "array"  -> [visit |-> "seq"]
    [] v.kind = "object" -> [visit |-> "map"]
    [] v.kind = "end"    -> [visit |-> IF v.of = "object" THEN "end_map" ELSE "end_seq"]

(* A file is only good for from_reader if its root is an object.           *)
Channel == INSTANCE ValueChannel WITH
  sent     <- [i \in DOMAIN wrote |-> Canon(wrote[i])],
  status   <- CASE result \in {"new", "run", "sealed"} -> "open"
                [] result = "ok" -> IF wrote[1].kind = "object" THEN "complete" ELSE "broken"
                [] result \in {"err", "panic"} -> "broken",
  received <- seen,
  verdict  <- CASE phase = "ok" -> "accepted" [] phase = "err" -> "refused" [] OTHER -> "none"

(* to_compact_writer and from_reader together implement Channel!Spec, of   *)
(* which this is the first half: what is read is a prefix of what was      *)
(* written, part by part; a finished file with an object for its root is   *)
(* accepted with every part; any other is never accepted.                  *)
RoundTrip == Channel!Safe

(* And the second: from_reader comes to a verdict on whatever              *)
(* to_compact_writer left behind.                                          *)
Returns == Channel!Fair
-----------------------------------------------------------------------------
(* The parts from k to the end of the value that begins there; the byte    *)
(* where the parts after k begin.                                          *)
Count(k, m, kinds) == Cardinality({i \in k .. m : wrote[i].kind \in kinds})
LastPart(k) == CHOOSE m \in k .. Len(wrote) :
                 /\ Count(k, m, {"array", "object"}) = Count(k, m, {"end"})
                 /\ \A n \in k .. m - 1 : Count(k, n, {"array", "object"}) # Count(k, n, {"end"})
ByteAfter(k) == bytes[CHOOSE i \in DOMAIN bytes :
                        bytes[i].of > k /\ \A j \in 1 .. i - 1 : bytes[j].of <= k].at
ElementsOf(k) ==
  {m \in k + 1 .. LastPart(k) - 1 :
     Count(k, m - 1, {"array", "object"}) = 1 + Count(k, m - 1, {"end"})}

(* Every offset in a finished file leads where it should: the word after a *)
(* key to the end of the key's value, the table of an array to the         *)
(* beginning of each element and, last, to the end of the array.           *)
SlotsTell ==
  result = "ok" /\ phase = "header" =>
    \A item \in Range(bytes) :
      /\ item.tok.tag \in PairedTags =>
           words[item.at + Size(item.tok) - 4] = ByteAfter(LastPart(item.of + 1))
      /\ item.tok.tag = "CompactArrayBegin" =>
           LET table    == TokenIn(item).table
               elements == ElementsOf(item.of)
           IN  /\ \A m \in elements : table[1 + Cardinality({e \in elements : e < m})] = ByteAfter(m - 1)
               /\ Len(table) = 1 + Cardinality(elements)
               /\ table[Len(table)] = ByteAfter(LastPart(item.of))
=============================================================================
