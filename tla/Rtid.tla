-------------------------------- MODULE Rtid --------------------------------
(***************************************************************************)
(* RTID texts.  A string is a sequence of lexemes: words of the tables     *)
(* below, each a run of characters that the regexes of rtid.rs match or    *)
(* refuse as a whole.  Display, FromStr, the two runtime conversions and   *)
(* the text the binary reader builds are modelled by what they do to       *)
(* lexemes.  A result that may be missing is a set: {} is Err.             *)
(***************************************************************************)
EXTENDS RtidValue, SequencesExt

(* How each format prints the numbers RTIDs are built from.  Big stands    *)
(* for a value of 36 bits: within u64, past u32.                           *)
Big      == 4096
U32Limit == 4095
Sizes   == {0, 1, 10, 16, 22, Big}
HexText == [n \in Sizes |-> CASE n = 0 -> "0" [] n = 1 -> "1" [] n = 10 -> "a" [] n = 16 -> "10"
                             [] n = 22 -> "16" [] n = Big -> "fffffffff"]
DecText == [n \in Sizes \ {Big} |-> CASE n = 0 -> "0" [] n = 1 -> "1" [] n = 10 -> "10"
                                     [] n = 16 -> "16" [] n = 22 -> "22"]
ObjText == [n \in Sizes \ {Big} |-> CASE n = 0 -> "00000000" [] n = 1 -> "00000001"
                                     [] n = 10 -> "0000000a" [] n = 16 -> "00000010"
                                     [] n = 22 -> "00000016"]

(* Numerals and what they are worth: lower-case hexadecimal, decimal, and  *)
(* hexadecimal of either case.                                             *)
HexValue == [w \in {"0", "00000000", "1", "00000001", "a", "0000000a", "10", "00000010",
                    "16", "00000016", "fffffffff"} |->
               CASE w \in {"0", "00000000"} -> 0 [] w \in {"1", "00000001"} -> 1
                 [] w \in {"a", "0000000a"} -> 10 [] w \in {"10", "00000010"} -> 16
                 [] w \in {"16", "00000016"} -> 22 [] w = "fffffffff" -> Big]
DecValue == [w \in {"0", "00000000", "1", "00000001", "10", "00000010", "16", "00000016"} |->
               CASE w \in {"0", "00000000"} -> 0 [] w \in {"1", "00000001"} -> 1
                 [] w \in {"10", "00000010"} -> 10 [] w \in {"16", "00000016"} -> 16]
AnyHexValue == [w \in DOMAIN HexValue \cup {"A"} |-> IF w = "A" THEN 10 ELSE HexValue[w]]

Wrap(inner) == <<"RTID(">> \o inner \o <<")">>
NullText    == Wrap(<<"0">>)

(* The outer regex; its dot does not match a newline.                      *)
Wrapped(s) == /\ Len(s) >= 2
              /\ s[1] = "RTID(" /\ s[Len(s)] = ")"
              /\ ~Contains(s, "\n")
Inner(s)   == SubSeq(s, 2, Len(s) - 1)

(* x.y.z@ from lexeme i on: x and y numerals of xs, z a numeral of zs.     *)
Dotted(t, i, xs, zs) ==
  /\ Len(t) >= i + 5
  /\ t[i] \in DOMAIN xs /\ t[i + 2] \in DOMAIN xs /\ t[i + 4] \in DOMAIN zs
  /\ t[i + 1] = "." /\ t[i + 3] = "." /\ t[i + 5] = "@"
NameFrom(t, i) == IF Len(t) < i THEN None ELSE Some(SubSeq(t, i, Len(t)))

(* Mutant of DottedUid: group and id the other way round.                  *)
DottedUidSwapped(t, i, xs, zs) ==
  IF zs[t[i + 4]] > U32Limit THEN {}
  ELSE {Uid(xs[t[i]], xs[t[i + 2]], zs[t[i + 4]], NameFrom(t, i + 6))}

(* The RTID of such a text: Err when the object overflows its u32.         *)
DottedUid(t, i, xs, zs) ==
  IF zs[t[i + 4]] > U32Limit THEN {}
  ELSE {Uid(xs[t[i + 2]], xs[t[i]], zs[t[i + 4]], NameFrom(t, i + 6))}

(* :x.y and :x.y@z, all decimal.                                           *)
Colon(t) == /\ Len(t) \in {4, 6}
            /\ t[1] = ":" /\ t[2] \in DOMAIN DecValue
            /\ t[3] = "." /\ t[4] \in DOMAIN DecValue
            /\ Len(t) = 6 => t[5] = "@" /\ t[6] \in DOMAIN DecValue
(* Mutant of ColonUid: group and id the other way round.                   *)
ColonUidSwapped(t) == Uid(DecValue[t[2]], DecValue[t[4]],
                          IF Len(t) = 4 THEN 0 ELSE DecValue[t[6]], None)
ColonUid(t) == Uid(DecValue[t[4]], DecValue[t[2]],
                   IF Len(t) = 4 THEN 0 ELSE DecValue[t[6]], None)

(* name@parent: one "@", not in front.                                     *)
RawPair(t) == LET ats == {i \in DOMAIN t : t[i] = "@"}
              IN  Cardinality(ats) = 1 /\ 1 \notin ats
RawRtid(t) == LET at == SelectInSeq(t, LAMBDA x : x = "@")
              IN  Raw(SubSeq(t, 1, at - 1), SubSeq(t, at + 1, Len(t)))

NameOr(opt) == IF opt = None THEN <<>> ELSE Unwrap(opt)

(* impl Display for Rtid                                                   *)
Display(r) ==
  CASE r.kind = "null" -> NullText
    [] r.kind = "raw"  -> Wrap(r.name \o <<"@">> \o r.parent)
    [] r.kind = "uid"  -> Wrap(<<HexText[r.id], ".", HexText[r.group], ".", ObjText[r.obj], "@">>
                                 \o NameOr(r.name))

(* impl FromStr for Rtid, the patterns in the order the code tries them.   *)
FromStr(s) ==
  LET t == Inner(s)
  IN  IF ~Wrapped(s) THEN {} ELSE
        CASE t = <<"0">>                     -> {Null}
          [] Dotted(t, 1, HexValue, HexValue) -> DottedUid(t, 1, HexValue, HexValue)
          [] /\ Dotted(t, 2, DecValue, HexValue)
             /\ t[1] = ":" /\ Len(t) > 7     -> DottedUid(t, 2, DecValue, HexValue)
          [] Colon(t)                        -> {ColonUid(t)}
          [] OTHER -> IF RawPair(t) THEN {RawRtid(t)} ELSE {}

to_runtime_string(r) ==
  CASE r.kind = "uid" /\ r.name # None ->
         Wrap(<<DecText[r.id], ".", DecText[r.group], ".", ObjText[r.obj], "@">>
                \o Unwrap(r.name))
    [] r.kind = "uid" /\ r.name = None ->
         Wrap(<<":", DecText[r.id], ".", DecText[r.group]>>
                \o IF r.obj = 0 THEN <<>> ELSE <<"@", DecText[r.obj]>>)
    [] r.kind # "uid" -> Display(r)

from_runtime_str(s) ==
  LET t == Inner(s)
  IN  IF ~Wrapped(s) THEN {} ELSE
        CASE t = <<"0">>                        -> {Null}
          [] Dotted(t, 1, DecValue, AnyHexValue) -> DottedUid(t, 1, DecValue, AnyHexValue)
          [] Colon(t)                           -> {ColonUid(t)}
          [] OTHER -> IF RawPair(t) THEN {RawRtid(t)} ELSE {}

(* Mutant of read_rtid_string: the numbers in the order they are read.     *)
read_rtid_string_in_order(sub, names, nums) ==
  IF sub = 3 THEN Wrap(names[1] \o <<"@">> \o names[2])
  ELSE Wrap(<<HexText[nums[1]], ".", HexText[nums[2]], ".", ObjText[nums[3]], "@">>
              \o IF sub = 2 THEN names[1] ELSE <<>>)

(* Deserializer::read_rtid_string on the fields of a body, by subtype: the *)
(* first number read prints second.                                        *)
read_rtid_string(sub, names, nums) ==
  IF sub = 3 THEN Wrap(names[1] \o <<"@">> \o names[2])
  ELSE Wrap(<<HexText[nums[2]], ".", HexText[nums[1]], ".", ObjText[nums[3]], "@">>
              \o IF sub = 2 THEN names[1] ELSE <<>>)

(* What it makes of the fields that follow the subtype.                    *)
RtidText(sub, fields) ==
  CASE sub = 0 -> NullText
    [] sub = 1 -> read_rtid_string(1, <<>>, <<fields[1].num, fields[2].num, fields[3].num>>)
    [] sub = 2 -> read_rtid_string(2, <<fields[1].str>>, <<fields[2].num, fields[3].num, fields[4].num>>)
    [] sub = 3 -> read_rtid_string(3, <<fields[1].str, fields[2].str>>, <<>>)
=============================================================================
