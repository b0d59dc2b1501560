---------------------------- MODULE RtidChannel ----------------------------
(***************************************************************************)
(* One RTID, or one text that may be one, through print and parse: the     *)
(* standard pair Display / FromStr, the runtime pair to_runtime_string /   *)
(* from_runtime_str, and the binary body that Serialize writes and         *)
(* read_rtid_string turns into text.  A parse error ends the run.          *)
(***************************************************************************)
EXTENDS Rtid

CONSTANTS Rtids,   \* RTIDs a caller may build
          Texts    \* texts a caller may parse

(* The numbers with a decimal numeral in the tables.  What a numeral is    *)
(* worth in hexadecimal prints longer in decimal, so the tables end        *)
(* somewhere: 22, for "16", is read and has no decimal numeral.            *)
Spelled == {n \in Sizes \ {Big} : DecText[n] \in DOMAIN DecValue}
IsRtid(r) ==
  \/ r = Null
  \/ /\ r.kind = "uid" /\ r = Uid(r.group, r.id, r.obj, r.name)
     /\ {r.group, r.id, r.obj} \subseteq Spelled
     /\ \A s \in r.name : s \in Seq(STRING) /\ r.name = Some(s)
  \/ /\ r.kind = "raw" /\ r = Raw(r.name, r.parent)
     /\ r.name \in Seq(STRING) /\ r.parent \in Seq(STRING)
(* An object number that would print as a numeral outside the tables.      *)
Unspelled(s) == /\ Wrapped(s) /\ Dotted(Inner(s), 1, DecValue, AnyHexValue)
                /\ AnyHexValue[Inner(s)[5]] \notin Spelled \cup {Big}
ASSUME RtidsAssumption == \A r \in Rtids : IsRtid(r) /\ ~Unspelled(to_runtime_string(r))
ASSUME TextsAssumption == \A s \in Texts : s \in Seq(STRING) /\ ~Unspelled(s)

VARIABLES
  format,  (* "standard", "runtime" or "binary"                            *)
  stage,   (* "rtid" or "text": which of the two is current; "err"         *)
  origin,  (* the RTID started from, as a set; {} when a text was          *)
  rtid,    (* the current RTID, as a set                                   *)
  text,    (* the current text                                             *)
  parses   (* how often a text was parsed, at most twice                   *)
vars == <<format, stage, origin, rtid, text, parses>>

Init == /\ format \in {"standard", "runtime", "binary"}
        /\ parses = 0
        /\ \/ /\ stage = "rtid" /\ text = <<>>
              /\ rtid \in {{r} : r \in Rtids} /\ origin = rtid
           \/ /\ stage = "text" /\ text \in Texts /\ format # "binary"
              /\ rtid = {} /\ origin = {}

(* impl Serialize for Rtid, then deserialize_any on RtidNull or Rtid.      *)
BinaryText(r) == IF r = Null THEN NullText
                 ELSE RtidText(RtidBody(r)[1].index, Tail(RtidBody(r)))

Show == /\ stage = "rtid"
        /\ stage' = "text"
        /\ text' = CASE format = "standard" -> Display(Unwrap(rtid))
                     [] format = "runtime"  -> to_runtime_string(Unwrap(rtid))
                     [] format = "binary"   -> BinaryText(Unwrap(rtid))
        /\ UNCHANGED <<format, origin, rtid, parses>>

Parse == /\ stage = "text" /\ parses < 2
         /\ parses' = parses + 1
         /\ rtid' = IF format = "runtime" THEN from_runtime_str(text) ELSE FromStr(text)
         /\ stage' = IF rtid' = {} THEN "err" ELSE "rtid"
         /\ UNCHANGED <<format, origin, text>>

Next == Show \/ Parse
Spec == Init /\ [][Next]_vars
-----------------------------------------------------------------------------
(* RTIDs the texts can tell apart, said without the parser: every name is  *)
(* on one line; a uid's name, if any, is not empty; a raw name is not      *)
(* empty, has no "@", has no "@" in its parent, and does not spell a uid.  *)
OneLine(s)   == ~Contains(s, "\n")
NoAt(s)      == ~Contains(s, "@")
SpellsHex(s) == Len(s) = 5 /\ s[2] = "." /\ s[4] = "."
                  /\ {s[1], s[3], s[5]} \subseteq DOMAIN HexValue
SpellsDec(s) == SpellsHex(s) /\ {s[1], s[3]} \subseteq DOMAIN DecValue
SpellsRuntime(s) == Len(s) = 5 /\ s[2] = "." /\ s[4] = "."
                      /\ {s[1], s[3]} \subseteq DOMAIN DecValue /\ s[5] \in DOMAIN AnyHexValue
SpellsPair(s) == Len(s) = 4 /\ s[1] = ":" /\ s[3] = "."
                   /\ {s[2], s[4]} \subseteq DOMAIN DecValue
Colonless(s)  == IF s # <<>> /\ s[1] = ":" THEN Tail(s) ELSE <<>>
UidFaithful(r)  == r.kind = "uid" => /\ OneLine(NameOr(r.name))
                                     /\ r.name # Some(<<>>)
RawFaithful(r)  == r.kind = "raw" => /\ OneLine(r.name) /\ OneLine(r.parent)
                                     /\ r.name # <<>> /\ NoAt(r.name) /\ NoAt(r.parent)
ColonPairRaw(r) == r.kind = "raw" /\ SpellsPair(r.name)
                     /\ Len(r.parent) = 1 /\ r.parent[1] \in DOMAIN DecValue
StandardFaithful(r) ==
  /\ UidFaithful(r) /\ RawFaithful(r)
  /\ r.kind = "raw" =>
       /\ ~SpellsHex(r.name) /\ ~ColonPairRaw(r)
       /\ ~(SpellsDec(Colonless(r.name)) /\ r.parent # <<>>)
RuntimeFaithful(r) ==
  /\ UidFaithful(r) /\ RawFaithful(r)
  /\ r.kind = "raw" => ~SpellsRuntime(r.name) /\ ~ColonPairRaw(r)

(* Parsing what was printed gives the RTID back exactly for those RTIDs,   *)
(* whether it was printed as text or read from the binary body.            *)
RoundTripIffFaithful ==
  origin # {} /\ parses = 1 =>
    (rtid = origin <=> LET r == Unwrap(origin)
                       IN IF format = "runtime" THEN RuntimeFaithful(r) ELSE StandardFaithful(r))

(* The binary reader rebuilds Display's text, the order of id and group    *)
(* included.                                                               *)
BinaryIsDisplay ==
  format = "binary" /\ stage = "text" => text = Display(Unwrap(rtid))

(* Once parsed, an RTID is stable: printing and parsing it again cannot    *)
(* fail or change it.                                                      *)
ParsedIsStable == [][parses = 1 /\ parses' = 2 => rtid' = rtid /\ stage' = "rtid"]_vars

(* rtid.rs, FromStr: the full form without a colon is ambiguous, and its   *)
(* parsing stays hexadecimal "to preserve Display/FromStr round-trips".    *)
(* Leaving aside colons, and names and parents that are empty, hold an "@" *)
(* or a newline, every RTID comes back.                                    *)
DisplayRoundTrips ==
  origin # {} /\ parses = 1 /\ format = "standard" =>
    LET r == Unwrap(origin)
    IN  UidFaithful(r) /\ RawFaithful(r) /\ (r.kind = "raw" => ~Contains(r.name, ":"))
          => rtid = origin
=============================================================================
