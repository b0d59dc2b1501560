---------------------------- MODULE StreamLayout ----------------------------
(***************************************************************************)
(* Where the tokens of a stream lie: the bytes each takes, which compact   *)
(* RTON uses to address strings, array elements and the ends of values.    *)
(* A character of a text counts as one byte (four in UTF-32), and the      *)
(* varints of lengths, indices and RTID numbers are below 128.             *)
(***************************************************************************)
EXTENDS IntCodec, SequencesExt

Latin1Defs == {"CompactLatin1StringDefinition", "CompactLatin1StringDefinitionWithValueOffset"}
Latin1Refs == {"CompactLatin1StringReference", "CompactLatin1StringReferenceWithValueOffset"}
Utf32Defs  == {"CompactUtf32StringDefinition", "CompactUtf32StringDefinitionWithValueOffset"}
Utf32Refs  == {"CompactUtf32StringReference", "CompactUtf32StringReferenceWithValueOffset"}
CompactDefs == Latin1Defs \cup Utf32Defs
CompactRefs == Latin1Refs \cup Utf32Refs
PairedTags == {"CompactLatin1StringDefinitionWithValueOffset",
               "CompactLatin1StringReferenceWithValueOffset",
               "CompactUtf32StringDefinitionWithValueOffset",
               "CompactUtf32StringReferenceWithValueOffset"}

(* A text from its payload: a Latin-1 text loses one NUL at its end, a     *)
(* UTF-32 text everything from its first.                                  *)
WithoutNul(p) == IF p # <<>> /\ p[Len(p)] = "NUL" THEN SubSeq(p, 1, Len(p) - 1) ELSE p
CutAtNul(p)   == IF Contains(p, "NUL") THEN SubSeq(p, 1, SelectInSeq(p, LAMBDA c : c = "NUL") - 1) ELSE p

(* The trailing word of a paired string.                                   *)
AuxSize(tok) == IF tok.tag \in PairedTags THEN 4 ELSE 0

(* The texts of an RTID body take a count and a length each; two varints   *)
(* and a u32 come with a uid.                                              *)
NameSize(s)   == 2 + Len(s)
RtidSize(tok) ==
  CASE tok.sub = 1 -> 6
    [] tok.sub = 2 -> NameSize(tok.names[1]) + 6
    [] tok.sub = 3 -> NameSize(tok.names[1]) + NameSize(tok.names[2])
    [] OTHER       -> 0

(* An array's table is missing when its capacity marker is.                *)
TableSize(tok) == IF tok.table = <<>> THEN 0 ELSE 5 + 4 * Len(tok.table)

Size(tok) ==
  CASE tok.tag \in IntTags        -> 1 + PayloadLen(tok)
    [] tok.tag \in Latin1Defs     -> 5 + Len(tok.str) + AuxSize(tok)
    [] tok.tag \in Utf32Defs      -> 5 + 4 * Len(tok.str) + AuxSize(tok)
    [] tok.tag \in CompactRefs    -> 5 + AuxSize(tok)
    [] tok.tag = "CompactArrayBegin" -> 1 + TableSize(tok)
    [] tok.tag = "CompactRtid"    -> 2 + RtidSize(tok)
    [] tok.tag = "(raw)"          -> 4 + Len(tok.raw)
    [] tok.tag = "BinaryBlob"     -> 4 + Len(tok.hex) + Len(tok.raw)
    [] tok.tag \in {"F32", "(u32)", "(footer)"} -> IF tok.tag = "F32" THEN 5 ELSE 4
    [] tok.tag = "F64"            -> 9
    [] tok.tag = "(header)"       -> 8
    [] tok.tag \in {"CompactBoolean", "ArrayCapacity", "StringLatin1Reference", "StringUtf8Reference"} -> 2
    [] tok.tag \in {"StringLatin1Direct", "StringLatin1Definition", "(utf8)"} -> 2 + Len(tok.str)
    [] tok.tag \in {"StringUtf8Direct", "StringUtf8Definition"} -> 3 + Len(tok.str)
    [] OTHER                      -> 1
=============================================================================
