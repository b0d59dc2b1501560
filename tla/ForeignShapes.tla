---------------------------- MODULE ForeignShapes ----------------------------
(* Standard bodies over both string tables, arrays with room for one,      *)
(* objects with either beginning, an RTID and a blob that is text; compact *)
(* bodies over both offset tables, arrays with and without offsets, blobs; *)
(* then an ending: good, cut off, or with one thing that no reader can     *)
(* take.                                                                   *)
EXTENDS Naturals, Sequences

T(tag)     == [tag |-> tag]
Blob(hex, declared) == [tag |-> "BinaryBlob", hex |-> hex, declared |-> declared, raw |-> <<96>>]
Header(v)  == [tag |-> "(header)", version |-> v]
Name       == [tag |-> "(utf8)", str |-> <<"n">>]
RtidOf(b)  == <<T("Rtid"), [tag |-> "(byte)", byte |-> b]>>
Standard   == {<<T("ObjectBegin")>>, <<T("CompactObjectBegin")>>, <<T("ObjectEnd")>>,
               <<T("ArrayBegin"), [tag |-> "ArrayCapacity", cap |-> 1]>>, <<T("ArrayEnd")>>,
               <<[tag |-> "StringLatin1Definition", str |-> <<"k">>]>>,
               <<[tag |-> "StringUtf8Definition", str |-> <<"W">>]>>,
               <<[tag |-> "StringLatin1Reference", idx |-> 0]>>,
               <<[tag |-> "StringUtf8Reference", idx |-> 0]>>,
               <<Blob(<<"6", "4">>, 1)>>, RtidOf(3) \o <<Name, Name>>}

Done       == <<T("ObjectEnd"), T("(footer)")>>
Scalars6   == <<[tag |-> "StringLatin1Direct", str |-> <<"l">>], T("BooleanTrue"),
                T("RtidNull"), [tag |-> "RawVarInt32", bits |-> 3, odd |-> FALSE],
                [tag |-> "StringUtf8Direct", str |-> <<"W">>], [tag |-> "F32", val |-> "x"]>>
Endings    == {<<T("(footer)")>>, Done, <<T("ArrayEnd")>> \o Done \o <<T("(torn)")>>}
OddEndings == {<<>>, Scalars6 \o RtidOf(0) \o <<T("RtidNull")>> \o Done,
               <<T("(torn)")>>, RtidOf(3) \o <<T("(torn)")>>,
               RtidOf(4) \o Done, <<T("ArrayBegin")>> \o Done}
              \cup {<<Blob(hex, 1)>> \o Done : hex \in {<<"6">>, <<"z", "6">>, <<"6", "<E9>", "6">>}}
              \cup {<<Blob(<<"F", "f">>, n)>> \o <<T("ObjectEnd")>> \o Done : n \in {0, 1, 2, 9}}

(* Compact strings: a key's is followed by an offset that no reader uses.  *)
Def(tag, len, s)    == [tag |-> tag, len |-> len, str |-> Append(s, "NUL")]
KeyDef(tag, len, s) == [tag |-> tag, len |-> len, str |-> Append(s, "NUL"), aux |-> 96]
Ref(tag, word)      == [tag |-> tag, word |-> word]
KeyRef(tag, word)   == [tag |-> tag, word |-> word, aux |-> 96]
Key      == KeyDef("CompactLatin1StringDefinitionWithValueOffset", 3, <<"6", "4">>)
WideKey  == KeyDef("CompactUtf32StringDefinitionWithValueOffset", 8, <<"W">>)
HexDef   == Def("CompactLatin1StringDefinition", 3, <<"+", "A">>)
Array(count, table) == [tag |-> "CompactArrayBegin", count |-> count, table |-> table]
CRtid(sub) == [tag |-> "CompactRtid", sub |-> sub, names |-> IF sub = 3 THEN <<<<"n">>, <<>>>> ELSE <<>>,
               nums |-> <<>>]
Bool     == [tag |-> "CompactBoolean", byte |-> 2]
RawCopy(n) == [tag |-> "(raw)", declared |-> n, raw |-> <<96>>]
CBlob(t, n) == <<T("CompactBinaryBlob"), t, RawCopy(n)>>
CStart   == <<Header("compact"), T("CompactObjectBegin")>>

(* The first string of a file has its payload at 14, its value is at 21;   *)
(* an array's first element is then at 35.                                 *)
Compact  == {<<Key>>, <<WideKey>>, <<KeyRef("CompactLatin1StringReferenceWithValueOffset", 14)>>,
             <<Ref("CompactUtf32StringReference", 14)>>,
             CBlob(HexDef, 1), CBlob(Ref("CompactLatin1StringReference", 14), 1),
             <<Array(1, <<0, 0>>)>>, <<Array(1, <<35, 37>>)>>, <<Bool>>, <<CRtid(3)>>,
             <<T("CompactObjectBegin")>>, <<T("ObjectEnd")>>}
Nesting  == Compact \ {<<WideKey>>, <<Bool>>, <<CRtid(3)>>, <<Ref("CompactUtf32StringReference", 14)>>}
Odd      == {<<CRtid(0)>>, <<CRtid(4)>>, <<Array(0, <<>>)>>, <<Array(59, <<0>>)>>,
             <<Array(1, <<36, 0>>), Bool>>, <<Array(0, <<21>>)>>,
             <<Def("CompactUtf32StringDefinition", 6, <<"W">>)>>, <<T("(torn)")>>,
             CBlob(Ref("CompactLatin1StringReference", 15), 1),
             CBlob(T("BooleanTrue"), 1), CBlob(T("BooleanTrue"), 9), CBlob(HexDef, 0),
             CBlob(KeyRef("CompactLatin1StringReferenceWithValueOffset", 14), 1),
             CBlob(Key, 1), <<T("CompactBinaryBlob"), HexDef>>}

ForeignShapes ==
  {[start |-> <<Header("standard")>>, pieces |-> Standard, most |-> 4, ending |-> Done]}
    \cup {[start |-> <<Header("standard")>>, pieces |-> Standard, most |-> 3, ending |-> e] : e \in Endings}
    \cup {[start |-> <<Header(v)>>, pieces |-> Standard, most |-> 2, ending |-> e] :
            v \in {"standard", "compact"}, e \in Endings \cup OddEndings}
    \cup {[start |-> <<s>>, pieces |-> Standard, most |-> 1, ending |-> e] :
            s \in {Header("other"), T("ObjectEnd"), T("(torn)")}, e \in {<<>>, Done}}
    \cup {[start |-> CStart, pieces |-> Compact, most |-> 3, ending |-> Done],
          [start |-> CStart, pieces |-> Nesting, most |-> 4, ending |-> Done]}
    \cup {[start |-> CStart, pieces |-> Compact, most |-> 2, ending |-> e \o Done] : e \in Odd}

(* Blobs whose text has the tag of a key: defined in the blob, or referred *)
(* to where an entry before it has its key.                                *)
Entry         == <<Key, Bool>>
KeyTextBlobs  == {CBlob(Key, 1), CBlob(KeyRef("CompactLatin1StringReferenceWithValueOffset", 14), 1)}
KeyTextShapes ==
  {[start |-> CStart \o Entry \o <<KeyRef("CompactLatin1StringReferenceWithValueOffset", 14)>>,
    pieces |-> KeyTextBlobs, most |-> 1, ending |-> Done]}
=============================================================================
