----------------------- MODULE StandardRoundTripProofs -----------------------
(***************************************************************************)
(* Proofs about StandardRoundTrip.tla, for every set of texts, integers,   *)
(* RTIDs and blobs and whatever the bounds.                                *)
(***************************************************************************)
EXTENDS StandardRoundTrip, SerializerProofs

(* Where the tokens lie: the position of a token is that of the one        *)
(* before, plus its size.                                                  *)
TokenSizes == [n \in Nat |-> R!Size(R!Tok(n))]
LEMMA PositionIs ==
  ASSUME NEW i \in Nat \ {0}
  PROVE  \E g : Totals(TokenSizes, g, i - 1) /\ R!Position(i) = g[i - 1]
<1> DEFINE u == CHOOSE f : f = [n \in 0 .. i - 1 |-> IF n = 0 THEN 0 ELSE f[n - 1] + R!Size(R!Tok(n))]
<1>1. i - 1 \in Nat /\ 0 .. i - 1 \subseteq Nat
  OBVIOUS
<1>2. PICK g : Totals(TokenSizes, g, i - 1)
  BY <1>1, TotalsExist
<1>3. g = [n \in 0 .. i - 1 |-> IF n = 0 THEN 0 ELSE g[n - 1] + R!Size(R!Tok(n))]
  <2>1. \A n \in 0 .. i - 1 : TokenSizes[n] = R!Size(R!Tok(n))
    BY <1>1 DEF TokenSizes
  <2>2. g = [n \in 0 .. i - 1 |-> IF n = 0 THEN 0 ELSE g[n - 1] + TokenSizes[n]]
    BY <1>2, Zenon DEF Totals
  <2>3. QED BY <2>1, <2>2
<1>4. u = [n \in 0 .. i - 1 |-> IF n = 0 THEN 0 ELSE u[n - 1] + R!Size(R!Tok(n))]
  BY <1>3, Zenon
<1>5. R!Position(i) = u[i - 1]
  BY Zenon DEF R!Position
<1> HIDE DEF u
<1>6. Totals(TokenSizes, u, i - 1)
  <2>1. \A n \in 0 .. i - 1 : TokenSizes[n] = R!Size(R!Tok(n))
    BY <1>1 DEF TokenSizes
  <2>2. u = [n \in 0 .. i - 1 |-> IF n = 0 THEN 0 ELSE u[n - 1] + TokenSizes[n]]
    BY <1>4, <2>1
  <2>3. QED BY <2>2, Zenon DEF Totals
<1>7. QED BY <1>5, <1>6

LEMMA PositionStep ==
  /\ R!Position(1) = 0
  /\ \A i \in Nat \ {0} : R!Position(i + 1) = R!Position(i) + R!Size(R!Tok(i))
<1>1. R!Position(1) = 0
  <2>1. PICK g : Totals(TokenSizes, g, 1 - 1) /\ R!Position(1) = g[1 - 1]
    BY PositionIs
  <2>2. 1 - 1 = 0
    OBVIOUS
  <2>3. QED BY <2>1, <2>2, TotalsStep
<1>2. ASSUME NEW i \in Nat \ {0} PROVE R!Position(i + 1) = R!Position(i) + R!Size(R!Tok(i))
  <2>1. i + 1 \in Nat \ {0} /\ (i + 1) - 1 = i /\ i - 1 \in Nat /\ i \in 1 .. i /\ i - 1 \in 0 .. i - 1 /\ i - 1 <= i
    OBVIOUS
  <2>2. PICK g : Totals(TokenSizes, g, i - 1) /\ R!Position(i) = g[i - 1]
    BY PositionIs
  <2>3. PICK h : Totals(TokenSizes, h, (i + 1) - 1) /\ R!Position(i + 1) = h[(i + 1) - 1]
    BY <2>1, PositionIs
  <2>4. Totals(TokenSizes, h, i) /\ R!Position(i + 1) = h[i]
    BY <2>1, <2>3
  <2>5. h[i] = h[i - 1] + R!Size(R!Tok(i))
    <3>1. h[i] = h[i - 1] + TokenSizes[i]
      BY <2>1, <2>4, TotalsStep
    <3>2. QED BY <3>1 DEF TokenSizes
  <2>6. g[i - 1] = h[i - 1]
    BY <2>1, <2>2, <2>4, TotalsAgree
  <2>7. QED BY <2>2, <2>4, <2>5, <2>6
<1>3. QED BY <1>1, <1>2

(* No token is empty.                                                      *)
NotCompact(t) == t.tag \notin R!Latin1Defs \cup R!Utf32Defs \cup R!CompactRefs
                                 \cup {"CompactArrayBegin", "CompactRtid", "CompactBinaryBlob", "(raw)"}

LEMMA NoCompactToken == \A t \in Token : NotCompact(t)
<1> SUFFICES ASSUME NEW t \in Token PROVE NotCompact(t)
  OBVIOUS
<1> DEFINE compact == R!Latin1Defs \cup R!Utf32Defs \cup R!CompactRefs
                        \cup {"CompactArrayBegin", "CompactRtid", "CompactBinaryBlob", "(raw)"}
<1> USE DEF R!Latin1Defs, R!Utf32Defs, R!CompactRefs, R!Latin1Refs, R!Utf32Refs
<1>1. CASE t.tag \in IntTags
  <2>1. IntTags \cap compact = {}
    BY DEF IntTags
  <2>2. QED BY <1>1, <2>1 DEF NotCompact
<1>2. CASE t.tag \notin IntTags
  <2>1. t.tag \in {"BooleanTrue", "BooleanFalse", "F32Zero", "F64Zero", "RtidNull", "StringAsterisk", "Rtid",
                   "ArrayBegin", "ArrayEnd", "ObjectBegin", "ObjectEnd", "(footer)", "(torn)", "(header)",
                   "F32", "F64", "BinaryBlob", "ArrayCapacity", "(byte)", "(varint)", "(u32)", "(utf8)"}
                    \cup DefinitionTags \cup DirectTags \cup ReferenceTags
    BY <1>2 DEF Token
  <2>2. QED BY <2>1 DEF NotCompact, DefinitionTags, DirectTags, ReferenceTags
<1>3. QED BY <1>1, <1>2

LEMMA SizePositive == \A t \in Token : R!Size(t) \in Nat /\ R!Size(t) > 0
<1> SUFFICES ASSUME NEW t \in Token PROVE R!Size(t) \in Nat /\ R!Size(t) > 0
  OBVIOUS
<1>1. NotCompact(t)
  BY NoCompactToken
<1>2. CASE t.tag \in R!IntTags
  <2>1. t \in [tag : IntTags, bits : Nat, odd : BOOLEAN]
    BY <1>2 DEF Token, R!IntTags, DefinitionTags, DirectTags, ReferenceTags
  <2>2. R!PayloadLen(t) \in Nat
    BY <2>1 DEF R!PayloadLen, R!varint_len
  <2>3. t.tag \notin {"BinaryBlob", "F32", "(u32)", "(footer)", "F64", "(header)", "CompactBoolean", "ArrayCapacity",
                     "StringLatin1Reference", "StringUtf8Reference", "StringLatin1Direct", "StringLatin1Definition",
                     "(utf8)", "StringUtf8Direct", "StringUtf8Definition"}
    BY <1>2 DEF R!IntTags
  <2>5. R!Size(t) = 1 + R!PayloadLen(t)
    BY <1>1, <1>2, <2>3 DEF R!Size, NotCompact
  <2>6. QED BY <2>2, <2>5
<1>3. CASE t.tag = "BinaryBlob"
  <2>1. "BinaryBlob" \notin R!IntTags
    BY DEF R!IntTags
  <2>2. PICK b \in Blobs : t = [tag |-> "BinaryBlob", hex |-> HexStr(b), declared |-> Len(b), raw |-> b]
    BY <1>3 DEF Token, IntTags, DefinitionTags, DirectTags, ReferenceTags
  <2>3. Len(t.raw) \in Nat /\ Len(t.hex) \in Nat
    <3>1. Len(b) \in Nat /\ Len(HexStr(b)) = 2 * Len(b)
      BY BlobsAssumption DEF BlobsAssumption, HexStr
    <3>2. t.raw = b /\ t.hex = HexStr(b)
      BY <2>2
    <3>3. QED BY <3>1, <3>2
  <2>4. R!Size(t) = 4 + Len(t.hex) + Len(t.raw)
    BY <1>1, <1>3, <2>1 DEF R!Size, NotCompact
  <2>5. \A x, y \in Nat : 4 + x + y \in Nat /\ 4 + x + y > 0
    OBVIOUS
  <2>6. QED BY <2>3, <2>4, <2>5, Zenon
<1>4. CASE t.tag \in {"(utf8)"} \cup DefinitionTags \cup DirectTags
  <2>1. t.tag \notin R!IntTags
    BY <1>4 DEF R!IntTags, DefinitionTags, DirectTags
  <2>2. t.str \in Strings
    BY <1>4 DEF Token, IntTags, DefinitionTags, DirectTags, ReferenceTags
  <2>3. Len(t.str) \in Nat
    BY <2>2, TextsAssumption DEF TextsAssumption
  <2>4. R!Size(t) = 2 + Len(t.str) \/ R!Size(t) = 3 + Len(t.str)
    BY <1>1, <1>4, <2>1 DEF R!Size, NotCompact, DefinitionTags, DirectTags
  <2>5. QED BY <2>3, <2>4
<1>5. CASE t.tag \notin R!IntTags \cup {"BinaryBlob", "(utf8)"} \cup DefinitionTags \cup DirectTags
  <2>1. R!Size(t) \in {1, 2, 4, 5, 8, 9}
    BY <1>1, <1>5, Zenon DEF R!Size, NotCompact, DefinitionTags, DirectTags
  <2>2. QED BY <2>1
<1>6. QED BY <1>2, <1>3, <1>4, <1>5

(* The tokens the reader looks at.                                         *)
LEMMA TokIs ==
  ASSUME TypeOK
  PROVE  /\ Len(out) \in Nat
         /\ \A i \in 1 .. Len(out) : R!Tok(i) = out[i] /\ out[i] \in Token
         /\ \A i \in Nat : i > Len(out) => R!Tok(i) = [tag |-> "(eof)"]
<1>1. out \in Seq(Token) /\ Len(out) \in Nat /\ DOMAIN out = 1 .. Len(out)
  BY DEF TypeOK
<1>2. ASSUME NEW i \in 1 .. Len(out) PROVE R!Tok(i) = out[i] /\ out[i] \in Token
  BY <1>1 DEF R!Tok
<1>3. ASSUME NEW i \in Nat, i > Len(out) PROVE R!Tok(i) = [tag |-> "(eof)"]
  BY <1>1, <1>3 DEF R!Tok, R!Eof
<1>4. QED BY <1>1, <1>2, <1>3

(* Later tokens lie further on.                                            *)
LEMMA PositionsGrow ==
  ASSUME TypeOK
  PROVE  /\ \A i \in 1 .. Len(out) + 1 : R!Position(i) \in Nat
         /\ \A i, j \in 1 .. Len(out) + 1 : i < j => R!Position(i) < R!Position(j)
<1> DEFINE Grows(n) == \A i \in 1 .. n + 1 : R!Position(i) \in Nat /\ (i <= n => R!Position(i) < R!Position(n + 1))
           S        == {n \in Nat : n <= Len(out) => Grows(n)}
<1>0. Len(out) \in Nat
  BY TokIs
<1>1. 0 \in S
  BY PositionStep
<1>2. ASSUME NEW n \in S PROVE n + 1 \in S
  <2>1. CASE n + 1 <= Len(out)
    <3>1. n \in Nat /\ n + 1 \in 1 .. Len(out) /\ Grows(n)
      BY <1>0, <2>1
    <3>2. /\ R!Position((n + 1) + 1) = R!Position(n + 1) + R!Size(R!Tok(n + 1))
          /\ R!Size(R!Tok(n + 1)) \in Nat /\ R!Size(R!Tok(n + 1)) > 0
      <4>1. R!Tok(n + 1) \in Token /\ n + 1 \in Nat \ {0}
        BY <3>1, TokIs
      <4>2. QED BY <4>1, PositionStep, SizePositive
    <3>3. R!Position(n + 1) \in Nat
      BY <3>1
    <3>4. R!Position((n + 1) + 1) \in Nat /\ R!Position(n + 1) < R!Position((n + 1) + 1)
      BY <3>2, <3>3
    <3>5. ASSUME NEW i \in 1 .. (n + 1) + 1
          PROVE  R!Position(i) \in Nat /\ (i <= n + 1 => R!Position(i) < R!Position((n + 1) + 1))
      <4>1. CASE i = (n + 1) + 1
        BY <3>1, <3>4, <4>1
      <4>2. CASE i = n + 1
        BY <3>1, <3>4, <4>2
      <4>3. CASE i \in 1 .. n
        BY <3>1, <3>3, <3>4, <4>3
      <4>4. QED BY <3>1, <4>1, <4>2, <4>3
    <3>6. QED BY <3>1, <3>5
  <2>2. QED BY <2>1
<1> HIDE DEF S
<1>3. S = Nat
  <2>1. S \subseteq Nat
    BY DEF S
  <2>2. QED BY <1>1, <1>2, <2>1, InductiveSet
<1>4. \A n \in 0 .. Len(out) : Grows(n)
  BY <1>3 DEF S
<1>5. \A i \in 1 .. Len(out) + 1 : R!Position(i) \in Nat
  BY <1>0, <1>4
<1>6. ASSUME NEW i \in 1 .. Len(out) + 1, NEW j \in 1 .. Len(out) + 1, i < j
      PROVE  R!Position(i) < R!Position(j)
  <2>1. j - 1 \in 0 .. Len(out) /\ (j - 1) + 1 = j /\ i \in 1 .. (j - 1) + 1 /\ i <= j - 1
    BY <1>0, <1>6
  <2>2. QED BY <1>4, <2>1
<1>7. QED BY <1>5, <1>6

(* A seek to where a token begins leads to that token.                     *)
LEMMA SeekToPosition ==
  ASSUME TypeOK, NEW k \in 1 .. Len(out) + 1
  PROVE  R!SeekTo(R!Position(k)) = k
<1>0. Len(out) \in Nat
  BY TokIs
<1>1. /\ R!Position(k) \in Nat /\ R!Position(Len(out) + 1) \in Nat
      /\ ~(R!Position(k) > R!Position(Len(out) + 1))
  BY <1>0, PositionsGrow
<1> DEFINE there == {i \in 1 .. Len(out) + 1 : R!Position(i) = R!Position(k)}
<1>2. there = {k}
  <2>1. ASSUME NEW i \in 1 .. Len(out) + 1, R!Position(i) = R!Position(k) PROVE i = k
    <3>1. ~(i < k) /\ ~(k < i)
      BY <2>1, PositionsGrow
    <3>2. QED BY <1>0, <3>1
  <2>2. QED BY <2>1
<1>3. R!Min({k}) = k
  <2>1. \E x \in {k} : \A y \in {k} : x <= y
    BY <1>0
  <2>2. QED BY <2>1 DEF R!Min
<1>4. R!SeekTo(R!Position(k)) = R!Min(there)
  BY <1>1, <1>2 DEF R!SeekTo, R!EndOfInput
<1>5. QED BY <1>2, <1>3, <1>4
-----------------------------------------------------------------------------
(* What a read table holds: the definitions before position p, each at its *)
(* rank.                                                                   *)
ReadsTable(tag, strings, p) ==
  /\ strings \in Seq(Strings)
  /\ Len(strings) = Rank(tag, p)
  /\ \A j \in 1 .. p - 1 : out[j].tag = tag => strings[Rank(tag, j) + 1] = out[j].str

ReaderInv ==
  /\ pos \in 1 .. Len(out) + 1
  /\ result \in {"new", "run"} => phase = "header"
  /\ phase = "header" => pos = 1
  /\ ReadsTable("StringLatin1Definition", latin1_strings, pos)
  /\ ReadsTable("StringUtf8Definition", utf8_strings, pos)

(* The three ways a reader's step leaves its position and the tables: as   *)
(* they were, past tokens that are no definitions, or past a definition    *)
(* that is now in its table.                                               *)
Stays == UNCHANGED <<pos, latin1_strings, utf8_strings>>
Skips == /\ pos' \in pos .. Len(out) + 1
         /\ \A i \in pos .. pos' - 1 : out[i].tag \notin DefinitionTags
         /\ UNCHANGED <<latin1_strings, utf8_strings>>
Defines == /\ pos \in 1 .. Len(out) /\ pos' = pos + 1
           /\ \/ /\ out[pos].tag = "StringLatin1Definition"
                 /\ latin1_strings' = Append(latin1_strings, out[pos].str) /\ UNCHANGED utf8_strings
              \/ /\ out[pos].tag = "StringUtf8Definition"
                 /\ utf8_strings' = Append(utf8_strings, out[pos].str) /\ UNCHANGED latin1_strings

(* The reader stops with an error.                                         *)
Refused == phase' = "err" /\ UNCHANGED <<pos, latin1_strings, utf8_strings, frames, seen>>

LEMMA FailRefuses == ASSUME NEW e, R!Fail(e) PROVE Refused
BY DEF R!Fail, R!Stop, R!Strings4, R!Strings2, Refused

(* The tag at the reader's position.                                       *)
LEMMA TagHere ==
  ASSUME TypeOK, pos \in 1 .. Len(out) + 1
  PROVE  /\ R!Tag # "(eof)" => pos \in 1 .. Len(out) /\ R!Tok(pos) = out[pos] /\ out[pos] \in Token
         /\ R!Tag = "(eof)" => pos = Len(out) + 1
         /\ R!Tag \notin {"(eof)", "BooleanFalse", "BooleanTrue", "StringAsterisk", "(unknown)"} =>
              out[pos].tag = R!Tag
         /\ R!Tag \notin DefinitionTags /\ R!Tag # "(eof)" => out[pos].tag \notin DefinitionTags
         /\ R!Tag \notin R!Latin1Defs \cup R!Utf32Defs \cup R!CompactRefs
                       \cup {"CompactArrayBegin", "CompactRtid", "CompactBinaryBlob"}
<1>1. Len(out) \in Nat
  BY TokIs
<1>2. CASE pos = Len(out) + 1
  <2>1. R!Tok(pos) = [tag |-> "(eof)"]
    BY <1>1, <1>2, TokIs
  <2>2. R!Tag = "(eof)"
    BY <2>1 DEF R!Tag, R!TagAt
  <2>3. QED BY <1>2, <2>2 DEF R!Latin1Defs, R!Utf32Defs, R!CompactRefs, R!Latin1Refs, R!Utf32Refs
<1>3. CASE pos \in 1 .. Len(out)
  <2>1. R!Tok(pos) = out[pos] /\ out[pos] \in Token
    BY <1>3, TokIs
  <2>2. \/ R!Tag = out[pos].tag
        \/ R!Tag \in {"BooleanFalse", "BooleanTrue", "StringAsterisk", "(unknown)"} /\ out[pos].tag = "(byte)"
    BY <2>1 DEF R!Tag, R!TagAt
  <2>3. NotCompact(out[pos])
    BY <2>1, NoCompactToken
  <2>4. out[pos].tag # "(eof)"
    BY <2>1 DEF Token, IntTags, DefinitionTags, DirectTags, ReferenceTags
  <2>5. {"BooleanFalse", "BooleanTrue", "StringAsterisk", "(unknown)"} \cap
          (R!Latin1Defs \cup R!Utf32Defs \cup R!CompactRefs
                       \cup {"CompactArrayBegin", "CompactRtid", "CompactBinaryBlob"}) = {}
    BY DEF R!Latin1Defs, R!Utf32Defs, R!CompactRefs, R!Latin1Refs, R!Utf32Refs
  <2>6. "(byte)" \notin DefinitionTags
    BY DEF DefinitionTags
  <2>7. QED BY <1>3, <2>1, <2>2, <2>3, <2>4, <2>5, <2>6 DEF NotCompact
<1>4. QED BY <1>1, <1>2, <1>3

(* No token passed, or one that is no definition.                          *)
LEMMA PassOne ==
  ASSUME TypeOK, pos \in 1 .. Len(out) + 1, R!Tag # "(eof)", R!Tag \notin DefinitionTags,
         pos' = pos \/ pos' = pos + 1, UNCHANGED <<latin1_strings, utf8_strings>>
  PROVE  Stays \/ Skips
<1>1. pos \in 1 .. Len(out) /\ out[pos].tag \notin DefinitionTags /\ Len(out) \in Nat
  BY TagHere, TokIs
<1>2. CASE pos' = pos
  BY <1>2 DEF Stays
<1>3. CASE pos' = pos + 1
  BY <1>1, <1>3 DEF Skips
<1>4. QED BY <1>2, <1>3

(* A value given and one token passed.                                     *)
LEMMA GiveOne ==
  ASSUME TypeOK, pos \in 1 .. Len(out) + 1, R!Tag # "(eof)", R!Tag \notin DefinitionTags,
         NEW v, R!Give(v, 1), UNCHANGED <<latin1_strings, utf8_strings>>
  PROVE  Stays \/ Skips
<1>1. pos' = pos \/ pos' = pos + 1
  BY DEF R!Give, R!GiveTo, R!Stop
<1>2. QED BY <1>1, PassOne

(* The body of an RTID is taken whole or the reader stops.                 *)
RtidTaken(sub, n) ==
  /\ pos + 1 \in 1 .. Len(out) /\ out[pos + 1].tag = "(byte)" /\ out[pos + 1].byte = sub
  /\ R!Tok(pos + 1) = out[pos + 1]
  /\ [i \in 1 .. n |-> R!Tok(pos + 1 + i).tag] = R!Pieces(sub)
  /\ R!Give(R!Text(R!RtidText(sub, R!FieldToks(n))), n + 2) /\ UNCHANGED R!Strings4

LEMMA RtidOutcome ==
  ASSUME TypeOK, pos \in 1 .. Len(out) + 1, R!visit_rtid
  PROVE  Refused \/ \E sub \in {0, 1, 2, 3} : RtidTaken(sub, Len(R!Pieces(sub)))
<1>1. pos \in 1 .. Len(out) /\ Len(out) \in Nat
  BY TagHere, TokIs DEF R!visit_rtid
<1>2. CASE R!Tok(pos + 1).tag # "(byte)"
  <2>1. R!Fail("Io")
    BY <1>2 DEF R!visit_rtid
  <2>2. QED BY <2>1, FailRefuses
<1>3. CASE R!Tok(pos + 1).tag = "(byte)"
  <2>1. pos + 1 \in 1 .. Len(out) /\ R!Tok(pos + 1) = out[pos + 1] /\ out[pos + 1] \in Token
    <3>1. R!Tok(pos + 1) # [tag |-> "(eof)"]
      BY <1>3
    <3>2. QED BY <1>1, <3>1, TokIs
  <2>2. out[pos + 1].byte \in Nat
    <3>1. ASSUME NEW t \in Token, t.tag = "(byte)" PROVE t.byte \in Nat
      BY <3>1 DEF Token, IntTags, DefinitionTags, DirectTags, ReferenceTags
    <3>2. QED BY <1>3, <2>1, <3>1
  <2>3. PICK sub \in Nat : sub = R!Tok(pos + 1).byte
    BY <2>1, <2>2
  <2>4. CASE sub > 3
    <3>1. ~(sub <= 3)
      BY <2>4
    <3>2. R!Fail("UnknownRtidSubId")
      BY <1>3, <2>3, <2>4, <3>1 DEF R!visit_rtid
    <3>3. QED BY <3>2, FailRefuses
  <2>5. CASE sub <= 3
    <3>1. ~(sub > 3) /\ sub \in {0, 1, 2, 3}
      BY <2>5
    <3>2. \/ R!Fail("Io")
          \/ /\ [i \in 1 .. Len(R!Pieces(sub)) |-> R!Tok(pos + 1 + i).tag] = R!Pieces(sub)
             /\ R!Give(R!Text(R!RtidText(sub, R!FieldToks(Len(R!Pieces(sub))))), Len(R!Pieces(sub)) + 2)
             /\ UNCHANGED R!Strings4
      BY <1>3, <2>3, <2>5, <3>1 DEF R!visit_rtid
    <3>3. QED BY <1>3, <2>1, <2>3, <3>1, <3>2, FailRefuses DEF RtidTaken
  <2>6. QED BY <2>4, <2>5
<1>4. QED BY <1>2, <1>3

(* An RTID's body holds no definitions.                                    *)
LEMMA RtidSkips ==
  ASSUME TypeOK, pos \in 1 .. Len(out) + 1, R!visit_rtid
  PROVE  Stays \/ Skips
<1>1. pos \in 1 .. Len(out) /\ out[pos].tag = "Rtid" /\ Len(out) \in Nat
  BY TagHere, TokIs DEF R!visit_rtid
<1>2. CASE Refused
  BY <1>2 DEF Stays, Refused
<1>3. ASSUME NEW sub \in {0, 1, 2, 3}, RtidTaken(sub, Len(R!Pieces(sub)))
      PROVE  Stays \/ Skips
  <2>1. PICK n : n = Len(R!Pieces(sub))
    OBVIOUS
  <2>2. /\ pos + 1 \in 1 .. Len(out) /\ out[pos + 1].tag = "(byte)"
        /\ [i \in 1 .. n |-> R!Tok(pos + 1 + i).tag] = R!Pieces(sub)
        /\ UNCHANGED <<latin1_strings, utf8_strings>>
        /\ pos' = pos \/ pos' = pos + (n + 2)
    BY <1>3, <2>1 DEF RtidTaken, R!Give, R!GiveTo, R!Stop, R!Strings4, R!Strings2
  <2>3. CASE pos' = pos
    BY <2>2, <2>3 DEF Stays
  <2>4. /\ n \in 0 .. 4
        /\ \A i \in 1 .. n : R!Pieces(sub)[i] \in {"(varint)", "(u32)", "(utf8)"}
    BY <2>1 DEF R!Pieces
  <2>5. \A i \in 1 .. n : R!Tok(pos + 1 + i).tag \in {"(varint)", "(u32)", "(utf8)"}
    BY <2>2, <2>4
  <2>6. \A i \in 1 .. n : pos + 1 + i \in 1 .. Len(out) /\ out[pos + 1 + i].tag \notin DefinitionTags
    <3> SUFFICES ASSUME NEW i \in 1 .. n
                 PROVE  pos + 1 + i \in 1 .. Len(out) /\ out[pos + 1 + i].tag \notin DefinitionTags
      OBVIOUS
    <3>1. i \in Nat
      BY <2>4
    <3>2. R!Tok(pos + 1 + i).tag \in {"(varint)", "(u32)", "(utf8)"}
      BY <2>5
    <3>3. pos + 1 + i \in 1 .. Len(out)
      BY <1>1, <3>1, <3>2, TokIs
    <3>4. QED BY <3>2, <3>3, TokIs DEF DefinitionTags
  <2>7. CASE pos' = pos + (n + 2)
    <3>0. n \in Nat
      BY <2>4
    <3>1. pos' \in pos .. Len(out) + 1
      <4>1. CASE n = 0
        BY <1>1, <2>2, <2>7, <4>1
      <4>2. CASE n > 0
        <5>1. pos + 1 + n \in 1 .. Len(out)
          BY <2>6, <3>0, <4>2
        <5>2. QED BY <1>1, <2>7, <3>0, <5>1
      <4>3. QED BY <3>0, <4>1, <4>2
    <3>2. ASSUME NEW i \in pos .. pos' - 1 PROVE out[i].tag \notin DefinitionTags
      <4>1. i = pos \/ i = pos + 1 \/ i - pos - 1 \in 1 .. n
        BY <1>1, <2>7, <3>0
      <4>2. CASE i - pos - 1 \in 1 .. n
        <5>1. pos + 1 + (i - pos - 1) = i
          BY <1>1
        <5>2. QED BY <2>6, <4>2, <5>1
      <4>3. QED BY <1>1, <2>2, <4>1, <4>2 DEF DefinitionTags
    <3>3. QED BY <2>2, <3>1, <3>2 DEF Skips
  <2>8. QED BY <2>2, <2>3, <2>7
<1>4. QED BY <1>2, <1>3, RtidOutcome

(* A blob's seek leads to the next token: the declared length is that of   *)
(* the raw copy.                                                           *)
LEMMA BlobHere ==
  ASSUME TypeOK, pos \in 1 .. Len(out) + 1, R!Tag = "BinaryBlob"
  PROVE  \E b \in Blobs :
           /\ pos \in 1 .. Len(out)
           /\ out[pos] = [tag |-> "BinaryBlob", hex |-> HexStr(b), declared |-> Len(b), raw |-> b]
           /\ R!Tok(pos) = out[pos]
           /\ R!decode_hex_bytes(HexStr(b)) = R!Decoded(b)
           /\ R!SeekTo(R!Position(pos) + R!Size(R!Tok(pos)) - Len(b) + Len(b)) = pos + 1
<1>1. pos \in 1 .. Len(out) /\ R!Tok(pos) = out[pos] /\ out[pos] \in Token /\ out[pos].tag = "BinaryBlob"
  BY TagHere
<1>2. PICK b \in Blobs : out[pos] = [tag |-> "BinaryBlob", hex |-> HexStr(b), declared |-> Len(b), raw |-> b]
  <2>1. ASSUME NEW t \in Token, t.tag = "BinaryBlob"
        PROVE  \E b \in Blobs : t = [tag |-> "BinaryBlob", hex |-> HexStr(b), declared |-> Len(b), raw |-> b]
    BY <2>1 DEF Token, IntTags, DefinitionTags, DirectTags, ReferenceTags
  <2>2. QED BY <1>1, <2>1
<1>3. R!decode_hex_bytes(HexStr(b)) = R!Decoded(b)
  <2>1. decode_hex_bytes(HexStr(b)) = Decoded(b)
    BY HexDecodes, BlobsAssumption DEF BlobsAssumption
  <2>2. R!decode_hex_bytes(HexStr(b)) = decode_hex_bytes(HexStr(b))
    BY DEF R!decode_hex_bytes, decode_hex_bytes, R!Bytes, Bytes, R!FlattenSeq, FlattenSeq, R!PairStatus, PairStatus,
           R!PairByte, PairByte, R!IsDigit, IsDigit, R!DigitOf, DigitOf, R!Range, Range, R!HexDigits, HexDigits,
           R!LowerHex, LowerHex, R!Err, Err, R!Decoded, Decoded, R!Min, Min
  <2>3. QED BY <2>1, <2>2 DEF R!Decoded, Decoded
<1>4. R!SeekTo(R!Position(pos) + R!Size(R!Tok(pos)) - Len(b) + Len(b)) = pos + 1
  <2>1. Len(out) \in Nat /\ pos + 1 \in 1 .. Len(out) + 1 /\ pos \in Nat \ {0}
    BY <1>1, TokIs
  <2>2. R!Position(pos) \in Nat /\ R!Size(R!Tok(pos)) \in Nat /\ Len(b) \in Nat
    BY <1>1, <2>1, PositionsGrow, SizePositive, BlobsAssumption DEF BlobsAssumption
  <2>3. \A x, y, z \in Nat : x + y - z + z = x + y
    OBVIOUS
  <2>4. R!Position(pos) + R!Size(R!Tok(pos)) - Len(b) + Len(b) = R!Position(pos + 1)
    BY <2>1, <2>2, <2>3, PositionStep
  <2>5. QED BY <2>1, <2>4, SeekToPosition
<1>5. QED BY <1>1, <1>2, <1>3, <1>4

LEMMA BlobOutcome ==
  ASSUME TypeOK, pos \in 1 .. Len(out) + 1, R!visit_blob
  PROVE  \E b \in Blobs :
           /\ pos \in 1 .. Len(out)
           /\ out[pos] = [tag |-> "BinaryBlob", hex |-> HexStr(b), declared |-> Len(b), raw |-> b]
           /\ R!GiveTo([visit |-> "bytes", bytes |-> b], pos + 1)
           /\ UNCHANGED R!Strings4
<1>1. R!Tag = "BinaryBlob"
  BY DEF R!visit_blob
<1>2. PICK b \in Blobs :
        /\ pos \in 1 .. Len(out)
        /\ out[pos] = [tag |-> "BinaryBlob", hex |-> HexStr(b), declared |-> Len(b), raw |-> b]
        /\ R!Tok(pos) = out[pos]
        /\ R!decode_hex_bytes(HexStr(b)) = R!Decoded(b)
        /\ R!SeekTo(R!Position(pos) + R!Size(R!Tok(pos)) - Len(b) + Len(b)) = pos + 1
  BY <1>1, BlobHere
<1>3. R!GiveTo([visit |-> "bytes", bytes |-> b], pos + 1) /\ UNCHANGED R!Strings4
  <2>1. /\ R!Tok(pos).hex = HexStr(b) /\ R!Tok(pos).raw = b /\ R!Tok(pos).declared = Len(b)
    BY <1>2
  <2>2. R!GiveBlob(HexStr(b), pos + 1) /\ UNCHANGED R!Strings4
    BY <1>2, <2>1 DEF R!visit_blob
  <2>3. QED BY <1>2, <2>2 DEF R!GiveBlob, R!Decoded
<1>4. QED BY <1>2, <1>3

LEMMA BlobSkips ==
  ASSUME TypeOK, pos \in 1 .. Len(out) + 1, R!visit_blob
  PROVE  Stays \/ Skips
<1>1. R!Tag = "BinaryBlob"
  BY DEF R!visit_blob
<1>3. PICK b \in Blobs : R!GiveTo([visit |-> "bytes", bytes |-> b], pos + 1) /\ UNCHANGED R!Strings4
  BY BlobOutcome
<1>5. R!Give([visit |-> "bytes", bytes |-> b], 1)
  BY <1>3 DEF R!Give
<1>6. UNCHANGED <<latin1_strings, utf8_strings>>
  BY <1>3 DEF R!Strings4, R!Strings2
<1>7. R!Tag \notin DefinitionTags \cup {"(eof)"}
  BY <1>1 DEF DefinitionTags
<1>8. QED BY <1>5, <1>6, <1>7, GiveOne

LEMMA FailStays == ASSUME NEW e, R!Fail(e) PROVE Stays
BY DEF R!Fail, R!Stop, R!Strings4, R!Strings2, Stays

LEMMA DefinitionDefines ==
  ASSUME TypeOK, pos \in 1 .. Len(out) + 1, R!visit_definition
  PROVE  Defines
<1>1. R!Tag \in DefinitionTags
  BY DEF R!visit_definition, DefinitionTags
<1>2. /\ R!Tag \notin {"(eof)", "BooleanFalse", "BooleanTrue", "StringAsterisk", "(unknown)"}
  BY <1>1 DEF DefinitionTags
<1>3. pos \in 1 .. Len(out) /\ R!Tok(pos) = out[pos] /\ out[pos].tag = R!Tag
  BY <1>2, TagHere
<1>4. pos' = pos + 1
  BY DEF R!visit_definition, R!Give, R!GiveTo, R!MakesKey, R!Text
<1>5. \/ /\ R!Tag = "StringLatin1Definition"
         /\ latin1_strings' = Append(latin1_strings, out[pos].str) /\ UNCHANGED utf8_strings
      \/ /\ R!Tag = "StringUtf8Definition"
         /\ utf8_strings' = Append(utf8_strings, out[pos].str) /\ UNCHANGED latin1_strings
  BY <1>1, <1>3 DEF R!visit_definition, DefinitionTags
<1>6. QED BY <1>3, <1>4, <1>5 DEF Defines

LEMMA SeqOutcome ==
  ASSUME R!enter_seq
  PROVE  \/ Refused
         \/ /\ ~R!KeyIsDue /\ R!Tok(pos + 1).tag = "ArrayCapacity" /\ pos' = pos + 2
            /\ frames' = Append(R!Counted, [kind |-> "seq", left |-> R!Tok(pos + 1).cap, table |-> <<>>])
            /\ seen' = Append(seen, [visit |-> "seq"])
            /\ UNCHANGED <<phase, latin1_strings, utf8_strings>>
<1>1. CASE R!KeyIsDue
  <2>1. R!Fail("InvalidType")
    BY <1>1, Zenon DEF R!enter_seq
  <2>2. QED BY <2>1, FailRefuses
<1>2. CASE ~R!KeyIsDue /\ R!Tok(pos + 1).tag # "ArrayCapacity"
  <2>1. R!Fail(IF R!Tok(pos + 1).tag \in {"(eof)", "(torn)"} THEN "Io" ELSE "ArrayCapacityTagMismatch")
    BY <1>2, Zenon DEF R!enter_seq
  <2>2. QED BY <2>1, FailRefuses
<1>3. CASE ~R!KeyIsDue /\ R!Tok(pos + 1).tag = "ArrayCapacity"
  BY <1>3 DEF R!enter_seq, R!Strings4, R!Strings2
<1>4. QED BY <1>1, <1>2, <1>3

LEMMA SeqSkips ==
  ASSUME TypeOK, pos \in 1 .. Len(out) + 1, R!enter_seq
  PROVE  Stays \/ Skips
<1>1. R!Tag = "ArrayBegin"
  BY DEF R!enter_seq
<1>2. pos \in 1 .. Len(out) /\ out[pos].tag = "ArrayBegin" /\ Len(out) \in Nat
  BY <1>1, TagHere, TokIs
<1>3. \/ Refused
      \/ R!Tok(pos + 1).tag = "ArrayCapacity" /\ pos' = pos + 2 /\ UNCHANGED <<latin1_strings, utf8_strings>>
  BY SeqOutcome
<1>4. CASE R!Tok(pos + 1).tag = "ArrayCapacity" /\ pos' = pos + 2 /\ UNCHANGED <<latin1_strings, utf8_strings>>
  <2>1. R!Tok(pos + 1) # [tag |-> "(eof)"]
    BY <1>4
  <2>2. pos + 1 \in 1 .. Len(out) /\ out[pos + 1].tag = "ArrayCapacity"
    BY <1>2, <1>4, <2>1, TokIs
  <2>3. \A i \in pos .. pos' - 1 : i = pos \/ i = pos + 1
    BY <1>2, <1>4
  <2>4. \A i \in pos .. pos' - 1 : out[i].tag \notin DefinitionTags
    BY <1>2, <2>2, <2>3 DEF DefinitionTags
  <2>5. QED BY <1>2, <1>4, <2>2, <2>4 DEF Skips
<1>5. QED BY <1>3, <1>4 DEF Refused, Stays

LEMMA HeaderOutcome ==
  ASSUME R!validate_header
  PROVE  \/ Refused
         \/ /\ R!Tok(1).tag = "(header)" /\ pos' = 2 /\ phase' = "root"
            /\ UNCHANGED <<latin1_strings, utf8_strings, frames, seen>>
<1>1. CASE R!Tok(1).tag # "(header)"
  <2>1. R!Fail(IF R!Tok(1).tag \in {"(eof)", "(torn)"} THEN "Io" ELSE "InvalidHeader")
    BY <1>1 DEF R!validate_header
  <2>2. QED BY <2>1, FailRefuses
<1>2. CASE R!Tok(1).tag = "(header)" /\ R!Tok(1).version = "other"
  <2>1. R!Fail("Version")
    BY <1>2 DEF R!validate_header
  <2>2. QED BY <2>1, FailRefuses
<1>3. CASE R!Tok(1).tag = "(header)" /\ R!Tok(1).version = "compact" /\ R!Tok(2).tag # "CompactObjectBegin"
  <2>1. R!Fail(IF R!Tok(2) = R!Eof THEN "Io" ELSE "CompactRoot")
    BY <1>3 DEF R!validate_header
  <2>2. QED BY <2>1, FailRefuses
<1>4. CASE /\ R!Tok(1).tag = "(header)" /\ R!Tok(1).version # "other"
           /\ ~(R!Tok(1).version = "compact" /\ R!Tok(2).tag # "CompactObjectBegin")
  BY <1>4 DEF R!validate_header, R!Strings4, R!Strings2
<1>5. QED BY <1>1, <1>2, <1>3, <1>4

LEMMA HeaderSkips ==
  ASSUME TypeOK, pos = 1, R!validate_header
  PROVE  Stays \/ Skips
<1>1. CASE Refused
  BY <1>1 DEF Refused, Stays
<1>2. CASE R!Tok(1).tag = "(header)" /\ pos' = 2 /\ UNCHANGED <<latin1_strings, utf8_strings>>
  <2>1. R!Tok(1) # [tag |-> "(eof)"]
    BY <1>2
  <2>2. 1 \in 1 .. Len(out) /\ out[1].tag = "(header)" /\ Len(out) \in Nat
    BY <1>2, <2>1, TokIs
  <2>3. QED BY <1>2, <2>2 DEF Skips, DefinitionTags
<1>3. QED BY <1>1, <1>2, HeaderOutcome

LEMMA NoCompactStep ==
  ASSUME TypeOK, pos \in 1 .. Len(out) + 1
  PROVE  ~(\/ R!visit_compact_definition \/ R!visit_compact_reference \/ R!visit_compact_rtid
           \/ R!visit_compact_blob \/ R!enter_compact_seq)
<1>1. ASSUME \/ R!visit_compact_definition \/ R!visit_compact_reference \/ R!visit_compact_rtid
             \/ R!visit_compact_blob \/ R!enter_compact_seq
      PROVE  R!Tag \in R!Latin1Defs \cup R!Utf32Defs \cup R!CompactRefs
                       \cup {"CompactArrayBegin", "CompactRtid", "CompactBinaryBlob"}
  BY <1>1 DEF R!visit_compact_definition, R!visit_compact_reference, R!visit_compact_rtid,
         R!visit_compact_blob, R!enter_compact_seq, R!CompactDefs
<1>2. QED BY <1>1, TagHere

(* Every step of the reader is one of the three.                           *)
LEMMA ReaderStep ==
  ASSUME TypeOK, pos \in 1 .. Len(out) + 1, phase = "header" => pos = 1, R!DNext
  PROVE  Stays \/ Skips \/ Defines
<1> USE DEF R!Strings4, R!Strings2
<1>1. CASE R!validate_header
  BY <1>1, HeaderSkips DEF R!validate_header
<1>2. CASE R!enter_root
  <2>1. R!Tag = "(eof)" \/ (R!Tag # "(eof)" /\ R!Tag \notin DefinitionTags /\ pos' \in {pos, pos + 1}) \/ pos' = pos
    BY <1>2 DEF R!enter_root, DefinitionTags
  <2>2. R!Tag = "(eof)" => R!Fail("Io")
    BY <1>2 DEF R!enter_root
  <2>3. R!Tag # "(eof)" => UNCHANGED <<latin1_strings, utf8_strings>>
    BY <1>2 DEF R!enter_root
  <2>4. QED BY <2>1, <2>2, <2>3, FailStays, PassOne DEF Stays
<1>3. CASE R!end_of_map \/ R!end_of_seq \/ R!end_of_compact_seq
  <2>1. UNCHANGED <<latin1_strings, utf8_strings>>
    BY <1>3 DEF R!end_of_map, R!end_of_seq, R!end_of_compact_seq, R!Leave
  <2>2. pos' = pos \/ (pos' = pos + 1 /\ R!Tag # "(eof)" /\ R!Tag \notin DefinitionTags)
    BY <1>3 DEF R!end_of_map, R!end_of_seq, R!end_of_compact_seq, R!Leave, DefinitionTags
  <2>3. QED BY <2>1, <2>2, PassOne DEF Stays
<1>4. CASE R!capacity_exceeded \/ R!misplaced \/ R!refuse
  BY <1>4, FailStays DEF R!capacity_exceeded, R!misplaced, R!refuse
<1>5. CASE R!visit_scalar
  <2>1. R!Tag \in {"BooleanFalse", "BooleanTrue", "F32Zero", "F64Zero", "StringAsterisk", "RtidNull"}
    BY <1>5 DEF R!visit_scalar, R!Scalars
  <2>2. R!Tag # "(eof)" /\ R!Tag \notin DefinitionTags
    BY <2>1 DEF DefinitionTags
  <2>3. QED BY <1>5, <2>2, GiveOne DEF R!visit_scalar
<1>6. CASE R!visit_float \/ R!visit_direct
  <2>1. R!Tag # "(eof)" /\ R!Tag \notin DefinitionTags
    BY <1>6 DEF R!visit_float, R!visit_direct, DefinitionTags
  <2>2. QED BY <1>6, <2>1, GiveOne DEF R!visit_float, R!visit_direct
<1>7. CASE R!visit_int
  <2>1. R!Tag # "(eof)" /\ R!Tag \notin DefinitionTags
    BY <1>7 DEF R!visit_int, R!IntTags, DefinitionTags
  <2>2. QED BY <1>7, <2>1, GiveOne DEF R!visit_int
<1>8. CASE R!visit_definition
  BY <1>8, DefinitionDefines
<1>9. CASE R!visit_reference
  <2>1. R!Tag # "(eof)" /\ R!Tag \notin DefinitionTags
    BY <1>9 DEF R!visit_reference, DefinitionTags
  <2>2. R!Fail("RefIndexOutOfBounds") \/ \E v : R!Give(v, 1) /\ UNCHANGED R!Strings4
    BY <1>9 DEF R!visit_reference
  <2>3. QED BY <2>1, <2>2, FailStays, GiveOne
<1>10. CASE R!visit_blob \/ R!visit_rtid \/ R!enter_seq
  BY <1>10, BlobSkips, RtidSkips, SeqSkips
<1>11. CASE R!visit_none
  <2>1. R!Tag # "(eof)" /\ R!Tag \notin DefinitionTags
    BY <1>11 DEF R!visit_none, DefinitionTags
  <2>2. QED BY <1>11, <2>1, GiveOne DEF R!visit_none
<1>12. CASE R!visit_compact_bool
  <2>1. R!Tag # "(eof)" /\ R!Tag \notin DefinitionTags
    BY <1>12 DEF R!visit_compact_bool, DefinitionTags
  <2>2. QED BY <1>12, <2>1, GiveOne DEF R!visit_compact_bool
<1>13. CASE R!enter_map
  <2>1. R!Tag # "(eof)" /\ R!Tag \notin DefinitionTags
    BY <1>13 DEF R!enter_map, DefinitionTags
  <2>2. \/ R!Fail("InvalidType")
        \/ pos' = pos + 1 /\ UNCHANGED R!Strings4
    <3>1. CASE R!KeyIsDue
      BY <1>13, <3>1 DEF R!enter_map
    <3>2. CASE ~R!KeyIsDue
      BY <1>13, <3>2, Zenon DEF R!enter_map
    <3>3. QED BY <3>1, <3>2
  <2>3. QED BY <2>1, <2>2, FailStays, PassOne
<1>14. CASE R!validate_footer
  <2>1. \/ R!Fail("InvalidFooter")
        \/ R!Tag = "(footer)" /\ pos' = pos + 1 /\ UNCHANGED R!Strings4
    <3>1. CASE R!Tag = "(footer)"
      BY <1>14, <3>1, Zenon DEF R!validate_footer
    <3>2. CASE R!Tag # "(footer)"
      BY <1>14, <3>2 DEF R!validate_footer
    <3>3. QED BY <3>1, <3>2
  <2>2. R!Tag = "(footer)" => R!Tag # "(eof)" /\ R!Tag \notin DefinitionTags
    BY DEF DefinitionTags
  <2>3. QED BY <2>1, <2>2, FailStays, PassOne
<1>15. QED
  BY <1>1, <1>2, <1>3, <1>4, <1>5, <1>6, <1>7, <1>8, <1>9, <1>10, <1>11, <1>12, <1>13, <1>14, NoCompactStep DEF R!DNext
-----------------------------------------------------------------------------
(* Ranks from one position to another.                                     *)
LEMMA RankProps ==
  ASSUME TypeOK, NEW tag
  PROVE  /\ Rank(tag, 1) = 0
         /\ \A p \in 1 .. Len(out) + 1 : Rank(tag, p) \in Nat
         /\ \A p \in 1 .. Len(out) :
              Rank(tag, p + 1) = IF out[p].tag = tag THEN Rank(tag, p) + 1 ELSE Rank(tag, p)
         /\ \A p, q \in 1 .. Len(out) + 1 : p <= q => Rank(tag, p) <= Rank(tag, q)
         /\ \A p, q \in 1 .. Len(out) + 1 :
              p <= q /\ (\A i \in p .. q - 1 : out[i].tag # tag) => Rank(tag, p) = Rank(tag, q)
<1> DEFINE At(p) == {j \in 1 .. p - 1 : out[j].tag = tag}
<1>0. Len(out) \in Nat
  BY TokIs
<1>1. Rank(tag, 1) = 0
  <2>1. {j \in 1 .. 1 - 1 : out[j].tag = tag} = {}
    OBVIOUS
  <2>2. QED BY <2>1, FS_EmptySet DEF Rank
<1>2. ASSUME NEW p \in 1 .. Len(out) + 1 PROVE IsFiniteSet(At(p)) /\ Rank(tag, p) = Cardinality(At(p))
  <2>1. IsFiniteSet(1 .. p - 1)
    BY <1>0, FS_Interval
  <2>2. QED BY <2>1, FS_Subset DEF Rank
<1>3. ASSUME NEW p \in 1 .. Len(out) + 1 PROVE Rank(tag, p) \in Nat
  BY <1>2, FS_CardinalityType
<1>4. ASSUME NEW p \in 1 .. Len(out)
      PROVE  Rank(tag, p + 1) = IF out[p].tag = tag THEN Rank(tag, p) + 1 ELSE Rank(tag, p)
  <2>0. p \in 1 .. Len(out) + 1 /\ p + 1 \in 1 .. Len(out) + 1
    BY <1>0
  <2>1. CASE out[p].tag = tag
    <3>1. At(p + 1) = At(p) \cup {p} /\ p \notin At(p)
      BY <1>0, <2>1
    <3> HIDE DEF At
    <3>2. Cardinality(At(p + 1)) = Cardinality(At(p)) + 1
      BY <1>2, <2>0, <3>1, FS_AddElement
    <3>3. QED BY <1>2, <2>0, <2>1, <3>2
  <2>2. CASE out[p].tag # tag
    <3>1. At(p + 1) = At(p)
      BY <1>0, <2>2
    <3>2. QED BY <1>2, <2>0, <2>2, <3>1
  <2>3. QED BY <2>1, <2>2
<1>5. ASSUME NEW p \in 1 .. Len(out) + 1, NEW q \in 1 .. Len(out) + 1, p <= q
      PROVE  Rank(tag, p) <= Rank(tag, q)
  <2>1. At(p) \subseteq At(q)
    BY <1>0, <1>5
  <2> HIDE DEF At
  <2>2. Cardinality(At(p)) <= Cardinality(At(q))
    BY <1>2, <2>1, FS_Subset
  <2>3. QED BY <1>2, <2>2
<1>6. ASSUME NEW p \in 1 .. Len(out) + 1, NEW q \in 1 .. Len(out) + 1, p <= q,
             \A i \in p .. q - 1 : out[i].tag # tag
      PROVE  Rank(tag, p) = Rank(tag, q)
  <2>1. At(p) = At(q)
    BY <1>0, <1>6
  <2>2. QED BY <1>2, <2>1
<1>7. QED BY <1>1, <1>3, <1>4, <1>5, <1>6

LEMMA TableSkip ==
  ASSUME TypeOK, NEW tag, NEW strings, NEW p \in 1 .. Len(out) + 1, ReadsTable(tag, strings, p),
         NEW q \in p .. Len(out) + 1, \A i \in p .. q - 1 : out[i].tag # tag
  PROVE  ReadsTable(tag, strings, q)
<1>1. Len(out) \in Nat /\ p \in 1 .. Len(out) + 1 /\ q \in 1 .. Len(out) + 1 /\ p <= q
  BY TokIs
<1>2. Rank(tag, p) = Rank(tag, q)
  BY <1>1, RankProps
<1>3. \A j \in 1 .. q - 1 : out[j].tag = tag => j \in 1 .. p - 1
  BY <1>1
<1>4. QED BY <1>2, <1>3 DEF ReadsTable

LEMMA TableGrow ==
  ASSUME TypeOK, NEW tag, NEW strings, NEW p \in 1 .. Len(out), ReadsTable(tag, strings, p),
         out[p].tag = tag, out[p].str \in Strings
  PROVE  ReadsTable(tag, Append(strings, out[p].str), p + 1)
<1>1. Len(out) \in Nat /\ p \in 1 .. Len(out) + 1
  BY TokIs
<1>2. Rank(tag, p + 1) = Rank(tag, p) + 1 /\ Rank(tag, p) \in Nat
  BY <1>1, RankProps
<1>3. strings \in Seq(Strings) /\ Len(strings) = Rank(tag, p)
  BY DEF ReadsTable
<1>4. /\ Append(strings, out[p].str) \in Seq(Strings)
      /\ Len(Append(strings, out[p].str)) = Rank(tag, p + 1)
  BY <1>2, <1>3
<1>5. ASSUME NEW j \in 1 .. (p + 1) - 1, out[j].tag = tag
      PROVE  Append(strings, out[p].str)[Rank(tag, j) + 1] = out[j].str
  <2>1. CASE j = p
    BY <1>2, <1>3, <2>1
  <2>2. CASE j \in 1 .. p - 1
    <3>1. j \in 1 .. Len(out) /\ j + 1 <= p /\ j + 1 \in 1 .. Len(out) + 1 /\ j \in 1 .. Len(out) + 1
      BY <1>1, <2>2
    <3>2. Rank(tag, j + 1) = Rank(tag, j) + 1 /\ Rank(tag, j + 1) <= Rank(tag, p) /\ Rank(tag, j) \in Nat
      BY <1>1, <1>5, <3>1, RankProps
    <3>3. Rank(tag, j) + 1 \in 1 .. Len(strings)
      BY <1>2, <1>3, <3>2
    <3>4. strings[Rank(tag, j) + 1] = out[j].str
      BY <1>5, <2>2 DEF ReadsTable
    <3>5. QED BY <1>3, <3>3, <3>4
  <2>3. j = p \/ j \in 1 .. p - 1
    BY <1>1
  <2>4. QED BY <2>1, <2>2, <2>3
<1>6. QED BY <1>4, <1>5 DEF ReadsTable

LEMMA LeavesHeader ==
  ASSUME TypeOK, pos \in 1 .. Len(out) + 1, R!DNext
  PROVE  phase' # "header"
<1> USE DEF R!Stop
<1>1. ASSUME R!Due PROVE phase = "body"
  BY <1>1 DEF R!Due, R!InStandardSeq, R!InCompactSeq, R!InSeq, R!KeyIsDue, R!InMap
<1>2. CASE R!validate_header
  BY <1>2, HeaderOutcome DEF Refused
<1>3. CASE R!enter_root
  BY <1>3 DEF R!enter_root, R!Fail
<1>4. CASE R!end_of_map \/ R!end_of_seq \/ R!end_of_compact_seq
  BY <1>4 DEF R!end_of_map, R!end_of_seq, R!end_of_compact_seq, R!Leave
<1>5. CASE R!capacity_exceeded \/ R!misplaced \/ R!refuse
  BY <1>5, FailRefuses DEF R!capacity_exceeded, R!misplaced, R!refuse, Refused
<1>6. CASE R!validate_footer
  BY <1>6 DEF R!validate_footer, R!Fail
<1>7. ASSUME R!Due, phase' = phase \/ phase' \in {"err", "panic"} PROVE phase' # "header"
  BY <1>1, <1>7
<1>8. ASSUME NEW v, NEW n, R!GiveTo(v, n) PROVE phase' = phase \/ phase' \in {"err", "panic"}
  BY <1>8 DEF R!GiveTo
<1>9. CASE \/ R!visit_scalar \/ R!visit_float \/ R!visit_int \/ R!visit_direct \/ R!visit_definition
           \/ R!visit_none \/ R!visit_compact_bool
  <2>1. R!Due /\ \E v, n : R!GiveTo(v, n)
    BY <1>9, Zenon DEF R!visit_scalar, R!visit_float, R!visit_int, R!visit_direct, R!visit_definition,
                      R!visit_none, R!visit_compact_bool, R!Give
  <2>2. QED BY <1>7, <1>8, <2>1
<1>10. CASE R!visit_reference
  <2>1. R!Due /\ (R!Fail("RefIndexOutOfBounds") \/ \E v, n : R!GiveTo(v, n))
    BY <1>10 DEF R!visit_reference, R!Give
  <2>2. QED BY <1>7, <1>8, <2>1, FailRefuses DEF Refused
<1>11. CASE R!enter_seq
  <2>1. R!Due
    BY <1>11 DEF R!enter_seq
  <2>2. Refused \/ phase' = phase
    BY <1>11, SeqOutcome
  <2>3. QED BY <1>7, <2>1, <2>2 DEF Refused
<1>12. CASE R!enter_map
  <2>1. R!Due /\ (R!Fail("InvalidType") \/ phase' = phase)
    <3>1. CASE R!KeyIsDue
      BY <1>12, <3>1 DEF R!enter_map
    <3>2. CASE ~R!KeyIsDue
      BY <1>12, <3>2 DEF R!enter_map
    <3>3. QED BY <3>1, <3>2
  <2>2. QED BY <1>7, <2>1, FailRefuses DEF Refused
<1>13. CASE R!visit_blob
  <2>1. PICK b \in Blobs : R!GiveTo([visit |-> "bytes", bytes |-> b], pos + 1)
    BY <1>13, BlobOutcome
  <2>2. R!Due
    BY <1>13 DEF R!visit_blob
  <2>3. QED BY <1>7, <1>8, <2>1, <2>2
<1>14. CASE R!visit_rtid
  <2>1. R!Due
    BY <1>14 DEF R!visit_rtid
  <2>2. Refused \/ \E v, n : R!GiveTo(v, n)
    BY <1>14, RtidOutcome DEF R!Give, RtidTaken
  <2>3. QED BY <1>7, <1>8, <2>1, <2>2 DEF Refused
<1>15. QED
  BY <1>2, <1>3, <1>4, <1>5, <1>6, <1>9, <1>10, <1>11, <1>12, <1>13, <1>14, NoCompactStep DEF R!DNext

(* Reading keeps the tables in step.                                       *)
LEMMA ReadTables ==
  ASSUME TypeOK, ReaderInv, Read
  PROVE  ReaderInv'
<1>1. /\ out' = out /\ result' = result /\ R!DNext /\ result \in {"ok", "err"}
      /\ pos \in 1 .. Len(out) + 1 /\ Len(out) \in Nat
  BY TokIs DEF Read, svars, ReaderInv
<1>2. Stays \/ Skips \/ Defines
  BY <1>1, ReaderStep DEF ReaderInv
<1>3. PICK q : q = pos'
  OBVIOUS
<1>4. PICK latin1 : latin1 = latin1_strings'
  OBVIOUS
<1>5. PICK utf8 : utf8 = utf8_strings'
  OBVIOUS
<1>6. /\ ReadsTable("StringLatin1Definition", latin1_strings, pos)
      /\ ReadsTable("StringUtf8Definition", utf8_strings, pos)
  BY DEF ReaderInv
<1>7. phase' # "header"
  BY <1>1, LeavesHeader
<1>8. SUFFICES /\ q \in 1 .. Len(out) + 1
               /\ ReadsTable("StringLatin1Definition", latin1, q)
               /\ ReadsTable("StringUtf8Definition", utf8, q)
  <2>1. /\ pos' \in 1 .. Len(out') + 1
        /\ ReadsTable("StringLatin1Definition", latin1_strings, pos)'
        /\ ReadsTable("StringUtf8Definition", utf8_strings, pos)'
    BY <1>1, <1>3, <1>4, <1>5, Zenon DEF ReadsTable, Rank
  <2>2. QED BY <1>1, <1>7, <2>1 DEF ReaderInv
<1>10. CASE Stays
  <2>1. q = pos /\ latin1 = latin1_strings /\ utf8 = utf8_strings
    BY <1>3, <1>4, <1>5, <1>10 DEF Stays
  <2>2. /\ q \in 1 .. Len(out) + 1
        /\ ReadsTable("StringLatin1Definition", latin1, q) /\ ReadsTable("StringUtf8Definition", utf8, q)
    BY <1>1, <1>6, <2>1
  <2>3. QED BY <2>2
<1>11. CASE Skips
  <2>1. /\ q \in pos .. Len(out) + 1 /\ \A i \in pos .. q - 1 : out[i].tag \notin DefinitionTags
        /\ latin1 = latin1_strings /\ utf8 = utf8_strings
    BY <1>3, <1>4, <1>5, <1>11 DEF Skips
  <2>2. /\ \A i \in pos .. q - 1 : out[i].tag # "StringLatin1Definition"
        /\ \A i \in pos .. q - 1 : out[i].tag # "StringUtf8Definition"
    BY <2>1 DEF DefinitionTags
  <2>3. /\ ReadsTable("StringLatin1Definition", latin1, q) /\ ReadsTable("StringUtf8Definition", utf8, q)
    BY <1>1, <1>6, <2>1, <2>2, TableSkip
  <2>4. q \in 1 .. Len(out) + 1
    BY <1>1, <2>1
  <2>5. QED BY <2>3, <2>4
<1>12. CASE Defines
  <2>1. /\ pos \in 1 .. Len(out) /\ q = pos + 1
        /\ \/ /\ out[pos].tag = "StringLatin1Definition"
              /\ latin1 = Append(latin1_strings, out[pos].str) /\ utf8 = utf8_strings
           \/ /\ out[pos].tag = "StringUtf8Definition"
              /\ utf8 = Append(utf8_strings, out[pos].str) /\ latin1 = latin1_strings
    BY <1>3, <1>4, <1>5, <1>12 DEF Defines
  <2>2. out[pos].str \in Strings
    <3>1. \A t \in Token : t.tag \in DefinitionTags => t.str \in Strings
      BY DEF Token, IntTags, DefinitionTags, DirectTags, ReferenceTags
    <3>2. out[pos] \in Token /\ out[pos].tag \in DefinitionTags
      BY <2>1, TokIs DEF DefinitionTags
    <3>3. QED BY <3>1, <3>2
  <2>3. q \in pos .. Len(out) + 1 /\ q \in 1 .. Len(out) + 1 /\ \A i \in pos .. q - 1 : i = pos
    BY <1>1, <2>1
  <2>4. CASE out[pos].tag = "StringLatin1Definition"
    <3>1. ReadsTable("StringLatin1Definition", latin1, q)
      BY <1>6, <2>1, <2>2, <2>4, TableGrow
    <3>2. \A i \in pos .. q - 1 : out[i].tag # "StringUtf8Definition"
      BY <2>3, <2>4
    <3>3. ReadsTable("StringUtf8Definition", utf8, q)
      BY <1>1, <1>6, <2>1, <2>3, <2>4, <3>2, TableSkip
    <3>4. QED BY <2>3, <3>1, <3>3
  <2>5. CASE out[pos].tag = "StringUtf8Definition"
    <3>1. ReadsTable("StringUtf8Definition", utf8, q)
      BY <1>6, <2>1, <2>2, <2>5, TableGrow
    <3>2. \A i \in pos .. q - 1 : out[i].tag # "StringLatin1Definition"
      BY <2>3, <2>5
    <3>3. ReadsTable("StringLatin1Definition", latin1, q)
      BY <1>1, <1>6, <2>1, <2>3, <2>5, <3>2, TableSkip
    <3>4. QED BY <2>3, <3>1, <3>3
  <2>6. QED BY <2>1, <2>4, <2>5
<1>13. QED BY <1>2, <1>10, <1>11, <1>12

(* Writing: the reader has not begun.                                      *)
LEMMA NextIsLive == Next => result \in {"new", "run"}
BY DEF Next, write_header, write_footer, serialize_bool, serialize_float, serialize_int, serialize_number,
       serialize_str, serialize_bytes, serialize_unit_variant, serialize_none, serialize_seq, serialize_map,
       serialize_tuple, end_seq, end_map, end_tuple, End, newtype_rtid, newtype_varint, newtype_direct,
       end_newtype, serialize_unsupported, write_fails, Plain, MayCall

LEMMA WriteTables ==
  ASSUME TypeOK', ReaderInv, Write
  PROVE  ReaderInv'
<1>1. pos = 1 /\ phase = "header" /\ UNCHANGED rvars
  BY NextIsLive DEF Write, ReaderInv
<1>2. pos' = 1 /\ phase' = "header" /\ latin1_strings' = latin1_strings /\ utf8_strings' = utf8_strings
  BY <1>1 DEF rvars
<1>3. \A tag : Rank(tag, 1) = 0 /\ Rank(tag, 1)' = 0
  <2>1. \A tag : {j \in 1 .. 1 - 1 : out[j].tag = tag} = {} /\ {j \in 1 .. 1 - 1 : out'[j].tag = tag} = {}
    OBVIOUS
  <2>2. QED BY <2>1, FS_EmptySet DEF Rank
<1>4. \A tag, strings : ReadsTable(tag, strings, 1) => ReadsTable(tag, strings, 1)'
  BY <1>3 DEF ReadsTable
<1>5. /\ ReadsTable("StringLatin1Definition", latin1_strings, 1)'
      /\ ReadsTable("StringUtf8Definition", utf8_strings, 1)'
  BY <1>1, <1>2, <1>4 DEF ReaderInv, ReadsTable
<1>6. Len(out') \in Nat
  BY DEF TypeOK
<1>7. QED BY <1>2, <1>5, <1>6 DEF ReaderInv, ReadsTable, Rank

LEMMA InitReaderInv == RTInit => IInv /\ ReaderInv
<1> SUFFICES ASSUME RTInit PROVE IInv /\ ReaderInv
  OBVIOUS
<1>1. IInv /\ out = <<>> /\ pos = 1 /\ phase = "header" /\ latin1_strings = <<>> /\ utf8_strings = <<>>
  BY InitIInv DEF RTInit, Init, R!DInit
<1>2. \A tag : Rank(tag, 1) = 0
  BY <1>1, RankProps DEF IInv
<1>3. ReadsTable("StringLatin1Definition", <<>>, 1) /\ ReadsTable("StringUtf8Definition", <<>>, 1)
  BY <1>2 DEF ReadsTable
<1>4. QED BY <1>1, <1>3 DEF ReaderInv

LEMMA NextReaderInv == IInv /\ ReaderInv /\ [RTNext]_vars => IInv' /\ ReaderInv'
<1> SUFFICES ASSUME IInv, ReaderInv, [RTNext]_vars PROVE IInv' /\ ReaderInv'
  OBVIOUS
<1>0. TypeOK
  BY DEF IInv
<1>1. CASE Write
  <2>1. IInv'
    BY <1>1, NextIInv DEF Write
  <2>2. TypeOK'
    BY <2>1 DEF IInv
  <2>3. QED BY <1>1, <2>1, <2>2, WriteTables
<1>2. CASE Read
  <2>1. IInv'
    BY <1>2, NextIInv DEF Read
  <2>2. QED BY <1>0, <1>2, <2>1, ReadTables
<1>3. CASE UNCHANGED vars
  <2>1. UNCHANGED svars /\ UNCHANGED rvars
    BY <1>3 DEF vars
  <2>2. IInv'
    BY <2>1, NextIInv
  <2>3. ReaderInv'
    BY <2>1 DEF ReaderInv, ReadsTable, Rank, svars, rvars
  <2>4. QED BY <2>2, <2>3
<1>4. QED BY <1>1, <1>2, <1>3 DEF RTNext

LEMMA OneTableAgrees ==
  ASSUME TypeOK, NEW tag, TableOK(tag), NEW strings, NEW p \in 1 .. Len(out) + 1, ReadsTable(tag, strings, p)
  PROVE  /\ Len(strings) <= Count(tag)
         /\ \A s \in DOMAIN Indices(tag) :
              Indices(tag)[s] < Len(strings) => strings[Indices(tag)[s] + 1] = s
<1>1. Len(out) \in Nat
  BY TokIs
<1>2. /\ \A a \in 1 .. Len(out) + 1 : Rank(tag, a) \in Nat
      /\ \A a, b \in 1 .. Len(out) + 1 : a <= b => Rank(tag, a) <= Rank(tag, b)
  BY RankProps
<1>3. Len(strings) <= Count(tag)
  <2>1. p <= Len(out) + 1 /\ Len(out) + 1 \in 1 .. Len(out) + 1
    BY <1>1
  <2>2. Rank(tag, p) <= Rank(tag, Len(out) + 1)
    BY <1>2, <2>1
  <2>3. QED BY <2>2 DEF ReadsTable, TableOK
<1>4. ASSUME NEW s \in DOMAIN Indices(tag), Indices(tag)[s] < Len(strings)
      PROVE  strings[Indices(tag)[s] + 1] = s
  <2>1. PICK j \in 1 .. Len(out) : out[j].tag = tag /\ out[j].str = s /\ Rank(tag, j) = Indices(tag)[s]
    BY DEF TableOK
  <2>2. j \in 1 .. Len(out) + 1 /\ Rank(tag, j) \in Nat /\ Rank(tag, p) \in Nat
    BY <1>1, <1>2
  <2>3. Rank(tag, j) < Rank(tag, p)
    BY <1>4, <2>1 DEF ReadsTable
  <2>4. ~(p <= j)
    BY <1>2, <2>2, <2>3
  <2>5. j \in 1 .. p - 1
    BY <1>1, <2>4
  <2>6. strings[Rank(tag, j) + 1] = out[j].str
    BY <2>1, <2>5 DEF ReadsTable
  <2>7. QED BY <2>1, <2>6
<1>5. QED BY <1>3, <1>4

LEMMA ReaderInvAgrees == IInv /\ ReaderInv => TablesAgree
<1> SUFFICES ASSUME IInv, ReaderInv PROVE TablesAgree
  OBVIOUS
<1>1. /\ TypeOK /\ pos \in 1 .. Len(out) + 1
      /\ TableOK("StringLatin1Definition") /\ TableOK("StringUtf8Definition")
      /\ ReadsTable("StringLatin1Definition", latin1_strings, pos)
      /\ ReadsTable("StringUtf8Definition", utf8_strings, pos)
  BY DEF IInv, TablesInv, DefinitionTags, ReaderInv
<1>2. /\ Indices("StringLatin1Definition") = latin1_indices /\ Count("StringLatin1Definition") = next_latin1
      /\ Indices("StringUtf8Definition") = utf8_indices /\ Count("StringUtf8Definition") = next_utf8
  BY DEF Indices, Count
<1>3. /\ Len(latin1_strings) <= next_latin1
      /\ \A s \in DOMAIN latin1_indices :
           latin1_indices[s] < Len(latin1_strings) => latin1_strings[latin1_indices[s] + 1] = s
  BY <1>1, <1>2, OneTableAgrees
<1>4. /\ Len(utf8_strings) <= next_utf8
      /\ \A s \in DOMAIN utf8_indices :
           utf8_indices[s] < Len(utf8_strings) => utf8_strings[utf8_indices[s] + 1] = s
  BY <1>1, <1>2, OneTableAgrees
<1>5. QED BY <1>3, <1>4 DEF TablesAgree

(* write_interned_string and the definition arms of deserialize_any: at    *)
(* every point of reading a file, finished or not, the reader has under    *)
(* each index it knows the text the writer has there - so a reference      *)
(* means the same to both, whatever lies between the definitions.          *)
THEOREM TablesInStep == RTSpec => []TablesAgree
<1>1. RTInit /\ [][RTNext]_vars => [](IInv /\ ReaderInv)
  BY InitReaderInv, NextReaderInv, PTL
<1>2. QED BY <1>1, ReaderInvAgrees, PTL DEF RTSpec
-----------------------------------------------------------------------------
(* What to_writer writes from_reader reads back: the two ends together are *)
(* a channel.                                                              *)

(* The reader knows the two special texts by the same characters.          *)
SameTexts == Asterisk = <<"*">> /\ RtidNullText = R!NullText

(* What has been read is what was written, entry by entry; in the body the *)
(* reader stands where an entry ends and has the frames that belong there. *)
Reading(at, sh, solid) ==
  /\ result \in {"new", "run"} => phase = "header"
  /\ phase \in {"header", "root", "body", "footer", "ok", "err"}
  /\ \E S : seen \in Seq(S)
  /\ Len(seen) <= Len(wrote) /\ \A i \in 1 .. Len(seen) : Normal(seen[i]) = Canon(wrote[i])
  /\ phase \in {"header", "root"} => seen = <<>>
  /\ phase = "root" => pos = 2
  /\ phase \notin {"header", "err"} => solid >= 1
  /\ phase \in {"body", "footer"} => /\ seen # <<>> /\ frames = sh[Len(seen)]
                                     /\ pos = at[Len(seen)] /\ pos <= solid + 1
                                     /\ phase = "footer" <=> frames = <<>>

(* One part taken: the reader has been given w and stands at p.            *)
Took(w, p) ==
  /\ \E v : seen' = Append(seen, v) /\ Normal(v) = Canon(w)
  /\ pos' = p /\ frames' = Shape(frames, w.is)
  /\ phase' = IF frames' = <<>> THEN "footer" ELSE "body"

(* The reader is in the body, where c may come next; the tokens of c lie   *)
(* in front of it whole, or break off after the first solid tokens.        *)
InBody(n, c) ==
  /\ TypeOK /\ pos \in 1 .. Len(out) + 1 /\ phase = "body" /\ frames \in Seq(RFrame) /\ frames # <<>>
  /\ n \in Nat /\ n > 1 /\ c \in Call /\ Legal(n, frames, c)
BrokenAt(n, c, solid) ==
  /\ InBody(n, c)
  /\ solid \in Nat /\ R!Tok(solid + 1).tag \in {"(eof)", "(torn)"}
  /\ pos <= solid + 1 /\ solid <= Len(out) /\ pos + Weight(n, c) > solid + 1
  /\ \A k \in 0 .. Weight(n, c) - 1 : pos + k <= solid => Encodes(c, out[pos + k], k)
AtPart(n, c) ==
  /\ InBody(n, c)
  /\ pos + Weight(n, c) <= Len(out) + 1
  /\ \A k \in 0 .. Weight(n, c) - 1 : Encodes(c, out[pos + k], k)
-----------------------------------------------------------------------------
(* The innermost frame of a reader of standard RTON.                       *)
LEMMA DueHere ==
  ASSUME phase = "body", frames \in Seq(RFrame), frames # <<>>
  PROVE  /\ Len(frames) \in Nat \ {0} /\ R!Here = frames[Len(frames)] /\ R!Here \in RFrame
         /\ R!Here.table = <<>> /\ R!Here.kind \in {"seq", "map"} /\ R!Here.left \in Nat
         /\ R!KeyIsDue <=> KeyDue(frames)
         /\ R!InMap <=> R!Here.kind = "map"
         /\ R!InStandardSeq <=> R!Here.kind = "seq"
         /\ ~R!InCompactSeq
         /\ R!Counted = Tick(frames)
<1>1. Len(frames) \in Nat \ {0} /\ R!Here = frames[Len(frames)]
  BY DEF R!Here
<1>2. R!Here \in RFrame
  BY <1>1
<1>3. R!Here.table = <<>> /\ R!Here.kind \in {"seq", "map"} /\ R!Here.left \in Nat
  BY <1>2 DEF RFrame
<1>4. /\ R!KeyIsDue <=> KeyDue(frames)
      /\ R!InMap <=> R!Here.kind = "map"
      /\ R!InStandardSeq <=> R!Here.kind = "seq"
      /\ ~R!InCompactSeq
  BY <1>1, <1>3 DEF R!KeyIsDue, R!InMap, R!InSeq, R!InStandardSeq, R!InCompactSeq, KeyDue
<1>5. R!Counted = Tick(frames)
  BY <1>4 DEF R!Counted, Tick
<1>6. QED BY <1>1, <1>2, <1>3, <1>4, <1>5

(* The tag decides what a step in the body is.                             *)
ScalarTags == {"BooleanFalse", "BooleanTrue", "F32Zero", "F64Zero", "StringAsterisk", "RtidNull"}

LEMMA BodyStep ==
  ASSUME TypeOK, pos \in 1 .. Len(out) + 1, phase = "body", frames \in Seq(RFrame), frames # <<>>, R!DNext
  PROVE  \/ R!end_of_map /\ R!Tag = "ObjectEnd"
         \/ R!end_of_seq /\ R!Tag = "ArrayEnd"
         \/ R!capacity_exceeded /\ R!Here.kind = "seq" /\ R!Here.left = 0 /\ R!Tag # "ArrayEnd"
         \/ R!Due /\ \/ R!visit_scalar /\ R!Tag \in ScalarTags
                     \/ R!visit_none /\ R!Tag = "RtidNull"
                     \/ R!visit_float /\ R!Tag \in {"F32", "F64"}
                     \/ R!visit_int /\ R!Tag \in R!IntTags
                     \/ R!visit_direct /\ R!Tag \in DirectTags
                     \/ R!visit_definition /\ R!Tag \in DefinitionTags
                     \/ R!visit_reference /\ R!Tag \in ReferenceTags
                     \/ R!visit_blob /\ R!Tag = "BinaryBlob"
                     \/ R!visit_rtid /\ R!Tag = "Rtid"
                     \/ R!enter_seq /\ R!Tag = "ArrayBegin"
                     \/ R!enter_map /\ R!Tag \in {"ObjectBegin", "CompactObjectBegin"}
                     \/ R!visit_compact_bool /\ R!Tag = "CompactBoolean"
                     \/ R!refuse /\ R!Tag \in R!NoValue
         \/ R!refuse /\ R!Tag \in {"(eof)", "(torn)"}
<1>1. ~R!validate_header /\ ~R!enter_root /\ ~R!validate_footer
  BY DEF R!validate_header, R!enter_root, R!validate_footer
<1>2. ~R!end_of_compact_seq /\ ~R!misplaced
  BY DueHere DEF R!end_of_compact_seq, R!misplaced
<1>3. ~(\/ R!visit_compact_definition \/ R!visit_compact_reference \/ R!visit_compact_rtid
        \/ R!visit_compact_blob \/ R!enter_compact_seq)
  BY NoCompactStep
<1>4. R!end_of_map => R!Tag = "ObjectEnd"
  BY DEF R!end_of_map
<1>5. R!end_of_seq => R!Tag = "ArrayEnd"
  BY DEF R!end_of_seq
<1>6. R!capacity_exceeded => R!Here.kind = "seq" /\ R!Here.left = 0 /\ R!Tag # "ArrayEnd"
  BY DueHere DEF R!capacity_exceeded
<1>7. R!visit_scalar => R!Due /\ R!Tag \in ScalarTags
  BY DEF R!visit_scalar, R!Scalars, ScalarTags
<1>8. R!visit_none => R!Due /\ R!Tag = "RtidNull"
  BY TagHere DEF R!visit_none
<1>9. R!visit_float => R!Due /\ R!Tag \in {"F32", "F64"}
  BY DEF R!visit_float
<1>10. R!visit_int => R!Due /\ R!Tag \in R!IntTags
  BY DEF R!visit_int
<1>11. R!visit_direct => R!Due /\ R!Tag \in DirectTags
  BY DEF R!visit_direct, DirectTags
<1>12. R!visit_definition => R!Due /\ R!Tag \in DefinitionTags
  BY DEF R!visit_definition, DefinitionTags
<1>13. R!visit_reference => R!Due /\ R!Tag \in ReferenceTags
  BY DEF R!visit_reference, ReferenceTags
<1>14. R!visit_blob => R!Due /\ R!Tag = "BinaryBlob"
  BY DEF R!visit_blob
<1>15. R!visit_rtid => R!Due /\ R!Tag = "Rtid"
  BY DEF R!visit_rtid
<1>16. R!enter_seq => R!Due /\ R!Tag = "ArrayBegin"
  BY DEF R!enter_seq
<1>17. R!enter_map => R!Due /\ R!Tag \in {"ObjectBegin", "CompactObjectBegin"}
  BY DEF R!enter_map
<1>18. R!visit_compact_bool => R!Due /\ R!Tag = "CompactBoolean"
  BY DEF R!visit_compact_bool
<1>19. R!refuse => R!Tag \in {"(eof)", "(torn)"} \/ (R!Due /\ R!Tag \in R!NoValue)
  BY DEF R!refuse
<1>20. QED
  BY <1>1, <1>2, <1>3, <1>4, <1>5, <1>6, <1>7, <1>8, <1>9, <1>10, <1>11, <1>12, <1>13, <1>14, <1>15, <1>16, <1>17,
     <1>18, <1>19 DEF R!DNext

LEMMA TagIs ==
  ASSUME TypeOK, pos \in 1 .. Len(out), out[pos].tag # "(byte)"
  PROVE  R!Tag = out[pos].tag /\ R!Tok(pos) = out[pos]
<1>1. R!Tok(pos) = out[pos]
  BY TokIs
<1>2. QED BY <1>1 DEF R!Tag, R!TagAt

(* A value given to a visitor that takes it.                               *)
LEMMA GivenIsTaken ==
  ASSUME phase = "body", frames \in Seq(RFrame), frames # <<>>,
         NEW w, w.is.call \in Told \ {"map", "seq", "end"},
         NEW v, Normal(v) = Canon(w), R!KeyIsDue => R!MakesKey(v), NEW p, R!GiveTo(v, p)
  PROVE  Took(w, p)
<1>1. /\ seen' = Append(seen, v) /\ pos' = p /\ frames' = Tick(frames) /\ phase' = "body"
  BY DueHere DEF R!GiveTo
<1>2. Tick(frames) # <<>>
  <2>1. Len(frames) \in Nat \ {0} /\ Len(Tick(frames)) = Len(frames)
    BY DueHere DEF Tick
  <2>2. QED BY <2>1
<1>3. Shape(frames, w.is) = Tick(frames)
  BY DEF Shape, Told
<1>4. QED BY <1>1, <1>2, <1>3 DEF Took

(* A part that lies there whole is visited: no container ends and none is  *)
(* full.                                                                   *)
Visit(tag) ==
  \/ R!visit_scalar /\ tag \in ScalarTags
  \/ R!visit_none /\ tag = "RtidNull"
  \/ R!visit_float /\ tag \in {"F32", "F64"}
  \/ R!visit_int /\ tag \in R!IntTags
  \/ R!visit_direct /\ tag \in DirectTags
  \/ R!visit_definition /\ tag \in DefinitionTags
  \/ R!visit_reference /\ tag \in ReferenceTags
  \/ R!visit_blob /\ tag = "BinaryBlob"
  \/ R!visit_rtid /\ tag = "Rtid"
  \/ R!enter_seq /\ tag = "ArrayBegin"
  \/ R!enter_map /\ tag \in {"ObjectBegin", "CompactObjectBegin"}
  \/ R!visit_compact_bool /\ tag = "CompactBoolean"

LEMMA PartVisited ==
  ASSUME NEW n, NEW c, InBody(n, c), c.call # "end", R!DNext, pos \in 1 .. Len(out),
         out[pos].tag \notin {"(byte)", "ObjectEnd", "ArrayEnd", "(torn)", "(eof)"} \cup R!NoValue
  PROVE  R!Tok(pos) = out[pos] /\ Visit(out[pos].tag)
<1>1. TypeOK /\ pos \in 1 .. Len(out) + 1 /\ phase = "body" /\ frames \in Seq(RFrame) /\ frames # <<>>
  BY DEF InBody
<1>2. R!Tag = out[pos].tag /\ R!Tok(pos) = out[pos]
  BY <1>1, TagIs
<1>3. ~(R!Here.kind = "seq" /\ R!Here.left = 0)
  <2>1. R!Here = frames[Len(frames)]
    BY <1>1, DueHere
  <2>2. frames[Len(frames)].kind = "seq" => frames[Len(frames)].left > 0
    BY DEF InBody, Legal
  <2>3. QED BY <2>1, <2>2
<1>4. R!Tag \notin {"ObjectEnd", "ArrayEnd", "(torn)", "(eof)"} /\ R!Tag \notin R!NoValue
  BY <1>2
<1>5. QED BY <1>1, <1>2, <1>3, <1>4, BodyStep DEF Visit

(* A key is due only for a text, and a text makes a key.                   *)
LEMMA KeyIsText ==
  ASSUME NEW n, NEW c, InBody(n, c)
  PROVE  /\ c.call \notin {"str", "end"} => ~R!KeyIsDue
         /\ \A s : R!MakesKey(R!Text(s))
<1>1. phase = "body" /\ frames \in Seq(RFrame) /\ frames # <<>>
  BY DEF InBody
<1>2. R!KeyIsDue <=> KeyDue(frames)
  BY <1>1, DueHere
<1>4. c.call \notin {"str", "end"} => ~KeyDue(frames)
  BY DEF InBody, Legal
<1>5. \A s : R!MakesKey(R!Text(s))
  BY DEF R!MakesKey, R!Text
<1>6. QED BY <1>2, <1>4, <1>5

(* Every part but the root has a token.                                    *)
LEMMA SomeToken ==
  ASSUME NEW n, NEW c, InBody(n, c)
  PROVE  Weight(n, c) \in Nat \ {0}
<1>1. Weight(n, c) \in Nat
  BY WeightTyped DEF InBody
<1>2. Weight(n, c) # 0
  <2>1. CASE c.call = "rtid"
    <3>1. c.rtid \in Rtids
      BY <2>1 DEF InBody, Call, BodyCall
    <3>2. QED BY <2>1, <3>1, BodyCalls DEF Weight
  <2>2. CASE c.call # "rtid"
    BY <2>2 DEF Weight, InBody
  <2>3. QED BY <2>1, <2>2
<1>3. QED BY <1>1, <1>2

LEMMA FirstToken ==
  ASSUME NEW n, NEW c, AtPart(n, c)
  PROVE  /\ pos \in 1 .. Len(out) /\ Encodes(c, out[pos], 0)
         /\ phase = "body" /\ frames \in Seq(RFrame) /\ frames # <<>> /\ TypeOK
<1>1. Weight(n, c) \in Nat \ {0}
  BY SomeToken DEF AtPart
<1>2. PICK d \in Nat : d = Weight(n, c)
  BY <1>1
<1>3. Len(out) \in Nat /\ pos \in 1 .. Len(out) + 1 /\ pos + d <= Len(out) + 1 /\ d # 0
  BY <1>1, <1>2, TokIs DEF AtPart, InBody
<1>4. pos \in 1 .. Len(out) /\ 0 \in 0 .. d - 1 /\ pos + 0 = pos
  BY <1>3
<1>5. Encodes(c, out[pos + 0], 0)
  BY <1>2, <1>4 DEF AtPart, InBody
<1>6. QED BY <1>4, <1>5 DEF AtPart, InBody

(* The calls that come to one token with a tag of their own.               *)
LEMMA VisitScalar ==
  ASSUME NEW n, NEW c, AtPart(n, c), R!DNext, out[pos].tag \in ScalarTags, c.call # "end"
  PROVE  /\ R!Tok(pos) = out[pos]
         /\ \/ R!GiveTo(R!Scalars[out[pos].tag], pos + 1)
            \/ out[pos].tag = "RtidNull" /\ ~R!KeyIsDue /\ R!GiveTo([visit |-> "none"], pos + 1)
<1>1. pos \in 1 .. Len(out) /\ TypeOK
  BY FirstToken
<1>2. R!Tok(pos) = out[pos] /\ Visit(out[pos].tag) /\ R!Tag = out[pos].tag
  <2>1. out[pos].tag \notin {"(byte)", "ObjectEnd", "ArrayEnd", "(torn)", "(eof)"} \cup R!NoValue
    BY DEF ScalarTags, R!NoValue
  <2>2. QED BY <1>1, <2>1, PartVisited, TagIs DEF AtPart
<1>3. \/ R!visit_scalar
      \/ R!visit_none /\ out[pos].tag = "RtidNull"
  BY <1>2 DEF Visit, ScalarTags, R!IntTags, DirectTags, DefinitionTags, ReferenceTags
<1>4. R!visit_scalar => R!GiveTo(R!Scalars[out[pos].tag], pos + 1)
  BY <1>2 DEF R!visit_scalar, R!Give
<1>5. R!visit_none => ~R!KeyIsDue /\ R!GiveTo([visit |-> "none"], pos + 1)
  BY DEF R!visit_none, R!Give
<1>6. QED BY <1>2, <1>3, <1>4, <1>5

LEMMA ReadBool ==
  ASSUME NEW n, NEW w, AtPart(n, w.is), w.is.call = "bool", R!DNext
  PROVE  Took(w, pos + 1)
<1>1. /\ out[pos] = [tag |-> IF w.is.bool THEN "BooleanTrue" ELSE "BooleanFalse"]
      /\ phase = "body" /\ frames \in Seq(RFrame) /\ frames # <<>>
  <2>1. /\ Encodes(w.is, out[pos], 0) /\ pos \in 1 .. Len(out) /\ TypeOK
        /\ phase = "body" /\ frames \in Seq(RFrame) /\ frames # <<>>
    BY FirstToken
  <2>2. QED BY <2>1 DEF Encodes
<1>2. w.is.bool \in BOOLEAN
  BY DEF AtPart, InBody, Call, BodyCall
<1>3. out[pos].tag \in {"BooleanTrue", "BooleanFalse"}
  BY <1>1
<1>4. R!GiveTo(R!Scalars[out[pos].tag], pos + 1) /\ ~R!KeyIsDue
  BY <1>3, VisitScalar, KeyIsText DEF ScalarTags, AtPart
<1>5. R!Scalars[out[pos].tag] = [visit |-> "bool", bool |-> w.is.bool]
  <2>1. out[pos].tag = IF w.is.bool THEN "BooleanTrue" ELSE "BooleanFalse"
    BY <1>1
  <2>2. CASE w.is.bool = TRUE
    <3>1. out[pos].tag = "BooleanTrue"
      BY <2>1, <2>2
    <3>2. R!Scalars["BooleanTrue"] = [visit |-> "bool", bool |-> TRUE]
      BY DEF R!Scalars
    <3>3. QED BY <2>2, <3>1, <3>2
  <2>3. CASE w.is.bool = FALSE
    <3>1. out[pos].tag = "BooleanFalse"
      BY <2>1, <2>3
    <3>2. R!Scalars["BooleanFalse"] = [visit |-> "bool", bool |-> FALSE]
      BY DEF R!Scalars
    <3>3. QED BY <2>3, <3>1, <3>2
  <2>4. QED BY <1>2, <2>2, <2>3
<1>6. Normal([visit |-> "bool", bool |-> w.is.bool]) = Canon(w)
  BY DEF Normal, Canon
<1>7. QED BY <1>1, <1>4, <1>5, <1>6, GivenIsTaken DEF Told

LEMMA ReadNone ==
  ASSUME NEW n, NEW w, AtPart(n, w.is), w.is.call = "none", R!DNext
  PROVE  Took(w, pos + 1)
<1>1. /\ out[pos] = [tag |-> "RtidNull"]
      /\ phase = "body" /\ frames \in Seq(RFrame) /\ frames # <<>>
  <2>1. /\ Encodes(w.is, out[pos], 0) /\ pos \in 1 .. Len(out) /\ TypeOK
        /\ phase = "body" /\ frames \in Seq(RFrame) /\ frames # <<>>
    BY FirstToken
  <2>2. QED BY <2>1 DEF Encodes
<1>2. /\ R!GiveTo(R!Scalars["RtidNull"], pos + 1) \/ R!GiveTo([visit |-> "none"], pos + 1)
      /\ ~R!KeyIsDue
  BY <1>1, VisitScalar, KeyIsText DEF ScalarTags, AtPart
<1>3. R!Scalars["RtidNull"] = R!Text(R!NullText)
  BY DEF R!Scalars
<1>4. Normal(R!Text(R!NullText)) = Canon(w) /\ Normal([visit |-> "none"]) = Canon(w)
  BY DEF Normal, Canon, R!Text
<1>5. QED BY <1>1, <1>2, <1>3, <1>4, GivenIsTaken DEF Told

LEMMA ReadFloat ==
  ASSUME NEW n, NEW w, AtPart(n, w.is), w.is.call = "float", R!DNext
  PROVE  Took(w, pos + 1)
<1>1. /\ out[pos] = IF w.is.val \in {"+0", "-0"}
                    THEN [tag |-> IF w.is.ty = "f32" THEN "F32Zero" ELSE "F64Zero"]
                    ELSE [tag |-> IF w.is.ty = "f32" THEN "F32" ELSE "F64", val |-> w.is.val]
      /\ phase = "body" /\ frames \in Seq(RFrame) /\ frames # <<>> /\ pos \in 1 .. Len(out) /\ TypeOK
  <2>1. /\ Encodes(w.is, out[pos], 0) /\ pos \in 1 .. Len(out) /\ TypeOK
        /\ phase = "body" /\ frames \in Seq(RFrame) /\ frames # <<>>
    BY FirstToken
  <2>2. QED BY <2>1 DEF Encodes
<1>2. w.is.ty \in {"f32", "f64"} /\ ~R!KeyIsDue
  BY KeyIsText DEF AtPart, InBody, Call, BodyCall
<1>3. Canon(w) = [visit |-> "float", ty |-> w.is.ty, val |-> IF w.is.val = "-0" THEN "+0" ELSE w.is.val]
  BY DEF Canon
<1>4. CASE w.is.val \in {"+0", "-0"}
  <2>1. out[pos].tag = IF w.is.ty = "f32" THEN "F32Zero" ELSE "F64Zero"
    BY <1>1, <1>4
  <2>2. out[pos].tag \in {"F32Zero", "F64Zero"}
    BY <2>1
  <2>3. R!GiveTo(R!Scalars[out[pos].tag], pos + 1)
    BY <2>2, VisitScalar DEF ScalarTags
  <2>4. R!Scalars[out[pos].tag] = [visit |-> "float", ty |-> w.is.ty, val |-> "+0"]
    BY <1>2, <2>1 DEF R!Scalars
  <2>5. Normal([visit |-> "float", ty |-> w.is.ty, val |-> "+0"]) = Canon(w)
    BY <1>3, <1>4 DEF Normal
  <2>6. QED BY <1>1, <1>2, <2>3, <2>4, <2>5, GivenIsTaken DEF Told
<1>5. CASE w.is.val \notin {"+0", "-0"}
  <2>1. /\ out[pos].tag = IF w.is.ty = "f32" THEN "F32" ELSE "F64"
        /\ out[pos].val = w.is.val
    BY <1>1, <1>5
  <2>2. out[pos].tag \in {"F32", "F64"}
    BY <2>1
  <2>3. out[pos].tag \notin {"(byte)", "ObjectEnd", "ArrayEnd", "(torn)", "(eof)"} \cup R!NoValue
    BY <2>2 DEF R!NoValue
  <2>4. R!Tok(pos) = out[pos] /\ Visit(out[pos].tag) /\ R!Tag = out[pos].tag
    BY <1>1, <2>2, <2>3, PartVisited, TagIs DEF AtPart
  <2>5. R!visit_float
    BY <2>2, <2>4 DEF Visit, ScalarTags, R!IntTags, DirectTags, DefinitionTags, ReferenceTags
  <2>6. R!GiveTo([visit |-> "float", ty |-> w.is.ty, val |-> w.is.val], pos + 1)
    BY <1>2, <2>1, <2>4, <2>5 DEF R!visit_float, R!Give
  <2>7. Normal([visit |-> "float", ty |-> w.is.ty, val |-> w.is.val]) = Canon(w)
    BY <1>3, <1>5 DEF Normal
  <2>8. QED BY <1>1, <1>2, <2>6, <2>7, GivenIsTaken DEF Told
<1>6. QED BY <1>4, <1>5

LEMMA ReadInt ==
  ASSUME NEW n, NEW w, AtPart(n, w.is), w.is.call = "int", R!DNext
  PROVE  Took(w, pos + 1)
<1>1. /\ \E forced \in BOOLEAN : out[pos] = EncodeInt(w.is.int, forced)
      /\ phase = "body" /\ frames \in Seq(RFrame) /\ frames # <<>> /\ pos \in 1 .. Len(out) /\ TypeOK
  <2>1. /\ Encodes(w.is, out[pos], 0) /\ pos \in 1 .. Len(out) /\ TypeOK
        /\ phase = "body" /\ frames \in Seq(RFrame) /\ frames # <<>>
    BY FirstToken
  <2>2. QED BY <2>1 DEF Encodes
<1>2. w.is.int \in RustInt /\ ~R!KeyIsDue
  BY KeyIsText DEF AtPart, InBody, Call, BodyCall
<1>3. DecodeInt(out[pos]) = w.is.int /\ out[pos].tag \in IntTags
  BY <1>1, <1>2, DecodeEncode, EncodeTyped
<1>4. R!DecodeInt(out[pos]) = DecodeInt(out[pos])
  BY DEF DecodeInt, R!DecodeInt, RawType, R!RawType
<1>5. out[pos].tag \notin {"(byte)", "ObjectEnd", "ArrayEnd", "(torn)", "(eof)"} \cup R!NoValue
  BY <1>3 DEF R!NoValue, IntTags
<1>6. R!Tok(pos) = out[pos] /\ Visit(out[pos].tag) /\ R!Tag = out[pos].tag
  BY <1>1, <1>5, PartVisited, TagIs DEF AtPart
<1>7. R!visit_int
  BY <1>3, <1>6 DEF Visit, ScalarTags, IntTags, DirectTags, DefinitionTags, ReferenceTags
<1>8. R!GiveTo([visit |-> "int", int |-> w.is.int], pos + 1)
  BY <1>3, <1>4, <1>6, <1>7 DEF R!visit_int, R!Give
<1>9. Normal([visit |-> "int", int |-> w.is.int]) = Canon(w)
  BY DEF Normal, Canon
<1>10. QED BY <1>1, <1>2, <1>8, <1>9, GivenIsTaken DEF Told

LEMMA ReadBytes ==
  ASSUME NEW n, NEW w, AtPart(n, w.is), w.is.call = "bytes", R!DNext
  PROVE  Took(w, pos + 1)
<1>1. /\ out[pos] = [tag |-> "BinaryBlob", hex |-> HexStr(w.is.bytes), declared |-> Len(w.is.bytes), raw |-> w.is.bytes]
      /\ phase = "body" /\ frames \in Seq(RFrame) /\ frames # <<>> /\ pos \in 1 .. Len(out) /\ TypeOK
  <2>1. /\ Encodes(w.is, out[pos], 0) /\ pos \in 1 .. Len(out) /\ TypeOK
        /\ phase = "body" /\ frames \in Seq(RFrame) /\ frames # <<>>
    BY FirstToken
  <2>2. QED BY <2>1 DEF Encodes
<1>2. out[pos].tag \notin {"(byte)", "ObjectEnd", "ArrayEnd", "(torn)", "(eof)"} \cup R!NoValue
  BY <1>1 DEF R!NoValue
<1>3. R!Tok(pos) = out[pos] /\ Visit(out[pos].tag) /\ out[pos].tag = "BinaryBlob" /\ ~R!KeyIsDue
  BY <1>1, <1>2, PartVisited, KeyIsText DEF AtPart
<1>4. R!visit_blob
  BY <1>3 DEF Visit, ScalarTags, R!IntTags, DirectTags, DefinitionTags, ReferenceTags
<1>5. PICK b \in Blobs :
        /\ out[pos] = [tag |-> "BinaryBlob", hex |-> HexStr(b), declared |-> Len(b), raw |-> b]
        /\ R!GiveTo([visit |-> "bytes", bytes |-> b], pos + 1)
  BY <1>4, BlobOutcome DEF AtPart, InBody
<1>6. b = w.is.bytes
  BY <1>1, <1>5
<1>7. Normal([visit |-> "bytes", bytes |-> b]) = Canon(w)
  BY <1>6 DEF Normal, Canon
<1>8. QED BY <1>1, <1>3, <1>5, <1>7, GivenIsTaken DEF Told

(* A reference is looked up in the reader's table, where it finds the text *)
(* the writer was asked for.                                               *)
LEMMA ReferenceFinds ==
  ASSUME IInv, ReaderInv, pos \in 1 .. Len(out), out[pos].tag \in ReferenceTags,
         NEW table, table = IF out[pos].tag = "StringLatin1Reference" THEN latin1_strings ELSE utf8_strings
  PROVE  out[pos].idx \in Nat /\ ~(out[pos].idx + 1 > Len(table)) /\ table[out[pos].idx + 1] = AskedFor(pos)
<1>1. TypeOK /\ RefsResolve /\ Len(out) \in Nat /\ DOMAIN out = 1 .. Len(out)
  BY TokIs DEF IInv, TablesInv, TypeOK
<1>2. PICK tag : tag = DefTag(out[pos].tag)
  OBVIOUS
<1>3. PICK j \in 1 .. pos - 1 : out[j].tag = tag /\ out[j].str = AskedFor(pos) /\ Rank(tag, j) = out[pos].idx
  BY <1>1, <1>2 DEF RefsResolve
<1>4. ReadsTable(tag, table, pos)
  BY <1>2 DEF ReaderInv, DefTag, ReferenceTags
<1>5. /\ table \in Seq(Strings) /\ Len(table) = Rank(tag, pos) /\ table[Rank(tag, j) + 1] = out[j].str
  BY <1>3, <1>4 DEF ReadsTable
<1>6. j \in 1 .. Len(out) /\ j + 1 \in 1 .. Len(out) + 1 /\ j \in 1 .. Len(out) + 1 /\ pos \in 1 .. Len(out) + 1 /\ j + 1 <= pos
  BY <1>1, <1>3
<1>7. Rank(tag, j) \in Nat /\ Rank(tag, pos) \in Nat /\ Rank(tag, j + 1) = Rank(tag, j) + 1 /\ Rank(tag, j + 1) <= Rank(tag, pos)
  BY <1>1, <1>3, <1>6, RankProps
<1>8. PICK a \in Nat, b \in Nat : a = Rank(tag, j) /\ b = Rank(tag, pos) /\ a + 1 <= b
  BY <1>7
<1>9. QED BY <1>3, <1>5, <1>8

LEMMA ReadStr ==
  ASSUME IInv, ReaderInv, SameTexts, NEW n, NEW w, AtPart(n, w.is), w.is.call = "str", R!DNext,
         out[pos].tag \in ReferenceTags => AskedFor(pos) = w.is.str
  PROVE  Took(w, pos + 1)
<1> DEFINE s == w.is.str
<1>1. /\ IsStr(s, out[pos])
      /\ phase = "body" /\ frames \in Seq(RFrame) /\ frames # <<>> /\ pos \in 1 .. Len(out) /\ TypeOK
  <2>1. /\ Encodes(w.is, out[pos], 0) /\ pos \in 1 .. Len(out) /\ TypeOK
        /\ phase = "body" /\ frames \in Seq(RFrame) /\ frames # <<>>
    BY FirstToken
  <2>2. QED BY <2>1 DEF Encodes
<1>2. Canon(w) = R!Text(s) /\ Normal(R!Text(s)) = R!Text(s)
  BY DEF Canon, Normal, R!Text
<1>. HIDE DEF s
<1>3. R!GiveTo(R!Text(s), pos + 1) => Took(w, pos + 1)
  BY <1>1, <1>2, KeyIsText, GivenIsTaken DEF Told, AtPart
<1>4. CASE s = Asterisk /\ out[pos] = [tag |-> "StringAsterisk"]
  <2>1. R!GiveTo(R!Scalars["StringAsterisk"], pos + 1)
    BY <1>4, VisitScalar DEF ScalarTags
  <2>2. R!Scalars["StringAsterisk"] = R!Text(s)
    BY <1>4 DEF R!Scalars, SameTexts
  <2>3. QED BY <1>3, <2>1, <2>2
<1>5. CASE s = RtidNullText /\ out[pos] = [tag |-> "RtidNull"]
  <2>1. \/ R!GiveTo(R!Scalars["RtidNull"], pos + 1)
        \/ ~R!KeyIsDue /\ R!GiveTo([visit |-> "none"], pos + 1)
    BY <1>5, VisitScalar DEF ScalarTags
  <2>2. R!Scalars["RtidNull"] = R!Text(s)
    BY <1>5 DEF R!Scalars, SameTexts
  <2>3. Normal([visit |-> "none"]) = Canon(w)
    BY <1>2, <1>5 DEF Normal, SameTexts
  <2>4. QED BY <1>1, <1>3, <2>1, <2>2, <2>3, GivenIsTaken DEF Told
<1>6. CASE out[pos].tag \in DirectTags \cup DefinitionTags \cup ReferenceTags
  <2>1. out[pos].tag \notin {"(byte)", "ObjectEnd", "ArrayEnd", "(torn)", "(eof)"} \cup R!NoValue
    BY <1>6 DEF R!NoValue, DirectTags, DefinitionTags, ReferenceTags
  <2>2. R!Tok(pos) = out[pos] /\ Visit(out[pos].tag) /\ R!Tag = out[pos].tag
    BY <1>1, <2>1, PartVisited, TagIs DEF AtPart
  <2>3. \/ R!visit_direct /\ out[pos].tag \in DirectTags
        \/ R!visit_definition /\ out[pos].tag \in DefinitionTags
        \/ R!visit_reference /\ out[pos].tag \in ReferenceTags
    <3>1. out[pos].tag \notin ScalarTags \cup R!IntTags \cup {"F32", "F64", "BinaryBlob", "Rtid", "RtidNull", "ArrayBegin",
                                "ObjectBegin", "CompactObjectBegin", "CompactBoolean"}
      BY <1>6 DEF ScalarTags, R!IntTags, DirectTags, DefinitionTags, ReferenceTags
    <3>2. QED BY <2>2, <3>1 DEF Visit
  <2>4. CASE R!visit_direct /\ out[pos].tag \in DirectTags
    <3>1. out[pos].str = s
      BY <1>1, <2>4 DEF IsStr, DirectTags, ReferenceTags
    <3>2. R!GiveTo(R!Text(s), pos + 1)
      BY <2>2, <2>4, <3>1 DEF R!visit_direct, R!Give
    <3>3. QED BY <1>3, <3>2
  <2>5. CASE R!visit_definition /\ out[pos].tag \in DefinitionTags
    <3>1. out[pos].str = s
      BY <1>1, <2>5 DEF IsStr, DefinitionTags, ReferenceTags
    <3>2. R!GiveTo(R!Text(s), pos + 1)
      BY <2>2, <2>5, <3>1 DEF R!visit_definition, R!Give
    <3>3. QED BY <1>3, <3>2
  <2>6. CASE R!visit_reference /\ out[pos].tag \in ReferenceTags
    <3>1. PICK table : table = IF out[pos].tag = "StringLatin1Reference" THEN latin1_strings ELSE utf8_strings
      OBVIOUS
    <3>2. ~(out[pos].idx + 1 > Len(table)) /\ table[out[pos].idx + 1] = s
      BY <1>1, <2>6, <3>1, ReferenceFinds DEF s
    <3>3. R!GiveTo(R!Text(s), pos + 1)
      BY <2>2, <2>6, <3>1, <3>2 DEF R!visit_reference, R!Give
    <3>4. QED BY <1>3, <3>3
  <2>7. QED BY <2>3, <2>4, <2>5, <2>6
<1>7. QED BY <1>1, <1>4, <1>5, <1>6 DEF IsStr

(* A sequence of frames grows by one, or loses its last.                   *)
LEMMA GrownFrames ==
  ASSUME frames \in Seq(RFrame), frames # <<>>
  PROVE  \A f : Append(Tick(frames), f) # <<>>
<1> SUFFICES ASSUME NEW f, Append(Tick(frames), f) = <<>> PROVE FALSE
  OBVIOUS
<1>1. PICK t : t = Tick(frames)
  OBVIOUS
<1>2. Len(t) \in Nat
  BY <1>1 DEF Tick
<1>3. Len(Append(t, f)) = Len(t) + 1
  <2>1. t \in Seq(RFrame \cup {t[Len(frames)]})
    <3>1. Len(frames) \in Nat \ {0}
      OBVIOUS
    <3>2. QED BY <1>1, <3>1 DEF Tick
  <2>2. QED BY <2>1
<1>4. QED BY <1>1, <1>2, <1>3

(* Containers.                                                             *)
LEMMA ReadSeq ==
  ASSUME NEW n, NEW w, AtPart(n, w.is), w.is.call = "seq", R!DNext
  PROVE  Took(w, pos + 2)
<1>1. /\ phase = "body" /\ frames \in Seq(RFrame) /\ frames # <<>> /\ pos \in 1 .. Len(out) /\ TypeOK
      /\ out[pos] = [tag |-> "ArrayBegin"] /\ ~R!KeyIsDue
  <2>1. /\ Encodes(w.is, out[pos], 0) /\ pos \in 1 .. Len(out) /\ TypeOK
        /\ phase = "body" /\ frames \in Seq(RFrame) /\ frames # <<>>
    BY FirstToken
  <2>2. QED BY <2>1, KeyIsText DEF Encodes, AtPart
<1>2. pos + 1 \in 1 .. Len(out) /\ out[pos + 1] = [tag |-> "ArrayCapacity", cap |-> w.is.len]
  <2>1. Weight(n, w.is) = 2 /\ Len(out) \in Nat
    BY <1>1, TokIs DEF Weight
  <2>2. pos + 1 \in 1 .. Len(out) /\ 1 \in 0 .. 2 - 1
    BY <1>1, <2>1 DEF AtPart, InBody
  <2>3. Encodes(w.is, out[pos + 1], 1)
    BY <2>1, <2>2 DEF AtPart, InBody
  <2>4. QED BY <2>2, <2>3 DEF Encodes
<1>3. out[pos].tag \notin {"(byte)", "ObjectEnd", "ArrayEnd", "(torn)", "(eof)"} \cup R!NoValue
  BY <1>1 DEF R!NoValue
<1>4. R!Tok(pos) = out[pos] /\ Visit("ArrayBegin") /\ R!Tok(pos + 1) = out[pos + 1]
  BY <1>1, <1>2, <1>3, PartVisited, TokIs DEF AtPart
<1>5. R!enter_seq
  BY <1>4 DEF Visit, ScalarTags, R!IntTags, DirectTags, DefinitionTags, ReferenceTags
<1>6. /\ pos' = pos + 2 /\ phase' = "body" /\ seen' = Append(seen, [visit |-> "seq"])
      /\ frames' = Append(Tick(frames), [kind |-> "seq", left |-> w.is.len, table |-> <<>>])
  <2>1. R!Tok(pos + 1).tag = "ArrayCapacity" /\ R!Tok(pos + 1).cap = w.is.len /\ ~R!KeyIsDue
    BY <1>1, <1>2, <1>4
  <2>2. /\ pos' = pos + 2 /\ seen' = Append(seen, [visit |-> "seq"]) /\ phase' = phase
        /\ frames' = Append(R!Counted, [kind |-> "seq", left |-> R!Tok(pos + 1).cap, table |-> <<>>])
    BY <1>5, <2>1 DEF R!enter_seq
  <2>3. R!Counted = Tick(frames)
    BY <1>1, DueHere
  <2>4. QED BY <1>1, <2>1, <2>2, <2>3
<1>7. Shape(frames, w.is) = frames' /\ frames' # <<>>
  <2>1. Shape(frames, w.is) = frames'
    BY <1>1, <1>6 DEF Shape, Enter
  <2>2. QED BY <1>1, <1>6, <2>1, GrownFrames
<1>8. Normal([visit |-> "seq"]) = Canon(w)
  BY DEF Normal, Canon
<1>9. QED BY <1>6, <1>7, <1>8 DEF Took

LEMMA ReadMap ==
  ASSUME NEW n, NEW w, AtPart(n, w.is), w.is.call = "map", R!DNext
  PROVE  Took(w, pos + 1)
<1>0. n # 1
  BY DEF AtPart, InBody
<1>1. /\ phase = "body" /\ frames \in Seq(RFrame) /\ frames # <<>> /\ pos \in 1 .. Len(out) /\ TypeOK
      /\ out[pos] = [tag |-> "ObjectBegin"] /\ ~R!KeyIsDue
  <2>1. /\ Encodes(w.is, out[pos], 0) /\ pos \in 1 .. Len(out) /\ TypeOK
        /\ phase = "body" /\ frames \in Seq(RFrame) /\ frames # <<>>
    BY FirstToken
  <2>2. QED BY <2>1, KeyIsText DEF Encodes, AtPart
<1>3. out[pos].tag \notin {"(byte)", "ObjectEnd", "ArrayEnd", "(torn)", "(eof)"} \cup R!NoValue
  BY <1>1 DEF R!NoValue
<1>4. R!Tok(pos) = out[pos] /\ Visit("ObjectBegin")
  BY <1>1, <1>3, PartVisited DEF AtPart
<1>5. R!enter_map
  BY <1>4 DEF Visit, ScalarTags, R!IntTags, DirectTags, DefinitionTags, ReferenceTags
<1>6. /\ pos' = pos + 1 /\ phase' = "body" /\ seen' = Append(seen, [visit |-> "map"])
      /\ frames' = Append(Tick(frames), [kind |-> "map", left |-> 0, table |-> <<>>])
  BY <1>1, <1>4, <1>5, DueHere DEF R!enter_map
<1>7. Shape(frames, w.is) = frames' /\ frames' # <<>>
  <2>1. Shape(frames, w.is) = frames'
    BY <1>1, <1>6 DEF Shape, Enter
  <2>2. QED BY <1>1, <1>6, <2>1, GrownFrames
<1>8. Normal([visit |-> "map"]) = Canon(w)
  BY DEF Normal, Canon
<1>9. QED BY <1>6, <1>7, <1>8 DEF Took

LEMMA ReadEnd ==
  ASSUME NEW n, NEW w, AtPart(n, w.is), w.is.call = "end", R!DNext
  PROVE  Took(w, pos + 1)
<1>1. /\ phase = "body" /\ frames \in Seq(RFrame) /\ frames # <<>> /\ pos \in 1 .. Len(out) /\ TypeOK
      /\ out[pos] = [tag |-> IF w.is.of = "map" THEN "ObjectEnd" ELSE "ArrayEnd"]
  <2>1. /\ Encodes(w.is, out[pos], 0) /\ pos \in 1 .. Len(out) /\ TypeOK
        /\ phase = "body" /\ frames \in Seq(RFrame) /\ frames # <<>>
    BY FirstToken
  <2>2. QED BY <2>1 DEF Encodes
<1>2. /\ w.is.of = frames[Len(frames)].kind /\ frames[Len(frames)].left = 0
      /\ frames[Len(frames)].kind \in {"seq", "map"} /\ Len(frames) \in Nat \ {0}
      /\ R!InMap <=> frames[Len(frames)].kind = "map"
      /\ R!InStandardSeq <=> frames[Len(frames)].kind = "seq"
      /\ R!KeyIsDue <=> KeyDue(frames)
      /\ R!Here = frames[Len(frames)] /\ ~R!InCompactSeq
  <2>1. w.is.of = frames[Len(frames)].kind /\ frames[Len(frames)].left = 0
    BY DEF AtPart, InBody, Legal
  <2>2. QED BY <1>1, <2>1, DueHere
<1>3. R!Tag = IF w.is.of = "map" THEN "ObjectEnd" ELSE "ArrayEnd"
  <2>1. out[pos].tag # "(byte)"
    BY <1>1
  <2>2. QED BY <1>1, <2>1, TagIs
<1>4. ~R!Due
  BY <1>2, <1>3 DEF R!Due, KeyDue
<1>5. \/ R!end_of_map /\ w.is.of = "map"
      \/ R!end_of_seq /\ w.is.of = "seq"
  <2>1. pos \in 1 .. Len(out) + 1
    BY <1>1
  <2>2. \/ R!end_of_map /\ R!Tag = "ObjectEnd"
        \/ R!end_of_seq /\ R!Tag = "ArrayEnd"
        \/ R!Here.kind = "seq" /\ R!Tag # "ArrayEnd"
        \/ R!Tag \in {"(eof)", "(torn)"}
    BY <1>1, <1>4, <2>1, BodyStep
  <2>3. QED BY <1>2, <1>3, <2>2
<1>6. PICK visit : visit = (IF w.is.of = "map" THEN "end_map" ELSE "end_seq") /\ R!Leave(visit, 1)
  BY <1>5 DEF R!end_of_map, R!end_of_seq
<1>7. /\ pos' = pos + 1 /\ seen' = Append(seen, [visit |-> visit])
      /\ frames' = SubSeq(frames, 1, Len(frames) - 1) /\ phase' = IF Len(frames) = 1 THEN "footer" ELSE "body"
  BY <1>6 DEF R!Leave
<1>8. Shape(frames, w.is) = frames' /\ (frames' = <<>> <=> Len(frames) = 1)
  <2>1. Shape(frames, w.is) = frames'
    BY <1>7 DEF Shape
  <2>2. Len(frames') = Len(frames) - 1 /\ frames' \in Seq(RFrame)
    <3>1. PICK u : u = frames /\ u \in Seq(RFrame)
      BY <1>1
    <3>2. PICK m \in Nat \ {0} : m = Len(u)
      BY <1>2, <3>1
    <3>3. SubSeq(u, 1, m - 1) \in Seq(RFrame) /\ Len(SubSeq(u, 1, m - 1)) = m - 1
      BY <3>1, <3>2
    <3>4. QED BY <1>7, <3>1, <3>2, <3>3
  <2>3. QED BY <1>2, <2>1, <2>2
<1>9. Normal([visit |-> visit]) = Canon(w)
  BY <1>2, <1>6 DEF Normal, Canon
<1>10. QED BY <1>7, <1>8, <1>9 DEF Took

(* An RTID's body, subtype by subtype, and the tokens it comes to.         *)
Fields(b, i, r) == /\ b[i] = Number("(varint)", r.group) /\ b[i + 1] = Number("(varint)", r.id)
                   /\ b[i + 2] = Number("(u32)", r.obj)

LEMMA FieldsJoin ==
  ASSUME NEW S, NEW x \in Seq(S), NEW a \in S, NEW b \in S, NEW c \in S
  PROVE  /\ Len(x \o <<a, b, c>>) = Len(x) + 3
         /\ \A i \in 1 .. Len(x) : (x \o <<a, b, c>>)[i] = x[i]
         /\ /\ (x \o <<a, b, c>>)[Len(x) + 1] = a /\ (x \o <<a, b, c>>)[Len(x) + 1 + 1] = b
            /\ (x \o <<a, b, c>>)[Len(x) + 1 + 2] = c
<1>1. PICK y : y = <<a, b, c>>
  OBVIOUS
<1>2. y \in Seq(S) /\ Len(y) = 3 /\ y[1] = a /\ y[2] = b /\ y[3] = c
  BY <1>1
<1>3. /\ Len(x \o y) = Len(x) + 3 /\ \A i \in 1 .. Len(x) : (x \o y)[i] = x[i]
      /\ (x \o y)[Len(x) + 1] = a /\ (x \o y)[Len(x) + 1 + 1] = b /\ (x \o y)[Len(x) + 1 + 2] = c
  <2>1. PICK l \in Nat : l = Len(x)
    OBVIOUS
  <2>2. /\ l + 1 \in l + 1 .. l + 3 /\ l + 1 + 1 \in l + 1 .. l + 3 /\ l + 1 + 2 \in l + 1 .. l + 3
        /\ l + 1 - l = 1 /\ l + 1 + 1 - l = 2 /\ l + 1 + 2 - l = 3
    OBVIOUS
  <2>3. /\ Len(x \o y) = l + 3
        /\ \A i \in 1 .. l : (x \o y)[i] = x[i]
        /\ \A i \in l + 1 .. l + 3 : (x \o y)[i] = y[i - l]
    <3>1. /\ Len(x \o y) = Len(x) + Len(y)
          /\ \A i \in 1 .. Len(x) : (x \o y)[i] = x[i]
          /\ \A i \in Len(x) + 1 .. Len(x) + Len(y) : (x \o y)[i] = y[i - Len(x)]
      BY <1>2, ConcatProps
    <3>2. QED BY <1>2, <2>1, <3>1
  <2>4. QED BY <1>2, <2>1, <2>2, <2>3
<1>4. QED BY <1>1, <1>3

LEMMA BodyIs ==
  ASSUME NEW r \in Rtids, NEW b, b = RtidBody(r)
  PROVE  \/ r.kind = "raw" /\ Len(b) = 3 /\ b[1] = Byte(3) /\ b[2] = Str(r.name) /\ b[3] = Str(r.parent)
         \/ r.kind = "uid" /\ r.name = {} /\ Len(b) = 4 /\ b[1] = Byte(1) /\ Fields(b, 2, r)
         \/ /\ r.kind = "uid" /\ Len(b) = 5 /\ b[1] = Byte(2) /\ Fields(b, 3, r)
            /\ \E s : r.name = {s} /\ b[2] = Str(s)
<1>0. r \in RtidOver(Strings)
  BY RtidsAssumption DEF RtidsAssumption
<1>1. CASE r.kind = "raw"
  <2>1. b = <<Byte(3), Str(r.name), Str(r.parent)>>
    BY <1>1 DEF RtidBody
  <2>2. QED BY <1>1, <2>1
<1>2. CASE r.kind # "raw"
  <2> DEFINE n1 == Number("(varint)", r.group)
             n2 == Number("(varint)", r.id)
             n3 == Number("(u32)", r.obj)
  <2>0. r.kind = "uid"
    BY <1>0, <1>2 DEF RtidOver
  <2>1. n1 \in RtidPart /\ n2 \in RtidPart /\ n3 \in RtidPart
    BY <1>0, <2>0 DEF RtidOver, Number, BodyCall, RtidPart
  <2>2. CASE r.name = None
    <3>1. b = <<Byte(1)>> \o <<n1, n2, n3>>
      BY <1>2, <2>2 DEF RtidBody
    <3>2. PICK x : x = <<Byte(1)>>
      OBVIOUS
    <3>3. x \in Seq(RtidPart) /\ Len(x) = 1 /\ x[1] = Byte(1)
      BY <3>2 DEF Byte, BodyCall, RtidPart
    <3> HIDE DEF n1, n2, n3
    <3>4. /\ Len(b) = Len(x) + 3 /\ \A i \in 1 .. Len(x) : b[i] = x[i]
          /\ b[Len(x) + 1] = n1 /\ b[Len(x) + 1 + 1] = n2 /\ b[Len(x) + 1 + 2] = n3
      BY <2>1, <3>1, <3>2, <3>3, FieldsJoin
    <3>5. Len(b) = 4 /\ b[1] = Byte(1) /\ b[2] = n1 /\ b[2 + 1] = n2 /\ b[2 + 2] = n3
      BY <3>3, <3>4
    <3>6. QED BY <2>0, <2>2, <3>5 DEF Fields, None, n1, n2, n3
  <2>3. CASE r.name # None
    <3>1. PICK s \in Strings : r.name = {s}
      BY <1>0, <1>2, <2>3 DEF RtidOver, Some, None
    <3>2. Unwrap(r.name) = s
      BY <3>1 DEF Unwrap
    <3>3. b = <<Byte(2), Str(s)>> \o <<n1, n2, n3>>
      BY <1>2, <2>3, <3>2 DEF RtidBody
    <3>4. PICK x : x = <<Byte(2), Str(s)>>
      OBVIOUS
    <3>5. x \in Seq(RtidPart) /\ Len(x) = 2 /\ x[1] = Byte(2) /\ x[2] = Str(s)
      BY <3>4 DEF Byte, Str, BodyCall, RtidPart
    <3> HIDE DEF n1, n2, n3
    <3>6. /\ Len(b) = Len(x) + 3 /\ \A i \in 1 .. Len(x) : b[i] = x[i]
          /\ b[Len(x) + 1] = n1 /\ b[Len(x) + 1 + 1] = n2 /\ b[Len(x) + 1 + 2] = n3
      BY <2>1, <3>3, <3>4, <3>5, FieldsJoin
    <3>7. Len(b) = 5 /\ b[1] = Byte(2) /\ b[2] = Str(s) /\ b[3] = n1 /\ b[3 + 1] = n2 /\ b[3 + 2] = n3
      BY <3>5, <3>6
    <3>8. Fields(b, 3, r)
      BY <3>7 DEF Fields, n1, n2, n3
    <3>9. QED BY <2>0, <3>1, <3>7, <3>8
  <2>4. QED BY <2>2, <2>3
<1>3. QED BY <1>1, <1>2

LEMMA RtidTokens ==
  ASSUME NEW n, NEW c, AtPart(n, c), c.call = "rtid"
  PROVE  /\ c.rtid \in Rtids /\ Len(RtidBody(c.rtid)) \in 3 .. 5 /\ Weight(n, c) = 1 + Len(RtidBody(c.rtid))
         /\ \A k \in 1 .. Len(RtidBody(c.rtid)) :
              pos + k \in 1 .. Len(out) /\ out[pos + k] = BodyTok(RtidBody(c.rtid)[k]) /\ R!Tok(pos + k) = out[pos + k]
<1>1. c.rtid \in Rtids
  BY DEF AtPart, InBody, Call, BodyCall
<1>2. PICK m \in 3 .. 5 : m = Len(RtidBody(c.rtid))
  BY <1>1, BodyCalls
<1>3. Weight(n, c) = 1 + m
  BY <1>2 DEF Weight
<1>4. pos \in 1 .. Len(out) /\ Len(out) \in Nat /\ TypeOK /\ pos + (1 + m) <= Len(out) + 1
  BY <1>3, FirstToken, TokIs DEF AtPart, InBody
<1>5. ASSUME NEW k \in 1 .. m
      PROVE  pos + k \in 1 .. Len(out) /\ out[pos + k] = BodyTok(RtidBody(c.rtid)[k]) /\ R!Tok(pos + k) = out[pos + k]
  <2>1. pos + k \in 1 .. Len(out) /\ k \in 0 .. (1 + m) - 1 /\ k # 0
    BY <1>4
  <2>2. Encodes(c, out[pos + k], k)
    BY <1>3, <2>1 DEF AtPart, InBody
  <2>3. QED BY <1>4, <2>1, <2>2, TokIs DEF Encodes
<1>6. QED BY <1>1, <1>2, <1>3, <1>5

(* The fields of a body of subtype sub lie ahead.                          *)
LEMMA FieldsTaken ==
  ASSUME TypeOK, phase = "body", R!visit_rtid, NEW sub \in {1, 2, 3}, R!Tok(pos + 1).tag = "(byte)", R!Tok(pos + 1).byte = sub,
         NEW m, m = Len(R!Pieces(sub)), [i \in 1 .. m |-> R!Tok(pos + 1 + i).tag] = R!Pieces(sub)
  PROVE  R!Give(R!Text(R!RtidText(sub, R!FieldToks(m))), m + 2)
<1>1. ~(sub > 3) /\ sub <= 3
  OBVIOUS
<1>2. QED BY <1>1 DEF R!visit_rtid

LEMMA FieldAt ==
  ASSUME TypeOK, pos \in Nat \ {0}, NEW m \in Nat, pos + 1 + m <= Len(out), NEW i \in 1 .. m
  PROVE  R!FieldToks(m)[i] = out[pos + 1 + i]
<1>1. out \in Seq(Token) /\ Len(out) \in Nat
  BY DEF TypeOK
<1>2. \A s \in Seq(Token) : \A p, q \in Nat : p >= 1 /\ q <= Len(s) =>
        \A j \in 1 .. q - p + 1 : SubSeq(s, p, q)[j] = s[p + j - 1]
  OBVIOUS
<1>3. i \in 1 .. (pos + 1 + m) - (pos + 2) + 1 /\ (pos + 2) + i - 1 = pos + 1 + i /\ pos + 2 \in Nat /\ pos + 1 + m \in Nat
  OBVIOUS
<1>4. SubSeq(out, pos + 2, pos + 1 + m)[i] = out[(pos + 2) + i - 1]
  <2>1. PICK p \in Nat, q \in Nat : p = pos + 2 /\ q = pos + 1 + m
    BY <1>3
  <2>2. p >= 1 /\ q <= Len(out) /\ i \in 1 .. q - p + 1
    BY <1>1, <1>3, <2>1
  <2>3. SubSeq(out, p, q)[i] = out[p + i - 1]
    BY <1>1, <1>2, <2>2
  <2>4. QED BY <2>1, <2>3
<1>5. QED BY <1>3, <1>4 DEF R!FieldToks

(* Deserializer::read_rtid_string spells what Display spells.              *)
LEMMA RtidSpelt ==
  ASSUME NEW r, NEW t
  PROVE  /\ r.kind = "raw" /\ t[1].str = r.name /\ t[2].str = r.parent => R!RtidText(3, t) = R!Display(r)
         /\ (r.kind = "uid" /\ r.name = {} /\ t[1].num = r.group /\ t[2].num = r.id /\ t[3].num = r.obj)
              => R!RtidText(1, t) = R!Display(r)
         /\ \A s : /\ r.kind = "uid" /\ r.name = {s} /\ t[1].str = s
                   /\ t[2].num = r.group /\ t[3].num = r.id /\ t[4].num = r.obj
              => R!RtidText(2, t) = R!Display(r)
<1>1. ASSUME r.kind = "raw", t[1].str = r.name, t[2].str = r.parent PROVE R!RtidText(3, t) = R!Display(r)
  <2>1. R!Display(r) = R!Wrap(r.name \o <<"@">> \o r.parent)
    BY <1>1 DEF R!Display
  <2>2. R!RtidText(3, t) = R!read_rtid_string(3, <<t[1].str, t[2].str>>, <<>>)
    BY DEF R!RtidText
  <2>3. R!read_rtid_string(3, <<r.name, r.parent>>, <<>>) = R!Wrap(r.name \o <<"@">> \o r.parent)
    BY DEF R!read_rtid_string
  <2>4. QED BY <1>1, <2>1, <2>2, <2>3
<1> DEFINE dotted == <<R!HexText[r.id], ".", R!HexText[r.group], ".", R!ObjText[r.obj], "@">>
<1>2. ASSUME r.kind = "uid", r.name = {}, t[1].num = r.group, t[2].num = r.id, t[3].num = r.obj
      PROVE  R!RtidText(1, t) = R!Display(r)
  <2>1. R!Display(r) = R!Wrap(dotted \o <<>>)
    BY <1>2 DEF R!Display, R!NameOr, R!None
  <2>2. R!RtidText(1, t) = R!read_rtid_string(1, <<>>, <<t[1].num, t[2].num, t[3].num>>)
    BY DEF R!RtidText
  <2>3. R!read_rtid_string(1, <<>>, <<r.group, r.id, r.obj>>) = R!Wrap(dotted \o <<>>)
    BY DEF R!read_rtid_string
  <2>4. QED BY <1>2, <2>1, <2>2, <2>3
<1>3. ASSUME NEW s, r.kind = "uid", r.name = {s}, t[1].str = s, t[2].num = r.group, t[3].num = r.id, t[4].num = r.obj
      PROVE  R!RtidText(2, t) = R!Display(r)
  <2>0. R!NameOr(r.name) = s
    <3>1. R!Unwrap({s}) = s
      BY DEF R!Unwrap
    <3>2. {s} # R!None
      BY DEF R!None
    <3>3. QED BY <1>3, <3>1, <3>2 DEF R!NameOr
  <2>1. R!Display(r) = R!Wrap(dotted \o s)
    BY <1>3, <2>0 DEF R!Display
  <2>2. R!RtidText(2, t) = R!read_rtid_string(2, <<t[1].str>>, <<t[2].num, t[3].num, t[4].num>>)
    BY DEF R!RtidText
  <2>3. R!read_rtid_string(2, <<s>>, <<r.group, r.id, r.obj>>) = R!Wrap(dotted \o s)
    BY DEF R!read_rtid_string
  <2>4. QED BY <1>3, <2>1, <2>2, <2>3
<1>4. (r.kind = "uid" /\ r.name = {} /\ t[1].num = r.group /\ t[2].num = r.id /\ t[3].num = r.obj)
        => R!RtidText(1, t) = R!Display(r)
  BY <1>2, Zenon
<1>5. \A s : /\ r.kind = "uid" /\ r.name = {s} /\ t[1].str = s
             /\ t[2].num = r.group /\ t[3].num = r.id /\ t[4].num = r.obj
        => R!RtidText(2, t) = R!Display(r)
  BY <1>3, Zenon
<1>6. QED BY <1>1, <1>4, <1>5, Zenon

LEMMA PiecesAre ==
  /\ R!Pieces(1) = <<"(varint)", "(varint)", "(u32)">> /\ Len(R!Pieces(1)) = 3
  /\ R!Pieces(2) = <<"(utf8)", "(varint)", "(varint)", "(u32)">> /\ Len(R!Pieces(2)) = 4
  /\ R!Pieces(3) = <<"(utf8)", "(utf8)">> /\ Len(R!Pieces(3)) = 2
BY DEF R!Pieces

LEMMA BodyTags ==
  ASSUME NEW s, NEW x, NEW wire, NEW i
  PROVE  /\ BodyTok(Byte(i)) = [tag |-> "(byte)", byte |-> i]
         /\ BodyTok(Str(s)) = [tag |-> "(utf8)", str |-> s]
         /\ BodyTok(Number(wire, x)) = [tag |-> wire, num |-> x]
BY DEF BodyTok, Byte, Str, Number

(* The whole body of an RTID: the text of the value.                       *)
LEMMA ReadRtid ==
  ASSUME NEW n, NEW w, AtPart(n, w.is), w.is.call = "rtid", R!DNext
  PROVE  Took(w, pos + Weight(n, w.is))
<1>1. /\ phase = "body" /\ frames \in Seq(RFrame) /\ frames # <<>> /\ pos \in 1 .. Len(out) /\ TypeOK
      /\ out[pos] = [tag |-> "Rtid"] /\ ~R!KeyIsDue
  <2>1. /\ Encodes(w.is, out[pos], 0) /\ pos \in 1 .. Len(out) /\ TypeOK
        /\ phase = "body" /\ frames \in Seq(RFrame) /\ frames # <<>>
    BY FirstToken
  <2>2. QED BY <2>1, KeyIsText DEF Encodes, AtPart
<1>2. out[pos].tag \notin {"(byte)", "ObjectEnd", "ArrayEnd", "(torn)", "(eof)"} \cup R!NoValue
  BY <1>1 DEF R!NoValue
<1>3. Visit("Rtid")
  BY <1>1, <1>2, PartVisited DEF AtPart
<1>4. R!visit_rtid
  BY <1>3 DEF Visit, ScalarTags, R!IntTags, DirectTags, DefinitionTags, ReferenceTags
<1>5. PICK r, b : r \in Rtids /\ r = w.is.rtid /\ b = RtidBody(r)
  BY RtidTokens
<1>6. PICK m \in 3 .. 5 : m = Len(b) /\ Weight(n, w.is) = 1 + m
  BY <1>5, RtidTokens
<1>7. \A k \in 1 .. m : pos + k \in 1 .. Len(out) /\ out[pos + k] = BodyTok(b[k]) /\ R!Tok(pos + k) = out[pos + k]
  BY <1>5, <1>6, RtidTokens
<1>8. Canon(w) = R!Text(R!Display(r)) /\ Normal(R!Text(R!Display(r))) = Canon(w)
  BY <1>5 DEF Canon, Normal, R!Text
<1>9. R!GiveTo(R!Text(R!Display(r)), pos + (1 + m)) => Took(w, pos + Weight(n, w.is))
  BY <1>1, <1>6, <1>8, GivenIsTaken DEF Told
<1>10. pos \in Nat \ {0} /\ Len(out) \in Nat
  BY <1>1, TokIs
<1>11. CASE r.kind = "raw" /\ Len(b) = 3 /\ b[1] = Byte(3) /\ b[2] = Str(r.name) /\ b[3] = Str(r.parent)
  <2>1. m = 3
    BY <1>6, <1>11
  <2>2. /\ R!Tok(pos + 1) = [tag |-> "(byte)", byte |-> 3]
        /\ R!Tok(pos + 2) = [tag |-> "(utf8)", str |-> r.name] /\ out[pos + 2] = R!Tok(pos + 2)
        /\ R!Tok(pos + 3) = [tag |-> "(utf8)", str |-> r.parent] /\ out[pos + 3] = R!Tok(pos + 3)
        /\ pos + 3 <= Len(out)
    BY <1>7, <1>11, <2>1, BodyTags
  <2>3. pos + 1 + 1 = pos + 2 /\ pos + 1 + 2 = pos + 3
    BY <1>10
  <2>4. [i \in 1 .. 2 |-> R!Tok(pos + 1 + i).tag] = <<"(utf8)", "(utf8)">>
    BY <2>2, <2>3
  <2>5. R!Give(R!Text(R!RtidText(3, R!FieldToks(2))), 2 + 2)
    <3>1. [i \in 1 .. 2 |-> R!Tok(pos + 1 + i).tag] = R!Pieces(3) /\ 2 = Len(R!Pieces(3))
      BY <2>4, PiecesAre
    <3>2. R!Tok(pos + 1).tag = "(byte)" /\ R!Tok(pos + 1).byte = 3
      BY <2>2
    <3>3. QED BY <1>1, <1>4, <3>1, <3>2, FieldsTaken
  <2>6. R!FieldToks(2)[1] = out[pos + 2] /\ R!FieldToks(2)[2] = out[pos + 3]
    <3>1. pos + 1 + 2 <= Len(out)
      BY <2>2, <2>3
    <3>2. R!FieldToks(2)[1] = out[pos + 1 + 1] /\ R!FieldToks(2)[2] = out[pos + 1 + 2]
      BY <1>1, <1>10, <3>1, FieldAt
    <3>3. QED BY <2>3, <3>2
  <2>7. R!RtidText(3, R!FieldToks(2)) = R!Display(r)
    BY <1>11, <2>2, <2>6, RtidSpelt
  <2>8. R!GiveTo(R!Text(R!Display(r)), pos + (1 + m))
    BY <2>1, <2>5, <2>7 DEF R!Give
  <2>9. QED BY <1>9, <2>8
<1>12. CASE r.kind = "uid" /\ r.name = {} /\ Len(b) = 4 /\ b[1] = Byte(1) /\ Fields(b, 2, r)
  <2>1. m = 4
    BY <1>6, <1>12
  <2>2. b[2] = Number("(varint)", r.group) /\ b[3] = Number("(varint)", r.id) /\ b[4] = Number("(u32)", r.obj)
    BY <1>12 DEF Fields
  <2>3. /\ R!Tok(pos + 1) = [tag |-> "(byte)", byte |-> 1]
        /\ R!Tok(pos + 2) = [tag |-> "(varint)", num |-> r.group] /\ out[pos + 2] = R!Tok(pos + 2)
        /\ R!Tok(pos + 3) = [tag |-> "(varint)", num |-> r.id] /\ out[pos + 3] = R!Tok(pos + 3)
        /\ R!Tok(pos + 4) = [tag |-> "(u32)", num |-> r.obj] /\ out[pos + 4] = R!Tok(pos + 4)
        /\ pos + 4 <= Len(out)
    BY <1>7, <1>12, <2>1, <2>2, BodyTags
  <2>4. pos + 1 + 1 = pos + 2 /\ pos + 1 + 2 = pos + 3 /\ pos + 1 + 3 = pos + 4
    BY <1>10
  <2>5. [i \in 1 .. 3 |-> R!Tok(pos + 1 + i).tag] = <<"(varint)", "(varint)", "(u32)">>
    BY <2>3, <2>4
  <2>6. R!Give(R!Text(R!RtidText(1, R!FieldToks(3))), 3 + 2)
    <3>1. [i \in 1 .. 3 |-> R!Tok(pos + 1 + i).tag] = R!Pieces(1) /\ 3 = Len(R!Pieces(1))
      BY <2>5, PiecesAre
    <3>2. R!Tok(pos + 1).tag = "(byte)" /\ R!Tok(pos + 1).byte = 1
      BY <2>3
    <3>3. QED BY <1>1, <1>4, <3>1, <3>2, FieldsTaken
  <2>7. R!FieldToks(3)[1] = out[pos + 2] /\ R!FieldToks(3)[2] = out[pos + 3] /\ R!FieldToks(3)[3] = out[pos + 4]
    <3>1. pos + 1 + 3 <= Len(out)
      BY <2>3, <2>4
    <3>2. /\ R!FieldToks(3)[1] = out[pos + 1 + 1] /\ R!FieldToks(3)[2] = out[pos + 1 + 2]
          /\ R!FieldToks(3)[3] = out[pos + 1 + 3]
      BY <1>1, <1>10, <3>1, FieldAt
    <3>3. QED BY <2>4, <3>2
  <2>8. R!RtidText(1, R!FieldToks(3)) = R!Display(r)
    BY <1>12, <2>3, <2>7, RtidSpelt
  <2>9. R!GiveTo(R!Text(R!Display(r)), pos + (1 + m))
    BY <2>1, <2>6, <2>8 DEF R!Give
  <2>10. QED BY <1>9, <2>9
<1>13. CASE /\ r.kind = "uid" /\ Len(b) = 5 /\ b[1] = Byte(2) /\ Fields(b, 3, r)
            /\ \E s : r.name = {s} /\ b[2] = Str(s)
  <2>0. PICK s : r.name = {s} /\ b[2] = Str(s)
    BY <1>13
  <2>1. m = 5
    BY <1>6, <1>13
  <2>2. b[3] = Number("(varint)", r.group) /\ b[4] = Number("(varint)", r.id) /\ b[5] = Number("(u32)", r.obj)
    BY <1>13 DEF Fields
  <2>3. /\ R!Tok(pos + 1) = [tag |-> "(byte)", byte |-> 2]
        /\ R!Tok(pos + 2) = [tag |-> "(utf8)", str |-> s] /\ out[pos + 2] = R!Tok(pos + 2)
        /\ R!Tok(pos + 3) = [tag |-> "(varint)", num |-> r.group] /\ out[pos + 3] = R!Tok(pos + 3)
        /\ R!Tok(pos + 4) = [tag |-> "(varint)", num |-> r.id] /\ out[pos + 4] = R!Tok(pos + 4)
        /\ R!Tok(pos + 5) = [tag |-> "(u32)", num |-> r.obj] /\ out[pos + 5] = R!Tok(pos + 5)
        /\ pos + 5 <= Len(out)
    BY <1>7, <1>13, <2>0, <2>1, <2>2, BodyTags
  <2>4. pos + 1 + 1 = pos + 2 /\ pos + 1 + 2 = pos + 3 /\ pos + 1 + 3 = pos + 4 /\ pos + 1 + 4 = pos + 5
    BY <1>10
  <2>5. [i \in 1 .. 4 |-> R!Tok(pos + 1 + i).tag] = <<"(utf8)", "(varint)", "(varint)", "(u32)">>
    BY <2>3, <2>4
  <2>6. R!Give(R!Text(R!RtidText(2, R!FieldToks(4))), 4 + 2)
    <3>1. [i \in 1 .. 4 |-> R!Tok(pos + 1 + i).tag] = R!Pieces(2) /\ 4 = Len(R!Pieces(2))
      BY <2>5, PiecesAre
    <3>2. R!Tok(pos + 1).tag = "(byte)" /\ R!Tok(pos + 1).byte = 2
      BY <2>3
    <3>3. QED BY <1>1, <1>4, <3>1, <3>2, FieldsTaken
  <2>7. /\ R!FieldToks(4)[1] = out[pos + 2] /\ R!FieldToks(4)[2] = out[pos + 3]
        /\ R!FieldToks(4)[3] = out[pos + 4] /\ R!FieldToks(4)[4] = out[pos + 5]
    <3>1. pos + 1 + 4 <= Len(out)
      BY <2>3, <2>4
    <3>2. /\ R!FieldToks(4)[1] = out[pos + 1 + 1] /\ R!FieldToks(4)[2] = out[pos + 1 + 2]
          /\ R!FieldToks(4)[3] = out[pos + 1 + 3] /\ R!FieldToks(4)[4] = out[pos + 1 + 4]
      BY <1>1, <1>10, <3>1, FieldAt
    <3>3. QED BY <2>4, <3>2
  <2>8. R!RtidText(2, R!FieldToks(4)) = R!Display(r)
    <3>1. /\ r.kind = "uid" /\ r.name = {s} /\ R!FieldToks(4)[1].str = s
          /\ R!FieldToks(4)[2].num = r.group /\ R!FieldToks(4)[3].num = r.id /\ R!FieldToks(4)[4].num = r.obj
      BY <1>13, <2>0, <2>3, <2>7, SMTT(30)
    <3>2. QED BY <3>1, RtidSpelt
  <2>9. R!GiveTo(R!Text(R!Display(r)), pos + (1 + m))
    BY <2>1, <2>6, <2>8 DEF R!Give
  <2>10. QED BY <1>9, <2>9
<1>14. QED BY <1>5, <1>11, <1>12, <1>13, BodyIs

(* Where the stream breaks off the reader stops: between two parts, after  *)
(* the beginning of a sequence, or within an RTID.                         *)
LEMMA BrokenOff ==
  ASSUME TypeOK, pos \in 1 .. Len(out) + 1, phase = "body", frames \in Seq(RFrame), frames # <<>>, R!DNext,
         R!Tag \in {"(eof)", "(torn)"}
  PROVE  Refused
<1>1. R!refuse \/ R!capacity_exceeded
  <2>1. R!Tag \notin ScalarTags \cup R!IntTags \cup DirectTags \cup DefinitionTags \cup ReferenceTags
          \cup {"F32", "F64", "BinaryBlob", "Rtid", "RtidNull", "ArrayBegin", "ArrayEnd", "ObjectEnd",
                "ObjectBegin", "CompactObjectBegin", "CompactBoolean"}
    BY DEF ScalarTags, R!IntTags, DirectTags, DefinitionTags, ReferenceTags
  <2>2. QED BY <2>1, BodyStep
<1>2. \E e : R!Fail(e)
  BY <1>1, Zenon DEF R!refuse, R!capacity_exceeded
<1>3. QED BY <1>2, FailRefuses

LEMMA BrokenSeq ==
  ASSUME NEW n, NEW c, NEW solid, BrokenAt(n, c, solid), c.call = "seq", pos <= solid, R!DNext
  PROVE  Refused
<1>1. Weight(n, c) = 2 /\ Len(out) \in Nat /\ TypeOK
  BY TokIs DEF Weight, BrokenAt, InBody
<1>2. pos = solid /\ pos \in 1 .. Len(out)
  BY <1>1 DEF BrokenAt, InBody
<1>3. out[pos] = [tag |-> "ArrayBegin"] /\ R!Tok(pos + 1).tag \in {"(eof)", "(torn)"}
  <2>1. Encodes(c, out[pos + 0], 0)
    BY <1>1, <1>2 DEF BrokenAt
  <2>2. pos + 0 = pos
    BY <1>2
  <2>3. QED BY <1>2, <2>1, <2>2 DEF Encodes, BrokenAt
<1>4. out[pos].tag \notin {"(byte)", "ObjectEnd", "ArrayEnd", "(torn)", "(eof)"} \cup R!NoValue
  BY <1>3 DEF R!NoValue
<1>5. Visit("ArrayBegin")
  BY <1>2, <1>3, <1>4, PartVisited DEF BrokenAt
<1>6. R!enter_seq
  BY <1>5 DEF Visit, ScalarTags, R!IntTags, DirectTags, DefinitionTags, ReferenceTags
<1>7. QED BY <1>3, <1>6, SeqOutcome

LEMMA BrokenRtid ==
  ASSUME NEW n, NEW c, NEW solid, BrokenAt(n, c, solid), c.call = "rtid", pos <= solid, R!DNext
  PROVE  Refused
<1>0. Len(out) \in Nat /\ TypeOK /\ pos \in 1 .. Len(out) + 1 /\ solid \in Nat /\ solid <= Len(out) /\ pos \in 1 .. Len(out)
  BY TokIs DEF BrokenAt, InBody
<1>1. PICK r, b, m : r \in Rtids /\ r = c.rtid /\ b = RtidBody(r) /\ m \in 3 .. 5 /\ m = Len(b) /\ Weight(n, c) = 1 + m
  <2>1. c.rtid \in Rtids
    BY DEF BrokenAt, InBody, Call, BodyCall
  <2>2. Len(RtidBody(c.rtid)) \in 3 .. 5 /\ Weight(n, c) = 1 + Len(RtidBody(c.rtid))
    BY <2>1, BodyCalls DEF Weight
  <2>3. QED BY <2>1, <2>2
<1>2. \A k \in 0 .. m : pos + k <= solid => Encodes(c, out[pos + k], k)
  <2>1. (1 + m) - 1 = m
    BY <1>1
  <2>2. QED BY <1>1, <2>1 DEF BrokenAt
<1>3. out[pos] = [tag |-> "Rtid"]
  <2>1. pos + 0 = pos /\ 0 \in 0 .. m
    BY <1>0, <1>1
  <2>2. Encodes(c, out[pos], 0)
    BY <1>2, <2>1
  <2>3. QED BY <2>2 DEF Encodes
<1>4. out[pos].tag \notin {"(byte)", "ObjectEnd", "ArrayEnd", "(torn)", "(eof)"} \cup R!NoValue
  BY <1>3 DEF R!NoValue
<1>5. Visit("Rtid")
  BY <1>0, <1>3, <1>4, PartVisited DEF BrokenAt
<1>6. R!visit_rtid
  BY <1>5 DEF Visit, ScalarTags, R!IntTags, DirectTags, DefinitionTags, ReferenceTags
<1>7. SUFFICES ASSUME NEW sub \in {0, 1, 2, 3}, RtidTaken(sub, Len(R!Pieces(sub))) PROVE FALSE
  BY <1>0, <1>6, RtidOutcome
<1>8. PICK j \in 1 .. m : pos + j = solid + 1
  <2>1. solid + 1 - pos \in 1 .. m
    BY <1>0, <1>1 DEF BrokenAt
  <2>2. pos + (solid + 1 - pos) = solid + 1
    BY <1>0
  <2>3. QED BY <2>1, <2>2
<1>9. R!Tok(pos + j).tag \in {"(eof)", "(torn)"}
  BY <1>8 DEF BrokenAt
<1>10. R!Tok(pos + 1).tag = "(byte)" /\ R!Tok(pos + 1) = out[pos + 1] /\ out[pos + 1].byte = sub
       /\ [i \in 1 .. Len(R!Pieces(sub)) |-> R!Tok(pos + 1 + i).tag] = R!Pieces(sub)
  <2>1. /\ out[pos + 1].tag = "(byte)" /\ R!Tok(pos + 1) = out[pos + 1] /\ out[pos + 1].byte = sub
        /\ [i \in 1 .. Len(R!Pieces(sub)) |-> R!Tok(pos + 1 + i).tag] = R!Pieces(sub)
    BY <1>7, Zenon DEF RtidTaken
  <2>2. QED BY <2>1
<1>11. j # 1
  BY <1>9, <1>10
<1>12. out[pos + 1] = BodyTok(b[1])
  <2>1. pos + 1 <= solid /\ 1 \in 0 .. m /\ 1 # 0
    BY <1>0, <1>1, <1>8, <1>11
  <2>2. Encodes(c, out[pos + 1], 1)
    BY <1>2, <2>1
  <2>3. QED BY <1>1, <2>1, <2>2 DEF Encodes
<1>13. m = 1 + Len(R!Pieces(sub)) /\ sub \in {1, 2, 3}
  <2>1. \/ Len(b) = 3 /\ b[1] = Byte(3)
        \/ Len(b) = 4 /\ b[1] = Byte(1)
        \/ Len(b) = 5 /\ b[1] = Byte(2)
    BY <1>1, BodyIs
  <2>2. \A i : b[1] = Byte(i) => i = sub
    <3>1. SUFFICES ASSUME NEW i, b[1] = Byte(i) PROVE i = sub
      OBVIOUS
    <3>2. BodyTok(b[1]) = [tag |-> "(byte)", byte |-> i]
      BY <3>1, BodyTags
    <3>3. QED BY <1>10, <1>12, <3>2
  <2>3. (m = 3 /\ sub = 3) \/ (m = 4 /\ sub = 1) \/ (m = 5 /\ sub = 2)
    BY <1>1, <2>1, <2>2
  <2>4. Len(R!Pieces(3)) = 2 /\ Len(R!Pieces(1)) = 3 /\ Len(R!Pieces(2)) = 4
    BY PiecesAre
  <2>5. PICK l : l = Len(R!Pieces(sub))
    OBVIOUS
  <2>6. (m = 3 /\ sub = 3 /\ l = 2) \/ (m = 4 /\ sub = 1 /\ l = 3) \/ (m = 5 /\ sub = 2 /\ l = 4)
    BY <2>3, <2>4, <2>5, Zenon
  <2>7. m = 1 + l /\ sub \in {1, 2, 3}
    BY <2>6
  <2>8. QED BY <2>5, <2>7
<1>14. PICK i \in 1 .. Len(R!Pieces(sub)) : j = 1 + i
  <2>1. Len(R!Pieces(sub)) \in Nat
    BY <1>13, PiecesAre
  <2>2. j - 1 \in 1 .. Len(R!Pieces(sub)) /\ j = 1 + (j - 1)
    BY <1>8, <1>11, <1>13, <2>1
  <2>3. QED BY <2>2
<1>15. R!Tok(pos + 1 + i).tag = R!Pieces(sub)[i] /\ pos + 1 + i = pos + j
  <2>1. i \in Nat
    BY <1>13, PiecesAre
  <2>2. QED BY <1>0, <1>10, <1>14, <2>1
<1>16. R!Pieces(sub)[i] \in {"(varint)", "(u32)", "(utf8)"}
  BY <1>13, PiecesAre
<1>17. QED BY <1>9, <1>15, <1>16

LEMMA BrokenPart ==
  ASSUME NEW n, NEW c, NEW solid, BrokenAt(n, c, solid), R!DNext
  PROVE  Refused
<1>1. /\ TypeOK /\ pos \in 1 .. Len(out) + 1 /\ phase = "body" /\ frames \in Seq(RFrame) /\ frames # <<>>
      /\ Len(out) \in Nat /\ solid \in Nat /\ pos <= solid + 1
  BY TokIs DEF BrokenAt, InBody
<1>2. CASE pos = solid + 1
  <2>1. R!Tag \in {"(eof)", "(torn)"}
    BY <1>2 DEF BrokenAt, R!Tag, R!TagAt
  <2>2. QED BY <1>1, <2>1, BrokenOff
<1>3. CASE pos <= solid
  <2>1. Weight(n, c) # 0 /\ Weight(n, c) # 1
    BY <1>1, <1>3 DEF BrokenAt
  <2>2. c.call \in {"seq", "rtid"}
    BY <2>1 DEF Weight
  <2>3. QED BY <1>3, <2>2, BrokenSeq, BrokenRtid
<1>4. QED BY <1>1, <1>2, <1>3
-----------------------------------------------------------------------------
(* Every part that lies there whole.                                       *)
LEMMA ReadPart ==
  ASSUME IInv, ReaderInv, SameTexts, NEW n, NEW w, AtPart(n, w.is), R!DNext,
         w.is.call = "str" => (out[pos].tag \in ReferenceTags => AskedFor(pos) = w.is.str)
  PROVE  Took(w, pos + Weight(n, w.is))
<1>1. w.is.call \in Told /\ n # 1
  BY DEF AtPart, InBody, Legal
<1>2. CASE w.is.call = "bool"
  BY <1>2, ReadBool DEF Weight
<1>3. CASE w.is.call = "float"
  BY <1>3, ReadFloat DEF Weight
<1>4. CASE w.is.call = "none"
  BY <1>4, ReadNone DEF Weight
<1>5. CASE w.is.call = "bytes"
  BY <1>5, ReadBytes DEF Weight
<1>6. CASE w.is.call = "int"
  BY <1>6, ReadInt DEF Weight
<1>7. CASE w.is.call = "str"
  BY <1>7, ReadStr DEF Weight
<1>8. CASE w.is.call = "rtid"
  BY <1>8, ReadRtid
<1>9. CASE w.is.call = "seq"
  BY <1>9, ReadSeq DEF Weight
<1>10. CASE w.is.call = "map"
  BY <1>1, <1>10, ReadMap DEF Weight
<1>11. CASE w.is.call = "end"
  BY <1>11, ReadEnd DEF Weight
<1>12. QED BY <1>1, <1>2, <1>3, <1>4, <1>5, <1>6, <1>7, <1>8, <1>9, <1>10, <1>11 DEF Told

(* How the stream ends after its solid tokens.                             *)
LEMMA StreamEnds ==
  ASSUME TypeOK, NEW at, NEW sh, NEW solid, Written(at, sh, solid), result \in {"ok", "err"}
  PROVE  /\ solid \in Nat /\ solid <= Len(out) /\ Len(out) \in Nat
         /\ result = "ok" => R!Tok(solid + 1).tag = "(footer)"
         /\ result = "err" => R!Tok(solid + 1).tag \in {"(eof)", "(torn)"}
<1>1. solid \in Nat /\ Len(out) \in Nat
  BY TokIs DEF Written
<1>2. CASE result = "ok"
  <2>1. Len(out) = solid + 1 /\ out[Len(out)].tag = "(footer)"
    BY <1>2 DEF Written
  <2>2. QED BY <1>1, <1>2, <2>1, TokIs
<1>3. CASE result = "err" /\ Len(out) = solid
  <2>1. R!Tok(solid + 1) = [tag |-> "(eof)"]
    BY <1>1, <1>3, TokIs
  <2>2. QED BY <1>1, <1>3, <2>1
<1>4. CASE result = "err" /\ Len(out) = solid + 1 /\ out[Len(out)].tag = "(torn)"
  BY <1>1, <1>4, TokIs
<1>5. QED BY <1>2, <1>3, <1>4 DEF Written

(* The part that comes next lies there whole, or breaks off, or there is   *)
(* none and the stream ends before its last container does.                *)
WholeAhead(at, sh, solid, n) ==
  /\ n \in 1 .. Len(wrote) /\ AtPart(n, wrote[n].is)
  /\ at[n] = pos + Weight(n, wrote[n].is) /\ at[n] <= solid + 1
  /\ sh[n] = Shape(frames, wrote[n].is) /\ origin[pos] = n

LEMMA Ahead ==
  ASSUME TypeOK, pos \in 1 .. Len(out) + 1, result \in {"ok", "err"}, phase = "body",
         NEW at, NEW sh, NEW solid, Written(at, sh, solid), Reading(at, sh, solid)
  PROVE  \/ WholeAhead(at, sh, solid, Len(seen) + 1)
         \/ result = "err" /\ BrokenAt(Len(seen) + 1, wrote[Len(seen) + 1].is, solid)
         \/ result = "err" /\ R!Tag \in {"(eof)", "(torn)"} /\ frames \in Seq(RFrame) /\ frames # <<>>
<1>1. /\ solid \in Nat /\ solid <= Len(out) /\ Len(out) \in Nat
      /\ result = "ok" => R!Tok(solid + 1).tag = "(footer)"
      /\ result = "err" => R!Tok(solid + 1).tag \in {"(eof)", "(torn)"}
  BY StreamEnds
<1>2. PICK m \in Nat : m = Len(seen)
  BY DEF Reading
<1>3. PICK l \in Nat : l = Len(wrote) /\ wrote \in Seq(Entry)
  BY DEF TypeOK
<1>4. /\ m <= l /\ m # 0 /\ frames = sh[m] /\ pos = at[m] /\ pos <= solid + 1 /\ frames # <<>>
  <2>1. Len(seen) <= Len(wrote) /\ seen # <<>> /\ (\E S : seen \in Seq(S)) /\ frames = sh[Len(seen)] /\ pos = at[Len(seen)]
        /\ pos <= solid + 1 /\ frames # <<>>
    BY DEF Reading
  <2>2. m # 0
    BY <1>2, <2>1
  <2>3. QED BY <1>2, <1>3, <2>1, <2>2
<1>5. /\ sh \in [0 .. l -> Seq(RFrame)] /\ at \in [0 .. l -> Nat \ {0}]
      /\ \A n \in 1 .. l : Legal(n, sh[n - 1], wrote[n].is) /\ sh[n] = Shape(sh[n - 1], wrote[n].is)
      /\ \A n \in 1 .. l : /\ at[n] = at[n - 1] + Weight(n, wrote[n].is)
                           /\ at[n - 1] <= solid + 1
                           /\ EntryAt(n, wrote[n].is, out, origin, at[n - 1], solid)
  BY <1>3 DEF Written, Shapes, Layout
<1>6. frames \in Seq(RFrame)
  <2>1. m \in 0 .. l
    BY <1>4
  <2>2. sh[m] \in Seq(RFrame)
    BY <1>5, <2>1
  <2>3. QED BY <1>4, <2>2
<1>7. CASE m = l
  <2>1. result # "ok"
    BY <1>3, <1>4, <1>7 DEF Written
  <2>2. wrote # <<>>
    BY <1>3, <1>4, <1>7
  <2>3. result = "err" /\ at[l] >= solid + 1
    BY <1>3, <2>1, <2>2 DEF Written
  <2>4. pos = solid + 1
    <3>1. l \in 0 .. l /\ at[l] \in Nat
      BY <1>3, <1>5
    <3>2. pos = at[l]
      BY <1>4, <1>7
    <3>3. pos >= solid + 1 /\ pos <= solid + 1 /\ pos \in Nat
      BY <1>4, <2>3, <3>1, <3>2
    <3>4. QED BY <1>1, <3>3
  <2>5. R!Tag \in {"(eof)", "(torn)"}
    BY <1>1, <2>3, <2>4 DEF R!Tag, R!TagAt
  <2>6. QED BY <1>4, <1>6, <2>3, <2>5
<1>8. CASE m # l
  <2>1. PICK n \in 1 .. l : n = m + 1 /\ n - 1 = m /\ n > 1 /\ n \in Nat
    BY <1>3, <1>4, <1>8
  <2>2. PICK c : c = wrote[n].is
    OBVIOUS
  <2>3. c \in Call
    <3>1. wrote[n] \in Entry
      BY <1>3
    <3>2. QED BY <2>2, <3>1 DEF Entry
  <2>4. InBody(n, c)
    BY <1>4, <1>5, <1>6, <2>1, <2>2, <2>3 DEF InBody
  <2>5. PICK d \in Nat \ {0} : d = Weight(n, c)
    BY <2>4, SomeToken
  <2>6. at[n] = pos + d /\ sh[n] = Shape(frames, c) /\ EntryAt(n, c, out, origin, pos, solid)
    BY <1>4, <1>5, <2>1, <2>2, <2>5
  <2>7. \A k \in 0 .. d - 1 : pos + k <= solid => Encodes(c, out[pos + k], k) /\ origin[pos + k] = n
    BY <2>5, <2>6 DEF EntryAt
  <2>8. CASE at[n] <= solid + 1
    <3>1. \A k \in 0 .. d - 1 : pos + k <= solid
      BY <1>1, <2>6, <2>8
    <3>2. pos + d <= Len(out) + 1 /\ \A k \in 0 .. d - 1 : Encodes(c, out[pos + k], k)
      BY <1>1, <2>6, <2>7, <2>8, <3>1
    <3>3. AtPart(n, c)
      BY <2>4, <2>5, <3>2 DEF AtPart
    <3>4. origin[pos] = n
      <4>1. 0 \in 0 .. d - 1 /\ pos + 0 = pos
        OBVIOUS
      <4>2. QED BY <2>7, <3>1, <4>1
    <3>5. WholeAhead(at, sh, solid, n)
      BY <1>3, <2>2, <2>5, <2>6, <2>8, <3>3, <3>4 DEF WholeAhead
    <3>6. QED BY <1>2, <2>1, <3>5
  <2>9. CASE ~(at[n] <= solid + 1)
    <3>1. n = l
      <4>1. SUFFICES ASSUME n # l PROVE FALSE
        OBVIOUS
      <4>2. n + 1 \in 1 .. l /\ (n + 1) - 1 = n
        BY <4>1
      <4>3. QED BY <1>5, <2>9, <4>2
    <3>2. result = "err"
      BY <1>1, <1>3, <2>9, <3>1 DEF Written
    <3>3. pos + d > solid + 1
      BY <1>1, <2>6, <2>9
    <3>4. BrokenAt(n, c, solid)
      BY <1>1, <1>4, <2>4, <2>5, <2>7, <3>2, <3>3 DEF BrokenAt
    <3>5. QED BY <1>2, <2>1, <2>2, <3>2, <3>4
  <2>10. QED BY <2>8, <2>9
<1>9. QED BY <1>7, <1>8

(* The steps of the reader, by where it stands.                            *)
LEMMA PhaseStep ==
  ASSUME R!DNext
  PROVE  \/ phase = "header" /\ R!validate_header
         \/ phase = "root" /\ R!enter_root
         \/ phase = "body"
         \/ phase = "footer" /\ R!validate_footer
<1>1. R!Due \/ R!InStandardSeq \/ R!InCompactSeq \/ R!KeyIsDue => phase = "body"
  BY DEF R!Due, R!InStandardSeq, R!InCompactSeq, R!InSeq, R!InMap, R!KeyIsDue
<1>2. \/ R!validate_header \/ R!enter_root \/ R!validate_footer
      \/ R!Due \/ R!InStandardSeq \/ R!InCompactSeq \/ R!KeyIsDue
  BY Zenon DEF R!DNext, R!end_of_map, R!capacity_exceeded, R!end_of_seq, R!end_of_compact_seq, R!misplaced,
     R!visit_scalar, R!visit_float, R!visit_int, R!visit_direct, R!visit_definition, R!visit_reference,
     R!visit_blob, R!visit_rtid, R!visit_none, R!visit_compact_definition, R!visit_compact_reference,
     R!visit_compact_rtid, R!visit_compact_blob, R!visit_compact_bool, R!enter_compact_seq, R!enter_seq,
     R!enter_map, R!refuse
<1>3. /\ R!validate_header => phase = "header"
      /\ R!enter_root => phase = "root"
      /\ R!validate_footer => phase = "footer"
  BY DEF R!validate_header, R!enter_root, R!validate_footer
<1>4. QED BY <1>1, <1>2, <1>3

(* What a step of the reader comes to: a part of the value handed over,    *)
(* the header passed, the whole value accepted, a broken file refused.     *)
Handed == /\ phase \in {"root", "body"} /\ phase' \in {"body", "footer"}
          /\ Len(seen) < Len(wrote)
          /\ \E v : seen' = Append(seen, v) /\ Normal(v) = Canon(wrote[Len(seen) + 1])
Passed == phase = "header" /\ phase' = "root" /\ seen' = seen
Taken  == phase = "footer" /\ phase' = "ok" /\ seen' = seen /\ result = "ok" /\ Len(seen) = Len(wrote)
Broken == phase \notin {"ok", "err"} /\ Refused /\ result = "err"
Outcome == Handed \/ Passed \/ Taken \/ Broken

(* After a part has been handed over the reader is where the next begins.  *)
LEMMA HandedReads ==
  ASSUME TypeOK, result \in {"ok", "err"}, UNCHANGED svars,
         NEW at, NEW sh, NEW solid, Written(at, sh, solid), Reading(at, sh, solid),
         Handed, pos' = at[Len(seen) + 1], at[Len(seen) + 1] <= solid + 1, solid >= 1, frames' = sh[Len(seen) + 1],
         phase' = IF frames' = <<>> THEN "footer" ELSE "body"
  PROVE  Reading(at, sh, solid)'
<1>1. PICK v : seen' = Append(seen, v) /\ Normal(v) = Canon(wrote[Len(seen) + 1])
  BY DEF Handed
<1>2. /\ wrote' = wrote /\ result' = result /\ Len(seen) < Len(wrote) /\ Len(wrote) \in Nat /\ solid \in Nat
      /\ (\E S : seen \in Seq(S))
      /\ \A i \in 1 .. Len(seen) : Normal(seen[i]) = Canon(wrote[i])
  BY DEF Handed, Reading, svars, TypeOK, Written
<1>3. PICK S : seen \in Seq(S)
  BY <1>2
<1>4. seen' \in Seq(S \cup {v}) /\ Len(seen') = Len(seen) + 1 /\ seen' # <<>> /\ Len(seen) \in Nat
      /\ \A i \in 1 .. Len(seen') : seen'[i] = IF i = Len(seen) + 1 THEN v ELSE seen[i]
  BY <1>1, <1>3
<1>5. Len(seen') <= Len(wrote')
  BY <1>2, <1>4
<1>6. ASSUME NEW i \in 1 .. Len(seen') PROVE Normal(seen'[i]) = Canon(wrote'[i])
  <2>1. CASE i = Len(seen) + 1
    BY <1>1, <1>2, <1>4, <2>1
  <2>2. CASE i # Len(seen) + 1
    <3>1. i \in 1 .. Len(seen)
      BY <1>4, <2>2
    <3>2. QED BY <1>2, <1>4, <2>2, <3>1
  <2>3. QED BY <2>1, <2>2
<1>8. phase' \in {"body", "footer"} /\ (phase' = "footer" <=> frames' = <<>>)
  BY DEF Handed
<1>9. QED BY <1>2, <1>4, <1>5, <1>6, <1>8 DEF Reading

LEMMA RefusedReads ==
  ASSUME TypeOK, result \in {"ok", "err"}, UNCHANGED svars, phase' \in {"err", "ok"}, seen' = seen,
         phase' = "ok" => phase = "footer",
         NEW at, NEW sh, NEW solid, Written(at, sh, solid), Reading(at, sh, solid)
  PROVE  Reading(at, sh, solid)'
<1>1. wrote' = wrote /\ result' = result
  BY DEF svars
<1>2. phase' # "err" => solid >= 1
  BY DEF Reading
<1>3. QED BY <1>1, <1>2 DEF Reading

LEMMA HeaderReads ==
  ASSUME TypeOK, ReaderInv, result \in {"ok", "err"}, UNCHANGED svars, phase = "header", R!validate_header,
         NEW at, NEW sh, NEW solid, Written(at, sh, solid), Reading(at, sh, solid)
  PROVE  Outcome /\ Reading(at, sh, solid)'
<1>1. /\ solid \in Nat /\ solid <= Len(out) /\ Len(out) \in Nat
      /\ result = "ok" => R!Tok(solid + 1).tag = "(footer)"
      /\ result = "err" => R!Tok(solid + 1).tag \in {"(eof)", "(torn)"}
  BY StreamEnds
<1>2. CASE solid = 0
  <2>1. result = "err"
    BY <1>2 DEF Written
  <2>2. R!Tok(1).tag # "(header)"
    BY <1>1, <1>2, <2>1
  <2>3. Refused
    BY <2>2, HeaderOutcome
  <2>4. Reading(at, sh, solid)'
    BY <2>3, RefusedReads DEF Refused
  <2>5. QED BY <2>1, <2>3, <2>4 DEF Outcome, Broken
<1>3. CASE solid # 0
  <2>1. solid >= 1 /\ 1 \in 1 .. Len(out)
    BY <1>1, <1>3
  <2>2. R!Tok(1) = [tag |-> "(header)", version |-> "standard"]
    BY <2>1, TokIs DEF Written, Header
  <2>3. phase' = "root" /\ pos' = 2 /\ seen' = seen
    <3>1. R!Tok(1).tag = "(header)" /\ R!Tok(1).version = "standard"
      BY <2>2
    <3>2. QED BY <3>1 DEF R!validate_header
  <2>4. wrote' = wrote /\ result' = result
    BY DEF svars
  <2>5. Reading(at, sh, solid)'
    BY <2>1, <2>3, <2>4 DEF Reading
  <2>6. QED BY <2>3, <2>5 DEF Outcome, Passed
<1>4. QED BY <1>2, <1>3

(* The map at the root has no beginning, and what follows the header is    *)
(* not taken for one.                                                      *)
LEMMA RootReads ==
  ASSUME TypeOK, ReaderInv, result \in {"ok", "err"}, UNCHANGED svars, phase = "root", R!enter_root,
         NEW at, NEW sh, NEW solid, Written(at, sh, solid), Reading(at, sh, solid)
  PROVE  Outcome /\ Reading(at, sh, solid)'
<1>1. /\ solid \in Nat /\ solid <= Len(out) /\ Len(out) \in Nat
      /\ result = "ok" => R!Tok(solid + 1).tag = "(footer)"
      /\ result = "err" => R!Tok(solid + 1).tag \in {"(eof)", "(torn)"}
  BY StreamEnds
<1>2. seen = <<>> /\ pos = 2 /\ solid >= 1
  BY DEF Reading
<1>3. PICK l \in Nat : l = Len(wrote) /\ l # 0 /\ wrote \in Seq(Entry)
  <2>1. wrote # <<>>
    BY <1>2 DEF Written
  <2>2. wrote \in Seq(Entry)
    BY DEF TypeOK
  <2>3. Len(wrote) \in Nat /\ Len(wrote) # 0
    BY <2>1, <2>2
  <2>4. QED BY <2>2, <2>3
<1>4. /\ sh \in [0 .. l -> Seq(RFrame)] /\ at \in [0 .. l -> Nat \ {0}] /\ sh[0] = <<>> /\ at[0] = 2
      /\ \A n \in 1 .. l : Legal(n, sh[n - 1], wrote[n].is) /\ sh[n] = Shape(sh[n - 1], wrote[n].is)
      /\ \A n \in 1 .. l : /\ at[n] = at[n - 1] + Weight(n, wrote[n].is)
                           /\ EntryAt(n, wrote[n].is, out, origin, at[n - 1], solid)
  BY <1>3 DEF Written, Shapes, Layout
<1> DEFINE root == <<[kind |-> "map", left |-> 0, table |-> <<>>]>>
<1>5. wrote[1].is.call = "map" /\ at[1] = 2 /\ sh[1] = root
  <2>1. 1 \in 1 .. l /\ 1 - 1 = 0
    BY <1>3
  <2>2. Legal(1, <<>>, wrote[1].is) /\ sh[1] = Shape(<<>>, wrote[1].is) /\ at[1] = 2 + Weight(1, wrote[1].is)
    BY <1>4, <2>1
  <2>3. wrote[1].is.call = "map"
    BY <2>2 DEF Legal
  <2>4. Weight(1, wrote[1].is) = 0
    BY <2>3 DEF Weight
  <2>5. Shape(<<>>, wrote[1].is) = Append(<<>>, [kind |-> "map", left |-> 0, table |-> <<>>])
    BY <2>3 DEF Shape, Enter
  <2>6. QED BY <2>2, <2>3, <2>4, <2>5
<1>6. CASE R!Tag = "(eof)"
  <2>1. R!Fail("Io")
    BY <1>6 DEF R!enter_root
  <2>2. Refused
    BY <2>1, FailRefuses
  <2>3. result # "ok"
    <3>1. SUFFICES ASSUME result = "ok" PROVE FALSE
      OBVIOUS
    <3>2. Len(out) = solid + 1
      BY <3>1 DEF Written
    <3>3. pos = Len(out) + 1
      BY <1>6, TagHere DEF ReaderInv
    <3>4. QED BY <1>1, <1>2, <3>2, <3>3
  <2>4. Reading(at, sh, solid)'
    BY <2>2, RefusedReads DEF Refused
  <2>5. QED BY <2>2, <2>3, <2>4 DEF Outcome, Broken
<1>7. CASE R!Tag # "(eof)"
  <2>1. R!Tag \notin {"ObjectBegin", "CompactObjectBegin"}
    <3>1. CASE solid = 1
      <4>1. R!Tok(2).tag \in {"(footer)", "(eof)", "(torn)"}
        BY <1>1, <3>1
      <4>2. QED BY <1>2, <4>1 DEF R!Tag, R!TagAt
    <3>2. CASE solid # 1
      <4>1. l # 1
        <5>1. SUFFICES ASSUME l = 1 PROVE FALSE
          OBVIOUS
        <5>2. at[l] >= solid + 1
          BY <1>1, <1>2, <1>3 DEF Written
        <5>3. QED BY <1>1, <1>2, <1>5, <3>2, <5>1, <5>2
      <4>2. 2 \in 1 .. l /\ 2 - 1 = 1
        BY <1>3, <4>1
      <4>3. PICK c : c = wrote[2].is
        OBVIOUS
      <4>4. Legal(2, root, c) /\ EntryAt(2, c, out, origin, 2, solid)
        BY <1>4, <1>5, <4>2, <4>3
      <4>5. c.call \in {"end", "str"}
        <5>1. root[Len(root)].kind = "map" /\ root[Len(root)].left = 0
          OBVIOUS
        <5>2. KeyDue(root)
          BY <5>1 DEF KeyDue
        <5> HIDE DEF root
        <5>3. QED BY <4>4, <5>2 DEF Legal
      <4>6. Encodes(c, out[2], 0)
        <5>1. Weight(2, c) = 1
          BY <4>5 DEF Weight
        <5>2. 0 \in 0 .. Weight(2, c) - 1 /\ 2 + 0 <= solid /\ 2 + 0 = 2
          BY <1>1, <1>2, <3>2, <5>1
        <5>3. QED BY <4>4, <5>2 DEF EntryAt
      <4>7. out[2].tag \notin {"ObjectBegin", "CompactObjectBegin"}
        <5>1. CASE c.call = "end"
          <6>1. out[2] = [tag |-> IF c.of = "map" THEN "ObjectEnd" ELSE "ArrayEnd"]
            BY <4>6, <5>1 DEF Encodes
          <6>2. QED BY <6>1
        <5>2. CASE c.call = "str"
          <6>1. IsStr(c.str, out[2])
            BY <4>6, <5>2 DEF Encodes
          <6>2. QED BY <6>1 DEF IsStr, DirectTags, DefinitionTags, ReferenceTags
        <5>3. QED BY <4>5, <5>1, <5>2
      <4>8. R!Tok(2) = out[2]
        <5>1. 2 \in 1 .. Len(out)
          BY <1>1, <1>2, <3>2
        <5>2. QED BY <5>1, TokIs
      <4>9. QED BY <1>2, <4>7, <4>8 DEF R!Tag, R!TagAt
    <3>3. QED BY <3>1, <3>2
  <2>2. phase' = "body" /\ pos' = 2 /\ frames' = root /\ seen' = Append(seen, [visit |-> "map"])
    BY <1>2, <1>7, <2>1 DEF R!enter_root
  <2>3. Len(seen) = 0 /\ Len(seen) + 1 = 1 /\ Len(seen) < Len(wrote)
    BY <1>2, <1>3
  <2>4. Normal([visit |-> "map"]) = Canon(wrote[1])
    BY <1>5 DEF Normal, Canon
  <2>5. Handed
    BY <2>2, <2>3, <2>4 DEF Handed
  <2>6. /\ pos' = at[1] /\ at[1] <= solid + 1 /\ frames' = sh[1]
        /\ phase' = IF frames' = <<>> THEN "footer" ELSE "body"
    BY <1>1, <1>2, <1>5, <2>2
  <2>7. Reading(at, sh, solid)'
    BY <1>2, <2>3, <2>5, <2>6, HandedReads
  <2>8. QED BY <2>5, <2>7 DEF Outcome
<1>8. QED BY <1>6, <1>7

LEMMA FooterReads ==
  ASSUME TypeOK, ReaderInv, result \in {"ok", "err"}, UNCHANGED svars, phase = "footer", R!validate_footer,
         NEW at, NEW sh, NEW solid, Written(at, sh, solid), Reading(at, sh, solid)
  PROVE  Outcome /\ Reading(at, sh, solid)'
<1>1. /\ solid \in Nat /\ solid <= Len(out) /\ Len(out) \in Nat
      /\ result = "ok" => R!Tok(solid + 1).tag = "(footer)"
      /\ result = "err" => R!Tok(solid + 1).tag \in {"(eof)", "(torn)"}
  BY StreamEnds
<1>2. PICK m \in Nat : m = Len(seen)
  BY DEF Reading
<1>3. PICK l \in Nat : l = Len(wrote)
  <2>1. Len(wrote) \in Nat
    BY DEF TypeOK
  <2>2. QED BY <2>1
<1>4. m <= l /\ m # 0 /\ sh[m] = <<>> /\ pos = at[m] /\ pos <= solid + 1 /\ solid >= 1
  <2>1. /\ Len(seen) <= Len(wrote) /\ seen # <<>> /\ (\E S : seen \in Seq(S)) /\ frames = sh[Len(seen)]
        /\ pos = at[Len(seen)] /\ pos <= solid + 1 /\ frames = <<>> /\ solid >= 1
    BY DEF Reading
  <2>2. m # 0
    BY <1>2, <2>1
  <2>3. QED BY <1>2, <1>3, <2>1, <2>2
<1>5. m = l
  <2>1. SUFFICES ASSUME m # l PROVE FALSE
    OBVIOUS
  <2>2. m + 1 \in 1 .. l /\ (m + 1) - 1 = m /\ m + 1 # 1
    BY <1>4, <2>1
  <2>3. Legal(m + 1, sh[m], wrote[m + 1].is)
    <3>1. \A n \in 1 .. Len(wrote) : Legal(n, sh[n - 1], wrote[n].is)
      BY DEF Written, Shapes
    <3>2. QED BY <1>3, <2>2, <3>1
  <2>4. QED BY <1>4, <2>2, <2>3 DEF Legal
<1>6. pos = solid + 1
  <2>1. at[l] >= solid + 1
    BY <1>1, <1>3, <1>4 DEF Written
  <2>2. at \in [0 .. l -> Nat \ {0}]
    BY <1>3 DEF Written, Layout
  <2>3. QED BY <1>1, <1>4, <1>5, <2>1, <2>2
<1>7. R!Tag = R!Tok(solid + 1).tag
  BY <1>1, <1>6 DEF R!Tag, R!TagAt
<1>8. CASE result = "ok"
  <2>1. phase' = "ok" /\ seen' = seen
    BY <1>1, <1>7, <1>8 DEF R!validate_footer
  <2>2. Reading(at, sh, solid)'
    BY <2>1, RefusedReads
  <2>3. QED BY <1>2, <1>3, <1>5, <1>8, <2>1, <2>2 DEF Outcome, Taken
<1>9. CASE result = "err"
  <2>1. R!Fail("InvalidFooter")
    BY <1>1, <1>7, <1>9 DEF R!validate_footer
  <2>2. Refused
    BY <2>1, FailRefuses
  <2>3. Reading(at, sh, solid)'
    BY <2>2, RefusedReads DEF Refused
  <2>4. QED BY <1>9, <2>2, <2>3 DEF Outcome, Broken
<1>10. QED BY <1>8, <1>9

(* A text that is referred to is the one that was asked for.               *)
LEMMA BodyReads ==
  ASSUME IInv, ReaderInv, SameTexts, result \in {"ok", "err"}, UNCHANGED svars, phase = "body", R!DNext,
         NEW at, NEW sh, NEW solid, Written(at, sh, solid), Reading(at, sh, solid)
  PROVE  Outcome /\ Reading(at, sh, solid)'
<1>1. TypeOK /\ pos \in 1 .. Len(out) + 1
  BY DEF IInv, ReaderInv
<1>2. CASE WholeAhead(at, sh, solid, Len(seen) + 1)
  <2>1. PICK n : n = Len(seen) + 1
    OBVIOUS
  <2>2. /\ n \in 1 .. Len(wrote) /\ AtPart(n, wrote[n].is)
        /\ at[n] = pos + Weight(n, wrote[n].is) /\ at[n] <= solid + 1
        /\ sh[n] = Shape(frames, wrote[n].is) /\ origin[pos] = n
    BY <1>2, <2>1 DEF WholeAhead
  <2>3. AskedFor(pos) = wrote[n].is.str
    BY <2>2 DEF AskedFor
  <2>4. Took(wrote[n], pos + Weight(n, wrote[n].is))
    BY <2>2, <2>3, ReadPart
  <2>5. /\ \E v : seen' = Append(seen, v) /\ Normal(v) = Canon(wrote[n])
        /\ pos' = at[n] /\ frames' = sh[n]
        /\ phase' = IF frames' = <<>> THEN "footer" ELSE "body"
    BY <2>2, <2>4 DEF Took
  <2>6. Len(seen) < Len(wrote)
    <3>1. Len(seen) \in Nat /\ Len(wrote) \in Nat
      BY <1>1 DEF Reading, TypeOK
    <3>2. QED BY <2>1, <2>2, <3>1
  <2>7. Handed
    BY <2>1, <2>5, <2>6 DEF Handed
  <2>8. solid >= 1
    BY DEF Reading
  <2>9. Reading(at, sh, solid)'
    BY <1>1, <2>1, <2>2, <2>5, <2>7, <2>8, HandedReads
  <2>10. QED BY <2>7, <2>9 DEF Outcome
<1>3. ASSUME result = "err", Refused PROVE Outcome /\ Reading(at, sh, solid)'
  <2>1. Reading(at, sh, solid)'
    BY <1>1, <1>3, RefusedReads DEF Refused
  <2>2. QED BY <1>3, <2>1 DEF Outcome, Broken
<1>4. CASE result = "err" /\ BrokenAt(Len(seen) + 1, wrote[Len(seen) + 1].is, solid)
  BY <1>3, <1>4, BrokenPart
<1>5. CASE result = "err" /\ R!Tag \in {"(eof)", "(torn)"} /\ frames \in Seq(RFrame) /\ frames # <<>>
  BY <1>1, <1>3, <1>5, BrokenOff
<1>6. QED BY <1>1, <1>2, <1>4, <1>5, Ahead

LEMMA ReadStep ==
  ASSUME IInv, ReaderInv, SameTexts, Read,
         NEW at, NEW sh, NEW solid, Written(at, sh, solid), Reading(at, sh, solid)
  PROVE  Outcome /\ Reading(at, sh, solid)'
<1>1. TypeOK /\ result \in {"ok", "err"} /\ UNCHANGED svars /\ R!DNext
  BY DEF IInv, Read
<1>2. CASE phase = "header" /\ R!validate_header
  BY <1>1, <1>2, HeaderReads
<1>3. CASE phase = "root" /\ R!enter_root
  BY <1>1, <1>3, RootReads
<1>4. CASE phase = "body"
  BY <1>1, <1>4, BodyReads
<1>5. CASE phase = "footer" /\ R!validate_footer
  BY <1>1, <1>5, FooterReads
<1>6. QED BY <1>1, <1>2, <1>3, <1>4, <1>5, PhaseStep
-----------------------------------------------------------------------------
(* Both ends together.                                                     *)
RInv == \E at, sh, solid : Written(at, sh, solid) /\ Reading(at, sh, solid)
Both == IInv /\ WInv /\ NothingYet /\ ReaderInv /\ RInv

LEMMA InitBoth == RTInit => Both
<1> SUFFICES ASSUME RTInit PROVE Both
  OBVIOUS
<1>1. Init /\ R!DInit
  BY DEF RTInit
<1>2. IInv /\ ReaderInv /\ WInv /\ NothingYet /\ SInv
  BY <1>1, InitReaderInv, InitWInv, InitSInv
<1>3. PICK at, sh, solid : Written(at, sh, solid)
  BY <1>2 DEF SInv
<1>4. /\ phase = "header" /\ seen = <<>> /\ result = "new"
      /\ Len(wrote) \in Nat
  BY <1>1, <1>2 DEF R!DInit, Init, IInv, TypeOK
<1>5. seen \in Seq({}) /\ Len(seen) = 0
  BY <1>4
<1>6. Reading(at, sh, solid)
  BY <1>4, <1>5 DEF Reading
<1>7. QED BY <1>2, <1>3, <1>6 DEF Both, RInv

(* While it is written the reader waits.                                   *)
LEMMA WriteBoth == ASSUME Readable, Both, Write PROVE Both'
<1>1. [Next]_svars /\ UNCHANGED rvars /\ Next /\ result \in {"new", "run"}
  BY NextIsLive DEF Write
<1>2. IInv' /\ ReaderInv'
  BY NextReaderInv DEF Both, RTNext
<1>3. WInv' /\ NothingYet'
  BY <1>1, <1>2, NextWInv, NextNothingYet DEF Both
<1>4. SInv
  BY DEF Both, RInv, SInv
<1>5. SInv'
  BY <1>1, <1>2, <1>4, NextSInv DEF Both
<1>6. PICK at, sh, solid : Written(at, sh, solid)'
  BY <1>5 DEF SInv
<1>7. PICK b, t, d : Reading(b, t, d)
  BY DEF Both, RInv
<1>8. phase = "header" /\ seen = <<>>
  BY <1>1, <1>7 DEF Reading
<1>9. phase' = "header" /\ seen' = <<>> /\ Len(wrote') \in Nat
  BY <1>1, <1>2, <1>8 DEF rvars, IInv, TypeOK
<1>10. seen' \in Seq({}) /\ Len(seen') = 0
  BY <1>9
<1>11. Reading(at, sh, solid)'
  BY <1>9, <1>10 DEF Reading
<1>12. QED BY <1>2, <1>3, <1>6, <1>11 DEF Both, RInv

LEMMA IdleBoth == ASSUME Both, UNCHANGED vars PROVE Both'
<1>1. UNCHANGED svars /\ UNCHANGED rvars
  BY DEF vars
<1>2. IInv' /\ ReaderInv'
  BY NextReaderInv DEF Both
<1>3. WInv' /\ NothingYet'
  <2>1. [Next]_svars
    BY <1>1
  <2>2. QED BY <1>2, <2>1, NextWInv, NextNothingYet DEF Both
<1>4. PICK at, sh, solid : Written(at, sh, solid) /\ Reading(at, sh, solid)
  BY DEF Both, RInv
<1>5. Written(at, sh, solid)'
  BY <1>1, <1>4 DEF svars, flags, tables, Written, View, Contents, Missing, RootDue, Top
<1>6. Reading(at, sh, solid)'
  BY <1>1, <1>4 DEF svars, rvars, Reading
<1>7. QED BY <1>2, <1>3, <1>5, <1>6 DEF Both, RInv

LEMMA ReadBoth == ASSUME SameTexts, Both, Read PROVE Both' /\ Outcome
<1>1. UNCHANGED svars
  BY DEF Read
<1>2. IInv' /\ ReaderInv'
  BY NextReaderInv DEF Both, RTNext
<1>3. WInv' /\ NothingYet'
  <2>1. [Next]_svars
    BY <1>1
  <2>2. QED BY <1>2, <2>1, NextWInv, NextNothingYet DEF Both
<1>4. PICK at, sh, solid : Written(at, sh, solid) /\ Reading(at, sh, solid)
  BY DEF Both, RInv
<1>5. Outcome /\ Reading(at, sh, solid)'
  BY <1>4, ReadStep DEF Both
<1>6. Written(at, sh, solid)'
  BY <1>1, <1>4 DEF svars, flags, tables, Written, View, Contents, Missing, RootDue, Top
<1>7. QED BY <1>2, <1>3, <1>5, <1>6 DEF Both, RInv

(* What a step of the writer comes to: one part more, or the end.          *)
Adding  == /\ result' \in {"new", "run"}
           /\ wrote' = wrote \/ \E e : wrote' = Append(wrote, e)
Closing == result' \in {"ok", "err"} /\ wrote' = wrote

LEMMA WriteStep == ASSUME Next, result \in {"new", "run"} PROVE Adding \/ Closing
<1>1. \A c : Record(c) => wrote' = wrote \/ \E e : wrote' = Append(wrote, e)
  BY DEF Record
<1>2. CASE \/ write_header \/ write_footer \/ serialize_unsupported \/ write_fails \/ end_newtype
           \/ \E name \in VarInts, v \in Ints : newtype_varint(name, v)
           \/ \E s \in Strings : newtype_direct(s)
  BY <1>2 DEF write_header, write_footer, serialize_unsupported, write_fails, Unwind, end_newtype, newtype_varint,
     newtype_direct, Adding, Closing
<1>3. CASE \E c, t : Plain(c, t)
  BY <1>1, <1>3 DEF Plain, Adding
<1>4. CASE \E s \in Strings : serialize_str(s)
  BY <1>1, <1>4 DEF serialize_str, Adding
<1>5. CASE \E n \in Lens : serialize_seq(n) \/ serialize_map(n) \/ serialize_tuple(n)
  BY <1>1, <1>5 DEF serialize_seq, serialize_map, serialize_tuple, Adding
<1>6. CASE end_seq \/ end_map \/ end_tuple
  BY <1>1, <1>6 DEF end_seq, end_map, end_tuple, End, Adding
<1>7. CASE \E r \in Rtids : newtype_rtid(r)
  BY <1>1, <1>7 DEF newtype_rtid, Adding
<1>8. \/ \E b \in BOOLEAN : serialize_bool(b)
      \/ \E ty \in {"f32", "f64"}, x \in Floats : serialize_float(ty, x)
      \/ \E v \in Ints : serialize_int(v)
      \/ \E w \in {"(varint)", "(u32)"}, n \in RtidNumbers : serialize_number(w, n)
      \/ \E b \in Blobs : serialize_bytes(b)
      \/ \E i \in 0 .. 3 : serialize_unit_variant(i)
      \/ serialize_none
      => \E c, t : Plain(c, t)
  BY Zenon DEF serialize_bool, serialize_float, serialize_int, serialize_number, serialize_bytes,
     serialize_unit_variant, serialize_none
<1>9. QED BY <1>2, <1>3, <1>4, <1>5, <1>6, <1>7, <1>8 DEF Next

(* The channel that the two ends implement, under names.                   *)
Sent     == [i \in DOMAIN wrote |-> Canon(wrote[i])]
Received == [i \in DOMAIN seen |-> Normal(seen[i])]
Status   == CASE result \in {"new", "run"} -> "open"
              [] result = "ok"  -> "complete"
              [] result = "err" -> "broken"
Verdict  == CASE phase = "ok" -> "accepted" [] phase = "err" -> "refused" [] OTHER -> "none"

LEMMA WriteSends ==
  ASSUME Both, Both', Write
  PROVE  [Channel!Next]_(Channel!vars)
<1>1. Next /\ result \in {"new", "run"} /\ UNCHANGED rvars /\ wrote \in Seq(Entry) /\ wrote' \in Seq(Entry)
  BY NextIsLive DEF Write, Both, IInv, TypeOK
<1>2. Status = "open" /\ Received' = Received /\ Verdict' = Verdict
  BY <1>1 DEF Status, Received, Verdict, rvars
<1>3. CASE result' \in {"new", "run"} /\ wrote' = wrote
  <2>1. Sent' = Sent /\ Status' = Status
    BY <1>2, <1>3 DEF Sent, Status
  <2>2. QED BY <1>2, <2>1 DEF Channel!vars, Sent, Status, Received, Verdict
<1>4. CASE result' \in {"new", "run"} /\ \E e : wrote' = Append(wrote, e)
  <2>1. PICK e : wrote' = Append(wrote, e)
    BY <1>4
  <2>2. Status' = Status
    BY <1>2, <1>4 DEF Status
  <2>3. /\ Len(wrote') = Len(wrote) + 1 /\ Len(wrote) \in Nat
        /\ \A i \in 1 .. Len(wrote) : wrote'[i] = wrote[i]
    BY <1>1, <2>1
  <2>4. PICK l \in Nat : l = Len(wrote)
    BY <2>3
  <2>5. DOMAIN wrote = 1 .. l /\ DOMAIN wrote' = 1 .. l + 1
    BY <1>1, <2>3, <2>4
  <2>6. Sent = [i \in 1 .. l |-> Canon(wrote[i])] /\ Sent' = [i \in 1 .. l + 1 |-> Canon(wrote'[i])]
    BY <2>5 DEF Sent, Canon
  <2>7. Len(Sent) = l /\ Len(Sent') = l + 1
    BY <2>6
  <2>8. SubSeq(Sent', 1, l) = Sent
    BY <2>3, <2>4, <2>6
  <2>9. Channel!Send
    BY <1>2, <2>2, <2>7, <2>8, Zenon DEF Channel!Send, Sent, Status, Received, Verdict
  <2>10. QED BY <2>9 DEF Channel!Next
<1>5. CASE Closing
  <2>1. Sent' = Sent /\ Status' \in {"complete", "broken"}
    BY <1>5 DEF Sent, Status, Closing
  <2>2. Channel!Close
    BY <1>2, <2>1 DEF Channel!Close, Sent, Status, Received, Verdict
  <2>3. QED BY <2>2 DEF Channel!Next
<1>6. QED BY <1>1, <1>3, <1>4, <1>5, WriteStep DEF Adding

LEMMA ReadReceives ==
  ASSUME Both, Read, Outcome
  PROVE  [Channel!Next]_(Channel!vars)
<1>1. result \in {"ok", "err"} /\ wrote \in Seq(Entry) /\ wrote' = wrote /\ result' = result
  BY DEF Both, Read, svars, IInv, TypeOK
<1>2. Status \in {"complete", "broken"} /\ Sent' = Sent /\ Status' = Status
  BY <1>1 DEF Status, Sent
<1>3. PICK at, sh, solid : Reading(at, sh, solid)
  BY DEF Both, RInv
<1>4. PICK S : seen \in Seq(S)
  BY <1>3 DEF Reading
<1>5. /\ Len(seen) <= Len(wrote) /\ Len(seen) \in Nat /\ Len(wrote) \in Nat
      /\ \A i \in 1 .. Len(seen) : Normal(seen[i]) = Canon(wrote[i])
      /\ DOMAIN seen = 1 .. Len(seen) /\ DOMAIN wrote = 1 .. Len(wrote)
  BY <1>1, <1>3, <1>4 DEF Reading
<1>6. CASE Handed
  <2>1. PICK v : seen' = Append(seen, v) /\ Normal(v) = Canon(wrote[Len(seen) + 1])
    BY <1>6 DEF Handed
  <2>2. Verdict = "none" /\ Verdict' = Verdict
    BY <1>6 DEF Handed, Verdict
  <2>3. PICK m, l \in Nat : m = Len(seen) /\ l = Len(wrote) /\ m < l
    BY <1>5, <1>6 DEF Handed
  <2>4. seen' = [i \in 1 .. m + 1 |-> IF i = m + 1 THEN v ELSE seen[i]]
    <3>1. PICK q : q = seen'
      OBVIOUS
    <3>2. q \in Seq(S \cup {v}) /\ Len(q) = m + 1
      BY <1>4, <2>1, <2>3, <3>1
    <3>3. q \in [1 .. m + 1 -> S \cup {v}]
      BY <3>2
    <3>4. seen' = [i \in 1 .. m + 1 |-> seen'[i]]
      BY <3>1, <3>3
    <3>5. \A i \in 1 .. m + 1 : seen'[i] = IF i = m + 1 THEN v ELSE seen[i]
      BY <1>4, <2>1, <2>3
    <3>6. QED BY <3>4, <3>5
  <2>5. Sent = [i \in 1 .. l |-> Canon(wrote[i])] /\ Received = [i \in 1 .. m |-> Normal(seen[i])]
    BY <1>5, <2>3 DEF Sent, Received
  <2>6. Received' = [i \in 1 .. m + 1 |-> Normal(seen'[i])]
    BY <2>4 DEF Received, Normal
  <2>7. Len(Received) = m /\ Len(Sent) = l /\ Sent[m + 1] = Canon(wrote[m + 1])
    BY <2>3, <2>5
  <2>8. Received' = [i \in 1 .. m + 1 |-> IF i = m + 1 THEN Canon(wrote[m + 1]) ELSE Normal(seen[i])]
    BY <2>1, <2>3, <2>4, <2>6
  <2>9. Received' = Append(Received, Sent[m + 1])
    BY <2>5, <2>7, <2>8
  <2>10. Channel!Receive
    <3>1. Status # "open" /\ Len(Received) < Len(Sent) /\ Received' = Append(Received, Sent[Len(Received) + 1])
      BY <1>2, <2>3, <2>7, <2>9
    <3>2. QED BY <1>2, <2>2, <3>1, Zenon DEF Channel!Receive, Sent, Status, Received, Verdict
  <2>11. QED BY <2>10 DEF Channel!Next
<1>7. CASE Passed
  <2>1. Received' = Received /\ Verdict' = Verdict
    BY <1>7 DEF Passed, Received, Verdict
  <2>2. QED BY <1>2, <2>1 DEF Channel!vars, Sent, Status, Received, Verdict
<1>8. CASE Taken
  <2>1. /\ Verdict = "none" /\ Verdict' = "accepted" /\ Received' = Received /\ Status = "complete"
    BY <1>8 DEF Taken, Verdict, Received, Status
  <2>2. Received = Sent
    <3>1. Received = [i \in 1 .. Len(seen) |-> Normal(seen[i])] /\ Sent = [i \in 1 .. Len(seen) |-> Canon(wrote[i])]
      BY <1>5, <1>8 DEF Taken, Sent, Received
    <3>2. QED BY <1>5, <3>1
  <2>3. Channel!Accept
    BY <1>2, <2>1, <2>2, Zenon DEF Channel!Accept, Sent, Status, Received, Verdict
  <2>4. QED BY <2>3 DEF Channel!Next
<1>9. CASE Broken
  <2>1. Verdict = "none" /\ Verdict' = "refused" /\ Received' = Received /\ Status = "broken"
    BY <1>9 DEF Broken, Refused, Verdict, Received, Status
  <2>2. Channel!Refuse
    BY <1>2, <2>1, Zenon DEF Channel!Refuse, Sent, Status, Received, Verdict
  <2>3. QED BY <2>2 DEF Channel!Next
<1>10. QED BY <1>6, <1>7, <1>8, <1>9 DEF Outcome

(* A value with a map at its root and no tuple and no enum in it:          *)
(* from_reader hands over what to_writer was given, part by part and in    *)
(* order, accepts a finished file with every part of it and refuses one    *)
(* that was broken off, whichever call it broke off in.                    *)
THEOREM ReadsWhatWasWritten ==
  ASSUME Readable, SameTexts
  PROVE  RTSpec => RoundTrip
<1>1. RTInit => Both
  BY InitBoth
<1>2. Both /\ [RTNext]_vars => Both'
  <2>1. SUFFICES ASSUME Both, [RTNext]_vars PROVE Both'
    OBVIOUS
  <2>2. CASE Write
    BY <2>1, <2>2, WriteBoth
  <2>3. CASE Read
    BY <2>1, <2>3, ReadBoth
  <2>4. CASE UNCHANGED vars
    BY <2>1, <2>4, IdleBoth
  <2>5. QED BY <2>1, <2>2, <2>3, <2>4 DEF RTNext
<1>3. RTInit => Channel!Init
  <2>1. SUFFICES ASSUME RTInit PROVE Channel!Init
    OBVIOUS
  <2>2. wrote = <<>> /\ seen = <<>> /\ result = "new" /\ phase = "header"
    BY <2>1 DEF RTInit, Init, R!DInit
  <2>3. DOMAIN wrote = {} /\ DOMAIN seen = {}
    BY <2>2
  <2>4. Sent = <<>> /\ Received = <<>>
    BY <2>3 DEF Sent, Received
  <2>5. Status = "open" /\ Verdict = "none"
    BY <2>2 DEF Status, Verdict
  <2>6. QED BY <2>4, <2>5, Zenon DEF Channel!Init, Sent, Received, Status, Verdict
<1>4. Both /\ Both' /\ [RTNext]_vars => [Channel!Next]_(Channel!vars)
  <2>1. SUFFICES ASSUME Both, Both', [RTNext]_vars PROVE [Channel!Next]_(Channel!vars)
    OBVIOUS
  <2>2. CASE Write
    BY <2>1, <2>2, WriteSends
  <2>3. CASE Read
    BY <2>1, <2>3, ReadBoth, ReadReceives
  <2>4. CASE UNCHANGED vars
    BY <2>4 DEF vars, svars, rvars, Channel!vars
  <2>5. QED BY <2>1, <2>2, <2>3, <2>4 DEF RTNext
<1>5. QED BY <1>1, <1>2, <1>3, <1>4, PTL DEF RTSpec, RoundTrip, Channel!Safe
=============================================================================
