-------------------------- MODULE SerializerProofs --------------------------
(***************************************************************************)
(* Proofs about Serializer.tla, for every set of texts, integers and RTIDs *)
(* and whatever the bounds: type correctness; that no reference can be     *)
(* written to a file that does not mean the text it was asked for; and the *)
(* scope of the wrappers of varint.rs: what serialize_newtype_struct puts  *)
(* up before the inner value and takes down after it reaches that value,   *)
(* whatever was serialized before and around it.                           *)
(***************************************************************************)
EXTENDS Serializer, CodecProofs, FiniteSetTheorems

Indices(tag) == IF tag = "StringLatin1Definition" THEN latin1_indices ELSE utf8_indices
Count(tag)   == IF tag = "StringLatin1Definition" THEN next_latin1 ELSE next_utf8
Texts(tag)   == IF tag = "StringLatin1Definition" THEN Latin1 ELSE Strings \ Latin1

(* Newtypes are innermost, are asked for no more calls than they have, and *)
(* the RTID flag is up exactly while an RTID body is being written.        *)
StackOK ==
  result \in {"new", "run"} =>
    /\ Len(stack) >= 1
    /\ stack[1].kind = "doc"
    /\ \A k \in 1 .. Len(stack) : stack[k].kind \in Newtypes =>
         k = Len(stack) /\ stack[k].left <= Len(stack[k].todo)
    /\ pending_rtid <=> Top.kind = "RTID"

(* One string table against the stream: it counts the definitions, holds  *)
(* texts of its encoding, and maps each defined text, and no other, to its *)
(* rank.                                                                   *)
TableOK(tag) ==
  /\ Count(tag) = Rank(tag, Len(out) + 1)
  /\ DOMAIN Indices(tag) \subseteq Texts(tag)
  /\ \A s \in DOMAIN Indices(tag) : \E j \in 1 .. Len(out) :
       out[j].tag = tag /\ out[j].str = s /\ Rank(tag, j) = Indices(tag)[s]
  /\ \A j \in 1 .. Len(out) : out[j].tag = tag => out[j].str \in DOMAIN Indices(tag)

(* A reference belongs to a value that has been recorded.                  *)
RefsHaveOrigin ==
  \A i \in 1 .. Len(out) : out[i].tag \in ReferenceTags => origin[i] \in 1 .. Len(wrote)

TablesInv ==
  /\ \A tag \in DefinitionTags : TableOK(tag)
  /\ RefsHaveOrigin
  /\ RefsResolve
  /\ DefinedOnce

IInv == TypeOK /\ StackOK /\ TablesInv
-----------------------------------------------------------------------------
(* The calls of an RTID body are calls an RTID body may make.              *)
LEMMA BodyTyped == \A r \in Rtids : RtidBody(r) \in Seq(BodyCall)
<1> SUFFICES ASSUME NEW r \in Rtids PROVE RtidBody(r) \in Seq(BodyCall)
  OBVIOUS
<1>0. r \in RtidOver(Strings)
  BY RtidsAssumption DEF RtidsAssumption
<1>1. CASE r.kind = "raw"
  BY <1>0, <1>1 DEF RtidOver, RtidBody, Byte, Str, BodyCall
<1>2. CASE r.kind = "uid" /\ r.name = None
  BY <1>0, <1>2 DEF RtidOver, RtidBody, Byte, Number, BodyCall
<1>3. CASE r.kind = "uid" /\ r.name # None
  <2>1. PICK s \in Strings : r.name = {s}
    BY <1>0, <1>3 DEF RtidOver, Some, None
  <2>2. Unwrap(r.name) = s
    BY <2>1 DEF Unwrap
  <2>3. RtidBody(r) = <<Byte(2), Str(s)>> \o <<Number("(varint)", r.group), Number("(varint)", r.id),
                                              Number("(u32)", r.obj)>>
    BY <1>3, <2>2 DEF RtidBody
  <2>4. Byte(2) \in BodyCall /\ Str(s) \in BodyCall
    BY DEF Byte, Str, BodyCall
  <2>5. /\ Number("(varint)", r.group) \in BodyCall
        /\ Number("(varint)", r.id) \in BodyCall
        /\ Number("(u32)", r.obj) \in BodyCall
    BY <1>0, <1>3 DEF RtidOver, Number, BodyCall
  <2>6. QED BY <2>3, <2>4, <2>5
<1>4. QED BY <1>0, <1>1, <1>2, <1>3 DEF RtidOver

-----------------------------------------------------------------------------
(* What has been written stays where it is: ranks below the end do not     *)
(* change, and without a new definition the rank at the end does not.      *)
LEMMA RankStable ==
  ASSUME TypeOK, NEW toks \in Seq(Token), out' = out \o toks
  PROVE  /\ \A tag : \A i \in 1 .. Len(out) + 1 : Rank(tag, i)' = Rank(tag, i)
         /\ \A tag : (\A i \in 1 .. Len(toks) : toks[i].tag # tag) =>
              Rank(tag, Len(out) + 1)' = Rank(tag, Len(out) + 1)
<1> USE DEF Rank
<1>1. /\ out \in Seq(Token) /\ Len(out) \in Nat /\ Len(toks) \in Nat
      /\ Len(out') = Len(out) + Len(toks)
      /\ \A i \in 1 .. Len(out) : out'[i] = out[i]
      /\ \A i \in Len(out) + 1 .. Len(out) + Len(toks) : out'[i] = toks[i - Len(out)]
  BY ConcatProps DEF TypeOK
<1>2. ASSUME NEW tag, NEW i \in 1 .. Len(out) + 1
      PROVE  Rank(tag, i)' = Rank(tag, i)
  <2>1. \A j \in 1 .. i - 1 : out'[j] = out[j]
    BY <1>1
  <2>2. {j \in 1 .. i - 1 : out'[j].tag = tag} = {j \in 1 .. i - 1 : out[j].tag = tag}
    BY <2>1
  <2>3. QED BY <2>2
<1>3. ASSUME NEW tag, \A i \in 1 .. Len(toks) : toks[i].tag # tag
      PROVE  Rank(tag, Len(out) + 1)' = Rank(tag, Len(out) + 1)
  <2>1. \A j \in Len(out) + 1 .. Len(out') : out'[j].tag # tag
    BY <1>1, <1>3
  <2>2. {j \in 1 .. Len(out') : out'[j].tag = tag} = {j \in 1 .. Len(out) : out[j].tag = tag}
    BY <1>1, <2>1
  <2>3. /\ 1 .. (Len(out') + 1) - 1 = 1 .. Len(out')
        /\ 1 .. (Len(out) + 1) - 1 = 1 .. Len(out)
    BY <1>1
  <2>4. QED BY <2>2, <2>3
<1>4. QED BY <1>2, <1>3

(* The stream grew by toks, nothing recorded before was touched.           *)
Grown(toks) ==
  /\ out' = out \o toks
  /\ \A i \in 1 .. Len(out) : origin'[i] = origin[i]
  /\ Len(wrote') >= Len(wrote)
  /\ \A i \in 1 .. Len(wrote) : wrote'[i] = wrote[i]

(* What a step that only appends leaves as it was.                         *)
LEMMA GrownProps ==
  ASSUME TypeOK, TypeOK', NEW toks \in Seq(Token), Grown(toks)
  PROVE  /\ Len(out) \in Nat /\ Len(out') \in Nat /\ Len(toks) \in Nat
         /\ Len(wrote) \in Nat /\ Len(wrote') \in Nat
         /\ Len(out') = Len(out) + Len(toks)
         /\ DOMAIN out = 1 .. Len(out) /\ DOMAIN out' = 1 .. Len(out')
         /\ \A k \in 1 .. Len(out) : out'[k] = out[k]
         /\ \A k \in Len(out) + 1 .. Len(out') : out'[k] = toks[k - Len(out)]
         /\ \A tag : \A k \in 1 .. Len(out) + 1 : Rank(tag, k)' = Rank(tag, k)
         /\ \A tag : (\A k \in 1 .. Len(toks) : toks[k].tag # tag) =>
              Rank(tag, Len(out) + 1)' = Rank(tag, Len(out) + 1)
<1>1. /\ out \in Seq(Token) /\ out' \in Seq(Token)
      /\ wrote \in Seq(Entry) /\ wrote' \in Seq(Entry)
  BY DEF TypeOK
<1>2. out' = out \o toks
  BY DEF Grown
<1>3. /\ Len(out') = Len(out) + Len(toks)
      /\ \A k \in 1 .. Len(out) : out'[k] = out[k]
      /\ \A k \in Len(out) + 1 .. Len(out') : out'[k] = toks[k - Len(out)]
  BY <1>1, <1>2, ConcatProps
<1>4. /\ Len(out) \in Nat /\ Len(out') \in Nat /\ Len(toks) \in Nat
      /\ Len(wrote) \in Nat /\ Len(wrote') \in Nat
      /\ DOMAIN out = 1 .. Len(out) /\ DOMAIN out' = 1 .. Len(out')
  BY <1>1
<1>5. /\ \A tag : \A k \in 1 .. Len(out) + 1 : Rank(tag, k)' = Rank(tag, k)
      /\ \A tag : (\A k \in 1 .. Len(toks) : toks[k].tag # tag) =>
           Rank(tag, Len(out) + 1)' = Rank(tag, Len(out) + 1)
  BY <1>2, RankStable
<1>6. QED BY <1>3, <1>4, <1>5

(* References that lay in the stream before keep their meaning.            *)
LEMMA OldRefs ==
  ASSUME TypeOK, TypeOK', TablesInv, NEW toks \in Seq(Token), Grown(toks),
         NEW i \in 1 .. Len(out), out[i].tag \in ReferenceTags
  PROVE  /\ out'[i] = out[i]
         /\ origin'[i] \in 1 .. Len(wrote')
         /\ \E j \in 1 .. i - 1 : /\ out'[j].tag = DefTag(out'[i].tag)
                               /\ out'[j].str = AskedFor(i)'
                               /\ Rank(DefTag(out[i].tag), j)' = out'[i].idx
<1>1. /\ Len(out) \in Nat /\ Len(wrote) \in Nat /\ Len(wrote') \in Nat
      /\ DOMAIN out = 1 .. Len(out)
      /\ \A k \in 1 .. Len(out) : out'[k] = out[k]
  BY GrownProps
<1>2. origin[i] \in 1 .. Len(wrote)
  BY DEF TablesInv, RefsHaveOrigin
<1>3. AskedFor(i)' = AskedFor(i) /\ origin'[i] \in 1 .. Len(wrote')
  BY <1>1, <1>2 DEF AskedFor, Grown
<1>4. PICK j \in 1 .. i - 1 : /\ out[j].tag = DefTag(out[i].tag)
                             /\ out[j].str = AskedFor(i)
                             /\ Rank(DefTag(out[i].tag), j) = out[i].idx
  BY <1>1 DEF TablesInv, RefsResolve
<1>5. j \in 1 .. Len(out) /\ j \in 1 .. Len(out) + 1
  BY <1>1
<1>6. \A tag : \A k \in 1 .. Len(out) + 1 : Rank(tag, k)' = Rank(tag, k)
  BY GrownProps
<1>7. Rank(DefTag(out[i].tag), j)' = Rank(DefTag(out[i].tag), j)
  <2>1. PICK tag : tag = DefTag(out[i].tag)
    OBVIOUS
  <2>2. tag = DefTag(out'[i].tag)
    BY <1>1, <2>1
  <2>3. Rank(tag, j)' = Rank(tag, j)
    BY <1>5, <1>6
  <2>4. QED BY <2>1, <2>2, <2>3 DEF Rank
<1>8. QED BY <1>1, <1>3, <1>4, <1>5, <1>7

(* A table whose definition tag is not written is still right.             *)
LEMMA QuietTable ==
  ASSUME TypeOK, TypeOK', NEW toks \in Seq(Token), Grown(toks),
         NEW tag \in DefinitionTags, TableOK(tag),
         \A k \in 1 .. Len(toks) : toks[k].tag # tag,
         Indices(tag)' = Indices(tag), Count(tag)' = Count(tag)
  PROVE  TableOK(tag)'
<1>1. /\ Len(out) \in Nat /\ Len(out') \in Nat /\ Len(toks) \in Nat
      /\ Len(out') = Len(out) + Len(toks)
      /\ \A k \in 1 .. Len(out) : out'[k] = out[k]
      /\ \A k \in Len(out) + 1 .. Len(out') : out'[k] = toks[k - Len(out)]
  BY GrownProps
<1>2. \A k \in Len(out) + 1 .. Len(out') : out'[k].tag # tag
  <2> SUFFICES ASSUME NEW k \in Len(out) + 1 .. Len(out') PROVE out'[k].tag # tag
    OBVIOUS
  <2>1. k - Len(out) \in 1 .. Len(toks)
    BY <1>1
  <2>2. QED BY <1>1, <2>1
<1>3. Rank(tag, Len(out) + 1)' = Rank(tag, Len(out) + 1)
  BY GrownProps
<1>4. \A k \in 1 .. Len(out) : Rank(tag, k)' = Rank(tag, k)
  <2>1. \A k \in 1 .. Len(out) + 1 : Rank(tag, k)' = Rank(tag, k)
    BY GrownProps
  <2>2. QED BY <1>1, <2>1
<1>5. (Count(tag) = Rank(tag, Len(out) + 1))'
  BY <1>3 DEF TableOK
<1>6. \A s \in DOMAIN Indices(tag) : \E j \in 1 .. Len(out') :
        out'[j].tag = tag /\ out'[j].str = s /\ Rank(tag, j)' = Indices(tag)[s]
  <2> SUFFICES ASSUME NEW s \in DOMAIN Indices(tag)
               PROVE  \E j \in 1 .. Len(out') : out'[j].tag = tag /\ out'[j].str = s
                                              /\ Rank(tag, j)' = Indices(tag)[s]
    OBVIOUS
  <2>1. PICK j \in 1 .. Len(out) : out[j].tag = tag /\ out[j].str = s
                                  /\ Rank(tag, j) = Indices(tag)[s]
    BY DEF TableOK
  <2>2. j \in 1 .. Len(out')
    BY <1>1
  <2>3. QED BY <1>1, <1>4, <2>1, <2>2
<1>7. \A j \in 1 .. Len(out') : out'[j].tag = tag => out'[j].str \in DOMAIN Indices(tag)
  BY <1>1, <1>2 DEF TableOK
<1>8. DOMAIN Indices(tag) \subseteq Texts(tag)
  BY DEF TableOK
<1>9. QED BY <1>5, <1>6, <1>7, <1>8 DEF TableOK, Texts

(* Without a new definition, texts are still defined once.                 *)
LEMMA QuietDefinedOnce ==
  ASSUME TypeOK, TypeOK', NEW toks \in Seq(Token), Grown(toks), DefinedOnce,
         \A k \in 1 .. Len(toks) : toks[k].tag \notin DefinitionTags
  PROVE  DefinedOnce'
<1>1. /\ Len(out) \in Nat /\ Len(out') \in Nat /\ Len(toks) \in Nat
      /\ Len(out') = Len(out) + Len(toks)
      /\ DOMAIN out = 1 .. Len(out) /\ DOMAIN out' = 1 .. Len(out')
      /\ \A k \in 1 .. Len(out) : out'[k] = out[k]
      /\ \A k \in Len(out) + 1 .. Len(out') : out'[k] = toks[k - Len(out)]
  BY GrownProps
<1>2. ASSUME NEW k \in 1 .. Len(out'), out'[k].tag \in DefinitionTags
      PROVE  k \in 1 .. Len(out)
  <2>1. CASE k \in Len(out) + 1 .. Len(out')
    <3>1. k - Len(out) \in 1 .. Len(toks)
      BY <1>1, <2>1
    <3>2. QED BY <1>1, <1>2, <2>1, <3>1
  <2>2. QED BY <1>1, <2>1
<1>3. SUFFICES ASSUME NEW i \in 1 .. Len(out'), NEW j \in 1 .. Len(out'), i # j,
                      out'[i].tag \in DefinitionTags, out'[j].tag \in DefinitionTags
               PROVE  out'[i].str # out'[j].str
  BY <1>1 DEF DefinedOnce
<1>4. i \in 1 .. Len(out) /\ j \in 1 .. Len(out)
  BY <1>2, <1>3
<1>5. QED BY <1>1, <1>3, <1>4 DEF DefinedOnce

(* Without a new reference, the references still resolve.                  *)
LEMMA QuietRefs ==
  ASSUME TypeOK, TypeOK', TablesInv, NEW toks \in Seq(Token), Grown(toks),
         \A k \in 1 .. Len(toks) : toks[k].tag \notin ReferenceTags
  PROVE  RefsHaveOrigin' /\ RefsResolve'
<1>1. /\ Len(out) \in Nat /\ Len(out') \in Nat /\ Len(toks) \in Nat
      /\ Len(out') = Len(out) + Len(toks)
      /\ DOMAIN out' = 1 .. Len(out')
      /\ \A k \in 1 .. Len(out) : out'[k] = out[k]
      /\ \A k \in Len(out) + 1 .. Len(out') : out'[k] = toks[k - Len(out)]
  BY GrownProps
<1>2. ASSUME NEW k \in 1 .. Len(out'), out'[k].tag \in ReferenceTags
      PROVE  k \in 1 .. Len(out) /\ out[k].tag \in ReferenceTags
  <2>1. CASE k \in Len(out) + 1 .. Len(out')
    <3>1. k - Len(out) \in 1 .. Len(toks)
      BY <1>1, <2>1
    <3>2. QED BY <1>1, <1>2, <2>1, <3>1
  <2>2. QED BY <1>1, <1>2, <2>1
<1>3. RefsHaveOrigin'
  BY <1>2, OldRefs DEF RefsHaveOrigin
<1>4. RefsResolve'
  <2> SUFFICES ASSUME NEW i \in 1 .. Len(out'), out'[i].tag \in ReferenceTags
               PROVE  \E j \in 1 .. i - 1 : /\ out'[j].tag = DefTag(out'[i].tag)
                                           /\ out'[j].str = AskedFor(i)'
                                           /\ Rank(DefTag(out[i].tag), j)' = out'[i].idx
    BY <1>1 DEF RefsResolve
  <2>1. QED BY <1>2, OldRefs
<1>5. QED BY <1>3, <1>4

(* Tokens that are neither definitions nor references disturb nothing.     *)
LEMMA QuietTables ==
  ASSUME TypeOK, TypeOK', TablesInv, NEW toks \in Seq(Token), Grown(toks),
         \A i \in 1 .. Len(toks) : toks[i].tag \notin DefinitionTags \cup ReferenceTags,
         UNCHANGED tables
  PROVE  TablesInv'
<1>1. ASSUME NEW tag \in DefinitionTags PROVE TableOK(tag)'
  <2>1. Indices(tag)' = Indices(tag) /\ Count(tag)' = Count(tag)
    BY DEF Indices, Count, tables
  <2>2. TableOK(tag)
    BY DEF TablesInv
  <2>3. QED BY <2>1, <2>2, QuietTable
<1>2. RefsHaveOrigin' /\ RefsResolve'
  BY QuietRefs
<1>3. DefinedOnce'
  BY QuietDefinedOnce DEF TablesInv
<1>4. QED BY <1>1, <1>2, <1>3 DEF TablesInv

(* A reference taken from a table means the text it was taken for.         *)
LEMMA RefTables ==
  ASSUME TypeOK, TypeOK', TablesInv, UNCHANGED tables,
         NEW toks \in Seq(Token), NEW tok \in Token, Grown(toks), Len(toks) = 1, toks[1] = tok,
         NEW n \in Nat, n = Len(out),
         tok.tag \in ReferenceTags, NEW s \in DOMAIN Indices(DefTag(tok.tag)),
         tok.idx = Indices(DefTag(tok.tag))[s],
         origin'[n + 1] \in 1 .. Len(wrote'), AskedFor(n + 1)' = s
  PROVE  TablesInv'
<1> DEFINE d == DefTag(tok.tag)
<1>1. n \in Nat /\ Len(toks) \in Nat
      /\ Len(out') = n + Len(toks) /\ DOMAIN out' = 1 .. Len(out')
      /\ (\A k \in 1 .. n : out'[k] = out[k])
      /\ (\A k \in n + 1 .. Len(out') : out'[k] = toks[k - n])
  BY GrownProps
<1>2. /\ n \in Nat /\ Len(out') = n + 1 /\ DOMAIN out' = 1 .. Len(out')
      /\ \A k \in 1 .. n : out'[k] = out[k]
      /\ out'[n + 1] = tok
  BY <1>1
<1>3. \A k \in 1 .. Len(toks) : toks[k].tag \notin DefinitionTags
  BY DEF ReferenceTags, DefinitionTags
<1>4. ASSUME NEW tag \in DefinitionTags PROVE TableOK(tag)'
  <2>1. Indices(tag)' = Indices(tag) /\ Count(tag)' = Count(tag)
    BY DEF Indices, Count, tables
  <2>2. TableOK(tag)
    BY DEF TablesInv
  <2>3. QED BY <1>3, <2>1, <2>2, QuietTable
<1>5. DefinedOnce'
  BY <1>3, QuietDefinedOnce DEF TablesInv
<1>6. ASSUME NEW i \in 1 .. n, out'[i].tag \in ReferenceTags
      PROVE  /\ origin'[i] \in 1 .. Len(wrote')
             /\ \E j \in 1 .. i - 1 : /\ out'[j].tag = DefTag(out'[i].tag)
                                   /\ out'[j].str = AskedFor(i)'
                                   /\ Rank(DefTag(out[i].tag), j)' = out'[i].idx
  <2>1. out[i].tag \in ReferenceTags
    BY <1>2, <1>6
  <2>2. QED BY <2>1, OldRefs
<1>7. \E j \in 1 .. n : /\ out'[j].tag = d
                        /\ out'[j].str = AskedFor(n + 1)'
                        /\ \E tag : tag = d /\ Rank(tag, j)' = tok.idx
  <2>1. d \in DefinitionTags
    BY DEF DefTag, DefinitionTags
  <2>2. PICK tag \in DefinitionTags : tag = d
    BY <2>1
  <2>3. PICK j \in 1 .. n : out[j].tag = tag /\ out[j].str = s /\ Rank(tag, j) = Indices(tag)[s]
    BY <2>2 DEF TablesInv, TableOK
  <2>4. Rank(tag, j)' = Rank(tag, j)
    <3>1. \A e : \A k \in 1 .. n + 1 : Rank(e, k)' = Rank(e, k)
      BY GrownProps
    <3>2. j \in 1 .. n + 1
      BY <1>2
    <3>3. QED BY <3>1, <3>2
  <2>5. QED BY <1>2, <2>2, <2>3, <2>4
<1>8. RefsHaveOrigin'
  <2> SUFFICES ASSUME NEW i \in 1 .. n + 1, out'[i].tag \in ReferenceTags
               PROVE  origin'[i] \in 1 .. Len(wrote')
    BY <1>2 DEF RefsHaveOrigin
  <2>1. QED BY <1>2, <1>6
<1>9. RefsResolve'
  <2> SUFFICES ASSUME NEW i \in 1 .. n + 1, out'[i].tag \in ReferenceTags
               PROVE  \E j \in 1 .. i - 1 : /\ out'[j].tag = DefTag(out'[i].tag)
                                           /\ out'[j].str = AskedFor(i)'
                                           /\ Rank(DefTag(out[i].tag), j)' = out'[i].idx
    BY <1>2 DEF RefsResolve
  <2>1. CASE i \in 1 .. n
    BY <1>6, <2>1
  <2>2. CASE i = n + 1
    <3>1. PICK j \in 1 .. n : /\ out'[j].tag = d
                              /\ out'[j].str = AskedFor(n + 1)'
                              /\ \E tag : tag = d /\ Rank(tag, j)' = tok.idx
      BY <1>7
    <3>2. PICK tag : tag = d /\ Rank(tag, j)' = tok.idx
      BY <3>1
    <3>3. d = DefTag(out'[i].tag) /\ tok.idx = out'[i].idx
      BY <1>2, <2>2
    <3>4. Rank(DefTag(out[i].tag), j)' = Rank(tag, j)'
      BY <3>2, <3>3 DEF Rank
    <3>5. AskedFor(n + 1)' = AskedFor(i)'
      BY <2>2 DEF AskedFor
    <3>6. j \in 1 .. i - 1
      BY <1>2, <2>2
    <3>7. QED BY <3>1, <3>2, <3>3, <3>4, <3>5, <3>6
  <2>3. QED BY <1>2, <2>1, <2>2
<1>10. QED BY <1>4, <1>5, <1>8, <1>9 DEF TablesInv

(* A text new to its table gets the next rank, and is new to the stream.   *)
LEMMA DefTables ==
  ASSUME TypeOK, TypeOK', TablesInv,
         NEW toks \in Seq(Token), NEW tok \in Token, Grown(toks), Len(toks) = 1, toks[1] = tok,
         NEW n \in Nat, n = Len(out),
         NEW d \in DefinitionTags, tok.tag = d,
         NEW s \in Texts(d), s \notin DOMAIN Indices(d), tok.str = s,
         Indices(d)' = Insert(Indices(d), s, Count(d)), Count(d)' = Count(d) + 1,
         \A e \in DefinitionTags \ {d} : Indices(e)' = Indices(e) /\ Count(e)' = Count(e)
  PROVE  TablesInv'
<1>1. n \in Nat /\ Len(toks) \in Nat /\ DOMAIN out = 1 .. n
      /\ Len(out') = n + Len(toks) /\ DOMAIN out' = 1 .. Len(out')
      /\ (\A k \in 1 .. n : out'[k] = out[k])
      /\ (\A k \in n + 1 .. Len(out') : out'[k] = toks[k - n])
  BY GrownProps
<1>2. /\ n \in Nat /\ Len(out') = n + 1 /\ DOMAIN out' = 1 .. Len(out') /\ DOMAIN out = 1 .. n
      /\ \A k \in 1 .. n : out'[k] = out[k]
      /\ out'[n + 1] = tok
  BY <1>1
<1>3. \A k \in 1 .. n + 1 : Rank(d, k)' = Rank(d, k)
  <2>1. \A e : \A k \in 1 .. n + 1 : Rank(e, k)' = Rank(e, k)
    BY GrownProps
  <2>2. QED BY <2>1
<1>4. ASSUME NEW e \in DefinitionTags \ {d} PROVE TableOK(e)'
  <2>1. TableOK(e)
    BY DEF TablesInv
  <2>2. \A k \in 1 .. Len(toks) : toks[k].tag # e
    BY <1>1
  <2>3. QED BY <2>1, <2>2, QuietTable
<1>5. TableOK(d)
  BY DEF TablesInv
<1>6. Rank(d, n + 2)' = Rank(d, n + 1) + 1
  <2> DEFINE A == {j \in 1 .. n : out[j].tag = d}
  <2>1. IsFiniteSet(A)
    <3>1. IsFiniteSet(1 .. n)
      BY <1>2, FS_Interval
    <3>2. A \subseteq 1 .. n
      OBVIOUS
    <3>3. QED BY <3>1, <3>2, FS_Subset
  <2>2. n + 1 \notin A
    BY <1>2
  <2>3. {j \in 1 .. n + 1 : out'[j].tag = d} = A \cup {n + 1}
    BY <1>2
  <2>4. Cardinality(A \cup {n + 1}) = Cardinality(A) + 1
    BY <2>1, <2>2, FS_AddElement
  <2>5. (n + 1) - 1 = n /\ (n + 2) - 1 = n + 1
    BY <1>2
  <2>6. QED BY <2>3, <2>4, <2>5 DEF Rank
<1>7. DOMAIN Indices(d)' = DOMAIN Indices(d) \cup {s}
  BY DEF Insert
<1>8. Indices(d)'[s] = Count(d) /\ \A t \in DOMAIN Indices(d) : Indices(d)'[t] = Indices(d)[t]
  BY DEF Insert
<1>9. TableOK(d)'
  <2>1. (Count(d) = Rank(d, Len(out) + 1))'
    <3>1. Count(d) = Rank(d, n + 1)
      BY <1>5 DEF TableOK
    <3>2. Len(out') + 1 = n + 2
      BY <1>2
    <3>3. Rank(d, Len(out) + 1)' = Rank(d, n + 2)'
      BY <3>2 DEF Rank
    <3>4. QED BY <1>6, <3>1, <3>3
  <2>2. DOMAIN Indices(d)' \subseteq Texts(d)
    BY <1>5, <1>7 DEF TableOK
  <2>3. ASSUME NEW t \in DOMAIN Indices(d)'
        PROVE  \E j \in 1 .. Len(out') : out'[j].tag = d /\ out'[j].str = t
                                          /\ Rank(d, j)' = Indices(d)'[t]
    <3>1. CASE t = s
      <4>1. n + 1 \in 1 .. Len(out') /\ n + 1 \in 1 .. n + 1
        BY <1>2
      <4>2. Rank(d, n + 1)' = Count(d)
        BY <1>3, <1>5, <4>1 DEF TableOK
      <4>3. QED BY <1>2, <1>8, <3>1, <4>1, <4>2
    <3>2. CASE t \in DOMAIN Indices(d)
      <4>1. PICK j \in 1 .. n : out[j].tag = d /\ out[j].str = t /\ Rank(d, j) = Indices(d)[t]
        BY <1>5, <3>2 DEF TableOK
      <4>2. j \in 1 .. Len(out') /\ j \in 1 .. n + 1
        BY <1>2
      <4>3. QED BY <1>2, <1>3, <1>8, <3>2, <4>1, <4>2
    <3>3. QED BY <1>7, <3>1, <3>2
  <2>4. ASSUME NEW j \in 1 .. Len(out'), out'[j].tag = d
        PROVE  out'[j].str \in DOMAIN Indices(d)'
    <3>1. CASE j \in 1 .. n
      BY <1>2, <1>5, <1>7, <2>4, <3>1 DEF TableOK
    <3>2. CASE j = n + 1
      BY <1>2, <1>7, <3>2
    <3>3. QED BY <1>2, <3>1, <3>2
  <2>5. Texts(d)' = Texts(d)
    BY DEF Texts
  <2>6. QED BY <2>1, <2>2, <2>3, <2>4, <2>5 DEF TableOK
<1>10. RefsHaveOrigin' /\ RefsResolve'
  <2>1. \A k \in 1 .. Len(toks) : toks[k].tag \notin ReferenceTags
    BY <1>1 DEF DefinitionTags, ReferenceTags
  <2>2. QED BY <2>1, QuietRefs
<1>11. ASSUME NEW k \in 1 .. n, out[k].tag \in DefinitionTags
       PROVE  out[k].str # s
  <2>1. CASE out[k].tag = d
    BY <1>5, <2>1 DEF TableOK
  <2>2. CASE out[k].tag # d
    <3>1. TableOK(out[k].tag)
      BY <1>11 DEF TablesInv
    <3>2. out[k].str \in Texts(out[k].tag)
      BY <3>1 DEF TableOK
    <3>3. Texts(out[k].tag) \cap Texts(d) = {}
      BY <1>11, <2>2 DEF Texts, DefinitionTags
    <3>4. QED BY <3>2, <3>3
  <2>3. QED BY <2>1, <2>2
<1>12. DefinedOnce'
  <2> SUFFICES ASSUME NEW i \in 1 .. n + 1, NEW j \in 1 .. n + 1, i # j,
                      out'[i].tag \in DefinitionTags, out'[j].tag \in DefinitionTags
               PROVE  out'[i].str # out'[j].str
    BY <1>2 DEF DefinedOnce
  <2>1. CASE i \in 1 .. n /\ j \in 1 .. n
    BY <1>2, <2>1 DEF TablesInv, DefinedOnce
  <2>2. CASE i \in 1 .. n /\ j = n + 1
    BY <1>2, <1>11, <2>2
  <2>3. CASE i = n + 1 /\ j \in 1 .. n
    BY <1>2, <1>11, <2>3
  <2>4. QED BY <1>2, <2>1, <2>2, <2>3
<1>13. QED BY <1>4, <1>9, <1>10, <1>12 DEF TablesInv
-----------------------------------------------------------------------------
(* The innermost frame, while a value is being written.                    *)
LEMMA TopTyped ==
  ASSUME TypeOK, StackOK, result = "run"
  PROVE  /\ Len(stack) \in Nat /\ Len(stack) >= 1
         /\ Top \in Frame /\ Top = stack[Len(stack)]
         /\ Top.left \in Nat /\ Top.todo \in Seq(BodyCall)
<1>1. stack \in Seq(Frame) /\ Len(stack) \in Nat /\ Len(stack) >= 1
  BY DEF TypeOK, StackOK
<1>2. stack[Len(stack)] \in Frame
  BY <1>1
<1>3. Top \in Frame
  BY <1>2 DEF Top
<1>4. Top.left \in Nat /\ Top.todo \in Seq(BodyCall)
  BY <1>3 DEF Frame
<1>5. QED BY <1>1, <1>3, <1>4 DEF Top

(* A newtype asks for nothing but the calls of its list.                   *)
LEMMA NewtypeCalls ==
  ASSUME TypeOK, StackOK, NEW c, MayCall(c), c.call \notin {"unit_variant", "str", "number", "int"}
  PROVE  ~InNewtype /\ ~pending_rtid
<1>1. result = "run" /\ Top.left > 0
  BY DEF MayCall
<1>2. /\ Len(stack) \in Nat /\ Len(stack) >= 1
      /\ Top \in Frame /\ Top = stack[Len(stack)]
      /\ Top.left \in Nat /\ Top.todo \in Seq(BodyCall)
  BY <1>1, TopTyped
<1>3. ~InNewtype
  <2> SUFFICES ASSUME InNewtype PROVE FALSE
    OBVIOUS
  <2>1. c = Top.todo[Len(Top.todo) - Top.left + 1]
    BY DEF MayCall, InNewtype, Newtypes, VarInts
  <2>2. Top.left <= Len(Top.todo)
    BY <1>1, <1>2 DEF StackOK, InNewtype
  <2>3. Len(Top.todo) - Top.left + 1 \in 1 .. Len(Top.todo)
    BY <1>1, <1>2, <2>2
  <2>4. c \in BodyCall
    BY <1>2, <2>1, <2>3
  <2>5. QED BY <2>4 DEF BodyCall
<1>4. QED BY <1>1, <1>3 DEF StackOK, InNewtype, Newtypes

(* One call less to come from the innermost frame.                         *)
LEMMA UsedProps ==
  ASSUME TypeOK, StackOK, result = "run", Top.left > 0
  PROVE  /\ Used \in Seq(Frame) /\ Len(Used) = Len(stack)
         /\ \A k \in 1 .. Len(stack) : Used[k].kind = stack[k].kind
                                       /\ Used[k].todo = stack[k].todo
                                       /\ Used[k].left <= stack[k].left
<1>1. /\ Len(stack) \in Nat /\ Len(stack) >= 1 /\ stack \in Seq(Frame)
      /\ Top \in Frame /\ Top = stack[Len(stack)] /\ Top.left \in Nat
  BY TopTyped DEF TypeOK
<1> DEFINE f == [Top EXCEPT !.left = @ - 1]
<1>2. f \in Frame /\ f.kind = Top.kind /\ f.todo = Top.todo /\ f.left <= Top.left
  <2>1. PICK k, l, t : Top = [kind |-> k, left |-> l, todo |-> t] /\ l \in Nat
    BY <1>1 DEF Frame
  <2>2. f = [kind |-> k, left |-> l - 1, todo |-> t] /\ l > 0
    BY <2>1
  <2>3. QED BY <1>1, <2>1, <2>2 DEF Frame
<1>3. Used = [stack EXCEPT ![Len(stack)] = f]
  BY <1>1 DEF Used
<1>4. /\ Len(Used) = Len(stack)
      /\ \A k \in 1 .. Len(stack) : Used[k] = IF k = Len(stack) THEN f ELSE stack[k]
  BY <1>1, <1>3
<1>5. Used \in Seq(Frame)
  BY <1>1, <1>2, <1>3
<1>6. ASSUME NEW k \in 1 .. Len(stack)
      PROVE  Used[k].kind = stack[k].kind /\ Used[k].todo = stack[k].todo
             /\ Used[k].left <= stack[k].left
  <2>1. CASE k = Len(stack)
    BY <1>1, <1>2, <1>4, <2>1
  <2>2. CASE k # Len(stack)
    <3>1. Used[k] = stack[k]
      BY <1>4, <2>2
    <3>2. stack[k] \in Frame
      BY <1>1
    <3>3. stack[k].left \in Nat
      BY <3>2 DEF Frame
    <3>4. QED BY <3>1, <3>3
  <2>3. QED BY <2>1, <2>2
<1>7. QED BY <1>4, <1>5, <1>6

(* The stack stays in order when a call is counted off.                    *)
LEMMA UsedOK ==
  ASSUME TypeOK, StackOK, NEW c, MayCall(c), stack' = Used, UNCHANGED <<result, pending_rtid>>
  PROVE  stack' \in Seq(Frame) /\ StackOK'
<1>1. result = "run" /\ Top.left > 0
  BY DEF MayCall
<1>2. /\ stack' \in Seq(Frame) /\ Len(stack') = Len(stack)
      /\ \A k \in 1 .. Len(stack) : stack'[k].kind = stack[k].kind
                                    /\ stack'[k].todo = stack[k].todo
                                    /\ stack'[k].left <= stack[k].left
  BY <1>1, UsedProps
<1>3. Len(stack) \in Nat /\ Len(stack) >= 1
  BY <1>1, TopTyped
<1>4. Top'.kind = Top.kind
  BY <1>2, <1>3 DEF Top
<1>5. ASSUME NEW k \in 1 .. Len(stack), stack'[k].kind \in Newtypes
      PROVE  k = Len(stack) /\ stack'[k].left <= Len(stack'[k].todo)
  <2>1. k = Len(stack) /\ stack[k].left <= Len(stack[k].todo)
    BY <1>1, <1>2, <1>5 DEF StackOK
  <2>2. stack[k] \in Frame /\ stack'[k] \in Frame
    BY <1>2 DEF TypeOK
  <2>3. stack[k].left \in Nat /\ stack'[k].left \in Nat /\ Len(stack[k].todo) \in Nat
    BY <2>2 DEF Frame
  <2>4. QED BY <1>2, <2>1, <2>3
<1>6. QED BY <1>1, <1>2, <1>3, <1>4, <1>5 DEF StackOK

(* A container or a newtype is opened on top of frames that are none.      *)
LEMMA OpenedOK ==
  ASSUME TypeOK, StackOK, result = "run", Top.left > 0, ~InNewtype,
         NEW kind \in {"seq", "map", "tuple"} \cup Newtypes, NEW n \in Nat,
         NEW t \in Seq(BodyCall), kind \in Newtypes => n <= Len(t),
         stack' = Opened(kind, n, t), result' = result, pending_rtid' = (kind = "RTID")
  PROVE  stack' \in Seq(Frame) /\ StackOK'
<1> DEFINE f == [kind |-> kind, left |-> n, todo |-> t]
<1>1. /\ Used \in Seq(Frame) /\ Len(Used) = Len(stack)
      /\ \A k \in 1 .. Len(stack) : Used[k].kind = stack[k].kind
                                    /\ Used[k].todo = stack[k].todo
                                    /\ Used[k].left <= stack[k].left
  BY UsedProps
<1>2. Len(stack) \in Nat /\ Len(stack) >= 1 /\ Top = stack[Len(stack)]
  BY TopTyped
<1>3. f \in Frame
  BY DEF Frame
<1>4. stack' = Append(Used, f)
  BY DEF Opened
<1>5. /\ stack' \in Seq(Frame) /\ Len(stack') = Len(stack) + 1
      /\ stack'[Len(stack) + 1] = f
      /\ \A k \in 1 .. Len(stack) : stack'[k] = Used[k]
  BY <1>1, <1>2, <1>3, <1>4
<1>6. \A k \in 1 .. Len(stack) : stack[k].kind \notin Newtypes
  BY <1>2 DEF StackOK, InNewtype
<1>7. stack'[1].kind = "doc"
  BY <1>1, <1>2, <1>5 DEF StackOK
<1>8. ASSUME NEW k \in 1 .. Len(stack) + 1, stack'[k].kind \in Newtypes
      PROVE  k = Len(stack) + 1 /\ stack'[k].left <= Len(stack'[k].todo)
  <2>1. k = Len(stack) + 1
    <3>1. CASE k \in 1 .. Len(stack)
      BY <1>1, <1>5, <1>6, <1>8, <3>1
    <3>2. QED BY <1>2, <3>1
  <2>2. QED BY <1>5, <1>8, <2>1
<1>9. Top'.kind = kind
  BY <1>5 DEF Top
<1>10. Len(stack') \in Nat /\ Len(stack') >= 1
  BY <1>2, <1>5
<1>11. QED BY <1>5, <1>7, <1>8, <1>9, <1>10 DEF StackOK

(* What is under a closed frame is no newtype.                             *)
LEMMA ClosedOK ==
  ASSUME TypeOK, StackOK, result = "run", Top.kind # "doc",
         stack' = Closed, result' = result, pending_rtid' = FALSE
  PROVE  stack' \in Seq(Frame) /\ StackOK'
<1> DEFINE n == Len(stack) - 1
<1>1. /\ stack \in Seq(Frame) /\ Len(stack) \in Nat /\ Len(stack) >= 1
      /\ Top = stack[Len(stack)] /\ stack[1].kind = "doc"
  BY TopTyped DEF TypeOK, StackOK
<1>2. n \in Nat /\ n >= 1
  BY <1>1
<1>3. /\ stack' \in Seq(Frame) /\ Len(stack') = n
      /\ \A k \in 1 .. n : stack'[k] = stack[k]
  BY <1>1, <1>2 DEF Closed
<1>4. \A k \in 1 .. n : stack[k].kind \notin Newtypes
  BY <1>1, <1>2 DEF StackOK
<1>5. Top' = stack[n]
  BY <1>2, <1>3 DEF Top
<1>6. Top'.kind # "RTID"
  BY <1>2, <1>4, <1>5 DEF Newtypes
<1>7. stack'[1].kind = "doc"
  BY <1>1, <1>2, <1>3
<1>8. QED BY <1>2, <1>3, <1>4, <1>6, <1>7 DEF StackOK
-----------------------------------------------------------------------------
(* The history keeps what it has and is well typed.                        *)
Extended ==
  /\ wrote' \in Seq(Entry)
  /\ Len(wrote) <= Len(wrote')
  /\ \A i \in 1 .. Len(wrote) : wrote'[i] = wrote[i]

(* Recording a call appends at most one typed entry.                       *)
LEMMA RecordProps ==
  ASSUME TypeOK, StackOK, result = "run", NEW c \in Call, Record(c)
  PROVE  /\ Extended
         /\ Top.kind # "RTID" => /\ Len(wrote') \in 1 .. Len(wrote')
                                 /\ wrote'[Len(wrote')].is = c
<1>1. wrote \in Seq(Entry) /\ Len(wrote) \in Nat
  BY DEF TypeOK
<1>2. CASE Top.kind = "RTID"
  BY <1>1, <1>2 DEF Record, Extended
<1>3. CASE Top.kind # "RTID"
  <2> DEFINE w == IF InNewtype THEN Top.kind ELSE "plain"
             e == [is |-> c, wrap |-> w]
  <2>1. Top \in Frame
    BY TopTyped
  <2>2. w \in {"plain"} \cup Newtypes
    BY DEF InNewtype
  <2>3. e \in Entry
    BY <2>2 DEF Entry
  <2>4. wrote' = Append(wrote, e)
    BY <1>3 DEF Record
  <2>5. /\ wrote' \in Seq(Entry) /\ Len(wrote') = Len(wrote) + 1
        /\ wrote'[Len(wrote) + 1] = e
        /\ \A k \in 1 .. Len(wrote) : wrote'[k] = wrote[k]
    BY <1>1, <2>3, <2>4
  <2>6. QED BY <1>1, <2>5 DEF Extended
<1>4. QED BY <1>2, <1>3

(* Emitting typed tokens grows the stream and the history together.        *)
LEMMA EmitProps ==
  ASSUME TypeOK, Extended, NEW toks \in Seq(Token), Emit(toks)
  PROVE  /\ Grown(toks)
         /\ out' \in Seq(Token) /\ origin' \in Seq(Nat) /\ Len(origin') = Len(out')
         /\ \A i \in Len(out) + 1 .. Len(out') : origin'[i] = Len(wrote')
<1> DEFINE more == [i \in 1 .. Len(toks) |-> Len(wrote')]
<1>1. /\ out \in Seq(Token) /\ origin \in Seq(Nat) /\ Len(origin) = Len(out)
      /\ Len(out) \in Nat /\ Len(toks) \in Nat
  BY DEF TypeOK
<1>2. Len(wrote') \in Nat
  BY DEF Extended
<1>3. more \in Seq(Nat) /\ Len(more) = Len(toks) /\ \A i \in 1 .. Len(toks) : more[i] = Len(wrote')
  BY <1>1, <1>2
<1>4. out' = out \o toks /\ origin' = origin \o more
  BY DEF Emit
<1> HIDE DEF more
<1>5. out' \in Seq(Token) /\ Len(out') = Len(out) + Len(toks)
  BY <1>1, <1>4, ConcatProps
<1>6. /\ origin' \in Seq(Nat) /\ Len(origin') = Len(origin) + Len(more)
      /\ \A i \in 1 .. Len(origin) : origin'[i] = origin[i]
      /\ \A i \in Len(origin) + 1 .. Len(origin) + Len(more) : origin'[i] = more[i - Len(origin)]
  <2> SUFFICES ASSUME NEW o \in Seq(Nat), NEW m \in Seq(Nat)
               PROVE  /\ o \o m \in Seq(Nat) /\ Len(o \o m) = Len(o) + Len(m)
                      /\ \A i \in 1 .. Len(o) : (o \o m)[i] = o[i]
                      /\ \A i \in Len(o) + 1 .. Len(o) + Len(m) : (o \o m)[i] = m[i - Len(o)]
    BY <1>1, <1>3, <1>4, Zenon
  <2>1. QED BY ConcatProps
<1>7. \A i \in Len(out) + 1 .. Len(out') : origin'[i] = Len(wrote')
  <2> SUFFICES ASSUME NEW i \in Len(out) + 1 .. Len(out') PROVE origin'[i] = Len(wrote')
    OBVIOUS
  <2>1. i - Len(out) \in 1 .. Len(toks) /\ i \in Len(origin) + 1 .. Len(origin) + Len(more)
    BY <1>1, <1>3, <1>5
  <2>2. origin'[i] = more[i - Len(out)]
    BY <1>1, <1>6, <2>1
  <2>3. QED BY <1>3, <2>1, <2>2
<1>8. QED BY <1>1, <1>3, <1>4, <1>5, <1>6, <1>7 DEF Grown, Extended

(* Everything but the stream and the tables.                               *)
RestTyped ==
  /\ result \in {"new", "run", "ok", "err"}
  /\ stack \in Seq(Frame)
  /\ is_root \in BOOLEAN
  /\ pending_varint \in {"None"} \cup VarInts
  /\ pending_rtid \in BOOLEAN /\ pending_direct \in BOOLEAN

(* A step that appends tokens which are no strings of a table.             *)
LEMMA QuietStep ==
  ASSUME IInv, NEW toks \in Seq(Token), Extended, Emit(toks), UNCHANGED tables,
         \A k \in 1 .. Len(toks) : toks[k].tag \notin DefinitionTags \cup ReferenceTags,
         RestTyped', StackOK'
  PROVE  IInv'
<1>1. TypeOK /\ TablesInv
  BY DEF IInv
<1>2. /\ Grown(toks)
      /\ out' \in Seq(Token) /\ origin' \in Seq(Nat) /\ Len(origin') = Len(out')
  BY <1>1, EmitProps
<1>3. TypeOK'
  BY <1>1, <1>2 DEF TypeOK, RestTyped, Extended, tables
<1>4. TablesInv'
  BY <1>1, <1>2, <1>3, QuietTables
<1>5. QED BY <1>3, <1>4 DEF IInv

(* A step that writes nothing.                                             *)
LEMMA SilentStep ==
  ASSUME IInv, UNCHANGED <<out, origin, wrote, tables>>, RestTyped', StackOK'
  PROVE  IInv'
<1>1. TypeOK'
  BY DEF IInv, TypeOK, RestTyped, tables
<1>2. TablesInv'
  <2>1. \A tag : Indices(tag)' = Indices(tag) /\ Count(tag)' = Count(tag)
    BY DEF Indices, Count, tables
  <2>2. ASSUME NEW tag \in DefinitionTags PROVE TableOK(tag)'
    <3>1. TableOK(tag) /\ Indices(tag)' = Indices(tag) /\ Count(tag)' = Count(tag)
      BY <2>1 DEF IInv, TablesInv
    <3>2. out' = out
      OBVIOUS
    <3>3. Rank(tag, Len(out) + 1)' = Rank(tag, Len(out) + 1)
      BY <3>2 DEF Rank
    <3>4. \A k \in 1 .. Len(out) : Rank(tag, k)' = Rank(tag, k)
      BY <3>2 DEF Rank
    <3>5. (Count(tag) = Rank(tag, Len(out) + 1))'
      BY <3>1, <3>3 DEF TableOK
    <3>6. \A s \in DOMAIN Indices(tag) : \E j \in 1 .. Len(out') :
            out'[j].tag = tag /\ out'[j].str = s /\ Rank(tag, j)' = Indices(tag)[s]
      BY <3>1, <3>2, <3>4 DEF TableOK
    <3>7. /\ \A j \in 1 .. Len(out') : out'[j].tag = tag => out'[j].str \in DOMAIN Indices(tag)
          /\ DOMAIN Indices(tag) \subseteq Texts(tag)
      BY <3>1, <3>2 DEF TableOK
    <3>8. QED BY <3>1, <3>5, <3>6, <3>7 DEF TableOK, Texts
  <2>3. RefsHaveOrigin' /\ DefinedOnce'
    BY DEF IInv, TablesInv, RefsHaveOrigin, DefinedOnce
  <2>4. RefsResolve'
    <3>1. RefsResolve
      BY DEF IInv, TablesInv
    <3>2. out' = out /\ origin' = origin /\ wrote' = wrote
      OBVIOUS
    <3>3. \A i : AskedFor(i)' = AskedFor(i)
      BY <3>2 DEF AskedFor
    <3>4. ASSUME NEW i \in DOMAIN out, out[i].tag \in ReferenceTags
          PROVE  \E j \in 1 .. i - 1 : /\ out'[j].tag = DefTag(out'[i].tag)
                                      /\ out'[j].str = AskedFor(i)'
                                      /\ Rank(DefTag(out[i].tag), j)' = out'[i].idx
      <4>1. PICK j \in 1 .. i - 1 : /\ out[j].tag = DefTag(out[i].tag)
                                   /\ out[j].str = AskedFor(i)
                                   /\ Rank(DefTag(out[i].tag), j) = out[i].idx
        BY <3>1, <3>4 DEF RefsResolve
      <4>2. Rank(DefTag(out[i].tag), j)' = Rank(DefTag(out[i].tag), j)
        BY <3>2 DEF Rank
      <4>3. QED BY <3>2, <3>3, <4>1, <4>2
    <3>5. QED BY <3>2, <3>4 DEF RefsResolve
  <2>5. QED BY <2>2, <2>3, <2>4 DEF TablesInv
<1>3. QED BY <1>1, <1>2 DEF IInv

(* A call that writes one token and goes on to the next call.              *)
LEMMA PlainStep ==
  ASSUME IInv, NEW c \in Call, NEW token \in Token, Plain(c, token),
         token.tag \notin DefinitionTags \cup ReferenceTags
  PROVE  IInv'
<1>1. TypeOK /\ StackOK /\ result = "run"
  BY DEF IInv, Plain, MayCall
<1>2. stack' \in Seq(Frame) /\ StackOK'
  BY <1>1, UsedOK DEF Plain, flags
<1>3. Extended
  BY <1>1, RecordProps DEF Plain
<1>4. RestTyped'
  BY <1>1, <1>2 DEF Plain, TypeOK, RestTyped, flags
<1> DEFINE toks == <<token>>
<1>5. /\ toks \in Seq(Token) /\ Emit(toks) /\ UNCHANGED tables
      /\ \A k \in 1 .. Len(toks) : toks[k].tag \notin DefinitionTags \cup ReferenceTags
  BY DEF Plain
<1>6. QED BY <1>2, <1>3, <1>4, <1>5, QuietStep
-----------------------------------------------------------------------------
(* One lemma per kind of step.                                             *)
LEMMA HeaderStep == ASSUME IInv, write_header PROVE IInv'
<1> DEFINE toks == <<[tag |-> "(header)", version |-> "standard"]>>
<1>1. TypeOK /\ StackOK
  BY DEF IInv
<1>2. toks \in Seq(Token) /\ Emit(toks) /\ UNCHANGED tables
      /\ \A k \in 1 .. Len(toks) : toks[k].tag \notin DefinitionTags \cup ReferenceTags
  BY DEF write_header, Token, DefinitionTags, ReferenceTags
<1>3. Extended
  BY <1>1 DEF write_header, TypeOK, Extended
<1>4. RestTyped'
  BY <1>1 DEF write_header, TypeOK, RestTyped, flags
<1>5. StackOK'
  BY <1>1 DEF write_header, StackOK, Top, flags
<1>6. QED BY <1>2, <1>3, <1>4, <1>5, QuietStep

(* The footer is no definition and no reference.                           *)
LEMMA FooterStep == ASSUME IInv, write_footer PROVE IInv'
<1> DEFINE toks == <<[tag |-> "(footer)"]>>
<1>1. TypeOK /\ StackOK
  BY DEF IInv
<1>2. toks \in Seq(Token) /\ Emit(toks) /\ UNCHANGED tables
      /\ \A k \in 1 .. Len(toks) : toks[k].tag \notin DefinitionTags \cup ReferenceTags
  BY DEF write_footer, Token, DefinitionTags, ReferenceTags
<1>3. Extended
  BY <1>1 DEF write_footer, TypeOK, Extended
<1>4. RestTyped'
  BY <1>1 DEF write_footer, TypeOK, RestTyped, flags
<1>5. StackOK'
  BY <1>1 DEF write_footer, StackOK
<1>6. QED BY <1>2, <1>3, <1>4, <1>5, QuietStep

(* The calls that write one token: a scalar, an integer, an RTID's part.   *)
LEMMA ScalarStep ==
  ASSUME IInv,
         \/ \E b \in BOOLEAN : serialize_bool(b)
         \/ \E ty \in {"f32", "f64"}, x \in Floats : serialize_float(ty, x)
         \/ \E b \in Blobs : serialize_bytes(b)
         \/ \E i \in 0 .. 3 : serialize_unit_variant(i)
         \/ serialize_none
  PROVE  IInv'
<1> USE DEF DefinitionTags, ReferenceTags
<1>1. ASSUME NEW b \in BOOLEAN, serialize_bool(b) PROVE IInv'
  <2>1. [call |-> "bool", bool |-> b] \in Call
    BY DEF Call
  <2>2. [tag |-> IF b THEN "BooleanTrue" ELSE "BooleanFalse"] \in Token
    BY DEF Token
  <2>3. QED BY <1>1, <2>1, <2>2, PlainStep DEF serialize_bool
<1>2. ASSUME NEW ty \in {"f32", "f64"}, NEW x \in Floats, serialize_float(ty, x)
      PROVE  IInv'
  <2> DEFINE token == IF x \in {"+0", "-0"} THEN [tag |-> IF ty = "f32" THEN "F32Zero" ELSE "F64Zero"]
                      ELSE [tag |-> IF ty = "f32" THEN "F32" ELSE "F64", val |-> x]
  <2>1. [call |-> "float", ty |-> ty, val |-> x] \in Call
    BY DEF Call
  <2>2. token \in Token /\ token.tag \notin DefinitionTags \cup ReferenceTags
    <3>1. CASE x \in {"+0", "-0"}
      BY <3>1 DEF Token
    <3>2. CASE x \notin {"+0", "-0"}
      BY <3>2 DEF Token
    <3>3. QED BY <3>1, <3>2
  <2>3. QED BY <1>2, <2>1, <2>2, PlainStep DEF serialize_float
<1>3. ASSUME NEW b \in Blobs, serialize_bytes(b) PROVE IInv'
  <2>1. [call |-> "bytes", bytes |-> b] \in Call
    BY DEF Call
  <2> DEFINE h == HexStr(b)
  <2>2. [tag |-> "BinaryBlob", hex |-> h, declared |-> Len(b), raw |-> b] \in Token
    BY DEF Token
  <2>3. QED BY <1>3, <2>1, <2>2, PlainStep DEF serialize_bytes
<1>4. ASSUME NEW i \in 0 .. 3, serialize_unit_variant(i) PROVE IInv'
  <2>1. [call |-> "unit_variant", index |-> i] \in Call
    BY DEF Call, BodyCall
  <2>2. [tag |-> "(byte)", byte |-> i] \in Token
    BY DEF Token
  <2>3. QED BY <1>4, <2>1, <2>2, PlainStep DEF serialize_unit_variant
<1>5. ASSUME serialize_none PROVE IInv'
  <2>1. [call |-> "none"] \in Call
    BY DEF Call
  <2>2. [tag |-> "RtidNull"] \in Token
    BY DEF Token
  <2>3. QED BY <1>5, <2>1, <2>2, PlainStep DEF serialize_none
<1>6. QED BY <1>1, <1>2, <1>3, <1>4, <1>5

(* An integer, forced to a varint tag or not.                              *)
LEMMA IntStep == ASSUME IInv, NEW v \in Ints, serialize_int(v) PROVE IInv'
<1> DEFINE forced == pending_varint \in VarInts /\ VarIntType(pending_varint) = v.ty
           bare   == [tag |-> IF v.ty = "u32" THEN "(u32)" ELSE "(varint)", num |-> v.bits]
           token  == IF pending_rtid /\ v.ty \in {"u32", "u64"} THEN bare ELSE EncodeInt(v, forced)
<1>1. v \in RustInt /\ forced \in BOOLEAN
  BY IntsAssumption DEF IntsAssumption
<1>2. [call |-> "int", int |-> v] \in Call
  BY <1>1 DEF Call, BodyCall
<1>3. v.bits \in Nat
  BY <1>1 DEF RustInt
<1>4. bare \in Token /\ bare.tag \notin DefinitionTags \cup ReferenceTags
  BY <1>3 DEF Token, DefinitionTags, ReferenceTags
<1>5. EncodeInt(v, forced) \in [tag : IntTags, bits : Nat, odd : BOOLEAN]
  BY <1>1, EncodeTyped
<1>6. EncodeInt(v, forced) \in Token
      /\ EncodeInt(v, forced).tag \notin DefinitionTags \cup ReferenceTags
  BY <1>5 DEF Token, IntTags, DefinitionTags, ReferenceTags
<1>7. token \in Token /\ token.tag \notin DefinitionTags \cup ReferenceTags
  BY <1>4, <1>6
<1>8. QED BY <1>2, <1>7, PlainStep DEF serialize_int

(* A number, inside an RTID body or not.                                   *)
LEMMA NumberStep ==
  ASSUME IInv, NEW wire \in {"(varint)", "(u32)"}, NEW n \in RtidNumbers, serialize_number(wire, n)
  PROVE  IInv'
<1> DEFINE bare  == [tag |-> wire, num |-> n]
           full  == [tag |-> IF wire = "(u32)" THEN "U32" ELSE "U64", bits |-> n, odd |-> FALSE]
           token == IF pending_rtid THEN bare ELSE full
<1>1. n \in Nat
  <2>1. PICK r \in Rtids : r.kind = "uid" /\ n \in Numbers(r)
    BY DEF RtidNumbers
  <2>2. r \in RtidOver(Strings)
    BY RtidsAssumption DEF RtidsAssumption
  <2>3. QED BY <2>1, <2>2 DEF RtidOver, Numbers
<1>2. [call |-> "number", wire |-> wire, num |-> n] \in Call
  BY <1>1 DEF Call, BodyCall
<1>3. bare \in Token /\ bare.tag \notin DefinitionTags \cup ReferenceTags
  BY <1>1 DEF Token, DefinitionTags, ReferenceTags
<1>4. full \in Token /\ full.tag \notin DefinitionTags \cup ReferenceTags
  BY <1>1 DEF Token, IntTags, DefinitionTags, ReferenceTags
<1>5. token \in Token /\ token.tag \notin DefinitionTags \cup ReferenceTags
  BY <1>3, <1>4
<1>6. QED BY <1>2, <1>5, PlainStep DEF serialize_number

(* serialize_str, when the string goes to no table.                        *)
LEMMA LooseStringStep ==
  ASSUME IInv, NEW s \in Strings, serialize_str(s), ~GoesToTable(s)
  PROVE  IInv'
<1> DEFINE c    == [call |-> "str", str |-> s]
           toks == <<StrToken(s)>>
<1>1. TypeOK /\ StackOK /\ MayCall(c) /\ result = "run" /\ UNCHANGED tables
  BY DEF IInv, serialize_str, MayCall
<1>2. c \in Call
  BY DEF Call, BodyCall
<1>3. Extended
  BY <1>1, <1>2, RecordProps DEF serialize_str
<1>4. stack' \in Seq(Frame) /\ StackOK'
  BY <1>1, UsedOK DEF serialize_str, flags
<1>5. RestTyped'
  BY <1>1, <1>4 DEF serialize_str, TypeOK, RestTyped, flags
<1>6. pending_rtid \in BOOLEAN /\ pending_direct \in BOOLEAN
  BY <1>1 DEF TypeOK
<1>7. StrToken(s) \in {[tag |-> "(utf8)", str |-> s], [tag |-> "StringAsterisk"],
                       [tag |-> "RtidNull"], Direct(s)}
  BY <1>6 DEF StrToken, GoesToTable
<1>8. StrToken(s) \in Token /\ StrToken(s).tag \notin DefinitionTags \cup ReferenceTags
  BY <1>7 DEF Direct, Token, DirectTags, DefinitionTags, ReferenceTags
<1>9. /\ toks \in Seq(Token) /\ Emit(toks)
      /\ \A k \in 1 .. Len(toks) : toks[k].tag \notin DefinitionTags \cup ReferenceTags
  BY <1>8 DEF serialize_str
<1>10. QED BY <1>1, <1>3, <1>4, <1>5, <1>9, QuietStep

(* serialize_str, when it does: a definition or a reference.               *)
LEMMA InternedStringStep ==
  ASSUME IInv, NEW s \in Strings, serialize_str(s), GoesToTable(s)
  PROVE  IInv'
<1> DEFINE c   == [call |-> "str", str |-> s]
           tok == StrToken(s)
           toks == <<tok>>
<1>1. TypeOK /\ StackOK /\ TablesInv /\ MayCall(c) /\ result = "run"
  BY DEF IInv, serialize_str, MayCall
<1>2. c \in Call
  BY DEF Call, BodyCall
<1>3. ~pending_rtid /\ Top.kind # "RTID"
  BY <1>1 DEF GoesToTable, StackOK
<1>4. Extended /\ Len(wrote') \in 1 .. Len(wrote') /\ wrote'[Len(wrote')].is = c
  BY <1>1, <1>2, <1>3, RecordProps DEF serialize_str
<1>5. stack' \in Seq(Frame) /\ StackOK'
  BY <1>1, UsedOK DEF serialize_str, flags
<1>6. RestTyped'
  BY <1>1, <1>5 DEF serialize_str, TypeOK, RestTyped, flags
<1>7. tok = Interned(s)
  BY DEF StrToken, GoesToTable
<1>8. Emit(toks) /\ Intern(s)
  BY DEF serialize_str
<1>9. latin1_indices \in [DOMAIN latin1_indices -> Nat] /\ next_latin1 \in Nat
      /\ utf8_indices \in [DOMAIN utf8_indices -> Nat] /\ next_utf8 \in Nat
  BY <1>1 DEF TypeOK
<1>10. tok \in Token
  BY <1>7, <1>9 DEF Interned, Token, DefinitionTags, ReferenceTags
<1>11. toks \in Seq(Token) /\ Len(toks) = 1 /\ toks[1] = tok
  BY <1>10
<1>12. /\ Grown(toks)
       /\ out' \in Seq(Token) /\ origin' \in Seq(Nat) /\ Len(origin') = Len(out')
       /\ \A i \in Len(out) + 1 .. Len(out') : origin'[i] = Len(wrote')
  BY <1>1, <1>4, <1>8, <1>11, EmitProps
<1>13. latin1_indices' \in [DOMAIN latin1_indices' -> Nat] /\ next_latin1' \in Nat
       /\ utf8_indices' \in [DOMAIN utf8_indices' -> Nat] /\ next_utf8' \in Nat
  BY <1>8, <1>9 DEF Intern, Insert
<1>14. TypeOK'
  BY <1>4, <1>6, <1>12, <1>13 DEF TypeOK, RestTyped, Extended
<1>15. PICK n \in Nat : n = Len(out)
  BY <1>1 DEF TypeOK
<1>16. origin'[n + 1] = Len(wrote')
  <2>1. Len(out') = n + 1
    BY <1>1, <1>11, <1>12, <1>14, <1>15, GrownProps
  <2>2. QED BY <1>12, <1>15, <2>1
<1>17. AskedFor(n + 1)' = s
  BY <1>4, <1>16 DEF AskedFor
<1>18. CASE tok.tag \in ReferenceTags
  <2>1. \/ tok = [tag |-> "StringLatin1Reference", idx |-> latin1_indices[s]]
           /\ s \in DOMAIN latin1_indices /\ s \in Latin1
        \/ tok = [tag |-> "StringUtf8Reference", idx |-> utf8_indices[s]]
           /\ s \in DOMAIN utf8_indices /\ s \notin Latin1
    BY <1>7, <1>18 DEF Interned, ReferenceTags
  <2>2. UNCHANGED tables
    BY <1>8, <2>1, <1>1 DEF Intern, tables
  <2>3. s \in DOMAIN Indices(DefTag(tok.tag)) /\ tok.idx = Indices(DefTag(tok.tag))[s]
    BY <2>1 DEF DefTag, Indices
  <2>4. TablesInv'
    BY <1>1, <1>4, <1>10, <1>11, <1>12, <1>14, <1>15, <1>16, <1>17, <1>18, <2>2, <2>3, RefTables
  <2>5. QED BY <1>5, <1>14, <2>4 DEF IInv
<1>19. CASE tok.tag \notin ReferenceTags
  <2>1. \/ tok = [tag |-> "StringLatin1Definition", str |-> s]
           /\ s \notin DOMAIN latin1_indices /\ s \in Latin1
        \/ tok = [tag |-> "StringUtf8Definition", str |-> s]
           /\ s \notin DOMAIN utf8_indices /\ s \notin Latin1
    BY <1>7, <1>19 DEF Interned, ReferenceTags
  <2> DEFINE d == tok.tag
  <2>2. d \in DefinitionTags /\ tok.str = s /\ s \in Texts(d) /\ s \notin DOMAIN Indices(d)
    BY <2>1 DEF DefinitionTags, Texts, Indices
  <2>3. PICK e \in DefinitionTags : e = tok.tag
    BY <2>2
  <2>4. Indices(e)' = Insert(Indices(e), s, Count(e)) /\ Count(e)' = Count(e) + 1
    BY <1>8, <2>1, <2>3 DEF Intern, Indices, Count
  <2>5. ASSUME NEW f \in DefinitionTags \ {e}
        PROVE  Indices(f)' = Indices(f) /\ Count(f)' = Count(f)
    BY <1>8, <2>1, <2>3 DEF Intern, Indices, Count, DefinitionTags
  <2>6. TablesInv'
    BY <1>1, <1>10, <1>11, <1>12, <1>14, <1>15, <2>2, <2>3, <2>4, <2>5, DefTables
  <2>7. QED BY <1>5, <1>14, <2>6 DEF IInv
<1>20. QED BY <1>18, <1>19

(* serialize_seq, _map and _tuple, which open a frame, and their ends.     *)
LEMMA ContainerStep ==
  ASSUME IInv, NEW n \in Lens, serialize_seq(n) \/ serialize_map(n) \/ serialize_tuple(n)
  PROVE  IInv'
<1> USE DEF DefinitionTags, ReferenceTags
<1>1. TypeOK /\ StackOK
  BY DEF IInv
<1>2. n \in Nat /\ 2 * n \in Nat
  BY BoundsAssumption DEF BoundsAssumption, Lens
<1>3. ASSUME NEW kind \in {"seq", "map", "tuple"}, NEW m \in Nat, NEW toks \in Seq(Token),
             LET c == [call |-> kind, len |-> n] IN MayCall(c) /\ Record(c),
             Emit(toks), stack' = Opened(kind, m, <<>>), is_root' \in BOOLEAN,
             UNCHANGED <<result, tables, flags>>,
             \A k \in 1 .. Len(toks) : toks[k].tag \notin DefinitionTags \cup ReferenceTags
      PROVE  IInv'
  <2> DEFINE c == [call |-> kind, len |-> n]
  <2>1. c \in Call
    BY <1>2 DEF Call
  <2>2. result = "run" /\ Top.left > 0
    BY <1>3 DEF MayCall
  <2>3. ~InNewtype /\ ~pending_rtid
    BY <1>1, <1>3, NewtypeCalls
  <2>4. stack' \in Seq(Frame) /\ StackOK'
    <3>1. kind \notin Newtypes /\ <<>> \in Seq(BodyCall)
      BY DEF Newtypes, VarInts
    <3>2. result' = result /\ pending_rtid' = (kind = "RTID")
      BY <1>1, <1>3, <2>3 DEF flags, TypeOK
    <3>3. QED BY <1>1, <1>3, <2>2, <2>3, <3>1, <3>2, OpenedOK
  <2>5. Extended
    BY <1>1, <1>3, <2>1, <2>2, RecordProps
  <2>6. RestTyped'
    BY <1>1, <1>3, <2>4 DEF TypeOK, RestTyped, flags
  <2>7. QED BY <1>3, <2>4, <2>5, <2>6, QuietStep
<1>4. CASE serialize_seq(n)
  <2> DEFINE toks == <<[tag |-> "ArrayBegin"], [tag |-> "ArrayCapacity", cap |-> n]>>
  <2>1. /\ toks \in Seq(Token)
        /\ \A k \in 1 .. Len(toks) : toks[k].tag \notin DefinitionTags \cup ReferenceTags
    BY <1>2 DEF Token
  <2>2. is_root' \in BOOLEAN
    BY <1>1, <1>4 DEF serialize_seq, TypeOK
  <2>3. QED BY <1>2, <1>3, <1>4, <2>1, <2>2 DEF serialize_seq
<1>5. CASE serialize_map(n)
  <2> DEFINE toks == IF is_root THEN <<>> ELSE <<[tag |-> "ObjectBegin"]>>
  <2>1. /\ toks \in Seq(Token)
        /\ \A k \in 1 .. Len(toks) : toks[k].tag \notin DefinitionTags \cup ReferenceTags
    <3>1. [tag |-> "ObjectBegin"] \in Token
      BY DEF Token
    <3>2. CASE is_root
      BY <3>2
    <3>3. CASE ~is_root
      BY <3>1, <3>3
    <3>4. QED BY <3>2, <3>3
  <2>2. QED BY <1>2, <1>3, <1>5, <2>1 DEF serialize_map
<1>6. CASE serialize_tuple(n)
  <2>1. is_root' \in BOOLEAN
    BY <1>1, <1>6 DEF serialize_tuple, TypeOK
  <2>2. <<>> \in Seq(Token) /\ \A k \in 1 .. Len(<<>>) : <<>>[k].tag \notin DefinitionTags \cup ReferenceTags
    OBVIOUS
  <2>3. QED BY <1>2, <1>3, <1>6, <2>1, <2>2 DEF serialize_tuple
<1>7. QED BY <1>4, <1>5, <1>6

(* The end of a sequence, a map or a tuple closes its frame.               *)
LEMMA EndStep == ASSUME IInv, end_seq \/ end_map \/ end_tuple PROVE IInv'
<1> USE DEF DefinitionTags, ReferenceTags
<1>1. TypeOK /\ StackOK
  BY DEF IInv
<1>2. ASSUME NEW kind \in {"seq", "map", "tuple"}, NEW toks \in Seq(Token), End(kind, toks),
             \A k \in 1 .. Len(toks) : toks[k].tag \notin DefinitionTags \cup ReferenceTags
      PROVE  IInv'
  <2>1. [call |-> "end", of |-> kind] \in Call
    BY DEF Call
  <2>2. result = "run" /\ Top.kind = kind /\ ~pending_rtid
    BY <1>1, <1>2 DEF End, StackOK
  <2>3. stack' \in Seq(Frame) /\ StackOK'
    BY <1>1, <1>2, <2>2, ClosedOK DEF End, flags, TypeOK
  <2>4. Extended
    BY <1>1, <1>2, <2>1, <2>2, RecordProps DEF End
  <2>5. RestTyped'
    BY <1>1, <1>2, <2>3 DEF End, TypeOK, RestTyped, flags
  <2>6. Emit(toks) /\ UNCHANGED tables
    BY <1>2 DEF End
  <2>7. QED BY <1>2, <2>3, <2>4, <2>5, <2>6, QuietStep
<1>3. CASE end_seq
  <2>1. [tag |-> "ArrayEnd"] \in Token
    BY DEF Token
  <2>2. /\ <<[tag |-> "ArrayEnd"]>> \in Seq(Token)
        /\ \A k \in 1 .. Len(<<[tag |-> "ArrayEnd"]>>) : <<[tag |-> "ArrayEnd"]>>[k].tag \notin DefinitionTags \cup ReferenceTags
    BY <2>1
  <2>3. QED BY <1>2, <1>3, <2>2 DEF end_seq
<1>4. CASE end_map
  <2>1. [tag |-> "ObjectEnd"] \in Token
    BY DEF Token
  <2>2. /\ <<[tag |-> "ObjectEnd"]>> \in Seq(Token)
        /\ \A k \in 1 .. Len(<<[tag |-> "ObjectEnd"]>>) : <<[tag |-> "ObjectEnd"]>>[k].tag \notin DefinitionTags \cup ReferenceTags
    BY <2>1
  <2>3. QED BY <1>2, <1>4, <2>2 DEF end_map
<1>5. CASE end_tuple
  <2>1. <<>> \in Seq(Token) /\ \A k \in 1 .. Len(<<>>) : <<>>[k].tag \notin DefinitionTags \cup ReferenceTags
    OBVIOUS
  <2>2. QED BY <1>2, <1>5, <2>1 DEF end_tuple
<1>6. QED BY <1>3, <1>4, <1>5

(* serialize_newtype_struct, before and after the inner value.             *)
LEMMA NewtypeStep ==
  ASSUME IInv,
         \/ \E r \in Rtids : newtype_rtid(r)
         \/ \E name \in VarInts, v \in Ints : newtype_varint(name, v)
         \/ \E s \in Strings : newtype_direct(s)
  PROVE  IInv'
<1>1. TypeOK /\ StackOK
  BY DEF IInv
<1>2. ASSUME NEW r \in Rtids, newtype_rtid(r) PROVE IInv'
  <2> DEFINE c    == [call |-> "rtid", rtid |-> r]
             toks == <<[tag |-> "Rtid"]>>
  <2>1. c \in Call /\ MayCall(c) /\ result = "run" /\ Top.left > 0
    BY <1>2 DEF Call, newtype_rtid, MayCall
  <2>2. ~InNewtype
    BY <1>1, <2>1, NewtypeCalls
  <2>3. RtidBody(r) \in Seq(BodyCall)
    BY BodyTyped
  <2>4. stack' \in Seq(Frame) /\ StackOK'
    <3>1. "RTID" \in Newtypes
      BY DEF Newtypes
    <3>2. PICK t \in Seq(BodyCall) : t = RtidBody(r)
      BY <2>3
    <3>3. PICK n \in Nat : n = Len(t)
      OBVIOUS
    <3>4. stack' = Opened("RTID", n, t) /\ result' = result /\ pending_rtid' = TRUE /\ n <= Len(t)
      BY <1>2, <3>2, <3>3 DEF newtype_rtid
    <3>5. QED BY <1>1, <2>1, <2>2, <3>1, <3>4, OpenedOK
  <2>5. Extended
    BY <1>1, <1>2, <2>1, RecordProps DEF newtype_rtid
  <2>6. RestTyped'
    BY <1>1, <1>2, <2>4 DEF newtype_rtid, TypeOK, RestTyped
  <2>7. toks \in Seq(Token) /\ Emit(toks) /\ UNCHANGED tables
        /\ \A k \in 1 .. Len(toks) : toks[k].tag \notin DefinitionTags \cup ReferenceTags
    BY <1>2 DEF newtype_rtid, Token, DefinitionTags, ReferenceTags
  <2>8. QED BY <2>4, <2>5, <2>6, <2>7, QuietStep
<1>3. ASSUME NEW name \in VarInts, NEW v \in Ints, newtype_varint(name, v) PROVE IInv'
  <2> DEFINE todo == <<[call |-> "int", int |-> v]>>
  <2>1. MayCall([call |-> "varint"]) /\ result = "run" /\ Top.left > 0
    BY <1>3 DEF newtype_varint, MayCall
  <2>2. ~InNewtype /\ ~pending_rtid
    BY <1>1, <2>1, NewtypeCalls
  <2>3. todo \in Seq(BodyCall) /\ Len(todo) = 1
    BY IntsAssumption DEF IntsAssumption, BodyCall
  <2>4. stack' \in Seq(Frame) /\ StackOK'
    <3>1. name \in Newtypes /\ name # "RTID"
      BY DEF Newtypes, VarInts
    <3>2. PICK t \in Seq(BodyCall) : t = todo /\ Len(t) = 1
      BY <2>3
    <3>3. pending_rtid' = (name = "RTID") /\ result' = result /\ stack' = Opened(name, 1, t)
      BY <1>1, <1>3, <2>2, <3>1, <3>2 DEF newtype_varint, TypeOK
    <3>4. 1 \in Nat /\ 1 <= Len(t)
      BY <3>2
    <3>5. QED BY <1>1, <2>1, <2>2, <3>1, <3>3, <3>4, OpenedOK
  <2>5. RestTyped'
    BY <1>1, <1>3, <2>4 DEF newtype_varint, TypeOK, RestTyped
  <2>6. QED BY <1>3, <2>4, <2>5, SilentStep DEF newtype_varint
<1>4. ASSUME NEW s \in Strings, newtype_direct(s) PROVE IInv'
  <2> DEFINE todo == <<Str(s)>>
  <2>1. MayCall([call |-> "direct"]) /\ result = "run" /\ Top.left > 0
    BY <1>4 DEF newtype_direct, MayCall
  <2>2. ~InNewtype /\ ~pending_rtid
    BY <1>1, <2>1, NewtypeCalls
  <2>3. todo \in Seq(BodyCall) /\ Len(todo) = 1
    BY DEF Str, BodyCall
  <2>4. stack' \in Seq(Frame) /\ StackOK'
    <3>1. PICK kind \in Newtypes : kind = "DirectStr"
      BY DEF Newtypes
    <3>2. PICK t \in Seq(BodyCall) : t = todo /\ Len(t) = 1
      BY <2>3
    <3>3. pending_rtid' = (kind = "RTID") /\ result' = result /\ stack' = Opened(kind, 1, t)
      BY <1>1, <1>4, <2>2, <3>1, <3>2 DEF newtype_direct, TypeOK
    <3>4. 1 \in Nat /\ 1 <= Len(t)
      BY <3>2
    <3>5. QED BY <1>1, <2>1, <2>2, <3>1, <3>3, <3>4, OpenedOK
  <2>5. RestTyped'
    BY <1>1, <1>4, <2>4 DEF newtype_direct, TypeOK, RestTyped
  <2>6. QED BY <1>4, <2>4, <2>5, SilentStep DEF newtype_direct
<1>5. QED BY <1>2, <1>3, <1>4

(* The return from serialize_newtype_struct takes its flag down.           *)
LEMMA EndNewtypeStep == ASSUME IInv, end_newtype PROVE IInv'
<1>1. TypeOK /\ StackOK /\ result = "run" /\ InNewtype
  BY DEF IInv, end_newtype
<1>2. pending_rtid' = FALSE
  BY <1>1 DEF end_newtype, StackOK, TypeOK
<1>3. Top.kind # "doc"
  BY <1>1 DEF InNewtype, Newtypes, VarInts
<1>4. stack' \in Seq(Frame) /\ StackOK'
  BY <1>1, <1>2, <1>3, ClosedOK DEF end_newtype
<1>5. RestTyped'
  BY <1>1, <1>4 DEF end_newtype, TypeOK, RestTyped
<1>6. QED BY <1>4, <1>5, SilentStep DEF end_newtype

(* The error paths.                                                        *)
LEMMA ErrorStep == ASSUME IInv, serialize_unsupported \/ write_fails PROVE IInv'
<1> DEFINE toks == <<[tag |-> "(torn)"]>>
<1>1. TypeOK /\ Unwind
  BY DEF IInv, serialize_unsupported, write_fails
<1>2. RestTyped' /\ StackOK'
  <2>1. StackOK'
    BY <1>1 DEF Unwind, StackOK
  <2>2. stack' \in Seq(Frame) /\ result' = "err" /\ pending_rtid' = FALSE /\ pending_direct' = FALSE
    BY <1>1 DEF Unwind
  <2>3. is_root' \in BOOLEAN /\ pending_varint' \in {"None"} \cup VarInts
    BY <1>1 DEF Unwind, TypeOK
  <2>4. QED BY <2>1, <2>2, <2>3 DEF RestTyped
<1>3. CASE UNCHANGED <<out, origin>>
  BY <1>1, <1>2, <1>3, SilentStep DEF Unwind
<1>4. CASE Emit(toks)
  <2>1. toks \in Seq(Token) /\ UNCHANGED tables
        /\ \A k \in 1 .. Len(toks) : toks[k].tag \notin DefinitionTags \cup ReferenceTags
    BY <1>1 DEF Unwind, Token, DefinitionTags, ReferenceTags
  <2>2. Extended
    BY <1>1 DEF Unwind, TypeOK, Extended
  <2>3. QED BY <1>2, <1>4, <2>1, <2>2, QuietStep
<1>5. QED BY <1>3, <1>4 DEF serialize_unsupported, write_fails
-----------------------------------------------------------------------------
(* The invariant holds at first, and every step keeps it.                  *)
LEMMA InitIInv == Init => IInv
<1> SUFFICES ASSUME Init PROVE IInv
  OBVIOUS
<1>1. TypeOK
  <2>1. [kind |-> "doc", left |-> 1, todo |-> <<>>] \in Frame
    BY DEF Frame
  <2>2. stack \in Seq(Frame)
    BY <2>1 DEF Init
  <2>3. /\ out \in Seq(Token) /\ wrote \in Seq(Entry)
        /\ origin \in Seq(Nat) /\ Len(origin) = Len(out)
    BY DEF Init
  <2>4. /\ latin1_indices \in [DOMAIN latin1_indices -> Nat] /\ next_latin1 \in Nat
        /\ utf8_indices \in [DOMAIN utf8_indices -> Nat] /\ next_utf8 \in Nat
    BY DEF Init
  <2>5. /\ result \in {"new", "run", "ok", "err"} /\ is_root \in BOOLEAN
        /\ pending_varint \in {"None"} \cup VarInts
        /\ pending_rtid \in BOOLEAN /\ pending_direct \in BOOLEAN
    BY DEF Init
  <2>6. QED BY <2>2, <2>3, <2>4, <2>5 DEF TypeOK
<1>2. StackOK
  BY DEF Init, StackOK, Newtypes, VarInts, Top
<1>3. ASSUME NEW tag \in DefinitionTags PROVE TableOK(tag)
  <2>1. {j \in 1 .. 0 : out[j].tag = tag} = {}
    OBVIOUS
  <2>2. Rank(tag, 1) = 0
    BY <2>1, FS_EmptySet DEF Rank
  <2>3. Len(out) = 0 /\ DOMAIN Indices(tag) = {} /\ Count(tag) = 0
    BY DEF Init, Indices, Count
  <2>4. QED BY <2>2, <2>3 DEF TableOK
<1>4. RefsHaveOrigin /\ RefsResolve /\ DefinedOnce
  BY DEF Init, RefsHaveOrigin, RefsResolve, DefinedOnce
<1>5. QED BY <1>1, <1>2, <1>3, <1>4 DEF IInv, TablesInv

(* Every step of the serializer keeps the invariant.                       *)
LEMMA NextIInv == IInv /\ [Next]_svars => IInv'
<1> SUFFICES ASSUME IInv, [Next]_svars PROVE IInv'
  OBVIOUS
<1>1. CASE UNCHANGED svars
  <2>1. RestTyped' /\ StackOK'
    BY <1>1 DEF svars, flags, IInv, TypeOK, RestTyped, StackOK, Top
  <2>2. QED BY <1>1, <2>1, SilentStep DEF svars
<1>2. CASE write_header
  BY <1>2, HeaderStep
<1>3. CASE write_footer
  BY <1>3, FooterStep
<1>4. CASE \/ \E b \in BOOLEAN : serialize_bool(b)
           \/ \E ty \in {"f32", "f64"}, x \in Floats : serialize_float(ty, x)
           \/ \E b \in Blobs : serialize_bytes(b)
           \/ \E i \in 0 .. 3 : serialize_unit_variant(i)
           \/ serialize_none
  BY <1>4, ScalarStep
<1>5. CASE \E v \in Ints : serialize_int(v)
  BY <1>5, IntStep
<1>6. CASE \E w \in {"(varint)", "(u32)"}, n \in RtidNumbers : serialize_number(w, n)
  BY <1>6, NumberStep
<1>7. CASE \E s \in Strings : serialize_str(s)
  BY <1>7, LooseStringStep, InternedStringStep
<1>8. CASE \E n \in Lens : serialize_seq(n) \/ serialize_map(n) \/ serialize_tuple(n)
  BY <1>8, ContainerStep
<1>9. CASE end_seq \/ end_map \/ end_tuple
  BY <1>9, EndStep
<1>10. CASE \/ \E r \in Rtids : newtype_rtid(r)
            \/ \E name \in VarInts, v \in Ints : newtype_varint(name, v)
            \/ \E s \in Strings : newtype_direct(s)
  BY <1>10, NewtypeStep
<1>11. CASE end_newtype
  BY <1>11, EndNewtypeStep
<1>12. CASE serialize_unsupported \/ write_fails
  BY <1>12, ErrorStep
<1>13. QED BY <1>1, <1>2, <1>3, <1>4, <1>5, <1>6, <1>7, <1>8, <1>9, <1>10, <1>11, <1>12
           DEF Next

(* The inductive invariant: the types, the stack of open values, and the   *)
(* tables of write_interned_string against the stream they describe.       *)
THEOREM Inductive == Spec => []IInv
BY InitIInv, NextIInv, PTL DEF Spec

(* Every variable of the serializer, the stream and its history included,  *)
(* keeps its type through all of ser.rs's calls and error paths.           *)
THEOREM TypeCorrect == Spec => []TypeOK
<1>1. IInv => TypeOK
  BY DEF IInv
<1>2. QED BY <1>1, Inductive, PTL

(* write_interned_string: a reference always counts to the definition, of  *)
(* its own encoding, of the text serialize_str was given - for any texts,  *)
(* any nesting, any order of calls, and in what is left behind on errors.  *)
THEOREM ReferencesResolve == Spec => []RefsResolve
<1>1. IInv => RefsResolve
  BY DEF IInv, TablesInv
<1>2. QED BY <1>1, Inductive, PTL

(* write_interned_string: no text is defined twice in a file.              *)
THEOREM OneDefinition == Spec => []DefinedOnce
<1>1. IInv => DefinedOnce
  BY DEF IInv, TablesInv
<1>2. QED BY <1>1, Inductive, PTL
-----------------------------------------------------------------------------
(* Wrappers: the two flags that outlive a call are up exactly while their  *)
(* newtype is innermost; a VarInt newtype has one call to make, of its own type; and  *)
(* while an RTID body is written the last value recorded is the RTID.      *)
FlagsOK ==
  result \in {"new", "run"} =>
    /\ pending_varint = IF Top.kind \in VarInts THEN Top.kind ELSE "None"
    /\ pending_direct <=> Top.kind = "DirectStr"
    /\ Top.kind \in VarInts => Len(Top.todo) = 1 /\ Top.todo[1].call = "int"
                               /\ Top.todo[1].int.ty = VarIntType(Top.kind)
    /\ Top.kind = "RTID" => Len(wrote) >= 1 /\ wrote[Len(wrote)].is.call = "rtid"

(* A token belongs to a value that has been recorded, or to none.          *)
OriginsOK == \A i \in 1 .. Len(out) : origin[i] <= Len(wrote)

WInv == FlagsOK /\ OriginsOK /\ WrapperScope

(* What WrapperScope asks of one token and the value it belongs to.        *)
Fits(token, w) ==
  /\ w.is.call = "int" => token = EncodeInt(w.is.int, w.wrap \in VarInts)
  /\ w.is.call = "str" /\ w.is.str \notin {Asterisk, RtidNullText} =>
       (token.tag \in DirectTags <=> w.wrap = "DirectStr")
-----------------------------------------------------------------------------
(* The call recorded last, and the newtype it was wrapped in.              *)
LEMMA LastRecorded ==
  ASSUME TypeOK, TypeOK', NEW c, Record(c)
  PROVE  /\ Extended
         /\ Top.kind = "RTID" => wrote' = wrote
         /\ Top.kind # "RTID" =>
              /\ Len(wrote') = Len(wrote) + 1
              /\ wrote'[Len(wrote')].is = c
              /\ wrote'[Len(wrote')].wrap = IF InNewtype THEN Top.kind ELSE "plain"
<1> DEFINE e == [is |-> c, wrap |-> IF InNewtype THEN Top.kind ELSE "plain"]
<1>1. wrote \in Seq(Entry) /\ wrote' \in Seq(Entry) /\ Len(wrote) \in Nat
  BY DEF TypeOK
<1>2. CASE Top.kind = "RTID"
  BY <1>1, <1>2 DEF Record, Extended
<1>3. CASE Top.kind # "RTID"
  <2>1. wrote' = Append(wrote, e)
    BY <1>3 DEF Record
  <2>2. e.is = c /\ e.wrap = IF InNewtype THEN Top.kind ELSE "plain"
    OBVIOUS
  <2>. HIDE DEF e
  <2>3. /\ Len(wrote') = Len(wrote) + 1 /\ wrote'[Len(wrote) + 1] = e
        /\ \A i \in 1 .. Len(wrote) : wrote'[i] = wrote[i]
    BY <1>1, <2>1
  <2>4. QED BY <1>1, <1>3, <2>2, <2>3 DEF Extended
<1>4. QED BY <1>2, <1>3

(* A sequence over a set is one over a larger set.                         *)
LEMMA SeqOver == ASSUME NEW A, NEW B, A \subseteq B, NEW s \in Seq(A) PROVE s \in Seq(B)
OBVIOUS

(* Tokens that fit the value recorded last, or belong to none.             *)
LEMMA GrownScope ==
  ASSUME TypeOK, TypeOK', OriginsOK, WrapperScope, Extended,
         NEW S, Token \subseteq S, NEW toks \in Seq(S), Emit(toks),
         \A k \in 1 .. Len(toks) : \/ Len(wrote') = 0
                                   \/ toks[k].tag \in {"(torn)", "(footer)"}
                                   \/ Fits(toks[k], wrote'[Len(wrote')])
  PROVE  OriginsOK' /\ WrapperScope'
<1> DEFINE more == [i \in 1 .. Len(toks) |-> Len(wrote')]
<1>1. /\ out \in Seq(Token) /\ out' \in Seq(Token)
      /\ origin \in Seq(Nat) /\ Len(origin) = Len(out)
      /\ Len(out) \in Nat /\ Len(toks) \in Nat /\ Len(wrote) \in Nat /\ Len(wrote') \in Nat
  BY DEF TypeOK
<1>2. out \in Seq(S)
  BY <1>1, SeqOver
<1>3. more \in Seq(Nat) /\ Len(more) = Len(toks) /\ \A i \in 1 .. Len(toks) : more[i] = Len(wrote')
  BY <1>1
<1>4. out' = out \o toks /\ origin' = origin \o more
  BY DEF Emit
<1> HIDE DEF more
<1>5. /\ Len(out') = Len(out) + Len(toks)
      /\ \A i \in 1 .. Len(out) : out'[i] = out[i]
      /\ \A i \in Len(out) + 1 .. Len(out) + Len(toks) : out'[i] = toks[i - Len(out)]
  BY <1>2, <1>4, ConcatProps
<1>6. /\ \A i \in 1 .. Len(origin) : origin'[i] = origin[i]
      /\ \A i \in Len(origin) + 1 .. Len(origin) + Len(more) : origin'[i] = more[i - Len(origin)]
  <2> SUFFICES ASSUME NEW o \in Seq(Nat), NEW m \in Seq(Nat)
               PROVE  /\ \A i \in 1 .. Len(o) : (o \o m)[i] = o[i]
                      /\ \A i \in Len(o) + 1 .. Len(o) + Len(m) : (o \o m)[i] = m[i - Len(o)]
    BY <1>1, <1>3, <1>4, Zenon
  <2>1. QED BY ConcatProps
<1>7. \A i \in 1 .. Len(out) : origin'[i] = origin[i] /\ origin[i] \in Nat /\ origin[i] <= Len(wrote)
  BY <1>1, <1>6 DEF OriginsOK
<1>8. ASSUME NEW i \in Len(out) + 1 .. Len(out')
      PROVE  /\ i - Len(out) \in 1 .. Len(toks)
             /\ out'[i] = toks[i - Len(out)] /\ origin'[i] = Len(wrote')
  <2>1. i - Len(out) \in 1 .. Len(toks) /\ i \in Len(origin) + 1 .. Len(origin) + Len(more)
    BY <1>1, <1>3, <1>5
  <2>2. origin'[i] = more[i - Len(out)]
    BY <1>1, <1>6, <2>1
  <2>3. QED BY <1>1, <1>3, <1>5, <2>1, <2>2
<1>9. \A i \in 1 .. Len(out') : i \in 1 .. Len(out) \/ i \in Len(out) + 1 .. Len(out')
  BY <1>1, <1>5
<1>10. OriginsOK'
  <2>1. Len(wrote) <= Len(wrote')
    BY DEF Extended
  <2>2. QED BY <1>1, <1>7, <1>8, <1>9, <2>1, SMTT(30) DEF OriginsOK
<1>11. ASSUME NEW i \in 1 .. Len(out'), origin'[i] # 0, out'[i].tag \notin {"(torn)", "(footer)"}
       PROVE  Fits(out'[i], wrote'[origin'[i]])
  <2>1. CASE i \in 1 .. Len(out)
    <3>1. origin[i] \in 1 .. Len(wrote)
      BY <1>1, <1>7, <1>11, <2>1
    <3>2. wrote'[origin'[i]] = wrote[origin[i]]
      BY <1>7, <2>1, <3>1 DEF Extended
    <3>3. out'[i] = out[i] /\ origin[i] # 0 /\ i \in DOMAIN out
      BY <1>1, <1>5, <2>1, <3>1
    <3>4. Fits(out[i], wrote[origin[i]])
      BY <1>11, <3>3 DEF WrapperScope, Fits
    <3>5. QED BY <3>2, <3>3, <3>4
  <2>2. CASE i \in Len(out) + 1 .. Len(out')
    BY <1>8, <1>11, <2>2
  <2>3. QED BY <1>9, <2>1, <2>2
<1>12. WrapperScope'
  <2>1. DOMAIN out' = 1 .. Len(out')
    BY <1>1
  <2>2. QED BY <1>11, <2>1 DEF WrapperScope, Fits
<1>13. QED BY <1>10, <1>12

(* A step that writes and records nothing.                                 *)
LEMMA SilentScope ==
  ASSUME OriginsOK, WrapperScope, UNCHANGED <<out, origin, wrote>>
  PROVE  OriginsOK' /\ WrapperScope'
BY DEF OriginsOK, WrapperScope
-----------------------------------------------------------------------------
(* The innermost frame counts a call off and stays innermost.              *)
LEMMA FlagsUsed ==
  ASSUME IInv, FlagsOK, NEW c, MayCall(c), stack' = Used, UNCHANGED <<result, flags>>,
         Top.kind = "RTID" => wrote' = wrote
  PROVE  FlagsOK'
<1>1. TypeOK /\ StackOK /\ result = "run" /\ Top.left > 0
  BY DEF IInv, MayCall
<1>2. Len(stack) \in Nat /\ Len(stack) >= 1 /\ Top = stack[Len(stack)]
  BY <1>1, TopTyped
<1>3. /\ Len(stack') = Len(stack)
      /\ \A k \in 1 .. Len(stack) : stack'[k].kind = stack[k].kind
                                    /\ stack'[k].todo = stack[k].todo
  BY <1>1, UsedProps
<1>4. Top' = stack'[Len(stack)]
  BY <1>3 DEF Top
<1>5. Top'.kind = Top.kind /\ Top'.todo = Top.todo
  BY <1>2, <1>3, <1>4
<1>6. QED BY <1>1, <1>5 DEF FlagsOK, flags

(* What a newtype opens on top, and what the others do.                    *)
LEMMA TopOpened ==
  ASSUME IInv, result = "run", Top.left > 0, NEW kind, NEW n, NEW t, stack' = Opened(kind, n, t)
  PROVE  Top' = [kind |-> kind, left |-> n, todo |-> t]
<1> DEFINE f == [kind |-> kind, left |-> n, todo |-> t]
<1>1. TypeOK /\ StackOK
  BY DEF IInv
<1>2. Used \in Seq(Frame) /\ Len(Used) \in Nat
  BY <1>1, UsedProps
<1>3. stack' = Append(Used, f)
  BY DEF Opened
<1>4. Len(stack') = Len(Used) + 1 /\ stack'[Len(Used) + 1] = f
  BY <1>2, <1>3
<1>5. QED BY <1>4 DEF Top

(* What is under a closed frame is no newtype.                             *)
LEMMA TopClosed ==
  ASSUME IInv, result = "run", Top.kind # "doc", stack' = Closed
  PROVE  Top'.kind \notin Newtypes
<1> DEFINE n == Len(stack) - 1
<1>1. TypeOK /\ StackOK
  BY DEF IInv
<1>2. /\ stack \in Seq(Frame) /\ Len(stack) \in Nat /\ Len(stack) >= 1
      /\ Top = stack[Len(stack)] /\ stack[1].kind = "doc"
  BY <1>1, TopTyped DEF TypeOK, StackOK
<1>3. n \in Nat /\ n >= 1
  BY <1>2
<1>4. Len(stack') = n /\ \A k \in 1 .. n : stack'[k] = stack[k]
  BY <1>2, <1>3 DEF Closed
<1>5. Top' = stack[n]
  BY <1>3, <1>4 DEF Top
<1>6. n \in 1 .. Len(stack) /\ n # Len(stack)
  BY <1>2, <1>3
<1>7. QED BY <1>1, <1>5, <1>6 DEF StackOK

(* Outside the newtypes both flags are down.                               *)
LEMMA FlagsDown ==
  ASSUME FlagsOK, result = "run", Top.kind \notin Newtypes
  PROVE  pending_varint = "None" /\ ~pending_direct
BY DEF FlagsOK, Newtypes

(* And a frame that is no newtype with both flags down is in order.        *)
LEMMA FlagsPlain ==
  ASSUME Top'.kind \notin Newtypes, pending_varint' = "None", ~pending_direct'
  PROVE  FlagsOK'
BY DEF FlagsOK, Newtypes
-----------------------------------------------------------------------------
(* A call that is neither an integer nor a string fits whatever it writes. *)
LEMMA OtherFits ==
  ASSUME NEW c, c.call \notin {"int", "str"}, NEW w, w.is = c, NEW token
  PROVE  Fits(token, w)
BY DEF Fits

(* A call that writes one token, which fits the value if it is recorded.   *)
LEMMA PlainScope ==
  ASSUME IInv, IInv', WInv, NEW c, NEW token, Plain(c, token),
         Top.kind # "RTID" => Fits(token, wrote'[Len(wrote')])
  PROVE  WInv'
<1>1. TypeOK /\ TypeOK' /\ StackOK /\ FlagsOK /\ OriginsOK /\ WrapperScope /\ result = "run"
  BY DEF IInv, WInv, Plain, MayCall
<1>2. Extended /\ (Top.kind = "RTID" => wrote' = wrote)
  BY <1>1, LastRecorded DEF Plain
<1>3. FlagsOK'
  BY <1>1, <1>2, FlagsUsed DEF Plain
<1>4. Fits(token, wrote'[Len(wrote')])
  <2>1. CASE Top.kind = "RTID"
    <3>1. wrote'[Len(wrote')].is.call = "rtid"
      BY <1>1, <1>2, <2>1 DEF FlagsOK
    <3>2. QED BY <3>1 DEF Fits
  <2>2. QED BY <2>1
<1> DEFINE S == Token \cup {token}
           toks == <<token>>
<1>5. toks \in Seq(S) /\ Token \subseteq S /\ Len(toks) = 1 /\ toks[1] = token
  OBVIOUS
<1>6. Emit(toks)
  BY DEF Plain
<1>7. \A k \in 1 .. Len(toks) : Fits(toks[k], wrote'[Len(wrote')])
  BY <1>4, <1>5
<1>. HIDE DEF S, toks
<1>8. OriginsOK' /\ WrapperScope'
  BY <1>1, <1>2, <1>5, <1>6, <1>7, GrownScope
<1>9. QED BY <1>3, <1>8 DEF WInv

(* The scalars, the parts of an RTID and its numbers.                      *)
LEMMA ScalarScope ==
  ASSUME IInv, IInv', WInv, NEW c, NEW token, Plain(c, token), c.call \notin {"int", "str"}
  PROVE  WInv'
<1>1. TypeOK /\ TypeOK' /\ Record(c)
  BY DEF IInv, Plain
<1>2. Top.kind # "RTID" => Fits(token, wrote'[Len(wrote')])
  BY <1>1, LastRecorded, OtherFits
<1>3. QED BY <1>2, PlainScope

(* In a VarInt newtype the one call to make is an integer of its type.     *)
LEMMA VarIntCall ==
  ASSUME IInv, FlagsOK, NEW v, MayCall([call |-> "int", int |-> v]), Top.kind \in VarInts
  PROVE  v.ty = VarIntType(Top.kind)
<1> DEFINE c == [call |-> "int", int |-> v]
<1>1. TypeOK /\ StackOK /\ result = "run" /\ Top.left > 0
  BY DEF IInv, MayCall
<1>2. Len(stack) \in Nat /\ Len(stack) >= 1 /\ Top = stack[Len(stack)] /\ Top.left \in Nat
  BY <1>1, TopTyped
<1>3. InNewtype /\ stack[Len(stack)].kind \in Newtypes
  BY <1>2 DEF InNewtype, Newtypes
<1>4. Top.left <= Len(Top.todo) /\ Len(Top.todo) = 1 /\ Top.todo[1].int.ty = VarIntType(Top.kind)
  BY <1>1, <1>2, <1>3 DEF StackOK, FlagsOK
<1>5. c = Top.todo[Len(Top.todo) - Top.left + 1]
  BY <1>3 DEF MayCall, InNewtype, Newtypes, VarInts
<1>6. Len(Top.todo) - Top.left + 1 = 1
  BY <1>1, <1>2, <1>4
<1>7. c = Top.todo[1] /\ c.int = v
  BY <1>5, <1>6
<1>8. QED BY <1>4, <1>7

(* serialize_i8 .. serialize_u64.                                          *)
LEMMA IntScope == ASSUME IInv, IInv', WInv, NEW v \in Ints, serialize_int(v) PROVE WInv'
<1> DEFINE c      == [call |-> "int", int |-> v]
           forced == pending_varint \in VarInts /\ VarIntType(pending_varint) = v.ty
           token  == IF pending_rtid /\ v.ty \in {"u32", "u64"}
                     THEN [tag |-> IF v.ty = "u32" THEN "(u32)" ELSE "(varint)", num |-> v.bits]
                     ELSE EncodeInt(v, forced)
<1>1. TypeOK /\ TypeOK' /\ StackOK /\ FlagsOK /\ Record(c) /\ MayCall(c) /\ result = "run"
  BY DEF IInv, WInv, serialize_int, Plain, MayCall
<1>2. Plain(c, token)
  BY DEF serialize_int
<1>3. ASSUME Top.kind # "RTID" PROVE Fits(token, wrote'[Len(wrote')])
  <2> DEFINE w == wrote'[Len(wrote')]
  <2>1. w.is = c /\ w.wrap = IF InNewtype THEN Top.kind ELSE "plain"
    BY <1>1, <1>3, LastRecorded
  <2>2. ~pending_rtid /\ pending_varint = IF Top.kind \in VarInts THEN Top.kind ELSE "None"
    BY <1>1, <1>3 DEF StackOK, FlagsOK
  <2>3. w.wrap \in VarInts <=> Top.kind \in VarInts
    BY <2>1 DEF InNewtype, Newtypes, VarInts
  <2>4. forced <=> Top.kind \in VarInts
    <3>1. CASE Top.kind \in VarInts
      <4>1. v.ty = VarIntType(Top.kind)
        BY <1>1, <3>1, VarIntCall DEF WInv
      <4>2. QED BY <2>2, <3>1, <4>1
    <3>2. CASE Top.kind \notin VarInts
      BY <2>2, <3>2 DEF VarInts
    <3>3. QED BY <3>1, <3>2
  <2>5. forced = (w.wrap \in VarInts)
    BY <2>3, <2>4
  <2>6. token = EncodeInt(v, forced)
    BY <2>2
  <2>7. w.is.call = "int" /\ w.is.int = v
    BY <2>1
  <2>. HIDE DEF w, forced, token
  <2>8. Fits(token, w)
    BY <2>5, <2>6, <2>7 DEF Fits
  <2>9. QED BY <2>8 DEF w
<1>. HIDE DEF c, token
<1>4. QED BY <1>2, <1>3, PlainScope

(* serialize_str.                                                          *)
LEMMA StringScope == ASSUME IInv, IInv', WInv, NEW s \in Strings, serialize_str(s) PROVE WInv'
<1> DEFINE c == [call |-> "str", str |-> s]
           token == StrToken(s)
           S == Token \cup {token}
           toks == <<token>>
<1>1. TypeOK /\ TypeOK' /\ StackOK /\ FlagsOK /\ OriginsOK /\ WrapperScope /\ result = "run"
  BY DEF IInv, WInv, serialize_str, MayCall
<1>2. MayCall(c) /\ Record(c) /\ Emit(toks) /\ stack' = Used /\ UNCHANGED <<result, flags>>
  BY DEF serialize_str
<1>3. Extended /\ (Top.kind = "RTID" => wrote' = wrote)
  BY <1>1, <1>2, LastRecorded
<1>4. FlagsOK'
  BY <1>1, <1>2, <1>3, FlagsUsed
<1>5. Fits(token, wrote'[Len(wrote')])
  <2>1. CASE Top.kind = "RTID"
    <3>1. wrote'[Len(wrote')].is.call = "rtid"
      BY <1>1, <1>3, <2>1 DEF FlagsOK
    <3>2. QED BY <3>1 DEF Fits
  <2>2. CASE Top.kind # "RTID"
    <3> DEFINE w == wrote'[Len(wrote')]
    <3>1. w.is = c /\ w.wrap = IF InNewtype THEN Top.kind ELSE "plain"
      BY <1>1, <1>2, <2>2, LastRecorded
    <3>2. ~pending_rtid /\ (pending_direct <=> Top.kind = "DirectStr")
      BY <1>1, <2>2 DEF StackOK, FlagsOK
    <3>3. w.wrap = "DirectStr" <=> Top.kind = "DirectStr"
      BY <3>1 DEF InNewtype, Newtypes
    <3>4. w.is.call = "str" /\ w.is.str = s
      BY <3>1
    <3>5. ASSUME s \notin {Asterisk, RtidNullText}
          PROVE  token.tag \in DirectTags <=> pending_direct
      <4>1. token = IF pending_direct THEN Direct(s) ELSE Interned(s)
        BY <3>2, <3>5 DEF StrToken
      <4>2. Direct(s).tag \in DirectTags
        BY DEF Direct, DirectTags
      <4>3. Interned(s).tag \notin DirectTags
        BY DEF Interned, DirectTags
      <4>4. pending_direct \in BOOLEAN
        BY <1>1 DEF TypeOK
      <4>. HIDE DEF token
      <4>5. QED BY <4>1, <4>2, <4>3, <4>4
    <3>. HIDE DEF w, token
    <3>6. Fits(token, w)
      BY <3>2, <3>3, <3>4, <3>5 DEF Fits
    <3>7. QED BY <3>6 DEF w
  <2>3. QED BY <2>1, <2>2
<1>. HIDE DEF token
<1>6. toks \in Seq(S) /\ Token \subseteq S /\ Len(toks) = 1 /\ toks[1] = token
  OBVIOUS
<1>7. \A k \in 1 .. Len(toks) : Fits(toks[k], wrote'[Len(wrote')])
  BY <1>5, <1>6
<1>. HIDE DEF S, toks
<1>8. OriginsOK' /\ WrapperScope'
  BY <1>1, <1>2, <1>3, <1>6, <1>7, GrownScope
<1>9. QED BY <1>4, <1>8 DEF WInv

(* serialize_seq, _map and _tuple.                                         *)
LEMMA ContainerScope ==
  ASSUME IInv, IInv', WInv, NEW n \in Lens, serialize_seq(n) \/ serialize_map(n) \/ serialize_tuple(n)
  PROVE  WInv'
<1>1. ASSUME NEW kind \in {"seq", "map", "tuple"}, NEW m, NEW S, Token \subseteq S, NEW toks \in Seq(S),
             LET c == [call |-> kind, len |-> n] IN MayCall(c) /\ Record(c),
             Emit(toks), stack' = Opened(kind, m, <<>>), UNCHANGED <<result, flags>>
      PROVE  WInv'
  <2> DEFINE c == [call |-> kind, len |-> n]
  <2>1. TypeOK /\ TypeOK' /\ StackOK /\ FlagsOK /\ OriginsOK /\ WrapperScope
    BY DEF IInv, WInv
  <2>2. result = "run" /\ Top.left > 0
    BY <1>1 DEF MayCall
  <2>3. ~InNewtype
    BY <1>1, <2>1, NewtypeCalls
  <2>4. Extended /\ wrote'[Len(wrote')].is = c
    BY <1>1, <2>1, <2>3, LastRecorded DEF InNewtype, Newtypes
  <2>5. Top'.kind = kind
    BY <1>1, <2>2, TopOpened
  <2>6. FlagsOK'
    <3>1. pending_varint = "None" /\ ~pending_direct
      BY <2>1, <2>2, <2>3, FlagsDown DEF InNewtype
    <3>2. pending_varint' = "None" /\ ~pending_direct'
      BY <1>1, <3>1 DEF flags
    <3>3. Top'.kind \notin Newtypes
      BY <2>5 DEF Newtypes, VarInts
    <3>4. QED BY <3>2, <3>3, FlagsPlain
  <2>7. c.call \notin {"int", "str"}
    OBVIOUS
  <2>8. \A k \in 1 .. Len(toks) : Fits(toks[k], wrote'[Len(wrote')])
    BY <2>4, <2>7, OtherFits
  <2>9. OriginsOK' /\ WrapperScope'
    BY <1>1, <2>1, <2>4, <2>8, GrownScope
  <2>10. QED BY <2>6, <2>9 DEF WInv
<1>2. CASE serialize_seq(n)
  <2> DEFINE t == [tag |-> "ArrayBegin"]
             u == [tag |-> "ArrayCapacity", cap |-> n]
             S == Token \cup {t, u}
  <2>1. <<t, u>> \in Seq(S) /\ Token \subseteq S
    OBVIOUS
  <2>2. QED BY <1>1, <1>2, <2>1 DEF serialize_seq
<1>3. CASE serialize_map(n)
  <2> DEFINE t    == [tag |-> "ObjectBegin"]
             S    == Token \cup {t}
             toks == IF is_root THEN <<>> ELSE <<t>>
  <2>1. <<t>> \in Seq(S) /\ <<>> \in Seq(S) /\ Token \subseteq S
    OBVIOUS
  <2>2. toks \in Seq(S)
    BY <2>1
  <2>3. QED BY <1>1, <1>3, <2>1, <2>2 DEF serialize_map
<1>4. CASE serialize_tuple(n)
  <2>1. <<>> \in Seq(Token)
    OBVIOUS
  <2>2. QED BY <1>1, <1>4, <2>1 DEF serialize_tuple
<1>5. QED BY <1>2, <1>3, <1>4

(* Their ends.                                                             *)
LEMMA EndScope == ASSUME IInv, IInv', WInv, end_seq \/ end_map \/ end_tuple PROVE WInv'
<1>1. ASSUME NEW kind \in {"seq", "map", "tuple"}, NEW S, Token \subseteq S, NEW toks \in Seq(S),
             End(kind, toks)
      PROVE  WInv'
  <2> DEFINE c == [call |-> "end", of |-> kind]
  <2>1. TypeOK /\ TypeOK' /\ StackOK /\ FlagsOK /\ OriginsOK /\ WrapperScope
    BY DEF IInv, WInv
  <2>2. /\ result = "run" /\ Top.kind = kind /\ Record(c) /\ Emit(toks)
        /\ stack' = Closed /\ UNCHANGED <<result, flags>>
    BY <1>1 DEF End
  <2>3. Top.kind \notin Newtypes /\ Top.kind # "doc" /\ Top.kind # "RTID"
    BY <2>2 DEF Newtypes, VarInts
  <2>4. Extended /\ wrote'[Len(wrote')].is = c
    BY <2>1, <2>2, <2>3, LastRecorded
  <2>5. FlagsOK'
    <3>1. Top'.kind \notin Newtypes
      BY <2>2, <2>3, TopClosed
    <3>2. pending_varint' = "None" /\ ~pending_direct'
      BY <2>1, <2>2, <2>3, FlagsDown DEF flags
    <3>3. QED BY <3>1, <3>2, FlagsPlain
  <2>6. c.call \notin {"int", "str"}
    OBVIOUS
  <2>7. \A k \in 1 .. Len(toks) : Fits(toks[k], wrote'[Len(wrote')])
    BY <2>4, <2>6, OtherFits
  <2>8. OriginsOK' /\ WrapperScope'
    BY <1>1, <2>1, <2>2, <2>4, <2>7, GrownScope
  <2>9. QED BY <2>5, <2>8 DEF WInv
<1>2. CASE end_seq
  <2> DEFINE t == [tag |-> "ArrayEnd"]
  <2>1. <<t>> \in Seq(Token \cup {t})
    OBVIOUS
  <2>2. QED BY <1>1, <1>2, <2>1 DEF end_seq
<1>3. CASE end_map
  <2> DEFINE t == [tag |-> "ObjectEnd"]
  <2>1. <<t>> \in Seq(Token \cup {t})
    OBVIOUS
  <2>2. QED BY <1>1, <1>3, <2>1 DEF end_map
<1>4. CASE end_tuple
  <2>1. <<>> \in Seq(Token)
    OBVIOUS
  <2>2. QED BY <1>1, <1>4, <2>1 DEF end_tuple
<1>5. QED BY <1>2, <1>3, <1>4
-----------------------------------------------------------------------------
(* serialize_newtype_struct, before the inner value.                       *)
LEMMA NewtypeScope ==
  ASSUME IInv, IInv', WInv,
         \/ \E r \in Rtids : newtype_rtid(r)
         \/ \E name \in VarInts, v \in Ints : newtype_varint(name, v)
         \/ \E s \in Strings : newtype_direct(s)
  PROVE  WInv'
<1>1. TypeOK /\ TypeOK' /\ StackOK /\ FlagsOK /\ OriginsOK /\ WrapperScope
  BY DEF IInv, WInv
<1>2. ASSUME NEW c, MayCall(c), c.call \notin {"unit_variant", "str", "number", "int"}
      PROVE  result = "run" /\ Top.left > 0 /\ ~InNewtype /\ pending_varint = "None" /\ ~pending_direct
  <2>1. result = "run" /\ Top.left > 0 /\ ~InNewtype
    BY <1>1, <1>2, NewtypeCalls DEF MayCall
  <2>2. QED BY <1>1, <2>1, FlagsDown DEF InNewtype
<1>3. ASSUME NEW r \in Rtids, newtype_rtid(r) PROVE WInv'
  <2> DEFINE c    == [call |-> "rtid", rtid |-> r]
             t    == [tag |-> "Rtid"]
             S    == Token \cup {t}
             toks == <<t>>
  <2>1. MayCall(c) /\ Record(c) /\ Emit(toks) /\ stack' = Opened("RTID", Len(RtidBody(r)), RtidBody(r))
        /\ UNCHANGED <<result, pending_varint, pending_direct>>
    BY <1>3 DEF newtype_rtid
  <2>2. c.call \notin {"unit_variant", "str", "number", "int"} /\ c.call = "rtid"
    OBVIOUS
  <2>3. result = "run" /\ Top.left > 0 /\ ~InNewtype /\ pending_varint = "None" /\ ~pending_direct
    BY <1>2, <2>1, <2>2
  <2>4. /\ Extended /\ Len(wrote') = Len(wrote) + 1 /\ wrote'[Len(wrote')].is = c
        /\ Len(wrote) \in Nat
    BY <1>1, <2>1, <2>3, LastRecorded, SMTT(30) DEF InNewtype, Newtypes, TypeOK
  <2>5. Top'.kind = "RTID"
    BY <2>1, <2>3, TopOpened
  <2>6. FlagsOK'
    <3>1. pending_varint' = "None" /\ ~pending_direct'
      BY <2>1, <2>3
    <3>2. "RTID" \notin VarInts /\ "RTID" # "DirectStr"
      BY DEF VarInts
    <3>3. Len(wrote') >= 1 /\ wrote'[Len(wrote')].is.call = "rtid"
      BY <2>4
    <3>4. QED BY <2>5, <3>1, <3>2, <3>3 DEF FlagsOK
  <2>7. toks \in Seq(S) /\ Token \subseteq S
    OBVIOUS
  <2>8. \A k \in 1 .. Len(toks) : Fits(toks[k], wrote'[Len(wrote')])
    BY <2>2, <2>4, OtherFits
  <2>. HIDE DEF toks, S
  <2>9. OriginsOK' /\ WrapperScope'
    BY <1>1, <2>1, <2>4, <2>7, <2>8, GrownScope
  <2>10. QED BY <2>6, <2>9 DEF WInv
<1>4. ASSUME NEW name \in VarInts, NEW v \in Ints, newtype_varint(name, v) PROVE WInv'
  <2> DEFINE c    == [call |-> "varint"]
             todo == <<[call |-> "int", int |-> v]>>
  <2>1. /\ MayCall(c) /\ v.ty = VarIntType(name) /\ pending_varint' = name
        /\ stack' = Opened(name, 1, todo)
        /\ UNCHANGED <<result, out, origin, wrote, pending_direct>>
    BY <1>4 DEF newtype_varint
  <2>2. c.call \notin {"unit_variant", "str", "number", "int"}
    OBVIOUS
  <2>3. result = "run" /\ Top.left > 0 /\ ~pending_direct
    BY <1>2, <2>1, <2>2
  <2>4. Top'.kind = name /\ Top'.todo = todo
    BY <2>1, <2>3, TopOpened
  <2>5. Len(todo) = 1 /\ todo[1].call = "int" /\ todo[1].int.ty = VarIntType(name)
    BY <2>1
  <2>6. name # "DirectStr" /\ name # "RTID"
    BY DEF VarInts
  <2>. HIDE DEF todo
  <2>7. FlagsOK'
    BY <2>1, <2>3, <2>4, <2>5, <2>6 DEF FlagsOK
  <2>8. OriginsOK' /\ WrapperScope'
    BY <1>1, <2>1, SilentScope
  <2>9. QED BY <2>7, <2>8 DEF WInv
<1>5. ASSUME NEW s \in Strings, newtype_direct(s) PROVE WInv'
  <2> DEFINE c == [call |-> "direct"]
  <2>1. /\ MayCall(c) /\ pending_direct' = TRUE
        /\ stack' = Opened("DirectStr", 1, <<Str(s)>>)
        /\ UNCHANGED <<result, out, origin, wrote, pending_varint>>
    BY <1>5 DEF newtype_direct
  <2>2. c.call \notin {"unit_variant", "str", "number", "int"}
    OBVIOUS
  <2>3. result = "run" /\ Top.left > 0 /\ pending_varint = "None"
    BY <1>2, <2>1, <2>2
  <2>4. Top'.kind = "DirectStr"
    BY <2>1, <2>3, TopOpened
  <2>5. FlagsOK'
    BY <2>1, <2>3, <2>4 DEF FlagsOK, VarInts
  <2>6. OriginsOK' /\ WrapperScope'
    BY <1>1, <2>1, SilentScope
  <2>7. QED BY <2>5, <2>6 DEF WInv
<1>6. QED BY <1>3, <1>4, <1>5

(* And after it: both flags are down again.                                *)
LEMMA EndNewtypeScope == ASSUME IInv, WInv, end_newtype PROVE WInv'
<1>1. TypeOK /\ StackOK /\ FlagsOK /\ OriginsOK /\ WrapperScope /\ result = "run" /\ InNewtype
  BY DEF IInv, WInv, end_newtype
<1>2. Top.kind \in Newtypes /\ Top.kind # "doc"
  BY <1>1 DEF InNewtype, Newtypes, VarInts
<1>3. Top'.kind \notin Newtypes
  BY <1>1, <1>2, TopClosed DEF end_newtype
<1>4. pending_varint' = "None" /\ ~pending_direct'
  <2>1. pending_varint = IF Top.kind \in VarInts THEN Top.kind ELSE "None"
    BY <1>1 DEF FlagsOK
  <2>2. pending_direct <=> Top.kind = "DirectStr"
    BY <1>1 DEF FlagsOK
  <2>3. QED BY <2>1, <2>2 DEF end_newtype
<1>5. FlagsOK'
  BY <1>3, <1>4, FlagsPlain
<1>6. OriginsOK' /\ WrapperScope'
  BY <1>1, SilentScope DEF end_newtype
<1>7. QED BY <1>5, <1>6 DEF WInv

(* to_writer's own two tokens: the header belongs to no value, since none  *)
(* has been recorded.                                                      *)
NothingYet == result = "new" => wrote = <<>>

LEMMA FrameScope == ASSUME IInv, IInv', NothingYet, WInv, write_header \/ write_footer PROVE WInv'
<1>1. TypeOK /\ TypeOK' /\ FlagsOK /\ OriginsOK /\ WrapperScope
  BY DEF IInv, WInv
<1>2. wrote' = wrote /\ Extended
  BY <1>1 DEF write_header, write_footer, TypeOK, Extended
<1>3. FlagsOK'
  BY <1>1 DEF write_header, write_footer, FlagsOK, Top, flags
<1>4. CASE write_header
  <2> DEFINE t    == [tag |-> "(header)", version |-> "standard"]
             S    == Token \cup {t}
             toks == <<t>>
  <2>1. Emit(toks) /\ Len(wrote') = 0
    BY <1>2, <1>4 DEF write_header, NothingYet
  <2>2. toks \in Seq(S) /\ Token \subseteq S
    OBVIOUS
  <2>. HIDE DEF toks, S
  <2>3. OriginsOK' /\ WrapperScope'
    BY <1>1, <1>2, <2>1, <2>2, GrownScope
  <2>4. QED BY <1>3, <2>3 DEF WInv
<1>5. CASE write_footer
  <2> DEFINE t    == [tag |-> "(footer)"]
             S    == Token \cup {t}
             toks == <<t>>
  <2>1. Emit(toks)
    BY <1>5 DEF write_footer
  <2>2. toks \in Seq(S) /\ Token \subseteq S /\ \A k \in 1 .. Len(toks) : toks[k].tag = "(footer)"
    OBVIOUS
  <2>. HIDE DEF toks, S
  <2>3. OriginsOK' /\ WrapperScope'
    BY <1>1, <1>2, <2>1, <2>2, GrownScope
  <2>4. QED BY <1>3, <2>3 DEF WInv
<1>6. QED BY <1>4, <1>5

(* The error paths: what is torn off says nothing of the values.           *)
LEMMA ErrorScope == ASSUME IInv, IInv', WInv, serialize_unsupported \/ write_fails PROVE WInv'
<1>1. TypeOK /\ TypeOK' /\ OriginsOK /\ WrapperScope /\ Unwind
  BY DEF IInv, WInv, serialize_unsupported, write_fails
<1>2. wrote' = wrote /\ Extended
  BY <1>1 DEF Unwind, TypeOK, Extended
<1>3. FlagsOK'
  BY <1>1 DEF Unwind, FlagsOK
<1> DEFINE t    == [tag |-> "(torn)"]
           S    == Token \cup {t}
           toks == <<t>>
<1>4. toks \in Seq(S) /\ Token \subseteq S /\ \A k \in 1 .. Len(toks) : toks[k].tag = "(torn)"
  OBVIOUS
<1>5. CASE UNCHANGED <<out, origin>>
  BY <1>1, <1>2, <1>3, <1>5, SilentScope DEF WInv
<1>6. CASE Emit(toks)
  <2>. HIDE DEF toks, S
  <2>1. OriginsOK' /\ WrapperScope'
    BY <1>1, <1>2, <1>4, <1>6, GrownScope
  <2>2. QED BY <1>3, <2>1 DEF WInv
<1>7. QED BY <1>5, <1>6 DEF serialize_unsupported, write_fails
-----------------------------------------------------------------------------
(* At first nothing has been written, and every step keeps the scope.      *)
LEMMA InitWInv == Init => WInv /\ NothingYet
<1> SUFFICES ASSUME Init PROVE WInv /\ NothingYet
  OBVIOUS
<1>1. FlagsOK
  BY DEF Init, FlagsOK, Top, VarInts
<1>2. OriginsOK /\ WrapperScope /\ NothingYet
  BY DEF Init, OriginsOK, WrapperScope, NothingYet
<1>3. QED BY <1>1, <1>2 DEF WInv

(* Only write_header leaves "new".                                         *)
LEMMA NextNothingYet == NothingYet /\ [Next]_svars => NothingYet'
BY DEF NothingYet, Next, svars, write_header, write_footer, serialize_bool, serialize_float, serialize_int,
       serialize_number, serialize_str, serialize_bytes, serialize_unit_variant, serialize_none,
       serialize_seq, serialize_map, serialize_tuple, end_seq, end_map, end_tuple, End, Plain,
       newtype_rtid, newtype_varint, newtype_direct, end_newtype, serialize_unsupported, write_fails,
       Unwind, MayCall

LEMMA NextWInv == IInv /\ IInv' /\ NothingYet /\ WInv /\ [Next]_svars => WInv'
<1> SUFFICES ASSUME IInv, IInv', NothingYet, WInv, [Next]_svars PROVE WInv'
  OBVIOUS
<1>1. CASE UNCHANGED svars
  <2>1. OriginsOK' /\ WrapperScope'
    BY <1>1, SilentScope DEF svars, WInv
  <2>2. FlagsOK'
    BY <1>1 DEF svars, flags, WInv, FlagsOK, Top
  <2>3. QED BY <2>1, <2>2 DEF WInv
<1>2. CASE write_header \/ write_footer
  BY <1>2, FrameScope
<1>3. ASSUME NEW b \in BOOLEAN, serialize_bool(b) PROVE WInv'
  <2>1. PICK c : c = [call |-> "bool", bool |-> b]
    OBVIOUS
  <2>2. c.call \notin {"int", "str"}
    BY <2>1
  <2>3. QED BY <1>3, <2>1, <2>2, ScalarScope DEF serialize_bool
<1>4. ASSUME NEW ty \in {"f32", "f64"}, NEW x \in Floats, serialize_float(ty, x) PROVE WInv'
  <2>1. PICK c : c = [call |-> "float", ty |-> ty, val |-> x]
    OBVIOUS
  <2>2. c.call \notin {"int", "str"}
    BY <2>1
  <2>3. QED BY <1>4, <2>1, <2>2, ScalarScope DEF serialize_float
<1>5. ASSUME NEW b \in Blobs, serialize_bytes(b) PROVE WInv'
  <2>1. PICK c : c = [call |-> "bytes", bytes |-> b]
    OBVIOUS
  <2>2. c.call \notin {"int", "str"}
    BY <2>1
  <2>3. QED BY <1>5, <2>1, <2>2, ScalarScope DEF serialize_bytes
<1>6. ASSUME NEW i \in 0 .. 3, serialize_unit_variant(i) PROVE WInv'
  <2>1. PICK c : c = [call |-> "unit_variant", index |-> i]
    OBVIOUS
  <2>2. c.call \notin {"int", "str"}
    BY <2>1
  <2>3. QED BY <1>6, <2>1, <2>2, ScalarScope DEF serialize_unit_variant
<1>7. CASE serialize_none
  <2>1. PICK c : c = [call |-> "none"]
    OBVIOUS
  <2>2. c.call \notin {"int", "str"}
    BY <2>1
  <2>3. QED BY <1>7, <2>1, <2>2, ScalarScope DEF serialize_none
<1>8. ASSUME NEW wire \in {"(varint)", "(u32)"}, NEW n \in RtidNumbers, serialize_number(wire, n) PROVE WInv'
  <2>1. PICK c : c = [call |-> "number", wire |-> wire, num |-> n]
    OBVIOUS
  <2>2. c.call \notin {"int", "str"}
    BY <2>1
  <2>3. QED BY <1>8, <2>1, <2>2, ScalarScope DEF serialize_number
<1>9. ASSUME NEW v \in Ints, serialize_int(v) PROVE WInv'
  BY <1>9, IntScope
<1>10. ASSUME NEW s \in Strings, serialize_str(s) PROVE WInv'
  BY <1>10, StringScope
<1>11. ASSUME NEW n \in Lens, serialize_seq(n) \/ serialize_map(n) \/ serialize_tuple(n) PROVE WInv'
  BY <1>11, ContainerScope
<1>12. CASE end_seq \/ end_map \/ end_tuple
  BY <1>12, EndScope
<1>13. CASE \/ \E r \in Rtids : newtype_rtid(r)
            \/ \E name \in VarInts, v \in Ints : newtype_varint(name, v)
            \/ \E s \in Strings : newtype_direct(s)
  BY <1>13, NewtypeScope
<1>14. CASE end_newtype
  BY <1>14, EndNewtypeScope
<1>15. CASE serialize_unsupported \/ write_fails
  BY <1>15, ErrorScope
<1>16. QED BY <1>1, <1>2, <1>3, <1>4, <1>5, <1>6, <1>7, <1>8, <1>9, <1>10, <1>11, <1>12, <1>13, <1>14,
              <1>15 DEF Next

(* serialize_newtype_struct: an integer gets its varint tag, and a string  *)
(* is kept out of the tables, exactly when it was wrapped - for any values *)
(* in any nesting, after any of them, and in what an error leaves behind.  *)
THEOREM WrappersReachTheirValue == Spec => []WrapperScope
<1>1. WInv => WrapperScope
  BY DEF WInv
<1>2. Spec => [](WInv /\ NothingYet)
  BY InitIInv, NextIInv, InitWInv, NextWInv, NextNothingYet, PTL DEF Spec
<1>3. QED BY <1>1, <1>2, PTL
-----------------------------------------------------------------------------
(* What the serializer leaves in the stream: value by value the tokens     *)
(* that encode it, and between them the containers a reader can tell from  *)
(* the tokens alone.                                                       *)

(* What is asked of the value: its root is a map, as from_reader expects,  *)
(* and it holds no tuple and no enum, which the format cannot tell from    *)
(* other values.                                                           *)
ReadableCalls == {"bool", "float", "int", "none", "bytes", "rtid", "varint", "direct", "unsupported",
                  "str", "seq", "map"}
Readable == Roots = {"map"} /\ Calls \subseteq ReadableCalls

(* The number of tokens a call comes to, as the n-th of the file (the root *)
(* map has no beginning), and what they are.                               *)
Weight(n, c) == CASE c.call = "seq"  -> 2
                  [] c.call = "rtid" -> 1 + Len(RtidBody(c.rtid))
                  [] c.call = "map"  -> IF n = 1 THEN 0 ELSE 1
                  [] OTHER           -> 1

BodyTok(c) == CASE c.call = "unit_variant" -> [tag |-> "(byte)", byte |-> c.index]
                [] c.call = "str"          -> [tag |-> "(utf8)", str |-> c.str]
                [] c.call = "number"       -> [tag |-> c.wire, num |-> c.num]

IsStr(s, t) == \/ s = Asterisk /\ t = [tag |-> "StringAsterisk"]
               \/ s = RtidNullText /\ t = [tag |-> "RtidNull"]
               \/ t.tag \in DirectTags \cup DefinitionTags /\ t.str = s
               \/ t.tag \in ReferenceTags

Encodes(c, t, k) ==
  CASE c.call = "bool"  -> t = [tag |-> IF c.bool THEN "BooleanTrue" ELSE "BooleanFalse"]
    [] c.call = "float" -> t = IF c.val \in {"+0", "-0"}
                               THEN [tag |-> IF c.ty = "f32" THEN "F32Zero" ELSE "F64Zero"]
                               ELSE [tag |-> IF c.ty = "f32" THEN "F32" ELSE "F64", val |-> c.val]
    [] c.call = "none"  -> t = [tag |-> "RtidNull"]
    [] c.call = "bytes" -> t = [tag |-> "BinaryBlob", hex |-> HexStr(c.bytes),
                                declared |-> Len(c.bytes), raw |-> c.bytes]
    [] c.call = "int"   -> \E forced \in BOOLEAN : t = EncodeInt(c.int, forced)
    [] c.call = "str"   -> IsStr(c.str, t)
    [] c.call = "seq"   -> t = IF k = 0 THEN [tag |-> "ArrayBegin"]
                               ELSE [tag |-> "ArrayCapacity", cap |-> c.len]
    [] c.call = "map"   -> t = [tag |-> "ObjectBegin"]
    [] c.call = "end"   -> t = [tag |-> IF c.of = "map" THEN "ObjectEnd" ELSE "ArrayEnd"]
    [] c.call = "rtid"  -> t = IF k = 0 THEN [tag |-> "Rtid"] ELSE BodyTok(RtidBody(c.rtid)[k])

(* The first solid tokens of the stream o are the header and then, value   *)
(* by value of w, the tokens of the value; g has the value of each token;  *)
(* at[n] is where the tokens after the n-th value begin.  Of the last      *)
(* value some tokens may be missing.                                       *)
EntryAt(n, c, o, g, p, solid) ==
  \A k \in 0 .. Weight(n, c) - 1 : p + k <= solid => Encodes(c, o[p + k], k) /\ g[p + k] = n
Layout(w, o, g, at, solid) ==
  /\ at \in [0 .. Len(w) -> Nat \ {0}]
  /\ at[0] = 2
  /\ \A n \in 1 .. Len(w) : /\ at[n] = at[n - 1] + Weight(n, w[n].is)
                            /\ at[n - 1] <= solid + 1
                            /\ EntryAt(n, w[n].is, o, g, at[n - 1], solid)

(* The frames of a reader that has read the first n values: in a sequence  *)
(* the elements that are left, in a map whether a value is due.            *)
RFrame     == [kind : {"seq", "map"}, left : Nat, table : {<<>>}]
KeyDue(s)  == s[Len(s)].kind = "map" /\ s[Len(s)].left = 0
Tick(s)    == [s EXCEPT ![Len(s)].left = IF KeyDue(s) THEN 1 ELSE @ - 1]
Enter(s, kind, left) == Append(IF s = <<>> THEN <<>> ELSE Tick(s),
                               [kind |-> kind, left |-> left, table |-> <<>>])
Shape(s, c) == CASE c.call = "map" -> Enter(s, "map", 0)
                 [] c.call = "seq" -> Enter(s, "seq", c.len)
                 [] c.call = "end" -> SubSeq(s, 1, Len(s) - 1)
                 [] OTHER          -> Tick(s)
Told == {"bool", "float", "none", "bytes", "int", "str", "rtid", "seq", "map", "end"}
Legal(n, s, c) ==
  IF n = 1 THEN c.call = "map"
  ELSE /\ s # <<>> /\ c.call \in Told
       /\ c.call = "end" => c.of = s[Len(s)].kind /\ s[Len(s)].left = 0
       /\ c.call # "end" => /\ s[Len(s)].kind = "seq" => s[Len(s)].left > 0
                            /\ KeyDue(s) => c.call = "str"
Shapes(w, sh) ==
  /\ sh \in [0 .. Len(w) -> Seq(RFrame)]
  /\ sh[0] = <<>>
  /\ \A n \in 1 .. Len(w) : Legal(n, sh[n - 1], w[n].is) /\ sh[n] = Shape(sh[n - 1], w[n].is)

(* The writer's stack st is such a sequence of frames s: with the document *)
(* below, all the calls of a map counted, and perhaps a newtype on top;    *)
(* the value of a VarInt or DirectStr is counted off before it is written. *)
Inside(st) == st[Len(st)].kind \in Newtypes
Depth(st)  == IF Inside(st) THEN Len(st) - 1 ELSE Len(st)
Owes(st)   == st[Len(st)].kind \in Newtypes \ {"RTID"} /\ st[Len(st)].left = 1
Left(st, i) == IF Owes(st) /\ i = Depth(st) THEN st[i].left + 1 ELSE st[i].left
View(st, s) ==
  /\ Len(s) = Depth(st) - 1
  /\ \A i \in 2 .. Depth(st) :
       /\ s[i - 1].kind = st[i].kind
       /\ s[i - 1].left = IF st[i].kind = "map" THEN Left(st, i) % 2 ELSE Left(st, i)
  /\ Inside(st) => Depth(st) >= 2
  /\ Owes(st) => ~KeyDue(s)
-----------------------------------------------------------------------------
(* The calls of an RTID body, and how many tokens a call comes to.         *)
RtidPart == {c \in BodyCall : c.call \in {"unit_variant", "str", "number"}}

LEMMA Joined == \A s, t \in Seq(RtidPart) : s \o t \in Seq(RtidPart) /\ Len(s \o t) = Len(s) + Len(t)
OBVIOUS

LEMMA BodyParts == \A r \in Rtids : RtidBody(r) \in Seq(RtidPart) /\ Len(RtidBody(r)) \in 3 .. 5
<1> SUFFICES ASSUME NEW r \in Rtids PROVE RtidBody(r) \in Seq(RtidPart) /\ Len(RtidBody(r)) \in 3 .. 5
  OBVIOUS
<1>0. r \in RtidOver(Strings)
  BY RtidsAssumption DEF RtidsAssumption
<1>1. CASE r.kind = "raw"
  <2>1. RtidBody(r) = <<Byte(3), Str(r.name), Str(r.parent)>>
    BY <1>1 DEF RtidBody
  <2>2. Byte(3) \in RtidPart /\ Str(r.name) \in RtidPart /\ Str(r.parent) \in RtidPart
    BY <1>0, <1>1 DEF RtidOver, Byte, Str, BodyCall, RtidPart
  <2>3. QED BY <2>1, <2>2
<1>2. CASE r.kind # "raw"
  <2> DEFINE nums == <<Number("(varint)", r.group), Number("(varint)", r.id), Number("(u32)", r.obj)>>
  <2>1. nums \in Seq(RtidPart) /\ Len(nums) = 3
    <3>1. Number("(varint)", r.group) \in RtidPart /\ Number("(varint)", r.id) \in RtidPart /\ Number("(u32)", r.obj) \in RtidPart
      BY <1>0, <1>2 DEF RtidOver, Number, BodyCall, RtidPart
    <3>2. QED BY <3>1
  <2>2. CASE r.name = None
    <3>1. RtidBody(r) = <<Byte(1)>> \o nums
      BY <1>2, <2>2 DEF RtidBody
    <3>2. <<Byte(1)>> \in Seq(RtidPart) /\ Len(<<Byte(1)>>) = 1
      BY DEF Byte, BodyCall, RtidPart
    <3>3. <<Byte(1)>> \o nums \in Seq(RtidPart) /\ Len(<<Byte(1)>> \o nums) = 4
      BY <2>1, <3>2, Joined
    <3>4. QED BY <3>1, <3>3
  <2>3. CASE r.name # None
    <3>1. PICK s \in Strings : r.name = {s}
      BY <1>0, <1>2, <2>3 DEF RtidOver, Some, None
    <3>2. Unwrap(r.name) = s
      BY <3>1 DEF Unwrap
    <3>3. RtidBody(r) = <<Byte(2), Str(s)>> \o nums
      BY <1>2, <2>3, <3>2 DEF RtidBody
    <3>4. <<Byte(2), Str(s)>> \in Seq(RtidPart) /\ Len(<<Byte(2), Str(s)>>) = 2
      <4>1. Byte(2) \in RtidPart /\ Str(s) \in RtidPart
        BY DEF Byte, Str, BodyCall, RtidPart
      <4>2. QED BY <4>1
    <3>5. <<Byte(2), Str(s)>> \o nums \in Seq(RtidPart) /\ Len(<<Byte(2), Str(s)>> \o nums) = 5
      BY <2>1, <3>4, Joined
    <3>6. QED BY <3>3, <3>5
  <2>4. QED BY <2>2, <2>3
<1>3. QED BY <1>1, <1>2

LEMMA BodyCalls ==
  \A r \in Rtids : /\ RtidBody(r) \in Seq(BodyCall) /\ Len(RtidBody(r)) \in 3 .. 5
                   /\ \A i \in 1 .. Len(RtidBody(r)) : RtidBody(r)[i].call \in {"unit_variant", "str", "number"}
<1> SUFFICES ASSUME NEW r \in Rtids, NEW i \in 1 .. Len(RtidBody(r))
             PROVE  RtidBody(r)[i].call \in {"unit_variant", "str", "number"}
  BY BodyTyped, BodyParts
<1>1. RtidBody(r)[i] \in RtidPart
  BY BodyParts
<1>2. QED BY <1>1 DEF RtidPart

LEMMA WeightTyped == \A n : \A c \in Call : Weight(n, c) \in Nat
<1> SUFFICES ASSUME NEW c \in Call, NEW n PROVE Weight(n, c) \in Nat
  OBVIOUS
<1>1. CASE c.call = "rtid"
  <2>1. c.rtid \in Rtids
    BY <1>1 DEF Call, BodyCall
  <2>2. Len(RtidBody(c.rtid)) \in Nat
    BY <2>1, BodyCalls
  <2>3. Weight(n, c) = 1 + Len(RtidBody(c.rtid))
    BY <1>1 DEF Weight
  <2>4. QED BY <2>2, <2>3
<1>2. CASE c.call # "rtid"
  BY <1>2 DEF Weight
<1>3. QED BY <1>1, <1>2

LEMMA EntriesWeigh ==
  ASSUME wrote' \in Seq(Entry)
  PROVE  \A n \in 1 .. Len(wrote') : Weight(n, wrote'[n].is) \in Nat
<1> SUFFICES ASSUME NEW n \in 1 .. Len(wrote') PROVE Weight(n, wrote'[n].is) \in Nat
  OBVIOUS
<1>1. wrote'[n] \in Entry
  OBVIOUS
<1>2. wrote'[n].is \in Call
  BY <1>1 DEF Entry
<1>3. QED BY <1>2, WeightTyped

LEMMA Within == \A p, k, d, s \in Nat : p # 0 /\ p + d <= s + 1 /\ k < d => p + k \in 1 .. s
OBVIOUS

(* A call more: its tokens follow those that are there.                    *)
Keeps(solid)   == \A i \in 1 .. solid : out'[i] = out[i] /\ origin'[i] = origin[i]
Adds(c, solid) == \A i \in solid + 1 .. Len(out') :
                    Encodes(c, out'[i], i - (solid + 1)) /\ origin'[i] = Len(wrote')

LEMMA LayoutGrows ==
  ASSUME Len(wrote) \in Nat, Len(wrote') = Len(wrote) + 1, Extended,
         NEW solid \in Nat, NEW at, Layout(wrote, out, origin, at, solid), at[Len(wrote)] = solid + 1,
         NEW c, c = wrote'[Len(wrote')].is, Len(out') - solid \in 0 .. Weight(Len(wrote'), c), Len(out') \in Nat,
         Keeps(solid), Adds(c, solid)
  PROVE  \E a : Layout(wrote', out', origin', a, Len(out')) /\ a[Len(wrote')] = solid + 1 + Weight(Len(wrote'), c)
<1> DEFINE more == Len(out') - solid
           a    == [n \in 0 .. Len(wrote') |-> IF n = Len(wrote') THEN solid + 1 + Weight(Len(wrote'), c) ELSE at[n]]
<1>1. /\ at \in [0 .. Len(wrote) -> Nat \ {0}] /\ at[0] = 2
      /\ \A n \in 1 .. Len(wrote) : /\ at[n] = at[n - 1] + Weight(n, wrote[n].is)
                                    /\ at[n - 1] <= solid + 1
                                    /\ EntryAt(n, wrote[n].is, out, origin, at[n - 1], solid)
  BY DEF Layout
<1>2. /\ \A i \in 1 .. solid : out'[i] = out[i] /\ origin'[i] = origin[i]
      /\ \A i \in 1 .. Len(wrote) : wrote'[i] = wrote[i]
  BY DEF Keeps, Extended
<1>3. Weight(Len(wrote'), c) \in Nat
  <2>1. Len(wrote') \in 1 .. Len(wrote')
    OBVIOUS
  <2>2. QED BY <2>1, EntriesWeigh DEF Extended
<1>4. more \in Nat /\ more <= Weight(Len(wrote'), c) /\ solid + more = Len(out')
  BY <1>3
<1>5. ASSUME NEW k \in 0 .. more - 1
      PROVE  Encodes(c, out'[solid + 1 + k], k) /\ origin'[solid + 1 + k] = Len(wrote')
  <2>1. solid + 1 + k \in solid + 1 .. Len(out') /\ (solid + 1 + k) - (solid + 1) = k
    BY <1>4
  <2>2. QED BY <2>1 DEF Adds
<1>6. a \in [0 .. Len(wrote') -> Nat \ {0}] /\ a[0] = 2 /\ a[Len(wrote')] = solid + 1 + Weight(Len(wrote'), c)
      /\ \A n \in 0 .. Len(wrote) : a[n] = at[n]
  BY <1>1, <1>3
<1>. HIDE DEF more, a
<1>7. ASSUME NEW n \in 1 .. Len(wrote')
      PROVE  /\ a[n] = a[n - 1] + Weight(n, wrote'[n].is)
             /\ a[n - 1] <= solid + more + 1
             /\ EntryAt(n, wrote'[n].is, out', origin', a[n - 1], solid + more)
  <2>0. n = Len(wrote') \/ n \in 1 .. Len(wrote)
    OBVIOUS
  <2>1. CASE n = Len(wrote')
    <3>1. a[n - 1] = solid + 1 /\ wrote'[n].is = c
      BY <1>6, <2>1
    <3>2. EntryAt(n, c, out', origin', solid + 1, solid + more)
      BY <1>4, <1>5, <2>1 DEF EntryAt
    <3>3. QED BY <1>3, <1>4, <1>6, <2>1, <3>1, <3>2
  <2>2. CASE n \in 1 .. Len(wrote)
    <3>1. a[n] = at[n] /\ a[n - 1] = at[n - 1] /\ wrote'[n] = wrote[n] /\ at[n - 1] \in Nat \ {0} /\ at[n] \in Nat
      <4>1. n \in 0 .. Len(wrote) /\ n - 1 \in 0 .. Len(wrote)
        BY <2>2
      <4>2. a[n] = at[n] /\ a[n - 1] = at[n - 1]
        BY <1>6, <4>1
      <4>3. wrote'[n] = wrote[n]
        BY <1>2, <2>2
      <4>4. at[n - 1] \in Nat \ {0} /\ at[n] \in Nat
        BY <1>1, <4>1
      <4>5. QED BY <4>2, <4>3, <4>4
    <3>2. at[n] <= solid + 1
      <4>1. CASE n = Len(wrote)
        BY <4>1
      <4>2. CASE n # Len(wrote)
        <5>1. n + 1 \in 1 .. Len(wrote) /\ (n + 1) - 1 = n
          BY <2>2, <4>2
        <5>2. QED BY <1>1, <5>1
      <4>3. QED BY <4>1, <4>2
    <3>3. EntryAt(n, wrote'[n].is, out', origin', a[n - 1], solid + more)
      <4> SUFFICES ASSUME NEW k \in 0 .. Weight(n, wrote[n].is) - 1
                   PROVE  Encodes(wrote[n].is, out'[at[n - 1] + k], k) /\ origin'[at[n - 1] + k] = n
        BY <3>1 DEF EntryAt
      <4>1. at[n] = at[n - 1] + Weight(n, wrote[n].is)
        BY <1>1, <2>2
      <4>2. PICK d : d = Weight(n, wrote[n].is)
        OBVIOUS
      <4>3. k \in 0 .. d - 1 /\ at[n] = at[n - 1] + d /\ d \in Nat
        BY <1>2, <2>2, <3>1, <4>1, <4>2, EntriesWeigh DEF Extended
      <4>4. at[n - 1] + k \in 1 .. solid
        <5>1. at[n - 1] \in Nat \ {0} /\ at[n - 1] + d <= solid + 1 /\ k \in Nat /\ k < d
          BY <3>1, <3>2, <4>3
        <5>2. QED BY <4>3, <5>1, Within
      <4>5. Encodes(wrote[n].is, out[at[n - 1] + k], k) /\ origin[at[n - 1] + k] = n
        BY <1>1, <2>2, <4>4 DEF EntryAt
      <4>6. QED BY <1>2, <4>4, <4>5
    <3>4. a[n - 1] <= solid + 1
      BY <1>1, <2>2, <3>1
    <3>5. QED BY <1>1, <1>4, <2>2, <3>1, <3>3, <3>4
  <2>3. QED BY <2>0, <2>1, <2>2
<1>8. Layout(wrote', out', origin', a, solid + more)
  BY <1>6, <1>7 DEF Layout
<1>9. QED BY <1>4, <1>6, <1>8

(* A token more of the last call, or a token that belongs to none.         *)
LEMMA LayoutFills ==
  ASSUME NEW solid \in Nat, NEW at, Layout(wrote, out, origin, at, solid), Keeps(solid),
         wrote \in Seq(Entry), Len(wrote) \in Nat \ {0}, at[Len(wrote)] > solid + 1,
         Encodes(wrote[Len(wrote)].is, out'[solid + 1], solid + 1 - at[Len(wrote) - 1]),
         origin'[solid + 1] = Len(wrote)
  PROVE  Layout(wrote, out', origin', at, solid + 1)
<1>1. /\ at \in [0 .. Len(wrote) -> Nat \ {0}] /\ at[0] = 2
      /\ \A n \in 1 .. Len(wrote) : /\ at[n] = at[n - 1] + Weight(n, wrote[n].is)
                                    /\ at[n - 1] <= solid + 1
                                    /\ EntryAt(n, wrote[n].is, out, origin, at[n - 1], solid)
  BY DEF Layout
<1>2. ASSUME NEW n \in 1 .. Len(wrote)
      PROVE  at[n - 1] <= solid + 1 + 1 /\ EntryAt(n, wrote[n].is, out', origin', at[n - 1], solid + 1)
  <2>1. at[n - 1] \in Nat \ {0} /\ at[n - 1] <= solid + 1 /\ at[n] = at[n - 1] + Weight(n, wrote[n].is)
        /\ at[n] \in Nat /\ Weight(n, wrote[n].is) \in Nat
    <3>1. n \in 0 .. Len(wrote) /\ n - 1 \in 0 .. Len(wrote)
      OBVIOUS
    <3>2. wrote[n] \in Entry
      OBVIOUS
    <3>3. wrote[n].is \in Call
      BY <3>2 DEF Entry
    <3>4. Weight(n, wrote[n].is) \in Nat
      BY <3>3, WeightTyped
    <3>5. QED BY <1>1, <3>1, <3>4
  <2>2. ASSUME NEW k \in 0 .. Weight(n, wrote[n].is) - 1, at[n - 1] + k <= solid + 1
        PROVE  Encodes(wrote[n].is, out'[at[n - 1] + k], k) /\ origin'[at[n - 1] + k] = n
    <3>1. PICK p, d, q : p = at[n - 1] /\ d = Weight(n, wrote[n].is) /\ q = at[n]
      OBVIOUS
    <3>2. k \in Nat /\ k \in 0 .. d - 1 /\ p \in Nat \ {0} /\ q = p + d /\ q \in Nat /\ p + k <= solid + 1
      BY <2>1, <2>2, <3>1
    <3>3. CASE p + k \in 1 .. solid
      <4>1. Encodes(wrote[n].is, out[p + k], k) /\ origin[p + k] = n
        <5>1. EntryAt(n, wrote[n].is, out, origin, at[n - 1], solid)
          BY <1>1
        <5>2. k \in 0 .. Weight(n, wrote[n].is) - 1 /\ at[n - 1] + k <= solid
          BY <3>1, <3>2, <3>3
        <5>3. Encodes(wrote[n].is, out[at[n - 1] + k], k) /\ origin[at[n - 1] + k] = n
          BY <5>1, <5>2 DEF EntryAt
        <5>4. QED BY <3>1, <5>3
      <4>2. QED BY <3>1, <3>3, <4>1 DEF Keeps
    <3>4. CASE p + k = solid + 1
      <4>1. n = Len(wrote)
        <5>1. ASSUME n + 1 \in 1 .. Len(wrote) PROVE q <= solid + 1
          BY <1>1, <3>1, <5>1
        <5>2. q >= solid + 2
          <6>1. d \in Nat
            BY <2>1, <3>1
          <6>2. QED BY <3>2, <3>4, <6>1
        <5>3. QED BY <3>2, <5>1, <5>2
      <4>2. k = solid + 1 - p
        BY <3>2, <3>4
      <4>3. QED BY <3>1, <3>4, <4>1, <4>2
    <3>5. QED BY <3>2, <3>3, <3>4
  <2>3. QED BY <2>1, <2>2 DEF EntryAt
<1>3. QED BY <1>1, <1>2 DEF Layout

LEMMA LayoutKeeps ==
  ASSUME NEW solid \in Nat, NEW at, Layout(wrote, out, origin, at, solid), Keeps(solid)
  PROVE  Layout(wrote, out', origin', at, solid)
<1>1. /\ at \in [0 .. Len(wrote) -> Nat \ {0}] /\ at[0] = 2
      /\ \A n \in 1 .. Len(wrote) : /\ at[n] = at[n - 1] + Weight(n, wrote[n].is)
                                    /\ at[n - 1] <= solid + 1
                                    /\ EntryAt(n, wrote[n].is, out, origin, at[n - 1], solid)
  BY DEF Layout
<1>2. ASSUME NEW n \in 1 .. Len(wrote) PROVE EntryAt(n, wrote[n].is, out', origin', at[n - 1], solid)
  <2>1. at[n - 1] \in Nat \ {0}
    BY <1>1
  <2>2. ASSUME NEW k \in 0 .. Weight(n, wrote[n].is) - 1, at[n - 1] + k <= solid
        PROVE  Encodes(wrote[n].is, out'[at[n - 1] + k], k) /\ origin'[at[n - 1] + k] = n
    <3>1. PICK p : p = at[n - 1]
      OBVIOUS
    <3>2. p + k \in 1 .. solid
      BY <2>1, <2>2, <3>1
    <3>3. Encodes(wrote[n].is, out[p + k], k) /\ origin[p + k] = n
      BY <1>1, <2>2, <3>1 DEF EntryAt
    <3>4. QED BY <3>1, <3>2, <3>3 DEF Keeps
  <2>3. QED BY <2>2 DEF EntryAt
<1>3. QED BY <1>1, <1>2 DEF Layout

LEMMA ShapesGrow ==
  ASSUME Len(wrote) \in Nat, Len(wrote') = Len(wrote) + 1, \A n \in 1 .. Len(wrote) : wrote'[n] = wrote[n],
         NEW sh, Shapes(wrote, sh), NEW c, c = wrote'[Len(wrote')].is,
         Legal(Len(wrote'), sh[Len(wrote)], c), Shape(sh[Len(wrote)], c) \in Seq(RFrame)
  PROVE  \E f : Shapes(wrote', f) /\ f[Len(wrote')] = Shape(sh[Len(wrote)], c)
<1> DEFINE f == [n \in 0 .. Len(wrote') |-> IF n = Len(wrote') THEN Shape(sh[Len(wrote)], c) ELSE sh[n]]
<1>1. /\ sh \in [0 .. Len(wrote) -> Seq(RFrame)] /\ sh[0] = <<>>
      /\ \A n \in 1 .. Len(wrote) : Legal(n, sh[n - 1], wrote[n].is) /\ sh[n] = Shape(sh[n - 1], wrote[n].is)
  BY DEF Shapes
<1>2. /\ f \in [0 .. Len(wrote') -> Seq(RFrame)] /\ f[Len(wrote')] = Shape(sh[Len(wrote)], c)
      /\ \A n \in 0 .. Len(wrote) : f[n] = sh[n]
  BY <1>1
<1>. HIDE DEF f
<1>3. ASSUME NEW n \in 1 .. Len(wrote')
      PROVE  Legal(n, f[n - 1], wrote'[n].is) /\ f[n] = Shape(f[n - 1], wrote'[n].is)
  <2>1. CASE n = Len(wrote')
    <3>1. f[n - 1] = sh[Len(wrote)] /\ wrote'[n].is = c
      BY <1>2, <2>1
    <3>2. QED BY <1>2, <2>1, <3>1
  <2>2. CASE n \in 1 .. Len(wrote)
    <3>0. n - 1 \in 0 .. Len(wrote) /\ n \in 0 .. Len(wrote)
      BY <2>2
    <3>1. f[n - 1] = sh[n - 1] /\ f[n] = sh[n] /\ wrote'[n] = wrote[n]
      BY <1>2, <2>2, <3>0
    <3>2. QED BY <1>1, <2>2, <3>1
  <2>3. QED BY <2>1, <2>2
<1>4. f[0] = <<>>
  BY <1>1, <1>2
<1>5. Shapes(wrote', f)
  BY <1>2, <1>3, <1>4 DEF Shapes
<1>6. QED BY <1>2, <1>5
-----------------------------------------------------------------------------
(* Calls counted off in a map: the key and the value take turns.           *)
LEMMA Turns == /\ \A n \in Nat : n % 2 \in {0, 1}
               /\ \A n \in Nat \ {0} : n % 2 = 0 => (n - 1) % 2 = 1
               /\ \A n \in Nat \ {0} : n % 2 # 0 => (n - 1) % 2 = 0
               /\ \A n \in Nat : (n + 1) % 2 # 0 => n % 2 = 0 /\ (n + 1) % 2 = 1
               /\ \A n \in Nat : (2 * n) % 2 = 0
<1>1. \A n \in Nat : n % 2 \in {0, 1}
  OBVIOUS
<1>2. \A n \in Nat \ {0} : n % 2 = 0 => (n - 1) % 2 = 1
  OBVIOUS
<1>3. \A n \in Nat \ {0} : n % 2 # 0 => (n - 1) % 2 = 0
  OBVIOUS
<1>4. \A n \in Nat : (n + 1) % 2 # 0 => n % 2 = 0 /\ (n + 1) % 2 = 1
  OBVIOUS
<1>5. \A n \in Nat : (2 * n) % 2 = 0
  OBVIOUS
<1>6. QED BY <1>1, <1>2, <1>3, <1>4, <1>5

LEMMA TickProps ==
  ASSUME NEW s \in Seq(RFrame), s # <<>>, s[Len(s)].kind = "seq" => s[Len(s)].left > 0
  PROVE  /\ Tick(s) \in Seq(RFrame) /\ Len(Tick(s)) = Len(s)
         /\ \A i \in 1 .. Len(s) - 1 : Tick(s)[i] = s[i]
         /\ Tick(s)[Len(s)].kind = s[Len(s)].kind
         /\ Tick(s)[Len(s)].left = IF KeyDue(s) THEN 1 ELSE s[Len(s)].left - 1
<1>1. s[Len(s)] \in RFrame /\ Len(s) \in Nat \ {0}
  OBVIOUS
<1>2. PICK k, l : s[Len(s)] = [kind |-> k, left |-> l, table |-> <<>>] /\ k \in {"seq", "map"} /\ l \in Nat
  BY <1>1 DEF RFrame
<1> DEFINE m == IF KeyDue(s) THEN 1 ELSE l - 1
           f == [s[Len(s)] EXCEPT !.left = IF KeyDue(s) THEN 1 ELSE @ - 1]
<1>3. m \in Nat
  BY <1>2 DEF KeyDue
<1>4. f = [kind |-> k, left |-> m, table |-> <<>>]
  BY <1>2
<1>5. Tick(s) = [s EXCEPT ![Len(s)] = f]
  BY DEF Tick
<1>6. f \in RFrame /\ f.kind = s[Len(s)].kind /\ f.left = IF KeyDue(s) THEN 1 ELSE s[Len(s)].left - 1
  BY <1>2, <1>3, <1>4 DEF RFrame
<1>. HIDE DEF f
<1>7. QED BY <1>1, <1>5, <1>6

(* A call of the innermost container.                                      *)
LEMMA ViewUsed ==
  ASSUME NEW st \in Seq(Frame), NEW u \in Seq(Frame), Len(st) >= 2, Len(u) = Len(st),
         \A k \in 1 .. Len(st) - 1 : u[k] = st[k],
         u[Len(st)].kind = st[Len(st)].kind, u[Len(st)].left = st[Len(st)].left - 1,
         st[Len(st)].kind \in {"seq", "map"}, st[Len(st)].left > 0,
         NEW s \in Seq(RFrame), View(st, s)
  PROVE  /\ s # <<>> /\ (s[Len(s)].kind = "seq" => s[Len(s)].left > 0)
         /\ KeyDue(s) <=> st[Len(st)].kind = "map" /\ st[Len(st)].left % 2 = 0
         /\ Tick(s) \in Seq(RFrame) /\ View(u, Tick(s))
<1> DEFINE d == Len(st)
<1>1. d \in Nat /\ st[d] \in Frame
  OBVIOUS
<1>2. st[d].left \in Nat \ {0}
  BY <1>1 DEF Frame
<1>3. ~Inside(st) /\ ~Owes(st) /\ Depth(st) = d /\ ~Inside(u) /\ ~Owes(u) /\ Depth(u) = d
  BY DEF Inside, Owes, Depth, Newtypes, VarInts
<1>4. /\ Len(s) = d - 1
      /\ \A i \in 2 .. d : /\ s[i - 1].kind = st[i].kind
                            /\ s[i - 1].left = IF st[i].kind = "map" THEN st[i].left % 2 ELSE st[i].left
  BY <1>3 DEF View, Left
<1>5. s[Len(s)].kind = st[d].kind /\ s[Len(s)].left = IF st[d].kind = "map" THEN st[d].left % 2 ELSE st[d].left
  BY <1>1, <1>4
<1>6. s # <<>> /\ (s[Len(s)].kind = "seq" => s[Len(s)].left > 0)
  BY <1>1, <1>2, <1>4, <1>5
<1>7. KeyDue(s) <=> st[d].kind = "map" /\ st[d].left % 2 = 0
  BY <1>5 DEF KeyDue
<1>8. /\ Tick(s) \in Seq(RFrame) /\ Len(Tick(s)) = Len(s)
      /\ \A i \in 1 .. Len(s) - 1 : Tick(s)[i] = s[i]
      /\ Tick(s)[Len(s)].kind = s[Len(s)].kind
      /\ Tick(s)[Len(s)].left = IF KeyDue(s) THEN 1 ELSE s[Len(s)].left - 1
  BY <1>6, TickProps
<1>9. PICK t : t = Tick(s)
  OBVIOUS
<1>10. ASSUME NEW i \in 2 .. d
       PROVE  /\ t[i - 1].kind = u[i].kind
              /\ t[i - 1].left = IF u[i].kind = "map" THEN u[i].left % 2 ELSE u[i].left
  <2>1. CASE i = d
    <3>1. t[i - 1].kind = st[d].kind /\ t[i - 1].left = IF KeyDue(s) THEN 1 ELSE s[Len(s)].left - 1
      BY <1>1, <1>4, <1>5, <1>8, <1>9, <2>1
    <3>2. CASE st[d].kind = "map"
      <4>1. t[i - 1].left = IF st[d].left % 2 = 0 THEN 1 ELSE (st[d].left % 2) - 1
        BY <1>5, <1>7, <3>1, <3>2
      <4>2. t[i - 1].left = (st[d].left - 1) % 2
        <5>1. PICK n \in Nat \ {0} : n = st[d].left
          BY <1>2
        <5>2. n % 2 = 0 \/ n % 2 = 1
          OBVIOUS
        <5>3. CASE n % 2 = 0
          BY <4>1, <5>1, <5>3, Turns
        <5>4. CASE n % 2 = 1
          <6>1. (n - 1) % 2 = 0
            BY <5>4, Turns
          <6>2. QED BY <4>1, <5>1, <5>4, <6>1
        <5>5. QED BY <5>2, <5>3, <5>4
      <4>3. QED BY <2>1, <3>1, <3>2, <4>2
    <3>3. CASE st[d].kind = "seq"
      BY <1>2, <1>5, <1>7, <2>1, <3>1, <3>3
    <3>4. QED BY <3>2, <3>3
  <2>2. CASE i # d
    <3>1. i - 1 \in 1 .. Len(s) - 1 /\ i \in 1 .. d - 1
      BY <1>1, <1>4, <2>2
    <3>2. t[i - 1] = s[i - 1] /\ u[i] = st[i]
      BY <1>8, <1>9, <3>1
    <3>3. QED BY <1>4, <3>2
  <2>3. QED BY <2>1, <2>2
<1>11. View(u, t)
  BY <1>1, <1>3, <1>4, <1>8, <1>9, <1>10 DEF View, Left
<1>12. QED BY <1>6, <1>7, <1>8, <1>9, <1>11

(* The value of a newtype; a part of an RTID.                              *)
LEMMA ViewInner ==
  ASSUME NEW st \in Seq(Frame), NEW u \in Seq(Frame), Len(st) >= 2, Len(u) = Len(st),
         \A k \in 1 .. Len(st) - 1 : u[k] = st[k],
         u[Len(st)].kind = st[Len(st)].kind, u[Len(st)].left = 0,
         st[Len(st)].kind \in Newtypes \ {"RTID"}, st[Len(st)].left = 1,
         NEW s \in Seq(RFrame), View(st, s)
  PROVE  /\ s # <<>> /\ (s[Len(s)].kind = "seq" => s[Len(s)].left > 0) /\ ~KeyDue(s)
         /\ Tick(s) \in Seq(RFrame) /\ View(u, Tick(s))
<1> DEFINE d == Len(st) - 1
<1>1. d \in Nat /\ st[d] \in Frame
  OBVIOUS
<1>2. st[d].left \in Nat
  BY <1>1 DEF Frame
<1>3. Inside(st) /\ Owes(st) /\ Depth(st) = d /\ Inside(u) /\ ~Owes(u) /\ Depth(u) = d
  BY DEF Inside, Owes, Depth
<1>4. /\ Len(s) = d - 1 /\ d >= 2 /\ ~KeyDue(s)
      /\ \A i \in 2 .. d : /\ s[i - 1].kind = st[i].kind
                            /\ s[i - 1].left = IF st[i].kind = "map" THEN Left(st, i) % 2 ELSE Left(st, i)
  BY <1>3 DEF View
<1>5. /\ s[Len(s)].kind = st[d].kind
      /\ s[Len(s)].left = IF st[d].kind = "map" THEN (st[d].left + 1) % 2 ELSE st[d].left + 1
  BY <1>1, <1>3, <1>4 DEF Left
<1>6. s # <<>> /\ (s[Len(s)].kind = "seq" => s[Len(s)].left > 0)
  BY <1>1, <1>2, <1>4, <1>5
<1>7. /\ Tick(s) \in Seq(RFrame) /\ Len(Tick(s)) = Len(s)
      /\ \A i \in 1 .. Len(s) - 1 : Tick(s)[i] = s[i]
      /\ Tick(s)[Len(s)].kind = s[Len(s)].kind
      /\ Tick(s)[Len(s)].left = s[Len(s)].left - 1
  BY <1>4, <1>6, TickProps
<1>8. PICK t : t = Tick(s)
  OBVIOUS
<1>9. st[d].kind = "map" => st[d].left % 2 = s[Len(s)].left - 1
  <2>1. ASSUME st[d].kind = "map" PROVE st[d].left % 2 = s[Len(s)].left - 1
    <3>1. s[Len(s)].left = (st[d].left + 1) % 2 /\ s[Len(s)].left # 0
      BY <1>4, <1>5, <2>1 DEF KeyDue
    <3>2. PICK n \in Nat : n = st[d].left
      BY <1>2
    <3>3. (n + 1) % 2 # 0
      BY <3>1, <3>2
    <3>4. n % 2 = 0 /\ (n + 1) % 2 = 1
      BY <3>3, Turns
    <3>5. QED BY <3>1, <3>2, <3>4
  <2>2. QED BY <2>1
<1>10. ASSUME NEW i \in 2 .. d
       PROVE  /\ t[i - 1].kind = u[i].kind
              /\ t[i - 1].left = IF u[i].kind = "map" THEN u[i].left % 2 ELSE u[i].left
  <2>0. i \in 1 .. Len(st) - 1 /\ u[i] = st[i]
    BY <1>1
  <2>1. CASE i = d
    <3>1. t[i - 1].kind = st[d].kind /\ t[i - 1].left = s[Len(s)].left - 1
      BY <1>1, <1>4, <1>5, <1>7, <1>8, <2>1
    <3>2. QED BY <1>2, <1>5, <1>9, <2>0, <2>1, <3>1
  <2>2. CASE i # d
    <3>1. i - 1 \in 1 .. Len(s) - 1 /\ Left(st, i) = st[i].left
      BY <1>1, <1>3, <1>4, <2>2 DEF Left
    <3>2. t[i - 1] = s[i - 1]
      BY <1>7, <1>8, <3>1
    <3>3. QED BY <1>4, <2>0, <3>1, <3>2
  <2>3. QED BY <2>1, <2>2
<1>11. View(u, t)
  BY <1>1, <1>3, <1>4, <1>7, <1>8, <1>10 DEF View, Left
<1>12. QED BY <1>4, <1>6, <1>7, <1>8, <1>11

LEMMA ViewBody ==
  ASSUME NEW st \in Seq(Frame), NEW u \in Seq(Frame), Len(st) >= 1, Len(u) = Len(st),
         \A k \in 1 .. Len(st) - 1 : u[k] = st[k],
         u[Len(st)].kind = "RTID", st[Len(st)].kind = "RTID",
         NEW s, View(st, s)
  PROVE  View(u, s)
<1>1. Inside(st) /\ ~Owes(st) /\ Depth(st) = Len(st) - 1 /\ Inside(u) /\ ~Owes(u) /\ Depth(u) = Len(st) - 1
  BY DEF Inside, Owes, Depth, Newtypes
<1>2. \A i \in 2 .. Len(st) - 1 : u[i] = st[i]
  OBVIOUS
<1>3. QED BY <1>1, <1>2 DEF View, Left

(* A container is opened on top of others, or as the root.                 *)
LEMMA ViewPush ==
  ASSUME NEW u, NEW v, Len(u) \in Nat \ {0}, Len(v) = Len(u) + 1, \A k \in 1 .. Len(u) : v[k] = u[k],
         ~Inside(u), v[Len(v)].kind \in {"seq", "map"},
         NEW s \in Seq(RFrame), View(u, s), NEW r \in RFrame, r.kind = v[Len(v)].kind,
         r.left = IF r.kind = "map" THEN v[Len(v)].left % 2 ELSE v[Len(v)].left
  PROVE  Append(s, r) \in Seq(RFrame) /\ View(v, Append(s, r))
<1>1. ~Inside(v) /\ ~Owes(v) /\ Depth(v) = Len(u) + 1 /\ ~Owes(u) /\ Depth(u) = Len(u)
  BY DEF Inside, Owes, Depth, Newtypes, VarInts
<1>2. Len(s) = Len(u) - 1 /\ Len(s) \in Nat
  BY <1>1 DEF View
<1>3. PICK t : t = Append(s, r)
  OBVIOUS
<1>4. t \in Seq(RFrame) /\ Len(t) = Len(s) + 1 /\ t[Len(s) + 1] = r /\ \A i \in 1 .. Len(s) : t[i] = s[i]
  BY <1>3
<1>5. ASSUME NEW i \in 2 .. Len(u) + 1
      PROVE  /\ t[i - 1].kind = v[i].kind
             /\ t[i - 1].left = IF v[i].kind = "map" THEN v[i].left % 2 ELSE v[i].left
  <2>1. CASE i = Len(u) + 1
    <3>1. t[i - 1] = r /\ v[i] = v[Len(v)]
      BY <1>2, <1>4, <2>1
    <3>2. QED BY <3>1
  <2>2. CASE i \in 2 .. Len(u)
    <3>1. t[i - 1] = s[i - 1] /\ v[i] = u[i]
      BY <1>2, <1>4, <2>2
    <3>2. QED BY <1>1, <2>2, <3>1 DEF View, Left
  <2>3. QED BY <2>1, <2>2
<1>6. View(v, t)
  BY <1>1, <1>2, <1>4, <1>5 DEF View, Left
<1>7. QED BY <1>3, <1>4, <1>6

(* A newtype whose value is yet to be recorded, and one that is recorded.  *)
LEMMA ViewWrap ==
  ASSUME NEW st \in Seq(Frame), NEW v \in Seq(Frame), Len(st) >= 2, Len(v) = Len(st) + 1,
         \A k \in 1 .. Len(st) - 1 : v[k] = st[k],
         v[Len(st)].kind = st[Len(st)].kind, v[Len(st)].left = st[Len(st)].left - 1,
         st[Len(st)].kind \in {"seq", "map"},
         v[Len(v)].kind \in Newtypes \ {"RTID"}, v[Len(v)].left = 1,
         NEW s, View(st, s), ~KeyDue(s)
  PROVE  View(v, s)
<1> DEFINE d == Len(st)
<1>1. d \in Nat /\ st[d] \in Frame
  OBVIOUS
<1>2. st[d].left \in Nat
  BY <1>1 DEF Frame
<1>3. ~Inside(st) /\ ~Owes(st) /\ Depth(st) = d /\ Inside(v) /\ Owes(v) /\ Depth(v) = d
  BY DEF Inside, Owes, Depth, Newtypes, VarInts
<1>4. /\ Len(s) = d - 1
      /\ \A i \in 2 .. d : /\ s[i - 1].kind = st[i].kind
                            /\ s[i - 1].left = IF st[i].kind = "map" THEN st[i].left % 2 ELSE st[i].left
  BY <1>3 DEF View, Left
<1>5. ASSUME NEW i \in 2 .. d PROVE v[i].kind = st[i].kind /\ Left(v, i) = st[i].left
  <2>1. CASE i = d
    BY <1>1, <1>2, <1>3, <2>1 DEF Left
  <2>2. CASE i # d
    <3>1. i \in 1 .. Len(st) - 1
      BY <1>1, <2>2
    <3>2. QED BY <1>3, <2>2, <3>1 DEF Left
  <2>3. QED BY <2>1, <2>2
<1>6. \A i \in 2 .. d : /\ s[i - 1].kind = v[i].kind
                        /\ s[i - 1].left = IF v[i].kind = "map" THEN Left(v, i) % 2 ELSE Left(v, i)
  BY <1>4, <1>5, SMTT(30)
<1>7. Len(s) = Depth(v) - 1 /\ Depth(v) >= 2
  BY <1>3, <1>4
<1>8. QED BY <1>3, <1>6, <1>7 DEF View

LEMMA ViewRtid ==
  ASSUME NEW u, NEW v, Len(u) \in Nat, Len(u) >= 2, Len(v) = Len(u) + 1,
         \A k \in 1 .. Len(u) : v[k] = u[k], ~Inside(u), v[Len(v)].kind = "RTID",
         NEW s, View(u, s)
  PROVE  View(v, s)
<1>1. Inside(v) /\ ~Owes(v) /\ Depth(v) = Len(u) /\ ~Owes(u) /\ Depth(u) = Len(u)
  BY DEF Inside, Owes, Depth, Newtypes
<1>2. \A i \in 2 .. Len(u) : v[i] = u[i]
  OBVIOUS
<1>3. QED BY <1>1, <1>2 DEF View, Left

(* The end of a newtype and of a container.                                *)
LEMMA ViewUnwrap ==
  ASSUME NEW st, NEW u, Len(st) \in Nat, Len(st) >= 2, Len(u) = Len(st) - 1,
         \A k \in 1 .. Len(u) : u[k] = st[k],
         Inside(st), ~Owes(st), ~Inside(u), NEW s, View(st, s)
  PROVE  View(u, s)
<1>1. Depth(st) = Len(st) - 1 /\ ~Owes(u) /\ Depth(u) = Len(st) - 1
  BY DEF Inside, Owes, Depth
<1>2. \A i \in 2 .. Len(st) - 1 : u[i] = st[i]
  OBVIOUS
<1>3. QED BY <1>1, <1>2 DEF View, Left

LEMMA ViewPop ==
  ASSUME NEW st, NEW u, Len(st) \in Nat, Len(st) >= 2, Len(u) = Len(st) - 1,
         \A k \in 1 .. Len(u) : u[k] = st[k],
         ~Inside(st), ~Inside(u), NEW s \in Seq(RFrame), View(st, s)
  PROVE  /\ s # <<>> /\ s[Len(s)].kind = st[Len(st)].kind
         /\ s[Len(s)].left = IF st[Len(st)].kind = "map" THEN st[Len(st)].left % 2 ELSE st[Len(st)].left
         /\ SubSeq(s, 1, Len(s) - 1) \in Seq(RFrame) /\ View(u, SubSeq(s, 1, Len(s) - 1))
<1>1. Depth(st) = Len(st) /\ ~Owes(st) /\ ~Owes(u) /\ Depth(u) = Len(st) - 1
  BY DEF Inside, Owes, Depth
<1>2. /\ Len(s) = Len(st) - 1
      /\ \A i \in 2 .. Len(st) : /\ s[i - 1].kind = st[i].kind
                                  /\ s[i - 1].left = IF st[i].kind = "map" THEN st[i].left % 2 ELSE st[i].left
  BY <1>1 DEF View, Left
<1>3. /\ s # <<>> /\ s[Len(s)].kind = st[Len(st)].kind
      /\ s[Len(s)].left = IF st[Len(st)].kind = "map" THEN st[Len(st)].left % 2 ELSE st[Len(st)].left
  BY <1>2
<1>4. PICK t : t = SubSeq(s, 1, Len(s) - 1)
  OBVIOUS
<1>5. t \in Seq(RFrame) /\ Len(t) = Len(s) - 1 /\ \A i \in 1 .. Len(s) - 1 : t[i] = s[i]
  BY <1>2, <1>4
<1>6. ASSUME NEW i \in 2 .. Len(st) - 1
      PROVE  /\ t[i - 1].kind = u[i].kind
             /\ t[i - 1].left = IF u[i].kind = "map" THEN u[i].left % 2 ELSE u[i].left
  <2>1. i - 1 \in 1 .. Len(s) - 1 /\ i \in 1 .. Len(u) /\ i \in 2 .. Len(st)
    BY <1>2
  <2>2. t[i - 1] = s[i - 1] /\ u[i] = st[i]
    BY <1>5, <2>1
  <2>3. QED BY <1>2, <2>1, <2>2
<1>7. View(u, t)
  BY <1>1, <1>2, <1>5, <1>6 DEF View, Left
<1>8. QED BY <1>3, <1>4, <1>5, <1>7
-----------------------------------------------------------------------------
(* A newtype has its one call to make; the body of an RTID is that of the  *)
(* RTID recorded last, and some of its tokens may be missing.              *)
Contents ==
  /\ Top.kind = "DirectStr" => Len(Top.todo) = 1 /\ Top.todo[1].call = "str"
  /\ Top.kind = "RTID" => wrote[Len(wrote)].is.call = "rtid" /\ Top.todo = RtidBody(wrote[Len(wrote)].is.rtid)
Missing == IF Top.kind = "RTID" THEN Top.left ELSE 0
RootDue == /\ stack[1].left = IF wrote = <<>> THEN 1 ELSE 0
           /\ is_root <=> wrote = <<>>
Header  == [tag |-> "(header)", version |-> "standard"]

(* The stream is laid out value by value, and the values nest as the       *)
(* writer's stack says; a finished file ends with a footer, one that was   *)
(* broken off perhaps with a torn token.                                   *)
Written(at, sh, solid) ==
  /\ solid \in Nat /\ Layout(wrote, out, origin, at, solid) /\ Shapes(wrote, sh)
  /\ solid >= 1 => out[1] = Header
  /\ result = "new" => /\ wrote = <<>> /\ out = <<>> /\ solid = 0 /\ is_root
                       /\ stack = <<[kind |-> "doc", left |-> 1, todo |-> <<>>]>>
  /\ result = "run" => /\ solid = Len(out) /\ solid >= 1
                       /\ at[Len(wrote)] = solid + 1 + Missing
                       /\ View(stack, sh[Len(wrote)]) /\ RootDue /\ Contents
  /\ result = "ok"  => /\ Len(out) = solid + 1 /\ solid >= 1 /\ out[Len(out)].tag = "(footer)"
                       /\ at[Len(wrote)] = solid + 1
                       /\ wrote # <<>> /\ sh[Len(wrote)] = <<>>
  /\ result = "err" => /\ \/ Len(out) = solid
                          \/ Len(out) = solid + 1 /\ out[Len(out)].tag = "(torn)"
                       /\ IF solid = 0 THEN wrote = <<>>
                          ELSE wrote # <<>> /\ at[Len(wrote)] >= solid + 1
SInv == \E at, sh, solid : Written(at, sh, solid)
-----------------------------------------------------------------------------
(* The innermost frame counts off a call.                                  *)
LEMMA UsedIs ==
  ASSUME TypeOK, StackOK, result = "run", Top.left > 0
  PROVE  /\ Used \in Seq(Frame) /\ Len(Used) = Len(stack)
         /\ \A k \in 1 .. Len(stack) - 1 : Used[k] = stack[k]
         /\ Used[Len(stack)].kind = Top.kind /\ Used[Len(stack)].todo = Top.todo
         /\ Used[Len(stack)].left = Top.left - 1
<1>1. /\ Len(stack) \in Nat /\ Len(stack) >= 1 /\ stack \in Seq(Frame)
      /\ Top \in Frame /\ Top = stack[Len(stack)] /\ Top.left \in Nat
  BY TopTyped DEF TypeOK
<1> DEFINE f == [Top EXCEPT !.left = @ - 1]
<1>2. f \in Frame /\ f.kind = Top.kind /\ f.todo = Top.todo /\ f.left = Top.left - 1
  <2>1. PICK k, l, t : Top = [kind |-> k, left |-> l, todo |-> t] /\ l \in Nat
    BY <1>1 DEF Frame
  <2>2. f = [kind |-> k, left |-> l - 1, todo |-> t] /\ l > 0
    BY <2>1
  <2>3. QED BY <1>1, <2>1, <2>2 DEF Frame
<1>3. Used = [stack EXCEPT ![Len(stack)] = f]
  BY <1>1 DEF Used
<1>. HIDE DEF f
<1>4. QED BY <1>1, <1>2, <1>3

(* What the innermost frame can be.                                        *)
LEMMA TopKind ==
  ASSUME TypeOK, StackOK, result = "run", NEW s \in Seq(RFrame), View(stack, s)
  PROVE  \/ Len(stack) = 1 /\ Top.kind = "doc"
         \/ Len(stack) >= 2 /\ Top.kind \in {"seq", "map"}
         \/ Len(stack) >= 3 /\ Top.kind \in Newtypes
<1>1. Len(stack) \in Nat /\ Len(stack) >= 1 /\ Top = stack[Len(stack)] /\ stack[1].kind = "doc"
  BY TopTyped DEF StackOK
<1>2. CASE Top.kind \in Newtypes
  BY <1>1, <1>2 DEF View, Inside, Depth
<1>3. CASE Top.kind \notin Newtypes /\ Len(stack) >= 2
  <2>1. Depth(stack) = Len(stack) /\ Len(s) = Len(stack) - 1
    BY <1>1, <1>3 DEF View, Inside, Depth
  <2>2. s[Len(stack) - 1].kind = Top.kind
    BY <1>1, <1>3, <2>1 DEF View
  <2>3. s[Len(stack) - 1] \in RFrame
    BY <1>1, <1>3, <2>1
  <2>4. QED BY <1>3, <2>2, <2>3 DEF RFrame
<1>4. CASE Top.kind \notin Newtypes /\ Len(stack) = 1
  BY <1>1, <1>4
<1>5. \A n \in Nat : n >= 1 => n = 1 \/ n >= 2
  OBVIOUS
<1>6. QED BY <1>1, <1>2, <1>3, <1>4, <1>5

(* Once the root is open something has been recorded.                      *)
LEMMA RootOpen ==
  ASSUME TypeOK, StackOK, result = "run", NEW at, NEW sh, NEW solid, Written(at, sh, solid)
  PROVE  /\ sh[Len(wrote)] \in Seq(RFrame) /\ Len(wrote) \in Nat
         /\ wrote = <<>> <=> Len(wrote) = 0
         /\ Len(stack) >= 2 => wrote # <<>> /\ stack[1].left = 0 /\ ~is_root
<1>1. Len(wrote) \in Nat /\ (wrote = <<>> <=> Len(wrote) = 0)
  BY DEF TypeOK
<1>2. sh[Len(wrote)] \in Seq(RFrame) /\ sh[0] = <<>> /\ View(stack, sh[Len(wrote)]) /\ RootDue
  BY <1>1 DEF Written, Shapes
<1>3. ASSUME Len(stack) >= 2 PROVE wrote # <<>>
  <2>1. \/ Len(stack) = 1 /\ Top.kind = "doc"
        \/ Len(stack) >= 2 /\ Top.kind \in {"seq", "map"}
        \/ Len(stack) >= 3 /\ Top.kind \in Newtypes
    BY <1>2, TopKind
  <2>2. Len(stack) \in Nat /\ Top = stack[Len(stack)]
    BY TopTyped
  <2>3. Depth(stack) >= 2
    BY <1>3, <2>1, <2>2 DEF Depth, Inside, Newtypes, VarInts
  <2>4. Len(sh[Len(wrote)]) >= 1
    BY <1>2, <2>2, <2>3 DEF View, Depth
  <2>5. QED BY <1>1, <1>2, <2>4
<1>4. QED BY <1>1, <1>2, <1>3 DEF RootDue
-----------------------------------------------------------------------------
(* A call is recorded and its first tokens, or all of them, follow.        *)
Spells(c, toks) == \A k \in 1 .. Len(toks) : Encodes(c, toks[k], k - 1)

LEMMA ValueGrows ==
  ASSUME TypeOK, TypeOK', NEW at, NEW sh, NEW solid, Written(at, sh, solid),
         result = "run", result' = "run", Top.kind # "RTID",
         NEW c \in Call, Record(c), NEW toks \in Seq(Token), Emit(toks),
         NEW weight \in Nat, weight = Weight(Len(wrote) + 1, c), Len(toks) <= weight,
         Spells(c, toks),
         Legal(Len(wrote) + 1, sh[Len(wrote)], c), Shape(sh[Len(wrote)], c) \in Seq(RFrame),
         View(stack', Shape(sh[Len(wrote)], c)), stack'[1].left = 0, ~is_root', Contents',
         Missing' = weight - Len(toks)
  PROVE  SInv'
<1> DEFINE n == Len(wrote')
           more == Len(toks)
<1>1. /\ Extended /\ n = Len(wrote) + 1 /\ wrote'[n].is = c
      /\ wrote' \in Seq(Entry) /\ Len(wrote) \in Nat /\ n \in Nat /\ more \in Nat
      /\ \A i \in 1 .. Len(wrote) : wrote'[i] = wrote[i]
  <2>1. Extended /\ n = Len(wrote) + 1 /\ wrote'[n].is = c
    BY LastRecorded
  <2>2. wrote' \in Seq(Entry) /\ Len(wrote) \in Nat /\ Len(wrote') \in Nat /\ Len(toks) \in Nat
    <3>1. wrote \in Seq(Entry) /\ wrote' \in Seq(Entry)
      BY DEF TypeOK
    <3>2. QED BY <3>1
  <2>3. QED BY <2>1, <2>2 DEF Extended
<1>2. /\ Grown(toks) /\ \A i \in Len(out) + 1 .. Len(out') : origin'[i] = n
  BY <1>1, EmitProps
<1>3. /\ Len(out) \in Nat /\ Len(out') = Len(out) + more
      /\ \A k \in 1 .. Len(out) : out'[k] = out[k] /\ origin'[k] = origin[k]
      /\ \A k \in Len(out) + 1 .. Len(out') : out'[k] = toks[k - Len(out)]
  BY <1>2, GrownProps DEF Grown
<1>4. /\ solid \in Nat /\ Layout(wrote, out, origin, at, solid) /\ Shapes(wrote, sh)
      /\ solid = Len(out) /\ solid >= 1 /\ out[1] = Header /\ at[Len(wrote)] = solid + 1
  BY DEF Written, Missing
<1>6. \A i \in solid + 1 .. Len(out') : Encodes(c, out'[i], i - (solid + 1)) /\ origin'[i] = n
  <2> SUFFICES ASSUME NEW i \in solid + 1 .. Len(out')
               PROVE  Encodes(c, out'[i], i - (solid + 1)) /\ origin'[i] = n
    OBVIOUS
  <2>1. i \in Len(out) + 1 .. Len(out') /\ i - Len(out) \in 1 .. more /\ (i - Len(out)) - 1 = i - (solid + 1)
    BY <1>1, <1>3, <1>4
  <2>2. out'[i] = toks[i - Len(out)] /\ origin'[i] = n
    BY <1>2, <1>3, <2>1
  <2>3. Encodes(c, toks[i - Len(out)], (i - Len(out)) - 1)
    BY <2>1 DEF Spells
  <2>4. QED BY <2>1, <2>2, <2>3
<1>7. PICK a : Layout(wrote', out', origin', a, solid + more) /\ a[n] = solid + 1 + weight
  <2>1. Keeps(solid) /\ Adds(c, solid)
    BY <1>3, <1>4, <1>6 DEF Keeps, Adds
  <2>2. Len(out') - solid \in 0 .. Weight(Len(wrote'), c) /\ Len(out') \in Nat
    BY <1>1, <1>3, <1>4
  <2>3. \E a : Layout(wrote', out', origin', a, Len(out')) /\ a[Len(wrote')] = solid + 1 + Weight(Len(wrote'), c)
    BY <1>1, <1>4, <2>1, <2>2, LayoutGrows
  <2>4. QED BY <1>1, <1>3, <1>4, <2>3
<1>8. PICK f : Shapes(wrote', f) /\ f[n] = Shape(sh[Len(wrote)], c)
  <2>1. /\ Len(wrote) \in Nat /\ Len(wrote') = Len(wrote) + 1 /\ \A i \in 1 .. Len(wrote) : wrote'[i] = wrote[i]
        /\ Shapes(wrote, sh) /\ c = wrote'[Len(wrote')].is /\ Legal(Len(wrote'), sh[Len(wrote)], c)
        /\ Shape(sh[Len(wrote)], c) \in Seq(RFrame)
    BY <1>1, <1>4
  <2>2. QED BY <2>1, ShapesGrow
<1>9. /\ solid + more \in Nat /\ out'[1] = Header /\ solid + more = Len(out') /\ solid + more >= 1
      /\ a[n] = (solid + more) + 1 + Missing'
  BY <1>1, <1>3, <1>4, <1>7
<1>10. RootDue'
  BY <1>1 DEF RootDue
<1>11. Written(a, f, solid + more)'
  BY <1>7, <1>8, <1>9, <1>10 DEF Written
<1>12. QED BY <1>11 DEF SInv
-----------------------------------------------------------------------------
(* A call that is counted off in a container, or made by a VarInt or       *)
(* DirectStr newtype.                                                      *)
LEMMA ValueTurn ==
  ASSUME TypeOK, StackOK, FlagsOK, Contents, NEW s \in Seq(RFrame), View(stack, s),
         NEW c, MayCall(c), Top.kind \notin {"doc", "RTID"}
  PROVE  /\ Len(stack) >= 2 /\ s # <<>> /\ (s[Len(s)].kind = "seq" => s[Len(s)].left > 0)
         /\ KeyDue(s) => c.call = "str"
         /\ Tick(s) \in Seq(RFrame) /\ View(Used, Tick(s))
<1>1. result = "run" /\ Top.left > 0
  BY DEF MayCall
<1>2. /\ Len(stack) \in Nat /\ stack \in Seq(Frame) /\ Top = stack[Len(stack)]
      /\ Top.left \in Nat /\ Top.todo \in Seq(BodyCall)
  BY <1>1, TopTyped DEF TypeOK
<1>3. \/ Len(stack) >= 2 /\ Top.kind \in {"seq", "map"}
      \/ Len(stack) >= 3 /\ Top.kind \in Newtypes
  BY <1>1, TopKind
<1>4. PICK u : u = Used
  OBVIOUS
<1>5. /\ u \in Seq(Frame) /\ Len(u) = Len(stack)
      /\ \A k \in 1 .. Len(stack) - 1 : u[k] = stack[k]
      /\ u[Len(stack)].kind = stack[Len(stack)].kind
      /\ u[Len(stack)].left = stack[Len(stack)].left - 1
  BY <1>1, <1>2, <1>4, UsedIs
<1>6. CASE Top.kind \in {"seq", "map"}
  <2>1. stack[Len(stack)].kind \in {"seq", "map"} /\ stack[Len(stack)].left > 0 /\ Len(stack) >= 2
    BY <1>1, <1>2, <1>3, <1>6
  <2>2. /\ s # <<>> /\ (s[Len(s)].kind = "seq" => s[Len(s)].left > 0)
        /\ KeyDue(s) <=> stack[Len(stack)].kind = "map" /\ stack[Len(stack)].left % 2 = 0
        /\ Tick(s) \in Seq(RFrame) /\ View(u, Tick(s))
    BY <1>2, <1>5, <2>1, ViewUsed
  <2>3. ASSUME Top.kind = "map", Top.left % 2 = 0 PROVE c.call = "str"
    BY <2>3 DEF MayCall, InNewtype, Newtypes, VarInts
  <2>4. QED BY <1>2, <1>4, <2>1, <2>2, <2>3
<1>7. CASE Top.kind \in Newtypes
  <2>1. Len(Top.todo) = 1
    BY <1>1, <1>7 DEF FlagsOK, Contents, Newtypes
  <2>2. Top.left <= Len(Top.todo)
    BY <1>1, <1>2, <1>3, <1>7 DEF StackOK
  <2>3. stack[Len(stack)].left = 1 /\ u[Len(stack)].left = 0 /\ stack[Len(stack)].kind \in Newtypes \ {"RTID"}
        /\ Len(stack) >= 2
    BY <1>1, <1>2, <1>3, <1>5, <1>7, <2>1, <2>2
  <2>4. /\ s # <<>> /\ (s[Len(s)].kind = "seq" => s[Len(s)].left > 0) /\ ~KeyDue(s)
        /\ Tick(s) \in Seq(RFrame) /\ View(u, Tick(s))
    BY <1>2, <1>5, <2>3, ViewInner
  <2>5. QED BY <1>4, <2>3, <2>4
<1>8. QED BY <1>3, <1>6, <1>7

(* What a call finds: the frames to be, and where the tokens are.          *)
LEMMA AtWork ==
  ASSUME IInv, WInv, result = "run", NEW at, NEW sh, NEW solid, Written(at, sh, solid)
  PROVE  /\ TypeOK /\ StackOK /\ FlagsOK /\ Contents
         /\ sh[Len(wrote)] \in Seq(RFrame) /\ View(stack, sh[Len(wrote)])
         /\ Len(stack) >= 2 => wrote # <<>> /\ Len(wrote) \in Nat \ {0} /\ stack[1].left = 0 /\ ~is_root
<1>1. TypeOK /\ StackOK /\ FlagsOK
  BY DEF IInv, WInv
<1>2. Contents /\ View(stack, sh[Len(wrote)])
  BY DEF Written
<1>3. QED BY <1>1, <1>2, RootOpen

(* The root is a map, and nothing else is called by the document.          *)
LEMMA NotDoc ==
  ASSUME Readable, NEW c, MayCall(c), c.call # "map"
  PROVE  Top.kind # "doc"
BY DEF Readable, MayCall, InNewtype, Newtypes, VarInts

(* What is recorded and emitted is typed, since the outcome is.            *)
LEMMA Recorded == ASSUME TypeOK, TypeOK', NEW c, Record(c), Top.kind # "RTID" PROVE c \in Call
<1>1. Len(wrote') = Len(wrote) + 1 /\ wrote'[Len(wrote')].is = c
  BY LastRecorded
<1>2. wrote' \in Seq(Entry) /\ Len(wrote) \in Nat
  BY DEF TypeOK
<1>3. wrote'[Len(wrote')] \in Entry
  BY <1>1, <1>2
<1>4. QED BY <1>1, <1>3 DEF Entry

LEMMA JoinOne == \A S : \A s \in Seq(S), t \in S : Len(s \o <<t>>) = Len(s) + 1 /\ (s \o <<t>>)[Len(s) + 1] = t
OBVIOUS

LEMMA Emitted == ASSUME TypeOK, TypeOK', NEW t, Emit(<<t>>) PROVE t \in Token
<1>1. out \in Seq(Token) /\ out' \in Seq(Token) /\ Len(out) \in Nat /\ out' = out \o <<t>>
  BY DEF TypeOK, Emit
<1>2. PICK S : S = Token \cup {t}
  OBVIOUS
<1>3. out \in Seq(S) /\ t \in S
  BY <1>1, <1>2
<1>4. Len(out') = Len(out) + 1 /\ out'[Len(out) + 1] = t
  BY <1>1, <1>3, JoinOne
<1>5. QED BY <1>1, <1>4

(* A value of one token.                                                   *)
Scalars == {"bool", "float", "none", "bytes", "int", "str"}

LEMMA ScalarGrows ==
  ASSUME IInv, IInv', WInv, Readable, NEW at, NEW sh, NEW solid, Written(at, sh, solid),
         NEW c, c.call \in Scalars, MayCall(c), Top.kind # "RTID",
         NEW t, Encodes(c, t, 0), Record(c), Emit(<<t>>), stack' = Used, UNCHANGED <<result, is_root>>
  PROVE  SInv'
<1> DEFINE s    == sh[Len(wrote)]
           toks == <<t>>
<1>1. result = "run" /\ Top.left > 0 /\ TypeOK'
  BY DEF MayCall, IInv
<1>2. /\ TypeOK /\ StackOK /\ FlagsOK /\ Contents /\ s \in Seq(RFrame) /\ View(stack, s)
      /\ Len(stack) >= 2 => wrote # <<>> /\ Len(wrote) \in Nat \ {0} /\ stack[1].left = 0 /\ ~is_root
  BY <1>1, AtWork
<1>0. c \in Call /\ t \in Token
  BY <1>1, <1>2, Recorded, Emitted
<1>3. Top.kind # "doc"
  BY NotDoc DEF Scalars
<1>4. /\ Len(stack) >= 2 /\ s # <<>> /\ (s[Len(s)].kind = "seq" => s[Len(s)].left > 0)
      /\ KeyDue(s) => c.call = "str"
      /\ Tick(s) \in Seq(RFrame) /\ View(Used, Tick(s))
  BY <1>2, <1>3, ValueTurn
<1>5. /\ Len(stack') = Len(stack) /\ stack'[Len(stack)].kind = Top.kind /\ stack'[Len(stack)].todo = Top.todo
      /\ \A k \in 1 .. Len(stack) - 1 : stack'[k] = stack[k]
  BY <1>1, <1>2, UsedIs
<1>6. Len(stack) \in Nat
  BY <1>1, <1>2, TopTyped
<1>7. Top'.kind = Top.kind /\ Top'.todo = Top.todo /\ stack'[1].left = 0
  BY <1>2, <1>4, <1>5, <1>6 DEF Top
<1>8. Contents' /\ Missing' = 0
  BY <1>2, <1>7 DEF Contents, Missing
<1>9. Weight(Len(wrote) + 1, c) = 1
  BY DEF Weight, Scalars
<1>10. Legal(Len(wrote) + 1, s, c) /\ Shape(s, c) = Tick(s)
  BY <1>2, <1>4 DEF Legal, Told, Shape, Scalars
<1>11. toks \in Seq(Token) /\ Len(toks) = 1 /\ Spells(c, toks) /\ Emit(toks)
  BY <1>0 DEF Spells
<1>. HIDE DEF toks
<1>12. Missing' = 1 - Len(toks) /\ Len(toks) <= 1
  BY <1>8, <1>11
<1>13. View(stack', Shape(s, c)) /\ Shape(s, c) \in Seq(RFrame) /\ result' = "run" /\ ~is_root'
  BY <1>1, <1>2, <1>4, <1>10
<1>14. QED BY <1>0, <1>1, <1>2, <1>7, <1>8, <1>9, <1>10, <1>11, <1>12, <1>13, ValueGrows

(* The calls of the body of the RTID recorded last, in turn.               *)
LEMMA BodyTurn ==
  ASSUME TypeOK, StackOK, FlagsOK, Contents, NEW c, MayCall(c), Top.kind = "RTID"
  PROVE  \E r \in Rtids :
           /\ Len(wrote) \in Nat \ {0} /\ wrote[Len(wrote)].is.call = "rtid" /\ wrote[Len(wrote)].is.rtid = r
           /\ Top.left \in 1 .. Len(RtidBody(r))
           /\ c = RtidBody(r)[Len(RtidBody(r)) - Top.left + 1]
           /\ c.call \in {"unit_variant", "str", "number"}
<1> DEFINE e == wrote[Len(wrote)].is
<1>1. result = "run" /\ Top.left > 0
  BY DEF MayCall
<1>2. /\ Len(stack) \in Nat /\ Len(stack) >= 1 /\ stack \in Seq(Frame) /\ Top = stack[Len(stack)]
      /\ Top.left \in Nat /\ Top.todo \in Seq(BodyCall)
  BY <1>1, TopTyped DEF TypeOK
<1>3. Len(wrote) \in Nat \ {0} /\ e.call = "rtid" /\ Top.todo = RtidBody(e.rtid)
  BY <1>1 DEF FlagsOK, Contents, TypeOK
<1>4. e.rtid \in Rtids
  <2>1. wrote[Len(wrote)] \in Entry
    BY <1>3 DEF TypeOK
  <2>2. e \in Call
    BY <2>1 DEF Entry
  <2>3. QED BY <1>3, <2>2 DEF Call, BodyCall
<1>5. PICK r \in Rtids : r = e.rtid
  BY <1>4
<1>6. Top.left \in 1 .. Len(RtidBody(r))
  <2>1. Top.left <= Len(Top.todo)
    BY <1>1, <1>2 DEF StackOK, Newtypes
  <2>2. QED BY <1>1, <1>2, <1>3, <1>5, <2>1
<1>7. c = RtidBody(r)[Len(RtidBody(r)) - Top.left + 1]
  BY <1>3, <1>5 DEF MayCall, InNewtype, Newtypes
<1>8. c.call \in {"unit_variant", "str", "number"}
  <2>1. Len(RtidBody(r)) - Top.left + 1 \in 1 .. Len(RtidBody(r))
    BY <1>6, BodyCalls
  <2>2. QED BY <1>7, <2>1, BodyCalls
<1>9. QED BY <1>3, <1>5, <1>6, <1>7, <1>8

(* A part of an RTID.                                                      *)
LEMMA BodyGrows ==
  ASSUME IInv, IInv', WInv, NEW at, NEW sh, NEW solid, Written(at, sh, solid),
         NEW c, MayCall(c), Top.kind = "RTID", NEW t, t = BodyTok(c),
         Record(c), Emit(<<t>>), stack' = Used, UNCHANGED <<result, is_root>>
  PROVE  SInv'
<1> DEFINE s    == sh[Len(wrote)]
           toks == <<t>>
<1>1. result = "run" /\ result' = "run" /\ Top.left > 0 /\ TypeOK' /\ wrote' = wrote
  BY DEF MayCall, IInv, Record
<1>2. /\ TypeOK /\ StackOK /\ FlagsOK /\ Contents /\ s \in Seq(RFrame) /\ View(stack, s)
      /\ Len(stack) >= 2 => wrote # <<>> /\ Len(wrote) \in Nat \ {0} /\ stack[1].left = 0 /\ ~is_root
  BY <1>1, AtWork
<1>3. PICK r \in Rtids :
           /\ Len(wrote) \in Nat \ {0} /\ wrote[Len(wrote)].is.call = "rtid" /\ wrote[Len(wrote)].is.rtid = r
           /\ Top.left \in 1 .. Len(RtidBody(r))
           /\ c = RtidBody(r)[Len(RtidBody(r)) - Top.left + 1]
           /\ c.call \in {"unit_variant", "str", "number"}
  BY <1>2, BodyTurn
<1>4. /\ Len(stack) \in Nat /\ Len(stack) >= 1 /\ stack \in Seq(Frame) /\ Top = stack[Len(stack)]
      /\ Top.left \in Nat /\ Len(stack) >= 2
  BY <1>1, <1>2, TopTyped, TopKind, SMTT(30) DEF TypeOK
<1>5. /\ stack' \in Seq(Frame) /\ Len(stack') = Len(stack)
      /\ \A k \in 1 .. Len(stack) - 1 : stack'[k] = stack[k]
      /\ stack'[Len(stack)].kind = Top.kind /\ stack'[Len(stack)].todo = Top.todo
      /\ stack'[Len(stack)].left = Top.left - 1
  BY <1>1, <1>2, UsedIs
<1>6. Top'.kind = "RTID" /\ Top'.todo = Top.todo /\ Top'.left = Top.left - 1 /\ stack'[1].left = stack[1].left
  BY <1>4, <1>5 DEF Top
<1>7. View(stack', s)
  <2>1. PICK u : u = stack'
    OBVIOUS
  <2>2. /\ u \in Seq(Frame) /\ Len(stack) >= 1 /\ Len(u) = Len(stack)
        /\ \A k \in 1 .. Len(stack) - 1 : u[k] = stack[k]
        /\ u[Len(stack)].kind = "RTID" /\ stack[Len(stack)].kind = "RTID"
    BY <1>4, <1>5, <2>1
  <2>3. View(u, s)
    BY <1>2, <1>4, <2>2, ViewBody
  <2>4. QED BY <2>1, <2>3
<1>8. Contents' /\ Missing = Top.left /\ Missing' = Top.left - 1 /\ RootDue'
  BY <1>1, <1>2, <1>6 DEF Contents, Missing, RootDue, Written
<1>9. /\ Extended /\ toks \in Seq(Token) /\ Len(toks) = 1 /\ toks[1] = t /\ Emit(toks)
  BY <1>1, <1>2, Emitted DEF Extended, TypeOK
<1>. HIDE DEF toks
<1>10. /\ Grown(toks) /\ \A i \in Len(out) + 1 .. Len(out') : origin'[i] = Len(wrote')
  BY <1>2, <1>9, EmitProps
<1>11. /\ Len(out) \in Nat /\ Len(out') = Len(out) + 1
       /\ \A k \in 1 .. Len(out) : out'[k] = out[k] /\ origin'[k] = origin[k]
       /\ \A k \in Len(out) + 1 .. Len(out') : out'[k] = toks[k - Len(out)]
  BY <1>1, <1>2, <1>9, <1>10, GrownProps DEF Grown
<1>12. /\ solid \in Nat /\ Layout(wrote, out, origin, at, solid) /\ Shapes(wrote, sh)
       /\ solid = Len(out) /\ solid >= 1 /\ out[1] = Header /\ at[Len(wrote)] = solid + 1 + Top.left
  BY <1>1, <1>8 DEF Written
<1>13. Keeps(solid) /\ out'[solid + 1] = t /\ origin'[solid + 1] = Len(wrote)
  <2>1. solid + 1 \in Len(out) + 1 .. Len(out') /\ (solid + 1) - Len(out) = 1
    BY <1>11, <1>12
  <2>2. QED BY <1>1, <1>9, <1>10, <1>11, <1>12, <2>1 DEF Keeps
<1>14. Encodes(wrote[Len(wrote)].is, out'[solid + 1], solid + 1 - at[Len(wrote) - 1])
  <2>0. PICK n \in Nat \ {0} : n = Len(wrote)
    BY <1>3
  <2>1. PICK e, p, q : e = wrote[n].is /\ p = at[n - 1] /\ q = at[n]
    OBVIOUS
  <2>2. q = p + Weight(n, e) /\ p \in Nat /\ q \in Nat
    <3>1. n \in 1 .. Len(wrote) /\ n \in 0 .. Len(wrote) /\ n - 1 \in 0 .. Len(wrote)
      BY <2>0
    <3>2. at \in [0 .. Len(wrote) -> Nat \ {0}] /\ at[n] = at[n - 1] + Weight(n, wrote[n].is)
      BY <1>12, <3>1 DEF Layout
    <3>3. QED BY <2>0, <2>1, <3>1, <3>2
  <2>3. PICK b \in Nat, l \in Nat : b = Len(RtidBody(r)) /\ l = Top.left
    BY <1>3, <1>4, BodyCalls
  <2>4. Weight(n, e) = 1 + b /\ l \in 1 .. b /\ q = solid + 1 + l /\ e.call = "rtid" /\ e.rtid = r
    BY <1>3, <1>12, <2>0, <2>1, <2>3 DEF Weight
  <2>5. solid + 1 - p = b - l + 1 /\ b - l + 1 # 0
    BY <1>12, <2>2, <2>3, <2>4, SMTT(30)
  <2>6. c = RtidBody(r)[b - l + 1]
    BY <1>3, <2>3
  <2>7. Encodes(e, t, b - l + 1)
    BY <2>4, <2>5, <2>6 DEF Encodes
  <2>8. QED BY <1>13, <2>0, <2>1, <2>5, <2>7
<1>15. Layout(wrote, out', origin', at, solid + 1)
  <2>1. solid \in Nat /\ wrote \in Seq(Entry) /\ Len(wrote) \in Nat \ {0}
    BY <1>2, <1>3, <1>12 DEF TypeOK
  <2>2. at[Len(wrote)] > solid + 1
    <3>1. PICK l \in Nat : l = Top.left /\ l >= 1
      BY <1>1, <1>4
    <3>2. QED BY <1>12, <3>1
  <2>3. QED BY <1>12, <1>13, <1>14, <2>1, <2>2, LayoutFills
<1>16. /\ Len(out') = solid + 1 /\ out'[1] = Header /\ at[Len(wrote)] = (solid + 1) + 1 + Missing'
       /\ solid + 1 \in Nat /\ solid + 1 >= 1
  <2>1. PICK l \in Nat : l = Top.left
    BY <1>4
  <2>2. Len(out') = solid + 1 /\ at[Len(wrote)] = solid + 1 + l /\ Missing' = l - 1 /\ solid \in Nat
    BY <1>8, <1>11, <1>12, <2>1
  <2>3. out'[1] = out[1]
    BY <1>11, <1>12
  <2>4. QED BY <1>12, <2>2, <2>3
<1>17. Written(at, sh, solid + 1)'
  BY <1>1, <1>7, <1>8, <1>12, <1>15, <1>16 DEF Written
<1>18. QED BY <1>17 DEF SInv
-----------------------------------------------------------------------------
(* One lemma per kind of step.                                             *)
LEMMA CallKnown ==
  ASSUME Readable, TypeOK, StackOK, FlagsOK, Contents, NEW s \in Seq(RFrame), View(stack, s),
         NEW c, MayCall(c), Top.kind # "RTID"
  PROVE  c.call \in ReadableCalls
<1>1. result = "run" /\ Top.left > 0
  BY DEF MayCall
<1>2. /\ Len(stack) \in Nat /\ Top = stack[Len(stack)] /\ Top.left \in Nat /\ Len(stack) >= 1
  BY <1>1, TopTyped
<1>3. CASE Top.kind \in Newtypes
  <2>1. Len(Top.todo) = 1 /\ Top.todo[1].call \in {"int", "str"}
    BY <1>1, <1>3 DEF FlagsOK, Contents, Newtypes
  <2>2. Top.left <= Len(Top.todo)
    BY <1>1, <1>2, <1>3 DEF StackOK
  <2>3. c = Top.todo[Len(Top.todo) - Top.left + 1]
    BY <1>3 DEF MayCall, InNewtype, Newtypes, VarInts
  <2>4. Len(Top.todo) - Top.left + 1 = 1
    BY <1>1, <1>2, <2>1, <2>2
  <2>5. QED BY <2>1, <2>3, <2>4 DEF ReadableCalls
<1>4. CASE Top.kind \notin Newtypes
  <2>1. Top.kind \in {"doc", "seq", "map"}
    BY <1>1, <1>4, TopKind
  <2>2. QED BY <1>4, <2>1 DEF MayCall, InNewtype, Readable, ReadableCalls
<1>5. QED BY <1>3, <1>4

LEMMA ScalarStream ==
  ASSUME IInv, IInv', WInv, Readable, SInv,
         \/ \E b \in BOOLEAN : serialize_bool(b)
         \/ \E ty \in {"f32", "f64"}, x \in Floats : serialize_float(ty, x)
         \/ \E b \in Blobs : serialize_bytes(b)
         \/ serialize_none
  PROVE  SInv'
<1>1. PICK at, sh, solid : Written(at, sh, solid)
  BY DEF SInv
<1>2. ASSUME NEW c, NEW t, Plain(c, t), c.call \in {"bool", "float", "bytes", "none"}, Encodes(c, t, 0) PROVE SInv'
  <2>1. TypeOK /\ StackOK /\ MayCall(c) /\ result = "run"
    BY <1>2 DEF IInv, Plain, MayCall
  <2>2. Top.kind # "RTID"
    BY <1>2, <2>1, NewtypeCalls DEF InNewtype, Newtypes
  <2>3. Record(c) /\ Emit(<<t>>) /\ stack' = Used /\ UNCHANGED <<result, is_root>>
    BY <1>2 DEF Plain
  <2>4. QED BY <1>1, <1>2, <2>1, <2>2, <2>3, ScalarGrows DEF Scalars
<1>3. ASSUME NEW b \in BOOLEAN, serialize_bool(b) PROVE SInv'
  BY <1>2, <1>3 DEF serialize_bool, Encodes
<1>4. ASSUME NEW ty \in {"f32", "f64"}, NEW x \in Floats, serialize_float(ty, x) PROVE SInv'
  BY <1>2, <1>4 DEF serialize_float, Encodes
<1>5. ASSUME NEW b \in Blobs, serialize_bytes(b) PROVE SInv'
  <2> DEFINE c == [call |-> "bytes", bytes |-> b]
             t == [tag |-> "BinaryBlob", hex |-> HexStr(b), declared |-> Len(b), raw |-> b]
  <2>1. Plain(c, t)
    BY <1>5 DEF serialize_bytes
  <2>2. c.call = "bytes" /\ c.bytes = b
    OBVIOUS
  <2>3. Encodes(c, t, 0)
    <3>. HIDE DEF c
    <3>1. QED BY <2>2 DEF Encodes
  <2>. HIDE DEF c, t
  <2>4. QED BY <1>2, <2>1, <2>2, <2>3
<1>6. ASSUME serialize_none PROVE SInv'
  BY <1>2, <1>6 DEF serialize_none, Encodes
<1>7. QED BY <1>3, <1>4, <1>5, <1>6

(* Parts of an RTID, which nobody else makes.                              *)
LEMMA PartStream ==
  ASSUME IInv, IInv', WInv, Readable, SInv,
         \/ \E i \in 0 .. 3 : serialize_unit_variant(i)
         \/ \E w \in {"(varint)", "(u32)"}, n \in RtidNumbers : serialize_number(w, n)
  PROVE  SInv'
<1>1. PICK at, sh, solid : Written(at, sh, solid)
  BY DEF SInv
<1>2. ASSUME NEW c, NEW t, Plain(c, t), c.call \in {"unit_variant", "number"}, pending_rtid => t = BodyTok(c)
      PROVE  SInv'
  <2>1. TypeOK /\ StackOK /\ FlagsOK /\ MayCall(c) /\ result = "run"
    BY <1>2 DEF IInv, WInv, Plain, MayCall
  <2>2. Contents /\ sh[Len(wrote)] \in Seq(RFrame) /\ View(stack, sh[Len(wrote)])
    BY <1>1, <2>1, AtWork
  <2>3. Top.kind = "RTID"
    BY <1>2, <2>1, <2>2, CallKnown DEF ReadableCalls
  <2>4. t = BodyTok(c)
    BY <1>2, <2>1, <2>3 DEF StackOK
  <2>5. Record(c) /\ Emit(<<t>>) /\ stack' = Used /\ UNCHANGED <<result, is_root>>
    BY <1>2 DEF Plain
  <2>6. QED BY <1>1, <2>1, <2>3, <2>4, <2>5, BodyGrows
<1>3. ASSUME NEW i \in 0 .. 3, serialize_unit_variant(i) PROVE SInv'
  BY <1>2, <1>3 DEF serialize_unit_variant, BodyTok
<1>4. ASSUME NEW w \in {"(varint)", "(u32)"}, NEW n \in RtidNumbers, serialize_number(w, n) PROVE SInv'
  BY <1>2, <1>4 DEF serialize_number, BodyTok
<1>5. QED BY <1>3, <1>4

LEMMA IntStream == ASSUME IInv, IInv', WInv, Readable, SInv, NEW v \in Ints, serialize_int(v) PROVE SInv'
<1> DEFINE c      == [call |-> "int", int |-> v]
           forced == pending_varint \in VarInts /\ VarIntType(pending_varint) = v.ty
           t      == IF pending_rtid /\ v.ty \in {"u32", "u64"}
                     THEN [tag |-> IF v.ty = "u32" THEN "(u32)" ELSE "(varint)", num |-> v.bits]
                     ELSE EncodeInt(v, forced)
<1>1. PICK at, sh, solid : Written(at, sh, solid)
  BY DEF SInv
<1>2. Plain(c, t)
  BY DEF serialize_int
<1>3. TypeOK /\ StackOK /\ FlagsOK /\ MayCall(c) /\ result = "run"
  BY <1>2 DEF IInv, WInv, Plain, MayCall
<1>4. Contents
  BY <1>1, <1>3, AtWork
<1>5. Top.kind # "RTID"
  BY <1>3, <1>4, BodyTurn
<1>6. t = EncodeInt(v, forced) /\ forced \in BOOLEAN
  BY <1>3, <1>5 DEF StackOK
<1>7. c.call = "int" /\ c.int = v
  OBVIOUS
<1>8. Record(c) /\ Emit(<<t>>) /\ stack' = Used /\ UNCHANGED <<result, is_root>>
  BY <1>2 DEF Plain
<1>. HIDE DEF c, t, forced
<1>9. Encodes(c, t, 0)
  BY <1>6, <1>7 DEF Encodes
<1>10. QED BY <1>1, <1>3, <1>5, <1>7, <1>8, <1>9, ScalarGrows DEF Scalars

LEMMA StrStream == ASSUME IInv, IInv', WInv, Readable, SInv, NEW s \in Strings, serialize_str(s) PROVE SInv'
<1> DEFINE c == [call |-> "str", str |-> s]
           t == StrToken(s)
<1>1. PICK at, sh, solid : Written(at, sh, solid)
  BY DEF SInv
<1>2. /\ TypeOK /\ StackOK /\ FlagsOK /\ MayCall(c) /\ result = "run"
      /\ Record(c) /\ Emit(<<t>>) /\ stack' = Used /\ UNCHANGED <<result, is_root>>
  BY DEF serialize_str, IInv, WInv, MayCall
<1>3. c.call = "str" /\ c.str = s
  OBVIOUS
<1>4. CASE Top.kind = "RTID"
  <2>1. t = BodyTok(c)
    BY <1>2, <1>4 DEF StackOK, StrToken, BodyTok
  <2>. HIDE DEF c, t
  <2>2. QED BY <1>1, <1>2, <1>4, <2>1, BodyGrows
<1>5. CASE Top.kind # "RTID"
  <2>1. IsStr(s, t)
    <3>1. ~pending_rtid
      BY <1>2, <1>5 DEF StackOK
    <3>2. CASE s \in {Asterisk, RtidNullText}
      BY <3>1, <3>2 DEF StrToken, IsStr
    <3>3. CASE s \notin {Asterisk, RtidNullText}
      <4>1. t = IF pending_direct THEN Direct(s) ELSE Interned(s)
        BY <3>1, <3>3 DEF StrToken
      <4>2. Direct(s).tag \in DirectTags /\ Direct(s).str = s
        BY DEF Direct, DirectTags
      <4>3. \/ Interned(s).tag \in ReferenceTags
            \/ Interned(s).tag \in DefinitionTags /\ Interned(s).str = s
        BY DEF Interned, ReferenceTags, DefinitionTags
      <4>4. QED BY <4>1, <4>2, <4>3 DEF IsStr
    <3>4. QED BY <3>2, <3>3
  <2>. HIDE DEF c, t
  <2>2. Encodes(c, t, 0)
    BY <1>3, <2>1 DEF Encodes
  <2>3. QED BY <1>1, <1>2, <1>3, <1>5, <2>2, ScalarGrows DEF Scalars
<1>6. QED BY <1>4, <1>5

(* Something is opened on top of the frames there are.                     *)
LEMMA OpenedIs ==
  ASSUME TypeOK, StackOK, result = "run", Top.left > 0, NEW kind, NEW n, NEW t, stack' = Opened(kind, n, t)
  PROVE  /\ Len(stack) \in Nat \ {0} /\ Used \in Seq(Frame) /\ Len(Used) = Len(stack)
         /\ Len(stack') = Len(stack) + 1
         /\ \A k \in 1 .. Len(stack) : stack'[k] = Used[k]
         /\ Top' = [kind |-> kind, left |-> n, todo |-> t] /\ stack'[Len(stack')] = Top'
         /\ Used[Len(stack)].kind = Top.kind /\ Used[Len(stack)].left = Top.left - 1
         /\ \A k \in 1 .. Len(stack) - 1 : Used[k] = stack[k]
<1>1. Len(stack) \in Nat \ {0}
  BY TopTyped
<1>2. /\ Used \in Seq(Frame) /\ Len(Used) = Len(stack)
      /\ Used[Len(stack)].kind = Top.kind /\ Used[Len(stack)].left = Top.left - 1
      /\ \A k \in 1 .. Len(stack) - 1 : Used[k] = stack[k]
  BY UsedIs
<1>3. PICK f, u : f = [kind |-> kind, left |-> n, todo |-> t] /\ u = Used
  OBVIOUS
<1>4. stack' = Append(u, f)
  BY <1>3 DEF Opened
<1>5. Len(stack') = Len(u) + 1 /\ stack'[Len(u) + 1] = f /\ \A k \in 1 .. Len(u) : stack'[k] = u[k]
  BY <1>1, <1>2, <1>3, <1>4
<1>6. QED BY <1>1, <1>2, <1>3, <1>5 DEF Top

LEMMA Opens ==
  ASSUME IInv, WInv, Readable, NEW at, NEW sh, NEW solid, Written(at, sh, solid),
         NEW c, MayCall(c), ~InNewtype, c.call \notin {"str", "end"}, Top.kind # "doc",
         NEW kind, NEW n, NEW t, stack' = Opened(kind, n, t), NEW s, s = sh[Len(wrote)]
  PROVE  /\ s \in Seq(RFrame) /\ s # <<>> /\ ~KeyDue(s) /\ (c.call \in Told => Legal(Len(wrote) + 1, s, c))
         /\ View(stack, s) /\ Len(stack) >= 2 /\ Top.kind \in {"seq", "map"}
         /\ Tick(s) \in Seq(RFrame) /\ View(Used, Tick(s)) /\ ~Inside(Used) /\ stack'[1].left = 0
         /\ Len(wrote) \in Nat \ {0} /\ wrote # <<>> /\ ~is_root
<1>1. result = "run" /\ Top.left > 0
  BY DEF MayCall
<1>2. /\ TypeOK /\ StackOK /\ FlagsOK /\ Contents /\ s \in Seq(RFrame) /\ View(stack, s)
      /\ Len(stack) >= 2 => wrote # <<>> /\ Len(wrote) \in Nat \ {0} /\ stack[1].left = 0 /\ ~is_root
  BY <1>1, AtWork
<1>3. Top.kind # "RTID"
  BY DEF InNewtype, Newtypes
<1>4. /\ Len(stack) >= 2 /\ s # <<>> /\ (s[Len(s)].kind = "seq" => s[Len(s)].left > 0)
      /\ KeyDue(s) => c.call = "str"
      /\ Tick(s) \in Seq(RFrame) /\ View(Used, Tick(s))
  BY <1>2, <1>3, ValueTurn
<1>5. /\ Len(stack) \in Nat \ {0} /\ Len(Used) = Len(stack)
      /\ \A k \in 1 .. Len(stack) : stack'[k] = Used[k]
      /\ Used[Len(stack)].kind = Top.kind /\ \A k \in 1 .. Len(stack) - 1 : Used[k] = stack[k]
  BY <1>1, <1>2, OpenedIs
<1>6. stack'[1].left = 0 /\ ~Inside(Used)
  BY <1>2, <1>4, <1>5 DEF Inside, InNewtype
<1>7. c.call \in Told => Legal(Len(wrote) + 1, s, c)
  BY <1>2, <1>4 DEF Legal
<1>8. Top.kind \in {"seq", "map"}
  BY <1>1, <1>2, <1>4, TopKind DEF InNewtype
<1>9. QED BY <1>2, <1>4, <1>6, <1>7, <1>8

LEMMA SeqStream == ASSUME IInv, IInv', WInv, Readable, SInv, NEW n \in Lens, serialize_seq(n) PROVE SInv'
<1> DEFINE c    == [call |-> "seq", len |-> n]
           toks == <<[tag |-> "ArrayBegin"], [tag |-> "ArrayCapacity", cap |-> n]>>
           r    == [kind |-> "seq", left |-> n, table |-> <<>>]
<1>1. PICK at, sh, solid : Written(at, sh, solid)
  BY DEF SInv
<1>2. PICK s : s = sh[Len(wrote)]
  OBVIOUS
<1>3. /\ TypeOK /\ TypeOK' /\ StackOK /\ MayCall(c) /\ result = "run" /\ result' = "run" /\ Top.left > 0 /\ n \in Nat
      /\ Record(c) /\ Emit(toks) /\ stack' = Opened("seq", n, <<>>) /\ is_root' = is_root
  <2>1. MayCall(c) /\ Record(c) /\ Emit(toks) /\ stack' = Opened("seq", n, <<>>)
        /\ UNCHANGED <<result, is_root>>
    BY DEF serialize_seq
  <2>2. TypeOK /\ TypeOK' /\ StackOK
    BY DEF IInv
  <2>3. n \in Nat
    BY BoundsAssumption DEF BoundsAssumption, Lens
  <2>4. result = "run" /\ Top.left > 0
    BY <2>1 DEF MayCall
  <2>5. QED BY <2>1, <2>2, <2>3, <2>4
<1>4. ~InNewtype /\ c.call = "seq" /\ c.len = n /\ Top.kind # "RTID" /\ c \in Call
  BY <1>3, NewtypeCalls DEF InNewtype, Newtypes, Call
<1>5. Top.kind # "doc"
  BY <1>3, <1>4, NotDoc
<1>6. toks \in Seq(Token) /\ Len(toks) = 2 /\ Spells(c, toks)
  <2>1. [tag |-> "ArrayBegin"] \in Token /\ [tag |-> "ArrayCapacity", cap |-> n] \in Token
    BY <1>3 DEF Token
  <2>2. toks[1] = [tag |-> "ArrayBegin"] /\ toks[2] = [tag |-> "ArrayCapacity", cap |-> n]
    OBVIOUS
  <2>3. Encodes(c, toks[1], 0) /\ Encodes(c, toks[2], 1)
    <3>. HIDE DEF c, toks
    <3>1. QED BY <1>4, <2>2 DEF Encodes
  <2>4. QED BY <2>1, <2>3 DEF Spells
<1>7. r \in RFrame /\ r.kind = "seq" /\ r.left = n
  BY <1>3 DEF RFrame
<1>8. /\ s \in Seq(RFrame) /\ s # <<>> /\ Legal(Len(wrote) + 1, s, c)
      /\ Tick(s) \in Seq(RFrame) /\ View(Used, Tick(s)) /\ ~Inside(Used) /\ stack'[1].left = 0
      /\ Len(wrote) \in Nat \ {0} /\ ~is_root
  <2>. HIDE DEF c
  <2>1. QED BY <1>1, <1>2, <1>3, <1>4, <1>5, Opens DEF Told
<1>9. /\ Len(stack) \in Nat \ {0} /\ Len(Used) = Len(stack) /\ Len(stack') = Len(Used) + 1
      /\ \A k \in 1 .. Len(stack) : stack'[k] = Used[k]
      /\ stack'[Len(stack')].kind = "seq" /\ stack'[Len(stack')].left = n /\ Top'.kind = "seq"
  BY <1>3, OpenedIs
<1>10. Append(Tick(s), r) \in Seq(RFrame) /\ View(stack', Append(Tick(s), r))
  <2>1. PICK u, v, q : u = Used /\ v = stack' /\ q = Tick(s)
    OBVIOUS
  <2>. HIDE DEF r
  <2>2. /\ Len(u) \in Nat \ {0} /\ Len(v) = Len(u) + 1 /\ \A k \in 1 .. Len(u) : v[k] = u[k]
        /\ ~Inside(u) /\ v[Len(v)].kind \in {"seq", "map"} /\ r.kind = v[Len(v)].kind
        /\ r.left = IF r.kind = "map" THEN v[Len(v)].left % 2 ELSE v[Len(v)].left
        /\ q \in Seq(RFrame) /\ View(u, q)
    BY <1>7, <1>8, <1>9, <2>1
  <2>3. Append(q, r) \in Seq(RFrame) /\ View(v, Append(q, r))
    BY <1>7, <2>2, ViewPush
  <2>4. QED BY <2>1, <2>3
<1>11. Shape(s, c) = Append(Tick(s), r)
  BY <1>8 DEF Shape, Enter
<1>12. Contents' /\ Missing' = 0 /\ Weight(Len(wrote) + 1, c) = 2
  BY <1>9 DEF Contents, Missing, Weight
<1>13. /\ Missing' = 2 - Len(toks) /\ Len(toks) <= 2 /\ 2 \in Nat /\ ~is_root'
       /\ Legal(Len(wrote) + 1, sh[Len(wrote)], c) /\ Shape(sh[Len(wrote)], c) \in Seq(RFrame)
       /\ View(stack', Shape(sh[Len(wrote)], c))
  <2>. HIDE DEF c, toks
  <2>1. Shape(sh[Len(wrote)], c) = Append(Tick(s), r) /\ Legal(Len(wrote) + 1, sh[Len(wrote)], c)
    BY <1>2, <1>8, <1>11
  <2>2. Missing' = 2 - Len(toks) /\ Len(toks) <= 2
    BY <1>6, <1>12
  <2>. HIDE DEF r
  <2>3. ~is_root'
    BY <1>3, <1>8
  <2>4. QED BY <1>10, <2>1, <2>2, <2>3
<1>. HIDE DEF c, toks
<1>14. QED BY <1>1, <1>3, <1>4, <1>6, <1>8, <1>12, <1>13, ValueGrows

LEMMA MapStream == ASSUME IInv, IInv', WInv, Readable, SInv, NEW n \in Lens, serialize_map(n) PROVE SInv'
<1> DEFINE c    == [call |-> "map", len |-> n]
           toks == IF is_root THEN <<>> ELSE <<[tag |-> "ObjectBegin"]>>
           r    == [kind |-> "map", left |-> 0, table |-> <<>>]
<1>1. PICK at, sh, solid : Written(at, sh, solid)
  BY DEF SInv
<1>2. PICK s : s = sh[Len(wrote)]
  OBVIOUS
<1>3. /\ TypeOK /\ TypeOK' /\ StackOK /\ MayCall(c) /\ result = "run" /\ result' = "run" /\ Top.left > 0 /\ n \in Nat
      /\ Record(c) /\ Emit(toks) /\ stack' = Opened("map", 2 * n, <<>>) /\ is_root' = FALSE
  <2>1. /\ MayCall(c) /\ Record(c) /\ Emit(toks) /\ stack' = Opened("map", 2 * n, <<>>) /\ is_root' = FALSE
        /\ UNCHANGED result
    BY DEF serialize_map
  <2>2. TypeOK /\ TypeOK' /\ StackOK
    BY DEF IInv
  <2>3. n \in Nat
    BY BoundsAssumption DEF BoundsAssumption, Lens
  <2>4. result = "run" /\ Top.left > 0
    BY <2>1 DEF MayCall
  <2>5. QED BY <2>1, <2>2, <2>3, <2>4
<1>4. ~InNewtype /\ c.call = "map" /\ Top.kind # "RTID" /\ c \in Call
  BY <1>3, NewtypeCalls DEF InNewtype, Newtypes, Call
<1>5. r \in RFrame /\ r.kind = "map" /\ r.left = 0
  BY DEF RFrame
<1>6. /\ Len(stack) \in Nat \ {0} /\ Len(Used) = Len(stack) /\ Len(stack') = Len(Used) + 1
      /\ \A k \in 1 .. Len(stack) : stack'[k] = Used[k]
      /\ stack'[Len(stack')].kind = "map" /\ stack'[Len(stack')].left = 2 * n /\ Top'.kind = "map"
      /\ Used[Len(stack)].kind = Top.kind /\ Used[Len(stack)].left = Top.left - 1
  BY <1>3, OpenedIs
<1>7. ASSUME NEW q \in Seq(RFrame), View(Used, q), ~Inside(Used)
      PROVE  Append(q, r) \in Seq(RFrame) /\ View(stack', Append(q, r))
  <2>1. PICK u, v : u = Used /\ v = stack'
    OBVIOUS
  <2>. HIDE DEF r
  <2>2. /\ Len(u) \in Nat \ {0} /\ Len(v) = Len(u) + 1 /\ \A k \in 1 .. Len(u) : v[k] = u[k]
        /\ ~Inside(u) /\ v[Len(v)].kind \in {"seq", "map"} /\ r.kind = v[Len(v)].kind
        /\ r.left = IF r.kind = "map" THEN v[Len(v)].left % 2 ELSE v[Len(v)].left
        /\ View(u, q)
    BY <1>3, <1>5, <1>6, <1>7, <2>1, Turns
  <2>3. Append(q, r) \in Seq(RFrame) /\ View(v, Append(q, r))
    BY <1>5, <1>7, <2>2, ViewPush
  <2>4. QED BY <2>1, <2>3
<1>8. Contents' /\ Missing' = 0
  BY <1>6 DEF Contents, Missing
<1>9. CASE Top.kind = "doc"
  <2>1. /\ View(stack, s) /\ s \in Seq(RFrame) /\ RootDue /\ Len(wrote) \in Nat
        /\ wrote = <<>> <=> Len(wrote) = 0
    BY <1>1, <1>2, <1>3, RootOpen DEF Written
  <2>2. Len(stack) = 1 /\ Top = stack[1]
    BY <1>3, <1>9, <2>1, TopKind, TopTyped DEF Newtypes, VarInts
  <2>3. wrote = <<>> /\ Len(wrote) = 0 /\ is_root /\ stack[1].left = 1
    BY <1>3, <2>1, <2>2 DEF RootDue
  <2>4. s = <<>>
    BY <1>1, <1>2, <2>3 DEF Written, Shapes
  <2>5. ~Inside(Used) /\ View(Used, s)
    BY <1>6, <1>9, <2>2, <2>4 DEF View, Inside, Owes, Depth, Newtypes, VarInts
  <2>6. Legal(Len(wrote) + 1, s, c) /\ Shape(s, c) = Append(s, r) /\ Weight(Len(wrote) + 1, c) = 0
    BY <2>3, <2>4 DEF Legal, Shape, Enter, Weight
  <2>7. Append(s, r) \in Seq(RFrame) /\ View(stack', Append(s, r))
    BY <1>7, <2>1, <2>5
  <2>8. toks \in Seq(Token) /\ Len(toks) = 0
    BY <2>3
  <2>9. stack'[1].left = 0
    BY <1>6, <2>2, <2>3
  <2>. HIDE DEF c, toks, r
  <2>10. Spells(c, toks) /\ Len(toks) <= 0 /\ Missing' = 0 - Len(toks) /\ 0 \in Nat
    BY <1>8, <2>8 DEF Spells
  <2>11. /\ Legal(Len(wrote) + 1, sh[Len(wrote)], c) /\ Shape(sh[Len(wrote)], c) \in Seq(RFrame)
         /\ View(stack', Shape(sh[Len(wrote)], c)) /\ ~is_root'
    BY <1>2, <1>3, <2>6, <2>7
  <2>12. QED BY <1>1, <1>3, <1>4, <1>8, <2>6, <2>8, <2>9, <2>10, <2>11, ValueGrows
<1>10. CASE Top.kind # "doc"
  <2>1. /\ s \in Seq(RFrame) /\ s # <<>> /\ Legal(Len(wrote) + 1, s, c)
        /\ Tick(s) \in Seq(RFrame) /\ View(Used, Tick(s)) /\ ~Inside(Used) /\ stack'[1].left = 0
        /\ Len(wrote) \in Nat \ {0} /\ ~is_root
    <3>. HIDE DEF c
    <3>1. QED BY <1>1, <1>2, <1>3, <1>4, <1>10, Opens DEF Told
  <2>2. Append(Tick(s), r) \in Seq(RFrame) /\ View(stack', Append(Tick(s), r))
    BY <1>7, <2>1
  <2>3. Shape(s, c) = Append(Tick(s), r)
    BY <2>1 DEF Shape, Enter
  <2>4. toks = <<[tag |-> "ObjectBegin"]>> /\ [tag |-> "ObjectBegin"] \in Token
    BY <2>1 DEF Token
  <2>5. toks \in Seq(Token) /\ Len(toks) = 1 /\ toks[1] = [tag |-> "ObjectBegin"]
    BY <2>4
  <2>6. Weight(Len(wrote) + 1, c) = 1
    BY <2>1 DEF Weight
  <2>. HIDE DEF c, toks, r
  <2>7. Spells(c, toks)
    BY <1>4, <2>5 DEF Spells, Encodes
  <2>8. Len(toks) <= 1 /\ Missing' = 1 - Len(toks) /\ 1 \in Nat
    BY <1>8, <2>5
  <2>9. /\ Legal(Len(wrote) + 1, sh[Len(wrote)], c) /\ Shape(sh[Len(wrote)], c) \in Seq(RFrame)
        /\ View(stack', Shape(sh[Len(wrote)], c)) /\ ~is_root'
    BY <1>2, <1>3, <2>1, <2>2, <2>3
  <2>10. QED BY <1>1, <1>3, <1>4, <1>8, <2>1, <2>5, <2>6, <2>7, <2>8, <2>9, ValueGrows
<1>11. QED BY <1>9, <1>10

(* What was opened last is closed.                                         *)
LEMMA ClosedIs ==
  ASSUME TypeOK, StackOK, result = "run", Len(stack) >= 2, stack' = Closed
  PROVE  /\ Len(stack) \in Nat /\ Len(stack') = Len(stack) - 1 /\ \A k \in 1 .. Len(stack') : stack'[k] = stack[k]
         /\ Top' = stack[Len(stack) - 1] /\ Top'.kind \notin Newtypes /\ stack'[1] = stack[1] /\ ~Inside(stack')
<1>1. Len(stack) \in Nat /\ stack \in Seq(Frame)
  BY DEF TypeOK
<1>2. Len(stack') = Len(stack) - 1 /\ \A k \in 1 .. Len(stack') : stack'[k] = stack[k]
  BY <1>1 DEF Closed
<1>3. Len(stack) - 1 \in 1 .. Len(stack) /\ Len(stack) - 1 # Len(stack) /\ 1 \in 1 .. Len(stack')
  BY <1>1, <1>2
<1>4. Top' = stack[Len(stack) - 1] /\ stack'[1] = stack[1] /\ stack'[Len(stack')] = stack[Len(stack) - 1]
  BY <1>1, <1>2, <1>3 DEF Top
<1>5. stack[Len(stack) - 1].kind \notin Newtypes
  BY <1>3 DEF StackOK
<1>6. QED BY <1>1, <1>2, <1>4, <1>5 DEF Inside

LEMMA EndStream ==
  ASSUME IInv, IInv', WInv, Readable, SInv, end_seq \/ end_map \/ end_tuple
  PROVE  SInv'
<1>1. PICK at, sh, solid : Written(at, sh, solid)
  BY DEF SInv
<1>2. PICK s : s = sh[Len(wrote)]
  OBVIOUS
<1>3. PICK kind, toks : End(kind, toks) /\ \/ kind = "seq" /\ toks = <<[tag |-> "ArrayEnd"]>>
                                           \/ kind = "map" /\ toks = <<[tag |-> "ObjectEnd"]>>
                                           \/ kind = "tuple"
  BY DEF end_seq, end_map, end_tuple
<1> DEFINE c == [call |-> "end", of |-> kind]
<1>4. /\ TypeOK /\ TypeOK' /\ StackOK /\ result = "run" /\ result' = "run" /\ Top.kind = kind /\ Top.left = 0
      /\ Record(c) /\ Emit(toks) /\ stack' = Closed /\ is_root' = is_root
  BY <1>3 DEF End, IInv
<1>5. /\ View(stack, s) /\ s \in Seq(RFrame)
      /\ Len(stack) >= 2 => wrote # <<>> /\ Len(wrote) \in Nat \ {0} /\ stack[1].left = 0 /\ ~is_root
  BY <1>1, <1>2, <1>4, AtWork
<1>6. kind \in {"seq", "map"} /\ Len(stack) >= 2
  BY <1>3, <1>4, <1>5, TopKind DEF Newtypes, VarInts
<1>7. /\ Len(stack) \in Nat /\ Len(stack') = Len(stack) - 1 /\ \A k \in 1 .. Len(stack') : stack'[k] = stack[k]
      /\ Top'.kind \notin Newtypes /\ stack'[1] = stack[1] /\ ~Inside(stack')
  BY <1>4, <1>6, ClosedIs
<1>8. ~Inside(stack)
  BY <1>4, <1>6 DEF Inside, Top, Newtypes, VarInts
<1>9. /\ s # <<>> /\ s[Len(s)].kind = kind /\ s[Len(s)].left = 0
      /\ SubSeq(s, 1, Len(s) - 1) \in Seq(RFrame) /\ View(stack', SubSeq(s, 1, Len(s) - 1))
  <2>1. PICK u : u = stack'
    OBVIOUS
  <2>2. /\ s # <<>> /\ s[Len(s)].kind = stack[Len(stack)].kind
        /\ s[Len(s)].left = IF stack[Len(stack)].kind = "map" THEN stack[Len(stack)].left % 2 ELSE stack[Len(stack)].left
        /\ SubSeq(s, 1, Len(s) - 1) \in Seq(RFrame) /\ View(u, SubSeq(s, 1, Len(s) - 1))
    BY <1>5, <1>6, <1>7, <1>8, <2>1, ViewPop
  <2>3. QED BY <1>4, <2>1, <2>2 DEF Top
<1>10. toks \in Seq(Token) /\ Len(toks) = 1 /\ toks[1] = [tag |-> IF kind = "map" THEN "ObjectEnd" ELSE "ArrayEnd"]
  <2>1. [tag |-> "ArrayEnd"] \in Token /\ [tag |-> "ObjectEnd"] \in Token
    BY DEF Token
  <2>2. CASE kind = "seq"
    <3>1. toks = <<[tag |-> "ArrayEnd"]>> /\ (IF kind = "map" THEN "ObjectEnd" ELSE "ArrayEnd") = "ArrayEnd"
      BY <1>3, <2>2
    <3>2. QED BY <2>1, <3>1
  <2>3. CASE kind = "map"
    <3>1. toks = <<[tag |-> "ObjectEnd"]>> /\ (IF kind = "map" THEN "ObjectEnd" ELSE "ArrayEnd") = "ObjectEnd"
      BY <1>3, <2>3
    <3>2. QED BY <2>1, <3>1
  <2>4. QED BY <1>6, <2>2, <2>3
<1>11. c \in Call /\ c.call = "end" /\ c.of = kind
  BY <1>6 DEF Call
<1>. HIDE DEF c
<1>12. Spells(c, toks)
  BY <1>10, <1>11 DEF Spells, Encodes
<1>13. /\ Legal(Len(wrote) + 1, s, c) /\ Shape(s, c) = SubSeq(s, 1, Len(s) - 1)
       /\ Weight(Len(wrote) + 1, c) = 1
  BY <1>5, <1>6, <1>9, <1>11 DEF Legal, Told, Shape, Weight
<1>14. Contents' /\ Missing' = 0
  BY <1>7 DEF Contents, Missing, Newtypes
<1>15. Missing' = 1 - Len(toks) /\ Len(toks) <= 1 /\ 1 \in Nat /\ Top.kind # "RTID"
  BY <1>4, <1>6, <1>10, <1>14
<1>16. /\ Legal(Len(wrote) + 1, sh[Len(wrote)], c) /\ Shape(sh[Len(wrote)], c) \in Seq(RFrame)
       /\ View(stack', Shape(sh[Len(wrote)], c)) /\ ~is_root' /\ stack'[1].left = 0
  BY <1>2, <1>4, <1>5, <1>6, <1>7, <1>9, <1>13
<1>17. QED BY <1>1, <1>4, <1>10, <1>11, <1>12, <1>13, <1>14, <1>15, <1>16, ValueGrows

(* The newtypes: an RTID is recorded as it is opened, the others as their  *)
(* value is.                                                               *)
LEMMA RtidStream == ASSUME IInv, IInv', WInv, Readable, SInv, NEW r \in Rtids, newtype_rtid(r) PROVE SInv'
<1> DEFINE c    == [call |-> "rtid", rtid |-> r]
           toks == <<[tag |-> "Rtid"]>>
<1>1. PICK at, sh, solid : Written(at, sh, solid)
  BY DEF SInv
<1>2. PICK s : s = sh[Len(wrote)]
  OBVIOUS
<1>3. PICK body : body = RtidBody(r)
  OBVIOUS
<1>4. /\ TypeOK /\ TypeOK' /\ StackOK /\ MayCall(c) /\ result = "run" /\ result' = "run" /\ Top.left > 0
      /\ Record(c) /\ Emit(toks) /\ stack' = Opened("RTID", Len(body), body) /\ is_root' = is_root
  <2>1. /\ MayCall(c) /\ Record(c) /\ Emit(toks) /\ stack' = Opened("RTID", Len(body), body)
        /\ UNCHANGED <<result, is_root>>
    BY <1>3 DEF newtype_rtid
  <2>2. TypeOK /\ TypeOK' /\ StackOK
    BY DEF IInv
  <2>3. result = "run" /\ Top.left > 0
    BY <2>1 DEF MayCall
  <2>4. QED BY <2>1, <2>2, <2>3
<1>5. ~InNewtype /\ c.call = "rtid" /\ c.rtid = r /\ Top.kind # "RTID" /\ c \in Call
  BY <1>4, NewtypeCalls DEF InNewtype, Newtypes, Call
<1>6. /\ Len(stack) \in Nat \ {0} /\ Len(Used) = Len(stack) /\ Len(stack') = Len(Used) + 1
      /\ \A k \in 1 .. Len(stack) : stack'[k] = Used[k]
      /\ stack'[Len(stack')].kind = "RTID" /\ Top'.kind = "RTID" /\ Top'.left = Len(body) /\ Top'.todo = body
  BY <1>4, OpenedIs
<1>7. toks \in Seq(Token) /\ Len(toks) = 1 /\ toks[1] = [tag |-> "Rtid"]
  <2>1. [tag |-> "Rtid"] \in Token
    BY DEF Token
  <2>2. QED BY <2>1
<1>8. Weight(Len(wrote) + 1, c) = 1 + Len(body) /\ Len(body) \in Nat
  BY <1>3, <1>5, BodyCalls DEF Weight
<1>. HIDE DEF c, toks
<1>9. Top.kind # "doc"
  BY <1>4, <1>5, NotDoc
<1>10. /\ s \in Seq(RFrame) /\ Legal(Len(wrote) + 1, s, c) /\ Len(stack) >= 2
       /\ Tick(s) \in Seq(RFrame) /\ View(Used, Tick(s)) /\ ~Inside(Used) /\ stack'[1].left = 0 /\ ~is_root
  BY <1>1, <1>2, <1>4, <1>5, <1>9, Opens DEF Told
<1>11. View(stack', Tick(s))
  <2>1. PICK u, v, q : u = Used /\ v = stack' /\ q = Tick(s)
    OBVIOUS
  <2>2. /\ Len(u) \in Nat /\ Len(u) >= 2 /\ Len(v) = Len(u) + 1 /\ \A k \in 1 .. Len(u) : v[k] = u[k]
        /\ ~Inside(u) /\ v[Len(v)].kind = "RTID" /\ View(u, q)
    BY <1>6, <1>10, <2>1
  <2>3. View(v, q)
    BY <2>2, ViewRtid
  <2>4. QED BY <2>1, <2>3
<1>12. Spells(c, toks)
  BY <1>5, <1>7 DEF Spells, Encodes
<1>13. Contents'
  <2>1. wrote'[Len(wrote')].is = c
    BY <1>4, <1>5, LastRecorded
  <2>2. QED BY <1>3, <1>5, <1>6, <2>1 DEF Contents
<1>14. Missing' = (1 + Len(body)) - Len(toks) /\ Len(toks) <= 1 + Len(body) /\ 1 + Len(body) \in Nat
  BY <1>6, <1>7, <1>8 DEF Missing
<1>15. /\ Legal(Len(wrote) + 1, sh[Len(wrote)], c) /\ Shape(sh[Len(wrote)], c) \in Seq(RFrame)
       /\ View(stack', Shape(sh[Len(wrote)], c)) /\ ~is_root'
  BY <1>2, <1>4, <1>5, <1>10, <1>11 DEF Shape
<1>16. QED BY <1>1, <1>4, <1>5, <1>7, <1>8, <1>10, <1>12, <1>13, <1>14, <1>15, ValueGrows

(* Only the stack moves, and the frames a reader keeps do not.             *)
LEMMA Unmoved ==
  ASSUME TypeOK, NEW at, NEW sh, NEW solid, Written(at, sh, solid), result = "run", result' = "run",
         UNCHANGED <<out, wrote, origin, is_root>>, Missing = 0, Missing' = 0,
         View(stack', sh[Len(wrote)]), stack'[1].left = stack[1].left, Contents'
  PROVE  SInv'
<1>1. RootDue'
  BY DEF Written, RootDue
<1>2. Written(at, sh, solid)'
  BY <1>1 DEF Written
<1>3. QED BY <1>2 DEF SInv

LEMMA WrapStream ==
  ASSUME IInv, IInv', WInv, Readable, SInv,
         \/ \E name \in VarInts, v \in Ints : newtype_varint(name, v)
         \/ \E s \in Strings : newtype_direct(s)
  PROVE  SInv'
<1>1. PICK at, sh, solid : Written(at, sh, solid)
  BY DEF SInv
<1>2. PICK q : q = sh[Len(wrote)]
  OBVIOUS
<1>3. ASSUME NEW c, c.call \in {"varint", "direct"}, MayCall(c), NEW kind \in Newtypes \ {"RTID"}, NEW b,
             stack' = Opened(kind, 1, b), UNCHANGED <<result, out, wrote, origin, is_root>>,
             kind = "DirectStr" => Len(b) = 1 /\ b[1].call = "str"
      PROVE  SInv'
  <2>1. TypeOK /\ TypeOK' /\ StackOK /\ result = "run" /\ result' = "run" /\ Top.left > 0
    BY <1>3 DEF IInv, MayCall
  <2>2. ~InNewtype /\ Top.kind # "RTID"
    BY <1>3, <2>1, NewtypeCalls DEF InNewtype, Newtypes
  <2>3. Top.kind # "doc"
    BY <1>3, NotDoc
  <2>4. /\ q \in Seq(RFrame) /\ ~KeyDue(q) /\ View(stack, q) /\ Len(stack) >= 2 /\ Top.kind \in {"seq", "map"}
    BY <1>1, <1>2, <1>3, <2>2, <2>3, Opens
  <2>5. /\ Len(stack) \in Nat \ {0} /\ Len(Used) = Len(stack) /\ Len(stack') = Len(stack) + 1
        /\ \A k \in 1 .. Len(stack) : stack'[k] = Used[k]
        /\ Top' = [kind |-> kind, left |-> 1, todo |-> b] /\ stack'[Len(stack')] = Top'
        /\ Used[Len(stack)].kind = Top.kind /\ Used[Len(stack)].left = Top.left - 1
        /\ \A k \in 1 .. Len(stack) - 1 : Used[k] = stack[k]
    BY <1>3, <2>1, OpenedIs
  <2>6. /\ \A k \in 1 .. Len(stack) - 1 : stack'[k] = stack[k]
        /\ stack'[Len(stack)].kind = stack[Len(stack)].kind
        /\ stack'[Len(stack)].left = stack[Len(stack)].left - 1
        /\ stack'[Len(stack')].kind = kind /\ stack'[Len(stack')].left = 1
        /\ stack'[1].left = stack[1].left /\ Top'.kind = kind /\ Top'.todo = b
    BY <2>4, <2>5 DEF Top
  <2>7. View(stack', q)
    <3>1. PICK st, v : st = stack /\ v = stack'
      OBVIOUS
    <3>2. /\ st \in Seq(Frame) /\ v \in Seq(Frame) /\ Len(st) >= 2 /\ Len(v) = Len(st) + 1
          /\ \A k \in 1 .. Len(st) - 1 : v[k] = st[k]
          /\ v[Len(st)].kind = st[Len(st)].kind /\ v[Len(st)].left = st[Len(st)].left - 1
          /\ st[Len(st)].kind \in {"seq", "map"}
          /\ v[Len(v)].kind \in Newtypes \ {"RTID"} /\ v[Len(v)].left = 1
          /\ View(st, q) /\ ~KeyDue(q)
      BY <1>3, <2>1, <2>4, <2>5, <2>6, <3>1 DEF TypeOK, Top
    <3>3. View(v, q)
      BY <3>2, ViewWrap
    <3>4. QED BY <3>1, <3>3
  <2>8. Contents' /\ Missing = 0 /\ Missing' = 0
    BY <1>3, <2>2, <2>6 DEF Contents, Missing
  <2>9. QED BY <1>1, <1>2, <1>3, <2>1, <2>6, <2>7, <2>8, Unmoved
<1>4. ASSUME NEW name \in VarInts, NEW v \in Ints, newtype_varint(name, v) PROVE SInv'
  <2>1. name \in Newtypes \ {"RTID"} /\ name # "DirectStr"
    BY <1>4 DEF Newtypes, VarInts
  <2>2. PICK b : b = <<[call |-> "int", int |-> v]>>
    OBVIOUS
  <2>3. /\ MayCall([call |-> "varint"]) /\ stack' = Opened(name, 1, b)
        /\ UNCHANGED <<result, out, wrote, origin, is_root>>
    BY <1>4, <2>2 DEF newtype_varint
  <2>4. PICK c : c = [call |-> "varint"]
    OBVIOUS
  <2>5. c.call \in {"varint", "direct"} /\ MayCall(c)
    BY <2>3, <2>4
  <2>6. QED BY <1>3, <2>1, <2>3, <2>5
<1>5. ASSUME NEW s \in Strings, newtype_direct(s) PROVE SInv'
  <2>1. "DirectStr" \in Newtypes \ {"RTID"}
    BY DEF Newtypes, VarInts
  <2>2. PICK b : b = <<Str(s)>>
    OBVIOUS
  <2>3. /\ MayCall([call |-> "direct"]) /\ stack' = Opened("DirectStr", 1, b)
        /\ UNCHANGED <<result, out, wrote, origin, is_root>>
    BY <1>5, <2>2 DEF newtype_direct
  <2>4. PICK c : c = [call |-> "direct"]
    OBVIOUS
  <2>5. c.call \in {"varint", "direct"} /\ MayCall(c)
    BY <2>3, <2>4
  <2>6. Len(b) = 1 /\ b[1].call = "str"
    BY <2>2 DEF Str
  <2>7. QED BY <1>3, <2>1, <2>3, <2>5, <2>6
<1>6. QED BY <1>4, <1>5

LEMMA EndNewtypeStream == ASSUME IInv, IInv', WInv, Readable, SInv, end_newtype PROVE SInv'
<1>1. PICK at, sh, solid : Written(at, sh, solid)
  BY DEF SInv
<1>2. PICK s : s = sh[Len(wrote)]
  OBVIOUS
<1>3. /\ TypeOK /\ StackOK /\ result = "run" /\ result' = "run" /\ Top.kind \in Newtypes /\ Top.left = 0
      /\ stack' = Closed /\ UNCHANGED <<out, wrote, origin, is_root>>
  BY DEF end_newtype, InNewtype, IInv
<1>4. View(stack, s) /\ s \in Seq(RFrame)
  BY <1>1, <1>2, <1>3, AtWork
<1>5. Len(stack) >= 3
  BY <1>3, <1>4, TopKind DEF Newtypes, VarInts
<1>6. Len(stack) \in Nat
  BY <1>3, TopTyped
<1>7. /\ Len(stack') = Len(stack) - 1 /\ \A k \in 1 .. Len(stack') : stack'[k] = stack[k]
      /\ Top'.kind \notin Newtypes /\ stack'[1] = stack[1] /\ ~Inside(stack')
  BY <1>3, <1>5, <1>6, ClosedIs
<1>8. Inside(stack) /\ ~Owes(stack)
  BY <1>3 DEF Inside, Owes, Top
<1>9. View(stack', s)
  <2>1. PICK u : u = stack'
    OBVIOUS
  <2>2. View(u, s)
    BY <1>4, <1>5, <1>6, <1>7, <1>8, <2>1, ViewUnwrap
  <2>3. QED BY <2>1, <2>2
<1>10. Contents' /\ Missing = 0 /\ Missing' = 0
  BY <1>3, <1>7 DEF Contents, Missing, Newtypes
<1>11. QED BY <1>1, <1>2, <1>3, <1>7, <1>9, <1>10, Unmoved

(* No readable value makes a tuple.                                        *)
LEMMA NoTuple == ASSUME IInv, WInv, Readable, SInv, NEW n, serialize_tuple(n) PROVE FALSE
<1>1. PICK at, sh, solid : Written(at, sh, solid)
  BY DEF SInv
<1>2. PICK c : c = [call |-> "tuple", len |-> n]
  OBVIOUS
<1>3. c.call = "tuple" /\ MayCall(c) /\ TypeOK /\ StackOK /\ result = "run"
  BY <1>2 DEF serialize_tuple, MayCall, IInv
<1>4. FlagsOK /\ Contents /\ sh[Len(wrote)] \in Seq(RFrame) /\ View(stack, sh[Len(wrote)])
  BY <1>1, <1>3, AtWork
<1>5. Top.kind # "RTID"
  BY <1>3, NewtypeCalls DEF InNewtype, Newtypes
<1>6. QED BY <1>3, <1>4, <1>5, CallKnown DEF ReadableCalls

(* What belongs to no value: the header, the footer, what an error leaves. *)
LEMMA Loose ==
  ASSUME TypeOK, TypeOK', NEW at, NEW sh, NEW solid, Written(at, sh, solid), wrote' = wrote,
         \/ UNCHANGED <<out, origin>>
         \/ \E t \in Token : Emit(<<t>>)
  PROVE  /\ solid \in Nat /\ Shapes(wrote', sh)
         /\ Len(out) \in Nat /\ \A i \in 1 .. Len(out) : out'[i] = out[i] /\ origin'[i] = origin[i]
         /\ solid <= Len(out) => Layout(wrote', out', origin', at, solid)
<1>1. solid \in Nat /\ Shapes(wrote', sh) /\ Len(out) \in Nat
  BY DEF Written, TypeOK
<1>2. \A i \in 1 .. Len(out) : out'[i] = out[i] /\ origin'[i] = origin[i]
  <2>1. ASSUME NEW t \in Token, Emit(<<t>>) PROVE \A i \in 1 .. Len(out) : out'[i] = out[i] /\ origin'[i] = origin[i]
    <3>1. Extended
      BY DEF TypeOK, Extended
    <3>2. PICK toks \in Seq(Token) : Emit(toks)
      BY <2>1
    <3>3. QED BY <3>1, <3>2, EmitProps, GrownProps DEF Grown
  <2>2. QED BY <2>1
<1>3. ASSUME solid <= Len(out) PROVE Layout(wrote', out', origin', at, solid)
  <2>1. Keeps(solid)
    BY <1>1, <1>2, <1>3 DEF Keeps
  <2>2. QED BY <1>1, <2>1, LayoutKeeps DEF Written
<1>4. QED BY <1>1, <1>2, <1>3

LEMMA LastEmitted ==
  ASSUME TypeOK, NEW t \in Token, Emit(<<t>>)
  PROVE  Len(out') = Len(out) + 1 /\ out'[Len(out')] = t
<1>1. out \in Seq(Token) /\ out' = out \o <<t>>
  BY DEF TypeOK, Emit
<1>2. Len(out') = Len(out) + 1 /\ out'[Len(out) + 1] = t
  BY <1>1, JoinOne
<1>3. QED BY <1>2

LEMMA HeaderStream == ASSUME IInv, IInv', WInv, Readable, SInv, write_header PROVE SInv'
<1>1. PICK at, sh, solid : Written(at, sh, solid)
  BY DEF SInv
<1>2. /\ TypeOK /\ TypeOK' /\ result = "new" /\ result' = "run" /\ UNCHANGED <<stack, wrote, is_root>>
      /\ Emit(<<Header>>)
  BY DEF IInv, write_header, Header
<1>3. /\ wrote = <<>> /\ out = <<>> /\ is_root /\ solid = 0
      /\ stack = <<[kind |-> "doc", left |-> 1, todo |-> <<>>]>>
      /\ Layout(wrote, out, origin, at, solid) /\ Shapes(wrote, sh)
  BY <1>1, <1>2 DEF Written
<1>4. Header \in Token
  BY DEF Header, Token
<1>5. Len(out') = 1 /\ out'[1] = Header
  BY <1>2, <1>3, <1>4, LastEmitted
<1>6. at \in [0 .. 0 -> Nat \ {0}] /\ at[0] = 2 /\ sh[0] = <<>> /\ Len(wrote') = 0
  BY <1>2, <1>3 DEF Layout, Shapes
<1>7. Layout(wrote', out', origin', at, 1) /\ Shapes(wrote', sh)
  BY <1>2, <1>3, <1>6 DEF Layout, Shapes
<1>8. Top'.kind = "doc" /\ RootDue' /\ Len(stack') = 1 /\ stack'[1].kind = "doc"
  BY <1>2, <1>3 DEF Top, RootDue
<1>9. View(stack', <<>>)
  BY <1>8 DEF View, Inside, Depth, Owes, Newtypes, VarInts
<1>10. Contents' /\ Missing' = 0
  BY <1>8 DEF Contents, Missing
<1>11. Written(at, sh, 1)'
  BY <1>2, <1>5, <1>6, <1>7, <1>8, <1>9, <1>10 DEF Written
<1>12. QED BY <1>11 DEF SInv

LEMMA FooterStream == ASSUME IInv, IInv', WInv, Readable, SInv, write_footer PROVE SInv'
<1>1. PICK at, sh, solid : Written(at, sh, solid)
  BY DEF SInv
<1>2. PICK t : t = [tag |-> "(footer)"]
  OBVIOUS
<1>3. t \in Token /\ t.tag = "(footer)"
  BY <1>2 DEF Token
<1>4. /\ TypeOK /\ TypeOK' /\ StackOK /\ result = "run" /\ result' = "ok" /\ wrote' = wrote /\ Emit(<<t>>)
      /\ Len(stack) = 1 /\ Top.left = 0
  BY <1>2 DEF IInv, write_footer
<1>5. /\ solid = Len(out) /\ solid >= 1 /\ out[1] = Header /\ at[Len(wrote)] = solid + 1 + Missing
      /\ View(stack, sh[Len(wrote)]) /\ RootDue /\ sh[Len(wrote)] \in Seq(RFrame)
  BY <1>1, <1>4, RootOpen DEF Written
<1>6. Top = stack[1] /\ stack[1].kind = "doc"
  BY <1>4 DEF Top, StackOK
<1>7. wrote # <<>> /\ Missing = 0
  BY <1>4, <1>5, <1>6 DEF RootDue, Missing
<1>8. Len(sh[Len(wrote)]) = 0
  BY <1>4, <1>5, <1>6 DEF View, Depth, Inside, Newtypes, VarInts
<1>9. sh[Len(wrote)] = <<>>
  BY <1>5, <1>8
<1>10. /\ solid \in Nat /\ Shapes(wrote', sh) /\ Layout(wrote', out', origin', at, solid) /\ out'[1] = out[1]
  BY <1>1, <1>3, <1>4, <1>5, Loose
<1>11. Len(out') = solid + 1 /\ out'[Len(out')] = t
  BY <1>3, <1>4, <1>5, LastEmitted
<1>12. Written(at, sh, solid)'
  BY <1>3, <1>4, <1>5, <1>7, <1>9, <1>10, <1>11 DEF Written
<1>13. QED BY <1>12 DEF SInv

LEMMA ErrorStream ==
  ASSUME IInv, IInv', WInv, Readable, SInv, serialize_unsupported \/ write_fails
  PROVE  SInv'
<1>1. PICK at, sh, solid : Written(at, sh, solid)
  BY DEF SInv
<1>2. /\ TypeOK /\ TypeOK' /\ StackOK /\ result \in {"new", "run"} /\ result' = "err" /\ wrote' = wrote
      /\ \/ UNCHANGED <<out, origin>>
         \/ Emit(<<[tag |-> "(torn)"]>>)
  BY DEF IInv, serialize_unsupported, write_fails, Unwind, MayCall
<1>3. PICK t : t = [tag |-> "(torn)"]
  OBVIOUS
<1>4. t \in Token /\ t.tag = "(torn)"
  BY <1>3 DEF Token
<1>5. UNCHANGED <<out, origin>> \/ Emit(<<t>>)
  BY <1>2, <1>3
<1>6. Len(out) = solid /\ Len(out) \in Nat /\ (solid = 0 => wrote = <<>>) /\ (solid # 0 => result = "run" /\ solid >= 1 /\ out[1] = Header)
  BY <1>1, <1>2 DEF Written, TypeOK
<1>7. ASSUME result = "run" PROVE wrote # <<>> /\ at[Len(wrote)] >= solid + 1
  <2>1. /\ at[Len(wrote)] = solid + 1 + Missing /\ View(stack, sh[Len(wrote)]) /\ RootDue
        /\ sh[Len(wrote)] \in Seq(RFrame) /\ (Len(stack) >= 2 => wrote # <<>>)
    BY <1>1, <1>2, <1>7, RootOpen DEF Written
  <2>2. Len(stack) \in Nat /\ Top = stack[Len(stack)] /\ Top.left \in Nat /\ Len(stack) >= 1
    BY <1>2, <1>7, TopTyped
  <2>3. wrote # <<>>
    <3>1. CASE serialize_unsupported
      <4>1. PICK c : c = [call |-> "unsupported"]
        OBVIOUS
      <4>2. MayCall(c) /\ c.call # "map"
        BY <3>1, <4>1 DEF serialize_unsupported
      <4>3. Top.kind # "doc"
        BY <4>2, NotDoc
      <4>4. Len(stack) >= 2
        BY <1>2, <1>7, <2>1, <2>2, <4>3, TopKind
      <4>5. QED BY <2>1, <4>4
    <3>2. CASE write_fails
      <4>1. ~(Len(stack) = 1 /\ Top.left = 1)
        BY <1>7, <3>2 DEF write_fails, Readable
      <4>2. CASE Len(stack) = 1
        BY <2>1, <2>2, <4>1, <4>2 DEF RootDue
      <4>3. CASE Len(stack) # 1
        <5>1. \A n \in Nat : n >= 1 /\ n # 1 => n >= 2
          OBVIOUS
        <5>2. Len(stack) >= 2
          BY <2>2, <4>3, <5>1
        <5>3. QED BY <2>1, <5>2
      <4>4. QED BY <4>2, <4>3
    <3>3. QED BY <3>1, <3>2
  <2>4. Missing \in Nat
    BY <2>2 DEF Missing
  <2>5. QED BY <1>6, <2>1, <2>3, <2>4
<1>8. /\ solid \in Nat /\ Shapes(wrote', sh) /\ Layout(wrote', out', origin', at, solid)
      /\ \A i \in 1 .. Len(out) : out'[i] = out[i]
  BY <1>1, <1>2, <1>4, <1>5, <1>6, Loose
<1>9. \/ Len(out') = solid
      \/ Len(out') = solid + 1 /\ out'[Len(out')].tag = "(torn)"
  <2>1. CASE UNCHANGED <<out, origin>>
    BY <1>6, <2>1
  <2>2. CASE Emit(<<t>>)
    <3>1. Len(out') = Len(out) + 1 /\ out'[Len(out')] = t
      BY <1>2, <1>4, <2>2, LastEmitted
    <3>2. QED BY <1>4, <1>6, <3>1
  <2>3. QED BY <1>5, <2>1, <2>2
<1>10. solid >= 1 => out'[1] = Header
  BY <1>6, <1>8
<1>11. IF solid = 0 THEN wrote' = <<>> ELSE wrote' # <<>> /\ at[Len(wrote')] >= solid + 1
  BY <1>2, <1>6, <1>7
<1>12. Written(at, sh, solid)'
  BY <1>2, <1>8, <1>9, <1>10, <1>11 DEF Written
<1>13. QED BY <1>12 DEF SInv
-----------------------------------------------------------------------------
LEMMA InitSInv == Init => SInv
<1> SUFFICES ASSUME Init PROVE SInv
  OBVIOUS
<1> DEFINE at == [n \in 0 .. 0 |-> 2]
           sh == [n \in 0 .. 0 |-> <<>>]
<1>1. Layout(wrote, out, origin, at, 0) /\ Shapes(wrote, sh)
  BY DEF Init, Layout, Shapes
<1>2. Written(at, sh, 0)
  <2>. HIDE DEF at, sh
  <2>1. QED BY <1>1 DEF Init, Written
<1>3. QED BY <1>2 DEF SInv

LEMMA NextSInv == Readable /\ IInv /\ IInv' /\ WInv /\ SInv /\ [Next]_svars => SInv'
<1> SUFFICES ASSUME Readable, IInv, IInv', WInv, SInv, [Next]_svars PROVE SInv'
  OBVIOUS
<1>1. CASE UNCHANGED svars
  BY <1>1 DEF svars, flags, tables, SInv, Written, View, Contents, Missing, RootDue, Top
<1>2. CASE write_header
  BY <1>2, HeaderStream
<1>3. CASE write_footer
  BY <1>3, FooterStream
<1>4. CASE \/ \E b \in BOOLEAN : serialize_bool(b)
           \/ \E ty \in {"f32", "f64"}, x \in Floats : serialize_float(ty, x)
           \/ \E b \in Blobs : serialize_bytes(b)
           \/ serialize_none
  BY <1>4, ScalarStream
<1>5. CASE \/ \E i \in 0 .. 3 : serialize_unit_variant(i)
           \/ \E w \in {"(varint)", "(u32)"}, n \in RtidNumbers : serialize_number(w, n)
  BY <1>5, PartStream
<1>6. ASSUME NEW v \in Ints, serialize_int(v) PROVE SInv'
  BY <1>6, IntStream
<1>7. ASSUME NEW s \in Strings, serialize_str(s) PROVE SInv'
  BY <1>7, StrStream
<1>8. ASSUME NEW n \in Lens, serialize_seq(n) PROVE SInv'
  BY <1>8, SeqStream
<1>9. ASSUME NEW n \in Lens, serialize_map(n) PROVE SInv'
  BY <1>9, MapStream
<1>10. ASSUME NEW n \in Lens, serialize_tuple(n) PROVE SInv'
  BY <1>10, NoTuple
<1>11. CASE end_seq \/ end_map \/ end_tuple
  BY <1>11, EndStream
<1>12. ASSUME NEW r \in Rtids, newtype_rtid(r) PROVE SInv'
  BY <1>12, RtidStream
<1>13. CASE \/ \E name \in VarInts, v \in Ints : newtype_varint(name, v)
            \/ \E s \in Strings : newtype_direct(s)
  BY <1>13, WrapStream
<1>14. CASE end_newtype
  BY <1>14, EndNewtypeStream
<1>15. CASE serialize_unsupported \/ write_fails
  BY <1>15, ErrorStream
<1>16. QED BY <1>1, <1>2, <1>3, <1>4, <1>5, <1>6, <1>7, <1>8, <1>9, <1>10, <1>11, <1>12, <1>13, <1>14,
              <1>15 DEF Next
-----------------------------------------------------------------------------
(* to_writer of ser.rs: at every moment, after an error too, the stream is *)
(* the header and then, call by call, the tokens of that call and of no    *)
(* other; containers open and close in it as they did in the value.        *)
THEOREM CallByCall ==
  ASSUME Readable
  PROVE  Spec => []SInv
<1>1. Spec => [](IInv /\ WInv /\ NothingYet /\ SInv)
  BY InitIInv, NextIInv, InitWInv, NextWInv, NextNothingYet, InitSInv, NextSInv, PTL DEF Spec
<1>2. QED BY <1>1, PTL
=============================================================================
