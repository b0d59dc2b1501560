------------------------ MODULE CompactWriterProofs ------------------------
(***************************************************************************)
(* Proofs about CompactWriter.tla, for every set of texts, integers, RTIDs *)
(* and blobs, every bound and every size of the offset word: type          *)
(* correctness; that every reference is the offset of the text it was      *)
(* asked for; that no length that was cut to u32 unchecked gets into a     *)
(* finished file; that every patch lands on a word that was left for it,  *)
(* no word being patched twice; and how the parts of the value lie in the  *)
(* buffer and the file.                                                    *)
(***************************************************************************)
EXTENDS CompactWriter, SequenceTheorems, TLAPS

Containers == {"array", "object"}

(* Frame 1 is the document and waits for the root until there is one; an   *)
(* array has its table from the beginning, an object a word to patch while *)
(* it is inside a value; a blob is being written on top, and is the last   *)
(* part begun.                                                             *)
FrameOK(i) ==
  /\ stack[i].kind # "doc"
  /\ stack[i].kind = "array" => stack[i].left <= stack[i].count /\ stack[i].slot # 0
  /\ stack[i].kind = "object" /\ (i < Len(stack) \/ stack[i].due) => stack[i].slot # 0
  /\ stack[i].kind = "binary" => /\ ~stack[i].due /\ i = Len(stack)
                               /\ wrote[Len(wrote)].kind = "binary"
StackOK ==
  /\ stack[1].kind = "doc"
  /\ stack[1].due <=> wrote = <<>>
  /\ Len(stack) >= 2 => wrote # <<>> /\ stack[2].kind = wrote[1].kind
  /\ \A i \in 2 .. Len(stack) : FrameOK(i)

(* A string token belongs to a part that has been recorded; a table gives  *)
(* the offset of the text of a definition in the buffer.                   *)
TableOK(f, tags) ==
  \A s \in DOMAIN f : \E j \in DOMAIN bytes :
    Stands(bytes[j], s) /\ bytes[j].tok.tag \in tags /\ f[s] = bytes[j].at + 5
TablesOK ==
  /\ \A i \in DOMAIN bytes :
       bytes[i].tok.tag \in CompactDefs \cup CompactRefs => bytes[i].of \in 1 .. Len(wrote)
  /\ TableOK(latin1_offsets, Latin1Defs)
  /\ TableOK(utf32_offsets, Utf32Defs)
  /\ OffsetsResolve

(* Once a cut length is in the buffer the position is no u32, and the root *)
(* container has yet to ask for a position.                                *)
AllFit == \A i \in DOMAIN bytes : Fits(bytes[i].tok)
Pending == Len(stack) >= 2 /\ stack[2].slot # 0 /\ len >= Word
FitOK ==
  /\ wrote = <<>> => AllFit
  /\ result \in {"new", "run"} /\ wrote # <<>> /\ wrote[1].kind \in Containers =>
       AllFit \/ Pending
  /\ result \in {"sealed", "ok"} => wrote # <<>> /\ (wrote[1].kind \in Containers => AllFit)

IInv == TypeOK /\ StackOK /\ TablesOK /\ FitOK
-----------------------------------------------------------------------------
(* A text is a sequence, and so is the zero appended to it.                *)
LEMMA TextProps ==
  ASSUME NEW s \in Texts
  PROVE  Len(s) \in Nat /\ Len(Append(s, "NUL")) = Len(s) + 1
<1>1. \E S : s \in Seq(S)
  <2>1. CASE s \in Strings
    BY <2>1, CStringsAssumption DEF CStringsAssumption
  <2>2. ASSUME NEW b \in Blobs, s = HexStr(b) PROVE \E S : s \in Seq(S)
    <3>1. Len(b) \in Nat
      BY CBlobsAssumption DEF CBlobsAssumption
    <3> DEFINE n == 2 * Len(b)
               digit(i) == HexDigits[1 + IF i % 2 = 1 THEN b[(i + 1) \div 2] \div 16 ELSE b[i \div 2] % 16]
    <3>2. s = [i \in 1 .. n |-> digit(i)]
      BY <2>2 DEF HexStr
    <3>3. n \in Nat
      BY <3>1
    <3>. HIDE DEF n, digit
    <3>4. s \in [1 .. n -> {digit(i) : i \in 1 .. n}]
      BY <3>2
    <3>5. QED BY <3>3, <3>4, SeqDef
  <2>3. QED BY <2>1, <2>2 DEF Texts
<1>2. PICK S : s \in Seq(S)
  BY <1>1
<1>3. s \in Seq(S \cup {"NUL"})
  BY <1>2, SeqMonotonic
<1>4. QED BY <1>3

(* "as u32" gives a u32, and what is one already stays as it is.           *)
LEMMA U32Props ==
  ASSUME NEW n \in Nat
  PROVE  U32(n) \in 0 .. Word - 1 /\ (n < Word => U32(n) = n)
BY WordAssumption DEF WordAssumption, U32

(* The arms of Size exclude each other.                                    *)
LEMMA SizeOf ==
  ASSUME NEW tok
  PROVE  /\ tok.tag \in IntTags => Size(tok) = 1 + PayloadLen(tok)
         /\ tok.tag \in Latin1Defs => Size(tok) = 5 + Len(tok.str) + AuxSize(tok)
         /\ tok.tag \in Utf32Defs => Size(tok) = 5 + 4 * Len(tok.str) + AuxSize(tok)
         /\ tok.tag \in CompactRefs => Size(tok) = 5 + AuxSize(tok)
         /\ tok.tag = "CompactArrayBegin" => Size(tok) = 1 + TableSize(tok)
         /\ tok.tag = "CompactRtid" => Size(tok) = 2 + RtidSize(tok)
         /\ tok.tag = "(raw)" => Size(tok) = 4 + Len(tok.raw)
         /\ tok.tag = "CompactBoolean" => Size(tok) = 2
         /\ tok.tag = "F64" => Size(tok) = 9
         /\ tok.tag = "F32" => Size(tok) = 5
         /\ tok.tag = "(header)" => Size(tok) = 8
         /\ tok.tag = "(footer)" => Size(tok) = 4
         /\ tok.tag \in {"CompactBinaryBlob", "CompactObjectBegin", "ObjectEnd"} => Size(tok) = 1
<1> USE DEF Size, IntTags, Latin1Defs, Utf32Defs, CompactRefs, Latin1Refs, Utf32Refs
<1>1. tok.tag \in IntTags => Size(tok) = 1 + PayloadLen(tok)
  OBVIOUS
<1>2. tok.tag \in Latin1Defs => Size(tok) = 5 + Len(tok.str) + AuxSize(tok)
  OBVIOUS
<1>3. tok.tag \in Utf32Defs => Size(tok) = 5 + 4 * Len(tok.str) + AuxSize(tok)
  OBVIOUS
<1>4. tok.tag \in CompactRefs => Size(tok) = 5 + AuxSize(tok)
  OBVIOUS
<1>5. tok.tag = "CompactArrayBegin" => Size(tok) = 1 + TableSize(tok)
  OBVIOUS
<1>6. tok.tag = "CompactRtid" => Size(tok) = 2 + RtidSize(tok)
  OBVIOUS
<1>7. tok.tag = "(raw)" => Size(tok) = 4 + Len(tok.raw)
  OBVIOUS
<1>8. tok.tag = "CompactBoolean" => Size(tok) = 2
  OBVIOUS
<1>9. tok.tag = "F64" => Size(tok) = 9
  OBVIOUS
<1>10. tok.tag = "F32" => Size(tok) = 5
  OBVIOUS
<1>11. tok.tag = "(header)" => Size(tok) = 8
  OBVIOUS
<1>12. tok.tag = "(footer)" => Size(tok) = 4
  OBVIOUS
<1>13. tok.tag \in {"CompactBinaryBlob", "CompactObjectBegin", "ObjectEnd"} => Size(tok) = 1
  OBVIOUS
<1>14. QED BY <1>1, <1>2, <1>3, <1>4, <1>5, <1>6, <1>7, <1>8, <1>9, <1>10, <1>11, <1>12, <1>13

(* The token of a scalar is no string, and takes room.                     *)
LEMMA ScalarTokenProps ==
  ASSUME NEW v \in Scalars
  PROVE  /\ Size(ScalarToken(v)) \in Nat \ {0}
         /\ ScalarToken(v).tag \notin CompactDefs \cup CompactRefs \cup {"CompactArrayBegin", "(raw)"}
<1> DEFINE strings == CompactDefs \cup CompactRefs \cup {"CompactArrayBegin", "(raw)"}
           Good(tok) == Size(tok) \in Nat \ {0} /\ tok.tag \notin strings
<1> USE DEF CompactDefs, CompactRefs, Latin1Defs, Latin1Refs, Utf32Defs, Utf32Refs
<1>1. CompactRtid(0, <<>>, <<>>).tag = "CompactRtid" /\ CompactRtid(0, <<>>, <<>>).sub = 0
  BY DEF CompactRtid
<1>2. \A tok : tok.tag = "CompactRtid" /\ RtidSize(tok) \in Nat => Good(tok)
  BY SizeOf
<1>3. Good(CompactRtid(0, <<>>, <<>>))
  BY <1>1, <1>2 DEF RtidSize
<1>4. CASE v.kind = "null"
  BY <1>3, <1>4 DEF ScalarToken
<1>5. CASE v.kind = "bool"
  <2>1. ScalarToken(v).tag = "CompactBoolean"
    BY <1>5 DEF ScalarToken
  <2>2. QED BY <2>1, SizeOf
<1>6. CASE v.kind = "float"
  <2>1. ScalarToken(v).tag \in {"F32", "F64"}
    BY <1>6 DEF ScalarToken
  <2>2. QED BY <2>1, SizeOf
<1>7. CASE v.kind = "int"
  <2>1. v.int \in RustInt
    BY <1>7, CIntsAssumption DEF Scalars, CIntsAssumption
  <2>2. ScalarToken(v).tag \in {"I8", "I16", "I32", "I64", "U8", "U16", "U32", "U64"}
    BY <1>7, <2>1 DEF ScalarToken, FixedInt, FixedTag, RustInt, Signed, Unsigned
  <2>3. PayloadLen(ScalarToken(v)) \in {1, 2, 4, 8}
    BY <2>2 DEF PayloadLen
  <2>4. ScalarToken(v).tag \in IntTags
    BY <2>2 DEF IntTags
  <2>5. QED BY <2>2, <2>3, <2>4, SizeOf
<1>8. CASE v.kind = "rtid"
  <2>1. v.rtid = Null \/ v.rtid \in RtidOver(Strings)
    BY <1>8, CRtidsAssumption DEF Scalars, CRtidsAssumption
  <2>2. ScalarToken(v) = RtidToken(v.rtid)
    BY <1>8 DEF ScalarToken
  <2>3. CASE v.rtid = Null
    BY <1>3, <2>2, <2>3 DEF RtidToken, Null
  <2>4. ASSUME v.rtid \in RtidOver(Strings), v.rtid.kind = "raw" PROVE Good(RtidToken(v.rtid))
    <3>1. v.rtid.name \in Texts /\ v.rtid.parent \in Texts
      BY <2>4 DEF RtidOver, Texts
    <3>2. Len(v.rtid.name) \in Nat /\ Len(v.rtid.parent) \in Nat
      BY <3>1, TextProps
    <3>3. RtidToken(v.rtid) = CompactRtid(3, <<v.rtid.name, v.rtid.parent>>, <<>>)
      BY <2>4 DEF RtidToken
    <3>4. RtidToken(v.rtid).tag = "CompactRtid" /\ RtidToken(v.rtid).sub = 3
          /\ RtidToken(v.rtid).names[1] = v.rtid.name /\ RtidToken(v.rtid).names[2] = v.rtid.parent
      BY <3>3 DEF CompactRtid
    <3>5. \A tok : tok.sub = 3 => RtidSize(tok) = NameSize(tok.names[1]) + NameSize(tok.names[2])
      BY DEF RtidSize
    <3>6. RtidSize(RtidToken(v.rtid)) = NameSize(v.rtid.name) + NameSize(v.rtid.parent)
      BY <3>4, <3>5
    <3>7. NameSize(v.rtid.name) \in Nat /\ NameSize(v.rtid.parent) \in Nat
      BY <3>2 DEF NameSize
    <3>8. RtidSize(RtidToken(v.rtid)) \in Nat
      BY <3>6, <3>7
    <3>9. QED BY <1>2, <3>4, <3>8
  <2>5. ASSUME v.rtid \in RtidOver(Strings), v.rtid.kind = "uid" PROVE Good(RtidToken(v.rtid))
    <3>1. CASE v.rtid.name = None
      BY <1>2, <2>5, <3>1 DEF RtidToken, CompactRtid, RtidSize
    <3>2. CASE v.rtid.name # None
      <4>1. PICK s \in Strings : v.rtid.name = {s}
        BY <2>5, <3>2 DEF RtidOver, Some, None
      <4>2. Unwrap(v.rtid.name) = s
        BY <4>1 DEF Unwrap
      <4>3. Len(s) \in Nat
        BY TextProps DEF Texts
      <4>4. RtidToken(v.rtid).tag = "CompactRtid" /\ RtidToken(v.rtid).sub = 2
            /\ RtidToken(v.rtid).names[1] = s
        BY <2>5, <3>2, <4>2 DEF RtidToken, CompactRtid
      <4>5. RtidSize(RtidToken(v.rtid)) \in Nat
        BY <4>3, <4>4 DEF RtidSize, NameSize
      <4>6. QED BY <1>2, <4>4, <4>5
    <3>3. QED BY <3>1, <3>2
  <2>6. QED BY <2>1, <2>2, <2>3, <2>4, <2>5 DEF RtidOver
<1>9. QED BY <1>4, <1>5, <1>6, <1>7, <1>8 DEF Scalars

(* The token of a definition: it takes room for its text, and for the word *)
(* after a key; its length fits, or the position after it is no u32.       *)
LEMMA DefTokenProps ==
  ASSUME NEW s \in Texts, NEW wide \in BOOLEAN, NEW paired \in BOOLEAN
  PROVE  LET tok == DefToken(s, wide, paired)
         IN  /\ tok \in CToken
             /\ tok.tag \in IF wide THEN Utf32Defs ELSE Latin1Defs
             /\ tok.str = Append(s, "NUL")
             /\ Size(tok) \in Nat /\ Size(tok) >= (IF paired THEN 9 ELSE 5)
             /\ Fits(tok) \/ Size(tok) >= Word
<1> DEFINE tok == DefToken(s, wide, paired)
<1>1. Len(s) \in Nat /\ Len(tok.str) = Len(s) + 1 /\ tok.str = Append(s, "NUL")
  BY TextProps DEF DefToken
<1>2. tok.tag \in (IF wide THEN Utf32Defs ELSE Latin1Defs)
  BY DEF DefToken, DefTag, Utf32Defs, Latin1Defs
<1>3. tok.len = U32((U32(Len(s)) + 1) * Unit(wide))
  BY DEF DefToken
<1>4. /\ U32(Len(s)) \in Nat /\ (Len(s) < Word => U32(Len(s)) = Len(s))
      /\ Word \in Nat /\ Unit(wide) = IF wide THEN 4 ELSE 1
  BY <1>1, U32Props, WordAssumption DEF WordAssumption, Unit
<1>5. tok.len \in Nat /\ ((U32(Len(s)) + 1) * Unit(wide) < Word =>
                            tok.len = (U32(Len(s)) + 1) * Unit(wide))
  <2>1. (U32(Len(s)) + 1) * Unit(wide) \in Nat
    BY <1>4
  <2>2. QED BY <1>3, <2>1, U32Props, WordAssumption DEF WordAssumption
<1>6. tok \in CToken
  BY <1>1, <1>2, <1>5 DEF CToken, DefToken, CompactDefs
<1>7. tok.tag \in PairedTags <=> paired
  BY DEF DefToken, DefTag, PairedTags
<1>8. AuxSize(tok) = IF paired THEN 4 ELSE 0
  BY <1>7 DEF AuxSize
<1>9. Size(tok) = 5 + (IF wide THEN 4 ELSE 1) * (Len(s) + 1) + AuxSize(tok)
  <2>. HIDE DEF tok
  <2>1. CASE wide
    BY <1>1, <1>2, <1>8, <2>1, SizeOf
  <2>2. CASE ~wide
    BY <1>1, <1>2, <1>8, <2>2, SizeOf
  <2>3. QED BY <2>1, <2>2
<1>10. tok.tag # "CompactArrayBegin" /\ tok.tag # "(raw)"
       /\ (tok.tag \in Latin1Defs <=> ~wide) /\ (tok.tag \in Utf32Defs <=> wide)
  BY <1>2 DEF Latin1Defs, Utf32Defs
<1>11. CASE (Len(s) + 1) * Unit(wide) < Word
  <2>1. Len(s) < Word
    BY <1>1, <1>4, <1>11
  <2>2. tok.len = (Len(s) + 1) * Unit(wide)
    BY <1>4, <1>5, <1>11, <2>1
  <2>3. Fits(tok)
    BY <1>1, <1>4, <1>10, <2>2 DEF Fits
  <2>4. QED BY <1>1, <1>2, <1>6, <1>8, <1>9, <2>3
<1>12. CASE ~((Len(s) + 1) * Unit(wide) < Word)
  <2>1. Size(tok) >= Word
    BY <1>1, <1>4, <1>8, <1>9, <1>12
  <2>2. QED BY <1>1, <1>2, <1>6, <1>8, <1>9, <2>1
<1>13. QED BY <1>11, <1>12

(* The token of a reference.                                               *)
LEMMA RefTokenProps ==
  ASSUME NEW s, NEW wide \in BOOLEAN, NEW paired \in BOOLEAN, Offsets(wide)[s] \in Nat
  PROVE  LET tok == RefToken(s, wide, paired)
         IN  /\ tok \in CToken
             /\ tok.tag \in IF wide THEN Utf32Refs ELSE Latin1Refs
             /\ tok.word = Offsets(wide)[s]
             /\ Size(tok) \in Nat /\ Size(tok) >= (IF paired THEN 9 ELSE 5)
             /\ Fits(tok)
<1> DEFINE tok == RefToken(s, wide, paired)
<1>1. tok.tag \in (IF wide THEN Utf32Refs ELSE Latin1Refs) /\ tok.word = Offsets(wide)[s]
  BY DEF RefToken, RefTag, Utf32Refs, Latin1Refs
<1>2. tok \in CToken
  BY <1>1 DEF CToken, RefToken, CompactRefs
<1>3. tok.tag \in PairedTags <=> paired
  BY DEF RefToken, RefTag, PairedTags
<1>4. AuxSize(tok) = IF paired THEN 4 ELSE 0
  BY <1>3 DEF AuxSize
<1>5. Size(tok) = 5 + AuxSize(tok)
  BY <1>1, SizeOf DEF CompactRefs
<1>6. Fits(tok)
  BY <1>1 DEF Fits, Latin1Refs, Utf32Refs, Latin1Defs, Utf32Defs
<1>7. QED BY <1>1, <1>2, <1>4, <1>5, <1>6
-----------------------------------------------------------------------------
(* A token at the end of the buffer.                                       *)
LEMMA EmitProps ==
  ASSUME TypeOK, NEW tok \in CToken, Size(tok) \in Nat, NEW part \in Nat, Emit(tok, part)
  PROVE  /\ bytes' \in Seq(Item) /\ len' \in Nat /\ len' = len + Size(tok)
         /\ Len(bytes) \in Nat /\ DOMAIN bytes = 1 .. Len(bytes)
         /\ DOMAIN bytes' = 1 .. Len(bytes) + 1
         /\ \A i \in DOMAIN bytes : bytes'[i] = bytes[i]
         /\ bytes'[Len(bytes) + 1] = [at |-> len, tok |-> tok, of |-> part]
<1> DEFINE new == [at |-> len, tok |-> tok, of |-> part]
<1>1. bytes \in Seq(Item) /\ len \in Nat
  BY DEF TypeOK
<1>2. new \in Item
  BY <1>1 DEF Item
<1>3. bytes' = Append(bytes, new) /\ len' = len + Size(tok)
  BY DEF Emit
<1>. HIDE DEF new
<1>4. QED BY <1>1, <1>2, <1>3 DEF new

(* Sequences that lose or gain their last element.                         *)
LEMMA AppendProps ==
  ASSUME NEW S, NEW s \in Seq(S), NEW e \in S
  PROVE  /\ Append(s, e) \in Seq(S) /\ Len(Append(s, e)) = Len(s) + 1 /\ Append(s, e) # <<>>
         /\ Append(s, e)[Len(s) + 1] = e
         /\ \A i \in 1 .. Len(s) : Append(s, e)[i] = s[i]
OBVIOUS

LEMMA FrontProps ==
  ASSUME NEW S, NEW s \in Seq(S), Len(s) >= 2
  PROVE  LET t == SubSeq(s, 1, Len(s) - 1)
         IN  /\ t \in Seq(S) /\ Len(t) = Len(s) - 1 /\ t # <<>>
             /\ \A i \in 1 .. Len(s) - 1 : t[i] = s[i]
BY SMTT(30)

(* The stack with its top replaced, without it, and with one frame more.   *)
LEMMA StackProps ==
  ASSUME TypeOK
  PROVE  /\ Len(stack) \in Nat \ {0} /\ Top \in FrameSet
         /\ \A i \in 1 .. Len(stack) : stack[i] \in FrameSet
BY DEF TypeOK, Top

LEMMA WithProps ==
  ASSUME TypeOK, NEW g \in FrameSet
  PROVE  /\ With(g) \in Seq(FrameSet) /\ Len(With(g)) = Len(stack) /\ With(g) # <<>>
         /\ \A i \in 1 .. Len(stack) : With(g)[i] = IF i = Len(stack) THEN g ELSE stack[i]
<1>1. stack \in Seq(FrameSet) /\ stack # <<>> /\ Len(stack) \in 1 .. Len(stack)
  BY StackProps DEF TypeOK
<1>2. /\ With(g) \in Seq(FrameSet) /\ Len(With(g)) = Len(stack)
      /\ \A i \in 1 .. Len(stack) : With(g)[i] = IF i = Len(stack) THEN g ELSE stack[i]
  BY <1>1, ExceptSeq DEF With
<1>3. QED BY <1>1, <1>2

LEMMA UsedProps ==
  ASSUME TypeOK
  PROVE  /\ [Top EXCEPT !.due = FALSE] \in FrameSet
         /\ Used \in Seq(FrameSet) /\ Len(Used) = Len(stack) /\ Used # <<>>
         /\ \A i \in 1 .. Len(stack) :
              Used[i] = IF i = Len(stack) THEN [Top EXCEPT !.due = FALSE] ELSE stack[i]
<1>1. [Top EXCEPT !.due = FALSE] \in FrameSet
  BY StackProps DEF FrameSet
<1>2. QED BY <1>1, WithProps DEF Used

LEMMA ClosedProps ==
  ASSUME TypeOK, Len(stack) >= 2
  PROVE  /\ Closed \in Seq(FrameSet) /\ Len(Closed) = Len(stack) - 1 /\ Closed # <<>>
         /\ \A i \in 1 .. Len(stack) - 1 : Closed[i] = stack[i]
BY FrontProps DEF TypeOK, Closed

LEMMA PushProps ==
  ASSUME TypeOK, NEW f \in FrameSet
  PROVE  LET s == Append(Used, f)
         IN  /\ s \in Seq(FrameSet) /\ Len(s) = Len(stack) + 1 /\ s # <<>>
             /\ s[Len(stack) + 1] = f
             /\ \A i \in 1 .. Len(stack) :
                  s[i] = IF i = Len(stack) THEN [Top EXCEPT !.due = FALSE] ELSE stack[i]
<1>1. /\ Used \in Seq(FrameSet) /\ Len(Used) = Len(stack) /\ Len(stack) \in Nat
      /\ \A i \in 1 .. Len(stack) :
           Used[i] = IF i = Len(stack) THEN [Top EXCEPT !.due = FALSE] ELSE stack[i]
  BY StackProps, UsedProps
<1>2. /\ Append(Used, f) \in Seq(FrameSet) /\ Len(Append(Used, f)) = Len(Used) + 1
      /\ Append(Used, f) # <<>> /\ Append(Used, f)[Len(Used) + 1] = f
      /\ \A i \in 1 .. Len(Used) : Append(Used, f)[i] = Used[i]
  BY <1>1, AppendProps
<1>3. QED BY <1>1, <1>2

LEMMA FrameTyped ==
  ASSUME NEW kind \in {"array", "object", "binary"}, NEW n \in Nat, NEW slot \in Nat
  PROVE  /\ Frame(kind, n, slot) \in FrameSet
         /\ Frame(kind, n, slot).kind = kind /\ Frame(kind, n, slot).slot = slot
         /\ Frame(kind, n, slot).left = n /\ Frame(kind, n, slot).count = n
         /\ ~Frame(kind, n, slot).due
BY DEF Frame, FrameSet
-----------------------------------------------------------------------------
(* How the stack stays in order: a value of one token, a value begun, the  *)
(* top of the stack changed, and a value ended.                            *)
Recorded(p) == wrote' = Append(wrote, p)
Pushed(f)   == stack' = Append(Used, f)
Fresh(f)    == /\ f.kind \in {"array", "object", "binary"} /\ ~f.due
               /\ f.kind = "array" => f.left <= f.count /\ f.slot # 0

LEMMA PartRecorded ==
  ASSUME TypeOK, NEW p \in Part, Recorded(p)
  PROVE  /\ wrote' \in Seq(Part) /\ Len(wrote) \in Nat /\ Len(wrote') = Len(wrote) + 1
         /\ wrote' # <<>> /\ wrote'[Len(wrote) + 1] = p
         /\ \A i \in 1 .. Len(wrote) : wrote'[i] = wrote[i]
         /\ wrote # <<>> => wrote'[1] = wrote[1]
<1>1. wrote \in Seq(Part)
  BY DEF TypeOK
<1>2. QED BY <1>1, AppendProps DEF Recorded

(* Below a value, and below a frame that is pushed, only the top has       *)
(* changed: it is not due any more.                                        *)
LEMMA BelowProps ==
  ASSUME TypeOK, NEW st,
         \A i \in 1 .. Len(stack) :
           st[i] = IF i = Len(stack) THEN [Top EXCEPT !.due = FALSE] ELSE stack[i]
  PROVE  /\ \A i \in 1 .. Len(stack) : /\ st[i].kind = stack[i].kind /\ st[i].left = stack[i].left
                                       /\ st[i].count = stack[i].count /\ st[i].slot = stack[i].slot
         /\ ~st[Len(stack)].due
         /\ \A i \in 1 .. Len(stack) - 1 : st[i].due = stack[i].due
<1>1. /\ Len(stack) \in Nat \ {0} /\ Top = stack[Len(stack)] /\ Top \in FrameSet
  BY StackProps DEF Top
<1>2. LET f == [Top EXCEPT !.due = FALSE]
      IN  f.kind = Top.kind /\ f.left = Top.left /\ f.count = Top.count /\ f.slot = Top.slot /\ ~f.due
  BY <1>1 DEF FrameSet
<1>3. ASSUME NEW i \in 1 .. Len(stack)
      PROVE  /\ st[i].kind = stack[i].kind /\ st[i].left = stack[i].left
             /\ st[i].count = stack[i].count /\ st[i].slot = stack[i].slot
  <2>1. CASE i = Len(stack)
    BY <1>1, <1>2, <2>1
  <2>2. CASE i # Len(stack)
    BY <2>2
  <2>3. QED BY <2>1, <2>2
<1>4. ~st[Len(stack)].due
  <2>1. Len(stack) \in 1 .. Len(stack)
    BY <1>1
  <2>2. st[Len(stack)] = [Top EXCEPT !.due = FALSE]
    BY <2>1
  <2>3. QED BY <1>2, <2>2
<1>5. ASSUME NEW i \in 1 .. Len(stack) - 1 PROVE st[i].due = stack[i].due
  BY <1>1
<1>6. QED BY <1>3, <1>4, <1>5

LEMMA UsedStackOK ==
  ASSUME TypeOK, StackOK, Top.due, NEW p \in Part, Recorded(p), stack' = Used
  PROVE  StackOK'
<1>1. Len(stack) \in Nat \ {0} /\ Len(stack') = Len(stack) /\ Top = stack[Len(stack)]
  BY StackProps, UsedProps DEF Top
<1>2. /\ wrote' # <<>> /\ (wrote # <<>> => wrote'[1] = wrote[1])
  BY PartRecorded
<1>3. /\ \A i \in 1 .. Len(stack) :
           /\ stack'[i].kind = stack[i].kind /\ stack'[i].left = stack[i].left
           /\ stack'[i].count = stack[i].count /\ stack'[i].slot = stack[i].slot
      /\ ~stack'[Len(stack)].due
      /\ \A i \in 1 .. Len(stack) - 1 : stack'[i].due = stack[i].due
  <2>1. \A i \in 1 .. Len(stack) :
          stack'[i] = IF i = Len(stack) THEN [Top EXCEPT !.due = FALSE] ELSE stack[i]
    <3>1. \A i \in 1 .. Len(stack) :
            Used[i] = IF i = Len(stack) THEN [Top EXCEPT !.due = FALSE] ELSE stack[i]
      BY UsedProps
    <3>2. QED BY <3>1
  <2>2. QED BY ONLY TypeOK, <2>1, BelowProps
<1>4. ~stack'[1].due
  <2>1. CASE Len(stack) = 1
    BY <1>3, <2>1
  <2>2. CASE Len(stack) > 1
    <3>1. stack'[1].due = stack[1].due
      BY <1>1, <1>3, <2>2
    <3>2. QED BY <2>2, <1>1, <3>1 DEF StackOK
  <2>3. QED BY <1>1, <2>1, <2>2
<1>5. Len(stack) >= 2 => wrote # <<>> /\ stack[2].kind = wrote[1].kind
  BY DEF StackOK
<1>6. ASSUME NEW i \in 2 .. Len(stack) PROVE FrameOK(i)'
  <2>1. FrameOK(i)
    BY DEF StackOK
  <2>2. /\ stack'[i].kind = stack[i].kind /\ stack'[i].left = stack[i].left
        /\ stack'[i].count = stack[i].count /\ stack'[i].slot = stack[i].slot
    BY <1>1, <1>3
  <2>3. CASE i = Len(stack)
    <3>1. stack[i].kind # "binary" /\ (stack[i].kind = "object" => stack[i].slot # 0)
      BY <1>1, <2>1, <2>3 DEF FrameOK
    <3>2. QED BY <1>1, <1>3, <2>1, <2>2, <2>3, <3>1 DEF FrameOK
  <2>4. CASE i < Len(stack)
    <3>1. stack[i].kind # "binary"
      BY <1>1, <2>1, <2>4 DEF FrameOK
    <3>2. QED BY <1>1, <2>1, <2>2, <2>4, <3>1 DEF FrameOK
  <2>5. QED BY <1>1, <2>3, <2>4
<1>7. stack'[1].kind = "doc"
  BY <1>1, <1>3 DEF StackOK
<1>8. Len(stack) >= 2 => stack'[2].kind = stack[2].kind
  BY <1>1, <1>3
<1>9. \A i \in 2 .. Len(stack') : FrameOK(i)'
  BY <1>1, <1>6
<1>10. QED BY <1>1, <1>2, <1>4, <1>5, <1>7, <1>8, <1>9 DEF StackOK

LEMMA PushStackOK ==
  ASSUME TypeOK, StackOK, Top.due, NEW p \in Part, Recorded(p),
         NEW f \in FrameSet, Pushed(f),
         Fresh(f), f.kind = p.kind
  PROVE  StackOK'
<1>1. Len(stack) \in Nat \ {0} /\ Len(stack') = Len(stack) + 1 /\ Top = stack[Len(stack)]
  BY StackProps, PushProps DEF Top, Pushed
<1>2. /\ wrote' # <<>> /\ (wrote # <<>> => wrote'[1] = wrote[1])
      /\ Len(wrote) \in Nat /\ Len(wrote') = Len(wrote) + 1 /\ wrote'[Len(wrote')] = p
      /\ (wrote = <<>> => Len(wrote) = 0)
  BY PartRecorded
<1>3. /\ \A i \in 1 .. Len(stack) :
           /\ stack'[i].kind = stack[i].kind /\ stack'[i].left = stack[i].left
           /\ stack'[i].count = stack[i].count /\ stack'[i].slot = stack[i].slot
      /\ ~stack'[Len(stack)].due
      /\ \A i \in 1 .. Len(stack) - 1 : stack'[i].due = stack[i].due
  <2>1. \A i \in 1 .. Len(stack) :
          stack'[i] = IF i = Len(stack) THEN [Top EXCEPT !.due = FALSE] ELSE stack[i]
    BY PushProps DEF Pushed
  <2>2. QED BY ONLY TypeOK, <2>1, BelowProps
<1>4. stack'[Len(stack) + 1] = f
  BY PushProps DEF Pushed
<1>5. stack'[1].kind = "doc"
  BY <1>1, <1>3 DEF StackOK
<1>6. ~stack'[1].due /\ stack'[2].kind = wrote'[1].kind
  <2>1. CASE Len(stack) = 1
    <3>1. wrote = <<>>
      BY <1>1, <2>1 DEF StackOK
    <3>2. stack'[2] = f /\ wrote'[1] = p
      BY <1>2, <1>4, <2>1, <3>1
    <3>3. ~stack'[1].due
      BY <1>3, <2>1
    <3>4. QED BY <3>2, <3>3
  <2>2. CASE Len(stack) > 1
    <3>1. wrote # <<>> /\ stack[2].kind = wrote[1].kind /\ ~stack[1].due
      BY <1>1, <2>2 DEF StackOK
    <3>2. stack'[1].due = stack[1].due /\ stack'[2].kind = stack[2].kind
      BY <1>1, <1>3, <2>2
    <3>3. QED BY <1>2, <3>1, <3>2
  <2>3. Len(stack) = 1 \/ Len(stack) > 1
    <3>1. \A n \in Nat \ {0} : n = 1 \/ n > 1
      OBVIOUS
    <3>2. QED BY <1>1, <3>1, Zenon
  <2>4. QED BY <2>1, <2>2, <2>3
<1>7. ASSUME NEW i \in 2 .. Len(stack) PROVE FrameOK(i)'
  <2>1. FrameOK(i)
    BY DEF StackOK
  <2>2. /\ stack'[i].kind = stack[i].kind /\ stack'[i].left = stack[i].left
        /\ stack'[i].count = stack[i].count /\ stack'[i].slot = stack[i].slot
    BY <1>1, <1>3
  <2>3. stack[i].kind # "binary" /\ (stack[i].kind = "object" => stack[i].slot # 0)
    BY <1>1, <2>1 DEF FrameOK
  <2>4. QED BY <2>1, <2>2, <2>3 DEF FrameOK
<1>8. ASSUME NEW i, i = Len(stack) + 1 PROVE FrameOK(i)'
  <2>1. stack'[i] = f /\ i = Len(stack')
    BY <1>1, <1>4, <1>8
  <2>2. f.kind = "binary" => wrote'[Len(wrote')].kind = "binary"
    BY <1>2
  <2>3. QED BY <1>1, <1>2, <1>8, <2>1, <2>2 DEF FrameOK, Fresh
<1>9. \A i \in 2 .. Len(stack') : FrameOK(i)'
  BY <1>1, <1>7, <1>8
<1>10. QED BY <1>2, <1>5, <1>6, <1>9 DEF StackOK

LEMMA TopStackOK ==
  ASSUME TypeOK, StackOK, Len(stack) >= 2, NEW g \in FrameSet, stack' = With(g),
         g.kind = Top.kind, g.kind # "doc",
         g.kind = "array" => g.left <= g.count /\ g.slot # 0,
         g.kind = "object" /\ g.due => g.slot # 0,
         g.kind = "binary" => ~g.due,
         wrote' = wrote \/ (g.kind # "binary" /\ \E p \in Part : Recorded(p))
  PROVE  StackOK'
<1>1. /\ Len(stack) \in Nat \ {0} /\ Len(stack') = Len(stack)
      /\ \A i \in 1 .. Len(stack) : stack'[i] = IF i = Len(stack) THEN g ELSE stack[i]
      /\ \A i \in 1 .. Len(stack) : stack[i] \in FrameSet
      /\ Top = stack[Len(stack)]
  BY StackProps, WithProps DEF Top
<1>2. wrote # <<>> /\ wrote' # <<>> /\ wrote'[1] = wrote[1]
  BY PartRecorded DEF StackOK
<1>3. ASSUME NEW i \in 2 .. Len(stack) PROVE FrameOK(i)'
  <2>1. CASE i = Len(stack)
    BY <1>1, <2>1 DEF StackOK, FrameOK
  <2>2. CASE i < Len(stack)
    BY <1>1, <2>2 DEF StackOK, FrameOK
  <2>3. QED BY <2>1, <2>2
<1>4. QED BY <1>1, <1>2, <1>3 DEF StackOK

LEMMA PopStackOK ==
  ASSUME TypeOK, StackOK, Len(stack) >= 2, stack' = Closed,
         wrote' = wrote \/ \E p \in Part : Recorded(p)
  PROVE  StackOK'
<1>1. /\ Len(stack) \in Nat \ {0} /\ Len(stack') = Len(stack) - 1
      /\ \A i \in 1 .. Len(stack) - 1 : stack'[i] = stack[i]
      /\ \A i \in 1 .. Len(stack) : stack[i] \in FrameSet
  BY StackProps, ClosedProps
<1>2. wrote # <<>> /\ wrote' # <<>> /\ wrote'[1] = wrote[1]
  BY PartRecorded DEF StackOK
<1>3. ASSUME NEW i \in 2 .. Len(stack) - 1 PROVE FrameOK(i)'
  BY <1>1 DEF StackOK, FrameOK
<1>4. QED BY <1>1, <1>2, <1>3 DEF StackOK
-----------------------------------------------------------------------------
(* The words: left zero, or filled with a position that is a u32.          *)
WordsTyped == \A o \in DOMAIN words : o \in Nat /\ words[o] \in 0 .. Word - 1

LEMMA ZerosTyped ==
  ASSUME TypeOK, NEW places \in SUBSET Nat, Zeros(places)
  PROVE  WordsTyped'
<1>1. 0 \in 0 .. Word - 1
  BY WordAssumption DEF WordAssumption
<1>2. ASSUME NEW o \in DOMAIN words \cup places
      PROVE  o \in Nat /\ words'[o] \in 0 .. Word - 1
  <2>1. words'[o] = IF o \in places THEN 0 ELSE words[o]
    BY DEF Zeros
  <2>2. QED BY <1>1, <2>1 DEF TypeOK
<1>3. DOMAIN words' = DOMAIN words \cup places
  BY DEF Zeros
<1>4. QED BY <1>2, <1>3 DEF WordsTyped

LEMMA PatchTyped ==
  ASSUME TypeOK, NEW o \in Nat, len < Word, patch_u32(o, len)
  PROVE  WordsTyped'
<1>1. len \in 0 .. Word - 1
  BY WordAssumption DEF TypeOK, WordAssumption
<1>2. QED BY <1>1 DEF TypeOK, patch_u32, Mutated, WordsTyped

(* The tables and the references, when a token has been appended: its text *)
(* is the one asked for, and a table knows no more than that text.         *)
Extended == /\ Len(wrote) <= Len(wrote')
            /\ \A i \in 1 .. Len(wrote) : wrote'[i] = wrote[i]
Knows(f, g, tags, tok) ==
  \A s \in DOMAIN g : \/ s \in DOMAIN f /\ g[s] = f[s]
                      \/ tok.tag \in tags /\ tok.str = Append(s, "NUL") /\ g[s] = len + 5

LEMMA TableGrows ==
  ASSUME TypeOK, NEW tok \in CToken, Size(tok) \in Nat, NEW part \in Nat, Emit(tok, part),
         NEW f, NEW g, NEW tags \in SUBSET CompactDefs, TableOK(f, tags), Knows(f, g, tags, tok)
  PROVE  \A s \in DOMAIN g : \E j \in DOMAIN bytes' :
           Stands(bytes'[j], s) /\ bytes'[j].tok.tag \in tags /\ g[s] = bytes'[j].at + 5
<1> SUFFICES ASSUME NEW s \in DOMAIN g
             PROVE  \E j \in DOMAIN bytes' : /\ Stands(bytes'[j], s) /\ bytes'[j].tok.tag \in tags
                                            /\ g[s] = bytes'[j].at + 5
  OBVIOUS
<1>1. /\ Len(bytes) \in Nat /\ DOMAIN bytes = 1 .. Len(bytes) /\ DOMAIN bytes' = 1 .. Len(bytes) + 1
      /\ \A i \in DOMAIN bytes : bytes'[i] = bytes[i]
      /\ bytes'[Len(bytes) + 1] = [at |-> len, tok |-> tok, of |-> part]
  BY EmitProps
<1>2. CASE s \in DOMAIN f /\ g[s] = f[s]
  <2>1. PICK j \in DOMAIN bytes :
          Stands(bytes[j], s) /\ bytes[j].tok.tag \in tags /\ f[s] = bytes[j].at + 5
    BY <1>2 DEF TableOK
  <2>2. j \in DOMAIN bytes' /\ bytes'[j] = bytes[j]
    BY <1>1
  <2>3. QED BY <1>2, <2>1, <2>2
<1>3. CASE tok.tag \in tags /\ tok.str = Append(s, "NUL") /\ g[s] = len + 5
  <2> DEFINE k == Len(bytes) + 1
  <2>1. k \in DOMAIN bytes' /\ bytes'[k].tok = tok /\ bytes'[k].at = len
    BY <1>1
  <2>. HIDE DEF k
  <2>2. Stands(bytes'[k], s)
    BY <1>3, <2>1 DEF Stands
  <2>3. QED BY <1>3, <2>1, <2>2
<1>4. QED BY <1>2, <1>3 DEF Knows

LEMMA TablesGrow ==
  ASSUME TypeOK, TablesOK, NEW tok \in CToken, Size(tok) \in Nat, NEW part \in Nat, Emit(tok, part),
         Extended, Len(wrote) \in Nat, Len(wrote') \in Nat,
         tok.tag \in CompactDefs \cup CompactRefs => part \in 1 .. Len(wrote'),
         NEW k, k = Len(bytes) + 1, NEW asked, asked = Asked(bytes[k])',
         tok.tag \in CompactDefs => tok.str = Append(asked, "NUL"),
         tok.tag \in CompactRefs =>
           \E j \in DOMAIN bytes : /\ Stands(bytes[j], asked) /\ bytes[j].tok.tag \in DefsOf(tok.tag)
                                   /\ tok.word = bytes[j].at + 5,
         Knows(latin1_offsets, latin1_offsets', Latin1Defs, tok),
         Knows(utf32_offsets, utf32_offsets', Utf32Defs, tok)
  PROVE  TablesOK'
<1>1. /\ Len(bytes) \in Nat /\ DOMAIN bytes = 1 .. Len(bytes) /\ DOMAIN bytes' = 1 .. k
      /\ \A i \in DOMAIN bytes : bytes'[i] = bytes[i]
      /\ bytes'[k] = [at |-> len, tok |-> tok, of |-> part]
  BY EmitProps
<1>2. bytes'[k].tok = tok /\ bytes'[k].of = part
  BY <1>1
<1>3. \A i \in DOMAIN bytes' : i \in DOMAIN bytes \/ i = k
  BY <1>1
<1>4. ASSUME NEW i \in DOMAIN bytes', bytes'[i].tok.tag \in CompactDefs \cup CompactRefs
      PROVE  bytes'[i].of \in 1 .. Len(wrote')
  <2>1. CASE i \in DOMAIN bytes
    <3>1. bytes[i].of \in 1 .. Len(wrote)
      BY <1>1, <1>4, <2>1 DEF TablesOK
    <3>2. QED BY <1>1, <2>1, <3>1 DEF Extended
  <2>2. CASE i = k
    BY <1>2, <1>4, <2>2
  <2>3. QED BY <1>3, <2>1, <2>2
<1>5. TableOK(latin1_offsets, Latin1Defs)'
  BY TableGrows DEF TablesOK, TableOK, CompactDefs
<1>6. TableOK(utf32_offsets, Utf32Defs)'
  BY TableGrows DEF TablesOK, TableOK, CompactDefs
<1>7. ASSUME NEW i \in DOMAIN bytes', bytes'[i].tok.tag \in CompactDefs
      PROVE  Stands(bytes'[i], Asked(bytes[i])')
  <2>1. CASE i \in DOMAIN bytes
    <3>1. Stands(bytes[i], Asked(bytes[i])) /\ bytes[i].of \in 1 .. Len(wrote) /\ bytes'[i] = bytes[i]
      BY <1>1, <1>7, <2>1 DEF TablesOK, OffsetsResolve
    <3>2. Asked(bytes[i])' = Asked(bytes[i])
      BY <3>1 DEF Asked, Extended
    <3>3. QED BY <3>1, <3>2
  <2>2. CASE i = k
    BY <1>2, <1>7, <2>2 DEF Stands
  <2>3. QED BY <1>3, <2>1, <2>2
<1>8. ASSUME NEW i \in DOMAIN bytes', bytes'[i].tok.tag \in CompactRefs
      PROVE  \E j \in 1 .. i - 1 : /\ Stands(bytes'[j], Asked(bytes[i])')
                                   /\ bytes'[j].tok.tag \in DefsOf(bytes'[i].tok.tag)
                                   /\ bytes'[i].tok.word = bytes'[j].at + 5
  <2>1. CASE i \in DOMAIN bytes
    <3>1. bytes[i].of \in 1 .. Len(wrote) /\ bytes'[i] = bytes[i]
      BY <1>1, <1>8, <2>1 DEF TablesOK
    <3>2. PICK j \in 1 .. i - 1 : /\ Stands(bytes[j], Asked(bytes[i]))
                                 /\ bytes[j].tok.tag \in DefsOf(bytes[i].tok.tag)
                                 /\ bytes[i].tok.word = bytes[j].at + 5
      BY <1>8, <2>1, <3>1 DEF TablesOK, OffsetsResolve
    <3>3. Asked(bytes[i])' = Asked(bytes[i])
      BY <3>1 DEF Asked, Extended
    <3>4. bytes'[j] = bytes[j]
      BY <1>1, <2>1
    <3>5. QED BY <3>1, <3>2, <3>3, <3>4
  <2>2. CASE i = k
    <3>1. PICK j \in DOMAIN bytes : /\ Stands(bytes[j], asked) /\ bytes[j].tok.tag \in DefsOf(tok.tag)
                                   /\ tok.word = bytes[j].at + 5
      BY <1>2, <1>8, <2>2
    <3>2. j \in 1 .. i - 1 /\ bytes'[j] = bytes[j]
      BY <1>1, <2>2
    <3>3. QED BY <1>2, <2>2, <3>1, <3>2
  <2>3. QED BY <1>3, <2>1, <2>2
<1>9. OffsetsResolve'
  BY <1>7, <1>8 DEF OffsetsResolve
<1>10. QED BY <1>4, <1>5, <1>6, <1>9 DEF TablesOK

LEMMA PlainTables ==
  ASSUME TypeOK, TablesOK, NEW tok \in CToken, Size(tok) \in Nat, NEW part \in Nat, Emit(tok, part),
         Extended, Len(wrote) \in Nat, Len(wrote') \in Nat,
         tok.tag \notin CompactDefs \cup CompactRefs, UNCHANGED offsets
  PROVE  TablesOK'
<1>1. latin1_offsets' = latin1_offsets /\ utf32_offsets' = utf32_offsets
  BY DEF offsets
<1>2. /\ Knows(latin1_offsets, latin1_offsets', Latin1Defs, tok)
      /\ Knows(utf32_offsets, utf32_offsets', Utf32Defs, tok)
  BY <1>1 DEF Knows
<1>3. QED BY <1>2, TablesGrow
-----------------------------------------------------------------------------
(* The lengths, when a token has been appended.                            *)
LEMMA FitGrows ==
  ASSUME TypeOK, FitOK, NEW tok \in CToken, Size(tok) \in Nat, NEW part \in Nat, Emit(tok, part),
         result \in {"new", "run"}, result' = "run",
         Fits(tok) \/ Size(tok) >= Word,
         wrote' = <<>> => wrote = <<>> /\ Fits(tok),
         wrote # <<>> => wrote'[1] = wrote[1],
         wrote' # <<>> /\ wrote'[1].kind \in Containers /\ ~(AllFit /\ Fits(tok)) =>
           Len(stack') >= 2 /\ stack'[2].slot # 0
  PROVE  FitOK'
<1>1. /\ Len(bytes) \in Nat /\ DOMAIN bytes = 1 .. Len(bytes) /\ DOMAIN bytes' = 1 .. Len(bytes) + 1
      /\ \A i \in DOMAIN bytes : bytes'[i] = bytes[i]
      /\ bytes'[Len(bytes) + 1] = [at |-> len, tok |-> tok, of |-> part]
      /\ len \in Nat /\ len' = len + Size(tok)
  BY EmitProps DEF TypeOK
<1>2. AllFit /\ Fits(tok) => AllFit'
  BY <1>1 DEF AllFit
<1>3. len' >= len /\ len' >= Size(tok)
  BY <1>1
<1>4. wrote = <<>> => AllFit
  BY DEF FitOK
<1>5. ASSUME wrote' # <<>>, wrote'[1].kind \in Containers, ~(AllFit /\ Fits(tok))
      PROVE  Pending'
  <2>1. len' >= Word
    <3>1. CASE ~Fits(tok)
      BY <1>1, <1>3, <3>1, WordAssumption DEF WordAssumption
    <3>2. CASE ~AllFit
      <4>1. len >= Word
        BY <1>4, <1>5, <3>2 DEF FitOK, Pending
      <4>2. QED BY <1>1, <4>1, WordAssumption DEF WordAssumption
    <3>3. QED BY <1>5, <3>1, <3>2
  <2>2. QED BY <1>5, <2>1 DEF Pending
<1>6. QED BY <1>2, <1>4, <1>5 DEF FitOK

(* While a value is due, or a blob is being written, the root container    *)
(* has yet to ask for a position.                                          *)
LEMMA RootAsks ==
  ASSUME TypeOK, StackOK, wrote # <<>>, wrote[1].kind \in Containers,
         Top.due \/ Top.kind = "binary"
  PROVE  Len(stack) >= 2 /\ stack[2].slot # 0
<1>1. Len(stack) \in Nat \ {0} /\ Top = stack[Len(stack)]
  BY StackProps DEF Top
<1>2. ~stack[1].due /\ stack[1].kind = "doc"
  BY DEF StackOK
<1>3. Len(stack) >= 2
  BY <1>1, <1>2
<1>4. FrameOK(2) /\ stack[2].kind \in Containers
  BY <1>1, <1>3 DEF StackOK
<1>5. CASE stack[2].kind = "array"
  BY <1>3, <1>4, <1>5 DEF FrameOK
<1>6. CASE stack[2].kind = "object"
  <2>1. 2 < Len(stack) \/ stack[2].due
    BY <1>1, <1>3, <1>6
  <2>2. QED BY <1>3, <1>4, <1>6, <2>1 DEF FrameOK
<1>7. QED BY <1>4, <1>5, <1>6 DEF Containers
-----------------------------------------------------------------------------
(* The steps, one lemma for each kind.                                     *)
LEMMA RecordedExtends ==
  ASSUME TypeOK, NEW p \in Part, Recorded(p)
  PROVE  Extended /\ Len(wrote) \in Nat /\ Len(wrote') = Len(wrote) + 1
BY PartRecorded DEF Extended

LEMMA UsedRootAsks ==
  ASSUME TypeOK, StackOK, Top.due, NEW p \in Part, p.kind \notin Containers, Recorded(p),
         stack' = Used, wrote'[1].kind \in Containers
  PROVE  Len(stack') >= 2 /\ stack'[2].slot # 0
<1>1. Len(wrote) \in Nat /\ wrote'[Len(wrote) + 1] = p /\ (wrote # <<>> => wrote'[1] = wrote[1])
  BY PartRecorded
<1>2. wrote # <<>>
  <2>1. SUFFICES ASSUME wrote = <<>> PROVE FALSE
    OBVIOUS
  <2>2. Len(wrote) = 0
    BY <2>1
  <2>3. wrote'[1] = p
    BY <1>1, <2>2
  <2>4. QED BY <2>3
<1>3. Len(stack) >= 2 /\ stack[2].slot # 0
  BY <1>1, <1>2, RootAsks
<1>4. /\ Len(stack) \in Nat /\ Len(Used) = Len(stack)
      /\ \A i \in 1 .. Len(stack) : Used[i].slot = stack[i].slot
  BY StackProps, UsedProps, BelowProps
<1>5. QED BY <1>3, <1>4

(* A value of one token that is no string.                                 *)
LEMMA ScalarStep == ASSUME IInv, NEW v \in Scalars, write_scalar(v) PROVE IInv'
<1> DEFINE tok == ScalarToken(v)
           part == Len(wrote) + 1
<1>1. TypeOK /\ StackOK /\ TablesOK /\ FitOK
  BY DEF IInv
<1>2. /\ result = "run" /\ result' = "run" /\ Top.due /\ stack' = Used
      /\ Emit(tok, part) /\ Recorded(v)
      /\ words' = words /\ file' = file /\ latin1_offsets' = latin1_offsets /\ utf32_offsets' = utf32_offsets
  BY DEF write_scalar, ValueDue, Recorded, offsets
<1>3. v \in Part /\ v.kind \notin Containers
  BY DEF Part, Scalars, Containers
<1>4. tok \in CToken
  BY DEF CToken
<1>5. /\ Size(tok) \in Nat /\ tok.tag \notin CompactDefs \cup CompactRefs
      /\ tok.tag \notin {"CompactArrayBegin", "(raw)"}
  BY ScalarTokenProps
<1>6. Fits(tok)
  BY <1>5 DEF Fits, CompactDefs
<1>7. part \in Nat /\ wrote' \in Seq(Part) /\ Len(wrote) \in Nat /\ Len(wrote') = Len(wrote) + 1 /\ Extended
      /\ wrote' # <<>> /\ wrote'[Len(wrote) + 1] = v /\ (wrote # <<>> => wrote'[1] = wrote[1])
  BY <1>1, <1>2, <1>3, PartRecorded, RecordedExtends
<1>. HIDE DEF tok, part
<1>8. TypeOK'
  <2>1. bytes' \in Seq(Item) /\ len' \in Nat
    BY <1>1, <1>2, <1>4, <1>5, <1>7, EmitProps
  <2>2. stack' \in Seq(FrameSet) /\ stack' # <<>>
    BY <1>1, <1>2, UsedProps
  <2>3. QED BY <1>1, <1>2, <1>7, <2>1, <2>2 DEF TypeOK
<1>9. StackOK'
  BY <1>1, <1>2, <1>3, UsedStackOK
<1>10. TablesOK'
  BY <1>1, <1>2, <1>4, <1>5, <1>7, PlainTables DEF offsets
<1>11. FitOK'
  <2>1. ASSUME wrote'[1].kind \in Containers PROVE Len(stack') >= 2 /\ stack'[2].slot # 0
    BY <1>1, <1>2, <1>3, <2>1, UsedRootAsks
  <2>2. QED BY <1>1, <1>2, <1>4, <1>5, <1>6, <1>7, <2>1, FitGrows
<1>12. QED BY <1>8, <1>9, <1>10, <1>11 DEF IInv
(* A string: one token, a definition or a reference, the tables and the    *)
(* word after it.                                                          *)
StringEmitted(tok, paired, part) ==
  /\ Size(tok) \in Nat /\ Size(tok) >= (IF paired THEN 9 ELSE 5)
  /\ Fits(tok) \/ Size(tok) >= Word
  /\ Emit(tok, part) /\ Placeholder(tok, paired)
OffsetsTyped ==
  /\ DOMAIN latin1_offsets \subseteq Texts /\ DOMAIN utf32_offsets \subseteq Strings
  /\ \A s \in DOMAIN latin1_offsets : latin1_offsets[s] \in 0 .. Word - 1
  /\ \A s \in DOMAIN utf32_offsets : utf32_offsets[s] \in 0 .. Word - 1

LEMMA ReferenceEmits ==
  ASSUME TypeOK, TablesOK, NEW s \in Texts, NEW wide \in BOOLEAN, NEW paired \in BOOLEAN,
         NEW part \in Nat, part \in 1 .. Len(wrote'),
         Extended, Len(wrote) \in Nat, Len(wrote') \in Nat,
         NEW k, k = Len(bytes) + 1, s = Asked(bytes[k])',
         s \in DOMAIN Offsets(wide), Emit(RefToken(s, wide, paired), part),
         Placeholder(RefToken(s, wide, paired), paired), UNCHANGED offsets
  PROVE  /\ \E tok \in CToken : StringEmitted(tok, paired, part)
         /\ OffsetsTyped' /\ TablesOK'
<1> DEFINE tok == RefToken(s, wide, paired)
<1>1. Offsets(wide) = IF wide THEN utf32_offsets ELSE latin1_offsets
  BY DEF Offsets
<1>2. Offsets(wide)[s] \in Nat
  <2>1. Offsets(wide)[s] \in 0 .. Word - 1
    BY <1>1 DEF TypeOK
  <2>2. QED BY <2>1, WordAssumption DEF WordAssumption
<1>3. /\ tok \in CToken /\ tok.tag \in (IF wide THEN Utf32Refs ELSE Latin1Refs)
      /\ tok.word = Offsets(wide)[s]
      /\ Size(tok) \in Nat /\ Size(tok) >= (IF paired THEN 9 ELSE 5) /\ Fits(tok)
  BY <1>2, RefTokenProps
<1>. HIDE DEF tok
<1>4. StringEmitted(tok, paired, part)
  BY <1>3 DEF StringEmitted, tok
<1>5. latin1_offsets' = latin1_offsets /\ utf32_offsets' = utf32_offsets
  BY DEF offsets
<1>6. OffsetsTyped'
  BY <1>5 DEF TypeOK, OffsetsTyped
<1>7. /\ Knows(latin1_offsets, latin1_offsets', Latin1Defs, tok)
      /\ Knows(utf32_offsets, utf32_offsets', Utf32Defs, tok)
  BY <1>5 DEF Knows
<1>8. tok.tag \notin CompactDefs
  BY <1>3 DEF CompactDefs, Latin1Defs, Utf32Defs, Latin1Refs, Utf32Refs
<1>9. \E j \in DOMAIN bytes : /\ Stands(bytes[j], s) /\ bytes[j].tok.tag \in DefsOf(tok.tag)
                              /\ tok.word = bytes[j].at + 5
  <2>1. CASE wide
    <3>1. DefsOf(tok.tag) = Utf32Defs
      BY <1>3, <2>1 DEF DefsOf, Utf32Refs, Latin1Refs
    <3>2. QED BY <1>1, <1>3, <2>1, <3>1 DEF TablesOK, TableOK
  <2>2. CASE ~wide
    <3>1. DefsOf(tok.tag) = Latin1Defs
      BY <1>3, <2>2 DEF DefsOf
    <3>2. QED BY <1>1, <1>3, <2>2, <3>1 DEF TablesOK, TableOK
  <2>3. QED BY <2>1, <2>2
<1>10. Emit(tok, part)
  BY DEF tok
<1>11. TablesOK'
  BY <1>3, <1>7, <1>8, <1>9, <1>10, TablesGrow
<1>12. QED BY <1>3, <1>4, <1>6, <1>11

LEMMA DefinitionEmits ==
  ASSUME TypeOK, TablesOK, NEW s \in Texts, NEW wide \in BOOLEAN, NEW paired \in BOOLEAN,
         wide => s \in Strings,
         NEW part \in Nat, part \in 1 .. Len(wrote'),
         Extended, Len(wrote) \in Nat, Len(wrote') \in Nat,
         NEW k, k = Len(bytes) + 1, s = Asked(bytes[k])',
         len + 5 < Word, Emit(DefToken(s, wide, paired), part),
         Placeholder(DefToken(s, wide, paired), paired), Learn(s, wide)
  PROVE  /\ \E tok \in CToken : StringEmitted(tok, paired, part)
         /\ OffsetsTyped' /\ TablesOK'
<1> DEFINE tok == DefToken(s, wide, paired)
<1>1. /\ tok \in CToken /\ tok.tag \in (IF wide THEN Utf32Defs ELSE Latin1Defs)
      /\ tok.str = Append(s, "NUL")
      /\ Size(tok) \in Nat /\ Size(tok) >= (IF paired THEN 9 ELSE 5)
      /\ Fits(tok) \/ Size(tok) >= Word
  BY DefTokenProps
<1>. HIDE DEF tok
<1>2. StringEmitted(tok, paired, part)
  BY <1>1 DEF StringEmitted, tok
<1>3. len + 5 \in 0 .. Word - 1
  BY WordAssumption DEF TypeOK, WordAssumption
<1> DEFINE Learned(f) == [t \in DOMAIN f \cup {s} |-> IF t = s THEN len + 5 ELSE f[t]]
<1>4. /\ latin1_offsets' = IF wide THEN latin1_offsets ELSE Learned(latin1_offsets)
      /\ utf32_offsets' = IF wide THEN Learned(utf32_offsets) ELSE utf32_offsets
  BY DEF Learn
<1>5. \A f : /\ DOMAIN Learned(f) = DOMAIN f \cup {s} /\ Learned(f)[s] = len + 5
             /\ \A t \in DOMAIN f : t # s => Learned(f)[t] = f[t]
  OBVIOUS
<1>. HIDE DEF Learned
<1>6. OffsetsTyped'
  <2>1. ASSUME NEW f, \A t \in DOMAIN f : f[t] \in 0 .. Word - 1
        PROVE  \A t \in DOMAIN Learned(f) : Learned(f)[t] \in 0 .. Word - 1
    <3>1. ASSUME NEW t \in DOMAIN Learned(f) PROVE Learned(f)[t] \in 0 .. Word - 1
      <4>1. CASE t = s
        BY <1>3, <1>5, <4>1, Zenon
      <4>2. CASE t # s
        <5>1. t \in DOMAIN f
          BY <1>5, <3>1, <4>2, Zenon
        <5>2. Learned(f)[t] = f[t]
          BY <1>5, <4>2, <5>1, Zenon
        <5>3. QED BY <2>1, <5>1, <5>2, Zenon
      <4>3. QED BY <4>1, <4>2
    <3>2. QED BY <3>1
  <2>2. /\ DOMAIN latin1_offsets \subseteq Texts /\ DOMAIN utf32_offsets \subseteq Strings
        /\ \A t \in DOMAIN latin1_offsets : latin1_offsets[t] \in 0 .. Word - 1
        /\ \A t \in DOMAIN utf32_offsets : utf32_offsets[t] \in 0 .. Word - 1
    BY DEF TypeOK
  <2>3. CASE wide
    <3>1. \A t \in DOMAIN utf32_offsets' : utf32_offsets'[t] \in 0 .. Word - 1
      BY <1>4, <2>1, <2>2, <2>3
    <3>2. DOMAIN utf32_offsets' \subseteq Strings
      BY <1>4, <1>5, <2>2, <2>3
    <3>3. QED BY <1>4, <2>2, <2>3, <3>1, <3>2 DEF OffsetsTyped
  <2>4. CASE ~wide
    <3>1. \A t \in DOMAIN latin1_offsets' : latin1_offsets'[t] \in 0 .. Word - 1
      BY <1>4, <2>1, <2>2, <2>4
    <3>2. DOMAIN latin1_offsets' \subseteq Texts
      BY <1>4, <1>5, <2>2, <2>4
    <3>3. QED BY <1>4, <2>2, <2>4, <3>1, <3>2 DEF OffsetsTyped
  <2>5. QED BY <2>3, <2>4
<1>7. tok.tag \notin CompactRefs /\ tok.tag \in CompactDefs
  BY <1>1 DEF CompactDefs, CompactRefs, Latin1Defs, Utf32Defs, Latin1Refs, Utf32Refs
<1>75. ASSUME NEW f, NEW tags, tok.tag \in tags PROVE Knows(f, Learned(f), tags, tok)
  <2>1. ASSUME NEW t \in DOMAIN Learned(f)
        PROVE  \/ t \in DOMAIN f /\ Learned(f)[t] = f[t]
               \/ tok.tag \in tags /\ tok.str = Append(t, "NUL") /\ Learned(f)[t] = len + 5
    <3>1. CASE t = s
      BY <1>1, <1>5, <1>75, <3>1, Zenon
    <3>2. CASE t # s
      BY <1>5, <2>1, <3>2, Zenon
    <3>3. QED BY <3>1, <3>2
  <2>2. QED BY <2>1 DEF Knows
<1>8. Knows(latin1_offsets, latin1_offsets', Latin1Defs, tok)
  <2>1. CASE wide
    BY <1>4, <2>1 DEF Knows
  <2>2. CASE ~wide
    BY <1>1, <1>4, <1>75, <2>2
  <2>3. QED BY <2>1, <2>2
<1>9. Knows(utf32_offsets, utf32_offsets', Utf32Defs, tok)
  <2>1. CASE wide
    BY <1>1, <1>4, <1>75, <2>1
  <2>2. CASE ~wide
    BY <1>4, <2>2 DEF Knows
  <2>3. QED BY <2>1, <2>2
<1>10. Emit(tok, part)
  BY DEF tok
<1>11. TablesOK'
  BY <1>1, <1>7, <1>8, <1>9, <1>10, TablesGrow
<1>12. QED BY <1>1, <1>2, <1>6, <1>11

LEMMA StringEmits ==
  ASSUME TypeOK, TablesOK, NEW s \in Texts, NEW wide \in BOOLEAN, NEW paired \in BOOLEAN,
         wide => s \in Strings,
         NEW part \in Nat, part \in 1 .. Len(wrote'),
         Extended, Len(wrote) \in Nat, Len(wrote') \in Nat,
         NEW k, k = Len(bytes) + 1, s = Asked(bytes[k])',
         write_compact_string(s, wide, paired, part)
  PROVE  /\ \E tok \in CToken : StringEmitted(tok, paired, part)
         /\ OffsetsTyped' /\ TablesOK'
<1>1. CASE s \in DOMAIN Offsets(wide)
  BY <1>1, ReferenceEmits DEF write_compact_string
<1>2. CASE s \notin DOMAIN Offsets(wide)
  BY <1>2, DefinitionEmits DEF write_compact_string
<1>3. QED BY <1>1, <1>2

(* The word after a key is left zero.                                      *)
LEMMA PlaceholderTyped ==
  ASSUME TypeOK, NEW tok \in CToken, NEW paired \in BOOLEAN, NEW part \in Nat,
         StringEmitted(tok, paired, part)
  PROVE  /\ WordsTyped'
         /\ paired => Aux(tok) \in Nat /\ Aux(tok) = len' - 4 /\ Aux(tok) >= len + 5
<1>1. /\ Size(tok) \in Nat /\ Size(tok) >= (IF paired THEN 9 ELSE 5) /\ len \in Nat
      /\ Emit(tok, part) /\ Placeholder(tok, paired)
  BY DEF StringEmitted, TypeOK
<1>2. len' = len + Size(tok)
  BY <1>1 DEF Emit
<1>3. CASE paired
  <2>1. Aux(tok) \in Nat /\ Aux(tok) = len' - 4 /\ Aux(tok) >= len + 5
    BY <1>1, <1>2, <1>3 DEF Aux
  <2>2. Zeros({Aux(tok)})
    BY <1>1, <1>3 DEF Placeholder
  <2>3. QED BY <2>1, <2>2, ZerosTyped
<1>4. CASE ~paired
  <2>1. words' = words
    BY <1>1, <1>4 DEF Placeholder
  <2>2. QED BY <1>4, <2>1 DEF TypeOK, WordsTyped
<1>5. QED BY <1>3, <1>4
LEMMA EmittedOf ==
  ASSUME TypeOK, NEW x, NEW part, Emit(x, part), NEW k, k = Len(bytes) + 1
  PROVE  bytes'[k].of = part
<1> DEFINE new == [at |-> len, tok |-> x, of |-> part]
<1>1. bytes \in Seq(Item) /\ bytes' = Append(bytes, new) /\ new.of = part
  BY DEF TypeOK, Emit
<1>. HIDE DEF new
<1>2. bytes \in Seq(Item \cup {new}) /\ new \in Item \cup {new}
  BY <1>1, SeqMonotonic
<1>3. bytes'[k] = new
  BY <1>1, <1>2, AppendProps
<1>4. QED BY <1>1, <1>3

(* The token belongs to a part, and the text is the one that part asks for. *)
TextOf(v) == IF v.kind = "binary" THEN HexStr(v.bytes) ELSE v.str
LEMMA AskedText ==
  ASSUME TypeOK, NEW x, NEW part, Emit(x, part), NEW k, k = Len(bytes) + 1
  PROVE  Asked(bytes[k])' = TextOf(wrote'[part])
BY EmittedOf DEF Asked, TextOf

(* An error or a panic.                                                    *)
LEMMA AbortStep == ASSUME IInv, NEW how \in {"err", "panic"}, Abort(how) PROVE IInv'
<1>1. /\ result' = how /\ stack' = stack /\ bytes' = bytes /\ len' = len /\ words' = words
      /\ latin1_offsets' = latin1_offsets /\ utf32_offsets' = utf32_offsets /\ wrote' = wrote
  BY DEF Abort, offsets
<1>2. TypeOK'
  BY <1>1 DEF IInv, TypeOK
<1>3. StackOK'
  BY <1>1 DEF IInv, StackOK, FrameOK
<1>4. TablesOK'
  BY <1>1 DEF IInv, TablesOK, TableOK, OffsetsResolve, Asked
<1>5. FitOK'
  BY <1>1 DEF IInv, FitOK, AllFit
<1>6. QED BY <1>2, <1>3, <1>4, <1>5 DEF IInv

LEMMA StringFails ==
  ASSUME IInv, NEW s, NEW wide, string_fails(s, wide)
  PROVE  IInv'
BY AbortStep DEF string_fails

LEMMA PositionFails == ASSUME IInv, position_u32_fails PROVE IInv'
BY AbortStep DEF position_u32_fails

(* A string value.                                                         *)
LEMMA StringStep == ASSUME IInv, NEW s \in Strings, write_string(s) PROVE IInv'
<1>1. TypeOK /\ StackOK /\ TablesOK /\ FitOK
  BY DEF IInv
<1>2. CASE string_fails(s, Wide(s))
  BY <1>2, StringFails
<1>3. CASE ~string_fails(s, Wide(s))
  <2> DEFINE p    == [kind |-> "string", str |-> s]
             part == Len(wrote) + 1
             wide == Wide(s)
  <2>1. /\ result = "run" /\ result' = "run" /\ Top.due /\ stack' = Used
        /\ write_compact_string(s, wide, FALSE, part) /\ Recorded(p) /\ file' = file
    BY <1>3 DEF write_string, ValueDue, Recorded
  <2>2. p \in Part /\ p.kind \notin Containers /\ p.kind # "binary" /\ p.str = s
        /\ s \in Texts /\ wide \in BOOLEAN
    BY DEF Part, Containers, Texts, Wide
  <2>. HIDE DEF p
  <2>3. wrote' \in Seq(Part) /\ Len(wrote) \in Nat /\ Len(wrote') = Len(wrote) + 1 /\ Extended
        /\ wrote' # <<>> /\ wrote'[part] = p /\ (wrote # <<>> => wrote'[1] = wrote[1])
    BY <1>1, <2>1, <2>2, PartRecorded, RecordedExtends
  <2>4. part \in Nat /\ part \in 1 .. Len(wrote') /\ Len(wrote') \in Nat
    BY <2>3
  <2>5. PICK k : k = Len(bytes) + 1
    OBVIOUS
  <2>. HIDE DEF part, wide
  <2>6. /\ \E tok \in CToken : StringEmitted(tok, FALSE, part)
        /\ OffsetsTyped' /\ TablesOK'
    <3>1. s = TextOf(wrote'[part])
      BY <2>2, <2>3 DEF TextOf
    <3>2. PICK x : Emit(x, part)
      BY <2>1 DEF write_compact_string
    <3>3. s = Asked(bytes[k])'
      BY <1>1, <2>5, <3>1, <3>2, AskedText
    <3>4. QED BY <1>1, <2>1, <2>2, <2>3, <2>4, <2>5, <3>3, StringEmits
  <2>7. PICK tok \in CToken : StringEmitted(tok, FALSE, part)
    BY <2>6
  <2>8. Size(tok) \in Nat /\ (Fits(tok) \/ Size(tok) >= Word) /\ Emit(tok, part)
    BY <2>7 DEF StringEmitted
  <2>9. TypeOK'
    <3>1. bytes' \in Seq(Item) /\ len' \in Nat
      BY <1>1, <2>4, <2>8, EmitProps
    <3>2. stack' \in Seq(FrameSet) /\ stack' # <<>>
      BY <1>1, <2>1, UsedProps
    <3>3. WordsTyped'
      BY <1>1, <2>4, <2>7, PlaceholderTyped
    <3>4. QED BY <2>1, <2>3, <2>6, <3>1, <3>2, <3>3 DEF TypeOK, OffsetsTyped, WordsTyped
  <2>10. StackOK'
    BY <1>1, <2>1, <2>2, UsedStackOK
  <2>11. FitOK'
    <3>1. ASSUME wrote'[1].kind \in Containers PROVE Len(stack') >= 2 /\ stack'[2].slot # 0
      BY <1>1, <2>1, <2>2, <2>3, <3>1, UsedRootAsks
    <3>2. QED BY <1>1, <2>1, <2>3, <2>4, <2>8, <3>1, FitGrows
  <2>12. QED BY <2>6, <2>9, <2>10, <2>11 DEF IInv
<1>4. QED BY <1>2, <1>3
(* A key, and the word after it.                                           *)
LEMMA KeyStep == ASSUME IInv, NEW s \in Strings, write_key(s) PROVE IInv'
<1>1. TypeOK /\ StackOK /\ TablesOK /\ FitOK
  BY DEF IInv
<1>2. CASE string_fails(s, Wide(s))
  BY <1>2, StringFails
<1>3. CASE ~string_fails(s, Wide(s))
  <2> DEFINE p    == [kind |-> "key", str |-> s]
             part == Len(wrote) + 1
             wide == Wide(s)
             g    == [Top EXCEPT !.left = @ - 1, !.due = TRUE, !.slot = len' - 4]
  <2>1. /\ result = "run" /\ result' = "run" /\ Top.kind = "object" /\ Top.left > 0 /\ stack' = With(g)
        /\ write_compact_string(s, wide, TRUE, part) /\ Recorded(p) /\ file' = file
    BY <1>3 DEF write_key, KeyDue, Recorded
  <2>2. p \in Part /\ p.kind # "binary" /\ p.str = s
        /\ s \in Texts /\ wide \in BOOLEAN
    BY DEF Part, Texts, Wide
  <2>. HIDE DEF p
  <2>3. wrote' \in Seq(Part) /\ Len(wrote) \in Nat /\ Len(wrote') = Len(wrote) + 1 /\ Extended
        /\ wrote' # <<>> /\ wrote'[part] = p /\ (wrote # <<>> => wrote'[1] = wrote[1])
    BY <1>1, <2>1, <2>2, PartRecorded, RecordedExtends
  <2>4. part \in Nat /\ part \in 1 .. Len(wrote') /\ Len(wrote') \in Nat
    BY <2>3
  <2>5. PICK k : k = Len(bytes) + 1
    OBVIOUS
  <2>. HIDE DEF part, wide
  <2>6. /\ \E tok \in CToken : StringEmitted(tok, TRUE, part)
        /\ OffsetsTyped' /\ TablesOK'
    <3>1. s = TextOf(wrote'[part])
      BY <2>2, <2>3 DEF TextOf
    <3>2. PICK x : Emit(x, part)
      BY <2>1 DEF write_compact_string
    <3>3. s = Asked(bytes[k])'
      BY <1>1, <2>5, <3>1, <3>2, AskedText
    <3>4. QED BY <1>1, <2>1, <2>2, <2>3, <2>4, <2>5, <3>3, StringEmits
  <2>7. PICK tok \in CToken : StringEmitted(tok, TRUE, part)
    BY <2>6
  <2>8. Size(tok) \in Nat /\ (Fits(tok) \/ Size(tok) >= Word) /\ Emit(tok, part)
    BY <2>7 DEF StringEmitted
  <2>9. WordsTyped' /\ len' - 4 \in Nat /\ len' - 4 # 0
    <3>1. /\ WordsTyped' /\ Aux(tok) \in Nat /\ Aux(tok) = len' - 4 /\ Aux(tok) >= len + 5
      BY <1>1, <2>4, <2>7, PlaceholderTyped
    <3>2. len \in Nat
      BY <1>1 DEF TypeOK
    <3>3. QED BY <3>1, <3>2
  <2>10. g \in FrameSet /\ g.kind = "object" /\ g.slot # 0
    <3>1. Top \in FrameSet
      BY <1>1, StackProps
    <3>2. Top.left - 1 \in Nat
      BY <2>1, <3>1 DEF FrameSet
    <3>3. QED BY <2>1, <2>9, <3>1, <3>2 DEF FrameSet
  <2>. HIDE DEF g
  <2>11. Len(stack) >= 2 /\ Len(stack) \in Nat /\ Top = stack[Len(stack)]
    <3>1. Len(stack) \in Nat \ {0} /\ Top = stack[Len(stack)]
      BY <1>1, StackProps DEF Top
    <3>2. QED BY <1>1, <2>1, <3>1 DEF StackOK
  <2>12. TypeOK'
    <3>1. bytes' \in Seq(Item) /\ len' \in Nat
      BY <1>1, <2>4, <2>8, EmitProps
    <3>2. stack' \in Seq(FrameSet) /\ stack' # <<>>
      BY <1>1, <2>1, <2>10, WithProps
    <3>3. QED BY <2>1, <2>3, <2>6, <2>9, <3>1, <3>2 DEF TypeOK, OffsetsTyped, WordsTyped
  <2>13. StackOK'
    BY <1>1, <2>1, <2>2, <2>10, <2>11, TopStackOK
  <2>14. FitOK'
    <3>1. /\ Len(stack') = Len(stack)
          /\ \A i \in 1 .. Len(stack) : stack'[i] = IF i = Len(stack) THEN g ELSE stack[i]
      BY <1>1, <2>1, <2>10, WithProps
    <3>2. ASSUME wrote'[1].kind \in Containers PROVE Len(stack') >= 2 /\ stack'[2].slot # 0
      <4>1. CASE Len(stack) = 2
        BY <2>10, <3>1, <4>1
      <4>2. CASE Len(stack) > 2
        <5>1. FrameOK(2) /\ stack[2].kind = wrote[1].kind /\ wrote # <<>>
          BY <1>1, <2>11 DEF StackOK
        <5>2. stack[2].kind \in Containers
          BY <2>3, <3>2, <5>1
        <5>3. stack[2].slot # 0
          BY <4>2, <5>1, <5>2 DEF FrameOK, Containers
        <5>4. QED BY <2>11, <3>1, <4>2, <5>3
      <4>3. Len(stack) = 2 \/ Len(stack) > 2
        BY <2>11, SMTT(30)
      <4>4. QED BY <4>1, <4>2, <4>3
    <3>3. QED BY <1>1, <2>1, <2>3, <2>4, <2>8, <3>2, FitGrows
  <2>15. QED BY <2>6, <2>12, <2>13, <2>14 DEF IInv
<1>4. QED BY <1>2, <1>3

(* While a blob is being written it is the last part begun.                *)
LEMMA BlobIsLast ==
  ASSUME TypeOK, StackOK, Top.kind = "binary"
  PROVE  /\ Len(stack) >= 2 /\ wrote # <<>> /\ ~Top.due
         /\ Len(wrote) \in Nat \ {0} /\ wrote[Len(wrote)].kind = "binary" /\ Blob \in Blobs
<1>1. Len(stack) \in Nat \ {0} /\ Top = stack[Len(stack)]
  BY StackProps DEF Top
<1>2. Len(stack) >= 2
  BY <1>1 DEF StackOK
<1>3. FrameOK(Len(stack)) /\ wrote # <<>>
  BY <1>1, <1>2 DEF StackOK
<1>4. ~Top.due /\ wrote[Len(wrote)].kind = "binary"
  BY <1>1, <1>3 DEF FrameOK
<1>5. Len(wrote) \in Nat \ {0} /\ wrote[Len(wrote)] \in Part
  BY <1>3 DEF TypeOK
<1>6. wrote[Len(wrote)].bytes \in Blobs
  BY <1>4, <1>5 DEF Part, Scalars
<1>7. QED BY <1>2, <1>3, <1>4, <1>5, <1>6 DEF Blob

(* The hexadecimal text of a blob.                                         *)
LEMMA BlobTextStep == ASSUME IInv, blob_text PROVE IInv'
<1>1. TypeOK /\ StackOK /\ TablesOK /\ FitOK
  BY DEF IInv
<1> DEFINE s == HexStr(Blob)
<1>2. CASE string_fails(s, FALSE)
  BY <1>2, StringFails
<1>3. CASE ~string_fails(s, FALSE)
  <2> DEFINE part == Len(wrote)
             g    == [Top EXCEPT !.left = 1]
  <2>1. /\ result = "run" /\ result' = "run" /\ Top.kind = "binary" /\ stack' = With(g)
        /\ write_compact_string(s, FALSE, FALSE, part) /\ wrote' = wrote /\ file' = file
    BY <1>3 DEF blob_text, InBlob
  <2>2. /\ Len(stack) >= 2 /\ wrote # <<>> /\ ~Top.due
        /\ part \in Nat \ {0} /\ wrote[part].kind = "binary" /\ Blob \in Blobs
    BY <1>1, <2>1, BlobIsLast
  <2>3. s \in Texts /\ part \in Nat /\ part \in 1 .. Len(wrote') /\ Len(wrote') \in Nat /\ Extended
    BY <2>1, <2>2 DEF Texts, Extended
  <2>4. s = TextOf(wrote'[part])
    BY <2>1, <2>2 DEF TextOf, Blob
  <2>5. PICK k : k = Len(bytes) + 1
    OBVIOUS
  <2>6. g \in FrameSet /\ g.kind = "binary" /\ ~g.due
    <3>1. Top \in FrameSet
      BY <1>1, StackProps
    <3>2. QED BY <2>1, <2>2, <3>1 DEF FrameSet
  <2>7. wrote \in Seq(Part)
    BY <1>1 DEF TypeOK
  <2>. HIDE DEF s, part, g
  <2>8. PICK t : t = s
    OBVIOUS
  <2>9. /\ \E tok \in CToken : StringEmitted(tok, FALSE, part)
        /\ OffsetsTyped' /\ TablesOK'
    <3>1. PICK x : Emit(x, part)
      BY <2>1 DEF write_compact_string
    <3>2. t = Asked(bytes[k])'
      BY <1>1, <2>4, <2>5, <2>8, <3>1, AskedText
    <3>3. QED BY <1>1, <2>1, <2>3, <2>5, <2>8, <3>2, StringEmits DEF part
  <2>10. PICK tok \in CToken : StringEmitted(tok, FALSE, part)
    BY <2>9
  <2>11. Size(tok) \in Nat /\ (Fits(tok) \/ Size(tok) >= Word) /\ Emit(tok, part)
    BY <2>10 DEF StringEmitted
  <2>12. TypeOK'
    <3>1. bytes' \in Seq(Item) /\ len' \in Nat
      BY <1>1, <2>3, <2>11, EmitProps
    <3>2. stack' \in Seq(FrameSet) /\ stack' # <<>>
      BY <1>1, <2>1, <2>6, WithProps
    <3>3. WordsTyped'
      BY <1>1, <2>3, <2>10, PlaceholderTyped
    <3>4. QED BY <2>1, <2>7, <2>9, <3>1, <3>2, <3>3 DEF TypeOK, OffsetsTyped, WordsTyped
  <2>13. StackOK'
    BY <1>1, <2>1, <2>2, <2>6, TopStackOK
  <2>14. FitOK'
    <3>1. ASSUME wrote[1].kind \in Containers PROVE Len(stack') >= 2 /\ stack'[2].slot # 0
      <4>1. Len(stack) >= 2 /\ stack[2].slot # 0
        BY <1>1, <2>1, <2>2, <3>1, RootAsks
      <4>2. Len(stack) # 2
        <5>1. stack[2].kind \in Containers
          BY <1>1, <2>2, <3>1 DEF StackOK
        <5>2. QED BY <2>1, <5>1 DEF Containers, Top
      <4>3. /\ Len(stack) \in Nat /\ Len(stack') = Len(stack)
            /\ \A i \in 1 .. Len(stack) : stack'[i] = IF i = Len(stack) THEN g ELSE stack[i]
        BY <1>1, <2>1, <2>6, StackProps, WithProps
      <4>4. QED BY <4>1, <4>2, <4>3
    <3>2. QED BY <1>1, <2>1, <2>2, <2>3, <2>11, <3>1, FitGrows
  <2>15. QED BY <2>9, <2>12, <2>13, <2>14 DEF IInv
<1>4. QED BY <1>2, <1>3

(* The raw copy of a blob.                                                 *)
LEMMA BlobRawStep == ASSUME IInv, blob_raw PROVE IInv'
<1>1. TypeOK /\ StackOK /\ TablesOK /\ FitOK
  BY DEF IInv
<1> DEFINE tok  == [tag |-> "(raw)", declared |-> U32(Len(Blob)), raw |-> Blob]
           part == Len(wrote)
<1>2. /\ result = "run" /\ result' = "run" /\ Top.kind = "binary" /\ stack' = Closed /\ Emit(tok, part)
      /\ words' = words /\ wrote' = wrote /\ latin1_offsets' = latin1_offsets /\ utf32_offsets' = utf32_offsets
  BY DEF blob_raw, InBlob, offsets
<1>3. Len(stack) >= 2 /\ wrote # <<>> /\ part \in Nat /\ Blob \in Blobs
  BY <1>1, <1>2, BlobIsLast
<1>4. Len(Blob) \in Nat
  BY <1>3, CBlobsAssumption DEF CBlobsAssumption
<1>5. tok \in CToken /\ Size(tok) = 4 + Len(Blob) /\ tok.tag \notin CompactDefs \cup CompactRefs
  <2>1. U32(Len(Blob)) \in Nat
    BY <1>4, U32Props, WordAssumption DEF WordAssumption
  <2>2. tok \in CToken
    BY <1>3, <2>1 DEF CToken
  <2>3. Size(tok) = 4 + Len(Blob)
    BY SizeOf
  <2>4. QED BY <2>2, <2>3 DEF CompactDefs, CompactRefs, Latin1Defs, Latin1Refs, Utf32Defs, Utf32Refs
<1>6. Fits(tok) \/ Size(tok) >= Word
  <2>1. CASE Len(Blob) < Word
    <3>1. U32(Len(Blob)) = Len(Blob)
      BY <1>4, <2>1, U32Props
    <3>2. QED BY <3>1 DEF Fits, Latin1Defs, Utf32Defs
  <2>2. CASE ~(Len(Blob) < Word)
    BY <1>4, <1>5, <2>2, WordAssumption DEF WordAssumption
  <2>3. QED BY <2>1, <2>2
<1>7. Size(tok) \in Nat /\ Extended /\ wrote \in Seq(Part)
  BY <1>1, <1>2, <1>3, <1>4, <1>5 DEF TypeOK, Extended
<1>. HIDE DEF tok, part
<1>8. TypeOK'
  <2>1. bytes' \in Seq(Item) /\ len' \in Nat
    BY <1>1, <1>2, <1>3, <1>5, <1>7, EmitProps
  <2>2. stack' \in Seq(FrameSet) /\ stack' # <<>>
    BY <1>1, <1>2, <1>3, ClosedProps
  <2>3. QED BY <1>1, <1>2, <1>7, <2>1, <2>2 DEF TypeOK
<1>9. StackOK'
  BY <1>1, <1>2, <1>3, PopStackOK
<1>10. TablesOK'
  BY <1>1, <1>2, <1>3, <1>5, <1>7, PlainTables DEF offsets, part
<1>11. FitOK'
  <2>1. ASSUME wrote[1].kind \in Containers PROVE Len(stack') >= 2 /\ stack'[2].slot # 0
    <3>1. Len(stack) >= 2 /\ stack[2].slot # 0
      BY <1>1, <1>2, <1>3, <2>1, RootAsks
    <3>2. Len(stack) # 2
      <4>1. stack[2].kind \in Containers
        BY <1>1, <1>3, <2>1 DEF StackOK
      <4>2. QED BY <1>2, <4>1 DEF Containers, Top
    <3>3. /\ Len(stack) \in Nat /\ Len(stack') = Len(stack) - 1
          /\ \A i \in 1 .. Len(stack) - 1 : stack'[i] = stack[i]
      BY <1>1, <1>2, <1>3, StackProps, ClosedProps
    <3>4. QED BY <3>1, <3>2, <3>3
  <2>2. QED BY <1>1, <1>2, <1>3, <1>5, <1>6, <1>7, <2>1, FitGrows
<1>12. QED BY <1>8, <1>9, <1>10, <1>11 DEF IInv
(* A value begun: its first token, and a frame for the rest of it.         *)
LEMMA PushStep ==
  ASSUME IInv, result = "run", result' = "run", Top.due,
         NEW tok \in CToken, Size(tok) \in Nat, tok.tag \notin CompactDefs \cup CompactRefs,
         Emit(tok, Len(wrote) + 1), Fits(tok) \/ Size(tok) >= Word,
         NEW p \in Part, Recorded(p), NEW f \in FrameSet, Pushed(f), Fresh(f), f.kind = p.kind,
         Fits(tok) \/ f.slot # 0, WordsTyped', UNCHANGED <<offsets, file>>
  PROVE  IInv'
<1> DEFINE part == Len(wrote) + 1
<1>1. TypeOK /\ StackOK /\ TablesOK /\ FitOK
  BY DEF IInv
<1>2. part \in Nat /\ wrote' \in Seq(Part) /\ Len(wrote) \in Nat /\ Len(wrote') = Len(wrote) + 1 /\ Extended
      /\ wrote' # <<>> /\ (wrote # <<>> => wrote'[1] = wrote[1])
  BY <1>1, PartRecorded, RecordedExtends
<1>. HIDE DEF part
<1>3. Emit(tok, part)
  BY DEF part
<1>4. TypeOK'
  <2>1. bytes' \in Seq(Item) /\ len' \in Nat
    BY <1>1, <1>2, <1>3, EmitProps
  <2>2. stack' \in Seq(FrameSet) /\ stack' # <<>>
    BY <1>1, PushProps DEF Pushed
  <2>3. latin1_offsets' = latin1_offsets /\ utf32_offsets' = utf32_offsets
    BY DEF offsets
  <2>4. QED BY <1>1, <1>2, <2>1, <2>2, <2>3 DEF TypeOK, WordsTyped
<1>5. StackOK'
  BY <1>1, PushStackOK
<1>6. TablesOK'
  <2>1. UNCHANGED offsets
    OBVIOUS
  <2>2. Len(wrote') \in Nat
    BY <1>2
  <2>3. QED BY <1>1, <1>2, <1>3, <2>1, <2>2, PlainTables
<1>7. FitOK'
  <2>1. ASSUME wrote'[1].kind \in Containers, ~(AllFit /\ Fits(tok))
        PROVE  Len(stack') >= 2 /\ stack'[2].slot # 0
    <3>1. /\ Len(stack) \in Nat \ {0} /\ Len(stack') = Len(stack) + 1
          /\ stack'[Len(stack) + 1] = f
          /\ \A i \in 1 .. Len(stack) : stack'[i].slot = stack[i].slot
      <4>1. /\ Len(stack) \in Nat \ {0} /\ Len(stack') = Len(stack) + 1
            /\ stack'[Len(stack) + 1] = f
        BY <1>1, StackProps, PushProps DEF Pushed
      <4>2. \A i \in 1 .. Len(stack) :
              stack'[i] = IF i = Len(stack) THEN [Top EXCEPT !.due = FALSE] ELSE stack[i]
        BY <1>1, PushProps DEF Pushed
      <4>3. QED BY <1>1, <4>1, <4>2, BelowProps
    <3>2. CASE wrote = <<>>
      <4>1. ~Fits(tok)
        BY <1>1, <2>1, <3>2 DEF FitOK
      <4>2. Len(stack) = 1
        <5>1. ~(Len(stack) >= 2)
          BY <1>1, <3>2 DEF StackOK
        <5>2. \A n \in Nat \ {0} : n >= 2 \/ n = 1
          OBVIOUS
        <5>3. QED BY <3>1, <5>1, <5>2, Zenon
      <4>3. stack'[2] = f
        BY <3>1, <4>2
      <4>4. QED BY <3>1, <4>1, <4>2, <4>3
    <3>3. CASE wrote # <<>>
      <4>1. Len(stack) >= 2 /\ stack[2].slot # 0
        BY <1>1, <1>2, <2>1, <3>3, RootAsks
      <4>2. QED BY <3>1, <4>1
    <3>4. QED BY <3>2, <3>3
  <2>2. QED BY <1>1, <1>2, <1>3, <2>1, FitGrows
<1>8. QED BY <1>4, <1>5, <1>6, <1>7 DEF IInv

LEMMA PlainTags ==
  {"CompactArrayBegin", "CompactBinaryBlob", "CompactObjectBegin", "ObjectEnd", "(header)", "(footer)"}
    \cap (CompactDefs \cup CompactRefs) = {}
BY DEF CompactDefs, CompactRefs, Latin1Defs, Latin1Refs, Utf32Defs, Utf32Refs

LEMMA BareFits ==
  ASSUME NEW tok, tok.tag \in {"CompactBinaryBlob", "CompactObjectBegin", "ObjectEnd", "(header)", "(footer)"}
  PROVE  Fits(tok) /\ Size(tok) \in Nat /\ tok.tag \notin CompactDefs \cup CompactRefs
<1>1. Fits(tok)
  BY DEF Fits, Latin1Defs, Utf32Defs
<1>2. Size(tok) \in Nat
  BY SizeOf
<1>3. QED BY <1>1, <1>2, PlainTags

LEMMA BlobStep == ASSUME IInv, NEW b \in Blobs, write_binary_blob(b) PROVE IInv'
<1> DEFINE tok == [tag |-> "CompactBinaryBlob"]
           p   == [kind |-> "binary", bytes |-> b]
           f   == Frame("binary", 2, 0)
<1>1. tok \in CToken /\ tok.tag = "CompactBinaryBlob"
  BY DEF CToken
<1>2. p \in Part /\ p.kind = "binary"
  BY DEF Part
<1>3. f \in FrameSet /\ Fresh(f) /\ f.kind = "binary"
  BY FrameTyped DEF Fresh
<1>4. /\ result = "run" /\ result' = "run" /\ Top.due /\ Emit(tok, Len(wrote) + 1)
      /\ Recorded(p) /\ Pushed(f) /\ words' = words /\ UNCHANGED <<offsets, file>>
  BY DEF write_binary_blob, ValueDue, Recorded, Pushed
<1>. HIDE DEF tok, p, f
<1>5. WordsTyped'
  BY <1>4 DEF IInv, TypeOK, WordsTyped
<1>6. Fits(tok) /\ Size(tok) \in Nat /\ tok.tag \notin CompactDefs \cup CompactRefs
  BY <1>1, BareFits
<1>7. QED BY <1>1, <1>2, <1>3, <1>4, <1>5, <1>6, PushStep

LEMMA ObjectStep == ASSUME IInv, NEW n \in 0 .. MaxLen, write_object(n) PROVE IInv'
<1> DEFINE tok == [tag |-> "CompactObjectBegin"]
           p   == [kind |-> "object"]
           f   == Frame("object", n, 0)
<1>1. tok \in CToken /\ tok.tag = "CompactObjectBegin"
  BY DEF CToken
<1>2. p \in Part /\ p.kind = "object"
  BY DEF Part
<1>3. f \in FrameSet /\ Fresh(f) /\ f.kind = "object"
  BY FrameTyped, CBoundsAssumption DEF Fresh, CBoundsAssumption
<1>4. /\ result = "run" /\ result' = "run" /\ Top.due /\ Emit(tok, Len(wrote) + 1)
      /\ Recorded(p) /\ Pushed(f) /\ words' = words /\ UNCHANGED <<offsets, file>>
  BY DEF write_object, ValueDue, Recorded, Pushed
<1>. HIDE DEF tok, p, f
<1>5. WordsTyped'
  BY <1>4 DEF IInv, TypeOK, WordsTyped
<1>6. Fits(tok) /\ Size(tok) \in Nat /\ tok.tag \notin CompactDefs \cup CompactRefs
  BY <1>1, BareFits
<1>7. QED BY <1>1, <1>2, <1>3, <1>4, <1>5, <1>6, PushStep

(* An array's table has a word for each element and one for the end.       *)
LEMMA ArrayStep == ASSUME IInv, NEW n \in 0 .. MaxLen, write_array(n) PROVE IInv'
<1> DEFINE table == [i \in 1 .. n + 1 |-> 0]
           tok   == [tag |-> "CompactArrayBegin", count |-> U32(n), table |-> table]
           p     == [kind |-> "array"]
           f     == Frame("array", n, len + 6)
<1>1. n \in Nat /\ len \in Nat
  BY CBoundsAssumption DEF CBoundsAssumption, IInv, TypeOK
<1>2. table \in Seq({0}) /\ Len(table) = n + 1 /\ table # <<>>
  BY <1>1
<1>. HIDE DEF table
<1>3. U32(n) \in Nat /\ (n < Word => U32(n) = n)
  BY <1>1, U32Props, WordAssumption DEF WordAssumption
<1>4. tok \in CToken /\ tok.tag = "CompactArrayBegin" /\ tok.table = table /\ tok.count = U32(n)
  BY <1>2, <1>3 DEF CToken
<1>5. p \in Part /\ p.kind = "array"
  BY DEF Part
<1>6. f \in FrameSet /\ Fresh(f) /\ f.kind = "array" /\ f.slot # 0
  <2>1. len + 6 \in Nat /\ len + 6 # 0
    BY <1>1
  <2>2. QED BY <1>1, <2>1, FrameTyped DEF Fresh
<1>7. /\ result = "run" /\ result' = "run" /\ Top.due /\ Emit(tok, Len(wrote) + 1)
      /\ Recorded(p) /\ Pushed(f) /\ Zeros(TableAt(len + 6, n)) /\ UNCHANGED <<offsets, file>>
  BY DEF write_array, ValueDue, Recorded, Pushed, table
<1>. HIDE DEF tok, p, f
<1>8. WordsTyped'
  <2>1. TableAt(len + 6, n) \in SUBSET Nat
    BY <1>1 DEF TableAt
  <2>2. QED BY <1>7, <2>1, ZerosTyped DEF IInv
<1>9. Size(tok) = 10 + 4 * n
  <2>1. Size(tok) = 1 + TableSize(tok)
    BY <1>4, SizeOf
  <2>2. TableSize(tok) = 5 + 4 * (n + 1)
    BY <1>2, <1>4 DEF TableSize
  <2>3. QED BY <1>1, <2>1, <2>2
<1>10. Size(tok) \in Nat /\ tok.tag \notin CompactDefs \cup CompactRefs
  BY <1>1, <1>4, <1>9, PlainTags
<1>11. Fits(tok) \/ Size(tok) >= Word
  <2>1. CASE n < Word
    BY <1>1, <1>2, <1>3, <1>4, <2>1 DEF Fits, Latin1Defs, Utf32Defs
  <2>2. CASE ~(n < Word)
    BY <1>1, <1>9, <2>2, WordAssumption DEF WordAssumption
  <2>3. QED BY <2>1, <2>2
<1>12. QED BY <1>4, <1>5, <1>6, <1>7, <1>8, <1>10, <1>11, PushStep
(* The end of an object.                                                   *)
LEMMA EndObjectStep == ASSUME IInv, end_object PROVE IInv'
<1>1. TypeOK /\ StackOK /\ TablesOK /\ FitOK
  BY DEF IInv
<1> DEFINE tok  == [tag |-> "ObjectEnd"]
           part == Len(wrote) + 1
           p    == [kind |-> "end", of |-> "object"]
<1>2. /\ result = "run" /\ result' = "run" /\ Top.kind = "object" /\ ~Top.due /\ Top.slot = 0
      /\ stack' = Closed /\ Emit(tok, part) /\ Recorded(p) /\ words' = words /\ UNCHANGED offsets
  BY DEF end_object, KeyDue, Recorded
<1>3. tok \in CToken /\ Fits(tok) /\ Size(tok) \in Nat /\ tok.tag \notin CompactDefs \cup CompactRefs
  BY BareFits DEF CToken
<1>4. p \in Part
  BY DEF Part
<1>. HIDE DEF tok, p
<1>5. part \in Nat /\ wrote' \in Seq(Part) /\ Len(wrote) \in Nat /\ Len(wrote') = Len(wrote) + 1 /\ Extended
      /\ wrote' # <<>> /\ (wrote # <<>> => wrote'[1] = wrote[1])
  BY <1>1, <1>2, <1>4, PartRecorded, RecordedExtends
<1>6. Len(wrote') \in Nat
  BY <1>5
<1>. HIDE DEF part
<1>7. Len(stack) \in Nat /\ Len(stack) >= 2 /\ Top = stack[Len(stack)]
  <2>1. Len(stack) \in Nat \ {0} /\ Top = stack[Len(stack)]
    BY <1>1, StackProps DEF Top
  <2>2. QED BY <1>1, <1>2, <2>1 DEF StackOK
<1>8. TypeOK'
  <2>1. bytes' \in Seq(Item) /\ len' \in Nat
    BY <1>1, <1>2, <1>3, <1>5, EmitProps
  <2>2. stack' \in Seq(FrameSet) /\ stack' # <<>>
    BY <1>1, <1>2, <1>7, ClosedProps
  <2>3. latin1_offsets' = latin1_offsets /\ utf32_offsets' = utf32_offsets
    BY <1>2 DEF offsets
  <2>4. QED BY <1>1, <1>2, <1>5, <2>1, <2>2, <2>3 DEF TypeOK
<1>9. StackOK'
  BY <1>1, <1>2, <1>4, <1>7, PopStackOK
<1>10. TablesOK'
  BY <1>1, <1>2, <1>3, <1>5, <1>6, PlainTables
<1>11. FitOK'
  <2>1. ASSUME wrote'[1].kind \in Containers, ~(AllFit /\ Fits(tok))
        PROVE  Len(stack') >= 2 /\ stack'[2].slot # 0
    <3>1. wrote # <<>> /\ wrote[1].kind \in Containers
      BY <1>1, <1>5, <1>7, <2>1 DEF StackOK
    <3>2. stack[2].slot # 0
      BY <1>1, <1>2, <1>3, <2>1, <3>1 DEF FitOK, Pending
    <3>3. Len(stack) # 2
      BY <1>2, <1>7, <3>2
    <3>4. Len(stack') = Len(stack) - 1 /\ \A i \in 1 .. Len(stack) - 1 : stack'[i] = stack[i]
      BY <1>1, <1>2, <1>7, ClosedProps
    <3>5. QED BY <1>7, <3>2, <3>3, <3>4
  <2>2. QED BY <1>1, <1>2, <1>3, <1>5, <2>1, FitGrows
<1>12. QED BY <1>8, <1>9, <1>10, <1>11 DEF IInv

(* The header, before everything, and the footer, when the document is     *)
(* complete: then nothing is pending.                                      *)
LEMMA HeaderStep == ASSUME IInv, write_header PROVE IInv'
<1>1. TypeOK /\ StackOK /\ TablesOK /\ FitOK
  BY DEF IInv
<1> DEFINE tok  == [tag |-> "(header)", version |-> "compact"]
<1>2. /\ result = "new" /\ result' = "run" /\ stack' = stack /\ Emit(tok, 0) /\ words' = words
      /\ UNCHANGED offsets /\ wrote' = wrote
      /\ latin1_offsets' = latin1_offsets /\ utf32_offsets' = utf32_offsets
  BY DEF write_header, offsets
<1>3. tok \in CToken /\ Fits(tok) /\ Size(tok) \in Nat /\ tok.tag \notin CompactDefs \cup CompactRefs
  BY BareFits DEF CToken
<1>. HIDE DEF tok
<1>4. wrote \in Seq(Part) /\ Len(wrote) \in Nat /\ 0 \in Nat /\ Len(wrote') \in Nat /\ Extended
  BY <1>1, <1>2 DEF TypeOK, Extended
<1>5. TypeOK'
  <2>1. bytes' \in Seq(Item) /\ len' \in Nat
    BY <1>1, <1>2, <1>3, <1>4, EmitProps
  <2>2. QED BY <1>1, <1>2, <2>1 DEF TypeOK
<1>6. StackOK'
  BY <1>1, <1>2 DEF StackOK, FrameOK
<1>7. TablesOK'
  BY <1>1, <1>2, <1>3, <1>4, PlainTables
<1>8. FitOK'
  BY <1>1, <1>2, <1>3, <1>4, FitGrows DEF FitOK, Pending
<1>9. QED BY <1>5, <1>6, <1>7, <1>8 DEF IInv

LEMMA FooterStep == ASSUME IInv, write_footer PROVE IInv'
<1>1. TypeOK /\ StackOK /\ TablesOK /\ FitOK
  BY DEF IInv
<1> DEFINE tok  == [tag |-> "(footer)"]
           part == Len(wrote) + 1
<1>2. /\ result = "run" /\ result' = "sealed" /\ Top.kind = "doc" /\ ~Top.due /\ stack' = stack
      /\ Emit(tok, part) /\ words' = words /\ UNCHANGED offsets /\ wrote' = wrote
      /\ latin1_offsets' = latin1_offsets /\ utf32_offsets' = utf32_offsets
  BY DEF write_footer, offsets
<1>3. tok \in CToken /\ Fits(tok) /\ Size(tok) \in Nat /\ tok.tag \notin CompactDefs \cup CompactRefs
  BY BareFits DEF CToken
<1>4. wrote \in Seq(Part) /\ Len(wrote) \in Nat /\ part \in Nat /\ Len(wrote') \in Nat /\ Extended
  BY <1>1, <1>2 DEF TypeOK, Extended
<1>. HIDE DEF tok, part
<1>5. TypeOK'
  <2>1. bytes' \in Seq(Item) /\ len' \in Nat
    BY <1>1, <1>2, <1>3, <1>4, EmitProps
  <2>2. QED BY <1>1, <1>2, <2>1 DEF TypeOK
<1>6. StackOK'
  BY <1>1, <1>2 DEF StackOK, FrameOK
<1>7. TablesOK'
  BY <1>1, <1>2, <1>3, <1>4, PlainTables
<1>8. FitOK'
  <2>1. Len(stack) \in Nat \ {0} /\ Top = stack[Len(stack)]
    BY <1>1, StackProps DEF Top
  <2>2. ~(Len(stack) >= 2)
    BY <1>1, <1>2, <2>1 DEF StackOK, FrameOK
  <2>3. Top = stack[1]
    <3>1. \A n \in Nat \ {0} : n >= 2 \/ n = 1
      OBVIOUS
    <3>2. QED BY <2>1, <2>2, <3>1, Zenon
  <2>4. wrote # <<>>
    BY <1>1, <1>2, <2>3 DEF StackOK
  <2>5. wrote[1].kind \in Containers => AllFit
    BY <1>1, <1>2, <2>2, <2>4 DEF FitOK, Pending
  <2>6. ASSUME AllFit PROVE AllFit'
    <3>1. /\ Len(bytes) \in Nat /\ DOMAIN bytes = 1 .. Len(bytes)
          /\ DOMAIN bytes' = 1 .. Len(bytes) + 1
          /\ \A i \in DOMAIN bytes : bytes'[i] = bytes[i]
          /\ bytes'[Len(bytes) + 1] = [at |-> len, tok |-> tok, of |-> part]
      BY <1>1, <1>2, <1>3, <1>4, EmitProps
    <3>2. ASSUME NEW i \in DOMAIN bytes' PROVE Fits(bytes'[i].tok)
      <4>1. CASE i = Len(bytes) + 1
        BY <3>1, <4>1, <1>3
      <4>2. CASE i # Len(bytes) + 1
        <5>1. i \in DOMAIN bytes
          BY <3>1, <4>2
        <5>2. QED BY <3>1, <5>1, <2>6 DEF AllFit
      <4>3. QED BY <4>1, <4>2
    <3>3. QED BY <3>2 DEF AllFit
  <2>7. QED BY <1>2, <2>4, <2>5, <2>6 DEF FitOK
<1>9. QED BY <1>5, <1>6, <1>7, <1>8 DEF IInv
-----------------------------------------------------------------------------
(* The steps that append nothing to the buffer.                            *)
LEMMA QuietTables ==
  ASSUME TypeOK, TablesOK, bytes' = bytes, UNCHANGED offsets, Extended, Len(wrote) \in Nat,
         Len(wrote') \in Nat
  PROVE  TablesOK'
<1>1. latin1_offsets' = latin1_offsets /\ utf32_offsets' = utf32_offsets
  BY DEF offsets
<1>2. ASSUME NEW i \in DOMAIN bytes, bytes[i].tok.tag \in CompactDefs \cup CompactRefs
      PROVE  bytes[i].of \in 1 .. Len(wrote') /\ Asked(bytes[i])' = Asked(bytes[i])
  <2>1. bytes[i].of \in 1 .. Len(wrote)
    BY <1>2 DEF TablesOK
  <2>2. QED BY <2>1 DEF Extended, Asked
<1>3. TableOK(latin1_offsets, Latin1Defs)' /\ TableOK(utf32_offsets, Utf32Defs)'
  BY <1>1 DEF TablesOK, TableOK
<1>4. OffsetsResolve'
  BY <1>2 DEF TablesOK, OffsetsResolve
<1>5. QED BY <1>2, <1>3, <1>4 DEF TablesOK

(* A position noted in a word: it was a u32, and so nothing was cut.       *)
LEMMA NothingPending ==
  ASSUME TypeOK, FitOK, result = "run", len < Word, bytes' = bytes, result' = "run",
         wrote # <<>>, wrote' # <<>>, wrote'[1] = wrote[1]
  PROVE  FitOK'
<1>1. ~(len >= Word)
  BY WordAssumption DEF TypeOK, WordAssumption
<1>2. wrote[1].kind \in Containers => AllFit
  BY <1>1 DEF FitOK, Pending
<1>3. QED BY <1>2 DEF FitOK, AllFit

(* A frame that is not the document's.                                     *)
LEMMA Inside ==
  ASSUME TypeOK, StackOK, Top.kind # "doc"
  PROVE  /\ Len(stack) \in Nat /\ Len(stack) >= 2 /\ Top = stack[Len(stack)] /\ Top \in FrameSet
         /\ wrote # <<>> /\ FrameOK(Len(stack))
<1>1. Len(stack) \in Nat \ {0} /\ Top = stack[Len(stack)] /\ Top \in FrameSet
  BY StackProps DEF Top
<1>2. Len(stack) >= 2
  BY <1>1 DEF StackOK
<1>3. QED BY <1>1, <1>2 DEF StackOK

LEMMA ElementOffsetStep == ASSUME IInv, element_offset PROVE IInv'
<1>1. TypeOK /\ StackOK /\ TablesOK /\ FitOK
  BY DEF IInv
<1>2. CASE position_u32_fails
  BY <1>2, PositionFails
<1>3. CASE ~position_u32_fails
  <2> DEFINE g == [Top EXCEPT !.left = @ - 1, !.due = TRUE]
             o == Top.slot + 4 * (Top.count - Top.left)
  <2>1. /\ result = "run" /\ result' = "run" /\ Top.kind = "array" /\ Top.left > 0
        /\ len < Word /\ patch_u32(o, len) /\ stack' = With(g)
        /\ bytes' = bytes /\ len' = len /\ wrote' = wrote /\ UNCHANGED offsets
        /\ latin1_offsets' = latin1_offsets /\ utf32_offsets' = utf32_offsets
    BY <1>3 DEF element_offset, InArray, offsets
  <2>2. /\ Len(stack) >= 2 /\ Top \in FrameSet /\ wrote # <<>>
        /\ Top.left <= Top.count /\ Top.slot # 0
    BY <1>1, <2>1, Inside DEF FrameOK
  <2>3. o \in Nat
    BY <2>2 DEF FrameSet
  <2>4. g \in FrameSet /\ g.kind = "array" /\ g.left <= g.count /\ g.slot # 0
    <3>1. Top.left \in Nat /\ Top.count \in Nat
      BY <2>2 DEF FrameSet
    <3>2. Top.left - 1 \in Nat /\ Top.left - 1 <= Top.count
      BY <2>1, <2>2, <3>1
    <3>3. g.left = Top.left - 1 /\ g.count = Top.count /\ g.slot = Top.slot /\ g.kind = Top.kind
      BY <2>2 DEF FrameSet
    <3>4. g \in FrameSet
      BY <2>2, <3>2 DEF FrameSet
    <3>5. QED BY <2>1, <2>2, <3>2, <3>3, <3>4
  <2>. HIDE DEF g, o
  <2>5. TypeOK'
    <3>1. stack' \in Seq(FrameSet) /\ stack' # <<>>
      BY <1>1, <2>1, <2>4, WithProps
    <3>2. WordsTyped'
      BY <1>1, <2>1, <2>3, PatchTyped
    <3>3. QED BY <1>1, <2>1, <3>1, <3>2 DEF TypeOK, WordsTyped
  <2>6. StackOK'
    BY <1>1, <2>1, <2>2, <2>4, TopStackOK
  <2>7. TablesOK'
    <3>1. Extended /\ Len(wrote) \in Nat
      BY <1>1, <2>1 DEF TypeOK, Extended
    <3>2. QED BY <1>1, <2>1, <3>1, QuietTables
  <2>8. FitOK'
    BY <1>1, <2>1, <2>2, NothingPending
  <2>9. QED BY <2>5, <2>6, <2>7, <2>8 DEF IInv
<1>4. QED BY <1>2, <1>3

LEMMA ValueOffsetStep == ASSUME IInv, value_offset PROVE IInv'
<1>1. TypeOK /\ StackOK /\ TablesOK /\ FitOK
  BY DEF IInv
<1>2. CASE position_u32_fails
  BY <1>2, PositionFails
<1>3. CASE ~position_u32_fails
  <2> DEFINE g == [Top EXCEPT !.slot = 0]
  <2>1. /\ result = "run" /\ result' = "run" /\ Top.kind = "object" /\ ~Top.due
        /\ len < Word /\ patch_u32(Top.slot, len) /\ stack' = With(g)
        /\ bytes' = bytes /\ len' = len /\ wrote' = wrote /\ UNCHANGED offsets
        /\ latin1_offsets' = latin1_offsets /\ utf32_offsets' = utf32_offsets
    BY <1>3 DEF value_offset, offsets
  <2>2. Len(stack) >= 2 /\ Top \in FrameSet /\ wrote # <<>>
    BY <1>1, <2>1, Inside
  <2>3. Top.slot \in Nat
    BY <2>2 DEF FrameSet
  <2>4. g \in FrameSet /\ g.kind = "object" /\ ~g.due
    BY <2>1, <2>2 DEF FrameSet
  <2>. HIDE DEF g
  <2>5. TypeOK'
    <3>1. stack' \in Seq(FrameSet) /\ stack' # <<>>
      BY <1>1, <2>1, <2>4, WithProps
    <3>2. WordsTyped'
      BY <1>1, <2>1, <2>3, PatchTyped
    <3>3. QED BY <1>1, <2>1, <3>1, <3>2 DEF TypeOK, WordsTyped
  <2>6. StackOK'
    BY <1>1, <2>1, <2>2, <2>4, TopStackOK
  <2>7. TablesOK'
    <3>1. Extended /\ Len(wrote) \in Nat
      BY <1>1, <2>1 DEF TypeOK, Extended
    <3>2. QED BY <1>1, <2>1, <3>1, QuietTables
  <2>8. FitOK'
    BY <1>1, <2>1, <2>2, NothingPending
  <2>9. QED BY <2>5, <2>6, <2>7, <2>8 DEF IInv
<1>4. QED BY <1>2, <1>3

LEMMA EndArrayStep == ASSUME IInv, end_array PROVE IInv'
<1>1. TypeOK /\ StackOK /\ TablesOK /\ FitOK
  BY DEF IInv
<1>2. CASE position_u32_fails
  BY <1>2, PositionFails
<1>3. CASE ~position_u32_fails
  <2> DEFINE p == [kind |-> "end", of |-> "array"]
             o == Top.slot + 4 * Top.count
  <2>1. /\ result = "run" /\ result' = "run" /\ Top.kind = "array"
        /\ len < Word /\ patch_u32(o, len) /\ stack' = Closed /\ Recorded(p)
        /\ bytes' = bytes /\ len' = len /\ UNCHANGED offsets
        /\ latin1_offsets' = latin1_offsets /\ utf32_offsets' = utf32_offsets
    BY <1>3 DEF end_array, InArray, offsets, Recorded
  <2>2. Len(stack) >= 2 /\ Top \in FrameSet /\ wrote # <<>>
    BY <1>1, <2>1, Inside
  <2>3. o \in Nat
    BY <2>2 DEF FrameSet
  <2>4. p \in Part
    BY DEF Part
  <2>. HIDE DEF p, o
  <2>5. /\ wrote' \in Seq(Part) /\ wrote' # <<>> /\ wrote'[1] = wrote[1] /\ Extended
        /\ Len(wrote) \in Nat /\ Len(wrote') \in Nat
    BY <1>1, <2>1, <2>2, <2>4, PartRecorded, RecordedExtends
  <2>6. TypeOK'
    <3>1. stack' \in Seq(FrameSet) /\ stack' # <<>>
      BY <1>1, <2>1, <2>2, ClosedProps
    <3>2. WordsTyped'
      BY <1>1, <2>1, <2>3, PatchTyped
    <3>3. QED BY <1>1, <2>1, <2>5, <3>1, <3>2 DEF TypeOK, WordsTyped
  <2>7. StackOK'
    BY <1>1, <2>1, <2>2, <2>4, PopStackOK
  <2>8. TablesOK'
    BY <1>1, <2>1, <2>5, QuietTables
  <2>9. FitOK'
    BY <1>1, <2>1, <2>2, <2>5, NothingPending
  <2>10. QED BY <2>6, <2>7, <2>8, <2>9 DEF IInv
<1>4. QED BY <1>2, <1>3

LEMMA WriteAllStep == ASSUME IInv, write_all PROVE IInv'
<1>1. /\ result = "sealed" /\ result' \in {"ok", "err"} /\ stack' = stack /\ bytes' = bytes /\ len' = len
      /\ words' = words /\ latin1_offsets' = latin1_offsets /\ utf32_offsets' = utf32_offsets /\ wrote' = wrote
  BY DEF write_all, offsets
<1>2. TypeOK'
  BY <1>1 DEF IInv, TypeOK
<1>3. StackOK'
  BY <1>1 DEF IInv, StackOK, FrameOK
<1>4. TablesOK'
  BY <1>1 DEF IInv, TablesOK, TableOK, OffsetsResolve, Asked
<1>5. FitOK'
  BY <1>1 DEF IInv, FitOK, AllFit
<1>6. QED BY <1>2, <1>3, <1>4, <1>5 DEF IInv
-----------------------------------------------------------------------------
LEMMA InitOK == CInit => IInv
<1>. SUFFICES ASSUME CInit PROVE IInv
  OBVIOUS
<1>1. /\ result = "new" /\ stack = <<[Frame("doc", 0, 0) EXCEPT !.due = TRUE]>>
      /\ bytes = <<>> /\ len = 0 /\ DOMAIN words = {}
      /\ DOMAIN latin1_offsets = {} /\ DOMAIN utf32_offsets = {} /\ wrote = <<>>
  BY DEF CInit
<1> DEFINE f == [Frame("doc", 0, 0) EXCEPT !.due = TRUE]
<1>2. f \in FrameSet /\ f.kind = "doc" /\ f.due
  BY DEF FrameSet, Frame
<1>3. stack = <<f>>
  BY <1>1
<1>. HIDE DEF f
<1>4. stack \in Seq(FrameSet) /\ stack # <<>> /\ Len(stack) = 1 /\ stack[1] = f
  BY <1>2, <1>3
<1>5. TypeOK
  BY <1>1, <1>4 DEF TypeOK
<1>6. StackOK
  <2>1. stack[1].kind = "doc" /\ (stack[1].due <=> wrote = <<>>)
    BY <1>1, <1>2, <1>4, Zenon
  <2>2. ~(Len(stack) >= 2) /\ 2 .. Len(stack) = {}
    BY <1>4
  <2>3. QED BY <2>1, <2>2 DEF StackOK
<1>7. TablesOK
  BY <1>1 DEF TablesOK, TableOK, OffsetsResolve
<1>8. FitOK
  BY <1>1 DEF FitOK, AllFit
<1>9. QED BY <1>5, <1>6, <1>7, <1>8 DEF IInv

LEMMA StutterStep == ASSUME IInv, UNCHANGED cvars PROVE IInv'
<1>1. /\ result' = result /\ stack' = stack /\ bytes' = bytes /\ len' = len /\ words' = words
      /\ latin1_offsets' = latin1_offsets /\ utf32_offsets' = utf32_offsets /\ wrote' = wrote
  BY DEF cvars, offsets
<1>2. TypeOK'
  BY <1>1 DEF IInv, TypeOK
<1>3. StackOK'
  BY <1>1 DEF IInv, StackOK, FrameOK
<1>4. TablesOK'
  BY <1>1 DEF IInv, TablesOK, TableOK, OffsetsResolve, Asked
<1>5. FitOK'
  BY <1>1 DEF IInv, FitOK, AllFit, Pending
<1>6. QED BY <1>2, <1>3, <1>4, <1>5 DEF IInv

LEMMA NextOK == IInv /\ [CNext]_cvars => IInv'
<1>. SUFFICES ASSUME IInv, [CNext]_cvars PROVE IInv'
  OBVIOUS
<1>1. CASE write_header
  BY <1>1, HeaderStep
<1>2. CASE write_footer
  BY <1>2, FooterStep
<1>3. CASE write_all
  BY <1>3, WriteAllStep
<1>4. CASE \E v \in Scalars : write_scalar(v)
  BY <1>4, ScalarStep
<1>5. CASE \E s \in Strings : write_string(s)
  BY <1>5, StringStep
<1>6. CASE \E s \in Strings : write_key(s)
  BY <1>6, KeyStep
<1>7. CASE \E b \in Blobs : write_binary_blob(b)
  BY <1>7, BlobStep
<1>8. CASE blob_text
  BY <1>8, BlobTextStep
<1>9. CASE blob_raw
  BY <1>9, BlobRawStep
<1>10. CASE \E n \in 0 .. MaxLen : write_array(n)
  BY <1>10, ArrayStep
<1>11. CASE \E n \in 0 .. MaxLen : write_object(n)
  BY <1>11, ObjectStep
<1>12. CASE element_offset
  BY <1>12, ElementOffsetStep
<1>13. CASE end_array
  BY <1>13, EndArrayStep
<1>14. CASE value_offset
  BY <1>14, ValueOffsetStep
<1>15. CASE end_object
  BY <1>15, EndObjectStep
<1>16. CASE UNCHANGED cvars
  BY <1>16, StutterStep
<1>17. QED
  BY <1>1, <1>2, <1>3, <1>4, <1>5, <1>6, <1>7, <1>8, <1>9, <1>10, <1>11, <1>12, <1>13, <1>14,
     <1>15, <1>16 DEF CNext

(* The invariant of the compact writer.                                    *)
THEOREM Invariant == CSpec => []IInv
<1>1. CInit => IInv
  BY InitOK
<1>2. IInv /\ [CNext]_cvars => IInv'
  BY NextOK
<1>3. QED BY <1>1, <1>2, PTL DEF CSpec

(* Whatever it writes, the compact writer hands out offsets that are u32   *)
(* only, and its buffer holds tokens of the format only (ser.rs:240-259).  *)
THEOREM TypeCorrect == CSpec => []TypeOK
<1>1. IInv => TypeOK
  BY DEF IInv
<1>2. QED BY <1>1, Invariant, PTL

(* Every reference in a compact file is the offset of the text that it was *)
(* asked for, keys, values and blobs together (ser.rs:301-362).            *)
THEOREM ReferencesResolve == CSpec => []OffsetsResolve
<1>1. IInv => OffsetsResolve
  BY DEF IInv, TablesOK
<1>2. QED BY <1>1, Invariant, PTL

(* No length that "as u32" cut gets into a finished file whose root is a   *)
(* container: the position after it is asked for, and is no u32            *)
(* (ser.rs:240-259, 330, 350, 378).                                        *)
THEOREM CutsAreCaught == CSpec => []WordsFit
<1>1. IInv => WordsFit
  BY DEF IInv, FitOK, AllFit, WordsFit, Containers
<1>2. QED BY <1>1, Invariant, PTL
-----------------------------------------------------------------------------
(* Patches.  A frame of the stack owns the words it has yet to patch.      *)
(* What a frame has yet to patch: the rest of an array's table, or the     *)
(* word after the key whose value is being written.                        *)
Places(f) ==
  IF f.kind = "array" THEN {f.slot + 4 * k : k \in (f.count - f.left) .. f.count}
  ELSE IF f.kind = "object" /\ f.slot # 0 THEN {f.slot} ELSE {}

(* Such a word exists and is zero; no two frames wait for the same one;    *)
(* and every word lies in what has been written.                           *)
Reserved == \A i \in DOMAIN stack : \A o \in Places(stack[i]) : o \in DOMAIN words /\ words[o] = 0
Apart    == \A i, j \in DOMAIN stack : i # j => Places(stack[i]) \cap Places(stack[j]) = {}
Below    == \A o \in DOMAIN words : o < len
PInv     == Reserved /\ Apart /\ Below

WordStep == /\ bytes' = bytes => DOMAIN words' = DOMAIN words
            /\ \A o \in DOMAIN words : words[o] # 0 => words'[o] = words[o]

(* A step leaves the words alone that are not the top's to patch.          *)
Kept == \A o \in DOMAIN words \ Places(Top) : o \in DOMAIN words' /\ words'[o] = words[o]
(* The places of a frame new on top: zero, and either new or the top's.    *)
Blank(g) == /\ \A o \in Places(g) : o \in DOMAIN words' /\ words'[o] = 0
            /\ Places(g) \cap DOMAIN words \subseteq Places(Top)
-----------------------------------------------------------------------------
(* The stack with its top replaced, with a frame more, and with one less.  *)
LEMMA TopPlaces ==
  ASSUME TypeOK, Reserved, Apart, NEW g \in FrameSet, stack' = With(g), Kept, Blank(g)
  PROVE  Reserved' /\ Apart'
<1>1. /\ Len(stack) \in Nat \ {0} /\ Top = stack[Len(stack)] /\ DOMAIN stack = 1 .. Len(stack)
      /\ DOMAIN stack' = 1 .. Len(stack)
      /\ \A i \in 1 .. Len(stack) : stack'[i] = IF i = Len(stack) THEN g ELSE stack[i]
  <2>1. With(g) \in Seq(FrameSet) /\ Len(With(g)) = Len(stack)
        /\ \A i \in 1 .. Len(stack) : With(g)[i] = IF i = Len(stack) THEN g ELSE stack[i]
    BY WithProps
  <2>2. DOMAIN With(g) = 1 .. Len(stack)
    BY <2>1
  <2>3. DOMAIN stack = 1 .. Len(stack)
    BY DEF TypeOK
  <2>4. QED BY <2>1, <2>2, <2>3, StackProps DEF Top
<1>2. ASSUME NEW i \in 1 .. Len(stack), i # Len(stack), NEW o \in Places(stack[i])
      PROVE  o \in DOMAIN words /\ words[o] = 0 /\ o \notin Places(Top)
  <2>1. o \in DOMAIN words /\ words[o] = 0
    BY <1>1, <1>2 DEF Reserved
  <2>2. Len(stack) \in DOMAIN stack /\ i \in DOMAIN stack
    <3>1. \A n \in Nat \ {0} : n \in 1 .. n
      OBVIOUS
    <3>2. QED BY <1>1, <3>1, Zenon
  <2>3. Places(stack[i]) \cap Places(Top) = {}
    BY <1>1, <1>2, <2>2 DEF Apart
  <2>4. QED BY <2>1, <2>3
<1>3. Reserved'
  <2>1. ASSUME NEW i \in 1 .. Len(stack), NEW o \in Places(stack'[i])
        PROVE  o \in DOMAIN words' /\ words'[o] = 0
    <3>1. CASE i = Len(stack)
      BY <1>1, <3>1 DEF Blank
    <3>2. CASE i # Len(stack)
      <4>1. o \in DOMAIN words /\ words[o] = 0 /\ o \notin Places(Top)
        BY <1>1, <1>2, <3>2
      <4>2. QED BY <4>1 DEF Kept
    <3>3. QED BY <3>1, <3>2
  <2>2. QED BY <1>1, <2>1 DEF Reserved, Places
<1>4. Apart'
  <2>1. ASSUME NEW j \in 1 .. Len(stack), j # Len(stack) PROVE Places(g) \cap Places(stack[j]) = {}
    BY <1>2, <2>1 DEF Blank
  <2>2. ASSUME NEW i \in 1 .. Len(stack), NEW j \in 1 .. Len(stack), i # j
        PROVE  Places(stack'[i]) \cap Places(stack'[j]) = {}
    <3>1. CASE i = Len(stack)
      BY <1>1, <2>1, <2>2, <3>1
    <3>2. CASE j = Len(stack)
      BY <1>1, <2>1, <2>2, <3>2
    <3>3. CASE i # Len(stack) /\ j # Len(stack)
      BY <1>1, <2>2, <3>3 DEF Apart
    <3>4. QED BY <3>1, <3>2, <3>3
  <2>3. \A i, j \in DOMAIN stack' : i # j => Places(stack'[i]) \cap Places(stack'[j]) = {}
    BY <1>1, <2>2
  <2>4. QED BY <2>3 DEF Apart
<1>5. QED BY <1>3, <1>4

LEMMA PushPlaces ==
  ASSUME TypeOK, Reserved, Apart, NEW f \in FrameSet, Pushed(f),
         \A o \in DOMAIN words : o \in DOMAIN words' /\ words'[o] = words[o],
         \A o \in Places(f) : o \in DOMAIN words' /\ words'[o] = 0,
         Places(f) \cap DOMAIN words = {}
  PROVE  Reserved' /\ Apart'
<1> DEFINE n == Len(stack) + 1
           u == [Top EXCEPT !.due = FALSE]
<1>1. /\ Len(stack) \in Nat \ {0} /\ Top = stack[Len(stack)] /\ Top \in FrameSet
      /\ DOMAIN stack = 1 .. Len(stack) /\ DOMAIN stack' = 1 .. n /\ stack'[n] = f
      /\ \A i \in 1 .. Len(stack) : stack'[i] = IF i = Len(stack) THEN u ELSE stack[i]
  <2>1. LET s == Append(Used, f)
        IN  /\ s \in Seq(FrameSet) /\ Len(s) = Len(stack) + 1
            /\ s[Len(stack) + 1] = f
            /\ \A i \in 1 .. Len(stack) : s[i] = IF i = Len(stack) THEN u ELSE stack[i]
    BY PushProps
  <2>2. stack' \in Seq(FrameSet) /\ Len(stack') = Len(stack) + 1
    BY <2>1 DEF Pushed
  <2>3. DOMAIN stack' = 1 .. n
    BY <2>2
  <2>4. DOMAIN stack = 1 .. Len(stack)
    BY DEF TypeOK
  <2>5. QED BY <2>1, <2>3, <2>4, StackProps DEF Top, Pushed
<1>2. Places(u) = Places(Top)
  <2>1. u.kind = Top.kind /\ u.slot = Top.slot /\ u.left = Top.left /\ u.count = Top.count
    BY <1>1 DEF FrameSet
  <2>. HIDE DEF u
  <2>2. QED BY <2>1 DEF Places
<1>. HIDE DEF u
<1>3. \A i \in 1 .. Len(stack) : Places(stack'[i]) = Places(stack[i])
  BY <1>1, <1>2
<1>4. \A i \in 1 .. n : i \in 1 .. Len(stack) \/ i = n
  <2>1. Len(stack) \in Nat
    BY <1>1
  <2>2. QED BY <2>1
<1>5. \A i \in 1 .. Len(stack) : \A o \in Places(stack[i]) : o \in DOMAIN words /\ words[o] = 0
  BY <1>1 DEF Reserved
<1>. HIDE DEF n
<1>6. Reserved'
  <2>1. ASSUME NEW i \in 1 .. n, NEW o \in Places(stack'[i])
        PROVE  o \in DOMAIN words' /\ words'[o] = 0
    BY <1>1, <1>3, <1>4, <1>5
  <2>2. QED BY <1>1, <2>1 DEF Reserved, Places
<1>7. Apart'
  <2>1. ASSUME NEW i \in 1 .. n, NEW j \in 1 .. n, i # j
        PROVE  Places(stack'[i]) \cap Places(stack'[j]) = {}
    <3>1. CASE i = n
      <4>1. j \in 1 .. Len(stack)
        BY <1>4, <2>1, <3>1
      <4>2. QED BY <1>1, <1>3, <1>5, <3>1, <4>1
    <3>2. CASE j = n
      <4>1. i \in 1 .. Len(stack)
        BY <1>4, <2>1, <3>2
      <4>2. QED BY <1>1, <1>3, <1>5, <3>2, <4>1
    <3>3. CASE i # n /\ j # n
      <4>1. i \in 1 .. Len(stack) /\ j \in 1 .. Len(stack)
        BY <1>4, <3>3
      <4>2. QED BY <1>1, <1>3, <2>1, <4>1 DEF Apart
    <3>4. QED BY <3>1, <3>2, <3>3
  <2>2. QED BY <1>1, <2>1 DEF Apart, Places
<1>8. QED BY <1>6, <1>7

LEMMA PopPlaces ==
  ASSUME TypeOK, Reserved, Apart, Len(stack) >= 2, stack' = Closed, Kept
  PROVE  Reserved' /\ Apart'
<1> DEFINE n == Len(stack) - 1
<1>1. /\ Len(stack) \in Nat \ {0} /\ Top = stack[Len(stack)] /\ DOMAIN stack = 1 .. Len(stack)
      /\ DOMAIN stack' = 1 .. n /\ \A i \in 1 .. n : stack'[i] = stack[i]
  <2>1. Closed \in Seq(FrameSet) /\ Len(Closed) = n /\ \A i \in 1 .. n : Closed[i] = stack[i]
    BY ClosedProps
  <2>2. DOMAIN Closed = 1 .. n
    BY <2>1
  <2>3. DOMAIN stack = 1 .. Len(stack)
    BY DEF TypeOK
  <2>4. QED BY <2>1, <2>2, <2>3, StackProps DEF Top
<1>2. \A i \in 1 .. n : i \in 1 .. Len(stack) /\ i # Len(stack)
  <2>1. Len(stack) \in Nat
    BY <1>1
  <2>2. QED BY <2>1
<1>3. Len(stack) \in 1 .. Len(stack)
  BY <1>1
<1>. HIDE DEF n
<1>4. Reserved'
  <2>1. ASSUME NEW i \in 1 .. n, NEW o \in Places(stack'[i])
        PROVE  o \in DOMAIN words' /\ words'[o] = 0
    <3>1. o \in DOMAIN words /\ words[o] = 0
      BY <1>1, <1>2 DEF Reserved
    <3>2. o \notin Places(Top)
      BY <1>1, <1>2, <1>3 DEF Apart
    <3>3. QED BY <3>1, <3>2 DEF Kept
  <2>2. QED BY <1>1, <2>1 DEF Reserved, Places
<1>5. Apart'
  <2>1. ASSUME NEW i \in 1 .. n, NEW j \in 1 .. n, i # j
        PROVE  Places(stack'[i]) \cap Places(stack'[j]) = {}
    BY <1>1, <1>2, <2>1 DEF Apart
  <2>2. DOMAIN stack' = 1 .. n
    BY <1>1
  <2>3. QED BY ONLY <2>1, <2>2 DEF Apart, Places
<1>6. QED BY <1>4, <1>5
-----------------------------------------------------------------------------
(* The words: left as they are, left zero at the end, and patched.         *)
LEMMA SameWords ==
  ASSUME TypeOK, Below, words' = words, len' \in Nat, len' >= len
  PROVE  Below' /\ WordStep /\ Kept
<1>1. len \in Nat /\ \A o \in DOMAIN words : o \in Nat /\ o < len
  BY DEF TypeOK, Below
<1>2. Below'
  BY <1>1 DEF Below
<1>3. QED BY <1>2 DEF WordStep, Kept

LEMMA NewWords ==
  ASSUME TypeOK, Below, NEW places \in SUBSET Nat, Zeros(places), len' \in Nat, len' >= len,
         \A o \in places : o >= len /\ o < len', bytes' # bytes
  PROVE  /\ Below' /\ WordStep
         /\ \A o \in DOMAIN words : o \in DOMAIN words' /\ words'[o] = words[o]
         /\ \A o \in places : o \in DOMAIN words' /\ words'[o] = 0
         /\ places \cap DOMAIN words = {}
<1>1. len \in Nat /\ \A o \in DOMAIN words : o \in Nat /\ o < len
  BY DEF TypeOK, Below
<1>2. /\ DOMAIN words' = DOMAIN words \cup places
      /\ \A o \in DOMAIN words \cup places : words'[o] = IF o \in places THEN 0 ELSE words[o]
  BY DEF Zeros
<1>3. places \cap DOMAIN words = {}
  BY <1>1
<1>4. Below'
  <2>1. ASSUME NEW o \in DOMAIN words' PROVE o < len'
    <3>1. CASE o \in places
      BY <3>1
    <3>2. CASE o \in DOMAIN words
      <4>1. o \in Nat /\ o < len /\ len \in Nat /\ len' \in Nat /\ len <= len'
        BY <1>1, <3>2
      <4>2. QED BY <4>1
    <3>3. QED BY <1>2, <3>1, <3>2
  <2>2. QED BY <2>1 DEF Below
<1>5. WordStep
  BY <1>2, <1>3 DEF WordStep
<1>6. QED BY <1>2, <1>3, <1>4, <1>5

LEMMA PatchedWord ==
  ASSUME TypeOK, Reserved, Below, NEW o \in Places(Top), NEW n, patch_u32(o, n), len' = len
  PROVE  /\ Below' /\ WordStep /\ Kept
         /\ \A p \in Places(Top) \ {o} : p \in DOMAIN words' /\ words'[p] = 0
<1>1. Len(stack) \in DOMAIN stack /\ Top = stack[Len(stack)]
  BY StackProps DEF Top, TypeOK
<1>2. \A p \in Places(Top) : p \in DOMAIN words /\ words[p] = 0
  BY <1>1 DEF Reserved
<1>3. /\ DOMAIN words' = DOMAIN words
      /\ \A p \in DOMAIN words : words'[p] = IF p = o THEN n ELSE words[p]
  BY <1>2 DEF patch_u32, Mutated
<1>4. Below'
  BY <1>3 DEF Below
<1>5. WordStep
  BY <1>2, <1>3 DEF WordStep
<1>6. Kept
  BY <1>3 DEF Kept
<1>7. QED BY <1>2, <1>3, <1>4, <1>5, <1>6

(* A token at the end moves the end, and changes the buffer.               *)
LEMMA EmitGrows ==
  ASSUME TypeOK, NEW tok, NEW part, Emit(tok, part), Size(tok) \in Nat
  PROVE  len \in Nat /\ len' \in Nat /\ len' = len + Size(tok) /\ len' >= len /\ bytes' # bytes
<1>1. bytes \in Seq(Item) /\ len \in Nat
  BY DEF TypeOK
<1>2. len' = len + Size(tok)
  BY DEF Emit
<1> DEFINE new == [at |-> len, tok |-> tok, of |-> part]
<1>3. bytes' = Append(bytes, new)
  BY DEF Emit
<1>. HIDE DEF new
<1>4. bytes \in Seq(Item \cup {new}) /\ new \in Item \cup {new}
  BY <1>1, SeqMonotonic
<1>5. Len(bytes') = Len(bytes) + 1 /\ Len(bytes) \in Nat
  BY <1>3, <1>4, AppendProps
<1>6. QED BY <1>1, <1>2, <1>5

(* The values of one token, the footer and the like: the top at most is no *)
(* longer due.                                                             *)
LEMMA UsedPlaces ==
  ASSUME TypeOK, Reserved, Apart, Below, words' = words, stack' = Used, len' \in Nat, len' >= len
  PROVE  PInv' /\ WordStep
<1> DEFINE u == [Top EXCEPT !.due = FALSE]
<1>1. Top \in FrameSet /\ u \in FrameSet /\ stack' = With(u)
  BY StackProps, UsedProps DEF Used
<1>2. u.kind = Top.kind /\ u.slot = Top.slot /\ u.left = Top.left /\ u.count = Top.count
  BY <1>1 DEF FrameSet
<1>. HIDE DEF u
<1>3. Places(u) = Places(Top)
  BY <1>2 DEF Places
<1>4. Len(stack) \in DOMAIN stack /\ Top = stack[Len(stack)]
  BY StackProps DEF Top, TypeOK
<1>5. Blank(u)
  BY <1>3, <1>4 DEF Blank, Reserved
<1>6. Below' /\ WordStep /\ Kept
  BY SameWords
<1>7. QED BY <1>1, <1>5, <1>6, TopPlaces DEF PInv

LEMMA SamePlaces ==
  ASSUME TypeOK, PInv, words' = words, stack' = stack, len' \in Nat, len' >= len
  PROVE  PInv' /\ WordStep
<1>1. Below' /\ WordStep
  BY SameWords DEF PInv
<1>2. Reserved' /\ Apart'
  BY DEF PInv, Reserved, Apart, Places
<1>3. QED BY <1>1, <1>2 DEF PInv
-----------------------------------------------------------------------------
LEMMA AbortPlaces == ASSUME IInv, PInv, NEW how, Abort(how) PROVE PInv' /\ WordStep
<1>1. TypeOK /\ words' = words /\ stack' = stack /\ len' = len
  BY DEF IInv, Abort
<1>2. len' \in Nat /\ len' >= len
  BY <1>1 DEF TypeOK
<1>3. QED BY <1>1, <1>2, SamePlaces

LEMMA ScalarPlaces == ASSUME IInv, PInv, NEW v \in Scalars, write_scalar(v) PROVE PInv' /\ WordStep
<1> DEFINE tok  == ScalarToken(v)
           part == Len(wrote) + 1
<1>1. TypeOK /\ Size(tok) \in Nat /\ Emit(tok, part) /\ words' = words /\ stack' = Used
  BY ScalarTokenProps DEF IInv, write_scalar
<1>. HIDE DEF tok, part
<1>2. len' \in Nat /\ len' >= len
  BY <1>1, EmitGrows
<1>3. QED BY <1>1, <1>2, UsedPlaces DEF PInv

(* What a text is written as: its size, and the word after it.             *)
LEMMA StringPlaces ==
  ASSUME TypeOK, Below, NEW s \in Texts, NEW wide \in BOOLEAN, NEW paired \in BOOLEAN, NEW part,
         write_compact_string(s, wide, paired, part)
  PROVE  /\ len \in Nat /\ len' \in Nat /\ len' >= len
         /\ ~paired => words' = words
         /\ paired => /\ len' - 4 \in Nat /\ len' - 4 >= len /\ Zeros({len' - 4})
                      /\ bytes' # bytes
<1>1. \E tok : /\ Emit(tok, part) /\ Placeholder(tok, paired)
               /\ Size(tok) \in Nat /\ Size(tok) >= (IF paired THEN 9 ELSE 5)
  <2>1. CASE s \in DOMAIN Offsets(wide)
    <3>1. Offsets(wide)[s] \in Nat
      BY <2>1, WordAssumption DEF TypeOK, Offsets, WordAssumption
    <3>2. Size(RefToken(s, wide, paired)) \in Nat
          /\ Size(RefToken(s, wide, paired)) >= (IF paired THEN 9 ELSE 5)
      BY <3>1, RefTokenProps
    <3>3. QED BY <2>1, <3>2 DEF write_compact_string
  <2>2. CASE s \notin DOMAIN Offsets(wide)
    <3>1. Size(DefToken(s, wide, paired)) \in Nat
          /\ Size(DefToken(s, wide, paired)) >= (IF paired THEN 9 ELSE 5)
      BY DefTokenProps
    <3>2. QED BY <2>2, <3>1 DEF write_compact_string
  <2>3. QED BY <2>1, <2>2
<1>2. PICK tok : /\ Emit(tok, part) /\ Placeholder(tok, paired)
                 /\ Size(tok) \in Nat /\ Size(tok) >= (IF paired THEN 9 ELSE 5)
  BY <1>1
<1>3. len \in Nat /\ len' \in Nat /\ len' = len + Size(tok) /\ len' >= len /\ bytes' # bytes
  BY <1>2, EmitGrows
<1>4. ASSUME paired PROVE len' - 4 \in Nat /\ len' - 4 >= len /\ Zeros({len' - 4})
  <2>1. Size(tok) \in Nat /\ Size(tok) >= 9
    BY <1>2, <1>4
  <2>2. Aux(tok) = len' - 4 /\ len' - 4 \in Nat /\ len' - 4 >= len
    BY <1>3, <2>1 DEF Aux
  <2>3. Zeros({Aux(tok)})
    BY <1>2, <1>4 DEF Placeholder
  <2>4. QED BY <2>2, <2>3
<1>5. ~paired => words' = words
  BY <1>2 DEF Placeholder
<1>6. QED BY <1>3, <1>4, <1>5

LEMMA StringValuePlaces ==
  ASSUME IInv, PInv, NEW s \in Strings, write_string(s) PROVE PInv' /\ WordStep
<1>1. CASE string_fails(s, Wide(s))
  BY <1>1, AbortPlaces DEF string_fails
<1>2. CASE ~string_fails(s, Wide(s))
  <2>1. /\ TypeOK /\ Below /\ s \in Texts /\ Wide(s) \in BOOLEAN /\ stack' = Used
        /\ write_compact_string(s, Wide(s), FALSE, Len(wrote) + 1)
    BY <1>2 DEF IInv, PInv, write_string, Texts, Wide
  <2>2. len' \in Nat /\ len' >= len /\ words' = words
    BY <2>1, StringPlaces
  <2>3. QED BY <2>1, <2>2, UsedPlaces DEF PInv
<1>3. QED BY <1>1, <1>2

LEMMA KeyPlaces == ASSUME IInv, PInv, NEW s \in Strings, write_key(s) PROVE PInv' /\ WordStep
<1>1. CASE string_fails(s, Wide(s))
  BY <1>1, AbortPlaces DEF string_fails
<1>2. CASE ~string_fails(s, Wide(s))
  <2> DEFINE g == [Top EXCEPT !.left = @ - 1, !.due = TRUE, !.slot = len' - 4]
  <2>1. /\ TypeOK /\ Below /\ s \in Texts /\ Wide(s) \in BOOLEAN /\ stack' = With(g)
        /\ Top.kind = "object" /\ Top.left > 0
        /\ write_compact_string(s, Wide(s), TRUE, Len(wrote) + 1)
    BY <1>2 DEF IInv, PInv, write_key, KeyDue, Texts, Wide
  <2>2. /\ len \in Nat /\ len' \in Nat /\ len' >= len
        /\ len' - 4 \in Nat /\ len' - 4 >= len /\ Zeros({len' - 4}) /\ bytes' # bytes
    BY <2>1, StringPlaces
  <2>3. g \in FrameSet /\ g.kind = "object" /\ g.slot = len' - 4
    <3>1. Top \in FrameSet
      BY <2>1, StackProps
    <3>2. Top.left - 1 \in Nat
      BY <2>1, <3>1 DEF FrameSet
    <3>3. QED BY <2>1, <2>2, <3>1, <3>2 DEF FrameSet
  <2>. HIDE DEF g
  <2>4. PICK places \in SUBSET Nat : places = {len' - 4}
    BY <2>2
  <2>5. \A o \in places : o >= len /\ o < len'
    <3>1. \A n \in Nat : n - 4 < n
      OBVIOUS
    <3>2. len' - 4 < len'
      BY <2>2, <3>1
    <3>3. QED BY <2>2, <2>4, <3>2, Zenon
  <2>6. /\ Below' /\ WordStep
        /\ \A o \in DOMAIN words : o \in DOMAIN words' /\ words'[o] = words[o]
        /\ \A o \in places : o \in DOMAIN words' /\ words'[o] = 0
        /\ places \cap DOMAIN words = {}
    BY <2>1, <2>2, <2>4, <2>5, NewWords
  <2>7. Kept
    BY <2>6 DEF Kept
  <2>8. Places(g) \subseteq places
    BY <2>3, <2>4 DEF Places
  <2>9. Blank(g)
    BY <2>6, <2>8 DEF Blank
  <2>10. Reserved' /\ Apart'
    BY <2>1, <2>3, <2>7, <2>9, TopPlaces DEF PInv
  <2>11. QED BY <2>6, <2>10 DEF PInv
<1>3. QED BY <1>1, <1>2

(* A binary blob keeps no place.                                           *)
LEMMA BlobTextPlaces == ASSUME IInv, PInv, blob_text PROVE PInv' /\ WordStep
<1>1. TypeOK /\ StackOK /\ Top.kind = "binary"
  BY DEF IInv, blob_text, InBlob
<1>2. CASE string_fails(HexStr(Blob), FALSE)
  BY <1>2, AbortPlaces DEF string_fails
<1>3. CASE ~string_fails(HexStr(Blob), FALSE)
  <2> DEFINE g == [Top EXCEPT !.left = 1]
  <2>1. write_compact_string(HexStr(Blob), FALSE, FALSE, Len(wrote)) /\ stack' = With(g)
    BY <1>3 DEF blob_text
  <2>2. HexStr(Blob) \in Texts
    BY <1>1, BlobIsLast DEF Texts
  <2>3. len' \in Nat /\ len' >= len /\ words' = words
    BY <1>1, <2>1, <2>2, StringPlaces DEF PInv
  <2>4. g \in FrameSet /\ g.kind = "binary"
    BY <1>1, StackProps DEF FrameSet
  <2>. HIDE DEF g
  <2>5. Below' /\ WordStep /\ Kept
    BY <1>1, <2>3, SameWords DEF PInv
  <2>6. Blank(g)
    BY <2>4 DEF Blank, Places
  <2>7. QED BY <1>1, <2>1, <2>4, <2>5, <2>6, TopPlaces DEF PInv
<1>4. QED BY <1>2, <1>3

LEMMA BlobRawPlaces == ASSUME IInv, PInv, blob_raw PROVE PInv' /\ WordStep
<1> DEFINE tok  == [tag |-> "(raw)", declared |-> U32(Len(Blob)), raw |-> Blob]
           part == Len(wrote)
<1>1. TypeOK /\ StackOK /\ Top.kind = "binary" /\ stack' = Closed /\ words' = words /\ Emit(tok, part)
  BY DEF IInv, blob_raw, InBlob
<1>2. Blob \in Blobs /\ Len(stack) >= 2
  BY <1>1, BlobIsLast
<1>3. Len(Blob) \in Nat
  BY <1>2, CBlobsAssumption DEF CBlobsAssumption
<1>4. Size(tok) \in Nat
  BY <1>3, SizeOf
<1>. HIDE DEF tok, part
<1>5. len' \in Nat /\ len' >= len
  BY <1>1, <1>4, EmitGrows
<1>6. Below' /\ WordStep /\ Kept
  BY <1>1, <1>5, SameWords DEF PInv
<1>7. QED BY <1>1, <1>2, <1>6, PopPlaces DEF PInv

LEMMA BarePushPlaces ==
  ASSUME IInv, PInv, NEW tok, tok.tag \in {"CompactBinaryBlob", "CompactObjectBegin"},
         NEW part, Emit(tok, part), words' = words,
         NEW f \in FrameSet, Pushed(f), Places(f) = {}
  PROVE  PInv' /\ WordStep
<1>1. TypeOK /\ Size(tok) \in Nat
  BY SizeOf DEF IInv
<1>2. len' \in Nat /\ len' >= len
  BY <1>1, EmitGrows
<1>3. Below' /\ WordStep
  BY <1>1, <1>2, SameWords DEF PInv
<1>4. QED BY <1>1, <1>3, PushPlaces DEF PInv

LEMMA BlobPlaces ==
  ASSUME IInv, PInv, NEW b \in Blobs, write_binary_blob(b) PROVE PInv' /\ WordStep
<1> DEFINE tok == [tag |-> "CompactBinaryBlob"]
           f   == Frame("binary", 2, 0)
<1>1. Emit(tok, Len(wrote) + 1) /\ words' = words /\ Pushed(f) /\ tok.tag = "CompactBinaryBlob"
  BY DEF write_binary_blob, Pushed
<1>2. f \in FrameSet /\ f.kind = "binary"
  BY FrameTyped
<1>. HIDE DEF tok, f
<1>3. Places(f) = {}
  BY <1>2 DEF Places
<1>4. QED BY <1>1, <1>2, <1>3, BarePushPlaces

LEMMA ObjectPlaces ==
  ASSUME IInv, PInv, NEW n \in 0 .. MaxLen, write_object(n) PROVE PInv' /\ WordStep
<1> DEFINE tok == [tag |-> "CompactObjectBegin"]
           f   == Frame("object", n, 0)
<1>1. Emit(tok, Len(wrote) + 1) /\ words' = words /\ Pushed(f) /\ tok.tag = "CompactObjectBegin"
  BY DEF write_object, Pushed
<1>2. f \in FrameSet /\ f.kind = "object" /\ f.slot = 0
  BY FrameTyped, CBoundsAssumption DEF CBoundsAssumption
<1>. HIDE DEF tok, f
<1>3. Places(f) = {}
  BY <1>2 DEF Places
<1>4. QED BY <1>1, <1>2, <1>3, BarePushPlaces

(* The whole table is new, and the array's.                                *)
LEMMA ArrayPlaces ==
  ASSUME IInv, PInv, NEW n \in 0 .. MaxLen, write_array(n) PROVE PInv' /\ WordStep
<1> DEFINE table == [i \in 1 .. n + 1 |-> 0]
           tok   == [tag |-> "CompactArrayBegin", count |-> U32(n), table |-> table]
           f     == Frame("array", n, len + 6)
<1>1. TypeOK /\ n \in Nat /\ len \in Nat /\ len + 6 \in Nat
  BY CBoundsAssumption DEF CBoundsAssumption, IInv, TypeOK
<1>2. Emit(tok, Len(wrote) + 1) /\ Zeros(TableAt(len + 6, n)) /\ Pushed(f)
      /\ tok.tag = "CompactArrayBegin" /\ tok.table = table
  BY DEF write_array, Pushed
<1>3. table # <<>> /\ Len(table) = n + 1
  BY <1>1
<1>4. f \in FrameSet /\ f.kind = "array" /\ f.left = n /\ f.count = n /\ f.slot = len + 6
  BY <1>1, FrameTyped
<1>. HIDE DEF table, f
<1>5. Size(tok) = 10 + 4 * n
  <2>1. Size(tok) = 1 + TableSize(tok)
    BY <1>2, SizeOf
  <2>2. TableSize(tok) = 5 + 4 * (n + 1)
    BY <1>2, <1>3 DEF TableSize
  <2>3. QED BY <1>1, <2>1, <2>2
<1>. HIDE DEF tok
<1>6. len' \in Nat /\ len' = len + (10 + 4 * n) /\ len' >= len /\ bytes' # bytes
  <2>1. Size(tok) \in Nat
    BY <1>1, <1>5
  <2>2. QED BY <1>1, <1>2, <1>5, <2>1, EmitGrows
<1>7. PICK places \in SUBSET Nat : places = TableAt(len + 6, n)
  <2>1. TableAt(len + 6, n) \in SUBSET Nat
    BY <1>1 DEF TableAt
  <2>2. QED BY <2>1, Zenon
<1>8. \A o \in places : o >= len /\ o < len'
  BY <1>1, <1>6, <1>7 DEF TableAt
<1>9. /\ Below' /\ WordStep
      /\ \A o \in DOMAIN words : o \in DOMAIN words' /\ words'[o] = words[o]
      /\ \A o \in places : o \in DOMAIN words' /\ words'[o] = 0
      /\ places \cap DOMAIN words = {}
  BY <1>1, <1>2, <1>6, <1>7, <1>8, NewWords DEF PInv
<1>10. Places(f) = places
  <2>1. n - n = 0
    BY <1>1
  <2>2. QED BY <1>4, <1>7, <2>1 DEF Places, TableAt
<1>11. QED BY <1>1, <1>2, <1>4, <1>9, <1>10, PushPlaces DEF PInv

(* The patches: the first place of the top's, which it gives up.           *)
LEMMA ElementPlaces == ASSUME IInv, PInv, element_offset PROVE PInv' /\ WordStep
<1>1. TypeOK /\ StackOK
  BY DEF IInv
<1>2. CASE position_u32_fails
  BY <1>2, AbortPlaces DEF position_u32_fails
<1>3. CASE ~position_u32_fails
  <2> DEFINE g == [Top EXCEPT !.left = @ - 1, !.due = TRUE]
             o == Top.slot + 4 * (Top.count - Top.left)
  <2>1. /\ Top.kind = "array" /\ Top.left > 0 /\ patch_u32(o, len) /\ stack' = With(g) /\ len' = len
    BY <1>3 DEF element_offset, InArray
  <2>2. Top \in FrameSet /\ Top.left <= Top.count
    BY <1>1, <2>1, Inside DEF FrameOK
  <2>3. Top.left \in Nat /\ Top.count \in Nat /\ Top.slot \in Nat
    BY <2>2 DEF FrameSet
  <2>4. Top.left - 1 \in Nat
    BY <2>1, <2>3
  <2>5. g \in FrameSet /\ g.kind = "array" /\ g.left = Top.left - 1
        /\ g.count = Top.count /\ g.slot = Top.slot
    BY <2>1, <2>2, <2>4 DEF FrameSet
  <2>. HIDE DEF g
  <2>6. o \in Places(Top)
    <3>1. Top.count - Top.left \in (Top.count - Top.left) .. Top.count
      BY <2>2, <2>3
    <3>2. QED BY <2>1, <3>1 DEF Places
  <2>7. Places(g) \subseteq Places(Top) \ {o}
    <3>1. Places(g) = {Top.slot + 4 * k : k \in (Top.count - (Top.left - 1)) .. Top.count}
      BY <2>5 DEF Places
    <3>2. Places(Top) = {Top.slot + 4 * k : k \in (Top.count - Top.left) .. Top.count}
      BY <2>1 DEF Places
    <3>3. ASSUME NEW k \in (Top.count - (Top.left - 1)) .. Top.count
          PROVE  k \in (Top.count - Top.left) .. Top.count /\ Top.slot + 4 * k # o
      BY <2>3
    <3>4. QED BY <3>1, <3>2, <3>3
  <2>. HIDE DEF o
  <2>8. /\ Below' /\ WordStep /\ Kept
        /\ \A p \in Places(Top) \ {o} : p \in DOMAIN words' /\ words'[p] = 0
    BY <1>1, <2>1, <2>6, PatchedWord DEF PInv
  <2>9. Blank(g)
    BY <2>7, <2>8 DEF Blank
  <2>10. QED BY <1>1, <2>1, <2>5, <2>8, <2>9, TopPlaces DEF PInv
<1>4. QED BY <1>2, <1>3

LEMMA ValuePlaces == ASSUME IInv, PInv, value_offset PROVE PInv' /\ WordStep
<1>1. TypeOK /\ StackOK
  BY DEF IInv
<1>2. CASE position_u32_fails
  BY <1>2, AbortPlaces DEF position_u32_fails
<1>3. CASE ~position_u32_fails
  <2> DEFINE g == [Top EXCEPT !.slot = 0]
  <2>1. /\ Top.kind = "object" /\ Top.slot # 0 /\ patch_u32(Top.slot, len)
        /\ stack' = With(g) /\ len' = len
    BY <1>3 DEF value_offset
  <2>2. g \in FrameSet /\ g.kind = "object" /\ g.slot = 0
    BY <1>1, <2>1, StackProps DEF FrameSet
  <2>. HIDE DEF g
  <2>3. Top.slot \in Places(Top)
    BY <2>1 DEF Places
  <2>4. Below' /\ WordStep /\ Kept
    BY <1>1, <2>1, <2>3, PatchedWord DEF PInv
  <2>5. Blank(g)
    BY <2>2 DEF Blank, Places
  <2>6. QED BY <1>1, <2>1, <2>2, <2>4, <2>5, TopPlaces DEF PInv
<1>4. QED BY <1>2, <1>3

LEMMA EndArrayPlaces == ASSUME IInv, PInv, end_array PROVE PInv' /\ WordStep
<1>1. TypeOK /\ StackOK
  BY DEF IInv
<1>2. CASE position_u32_fails
  BY <1>2, AbortPlaces DEF position_u32_fails
<1>3. CASE ~position_u32_fails
  <2> DEFINE o == Top.slot + 4 * Top.count
  <2>1. /\ Top.kind = "array" /\ Top.left = 0 /\ patch_u32(o, len) /\ stack' = Closed /\ len' = len
    BY <1>3 DEF end_array, InArray
  <2>2. Top \in FrameSet /\ Len(stack) >= 2
    BY <1>1, <2>1, Inside
  <2>3. o \in Places(Top)
    <3>1. Top.count \in (Top.count - Top.left) .. Top.count
      BY <2>1, <2>2 DEF FrameSet
    <3>2. QED BY <2>1, <3>1 DEF Places
  <2>. HIDE DEF o
  <2>4. Below' /\ WordStep /\ Kept
    BY <1>1, <2>1, <2>3, PatchedWord DEF PInv
  <2>5. QED BY <1>1, <2>1, <2>2, <2>4, PopPlaces DEF PInv
<1>4. QED BY <1>2, <1>3

LEMMA EndObjectPlaces == ASSUME IInv, PInv, end_object PROVE PInv' /\ WordStep
<1> DEFINE tok == [tag |-> "ObjectEnd"]
<1>1. TypeOK /\ StackOK /\ Top.kind = "object" /\ words' = words /\ stack' = Closed
      /\ Emit(tok, Len(wrote) + 1) /\ tok.tag = "ObjectEnd"
  BY DEF IInv, end_object, KeyDue
<1>. HIDE DEF tok
<1>2. Size(tok) \in Nat /\ Len(stack) >= 2
  BY <1>1, SizeOf, Inside
<1>3. len' \in Nat /\ len' >= len
  BY <1>1, <1>2, EmitGrows
<1>4. Below' /\ WordStep /\ Kept
  BY <1>1, <1>3, SameWords DEF PInv
<1>5. QED BY <1>1, <1>2, <1>4, PopPlaces DEF PInv

LEMMA EndsPlaces ==
  ASSUME IInv, PInv, write_header \/ write_footer \/ write_all \/ UNCHANGED cvars
  PROVE  PInv' /\ WordStep
<1>1. TypeOK /\ words' = words /\ stack' = stack
  BY DEF IInv, write_header, write_footer, write_all, cvars
<1>2. len' \in Nat /\ len' >= len
  <2>1. CASE write_header
    <3> DEFINE tok == [tag |-> "(header)", version |-> "compact"]
    <3>1. Emit(tok, 0) /\ tok.tag = "(header)"
      BY <2>1 DEF write_header
    <3>. HIDE DEF tok
    <3>2. QED BY <1>1, <3>1, SizeOf, EmitGrows
  <2>2. CASE write_footer
    <3> DEFINE tok == [tag |-> "(footer)"]
    <3>1. Emit(tok, Len(wrote) + 1) /\ tok.tag = "(footer)"
      BY <2>2 DEF write_footer
    <3>. HIDE DEF tok
    <3>2. QED BY <1>1, <3>1, SizeOf, EmitGrows
  <2>3. CASE write_all \/ UNCHANGED cvars
    BY <1>1, <2>3 DEF write_all, cvars, TypeOK
  <2>4. QED BY <2>1, <2>2, <2>3
<1>3. QED BY <1>1, <1>2, SamePlaces
-----------------------------------------------------------------------------
LEMMA InitPlaces == CInit => PInv
<1>. SUFFICES ASSUME CInit PROVE PInv
  OBVIOUS
<1> DEFINE f == [Frame("doc", 0, 0) EXCEPT !.due = TRUE]
<1>1. f.kind = "doc" /\ stack = <<f>> /\ DOMAIN words = {}
  BY DEF CInit, Frame
<1>. HIDE DEF f
<1>2. DOMAIN stack = {1} /\ stack[1] = f
  BY <1>1
<1>3. Places(f) = {}
  BY <1>1 DEF Places
<1>4. QED BY <1>1, <1>2, <1>3 DEF PInv, Reserved, Apart, Below

LEMMA NextPlaces == IInv /\ PInv /\ [CNext]_cvars => PInv' /\ WordStep
<1>. SUFFICES ASSUME IInv, PInv, [CNext]_cvars PROVE PInv' /\ WordStep
  OBVIOUS
<1>1. CASE write_header \/ write_footer \/ write_all \/ UNCHANGED cvars
  BY <1>1, EndsPlaces
<1>2. CASE \E v \in Scalars : write_scalar(v)
  BY <1>2, ScalarPlaces
<1>3. CASE \E s \in Strings : write_string(s) \/ write_key(s)
  BY <1>3, StringValuePlaces, KeyPlaces
<1>4. CASE \E b \in Blobs : write_binary_blob(b)
  BY <1>4, BlobPlaces
<1>5. CASE blob_text \/ blob_raw
  BY <1>5, BlobTextPlaces, BlobRawPlaces
<1>6. CASE \E n \in 0 .. MaxLen : write_array(n) \/ write_object(n)
  BY <1>6, ArrayPlaces, ObjectPlaces
<1>7. CASE element_offset \/ end_array \/ value_offset \/ end_object
  BY <1>7, ElementPlaces, EndArrayPlaces, ValuePlaces, EndObjectPlaces
<1>8. QED BY <1>1, <1>2, <1>3, <1>4, <1>5, <1>6, <1>7 DEF CNext

(* A patch of the compact writer never touches a word that was not left    *)
(* for it, or that has been patched before (ser.rs:247-259).               *)
THEOREM PatchesOnce == CSpec => PatchedOnce
<1>1. CInit => PInv
  BY InitPlaces
<1>2. IInv /\ PInv /\ [CNext]_cvars => PInv'
  BY NextPlaces
<1>3. IInv /\ PInv /\ [CNext]_cvars =>
        [/\ bytes' = bytes => DOMAIN words' = DOMAIN words
         /\ \A o \in DOMAIN words : words[o] # 0 => words'[o] = words[o]]_cvars
  BY NextPlaces DEF WordStep
<1>4. QED BY <1>1, <1>2, <1>3, Invariant, PTL DEF CSpec, PatchedOnce
-----------------------------------------------------------------------------
(* How the parts of the value lie in the buffer.  A part takes so many     *)
(* tokens; the end of an array takes none.                                 *)
Weight(c) == CASE c.kind = "binary" -> 3
               [] c.kind = "end" /\ c.of = "array" -> 0
               [] OTHER -> 1
BlobFills(c, t, k) ==
  \/ k = 0 /\ t = [tag |-> "CompactBinaryBlob"]
  \/ k = 1 /\ t.tag \in {DefTag(FALSE, FALSE), RefTag(FALSE, FALSE)}
  \/ k = 2 /\ t = [tag |-> "(raw)", declared |-> U32(Len(c.bytes)), raw |-> c.bytes]
Fills(c, t, k) ==
  CASE c.kind = "string" -> t.tag \in {DefTag(Wide(c.str), FALSE), RefTag(Wide(c.str), FALSE)}
    [] c.kind = "key"    -> t.tag \in {DefTag(Wide(c.str), TRUE), RefTag(Wide(c.str), TRUE)}
    [] c.kind = "binary" -> BlobFills(c, t, k)
    [] c.kind = "array"  -> t.tag = "CompactArrayBegin" /\ t.table \in Seq({0}) /\ t.table # <<>>
    [] c.kind = "object" -> t = [tag |-> "CompactObjectBegin"]
    [] c.kind = "end"    -> t = [tag |-> "ObjectEnd"]
    [] OTHER             -> t = ScalarToken(c)

(* The containers that are open after a part, as the reader has to take    *)
(* them: in an array left elements are to come, after a key one value; the *)
(* slot is that of the table, or of the word after the last key.           *)
OpenFrame == {f \in [kind : Containers, count : Nat, left : Nat, slot : Nat] :
                f.kind = "array" => f.left <= f.count}
Last1(s) == s[Len(s)]
Ticked(s) == IF s = <<>> THEN s ELSE [s EXCEPT ![Len(s)].left = @ - 1]
Keyed(s, o) == [s EXCEPT ![Len(s)] = [@ EXCEPT !.left = 1, !.slot = o]]
ArrayFrame(x) == [kind |-> "array", count |-> Len(x.tok.table) - 1, left |-> Len(x.tok.table) - 1,
                  slot |-> x.at + 6]
ObjectFrame == [kind |-> "object", count |-> 0, left |-> 0, slot |-> 0]
Grown(s, c, x) ==
  CASE c.kind = "array"  -> Append(Ticked(s), ArrayFrame(x))
    [] c.kind = "object" -> Append(Ticked(s), ObjectFrame)
    [] c.kind = "key"    -> Keyed(s, x.at + Size(x.tok) - 4)
    [] c.kind = "end"    -> SubSeq(s, 1, Len(s) - 1)
    [] OTHER             -> Ticked(s)
Legal(n, s, c) ==
  /\ s = <<>> => n = 1 /\ c.kind \notin {"key", "end"}
  /\ s # <<>> => /\ c.kind = "end" => c.of = Last1(s).kind /\ Last1(s).left = 0
                 /\ c.kind = "key" => Last1(s).kind = "object" /\ Last1(s).left = 0
                 /\ c.kind \notin {"key", "end"} => Last1(s).left > 0

(* Where token p begins, and that the word at o says so.                   *)
Start(p) == IF p <= Len(bytes) THEN bytes[p].at ELSE len
MarkedAt(o, p) == o \in DOMAIN words /\ words[o] = Start(p)
Marked(s, p) ==
  s # <<>> => /\ Last1(s).kind = "array" =>
                   MarkedAt(Last1(s).slot + 4 * (Last1(s).count - Last1(s).left), p)
              /\ Last1(s).kind = "object" /\ Last1(s).left = 0 /\ Last1(s).slot # 0 =>
                   MarkedAt(Last1(s).slot, p)

(* Part n is c, and its tokens are the ones from p on, as far as they have *)
(* been written.  at[n] is the token after part n, sh[n] what is open      *)
(* there.                                                                  *)
PartAt(n, c, p, s) ==
  /\ p <= Len(bytes) + 1 /\ (Weight(c) > 0 => p <= Len(bytes))
  /\ \A k \in 0 .. Weight(c) - 1 : p + k <= Len(bytes) => Fills(c, bytes[p + k].tok, k) /\ bytes[p + k].of = n
  /\ Legal(n, s, c)
Laid(at, sh) ==
  /\ at \in [0 .. Len(wrote) -> Nat \ {0, 1}] /\ sh \in [0 .. Len(wrote) -> Seq(OpenFrame)]
  /\ at[0] = 2 /\ sh[0] = <<>>
  /\ \A n \in 1 .. Len(wrote) :
       /\ PartAt(n, wrote[n], at[n - 1], sh[n - 1])
       /\ at[n] = at[n - 1] + Weight(wrote[n])
       /\ sh[n] = Grown(sh[n - 1], wrote[n], bytes[at[n - 1]])
Marks(at, sh) == \A n \in 1 .. Len(wrote) : Marked(sh[n - 1], at[n - 1])

(* The writer's stack shows the same containers, below the document.       *)
Depth(st) == IF st[Len(st)].kind = "binary" THEN Len(st) - 1 ELSE Len(st)
Shows(g, f) ==
  /\ f.kind = g.kind
  /\ g.kind = "array" => f.count = g.count /\ f.slot = g.slot /\ f.left = g.left + (IF g.due THEN 1 ELSE 0)
  /\ g.kind = "object" => f.left = (IF g.due THEN 1 ELSE 0) /\ (g.slot # 0 => f.slot = g.slot)
View(st, s) == /\ Len(s) = Depth(st) - 1 /\ \A i \in 1 .. Len(s) : Shows(st[i + 1], s[i])
               /\ \A i \in 1 .. Len(st) - 1 : ~st[i].due

(* The tokens a blob still lacks; whether every word that has to lead to   *)
(* here has been patched.                                                  *)
Missing == IF Top.kind = "binary" THEN Top.left ELSE 0
Settled == Top.kind # "binary" /\ (Top.kind = "array" => Top.due) /\ (Top.kind = "object" => Top.due \/ Top.slot = 0)
Live(at, sh) ==
  /\ View(stack, sh[Len(wrote)]) /\ at[Len(wrote)] = Len(bytes) + 1 + Missing
  /\ Missing > 0 => wrote # <<>> /\ wrote[Len(wrote)].kind = "binary"
  /\ Settled => Marked(sh[Len(wrote)], at[Len(wrote)])
Done == result \in {"sealed", "ok"} \/ file # <<>>
Finished(at, sh) ==
  /\ wrote # <<>> /\ sh[Len(wrote)] = <<>> /\ Len(bytes) = at[Len(wrote)]
  /\ bytes[Len(bytes)].tok = [tag |-> "(footer)"] /\ bytes[Len(bytes)].of = Len(wrote) + 1
  /\ wrote[1].kind \in Containers => AllFit
Begins == /\ result = "new" => bytes = <<>> /\ wrote = <<>> /\ Len(stack) = 1
          /\ result # "new" => /\ bytes # <<>> /\ bytes[1].of = 0
                               /\ bytes[1].tok = [tag |-> "(header)", version |-> "compact"]
WState(at, sh) ==
  /\ Laid(at, sh) /\ Marks(at, sh)
  /\ result = "run" => Live(at, sh)
  /\ Done => Finished(at, sh)

(* The tokens lie one after the other, and the file is a part of them.     *)
Lined ==
  /\ bytes = <<>> => len = 0
  /\ bytes # <<>> => bytes[1].at = 0
  /\ \A i \in 1 .. Len(bytes) : /\ Size(bytes[i].tok) \in Nat \ {0} /\ Start(i + 1) = bytes[i].at + Size(bytes[i].tok)
                                /\ bytes[i].tok.tag \in CompactDefs => bytes[i].at + 5 < Word
FileIs(n) ==
  /\ n \in 0 .. Len(bytes) /\ DOMAIN file = 1 .. Len(file) /\ Len(file) \in {n, n + 1}
  /\ \A i \in 1 .. n : file[i] = TokenIn(bytes[i])
  /\ Len(file) = n + 1 => file[n + 1] = [tag |-> "(torn)"]
  /\ result = "ok" => n = Len(bytes) /\ Len(file) = n
  /\ result # "ok" => n = 0 \/ n < Len(bytes)
Waits == result \in {"new", "run", "sealed"} => file = <<>>
LInv == /\ Lined /\ Begins /\ Waits
        /\ \E n \in Nat : FileIs(n)
        /\ \E at, sh : WState(at, sh)
-----------------------------------------------------------------------------
(* The open containers.                                                    *)
LEMMA OpenFrameIs ==
  ASSUME NEW kind \in Containers, NEW count \in Nat, NEW left \in Nat, NEW slot \in Nat,
         kind = "array" => left <= count
  PROVE  [kind |-> kind, count |-> count, left |-> left, slot |-> slot] \in OpenFrame
BY DEF OpenFrame

LEMMA OpenFrameTyped ==
  ASSUME NEW f \in OpenFrame
  PROVE  /\ f.kind \in Containers /\ f.count \in Nat /\ f.left \in Nat /\ f.slot \in Nat
         /\ f.kind = "array" => f.left <= f.count
         /\ f = [kind |-> f.kind, count |-> f.count, left |-> f.left, slot |-> f.slot]
BY DEF OpenFrame

LEMMA LastTyped ==
  ASSUME NEW s \in Seq(OpenFrame), s # <<>>
  PROVE  /\ Len(s) \in Nat \ {0} /\ Last1(s) \in OpenFrame /\ Last1(s) = s[Len(s)]
         /\ \A i \in 1 .. Len(s) : s[i] \in OpenFrame
BY DEF Last1

(* The innermost container replaced.                                       *)
LEMMA LastReplaced ==
  ASSUME NEW s \in Seq(OpenFrame), s # <<>>, NEW f \in OpenFrame
  PROVE  LET t == [s EXCEPT ![Len(s)] = f]
         IN  /\ t \in Seq(OpenFrame) /\ Len(t) = Len(s) /\ t # <<>> /\ Last1(t) = f
             /\ \A i \in 1 .. Len(s) : t[i] = IF i = Len(s) THEN f ELSE s[i]
<1> DEFINE t == [s EXCEPT ![Len(s)] = f]
<1>1. Len(s) \in Nat \ {0} /\ s \in [1 .. Len(s) -> OpenFrame] /\ DOMAIN s = 1 .. Len(s)
  BY LastTyped
<1>2. t \in [1 .. Len(s) -> OpenFrame] /\ \A i \in 1 .. Len(s) : t[i] = IF i = Len(s) THEN f ELSE s[i]
  BY <1>1
<1>. HIDE DEF t
<1>3. t \in Seq(OpenFrame) /\ Len(t) = Len(s)
  <2>1. Len(s) \in Nat
    BY <1>1
  <2>2. \A n \in Nat : \A q \in [1 .. n -> OpenFrame] : q \in Seq(OpenFrame) /\ Len(q) = n
    OBVIOUS
  <2>3. QED BY <1>2, <2>1, <2>2
<1>4. t # <<>> /\ Last1(t) = f
  <2>1. Len(s) \in 1 .. Len(s)
    BY <1>1
  <2>2. QED BY <1>1, <1>2, <1>3, <2>1 DEF Last1
<1>5. QED BY <1>2, <1>3, <1>4 DEF t

LEMMA TickedProps ==
  ASSUME NEW s \in Seq(OpenFrame), s # <<>>, Last1(s).left > 0
  PROVE  LET t == Ticked(s)
         IN  /\ t \in Seq(OpenFrame) /\ Len(t) = Len(s) /\ t # <<>>
             /\ Last1(t).kind = Last1(s).kind /\ Last1(t).count = Last1(s).count
             /\ Last1(t).left = Last1(s).left - 1 /\ Last1(t).slot = Last1(s).slot
             /\ \A i \in 1 .. Len(s) : i # Len(s) => t[i] = s[i]
<1> DEFINE f == [Last1(s) EXCEPT !.left = @ - 1]
<1>1. /\ Last1(s).kind \in Containers /\ Last1(s).count \in Nat /\ Last1(s).left \in Nat /\ Last1(s).slot \in Nat
      /\ Last1(s).kind = "array" => Last1(s).left <= Last1(s).count
      /\ Last1(s) \in [kind : Containers, count : Nat, left : Nat, slot : Nat]
  <2>1. Last1(s) \in OpenFrame
    BY LastTyped
  <2>2. QED BY <2>1 DEF OpenFrame
<1>2. /\ f.kind = Last1(s).kind /\ f.count = Last1(s).count /\ f.left = Last1(s).left - 1
      /\ f.slot = Last1(s).slot
      /\ f \in [kind : Containers, count : Nat, left : Nat, slot : Nat]
  <2>1. Last1(s).left - 1 \in Nat
    BY <1>1
  <2>2. QED BY <1>1, <2>1
<1>3. Ticked(s) = [s EXCEPT ![Len(s)] = f]
  <2>1. Len(s) \in DOMAIN s
    BY LastTyped
  <2>2. Ticked(s) = [s EXCEPT ![Len(s)] = [s[Len(s)] EXCEPT !.left = s[Len(s)].left - 1]]
    BY <2>1 DEF Ticked
  <2>3. QED BY <2>2 DEF Last1
<1>. HIDE DEF f
<1>4. f \in OpenFrame
  <2>1. f.kind = "array" => f.left <= f.count
    BY <1>1, <1>2
  <2>2. QED BY <1>2, <2>1 DEF OpenFrame
<1>5. LET t == [s EXCEPT ![Len(s)] = f]
      IN  /\ t \in Seq(OpenFrame) /\ Len(t) = Len(s) /\ t # <<>> /\ Last1(t) = f
          /\ \A i \in 1 .. Len(s) : t[i] = IF i = Len(s) THEN f ELSE s[i]
  BY <1>4, LastReplaced
<1>6. QED BY <1>2, <1>3, <1>5

LEMMA KeyedProps ==
  ASSUME NEW s \in Seq(OpenFrame), s # <<>>, Last1(s).kind = "object", NEW o \in Nat
  PROVE  LET t == Keyed(s, o)
         IN  /\ t \in Seq(OpenFrame) /\ Len(t) = Len(s) /\ t # <<>>
             /\ Last1(t).kind = "object" /\ Last1(t).left = 1 /\ Last1(t).slot = o
             /\ \A i \in 1 .. Len(s) : i # Len(s) => t[i] = s[i]
<1> DEFINE f == [Last1(s) EXCEPT !.left = 1, !.slot = o]
<1>1. Last1(s) \in [kind : Containers, count : Nat, left : Nat, slot : Nat]
  <2>1. Last1(s) \in OpenFrame
    BY LastTyped
  <2>2. QED BY <2>1 DEF OpenFrame
<1>2. /\ f.kind = "object" /\ f.left = 1 /\ f.slot = o
      /\ f \in [kind : Containers, count : Nat, left : Nat, slot : Nat]
  BY <1>1
<1>3. Keyed(s, o) = [s EXCEPT ![Len(s)] = f]
  <2>1. Len(s) \in DOMAIN s
    BY LastTyped
  <2>2. QED BY <2>1 DEF Keyed, Last1
<1>. HIDE DEF f
<1>4. f \in OpenFrame
  BY <1>2 DEF OpenFrame
<1>5. LET t == [s EXCEPT ![Len(s)] = f]
      IN  /\ t \in Seq(OpenFrame) /\ Len(t) = Len(s) /\ t # <<>> /\ Last1(t) = f
          /\ \A i \in 1 .. Len(s) : t[i] = IF i = Len(s) THEN f ELSE s[i]
  BY <1>4, LastReplaced
<1>6. QED BY <1>2, <1>3, <1>5

LEMMA CutProps ==
  ASSUME NEW s \in Seq(OpenFrame), s # <<>>
  PROVE  LET t == SubSeq(s, 1, Len(s) - 1)
         IN  /\ t \in Seq(OpenFrame) /\ Len(t) = Len(s) - 1
             /\ \A i \in 1 .. Len(s) - 1 : t[i] = s[i]
<1>. DEFINE t == SubSeq(s, 1, Len(s) - 1)
<1>1. CASE Len(s) >= 2
  <2>1. t \in Seq(OpenFrame) /\ Len(t) = Len(s) - 1 /\ \A i \in 1 .. Len(s) - 1 : t[i] = s[i]
    BY <1>1, FrontProps
  <2>2. QED BY <2>1
<1>2. CASE Len(s) = 1
  <2>1. t = <<>>
    BY <1>2
  <2>2. QED BY <1>2, <2>1
<1>3. Len(s) >= 2 \/ Len(s) = 1
  <2>1. Len(s) \in Nat \ {0}
    BY LastTyped
  <2>2. \A n \in Nat \ {0} : n >= 2 \/ n = 1
    OBVIOUS
  <2>3. QED BY <2>1, <2>2, Zenon
<1>4. QED BY <1>1, <1>2, <1>3

(* What a part makes of the containers.                                    *)
LEMMA WeightIs ==
  ASSUME NEW c
  PROVE  /\ Weight(c) \in {0, 1, 3}
         /\ c.kind = "binary" => Weight(c) = 3
         /\ Weight(c) = 3 => c.kind = "binary"
         /\ Weight(c) = 0 => c.kind = "end" /\ c.of = "array"
         /\ c.kind = "end" /\ c.of = "array" => Weight(c) = 0
         /\ c.kind \notin {"binary", "end"} => Weight(c) = 1
         /\ c.kind = "end" /\ c.of # "array" => Weight(c) = 1
BY DEF Weight

LEMMA GrownIs ==
  ASSUME NEW s, NEW c, NEW x
  PROVE  /\ c.kind = "array" => Grown(s, c, x) = Append(Ticked(s), ArrayFrame(x))
         /\ c.kind = "object" => Grown(s, c, x) = Append(Ticked(s), ObjectFrame)
         /\ c.kind = "key" => Grown(s, c, x) = Keyed(s, x.at + Size(x.tok) - 4)
         /\ c.kind = "end" => Grown(s, c, x) = SubSeq(s, 1, Len(s) - 1)
         /\ c.kind \notin {"array", "object", "key", "end"} => Grown(s, c, x) = Ticked(s)
BY DEF Grown

(* A value ticks the array or the object it is in, if there is one.        *)
LEMMA TickedTyped ==
  ASSUME NEW s \in Seq(OpenFrame), s # <<>> => Last1(s).left > 0
  PROVE  Ticked(s) \in Seq(OpenFrame) /\ Len(Ticked(s)) = Len(s)
<1>1. CASE s = <<>>
  BY <1>1 DEF Ticked
<1>2. CASE s # <<>>
  <2>. DEFINE t == Ticked(s)
  <2>1. t \in Seq(OpenFrame) /\ Len(t) = Len(s)
    BY <1>2, TickedProps
  <2>2. QED BY <2>1
<1>3. QED BY <1>1, <1>2

LEMMA ArrayFrameTyped ==
  ASSUME NEW x, x.at \in Nat, NEW S, x.tok.table \in Seq(S), x.tok.table # <<>>
  PROVE  /\ ArrayFrame(x) \in OpenFrame
         /\ ArrayFrame(x).kind = "array" /\ ArrayFrame(x).left = Len(x.tok.table) - 1
         /\ ArrayFrame(x).count = Len(x.tok.table) - 1 /\ ArrayFrame(x).slot = x.at + 6
<1>. DEFINE n == Len(x.tok.table) - 1
<1>1. n \in Nat /\ n <= n /\ x.at + 6 \in Nat
  OBVIOUS
<1>2. ArrayFrame(x) = [kind |-> "array", count |-> n, left |-> n, slot |-> x.at + 6]
  BY DEF ArrayFrame
<1>. HIDE DEF n
<1>3. [kind |-> "array", count |-> n, left |-> n, slot |-> x.at + 6] \in OpenFrame
  BY <1>1 DEF OpenFrame, Containers
<1>4. QED BY <1>2, <1>3 DEF n

LEMMA ObjectFrameTyped == ObjectFrame \in OpenFrame
BY DEF ObjectFrame, OpenFrame, Containers

(* A part that is legal leaves containers.                                 *)
LEMMA GrownTyped ==
  ASSUME NEW n, NEW s \in Seq(OpenFrame), NEW c, NEW x, Legal(n, s, c),
         x.at \in Nat, c.kind = "array" => x.tok.table \in Seq({0}) /\ x.tok.table # <<>>,
         c.kind = "key" => x.at + Size(x.tok) - 4 \in Nat
  PROVE  Grown(s, c, x) \in Seq(OpenFrame)
<1>1. c.kind \notin {"key", "end"} => Ticked(s) \in Seq(OpenFrame)
  BY TickedTyped DEF Legal
<1>2. CASE c.kind = "array"
  <2>1. ArrayFrame(x) \in OpenFrame
    BY <1>2, ArrayFrameTyped
  <2>2. Append(Ticked(s), ArrayFrame(x)) \in Seq(OpenFrame)
    BY <1>1, <1>2, <2>1
  <2>3. QED BY <1>2, <2>2, GrownIs
<1>3. CASE c.kind = "object"
  <2>1. Append(Ticked(s), ObjectFrame) \in Seq(OpenFrame)
    BY <1>1, <1>3, ObjectFrameTyped
  <2>2. QED BY <1>3, <2>1, GrownIs
<1>4. CASE c.kind = "key"
  <2>. DEFINE o == x.at + Size(x.tok) - 4
              t == Keyed(s, o)
  <2>1. s # <<>> /\ Last1(s).kind = "object" /\ o \in Nat
    BY <1>4 DEF Legal
  <2>2. Grown(s, c, x) = t
    BY <1>4, GrownIs
  <2>. HIDE DEF o
  <2>3. t \in Seq(OpenFrame)
    BY <2>1, KeyedProps
  <2>4. QED BY <2>2, <2>3
<1>5. CASE c.kind = "end"
  <2>. DEFINE t == SubSeq(s, 1, Len(s) - 1)
  <2>1. s # <<>>
    BY <1>5 DEF Legal
  <2>2. t \in Seq(OpenFrame)
    BY <2>1, CutProps
  <2>3. QED BY <1>5, <2>2, GrownIs
<1>6. CASE c.kind \notin {"array", "object", "key", "end"}
  BY <1>1, <1>6, GrownIs
<1>7. QED BY <1>2, <1>3, <1>4, <1>5, <1>6
-----------------------------------------------------------------------------
(* The stack and the open containers, when one of them changes.            *)
LEMMA ViewTop ==
  ASSUME TypeOK, NEW s \in Seq(OpenFrame), View(stack, s), Top.kind # "binary"
  PROVE  /\ Len(s) \in Nat /\ Len(stack) = Len(s) + 1
         /\ s = <<>> => Len(stack) = 1
         /\ s # <<>> => Len(stack) >= 2 /\ Len(s) \in 1 .. Len(s) /\ Last1(s) = s[Len(s)] /\ Shows(Top, Last1(s))
<1>1. Len(stack) \in Nat \ {0} /\ Depth(stack) = Len(stack) /\ Len(s) = Depth(stack) - 1
  BY StackProps DEF View, Depth, Top
<1>2. Len(s) \in Nat /\ Len(stack) = Len(s) + 1
  BY <1>1
<1>3. ASSUME s # <<>> PROVE Len(stack) >= 2 /\ Len(s) \in 1 .. Len(s) /\ Last1(s) = s[Len(s)] /\ Shows(Top, Last1(s))
  <2>1. Len(s) \in 1 .. Len(s) /\ Len(stack) >= 2
    BY <1>2, <1>3
  <2>2. Shows(stack[Len(s) + 1], s[Len(s)])
    BY <2>1 DEF View
  <2>3. QED BY <1>2, <2>1, <2>2 DEF Top, Last1
<1>4. QED BY <1>2, <1>3

LEMMA ShowsUsed ==
  ASSUME NEW g \in FrameSet, NEW f \in OpenFrame, Shows(g, f), g.due, NEW h,
         h.kind = f.kind, h.count = f.count, h.slot = f.slot, h.left = f.left - 1
  PROVE  f.left > 0 /\ Shows([g EXCEPT !.due = FALSE], h)
<1>. DEFINE u == [g EXCEPT !.due = FALSE]
<1>1. u.kind = g.kind /\ u.count = g.count /\ u.left = g.left /\ u.slot = g.slot /\ ~u.due /\ g.left \in Nat
  BY DEF FrameSet
<1>. HIDE DEF u
<1>2. f.kind = "array" \/ f.kind = "object"
  BY DEF OpenFrame, Containers
<1>3. CASE f.kind = "array"
  <2>1. f.left = g.left + 1 /\ f.count = g.count /\ f.slot = g.slot /\ f.kind = g.kind
    BY <1>3, <1>1 DEF Shows
  <2>2. f.left > 0 /\ h.left = u.left /\ u.left \in Nat
    BY <1>1, <2>1
  <2>3. h.left = u.left + (IF u.due THEN 1 ELSE 0)
    BY <1>1, <2>2
  <2>4. u.kind = "array" /\ h.kind = u.kind /\ h.count = u.count /\ h.slot = u.slot
    BY <1>1, <1>3, <2>1
  <2>5. u.kind # "object"
    BY <2>4
  <2>6. Shows(u, h)
    BY <2>3, <2>4, <2>5, Zenon DEF Shows
  <2>7. QED BY <2>2, <2>6 DEF u
<1>4. CASE f.kind = "object"
  <2>1. f.left = 1 /\ (g.slot # 0 => f.slot = g.slot) /\ f.kind = g.kind
    BY <1>4, <1>1 DEF Shows
  <2>2. f.left > 0 /\ h.left = (IF u.due THEN 1 ELSE 0)
    BY <1>1, <2>1
  <2>3. u.kind = "object" /\ h.kind = u.kind /\ (u.slot # 0 => h.slot = u.slot)
    BY <1>1, <1>4, <2>1
  <2>4. u.kind # "array"
    BY <2>3
  <2>5. Shows(u, h)
    BY <2>2, <2>3, <2>4, Zenon DEF Shows
  <2>6. QED BY <2>2, <2>5 DEF u
<1>5. QED BY <1>2, <1>3, <1>4 DEF u

LEMMA ViewLeft ==
  ASSUME TypeOK, NEW s \in Seq(OpenFrame), View(stack, s), Top.kind # "binary", Top.due, s # <<>>
  PROVE  Last1(s).left > 0
<1>1. Shows(Top, Last1(s)) /\ Top \in FrameSet /\ Last1(s) \in OpenFrame
  BY ViewTop, StackProps, LastTyped
<1>. DEFINE f == Last1(s)
            h == [kind |-> f.kind, count |-> f.count, left |-> f.left - 1, slot |-> f.slot]
<1>2. h.kind = f.kind /\ h.count = f.count /\ h.slot = f.slot /\ h.left = f.left - 1
  OBVIOUS
<1>. HIDE DEF h
<1>3. QED BY <1>1, <1>2, ShowsUsed

LEMMA ViewUsed ==
  ASSUME TypeOK, NEW s \in Seq(OpenFrame), View(stack, s), Top.kind # "binary", Top.due
  PROVE  View(Used, Ticked(s)) /\ Ticked(s) \in Seq(OpenFrame)
<1>. DEFINE t == Ticked(s)
            u == [Top EXCEPT !.due = FALSE]
            q == Used
<1>1. /\ q \in Seq(FrameSet) /\ Len(q) = Len(stack)
      /\ \A i \in 1 .. Len(stack) : q[i] = IF i = Len(stack) THEN u ELSE stack[i]
  BY UsedProps
<1>2. t \in Seq(OpenFrame) /\ Len(t) = Len(s)
  BY ViewLeft, TickedTyped
<1>3. u.kind = Top.kind /\ ~u.due
  BY StackProps DEF FrameSet
<1>4. Len(s) \in Nat /\ Len(stack) = Len(s) + 1
  BY ViewTop
<1>5. \A i \in 1 .. Len(s) : Shows(q[i + 1], t[i])
  <2>1. CASE s = <<>>
    BY <2>1
  <2>2. CASE s # <<>>
    <3>1. Last1(s).left > 0 /\ Shows(Top, Last1(s)) /\ Top \in FrameSet /\ Last1(s) \in OpenFrame
      BY <2>2, ViewLeft, ViewTop, StackProps, LastTyped
    <3>2. /\ Last1(t).kind = Last1(s).kind /\ Last1(t).count = Last1(s).count
          /\ Last1(t).left = Last1(s).left - 1 /\ Last1(t).slot = Last1(s).slot
          /\ \A i \in 1 .. Len(s) : i # Len(s) => t[i] = s[i]
      BY <2>2, <3>1, TickedProps
    <3>3. Shows(u, Last1(t))
      BY <3>1, <3>2, ShowsUsed
    <3>4. ASSUME NEW i \in 1 .. Len(s) PROVE Shows(q[i + 1], t[i])
      <4>1. CASE i = Len(s)
        <5>1. i + 1 = Len(stack) /\ i + 1 \in 1 .. Len(stack)
          BY <1>4, <4>1
        <5>2. q[i + 1] = u
          BY <1>1, <5>1, Zenon
        <5>3. t[i] = Last1(t)
          BY <1>2, <4>1, Zenon DEF Last1
        <5>4. QED BY <3>3, <5>2, <5>3, Zenon
      <4>2. CASE i # Len(s)
        <5>1. q[i + 1] = stack[i + 1] /\ t[i] = s[i]
          BY <1>1, <1>4, <3>2, <4>2
        <5>2. QED BY <5>1 DEF View
      <4>3. QED BY <4>1, <4>2
    <3>5. QED BY <3>4
  <2>3. QED BY <2>1, <2>2
<1>6. Depth(q) = Len(stack)
  <2>1. Len(stack) \in 1 .. Len(stack)
    BY <1>4
  <2>2. q[Len(q)] = u
    BY <1>1, <2>1, Zenon
  <2>3. q[Len(q)].kind # "binary"
    BY <1>3, <2>2, Zenon
  <2>4. QED BY <1>1, <2>3, Zenon DEF Depth
<1>7. \A i \in 1 .. Len(q) - 1 : ~q[i].due
  BY <1>1, <1>4 DEF View
<1>. HIDE DEF t, q, u
<1>8. View(q, t)
  BY <1>1, <1>2, <1>4, <1>5, <1>6, <1>7 DEF View
<1>9. QED BY <1>2, <1>8 DEF t, q

LEMMA ViewAppend ==
  ASSUME NEW q \in Seq(FrameSet), q # <<>>, NEW t \in Seq(OpenFrame), View(q, t),
         q[Len(q)].kind # "binary", ~q[Len(q)].due, NEW f \in FrameSet
  PROVE  /\ f.kind = "binary" => View(Append(q, f), t)
         /\ f.kind # "binary" => \A h \in OpenFrame : Shows(f, h) => View(Append(q, f), Append(t, h))
<1>. DEFINE p == Append(q, f)
<1>1. /\ Len(q) \in Nat \ {0} /\ Len(p) = Len(q) + 1 /\ p[Len(q) + 1] = f
      /\ \A i \in 1 .. Len(q) : p[i] = q[i]
  OBVIOUS
<1>. HIDE DEF p
<1>2. Len(t) \in Nat /\ Len(q) = Len(t) + 1
  BY <1>1 DEF View, Depth
<1>3. \A i \in 1 .. Len(t) : Shows(p[i + 1], t[i])
  BY <1>1, <1>2 DEF View
<1>4. \A i \in 1 .. Len(p) - 1 : ~p[i].due
  <2>1. ASSUME NEW i \in 1 .. Len(q) PROVE ~p[i].due
    <3>1. CASE i = Len(q)
      BY <1>1, <3>1
    <3>2. CASE i # Len(q)
      BY <1>1, <3>2 DEF View
    <3>3. QED BY <3>1, <3>2
  <2>2. QED BY <1>1, <2>1
<1>5. ASSUME f.kind = "binary" PROVE View(p, t)
  <2>1. Depth(p) = Len(q)
    BY <1>1, <1>5 DEF Depth
  <2>2. QED BY <1>2, <1>3, <1>4, <2>1 DEF View
<1>6. ASSUME f.kind # "binary", NEW h \in OpenFrame, Shows(f, h) PROVE View(p, Append(t, h))
  <2>. DEFINE r == Append(t, h)
  <2>1. Len(r) = Len(t) + 1 /\ r[Len(t) + 1] = h /\ \A i \in 1 .. Len(t) : r[i] = t[i]
    OBVIOUS
  <2>. HIDE DEF r
  <2>2. Depth(p) = Len(q) + 1
    BY <1>1, <1>6 DEF Depth
  <2>3. ASSUME NEW i \in 1 .. Len(r) PROVE Shows(p[i + 1], r[i])
    <3>1. CASE i = Len(t) + 1
      BY <1>1, <1>2, <1>6, <2>1, <3>1
    <3>2. CASE i # Len(t) + 1
      BY <1>2, <1>3, <2>1, <3>2
    <3>3. QED BY <3>1, <3>2
  <2>4. View(p, r)
    BY <1>1, <1>2, <1>4, <2>1, <2>2, <2>3 DEF View
  <2>5. QED BY <2>4 DEF r
<1>7. QED BY <1>5, <1>6 DEF p

LEMMA ViewWith ==
  ASSUME TypeOK, NEW s \in Seq(OpenFrame), s # <<>>, View(stack, s), Top.kind # "binary",
         NEW g \in FrameSet, g.kind # "binary", NEW t \in Seq(OpenFrame), Len(t) = Len(s),
         \A i \in 1 .. Len(s) : i # Len(s) => t[i] = s[i], Shows(g, Last1(t))
  PROVE  View(With(g), t)
<1>. DEFINE q == With(g)
<1>1. Len(q) = Len(stack) /\ \A i \in 1 .. Len(stack) : q[i] = IF i = Len(stack) THEN g ELSE stack[i]
  BY WithProps
<1>2. Len(s) \in Nat /\ Len(stack) = Len(s) + 1
  BY ViewTop
<1>3. Depth(q) = Len(stack)
  BY <1>1, <1>2 DEF Depth
<1>4. ASSUME NEW i \in 1 .. Len(t) PROVE Shows(q[i + 1], t[i])
  <2>1. CASE i = Len(s)
    <3>1. q[i + 1] = g /\ t[i] = Last1(t)
      BY <1>1, <1>2, <2>1 DEF Last1
    <3>2. QED BY <3>1
  <2>2. CASE i # Len(s)
    <3>1. q[i + 1] = stack[i + 1] /\ t[i] = s[i] /\ i \in 1 .. Len(s)
      BY <1>1, <1>2, <2>2
    <3>2. QED BY <3>1 DEF View
  <2>3. QED BY <2>1, <2>2
<1>5. \A i \in 1 .. Len(q) - 1 : ~q[i].due
  BY <1>1, <1>2 DEF View
<1>. HIDE DEF q
<1>6. View(q, t)
  BY <1>1, <1>2, <1>3, <1>4, <1>5 DEF View
<1>7. QED BY <1>6 DEF q

(* What is below the top is no blob, and if it is an object it has a word  *)
(* to patch.                                                               *)
LEMMA UnderTop ==
  ASSUME TypeOK, StackOK, Len(stack) >= 2, NEW s, View(stack, s)
  PROVE  LET g == Closed[Len(Closed)]
         IN  /\ g = stack[Len(stack) - 1] /\ g \in FrameSet /\ g.kind # "binary" /\ ~g.due
             /\ g.kind = "object" => g.slot # 0
<1>. DEFINE m == Len(stack) - 1
<1>1. Closed[Len(Closed)] = stack[m] /\ m \in 1 .. Len(stack) /\ m # Len(stack) /\ m < Len(stack) /\ stack[m] \in FrameSet
  <2>1. Len(stack) \in Nat
    BY StackProps
  <2>2. m \in 1 .. Len(stack) /\ m # Len(stack) /\ m < Len(stack) /\ m \in 1 .. Len(stack) - 1
    BY <2>1
  <2>3. Len(Closed) = m /\ Closed[m] = stack[m]
    BY <2>2, ClosedProps
  <2>4. QED BY <2>2, <2>3, StackProps
<1>2. ~stack[m].due
  BY <1>1 DEF View
<1>3. CASE m = 1
  BY <1>1, <1>2, <1>3 DEF StackOK
<1>4. CASE m # 1
  <2>1. FrameOK(m)
    <3>1. m \in 2 .. Len(stack)
      <4>1. Len(stack) \in Nat
        BY StackProps
      <4>2. \A a, b \in Nat : a \in 1 .. b /\ a # 1 => a \in 2 .. b
        OBVIOUS
      <4>3. m \in Nat
        BY <4>1, <1>1
      <4>4. QED BY <1>1, <1>4, <4>1, <4>2, <4>3, Zenon
    <3>2. QED BY <3>1 DEF StackOK
  <2>2. QED BY <1>1, <1>2, <2>1 DEF FrameOK
<1>5. QED BY <1>3, <1>4

LEMMA ViewClosed ==
  ASSUME TypeOK, StackOK, NEW s \in Seq(OpenFrame), View(stack, s), Len(stack) >= 2
  PROVE  /\ Top.kind # "binary" => s # <<>> /\ View(Closed, SubSeq(s, 1, Len(s) - 1))
         /\ Top.kind = "binary" => View(Closed, s)
<1>. DEFINE q == Closed
            m == Len(stack) - 1
<1>1. /\ Len(stack) \in Nat /\ m \in 1 .. m /\ Len(q) = m /\ \A i \in 1 .. m : q[i] = stack[i]
  <2>1. Len(stack) \in Nat
    BY StackProps
  <2>2. QED BY <2>1, ClosedProps
<1>2. Depth(q) = m
  <2>1. q[Len(q)].kind # "binary"
    BY UnderTop
  <2>2. QED BY <1>1, <2>1 DEF Depth
<1>3. \A i \in 1 .. Len(q) - 1 : ~q[i].due
  BY <1>1 DEF View
<1>. HIDE DEF q
<1>4. ASSUME Top.kind # "binary" PROVE s # <<>> /\ View(q, SubSeq(s, 1, Len(s) - 1))
  <2>. DEFINE t == SubSeq(s, 1, Len(s) - 1)
  <2>1. Len(s) \in Nat /\ Len(s) = m /\ s # <<>>
    BY <1>1, <1>4, ViewTop
  <2>2. Len(t) = Len(s) - 1 /\ \A i \in 1 .. Len(s) - 1 : t[i] = s[i]
    BY <2>1, CutProps
  <2>. HIDE DEF t
  <2>3. \A i \in 1 .. Len(t) : Shows(q[i + 1], t[i])
    <3>1. ASSUME NEW i \in 1 .. Len(t) PROVE Shows(q[i + 1], t[i])
      <4>1. i \in 1 .. Len(s) /\ i + 1 \in 1 .. m /\ t[i] = s[i]
        BY <2>1, <2>2
      <4>2. Shows(stack[i + 1], s[i])
        BY <4>1 DEF View
      <4>3. QED BY <1>1, <4>1, <4>2
    <3>2. QED BY <3>1
  <2>4. View(q, t)
    BY <1>2, <1>3, <2>1, <2>2, <2>3 DEF View
  <2>5. QED BY <2>1, <2>4 DEF t
<1>5. ASSUME Top.kind = "binary" PROVE View(q, s)
  <2>1. Depth(stack) = m
    BY <1>5 DEF Depth, Top
  <2>2. Len(s) = m - 1
    BY <2>1 DEF View
  <2>3. \A i \in 1 .. Len(s) : Shows(q[i + 1], s[i])
    <3>1. ASSUME NEW i \in 1 .. Len(s) PROVE Shows(q[i + 1], s[i])
      <4>1. i + 1 \in 1 .. m
        BY <1>1, <2>2
      <4>2. Shows(stack[i + 1], s[i])
        BY DEF View
      <4>3. QED BY <1>1, <4>1, <4>2
    <3>2. QED BY <3>1
  <2>4. QED BY <1>2, <1>3, <2>2, <2>3 DEF View
<1>6. QED BY <1>4, <1>5 DEF q
-----------------------------------------------------------------------------
(* What no step undoes: the tokens keep their places, and a word that has  *)
(* been patched keeps its number.                                          *)
WordsGrow == \A o \in DOMAIN words : o \in DOMAIN words' /\ (words[o] # 0 => words'[o] = words[o])
Stable == /\ Len(bytes') \in Nat /\ Len(bytes') >= Len(bytes)
          /\ \A i \in 1 .. Len(bytes) : bytes'[i] = bytes[i]
          /\ \A p \in 1 .. Len(bytes) + 1 : Start(p)' = Start(p)
          /\ WordsGrow

LEMMA BytesTyped ==
  ASSUME TypeOK
  PROVE  /\ Len(bytes) \in Nat /\ DOMAIN bytes = 1 .. Len(bytes) /\ len \in Nat
         /\ \A i \in 1 .. Len(bytes) : bytes[i] \in Item /\ bytes[i].at \in Nat /\ bytes[i].of \in Nat
                                       /\ bytes[i].tok \in CToken
         /\ bytes = <<>> <=> Len(bytes) = 0
<1>1. bytes \in Seq(Item) /\ len \in Nat
  BY DEF TypeOK
<1>2. \A x \in Item : x.at \in Nat /\ x.of \in Nat /\ x.tok \in CToken
  BY DEF Item
<1>3. QED BY <1>1, <1>2

LEMMA WroteTyped ==
  ASSUME TypeOK
  PROVE  /\ Len(wrote) \in Nat /\ DOMAIN wrote = 1 .. Len(wrote)
         /\ \A n \in 1 .. Len(wrote) : wrote[n] \in Part
         /\ wrote = <<>> <=> Len(wrote) = 0
BY DEF TypeOK

LEMMA PatchGrows ==
  ASSUME NEW o, NEW n, patch_u32(o, n)
  PROVE  DOMAIN words \subseteq DOMAIN words'
BY DEF patch_u32, Mutated

LEMMA ZerosGrow ==
  ASSUME NEW places, Zeros(places)
  PROVE  DOMAIN words \subseteq DOMAIN words'
BY DEF Zeros

LEMMA StringGrows ==
  ASSUME NEW s, NEW wide, NEW paired, NEW part, write_compact_string(s, wide, paired, part)
  PROVE  DOMAIN words \subseteq DOMAIN words'
<1>1. ASSUME NEW tok, Placeholder(tok, paired) PROVE DOMAIN words \subseteq DOMAIN words'
  BY <1>1, ZerosGrow DEF Placeholder
<1>2. QED BY <1>1 DEF write_compact_string

LEMMA FailsGrow ==
  ASSUME NEW s, NEW wide, string_fails(s, wide) \/ position_u32_fails
  PROVE  DOMAIN words \subseteq DOMAIN words'
BY DEF string_fails, position_u32_fails, Abort

LEMMA DomainGrows == CNext => DOMAIN words \subseteq DOMAIN words'
<1>. DEFINE G == DOMAIN words \subseteq DOMAIN words'
<1>0. words' = words => G
  OBVIOUS
<1>1. write_header \/ write_footer \/ write_all => G
  BY <1>0 DEF write_header, write_footer, write_all
<1>2. \A v \in Scalars : write_scalar(v) => G
  BY <1>0 DEF write_scalar
<1>3. \A s \in Strings : write_string(s) \/ write_key(s) => G
  <2>1. ASSUME NEW s \in Strings, write_string(s) PROVE G
    BY <2>1, StringGrows, FailsGrow DEF write_string
  <2>2. ASSUME NEW s \in Strings, write_key(s) PROVE G
    BY <2>2, StringGrows, FailsGrow DEF write_key
  <2>3. QED BY <2>1, <2>2
<1>4. \A b \in Blobs : write_binary_blob(b) => G
  BY <1>0 DEF write_binary_blob
<1>5. blob_text => G
  BY StringGrows, FailsGrow DEF blob_text
<1>6. blob_raw \/ end_object => G
  BY <1>0 DEF blob_raw, end_object
<1>7. \A n \in 0 .. MaxLen : write_array(n) \/ write_object(n) => G
  <2>1. ASSUME NEW n \in 0 .. MaxLen, write_array(n) PROVE G
    BY <2>1, ZerosGrow DEF write_array
  <2>2. ASSUME NEW n \in 0 .. MaxLen, write_object(n) PROVE G
    BY <2>2, <1>0 DEF write_object
  <2>3. QED BY <2>1, <2>2
<1>8. element_offset => G
  BY PatchGrows, FailsGrow DEF element_offset
<1>9. end_array => G
  BY PatchGrows, FailsGrow DEF end_array
<1>10. value_offset => G
  BY PatchGrows, FailsGrow DEF value_offset
<1>. HIDE DEF G
<1>11. CNext => G
  BY <1>1, <1>2, <1>3, <1>4, <1>5, <1>6, <1>7, <1>8, <1>9, <1>10 DEF CNext
<1>12. QED BY <1>11 DEF G

LEMMA StepGrowsWords ==
  ASSUME IInv, PInv, CNext
  PROVE  WordsGrow
<1>1. WordStep
  BY NextPlaces
<1>2. QED BY <1>1, DomainGrows DEF WordStep, WordsGrow

(* A step that writes nothing, and a step that writes a token.             *)
LEMMA QuietStable ==
  ASSUME TypeOK, Lined, WordsGrow, bytes' = bytes, len' = len
  PROVE  Stable /\ Lined'
<1>1. Len(bytes) \in Nat
  BY BytesTyped
<1>2. \A p : Start(p)' = Start(p)
  BY DEF Start
<1>3. Stable
  BY <1>1, <1>2 DEF Stable
<1>4. Lined'
  <2>1. \A i \in 1 .. Len(bytes) : Start(i + 1)' = Start(i + 1)
    BY <1>2
  <2>2. QED BY <2>1 DEF Lined
<1>5. QED BY <1>3, <1>4

LEMMA EmitStable ==
  ASSUME TypeOK, Lined, WordsGrow, NEW tok \in CToken, Size(tok) \in Nat \ {0}, NEW part \in Nat,
         Emit(tok, part), tok.tag \in CompactDefs => len + 5 < Word
  PROVE  /\ Stable /\ Lined' /\ Len(bytes') = Len(bytes) + 1
         /\ bytes'[Len(bytes) + 1] = [at |-> len, tok |-> tok, of |-> part]
<1>1. /\ bytes' \in Seq(Item) /\ len' = len + Size(tok) /\ Len(bytes) \in Nat /\ Len(bytes') = Len(bytes) + 1
      /\ \A i \in 1 .. Len(bytes) : bytes'[i] = bytes[i]
      /\ bytes'[Len(bytes) + 1] = [at |-> len, tok |-> tok, of |-> part]
  <2>1. Size(tok) \in Nat
    OBVIOUS
  <2>2. /\ bytes' \in Seq(Item) /\ len' = len + Size(tok) /\ Len(bytes) \in Nat
        /\ DOMAIN bytes' = 1 .. Len(bytes) + 1 /\ DOMAIN bytes = 1 .. Len(bytes)
        /\ \A i \in DOMAIN bytes : bytes'[i] = bytes[i]
        /\ bytes'[Len(bytes) + 1] = [at |-> len, tok |-> tok, of |-> part]
    BY <2>1, EmitProps
  <2>3. Len(bytes') = Len(bytes) + 1
    BY <2>2
  <2>4. QED BY <2>2, <2>3
<1>2. len \in Nat
  BY BytesTyped
<1>3. \A p \in 1 .. Len(bytes) + 1 : Start(p)' = Start(p)
  <2>1. ASSUME NEW p \in 1 .. Len(bytes) + 1 PROVE Start(p)' = Start(p)
    <3>1. CASE p = Len(bytes) + 1
      <4>1. Start(p) = len
        BY <1>1, <3>1 DEF Start
      <4>2. Start(p)' = bytes'[p].at
        BY <1>1, <3>1 DEF Start
      <4>3. QED BY <1>1, <3>1, <4>1, <4>2
    <3>2. CASE p # Len(bytes) + 1
      <4>1. p \in 1 .. Len(bytes) /\ p <= Len(bytes) /\ p <= Len(bytes')
        BY <1>1, <3>2
      <4>2. QED BY <1>1, <4>1 DEF Start
    <3>3. QED BY <3>1, <3>2
  <2>2. QED BY <2>1
<1>4. Stable
  BY <1>1, <1>3 DEF Stable
<1>5. Lined'
  <2>1. bytes' # <<>> /\ bytes'[1].at = 0
    <3>1. CASE bytes = <<>>
      <4>1. bytes'[1] = [at |-> len, tok |-> tok, of |-> part] /\ len = 0
        BY <1>1, <3>1 DEF Lined
      <4>2. QED BY <1>1, <4>1
    <3>2. CASE bytes # <<>>
      <4>1. 1 \in 1 .. Len(bytes)
        BY <3>2, BytesTyped
      <4>2. QED BY <1>1, <3>2, <4>1 DEF Lined
    <3>3. QED BY <3>1, <3>2
  <2>2. ASSUME NEW i \in 1 .. Len(bytes')
        PROVE  /\ Size(bytes'[i].tok) \in Nat \ {0} /\ Start(i + 1)' = bytes'[i].at + Size(bytes'[i].tok)
               /\ bytes'[i].tok.tag \in CompactDefs => bytes'[i].at + 5 < Word
    <3>1. CASE i \in 1 .. Len(bytes)
      <4>1. i + 1 \in 1 .. Len(bytes) + 1
        BY <1>1, <3>1
      <4>2. Start(i + 1)' = Start(i + 1) /\ bytes'[i] = bytes[i]
        BY <1>1, <1>3, <3>1, <4>1
      <4>3. QED BY <3>1, <4>2 DEF Lined
    <3>2. CASE i = Len(bytes) + 1
      <4>1. bytes'[i].tok = tok /\ bytes'[i].at = len
        BY <1>1, <3>2
      <4>2. Start(i + 1)' = len'
        <5>1. ~(i + 1 <= Len(bytes'))
          BY <1>1, <3>2
        <5>2. QED BY <5>1 DEF Start
      <4>3. QED BY <1>1, <4>1, <4>2
    <3>3. QED BY <1>1, <3>1, <3>2
  <2>3. QED BY <2>1, <2>2 DEF Lined
<1>6. QED BY <1>1, <1>4, <1>5

(* Every token but the first begins after byte zero, so that a word that   *)
(* says where it begins is not zero.                                       *)
LEMMA StartPositive ==
  ASSUME TypeOK, Lined, NEW p \in 1 .. Len(bytes) + 1
  PROVE  Start(p) \in Nat /\ (p # 1 => Start(p) > 0)
<1>1. Len(bytes) \in Nat /\ len \in Nat
  BY BytesTyped
<1>2. CASE p = 1
  <2>1. Start(p) \in Nat
    BY <1>1, <1>2, BytesTyped DEF Start
  <2>2. QED BY <1>2, <2>1
<1>3. CASE p # 1
  <2>. DEFINE i == p - 1
  <2>1. i \in 1 .. Len(bytes) /\ i + 1 = p
    BY <1>1, <1>3
  <2>2. Start(i + 1) = bytes[i].at + Size(bytes[i].tok) /\ Size(bytes[i].tok) \in Nat \ {0} /\ bytes[i].at \in Nat
    BY <2>1, BytesTyped DEF Lined
  <2>3. QED BY <2>1, <2>2
<1>4. QED BY <1>2, <1>3

LEMMA MarkedAtKept ==
  ASSUME TypeOK, Lined, Stable, NEW p \in 2 .. Len(bytes) + 1, NEW o, MarkedAt(o, p)
  PROVE  MarkedAt(o, p)'
<1>1. p \in 1 .. Len(bytes) + 1 /\ p # 1
  BY BytesTyped
<1>2. Start(p) > 0 /\ Start(p) \in Nat /\ Start(p)' = Start(p)
  BY <1>1, StartPositive DEF Stable
<1>3. o \in DOMAIN words /\ words[o] # 0
  BY <1>2 DEF MarkedAt
<1>4. o \in DOMAIN words' /\ words'[o] = words[o]
  BY <1>3 DEF Stable, WordsGrow
<1>5. QED BY <1>2, <1>4 DEF MarkedAt

LEMMA MarkedKept ==
  ASSUME TypeOK, Lined, Stable, NEW p \in 2 .. Len(bytes) + 1, NEW s, Marked(s, p)
  PROVE  Marked(s, p)'
BY MarkedAtKept DEF Marked
-----------------------------------------------------------------------------
(* The parts that are there stay where they are.                           *)
LEMMA LaidAt ==
  ASSUME NEW at, NEW sh, Laid(at, sh), TypeOK, NEW n \in 1 .. Len(wrote)
  PROVE  /\ at[n - 1] \in Nat \ {0, 1} /\ at[n] \in Nat \ {0, 1} /\ sh[n - 1] \in Seq(OpenFrame) /\ sh[n] \in Seq(OpenFrame)
         /\ PartAt(n, wrote[n], at[n - 1], sh[n - 1])
         /\ at[n] = at[n - 1] + Weight(wrote[n])
         /\ sh[n] = Grown(sh[n - 1], wrote[n], bytes[at[n - 1]])
<1>1. n \in 0 .. Len(wrote) /\ n - 1 \in 0 .. Len(wrote)
  BY WroteTyped
<1>2. QED BY <1>1 DEF Laid

LEMMA LaidLast ==
  ASSUME NEW at, NEW sh, Laid(at, sh), TypeOK
  PROVE  /\ Len(wrote) \in Nat /\ at[Len(wrote)] \in Nat \ {0, 1} /\ sh[Len(wrote)] \in Seq(OpenFrame)
         /\ at[0] = 2 /\ sh[0] = <<>>
<1>1. Len(wrote) \in Nat /\ Len(wrote) \in 0 .. Len(wrote)
  BY WroteTyped
<1>2. QED BY <1>1 DEF Laid

LEMMA PartKept ==
  ASSUME TypeOK, Stable, Len(bytes') <= Len(bytes) + 1,
         NEW n, NEW c, NEW p \in Nat \ {0}, NEW s, PartAt(n, c, p, s),
         \A k \in 0 .. Weight(c) - 1 :
           p + k = Len(bytes) + 1 /\ p + k <= Len(bytes') => Fills(c, bytes'[p + k].tok, k) /\ bytes'[p + k].of = n
  PROVE  /\ PartAt(n, c, p, s)'
         /\ Grown(s, c, bytes'[p]) = Grown(s, c, bytes[p])
<1>1. Len(bytes) \in Nat /\ Len(bytes') \in Nat /\ Len(bytes') >= Len(bytes)
  BY BytesTyped DEF Stable
<1>2. Weight(c) \in {0, 1, 3}
  BY WeightIs
<1>3. p <= Len(bytes) + 1 /\ (Weight(c) > 0 => p <= Len(bytes)) /\ Legal(n, s, c)
  BY DEF PartAt
<1>4. p <= Len(bytes') + 1 /\ (Weight(c) > 0 => p <= Len(bytes'))
  BY <1>1, <1>2, <1>3
<1>5. ASSUME NEW k \in 0 .. Weight(c) - 1, p + k <= Len(bytes')
      PROVE  Fills(c, bytes'[p + k].tok, k) /\ bytes'[p + k].of = n
  <2>0. k \in Nat
    BY <1>2
  <2>1. CASE p + k = Len(bytes) + 1
    BY <1>5, <2>1
  <2>2. CASE p + k # Len(bytes) + 1
    <3>1. p + k <= Len(bytes) /\ p + k \in 1 .. Len(bytes)
      BY <1>1, <1>5, <2>0, <2>2
    <3>2. Fills(c, bytes[p + k].tok, k) /\ bytes[p + k].of = n
      BY <3>1 DEF PartAt
    <3>3. bytes'[p + k] = bytes[p + k]
      BY <3>1 DEF Stable
    <3>4. QED BY <3>2, <3>3
  <2>3. QED BY <2>1, <2>2
<1>6. PartAt(n, c, p, s)'
  BY <1>3, <1>4, <1>5 DEF PartAt
<1>7. Grown(s, c, bytes'[p]) = Grown(s, c, bytes[p])
  <2>1. CASE Weight(c) = 0
    <3>1. c.kind = "end"
      BY <2>1, WeightIs
    <3>2. QED BY <3>1, GrownIs
  <2>2. CASE Weight(c) # 0
    <3>1. p \in 1 .. Len(bytes)
      BY <1>1, <1>2, <1>3, <2>2
    <3>2. bytes'[p] = bytes[p]
      BY <3>1 DEF Stable
    <3>3. QED BY <3>2
  <2>3. QED BY <2>1, <2>2
<1>8. QED BY <1>6, <1>7

(* Only the last part can lack a token.                                    *)
LEMMA EarlierFull ==
  ASSUME TypeOK, NEW at, NEW sh, Laid(at, sh), NEW n \in 1 .. Len(wrote), n # Len(wrote),
         NEW k \in 0 .. Weight(wrote[n]) - 1
  PROVE  at[n - 1] + k <= Len(bytes)
<1>1. /\ at[n] = at[n - 1] + Weight(wrote[n]) /\ at[n - 1] \in Nat /\ Weight(wrote[n]) \in Nat
  <2>1. Weight(wrote[n]) \in {0, 1, 3}
    BY WeightIs
  <2>2. QED BY <2>1, LaidAt
<1>2. n + 1 \in 1 .. Len(wrote) /\ (n + 1) - 1 = n /\ Len(bytes) \in Nat
  <2>1. Len(wrote) \in Nat
    BY WroteTyped
  <2>2. QED BY <2>1, BytesTyped
<1>3. PartAt(n + 1, wrote[n + 1], at[(n + 1) - 1], sh[(n + 1) - 1])
  BY <1>2, LaidAt
<1>4. at[n] <= Len(bytes) + 1
  BY <1>2, <1>3 DEF PartAt
<1>5. QED BY <1>1, <1>2, <1>4

(* A step that records no part: the same, with one more token of the last  *)
(* part, or none.                                                          *)
LEMMA LaidSame ==
  ASSUME TypeOK, Lined, Stable, wrote' = wrote, Len(bytes') <= Len(bytes) + 1,
         NEW at, NEW sh, Laid(at, sh), Marks(at, sh),
         Len(bytes') = Len(bytes) + 1 =>
           \A k \in 0 .. Weight(wrote[Len(wrote)]) - 1 :
             wrote # <<>> /\ at[Len(wrote) - 1] + k = Len(bytes) + 1 =>
               /\ Fills(wrote[Len(wrote)], bytes'[Len(bytes) + 1].tok, k)
               /\ bytes'[Len(bytes) + 1].of = Len(wrote)
  PROVE  Laid(at, sh)' /\ Marks(at, sh)'
<1>1. ASSUME NEW n \in 1 .. Len(wrote), NEW c, c = wrote[n]
      PROVE  /\ PartAt(n, c, at[n - 1], sh[n - 1])'
             /\ sh[n] = Grown(sh[n - 1], c, bytes'[at[n - 1]])
             /\ at[n] = at[n - 1] + Weight(c)
             /\ Marked(sh[n - 1], at[n - 1])'
  <2>1. PICK p, s : p = at[n - 1] /\ s = sh[n - 1]
    OBVIOUS
  <2>2. /\ p \in Nat \ {0, 1} /\ PartAt(n, c, p, s) /\ Len(bytes) \in Nat /\ Len(bytes') \in Nat /\ Len(bytes') >= Len(bytes)
        /\ at[n] = at[n - 1] + Weight(c) /\ sh[n] = Grown(s, c, bytes[p])
    BY <1>1, <2>1, LaidAt, BytesTyped DEF Stable
  <2>3. ASSUME NEW k \in 0 .. Weight(c) - 1, p + k = Len(bytes) + 1, p + k <= Len(bytes')
        PROVE  Fills(c, bytes'[p + k].tok, k) /\ bytes'[p + k].of = n
    <3>1. CASE n = Len(wrote)
      <4>1. wrote # <<>> /\ Len(bytes') = Len(bytes) + 1
        BY <2>2, <2>3
      <4>2. QED BY <1>1, <2>1, <2>3, <3>1, <4>1
    <3>2. CASE n # Len(wrote)
      <4>1. p + k <= Len(bytes)
        BY <1>1, <2>1, <3>2, EarlierFull
      <4>2. QED BY <2>2, <2>3, <4>1
    <3>3. QED BY <3>1, <3>2
  <2>4. PartAt(n, c, p, s)' /\ Grown(s, c, bytes'[p]) = Grown(s, c, bytes[p])
    <3>1. p \in Nat \ {0} /\ Len(bytes') <= Len(bytes) + 1
      BY <2>2
    <3>2. QED BY <2>2, <2>3, <3>1, PartKept
  <2>5. Marked(s, p)'
    <3>1. Marked(s, p)
      BY <2>1 DEF Marks
    <3>2. p <= Len(bytes) + 1
      BY <2>2 DEF PartAt
    <3>3. p \in 2 .. Len(bytes) + 1
      BY <2>2, <3>2
    <3>4. QED BY <3>1, <3>3, MarkedKept
  <2>6. QED BY <2>1, <2>2, <2>4, <2>5
<1>2. Marks(at, sh)'
  <2>1. ASSUME NEW n \in 1 .. Len(wrote) PROVE Marked(sh[n - 1], at[n - 1])'
    BY <1>1
  <2>2. QED BY <2>1 DEF Marks
<1>3. Laid(at, sh)'
  <2>1. ASSUME NEW n \in 1 .. Len(wrote)
        PROVE  /\ PartAt(n, wrote[n], at[n - 1], sh[n - 1])'
               /\ at[n] = at[n - 1] + Weight(wrote'[n])
               /\ sh[n] = Grown(sh[n - 1], wrote'[n], bytes'[at[n - 1]])
    <3>1. PICK c : c = wrote[n]
      OBVIOUS
    <3>2. wrote'[n] = c
      BY <3>1
    <3>3. /\ PartAt(n, c, at[n - 1], sh[n - 1])'
          /\ sh[n] = Grown(sh[n - 1], c, bytes'[at[n - 1]]) /\ at[n] = at[n - 1] + Weight(c)
      BY <1>1, <3>1
    <3>4. QED BY <3>2, <3>3
  <2>2. QED BY <2>1 DEF Laid
<1>4. QED BY <1>2, <1>3

(* A step that records a part, with its first token if it has any: p is    *)
(* the token, s what is open before it and t after it.                     *)
Records(c, at, sh, p, s, t) ==
  /\ Len(bytes') <= Len(bytes) + 1 /\ c \in Part /\ Recorded(c)
  /\ Laid(at, sh) /\ Marks(at, sh)
  /\ p = at[Len(wrote)] /\ p = Len(bytes) + 1 /\ s = sh[Len(wrote)]
  /\ Weight(c) > 0 => /\ Len(bytes') = Len(bytes) + 1
                      /\ Fills(c, bytes'[p].tok, 0) /\ bytes'[p].of = Len(wrote) + 1
  /\ Legal(Len(wrote) + 1, s, c) /\ Marked(s, p)'
  /\ t \in Seq(OpenFrame) /\ t = Grown(s, c, bytes'[p])

LEMMA LaidMore ==
  ASSUME TypeOK, Lined, Stable, NEW c, NEW at, NEW sh, NEW p, NEW s, NEW t, Records(c, at, sh, p, s, t)
  PROVE  \E a, f : /\ Laid(a, f)' /\ Marks(a, f)'
                   /\ a[Len(wrote) + 1] = p + Weight(c) /\ f[Len(wrote) + 1] = t
<1>0. /\ Len(bytes') <= Len(bytes) + 1 /\ c \in Part /\ Recorded(c)
      /\ Laid(at, sh) /\ Marks(at, sh)
      /\ p = at[Len(wrote)] /\ p = Len(bytes) + 1 /\ s = sh[Len(wrote)]
      /\ Weight(c) > 0 => /\ Len(bytes') = Len(bytes) + 1
                          /\ Fills(c, bytes'[p].tok, 0) /\ bytes'[p].of = Len(wrote) + 1
      /\ Legal(Len(wrote) + 1, s, c) /\ Marked(s, p)'
      /\ t \in Seq(OpenFrame) /\ t = Grown(s, c, bytes'[p])
  BY DEF Records
<1>. USE <1>0
<1>1. PICK m : m = Len(wrote)
  OBVIOUS
<1>2. /\ m \in Nat /\ Len(wrote') = m + 1 /\ wrote'[m + 1] = c
      /\ \A i \in 1 .. m : wrote'[i] = wrote[i]
  BY <1>1, PartRecorded
<1>3. Len(bytes) \in Nat /\ Len(bytes') \in Nat /\ Len(bytes') >= Len(bytes) /\ Weight(c) \in {0, 1, 3}
  BY BytesTyped, WeightIs DEF Stable
<1>4. /\ at \in [0 .. m -> Nat \ {0, 1}] /\ sh \in [0 .. m -> Seq(OpenFrame)] /\ at[0] = 2 /\ sh[0] = <<>>
      /\ p \in Nat \ {0, 1} /\ p = at[m] /\ s = sh[m]
  <2>1. m \in 0 .. m
    BY <1>2
  <2>2. QED BY <1>1, <2>1 DEF Laid
<1>. DEFINE a == [n \in 0 .. m + 1 |-> IF n = m + 1 THEN p + Weight(c) ELSE at[n]]
            f == [n \in 0 .. m + 1 |-> IF n = m + 1 THEN t ELSE sh[n]]
<1>5. /\ a \in [0 .. m + 1 -> Nat \ {0, 1}] /\ f \in [0 .. m + 1 -> Seq(OpenFrame)]
      /\ a[m + 1] = p + Weight(c) /\ f[m + 1] = t
      /\ \A n \in 0 .. m : a[n] = at[n] /\ f[n] = sh[n]
  <2>1. p + Weight(c) \in Nat \ {0, 1}
    BY <1>3, <1>4
  <2>2. \A n \in 0 .. m : n \in 0 .. m + 1 /\ n # m + 1
    BY <1>2
  <2>3. \A n \in 0 .. m + 1 : n \in 0 .. m \/ n = m + 1
    BY <1>2
  <2>4. m + 1 \in 0 .. m + 1
    BY <1>2
  <2>5. a \in [0 .. m + 1 -> Nat \ {0, 1}]
    BY <1>4, <2>1, <2>3
  <2>6. f \in [0 .. m + 1 -> Seq(OpenFrame)]
    BY <1>4, <2>3
  <2>7. QED BY <2>2, <2>4, <2>5, <2>6
<1>. HIDE DEF a, f
<1>6. ASSUME NEW n \in 1 .. m, NEW d, d = wrote[n]
      PROVE  /\ PartAt(n, d, a[n - 1], f[n - 1])'
             /\ f[n] = Grown(f[n - 1], d, bytes'[a[n - 1]])
             /\ a[n] = a[n - 1] + Weight(d)
             /\ Marked(f[n - 1], a[n - 1])'
  <2>1. PICK q, g : q = at[n - 1] /\ g = sh[n - 1]
    OBVIOUS
  <2>2. /\ q \in Nat \ {0, 1} /\ PartAt(n, d, q, g)
        /\ at[n] = q + Weight(d) /\ sh[n] = Grown(g, d, bytes[q])
    <3>1. n \in 1 .. Len(wrote)
      BY <1>1
    <3>2. /\ at[n - 1] \in Nat \ {0, 1} /\ PartAt(n, wrote[n], at[n - 1], sh[n - 1])
          /\ at[n] = at[n - 1] + Weight(wrote[n]) /\ sh[n] = Grown(sh[n - 1], wrote[n], bytes[at[n - 1]])
      BY <3>1, LaidAt
    <3>3. QED BY <1>6, <2>1, <3>2
  <2>3. ASSUME NEW k \in 0 .. Weight(d) - 1 PROVE q + k <= Len(bytes)
    <3>1. CASE n = m
      <4>1. q + Weight(d) = Len(bytes) + 1 /\ Weight(d) \in {0, 1, 3}
        BY <1>4, <2>2, <3>1, WeightIs
      <4>. HIDE <1>0
      <4>2. k + 1 <= Weight(d) /\ k \in Nat
        <5>1. \A w \in {0, 1, 3} : \A j \in 0 .. w - 1 : j + 1 <= w /\ j \in Nat
          OBVIOUS
        <5>2. QED BY <4>1, <5>1, Zenon
      <4>3. q \in Nat /\ Len(bytes) \in Nat
        BY <1>3, <2>2
      <4>4. QED BY <4>1, <4>2, <4>3
    <3>2. CASE n # m
      BY <1>1, <1>6, <2>1, <3>2, EarlierFull
    <3>3. QED BY <3>1, <3>2
  <2>4. PartAt(n, d, q, g)' /\ Grown(g, d, bytes'[q]) = Grown(g, d, bytes[q])
    <3>1. \A k \in 0 .. Weight(d) - 1 : q + k # Len(bytes) + 1
      <4>1. ASSUME NEW k \in 0 .. Weight(d) - 1 PROVE q + k # Len(bytes) + 1
        <5>1. q + k <= Len(bytes)
          BY <2>3
        <5>2. QED BY <1>3, <5>1
      <4>2. QED BY <4>1
    <3>2. q \in Nat \ {0}
      BY <2>2
    <3>3. QED BY <2>2, <3>1, <3>2, PartKept
  <2>5. Marked(g, q)'
    <3>1. Marked(g, q)
      BY <1>1, <2>1 DEF Marks
    <3>2. q <= Len(bytes) + 1
      BY <2>2 DEF PartAt
    <3>3. q \in 2 .. Len(bytes) + 1
      BY <1>3, <2>2, <3>2
    <3>4. QED BY <3>1, <3>3, MarkedKept
  <2>6. a[n - 1] = q /\ f[n - 1] = g /\ a[n] = at[n] /\ f[n] = sh[n]
    <3>1. n \in 0 .. m /\ n - 1 \in 0 .. m
      BY <1>2
    <3>2. QED BY <1>5, <2>1, <3>1
  <2>7. QED BY <2>2, <2>4, <2>5, <2>6
<1>7. /\ PartAt(m + 1, c, p, s)' /\ a[m] = p /\ f[m] = s
  <2>1. a[m] = p /\ f[m] = s
    <3>1. m \in 0 .. m
      BY <1>2
    <3>2. QED BY <1>4, <1>5, <3>1
  <2>2. p <= Len(bytes') + 1 /\ (Weight(c) > 0 => p <= Len(bytes'))
    BY <1>3
  <2>3. ASSUME NEW k \in 0 .. Weight(c) - 1, p + k <= Len(bytes')
        PROVE  Fills(c, bytes'[p + k].tok, k) /\ bytes'[p + k].of = m + 1
    <3>1. Weight(c) > 0 /\ k = 0 /\ p + k = p
      BY <1>3, <1>4, <2>3
    <3>2. QED BY <1>1, <3>1
  <2>4. Legal(m + 1, s, c)
    BY <1>1
  <2>5. QED BY <2>1, <2>2, <2>3, <2>4 DEF PartAt
<1>8. ASSUME NEW n \in 1 .. m + 1
      PROVE  /\ PartAt(n, wrote[n], a[n - 1], f[n - 1])'
             /\ a[n] = a[n - 1] + Weight(wrote'[n])
             /\ f[n] = Grown(f[n - 1], wrote'[n], bytes'[a[n - 1]])
             /\ Marked(f[n - 1], a[n - 1])'
  <2>1. CASE n = m + 1
    <3>1. n - 1 = m
      BY <1>2, <2>1
    <3>2. QED BY <1>2, <1>5, <1>7, <2>1, <3>1
  <2>2. CASE n # m + 1
    <3>1. n \in 1 .. m
      BY <1>2, <2>2
    <3>2. PICK d : d = wrote[n]
      OBVIOUS
    <3>3. wrote'[n] = d
      BY <1>2, <3>1, <3>2
    <3>4. /\ PartAt(n, d, a[n - 1], f[n - 1])'
          /\ f[n] = Grown(f[n - 1], d, bytes'[a[n - 1]])
          /\ a[n] = a[n - 1] + Weight(d)
          /\ Marked(f[n - 1], a[n - 1])'
      BY <1>6, <3>1, <3>2
    <3>5. QED BY <3>3, <3>4
  <2>3. QED BY <2>1, <2>2
<1>9. Laid(a, f)'
  <2>1. a[0] = 2 /\ f[0] = <<>>
    <3>1. 0 \in 0 .. m
      BY <1>2
    <3>2. QED BY <1>4, <1>5, <3>1
  <2>2. QED BY <1>2, <1>5, <1>8, <2>1 DEF Laid
<1>10. Marks(a, f)'
  BY <1>2, <1>8 DEF Marks
<1>11. QED BY <1>1, <1>5, <1>9, <1>10
-----------------------------------------------------------------------------
(* The top of the stack, before and after.                                 *)
LEMMA DocAlone ==
  ASSUME TypeOK, StackOK
  PROVE  /\ Len(stack) \in Nat \ {0} /\ (Top.kind = "doc" <=> Len(stack) = 1)
         /\ Top.kind # "doc" => Top = stack[Len(stack)] /\ FrameOK(Len(stack)) /\ Len(stack) >= 2
<1>1. Len(stack) \in Nat \ {0} /\ Top = stack[Len(stack)]
  BY StackProps DEF Top
<1>2. CASE Len(stack) = 1
  BY <1>1, <1>2 DEF StackOK
<1>3. CASE Len(stack) >= 2
  <2>1. Len(stack) \in 2 .. Len(stack)
    BY <1>1, <1>3
  <2>2. FrameOK(Len(stack))
    BY <2>1 DEF StackOK
  <2>3. QED BY <1>1, <1>3, <2>2 DEF FrameOK
<1>4. Len(stack) = 1 \/ Len(stack) >= 2
  <2>1. \A n \in Nat \ {0} : n = 1 \/ n >= 2
    OBVIOUS
  <2>2. QED BY <1>1, <2>1, Zenon
<1>5. QED BY <1>2, <1>3, <1>4

LEMMA DueTop ==
  ASSUME TypeOK, StackOK, Top.due
  PROVE  /\ Top.kind # "binary" /\ (Top.kind = "object" => Top.slot # 0)
         /\ Len(stack) = 1 => wrote = <<>>
         /\ Settled /\ Missing = 0
<1>1. Top.kind # "doc" => Top = stack[Len(stack)] /\ FrameOK(Len(stack))
  BY DocAlone
<1>2. Top.kind # "binary" /\ (Top.kind = "object" => Top.slot # 0)
  BY <1>1 DEF FrameOK
<1>3. Len(stack) = 1 => wrote = <<>>
  BY DEF StackOK, Top
<1>4. Settled /\ Missing = 0
  BY <1>2 DEF Settled, Missing
<1>5. QED BY <1>2, <1>3, <1>4

LEMMA TopUsed ==
  ASSUME TypeOK, stack' = Used
  PROVE  /\ Top'.kind = Top.kind /\ Top'.count = Top.count /\ Top'.left = Top.left /\ Top'.slot = Top.slot
         /\ ~Top'.due /\ Len(stack') = Len(stack)
<1>. DEFINE u == [Top EXCEPT !.due = FALSE]
<1>1. Len(stack) \in Nat \ {0} /\ Top \in FrameSet
  BY StackProps
<1>2. Len(Used) = Len(stack) /\ \A i \in 1 .. Len(stack) : Used[i] = IF i = Len(stack) THEN u ELSE stack[i]
  BY UsedProps
<1>3. u.kind = Top.kind /\ u.count = Top.count /\ u.left = Top.left /\ u.slot = Top.slot /\ ~u.due
  BY <1>1 DEF FrameSet
<1>. HIDE DEF u
<1>4. Len(stack) \in 1 .. Len(stack)
  BY <1>1
<1>5. Top' = u
  BY <1>2, <1>4 DEF Top
<1>6. QED BY <1>2, <1>3, <1>5

LEMMA UsedTop ==
  ASSUME TypeOK
  PROVE  Used \in Seq(FrameSet) /\ Used # <<>> /\ Used[Len(Used)].kind = Top.kind /\ ~Used[Len(Used)].due
<1>. DEFINE u == [Top EXCEPT !.due = FALSE]
<1>1. Len(stack) \in Nat \ {0} /\ Top \in FrameSet
  BY StackProps
<1>2. /\ Used \in Seq(FrameSet) /\ Used # <<>> /\ Len(Used) = Len(stack)
      /\ \A i \in 1 .. Len(stack) : Used[i] = IF i = Len(stack) THEN u ELSE stack[i]
  BY UsedProps
<1>3. u.kind = Top.kind /\ ~u.due
  BY <1>1 DEF FrameSet
<1>. HIDE DEF u
<1>4. Len(stack) \in 1 .. Len(stack)
  BY <1>1
<1>5. Used[Len(Used)] = u
  BY <1>2, <1>4
<1>6. QED BY <1>2, <1>3, <1>5

LEMMA TopPushed ==
  ASSUME TypeOK, NEW f \in FrameSet, Pushed(f)
  PROVE  Top' = f /\ Len(stack') = Len(stack) + 1
<1>. DEFINE s == Append(Used, f)
<1>1. Len(s) = Len(stack) + 1 /\ s[Len(stack) + 1] = f
  BY PushProps
<1>2. stack' = s
  BY DEF Pushed
<1>. HIDE DEF s
<1>3. QED BY <1>1, <1>2 DEF Top

LEMMA TopWith ==
  ASSUME TypeOK, NEW g \in FrameSet, stack' = With(g)
  PROVE  Top' = g /\ Len(stack') = Len(stack)
<1>1. Len(stack) \in Nat \ {0}
  BY StackProps
<1>2. Len(stack) \in 1 .. Len(stack)
  BY <1>1
<1>3. Len(With(g)) = Len(stack) /\ With(g)[Len(stack)] = g
  BY <1>2, WithProps
<1>4. QED BY <1>3 DEF Top

(* What is known of the writer between two steps of a value.               *)
LEMMA LiveNow ==
  ASSUME TypeOK, result = "run", Top.kind # "binary", NEW at, NEW sh, WState(at, sh),
         NEW p, p = at[Len(wrote)], NEW s, s = sh[Len(wrote)]
  PROVE  /\ p = Len(bytes) + 1 /\ p \in Nat \ {0, 1} /\ s \in Seq(OpenFrame) /\ View(stack, s)
         /\ Laid(at, sh) /\ Marks(at, sh) /\ p \in 2 .. Len(bytes) + 1
         /\ Settled => Marked(s, p)
<1>1. Laid(at, sh) /\ Marks(at, sh) /\ Live(at, sh)
  BY DEF WState
<1>2. p \in Nat \ {0, 1} /\ s \in Seq(OpenFrame) /\ Len(bytes) \in Nat
  BY <1>1, LaidLast, BytesTyped
<1>3. Missing = 0
  BY DEF Missing
<1>4. p = Len(bytes) + 1
  BY <1>1, <1>2, <1>3 DEF Live
<1>5. View(stack, s) /\ (Settled => Marked(s, p))
  BY <1>1 DEF Live
<1>6. QED BY <1>1, <1>2, <1>4, <1>5

LEMMA ValueLegal ==
  ASSUME TypeOK, StackOK, Top.due, NEW s \in Seq(OpenFrame), View(stack, s), NEW c, c.kind \notin {"key", "end"}
  PROVE  Legal(Len(wrote) + 1, s, c)
<1>1. Top.kind # "binary"
  BY DueTop
<1>2. s = <<>> => Len(wrote) + 1 = 1
  <2>1. s = <<>> => wrote = <<>>
    BY <1>1, ViewTop, DueTop
  <2>2. wrote = <<>> => Len(wrote) + 1 = 1
    BY WroteTyped
  <2>3. QED BY <2>1, <2>2
<1>3. s # <<>> => Last1(s).left > 0
  BY <1>1, ViewLeft
<1>4. QED BY <1>2, <1>3 DEF Legal

(* A part recorded: what is left to show of the state it leads to.         *)
LEMMA RecordStep ==
  ASSUME TypeOK, Lined, Stable, NEW c, NEW at, NEW sh, NEW p, NEW s, NEW t, Records(c, at, sh, p, s, t),
         result' = "run", file' = <<>>, View(stack', t),
         NEW q, q = p + Weight(c), q = Len(bytes') + 1 + Missing',
         Missing' > 0 => c.kind = "binary",
         Settled' => Marked(t, q)'
  PROVE  \E a, f : WState(a, f)'
<1>1. PICK a, f : /\ Laid(a, f)' /\ Marks(a, f)'
                  /\ a[Len(wrote) + 1] = p + Weight(c) /\ f[Len(wrote) + 1] = t
  BY LaidMore
<1>2. Len(wrote') = Len(wrote) + 1 /\ wrote'[Len(wrote) + 1] = c /\ wrote' # <<>>
  BY PartRecorded DEF Records
<1>3. a[Len(wrote')] = q /\ f[Len(wrote')] = t
  BY <1>1, <1>2
<1>4. Live(a, f)'
  BY <1>2, <1>3 DEF Live
<1>5. ~Done'
  BY DEF Done
<1>6. WState(a, f)'
  BY <1>1, <1>4, <1>5 DEF WState
<1>7. QED BY <1>6
-----------------------------------------------------------------------------
(* The actions of the writer, one by one: from a state that is in order to *)
(* another, with the tokens where they were.                               *)
Ready(at, sh) == IInv /\ PInv /\ Lined /\ WordsGrow /\ result = "run" /\ file = <<>> /\ WState(at, sh)
Moves == Stable /\ Lined' /\ \E a, f : WState(a, f)'

LEMMA ReadyFacts ==
  ASSUME NEW at, NEW sh, Ready(at, sh)
  PROVE  /\ TypeOK /\ StackOK /\ IInv /\ PInv /\ Lined /\ WordsGrow /\ result = "run" /\ file = <<>>
         /\ WState(at, sh)
         /\ Len(wrote) \in Nat /\ Len(bytes) \in Nat /\ len \in Nat /\ Len(wrote) + 1 \in Nat
<1>1. TypeOK
  BY DEF Ready, IInv
<1>2. Len(wrote) \in Nat /\ Len(bytes) \in Nat /\ len \in Nat
  BY <1>1, WroteTyped, BytesTyped
<1>3. QED BY <1>1, <1>2 DEF Ready, IInv

(* A value begun or written, in one token: t is what is open then.         *)
LEMMA ValueStep ==
  ASSUME NEW at, NEW sh, Ready(at, sh), result' = "run", file' = file, Top.due,
         NEW tok \in CToken, Size(tok) \in Nat \ {0}, tok.tag \in CompactDefs => len + 5 < Word,
         Emit(tok, Len(wrote) + 1),
         NEW c \in Part, c.kind \notin {"key", "end"}, Recorded(c), Fills(c, tok, 0),
         NEW s, s = sh[Len(wrote)],
         NEW t \in Seq(OpenFrame), t = Grown(s, c, [at |-> len, tok |-> tok, of |-> Len(wrote) + 1]),
         View(stack', t), Missing' = Weight(c) - 1,
         NEW q, q = Len(bytes) + 1 + Weight(c), Settled' => Marked(t, q)'
  PROVE  Moves
<1>1. /\ TypeOK /\ StackOK /\ Lined /\ WordsGrow /\ result = "run" /\ file = <<>> /\ WState(at, sh)
      /\ Len(bytes) \in Nat /\ len \in Nat /\ Len(wrote) + 1 \in Nat
  BY ReadyFacts
<1>2. /\ Stable /\ Lined' /\ Len(bytes') = Len(bytes) + 1
      /\ bytes'[Len(bytes) + 1] = [at |-> len, tok |-> tok, of |-> Len(wrote) + 1]
  BY <1>1, EmitStable
<1>3. Top.kind # "binary" /\ Settled
  BY <1>1, DueTop
<1>4. PICK p : p = at[Len(wrote)]
  OBVIOUS
<1>5. /\ p = Len(bytes) + 1 /\ s \in Seq(OpenFrame) /\ View(stack, s)
      /\ Laid(at, sh) /\ Marks(at, sh) /\ p \in 2 .. Len(bytes) + 1 /\ Marked(s, p)
  BY <1>1, <1>3, <1>4, LiveNow
<1>6. Marked(s, p)'
  BY <1>1, <1>2, <1>5, MarkedKept
<1>7. Legal(Len(wrote) + 1, s, c)
  BY <1>1, <1>5, ValueLegal
<1>8. bytes'[p] = [at |-> len, tok |-> tok, of |-> Len(wrote) + 1]
  BY <1>2, <1>5
<1>9. Weight(c) > 0 => /\ Len(bytes') = Len(bytes) + 1
                       /\ Fills(c, bytes'[p].tok, 0) /\ bytes'[p].of = Len(wrote) + 1
  BY <1>2, <1>8
<1>10. Len(bytes') <= Len(bytes) + 1
  BY <1>1, <1>2
<1>11. Records(c, at, sh, p, s, t)
  BY <1>4, <1>5, <1>6, <1>7, <1>8, <1>9, <1>10 DEF Records
<1>12. PICK w : w = Weight(c) /\ w \in {0, 1, 3} /\ (w = 3 => c.kind = "binary")
  BY WeightIs
<1>13. q = p + Weight(c) /\ q = Len(bytes') + 1 + Missing' /\ (Missing' > 0 => c.kind = "binary")
  <2>1. \A n \in Nat : (n + 1) + 1 + (w - 1) = n + 1 + w
    BY <1>12
  <2>2. w - 1 > 0 => w = 3
    BY <1>12
  <2>3. QED BY <1>1, <1>2, <1>5, <1>12, <2>1, <2>2
<1>14. \E a, f : WState(a, f)'
  BY <1>1, <1>2, <1>11, <1>13, RecordStep
<1>15. QED BY <1>2, <1>14 DEF Moves

(* A value that is one token: it only counts.                              *)
LEMMA OneTokenStep ==
  ASSUME NEW at, NEW sh, Ready(at, sh), result' = "run", file' = file, Top.due,
         NEW tok \in CToken, Size(tok) \in Nat \ {0}, tok.tag \in CompactDefs => len + 5 < Word,
         Emit(tok, Len(wrote) + 1),
         NEW c \in Part, c.kind \notin {"key", "end", "array", "object", "binary"}, Recorded(c), Fills(c, tok, 0),
         stack' = Used
  PROVE  Moves
<1>1. /\ TypeOK /\ StackOK /\ result = "run" /\ WState(at, sh) /\ Len(bytes) \in Nat
  BY ReadyFacts
<1>2. PICK s, p : s = sh[Len(wrote)] /\ p = at[Len(wrote)]
  OBVIOUS
<1>3. Top.kind # "binary" /\ (Top.kind = "object" => Top.slot # 0)
  BY <1>1, DueTop
<1>4. s \in Seq(OpenFrame) /\ View(stack, s)
  BY <1>1, <1>2, <1>3, LiveNow
<1>5. PICK t : t = Ticked(s)
  OBVIOUS
<1>6. t \in Seq(OpenFrame) /\ View(stack', t)
  BY <1>1, <1>3, <1>4, <1>5, ViewUsed
<1>7. t = Grown(s, c, [at |-> len, tok |-> tok, of |-> Len(wrote) + 1])
  BY <1>5, GrownIs
<1>8. Top'.kind = Top.kind /\ Top'.slot = Top.slot /\ ~Top'.due /\ Len(stack') = Len(stack)
  BY <1>1, TopUsed
<1>9. Missing' = Weight(c) - 1
  <2>1. Missing' = 0
    BY <1>3, <1>8 DEF Missing
  <2>2. Weight(c) = 1
    BY WeightIs
  <2>3. QED BY <2>1, <2>2
<1>10. PICK q : q = Len(bytes) + 1 + Weight(c)
  OBVIOUS
<1>11. Settled' => Marked(t, q)'
  <2>1. ASSUME Settled' PROVE Top.kind \notin {"array", "object"}
    BY <1>3, <1>8, <2>1 DEF Settled
  <2>2. ASSUME Settled' PROVE t = <<>>
    <3>1. CASE s = <<>>
      BY <1>5, <3>1 DEF Ticked
    <3>2. CASE s # <<>>
      <4>1. Shows(Top, Last1(s)) /\ Last1(s) \in OpenFrame
        BY <1>1, <1>3, <1>4, <3>2, ViewTop, LastTyped
      <4>2. Top.kind \in {"array", "object"}
        BY <4>1 DEF Shows, OpenFrame, Containers
      <4>3. QED BY <2>1, <2>2, <4>2
    <3>3. QED BY <3>1, <3>2
  <2>3. QED BY <2>2 DEF Marked
<1>12. QED BY <1>2, <1>6, <1>7, <1>9, <1>10, <1>11, ValueStep

LEMMA PartKinds ==
  /\ \A v \in Scalars : v \in Part /\ v.kind \in {"null", "bool", "int", "float", "rtid"}
  /\ \A s \in Strings : [kind |-> "string", str |-> s] \in Part /\ [kind |-> "key", str |-> s] \in Part
  /\ \A b \in Blobs : [kind |-> "binary", bytes |-> b] \in Part
  /\ [kind |-> "array"] \in Part /\ [kind |-> "object"] \in Part
  /\ \A o \in {"array", "object"} : [kind |-> "end", of |-> o] \in Part
BY DEF Part, Scalars

LEMMA ScalarMoves ==
  ASSUME NEW at, NEW sh, Ready(at, sh), NEW v \in Scalars, write_scalar(v)
  PROVE  Moves
<1>1. /\ result' = "run" /\ file' = file /\ Top.due /\ Emit(ScalarToken(v), Len(wrote) + 1)
      /\ Recorded(v) /\ stack' = Used
  BY ReadyFacts DEF write_scalar, ValueDue, Recorded
<1>2. v \in Part /\ v.kind \in {"null", "bool", "int", "float", "rtid"}
  BY PartKinds
<1>3. Fills(v, ScalarToken(v), 0)
  BY <1>2 DEF Fills
<1>4. ScalarToken(v) \in CToken /\ Size(ScalarToken(v)) \in Nat \ {0} /\ ScalarToken(v).tag \notin CompactDefs
  BY ScalarTokenProps DEF CToken
<1>5. QED BY <1>1, <1>2, <1>3, <1>4, OneTokenStep

(* A string is one token, and its tag says how it is encoded.              *)
LEMMA StringToken ==
  ASSUME TypeOK, NEW s \in Texts, NEW wide \in BOOLEAN, NEW paired \in BOOLEAN, NEW part,
         write_compact_string(s, wide, paired, part)
  PROVE  \E tok \in CToken : /\ Emit(tok, part) /\ Size(tok) \in Nat \ {0} /\ (paired => Size(tok) >= 9)
                             /\ tok.tag \in {DefTag(wide, paired), RefTag(wide, paired)}
                             /\ tok.tag \in CompactDefs => len + 5 < Word
<1>1. CASE s \in DOMAIN Offsets(wide) /\ Emit(RefToken(s, wide, paired), part)
  <2>. DEFINE tok == RefToken(s, wide, paired)
  <2>1. Offsets(wide)[s] \in Nat
    <3>1. \A n \in 0 .. Word - 1 : n \in Nat
      BY WordAssumption DEF WordAssumption
    <3>2. QED BY <1>1, <3>1 DEF Offsets, TypeOK
  <2>2. /\ tok \in CToken /\ tok.tag \in (IF wide THEN Utf32Refs ELSE Latin1Refs)
        /\ Size(tok) \in Nat /\ Size(tok) >= (IF paired THEN 9 ELSE 5)
    BY <2>1, RefTokenProps
  <2>3. tok.tag = RefTag(wide, paired)
    BY DEF RefToken
  <2>4. tok.tag \notin CompactDefs
    BY <2>3 DEF RefTag, CompactDefs, Latin1Defs, Utf32Defs
  <2>. HIDE DEF tok
  <2>5. Size(tok) \in Nat \ {0} /\ (paired => Size(tok) >= 9)
    BY <2>2
  <2>6. QED BY <1>1, <2>2, <2>3, <2>4, <2>5 DEF tok
<1>2. CASE len + 5 < Word /\ Emit(DefToken(s, wide, paired), part)
  <2>. DEFINE tok == DefToken(s, wide, paired)
  <2>1. tok \in CToken /\ Size(tok) \in Nat /\ Size(tok) >= (IF paired THEN 9 ELSE 5)
    BY DefTokenProps
  <2>2. tok.tag = DefTag(wide, paired)
    BY DEF DefToken
  <2>. HIDE DEF tok
  <2>3. Size(tok) \in Nat \ {0} /\ (paired => Size(tok) >= 9)
    BY <2>1
  <2>4. QED BY <1>2, <2>1, <2>2, <2>3 DEF tok
<1>3. QED BY <1>1, <1>2 DEF write_compact_string

LEMMA StringMoves ==
  ASSUME NEW at, NEW sh, Ready(at, sh), NEW s \in Strings, write_string(s), result' = "run"
  PROVE  Moves
<1>1. /\ Top.due /\ write_compact_string(s, Wide(s), FALSE, Len(wrote) + 1)
      /\ Recorded([kind |-> "string", str |-> s]) /\ stack' = Used /\ file' = file
  BY DEF write_string, ValueDue, Recorded, string_fails, Abort
<1>2. PICK c : c = [kind |-> "string", str |-> s]
  OBVIOUS
<1>3. c \in Part /\ c.kind = "string" /\ c.str = s /\ Recorded(c)
  BY <1>1, <1>2, PartKinds
<1>4. s \in Texts /\ Wide(s) \in BOOLEAN /\ TypeOK
  BY ReadyFacts DEF Texts, Wide
<1>5. PICK tok \in CToken : /\ Emit(tok, Len(wrote) + 1) /\ Size(tok) \in Nat \ {0}
                            /\ tok.tag \in {DefTag(Wide(s), FALSE), RefTag(Wide(s), FALSE)}
                            /\ tok.tag \in CompactDefs => len + 5 < Word
  BY <1>1, <1>4, StringToken
<1>6. Fills(c, tok, 0)
  BY <1>3, <1>5 DEF Fills
<1>7. QED BY <1>1, <1>3, <1>5, <1>6, OneTokenStep

(* A value that opens a frame: a blob, which is not seen from outside.     *)
LEMMA BlobMoves ==
  ASSUME NEW at, NEW sh, Ready(at, sh), NEW b \in Blobs, write_binary_blob(b)
  PROVE  Moves
<1>. DEFINE f == Frame("binary", 2, 0)
<1>1. /\ result' = "run" /\ file' = file /\ Top.due /\ Emit([tag |-> "CompactBinaryBlob"], Len(wrote) + 1)
      /\ Recorded([kind |-> "binary", bytes |-> b]) /\ Pushed(f)
  BY ReadyFacts DEF write_binary_blob, ValueDue, Recorded, Pushed
<1>2. /\ TypeOK /\ StackOK /\ result = "run" /\ WState(at, sh) /\ Len(bytes) \in Nat
  BY ReadyFacts
<1>3. PICK s : s = sh[Len(wrote)]
  OBVIOUS
<1>4. Top.kind # "binary" /\ s \in Seq(OpenFrame) /\ View(stack, s)
  BY <1>1, <1>2, <1>3, DueTop, LiveNow
<1>5. PICK t : t = Ticked(s)
  OBVIOUS
<1>6. t \in Seq(OpenFrame) /\ View(Used, t)
  BY <1>2, <1>1, <1>4, <1>5, ViewUsed
<1>7. f \in FrameSet /\ f.kind = "binary" /\ f.left = 2
  BY FrameTyped
<1>8. View(stack', t)
  <2>1. Used \in Seq(FrameSet) /\ Used # <<>> /\ Used[Len(Used)].kind # "binary" /\ ~Used[Len(Used)].due
    BY <1>2, <1>4, UsedTop
  <2>. HIDE DEF f
  <2>2. View(Append(Used, f), t)
    BY <1>6, <1>7, <2>1, ViewAppend
  <2>3. QED BY <1>1, <2>2 DEF Pushed
<1>9. Top' = f
  BY <1>1, <1>2, <1>7, TopPushed
<1>. HIDE DEF f
<1>10. Missing' = 2 /\ ~Settled'
  BY <1>7, <1>9 DEF Missing, Settled
<1>11. PICK c : c = [kind |-> "binary", bytes |-> b]
  OBVIOUS
<1>12. c \in Part /\ c.kind = "binary" /\ c.bytes = b /\ Recorded(c)
  BY <1>1, <1>11, PartKinds
<1>13. PICK tok : tok = [tag |-> "CompactBinaryBlob"]
  OBVIOUS
<1>14. tok \in CToken /\ Size(tok) \in Nat \ {0} /\ tok.tag \notin CompactDefs
  <2>1. tok.tag = "CompactBinaryBlob"
    BY <1>13
  <2>2. tok \in CToken
    BY <1>13 DEF CToken
  <2>3. Size(tok) = 1
    BY <2>1, SizeOf
  <2>4. QED BY <2>1, <2>2, <2>3 DEF CompactDefs, Latin1Defs, Utf32Defs
<1>15. Fills(c, tok, 0)
  BY <1>12, <1>13 DEF Fills, BlobFills
<1>16. t = Grown(s, c, [at |-> len, tok |-> tok, of |-> Len(wrote) + 1])
  BY <1>5, <1>12, GrownIs
<1>17. Missing' = Weight(c) - 1
  <2>1. Weight(c) = 3
    BY <1>12, WeightIs
  <2>2. QED BY <1>10, <2>1
<1>18. PICK q : q = Len(bytes) + 1 + Weight(c)
  OBVIOUS
<1>19. Emit(tok, Len(wrote) + 1)
  BY <1>1, <1>13
<1>20. QED BY <1>1, <1>3, <1>6, <1>8, <1>10, <1>12, <1>14, <1>15, <1>16, <1>17, <1>18, <1>19, ValueStep

(* A container: the frame is seen as it is.                                *)
LEMMA ContainerStep ==
  ASSUME NEW at, NEW sh, Ready(at, sh), result' = "run", file' = file, Top.due,
         NEW tok \in CToken, Size(tok) \in Nat \ {0}, tok.tag \notin CompactDefs,
         Emit(tok, Len(wrote) + 1),
         NEW c \in Part, c.kind \in {"array", "object"}, Recorded(c), Fills(c, tok, 0),
         NEW f \in FrameSet, f.kind = c.kind, Pushed(f), ~f.due, f.kind = "object" => f.slot = 0,
         NEW h \in OpenFrame, Shows(f, h),
         c.kind = "array" => h = ArrayFrame([at |-> len, tok |-> tok, of |-> Len(wrote) + 1]),
         c.kind = "object" => h = ObjectFrame
  PROVE  Moves
<1>1. /\ TypeOK /\ StackOK /\ result = "run" /\ WState(at, sh) /\ Len(bytes) \in Nat
  BY ReadyFacts
<1>2. PICK s : s = sh[Len(wrote)]
  OBVIOUS
<1>3. Top.kind # "binary" /\ s \in Seq(OpenFrame) /\ View(stack, s)
  BY <1>1, <1>2, DueTop, LiveNow
<1>4. PICK u : u = Ticked(s)
  OBVIOUS
<1>5. u \in Seq(OpenFrame) /\ View(Used, u)
  BY <1>1, <1>3, <1>4, ViewUsed
<1>6. PICK t : t = Append(u, h)
  OBVIOUS
<1>7. t \in Seq(OpenFrame) /\ Last1(t) = h
  BY <1>5, <1>6 DEF Last1
<1>8. View(stack', t)
  <2>1. Used \in Seq(FrameSet) /\ Used # <<>> /\ Used[Len(Used)].kind # "binary" /\ ~Used[Len(Used)].due
    BY <1>1, <1>3, UsedTop
  <2>2. f.kind # "binary"
    OBVIOUS
  <2>3. View(Append(Used, f), Append(u, h))
    BY <1>5, <2>1, <2>2, ViewAppend
  <2>4. QED BY <1>6, <2>3 DEF Pushed
<1>9. Top' = f
  BY <1>1, TopPushed
<1>10. Missing' = Weight(c) - 1
  <2>1. Missing' = 0
    BY <1>9 DEF Missing
  <2>2. Weight(c) = 1
    BY WeightIs
  <2>3. QED BY <2>1, <2>2
<1>11. PICK q : q = Len(bytes) + 1 + Weight(c)
  OBVIOUS
<1>12. Settled' => Marked(t, q)'
  <2>1. Settled' => f.kind = "object"
    BY <1>9 DEF Settled
  <2>2. f.kind = "object" => Last1(t).kind = "object" /\ Last1(t).slot = 0
    BY <1>7 DEF ObjectFrame
  <2>3. QED BY <2>1, <2>2 DEF Marked
<1>13. t = Grown(s, c, [at |-> len, tok |-> tok, of |-> Len(wrote) + 1])
  BY <1>4, <1>6, GrownIs
<1>14. QED BY <1>2, <1>7, <1>8, <1>10, <1>11, <1>12, <1>13, ValueStep

LEMMA ObjectMoves ==
  ASSUME NEW at, NEW sh, Ready(at, sh), NEW n \in 0 .. MaxLen, write_object(n)
  PROVE  Moves
<1>. DEFINE f == Frame("object", n, 0)
<1>1. /\ result' = "run" /\ file' = file /\ Top.due /\ Emit([tag |-> "CompactObjectBegin"], Len(wrote) + 1)
      /\ Recorded([kind |-> "object"]) /\ Pushed(f)
  BY ReadyFacts DEF write_object, ValueDue, Recorded, Pushed
<1>2. n \in Nat
  BY CBoundsAssumption DEF CBoundsAssumption
<1>3. f \in FrameSet /\ f.kind = "object" /\ f.slot = 0 /\ ~f.due
  BY <1>2, FrameTyped
<1>. HIDE DEF f
<1>4. Shows(f, ObjectFrame)
  BY <1>3 DEF Shows, ObjectFrame
<1>5. PICK tok : tok = [tag |-> "CompactObjectBegin"]
  OBVIOUS
<1>6. tok \in CToken /\ Size(tok) \in Nat \ {0} /\ tok.tag \notin CompactDefs /\ Emit(tok, Len(wrote) + 1)
  <2>1. tok.tag = "CompactObjectBegin"
    BY <1>5
  <2>2. tok \in CToken
    BY <1>5 DEF CToken
  <2>3. Size(tok) = 1
    BY <2>1, SizeOf
  <2>4. QED BY <1>1, <1>5, <2>1, <2>2, <2>3 DEF CompactDefs, Latin1Defs, Utf32Defs
<1>7. PICK c : c = [kind |-> "object"]
  OBVIOUS
<1>8. c \in Part /\ c.kind = "object" /\ Recorded(c) /\ Fills(c, tok, 0)
  BY <1>1, <1>5, <1>7, PartKinds DEF Fills
<1>9. QED BY <1>1, <1>3, <1>4, <1>6, <1>8, ObjectFrameTyped, ContainerStep

LEMMA ArrayMoves ==
  ASSUME NEW at, NEW sh, Ready(at, sh), NEW n \in 0 .. MaxLen, write_array(n)
  PROVE  Moves
<1>. DEFINE f == Frame("array", n, len + 6)
<1>1. PICK table : table = [i \in 1 .. n + 1 |-> 0]
  OBVIOUS
<1>2. PICK tok : tok = [tag |-> "CompactArrayBegin", count |-> U32(n), table |-> table]
  OBVIOUS
<1>3. /\ result' = "run" /\ file' = file /\ Top.due /\ Emit(tok, Len(wrote) + 1)
      /\ Recorded([kind |-> "array"]) /\ Pushed(f)
  BY <1>1, <1>2, ReadyFacts DEF write_array, ValueDue, Recorded, Pushed
<1>4. n \in Nat /\ len \in Nat
  BY CBoundsAssumption, ReadyFacts DEF CBoundsAssumption
<1>5. len + 6 \in Nat
  BY <1>4
<1>6. f \in FrameSet /\ f.kind = "array" /\ f.slot = len + 6 /\ ~f.due /\ f.count = n /\ f.left = n
  BY <1>4, <1>5, FrameTyped
<1>. HIDE DEF f
<1>7. table \in Seq({0}) /\ Len(table) = n + 1 /\ table # <<>>
  BY <1>1, <1>4
<1>8. tok.tag = "CompactArrayBegin" /\ tok.table = table /\ tok.count = U32(n)
  BY <1>2
<1>9. tok \in CToken /\ Size(tok) \in Nat \ {0} /\ tok.tag \notin CompactDefs
  <2>1. U32(n) \in Nat
    <3>1. \A i \in 0 .. Word - 1 : i \in Nat
      BY WordAssumption DEF WordAssumption
    <3>2. QED BY <1>4, <3>1, U32Props
  <2>2. tok \in CToken
    BY <1>2, <1>7, <2>1 DEF CToken
  <2>3. Size(tok) = 1 + TableSize(tok)
    BY <1>8, SizeOf
  <2>4. TableSize(tok) = 5 + 4 * (n + 1)
    BY <1>7, <1>8 DEF TableSize
  <2>5. QED BY <1>4, <1>8, <2>2, <2>3, <2>4 DEF CompactDefs, Latin1Defs, Utf32Defs
<1>10. PICK x : x = [at |-> len, tok |-> tok, of |-> Len(wrote) + 1]
  OBVIOUS
<1>11. PICK h : h = ArrayFrame(x)
  OBVIOUS
<1>12. /\ h \in OpenFrame /\ h.kind = "array" /\ h.left = n /\ h.count = n /\ h.slot = len + 6
  <2>1. x.at = len /\ x.tok = tok
    BY <1>10
  <2>2. x.at \in Nat /\ x.tok.table \in Seq({0}) /\ x.tok.table # <<>> /\ Len(x.tok.table) - 1 = n
    BY <1>4, <1>7, <1>8, <2>1
  <2>3. QED BY <1>11, <2>1, <2>2, ArrayFrameTyped
<1>13. Shows(f, h)
  BY <1>4, <1>6, <1>12 DEF Shows
<1>14. PICK c : c = [kind |-> "array"]
  OBVIOUS
<1>15. c \in Part /\ c.kind = "array" /\ Recorded(c)
  BY <1>3, <1>14, PartKinds
<1>16. Fills(c, tok, 0)
  BY <1>7, <1>8, <1>15 DEF Fills
<1>17. h = ArrayFrame([at |-> len, tok |-> tok, of |-> Len(wrote) + 1])
  BY <1>10, <1>11
<1>18. QED BY <1>3, <1>6, <1>9, <1>12, <1>13, <1>15, <1>16, <1>17, ContainerStep

(* A step that records no part.                                            *)
LEMMA SameStep ==
  ASSUME NEW at, NEW sh, Ready(at, sh), Stable, Lined', wrote' = wrote, file' = file, result' = "run",
         Len(bytes') <= Len(bytes) + 1,
         Len(bytes') = Len(bytes) + 1 =>
           \A k \in 0 .. Weight(wrote[Len(wrote)]) - 1 :
             wrote # <<>> /\ at[Len(wrote) - 1] + k = Len(bytes) + 1 =>
               /\ Fills(wrote[Len(wrote)], bytes'[Len(bytes) + 1].tok, k)
               /\ bytes'[Len(bytes) + 1].of = Len(wrote),
         NEW s, s = sh[Len(wrote)], NEW p, p = at[Len(wrote)],
         View(stack', s), p = Len(bytes') + 1 + Missing',
         Missing' > 0 => wrote # <<>> /\ wrote[Len(wrote)].kind = "binary",
         Settled' => Marked(s, p)'
  PROVE  Moves
<1>1. TypeOK /\ Lined /\ file = <<>> /\ WState(at, sh)
  BY ReadyFacts
<1>2. Laid(at, sh) /\ Marks(at, sh)
  BY <1>1 DEF WState
<1>3. Laid(at, sh)' /\ Marks(at, sh)'
  BY <1>1, <1>2, LaidSame
<1>4. s = sh[Len(wrote')] /\ p = at[Len(wrote')]
  OBVIOUS
<1>5. Live(at, sh)'
  BY <1>4 DEF Live
<1>6. ~Done'
  BY <1>1 DEF Done
<1>7. WState(at, sh)'
  BY <1>3, <1>5, <1>6 DEF WState
<1>8. QED BY <1>7 DEF Moves

(* A token of the blob that is being written: the first that it lacks.     *)
LEMMA BlobToken ==
  ASSUME NEW at, NEW sh, Ready(at, sh), Top.kind = "binary", Top.left \in {1, 2},
         NEW tok \in CToken, Size(tok) \in Nat \ {0}, tok.tag \in CompactDefs => len + 5 < Word,
         Emit(tok, Len(wrote)), BlobFills(wrote[Len(wrote)], tok, 3 - Top.left),
         wrote' = wrote, file' = file, result' = "run",
         NEW s, s = sh[Len(wrote)], View(stack', s), Missing' = Top.left - 1,
         Settled' => s = <<>> \/ Last1(s).kind \notin {"array", "object"}
  PROVE  Moves
<1>1. /\ TypeOK /\ StackOK /\ Lined /\ WordsGrow /\ result = "run" /\ file = <<>> /\ WState(at, sh)
      /\ Len(bytes) \in Nat /\ Len(wrote) \in Nat
  BY ReadyFacts
<1>2. /\ Stable /\ Lined' /\ Len(bytes') = Len(bytes) + 1
      /\ bytes'[Len(bytes) + 1] = [at |-> len, tok |-> tok, of |-> Len(wrote)]
  BY <1>1, EmitStable
<1>3. Len(wrote) \in 1 .. Len(wrote) /\ wrote[Len(wrote)].kind = "binary" /\ wrote # <<>>
  BY <1>1, BlobIsLast
<1>4. Laid(at, sh) /\ Live(at, sh)
  BY <1>1 DEF WState
<1>5. PICK p, o : p = at[Len(wrote)] /\ o = at[Len(wrote) - 1]
  OBVIOUS
<1>6. p \in Nat /\ o \in Nat /\ p = o + 3
  <2>1. Weight(wrote[Len(wrote)]) = 3
    BY <1>3, WeightIs
  <2>2. at[Len(wrote) - 1] \in Nat \ {0, 1} /\ at[Len(wrote)] = at[Len(wrote) - 1] + Weight(wrote[Len(wrote)])
    BY <1>1, <1>3, <1>4, LaidAt
  <2>3. QED BY <1>5, <2>1, <2>2
<1>7. p = Len(bytes) + 1 + Top.left
  BY <1>4, <1>5 DEF Live, Missing
<1>8. PICK l : l = Top.left /\ l \in {1, 2}
  OBVIOUS
<1>9. ASSUME NEW k \in 0 .. Weight(wrote[Len(wrote)]) - 1, at[Len(wrote) - 1] + k = Len(bytes) + 1
      PROVE  /\ Fills(wrote[Len(wrote)], bytes'[Len(bytes) + 1].tok, k)
             /\ bytes'[Len(bytes) + 1].of = Len(wrote)
  <2>1. k = 3 - l
    <3>1. Weight(wrote[Len(wrote)]) = 3
      BY <1>3, WeightIs
    <3>2. k \in 0 .. 2 /\ o + k = Len(bytes) + 1
      BY <1>5, <1>9, <3>1
    <3>3. o + 3 = Len(bytes) + 1 + l
      BY <1>6, <1>7, <1>8
    <3>4. \A a, b \in Nat : \A d \in {1, 2} : \A i \in 0 .. 2 : a + i = b + 1 /\ a + 3 = b + 1 + d => i = 3 - d
      OBVIOUS
    <3>5. QED BY <1>1, <1>6, <1>8, <3>2, <3>3, <3>4
  <2>2. Fills(wrote[Len(wrote)], tok, k)
    BY <1>3, <1>8, <2>1 DEF Fills
  <2>3. QED BY <1>2, <2>2
<1>10. p = Len(bytes') + 1 + Missing'
  <2>1. \A n \in Nat : n + 1 + l = (n + 1) + 1 + (l - 1)
    <3>1. \A n \in Nat : \A d \in {1, 2} : n + 1 + d = (n + 1) + 1 + (d - 1)
      OBVIOUS
    <3>2. QED BY <1>8, <3>1
  <2>2. QED BY <1>1, <1>2, <1>7, <1>8, <2>1
<1>11. Len(bytes') <= Len(bytes) + 1
  BY <1>1, <1>2
<1>12. Settled' => Marked(s, p)'
  <2>1. Settled' => s = <<>> \/ Last1(s).kind \notin {"array", "object"}
    OBVIOUS
  <2>2. QED BY <2>1 DEF Marked
<1>13. QED BY <1>2, <1>3, <1>5, <1>9, <1>10, <1>11, <1>12, SameStep

(* Behind the scenes: what a blob or a container leaves on top is not yet  *)
(* settled, unless it is the document.                                     *)
LEMMA ClosedTop ==
  ASSUME TypeOK, StackOK, Len(stack) >= 2, NEW s \in Seq(OpenFrame), View(stack, s), stack' = Closed,
         NEW t \in Seq(OpenFrame), View(Closed, t)
  PROVE  Missing' = 0 /\ (Settled' => t = <<>>)
<1>1. Top' = Closed[Len(Closed)]
  BY DEF Top
<1>2. Top'.kind # "binary" /\ ~Top'.due /\ (Top'.kind = "object" => Top'.slot # 0) /\ Top' \in FrameSet
  BY <1>1, UnderTop
<1>3. Missing' = 0
  BY <1>2 DEF Missing
<1>4. Settled' => Top'.kind \notin {"array", "object"}
  BY <1>2 DEF Settled
<1>5. ASSUME t # <<>> PROVE Top'.kind \in {"array", "object"}
  <2>1. Len(Closed) \in Nat \ {0} /\ Depth(Closed) = Len(Closed) /\ Len(t) \in Nat \ {0}
    <3>1. Len(Closed) \in Nat \ {0}
      <4>1. Len(Closed) = Len(stack) - 1 /\ Len(stack) \in Nat
        BY ClosedProps, StackProps
      <4>2. QED BY <4>1
    <3>2. Depth(Closed) = Len(Closed)
      BY <1>1, <1>2 DEF Depth
    <3>3. QED BY <1>5, <3>1, <3>2
  <2>2. Len(t) = Len(Closed) - 1 /\ Len(t) \in 1 .. Len(t) /\ Len(t) + 1 = Len(Closed)
    BY <2>1 DEF View
  <2>3. Shows(Closed[Len(t) + 1], t[Len(t)]) /\ t[Len(t)] \in OpenFrame
    BY <2>2 DEF View
  <2>4. QED BY <1>1, <2>2, <2>3 DEF Shows, OpenFrame, Containers
<1>6. QED BY <1>3, <1>4, <1>5

LEMMA BlobTextMoves ==
  ASSUME NEW at, NEW sh, Ready(at, sh), blob_text, result' = "run"
  PROVE  Moves
<1>1. /\ Top.kind = "binary" /\ Top.left = 2 /\ stack' = With([Top EXCEPT !.left = 1])
      /\ write_compact_string(HexStr(Blob), FALSE, FALSE, Len(wrote)) /\ wrote' = wrote /\ file' = file
  BY DEF blob_text, InBlob, string_fails, Abort
<1>2. TypeOK /\ StackOK /\ result = "run" /\ WState(at, sh) /\ Len(wrote) \in Nat
  BY ReadyFacts
<1>3. PICK s : s = sh[Len(wrote)]
  OBVIOUS
<1>4. HexStr(Blob) \in Texts
  BY <1>1, <1>2, BlobIsLast DEF Texts
<1>5. PICK tok \in CToken : /\ Emit(tok, Len(wrote)) /\ Size(tok) \in Nat \ {0}
                            /\ tok.tag \in {DefTag(FALSE, FALSE), RefTag(FALSE, FALSE)}
                            /\ tok.tag \in CompactDefs => len + 5 < Word
  BY <1>1, <1>2, <1>4, StringToken
<1>6. BlobFills(wrote[Len(wrote)], tok, 3 - Top.left)
  <2>1. 3 - Top.left = 1
    BY <1>1
  <2>2. QED BY <1>5, <2>1 DEF BlobFills
<1>7. PICK g : g = [Top EXCEPT !.left = 1]
  OBVIOUS
<1>8. g \in FrameSet /\ g.kind = "binary" /\ g.left = 1
  BY <1>1, <1>2, <1>7, StackProps DEF FrameSet
<1>9. Top' = g
  BY <1>1, <1>2, <1>7, <1>8, TopWith
<1>10. Missing' = 1 /\ ~Settled'
  BY <1>8, <1>9 DEF Missing, Settled
<1>11. View(stack', s)
  <2>1. View(stack, s)
    BY <1>2, <1>3 DEF WState, Live
  <2>2. Len(With(g)) = Len(stack) /\ \A i \in 1 .. Len(stack) : With(g)[i] = IF i = Len(stack) THEN g ELSE stack[i]
    BY <1>2, <1>8, WithProps
  <2>3. Len(stack) \in Nat \ {0} /\ Len(stack) \in 1 .. Len(stack)
    BY <1>2, StackProps
  <2>4. Depth(With(g)) = Len(stack) - 1 /\ Depth(stack) = Len(stack) - 1
    BY <1>1, <1>8, <2>2, <2>3 DEF Depth, Top
  <2>5. Len(s) = Len(stack) - 2
    BY <2>1, <2>3, <2>4 DEF View
  <2>6. ASSUME NEW i \in 1 .. Len(s) PROVE Shows(With(g)[i + 1], s[i])
    <3>1. i + 1 \in 1 .. Len(stack) /\ i + 1 # Len(stack)
      BY <2>3, <2>5
    <3>2. With(g)[i + 1] = stack[i + 1]
      BY <2>2, <3>1
    <3>3. QED BY <2>1, <3>2 DEF View
  <2>7. ASSUME NEW i \in 1 .. Len(With(g)) - 1 PROVE ~With(g)[i].due
    <3>1. i \in 1 .. Len(stack) /\ i # Len(stack) /\ i \in 1 .. Len(stack) - 1
      BY <2>2, <2>3
    <3>2. With(g)[i] = stack[i]
      BY <2>2, <3>1
    <3>3. QED BY <2>1, <3>1, <3>2 DEF View
  <2>8. Len(s) = Depth(With(g)) - 1
    BY <2>3, <2>4, <2>5
  <2>9. View(With(g), s)
    BY <2>6, <2>7, <2>8 DEF View
  <2>10. QED BY <1>1, <1>7, <2>9
<1>12. Missing' = Top.left - 1
  BY <1>1, <1>10
<1>13. QED BY <1>1, <1>2, <1>3, <1>5, <1>6, <1>10, <1>11, <1>12, BlobToken

LEMMA BlobRawMoves ==
  ASSUME NEW at, NEW sh, Ready(at, sh), blob_raw
  PROVE  Moves
<1>. DEFINE tok == [tag |-> "(raw)", declared |-> U32(Len(Blob)), raw |-> Blob]
<1>1. /\ Top.kind = "binary" /\ Top.left = 1 /\ stack' = Closed /\ Emit(tok, Len(wrote))
      /\ wrote' = wrote /\ file' = file /\ result' = "run"
  BY DEF blob_raw, InBlob
<1>2. TypeOK /\ StackOK /\ result = "run" /\ WState(at, sh) /\ Len(wrote) \in Nat
  BY ReadyFacts
<1>3. PICK s : s = sh[Len(wrote)]
  OBVIOUS
<1>4. Blob \in Blobs /\ Len(stack) >= 2
  BY <1>1, <1>2, BlobIsLast
<1>5. tok.tag = "(raw)" /\ tok.raw = Blob /\ tok.declared = U32(Len(Blob))
  OBVIOUS
<1>6. Len(Blob) \in Nat
  BY <1>4, CBlobsAssumption DEF CBlobsAssumption
<1>7. tok \in CToken
  <2>1. U32(Len(Blob)) \in Nat
    <3>1. \A i \in 0 .. Word - 1 : i \in Nat
      BY WordAssumption DEF WordAssumption
    <3>2. QED BY <1>6, <3>1, U32Props
  <2>2. tok \in [tag : {"(raw)"}, declared : Nat, raw : Blobs]
    BY <1>4, <2>1
  <2>. HIDE DEF tok
  <2>3. QED BY <2>2 DEF CToken
<1>8. tok.tag \notin CompactDefs
  BY <1>5 DEF CompactDefs, Latin1Defs, Utf32Defs
<1>9. BlobFills(wrote[Len(wrote)], tok, 3 - Top.left)
  <2>1. 3 - Top.left = 2
    BY <1>1
  <2>2. QED BY <2>1 DEF BlobFills, Blob
<1>. HIDE DEF tok
<1>10. Size(tok) \in Nat \ {0}
  <2>1. Size(tok) = 4 + Len(tok.raw)
    BY <1>5, SizeOf
  <2>2. QED BY <1>5, <1>6, <2>1
<1>11. Laid(at, sh) /\ View(stack, s)
  BY <1>2, <1>3 DEF WState, Live
<1>12. s \in Seq(OpenFrame)
  BY <1>2, <1>3, <1>11, LaidLast
<1>13. View(Closed, s)
  BY <1>1, <1>2, <1>4, <1>11, <1>12, ViewClosed
<1>14. Missing' = 0 /\ (Settled' => s = <<>>)
  BY <1>1, <1>2, <1>4, <1>11, <1>12, <1>13, ClosedTop
<1>15. View(stack', s) /\ Missing' = Top.left - 1
  BY <1>1, <1>13, <1>14
<1>16. QED BY <1>1, <1>2, <1>3, <1>7, <1>8, <1>9, <1>10, <1>14, <1>15, BlobToken

(* A patch marks the place that comes next.                                *)
LEMMA PatchMarks ==
  ASSUME TypeOK, NEW o, patch_u32(o, len), bytes' = bytes, len' = len, NEW p, p = Len(bytes) + 1
  PROVE  MarkedAt(o, p)'
<1>1. Len(bytes) \in Nat
  BY BytesTyped
<1>2. Start(p)' = len
  <2>1. ~(p <= Len(bytes'))
    BY <1>1
  <2>2. QED BY <2>1 DEF Start
<1>3. o \in DOMAIN words' /\ words'[o] = len
  BY DEF patch_u32, Mutated
<1>4. QED BY <1>2, <1>3 DEF MarkedAt

(* What is open in an array or an object, seen from its frame.             *)
LEMMA OpenTop ==
  ASSUME TypeOK, StackOK, NEW s \in Seq(OpenFrame), View(stack, s), Top.kind \in {"array", "object"}, ~Top.due
  PROVE  /\ s # <<>> /\ Last1(s) \in OpenFrame /\ Len(stack) >= 2 /\ Top \in FrameSet
         /\ Last1(s).kind = Top.kind
         /\ Top.kind = "array" => Last1(s).count = Top.count /\ Last1(s).left = Top.left /\ Last1(s).slot = Top.slot
         /\ Top.kind = "object" => Last1(s).left = 0 /\ (Top.slot # 0 => Last1(s).slot = Top.slot)
<1>1. Len(stack) >= 2 /\ Top \in FrameSet
  BY DocAlone, StackProps
<1>2. s # <<>> /\ Top.kind # "binary"
  <2>0. Top.kind # "binary"
    OBVIOUS
  <2>1. s = <<>> => Len(stack) = 1
    BY <2>0, ViewTop
  <2>2. \A n : n >= 2 => n # 1
    OBVIOUS
  <2>3. QED BY <1>1, <2>0, <2>1, <2>2, Zenon
<1>3. Last1(s) \in OpenFrame /\ Shows(Top, Last1(s))
  BY <1>2, ViewTop, LastTyped
<1>4. Top.left \in Nat
  BY <1>1 DEF FrameSet
<1>5. Top.kind = "array" => Last1(s).left = Top.left
  BY <1>3, <1>4 DEF Shows
<1>6. QED BY <1>1, <1>2, <1>3, <1>5 DEF Shows

LEMMA ElementMoves ==
  ASSUME NEW at, NEW sh, Ready(at, sh), element_offset, result' = "run"
  PROVE  Moves
<1>1. /\ Top.kind = "array" /\ ~Top.due /\ Top.left > 0
      /\ patch_u32(Top.slot + 4 * (Top.count - Top.left), len)
      /\ stack' = With([Top EXCEPT !.left = @ - 1, !.due = TRUE])
      /\ bytes' = bytes /\ len' = len /\ wrote' = wrote /\ file' = file
  BY DEF element_offset, InArray, position_u32_fails, Abort
<1>2. /\ TypeOK /\ StackOK /\ Lined /\ WordsGrow /\ result = "run" /\ WState(at, sh) /\ Len(wrote) \in Nat
      /\ Len(bytes) \in Nat
  BY ReadyFacts
<1>3. PICK s, p : s = sh[Len(wrote)] /\ p = at[Len(wrote)]
  OBVIOUS
<1>4. Top.kind # "binary"
  BY <1>1
<1>5. p = Len(bytes) + 1 /\ s \in Seq(OpenFrame) /\ View(stack, s)
  BY <1>2, <1>3, <1>4, LiveNow
<1>6. /\ s # <<>> /\ Top \in FrameSet /\ Last1(s).kind = "array" /\ Last1(s).count = Top.count
      /\ Last1(s).left = Top.left /\ Last1(s).slot = Top.slot
  BY <1>1, <1>2, <1>5, OpenTop
<1>7. PICK g : g = [Top EXCEPT !.left = @ - 1, !.due = TRUE]
  OBVIOUS
<1>8. /\ g \in FrameSet /\ g.kind = "array" /\ g.count = Top.count /\ g.slot = Top.slot /\ g.due
      /\ g.left = Top.left - 1 /\ Top.left \in Nat
  <2>1. Top.left \in Nat /\ Top.left - 1 \in Nat
    BY <1>1, <1>6 DEF FrameSet
  <2>2. QED BY <1>1, <1>6, <1>7, <2>1 DEF FrameSet
<1>9. Shows(g, Last1(s))
  <2>1. Last1(s).left = g.left + 1
    BY <1>6, <1>8
  <2>2. QED BY <1>6, <1>8, <2>1 DEF Shows
<1>10. View(stack', s)
  <2>1. g.kind # "binary"
    BY <1>8
  <2>2. View(With(g), s)
    BY <1>2, <1>4, <1>5, <1>6, <1>8, <1>9, <2>1, ViewWith
  <2>3. QED BY <1>1, <1>7, <2>2
<1>11. Missing' = 0
  <2>1. Top' = g
    BY <1>1, <1>2, <1>7, <1>8, TopWith
  <2>2. QED BY <1>8, <2>1 DEF Missing
<1>12. Marked(s, p)'
  <2>1. PICK o : o = Top.slot + 4 * (Top.count - Top.left)
    OBVIOUS
  <2>2. MarkedAt(o, p)'
    BY <1>1, <1>2, <1>5, <2>1, PatchMarks
  <2>3. o = Last1(s).slot + 4 * (Last1(s).count - Last1(s).left)
    BY <1>6, <2>1
  <2>4. MarkedAt(Last1(s).slot + 4 * (Last1(s).count - Last1(s).left), p)'
    BY <2>2, <2>3
  <2>5. QED BY <1>6, <2>4 DEF Marked
<1>13. Stable /\ Lined'
  BY <1>1, <1>2, QuietStable
<1>14. p = Len(bytes') + 1 + Missing' /\ Len(bytes') <= Len(bytes) + 1 /\ Len(bytes') # Len(bytes) + 1
  BY <1>1, <1>2, <1>5, <1>11
<1>15. ~(Missing' > 0)
  BY <1>11
<1>16. result' = "run"
  OBVIOUS
<1>17. QED BY <1>1, <1>3, <1>10, <1>12, <1>13, <1>14, <1>15, <1>16, SameStep

LEMMA ValueOffsetMoves ==
  ASSUME NEW at, NEW sh, Ready(at, sh), value_offset, result' = "run"
  PROVE  Moves
<1>1. /\ Top.kind = "object" /\ ~Top.due /\ Top.slot # 0
      /\ patch_u32(Top.slot, len) /\ stack' = With([Top EXCEPT !.slot = 0])
      /\ bytes' = bytes /\ len' = len /\ wrote' = wrote /\ file' = file
  BY DEF value_offset, position_u32_fails, Abort
<1>2. /\ TypeOK /\ StackOK /\ Lined /\ WordsGrow /\ result = "run" /\ WState(at, sh) /\ Len(wrote) \in Nat
      /\ Len(bytes) \in Nat
  BY ReadyFacts
<1>3. PICK s, p : s = sh[Len(wrote)] /\ p = at[Len(wrote)]
  OBVIOUS
<1>4. Top.kind # "binary"
  BY <1>1
<1>5. p = Len(bytes) + 1 /\ s \in Seq(OpenFrame) /\ View(stack, s)
  BY <1>2, <1>3, <1>4, LiveNow
<1>6. s # <<>> /\ Top \in FrameSet /\ Last1(s).kind = "object" /\ Last1(s).left = 0 /\ Last1(s).slot = Top.slot
  BY <1>1, <1>2, <1>5, OpenTop
<1>7. PICK g : g = [Top EXCEPT !.slot = 0]
  OBVIOUS
<1>8. g \in FrameSet /\ g.kind = "object" /\ g.slot = 0 /\ ~g.due
  BY <1>1, <1>6, <1>7 DEF FrameSet
<1>9. Shows(g, Last1(s))
  BY <1>6, <1>8 DEF Shows
<1>10. View(stack', s)
  <2>1. g.kind # "binary"
    BY <1>8
  <2>2. View(With(g), s)
    BY <1>2, <1>4, <1>5, <1>6, <1>8, <1>9, <2>1, ViewWith
  <2>3. QED BY <1>1, <1>7, <2>2
<1>11. Missing' = 0
  <2>1. Top' = g
    BY <1>1, <1>2, <1>7, <1>8, TopWith
  <2>2. QED BY <1>8, <2>1 DEF Missing
<1>12. Marked(s, p)'
  <2>1. PICK o : o = Top.slot
    OBVIOUS
  <2>2. MarkedAt(o, p)'
    BY <1>1, <1>2, <1>5, <2>1, PatchMarks
  <2>3. MarkedAt(Last1(s).slot, p)'
    BY <1>6, <2>1, <2>2
  <2>4. QED BY <1>6, <2>3 DEF Marked
<1>13. Stable /\ Lined'
  BY <1>1, <1>2, QuietStable
<1>14. p = Len(bytes') + 1 + Missing' /\ Len(bytes') <= Len(bytes) + 1 /\ Len(bytes') # Len(bytes) + 1
  BY <1>1, <1>2, <1>5, <1>11
<1>15. ~(Missing' > 0)
  BY <1>11
<1>16. result' = "run"
  OBVIOUS
<1>17. QED BY <1>1, <1>3, <1>10, <1>12, <1>13, <1>14, <1>15, <1>16, SameStep

(* The end of a container.                                                 *)
LEMMA EndStep ==
  ASSUME NEW at, NEW sh, Ready(at, sh), Stable, Lined', Top.kind \in {"array", "object"}, ~Top.due,
         Top.left = 0 \/ Top.kind = "object",
         result' = "run", file' = file, stack' = Closed, NEW c \in Part, c.kind = "end", c.of = Top.kind, Recorded(c),
         Len(bytes') = Len(bytes) + Weight(c),
         Weight(c) > 0 => Fills(c, bytes'[Len(bytes) + 1].tok, 0) /\ bytes'[Len(bytes) + 1].of = Len(wrote) + 1,
         NEW s, s = sh[Len(wrote)], NEW p, p = at[Len(wrote)], Marked(s, p)'
  PROVE  Moves
<1>1. /\ TypeOK /\ StackOK /\ Lined /\ result = "run" /\ file = <<>> /\ WState(at, sh) /\ Len(wrote) \in Nat
      /\ Len(bytes) \in Nat
  BY ReadyFacts
<1>2. Top.kind # "binary"
  OBVIOUS
<1>3. /\ p = Len(bytes) + 1 /\ s \in Seq(OpenFrame) /\ View(stack, s) /\ Laid(at, sh) /\ Marks(at, sh)
  BY <1>1, <1>2, LiveNow
<1>4. /\ s # <<>> /\ Last1(s) \in OpenFrame /\ Len(stack) >= 2 /\ Last1(s).kind = Top.kind
      /\ Top.kind = "array" => Last1(s).left = Top.left
      /\ Top.kind = "object" => Last1(s).left = 0
  BY <1>1, <1>3, OpenTop
<1>5. PICK t : t = SubSeq(s, 1, Len(s) - 1)
  OBVIOUS
<1>6. t \in Seq(OpenFrame)
  BY <1>3, <1>4, <1>5, CutProps
<1>7. View(Closed, t)
  <2>1. Top.kind # "binary"
    OBVIOUS
  <2>2. View(Closed, SubSeq(s, 1, Len(s) - 1))
    BY <1>1, <1>3, <1>4, <2>1, ViewClosed
  <2>3. QED BY <1>5, <2>2
<1>8. Missing' = 0 /\ (Settled' => t = <<>>)
  BY <1>1, <1>3, <1>4, <1>6, <1>7, ClosedTop
<1>9. PICK w : w = Weight(c) /\ w \in {0, 1}
  <2>1. Weight(c) \in {0, 1, 3} /\ (Weight(c) = 3 => c.kind = "binary")
    BY WeightIs
  <2>2. QED BY <2>1
<1>10. Legal(Len(wrote) + 1, s, c)
  BY <1>4 DEF Legal
<1>11. t = Grown(s, c, bytes'[p])
  BY <1>5, GrownIs
<1>12. Weight(c) > 0 => /\ Len(bytes') = Len(bytes) + 1
                        /\ Fills(c, bytes'[p].tok, 0) /\ bytes'[p].of = Len(wrote) + 1
  <2>1. Weight(c) > 0 => Weight(c) = 1
    BY <1>9
  <2>2. QED BY <1>3, <2>1
<1>13. Len(bytes') <= Len(bytes) + 1
  BY <1>1, <1>9
<1>14. Marked(s, p)'
  OBVIOUS
<1>15. Records(c, at, sh, p, s, t)
  BY <1>3, <1>6, <1>10, <1>11, <1>12, <1>13, <1>14 DEF Records
<1>16. PICK q : q = p + Weight(c)
  OBVIOUS
<1>17. q = Len(bytes') + 1 + Missing'
  <2>1. Len(bytes') = Len(bytes) + w /\ q = Len(bytes) + 1 + w
    BY <1>3, <1>9, <1>16
  <2>2. \A n \in Nat : n + 1 + w = (n + w) + 1 + 0
    BY <1>9
  <2>3. QED BY <1>1, <1>8, <2>1, <2>2
<1>18. Settled' => Marked(t, q)'
  BY <1>8 DEF Marked
<1>19. View(stack', t) /\ ~(Missing' > 0) /\ file' = <<>>
  BY <1>1, <1>7, <1>8
<1>20. \E a, f : WState(a, f)'
  BY <1>1, <1>15, <1>16, <1>17, <1>18, <1>19, RecordStep
<1>21. QED BY <1>20 DEF Moves

LEMMA EndArrayMoves ==
  ASSUME NEW at, NEW sh, Ready(at, sh), end_array, result' = "run"
  PROVE  Moves
<1>1. /\ Top.kind = "array" /\ ~Top.due /\ Top.left = 0
      /\ patch_u32(Top.slot + 4 * Top.count, len) /\ stack' = Closed
      /\ Recorded([kind |-> "end", of |-> "array"])
      /\ bytes' = bytes /\ len' = len /\ file' = file
  BY DEF end_array, InArray, position_u32_fails, Abort, Recorded
<1>2. /\ TypeOK /\ StackOK /\ Lined /\ WordsGrow /\ result = "run" /\ WState(at, sh) /\ Len(wrote) \in Nat
      /\ Len(bytes) \in Nat
  BY ReadyFacts
<1>3. PICK s : s = sh[Len(wrote)]
  OBVIOUS
<1>4. s \in Seq(OpenFrame) /\ View(stack, s)
  BY <1>1, <1>2, <1>3, LiveNow
<1>5. /\ s # <<>> /\ Top \in FrameSet /\ Last1(s).kind = "array" /\ Last1(s).count = Top.count
      /\ Last1(s).left = Top.left /\ Last1(s).slot = Top.slot
  BY <1>1, <1>2, <1>4, OpenTop
<1>6. PICK p : p = at[Len(wrote)] /\ p = Len(bytes) + 1
  BY <1>1, <1>2, <1>3, LiveNow
<1>7. PICK o : o = Top.slot + 4 * Top.count
  OBVIOUS
<1>8. MarkedAt(o, p)'
  BY <1>1, <1>2, <1>6, <1>7, PatchMarks
<1>9. o = Last1(s).slot + 4 * (Last1(s).count - Last1(s).left)
  <2>1. Top.count \in Nat
    BY <1>5 DEF FrameSet
  <2>2. Top.count - 0 = Top.count
    BY <2>1
  <2>3. QED BY <1>1, <1>5, <1>7, <2>2
<1>10. MarkedAt(Last1(s).slot + 4 * (Last1(s).count - Last1(s).left), p)'
  BY <1>8, <1>9
<1>11. Marked(s, p)'
  BY <1>5, <1>10 DEF Marked
<1>12. Stable /\ Lined'
  BY <1>1, <1>2, QuietStable
<1>13. PICK c : c = [kind |-> "end", of |-> "array"]
  OBVIOUS
<1>14. c \in Part /\ c.kind = "end" /\ c.of = "array" /\ Recorded(c)
  BY <1>1, <1>13, PartKinds
<1>15. Weight(c) = 0
  BY <1>14, WeightIs
<1>16. Len(bytes') = Len(bytes) + Weight(c) /\ ~(Weight(c) > 0)
  BY <1>1, <1>2, <1>15
<1>17. result' = "run"
  OBVIOUS
<1>18. QED BY <1>1, <1>3, <1>6, <1>11, <1>12, <1>14, <1>16, <1>17, EndStep

LEMMA EndObjectMoves ==
  ASSUME NEW at, NEW sh, Ready(at, sh), end_object
  PROVE  Moves
<1>1. /\ Top.kind = "object" /\ ~Top.due /\ Top.slot = 0 /\ stack' = Closed
      /\ Emit([tag |-> "ObjectEnd"], Len(wrote) + 1)
      /\ Recorded([kind |-> "end", of |-> "object"]) /\ file' = file /\ result' = "run"
  BY DEF end_object, KeyDue, Recorded
<1>2. /\ TypeOK /\ StackOK /\ Lined /\ WordsGrow /\ result = "run" /\ WState(at, sh) /\ Len(wrote) + 1 \in Nat
      /\ Len(bytes) \in Nat
  BY ReadyFacts
<1>3. PICK tok : tok = [tag |-> "ObjectEnd"]
  OBVIOUS
<1>4. tok \in CToken /\ Size(tok) \in Nat \ {0} /\ tok.tag \notin CompactDefs /\ Emit(tok, Len(wrote) + 1)
  <2>1. tok.tag = "ObjectEnd"
    BY <1>3
  <2>2. tok \in CToken
    BY <1>3 DEF CToken
  <2>3. Size(tok) = 1
    BY <2>1, SizeOf
  <2>4. QED BY <1>1, <1>3, <2>1, <2>2, <2>3 DEF CompactDefs, Latin1Defs, Utf32Defs
<1>5. /\ Stable /\ Lined' /\ Len(bytes') = Len(bytes) + 1
      /\ bytes'[Len(bytes) + 1] = [at |-> len, tok |-> tok, of |-> Len(wrote) + 1]
  BY <1>2, <1>4, EmitStable
<1>6. PICK s : s = sh[Len(wrote)]
  OBVIOUS
<1>7. PICK p : p = at[Len(wrote)]
  OBVIOUS
<1>8. Settled /\ Top.kind # "binary"
  BY <1>1 DEF Settled
<1>9. p = Len(bytes) + 1 /\ p \in 2 .. Len(bytes) + 1 /\ Marked(s, p)
  BY <1>2, <1>6, <1>7, <1>8, LiveNow
<1>10. Marked(s, p)'
  BY <1>2, <1>5, <1>9, MarkedKept
<1>11. PICK c : c = [kind |-> "end", of |-> "object"]
  OBVIOUS
<1>12. c \in Part /\ c.kind = "end" /\ c.of = "object" /\ Recorded(c)
  BY <1>1, <1>11, PartKinds
<1>13. Weight(c) = 1
  BY <1>12, WeightIs
<1>14. Len(bytes') = Len(bytes) + Weight(c)
  BY <1>5, <1>13
<1>15. Fills(c, tok, 0)
  BY <1>3, <1>12 DEF Fills
<1>16. Fills(c, bytes'[Len(bytes) + 1].tok, 0) /\ bytes'[Len(bytes) + 1].of = Len(wrote) + 1
  BY <1>5, <1>15
<1>17. QED BY <1>1, <1>5, <1>6, <1>7, <1>10, <1>12, <1>14, <1>16, EndStep

LEMMA KeyMoves ==
  ASSUME NEW at, NEW sh, Ready(at, sh), NEW k \in Strings, write_key(k), result' = "run"
  PROVE  Moves
<1>1. /\ Top.kind = "object" /\ ~Top.due /\ Top.slot = 0 /\ Top.left > 0
      /\ write_compact_string(k, Wide(k), TRUE, Len(wrote) + 1)
      /\ stack' = With([Top EXCEPT !.left = @ - 1, !.due = TRUE, !.slot = len' - 4])
      /\ Recorded([kind |-> "key", str |-> k]) /\ file' = file
  BY DEF write_key, KeyDue, Recorded, string_fails, Abort
<1>2. /\ TypeOK /\ StackOK /\ Lined /\ WordsGrow /\ result = "run" /\ file = <<>> /\ WState(at, sh)
      /\ Len(wrote) \in Nat /\ Len(wrote) + 1 \in Nat /\ Len(bytes) \in Nat /\ len \in Nat
  BY ReadyFacts
<1>3. k \in Texts /\ Wide(k) \in BOOLEAN
  BY DEF Texts, Wide
<1>4. PICK tok \in CToken : /\ Emit(tok, Len(wrote) + 1) /\ Size(tok) \in Nat \ {0} /\ Size(tok) >= 9
                            /\ tok.tag \in {DefTag(Wide(k), TRUE), RefTag(Wide(k), TRUE)}
                            /\ tok.tag \in CompactDefs => len + 5 < Word
  BY <1>1, <1>2, <1>3, StringToken
<1>5. /\ Stable /\ Lined' /\ Len(bytes') = Len(bytes) + 1
      /\ bytes'[Len(bytes) + 1] = [at |-> len, tok |-> tok, of |-> Len(wrote) + 1]
  BY <1>2, <1>4, EmitStable
<1>6. PICK s, p : s = sh[Len(wrote)] /\ p = at[Len(wrote)]
  OBVIOUS
<1>7. Settled /\ Top.kind # "binary"
  BY <1>1 DEF Settled
<1>8. /\ p = Len(bytes) + 1 /\ p \in 2 .. Len(bytes) + 1 /\ Marked(s, p) /\ s \in Seq(OpenFrame) /\ View(stack, s)
      /\ Laid(at, sh) /\ Marks(at, sh)
  BY <1>2, <1>6, <1>7, LiveNow
<1>9. Marked(s, p)'
  BY <1>2, <1>5, <1>8, MarkedKept
<1>10. s # <<>> /\ Top \in FrameSet /\ Last1(s).kind = "object" /\ Last1(s).left = 0
  BY <1>1, <1>2, <1>8, OpenTop
<1>11. PICK c : c = [kind |-> "key", str |-> k]
  OBVIOUS
<1>12. c \in Part /\ c.kind = "key" /\ c.str = k /\ Recorded(c)
  BY <1>1, <1>11, PartKinds
<1>13. Weight(c) = 1
  BY <1>12, WeightIs
<1>14. Fills(c, tok, 0)
  BY <1>4, <1>12 DEF Fills
<1>15. Legal(Len(wrote) + 1, s, c)
  BY <1>10, <1>12 DEF Legal
<1>16. PICK o : o = len + Size(tok) - 4
  OBVIOUS
<1>17. o \in Nat /\ o = len' - 4
  <2>1. len' = len + Size(tok)
    BY <1>4 DEF Emit
  <2>2. PICK z : z = Size(tok)
    OBVIOUS
  <2>3. z \in Nat /\ z >= 9
    BY <1>4, <2>2
  <2>4. len + z - 4 \in Nat
    BY <1>2, <2>3
  <2>5. o = len + z - 4
    BY <1>16, <2>2
  <2>6. len' = len + z
    BY <2>1, <2>2
  <2>7. len' - 4 = len + z - 4
    BY <1>2, <2>3, <2>6
  <2>8. QED BY <2>4, <2>5, <2>7
<1>18. PICK t : t = Keyed(s, o)
  OBVIOUS
<1>19. /\ t \in Seq(OpenFrame) /\ Len(t) = Len(s) /\ t # <<>> /\ Last1(t).kind = "object" /\ Last1(t).left = 1
       /\ Last1(t).slot = o /\ \A i \in 1 .. Len(s) : i # Len(s) => t[i] = s[i]
  BY <1>8, <1>10, <1>17, <1>18, KeyedProps
<1>20. t = Grown(s, c, bytes'[p])
  <2>1. bytes'[p].at = len /\ bytes'[p].tok = tok
    BY <1>5, <1>8
  <2>2. Grown(s, c, bytes'[p]) = Keyed(s, bytes'[p].at + Size(bytes'[p].tok) - 4)
    BY <1>12, GrownIs
  <2>3. QED BY <1>16, <1>18, <2>1, <2>2
<1>21. PICK g : g = [Top EXCEPT !.left = @ - 1, !.due = TRUE, !.slot = o]
  OBVIOUS
<1>22. g \in FrameSet /\ g.kind = "object" /\ g.due /\ g.slot = o
  <2>1. Top.left - 1 \in Nat
    <3>1. Top.left \in Nat
      BY <1>10 DEF FrameSet
    <3>2. QED BY <1>1, <3>1
  <2>2. QED BY <1>1, <1>10, <1>17, <1>21, <2>1 DEF FrameSet
<1>23. stack' = With(g)
  BY <1>1, <1>17, <1>21
<1>24. Shows(g, Last1(t))
  BY <1>19, <1>22 DEF Shows
<1>25. View(stack', t)
  <2>1. g.kind # "binary"
    BY <1>22
  <2>2. View(With(g), t)
    BY <1>2, <1>7, <1>8, <1>10, <1>19, <1>22, <1>24, <2>1, ViewWith
  <2>3. QED BY <1>23, <2>2
<1>26. Missing' = 0
  <2>1. Top' = g
    BY <1>2, <1>22, <1>23, TopWith
  <2>2. QED BY <1>22, <2>1 DEF Missing
<1>27. Weight(c) > 0 => /\ Len(bytes') = Len(bytes) + 1
                        /\ Fills(c, bytes'[p].tok, 0) /\ bytes'[p].of = Len(wrote) + 1
  BY <1>5, <1>8, <1>14
<1>28. Len(bytes') <= Len(bytes) + 1
  BY <1>2, <1>5
<1>29. Records(c, at, sh, p, s, t)
  BY <1>6, <1>8, <1>9, <1>12, <1>15, <1>19, <1>20, <1>27, <1>28 DEF Records
<1>30. PICK q : q = p + Weight(c)
  OBVIOUS
<1>31. q = Len(bytes') + 1 + Missing'
  BY <1>2, <1>5, <1>8, <1>13, <1>26, <1>30
<1>32. Marked(t, q)'
  <2>1. Last1(t).kind # "array" /\ Last1(t).left # 0
    BY <1>19
  <2>2. QED BY <2>1 DEF Marked
<1>33. ~(Missing' > 0) /\ file' = <<>>
  BY <1>1, <1>2, <1>26
<1>34. \E a, f : WState(a, f)'
  BY <1>2, <1>5, <1>25, <1>29, <1>30, <1>31, <1>32, <1>33, RecordStep
<1>35. QED BY <1>5, <1>34 DEF Moves
-----------------------------------------------------------------------------
(* The steps inside the value either go on or end in an error.             *)
Within == \/ \E v \in Scalars : write_scalar(v)
          \/ \E s \in Strings : write_string(s) \/ write_key(s)
          \/ \E b \in Blobs : write_binary_blob(b)
          \/ blob_text \/ blob_raw
          \/ \E n \in 0 .. MaxLen : write_array(n) \/ write_object(n)
          \/ element_offset \/ end_array \/ value_offset \/ end_object
Ends == \E how \in {"err", "panic"} : Abort(how)

LEMMA StringEnds ==
  ASSUME NEW s, NEW wide, string_fails(s, wide)
  PROVE  Ends
BY DEF string_fails, Ends

LEMMA InnerGoesOn ==
  ASSUME Within
  PROVE  result = "run" /\ ((result' = "run" /\ file' = file) \/ Ends)
<1>1. CASE \E v \in Scalars : write_scalar(v)
  BY <1>1 DEF write_scalar, ValueDue
<1>2. CASE \E s \in Strings : write_string(s)
  BY <1>2, StringEnds DEF write_string, ValueDue
<1>3. CASE \E s \in Strings : write_key(s)
  BY <1>3, StringEnds DEF write_key, KeyDue
<1>4. CASE \E b \in Blobs : write_binary_blob(b)
  BY <1>4 DEF write_binary_blob, ValueDue
<1>5. CASE blob_text
  BY <1>5, StringEnds DEF blob_text, InBlob
<1>6. CASE blob_raw
  BY <1>6 DEF blob_raw, InBlob
<1>7. CASE \E n \in 0 .. MaxLen : write_array(n) \/ write_object(n)
  BY <1>7 DEF write_array, write_object, ValueDue
<1>8. position_u32_fails => Ends
  BY DEF position_u32_fails, Ends
<1>9. CASE element_offset
  BY <1>8, <1>9 DEF element_offset, InArray
<1>10. CASE end_array
  BY <1>8, <1>10 DEF end_array, InArray
<1>11. CASE value_offset
  BY <1>8, <1>11 DEF value_offset
<1>12. CASE end_object
  BY <1>12 DEF end_object, KeyDue
<1>13. QED BY <1>1, <1>2, <1>3, <1>4, <1>5, <1>6, <1>7, <1>9, <1>10, <1>11, <1>12 DEF Within

LEMMA InnerMoves ==
  ASSUME NEW at, NEW sh, Ready(at, sh), Within, result' = "run"
  PROVE  Moves
<1>0. result' = "run"
  OBVIOUS
<1>1. CASE \E v \in Scalars : write_scalar(v)
  BY <1>1, ScalarMoves
<1>2. CASE \E s \in Strings : write_string(s)
  BY <1>0, <1>2, StringMoves
<1>3. CASE \E s \in Strings : write_key(s)
  BY <1>0, <1>3, KeyMoves
<1>4. CASE \E b \in Blobs : write_binary_blob(b)
  BY <1>4, BlobMoves
<1>5. CASE blob_text
  BY <1>0, <1>5, BlobTextMoves
<1>6. CASE blob_raw
  BY <1>6, BlobRawMoves
<1>7. CASE \E n \in 0 .. MaxLen : write_array(n)
  BY <1>7, ArrayMoves
<1>8. CASE \E n \in 0 .. MaxLen : write_object(n)
  BY <1>8, ObjectMoves
<1>9. CASE element_offset
  BY <1>0, <1>9, ElementMoves
<1>10. CASE end_array
  BY <1>0, <1>10, EndArrayMoves
<1>11. CASE value_offset
  BY <1>0, <1>11, ValueOffsetMoves
<1>12. CASE end_object
  BY <1>12, EndObjectMoves
<1>13. QED BY <1>1, <1>2, <1>3, <1>4, <1>5, <1>6, <1>7, <1>8, <1>9, <1>10, <1>11, <1>12 DEF Within

LEMMA InnerInOrder ==
  ASSUME IInv, PInv, LInv, CNext, Within, result' = "run", file' = file
  PROVE  LInv'
<1>1. result = "run" /\ file = <<>> /\ Lined /\ Begins /\ WordsGrow /\ TypeOK
  <2>1. result = "run"
    BY InnerGoesOn
  <2>2. file = <<>>
    BY <2>1 DEF LInv, Waits
  <2>3. WordsGrow
    BY StepGrowsWords
  <2>4. QED BY <2>1, <2>2, <2>3 DEF LInv, IInv
<1>2. PICK at, sh : WState(at, sh)
  BY DEF LInv
<1>3. Ready(at, sh)
  BY <1>1, <1>2 DEF Ready
<1>4. Moves
  BY <1>3, InnerMoves
<1>5. Begins'
  <2>1. bytes # <<>> /\ bytes[1].of = 0 /\ bytes[1].tok = [tag |-> "(header)", version |-> "compact"]
    BY <1>1 DEF Begins
  <2>2. 1 \in 1 .. Len(bytes) /\ Len(bytes) \in Nat
    BY <1>1, <2>1, BytesTyped
  <2>3. bytes'[1] = bytes[1] /\ Len(bytes') >= Len(bytes)
    BY <1>4, <2>2 DEF Moves, Stable
  <2>4. bytes' # <<>>
    <3>1. bytes' = <<>> => Len(bytes') = 0
      OBVIOUS
    <3>2. QED BY <2>2, <2>3, <3>1
  <2>5. QED BY <2>1, <2>3, <2>4 DEF Begins
<1>6. Waits'
  BY <1>1 DEF Waits
<1>7. FileIs(0)'
  <2>1. file' = <<>> /\ result' # "ok"
    BY <1>1
  <2>2. 0 \in 0 .. Len(bytes')
    <3>1. Len(bytes') \in Nat
      BY <1>4 DEF Moves, Stable
    <3>2. QED BY <3>1
  <2>3. Len(file') = 0 /\ DOMAIN file' = 1 .. 0
    BY <2>1
  <2>4. QED BY <2>1, <2>2, <2>3 DEF FileIs
<1>8. QED BY <1>4, <1>5, <1>6, <1>7 DEF LInv, Moves

(* A step that leaves the tokens and the parts alone.                      *)
LEMMA QuietOrder ==
  ASSUME IInv, Lined, WordsGrow, NEW at, NEW sh, WState(at, sh), bytes' = bytes, len' = len, wrote' = wrote,
         result' # "run", Done' => Done
  PROVE  Lined' /\ WState(at, sh)'
<1>1. TypeOK
  BY DEF IInv
<1>2. Stable /\ Lined'
  BY <1>1, QuietStable
<1>3. Laid(at, sh) /\ Marks(at, sh)
  BY DEF WState
<1>4. Len(bytes') <= Len(bytes) + 1 /\ Len(bytes') # Len(bytes) + 1
  <2>1. Len(bytes) \in Nat
    BY <1>1, BytesTyped
  <2>2. \A n \in Nat : n <= n + 1 /\ n # n + 1
    OBVIOUS
  <2>3. QED BY <2>1, <2>2
<1>5. Laid(at, sh)' /\ Marks(at, sh)'
  BY <1>1, <1>2, <1>3, <1>4, LaidSame
<1>6. Finished(at, sh) => Finished(at, sh)'
  BY DEF Finished, AllFit
<1>7. Done' => Finished(at, sh)'
  BY <1>6 DEF WState
<1>8. QED BY <1>2, <1>5, <1>7 DEF WState

LEMMA EndsInOrder ==
  ASSUME IInv, PInv, LInv, CNext, result = "run", Ends
  PROVE  LInv'
<1>1. /\ result' \in {"err", "panic"} /\ bytes' = bytes /\ len' = len /\ words' = words /\ file' = file /\ wrote' = wrote
  BY DEF Ends, Abort
<1>2. file = <<>> /\ Lined /\ Begins /\ WordsGrow /\ TypeOK
  BY StepGrowsWords DEF LInv, Waits, IInv
<1>3. PICK at, sh : WState(at, sh)
  BY DEF LInv
<1>4. ~Done'
  BY <1>1, <1>2 DEF Done
<1>5. Lined' /\ WState(at, sh)'
  BY <1>1, <1>2, <1>3, <1>4, QuietOrder
<1>6. Begins' /\ Waits'
  BY <1>1, <1>2 DEF Begins, Waits
<1>7. FileIs(0)'
  <2>1. file' = <<>> /\ result' # "ok"
    BY <1>1, <1>2
  <2>2. 0 \in 0 .. Len(bytes')
    BY <1>1, <1>2, BytesTyped
  <2>3. Len(file') = 0 /\ DOMAIN file' = 1 .. 0
    BY <2>1
  <2>4. QED BY <2>1, <2>2, <2>3 DEF FileIs
<1>8. QED BY <1>5, <1>6, <1>7 DEF LInv

(* What lies where does not change while the writer waits.                 *)
LEMMA StutterKeeps ==
  ASSUME UNCHANGED cvars
  PROVE  /\ \A n : FileIs(n) => FileIs(n)'
         /\ \A at, sh : WState(at, sh) => WState(at, sh)'
<1>1. /\ result' = result /\ stack' = stack /\ bytes' = bytes /\ len' = len /\ words' = words
      /\ file' = file /\ wrote' = wrote
  BY DEF cvars
<1>2. \A n : FileIs(n) => FileIs(n)'
  BY <1>1 DEF FileIs, TokenIn
<1>3. \A at, sh : Laid(at, sh) => Laid(at, sh)'
  <2>1. \A n, c, p, s : PartAt(n, c, p, s) => PartAt(n, c, p, s)'
    BY <1>1 DEF PartAt
  <2>2. QED BY <1>1, <2>1 DEF Laid
<1>4. \A s, p : Marked(s, p) => Marked(s, p)'
  BY <1>1 DEF Marked, MarkedAt, Start
<1>5. \A at, sh : Marks(at, sh) => Marks(at, sh)'
  BY <1>1, <1>4 DEF Marks
<1>6. Missing' = Missing /\ (Settled' <=> Settled)
  BY <1>1 DEF Missing, Settled, Top
<1>7. \A at, sh : Live(at, sh) => Live(at, sh)'
  BY <1>1, <1>4, <1>6 DEF Live
<1>8. \A at, sh : Finished(at, sh) => Finished(at, sh)'
  BY <1>1 DEF Finished, AllFit
<1>9. \A at, sh : WState(at, sh) => WState(at, sh)'
  BY <1>1, <1>3, <1>5, <1>7, <1>8 DEF WState, Done
<1>10. QED BY <1>2, <1>9

LEMMA StutterInOrder ==
  ASSUME LInv, UNCHANGED cvars
  PROVE  LInv'
<1>1. Lined' /\ Begins' /\ Waits'
  BY DEF cvars, LInv, Lined, Begins, Waits, Start
<1>2. QED BY <1>1, StutterKeeps DEF LInv

LEMMA HeaderInOrder ==
  ASSUME IInv, PInv, LInv, CNext, write_header
  PROVE  LInv'
<1>1. /\ result = "new" /\ result' = "run" /\ stack' = stack /\ words' = words /\ file' = file /\ wrote' = wrote
      /\ Emit([tag |-> "(header)", version |-> "compact"], 0)
  BY DEF write_header
<1>2. /\ file = <<>> /\ Lined /\ WordsGrow /\ TypeOK /\ StackOK
      /\ bytes = <<>> /\ wrote = <<>> /\ Len(stack) = 1
  BY <1>1, StepGrowsWords DEF LInv, Waits, Begins, IInv
<1>3. PICK tok : tok = [tag |-> "(header)", version |-> "compact"]
  OBVIOUS
<1>4. tok \in CToken /\ Size(tok) \in Nat \ {0} /\ tok.tag \notin CompactDefs /\ Emit(tok, 0)
  <2>1. tok.tag = "(header)"
    BY <1>3
  <2>2. tok \in CToken
    BY <1>3 DEF CToken
  <2>3. Size(tok) = 8
    BY <2>1, SizeOf
  <2>4. QED BY <1>1, <1>3, <2>1, <2>2, <2>3 DEF CompactDefs, Latin1Defs, Utf32Defs
<1>5. /\ Stable /\ Lined' /\ Len(bytes') = Len(bytes) + 1
      /\ bytes'[Len(bytes) + 1] = [at |-> len, tok |-> tok, of |-> 0]
  <2>1. 0 \in Nat
    OBVIOUS
  <2>2. QED BY <1>2, <1>4, <2>1, EmitStable
<1>6. Len(bytes') = 1 /\ bytes'[1].tok = tok /\ bytes'[1].of = 0
  BY <1>2, <1>5
<1>7. Begins'
  <2>1. bytes' # <<>>
    <3>1. Len(bytes') = 1
      BY <1>6
    <3>2. bytes' = <<>> => Len(bytes') = 0
      OBVIOUS
    <3>3. QED BY <3>1, <3>2
  <2>2. QED BY <1>1, <1>3, <1>6, <2>1 DEF Begins
<1>8. Waits'
  BY <1>1, <1>2 DEF Waits
<1>9. FileIs(0)'
  BY <1>1, <1>2, <1>6 DEF FileIs
<1>10. PICK at, sh : at = [n \in {0} |-> 2] /\ sh = [n \in {0} |-> <<>>]
  OBVIOUS
<1>11. /\ at \in [0 .. 0 -> Nat \ {0, 1}] /\ sh \in [0 .. 0 -> Seq(OpenFrame)] /\ at[0] = 2 /\ sh[0] = <<>>
  <2>1. 0 .. 0 = {0}
    OBVIOUS
  <2>2. 0 \in {0} /\ 2 \in Nat \ {0, 1} /\ <<>> \in Seq(OpenFrame)
    OBVIOUS
  <2>3. at \in [{0} -> Nat \ {0, 1}] /\ sh \in [{0} -> Seq(OpenFrame)] /\ at[0] = 2 /\ sh[0] = <<>>
    BY <1>10, <2>2, Zenon
  <2>4. QED BY <2>1, <2>3
<1>12. Len(wrote') = 0 /\ 1 .. Len(wrote') = {}
  BY <1>1, <1>2
<1>13. Laid(at, sh)' /\ Marks(at, sh)'
  BY <1>11, <1>12 DEF Laid, Marks
<1>14. Top.kind = "doc" /\ Top' = Top
  BY <1>1, <1>2, DocAlone DEF Top
<1>15. View(stack', <<>>)
  <2>1. Depth(stack) = 1
    BY <1>2, <1>14 DEF Depth, Top
  <2>2. Len(<<>>) = 0 /\ 1 .. 0 = {} /\ 1 .. 1 - 1 = {}
    OBVIOUS
  <2>3. QED BY <1>1, <1>2, <2>1, <2>2 DEF View
<1>16. Missing' = 0
  BY <1>14 DEF Missing
<1>17. Live(at, sh)'
  <2>1. sh[Len(wrote')] = <<>> /\ at[Len(wrote')] = 2
    BY <1>11, <1>12
  <2>2. 2 = Len(bytes') + 1 + Missing'
    BY <1>6, <1>16
  <2>3. ~(Missing' > 0)
    BY <1>16
  <2>4. Marked(<<>>, 2)'
    BY DEF Marked
  <2>5. QED BY <1>15, <2>1, <2>2, <2>3, <2>4 DEF Live
<1>18. ~Done'
  BY <1>1, <1>2 DEF Done
<1>19. WState(at, sh)'
  BY <1>13, <1>17, <1>18 DEF WState
<1>20. QED BY <1>5, <1>7, <1>8, <1>9, <1>19 DEF LInv

LEMMA FooterInOrder ==
  ASSUME IInv, PInv, LInv, CNext, write_footer
  PROVE  LInv'
<1>1. /\ result = "run" /\ result' = "sealed" /\ Top.kind = "doc" /\ ~Top.due /\ stack' = stack
      /\ Emit([tag |-> "(footer)"], Len(wrote) + 1) /\ words' = words /\ wrote' = wrote /\ file' = file
  BY DEF write_footer
<1>2. file = <<>> /\ Lined /\ WordsGrow /\ TypeOK /\ StackOK /\ Begins
  BY <1>1, StepGrowsWords DEF LInv, Waits, IInv
<1>3. Len(wrote) + 1 \in Nat /\ Len(bytes) \in Nat
  BY <1>2, WroteTyped, BytesTyped
<1>4. PICK tok : tok = [tag |-> "(footer)"]
  OBVIOUS
<1>5. tok \in CToken /\ Size(tok) \in Nat \ {0} /\ tok.tag \notin CompactDefs /\ Emit(tok, Len(wrote) + 1)
  <2>1. tok.tag = "(footer)"
    BY <1>4
  <2>2. tok \in CToken
    BY <1>4 DEF CToken
  <2>3. Size(tok) = 4
    BY <2>1, SizeOf
  <2>4. QED BY <1>1, <1>4, <2>1, <2>2, <2>3 DEF CompactDefs, Latin1Defs, Utf32Defs
<1>6. /\ Stable /\ Lined' /\ Len(bytes') = Len(bytes) + 1
      /\ bytes'[Len(bytes) + 1] = [at |-> len, tok |-> tok, of |-> Len(wrote) + 1]
  BY <1>2, <1>3, <1>5, EmitStable
<1>7. PICK at, sh : WState(at, sh)
  BY DEF LInv
<1>8. PICK s, p : s = sh[Len(wrote)] /\ p = at[Len(wrote)]
  OBVIOUS
<1>9. /\ p = Len(bytes) + 1 /\ s \in Seq(OpenFrame) /\ View(stack, s) /\ Laid(at, sh) /\ Marks(at, sh)
  <2>1. Top.kind # "binary"
    BY <1>1
  <2>2. QED BY <1>1, <1>2, <1>7, <1>8, <2>1, LiveNow
<1>10. s = <<>>
  <2>1. Len(stack) = 1 /\ Top.kind # "binary"
    BY <1>1, <1>2, DocAlone
  <2>2. Len(s) \in Nat /\ Len(stack) = Len(s) + 1
    BY <1>2, <1>9, <2>1, ViewTop
  <2>3. PICK n : n = Len(s)
    OBVIOUS
  <2>4. n \in Nat /\ 1 = n + 1
    BY <2>1, <2>2, <2>3
  <2>5. Len(s) = 0
    BY <2>3, <2>4
  <2>6. QED BY <1>9, <2>5
<1>11. wrote # <<>> /\ wrote' # <<>>
  <2>1. Top = stack[1]
    BY <1>1, <1>2, DocAlone DEF Top
  <2>2. QED BY <1>1, <1>2, <2>1 DEF StackOK
<1>12. Laid(at, sh)' /\ Marks(at, sh)'
  <2>1. \A k \in 0 .. Weight(wrote[Len(wrote)]) - 1 : ~(at[Len(wrote) - 1] + k = Len(bytes) + 1)
    <3>1. PICK w, o : w = Weight(wrote[Len(wrote)]) /\ o = at[Len(wrote) - 1]
      OBVIOUS
    <3>2. Len(wrote) \in 1 .. Len(wrote)
      BY <1>2, <1>11, WroteTyped
    <3>3. o \in Nat \ {0, 1} /\ p = o + w
      BY <1>2, <1>8, <1>9, <3>1, <3>2, LaidAt
    <3>4. w \in {0, 1, 3}
      BY <3>1, WeightIs
    <3>5. \A k \in 0 .. w - 1 : ~(o + k = p)
      BY <3>3, <3>4
    <3>6. QED BY <1>9, <3>1, <3>5
  <2>2. Len(bytes') <= Len(bytes) + 1
    BY <1>3, <1>6
  <2>3. QED BY <1>1, <1>2, <1>6, <1>9, <2>1, <2>2, LaidSame
<1>13. Finished(at, sh)'
  <2>1. sh[Len(wrote')] = <<>> /\ Len(bytes') = at[Len(wrote')]
    BY <1>1, <1>6, <1>8, <1>9, <1>10
  <2>2. bytes'[Len(bytes')].tok = [tag |-> "(footer)"] /\ bytes'[Len(bytes')].of = Len(wrote') + 1
    BY <1>1, <1>4, <1>6
  <2>3. wrote'[1].kind \in Containers => AllFit'
    <3>1. IInv'
      BY NextOK
    <3>2. QED BY <1>1, <3>1 DEF IInv, FitOK
  <2>4. QED BY <1>11, <2>1, <2>2, <2>3 DEF Finished
<1>14. WState(at, sh)'
  BY <1>1, <1>12, <1>13 DEF WState
<1>15. Begins'
  <2>1. bytes # <<>> /\ bytes[1].of = 0 /\ bytes[1].tok = [tag |-> "(header)", version |-> "compact"]
    BY <1>1, <1>2 DEF Begins
  <2>2. 1 \in 1 .. Len(bytes)
    BY <1>2, <2>1, BytesTyped
  <2>3. bytes'[1] = bytes[1]
    BY <1>6, <2>2 DEF Stable
  <2>4. bytes' # <<>>
    BY <1>3, <1>6
  <2>5. QED BY <1>1, <2>1, <2>3, <2>4 DEF Begins
<1>16. Waits'
  BY <1>1, <1>2 DEF Waits
<1>17. FileIs(0)'
  <2>1. file' = <<>> /\ result' # "ok" /\ Len(file') = 0 /\ DOMAIN file' = 1 .. 0
    BY <1>1, <1>2
  <2>2. 0 \in 0 .. Len(bytes')
    BY <1>3, <1>6
  <2>3. QED BY <2>1, <2>2 DEF FileIs
<1>18. QED BY <1>6, <1>14, <1>15, <1>16, <1>17 DEF LInv

(* A part of a sequence, and the part with one element more.               *)
LEMMA HeadProps ==
  ASSUME NEW T, NEW m \in Nat, NEW s, s \in [1 .. m -> T], NEW n \in Int, n <= m, NEW k, k = IF n < 0 THEN 0 ELSE n, NEW e
  PROVE  /\ k \in 0 .. m
         /\ Len(SubSeq(s, 1, n)) = k /\ \A i \in 1 .. k : SubSeq(s, 1, n)[i] = s[i]
         /\ DOMAIN SubSeq(s, 1, n) = 1 .. k
         /\ LET t == Append(SubSeq(s, 1, n), e)
            IN  DOMAIN t = 1 .. k + 1 /\ Len(t) = k + 1 /\ t[k + 1] = e /\ \A i \in 1 .. k : t[i] = s[i]
OBVIOUS

LEMMA WriteAllInOrder ==
  ASSUME IInv, PInv, LInv, CNext, write_all
  PROVE  LInv'
<1>1. /\ result = "sealed" /\ result' \in {"ok", "err"} /\ bytes' = bytes /\ len' = len /\ words' = words /\ wrote' = wrote
      /\ \/ result' = "ok" /\ file' = Tokens
         \/ /\ result' = "err"
            /\ \E n \in {Len(bytes) - t : t \in Tears} :
                 file' \in {SubSeq(Tokens, 1, n), Append(SubSeq(Tokens, 1, n), [tag |-> "(torn)"])}
  BY DEF write_all
<1>2. /\ Lined /\ WordsGrow /\ TypeOK /\ Begins
  BY <1>1, StepGrowsWords DEF LInv, IInv
<1>3. PICK at, sh : WState(at, sh)
  BY DEF LInv
<1>4. Done
  BY <1>1 DEF Done
<1>5. Lined' /\ WState(at, sh)'
  BY <1>1, <1>2, <1>3, <1>4, QuietOrder
<1>6. Begins' /\ Waits'
  BY <1>1, <1>2 DEF Begins, Waits
<1>7. PICK m : m = Len(bytes)
  OBVIOUS
<1>8. /\ m \in Nat /\ m > 0 /\ DOMAIN Tokens = 1 .. m /\ Len(Tokens) = m
      /\ \A i \in 1 .. m : Tokens[i] = TokenIn(bytes[i])
  <2>1. m \in Nat /\ DOMAIN bytes = 1 .. m /\ bytes # <<>> /\ (bytes = <<>> <=> m = 0)
    BY <1>1, <1>2, <1>7, BytesTyped DEF Begins
  <2>2. Tokens = [i \in 1 .. m |-> TokenIn(bytes[i])]
    BY <2>1 DEF Tokens
  <2>3. Len(Tokens) = m
    BY <2>1, <2>2
  <2>4. QED BY <2>1, <2>2, <2>3
<1>9. \A i \in 1 .. m : Tokens[i] = TokenIn(bytes[i])'
  <2>1. \A i \in 1 .. m : TokenIn(bytes[i])' = TokenIn(bytes[i])
    BY <1>1 DEF TokenIn
  <2>2. QED BY <1>8, <2>1
<1>10. Len(bytes') = m
  BY <1>1, <1>7
<1>11. ASSUME result' = "ok" PROVE \E n \in Nat : FileIs(n)'
  <2>1. file' = Tokens
    BY <1>1, <1>11
  <2>2. Len(file') = m /\ m \in 0 .. m /\ m # m + 1 /\ DOMAIN file' = 1 .. m
    BY <1>8, <2>1
  <2>3. FileIs(m)'
    BY <1>9, <1>10, <1>11, <2>1, <2>2 DEF FileIs
  <2>4. QED BY <1>8, <2>3
<1>12. ASSUME result' = "err" PROVE \E n \in Nat : FileIs(n)'
  <2>1. PICK t \in Tears : file' \in {SubSeq(Tokens, 1, m - t), Append(SubSeq(Tokens, 1, m - t), [tag |-> "(torn)"])}
    BY <1>1, <1>7, <1>12
  <2>2. t \in Nat \ {0}
    BY TearsAssumption DEF TearsAssumption
  <2>3. PICK n, k : n = m - t /\ k = IF n < 0 THEN 0 ELSE n
    OBVIOUS
  <2>4. n \in Int /\ n <= m /\ k \in Nat /\ (k = 0 \/ k < m)
    BY <1>8, <2>2, <2>3
  <2>5. PICK g : g = Tokens
    OBVIOUS
  <2>6. PICK T : T = {g[i] : i \in 1 .. m}
    OBVIOUS
  <2>7. g \in [1 .. m -> T]
    <3>1. g = [i \in 1 .. m |-> g[i]]
      <4>1. DOMAIN bytes = 1 .. m
        BY <1>2, <1>7, BytesTyped
      <4>2. g = [i \in 1 .. m |-> TokenIn(bytes[i])]
        BY <2>5, <4>1 DEF Tokens
      <4>3. QED BY <4>2
    <3>2. QED BY <2>6, <3>1
  <2>8. PICK e : e = [tag |-> "(torn)"]
    OBVIOUS
  <2>9. /\ k \in 0 .. m
        /\ Len(SubSeq(g, 1, n)) = k /\ \A i \in 1 .. k : SubSeq(g, 1, n)[i] = g[i]
        /\ DOMAIN SubSeq(g, 1, n) = 1 .. k
        /\ LET q == Append(SubSeq(g, 1, n), e)
           IN  DOMAIN q = 1 .. k + 1 /\ Len(q) = k + 1 /\ q[k + 1] = e /\ \A i \in 1 .. k : q[i] = g[i]
    BY <1>8, <2>3, <2>4, <2>7, HeadProps
  <2>10. /\ Len(file') \in {k, k + 1} /\ \A i \in 1 .. k : file'[i] = g[i]
         /\ Len(file') = k + 1 => file'[k + 1] = e
         /\ DOMAIN file' = 1 .. Len(file')
    <3>1. CASE file' = SubSeq(g, 1, n)
      <4>1. k # k + 1
        BY <2>4
      <4>2. QED BY <2>9, <3>1, <4>1
    <3>2. CASE file' = Append(SubSeq(g, 1, n), e)
      BY <2>9, <3>2
    <3>3. QED BY <2>1, <2>3, <2>5, <2>8, <3>1, <3>2
  <2>11. \A i \in 1 .. k : file'[i] = TokenIn(bytes[i])'
    <3>1. \A i \in 1 .. k : i \in 1 .. m
      BY <1>8, <2>9
    <3>2. QED BY <1>9, <2>5, <2>10, <3>1
  <2>12. FileIs(k)'
    BY <1>10, <1>12, <2>4, <2>8, <2>9, <2>10, <2>11 DEF FileIs
  <2>13. QED BY <2>4, <2>12
<1>13. QED BY <1>1, <1>5, <1>6, <1>11, <1>12 DEF LInv

LEMMA InitInOrder == CInit => LInv
<1>. SUFFICES ASSUME CInit PROVE LInv
  OBVIOUS
<1>1. result = "new" /\ bytes = <<>> /\ len = 0 /\ file = <<>> /\ wrote = <<>> /\ Len(stack) = 1
  BY DEF CInit
<1>2. Len(bytes) = 0 /\ 1 .. Len(bytes) = {} /\ Len(wrote) = 0 /\ 1 .. Len(wrote) = {} /\ Len(file) = 0
  BY <1>1
<1>3. Lined /\ Begins /\ Waits /\ FileIs(0)
  BY <1>1, <1>2 DEF Lined, Begins, Waits, FileIs
<1>4. PICK at, sh : at = [n \in {0} |-> 2] /\ sh = [n \in {0} |-> <<>>]
  OBVIOUS
<1>5. /\ at \in [0 .. 0 -> Nat \ {0, 1}] /\ sh \in [0 .. 0 -> Seq(OpenFrame)] /\ at[0] = 2 /\ sh[0] = <<>>
  <2>1. 0 .. 0 = {0}
    OBVIOUS
  <2>2. 0 \in {0} /\ 2 \in Nat \ {0, 1} /\ <<>> \in Seq(OpenFrame)
    OBVIOUS
  <2>3. at \in [{0} -> Nat \ {0, 1}] /\ sh \in [{0} -> Seq(OpenFrame)] /\ at[0] = 2 /\ sh[0] = <<>>
    BY <1>4, <2>2, Zenon
  <2>4. QED BY <2>1, <2>3
<1>6. Laid(at, sh) /\ Marks(at, sh)
  BY <1>2, <1>5 DEF Laid, Marks
<1>7. WState(at, sh)
  BY <1>1, <1>6 DEF WState, Done
<1>8. QED BY <1>3, <1>7 DEF LInv

LEMMA NextInOrder == IInv /\ PInv /\ LInv /\ [CNext]_cvars => LInv'
<1>. SUFFICES ASSUME IInv, PInv, LInv, [CNext]_cvars PROVE LInv'
  OBVIOUS
<1>1. CASE CNext /\ write_header
  BY <1>1, HeaderInOrder
<1>2. CASE CNext /\ write_footer
  BY <1>2, FooterInOrder
<1>3. CASE CNext /\ write_all
  BY <1>3, WriteAllInOrder
<1>4. CASE CNext /\ Within
  <2>1. result = "run" /\ ((result' = "run" /\ file' = file) \/ Ends)
    BY <1>4, InnerGoesOn
  <2>2. QED BY <1>4, <2>1, InnerInOrder, EndsInOrder
<1>5. CASE UNCHANGED cvars
  BY <1>5, StutterInOrder
<1>6. CNext => write_header \/ write_footer \/ write_all \/ Within
  BY DEF CNext, Within
<1>7. QED BY <1>1, <1>2, <1>3, <1>4, <1>5, <1>6

(* Whatever the compact writer writes, its tokens lie as the parts of the  *)
(* value say, every offset leads to the token that comes next, and the     *)
(* caller's writer has taken the tokens from the beginning (ser.rs:203-    *)
(* 465).                                                                   *)
THEOREM LaidOut == CSpec => []LInv
<1>1. CInit => PInv /\ LInv
  BY InitPlaces, InitInOrder
<1>2. IInv /\ PInv /\ LInv /\ [CNext]_cvars => PInv' /\ LInv'
  BY NextPlaces, NextInOrder
<1>3. QED BY <1>1, <1>2, Invariant, PTL DEF CSpec
=============================================================================
