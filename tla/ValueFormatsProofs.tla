------------------------- MODULE ValueFormatsProofs -------------------------
(***************************************************************************)
(* Proofs about ValueFormats.tla: whatever formats a value goes through,   *)
(* and in whatever order, what it has become is a function of the set of   *)
(* them, and a blob gets back its bytes.                                   *)
(***************************************************************************)
EXTENDS ValueFormats, CodecProofs, FiniteSetTheorems

-----------------------------------------------------------------------------
(* What TLC's ToString does to a number, of which the provers know nothing *)
(* else: its digits are not a NUL.                                         *)
NumeralsSpelled == \A n \in Nat : ToString(n) # "NUL"

LEMMA AnyDigit ==
  ASSUME NEW c, IsDigit(c)
  PROVE  DigitOf(c) \in 0 .. 15 /\ c # "NUL" /\ c # "+"
<1>1. DOMAIN LowerHex = {"a", "b", "c", "d", "e", "f"} /\ \A x \in DOMAIN LowerHex : LowerHex[x] \in 0 .. 15
  BY DEF LowerHex
<1>2. Range(HexDigits) \subseteq Upper
  BY DEF HexDigits, Upper, Range
<1>3. ASSUME NEW x \in Upper PROVE \E n \in 0 .. 15 : HexDigits[n + 1] = x
  <2>1. /\ HexDigits[0 + 1] = "0" /\ HexDigits[1 + 1] = "1" /\ HexDigits[2 + 1] = "2"
        /\ HexDigits[3 + 1] = "3" /\ HexDigits[4 + 1] = "4" /\ HexDigits[5 + 1] = "5"
        /\ HexDigits[6 + 1] = "6" /\ HexDigits[7 + 1] = "7" /\ HexDigits[8 + 1] = "8"
        /\ HexDigits[9 + 1] = "9" /\ HexDigits[10 + 1] = "A" /\ HexDigits[11 + 1] = "B"
        /\ HexDigits[12 + 1] = "C" /\ HexDigits[13 + 1] = "D" /\ HexDigits[14 + 1] = "E"
        /\ HexDigits[15 + 1] = "F"
    BY DEF HexDigits
  <2>2. QED BY <2>1 DEF Upper
<1>4. CASE c \in DOMAIN LowerHex
  <2>1. DigitOf(c) = LowerHex[c]
    BY <1>4 DEF DigitOf
  <2>2. QED BY <1>1, <1>4, <2>1
<1>5. CASE c \notin DOMAIN LowerHex
  <2>1. c \in Upper
    BY <1>2, <1>5 DEF IsDigit
  <2>2. DigitOf(c) = CHOOSE n \in 0 .. 15 : HexDigits[n + 1] = c
    BY <1>5 DEF DigitOf
  <2>3. DigitOf(c) \in 0 .. 15
    BY <1>3, <2>1, <2>2
  <2>4. c # "NUL" /\ c # "+"
    BY <2>1 DEF Upper
  <2>5. QED BY <2>3, <2>4
<1>6. QED BY <1>4, <1>5

(* A text that is read as a blob is in the $BINARY form, and has no NUL to *)
(* be cut at.                                                              *)
Spells(s, b) == /\ s \in Seq(Letter) /\ s # <<>> /\ s[1] = "$BINARY(" /\ ~Contains(s, "NUL")
                /\ b \in Seq(0 .. 255) /\ blob_from_str(s) = Decoded(b)

LEMMA BlobRead ==
  ASSUME NumeralsSpelled, NEW s \in Seq(Letter), blob_from_str(s).status = "ok"
  PROVE  \E b : Spells(s, b)
<1>1. PICK n \in Nat : n = Len(s)
  BY ElementProps
<1>2. PICK hex : hex = SubSeq(s, 2, n - 3)
  OBVIOUS
<1>3. blob_from_str(s) =
        CASE ~Matches(s) -> Err
          [] Matches(s) /\ s[n - 1] # ToString(Len(hex) \div 2) -> Err
          [] Matches(s) /\ s[n - 1] = ToString(Len(hex) \div 2) ->
               IF Len(hex) % 2 = 1 THEN Panic
               ELSE Decoded([k \in 1 .. Len(hex) \div 2 |-> PairByte(hex[2 * k - 1], hex[2 * k])])
  BY <1>1, <1>2 DEF blob_from_str
<1>4. Err.status # "ok" /\ Panic.status # "ok"
  BY DEF Err, Panic
<1>5. /\ Matches(s) /\ Len(hex) % 2 # 1
      /\ blob_from_str(s) = Decoded([k \in 1 .. Len(hex) \div 2 |-> PairByte(hex[2 * k - 1], hex[2 * k])])
  BY <1>3, <1>4
<1>6. /\ n >= 4 /\ s[1] = "$BINARY(" /\ s[n] = ")" /\ s[n - 2] \in {",", ", "}
      /\ IsNumeral(s[n - 1], n) /\ \A i \in 2 .. n - 3 : IsDigit(s[i])
  BY <1>1, <1>5, Zenon DEF Matches
<1>17. n >= 4
  BY <1>6, Zenon
<1>7. ~Contains(s, "NUL")
  <2>1. s[n - 1] # "NUL"
    <3>1. \A m \in 0 .. n : ToString(m) # "NUL"
      BY <1>1 DEF NumeralsSpelled
    <3>2. QED BY <1>6, <3>1 DEF IsNumeral
  <2>2. ASSUME NEW i \in 1 .. Len(s) PROVE s[i] # "NUL"
    <3>1. i = 1 \/ i \in 2 .. n - 3 \/ i = n - 2 \/ i = n - 1 \/ i = n
      BY <1>1, <1>17
    <3>2. CASE i \in 2 .. n - 3
      BY <1>6, <3>2, AnyDigit
    <3>3. QED BY <1>6, <2>1, <3>1, <3>2
  <2>3. QED BY <2>2 DEF Contains
<1>8. /\ hex \in Seq(Letter) /\ Len(hex) = (n - 3) - 2 + 1
      /\ \A i \in 1 .. (n - 3) - 2 + 1 : hex[i] = s[2 + i - 1]
  <2>1. 2 \in Nat /\ n - 3 \in Nat /\ 2 >= 1 /\ n - 3 <= Len(s) /\ 2 <= (n - 3) + 1
    BY <1>1, <1>17
  <2>2. QED BY <1>2, <2>1, PartProps
<1>9. Len(hex) \in Nat /\ \A i \in 1 .. Len(hex) : IsDigit(hex[i])
  <2>1. Len(hex) \in Nat
    BY <1>8, <1>17
  <2>2. ASSUME NEW i \in 1 .. Len(hex) PROVE IsDigit(hex[i])
    <3>1. i \in 1 .. (n - 3) - 2 + 1 /\ 2 + i - 1 \in 2 .. n - 3
      BY <1>8, <1>17
    <3>2. hex[i] = s[2 + i - 1]
      BY <1>8, <3>1
    <3>3. QED BY <1>6, <3>1, <3>2, Zenon
  <2>3. QED BY <2>1, <2>2
<1>10. PICK m \in Nat : m = Len(hex) \div 2 /\ 2 * m = Len(hex)
  BY <1>5, <1>9
<1>11. ASSUME NEW k \in 1 .. m PROVE PairByte(hex[2 * k - 1], hex[2 * k]) \in 0 .. 255
  <2>1. 2 * k - 1 \in 1 .. Len(hex) /\ 2 * k \in 1 .. Len(hex)
    BY <1>10
  <2>2. PICK x, y : x = hex[2 * k - 1] /\ y = hex[2 * k] /\ IsDigit(x) /\ IsDigit(y)
    BY <1>9, <2>1
  <2>3. DigitOf(x) \in 0 .. 15 /\ DigitOf(y) \in 0 .. 15
    BY <2>2, AnyDigit
  <2>4. PairByte(x, y) \in 0 .. 255
    <3>1. PICK h \in 0 .. 15, l \in 0 .. 15 : h = DigitOf(x) /\ l = DigitOf(y)
      BY <2>3
    <3>2. PairByte(x, y) = 0 + l \/ PairByte(x, y) = 16 * h + l
      BY <3>1 DEF PairByte
    <3>3. 0 + l \in 0 .. 255
      OBVIOUS
    <3>4. 16 * h + l \in 0 .. 255
      OBVIOUS
    <3>5. CASE PairByte(x, y) = 0 + l
      BY <3>3, <3>5, Zenon
    <3>6. CASE PairByte(x, y) = 16 * h + l
      BY <3>4, <3>6, Zenon
    <3>7. QED BY <3>2, <3>5, <3>6, Zenon
  <2>5. QED BY <2>2, <2>4
<1>12. PICK b : b = [k \in 1 .. m |-> PairByte(hex[2 * k - 1], hex[2 * k])]
  OBVIOUS
<1>13. b \in Seq(0 .. 255)
  BY <1>11, <1>12
<1>14. blob_from_str(s) = Decoded(b)
  BY <1>5, <1>10, <1>12
<1>15. s # <<>>
  BY <1>1, <1>17
<1>16. QED BY <1>6, <1>7, <1>13, <1>14, <1>15 DEF Spells

(* The text of a blob spells it.                                           *)
LEMMA BlobSpelt ==
  ASSUME NumeralsSpelled, NEW b \in Seq(0 .. 255)
  PROVE  Spells(BlobDisplay(b), b)
<1>1. PICK n \in Nat : n = Len(b)
  BY ElementProps
<1>2. PICK h \in Seq(Letter) : h = HexStr(b) /\ Len(h) = 2 * n
        /\ (\A i \in 1 .. Len(h) : h[i] \in Upper)
        /\ \A k \in 1 .. n : PairByte(h[2 * k - 1], h[2 * k]) = b[k]
  <2>1. HexStr(b) \in Seq(Upper) /\ \A i \in 1 .. Len(HexStr(b)) : HexStr(b)[i] \in Upper
    BY HexProps, ElementProps
  <2>2. HexStr(b) \in Seq(Letter)
    BY <2>1, LetterWords, WiderAlphabet
  <2>3. QED BY <1>1, <2>1, <2>2, HexProps
<1>3. PICK a \in Seq(Letter) : a = <<"$BINARY(">> /\ Len(a) = 1 /\ a[1] = "$BINARY("
  BY LetterWords, SingleProps
<1>4. PICK z \in Seq(Letter) : /\ z = <<", ", ToString(n), ")">>
                               /\ Len(z) = 3 /\ z[1] = ", " /\ z[2] = ToString(n) /\ z[3] = ")"
  <2>1. PICK x \in Letter, y \in Letter, w \in Letter : x = ", " /\ y = ToString(n) /\ w = ")"
    BY LetterWords
  <2>2. <<x, y, w>> \in Seq(Letter) /\ Len(<<x, y, w>>) = 3 /\ <<x, y, w>>[1] = x /\ <<x, y, w>>[2] = y
          /\ <<x, y, w>>[3] = w
    OBVIOUS
  <2>3. QED BY <2>1, <2>2
<1>5. PICK m \in Seq(Letter) : /\ m = a \o h /\ Len(m) = 2 * n + 1 /\ m[1] = "$BINARY("
                               /\ \A i \in 1 .. 2 * n : m[i + 1] = h[i]
  <2> DEFINE w == a \o h
  <2>1. /\ w \in Seq(Letter) /\ Len(w) = Len(a) + Len(h) /\ \A i \in 1 .. Len(a) : w[i] = a[i]
        /\ \A i \in Len(a) + 1 .. Len(a) + Len(h) : w[i] = h[i - Len(a)]
    BY ConcatProps, ZenonT(40)
  <2> HIDE DEF w
  <2>2. Len(a) = 1 /\ Len(h) = 2 * n
    BY <1>2, <1>3
  <2>3. Len(w) = 2 * n + 1 /\ w[1] = "$BINARY("
    BY <1>3, <2>1, <2>2
  <2>4. ASSUME NEW i \in 1 .. 2 * n PROVE w[i + 1] = h[i]
    <3>1. i + 1 \in Len(a) + 1 .. Len(a) + Len(h) /\ (i + 1) - Len(a) = i
      BY <2>2
    <3>2. QED BY <2>1, <3>1
  <2>5. QED BY <2>1, <2>3, <2>4 DEF w
<1>6. PICK s \in Seq(Letter) :
        /\ s = m \o z /\ Len(s) = 2 * n + 4 /\ s[1] = "$BINARY("
        /\ \A i \in 1 .. 2 * n : s[i + 1] = h[i]
        /\ s[2 * n + 2] = ", " /\ s[2 * n + 3] = ToString(n) /\ s[2 * n + 4] = ")"
  <2> DEFINE w == m \o z
  <2>1. /\ w \in Seq(Letter) /\ Len(w) = Len(m) + Len(z) /\ \A i \in 1 .. Len(m) : w[i] = m[i]
        /\ \A i \in Len(m) + 1 .. Len(m) + Len(z) : w[i] = z[i - Len(m)]
    BY ConcatProps, ZenonT(40)
  <2> HIDE DEF w
  <2>2. Len(m) = 2 * n + 1 /\ Len(z) = 3
    BY <1>4, <1>5
  <2>3. Len(w) = 2 * n + 4 /\ w[1] = "$BINARY("
    BY <1>5, <2>1, <2>2
  <2>4. ASSUME NEW i \in 1 .. 2 * n PROVE w[i + 1] = h[i]
    <3>1. i + 1 \in 1 .. Len(m)
      BY <2>2
    <3>2. QED BY <1>5, <2>1, <3>1
  <2>5. w[2 * n + 2] = ", " /\ w[2 * n + 3] = ToString(n) /\ w[2 * n + 4] = ")"
    <3>1. /\ \A k \in {1, 2, 3} : Len(m) + k \in Len(m) + 1 .. Len(m) + Len(z) /\ (Len(m) + k) - Len(m) = k
          /\ Len(m) + 1 = 2 * n + 2 /\ Len(m) + 2 = 2 * n + 3 /\ Len(m) + 3 = 2 * n + 4
      BY <2>2
    <3>2. w[Len(m) + 1] = z[1] /\ w[Len(m) + 2] = z[2] /\ w[Len(m) + 3] = z[3]
      BY <2>1, <3>1
    <3>3. QED BY <1>4, <3>1, <3>2
  <2>6. QED BY <2>1, <2>3, <2>4, <2>5 DEF w
<1>7. s = BlobDisplay(b)
  BY <1>1, <1>2, <1>3, <1>4, <1>5, <1>6 DEF BlobDisplay
<1>15. Len(s) = 2 * n + 4
  BY <1>6, Zenon
<1>8. Matches(s)
  <2>1. /\ Len(s) >= 4 /\ Len(s) - 1 = 2 * n + 3 /\ Len(s) - 2 = 2 * n + 2 /\ Len(s) - 3 = 2 * n + 1
        /\ n \in 0 .. Len(s)
    BY <1>15
  <2>2. IsNumeral(ToString(n), Len(s))
    BY <2>1 DEF IsNumeral
  <2>3. ASSUME NEW i \in 2 .. 2 * n + 1 PROVE IsDigit(s[i])
    <3>1. i - 1 \in 1 .. 2 * n /\ i = (i - 1) + 1
      OBVIOUS
    <3>2. s[i] \in Upper
      <4>1. s[(i - 1) + 1] = h[i - 1] /\ h[i - 1] \in Upper
        BY <1>2, <1>6, <3>1, Zenon
      <4>2. QED BY <3>1, <4>1
    <3>3. QED BY <3>2, UpperDigits
  <2>4. QED BY <1>6, <2>1, <2>2, <2>3 DEF Matches
<1>9. SubSeq(s, 2, Len(s) - 3) = h
  <2> DEFINE u == SubSeq(s, 2, Len(s) - 3)
  <2>1. 2 \in Nat /\ Len(s) - 3 \in Nat /\ 2 >= 1 /\ Len(s) - 3 <= Len(s) /\ 2 <= (Len(s) - 3) + 1
    BY <1>15
  <2>2. u \in Seq(Letter) /\ Len(u) = (Len(s) - 3) - 2 + 1
        /\ \A i \in 1 .. (Len(s) - 3) - 2 + 1 : u[i] = s[2 + i - 1]
    <3>1. PICK k \in Nat : k = Len(s) - 3
      BY <2>1
    <3>4. 2 \in Nat /\ 2 >= 1 /\ k <= Len(s) /\ 2 <= k + 1
      BY <2>1, <3>1
    <3>2. /\ SubSeq(s, 2, k) \in Seq(Letter) /\ Len(SubSeq(s, 2, k)) = k - 2 + 1
          /\ \A i \in 1 .. k - 2 + 1 : SubSeq(s, 2, k)[i] = s[2 + i - 1]
      BY <3>4, PartProps
    <3>3. QED BY <3>1, <3>2, Zenon
  <2> HIDE DEF u
  <2>3. Len(u) = 2 * n
    BY <1>15, <2>2
  <2>5. ASSUME NEW i \in 1 .. 2 * n PROVE u[i] = h[i]
    <3>1. i \in 1 .. (Len(s) - 3) - 2 + 1 /\ 2 + i - 1 = i + 1
      BY <1>15
    <3>2. u[i] = s[i + 1]
      BY <2>2, <3>1
    <3>3. QED BY <1>6, <3>2
  <2>4. u = h
    BY <1>2, <2>2, <2>3, <2>5, SameElements
  <2>6. QED BY <2>4 DEF u
<1>10. blob_from_str(s) = Decoded([k \in 1 .. n |-> PairByte(h[2 * k - 1], h[2 * k])])
  <2>1. /\ (2 * n) \div 2 = n /\ (2 * n) % 2 # 1 /\ (2 * n + 4) - 1 = 2 * n + 3
    OBVIOUS
  <2>3. Len(h) \div 2 = n /\ Len(h) % 2 # 1 /\ s[Len(s) - 1] = ToString(n)
    BY <1>2, <1>6, <2>1, Zenon
  <2>2. QED BY <1>8, <1>9, <2>3 DEF blob_from_str
<1>11. [k \in 1 .. n |-> PairByte(h[2 * k - 1], h[2 * k])] = b
  BY <1>1, <1>2
<1>12. blob_from_str(s).status = "ok"
  BY <1>10 DEF Decoded
<1>13. PICK c : Spells(s, c)
  BY <1>12, BlobRead
<1>14. QED BY <1>7, <1>10, <1>11, <1>13 DEF Spells

(* A text cut at its first NUL has none left.                              *)
LEMMA CutProps ==
  ASSUME NEW p \in Seq(Letter)
  PROVE  /\ CutAtNul(p) \in Seq(Letter) /\ ~Contains(CutAtNul(p), "NUL")
         /\ ~Contains(p, "NUL") => CutAtNul(p) = p
<1>1. CASE ~Contains(p, "NUL")
  BY <1>1 DEF CutAtNul
<1>2. CASE Contains(p, "NUL")
  <2>1. PICK at : at = SelectInSeq(p, LAMBDA c : c = "NUL")
    OBVIOUS
  <2>2. at = Min({i \in 1 .. Len(p) : p[i] = "NUL"})
    BY <1>2, <2>1 DEF SelectInSeq, Contains
  <2>3. at \in 1 .. Len(p) /\ \A i \in 1 .. at - 1 : p[i] # "NUL"
    BY <1>2, <2>2, FirstPlace
  <2>4. PICK m \in Nat : m = at - 1 /\ m <= Len(p)
    BY <2>3, ElementProps
  <2> DEFINE u == SubSeq(p, 1, m)
  <2>5. u \in Seq(Letter) /\ Len(u) = m - 1 + 1 /\ \A i \in 1 .. m - 1 + 1 : u[i] = p[1 + i - 1]
    <3>1. 1 \in Nat /\ 1 >= 1 /\ 1 <= m + 1
      OBVIOUS
    <3>2. QED BY <2>4, <3>1, PartProps
  <2> HIDE DEF u
  <2>6. ASSUME NEW i \in 1 .. Len(u) PROVE u[i] # "NUL"
    <3>1. i \in 1 .. m - 1 + 1 /\ 1 + i - 1 = i /\ i \in 1 .. at - 1
      BY <2>4, <2>5
    <3>2. QED BY <2>3, <2>5, <3>1
  <2>7. CutAtNul(p) = u
    BY <1>2, <2>1, <2>4 DEF CutAtNul, u
  <2>8. ~Contains(u, "NUL")
    BY <2>6 DEF Contains
  <2>9. QED BY <1>2, <2>5, <2>7, <2>8
<1>3. QED BY <1>1, <1>2
-----------------------------------------------------------------------------
(* The visitor's narrowing: JSON widens first, and what is narrowed stays  *)
(* as it is, or takes the name the wider type is narrowed to.              *)
LEMMA NewProps ==
  ASSUME NEW v \in RustInt
  PROVE  /\ NewInt(v) = [ty |-> NewInt(v).ty, neg |-> v.neg, bits |-> v.bits]
         /\ NewUint(v) = [ty |-> NewUint(v).ty, neg |-> v.neg, bits |-> v.bits]
         /\ \A ty : NewInt([ty |-> ty, neg |-> v.neg, bits |-> v.bits]) = NewInt(v)
         /\ \A ty : NewUint([ty |-> ty, neg |-> v.neg, bits |-> v.bits]) = NewUint(v)
         /\ NewInt(v).ty \in {"i8", "i16", "i32", "i64"} /\ NewUint(v).ty \in {"u8", "u16", "u32", "u64"}
         /\ v.bits < 64 => NewInt(v) \in RustInt
         /\ ~v.neg => NewUint(v) \in RustInt
<1>1. /\ v.neg \in BOOLEAN /\ v.bits \in 0 .. 64 /\ v = [ty |-> v.ty, neg |-> v.neg, bits |-> v.bits]
  BY DEF RustInt
<1>2. PICK i : i = IF v.bits < 8 THEN "i8" ELSE IF v.bits < 16 THEN "i16"
                   ELSE IF v.bits < 32 THEN "i32" ELSE "i64"
  OBVIOUS
<1>3. PICK u : u = IF v.bits <= 8 THEN "u8" ELSE IF v.bits <= 16 THEN "u16"
                   ELSE IF v.bits <= 32 THEN "u32" ELSE "u64"
  OBVIOUS
<1>4. \A ty : /\ NewInt([ty |-> ty, neg |-> v.neg, bits |-> v.bits]) = [ty |-> i, neg |-> v.neg, bits |-> v.bits]
              /\ NewUint([ty |-> ty, neg |-> v.neg, bits |-> v.bits]) = [ty |-> u, neg |-> v.neg, bits |-> v.bits]
  BY <1>2, <1>3 DEF NewInt, NewUint
<1>5. /\ NewInt(v) = [ty |-> i, neg |-> v.neg, bits |-> v.bits]
      /\ NewUint(v) = [ty |-> u, neg |-> v.neg, bits |-> v.bits]
  BY <1>1, <1>4
<1>6. i \in {"i8", "i16", "i32", "i64"} /\ u \in {"u8", "u16", "u32", "u64"}
  BY <1>2, <1>3
<1>7. ASSUME v.bits < 64 PROVE NewInt(v) \in RustInt
  <2>1. i \in Signed /\ v.bits < Width(i)
    BY <1>1, <1>2, <1>7 DEF Signed, Width
  <2>2. QED BY <1>1, <1>5, <2>1 DEF RustInt
<1>8. ASSUME ~v.neg PROVE NewUint(v) \in RustInt
  <2>1. u \in Unsigned /\ u \notin Signed /\ v.bits <= Width(u)
    BY <1>1, <1>3 DEF Signed, Unsigned, Width
  <2>2. QED BY <1>1, <1>5, <1>8, <2>1 DEF RustInt
<1>9. QED BY <1>4, <1>5, <1>6, <1>7, <1>8

LEMMA NarrowedProps ==
  ASSUME NEW v \in RustInt
  PROVE  /\ VisitInt(v) \in RustInt /\ (v.neg => NewInt(v) \in RustInt) /\ (~v.neg => NewUint(v) \in RustInt)
         /\ VisitInt(VisitInt(v)) = VisitInt(v)
         /\ VisitInt(NewInt(v)) = NewInt(v) /\ VisitInt(NewUint(v)) = NewUint(v)
         /\ VisitInt(v).neg = v.neg /\ NewInt(v).neg = v.neg /\ NewUint(v).neg = v.neg
         /\ NewInt(VisitInt(v)) = NewInt(v) /\ NewUint(VisitInt(v)) = NewUint(v)
         /\ NewInt(NewInt(v)) = NewInt(v) /\ NewUint(NewUint(v)) = NewUint(v)
<1>1. /\ v.ty \in Signed \cup Unsigned /\ v = [ty |-> v.ty, neg |-> v.neg, bits |-> v.bits]
      /\ v.ty \in Signed => v.bits < 64
      /\ v.ty \in Unsigned => ~v.neg
  BY DEF RustInt, Signed, Unsigned, Width
<1>2. PICK n, u : n = NewInt(v) /\ u = NewUint(v)
  OBVIOUS
<1>3. /\ n = [ty |-> n.ty, neg |-> v.neg, bits |-> v.bits] /\ n.ty \in {"i8", "i16", "i32", "i64"}
      /\ u = [ty |-> u.ty, neg |-> v.neg, bits |-> v.bits] /\ u.ty \in {"u8", "u16", "u32", "u64"}
      /\ \A ty : NewInt([ty |-> ty, neg |-> v.neg, bits |-> v.bits]) = n
      /\ \A ty : NewUint([ty |-> ty, neg |-> v.neg, bits |-> v.bits]) = u
  BY <1>2, NewProps
<1>4. n.neg = v.neg /\ u.neg = v.neg /\ NewInt(n) = n /\ NewUint(u) = u
  BY <1>3
<1>5. VisitInt(n) = n
  BY <1>3, <1>4 DEF VisitInt
<1>6. VisitInt(u) = u
  BY <1>3, <1>4 DEF VisitInt
<1>7. VisitInt(v) = v \/ (VisitInt(v) = n /\ v.ty = "i64") \/ (VisitInt(v) = u /\ v.ty = "u64")
  BY <1>2 DEF VisitInt
<1>8. (v.neg => n \in RustInt) /\ (v.ty = "i64" => n \in RustInt) /\ (~v.neg => u \in RustInt)
  BY <1>1, <1>2, NewProps DEF Signed, Unsigned
<1>9. v.ty = "u64" => ~v.neg
  BY <1>1 DEF Unsigned
<1>10. VisitInt(v) \in RustInt
  BY <1>7, <1>8, <1>9
<1>11. VisitInt(VisitInt(v)) = VisitInt(v) /\ VisitInt(v).neg = v.neg
  BY <1>4, <1>5, <1>6, <1>7
<1>12. NewInt(VisitInt(v)) = n /\ NewUint(VisitInt(v)) = u
  BY <1>2, <1>3, <1>7
<1>13. QED BY <1>2, <1>4, <1>5, <1>6, <1>8, <1>10, <1>11, <1>12

LEMMA DecodeFixed ==
  ASSUME NEW v \in RustInt
  PROVE  DecodeInt(FixedInt(v)) = v
<1>1. v.ty \in Signed \cup Unsigned /\ v = [ty |-> v.ty, neg |-> v.neg, bits |-> v.bits]
  BY IntTyped
<1>2. DecodeInt([tag |-> FixedTag(v.ty), bits |-> v.bits, odd |-> v.neg])
        = [ty |-> v.ty, neg |-> v.neg, bits |-> v.bits]
  BY <1>1 DEF DecodeInt, FixedTag, Signed, Unsigned
<1>3. QED BY <1>1, <1>2 DEF FixedInt
-----------------------------------------------------------------------------
(* A value through one format, and what it should have become of the value *)
(* w begun with.                                                           *)
Formats == {"standard", "compact", "json"}
VisitIn(f, v) == IF f = "standard" THEN StandardVisit(v) ELSE IF f = "compact" THEN CompactVisit(v) ELSE JsonVisit(v)
Passed(f, v)    == Visited(VisitIn(f, v))
Became(w, been) == IF been = {} THEN w ELSE Outcome(AsBlob(w), been)

(* What ValueVisitor makes of a visitor call.                              *)
LEMMA VisitedIs ==
  /\ Visited(Unit) = RtidVal(Null)
  /\ \A n : Visited(VInt(n)) = IntVal(VisitInt(n))
  /\ \A ty, x : Visited(VFloat(ty, x)) = FloatVal(ty, x)
  /\ \A b : Visited([visit |-> "bytes", bytes |-> b]) = BinaryVal(b)
  /\ \A s : Visited(VStr(s)) = visit_str(s)
<1>1. Visited(Unit) = RtidVal(Null)
  BY DEF Visited, Unit
<1>2. \A n : Visited(VInt(n)) = IntVal(VisitInt(n))
  BY DEF Visited, VInt
<1>3. \A ty, x : Visited(VFloat(ty, x)) = FloatVal(ty, x)
  BY DEF Visited, VFloat
<1>4. \A b : Visited([visit |-> "bytes", bytes |-> b]) = BinaryVal(b)
  BY DEF Visited
<1>5. \A s : Visited(VStr(s)) = visit_str(s)
  BY DEF Visited, VStr
<1>6. QED BY <1>1, <1>2, <1>3, <1>4, <1>5

LEMMA VisitText == \A s : visit_str(s) = OfText(s)
<1> SUFFICES ASSUME NEW s PROVE visit_str(s) = OfText(s)
  OBVIOUS
<1>1. CASE FromStr(s) = {}
  BY <1>1 DEF visit_str, OfText
<1>2. CASE FromStr(s) # {}
  <2>1. Wrapped(s)
    BY <1>2 DEF FromStr
  <2>2. Len(<<>>) = 0
    OBVIOUS
  <2>3. s # <<>> /\ s[1] = "RTID("
    BY <2>1, <2>2 DEF Wrapped
  <2>4. QED BY <1>2, <2>3 DEF visit_str, OfText
<1>3. QED BY <1>1, <1>2

LEMMA NullPass ==
  ASSUME NEW f \in Formats
  PROVE  Passed(f, RtidVal(Null)) = RtidVal(Null)
<1>1. VisitIn(f, RtidVal(Null)) = VStr(NullText)
  BY NullTextProps DEF VisitIn, StandardVisit, CompactVisit, JsonVisit, Formats, RtidVal
<1>2. OfText(NullText) = RtidVal(Null)
  BY NullTextProps DEF OfText, Unwrap
<1>3. QED BY <1>1, <1>2, VisitedIs, VisitText DEF Passed

LEMMA NullStep ==
  ASSUME NEW been \in SUBSET Formats, NEW f \in Formats,
         NEW w, w = [kind |-> "null"]
  PROVE  Passed(f, Became(w, been)) = Became(w, been \cup {f})
<1>1. \A fs : Outcome(AsBlob(w), fs) = RtidVal(Null)
  BY DEF Outcome, AsBlob
<1>2. Visited(VStr(NullText)) = RtidVal(Null)
  <2>1. OfText(NullText) = RtidVal(Null)
    BY NullTextProps DEF OfText, Unwrap
  <2>2. QED BY <2>1, VisitedIs, VisitText
<1>3. Passed(f, w) = RtidVal(Null)
  <2>1. VisitIn(f, w) = VStr(NullText) \/ VisitIn(f, w) = Unit
    BY DEF VisitIn, StandardVisit, CompactVisit, JsonVisit, Formats
  <2>2. QED BY <1>2, <2>1, VisitedIs DEF Passed
<1>4. QED BY <1>1, <1>3, NullPass DEF Became

LEMMA IntPass ==
  ASSUME NEW n \in RustInt, NEW fo \in BOOLEAN, NEW f \in Formats,
         NEW v, v = [kind |-> "int", int |-> n, forced |-> fo]
  PROVE  Passed(f, v) = IntVal(Narrowed(n, f = "json"))
<1>1. CASE f = "standard"
  <2>1. VisitIn(f, v) = VInt(DecodeInt(EncodeInt(n, fo)))
    BY <1>1 DEF VisitIn, StandardVisit
  <2>2. QED BY <1>1, <2>1, DecodeEncode, VisitedIs DEF Passed, Narrowed
<1>2. CASE f = "compact"
  <2>1. VisitIn(f, v) = VInt(DecodeInt(FixedInt(n)))
    BY <1>2 DEF VisitIn, CompactVisit
  <2>2. QED BY <1>2, <2>1, DecodeFixed, VisitedIs DEF Passed, Narrowed
<1>3. CASE f = "json"
  <2>1. PICK m : m = [n EXCEPT !.ty = IF n.neg THEN "i64" ELSE "u64"]
    OBVIOUS
  <2>2. VisitIn(f, v) = VInt(m)
    BY <1>3, <2>1 DEF VisitIn, JsonVisit
  <2>3. VisitInt(m) = Narrowed(n, TRUE)
    <3>1. n = [ty |-> n.ty, neg |-> n.neg, bits |-> n.bits] /\ n.neg \in BOOLEAN
      BY IntTyped
    <3>2. m = [ty |-> IF n.neg THEN "i64" ELSE "u64", neg |-> n.neg, bits |-> n.bits]
      BY <2>1, <3>1
    <3>3. VisitInt(m) = IF n.neg THEN NewInt(m) ELSE NewUint(m)
      BY <3>2 DEF VisitInt
    <3>4. NewInt(m) = NewInt(n) /\ NewUint(m) = NewUint(n)
      BY <3>2, NewProps
    <3>5. QED BY <3>1, <3>3, <3>4 DEF Narrowed
  <2>4. QED BY <1>3, <2>2, <2>3, VisitedIs DEF Passed
<1>4. QED BY <1>1, <1>2, <1>3 DEF Formats

LEMMA IntStep ==
  ASSUME NEW been \in SUBSET Formats, NEW f \in Formats, NEW n \in RustInt, NEW fo \in BOOLEAN,
         NEW w, w = [kind |-> "int", int |-> n, forced |-> fo]
  PROVE  Passed(f, Became(w, been)) = Became(w, been \cup {f})
<1>1. \A fs : Outcome(AsBlob(w), fs) = IntVal(Narrowed(n, "json" \in fs))
  BY DEF Outcome, AsBlob
<1>2. CASE been = {}
  BY <1>1, <1>2, IntPass DEF Became
<1>3. CASE been # {}
  <2>1. n.neg \in BOOLEAN
    BY IntTyped
  <2>2. PICK m : m = Narrowed(n, "json" \in been)
    OBVIOUS
  <2>3. /\ m \in RustInt /\ Narrowed(m, TRUE) = Narrowed(n, TRUE)
        /\ Narrowed(m, FALSE) = m
    <3>1. CASE "json" \in been /\ n.neg
      BY <2>2, <3>1, NarrowedProps DEF Narrowed
    <3>2. CASE "json" \in been /\ ~n.neg
      BY <2>2, <3>2, NarrowedProps DEF Narrowed
    <3>3. CASE "json" \notin been
      BY <2>1, <2>2, <3>3, NarrowedProps DEF Narrowed
    <3>4. QED BY <2>1, <3>1, <3>2, <3>3
  <2>4. Became(w, been) = [kind |-> "int", int |-> m, forced |-> FALSE]
    BY <1>1, <1>3, <2>2 DEF Became, IntVal
  <2>5. Passed(f, Became(w, been)) = IntVal(Narrowed(m, f = "json"))
    <3>1. FALSE \in BOOLEAN
      OBVIOUS
    <3>2. QED BY <2>3, <2>4, <3>1, IntPass, ZenonT(40)
  <2>6. Narrowed(m, f = "json") = Narrowed(n, "json" \in been \cup {f})
    <3>1. CASE f = "json"
      <4>1. (f = "json") = TRUE /\ ("json" \in been \cup {f}) = TRUE
        BY <3>1
      <4>2. QED BY <2>3, <4>1, Zenon
    <3>2. CASE f # "json"
      <4>1. (f = "json") = FALSE /\ ("json" \in been \cup {f}) = ("json" \in been)
        BY <3>2
      <4>2. QED BY <2>2, <2>3, <4>1, Zenon
    <3>3. QED BY <3>1, <3>2
  <2>7. QED BY <1>1, <2>5, <2>6 DEF Became
<1>4. QED BY <1>2, <1>3

LEMMA FloatPass ==
  ASSUME NEW ty, NEW x, NEW f \in Formats
  PROVE  Passed(f, FloatVal(ty, x)) =
           IF f = "json" /\ x = "nan" THEN RtidVal(Null)
           ELSE FloatVal(IF f = "json" THEN "f64" ELSE ty, IF f = "standard" /\ x = "-0" THEN "+0" ELSE x)
<1>1. CASE f = "standard"
  <2>1. VisitIn(f, FloatVal(ty, x)) = VFloat(ty, IF x = "-0" THEN "+0" ELSE x)
    BY <1>1 DEF VisitIn, StandardVisit, FloatVal
  <2>2. QED BY <1>1, <2>1, VisitedIs DEF Passed
<1>2. CASE f = "compact"
  <2>1. VisitIn(f, FloatVal(ty, x)) = VFloat(ty, x)
    BY <1>2 DEF VisitIn, CompactVisit, FloatVal
  <2>2. QED BY <1>2, <2>1, VisitedIs DEF Passed
<1>3. CASE f = "json"
  <2>1. VisitIn(f, FloatVal(ty, x)) = IF x = "nan" THEN Unit ELSE VFloat("f64", x)
    BY <1>3 DEF VisitIn, JsonVisit, FloatVal
  <2>2. QED BY <1>3, <2>1, VisitedIs DEF Passed
<1>4. QED BY <1>1, <1>2, <1>3 DEF Formats

LEMMA FloatStep ==
  ASSUME NEW been \in SUBSET Formats, NEW f \in Formats, NEW ty, NEW x, NEW w, w = FloatVal(ty, x)
  PROVE  Passed(f, Became(w, been)) = Became(w, been \cup {f})
<1> DEFINE Of(fs) == IF x = "nan" /\ "json" \in fs THEN RtidVal(Null)
                     ELSE FloatVal(IF "json" \in fs THEN "f64" ELSE ty,
                                   IF x = "-0" /\ "standard" \in fs THEN "+0" ELSE x)
<1>1. \A fs : Outcome(AsBlob(w), fs) = Of(fs)
  BY DEF Outcome, AsBlob, FloatVal
<1>2. Became(w, been \cup {f}) = Of(been \cup {f})
  BY <1>1 DEF Became
<1>3. Became(w, been) = Of(been)
  <2>1. CASE been = {}
    BY <2>1 DEF Became
  <2>2. CASE been # {}
    BY <1>1, <2>2 DEF Became
  <2>3. QED BY <2>1, <2>2
<1>4. CASE x = "nan" /\ "json" \in been
  <2>1. Of(been) = RtidVal(Null) /\ Of(been \cup {f}) = RtidVal(Null)
    BY <1>4
  <2>2. QED BY <1>2, <1>3, <2>1, NullPass
<1>5. CASE ~(x = "nan" /\ "json" \in been)
  <2>1. PICK y, z : /\ y = IF "json" \in been THEN "f64" ELSE ty
                    /\ z = IF x = "-0" /\ "standard" \in been THEN "+0" ELSE x
    OBVIOUS
  <2>2. Of(been) = FloatVal(y, z)
    BY <1>5, <2>1
  <2>3. (z = "nan") = (x = "nan")
    BY <2>1
  <2>4. CASE f = "json"
    BY <1>2, <1>3, <2>1, <2>2, <2>3, <2>4, FloatPass
  <2>5. CASE f = "standard"
    BY <1>2, <1>3, <1>5, <2>1, <2>2, <2>3, <2>5, FloatPass
  <2>6. CASE f = "compact"
    BY <1>2, <1>3, <1>5, <2>1, <2>2, <2>3, <2>6, FloatPass
  <2>7. QED BY <2>4, <2>5, <2>6 DEF Formats
<1>6. QED BY <1>4, <1>5

LEMMA RtidPass ==
  ASSUME NEW r, NEW f \in Formats
  PROVE  Passed(f, RtidVal(r)) = OfText(Display(r))
<1>1. VisitIn(f, RtidVal(r)) = VStr(Display(r))
  BY DEF VisitIn, StandardVisit, CompactVisit, JsonVisit, Formats, RtidVal
<1>2. QED BY <1>1, VisitedIs, VisitText DEF Passed

(* What the compact writer leaves of a text.                               *)
Kept(s) == IF s \in Latin1 THEN s ELSE CutAtNul(s)

LEMMA KeptProps ==
  ASSUME NEW s \in Seq(Letter)
  PROVE  /\ Kept(s) \in Seq(Letter) /\ Kept(Kept(s)) = Kept(s)
         /\ ~Contains(s, "NUL") => Kept(s) = s
<1>1. CASE s \in Latin1
  BY <1>1 DEF Kept
<1>2. CASE s \notin Latin1
  <2>1. PICK t \in Seq(Letter) : t = CutAtNul(s) /\ ~Contains(t, "NUL")
    BY CutProps
  <2>2. CutAtNul(t) = t
    BY <2>1, CutProps
  <2>3. Kept(s) = t /\ Kept(t) = t
    BY <1>2, <2>1, <2>2 DEF Kept
  <2>4. QED BY <2>1, <2>3, CutProps
<1>3. QED BY <1>1, <1>2

LEMMA TextPass ==
  ASSUME NEW s, NEW f \in Formats
  PROVE  Passed(f, StringVal(s)) = OfText(IF f = "compact" THEN Kept(s) ELSE s)
<1>1. VisitIn(f, StringVal(s)) = VStr(IF f = "compact" THEN Kept(s) ELSE s)
  BY DEF VisitIn, StandardVisit, CompactVisit, JsonVisit, Formats, StringVal, Kept
<1>2. QED BY <1>1, VisitedIs, VisitText DEF Passed

(* What is no text of an RTID stays a string.                              *)
LEMMA OfTextProps ==
  ASSUME NEW s \in Seq(Letter)
  PROVE  \/ FromStr(s) = {} /\ OfText(s) = StringVal(s)
         \/ \E r : FromStr(s) = {r} /\ FromStr(Display(r)) = {r} /\ OfText(s) = RtidVal(r)
                     /\ OfText(Display(r)) = RtidVal(r)
<1>1. CASE FromStr(s) = {}
  BY <1>1 DEF OfText
<1>2. CASE FromStr(s) # {}
  <2>1. PICK r : FromStr(s) = {r}
    BY <1>2, FromStrProps
  <2>2. FromStr(Display(r)) = {r}
    BY <2>1, DisplayStable
  <2>3. Unwrap({r}) = r
    BY DEF Unwrap
  <2>4. OfText(s) = RtidVal(r) /\ OfText(Display(r)) = RtidVal(r)
    BY <2>1, <2>2, <2>3 DEF OfText
  <2>5. QED BY <2>1, <2>2, <2>4
<1>3. QED BY <1>1, <1>2

LEMMA RtidStep ==
  ASSUME NEW been \in SUBSET Formats, NEW f \in Formats, NEW r, Display(r) \in Seq(Letter),
         NEW w, w = RtidVal(r), ~CutLater(w)
  PROVE  Passed(f, Became(w, been)) = Became(w, been \cup {f})
<1> DEFINE d == Display(r)
<1>1. \A fs : Outcome(AsBlob(w), fs) = OfText(d)
  BY DEF Outcome, AsBlob, RtidVal
<1>2. Became(w, been \cup {f}) = OfText(d)
  BY <1>1 DEF Became
<1>3. CASE been = {}
  <2>1. Became(w, been) = w
    BY <1>3 DEF Became
  <2>2. QED BY <1>2, <2>1, RtidPass
<1>4. CASE been # {}
  <2>1. Became(w, been) = OfText(d)
    BY <1>1, <1>4 DEF Became
  <2>2. CASE FromStr(d) = {} /\ OfText(d) = StringVal(d)
    <3>1. d \in Latin1 \/ ~Contains(d, "NUL")
      BY <2>2 DEF CutLater, RtidVal
    <3>2. Kept(d) = d
      BY <3>1, KeptProps DEF Kept
    <3>3. Passed(f, StringVal(d)) = OfText(IF f = "compact" THEN Kept(d) ELSE d)
      BY TextPass
    <3>4. QED BY <1>2, <2>1, <2>2, <3>2, <3>3
  <2>3. ASSUME NEW q, OfText(d) = RtidVal(q), OfText(Display(q)) = RtidVal(q)
        PROVE  Passed(f, Became(w, been)) = Became(w, been \cup {f})
    BY <1>2, <2>1, <2>3, RtidPass
  <2>4. QED BY <2>2, <2>3, OfTextProps
<1>5. QED BY <1>3, <1>4

LEMMA StringStep ==
  ASSUME NEW been \in SUBSET Formats, NEW f \in Formats, NEW s \in Seq(Letter),
         blob_from_str(s).status # "ok", NEW w, w = StringVal(s), ~CutLater(w)
  PROVE  Passed(f, Became(w, been)) = Became(w, been \cup {f})
<1> DEFINE Left(fs) == IF "compact" \in fs THEN Kept(s) ELSE s
<1>1. \A fs : Outcome(AsBlob(w), fs) = OfText(Left(fs))
  BY DEF Outcome, AsBlob, StringVal, Kept
<1>2. Became(w, been \cup {f}) = OfText(Left(been \cup {f}))
  BY <1>1 DEF Became
<1>3. CASE been = {}
  <2>1. Became(w, been) = w
    BY <1>3 DEF Became
  <2>2. Left(been \cup {f}) = IF f = "compact" THEN Kept(s) ELSE s
    BY <1>3
  <2>3. QED BY <1>2, <2>1, <2>2, TextPass
<1>4. CASE been # {}
  <2>1. PICK t \in Seq(Letter) : t = Left(been)
    BY KeptProps
  <2>2. Became(w, been) = OfText(t)
    BY <1>1, <1>4, <2>1 DEF Became
  <2>3. CASE FromStr(t) = {} /\ OfText(t) = StringVal(t)
    <3>1. Left(been \cup {f}) = IF f = "compact" THEN Kept(t) ELSE t
      BY <2>1, KeptProps
    <3>2. QED BY <1>2, <2>2, <2>3, <3>1, TextPass
  <2>4. ASSUME NEW q, FromStr(t) = {q}, OfText(t) = RtidVal(q), OfText(Display(q)) = RtidVal(q)
        PROVE  Passed(f, Became(w, been)) = Became(w, been \cup {f})
    <3>1. Left(been \cup {f}) = t
      <4>1. CASE "compact" \in been \/ f # "compact"
        BY <2>1, <4>1
      <4>2. CASE "compact" \notin been /\ f = "compact"
        <5>1. FromStr(s) # {}
          BY <2>1, <2>4, <4>2
        <5>2. s \in Latin1 \/ ~Contains(s, "NUL")
          BY <5>1 DEF CutLater, StringVal
        <5>3. Kept(s) = s
          BY <5>2, KeptProps DEF Kept
        <5>4. QED BY <2>1, <4>2, <5>3
      <4>3. QED BY <4>1, <4>2
    <3>2. QED BY <1>2, <2>2, <2>4, <3>1, RtidPass
  <2>5. QED BY <2>3, <2>4, OfTextProps
<1>5. QED BY <1>3, <1>4
-----------------------------------------------------------------------------
(* A blob, as bytes or as a text that spells it.                           *)
Blob(v, b) == b \in Seq(0 .. 255) /\ (v = BinaryVal(b) \/ \E s : v = StringVal(s) /\ Spells(s, b))

(* The same value, or two forms of one blob.                               *)
Same(o, v) == v = o \/ \E b : Blob(o, b) /\ Blob(v, b)

LEMMA BlobProps ==
  ASSUME NEW v, NEW b, Blob(v, b)
  PROVE  /\ b \in Seq(0 .. 255) /\ AsBlob(v) = BinaryVal(b)
         /\ v.kind \in {"binary", "string"}
         /\ v.kind = "binary" => v = BinaryVal(b)
         /\ v.kind = "string" => v = StringVal(v.str) /\ Spells(v.str, b)
<1>1. CASE v = BinaryVal(b)
  BY <1>1 DEF Blob, AsBlob, BinaryVal
<1>2. ASSUME NEW s, v = StringVal(s), Spells(s, b) PROVE
         /\ b \in Seq(0 .. 255) /\ AsBlob(v) = BinaryVal(b)
         /\ v.kind \in {"binary", "string"}
         /\ v.kind = "binary" => v = BinaryVal(b)
         /\ v.kind = "string" => v = StringVal(v.str) /\ Spells(v.str, b)
  <2>1. blob_from_str(s) = Decoded(b) /\ b \in Seq(0 .. 255)
    BY <1>2 DEF Spells
  <2>2. Decoded(b).status = "ok" /\ Decoded(b).bytes = b
    BY DEF Decoded
  <2>3. v.kind = "string" /\ v.str = s
    BY <1>2 DEF StringVal
  <2>4. AsBlob(v) = BinaryVal(b)
    BY <2>1, <2>2, <2>3 DEF AsBlob
  <2>5. QED BY <1>2, <2>1, <2>3, <2>4
<1>3. QED BY <1>1, <1>2 DEF Blob

(* Standard and compact RTON carry a blob's bytes, JSON and a string its   *)
(* text.                                                                   *)
LEMMA BlobPass ==
  ASSUME NumeralsSpelled, NEW f \in Formats, NEW v, NEW b, Blob(v, b)
  PROVE  /\ Blob(Passed(f, v), b)
         /\ f # "json" /\ v = BinaryVal(b) => Passed(f, v) = BinaryVal(b)
<1>1. ASSUME NEW s, Spells(s, b) PROVE OfText(s) = StringVal(s) /\ Kept(s) = s
  <2>1. s \in Seq(Letter) /\ s[1] = "$BINARY(" /\ ~Contains(s, "NUL")
    BY <1>1 DEF Spells
  <2>2. FromStr(s) = {}
    <3>1. "$BINARY(" # "RTID("
      OBVIOUS
    <3>2. QED BY <2>1, <3>1, FromStrProps
  <2>3. QED BY <2>1, <2>2, KeptProps DEF OfText
<1>2. b \in Seq(0 .. 255)
  BY DEF Blob
<1>3. CASE v = BinaryVal(b)
  <2>1. CASE f # "json"
    <3>1. VisitIn(f, v) = [visit |-> "bytes", bytes |-> decode_hex_bytes(HexStr(b)).bytes]
      BY <1>3, <2>1 DEF VisitIn, StandardVisit, CompactVisit, BinaryVal, Formats
    <3>2. decode_hex_bytes(HexStr(b)).bytes = b
      <4>1. decode_hex_bytes(HexStr(b)) = Decoded(b)
        BY <1>2, HexDecodes
      <4>2. QED BY <4>1 DEF Decoded
    <3>3. Passed(f, v) = BinaryVal(b)
      BY <3>1, <3>2, VisitedIs DEF Passed
    <3>4. QED BY <1>2, <3>3 DEF Blob
  <2>2. CASE f = "json"
    <3>1. VisitIn(f, v) = VStr(BlobDisplay(b))
      BY <1>3, <2>2 DEF VisitIn, JsonVisit, BinaryVal
    <3>2. Spells(BlobDisplay(b), b)
      BY <1>2, BlobSpelt
    <3>3. Passed(f, v) = StringVal(BlobDisplay(b))
      BY <1>1, <3>1, <3>2, VisitedIs, VisitText DEF Passed
    <3>4. QED BY <1>2, <2>2, <3>2, <3>3 DEF Blob
  <2>3. QED BY <2>1, <2>2
<1>4. ASSUME NEW s, v = StringVal(s), Spells(s, b) PROVE Blob(Passed(f, v), b) /\ v # BinaryVal(b)
  <2>1. Passed(f, v) = OfText(IF f = "compact" THEN Kept(s) ELSE s)
    BY <1>4, TextPass
  <2>2. Passed(f, v) = StringVal(s)
    BY <1>1, <1>4, <2>1
  <2>3. v # BinaryVal(b)
    BY <1>4 DEF StringVal, BinaryVal
  <2>4. QED BY <1>2, <1>4, <2>2, <2>3 DEF Blob
<1>5. QED BY <1>3, <1>4 DEF Blob
-----------------------------------------------------------------------------
LEMMA StringsAreTexts == Seq(STRING) \subseteq Seq(Letter)
BY LetterWords, WiderAlphabet

LEMMA DisplayTyped ==
  ASSUME NEW r, IsRtid(r)
  PROVE  Display(r) \in Seq(Letter)
<1>1. CASE r = Null
  BY <1>1, NullTextProps
<1>2. CASE r \in [kind : {"raw"}, name : Seq(STRING), parent : Seq(STRING)]
  <2>1. PICK n \in Seq(Letter), p \in Seq(Letter) : n = r.name /\ p = r.parent /\ r.kind = "raw"
    BY <1>2, StringsAreTexts
  <2>2. PICK at \in Seq(Letter) : at = <<"@">>
    BY LetterWords, SingleProps
  <2>3. PICK m \in Seq(Letter) : m = n \o at
    BY ConcatProps
  <2>4. PICK t \in Seq(Letter) : t = m \o p
    BY ConcatProps
  <2>5. Display(r) = Wrap(t)
    BY <2>1, <2>2, <2>3, <2>4 DEF Display
  <2>6. QED BY <2>5, WrapElements
<1>3. CASE /\ r \in [kind : {"uid"}, group : Sizes, id : Sizes, obj : Sizes \ {Big},
                     name : SUBSET Seq(STRING)]
           /\ r.name = None \/ \E s \in r.name : r.name = Some(s)
  <2>1. r.kind = "uid" /\ r.group \in Sizes /\ r.id \in Sizes /\ r.obj \in Sizes \ {Big}
    BY <1>3
  <2>2. PICK q \in Seq(Letter) : q = NameOr(r.name)
    <3>1. CASE r.name = None
      <4>1. <<>> \in Seq(Letter)
        OBVIOUS
      <4>2. QED BY <3>1, <4>1 DEF NameOr
    <3>2. CASE r.name # None
      <4>1. PICK s \in Seq(STRING) : r.name = Some(s)
        BY <1>3, <3>2
      <4>2. Unwrap(r.name) = s
        BY <4>1 DEF Unwrap, Some
      <4>3. QED BY <3>2, <4>2, StringsAreTexts DEF NameOr
    <3>3. QED BY <3>1, <3>2
  <2>3. PICK a \in Letter, b \in Letter, c \in Letter :
          a = HexText[r.id] /\ b = HexText[r.group] /\ c = ObjText[r.obj]
    BY <2>1, NumbersSpelled, LetterWords
  <2>4. PICK d \in Seq(Letter) : d = Dots(a, b, c)
    <3>1. "." \in Letter /\ "@" \in Letter
      BY LetterWords
    <3>2. PICK x \in Letter, y \in Letter : x = "." /\ y = "@"
      BY <3>1
    <3>3. <<a, x, b, x, c, y>> \in Seq(Letter)
      OBVIOUS
    <3>4. QED BY <3>2, <3>3 DEF Dots
  <2>5. PICK t \in Seq(Letter) : t = d \o q
    BY ConcatProps
  <2>6. Display(r) = Wrap(t)
    BY <2>1, <2>2, <2>3, <2>4, <2>5 DEF Display, Dots
  <2>7. QED BY <2>6, WrapElements
<1>4. QED BY <1>1, <1>2, <1>3 DEF IsRtid

(* What a value begun with has become, if it has become a string.          *)
LEMMA BecameText ==
  ASSUME NEW w, IsValue(w), NEW been \in SUBSET Formats, Became(w, been).kind = "string"
  PROVE  \E s \in Seq(Letter) : Became(w, been) = StringVal(s)
<1> DEFINE o == Became(w, been)
           Goal == \E s \in Seq(Letter) : o = StringVal(s)
<1>1. ASSUME NEW s \in Seq(Letter), o = OfText(s) PROVE Goal
  <2>1. \A r : RtidVal(r).kind # "string"
    BY DEF RtidVal
  <2>2. QED BY <1>1, <2>1, OfTextProps, Zenon
<1>2. CASE w.kind = "string"
  <2>1. PICK s \in Seq(Letter) : w = StringVal(s)
    BY <1>2, StringsAreTexts DEF IsValue, StringVal
  <2>2. CASE been = {}
    BY <2>1, <2>2 DEF Became
  <2>3. CASE been # {} /\ blob_from_str(s).status = "ok"
    BY <2>1, <2>3 DEF Became, AsBlob, Outcome, StringVal, BinaryVal
  <2>4. CASE been # {} /\ blob_from_str(s).status # "ok"
    <3>1. PICK t \in Seq(Letter) : t = IF "compact" \in been THEN Kept(s) ELSE s
      BY KeptProps
    <3>2. o = OfText(t)
      BY <2>1, <2>4, <3>1 DEF Became, AsBlob, Outcome, StringVal, Kept
    <3>3. QED BY <1>1, <3>2
  <2>5. QED BY <2>2, <2>3, <2>4
<1>3. CASE w.kind = "rtid"
  <2>1. PICK r : w = RtidVal(r) /\ IsRtid(r)
    BY <1>3 DEF IsValue, RtidVal
  <2>2. been # {}
    BY <1>3 DEF Became
  <2>3. o = OfText(Display(r))
    BY <2>1, <2>2 DEF Became, AsBlob, Outcome, RtidVal
  <2>4. QED BY <1>1, <2>1, <2>3, DisplayTyped
<1>4. CASE w.kind \notin {"string", "rtid"}
  <2>1. been # {}
    BY <1>4 DEF Became
  <2>2. o = Outcome(w, been)
    BY <1>4, <2>1 DEF Became, AsBlob
  <2>3. w.kind \in {"null", "int", "float", "binary"}
    BY <1>4 DEF IsValue
  <2>4. CASE w.kind = "null"
    BY <2>2, <2>4 DEF Outcome, RtidVal
  <2>5. CASE w.kind = "int"
    BY <2>2, <2>5 DEF Outcome, IntVal
  <2>6. CASE w.kind = "float"
    BY <2>2, <2>6 DEF Outcome, RtidVal, FloatVal
  <2>7. CASE w.kind = "binary"
    BY <2>2, <2>7 DEF Outcome
  <2>8. QED BY <2>3, <2>4, <2>5, <2>6, <2>7
<1>5. QED BY <1>2, <1>3, <1>4

(* One more format, of a value that has stayed what it should be.          *)
LEMMA BlobsAreOne ==
  ASSUME NEW v, NEW b, NEW c, Blob(v, b), Blob(v, c)
  PROVE  b = c
<1>1. AsBlob(v) = BinaryVal(b) /\ AsBlob(v) = BinaryVal(c)
  BY BlobProps
<1>2. BinaryVal(b).bytes = b /\ BinaryVal(c).bytes = c
  BY DEF BinaryVal
<1>3. QED BY <1>1, <1>2

LEMMA BlobBecomes ==
  ASSUME NEW w, NEW b, Blob(w, b), NEW been
  PROVE  Blob(Became(w, been), b) /\ (w.kind = "binary" => Became(w, been) = w)
<1>1. AsBlob(w) = BinaryVal(b) /\ b \in Seq(0 .. 255)
  BY BlobProps
<1>2. Outcome(BinaryVal(b), been) = BinaryVal(b)
  BY DEF Outcome, BinaryVal
<1>3. w.kind = "binary" => w = BinaryVal(b)
  BY BlobProps
<1>4. CASE been = {}
  BY <1>4 DEF Became
<1>5. CASE been # {}
  BY <1>1, <1>2, <1>3, <1>5 DEF Became, Blob
<1>6. QED BY <1>4, <1>5

LEMMA WhichValue ==
  ASSUME NumeralsSpelled, NEW w, IsValue(w)
  PROVE  \/ \E b : Blob(w, b)
         \/ w = [kind |-> "null"]
         \/ \E n \in RustInt, fo \in BOOLEAN : w = [kind |-> "int", int |-> n, forced |-> fo]
         \/ \E ty, x : w = FloatVal(ty, x)
         \/ \E s \in Seq(Letter) : w = StringVal(s) /\ blob_from_str(s).status # "ok"
         \/ \E r : w = RtidVal(r) /\ Display(r) \in Seq(Letter)
<1>1. CASE w = [kind |-> "null"]
  BY <1>1
<1>2. CASE w \in [kind : {"int"}, int : RustInt, forced : BOOLEAN]
  BY <1>2
<1>3. CASE w \in [kind : {"float"}, ty : {"f32", "f64"}, val : {"+0", "-0", "x", "nan"}]
  <2>1. w = FloatVal(w.ty, w.val)
    BY <1>3 DEF FloatVal
  <2>2. QED BY <2>1
<1>4. CASE w \in [kind : {"string"}, str : Seq(STRING)]
  <2>1. PICK s \in Seq(Letter) : w = StringVal(s)
    BY <1>4, StringsAreTexts DEF StringVal
  <2>2. CASE blob_from_str(s).status = "ok"
    BY <2>1, <2>2, BlobRead DEF Blob, Spells
  <2>3. QED BY <2>1, <2>2
<1>5. CASE w \in [kind : {"binary"}, bytes : Seq(0 .. 255)]
  <2>1. w = BinaryVal(w.bytes) /\ w.bytes \in Seq(0 .. 255)
    BY <1>5 DEF BinaryVal
  <2>2. QED BY <2>1 DEF Blob
<1>6. CASE w.kind = "rtid" /\ w = [kind |-> "rtid", rtid |-> w.rtid] /\ IsRtid(w.rtid)
  <2>1. w = RtidVal(w.rtid) /\ Display(w.rtid) \in Seq(Letter)
    BY <1>6, DisplayTyped DEF RtidVal
  <2>2. QED BY <2>1
<1>7. QED BY <1>1, <1>2, <1>3, <1>4, <1>5, <1>6 DEF IsValue

LEMMA SameStep ==
  ASSUME NumeralsSpelled, NEW w, IsValue(w), ~CutLater(w), NEW been \in SUBSET Formats,
         NEW f \in Formats, NEW v, Same(Became(w, been), v)
  PROVE  Same(Became(w, been \cup {f}), Passed(f, v))
<1> DEFINE o == Became(w, been)
<1>1. ASSUME NEW b, Blob(w, b) PROVE Same(Became(w, been \cup {f}), Passed(f, v))
  <2>1. Blob(o, b) /\ Blob(Became(w, been \cup {f}), b)
    BY <1>1, BlobBecomes
  <2>2. Blob(v, b)
    <3>1. CASE v = o
      BY <2>1, <3>1
    <3>2. CASE v # o
      <4>1. PICK c : Blob(o, c) /\ Blob(v, c)
        BY <3>2 DEF Same
      <4>2. c = b
        BY <2>1, <4>1, BlobsAreOne
      <4>3. QED BY <4>1, <4>2
    <3>3. QED BY <3>1, <3>2
  <2>3. Blob(Passed(f, v), b)
    BY <2>2, BlobPass
  <2>4. QED BY <2>1, <2>3 DEF Same
<1>2. ASSUME Passed(f, o) = Became(w, been \cup {f})
      PROVE  Same(Became(w, been \cup {f}), Passed(f, v))
  <2>1. CASE v = o
    BY <1>2, <2>1 DEF Same
  <2>2. CASE v # o
    <3>1. PICK b : Blob(o, b) /\ Blob(v, b)
      BY <2>2 DEF Same
    <3>2. Blob(Passed(f, o), b) /\ Blob(Passed(f, v), b)
      BY <3>1, BlobPass
    <3>3. QED BY <1>2, <3>2 DEF Same
  <2>3. QED BY <2>1, <2>2
<1>3. CASE w = [kind |-> "null"]
  BY <1>2, <1>3, NullStep
<1>4. ASSUME NEW n \in RustInt, NEW fo \in BOOLEAN, w = [kind |-> "int", int |-> n, forced |-> fo]
      PROVE  Passed(f, o) = Became(w, been \cup {f})
  BY <1>4, IntStep
<1>5. ASSUME NEW ty, NEW x, w = FloatVal(ty, x) PROVE Passed(f, o) = Became(w, been \cup {f})
  BY <1>5, FloatStep
<1>6. ASSUME NEW s \in Seq(Letter), w = StringVal(s), blob_from_str(s).status # "ok"
      PROVE  Passed(f, o) = Became(w, been \cup {f})
  BY <1>6, StringStep
<1>7. ASSUME NEW r, w = RtidVal(r), Display(r) \in Seq(Letter)
      PROVE  Passed(f, o) = Became(w, been \cup {f})
  BY <1>7, RtidStep
<1> HIDE DEF o
<1>8. QED BY <1>1, <1>2, <1>3, <1>4, <1>5, <1>6, <1>7, WhichValue

(* BinaryBlob::from_str on a string that is still what it should be.       *)
LEMMA SameRecovered ==
  ASSUME NumeralsSpelled, NEW w, IsValue(w), NEW been \in SUBSET Formats, NEW v, Same(Became(w, been), v),
         v.kind = "string", blob_from_str(v.str).status = "ok"
  PROVE  Same(Became(w, been), BinaryVal(blob_from_str(v.str).bytes))
<1>1. ASSUME NEW b, Blob(v, b) PROVE Blob(BinaryVal(blob_from_str(v.str).bytes), b)
  <2>1. blob_from_str(v.str) = Decoded(b) /\ b \in Seq(0 .. 255)
    BY <1>1, BlobProps DEF Spells
  <2>2. Decoded(b).bytes = b
    BY DEF Decoded
  <2>3. QED BY <2>1, <2>2 DEF Blob
<1>2. CASE v = Became(w, been)
  <2>1. PICK s \in Seq(Letter) : v = StringVal(s)
    BY <1>2, BecameText
  <2>2. v.str = s
    BY <2>1 DEF StringVal
  <2>3. PICK b : Spells(s, b)
    BY <2>2, BlobRead
  <2>4. Blob(v, b)
    BY <2>1, <2>3 DEF Blob, Spells
  <2>5. QED BY <1>1, <1>2, <2>4 DEF Same
<1>3. CASE v # Became(w, been)
  BY <1>1, <1>3 DEF Same
<1>4. QED BY <1>2, <1>3
-----------------------------------------------------------------------------
(* The value in memory, or in a file, is what the formats behind it make   *)
(* of the one begun with; a file is one of that value; and only JSON turns *)
(* a blob into a string.                                                   *)
FilesTyped  == /\ passes \subseteq Formats
               /\ stage \in {"value", "file", "panic"}
               /\ stage = "file" => file.form \in Formats /\ file.visit = VisitIn(file.form, value)
StillSame   == stage # "panic" /\ ~CutLater(first) => Same(Became(first, passes), value)
BlobInJson  == first.kind = "binary" /\ value.kind = "string" => "json" \in passes
FInv == IsValue(first) /\ FilesTyped /\ StillSame /\ BlobInJson

LEMMA FInvInit == Init => FInv
<1> SUFFICES ASSUME Init PROVE FInv
  OBVIOUS
<1>1. IsValue(first)
  BY ValuesAssumption DEF Init, ValuesAssumption
<1>2. FilesTyped
  BY DEF Init, FilesTyped
<1>3. StillSame
  BY DEF Init, StillSame, Same, Became
<1>4. BlobInJson
  BY DEF Init, BlobInJson
<1>5. QED BY <1>1, <1>2, <1>3, <1>4 DEF FInv

LEMMA WriteKeeps ==
  ASSUME FInv, NEW f \in Formats, write(f, VisitIn(f, value))
  PROVE  FInv'
<1>1. /\ stage = "value" /\ stage' = "file" /\ value' = value /\ first' = first /\ passes' = passes
      /\ file'.form = f /\ file'.visit = VisitIn(f, value)
  BY DEF write
<1>2. QED
  BY <1>1 DEF FInv, FilesTyped, StillSame, BlobInJson

LEMMA ReadKeeps ==
  ASSUME NumeralsSpelled, FInv, Read
  PROVE  FInv'
<1>1. CASE file.sealed \/ (file.form = "json" /\ file.padded)
  BY <1>1 DEF Read, FInv, FilesTyped, StillSame, BlobInJson
<1>2. CASE ~(file.sealed \/ (file.form = "json" /\ file.padded))
  <2>1. /\ stage = "file" /\ stage' = "value" /\ value' = Visited(file.visit)
        /\ passes' = passes \cup {file.form} /\ first' = first
    BY <1>2 DEF Read
  <2>2. PICK f \in Formats : f = file.form /\ value' = Passed(f, value)
    BY <2>1 DEF FInv, FilesTyped, Passed
  <2>3. FilesTyped'
    BY <2>1, <2>2 DEF FInv, FilesTyped
  <2>4. StillSame'
    <3>1. SUFFICES ASSUME ~CutLater(first) PROVE Same(Became(first, passes'), value')
      BY <2>1 DEF StillSame
    <3>2. Same(Became(first, passes), value) /\ IsValue(first) /\ passes \in SUBSET Formats
      BY <2>1, <3>1 DEF FInv, FilesTyped, StillSame
    <3>3. Same(Became(first, passes \cup {f}), Passed(f, value))
      BY <3>1, <3>2, SameStep
    <3>4. QED BY <2>1, <2>2, <3>3
  <2>5. BlobInJson'
    <3>1. SUFFICES ASSUME first.kind = "binary", value'.kind = "string", f # "json", "json" \notin passes
                   PROVE  FALSE
      BY <2>1, <2>2 DEF BlobInJson
    <3>2. PICK b : Blob(first, b)
      BY <3>1 DEF FInv, IsValue, Blob, BinaryVal, Null
    <3>3. Same(Became(first, passes), value)
      <4>1. ~CutLater(first)
        BY <3>1 DEF CutLater
      <4>2. QED BY <2>1, <4>1 DEF FInv, StillSame
    <3>4. Blob(Became(first, passes), b) /\ Became(first, passes) = first
      BY <3>1, <3>2, BlobBecomes
    <3>5. PICK c : Blob(value, c)
      BY <3>3, <3>4 DEF Same
    <3>6. value.kind = "binary"
      BY <3>1, <3>5, BlobProps DEF FInv, BlobInJson
    <3>7. value' = BinaryVal(c)
      <4>1. value = BinaryVal(c) /\ Passed(f, value) = BinaryVal(c)
        <5>1. value = BinaryVal(c)
          BY <3>5, <3>6, BlobProps
        <5>2. QED BY <3>1, <3>5, <5>1, BlobPass
      <4>2. QED BY <2>2, <4>1
    <3>8. QED BY <3>1, <3>7 DEF BinaryVal
  <2>6. QED BY <2>1, <2>3, <2>4, <2>5 DEF FInv
<1>3. QED BY <1>1, <1>2

LEMMA SealKeeps ==
  ASSUME FInv, encrypt_data \/ decrypt_data
  PROVE  FInv'
<1>1. /\ stage = "file" /\ stage' = stage /\ value' = value /\ first' = first /\ passes' = passes
  BY DEF encrypt_data, decrypt_data
<1>2. file'.form = file.form /\ file'.visit = file.visit
  <2>1. CASE file' = file
    BY <2>1
  <2>2. CASE encrypt_data
    BY <2>2 DEF encrypt_data
  <2>3. CASE decrypt_data
    <3>1. \A p : /\ [file EXCEPT !.sealed = FALSE, !.padded = @ \/ p].form = file.form
                /\ [file EXCEPT !.sealed = FALSE, !.padded = @ \/ p].visit = file.visit
      OBVIOUS
    <3>2. file' = file \/ \E p : file' = [file EXCEPT !.sealed = FALSE, !.padded = @ \/ p]
      BY <2>3, Zenon DEF decrypt_data
    <3>3. QED BY <2>1, <3>1, <3>2, Zenon
  <2>4. QED BY <2>2, <2>3
<1>3. QED BY <1>1, <1>2 DEF FInv, FilesTyped, StillSame, BlobInJson

LEMMA RecoverKeeps ==
  ASSUME NumeralsSpelled, FInv, recover
  PROVE  FInv'
<1>1. PICK d : /\ d = blob_from_str(value.str)
               /\ stage' = IF d.status = "panic" THEN "panic" ELSE stage
               /\ value' = IF d.status = "ok" THEN BinaryVal(d.bytes) ELSE value
               /\ stage = "value" /\ value.kind = "string" /\ first' = first /\ passes' = passes
  BY DEF recover
<1>2. FilesTyped'
  BY <1>1 DEF FInv, FilesTyped
<1>3. BlobInJson'
  BY <1>1 DEF FInv, BlobInJson, BinaryVal
<1>4. StillSame'
  <2>1. CASE d.status = "ok"
    <3>1. SUFFICES ASSUME ~CutLater(first) PROVE Same(Became(first, passes), BinaryVal(d.bytes))
      BY <1>1, <2>1 DEF StillSame
    <3>2. Same(Became(first, passes), value) /\ IsValue(first) /\ passes \in SUBSET Formats
      BY <1>1, <3>1 DEF FInv, FilesTyped, StillSame
    <3>3. QED BY <1>1, <2>1, <3>2, SameRecovered
  <2>2. CASE d.status # "ok"
    BY <1>1, <2>2 DEF FInv, StillSame
  <2>3. QED BY <2>1, <2>2
<1>5. QED BY <1>1, <1>2, <1>3, <1>4 DEF FInv

LEMMA FInvStep == NumeralsSpelled /\ FInv /\ [Next]_vars => FInv'
<1> SUFFICES ASSUME NumeralsSpelled, FInv, [Next]_vars PROVE FInv'
  OBVIOUS
<1>1. CASE to_bytes
  BY <1>1, WriteKeeps DEF to_bytes, VisitIn, Formats
<1>2. CASE to_compact_bytes
  BY <1>2, WriteKeeps DEF to_compact_bytes, VisitIn, Formats
<1>3. CASE to_json
  BY <1>3, WriteKeeps DEF to_json, VisitIn, Formats
<1>4. CASE Read
  BY <1>4, ReadKeeps
<1>5. CASE encrypt_data \/ decrypt_data
  BY <1>5, SealKeeps
<1>6. CASE recover
  BY <1>6, RecoverKeeps
<1>7. CASE UNCHANGED vars
  BY <1>7 DEF vars, FInv, FilesTyped, StillSame, BlobInJson
<1>8. QED BY <1>1, <1>2, <1>3, <1>4, <1>5, <1>6, <1>7 DEF Next

LEMMA FInvHolds == ASSUME NumeralsSpelled PROVE Spec => []FInv
BY FInvInit, FInvStep, PTL DEF Spec

(* What a value has become by any number of conversions is a function of   *)
(* the set of formats it has been through (the Value of value.rs written   *)
(* and read by ser.rs, de.rs and serde_json, sealed or not), except for a  *)
(* wide text with a NUL in it that is an RTID's to one side only.          *)
THEOREM OrderDoesNotMatter ==
  ASSUME NumeralsSpelled
  PROVE  Spec => []OnlyThePasses
<1>1. FInv => OnlyThePasses
  <2>1. SUFFICES ASSUME FInv, stage = "value", passes # {}, ~CutLater(first)
                 PROVE  AsBlob(value) = AsBlob(Outcome(AsBlob(first), passes))
    BY DEF OnlyThePasses
  <2>2. Same(Outcome(AsBlob(first), passes), value)
    BY <2>1 DEF FInv, StillSame, Became
  <2>3. QED BY <2>2, BlobProps DEF Same
<1>2. QED BY <1>1, FInvHolds, PTL

(* A blob comes back out of every format as its bytes or, out of JSON, as  *)
(* the text BinaryBlob's Display gave it, of which from_str makes them     *)
(* again.                                                                  *)
THEOREM BlobKeepsItsBytes ==
  ASSUME NumeralsSpelled
  PROVE  Spec => []BlobSurvivesItsText
<1>1. FInv => BlobSurvivesItsText
  <2>1. SUFFICES ASSUME FInv, first.kind = "binary", stage = "value"
                 PROVE  \/ value = first
                        \/ /\ "json" \in passes /\ value.kind = "string"
                           /\ blob_from_str(value.str) = Decoded(first.bytes)
    BY DEF BlobSurvivesItsText
  <2>2. PICK b : Blob(first, b) /\ first.bytes = b
    BY <2>1 DEF FInv, IsValue, Blob, BinaryVal, Null
  <2>3. Same(Became(first, passes), value)
    <3>1. ~CutLater(first)
      BY <2>1 DEF CutLater
    <3>2. QED BY <2>1, <3>1 DEF FInv, StillSame
  <2>4. Blob(Became(first, passes), b) /\ Became(first, passes) = first
    BY <2>1, <2>2, BlobBecomes
  <2>5. Blob(value, b)
    BY <2>2, <2>3, <2>4, BlobsAreOne DEF Same
  <2>6. CASE value.kind = "binary"
    BY <2>1, <2>2, <2>5, <2>6, BlobProps
  <2>7. CASE value.kind = "string"
    <3>1. blob_from_str(value.str) = Decoded(b)
      BY <2>5, <2>7, BlobProps DEF Spells
    <3>2. QED BY <2>1, <2>2, <2>7, <3>1 DEF FInv, BlobInJson
  <2>8. QED BY <2>5, <2>6, <2>7, BlobProps
<1>2. QED BY <1>1, FInvHolds, PTL
=============================================================================
