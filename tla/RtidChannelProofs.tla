------------------------- MODULE RtidChannelProofs -------------------------
(***************************************************************************)
(* Proofs about RtidChannel.tla, for every set of RTIDs whose numbers the  *)
(* tables spell, with any names, and every set of texts: an RTID comes     *)
(* back from its own text exactly if it is faithful; the text read from    *)
(* the binary body is Display's; and what was parsed once is stable.       *)
(***************************************************************************)
EXTENDS RtidChannel, CodecProofs

(* The texts of an RTID with this format, and what parsing makes of them.  *)
ShowText(r) == CASE format = "standard" -> Display(r)
                 [] format = "runtime"  -> to_runtime_string(r)
                 [] format = "binary"   -> BinaryText(r)
Parsed(s)   == IF format = "runtime" THEN from_runtime_str(s) ELSE FromStr(s)
-----------------------------------------------------------------------------
(* Numbers the tables spell: every numeral is read as the number it was    *)
(* printed for.                                                            *)
LEMMA SpelledNumbers ==
  ASSUME NEW n \in Spelled
  PROVE  /\ n \in Sizes /\ n # Big /\ n <= U32Limit
         /\ DecText[n] \in DOMAIN DecValue /\ DecValue[DecText[n]] = n /\ DecText[n] # "\n"
         /\ ObjText[n] \in DOMAIN AnyHexValue /\ AnyHexValue[ObjText[n]] = n
<1>1. n \in {0, 1, 10, 16, 22} /\ n # 22
  BY DEF Spelled, Sizes, Big, DecText, DecValue
<1>2. n \in Sizes /\ n # Big /\ n <= U32Limit
  BY <1>1 DEF Sizes, Big, U32Limit
<1>3. DecText[n] \in DOMAIN DecValue /\ DecValue[DecText[n]] = n /\ DecText[n] # "\n"
  BY <1>1 DEF Sizes, Big, DecText, DecValue
<1>4. ObjText[n] \in DOMAIN AnyHexValue /\ AnyHexValue[ObjText[n]] = n
  <2>1. ObjText[n] \in DOMAIN HexValue /\ HexValue[ObjText[n]] = n /\ ObjText[n] # "A"
    BY <1>1 DEF Sizes, Big, ObjText, HexValue
  <2>2. QED BY <2>1 DEF AnyHexValue
<1>5. QED BY <1>2, <1>3, <1>4

(* No numeral is a mark of punctuation.                                    *)
Mark == {"@", ".", ":", "\n"}
LEMMA NoNumeralIsAMark ==
  /\ DOMAIN HexValue \cap Mark = {} /\ DOMAIN DecValue \cap Mark = {}
  /\ DOMAIN AnyHexValue \cap Mark = {} /\ DOMAIN DecValue \subseteq DOMAIN HexValue
  /\ \A w \in DOMAIN DecValue : DecValue[w] \in Spelled
  /\ \A w \in DOMAIN AnyHexValue : AnyHexValue[w] \in Sizes
<1>1. DOMAIN HexValue \cap Mark = {}
  BY DEF HexValue, Mark
<1>2. DOMAIN DecValue \cap Mark = {} /\ DOMAIN DecValue \subseteq DOMAIN HexValue
  BY DEF DecValue, HexValue, Mark
<1>3. DOMAIN AnyHexValue \cap Mark = {}
  <2>1. "A" \notin Mark
    BY DEF Mark
  <2>2. DOMAIN AnyHexValue = DOMAIN HexValue \cup {"A"}
    BY DEF AnyHexValue
  <2>3. QED BY <1>1, <2>1, <2>2
<1>4. ASSUME NEW w \in DOMAIN DecValue PROVE DecValue[w] \in Spelled
  <2>1. DecValue[w] \in {0, 1, 10, 16}
    BY DEF DecValue
  <2>2. {0, 1, 10, 16} \subseteq Spelled
    BY DEF Spelled, Sizes, Big, DecText, DecValue
  <2>3. QED BY <2>1, <2>2
<1>5. ASSUME NEW w \in DOMAIN AnyHexValue PROVE AnyHexValue[w] \in Sizes
  <2>1. CASE w = "A"
    BY <2>1 DEF AnyHexValue, Sizes
  <2>2. CASE w # "A"
    <3>1. w \in DOMAIN HexValue /\ AnyHexValue[w] = HexValue[w]
      BY <2>2 DEF AnyHexValue
    <3>2. QED BY <3>1, NumeralTables
  <2>3. QED BY <2>1, <2>2
<1>6. QED BY <1>1, <1>2, <1>3, <1>4, <1>5

(* A text in its brackets is one of an RTID if it is on one line.          *)
LEMMA WrappedIff ==
  ASSUME NEW t \in Seq(Letter)
  PROVE  /\ Wrapped(Wrap(t)) <=> ~Contains(t, "\n")
         /\ Inner(Wrap(t)) = t
<1>1. Inner(Wrap(t)) = t /\ (~Contains(t, "\n") => Wrapped(Wrap(t)))
  BY WrapProps
<1>2. ASSUME Contains(t, "\n") PROVE ~Wrapped(Wrap(t))
  <2>1. PICK i \in 1 .. Len(t) : t[i] = "\n"
    BY <1>2 DEF Contains
  <2>2. Wrap(t)[i + 1] = "\n" /\ i + 1 \in 1 .. Len(Wrap(t))
    BY <2>1, WrapElements
  <2>3. Contains(Wrap(t), "\n")
    BY <2>2 DEF Contains
  <2>4. QED BY <2>3 DEF Wrapped
<1>3. QED BY <1>1, <1>2
-----------------------------------------------------------------------------
(* Six words of numbers, then the name.                                    *)
Spells(t, a, b, c, q) ==
  /\ t \in Seq(Letter) /\ Len(t) = 6 + Len(q)
  /\ t[1] = a /\ t[2] = "." /\ t[3] = b /\ t[4] = "." /\ t[5] = c /\ t[6] = "@"
  /\ \A i \in 1 .. Len(q) : t[6 + i] = q[i]

LEMMA DotsProps ==
  ASSUME NEW a \in Letter, NEW b \in Letter, NEW c \in Letter, NEW q \in Seq(Letter),
         a # "\n", b # "\n", c # "\n"
  PROVE  /\ Spells(Dots(a, b, c) \o q, a, b, c, q)
         /\ Contains(Dots(a, b, c) \o q, "\n") <=> Contains(q, "\n")
<1>11. PICK t : t = Dots(a, b, c) \o q
  OBVIOUS
<1>1. "." \in Letter /\ "@" \in Letter
  BY LetterWords
<1>0. PICK d : d = Dots(a, b, c)
  OBVIOUS
<1>2. /\ d \in Seq(Letter) /\ Len(d) = 6
      /\ d[1] = a /\ d[2] = "." /\ d[3] = b /\ d[4] = "." /\ d[5] = c /\ d[6] = "@"
  BY <1>0, <1>1 DEF Dots
<1>3. /\ t \in Seq(Letter) /\ Len(t) = Len(d) + Len(q) /\ \A i \in 1 .. Len(d) : t[i] = d[i]
      /\ \A i \in Len(d) + 1 .. Len(d) + Len(q) : t[i] = q[i - Len(d)]
  <2>1. PICK e \in Seq(Letter) : e = d
    BY <1>2
  <2>2. t = e \o q
    BY <1>0, <1>11, <2>1
  <2>3. /\ e \o q \in Seq(Letter) /\ Len(e \o q) = Len(e) + Len(q)
        /\ \A i \in 1 .. Len(e) : (e \o q)[i] = e[i]
        /\ \A i \in Len(e) + 1 .. Len(e) + Len(q) : (e \o q)[i] = q[i - Len(e)]
    BY ConcatProps, Zenon
  <2>4. QED BY <2>1, <2>2, <2>3, Zenon
<1>4. Len(q) \in Nat
  BY ElementProps
<1>5. \A i \in 1 .. Len(q) : t[6 + i] = q[i]
  BY <1>2, <1>3, <1>4
<1>6. /\ Len(t) = 6 + Len(q)
      /\ t[1] = a /\ t[2] = "." /\ t[3] = b /\ t[4] = "." /\ t[5] = c /\ t[6] = "@"
  BY <1>2, <1>3, <1>4
<1>7. Spells(t, a, b, c, q)
  BY <1>3, <1>5, <1>6 DEF Spells
<1>8. ASSUME Contains(q, "\n") PROVE Contains(t, "\n")
  <2>1. PICK i \in 1 .. Len(q) : q[i] = "\n"
    BY <1>8 DEF Contains
  <2>2. 6 + i \in 1 .. Len(t) /\ t[6 + i] = "\n"
    BY <1>4, <1>5, <1>6, <2>1
  <2>3. QED BY <2>2 DEF Contains
<1>9. ASSUME Contains(t, "\n") PROVE Contains(q, "\n")
  <2>1. PICK i \in 1 .. Len(t) : t[i] = "\n"
    BY <1>9 DEF Contains
  <2>2. i \notin {1, 2, 3, 4, 5, 6}
    BY <1>6, <2>1
  <2>3. i - 6 \in 1 .. Len(q) /\ i = 6 + (i - 6)
    BY <1>4, <1>6, <2>1, <2>2
  <2>4. q[i - 6] = "\n"
    BY <1>5, <2>1, <2>3
  <2>5. QED BY <2>3, <2>4 DEF Contains
<1>10. QED BY <1>7, <1>8, <1>9, <1>11, Zenon

LEMMA SpelledName ==
  ASSUME NEW a, NEW b, NEW c, NEW q \in Seq(Letter), NEW t, Spells(t, a, b, c, q)
  PROVE  NameFrom(t, 7) = IF q = <<>> THEN None ELSE Some(q)
<1>1. PICK m \in Nat : m = Len(t) /\ m = 6 + Len(q) /\ Len(q) \in Nat
  BY ElementProps DEF Spells
<1>2. CASE Len(q) = 0
  <2>1. q = <<>>
    BY <1>2, ElementProps
  <2>2. QED BY <1>1, <1>2, <2>1 DEF NameFrom
<1>3. CASE Len(q) # 0
  <2> DEFINE u == SubSeq(t, 7, m)
  <2>1. u \in Seq(Letter) /\ Len(u) = m - 7 + 1 /\ \A i \in 1 .. m - 7 + 1 : u[i] = t[7 + i - 1]
    <3>1. 7 \in Nat /\ m <= Len(t) /\ 7 <= m + 1 /\ 7 >= 1 /\ t \in Seq(Letter)
      BY <1>1, <1>3 DEF Spells
    <3>2. QED BY <3>1, PartProps, SMTT(30)
  <2> HIDE DEF u
  <2>2. Len(u) = Len(q) /\ \A i \in 1 .. Len(u) : u[i] = q[i]
    BY <1>1, <2>1 DEF Spells
  <2>3. u = q
    BY <2>1, <2>2, SameElements
  <2>4. ~(Len(t) < 7) /\ q # <<>>
    BY <1>1, <1>3
  <2>5. QED BY <1>1, <2>3, <2>4 DEF NameFrom, u
<1>4. QED BY <1>2, <1>3
-----------------------------------------------------------------------------
(* A name, an "@" and a parent.                                            *)
Joins(t, n, p) ==
  /\ t \in Seq(Letter) /\ Len(t) = Len(n) + 1 + Len(p)
  /\ t[Len(n) + 1] = "@"
  /\ \A i \in 1 .. Len(n) : t[i] = n[i]
  /\ \A i \in 1 .. Len(p) : t[Len(n) + 1 + i] = p[i]

LEMMA JoinProps ==
  ASSUME NEW n \in Seq(Letter), NEW p \in Seq(Letter), NEW t, t = n \o <<"@">> \o p
  PROVE  Joins(t, n, p)
<1>1. PICK m \in Seq(Letter) : m = <<"@">> /\ Len(m) = 1 /\ m[1] = "@"
  BY LetterWords, SingleProps
<1>2. PICK w \in Seq(Letter) : w = n \o m
  BY ConcatProps
<1>3. /\ Len(w) = Len(n) + Len(m) /\ \A i \in 1 .. Len(n) : w[i] = n[i]
      /\ \A i \in Len(n) + 1 .. Len(n) + Len(m) : w[i] = m[i - Len(n)]
  BY <1>2, ConcatProps, ZenonT(40)
<1>4. t = w \o p
  BY <1>1, <1>2
<1>5. /\ t \in Seq(Letter) /\ Len(t) = Len(w) + Len(p) /\ \A i \in 1 .. Len(w) : t[i] = w[i]
      /\ \A i \in Len(w) + 1 .. Len(w) + Len(p) : t[i] = p[i - Len(w)]
  <2>1. /\ w \o p \in Seq(Letter) /\ Len(w \o p) = Len(w) + Len(p)
        /\ \A i \in 1 .. Len(w) : (w \o p)[i] = w[i]
        /\ \A i \in Len(w) + 1 .. Len(w) + Len(p) : (w \o p)[i] = p[i - Len(w)]
    <3>1. w \in Seq(Letter)
      BY <1>2
    <3>2. QED BY <3>1, ConcatProps, Zenon
  <2>2. QED BY <1>4, <2>1, Zenon
<1>6. Len(n) \in Nat /\ Len(p) \in Nat
  BY ElementProps
<1>7. Len(w) = Len(n) + 1 /\ w[Len(n) + 1] = "@"
  BY <1>1, <1>3, <1>6
<1>8. \A i \in 1 .. Len(n) : t[i] = n[i]
  BY <1>3, <1>5, <1>6, <1>7
<1>9. t[Len(n) + 1] = "@"
  BY <1>5, <1>6, <1>7
<1>10. \A i \in 1 .. Len(p) : t[Len(n) + 1 + i] = p[i]
  <2> TAKE i \in 1 .. Len(p)
  <2>1. Len(n) + 1 + i \in Len(w) + 1 .. Len(w) + Len(p) /\ (Len(n) + 1 + i) - Len(w) = i
    BY <1>6, <1>7
  <2>2. QED BY <1>5, <2>1
<1>11. QED BY <1>5, <1>6, <1>7, <1>8, <1>9, <1>10 DEF Joins

(* Where its words come from.                                              *)
LEMMA JoinPlaces ==
  ASSUME NEW n \in Seq(Letter), NEW p \in Seq(Letter), NEW t, Joins(t, n, p), NEW i \in 1 .. Len(t)
  PROVE  \/ i \in 1 .. Len(n) /\ t[i] = n[i]
         \/ i = Len(n) + 1 /\ t[i] = "@"
         \/ i - (Len(n) + 1) \in 1 .. Len(p) /\ t[i] = p[i - (Len(n) + 1)]
<1>1. Len(n) \in Nat /\ Len(p) \in Nat
  BY ElementProps
<1>2. CASE i <= Len(n)
  BY <1>1, <1>2 DEF Joins
<1>3. CASE i = Len(n) + 1
  BY <1>3 DEF Joins
<1>4. CASE i > Len(n) + 1
  <2>1. i - (Len(n) + 1) \in 1 .. Len(p) /\ i = Len(n) + 1 + (i - (Len(n) + 1))
    BY <1>1, <1>4 DEF Joins
  <2>2. t[Len(n) + 1 + (i - (Len(n) + 1))] = p[i - (Len(n) + 1)]
    BY <2>1 DEF Joins
  <2>3. QED BY <2>1, <2>2
<1>5. QED BY <1>1, <1>2, <1>3, <1>4

LEMMA JoinContains ==
  ASSUME NEW n \in Seq(Letter), NEW p \in Seq(Letter), NEW t, Joins(t, n, p), NEW x, x # "@"
  PROVE  Contains(t, x) <=> Contains(n, x) \/ Contains(p, x)
<1>1. Len(n) \in Nat /\ Len(p) \in Nat
  BY ElementProps
<1>2. ASSUME Contains(t, x) PROVE Contains(n, x) \/ Contains(p, x)
  <2>1. PICK i \in 1 .. Len(t) : t[i] = x
    BY <1>2 DEF Contains
  <2>2. \/ i \in 1 .. Len(n) /\ n[i] = x
        \/ i - (Len(n) + 1) \in 1 .. Len(p) /\ p[i - (Len(n) + 1)] = x
    BY <2>1, JoinPlaces
  <2>3. QED BY <2>2 DEF Contains
<1>3. ASSUME Contains(n, x) PROVE Contains(t, x)
  <2>1. PICK i \in 1 .. Len(n) : n[i] = x
    BY <1>3 DEF Contains
  <2>2. i \in 1 .. Len(t) /\ t[i] = x
    BY <1>1, <2>1 DEF Joins
  <2>3. QED BY <2>2 DEF Contains
<1>4. ASSUME Contains(p, x) PROVE Contains(t, x)
  <2>1. PICK i \in 1 .. Len(p) : p[i] = x
    BY <1>4 DEF Contains
  <2>2. Len(n) + 1 + i \in 1 .. Len(t) /\ t[Len(n) + 1 + i] = x
    BY <1>1, <2>1 DEF Joins
  <2>3. QED BY <2>2 DEF Contains
<1>5. QED BY <1>2, <1>3, <1>4

(* It is one name and one parent exactly if there is no other "@" and the  *)
(* name is not empty; and then it is these two.                            *)
LEMMA JoinIsPair ==
  ASSUME NEW n \in Seq(Letter), NEW p \in Seq(Letter), NEW t, Joins(t, n, p)
  PROVE  RawPair(t) <=> n # <<>> /\ NoAt(n) /\ NoAt(p)
<1>1. Len(n) \in Nat /\ Len(p) \in Nat /\ Len(t) \in Nat /\ DOMAIN t = 1 .. Len(t)
  BY ElementProps DEF Joins
<1> DEFINE ats == {i \in DOMAIN t : t[i] = "@"}
           at  == Len(n) + 1
<1>2. at \in ats
  BY <1>1 DEF Joins
<1>3. RawPair(t) <=> Cardinality(ats) = 1 /\ 1 \notin ats
  BY DEF RawPair
<1>4. ASSUME RawPair(t) PROVE n # <<>> /\ NoAt(n) /\ NoAt(p)
  <2>1. PICK x : ats = {x}
    <3>1. Cardinality(ats) = 1 /\ IsFiniteSet(ats)
      <4>1. ats \subseteq 1 .. Len(t) /\ IsFiniteSet(1 .. Len(t))
        BY <1>1, FS_Interval
      <4>2. QED BY <1>3, <1>4, <4>1, FS_Subset
    <3>2. QED BY <3>1, FS_Singleton
  <2>2. x = at
    BY <1>2, <2>1
  <2>3. n # <<>>
    BY <1>2, <1>3, <1>4
  <2>4. NoAt(n)
    <3>1. ASSUME NEW i \in 1 .. Len(n), n[i] = "@" PROVE FALSE
      <4>1. i \in ats
        BY <1>1, <3>1 DEF Joins
      <4>2. i # at
        BY <1>1
      <4>3. QED BY <2>1, <2>2, <4>1, <4>2
    <3>2. QED BY <3>1 DEF NoAt, Contains
  <2>5. NoAt(p)
    <3>1. ASSUME NEW i \in 1 .. Len(p), p[i] = "@" PROVE FALSE
      <4>1. Len(n) + 1 + i \in ats
        BY <1>1, <3>1 DEF Joins
      <4>2. Len(n) + 1 + i # at
        BY <1>1
      <4>3. QED BY <2>1, <2>2, <4>1, <4>2
    <3>2. QED BY <3>1 DEF NoAt, Contains
  <2>6. QED BY <2>3, <2>4, <2>5
<1>5. ASSUME n # <<>>, NoAt(n), NoAt(p) PROVE RawPair(t)
  <2>1. ASSUME NEW i \in ats PROVE i = at
    <3>1. \/ i \in 1 .. Len(n) /\ n[i] = "@"
          \/ i = at
          \/ i - at \in 1 .. Len(p) /\ p[i - at] = "@"
      BY <1>1, JoinPlaces
    <3>2. QED BY <1>5, <3>1 DEF NoAt, Contains
  <2>2. ats = {at}
    BY <1>2, <2>1
  <2>3. Cardinality(ats) = 1
    BY <2>2, FS_Singleton
  <2>4. at # 1
    BY <1>1, <1>5, ElementProps
  <2>5. QED BY <1>3, <2>2, <2>3, <2>4
<1>6. QED BY <1>4, <1>5

LEMMA PairRead ==
  ASSUME NEW n \in Seq(Letter), NEW p \in Seq(Letter), NEW t, Joins(t, n, p), RawPair(t)
  PROVE  RawRtid(t) = Raw(n, p)
<1>1. Len(n) \in Nat /\ Len(p) \in Nat /\ Len(t) \in Nat /\ t \in Seq(Letter) /\ DOMAIN t = 1 .. Len(t)
  BY ElementProps DEF Joins
<1>2. n # <<>> /\ NoAt(n) /\ NoAt(p)
  BY JoinIsPair
<1>3. Contains(t, "@")
  BY <1>1 DEF Joins, Contains
<1>4. PICK at : at = SelectInSeq(t, LAMBDA x : x = "@")
  OBVIOUS
<1>5. at = Len(n) + 1
  <2>1. at = Min({i \in 1 .. Len(t) : t[i] = "@"})
    BY <1>3, <1>4 DEF SelectInSeq, Contains
  <2>2. at \in 1 .. Len(t) /\ t[at] = "@"
    BY <1>1, <1>3, <2>1, FirstPlace
  <2>3. \/ at \in 1 .. Len(n) /\ n[at] = "@"
        \/ at = Len(n) + 1
        \/ at - (Len(n) + 1) \in 1 .. Len(p) /\ p[at - (Len(n) + 1)] = "@"
    BY <2>2, JoinPlaces
  <2>4. QED BY <1>2, <2>3 DEF NoAt, Contains
<1>6. PICK m \in Nat : m = Len(n) + 1 + Len(p) /\ m = Len(t)
  BY <1>1 DEF Joins
<1>7. SubSeq(t, 1, at - 1) = n
  <2>1. at - 1 \in Nat /\ at - 1 = Len(n) /\ Len(n) <= Len(t) /\ 1 <= Len(n) + 1
    BY <1>1, <1>5, <1>6
  <2> DEFINE u == SubSeq(t, 1, Len(n))
  <2>2. u \in Seq(Letter) /\ Len(u) = Len(n) - 1 + 1 /\ \A i \in 1 .. Len(n) - 1 + 1 : u[i] = t[1 + i - 1]
    BY <1>1, <2>1, PartProps
  <2> HIDE DEF u
  <2>3. Len(u) = Len(n) /\ \A i \in 1 .. Len(u) : u[i] = n[i]
    BY <1>1, <2>2 DEF Joins
  <2>4. u = n
    BY <2>2, <2>3, SameElements
  <2>5. QED BY <2>1, <2>4 DEF u
<1>8. SubSeq(t, at + 1, Len(t)) = p
  <2> DEFINE k == at + 1
             u == SubSeq(t, k, m)
  <2>1. k \in Nat /\ k >= 1 /\ m <= Len(t) /\ k <= m + 1 /\ k = Len(n) + 2
    BY <1>1, <1>5, <1>6
  <2> HIDE DEF k
  <2>2. u \in Seq(Letter) /\ Len(u) = m - k + 1 /\ \A i \in 1 .. m - k + 1 : u[i] = t[k + i - 1]
    BY <1>1, <2>1, PartProps
  <2> HIDE DEF u
  <2>3. Len(u) = Len(p)
    <3>1. m - k + 1 = Len(p)
      BY <1>1, <1>6, <2>1
    <3>2. QED BY <2>2, <3>1
  <2>4. ASSUME NEW i \in 1 .. Len(u) PROVE u[i] = p[i]
    <3>1. k + i - 1 = Len(n) + 1 + i /\ i \in 1 .. m - k + 1 /\ i \in 1 .. Len(p)
      BY <1>1, <2>1, <2>2, <2>3
    <3>2. QED BY <2>2, <3>1 DEF Joins
  <2>5. u = p
    BY <2>2, <2>3, <2>4, SameElements
  <2>6. QED BY <1>6, <2>5 DEF u, k
<1>9. QED BY <1>4, <1>7, <1>8 DEF RawRtid

(* Which other patterns such a text matches: said of the name and the      *)
(* parent.                                                                 *)
LEMMA JoinDotted ==
  ASSUME NEW n \in Seq(Letter), NEW p \in Seq(Letter), NEW t, Joins(t, n, p), RawPair(t),
         NEW xs, NEW zs, DOMAIN xs \cap Mark = {}, DOMAIN zs \cap Mark = {}
  PROVE  Dotted(t, 1, xs, zs) <=> /\ Len(n) = 5 /\ n[2] = "." /\ n[4] = "."
                                  /\ n[1] \in DOMAIN xs /\ n[3] \in DOMAIN xs /\ n[5] \in DOMAIN zs
<1>0. PICK k \in Nat : k = Len(n) /\ k >= 1
  BY JoinIsPair, ElementProps
<1>1. Len(n) \in Nat /\ Len(p) \in Nat /\ n # <<>> /\ NoAt(n) /\ NoAt(p)
  BY JoinIsPair, ElementProps
<1>2. "@" \notin DOMAIN xs /\ "@" \notin DOMAIN zs
  BY DEF Mark
<1>3. ASSUME Dotted(t, 1, xs, zs) PROVE Len(n) = 5
  <2>1. /\ Len(t) >= 6 /\ t[1] # "@" /\ t[2] # "@" /\ t[3] # "@" /\ t[4] # "@" /\ t[5] # "@" /\ t[6] = "@"
    BY <1>2, <1>3 DEF Dotted
  <2>2. t[Len(n) + 1] = "@"
    BY DEF Joins
  <2>3. ~(Len(n) + 1 \in 1 .. 5)
    <3>1. \A i \in 1 .. 5 : t[i] # "@"
      BY <2>1
    <3>2. QED BY <2>2, <3>1
  <2>4. Len(n) < 6
    <3>1. Len(n) >= 6 => 6 \in 1 .. Len(n) /\ n[6] = "@"
      BY <1>1, <2>1 DEF Joins
    <3>2. QED BY <1>1, <3>1 DEF NoAt, Contains
  <2>5. k < 6 /\ ~(k + 1 \in 1 .. 5)
    BY <1>0, <2>3, <2>4
  <2>6. k = 5
    BY <1>0, <2>5
  <2>7. QED BY <1>0, <2>6
<1>4. ASSUME Len(n) = 5
      PROVE  /\ Len(t) >= 6 /\ t[6] = "@"
             /\ t[1] = n[1] /\ t[2] = n[2] /\ t[3] = n[3] /\ t[4] = n[4] /\ t[5] = n[5]
  BY <1>1, <1>4 DEF Joins
<1>5. Len(n) = 5 => (Dotted(t, 1, xs, zs) <=> /\ n[2] = "." /\ n[4] = "."
                        /\ n[1] \in DOMAIN xs /\ n[3] \in DOMAIN xs /\ n[5] \in DOMAIN zs)
  BY <1>4 DEF Dotted
<1>6. QED BY <1>3, <1>5

LEMMA JoinColon ==
  ASSUME NEW n \in Seq(Letter), NEW p \in Seq(Letter), NEW t, Joins(t, n, p), RawPair(t)
  PROVE  Colon(t) <=> SpellsPair(n) /\ Len(p) = 1 /\ p[1] \in DOMAIN DecValue
<1>0. PICK k \in Nat : k = Len(n) /\ k >= 1
  BY JoinIsPair, ElementProps
<1>1. Len(n) \in Nat /\ Len(p) \in Nat /\ n # <<>> /\ NoAt(n) /\ NoAt(p)
  BY JoinIsPair, ElementProps
<1>2. "@" \notin DOMAIN DecValue
  BY NoNumeralIsAMark DEF Mark
<1>3. ASSUME Colon(t) PROVE Len(n) = 4 /\ Len(p) = 1
  <2>1. Len(t) \in {4, 6} /\ t[1] # "@" /\ t[2] # "@" /\ t[3] # "@" /\ t[4] # "@"
    BY <1>2, <1>3 DEF Colon
  <2>2. t[Len(n) + 1] = "@" /\ Len(t) = Len(n) + 1 + Len(p)
    BY DEF Joins
  <2>3. ~(Len(n) + 1 \in 1 .. 4)
    <3>1. \A i \in 1 .. 4 : t[i] # "@"
      BY <2>1
    <3>2. QED BY <2>2, <3>1
  <2>4. Len(t) = 6
    BY <1>1, <2>1, <2>2, <2>3
  <2>5. t[5] = "@"
    BY <1>3, <2>4 DEF Colon
  <2>6. Len(n) < 5
    <3>1. Len(n) >= 5 => 5 \in 1 .. Len(n) /\ n[5] = "@"
      BY <1>1, <2>5 DEF Joins
    <3>2. QED BY <1>1, <3>1 DEF NoAt, Contains
  <2>7. PICK l \in Nat : l = Len(p)
    BY <1>1
  <2>8. k + 1 + l = 6 /\ k < 5 /\ ~(k + 1 \in 1 .. 4)
    BY <1>0, <2>2, <2>3, <2>4, <2>6, <2>7
  <2>9. k = 4 /\ l = 1
    BY <1>0, <2>7, <2>8
  <2>10. QED BY <1>0, <2>7, <2>9
<1>4. ASSUME Len(n) = 4, Len(p) = 1
      PROVE  /\ Len(t) = 6 /\ t[5] = "@" /\ t[6] = p[1]
             /\ t[1] = n[1] /\ t[2] = n[2] /\ t[3] = n[3] /\ t[4] = n[4]
  BY <1>1, <1>4 DEF Joins
<1>5. Len(n) = 4 /\ Len(p) = 1 => (Colon(t) <=> SpellsPair(n) /\ p[1] \in DOMAIN DecValue)
  BY <1>4 DEF Colon, SpellsPair
<1>6. SpellsPair(n) => Len(n) = 4
  BY DEF SpellsPair
<1>7. QED BY <1>3, <1>5, <1>6

LEMMA TailProps ==
  ASSUME NEW S, NEW s \in Seq(S), s # <<>>
  PROVE  Tail(s) \in Seq(S) /\ Len(Tail(s)) = Len(s) - 1 /\ \A i \in 1 .. Len(s) - 1 : Tail(s)[i] = s[i + 1]
OBVIOUS

LEMMA JoinColonDotted ==
  ASSUME NEW n \in Seq(Letter), NEW p \in Seq(Letter), NEW t, Joins(t, n, p), RawPair(t)
  PROVE  Dotted(t, 2, DecValue, HexValue) /\ t[1] = ":" /\ Len(t) > 7
           <=> SpellsDec(Colonless(n)) /\ p # <<>>
<1>0. PICK k \in Nat : k = Len(n) /\ k >= 1
  BY JoinIsPair, ElementProps
<1>1. Len(n) \in Nat /\ Len(p) \in Nat /\ n # <<>> /\ NoAt(n) /\ NoAt(p)
  BY JoinIsPair, ElementProps
<1>2. "@" \notin DOMAIN DecValue /\ "@" \notin DOMAIN HexValue /\ DOMAIN DecValue \subseteq DOMAIN HexValue
  BY NoNumeralIsAMark DEF Mark
<1>3. ASSUME Dotted(t, 2, DecValue, HexValue), t[1] = ":" PROVE Len(n) = 6
  <2>1. /\ Len(t) >= 7 /\ t[1] # "@" /\ t[2] # "@" /\ t[3] # "@" /\ t[4] # "@" /\ t[5] # "@" /\ t[6] # "@"
        /\ t[7] = "@"
    BY <1>2, <1>3 DEF Dotted
  <2>2. t[Len(n) + 1] = "@"
    BY DEF Joins
  <2>3. ~(Len(n) + 1 \in 1 .. 6)
    <3>1. \A i \in 1 .. 6 : t[i] # "@"
      BY <2>1
    <3>2. QED BY <2>2, <3>1
  <2>4. Len(n) < 7
    <3>1. Len(n) >= 7 => 7 \in 1 .. Len(n) /\ n[7] = "@"
      BY <1>1, <2>1 DEF Joins
    <3>2. QED BY <1>1, <3>1 DEF NoAt, Contains
  <2>5. QED BY <1>0, <2>3, <2>4
<1>4. ASSUME Len(n) = 6
      PROVE  /\ Len(t) = 7 + Len(p) /\ t[7] = "@"
             /\ t[1] = n[1] /\ t[2] = n[2] /\ t[3] = n[3] /\ t[4] = n[4] /\ t[5] = n[5] /\ t[6] = n[6]
  BY <1>1, <1>4 DEF Joins
<1>5. Len(n) = 6 /\ n[1] = ":" => /\ Len(Colonless(n)) = 5 /\ Colonless(n)[1] = n[2] /\ Colonless(n)[2] = n[3]
                                  /\ Colonless(n)[3] = n[4] /\ Colonless(n)[4] = n[5] /\ Colonless(n)[5] = n[6]
  <2>1. SUFFICES ASSUME Len(n) = 6, n[1] = ":"
                 PROVE  /\ Len(Colonless(n)) = 5 /\ Colonless(n)[1] = n[2] /\ Colonless(n)[2] = n[3]
                        /\ Colonless(n)[3] = n[4] /\ Colonless(n)[4] = n[5] /\ Colonless(n)[5] = n[6]
    OBVIOUS
  <2>2. PICK s : s = Tail(n)
    OBVIOUS
  <2>3. Colonless(n) = s
    BY <1>1, <2>1, <2>2 DEF Colonless
  <2>4. Len(s) = Len(n) - 1 /\ \A i \in 1 .. Len(n) - 1 : s[i] = n[i + 1]
    BY <1>1, <2>2, TailProps
  <2>5. QED BY <2>1, <2>3, <2>4
<1>6. SpellsDec(Colonless(n)) => Len(n) = 6 /\ n[1] = ":"
  <2>1. SpellsDec(Colonless(n)) => Len(Colonless(n)) = 5
    BY DEF SpellsDec, SpellsHex
  <2>2. ~(n # <<>> /\ n[1] = ":") => Len(Colonless(n)) = 0
    BY DEF Colonless
  <2>3. n # <<>> /\ n[1] = ":" => Len(Colonless(n)) = Len(n) - 1
    <3>1. Len(Tail(n)) = Len(n) - 1
      BY <1>1, TailProps
    <3>2. QED BY <3>1 DEF Colonless
  <2>4. SUFFICES ASSUME SpellsDec(Colonless(n)) PROVE Len(n) = 6 /\ n[1] = ":"
    OBVIOUS
  <2>5. n # <<>> /\ n[1] = ":"
    <3>1. SUFFICES ASSUME ~(n # <<>> /\ n[1] = ":") PROVE FALSE
      OBVIOUS
    <3>2. Len(Colonless(n)) = 0 /\ Len(Colonless(n)) = 5
      BY <2>1, <2>2, <2>4, <3>1, Zenon
    <3>3. PICK l : l = Len(Colonless(n))
      OBVIOUS
    <3>4. l = 0 /\ l = 5
      BY <3>2, <3>3, Zenon
    <3>5. QED BY <3>4
  <2>6. k \in Nat /\ k - 1 = 5
    BY <1>0, <2>1, <2>3, <2>4, <2>5
  <2>7. k = 6
    BY <2>6
  <2>8. QED BY <1>0, <2>5, <2>7
<1>7. ASSUME Len(n) = 6, n[1] = ":"
      PROVE  Dotted(t, 2, DecValue, HexValue) <=> SpellsDec(Colonless(n))
  <2>1. SpellsDec(Colonless(n)) <=> /\ n[3] = "." /\ n[5] = "."
                                    /\ n[2] \in DOMAIN DecValue /\ n[4] \in DOMAIN DecValue /\ n[6] \in DOMAIN HexValue
    BY <1>2, <1>5, <1>7 DEF SpellsDec, SpellsHex
  <2>2. Dotted(t, 2, DecValue, HexValue)
          <=> /\ n[3] = "." /\ n[5] = "."
              /\ n[2] \in DOMAIN DecValue /\ n[4] \in DOMAIN DecValue /\ n[6] \in DOMAIN HexValue
    BY <1>1, <1>4, <1>7 DEF Dotted
  <2>3. QED BY <2>1, <2>2
<1>8. Len(n) = 6 => (Len(t) > 7 <=> p # <<>>)
  <2>1. p # <<>> <=> Len(p) >= 1
    BY ElementProps
  <2>2. QED BY <1>1, <1>4, <2>1
<1>9. Len(n) = 6 => (t[1] = ":" <=> n[1] = ":")
  BY <1>4
<1>10. QED BY <1>3, <1>6, <1>7, <1>8, <1>9
-----------------------------------------------------------------------------
(* The standard pair.  A raw RTID: of the patterns tried before, its text  *)
(* matches those that its name and parent spell.                           *)
RawStandard(r) == /\ RawFaithful(r) /\ ~SpellsHex(r.name) /\ ~ColonPairRaw(r)
                  /\ ~(SpellsDec(Colonless(r.name)) /\ r.parent # <<>>)

LEMMA NotARaw ==
  ASSUME NEW n, NEW p, NEW t
  PROVE  /\ \A xs, zs, i : Raw(n, p) \notin DottedUid(t, i, xs, zs)
         /\ Raw(n, p) # ColonUid(t) /\ Raw(n, p) # Null
<1>1. Raw(n, p).kind = "raw" /\ Null.kind = "null"
  BY DEF Raw, Null
<1>2. \A a, b, c, d : Uid(a, b, c, d).kind = "uid"
  BY DEF Uid
<1>3. \A a, b, c, d : Raw(n, p) # Uid(a, b, c, d)
  BY <1>1, <1>2
<1>4. \A xs, zs, i : Raw(n, p) \notin DottedUid(t, i, xs, zs)
  BY <1>3 DEF DottedUid
<1>5. Raw(n, p) # ColonUid(t)
  BY <1>3 DEF ColonUid
<1>6. QED BY <1>1, <1>4, <1>5

LEMMA RawComesBack ==
  ASSUME NEW n \in Seq(Letter), NEW p \in Seq(Letter)
  PROVE  FromStr(Display(Raw(n, p))) = {Raw(n, p)} <=> RawStandard(Raw(n, p))
<1> DEFINE r == Raw(n, p)
<1>1. r.kind = "raw" /\ r.name = n /\ r.parent = p
  BY DEF Raw
<1>2. PICK t : t = n \o <<"@">> \o p
  OBVIOUS
<1>3. Joins(t, n, p) /\ t \in Seq(Letter)
  <2>1. Joins(t, n, p)
    BY <1>2, JoinProps
  <2>2. QED BY <2>1 DEF Joins
<1>4. Display(r) = Wrap(t)
  BY <1>1, <1>2 DEF Display
<1>5. (Wrapped(Wrap(t)) <=> ~Contains(t, "\n")) /\ Inner(Wrap(t)) = t
  BY <1>3, WrappedIff
<1>6. Contains(t, "\n") <=> Contains(n, "\n") \/ Contains(p, "\n")
  <2>1. "\n" # "@"
    OBVIOUS
  <2>2. QED BY <1>3, <2>1, JoinContains
<1>7. RawPair(t) <=> n # <<>> /\ NoAt(n) /\ NoAt(p)
  BY <1>3, JoinIsPair
<1>8. RawFaithful(r) <=> ~Contains(t, "\n") /\ RawPair(t)
  BY <1>1, <1>6, <1>7 DEF RawFaithful, OneLine
<1> DEFINE one   == Dotted(t, 1, HexValue, HexValue)
           two   == Dotted(t, 2, DecValue, HexValue) /\ t[1] = ":" /\ Len(t) > 7
           colon == Colon(t)
<1>9. RawPair(t) => /\ one <=> SpellsHex(n)
                    /\ two <=> SpellsDec(Colonless(n)) /\ p # <<>>
                    /\ colon <=> ColonPairRaw(r)
  <2>1. SUFFICES ASSUME RawPair(t)
                 PROVE  /\ one <=> SpellsHex(n)
                        /\ two <=> SpellsDec(Colonless(n)) /\ p # <<>>
                        /\ colon <=> ColonPairRaw(r)
    OBVIOUS
  <2>2. one <=> /\ Len(n) = 5 /\ n[2] = "." /\ n[4] = "."
                /\ n[1] \in DOMAIN HexValue /\ n[3] \in DOMAIN HexValue /\ n[5] \in DOMAIN HexValue
    BY <1>3, <2>1, JoinDotted, NoNumeralIsAMark
  <2>3. one <=> SpellsHex(n)
    BY <2>2 DEF SpellsHex
  <2>4. two <=> SpellsDec(Colonless(n)) /\ p # <<>>
    BY <1>3, <2>1, JoinColonDotted
  <2>5. colon <=> SpellsPair(n) /\ Len(p) = 1 /\ p[1] \in DOMAIN DecValue
    BY <1>3, <2>1, JoinColon
  <2>6. colon <=> ColonPairRaw(r)
    BY <1>1, <2>5 DEF ColonPairRaw
  <2>7. QED BY <2>3, <2>4, <2>6
<1>10. RawStandard(r) <=> ~Contains(t, "\n") /\ RawPair(t) /\ ~one /\ ~two /\ ~colon
  BY <1>1, <1>8, <1>9 DEF RawStandard
<1>11. t # <<"0">>
  <2>1. t[Len(n) + 1] = "@" /\ Len(n) + 1 \in 1 .. Len(t)
    BY <1>3, ElementProps DEF Joins
  <2>2. SUFFICES ASSUME t = <<"0">> PROVE FALSE
    OBVIOUS
  <2>3. Len(t) = 1 /\ t[1] = "0"
    BY <2>2
  <2>4. QED BY <2>1, <2>3
<1> HIDE DEF one, two, colon
<1>12. ASSUME ~Contains(t, "\n")
       PROVE  /\ one => r \notin FromStr(Wrap(t))
              /\ two => r \notin FromStr(Wrap(t))
              /\ colon => r \notin FromStr(Wrap(t))
              /\ ~one /\ ~two /\ ~colon =>
                   FromStr(Wrap(t)) = IF RawPair(t) THEN {RawRtid(t)} ELSE {}
  <2>1. Wrapped(Wrap(t)) /\ Inner(Wrap(t)) = t
    BY <1>5, <1>12
  <2>2. one => FromStr(Wrap(t)) = DottedUid(t, 1, HexValue, HexValue)
    BY <1>3, <2>1, FromStrPatterns DEF one
  <2>3. two => FromStr(Wrap(t)) = DottedUid(t, 2, DecValue, HexValue)
    BY <1>3, <2>1, FromStrPatterns DEF two
  <2>4. colon => FromStr(Wrap(t)) = {ColonUid(t)}
    BY <1>3, <2>1, FromStrPatterns DEF colon
  <2>5. ~one /\ ~two /\ ~colon => FromStr(Wrap(t)) = IF RawPair(t) THEN {RawRtid(t)} ELSE {}
    BY <1>3, <1>11, <2>1, FromStrPatterns DEF one, two, colon
  <2>6. /\ r \notin DottedUid(t, 1, HexValue, HexValue) /\ r \notin DottedUid(t, 2, DecValue, HexValue)
        /\ r \notin {ColonUid(t)}
    BY NotARaw
  <2>7. QED BY <2>2, <2>3, <2>4, <2>5, <2>6, Zenon
<1>13. Contains(t, "\n") => FromStr(Wrap(t)) = {}
  BY <1>5 DEF FromStr
<1>14. RawPair(t) => RawRtid(t) = r
  BY <1>3, PairRead
<1>15. FromStr(Wrap(t)) = {r} <=> ~Contains(t, "\n") /\ RawPair(t) /\ ~one /\ ~two /\ ~colon
  BY <1>12, <1>13, <1>14
<1>16. QED BY <1>4, <1>10, <1>15

(* A uid: it has the name it spells, and an empty name spells none.        *)
LEMMA NameCases ==
  ASSUME NEW r, IsRtid(r), r.kind = "uid"
  PROVE  /\ r = Uid(r.group, r.id, r.obj, r.name)
         /\ r.group \in Spelled /\ r.id \in Spelled /\ r.obj \in Spelled
         /\ NameOr(r.name) \in Seq(Letter)
         /\ r.name = None \/ (r.name # None /\ r.name = Some(NameOr(r.name)) /\ Unwrap(r.name) = NameOr(r.name))
         /\ UidFaithful(r) <=> /\ ~Contains(NameOr(r.name), "\n")
                               /\ r.name = IF NameOr(r.name) = <<>> THEN None ELSE Some(NameOr(r.name))
<1>1. r # Null /\ r.kind # "raw"
  BY DEF Null
<1>2. /\ r = Uid(r.group, r.id, r.obj, r.name)
      /\ r.group \in Spelled /\ r.id \in Spelled /\ r.obj \in Spelled
      /\ \A s \in r.name : s \in Seq(STRING) /\ r.name = Some(s)
  BY <1>1 DEF IsRtid
<1>3. CASE r.name = None
  <2>1. NameOr(r.name) = <<>> /\ <<>> \in Seq(Letter) /\ ~Contains(<<>>, "\n")
    BY <1>3 DEF NameOr, Contains
  <2>2. r.name # Some(<<>>)
    BY <1>3 DEF None, Some
  <2>3. QED BY <1>2, <1>3, <2>1, <2>2 DEF UidFaithful, OneLine
<1>4. CASE r.name # None
  <2>1. PICK s : s \in r.name
    BY <1>4 DEF None
  <2>2. s \in Seq(STRING) /\ r.name = Some(s)
    BY <1>2, <2>1
  <2>3. Unwrap(r.name) = s /\ NameOr(r.name) = s
    BY <1>4, <2>2 DEF Unwrap, Some, NameOr
  <2>4. s \in Seq(Letter)
    BY <2>2, LetterWords, WiderAlphabet
  <2>5. UidFaithful(r) <=> ~Contains(s, "\n") /\ r.name # Some(<<>>)
    BY <2>3 DEF UidFaithful, OneLine
  <2>6. r.name # Some(<<>>) <=> s # <<>>
    BY <2>2 DEF Some
  <2>7. QED BY <1>2, <1>4, <2>2, <2>3, <2>4, <2>5, <2>6
<1>5. QED BY <1>3, <1>4

(* Both notations of a uid with a name, and the standard one of any: six   *)
(* numerals, the group's third, and the name.                              *)
ReadsUid(t, xs, zs, a, b, c, q) ==
  /\ t \in Seq(Letter) /\ (Contains(t, "\n") <=> Contains(q, "\n"))
  /\ Dotted(t, 1, xs, zs)
  /\ DottedUid(t, 1, xs, zs) = {Uid(xs[b], xs[a], zs[c], IF q = <<>> THEN None ELSE Some(q))}
LEMMA UidRead ==
  ASSUME NEW q \in Seq(Letter), NEW a \in Letter, NEW b \in Letter, NEW c \in Letter,
         a # "\n", b # "\n", c # "\n", NEW xs, NEW zs,
         a \in DOMAIN xs, b \in DOMAIN xs, c \in DOMAIN zs, zs[c] \in Nat, zs[c] <= U32Limit
  PROVE  ReadsUid(Dots(a, b, c) \o q, xs, zs, a, b, c, q)
<1>0. PICK t : t = Dots(a, b, c) \o q
  OBVIOUS
<1>1. Spells(t, a, b, c, q) /\ (Contains(t, "\n") <=> Contains(q, "\n"))
  <2>1. /\ Spells(Dots(a, b, c) \o q, a, b, c, q)
        /\ Contains(Dots(a, b, c) \o q, "\n") <=> Contains(q, "\n")
    BY DotsProps
  <2>2. QED BY <1>0, <2>1, Zenon
<1>2. /\ t \in Seq(Letter) /\ t[1] = a /\ t[2] = "." /\ t[3] = b /\ t[4] = "." /\ t[5] = c /\ t[6] = "@"
      /\ Len(t) = 6 + Len(q) /\ Len(q) \in Nat
  BY <1>1, ElementProps DEF Spells
<1>3. Dotted(t, 1, xs, zs)
  <2>1. Len(t) >= 6
    BY <1>2
  <2>2. QED BY <1>2, <2>1 DEF Dotted
<1>4. NameFrom(t, 7) = IF q = <<>> THEN None ELSE Some(q)
  BY <1>1, SpelledName
<1>5. ~(zs[t[5]] > U32Limit)
  BY <1>2 DEF U32Limit
<1>6. t[1 + 2] = b /\ t[1 + 4] = c /\ NameFrom(t, 1 + 6) = NameFrom(t, 7)
  BY <1>2
<1>7. DottedUid(t, 1, xs, zs) = {Uid(xs[b], xs[a], zs[c], NameFrom(t, 7))}
  BY <1>2, <1>5, <1>6 DEF DottedUid
<1>8. QED BY <1>0, <1>1, <1>2, <1>3, <1>4, <1>7 DEF ReadsUid

LEMMA SameUid ==
  ASSUME NEW g, NEW n, NEW o, NEW x, NEW y
  PROVE  {Uid(g, n, o, x)} = {Uid(g, n, o, y)} <=> x = y
<1>1. Uid(g, n, o, x).name = x /\ Uid(g, n, o, y).name = y
  BY DEF Uid
<1>2. QED BY <1>1

LEMMA UidComesBack ==
  ASSUME NEW r, IsRtid(r), r.kind = "uid"
  PROVE  FromStr(Display(r)) = {r} <=> UidFaithful(r)
<1> DEFINE q  == NameOr(r.name)
           nm == IF q = <<>> THEN None ELSE Some(q)
<1>1. /\ r = Uid(r.group, r.id, r.obj, r.name)
      /\ r.group \in Spelled /\ r.id \in Spelled /\ r.obj \in Spelled /\ q \in Seq(Letter)
      /\ UidFaithful(r) <=> ~Contains(q, "\n") /\ r.name = nm
  BY NameCases
<1>2. /\ HexText[r.id] \in DOMAIN HexValue /\ HexValue[HexText[r.id]] = r.id /\ HexText[r.id] # "\n"
      /\ HexText[r.group] \in DOMAIN HexValue /\ HexValue[HexText[r.group]] = r.group /\ HexText[r.group] # "\n"
      /\ ObjText[r.obj] \in DOMAIN HexValue /\ HexValue[ObjText[r.obj]] = r.obj /\ ObjText[r.obj] # "\n"
      /\ r.obj <= U32Limit /\ r.obj \in Nat
  <2>1. r.id \in Sizes /\ r.group \in Sizes /\ r.obj \in Sizes /\ r.obj # Big
    BY <1>1, SpelledNumbers
  <2>2. Sizes \subseteq Nat
    BY DEF Sizes, Big
  <2>3. QED BY <2>1, <2>2, NumbersSpelled
<1>3. PICK a \in Letter, b \in Letter, c \in Letter : a = HexText[r.id] /\ b = HexText[r.group] /\ c = ObjText[r.obj]
  BY <1>2, LetterWords
<1>4. PICK t : t = Dots(a, b, c) \o q
  OBVIOUS
<1>5. Display(r) = Wrap(t)
  BY <1>3, <1>4 DEF Display, Dots
<1> HIDE DEF q
<1>6. /\ t \in Seq(Letter) /\ (Contains(t, "\n") <=> Contains(q, "\n"))
      /\ Dotted(t, 1, HexValue, HexValue)
      /\ DottedUid(t, 1, HexValue, HexValue) = {Uid(r.group, r.id, r.obj, nm)}
  <2>1. /\ a \in DOMAIN HexValue /\ b \in DOMAIN HexValue /\ c \in DOMAIN HexValue
        /\ HexValue[a] = r.id /\ HexValue[b] = r.group /\ HexValue[c] = r.obj
        /\ a # "\n" /\ b # "\n" /\ c # "\n" /\ q \in Seq(Letter) /\ r.obj \in Nat /\ r.obj <= U32Limit
    BY <1>1, <1>2, <1>3
  <2>2. ReadsUid(Dots(a, b, c) \o q, HexValue, HexValue, a, b, c, q)
    BY <2>1, UidRead
  <2>3. ReadsUid(t, HexValue, HexValue, a, b, c, q)
    BY <1>4, <2>2, Zenon
  <2>4. QED BY <2>1, <2>3 DEF ReadsUid
<1>7. (Wrapped(Wrap(t)) <=> ~Contains(t, "\n")) /\ Inner(Wrap(t)) = t
  BY <1>6, WrappedIff
<1>8. CASE Contains(q, "\n")
  <2>1. FromStr(Wrap(t)) = {}
    BY <1>6, <1>7, <1>8 DEF FromStr
  <2>2. QED BY <1>1, <1>5, <1>8, <2>1
<1>9. CASE ~Contains(q, "\n")
  <2>1. FromStr(Wrap(t)) = {Uid(r.group, r.id, r.obj, nm)}
    BY <1>6, <1>7, <1>9, FromStrPatterns
  <2>2. FromStr(Wrap(t)) = {r} <=> r.name = nm
    BY <1>1, <2>1, SameUid
  <2>3. QED BY <1>1, <1>5, <1>9, <2>2
<1>10. QED BY <1>8, <1>9

(* Whatever the kind.                                                      *)
LEMMA StandardIff ==
  ASSUME NEW r, IsRtid(r)
  PROVE  FromStr(Display(r)) = {r} <=> StandardFaithful(r)
<1>1. CASE r = Null
  <2>1. r.kind = "null"
    BY <1>1 DEF Null
  <2>2. StandardFaithful(r)
    BY <2>1 DEF StandardFaithful, UidFaithful, RawFaithful
  <2>3. QED BY <1>1, <2>2, NullTextProps
<1>2. CASE r.kind = "uid"
  <2>1. StandardFaithful(r) <=> UidFaithful(r)
    BY <1>2 DEF StandardFaithful, RawFaithful
  <2>2. QED BY <1>2, <2>1, UidComesBack
<1>3. CASE r.kind = "raw" /\ r = Raw(r.name, r.parent) /\ r.name \in Seq(STRING) /\ r.parent \in Seq(STRING)
  <2>1. r.name \in Seq(Letter) /\ r.parent \in Seq(Letter)
    BY <1>3, LetterWords, WiderAlphabet
  <2>2. StandardFaithful(r) <=> RawStandard(r)
    BY <1>3 DEF StandardFaithful, UidFaithful, RawStandard
  <2>3. QED BY <1>3, <2>1, <2>2, RawComesBack
<1>4. QED BY <1>1, <1>2, <1>3 DEF IsRtid
-----------------------------------------------------------------------------
(* The runtime pair: no text matches two of its patterns either.           *)
LEMMA RuntimePatterns ==
  ASSUME NEW s, NEW t \in Seq(Letter), Wrapped(s), Inner(s) = t
  PROVE  /\ t = <<"0">> => from_runtime_str(s) = {Null}
         /\ Dotted(t, 1, DecValue, AnyHexValue) => from_runtime_str(s) = DottedUid(t, 1, DecValue, AnyHexValue)
         /\ Colon(t) => from_runtime_str(s) = {ColonUid(t)}
         /\ t # <<"0">> /\ ~Dotted(t, 1, DecValue, AnyHexValue) /\ ~Colon(t) =>
              from_runtime_str(s) = IF RawPair(t) THEN {RawRtid(t)} ELSE {}
<1> DEFINE zero  == t = <<"0">>
           one   == Dotted(t, 1, DecValue, AnyHexValue)
           colon == Colon(t)
           raw   == IF RawPair(t) THEN {RawRtid(t)} ELSE {}
<1>1. from_runtime_str(s) = CASE zero -> {Null}
                              [] one -> DottedUid(t, 1, DecValue, AnyHexValue)
                              [] colon -> {ColonUid(t)}
                              [] OTHER -> raw
  BY DEF from_runtime_str
<1>2. zero => ~one /\ ~colon
  <2>1. zero => Len(t) = 1
    OBVIOUS
  <2>2. one => Len(t) >= 6
    BY DEF Dotted
  <2>3. colon => Len(t) \in {4, 6}
    BY DEF Colon
  <2>4. QED BY <2>1, <2>2, <2>3
<1>3. one => ~colon
  <2>1. one => t[1] \in DOMAIN DecValue
    BY DEF Dotted
  <2>2. colon => t[1] = ":"
    BY DEF Colon
  <2>3. ":" \notin DOMAIN DecValue
    BY NoNumeralIsAMark DEF Mark
  <2>4. QED BY <2>1, <2>2, <2>3
<1> HIDE DEF zero, one, colon, raw
<1>4. zero => from_runtime_str(s) = {Null}
  BY <1>1, <1>2
<1>5. one => from_runtime_str(s) = DottedUid(t, 1, DecValue, AnyHexValue)
  BY <1>1, <1>2, <1>3
<1>6. colon => from_runtime_str(s) = {ColonUid(t)}
  BY <1>1, <1>2, <1>3
<1>7. ~zero /\ ~one /\ ~colon => from_runtime_str(s) = raw
  BY <1>1
<1>8. QED BY <1>4, <1>5, <1>6, <1>7, Zenon DEF zero, one, colon, raw

LEMMA NullRuntime == from_runtime_str(NullText) = {Null}
<1>1. PICK t \in Seq(Letter) : t = <<"0">> /\ Len(t) = 1 /\ t[1] = "0"
  BY LetterWords, SingleProps
<1>2. ~Contains(t, "\n")
  BY <1>1 DEF Contains
<1>3. Wrapped(NullText) /\ Inner(NullText) = t
  BY <1>1, <1>2, WrapProps DEF NullText
<1>4. QED BY <1>1, <1>3, RuntimePatterns

LEMMA RawRuntime ==
  ASSUME NEW n \in Seq(Letter), NEW p \in Seq(Letter)
  PROVE  from_runtime_str(Display(Raw(n, p))) = {Raw(n, p)}
           <=> RawFaithful(Raw(n, p)) /\ ~SpellsRuntime(n) /\ ~ColonPairRaw(Raw(n, p))
<1> DEFINE r == Raw(n, p)
<1>1. r.kind = "raw" /\ r.name = n /\ r.parent = p
  BY DEF Raw
<1>2. PICK t : t = n \o <<"@">> \o p
  OBVIOUS
<1>3. Joins(t, n, p) /\ t \in Seq(Letter)
  <2>1. Joins(t, n, p)
    BY <1>2, JoinProps
  <2>2. QED BY <2>1 DEF Joins
<1>4. Display(r) = Wrap(t)
  BY <1>1, <1>2 DEF Display
<1>5. (Wrapped(Wrap(t)) <=> ~Contains(t, "\n")) /\ Inner(Wrap(t)) = t
  BY <1>3, WrappedIff
<1>6. Contains(t, "\n") <=> Contains(n, "\n") \/ Contains(p, "\n")
  <2>1. "\n" # "@"
    OBVIOUS
  <2>2. QED BY <1>3, <2>1, JoinContains
<1>7. RawPair(t) <=> n # <<>> /\ NoAt(n) /\ NoAt(p)
  BY <1>3, JoinIsPair
<1>8. RawFaithful(r) <=> ~Contains(t, "\n") /\ RawPair(t)
  BY <1>1, <1>6, <1>7 DEF RawFaithful, OneLine
<1> DEFINE one   == Dotted(t, 1, DecValue, AnyHexValue)
           colon == Colon(t)
<1>9. RawPair(t) => (one <=> SpellsRuntime(n)) /\ (colon <=> ColonPairRaw(r))
  <2>1. SUFFICES ASSUME RawPair(t) PROVE (one <=> SpellsRuntime(n)) /\ (colon <=> ColonPairRaw(r))
    OBVIOUS
  <2>2. one <=> /\ Len(n) = 5 /\ n[2] = "." /\ n[4] = "."
                /\ n[1] \in DOMAIN DecValue /\ n[3] \in DOMAIN DecValue /\ n[5] \in DOMAIN AnyHexValue
    BY <1>3, <2>1, JoinDotted, NoNumeralIsAMark
  <2>3. one <=> SpellsRuntime(n)
    BY <2>2 DEF SpellsRuntime
  <2>4. colon <=> SpellsPair(n) /\ Len(p) = 1 /\ p[1] \in DOMAIN DecValue
    BY <1>3, <2>1, JoinColon
  <2>5. colon <=> ColonPairRaw(r)
    BY <1>1, <2>4 DEF ColonPairRaw
  <2>6. QED BY <2>3, <2>5
<1>10. t # <<"0">>
  <2>1. t[Len(n) + 1] = "@" /\ Len(n) + 1 \in 1 .. Len(t)
    BY <1>3, ElementProps DEF Joins
  <2>2. SUFFICES ASSUME t = <<"0">> PROVE FALSE
    OBVIOUS
  <2>3. Len(t) = 1 /\ t[1] = "0"
    BY <2>2
  <2>4. QED BY <2>1, <2>3
<1> HIDE DEF one, colon
<1>11. ASSUME ~Contains(t, "\n")
       PROVE  /\ one => r \notin from_runtime_str(Wrap(t))
              /\ colon => r \notin from_runtime_str(Wrap(t))
              /\ ~one /\ ~colon => from_runtime_str(Wrap(t)) = IF RawPair(t) THEN {RawRtid(t)} ELSE {}
  <2>1. Wrapped(Wrap(t)) /\ Inner(Wrap(t)) = t
    BY <1>5, <1>11
  <2>2. one => from_runtime_str(Wrap(t)) = DottedUid(t, 1, DecValue, AnyHexValue)
    BY <1>3, <2>1, RuntimePatterns DEF one
  <2>3. colon => from_runtime_str(Wrap(t)) = {ColonUid(t)}
    BY <1>3, <2>1, RuntimePatterns DEF colon
  <2>4. ~one /\ ~colon => from_runtime_str(Wrap(t)) = IF RawPair(t) THEN {RawRtid(t)} ELSE {}
    BY <1>3, <1>10, <2>1, RuntimePatterns DEF one, colon
  <2>5. r \notin DottedUid(t, 1, DecValue, AnyHexValue) /\ r \notin {ColonUid(t)}
    BY NotARaw
  <2>6. QED BY <2>2, <2>3, <2>4, <2>5, Zenon
<1>12. Contains(t, "\n") => from_runtime_str(Wrap(t)) = {}
  BY <1>5 DEF from_runtime_str
<1>13. RawPair(t) => RawRtid(t) = r
  BY <1>3, PairRead
<1>14. from_runtime_str(Wrap(t)) = {r} <=> ~Contains(t, "\n") /\ RawPair(t) /\ ~one /\ ~colon
  BY <1>11, <1>12, <1>13
<1>15. QED BY <1>4, <1>8, <1>9, <1>14

(* A uid with a name in runtime notation, and one without.                 *)
LEMMA RuntimeNamed ==
  ASSUME NEW g \in Spelled, NEW n \in Spelled, NEW o \in Spelled, NEW q \in Seq(Letter)
  PROVE  from_runtime_str(to_runtime_string(Uid(g, n, o, Some(q))))
           = IF Contains(q, "\n") THEN {} ELSE {Uid(g, n, o, IF q = <<>> THEN None ELSE Some(q))}
<1>1. /\ DecText[n] \in DOMAIN DecValue /\ DecValue[DecText[n]] = n
      /\ DecText[g] \in DOMAIN DecValue /\ DecValue[DecText[g]] = g
      /\ ObjText[o] \in DOMAIN AnyHexValue /\ AnyHexValue[ObjText[o]] = o
      /\ DecText[n] # "\n" /\ DecText[g] # "\n" /\ ObjText[o] # "\n" /\ ObjText[o] \in Letter
      /\ o \in Nat /\ o <= U32Limit
  <2>1. Sizes \subseteq Nat
    BY DEF Sizes, Big
  <2>2. o \in Sizes /\ o # Big
    BY SpelledNumbers
  <2>3. ObjText[o] # "\n" /\ ObjText[o] \in Letter
    BY <2>2, NumbersSpelled, LetterWords
  <2>4. QED BY <2>1, <2>2, <2>3, SpelledNumbers
<1>2. PICK a \in Letter, b \in Letter, c \in Letter : a = DecText[n] /\ b = DecText[g] /\ c = ObjText[o]
  BY <1>1, LetterWords, NoNumeralIsAMark
<1>3. PICK t : t = Dots(a, b, c) \o q
  OBVIOUS
<1>4. to_runtime_string(Uid(g, n, o, Some(q))) = Wrap(t)
  <2>1. Some(q) # None /\ Unwrap(Some(q)) = q
    BY DEF Some, None, Unwrap
  <2>2. PICK r : r = Uid(g, n, o, Some(q))
    OBVIOUS
  <2>3. r.kind = "uid" /\ r.name = Some(q) /\ r.group = g /\ r.id = n /\ r.obj = o
    BY <2>2 DEF Uid
  <2>4. to_runtime_string(r) = Wrap(<<DecText[n], ".", DecText[g], ".", ObjText[o], "@">> \o q)
    BY <2>1, <2>3 DEF to_runtime_string
  <2>5. QED BY <1>2, <1>3, <2>2, <2>4 DEF Dots
<1>5. ReadsUid(t, DecValue, AnyHexValue, a, b, c, q)
  <2>1. /\ a \in DOMAIN DecValue /\ b \in DOMAIN DecValue /\ c \in DOMAIN AnyHexValue
        /\ AnyHexValue[c] \in Nat /\ AnyHexValue[c] <= U32Limit
        /\ a # "\n" /\ b # "\n" /\ c # "\n"
    BY <1>1, <1>2
  <2>2. ReadsUid(Dots(a, b, c) \o q, DecValue, AnyHexValue, a, b, c, q)
    BY <2>1, UidRead
  <2>3. QED BY <1>3, <2>2, Zenon
<1>6. /\ t \in Seq(Letter) /\ (Contains(t, "\n") <=> Contains(q, "\n"))
      /\ Dotted(t, 1, DecValue, AnyHexValue)
      /\ DottedUid(t, 1, DecValue, AnyHexValue) = {Uid(g, n, o, IF q = <<>> THEN None ELSE Some(q))}
  BY <1>1, <1>2, <1>5 DEF ReadsUid
<1>7. (Wrapped(Wrap(t)) <=> ~Contains(t, "\n")) /\ Inner(Wrap(t)) = t
  BY <1>6, WrappedIff
<1>8. CASE Contains(q, "\n")
  <2>1. from_runtime_str(Wrap(t)) = {}
    BY <1>6, <1>7, <1>8 DEF from_runtime_str
  <2>2. QED BY <1>4, <1>8, <2>1
<1>9. CASE ~Contains(q, "\n")
  <2>1. from_runtime_str(Wrap(t)) = DottedUid(t, 1, DecValue, AnyHexValue)
    BY <1>6, <1>7, <1>9, RuntimePatterns
  <2>2. QED BY <1>4, <1>6, <1>9, <2>1
<1>10. QED BY <1>8, <1>9

LEMMA RuntimeUnnamed ==
  ASSUME NEW g \in Spelled, NEW n \in Spelled, NEW o \in Spelled
  PROVE  from_runtime_str(to_runtime_string(Uid(g, n, o, None))) = {Uid(g, n, o, None)}
<1>1. /\ DecText[n] \in DOMAIN DecValue /\ DecValue[DecText[n]] = n /\ DecText[n] # "\n"
      /\ DecText[g] \in DOMAIN DecValue /\ DecValue[DecText[g]] = g /\ DecText[g] # "\n"
      /\ DecText[o] \in DOMAIN DecValue /\ DecValue[DecText[o]] = o /\ DecText[o] # "\n"
  BY SpelledNumbers
<1>2. PICK a \in Letter, b \in Letter, c \in Letter : a = DecText[n] /\ b = DecText[g] /\ c = DecText[o]
  BY <1>1, LetterWords, NoNumeralIsAMark
<1>3. PICK t : t = <<":", a, ".", b>> \o IF o = 0 THEN <<>> ELSE <<"@", c>>
  OBVIOUS
<1>4. to_runtime_string(Uid(g, n, o, None)) = Wrap(t)
  <2>1. PICK r : r = Uid(g, n, o, None)
    OBVIOUS
  <2>2. r.kind = "uid" /\ r.name = None /\ r.group = g /\ r.id = n /\ r.obj = o
    BY <2>1 DEF Uid
  <2>3. to_runtime_string(r) = Wrap(<<":", DecText[n], ".", DecText[g]>> \o IF o = 0 THEN <<>> ELSE <<"@", DecText[o]>>)
    BY <2>2 DEF to_runtime_string
  <2>4. QED BY <1>2, <1>3, <2>1, <2>3
<1>5. t \in Seq(Letter) /\ ~Contains(t, "\n") /\ Colon(t) /\ ColonUid(t) = Uid(g, n, o, None)
  <2>1. ":" \in Letter /\ "." \in Letter /\ "@" \in Letter
    BY LetterWords
  <2>2. CASE o = 0
    <3>1. t = <<":", a, ".", b>>
      BY <1>3, <2>2
    <3>2. t \in Seq(Letter) /\ Len(t) = 4 /\ t[1] = ":" /\ t[2] = a /\ t[3] = "." /\ t[4] = b
      BY <2>1, <3>1
    <3>3. ~Contains(t, "\n")
      BY <1>1, <1>2, <3>2 DEF Contains
    <3>4. Colon(t)
      BY <1>1, <1>2, <3>2 DEF Colon
    <3>5. ColonUid(t) = Uid(g, n, o, None)
      BY <1>1, <1>2, <2>2, <3>2 DEF ColonUid
    <3>6. QED BY <3>2, <3>3, <3>4, <3>5
  <2>3. CASE o # 0
    <3>1. t = <<":", a, ".", b>> \o <<"@", c>>
      BY <1>3, <2>3
    <3>2. /\ t \in Seq(Letter) /\ Len(t) = 6
          /\ t[1] = ":" /\ t[2] = a /\ t[3] = "." /\ t[4] = b /\ t[5] = "@" /\ t[6] = c
      <4>1. PICK v : v = <<":", a, ".", b>>
        OBVIOUS
      <4>2. PICK w : w = <<"@", c>>
        OBVIOUS
      <4>3. v \in Seq(Letter) /\ Len(v) = 4 /\ v[1] = ":" /\ v[2] = a /\ v[3] = "." /\ v[4] = b
        BY <2>1, <4>1
      <4>4. w \in Seq(Letter) /\ Len(w) = 2 /\ w[1] = "@" /\ w[2] = c
        BY <2>1, <4>2
      <4>5. /\ (v \o w) \in Seq(Letter) /\ Len(v \o w) = Len(v) + Len(w)
            /\ \A i \in 1 .. Len(v) : (v \o w)[i] = v[i]
            /\ \A i \in Len(v) + 1 .. Len(v) + Len(w) : (v \o w)[i] = w[i - Len(v)]
        <5>1. v \in Seq(Letter) /\ w \in Seq(Letter)
          BY <4>3, <4>4
        <5>2. QED BY <5>1, ConcatProps, Zenon
      <4>6. /\ (v \o w) \in Seq(Letter) /\ Len(v \o w) = 6
            /\ (v \o w)[1] = ":" /\ (v \o w)[2] = a /\ (v \o w)[3] = "." /\ (v \o w)[4] = b
        BY <4>3, <4>4, <4>5
      <4>7. (v \o w)[5] = "@" /\ (v \o w)[6] = c
        BY <4>3, <4>4, <4>5
      <4>8. t = v \o w
        BY <3>1, <4>1, <4>2, Zenon
      <4>9. QED BY <4>6, <4>7, <4>8
    <3>3. ~Contains(t, "\n")
      BY <1>1, <1>2, <3>2 DEF Contains
    <3>4. Colon(t)
      BY <1>1, <1>2, <3>2 DEF Colon
    <3>5. ColonUid(t) = Uid(g, n, o, None)
      BY <1>1, <1>2, <3>2 DEF ColonUid
    <3>6. QED BY <3>2, <3>3, <3>4, <3>5
  <2>4. QED BY <2>2, <2>3
<1>6. Wrapped(Wrap(t)) /\ Inner(Wrap(t)) = t
  BY <1>5, WrappedIff
<1>7. from_runtime_str(Wrap(t)) = {ColonUid(t)}
  BY <1>5, <1>6, RuntimePatterns
<1>8. QED BY <1>4, <1>5, <1>7

(* Whatever the kind.                                                      *)
LEMMA RuntimeIff ==
  ASSUME NEW r, IsRtid(r)
  PROVE  from_runtime_str(to_runtime_string(r)) = {r} <=> RuntimeFaithful(r)
<1>1. CASE r = Null
  <2>1. r.kind = "null"
    BY <1>1 DEF Null
  <2>2. RuntimeFaithful(r)
    BY <2>1 DEF RuntimeFaithful, UidFaithful, RawFaithful
  <2>3. to_runtime_string(r) = NullText
    BY <1>1, <2>1, NullTextProps DEF to_runtime_string
  <2>4. from_runtime_str(NullText) = {Null}
    BY NullRuntime
  <2>5. QED BY <1>1, <2>2, <2>3, <2>4
<1>2. CASE r.kind = "uid"
  <2>1. RuntimeFaithful(r) <=> UidFaithful(r)
    BY <1>2 DEF RuntimeFaithful, RawFaithful
  <2>2. PICK q \in Seq(Letter) : q = NameOr(r.name)
    BY <1>2, NameCases
  <2>3. /\ r = Uid(r.group, r.id, r.obj, r.name)
        /\ r.group \in Spelled /\ r.id \in Spelled /\ r.obj \in Spelled
        /\ r.name = None \/ r.name = Some(q)
        /\ UidFaithful(r) <=> ~Contains(q, "\n") /\ r.name = IF q = <<>> THEN None ELSE Some(q)
    BY <1>2, <2>2, NameCases
  <2>4. CASE r.name = None
    <3>1. from_runtime_str(to_runtime_string(r)) = {r}
      BY <2>3, <2>4, RuntimeUnnamed
    <3>2. q = <<>> /\ ~Contains(q, "\n")
      BY <2>2, <2>4 DEF NameOr, Contains
    <3>3. QED BY <2>1, <2>3, <2>4, <3>1, <3>2
  <2>5. CASE r.name = Some(q)
    <3>1. from_runtime_str(to_runtime_string(r))
            = IF Contains(q, "\n") THEN {} ELSE {Uid(r.group, r.id, r.obj, IF q = <<>> THEN None ELSE Some(q))}
      BY <2>3, <2>5, RuntimeNamed
    <3>2. {Uid(r.group, r.id, r.obj, IF q = <<>> THEN None ELSE Some(q))} = {r}
            <=> r.name = IF q = <<>> THEN None ELSE Some(q)
      BY <2>3, SameUid
    <3>3. QED BY <2>1, <2>3, <3>1, <3>2
  <2>6. QED BY <2>3, <2>4, <2>5
<1>3. CASE r.kind = "raw" /\ r = Raw(r.name, r.parent) /\ r.name \in Seq(STRING) /\ r.parent \in Seq(STRING)
  <2>1. r.name \in Seq(Letter) /\ r.parent \in Seq(Letter)
    BY <1>3, LetterWords, WiderAlphabet
  <2>2. RuntimeFaithful(r) <=> RawFaithful(r) /\ ~SpellsRuntime(r.name) /\ ~ColonPairRaw(r)
    BY <1>3 DEF RuntimeFaithful, UidFaithful
  <2>3. to_runtime_string(r) = Display(r)
    BY <1>3 DEF to_runtime_string
  <2>4. from_runtime_str(Display(Raw(r.name, r.parent))) = {Raw(r.name, r.parent)}
          <=> RawFaithful(Raw(r.name, r.parent)) /\ ~SpellsRuntime(r.name) /\ ~ColonPairRaw(Raw(r.name, r.parent))
    BY <2>1, RawRuntime
  <2>5. QED BY <1>3, <2>2, <2>3, <2>4
<1>4. QED BY <1>1, <1>2, <1>3 DEF IsRtid

(* A text that was parsed once: its RTID prints to one that parses to it.  *)
LEMMA RuntimeStable ==
  ASSUME NEW s \in Seq(Letter), ~Unspelled(s), NEW r, from_runtime_str(s) = {r}
  PROVE  from_runtime_str(to_runtime_string(r)) = {r}
<1>1. Wrapped(s)
  BY DEF from_runtime_str
<1>2. PICK t \in Seq(Letter) : t = Inner(s) /\ ~Contains(t, "\n") /\ Wrap(t) = s
  BY <1>1, InnerProps
<1>3. /\ t = <<"0">> => from_runtime_str(s) = {Null}
      /\ Dotted(t, 1, DecValue, AnyHexValue) => from_runtime_str(s) = DottedUid(t, 1, DecValue, AnyHexValue)
      /\ Colon(t) => from_runtime_str(s) = {ColonUid(t)}
      /\ t # <<"0">> /\ ~Dotted(t, 1, DecValue, AnyHexValue) /\ ~Colon(t) =>
           from_runtime_str(s) = IF RawPair(t) THEN {RawRtid(t)} ELSE {}
  BY <1>1, <1>2, RuntimePatterns
<1>4. CASE t = <<"0">>
  <2>1. r = Null
    BY <1>3, <1>4
  <2>2. Null.kind = "null"
    BY DEF Null
  <2>3. to_runtime_string(Null) = NullText
    BY <2>2, NullTextProps DEF to_runtime_string
  <2>4. QED BY <2>1, <2>3, NullRuntime
<1>5. CASE Dotted(t, 1, DecValue, AnyHexValue)
  <2>1. DottedUid(t, 1, DecValue, AnyHexValue) = {r}
    BY <1>3, <1>5
  <2>2. t[1] \in DOMAIN DecValue /\ t[3] \in DOMAIN DecValue /\ t[5] \in DOMAIN AnyHexValue
    <3>1. 1 + 2 = 3 /\ 1 + 4 = 5
      OBVIOUS
    <3>2. QED BY <1>5, <3>1 DEF Dotted
  <2>3. ~(AnyHexValue[t[5]] > U32Limit)
        /\ r = Uid(DecValue[t[3]], DecValue[t[1]], AnyHexValue[t[5]], NameFrom(t, 7))
    <3>1. 1 + 2 = 3 /\ 1 + 4 = 5 /\ 1 + 6 = 7
      OBVIOUS
    <3>2. QED BY <2>1, <3>1 DEF DottedUid
  <2>4. DecValue[t[3]] \in Spelled /\ DecValue[t[1]] \in Spelled
    BY <2>2, NoNumeralIsAMark
  <2>5. AnyHexValue[t[5]] \in Spelled
    <3>1. AnyHexValue[t[5]] \in Spelled \cup {Big}
      BY <1>1, <1>2, <1>5 DEF Unspelled
    <3>2. Big > U32Limit
      BY DEF Big, U32Limit
    <3>3. QED BY <2>3, <3>1, <3>2
  <2>6. NameFrom(t, 7) = None
          \/ \E q \in Seq(Letter) : NameFrom(t, 7) = Some(q) /\ q # <<>> /\ ~Contains(q, "\n")
    BY <1>2, NameFromProps
  <2>7. CASE NameFrom(t, 7) = None
    BY <2>3, <2>4, <2>5, <2>7, RuntimeUnnamed
  <2>8. CASE \E q \in Seq(Letter) : NameFrom(t, 7) = Some(q) /\ q # <<>> /\ ~Contains(q, "\n")
    <3>1. PICK q \in Seq(Letter) : NameFrom(t, 7) = Some(q) /\ q # <<>> /\ ~Contains(q, "\n")
      BY <2>8
    <3>2. PICK g \in Spelled, n \in Spelled, o \in Spelled : r = Uid(g, n, o, Some(q))
      BY <2>3, <2>4, <2>5, <3>1
    <3>3. from_runtime_str(to_runtime_string(Uid(g, n, o, Some(q))))
            = IF Contains(q, "\n") THEN {} ELSE {Uid(g, n, o, IF q = <<>> THEN None ELSE Some(q))}
      BY RuntimeNamed
    <3>4. QED BY <3>1, <3>2, <3>3, Zenon
  <2>9. QED BY <2>6, <2>7, <2>8
<1>6. CASE Colon(t)
  <2>1. r = ColonUid(t)
    BY <1>3, <1>6
  <2>2. /\ t[2] \in DOMAIN DecValue /\ t[4] \in DOMAIN DecValue
        /\ Len(t) # 4 => t[6] \in DOMAIN DecValue
    BY <1>6 DEF Colon
  <2>3. 0 \in Spelled
    BY DEF Spelled, Sizes, Big, DecText, DecValue
  <2>4. PICK g \in Spelled, n \in Spelled, o \in Spelled : r = Uid(g, n, o, None)
    BY <2>1, <2>2, <2>3, NoNumeralIsAMark DEF ColonUid
  <2>5. QED BY <2>4, RuntimeUnnamed
<1>7. CASE t # <<"0">> /\ ~Dotted(t, 1, DecValue, AnyHexValue) /\ ~Colon(t)
  <2>1. RawPair(t) /\ r = RawRtid(t)
    BY <1>3, <1>7
  <2>2. Display(r) = s
    BY <1>2, <2>1, RawText
  <2>3. r.kind = "raw"
    BY <2>1 DEF RawRtid, Raw
  <2>4. to_runtime_string(r) = Display(r)
    BY <2>3 DEF to_runtime_string
  <2>5. QED BY <2>2, <2>4
<1>8. QED BY <1>4, <1>5, <1>6, <1>7
-----------------------------------------------------------------------------
(* What is printed is a text.                                              *)
LEMMA DotsText ==
  ASSUME NEW a \in Letter, NEW b \in Letter, NEW c \in Letter, NEW q \in Seq(Letter),
         a # "\n", b # "\n", c # "\n"
  PROVE  Wrap(<<a, ".", b, ".", c, "@">> \o q) \in Seq(Letter)
<1>1. PICK t : t = Dots(a, b, c) \o q
  OBVIOUS
<1>2. t \in Seq(Letter)
  <2>1. Spells(Dots(a, b, c) \o q, a, b, c, q)
    BY DotsProps
  <2>2. Spells(t, a, b, c, q)
    BY <1>1, <2>1, Zenon
  <2>3. QED BY <2>2 DEF Spells
<1>3. Wrap(t) \in Seq(Letter)
  BY <1>2, WrapProps
<1>4. QED BY <1>1, <1>3, Zenon DEF Dots

LEMMA TextsTyped ==
  ASSUME NEW r, IsRtid(r)
  PROVE  Display(r) \in Seq(Letter) /\ to_runtime_string(r) \in Seq(Letter)
<1>1. CASE r = Null
  <2>1. r.kind = "null"
    BY <1>1 DEF Null
  <2>2. Display(r) = NullText /\ to_runtime_string(r) = NullText
    BY <1>1, <2>1, NullTextProps DEF to_runtime_string
  <2>3. QED BY <2>2, NullTextProps
<1>2. CASE r.kind = "uid"
  <2>1. PICK q \in Seq(Letter) : q = NameOr(r.name)
    BY <1>2, NameCases
  <2>2. /\ r.group \in Spelled /\ r.id \in Spelled /\ r.obj \in Spelled
        /\ r.name = None \/ (r.name # None /\ r.name = Some(q) /\ Unwrap(r.name) = q)
    BY <1>2, <2>1, NameCases
  <2>3. \A n \in Spelled : /\ HexText[n] \in Letter /\ HexText[n] # "\n"
                            /\ DecText[n] \in Letter /\ DecText[n] # "\n"
                            /\ ObjText[n] \in Letter /\ ObjText[n] # "\n"
    <3>1. TAKE n \in Spelled
    <3>2. n \in Sizes /\ n # Big /\ DecText[n] \in DOMAIN DecValue /\ DecText[n] # "\n"
      BY SpelledNumbers
    <3>3. /\ HexText[n] \in DOMAIN HexValue /\ HexText[n] # "\n"
          /\ ObjText[n] \in DOMAIN HexValue /\ ObjText[n] # "\n"
      BY <3>2, NumbersSpelled
    <3>4. QED BY <3>2, <3>3, LetterWords, NoNumeralIsAMark
  <2>4. Display(r) \in Seq(Letter)
    <3>1. Display(r) = Wrap(<<HexText[r.id], ".", HexText[r.group], ".", ObjText[r.obj], "@">> \o q)
      BY <1>2, <2>1 DEF Display
    <3>2. PICK a \in Letter, b \in Letter, c \in Letter :
            /\ a = HexText[r.id] /\ b = HexText[r.group] /\ c = ObjText[r.obj]
            /\ a # "\n" /\ b # "\n" /\ c # "\n"
      BY <2>2, <2>3
    <3>3. QED BY <3>1, <3>2, DotsText
  <2>5. CASE r.name = Some(q) /\ r.name # None /\ Unwrap(r.name) = q
    <3>1. to_runtime_string(r) = Wrap(<<DecText[r.id], ".", DecText[r.group], ".", ObjText[r.obj], "@">> \o q)
      BY <1>2, <2>5 DEF to_runtime_string
    <3>2. PICK a \in Letter, b \in Letter, c \in Letter :
            /\ a = DecText[r.id] /\ b = DecText[r.group] /\ c = ObjText[r.obj]
            /\ a # "\n" /\ b # "\n" /\ c # "\n"
      BY <2>2, <2>3
    <3>3. to_runtime_string(r) \in Seq(Letter)
      BY <3>1, <3>2, DotsText
    <3>4. QED BY <2>4, <3>3
  <2>6. CASE r.name = None
    <3>1. to_runtime_string(r) = Wrap(<<":", DecText[r.id], ".", DecText[r.group]>>
                                        \o IF r.obj = 0 THEN <<>> ELSE <<"@", DecText[r.obj]>>)
      BY <1>2, <2>6 DEF to_runtime_string
    <3>2. PICK v : v = <<":", DecText[r.id], ".", DecText[r.group]>>
      OBVIOUS
    <3>3. PICK w : w = IF r.obj = 0 THEN <<>> ELSE <<"@", DecText[r.obj]>>
      OBVIOUS
    <3>4. v \in Seq(Letter) /\ w \in Seq(Letter)
      <4>1. /\ DecText[r.id] \in Letter /\ DecText[r.group] \in Letter /\ DecText[r.obj] \in Letter
            /\ ":" \in Letter /\ "." \in Letter /\ "@" \in Letter
        BY <2>2, <2>3, LetterWords
      <4>2. QED BY <3>2, <3>3, <4>1
    <3>5. v \o w \in Seq(Letter)
      BY <3>4, ConcatProps
    <3>6. Wrap(v \o w) \in Seq(Letter)
      BY <3>5, WrapProps
    <3>7. QED BY <2>4, <3>1, <3>2, <3>3, <3>6, Zenon
  <2>7. QED BY <2>2, <2>5, <2>6
<1>3. CASE r.kind = "raw" /\ r = Raw(r.name, r.parent) /\ r.name \in Seq(STRING) /\ r.parent \in Seq(STRING)
  <2>1. PICK n \in Seq(Letter), p \in Seq(Letter) : n = r.name /\ p = r.parent
    BY <1>3, LetterWords, WiderAlphabet
  <2>2. PICK t : t = n \o <<"@">> \o p
    OBVIOUS
  <2>3. t \in Seq(Letter)
    <3>1. Joins(t, n, p)
      BY <2>2, JoinProps
    <3>2. QED BY <3>1 DEF Joins
  <2>4. Display(r) = Wrap(t) /\ to_runtime_string(r) = Wrap(t)
    BY <1>3, <2>1, <2>2 DEF Display, to_runtime_string
  <2>5. QED BY <2>3, <2>4, WrapProps
<1>4. QED BY <1>1, <1>2, <1>3 DEF IsRtid

(* The body the binary writer makes of an RTID reads as Display's text:    *)
(* of one a caller built, and of one FromStr built.                        *)
Built(r) == \/ r = Null
            \/ \E g, n, o, x : r = Uid(g, n, o, x) /\ (x = None \/ \E q : x = Some(q))
            \/ \E n, p : r = Raw(n, p)

LEMMA FourFields ==
  ASSUME NEW a, NEW b, NEW c, NEW d
  PROVE  (<<a>> \o <<b, c, d>>)[1] = a /\ Tail(<<a>> \o <<b, c, d>>) = <<b, c, d>>
<1>1. PICK S : S = {a, b, c, d}
  OBVIOUS
<1>2. PICK v : v = <<a>>
  OBVIOUS
<1>3. PICK w : w = <<b, c, d>>
  OBVIOUS
<1>4. v \in Seq(S) /\ Len(v) = 1 /\ v[1] = a
  BY <1>1, <1>2
<1>5. w \in Seq(S) /\ Len(w) = 3
  BY <1>1, <1>3
<1>6. /\ (v \o w) \in Seq(S) /\ Len(v \o w) = Len(v) + Len(w)
      /\ \A i \in 1 .. Len(v) : (v \o w)[i] = v[i]
      /\ \A i \in Len(v) + 1 .. Len(v) + Len(w) : (v \o w)[i] = w[i - Len(v)]
  <2>1. v \in Seq(S) /\ w \in Seq(S)
    BY <1>4, <1>5
  <2>2. QED BY <2>1, ConcatProps, Zenon
<1>7. PICK f \in Seq(S) : f = v \o w
  BY <1>6
<1>8. Len(f) = 4 /\ f[1] = a /\ f[2] = w[1] /\ f[3] = w[2] /\ f[4] = w[3]
  <2>1. Len(f) = 1 + 3 /\ f[1] = v[1]
    BY <1>4, <1>5, <1>6, <1>7
  <2>2. f[2] = w[2 - 1] /\ f[3] = w[3 - 1] /\ f[4] = w[4 - 1]
    BY <1>4, <1>5, <1>6, <1>7
  <2>3. QED BY <1>4, <2>1, <2>2
<1>9. PICK t : t = Tail(f)
  OBVIOUS
<1>10. t \in Seq(S) /\ Len(t) = 3 /\ t[1] = w[1] /\ t[2] = w[2] /\ t[3] = w[3]
  <2>1. f # <<>>
    <3>1. Len(f) >= 1
      BY <1>8
    <3>2. QED BY <3>1, ElementProps
  <2>2. t \in Seq(S) /\ Len(t) = Len(f) - 1 /\ \A i \in 1 .. Len(f) - 1 : t[i] = f[i + 1]
    BY <1>9, <2>1, TailProps, Zenon
  <2>3. t[1] = f[1 + 1] /\ t[2] = f[2 + 1] /\ t[3] = f[3 + 1]
    BY <1>8, <2>2
  <2>4. QED BY <1>8, <2>2, <2>3
<1>11. t = w
  BY <1>5, <1>10
<1>12. QED BY <1>2, <1>3, <1>7, <1>8, <1>9, <1>11, Zenon

LEMMA FiveFields ==
  ASSUME NEW a, NEW b, NEW c, NEW d, NEW e
  PROVE  (<<a, b>> \o <<c, d, e>>)[1] = a /\ Tail(<<a, b>> \o <<c, d, e>>) = <<b, c, d, e>>
<1>1. PICK S : S = {a, b, c, d, e}
  OBVIOUS
<1>2. PICK v : v = <<a, b>>
  OBVIOUS
<1>3. PICK w : w = <<c, d, e>>
  OBVIOUS
<1>4. v \in Seq(S) /\ Len(v) = 2 /\ v[1] = a /\ v[2] = b
  BY <1>1, <1>2
<1>5. w \in Seq(S) /\ Len(w) = 3 /\ w[1] = c /\ w[2] = d /\ w[3] = e
  BY <1>1, <1>3
<1>6. /\ (v \o w) \in Seq(S) /\ Len(v \o w) = Len(v) + Len(w)
      /\ \A i \in 1 .. Len(v) : (v \o w)[i] = v[i]
      /\ \A i \in Len(v) + 1 .. Len(v) + Len(w) : (v \o w)[i] = w[i - Len(v)]
  <2>1. v \in Seq(S) /\ w \in Seq(S)
    BY <1>4, <1>5
  <2>2. QED BY <2>1, ConcatProps, Zenon
<1>7. PICK f \in Seq(S) : f = v \o w
  BY <1>6
<1>8. Len(f) = 5 /\ f[1] = a /\ f[2] = b /\ f[3] = c /\ f[4] = d /\ f[5] = e
  <2>1. Len(f) = 2 + 3 /\ f[1] = v[1] /\ f[2] = v[2]
    BY <1>4, <1>5, <1>6, <1>7
  <2>2. f[3] = w[3 - 2] /\ f[4] = w[4 - 2] /\ f[5] = w[5 - 2]
    BY <1>4, <1>5, <1>6, <1>7
  <2>3. QED BY <1>4, <1>5, <2>1, <2>2
<1>9. PICK t : t = Tail(f)
  OBVIOUS
<1>10. t \in Seq(S) /\ Len(t) = 4 /\ t[1] = b /\ t[2] = c /\ t[3] = d /\ t[4] = e
  <2>1. f # <<>>
    <3>1. Len(f) >= 1
      BY <1>8
    <3>2. QED BY <3>1, ElementProps
  <2>2. t \in Seq(S) /\ Len(t) = Len(f) - 1 /\ \A i \in 1 .. Len(f) - 1 : t[i] = f[i + 1]
    BY <1>9, <2>1, TailProps, Zenon
  <2>3. t[1] = f[1 + 1] /\ t[2] = f[2 + 1] /\ t[3] = f[3 + 1] /\ t[4] = f[4 + 1]
    BY <1>8, <2>2
  <2>4. QED BY <1>8, <2>2, <2>3
<1>11. t = <<b, c, d, e>>
  BY <1>10
<1>12. QED BY <1>2, <1>3, <1>7, <1>8, <1>9, <1>11, Zenon

LEMMA BodyReads ==
  ASSUME NEW r, Built(r)
  PROVE  BinaryText(r) = Display(r)
<1>1. CASE r = Null
  BY <1>1, NullTextProps DEF BinaryText
<1>2. CASE \E n, p : r = Raw(n, p)
  <2>1. PICK n, p : r = Raw(n, p)
    BY <1>2
  <2>2. r.kind = "raw" /\ r.name = n /\ r.parent = p /\ r # Null
    BY <2>1 DEF Raw, Null
  <2>3. PICK f : f = RtidBody(r)
    OBVIOUS
  <2>4. f = <<Byte(3), Str(n), Str(p)>>
    BY <2>2, <2>3 DEF RtidBody
  <2>5. f[1].index = 3 /\ Tail(f) = <<Str(n), Str(p)>>
    BY <2>4 DEF Byte
  <2>6. PICK e : e = <<Str(n), Str(p)>>
    OBVIOUS
  <2>7. e[1].str = n /\ e[2].str = p
    BY <2>6 DEF Str
  <2>8. RtidText(3, e) = Wrap(n \o <<"@">> \o p)
    <3>1. RtidText(3, e) = read_rtid_string(3, <<e[1].str, e[2].str>>, <<>>)
      BY DEF RtidText
    <3>2. \A ns : read_rtid_string(3, ns, <<>>) = Wrap(ns[1] \o <<"@">> \o ns[2])
      BY DEF read_rtid_string
    <3>3. RtidText(3, e) = Wrap(<<n, p>>[1] \o <<"@">> \o <<n, p>>[2])
      BY <2>7, <3>1, <3>2
    <3>4. <<n, p>>[1] = n /\ <<n, p>>[2] = p
      OBVIOUS
    <3>5. QED BY <3>3, <3>4
  <2>9. Display(r) = Wrap(n \o <<"@">> \o p)
    BY <2>2 DEF Display
  <2>10. BinaryText(r) = RtidText(f[1].index, Tail(f))
    BY <2>2, <2>3 DEF BinaryText
  <2>11. QED BY <2>5, <2>6, <2>8, <2>9, <2>10
<1>3. ASSUME NEW g, NEW n, NEW o, NEW x, r = Uid(g, n, o, x), x = None \/ \E q : x = Some(q)
      PROVE  BinaryText(r) = Display(r)
  <2>1. r.kind = "uid" /\ r.group = g /\ r.id = n /\ r.obj = o /\ r.name = x /\ r # Null
    BY <1>3 DEF Uid, Null
  <2>2. PICK G : G = Number("(varint)", g)
    OBVIOUS
  <2>3. PICK I : I = Number("(varint)", n)
    OBVIOUS
  <2>4. PICK O : O = Number("(u32)", o)
    OBVIOUS
  <2>10. G.num = g /\ I.num = n /\ O.num = o
    BY <2>2, <2>3, <2>4 DEF Number
  <2>5. PICK f : f = RtidBody(r)
    OBVIOUS
  <2>6. BinaryText(r) = RtidText(f[1].index, Tail(f))
    BY <2>1, <2>5 DEF BinaryText
  <2>7. CASE x = None
    <3>1. f = <<Byte(1)>> \o <<G, I, O>>
      BY <2>1, <2>2, <2>3, <2>4, <2>5, <2>7 DEF RtidBody
    <3>2. f[1].index = 1 /\ Tail(f) = <<G, I, O>>
      <4>1. f[1] = Byte(1) /\ Tail(f) = <<G, I, O>>
        BY <3>1, FourFields
      <4>2. QED BY <4>1 DEF Byte
    <3>3. PICK e : e = <<G, I, O>>
      OBVIOUS
    <3>11. e[1] = G /\ e[2] = I /\ e[3] = O
      BY <3>3
    <3>4. RtidText(1, e) = read_rtid_string(1, <<>>, <<g, n, o>>)
      BY <2>10, <3>11 DEF RtidText
    <3>5. read_rtid_string(1, <<>>, <<g, n, o>>)
            = Wrap(<<HexText[n], ".", HexText[g], ".", ObjText[o], "@">> \o <<>>)
      BY DEF read_rtid_string
    <3>6. NameOr(x) = <<>>
      BY <2>7 DEF NameOr
    <3>7. Display(r) = Wrap(<<HexText[n], ".", HexText[g], ".", ObjText[o], "@">> \o <<>>)
      BY <2>1, <3>6 DEF Display
    <3>8. QED BY <2>6, <3>2, <3>3, <3>4, <3>5, <3>7
  <2>8. CASE \E q : x = Some(q)
    <3>1. PICK q : x = Some(q)
      BY <2>8
    <3>2. x # None /\ Unwrap(x) = q /\ NameOr(x) = q
      BY <3>1 DEF Some, None, Unwrap, NameOr
    <3>3. PICK N : N = Str(q)
      OBVIOUS
    <3>11. N.str = q
      BY <3>3 DEF Str
    <3>4. f = <<Byte(2), N>> \o <<G, I, O>>
      BY <2>1, <2>2, <2>3, <2>4, <2>5, <3>2, <3>3 DEF RtidBody
    <3>5. f[1].index = 2 /\ Tail(f) = <<N, G, I, O>>
      <4>1. f[1] = Byte(2) /\ Tail(f) = <<N, G, I, O>>
        BY <3>4, FiveFields
      <4>2. QED BY <4>1 DEF Byte
    <3>6. PICK e : e = <<N, G, I, O>>
      OBVIOUS
    <3>12. e[1] = N /\ e[2] = G /\ e[3] = I /\ e[4] = O
      BY <3>6
    <3>7. RtidText(2, e) = read_rtid_string(2, <<q>>, <<g, n, o>>)
      BY <2>10, <3>11, <3>12 DEF RtidText
    <3>8. read_rtid_string(2, <<q>>, <<g, n, o>>)
            = Wrap(<<HexText[n], ".", HexText[g], ".", ObjText[o], "@">> \o q)
      BY DEF read_rtid_string
    <3>9. Display(r) = Wrap(<<HexText[n], ".", HexText[g], ".", ObjText[o], "@">> \o q)
      BY <2>1, <3>2 DEF Display
    <3>10. QED BY <2>6, <3>5, <3>6, <3>7, <3>8, <3>9
  <2>9. QED BY <1>3, <2>7, <2>8
<1>4. QED BY <1>1, <1>2, <1>3 DEF Built

LEMMA CallersBuild ==
  ASSUME NEW r, IsRtid(r)
  PROVE  Built(r)
<1>1. CASE r.kind = "uid"
  BY <1>1, NameCases DEF Built
<1>2. QED BY <1>1 DEF IsRtid, Built

LEMMA FromStrBuilds ==
  ASSUME NEW s, NEW r, FromStr(s) = {r}
  PROVE  Built(r)
<1>1. \A t, n : NameFrom(t, n) = None \/ \E q : NameFrom(t, n) = Some(q)
  BY DEF NameFrom
<1>2. \A t, i, xs, zs : r \in DottedUid(t, i, xs, zs) => Built(r)
  BY <1>1 DEF DottedUid, Built
<1>3. \A t : Built(ColonUid(t)) /\ Built(RawRtid(t)) /\ Built(Null)
  BY DEF ColonUid, RawRtid, Built
<1>4. \E t : \/ r = Null \/ r = ColonUid(t) \/ r = RawRtid(t)
             \/ \E i, xs, zs : r \in DottedUid(t, i, xs, zs)
  <2>1. r \in FromStr(s)
    OBVIOUS
  <2>2. QED BY <2>1, Zenon DEF FromStr
<1>5. QED BY <1>2, <1>3, <1>4
-----------------------------------------------------------------------------
(* The invariant.  An RTID that was parsed is what one text parses as: the *)
(* text given at the start, or the one printed from the RTID given.        *)
Given(s) == IF origin = {} THEN s \in Texts /\ format # "binary"
            ELSE s = ShowText(Unwrap(origin))
Typed  == /\ format \in {"standard", "runtime", "binary"} /\ stage \in {"rtid", "text", "err"}
          /\ parses \in 0 .. 2
          /\ origin = {} \/ \E r \in Rtids : origin = {r}
Before == parses = 0 => /\ stage # "err"
                        /\ stage = "rtid" => origin # {} /\ rtid = origin
                        /\ stage = "text" => Given(text) /\ (origin # {} => rtid = origin)
After  == parses > 0 => \E s : /\ Given(s) /\ rtid = Parsed(s)
                               /\ stage = "err" <=> rtid = {}
                               /\ stage = "text" => text = ShowText(Unwrap(rtid))
RInv   == Typed /\ Before /\ After

(* What a step leaves alone.                                               *)
LEMMA SameFormat ==
  ASSUME format' = format, origin' = origin
  PROVE  /\ \A r : ShowText(r)' = ShowText(r)
         /\ \A s : Parsed(s)' = Parsed(s) /\ Given(s)' = Given(s)
<1>1. \A r : ShowText(r)' = ShowText(r)
  BY DEF ShowText
<1>2. \A s : Parsed(s)' = Parsed(s)
  BY DEF Parsed
<1>3. \A s : Given(s)' = Given(s)
  BY <1>1 DEF Given
<1>4. QED BY <1>1, <1>2, <1>3

(* A text given is one the tables can spell; it parses as at most one.     *)
LEMMA GivenProps ==
  ASSUME RInv, NEW s, Given(s)
  PROVE  /\ s \in Seq(Letter)
         /\ format = "runtime" => ~Unspelled(s)
<1>1. CASE origin = {}
  <2>1. s \in Texts
    BY <1>1 DEF Given
  <2>2. s \in Seq(STRING) /\ ~Unspelled(s)
    BY <2>1, TextsAssumption
  <2>3. QED BY <2>2, LetterWords, WiderAlphabet
<1>2. CASE origin # {}
  <2>1. PICK r \in Rtids : origin = {r}
    BY <1>2 DEF RInv, Typed
  <2>2. s = ShowText(r) /\ IsRtid(r) /\ ~Unspelled(to_runtime_string(r))
    <3>1. Unwrap(origin) = r
      BY <2>1 DEF Unwrap
    <3>2. QED BY <1>2, <3>1, RtidsAssumption DEF Given
  <2>3. BinaryText(r) = Display(r)
    BY <2>2, CallersBuild, BodyReads
  <2>4. format = "runtime" => s = to_runtime_string(r)
    BY <2>2 DEF ShowText
  <2>5. format # "runtime" => s = Display(r)
    BY <2>2, <2>3 DEF ShowText, RInv, Typed
  <2>6. QED BY <2>2, <2>4, <2>5, TextsTyped
<1>3. QED BY <1>1, <1>2

LEMMA ParsedIsOne ==
  ASSUME NEW s
  PROVE  Parsed(s) = {} \/ \E r : Parsed(s) = {r}
<1>1. \A t, i, xs, zs : DottedUid(t, i, xs, zs) = {} \/ \E r : DottedUid(t, i, xs, zs) = {r}
  BY DEF DottedUid
<1>2. FromStr(s) = {} \/ \E r : FromStr(s) = {r}
  BY <1>1 DEF FromStr
<1>3. from_runtime_str(s) = {} \/ \E r : from_runtime_str(s) = {r}
  BY <1>1 DEF from_runtime_str
<1>4. QED BY <1>2, <1>3 DEF Parsed

(* The RTID of a given text prints to a text that parses as it again.      *)
LEMMA PrintedAgain ==
  ASSUME RInv, NEW s, Given(s), Parsed(s) # {}
  PROVE  Parsed(ShowText(Unwrap(Parsed(s)))) = Parsed(s)
<1>1. s \in Seq(Letter) /\ (format = "runtime" => ~Unspelled(s))
  BY GivenProps
<1>2. PICK r : Parsed(s) = {r}
  BY ParsedIsOne
<1>3. Unwrap(Parsed(s)) = r
  BY <1>2 DEF Unwrap
<1>4. CASE format = "runtime"
  <2>1. from_runtime_str(s) = {r} /\ ~Unspelled(s)
    BY <1>1, <1>2, <1>4 DEF Parsed
  <2>2. from_runtime_str(to_runtime_string(r)) = {r}
    BY <1>1, <2>1, RuntimeStable
  <2>3. QED BY <1>2, <1>3, <1>4, <2>2 DEF Parsed, ShowText
<1>5. CASE format # "runtime"
  <2>1. FromStr(s) = {r}
    BY <1>2, <1>5 DEF Parsed
  <2>2. FromStr(Display(r)) = {r}
    BY <1>1, <2>1, DisplayStable
  <2>3. BinaryText(r) = Display(r)
    BY <2>1, FromStrBuilds, BodyReads
  <2>4. ShowText(r) = Display(r)
    BY <1>5, <2>3 DEF ShowText, RInv, Typed
  <2>5. QED BY <1>2, <1>3, <1>5, <2>2, <2>4 DEF Parsed
<1>6. QED BY <1>4, <1>5

LEMMA RInvInit == Init => RInv
<1> SUFFICES ASSUME Init PROVE RInv
  OBVIOUS
<1>1. /\ format \in {"standard", "runtime", "binary"} /\ parses = 0 /\ ~(parses > 0) /\ parses \in 0 .. 2
      /\ \/ stage = "rtid" /\ origin = rtid /\ \E r \in Rtids : origin = {r}
         \/ stage = "text" /\ text \in Texts /\ format # "binary" /\ origin = {}
  BY DEF Init
<1>2. Typed
  BY <1>1 DEF Typed
<1>3. Before
  BY <1>1 DEF Before, Given
<1>4. QED BY <1>1, <1>2, <1>3 DEF RInv, After

LEMMA RInvShow ==
  ASSUME RInv, Show
  PROVE  RInv'
<1>1. /\ stage = "rtid" /\ stage' = "text" /\ format' = format /\ origin' = origin
      /\ rtid' = rtid /\ parses' = parses
  BY DEF Show
<1>2. text' = ShowText(Unwrap(rtid))
  BY DEF Show, ShowText
<1>3. /\ \A r : ShowText(r)' = ShowText(r)
      /\ \A s : Parsed(s)' = Parsed(s) /\ Given(s)' = Given(s)
  BY <1>1, SameFormat
<1>4. Typed'
  BY <1>1 DEF RInv, Typed
<1>5. ASSUME parses = 0 PROVE Before'
  <2>1. origin # {} /\ rtid = origin
    BY <1>1, <1>5 DEF RInv, Before
  <2>2. Given(text')
    BY <1>2, <2>1 DEF Given
  <2>3. Given(text)'
    BY <1>1, <1>2, <2>1, <1>3 DEF Given
  <2>4. QED BY <1>1, <2>1, <2>3 DEF Before
<1>6. ASSUME parses > 0 PROVE After'
  <2>1. PICK s : /\ Given(s) /\ rtid = Parsed(s) /\ (stage = "err" <=> rtid = {})
    BY <1>6 DEF RInv, After
  <2>2. text' = ShowText(Unwrap(rtid))'
    BY <1>1, <1>2 DEF ShowText
  <2>3. Given(s)' /\ rtid' = Parsed(s)' /\ rtid' # {} /\ stage' = "text"
    BY <1>1, <1>3, <2>1
  <2>4. QED BY <2>2, <2>3 DEF After
<1>7. parses \in 0 .. 2
  BY DEF RInv, Typed
<1>8. Before'
  BY <1>1, <1>5 DEF Before
<1>9. After'
  BY <1>1, <1>6 DEF After
<1>10. QED BY <1>4, <1>8, <1>9 DEF RInv

LEMMA RInvParse ==
  ASSUME RInv, Parse
  PROVE  /\ RInv'
         /\ parses = 0 => Given(text) /\ rtid' = Parsed(text)
         /\ parses = 1 => rtid' = rtid /\ stage' = "rtid"
<1>1. /\ stage = "text" /\ parses < 2 /\ parses' = parses + 1 /\ format' = format /\ origin' = origin
      /\ stage' = IF rtid' = {} THEN "err" ELSE "rtid"
  BY DEF Parse
<1>2. rtid' = Parsed(text)
  BY DEF Parse, Parsed
<1>3. /\ \A r : ShowText(r)' = ShowText(r)
      /\ \A s : Parsed(s)' = Parsed(s) /\ Given(s)' = Given(s)
  BY <1>1, SameFormat
<1>4. parses \in {0, 1} /\ parses' > 0 /\ parses' \in 0 .. 2
  BY <1>1 DEF RInv, Typed
<1>5. Typed'
  BY <1>1, <1>4 DEF RInv, Typed
<1>6. Before'
  BY <1>4 DEF Before
<1>7. \E s : Given(s) /\ rtid' = Parsed(s) /\ (parses = 0 => s = text) /\ (parses = 1 => rtid' = rtid /\ rtid' # {})
  <2>1. CASE parses = 0
    <3>1. Given(text)
      BY <1>1, <2>1 DEF RInv, Before
    <3>2. QED BY <1>2, <2>1, <3>1
  <2>2. CASE parses = 1
    <3>1. PICK s : /\ Given(s) /\ rtid = Parsed(s) /\ (stage = "err" <=> rtid = {})
                   /\ stage = "text" => text = ShowText(Unwrap(rtid))
      BY <2>2 DEF RInv, After
    <3>2. Parsed(s) # {} /\ text = ShowText(Unwrap(Parsed(s)))
      BY <1>1, <3>1
    <3>3. Parsed(text) = Parsed(s)
      BY <3>1, <3>2, PrintedAgain
    <3>4. QED BY <1>2, <2>2, <3>1, <3>2, <3>3
  <2>3. QED BY <1>4, <2>1, <2>2
<1>8. PICK s : Given(s) /\ rtid' = Parsed(s) /\ (parses = 0 => s = text) /\ (parses = 1 => rtid' = rtid /\ rtid' # {})
  BY <1>7
<1>9. After'
  <2>1. Given(s)' /\ rtid' = Parsed(s)'
    BY <1>3, <1>8
  <2>2. (stage' = "err" <=> rtid' = {}) /\ stage' # "text"
    BY <1>1
  <2>3. QED BY <2>1, <2>2 DEF After
<1>10. RInv'
  BY <1>5, <1>6, <1>9 DEF RInv
<1>11. QED BY <1>1, <1>8, <1>10

LEMMA RInvNext == RInv /\ [Next]_vars => RInv'
<1> SUFFICES ASSUME RInv, [Next]_vars PROVE RInv'
  OBVIOUS
<1>1. CASE Show
  BY <1>1, RInvShow
<1>2. CASE Parse
  BY <1>2, RInvParse
<1>3. CASE UNCHANGED vars
  <2>1. /\ format' = format /\ origin' = origin /\ stage' = stage /\ rtid' = rtid
        /\ text' = text /\ parses' = parses
    BY <1>3 DEF vars
  <2>2. /\ \A r : ShowText(r)' = ShowText(r)
        /\ \A s : Parsed(s)' = Parsed(s) /\ Given(s)' = Given(s)
    BY <2>1, SameFormat
  <2>3. Typed' /\ Before'
    BY <2>1, <2>2 DEF RInv, Typed, Before, Given, ShowText, BinaryText
  <2>4. After'
    <3>1. SUFFICES ASSUME parses > 0 PROVE After'
      BY <2>1 DEF After
    <3>2. PICK s : /\ Given(s) /\ rtid = Parsed(s) /\ (stage = "err" <=> rtid = {})
                   /\ stage = "text" => text = ShowText(Unwrap(rtid))
      BY <3>1 DEF RInv, After
    <3>3. ShowText(Unwrap(rtid))' = ShowText(Unwrap(rtid))
      BY <2>1 DEF ShowText
    <3>4. Given(s)' /\ rtid' = Parsed(s)'
      BY <2>1, <2>2, <3>2
    <3>5. QED BY <2>1, <3>2, <3>3, <3>4 DEF After
  <2>5. QED BY <2>3, <2>4 DEF RInv
<1>4. QED BY <1>1, <1>2, <1>3 DEF Next

LEMMA RInvHolds == Spec => []RInv
BY RInvInit, RInvNext, PTL DEF Spec
-----------------------------------------------------------------------------
(* An RTID comes back from its own text exactly if the text can tell it    *)
(* apart: in standard and in runtime notation, and through the binary body.*)
THEOREM FaithfulReturns == Spec => []RoundTripIffFaithful
<1>1. RInv => RoundTripIffFaithful
  <2> SUFFICES ASSUME RInv, origin # {}, parses = 1
      PROVE  rtid = origin <=> LET r == Unwrap(origin)
                               IN IF format = "runtime" THEN RuntimeFaithful(r) ELSE StandardFaithful(r)
    BY DEF RoundTripIffFaithful
  <2>1. PICK r \in Rtids : origin = {r}
    BY DEF RInv, Typed
  <2>2. Unwrap(origin) = r /\ IsRtid(r)
    BY <2>1, RtidsAssumption DEF Unwrap
  <2>3. rtid = Parsed(ShowText(r))
    <3>1. parses > 0
      OBVIOUS
    <3>2. PICK s : Given(s) /\ rtid = Parsed(s)
      BY <3>1 DEF RInv, After
    <3>3. QED BY <2>2, <3>2 DEF Given
  <2>4. CASE format = "runtime"
    <3>1. rtid = from_runtime_str(to_runtime_string(r))
      BY <2>3, <2>4 DEF Parsed, ShowText
    <3>2. rtid = origin <=> RuntimeFaithful(r)
      BY <2>1, <2>2, <3>1, RuntimeIff
    <3>3. QED BY <2>2, <2>4, <3>2
  <2>5. CASE format # "runtime"
    <3>1. BinaryText(r) = Display(r)
      BY <2>2, CallersBuild, BodyReads
    <3>2. rtid = FromStr(Display(r))
      BY <2>3, <2>5, <3>1 DEF Parsed, ShowText, RInv, Typed
    <3>3. rtid = origin <=> StandardFaithful(r)
      BY <2>1, <2>2, <3>2, StandardIff
    <3>4. QED BY <2>2, <2>5, <3>3
  <2>6. QED BY <2>4, <2>5
<1>2. QED BY <1>1, RInvHolds, PTL

(* read_rtid_string rebuilds, from the body Serialize writes, the text     *)
(* Display prints: of the RTID given, and of every RTID parsed since.      *)
THEOREM BodyIsDisplay == Spec => []BinaryIsDisplay
<1>1. RInv => BinaryIsDisplay
  <2> SUFFICES ASSUME RInv, format = "binary", stage = "text"
      PROVE  text = Display(Unwrap(rtid))
    BY DEF BinaryIsDisplay
  <2>1. parses \in 0 .. 2
    BY DEF RInv, Typed
  <2>2. CASE parses = 0
    <3>1. Given(text) /\ origin # {} /\ rtid = origin
      BY <2>2 DEF RInv, Before, Given
    <3>2. PICK r \in Rtids : origin = {r}
      BY <3>1 DEF RInv, Typed
    <3>3. Unwrap(origin) = r /\ IsRtid(r)
      BY <3>2, RtidsAssumption DEF Unwrap
    <3>4. BinaryText(r) = Display(r)
      BY <3>3, CallersBuild, BodyReads
    <3>5. QED BY <3>1, <3>3, <3>4 DEF Given, ShowText
  <2>3. CASE parses > 0
    <3>1. PICK s : /\ Given(s) /\ rtid = Parsed(s) /\ (stage = "err" <=> rtid = {})
                   /\ text = ShowText(Unwrap(rtid))
      BY <2>3 DEF RInv, After
    <3>2. PICK r : FromStr(s) = {r} /\ rtid = {r}
      BY <3>1, ParsedIsOne DEF Parsed
    <3>3. BinaryText(r) = Display(r)
      BY <3>2, FromStrBuilds, BodyReads
    <3>4. Unwrap(rtid) = r
      BY <3>2 DEF Unwrap
    <3>5. QED BY <3>1, <3>3, <3>4 DEF ShowText
  <2>4. QED BY <2>1, <2>2, <2>3
<1>2. QED BY <1>1, RInvHolds, PTL

(* What was parsed once prints to a text that parses, as the same RTID:    *)
(* whatever text it came from.                                             *)
THEOREM ParsedStays == Spec => ParsedIsStable
<1>1. RInv /\ [Next]_vars => [parses = 1 /\ parses' = 2 => rtid' = rtid /\ stage' = "rtid"]_vars
  <2> SUFFICES ASSUME RInv, Next, parses = 1, parses' = 2
      PROVE  rtid' = rtid /\ stage' = "rtid"
    OBVIOUS
  <2>1. ~Show
    BY DEF Show
  <2>2. Parse
    BY <2>1 DEF Next
  <2>3. QED BY <2>2, RInvParse
<1>2. QED BY <1>1, RInvHolds, PTL DEF Spec, ParsedIsStable
=============================================================================
