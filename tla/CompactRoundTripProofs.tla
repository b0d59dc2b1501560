----------------------- MODULE CompactRoundTripProofs -----------------------
(***************************************************************************)
(* Proofs about CompactRoundTrip.tla, for every set of texts, integers,    *)
(* RTIDs and blobs, whatever the bounds and the size of the offset word.   *)
(***************************************************************************)
EXTENDS CompactRoundTrip, CompactWriterProofs, CodecProofs

-----------------------------------------------------------------------------
(* A finished file: how its parts lie, from one token to the next.         *)
Full(at, sh) ==
  /\ TypeOK /\ Lined /\ Laid(at, sh) /\ Marks(at, sh) /\ Finished(at, sh)
  /\ bytes # <<>> /\ bytes[1].of = 0 /\ bytes[1].tok = [tag |-> "(header)", version |-> "compact"]

LEMMA FullFacts ==
  ASSUME NEW at, NEW sh, Full(at, sh)
  PROVE  /\ Len(wrote) \in Nat \ {0} /\ Len(bytes) \in Nat /\ bytes[1].of = 0
         /\ bytes[Len(bytes)].of = Len(wrote) + 1 /\ bytes[Len(bytes)].tok.tag = "(footer)"
         /\ at[0] = 2 /\ sh[0] = <<>> /\ at[Len(wrote)] = Len(bytes) /\ sh[Len(wrote)] = <<>>
         /\ \A n \in 0 .. Len(wrote) : at[n] \in Nat \ {0, 1} /\ sh[n] \in Seq(OpenFrame)
<1>1. /\ Len(wrote) \in Nat /\ wrote # <<>> /\ (wrote = <<>> <=> Len(wrote) = 0) /\ Len(bytes) \in Nat
  BY WroteTyped, BytesTyped DEF Full, Finished
<1>2. /\ bytes[Len(bytes)].of = Len(wrote) + 1 /\ bytes[Len(bytes)].tok.tag = "(footer)" /\ bytes[1].of = 0
      /\ at[Len(wrote)] = Len(bytes) /\ sh[Len(wrote)] = <<>>
  BY DEF Full, Finished
<1>3. \A n \in 0 .. Len(wrote) : at[n] \in Nat \ {0, 1} /\ sh[n] \in Seq(OpenFrame)
  BY DEF Full, Laid
<1>4. at[0] = 2 /\ sh[0] = <<>>
  BY DEF Full, Laid
<1>5. QED BY <1>1, <1>2, <1>3, <1>4

LEMMA PartFacts ==
  ASSUME NEW at, NEW sh, Full(at, sh), NEW n \in 1 .. Len(wrote)
  PROVE  /\ n \in Nat \ {0} /\ n - 1 \in 0 .. Len(wrote) /\ n \in 0 .. Len(wrote)
         /\ at[n - 1] \in Nat \ {0, 1} /\ at[n] \in Nat \ {0, 1}
         /\ sh[n - 1] \in Seq(OpenFrame) /\ sh[n] \in Seq(OpenFrame)
         /\ at[n] = at[n - 1] + Weight(wrote[n]) /\ Weight(wrote[n]) \in {0, 1, 3}
         /\ Legal(n, sh[n - 1], wrote[n]) /\ PartAt(n, wrote[n], at[n - 1], sh[n - 1])
         /\ sh[n] = Grown(sh[n - 1], wrote[n], bytes[at[n - 1]])
         /\ Marked(sh[n - 1], at[n - 1])
<1>1. Laid(at, sh) /\ TypeOK /\ Marks(at, sh)
  BY DEF Full
<1>2. Len(wrote) \in Nat
  BY FullFacts
<1>3. Weight(wrote[n]) \in {0, 1, 3}
  BY WeightIs
<1>4. n \in Nat \ {0} /\ n - 1 \in 0 .. Len(wrote) /\ n \in 0 .. Len(wrote)
  BY <1>2
<1>5. Marked(sh[n - 1], at[n - 1])
  BY <1>1 DEF Marks
<1>6. Legal(n, sh[n - 1], wrote[n])
  BY <1>1, LaidAt DEF PartAt
<1>7. QED BY <1>1, <1>3, <1>4, <1>5, <1>6, LaidAt

LEMMA Onwards ==
  ASSUME NEW at, NEW sh, Full(at, sh)
  PROVE  \A m \in 0 .. Len(wrote) : \A n \in 0 .. m : at[n] <= at[m]
<1>. DEFINE S == {m \in Nat : m <= Len(wrote) => \A n \in 0 .. m : at[n] <= at[m]}
<1>1. Len(wrote) \in Nat /\ \A n \in 0 .. Len(wrote) : at[n] \in Nat
  BY FullFacts
<1>2. 0 \in S
  BY <1>1
<1>3. ASSUME NEW m \in S PROVE m + 1 \in S
  <2>1. SUFFICES ASSUME m + 1 <= Len(wrote), NEW n \in 0 .. m + 1 PROVE at[n] <= at[m + 1]
    BY <1>3
  <2>2. m \in Nat /\ m + 1 \in 1 .. Len(wrote) /\ (m + 1) - 1 = m /\ m <= Len(wrote) /\ m \in 0 .. Len(wrote)
    BY <1>1, <2>1
  <2>3. at[m + 1] = at[(m + 1) - 1] + Weight(wrote[m + 1]) /\ Weight(wrote[m + 1]) \in {0, 1, 3}
    BY <2>2, PartFacts
  <2>4. at[m] <= at[m + 1] /\ at[m] \in Nat /\ at[m + 1] \in Nat
    BY <1>1, <2>2, <2>3
  <2>5. n = m + 1 \/ n \in 0 .. m
    BY <2>2
  <2>6. n \in 0 .. Len(wrote) /\ at[n] \in Nat
    BY <1>1, <2>1, <2>2
  <2>7. CASE n \in 0 .. m
    <3>1. at[n] <= at[m]
      BY <1>3, <2>2, <2>7
    <3>2. QED BY <2>4, <2>6, <3>1
  <2>8. QED BY <2>4, <2>5, <2>7
<1>4. S = Nat
  <2>. HIDE DEF S
  <2>1. S \subseteq Nat
    BY DEF S
  <2>2. QED BY <1>2, <1>3, <2>1, InductiveSet
<1>5. QED BY <1>1, <1>4

(* The tokens of a part; and every token belongs to one.                   *)
LEMMA TokensOf ==
  ASSUME NEW at, NEW sh, Full(at, sh), NEW n \in 1 .. Len(wrote), NEW i \in Nat, at[n - 1] <= i, i < at[n]
  PROVE  /\ i \in 1 .. Len(bytes) /\ i < Len(bytes) /\ bytes[i].of = n /\ i - at[n - 1] \in 0 .. Weight(wrote[n]) - 1
         /\ Fills(wrote[n], bytes[i].tok, i - at[n - 1])
<1>1. /\ at[n - 1] \in Nat \ {0, 1} /\ at[n] = at[n - 1] + Weight(wrote[n]) /\ Weight(wrote[n]) \in {0, 1, 3}
      /\ PartAt(n, wrote[n], at[n - 1], sh[n - 1]) /\ n \in 0 .. Len(wrote)
  BY PartFacts
<1>2. at[n] <= Len(bytes) /\ Len(bytes) \in Nat
  <2>1. Len(bytes) \in Nat /\ Len(wrote) \in Nat /\ at[Len(wrote)] = Len(bytes)
    BY FullFacts
  <2>2. Len(wrote) \in 0 .. Len(wrote) /\ n \in 0 .. Len(wrote)
    BY <2>1
  <2>3. at[n] <= at[Len(wrote)]
    BY <2>2, Onwards
  <2>4. QED BY <2>1, <2>3
<1>3. PICK p, w, k : p = at[n - 1] /\ w = Weight(wrote[n]) /\ k = i - at[n - 1]
  OBVIOUS
<1>4. i \in 1 .. Len(bytes) /\ i < Len(bytes) /\ k \in 0 .. w - 1 /\ p + k = i
  <2>1. PICK q, b : q = at[n] /\ b = Len(bytes)
    OBVIOUS
  <2>2. p \in Nat \ {0, 1} /\ w \in {0, 1, 3} /\ q = p + w /\ q <= b /\ b \in Nat /\ p <= i /\ i < q /\ k = i - p
    BY <1>1, <1>2, <1>3, <2>1
  <2>3. i \in 1 .. b /\ i < b /\ k \in 0 .. w - 1 /\ p + k = i
    BY <2>2
  <2>4. QED BY <2>1, <2>3
<1>5. p + k <= Len(bytes) => Fills(wrote[n], bytes[p + k].tok, k) /\ bytes[p + k].of = n
  BY <1>1, <1>3, <1>4 DEF PartAt
<1>6. QED BY <1>2, <1>3, <1>4, <1>5

LEMMA OfSome ==
  ASSUME NEW at, NEW sh, Full(at, sh), NEW i \in 2 .. Len(bytes) - 1
  PROVE  \E n \in 1 .. Len(wrote) : at[n - 1] <= i /\ i < at[n]
<1>. DEFINE T == {m \in Nat : m \in 0 .. Len(wrote) /\ i < at[m]}
<1>1. /\ Len(wrote) \in Nat \ {0} /\ Len(bytes) \in Nat /\ at[Len(wrote)] = Len(bytes) /\ at[0] = 2
      /\ \A n \in 0 .. Len(wrote) : at[n] \in Nat
  BY FullFacts
<1>2. i \in Nat /\ i < Len(bytes) /\ ~(i < 2)
  BY <1>1
<1>3. Len(wrote) \in T
  BY <1>1, <1>2
<1>4. PICK n \in T : \A y \in T : n <= y
  <2>. HIDE DEF T
  <2>1. T \subseteq Nat
    BY DEF T
  <2>2. QED BY <1>3, <2>1, LeastNumber
<1>5. n # 0
  BY <1>1, <1>2
<1>6. n \in 1 .. Len(wrote) /\ n - 1 \in 0 .. Len(wrote) /\ ~(n <= n - 1) /\ n - 1 \in Nat
  BY <1>1, <1>5
<1>7. ~(i < at[n - 1])
  BY <1>4, <1>6
<1>8. at[n - 1] <= i
  BY <1>1, <1>2, <1>6, <1>7
<1>9. QED BY <1>6, <1>8

(* Where the parts after m begin.                                          *)
LEMMA After ==
  ASSUME NEW at, NEW sh, Full(at, sh), NEW m \in 0 .. Len(wrote)
  PROVE  ByteAfter(m) = Start(at[m]) /\ at[m] \in 1 .. Len(bytes)
<1>1. /\ Len(wrote) \in Nat \ {0} /\ Len(bytes) \in Nat /\ at[Len(wrote)] = Len(bytes) /\ at[0] = 2
      /\ \A n \in 0 .. Len(wrote) : at[n] \in Nat \ {0, 1}
      /\ bytes[1].of = 0 /\ bytes[Len(bytes)].of = Len(wrote) + 1
  BY FullFacts
<1>2. PICK p : p = at[m]
  OBVIOUS
<1>3. p \in Nat /\ p <= Len(bytes) /\ p # 0 /\ p # 1 /\ p \in DOMAIN bytes /\ DOMAIN bytes = 1 .. Len(bytes)
  <2>1. Len(wrote) \in 0 .. Len(wrote) /\ m \in 0 .. Len(wrote)
    BY <1>1
  <2>2. at[m] <= at[Len(wrote)]
    BY <2>1, Onwards
  <2>3. DOMAIN bytes = 1 .. Len(bytes)
    BY BytesTyped DEF Full
  <2>4. QED BY <1>1, <1>2, <2>1, <2>2, <2>3
<1>4. ASSUME NEW j \in 2 .. Len(bytes) - 1 PROVE bytes[j].of \in Nat /\ (bytes[j].of > m <=> p <= j)
  <2>1. PICK n \in 1 .. Len(wrote) : at[n - 1] <= j /\ j < at[n]
    BY OfSome
  <2>2. j \in Nat /\ bytes[j].of = n
    <3>1. j \in Nat
      BY <1>1
    <3>2. QED BY <2>1, <3>1, TokensOf
  <2>3. n \in Nat /\ n \in 0 .. Len(wrote) /\ n - 1 \in 0 .. Len(wrote) /\ m \in Nat
    BY <1>1
  <2>4. at[n] \in Nat /\ at[n - 1] \in Nat
    BY <1>1, <2>3
  <2>5. CASE n <= m
    <3>1. n \in 0 .. m
      BY <2>3, <2>5
    <3>2. at[n] <= at[m]
      BY <3>1, Onwards
    <3>3. ~(p <= j)
      BY <1>2, <1>3, <2>1, <2>2, <2>4, <3>2
    <3>4. QED BY <2>2, <2>3, <2>5, <3>3
  <2>6. CASE n > m
    <3>1. m \in 0 .. n - 1
      BY <2>3, <2>6
    <3>2. at[m] <= at[n - 1]
      BY <2>3, <3>1, Onwards
    <3>3. p <= j
      BY <1>2, <1>3, <2>1, <2>2, <2>4, <3>2
    <3>4. QED BY <2>2, <2>3, <2>6, <3>3
  <2>7. QED BY <2>3, <2>5, <2>6
<1>5. ASSUME NEW j \in 1 .. Len(bytes) PROVE bytes[j].of \in Nat /\ (bytes[j].of > m <=> p <= j)
  <2>1. j = 1 \/ j = Len(bytes) \/ j \in 2 .. Len(bytes) - 1
    BY <1>1
  <2>2. CASE j = 1
    BY <1>1, <1>3, <2>2
  <2>3. CASE j = Len(bytes)
    BY <1>1, <1>3, <2>3
  <2>4. QED BY <1>4, <2>1, <2>2, <2>3
<1>. DEFINE A(i) == bytes[i].of > m /\ \A j \in 1 .. i - 1 : bytes[j].of <= m
<1>6. A(p)
  <2>1. bytes[p].of > m
    BY <1>3, <1>5
  <2>2. ASSUME NEW j \in 1 .. p - 1 PROVE bytes[j].of <= m
    <3>1. j \in 1 .. Len(bytes) /\ ~(p <= j)
      BY <1>1, <1>3
    <3>2. bytes[j].of \in Nat /\ ~(bytes[j].of > m)
      BY <1>5, <3>1
    <3>3. m \in Nat
      BY <1>1
    <3>4. QED BY <3>2, <3>3
  <2>3. QED BY <2>1, <2>2
<1>7. ASSUME NEW i \in DOMAIN bytes, A(i) PROVE i = p
  <2>1. i \in 1 .. Len(bytes) /\ p <= i /\ i \in Nat
    BY <1>1, <1>3, <1>5, <1>7
  <2>2. ~(p \in 1 .. i - 1)
    <3>1. m \in Nat /\ bytes[p].of \in Nat /\ bytes[p].of > m
      BY <1>1, <1>3, <1>5, <1>6
    <3>2. ~(bytes[p].of <= m)
      BY <3>1
    <3>3. QED BY <1>7, <3>2
  <2>3. QED BY <1>3, <2>1, <2>2
<1>8. (CHOOSE i \in DOMAIN bytes : A(i)) = p
  <2>. HIDE DEF A
  <2>1. QED BY <1>3, <1>6, <1>7
<1>9. ByteAfter(m) = bytes[p].at
  BY <1>8 DEF ByteAfter
<1>10. QED BY <1>2, <1>3, <1>9 DEF Start
-----------------------------------------------------------------------------
(* What a part does to the containers: it begins one, ends one, or changes *)
(* the innermost; the others stay as they are.                             *)
Deepens(c, s, t) ==
  /\ c.kind \in Containers => Len(t) = Len(s) + 1
  /\ c.kind = "end" => Len(s) > 0 /\ Len(t) = Len(s) - 1
  /\ c.kind \notin Containers \cup {"end"} => Len(t) = Len(s)
  /\ \A i \in 1 .. Len(s) - 1 : t[i] = s[i]
  /\ c.kind \notin {"key", "end"} => \A i \in 1 .. Len(s) : t[i] = Ticked(s)[i]
LEMMA GrownDepth ==
  ASSUME NEW n, NEW s \in Seq(OpenFrame), NEW c, NEW x, Legal(n, s, c), NEW t \in Seq(OpenFrame), t = Grown(s, c, x)
  PROVE  Deepens(c, s, t)
<1>. SUFFICES /\ c.kind \in Containers => Len(t) = Len(s) + 1
              /\ c.kind = "end" => Len(s) > 0 /\ Len(t) = Len(s) - 1
              /\ c.kind \notin Containers \cup {"end"} => Len(t) = Len(s)
              /\ \A i \in 1 .. Len(s) - 1 : t[i] = s[i]
              /\ c.kind \notin {"key", "end"} => \A i \in 1 .. Len(s) : t[i] = Ticked(s)[i]
  BY Zenon DEF Deepens
<1>1. Len(s) \in Nat
  OBVIOUS
<1>2. ASSUME c.kind \notin {"key", "end"}
      PROVE  /\ Ticked(s) \in Seq(OpenFrame) /\ Len(Ticked(s)) = Len(s)
             /\ \A i \in 1 .. Len(s) - 1 : Ticked(s)[i] = s[i]
  <2>1. Ticked(s) \in Seq(OpenFrame) /\ Len(Ticked(s)) = Len(s)
    BY <1>2, TickedTyped DEF Legal
  <2>2. CASE s = <<>>
    BY <2>1, <2>2
  <2>3. CASE s # <<>>
    <3>1. PICK u : u = Ticked(s)
      OBVIOUS
    <3>2. \A i \in 1 .. Len(s) : i # Len(s) => u[i] = s[i]
      BY <1>2, <2>3, <3>1, TickedProps DEF Legal
    <3>3. \A i \in 1 .. Len(s) - 1 : i \in 1 .. Len(s) /\ i # Len(s)
      BY <1>1
    <3>4. QED BY <2>1, <3>1, <3>2, <3>3
  <2>4. QED BY <2>2, <2>3
<1>3. CASE c.kind \in Containers
  <2>1. c.kind \notin {"key", "end"}
    BY <1>3 DEF Containers
  <2>2. \E f \in {ArrayFrame(x), ObjectFrame} : Grown(s, c, x) = Append(Ticked(s), f)
    BY <1>3, GrownIs DEF Containers
  <2>3. PICK u, f : u = Ticked(s) /\ Grown(s, c, x) = Append(u, f)
    BY <2>2
  <2>4. u \in Seq(OpenFrame) /\ Len(u) = Len(s) /\ \A i \in 1 .. Len(s) - 1 : u[i] = s[i]
    BY <1>2, <2>1, <2>3
  <2>5. Len(Append(u, f)) = Len(u) + 1 /\ \A i \in 1 .. Len(u) : Append(u, f)[i] = u[i]
    BY <2>4
  <2>6. \A i \in 1 .. Len(s) - 1 : i \in 1 .. Len(s)
    BY <1>1
  <2>7. QED BY <1>3, <2>1, <2>3, <2>4, <2>5, <2>6
<1>4. CASE c.kind = "end"
  <2>1. s # <<>>
    BY <1>4 DEF Legal
  <2>2. Len(s) > 0
    BY <1>1, <2>1
  <2>3. PICK u : u = SubSeq(s, 1, Len(s) - 1)
    OBVIOUS
  <2>4. Len(u) = Len(s) - 1 /\ \A i \in 1 .. Len(s) - 1 : u[i] = s[i]
    BY <2>1, <2>3, CutProps
  <2>5. Grown(s, c, x) = u
    BY <1>4, <2>3, GrownIs
  <2>6. QED BY <1>4, <2>2, <2>4, <2>5 DEF Containers
<1>5. CASE c.kind = "key"
  <2>1. s # <<>> /\ Last1(s).kind = "object"
    BY <1>5 DEF Legal
  <2>2. PICK o : Grown(s, c, x) = Keyed(s, o)
    BY <1>5, GrownIs
  <2>3. DOMAIN s = 1 .. Len(s)
    OBVIOUS
  <2>4. DOMAIN Keyed(s, o) = 1 .. Len(s) /\ \A i \in 1 .. Len(s) - 1 : Keyed(s, o)[i] = s[i]
    BY <1>1, <2>3 DEF Keyed
  <2>5. Len(t) = Len(s)
    <3>1. \A u \in Seq(OpenFrame) : \A m \in Nat : DOMAIN u = 1 .. m => Len(u) = m
      OBVIOUS
    <3>2. QED BY <1>1, <2>2, <2>4, <3>1
  <2>6. QED BY <1>5, <2>2, <2>4, <2>5 DEF Containers
<1>6. CASE c.kind \notin {"array", "object", "key", "end"}
  <2>1. Grown(s, c, x) = Ticked(s)
    BY <1>6, GrownIs
  <2>2. QED BY <1>2, <1>6, <2>1 DEF Containers
<1>7. c.kind \in Containers \/ c.kind = "end" \/ c.kind = "key" \/ c.kind \notin {"array", "object", "key", "end"}
  BY DEF Containers
<1>8. QED BY <1>3, <1>4, <1>5, <1>6, <1>7

LEMMA PartGrows ==
  ASSUME NEW at, NEW sh, Full(at, sh), NEW n \in 1 .. Len(wrote)
  PROVE  /\ Len(sh[n]) \in Nat /\ Len(sh[n - 1]) \in Nat
         /\ wrote[n].kind \in Containers => Len(sh[n]) = Len(sh[n - 1]) + 1
         /\ wrote[n].kind = "end" => Len(sh[n - 1]) > 0 /\ Len(sh[n]) = Len(sh[n - 1]) - 1
         /\ wrote[n].kind \notin Containers \cup {"end"} => Len(sh[n]) = Len(sh[n - 1])
         /\ \A i \in 1 .. Len(sh[n - 1]) - 1 : sh[n][i] = sh[n - 1][i]
         /\ wrote[n].kind \notin {"key", "end"} => \A i \in 1 .. Len(sh[n - 1]) : sh[n][i] = Ticked(sh[n - 1])[i]
<1>1. PICK s, t, c, x : s = sh[n - 1] /\ t = sh[n] /\ c = wrote[n] /\ x = bytes[at[n - 1]]
  OBVIOUS
<1>2. s \in Seq(OpenFrame) /\ t \in Seq(OpenFrame) /\ Legal(n, s, c) /\ t = Grown(s, c, x)
  BY <1>1, PartFacts
<1>3. Len(s) \in Nat /\ Len(t) \in Nat
  BY <1>2
<1>4. /\ c.kind \in Containers => Len(t) = Len(s) + 1
      /\ c.kind = "end" => Len(s) > 0 /\ Len(t) = Len(s) - 1
      /\ c.kind \notin Containers \cup {"end"} => Len(t) = Len(s)
      /\ \A i \in 1 .. Len(s) - 1 : t[i] = s[i]
      /\ c.kind \notin {"key", "end"} => \A i \in 1 .. Len(s) : t[i] = Ticked(s)[i]
  <2>1. Deepens(c, s, t)
    BY <1>2, GrownDepth
  <2>2. QED BY <2>1, Zenon DEF Deepens
<1>5. QED BY <1>1, <1>3, <1>4

LEMMA PartDepth ==
  ASSUME NEW at, NEW sh, Full(at, sh), NEW n \in 1 .. Len(wrote)
  PROVE  /\ Len(sh[n]) \in Nat /\ Len(sh[n - 1]) \in Nat
         /\ wrote[n].kind \in Containers => Len(sh[n]) = Len(sh[n - 1]) + 1
         /\ wrote[n].kind = "end" => Len(sh[n - 1]) > 0 /\ Len(sh[n]) = Len(sh[n - 1]) - 1
         /\ wrote[n].kind \notin Containers \cup {"end"} => Len(sh[n]) = Len(sh[n - 1])
<1>1. QED BY PartGrows

LEMMA PartTicks ==
  ASSUME NEW at, NEW sh, Full(at, sh), NEW n \in 1 .. Len(wrote), wrote[n].kind \notin {"key", "end"}
  PROVE  \A i \in 1 .. Len(sh[n - 1]) : sh[n][i] = Ticked(sh[n - 1])[i]
<1>1. QED BY PartGrows

(* While everything stays open beyond the first d containers, these do not *)
(* change.                                                                 *)
Beyond(sh, k, m, d) == \A n \in k .. m - 1 : Len(sh[n]) > d
LEMMA OuterStay ==
  ASSUME NEW at, NEW sh, Full(at, sh), NEW k \in 0 .. Len(wrote), NEW m \in k .. Len(wrote), NEW d \in Nat,
         Beyond(sh, k, m, d)
  PROVE  \A i \in 1 .. d : sh[m][i] = sh[k][i]
<1>. DEFINE S == {j \in Nat : k + j <= m => \A i \in 1 .. d : sh[k + j][i] = sh[k][i]}
<1>1. Len(wrote) \in Nat /\ k \in Nat /\ m \in Nat /\ m >= k /\ m <= Len(wrote)
  <2>1. Len(wrote) \in Nat
    BY FullFacts
  <2>2. QED BY <2>1
<1>2. 0 \in S
  BY <1>1
<1>3. ASSUME NEW j \in S PROVE j + 1 \in S
  <2>1. j + 1 \in Nat /\ j \in Nat
    OBVIOUS
  <2>2. SUFFICES ASSUME k + (j + 1) <= m, NEW i \in 1 .. d PROVE sh[k + (j + 1)][i] = sh[k][i]
    BY <2>1
  <2>3. PICK n : n = k + (j + 1)
    OBVIOUS
  <2>4. /\ n \in 1 .. Len(wrote) /\ n - 1 = k + j /\ k + j <= m /\ n - 1 \in k .. m - 1
    BY <1>1, <2>1, <2>2, <2>3
  <2>5. Len(sh[n - 1]) > d /\ Len(sh[n - 1]) \in Nat
    BY <2>4, PartGrows DEF Beyond
  <2>6. i \in 1 .. Len(sh[n - 1]) - 1
    BY <2>5
  <2>7. sh[n][i] = sh[n - 1][i]
    BY <2>4, <2>6, PartGrows
  <2>8. sh[k + j][i] = sh[k][i]
    BY <1>3, <2>4
  <2>9. QED BY <2>3, <2>4, <2>7, <2>8
<1>4. S = Nat
  <2>. HIDE DEF S
  <2>1. S \subseteq Nat
    BY DEF S
  <2>2. QED BY <1>2, <1>3, <2>1, InductiveSet
<1>5. PICK j \in Nat : k + j = m
  BY <1>1
<1>6. k + j <= m
  BY <1>1, <1>5
<1>7. \A i \in 1 .. d : sh[k + j][i] = sh[k][i]
  BY <1>4, <1>6
<1>8. QED BY <1>5, <1>7
-----------------------------------------------------------------------------
(* How many of the numbers from a to b are in P, counted one by one.       *)
Upto(P, a, b) == {i \in a .. b : i \in P}
LEMMA CountOne ==
  ASSUME NEW P, NEW a \in Nat, NEW b \in Nat, a <= b + 1
  PROVE  /\ Cardinality(Upto(P, a, b)) \in Nat
         /\ Cardinality(Upto(P, a, b + 1))
              = Cardinality(Upto(P, a, b)) + (IF b + 1 \in P THEN 1 ELSE 0)
         /\ \A c \in Int : c < a => Cardinality(Upto(P, a, c)) = 0
<1>. DEFINE A == {i \in a .. b : i \in P}
            B == {i \in a .. b + 1 : i \in P}
<1>1. IsFiniteSet(A) /\ Cardinality(A) \in Nat
  <2>1. IsFiniteSet(a .. b)
    BY FS_Interval
  <2>2. A \in SUBSET (a .. b)
    OBVIOUS
  <2>. HIDE DEF A
  <2>3. IsFiniteSet(A)
    BY <2>1, <2>2, FS_Subset
  <2>4. QED BY <2>3, FS_CardinalityType
<1>2. \A c \in Int : c < a => Cardinality(Upto(P, a, c)) = 0
  <2>1. ASSUME NEW c \in Int, c < a PROVE Upto(P, a, c) = {}
    BY <2>1 DEF Upto
  <2>2. QED BY <2>1, FS_EmptySet
<1>3. CASE b + 1 \in P
  <2>1. B = A \cup {b + 1} /\ b + 1 \notin A
    BY <1>3
  <2>. HIDE DEF A, B
  <2>2. Cardinality(A \cup {b + 1}) = Cardinality(A) + 1
    BY <1>1, <2>1, FS_AddElement
  <2>3. Cardinality(B) = Cardinality(A) + 1
    BY <2>1, <2>2
  <2>4. QED BY <1>1, <1>3, <2>3, <1>2 DEF A, B, Upto
<1>4. CASE b + 1 \notin P
  <2>1. B = A
    BY <1>4
  <2>. HIDE DEF A, B
  <2>2. Cardinality(B) = Cardinality(A) + 0
    BY <1>1, <2>1
  <2>3. QED BY <1>1, <1>4, <2>2, <1>2 DEF A, B, Upto
<1>5. QED BY <1>3, <1>4

(* Opened and closed: the difference is what is open.                      *)
LEMMA Balance ==
  ASSUME NEW at, NEW sh, Full(at, sh), NEW k \in 1 .. Len(wrote), NEW m \in k - 1 .. Len(wrote)
  PROVE  /\ Count(k, m, {"array", "object"}) \in Nat /\ Count(k, m, {"end"}) \in Nat
         /\ Count(k, m, {"array", "object"}) + Len(sh[k - 1]) = Count(k, m, {"end"}) + Len(sh[m])
<1>. DEFINE Opens == {i \in Nat : wrote[i].kind \in {"array", "object"}}
            Shuts == {i \in Nat : wrote[i].kind \in {"end"}}
            o(n) == Cardinality(Upto(Opens, k, n))
            e(n) == Cardinality(Upto(Shuts, k, n))
            Right(n) == o(n) \in Nat /\ e(n) \in Nat /\ o(n) + Len(sh[k - 1]) = e(n) + Len(sh[n])
            S == {j \in Nat : (k - 1) + j <= Len(wrote) => Right((k - 1) + j)}
<1>1. Len(wrote) \in Nat /\ k \in Nat \ {0} /\ k <= Len(wrote) /\ k - 1 \in Nat
  BY FullFacts
<1>2. \A n \in 0 .. Len(wrote) : Len(sh[n]) \in Nat
  BY FullFacts
<1>3. \A n : Count(k, n, {"array", "object"}) = o(n) /\ Count(k, n, {"end"}) = e(n)
  <2>1. SUFFICES ASSUME NEW n PROVE Count(k, n, {"array", "object"}) = o(n) /\ Count(k, n, {"end"}) = e(n)
    OBVIOUS
  <2>2. /\ {i \in k .. n : wrote[i].kind \in {"array", "object"}} = Upto(Opens, k, n)
        /\ {i \in k .. n : wrote[i].kind \in {"end"}} = Upto(Shuts, k, n)
    <3>1. \A i \in k .. n : i \in Nat
      BY <1>1
    <3>2. QED BY <3>1 DEF Upto
  <2>3. QED BY <2>2 DEF Count
<1>4. /\ \A n \in Nat : k <= n + 1 =>
            /\ o(n) \in Nat /\ e(n) \in Nat
            /\ o(n + 1) = o(n) + (IF n + 1 \in Opens THEN 1 ELSE 0)
            /\ e(n + 1) = e(n) + (IF n + 1 \in Shuts THEN 1 ELSE 0)
      /\ o(k - 1) = 0 /\ e(k - 1) = 0
  <2>. HIDE DEF Opens, Shuts
  <2>1. ASSUME NEW n \in Nat, k <= n + 1
        PROVE  /\ o(n) \in Nat /\ e(n) \in Nat
               /\ o(n + 1) = o(n) + (IF n + 1 \in Opens THEN 1 ELSE 0)
               /\ e(n + 1) = e(n) + (IF n + 1 \in Shuts THEN 1 ELSE 0)
    <3>1. k \in Nat /\ n + 1 \in Nat
      BY <1>1
    <3>2. ASSUME NEW P
          PROVE  /\ Cardinality(Upto(P, k, n)) \in Nat
                 /\ Cardinality(Upto(P, k, n + 1)) = Cardinality(Upto(P, k, n)) + (IF n + 1 \in P THEN 1 ELSE 0)
      BY <2>1, <3>1, CountOne
    <3>3. QED BY <3>2
  <2>2. k - 1 \in Int /\ k - 1 < k /\ k <= k + 1
    BY <1>1
  <2>3. o(k - 1) = 0 /\ e(k - 1) = 0
    <3>1. k \in Nat
      BY <1>1
    <3>2. \A P : \A c \in Int : c < k => Cardinality(Upto(P, k, c)) = 0
      BY <2>2, <3>1, CountOne
    <3>3. QED BY <2>2, <3>2
  <2>4. QED BY <2>1, <2>3
<1>5. \A n \in 1 .. Len(wrote) : /\ n \in Opens <=> wrote[n].kind \in Containers
                                 /\ n \in Shuts <=> wrote[n].kind = "end"
  BY <1>1 DEF Containers
<1>. HIDE DEF Opens, Shuts, o, e
<1>6. 0 \in S
  <2>1. (k - 1) + 0 = k - 1 /\ k - 1 \in 0 .. Len(wrote)
    BY <1>1
  <2>2. Right(k - 1)
    BY <1>2, <1>4, <2>1
  <2>3. QED BY <2>1, <2>2
<1>7. ASSUME NEW j \in S PROVE j + 1 \in S
  <2>1. j \in Nat /\ j + 1 \in Nat
    OBVIOUS
  <2>2. SUFFICES ASSUME (k - 1) + (j + 1) <= Len(wrote) PROVE Right((k - 1) + (j + 1))
    BY <2>1
  <2>3. PICK n : n = (k - 1) + j
    OBVIOUS
  <2>4. /\ n \in Nat /\ (k - 1) + (j + 1) = n + 1 /\ k <= n + 1 /\ n <= Len(wrote) /\ n + 1 \in 1 .. Len(wrote)
        /\ (n + 1) - 1 = n
    BY <1>1, <2>1, <2>2, <2>3
  <2>5. Right(n)
    BY <1>7, <2>3, <2>4
  <2>6. PICK c : c = wrote[n + 1].kind
    OBVIOUS
  <2>7. /\ Len(sh[n + 1]) \in Nat /\ Len(sh[n]) \in Nat
        /\ c \in Containers => Len(sh[n + 1]) = Len(sh[n]) + 1
        /\ c = "end" => Len(sh[n]) > 0 /\ Len(sh[n + 1]) = Len(sh[n]) - 1
        /\ c \notin Containers \cup {"end"} => Len(sh[n + 1]) = Len(sh[n])
    BY <2>4, <2>6, PartGrows
  <2>8. /\ o(n + 1) = o(n) + (IF c \in Containers THEN 1 ELSE 0)
        /\ e(n + 1) = e(n) + (IF c = "end" THEN 1 ELSE 0)
        /\ ~(c \in Containers /\ c = "end")
    BY <1>4, <1>5, <2>4, <2>6 DEF Containers
  <2>9. Len(sh[k - 1]) \in Nat
    BY <1>1, <1>2
  <2>10. Right(n + 1)
    <3>. DEFINE Sums(u, v, x, y) == u \in Nat /\ v \in Nat /\ u + y = v + x
    <3>1. PICK y, z, x : y = Len(sh[k - 1]) /\ z = Len(sh[n + 1]) /\ x = Len(sh[n])
      OBVIOUS
    <3>2. \A i : Right(i) <=> Sums(o(i), e(i), Len(sh[i]), Len(sh[k - 1]))
      OBVIOUS
    <3>3. Sums(o(n), e(n), x, y) /\ x \in Nat /\ y \in Nat
      BY <2>5, <2>7, <2>9, <3>1, <3>2 DEF Right
    <3>4. Right(n + 1) <=> Sums(o(n + 1), e(n + 1), z, y)
      BY <3>1, <3>2
    <3>. HIDE DEF Right
    <3>5. PICK u, v : u = o(n) /\ v = e(n)
      OBVIOUS
    <3>. HIDE DEF o, e
    <3>6. u \in Nat /\ v \in Nat /\ u + y = v + x
      BY <3>3, <3>5
    <3>7. PICK a, b : a = o(n + 1) /\ b = e(n + 1)
      OBVIOUS
    <3>8. \/ c \in Containers /\ z = x + 1 /\ a = u + 1 /\ b = v
          \/ c = "end" /\ x > 0 /\ z = x - 1 /\ a = u /\ b = v + 1
          \/ c \notin Containers /\ c # "end" /\ z = x /\ a = u /\ b = v
      <4>1. PICK f, g : f = (IF c \in Containers THEN 1 ELSE 0) /\ g = (IF c = "end" THEN 1 ELSE 0)
        OBVIOUS
      <4>2. a = u + f /\ b = v + g
        BY <2>8, <3>5, <3>7, <4>1
      <4>3. /\ c \in Containers => z = x + 1
            /\ c = "end" => x > 0 /\ z = x - 1
            /\ c \notin Containers \cup {"end"} => z = x
        BY <2>7, <3>1
      <4>4. ~(c \in Containers /\ c = "end")
        BY <2>8
      <4>5. CASE c \in Containers
        <5>1. f = 1 /\ g = 0 /\ c # "end"
          BY <4>1, <4>4, <4>5
        <5>2. a = u + 1 /\ b = v
          BY <3>6, <4>2, <5>1
        <5>3. QED BY <4>3, <4>5, <5>2
      <4>6. CASE c = "end"
        <5>1. f = 0 /\ g = 1
          BY <4>1, <4>4, <4>6
        <5>2. a = u /\ b = v + 1
          BY <3>6, <4>2, <5>1
        <5>3. QED BY <4>3, <4>6, <5>2
      <4>7. CASE c \notin Containers /\ c # "end"
        <5>1. f = 0 /\ g = 0
          BY <4>1, <4>7
        <5>2. a = u /\ b = v
          BY <3>6, <4>2, <5>1
        <5>3. QED BY <4>3, <4>7, <5>2
      <4>8. QED BY <4>5, <4>6, <4>7
    <3>9. a \in Nat /\ b \in Nat /\ a + y = b + z
      <4>1. CASE z = x + 1 /\ a = u + 1 /\ b = v
        BY <3>3, <3>6, <4>1
      <4>2. CASE x > 0 /\ z = x - 1 /\ a = u /\ b = v + 1
        BY <3>3, <3>6, <4>2
      <4>3. CASE z = x /\ a = u /\ b = v
        BY <3>3, <3>6, <4>3
      <4>4. QED BY <3>8, <4>1, <4>2, <4>3
    <3>10. Sums(o(n + 1), e(n + 1), z, y)
      BY <3>7, <3>9
    <3>11. QED BY <3>4, <3>10
  <2>11. QED BY <2>4, <2>10
<1>8. S = Nat
  <2>. HIDE DEF S
  <2>1. S \subseteq Nat
    BY DEF S
  <2>2. QED BY <1>6, <1>7, <2>1, InductiveSet
<1>9. Right(m)
  <2>1. PICK j \in Nat : (k - 1) + j = m
    BY <1>1
  <2>2. (k - 1) + j <= Len(wrote)
    BY <1>1, <2>1
  <2>3. j \in S
    BY <1>8
  <2>4. Right((k - 1) + j)
    BY <2>2, <2>3
  <2>5. QED BY <2>1, <2>4
<1>10. QED BY <1>3, <1>9

(* The value that begins with part k ends where as much is open as before. *)
LEMMA ValueEnds ==
  ASSUME NEW at, NEW sh, Full(at, sh), NEW k \in 1 .. Len(wrote), wrote[k].kind # "end"
  PROVE  /\ LastPart(k) \in k .. Len(wrote) /\ Len(sh[LastPart(k)]) = Len(sh[k - 1])
         /\ \A n \in k .. LastPart(k) - 1 : Len(sh[n]) > Len(sh[k - 1])
<1>. DEFINE d == Len(sh[k - 1])
            T == {n \in Nat : n \in k .. Len(wrote) /\ Len(sh[n]) <= d}
<1>1. Len(wrote) \in Nat /\ k \in Nat \ {0} /\ k <= Len(wrote) /\ k - 1 \in 0 .. Len(wrote) /\ sh[Len(wrote)] = <<>>
  BY FullFacts
<1>2. d \in Nat /\ \A n \in 0 .. Len(wrote) : Len(sh[n]) \in Nat
  BY <1>1, FullFacts
<1>. HIDE DEF d
<1>3. Len(wrote) \in T
  BY <1>1, <1>2
<1>4. PICK l \in T : \A y \in T : l <= y
  <2>. HIDE DEF T
  <2>1. T \subseteq Nat
    BY DEF T
  <2>2. QED BY <1>3, <2>1, LeastNumber
<1>5. l \in Nat /\ l \in k .. Len(wrote) /\ Len(sh[l]) <= d /\ Len(sh[l]) \in Nat
  BY <1>1, <1>2
<1>6. ASSUME NEW n \in k .. l - 1 PROVE Len(sh[n]) > d
  <2>1. n \in Nat /\ n \in k .. Len(wrote) /\ n \in 0 .. Len(wrote) /\ ~(l <= n)
    BY <1>1, <1>5
  <2>2. ~(Len(sh[n]) <= d)
    BY <1>4, <2>1
  <2>3. QED BY <1>2, <2>1, <2>2
<1>7. Len(sh[l]) = d
  <2>1. l \in 1 .. Len(wrote)
    BY <1>1, <1>5
  <2>2. /\ Len(sh[l - 1]) \in Nat
        /\ wrote[l].kind = "end" => Len(sh[l]) = Len(sh[l - 1]) - 1
        /\ wrote[l].kind # "end" => Len(sh[l]) >= Len(sh[l - 1])
    <3>1. PICK c, x, y : c = wrote[l].kind /\ x = Len(sh[l]) /\ y = Len(sh[l - 1])
      OBVIOUS
    <3>2. /\ x \in Nat /\ y \in Nat
          /\ c \in Containers => x = y + 1
          /\ c = "end" => x = y - 1
          /\ c \notin Containers \cup {"end"} => x = y
      BY <2>1, <3>1, PartGrows
    <3>3. c # "end" => x >= y
      BY <3>2
    <3>4. QED BY <3>1, <3>2, <3>3
  <2>3. CASE l = k
    <3>1. Len(sh[l]) >= Len(sh[l - 1]) /\ l - 1 = k - 1
      BY <2>2, <2>3
    <3>2. Len(sh[l]) >= d
      BY <3>1 DEF d
    <3>3. QED BY <1>2, <1>5, <3>2
  <2>4. CASE l # k
    <3>1. l - 1 \in k .. l - 1
      BY <1>1, <1>5, <2>4
    <3>2. Len(sh[l - 1]) > d
      BY <1>6, <3>1
    <3>3. QED BY <1>2, <1>5, <2>2, <3>2
  <2>5. QED BY <2>3, <2>4
<1>8. ASSUME NEW n \in k .. Len(wrote)
      PROVE  Count(k, n, {"array", "object"}) = Count(k, n, {"end"}) <=> Len(sh[n]) = d
  <2>1. n \in k - 1 .. Len(wrote) /\ n \in 0 .. Len(wrote)
    BY <1>1
  <2>2. PICK u, v, x : u = Count(k, n, {"array", "object"}) /\ v = Count(k, n, {"end"}) /\ x = Len(sh[n])
    OBVIOUS
  <2>3. u \in Nat /\ v \in Nat /\ u + d = v + x
    BY <2>1, <2>2, Balance DEF d
  <2>4. x \in Nat
    BY <1>2, <2>1, <2>2
  <2>5. u = v <=> x = d
    BY <1>2, <2>3, <2>4
  <2>6. QED BY <2>2, <2>5
<1>. DEFINE Stops(m) == /\ Count(k, m, {"array", "object"}) = Count(k, m, {"end"})
                       /\ \A n \in k .. m - 1 : Count(k, n, {"array", "object"}) # Count(k, n, {"end"})
<1>9. Stops(l)
  <2>1. ASSUME NEW n \in k .. l - 1 PROVE Count(k, n, {"array", "object"}) # Count(k, n, {"end"})
    <3>1. n \in k .. Len(wrote) /\ n \in 0 .. Len(wrote)
      BY <1>1, <1>5
    <3>2. Len(sh[n]) # d
      BY <1>2, <1>6, <3>1
    <3>3. QED BY <1>8, <3>1, <3>2
  <2>2. Count(k, l, {"array", "object"}) = Count(k, l, {"end"})
    BY <1>5, <1>7, <1>8
  <2>3. QED BY <2>1, <2>2
<1>10. ASSUME NEW m \in k .. Len(wrote), Stops(m) PROVE m = l
  <2>1. Len(sh[m]) = d
    BY <1>8, <1>10
  <2>2. m \in Nat
    BY <1>1
  <2>3. ~(l \in k .. m - 1)
    BY <1>9, <1>10
  <2>4. m \in T
    BY <1>2, <2>1, <2>2
  <2>5. l <= m
    BY <1>4, <2>4
  <2>6. QED BY <1>1, <1>5, <2>2, <2>3, <2>5
<1>11. (CHOOSE m \in k .. Len(wrote) : Stops(m)) = l
  <2>. HIDE DEF Stops
  <2>1. QED BY <1>5, <1>9, <1>10
<1>12. LastPart(k) = l
  BY <1>11 DEF LastPart
<1>13. QED BY <1>5, <1>6, <1>7, <1>12 DEF d

(* The elements of an array begin where only it is open, and before it     *)
(* ends.                                                                   *)
Elems(sh, n, j) == Upto({y \in Nat : Len(sh[y - 1]) = Len(sh[n - 1]) + 1}, n + 1, j)
LEMMA ElementsAre ==
  ASSUME NEW at, NEW sh, Full(at, sh), NEW k \in 1 .. Len(wrote), wrote[k].kind # "end"
  PROVE  ElementsOf(k) = Elems(sh, k, LastPart(k) - 1)
<1>1. Len(wrote) \in Nat /\ k \in Nat \ {0} /\ LastPart(k) \in k .. Len(wrote) /\ k - 1 \in 0 .. Len(wrote)
  BY FullFacts, ValueEnds
<1>2. ASSUME NEW m \in k + 1 .. LastPart(k) - 1
      PROVE  Count(k, m - 1, {"array", "object"}) = 1 + Count(k, m - 1, {"end"})
               <=> Len(sh[m - 1]) = Len(sh[k - 1]) + 1
  <2>1. m - 1 \in k - 1 .. Len(wrote) /\ m - 1 \in 0 .. Len(wrote)
    BY <1>1
  <2>2. PICK u, v, x, y : /\ u = Count(k, m - 1, {"array", "object"}) /\ v = Count(k, m - 1, {"end"})
                          /\ x = Len(sh[m - 1]) /\ y = Len(sh[k - 1])
    OBVIOUS
  <2>3. u \in Nat /\ v \in Nat /\ u + y = v + x
    BY <2>1, <2>2, Balance
  <2>4. x \in Nat /\ y \in Nat
    <3>1. sh[m - 1] \in Seq(OpenFrame) /\ sh[k - 1] \in Seq(OpenFrame)
      BY <1>1, <2>1, FullFacts
    <3>2. QED BY <2>2, <3>1
  <2>5. u = 1 + v <=> x = y + 1
    BY <2>3, <2>4
  <2>6. QED BY <2>2, <2>5
<1>3. \A m \in k + 1 .. LastPart(k) - 1 : m \in Nat
  BY <1>1
<1>4. QED BY <1>2, <1>3 DEF ElementsOf, Elems, Upto
-----------------------------------------------------------------------------
(* What the tokens of a part can be; a paired string is a key.             *)
LEMMA PartIs ==
  ASSUME NEW c \in Part
  PROVE  /\ c.kind \in {"string", "key"} => c.str \in Strings
         /\ c.kind = "binary" => c.bytes \in Blobs
         /\ c.kind = "end" => c.of \in {"array", "object"}
         /\ c.kind \in {"null", "bool", "int", "float", "rtid"} => c \in Scalars
         /\ c.kind \in {"string", "key", "binary", "array", "object", "end", "null", "bool", "int", "float", "rtid"}
<1>1. \A v \in Scalars : v.kind \in {"null", "bool", "int", "float", "rtid"}
  BY PartKinds
<1>2. \/ c \in Scalars \/ c \in [kind : {"string", "key"}, str : Strings] \/ c \in [kind : {"binary"}, bytes : Blobs]
      \/ c \in [kind : {"array", "object"}] \/ c \in [kind : {"end"}, of : {"array", "object"}]
  BY DEF Part
<1>3. CASE c \in Scalars
  BY <1>1, <1>3
<1>4. CASE c \in [kind : {"string", "key"}, str : Strings] \/ c \in [kind : {"binary"}, bytes : Blobs]
  BY <1>4
<1>5. CASE c \in [kind : {"array", "object"}] \/ c \in [kind : {"end"}, of : {"array", "object"}]
  BY <1>5
<1>6. QED BY <1>2, <1>3, <1>4, <1>5

LEMMA StringTags ==
  /\ DefTag(FALSE, FALSE) = "CompactLatin1StringDefinition" /\ DefTag(TRUE, FALSE) = "CompactUtf32StringDefinition"
  /\ RefTag(FALSE, FALSE) = "CompactLatin1StringReference" /\ RefTag(TRUE, FALSE) = "CompactUtf32StringReference"
  /\ DefTag(FALSE, TRUE) = "CompactLatin1StringDefinitionWithValueOffset"
  /\ DefTag(TRUE, TRUE) = "CompactUtf32StringDefinitionWithValueOffset"
  /\ RefTag(FALSE, TRUE) = "CompactLatin1StringReferenceWithValueOffset"
  /\ RefTag(TRUE, TRUE) = "CompactUtf32StringReferenceWithValueOffset"
BY DEF DefTag, RefTag

LEMMA FillsIs ==
  ASSUME NEW c, NEW t, NEW k, Fills(c, t, k)
  PROVE  /\ c.kind = "string" => t.tag \in {DefTag(Wide(c.str), FALSE), RefTag(Wide(c.str), FALSE)}
         /\ c.kind = "key" => t.tag \in {DefTag(Wide(c.str), TRUE), RefTag(Wide(c.str), TRUE)}
         /\ c.kind = "binary" => BlobFills(c, t, k)
         /\ c.kind = "array" => t.tag = "CompactArrayBegin" /\ t.table \in Seq({0}) /\ t.table # <<>>
         /\ c.kind = "object" => t = [tag |-> "CompactObjectBegin"]
         /\ c.kind = "end" => t = [tag |-> "ObjectEnd"]
         /\ c.kind \in {"null", "bool", "int", "float", "rtid"} => t = ScalarToken(c)
BY DEF Fills

LEMMA FilledBy ==
  ASSUME NEW c \in Part, NEW t, NEW k, Fills(c, t, k)
  PROVE  /\ t.tag \in PairedTags => c.kind = "key"
         /\ t.tag = "CompactArrayBegin" => c.kind = "array" /\ t.table \in Seq({0}) /\ t.table # <<>>
<1>1. /\ c.kind \in {"null", "bool", "int", "float", "rtid"} => t = ScalarToken(c) /\ c \in Scalars
      /\ c.kind \in {"string", "key", "binary", "array", "object", "end", "null", "bool", "int", "float", "rtid"}
  BY PartIs, FillsIs
<1>2. CASE c.kind \in {"null", "bool", "int", "float", "rtid"}
  <2>1. t.tag \notin CompactDefs \cup CompactRefs \cup {"CompactArrayBegin", "(raw)"}
    BY <1>1, <1>2, ScalarTokenProps
  <2>2. QED BY <2>1 DEF PairedTags, CompactDefs, CompactRefs, Latin1Defs, Latin1Refs, Utf32Defs, Utf32Refs
<1>3. CASE c.kind = "string"
  <2>1. t.tag \in {DefTag(Wide(c.str), FALSE), RefTag(Wide(c.str), FALSE)}
    BY <1>3, FillsIs
  <2>2. t.tag \notin PairedTags \cup {"CompactArrayBegin"}
    BY <2>1 DEF DefTag, RefTag, PairedTags
  <2>3. QED BY <2>2
<1>4. CASE c.kind = "key"
  <2>1. t.tag \in {DefTag(Wide(c.str), TRUE), RefTag(Wide(c.str), TRUE)}
    BY <1>4, FillsIs
  <2>2. t.tag # "CompactArrayBegin"
    BY <2>1 DEF DefTag, RefTag
  <2>3. QED BY <1>4, <2>2
<1>5. CASE c.kind = "binary"
  <2>1. BlobFills(c, t, k)
    BY <1>5, FillsIs
  <2>2. t.tag \in {"CompactBinaryBlob", "CompactLatin1StringDefinition", "CompactLatin1StringReference", "(raw)"}
    <3>1. \/ t = [tag |-> "CompactBinaryBlob"]
          \/ t.tag \in {"CompactLatin1StringDefinition", "CompactLatin1StringReference"}
          \/ t = [tag |-> "(raw)", declared |-> U32(Len(c.bytes)), raw |-> c.bytes]
      BY <2>1, StringTags, Zenon DEF BlobFills
    <3>2. QED BY <3>1
  <2>3. QED BY <2>2 DEF PairedTags
<1>6. CASE c.kind \in {"array", "object", "end"}
  <2>1. /\ c.kind = "array" => t.tag = "CompactArrayBegin" /\ t.table \in Seq({0}) /\ t.table # <<>>
        /\ c.kind = "object" => t.tag = "CompactObjectBegin"
        /\ c.kind = "end" => t.tag = "ObjectEnd"
    <3>1. /\ c.kind = "array" => t.tag = "CompactArrayBegin" /\ t.table \in Seq({0}) /\ t.table # <<>>
          /\ c.kind = "object" => t = [tag |-> "CompactObjectBegin"]
          /\ c.kind = "end" => t = [tag |-> "ObjectEnd"]
      BY FillsIs
    <3>2. QED BY <3>1
  <2>2. QED BY <1>6, <2>1 DEF PairedTags
<1>7. QED BY <1>1, <1>2, <1>3, <1>4, <1>5, <1>6

LEMMA DefinitionIs ==
  ASSUME NEW t \in CToken, t.tag \in CompactDefs
  PROVE  \E s \in Texts : t.str = Append(s, "NUL") /\ Len(s) \in Nat /\ Len(t.str) = Len(s) + 1
<1>1. t \in [tag : CompactDefs, str : {Append(s, "NUL") : s \in Texts}, len : Nat]
  <2>1. \/ t \in [tag : {"CompactBinaryBlob", "CompactObjectBegin", "ObjectEnd", "(footer)"}]
        \/ t \in [tag : {"(header)"}, version : {"compact"}]
        \/ t \in [tag : CompactDefs, str : {Append(s, "NUL") : s \in Texts}, len : Nat]
        \/ t \in [tag : CompactRefs, word : Nat]
        \/ t \in [tag : {"CompactArrayBegin"}, count : Nat, table : Seq({0})]
        \/ t \in [tag : {"(raw)"}, declared : Nat, raw : Blobs]
        \/ t \in {ScalarToken(v) : v \in Scalars}
    BY DEF CToken
  <2>2. t \notin {ScalarToken(v) : v \in Scalars}
    BY ScalarTokenProps
  <2>3. t.tag \notin CompactRefs \cup {"CompactBinaryBlob", "CompactObjectBegin", "ObjectEnd", "(footer)", "(header)",
                                       "CompactArrayBegin", "(raw)"}
    BY DEF CompactDefs, CompactRefs, Latin1Defs, Latin1Refs, Utf32Defs, Utf32Refs
  <2>4. QED BY <2>1, <2>2, <2>3
<1>2. PICK s \in Texts : t.str = Append(s, "NUL")
  BY <1>1
<1>3. Len(s) \in Nat /\ Len(Append(s, "NUL")) = Len(s) + 1
  BY TextProps
<1>4. QED BY <1>2, <1>3

LEMMA PairedSize ==
  ASSUME NEW t \in CToken, t.tag \in PairedTags
  PROVE  Size(t) \in Nat /\ Size(t) >= 9
<1>1. AuxSize(t) = 4
  BY DEF AuxSize
<1>2. CASE t.tag \in CompactDefs
  <2>1. PICK s \in Texts : Len(s) \in Nat /\ Len(t.str) = Len(s) + 1
    BY <1>2, DefinitionIs
  <2>2. Len(t.str) \in Nat
    BY <2>1
  <2>3. t.tag \in Latin1Defs \/ t.tag \in Utf32Defs
    BY <1>2 DEF CompactDefs
  <2>4. Size(t) = 5 + Len(t.str) + 4 \/ Size(t) = 5 + 4 * Len(t.str) + 4
    BY <1>1, <2>3, SizeOf
  <2>5. QED BY <2>2, <2>4
<1>3. CASE t.tag \in CompactRefs
  BY <1>1, <1>3, SizeOf
<1>4. t.tag \in CompactDefs \/ t.tag \in CompactRefs
  BY DEF PairedTags, CompactDefs, CompactRefs, Latin1Defs, Latin1Refs, Utf32Defs, Utf32Refs
<1>5. QED BY <1>2, <1>3, <1>4
-----------------------------------------------------------------------------
(* The token that a part begins with, and no other, is one of these; of    *)
(* such a token the part is at hand.                                       *)
LEMMA BeginsPart ==
  ASSUME NEW at, NEW sh, Full(at, sh), NEW i \in 1 .. Len(bytes),
         bytes[i].tok.tag \in PairedTags \cup {"CompactArrayBegin"}
  PROVE  /\ bytes[i].of \in 1 .. Len(wrote) /\ i = at[bytes[i].of - 1]
         /\ bytes[i].tok.tag \in PairedTags => wrote[bytes[i].of].kind = "key"
         /\ bytes[i].tok.tag = "CompactArrayBegin" =>
              wrote[bytes[i].of].kind = "array" /\ bytes[i].tok.table \in Seq({0}) /\ bytes[i].tok.table # <<>>
<1>1. Len(bytes) \in Nat /\ Len(wrote) \in Nat /\ bytes[Len(bytes)].tok.tag = "(footer)"
  BY FullFacts
<1>2. bytes[1].tok.tag = "(header)"
  BY DEF Full
<1>3. i # 1 /\ i # Len(bytes)
  BY <1>1, <1>2 DEF PairedTags
<1>4. i \in 2 .. Len(bytes) - 1 /\ i \in Nat
  BY <1>1, <1>3
<1>5. PICK n \in 1 .. Len(wrote) : at[n - 1] <= i /\ i < at[n]
  BY <1>4, OfSome
<1>6. PICK c, t, k : c = wrote[n] /\ t = bytes[i].tok /\ k = i - at[n - 1]
  OBVIOUS
<1>7. bytes[i].of = n /\ k \in 0 .. Weight(c) - 1 /\ Fills(c, t, k)
  BY <1>4, <1>5, <1>6, TokensOf
<1>8. c \in Part
  BY <1>6, WroteTyped DEF Full
<1>9. /\ t.tag \in PairedTags => c.kind = "key"
      /\ t.tag = "CompactArrayBegin" => c.kind = "array" /\ t.table \in Seq({0}) /\ t.table # <<>>
  BY <1>7, <1>8, FilledBy
<1>10. Weight(c) = 1
  BY <1>6, <1>9, WeightIs
<1>11. at[n - 1] \in Nat
  BY PartFacts
<1>12. i = at[n - 1]
  BY <1>4, <1>6, <1>7, <1>10, <1>11
<1>13. QED BY <1>6, <1>7, <1>9, <1>12

(* The word after a key.                                                   *)
LEMMA KeyTells ==
  ASSUME NEW at, NEW sh, Full(at, sh), NEW i \in 1 .. Len(bytes), bytes[i].tok.tag \in PairedTags
  PROVE  words[bytes[i].at + Size(bytes[i].tok) - 4] = ByteAfter(LastPart(bytes[i].of + 1))
<1>1. PICK n, o, t : n = bytes[i].of /\ o = bytes[i].at + Size(bytes[i].tok) - 4 /\ t = bytes[i].tok
  OBVIOUS
<1>2. n \in 1 .. Len(wrote) /\ i = at[n - 1] /\ wrote[n].kind = "key"
  BY <1>1, BeginsPart
<1>3. o \in Nat /\ o # 0
  <2>1. t \in CToken /\ bytes[i].at \in Nat
    BY <1>1, BytesTyped DEF Full
  <2>2. Size(t) \in Nat /\ Size(t) >= 9
    BY <1>1, <2>1, PairedSize
  <2>3. QED BY <1>1, <2>1, <2>2
<1>4. PICK s, r, c : s = sh[n - 1] /\ r = sh[n] /\ c = wrote[n]
  OBVIOUS
<1>5. s \in Seq(OpenFrame) /\ r = Keyed(s, o) /\ s # <<>> /\ Last1(s).kind = "object" /\ r \in Seq(OpenFrame)
  <2>1. s \in Seq(OpenFrame) /\ Legal(n, s, c) /\ r = Grown(s, c, bytes[i]) /\ r \in Seq(OpenFrame)
    BY <1>2, <1>4, PartFacts
  <2>2. Grown(s, c, bytes[i]) = Keyed(s, o)
    <3>1. PICK x : x = bytes[i]
      OBVIOUS
    <3>2. Grown(s, c, x) = Keyed(s, x.at + Size(x.tok) - 4)
      BY <1>2, <1>4, GrownIs
    <3>3. QED BY <1>1, <3>1, <3>2
  <2>3. QED BY <1>2, <1>4, <2>1, <2>2 DEF Legal
<1>6. r # <<>> /\ Last1(r).kind = "object" /\ Last1(r).left = 1 /\ Last1(r).slot = o
  BY <1>3, <1>5, KeyedProps
<1>7. Len(wrote) \in Nat /\ sh[Len(wrote)] = <<>>
  BY FullFacts
<1>8. PICK k : k = n + 1
  OBVIOUS
<1>9. k \in 1 .. Len(wrote) /\ k - 1 = n
  <2>1. n # Len(wrote)
    BY <1>4, <1>6, <1>7
  <2>2. QED BY <1>2, <1>7, <1>8, <2>1
<1>10. PICK v, u : v = wrote[k].kind /\ u = sh[k]
  OBVIOUS
<1>11. v \notin {"key", "end"}
  <2>1. Legal(k, r, wrote[k])
    BY <1>4, <1>9, PartFacts
  <2>2. QED BY <1>6, <1>10, <2>1 DEF Legal
<1>12. PICK d : d = Len(r)
  OBVIOUS
<1>13. /\ d \in Nat \ {0} /\ d \in 1 .. Len(r) /\ Last1(r) = r[d]
  BY <1>5, <1>6, <1>12 DEF Last1
<1>14. /\ Len(u) >= d /\ Len(u) \in Nat /\ u[d] = Ticked(r)[d]
  <2>1. PICK x : x = Len(sh[k])
    OBVIOUS
  <2>2. /\ x \in Nat
        /\ v \in Containers => x = d + 1
        /\ v \notin Containers \cup {"end"} => x = d
        /\ \A j \in 1 .. Len(r) : u[j] = Ticked(r)[j]
    <3>1. k \in 1 .. Len(wrote) /\ v = wrote[k].kind /\ r = sh[k - 1] /\ u = sh[k]
      BY <1>4, <1>9, <1>10
    <3>2. v \notin {"key", "end"} => \A j \in 1 .. Len(r) : u[j] = Ticked(r)[j]
      BY <3>1, PartTicks
    <3>3. /\ x \in Nat
          /\ v \in Containers => x = d + 1
          /\ v \notin Containers \cup {"end"} => x = d
      BY <1>12, <2>1, <3>1, PartDepth
    <3>4. QED BY <1>10, <1>11, <3>2, <3>3
  <2>3. QED BY <1>10, <1>11, <1>13, <2>1, <2>2
<1>15. u[d].kind = "object" /\ u[d].left = 0 /\ u[d].slot = o
  <2>1. PICK q : q = Ticked(r)
    OBVIOUS
  <2>2. Last1(r).left > 0
    BY <1>6
  <2>3. Len(q) = Len(r) /\ Last1(q).kind = "object" /\ Last1(q).left = 1 - 1 /\ Last1(q).slot = o
    BY <1>5, <1>6, <2>1, <2>2, TickedProps
  <2>4. Last1(q) = q[d]
    BY <1>12, <2>3 DEF Last1
  <2>5. QED BY <1>14, <2>1, <2>3, <2>4
<1>16. PICK m : m = LastPart(k)
  OBVIOUS
<1>17. m \in k .. Len(wrote) /\ Len(sh[m]) = d /\ \A j \in k .. m - 1 : Len(sh[j]) > d
  BY <1>4, <1>9, <1>10, <1>11, <1>12, <1>16, ValueEnds
<1>18. sh[m][d] = u[d]
  <2>1. k \in 0 .. Len(wrote) /\ m \in k .. Len(wrote) /\ d \in Nat /\ d \in 1 .. d
    BY <1>9, <1>13, <1>17
  <2>2. \A j \in 1 .. d : sh[m][j] = sh[k][j]
    <3>1. Beyond(sh, k, m, d)
      BY <1>17 DEF Beyond
    <3>2. QED BY <2>1, <3>1, OuterStay
  <2>3. QED BY <1>10, <2>1, <2>2
<1>19. m + 1 \in 1 .. Len(wrote) /\ (m + 1) - 1 = m /\ m \in 0 .. Len(wrote)
  <2>1. m # Len(wrote)
    BY <1>7, <1>13, <1>17
  <2>2. QED BY <1>7, <1>9, <1>17, <2>1
<1>20. Marked(sh[m], at[m])
  BY <1>19, PartFacts
<1>21. sh[m] # <<>> /\ Last1(sh[m]) = u[d]
  <2>1. sh[m] \in Seq(OpenFrame)
    BY <1>19, FullFacts
  <2>2. QED BY <1>13, <1>17, <1>18, <2>1 DEF Last1
<1>22. words[o] = Start(at[m])
  BY <1>3, <1>15, <1>20, <1>21 DEF Marked, MarkedAt
<1>23. ByteAfter(m) = Start(at[m])
  BY <1>19, After
<1>24. QED BY <1>1, <1>8, <1>16, <1>22, <1>23
-----------------------------------------------------------------------------
(* An array after part j: what it has left counts the elements so far.     *)
ArrayAt(f, x, k) == /\ f.kind = "array" /\ f.count = Len(x.tok.table) - 1 /\ f.slot = x.at + 6
                    /\ f.left = f.count - k
LEMMA ArrayBegun ==
  ASSUME NEW at, NEW sh, Full(at, sh), NEW n \in 1 .. Len(wrote), wrote[n].kind = "array",
         NEW x, x = bytes[at[n - 1]], x.tok.table \in Seq({0}), x.tok.table # <<>>
  PROVE  /\ Len(sh[n]) = Len(sh[n - 1]) + 1 /\ ArrayAt(sh[n][Len(sh[n - 1]) + 1], x, 0)
         /\ Len(x.tok.table) - 1 \in Nat
<1>1. PICK s, r, c : s = sh[n - 1] /\ r = sh[n] /\ c = wrote[n]
  OBVIOUS
<1>2. s \in Seq(OpenFrame) /\ Legal(n, s, c) /\ r = Grown(s, c, x) /\ Len(s) \in Nat
  <2>1. s \in Seq(OpenFrame) /\ Legal(n, s, c) /\ r = Grown(s, c, x)
    BY <1>1, PartFacts
  <2>2. QED BY <2>1
<1>3. PICK t, f : t = Ticked(s) /\ f = ArrayFrame(x)
  OBVIOUS
<1>4. r = Append(t, f)
  <2>1. c.kind = "array"
    BY <1>1
  <2>2. Grown(s, c, x) = Append(Ticked(s), ArrayFrame(x))
    BY <2>1, GrownIs
  <2>3. QED BY <1>2, <1>3, <2>2
<1>5. t \in Seq(OpenFrame) /\ Len(t) = Len(s)
  <2>1. s # <<>> => Last1(s).left > 0
    BY <1>1, <1>2 DEF Legal
  <2>2. QED BY <1>2, <1>3, <2>1, TickedTyped
<1>6. Len(r) = Len(s) + 1 /\ r[Len(s) + 1] = f
  BY <1>4, <1>5
<1>7. Len(x.tok.table) - 1 \in Nat
  OBVIOUS
<1>8. ArrayAt(f, x, 0)
  <2>1. f.kind = "array" /\ f.left = Len(x.tok.table) - 1 /\ f.count = Len(x.tok.table) - 1 /\ f.slot = x.at + 6
    BY <1>3 DEF ArrayFrame
  <2>2. f.left = f.count - 0
    BY <1>7, <2>1
  <2>3. QED BY <2>1, <2>2 DEF ArrayAt
<1>9. QED BY <1>1, <1>6, <1>7, <1>8

LEMMA ArrayGoesOn ==
  ASSUME NEW at, NEW sh, Full(at, sh), NEW n \in 1 .. Len(wrote), wrote[n].kind = "array",
         NEW x, x = bytes[at[n - 1]], x.tok.table \in Seq({0}), x.tok.table # <<>>,
         NEW m \in n .. Len(wrote), Beyond(sh, n, m, Len(sh[n - 1]))
  PROVE  \A j \in n .. m - 1 : /\ ArrayAt(sh[j][Len(sh[n - 1]) + 1], x, Cardinality(Elems(sh, n, j)))
                               /\ Cardinality(Elems(sh, n, j)) \in Nat
<1>. DEFINE e == Len(sh[n - 1]) + 1
            K(j) == Cardinality(Elems(sh, n, j))
            Good(j) == ArrayAt(sh[j][e], x, K(j)) /\ K(j) \in Nat
            S == {i \in Nat : n + i <= m - 1 => Good(n + i)}
<1>1. Len(wrote) \in Nat /\ n \in Nat \ {0} /\ m \in Nat /\ n <= m /\ m <= Len(wrote) /\ n - 1 \in 0 .. Len(wrote)
  <2>1. Len(wrote) \in Nat
    BY FullFacts
  <2>2. QED BY <2>1
<1>2. Len(sh[n - 1]) \in Nat /\ e \in Nat /\ \A j \in 0 .. Len(wrote) : Len(sh[j]) \in Nat
  <2>1. \A j \in 0 .. Len(wrote) : Len(sh[j]) \in Nat
    BY FullFacts
  <2>2. QED BY <1>1, <2>1
<1>3. /\ K(n) = 0
      /\ \A j \in Nat : n <= j => K(j) \in Nat /\ K(j + 1) = K(j) + (IF Len(sh[j]) = e THEN 1 ELSE 0)
  <2>1. PICK P : P = {y \in Nat : Len(sh[y - 1]) = e}
    OBVIOUS
  <2>2. \A j : K(j) = Cardinality(Upto(P, n + 1, j))
    BY <2>1 DEF Elems
  <2>3. PICK a : a = n + 1
    OBVIOUS
  <2>4. Cardinality(Upto(P, n + 1, n)) = 0
    <3>1. Upto(P, n + 1, n) = {}
      BY <1>1 DEF Upto
    <3>2. QED BY <3>1, FS_EmptySet
  <2>5. ASSUME NEW j \in Nat, n <= j
        PROVE  K(j) \in Nat /\ K(j + 1) = K(j) + (IF Len(sh[j]) = e THEN 1 ELSE 0)
    <3>1. a \in Nat /\ a <= j + 1
      BY <1>1, <2>3, <2>5
    <3>2. /\ Cardinality(Upto(P, n + 1, j)) \in Nat
          /\ Cardinality(Upto(P, n + 1, j + 1))
               = Cardinality(Upto(P, n + 1, j)) + (IF j + 1 \in P THEN 1 ELSE 0)
      <4>1. /\ Cardinality(Upto(P, a, j)) \in Nat
            /\ Cardinality(Upto(P, a, j + 1))
                 = Cardinality(Upto(P, a, j)) + (IF j + 1 \in P THEN 1 ELSE 0)
        BY <3>1, CountOne
      <4>2. QED BY <2>3, <4>1
    <3>3. j + 1 \in P <=> Len(sh[j]) = e
      <4>1. j + 1 \in Nat /\ (j + 1) - 1 = j
        OBVIOUS
      <4>2. QED BY <2>1, <4>1
    <3>. HIDE DEF K, e
    <3>4. QED BY <2>2, <3>2, <3>3
  <2>6. QED BY <2>2, <2>4, <2>5
<1>. HIDE DEF K
<1>4. Good(n)
  <2>1. ArrayAt(sh[n][e], x, 0)
    BY ArrayBegun
  <2>2. QED BY <1>3, <2>1
<1>5. 0 \in S
  <2>1. n + 0 = n
    BY <1>1
  <2>. HIDE DEF Good
  <2>2. QED BY <1>4, <2>1
<1>6. ASSUME NEW i \in S PROVE i + 1 \in S
  <2>1. i \in Nat /\ i + 1 \in Nat
    OBVIOUS
  <2>2. SUFFICES ASSUME n + (i + 1) <= m - 1 PROVE Good(n + (i + 1))
    <3>. HIDE DEF Good
    <3>1. QED BY <2>1
  <2>3. PICK j : j = n + i
    OBVIOUS
  <2>4. /\ j \in Nat /\ n <= j /\ j <= m - 1 /\ n + (i + 1) = j + 1 /\ j + 1 \in 1 .. Len(wrote)
        /\ j \in n .. m - 1 /\ j + 1 \in n .. m - 1 /\ (j + 1) - 1 = j /\ j \in 0 .. Len(wrote)
    BY <1>1, <2>1, <2>2, <2>3
  <2>5. Good(j)
    <3>. HIDE DEF Good
    <3>1. QED BY <1>6, <2>3, <2>4
  <2>6. PICK s, r, c : s = sh[j] /\ r = sh[j + 1] /\ c = wrote[j + 1]
    OBVIOUS
  <2>7. /\ s \in Seq(OpenFrame) /\ Len(s) \in Nat /\ Len(r) \in Nat /\ Len(s) >= e /\ Len(r) >= e
        /\ Legal(j + 1, s, c)
    <3>1. s \in Seq(OpenFrame) /\ Legal(j + 1, s, c)
      BY <2>4, <2>6, PartFacts
    <3>2. Len(sh[j]) > Len(sh[n - 1]) /\ Len(sh[j + 1]) > Len(sh[n - 1])
      BY <2>4 DEF Beyond
    <3>3. Len(s) \in Nat /\ Len(r) \in Nat
      BY <2>4, <2>6, PartGrows
    <3>4. QED BY <1>2, <2>6, <3>1, <3>2, <3>3
  <2>8. CASE Len(s) = e
    <3>1. s # <<>> /\ Last1(s) = s[e]
      BY <1>2, <2>7, <2>8 DEF Last1
    <3>2. c.kind \notin {"key", "end"}
      <4>1. c.kind # "end"
        <5>1. c.kind = "end" => Len(r) = Len(s) - 1
          <6>1. PICK l : l = j + 1
            OBVIOUS
          <6>2. l \in 1 .. Len(wrote) /\ l - 1 = j
            BY <2>4, <6>1
          <6>3. wrote[l].kind = "end" => Len(sh[l]) = Len(sh[l - 1]) - 1
            BY <6>2, PartGrows
          <6>4. QED BY <2>6, <6>1, <6>2, <6>3
        <5>2. QED BY <1>2, <2>7, <2>8, <5>1
      <4>2. Last1(s).kind = "array"
        BY <2>5, <2>6, <3>1 DEF ArrayAt
      <4>3. QED BY <2>7, <3>1, <4>1, <4>2 DEF Legal
    <3>3. Last1(s).left > 0
      BY <2>7, <3>1, <3>2 DEF Legal
    <3>4. PICK q : q = Ticked(s)
      OBVIOUS
    <3>5. /\ Len(q) = Len(s) /\ Last1(q).kind = Last1(s).kind /\ Last1(q).count = Last1(s).count
          /\ Last1(q).left = Last1(s).left - 1 /\ Last1(q).slot = Last1(s).slot
      BY <2>7, <3>1, <3>3, <3>4, TickedProps
    <3>6. r[e] = Last1(q)
      <4>1. \A l \in 1 .. Len(s) : r[l] = q[l]
        <5>1. PICK l : l = j + 1
          OBVIOUS
        <5>2. l \in 1 .. Len(wrote) /\ l - 1 = j /\ wrote[l].kind \notin {"key", "end"}
          BY <2>4, <2>6, <3>2, <5>1
        <5>3. \A l2 \in 1 .. Len(sh[l - 1]) : sh[l][l2] = Ticked(sh[l - 1])[l2]
          BY <5>2, PartTicks
        <5>4. QED BY <2>6, <3>4, <5>1, <5>2, <5>3
      <4>2. e \in 1 .. Len(s) /\ Last1(q) = q[e]
        BY <1>2, <2>7, <2>8, <3>1, <3>5 DEF Last1
      <4>3. QED BY <4>1, <4>2
    <3>7. K(j + 1) = K(j) + 1 /\ K(j) \in Nat
      BY <1>3, <2>4, <2>6, <2>8
    <3>8. Last1(s).count \in Nat /\ Last1(s).left \in Nat
      <4>1. Last1(s) \in OpenFrame
        BY <2>7, <3>1, LastTyped
      <4>2. QED BY <4>1, OpenFrameTyped
    <3>9. ArrayAt(Last1(s), x, K(j))
      BY <2>5, <2>6, <3>1
    <3>10. ArrayAt(Last1(q), x, K(j) + 1)
      <4>1. /\ Last1(s).kind = "array" /\ Last1(s).count = Len(x.tok.table) - 1 /\ Last1(s).slot = x.at + 6
            /\ Last1(s).left = Last1(s).count - K(j)
        BY <3>9 DEF ArrayAt
      <4>2. Last1(q).left = Last1(q).count - (K(j) + 1)
        <5>1. \A l, u, k \in Int : l = u - k => l - 1 = u - (k + 1)
          OBVIOUS
        <5>2. Last1(s).left - 1 = Last1(s).count - (K(j) + 1)
          <6>1. Last1(s).left \in Int /\ Last1(s).count \in Int /\ K(j) \in Int /\ Last1(s).left = Last1(s).count - K(j)
            <7>1. \A i1 \in Nat : i1 \in Int
              OBVIOUS
            <7>2. QED BY <3>7, <3>8, <4>1, <7>1, Zenon
          <6>2. QED BY <5>1, <6>1, Zenon
        <5>3. QED BY <3>5, <5>2
      <4>3. QED BY <3>5, <4>1, <4>2 DEF ArrayAt
    <3>11. ArrayAt(sh[j + 1][e], x, K(j + 1)) /\ K(j + 1) \in Nat
      <4>1. sh[j + 1][e] = Last1(q)
        BY <2>6, <3>6
      <4>2. K(j) + 1 \in Nat
        BY <3>7
      <4>3. QED BY <3>7, <3>10, <4>1, <4>2
    <3>12. QED BY <2>4, <3>11
  <2>9. CASE Len(s) # e
    <3>1. e \in 1 .. Len(s) - 1
      BY <1>2, <2>7, <2>9
    <3>2. r[e] = s[e]
      <4>1. \A l \in 1 .. Len(s) - 1 : r[l] = s[l]
        BY <2>4, <2>6, PartGrows
      <4>2. QED BY <3>1, <4>1
    <3>3. K(j + 1) = K(j) + 0 /\ K(j) \in Nat
      BY <1>3, <2>4, <2>6, <2>9
    <3>4. K(j + 1) = K(j)
      BY <3>3
    <3>5. QED BY <2>4, <2>5, <2>6, <3>2, <3>4
  <2>10. QED BY <2>8, <2>9
<1>7. S = Nat
  <2>. HIDE DEF S
  <2>1. S \subseteq Nat
    BY DEF S
  <2>2. QED BY <1>5, <1>6, <2>1, InductiveSet
<1>8. ASSUME NEW j \in n .. m - 1 PROVE Good(j)
  <2>1. \E i \in Nat : n + i = j
    <3>1. j - n \in Nat /\ n + (j - n) = j
      BY <1>1
    <3>2. QED BY <3>1
  <2>2. PICK i \in Nat : n + i = j
    BY <2>1
  <2>3. n + i <= m - 1
    BY <1>1, <2>2
  <2>. HIDE DEF Good
  <2>4. Good(n + i)
    BY <1>7, <2>3
  <2>5. QED BY <2>2, <2>4
<1>9. QED BY <1>8 DEF K

LEMMA ArrayTokenIs ==
  ASSUME NEW t \in CToken, t.tag = "CompactArrayBegin"
  PROVE  t \in [tag : {"CompactArrayBegin"}, count : Nat, table : Seq({0})] /\ "table" \in DOMAIN t
<1>1. \/ t \in [tag : {"CompactBinaryBlob", "CompactObjectBegin", "ObjectEnd", "(footer)"}]
      \/ t \in [tag : {"(header)"}, version : {"compact"}]
      \/ t \in [tag : CompactDefs, str : {Append(s, "NUL") : s \in Texts}, len : Nat]
      \/ t \in [tag : CompactRefs, word : Nat]
      \/ t \in [tag : {"CompactArrayBegin"}, count : Nat, table : Seq({0})]
      \/ t \in [tag : {"(raw)"}, declared : Nat, raw : Blobs]
      \/ t \in {ScalarToken(v) : v \in Scalars}
  BY DEF CToken
<1>2. t \notin {ScalarToken(v) : v \in Scalars}
  BY ScalarTokenProps
<1>3. t.tag \notin CompactDefs \cup CompactRefs
  BY DEF CompactDefs, CompactRefs, Latin1Defs, Latin1Refs, Utf32Defs, Utf32Refs
<1>4. QED BY <1>1, <1>2, <1>3

(* The table of an array.                                                  *)
LEMMA TableTells ==
  ASSUME NEW at, NEW sh, Full(at, sh), NEW i \in 1 .. Len(bytes), bytes[i].tok.tag = "CompactArrayBegin"
  PROVE  LET table    == TokenIn(bytes[i]).table
             elements == ElementsOf(bytes[i].of)
         IN  /\ \A m \in elements : table[1 + Cardinality({e \in elements : e < m})] = ByteAfter(m - 1)
             /\ Len(table) = 1 + Cardinality(elements)
             /\ table[Len(table)] = ByteAfter(LastPart(bytes[i].of))
<1>1. PICK n, x, t, m, d : /\ n = bytes[i].of /\ x = bytes[i] /\ t = TokenIn(bytes[i]).table /\ m = LastPart(n)
                           /\ d = Len(sh[n - 1])
  OBVIOUS
<1>2. /\ n \in 1 .. Len(wrote) /\ i = at[n - 1] /\ wrote[n].kind = "array"
      /\ x.tok.table \in Seq({0}) /\ x.tok.table # <<>> /\ x = bytes[at[n - 1]] /\ x.tok.tag = "CompactArrayBegin"
  BY <1>1, BeginsPart
<1>3. PICK c : c = Len(x.tok.table) - 1
  OBVIOUS
<1>4. /\ c \in Nat /\ Len(t) = c + 1
      /\ \A k \in 0 .. c : k + 1 \in 1 .. Len(t) /\ t[k + 1] = words[x.at + 6 + 4 * k]
  <2>1. c \in Nat /\ DOMAIN x.tok.table = 1 .. c + 1
    BY <1>2, <1>3
  <2>2. TokenIn(x) = [x.tok EXCEPT !.table = [k \in DOMAIN x.tok.table |-> words[x.at + 2 + 4 * k]]]
    BY <1>2 DEF TokenIn
  <2>3. "table" \in DOMAIN x.tok
    <3>1. x.tok \in CToken
      BY <1>1, BytesTyped DEF Full
    <3>2. QED BY <1>2, <3>1, ArrayTokenIs
  <2>4. t = [k \in 1 .. c + 1 |-> words[x.at + 2 + 4 * k]]
    BY <1>1, <2>1, <2>2, <2>3
  <2>5. Len(t) = c + 1
    BY <2>1, <2>4
  <2>6. x.at \in Nat
    BY <1>1, BytesTyped DEF Full
  <2>7. ASSUME NEW k \in 0 .. c PROVE k + 1 \in 1 .. c + 1 /\ t[k + 1] = words[x.at + 6 + 4 * k]
    <3>1. k + 1 \in 1 .. c + 1 /\ x.at + 2 + 4 * (k + 1) = x.at + 6 + 4 * k
      BY <2>1, <2>6
    <3>2. t[k + 1] = words[x.at + 2 + 4 * (k + 1)]
      BY <2>4, <3>1
    <3>3. QED BY <3>1, <3>2
  <2>8. QED BY <2>1, <2>5, <2>7
<1>5. /\ m \in n .. Len(wrote) /\ Len(sh[m]) = d /\ Beyond(sh, n, m, d)
      /\ Len(wrote) \in Nat /\ n \in Nat /\ d \in Nat /\ \A j \in 0 .. Len(wrote) : Len(sh[j]) \in Nat
  <2>1. m \in n .. Len(wrote) /\ Len(sh[m]) = d /\ \A j \in n .. m - 1 : Len(sh[j]) > d
    BY <1>1, <1>2, ValueEnds
  <2>2. Len(wrote) \in Nat /\ \A j \in 0 .. Len(wrote) : Len(sh[j]) \in Nat
    BY FullFacts
  <2>3. n - 1 \in 0 .. Len(wrote) /\ n \in Nat
    BY <1>2, <2>2
  <2>4. QED BY <1>1, <2>1, <2>2, <2>3 DEF Beyond
<1>6. m # n /\ m \in Nat /\ n < m /\ m - 1 \in n .. m - 1
  <2>1. Len(sh[n]) = d + 1
    <3>1. wrote[n].kind \in Containers
      BY <1>2 DEF Containers
    <3>2. Len(sh[n]) = Len(sh[n - 1]) + 1
      BY <1>2, <3>1, PartGrows
    <3>3. QED BY <1>1, <3>2
  <2>2. QED BY <1>5, <2>1
<1>7. \A j \in n .. m - 1 : /\ ArrayAt(sh[j][d + 1], x, Cardinality(Elems(sh, n, j)))
                            /\ Cardinality(Elems(sh, n, j)) \in Nat
  BY <1>1, <1>2, <1>5, ArrayGoesOn
<1>8. PICK E : E = ElementsOf(n)
  OBVIOUS
<1>9. E = Elems(sh, n, m - 1)
  <2>1. wrote[n].kind # "end"
    BY <1>2
  <2>2. ElementsOf(n) = Elems(sh, n, LastPart(n) - 1)
    BY <1>2, <2>1, ElementsAre
  <2>3. QED BY <1>1, <1>8, <2>2
(* Where only the array is open, its next word leads to the part there.    *)
<1>10. ASSUME NEW j \in n .. m - 1, Len(sh[j]) = d + 1
       PROVE  LET k == Cardinality(Elems(sh, n, j))
              IN  /\ k \in 0 .. c /\ words[x.at + 6 + 4 * k] = ByteAfter(j)
                  /\ wrote[j + 1].kind = "end" => k = c
  <2>1. PICK k, f : k = Cardinality(Elems(sh, n, j)) /\ f = sh[j][d + 1]
    OBVIOUS
  <2>2. k \in Nat /\ ArrayAt(f, x, k)
    BY <1>7, <2>1
  <2>3. j + 1 \in 1 .. Len(wrote) /\ (j + 1) - 1 = j /\ j \in 0 .. Len(wrote)
    BY <1>5
  <2>4. PICK s : s = sh[j]
    OBVIOUS
  <2>5. s \in Seq(OpenFrame) /\ s # <<>> /\ Last1(s) = f /\ f \in OpenFrame
    <3>1. s \in Seq(OpenFrame)
      BY <2>3, <2>4, FullFacts
    <3>2. s # <<>> /\ Last1(s) = f
      BY <1>5, <1>10, <2>1, <2>4, <3>1 DEF Last1
    <3>3. QED BY <3>1, <3>2, LastTyped
  <2>6. f.kind = "array" /\ f.count = c /\ f.slot = x.at + 6 /\ f.left = c - k
    BY <1>3, <2>2 DEF ArrayAt
  <2>7. f.left \in Nat
    BY <2>5, OpenFrameTyped
  <2>8. k \in 0 .. c /\ c - (c - k) = k
    BY <1>4, <2>2, <2>6, <2>7
  <2>9. Marked(s, at[j])
    BY <2>3, <2>4, PartFacts
  <2>10. MarkedAt(x.at + 6 + 4 * k, at[j])
    <3>1. MarkedAt(f.slot + 4 * (f.count - f.left), at[j])
      BY <2>5, <2>6, <2>9 DEF Marked
    <3>2. f.slot + 4 * (f.count - f.left) = x.at + 6 + 4 * k
      BY <2>6, <2>8
    <3>3. QED BY <3>1, <3>2
  <2>11. words[x.at + 6 + 4 * k] = ByteAfter(j)
    BY <2>3, <2>10, After DEF MarkedAt
  <2>12. wrote[j + 1].kind = "end" => k = c
    <3>1. Legal(j + 1, s, wrote[j + 1])
      BY <2>3, <2>4, PartFacts
    <3>2. wrote[j + 1].kind = "end" => f.left = 0
      BY <2>5, <3>1 DEF Legal
    <3>3. QED BY <1>4, <2>2, <2>6, <3>2
  <2>13. QED BY <2>1, <2>8, <2>11, <2>12
<1>11. ASSUME NEW y \in E PROVE t[1 + Cardinality({e \in E : e < y})] = ByteAfter(y - 1)
  <2>1. y \in n + 1 .. m - 1 /\ Len(sh[y - 1]) = d + 1
    BY <1>1, <1>9 DEF Elems, Upto
  <2>2. PICK j : j = y - 1
    OBVIOUS
  <2>3. j \in n .. m - 1 /\ Len(sh[j]) = d + 1
    BY <1>5, <1>6, <2>1, <2>2
  <2>4. {e \in E : e < y} = Elems(sh, n, j)
    <3>1. \A e \in n + 1 .. m - 1 : e < y <=> e \in n + 1 .. j
      BY <1>5, <1>6, <2>1, <2>2
    <3>2. \A e \in n + 1 .. j : e \in n + 1 .. m - 1
      BY <1>5, <1>6, <2>1, <2>2
    <3>3. QED BY <1>9, <3>1, <3>2 DEF Elems, Upto
  <2>5. PICK k : k = Cardinality(Elems(sh, n, j))
    OBVIOUS
  <2>6. k \in 0 .. c /\ words[x.at + 6 + 4 * k] = ByteAfter(j)
    BY <1>10, <2>3, <2>5
  <2>7. t[k + 1] = ByteAfter(j) /\ 1 + k = k + 1
    BY <1>4, <2>6
  <2>8. QED BY <2>2, <2>4, <2>5, <2>7
<1>12. wrote[m].kind = "end" /\ Len(sh[m - 1]) = d + 1 /\ at[m - 1] = at[m] /\ Cardinality(E) = c
  <2>1. PICK j : j = m - 1
    OBVIOUS
  <2>2. m \in 1 .. Len(wrote) /\ j \in n .. m - 1 /\ j + 1 = m /\ j \in 0 .. Len(wrote) /\ m \in 0 .. Len(wrote)
    BY <1>5, <1>6, <2>1
  <2>3. Len(sh[j]) > d /\ Len(sh[j]) \in Nat
    BY <1>5, <2>2 DEF Beyond
  <2>4. PICK v, y : v = wrote[m].kind /\ y = Len(sh[j])
    OBVIOUS
  <2>5. /\ v \in Containers => d = y + 1
        /\ v = "end" => d = y - 1
        /\ v \notin Containers \cup {"end"} => d = y
    <3>1. m - 1 = j /\ Len(sh[m]) = d
      BY <1>5, <2>1
    <3>2. /\ v \in Containers => Len(sh[m]) = Len(sh[m - 1]) + 1
          /\ v = "end" => Len(sh[m - 1]) > 0 /\ Len(sh[m]) = Len(sh[m - 1]) - 1
          /\ v \notin Containers \cup {"end"} => Len(sh[m]) = Len(sh[m - 1])
      BY <2>2, <2>4, PartDepth
    <3>3. QED BY <2>4, <3>1, <3>2
  <2>6. v = "end" /\ y = d + 1
    BY <1>5, <2>3, <2>4, <2>5
  <2>7. Cardinality(E) = c
    BY <1>9, <1>10, <2>1, <2>2, <2>4, <2>6
  <2>8. wrote[m].of = "array"
    <3>1. Legal(m, sh[j], wrote[m]) /\ sh[j] \in Seq(OpenFrame)
      BY <2>1, <2>2, PartFacts
    <3>2. sh[j] # <<>> /\ Last1(sh[j]) = sh[j][d + 1]
      <4>1. PICK r : r = sh[j]
        OBVIOUS
      <4>2. r \in Seq(OpenFrame) /\ Len(r) = d + 1
        BY <2>4, <2>6, <3>1, <4>1
      <4>3. r # <<>>
        BY <1>5, <4>2
      <4>4. QED BY <4>1, <4>2, <4>3 DEF Last1
    <3>3. ArrayAt(sh[j][d + 1], x, Cardinality(Elems(sh, n, j)))
      BY <1>7, <2>2
    <3>4. QED BY <2>4, <2>6, <3>1, <3>2, <3>3 DEF Legal, ArrayAt
  <2>9. Weight(wrote[m]) = 0
    BY <2>4, <2>6, <2>8, WeightIs
  <2>10. at[m] = at[m - 1] + Weight(wrote[m]) /\ at[m - 1] \in Nat
    BY <2>2, PartFacts
  <2>11. QED BY <2>1, <2>4, <2>6, <2>7, <2>9, <2>10
<1>13. t[Len(t)] = ByteAfter(m)
  <2>1. PICK j : j = m - 1
    OBVIOUS
  <2>2. j \in n .. m - 1 /\ Len(sh[j]) = d + 1 /\ Cardinality(Elems(sh, n, j)) = c
    BY <1>6, <1>9, <1>12, <2>1
  <2>3. words[x.at + 6 + 4 * c] = ByteAfter(j)
    BY <1>10, <2>2
  <2>4. ByteAfter(j) = ByteAfter(m)
    <3>1. j \in 0 .. Len(wrote) /\ m \in 0 .. Len(wrote) /\ at[j] = at[m]
      BY <1>5, <1>6, <1>12, <2>1
    <3>2. QED BY <3>1, After
  <2>5. c \in 0 .. c
    BY <1>4
  <2>6. QED BY <1>4, <2>3, <2>4, <2>5
<1>14. \A y \in E : t[1 + Cardinality({e \in E : e < y})] = ByteAfter(y - 1)
  BY <1>11
<1>15. Len(t) = 1 + Cardinality(E)
  BY <1>4, <1>12
<1>16. QED BY <1>1, <1>8, <1>13, <1>14, <1>15

(* Every offset in a finished file.                                        *)
LEMMA AllTell ==
  ASSUME NEW at, NEW sh, Full(at, sh)
  PROVE  SlotsTell
<1>1. DOMAIN bytes = 1 .. Len(bytes)
  BY BytesTyped DEF Full
<1>2. \A item \in Range(bytes) : \E i \in 1 .. Len(bytes) : item = bytes[i]
  BY <1>1 DEF Range
<1>3. ASSUME NEW item \in Range(bytes), item.tok.tag \in PairedTags
      PROVE  words[item.at + Size(item.tok) - 4] = ByteAfter(LastPart(item.of + 1))
  <2>1. PICK i \in 1 .. Len(bytes) : item = bytes[i]
    BY <1>2
  <2>2. bytes[i].tok.tag \in PairedTags
    BY <1>3, <2>1
  <2>3. words[bytes[i].at + Size(bytes[i].tok) - 4] = ByteAfter(LastPart(bytes[i].of + 1))
    BY <2>2, KeyTells
  <2>4. QED BY <2>1, <2>3
<1>. DEFINE Tells(item) ==
       LET table    == TokenIn(item).table
           elements == ElementsOf(item.of)
       IN  /\ \A m \in elements : table[1 + Cardinality({e \in elements : e < m})] = ByteAfter(m - 1)
           /\ Len(table) = 1 + Cardinality(elements)
           /\ table[Len(table)] = ByteAfter(LastPart(item.of))
<1>4. ASSUME NEW item \in Range(bytes), item.tok.tag = "CompactArrayBegin" PROVE Tells(item)
  <2>1. PICK i \in 1 .. Len(bytes) : item = bytes[i]
    BY <1>2
  <2>2. bytes[i].tok.tag = "CompactArrayBegin"
    BY <1>4, <2>1
  <2>3. Tells(bytes[i])
    BY <2>2, TableTells
  <2>. HIDE DEF Tells
  <2>4. QED BY <2>1, <2>3
<1>5. QED BY <1>3, <1>4 DEF SlotsTell
-----------------------------------------------------------------------------
(* The writer's steps are the writer's steps, the reader's leave its       *)
(* variables alone.                                                        *)
LEMMA Written == RTSpec => [](IInv /\ PInv /\ LInv)
<1>1. RTInit => IInv /\ PInv /\ LInv
  BY InitOK, InitPlaces, InitInOrder DEF RTInit
<1>2. [RTNext]_vars => [CNext]_cvars
  BY DEF RTNext, Write, Read, vars
<1>3. IInv /\ PInv /\ LInv /\ [RTNext]_vars => (IInv /\ PInv /\ LInv)'
  BY <1>2, NextOK, NextPlaces, NextInOrder
<1>4. QED BY <1>1, <1>3, PTL DEF RTSpec

(* In a finished file the word after every key tells where its value ends, *)
(* and the table of every array where its elements begin and where it      *)
(* ends: value_offset, element_offset and end_array patch the right word   *)
(* with the right position, however deep the value is.                     *)
THEOREM OffsetsTell == RTSpec => []SlotsTell
<1>1. IInv /\ PInv /\ LInv => SlotsTell
  <2>1. SUFFICES ASSUME IInv, LInv, result = "ok" PROVE SlotsTell
    BY DEF SlotsTell
  <2>2. PICK at, sh : WState(at, sh)
    BY <2>1 DEF LInv
  <2>3. Full(at, sh)
    <3>1. TypeOK /\ Lined /\ Begins
      BY <2>1 DEF IInv, LInv
    <3>2. Done
      BY <2>1 DEF Done
    <3>3. Laid(at, sh) /\ Marks(at, sh) /\ Finished(at, sh)
      BY <2>2, <3>2 DEF WState
    <3>4. bytes # <<>> /\ bytes[1].of = 0 /\ bytes[1].tok = [tag |-> "(header)", version |-> "compact"]
      BY <2>1, <3>1 DEF Begins
    <3>5. QED BY <3>1, <3>3, <3>4 DEF Full
  <2>4. QED BY <2>3, AllTell
<1>2. QED BY <1>1, Written, PTL
-----------------------------------------------------------------------------
(* What to_compact_writer writes from_reader reads back: the two ends      *)
(* together are a channel.  They know the tokens by the same names and     *)
(* sizes.                                                                  *)
LEMMA SameTags ==
  /\ R!Latin1Defs = Latin1Defs /\ R!Utf32Defs = Utf32Defs /\ R!CompactDefs = CompactDefs
  /\ R!Latin1Refs = Latin1Refs /\ R!Utf32Refs = Utf32Refs /\ R!CompactRefs = CompactRefs
  /\ R!PairedTags = PairedTags /\ R!IntTags = IntTags
BY DEF R!Latin1Defs, Latin1Defs, R!Utf32Defs, Utf32Defs, R!CompactDefs, CompactDefs, R!Latin1Refs, Latin1Refs,
       R!Utf32Refs, Utf32Refs, R!CompactRefs, CompactRefs, R!PairedTags, PairedTags, R!IntTags, IntTags

LEMMA SameSize ==
  ASSUME NEW t
  PROVE  R!Size(t) = Size(t)
<1>1. R!PayloadLen(t) = PayloadLen(t)
  BY DEF R!PayloadLen, PayloadLen, R!varint_len, varint_len
<1>2. R!AuxSize(t) = AuxSize(t)
  BY SameTags DEF R!AuxSize, AuxSize
<1>3. R!RtidSize(t) = RtidSize(t)
  BY DEF R!RtidSize, RtidSize, R!NameSize, NameSize
<1>4. R!TableSize(t) = TableSize(t)
  BY DEF R!TableSize, TableSize
<1>5. QED BY <1>1, <1>2, <1>3, <1>4, SameTags, Zenon DEF R!Size, Size

(* What the caller's writer is given of a token: the same, but for the     *)
(* words of a table.                                                       *)
LEMMA TokenInIs ==
  ASSUME NEW x \in Item, NEW t, t = TokenIn(x)
  PROVE  /\ t.tag = x.tok.tag /\ (t.tag # "CompactArrayBegin" => t = x.tok)
         /\ t.tag = "CompactArrayBegin" =>
              /\ t.count = x.tok.count /\ t.count \in Nat /\ x.tok.table \in Seq({0})
              /\ t.table = [k \in 1 .. Len(x.tok.table) |-> words[x.at + 2 + 4 * k]]
              /\ Len(t.table) = Len(x.tok.table)
         /\ R!Size(t) = Size(x.tok)
<1>1. x.tok \in CToken /\ x.at \in Nat
  BY DEF Item
<1>2. CASE x.tok.tag # "CompactArrayBegin"
  <2>1. t = x.tok
    BY <1>2 DEF TokenIn
  <2>2. QED BY <1>2, <2>1, SameSize
<1>3. CASE x.tok.tag = "CompactArrayBegin"
  <2>1. PICK c, b : x.tok = [tag |-> "CompactArrayBegin", count |-> c, table |-> b] /\ c \in Nat /\ b \in Seq({0})
    <3>1. x.tok \in [tag : {"CompactArrayBegin"}, count : Nat, table : Seq({0})]
      BY <1>1, <1>3, ArrayTokenIs
    <3>2. QED BY <3>1
  <2>2. PICK f : f = [k \in 1 .. Len(b) |-> words[x.at + 2 + 4 * k]]
    OBVIOUS
  <2>3. DOMAIN b = 1 .. Len(b) /\ Len(b) \in Nat /\ (b = <<>> <=> Len(b) = 0)
    BY <2>1
  <2>4. t = [tag |-> "CompactArrayBegin", count |-> c, table |-> f]
    <3>1. t = [x.tok EXCEPT !.table = [k \in DOMAIN x.tok.table |-> words[x.at + 2 + 4 * k]]]
      BY <1>3 DEF TokenIn
    <3>2. x.tok.table = b
      BY <2>1
    <3>3. t = [x.tok EXCEPT !.table = f]
      BY <2>2, <2>3, <3>1, <3>2
    <3>4. QED BY <2>1, <3>3
  <2>5. Len(f) = Len(b) /\ (f = <<>> <=> Len(b) = 0)
    BY <2>2, <2>3
  <2>6. TableSize(t) = TableSize(x.tok)
    BY <2>1, <2>3, <2>4, <2>5 DEF TableSize
  <2>7. Size(t) = Size(x.tok)
    <3>1. t.tag = "CompactArrayBegin"
      BY <2>4
    <3>2. QED BY <1>3, <2>6, <3>1, SizeOf
  <2>8. x.tok.table = b /\ x.tok.count = c /\ t.table = f /\ t.count = c /\ t.tag = "CompactArrayBegin"
    BY <2>1, <2>4
  <2>9. QED BY <1>3, <2>1, <2>2, <2>5, <2>7, <2>8, SameSize
<1>4. QED BY <1>2, <1>3
-----------------------------------------------------------------------------
(* Where the reader finds the tokens: the position of a token is that of   *)
(* the one before, plus its size.                                          *)
TokenSizes == [n \in Nat |-> R!Size(R!Tok(n))]
LEMMA PositionIs ==
  ASSUME NEW i \in Nat \ {0}
  PROVE  \E g : Totals(TokenSizes, g, i - 1) /\ R!Position(i) = g[i - 1]
<1> DEFINE u == CHOOSE f : f = [n \in 0 .. i - 1 |-> IF n = 0 THEN 0 ELSE f[n - 1] + R!Size(R!Tok(n))]
<1>1. i - 1 \in Nat /\ 0 .. i - 1 \subseteq Nat
  OBVIOUS
<1>2. PICK g : Totals(TokenSizes, g, i - 1)
  BY <1>1, TotalsExist
<1>3. g = [n \in 0 .. i - 1 |-> IF n = 0 THEN 0 ELSE g[n - 1] + R!Size(R!Tok(n))]
  <2>1. \A n \in 0 .. i - 1 : TokenSizes[n] = R!Size(R!Tok(n))
    BY <1>1 DEF TokenSizes
  <2>2. g = [n \in 0 .. i - 1 |-> IF n = 0 THEN 0 ELSE g[n - 1] + TokenSizes[n]]
    BY <1>2, Zenon DEF Totals
  <2>3. QED BY <2>1, <2>2
<1>4. u = [n \in 0 .. i - 1 |-> IF n = 0 THEN 0 ELSE u[n - 1] + R!Size(R!Tok(n))]
  BY <1>3, Zenon
<1>5. R!Position(i) = u[i - 1]
  BY Zenon DEF R!Position
<1> HIDE DEF u
<1>6. Totals(TokenSizes, u, i - 1)
  <2>1. \A n \in 0 .. i - 1 : TokenSizes[n] = R!Size(R!Tok(n))
    BY <1>1 DEF TokenSizes
  <2>2. u = [n \in 0 .. i - 1 |-> IF n = 0 THEN 0 ELSE u[n - 1] + TokenSizes[n]]
    BY <1>4, <2>1
  <2>3. QED BY <2>2, Zenon DEF Totals
<1>7. QED BY <1>5, <1>6

LEMMA PositionStep ==
  /\ R!Position(1) = 0
  /\ \A i \in Nat \ {0} : R!Position(i + 1) = R!Position(i) + R!Size(R!Tok(i))
<1>1. R!Position(1) = 0
  <2>1. PICK g : Totals(TokenSizes, g, 1 - 1) /\ R!Position(1) = g[1 - 1]
    BY PositionIs
  <2>2. 1 - 1 = 0
    OBVIOUS
  <2>3. QED BY <2>1, <2>2, TotalsStep
<1>2. ASSUME NEW i \in Nat \ {0} PROVE R!Position(i + 1) = R!Position(i) + R!Size(R!Tok(i))
  <2>1. i + 1 \in Nat \ {0} /\ (i + 1) - 1 = i /\ i - 1 \in Nat /\ i \in 1 .. i /\ i - 1 \in 0 .. i - 1 /\ i - 1 <= i
    OBVIOUS
  <2>2. PICK g : Totals(TokenSizes, g, i - 1) /\ R!Position(i) = g[i - 1]
    BY PositionIs
  <2>3. PICK h : Totals(TokenSizes, h, (i + 1) - 1) /\ R!Position(i + 1) = h[(i + 1) - 1]
    BY <2>1, PositionIs
  <2>4. Totals(TokenSizes, h, i) /\ R!Position(i + 1) = h[i]
    BY <2>1, <2>3
  <2>5. h[i] = h[i - 1] + R!Size(R!Tok(i))
    <3>1. h[i] = h[i - 1] + TokenSizes[i]
      BY <2>1, <2>4, TotalsStep
    <3>2. QED BY <3>1 DEF TokenSizes
  <2>6. g[i - 1] = h[i - 1]
    BY <2>1, <2>2, <2>4, TotalsAgree
  <2>7. QED BY <2>2, <2>4, <2>5, <2>6
<1>3. QED BY <1>1, <1>2

(* A file whose first s tokens are whole.                                  *)
Lies(at, sh, s) == Full(at, sh) /\ IInv /\ AllFit /\ FileIs(s)
Loose == {"(eof)", "(torn)"}

LEMMA FileHas ==
  ASSUME NEW s, TypeOK, FileIs(s)
  PROVE  /\ s \in Nat /\ s <= Len(bytes) /\ Len(bytes) \in Nat /\ DOMAIN file = 1 .. Len(file)
         /\ Len(file) \in {s, s + 1}
         /\ \A i \in 1 .. s : R!Tok(i) = TokenIn(bytes[i]) /\ bytes[i] \in Item
         /\ R!Tok(s + 1).tag \in Loose
         /\ result = "ok" => s = Len(bytes)
         /\ result # "ok" => s = 0 \/ s < Len(bytes)
<1>1. FileIs(s) /\ Len(bytes) \in Nat /\ \A i \in 1 .. Len(bytes) : bytes[i] \in Item
  BY BytesTyped
<1>2. s \in Nat /\ s <= Len(bytes)
  <2>1. s \in 0 .. Len(bytes)
    BY <1>1 DEF FileIs
  <2>2. QED BY <1>1, <2>1
<1>3. DOMAIN file = 1 .. Len(file) /\ Len(file) \in {s, s + 1} /\ \A i \in 1 .. s : file[i] = TokenIn(bytes[i])
  BY <1>1 DEF FileIs
<1>4. ASSUME NEW i \in 1 .. s PROVE R!Tok(i) = TokenIn(bytes[i]) /\ bytes[i] \in Item
  <2>1. i \in DOMAIN file /\ i # 0 /\ i \in 1 .. Len(bytes)
    <3>1. i \in Nat /\ i # 0 /\ i \in 1 .. Len(bytes)
      BY <1>1, <1>2
    <3>2. i \in 1 .. Len(file)
      <4>1. PICK m : m = Len(file)
        OBVIOUS
      <4>2. m = s \/ m = s + 1
        BY <1>3, <4>1
      <4>3. i \in 1 .. m
        BY <1>2, <4>2
      <4>4. QED BY <4>1, <4>3
    <3>3. QED BY <1>3, <3>1, <3>2
  <2>2. R!Tok(i) = file[i]
    BY <2>1 DEF R!Tok
  <2>3. QED BY <1>1, <1>3, <2>1, <2>2
<1>5. R!Tok(s + 1).tag \in Loose
  <2>1. CASE Len(file) = s
    <3>1. s + 1 \notin DOMAIN file /\ s + 1 # 0
      BY <1>2, <1>3, <2>1
    <3>2. QED BY <3>1 DEF R!Tok, R!Eof, Loose
  <2>2. CASE Len(file) = s + 1
    <3>1. s + 1 \in DOMAIN file /\ s + 1 # 0 /\ file[s + 1] = [tag |-> "(torn)"]
      BY <1>1, <1>2, <1>3, <2>2 DEF FileIs
    <3>2. QED BY <3>1 DEF R!Tok, Loose
  <2>3. QED BY <1>3, <2>1, <2>2
<1>6. (result = "ok" => s = Len(bytes)) /\ (result # "ok" => s = 0 \/ s < Len(bytes))
  BY <1>1 DEF FileIs
<1>7. QED BY <1>1, <1>2, <1>3, <1>4, <1>5, <1>6

LEMMA FileToks ==
  ASSUME NEW at, NEW sh, NEW s, Lies(at, sh, s)
  PROVE  /\ s \in Nat /\ s <= Len(bytes) /\ Len(bytes) \in Nat /\ DOMAIN file = 1 .. Len(file)
         /\ Len(file) \in {s, s + 1}
         /\ \A i \in 1 .. s : R!Tok(i) = TokenIn(bytes[i]) /\ bytes[i] \in Item
         /\ R!Tok(s + 1).tag \in Loose
         /\ result = "ok" => s = Len(bytes)
         /\ result # "ok" => s = 0 \/ s < Len(bytes)
BY FileHas DEF Lies, Full

LEMMA LooseSize ==
  ASSUME NEW t, t.tag \in Loose
  PROVE  R!Size(t) = 1
<1>1. t.tag \notin IntTags /\ t.tag \notin Latin1Defs \cup Utf32Defs \cup CompactRefs
  BY DEF Loose, IntTags, Latin1Defs, Utf32Defs, CompactRefs, Latin1Refs, Utf32Refs
<1>2. Size(t) = 1
  BY <1>1, Zenon DEF Size, Loose
<1>3. QED BY <1>2, SameSize

(* What the writer took for the offset of a token is its position.         *)
LEMMA Placing ==
  ASSUME NEW at, NEW sh, NEW s, Lies(at, sh, s)
  PROVE  /\ \A i \in 1 .. s + 1 : R!Position(i) = Start(i) /\ Start(i) \in Nat
         /\ \A i \in 1 .. s : /\ Start(i) = bytes[i].at /\ Size(bytes[i].tok) \in Nat \ {0}
                              /\ Start(i + 1) = bytes[i].at + Size(bytes[i].tok)
<1>1. /\ s \in Nat /\ s <= Len(bytes) /\ Len(bytes) \in Nat /\ bytes # <<>>
      /\ \A i \in 1 .. s : R!Tok(i) = TokenIn(bytes[i]) /\ bytes[i] \in Item
  BY FileToks DEF Lies, Full
<1>2. ASSUME NEW i \in 1 .. s
      PROVE  /\ Start(i) = bytes[i].at /\ Size(bytes[i].tok) \in Nat \ {0}
             /\ Start(i + 1) = bytes[i].at + Size(bytes[i].tok) /\ R!Size(R!Tok(i)) = Size(bytes[i].tok)
  <2>1. i \in 1 .. Len(bytes) /\ i <= Len(bytes)
    BY <1>1
  <2>2. Size(bytes[i].tok) \in Nat \ {0} /\ Start(i + 1) = bytes[i].at + Size(bytes[i].tok)
    BY <2>1 DEF Lies, Full, Lined
  <2>3. Start(i) = bytes[i].at
    BY <2>1 DEF Start
  <2>4. R!Size(R!Tok(i)) = Size(bytes[i].tok)
    BY <1>1, TokenInIs
  <2>5. QED BY <2>2, <2>3, <2>4
<1>. DEFINE Same(n) == R!Position(n + 1) = Start(n + 1) /\ Start(n + 1) \in Nat
            S       == {n \in Nat : n <= s => Same(n)}
<1>3. 0 \in S
  <2>1. R!Position(1) = 0 /\ 0 + 1 = 1
    BY PositionStep
  <2>2. Start(1) = 0
    <3>1. Len(bytes) # 0
      BY <1>1, BytesTyped DEF Lies, Full
    <3>2. 1 <= Len(bytes) /\ bytes[1].at = 0
      BY <1>1, <3>1 DEF Lies, Full, Lined
    <3>3. QED BY <3>2 DEF Start
  <2>3. QED BY <2>1, <2>2
<1>4. ASSUME NEW n \in S PROVE n + 1 \in S
  <2>1. n \in Nat /\ n + 1 \in Nat \ {0}
    OBVIOUS
  <2>2. SUFFICES ASSUME n + 1 <= s PROVE Same(n + 1)
    BY <2>1
  <2>3. Same(n) /\ n + 1 \in 1 .. s
    BY <1>1, <2>1, <2>2
  <2>4. R!Position((n + 1) + 1) = R!Position(n + 1) + R!Size(R!Tok(n + 1))
    BY <2>1, PositionStep
  <2>5. /\ Start(n + 1) = bytes[n + 1].at /\ Size(bytes[n + 1].tok) \in Nat \ {0}
        /\ Start((n + 1) + 1) = bytes[n + 1].at + Size(bytes[n + 1].tok)
        /\ R!Size(R!Tok(n + 1)) = Size(bytes[n + 1].tok)
    BY <1>2, <2>3
  <2>6. QED BY <2>3, <2>4, <2>5
<1>5. S = Nat
  <2>. HIDE DEF S
  <2>1. S \subseteq Nat
    BY DEF S
  <2>2. QED BY <1>3, <1>4, <2>1, InductiveSet
<1>6. ASSUME NEW i \in 1 .. s + 1 PROVE R!Position(i) = Start(i) /\ Start(i) \in Nat
  <2>1. i - 1 \in Nat /\ i - 1 <= s /\ (i - 1) + 1 = i
    BY <1>1
  <2>2. Same(i - 1)
    BY <1>5, <2>1
  <2>3. QED BY <2>1, <2>2
<1>7. QED BY <1>2, <1>6

(* A later token begins further on.                                        *)
LEMMA Further ==
  ASSUME NEW at, NEW sh, NEW s, Lies(at, sh, s)
  PROVE  \A i, j \in 1 .. s + 1 : i < j => Start(i) < Start(j)
<1>1. /\ s \in Nat
      /\ \A i \in 1 .. s + 1 : Start(i) \in Nat
      /\ \A i \in 1 .. s : /\ Start(i) = bytes[i].at /\ Size(bytes[i].tok) \in Nat \ {0}
                           /\ Start(i + 1) = bytes[i].at + Size(bytes[i].tok)
  BY Placing, FileToks
<1>2. \A i \in 1 .. s : Start(i) < Start(i + 1)
  <2>1. SUFFICES ASSUME NEW i \in 1 .. s PROVE Start(i) < Start(i + 1)
    OBVIOUS
  <2>2. PICK a, b : a = Start(i) /\ b = Size(bytes[i].tok)
    OBVIOUS
  <2>3. a \in Nat /\ b \in Nat \ {0} /\ Start(i + 1) = a + b
    BY <1>1, <2>2
  <2>4. QED BY <2>2, <2>3
<1>. DEFINE S == {j \in Nat : j <= s + 1 => \A i \in 1 .. j - 1 : Start(i) < Start(j)}
<1>3. 0 \in S
  OBVIOUS
<1>4. ASSUME NEW j \in S PROVE j + 1 \in S
  <2>1. j \in Nat /\ j + 1 \in Nat /\ (j + 1) - 1 = j
    OBVIOUS
  <2>2. SUFFICES ASSUME j + 1 <= s + 1, NEW i \in 1 .. j PROVE Start(i) < Start(j + 1)
    BY <2>1
  <2>3. j \in 1 .. s /\ j <= s + 1 /\ i \in 1 .. s + 1 /\ j \in 1 .. s + 1 /\ j + 1 \in 1 .. s + 1
    BY <1>1, <2>1, <2>2
  <2>4. Start(j) < Start(j + 1) /\ Start(j) \in Nat /\ Start(j + 1) \in Nat /\ Start(i) \in Nat
    BY <1>1, <1>2, <2>3
  <2>5. i = j \/ Start(i) < Start(j)
    BY <1>4, <2>1, <2>3
  <2>6. QED BY <2>4, <2>5
<1>5. S = Nat
  <2>. HIDE DEF S
  <2>1. S \subseteq Nat
    BY DEF S
  <2>2. QED BY <1>3, <1>4, <2>1, InductiveSet
<1>6. SUFFICES ASSUME NEW i \in 1 .. s + 1, NEW j \in 1 .. s + 1, i < j PROVE Start(i) < Start(j)
  OBVIOUS
<1>7. j \in Nat /\ j <= s + 1 /\ i \in 1 .. j - 1
  BY <1>1, <1>6
<1>8. QED BY <1>5, <1>7

(* A seek to where a token begins leads to that token.                     *)
LEMMA SeekToStart ==
  ASSUME NEW at, NEW sh, NEW s, Lies(at, sh, s), NEW k \in 1 .. s + 1
  PROVE  R!SeekTo(Start(k)) = k
<1>1. /\ s \in Nat /\ Len(file) \in {s, s + 1} /\ R!Tok(s + 1).tag \in Loose
  BY FileToks
<1>2. \A i \in 1 .. s + 1 : R!Position(i) = Start(i) /\ Start(i) \in Nat
  BY Placing
<1>3. \A i \in 1 .. s + 1 : i = k \/ (i < k /\ Start(i) < Start(k)) \/ (k < i /\ Start(k) < Start(i))
  BY <1>1, Further
<1>4. R!Position(s + 2) = Start(s + 1) + 1 /\ Start(s + 1) \in Nat /\ Start(s + 1) >= Start(k)
  <2>1. s + 1 \in Nat \ {0} /\ (s + 1) + 1 = s + 2 /\ s + 1 \in 1 .. s + 1
    BY <1>1
  <2>2. R!Position(s + 2) = R!Position(s + 1) + R!Size(R!Tok(s + 1)) /\ R!Size(R!Tok(s + 1)) = 1
    BY <1>1, <2>1, PositionStep, LooseSize
  <2>3. R!Position(s + 1) = Start(s + 1) /\ Start(s + 1) \in Nat /\ Start(k) \in Nat
    BY <1>2, <2>1
  <2>4. Start(s + 1) >= Start(k)
    BY <1>1, <1>3, <2>1, <2>3
  <2>5. QED BY <2>2, <2>3, <2>4
<1>. DEFINE there == {i \in 1 .. Len(file) + 1 : R!Position(i) = Start(k)}
<1>5. \A i \in 1 .. Len(file) + 1 : i \in 1 .. s + 1 \/ i = s + 2
  BY <1>1
<1>6. there = {k}
  <2>1. k \in 1 .. Len(file) + 1 /\ R!Position(k) = Start(k)
    BY <1>1, <1>2
  <2>2. ASSUME NEW i \in 1 .. Len(file) + 1, R!Position(i) = Start(k) PROVE i = k
    <3>1. CASE i \in 1 .. s + 1
      BY <1>2, <1>3, <2>2, <3>1
    <3>2. CASE i = s + 2
      BY <1>2, <1>4, <2>2, <3>2
    <3>3. QED BY <1>5, <2>2, <3>1, <3>2
  <2>3. QED BY <2>1, <2>2
<1>7. R!Min({k}) = k
  <2>1. \E x \in {k} : \A y \in {k} : x <= y
    BY <1>1
  <2>2. QED BY <2>1 DEF R!Min
<1>8. ~(Start(k) > R!EndOfInput)
  <2>1. CASE Len(file) = s
    BY <1>1, <1>2, <1>4, <2>1 DEF R!EndOfInput
  <2>2. CASE Len(file) = s + 1
    <3>1. Len(file) + 1 = s + 2
      BY <1>1, <2>2
    <3>2. R!EndOfInput = Start(s + 1) + 1
      BY <1>4, <3>1 DEF R!EndOfInput
    <3>3. QED BY <1>2, <1>4, <3>2
  <2>3. QED BY <1>1, <2>1, <2>2
<1>9. R!SeekTo(Start(k)) = R!Min(there)
  BY <1>6, <1>8 DEF R!SeekTo
<1>10. QED BY <1>6, <1>7, <1>9
-----------------------------------------------------------------------------
(* The open containers as the reader has them: an array with its table, an *)
(* object with or without a key that waits for its value.                  *)
Opened(w, f) ==
  IF f.kind = "array"
  THEN [kind |-> "seq", left |-> f.left, table |-> [k \in 1 .. f.count + 1 |-> w[f.slot + 4 * (k - 1)]]]
  ELSE [kind |-> "map", left |-> f.left, table |-> <<>>]
Frames(w, s) == [i \in 1 .. Len(s) |-> Opened(w, s[i])]

(* The reader's tables up to token p.                                      *)
HasText(table, x) == x.at + 5 \in DOMAIN table /\ table[x.at + 5] = R!PayloadText(x.tok)
Knows1(l, u, x) == /\ x.tok.tag \in Latin1Defs => HasText(l, x)
                   /\ x.tok.tag \in Utf32Defs => HasText(u, x)
Knowing(b, l, u, p) == \A j \in 1 .. p - 1 : Knows1(l, u, b[j])

(* The reader is in the body, where part n comes next.                     *)
InBody(at, sh, s, n) ==
  /\ Lies(at, sh, s) /\ phase = "body" /\ n \in 2 .. Len(wrote)
  /\ pos = at[n - 1] /\ pos <= s + 1
  /\ sh[n - 1] # <<>> /\ frames = Frames(words, sh[n - 1])
  /\ Knowing(bytes, compact_latin1, compact_utf32, pos)

(* Part n taken.                                                           *)
Took(at, sh, n) ==
  /\ seen' = Append(seen, Canon(wrote[n])) /\ pos' = at[n] /\ frames' = Frames(words, sh[n])
  /\ phase' = IF frames' = <<>> THEN "footer" ELSE "body"
  /\ Knowing(bytes, compact_latin1', compact_utf32', at[n])

LEMMA InBodyFacts ==
  ASSUME NEW at, NEW sh, NEW s, NEW n, InBody(at, sh, s, n)
  PROVE  /\ Lies(at, sh, s) /\ Full(at, sh) /\ phase = "body" /\ n \in Nat \ {0, 1} /\ n \in 1 .. Len(wrote)
         /\ Len(wrote) \in Nat /\ wrote[n] \in Part
         /\ pos \in Nat \ {0, 1} /\ pos <= s + 1 /\ s \in Nat /\ s <= Len(bytes) /\ Len(bytes) \in Nat
         /\ sh[n - 1] \in Seq(OpenFrame) /\ sh[n - 1] # <<>> /\ frames = Frames(words, sh[n - 1])
         /\ sh[n] \in Seq(OpenFrame) /\ sh[n] = Grown(sh[n - 1], wrote[n], bytes[pos])
         /\ Legal(n, sh[n - 1], wrote[n]) /\ Marked(sh[n - 1], pos)
         /\ at[n] = pos + Weight(wrote[n]) /\ pos = at[n - 1] /\ at[n] \in Nat \ {0, 1}
         /\ Knowing(bytes, compact_latin1, compact_utf32, pos)
<1>1. /\ Lies(at, sh, s) /\ Full(at, sh) /\ phase = "body" /\ n \in 2 .. Len(wrote) /\ pos = at[n - 1] /\ pos <= s + 1
      /\ sh[n - 1] # <<>> /\ frames = Frames(words, sh[n - 1]) /\ Knowing(bytes, compact_latin1, compact_utf32, pos)
  BY DEF InBody, Lies
<1>2. Len(wrote) \in Nat
  BY <1>1, FullFacts
<1>3. n \in Nat \ {0, 1} /\ n \in 1 .. Len(wrote)
  BY <1>1, <1>2
<1>4. wrote[n] \in Part
  BY <1>1, <1>3, WroteTyped DEF Full
<1>5. s \in Nat /\ s <= Len(bytes) /\ Len(bytes) \in Nat
  BY <1>1, FileToks
<1>6. /\ at[n - 1] \in Nat \ {0, 1} /\ at[n] \in Nat \ {0, 1}
      /\ sh[n - 1] \in Seq(OpenFrame) /\ sh[n] \in Seq(OpenFrame)
      /\ at[n] = at[n - 1] + Weight(wrote[n]) /\ Legal(n, sh[n - 1], wrote[n])
      /\ sh[n] = Grown(sh[n - 1], wrote[n], bytes[at[n - 1]]) /\ Marked(sh[n - 1], at[n - 1])
  BY <1>1, <1>3, PartFacts
<1>7. QED BY <1>1, <1>2, <1>3, <1>4, <1>5, <1>6

LEMMA OpenedIs ==
  ASSUME NEW f \in OpenFrame
  PROVE  /\ f.kind = "array" => /\ Opened(words, f).kind = "seq" /\ Opened(words, f).left = f.left
                                /\ Opened(words, f).table = [k \in 1 .. f.count + 1 |-> words[f.slot + 4 * (k - 1)]]
                                /\ Opened(words, f).table # <<>> /\ Len(Opened(words, f).table) = f.count + 1
         /\ f.kind = "object" => Opened(words, f) = [kind |-> "map", left |-> f.left, table |-> <<>>]
         /\ f.kind \in {"array", "object"} /\ f.left \in Nat /\ f.count \in Nat /\ f.slot \in Nat
<1>1. f.kind \in {"array", "object"} /\ f.left \in Nat /\ f.count \in Nat /\ f.slot \in Nat
  BY OpenFrameTyped DEF Containers
<1>2. ASSUME f.kind = "array"
      PROVE  /\ Opened(words, f).kind = "seq" /\ Opened(words, f).left = f.left
             /\ Opened(words, f).table = [k \in 1 .. f.count + 1 |-> words[f.slot + 4 * (k - 1)]]
             /\ Opened(words, f).table # <<>> /\ Len(Opened(words, f).table) = f.count + 1
  <2>1. PICK m, t : m = f.count + 1 /\ t = [k \in 1 .. m |-> words[f.slot + 4 * (k - 1)]]
    OBVIOUS
  <2>2. Opened(words, f) = [kind |-> "seq", left |-> f.left, table |-> t]
    BY <1>2, <2>1 DEF Opened
  <2>3. m \in Nat /\ m # 0
    BY <1>1, <2>1
  <2>4. Len(t) = m
    BY <2>1, <2>3
  <2>5. t # <<>>
    BY <2>3, <2>4
  <2>6. Opened(words, f).kind = "seq" /\ Opened(words, f).left = f.left /\ Opened(words, f).table = t
    BY <2>2
  <2>7. QED BY <2>1, <2>4, <2>5, <2>6
<1>3. f.kind = "object" => Opened(words, f) = [kind |-> "map", left |-> f.left, table |-> <<>>]
  BY DEF Opened
<1>4. QED BY <1>1, <1>2, <1>3
(* The innermost frame.                                                    *)
LEMMA HereIs ==
  ASSUME NEW at, NEW sh, NEW s, NEW n, InBody(at, sh, s, n), NEW f, f = Last1(sh[n - 1])
  PROVE  /\ f \in OpenFrame /\ Len(frames) = Len(sh[n - 1]) /\ Len(frames) \in Nat \ {0}
         /\ R!Here = Opened(words, f)
         /\ ~R!InStandardSeq
         /\ f.kind = "array" => /\ R!InCompactSeq /\ ~R!InMap /\ ~R!KeyIsDue /\ R!Here.left = f.left
         /\ f.kind = "object" => /\ ~R!InCompactSeq /\ R!InMap /\ (R!KeyIsDue <=> f.left = 0)
         /\ f.kind \in {"array", "object"} /\ f.left \in Nat
<1>1. PICK q : q = sh[n - 1]
  OBVIOUS
<1>2. q \in Seq(OpenFrame) /\ q # <<>> /\ frames = Frames(words, q) /\ phase = "body"
  BY <1>1, InBodyFacts
<1>3. f \in OpenFrame /\ f = q[Len(q)] /\ Len(q) \in Nat \ {0}
  BY <1>1, <1>2, LastTyped
<1>4. Len(frames) = Len(q) /\ frames[Len(q)] = Opened(words, f)
  <2>1. PICK m : m = Len(q)
    OBVIOUS
  <2>2. m \in Nat \ {0} /\ frames = [i \in 1 .. m |-> Opened(words, q[i])]
    BY <1>2, <1>3, <2>1 DEF Frames
  <2>3. Len(frames) = m /\ frames[m] = Opened(words, q[m])
    BY <2>2
  <2>4. QED BY <1>3, <2>1, <2>3
<1>5. R!Here = Opened(words, f)
  BY <1>4 DEF R!Here
<1>6. /\ f.kind = "array" => R!Here.kind = "seq" /\ R!Here.left = f.left /\ R!Here.table # <<>>
      /\ f.kind = "object" => R!Here = [kind |-> "map", left |-> f.left, table |-> <<>>]
      /\ f.kind \in {"array", "object"} /\ f.left \in Nat
  BY <1>3, <1>5, OpenedIs
<1>7. CASE f.kind = "array"
  <2>1. R!InSeq /\ ~R!InMap /\ R!Here.table # <<>>
    BY <1>2, <1>6, <1>7 DEF R!InSeq, R!InMap
  <2>2. QED BY <1>1, <1>3, <1>4, <1>5, <1>6, <1>7, <2>1 DEF R!InStandardSeq, R!InCompactSeq, R!KeyIsDue
<1>8. CASE f.kind = "object"
  <2>1. R!Here.kind = "map" /\ R!Here.left = f.left
    BY <1>6, <1>8
  <2>2. ~R!InSeq /\ R!InMap
    BY <1>2, <2>1 DEF R!InSeq, R!InMap
  <2>3. QED BY <1>1, <1>3, <1>4, <1>5, <1>6, <1>8, <2>1, <2>2 DEF R!InStandardSeq, R!InCompactSeq, R!KeyIsDue
<1>9. QED BY <1>6, <1>7, <1>8

(* An element of an array, and its end, are where the table says.          *)
LEMMA PlacedHere ==
  ASSUME NEW at, NEW sh, NEW s, NEW n, InBody(at, sh, s, n), Last1(sh[n - 1]).kind = "array"
  PROVE  R!Placed
<1>1. PICK f : f = Last1(sh[n - 1])
  OBVIOUS
<1>2. /\ f \in OpenFrame /\ f.kind = "array" /\ R!Here = Opened(words, f) /\ R!Here.left = f.left
  BY <1>1, HereIs
<1>3. /\ f.count \in Nat /\ f.left \in Nat /\ f.left <= f.count
  BY <1>2, OpenFrameTyped
<1>4. /\ R!Here.table = [k \in 1 .. f.count + 1 |-> words[f.slot + 4 * (k - 1)]]
      /\ Len(R!Here.table) = f.count + 1
  BY <1>2, OpenedIs
<1>5. R!Expected = words[f.slot + 4 * (f.count - f.left)]
  <2>1. PICK c, l, k : c = f.count /\ l = f.left /\ k = (f.count + 1) - f.left
    OBVIOUS
  <2>2. k \in 1 .. c + 1 /\ k - 1 = c - l
    BY <1>3, <2>1
  <2>3. R!Expected = R!Here.table[k]
    BY <1>2, <1>4, <2>1 DEF R!Expected
  <2>4. R!Here.table[k] = words[f.slot + 4 * (k - 1)]
    BY <1>4, <2>1, <2>2
  <2>5. QED BY <2>1, <2>2, <2>3, <2>4
<1>6. words[f.slot + 4 * (f.count - f.left)] = Start(pos)
  <2>1. Marked(sh[n - 1], pos) /\ sh[n - 1] # <<>>
    BY InBodyFacts
  <2>2. QED BY <1>1, <1>2, <2>1 DEF Marked, MarkedAt
<1>7. R!Position(pos) = Start(pos) /\ pos # 0
  <2>1. pos \in 1 .. s + 1 /\ pos # 0 /\ Lies(at, sh, s)
    BY InBodyFacts
  <2>2. QED BY <2>1, Placing
<1>8. QED BY <1>5, <1>6, <1>7 DEF R!Placed

(* A value counts in the frame around it, a key in its object.             *)
LEMMA CountedIs ==
  ASSUME NEW at, NEW sh, NEW s, NEW n, InBody(at, sh, s, n)
  PROVE  /\ Last1(sh[n - 1]).left > 0 => R!Counted = Frames(words, Ticked(sh[n - 1]))
         /\ \A o \in Nat : Last1(sh[n - 1]).kind = "object" /\ Last1(sh[n - 1]).left = 0
                             => R!Counted = Frames(words, Keyed(sh[n - 1], o))
<1>1. PICK q, f, m : q = sh[n - 1] /\ f = Last1(sh[n - 1]) /\ m = Len(sh[n - 1])
  OBVIOUS
<1>2. /\ q \in Seq(OpenFrame) /\ q # <<>> /\ frames = Frames(words, q)
      /\ f \in OpenFrame /\ f = q[m] /\ m = Len(q) /\ m \in Nat \ {0} /\ Len(frames) = m
      /\ R!Here = Opened(words, f) /\ f.left \in Nat /\ f.kind \in {"array", "object"}
      /\ R!KeyIsDue <=> f.kind = "object" /\ f.left = 0
  <2>1. q \in Seq(OpenFrame) /\ q # <<>> /\ frames = Frames(words, q)
    BY <1>1, InBodyFacts
  <2>2. /\ f \in OpenFrame /\ Len(frames) = m /\ m \in Nat \ {0} /\ R!Here = Opened(words, f)
        /\ f.kind = "array" => ~R!KeyIsDue
        /\ f.kind = "object" => (R!KeyIsDue <=> f.left = 0)
        /\ f.kind \in {"array", "object"} /\ f.left \in Nat
    BY <1>1, HereIs
  <2>3. f = q[m] /\ m = Len(q)
    BY <1>1 DEF Last1
  <2>4. (f.kind = "object" => f.kind # "array") /\ (f.kind = "array" => f.kind # "object")
    OBVIOUS
  <2>5. QED BY <2>1, <2>2, <2>3, <2>4
<1>3. frames = [i \in 1 .. m |-> Opened(words, q[i])] /\ m \in 1 .. m
  BY <1>2 DEF Frames
<1>4. R!Counted = [i \in 1 .. m |-> IF i = m
                                     THEN [Opened(words, f) EXCEPT !.left = IF R!KeyIsDue THEN 1 ELSE @ - 1]
                                     ELSE Opened(words, q[i])]
  BY <1>2, <1>3 DEF R!Counted
<1>5. ASSUME NEW g \in OpenFrame, NEW t, t \in Seq(OpenFrame), Len(t) = m, t[m] = g,
             \A i \in 1 .. m : i # m => t[i] = q[i],
             Opened(words, g) = [Opened(words, f) EXCEPT !.left = IF R!KeyIsDue THEN 1 ELSE @ - 1]
      PROVE  R!Counted = Frames(words, t)
  <2>1. Frames(words, t) = [i \in 1 .. m |-> Opened(words, t[i])]
    BY <1>5 DEF Frames
  <2>2. \A i \in 1 .. m : Opened(words, t[i]) = IF i = m
                             THEN [Opened(words, f) EXCEPT !.left = IF R!KeyIsDue THEN 1 ELSE @ - 1]
                             ELSE Opened(words, q[i])
    BY <1>5
  <2>3. QED BY <1>4, <2>1, <2>2
<1>6. ASSUME f.left > 0 PROVE R!Counted = Frames(words, Ticked(q))
  <2>1. PICK t : t = Ticked(q)
    OBVIOUS
  <2>2. PICK g : g = Last1(t)
    OBVIOUS
  <2>3. Last1(q) = f /\ Last1(q).left > 0
    BY <1>1, <1>6
  <2>4. /\ t \in Seq(OpenFrame) /\ Len(t) = m /\ t # <<>>
        /\ g.kind = f.kind /\ g.count = f.count /\ g.left = f.left - 1 /\ g.slot = f.slot
        /\ \A i \in 1 .. m : i # m => t[i] = q[i]
    BY <1>2, <2>1, <2>2, <2>3, TickedProps
  <2>5. g \in OpenFrame /\ g = t[m]
    BY <2>2, <2>4, LastTyped
  <2>6. ~R!KeyIsDue
    BY <1>2, <1>6
  <2>7. Opened(words, g) = [Opened(words, f) EXCEPT !.left = f.left - 1]
    <3>1. CASE f.kind = "array"
      <4>1. PICK e : e = [k \in 1 .. f.count + 1 |-> words[f.slot + 4 * (k - 1)]]
        OBVIOUS
      <4>2. Opened(words, f) = [kind |-> "seq", left |-> f.left, table |-> e]
        BY <3>1, <4>1 DEF Opened
      <4>3. Opened(words, g) = [kind |-> "seq", left |-> g.left, table |-> e]
        BY <2>4, <3>1, <4>1 DEF Opened
      <4>4. QED BY <2>4, <4>2, <4>3
    <3>2. CASE f.kind = "object"
      BY <2>4, <3>2 DEF Opened
    <3>3. QED BY <1>2, <3>1, <3>2
  <2>8. Opened(words, f).left = f.left
    BY DEF Opened
  <2>9. Opened(words, g) = [Opened(words, f) EXCEPT !.left = IF R!KeyIsDue THEN 1 ELSE @ - 1]
    BY <2>6, <2>7, <2>8
  <2>10. R!Counted = Frames(words, t)
    BY <1>5, <2>4, <2>5, <2>9
  <2>11. QED BY <2>1, <2>10
<1>7. ASSUME NEW o \in Nat, f.kind = "object", f.left = 0 PROVE R!Counted = Frames(words, Keyed(q, o))
  <2>1. PICK t : t = Keyed(q, o)
    OBVIOUS
  <2>2. PICK g : g = Last1(t)
    OBVIOUS
  <2>3. Last1(q) = f /\ Last1(q).kind = "object"
    BY <1>1, <1>7
  <2>4. /\ t \in Seq(OpenFrame) /\ Len(t) = m /\ t # <<>>
        /\ g.kind = "object" /\ g.left = 1
        /\ \A i \in 1 .. m : i # m => t[i] = q[i]
    BY <1>2, <2>1, <2>2, <2>3, KeyedProps
  <2>5. g \in OpenFrame /\ g = t[m]
    BY <2>2, <2>4, LastTyped
  <2>6. R!KeyIsDue
    BY <1>2, <1>7
  <2>7. Opened(words, g) = [Opened(words, f) EXCEPT !.left = 1]
    BY <1>7, <2>4 DEF Opened
  <2>9. Opened(words, g) = [Opened(words, f) EXCEPT !.left = IF R!KeyIsDue THEN 1 ELSE @ - 1]
    BY <2>6, <2>7
  <2>10. R!Counted = Frames(words, t)
    BY <1>5, <2>4, <2>5, <2>9
  <2>11. QED BY <2>1, <2>10
<1>8. QED BY <1>1, <1>6, <1>7
-----------------------------------------------------------------------------
(* What a step in the body is: an end, or what the tag says.               *)
Visit(tag) ==
  \/ R!visit_scalar /\ tag \in DOMAIN R!Scalars
  \/ R!visit_float /\ tag \in {"F32", "F64"}
  \/ R!visit_int /\ tag \in IntTags
  \/ R!visit_direct /\ tag \in {"StringLatin1Direct", "StringUtf8Direct"}
  \/ R!visit_definition /\ tag \in {"StringLatin1Definition", "StringUtf8Definition"}
  \/ R!visit_reference /\ tag \in {"StringLatin1Reference", "StringUtf8Reference"}
  \/ R!visit_blob /\ tag = "BinaryBlob"
  \/ R!visit_rtid /\ tag = "Rtid"
  \/ R!visit_compact_definition /\ tag \in CompactDefs
  \/ R!visit_compact_reference /\ tag \in CompactRefs
  \/ R!visit_compact_rtid /\ tag = "CompactRtid"
  \/ R!visit_compact_blob /\ tag = "CompactBinaryBlob"
  \/ R!visit_compact_bool /\ tag = "CompactBoolean"
  \/ R!enter_compact_seq /\ tag = "CompactArrayBegin"
  \/ R!enter_seq /\ tag = "ArrayBegin"
  \/ R!enter_map /\ tag \in {"ObjectBegin", "CompactObjectBegin"}
  \/ R!refuse /\ tag \in Loose \cup R!NoValue

LEMMA BodyStep ==
  ASSUME NEW at, NEW sh, NEW s, NEW n, InBody(at, sh, s, n), R!DNext
  PROVE  \/ R!end_of_map /\ R!KeyIsDue /\ R!Tag = "ObjectEnd"
         \/ R!end_of_compact_seq /\ R!InCompactSeq /\ R!Here.left = 0
         \/ R!Due /\ Visit(R!Tag)
<1>1. phase = "body" /\ ~R!InStandardSeq
  <2>1. PICK f : f = Last1(sh[n - 1])
    OBVIOUS
  <2>2. QED BY <2>1, HereIs, InBodyFacts
<1>2. ~R!validate_header /\ ~R!enter_root /\ ~R!validate_footer
  BY <1>1 DEF R!validate_header, R!enter_root, R!validate_footer
<1>3. ~R!misplaced
  <2>1. PICK f : f = Last1(sh[n - 1])
    OBVIOUS
  <2>2. R!InCompactSeq => f.kind = "array"
    BY <2>1, HereIs
  <2>3. R!InCompactSeq => R!Placed
    BY <2>1, <2>2, PlacedHere
  <2>4. QED BY <2>3 DEF R!misplaced
<1>4. ~R!end_of_seq /\ ~R!capacity_exceeded
  BY <1>1 DEF R!end_of_seq, R!capacity_exceeded
<1>5. ~R!visit_none
  BY DEF R!visit_none
<1>6. R!end_of_map => R!KeyIsDue /\ R!Tag = "ObjectEnd"
  BY DEF R!end_of_map
<1>7. R!end_of_compact_seq => R!InCompactSeq /\ R!Here.left = 0
  BY DEF R!end_of_compact_seq
<1>8. /\ R!visit_scalar => R!Due /\ R!Tag \in DOMAIN R!Scalars
      /\ R!visit_float => R!Due /\ R!Tag \in {"F32", "F64"}
      /\ R!visit_int => R!Due /\ R!Tag \in IntTags
      /\ R!visit_direct => R!Due /\ R!Tag \in {"StringLatin1Direct", "StringUtf8Direct"}
      /\ R!visit_definition => R!Due /\ R!Tag \in {"StringLatin1Definition", "StringUtf8Definition"}
      /\ R!visit_reference => R!Due /\ R!Tag \in {"StringLatin1Reference", "StringUtf8Reference"}
      /\ R!visit_blob => R!Due /\ R!Tag = "BinaryBlob"
      /\ R!visit_rtid => R!Due /\ R!Tag = "Rtid"
  BY SameTags, Zenon DEF R!visit_scalar, R!visit_float, R!visit_int, R!visit_direct, R!visit_definition, R!visit_reference,
     R!visit_blob, R!visit_rtid
<1>9. /\ R!visit_compact_definition => R!Due /\ R!Tag \in CompactDefs
      /\ R!visit_compact_reference => R!Due /\ R!Tag \in CompactRefs
      /\ R!visit_compact_rtid => R!Due /\ R!Tag = "CompactRtid"
      /\ R!visit_compact_blob => R!Due /\ R!Tag = "CompactBinaryBlob"
      /\ R!visit_compact_bool => R!Due /\ R!Tag = "CompactBoolean"
      /\ R!enter_compact_seq => R!Due /\ R!Tag = "CompactArrayBegin"
      /\ R!enter_seq => R!Due /\ R!Tag = "ArrayBegin"
      /\ R!enter_map => R!Due /\ R!Tag \in {"ObjectBegin", "CompactObjectBegin"}
  BY SameTags, Zenon DEF R!visit_compact_definition, R!visit_compact_reference, R!visit_compact_rtid, R!visit_compact_blob,
     R!visit_compact_bool, R!enter_compact_seq, R!enter_seq, R!enter_map
<1>10. R!refuse => R!Due /\ R!Tag \in Loose \cup R!NoValue
  BY <1>1 DEF R!refuse, Loose
<1>11. \/ R!end_of_map \/ R!end_of_compact_seq \/ R!refuse
       \/ R!visit_scalar \/ R!visit_float \/ R!visit_int \/ R!visit_direct \/ R!visit_definition
       \/ R!visit_reference \/ R!visit_blob \/ R!visit_rtid
       \/ R!visit_compact_definition \/ R!visit_compact_reference \/ R!visit_compact_rtid
       \/ R!visit_compact_blob \/ R!visit_compact_bool \/ R!enter_compact_seq
       \/ R!enter_seq \/ R!enter_map
  BY <1>2, <1>3, <1>4, <1>5, Zenon DEF R!DNext
<1>12. /\ R!visit_scalar => R!Due /\ Visit(R!Tag)
       /\ R!visit_float => R!Due /\ Visit(R!Tag)
       /\ R!visit_int => R!Due /\ Visit(R!Tag)
       /\ R!visit_direct => R!Due /\ Visit(R!Tag)
       /\ R!visit_definition => R!Due /\ Visit(R!Tag)
       /\ R!visit_reference => R!Due /\ Visit(R!Tag)
       /\ R!visit_blob => R!Due /\ Visit(R!Tag)
       /\ R!visit_rtid => R!Due /\ Visit(R!Tag)
  BY <1>8, Zenon DEF Visit
<1>13. /\ R!visit_compact_definition => R!Due /\ Visit(R!Tag)
       /\ R!visit_compact_reference => R!Due /\ Visit(R!Tag)
       /\ R!visit_compact_rtid => R!Due /\ Visit(R!Tag)
       /\ R!visit_compact_blob => R!Due /\ Visit(R!Tag)
       /\ R!visit_compact_bool => R!Due /\ Visit(R!Tag)
       /\ R!enter_compact_seq => R!Due /\ Visit(R!Tag)
       /\ R!enter_seq => R!Due /\ Visit(R!Tag)
       /\ R!enter_map => R!Due /\ Visit(R!Tag)
  BY <1>9, Zenon DEF Visit
<1>14. R!refuse => R!Due /\ Visit(R!Tag)
  BY <1>10, Zenon DEF Visit
<1>15. QED BY <1>6, <1>7, <1>11, <1>12, <1>13, <1>14, Zenon

(* The scalars and the tags there are.                                     *)
FixedTags == {"I8", "I16", "I32", "I64", "U8", "U16", "U32", "U64"}
LEMMA ScalarIs ==
  ASSUME NEW v \in Scalars
  PROVE  /\ v.kind = "null" => ScalarToken(v) = CompactRtid(0, <<>>, <<>>)
         /\ v.kind = "bool" => /\ v.bool \in BOOLEAN
                               /\ ScalarToken(v) = [tag |-> "CompactBoolean", byte |-> IF v.bool THEN 1 ELSE 0]
         /\ v.kind = "int" => v.int \in RustInt /\ ScalarToken(v) = FixedInt(v.int) /\ ScalarToken(v).tag \in FixedTags
         /\ v.kind = "float" => /\ v.ty \in {"f32", "f64"}
                                /\ ScalarToken(v) = [tag |-> IF v.ty = "f32" THEN "F32" ELSE "F64", val |-> v.val]
         /\ v.kind = "rtid" => /\ v.rtid = Null \/ v.rtid \in RtidOver(Strings)
                               /\ ScalarToken(v) = RtidToken(v.rtid) /\ ScalarToken(v).tag = "CompactRtid"
         /\ v.kind \in {"null", "bool", "int", "float", "rtid"}
<1>1. /\ v.kind = "null" => ScalarToken(v) = CompactRtid(0, <<>>, <<>>)
      /\ v.kind = "bool" => ScalarToken(v) = [tag |-> "CompactBoolean", byte |-> IF v.bool THEN 1 ELSE 0]
      /\ v.kind = "int" => ScalarToken(v) = FixedInt(v.int)
      /\ v.kind = "float" => ScalarToken(v) = [tag |-> IF v.ty = "f32" THEN "F32" ELSE "F64", val |-> v.val]
      /\ v.kind = "rtid" => ScalarToken(v) = RtidToken(v.rtid)
  BY DEF ScalarToken
<1>2. /\ v.kind \in {"null", "bool", "int", "float", "rtid"}
      /\ v.kind = "bool" => v.bool \in BOOLEAN
      /\ v.kind = "float" => v.ty \in {"f32", "f64"}
      /\ v.kind = "int" => v.int \in Ints
      /\ v.kind = "rtid" => v.rtid = Null \/ v.rtid \in Rtids
  BY DEF Scalars
<1>3. v.kind = "int" => v.int \in RustInt
  BY <1>2, CIntsAssumption DEF CIntsAssumption
<1>4. v.kind = "int" => ScalarToken(v).tag \in FixedTags
  <2>1. SUFFICES ASSUME v.kind = "int" PROVE ScalarToken(v).tag \in FixedTags
    OBVIOUS
  <2>2. v.int.ty \in Signed \cup Unsigned
    BY <1>3, <2>1 DEF RustInt
  <2>3. ScalarToken(v).tag = FixedTag(v.int.ty)
    BY <1>1, <2>1 DEF FixedInt
  <2>4. QED BY <2>2, <2>3 DEF FixedTag, FixedTags, Signed, Unsigned
<1>5. v.kind = "rtid" => v.rtid = Null \/ v.rtid \in RtidOver(Strings)
  BY <1>2, CRtidsAssumption DEF CRtidsAssumption
<1>6. v.kind = "rtid" => ScalarToken(v).tag = "CompactRtid"
  <2>1. SUFFICES ASSUME v.kind = "rtid" PROVE ScalarToken(v).tag = "CompactRtid"
    OBVIOUS
  <2>2. PICK r : r = v.rtid
    OBVIOUS
  <2>3. r.kind \in {"null", "raw", "uid"}
    BY <1>5, <2>1, <2>2 DEF Null, RtidOver
  <2>4. \A sub, names, nums : CompactRtid(sub, names, nums).tag = "CompactRtid"
    BY DEF CompactRtid
  <2>5. RtidToken(r).tag = "CompactRtid"
    BY <2>3, <2>4 DEF RtidToken
  <2>6. QED BY <1>1, <2>1, <2>2, <2>5
<1>7. QED BY <1>1, <1>2, <1>3, <1>4, <1>5, <1>6

LEMMA TagsAre ==
  ASSUME NEW t \in CToken
  PROVE  t.tag \notin {"(byte)", "ArrayEnd", "ArrayCapacity", "(unknown)"} \cup Loose
<1>1. CASE t \in {ScalarToken(v) : v \in Scalars}
  <2>1. PICK v \in Scalars : t = ScalarToken(v)
    BY <1>1
  <2>2. /\ v.kind = "null" => t.tag = "CompactRtid"
        /\ v.kind = "bool" => t.tag = "CompactBoolean"
        /\ v.kind = "int" => t.tag \in FixedTags
        /\ v.kind = "float" => t.tag \in {"F32", "F64"}
        /\ v.kind = "rtid" => t.tag = "CompactRtid"
        /\ v.kind \in {"null", "bool", "int", "float", "rtid"}
    <3>1. /\ v.kind = "null" => t = CompactRtid(0, <<>>, <<>>)
          /\ v.kind = "bool" => t = [tag |-> "CompactBoolean", byte |-> IF v.bool THEN 1 ELSE 0]
          /\ v.kind = "int" => t.tag \in FixedTags
          /\ v.kind = "float" => t = [tag |-> IF v.ty = "f32" THEN "F32" ELSE "F64", val |-> v.val]
          /\ v.kind = "rtid" => t.tag = "CompactRtid"
          /\ v.kind \in {"null", "bool", "int", "float", "rtid"}
      BY <2>1, ScalarIs
    <3>2. v.kind = "null" => t.tag = "CompactRtid"
      BY <3>1 DEF CompactRtid
    <3>3. v.kind = "bool" => t.tag = "CompactBoolean"
      BY <3>1
    <3>4. v.kind = "float" => t.tag \in {"F32", "F64"}
      BY <3>1
    <3>5. QED BY <3>1, <3>2, <3>3, <3>4
  <2>3. QED BY <2>2 DEF FixedTags, Loose
<1>2. CASE t \notin {ScalarToken(v) : v \in Scalars}
  <2>1. t.tag \in CompactDefs \cup CompactRefs \cup {"CompactBinaryBlob", "CompactObjectBegin", "ObjectEnd", "(footer)",
                                                    "(header)", "CompactArrayBegin", "(raw)"}
    BY <1>2 DEF CToken
  <2>2. QED BY <2>1 DEF CompactDefs, CompactRefs, Latin1Defs, Latin1Refs, Utf32Defs, Utf32Refs, Loose
<1>3. QED BY <1>1, <1>2

(* A token in front of the reader, as the writer left it.                  *)
LEMMA TokHere ==
  ASSUME NEW at, NEW sh, NEW s, NEW n, InBody(at, sh, s, n), pos <= s
  PROVE  /\ bytes[pos] \in Item /\ R!Tok(pos) = TokenIn(bytes[pos]) /\ R!Tag = bytes[pos].tok.tag
         /\ bytes[pos].tok \in CToken /\ bytes[pos].at \in Nat /\ Fits(bytes[pos].tok)
         /\ pos \in 1 .. s /\ pos \in 1 .. Len(bytes) /\ R!Position(pos) = bytes[pos].at
         /\ Weight(wrote[n]) > 0 => Fills(wrote[n], bytes[pos].tok, 0) /\ bytes[pos].of = n
<1>1. /\ Lies(at, sh, s) /\ pos \in Nat \ {0, 1} /\ s \in Nat /\ s <= Len(bytes) /\ Len(bytes) \in Nat
      /\ n \in 1 .. Len(wrote) /\ pos = at[n - 1] /\ at[n] = pos + Weight(wrote[n])
  BY InBodyFacts
<1>2. pos \in 1 .. s /\ pos \in 1 .. Len(bytes)
  BY <1>1
<1>3. R!Tok(pos) = TokenIn(bytes[pos]) /\ bytes[pos] \in Item
  BY <1>1, <1>2, FileToks
<1>4. bytes[pos].tok \in CToken /\ bytes[pos].at \in Nat
  BY <1>3 DEF Item
<1>5. R!Tok(pos).tag = bytes[pos].tok.tag
  BY <1>3, TokenInIs
<1>6. bytes[pos].tok.tag # "(byte)"
  BY <1>4, TagsAre
<1>7. R!Tag = bytes[pos].tok.tag
  BY <1>5, <1>6 DEF R!Tag, R!TagAt
<1>8. Fits(bytes[pos].tok)
  <2>1. DOMAIN bytes = 1 .. Len(bytes)
    BY <1>1, BytesTyped DEF Lies, Full
  <2>2. QED BY <1>1, <1>2, <2>1 DEF Lies, AllFit
<1>9. R!Position(pos) = bytes[pos].at
  <2>1. pos \in 1 .. s + 1
    BY <1>1, <1>2
  <2>2. R!Position(pos) = Start(pos) /\ Start(pos) = bytes[pos].at
    BY <1>1, <1>2, <2>1, Placing
  <2>3. QED BY <2>2
<1>10. Weight(wrote[n]) > 0 => Fills(wrote[n], bytes[pos].tok, 0) /\ bytes[pos].of = n
  <2>1. SUFFICES ASSUME Weight(wrote[n]) > 0 PROVE Fills(wrote[n], bytes[pos].tok, 0) /\ bytes[pos].of = n
    OBVIOUS
  <2>2. PICK p, w : p = pos /\ w = Weight(wrote[n])
    OBVIOUS
  <2>3. w \in {0, 1, 3} /\ w > 0 /\ p \in Nat
    BY <1>1, <2>1, <2>2, WeightIs
  <2>4. p < p + w /\ p - p = 0 /\ p <= p
    BY <2>3
  <2>5. at[n - 1] <= p /\ p < at[n] /\ Full(at, sh)
    BY <1>1, <2>2, <2>4 DEF Lies
  <2>6. bytes[p].of = n /\ Fills(wrote[n], bytes[p].tok, p - at[n - 1])
    BY <1>1, <2>3, <2>5, TokensOf
  <2>7. QED BY <1>1, <2>2, <2>4, <2>6
<1>11. QED BY <1>2, <1>3, <1>4, <1>7, <1>8, <1>9, <1>10

(* A part with tokens of its own is visited, or ends an object.            *)
LEMMA PartVisited ==
  ASSUME NEW at, NEW sh, NEW s, NEW n, InBody(at, sh, s, n), Weight(wrote[n]) > 0, R!DNext
  PROVE  \/ R!end_of_map /\ R!KeyIsDue /\ R!Tag = "ObjectEnd"
         \/ R!Due /\ Visit(R!Tag)
<1>1. PICK f, c : f = Last1(sh[n - 1]) /\ c = wrote[n]
  OBVIOUS
<1>2. Legal(n, sh[n - 1], c) /\ sh[n - 1] # <<>> /\ ~(c.kind = "end" /\ c.of = "array")
  <2>1. Weight(c) # 0
    BY <1>1
  <2>2. QED BY <1>1, <2>1, InBodyFacts, WeightIs
<1>3. R!InCompactSeq => f.kind = "array" /\ R!Here.left = f.left
  BY <1>1, HereIs
<1>4. f.kind = "array" => f.left # 0
  <2>1. SUFFICES ASSUME f.kind = "array", f.left = 0 PROVE FALSE
    OBVIOUS
  <2>2. c.kind = "end" => c.of = f.kind /\ f.left = 0
    BY <1>1, <1>2 DEF Legal
  <2>3. c.kind = "key" => f.kind = "object"
    BY <1>1, <1>2 DEF Legal
  <2>4. c.kind \notin {"key", "end"} => f.left > 0
    BY <1>1, <1>2 DEF Legal
  <2>5. QED BY <1>2, <2>1, <2>2, <2>3, <2>4
<1>5. ~(R!InCompactSeq /\ R!Here.left = 0)
  BY <1>3, <1>4
<1>6. QED BY <1>5, BodyStep

(* A key is due only for a key, and a text makes one.                      *)
LEMMA KeyIsText ==
  ASSUME NEW at, NEW sh, NEW s, NEW n, InBody(at, sh, s, n)
  PROVE  /\ wrote[n].kind \notin {"key", "end"} => ~R!KeyIsDue /\ Last1(sh[n - 1]).left > 0
         /\ wrote[n].kind = "key" => Last1(sh[n - 1]).kind = "object" /\ Last1(sh[n - 1]).left = 0
         /\ wrote[n].kind = "end" => wrote[n].of = Last1(sh[n - 1]).kind /\ Last1(sh[n - 1]).left = 0
         /\ \A x : R!MakesKey(R!Text(x))
<1>1. PICK f, c : f = Last1(sh[n - 1]) /\ c = wrote[n]
  OBVIOUS
<1>2. Legal(n, sh[n - 1], c) /\ sh[n - 1] # <<>>
  BY <1>1, InBodyFacts
<1>3. /\ c.kind = "end" => c.of = f.kind /\ f.left = 0
      /\ c.kind = "key" => f.kind = "object" /\ f.left = 0
      /\ c.kind \notin {"key", "end"} => f.left > 0
  BY <1>1, <1>2 DEF Legal
<1>4. f.left > 0 => ~R!KeyIsDue
  <2>1. /\ f.kind = "array" => ~R!KeyIsDue
        /\ f.kind = "object" => (R!KeyIsDue <=> f.left = 0)
        /\ f.kind \in {"array", "object"} /\ f.left \in Nat
    BY <1>1, HereIs
  <2>2. QED BY <2>1
<1>5. \A x : R!MakesKey(R!Text(x))
  BY DEF R!MakesKey, R!Text
<1>6. QED BY <1>1, <1>3, <1>4, <1>5

(* Part n lies whole in front of the reader.                               *)
AtPart(at, sh, s, n) ==
  InBody(at, sh, s, n) /\ Weight(wrote[n]) > 0 /\ pos + Weight(wrote[n]) <= s + 1

LEMMA AtPartHere ==
  ASSUME NEW at, NEW sh, NEW s, NEW n, AtPart(at, sh, s, n)
  PROVE  InBody(at, sh, s, n) /\ Weight(wrote[n]) > 0 /\ pos <= s /\ at[n] <= s + 1
<1>1. InBody(at, sh, s, n) /\ Weight(wrote[n]) > 0 /\ pos + Weight(wrote[n]) <= s + 1
  BY DEF AtPart
<1>2. PICK w : w = Weight(wrote[n])
  OBVIOUS
<1>3. w \in {0, 1, 3}
  BY <1>2, WeightIs
<1>4. pos \in Nat /\ s \in Nat /\ at[n] = pos + w
  BY <1>1, <1>2, InBodyFacts
<1>5. QED BY <1>1, <1>2, <1>3, <1>4

(* A value given to a visitor that takes it.                               *)
LEMMA GivenIsTaken ==
  ASSUME NEW at, NEW sh, NEW s, NEW n, AtPart(at, sh, s, n), wrote[n].kind \notin {"array", "object", "end"},
         R!KeyIsDue => R!MakesKey(Canon(wrote[n])), NEW p, p = at[n], R!GiveTo(Canon(wrote[n]), p),
         Knowing(bytes, compact_latin1', compact_utf32', p)
  PROVE  Took(at, sh, n)
<1>1. InBody(at, sh, s, n) /\ pos <= s
  BY AtPartHere
<1>2. PICK c, q : c = wrote[n] /\ q = sh[n - 1]
  OBVIOUS
<1>3. seen' = Append(seen, Canon(wrote[n])) /\ pos' = at[n] /\ frames' = R!Counted /\ phase' = "body"
  <2>1. phase = "body"
    BY <1>1, InBodyFacts
  <2>2. QED BY <2>1 DEF R!GiveTo
<1>4. R!Counted = Frames(words, sh[n])
  <2>1. sh[n] = Grown(q, c, bytes[pos])
    BY <1>1, <1>2, InBodyFacts
  <2>2. CASE c.kind = "key"
    <3>1. PICK x : x = bytes[pos]
      OBVIOUS
    <3>2. sh[n] = Keyed(q, x.at + Size(x.tok) - 4)
      BY <2>1, <2>2, <3>1, GrownIs
    <3>3. x.at + Size(x.tok) - 4 \in Nat
      <4>1. x.at \in Nat /\ x.tok \in CToken /\ Fills(c, x.tok, 0)
        BY <1>1, <1>2, <3>1, AtPartHere, TokHere
      <4>2. x.tok.tag \in {DefTag(Wide(c.str), TRUE), RefTag(Wide(c.str), TRUE)}
        BY <2>2, <4>1, FillsIs
      <4>3. x.tok.tag \in PairedTags
        BY <4>2 DEF DefTag, RefTag, PairedTags
      <4>4. Size(x.tok) \in Nat /\ Size(x.tok) >= 9
        BY <4>1, <4>3, PairedSize
      <4>5. QED BY <4>1, <4>4
    <3>4. Last1(q).kind = "object" /\ Last1(q).left = 0
      BY <1>1, <1>2, <2>2, KeyIsText
    <3>5. QED BY <1>1, <1>2, <3>2, <3>3, <3>4, CountedIs
  <2>3. CASE c.kind # "key"
    <3>1. sh[n] = Ticked(q)
      BY <1>2, <2>1, <2>3, GrownIs
    <3>2. Last1(q).left > 0
      BY <1>1, <1>2, <2>3, KeyIsText
    <3>3. QED BY <1>1, <1>2, <3>1, <3>2, CountedIs
  <2>4. QED BY <2>2, <2>3
<1>5. R!Counted # <<>>
  <2>1. PICK f : f = Last1(sh[n - 1])
    OBVIOUS
  <2>2. Len(frames) \in Nat \ {0}
    BY <1>1, <2>1, HereIs
  <2>3. frames = Frames(words, q)
    BY <1>1, <1>2, InBodyFacts
  <2>4. PICK m : m = Len(q)
    OBVIOUS
  <2>5. Len(q) \in Nat
    BY <1>1, <1>2, InBodyFacts
  <2>6. DOMAIN frames = 1 .. m /\ Len(frames) = m
    BY <2>3, <2>4, <2>5 DEF Frames
  <2>7. DOMAIN R!Counted = DOMAIN frames
    BY DEF R!Counted
  <2>8. DOMAIN R!Counted # {}
    BY <2>2, <2>6, <2>7
  <2>9. DOMAIN <<>> = {}
    OBVIOUS
  <2>10. QED BY <2>8, <2>9
<1>6. QED BY <1>3, <1>4, <1>5 DEF Took

(* A part of one token that is no definition leaves the tables.            *)
LEMMA KnowingSkip ==
  ASSUME NEW at, NEW sh, NEW s, NEW n, AtPart(at, sh, s, n), Weight(wrote[n]) = 1,
         bytes[pos].tok.tag \notin CompactDefs, compact_latin1' = compact_latin1, compact_utf32' = compact_utf32
  PROVE  at[n] = pos + 1 /\ Knowing(bytes, compact_latin1', compact_utf32', at[n])
<1>1. InBody(at, sh, s, n)
  BY AtPartHere
<1>2. PICK p : p = pos
  OBVIOUS
<1>3. p \in Nat /\ at[n] = p + 1 /\ Knowing(bytes, compact_latin1, compact_utf32, p)
  BY <1>1, <1>2, InBodyFacts
<1>4. \A j \in 1 .. p - 1 : Knows1(compact_latin1, compact_utf32, bytes[j])
  BY <1>3 DEF Knowing
<1>5. Knows1(compact_latin1, compact_utf32, bytes[p])
  BY <1>2 DEF Knows1, CompactDefs
<1>6. (p + 1) - 1 = p /\ \A j \in 1 .. p : j = p \/ j \in 1 .. p - 1
  BY <1>3
<1>7. Knowing(bytes, compact_latin1, compact_utf32, p + 1)
  BY <1>4, <1>5, <1>6 DEF Knowing
<1>8. QED BY <1>2, <1>3, <1>7

LEMMA Visited ==
  ASSUME NEW at, NEW sh, NEW s, NEW n, AtPart(at, sh, s, n), R!DNext, NEW t, t = bytes[pos].tok.tag, t # "ObjectEnd"
  PROVE  R!Due /\ Visit(t) /\ R!Tag = t
<1>1. InBody(at, sh, s, n) /\ Weight(wrote[n]) > 0 /\ pos <= s
  BY AtPartHere
<1>2. R!Tag = t
  BY <1>1, TokHere
<1>3. \/ R!end_of_map /\ R!KeyIsDue /\ R!Tag = "ObjectEnd"
      \/ R!Due /\ Visit(R!Tag)
  BY <1>1, PartVisited
<1>4. QED BY <1>2, <1>3

LEMMA ScalarHere ==
  ASSUME NEW at, NEW sh, NEW s, NEW n, AtPart(at, sh, s, n), NEW v, v = wrote[n],
         v.kind \in {"null", "bool", "int", "float", "rtid"}
  PROVE  /\ v \in Scalars /\ bytes[pos].tok = ScalarToken(v) /\ bytes[pos].tok \in CToken /\ Weight(wrote[n]) = 1
         /\ bytes[pos].tok.tag # "CompactArrayBegin" => R!Tok(pos) = ScalarToken(v)
         /\ ~R!KeyIsDue
<1>1. InBody(at, sh, s, n) /\ Weight(wrote[n]) > 0 /\ pos <= s
  BY AtPartHere
<1>2. /\ Fills(v, bytes[pos].tok, 0) /\ bytes[pos] \in Item /\ R!Tok(pos) = TokenIn(bytes[pos])
      /\ bytes[pos].tok \in CToken
  BY <1>1, TokHere
<1>3. bytes[pos].tok = ScalarToken(v)
  BY <1>2, FillsIs
<1>4. v \in Scalars
  <2>1. v \in Part
    BY <1>1, InBodyFacts
  <2>2. QED BY <2>1 DEF Part
<1>5. Weight(wrote[n]) = 1
  BY WeightIs
<1>6. bytes[pos].tok.tag # "CompactArrayBegin" => R!Tok(pos) = bytes[pos].tok
  <2>1. PICK x, u : x = bytes[pos] /\ u = R!Tok(pos)
    OBVIOUS
  <2>2. x \in Item /\ u = TokenIn(x)
    BY <1>2, <2>1
  <2>3. u.tag = x.tok.tag /\ (u.tag # "CompactArrayBegin" => u = x.tok)
    BY <2>2, TokenInIs
  <2>4. QED BY <2>1, <2>3
<1>7. ~R!KeyIsDue
  BY <1>1, KeyIsText
<1>8. QED BY <1>2, <1>3, <1>4, <1>5, <1>6, <1>7

(* One token given for a part that is no key.                              *)
LEMMA OneTaken ==
  ASSUME NEW at, NEW sh, NEW s, NEW n, AtPart(at, sh, s, n), Weight(wrote[n]) = 1, ~R!KeyIsDue,
         wrote[n].kind \notin {"array", "object", "end"}, bytes[pos].tok.tag \notin CompactDefs,
         R!Give(Canon(wrote[n]), 1), UNCHANGED R!Strings4
  PROVE  Took(at, sh, n)
<1>1. compact_latin1' = compact_latin1 /\ compact_utf32' = compact_utf32
  BY DEF R!Strings4, R!Compact2
<1>2. at[n] = pos + 1 /\ Knowing(bytes, compact_latin1', compact_utf32', at[n])
  BY <1>1, KnowingSkip
<1>3. R!GiveTo(Canon(wrote[n]), at[n])
  BY <1>2 DEF R!Give
<1>4. PICK p : p = at[n]
  OBVIOUS
<1>5. QED BY <1>2, <1>3, <1>4, GivenIsTaken

LEMMA CanonIs ==
  ASSUME NEW v
  PROVE  /\ v.kind \in {"string", "key"} => Canon(v) = R!Text(IF v.str \in Latin1 THEN v.str ELSE CutAtNul(v.str))
         /\ v.kind = "null" => Canon(v) = R!Text(R!NullText)
         /\ v.kind = "rtid" => Canon(v) = R!Text(R!Display(v.rtid))
         /\ v.kind = "bool" => Canon(v) = [visit |-> "bool", bool |-> v.bool]
         /\ v.kind = "int" => Canon(v) = [visit |-> "int", int |-> v.int]
         /\ v.kind = "float" => Canon(v) = [visit |-> "float", ty |-> v.ty, val |-> v.val]
         /\ v.kind = "binary" => Canon(v) = [visit |-> "bytes", bytes |-> v.bytes]
         /\ v.kind = "array" => Canon(v) = [visit |-> "seq"]
         /\ v.kind = "object" => Canon(v) = [visit |-> "map"]
         /\ v.kind = "end" => Canon(v) = [visit |-> IF v.of = "object" THEN "end_map" ELSE "end_seq"]
BY DEF Canon

LEMMA ReadBool ==
  ASSUME NEW at, NEW sh, NEW s, NEW n, AtPart(at, sh, s, n), wrote[n].kind = "bool", R!DNext
  PROVE  Took(at, sh, n)
<1>1. PICK v : v = wrote[n]
  OBVIOUS
<1>2. v \in Scalars /\ bytes[pos].tok = ScalarToken(v) /\ Weight(wrote[n]) = 1 /\ ~R!KeyIsDue
  BY <1>1, ScalarHere
<1>3. v.bool \in BOOLEAN /\ ScalarToken(v) = [tag |-> "CompactBoolean", byte |-> IF v.bool THEN 1 ELSE 0]
  BY <1>1, <1>2, ScalarIs
<1>4. bytes[pos].tok.tag = "CompactBoolean" /\ bytes[pos].tok.byte = IF v.bool THEN 1 ELSE 0
  BY <1>2, <1>3
<1>5. R!Tok(pos).byte = IF v.bool THEN 1 ELSE 0
  <2>1. R!Tok(pos) = ScalarToken(v)
    BY <1>1, <1>4, ScalarHere
  <2>2. QED BY <1>3, <2>1
<1>6. Visit("CompactBoolean")
  BY <1>4, Visited
<1>7. R!visit_compact_bool
  BY <1>6, SameTags DEF Visit, R!Scalars, IntTags, CompactDefs, CompactRefs, Latin1Defs, Latin1Refs, Utf32Defs, Utf32Refs,
     Loose, R!NoValue
<1>8. Canon(v) = [visit |-> "bool", bool |-> R!Tok(pos).byte # 0]
  <2>1. (R!Tok(pos).byte # 0) = v.bool
    BY <1>3, <1>5
  <2>2. QED BY <1>1, <2>1, CanonIs
<1>9. R!Give(Canon(v), 1) /\ UNCHANGED R!Strings4
  BY <1>7, <1>8 DEF R!visit_compact_bool
<1>10. bytes[pos].tok.tag \notin CompactDefs
  BY <1>4 DEF CompactDefs, Latin1Defs, Utf32Defs
<1>11. QED BY <1>1, <1>2, <1>9, <1>10, OneTaken

LEMMA ReadInt ==
  ASSUME NEW at, NEW sh, NEW s, NEW n, AtPart(at, sh, s, n), wrote[n].kind = "int", R!DNext
  PROVE  Took(at, sh, n)
<1>1. PICK v : v = wrote[n]
  OBVIOUS
<1>2. v \in Scalars /\ bytes[pos].tok = ScalarToken(v) /\ Weight(wrote[n]) = 1 /\ ~R!KeyIsDue
  BY <1>1, ScalarHere
<1>3. v.int \in RustInt /\ ScalarToken(v) = FixedInt(v.int) /\ ScalarToken(v).tag \in FixedTags
  BY <1>1, <1>2, ScalarIs
<1>4. bytes[pos].tok.tag \in FixedTags
  BY <1>2, <1>3
<1>5. R!Tok(pos) = FixedInt(v.int)
  <2>1. bytes[pos].tok.tag # "CompactArrayBegin"
    BY <1>4 DEF FixedTags
  <2>2. QED BY <1>1, <1>3, <2>1, ScalarHere
<1>6. R!visit_int
  <2>1. PICK t : t = bytes[pos].tok.tag
    OBVIOUS
  <2>2. t # "ObjectEnd" /\ t \in FixedTags
    BY <1>4, <2>1 DEF FixedTags
  <2>3. Visit(t)
    BY <2>1, <2>2, Visited
  <2>4. t \in {"I8", "I16", "I32", "I64", "U8", "U16", "U32", "U64"}
    BY <2>2 DEF FixedTags
  <2>5. QED BY <2>3, <2>4, SameTags DEF Visit, R!Scalars, CompactDefs, CompactRefs, Latin1Defs, Latin1Refs, Utf32Defs,
            Utf32Refs, Loose, R!NoValue
<1>7. R!DecodeInt(FixedInt(v.int)) = v.int
  <2>1. PICK i : i = v.int
    OBVIOUS
  <2>2. i.ty \in Signed \cup Unsigned /\ i = [ty |-> i.ty, neg |-> i.neg, bits |-> i.bits]
    BY <1>3, <2>1, IntTyped
  <2>3. FixedInt(i) = [tag |-> FixedTag(i.ty), bits |-> i.bits, odd |-> i.neg]
    BY DEF FixedInt
  <2>4. PICK t : t = FixedInt(i)
    OBVIOUS
  <2>5. t.tag = FixedTag(i.ty) /\ t.bits = i.bits /\ t.odd = i.neg
    BY <2>3, <2>4
  <2>6. R!DecodeInt(t) = [ty |-> i.ty, neg |-> t.odd, bits |-> t.bits]
    BY <2>2, <2>5 DEF FixedTag, R!DecodeInt, Signed, Unsigned
  <2>7. QED BY <2>1, <2>2, <2>4, <2>5, <2>6
<1>8. Canon(v) = [visit |-> "int", int |-> R!DecodeInt(R!Tok(pos))]
  BY <1>1, <1>5, <1>7, CanonIs
<1>9. R!Give(Canon(v), 1) /\ UNCHANGED R!Strings4
  BY <1>6, <1>8 DEF R!visit_int
<1>10. bytes[pos].tok.tag \notin CompactDefs
  BY <1>4 DEF CompactDefs, Latin1Defs, Utf32Defs, FixedTags
<1>11. QED BY <1>1, <1>2, <1>9, <1>10, OneTaken

LEMMA ReadFloat ==
  ASSUME NEW at, NEW sh, NEW s, NEW n, AtPart(at, sh, s, n), wrote[n].kind = "float", R!DNext
  PROVE  Took(at, sh, n)
<1>1. PICK v : v = wrote[n]
  OBVIOUS
<1>2. v \in Scalars /\ bytes[pos].tok = ScalarToken(v) /\ Weight(wrote[n]) = 1 /\ ~R!KeyIsDue
  BY <1>1, ScalarHere
<1>3. v.ty \in {"f32", "f64"} /\ ScalarToken(v) = [tag |-> IF v.ty = "f32" THEN "F32" ELSE "F64", val |-> v.val]
  BY <1>1, <1>2, ScalarIs
<1>4. bytes[pos].tok.tag = (IF v.ty = "f32" THEN "F32" ELSE "F64")
  BY <1>2, <1>3
<1>5. R!Tok(pos).val = v.val
  <2>1. bytes[pos].tok.tag # "CompactArrayBegin"
    BY <1>3, <1>4
  <2>2. R!Tok(pos) = ScalarToken(v)
    BY <1>1, <2>1, ScalarHere
  <2>3. QED BY <1>3, <2>2
<1>6. R!visit_float /\ R!Tag = bytes[pos].tok.tag
  <2>1. PICK t : t = bytes[pos].tok.tag
    OBVIOUS
  <2>2. t \in {"F32", "F64"}
    BY <1>3, <1>4, <2>1
  <2>3. Visit(t) /\ R!Tag = t
    BY <2>1, <2>2, Visited
  <2>4. QED BY <2>1, <2>2, <2>3, SameTags DEF Visit, R!Scalars, IntTags, CompactDefs, CompactRefs, Latin1Defs, Latin1Refs,
            Utf32Defs, Utf32Refs, Loose, R!NoValue
<1>7. (IF R!Tag = "F32" THEN "f32" ELSE "f64") = v.ty
  BY <1>3, <1>4, <1>6
<1>8. Canon(v) = [visit |-> "float", ty |-> IF R!Tag = "F32" THEN "f32" ELSE "f64", val |-> R!Tok(pos).val]
  <2>1. Canon(v) = [visit |-> "float", ty |-> v.ty, val |-> v.val]
    BY <1>1, CanonIs
  <2>2. QED BY <1>5, <1>7, <2>1
<1>9. R!Give(Canon(v), 1) /\ UNCHANGED R!Strings4
  BY <1>6, <1>8 DEF R!visit_float
<1>10. bytes[pos].tok.tag \notin CompactDefs
  BY <1>3, <1>4 DEF CompactDefs, Latin1Defs, Utf32Defs
<1>11. QED BY <1>1, <1>2, <1>9, <1>10, OneTaken

(* Deserializer::read_rtid_string spells what Display spells.              *)
LEMMA RtidSpelt ==
  ASSUME NEW r \in RtidOver(Strings) \cup {Null}, NEW t, t = RtidToken(r)
  PROVE  /\ t.tag = "CompactRtid" /\ t.sub \in 0 .. 3
         /\ (IF t.sub = 0 THEN R!NullText ELSE R!read_rtid_string(t.sub, t.names, t.nums)) = R!Display(r)
<1> DEFINE dotted == <<R!HexText[r.id], ".", R!HexText[r.group], ".", R!ObjText[r.obj], "@">>
<1>0. \A a, b, c : /\ CompactRtid(a, b, c).tag = "CompactRtid" /\ CompactRtid(a, b, c).sub = a
                   /\ CompactRtid(a, b, c).names = b /\ CompactRtid(a, b, c).nums = c
  BY DEF CompactRtid
<1>1. CASE r.kind = "null"
  <2>1. t = CompactRtid(0, <<>>, <<>>)
    BY <1>1 DEF RtidToken
  <2>2. R!Display(r) = R!NullText
    BY <1>1 DEF R!Display
  <2>3. QED BY <1>0, <2>1, <2>2
<1>2. CASE r.kind = "raw"
  <2>1. t = CompactRtid(3, <<r.name, r.parent>>, <<>>)
    BY <1>2 DEF RtidToken
  <2>2. R!Display(r) = R!Wrap(r.name \o <<"@">> \o r.parent)
    BY <1>2 DEF R!Display
  <2>3. R!read_rtid_string(3, <<r.name, r.parent>>, <<>>) = R!Wrap(r.name \o <<"@">> \o r.parent)
    BY DEF R!read_rtid_string
  <2>4. t.tag = "CompactRtid" /\ t.sub = 3 /\ t.names = <<r.name, r.parent>> /\ t.nums = <<>>
    BY <1>0, <2>1
  <2>5. QED BY <2>2, <2>3, <2>4
<1>3. CASE r.kind = "uid" /\ r.name = None
  <2>1. t = CompactRtid(1, <<>>, <<r.group, r.id, r.obj>>)
    BY <1>3 DEF RtidToken
  <2>2. R!Display(r) = R!Wrap(dotted \o <<>>)
    BY <1>3 DEF R!Display, R!NameOr, R!None, None
  <2>3. R!read_rtid_string(1, <<>>, <<r.group, r.id, r.obj>>) = R!Wrap(dotted \o <<>>)
    BY DEF R!read_rtid_string
  <2>4. t.tag = "CompactRtid" /\ t.sub = 1 /\ t.names = <<>> /\ t.nums = <<r.group, r.id, r.obj>>
    BY <1>0, <2>1
  <2>5. QED BY <2>2, <2>3, <2>4
<1>4. CASE r.kind = "uid" /\ r.name # None
  <2>0. PICK x : r.name = {x}
    BY <1>4 DEF RtidOver, Some, Null
  <2>1. t = CompactRtid(2, <<Unwrap(r.name)>>, <<r.group, r.id, r.obj>>)
    BY <1>4 DEF RtidToken
  <2>2. Unwrap(r.name) = x
    BY <2>0 DEF Unwrap
  <2>3. R!NameOr(r.name) = x
    <3>1. R!Unwrap({x}) = x
      BY DEF R!Unwrap
    <3>2. {x} # R!None
      BY DEF R!None
    <3>3. QED BY <2>0, <3>1, <3>2 DEF R!NameOr
  <2>4. R!Display(r) = R!Wrap(dotted \o x)
    BY <1>4, <2>3 DEF R!Display
  <2>5. R!read_rtid_string(2, <<x>>, <<r.group, r.id, r.obj>>) = R!Wrap(dotted \o x)
    BY DEF R!read_rtid_string
  <2>6. t.tag = "CompactRtid" /\ t.sub = 2 /\ t.names = <<x>> /\ t.nums = <<r.group, r.id, r.obj>>
    BY <1>0, <2>1, <2>2
  <2>7. QED BY <2>4, <2>5, <2>6
<1>5. r.kind \in {"null", "raw", "uid"}
  BY DEF RtidOver, Null
<1>6. QED BY <1>1, <1>2, <1>3, <1>4, <1>5

(* A null, too, is an RTID here.                                           *)
LEMMA ReadRtid ==
  ASSUME NEW at, NEW sh, NEW s, NEW n, AtPart(at, sh, s, n), wrote[n].kind \in {"null", "rtid"}, R!DNext
  PROVE  Took(at, sh, n)
<1>1. PICK v : v = wrote[n]
  OBVIOUS
<1>2. v \in Scalars /\ bytes[pos].tok = ScalarToken(v) /\ Weight(wrote[n]) = 1 /\ ~R!KeyIsDue
  BY <1>1, ScalarHere
<1>3. PICK t : t = ScalarToken(v)
  OBVIOUS
<1>4. /\ t.tag = "CompactRtid" /\ t.sub \in 0 .. 3
      /\ Canon(v) = R!Text(IF t.sub = 0 THEN R!NullText ELSE R!read_rtid_string(t.sub, t.names, t.nums))
  <2>1. CASE v.kind = "null"
    <3>1. t = CompactRtid(0, <<>>, <<>>)
      BY <1>2, <1>3, <2>1, ScalarIs
    <3>2. t.tag = "CompactRtid" /\ t.sub = 0
      BY <3>1 DEF CompactRtid
    <3>3. Canon(v) = R!Text(R!NullText)
      BY <2>1, CanonIs
    <3>4. QED BY <3>2, <3>3
  <2>2. CASE v.kind = "rtid"
    <3>1. PICK r : r = v.rtid
      OBVIOUS
    <3>2. r \in RtidOver(Strings) \cup {Null} /\ t = RtidToken(r)
      BY <1>2, <1>3, <2>2, <3>1, ScalarIs
    <3>3. /\ t.tag = "CompactRtid" /\ t.sub \in 0 .. 3
          /\ (IF t.sub = 0 THEN R!NullText ELSE R!read_rtid_string(t.sub, t.names, t.nums)) = R!Display(r)
      BY <3>2, RtidSpelt
    <3>4. Canon(v) = R!Text(R!Display(r))
      BY <2>2, <3>1, CanonIs
    <3>5. QED BY <3>3, <3>4
  <2>3. QED BY <1>1, <2>1, <2>2
<1>5. R!Tok(pos) = t
  BY <1>1, <1>2, <1>3, <1>4, ScalarHere
<1>6. Visit("CompactRtid")
  BY <1>2, <1>3, <1>4, Visited
<1>7. R!visit_compact_rtid
  BY <1>6, SameTags DEF Visit, R!Scalars, IntTags, CompactDefs, CompactRefs, Latin1Defs, Latin1Refs, Utf32Defs, Utf32Refs,
     Loose, R!NoValue
<1>8. R!Give(Canon(v), 1) /\ UNCHANGED R!Strings4
  <2>1. ~(t.sub > 3)
    BY <1>4
  <2>2. QED BY <1>4, <1>5, <1>7, <2>1 DEF R!visit_compact_rtid
<1>9. bytes[pos].tok.tag \notin CompactDefs
  BY <1>2, <1>3, <1>4 DEF CompactDefs, Latin1Defs, Utf32Defs
<1>10. QED BY <1>1, <1>2, <1>8, <1>9, OneTaken

(* A payload is the text it was made of: in Latin-1 all of it, in UTF-32   *)
(* up to the first NUL.                                                    *)
LEMMA TextSeq ==
  ASSUME NEW x \in Texts
  PROVE  \E S : x \in Seq(S)
<1>1. CASE x \in Strings
  BY <1>1, CStringsAssumption DEF CStringsAssumption
<1>2. ASSUME NEW b \in Blobs, x = HexStr(b) PROVE \E S : x \in Seq(S)
  BY <1>2, HexProps, CBlobsAssumption DEF CBlobsAssumption
<1>3. QED BY <1>1, <1>2 DEF Texts

LEMMA FirstNul ==
  ASSUME NEW S, NEW x \in Seq(S), NEW m \in 1 .. Len(x), x[m] = "NUL", \A i \in 1 .. m - 1 : x[i] # "NUL"
  PROVE  /\ CutAtNul(x) = SubSeq(x, 1, m - 1) /\ R!CutAtNul(x) = SubSeq(x, 1, m - 1)
<1>1. Len(x) \in Nat /\ m \in Nat
  OBVIOUS
<1> DEFINE I == {i \in 1 .. Len(x) : x[i] = "NUL"}
<1>2. m \in I /\ \A i \in I : m <= i
  <2>1. ASSUME NEW i \in I PROVE m <= i
    <3>1. i \notin 1 .. m - 1
      BY <1>1
    <3>2. QED BY <1>1, <3>1
  <2>2. QED BY <2>1
<1>3. I # {}
  BY <1>2
<1>4. \A j \in I : (\A y \in I : j <= y) => j = m
  <2>1. I \subseteq Nat
    BY <1>1
  <2> HIDE DEF I
  <2>2. QED BY <1>2, <2>1
<1>5. Min(I) = m /\ R!Min(I) = m
  <2> HIDE DEF I
  <2>1. QED BY <1>2, <1>4 DEF Min, R!Min
<1>6. SelectInSeq(x, LAMBDA c : c = "NUL") = m /\ R!SelectInSeq(x, LAMBDA c : c = "NUL") = m
  BY <1>3, <1>5 DEF SelectInSeq, R!SelectInSeq
<1>7. Contains(x, "NUL") /\ R!Contains(x, "NUL")
  BY <1>2 DEF Contains, R!Contains
<1>8. QED BY <1>6, <1>7 DEF CutAtNul, R!CutAtNul

LEMMA NulText ==
  ASSUME NEW x \in Texts
  PROVE  R!WithoutNul(Append(x, "NUL")) = x /\ R!CutAtNul(Append(x, "NUL")) = CutAtNul(x)
<1>1. PICK S : x \in Seq(S)
  BY TextSeq
<1>2. PICK l, z : l = Len(x) /\ z = Append(x, "NUL")
  OBVIOUS
<1>3. /\ l \in Nat /\ z \in Seq(S \cup {"NUL"}) /\ Len(z) = l + 1 /\ z # <<>> /\ z[l + 1] = "NUL"
      /\ \A i \in 1 .. l : z[i] = x[i]
  BY <1>1, <1>2
<1>4. \A m \in 1 .. l + 1 : SubSeq(z, 1, m - 1) = SubSeq(x, 1, m - 1)
  <2>1. ASSUME NEW m \in 1 .. l + 1 PROVE SubSeq(z, 1, m - 1) = SubSeq(x, 1, m - 1)
    <3>1. PICK k \in Nat : k = m - 1 /\ k <= l
      BY <1>3
    <3>2. SubSeq(z, 1, k) = [i \in 1 .. k |-> z[i]] /\ SubSeq(x, 1, k) = [i \in 1 .. k |-> x[i]]
      BY <1>1, <1>2, <1>3, <3>1
    <3>3. \A i \in 1 .. k : z[i] = x[i]
      BY <1>3, <3>1
    <3>4. QED BY <3>1, <3>2, <3>3
  <2>2. QED BY <2>1
<1>5. SubSeq(x, 1, l) = x
  BY <1>1, <1>2
<1>6. R!WithoutNul(z) = x
  <2>1. l + 1 \in 1 .. l + 1 /\ (l + 1) - 1 = l
    BY <1>3
  <2>2. SubSeq(z, 1, (l + 1) - 1) = SubSeq(x, 1, (l + 1) - 1)
    BY <1>4, <2>1
  <2>3. QED BY <1>3, <1>5, <2>1, <2>2 DEF R!WithoutNul
<1>7. R!CutAtNul(z) = CutAtNul(x)
  <2>1. CASE \A i \in 1 .. l : x[i] # "NUL"
    <3>1. CutAtNul(x) = x
      BY <1>2, <2>1 DEF CutAtNul, Contains
    <3>2. l + 1 \in 1 .. Len(z) /\ (l + 1) - 1 = l /\ z[l + 1] = "NUL" /\ \A i \in 1 .. (l + 1) - 1 : z[i] # "NUL"
      BY <1>3, <2>1
    <3>3. R!CutAtNul(z) = SubSeq(z, 1, (l + 1) - 1)
      BY <1>3, <3>2, FirstNul
    <3>4. l + 1 \in 1 .. l + 1
      BY <1>3
    <3>5. QED BY <1>4, <1>5, <3>1, <3>2, <3>3, <3>4
  <2>2. CASE \E i \in 1 .. l : x[i] = "NUL"
    <3>1. PICK m \in 1 .. l : x[m] = "NUL" /\ \A i \in 1 .. m - 1 : x[i] # "NUL"
      <4> DEFINE N == {i \in Nat : i \in 1 .. l /\ x[i] = "NUL"}
      <4>1. N \subseteq Nat /\ N # {}
        BY <1>3, <2>2
      <4>2. PICK m \in N : \A i \in N : m <= i
        <5> HIDE DEF N
        <5>1. QED BY <4>1, LeastNumber
      <4>3. \A i \in 1 .. m - 1 : x[i] # "NUL"
        <5>1. SUFFICES ASSUME NEW i \in 1 .. m - 1, x[i] = "NUL" PROVE FALSE
          OBVIOUS
        <5>2. i \in N /\ i < m
          BY <1>3, <4>2, <5>1
        <5>3. QED BY <4>2, <5>2
      <4>4. QED BY <4>2, <4>3
    <3>2. m \in 1 .. Len(x) /\ m \in 1 .. Len(z) /\ m \in 1 .. l + 1 /\ z[m] = "NUL" /\ \A i \in 1 .. m - 1 : z[i] # "NUL"
      BY <1>2, <1>3, <3>1
    <3>3. CutAtNul(x) = SubSeq(x, 1, m - 1)
      BY <1>1, <3>1, <3>2, FirstNul
    <3>4. R!CutAtNul(z) = SubSeq(z, 1, m - 1)
      BY <1>3, <3>2, FirstNul
    <3>5. QED BY <1>4, <3>2, <3>3, <3>4
  <2>3. QED BY <2>1, <2>2
<1>8. QED BY <1>2, <1>6, <1>7

(* What the reader has to make of a text that was asked for.               *)
TextFor(narrow, a) == IF narrow THEN a ELSE CutAtNul(a)
LEMMA DefinedText ==
  ASSUME NEW t, t.tag \in CompactDefs, NEW a \in Texts, t.str = Append(a, "NUL")
  PROVE  R!PayloadText(t) = TextFor(t.tag \in Latin1Defs, a)
<1>1. R!WithoutNul(Append(a, "NUL")) = a /\ R!CutAtNul(Append(a, "NUL")) = CutAtNul(a)
  BY NulText
<1>2. QED BY <1>1, SameTags DEF R!PayloadText, TextFor

LEMMA KnowingPast ==
  ASSUME NEW p \in Nat, NEW l, NEW u, Knowing(bytes, l, u, p), bytes[p].tok.tag \notin CompactDefs
  PROVE  Knowing(bytes, l, u, p + 1)
<1>1. \A j \in 1 .. p - 1 : Knows1(l, u, bytes[j])
  BY DEF Knowing
<1>2. Knows1(l, u, bytes[p])
  BY DEF Knows1, CompactDefs
<1>3. (p + 1) - 1 = p /\ \A j \in 1 .. p : j = p \/ j \in 1 .. p - 1
  OBVIOUS
<1>4. QED BY <1>1, <1>2, <1>3 DEF Knowing

(* A definition enters its table, and hides no other.                      *)
LEMMA KnowingDefine ==
  ASSUME NEW at, NEW sh, NEW s, Lies(at, sh, s), NEW p \in 1 .. s,
         Knowing(bytes, compact_latin1, compact_utf32, p),
         NEW t, t = bytes[p].tok, t.tag \in CompactDefs, NEW o, o = bytes[p].at + 5, R!Define(t, o)
  PROVE  Knowing(bytes, compact_latin1', compact_utf32', p + 1)
<1>1. s \in Nat /\ p \in Nat /\ p <= s
  BY FileToks
<1>2. \A j \in 1 .. p - 1 : Knows1(compact_latin1, compact_utf32, bytes[j])
  BY DEF Knowing
<1>3. \A j \in 1 .. p - 1 : bytes[j].at + 5 # o
  <2>1. SUFFICES ASSUME NEW j \in 1 .. p - 1 PROVE bytes[j].at + 5 # o
    OBVIOUS
  <2>2. j \in 1 .. s + 1 /\ p \in 1 .. s + 1 /\ j < p /\ j \in 1 .. s
    BY <1>1
  <2>3. Start(j) < Start(p)
    BY <2>2, Further
  <2>4. Start(j) \in Nat /\ Start(p) \in Nat /\ Start(j) = bytes[j].at /\ Start(p) = bytes[p].at
    BY <2>2, Placing
  <2>5. QED BY <2>3, <2>4
<1>4. /\ compact_latin1' = IF t.tag \in Latin1Defs THEN R!Enter(compact_latin1, o, R!PayloadText(t)) ELSE compact_latin1
      /\ compact_utf32' = IF t.tag \in Utf32Defs THEN R!Enter(compact_utf32, o, R!PayloadText(t)) ELSE compact_utf32
  BY SameTags DEF R!Define
<1>5. \A f, x : /\ o \in DOMAIN R!Enter(f, o, x) /\ R!Enter(f, o, x)[o] = x
                /\ \A q \in DOMAIN f : q # o => q \in DOMAIN R!Enter(f, o, x) /\ R!Enter(f, o, x)[q] = f[q]
  BY DEF R!Enter
<1>6. ASSUME NEW j \in 1 .. p - 1 PROVE Knows1(compact_latin1', compact_utf32', bytes[j])
  <2>1. PICK x : x = bytes[j]
    OBVIOUS
  <2>2. Knows1(compact_latin1, compact_utf32, x) /\ x.at + 5 # o
    BY <1>2, <1>3, <2>1
  <2>3. \A f, y : HasText(f, x) => HasText(R!Enter(f, o, y), x)
    BY <1>5, <2>2 DEF HasText
  <2>4. HasText(compact_latin1, x) => HasText(compact_latin1', x)
    BY <1>4, <2>3
  <2>5. HasText(compact_utf32, x) => HasText(compact_utf32', x)
    BY <1>4, <2>3
  <2>6. QED BY <2>1, <2>2, <2>4, <2>5 DEF Knows1
<1>7. Knows1(compact_latin1', compact_utf32', bytes[p])
  <2>1. PICK x : x = bytes[p]
    OBVIOUS
  <2>2. \A f : HasText(R!Enter(f, o, R!PayloadText(t)), x)
    BY <1>5, <2>1 DEF HasText
  <2>3. QED BY <1>4, <2>1, <2>2 DEF Knows1
<1>8. (p + 1) - 1 = p /\ \A j \in 1 .. p : j = p \/ j \in 1 .. p - 1
  BY <1>1
<1>9. QED BY <1>6, <1>7, <1>8 DEF Knowing

(* The text of a token is the one that was asked for, be it defined or     *)
(* referred to.                                                            *)
LEMMA Resolves ==
  ASSUME NEW at, NEW sh, NEW s, Lies(at, sh, s), NEW p \in 1 .. s,
         Knowing(bytes, compact_latin1, compact_utf32, p),
         NEW t, t = bytes[p].tok, NEW a \in Texts, a = Asked(bytes[p])
  PROVE  /\ t.tag \in CompactDefs =>
              R!PayloadText(t) = TextFor(t.tag \in Latin1Defs, a) /\ ~R!Misfit(t, R!Position(p) + 5)
              /\ R!Position(p) = bytes[p].at
         /\ t.tag \in CompactRefs =>
              t.word \in DOMAIN R!TableOf(t) /\ R!TableOf(t)[t.word] = TextFor(t.tag \in Latin1Refs, a)
<1>1. /\ s \in Nat /\ s <= Len(bytes) /\ Len(bytes) \in Nat /\ p \in Nat /\ p \in 1 .. Len(bytes) /\ p \in 1 .. s + 1
      /\ DOMAIN bytes = 1 .. Len(bytes) /\ bytes[p] \in Item
  <2>1. TypeOK
    BY DEF Lies, Full
  <2>2. s \in Nat /\ s <= Len(bytes) /\ Len(bytes) \in Nat
    BY FileToks
  <2>3. p \in Nat /\ p \in 1 .. Len(bytes) /\ p \in 1 .. s + 1
    BY <2>2
  <2>4. QED BY <2>1, <2>2, <2>3, BytesTyped
<1>2. R!Position(p) = bytes[p].at
  BY <1>1, Placing
<1>3. /\ t.tag \in CompactDefs => Stands(bytes[p], a)
      /\ t.tag \in CompactRefs =>
           \E j \in 1 .. p - 1 : Stands(bytes[j], a) /\ bytes[j].tok.tag \in DefsOf(t.tag) /\ t.word = bytes[j].at + 5
  <2>1. OffsetsResolve
    BY DEF Lies, IInv, TablesOK
  <2>2. QED BY <1>1, <2>1, Zenon DEF OffsetsResolve
<1>4. ASSUME t.tag \in CompactDefs
      PROVE  R!PayloadText(t) = TextFor(t.tag \in Latin1Defs, a) /\ ~R!Misfit(t, R!Position(p) + 5)
  <2>1. t.str = Append(a, "NUL")
    BY <1>3, <1>4 DEF Stands
  <2>2. R!PayloadText(t) = TextFor(t.tag \in Latin1Defs, a)
    BY <1>4, <2>1, DefinedText
  <2>3. bytes[p].at + 5 < Word /\ bytes[p].at \in Nat
    <3>1. Lined
      BY DEF Lies, Full
    <3>2. QED BY <1>1, <1>4, <3>1 DEF Lined, Item
  <2>4. t.tag \in Utf32Defs => t.len % 4 = 0
    <3>1. Fits(t)
      BY <1>1 DEF Lies, AllFit
    <3>2. PICK l : l = Len(t.str)
      OBVIOUS
    <3>3. l \in Nat
      BY <2>1, <3>2, TextProps
    <3>4. t.tag \in Utf32Defs => t.len = 4 * l
      BY <3>1, <3>2 DEF Fits
    <3>5. (4 * l) % 4 = 0
      BY <3>3
    <3>6. QED BY <3>4, <3>5
  <2>5. QED BY <1>2, <2>2, <2>3, <2>4, SameTags, WordAssumption DEF R!Misfit, WordAssumption
<1>5. ASSUME t.tag \in CompactRefs
      PROVE  t.word \in DOMAIN R!TableOf(t) /\ R!TableOf(t)[t.word] = TextFor(t.tag \in Latin1Refs, a)
  <2>1. PICK j \in 1 .. p - 1 : Stands(bytes[j], a) /\ bytes[j].tok.tag \in DefsOf(t.tag) /\ t.word = bytes[j].at + 5
    BY <1>3, <1>5
  <2>2. PICK x : x = bytes[j]
    OBVIOUS
  <2>3. Knows1(compact_latin1, compact_utf32, x)
    BY <2>1, <2>2 DEF Knowing
  <2>4. R!PayloadText(x.tok) = TextFor(x.tok.tag \in Latin1Defs, a)
    BY <2>1, <2>2, DefinedText DEF Stands
  <2>5. CASE t.tag \in Latin1Refs
    <3>1. x.tok.tag \in Latin1Defs
      BY <2>1, <2>2, <2>5 DEF DefsOf
    <3>2. R!TableOf(t) = compact_latin1
      BY <2>5, SameTags DEF R!TableOf
    <3>3. HasText(compact_latin1, x)
      BY <2>3, <3>1 DEF Knows1
    <3>4. QED BY <2>1, <2>2, <2>4, <2>5, <3>1, <3>2, <3>3 DEF HasText
  <2>6. CASE t.tag \notin Latin1Refs
    <3>1. x.tok.tag \in Utf32Defs
      BY <2>1, <2>2, <2>6 DEF DefsOf
    <3>2. R!TableOf(t) = compact_utf32
      BY <2>6, SameTags DEF R!TableOf
    <3>3. HasText(compact_utf32, x)
      BY <2>3, <3>1 DEF Knows1
    <3>4. x.tok.tag \notin Latin1Defs
      BY <3>1 DEF Latin1Defs, Utf32Defs
    <3>5. QED BY <2>1, <2>2, <2>4, <2>6, <3>2, <3>3, <3>4 DEF HasText
  <2>7. QED BY <2>5, <2>6
<1>6. QED BY <1>2, <1>4, <1>5

LEMMA TextTags ==
  ASSUME NEW wide \in BOOLEAN, NEW paired \in BOOLEAN
  PROVE  /\ DefTag(wide, paired) \in CompactDefs /\ (DefTag(wide, paired) \in Latin1Defs <=> ~wide)
         /\ RefTag(wide, paired) \in CompactRefs /\ (RefTag(wide, paired) \in Latin1Refs <=> ~wide)
         /\ DefTag(wide, paired) \notin CompactRefs /\ RefTag(wide, paired) \notin CompactDefs
BY DEF DefTag, RefTag, CompactDefs, CompactRefs, Latin1Defs, Latin1Refs, Utf32Defs, Utf32Refs

LEMMA DefVisit ==
  ASSUME NEW tag \in CompactDefs, Visit(tag)
  PROVE  R!visit_compact_definition
BY SameTags DEF Visit, R!Scalars, IntTags, CompactDefs, CompactRefs, Latin1Defs, Latin1Refs, Utf32Defs, Utf32Refs, Loose,
   R!NoValue

LEMMA RefVisit ==
  ASSUME NEW tag \in CompactRefs, Visit(tag)
  PROVE  R!visit_compact_reference
BY SameTags DEF Visit, R!Scalars, IntTags, CompactDefs, CompactRefs, Latin1Defs, Latin1Refs, Utf32Defs, Utf32Refs, Loose,
   R!NoValue

(* A string, or a key.                                                     *)
LEMMA ReadText ==
  ASSUME NEW at, NEW sh, NEW s, NEW n, AtPart(at, sh, s, n), wrote[n].kind \in {"string", "key"}, R!DNext
  PROVE  Took(at, sh, n)
<1>1. PICK v, t, a : v = wrote[n] /\ t = bytes[pos].tok /\ a = wrote[n].str
  OBVIOUS
<1>2. InBody(at, sh, s, n) /\ Weight(wrote[n]) > 0 /\ pos <= s
  BY AtPartHere
<1>3. /\ bytes[pos] \in Item /\ R!Tok(pos) = TokenIn(bytes[pos]) /\ pos \in 1 .. s /\ pos \in Nat
      /\ Fills(v, t, 0) /\ bytes[pos].of = n /\ R!Position(pos) = bytes[pos].at
  <2>1. pos \in Nat
    BY <1>2, InBodyFacts
  <2>2. QED BY <1>1, <1>2, <2>1, TokHere
<1>4. PICK paired \in BOOLEAN : t.tag \in {DefTag(Wide(a), paired), RefTag(Wide(a), paired)}
  BY <1>1, <1>3, FillsIs
<1>5. Wide(a) \in BOOLEAN /\ (a \in Latin1 <=> ~Wide(a))
  BY DEF Wide
<1>6. a \in Texts /\ a = Asked(bytes[pos])
  <2>1. v \in Part
    BY <1>1, <1>2, InBodyFacts
  <2>2. a \in Strings
    BY <1>1, <2>1 DEF Part, Scalars
  <2>3. QED BY <1>1, <1>3, <2>2 DEF Texts, Asked
<1>7. Canon(v) = R!Text(TextFor(~Wide(a), a))
  BY <1>1, <1>5, CanonIs DEF TextFor
<1>8. /\ t.tag \in CompactDefs \cup CompactRefs /\ (t.tag \in CompactDefs => t.tag \notin CompactRefs)
      /\ (t.tag \in CompactDefs => (t.tag \in Latin1Defs <=> ~Wide(a)))
      /\ (t.tag \in CompactRefs => (t.tag \in Latin1Refs <=> ~Wide(a)))
  BY <1>4, <1>5, TextTags
<1>9. Lies(at, sh, s) /\ Knowing(bytes, compact_latin1, compact_utf32, pos)
  BY <1>2, InBodyFacts
<1>10. PICK p : p = pos
  OBVIOUS
<1>11. /\ t.tag \in CompactDefs =>
              R!PayloadText(t) = TextFor(t.tag \in Latin1Defs, a) /\ ~R!Misfit(t, R!Position(pos) + 5)
       /\ t.tag \in CompactRefs =>
              t.word \in DOMAIN R!TableOf(t) /\ R!TableOf(t)[t.word] = TextFor(t.tag \in Latin1Refs, a)
  <2>1. p \in 1 .. s /\ Knowing(bytes, compact_latin1, compact_utf32, p) /\ t = bytes[p].tok /\ a = Asked(bytes[p])
    BY <1>1, <1>3, <1>6, <1>9, <1>10
  <2>2. QED BY <1>6, <1>9, <1>10, <2>1, Resolves
<1>12. t.tag \notin {"ObjectEnd", "CompactArrayBegin"}
  BY <1>8 DEF CompactDefs, CompactRefs, Latin1Defs, Latin1Refs, Utf32Defs, Utf32Refs
<1>13. R!Tok(pos) = t /\ Visit(t.tag)
  <2>1. PICK x, u : x = bytes[pos] /\ u = R!Tok(pos)
    OBVIOUS
  <2>2. x \in Item /\ u = TokenIn(x) /\ x.tok = t
    BY <1>1, <1>3, <2>1
  <2>3. u.tag = x.tok.tag /\ (u.tag # "CompactArrayBegin" => u = x.tok)
    BY <2>2, TokenInIs
  <2>4. PICK g : g = t.tag
    OBVIOUS
  <2>5. Visit(g)
    BY <1>1, <1>12, <2>4, Visited
  <2>6. QED BY <1>12, <2>1, <2>2, <2>3, <2>4, <2>5
<1>14. Weight(wrote[n]) = 1 /\ at[n] = pos + 1
  <2>1. Weight(wrote[n]) = 1
    BY WeightIs
  <2>2. QED BY <1>2, <2>1, InBodyFacts
<1>15. R!KeyIsDue => R!MakesKey(Canon(wrote[n]))
  BY <1>1, <1>2, <1>7, KeyIsText
<1>16. CASE t.tag \in CompactDefs
  <2>1. R!visit_compact_definition
    BY <1>13, <1>16, DefVisit
  <2>2. R!Give(R!Text(R!PayloadText(t)), 1) /\ R!Define(t, R!Position(pos) + 5)
    BY <1>11, <1>13, <1>16, <2>1 DEF R!visit_compact_definition
  <2>3. R!GiveTo(Canon(wrote[n]), at[n])
    BY <1>1, <1>7, <1>8, <1>11, <1>14, <1>16, <2>2 DEF R!Give
  <2>4. Knowing(bytes, compact_latin1', compact_utf32', pos + 1)
    <3>1. PICK o : o = R!Position(pos) + 5
      OBVIOUS
    <3>2. R!Define(t, o) /\ o = bytes[p].at + 5 /\ p \in 1 .. s /\ t = bytes[p].tok
      BY <1>1, <1>3, <1>10, <2>2, <3>1
    <3>3. Knowing(bytes, compact_latin1, compact_utf32, p)
      BY <1>9, <1>10
    <3>4. Knowing(bytes, compact_latin1', compact_utf32', p + 1)
      BY <1>9, <1>16, <3>2, <3>3, KnowingDefine
    <3>5. QED BY <1>10, <3>4
  <2>5. PICK q : q = at[n]
    OBVIOUS
  <2>6. QED BY <1>1, <1>14, <1>15, <2>3, <2>4, <2>5, GivenIsTaken
<1>17. CASE t.tag \in CompactRefs
  <2>1. R!visit_compact_reference
    BY <1>13, <1>17, RefVisit
  <2>2. R!Give(R!Text(R!TableOf(t)[t.word]), 1) /\ UNCHANGED R!Strings4
    BY <1>11, <1>13, <1>17, <2>1 DEF R!visit_compact_reference
  <2>3. R!GiveTo(Canon(wrote[n]), at[n])
    BY <1>1, <1>7, <1>8, <1>11, <1>14, <1>17, <2>2 DEF R!Give
  <2>4. Knowing(bytes, compact_latin1', compact_utf32', pos + 1)
    <3>1. compact_latin1' = compact_latin1 /\ compact_utf32' = compact_utf32
      BY <2>2 DEF R!Strings4, R!Compact2
    <3>2. p \in Nat /\ bytes[p].tok.tag \notin CompactDefs /\ Knowing(bytes, compact_latin1, compact_utf32, p)
      BY <1>1, <1>3, <1>8, <1>9, <1>10, <1>17
    <3>3. Knowing(bytes, compact_latin1, compact_utf32, p + 1)
      BY <3>2, KnowingPast
    <3>4. QED BY <1>10, <3>1, <3>3
  <2>5. PICK q : q = at[n]
    OBVIOUS
  <2>6. QED BY <1>1, <1>14, <1>15, <2>3, <2>4, <2>5, GivenIsTaken
<1>18. QED BY <1>8, <1>16, <1>17

(* The frames as containers are opened and closed.                         *)
LEMMA FramesAppend ==
  ASSUME NEW q \in Seq(OpenFrame), NEW f \in OpenFrame
  PROVE  Frames(words, Append(q, f)) = Append(Frames(words, q), Opened(words, f))
<1>1. PICK m, r : m = Len(q) /\ r = Append(q, f)
  OBVIOUS
<1>2. m \in Nat /\ Len(r) = m + 1 /\ r[m + 1] = f /\ \A i \in 1 .. m : r[i] = q[i]
  BY <1>1
<1>3. PICK g : g = Frames(words, q)
  OBVIOUS
<1>4. g = [i \in 1 .. m |-> Opened(words, q[i])]
  BY <1>1, <1>3 DEF Frames
<1>5. Len(g) = m
  BY <1>2, <1>4
<1>6. Append(g, Opened(words, f)) = [i \in 1 .. m + 1 |-> IF i = m + 1 THEN Opened(words, f) ELSE g[i]]
  BY <1>2, <1>4, <1>5
<1>7. Frames(words, r) = [i \in 1 .. m + 1 |-> Opened(words, r[i])]
  BY <1>2 DEF Frames
<1>8. \A i \in 1 .. m + 1 : Opened(words, r[i]) = IF i = m + 1 THEN Opened(words, f) ELSE g[i]
  <2>1. SUFFICES ASSUME NEW i \in 1 .. m + 1 PROVE Opened(words, r[i]) = IF i = m + 1 THEN Opened(words, f) ELSE g[i]
    OBVIOUS
  <2>2. i = m + 1 \/ i \in 1 .. m
    BY <1>2
  <2>3. i \in 1 .. m => g[i] = Opened(words, q[i]) /\ r[i] = q[i] /\ i # m + 1
    BY <1>2, <1>4
  <2>4. QED BY <1>2, <2>2, <2>3
<1>9. QED BY <1>1, <1>3, <1>6, <1>7, <1>8

LEMMA FramesCut ==
  ASSUME NEW q \in Seq(OpenFrame), q # <<>>, NEW r, r = SubSeq(q, 1, Len(q) - 1), NEW g, g = Frames(words, q)
  PROVE  /\ SubSeq(g, 1, Len(g) - 1) = Frames(words, r)
         /\ Len(g) = 1 <=> Frames(words, r) = <<>>
<1>1. PICK m \in Nat : m = Len(q) - 1
  BY LastTyped
<1>2. Len(q) = m + 1 /\ (m + 1) - 1 = m
  BY <1>1
<1>3. r \in Seq(OpenFrame) /\ Len(r) = m /\ \A i \in 1 .. m : r[i] = q[i]
  <2>1. Len(q) - 1 = m
    BY <1>1
  <2>2. QED BY <2>1, CutProps
<1>4. g = [i \in 1 .. m + 1 |-> Opened(words, q[i])]
  BY <1>2 DEF Frames
<1>5. Len(g) = m + 1
  BY <1>4
<1>6. SubSeq(g, 1, m) = [i \in 1 .. m |-> g[i]]
  BY <1>1, <1>4, <1>5
<1>7. Frames(words, r) = [i \in 1 .. m |-> Opened(words, r[i])]
  BY <1>3 DEF Frames
<1>8. \A i \in 1 .. m : g[i] = Opened(words, r[i])
  BY <1>3, <1>4
<1>9. SubSeq(g, 1, m) = Frames(words, r)
  BY <1>6, <1>7, <1>8
<1>10. m = 0 <=> Frames(words, r) = <<>>
  <2>1. PICK h : h = Frames(words, r)
    OBVIOUS
  <2>2. DOMAIN h = 1 .. m
    BY <1>7, <2>1
  <2>3. m = 0 => h = <<>>
    BY <1>7, <2>1
  <2>4. DOMAIN <<>> = {}
    OBVIOUS
  <2>5. m # 0 => 1 \in 1 .. m
    OBVIOUS
  <2>6. QED BY <2>1, <2>2, <2>3, <2>4, <2>5
<1>11. QED BY <1>2, <1>5, <1>9, <1>10

(* A container entered.                                                    *)
LEMMA EnteredIsTaken ==
  ASSUME NEW at, NEW sh, NEW s, NEW n, AtPart(at, sh, s, n), Weight(wrote[n]) = 1,
         wrote[n].kind \in {"array", "object"}, bytes[pos].tok.tag \notin CompactDefs,
         NEW f \in OpenFrame, sh[n] = Append(Ticked(sh[n - 1]), f),
         frames' = Append(R!Counted, Opened(words, f)), pos' = pos + 1, phase' = "body",
         seen' = Append(seen, Canon(wrote[n])), UNCHANGED R!Strings4
  PROVE  Took(at, sh, n)
<1>1. InBody(at, sh, s, n)
  BY AtPartHere
<1>2. PICK q, r : q = sh[n - 1] /\ r = Ticked(sh[n - 1])
  OBVIOUS
<1>3. q \in Seq(OpenFrame) /\ q # <<>>
  BY <1>1, <1>2, InBodyFacts
<1>4. Last1(q).left > 0
  BY <1>1, <1>2, KeyIsText
<1>5. r \in Seq(OpenFrame)
  BY <1>2, <1>3, <1>4, TickedTyped
<1>6. R!Counted = Frames(words, r)
  BY <1>1, <1>2, <1>4, CountedIs
<1>7. frames' = Frames(words, sh[n])
  <2>1. Frames(words, Append(r, f)) = Append(Frames(words, r), Opened(words, f))
    BY <1>5, FramesAppend
  <2>2. QED BY <1>2, <1>6, <2>1
<1>8. frames' # <<>>
  <2>1. PICK t, m : t = Append(r, f) /\ m = Len(r)
    OBVIOUS
  <2>2. Len(t) = m + 1 /\ m \in Nat
    BY <1>5, <2>1
  <2>3. DOMAIN frames' = 1 .. m + 1
    BY <1>2, <1>7, <2>1, <2>2 DEF Frames
  <2>4. 1 \in 1 .. m + 1 /\ DOMAIN <<>> = {}
    BY <2>2
  <2>5. QED BY <2>3, <2>4
<1>9. at[n] = pos + 1 /\ Knowing(bytes, compact_latin1', compact_utf32', at[n])
  <2>1. compact_latin1' = compact_latin1 /\ compact_utf32' = compact_utf32
    BY DEF R!Strings4, R!Compact2
  <2>2. QED BY <2>1, KnowingSkip
<1>10. QED BY <1>7, <1>8, <1>9 DEF Took

LEMMA ReadObject ==
  ASSUME NEW at, NEW sh, NEW s, NEW n, AtPart(at, sh, s, n), wrote[n].kind = "object", R!DNext
  PROVE  Took(at, sh, n)
<1>1. PICK v, t : v = wrote[n] /\ t = bytes[pos].tok
  OBVIOUS
<1>2. InBody(at, sh, s, n) /\ Weight(wrote[n]) > 0 /\ pos <= s
  BY AtPartHere
<1>3. t = [tag |-> "CompactObjectBegin"]
  <2>1. Fills(v, t, 0)
    BY <1>1, <1>2, TokHere
  <2>2. QED BY <1>1, <2>1, FillsIs
<1>4. Visit("CompactObjectBegin")
  <2>1. t.tag = "CompactObjectBegin"
    BY <1>3
  <2>2. QED BY <1>1, <2>1, Visited
<1>5. R!enter_map
  BY <1>4, SameTags DEF Visit, R!Scalars, IntTags, CompactDefs, CompactRefs, Latin1Defs, Latin1Refs, Utf32Defs, Utf32Refs,
     Loose, R!NoValue
<1>6. ~R!KeyIsDue /\ phase = "body"
  BY <1>2, InBodyFacts, KeyIsText
<1>7. Canon(wrote[n]) = [visit |-> "map"]
  BY CanonIs
<1>8. Opened(words, ObjectFrame) = [kind |-> "map", left |-> 0, table |-> <<>>]
  BY DEF Opened, ObjectFrame
<1>9. /\ pos' = pos + 1 /\ frames' = Append(R!Counted, Opened(words, ObjectFrame)) /\ phase' = "body"
      /\ seen' = Append(seen, Canon(wrote[n])) /\ UNCHANGED R!Strings4
  BY <1>5, <1>6, <1>7, <1>8 DEF R!enter_map
<1>10. sh[n] = Append(Ticked(sh[n - 1]), ObjectFrame)
  BY <1>2, InBodyFacts, GrownIs
<1>11. bytes[pos].tok.tag \notin CompactDefs /\ Weight(wrote[n]) = 1
  BY <1>1, <1>3, WeightIs DEF CompactDefs, Latin1Defs, Utf32Defs
<1>12. PICK f \in OpenFrame : f = ObjectFrame
  BY ObjectFrameTyped
<1>13. QED BY <1>9, <1>10, <1>11, <1>12, EnteredIsTaken

(* The end of an array, which is no token, and that of an object.          *)
LEMMA ReadEnd ==
  ASSUME NEW at, NEW sh, NEW s, NEW n, InBody(at, sh, s, n), wrote[n].kind = "end", R!DNext,
         Weight(wrote[n]) > 0 => AtPart(at, sh, s, n)
  PROVE  Took(at, sh, n)
<1>1. PICK v, f, q : v = wrote[n] /\ f = Last1(sh[n - 1]) /\ q = sh[n - 1]
  OBVIOUS
<1>2. v.of = f.kind /\ f.left = 0 /\ f.kind \in {"array", "object"}
  BY <1>1, HereIs, KeyIsText
<1>3. q \in Seq(OpenFrame) /\ q # <<>> /\ frames = Frames(words, q) /\ sh[n] = SubSeq(q, 1, Len(q) - 1)
  BY <1>1, InBodyFacts, GrownIs
<1>4. SubSeq(frames, 1, Len(frames) - 1) = Frames(words, sh[n]) /\ (Len(frames) = 1 <=> Frames(words, sh[n]) = <<>>)
  BY <1>3, FramesCut
<1>5. Knowing(bytes, compact_latin1, compact_utf32, pos) /\ at[n] = pos + Weight(wrote[n]) /\ pos \in Nat
  BY InBodyFacts
<1>6. CASE f.kind = "array"
  <2>1. R!InCompactSeq /\ ~R!InMap /\ ~R!KeyIsDue /\ R!Here.left = f.left /\ ~R!InStandardSeq
    BY <1>1, <1>6, HereIs
  <2>2. ~R!Due
    BY <1>2, <2>1 DEF R!Due
  <2>3. R!end_of_compact_seq
    BY <2>1, <2>2, BodyStep
  <2>4. R!Leave("end_seq", 0)
    BY <2>3 DEF R!end_of_compact_seq
  <2>5. /\ pos' = pos /\ frames' = Frames(words, sh[n]) /\ phase' = IF frames' = <<>> THEN "footer" ELSE "body"
        /\ seen' = Append(seen, [visit |-> "end_seq"])
        /\ compact_latin1' = compact_latin1 /\ compact_utf32' = compact_utf32
    BY <1>4, <2>4 DEF R!Leave, R!Strings4, R!Compact2
  <2>6. Canon(wrote[n]) = [visit |-> "end_seq"]
    BY <1>1, <1>2, <1>6, CanonIs
  <2>7. Weight(wrote[n]) = 0
    BY <1>1, <1>2, <1>6, WeightIs
  <2>8. at[n] = pos
    BY <1>5, <2>7
  <2>9. QED BY <1>5, <2>5, <2>6, <2>8 DEF Took
<1>7. CASE f.kind = "object"
  <2>1. ~R!InCompactSeq /\ R!InMap /\ R!KeyIsDue /\ ~R!InStandardSeq
    BY <1>1, <1>2, <1>7, HereIs
  <2>2. Weight(wrote[n]) = 1
    BY <1>1, <1>2, <1>7, WeightIs
  <2>3. AtPart(at, sh, s, n) /\ pos <= s
    BY <2>2, AtPartHere
  <2>4. Fills(v, bytes[pos].tok, 0) /\ R!Tag = bytes[pos].tok.tag
    BY <1>1, <2>2, <2>3, TokHere
  <2>5. bytes[pos].tok = [tag |-> "ObjectEnd"]
    BY <1>1, <2>4, FillsIs
  <2>6. R!Tag = "ObjectEnd" /\ bytes[pos].tok.tag \notin CompactDefs
    BY <2>4, <2>5 DEF CompactDefs, Latin1Defs, Utf32Defs
  <2>7. ~R!Due
    BY <2>1, <2>6 DEF R!Due
  <2>8. R!end_of_map
    BY <2>1, <2>7, BodyStep
  <2>9. R!Leave("end_map", 1)
    BY <2>8 DEF R!end_of_map
  <2>10. /\ pos' = pos + 1 /\ frames' = Frames(words, sh[n]) /\ phase' = IF frames' = <<>> THEN "footer" ELSE "body"
         /\ seen' = Append(seen, [visit |-> "end_map"])
         /\ compact_latin1' = compact_latin1 /\ compact_utf32' = compact_utf32
    <3>1. /\ pos' = pos + 1 /\ frames' = SubSeq(frames, 1, Len(frames) - 1)
          /\ phase' = IF Len(frames) = 1 THEN "footer" ELSE "body"
          /\ seen' = Append(seen, [visit |-> "end_map"]) /\ UNCHANGED R!Strings4
      BY <2>9 DEF R!Leave
    <3>2. frames' = Frames(words, sh[n]) /\ (Len(frames) = 1 <=> frames' = <<>>)
      BY <1>4, <3>1
    <3>3. phase' = IF frames' = <<>> THEN "footer" ELSE "body"
      BY <3>1, <3>2
    <3>4. compact_latin1' = compact_latin1 /\ compact_utf32' = compact_utf32
      BY <3>1 DEF R!Strings4, R!Compact2
    <3>5. QED BY <3>1, <3>2, <3>3, <3>4
  <2>11. Canon(wrote[n]) = [visit |-> "end_map"]
    BY <1>1, <1>2, <1>7, CanonIs
  <2>12. at[n] = pos + 1 /\ Knowing(bytes, compact_latin1', compact_utf32', at[n])
    BY <2>2, <2>3, <2>6, <2>10, KnowingSkip
  <2>13. QED BY <2>10, <2>11, <2>12 DEF Took
<1>8. QED BY <1>2, <1>6, <1>7

(* The beginning of an array: its count is no more than the file is long.  *)
LEMMA ArrayHere ==
  ASSUME NEW at, NEW sh, NEW s, NEW n, AtPart(at, sh, s, n), wrote[n].kind = "array",
         NEW x, x = bytes[pos], NEW t, t = R!Tok(pos)
  PROVE  /\ x.tok.tag = "CompactArrayBegin" /\ t.table # <<>> /\ t.count + 1 # Word
         /\ ArrayFrame(x) \in OpenFrame /\ sh[n] = Append(Ticked(sh[n - 1]), ArrayFrame(x))
         /\ [kind |-> "seq", left |-> t.count, table |-> t.table] = Opened(words, ArrayFrame(x))
<1>1. InBody(at, sh, s, n) /\ Weight(wrote[n]) > 0 /\ pos <= s
  BY AtPartHere
<1>2. /\ x \in Item /\ t = TokenIn(x) /\ x.at \in Nat /\ Fits(x.tok) /\ pos \in 1 .. s /\ Fills(wrote[n], x.tok, 0)
  BY <1>1, TokHere
<1>3. x.tok.tag = "CompactArrayBegin" /\ x.tok.table \in Seq({0}) /\ x.tok.table # <<>>
  BY <1>2, FillsIs
<1>4. PICK m \in Nat : Len(x.tok.table) = m + 1
  <2>1. PICK b : b = x.tok.table
    OBVIOUS
  <2>2. Len(b) \in Nat /\ Len(b) # 0
    BY <1>3, <2>1
  <2>3. Len(b) - 1 \in Nat /\ Len(b) = (Len(b) - 1) + 1
    BY <2>2
  <2>4. QED BY <2>1, <2>3
<1>5. t.count = m /\ t.table = [k \in 1 .. m + 1 |-> words[x.at + 2 + 4 * k]]
  <2>1. /\ t.tag = x.tok.tag /\ t.count = x.tok.count /\ t.count \in Nat
        /\ t.table = [k \in 1 .. Len(x.tok.table) |-> words[x.at + 2 + 4 * k]]
    <3>1. x \in Item /\ t = TokenIn(x)
      BY <1>2
    <3>2. /\ t.tag = x.tok.tag
          /\ t.tag = "CompactArrayBegin" =>
               /\ t.count = x.tok.count /\ t.count \in Nat
               /\ t.table = [k \in 1 .. Len(x.tok.table) |-> words[x.at + 2 + 4 * k]]
      BY <3>1, TokenInIs
    <3>3. QED BY <1>3, <3>2
  <2>2. x.tok.count + 1 = Len(x.tok.table)
    BY <1>2, <1>3 DEF Fits
  <2>3. PICK c : c = t.count
    OBVIOUS
  <2>4. c \in Nat /\ c + 1 = m + 1
    BY <1>4, <2>1, <2>2, <2>3
  <2>5. QED BY <1>4, <2>1, <2>3, <2>4
<1>6. PICK f : f = ArrayFrame(x)
  OBVIOUS
<1>7. f \in OpenFrame /\ f.kind = "array" /\ f.left = m /\ f.count = m /\ f.slot = x.at + 6
  <2>1. f \in OpenFrame /\ f.kind = "array" /\ f.left = Len(x.tok.table) - 1 /\ f.count = Len(x.tok.table) - 1
        /\ f.slot = x.at + 6
    BY <1>2, <1>3, <1>6, ArrayFrameTyped
  <2>2. (m + 1) - 1 = m
    OBVIOUS
  <2>3. QED BY <1>4, <2>1, <2>2
<1>8. sh[n] = Append(Ticked(sh[n - 1]), f)
  BY <1>1, <1>6, InBodyFacts, GrownIs
<1>9. Opened(words, f) = [kind |-> "seq", left |-> t.count, table |-> t.table]
  <2>1. PICK g : g = t.table
    OBVIOUS
  <2>2. [k \in 1 .. f.count + 1 |-> words[f.slot + 4 * (k - 1)]] = g
    <3>1. \A k \in 1 .. m + 1 : x.at + 6 + 4 * (k - 1) = x.at + 2 + 4 * k
      BY <1>2
    <3>2. QED BY <1>5, <1>7, <2>1, <3>1
  <2>3. Opened(words, f) = [kind |-> "seq", left |-> f.left, table |-> g]
    BY <1>7, <2>2 DEF Opened
  <2>4. QED BY <1>5, <1>7, <2>1, <2>3
<1>10. t.table # <<>>
  <2>1. DOMAIN t.table = 1 .. m + 1
    BY <1>5
  <2>2. 1 \in 1 .. m + 1 /\ DOMAIN <<>> = {}
    OBVIOUS
  <2>3. QED BY <2>1, <2>2
<1>11. Marked(sh[n], at[n]) /\ at[n] = pos + 1
  <2>1. at[n] = pos + 1
    <3>1. Weight(wrote[n]) = 1
      BY WeightIs
    <3>2. QED BY <1>1, <3>1, InBodyFacts
  <2>2. PICK l : l = Len(wrote)
    OBVIOUS
  <2>3. Full(at, sh) /\ n \in 1 .. l /\ l \in Nat /\ n \in Nat /\ sh[l] = <<>>
    BY <1>1, <2>2, InBodyFacts, FullFacts
  <2>4. sh[n] # <<>>
    <3>1. PICK q, z : q = Ticked(sh[n - 1]) /\ z = Append(q, f)
      OBVIOUS
    <3>2. q \in Seq(OpenFrame)
      <4>1. sh[n - 1] \in Seq(OpenFrame) /\ Last1(sh[n - 1]).left > 0
        BY <1>1, InBodyFacts, KeyIsText
      <4>2. QED BY <3>1, <4>1, TickedTyped
    <3>3. Len(z) = Len(q) + 1 /\ Len(q) \in Nat
      BY <1>7, <3>1, <3>2
    <3>4. z # <<>>
      BY <3>3
    <3>5. QED BY <1>8, <3>1, <3>4
  <2>5. n + 1 \in 1 .. l /\ (n + 1) - 1 = n
    BY <2>3, <2>4
  <2>6. Marked(sh[(n + 1) - 1], at[(n + 1) - 1])
    BY <2>2, <2>3, <2>5 DEF Full, Marks
  <2>7. QED BY <2>1, <2>5, <2>6
<1>12. Last1(sh[n]) = f /\ sh[n] # <<>>
  <2>1. PICK q, z : q = Ticked(sh[n - 1]) /\ z = Append(q, f)
    OBVIOUS
  <2>2. q \in Seq(OpenFrame)
    <3>1. sh[n - 1] \in Seq(OpenFrame) /\ Last1(sh[n - 1]).left > 0
      BY <1>1, InBodyFacts, KeyIsText
    <3>2. QED BY <2>1, <3>1, TickedTyped
  <2>3. Len(z) = Len(q) + 1 /\ Len(q) \in Nat /\ z[Len(q) + 1] = f
    BY <1>7, <2>1, <2>2
  <2>4. z # <<>> /\ Last1(z) = f
    BY <2>3 DEF Last1
  <2>5. QED BY <1>8, <2>1, <2>4
<1>13. words[x.at + 6] = Start(pos + 1) /\ x.at + 6 \in DOMAIN words
  <2>1. x.at + 6 + 4 * (m - m) = x.at + 6
    BY <1>2
  <2>2. QED BY <1>7, <1>11, <1>12, <2>1 DEF Marked, MarkedAt
<1>14. Start(pos + 1) < Word
  <2>1. TypeOK
    BY <1>1 DEF InBody, Lies, Full
  <2>2. words[x.at + 6] \in 0 .. Word - 1
    BY <1>13, <2>1 DEF TypeOK
  <2>3. QED BY <1>13, <2>2, WordAssumption DEF WordAssumption
<1>15. Start(pos + 1) = x.at + (6 + 4 * (m + 1))
  <2>1. Lies(at, sh, s)
    BY <1>1, InBodyFacts
  <2>2. Start(pos + 1) = x.at + Size(x.tok)
    BY <1>2, <2>1, Placing
  <2>3. Size(x.tok) = 1 + TableSize(x.tok)
    BY <1>3, SizeOf
  <2>4. TableSize(x.tok) = 5 + 4 * (m + 1)
    BY <1>3, <1>4 DEF TableSize
  <2>5. 1 + (5 + 4 * (m + 1)) = 6 + 4 * (m + 1)
    OBVIOUS
  <2>6. QED BY <2>2, <2>3, <2>4, <2>5
<1>16. m + 1 # Word
  BY <1>2, <1>14, <1>15, WordAssumption DEF WordAssumption
<1>17. QED BY <1>3, <1>5, <1>6, <1>7, <1>8, <1>9, <1>10, <1>16

LEMMA ReadArray ==
  ASSUME NEW at, NEW sh, NEW s, NEW n, AtPart(at, sh, s, n), wrote[n].kind = "array", R!DNext
  PROVE  Took(at, sh, n)
<1>1. PICK x, t : x = bytes[pos] /\ t = R!Tok(pos)
  OBVIOUS
<1>2. InBody(at, sh, s, n) /\ Weight(wrote[n]) > 0 /\ pos <= s
  BY AtPartHere
<1>3. /\ x.tok.tag = "CompactArrayBegin" /\ t.table # <<>> /\ t.count + 1 # Word
      /\ ArrayFrame(x) \in OpenFrame /\ sh[n] = Append(Ticked(sh[n - 1]), ArrayFrame(x))
      /\ [kind |-> "seq", left |-> t.count, table |-> t.table] = Opened(words, ArrayFrame(x))
  BY <1>1, ArrayHere
<1>4. Visit("CompactArrayBegin")
  BY <1>1, <1>3, Visited
<1>5. R!enter_compact_seq
  BY <1>4, SameTags DEF Visit, R!Scalars, IntTags, CompactDefs, CompactRefs, Latin1Defs, Latin1Refs, Utf32Defs, Utf32Refs,
     Loose, R!NoValue
<1>6. ~R!KeyIsDue /\ phase = "body"
  BY <1>2, InBodyFacts, KeyIsText
<1>7. Canon(wrote[n]) = [visit |-> "seq"]
  BY CanonIs
<1>8. /\ pos' = pos + 1 /\ frames' = Append(R!Counted, [kind |-> "seq", left |-> t.count, table |-> t.table])
      /\ phase' = "body" /\ seen' = Append(seen, [visit |-> "seq"]) /\ UNCHANGED R!Strings4
  BY <1>1, <1>3, <1>5, <1>6 DEF R!enter_compact_seq
<1>9. bytes[pos].tok.tag \notin CompactDefs /\ Weight(wrote[n]) = 1
  BY <1>1, <1>3, WeightIs DEF CompactDefs, Latin1Defs, Utf32Defs
<1>10. PICK f \in OpenFrame : f = ArrayFrame(x)
  BY <1>3
<1>11. QED BY <1>3, <1>7, <1>8, <1>9, <1>10, EnteredIsTaken

(* The three tokens of a blob.                                             *)
LEMMA BlobTok ==
  ASSUME NEW at, NEW sh, NEW s, NEW n, InBody(at, sh, s, n), wrote[n].kind = "binary", NEW k \in 0 .. 2, NEW i, i = pos + k,
         i <= s, NEW x, x = bytes[i]
  PROVE  /\ x \in Item /\ R!Tok(i) = x.tok /\ BlobFills(wrote[n], x.tok, k) /\ Fits(x.tok) /\ i \in 1 .. s /\ i \in Nat
         /\ R!Position(i) = x.at /\ x.at \in Nat /\ x.of = n /\ Start(i + 1) = x.at + Size(x.tok)
<1>1. /\ Lies(at, sh, s) /\ Full(at, sh) /\ pos \in Nat \ {0, 1} /\ s \in Nat /\ s <= Len(bytes) /\ Len(bytes) \in Nat
      /\ n \in 1 .. Len(wrote) /\ pos = at[n - 1] /\ at[n] = pos + Weight(wrote[n])
  BY InBodyFacts
<1>2. Weight(wrote[n]) = 3
  BY WeightIs
<1>3. PICK p : p = pos
  OBVIOUS
<1>4. i \in Nat /\ i \in 1 .. s /\ i \in 1 .. s + 1 /\ p <= i /\ i < p + 3 /\ i - p = k /\ at[n] = p + 3 /\ at[n - 1] = p
  <2>1. p \in Nat \ {0, 1} /\ s \in Nat /\ i = p + k /\ i <= s /\ k \in {0, 1, 2}
    BY <1>1, <1>3
  <2>2. i \in Nat /\ i \in 1 .. s /\ i \in 1 .. s + 1 /\ p <= i /\ i < p + 3 /\ i - p = k
    BY <2>1
  <2>3. at[n] = p + 3 /\ at[n - 1] = p
    BY <1>1, <1>2, <1>3
  <2>4. QED BY <2>2, <2>3
<1>5. x \in Item /\ R!Tok(i) = TokenIn(x)
  BY <1>1, <1>4, FileToks
<1>6. x.of = n /\ Fills(wrote[n], x.tok, k)
  <2>1. Full(at, sh) /\ n \in 1 .. Len(wrote) /\ i \in Nat /\ at[n - 1] <= i /\ i < at[n]
    BY <1>1, <1>4
  <2>2. bytes[i].of = n /\ Fills(wrote[n], bytes[i].tok, i - at[n - 1])
    BY <2>1, TokensOf
  <2>3. i - at[n - 1] = k
    BY <1>4
  <2>4. QED BY <2>2, <2>3
<1>7. BlobFills(wrote[n], x.tok, k)
  BY <1>6, FillsIs
<1>8. x.tok.tag # "CompactArrayBegin"
  BY <1>7 DEF BlobFills, DefTag, RefTag
<1>9. R!Tok(i) = x.tok
  <2>1. PICK u : u = R!Tok(i)
    OBVIOUS
  <2>2. u.tag = x.tok.tag /\ (u.tag # "CompactArrayBegin" => u = x.tok)
    BY <1>5, <2>1, TokenInIs
  <2>3. QED BY <1>8, <2>1, <2>2
<1>10. Fits(x.tok)
  <2>1. DOMAIN bytes = 1 .. Len(bytes)
    BY <1>1, BytesTyped DEF Full
  <2>2. i \in DOMAIN bytes
    BY <1>1, <1>4, <2>1
  <2>3. QED BY <1>1, <2>2 DEF Lies, AllFit
<1>11. R!Position(i) = x.at /\ Start(i + 1) = x.at + Size(x.tok)
  <2>1. R!Position(i) = Start(i)
    BY <1>1, <1>4, Placing
  <2>2. Start(i) = bytes[i].at /\ Start(i + 1) = bytes[i].at + Size(bytes[i].tok)
    BY <1>1, <1>4, Placing
  <2>3. QED BY <2>1, <2>2
<1>12. x.at \in Nat
  BY <1>5 DEF Item
<1>13. QED BY <1>4, <1>5, <1>6, <1>7, <1>9, <1>10, <1>11, <1>12

LEMMA BlobVisit ==
  ASSUME NEW at, NEW sh, NEW s, NEW n, InBody(at, sh, s, n), wrote[n].kind = "binary", R!DNext, pos <= s
  PROVE  R!visit_compact_blob
<1>1. Weight(wrote[n]) > 0
  BY WeightIs
<1>2. R!Tag = "CompactBinaryBlob"
  <2>1. Fills(wrote[n], bytes[pos].tok, 0) /\ R!Tag = bytes[pos].tok.tag
    BY <1>1, TokHere
  <2>2. BlobFills(wrote[n], bytes[pos].tok, 0)
    BY <2>1, FillsIs
  <2>3. QED BY <2>1, <2>2 DEF BlobFills
<1>3. Visit("CompactBinaryBlob")
  BY <1>1, <1>2, PartVisited
<1>4. QED
  BY <1>3, SameTags DEF Visit, R!Scalars, IntTags, CompactDefs, CompactRefs, Latin1Defs, Latin1Refs, Utf32Defs, Utf32Refs,
     Loose, R!NoValue

LEMMA BlobDecodes ==
  ASSUME NEW b \in Blobs
  PROVE  R!decode_hex_bytes(HexStr(b)) = R!Decoded(b)
<1>1. decode_hex_bytes(HexStr(b)) = Decoded(b)
  BY HexDecodes, CBlobsAssumption DEF CBlobsAssumption
<1>2. R!decode_hex_bytes(HexStr(b)) = decode_hex_bytes(HexStr(b))
  BY DEF R!decode_hex_bytes, decode_hex_bytes, R!Bytes, Bytes, R!FlattenSeq, FlattenSeq, R!PairStatus, PairStatus,
         R!PairByte, PairByte, R!IsDigit, IsDigit, R!DigitOf, DigitOf, R!Range, Range, R!HexDigits, HexDigits,
         R!LowerHex, LowerHex, R!Err, Err, R!Decoded, Decoded, R!Min, Min
<1>3. QED BY <1>1, <1>2 DEF R!Decoded, Decoded

(* What is left when the text of a blob stands, or when the file ends      *)
(* inside it.                                                              *)
LEMMA BlobWhole ==
  ASSUME R!visit_compact_blob, NEW b \in Blobs, NEW a, a = HexStr(b), NEW t, t = R!Tok(pos + 1), NEW p,
         R!Tok(pos + 2).tag = "(raw)", R!SeekTo(R!Position(pos + 2) + 4 + R!Tok(pos + 2).declared) = p,
         t.tag = "CompactLatin1StringDefinition" => ~R!Misfit(t, R!Position(pos) + 6) /\ R!PayloadText(t) = a,
         t.tag = "CompactLatin1StringReference" => t.word \in DOMAIN compact_latin1 /\ compact_latin1[t.word] = a
  PROVE  /\ t.tag = "CompactLatin1StringDefinition" =>
              R!GiveTo([visit |-> "bytes", bytes |-> b], p) /\ R!Define(t, R!Position(pos) + 6)
         /\ t.tag = "CompactLatin1StringReference" =>
              R!GiveTo([visit |-> "bytes", bytes |-> b], p) /\ UNCHANGED R!Strings4
<1>1. \A q : R!GiveBlob(a, q) => R!GiveTo([visit |-> "bytes", bytes |-> b], q)
  <2>1. R!decode_hex_bytes(a) = R!Decoded(b)
    BY BlobDecodes
  <2>2. R!Decoded(b).status = "ok" /\ R!Decoded(b).bytes = b
    BY DEF R!Decoded
  <2>3. QED BY <2>1, <2>2 DEF R!GiveBlob
<1>2. ASSUME t.tag = "CompactLatin1StringDefinition"
      PROVE  R!GiveBlob(a, p) /\ R!Define(t, R!Position(pos) + 6)
  BY <1>2 DEF R!visit_compact_blob
<1>3. ASSUME t.tag = "CompactLatin1StringReference"
      PROVE  R!GiveBlob(a, p) /\ UNCHANGED R!Strings4
  BY <1>3 DEF R!visit_compact_blob
<1>4. QED BY <1>1, <1>2, <1>3

LEMMA BlobTorn ==
  ASSUME R!visit_compact_blob, NEW t, t = R!Tok(pos + 1), NEW r, r = R!Tok(pos + 2),
         \/ t.tag \in Loose
         \/ r.tag \in Loose /\ t.tag \in {"CompactLatin1StringDefinition", "CompactLatin1StringReference"}
  PROVE  R!Fail("Io")
<1>1. CASE t.tag \in Loose
  BY <1>1, SameTags DEF R!visit_compact_blob, Loose, CompactDefs, CompactRefs, Latin1Defs, Latin1Refs, Utf32Defs, Utf32Refs
<1>2. CASE r.tag \in Loose /\ t.tag \in {"CompactLatin1StringDefinition", "CompactLatin1StringReference"}
  BY <1>2, SameTags DEF R!visit_compact_blob, Loose, CompactDefs, CompactRefs, Latin1Defs, Latin1Refs, Utf32Defs, Utf32Refs
<1>3. QED BY <1>1, <1>2

LEMMA ReadBlob ==
  ASSUME NEW at, NEW sh, NEW s, NEW n, AtPart(at, sh, s, n), wrote[n].kind = "binary", R!DNext
  PROVE  Took(at, sh, n)
<1>1. InBody(at, sh, s, n) /\ pos <= s /\ at[n] <= s + 1
  BY AtPartHere
<1>2. PICK p, b : p = pos /\ b = wrote[n].bytes
  OBVIOUS
<1>3. /\ Lies(at, sh, s) /\ p \in Nat \ {0, 1} /\ s \in Nat /\ at[n] = p + 3 /\ p + 3 <= s + 1 /\ b \in Blobs
      /\ Knowing(bytes, compact_latin1, compact_utf32, p)
  <2>1. Weight(wrote[n]) = 3
    BY WeightIs
  <2>2. wrote[n] \in Part
    BY <1>1, InBodyFacts
  <2>3. wrote[n].bytes \in Blobs
    BY <2>2 DEF Part, Scalars
  <2>4. /\ Lies(at, sh, s) /\ p \in Nat \ {0, 1} /\ s \in Nat /\ at[n] = p + 3
        /\ Knowing(bytes, compact_latin1, compact_utf32, p)
    BY <1>1, <1>2, <2>1, InBodyFacts
  <2>5. QED BY <1>1, <1>2, <2>3, <2>4
<1>4. PICK a : a = HexStr(b)
  OBVIOUS
<1>5. PICK x, y, z : x = bytes[p] /\ y = bytes[p + 1] /\ z = bytes[p + 2]
  OBVIOUS
<1>6. p + 0 = p /\ p <= s /\ p + 1 <= s /\ p + 2 <= s /\ (p + 1) + 1 = p + 2 /\ (p + 2) + 1 = p + 3 /\ p + 3 \in 1 .. s + 1
  BY <1>3
<1>7. BlobFills(wrote[n], x.tok, 0) /\ R!Position(p) = x.at /\ x.at \in Nat /\ Start(p + 1) = x.at + Size(x.tok)
  <2>1. PICK i : i = p + 0
    OBVIOUS
  <2>2. i = pos + 0 /\ i <= s /\ x = bytes[i] /\ 0 \in 0 .. 2 /\ i = p
    BY <1>2, <1>5, <1>6, <2>1
  <2>3. BlobFills(wrote[n], x.tok, 0) /\ R!Position(i) = x.at /\ x.at \in Nat /\ Start(i + 1) = x.at + Size(x.tok)
    BY <1>1, <2>2, BlobTok
  <2>4. QED BY <2>2, <2>3
<1>8. /\ R!Tok(p + 1) = y.tok /\ BlobFills(wrote[n], y.tok, 1) /\ p + 1 \in 1 .. s /\ p + 1 \in Nat
      /\ R!Position(p + 1) = y.at /\ y.of = n
  <2>1. PICK i : i = p + 1
    OBVIOUS
  <2>2. i = pos + 1 /\ i <= s /\ y = bytes[i] /\ 1 \in 0 .. 2
    BY <1>2, <1>5, <1>6, <2>1
  <2>3. /\ R!Tok(i) = y.tok /\ BlobFills(wrote[n], y.tok, 1) /\ i \in 1 .. s /\ i \in Nat
        /\ R!Position(i) = y.at /\ y.of = n
    BY <1>1, <2>2, BlobTok
  <2>4. QED BY <2>1, <2>3
<1>9. /\ R!Tok(p + 2) = z.tok /\ BlobFills(wrote[n], z.tok, 2) /\ p + 2 \in Nat
      /\ R!Position(p + 2) = z.at /\ z.at \in Nat /\ Start(p + 3) = z.at + Size(z.tok) /\ Fits(z.tok)
  <2>1. PICK i : i = p + 2
    OBVIOUS
  <2>2. i = pos + 2 /\ i <= s /\ z = bytes[i] /\ 2 \in 0 .. 2 /\ i + 1 = p + 3
    BY <1>2, <1>5, <1>6, <2>1
  <2>3. /\ R!Tok(i) = z.tok /\ BlobFills(wrote[n], z.tok, 2) /\ i \in Nat
        /\ R!Position(i) = z.at /\ z.at \in Nat /\ Start(i + 1) = z.at + Size(z.tok) /\ Fits(z.tok)
    BY <1>1, <2>2, BlobTok
  <2>4. QED BY <2>1, <2>2, <2>3
<1>10. x.tok.tag = "CompactBinaryBlob" /\ x.tok.tag \notin CompactDefs /\ Start(p + 1) = x.at + 1
  <2>1. x.tok.tag = "CompactBinaryBlob"
    BY <1>7 DEF BlobFills
  <2>2. Size(x.tok) = 1
    BY <2>1, SizeOf
  <2>3. QED BY <1>7, <2>1, <2>2 DEF CompactDefs, Latin1Defs, Utf32Defs
<1>11. y.tok.tag \in {"CompactLatin1StringDefinition", "CompactLatin1StringReference"}
  BY <1>8 DEF BlobFills, DefTag, RefTag
<1>12. z.tok.tag = "(raw)" /\ z.tok.declared = Len(b) /\ z.tok.tag \notin CompactDefs /\ Start(p + 3) = z.at + (4 + Len(b))
       /\ Len(b) \in Nat
  <2>1. z.tok.tag = "(raw)" /\ z.tok.raw = b
    BY <1>2, <1>9 DEF BlobFills
  <2>2. z.tok.declared = Len(z.tok.raw)
    BY <1>9, <2>1 DEF Fits
  <2>3. Size(z.tok) = 4 + Len(z.tok.raw)
    BY <2>1, SizeOf
  <2>4. Len(b) \in Nat
    BY <1>3, CBlobsAssumption DEF CBlobsAssumption
  <2>5. QED BY <1>9, <2>1, <2>2, <2>3, <2>4 DEF CompactDefs, Latin1Defs, Utf32Defs
<1>13. R!SeekTo(R!Position(p + 2) + 4 + Len(b)) = p + 3
  <2>1. R!Position(p + 2) + 4 + Len(b) = Start(p + 3)
    BY <1>9, <1>12
  <2>2. QED BY <1>3, <1>6, <2>1, SeekToStart
<1>14. y.at = x.at + 1 /\ R!Position(p) + 6 = y.at + 5
  <2>1. p + 1 \in 1 .. s + 1
    BY <1>3, <1>6
  <2>2. R!Position(p + 1) = Start(p + 1)
    BY <1>3, <2>1, Placing
  <2>3. QED BY <1>7, <1>8, <1>10, <2>2
<1>15. Knowing(bytes, compact_latin1, compact_utf32, p + 1)
  BY <1>3, <1>5, <1>10, KnowingPast
<1>16. a \in Texts /\ a = Asked(y)
  <2>1. wrote[y.of].kind = "binary" /\ wrote[y.of].bytes = b
    BY <1>2, <1>8
  <2>2. QED BY <1>3, <1>4, <2>1 DEF Texts, Asked
<1>17. PICK t, i : t = y.tok /\ i = p + 1
  OBVIOUS
<1>18. /\ t.tag \in CompactDefs =>
              R!PayloadText(t) = TextFor(t.tag \in Latin1Defs, a) /\ ~R!Misfit(t, R!Position(i) + 5)
       /\ t.tag \in CompactRefs =>
              t.word \in DOMAIN R!TableOf(t) /\ R!TableOf(t)[t.word] = TextFor(t.tag \in Latin1Refs, a)
  <2>1. i \in 1 .. s /\ Knowing(bytes, compact_latin1, compact_utf32, i) /\ t = bytes[i].tok /\ a = Asked(bytes[i])
    BY <1>5, <1>8, <1>15, <1>16, <1>17
  <2>2. QED BY <1>3, <1>16, <2>1, Resolves
<1>19. /\ t.tag = "CompactLatin1StringDefinition" => ~R!Misfit(t, R!Position(p) + 6) /\ R!PayloadText(t) = a
       /\ t.tag = "CompactLatin1StringReference" => t.word \in DOMAIN compact_latin1 /\ compact_latin1[t.word] = a
  <2>1. R!Position(i) + 5 = R!Position(p) + 6
    BY <1>8, <1>14, <1>17
  <2>2. t.tag = "CompactLatin1StringDefinition" => t.tag \in CompactDefs /\ t.tag \in Latin1Defs
    BY DEF CompactDefs, Latin1Defs
  <2>3. t.tag = "CompactLatin1StringReference" => t.tag \in CompactRefs /\ t.tag \in Latin1Refs
    BY DEF CompactRefs, Latin1Refs
  <2>4. TextFor(TRUE, a) = a
    BY DEF TextFor
  <2>5. t.tag \in Latin1Refs => R!TableOf(t) = compact_latin1
    BY SameTags DEF R!TableOf
  <2>6. t.tag = "CompactLatin1StringDefinition" => ~R!Misfit(t, R!Position(p) + 6) /\ R!PayloadText(t) = a
    BY <1>18, <2>1, <2>2, <2>4
  <2>7. t.tag = "CompactLatin1StringReference" => t.word \in DOMAIN compact_latin1 /\ compact_latin1[t.word] = a
    BY <1>18, <2>3, <2>4, <2>5
  <2>8. QED BY <2>6, <2>7
<1>20. /\ t.tag = "CompactLatin1StringDefinition" =>
              R!GiveTo([visit |-> "bytes", bytes |-> b], p + 3) /\ R!Define(t, y.at + 5)
       /\ t.tag = "CompactLatin1StringReference" =>
              R!GiveTo([visit |-> "bytes", bytes |-> b], p + 3) /\ UNCHANGED R!Strings4
  <2>1. R!visit_compact_blob
    BY <1>1, BlobVisit
  <2>2. PICK q : q = p + 3
    OBVIOUS
  <2>3. /\ t = R!Tok(pos + 1) /\ R!Tok(pos + 2).tag = "(raw)"
        /\ R!SeekTo(R!Position(pos + 2) + 4 + R!Tok(pos + 2).declared) = q
        /\ t.tag = "CompactLatin1StringDefinition" => ~R!Misfit(t, R!Position(pos) + 6) /\ R!PayloadText(t) = a
    BY <1>2, <1>8, <1>9, <1>12, <1>13, <1>17, <1>19, <2>2
  <2>4. /\ t.tag = "CompactLatin1StringDefinition" =>
              R!GiveTo([visit |-> "bytes", bytes |-> b], q) /\ R!Define(t, R!Position(pos) + 6)
        /\ t.tag = "CompactLatin1StringReference" =>
              R!GiveTo([visit |-> "bytes", bytes |-> b], q) /\ UNCHANGED R!Strings4
    BY <1>3, <1>4, <1>19, <2>1, <2>3, BlobWhole
  <2>5. QED BY <1>2, <1>14, <2>2, <2>4
<1>21. Canon(wrote[n]) = [visit |-> "bytes", bytes |-> b]
  BY <1>2, CanonIs
<1>22. Knowing(bytes, compact_latin1', compact_utf32', p + 2)
  <2>1. CASE t.tag = "CompactLatin1StringDefinition"
    <3>1. PICK o : o = y.at + 5
      OBVIOUS
    <3>2. /\ i \in 1 .. s /\ Knowing(bytes, compact_latin1, compact_utf32, i) /\ t = bytes[i].tok /\ t.tag \in CompactDefs
          /\ o = bytes[i].at + 5 /\ R!Define(t, o)
      BY <1>5, <1>8, <1>15, <1>17, <1>20, <2>1, <3>1 DEF CompactDefs, Latin1Defs
    <3>3. Knowing(bytes, compact_latin1', compact_utf32', i + 1)
      BY <1>3, <3>2, KnowingDefine
    <3>4. QED BY <1>6, <1>17, <3>3
  <2>2. CASE t.tag = "CompactLatin1StringReference"
    <3>1. compact_latin1' = compact_latin1 /\ compact_utf32' = compact_utf32
      BY <1>20, <2>2 DEF R!Strings4, R!Compact2
    <3>2. i \in Nat /\ Knowing(bytes, compact_latin1, compact_utf32, i) /\ bytes[i].tok.tag \notin CompactDefs
      BY <1>5, <1>8, <1>15, <1>17, <2>2 DEF CompactDefs, Latin1Defs, Utf32Defs
    <3>3. Knowing(bytes, compact_latin1, compact_utf32, i + 1)
      BY <3>2, KnowingPast
    <3>4. QED BY <1>6, <1>17, <3>1, <3>3
  <2>3. QED BY <1>11, <1>17, <2>1, <2>2
<1>23. Knowing(bytes, compact_latin1', compact_utf32', p + 3)
  <2>1. PICK l, u, j : l = compact_latin1' /\ u = compact_utf32' /\ j = p + 2
    OBVIOUS
  <2>2. j \in Nat /\ Knowing(bytes, l, u, j) /\ bytes[j].tok.tag \notin CompactDefs
    BY <1>5, <1>9, <1>12, <1>22, <2>1
  <2>3. Knowing(bytes, l, u, j + 1)
    BY <2>2, KnowingPast
  <2>4. QED BY <1>6, <2>1, <2>3
<1>24. ~R!KeyIsDue
  BY <1>1, KeyIsText
<1>25. R!GiveTo(Canon(wrote[n]), p + 3)
  BY <1>11, <1>17, <1>20, <1>21
<1>26. PICK q : q = p + 3
  OBVIOUS
<1>27. q = at[n] /\ R!GiveTo(Canon(wrote[n]), q) /\ Knowing(bytes, compact_latin1', compact_utf32', q)
  BY <1>3, <1>23, <1>25, <1>26
<1>28. QED BY <1>24, <1>27, GivenIsTaken

(* Any part, whole in front of the reader, is read.                        *)
LEMMA ReadPart ==
  ASSUME NEW at, NEW sh, NEW s, NEW n, InBody(at, sh, s, n), R!DNext, at[n] <= s + 1
  PROVE  Took(at, sh, n)
<1>1. Weight(wrote[n]) > 0 => AtPart(at, sh, s, n)
  <2>1. at[n] = pos + Weight(wrote[n])
    BY InBodyFacts
  <2>2. QED BY <2>1 DEF AtPart
<1>2. PICK k : k = wrote[n].kind
  OBVIOUS
<1>3. k # "end" => AtPart(at, sh, s, n)
  <2>1. k # "end" => Weight(wrote[n]) > 0
    BY <1>2, WeightIs
  <2>2. QED BY <1>1, <2>1
<1>4. k \in {"null", "bool", "int", "float", "rtid", "string", "key", "binary", "array", "object", "end"}
  <2>1. wrote[n] \in Part
    BY InBodyFacts
  <2>2. QED BY <1>2, <2>1 DEF Part, Scalars
<1>5. CASE k = "end"
  BY <1>1, <1>2, <1>5, ReadEnd
<1>6. CASE k \in {"null", "rtid"}
  BY <1>2, <1>3, <1>6, ReadRtid
<1>7. CASE k = "bool"
  BY <1>2, <1>3, <1>7, ReadBool
<1>8. CASE k = "int"
  BY <1>2, <1>3, <1>8, ReadInt
<1>9. CASE k = "float"
  BY <1>2, <1>3, <1>9, ReadFloat
<1>10. CASE k \in {"string", "key"}
  BY <1>2, <1>3, <1>10, ReadText
<1>11. CASE k = "binary"
  BY <1>2, <1>3, <1>11, ReadBlob
<1>12. CASE k = "array"
  BY <1>2, <1>3, <1>12, ReadArray
<1>13. CASE k = "object"
  BY <1>2, <1>3, <1>13, ReadObject
<1>14. QED BY <1>4, <1>5, <1>6, <1>7, <1>8, <1>9, <1>10, <1>11, <1>12, <1>13

(* A file that ends inside the part is refused.                            *)
Refused == /\ phase' = "err" /\ UNCHANGED <<pos, frames, seen>>
LEMMA FailRefuses ==
  ASSUME NEW e, R!Fail(e)
  PROVE  Refused
BY DEF R!Fail, R!Stop, Refused

LEMMA ReadTorn ==
  ASSUME NEW at, NEW sh, NEW s, NEW n, InBody(at, sh, s, n), R!DNext, ~(at[n] <= s + 1)
  PROVE  Refused
<1>1. PICK p, w : p = pos /\ w = Weight(wrote[n])
  OBVIOUS
<1>2. /\ Lies(at, sh, s) /\ p \in Nat \ {0, 1} /\ s \in Nat /\ p <= s + 1 /\ at[n] = p + w
  BY <1>1, InBodyFacts
<1>3. w \in {0, 1, 3} /\ (wrote[n].kind # "binary" => w \in {0, 1})
  BY <1>1, WeightIs
<1>4. w > 0 /\ ~(p + w <= s + 1)
  BY <1>2, <1>3
<1>5. R!Tok(s + 1).tag \in Loose
  BY <1>2, FileToks
<1>6. CASE p = s + 1
  <2>1. R!Tag \in Loose
    BY <1>1, <1>5, <1>6 DEF R!Tag, R!TagAt, Loose
  <2>2. Visit(R!Tag)
    BY <1>1, <1>4, <2>1, PartVisited DEF Loose
  <2>3. R!refuse
    BY <2>1, <2>2, SameTags DEF Visit, R!Scalars, IntTags, CompactDefs, CompactRefs, Latin1Defs, Latin1Refs, Utf32Defs, Utf32Refs,
       Loose
  <2>4. QED BY <2>1, <2>3, FailRefuses DEF R!refuse
<1>7. CASE p # s + 1
  <2>1. wrote[n].kind = "binary" /\ p <= s /\ (p + 1 = s + 1 \/ p + 2 = s + 1)
    BY <1>2, <1>3, <1>4, <1>7
  <2>2. R!visit_compact_blob
    BY <1>1, <2>1, BlobVisit
  <2>3. PICK t, r : t = R!Tok(pos + 1) /\ r = R!Tok(pos + 2)
    OBVIOUS
  <2>4. p + 1 = s + 1 => t.tag \in Loose
    BY <1>1, <1>5, <2>3
  <2>5. p + 2 = s + 1 => r.tag \in Loose /\ t.tag \in {"CompactLatin1StringDefinition", "CompactLatin1StringReference"}
    <3>1. SUFFICES ASSUME p + 2 = s + 1
                   PROVE  r.tag \in Loose /\ t.tag \in {"CompactLatin1StringDefinition", "CompactLatin1StringReference"}
      OBVIOUS
    <3>2. r.tag \in Loose
      BY <1>1, <1>5, <2>3, <3>1
    <3>3. PICK i, x : i = pos + 1 /\ x = bytes[i]
      OBVIOUS
    <3>4. i <= s /\ 1 \in 0 .. 2
      BY <1>1, <1>2, <3>1, <3>3
    <3>5. R!Tok(i) = x.tok /\ BlobFills(wrote[n], x.tok, 1)
      BY <2>1, <3>3, <3>4, BlobTok
    <3>6. t = x.tok
      BY <2>3, <3>3, <3>5
    <3>7. QED BY <3>2, <3>5, <3>6 DEF BlobFills, DefTag, RefTag
  <2>6. R!Fail("Io")
    BY <2>1, <2>2, <2>3, <2>4, <2>5, BlobTorn
  <2>7. QED BY <2>6, FailRefuses
<1>8. QED BY <1>6, <1>7
-----------------------------------------------------------------------------
(* How far the reader is: it has been given the first parts of the value,  *)
(* and stands where the next begins.                                       *)
Reading(at, sh, s) ==
  /\ phase \in {"header", "root", "body", "footer", "ok", "err"}
  /\ result \in {"new", "run", "sealed"} => phase = "header"
  /\ (\E S : seen \in Seq(S)) /\ Len(seen) <= Len(wrote) /\ \A i \in 1 .. Len(seen) : seen[i] = Canon(wrote[i])
  /\ phase \in {"header", "root"} => seen = <<>>
  /\ phase = "header" => pos = 1
  /\ phase = "root" => pos = 2
  /\ phase \notin {"header", "err"} => s >= 2 /\ wrote[1].kind = "object"
  /\ phase \in {"body", "footer"} =>
       /\ seen # <<>> /\ pos = at[Len(seen)] /\ pos <= s + 1 /\ frames = Frames(words, sh[Len(seen)])
       /\ phase = "footer" <=> frames = <<>>
       /\ Knowing(bytes, compact_latin1, compact_utf32, pos)
InFile(at, sh, s) == /\ IInv /\ Lined /\ Begins /\ Waits /\ WState(at, sh) /\ FileIs(s)
                    /\ result \in {"ok", "err", "panic"}

LEMMA InFileIs ==
  ASSUME NEW at, NEW sh, NEW s, InFile(at, sh, s), s >= 1
  PROVE  Full(at, sh) /\ (wrote[1].kind = "object" => Lies(at, sh, s))
<1>1. IInv /\ TypeOK /\ Lined /\ Begins /\ Waits /\ WState(at, sh) /\ FileIs(s)
  BY DEF InFile, IInv
<1>2. file # <<>>
  <2>1. s \in Nat /\ Len(file) \in {s, s + 1}
    BY <1>1, FileHas
  <2>2. Len(file) # 0
    BY <2>1
  <2>3. QED BY <2>2
<1>3. result # "new" /\ Done
  BY <1>1, <1>2 DEF Done, Waits
<1>4. Full(at, sh)
  BY <1>1, <1>3 DEF Full, WState, Begins
<1>5. wrote[1].kind = "object" => AllFit
  BY <1>4 DEF Full, Finished, Containers
<1>6. QED BY <1>1, <1>4, <1>5 DEF Lies

(* The beginning of the file tells whether the root is an object.          *)
LEMMA RootTok ==
  ASSUME NEW at, NEW sh, NEW s, InFile(at, sh, s)
  PROVE  /\ s \in Nat
         /\ s = 0 => R!Tok(1).tag \in Loose /\ result # "ok"
         /\ s = 1 => R!Tok(1) = [tag |-> "(header)", version |-> "compact"] /\ R!Tok(2).tag \in Loose /\ result # "ok"
         /\ s >= 2 => /\ R!Tok(1) = [tag |-> "(header)", version |-> "compact"]
                      /\ R!Tok(2).tag = bytes[2].tok.tag /\ bytes[1].tok.tag = "(header)" /\ 1 \in 1 .. Len(wrote)
                      /\ Full(at, sh)
                      /\ Fills(wrote[1], bytes[2].tok, 0) /\ at[1] = 2 + Weight(wrote[1])
                      /\ sh[1] = Grown(<<>>, wrote[1], bytes[2]) /\ wrote[1] \in Part /\ wrote[1].kind # "end"
<1>1. IInv /\ TypeOK /\ Begins /\ FileIs(s) /\ Waits
  BY DEF InFile, IInv
<1>2. s \in Nat /\ \A i \in 1 .. s : R!Tok(i) = TokenIn(bytes[i]) /\ bytes[i] \in Item
  BY <1>1, FileHas
<1>3. R!Tok(s + 1).tag \in Loose /\ (result = "ok" => s = Len(bytes)) /\ Len(bytes) \in Nat /\ s <= Len(bytes)
  BY <1>1, FileHas
<1>4. ASSUME s = 0 PROVE R!Tok(1).tag \in Loose /\ result # "ok"
  <2>1. Len(bytes) # 0
    <3>1. bytes # <<>>
      BY <1>1 DEF Begins, InFile
    <3>2. QED BY <1>1, <3>1, BytesTyped
  <2>2. QED BY <1>3, <1>4, <2>1
<1>5. s >= 1 => Full(at, sh)
  BY InFileIs
<1>6. s >= 1 => R!Tok(1) = [tag |-> "(header)", version |-> "compact"]
  <2>1. SUFFICES ASSUME s >= 1 PROVE R!Tok(1) = [tag |-> "(header)", version |-> "compact"]
    OBVIOUS
  <2>2. 1 \in 1 .. s
    BY <1>2, <2>1
  <2>3. R!Tok(1) = TokenIn(bytes[1]) /\ bytes[1] \in Item
    BY <1>2, <2>2
  <2>4. bytes[1].tok = [tag |-> "(header)", version |-> "compact"]
    BY <1>5, <2>1 DEF Full
  <2>5. QED BY <2>3, <2>4 DEF TokenIn
<1>7. s >= 1 => Len(bytes) >= 2 /\ 1 \in 1 .. Len(wrote) /\ at[0] = 2 /\ sh[0] = <<>>
  <2>1. SUFFICES ASSUME Full(at, sh) PROVE Len(bytes) >= 2 /\ 1 \in 1 .. Len(wrote) /\ at[0] = 2 /\ sh[0] = <<>>
    BY <1>5
  <2>2. /\ Len(wrote) \in Nat \ {0} /\ at[0] = 2 /\ sh[0] = <<>> /\ at[Len(wrote)] = Len(bytes)
        /\ \A n \in 0 .. Len(wrote) : at[n] \in Nat \ {0, 1}
    BY <2>1, FullFacts
  <2>3. Len(wrote) \in 0 .. Len(wrote) /\ 1 \in 1 .. Len(wrote)
    BY <2>2
  <2>4. at[Len(wrote)] \in Nat \ {0, 1}
    BY <2>2, <2>3
  <2>5. QED BY <1>3, <2>2, <2>3, <2>4
<1>8. s = 1 => R!Tok(2).tag \in Loose /\ result # "ok"
  <2>1. SUFFICES ASSUME s = 1 PROVE R!Tok(2).tag \in Loose /\ result # "ok"
    OBVIOUS
  <2>2. s + 1 = 2 /\ Len(bytes) >= 2
    BY <1>7, <2>1
  <2>3. R!Tok(2).tag \in Loose
    BY <1>3, <2>2
  <2>4. s # Len(bytes)
    <3>1. PICK l : l = Len(bytes)
      OBVIOUS
    <3>2. l >= 2
      BY <2>2, <3>1
    <3>3. QED BY <2>1, <3>1, <3>2
  <2>5. QED BY <1>3, <2>3, <2>4
<1>9. ASSUME s >= 2
      PROVE  /\ R!Tok(2).tag = bytes[2].tok.tag
             /\ Fills(wrote[1], bytes[2].tok, 0) /\ at[1] = 2 + Weight(wrote[1])
             /\ sh[1] = Grown(<<>>, wrote[1], bytes[2]) /\ wrote[1] \in Part /\ wrote[1].kind # "end"
  <2>1. Full(at, sh) /\ 1 \in 1 .. Len(wrote) /\ at[0] = 2 /\ sh[0] = <<>> /\ 1 - 1 = 0
    BY <1>2, <1>5, <1>7, <1>9
  <2>2. R!Tok(2).tag = bytes[2].tok.tag
    <3>1. 2 \in 1 .. s
      BY <1>2, <1>9
    <3>2. R!Tok(2) = TokenIn(bytes[2]) /\ bytes[2] \in Item
      BY <1>2, <3>1
    <3>3. PICK t, x : t = R!Tok(2) /\ x = bytes[2]
      OBVIOUS
    <3>4. t.tag = x.tok.tag
      BY <3>2, <3>3, TokenInIs
    <3>5. QED BY <3>3, <3>4
  <2>3. PICK n : n = 1 /\ n - 1 = 0
    BY <2>1
  <2>4. /\ at[n] = at[n - 1] + Weight(wrote[n]) /\ Legal(n, sh[n - 1], wrote[n])
        /\ sh[n] = Grown(sh[n - 1], wrote[n], bytes[at[n - 1]]) /\ Weight(wrote[n]) \in {0, 1, 3}
    BY <2>1, <2>3, PartFacts
  <2>5. wrote[1].kind # "end"
    BY <2>1, <2>3, <2>4 DEF Legal
  <2>6. Weight(wrote[1]) > 0
    BY <2>3, <2>4, <2>5, WeightIs
  <2>7. PICK i \in Nat : i = 2
    OBVIOUS
  <2>8. n \in 1 .. Len(wrote) /\ at[n - 1] <= i /\ i < at[n] /\ i - at[n - 1] = 0
    BY <2>1, <2>3, <2>4, <2>6, <2>7
  <2>9. Fills(wrote[n], bytes[i].tok, i - at[n - 1])
    BY <2>1, <2>8, TokensOf
  <2>10. wrote[1] \in Part
    BY <2>1, WroteTyped DEF Full
  <2>11. QED BY <2>1, <2>2, <2>3, <2>4, <2>5, <2>7, <2>8, <2>9, <2>10
<1>10. s >= 2 => s >= 1
  BY <1>2
<1>11. s = 1 => s >= 1
  BY <1>2
<1>12. bytes[1].tok = [tag |-> "(header)", version |-> "compact"] => bytes[1].tok.tag = "(header)"
  OBVIOUS
<1>13. s >= 2 => bytes[1].tok.tag = "(header)"
  BY <1>5, <1>10, <1>12 DEF Full
<1>14. QED BY <1>2, <1>4, <1>5, <1>6, <1>7, <1>8, <1>9, <1>10, <1>11, <1>13

(* What a step of the reader comes to: the header passed, a part of the    *)
(* value handed over, the whole value accepted, any other file refused.    *)
Passed == phase = "header" /\ phase' = "root" /\ seen' = seen
Handed == /\ phase \in {"root", "body"} /\ phase' \in {"body", "footer"} /\ Len(seen) < Len(wrote)
          /\ seen' = Append(seen, Canon(wrote[Len(seen) + 1]))
Taken  == /\ phase = "footer" /\ phase' = "ok" /\ seen' = seen /\ Len(seen) = Len(wrote)
          /\ result = "ok" /\ wrote[1].kind = "object"
Broken == phase \notin {"ok", "err"} /\ Refused /\ (result # "ok" \/ wrote[1].kind # "object")
Outcome == Passed \/ Handed \/ Taken \/ Broken

LEMMA PhaseStep ==
  ASSUME R!DNext
  PROVE  \/ phase = "header" /\ R!validate_header
         \/ phase = "root" /\ R!enter_root
         \/ phase = "body"
         \/ phase = "footer" /\ R!validate_footer
<1>1. R!Due \/ R!InStandardSeq \/ R!InCompactSeq \/ R!KeyIsDue => phase = "body"
  BY DEF R!Due, R!InStandardSeq, R!InCompactSeq, R!InSeq, R!InMap, R!KeyIsDue
<1>2. \/ R!validate_header \/ R!enter_root \/ R!validate_footer
      \/ R!Due \/ R!InStandardSeq \/ R!InCompactSeq \/ R!KeyIsDue
  BY Zenon DEF R!DNext, R!end_of_map, R!capacity_exceeded, R!end_of_seq, R!end_of_compact_seq, R!misplaced,
     R!visit_scalar, R!visit_float, R!visit_int, R!visit_direct, R!visit_definition, R!visit_reference,
     R!visit_blob, R!visit_rtid, R!visit_none, R!visit_compact_definition, R!visit_compact_reference,
     R!visit_compact_rtid, R!visit_compact_blob, R!visit_compact_bool, R!enter_compact_seq, R!enter_seq,
     R!enter_map, R!refuse
<1>3. /\ R!validate_header => phase = "header"
      /\ R!enter_root => phase = "root"
      /\ R!validate_footer => phase = "footer"
  BY DEF R!validate_header, R!enter_root, R!validate_footer
<1>4. QED BY <1>1, <1>2, <1>3

(* After a part has been handed over the reader is where the next begins.  *)
LEMMA HandedReads ==
  ASSUME UNCHANGED cvars, NEW at, NEW sh, NEW s, Reading(at, sh, s), result \in {"ok", "err", "panic"}, s >= 2,
         wrote[1].kind = "object", Len(wrote) \in Nat, Handed, NEW n, n = Len(seen) + 1, pos' = at[n], at[n] <= s + 1,
         frames' = Frames(words, sh[n]), phase' = IF frames' = <<>> THEN "footer" ELSE "body",
         Knowing(bytes, compact_latin1', compact_utf32', at[n])
  PROVE  Reading(at, sh, s)'
<1>1. result' = result /\ wrote' = wrote /\ bytes' = bytes /\ words' = words
  BY DEF cvars
<1>2. PICK S : seen \in Seq(S)
  BY DEF Reading
<1>3. PICK l, m, v : l = Len(wrote) /\ m = Len(seen) /\ v = Canon(wrote[m + 1])
  OBVIOUS
<1>4. seen' = Append(seen, v) /\ m \in Nat /\ m < l /\ l \in Nat /\ n = m + 1 /\ n \in Nat
  BY <1>2, <1>3 DEF Handed
<1>5. /\ seen' \in Seq(S \cup {v}) /\ Len(seen') = n /\ seen' # <<>>
      /\ \A i \in 1 .. n : seen'[i] = IF i = n THEN v ELSE seen[i]
  BY <1>2, <1>3, <1>4
<1>6. \A i \in 1 .. n : seen'[i] = Canon(wrote'[i])
  <2>1. SUFFICES ASSUME NEW i \in 1 .. n PROVE seen'[i] = Canon(wrote[i])
    BY <1>1
  <2>2. i = n => seen'[i] = Canon(wrote[i])
    BY <1>3, <1>4, <1>5
  <2>3. i # n => seen'[i] = Canon(wrote[i])
    <3>1. i # n => i \in 1 .. m
      BY <1>4
    <3>2. \A j \in 1 .. m : seen[j] = Canon(wrote[j])
      BY <1>3 DEF Reading
    <3>3. QED BY <1>5, <3>1, <3>2
  <2>4. QED BY <2>2, <2>3
<1>7. Len(seen') <= Len(wrote')
  BY <1>1, <1>3, <1>4, <1>5
<1>8. phase' \in {"body", "footer"} /\ (phase' = "footer" <=> frames' = <<>>)
  OBVIOUS
<1>9. /\ phase' \in {"body", "footer"} =>
           /\ seen' # <<>> /\ pos' = at[Len(seen')] /\ pos' <= s + 1 /\ frames' = Frames(words', sh[Len(seen')])
           /\ phase' = "footer" <=> frames' = <<>>
           /\ Knowing(bytes', compact_latin1', compact_utf32', pos')
  BY <1>1, <1>5, <1>8
<1>10. (\E T : seen' \in Seq(T)) /\ Len(seen') <= Len(wrote') /\ \A i \in 1 .. Len(seen') : seen'[i] = Canon(wrote'[i])
  BY <1>5, <1>6, <1>7
<1>11. result' \notin {"new", "run", "sealed"}
  BY <1>1
<1>12. QED BY <1>1, <1>8, <1>9, <1>10, <1>11 DEF Reading

LEMMA EndedReads ==
  ASSUME UNCHANGED cvars, NEW at, NEW sh, NEW s, Reading(at, sh, s), result \in {"ok", "err", "panic"}, seen' = seen,
         phase' \in {"ok", "err"}, phase' = "ok" => phase = "footer"
  PROVE  Reading(at, sh, s)'
<1>1. result' = result /\ wrote' = wrote
  BY DEF cvars
<1>2. phase' = "ok" => s >= 2 /\ wrote[1].kind = "object"
  BY DEF Reading
<1>3. /\ \E S : seen \in Seq(S)
      /\ Len(seen) <= Len(wrote) /\ \A i \in 1 .. Len(seen) : seen[i] = Canon(wrote[i])
  BY DEF Reading
<1>4. /\ \E S : seen' \in Seq(S)
      /\ Len(seen') <= Len(wrote') /\ \A i \in 1 .. Len(seen') : seen'[i] = Canon(wrote'[i])
  BY <1>1, <1>3
<1>5. QED BY <1>1, <1>2, <1>4 DEF Reading

LEMMA HeaderReads ==
  ASSUME UNCHANGED cvars, NEW at, NEW sh, NEW s, InFile(at, sh, s), Reading(at, sh, s),
         phase = "header", R!validate_header
  PROVE  Outcome /\ Reading(at, sh, s)'
<1>1. s \in Nat /\ result \in {"ok", "err", "panic"} /\ seen = <<>>
  BY RootTok DEF InFile, Reading
<1>2. ASSUME Refused, result # "ok" \/ wrote[1].kind # "object" PROVE Outcome /\ Reading(at, sh, s)'
  <2>1. Reading(at, sh, s)'
    BY <1>1, <1>2, EndedReads DEF Refused
  <2>2. QED BY <1>2, <2>1 DEF Outcome, Broken
<1>3. CASE s = 0
  <2>1. R!Tok(1).tag \in Loose /\ result # "ok"
    BY <1>3, RootTok
  <2>2. R!Tok(1).tag # "(header)"
    BY <2>1 DEF Loose
  <2>3. Refused
    BY <2>2, FailRefuses DEF R!validate_header
  <2>4. QED BY <1>2, <2>1, <2>3
<1>4. CASE s = 1
  <2>1. R!Tok(1) = [tag |-> "(header)", version |-> "compact"] /\ R!Tok(2).tag \in Loose /\ result # "ok"
    BY <1>4, RootTok
  <2>2. R!Tok(1).tag = "(header)" /\ R!Tok(1).version = "compact" /\ R!Tok(2).tag # "CompactObjectBegin"
    BY <2>1 DEF Loose
  <2>3. Refused
    BY <2>2, FailRefuses DEF R!validate_header
  <2>4. QED BY <1>2, <2>1, <2>3
<1>5. CASE s >= 2
  <2>1. /\ R!Tok(1) = [tag |-> "(header)", version |-> "compact"]
        /\ R!Tok(2).tag = bytes[2].tok.tag /\ Fills(wrote[1], bytes[2].tok, 0) /\ wrote[1] \in Part /\ wrote[1].kind # "end"
    BY <1>5, RootTok
  <2>2. R!Tok(1).tag = "(header)" /\ R!Tok(1).version = "compact"
    BY <2>1
  <2>3. CASE wrote[1].kind = "object"
    <3>1. R!Tok(2).tag = "CompactObjectBegin"
      <4>1. bytes[2].tok = [tag |-> "CompactObjectBegin"]
        BY <2>1, <2>3, FillsIs
      <4>2. QED BY <2>1, <4>1
    <3>2. phase' = "root" /\ pos' = 2 /\ seen' = seen
      BY <2>2, <3>1 DEF R!validate_header
    <3>3. Reading(at, sh, s)'
      <4>1. result' = result /\ wrote' = wrote
        BY DEF cvars
      <4>2. /\ \E S : seen \in Seq(S)
            /\ Len(seen) <= Len(wrote) /\ \A i \in 1 .. Len(seen) : seen[i] = Canon(wrote[i])
        BY DEF Reading
      <4>3. /\ \E S : seen' \in Seq(S)
            /\ Len(seen') <= Len(wrote') /\ \A i \in 1 .. Len(seen') : seen'[i] = Canon(wrote'[i])
        BY <3>2, <4>1, <4>2
      <4>4. QED BY <1>1, <1>5, <2>3, <3>2, <4>1, <4>3 DEF Reading
    <3>4. QED BY <3>2, <3>3 DEF Outcome, Passed
  <2>4. CASE wrote[1].kind # "object"
    <3>1. R!Tok(2).tag # "CompactObjectBegin"
      <4>1. PICK c, t : c = wrote[1] /\ t = bytes[2].tok
        OBVIOUS
      <4>2. c.kind \in {"null", "bool", "int", "float", "rtid", "string", "key", "binary", "array"}
        BY <2>1, <2>4, <4>1 DEF Part, Scalars
      <4>3. Fills(c, t, 0)
        BY <2>1, <4>1
      <4>4. c.kind \in {"string", "key"} => t.tag # "CompactObjectBegin"
        BY <4>3, FillsIs DEF DefTag, RefTag
      <4>5. c.kind = "binary" => t.tag # "CompactObjectBegin"
        <5>1. c.kind = "binary" => BlobFills(c, t, 0)
          BY <4>3, FillsIs
        <5>2. BlobFills(c, t, 0) => t = [tag |-> "CompactBinaryBlob"]
          BY DEF BlobFills
        <5>3. t = [tag |-> "CompactBinaryBlob"] => t.tag = "CompactBinaryBlob"
          OBVIOUS
        <5>4. QED BY <5>1, <5>2, <5>3
      <4>6. c.kind = "array" => t.tag # "CompactObjectBegin"
        BY <4>3, FillsIs
      <4>7. c.kind \in {"null", "bool", "int", "float", "rtid"} => t.tag # "CompactObjectBegin"
        <5>1. SUFFICES ASSUME c.kind \in {"null", "bool", "int", "float", "rtid"} PROVE t.tag # "CompactObjectBegin"
          OBVIOUS
        <5>2. t = ScalarToken(c) /\ c \in Scalars
          BY <2>1, <4>1, <4>3, <5>1, FillsIs DEF Part
        <5>3. /\ c.kind = "null" => t = CompactRtid(0, <<>>, <<>>)
              /\ c.kind = "bool" => t = [tag |-> "CompactBoolean", byte |-> IF c.bool THEN 1 ELSE 0]
              /\ c.kind = "int" => t.tag \in FixedTags
              /\ c.kind = "float" => t = [tag |-> IF c.ty = "f32" THEN "F32" ELSE "F64", val |-> c.val]
              /\ c.kind = "rtid" => t.tag = "CompactRtid"
          BY <5>2, ScalarIs
        <5>4. c.kind = "null" => t.tag = "CompactRtid"
          BY <5>3 DEF CompactRtid
        <5>5. c.kind = "bool" => t.tag = "CompactBoolean"
          BY <5>3
        <5>6. c.kind = "float" => t.tag \in {"F32", "F64"}
          BY <5>3
        <5>7. QED BY <5>1, <5>3, <5>4, <5>5, <5>6 DEF FixedTags
      <4>8. QED BY <2>1, <4>1, <4>2, <4>4, <4>5, <4>6, <4>7
    <3>2. Refused
      BY <2>2, <3>1, FailRefuses DEF R!validate_header
    <3>3. QED BY <1>2, <2>4, <3>2
  <2>5. QED BY <2>3, <2>4
<1>6. QED BY <1>1, <1>3, <1>4, <1>5

LEMMA RootReads ==
  ASSUME UNCHANGED cvars, NEW at, NEW sh, NEW s, InFile(at, sh, s), Reading(at, sh, s),
         phase = "root", R!enter_root
  PROVE  Outcome /\ Reading(at, sh, s)'
<1>1. /\ s \in Nat /\ result \in {"ok", "err", "panic"} /\ seen = <<>> /\ pos = 2 /\ s >= 2 /\ wrote[1].kind = "object"
  BY RootTok DEF InFile, Reading
<1>2. /\ R!Tok(2).tag = bytes[2].tok.tag /\ bytes[1].tok.tag = "(header)" /\ 1 \in 1 .. Len(wrote)
      /\ Fills(wrote[1], bytes[2].tok, 0) /\ at[1] = 2 + Weight(wrote[1])
      /\ sh[1] = Grown(<<>>, wrote[1], bytes[2])
  BY <1>1, RootTok
<1>3. bytes[2].tok.tag = "CompactObjectBegin"
  <2>1. bytes[2].tok = [tag |-> "CompactObjectBegin"]
    BY <1>1, <1>2, FillsIs
  <2>2. QED BY <2>1
<1>4. R!Tag = "CompactObjectBegin"
  BY <1>1, <1>2, <1>3 DEF R!Tag, R!TagAt
<1>5. PICK g : g = <<[kind |-> "map", left |-> 0, table |-> <<>>]>>
  OBVIOUS
<1>6. /\ phase' = "body" /\ pos' = 3 /\ frames' = g /\ seen' = Append(seen, [visit |-> "map"])
      /\ compact_latin1' = compact_latin1 /\ compact_utf32' = compact_utf32
  BY <1>1, <1>4, <1>5 DEF R!enter_root, R!Strings4, R!Compact2
<1>7. at[1] = 3 /\ at[1] <= s + 1
  BY <1>1, <1>2, WeightIs
<1>8. frames' = Frames(words, sh[1]) /\ frames' # <<>>
  <2>1. sh[1] = Append(<<>>, ObjectFrame)
    <3>1. Ticked(<<>>) = <<>>
      BY DEF Ticked
    <3>2. PICK c, x : c = wrote[1] /\ x = bytes[2]
      OBVIOUS
    <3>3. c.kind = "object" => Grown(<<>>, c, x) = Append(Ticked(<<>>), ObjectFrame)
      BY GrownIs
    <3>4. sh[1] = Grown(<<>>, c, x) /\ c.kind = "object"
      BY <1>1, <1>2, <3>2
    <3>5. QED BY <3>1, <3>3, <3>4
  <2>2. Frames(words, <<>>) = <<>>
    BY DEF Frames
  <2>3. Frames(words, Append(<<>>, ObjectFrame)) = Append(Frames(words, <<>>), Opened(words, ObjectFrame))
    <3>1. PICK q \in Seq(OpenFrame) : q = <<>>
      <4>1. <<>> \in Seq(OpenFrame)
        OBVIOUS
      <4>2. QED BY <4>1
    <3>2. PICK f \in OpenFrame : f = ObjectFrame
      BY ObjectFrameTyped
    <3>3. Frames(words, Append(q, f)) = Append(Frames(words, q), Opened(words, f))
      BY FramesAppend
    <3>4. QED BY <3>1, <3>2, <3>3
  <2>4. Opened(words, ObjectFrame) = [kind |-> "map", left |-> 0, table |-> <<>>]
    BY DEF Opened, ObjectFrame
  <2>5. g = Append(<<>>, [kind |-> "map", left |-> 0, table |-> <<>>]) /\ g # <<>>
    BY <1>5
  <2>6. QED BY <1>6, <2>1, <2>2, <2>3, <2>4, <2>5
<1>9. Canon(wrote[1]) = [visit |-> "map"]
  BY <1>1, CanonIs
<1>10. PICK n : n = 1
  OBVIOUS
<1>11. Len(wrote) \in Nat /\ Len(seen) = 0 /\ Len(seen) < Len(wrote) /\ n = Len(seen) + 1
  <2>1. Len(wrote) \in Nat
    BY WroteTyped DEF InFile, IInv
  <2>2. QED BY <1>1, <1>2, <1>10, <2>1
<1>12. Handed
  BY <1>6, <1>9, <1>10, <1>11 DEF Handed
<1>13. Knowing(bytes, compact_latin1', compact_utf32', at[n])
  <2>1. bytes[1].tok.tag \notin CompactDefs /\ bytes[2].tok.tag \notin CompactDefs
    BY <1>2, <1>3 DEF CompactDefs, Latin1Defs, Utf32Defs
  <2>2. \A l, u : Knows1(l, u, bytes[1]) /\ Knows1(l, u, bytes[2])
    BY <2>1 DEF Knows1, CompactDefs
  <2>3. at[n] = 3 /\ \A j \in 1 .. 3 - 1 : j = 1 \/ j = 2
    BY <1>7, <1>10
  <2>4. QED BY <2>2, <2>3 DEF Knowing
<1>14. /\ pos' = at[n] /\ at[n] <= s + 1 /\ frames' = Frames(words, sh[n])
       /\ phase' = IF frames' = <<>> THEN "footer" ELSE "body"
  BY <1>6, <1>7, <1>8, <1>10
<1>15. Reading(at, sh, s)'
  BY <1>1, <1>11, <1>12, <1>13, <1>14, HandedReads
<1>16. QED BY <1>12, <1>15 DEF Outcome

LEMMA NoFrames ==
  ASSUME NEW w, NEW q \in Seq(OpenFrame)
  PROVE  Frames(w, q) = <<>> <=> q = <<>>
<1>1. PICK m, g : m = Len(q) /\ g = Frames(w, q)
  OBVIOUS
<1>2. m \in Nat /\ DOMAIN g = 1 .. m /\ (q = <<>> <=> m = 0)
  BY <1>1 DEF Frames
<1>3. m = 0 => g = <<>>
  BY <1>1 DEF Frames
<1>4. DOMAIN <<>> = {} /\ (m # 0 => 1 \in 1 .. m)
  BY <1>2
<1>5. QED BY <1>1, <1>2, <1>3, <1>4

LEMMA FooterReads ==
  ASSUME UNCHANGED cvars, NEW at, NEW sh, NEW s, InFile(at, sh, s), Reading(at, sh, s),
         phase = "footer", R!validate_footer
  PROVE  Outcome /\ Reading(at, sh, s)'
<1>1. /\ result \in {"ok", "err", "panic"} /\ s >= 2 /\ s \in Nat /\ wrote[1].kind = "object" /\ seen # <<>>
      /\ pos = at[Len(seen)] /\ pos <= s + 1 /\ frames = Frames(words, sh[Len(seen)]) /\ frames = <<>>
      /\ Len(seen) <= Len(wrote) /\ \E S : seen \in Seq(S)
  BY RootTok DEF InFile, Reading
<1>2. Lies(at, sh, s) /\ Full(at, sh)
  BY <1>1, InFileIs
<1>3. PICK m, l : m = Len(seen) /\ l = Len(wrote)
  OBVIOUS
<1>4. m \in Nat \ {0} /\ l \in Nat /\ m <= l /\ m \in 0 .. Len(wrote)
  BY <1>1, <1>2, <1>3, FullFacts
<1>5. sh[m] = <<>>
  <2>1. sh[m] \in Seq(OpenFrame)
    BY <1>2, <1>4, FullFacts
  <2>2. QED BY <1>1, <1>3, <2>1, NoFrames
<1>6. m = l
  <2>1. SUFFICES ASSUME m # l PROVE FALSE
    OBVIOUS
  <2>2. PICK n : n = m + 1
    OBVIOUS
  <2>3. n \in 1 .. Len(wrote) /\ n - 1 = m /\ n # 1
    BY <1>3, <1>4, <2>1, <2>2
  <2>4. Legal(n, sh[n - 1], wrote[n])
    BY <1>2, <2>3, PartFacts
  <2>5. QED BY <1>5, <2>3, <2>4 DEF Legal
<1>7. pos = Len(bytes) /\ bytes[Len(bytes)].tok.tag = "(footer)" /\ Len(bytes) \in Nat \ {0, 1}
  <2>1. /\ at[Len(wrote)] = Len(bytes) /\ bytes[Len(bytes)].tok.tag = "(footer)" /\ Len(wrote) \in 0 .. Len(wrote)
        /\ \A n \in 0 .. Len(wrote) : at[n] \in Nat \ {0, 1}
    BY <1>2, <1>3, <1>4, FullFacts
  <2>2. QED BY <1>1, <1>3, <1>6, <2>1
<1>8. /\ \A i \in 1 .. s : R!Tok(i) = TokenIn(bytes[i]) /\ bytes[i] \in Item
      /\ R!Tok(s + 1).tag \in Loose /\ s <= Len(bytes)
      /\ result = "ok" => s = Len(bytes)
      /\ result # "ok" => s = 0 \/ s < Len(bytes)
  BY <1>2, FileToks
<1>9. CASE result = "ok"
  <2>1. pos \in 1 .. s
    BY <1>1, <1>7, <1>8, <1>9
  <2>2. R!Tok(pos).tag = "(footer)"
    <3>1. PICK x, t : x = bytes[pos] /\ t = R!Tok(pos)
      OBVIOUS
    <3>2. x \in Item /\ t = TokenIn(x)
      BY <1>8, <2>1, <3>1
    <3>3. t.tag = x.tok.tag
      BY <3>2, TokenInIs
    <3>4. QED BY <1>7, <3>1, <3>3
  <2>3. R!Tag = "(footer)"
    BY <2>2 DEF R!Tag, R!TagAt
  <2>4. phase' = "ok" /\ seen' = seen
    BY <2>3 DEF R!validate_footer
  <2>5. Reading(at, sh, s)'
    BY <1>1, <2>4, EndedReads
  <2>6. QED BY <1>1, <1>3, <1>6, <1>9, <2>4, <2>5 DEF Outcome, Taken
<1>10. CASE result # "ok"
  <2>1. PICK p : p = pos
    OBVIOUS
  <2>2. p = s + 1
    <3>1. PICK b : b = Len(bytes)
      OBVIOUS
    <3>2. p = b /\ p <= s + 1 /\ s < b /\ s \in Nat /\ b \in Nat
      BY <1>1, <1>7, <1>8, <1>10, <2>1, <3>1
    <3>3. QED BY <3>2
  <2>3. R!Tok(p).tag \in Loose
    BY <1>8, <2>2
  <2>4. R!Tag # "(footer)"
    BY <2>1, <2>3 DEF R!Tag, R!TagAt, Loose
  <2>5. Refused
    BY <2>4, FailRefuses DEF R!validate_footer
  <2>6. Reading(at, sh, s)'
    BY <1>1, <2>5, EndedReads DEF Refused
  <2>7. QED BY <1>10, <2>5, <2>6 DEF Outcome, Broken
<1>11. QED BY <1>9, <1>10

LEMMA BodyReads ==
  ASSUME UNCHANGED cvars, NEW at, NEW sh, NEW s, InFile(at, sh, s), Reading(at, sh, s),
         phase = "body", R!DNext
  PROVE  Outcome /\ Reading(at, sh, s)'
<1>1. /\ result \in {"ok", "err", "panic"} /\ s >= 2 /\ s \in Nat /\ wrote[1].kind = "object" /\ seen # <<>>
      /\ pos = at[Len(seen)] /\ pos <= s + 1 /\ frames = Frames(words, sh[Len(seen)]) /\ frames # <<>>
      /\ Len(seen) <= Len(wrote) /\ Knowing(bytes, compact_latin1, compact_utf32, pos)
  BY RootTok DEF InFile, Reading
<1>2. Lies(at, sh, s) /\ Full(at, sh) /\ \E S : seen \in Seq(S)
  BY <1>1, InFileIs DEF Reading
<1>3. PICK m, l, n : m = Len(seen) /\ l = Len(wrote) /\ n = Len(seen) + 1
  OBVIOUS
<1>4. m \in Nat \ {0} /\ l \in Nat /\ m <= l /\ m \in 0 .. Len(wrote) /\ n = m + 1 /\ n - 1 = m
  BY <1>1, <1>2, <1>3, FullFacts
<1>5. sh[m] # <<>>
  <2>1. sh[m] \in Seq(OpenFrame)
    BY <1>2, <1>4, FullFacts
  <2>2. QED BY <1>1, <1>3, <2>1, NoFrames
<1>6. m # l
  <2>1. sh[l] = <<>>
    BY <1>2, <1>3, FullFacts
  <2>2. QED BY <1>5, <2>1
<1>7. n \in 2 .. Len(wrote) /\ m < l
  BY <1>3, <1>4, <1>6
<1>8. InBody(at, sh, s, n)
  BY <1>1, <1>2, <1>3, <1>4, <1>5, <1>7 DEF InBody
<1>9. CASE at[n] <= s + 1
  <2>1. Took(at, sh, n)
    BY <1>8, <1>9, ReadPart
  <2>2. /\ seen' = Append(seen, Canon(wrote[n])) /\ pos' = at[n] /\ frames' = Frames(words, sh[n])
        /\ phase' = IF frames' = <<>> THEN "footer" ELSE "body"
        /\ Knowing(bytes, compact_latin1', compact_utf32', at[n])
    BY <2>1 DEF Took
  <2>3. phase' \in {"body", "footer"}
    BY <2>2
  <2>4. Handed
    BY <1>3, <1>7, <2>2, <2>3 DEF Handed
  <2>5. Len(wrote) \in Nat
    BY <1>3, <1>4
  <2>6. Reading(at, sh, s)'
    BY <1>1, <1>3, <1>9, <2>2, <2>4, <2>5, HandedReads
  <2>7. QED BY <2>4, <2>6 DEF Outcome
<1>10. CASE ~(at[n] <= s + 1)
  <2>1. Refused
    BY <1>8, <1>10, ReadTorn
  <2>2. result # "ok"
    <3>1. SUFFICES ASSUME result = "ok" PROVE FALSE
      OBVIOUS
    <3>2. s = Len(bytes)
      BY <1>2, <3>1, FileToks
    <3>3. l \in 0 .. Len(wrote) /\ n \in 0 .. l
      BY <1>3, <1>4, <1>7
    <3>4. at[n] <= at[l]
      BY <1>2, <3>3, Onwards
    <3>5. at[l] = Len(bytes) /\ at[n] \in Nat
      <4>1. n \in 0 .. Len(wrote)
        BY <1>3, <3>3
      <4>2. QED BY <1>2, <1>3, <4>1, FullFacts
    <3>6. QED BY <1>1, <1>10, <3>2, <3>4, <3>5
  <2>3. Reading(at, sh, s)'
    BY <1>1, <2>1, EndedReads DEF Refused
  <2>4. QED BY <1>1, <2>1, <2>2, <2>3 DEF Outcome, Broken
<1>11. QED BY <1>9, <1>10

LEMMA ReadStep ==
  ASSUME Read, NEW at, NEW sh, NEW s, InFile(at, sh, s), Reading(at, sh, s)
  PROVE  Outcome /\ Reading(at, sh, s)'
<1>1. UNCHANGED cvars /\ R!DNext
  BY DEF Read
<1>2. CASE phase = "header" /\ R!validate_header
  BY <1>1, <1>2, HeaderReads
<1>3. CASE phase = "root" /\ R!enter_root
  BY <1>1, <1>3, RootReads
<1>4. CASE phase = "body"
  BY <1>1, <1>4, BodyReads
<1>5. CASE phase = "footer" /\ R!validate_footer
  BY <1>1, <1>5, FooterReads
<1>6. QED BY <1>1, <1>2, <1>3, <1>4, <1>5, PhaseStep
-----------------------------------------------------------------------------
(* Both ends together.                                                     *)
RInv == \E at, sh, s : WState(at, sh) /\ FileIs(s) /\ Reading(at, sh, s)
Both == IInv /\ PInv /\ LInv /\ RInv

LEMMA InitBoth == RTInit => Both
<1> SUFFICES ASSUME RTInit PROVE Both
  OBVIOUS
<1>1. CInit /\ R!DInit
  BY DEF RTInit
<1>2. IInv /\ PInv /\ LInv
  BY <1>1, InitOK, InitPlaces, InitInOrder
<1>3. PICK at, sh, s : WState(at, sh) /\ FileIs(s)
  BY <1>2 DEF LInv
<1>4. phase = "header" /\ pos = 1 /\ seen = <<>>
  BY <1>1 DEF R!DInit
<1>5. seen \in Seq({}) /\ Len(seen) = 0 /\ 0 <= Len(wrote)
  <2>1. Len(wrote) \in Nat
    BY <1>2, WroteTyped DEF IInv
  <2>2. QED BY <1>4, <2>1
<1>6. Reading(at, sh, s)
  BY <1>4, <1>5 DEF Reading
<1>7. QED BY <1>2, <1>3, <1>6 DEF Both, RInv

(* What a step of the writer comes to: one part more, or the end.          *)
Adding  == /\ result' \in {"new", "run", "sealed"}
           /\ wrote' = wrote \/ \E e : wrote' = Append(wrote, e)
Closing == result' \in {"ok", "err", "panic"} /\ wrote' = wrote

LEMMA WriteStep ==
  ASSUME CNext
  PROVE  result \in {"new", "run", "sealed"} /\ (Adding \/ Closing)
<1>1. \A how \in {"err", "panic"} : Abort(how) => Closing
  BY DEF Abort, Closing
<1>2. position_u32_fails => Closing
  BY <1>1 DEF position_u32_fails
<1>3. \A s, wide : string_fails(s, wide) => Closing
  BY <1>1 DEF string_fails
<1>4. CASE write_header \/ write_footer \/ write_all
  BY <1>4 DEF write_header, write_footer, write_all, Adding, Closing
<1>5. ASSUME Within PROVE result \in {"new", "run", "sealed"} /\ (Adding \/ Closing)
  <2>1. result = "run"
    BY <1>5, InnerGoesOn
  <2>2. CASE \E v \in Scalars : write_scalar(v)
    BY <2>1, <2>2 DEF write_scalar, Adding
  <2>3. CASE \E s \in Strings : write_string(s) \/ write_key(s)
    BY <1>3, <2>1, <2>3 DEF write_string, write_key, Adding
  <2>4. CASE \E b \in Blobs : write_binary_blob(b)
    BY <2>1, <2>4 DEF write_binary_blob, Adding
  <2>5. CASE blob_text
    BY <1>3, <2>1, <2>5 DEF blob_text, Adding
  <2>6. CASE blob_raw
    BY <2>1, <2>6 DEF blob_raw, Adding
  <2>7. CASE \E n \in 0 .. MaxLen : write_array(n) \/ write_object(n)
    BY <2>1, <2>7 DEF write_array, write_object, Adding
  <2>8. CASE element_offset \/ end_array
    BY <1>2, <2>1, <2>8 DEF element_offset, end_array, Adding
  <2>9. CASE value_offset \/ end_object
    BY <1>2, <2>1, <2>9 DEF value_offset, end_object, Adding
  <2>10. QED BY <1>5, <2>1, <2>2, <2>3, <2>4, <2>5, <2>6, <2>7, <2>8, <2>9 DEF Within
<1>6. QED BY <1>4, <1>5 DEF CNext, Within

(* While it is written the reader waits.                                   *)
LEMMA WriteBoth == ASSUME Both, Write PROVE Both'
<1>1. CNext /\ UNCHANGED rvars /\ result \in {"new", "run", "sealed"}
  BY WriteStep DEF Write
<1>2. IInv' /\ PInv' /\ LInv'
  BY <1>1, NextOK, NextPlaces, NextInOrder DEF Both
<1>3. PICK at, sh, s : WState(at, sh)' /\ FileIs(s)'
  BY <1>2 DEF LInv
<1>4. PICK b, t, d : Reading(b, t, d)
  BY DEF Both, RInv
<1>5. phase = "header" /\ seen = <<>> /\ pos = 1
  BY <1>1, <1>4 DEF Reading
<1>6. phase' = "header" /\ seen' = <<>> /\ pos' = 1
  BY <1>1, <1>5 DEF rvars
<1>7. seen' \in Seq({}) /\ Len(seen') = 0 /\ 0 <= Len(wrote')
  <2>1. wrote' \in Seq(Part)
    BY <1>2 DEF IInv, TypeOK
  <2>2. QED BY <1>6, <2>1
<1>8. Reading(at, sh, s)'
  BY <1>6, <1>7 DEF Reading
<1>9. QED BY <1>2, <1>3, <1>8 DEF Both, RInv

LEMMA IdleBoth == ASSUME Both, UNCHANGED vars PROVE Both'
<1>1. UNCHANGED cvars /\ UNCHANGED rvars
  BY DEF vars
<1>2. IInv' /\ PInv' /\ LInv'
  BY <1>1, NextOK, NextPlaces, NextInOrder DEF Both
<1>3. PICK at, sh, s : WState(at, sh) /\ FileIs(s) /\ Reading(at, sh, s)
  BY DEF Both, RInv
<1>4. WState(at, sh)' /\ FileIs(s)'
  BY <1>1, <1>3, StutterKeeps
<1>5. Reading(at, sh, s)'
  BY <1>1, <1>3 DEF cvars, rvars, Reading
<1>6. QED BY <1>2, <1>4, <1>5 DEF Both, RInv

LEMMA ReadBoth == ASSUME Both, Read PROVE Both' /\ Outcome
<1>1. UNCHANGED cvars /\ result \in {"ok", "err", "panic"}
  BY DEF Read
<1>2. IInv' /\ PInv' /\ LInv'
  BY <1>1, NextOK, NextPlaces, NextInOrder DEF Both
<1>3. PICK at, sh, s : WState(at, sh) /\ FileIs(s) /\ Reading(at, sh, s)
  BY DEF Both, RInv
<1>4. WState(at, sh)' /\ FileIs(s)'
  BY <1>1, <1>3, StutterKeeps
<1>5. InFile(at, sh, s)
  BY <1>1, <1>3 DEF Both, LInv, InFile
<1>6. Outcome /\ Reading(at, sh, s)'
  BY <1>3, <1>5, ReadStep
<1>7. QED BY <1>2, <1>4, <1>6 DEF Both, RInv

(* The channel that the two ends implement, under names.                   *)
Sent     == [i \in DOMAIN wrote |-> Canon(wrote[i])]
Received == seen
Status   == CASE result \in {"new", "run", "sealed"} -> "open"
              [] result = "ok" -> IF wrote[1].kind = "object" THEN "complete" ELSE "broken"
              [] result \in {"err", "panic"} -> "broken"
Verdict  == CASE phase = "ok" -> "accepted" [] phase = "err" -> "refused" [] OTHER -> "none"

LEMMA WriteSends ==
  ASSUME Both, Both', Write
  PROVE  [Channel!Next]_(Channel!vars)
<1>1. CNext /\ result \in {"new", "run", "sealed"} /\ UNCHANGED rvars /\ wrote \in Seq(Part) /\ wrote' \in Seq(Part)
  BY WriteStep DEF Write, Both, IInv, TypeOK
<1>2. Status = "open" /\ Received' = Received /\ Verdict' = Verdict
  BY <1>1 DEF Status, Received, Verdict, rvars
<1>3. CASE result' \in {"new", "run", "sealed"} /\ wrote' = wrote
  <2>1. Sent' = Sent /\ Status' = Status
    BY <1>2, <1>3 DEF Sent, Status
  <2>2. QED BY <1>2, <2>1 DEF Channel!vars, Sent, Status, Received, Verdict
<1>4. CASE result' \in {"new", "run", "sealed"} /\ \E e : wrote' = Append(wrote, e)
  <2>1. PICK e : wrote' = Append(wrote, e)
    BY <1>4
  <2>2. Status' = Status
    BY <1>2, <1>4 DEF Status
  <2>3. /\ Len(wrote') = Len(wrote) + 1 /\ Len(wrote) \in Nat
        /\ \A i \in 1 .. Len(wrote) : wrote'[i] = wrote[i]
    BY <1>1, <2>1
  <2>4. PICK l \in Nat : l = Len(wrote)
    BY <2>3
  <2>5. DOMAIN wrote = 1 .. l /\ DOMAIN wrote' = 1 .. l + 1
    BY <1>1, <2>3, <2>4
  <2>6. Sent = [i \in 1 .. l |-> Canon(wrote[i])] /\ Sent' = [i \in 1 .. l + 1 |-> Canon(wrote'[i])]
    BY <2>5 DEF Sent, Canon
  <2>7. Len(Sent) = l /\ Len(Sent') = l + 1
    BY <2>6
  <2>8. SubSeq(Sent', 1, l) = Sent
    BY <2>3, <2>4, <2>6
  <2>9. Channel!Send
    BY <1>2, <2>2, <2>7, <2>8, Zenon DEF Channel!Send, Sent, Status, Received, Verdict
  <2>10. QED BY <2>9 DEF Channel!Next
<1>5. CASE Closing
  <2>1. Sent' = Sent /\ Status' \in {"complete", "broken"}
    BY <1>5 DEF Sent, Status, Closing
  <2>2. Channel!Close
    BY <1>2, <2>1, Zenon DEF Channel!Close, Sent, Status, Received, Verdict
  <2>3. QED BY <2>2 DEF Channel!Next
<1>6. QED BY <1>1, <1>3, <1>4, <1>5, WriteStep DEF Adding

LEMMA ReadReceives ==
  ASSUME Both, Read, Outcome
  PROVE  [Channel!Next]_(Channel!vars)
<1>1. result \in {"ok", "err", "panic"} /\ wrote \in Seq(Part) /\ wrote' = wrote /\ result' = result
  BY DEF Both, Read, cvars, IInv, TypeOK
<1>2. Status \in {"complete", "broken"} /\ Sent' = Sent /\ Status' = Status
  BY <1>1 DEF Status, Sent
<1>3. PICK at, sh, s : Reading(at, sh, s)
  BY DEF Both, RInv
<1>4. PICK S : seen \in Seq(S)
  BY <1>3 DEF Reading
<1>5. /\ Len(seen) <= Len(wrote) /\ Len(seen) \in Nat /\ Len(wrote) \in Nat
      /\ \A i \in 1 .. Len(seen) : seen[i] = Canon(wrote[i])
      /\ DOMAIN seen = 1 .. Len(seen) /\ DOMAIN wrote = 1 .. Len(wrote)
  BY <1>1, <1>3, <1>4 DEF Reading
<1>6. CASE Handed
  <2>1. Verdict = "none" /\ Verdict' = Verdict
    BY <1>6 DEF Handed, Verdict
  <2>2. PICK m, l \in Nat : m = Len(seen) /\ l = Len(wrote) /\ m < l
    BY <1>5, <1>6 DEF Handed
  <2>3. Sent = [i \in 1 .. l |-> Canon(wrote[i])]
    BY <1>5, <2>2 DEF Sent
  <2>4. Len(Sent) = l /\ Sent[m + 1] = Canon(wrote[m + 1]) /\ Len(Received) = m
    BY <2>2, <2>3 DEF Received
  <2>5. seen' = Append(seen, Canon(wrote[m + 1]))
    BY <1>6, <2>2 DEF Handed
  <2>6. Status # "open" /\ Len(Received) < Len(Sent) /\ Received' = Append(Received, Sent[Len(Received) + 1])
    BY <1>2, <2>2, <2>4, <2>5 DEF Received
  <2>7. Channel!Receive
    BY <1>2, <2>1, <2>6, Zenon DEF Channel!Receive, Sent, Status, Received, Verdict
  <2>8. QED BY <2>7 DEF Channel!Next
<1>7. CASE Passed
  <2>1. Received' = Received /\ Verdict' = Verdict
    BY <1>7 DEF Passed, Received, Verdict
  <2>2. QED BY <1>2, <2>1 DEF Channel!vars, Sent, Status, Received, Verdict
<1>8. CASE Taken
  <2>1. /\ Verdict = "none" /\ Verdict' = "accepted" /\ Received' = Received /\ Status = "complete"
    BY <1>8 DEF Taken, Verdict, Received, Status
  <2>2. Received = Sent
    <3>1. seen = [i \in 1 .. Len(seen) |-> seen[i]]
      BY <1>4
    <3>2. Sent = [i \in 1 .. Len(seen) |-> Canon(wrote[i])]
      BY <1>5, <1>8 DEF Taken, Sent
    <3>3. QED BY <1>5, <3>1, <3>2 DEF Received
  <2>3. Channel!Accept
    BY <1>2, <2>1, <2>2, Zenon DEF Channel!Accept, Sent, Status, Received, Verdict
  <2>4. QED BY <2>3 DEF Channel!Next
<1>9. CASE Broken
  <2>1. Verdict = "none" /\ Verdict' = "refused" /\ Received' = Received
    BY <1>9 DEF Broken, Refused, Verdict, Received
  <2>2. Status = "broken"
    BY <1>1, <1>9 DEF Broken, Status
  <2>3. Channel!Refuse
    BY <1>2, <2>1, <2>2, Zenon DEF Channel!Refuse, Sent, Status, Received, Verdict
  <2>4. QED BY <2>3 DEF Channel!Next
<1>10. QED BY <1>6, <1>7, <1>8, <1>9 DEF Outcome

(* to_compact_writer and from_reader, for every value of every depth and   *)
(* however the file was cut: what is read is what was written, part by     *)
(* part and in order; a finished file with an object for its root is       *)
(* accepted with every part of it and never refused; any other is never    *)
(* accepted (ser.rs:203-465, de.rs:128-562, 675-751).                      *)
THEOREM ReadsWhatWasWritten == RTSpec => RoundTrip
<1>1. RTInit => Both
  BY InitBoth
<1>2. Both /\ [RTNext]_vars => Both'
  <2>1. SUFFICES ASSUME Both, [RTNext]_vars PROVE Both'
    OBVIOUS
  <2>2. CASE Write
    BY <2>1, <2>2, WriteBoth
  <2>3. CASE Read
    BY <2>1, <2>3, ReadBoth
  <2>4. CASE UNCHANGED vars
    BY <2>1, <2>4, IdleBoth
  <2>5. QED BY <2>1, <2>2, <2>3, <2>4 DEF RTNext
<1>3. RTInit => Channel!Init
  <2>1. SUFFICES ASSUME RTInit PROVE Channel!Init
    OBVIOUS
  <2>2. wrote = <<>> /\ seen = <<>> /\ result = "new" /\ phase = "header"
    BY <2>1 DEF RTInit, CInit, R!DInit
  <2>3. DOMAIN wrote = {}
    BY <2>2
  <2>4. Sent = <<>> /\ Received = <<>>
    BY <2>2, <2>3 DEF Sent, Received
  <2>5. Status = "open" /\ Verdict = "none"
    BY <2>2 DEF Status, Verdict
  <2>6. QED BY <2>4, <2>5, Zenon DEF Channel!Init, Sent, Received, Status, Verdict
<1>4. Both /\ Both' /\ [RTNext]_vars => [Channel!Next]_(Channel!vars)
  <2>1. SUFFICES ASSUME Both, Both', [RTNext]_vars PROVE [Channel!Next]_(Channel!vars)
    OBVIOUS
  <2>2. CASE Write
    BY <2>1, <2>2, WriteSends
  <2>3. CASE Read
    BY <2>1, <2>3, ReadBoth, ReadReceives
  <2>4. CASE UNCHANGED vars
    BY <2>4 DEF vars, cvars, rvars, Channel!vars
  <2>5. QED BY <2>1, <2>2, <2>3, <2>4 DEF RTNext
<1>5. QED BY <1>1, <1>2, <1>3, <1>4, PTL DEF RTSpec, RoundTrip, Channel!Safe
=============================================================================
