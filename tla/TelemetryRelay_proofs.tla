------------------------ MODULE TelemetryRelay_proofs ------------------------
(***************************************************************************)
(* RelayInvariant is inductive, hence FrSkyX frames are relayed unmixed    *)
(* and once, and the hub protocols' answers are passed on once and whole,  *)
(* for every length and stuffing of the frames.                            *)
(***************************************************************************)
EXTENDS TelemetryRelay, FiniteSetTheorems, WellFoundedInduction, TLAPS

LEMMA Sizes ==
  /\ SIZE \in Nat /\ SIZE > 1 /\ CHUNK \in Nat /\ CHUNK <= SIZE
  /\ Stuffed \subseteq 1 .. SIZE /\ SLOTS \in Nat \ {0} /\ MISSES \in Nat
<1>1. SLOTS # 0
  <2>1. ASSUME SLOTS = 0 PROVE FALSE
    <3>1. 0 .. SLOTS - 1 = {} BY <2>1
    <3> QED BY <3>1, SportAssumption
  <2> QED BY <2>1
<1> QED BY <1>1, SportAssumption

-----------------------------------------------------------------------------
(***************************************************************************)
(* The bytes on the wire.                                                  *)
(***************************************************************************)
\* Every set of numbers has a least one: what stands for induction below.
LEMMA LeastNumber ==
  ASSUME NEW T \in SUBSET Nat, T # {}
  PROVE  \E x \in T : \A y \in T : x <= y
<1> DEFINE R == {ss \in Nat \X Nat : ss[1] < ss[2]}
<1>1. IsWellFoundedOn(R, Nat) BY NatLessThanWellFounded DEF OpToRel
<1> HIDE DEF R
<1>2. PICK x \in T : \A y \in T : ~ (<<y, x>> \in R) BY <1>1, WFMin
<1>3. ASSUME NEW y \in T PROVE x <= y
  <2>1. x \in Nat /\ y \in Nat OBVIOUS
  <2>2. ~ (<<y, x>> \in R) BY <1>2
  <2>3. y < x => <<y, x>> \in R BY <2>1 DEF R
  <2> QED BY <2>1, <2>2, <2>3
<1> QED BY <1>2, <1>3

WireBytes == [kind : {"start", "escape", "stuffed", "plain"}, place : 0 .. SIZE]
Start     == <<Of("start", 0)>>

LEMMA ByteIs ==
  ASSUME NEW i \in 1 .. SIZE
  PROVE  /\ Byte(i) \in Seq(WireBytes)
         /\ i \in Stuffed => /\ Len(Byte(i)) = 2
                             /\ Byte(i)[1] = Of("escape", i)
                             /\ Byte(i)[2] = Of("stuffed", i)
         /\ i \notin Stuffed => Len(Byte(i)) = 1 /\ Byte(i)[1] = Of("plain", i)
<1>1. /\ Of("escape", i) \in WireBytes /\ Of("stuffed", i) \in WireBytes
      /\ Of("plain", i) \in WireBytes
  BY Sizes DEF Of, WireBytes
<1> HIDE DEF Of
<1>2. CASE i \in Stuffed BY <1>1, <1>2 DEF Byte
<1>3. CASE i \notin Stuffed BY <1>1, <1>3 DEF Byte
<1> QED BY <1>2, <1>3

\* The bytes up to every place, as a function.
Grows(g, n) ==
  /\ g \in [0 .. n -> Seq(WireBytes)] /\ g[0] = Start
  /\ \A i \in 1 .. n : g[i] = g[i - 1] \o Byte(i)

LEMMA GrowsMore ==
  ASSUME NEW n \in Nat, n < SIZE, NEW g, Grows(g, n)
  PROVE  \E h : Grows(h, n + 1)
<1> DEFINE h == [i \in 0 .. n + 1 |-> IF i <= n THEN g[i] ELSE g[n] \o Byte(n + 1)]
<1>1. n + 1 \in 1 .. SIZE /\ n \in 0 .. n /\ n + 1 \in 0 .. n + 1 BY Sizes
<1>2. Byte(n + 1) \in Seq(WireBytes) BY <1>1, ByteIs
<1>3. g \in [0 .. n -> Seq(WireBytes)] BY DEF Grows
<1>4. g[n] \o Byte(n + 1) \in Seq(WireBytes)
  <2>1. g[n] \in Seq(WireBytes) BY <1>1, <1>3
  <2> QED BY <1>2, <2>1
<1>5. h \in [0 .. n + 1 -> Seq(WireBytes)]
  <2>1. ASSUME NEW i \in 0 .. n + 1 PROVE h[i] \in Seq(WireBytes)
    <3>1. CASE i <= n
      <4>1. i \in 0 .. n BY <3>1
      <4> QED BY <1>3, <3>1, <4>1
    <3>2. CASE ~(i <= n) BY <1>4, <3>2
    <3> QED BY <3>1, <3>2
  <2> QED BY <2>1
<1>6. h[0] = Start
  <2>1. 0 \in 0 .. n + 1 /\ 0 <= n OBVIOUS
  <2> QED BY <2>1 DEF Grows
<1>7. ASSUME NEW i \in 1 .. n + 1 PROVE h[i] = h[i - 1] \o Byte(i)
  <2>1. i \in 0 .. n + 1 /\ i - 1 \in 0 .. n + 1 /\ i - 1 <= n OBVIOUS
  <2>2. h[i - 1] = g[i - 1] BY <2>1
  <2>3. CASE i <= n
    <3>1. h[i] = g[i] /\ i \in 1 .. n BY <2>1, <2>3
    <3> QED BY <2>2, <3>1 DEF Grows
  <2>4. CASE i = n + 1
    <3>1. ~(i <= n) /\ i - 1 = n BY <2>4
    <3>2. h[i] = g[n] \o Byte(i) BY <2>1, <2>4, <3>1
    <3> QED BY <2>2, <3>1, <3>2
  <2> QED BY <2>3, <2>4
<1> HIDE DEF h
<1>8. Grows(h, n + 1) BY <1>5, <1>6, <1>7 DEF Grows
<1> QED BY <1>8

LEMMA GrowsToTheEnd == \E g : Grows(g, SIZE)
<1> DEFINE T == {n \in 0 .. SIZE : ~ \E g : Grows(g, n)}
<1>1. SUFFICES ASSUME SIZE \in T PROVE FALSE BY Sizes
<1>2. T \in SUBSET Nat /\ T # {} BY <1>1, Sizes
<1>3. PICK m \in T : \A n \in T : m <= n
  <2> HIDE DEF T
  <2> QED BY <1>2, LeastNumber
<1>4. CASE m = 0
  <2> DEFINE g == [i \in 0 .. 0 |-> Start]
  <2>1. Start \in Seq(WireBytes) BY Sizes DEF Start, Of, WireBytes
  <2>2. Grows(g, 0) BY <2>1 DEF Grows
  <2> QED BY <1>3, <1>4, <2>2
<1>5. CASE m # 0
  <2>1. m - 1 \in 0 .. SIZE /\ m - 1 \notin T /\ m - 1 < SIZE
    BY <1>3, <1>5, Sizes
  <2>2. PICK g : Grows(g, m - 1) BY <2>1
  <2>3. m - 1 \in Nat /\ (m - 1) + 1 = m BY <1>3, <1>5, Sizes
  <2>4. \E h : Grows(h, m) BY <2>1, <2>2, <2>3, GrowsMore
  <2> QED BY <1>3, <2>4
<1> QED BY <1>4, <1>5

LEMMA UpToGrows == Grows(UpTo, SIZE)
<1>1. PICK g : Grows(g, SIZE) BY GrowsToTheEnd
<1>2. g = [i \in 0 .. SIZE |->
             IF i = 0 THEN <<Of("start", 0)>> ELSE g[i - 1] \o Byte(i)]
  <2>1. g = [i \in 0 .. SIZE |-> g[i]] BY <1>1 DEF Grows
  <2>2. \A i \in 0 .. SIZE :
          g[i] = IF i = 0 THEN <<Of("start", 0)>> ELSE g[i - 1] \o Byte(i)
    <3>1. \A i \in 0 .. SIZE : i # 0 => i \in 1 .. SIZE BY Sizes
    <3> QED BY <1>1, <3>1 DEF Grows, Start
  <2> QED BY <2>1, <2>2
<1>3. UpTo = [i \in 0 .. SIZE |->
                IF i = 0 THEN <<Of("start", 0)>> ELSE UpTo[i - 1] \o Byte(i)]
  BY <1>2 DEF UpTo
<1> DEFINE T == {n \in 0 .. SIZE : UpTo[n] # g[n]}
<1>4. ASSUME T # {} PROVE FALSE
  <2>1. T \in SUBSET Nat BY Sizes
  <2>2. PICK m \in T : \A n \in T : m <= n
    <3> HIDE DEF T
    <3> QED BY <1>4, <2>1, LeastNumber
  <2>3. m \in 0 .. SIZE /\ UpTo[m] # g[m] BY <2>2
  <2>4. UpTo[m] = IF m = 0 THEN <<Of("start", 0)>> ELSE UpTo[m - 1] \o Byte(m)
    BY <1>3, <2>3
  <2>5. g[m] = IF m = 0 THEN <<Of("start", 0)>> ELSE g[m - 1] \o Byte(m)
    BY <1>2, <2>3
  <2>6. m # 0 BY <2>3, <2>4, <2>5
  <2>7. m - 1 \in 0 .. SIZE /\ m - 1 \notin T BY <2>2, <2>3, <2>6, Sizes
  <2>8. UpTo[m - 1] = g[m - 1] BY <2>7
  <2> QED BY <2>3, <2>4, <2>5, <2>6, <2>8
<1>5. \A i \in 0 .. SIZE : UpTo[i] = g[i] BY <1>4
<1>6. DOMAIN UpTo = 0 .. SIZE /\ UpTo = [i \in 0 .. SIZE |-> UpTo[i]]
  BY <1>3
<1>7. g = [i \in 0 .. SIZE |-> g[i]] BY <1>1 DEF Grows
<1>8. UpTo = g BY <1>5, <1>6, <1>7
<1> QED BY <1>1, <1>8

LEMMA UpToIs ==
  /\ \A i \in 0 .. SIZE : UpTo[i] \in Seq(WireBytes)
  /\ UpTo[0] = Start
  /\ \A i \in 1 .. SIZE : UpTo[i] = UpTo[i - 1] \o Byte(i)
BY UpToGrows DEF Grows

\* Each place begins where the ones before end, and comes out on the wire.
LEMMA PlaceAdded ==
  ASSUME NEW k \in 0 .. SIZE - 1
  PROVE  /\ Len(UpTo[k]) \in Nat
         /\ Len(UpTo[k + 1]) = Len(UpTo[k]) + Len(Byte(k + 1))
         /\ \A p \in 1 .. Len(UpTo[k]) : UpTo[k + 1][p] = UpTo[k][p]
         /\ \A j \in 1 .. Len(Byte(k + 1)) :
              UpTo[k + 1][Len(UpTo[k]) + j] = Byte(k + 1)[j]
<1>1. k \in 0 .. SIZE /\ k + 1 \in 1 .. SIZE /\ (k + 1) - 1 = k BY Sizes
<1>2. UpTo[k] \in Seq(WireBytes) /\ Byte(k + 1) \in Seq(WireBytes)
  BY <1>1, UpToIs, ByteIs
<1>3. UpTo[k + 1] = UpTo[k] \o Byte(k + 1) BY <1>1, UpToIs
<1>4. \A s, t \in Seq(WireBytes) :
        /\ Len(s) \in Nat /\ Len(s \o t) = Len(s) + Len(t)
        /\ \A p \in 1 .. Len(s) : (s \o t)[p] = s[p]
        /\ \A j \in 1 .. Len(t) : (s \o t)[Len(s) + j] = t[j]
  OBVIOUS
<1>5. PICK s \in Seq(WireBytes), t \in Seq(WireBytes) :
        s = UpTo[k] /\ t = Byte(k + 1)
  BY <1>2
<1>6. PICK u : u = UpTo[k + 1] OBVIOUS
<1>7. u = s \o t BY <1>3, <1>5, <1>6
<1>8. /\ Len(s) \in Nat /\ Len(u) = Len(s) + Len(t)
      /\ \A p \in 1 .. Len(s) : u[p] = s[p]
      /\ \A j \in 1 .. Len(t) : u[Len(s) + j] = t[j]
  BY <1>4, <1>7
<1> QED BY <1>5, <1>6, <1>8, Zenon

\* What was sent up to a place stays the beginning of the wire.
LEMMA Prefixes ==
  ASSUME NEW k \in 0 .. SIZE
  PROVE  /\ k + 1 <= Len(UpTo[k]) /\ Len(UpTo[k]) <= Len(Wire)
         /\ \A p \in 1 .. Len(UpTo[k]) : Wire[p] = UpTo[k][p]
<1> DEFINE Good(i) == /\ i + 1 <= Len(UpTo[i])
                      /\ i >= k =>
                           /\ Len(UpTo[k]) <= Len(UpTo[i])
                           /\ \A p \in 1 .. Len(UpTo[k]) : UpTo[i][p] = UpTo[k][p]
           T == {i \in 0 .. SIZE : ~Good(i)}
<1>1. ASSUME T # {} PROVE FALSE
  <2>1. T \in SUBSET Nat BY Sizes
  <2>2. PICK m \in T : \A i \in T : m <= i
    <3> HIDE DEF T
    <3> QED BY <1>1, <2>1, LeastNumber
  <2>3. m \in 0 .. SIZE /\ ~Good(m) BY <2>2
  <2>4. m # 0
    <3>1. ASSUME m = 0 PROVE Good(m)
      <4>1. Len(UpTo[0]) = 1 BY UpToIs DEF Start
      <4>2. 0 >= k => k = 0 BY Sizes
      <4> QED BY <3>1, <4>1, <4>2
    <3> QED BY <2>3, <3>1
  <2>5. m - 1 \in 0 .. SIZE - 1 /\ m - 1 \notin T /\ (m - 1) + 1 = m
    BY <2>2, <2>3, <2>4, Sizes
  <2>6. Good(m - 1) BY <2>5, Sizes
  <2>7. m \in 1 .. SIZE BY <2>3, <2>4, Sizes
  <2>8. Len(Byte(m)) \in {1, 2} BY <2>7, ByteIs
  <2>9. PICK j \in 0 .. SIZE - 1 : j = m - 1 /\ j + 1 = m BY <2>5
  <2>10. /\ Len(UpTo[j]) \in Nat
         /\ Len(UpTo[m]) = Len(UpTo[j]) + Len(Byte(m))
         /\ \A p \in 1 .. Len(UpTo[j]) : UpTo[m][p] = UpTo[j][p]
    BY <2>9, PlaceAdded
  <2>11. m + 1 <= Len(UpTo[m])
    <3>1. j + 1 <= Len(UpTo[j]) BY <2>6, <2>9
    <3>2. PICK a \in Nat, b \in {1, 2} : a = Len(UpTo[j]) /\ b = Len(Byte(m))
      BY <2>8, <2>10
    <3>3. j + 1 <= a /\ Len(UpTo[m]) = a + b BY <2>10, <3>1, <3>2
    <3>4. j \in Nat BY <2>9, Sizes
    <3>5. \A x, y \in Nat, z \in {1, 2} : x + 1 <= y => x + 2 <= y + z OBVIOUS
    <3>7. a \in Nat /\ b \in {1, 2} BY <3>2
    <3>8. j + 2 <= a + b BY <3>3, <3>4, <3>5, <3>7
    <3>6. m + 1 = j + 2 BY <2>9, <3>4
    <3> QED BY <3>3, <3>6, <3>8
  <2>12. ASSUME m >= k
         PROVE  /\ Len(UpTo[k]) <= Len(UpTo[m])
                /\ \A p \in 1 .. Len(UpTo[k]) : UpTo[m][p] = UpTo[k][p]
    <3>0. Len(UpTo[k]) \in Nat /\ Len(UpTo[m]) \in Nat
      BY <2>3, UpToIs, Sizes
    <3>1. CASE m = k BY <3>0, <3>1
    <3>2. CASE m > k
      <4>1. j >= k BY <2>9, <3>2, Sizes
      <4>2. /\ Len(UpTo[k]) <= Len(UpTo[j])
            /\ \A p \in 1 .. Len(UpTo[k]) : UpTo[j][p] = UpTo[k][p]
        BY <2>6, <2>9, <4>1
      <4> QED BY <2>8, <2>10, <3>0, <4>2
    <3> QED BY <2>12, <3>1, <3>2, Sizes
  <2> QED BY <2>3, <2>11, <2>12
<1>2. Good(k) /\ Good(SIZE) BY <1>1, Sizes
<1>3. SIZE >= k BY Sizes
<1> QED BY <1>2, <1>3 DEF Wire

LEMMA WireIs ==
  /\ Wire \in Seq(WireBytes)
  /\ Len(Wire) \in Nat /\ SIZE < Len(Wire)
  /\ \A p \in 1 .. Len(Wire) : Wire[p] \in WireBytes
<1>1. SIZE \in 0 .. SIZE BY Sizes
<1>2. Wire \in Seq(WireBytes) BY <1>1, UpToIs DEF Wire
<1>3. SIZE + 1 <= Len(Wire) BY <1>1, Prefixes DEF Wire
<1> QED BY <1>2, <1>3, Sizes

\* What is found on the wire after a place.
LEMMA NextPlace ==
  ASSUME NEW k \in 0 .. SIZE - 1, NEW n, n = Len(UpTo[k])
  PROVE  /\ n \in Nat \ {0} /\ n + 1 <= Len(Wire)
         /\ k + 1 \in Stuffed =>
              /\ n + 2 <= Len(Wire) /\ Len(UpTo[k + 1]) = n + 2
              /\ Wire[n + 1] = Of("escape", k + 1)
              /\ Wire[n + 2] = Of("stuffed", k + 1)
         /\ k + 1 \notin Stuffed =>
              /\ Len(UpTo[k + 1]) = n + 1
              /\ Wire[n + 1] = Of("plain", k + 1)
<1>1. k \in 0 .. SIZE /\ k + 1 \in 0 .. SIZE /\ k + 1 \in 1 .. SIZE BY Sizes
<1>2. n \in Nat /\ k + 1 <= n BY <1>1, Prefixes, PlaceAdded
<1>3. /\ Len(UpTo[k + 1]) = n + Len(Byte(k + 1))
      /\ \A j \in 1 .. Len(Byte(k + 1)) : UpTo[k + 1][n + j] = Byte(k + 1)[j]
  BY PlaceAdded
<1>4. /\ Len(UpTo[k + 1]) <= Len(Wire)
      /\ \A p \in 1 .. Len(UpTo[k + 1]) : Wire[p] = UpTo[k + 1][p]
  BY <1>1, Prefixes
<1>5. CASE k + 1 \in Stuffed
  <2>1. /\ Len(Byte(k + 1)) = 2 /\ Byte(k + 1)[1] = Of("escape", k + 1)
        /\ Byte(k + 1)[2] = Of("stuffed", k + 1)
    BY <1>1, <1>5, ByteIs
  <2>2. /\ UpTo[k + 1][n + 1] = Of("escape", k + 1)
        /\ UpTo[k + 1][n + 2] = Of("stuffed", k + 1)
    BY <1>3, <2>1
  <2>3. Len(UpTo[k + 1]) = n + 2 BY <1>3, <2>1
  <2>4. n + 1 \in 1 .. n + 2 /\ n + 2 \in 1 .. n + 2 BY <1>2
  <2>5. n + 2 <= Len(Wire) BY <1>4, <2>3
  <2>6. n # 0 /\ n + 1 <= Len(Wire) BY <1>2, <2>5, WireIs, Sizes
  <2>7. /\ Wire[n + 1] = UpTo[k + 1][n + 1]
        /\ Wire[n + 2] = UpTo[k + 1][n + 2]
    BY <1>4, <2>3, <2>4
  <2> QED BY <1>2, <1>5, <2>2, <2>3, <2>5, <2>6, <2>7
<1>6. CASE k + 1 \notin Stuffed
  <2>1. Len(Byte(k + 1)) = 1 /\ Byte(k + 1)[1] = Of("plain", k + 1)
    BY <1>1, <1>6, ByteIs
  <2>2. UpTo[k + 1][n + 1] = Of("plain", k + 1) BY <1>3, <2>1
  <2>3. Len(UpTo[k + 1]) = n + 1 BY <1>3, <2>1
  <2>4. n + 1 \in 1 .. n + 1 BY <1>2
  <2>5. n + 1 <= Len(Wire) BY <1>4, <2>3
  <2>6. n # 0 BY <1>2, Sizes
  <2>7. Wire[n + 1] = UpTo[k + 1][n + 1] BY <1>4, <2>3, <2>4
  <2> QED BY <1>2, <1>6, <2>2, <2>3, <2>5, <2>6, <2>7
<1> QED BY <1>5, <1>6

\* The wire has a start byte only where a frame starts.
LEMMA OneStart ==
  ASSUME NEW p \in 2 .. Len(Wire)
  PROVE  Wire[p].kind # "start"
<1> DEFINE T == {i \in 0 .. SIZE : \E q \in 2 .. Len(UpTo[i]) : UpTo[i][q].kind = "start"}
<1>1. ASSUME T # {} PROVE FALSE
  <2>1. T \in SUBSET Nat BY Sizes
  <2>2. PICK m \in T : \A i \in T : m <= i
    <3> HIDE DEF T
    <3> QED BY <1>1, <2>1, LeastNumber
  <2>3. m \in 0 .. SIZE BY <2>2
  <2>4. PICK q \in 2 .. Len(UpTo[m]) : UpTo[m][q].kind = "start" BY <2>2
  <2>5. m # 0
    <3>1. Len(UpTo[0]) = 1 BY UpToIs DEF Start
    <3> QED BY <2>4, <3>1
  <2>6. m \in 1 .. SIZE /\ m - 1 \in 0 .. SIZE - 1 /\ (m - 1) + 1 = m
    BY <2>3, <2>5, Sizes
  <2>7. PICK j \in 0 .. SIZE - 1 : j = m - 1 /\ j + 1 = m BY <2>6
  <2>8. j \notin T /\ j \in 0 .. SIZE
    <3>1. j < m /\ j \in 0 .. SIZE BY <2>6, <2>7, Sizes
    <3>2. \A i \in T : i \in 0 .. SIZE OBVIOUS
    <3>3. j \in T => m <= j BY <2>2
    <3> HIDE DEF T
    <3> QED BY <2>3, <3>1, <3>3, Sizes
  <2>9. PICK n \in Nat : n = Len(UpTo[j]) BY <2>7, PlaceAdded
  <2>10. /\ Len(UpTo[m]) = n + Len(Byte(m))
         /\ \A i \in 1 .. n : UpTo[m][i] = UpTo[j][i]
         /\ \A i \in 1 .. Len(Byte(m)) : UpTo[m][n + i] = Byte(m)[i]
    <3>1. /\ Len(UpTo[j + 1]) = Len(UpTo[j]) + Len(Byte(j + 1))
          /\ \A i \in 1 .. Len(UpTo[j]) : UpTo[j + 1][i] = UpTo[j][i]
          /\ \A i \in 1 .. Len(Byte(j + 1)) :
               UpTo[j + 1][Len(UpTo[j]) + i] = Byte(j + 1)[i]
      BY PlaceAdded
    <3> QED BY <2>7, <2>9, <3>1
  <2>11. q > n
    <3>1. \A i \in 2 .. n : UpTo[j][i].kind # "start" BY <2>8, <2>9
    <3>2. q <= n => q \in 2 .. n /\ q \in 1 .. n BY <2>9
    <3> QED BY <2>4, <2>9, <2>10, <3>1, <3>2
  <2>12. Len(Byte(m)) \in {1, 2} BY <2>6, ByteIs
  <2>13. PICK i \in 1 .. Len(Byte(m)) : q = n + i
    <3>1. q \in Nat /\ q <= n + Len(Byte(m)) BY <2>4, <2>10
    <3>2. q - n \in 1 .. Len(Byte(m)) /\ q = n + (q - n)
      BY <2>9, <2>11, <2>12, <3>1
    <3> QED BY <3>2
  <2>14. UpTo[m][q] = Byte(m)[i] BY <2>10, <2>13
  <2>15. Byte(m)[i] \in {Of("escape", m), Of("stuffed", m), Of("plain", m)}
    <3>1. i = 1 \/ (i = 2 /\ Len(Byte(m)) = 2)
      <4>1. PICK l \in {1, 2} : l = Len(Byte(m)) BY <2>12
      <4>2. i \in 1 .. l BY <2>13, <4>1
      <4> QED BY <4>1, <4>2
    <3> QED BY <2>6, <3>1, ByteIs
  <2>16. Byte(m)[i].kind # "start" BY <2>15 DEF Of
  <2> QED BY <2>4, <2>14, <2>16
<1>2. SIZE \notin T BY <1>1
<1> QED BY <1>2, Sizes DEF Wire

LEMMA LeastOfTwo ==
  ASSUME NEW a \in Int, NEW b \in Int
  PROVE  Min({a, b}) = IF a <= b THEN a ELSE b
<1>1. CASE a <= b
  <2>1. a \in {a, b} /\ \A y \in {a, b} : a <= y BY <1>1
  <2>2. \A x \in {a, b} : (\A y \in {a, b} : x <= y) => x = a BY <1>1
  <2>3. Min({a, b}) = a BY <2>1, <2>2 DEF Min
  <2> QED BY <1>1, <2>3
<1>2. CASE ~(a <= b)
  <2>1. b \in {a, b} /\ \A y \in {a, b} : b <= y BY <1>2
  <2>2. \A x \in {a, b} : (\A y \in {a, b} : x <= y) => x = b BY <1>2
  <2>3. Min({a, b}) = b BY <2>1, <2>2 DEF Min
  <2> QED BY <1>2, <2>3
<1> QED BY <1>1, <1>2

-----------------------------------------------------------------------------
(***************************************************************************)
(* The relay of FrSkyX: SportInvariant is inductive.                       *)
(***************************************************************************)
\* The byte the parser gets next is on the wire; it is the first of a frame only
\* if it is the start byte.
LEMMA NextByte ==
  ASSUME TypeOK, ChunkJoins, telemetry_link = 1, pktt.left > 0
  PROVE  /\ NextAt \in 1 .. Len(Wire) /\ NextAge \in {0, 1}
         /\ Data = Wire[NextAt] /\ DataAge = NextAge
         /\ Data \in WireBytes
         /\ Data.kind = "start" => NextAt = 1
<1>1. PICK w \in Nat : w = Len(Wire) BY WireIs
<1>2. /\ receiver.at \in 1 .. w /\ pktt.at \in Nat \ {0} /\ pktt.left \in Nat
      /\ pktt.age = IF pktt.at + pktt.left > w THEN 1 ELSE 0
      /\ receiver.at = pktt.at + pktt.left - pktt.age * w
  BY <1>1, Sizes DEF TypeOK, ChunkJoins
<1>3. Wraps = IF pktt.at > w THEN 1 ELSE 0 BY <1>1 DEF Wraps
<1>4. NextAt = pktt.at - Wraps * w BY <1>1 DEF NextAt
<1>5. NextAge = DataAge /\ DataAge = pktt.age - Wraps BY DEF NextAge, DataAge
<1>6. NextAt \in 1 .. w /\ NextAge \in {0, 1}
  <2>1. CASE pktt.at > w
    <3>1. pktt.at + pktt.left > w BY <1>1, <1>2, <2>1
    <3>2. Wraps = 1 /\ pktt.age = 1 BY <1>2, <1>3, <2>1, <3>1
    <3>3. pktt.at + pktt.left - w <= w BY <1>1, <1>2, <3>2
    <3> QED BY <1>1, <1>2, <1>4, <1>5, <2>1, <3>2, <3>3
  <2>2. CASE ~(pktt.at > w)
    <3>1. Wraps = 0 /\ pktt.age \in {0, 1} BY <1>2, <1>3, <2>2
    <3> QED BY <1>1, <1>2, <1>4, <1>5, <2>2, <3>1
  <2> QED BY <2>1, <2>2
<1>7. Data = Wire[NextAt] BY DEF Data, NextAt
<1>8. Data \in WireBytes BY <1>1, <1>6, <1>7, WireIs
<1>9. Data.kind = "start" => NextAt = 1
  <2>1. NextAt # 1 => NextAt \in 2 .. Len(Wire) BY <1>1, <1>6
  <2> QED BY <1>7, <2>1, OneStart
<1> QED BY <1>1, <1>5, <1>6, <1>7, <1>8, <1>9

\* A byte taken, the one after it in the frame is next.
LEMMA NextByteMoves ==
  ASSUME TypeOK, ChunkJoins, FeedData
  PROVE  /\ ChunkJoins'
         /\ NextAt < Len(Wire) => NextAt' = NextAt + 1 /\ NextAge' = NextAge
<1>1. PICK w \in Nat : w = Len(Wire) BY WireIs
<1>2. /\ receiver.at \in 1 .. w /\ pktt.at \in Nat \ {0} /\ pktt.left \in Nat
      /\ pktt.age = IF pktt.at + pktt.left > w THEN 1 ELSE 0
      /\ receiver.at = pktt.at + pktt.left - pktt.age * w
      /\ gap = 0 /\ telemetry_link = 1 /\ pktt.left > 0 /\ noise = 0
  <2>1. telemetry_link = 1 /\ pktt.left > 0 BY DEF FeedData, proces_sport_data
  <2>2. /\ receiver.at \in 1 .. w /\ pktt.at \in Nat \ {0} /\ pktt.left \in Nat
        /\ noise \in Nat
    BY <1>1, Sizes DEF TypeOK
  <2>3. /\ pktt.age = IF pktt.at + pktt.left > w THEN 1 ELSE 0
        /\ receiver.at = pktt.at + pktt.left - pktt.age * w
        /\ gap = 0
    BY <1>1, <2>1 DEF ChunkJoins
  <2>4. noise = 0
    <3>1. noise > 0 => pktt.left = 0 BY DEF ChunkJoins
    <3>2. pktt.left # 0 BY <2>1, <2>2
    <3> QED BY <2>2, <3>1, <3>2
  <2> QED BY <2>1, <2>2, <2>3, <2>4
<1>3. /\ pktt'.at = pktt.at + 1 /\ pktt'.left = pktt.left - 1
      /\ pktt'.age = pktt.age
      /\ receiver' = receiver /\ gap' = 0 /\ telemetry_link' = 1 /\ noise' = 0
  BY <1>2 DEF TypeOK, FeedData, proces_sport_data
<1>4. pktt'.at + pktt'.left = pktt.at + pktt.left BY <1>2, <1>3
<1>5. ChunkJoins' BY <1>1, <1>2, <1>3, <1>4 DEF ChunkJoins
<1>6. /\ Wraps = IF pktt.at > w THEN 1 ELSE 0
      /\ Wraps' = IF pktt.at + 1 > w THEN 1 ELSE 0
  BY <1>1, <1>3 DEF Wraps
<1>7. /\ NextAt = pktt.at - Wraps * w /\ NextAt' = pktt'.at - Wraps' * w
      /\ NextAge = pktt.age - Wraps /\ NextAge' = pktt'.age - Wraps'
  <2>1. telemetry_link = 1 /\ telemetry_link' = 1 BY <1>2, <1>3
  <2>2. NextAt = pktt.at - Wraps * w BY <1>1, <2>1 DEF NextAt
  <2>3. NextAt' = pktt'.at - Wraps' * w BY <1>1, <2>1 DEF NextAt
  <2>4. NextAge = pktt.age - Wraps BY <2>1 DEF NextAge, DataAge
  <2>5. NextAge' = pktt'.age - Wraps' BY <2>1 DEF NextAge, DataAge
  <2> QED BY <2>2, <2>3, <2>4, <2>5
<1>8. ASSUME NextAt < w PROVE NextAt' = NextAt + 1 /\ NextAge' = NextAge
  <2>0. PICK a \in Nat : a = pktt.at BY <1>2
  <2>1. CASE a > w
    <3>1. Wraps = 1 /\ Wraps' = 1 BY <1>1, <1>6, <2>0, <2>1
    <3>2. NextAt = a - w /\ NextAt' = (a + 1) - w
      BY <1>1, <1>3, <1>7, <2>0, <3>1
    <3> QED BY <1>1, <1>3, <1>7, <2>0, <3>1, <3>2
  <2>2. CASE ~(a > w)
    <3>1. Wraps = 0 BY <1>6, <2>0, <2>2
    <3>2. NextAt = a BY <1>1, <1>7, <2>0, <3>1
    <3>3. Wraps' = 0 BY <1>1, <1>6, <1>8, <2>0, <3>2
    <3>4. NextAt' = a + 1 BY <1>1, <1>3, <1>7, <2>0, <3>3
    <3> QED BY <1>3, <1>7, <2>0, <3>1, <3>2, <3>3, <3>4
  <2> QED BY <2>1, <2>2
<1> QED BY <1>1, <1>5, <1>8

\* What the parser does with a byte.
ParserStep(byte) ==
  \/ /\ pass \in {0, 1} /\ byte.kind = "start"
     /\ pass' = 1 /\ indx' = 0 /\ slipped' = (byte.place # 0) /\ pktx' = pktx
  \/ /\ pass = 0 /\ byte.kind # "start"
     /\ pass' = 0 /\ indx' = indx /\ slipped' = slipped /\ pktx' = pktx
  \/ /\ pass = 1 /\ byte.kind = "escape"
     /\ pass' = 2 /\ indx' = indx /\ slipped' = slipped /\ pktx' = pktx
  \/ \E kind \in {"plain", "stuffed"} :
       /\ kind = "plain" => pass = 1 /\ byte.kind \in {"plain", "stuffed"}
       /\ kind = "stuffed" => pass = 2
       /\ pass' = IF indx' >= SIZE THEN 0 ELSE 1
       /\ indx' = indx + 1 /\ slipped' = slipped
       /\ pktx' = IF ~InPlace(byte, kind) THEN NoneGood
                  ELSE [age |-> IF indx = 0 THEN DataAge ELSE pktx.age, good |-> indx + 1]

LEMMA ParserSteps ==
  ASSUME NEW byte, proces_sport_data(byte)
  PROVE  ParserStep(byte)
BY DEF proces_sport_data, ParserStep, WaitForStart, Skip, Store, Ends

\* What a byte of any kind leaves as it should be: the types, and what is told of
\* the frame in pktx1.
Parsed ==
  /\ UNCHANGED <<receiver, seq_last_rcvd, counter, telemetry_link, telemetry_lost,
                 sport_counter, instep, gap>>
  /\ feeding' = TRUE /\ sport' \in {0, 1}
  /\ pktx' \in [age : Ages, good : 0 .. SIZE]
  /\ pass' \in 0 .. 2 /\ indx' \in 0 .. SIZE
  /\ (pass' = 0 \/ indx' < SIZE)
  /\ NumbersCount' /\ StartedAfresh'

LEMMA ByteIsParsed ==
  ASSUME TypeOK, NumbersCount, StartedAfresh, DataAge \in {0, 1},
         NEW byte, proces_sport_data(byte)
  PROVE  Parsed
<1>1. ParserStep(byte) BY ParserSteps
<1>2. /\ UNCHANGED <<receiver, seq_last_rcvd, counter, telemetry_link,
                     telemetry_lost, sport_counter, instep, gap>>
      /\ feeding' = TRUE
      /\ sport' = IF Raises THEN 1 ELSE sport
  BY DEF proces_sport_data, DoubleBuffer
<1>3. sport' \in {0, 1} BY <1>2 DEF TypeOK
<1>4. /\ pktx' \in [age : Ages, good : 0 .. SIZE]
      /\ pass' \in 0 .. 2 /\ indx' \in 0 .. SIZE
      /\ (pass' = 0 \/ indx' < SIZE)
  <2>1. /\ pktx \in [age : 0 .. 2, good : 0 .. SIZE] /\ indx \in 0 .. SIZE
        /\ pass \in 0 .. 2 /\ (pass = 0 \/ indx < SIZE)
        /\ NoneGood \in [age : 0 .. 2, good : 0 .. SIZE]
    BY Sizes DEF TypeOK, Ages, Old, NoneGood
  <2> HIDE DEF NoneGood
  <2> QED BY <1>1, <2>1, Sizes DEF ParserStep, Ages, Old
<1>5. NumbersCount' BY <1>2 DEF NumbersCount
<1>6. StartedAfresh'
  <2>1. started \in BOOLEAN /\ copied \in BOOLEAN /\ slipped \in BOOLEAN
    BY DEF StartedAfresh
  <2>2. /\ started' = (~Raises /\ (started \/ (byte.kind = "start" /\ pass # 2)))
        /\ copied' = (Raises \/ (copied /\ indx' \in {0, indx}))
    BY DEF proces_sport_data, DoubleBuffer
  <2>3. started' \in BOOLEAN /\ copied' \in BOOLEAN BY <2>2
  <2>4. slipped' \in BOOLEAN BY <1>1, <2>1 DEF ParserStep
  <2>5. ASSUME started', copied' PROVE indx' = 0
    <3>1. ~Raises /\ copied /\ indx' \in {0, indx} BY <2>2, <2>5
    <3>2. indx \in Nat BY Sizes DEF TypeOK
    <3>3. indx' = 0 \/ (started /\ indx' = indx)
      <4>1. started \/ (byte.kind = "start" /\ pass # 2) BY <2>2, <2>5
      <4>2. indx' # indx + 1 \/ indx' = 0 BY <3>1, <3>2
      <4> QED BY <1>1, <3>1, <4>1, <4>2 DEF ParserStep
    <3> QED BY <3>1, <3>3 DEF StartedAfresh
  <2> QED BY <2>3, <2>4, <2>5 DEF StartedAfresh
<1> QED BY <1>2, <1>3, <1>4, <1>5, <1>6 DEF Parsed

LEMMA ByteKeepsType ==
  ASSUME SportInvariant, FeedData
  PROVE  TypeOK' /\ Parsed
<1>1. /\ TypeOK /\ ChunkJoins /\ NumbersCount /\ StartedAfresh
      /\ telemetry_link = 1 /\ pktt.left > 0 /\ proces_sport_data(Data)
      /\ pktt' = [pktt EXCEPT !.at = @ + 1, !.left = @ - 1] /\ noise' = noise
  BY DEF SportInvariant, FeedData, proces_sport_data
<1>2. pktt' \in [age : {0, 1}, at : Nat \ {0}, left : 0 .. CHUNK]
  <2>1. /\ pktt \in [age : {0, 1}, at : Nat \ {0}, left : 0 .. CHUNK]
        /\ pktt.left > 0
    BY <1>1 DEF TypeOK
  <2>2. pktt' = [age |-> pktt.age, at |-> pktt.at + 1, left |-> pktt.left - 1]
    BY <1>1, <2>1
  <2>3. pktt.at + 1 \in Nat \ {0} /\ pktt.left - 1 \in 0 .. CHUNK BY <2>1, Sizes
  <2> QED BY <2>1, <2>2, <2>3
<1>3. DataAge \in {0, 1} BY <1>1, NextByte
<1>4. Parsed BY <1>1, <1>3, ByteIsParsed
<1>5. TypeOK' BY <1>1, <1>2, <1>4 DEF TypeOK, Parsed
<1> QED BY <1>4, <1>5

LEMMA ByteKeepsStep ==
  ASSUME SportInvariant, FeedData
  PROVE  ParserInStep'
<1>1. /\ TypeOK /\ ChunkJoins /\ telemetry_link = 1 /\ pktt.left > 0
      /\ ParserInStep /\ ChunkJoins'
  BY NextByteMoves DEF SportInvariant, FeedData, proces_sport_data
<1>2. ParserStep(Data) /\ gap = 0 /\ TypeOK'
  <2>1. ParserStep(Data) BY ParserSteps DEF FeedData
  <2> QED BY <1>1, <2>1, ByteKeepsType DEF ChunkJoins
<1>3. /\ NextAt \in 1 .. Len(Wire) /\ NextAge \in {0, 1}
      /\ Data = Wire[NextAt] /\ DataAge = NextAge /\ Data \in WireBytes
      /\ Data.kind = "start" => NextAt = 1
      /\ NextAt < Len(Wire) => NextAt' = NextAt + 1 /\ NextAge' = NextAge
  BY <1>1, NextByte, NextByteMoves
<1>4. SUFFICES ASSUME ~slipped'
               PROVE  /\ pass' # 0 => /\ NextAt' = Len(UpTo[indx']) + pass'
                                      /\ pass' = 2 => indx' + 1 \in Stuffed
                                      /\ indx' # 0 => pktx'.good = indx' /\ pktx'.age = NextAge'
                      /\ indx' = SIZE => pktx'.good = SIZE
  BY DEF ParserInStep
<1>5. /\ indx \in 0 .. SIZE /\ indx' \in 0 .. SIZE /\ pass \in 0 .. 2 /\ pass' \in 0 .. 2
      /\ (pass # 0 => indx < SIZE) /\ (pass' # 0 => indx' < SIZE)
      /\ pktx \in [age : Ages, good : 0 .. SIZE]
  BY <1>1, <1>2 DEF TypeOK
<1>6. CASE /\ pass \in {0, 1} /\ Data.kind = "start"
           /\ pass' = 1 /\ indx' = 0 /\ slipped' = (Data.place # 0) /\ pktx' = pktx
  <2>1. NextAt = 1 /\ 1 < Len(Wire) BY <1>3, <1>6, WireIs, Sizes
  <2>2. NextAt' = 2 BY <1>3, <2>1
  <2>3. Len(UpTo[0]) = 1 BY UpToIs DEF Start
  <2> QED BY <1>6, <2>2, <2>3, Sizes
<1>7. CASE /\ pass = 0 /\ Data.kind # "start"
           /\ pass' = 0 /\ indx' = indx /\ slipped' = slipped /\ pktx' = pktx
  BY <1>1, <1>4, <1>7 DEF ParserInStep
<1>8. ASSUME pass # 0, slipped' = slipped
      PROVE  /\ NextAt = Len(UpTo[indx]) + pass
             /\ pass = 2 => indx + 1 \in Stuffed
             /\ indx # 0 => pktx.good = indx /\ pktx.age = NextAge
             /\ indx \in 0 .. SIZE - 1
  BY <1>1, <1>2, <1>4, <1>5, <1>8, Sizes DEF ParserInStep
<1>9. CASE /\ pass = 1 /\ Data.kind = "escape"
           /\ pass' = 2 /\ indx' = indx /\ slipped' = slipped /\ pktx' = pktx
  <2>1. PICK n : n = Len(UpTo[indx]) OBVIOUS
  <2>2. NextAt = n + 1 BY <1>8, <1>9, <2>1
  <2>3. indx + 1 \in Stuffed
    <3>1. indx + 1 \notin Stuffed => Wire[n + 1] = Of("plain", indx + 1)
      BY <1>8, <1>9, <2>1, NextPlace
    <3> QED BY <1>3, <1>9, <2>2, <3>1 DEF Of
  <2>4. n \in Nat /\ n + 2 <= Len(Wire) BY <1>8, <1>9, <2>1, <2>3, NextPlace
  <2>5. NextAt' = n + 2 /\ NextAge' = NextAge BY <1>3, <2>2, <2>4, WireIs
  <2> QED BY <1>8, <1>9, <2>1, <2>3, <2>5, <1>5, Sizes
<1>10. ASSUME NEW kind \in {"plain", "stuffed"},
              kind = "plain" => pass = 1 /\ Data.kind \in {"plain", "stuffed"},
              kind = "stuffed" => pass = 2,
              pass' = IF indx' >= SIZE THEN 0 ELSE 1,
              indx' = indx + 1, slipped' = slipped,
              pktx' = IF ~InPlace(Data, kind) THEN NoneGood
                      ELSE [age |-> IF indx = 0 THEN DataAge ELSE pktx.age,
                            good |-> indx + 1]
       PROVE  /\ pass' # 0 => /\ NextAt' = Len(UpTo[indx']) + pass'
                              /\ pass' = 2 => indx' + 1 \in Stuffed
                              /\ indx' # 0 => pktx'.good = indx' /\ pktx'.age = NextAge'
              /\ indx' = SIZE => pktx'.good = SIZE
  <2>0. pass \in {1, 2} BY <1>10
  <2>1. PICK n : n = Len(UpTo[indx]) OBVIOUS
  <2>2. /\ NextAt = n + pass /\ indx \in 0 .. SIZE - 1
        /\ indx # 0 => pktx.good = indx /\ pktx.age = NextAge
    BY <1>8, <1>10, <2>0, <2>1
  <2>3. Data = Of(kind, indx + 1) /\ Len(UpTo[indx + 1]) = NextAt
    <3>1. CASE kind = "plain"
      <4>1. pass = 1 /\ Data.kind \in {"plain", "stuffed"} BY <1>10, <3>1
      <4>2. indx + 1 \notin Stuffed
        <5>1. indx + 1 \in Stuffed => Wire[n + 1] = Of("escape", indx + 1)
          BY <2>1, <2>2, NextPlace
        <5> QED BY <1>3, <2>2, <4>1, <5>1 DEF Of
      <4>3. /\ Wire[n + 1] = Of("plain", indx + 1)
            /\ Len(UpTo[indx + 1]) = n + 1
        BY <2>1, <2>2, <4>2, NextPlace
      <4> QED BY <1>3, <2>2, <3>1, <4>1, <4>3
    <3>2. CASE kind = "stuffed"
      <4>1. pass = 2 /\ indx + 1 \in Stuffed BY <1>8, <1>10, <2>0, <3>2
      <4>2. /\ Wire[n + 2] = Of("stuffed", indx + 1)
            /\ Len(UpTo[indx + 1]) = n + 2
        BY <2>1, <2>2, <4>1, NextPlace
      <4> QED BY <1>3, <2>2, <3>2, <4>1, <4>2
    <3> QED BY <3>1, <3>2
  <2>4. InPlace(Data, kind) BY <1>3, <2>2, <2>3 DEF InPlace
  <2>5. pktx'.good = indx + 1 /\ pktx'.age = NextAge
    BY <1>3, <1>5, <1>10, <2>2, <2>4
  <2>6. ASSUME pass' # 0
        PROVE  NextAt' = Len(UpTo[indx']) + 1 /\ NextAge' = NextAge /\ pass' = 1
    <3>1. pass' = 1 /\ indx + 1 < SIZE BY <1>5, <1>10, <2>6
    <3>2. indx + 1 \in 0 .. SIZE - 1 BY <2>2, <3>1, Sizes
    <3>3. Len(UpTo[indx + 1]) + 1 <= Len(Wire) BY <3>2, NextPlace
    <3>4. NextAt < Len(Wire) BY <1>3, <2>3, <3>3, WireIs
    <3> QED BY <1>3, <1>10, <2>3, <3>1, <3>4
  <2> QED BY <1>10, <2>2, <2>5, <2>6, Sizes
<1> QED BY <1>2, <1>6, <1>7, <1>9, <1>10 DEF ParserStep

LEMMA ByteKeepsInvariant ==
  ASSUME SportInvariant, FeedData
  PROVE  SportInvariant'
<1>1. TypeOK' /\ Parsed BY ByteKeepsType
<1>2. ChunkJoins' BY NextByteMoves DEF SportInvariant
<1>3. ParserInStep' BY ByteKeepsStep
<1> QED BY <1>1, <1>2, <1>3 DEF SportInvariant, Parsed

\* A byte of a damaged chunk: the receiver's next byte stays next after the chunk,
\* and until the receiver's next start byte the frame is known to be mixed.
LEMMA DamageKeepsInvariant ==
  ASSUME SportInvariant, FeedDamaged
  PROVE  SportInvariant'
<1>1. TypeOK /\ ChunkJoins /\ NumbersCount /\ ParserInStep /\ StartedAfresh
  BY DEF SportInvariant
<1>2. PICK kind \in {"start", "escape", "plain"} : proces_sport_data(Damaged(kind))
  BY DEF FeedDamaged
<1>3. noise > 0 /\ noise' = noise - 1 /\ pktt' = pktt BY DEF FeedDamaged
<1>4. noise \in 0 .. CHUNK /\ pktt.left = 0 /\ slipped BY <1>1, <1>3 DEF TypeOK, ChunkJoins
<1>5. DataAge \in {0, 1}
  <2>1. PICK w \in Nat : w = Len(Wire) BY WireIs
  <2>2. pktt.at \in Nat /\ pktt.age = IF pktt.at > w THEN 1 ELSE 0
    BY <1>1, <1>4, <2>1 DEF TypeOK, ChunkJoins
  <2>3. Wraps = pktt.age BY <2>1, <2>2 DEF Wraps
  <2> QED BY <2>2, <2>3 DEF DataAge
<1>6. Parsed BY <1>1, <1>2, <1>5, ByteIsParsed
<1>7. slipped'
  <2>1. ParserStep(Damaged(kind)) BY <1>2, ParserSteps
  <2>2. Damaged(kind).place # 0 BY Sizes DEF Damaged, Of
  <2> HIDE DEF Damaged
  <2> QED BY <1>4, <2>1, <2>2 DEF ParserStep
<1>8. TypeOK'
  <2>1. noise' \in 0 .. CHUNK BY <1>3, <1>4, Sizes
  <2> QED BY <1>1, <1>3, <1>6, <2>1 DEF TypeOK, Parsed
<1>9. ChunkJoins'
  <2>1. telemetry_link = 1 /\ telemetry_link' = 1
    BY <1>2, <1>6 DEF proces_sport_data, Parsed
  <2> QED BY <1>1, <1>3, <1>4, <1>6, <1>7, <2>1 DEF ChunkJoins, Parsed
<1>10. ParserInStep' BY <1>7 DEF ParserInStep
<1> QED BY <1>6, <1>8, <1>9, <1>10 DEF SportInvariant, Parsed

\* The receiver goes on by a chunk: its place stays on the wire, and the first byte
\* in pktx is a frame older if the chunk had the end of one.
LEMMA ReceiverAdvances ==
  ASSUME TypeOK, NEW n \in 0 .. CHUNK, Advance(n)
  PROVE  /\ Crosses(n) = IF receiver.at + n > Len(Wire) THEN 1 ELSE 0
         /\ receiver' \in [at : 1 .. Len(Wire), number : Numbers]
         /\ receiver'.at = receiver.at + n - Crosses(n) * Len(Wire)
         /\ receiver'.number = NumberAfter(receiver.number)
         /\ pktx' \in [age : Ages, good : 0 .. SIZE] /\ pktx'.good = pktx.good
         /\ pktx.age = 0 => pktx'.age = Crosses(n)
<1>1. PICK w \in Nat : w = Len(Wire) /\ SIZE < w BY WireIs
<1>2. receiver.at \in 1 .. w /\ n \in Nat /\ n < w
  BY <1>1, Sizes DEF TypeOK
<1>3. PICK a \in 1 .. w : a = receiver.at BY <1>2
<1>4. Crosses(n) = IF a + n > w THEN 1 ELSE 0 BY <1>1, <1>3 DEF Crosses
<1>5. receiver' = [at |-> a + n - Crosses(n) * w,
                   number |-> NumberAfter(receiver.number)]
  BY <1>1, <1>3 DEF Advance
<1>6. a + n - Crosses(n) * w \in 1 .. w
  <2>1. CASE a + n > w
    <3>1. Crosses(n) = 1 BY <1>4, <2>1
    <3>2. a + n - w \in 1 .. w BY <1>1, <1>2, <2>1
    <3> QED BY <1>1, <1>2, <3>1, <3>2
  <2>2. CASE ~(a + n > w)
    <3>1. Crosses(n) = 0 BY <1>4, <2>2
    <3> QED BY <1>1, <1>2, <2>2, <3>1
  <2> QED BY <2>1, <2>2
<1>7. NumberAfter(receiver.number) \in Numbers
  BY DEF TypeOK, NumberAfter, Numbers
<1>8. PICK c \in {0, 1} : c = Crosses(n) BY <1>4
<1>9. /\ pktx \in [age : 0 .. 2, good : 0 .. SIZE]
      /\ pktx' = [pktx EXCEPT !.age = Min({pktx.age + c, 2})]
  BY <1>8 DEF TypeOK, Advance, Older, Ages, Old
<1>10. pktx.age + c \in Int /\ 2 \in Int /\ pktx.age + c \in Nat BY <1>9
<1>11. Min({pktx.age + c, 2}) = IF pktx.age + c <= 2 THEN pktx.age + c ELSE 2
  BY <1>10, LeastOfTwo
<1>12. /\ pktx' \in [age : 0 .. 2, good : 0 .. SIZE] /\ pktx'.good = pktx.good
       /\ pktx.age = 0 => pktx'.age = c
  BY <1>9, <1>10, <1>11
<1> QED BY <1>1, <1>3, <1>4, <1>5, <1>6, <1>7, <1>8, <1>12 DEF Ages, Old

\* In step, the number that is expected says that no chunk was lost since the
\* last.
LEMMA LossIsSeen ==
  ASSUME TypeOK, NumbersCount, receiver.number = Expected
  PROVE  gap = 0
<1>1. CASE ~instep BY <1>1 DEF NumbersCount
<1>2. CASE instep
  <2>1. PICK k \in {0, 1, 2, 3, 8}, g \in 0 .. 3 :
          /\ k = seq_last_rcvd /\ g = gap
          /\ (k + 1) % 4 = (k + 1 + g) % 4
    <3>1. gap \in 0 .. 3 BY DEF NumbersCount
    <3>2. receiver.number = (seq_last_rcvd + 1 + gap) % 4 BY <1>2 DEF NumbersCount
    <3>3. seq_last_rcvd \in {0, 1, 2, 3, 8} BY DEF TypeOK, Numbers
    <3> QED BY <3>1, <3>2, <3>3 DEF Expected
  <2>2. g = 0 BY <2>1
  <2> QED BY <2>1, <2>2
<1> QED BY <1>1, <1>2 DEF NumbersCount

LEMMA ExpectedIs == TypeOK => Expected \in 0 .. 3
BY DEF TypeOK, Expected, Numbers

\* An answer that is taken, damaged or not, but for its chunk: its number keeps
\* count of the receiver's, if it is that.
TakenTypes ==
  /\ counter' = 0 /\ telemetry_link' = 1 /\ telemetry_lost' = 0
  /\ receiver' \in [at : 1 .. Len(Wire), number : Numbers]
  /\ seq_last_rcvd' \in Numbers /\ pass' \in {pass, 0}
  /\ pktx' \in [age : Ages, good : 0 .. SIZE]
  /\ UNCHANGED <<feeding, indx, sport, copied, sport_counter, started>>

LEMMA AnswerIsTaken ==
  ASSUME SportInvariant, NEW n \in 0 .. CHUNK, NEW number, frsky_check_telemetry(n, number)
  PROVE  TakenTypes /\ NumbersCount' /\ gap' = 0
<1>1. TypeOK /\ NumbersCount BY DEF SportInvariant
<1>2. /\ Advance(n) /\ counter' = 0 /\ telemetry_link' = 1 /\ telemetry_lost' = 0
      /\ CheckSequence(number)
      /\ instep' = (number \in {8, Expected} /\ number = receiver.number) /\ gap' = 0
      /\ UNCHANGED <<feeding, indx, sport, copied, sport_counter, started>>
  BY DEF frsky_check_telemetry, output
<1>3. /\ receiver' \in [at : 1 .. Len(Wire), number : Numbers]
      /\ receiver'.number = NumberAfter(receiver.number)
      /\ pktx' \in [age : Ages, good : 0 .. SIZE]
  BY <1>1, <1>2, ReceiverAdvances DEF Numbers
<1>4. Expected \in Numbers /\ Expected # 8 BY <1>1, ExpectedIs DEF Numbers
<1>5. seq_last_rcvd' \in Numbers /\ pass' \in {pass, 0}
  BY <1>1, <1>2, <1>4 DEF TypeOK, CheckSequence, Numbers
<1>6. NumbersCount'
  <2>1. instep' \in BOOLEAN BY <1>2
  <2>2. ASSUME instep' PROVE receiver'.number = (seq_last_rcvd' + 1) % 4
    <3>1. number \in {8, Expected} /\ number = receiver.number BY <1>2, <2>2
    <3>2. CASE number = 8 BY <1>2, <1>3, <1>4, <3>1, <3>2 DEF NumberAfter, CheckSequence
    <3>3. CASE number = Expected
      BY <1>2, <1>3, <1>4, <3>1, <3>3 DEF NumberAfter, CheckSequence
    <3> QED BY <3>1, <3>2, <3>3
  <2>3. seq_last_rcvd' \in {0, 1, 2, 3, 8} BY <1>5 DEF Numbers
  <2>4. (seq_last_rcvd' + 1) % 4 = (seq_last_rcvd' + 1 + gap') % 4 BY <1>2, <2>3
  <2> QED BY <1>2, <2>1, <2>2, <2>4 DEF NumbersCount
<1>7. TakenTypes BY <1>2, <1>3, <1>5 DEF TakenTypes
<1> QED BY <1>2, <1>6, <1>7

LEMMA AnswerKeepsInvariant ==
  ASSUME SportInvariant, NEW n \in 0 .. CHUNK, Answer(n)
  PROVE  SportInvariant'
<1>1. TypeOK /\ ChunkJoins /\ NumbersCount /\ ParserInStep /\ StartedAfresh
  BY DEF SportInvariant
<1>2. /\ frsky_check_telemetry(n, receiver.number)
      /\ pktt' = Chunk(n) /\ noise' = 0 /\ slipped' = (slipped \/ telemetry_link = 1)
  BY DEF Answer
<1>3. PICK w \in Nat : w = Len(Wire) BY WireIs
<1>4. /\ Advance(n) /\ CheckSequence(receiver.number)
      /\ TakenTypes /\ NumbersCount' /\ gap' = 0
  BY <1>2, AnswerIsTaken DEF frsky_check_telemetry
<1>5. /\ Crosses(n) = IF receiver.at + n > w THEN 1 ELSE 0
      /\ receiver'.at = receiver.at + n - Crosses(n) * w
      /\ pktx'.good = pktx.good
      /\ pktx.age = 0 => pktx'.age = Crosses(n)
  BY <1>1, <1>3, <1>4, ReceiverAdvances
<1>6. PICK c \in {0, 1} : c = Crosses(n) BY <1>5
<1>7. /\ pktt' = [age |-> c, at |-> receiver.at, left |-> n]
      /\ receiver.at \in 1 .. w
  BY <1>1, <1>2, <1>3, <1>6 DEF Chunk, TypeOK
<1>8. TypeOK'
  <2>1. pktt' \in [age : {0, 1}, at : Nat \ {0}, left : 0 .. CHUNK]
    BY <1>3, <1>6, <1>7
  <2> QED BY <1>1, <1>2, <1>4, <2>1, Sizes DEF TypeOK, TakenTypes
<1>9. ChunkJoins'
  <2>1. telemetry_link' = 1 BY <1>4 DEF TakenTypes
  <2> QED BY <1>2, <1>3, <1>4, <1>5, <1>6, <1>7, <2>1 DEF ChunkJoins
<1>10. ParserInStep'
  <2>1. SUFFICES ASSUME ~slipped'
                 PROVE  /\ pass' # 0 =>
                             /\ NextAt' = Len(UpTo[indx']) + pass'
                             /\ pass' = 2 => indx' + 1 \in Stuffed
                             /\ indx' # 0 => pktx'.good = indx' /\ pktx'.age = NextAge'
                        /\ indx' = SIZE => pktx'.good = SIZE
    BY DEF ParserInStep
  <2>2. ~slipped /\ telemetry_link = 0 BY <1>1, <1>2, <2>1 DEF TypeOK
  <2>3. indx' = indx /\ telemetry_link' = 1 BY <1>4 DEF TakenTypes
  <2>4. indx = SIZE => pktx.good = SIZE BY <1>1, <2>2 DEF ParserInStep
  <2>5. NextAt' = receiver.at /\ NextAge' = c
    <3>1. Wraps' = 0 BY <1>3, <1>7 DEF Wraps
    <3>2. NextAt' = pktt'.at - Wraps' * Len(Wire) BY <2>3 DEF NextAt
    <3>3. NextAge' = pktt'.age - Wraps' BY <2>3 DEF NextAge, DataAge
    <3>4. pktt'.at = receiver.at /\ pktt'.age = c BY <1>7
    <3> QED BY <1>3, <1>6, <1>7, <3>1, <3>2, <3>3, <3>4
  <2>6. ASSUME pass' # 0
        PROVE  /\ pass' = pass /\ NextAt = Len(UpTo[indx]) + pass
               /\ pass = 2 => indx + 1 \in Stuffed
               /\ indx # 0 => pktx.good = indx /\ pktx.age = NextAge
    <3>1. receiver.number = Expected /\ pass' = pass
      BY <1>4, <2>6 DEF CheckSequence
    <3>2. gap = 0 BY <1>1, <3>1, LossIsSeen
    <3> QED BY <1>1, <2>2, <2>6, <3>1, <3>2 DEF ParserInStep
  <2>7. NextAt = receiver.at /\ NextAge = 0 BY <2>2 DEF NextAt, NextAge
  <2> QED BY <1>5, <1>6, <2>3, <2>4, <2>5, <2>6, <2>7
<1>11. StartedAfresh'
  <2>1. slipped' \in BOOLEAN BY <1>1, <1>2 DEF StartedAfresh
  <2> QED BY <1>1, <1>4, <2>1 DEF StartedAfresh, TakenTypes
<1> QED BY <1>4, <1>8, <1>9, <1>10, <1>11 DEF SportInvariant

LEMMA DamagedKeepsInvariant ==
  ASSUME SportInvariant, NEW n \in 0 .. CHUNK, DamagedAnswer(n)
  PROVE  SportInvariant'
<1>1. TypeOK /\ StartedAfresh BY DEF SportInvariant
<1>2. /\ \E number \in {8, Expected, Another} : frsky_check_telemetry(n, number)
      /\ pktt' = [NoChunk EXCEPT !.at = receiver'.at] /\ noise' \in 0 .. CHUNK
      /\ slipped' = TRUE
  BY DEF DamagedAnswer
<1>3. TakenTypes /\ NumbersCount' /\ gap' = 0
  <2>1. PICK number : frsky_check_telemetry(n, number) BY <1>2
  <2> QED BY <2>1, AnswerIsTaken
<1>4. PICK w \in Nat : w = Len(Wire) BY WireIs
<1>5. receiver'.at \in 1 .. w BY <1>3, <1>4 DEF TakenTypes
<1>6. pktt' = [age |-> 0, at |-> receiver'.at, left |-> 0] BY <1>2 DEF NoChunk
<1>7. TypeOK'
  <2>1. pktt' \in [age : {0, 1}, at : Nat \ {0}, left : 0 .. CHUNK]
    BY <1>5, <1>6, Sizes
  <2> QED BY <1>1, <1>2, <1>3, <2>1, Sizes DEF TypeOK, TakenTypes
<1>8. ChunkJoins'
  <2>1. telemetry_link' = 1 BY <1>3 DEF TakenTypes
  <2> QED BY <1>2, <1>3, <1>4, <1>5, <1>6, <2>1 DEF ChunkJoins
<1>9. ParserInStep' BY <1>2 DEF ParserInStep
<1>10. StartedAfresh'
  <2>1. slipped' \in BOOLEAN BY <1>2
  <2> QED BY <1>1, <1>3, <2>1 DEF StartedAfresh, TakenTypes
<1> QED BY <1>3, <1>7, <1>8, <1>9, <1>10 DEF SportInvariant

\* The receiver at its next chunk, the last one lost, or none sent.
Passed ==
  /\ receiver' \in [at : 1 .. Len(Wire), number : Numbers]
  /\ pktx' \in [age : Ages, good : 0 .. SIZE] /\ pktx'.good = pktx.good
  /\ slipped' \in BOOLEAN
  /\ \/ UNCHANGED <<receiver, pktx, gap, instep, slipped>>
     \/ telemetry_link = 0 /\ LostUnseen
     \/ /\ telemetry_link = 0 /\ receiver'.number = NumberAfter(receiver.number)
        /\ instep /\ gap < 3 /\ gap' = gap + 1 /\ UNCHANGED <<instep, slipped>>

LEMMA ChunkPasses ==
  ASSUME TypeOK, StartedAfresh,
         \/ LostOrNone
         \/ /\ telemetry_link = 0 /\ LostUnseen
            /\ UNCHANGED <<receiver, pktx>> \/ \E n \in 0 .. CHUNK : Advance(n)
  PROVE  Passed
<1>1. slipped \in BOOLEAN BY DEF StartedAfresh
<1>2. /\ receiver \in [at : 1 .. Len(Wire), number : Numbers]
      /\ pktx \in [age : Ages, good : 0 .. SIZE]
  BY DEF TypeOK
<1>3. CASE UNCHANGED <<receiver, pktx, gap, instep, slipped>>
  BY <1>1, <1>2, <1>3 DEF Passed
<1>4. ASSUME NEW n \in 0 .. CHUNK, Advance(n)
      PROVE  /\ receiver' \in [at : 1 .. Len(Wire), number : Numbers]
             /\ pktx' \in [age : Ages, good : 0 .. SIZE] /\ pktx'.good = pktx.good
             /\ receiver'.number = NumberAfter(receiver.number)
  BY <1>4, ReceiverAdvances DEF Numbers
<1>5. CASE /\ telemetry_link = 0 /\ LostUnseen
           /\ UNCHANGED <<receiver, pktx>> \/ \E n \in 0 .. CHUNK : Advance(n)
  <2>1. slipped' \in BOOLEAN BY <1>5 DEF LostUnseen
  <2>2. CASE UNCHANGED <<receiver, pktx>> BY <1>2, <1>5, <2>1, <2>2 DEF Passed
  <2>3. CASE \E n \in 0 .. CHUNK : Advance(n) BY <1>4, <1>5, <2>1, <2>3 DEF Passed
  <2> QED BY <1>5, <2>2, <2>3
<1>6. CASE telemetry_link = 0 /\ (\E n \in 0 .. CHUNK : Advance(n)) /\ Lost
  <2>1. PICK n \in 0 .. CHUNK : Advance(n) BY <1>6
  <2>2. CASE LostUnseen BY <1>5, <1>6, <2>2
  <2>3. CASE instep /\ gap < 3 /\ gap' = gap + 1 /\ UNCHANGED <<instep, slipped>>
    BY <1>1, <1>4, <1>6, <2>1, <2>3 DEF Passed
  <2> QED BY <1>6, <2>2, <2>3 DEF Lost
<1> QED BY <1>3, <1>5, <1>6 DEF LostOrNone

LEMMA PassedKeepsInvariant ==
  ASSUME SportInvariant, Passed, ~feeding,
         counter' \in 0 .. MISSES, telemetry_lost' \in {0, 1}, seq_last_rcvd' \in Numbers,
         seq_last_rcvd' = seq_last_rcvd \/ LostUnseen,
         UNCHANGED <<telemetry_link, pktt, noise, feeding, pass, indx,
                     sport, copied, sport_counter, started>>
  PROVE  SportInvariant'
<1>1. TypeOK /\ ChunkJoins /\ NumbersCount /\ ParserInStep /\ StartedAfresh
  BY DEF SportInvariant
<1>2. TypeOK' BY <1>1 DEF TypeOK, Passed
<1>3. ChunkJoins' BY <1>1 DEF ChunkJoins, Passed, LostUnseen
<1>4. StartedAfresh' BY <1>1 DEF StartedAfresh, Passed
<1>5. CASE LostUnseen
  <2>1. gap' = 0 /\ instep' = FALSE /\ slipped' = TRUE BY <1>5 DEF LostUnseen
  <2>2. NumbersCount'
    <3>1. instep' \in BOOLEAN /\ ~instep' BY <2>1
    <3> QED BY <2>1, <3>1 DEF NumbersCount
  <2>3. ParserInStep' BY <2>1 DEF ParserInStep
  <2> QED BY <1>2, <1>3, <1>4, <2>2, <2>3 DEF SportInvariant
<1>6. CASE seq_last_rcvd' = seq_last_rcvd /\ UNCHANGED <<receiver, pktx, gap, instep, slipped>>
  <2>1. NumbersCount' BY <1>1, <1>6 DEF NumbersCount
  <2>2. NextAt' = NextAt /\ NextAge' = NextAge
    BY <1>6 DEF NextAt, NextAge, Wraps, DataAge
  <2>3. ParserInStep' BY <1>1, <1>6, <2>2 DEF ParserInStep
  <2> QED BY <1>2, <1>3, <1>4, <2>1, <2>3 DEF SportInvariant
<1>7. CASE /\ seq_last_rcvd' = seq_last_rcvd
           /\ receiver'.number = NumberAfter(receiver.number)
           /\ instep /\ gap < 3 /\ gap' = gap + 1 /\ UNCHANGED <<instep, slipped>>
  <2>1. PICK k \in {0, 1, 2, 3, 8}, g \in 0 .. 2 : k = seq_last_rcvd /\ g = gap
    BY <1>1, <1>7 DEF TypeOK, Numbers, NumbersCount
  <2>2. receiver.number = (k + 1 + g) % 4 BY <1>1, <1>7, <2>1 DEF NumbersCount
  <2>3. NumberAfter((k + 1 + g) % 4) = (k + 1 + (g + 1)) % 4
    BY <2>1 DEF NumberAfter
  <2>4. receiver'.number = (seq_last_rcvd' + 1 + gap') % 4 BY <1>7, <2>1, <2>2, <2>3
  <2>5. gap' \in 0 .. 3 /\ gap' # 0 BY <1>7, <2>1
  <2>6. NumbersCount' BY <1>1, <1>7, <2>4, <2>5 DEF NumbersCount
  <2>7. ParserInStep' BY <1>1, <1>7, <2>5 DEF ParserInStep, Passed
  <2> QED BY <1>2, <1>3, <1>4, <2>6, <2>7 DEF SportInvariant
<1> QED BY <1>5, <1>6, <1>7 DEF Passed

LEMMA NoAnswerKeepsInvariant ==
  ASSUME SportInvariant, NoAnswer \/ ForeignAnswer
  PROVE  SportInvariant'
<1>1. TypeOK /\ StartedAfresh BY DEF SportInvariant
<1>2. /\ ~feeding
      /\ UNCHANGED <<telemetry_link, pktt, noise, feeding, pass, indx,
                     sport, copied, sport_counter, started>>
  BY DEF NoAnswer, ForeignAnswer, output
<1>3. \/ LostOrNone /\ UNCHANGED <<seq_last_rcvd, telemetry_lost>>
         /\ counter' \in {counter + 1, 0} /\ (counter' # 0 => counter < MISSES)
      \/ /\ telemetry_link = 0 /\ LostUnseen /\ counter' = 0 /\ seq_last_rcvd' = 8
         /\ telemetry_lost' = 1
         /\ UNCHANGED <<receiver, pktx>> \/ \E n \in 0 .. CHUNK : Advance(n)
  BY DEF NoAnswer, ForeignAnswer, Missed
<1>4. Passed BY <1>1, <1>3, ChunkPasses
<1>5. counter' \in 0 .. MISSES /\ telemetry_lost' \in {0, 1} /\ seq_last_rcvd' \in Numbers
  BY <1>1, <1>3, Sizes DEF TypeOK, Numbers
<1>6. seq_last_rcvd' = seq_last_rcvd \/ LostUnseen BY <1>3
<1> QED BY <1>2, <1>4, <1>5, <1>6, PassedKeepsInvariant

\* The chunk is done: the next byte is the receiver's.
LEMMA ChunkKeepsInvariant ==
  ASSUME SportInvariant, ChunkFed
  PROVE  SportInvariant'
<1>1. TypeOK /\ ChunkJoins /\ NumbersCount /\ ParserInStep /\ StartedAfresh
  BY DEF SportInvariant
<1>2. /\ telemetry_link = 1 /\ pktt.left = 0 /\ noise = 0 /\ noise' = 0
      /\ telemetry_link' = 0 /\ pktt' = NoChunk /\ feeding' = FALSE
      /\ UNCHANGED <<receiver, seq_last_rcvd, counter, telemetry_lost,
                     pass, indx, pktx, sport, copied, sport_counter,
                     started, instep, gap, slipped>>
  BY DEF ChunkFed, output, history
<1>3. PICK w \in Nat : w = Len(Wire) /\ SIZE < w BY WireIs
<1>4. TypeOK'
  <2>1. pktt' \in [age : {0, 1}, at : Nat \ {0}, left : 0 .. CHUNK]
    BY <1>2, Sizes DEF NoChunk
  <2> QED BY <1>1, <1>2, <2>1 DEF TypeOK
<1>5. ChunkJoins'
  BY <1>2, <1>3, Sizes DEF ChunkJoins, NoChunk
<1>6. NumbersCount' BY <1>1, <1>2 DEF NumbersCount
<1>7. NextAt' = NextAt /\ NextAge' = NextAge
  <2>1. NextAt' = receiver.at /\ NextAge' = 0 BY <1>2 DEF NextAt, NextAge
  <2>2. PICK a \in Nat : a = pktt.at BY <1>1 DEF TypeOK
  <2>3. /\ pktt.age = IF a > w THEN 1 ELSE 0
        /\ receiver.at = a - pktt.age * w
    BY <1>1, <1>2, <1>3, <2>2 DEF ChunkJoins
  <2>4. Wraps = pktt.age BY <1>3, <2>2, <2>3 DEF Wraps
  <2>5. pktt.age \in {0, 1} BY <2>3
  <2>6. NextAge = 0 BY <1>2, <2>4, <2>5 DEF NextAge, DataAge
  <2>7. NextAt = a - pktt.age * w BY <1>2, <1>3, <2>2, <2>4 DEF NextAt
  <2> QED BY <2>1, <2>3, <2>6, <2>7
<1>8. ParserInStep' BY <1>1, <1>2, <1>7 DEF ParserInStep
<1>9. StartedAfresh' BY <1>1, <1>2 DEF StartedAfresh
<1> QED BY <1>4, <1>5, <1>6, <1>8, <1>9 DEF SportInvariant

LEMMA SlotKeepsInvariant ==
  ASSUME SportInvariant, sportSendFrame
  PROVE  SportInvariant'
<1>1. TypeOK /\ ChunkJoins /\ NumbersCount /\ ParserInStep /\ StartedAfresh
  BY DEF SportInvariant
<1>2. /\ UNCHANGED <<receiver, seq_last_rcvd, counter, telemetry_link, telemetry_lost,
                     pktt, noise, feeding, pass, indx, pktx, copied, started, instep,
                     gap, slipped>>
      /\ sport' \in {sport, 0} /\ sport_counter' = (sport_counter + 1) % SLOTS
  BY DEF sportSendFrame, link, parser, output, history
<1>3. TypeOK'
  <2>1. sport' \in {0, 1} BY <1>1, <1>2 DEF TypeOK
  <2>2. sport_counter' \in 0 .. SLOTS - 1
    <3>1. PICK k \in Nat, m \in Nat \ {0} : k = sport_counter + 1 /\ m = SLOTS
      BY <1>1, Sizes DEF TypeOK
    <3>2. k % m \in 0 .. m - 1 BY <3>1
    <3> QED BY <1>1, <1>2, <3>1, <3>2 DEF TypeOK
  <2> QED BY <1>1, <1>2, <2>1, <2>2 DEF TypeOK
<1>4. NextAt' = NextAt /\ NextAge' = NextAge
  BY <1>2 DEF NextAt, NextAge, Wraps, DataAge
<1>5. ParserInStep' BY <1>1, <1>2, <1>4 DEF ParserInStep
<1>6. ChunkJoins' BY <1>1, <1>2 DEF ChunkJoins
<1>7. NumbersCount' BY <1>1, <1>2 DEF NumbersCount
<1>8. StartedAfresh' BY <1>1, <1>2 DEF StartedAfresh
<1> QED BY <1>3, <1>5, <1>6, <1>7, <1>8 DEF SportInvariant

LEMMA ReceiverKeepsInvariant ==
  ASSUME SportInvariant, OtherReceiver
  PROVE  SportInvariant'
<1>1. TypeOK /\ ChunkJoins /\ NumbersCount /\ ParserInStep /\ StartedAfresh
  BY DEF SportInvariant
<1>2. /\ ~feeding /\ pass' = 0 /\ telemetry_link' = 0 /\ pktt' = NoChunk /\ noise' = 0
      /\ telemetry_lost' = 1 /\ seq_last_rcvd' = 8
      /\ receiver' \in [at : 1 .. Len(Wire), number : {8}]
      /\ pktx' = Older(pktx, Old) /\ gap' = 0 /\ instep' = FALSE
      /\ UNCHANGED <<counter, feeding, indx, sport, copied, sport_counter,
                     started, slipped>>
  BY DEF OtherReceiver, telemetry_reset, output
<1>3. pktx' \in [age : Ages, good : 0 .. SIZE] /\ pktx'.good = pktx.good
  <2>1. pktx \in [age : 0 .. 2, good : 0 .. SIZE] BY <1>1 DEF TypeOK, Ages, Old
  <2>2. Min({pktx.age + 2, 2}) = 2
    <3>1. pktx.age + 2 \in Int /\ 2 \in Int /\ pktx.age + 2 >= 2 BY <2>1
    <3>2. Min({pktx.age + 2, 2}) = IF pktx.age + 2 <= 2 THEN pktx.age + 2 ELSE 2
      BY <3>1, LeastOfTwo
    <3> QED BY <3>1, <3>2
  <2>3. pktx' = [pktx EXCEPT !.age = 2] BY <1>2, <2>2 DEF Older, Old
  <2> QED BY <2>1, <2>3 DEF Ages, Old
<1>4. TypeOK'
  <2>1. pktt' \in [age : {0, 1}, at : Nat \ {0}, left : 0 .. CHUNK]
    BY <1>2, Sizes DEF NoChunk
  <2> QED BY <1>1, <1>2, <1>3, <2>1, Sizes DEF TypeOK, Numbers
<1>5. ChunkJoins'
  <2>1. PICK w \in Nat : w = Len(Wire) /\ SIZE < w BY WireIs
  <2> QED BY <1>2, <2>1, Sizes DEF ChunkJoins, NoChunk
<1>6. NumbersCount'
  <2>1. instep' = FALSE /\ gap' = 0 BY <1>2
  <2>2. instep' \in BOOLEAN BY <2>1
  <2>3. gap' \in 0 .. 3 BY <2>1
  <2> QED BY <2>1, <2>2, <2>3 DEF NumbersCount
<1>7. ParserInStep' BY <1>1, <1>2, <1>3 DEF ParserInStep
<1>8. StartedAfresh' BY <1>1, <1>2 DEF StartedAfresh
<1> QED BY <1>4, <1>5, <1>6, <1>7, <1>8 DEF SportInvariant

LEMMA SportStarts == Init => SportInvariant
<1> SUFFICES ASSUME Init PROVE SportInvariant OBVIOUS
<1>1. PICK w \in Nat : w = Len(Wire) /\ SIZE < w BY WireIs
<1>2. TypeOK
  <2>1. pktt \in [age : {0, 1}, at : Nat \ {0}, left : 0 .. CHUNK]
    BY Sizes DEF Init, NoChunk
  <2>2. receiver \in [at : 1 .. Len(Wire), number : Numbers]
    BY <1>1, Sizes DEF Init, Numbers
  <2>3. feeding \in BOOLEAN BY DEF Init
  <2>4. pktx \in [age : Ages, good : 0 .. SIZE] BY Sizes DEF Init, Ages, Old, NoneGood
  <2>5. /\ seq_last_rcvd = 8 /\ counter = 0 /\ telemetry_link = 0 /\ telemetry_lost = 1
        /\ sport = 0 /\ pass = 0 /\ indx = 0 /\ sport_counter = 0 /\ noise = 0
    BY DEF Init
  <2> QED BY <2>1, <2>2, <2>3, <2>4, <2>5, Sizes DEF TypeOK, Numbers
<1>3. ChunkJoins BY <1>1, Sizes DEF Init, ChunkJoins, NoChunk
<1>4. NumbersCount /\ StartedAfresh
  <2>1. instep \in BOOLEAN /\ started \in BOOLEAN /\ copied \in BOOLEAN /\ slipped \in BOOLEAN
    BY DEF Init
  <2>2. gap \in 0 .. 3 /\ gap = 0 BY DEF Init
  <2>3. ~instep /\ ~started BY DEF Init
  <2> QED BY <2>1, <2>2, <2>3 DEF NumbersCount, StartedAfresh
<1>5. ParserInStep BY Sizes DEF Init, ParserInStep
<1> QED BY <1>2, <1>3, <1>4, <1>5 DEF SportInvariant

LEMMA SportSteps ==
  ASSUME SportInvariant, Next
  PROVE  SportInvariant'
<1>1. CASE NoAnswer \/ ForeignAnswer BY <1>1, NoAnswerKeepsInvariant
<1>2. CASE sportSendFrame BY <1>2, SlotKeepsInvariant
<1>3. ASSUME NEW n \in 0 .. CHUNK, Answers(n) \/ Overwrites(n) \/ DamagedAnswer(n)
      PROVE  SportInvariant'
  <2>1. CASE Answer(n) BY <2>1, AnswerKeepsInvariant
  <2>2. CASE DamagedAnswer(n) BY <2>2, DamagedKeepsInvariant
  <2> QED BY <1>3, <2>1, <2>2 DEF Answers, Overwrites
<1>4. CASE FeedData BY <1>4, ByteKeepsInvariant
<1>5. CASE FeedDamaged BY <1>5, DamageKeepsInvariant
<1>6. CASE ChunkFed BY <1>6, ChunkKeepsInvariant
<1>7. CASE OtherReceiver BY <1>7, ReceiverKeepsInvariant
<1> QED BY <1>1, <1>2, <1>3, <1>4, <1>5, <1>6, <1>7 DEF Next, Cycle, Feed

LEMMA SportStutters ==
  ASSUME SportInvariant, UNCHANGED vars
  PROVE  SportInvariant'
<1>1. UNCHANGED <<receiver, seq_last_rcvd, counter, telemetry_link, telemetry_lost, pktt,
                  noise, feeding, pass, indx, pktx, sport, copied, sport_counter,
                  started, instep, gap, slipped>>
  BY DEF vars, link, parser, output, history
<1>2. TypeOK' BY <1>1 DEF SportInvariant, TypeOK
<1>3. ChunkJoins' BY <1>1 DEF SportInvariant, ChunkJoins
<1>4. NumbersCount' BY <1>1 DEF SportInvariant, NumbersCount
<1>5. NextAt' = NextAt /\ NextAge' = NextAge
  BY <1>1 DEF NextAt, NextAge, Wraps, DataAge
<1>6. ParserInStep' BY <1>1, <1>5 DEF SportInvariant, ParserInStep
<1>7. StartedAfresh' BY <1>1 DEF SportInvariant, StartedAfresh
<1> QED BY <1>2, <1>3, <1>4, <1>6, <1>7 DEF SportInvariant

\* What is put up is whole, and for the first time.
LEMMA PutUpWhole ==
  ASSUME SportInvariant, Next, sport = 0, sport' = 1
  PROVE  /\ pktx'.good = SIZE \/ slipped
         /\ started => ~copied
<1>1. FeedData \/ FeedDamaged
  <2>1. sport # 1 BY Sizes
  <2>2. ASSUME NEW n, NEW number, frsky_check_telemetry(n, number) PROVE FALSE
    BY <2>1, <2>2 DEF frsky_check_telemetry, output
  <2>3. ~(\E n \in 0 .. CHUNK : Answers(n) \/ Overwrites(n) \/ DamagedAnswer(n))
    BY <2>2 DEF Answers, Overwrites, Answer, DamagedAnswer
  <2> QED BY <2>1, <2>3 DEF Next, Cycle, Feed, NoAnswer, ForeignAnswer, ChunkFed,
           sportSendFrame, OtherReceiver, output
<1>2. PICK byte : /\ proces_sport_data(byte)
                  /\ \/ FeedData
                     \/ noise > 0
  BY <1>1 DEF FeedData, FeedDamaged
<1>3. Raises BY <1>2 DEF proces_sport_data, DoubleBuffer
<1>4. SportInvariant' /\ ParserStep(byte)
  BY <1>1, <1>2, ByteKeepsInvariant, DamageKeepsInvariant, ParserSteps
<1>5. indx \in 0 .. SIZE /\ indx' = SIZE
  <2>1. indx \in 0 .. SIZE /\ indx' \in 0 .. SIZE BY <1>4 DEF SportInvariant, TypeOK
  <2> QED BY <1>3, <2>1, Sizes DEF Raises, Ends
<1>7. pktx'.good = SIZE \/ slipped
  <2>1. indx' # 0 BY <1>5, Sizes
  <2>2. ~slipped => ~slipped' BY <1>4, <2>1 DEF ParserStep
  <2> QED BY <1>4, <1>5, <2>2 DEF SportInvariant, ParserInStep
<1>6. started => ~copied
  <2>1. started /\ copied => indx = 0 BY DEF SportInvariant, StartedAfresh
  <2>2. indx' \in {0, indx, indx + 1} BY <1>4 DEF ParserStep
  <2> QED BY <1>5, <2>1, <2>2, Sizes
<1> QED BY <1>6, <1>7

-----------------------------------------------------------------------------
(***************************************************************************)
(* The hub, and the frames sent as they were received: HubInStep is        *)
(* inductive.                                                              *)
(***************************************************************************)
LEMMA HubSizes ==
  /\ MAX_PKTX \in Nat /\ USER_MAX_BYTES \in Nat \ {0} /\ USER_MAX_BYTES <= MAX_PKTX
  /\ MAX_PKTX <= 2 * USER_MAX_BYTES /\ CHUNK <= MAX_PKTX
<1>1. USER_MAX_BYTES \in 1 .. MAX_PKTX /\ MAX_PKTX \in Nat BY HubAssumption
<1> QED BY <1>1, HubAssumption

\* How many of the frames in s are user frames.
FrameKinds == {"link", "user", "DSM", "AFHDS2A"}
UsersIn(s) == Cardinality({i \in DOMAIN s : s[i] = "user"})

LEMMA UsersInNothing == Len(<<>>) = 0 /\ UsersIn(<<>>) = 0
<1>1. {i \in DOMAIN <<>> : <<>>[i] = "user"} = {} OBVIOUS
<1>2. UsersIn(<<>>) = 0 BY <1>1, FS_EmptySet DEF UsersIn
<1> QED BY <1>2

LEMMA UsersInMore ==
  ASSUME NEW s \in Seq(FrameKinds), NEW kind \in FrameKinds
  PROVE  /\ UsersIn(s) \in Nat
         /\ UsersIn(Append(s, kind)) = UsersIn(s) + IF kind = "user" THEN 1 ELSE 0
         /\ Append(s, kind) \in Seq(FrameKinds)
         /\ Len(s) \in Nat /\ Len(Append(s, kind)) = Len(s) + 1
<1> DEFINE t == Append(s, kind)
           S == {i \in DOMAIN s : s[i] = "user"}
           T == {i \in DOMAIN t : t[i] = "user"}
<1>1. /\ t \in Seq(FrameKinds) /\ Len(s) \in Nat /\ Len(t) = Len(s) + 1
      /\ DOMAIN s = 1 .. Len(s) /\ DOMAIN t = 1 .. Len(s) + 1
      /\ \A i \in 1 .. Len(s) : t[i] = s[i]
      /\ t[Len(s) + 1] = kind
  OBVIOUS
<1> HIDE DEF t
<1>2. IsFiniteSet(S)
  <2>1. IsFiniteSet(1 .. Len(s)) BY <1>1, FS_Interval
  <2>2. S \subseteq 1 .. Len(s) BY <1>1
  <2> QED BY <2>1, <2>2, FS_Subset
<1>3. Cardinality(S) \in Nat BY <1>2, FS_CardinalityType
<1>4. CASE kind = "user"
  <2>1. T = S \cup {Len(s) + 1} BY <1>1, <1>4
  <2>2. Len(s) + 1 \notin S BY <1>1
  <2>3. Cardinality(T) = Cardinality(S) + 1 BY <1>2, <2>1, <2>2, FS_AddElement
  <2> QED BY <1>1, <1>3, <1>4, <2>3 DEF UsersIn, t
<1>5. CASE kind # "user"
  <2>1. T = S BY <1>1, <1>5
  <2>2. UsersIn(t) = UsersIn(s) /\ UsersIn(s) \in Nat BY <1>3, <2>1 DEF UsersIn
  <2>3. UsersIn(t) = UsersIn(s) + IF kind = "user" THEN 1 ELSE 0 BY <1>5, <2>2
  <2> QED BY <1>1, <2>2, <2>3 DEF t
<1> QED BY <1>4, <1>5

\* Up to two frames take the user bytes of a packet.
LEMMA FramesTaken ==
  /\ \A n \in 1 .. USER_MAX_BYTES : FramesOf(n) = 1
  /\ \A n \in 1 .. USER_MAX_BYTES : FramesOf(USER_MAX_BYTES + n) = 2
<1>1. PICK u \in Nat \ {0} : u = USER_MAX_BYTES BY HubSizes
<1>2. ASSUME NEW n \in 1 .. u PROVE FramesOf(n) = 1
  <2>1. n + u - 1 \in Nat /\ u <= n + u - 1 /\ n + u - 1 < 2 * u BY <1>1
  <2>2. PICK q : q = (n + u - 1) \div u OBVIOUS
  <2>3. q \in Int /\ u * q <= n + u - 1 /\ n + u - 1 < u * (q + 1)
    BY <1>1, <2>1, <2>2
  <2>4. q = 1
    <3>1. ASSUME q <= 0 PROVE FALSE
      <4>1. u * (q + 1) <= u * 1 BY <2>3, <3>1
      <4> QED BY <2>1, <2>3, <4>1
    <3>2. ASSUME q >= 2 PROVE FALSE
      <4>1. u * q >= u * 2 BY <2>3, <3>2
      <4> QED BY <2>1, <2>3, <4>1
    <3> QED BY <2>3, <3>1, <3>2
  <2> QED BY <1>1, <2>2, <2>4 DEF FramesOf
<1>3. ASSUME NEW n \in 1 .. u PROVE FramesOf(u + n) = 2
  <2>1. u + n + u - 1 \in Nat /\ 2 * u <= u + n + u - 1 /\ u + n + u - 1 < 3 * u
    BY <1>1
  <2>2. PICK q : q = (u + n + u - 1) \div u OBVIOUS
  <2>3. q \in Int /\ u * q <= u + n + u - 1 /\ u + n + u - 1 < u * (q + 1)
    BY <1>1, <2>1, <2>2
  <2>4. q = 2
    <3>1. ASSUME q <= 1 PROVE FALSE
      <4>1. u * (q + 1) <= u * 2 BY <2>3, <3>1
      <4> QED BY <2>1, <2>3, <4>1
    <3>2. ASSUME q >= 3 PROVE FALSE
      <4>1. u * q >= u * 3 BY <2>3, <3>2
      <4> QED BY <2>1, <2>3, <4>1
    <3> QED BY <2>3, <3>1, <3>2
  <2> QED BY <1>1, <2>2, <2>4 DEF FramesOf
<1> QED BY <1>1, <1>2, <1>3

\* The invariant of all protocols but FrSkyX.
HubTypeOK ==
  /\ protocol \in Framed /\ frame \in Seq(FrameKinds)
  /\ telemetry_link \in 0 .. 2 /\ pass \in {0, 2} /\ indx \in 0 .. USER_MAX_BYTES
  /\ pktt6 \in 0 .. MAX_PKTX + 1 /\ prev_index \in 0 .. MAX_PKTX
  /\ taken \in 0 .. MAX_PKTX /\ passed \in 0 .. taken /\ mine \in BOOLEAN
HubInvariant == HubTypeOK /\ HubInStep

LEMMA OthersAre == Users = UsersIn(frame) /\ Others = Len(frame) - UsersIn(frame)
BY DEF Users, Others, UsersIn

LEMMA ReceivedKeepsHub ==
  ASSUME HubInvariant, Received
  PROVE  HubInvariant' /\ ~Updated
<1>1. HubTypeOK /\ HubInStep BY DEF HubInvariant
<1>2. /\ telemetry_link' \in {1, 2} /\ frame' = <<>> /\ protocol' = protocol
      /\ telemetry_link' = 2 => protocol = "AFHDS2A"
      /\ UNCHANGED <<pass, indx, prev_index, taken, passed>>
      /\ \/ protocol = "FRSKYD" /\ pktt6' \in 0 .. MAX_PKTX + 1 /\ mine' = FALSE
         \/ protocol # "FRSKYD" /\ UNCHANGED <<pktt6, mine>>
  BY DEF Received, FrSkyDAnswer, OtherAnswer, Kinds, NotOfHub
<1>3. Users' = 0 /\ Others' = 0
  <2>1. UsersIn(frame') = 0 /\ Len(frame') = 0 BY <1>2, UsersInNothing
  <2>2. Users' = UsersIn(frame') /\ Others' = Len(frame') - UsersIn(frame')
    BY DEF Users, Others, UsersIn
  <2> QED BY <2>1, <2>2
<1>4. mine' = FALSE /\ mine' \in BOOLEAN BY <1>1, <1>2 DEF HubTypeOK, HubInStep
<1>5. HubTypeOK'
  <2>1. frame' \in Seq(FrameKinds) BY <1>2
  <2> QED BY <1>1, <1>2, <1>4, <2>1 DEF HubTypeOK
<1>6. HubInStep' BY <1>1, <1>2, <1>3, <1>4 DEF HubInStep
<1>7. ~Updated
  <2>1. Updated => telemetry_link' = 0
    BY DEF Updated, telem_update_hub, telem_update_dsm, telem_update_afhds2a,
         telem_update_frsky, telem_update, frsky_user_frame, NotOfUser
  <2> QED BY <1>2, <2>1
<1> QED BY <1>5, <1>6, <1>7 DEF HubInvariant

\* What RelayedOnce says of a step that passes a frame on.
UpdatedOnce ==
  /\ telemetry_link = 2 => frame' = <<"AFHDS2A">>
  /\ pktt6 \in Valid /\ pktt6' = 0 => passed' = taken'

\* A link frame, or what was received.
LEMMA LinkKeepsHub ==
  ASSUME HubInvariant,
         telem_update_dsm \/ telem_update_afhds2a \/ telem_update_frsky
  PROVE  HubInvariant' /\ UpdatedOnce
<1>1. HubTypeOK /\ HubInStep BY DEF HubInvariant
<1>2. PICK kind \in FrameKinds \ {"user"} :
        /\ telemetry_link # 0 /\ telemetry_link' = 0 /\ frame' = Append(frame, kind)
        /\ telemetry_link = 2 => kind = "AFHDS2A"
        /\ UNCHANGED <<protocol, pass, indx, pktt6, prev_index, taken, passed, mine>>
  <2>1. telemetry_link = 2 => protocol = "AFHDS2A" BY <1>1 DEF HubInStep
  <2>2. CASE telem_update_dsm
    <3>1. protocol = "DSM" BY <2>2 DEF telem_update_dsm, telem_update
    <3> QED BY <2>1, <2>2, <3>1
        DEF telem_update_dsm, telem_update, Send, NotOfHub, FrameKinds
  <2>3. CASE telem_update_afhds2a
    BY <2>3 DEF telem_update_afhds2a, telem_update, Forwards, Send, NotOfHub, FrameKinds
  <2>4. CASE telem_update_frsky
    BY <2>1, <2>4 DEF telem_update_frsky, telem_update, Forwards, Send, NotOfHub, FrameKinds
  <2> QED BY <2>2, <2>3, <2>4
<1>3. frame = <<>> /\ ~mine /\ frame \in Seq(FrameKinds)
  BY <1>1, <1>2 DEF HubTypeOK, HubInStep
<1>4. Users' = 0 /\ Others' = 1 /\ frame' \in Seq(FrameKinds)
  <2>1. /\ UsersIn(frame') = 0 /\ Len(frame') = 1 /\ frame' \in Seq(FrameKinds)
    <3>1. /\ UsersIn(Append(frame, kind)) = UsersIn(frame) + 0
          /\ Append(frame, kind) \in Seq(FrameKinds)
          /\ Len(Append(frame, kind)) = Len(frame) + 1
      BY <1>2, <1>3, UsersInMore
    <3> QED BY <1>2, <1>3, <3>1, UsersInNothing
  <2>2. Users' = UsersIn(frame') /\ Others' = Len(frame') - UsersIn(frame')
    BY DEF Users, Others, UsersIn
  <2> QED BY <2>1, <2>2
<1>5. HubTypeOK' BY <1>1, <1>2, <1>4 DEF HubTypeOK
<1>6. mine' = FALSE BY <1>1, <1>2, <1>3 DEF HubTypeOK
<1>7. HubInStep' BY <1>1, <1>2, <1>4, <1>6 DEF HubInStep
<1>8. frame' = <<kind>> BY <1>2, <1>3
<1>9. UpdatedOnce
  <2>1. pktt6' = 0 => pktt6 \notin Valid BY <1>2, HubSizes DEF Valid
  <2> QED BY <1>2, <1>8, <2>1 DEF UpdatedOnce
<1> QED BY <1>5, <1>7, <1>9 DEF HubInvariant

LEMMA UserKeepsHub ==
  ASSUME HubInvariant, telem_update_hub
  PROVE  HubInvariant' /\ UpdatedOnce
<1>1. HubTypeOK /\ HubInStep BY DEF HubInvariant
<1>2. /\ protocol = "FRSKYD" /\ protocol' = protocol
      /\ telemetry_link = 0 /\ telemetry_link' = 0
      /\ frsky_user_frame
  BY DEF telem_update_hub, frsky_user_frame, NotOfUser, NotOfHub
<1>3. PICK u \in Nat \ {0} :
        u = USER_MAX_BYTES /\ u <= MAX_PKTX /\ MAX_PKTX <= 2 * u /\ MAX_PKTX \in Nat
  BY HubSizes
<1>4. /\ Users = UsersIn(frame) /\ Others = Len(frame) - UsersIn(frame)
      /\ Users' = UsersIn(frame') /\ Others' = Len(frame') - UsersIn(frame')
  BY DEF Users, Others, UsersIn
<1>5. frame \in Seq(FrameKinds) /\ UsersIn(frame) \in Nat /\ Len(frame) \in Nat
  <2>1. frame \in Seq(FrameKinds) BY <1>1 DEF HubTypeOK
  <2> QED BY <2>1, UsersInMore DEF FrameKinds
<1>6. ASSUME frame' = Append(frame, "user")
      PROVE  /\ Users' = Users + 1 /\ Others' = Others
             /\ frame' \in Seq(FrameKinds)
  <2>1. /\ UsersIn(frame') = UsersIn(frame) + 1
        /\ frame' \in Seq(FrameKinds) /\ Len(frame') = Len(frame) + 1
    BY <1>5, <1>6, UsersInMore DEF FrameKinds
  <2> QED BY <1>4, <1>5, <2>1
<1>7. CASE pktt6 \in Valid /\ pass = 0 /\ (AllAtOnce \/ FirstChunk)
  <2>1. Users = 0 /\ Others <= 1 BY <1>1, <1>7 DEF HubInStep
  <2>2. PICK n \in 1 .. u :
          /\ n <= pktt6 /\ taken' = pktt6 /\ mine' = TRUE /\ prev_index' = pktt6
          /\ indx' = n /\ passed' = n /\ frame' = Append(frame, "user")
          /\ \/ pass' = 0 /\ pktt6' = 0 /\ n = pktt6
             \/ pass' = 2 /\ pktt6' = pktt6 /\ n = u
    <3>1. pktt6 \in 1 .. MAX_PKTX BY <1>7 DEF Valid
    <3>2. CASE AllAtOnce
      BY <1>3, <3>1, <3>2 DEF AllAtOnce, First, Done, Send
    <3>3. CASE FirstChunk
      BY <1>3, <3>1, <3>3 DEF FirstChunk, First, Send
    <3> QED BY <1>7, <3>2, <3>3
  <2>3. Users' = 1 /\ Others' <= 1 /\ frame' \in Seq(FrameKinds)
    BY <1>6, <2>1, <2>2
  <2>4. FramesOf(n) = 1 BY <1>3, <2>2, FramesTaken
  <2>5. pktt6 \in 1 .. MAX_PKTX BY <1>7 DEF Valid
  <2>6. HubTypeOK'
    <3>1. mine' \in BOOLEAN BY <2>2
    <3>2. passed' \in 0 .. taken' /\ indx' \in 0 .. USER_MAX_BYTES
      BY <1>3, <2>2, <2>5
    <3> QED BY <1>1, <1>2, <2>2, <2>3, <2>5, <3>1, <3>2, <1>3 DEF HubTypeOK
  <2>7. HubInStep'
    <3>1. pass' = 0 => pktt6' \notin Valid BY <2>2, <1>3 DEF Valid
    <3> QED BY <1>2, <1>3, <2>2, <2>3, <2>4, <3>1 DEF HubInStep
  <2>8. UpdatedOnce BY <1>2, <2>2, <2>5 DEF UpdatedOnce
  <2> QED BY <2>6, <2>7, <2>8 DEF HubInvariant
<1>8. CASE pktt6 \in Valid /\ pass = 2 /\ SecondChunk
  <2>1. /\ indx = u /\ passed = u /\ prev_index = taken /\ taken >= u
        /\ taken \in 0 .. MAX_PKTX
        /\ mine => Users = FramesOf(u)
        /\ ~mine => Users = 0
        /\ Others <= 1
    BY <1>1, <1>3, <1>8 DEF HubInStep, HubTypeOK
  <2>2. PICK r \in 0 .. u : r = Rest /\ taken = u + r BY <1>3, <2>1 DEF Rest
  <2>3. /\ indx' = r /\ prev_index' = 0 /\ passed' = u + r /\ pass' = 0 /\ pktt6' = 0
        /\ IF r = 0 THEN frame' = frame ELSE frame' = Append(frame, "user")
        /\ taken' = taken /\ mine' = mine
    BY <1>8, <2>1, <2>2 DEF SecondChunk, Done, Send
  <2>4. /\ frame' \in Seq(FrameKinds) /\ Others' <= 1
        /\ Users' = IF r = 0 THEN Users ELSE Users + 1
    <3>1. CASE r = 0
      <4>1. frame' = frame BY <2>3, <3>1
      <4> QED BY <1>4, <1>5, <2>1, <3>1, <4>1
    <3>2. CASE r # 0 BY <1>6, <2>1, <2>3, <3>2
    <3> QED BY <3>1, <3>2
  <2>5. mine => Users' = FramesOf(u + r)
    <3>1. u \in 1 .. u /\ FramesOf(u) = 1 BY <1>3, FramesTaken
    <3>2. CASE r = 0 BY <1>3, <2>1, <2>4, <3>2
    <3>3. CASE r # 0
      <4>1. FramesOf(u + r) = 2 BY <1>3, <2>2, <3>3, FramesTaken
      <4> QED BY <2>1, <2>4, <3>1, <3>3, <4>1
    <3> QED BY <3>2, <3>3
  <2>6. ~mine => Users' <= 1 BY <2>1, <2>4
  <2>7. pktt6' \notin Valid BY <2>3, <1>3 DEF Valid
  <2>8. HubTypeOK'
    <3>1. passed' \in 0 .. taken' /\ indx' \in 0 .. USER_MAX_BYTES
      BY <1>3, <2>2, <2>3
    <3> QED BY <1>1, <1>2, <1>3, <2>1, <2>3, <2>4, <3>1 DEF HubTypeOK
  <2>9. HubInStep'
    BY <1>2, <2>3, <2>4, <2>5, <2>6, <2>7 DEF HubInStep
  <2>10. UpdatedOnce BY <1>2, <2>2, <2>3 DEF UpdatedOnce
  <2> QED BY <2>8, <2>9, <2>10 DEF HubInvariant
<1>9. CASE pktt6 \notin Valid /\ pass' = 0 /\ UNCHANGED <<indx, hub>>
  <2>1. UNCHANGED <<indx, pktt6, prev_index, taken, passed, mine, frame>>
    BY <1>9 DEF hub
  <2>2. Users' = Users /\ Others' = Others BY <1>4, <2>1
  <2>3. HubTypeOK' BY <1>1, <1>2, <1>9, <2>1 DEF HubTypeOK
  <2>4. HubInStep' BY <1>1, <1>2, <1>9, <2>1, <2>2 DEF HubInStep
  <2>5. UpdatedOnce BY <1>2, <1>9 DEF UpdatedOnce
  <2> QED BY <2>3, <2>4, <2>5 DEF HubInvariant
<1> QED BY <1>2, <1>7, <1>8, <1>9 DEF frsky_user_frame

-----------------------------------------------------------------------------
(***************************************************************************)
(* All protocols.                                                          *)
(***************************************************************************)
OfSport == protocol = "FRSKYX" /\ SportInvariant /\ frame = <<>> /\ ~mine

LEMMA InvariantParts == RelayInvariant <=> OfSport \/ HubInvariant
<1>1. ASSUME protocol = "FRSKYX" PROVE RelayInvariant <=> OfSport
  <2>1. frame = <<>> => frame \in Seq(FrameKinds) OBVIOUS
  <2> QED BY <1>1, <2>1 DEF RelayInvariant, RelayTypeOK, OfSport, SportInvariant, FrameKinds
<1>2. ASSUME protocol # "FRSKYX" PROVE RelayInvariant <=> HubInvariant
  BY <1>2 DEF RelayInvariant, RelayTypeOK, HubInvariant, HubTypeOK, FrameKinds
<1>3. protocol = "FRSKYX" => ~HubInvariant BY DEF HubInvariant, HubTypeOK, Framed
<1> QED BY <1>1, <1>2, <1>3 DEF OfSport

LEMMA RelayStarts == RelayInit => RelayInvariant
<1> SUFFICES ASSUME RelayInit PROVE RelayInvariant OBVIOUS
<1>1. /\ Init /\ protocol \in Framed \cup {"FRSKYX"} /\ pktt6 \in Left
      /\ prev_index = 0 /\ taken = 0 /\ passed = 0 /\ mine = FALSE /\ frame = <<>>
  BY DEF RelayInit
<1>2. CASE protocol = "FRSKYX" BY <1>1, <1>2, SportStarts, InvariantParts DEF OfSport
<1>3. CASE protocol # "FRSKYX"
  <2>1. pass = 0 /\ indx = 0 /\ telemetry_link = 0 BY <1>1 DEF Init
  <2>2. pktt6 \in 0 .. MAX_PKTX + 1 BY <1>1, HubSizes DEF Left
  <2>3. mine \in BOOLEAN BY <1>1
  <2>4. frame \in Seq(FrameKinds) BY <1>1
  <2>5. HubTypeOK BY <1>1, <1>3, <2>1, <2>2, <2>3, <2>4, HubSizes DEF HubTypeOK
  <2>6. Users = 0 /\ Others = 0
    <3>1. UsersIn(frame) = 0 /\ Len(frame) = 0 BY <1>1, UsersInNothing
    <3> QED BY <3>1, OthersAre
  <2>7. HubInStep BY <1>1, <2>1, <2>6 DEF HubInStep
  <2> QED BY <2>5, <2>7, InvariantParts DEF HubInvariant
<1> QED BY <1>2, <1>3

LEMMA HubSteps ==
  ASSUME HubInvariant, RelayNext
  PROVE  HubInvariant' /\ (Updated => UpdatedOnce)
<1>1. protocol # "FRSKYX" BY DEF HubInvariant, HubTypeOK, Framed
<1>2. Received \/ Updated BY <1>1 DEF RelayNext, OfFrSkyX
<1>3. CASE Received BY <1>3, ReceivedKeepsHub
<1>4. CASE Updated BY <1>4, LinkKeepsHub, UserKeepsHub DEF Updated
<1> QED BY <1>2, <1>3, <1>4

LEMMA HubStutters ==
  ASSUME HubInvariant, UNCHANGED relay
  PROVE  HubInvariant'
<1>1. UNCHANGED <<telemetry_link, pass, indx, protocol, pktt6, prev_index, taken,
                  passed, mine, frame>>
  BY DEF relay, vars, link, parser, hub
<1>2. HubTypeOK' BY <1>1 DEF HubInvariant, HubTypeOK
<1>3. Users' = Users /\ Others' = Others BY <1>1 DEF Users, Others
<1>4. HubInStep' BY <1>1, <1>3 DEF HubInvariant, HubInStep
<1> QED BY <1>2, <1>4 DEF HubInvariant

LEMMA OnlySportSteps ==
  ASSUME protocol = "FRSKYX", RelayNext
  PROVE  Next /\ UNCHANGED <<protocol, hub>>
BY DEF RelayNext, OfFrSkyX, Received, Updated, FrSkyDAnswer, OtherAnswer, Framed,
       telem_update_dsm, telem_update_afhds2a, telem_update_frsky, telem_update_hub,
       telem_update, Forwards

LEMMA RelaySteps ==
  ASSUME RelayInvariant, [RelayNext]_relay
  PROVE  RelayInvariant'
<1>1. CASE OfSport
  <2>1. (Next \/ UNCHANGED vars) /\ UNCHANGED <<protocol, hub>>
    BY <1>1, OnlySportSteps DEF OfSport, relay
  <2>2. SportInvariant' BY <1>1, <2>1, SportSteps, SportStutters DEF OfSport
  <2>3. OfSport' BY <1>1, <2>1, <2>2 DEF OfSport, hub
  <2> QED BY <2>3, InvariantParts, PTL
<1>2. CASE HubInvariant
  <2>1. HubInvariant' BY <1>2, HubSteps, HubStutters
  <2> QED BY <2>1, InvariantParts, PTL
<1> QED BY <1>1, <1>2, InvariantParts

\* RelayInvariant holds of every behaviour: the parser of FrSkyX waits for the byte
\* that comes next unless a chunk was lost unseen, and the hub's frames are those
\* of the packet in pktx, whatever is received meanwhile.
THEOREM RelayInvariantHolds == RelaySpec => []RelayInvariant
<1>1. RelayInit => RelayInvariant BY RelayStarts
<1>2. RelayInvariant /\ [RelayNext]_relay => RelayInvariant' BY RelaySteps
<1> QED BY <1>1, <1>2, PTL DEF RelaySpec

\* The types of the state shared by all relays: pktx is never indexed past a frame,
\* by whichever protocol (telem_update_sport, frsky_user_frame).
THEOREM RelayIsTyped == RelaySpec => []RelayTypeOK
<1>1. RelayInvariant => RelayTypeOK BY DEF RelayInvariant
<1> QED BY <1>1, RelayInvariantHolds, PTL

\* What FrSkyX puts up for the transmitter is all of one frame of the receiver,
\* unless a chunk was lost unseen, and is not the frame put up before
\* (frsky_check_telemetry, proces_sport_data, sportSendFrame).
THEOREM FramesAreRelayedWhole == RelaySpec => RelayedWhole
<1> DEFINE Unmixed == sport = 0 /\ sport' = 1 => pktx'.good = SIZE \/ slipped
           Fresh   == sport = 0 /\ sport' = 1 /\ started => ~copied
<1>1. RelayInvariant /\ [RelayNext]_relay => [Unmixed]_vars /\ [Fresh]_vars
  <2> SUFFICES ASSUME RelayInvariant, [RelayNext]_relay, vars' # vars,
                      sport = 0, sport' = 1
               PROVE  (pktx'.good = SIZE \/ slipped) /\ (started => ~copied)
    OBVIOUS
  <2>1. RelayNext BY DEF relay
  <2>2. sport' # sport BY Sizes
  <2>3. OfFrSkyX(Next)
    BY <2>1, <2>2 DEF RelayNext, Received, Updated, FrSkyDAnswer, OtherAnswer,
       telem_update_dsm, telem_update_afhds2a, telem_update_frsky, telem_update_hub,
       telem_update, frsky_user_frame, NotOfUser, NotOfHub, output
  <2> QED BY <2>3, PutUpWhole DEF OfFrSkyX, RelayInvariant
<1> QED BY <1>1, RelayInvariantHolds, PTL
    DEF RelaySpec, RelayedWhole, FramesUnmixed, NoFrameAgain

\* Of every other protocol, each answer is passed on in one frame of the kind that
\* was asked for, and the user bytes of a packet in as many frames as they take
\* (TelemetryUpdate, frsky_user_frame).
THEOREM AnswersArePassedOnOnce == RelaySpec => RelayedOnce
<1> DEFINE Once == /\ Others' <= 1 /\ (telemetry_link' # 0 => Others' = 0)
                   /\ IF mine' THEN Users' = FramesOf(passed') ELSE Users' <= 1
                   /\ telemetry_link = 2 /\ Updated => frame' = <<"AFHDS2A">>
                   /\ pktt6 \in Valid /\ pktt6' = 0 /\ Updated => passed' = taken'
<1>1. RelayInvariant /\ [RelayNext]_relay => [Once]_hub
  <2> SUFFICES ASSUME RelayInvariant, [RelayNext]_relay, hub' # hub PROVE Once
    OBVIOUS
  <2>1. RelayNext BY DEF relay
  <2>2. ~OfSport
    <3>1. OfSport => hub' = hub BY <2>1, OnlySportSteps DEF OfSport
    <3> QED BY <3>1
  <2>3. HubInvariant BY <2>2, InvariantParts
  <2>4. HubInvariant' /\ (Updated => UpdatedOnce) BY <2>1, <2>3, HubSteps
  <2>5. Others' <= 1 /\ (telemetry_link' # 0 => Others' = 0)
    <3>1. Others' <= 1 BY <2>4 DEF HubInvariant, HubInStep
    <3>2. ASSUME telemetry_link' # 0 PROVE Others' = 0
      <4>1. frame' = <<>> BY <2>4, <3>2 DEF HubInvariant, HubInStep
      <4>2. UsersIn(frame') = 0 /\ Len(frame') = 0 BY <4>1, UsersInNothing
      <4>3. Others' = Len(frame') - UsersIn(frame') BY DEF Users, Others, UsersIn
      <4> QED BY <4>2, <4>3
    <3> QED BY <3>1, <3>2
  <2>6. IF mine' THEN Users' = FramesOf(passed') ELSE Users' <= 1
    BY <2>4 DEF HubInvariant, HubInStep, FramesOf
  <2> QED BY <2>4, <2>5, <2>6 DEF UpdatedOnce
<1> QED BY <1>1, RelayInvariantHolds, PTL DEF RelaySpec, RelayedOnce

===============================================================================
