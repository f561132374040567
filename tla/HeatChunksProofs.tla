-------------------------- MODULE HeatChunksProofs --------------------------
(***************************************************************************)
(* The promise of chunk_heats, for every field and every track: who sits   *)
(* out, that every heat holds at least two cars and no more than there are *)
(* lanes, and that nobody else is left out. Its docstring says that a      *)
(* sweep over 2 to 25 racers and 2 to 8 lanes bears it out.                *)
(***************************************************************************)
EXTENDS HeatChunks, TLAPS

\* Quotient and remainder, in a form that the arithmetic below can use.
LEMMA Division ==
    ASSUME NEW a \in Nat, NEW b \in Nat \ {0}
    PROVE  /\ a \div b \in Nat /\ a % b \in 0..b-1
           /\ a = b * (a \div b) + (a % b)
    BY Z3T(30)

\* A track with k heats on it holds the field, and with one heat fewer it does not.
LEMMA FewestHeats ==
    ASSUME NEW m \in Nat \ {0}, NEW w \in Nat \ {0}
    PROVE  /\ NumHeats(m, w) \in Nat \ {0}
           /\ m <= w * NumHeats(m, w)
           /\ w * (NumHeats(m, w) - 1) < m
<1> DEFINE a == m + w - 1
           q == a \div w
           r == a % w
<1>1. a \in Nat
    OBVIOUS
<1>2. q \in Nat /\ r \in 0..w-1 /\ a = w * q + r
    BY <1>1, Division DEF q, r
<1> HIDE DEF q, r
<1>3. w * (q - 1) = w * q - w
    BY <1>2
<1>4. q # 0
    BY <1>2
<1>5. m <= w * q /\ w * (q - 1) < m
    BY <1>2, <1>3
<1> QED  BY <1>2, <1>4, <1>5 DEF NumHeats, q

\* A field of two or more fits a track of three or more lanes, and one of two
\* lanes if it is even.
LEMMA WideTrackSplits ==
    ASSUME NEW m \in Nat, m >= 2, NEW w \in Nat, w >= 3
    PROVE  Splits(m, w)
<1> DEFINE k == NumHeats(m, w)
           h == m \div 2
<1>0. m \in Nat \ {0} /\ w \in Nat \ {0}
    OBVIOUS
<1>1. k \in Nat \ {0} /\ w * (k - 1) < m
    BY <1>0, FewestHeats DEF k
<1>2. h \in Nat /\ m <= 2 * h + 1 /\ h >= 1
    BY DEF h
<1> HIDE DEF k, h
<1>3. 3 * (k - 1) <= w * (k - 1)
    BY <1>1
<1>4. 3 * (k - 1) < m
    BY <1>1, <1>3
<1>5. k <= h
    BY <1>1, <1>2, <1>4
<1> QED  BY <1>5 DEF Splits, k, h

LEMMA TwoLanesSplit ==
    ASSUME NEW m \in Nat, m >= 2
    PROVE  Splits(m, 2) <=> m % 2 = 0
BY DEF Splits, NumHeats

\* Who sits out: nobody on three lanes or more, the odd car on two.
THEOREM ByesBounded ==
    ASSUME NEW n \in Nat, n >= 2, NEW w \in Nat, w >= 2
    PROVE  /\ Byes(n, w) = IF w = 2 THEN n % 2 ELSE 0
           /\ Splits(n - Byes(n, w), w)
<1> DEFINE b == IF w = 2 THEN n % 2 ELSE 0
           Fits(x) == Splits(n - x, w) /\ \A c \in 0..x-1 : ~Splits(n - c, w)
<1>1. b \in 0..n-2 /\ b \in {0, 1} /\ n - b \in Nat /\ n - b >= 2
    OBVIOUS
<1>2. Splits(n - b, w)
  <2>1. CASE w = 2
    <3>1. (n - b) % 2 = 0
        BY <2>1
    <3> QED  BY <1>1, <2>1, <3>1, TwoLanesSplit
  <2>2. CASE w # 2
    <3>1. w >= 3
        BY <2>2
    <3> QED  BY <1>1, <3>1, WideTrackSplits
  <2> QED  BY <2>1, <2>2
<1>3. ASSUME NEW c \in 0..b-1 PROVE ~Splits(n - c, w)
  <2>1. w = 2 /\ c = 0 /\ n % 2 = 1
    BY <1>3
  <2> QED  BY <2>1, TwoLanesSplit
<1>4. Fits(b)
    BY <1>2, <1>3
<1>5. ASSUME NEW x \in 0..n-2, Fits(x) PROVE x = b
  <2>1. ~(b < x)
    BY <1>1, <1>2, <1>5
  <2>2. ~(x < b)
    BY <1>1, <1>3, <1>5
  <2> QED  BY <1>1, <2>1, <2>2
<1> HIDE DEF b
<1>6. Byes(n, w) = b
  <2>1. Byes(n, w) = CHOOSE x \in 0..n-2 : Fits(x)
    BY DEF Byes
  <2> HIDE DEF Fits
  <2> QED  BY <1>1, <1>4, <1>5, <2>1
<1> QED  BY <1>2, <1>6 DEF b

\* No heat is of one car, and none is of more than there are lanes.
LEMMA SizeBounded ==
    ASSUME NEW m \in Nat, NEW w \in Nat, m >= 2, w >= 2, Splits(m, w),
           NEW i \in 1..NumHeats(m, w)
    PROVE  Size(m, NumHeats(m, w), i) \in 2..w
<1> DEFINE k == NumHeats(m, w)
           q == m \div k
           r == m % k
<1>1. k \in Nat \ {0} /\ m <= w * k
    BY FewestHeats DEF k
<1>2. 2 * k <= m
    BY <1>1 DEF Splits, k
<1>3. q \in Nat /\ r \in 0..k-1 /\ m = k * q + r
    BY <1>1, Division DEF q, r
<1>4. Size(m, k, i) = q + (IF i <= r THEN 1 ELSE 0)
    BY DEF Size, q, r
<1> HIDE DEF k, q, r
<1>5. q >= 2
  <2>1. SUFFICES ASSUME q <= 1 PROVE FALSE
    BY <1>3
  <2>2. k * q <= k
    BY <1>1, <1>3, <2>1
  <2> QED  BY <1>1, <1>2, <1>3, <2>2
<1>6. q <= w
  <2>1. SUFFICES ASSUME q >= w + 1 PROVE FALSE
    BY <1>3
  <2>2. k * q >= k * (w + 1)
    BY <1>1, <1>3, <2>1
  <2>3. k * (w + 1) = w * k + k
    BY <1>1
  <2> QED  BY <1>1, <1>3, <2>2, <2>3
<1>7. r > 0 => q < w
  <2>1. SUFFICES ASSUME r > 0, q = w PROVE FALSE
    BY <1>3, <1>6
  <2>2. k * q = w * k
    BY <1>1, <1>3, <2>1
  <2> QED  BY <1>1, <1>3, <2>1, <2>2
<1>8. i \in 1..k
    BY DEF k
<1>9. q + (IF i <= r THEN 1 ELSE 0) \in 2..w
    BY <1>3, <1>5, <1>6, <1>7, <1>8
<1> QED  BY <1>4, <1>9 DEF k


\* The heats follow one another along the order, from its start to the last car
\* that races.
LEMMA HeatsFollow ==
    ASSUME NEW m \in Nat, NEW k \in Nat \ {0}, NEW i \in 1..k
    PROVE  /\ Before(m, k, i) \in 0..m
           /\ Before(m, k, i) + Size(m, k, i) \in 0..m
           /\ \A j \in 1..k : i < j => Before(m, k, i) + Size(m, k, i) <= Before(m, k, j)
<1> DEFINE q == m \div k
           r == m % k
           At(x) == x * q + (IF x < r THEN x ELSE r)
<1>1. q \in Nat /\ r \in 0..k-1 /\ m = k * q + r
    BY Division DEF q, r
<1>2. \A x \in 1..k : Before(m, k, x) = At(x - 1)
    BY DEF Before, At, q, r
<1>3. Size(m, k, i) = q + (IF i <= r THEN 1 ELSE 0)
    BY DEF Size, q, r
<1> HIDE DEF q, r
<1>4. At(i - 1) + Size(m, k, i) = At(i)
  <2>1. (i - 1) * q + q = i * q
    BY <1>1
  <2>2. (i - 1) * q \in Int /\ i * q \in Int
    BY <1>1
  <2> QED  BY <1>1, <1>3, <2>1, <2>2 DEF At
<1>5. ASSUME NEW x \in 0..k, NEW y \in 0..k, x <= y PROVE At(x) <= At(y)
  <2>1. x * q <= y * q /\ x * q \in Int /\ y * q \in Int
    BY <1>1, <1>5
  <2> QED  BY <1>1, <1>5, <2>1 DEF At
<1>6. At(0) = 0 /\ At(k) = m
  <2>1. 0 * q = 0 /\ k * q \in Int
    BY <1>1
  <2> QED  BY <1>1, <2>1 DEF At
<1>7. \A x \in 0..k : At(x) \in Int
  <2>1. \A x \in 0..k : x * q \in Int
    BY <1>1
  <2> QED  BY <1>1, <2>1 DEF At
<1> HIDE DEF At
<1>8. At(i - 1) \in 0..m /\ At(i) \in 0..m
    BY <1>5, <1>6, <1>7
<1>9. \A j \in 1..k : i < j => At(i) <= At(j - 1)
    BY <1>5
<1> QED  BY <1>2, <1>4, <1>8, <1>9

\* chunk_heats: every heat holds from two cars to one for each lane, all of them
\* from the field, and nobody is in a heat twice or in two of them.
THEOREM ChunkHeatsFit ==
    ASSUME NEW S, NEW ordered \in Seq(S), Len(ordered) >= 2, NEW w \in Nat, w >= 2,
           \A x, y \in 1..Len(ordered) : ordered[x] = ordered[y] => x = y
    PROVE  LET heats == ChunkHeats(ordered, w)
           IN  /\ heats # <<>> /\ heats \in Seq(Seq(S))
               /\ \A i \in DOMAIN heats : Len(heats[i]) \in 2..w
               /\ \A i, j \in DOMAIN heats : \A x \in DOMAIN heats[i], y \in DOMAIN heats[j] :
                      heats[i][x] = heats[j][y] => i = j /\ x = y
<1> DEFINE n == Len(ordered)
           m == n - Byes(n, w)
           k == NumHeats(m, w)
           at(i, p) == Before(m, k, i) + p
           group(i) == [p \in 1..Size(m, k, i) |-> ordered[at(i, p)]]
           heats == [i \in 1..k |-> group(i)]
<1>1. n \in Nat /\ n >= 2
    OBVIOUS
<1>2. m \in Nat /\ m >= 2 /\ m <= n /\ Splits(m, w)
  <2>1. Byes(n, w) = (IF w = 2 THEN n % 2 ELSE 0) /\ Splits(n - Byes(n, w), w)
    BY <1>1, ByesBounded
  <2>2. Byes(n, w) \in {0, 1} /\ n - Byes(n, w) >= 2
    BY <1>1, <2>1
  <2> QED  BY <1>1, <2>1, <2>2
<1>3. k \in Nat \ {0}
  <2>1. m \in Nat \ {0} /\ w \in Nat \ {0}
    BY <1>2
  <2> QED  BY <2>1, FewestHeats
<1>4. ChunkHeats(ordered, w) = heats
    BY <1>1 DEF ChunkHeats
<1> HIDE DEF m
<1>5. \A i \in 1..k : Size(m, k, i) \in 2..w
    BY <1>2, SizeBounded
<1> HIDE DEF k
<1>6. ASSUME NEW i \in 1..k, NEW p \in 1..Size(m, k, i)
      PROVE  at(i, p) \in 1..n
  <2>1. Before(m, k, i) \in 0..m /\ Before(m, k, i) + Size(m, k, i) \in 0..m
    BY <1>2, <1>3, HeatsFollow
  <2>2. Size(m, k, i) \in Nat
    BY <1>5
  <2> QED  BY <1>1, <1>2, <2>1, <2>2
<1>7. ASSUME NEW i \in 1..k, NEW j \in 1..k, NEW x \in 1..Size(m, k, i),
             NEW y \in 1..Size(m, k, j), at(i, x) = at(j, y)
      PROVE  i = j /\ x = y
  <2>1. /\ Before(m, k, i) \in Int /\ Before(m, k, j) \in Int
        /\ Size(m, k, i) \in Nat /\ Size(m, k, j) \in Nat
    <3>1. Before(m, k, i) \in 0..m /\ Before(m, k, j) \in 0..m
        BY <1>2, <1>3, HeatsFollow
    <3>2. Size(m, k, i) \in 2..w /\ Size(m, k, j) \in 2..w
        BY <1>5
    <3> QED  BY <1>2, <3>1, <3>2
  <2>2. ~(i < j)
    <3>1. i < j => Before(m, k, i) + Size(m, k, i) <= Before(m, k, j)
        BY <1>2, <1>3, HeatsFollow
    <3> QED  BY <1>7, <2>1, <3>1
  <2>3. ~(j < i)
    <3>1. j < i => Before(m, k, j) + Size(m, k, j) <= Before(m, k, i)
        BY <1>2, <1>3, HeatsFollow
    <3> QED  BY <1>7, <2>1, <3>1
  <2>4. i = j
    BY <1>3, <2>2, <2>3
  <2> QED  BY <1>7, <2>1, <2>4
<1> HIDE DEF at, n
<1>8. ASSUME NEW i \in 1..k
      PROVE  group(i) \in Seq(S) /\ Len(group(i)) = Size(m, k, i)
  <2>1. Size(m, k, i) \in Nat
    BY <1>5
  <2>2. \A p \in 1..Size(m, k, i) : ordered[at(i, p)] \in S
    BY <1>6 DEF n
  <2> QED  BY <2>1, <2>2
<1>9. heats \in Seq(Seq(S)) /\ Len(heats) = k
  <2> HIDE DEF group
  <2> QED  BY <1>3, <1>8
<1>10. heats # <<>>
    BY <1>3, <1>9
<1>11. \A i \in DOMAIN heats : Len(heats[i]) \in 2..w
    BY <1>5, <1>8
<1>12. ASSUME NEW i \in DOMAIN heats, NEW j \in DOMAIN heats,
              NEW x \in DOMAIN heats[i], NEW y \in DOMAIN heats[j],
              heats[i][x] = heats[j][y]
       PROVE  i = j /\ x = y
  <2>1. i \in 1..k /\ j \in 1..k /\ x \in 1..Size(m, k, i) /\ y \in 1..Size(m, k, j)
    OBVIOUS
  <2>2. ordered[at(i, x)] = ordered[at(j, y)]
    BY <1>12, <2>1
  <2>3. at(i, x) = at(j, y)
    BY <1>6, <2>1, <2>2 DEF n
  <2> QED  BY <1>7, <2>1, <2>3
<1> HIDE DEF heats
<1> QED  BY <1>4, <1>9, <1>10, <1>11, <1>12

\* The heats leave no car out that races: each place of the order is in one.
LEMMA EveryPlaceIsInAHeat ==
    ASSUME NEW m \in Nat, NEW k \in Nat \ {0}, NEW x \in 1..m
    PROVE  \E i \in 1..k : x - Before(m, k, i) \in 1..Size(m, k, i)
<1> DEFINE q == m \div k
           r == m % k
           z == x - 1
<1>1. q \in Nat /\ r \in 0..k-1 /\ m = k * q + r
    BY Division DEF q, r
<1> HIDE DEF q, r
<1>2. z \in 0..m-1 /\ z \in Nat /\ x = z + 1 /\ q + 1 \in Nat \ {0}
    BY <1>1
<1>3. \A i \in 1..k : /\ Before(m, k, i) = (i - 1) * q + (IF i - 1 < r THEN i - 1 ELSE r)
                      /\ Size(m, k, i) = q + (IF i <= r THEN 1 ELSE 0)
    BY DEF Before, Size, q, r
<1> HIDE DEF z
<1>4. CASE z < r * (q + 1)
  <2> DEFINE d == z \div (q + 1)
             e == z % (q + 1)
  <2>1. d \in Nat /\ e \in 0..(q + 1)-1 /\ z = (q + 1) * d + e
      BY <1>2, Division DEF d, e
  <2> HIDE DEF d, e
  <2>2. d < r
    <3>1. SUFFICES ASSUME d >= r PROVE FALSE
        BY <1>1, <2>1
    <3>2. (q + 1) * d >= r * (q + 1)
        BY <3>1, <1>1, <2>1
    <3> QED  BY <3>2, <1>1, <1>4, <2>1
  <2>3. d * q + d = (q + 1) * d /\ d * q \in Nat
      BY <1>1, <2>1
  <2>4. Before(m, k, d + 1) = d * q + d /\ Size(m, k, d + 1) = q + 1 /\ d + 1 \in 1..k
      BY <1>1, <1>3, <2>1, <2>2
  <2>5. x - Before(m, k, d + 1) = e + 1
      BY <1>1, <1>2, <2>1, <2>3, <2>4
  <2> QED  BY <1>1, <2>1, <2>4, <2>5
<1>5. CASE z >= r * (q + 1)
  <2> DEFINE y == z - r * (q + 1)
             d == y \div q
             e == y % q
  <2>1. r * (q + 1) = r * q + r /\ r * q \in Nat /\ k * q \in Nat
      BY <1>1
  <2>2. q # 0 /\ y \in Nat
      BY <1>1, <1>2, <1>5, <2>1
  <2>3. d \in Nat /\ e \in 0..q-1 /\ y = q * d + e
      BY <1>1, <2>2, Division DEF d, e
  <2> HIDE DEF d, e
  <2>4. (r + d) * q = r * q + q * d /\ (r + d) * q \in Nat /\ q * d \in Nat
      BY <1>1, <2>3
  <2>5. (r + d) * q < k * q
      BY <1>1, <1>2, <2>1, <2>3, <2>4
  <2>6. r + d < k
    <3>1. SUFFICES ASSUME r + d >= k PROVE FALSE
        BY <1>1, <2>3
    <3>2. (r + d) * q >= k * q
        BY <3>1, <1>1, <2>3
    <3> QED  BY <3>2, <2>1, <2>4, <2>5
  <2>7. (r + d) + 1 \in 1..k /\ ((r + d) + 1) - 1 = r + d /\ ~(r + d < r) /\ ~((r + d) + 1 <= r)
      BY <1>1, <2>3, <2>6
  <2>8. Before(m, k, (r + d) + 1) = (r + d) * q + r /\ Size(m, k, (r + d) + 1) = q
      BY <1>1, <1>3, <2>7
  <2>9. x - Before(m, k, (r + d) + 1) = e + 1
      BY <1>1, <1>2, <2>1, <2>3, <2>4, <2>8
  <2> QED  BY <1>1, <2>3, <2>7, <2>8, <2>9
<1> QED  BY <1>1, <1>2, <1>4, <1>5

\* chunk_heats, on three lanes or more: everybody of the field is in a heat.
THEOREM ChunkHeatsCover ==
    ASSUME NEW S, NEW ordered \in Seq(S), Len(ordered) >= 2, NEW w \in Nat, w >= 3,
           NEW x \in 1..Len(ordered)
    PROVE  LET heats == ChunkHeats(ordered, w)
           IN  \E i \in DOMAIN heats : \E p \in DOMAIN heats[i] : heats[i][p] = ordered[x]
<1> DEFINE n == Len(ordered)
           k == NumHeats(n, w)
           heats == [i \in 1..k |-> [p \in 1..Size(n, k, i) |-> ordered[Before(n, k, i) + p]]]
<1>1. n \in Nat \ {0} /\ n >= 2 /\ w \in Nat \ {0}
    OBVIOUS
<1>2. Byes(n, w) = 0 /\ n - Byes(n, w) = n
    BY <1>1, ByesBounded
<1>3. k \in Nat \ {0}
    BY <1>1, FewestHeats
<1>4. ChunkHeats(ordered, w) = heats
    BY <1>1, <1>2 DEF ChunkHeats
<1> HIDE DEF k
<1>5. PICK i \in 1..k : x - Before(n, k, i) \in 1..Size(n, k, i)
    BY <1>1, <1>3, EveryPlaceIsInAHeat
<1>6. Before(n, k, i) \in Int
    BY <1>1, <1>3, HeatsFollow
<1>7. Before(n, k, i) + (x - Before(n, k, i)) = x
    BY <1>1, <1>6
<1>8. heats[i][x - Before(n, k, i)] = ordered[x]
    BY <1>5, <1>7
<1> QED  BY <1>4, <1>5, <1>8

=============================================================================
