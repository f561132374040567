------------------------- MODULE AdvancementProofs -------------------------
(***************************************************************************)
(* Proofs about Advancement, for every roster, every plan of rounds, every *)
(* track and every set of races.                                           *)
(***************************************************************************)
EXTENDS Advancement, FiniteSetTheorems, SequenceTheorems, TLAPS

\* The remainder of a division, and the quotient that goes with it.
LEMMA Remainder ==
    ASSUME NEW a \in Int, NEW b \in Nat \ {0}
    PROVE  a % b \in 0..b-1 /\ \E q \in Int : a = b * q + (a % b)
<1>1. a % b \in 0..b-1 /\ a = b * (a \div b) + (a % b) /\ a \div b \in Int
    BY Z3T(30)
<1> QED  BY <1>1

\* f lists each member of S once.
Lists(f, S) ==
    /\ Cardinality(S) \in Nat
    /\ f \in [1..Cardinality(S) -> S]
    /\ \A j, k \in 1..Cardinality(S) : f[j] = f[k] => j = k
    /\ \A x \in S : \E k \in 1..Cardinality(S) : f[k] = x

\* Below says who is before whom in S, and any two are ranked.
Ranks(S, Below) ==
    /\ Below \in [S -> SUBSET S]
    /\ \A x \in S : x \notin Below[x]
    /\ \A x, y \in S : x # y =>
          \/ x \in Below[y] /\ Below[x] \subseteq Below[y]
          \/ y \in Below[x] /\ Below[y] \subseteq Below[x]

\* x is the k-th.
HasRank(x, k, Below) == Cardinality(Below[x]) = k - 1

\* In a set that is ranked, nobody shares a rank.
LEMMA RanksAreApart ==
    ASSUME NEW S, IsFiniteSet(S), NEW Below, Ranks(S, Below)
    PROVE  /\ Cardinality(S) \in Nat
           /\ \A x \in S : Cardinality(Below[x]) \in 0..Cardinality(S)-1
           /\ \A x, y \in S : Cardinality(Below[x]) = Cardinality(Below[y]) => x = y
<1> USE DEF Ranks
<1> DEFINE n == Cardinality(S)
<1>1. n \in Nat
    BY FS_CardinalityType
<1>2. \A x \in S : IsFiniteSet(Below[x])
    BY FS_Subset
<1>3. ASSUME NEW x \in S PROVE Cardinality(Below[x]) \in 0..n-1
  <2>1. Cardinality(Below[x]) \in Nat
      BY <1>2, FS_CardinalityType
  <2>2. Cardinality(Below[x]) <= n /\ (n = Cardinality(Below[x]) => S = Below[x])
      BY FS_Subset
  <2> QED  BY <2>1, <2>2, <1>1
<1>4. ASSUME NEW x \in S, NEW y \in S, x # y, x \in Below[y], Below[x] \subseteq Below[y]
      PROVE  Cardinality(Below[x]) # Cardinality(Below[y])
  <2>1. Cardinality(Below[y]) = Cardinality(Below[x]) => Below[y] = Below[x]
      BY <1>2, <1>4, FS_Subset
  <2> QED  BY <2>1, <1>4
<1>5. \A x, y \in S : Cardinality(Below[x]) = Cardinality(Below[y]) => x = y
    BY <1>4
<1> QED  BY <1>1, <1>3, <1>5

\* And every rank is somebody's.
LEMMA EveryRankIsTaken ==
    ASSUME NEW S, IsFiniteSet(S), NEW Below, Ranks(S, Below)
    PROVE  \A k \in 1..Cardinality(S) : \E x \in S : HasRank(x, k, Below)
<1> USE DEF HasRank
<1> DEFINE n == Cardinality(S)
           rank == [x \in S |-> Cardinality(Below[x])]
<1>1. n \in Nat
    BY FS_CardinalityType
<1>2. (\A x \in S : rank[x] \in 0..n-1) /\ (\A x, y \in S : rank[x] = rank[y] => x = y)
    BY RanksAreApart
<1>3. rank \in Injection(S, 0..n-1)
  <2>1. rank \in [S -> 0..n-1]
      BY <1>2
  <2> HIDE DEF rank, n
  <2>2. DOMAIN rank = S
      BY <2>1
  <2>3. IsInjective(rank)
      BY <1>2, <2>2 DEF IsInjective
  <2> QED  BY <2>1, <2>3 DEF Injection
<1>4. IsFiniteSet(0..n-1) /\ Cardinality(0..n-1) = n
  <2> HIDE DEF rank, n
  <2>1. 0 \in Int /\ n - 1 \in Int
      BY <1>1
  <2>2. IsFiniteSet(0..n-1) /\ Cardinality(0..n-1) = IF 0 > n - 1 THEN 0 ELSE n - 1 - 0 + 1
      BY <2>1, FS_Interval
  <2> QED  BY <1>1, <2>2
<1>5. rank \in Surjection(S, 0..n-1)
    BY <1>3, <1>4, FS_Injection
<1>6. ASSUME NEW k \in 1..n PROVE \E x \in S : Cardinality(Below[x]) = k - 1
  <2>1. k - 1 \in 0..n-1
      BY <1>1
  <2>2. \E x \in S : rank[x] = k - 1
      BY <2>1, <1>5 DEF Surjection
  <2> QED  BY <2>2
<1> QED  BY <1>6

\* Putting everybody at their rank lists each of them once.
LEMMA RankedIsListed ==
    ASSUME NEW S, IsFiniteSet(S), NEW Below, Ranks(S, Below), NEW f \in [1..Cardinality(S) -> S],
           \A k \in 1..Cardinality(S) : HasRank(f[k], k, Below)
    PROVE  Lists(f, S)
<1> DEFINE n == Cardinality(S)
<1>1. n \in Nat
    BY FS_CardinalityType
<1>2. ASSUME NEW j \in 1..n, NEW k \in 1..n, f[j] = f[k] PROVE j = k
    BY <1>1, <1>2 DEF HasRank
<1>3. f \in Injection(1..n, S)
    BY <1>2 DEF Injection, IsInjective
<1>4. IsFiniteSet(1..n) /\ Cardinality(1..n) = n
    BY <1>1, FS_Interval
<1>5. f \in Surjection(1..n, S)
    BY <1>3, <1>4, FS_Injection
<1> QED  BY <1>1, <1>2, <1>5 DEF Lists, Surjection

\* Numbers rank themselves.
LEMMA NumbersRank ==
    ASSUME NEW S \in SUBSET Int
    PROVE  Ranks(S, [x \in S |-> {y \in S : y < x}])
<1> DEFINE Below == [x \in S |-> {y \in S : y < x}]
<1>1. \A x \in S : Below[x] = {y \in S : y < x}
    OBVIOUS
<1>2. ASSUME NEW x \in S, NEW y \in S, x < y
      PROVE  x \in Below[y] /\ Below[x] \subseteq Below[y]
  <2>1. \A z \in S : z < x => z < y
      BY <1>2, S \subseteq Int
  <2> HIDE DEF Below
  <2>2. Below[x] \subseteq Below[y]
      BY <2>1, <1>1
  <2> QED  BY <2>2, <1>1, <1>2
<1>3. Below \in [S -> SUBSET S] /\ \A x \in S : x \notin Below[x]
    OBVIOUS
<1>4. \A x, y \in S : x # y => x < y \/ y < x
    OBVIOUS
<1> HIDE DEF Below
<1>5. Ranks(S, Below)
    BY <1>2, <1>3, <1>4 DEF Ranks
<1> QED  BY <1>5 DEF Below

\* A set of numbers in ascending order.
LEMMA AscendingOrder ==
    ASSUME NEW S \in SUBSET Int, IsFiniteSet(S)
    PROVE  Lists(Ascending(S), S)
<1> DEFINE Below == [x \in S |-> {y \in S : y < x}]
           n == Cardinality(S)
<1>1. \A x \in S : Below[x] = {y \in S : y < x}
    OBVIOUS
<1>3. Ranks(S, Below)
    BY NumbersRank
<1> HIDE DEF Below
<1>4. ASSUME NEW k \in 1..n PROVE Ascending(S)[k] \in S /\ HasRank(Ascending(S)[k], k, Below)
  <2> DEFINE a == CHOOSE x \in S : Cardinality({y \in S : y < x}) = k - 1
  <2>1. \E x \in S : HasRank(x, k, Below)
      BY <1>3, EveryRankIsTaken
  <2>2. \E x \in S : Cardinality({y \in S : y < x}) = k - 1
      BY <2>1, <1>1 DEF HasRank
  <2>3. a \in S /\ Cardinality({y \in S : y < a}) = k - 1
      BY <2>2, Zenon
  <2>4. Ascending(S)[k] = a
      BY DEF Ascending, InOrder
  <2> QED  BY <2>3, <2>4, <1>1 DEF HasRank
<1>5. Ascending(S) \in [1..n -> S]
    BY <1>4 DEF Ascending, InOrder
<1> QED  BY <1>3, <1>4, <1>5, RankedIsListed

\* The last of a finite set of numbers is the largest.
LEMMA LargestExists ==
    ASSUME NEW S \in SUBSET Int, IsFiniteSet(S), S # {}
    PROVE  \E m \in S : \A r \in S : r <= m
<1> DEFINE Below == [x \in S |-> {y \in S : y < x}]
           n == Cardinality(S)
<1>1. n \in Nat /\ n # 0
    BY FS_CardinalityType, FS_EmptySet
<1>2. Ranks(S, Below) /\ \A x \in S : Below[x] = {y \in S : y < x}
    BY NumbersRank
<1> HIDE DEF Below
<1>3. \A k \in 1..n : \E x \in S : HasRank(x, k, Below)
    BY <1>2, EveryRankIsTaken
<1>4. n \in 1..n
    BY <1>1
<1>5. PICK m \in S : HasRank(m, n, Below)
    BY <1>3, <1>4
<1>6. Below[m] \in SUBSET S /\ m \notin Below[m] /\ Cardinality(Below[m]) = n - 1
    BY <1>2, <1>5 DEF HasRank
<1>7. IsFiniteSet(Below[m])
    BY <1>6, FS_Subset
<1> DEFINE D == Below[m]
<1> HIDE DEF D, n
<1>8. Cardinality(D \cup {m}) = n
  <2>1. IsFiniteSet(D) /\ m \notin D /\ Cardinality(D) = n - 1
      BY <1>6, <1>7 DEF D
  <2>2. Cardinality(D \cup {m}) = Cardinality(D) + 1
      BY <2>1, FS_AddElement
  <2> QED  BY <2>1, <2>2, <1>1
<1>9. D \cup {m} \in SUBSET S
    BY <1>6 DEF D
<1>10. S = D \cup {m}
    BY <1>8, <1>9, FS_Subset DEF n
<1>11. \A r \in S : r = m \/ r < m
    BY <1>2, <1>10 DEF D
<1> QED  BY <1>11, S \subseteq Int

-----------------------------------------------------------------------------
(* What a round holds.                                                     *)

Seats == Lanes \ {Nobody}
Heat == [lanes : UNION {[D -> Lanes] : D \in SUBSET (1..Width)}, out : Outcomes]
Request == [do : Dos, round : Rounds]

\* A round is a sequence of heats, drawn over lanes the track has.
Shape ==
    /\ race \in Races
    /\ source \in [Rounds -> Int]
    /\ heats \in [Rounds -> Seq(Heat)]
    /\ todo \in Seq(Request)

\* A heat that waits for a racer has not been raced.
Settled(hs) == \A i \in DOMAIN hs : IsResult(hs[i].out) => ~HasSlot(hs[i])

\* The rest of the types.
Scalars ==
    /\ Rounds \subseteq 1..(IF race.rounds > Len(Plan) THEN race.rounds ELSE Len(Plan))
    /\ \A r \in Rounds : source[r] >= General
    /\ pinned \subseteq {r \in Rounds : IsFed(r)}
    /\ checkedIn \subseteq Racers /\ excluded \subseteq Racers
    /\ runOff \in BOOLEAN
    /\ usable \subseteq 1..Width /\ usable # {}

IInv ==
    /\ Scalars
    /\ Shape
    /\ \A r \in Rounds : Settled(heats[r])

\* What a race is, as far as the bounds go.
LEMMA RaceFacts ==
    ASSUME race \in Races
    PROVE  /\ race.size \in Nat \ {0} /\ race.runs \in Nat \ {0}
           /\ race.rounds \in Nat
           /\ race.present \subseteq Racers /\ race.movers \subseteq Racers
           /\ race.offered \subseteq Int /\ \A s \in race.offered : s >= General
BY RacesAssumption

\* Racers, slots and outcomes are apart.
LEMMA SeatFacts ==
    ASSUME race \in Races
    PROVE  /\ Racers \subseteq Seats /\ Seats \subseteq Int /\ Lanes = Seats \cup {Nobody}
           /\ Cardinality(Racers) \in Nat
           /\ \A x \in Lanes : x < 0 <=> x \notin Racers \cup {Nobody}
           /\ \A k \in 1..race.size + Cardinality(Racers) : -k \in Seats
           /\ {NotRun, Skipped} \cap (Racers \cup {Partial}) = {}
<1>1. Cardinality(Racers) \in Nat /\ race.size \in Nat
    BY RacersAssumption, FS_CardinalityType, RaceFacts
<1>2. \A k \in 1..race.size + Cardinality(Racers) : -k \in Int /\ -k < 0
    BY <1>1
<1>3. \A q \in Racers : q \in Int /\ q > 0
    BY RacersAssumption
<1>4. Lanes = Seats \cup {Nobody}
    BY DEF Seats, Lanes
<1>5. Racers \subseteq Seats /\ \A k \in 1..race.size + Cardinality(Racers) : -k \in Seats
    BY <1>2, <1>3 DEF Seats, Lanes, Nobody
<1>6. Seats \subseteq Int /\ \A x \in Lanes : x < 0 <=> x \notin Racers \cup {Nobody}
    BY <1>2, <1>3 DEF Seats, Lanes, Nobody
<1>7. {NotRun, Skipped} \cap (Racers \cup {Partial}) = {}
    BY <1>3 DEF NotRun, Skipped, Partial
<1> QED  BY <1>1, <1>4, <1>5, <1>6, <1>7

\* The lanes of the track can be counted.
LEMMA LanesInService ==
    ASSUME usable \subseteq 1..Width, usable # {}
    PROVE  /\ IsFiniteSet(usable) /\ Cardinality(usable) \in Nat \ {0}
           /\ \A l \in usable : Cardinality({m \in usable : m < l}) \in Nat
<1>1. IsFiniteSet(usable)
  <2>1. IsFiniteSet(1..Width)
      BY WidthAssumption, FS_Interval
  <2> QED  BY <2>1, FS_Subset
<1>2. Cardinality(usable) \in Nat \ {0}
    BY <1>1, FS_CardinalityType, FS_EmptySet
<1>3. ASSUME NEW l \in usable PROVE Cardinality({m \in usable : m < l}) \in Nat
  <2>1. {m \in usable : m < l} \in SUBSET usable
      OBVIOUS
  <2> QED  BY <2>1, <1>1, FS_Subset, FS_CardinalityType
<1> QED  BY <1>1, <1>2, <1>3

\* A heat of a rotation seats participants, others or nobody.
LEMMA RotationIsHeat ==
    ASSUME race \in Races, usable \subseteq 1..Width, usable # {},
           NEW participants \in Seq(Seats), NEW others \in Seq(Seats), NEW i \in Nat
    PROVE  /\ RotationHeat(participants, others, i) \in Heat
           /\ RotationHeat(participants, others, i).out = NotRun
<1> DEFINE n == Len(participants)
           M == Larger(n, Cardinality(usable))
           At(l) == (i - 1 - Cardinality({m \in usable : m < l})) % M
           lanes == RotationHeat(participants, others, i).lanes
<1>1. n \in Nat /\ Len(others) \in Nat /\ M \in Nat \ {0}
    BY LanesInService DEF Larger
<1>2. ASSUME NEW l \in usable PROVE At(l) \in Nat
  <2> DEFINE a == i - 1 - Cardinality({m \in usable : m < l})
  <2>1. a \in Int
      BY LanesInService
  <2> HIDE DEF a, M
  <2>2. a % M \in 0..M-1
      BY <2>1, <1>1, Remainder
  <2> QED  BY <2>2, <1>1 DEF a
<1>3. \A l \in usable :
        lanes[l] = IF At(l) < n THEN participants[At(l) + 1]
                   ELSE IF At(l) - n < Len(others)
                        THEN others[((i + At(l) - n) % Len(others)) + 1] ELSE Nobody
    BY DEF RotationHeat
<1> HIDE DEF At, lanes
<1>4. ASSUME NEW l \in usable PROVE lanes[l] \in Lanes
  <2>1. CASE At(l) < n
    <3>1. At(l) + 1 \in 1..n
        BY <2>1, <1>1, <1>2
    <3> QED  BY <3>1, <2>1, <1>3, SeatFacts
  <2>2. CASE At(l) >= n /\ At(l) - n < Len(others)
    <3>1. Len(others) \in Nat \ {0} /\ i + At(l) - n \in Int
        BY <2>2, <1>1, <1>2
    <3> DEFINE a == i + At(l) - n
               b == Len(others)
    <3> HIDE DEF a, b
    <3>2. a % b \in 0..b-1
        BY <3>1, Remainder DEF a, b
    <3>4. (a % b) + 1 \in 1..b
        BY <3>1, <3>2 DEF b
    <3>3. lanes[l] = others[((i + At(l) - n) % Len(others)) + 1]
        BY <2>2, <1>1, <1>2, <1>3
    <3> QED  BY <3>3, <3>4, SeatFacts DEF a, b
  <2>3. CASE At(l) >= n /\ At(l) - n >= Len(others)
    <3>1. lanes[l] = Nobody
        BY <2>3, <1>1, <1>2, <1>3
    <3> QED  BY <3>1 DEF Lanes
  <2> QED  BY <2>1, <2>2, <2>3, <1>1, <1>2
<1>5. lanes \in [usable -> Lanes]
    BY <1>4 DEF lanes, RotationHeat
<1>6. RotationHeat(participants, others, i) = [lanes |-> lanes, out |-> NotRun]
    BY DEF RotationHeat, lanes
<1>7. lanes \in UNION {[D -> Lanes] : D \in SUBSET (1..Width)} /\ NotRun \in Outcomes
    BY <1>5 DEF Outcomes
<1> QED  BY <1>6, <1>7 DEF Heat

-----------------------------------------------------------------------------
(* Drawing and filling.                                                    *)

\* What the helpers below need to know of the state.
World ==
    /\ race \in Races
    /\ usable \subseteq 1..Width /\ usable # {}
    /\ checkedIn \subseteq Racers

\* Heats nobody has raced.
Fresh(hs) == hs \in Seq(Heat) /\ \A i \in 1..Len(hs) : hs[i].out = NotRun

\* The raced heats of one version of a round are still there in another.
Keeps(hs, new) == \A i \in DOMAIN hs : IsResult(hs[i].out) => hs[i] \in Range(new)

\* Only a finite number can be seated.
LEMMA SeatsAreFinite == ASSUME race \in Races PROVE IsFiniteSet(Seats)
<1> DEFINE N == race.size + Cardinality(Racers)
<1>1. N \in Nat
    BY SeatFacts, RaceFacts
<1>2. IsFiniteSet((-N)..(-1)) /\ IsFiniteSet(Racers)
  <2>1. -N \in Int /\ -1 \in Int
      BY <1>1
  <2> HIDE DEF N
  <2> QED  BY <2>1, FS_Interval, RacersAssumption
<1>3. IsFiniteSet(Racers \cup ((-N)..(-1)))
    BY <1>2, FS_Union
<1>4. Seats \in SUBSET (Racers \cup ((-N)..(-1)))
    BY <1>1 DEF Seats, Lanes
<1> QED  BY <1>3, <1>4, FS_Subset

LEMMA ParticipantFacts ==
    ASSUME race \in Races, NEW hs \in Seq(Heat)
    PROVE  /\ Participants(hs) \subseteq Seats
           /\ IsFiniteSet(Participants(hs)) /\ Cardinality(Participants(hs)) \in Nat
           /\ Field(hs) \subseteq Racers /\ IsFiniteSet(Field(hs))
<1>1. \A i \in DOMAIN hs : \A x \in Range(hs[i].lanes) : x \in Lanes
  <2> SUFFICES ASSUME NEW i \in DOMAIN hs PROVE \A x \in Range(hs[i].lanes) : x \in Lanes
      OBVIOUS
  <2>1. hs[i] \in Heat
      OBVIOUS
  <2>2. PICK D \in SUBSET (1..Width) : hs[i].lanes \in [D -> Lanes]
      BY <2>1 DEF Heat
  <2> QED  BY <2>2 DEF Range
<1>2. Participants(hs) \in SUBSET Seats
    BY <1>1 DEF Participants, Seats
<1>3. IsFiniteSet(Participants(hs)) /\ Cardinality(Participants(hs)) \in Nat
    BY <1>2, SeatsAreFinite, FS_Subset, FS_CardinalityType
<1>4. Field(hs) \in SUBSET Participants(hs)
    BY DEF Field
<1>5. IsFiniteSet(Field(hs))
    BY <1>3, <1>4, FS_Subset
<1> QED  BY <1>2, <1>3, <1>5 DEF Field

\* A set of racers in order of registration.
LEMMA AscendingRacers ==
    ASSUME race \in Races, NEW S \in SUBSET Racers
    PROVE  /\ Ascending(S) \in Seq(Seats) /\ Ascending(S) \in Seq(S)
           /\ Len(Ascending(S)) = Cardinality(S)
<1>1. IsFiniteSet(Racers) /\ Racers \in SUBSET Int
    BY RacersAssumption
<1>4. IsFiniteSet(S) /\ S \in SUBSET Int
    BY <1>1, FS_Subset
<1>2. Lists(Ascending(S), S)
    BY <1>4, AscendingOrder
<1>3. S \subseteq Seats
    BY SeatFacts
<1> QED  BY <1>2, <1>3 DEF Lists

LEMMA SlotsAreSeats ==
    ASSUME race \in Races, NEW n \in 1..race.size + Cardinality(Racers)
    PROVE  Slots(n) \in Seq(Seats) /\ Len(Slots(n)) = n
<1>1. n \in Nat /\ \A k \in 1..n : k \in 1..race.size + Cardinality(Racers)
    BY SeatFacts, RaceFacts
<1>2. \A k \in 1..n : -k \in Seats
    BY <1>1, SeatFacts
<1> QED  BY <1>1, <1>2 DEF Slots

LEMMA DrawIsFresh ==
    ASSUME World, NEW count \in Nat, NEW participants \in Seq(Seats)
    PROVE  Fresh(Draw(count, participants)) /\ Len(Draw(count, participants)) = count
<1>1. <<>> \in Seq(Seats)
    OBVIOUS
<1>2. \A i \in 1..count : /\ RotationHeat(participants, <<>>, i) \in Heat
                          /\ RotationHeat(participants, <<>>, i).out = NotRun
  <2> SUFFICES ASSUME NEW i \in 1..count
               PROVE  /\ RotationHeat(participants, <<>>, i) \in Heat
                      /\ RotationHeat(participants, <<>>, i).out = NotRun
      OBVIOUS
  <2>1. i \in Nat
      OBVIOUS
  <2> QED  BY <1>1, <2>1, RotationIsHeat DEF World
<1> QED  BY <1>2 DEF Draw, Fresh

\* How often each of the participants of a rebuilt round is drawn.
LEMMA RebuiltIsFresh ==
    ASSUME World, NEW hs \in Seq(Heat), NEW wanted \in Nat \ {0}, NEW participants \in Seq(Seats)
    PROVE  /\ Fresh(Rebuilt(hs, wanted, participants))
           /\ \E runs \in Nat \ {0} :
                 Rebuilt(hs, wanted, participants) = Draw(Len(participants) * runs, participants)
<1> DEFINE had == Cardinality(Participants(hs))
           runs == IF hs = <<>> \/ had = 0 THEN wanted ELSE Larger(1, Len(hs) \div had)
<1>1. had \in Nat /\ Len(hs) \in Nat
    BY ParticipantFacts DEF World
<1>2. runs \in Nat \ {0}
    BY <1>1 DEF Larger
<1>3. Len(participants) * runs \in Nat
    BY <1>2
<1>4. Rebuilt(hs, wanted, participants) = Draw(Len(participants) * runs, participants)
    BY DEF Rebuilt
<1> QED  BY <1>2, <1>3, <1>4, DrawIsFresh

\* A version of a round that may take the place of another.
Succeeds(new, hs) == new \in Seq(Heat) /\ Settled(new) /\ Keeps(hs, new)

LEMMA FreshSucceeds ==
    ASSUME race \in Races, NEW hs, MayRebuild(hs), NEW new, Fresh(new)
    PROVE  Succeeds(new, hs)
<1>1. Settled(new)
  <2>1. ~IsResult(NotRun)
      BY SeatFacts DEF IsResult
  <2>2. \A i \in DOMAIN new : new[i].out = NotRun
      BY DEF Fresh
  <2> QED  BY <2>1, <2>2 DEF Settled
<1>2. Keeps(hs, new)
    BY DEF MayRebuild, Keeps
<1> QED  BY <1>1, <1>2 DEF Fresh, Succeeds

LEMMA ResetSucceeds ==
    ASSUME World, NEW hs \in Seq(Heat), MayRebuild(hs),
           NEW n \in 1..race.size + Cardinality(Racers)
    PROVE  Fresh(ResetToSlots(hs, n)) /\ Succeeds(ResetToSlots(hs, n), hs)
<1>1. Slots(n) \in Seq(Seats)
    BY SlotsAreSeats DEF World
<1>2. Len(hs) \in Nat /\ race.runs \in Nat \ {0}
    BY RaceFacts DEF World
<1>3. Fresh(Draw(Len(hs), Slots(n))) /\ Fresh(Rebuilt(hs, race.runs, Slots(n)))
    BY <1>1, <1>2, DrawIsFresh, RebuiltIsFresh
<1>4. Fresh(ResetToSlots(hs, n))
    BY <1>3 DEF ResetToSlots
<1> QED  BY <1>4, FreshSucceeds DEF World

\* The heats of a round, each rewritten or left alone, keep those that are raced.
LEMMA RewrittenSucceeds ==
    ASSUME NEW hs \in Seq(Heat), Settled(hs), NEW new \in Seq(Heat), Len(new) = Len(hs),
           \A i \in 1..Len(hs) : new[i] = hs[i] \/ (~IsResult(hs[i].out) /\ ~IsResult(new[i].out))
    PROVE  Succeeds(new, hs)
<1>1. Settled(new)
    BY DEF Settled
<1>2. ASSUME NEW i \in DOMAIN hs, IsResult(hs[i].out) PROVE hs[i] \in Range(new)
  <2>1. i \in DOMAIN new /\ new[i] = hs[i]
      BY <1>2
  <2> QED  BY <2>1 DEF Range
<1> QED  BY <1>1, <1>2 DEF Succeeds, Keeps

\* A heat whose lanes are rewritten while nobody has raced it.
LEMMA NewLanes ==
    ASSUME NEW D \in SUBSET (1..Width), NEW lanes \in [D -> Lanes], NEW out \in Outcomes
    PROVE  [lanes |-> lanes, out |-> out] \in Heat
BY DEF Heat

LEMMA ResolvedSucceeds ==
    ASSUME race \in Races, NEW hs \in Seq(Heat), Settled(hs), NEW field \in Seq(Racers)
    PROVE  Succeeds(Resolved(hs, field), hs)
<1> DEFINE new == Resolved(hs, field)
<1>1. ASSUME NEW i \in 1..Len(hs)
      PROVE  /\ new[i] \in Heat /\ new[i].out = hs[i].out
             /\ ~HasSlot(hs[i]) => new[i] = hs[i]
  <2> DEFINE L == hs[i].lanes
             M == Filled(L, field)
  <2>1. hs[i] \in Heat /\ new[i] = [hs[i] EXCEPT !.lanes = M]
      BY DEF Resolved
  <2>2. PICK D \in SUBSET (1..Width) : L \in [D -> Lanes]
      BY <2>1 DEF Heat
  <2> HIDE DEF L
  <2>3. ASSUME NEW k \in D PROVE M[k] \in Lanes /\ (L[k] >= 0 => M[k] = L[k])
    <3> DEFINE x == L[k]
    <3>1. x \in Lanes
        BY <2>2
    <3>2. x \in Int
        BY <3>1, SeatFacts DEF Nobody
    <3>3. M[k] = IF x < 0 /\ -x <= Len(field) THEN field[-x] ELSE x
        BY <2>2 DEF Filled
    <3> HIDE DEF x, M
    <3>4. x < 0 /\ -x <= Len(field) => field[-x] \in Racers
        BY <3>2
    <3> QED  BY <3>1, <3>2, <3>3, <3>4 DEF Lanes, x
  <2>4. M \in [D -> Lanes]
      BY <2>2, <2>3 DEF Filled
  <2>5. new[i] \in Heat /\ new[i].out = hs[i].out
    <3>1. hs[i].out \in Outcomes
        BY <2>1 DEF Heat
    <3> HIDE DEF new, M
    <3>2. new[i] = [lanes |-> M, out |-> hs[i].out]
        BY <2>1 DEF Heat
    <3> QED  BY <3>1, <3>2, <2>4, NewLanes
  <2>6. ASSUME ~HasSlot(hs[i]) PROVE new[i] = hs[i]
    <3>1. \A k \in D : L[k] \in Int
        BY <2>2, SeatFacts DEF Nobody
    <3>2. ASSUME NEW k \in D PROVE M[k] = L[k]
      <4>1. ~(L[k] < 0)
          BY <2>2, <2>6 DEF HasSlot, L
      <4> QED  BY <2>3, <3>1, <4>1
    <3> HIDE DEF M
    <3>3. M = L
        BY <3>2, <2>2, <2>4
    <3> QED  BY <3>3, <2>1 DEF Heat, L, M
  <2> QED  BY <2>5, <2>6
<1>2. new = [i \in 1..Len(hs) |-> new[i]]
    BY DEF Resolved
<1> HIDE DEF new
<1>3. new \in Seq(Heat) /\ Len(new) = Len(hs)
    BY <1>1, <1>2
<1>4. \A i \in 1..Len(hs) :
        new[i] = hs[i] \/ (~IsResult(hs[i].out) /\ ~IsResult(new[i].out))
    BY <1>1 DEF Settled
<1> QED  BY <1>3, <1>4, RewrittenSucceeds DEF new

LEMMA PopulatedSucceeds ==
    ASSUME World, NEW hs \in Seq(Heat), Settled(hs), NEW field \in Seq(Racers)
    PROVE  Succeeds(Populated(hs, field), hs)
<1>1. field \in Seq(Seats) /\ race.runs \in Nat \ {0}
    BY SeatFacts, RaceFacts DEF World
<1>2. Fresh(Rebuilt(hs, race.runs, field))
    BY <1>1, RebuiltIsFresh
<1>3. Succeeds(Resolved(hs, field), hs)
    BY ResolvedSucceeds DEF World
<1>4. MayRebuild(hs) => Succeeds(Rebuilt(hs, race.runs, field), hs)
    BY <1>2, FreshSucceeds DEF World
<1>5. Succeeds(hs, hs)
    BY RewrittenSucceeds
<1> QED  BY <1>3, <1>4, <1>5 DEF Populated

LEMMA HeatVacatedFacts ==
    ASSUME race \in Races, NEW h \in Heat, NEW gone
    PROVE  /\ HeatVacated(h, gone) \in Heat
           /\ HeatVacated(h, gone) = h
                 \/ (~IsResult(h.out) /\ ~IsResult(HeatVacated(h, gone).out))
<1> DEFINE L == h.lanes
           left == [l \in DOMAIN L |-> IF L[l] \in gone THEN Nobody ELSE L[l]]
           out == IF Range(left) \cap Racers = {} THEN Skipped ELSE NotRun
<1>1. PICK D \in SUBSET (1..Width) : L \in [D -> Lanes]
    BY DEF Heat
<1>2. left \in [D -> Lanes] /\ out \in Outcomes
    BY <1>1 DEF Lanes, Outcomes
<1>3. HeatVacated(h, gone) = h
        \/ (h.out = NotRun /\ HeatVacated(h, gone) = [lanes |-> left, out |-> out])
    BY Zenon DEF HeatVacated
<1>4. ~IsResult(NotRun) /\ ~IsResult(out)
    BY SeatFacts DEF IsResult
<1> HIDE DEF L, left, out
<1>5. [lanes |-> left, out |-> out] \in Heat
    BY <1>2, NewLanes
<1> QED  BY <1>3, <1>4, <1>5

LEMMA VacatedSucceeds ==
    ASSUME race \in Races, NEW hs \in Seq(Heat), Settled(hs), NEW gone
    PROVE  Succeeds(Vacated(hs, gone), hs)
<1> DEFINE new == Vacated(hs, gone)
<1>1. \A i \in 1..Len(hs) :
        /\ new[i] \in Heat
        /\ new[i] = hs[i] \/ (~IsResult(hs[i].out) /\ ~IsResult(new[i].out))
    BY HeatVacatedFacts DEF Vacated
<1>2. new = [i \in 1..Len(hs) |-> new[i]]
    BY DEF Vacated
<1> HIDE DEF new
<1>3. new \in Seq(Heat) /\ Len(new) = Len(hs)
    BY <1>1, <1>2
<1> QED  BY <1>1, <1>3, RewrittenSucceeds DEF new

LEMMA HeatRelanedFacts ==
    ASSUME World, NEW h \in Heat
    PROVE  /\ HeatRelaned(h) \in Heat
           /\ HeatRelaned(h) = h \/ (~IsResult(h.out) /\ ~IsResult(HeatRelaned(h).out))
<1> DEFINE left == Restrict(h.lanes, usable \cap DOMAIN h.lanes)
           lanes == IF left = <<>> THEN [l \in usable |-> Nobody] ELSE left
           out == IF Range(left) \cap Racers = {} THEN Skipped ELSE h.out
<1>1. PICK D \in SUBSET (1..Width) : h.lanes \in [D -> Lanes]
    BY DEF Heat
<1>2. left \in [usable \cap D -> Lanes]
    BY <1>1 DEF Restrict
<1>3. \E E \in SUBSET (1..Width) : lanes \in [E -> Lanes]
  <2>1. [l \in usable |-> Nobody] \in [usable -> Lanes] /\ usable \in SUBSET (1..Width)
      BY DEF Lanes, World
  <2>2. usable \cap D \in SUBSET (1..Width)
      OBVIOUS
  <2> HIDE DEF left
  <2>3. CASE left = <<>>
      BY <2>1, <2>3
  <2>4. CASE left # <<>>
      BY <2>2, <2>4, <1>2
  <2> QED  BY <2>3, <2>4
<1>4. out \in Outcomes /\ (~IsResult(h.out) => ~IsResult(out))
    BY SeatFacts DEF Heat, Outcomes, IsResult, World
<1>5. HeatRelaned(h) = IF IsResult(h.out) \/ left = h.lanes THEN h
                       ELSE [lanes |-> lanes, out |-> out]
    BY DEF HeatRelaned
<1> HIDE DEF left, lanes, out
<1>6. [lanes |-> lanes, out |-> out] \in Heat
    BY <1>3, <1>4, NewLanes
<1> QED  BY <1>4, <1>5, <1>6

LEMMA RelanedSucceeds ==
    ASSUME World, NEW hs \in Seq(Heat), Settled(hs)
    PROVE  Succeeds(Relaned(hs), hs)
<1> DEFINE new == Relaned(hs)
<1>1. \A i \in 1..Len(hs) :
        /\ new[i] \in Heat
        /\ new[i] = hs[i] \/ (~IsResult(hs[i].out) /\ ~IsResult(new[i].out))
    BY HeatRelanedFacts DEF Relaned
<1>2. new = [i \in 1..Len(hs) |-> new[i]]
    BY DEF Relaned
<1> HIDE DEF new
<1>3. new \in Seq(Heat) /\ Len(new) = Len(hs)
    BY <1>1, <1>2
<1> QED  BY <1>1, <1>3, RewrittenSucceeds DEF new

\* Latecomers' heats go behind the heats there are.
LEMMA AdmittedSucceeds ==
    ASSUME World, NEW hs \in Seq(Heat), Settled(hs),
           NEW newcomers \in Seq(Seats), NEW others \in Seq(Seats)
    PROVE  Succeeds(hs \o LateHeats(newcomers, others), hs)
<1> DEFINE late == LateHeats(newcomers, others)
           m == Larger(Len(newcomers), Cardinality(usable))
           new == hs \o late
<1>1. m \in Nat
    BY LanesInService DEF World, Larger
<1>2. \A i \in 1..m : /\ RotationHeat(newcomers, others, i) \in Heat
                      /\ RotationHeat(newcomers, others, i).out = NotRun
  <2> SUFFICES ASSUME NEW i \in 1..m
               PROVE  /\ RotationHeat(newcomers, others, i) \in Heat
                      /\ RotationHeat(newcomers, others, i).out = NotRun
      OBVIOUS
  <2>1. i \in Nat
      BY <1>1
  <2> QED  BY <2>1, RotationIsHeat DEF World
<1>3. late \in Seq(Heat) /\ \A i \in 1..Len(late) : late[i].out = NotRun
  <2>1. \A i \in 1..m : late[i] = RotationHeat(newcomers, others, i)
      BY DEF LateHeats
  <2>2. late = [i \in 1..m |-> late[i]]
      BY DEF LateHeats
  <2> HIDE DEF late, m
  <2>3. \A i \in 1..m : late[i] \in Heat /\ late[i].out = NotRun
      BY <1>2, <2>1
  <2>4. late \in [1..m -> Heat]
      BY <2>2, <2>3
  <2>5. late \in Seq(Heat) /\ Len(late) = m
      BY <1>1, <2>4
  <2> QED  BY <2>3, <2>5
<1> HIDE DEF late, m
<1>4. /\ new \in Seq(Heat)
      /\ \A i \in 1..Len(hs) : i \in DOMAIN new /\ new[i] = hs[i]
      /\ \A i \in DOMAIN new : i \in 1..Len(hs) \/ new[i].out = NotRun
    BY <1>3
<1>5. ~IsResult(NotRun)
    BY SeatFacts DEF IsResult, World
<1> HIDE DEF new
<1>6. ASSUME NEW i \in DOMAIN new, IsResult(new[i].out) PROVE ~HasSlot(new[i])
  <2>1. i \in 1..Len(hs)
      BY <1>4, <1>5, <1>6
  <2>2. i \in DOMAIN hs /\ new[i] = hs[i]
      BY <2>1, <1>4
  <2> QED  BY <2>2, <1>6 DEF Settled
<1>7. Keeps(hs, new)
  <2>1. ASSUME NEW i \in DOMAIN hs PROVE hs[i] \in Range(new)
    <3>1. i \in DOMAIN new /\ new[i] = hs[i]
        BY <1>4
    <3> QED  BY <3>1 DEF Range
  <2> QED  BY <2>1 DEF Keeps
<1> QED  BY <1>4, <1>6, <1>7 DEF Succeeds, Settled, new, late

-----------------------------------------------------------------------------
(* Who advances.                                                           *)

LEMMA RoundsAreFinite == IInv => IsFiniteSet(Rounds) /\ Rounds \subseteq Nat
<1> SUFFICES ASSUME IInv PROVE IsFiniteSet(Rounds) /\ Rounds \subseteq Nat
    OBVIOUS
<1> DEFINE top == IF race.rounds > Len(Plan) THEN race.rounds ELSE Len(Plan)
<1>1. Rounds \in SUBSET (1..top)
    BY DEF IInv, Scalars
<1>2. Len(Plan) \in Nat /\ race.rounds \in Nat
    BY PlanAssumption, RaceFacts DEF IInv, Shape
<1>3. top \in Nat
    BY <1>2
<1> HIDE DEF top
<1>4. IsFiniteSet(1..top)
    BY <1>3, FS_Interval
<1>5. IsFiniteSet(Rounds)
    BY <1>1, <1>4, FS_Subset
<1>6. Rounds \subseteq Nat
    BY <1>1, <1>3
<1> QED  BY <1>5, <1>6

\* There are finitely many heats to rank by.
LEMMA ScoredIsFinite ==
    ASSUME IInv, NEW s \in Int
    PROVE  IsFiniteSet(Scored(s))
<1> DEFINE S == ScoredRounds(s)
           f == [r \in S |-> {r} \X DOMAIN heats[r]]
           T == {f[r] : r \in S}
<1>4. S \in SUBSET Rounds
    BY DEF ScoredRounds
<1>5. IsFiniteSet(S)
    BY <1>4, RoundsAreFinite, FS_Subset
<1>6. ASSUME NEW r \in S PROVE IsFiniteSet(f[r])
  <2>1. heats[r] \in Seq(Heat)
      BY <1>4 DEF IInv, Shape
  <2>2. IsFiniteSet(DOMAIN heats[r])
      BY <2>1, FS_Interval
  <2>3. IsFiniteSet({r})
      BY FS_Singleton
  <2> QED  BY <2>2, <2>3, FS_Product
<1>7. f \in Surjection(S, T)
    BY DEF Surjection
<1>8. IsFiniteSet(T)
    BY <1>5, <1>7, FS_Surjection
<1>9. \A t \in T : IsFiniteSet(t)
    BY <1>6
<1>10. Scored(s) = UNION T
    BY DEF Scored
<1> HIDE DEF T
<1> QED  BY <1>8, <1>9, <1>10, FS_UNION

\* One of two racers is ahead of the other.
LEMMA AheadRanks ==
    ASSUME IInv, NEW s \in Int, NEW W \in SUBSET Racers
    PROVE  Ranks(W, [x \in W |-> {y \in W : Ahead(s, y, x)}])
<1> DEFINE Below == [x \in W |-> {y \in W : Ahead(s, y, x)}]
<1>1. \A q \in W : Wins(s, q) \in Nat
  <2> SUFFICES ASSUME NEW q \in W PROVE Wins(s, q) \in Nat
      OBVIOUS
  <2>1. {e \in Scored(s) : ScoredHeat(e).out = q} \in SUBSET Scored(s)
      OBVIOUS
  <2> QED  BY <2>1, ScoredIsFinite, FS_Subset, FS_CardinalityType DEF Wins
<1>2. \A q \in W : q \in Nat
    BY RacersAssumption
<1>3. \A q \in W : HasRaced(s, q) \in BOOLEAN
    BY DEF HasRaced
<1>4. \A x \in W : ~Ahead(s, x, x)
    BY <1>1, <1>2 DEF Ahead
<1>5. \A x, y \in W : x # y => Ahead(s, x, y) \/ Ahead(s, y, x)
    BY <1>1, <1>2, <1>3 DEF Ahead
<1>6. \A x, y, z \in W : Ahead(s, x, y) /\ Ahead(s, y, z) => Ahead(s, x, z)
    BY <1>1, <1>2, <1>3 DEF Ahead
<1>7. Below \in [W -> SUBSET W] /\ \A x \in W : Below[x] = {y \in W : Ahead(s, y, x)}
    OBVIOUS
<1> HIDE DEF Below
<1>8. \A x \in W : x \notin Below[x]
    BY <1>4, <1>7
<1>9. ASSUME NEW x \in W, NEW y \in W, x # y
      PROVE  \/ x \in Below[y] /\ Below[x] \subseteq Below[y]
             \/ y \in Below[x] /\ Below[y] \subseteq Below[x]
    BY <1>5, <1>6, <1>7, <1>9
<1>10. Ranks(W, Below)
    BY <1>7, <1>8, <1>9 DEF Ranks
<1> QED  BY <1>10 DEF Below

\* Who advances is checked in, and advances once.
LEMMA WinnersAdvanceOnce ==
    ASSUME IInv, NEW s \in Int
    PROVE  /\ Winners(s) \in Seq(checkedIn) /\ Winners(s) \in Seq(Racers)
           /\ \A j, k \in 1..Len(Winners(s)) : Winners(s)[j] = Winners(s)[k] => j = k
<1> DEFINE W == (OnLeaderboard(s) \cap checkedIn) \ excluded
           Below == [x \in W |-> {y \in W : Ahead(s, y, x)}]
           n == Cardinality(W)
           ranked == InOrder(W, LAMBDA p, q : Ahead(s, p, q))
<1>1. W \in SUBSET Racers /\ W \subseteq checkedIn
    BY DEF IInv, Scalars
<1>2. IsFiniteSet(W)
    BY <1>1, RacersAssumption, FS_Subset
<1>3. Ranks(W, Below)
    BY <1>1, AheadRanks
<1>4. \A x \in W : Below[x] = {y \in W : Ahead(s, y, x)}
    OBVIOUS
<1>5. \A k \in 1..n : ranked[k] = CHOOSE x \in W : Cardinality({y \in W : Ahead(s, y, x)}) = k - 1
    BY DEF InOrder
<1>7. Winners(s) = SubSeq(ranked, 1, IF Len(ranked) < race.size THEN Len(ranked) ELSE race.size)
    BY DEF Winners
<1> HIDE DEF W, Below, ranked
<1>8. ASSUME NEW k \in 1..n PROVE ranked[k] \in W /\ HasRank(ranked[k], k, Below)
  <2> DEFINE a == CHOOSE x \in W : Cardinality({y \in W : Ahead(s, y, x)}) = k - 1
  <2>1. \E x \in W : HasRank(x, k, Below)
      BY <1>2, <1>3, EveryRankIsTaken
  <2>2. \E x \in W : Cardinality({y \in W : Ahead(s, y, x)}) = k - 1
      BY <2>1, <1>4 DEF HasRank
  <2>3. a \in W /\ Cardinality({y \in W : Ahead(s, y, a)}) = k - 1
      BY <2>2, Zenon
  <2> QED  BY <2>3, <1>4, <1>5 DEF HasRank
<1>9. ranked \in [1..n -> W]
    BY <1>8 DEF ranked, InOrder
<1>10. Lists(ranked, W)
    BY <1>2, <1>3, <1>8, <1>9, RankedIsListed
<1>11. n \in Nat /\ ranked \in Seq(W) /\ Len(ranked) = n
    BY <1>9, <1>10 DEF Lists
<1> DEFINE m == IF Len(ranked) < race.size THEN Len(ranked) ELSE race.size
<1>12. m \in 0..n
    BY <1>11, RaceFacts DEF IInv, Shape
<1> HIDE DEF m, n
<1>13. /\ SubSeq(ranked, 1, m) \in Seq(W) /\ Len(SubSeq(ranked, 1, m)) = m
       /\ \A k \in 1..m : SubSeq(ranked, 1, m)[k] = ranked[k]
    BY <1>11, <1>12
<1>14. \A j, k \in 1..m : ranked[j] = ranked[k] => j = k
    BY <1>10, <1>12 DEF Lists, n
<1>15. Winners(s) = SubSeq(ranked, 1, m)
    BY <1>7 DEF m
<1>16. W \subseteq Racers /\ Seq(W) \subseteq Seq(Racers) /\ Seq(W) \subseteq Seq(checkedIn)
    BY <1>1
<1> QED  BY <1>13, <1>14, <1>15, <1>16

-----------------------------------------------------------------------------
(* The steps of a request.                                                 *)

LEMMA ShapeIsTyped == Scalars /\ Shape => TypeOK
<1> SUFFICES ASSUME Scalars, Shape PROVE TypeOK
    OBVIOUS
<1>1. ASSUME NEW r \in Rounds, NEW i \in DOMAIN heats[r]
      PROVE  heats[r][i].out \in Outcomes /\ Range(heats[r][i].lanes) \subseteq Lanes
  <2>1. heats[r] \in Seq(Heat)
      BY DEF Shape
  <2>2. heats[r][i] \in Heat
      BY <2>1
  <2>3. PICK D \in SUBSET (1..Width) : heats[r][i].lanes \in [D -> Lanes]
      BY <2>2 DEF Heat
  <2> QED  BY <2>2, <2>3 DEF Heat, Range
<1>2. \A i \in DOMAIN todo : todo[i].do \in Dos /\ todo[i].round \in Rounds
  <2> SUFFICES ASSUME NEW i \in DOMAIN todo PROVE todo[i] \in Request
      BY DEF Request
  <2>1. todo \in Seq(Request)
      BY DEF Shape
  <2> QED  BY <2>1
<1> QED  BY <1>1, <1>2 DEF TypeOK, Scalars, Shape

LEMMA InvariantIsWorld == IInv => World
BY DEF IInv, Scalars, Shape, World

\* What a step leaves alone of a round that was raced.
Kept ==
    \A r \in Rounds : \A i \in DOMAIN heats[r] :
        IsResult(heats[r][i].out) => r \in Rounds' /\ heats[r][i] \in Range(heats'[r])

LEMMA UntouchedIsKept ==
    ASSUME NEW r \in Rounds, r \in Rounds', heats'[r] = heats[r]
    PROVE  \A i \in DOMAIN heats[r] : heats[r][i] \in Range(heats'[r])
BY DEF Range

\* The invariant of the next state, from its parts.
LEMMA InvariantAgain ==
    ASSUME race \in Races, UNCHANGED race, Scalars', source' \in [Rounds' -> Int],
           heats' \in [Rounds' -> Seq(Heat)], \A p \in Rounds' : Settled(heats'[p]),
           todo' \in Seq([do : Dos, round : Rounds'])
    PROVE  IInv'
<1>1. Heat' = Heat
    BY DEF Heat, Lanes, Outcomes
<1>2. Shape'
    BY <1>1 DEF Shape, Request
<1> QED  BY <1>2 DEF IInv, Settled, IsResult, HasSlot

\* What all requests but three leave alone.
settings == <<source, pinned, checkedIn, excluded, runOff, usable, race>>

\* One round is given another version of its heats.
LEMMA OneRoundChanges ==
    ASSUME IInv, NEW r \in Rounds, NEW new, Succeeds(new, heats[r]),
           heats' = [heats EXCEPT ![r] = new], todo' \in Seq(Request),
           UNCHANGED <<source, race>>, Scalars'
    PROVE  IInv' /\ Kept
<1>1. Rounds' = Rounds
    BY DEF Rounds
<1>2. heats' \in [Rounds -> Seq(Heat)]
    BY DEF IInv, Shape, Succeeds
<1>3. \A p \in Rounds : heats'[p] = IF p = r THEN new ELSE heats[p]
    BY DEF IInv, Shape
<1>4. \A p \in Rounds : Settled(heats'[p])
    BY <1>3 DEF IInv, Succeeds
<1>5. IInv'
    BY <1>1, <1>2, <1>4, InvariantAgain DEF IInv, Shape, Request
<1>6. Kept
    BY <1>1, <1>3, UntouchedIsKept DEF Kept, Succeeds, Keeps
<1> QED  BY <1>5, <1>6

LEMMA NoRoundChanges ==
    ASSUME IInv, UNCHANGED <<source, heats, race>>, todo' \in Seq(Request), Scalars'
    PROVE  IInv' /\ Kept
<1>1. Rounds' = Rounds
    BY DEF Rounds
<1>3. IInv'
    BY <1>1, InvariantAgain DEF IInv, Shape, Request
<1>4. Kept
    BY <1>1, UntouchedIsKept DEF Kept
<1> QED  BY <1>3, <1>4

LEMMA SettingsStand == ASSUME Scalars, UNCHANGED settings PROVE Scalars'
BY DEF Scalars, settings, IsFed, Rounds

LEMMA StepsAreRequests ==
    ASSUME IInv, NEW do \in Dos, NEW S \in SUBSET Rounds
    PROVE  Steps(do, S) \in Seq(Request)
<1>1. S \in SUBSET Int /\ IsFiniteSet(S)
    BY RoundsAreFinite, FS_Subset
<1>2. Lists(Ascending(S), S)
    BY <1>1, AscendingOrder
<1>3. Ascending(S) \in Seq(S)
    BY <1>2 DEF Lists
<1>4. \A i \in 1..Len(Ascending(S)) : Step(do, Ascending(S)[i]) \in Request
    BY <1>3 DEF Step, Request
<1> QED  BY <1>3, <1>4 DEF Steps

\* A step of a request does its work on one round, or on none, and leaves more.
LEMMA ProceedOnRound ==
    ASSUME IInv, ~Idle, NEW r \in Rounds, NEW new, Succeeds(new, heats[r]),
           NEW more \in Seq(Request), Proceed([heats EXCEPT ![r] = new], more)
    PROVE  IInv' /\ Kept
<1>1. Tail(todo) \in Seq(Request)
    BY DEF IInv, Shape, Idle
<1>2. todo' \in Seq(Request)
    BY <1>1 DEF Proceed
<1>3. Scalars'
    BY SettingsStand DEF Proceed, settings, IInv
<1> QED  BY <1>2, <1>3, OneRoundChanges DEF Proceed

LEMMA ProceedOnNone ==
    ASSUME IInv, ~Idle, NEW more \in Seq(Request), Proceed(heats, more)
    PROVE  IInv' /\ Kept
<1>1. Tail(todo) \in Seq(Request)
    BY DEF IInv, Shape, Idle
<1>2. todo' \in Seq(Request)
    BY <1>1 DEF Proceed
<1>3. Scalars'
    BY SettingsStand DEF Proceed, settings, IInv
<1> QED  BY <1>2, <1>3, NoRoundChanges DEF Proceed

LEMMA ResetKeeps == ASSUME IInv, ~Idle, NEW r \in Rounds, Reset(r) PROVE IInv' /\ Kept
<1>1. <<>> \in Seq(Request)
    OBVIOUS
<1>2. World /\ heats[r] \in Seq(Heat)
    BY InvariantIsWorld DEF IInv, Shape
<1>3. race.size \in 1..race.size + Cardinality(Racers)
    BY <1>2, SeatFacts, RaceFacts DEF World
<1>4. CASE MayRebuild(heats[r])
  <2>1. Succeeds(ResetToSlots(heats[r], race.size), heats[r])
      BY <1>2, <1>3, <1>4, ResetSucceeds
  <2>2. Proceed([heats EXCEPT ![r] = ResetToSlots(heats[r], race.size)], <<>>)
      BY <1>4 DEF Reset
  <2> QED  BY <1>1, <2>1, <2>2, ProceedOnRound
<1>5. CASE ~MayRebuild(heats[r])
  <2>1. Proceed(heats, <<>>)
      BY <1>5 DEF Reset
  <2> QED  BY <1>1, <2>1, ProceedOnNone
<1> QED  BY <1>4, <1>5

LEMMA TriggerKeeps == ASSUME IInv, ~Idle, NEW r \in Rounds, Trigger(r) PROVE IInv' /\ Kept
<1>1. RoundsToInvalidate(r) \in SUBSET Rounds /\ "fill" \in Dos
    BY DEF RoundsToInvalidate, Dos
<1>2. Steps("fill", RoundsToInvalidate(r)) \in Seq(Request)
    BY <1>1, StepsAreRequests
<1>3. (IF RoundComplete(r) THEN Steps("fill", RoundsToInvalidate(r)) ELSE <<>>) \in Seq(Request)
    BY <1>2
<1> QED  BY <1>3, ProceedOnNone DEF Trigger

\* Filling a round with whoever leads its source.
LEMMA FillingSucceeds ==
    ASSUME IInv, NEW r \in Rounds
    PROVE  Succeeds(Populated(heats[r], Winners(source[r])), heats[r])
<1>1. World /\ heats[r] \in Seq(Heat) /\ Settled(heats[r]) /\ source[r] \in Int
    BY InvariantIsWorld DEF IInv, Shape
<1>2. Winners(source[r]) \in Seq(Racers)
    BY <1>1, WinnersAdvanceOnce
<1> QED  BY <1>1, <1>2, PopulatedSucceeds

LEMMA FillKeeps == ASSUME IInv, ~Idle, NEW r \in Rounds, Fill(r) PROVE IInv' /\ Kept
<1>1. <<>> \in Seq(Request)
    OBVIOUS
<1>2. CASE IsFed(r) /\ r \notin pinned /\ Decided(r)
  <2>1. Proceed([heats EXCEPT ![r] = Populated(heats[r], Winners(source[r]))], <<>>)
      BY <1>2 DEF Fill
  <2> QED  BY <1>1, <2>1, FillingSucceeds, ProceedOnRound
<1>3. CASE ~(IsFed(r) /\ r \notin pinned /\ Decided(r))
  <2>1. Proceed(heats, <<>>)
      BY <1>3 DEF Fill
  <2> QED  BY <1>1, <2>1, ProceedOnNone
<1> QED  BY <1>2, <1>3

LEMMA AdvanceKeeps == ASSUME IInv, ~Idle, NEW r \in Rounds, Advance(r) PROVE IInv' /\ Kept
<1>1. <<>> \in Seq(Request)
    OBVIOUS
<1>2. Proceed([heats EXCEPT ![r] = Populated(heats[r], Winners(source[r]))], <<>>)
    BY DEF Advance
<1> QED  BY <1>1, <1>2, FillingSucceeds, ProceedOnRound

\* A general round drawn for the roster, and a fed one for its slots.
LEMMA RedrawnSucceeds ==
    ASSUME IInv, NEW r \in Rounds, MayRebuild(heats[r])
    PROVE  /\ Succeeds(RosterRebuilt(heats[r]), heats[r])
           /\ Succeeds(SlotsRebuilt(heats[r]), heats[r])
<1>1. World /\ heats[r] \in Seq(Heat)
    BY InvariantIsWorld DEF IInv, Shape
<1>2. Roster \in Seq(Seats)
    BY <1>1, AscendingRacers DEF Roster, World
<1>3. race.size \in 1..race.size + Cardinality(Racers) /\ race.runs \in Nat \ {0}
    BY <1>1, SeatFacts, RaceFacts DEF World
<1>4. Slots(race.size) \in Seq(Seats)
    BY <1>1, <1>3, SlotsAreSeats DEF World
<1>5. 1 \in Nat \ {0}
    OBVIOUS
<1>6. Fresh(RosterRebuilt(heats[r])) /\ Fresh(SlotsRebuilt(heats[r]))
    BY <1>1, <1>2, <1>3, <1>4, <1>5, RebuiltIsFresh DEF RosterRebuilt, SlotsRebuilt
<1> QED  BY <1>1, <1>6, FreshSucceeds DEF World

LEMMA WithdrawKeeps == ASSUME IInv, ~Idle, NEW r \in Rounds, Withdraw(r) PROVE IInv' /\ Kept
<1> DEFINE hs == heats[r]
           gone == Field(hs) \ checkedIn
           again == <<Step("reset", r), Step("advance", r)>>
<1>1. <<>> \in Seq(Request) /\ again \in Seq(Request)
    BY DEF Step, Request, Dos
<1>2. hs \in Seq(Heat) /\ Settled(hs) /\ race \in Races
    BY DEF IInv, Shape
<1>3. CASE Proceed(heats, <<>>)
    BY <1>1, <1>3, ProceedOnNone
<1>4. CASE Proceed(heats, IF MayRebuild(hs) THEN again ELSE <<>>)
  <2>1. (IF MayRebuild(hs) THEN again ELSE <<>>) \in Seq(Request)
      BY <1>1
  <2> QED  BY <2>1, <1>4, ProceedOnNone
<1>5. CASE MayRebuild(hs) /\ Proceed([heats EXCEPT ![r] = RosterRebuilt(hs)], <<>>)
    BY <1>1, <1>5, RedrawnSucceeds, ProceedOnRound
<1>6. CASE Proceed([heats EXCEPT ![r] = Vacated(hs, gone)], <<>>)
  <2>1. Succeeds(Vacated(hs, gone), hs)
      BY <1>2, VacatedSucceeds
  <2> QED  BY <2>1, <1>1, <1>6, ProceedOnRound
<1> QED  BY <1>3, <1>4, <1>5, <1>6 DEF Withdraw

LEMMA FailsKeeps == ASSUME IInv, Fails PROVE IInv' /\ Kept
<1>1. todo' \in Seq(Request) /\ Scalars'
    BY SettingsStand DEF Fails, settings, IInv
<1> QED  BY <1>1, NoRoundChanges DEF Fails

LEMMA RedrawKeeps ==
    ASSUME IInv, ~Idle, NEW r \in Rounds, MayRebuild(heats[r]), Redraw(r) PROVE IInv' /\ Kept
<1>1. <<>> \in Seq(Request)
    OBVIOUS
<1>2. CASE Fails
    BY <1>2, FailsKeeps
<1>3. CASE Proceed([heats EXCEPT ![r] = RosterRebuilt(heats[r])], <<>>)
    BY <1>1, <1>3, RedrawnSucceeds, ProceedOnRound
<1> QED  BY <1>2, <1>3 DEF Redraw

LEMMA AdmitKeeps == ASSUME IInv, ~Idle, NEW r \in Rounds, Admit(r) PROVE IInv' /\ Kept
<1> DEFINE hs == heats[r]
           missing == checkedIn \ Field(hs)
           new == hs \o LateHeats(Ascending(missing), Ascending(Field(hs)))
<1>1. <<>> \in Seq(Request)
    OBVIOUS
<1>2. World /\ hs \in Seq(Heat) /\ Settled(hs) /\ race \in Races
    BY InvariantIsWorld DEF IInv, Shape
<1>3. CASE Proceed(heats, <<>>)
    BY <1>1, <1>3, ProceedOnNone
<1>4. CASE MayRebuild(hs) /\ Redraw(r)
    BY <1>4, RedrawKeeps
<1>5. CASE Proceed([heats EXCEPT ![r] = new], <<>>)
  <2>1. missing \in SUBSET Racers /\ Field(hs) \in SUBSET Racers
      BY <1>2 DEF World, Field
  <2>2. Ascending(missing) \in Seq(Seats) /\ Ascending(Field(hs)) \in Seq(Seats)
      BY <1>2, <2>1, AscendingRacers
  <2>3. Succeeds(new, hs)
      BY <1>2, <2>2, AdmittedSucceeds
  <2> QED  BY <2>3, <1>1, <1>5, ProceedOnRound
<1>6. CASE Fails
    BY <1>6, FailsKeeps
<1> QED  BY <1>3, <1>4, <1>5, <1>6 DEF Admit

LEMMA OutageKeeps == ASSUME IInv, ~Idle, NEW r \in Rounds, Outage(r) PROVE IInv' /\ Kept
<1>1. <<>> \in Seq(Request)
    OBVIOUS
<1>2. World /\ heats[r] \in Seq(Heat) /\ Settled(heats[r])
    BY InvariantIsWorld DEF IInv, Shape
<1>3. CASE Proceed([heats EXCEPT ![r] = Relaned(heats[r])], <<>>)
  <2>1. Succeeds(Relaned(heats[r]), heats[r])
      BY <1>2, RelanedSucceeds
  <2> QED  BY <2>1, <1>1, <1>3, ProceedOnRound
<1>4. CASE MayRebuild(heats[r]) /\ Proceed([heats EXCEPT ![r] = SlotsRebuilt(heats[r])], <<>>)
    BY <1>1, <1>4, RedrawnSucceeds, ProceedOnRound
<1>5. CASE MayRebuild(heats[r]) /\ Redraw(r)
    BY <1>5, RedrawKeeps
<1> QED  BY <1>3, <1>4, <1>5 DEF Outage

LEMMA SettleKeeps == IInv /\ Settle => IInv' /\ Kept
<1> SUFFICES ASSUME IInv, Settle PROVE IInv' /\ Kept
    OBVIOUS
<1> DEFINE r == Head(todo).round
<1>1. ~Idle
    BY DEF Settle
<1>2. Head(todo) \in Request
    BY <1>1 DEF IInv, Shape, Idle
<1>3. r \in Rounds
    BY <1>2 DEF Request
<1> HIDE DEF r
<1>4. Reset(r) \/ Trigger(r) \/ Fill(r) \/ Advance(r) \/ Withdraw(r) \/ Admit(r) \/ Outage(r)
    BY DEF Settle, r
<1> QED  BY <1>1, <1>3, <1>4, ResetKeeps, TriggerKeeps, FillKeeps, AdvanceKeeps,
            WithdrawKeeps, AdmitKeeps, OutageKeeps

-----------------------------------------------------------------------------
(* Requests.                                                               *)

LEMMA CrashKeeps == IInv /\ Crash => IInv' /\ Kept
<1> SUFFICES ASSUME IInv, Crash PROVE IInv' /\ Kept
    OBVIOUS
<1>1. todo' \in Seq(Request) /\ Scalars'
    BY SettingsStand DEF Crash, settings, IInv
<1> QED  BY <1>1, NoRoundChanges DEF Crash

LEMMA CascadesAreRequests ==
    ASSUME IInv, NEW r \in Rounds PROVE Cascade(r) \in Seq(Request)
<1>1. RoundsToInvalidate(r) \in SUBSET Rounds /\ "reset" \in Dos
    BY DEF RoundsToInvalidate, Dos
<1>2. Steps("reset", RoundsToInvalidate(r)) \in Seq(Request)
    BY <1>1, StepsAreRequests
<1>3. <<Step("trigger", r)>> \in Seq(Request)
    BY DEF Step, Request, Dos
<1> QED  BY <1>2, <1>3 DEF Cascade

LEMMA RunOffKeeps == IInv /\ RecordRunOff => IInv' /\ Kept
<1> SUFFICES ASSUME IInv, RecordRunOff PROVE IInv' /\ Kept
    OBVIOUS
<1>1. RoundsToInvalidate(0) \in SUBSET Rounds /\ {"reset", "fill"} \subseteq Dos
    BY DEF RoundsToInvalidate, Dos
<1>2. /\ Steps("reset", RoundsToInvalidate(0)) \in Seq(Request)
      /\ Steps("fill", Rounds) \in Seq(Request)
    BY <1>1, StepsAreRequests
<1>3. todo' \in Seq(Request)
    BY <1>2 DEF RecordRunOff, RunOffCascade
<1>4. Scalars'
    BY DEF RecordRunOff, IInv, Scalars, Rounds, IsFed
<1> QED  BY <1>3, <1>4, NoRoundChanges DEF RecordRunOff

LEMMA CheckInKeeps == ASSUME IInv, NEW q \in race.movers, CheckIn(q) PROVE IInv' /\ Kept
<1>1. {r \in Rounds : ~IsFed(r)} \in SUBSET Rounds /\ {"withdraw", "admit"} \subseteq Dos
    BY DEF Dos
<1>2. /\ Steps("withdraw", Rounds) \in Seq(Request)
      /\ Steps("admit", {r \in Rounds : ~IsFed(r)}) \in Seq(Request)
    BY <1>1, StepsAreRequests
<1>3. todo' \in Seq(Request)
    BY <1>2 DEF CheckIn
<1>4. race.movers \subseteq Racers
    BY RaceFacts DEF IInv, Shape
<1>5. Scalars'
    BY <1>4 DEF CheckIn, IInv, Scalars, Rounds, IsFed
<1> QED  BY <1>3, <1>5, NoRoundChanges DEF CheckIn

LEMMA SetExcludedKeeps == ASSUME IInv, NEW q \in race.movers, SetExcluded(q) PROVE IInv' /\ Kept
<1>1. todo' \in Seq(Request)
    BY DEF SetExcluded, IInv, Shape
<1>2. race.movers \subseteq Racers
    BY RaceFacts DEF IInv, Shape
<1>3. Scalars'
    BY <1>2 DEF SetExcluded, IInv, Scalars, Rounds, IsFed
<1> QED  BY <1>1, <1>3, NoRoundChanges DEF SetExcluded

LEMMA OutagesKeep ==
    ASSUME IInv, NEW lanes \in (SUBSET (1..Width)) \ {{}}, SetLaneOutages(lanes)
    PROVE  IInv' /\ Kept
<1>1. {r \in Rounds : heats[r] # <<>>} \in SUBSET Rounds /\ "outage" \in Dos
    BY DEF Dos
<1>2. todo' \in Seq(Request)
    BY <1>1, StepsAreRequests DEF SetLaneOutages
<1>3. Scalars'
    BY DEF SetLaneOutages, IInv, Scalars, Rounds, IsFed
<1> QED  BY <1>2, <1>3, NoRoundChanges DEF SetLaneOutages

\* A new round is given a number that no round has.
LEMMA NextNumberIsNew == IInv => NextNumber \in Nat \ {0} /\ NextNumber \notin Rounds
<1> SUFFICES ASSUME IInv, Rounds # {} PROVE NextNumber \in Nat \ {0} /\ NextNumber \notin Rounds
    BY DEF NextNumber
<1> DEFINE m == CHOOSE k \in Rounds : \A r \in Rounds : r <= k
<1>1. IsFiniteSet(Rounds) /\ Rounds \subseteq Nat
    BY RoundsAreFinite
<1>2. \E k \in Rounds : \A r \in Rounds : r <= k
    BY <1>1, LargestExists
<1>3. m \in Rounds /\ \A r \in Rounds : r <= m
    BY <1>2, Zenon
<1>4. NextNumber = 1 + m
    BY DEF NextNumber
<1> HIDE DEF m
<1>5. m \in Nat
    BY <1>1, <1>3
<1>6. 1 + m \notin Rounds
    BY <1>1, <1>3, <1>5
<1> QED  BY <1>4, <1>5, <1>6

\* A request that asks for nothing more.
LEMMA NothingMore == IInv /\ UNCHANGED todo => todo' \in Seq(Request)
BY DEF IInv, Shape

\* Recording changes the one heat, and it may: a heat that waits for a racer is
\* not raced.
LEMMA RecordingKeeps ==
    ASSUME IInv, NEW r \in Rounds, NEW i \in DOMAIN heats[r], NEW out \in Outcomes,
           RecordHeatResult(r, i, out)
    PROVE  /\ IInv'
           /\ \A p \in Rounds : \A j \in DOMAIN heats[p] :
                 p # r \/ j # i => p \in Rounds' /\ heats[p][j] \in Range(heats'[p])
<1> DEFINE hs == heats[r]
           new == [hs EXCEPT ![i].out = out]
<1>1. hs \in Seq(Heat) /\ Settled(hs)
    BY DEF IInv, Shape
<1>2. hs[i] \in Heat /\ ~HasSlot(hs[i])
    BY <1>1 DEF RecordHeatResult
<1>3. [hs[i] EXCEPT !.out = out] \in Heat /\ ~HasSlot([hs[i] EXCEPT !.out = out])
    BY <1>2 DEF Heat, HasSlot
<1>4. /\ new \in Seq(Heat) /\ new[i] = [hs[i] EXCEPT !.out = out]
      /\ DOMAIN new = DOMAIN hs
      /\ \A j \in DOMAIN hs \ {i} : j \in DOMAIN new /\ new[j] = hs[j]
    BY <1>1, <1>3
<1>5. heats' = [heats EXCEPT ![r] = new]
    BY DEF RecordHeatResult
<1> HIDE DEF new
<1>6. Settled(new)
  <2>1. ASSUME NEW j \in DOMAIN hs, IsResult(new[j].out) PROVE ~HasSlot(new[j])
    <3>1. CASE j = i
        BY <3>1, <1>3, <1>4
    <3>2. CASE j # i
        BY <2>1, <3>2, <1>1, <1>4 DEF Settled
    <3> QED  BY <3>1, <3>2
  <2>2. DOMAIN new = DOMAIN hs
      BY <1>4
  <2> HIDE DEF hs
  <2> QED  BY ONLY <2>1, <2>2 DEF Settled
<1>7. heats' \in [Rounds -> Seq(Heat)] /\ Rounds' = Rounds
  <2>1. heats \in [Rounds -> Seq(Heat)]
      BY DEF IInv, Shape
  <2>2. Rounds' = Rounds
      BY DEF RecordHeatResult, Rounds
  <2> QED  BY <2>1, <2>2, <1>4, <1>5
<1>8. \A p \in Rounds : heats'[p] = IF p = r THEN new ELSE heats[p]
    BY <1>5 DEF IInv, Shape
<1>9. \A p \in Rounds : Settled(heats'[p])
    BY <1>6, <1>8 DEF IInv
<1>10. todo' \in Seq(Request)
    BY CascadesAreRequests DEF RecordHeatResult
<1>11. Scalars'
    BY SettingsStand DEF RecordHeatResult, settings, IInv
<1>12. IInv'
    BY <1>7, <1>9, <1>10, <1>11, InvariantAgain DEF IInv, Shape, Request, RecordHeatResult
<1>13. ASSUME NEW p \in Rounds, NEW j \in DOMAIN heats[p], p # r \/ j # i
       PROVE  p \in Rounds' /\ heats[p][j] \in Range(heats'[p])
    BY <1>4, <1>7, <1>8, <1>13 DEF Range
<1> QED  BY <1>12, <1>13

LEMMA AskedToFill ==
    ASSUME NEW S, NEW r \in S, NEW s
    PROVE  AskToFill(s, r) \in Seq([do : Dos, round : S])
<1> DEFINE T == [do : Dos, round : S]
<1>1. Step("fill", r) \in T
    BY DEF Step, Dos
<1> HIDE DEF T
<1>2. <<>> \in Seq(T) /\ <<Step("fill", r)>> \in Seq(T)
    BY <1>1
<1> QED  BY <1>2 DEF AskToFill, T

LEMMA CreateRoundKeeps == ASSUME IInv, NEW s \in race.offered, CreateRound(s) PROVE IInv' /\ Kept
<1> DEFINE n == NextNumber
<1>1. n \in Nat \ {0} /\ n \notin Rounds
    BY NextNumberIsNew
<1>2. World /\ n <= race.rounds /\ race.rounds \in Nat /\ Len(Plan) \in Nat
    BY InvariantIsWorld, RaceFacts, PlanAssumption DEF CreateRound, World
<1>3. s \in Int /\ s >= General
    BY <1>2, RaceFacts DEF World
<1> HIDE DEF n
<1>4. Rounds' = Rounds \cup {n}
    BY DEF CreateRound, Rounds, n
<1>5. source' = [r \in Rounds \cup {n} |-> IF r = n THEN s ELSE source[r]]
    BY DEF CreateRound, n
<1>6. Roster \in Seq(Seats) /\ Slots(race.size) \in Seq(Seats)
  <2>1. race.size \in 1..race.size + Cardinality(Racers)
      BY <1>2, SeatFacts, RaceFacts DEF World
  <2> QED  BY <2>1, <1>2, AscendingRacers, SlotsAreSeats DEF Roster, World
<1>7. <<>> \in Seq(Heat) /\ 1 \in Nat \ {0} /\ race.runs \in Nat \ {0}
    BY <1>2, RaceFacts DEF World
<1>8. Fresh(RosterRebuilt(<<>>)) /\ Fresh(SlotsRebuilt(<<>>))
    BY <1>2, <1>6, <1>7, RebuiltIsFresh DEF RosterRebuilt, SlotsRebuilt
<1> DEFINE drawn == IF s = General THEN RosterRebuilt(<<>>) ELSE SlotsRebuilt(<<>>)
<1>9. heats' = [r \in Rounds \cup {n} |-> IF r # n THEN heats[r] ELSE drawn]
    BY DEF CreateRound, n
<1>10. drawn \in Seq(Heat) /\ Settled(drawn)
  <2>1. MayRebuild(<<>>)
      BY DEF MayRebuild
  <2>2. Fresh(drawn)
      BY <1>8
  <2> HIDE DEF drawn
  <2> QED  BY <2>1, <2>2, <1>2, FreshSucceeds DEF Succeeds, World
<1> HIDE DEF drawn
<1>11. heats' \in [Rounds' -> Seq(Heat)] /\ \A p \in Rounds' : Settled(heats'[p])
    BY <1>4, <1>9, <1>10 DEF IInv, Shape
<1>12. source' \in [Rounds' -> Int]
    BY <1>3, <1>4, <1>5 DEF IInv, Shape
<1>13. todo' \in Seq([do : Dos, round : Rounds'])
    BY <1>4, AskedToFill DEF CreateRound, n
<1>14. \A r \in Rounds : source'[r] = source[r] /\ heats'[r] = heats[r]
    BY <1>1, <1>5, <1>9
<1>15. Scalars'
  <2>1. Rounds' \subseteq 1..(IF race.rounds > Len(Plan) THEN race.rounds ELSE Len(Plan))
    <3> DEFINE top == IF race.rounds > Len(Plan) THEN race.rounds ELSE Len(Plan)
    <3>1. n \in 1..top
        BY <1>1, <1>2
    <3>2. Rounds \subseteq 1..top
        BY DEF IInv, Scalars
    <3> QED  BY <3>1, <3>2, <1>4
  <2>2. \A r \in Rounds' : source'[r] >= General
      BY <1>3, <1>4, <1>5 DEF IInv, Scalars
  <2>3. pinned' \subseteq {r \in Rounds' : source'[r] # General}
      BY <1>4, <1>14 DEF CreateRound, IInv, Scalars, IsFed
  <2> QED  BY <2>1, <2>2, <2>3 DEF CreateRound, IInv, Scalars, IsFed
<1>16. IInv'
    BY <1>2, <1>11, <1>12, <1>13, <1>15, InvariantAgain DEF CreateRound, World
<1>17. Kept
    BY <1>4, <1>14, UntouchedIsKept DEF Kept
<1> QED  BY <1>16, <1>17

LEMMA DeleteRoundKeeps == ASSUME IInv, NEW r \in Rounds, DeleteRound(r) PROVE IInv' /\ Kept
<1>1. Rounds' = Rounds \ {r} /\ source' = [p \in Rounds \ {r} |-> source[p]]
    BY DEF DeleteRound, Restrict, Rounds
<1>2. heats' = [p \in Rounds \ {r} |-> heats[p]]
    BY DEF DeleteRound, Restrict
<1>3. todo' = <<>> /\ race \in Races
    BY DEF DeleteRound, Idle, IInv, Shape
<1>4. Scalars'
    BY <1>1 DEF DeleteRound, IInv, Scalars, IsFed
<1>5. source' \in [Rounds' -> Int] /\ heats' \in [Rounds' -> Seq(Heat)]
      /\ \A p \in Rounds' : Settled(heats'[p])
    BY <1>1, <1>2 DEF IInv, Shape
<1>6. IInv'
  <2>1. todo' \in Seq([do : Dos, round : Rounds']) /\ race' = race
      BY <1>3 DEF DeleteRound
  <2> QED  BY <2>1, <1>3, <1>4, <1>5, InvariantAgain
<1>7. Kept
    BY <1>1, <1>2, UntouchedIsKept DEF Kept, DeleteRound, MayRebuild
<1> QED  BY <1>6, <1>7

\* A sequence without its i-th member.
CutOut(q, i) == SubSeq(q, 1, i - 1) \o SubSeq(q, i + 1, Len(q))

LEMMA CutOutFacts ==
    ASSUME NEW S, NEW q \in Seq(S), NEW i \in 1..Len(q)
    PROVE  /\ CutOut(q, i) \in Seq(S) /\ DOMAIN CutOut(q, i) = 1..Len(q) - 1
           /\ \A k \in 1..Len(q) - 1 : CutOut(q, i)[k] = IF k < i THEN q[k] ELSE q[k + 1]
<1> DEFINE n == Len(q)
           new == CutOut(q, i)
           a == SubSeq(q, 1, i - 1)
           b == SubSeq(q, i + 1, n)
<1>1. n \in Nat /\ i \in Int /\ i >= 1 /\ i <= n /\ \A k \in 1..n : q[k] \in S
    BY LenProperties, ElementOfSeq
<1>2. new = a \o b
    BY DEF CutOut
<1> HIDE DEF n, new
<1>3. a \in Seq(S) /\ Len(a) = i - 1 /\ \A k \in 1..i - 1 : a[k] = q[k]
  <2>1. \A k \in 1..i - 1 : q[k] \in S
      BY <1>1
  <2>2. /\ a \in Seq(S) /\ Len(a) = IF 1 <= i - 1 THEN i - 1 - 1 + 1 ELSE 0
        /\ \A k \in 1..i - 1 - 1 + 1 : a[k] = q[1 + k - 1]
      BY <1>1, <2>1, SubSeqProperties
  <2> HIDE DEF a
  <2> QED  BY <1>1, <2>2
<1>4. b \in Seq(S) /\ Len(b) = n - i /\ \A k \in 1..n - i : b[k] = q[i + k]
  <2>1. \A k \in i + 1..n : q[k] \in S
      BY <1>1
  <2>2. /\ b \in Seq(S) /\ Len(b) = IF i + 1 <= n THEN n - (i + 1) + 1 ELSE 0
        /\ \A k \in 1..n - (i + 1) + 1 : b[k] = q[i + 1 + k - 1]
      BY <1>1, <2>1, SubSeqProperties
  <2> HIDE DEF b
  <2> QED  BY <1>1, <2>2
<1> HIDE DEF a, b
<1>5. /\ new \in Seq(S) /\ Len(new) = Len(a) + Len(b)
      /\ \A k \in 1..Len(a) + Len(b) : new[k] = IF k <= Len(a) THEN a[k] ELSE b[k - Len(a)]
    BY <1>2, <1>3, <1>4, ConcatProperties
<1>6. DOMAIN new = 1..n - 1
    BY <1>1, <1>3, <1>4, <1>5, LenProperties
<1>7. ASSUME NEW k \in 1..n - 1 PROVE new[k] = IF k < i THEN q[k] ELSE q[k + 1]
  <2>1. new[k] = IF k <= i - 1 THEN a[k] ELSE b[k - (i - 1)]
      BY <1>1, <1>3, <1>4, <1>5
  <2>2. CASE k < i
      BY <2>1, <2>2, <1>1, <1>3
  <2>3. CASE k >= i
    <3>1. k - (i - 1) \in 1..n - i /\ i + (k - (i - 1)) = k + 1
        BY <2>3, <1>1
    <3>2. b[k - (i - 1)] = q[k + 1]
        BY <3>1, <1>4
    <3> QED  BY <3>2, <2>1, <2>3, <1>1
  <2> QED  BY <2>2, <2>3, <1>1
<1> QED  BY <1>5, <1>6, <1>7 DEF n, new

LEMMA DeleteHeatKeeps ==
    ASSUME IInv, NEW r \in Rounds, NEW i \in DOMAIN heats[r], DeleteHeat(r, i)
    PROVE  IInv' /\ Kept
<1> DEFINE hs == heats[r]
           new == CutOut(hs, i)
<1>1. hs \in Seq(Heat) /\ Settled(hs) /\ race \in Races
    BY DEF IInv, Shape
<1>2. ~IsResult(hs[i].out)
    BY <1>1, SeatFacts DEF DeleteHeat, IsResult
<1>3. i \in 1..Len(hs) /\ Len(hs) \in Nat
    BY <1>1
<1>4. /\ new \in Seq(Heat) /\ DOMAIN new = 1..Len(hs) - 1
      /\ \A k \in 1..Len(hs) - 1 : new[k] = IF k < i THEN hs[k] ELSE hs[k + 1]
    BY <1>1, <1>3, CutOutFacts
<1>5. heats' = [heats EXCEPT ![r] = new]
    BY DEF DeleteHeat, CutOut
<1> HIDE DEF new
<1>6. ASSUME NEW k \in DOMAIN new PROVE \E j \in DOMAIN hs : new[k] = hs[j]
  <2>1. k \in DOMAIN hs /\ (k >= i => k + 1 \in DOMAIN hs)
      BY <1>1, <1>3, <1>4
  <2> QED  BY <2>1, <1>3, <1>4
<1>7. Settled(new)
    BY <1>1, <1>6 DEF Settled
<1>8. ASSUME NEW j \in DOMAIN hs, IsResult(hs[j].out) PROVE hs[j] \in Range(new)
  <2>1. j # i /\ j \in 1..Len(hs)
      BY <1>1, <1>2, <1>8
  <2>2. CASE j < i
    <3>1. j \in DOMAIN new /\ new[j] = hs[j]
        BY <2>1, <2>2, <1>3, <1>4
    <3> QED  BY <3>1 DEF Range
  <2>3. CASE j > i
    <3>1. j - 1 \in DOMAIN new /\ new[j - 1] = hs[j]
        BY <2>1, <2>3, <1>3, <1>4
    <3> QED  BY <3>1 DEF Range
  <2> QED  BY <2>1, <2>2, <2>3, <1>3
<1>9. Succeeds(new, hs)
    BY <1>4, <1>7, <1>8 DEF Succeeds, Keeps
<1>10. todo' \in Seq(Request) /\ Scalars'
    BY NothingMore, SettingsStand DEF DeleteHeat, settings, IInv
<1> QED  BY <1>5, <1>9, <1>10, OneRoundChanges DEF DeleteHeat

LEMMA RegenerateKeeps ==
    ASSUME IInv, NEW r \in Rounds, RegenerateRound(r) PROVE IInv' /\ Kept
<1> DEFINE new == IF IsFed(r) THEN SlotsRebuilt(heats[r]) ELSE RosterRebuilt(heats[r])
<1>1. Succeeds(new, heats[r])
    BY RedrawnSucceeds DEF RegenerateRound
<1>2. heats' = [heats EXCEPT ![r] = new]
    BY DEF RegenerateRound
<1>3. todo' \in Seq(Request)
    BY AskedToFill DEF RegenerateRound, Request
<1>4. Scalars'
    BY SettingsStand DEF RegenerateRound, settings, IInv
<1> QED  BY <1>1, <1>2, <1>3, <1>4, OneRoundChanges DEF RegenerateRound

LEMMA PinKeeps ==
    ASSUME IInv, NEW r \in Rounds, NEW picks \in Picks, PinRoundField(r, picks)
    PROVE  IInv' /\ Kept
<1> DEFINE hs == heats[r]
           slots == ResetToSlots(hs, Len(picks))
           new == Populated(slots, picks)
<1>1. World /\ hs \in Seq(Heat) /\ MayRebuild(hs)
    BY InvariantIsWorld DEF IInv, Shape, PinRoundField
<1>2. picks \in Seq(Racers) /\ Len(picks) = 2
  <2> DEFINE n == 2
  <2>1. n \in Nat /\ picks \in [1..n -> Racers]
      BY DEF Picks
  <2> HIDE DEF n
  <2>2. picks \in Seq(Racers) /\ Len(picks) = n
      BY <2>1
  <2> QED  BY <2>2 DEF n
<1>3. Len(picks) \in 1..race.size + Cardinality(Racers)
    BY <1>1, <1>2, RacersAssumption, RaceFacts, SeatFacts DEF World
<1>4. Succeeds(slots, hs)
    BY <1>1, <1>3, ResetSucceeds
<1> HIDE DEF slots
<1>5. Succeeds(new, slots)
    BY <1>1, <1>2, <1>4, PopulatedSucceeds DEF Succeeds
<1>6. Succeeds(new, hs)
    BY <1>1, <1>5 DEF Succeeds, Keeps, MayRebuild
<1>7. heats' = [heats EXCEPT ![r] = new]
    BY DEF PinRoundField, slots
<1>8. todo' \in Seq(Request)
    BY NothingMore DEF PinRoundField
<1>9. Scalars'
    BY DEF PinRoundField, IInv, Scalars, Rounds, IsFed
<1> QED  BY <1>6, <1>7, <1>8, <1>9, OneRoundChanges DEF PinRoundField

LEMMA UnpinKeeps == ASSUME IInv, NEW r \in Rounds, UnpinRoundField(r) PROVE IInv' /\ Kept
<1>1. <<>> \in Seq(Request) /\ <<Step("reset", r), Step("fill", r)>> \in Seq(Request)
    BY DEF Step, Request, Dos
<1>2. todo' \in Seq(Request)
    BY <1>1 DEF UnpinRoundField
<1>3. Scalars'
    BY DEF UnpinRoundField, IInv, Scalars, Rounds, IsFed
<1> QED  BY <1>2, <1>3, NoRoundChanges DEF UnpinRoundField

LEMMA AdvanceRoundKeeps ==
    ASSUME IInv, NEW r \in Rounds, AdvanceRound(r) PROVE IInv' /\ Kept
<1>1. Succeeds(Populated(heats[r], Winners(source[r])), heats[r])
    BY FillingSucceeds
<1>2. heats' = [heats EXCEPT ![r] = Populated(heats[r], Winners(source[r]))]
    BY DEF AdvanceRound
<1>3. todo' \in Seq(Request) /\ Scalars'
    BY NothingMore, SettingsStand DEF AdvanceRound, settings, IInv
<1> QED  BY <1>1, <1>2, <1>3, OneRoundChanges DEF AdvanceRound

-----------------------------------------------------------------------------
(* Every step.                                                             *)

LEMMA InitHolds == Init => IInv
<1> SUFFICES ASSUME Init PROVE IInv
    OBVIOUS
<1> DEFINE N == Len(Plan)
<1>1. N \in Nat /\ DOMAIN Plan = 1..N /\ \A n \in 1..N : Plan[n] \in Int /\ Plan[n] >= General
    BY PlanAssumption DEF General
<1> HIDE DEF N
<1>2. Rounds = 1..N /\ source \in [1..N -> Int] /\ \A n \in 1..N : source[n] >= General
    BY <1>1 DEF Init, Rounds
<1>3. race \in Races /\ race.rounds \in Nat /\ race.present \subseteq Racers
    BY RaceFacts DEF Init
<1>4. usable = 1..Width /\ 1..Width # {}
  <2>1. 1 \in 1..Width
      BY WidthAssumption
  <2> QED  BY <2>1 DEF Init
<1>5. Scalars
  <2>1. 1..N \subseteq 1..(IF race.rounds > N THEN race.rounds ELSE N)
      BY <1>1, <1>3
  <2>2. Rounds \subseteq 1..(IF race.rounds > Len(Plan) THEN race.rounds ELSE Len(Plan))
      BY <2>1, <1>2 DEF N
  <2> QED  BY <2>2, <1>2, <1>3, <1>4 DEF Init, Scalars
<1>6. World
    BY <1>3, <1>5 DEF World, Scalars
<1>7. Roster \in Seq(Seats) /\ Slots(race.size) \in Seq(Seats)
  <2>1. race.size \in 1..race.size + Cardinality(Racers)
      BY <1>6, SeatFacts, RaceFacts DEF World
  <2> QED  BY <2>1, <1>6, AscendingRacers, SlotsAreSeats DEF Roster, World
<1>8. <<>> \in Seq(Heat) /\ 1 \in Nat \ {0} /\ race.runs \in Nat \ {0} /\ MayRebuild(<<>>)
    BY <1>6, RaceFacts DEF World, MayRebuild
<1>9. Fresh(RosterRebuilt(<<>>)) /\ Fresh(SlotsRebuilt(<<>>))
    BY <1>6, <1>7, <1>8, RebuiltIsFresh DEF RosterRebuilt, SlotsRebuilt
<1>10. Succeeds(RosterRebuilt(<<>>), <<>>) /\ Succeeds(SlotsRebuilt(<<>>), <<>>)
    BY <1>3, <1>8, <1>9, FreshSucceeds
<1>11. heats \in [1..N -> Seq(Heat)] /\ \A n \in 1..N : Settled(heats[n])
    BY <1>1, <1>10 DEF Init, Succeeds
<1>12. Shape
    BY <1>2, <1>3, <1>11 DEF Shape, Init
<1> QED  BY <1>2, <1>5, <1>11, <1>12 DEF IInv

\* Whatever happens to a race, the heats that were raced stand, or one of them
\* is being recorded again.
LEMMA StepsKeep ==
    ASSUME IInv, [Next]_vars
    PROVE  /\ IInv'
           /\ \A r \in Rounds : \A i \in DOMAIN heats[r] :
                 IsResult(heats[r][i].out) =>
                   \/ r \in Rounds' /\ heats[r][i] \in Range(heats'[r])
                   \/ \E out \in Outcomes : RecordHeatResult(r, i, out)
<1> DEFINE Stands == \A r \in Rounds : \A i \in DOMAIN heats[r] :
                        IsResult(heats[r][i].out) =>
                          \/ r \in Rounds' /\ heats[r][i] \in Range(heats'[r])
                          \/ \E out \in Outcomes : RecordHeatResult(r, i, out)
<1>1. Kept => Stands
    BY DEF Kept
<1> HIDE DEF Stands
<1>2. ASSUME Settle PROVE IInv' /\ Stands
    BY <1>1, <1>2, SettleKeeps
<1>3. ASSUME Crash PROVE IInv' /\ Stands
    BY <1>1, <1>3, CrashKeeps
<1>4. ASSUME NEW r \in Rounds, RoundRequest(r) PROVE IInv' /\ Stands
  <2>1. ASSUME NEW i \in DOMAIN heats[r], NEW out \in {NotRun, Skipped, Partial} \cup Racers,
               RecordHeatResult(r, i, out)
        PROVE  IInv' /\ Stands
    <3>1. out \in Outcomes
        BY DEF Outcomes
    <3> QED  BY <2>1, <3>1, RecordingKeeps DEF Stands
  <2>2. ASSUME NEW i \in DOMAIN heats[r], DeleteHeat(r, i) PROVE IInv' /\ Stands
      BY <1>1, <2>2, DeleteHeatKeeps
  <2>3. ASSUME NEW picks \in Picks, PinRoundField(r, picks) PROVE IInv' /\ Stands
      BY <1>1, <2>3, PinKeeps
  <2>4. ASSUME DeleteRound(r) PROVE IInv' /\ Stands
      BY <1>1, <2>4, DeleteRoundKeeps
  <2>5. ASSUME RegenerateRound(r) PROVE IInv' /\ Stands
      BY <1>1, <2>5, RegenerateKeeps
  <2>6. ASSUME UnpinRoundField(r) PROVE IInv' /\ Stands
      BY <1>1, <2>6, UnpinKeeps
  <2>7. ASSUME AdvanceRound(r) PROVE IInv' /\ Stands
      BY <1>1, <2>7, AdvanceRoundKeeps
  <2> QED  BY <1>4, <2>1, <2>2, <2>3, <2>4, <2>5, <2>6, <2>7 DEF RoundRequest
<1>5. ASSUME NEW q \in race.movers, CheckIn(q) \/ SetExcluded(q) PROVE IInv' /\ Stands
    BY <1>1, <1>5, CheckInKeeps, SetExcludedKeeps
<1>6. ASSUME NEW s \in race.offered, CreateRound(s) PROVE IInv' /\ Stands
    BY <1>1, <1>6, CreateRoundKeeps
<1>7. ASSUME RecordRunOff PROVE IInv' /\ Stands
    BY <1>1, <1>7, RunOffKeeps
<1>8. ASSUME NEW lanes \in (SUBSET (1..Width)) \ {{}}, SetLaneOutages(lanes)
      PROVE  IInv' /\ Stands
    BY <1>1, <1>8, OutagesKeep
<1>9. ASSUME UNCHANGED vars PROVE IInv' /\ Stands
  <2>1. todo' \in Seq(Request) /\ Scalars'
      BY <1>9, NothingMore, SettingsStand DEF vars, settings, IInv
  <2> QED  BY <1>1, <1>9, <2>1, NoRoundChanges DEF vars
<1>10. IInv' /\ Stands
    BY <1>2, <1>3, <1>4, <1>5, <1>6, <1>7, <1>8, <1>9, <1>1 DEF Next
<1> QED  BY <1>10 DEF Stands

\* The inductive invariant: what is in the tables has the shape the code gives
\* it, and a heat that waits for a racer has not been raced.
THEOREM Invariant == Spec => []IInv
<1>1. Init => IInv
    BY InitHolds
<1>2. IInv /\ [Next]_vars => IInv'
    BY StepsKeep
<1> QED  BY <1>1, <1>2, PTL DEF Spec

\* Every variable holds what the tables can hold: a round that is drawn, reset,
\* filled, relaned or added to seats racers and slots there are, on lanes there
\* are, and a request never has a step left for a round that is gone.
THEOREM TypeCorrect == Spec => []TypeOK
<1>1. IInv => TypeOK
    BY ShapeIsTyped DEF IInv
<1> QED  BY <1>1, Invariant, PTL

\* A heat that was raced is only ever changed by recording it again, in any
\* sequence of results, withdrawals, outages, redraws, deletions and crashes.
THEOREM RacedHeatsAreKept == Spec => RacedHeatsStand
<1> DEFINE Stands == \A r \in Rounds : \A i \in DOMAIN heats[r] :
                        IsResult(heats[r][i].out) =>
                          \/ r \in Rounds' /\ heats[r][i] \in Range(heats'[r])
                          \/ \E out \in Outcomes : RecordHeatResult(r, i, out)
<1>1. IInv /\ [Next]_vars => [Stands]_vars
    BY StepsKeep
<1> QED  BY <1>1, Invariant, PTL DEF Spec, RacedHeatsStand

-----------------------------------------------------------------------------
(* The rotation: who is drawn where.                                       *)

\* Two numbers that leave the same remainder, and are nearer each other than
\* the divisor, are one.
LEMMA SameRemainder ==
    ASSUME NEW a \in Int, NEW b \in Int, NEW m \in Nat \ {0},
           a % m = b % m, a - b < m, b - a < m
    PROVE  a = b
<1>1. PICK p \in Int : a = m * p + (a % m)
    BY Remainder
<1>2. PICK q \in Int : b = m * q + (b % m)
    BY Remainder
<1> DEFINE d == p - q
<1>3. d \in Int /\ a - b = m * d
  <2>1. a % m \in Int
      BY Remainder
  <2> QED  BY <2>1, <1>1, <1>2
<1> HIDE DEF d
<1>4. d < 1
  <2> SUFFICES ASSUME d >= 1 PROVE FALSE
      BY <1>3
  <2>1. m * d >= m
      BY <1>3
  <2> QED  BY <2>1, <1>3
<1>5. d > -1
  <2> SUFFICES ASSUME d <= -1 PROVE FALSE
      BY <1>3
  <2>1. m * d <= -m
      BY <1>3
  <2> QED  BY <2>1, <1>3
<1>6. d = 0
    BY <1>3, <1>4, <1>5
<1> QED  BY <1>3, <1>6

\* A number below the divisor is its own remainder.
LEMMA SmallRemainder ==
    ASSUME NEW m \in Nat \ {0}, NEW a \in 0..m-1
    PROVE  a % m = a
<1> DEFINE r == a % m
<1>1. a \in Int
    OBVIOUS
<1>2. r \in 0..m-1 /\ \E q \in Int : a = m * q + r
    BY <1>1, Remainder
<1> HIDE DEF r
<1>3. PICK q \in Int : a = m * q + r
    BY <1>2
<1>4. q < 1
  <2> SUFFICES ASSUME q >= 1 PROVE FALSE
      OBVIOUS
  <2>1. m * q >= m
      OBVIOUS
  <2> QED  BY <2>1, <1>2, <1>3
<1>5. q > -1
  <2> SUFFICES ASSUME q <= -1 PROVE FALSE
      OBVIOUS
  <2>1. m * q <= -m
      OBVIOUS
  <2> QED  BY <2>1, <1>2, <1>3
<1>6. a = r
    BY <1>2, <1>3, <1>4, <1>5
<1> QED  BY <1>6 DEF r

\* What is left when a remainder is taken away from a number is a multiple.
LEMMA RemainderOfRest ==
    ASSUME NEW m \in Nat \ {0}, NEW a \in Int, NEW c \in 0..m-1
    PROVE  (a - ((a - c) % m)) % m = c
<1> DEFINE b == a - c
           r == b % m
           x == a - r
<1>1. b \in Int /\ c \in Int
    OBVIOUS
<1> HIDE DEF b
<1>2. r \in 0..m-1 /\ \E q \in Int : b = m * q + r
    BY <1>1, Remainder
<1> HIDE DEF r
<1>3. PICK q \in Int : a - c = m * q + r
    BY <1>2 DEF b
<1>4. x \in Int /\ x = m * q + c
    BY <1>2, <1>3
<1> HIDE DEF x
<1>5. x % m \in 0..m-1
    BY <1>4, Remainder
<1>6. PICK p \in Int : x = m * p + (x % m)
    BY <1>4, Remainder
<1> DEFINE d == p - q
           e == x % m
<1>7. d \in Int /\ e \in Int /\ e = c - m * d
    BY <1>4, <1>5, <1>6
<1>8. e \in 0..m-1
    BY <1>5
<1> HIDE DEF d, e
<1>9. d = 0
  <2>1. CASE d >= 1
    <3>1. m * d >= m
        BY <2>1, <1>7
    <3> QED  BY <3>1, <1>7, <1>8
  <2>2. CASE d <= -1
    <3>1. m * d <= -m
        BY <2>2, <1>7
    <3> QED  BY <3>1, <1>7, <1>8
  <2> QED  BY <2>1, <2>2, <1>7
<1>20. e = c
    BY <1>7, <1>9
<1> QED  BY <1>20 DEF e, x, r, b

\* The lanes in service are ranked from the left.
Left(l) == Cardinality({m \in usable : m < l})

LEMMA LanesRank ==
    ASSUME usable \subseteq 1..Width, usable # {}
    PROVE  /\ Cardinality(usable) \in Nat \ {0}
           /\ \A l \in usable : Left(l) \in 0..Cardinality(usable)-1
           /\ \A l, k \in usable : Left(l) = Left(k) => l = k
           /\ \A c \in 0..Cardinality(usable)-1 : \E l \in usable : Left(l) = c
<1> DEFINE Below == [x \in usable |-> {y \in usable : y < x}]
           n == Cardinality(usable)
<1>1. IsFiniteSet(usable) /\ n \in Nat \ {0} /\ usable \in SUBSET Int
    BY LanesInService
<1>2. Ranks(usable, Below) /\ \A l \in usable : Cardinality(Below[l]) = Left(l)
    BY <1>1, NumbersRank DEF Left
<1> HIDE DEF Below
<1>3. /\ \A l \in usable : Left(l) \in 0..n-1
      /\ \A l, k \in usable : Left(l) = Left(k) => l = k
    BY <1>1, <1>2, RanksAreApart
<1>4. \A k \in 1..n : \E l \in usable : HasRank(l, k, Below)
    BY <1>1, <1>2, EveryRankIsTaken
<1>5. ASSUME NEW c \in 0..n-1 PROVE \E l \in usable : Left(l) = c
  <2>1. c + 1 \in 1..n
      BY <1>1
  <2>2. PICK l \in usable : HasRank(l, c + 1, Below)
      BY <2>1, <1>4
  <2>3. Left(l) = c + 1 - 1
      BY <2>2, <1>2 DEF HasRank
  <2> QED  BY <2>3, <2>1
<1> QED  BY <1>1, <1>3, <1>5

\* The place of the circle that lane l takes in heat i of a field of n.
Turn(n, i, l) == (i - 1 - Left(l)) % Larger(n, Cardinality(usable))

\* No two lanes take the same place; where the lanes outnumber the field every
\* place is taken, and otherwise every lane takes one.
LEMMA TurnFacts ==
    ASSUME usable \subseteq 1..Width, usable # {}, NEW n \in Nat, NEW i \in Nat
    PROVE  /\ \A l \in usable : Turn(n, i, l) \in 0..Larger(n, Cardinality(usable))-1
           /\ \A l, k \in usable : Turn(n, i, l) = Turn(n, i, k) => l = k
           /\ n <= Cardinality(usable) =>
                \A c \in 0..n-1 : \E l \in usable : Turn(n, i, l) = c
           /\ i \in 1..n => \E l \in usable : Turn(n, i, l) = i - 1
<1> DEFINE u == Cardinality(usable)
           m == Larger(n, u)
<1>1. u \in Nat \ {0} /\ m \in Nat \ {0} /\ m >= u /\ m >= n /\ (n <= u => m = u)
    BY LanesRank DEF Larger
<1>2. \A l \in usable : Left(l) \in 0..u-1
    BY LanesRank
<1>3. \A l \in usable : Turn(n, i, l) = (i - 1 - Left(l)) % m
    BY DEF Turn
<1> HIDE DEF u, m
<1>4. ASSUME NEW l \in usable PROVE Turn(n, i, l) \in 0..m-1
  <2>1. i - 1 - Left(l) \in Int
      BY <1>2
  <2> DEFINE a == i - 1 - Left(l)
  <2> HIDE DEF a
  <2>2. a % m \in 0..m-1
      BY <2>1, <1>1, Remainder DEF a
  <2> QED  BY <2>2, <1>3 DEF a
<1>5. ASSUME NEW l \in usable, NEW k \in usable, Turn(n, i, l) = Turn(n, i, k) PROVE l = k
  <2> DEFINE a == i - 1 - Left(l)
             b == i - 1 - Left(k)
  <2>1. a \in Int /\ b \in Int /\ a - b < m /\ b - a < m /\ (a = b => Left(l) = Left(k))
      BY <1>1, <1>2
  <2>2. a % m = b % m
      BY <1>3, <1>5
  <2> HIDE DEF a, b
  <2>3. a = b
      BY <2>1, <2>2, <1>1, SameRemainder
  <2> QED  BY <2>1, <2>3, LanesRank
<1>6. ASSUME n <= u, NEW c \in 0..n-1 PROVE \E l \in usable : Turn(n, i, l) = c
  <2> DEFINE a == i - 1
             k == (a - c) % m
  <2>1. a \in Int /\ c \in 0..m-1 /\ m = u
      BY <1>1, <1>6
  <2> HIDE DEF a
  <2>2. k \in 0..u-1
      BY <2>1, <1>1, Remainder
  <2>3. (a - k) % m = c
      BY <2>1, <1>1, RemainderOfRest
  <2> HIDE DEF k
  <2>4. PICK l \in usable : Left(l) = k
      BY <2>2, LanesRank DEF u
  <2>5. Turn(n, i, l) = (a - k) % m
      BY <2>4, <1>3 DEF a
  <2> QED  BY <2>3, <2>5
<1>7. ASSUME i \in 1..n PROVE \E l \in usable : Turn(n, i, l) = i - 1
  <2>1. PICK l \in usable : Left(l) = 0
    <3>1. 0 \in 0..u-1
        BY <1>1
    <3> QED  BY <3>1, LanesRank DEF u
  <2>2. i - 1 \in 0..m-1
      BY <1>1, <1>7
  <2>3. (i - 1) % m = i - 1
      BY <2>2, <1>1, SmallRemainder
  <2>4. i - 1 - Left(l) = i - 1
      BY <2>1
  <2> QED  BY <2>3, <2>4, <1>3
<1> QED  BY <1>4, <1>5, <1>6, <1>7 DEF m, u

\* Who a heat of the rotation seats on a lane.
LEMMA RotationSeats ==
    ASSUME NEW participants, NEW others, NEW i
    PROVE  LET n == Len(participants) IN
           /\ DOMAIN RotationHeat(participants, others, i).lanes = usable
           /\ \A l \in usable :
                RotationHeat(participants, others, i).lanes[l] =
                    IF Turn(n, i, l) < n THEN participants[Turn(n, i, l) + 1]
                    ELSE IF Turn(n, i, l) - n < Len(others)
                         THEN others[((i + Turn(n, i, l) - n) % Len(others)) + 1]
                         ELSE Nobody
BY DEF RotationHeat, Turn, Left

-----------------------------------------------------------------------------
(* What a round may look like.                                             *)

\* Nobody is in a heat twice.
Distinct(h) ==
    \A j, k \in DOMAIN h.lanes : h.lanes[j] = h.lanes[k] /\ h.lanes[j] # Nobody => j = k

\* A round without slots, and one that has nothing else, in every heat.
Fielded(hs) == \A i \in DOMAIN hs : ~HasSlot(hs[i])
Waiting(hs) == \A i \in DOMAIN hs : HasSlot(hs[i]) /\ Range(hs[i].lanes) \cap Racers = {}

Sound(hs) == (\A i \in DOMAIN hs : Distinct(hs[i])) /\ (Fielded(hs) \/ Waiting(hs))

\* Its slots are the first ones: as many as advance fill them all.
Numbered(hs) == \A x \in OpenSlots(hs) : -x <= Cardinality(OpenSlots(hs))

\* A heat with slots has every slot.
FullHeat(h) ==
    HasSlot(h) => /\ \A k \in 1..race.size : -k \in Range(h.lanes)
                  /\ \A x \in Range(h.lanes) : -x <= race.size
Full(hs) == \A i \in DOMAIN hs : FullHeat(hs[i])

\* No two members of a sequence are the same.
Apart(q) == \A j, k \in 1..Len(q) : q[j] = q[k] => j = k

\* The lanes of a heat.
LEMMA LanesOfHeat ==
    ASSUME NEW h \in Heat
    PROVE  /\ \E D \in SUBSET (1..Width) : h.lanes \in [D -> Lanes]
           /\ Range(h.lanes) = {h.lanes[l] : l \in DOMAIN h.lanes}
           /\ Range(h.lanes) \subseteq Lanes
<1>1. PICK D \in SUBSET (1..Width) : h.lanes \in [D -> Lanes]
    BY DEF Heat
<1> QED  BY <1>1 DEF Range

\* The places and slots of a round, lane by lane.
LEMMA SeatedFacts ==
    ASSUME race \in Races, NEW hs \in Seq(Heat)
    PROVE  /\ OpenSlots(hs) \subseteq Int
           /\ \A x : x \in OpenSlots(hs) <=> x < 0 /\ \E i \in DOMAIN hs : x \in Range(hs[i].lanes)
           /\ \A q : q \in Field(hs) <=> q \in Racers /\ \E i \in DOMAIN hs : q \in Range(hs[i].lanes)
           /\ \A i \in DOMAIN hs : HasSlot(hs[i]) <=> \E x \in Range(hs[i].lanes) : x < 0
           /\ IsFiniteSet(OpenSlots(hs)) /\ Cardinality(OpenSlots(hs)) \in Nat
<1>1. \A x : x \in UNION {Range(hs[i].lanes) : i \in DOMAIN hs}
                 <=> \E i \in DOMAIN hs : x \in Range(hs[i].lanes)
    OBVIOUS
<1>2. /\ Participants(hs) \subseteq Seats /\ IsFiniteSet(Participants(hs))
    BY ParticipantFacts
<1>3. OpenSlots(hs) \subseteq Participants(hs) /\ Seats \subseteq Int
    BY SeatFacts DEF OpenSlots
<1>4. \A q \in Racers : q # Nobody
    BY RacersAssumption DEF Nobody
<1>5. \A x : x \in OpenSlots(hs) <=> x < 0 /\ \E i \in DOMAIN hs : x \in Range(hs[i].lanes)
  <2>1. ~(Nobody < 0)
      BY DEF Nobody
  <2> QED  BY <1>1, <2>1 DEF OpenSlots, Participants
<1>6. \A q : q \in Field(hs) <=> q \in Racers /\ \E i \in DOMAIN hs : q \in Range(hs[i].lanes)
    BY <1>1, <1>4 DEF Field, Participants
<1>7. \A i \in DOMAIN hs : HasSlot(hs[i]) <=> \E x \in Range(hs[i].lanes) : x < 0
    BY DEF HasSlot, Range
<1>8. IsFiniteSet(OpenSlots(hs)) /\ Cardinality(OpenSlots(hs)) \in Nat
    BY <1>2, <1>3, FS_Subset, FS_CardinalityType
<1> QED  BY <1>2, <1>3, <1>5, <1>6, <1>7, <1>8

\* A round without slots is numbered and full.
LEMMA FieldedFacts ==
    ASSUME race \in Races, NEW hs \in Seq(Heat), Fielded(hs)
    PROVE  OpenSlots(hs) = {} /\ Numbered(hs) /\ Full(hs)
<1>1. OpenSlots(hs) = {}
    BY SeatedFacts DEF Fielded
<1> QED  BY <1>1 DEF Numbered, Full, FullHeat, Fielded

\* One that waits has nobody in it, and has not been raced.
LEMMA WaitingFacts ==
    ASSUME race \in Races, NEW hs \in Seq(Heat), Waiting(hs)
    PROVE  Field(hs) = {} /\ (Settled(hs) => MayRebuild(hs))
<1>1. Field(hs) = {}
    BY SeatedFacts DEF Waiting
<1>2. Settled(hs) => MayRebuild(hs)
    BY DEF Settled, Waiting, MayRebuild
<1> QED  BY <1>1, <1>2

LEMMA FullIsNumbered ==
    ASSUME race \in Races, NEW hs \in Seq(Heat), Full(hs)
    PROVE  Numbered(hs)
<1> DEFINE S == OpenSlots(hs)
           n == race.size
<1>1. n \in Nat /\ S \subseteq Int /\ IsFiniteSet(S)
    BY RaceFacts, SeatedFacts
<1> SUFFICES ASSUME NEW x \in S PROVE -x <= Cardinality(S)
    BY DEF Numbered
<1>2. PICK i \in DOMAIN hs : x \in Range(hs[i].lanes) /\ x < 0
    BY SeatedFacts
<1>3. FullHeat(hs[i]) /\ HasSlot(hs[i])
    BY <1>2, SeatedFacts DEF Full
<1>4. -x <= n /\ \A k \in 1..n : -k \in Range(hs[i].lanes)
    BY <1>2, <1>3 DEF FullHeat
<1>5. \A k \in 1..n : -k \in S
    BY <1>1, <1>4, SeatedFacts
<1>6. Cardinality(S) >= n
  <2> HIDE DEF S, n
  <2> DEFINE T == (-n)..(-1)
  <2>1. -n \in Int /\ -1 \in Int
      BY <1>1
  <2>2. IsFiniteSet(T) /\ Cardinality(T) = IF -n > -1 THEN 0 ELSE -1 - (-n) + 1
      BY <2>1, FS_Interval
  <2>3. Cardinality(T) = n
      BY <1>1, <2>2
  <2>4. ASSUME NEW y \in T PROVE y \in S
    <3>1. -y \in 1..n /\ -(-y) = y
        BY <1>1
    <3> QED  BY <3>1, <1>5
  <2> HIDE DEF T
  <2>5. T \in SUBSET S
      BY <2>4
  <2>6. Cardinality(T) <= Cardinality(S)
      BY <2>5, <1>1, FS_Subset
  <2> QED  BY <2>3, <2>6
<1>7. Cardinality(S) \in Nat
    BY <1>1, FS_CardinalityType
<1> HIDE DEF S, n
<1> QED  BY <1>1, <1>4, <1>6, <1>7

\* The places that others take when there are places to spare.
Spare(n, o, i, l) == (i + Turn(n, i, l) - n) % o

LEMMA SpareFacts ==
    ASSUME World, NEW n \in Nat, NEW o \in Nat, NEW i \in Nat, NEW l \in usable,
           Turn(n, i, l) >= n, Turn(n, i, l) - n < o
    PROVE  /\ Spare(n, o, i, l) \in 0..o-1
           /\ \A k \in usable :
                Turn(n, i, k) >= n /\ Turn(n, i, k) - n < o /\ Spare(n, o, i, k) = Spare(n, o, i, l)
                => k = l
<1> DEFINE m == Larger(n, Cardinality(usable))
           b == [k \in usable |-> i + Turn(n, i, k) - n]
<1>1. m \in Nat \ {0}
    BY LanesRank DEF World, Larger
<1>2. \A k \in usable : Turn(n, i, k) \in 0..m-1
    BY TurnFacts DEF World
<1>3. \A k \in usable : Turn(n, i, k) \in Nat
    BY <1>1, <1>2
<1>4. o \in Nat \ {0} /\ \A k \in usable : b[k] \in Int /\ Spare(n, o, i, k) = b[k] % o
    BY <1>3 DEF Spare
<1>5. b[l] % o \in 0..o-1
    BY <1>4, Remainder
<1>6. ASSUME NEW k \in usable, Turn(n, i, k) >= n, Turn(n, i, k) - n < o,
             Spare(n, o, i, k) = Spare(n, o, i, l)
      PROVE  k = l
  <2>1. b[k] - b[l] < o /\ b[l] - b[k] < o /\ (b[k] = b[l] => Turn(n, i, k) = Turn(n, i, l))
    <3> DEFINE tk == Turn(n, i, k)
               tl == Turn(n, i, l)
    <3>1. b[k] = i + tk - n /\ b[l] = i + tl - n
        OBVIOUS
    <3>2. tk \in Nat /\ tl \in Nat /\ tk >= n /\ tl >= n /\ tk - n < o /\ tl - n < o
        BY <1>3, <1>6
    <3> HIDE DEF b, tk, tl
    <3>3. b[k] - b[l] < o /\ b[l] - b[k] < o /\ (b[k] = b[l] => tk = tl)
        BY <3>1, <3>2
    <3> QED  BY <3>3 DEF tk, tl
  <2>2. b[k] % o = b[l] % o
      BY <1>4, <1>6
  <2> HIDE DEF b
  <2>3. b[k] = b[l]
      BY <2>1, <2>2, <1>4, SameRemainder
  <2> QED  BY <2>1, <2>3, TurnFacts DEF World
<1> QED  BY <1>4, <1>5, <1>6

\* A lane of the rotation: a participant's, one of the others', or nobody's.
LEMMA LaneOfRotation ==
    ASSUME World, NEW participants \in Seq(Seats), NEW others \in Seq(Seats), NEW i \in Nat,
           NEW l \in usable
    PROVE  LET n == Len(participants)
               o == Len(others)
               seated == RotationHeat(participants, others, i).lanes[l]
           IN  \/ /\ Turn(n, i, l) < n /\ Turn(n, i, l) + 1 \in 1..n
                  /\ seated = participants[Turn(n, i, l) + 1]
               \/ /\ Turn(n, i, l) >= n /\ Turn(n, i, l) - n < o
                  /\ Spare(n, o, i, l) + 1 \in 1..o
                  /\ seated = others[Spare(n, o, i, l) + 1]
               \/ seated = Nobody
<1> DEFINE n == Len(participants)
           o == Len(others)
           m == Larger(n, Cardinality(usable))
           seated == RotationHeat(participants, others, i).lanes[l]
<1>1. n \in Nat /\ o \in Nat /\ m \in Nat \ {0}
    BY LanesRank DEF World, Larger
<1>2. Turn(n, i, l) \in 0..m-1
    BY <1>1, TurnFacts DEF World
<1>3. Turn(n, i, l) \in Nat
    BY <1>1, <1>2
<1>4. seated = IF Turn(n, i, l) < n THEN participants[Turn(n, i, l) + 1]
               ELSE IF Turn(n, i, l) - n < o THEN others[Spare(n, o, i, l) + 1] ELSE Nobody
    BY RotationSeats DEF Spare
<1> HIDE DEF n, o, seated
<1>5. CASE Turn(n, i, l) < n
  <2>1. Turn(n, i, l) + 1 \in 1..n
      BY <1>1, <1>3, <1>5
  <2> QED  BY <2>1, <1>4, <1>5 DEF n, seated
<1>6. CASE Turn(n, i, l) >= n /\ Turn(n, i, l) - n < o
  <2>1. Spare(n, o, i, l) \in 0..o-1
      BY <1>1, <1>6, SpareFacts
  <2>2. Spare(n, o, i, l) + 1 \in 1..o
      BY <2>1, <1>1
  <2>3. seated = others[Spare(n, o, i, l) + 1]
      BY <1>1, <1>3, <1>4, <1>6
  <2> QED  BY <2>2, <2>3, <1>6 DEF n, o, seated
<1>7. CASE Turn(n, i, l) >= n /\ Turn(n, i, l) - n >= o
  <2>1. seated = Nobody
      BY <1>1, <1>3, <1>4, <1>7
  <2> QED  BY <2>1 DEF seated
<1> QED  BY <1>1, <1>3, <1>5, <1>6, <1>7

\* Participants and others who are all different are seated once.
LEMMA RotationIsDistinct ==
    ASSUME World, NEW participants \in Seq(Seats), NEW others \in Seq(Seats), NEW i \in Nat,
           Apart(participants), Apart(others),
           \A j \in 1..Len(participants), k \in 1..Len(others) : participants[j] # others[k]
    PROVE  Distinct(RotationHeat(participants, others, i))
<1> DEFINE n == Len(participants)
           o == Len(others)
           L == RotationHeat(participants, others, i).lanes
           First(l) == Turn(n, i, l) < n /\ Turn(n, i, l) + 1 \in 1..n
                       /\ L[l] = participants[Turn(n, i, l) + 1]
           Second(l) == Turn(n, i, l) >= n /\ Turn(n, i, l) - n < o
                        /\ Spare(n, o, i, l) + 1 \in 1..o
                        /\ L[l] = others[Spare(n, o, i, l) + 1]
<1>1. n \in Nat /\ o \in Nat /\ DOMAIN L = usable
    BY RotationSeats
<1>2. \A l \in usable : L[l] = Nobody \/ First(l) \/ Second(l)
    BY LaneOfRotation
<1>3. \A l, k \in usable : Turn(n, i, l) = Turn(n, i, k) => l = k
    BY <1>1, TurnFacts DEF World
<1>4. \A l \in usable : Turn(n, i, l) \in Int
  <2>1. Larger(n, Cardinality(usable)) \in Nat
      BY <1>1, LanesRank DEF World, Larger
  <2> QED  BY <2>1, <1>1, TurnFacts DEF World
<1> HIDE DEF L
<1>5. ASSUME NEW l \in usable, NEW k \in usable, L[l] = L[k], First(l), First(k) PROVE l = k
  <2>1. Turn(n, i, l) + 1 = Turn(n, i, k) + 1
      BY <1>5 DEF Apart
  <2>2. Turn(n, i, l) = Turn(n, i, k)
      BY <2>1, <1>4
  <2> QED  BY <2>2, <1>3
<1>6. ASSUME NEW l \in usable, NEW k \in usable, L[l] = L[k], Second(l), Second(k) PROVE l = k
  <2>1. Spare(n, o, i, l) + 1 = Spare(n, o, i, k) + 1
      BY <1>6 DEF Apart
  <2>2. Spare(n, o, i, l) \in 0..o-1 /\ Spare(n, o, i, k) \in 0..o-1
      BY <1>1, <1>6, SpareFacts
  <2>3. Spare(n, o, i, l) = Spare(n, o, i, k)
      BY <2>1, <2>2, <1>1
  <2> QED  BY <2>3, <1>1, <1>6, SpareFacts
<1>7. ASSUME NEW l \in usable, NEW k \in usable, L[l] = L[k], First(l), Second(k) PROVE FALSE
    BY <1>7
<1> HIDE DEF First, Second
<1>8. ASSUME NEW l \in usable, NEW k \in usable, L[l] = L[k], L[l] # Nobody PROVE l = k
    BY <1>2, <1>5, <1>6, <1>7, <1>8
<1> QED  BY <1>1, <1>8 DEF Distinct, L

\* It seats nobody else.
LEMMA RotationRange ==
    ASSUME World, NEW participants \in Seq(Seats), NEW others \in Seq(Seats), NEW i \in Nat
    PROVE  /\ DOMAIN RotationHeat(participants, others, i).lanes = usable
           /\ Range(RotationHeat(participants, others, i).lanes)
                 \subseteq Range(participants) \cup Range(others) \cup {Nobody}
<1> DEFINE L == RotationHeat(participants, others, i).lanes
<1>1. DOMAIN L = usable
    BY RotationSeats
<1>2. \A k \in 1..Len(participants) : participants[k] \in Range(participants)
    BY DEF Range
<1>3. \A k \in 1..Len(others) : others[k] \in Range(others)
    BY DEF Range
<1>4. \A l \in usable : L[l] \in Range(participants) \cup Range(others) \cup {Nobody}
    BY <1>2, <1>3, LaneOfRotation
<1> HIDE DEF L
<1>5. Range(L) = {L[l] : l \in usable}
    BY <1>1 DEF Range
<1> QED  BY <1>1, <1>4, <1>5 DEF L

\* A draw, heat by heat.
LEMMA DrawFacts ==
    ASSUME World, NEW count \in Nat, NEW participants \in Seq(Seats), Apart(participants),
           NEW i \in DOMAIN Draw(count, participants)
    PROVE  /\ i \in 1..count /\ i \in Nat
           /\ Draw(count, participants)[i] = RotationHeat(participants, <<>>, i)
           /\ Distinct(Draw(count, participants)[i])
           /\ Range(Draw(count, participants)[i].lanes) \subseteq Range(participants) \cup {Nobody}
<1>1. i \in 1..count /\ Draw(count, participants)[i] = RotationHeat(participants, <<>>, i)
    BY DEF Draw
<1>2. i \in Nat /\ <<>> \in Seq(Seats) /\ Len(<<>>) = 0 /\ Range(<<>>) = {}
    BY <1>1 DEF Range
<1>3. Apart(<<>>)
    BY DEF Apart
<1>4. Distinct(RotationHeat(participants, <<>>, i))
  <2> DEFINE others == <<>>
  <2>1. others \in Seq(Seats) /\ Apart(others) /\ 1..Len(others) = {}
      BY <1>2, <1>3
  <2> HIDE DEF others
  <2>2. Distinct(RotationHeat(participants, others, i))
      BY <2>1, <1>2, RotationIsDistinct
  <2> QED  BY <2>2 DEF others
<1>5. Range(RotationHeat(participants, <<>>, i).lanes) \subseteq Range(participants) \cup {Nobody}
    BY <1>2, RotationRange
<1> QED  BY <1>1, <1>2, <1>4, <1>5

\* A round drawn for racers has no slots, and nobody else in it.
LEMMA RacersDrawn ==
    ASSUME World, NEW count \in Nat, NEW S \in SUBSET Racers, NEW field \in Seq(S), Apart(field)
    PROVE  LET hs == Draw(count, field) IN
           /\ Sound(hs) /\ Fielded(hs) /\ Numbered(hs) /\ Full(hs)
           /\ \A i \in DOMAIN hs : Range(hs[i].lanes) \subseteq S \cup {Nobody}
<1> DEFINE hs == Draw(count, field)
<1>1. field \in Seq(Seats) /\ Range(field) \subseteq S
  <2>1. S \subseteq Seats
      BY SeatFacts DEF World
  <2>2. field \in Seq(Seats)
      BY <2>1
  <2> QED  BY <2>2 DEF Range
<1>2. hs \in Seq(Heat)
    BY <1>1, DrawIsFresh DEF Fresh
<1>3. \A i \in DOMAIN hs : Distinct(hs[i]) /\ Range(hs[i].lanes) \subseteq S \cup {Nobody}
    BY <1>1, DrawFacts
<1>4. \A x \in S \cup {Nobody} : ~(x < 0)
    BY RacersAssumption DEF Nobody
<1> HIDE DEF hs
<1>5. Fielded(hs)
    BY <1>2, <1>3, <1>4, SeatedFacts DEF Fielded, World
<1>6. Numbered(hs) /\ Full(hs)
    BY <1>2, <1>5, FieldedFacts DEF World
<1> QED  BY <1>3, <1>5, <1>6 DEF Sound, hs

\* A round drawn for slots waits, with every slot in it.
LEMMA SlotsDrawn ==
    ASSUME World, NEW n \in 1..race.size + Cardinality(Racers), NEW count \in Nat, count >= n
    PROVE  LET hs == Draw(count, Slots(n)) IN
           /\ hs \in Seq(Heat) /\ Sound(hs) /\ Waiting(hs) /\ Numbered(hs)
           /\ \A i \in DOMAIN hs : Range(hs[i].lanes) \subseteq {-k : k \in 1..n} \cup {Nobody}
           /\ (n = race.size /\ n <= Cardinality(usable)) => Full(hs)
<1> DEFINE hs == Draw(count, Slots(n))
           u == Cardinality(usable)
<1>1. Slots(n) \in Seq(Seats) /\ Len(Slots(n)) = n /\ n \in Nat \ {0} /\ race \in Races
  <2>1. race \in Races
      BY DEF World
  <2>2. race.size + Cardinality(Racers) \in Nat
      BY <2>1, SeatFacts, RaceFacts
  <2> QED  BY <2>1, <2>2, SlotsAreSeats
<1>2. Apart(Slots(n)) /\ \A k \in 1..n : Slots(n)[k] = -k
    BY <1>1 DEF Apart, Slots
<1>3. Range(Slots(n)) = {-k : k \in 1..n}
    BY <1>1 DEF Range, Slots
<1>4. hs \in Seq(Heat) /\ DOMAIN hs = 1..count
    BY <1>1, DrawIsFresh DEF Fresh, Draw
<1>5. \A i \in DOMAIN hs : /\ i \in Nat /\ hs[i] = RotationHeat(Slots(n), <<>>, i)
                           /\ Distinct(hs[i])
                           /\ Range(hs[i].lanes) \subseteq {-k : k \in 1..n} \cup {Nobody}
    BY <1>1, <1>2, <1>3, DrawFacts
<1>6. ASSUME NEW i \in DOMAIN hs, NEW l \in usable, Turn(n, i, l) \in 0..n-1
      PROVE  -(Turn(n, i, l) + 1) \in Range(hs[i].lanes)
  <2>1. hs[i].lanes[l] = Slots(n)[Turn(n, i, l) + 1]
    <3>1. Turn(n, i, l) < n
        BY <1>1, <1>6
    <3> HIDE DEF hs
    <3> QED  BY <3>1, <1>1, <1>5, RotationSeats
  <2>2. Turn(n, i, l) + 1 \in 1..n
      BY <1>1, <1>6
  <2>3. l \in DOMAIN hs[i].lanes
    <3> HIDE DEF hs
    <3> QED  BY <1>5, RotationSeats
  <2> QED  BY <2>1, <2>2, <2>3, <1>2 DEF Range
<1> HIDE DEF hs
<1>7. ASSUME NEW i \in DOMAIN hs, n <= u, NEW k \in 1..n PROVE -k \in Range(hs[i].lanes)
  <2>1. k - 1 \in 0..n-1 /\ i \in Nat
      BY <1>1, <1>5
  <2>2. PICK l \in usable : Turn(n, i, l) = k - 1
      BY <2>1, <1>1, <1>7, TurnFacts DEF World
  <2> QED  BY <2>1, <2>2, <1>6
<1>8. ASSUME NEW i \in DOMAIN hs PROVE HasSlot(hs[i]) /\ Range(hs[i].lanes) \cap Racers = {}
  <2>1. PICK l \in usable : TRUE
      BY DEF World
  <2>2. \E x \in Range(hs[i].lanes) : x < 0
    <3>1. CASE n <= u
      <4>1. 1 \in 1..n /\ -1 < 0
          BY <1>1
      <4> QED  BY <4>1, <3>1, <1>7
    <3>2. CASE n > u
      <4>1. u \in Nat
          BY LanesRank DEF World
      <4>2. Larger(n, u) = n
          BY <4>1, <3>2, <1>1 DEF Larger
      <4>3. Turn(n, i, l) \in 0..n-1
          BY <4>2, <1>1, <1>5, TurnFacts DEF World
      <4>4. -(Turn(n, i, l) + 1) < 0
          BY <4>3
      <4> QED  BY <4>3, <4>4, <1>6
    <3> QED  BY <3>1, <3>2, <1>1, LanesRank DEF World
  <2>3. \A x \in {-k : k \in 1..n} \cup {Nobody} : x \notin Racers
    <3>1. \A k \in 1..n : -k \notin Nat \ {0}
        BY <1>1
    <3> QED  BY <3>1, RacersAssumption DEF Nobody
  <2> QED  BY <2>2, <2>3, <1>1, <1>4, <1>5, SeatedFacts
<1>9. ASSUME NEW k \in 1..n PROVE -k \in OpenSlots(hs)
  <2>1. k \in DOMAIN hs /\ k \in Nat
      BY <1>1, <1>4
  <2>2. PICK l \in usable : Turn(n, k, l) = k - 1
      BY <2>1, <1>1, TurnFacts DEF World
  <2>3. k - 1 \in 0..n-1 /\ -k < 0 /\ -(k - 1 + 1) = -k
      BY <1>1
  <2>4. -k \in Range(hs[k].lanes)
      BY <2>1, <2>2, <2>3, <1>6
  <2> QED  BY <2>1, <2>3, <2>4, <1>1, <1>4, SeatedFacts
<1>10. \A x \in OpenSlots(hs) : -x <= n
  <2> SUFFICES ASSUME NEW x \in OpenSlots(hs) PROVE -x <= n
      OBVIOUS
  <2>1. PICK i \in DOMAIN hs : x < 0 /\ x \in Range(hs[i].lanes)
      BY <1>1, <1>4, SeatedFacts
  <2>2. x \in {-k : k \in 1..n}
    <3>1. x # Nobody
        BY <2>1 DEF Nobody
    <3> QED  BY <2>1, <3>1, <1>5
  <2> QED  BY <2>2, <1>1
<1>11. Numbered(hs)
  <2> DEFINE T == (-n)..(-1)
             S == OpenSlots(hs)
  <2>1. -n \in Int /\ -1 \in Int
      BY <1>1
  <2>2. IsFiniteSet(T) /\ Cardinality(T) = IF -n > -1 THEN 0 ELSE -1 - (-n) + 1
      BY <2>1, FS_Interval
  <2>3. Cardinality(T) = n
      BY <1>1, <2>2
  <2>4. ASSUME NEW y \in T PROVE y \in S
    <3>1. -y \in 1..n /\ -(-y) = y
        BY <1>1
    <3> QED  BY <3>1, <1>9
  <2>5. IsFiniteSet(S) /\ Cardinality(S) \in Nat /\ S \subseteq Int
      BY <1>1, <1>4, SeatedFacts
  <2> HIDE DEF T, S
  <2>6. T \in SUBSET S
      BY <2>4
  <2>7. Cardinality(T) <= Cardinality(S)
      BY <2>5, <2>6, FS_Subset
  <2>8. \A x \in S : -x <= Cardinality(S)
      BY <2>3, <2>5, <2>7, <1>1, <1>10 DEF S
  <2> QED  BY <2>8 DEF Numbered, S
<1>12. ASSUME n = race.size, n <= u PROVE Full(hs)
  <2>1. ASSUME NEW i \in DOMAIN hs
        PROVE  /\ \A k \in 1..race.size : -k \in Range(hs[i].lanes)
               /\ \A x \in Range(hs[i].lanes) : -x <= race.size
    <3>1. \A x \in {-k : k \in 1..n} \cup {Nobody} : -x <= n
        BY <1>1 DEF Nobody
    <3> QED  BY <3>1, <1>5, <1>7, <1>12
  <2> QED  BY <2>1 DEF Full, FullHeat
<1>13. Waiting(hs) /\ Sound(hs)
    BY <1>5, <1>8 DEF Waiting, Sound
<1> QED  BY <1>4, <1>5, <1>11, <1>12, <1>13 DEF hs, u

-----------------------------------------------------------------------------
(* What becomes of a round that is drawn again, filled, thinned out, added  *)
(* to, or loses a heat.                                                    *)

\* What holds of a round unless heats of it are deleted by hand.
Whole(hs) == Sound(hs) /\ Numbered(hs) /\ (race.size <= Cardinality(usable) => Full(hs))

LEMMA RebuiltIsDraw ==
    ASSUME World, NEW hs \in Seq(Heat), NEW wanted \in Nat \ {0}, NEW participants \in Seq(Seats)
    PROVE  \E count \in Nat : /\ count >= Len(participants)
                              /\ Rebuilt(hs, wanted, participants) = Draw(count, participants)
<1>1. PICK runs \in Nat \ {0} :
        Rebuilt(hs, wanted, participants) = Draw(Len(participants) * runs, participants)
    BY RebuiltIsFresh
<1> DEFINE n == Len(participants)
<1>2. n \in Nat
    OBVIOUS
<1> HIDE DEF n
<1>3. n * runs \in Nat /\ n * runs >= n
    BY <1>2
<1> QED  BY <1>1, <1>3 DEF n

\* The placeholders a round goes back to.
LEMMA ResetIsDraw ==
    ASSUME World, NEW hs \in Seq(Heat), NEW n \in 1..race.size + Cardinality(Racers)
    PROVE  \E count \in Nat : count >= n /\ ResetToSlots(hs, n) = Draw(count, Slots(n))
<1>1. race \in Races /\ race.runs \in Nat \ {0} /\ n \in Nat \ {0} /\ Len(hs) \in Nat
  <2>1. race \in Races
      BY DEF World
  <2>2. race.size + Cardinality(Racers) \in Nat
      BY <2>1, SeatFacts, RaceFacts
  <2> QED  BY <2>1, <2>2, RaceFacts
<1>2. Slots(n) \in Seq(Seats) /\ Len(Slots(n)) = n
    BY <1>1, SlotsAreSeats
<1>3. CASE hs # <<>> /\ Len(hs) % n = 0
  <2> DEFINE m == Len(hs)
  <2>1. m \in Nat \ {0}
      BY <1>3
  <2>2. m % n = 0
      BY <1>3
  <2>3. ResetToSlots(hs, n) = Draw(m, Slots(n))
      BY <1>3 DEF ResetToSlots
  <2> HIDE DEF m
  <2>4. m \notin 1..n-1
    <3>1. m \in 0..n-1 => m % n = m
        BY <1>1, SmallRemainder
    <3> QED  BY <3>1, <2>1, <2>2
  <2>5. m >= n
      BY <2>1, <2>4, <1>1
  <2> QED  BY <2>1, <2>3, <2>5
<1>4. CASE ~(hs # <<>> /\ Len(hs) % n = 0)
  <2>1. ResetToSlots(hs, n) = Rebuilt(hs, race.runs, Slots(n))
      BY <1>4 DEF ResetToSlots
  <2> QED  BY <2>1, <1>1, <1>2, RebuiltIsDraw
<1> QED  BY <1>3, <1>4

LEMMA SlotsAreWhole ==
    ASSUME World, NEW hs \in Seq(Heat)
    PROVE  /\ Whole(ResetToSlots(hs, race.size)) /\ Waiting(ResetToSlots(hs, race.size))
           /\ Whole(SlotsRebuilt(hs)) /\ Waiting(SlotsRebuilt(hs))
           /\ ResetToSlots(hs, race.size) \in Seq(Heat) /\ SlotsRebuilt(hs) \in Seq(Heat)
<1>1. race \in Races /\ race.runs \in Nat \ {0} /\ race.size \in 1..race.size + Cardinality(Racers)
    BY RaceFacts, SeatFacts DEF World
<1>2. Slots(race.size) \in Seq(Seats) /\ Len(Slots(race.size)) = race.size
    BY <1>1, SlotsAreSeats
<1>3. ASSUME NEW count \in Nat, count >= race.size
      PROVE  /\ Whole(Draw(count, Slots(race.size))) /\ Waiting(Draw(count, Slots(race.size)))
             /\ Draw(count, Slots(race.size)) \in Seq(Heat)
    BY <1>1, <1>3, SlotsDrawn DEF Whole
<1>4. \E count \in Nat : count >= race.size /\ SlotsRebuilt(hs) = Draw(count, Slots(race.size))
    BY <1>1, <1>2, RebuiltIsDraw DEF SlotsRebuilt
<1>5. \E count \in Nat : count >= race.size
                         /\ ResetToSlots(hs, race.size) = Draw(count, Slots(race.size))
    BY <1>1, ResetIsDraw
<1> QED  BY <1>3, <1>4, <1>5

\* A round drawn for racers who are all different.
LEMMA RacersRebuilt ==
    ASSUME World, NEW hs \in Seq(Heat), NEW wanted \in Nat \ {0},
           NEW S \in SUBSET Racers, NEW field \in Seq(S), Apart(field)
    PROVE  LET new == Rebuilt(hs, wanted, field) IN
           /\ Whole(new) /\ Fielded(new)
           /\ \A i \in DOMAIN new : Range(new[i].lanes) \subseteq S \cup {Nobody}
<1>1. field \in Seq(Seats)
  <2>1. S \subseteq Seats
      BY SeatFacts DEF World
  <2> QED  BY <2>1
<1>2. PICK count \in Nat : Rebuilt(hs, wanted, field) = Draw(count, field)
    BY <1>1, RebuiltIsDraw
<1> QED  BY <1>2, RacersDrawn DEF Whole

LEMMA AscendingIsApart ==
    ASSUME race \in Races, NEW S \in SUBSET Racers
    PROVE  Ascending(S) \in Seq(S) /\ Apart(Ascending(S))
<1>1. IsFiniteSet(Racers) /\ Racers \in SUBSET Int
    BY RacersAssumption
<1>2. IsFiniteSet(S) /\ S \in SUBSET Int
    BY <1>1, FS_Subset
<1>3. Lists(Ascending(S), S)
    BY <1>2, AscendingOrder
<1> QED  BY <1>3 DEF Lists, Apart

LEMMA RosterIsWhole ==
    ASSUME World, NEW hs \in Seq(Heat)
    PROVE  LET new == RosterRebuilt(hs) IN
           /\ Whole(new) /\ Fielded(new)
           /\ \A i \in DOMAIN new : Range(new[i].lanes) \subseteq checkedIn \cup {Nobody}
<1>1. Roster \in Seq(checkedIn) /\ Apart(Roster) /\ checkedIn \in SUBSET Racers
    BY AscendingIsApart DEF World, Roster
<1>2. 1 \in Nat \ {0}
    OBVIOUS
<1> QED  BY <1>1, <1>2, RacersRebuilt DEF RosterRebuilt

\* Filling, lane by lane.
LEMMA FilledFacts ==
    ASSUME race \in Races, NEW h \in Heat, NEW S \in SUBSET Racers, NEW field \in Seq(S)
    PROVE  /\ DOMAIN Filled(h.lanes, field) = DOMAIN h.lanes
           /\ \A l \in DOMAIN h.lanes :
                \/ /\ h.lanes[l] < 0 /\ -h.lanes[l] \in 1..Len(field)
                   /\ Filled(h.lanes, field)[l] = field[-h.lanes[l]]
                   /\ Filled(h.lanes, field)[l] \in S
                \/ /\ ~(h.lanes[l] < 0 /\ -h.lanes[l] <= Len(field))
                   /\ Filled(h.lanes, field)[l] = h.lanes[l]
<1>1. PICK D \in SUBSET (1..Width) : h.lanes \in [D -> Lanes]
    BY DEF Heat
<1>2. \A l \in DOMAIN h.lanes : h.lanes[l] \in Int
  <2>1. Lanes \subseteq Int
      BY SeatFacts DEF Nobody
  <2> QED  BY <1>1, <2>1
<1>3. ASSUME NEW l \in DOMAIN h.lanes, h.lanes[l] < 0, -h.lanes[l] <= Len(field)
      PROVE  /\ -h.lanes[l] \in 1..Len(field)
             /\ Filled(h.lanes, field)[l] = field[-h.lanes[l]] /\ field[-h.lanes[l]] \in S
  <2> DEFINE x == h.lanes[l]
  <2>1. x \in Int
      BY <1>2
  <2>2. Filled(h.lanes, field)[l] = field[-x]
      BY <1>3 DEF Filled
  <2>3. x < 0 /\ -x <= Len(field)
      BY <1>3
  <2> HIDE DEF x
  <2>4. -x \in 1..Len(field)
      BY <2>1, <2>3
  <2> QED  BY <2>2, <2>4 DEF x
<1>4. ASSUME NEW l \in DOMAIN h.lanes, ~(h.lanes[l] < 0 /\ -h.lanes[l] <= Len(field))
      PROVE  Filled(h.lanes, field)[l] = h.lanes[l]
    BY <1>4 DEF Filled
<1>5. DOMAIN Filled(h.lanes, field) = DOMAIN h.lanes
    BY DEF Filled
<1> QED  BY <1>3, <1>4, <1>5

\* Filling gives places to those who advance, and to nobody else.
LEMMA ResolvedFacts ==
    ASSUME race \in Races, NEW hs \in Seq(Heat), NEW S \in SUBSET Racers, NEW field \in Seq(S)
    PROVE  LET new == Resolved(hs, field) IN
           /\ DOMAIN new = DOMAIN hs
           /\ \A i \in DOMAIN hs : new[i].lanes = Filled(hs[i].lanes, field) /\ new[i].out = hs[i].out
           /\ \A q \in Racers \ S : Places(q, new) \subseteq Places(q, hs)
           /\ Fielded(hs) => new = hs
<1> DEFINE new == Resolved(hs, field)
<1>1. DOMAIN new = DOMAIN hs
    BY DEF Resolved
<1>2. \A i \in DOMAIN hs : new[i] = [hs[i] EXCEPT !.lanes = Filled(hs[i].lanes, field)]
    BY DEF Resolved
<1>3. \A i \in DOMAIN hs : hs[i] \in Heat
    OBVIOUS
<1>4. \A i \in DOMAIN hs : new[i].lanes = Filled(hs[i].lanes, field) /\ new[i].out = hs[i].out
    BY <1>2, <1>3 DEF Heat
<1>5. new = [i \in 1..Len(hs) |-> new[i]]
    BY DEF Resolved
<1> HIDE DEF new
<1>6. ASSUME NEW q \in Racers \ S, NEW i \in Places(q, new) PROVE i \in Places(q, hs)
  <2>1. i \in DOMAIN hs /\ q \in Range(new[i].lanes)
      BY <1>1, <1>6 DEF Places
  <2>2. PICK l \in DOMAIN hs[i].lanes : q = Filled(hs[i].lanes, field)[l]
      BY <2>1, <1>3, <1>4, FilledFacts DEF Range
  <2>3. q = hs[i].lanes[l]
      BY <2>1, <2>2, <1>3, <1>6, FilledFacts
  <2> QED  BY <2>1, <2>2, <2>3 DEF Places, Range
<1>7. ASSUME Fielded(hs) PROVE new = hs
  <2>1. ASSUME NEW i \in DOMAIN hs PROVE new[i] = hs[i]
    <3>1. ~HasSlot(hs[i]) /\ hs[i] \in Heat
        BY <1>7, <1>3 DEF Fielded
    <3>2. PICK D \in SUBSET (1..Width) : hs[i].lanes \in [D -> Lanes]
        BY <3>1 DEF Heat
    <3>3. \A l \in DOMAIN hs[i].lanes : Filled(hs[i].lanes, field)[l] = hs[i].lanes[l]
        BY <3>1, FilledFacts DEF HasSlot
    <3>4. Filled(hs[i].lanes, field) = hs[i].lanes
        BY <3>2, <3>3 DEF Filled
    <3> QED  BY <3>1, <3>4, <1>2 DEF Heat
  <2> QED  BY <2>1, <1>5
<1> QED  BY <1>1, <1>4, <1>6, <1>7 DEF new

\* A round that waits, filled with as many as it has slots.
LEMMA WaitingIsFilled ==
    ASSUME race \in Races, NEW hs \in Seq(Heat), Sound(hs), Waiting(hs), Numbered(hs),
           NEW S \in SUBSET Racers, NEW field \in Seq(S), Apart(field),
           Len(field) >= Cardinality(OpenSlots(hs))
    PROVE  /\ Fielded(Resolved(hs, field))
           /\ \A i \in DOMAIN Resolved(hs, field) : Distinct(Resolved(hs, field)[i])
<1> DEFINE new == Resolved(hs, field)
           n == Len(field)
           c == Cardinality(OpenSlots(hs))
<1>1. DOMAIN new = DOMAIN hs /\ n \in Nat
      /\ \A i \in DOMAIN hs : new[i].lanes = Filled(hs[i].lanes, field)
    BY ResolvedFacts
<1> HIDE DEF new
<1>2. ASSUME NEW i \in DOMAIN hs, NEW l \in DOMAIN hs[i].lanes, hs[i].lanes[l] < 0
      PROVE  hs[i].lanes[l] \in Int /\ -hs[i].lanes[l] <= n
  <2> DEFINE x == hs[i].lanes[l]
  <2>1. x \in Range(hs[i].lanes)
      BY DEF Range
  <2>2. x \in OpenSlots(hs)
      BY <2>1, <1>2, SeatedFacts
  <2>3. x \in Int /\ -x <= c /\ c \in Nat
      BY <2>2, SeatedFacts DEF Numbered
  <2> HIDE DEF x, c
  <2>4. -x <= n
      BY <2>3, <1>1 DEF c
  <2> QED  BY <2>3, <2>4 DEF x
<1>3. ASSUME NEW i \in DOMAIN hs, NEW l \in DOMAIN hs[i].lanes
      PROVE  \/ /\ hs[i].lanes[l] < 0 /\ hs[i].lanes[l] \in Int
                /\ -hs[i].lanes[l] \in 1..n /\ new[i].lanes[l] = field[-hs[i].lanes[l]]
                /\ new[i].lanes[l] \in S
             \/ hs[i].lanes[l] = Nobody /\ new[i].lanes[l] = Nobody
  <2>1. hs[i] \in Heat
      OBVIOUS
  <2>2. hs[i].lanes[l] \in Range(hs[i].lanes) /\ hs[i].lanes[l] \notin Racers
      BY DEF Range, Waiting
  <2>3. hs[i].lanes[l] \in Lanes
      BY <2>1, <2>2, LanesOfHeat
  <2>4. hs[i].lanes[l] < 0 \/ hs[i].lanes[l] = Nobody
      BY <2>2, <2>3, SeatFacts
  <2>5. ~(Nobody < 0)
      BY DEF Nobody
  <2> QED  BY <2>1, <2>4, <2>5, <1>1, <1>2, FilledFacts
<1>4. \A i \in DOMAIN hs : DOMAIN new[i].lanes = DOMAIN hs[i].lanes
  <2>1. \A i \in DOMAIN hs : hs[i] \in Heat
      OBVIOUS
  <2> QED  BY <2>1, <1>1, FilledFacts
<1>5. Fielded(new)
  <2>1. \A x \in S \cup {Nobody} : ~(x < 0)
      BY RacersAssumption DEF Nobody
  <2> QED  BY <2>1, <1>1, <1>3, <1>4 DEF Fielded, HasSlot
<1>6. ASSUME NEW i \in DOMAIN hs, NEW j \in DOMAIN hs[i].lanes, NEW k \in DOMAIN hs[i].lanes,
             new[i].lanes[j] = new[i].lanes[k], new[i].lanes[j] # Nobody
      PROVE  j = k
  <2>1. S \cap {Nobody} = {}
      BY RacersAssumption DEF Nobody
  <2> DEFINE x == hs[i].lanes[j]
             y == hs[i].lanes[k]
  <2>2. /\ x \in Int /\ -x \in 1..n /\ new[i].lanes[j] = field[-x] /\ x < 0
        /\ y \in Int /\ -y \in 1..n /\ new[i].lanes[k] = field[-y]
      BY <2>1, <1>3, <1>6
  <2> HIDE DEF x, y
  <2>3. -x = -y
      BY <2>2, <1>6 DEF Apart
  <2>4. x = y /\ x # Nobody
      BY <2>2, <2>3 DEF Nobody
  <2>5. Distinct(hs[i])
      BY DEF Sound
  <2> QED  BY <2>4, <2>5 DEF Distinct, x, y
<1>7. \A i \in DOMAIN new : Distinct(new[i])
    BY <1>1, <1>4, <1>6 DEF Distinct
<1> QED  BY <1>5, <1>7 DEF new

\* A round whose slots are the first ones, filled or drawn again for a field that
\* is short: it is full of racers, none of them twice in a heat.
LEMMA PopulatedIsSound ==
    ASSUME World, NEW hs \in Seq(Heat), Settled(hs), Sound(hs), Numbered(hs),
           NEW S \in SUBSET Racers, NEW field \in Seq(S), Apart(field)
    PROVE  LET new == Populated(hs, field) IN
           /\ field = <<>> => new = hs
           /\ field # <<>> => Fielded(new) /\ \A i \in DOMAIN new : Distinct(new[i])
<1> DEFINE n == Len(field)
           c == Cardinality(OpenSlots(hs))
<1>1. race \in Races /\ race.runs \in Nat \ {0} /\ n \in Nat /\ c \in Nat
    BY RaceFacts, SeatedFacts DEF World
<1>2. CASE field = <<>>
    BY <1>2 DEF Populated
<1>3. CASE field # <<>> /\ n < c /\ MayRebuild(hs)
  <2>1. Populated(hs, field) = Rebuilt(hs, race.runs, field)
      BY <1>3 DEF Populated
  <2> QED  BY <2>1, <1>1, <1>3, RacersRebuilt DEF Whole, Sound
<1>4. CASE field # <<>> /\ ~(n < c /\ MayRebuild(hs))
  <2>1. Populated(hs, field) = Resolved(hs, field)
      BY <1>4 DEF Populated
  <2>2. CASE Fielded(hs)
    <3>1. Resolved(hs, field) = hs
        BY <2>2, <1>1, ResolvedFacts
    <3> QED  BY <2>1, <2>2, <3>1, <1>4 DEF Sound
  <2>3. CASE Waiting(hs)
    <3>1. n >= c
        BY <2>3, <1>1, <1>4, WaitingFacts
    <3> QED  BY <2>1, <2>3, <3>1, <1>1, <1>4, WaitingIsFilled
  <2> QED  BY <2>2, <2>3 DEF Sound
<1> QED  BY <1>2, <1>3, <1>4

\* Filling, as far as those who do not advance go.
LEMMA PopulatedPlaces ==
    ASSUME World, NEW hs \in Seq(Heat), NEW S \in SUBSET Racers, NEW field \in Seq(S), Apart(field)
    PROVE  /\ \A q \in Racers \ S : Places(q, Populated(hs, field)) \subseteq Places(q, hs)
           /\ Fielded(hs) => Populated(hs, field) = hs
<1>1. race \in Races /\ race.runs \in Nat \ {0}
    BY RaceFacts DEF World
<1>2. \A q \in Racers \ S : Places(q, Resolved(hs, field)) \subseteq Places(q, hs)
    BY <1>1, ResolvedFacts
<1>3. \A q \in Racers \ S : Places(q, Rebuilt(hs, race.runs, field)) = {}
  <2>1. \A i \in DOMAIN Rebuilt(hs, race.runs, field) :
          Range(Rebuilt(hs, race.runs, field)[i].lanes) \subseteq S \cup {Nobody}
      BY <1>1, RacersRebuilt
  <2>2. \A q \in Racers \ S : q \notin S \cup {Nobody}
      BY RacersAssumption DEF Nobody
  <2> QED  BY <2>1, <2>2 DEF Places
<1>4. ASSUME Fielded(hs) PROVE Populated(hs, field) = hs
  <2>1. OpenSlots(hs) = {} /\ Resolved(hs, field) = hs
      BY <1>1, <1>4, FieldedFacts, ResolvedFacts
  <2>2. Cardinality(OpenSlots(hs)) = 0 /\ Len(field) \in Nat
      BY <2>1, FS_EmptySet
  <2>3. ~(Len(field) < Cardinality(OpenSlots(hs)))
      BY <2>2
  <2> QED  BY <2>1, <2>3 DEF Populated
<1> QED  BY <1>2, <1>3, <1>4 DEF Populated

\* Lanes are vacated, dropped or left alone.
Thins(new, hs) ==
    /\ DOMAIN new = DOMAIN hs
    /\ \A i \in DOMAIN new : \A l \in DOMAIN new[i].lanes :
          \/ new[i].lanes[l] = Nobody
          \/ l \in DOMAIN hs[i].lanes /\ new[i].lanes[l] = hs[i].lanes[l]

LEMMA ThinnedFacts ==
    ASSUME race \in Races, NEW hs \in Seq(Heat), NEW new \in Seq(Heat), Thins(new, hs)
    PROVE  /\ \A q \in Racers : Places(q, new) \subseteq Places(q, hs)
           /\ Fielded(hs) => Fielded(new)
           /\ (\A i \in DOMAIN hs : Distinct(hs[i])) => \A i \in DOMAIN new : Distinct(new[i])
<1>1. DOMAIN new = DOMAIN hs
    BY DEF Thins
<1>2. ASSUME NEW i \in DOMAIN hs, NEW l \in DOMAIN new[i].lanes, new[i].lanes[l] # Nobody
      PROVE  l \in DOMAIN hs[i].lanes /\ new[i].lanes[l] = hs[i].lanes[l]
    BY <1>1, <1>2 DEF Thins
<1>3. ASSUME NEW q \in Racers, NEW i \in Places(q, new) PROVE i \in Places(q, hs)
  <2>1. i \in DOMAIN hs /\ q # Nobody
      BY <1>1, RacersAssumption DEF Places, Nobody
  <2>2. PICK l \in DOMAIN new[i].lanes : new[i].lanes[l] = q
      BY DEF Places, Range
  <2>3. l \in DOMAIN hs[i].lanes /\ hs[i].lanes[l] = q
      BY <2>1, <2>2, <1>2
  <2> QED  BY <2>1, <2>3 DEF Places, Range
<1>4. ASSUME Fielded(hs) PROVE Fielded(new)
  <2>1. ~(Nobody < 0)
      BY DEF Nobody
  <2> QED  BY <2>1, <1>1, <1>2, <1>4 DEF Fielded, HasSlot
<1>5. ASSUME \A i \in DOMAIN hs : Distinct(hs[i]), NEW i \in DOMAIN new PROVE Distinct(new[i])
  <2>1. Distinct(hs[i])
      BY <1>1, <1>5
  <2> QED  BY <2>1, <1>1, <1>2 DEF Distinct
<1> QED  BY <1>3, <1>4, <1>5

LEMMA VacatedThins ==
    ASSUME race \in Races, NEW hs \in Seq(Heat), NEW gone
    PROVE  /\ Thins(Vacated(hs, gone), hs)
           /\ Field(hs) \ gone \subseteq Field(Vacated(hs, gone))
<1> DEFINE new == Vacated(hs, gone)
<1>1. DOMAIN new = DOMAIN hs /\ \A i \in DOMAIN hs : new[i] = HeatVacated(hs[i], gone)
    BY DEF Vacated
<1>2. new \in Seq(Heat)
  <2>1. \A i \in 1..Len(hs) : new[i] \in Heat
      BY HeatVacatedFacts DEF Vacated
  <2>2. new = [i \in 1..Len(hs) |-> new[i]]
      BY DEF Vacated
  <2> HIDE DEF new
  <2> QED  BY <2>1, <2>2
<1> HIDE DEF new
<1>3. ASSUME NEW i \in DOMAIN hs
      PROVE  /\ DOMAIN new[i].lanes = DOMAIN hs[i].lanes
             /\ \A l \in DOMAIN hs[i].lanes :
                   \/ new[i].lanes[l] = hs[i].lanes[l]
                   \/ hs[i].lanes[l] \in gone /\ new[i].lanes[l] = Nobody
  <2> DEFINE h == hs[i]
             left == [l \in DOMAIN h.lanes |-> IF h.lanes[l] \in gone THEN Nobody ELSE h.lanes[l]]
  <2>1. HeatVacated(h, gone) = h \/ HeatVacated(h, gone).lanes = left
      BY DEF HeatVacated
  <2> QED  BY <2>1, <1>1
<1>4. Thins(new, hs)
    BY <1>1, <1>3 DEF Thins
<1>5. ASSUME NEW q \in Field(hs) \ gone PROVE q \in Field(new)
  <2>1. PICK i \in DOMAIN hs : q \in Range(hs[i].lanes)
      BY SeatedFacts
  <2>2. PICK l \in DOMAIN hs[i].lanes : q = hs[i].lanes[l]
      BY <2>1 DEF Range
  <2>3. l \in DOMAIN new[i].lanes /\ new[i].lanes[l] = q
      BY <2>2, <1>3, <1>5
  <2>4. q \in Range(new[i].lanes)
      BY <2>3 DEF Range
  <2>5. q \in Racers
      BY DEF Field
  <2> QED  BY <2>4, <2>5, <1>1, <1>2, SeatedFacts
<1> QED  BY <1>4, <1>5 DEF new

LEMMA RelanedThins ==
    ASSUME race \in Races, NEW hs \in Seq(Heat)
    PROVE  Thins(Relaned(hs), hs)
<1> DEFINE new == Relaned(hs)
<1>1. DOMAIN new = DOMAIN hs /\ \A i \in DOMAIN hs : new[i] = HeatRelaned(hs[i])
    BY DEF Relaned
<1> HIDE DEF new
<1>2. ASSUME NEW i \in DOMAIN hs, NEW l \in DOMAIN new[i].lanes
      PROVE  \/ new[i].lanes[l] = Nobody
             \/ l \in DOMAIN hs[i].lanes /\ new[i].lanes[l] = hs[i].lanes[l]
  <2> DEFINE h == hs[i]
             left == Restrict(h.lanes, usable \cap DOMAIN h.lanes)
             lanes == IF left = <<>> THEN [k \in usable |-> Nobody] ELSE left
             out == IF Range(left) \cap Racers = {} THEN Skipped ELSE h.out
  <2>1. HeatRelaned(h) = h \/ HeatRelaned(h) = [lanes |-> lanes, out |-> out]
      BY DEF HeatRelaned
  <2>2. left = [k \in usable \cap DOMAIN h.lanes |-> h.lanes[k]]
      BY DEF Restrict
  <2> HIDE DEF left, out
  <2>3. CASE HeatRelaned(h) = h
      BY <2>3, <1>1
  <2>4. CASE HeatRelaned(h) = [lanes |-> lanes, out |-> out]
    <3>1. new[i].lanes = lanes
        BY <2>4, <1>1
    <3>2. CASE left = <<>>
        BY <3>1, <3>2
    <3>3. CASE left # <<>>
        BY <3>1, <3>3, <2>2
    <3> QED  BY <3>2, <3>3
  <2> QED  BY <2>1, <2>3, <2>4
<1> QED  BY <1>1, <1>2 DEF Thins, new

LEMMA RecordedThins ==
    ASSUME NEW hs \in Seq(Heat), NEW i \in DOMAIN hs, NEW out
    PROVE  LET new == [hs EXCEPT ![i].out = out] IN
           /\ Thins(new, hs)
           /\ \A j \in DOMAIN hs : new[j].lanes = hs[j].lanes
<1> DEFINE new == [hs EXCEPT ![i].out = out]
<1>1. DOMAIN new = DOMAIN hs
    OBVIOUS
<1>2. \A j \in DOMAIN hs : new[j].lanes = hs[j].lanes
  <2>1. \A j \in DOMAIN hs : hs[j] \in Heat
      OBVIOUS
  <2> QED  BY <2>1 DEF Heat
<1> HIDE DEF new
<1>3. Thins(new, hs)
    BY <1>1, <1>2 DEF Thins
<1> QED  BY <1>2, <1>3 DEF new

\* Latecomers, and racers of the round to fill up their heats.
LEMMA LateIsWhole ==
    ASSUME World, NEW hs \in Seq(Heat), Fielded(hs), \A i \in DOMAIN hs : Distinct(hs[i])
    PROVE  LET missing == checkedIn \ Field(hs)
               new == hs \o LateHeats(Ascending(missing), Ascending(Field(hs)))
           IN  /\ Fielded(new) /\ \A i \in DOMAIN new : Distinct(new[i])
<1> DEFINE missing == checkedIn \ Field(hs)
           newcomers == Ascending(missing)
           others == Ascending(Field(hs))
           m == Larger(Len(newcomers), Cardinality(usable))
           late == LateHeats(newcomers, others)
           new == hs \o late
<1>1. race \in Races /\ missing \in SUBSET Racers /\ Field(hs) \in SUBSET Racers
    BY DEF World, Field
<1>2. /\ newcomers \in Seq(missing) /\ Apart(newcomers)
      /\ others \in Seq(Field(hs)) /\ Apart(others)
    BY <1>1, AscendingIsApart
<1>3. newcomers \in Seq(Seats) /\ others \in Seq(Seats)
    BY <1>1, AscendingRacers
<1>4. \A j \in 1..Len(newcomers), k \in 1..Len(others) : newcomers[j] # others[k]
  <2>1. missing \cap Field(hs) = {}
      OBVIOUS
  <2> HIDE DEF missing, newcomers, others
  <2> QED  BY <2>1, <1>2
<1>5. Range(newcomers) \subseteq Racers /\ Range(others) \subseteq Racers
  <2> HIDE DEF missing, newcomers, others
  <2> QED  BY <1>1, <1>2 DEF Range
<1>6. m \in Nat
    BY <1>3, LanesRank DEF World, Larger
<1> HIDE DEF missing, newcomers, others
<1>7. ASSUME NEW i \in 1..m
      PROVE  /\ Distinct(RotationHeat(newcomers, others, i))
             /\ ~HasSlot(RotationHeat(newcomers, others, i))
             /\ RotationHeat(newcomers, others, i) \in Heat
  <2>1. i \in Nat
      BY <1>6
  <2>2. Distinct(RotationHeat(newcomers, others, i))
      BY <2>1, <1>2, <1>3, <1>4, RotationIsDistinct
  <2>3. Range(RotationHeat(newcomers, others, i).lanes) \subseteq Racers \cup {Nobody}
      BY <2>1, <1>3, <1>5, RotationRange
  <2>4. \A x \in Racers \cup {Nobody} : ~(x < 0)
      BY RacersAssumption DEF Nobody
  <2>5. RotationHeat(newcomers, others, i) \in Heat
      BY <2>1, <1>3, RotationIsHeat DEF World
  <2> QED  BY <2>2, <2>3, <2>4, <2>5 DEF HasSlot, Range
<1>8. late = [i \in 1..m |-> RotationHeat(newcomers, others, i)]
    BY DEF LateHeats
<1> HIDE DEF late, m
<1>9. late \in Seq(Heat) /\ Len(late) = m /\ \A i \in 1..m : late[i] = RotationHeat(newcomers, others, i)
    BY <1>6, <1>7, <1>8
<1>10. ASSUME NEW i \in DOMAIN new
       PROVE  (i \in DOMAIN hs /\ new[i] = hs[i]) \/ \E k \in 1..m : new[i] = late[k]
    BY <1>9
<1> HIDE DEF new
<1>11. \A i \in DOMAIN new : Distinct(new[i]) /\ ~HasSlot(new[i])
  <2> SUFFICES ASSUME NEW i \in DOMAIN new PROVE Distinct(new[i]) /\ ~HasSlot(new[i])
      OBVIOUS
  <2>1. CASE i \in DOMAIN hs /\ new[i] = hs[i]
      BY <2>1 DEF Fielded
  <2>2. CASE \E k \in 1..m : new[i] = late[k]
      BY <2>2, <1>7, <1>9
  <2> QED  BY <2>1, <2>2, <1>10
<1> QED  BY <1>11 DEF Fielded, new, late, newcomers, others, missing

\* A car that was not in the round, and is not checked in, is in no late heat.
LEMMA LatePlaces ==
    ASSUME World, NEW hs \in Seq(Heat), NEW q \in Racers \ checkedIn, q \notin Field(hs)
    PROVE  LET missing == checkedIn \ Field(hs)
               new == hs \o LateHeats(Ascending(missing), Ascending(Field(hs)))
           IN  Places(q, new) \subseteq Places(q, hs)
<1> DEFINE missing == checkedIn \ Field(hs)
           newcomers == Ascending(missing)
           others == Ascending(Field(hs))
           m == Larger(Len(newcomers), Cardinality(usable))
           late == LateHeats(newcomers, others)
           new == hs \o late
<1>1. race \in Races /\ missing \in SUBSET Racers /\ Field(hs) \in SUBSET Racers
    BY DEF World, Field
<1>2. newcomers \in Seq(missing) /\ others \in Seq(Field(hs))
    BY <1>1, AscendingIsApart
<1>3. newcomers \in Seq(Seats) /\ others \in Seq(Seats)
    BY <1>1, AscendingRacers
<1>4. q \notin Range(newcomers) \cup Range(others) \cup {Nobody}
  <2>1. q \notin missing /\ q # Nobody
      BY RacersAssumption DEF Nobody
  <2> HIDE DEF missing, newcomers, others
  <2> QED  BY <2>1, <1>2 DEF Range
<1>5. m \in Nat
    BY <1>3, LanesRank DEF World, Larger
<1> HIDE DEF missing, newcomers, others
<1>6. ASSUME NEW i \in 1..m
      PROVE  /\ q \notin Range(RotationHeat(newcomers, others, i).lanes)
             /\ RotationHeat(newcomers, others, i) \in Heat
  <2>1. i \in Nat
      BY <1>5
  <2>2. RotationHeat(newcomers, others, i) \in Heat
      BY <2>1, <1>3, RotationIsHeat DEF World
  <2> QED  BY <2>1, <2>2, <1>3, <1>4, RotationRange
<1>7. late = [i \in 1..m |-> RotationHeat(newcomers, others, i)]
    BY DEF LateHeats
<1> HIDE DEF late, m
<1>8. late \in Seq(Heat) /\ Len(late) = m /\ \A i \in 1..m : late[i] = RotationHeat(newcomers, others, i)
    BY <1>5, <1>6, <1>7
<1>9. ASSUME NEW i \in DOMAIN new
      PROVE  (i \in DOMAIN hs /\ new[i] = hs[i]) \/ \E k \in 1..m : new[i] = late[k]
    BY <1>8
<1> HIDE DEF new
<1>10. ASSUME NEW i \in Places(q, new) PROVE i \in Places(q, hs)
  <2>1. i \in DOMAIN new /\ q \in Range(new[i].lanes)
      BY DEF Places
  <2>2. ~\E k \in 1..m : new[i] = late[k]
      BY <2>1, <1>6, <1>8
  <2> QED  BY <2>1, <2>2, <1>9 DEF Places
<1> QED  BY <1>10 DEF new, late, newcomers, others, missing

\* A round that loses a heat.
LEMMA CutOutIsSound ==
    ASSUME NEW hs \in Seq(Heat), NEW i \in DOMAIN hs
    PROVE  LET new == CutOut(hs, i) IN
           /\ Sound(hs) => Sound(new)
           /\ Full(hs) => Full(new)
           /\ Fielded(hs) => Fielded(new)
<1> DEFINE new == CutOut(hs, i)
<1>1. i \in 1..Len(hs) /\ Len(hs) \in Nat
    OBVIOUS
<1>2. /\ DOMAIN new = 1..Len(hs) - 1
      /\ \A k \in 1..Len(hs) - 1 : new[k] = IF k < i THEN hs[k] ELSE hs[k + 1]
    BY <1>1, CutOutFacts
<1> HIDE DEF new
<1>3. ASSUME NEW k \in DOMAIN new PROVE \E j \in DOMAIN hs : new[k] = hs[j]
  <2>1. k \in DOMAIN hs /\ (k >= i => k + 1 \in DOMAIN hs)
      BY <1>1, <1>2
  <2> QED  BY <2>1, <1>1, <1>2
<1>4. Fielded(hs) => Fielded(new)
    BY <1>3 DEF Fielded
<1>5. Waiting(hs) => Waiting(new)
    BY <1>3 DEF Waiting
<1>6. Full(hs) => Full(new)
    BY <1>3 DEF Full
<1>7. (\A j \in DOMAIN hs : Distinct(hs[j])) => \A k \in DOMAIN new : Distinct(new[k])
    BY <1>3
<1> QED  BY <1>4, <1>5, <1>6, <1>7 DEF Sound, new

\* Nobody is in more heats of a round that loses one.
LEMMA CutOutPlaces ==
    ASSUME NEW hs \in Seq(Heat), NEW i \in DOMAIN hs, NEW q
    PROVE  Cardinality(Places(q, CutOut(hs, i))) <= Cardinality(Places(q, hs))
<1> DEFINE new == CutOut(hs, i)
           S == Places(q, new)
           T == Places(q, hs)
           f == [k \in S |-> IF k < i THEN k ELSE k + 1]
<1>1. i \in 1..Len(hs) /\ Len(hs) \in Nat
    OBVIOUS
<1>2. /\ DOMAIN new = 1..Len(hs) - 1
      /\ \A k \in 1..Len(hs) - 1 : new[k] = IF k < i THEN hs[k] ELSE hs[k + 1]
    BY <1>1, CutOutFacts
<1> HIDE DEF new
<1>3. ASSUME NEW k \in S PROVE f[k] \in T /\ k \in Int
  <2>1. k \in 1..Len(hs) - 1 /\ q \in Range(new[k].lanes)
      BY <1>2 DEF Places
  <2>2. f[k] \in 1..Len(hs) /\ new[k] = hs[f[k]]
      BY <2>1, <1>1, <1>2
  <2> HIDE DEF f
  <2>3. f[k] \in DOMAIN hs /\ q \in Range(hs[f[k]].lanes)
      BY <2>1, <2>2
  <2> QED  BY <2>1, <2>3 DEF Places
<1>4. ASSUME NEW j \in S, NEW k \in S, f[j] = f[k] PROVE j = k
  <2>1. j \in Int /\ k \in Int /\ i \in Int
      BY <1>1, <1>3
  <2> HIDE DEF S
  <2> QED  BY <2>1, <1>4
<1>5. IsFiniteSet(T)
  <2>1. T \in SUBSET (1..Len(hs))
      BY DEF Places
  <2>2. IsFiniteSet(1..Len(hs))
      BY <1>1, FS_Interval
  <2> QED  BY <2>1, <2>2, FS_Subset
<1>6. f \in Injection(S, T)
  <2>1. f \in [S -> T] /\ DOMAIN f = S
      BY <1>3
  <2> HIDE DEF f, S, T
  <2> QED  BY <2>1, <1>4 DEF Injection, IsInjective
<1> HIDE DEF S, T, f
<1>7. Cardinality(S) <= Cardinality(T)
    BY <1>5, <1>6, FS_Injection
<1> QED  BY <1>7 DEF S, T, new

\* Fewer places are fewer.
LEMMA FewerPlaces ==
    ASSUME NEW hs \in Seq(Heat), NEW new, NEW q, Places(q, new) \subseteq Places(q, hs)
    PROVE  Cardinality(Places(q, new)) <= Cardinality(Places(q, hs))
<1>1. Places(q, hs) \in SUBSET (1..Len(hs)) /\ IsFiniteSet(1..Len(hs))
    BY FS_Interval DEF Places
<1>2. IsFiniteSet(Places(q, hs))
    BY <1>1, FS_Subset
<1>3. Places(q, new) \in SUBSET Places(q, hs)
    OBVIOUS
<1> QED  BY <1>2, <1>3, FS_Subset

-----------------------------------------------------------------------------
(* What a step may do to a round, and what a request may have left to do.  *)

\* What a step that is left to take may be for.
Fits(step) ==
    /\ step.do \in {"reset", "advance"} => IsFed(step.round) /\ step.round \notin pinned
    /\ step.do = "admit" => ~IsFed(step.round)
    /\ step.do = "outage" => "outage" \in race.uses
Fit == {step \in Request : Fits(step)}
Fitting == todo \in Seq(Fit)

\* The ways in which a step rewrites a round.
DrawnForSlots(r) ==
    /\ IsFed(r) /\ MayRebuild(heats[r])
    /\ \/ r \notin pinned /\ heats'[r] = ResetToSlots(heats[r], race.size)
       \/ ~Without({"regenerate", "outage"}) /\ heats'[r] = SlotsRebuilt(heats[r])
DrawnForRoster(r) ==
    ~IsFed(r) /\ MayRebuild(heats[r]) /\ heats'[r] = RosterRebuilt(heats[r])
FilledAgain(r) ==
    /\ IsFed(r) /\ heats'[r] = Populated(heats[r], Winners(source[r]))
    /\ \/ "advance" \in race.uses
       \/ ~Idle /\ Head(todo).do \in {"fill", "advance"} /\ Head(todo).round = r /\ r \notin pinned
LanesKept(r) ==
    /\ heats'[r] \in Seq(Heat) /\ Len(heats'[r]) = Len(heats[r])
    /\ \A j \in DOMAIN heats[r] :
          /\ heats'[r][j].lanes = heats[r][j].lanes
          /\ HasSlot(heats[r][j]) => heats'[r][j] = heats[r][j]
    /\ IsFed(r) /\ ~MayRebuild(heats[r]) /\ MayRebuild(heats'[r]) => "clear_final" \in race.uses
ThinnedOut(r) ==
    /\ Thins(heats'[r], heats[r]) /\ ~Waiting(heats[r])
    /\ Without({"outage"}) => Field(heats[r]) \cap checkedIn \subseteq Field(heats'[r])
    /\ \/ LanesKept(r)
       \/ "outage" \in race.uses /\ ~MayRebuild(heats[r]) /\ ~MayRebuild(heats'[r])
       \/ ~(Field(heats[r]) \subseteq checkedIn) /\ (IsFed(r) => r \in pinned)
LateAdded(r) ==
    /\ ~IsFed(r) /\ ~MayRebuild(heats[r]) /\ ~(checkedIn \subseteq Field(heats[r]))
    /\ heats'[r] = heats[r] \o LateHeats(Ascending(checkedIn \ Field(heats[r])),
                                         Ascending(Field(heats[r])))
HeatGone(r) ==
    /\ "delete_heat" \in race.uses /\ todo' = <<>>
    /\ \E i \in DOMAIN heats[r] : heats'[r] = CutOut(heats[r], i)
PickedByHand(r) == \E picks \in Picks : PinRoundField(r, picks)

Rewritten(r) ==
    \/ heats'[r] = heats[r]
    \/ DrawnForSlots(r) \/ DrawnForRoster(r) \/ FilledAgain(r)
    \/ ThinnedOut(r) \/ LateAdded(r) \/ HeatGone(r) \/ PickedByHand(r)

\* A round that is new.
Started(r) ==
    IF source'[r] = General THEN heats'[r] = RosterRebuilt(<<>>)
                            ELSE heats'[r] = SlotsRebuilt(<<>>)

Forms ==
    /\ race' = race
    /\ \A r \in Rounds \cap Rounds' : source'[r] = source[r] /\ Rewritten(r)
    /\ \A r \in Rounds' \ Rounds : Started(r)
    /\ \A r \in pinned' \ pinned : r \in Rounds /\ PickedByHand(r)
    /\ heats' = heats \/ UNCHANGED <<checkedIn, usable>>
    /\ usable' = usable \/ "outage" \in race.uses

LEMMA OneRoundForms ==
    ASSUME IInv, NEW r \in Rounds, NEW new, heats' = [heats EXCEPT ![r] = new],
           UNCHANGED <<source, pinned, checkedIn, usable, race>>, Rewritten(r)
    PROVE  Forms
<1>1. Rounds' = Rounds
    BY DEF Rounds
<1>2. \A p \in Rounds : p # r => heats'[p] = heats[p]
    BY DEF IInv, Shape
<1>3. \A p \in Rounds : Rewritten(p)
    BY <1>2 DEF Rewritten
<1> QED  BY <1>1, <1>3 DEF Forms

LEMMA NoRoundForms ==
    ASSUME UNCHANGED <<source, heats, race>>, pinned' \subseteq pinned,
           usable' = usable \/ "outage" \in race.uses
    PROVE  Forms
<1>1. Rounds' = Rounds
    BY DEF Rounds
<1> QED  BY <1>1 DEF Forms, Rewritten

\* What is left to do still fits when its rounds and pins have not changed.
LEMMA FitAgain ==
    ASSUME UNCHANGED <<source, pinned, race>>, todo' \in Seq(Fit)
    PROVE  Fitting'
<1>1. Rounds' = Rounds
    BY DEF Rounds
<1>2. Request' = Request /\ \A s : Fits(s)' = Fits(s)
    BY <1>1 DEF Request, Fits, IsFed
<1>3. Fit' = Fit
    BY <1>2 DEF Fit
<1> QED  BY <1>3 DEF Fitting

LEMMA StepsFit ==
    ASSUME IInv, NEW do \in Dos, NEW S \in SUBSET Rounds, \A r \in S : Fits(Step(do, r))
    PROVE  Steps(do, S) \in Seq(Fit)
<1>1. S \in SUBSET Int /\ IsFiniteSet(S)
    BY RoundsAreFinite, FS_Subset
<1>2. Lists(Ascending(S), S)
    BY <1>1, AscendingOrder
<1>3. Ascending(S) \in Seq(S)
    BY <1>2 DEF Lists
<1>4. \A i \in 1..Len(Ascending(S)) : Step(do, Ascending(S)[i]) \in Fit
    BY <1>3 DEF Step, Request, Fit
<1> QED  BY <1>3, <1>4 DEF Steps

LEMMA ProceedFits ==
    ASSUME IInv, Fitting, ~Idle, NEW hs, NEW more \in Seq(Fit), Proceed(hs, more)
    PROVE  Fitting'
<1>1. Tail(todo) \in Seq(Fit)
    BY DEF Fitting, Idle
<1>2. todo' \in Seq(Fit)
    BY <1>1 DEF Proceed
<1> QED  BY <1>2, FitAgain DEF Proceed

LEMMA ProceedForms ==
    ASSUME IInv, NEW r \in Rounds, NEW new, NEW more, Proceed([heats EXCEPT ![r] = new], more),
           heats'[r] = new => Rewritten(r)
    PROVE  Forms
<1>1. heats'[r] = new
    BY DEF IInv, Shape, Proceed
<1> QED  BY <1>1, OneRoundForms DEF Proceed

LEMMA NothingFits == <<>> \in Seq(Fit)
OBVIOUS

-----------------------------------------------------------------------------
(* Step by step.                                                           *)

LEMMA ResetForms ==
    ASSUME IInv, Fitting, ~Idle, NEW r \in Rounds, IsFed(r), r \notin pinned, Reset(r)
    PROVE  Forms /\ Fitting'
<1>1. CASE MayRebuild(heats[r])
  <2>1. Proceed([heats EXCEPT ![r] = ResetToSlots(heats[r], race.size)], <<>>)
      BY <1>1 DEF Reset
  <2>2. heats'[r] = ResetToSlots(heats[r], race.size) => Rewritten(r)
      BY <1>1 DEF Rewritten, DrawnForSlots
  <2> QED  BY <2>1, <2>2, ProceedForms, ProceedFits, NothingFits
<1>2. CASE ~MayRebuild(heats[r])
  <2>1. Proceed(heats, <<>>)
      BY <1>2 DEF Reset
  <2> QED  BY <2>1, NoRoundForms, ProceedFits, NothingFits DEF Proceed
<1> QED  BY <1>1, <1>2

LEMMA TriggerForms ==
    ASSUME IInv, Fitting, ~Idle, NEW r \in Rounds, Trigger(r) PROVE Forms /\ Fitting'
<1>1. RoundsToInvalidate(r) \in SUBSET Rounds /\ "fill" \in Dos
    BY DEF RoundsToInvalidate, Dos
<1>2. Steps("fill", RoundsToInvalidate(r)) \in Seq(Fit)
    BY <1>1, StepsFit DEF Fits, Step
<1>3. (IF RoundComplete(r) THEN Steps("fill", RoundsToInvalidate(r)) ELSE <<>>) \in Seq(Fit)
    BY <1>2, NothingFits
<1> QED  BY <1>3, NoRoundForms, ProceedFits DEF Trigger, Proceed

LEMMA FillForms ==
    ASSUME IInv, Fitting, ~Idle, NEW r \in Rounds, Head(todo).round = r, Head(todo).do = "fill",
           Fill(r)
    PROVE  Forms /\ Fitting'
<1>1. CASE IsFed(r) /\ r \notin pinned /\ Decided(r)
  <2>1. Proceed([heats EXCEPT ![r] = Populated(heats[r], Winners(source[r]))], <<>>)
      BY <1>1 DEF Fill
  <2>2. heats'[r] = Populated(heats[r], Winners(source[r])) => Rewritten(r)
      BY <1>1 DEF Rewritten, FilledAgain
  <2> QED  BY <2>1, <2>2, ProceedForms, ProceedFits, NothingFits
<1>2. CASE ~(IsFed(r) /\ r \notin pinned /\ Decided(r))
  <2>1. Proceed(heats, <<>>)
      BY <1>2 DEF Fill
  <2> QED  BY <2>1, NoRoundForms, ProceedFits, NothingFits DEF Proceed
<1> QED  BY <1>1, <1>2

LEMMA AdvanceForms ==
    ASSUME IInv, Fitting, ~Idle, NEW r \in Rounds, Head(todo).round = r, Head(todo).do = "advance",
           IsFed(r), r \notin pinned, Advance(r)
    PROVE  Forms /\ Fitting'
<1>1. Proceed([heats EXCEPT ![r] = Populated(heats[r], Winners(source[r]))], <<>>)
    BY DEF Advance
<1>2. heats'[r] = Populated(heats[r], Winners(source[r])) => Rewritten(r)
    BY DEF Rewritten, FilledAgain
<1> QED  BY <1>1, <1>2, ProceedForms, ProceedFits, NothingFits

LEMMA WithdrawForms ==
    ASSUME IInv, Fitting, ~Idle, NEW r \in Rounds, Withdraw(r) PROVE Forms /\ Fitting'
<1> DEFINE hs == heats[r]
           gone == Field(hs) \ checkedIn
           again == <<Step("reset", r), Step("advance", r)>>
<1>1. hs \in Seq(Heat) /\ race \in Races
    BY DEF IInv, Shape
<1>2. CASE Proceed(heats, <<>>)
    BY <1>2, NoRoundForms, ProceedFits, NothingFits DEF Proceed
<1>3. CASE IsFed(r) /\ r \notin pinned /\ Proceed(heats, IF MayRebuild(hs) THEN again ELSE <<>>)
  <2>1. Step("reset", r) \in Fit /\ Step("advance", r) \in Fit
      BY <1>3 DEF Step, Fit, Fits, Request, Dos
  <2>2. again \in Seq(Fit)
      BY <2>1
  <2>3. (IF MayRebuild(hs) THEN again ELSE <<>>) \in Seq(Fit)
      BY <2>2, NothingFits
  <2> QED  BY <2>3, <1>3, NoRoundForms, ProceedFits DEF Proceed
<1>4. CASE ~IsFed(r) /\ MayRebuild(hs) /\ Proceed([heats EXCEPT ![r] = RosterRebuilt(hs)], <<>>)
  <2>1. heats'[r] = RosterRebuilt(hs) => Rewritten(r)
      BY <1>4 DEF Rewritten, DrawnForRoster
  <2> QED  BY <2>1, <1>4, ProceedForms, ProceedFits, NothingFits
<1>5. CASE gone # {} /\ (IsFed(r) => r \in pinned)
           /\ Proceed([heats EXCEPT ![r] = Vacated(hs, gone)], <<>>)
  <2>1. Field(hs) # {} /\ ~(Field(hs) \subseteq checkedIn)
      BY <1>5
  <2>2. ~Waiting(hs)
      BY <2>1, <1>1, WaitingFacts
  <2>3. Thins(Vacated(hs, gone), hs) /\ Field(hs) \ gone \subseteq Field(Vacated(hs, gone))
      BY <1>1, VacatedThins
  <2>4. Field(hs) \cap checkedIn \subseteq Field(Vacated(hs, gone))
      BY <2>3
  <2> HIDE DEF gone
  <2>5. heats'[r] = Vacated(hs, gone) => Rewritten(r)
      BY <1>5, <2>1, <2>2, <2>3, <2>4 DEF Rewritten, ThinnedOut
  <2> QED  BY <2>5, <1>5, ProceedForms, ProceedFits, NothingFits
<1> QED  BY <1>2, <1>3, <1>4, <1>5 DEF Withdraw

LEMMA FailsForms == ASSUME IInv, Fails PROVE Forms /\ Fitting'
BY NoRoundForms, FitAgain, NothingFits DEF Fails

LEMMA RedrawForms ==
    ASSUME IInv, Fitting, ~Idle, NEW r \in Rounds, ~IsFed(r), MayRebuild(heats[r]), Redraw(r)
    PROVE  Forms /\ Fitting'
<1>1. CASE Fails
    BY <1>1, FailsForms
<1>2. CASE Proceed([heats EXCEPT ![r] = RosterRebuilt(heats[r])], <<>>)
  <2>1. heats'[r] = RosterRebuilt(heats[r]) => Rewritten(r)
      BY DEF Rewritten, DrawnForRoster
  <2> QED  BY <2>1, <1>2, ProceedForms, ProceedFits, NothingFits
<1> QED  BY <1>1, <1>2 DEF Redraw

LEMMA AdmitForms ==
    ASSUME IInv, Fitting, ~Idle, NEW r \in Rounds, ~IsFed(r), Admit(r) PROVE Forms /\ Fitting'
<1> DEFINE hs == heats[r]
           new == hs \o LateHeats(Ascending(checkedIn \ Field(hs)), Ascending(Field(hs)))
<1>1. CASE Proceed(heats, <<>>)
    BY <1>1, NoRoundForms, ProceedFits, NothingFits DEF Proceed
<1>2. CASE MayRebuild(hs) /\ Redraw(r)
    BY <1>2, RedrawForms
<1>3. CASE /\ ~MayRebuild(hs) /\ checkedIn \ Field(hs) # {}
           /\ Proceed([heats EXCEPT ![r] = new], <<>>)
  <2>1. heats'[r] = new => Rewritten(r)
      BY <1>3 DEF Rewritten, LateAdded
  <2> HIDE DEF new
  <2> QED  BY <2>1, <1>3, ProceedForms, ProceedFits, NothingFits
<1>4. CASE Fails
    BY <1>4, FailsForms
<1> QED  BY <1>1, <1>2, <1>3, <1>4 DEF Admit

LEMMA OutageForms ==
    ASSUME IInv, Fitting, ~Idle, NEW r \in Rounds, "outage" \in race.uses, Outage(r)
    PROVE  Forms /\ Fitting'
<1>1. heats[r] \in Seq(Heat) /\ Settled(heats[r]) /\ race \in Races
    BY DEF IInv, Shape
<1>2. CASE ~MayRebuild(heats[r]) /\ Proceed([heats EXCEPT ![r] = Relaned(heats[r])], <<>>)
  <2>1. Thins(Relaned(heats[r]), heats[r]) /\ ~Waiting(heats[r])
      BY <1>1, <1>2, RelanedThins, WaitingFacts
  <2>2. ~MayRebuild(Relaned(heats[r]))
    <3>1. PICK i \in DOMAIN heats[r] : IsResult(heats[r][i].out)
        BY <1>2 DEF MayRebuild
    <3>2. i \in DOMAIN Relaned(heats[r]) /\ Relaned(heats[r])[i] = heats[r][i]
        BY <3>1 DEF Relaned, HeatRelaned
    <3> QED  BY <3>1, <3>2 DEF MayRebuild
  <2>3. heats'[r] = Relaned(heats[r]) => Rewritten(r)
      BY <1>2, <2>1, <2>2 DEF Rewritten, ThinnedOut, Without
  <2> QED  BY <2>3, <1>2, ProceedForms, ProceedFits, NothingFits
<1>3. CASE IsFed(r) /\ MayRebuild(heats[r])
           /\ Proceed([heats EXCEPT ![r] = SlotsRebuilt(heats[r])], <<>>)
  <2>1. heats'[r] = SlotsRebuilt(heats[r]) => Rewritten(r)
      BY <1>3 DEF Rewritten, DrawnForSlots, Without
  <2> QED  BY <2>1, <1>3, ProceedForms, ProceedFits, NothingFits
<1>4. CASE ~IsFed(r) /\ MayRebuild(heats[r]) /\ Redraw(r)
    BY <1>4, RedrawForms
<1> QED  BY <1>2, <1>3, <1>4 DEF Outage

LEMMA SettleForms == IInv /\ Fitting /\ Settle => Forms /\ Fitting'
<1> SUFFICES ASSUME IInv, Fitting, Settle PROVE Forms /\ Fitting'
    OBVIOUS
<1> DEFINE r == Head(todo).round
           do == Head(todo).do
<1>1. ~Idle
    BY DEF Settle
<1>2. Head(todo) \in Fit
    BY <1>1 DEF Fitting, Idle
<1>3. /\ r \in Rounds
      /\ do \in {"reset", "advance"} => IsFed(r) /\ r \notin pinned
      /\ do = "admit" => ~IsFed(r)
      /\ do = "outage" => "outage" \in race.uses
    BY <1>2 DEF Fit, Fits, Request
<1>4. CASE do = "reset" /\ Reset(r)
    BY <1>1, <1>3, <1>4, ResetForms
<1>5. CASE do = "trigger" /\ Trigger(r)
    BY <1>1, <1>3, <1>5, TriggerForms
<1>6. CASE do = "fill" /\ Fill(r)
    BY <1>1, <1>3, <1>6, FillForms
<1>7. CASE do = "advance" /\ Advance(r)
    BY <1>1, <1>3, <1>7, AdvanceForms
<1>8. CASE do = "withdraw" /\ Withdraw(r)
    BY <1>1, <1>3, <1>8, WithdrawForms
<1>9. CASE do = "admit" /\ Admit(r)
    BY <1>1, <1>3, <1>9, AdmitForms
<1>10. CASE do = "outage" /\ Outage(r)
    BY <1>1, <1>3, <1>10, OutageForms
<1> QED  BY <1>4, <1>5, <1>6, <1>7, <1>8, <1>9, <1>10 DEF Settle

-----------------------------------------------------------------------------
(* Request by request.                                                     *)

LEMMA CrashForms == IInv /\ Crash => Forms /\ Fitting'
BY NoRoundForms, FitAgain, NothingFits DEF Crash

LEMMA CascadeFits ==
    ASSUME IInv, NEW r \in Rounds
    PROVE  Cascade(r) \in Seq(Fit)
<1>1. RoundsToInvalidate(r) \in SUBSET Rounds /\ {"reset", "trigger"} \subseteq Dos
    BY DEF RoundsToInvalidate, Dos
<1>2. Steps("reset", RoundsToInvalidate(r)) \in Seq(Fit)
    BY <1>1, StepsFit DEF Fits, Step, RoundsToInvalidate
<1>3. Step("trigger", r) \in Fit
    BY <1>1 DEF Fit, Fits, Step, Request
<1> QED  BY <1>2, <1>3 DEF Cascade

LEMMA RecordingForms ==
    ASSUME IInv, NEW r \in Rounds, NEW i \in DOMAIN heats[r], NEW out,
           RecordHeatResult(r, i, out)
    PROVE  Forms /\ Fitting'
<1> DEFINE hs == heats[r]
           new == [hs EXCEPT ![i].out = out]
<1>1. hs \in Seq(Heat)
    BY DEF IInv, Shape
<1>2. ~Waiting(hs)
    BY DEF RecordHeatResult, Waiting
<1>3. heats' = [heats EXCEPT ![r] = new]
    BY DEF RecordHeatResult
<1>4. Thins(new, hs) /\ \A j \in DOMAIN hs : new[j].lanes = hs[j].lanes
  <2> HIDE DEF hs
  <2>1. i \in DOMAIN hs
      BY DEF hs
  <2> QED  BY <1>1, <2>1, RecordedThins
<1>5. /\ new \in Seq(Heat) /\ Len(new) = Len(hs)
      /\ \A j \in DOMAIN hs : HasSlot(hs[j]) => new[j] = hs[j]
      /\ new[i].out = out /\ \A j \in DOMAIN hs : j # i => new[j] = hs[j]
  <2>1. out \in Outcomes /\ ~HasSlot(hs[i]) /\ i \in DOMAIN hs
      BY DEF RecordHeatResult, Outcomes
  <2> HIDE DEF hs
  <2>2. hs[i] \in Heat
      BY <1>1, <2>1
  <2>3. [hs[i] EXCEPT !.out = out] \in Heat /\ [hs[i] EXCEPT !.out = out].out = out
      BY <2>1, <2>2 DEF Heat
  <2>4. /\ new \in Seq(Heat) /\ Len(new) = Len(hs)
        /\ new[i] = [hs[i] EXCEPT !.out = out] /\ \A j \in DOMAIN hs : j # i => new[j] = hs[j]
      BY <1>1, <2>1, <2>3
  <2> HIDE DEF new
  <2> QED  BY <2>1, <2>3, <2>4
<1>6. IsFed(r) /\ ~MayRebuild(hs) /\ MayRebuild(new) => "clear_final" \in race.uses
  <2>1. IsFed(r) /\ IsResult(hs[i].out) /\ ~IsResult(out) => "clear_final" \in race.uses
      BY DEF RecordHeatResult
  <2>2. DOMAIN new = DOMAIN hs
      OBVIOUS
  <2> HIDE DEF new, hs
  <2> QED  BY <2>1, <2>2, <1>5 DEF MayRebuild
<1> HIDE DEF new
<1>7. Field(new) = Field(hs)
    BY <1>4 DEF Field, Participants, Thins
<1>8. heats'[r] = new
    BY <1>3 DEF IInv, Shape
<1>9. Rewritten(r)
    BY <1>2, <1>4, <1>7, <1>8, <1>5, <1>6 DEF Rewritten, ThinnedOut, LanesKept
<1>10. Forms
    BY <1>3, <1>9, OneRoundForms DEF RecordHeatResult
<1> QED  BY <1>10, CascadeFits, FitAgain DEF RecordHeatResult

LEMMA RunOffForms == IInv /\ RecordRunOff => Forms /\ Fitting'
<1> SUFFICES ASSUME IInv, RecordRunOff PROVE Forms /\ Fitting'
    OBVIOUS
<1>1. RoundsToInvalidate(0) \in SUBSET Rounds /\ {"reset", "fill"} \subseteq Dos
    BY DEF RoundsToInvalidate, Dos
<1>2. Steps("reset", RoundsToInvalidate(0)) \in Seq(Fit)
    BY <1>1, StepsFit DEF Fits, Step, RoundsToInvalidate
<1>3. Steps("fill", Rounds) \in Seq(Fit)
    BY <1>1, StepsFit DEF Fits, Step
<1>4. RunOffCascade \in Seq(Fit)
    BY <1>2, <1>3 DEF RunOffCascade
<1> QED  BY <1>4, NoRoundForms, FitAgain DEF RecordRunOff

LEMMA CheckInForms == ASSUME IInv, NEW q, CheckIn(q) PROVE Forms /\ Fitting'
<1> DEFINE S == {r \in Rounds : ~IsFed(r)}
<1>1. S \in SUBSET Rounds /\ {"withdraw", "admit"} \subseteq Dos
    BY DEF Dos
<1>2. Steps("withdraw", Rounds) \in Seq(Fit)
    BY <1>1, StepsFit DEF Fits, Step
<1>3. Steps("admit", S) \in Seq(Fit)
    BY <1>1, StepsFit DEF Fits, Step
<1>4. todo' \in Seq(Fit)
    BY <1>2, <1>3 DEF CheckIn
<1> QED  BY <1>4, NoRoundForms, FitAgain DEF CheckIn

LEMMA ExcludedForms == ASSUME IInv, Fitting, NEW q, SetExcluded(q) PROVE Forms /\ Fitting'
<1>1. todo' \in Seq(Fit)
    BY DEF SetExcluded, Fitting
<1> QED  BY <1>1, NoRoundForms, FitAgain DEF SetExcluded

LEMMA OutagesForm == ASSUME IInv, NEW lanes, SetLaneOutages(lanes) PROVE Forms /\ Fitting'
<1> DEFINE S == {r \in Rounds : heats[r] # <<>>}
<1>1. S \in SUBSET Rounds /\ "outage" \in Dos /\ "outage" \in race.uses
    BY DEF Dos, SetLaneOutages
<1>2. Steps("outage", S) \in Seq(Fit)
    BY <1>1, StepsFit DEF Fits, Step
<1>3. todo' \in Seq(Fit)
    BY <1>2 DEF SetLaneOutages
<1> QED  BY <1>1, <1>3, NoRoundForms, FitAgain DEF SetLaneOutages

LEMMA CreateRoundForms ==
    ASSUME IInv, NEW s \in race.offered, CreateRound(s)
    PROVE  Forms /\ Fitting'
<1> DEFINE n == NextNumber
<1>1. n \notin Rounds
    BY NextNumberIsNew
<1>2. /\ Rounds' = Rounds \cup {n}
      /\ source' = [r \in Rounds \cup {n} |-> IF r = n THEN s ELSE source[r]]
      /\ heats' = [r \in Rounds \cup {n} |->
                      IF r # n THEN heats[r]
                      ELSE IF s = General THEN RosterRebuilt(<<>>) ELSE SlotsRebuilt(<<>>)]
      /\ todo' = AskToFill(s, n) /\ UNCHANGED <<pinned, checkedIn, usable, race>>
    BY DEF CreateRound, Rounds
<1> HIDE DEF n
<1>3. \A r \in Rounds : source'[r] = source[r] /\ heats'[r] = heats[r]
    BY <1>1, <1>2
<1>4. Started(n)
    BY <1>2 DEF Started
<1>5. Forms
    BY <1>1, <1>2, <1>3, <1>4 DEF Forms, Rewritten
<1>6. Step("fill", n) \in Fit'
    BY <1>2 DEF Fit, Fits, Request, Step, Dos
<1>7. todo' \in Seq(Fit')
  <2> HIDE DEF Fit
  <2> QED  BY <1>2, <1>6 DEF AskToFill
<1> QED  BY <1>5, <1>7 DEF Fitting

LEMMA DeleteRoundForms ==
    ASSUME IInv, NEW r \in Rounds, DeleteRound(r) PROVE Forms /\ Fitting'
<1>1. Rounds' = Rounds \ {r} /\ source' = [p \in Rounds \ {r} |-> source[p]]
    BY DEF DeleteRound, Restrict, Rounds
<1>2. heats' = [p \in Rounds \ {r} |-> heats[p]]
    BY DEF DeleteRound, Restrict
<1>3. Forms
    BY <1>1, <1>2 DEF DeleteRound, Forms, Rewritten
<1>4. todo' = <<>>
    BY DEF DeleteRound, Idle
<1> QED  BY <1>3, <1>4 DEF Fitting

LEMMA DeleteHeatForms ==
    ASSUME IInv, NEW r \in Rounds, NEW i \in DOMAIN heats[r], DeleteHeat(r, i)
    PROVE  Forms /\ Fitting'
<1>1. heats' = [heats EXCEPT ![r] = CutOut(heats[r], i)] /\ todo' = <<>>
    BY DEF DeleteHeat, CutOut, Idle
<1>2. heats'[r] = CutOut(heats[r], i)
    BY <1>1 DEF IInv, Shape
<1>3. Rewritten(r)
    BY <1>1, <1>2 DEF Rewritten, HeatGone, DeleteHeat
<1>4. Forms
    BY <1>1, <1>3, OneRoundForms DEF DeleteHeat
<1> QED  BY <1>1, <1>4, NothingFits, FitAgain DEF DeleteHeat

LEMMA RegenerateForms ==
    ASSUME IInv, NEW r \in Rounds, RegenerateRound(r) PROVE Forms /\ Fitting'
<1> DEFINE new == IF IsFed(r) THEN SlotsRebuilt(heats[r]) ELSE RosterRebuilt(heats[r])
<1>1. heats' = [heats EXCEPT ![r] = new]
    BY DEF RegenerateRound
<1>2. heats'[r] = new
    BY <1>1 DEF IInv, Shape
<1>3. Rewritten(r)
    BY <1>2 DEF Rewritten, DrawnForSlots, DrawnForRoster, RegenerateRound, Without
<1> HIDE DEF new
<1>4. Forms
    BY <1>1, <1>3, OneRoundForms DEF RegenerateRound
<1>5. Step("fill", r) \in Fit
    BY DEF Fit, Fits, Request, Step, Dos
<1>6. todo' \in Seq(Fit)
    BY <1>5, NothingFits DEF RegenerateRound, AskToFill
<1> QED  BY <1>4, <1>6, FitAgain DEF RegenerateRound

LEMMA PinForms ==
    ASSUME IInv, NEW r \in Rounds, NEW picks \in Picks, PinRoundField(r, picks)
    PROVE  Forms /\ Fitting'
<1>1. Rounds' = Rounds /\ pinned' = pinned \cup {r} /\ todo' = <<>>
    BY DEF PinRoundField, Rounds, Idle
<1>2. PickedByHand(r)
    BY DEF PickedByHand
<1>3. \A p \in Rounds \ {r} : heats'[p] = heats[p]
    BY DEF PinRoundField, IInv, Shape
<1>4. \A p \in Rounds : Rewritten(p)
    BY <1>2, <1>3 DEF Rewritten
<1>5. Forms
    BY <1>1, <1>2, <1>4 DEF Forms, PinRoundField
<1> QED  BY <1>1, <1>5 DEF Fitting

LEMMA UnpinForms ==
    ASSUME IInv, NEW r \in Rounds, UnpinRoundField(r) PROVE Forms /\ Fitting'
<1>1. Forms
    BY NoRoundForms DEF UnpinRoundField
<1>2. IsFed(r) /\ Rounds' = Rounds /\ source' = source /\ pinned' = pinned \ {r}
    BY DEF UnpinRoundField, IInv, Scalars, Rounds
<1>3. Step("reset", r) \in Fit' /\ Step("fill", r) \in Fit'
    BY <1>2 DEF Fit, Fits, Request, Step, Dos, IsFed
<1>4. todo' \in Seq(Fit')
  <2> HIDE DEF Fit
  <2> QED  BY <1>3 DEF UnpinRoundField
<1> QED  BY <1>1, <1>4 DEF Fitting

LEMMA AdvanceRoundForms ==
    ASSUME IInv, NEW r \in Rounds, AdvanceRound(r) PROVE Forms /\ Fitting'
<1> DEFINE new == Populated(heats[r], Winners(source[r]))
<1>1. heats' = [heats EXCEPT ![r] = new]
    BY DEF AdvanceRound
<1>2. heats'[r] = new
    BY <1>1 DEF IInv, Shape
<1>3. Rewritten(r)
    BY <1>2 DEF Rewritten, FilledAgain, AdvanceRound
<1> HIDE DEF new
<1>4. Forms
    BY <1>1, <1>3, OneRoundForms DEF AdvanceRound
<1> QED  BY <1>4, NothingFits, FitAgain DEF AdvanceRound, Idle

\* Whatever happens to a race, each of its rounds is rewritten in one of these
\* ways, and what a request has left to do is for rounds it may be done to.
LEMMA StepsForm == IInv /\ Fitting /\ [Next]_vars => Forms /\ Fitting'
<1> SUFFICES ASSUME IInv, Fitting, [Next]_vars PROVE Forms /\ Fitting'
    OBVIOUS
<1>1. ASSUME NEW r \in Rounds, RoundRequest(r) PROVE Forms /\ Fitting'
    BY <1>1, RecordingForms, DeleteHeatForms, DeleteRoundForms, RegenerateForms, PinForms,
       UnpinForms, AdvanceRoundForms DEF RoundRequest
<1>2. ASSUME UNCHANGED vars PROVE Forms /\ Fitting'
  <2>1. todo' \in Seq(Fit)
      BY <1>2 DEF vars, Fitting
  <2> QED  BY <1>2, <2>1, NoRoundForms, FitAgain DEF vars
<1>3. ASSUME NEW s \in race.offered, CreateRound(s) PROVE Forms /\ Fitting'
    BY <1>3, CreateRoundForms
<1> QED  BY <1>1, <1>2, <1>3, SettleForms, CrashForms, CheckInForms, ExcludedForms,
            RunOffForms, OutagesForm DEF Next

LEMMA EverFitting == Spec => []Fitting
<1>1. Init => Fitting
    BY DEF Init, Fitting
<1>2. IInv /\ Fitting /\ [Next]_vars => Fitting'
    BY StepsForm
<1> QED  BY <1>1, <1>2, Invariant, PTL DEF Spec

-----------------------------------------------------------------------------
(* A line-up picked by hand, and who is drawn.                             *)

LEMMA NewHeats == IInv' /\ race' = race => \A r \in Rounds' : heats'[r] \in Seq(Heat)
<1> SUFFICES ASSUME IInv', race' = race PROVE \A r \in Rounds' : heats'[r] \in Seq(Heat)
    OBVIOUS
<1>1. Heat' = Heat
    BY DEF Heat, Lanes, Outcomes
<1>2. heats' \in [Rounds' -> Seq(Heat')]
    BY DEF IInv, Shape
<1> QED  BY <1>1, <1>2

\* What a round looks like when a hand has picked its line-up.
LEMMA PickFacts ==
    ASSUME IInv, NEW r \in Rounds, PickedByHand(r)
    PROVE  /\ Fielded(heats'[r]) /\ \A i \in DOMAIN heats'[r] : Distinct(heats'[r][i])
           /\ \A q \in Racers \ checkedIn : Places(q, heats'[r]) = {}
<1>1. PICK picks \in Picks : PinRoundField(r, picks)
    BY DEF PickedByHand
<1> DEFINE hs == heats[r]
           slots == ResetToSlots(hs, 2)
<1>2. World /\ hs \in Seq(Heat) /\ race \in Races
    BY InvariantIsWorld DEF IInv, Shape
<1>3. picks \in [1..2 -> Racers] /\ Len(picks) = 2 /\ picks \in Seq(Racers)
  <2> DEFINE n == 2
  <2>1. n \in Nat /\ picks \in [1..n -> Racers]
      BY DEF Picks
  <2> HIDE DEF n
  <2>2. picks \in Seq(Racers) /\ Len(picks) = n
      BY <2>1
  <2> QED  BY <2>1, <2>2 DEF n
<1>4. Range(picks) \subseteq checkedIn /\ Cardinality(Range(picks)) = 2
    BY <1>1, <1>3 DEF PinRoundField, MayBePicked
<1>5. picks \in Seq(checkedIn)
  <2>1. \A k \in DOMAIN picks : picks[k] \in checkedIn
      BY <1>4 DEF Range
  <2>2. picks \in Seq(Racers)
      BY <1>3
  <2> QED  BY ONLY <2>1, <2>2
<1>6. Apart(picks)
  <2>1. picks[1] # picks[2]
    <3> SUFFICES ASSUME picks[1] = picks[2] PROVE FALSE
        OBVIOUS
    <3>1. Range(picks) = {picks[1]}
        BY <1>3 DEF Range
    <3>2. Cardinality({picks[1]}) = 1
        BY FS_Singleton
    <3> QED  BY <3>1, <3>2, <1>4
  <2> QED  BY <2>1, <1>3 DEF Apart
<1>7. 2 \in 1..race.size + Cardinality(Racers)
    BY <1>2, RacersAssumption, RaceFacts, SeatFacts
<1>8. PICK count \in Nat : count >= 2 /\ slots = Draw(count, Slots(2))
    BY <1>2, <1>7, ResetIsDraw
<1>9. /\ slots \in Seq(Heat) /\ Sound(slots) /\ Waiting(slots) /\ Numbered(slots)
      /\ \A i \in DOMAIN slots : Range(slots[i].lanes) \subseteq {-k : k \in 1..2} \cup {Nobody}
    BY <1>2, <1>7, <1>8, SlotsDrawn
<1>10. heats'[r] = Populated(slots, picks)
    BY <1>1, <1>3 DEF PinRoundField, IInv, Shape
<1> HIDE DEF slots
<1>11. Cardinality(OpenSlots(slots)) <= 2
  <2>1. \A x \in OpenSlots(slots) : x \in {-1, -2}
    <3> SUFFICES ASSUME NEW x \in OpenSlots(slots) PROVE x \in {-1, -2}
        OBVIOUS
    <3>1. PICK i \in DOMAIN slots : x < 0 /\ x \in Range(slots[i].lanes)
        BY <1>2, <1>9, SeatedFacts
    <3>2. x \in {-k : k \in 1..2} \cup {Nobody}
        BY <3>1, <1>9
    <3> QED  BY <3>1, <3>2 DEF Nobody
  <2>2. OpenSlots(slots) \in SUBSET {-1, -2}
      BY <2>1
  <2>3. IsFiniteSet({-1, -2}) /\ Cardinality({-1, -2}) <= 2
    <3>1. IsFiniteSet({-1}) /\ Cardinality({-1}) = 1
        BY FS_Singleton
    <3>2. {-1, -2} = {-1} \cup {-2} /\ -2 \notin {-1}
        OBVIOUS
    <3>3. IsFiniteSet({-1} \cup {-2}) /\ Cardinality({-1} \cup {-2}) = 1 + 1
        BY <3>1, <3>2, FS_AddElement
    <3> QED  BY <3>2, <3>3
  <2> QED  BY <2>2, <2>3, FS_Subset, FS_CardinalityType
<1>12. Populated(slots, picks) = Resolved(slots, picks)
  <2>1. ~(Len(picks) < Cardinality(OpenSlots(slots)))
      BY <1>2, <1>3, <1>9, <1>11, SeatedFacts
  <2>2. picks # <<>>
    <3>1. Len(<<>>) = 0 /\ Len(picks) = 2
        BY <1>3
    <3> QED  BY ONLY <3>1
  <2> QED  BY <2>1, <2>2 DEF Populated
<1>13. Fielded(Resolved(slots, picks))
       /\ \A i \in DOMAIN Resolved(slots, picks) : Distinct(Resolved(slots, picks)[i])
  <2>1. Len(picks) >= Cardinality(OpenSlots(slots))
      BY <1>2, <1>3, <1>9, <1>11, SeatedFacts
  <2> QED  BY <2>1, <1>2, <1>3, <1>6, <1>9, WaitingIsFilled
<1>14. ASSUME NEW q \in Racers \ checkedIn PROVE Places(q, Populated(slots, picks)) = {}
  <2>1. checkedIn \in SUBSET Racers
      BY <1>2 DEF World
  <2>2. Places(q, Populated(slots, picks)) \subseteq Places(q, slots)
      BY <2>1, <1>2, <1>5, <1>6, <1>9, PopulatedPlaces
  <2>3. Places(q, slots) = {}
      BY <1>9 DEF Places, Waiting
  <2> QED  BY <2>2, <2>3
<1> QED  BY <1>10, <1>12, <1>13, <1>14

LEMMA WinnersAreApart ==
    ASSUME IInv, NEW r \in Rounds
    PROVE  Winners(source[r]) \in Seq(checkedIn) /\ Apart(Winners(source[r]))
<1>1. source[r] \in Int
    BY DEF IInv, Shape
<1> QED  BY <1>1, WinnersAdvanceOnce DEF Apart

\* Latecomers come with heats.
LEMMA LateHeatsAreMore ==
    ASSUME World, NEW hs \in Seq(Heat)
    PROVE  LET new == hs \o LateHeats(Ascending(checkedIn \ Field(hs)), Ascending(Field(hs)))
           IN  Len(new) > Len(hs)
<1> DEFINE newcomers == Ascending(checkedIn \ Field(hs))
           others == Ascending(Field(hs))
           m == Larger(Len(newcomers), Cardinality(usable))
           late == LateHeats(newcomers, others)
<1>1. Cardinality(usable) \in Nat \ {0}
    BY LanesInService DEF World
<1>2. newcomers \in Seq(Seats)
    BY AscendingRacers DEF World
<1>3. Len(newcomers) \in Nat
    BY <1>2
<1> HIDE DEF newcomers, others
<1>4. m \in Nat \ {0}
    BY <1>1, <1>3 DEF Larger
<1>5. late = [i \in 1..m |-> RotationHeat(newcomers, others, i)]
    BY DEF LateHeats
<1> HIDE DEF m, late
<1>6. Len(late) = m /\ late \in Seq({late[i] : i \in 1..m})
    BY <1>4, <1>5
<1>7. Len(hs \o late) = Len(hs) + m
    BY <1>6
<1>8. Len(hs) \in Nat
    OBVIOUS
<1>9. Len(hs \o late) > Len(hs)
    BY <1>4, <1>7, <1>8
<1> QED  BY <1>9 DEF late, newcomers, others

\* Rewriting a round gives no place to a car that is not checked in, unless it
\* fills up a latecomer's heat.
LEMMA RewritingAbsent ==
    ASSUME IInv, NEW r \in Rounds, heats'[r] \in Seq(Heat), Rewritten(r),
           NEW q \in Racers \ checkedIn
    PROVE  \/ Cardinality(Places(q, heats'[r])) <= Cardinality(Places(q, heats[r]))
           \/ FillsLateHeats(q, r)
<1> DEFINE hs == heats[r]
           new == heats'[r]
           Fewer == Places(q, new) \subseteq Places(q, hs)
<1>1. World /\ hs \in Seq(Heat) /\ race \in Races /\ checkedIn \in SUBSET Racers
    BY InvariantIsWorld DEF IInv, Shape, World
<1>2. q \in Racers /\ q \notin checkedIn /\ q # Nobody
    BY RacersAssumption DEF Nobody
<1>3. CASE new = hs
    BY <1>3, <1>1, FewerPlaces
<1>4. CASE DrawnForSlots(r)
  <2>1. Waiting(new)
      BY <1>1, <1>4, SlotsAreWhole DEF DrawnForSlots
  <2>2. Places(q, new) = {}
      BY <2>1, <1>2 DEF Places, Waiting
  <2> QED  BY <2>2, <1>1, FewerPlaces
<1>5. CASE DrawnForRoster(r)
  <2>1. new = RosterRebuilt(hs)
      BY <1>5 DEF DrawnForRoster
  <2>2. \A i \in DOMAIN new : Range(new[i].lanes) \subseteq checkedIn \cup {Nobody}
      BY <2>1, <1>1, RosterIsWhole
  <2>3. Places(q, new) = {}
      BY <2>2, <1>2 DEF Places
  <2> QED  BY <2>3, <1>1, FewerPlaces
<1>6. CASE FilledAgain(r)
  <2>1. new = Populated(hs, Winners(source[r]))
      BY <1>6 DEF FilledAgain
  <2>2. Fewer
      BY <2>1, <1>1, <1>2, WinnersAreApart, PopulatedPlaces
  <2> QED  BY <2>2, <1>1, FewerPlaces
<1>7. CASE ThinnedOut(r)
  <2>1. Fewer
      BY <1>1, <1>2, <1>7, ThinnedFacts DEF ThinnedOut
  <2> QED  BY <2>1, <1>1, FewerPlaces
<1>8. CASE LateAdded(r) /\ q \in Field(hs)
  <2>1. Len(new) > Len(hs)
      BY <1>1, <1>8, LateHeatsAreMore DEF LateAdded
  <2> QED  BY <2>1, <1>8 DEF FillsLateHeats, LateAdded
<1>9. CASE LateAdded(r) /\ q \notin Field(hs)
  <2>1. Fewer
      BY <1>1, <1>2, <1>9, LatePlaces DEF LateAdded
  <2> QED  BY <2>1, <1>1, FewerPlaces
<1>10. CASE HeatGone(r)
    BY <1>1, <1>10, CutOutPlaces DEF HeatGone
<1>11. CASE PickedByHand(r)
  <2>1. Places(q, new) = {}
      BY <1>2, <1>11, PickFacts
  <2> QED  BY <2>1, <1>1, FewerPlaces
<1> QED  BY <1>3, <1>4, <1>5, <1>6, <1>7, <1>8, <1>9, <1>10, <1>11 DEF Rewritten

LEMMA StartingAbsent ==
    ASSUME IInv, NEW r \in Rounds', Started(r), NEW q \in Racers \ checkedIn
    PROVE  Cardinality(Places(q, heats'[r])) <= 0
<1>1. World /\ <<>> \in Seq(Heat)
    BY InvariantIsWorld
<1>2. q \in Racers /\ q \notin checkedIn /\ q # Nobody
    BY RacersAssumption DEF Nobody
<1>3. CASE heats'[r] = RosterRebuilt(<<>>)
  <2>1. \A i \in DOMAIN heats'[r] : Range(heats'[r][i].lanes) \subseteq checkedIn \cup {Nobody}
      BY <1>1, <1>3, RosterIsWhole
  <2>2. Places(q, heats'[r]) = {}
      BY <2>1, <1>2 DEF Places
  <2> QED  BY <2>2, FS_EmptySet
<1>4. CASE heats'[r] = SlotsRebuilt(<<>>)
  <2>1. Waiting(heats'[r])
      BY <1>1, <1>4, SlotsAreWhole
  <2>2. Places(q, heats'[r]) = {}
      BY <2>1, <1>2 DEF Places, Waiting
  <2> QED  BY <2>2, FS_EmptySet
<1> QED  BY <1>3, <1>4 DEF Started

LEMMA AbsentStay ==
    ASSUME IInv, Fitting, [Next]_vars, NEW r \in Rounds', NEW q \in Racers \ checkedIn'
    PROVE  \/ Cardinality(Places(q, heats'[r])) <=
                 IF r \in Rounds THEN Cardinality(Places(q, heats[r])) ELSE 0
           \/ FillsLateHeats(q, r)
<1>1. Forms /\ IInv'
    BY StepsForm, StepsKeep
<1>2. heats'[r] \in Seq(Heat)
    BY <1>1, NewHeats DEF Forms
<1>3. CASE r \in Rounds /\ heats'[r] = heats[r]
  <2>1. Cardinality(Places(q, heats'[r])) <= Cardinality(Places(q, heats[r]))
      BY <1>2, <1>3, FewerPlaces
  <2> QED  BY <2>1, <1>3
<1>4. CASE heats' # heats /\ r \in Rounds
  <2>1. Rewritten(r) /\ checkedIn' = checkedIn
      BY <1>1, <1>4 DEF Forms
  <2> QED  BY <2>1, <1>2, <1>4, RewritingAbsent
<1>5. CASE r \notin Rounds
  <2>1. Started(r)
      BY <1>1, <1>5 DEF Forms
  <2>2. DOMAIN heats = Rounds /\ DOMAIN heats' = Rounds'
      BY <1>1 DEF IInv, Shape
  <2>3. checkedIn' = checkedIn
      BY <2>2, <1>1, <1>5 DEF Forms
  <2> QED  BY <2>1, <2>3, <1>5, StartingAbsent
<1> QED  BY <1>3, <1>4, <1>5

\* Nobody who is not checked in is given a place by a draw, a reset, an
\* advancement, a pick or a round that is added; the one exception is a racer of
\* a round under way, who may fill up a latecomer's heat.
THEOREM AbsentCarsStayOut == Spec => AbsentCarsAreNotDrawn
<1> DEFINE Out == \A r \in Rounds' : \A q \in Racers \ checkedIn' :
                     \/ Cardinality(Places(q, heats'[r])) <=
                           IF r \in Rounds THEN Cardinality(Places(q, heats[r])) ELSE 0
                     \/ FillsLateHeats(q, r)
<1>1. IInv /\ Fitting /\ [Next]_vars => [Out]_vars
    BY AbsentStay
<1> QED  BY <1>1, Invariant, EverFitting, PTL DEF Spec, AbsentCarsAreNotDrawn

-----------------------------------------------------------------------------
(* A line-up picked by hand stands.                                        *)

\* It has no slots that an advancement could fill.
PicksAreFielded == Without({"regenerate", "outage"}) => \A r \in pinned : Fielded(heats[r])

\* How a step may rewrite a round that is picked by hand.
LEMMA RewritingPick ==
    ASSUME IInv, Without({"regenerate", "outage"}), NEW r \in Rounds, heats'[r] \in Seq(Heat),
           r \in pinned, Fielded(heats[r]), Rewritten(r)
    PROVE  /\ Fielded(heats'[r])
           /\ \/ heats'[r] = heats[r]
              \/ ThinnedOut(r) /\ Field(heats'[r]) \subseteq Field(heats[r])
              \/ HeatGone(r) \/ PickedByHand(r)
<1> DEFINE hs == heats[r]
           new == heats'[r]
<1>1. World /\ hs \in Seq(Heat) /\ race \in Races /\ IsFed(r) /\ checkedIn \in SUBSET Racers
    BY InvariantIsWorld DEF IInv, Shape, Scalars
<1>2. CASE new = hs
    BY <1>2
<1>3. ~DrawnForSlots(r) /\ ~DrawnForRoster(r) /\ ~LateAdded(r)
    BY <1>1 DEF DrawnForSlots, DrawnForRoster, LateAdded
<1>4. CASE FilledAgain(r)
  <2>1. new = hs
      BY <1>1, <1>4, WinnersAreApart, PopulatedPlaces DEF FilledAgain
  <2> QED  BY <2>1
<1>5. CASE ThinnedOut(r)
  <2>1. Fielded(new) /\ \A q \in Racers : Places(q, new) \subseteq Places(q, hs)
      BY <1>1, <1>5, ThinnedFacts DEF ThinnedOut
  <2>2. ASSUME NEW q \in Field(new) PROVE q \in Field(hs)
    <3>1. q \in Racers /\ \E i \in DOMAIN new : q \in Range(new[i].lanes)
        BY <1>1, SeatedFacts
    <3>2. \E i \in DOMAIN hs : q \in Range(hs[i].lanes)
        BY <2>1, <3>1 DEF Places
    <3> QED  BY <3>1, <3>2, <1>1, SeatedFacts
  <2> QED  BY <2>1, <2>2, <1>5
<1>6. CASE HeatGone(r)
  <2>1. PICK i \in DOMAIN hs : new = CutOut(hs, i)
      BY <1>6 DEF HeatGone
  <2> QED  BY <2>1, <1>1, <1>6, CutOutIsSound
<1>7. CASE PickedByHand(r)
    BY <1>7, PickFacts
<1> QED  BY <1>2, <1>3, <1>4, <1>5, <1>6, <1>7 DEF Rewritten

LEMMA PinnedFacts ==
    ASSUME IInv, Fitting, PicksAreFielded, [Next]_vars
    PROVE  /\ PicksAreFielded'
           /\ Without({"regenerate", "outage", "delete_heat"}) => \A r \in pinned \cap pinned' :
                 \/ /\ Field(heats'[r]) \subseteq Field(heats[r])
                    /\ Field(heats[r]) \cap checkedIn \subseteq Field(heats'[r])
                 \/ \E picks \in Picks : PinRoundField(r, picks)
<1>1. Forms /\ IInv'
    BY StepsForm, StepsKeep
<1>2. \A r \in Rounds' : heats'[r] \in Seq(Heat)
    BY <1>1, NewHeats DEF Forms
<1>3. pinned \subseteq Rounds /\ pinned' \subseteq Rounds'
    BY <1>1 DEF IInv, Scalars
<1>4. race' = race
    BY <1>1 DEF Forms
<1>5. ASSUME Without({"regenerate", "outage"}), NEW r \in pinned \cap pinned'
      PROVE  /\ Fielded(heats'[r])
             /\ \/ heats'[r] = heats[r]
                \/ ThinnedOut(r) /\ Field(heats'[r]) \subseteq Field(heats[r])
                \/ HeatGone(r) \/ PickedByHand(r)
  <2>1. r \in Rounds /\ r \in pinned /\ heats'[r] \in Seq(Heat) /\ Rewritten(r)
      BY <1>1, <1>2, <1>3 DEF Forms
  <2>2. Fielded(heats[r])
      BY <1>5, <2>1 DEF PicksAreFielded
  <2> QED  BY <2>1, <2>2, <1>5, RewritingPick
<1>6. ASSUME Without({"regenerate", "outage"}), NEW r \in pinned' \ pinned
      PROVE  Fielded(heats'[r])
    BY <1>1, PickFacts DEF Forms
<1>7. PicksAreFielded'
    BY <1>4, <1>5, <1>6 DEF PicksAreFielded, Without, Fielded
<1>8. ASSUME Without({"regenerate", "outage", "delete_heat"}), NEW r \in pinned \cap pinned'
      PROVE  \/ /\ Field(heats'[r]) \subseteq Field(heats[r])
                /\ Field(heats[r]) \cap checkedIn \subseteq Field(heats'[r])
             \/ \E picks \in Picks : PinRoundField(r, picks)
  <2>1. Without({"regenerate", "outage"}) /\ ~HeatGone(r) /\ Without({"outage"})
      BY <1>8 DEF Without, HeatGone
  <2>2. \/ heats'[r] = heats[r]
        \/ ThinnedOut(r) /\ Field(heats'[r]) \subseteq Field(heats[r])
        \/ PickedByHand(r)
      BY <2>1, <1>5
  <2> QED  BY <2>1, <2>2 DEF ThinnedOut, PickedByHand
<1> QED  BY <1>7, <1>8

LEMMA PicksStayFielded == Spec => []PicksAreFielded
<1>1. Init => PicksAreFielded
    BY DEF Init, PicksAreFielded
<1>2. IInv /\ Fitting /\ PicksAreFielded /\ [Next]_vars => PicksAreFielded'
    BY PinnedFacts
<1> QED  BY <1>1, <1>2, Invariant, EverFitting, PTL DEF Spec

\* A line-up picked by hand stays until it is picked again or handed back, and
\* loses nobody but a car that leaves: no cascade, no advancement and no crash
\* draws it again. Regenerating it, losing a lane and deleting its heats are left
\* out, since each of them does away with it.
THEOREM PicksAreKept == Spec => PickStands
<1> DEFINE Stands == Without({"regenerate", "outage", "delete_heat"}) =>
                         \A r \in pinned \cap pinned' :
                             \/ /\ Field(heats'[r]) \subseteq Field(heats[r])
                                /\ Field(heats[r]) \cap checkedIn \subseteq Field(heats'[r])
                             \/ \E picks \in Picks : PinRoundField(r, picks)
<1>1. IInv /\ Fitting /\ PicksAreFielded /\ [Next]_vars => [Stands]_vars
    BY PinnedFacts
<1> QED  BY <1>1, Invariant, EverFitting, PicksStayFielded, PTL DEF Spec, PickStands

-----------------------------------------------------------------------------
(* Nobody races themself, and no round is half filled.                     *)

\* What is true of a round's heats, besides: its slots are the first ones where
\* heats are not deleted, and where they are, and advanceRound fills what is
\* left, every heat has every slot.
Good(hs) ==
    /\ Sound(hs)
    /\ "delete_heat" \notin race.uses => Numbered(hs)
    /\ {"delete_heat", "advance"} \subseteq race.uses => Full(hs)

\* The rounds whose slots a step may come to fill, and that it can fill them: the
\* slots are the first ones, or the round is reset before.
Needs(step) == {r \in Rounds : /\ IsFed(r) /\ r \notin pinned
                               /\ \/ step.do \in {"fill", "advance"} /\ r = step.round
                                  \/ step.do = "trigger" /\ r > step.round}
ResetBefore(q, i, r) == \E j \in 1..i-1 : q[j] = Step("reset", r)
Ready == \A i \in DOMAIN todo : \A r \in Needs(todo[i]) :
            Numbered(heats[r]) \/ ResetBefore(todo, i, r)

LanesStand == "outage" \notin race.uses => usable = 1..Width
GoodRounds == \A r \in Rounds : Good(heats[r]) /\ (Fielded(heats[r]) \/ IsFed(r))
Apt == ~DeletedThenFilled => LanesStand /\ GoodRounds /\ Ready

LEMMA FieldedIsGood ==
    ASSUME race \in Races, NEW hs \in Seq(Heat), Fielded(hs), \A i \in DOMAIN hs : Distinct(hs[i])
    PROVE  Good(hs) /\ Numbered(hs)
BY FieldedFacts DEF Sound, Good

LEMMA WholeIsGood ==
    ASSUME World, ~DeletedThenFilled, LanesStand, NEW hs \in Seq(Heat), Whole(hs)
    PROVE  Good(hs) /\ Numbered(hs)
<1>1. ASSUME {"delete_heat", "advance"} \subseteq race.uses PROVE Full(hs)
  <2>1. race.size <= Width /\ usable = 1..Width
      BY <1>1, WidthAssumption, RaceFacts DEF DeletedThenFilled, LanesStand, World
  <2>2. Cardinality(1..Width) = Width
      BY WidthAssumption, FS_Interval
  <2> QED  BY <2>1, <2>2 DEF Whole
<1> QED  BY <1>1 DEF Whole, Good

\* A round that is filled has the first slots.
LEMMA FilledIsNumbered ==
    ASSUME IInv, Ready, NEW r \in Rounds, Good(heats[r]), FilledAgain(r)
    PROVE  Numbered(heats[r])
<1>1. heats[r] \in Seq(Heat) /\ race \in Races
    BY DEF IInv, Shape
<1>2. CASE "delete_heat" \notin race.uses
    BY <1>2 DEF Good
<1>3. CASE {"delete_heat", "advance"} \subseteq race.uses
    BY <1>1, <1>3, FullIsNumbered DEF Good
<1>4. CASE "advance" \notin race.uses
  <2>1. /\ IsFed(r) /\ r \notin pinned /\ ~Idle
        /\ Head(todo).do \in {"fill", "advance"} /\ Head(todo).round = r
      BY <1>4 DEF FilledAgain
  <2>2. 1 \in DOMAIN todo /\ Head(todo) = todo[1]
      BY <2>1 DEF Idle, IInv, Shape
  <2>3. r \in Needs(todo[1])
      BY <2>1, <2>2 DEF Needs
  <2>4. ~ResetBefore(todo, 1, r)
      BY DEF ResetBefore
  <2> QED  BY <2>2, <2>3, <2>4 DEF Ready
<1> QED  BY <1>2, <1>3, <1>4

LEMMA RewritingGood ==
    ASSUME IInv, ~DeletedThenFilled, LanesStand, Ready, NEW r \in Rounds,
           Good(heats[r]), Fielded(heats[r]) \/ IsFed(r), heats'[r] \in Seq(Heat), Rewritten(r)
    PROVE  /\ Good(heats'[r]) /\ (Fielded(heats'[r]) \/ IsFed(r))
           /\ Numbered(heats[r]) => Numbered(heats'[r]) \/ todo' = <<>>
<1> DEFINE hs == heats[r]
           new == heats'[r]
<1>1. World /\ hs \in Seq(Heat) /\ race \in Races /\ checkedIn \in SUBSET Racers /\ Settled(hs)
    BY InvariantIsWorld DEF IInv, Shape, Scalars
<1>2. CASE new = hs
    BY <1>2
<1>3. CASE Fielded(new) /\ \A i \in DOMAIN new : Distinct(new[i])
    BY <1>3, <1>1, FieldedIsGood
<1>4. CASE DrawnForSlots(r)
  <2>1. Whole(new) /\ IsFed(r)
      BY <1>1, <1>4, SlotsAreWhole DEF DrawnForSlots
  <2> QED  BY <2>1, <1>1, WholeIsGood
<1>5. CASE DrawnForRoster(r)
  <2>1. new = RosterRebuilt(hs)
      BY <1>5 DEF DrawnForRoster
  <2>2. Whole(new) /\ Fielded(new)
      BY <2>1, <1>1, RosterIsWhole
  <2> QED  BY <2>2, <1>1, WholeIsGood
<1>6. CASE FilledAgain(r)
  <2>1. new = Populated(hs, Winners(source[r])) /\ Sound(hs) /\ Numbered(hs)
      BY <1>6, FilledIsNumbered DEF FilledAgain, Good
  <2>2. \/ new = hs
        \/ Fielded(new) /\ \A i \in DOMAIN new : Distinct(new[i])
      BY <2>1, <1>1, WinnersAreApart, PopulatedIsSound
  <2> QED  BY <2>2, <1>2, <1>3
<1>7. CASE ThinnedOut(r)
  <2>1. Fielded(hs) /\ \A i \in DOMAIN hs : Distinct(hs[i])
      BY <1>7 DEF ThinnedOut, Good, Sound
  <2>2. Fielded(new) /\ \A i \in DOMAIN new : Distinct(new[i])
      BY <2>1, <1>1, <1>7, ThinnedFacts DEF ThinnedOut
  <2> QED  BY <2>2, <1>3
<1>8. CASE LateAdded(r)
  <2>1. Fielded(hs) /\ \A i \in DOMAIN hs : Distinct(hs[i])
      BY <1>8 DEF LateAdded, Good, Sound
  <2>2. Fielded(new) /\ \A i \in DOMAIN new : Distinct(new[i])
      BY <2>1, <1>1, <1>8, LateIsWhole DEF LateAdded
  <2> QED  BY <2>2, <1>3
<1>9. CASE HeatGone(r)
  <2>1. PICK i \in DOMAIN hs : new = CutOut(hs, i)
      BY <1>9 DEF HeatGone
  <2>2. /\ Sound(hs) => Sound(new)
        /\ Full(hs) => Full(new)
        /\ Fielded(hs) => Fielded(new)
      BY <2>1, <1>1, CutOutIsSound
  <2> QED  BY <2>2, <1>9 DEF Good, HeatGone
<1>10. CASE PickedByHand(r)
    BY <1>3, <1>10, PickFacts
<1> QED  BY <1>2, <1>4, <1>5, <1>6, <1>7, <1>8, <1>9, <1>10 DEF Rewritten

LEMMA StartingGood ==
    ASSUME IInv, ~DeletedThenFilled, LanesStand, NEW r \in Rounds', Started(r)
    PROVE  /\ Good(heats'[r]) /\ (Fielded(heats'[r]) \/ source'[r] # General)
           /\ Numbered(heats'[r])
<1>1. World /\ <<>> \in Seq(Heat)
    BY InvariantIsWorld
<1>2. CASE source'[r] = General /\ heats'[r] = RosterRebuilt(<<>>)
  <2>1. Whole(heats'[r]) /\ Fielded(heats'[r]) /\ heats'[r] \in Seq(Heat)
    <3>1. Roster \in Seq(Seats) /\ 1 \in Nat \ {0}
        BY <1>1, AscendingRacers DEF Roster, World
    <3>2. RosterRebuilt(<<>>) \in Seq(Heat)
        BY <1>1, <3>1, RebuiltIsFresh DEF RosterRebuilt, Fresh
    <3> QED  BY <1>1, <1>2, <3>2, RosterIsWhole
  <2> QED  BY <2>1, <1>1, WholeIsGood
<1>3. CASE source'[r] # General /\ heats'[r] = SlotsRebuilt(<<>>)
  <2>1. Whole(heats'[r]) /\ heats'[r] \in Seq(Heat)
      BY <1>1, <1>3, SlotsAreWhole
  <2> QED  BY <2>1, <1>1, <1>3, WholeIsGood
<1> QED  BY <1>2, <1>3 DEF Started

\* The rounds are as good after a step as before.
LEMMA RoundsStayGood ==
    ASSUME IInv, Fitting, ~DeletedThenFilled, LanesStand, GoodRounds, Ready, [Next]_vars
    PROVE  /\ LanesStand' /\ GoodRounds'
           /\ \A r \in Rounds \cap Rounds' :
                 Numbered(heats[r]) => Numbered(heats'[r]) \/ todo' = <<>>
           /\ \A r \in Rounds' \ Rounds : Numbered(heats'[r])
<1>1. Forms /\ IInv'
    BY StepsForm, StepsKeep
<1>2. race' = race /\ \A r \in Rounds' : heats'[r] \in Seq(Heat)
    BY <1>1, NewHeats DEF Forms
<1>3. LanesStand'
    BY <1>1, <1>2 DEF LanesStand, Forms
<1>4. ASSUME NEW r \in Rounds'
      PROVE  /\ Good(heats'[r]) /\ (Fielded(heats'[r]) \/ source'[r] # General)
             /\ r \in Rounds /\ Numbered(heats[r]) => Numbered(heats'[r]) \/ todo' = <<>>
             /\ r \notin Rounds => Numbered(heats'[r])
  <2>1. CASE r \in Rounds
    <3>1. Rewritten(r) /\ source'[r] = source[r]
        BY <1>1, <2>1 DEF Forms
    <3>2. Good(heats[r]) /\ (Fielded(heats[r]) \/ IsFed(r))
        BY <2>1 DEF GoodRounds
    <3> QED  BY <2>1, <3>1, <3>2, <1>2, RewritingGood DEF IsFed
  <2>2. CASE r \notin Rounds
    <3>1. Started(r)
        BY <1>1, <2>2 DEF Forms
    <3> QED  BY <2>2, <3>1, StartingGood
  <2> QED  BY <2>1, <2>2
<1>5. GoodRounds'
    BY <1>2, <1>4 DEF GoodRounds, Good, IsFed, Fielded, Sound, Waiting, Numbered, Full, FullHeat
<1> QED  BY <1>3, <1>4, <1>5

-----------------------------------------------------------------------------
(* What is left to do can be done.                                         *)

\* The steps for a set of rounds: one for each.
LEMMA StepsFacts ==
    ASSUME IInv, NEW do, NEW S \in SUBSET Rounds
    PROVE  /\ Steps(do, S) \in Seq({Step(do, r) : r \in S})
           /\ \A r \in S : \E k \in DOMAIN Steps(do, S) : Steps(do, S)[k] = Step(do, r)
<1>1. S \in SUBSET Int /\ IsFiniteSet(S)
    BY RoundsAreFinite, FS_Subset
<1>2. Lists(Ascending(S), S)
    BY <1>1, AscendingOrder
<1> DEFINE q == Ascending(S)
           n == Cardinality(S)
           steps == [i \in 1..Len(q) |-> Step(do, q[i])]
<1>3. n \in Nat /\ q \in [1..n -> S] /\ \A r \in S : \E k \in 1..n : q[k] = r
    BY <1>2 DEF Lists
<1>4. Steps(do, S) = steps
    BY DEF Steps
<1> HIDE DEF q, n
<1>5. Len(q) = n
    BY <1>3
<1>6. steps \in Seq({Step(do, r) : r \in S}) /\ DOMAIN steps = 1..n
    BY <1>3, <1>5
<1>7. \A r \in S : \E k \in 1..n : steps[k] = Step(do, r)
    BY <1>3, <1>5
<1> QED  BY <1>4, <1>6, <1>7

\* Where every round is reset that anything after the resets may fill.
LEMMA ResetsFirst ==
    ASSUME IInv, NEW S \in SUBSET Rounds, NEW more \in Seq(Request),
           \A i \in DOMAIN more : Needs(more[i]) \subseteq S
    PROVE  LET q == Steps("reset", S) \o more
           IN  \A i \in DOMAIN q : \A r \in Needs(q[i]) : ResetBefore(q, i, r)
<1> DEFINE resets == Steps("reset", S)
           n == Len(resets)
           q == resets \o more
<1>1. /\ resets \in Seq({Step("reset", r) : r \in S})
      /\ \A r \in S : \E k \in DOMAIN resets : resets[k] = Step("reset", r)
    BY StepsFacts
<1> HIDE DEF resets
<1>2. n \in Nat /\ Len(more) \in Nat /\ DOMAIN resets = 1..n /\ DOMAIN more = 1..Len(more)
    BY <1>1
<1>3. /\ DOMAIN q = 1..n + Len(more)
      /\ \A i \in 1..n + Len(more) : q[i] = IF i <= n THEN resets[i] ELSE more[i - n]
    BY <1>1, <1>2
<1> HIDE DEF q
<1>4. ASSUME NEW i \in DOMAIN q, NEW r \in Needs(q[i]) PROVE ResetBefore(q, i, r)
  <2>1. i > n
    <3> SUFFICES ASSUME i <= n PROVE FALSE
        BY <1>2, <1>3
    <3>1. i \in 1..n /\ q[i] = resets[i]
        BY <1>2, <1>3
    <3>2. q[i].do = "reset"
        BY <3>1, <1>1, <1>2 DEF Step
    <3> QED  BY <3>2 DEF Needs
  <2>2. i - n \in DOMAIN more /\ q[i] = more[i - n]
      BY <2>1, <1>2, <1>3
  <2>3. r \in S
      BY <2>2
  <2>4. PICK k \in 1..n : resets[k] = Step("reset", r)
      BY <2>3, <1>1, <1>2
  <2>5. k \in 1..i-1 /\ q[k] = Step("reset", r)
      BY <2>1, <2>4, <1>2, <1>3
  <2> QED  BY <2>5 DEF ResetBefore
<1> QED  BY <1>4 DEF q, resets

\* What it takes for the steps that are left to be ready, when no round is added
\* and none is pinned or handed back.
LEMMA ReadyNow ==
    ASSUME UNCHANGED <<source, pinned>>,
           \A i \in DOMAIN todo' : \A r \in Needs(todo'[i]) :
               Numbered(heats'[r]) \/ ResetBefore(todo', i, r)
    PROVE  Ready'
<1>1. Rounds' = Rounds
    BY DEF Rounds
<1>2. ASSUME NEW i \in DOMAIN todo', NEW r \in Needs(todo[i])'
      PROVE  (Numbered(heats[r]) \/ ResetBefore(todo, i, r))'
  <2>1. r \in Needs(todo'[i])
      BY <1>1, <1>2 DEF Needs, IsFed
  <2> QED  BY <2>1 DEF ResetBefore, Numbered
<1> QED  BY <1>2 DEF Ready

LEMMA NothingIsReady == todo' = <<>> => Ready'
BY DEF Ready

\* What is left to do after a step that leaves more.
LEMMA TodoAfter ==
    ASSUME IInv, ~Idle, NEW more \in Seq(Request), todo' = more \o Tail(todo)
    PROVE  LET m == Len(more)
               n == Len(todo)
           IN  /\ m \in Nat /\ n \in Nat /\ n >= 1 /\ DOMAIN todo = 1..n /\ DOMAIN more = 1..m
               /\ Head(todo) = todo[1] /\ todo[1] \in Request
               /\ DOMAIN todo' = 1..m + n - 1
               /\ \A i \in 1..m + n - 1 : todo'[i] = IF i <= m THEN more[i] ELSE todo[i - m + 1]
<1> DEFINE m == Len(more)
           n == Len(todo)
           rest == Tail(todo)
<1>1. todo \in Seq(Request) /\ n \in Nat /\ n >= 1 /\ m \in Nat /\ Head(todo) = todo[1]
    BY DEF Idle, IInv, Shape
<1>2. rest \in Seq(Request) /\ Len(rest) = n - 1 /\ \A i \in 1..n-1 : rest[i] = todo[i + 1]
    BY <1>1
<1>3. todo' = more \o rest
    OBVIOUS
<1> HIDE DEF rest, m, n
<1>4. Len(more) = m
    BY DEF m
<1>5. /\ DOMAIN todo' = 1..m + (n - 1)
      /\ \A i \in 1..m + (n - 1) : todo'[i] = IF i <= m THEN more[i] ELSE rest[i - m]
    BY <1>2, <1>3, <1>4
<1>6. ASSUME NEW i \in 1..m + n - 1
      PROVE  todo'[i] = IF i <= m THEN more[i] ELSE todo[i - m + 1]
  <2>1. i \in 1..m + (n - 1)
      BY <1>1
  <2>2. CASE i <= m
      BY <2>1, <2>2, <1>5
  <2>3. CASE ~(i <= m)
    <3>1. i - m \in 1..n-1
        BY <2>1, <2>3, <1>1
    <3>2. todo'[i] = rest[i - m]
        BY <2>1, <2>3, <1>5
    <3>3. rest[i - m] = todo[i - m + 1]
        BY <3>1, <1>2
    <3> QED  BY <3>2, <3>3, <2>3
  <2> QED  BY <2>2, <2>3
<1>7. m + (n - 1) = m + n - 1
    BY <1>1
<1>8. /\ m \in Nat /\ n \in Nat /\ n >= 1 /\ DOMAIN todo = 1..n /\ DOMAIN more = 1..m
      /\ Head(todo) = todo[1] /\ todo[1] \in Request
      /\ DOMAIN todo' = 1..m + n - 1
      /\ \A i \in 1..m + n - 1 : todo'[i] = IF i <= m THEN more[i] ELSE todo[i - m + 1]
    BY <1>1, <1>5, <1>6, <1>7 DEF m, n
<1> QED  BY <1>8 DEF m, n

\* A step is taken, and others are left that it adds.
LEMMA ReadyAgain ==
    ASSUME IInv, Ready, ~Idle, NEW more \in Seq(Request), todo' = more \o Tail(todo),
           UNCHANGED <<source, pinned>>,
           \A r \in Rounds : Numbered(heats[r]) => Numbered(heats'[r]),
           \A r \in Rounds : Head(todo) = Step("reset", r) => Numbered(heats'[r]),
           \A i \in DOMAIN more : \A r \in Needs(more[i]) :
               Numbered(heats'[r]) \/ ResetBefore(more, i, r)
    PROVE  Ready'
<1> DEFINE m == Len(more)
           n == Len(todo)
<1>1. /\ m \in Nat /\ n \in Nat /\ n >= 1 /\ DOMAIN todo = 1..n /\ DOMAIN more = 1..m
      /\ Head(todo) = todo[1]
      /\ DOMAIN todo' = 1..m + n - 1
      /\ \A i \in 1..m + n - 1 : todo'[i] = IF i <= m THEN more[i] ELSE todo[i - m + 1]
    BY TodoAfter
<1> HIDE DEF m, n
<1>2. ASSUME NEW i \in DOMAIN todo', NEW r \in Needs(todo'[i])
      PROVE  Numbered(heats'[r]) \/ ResetBefore(todo', i, r)
  <2>1. CASE i <= m
    <3>1. i \in DOMAIN more /\ todo'[i] = more[i]
        BY <2>1, <1>1
    <3>2. Numbered(heats'[r]) \/ ResetBefore(more, i, r)
        BY <3>1
    <3>3. ASSUME NEW j \in 1..i-1 PROVE todo'[j] = more[j]
      <4>1. i \in Int /\ j \in 1..m + n - 1 /\ j <= m
          BY <2>1, <1>1
      <4> QED  BY <4>1, <1>1
    <3> QED  BY <3>2, <3>3 DEF ResetBefore
  <2>2. CASE i > m
    <3> DEFINE k == i - m + 1
    <3>1. k \in DOMAIN todo /\ todo'[i] = todo[k]
        BY <2>2, <1>1
    <3>2. r \in Rounds
        BY DEF Needs
    <3>3. CASE Numbered(heats[r])
        BY <3>2, <3>3
    <3>4. ASSUME NEW j \in 1..k-1, todo[j] = Step("reset", r)
          PROVE  Numbered(heats'[r]) \/ ResetBefore(todo', i, r)
      <4>1. CASE j = 1
          BY <3>2, <3>4, <4>1, <1>1
      <4>2. CASE j # 1
        <5> DEFINE x == j + m - 1
        <5>1. x \in 1..i-1 /\ x \in 1..m + n - 1 /\ ~(x <= m) /\ x - m + 1 = j
            BY <2>2, <4>2, <1>1
        <5>2. todo'[x] = todo[j]
            BY <5>1, <1>1
        <5> QED  BY <5>1, <5>2, <3>4 DEF ResetBefore
      <4> QED  BY <4>1, <4>2
    <3>5. Numbered(heats[r]) \/ ResetBefore(todo, k, r)
        BY <3>1 DEF Ready
    <3> QED  BY <3>3, <3>4, <3>5 DEF ResetBefore
  <2> QED  BY <2>1, <2>2, <1>1
<1> QED  BY <1>2, ReadyNow

\* Other steps need no slots.
LEMMA NeedsFacts ==
    ASSUME NEW step, step.do \notin {"fill", "advance", "trigger"}
    PROVE  Needs(step) = {}
BY DEF Needs

LEMMA NothingNeeded ==
    ASSUME UNCHANGED <<source, pinned>>,
           \A i \in DOMAIN todo' : todo'[i].do \notin {"fill", "advance", "trigger"}
    PROVE  Ready'
BY NeedsFacts, ReadyNow

\* What a step leaves to do besides what was left already.
LEMMA SettleLeaves ==
    ASSUME IInv, Fitting, Settle
    PROVE  \/ todo' = <<>>
           \/ \E more \in Seq(Request) :
                /\ todo' = more \o Tail(todo) /\ UNCHANGED <<source, pinned>>
                /\ \A i \in DOMAIN more : \A p \in Needs(more[i]) :
                      \/ ResetBefore(more, i, p)
                      \/ heats' = heats /\ p \in Needs(Head(todo))
<1> DEFINE r == Head(todo).round
           do == Head(todo).do
           Goal == \/ todo' = <<>>
                   \/ \E more \in Seq(Request) :
                        /\ todo' = more \o Tail(todo) /\ UNCHANGED <<source, pinned>>
                        /\ \A i \in DOMAIN more : \A p \in Needs(more[i]) :
                              \/ ResetBefore(more, i, p)
                              \/ heats' = heats /\ p \in Needs(Head(todo))
<1>1. ~Idle /\ r \in Rounds /\ Head(todo) \in Request
  <2>1. todo \in Seq(Request) /\ todo # <<>>
      BY DEF Settle, Idle, IInv, Shape
  <2>2. Head(todo) \in Request
      BY <2>1
  <2> QED  BY <2>1, <2>2 DEF Idle, Request
<1>2. ASSUME NEW hs, Proceed(hs, <<>>) PROVE Goal
  <2>1. <<>> \in Seq(Request) /\ DOMAIN <<>> = {}
      OBVIOUS
  <2> QED  BY <2>1, <1>2 DEF Proceed
<1>3. Fails => Goal
    BY DEF Fails
<1>4. ASSUME do = "trigger", Trigger(r) PROVE Goal
  <2> DEFINE S == RoundsToInvalidate(r)
             more == Steps("fill", S)
  <2>1. S \in SUBSET Rounds /\ "fill" \in Dos
      BY DEF RoundsToInvalidate, Dos
  <2>2. more \in Seq(Request) /\ more \in Seq({Step("fill", p) : p \in S})
      BY <2>1, StepsAreRequests, StepsFacts
  <2>3. CASE ~RoundComplete(r)
      BY <1>2, <1>4, <2>3 DEF Trigger
  <2>4. CASE RoundComplete(r)
    <3>1. Proceed(heats, more)
        BY <1>4, <2>4 DEF Trigger
    <3> HIDE DEF more
    <3>2. ASSUME NEW i \in DOMAIN more, NEW p \in Needs(more[i]) PROVE p \in Needs(Head(todo))
      <4>1. PICK q \in S : more[i] = Step("fill", q)
          BY <2>2
      <4>2. p = q
          BY <4>1 DEF Needs, Step
      <4> QED  BY <4>2, <1>4 DEF Needs, RoundsToInvalidate
    <3> QED  BY <3>1, <3>2, <2>2 DEF Proceed
  <2> QED  BY <2>3, <2>4
<1>5. ASSUME Withdraw(r) PROVE Goal
  <2> DEFINE more == <<Step("reset", r), Step("advance", r)>>
  <2>1. Proceed(heats, more) => Goal
    <3>1. more \in Seq(Request)
        BY <1>1 DEF Step, Request, Dos
    <3>2. ASSUME NEW i \in DOMAIN more, NEW p \in Needs(more[i]) PROVE ResetBefore(more, i, p)
      <4>1. i \in {1, 2} /\ more[1] = Step("reset", r) /\ more[2] = Step("advance", r)
          OBVIOUS
      <4>2. i # 1
          BY <4>1 DEF Needs, Step
      <4>3. p = r
          BY <4>1, <4>2 DEF Needs, Step
      <4> QED  BY <4>1, <4>2, <4>3 DEF ResetBefore
    <3> HIDE DEF more
    <3> QED  BY <3>1, <3>2 DEF Proceed
  <2>2. \/ \E hs : Proceed(hs, <<>>)
        \/ Proceed(heats, more)
      BY <1>5 DEF Withdraw
  <2> HIDE DEF Goal, more
  <2> QED  BY <2>1, <2>2, <1>2
<1>6. Redraw(r) => Goal
  <2>1. Redraw(r) => Fails \/ \E hs : Proceed(hs, <<>>)
      BY DEF Redraw
  <2> HIDE DEF Goal
  <2> QED  BY <2>1, <1>2, <1>3
<1>7. \/ do = "trigger" /\ Trigger(r)
      \/ Withdraw(r) \/ Redraw(r) \/ Fails \/ \E hs : Proceed(hs, <<>>)
  <2>1. Reset(r) => \E hs : Proceed(hs, <<>>)
      BY DEF Reset
  <2>2. Fill(r) => \E hs : Proceed(hs, <<>>)
      BY DEF Fill
  <2>3. Advance(r) => \E hs : Proceed(hs, <<>>)
      BY DEF Advance
  <2>4. Admit(r) => Redraw(r) \/ Fails \/ \E hs : Proceed(hs, <<>>)
      BY DEF Admit
  <2>5. Outage(r) => Redraw(r) \/ \E hs : Proceed(hs, <<>>)
      BY DEF Outage
  <2> QED  BY <2>1, <2>2, <2>3, <2>4, <2>5 DEF Settle
<1> HIDE DEF Goal
<1>8. Goal
    BY <1>2, <1>3, <1>4, <1>5, <1>6, <1>7
<1> QED  BY <1>8 DEF Goal

\* After a round is reset its slots are the first ones.
LEMMA ResetIsNumbered ==
    ASSUME IInv, Settle, GoodRounds, NEW r \in Rounds, Head(todo) = Step("reset", r)
    PROVE  Numbered(heats'[r])
<1>1. Reset(r)
    BY DEF Settle, Step
<1>2. heats[r] \in Seq(Heat) /\ Settled(heats[r]) /\ World /\ race \in Races
    BY InvariantIsWorld DEF IInv, Shape
<1>3. CASE MayRebuild(heats[r])
  <2>1. heats'[r] = ResetToSlots(heats[r], race.size)
      BY <1>1, <1>3 DEF Reset, Proceed, IInv, Shape
  <2> QED  BY <2>1, <1>2, SlotsAreWhole DEF Whole
<1>4. CASE ~MayRebuild(heats[r])
  <2>1. heats'[r] = heats[r]
      BY <1>1, <1>4 DEF Reset, Proceed
  <2>2. Fielded(heats[r])
      BY <1>2, <1>4, WaitingFacts DEF GoodRounds, Good, Sound
  <2> QED  BY <2>1, <2>2, <1>2, FieldedFacts
<1> QED  BY <1>3, <1>4

LEMMA SettleReady ==
    ASSUME IInv, Fitting, GoodRounds, Ready, Settle,
           \A r \in Rounds : Numbered(heats[r]) => Numbered(heats'[r]) \/ todo' = <<>>
    PROVE  Ready'
<1>1. CASE todo' = <<>>
    BY <1>1, NothingIsReady
<1>2. CASE todo' # <<>>
  <2>1. PICK more \in Seq(Request) :
          /\ todo' = more \o Tail(todo) /\ UNCHANGED <<source, pinned>>
          /\ \A i \in DOMAIN more : \A p \in Needs(more[i]) :
                \/ ResetBefore(more, i, p)
                \/ heats' = heats /\ p \in Needs(Head(todo))
      BY <1>2, SettleLeaves
  <2>2. ~Idle /\ 1 \in DOMAIN todo /\ Head(todo) = todo[1]
      BY DEF Settle, Idle, IInv, Shape
  <2>3. \A p \in Needs(Head(todo)) : Numbered(heats[p])
    <3>1. \A p : ~ResetBefore(todo, 1, p)
        BY DEF ResetBefore
    <3> QED  BY <3>1, <2>2 DEF Ready
  <2>4. \A i \in DOMAIN more : \A p \in Needs(more[i]) :
          Numbered(heats'[p]) \/ ResetBefore(more, i, p)
      BY <2>1, <2>3
  <2>5. \A r \in Rounds : Head(todo) = Step("reset", r) => Numbered(heats'[r])
      BY ResetIsNumbered
  <2>6. \A r \in Rounds : Numbered(heats[r]) => Numbered(heats'[r])
      BY <1>2
  <2> QED  BY <2>1, <2>2, <2>4, <2>5, <2>6, ReadyAgain
<1> QED  BY <1>1, <1>2

\* A request begins with what it may have to do.
LEMMA RecordingReady ==
    ASSUME IInv, NEW r \in Rounds, NEW i, NEW out, RecordHeatResult(r, i, out) PROVE Ready'
<1> DEFINE S == RoundsToInvalidate(r)
           more == <<Step("trigger", r)>>
<1>1. S \in SUBSET Rounds /\ more \in Seq(Request)
    BY DEF RoundsToInvalidate, Step, Request, Dos
<1>2. \A k \in DOMAIN more : Needs(more[k]) \subseteq S
  <2>1. \A k \in DOMAIN more : more[k] = Step("trigger", r)
      OBVIOUS
  <2>2. Needs(Step("trigger", r)) \subseteq S
      BY DEF Needs, Step, RoundsToInvalidate
  <2> QED  BY <2>1, <2>2
<1>3. todo' = Steps("reset", S) \o more /\ UNCHANGED <<source, pinned>>
    BY DEF RecordHeatResult, Cascade
<1> HIDE DEF S, more
<1> QED  BY <1>1, <1>2, <1>3, ResetsFirst, ReadyNow

LEMMA RunOffReady == ASSUME IInv, RecordRunOff PROVE Ready'
<1> DEFINE S == RoundsToInvalidate(0)
           more == Steps("fill", Rounds)
<1>1. S \in SUBSET Rounds /\ more \in Seq(Request) /\ more \in Seq({Step("fill", r) : r \in Rounds})
    BY StepsAreRequests, StepsFacts DEF RoundsToInvalidate, Dos
<1>2. todo' = Steps("reset", S) \o more /\ UNCHANGED <<source, pinned>>
    BY DEF RecordRunOff, RunOffCascade
<1> HIDE DEF more
<1>3. \A k \in DOMAIN more : Needs(more[k]) \subseteq S
  <2> SUFFICES ASSUME NEW k \in DOMAIN more, NEW p \in Needs(more[k]) PROVE p \in S
      OBVIOUS
  <2>1. PICK r \in Rounds : more[k] = Step("fill", r)
      BY <1>1
  <2>2. p > 0
      BY RoundsAreFinite DEF Needs, IInv, Scalars
  <2> QED  BY <2>2 DEF Needs, RoundsToInvalidate
<1> HIDE DEF S
<1> QED  BY <1>1, <1>2, <1>3, ResetsFirst, ReadyNow

LEMMA CheckInReady == ASSUME IInv, NEW q, CheckIn(q) PROVE Ready'
<1> DEFINE S == {r \in Rounds : ~IsFed(r)}
           T == {Step("withdraw", r) : r \in Rounds} \cup {Step("admit", r) : r \in S}
<1>1. /\ Steps("withdraw", Rounds) \in Seq({Step("withdraw", r) : r \in Rounds})
      /\ Steps("admit", S) \in Seq({Step("admit", r) : r \in S})
    BY StepsFacts
<1>2. todo' = Steps("withdraw", Rounds) \o Steps("admit", S) /\ UNCHANGED <<source, pinned>>
    BY DEF CheckIn
<1>3. todo' \in Seq(T)
    BY <1>1, <1>2
<1>4. \A step \in T : step.do \notin {"fill", "advance", "trigger"}
    BY DEF Step
<1> HIDE DEF S, T
<1> QED  BY <1>2, <1>3, <1>4, NothingNeeded

LEMMA OutagesReady == ASSUME IInv, NEW lanes, SetLaneOutages(lanes) PROVE Ready'
<1> DEFINE S == {r \in Rounds : heats[r] # <<>>}
           T == {Step("outage", r) : r \in S}
<1>1. S \in SUBSET Rounds
    OBVIOUS
<1>2. todo' = Steps("outage", S) /\ UNCHANGED <<source, pinned>>
    BY DEF SetLaneOutages
<1>3. todo' \in Seq(T)
    BY <1>1, <1>2, StepsFacts
<1>4. \A step \in T : step.do \notin {"fill", "advance", "trigger"}
    BY DEF Step
<1> HIDE DEF S, T
<1> QED  BY <1>2, <1>3, <1>4, NothingNeeded

\* A round that was just drawn for slots is filled.
LEMMA FillingReady ==
    ASSUME NEW r, NEW s, todo' = AskToFill(s, r), s # General => Numbered(heats'[r])
    PROVE  Ready'
<1>1. CASE s = General
    BY <1>1, NothingIsReady DEF AskToFill
<1>2. CASE s # General
  <2>1. todo' = <<Step("fill", r)>>
      BY <1>2 DEF AskToFill
  <2>2. ASSUME NEW i \in DOMAIN todo', NEW p \in Needs(todo[i])' PROVE p = r
    <3>1. todo'[i] = Step("fill", r)
        BY <2>1
    <3> QED  BY <3>1 DEF Needs, Step
  <2> QED  BY <2>2, <1>2 DEF Ready, Numbered
<1> QED  BY <1>1, <1>2

LEMMA CreateReady ==
    ASSUME IInv, NEW s \in race.offered, CreateRound(s),
           \A r \in Rounds' \ Rounds : Numbered(heats'[r])
    PROVE  Ready'
<1> DEFINE n == NextNumber
<1>1. n \in Rounds' \ Rounds
    BY NextNumberIsNew DEF CreateRound, Rounds
<1>2. todo' = AskToFill(s, n)
    BY DEF CreateRound
<1> HIDE DEF n
<1> QED  BY <1>1, <1>2, FillingReady

LEMMA RegenerateReady ==
    ASSUME IInv, NEW r \in Rounds, RegenerateRound(r) PROVE Ready'
<1>1. World /\ heats[r] \in Seq(Heat)
    BY InvariantIsWorld DEF IInv, Shape
<1>2. ASSUME source[r] # General PROVE Numbered(heats'[r])
  <2>1. heats'[r] = SlotsRebuilt(heats[r])
      BY <1>2 DEF RegenerateRound, IsFed, IInv, Shape
  <2> QED  BY <2>1, <1>1, SlotsAreWhole DEF Whole
<1>3. todo' = AskToFill(source[r], r)
    BY DEF RegenerateRound
<1> QED  BY <1>2, <1>3, FillingReady

LEMMA UnpinReady == ASSUME NEW r \in Rounds, UnpinRoundField(r) PROVE Ready'
<1>1. CASE todo' = <<>>
    BY <1>1, NothingIsReady
<1>2. CASE todo' = <<Step("reset", r), Step("fill", r)>>
  <2>1. ASSUME NEW i \in DOMAIN todo', NEW p \in Needs(todo[i])'
        PROVE  i = 2 /\ p = r /\ todo'[1] = Step("reset", r)
    <3>1. i \in {1, 2} /\ todo'[1] = Step("reset", r) /\ todo'[2] = Step("fill", r)
        BY <1>2
    <3>2. i # 1
        BY <3>1, <2>1 DEF Needs, Step
    <3>3. p = r
        BY <3>1, <3>2, <2>1 DEF Needs, Step
    <3> QED  BY <3>1, <3>2, <3>3
  <2> QED  BY <2>1 DEF Ready, ResetBefore, Step
<1> QED  BY <1>1, <1>2 DEF UnpinRoundField

LEMMA StepsReady ==
    ASSUME IInv, Fitting, ~DeletedThenFilled, LanesStand, GoodRounds, Ready, [Next]_vars
    PROVE  Ready'
<1>1. /\ \A r \in Rounds \cap Rounds' : Numbered(heats[r]) => Numbered(heats'[r]) \/ todo' = <<>>
      /\ \A r \in Rounds' \ Rounds : Numbered(heats'[r])
    BY RoundsStayGood
<1>2. ASSUME Settle PROVE Ready'
  <2>1. Rounds' = Rounds
    <3>1. source' = source
        BY <1>2 DEF Settle, Reset, Trigger, Fill, Advance, Withdraw, Admit, Outage, Redraw, Fails,
                    Proceed
    <3> QED  BY <3>1 DEF Rounds
  <2> QED  BY <1>1, <1>2, <2>1, SettleReady
<1>3. Crash => Ready'
    BY NothingIsReady DEF Crash
<1>4. ASSUME NEW r \in Rounds, RoundRequest(r) PROVE Ready'
  <2>1. CASE \E i \in DOMAIN heats[r] : \E out \in {NotRun, Skipped, Partial} \cup Racers :
               RecordHeatResult(r, i, out)
      BY <2>1, RecordingReady
  <2>2. CASE RegenerateRound(r)
      BY <2>2, RegenerateReady
  <2>3. CASE UnpinRoundField(r)
      BY <2>3, UnpinReady
  <2>4. CASE \/ \E i \in DOMAIN heats[r] : DeleteHeat(r, i)
             \/ DeleteRound(r)
             \/ \E picks \in Picks : PinRoundField(r, picks)
             \/ AdvanceRound(r)
    <3>1. todo' = <<>>
        BY <2>4 DEF DeleteHeat, DeleteRound, PinRoundField, AdvanceRound, Idle
    <3> QED  BY <3>1, NothingIsReady
  <2> QED  BY <1>4, <2>1, <2>2, <2>3, <2>4 DEF RoundRequest
<1>5. ASSUME NEW q \in race.movers, CheckIn(q) \/ SetExcluded(q) PROVE Ready'
  <2>1. SetExcluded(q) => todo' = <<>>
      BY DEF SetExcluded, Idle
  <2> QED  BY <2>1, <1>5, CheckInReady, NothingIsReady
<1>6. ASSUME NEW s \in race.offered, CreateRound(s) PROVE Ready'
    BY <1>1, <1>6, CreateReady
<1>7. RecordRunOff => Ready'
    BY RunOffReady
<1>8. ASSUME NEW lanes, SetLaneOutages(lanes) PROVE Ready'
    BY <1>8, OutagesReady
<1>9. UNCHANGED vars => Ready'
    BY DEF vars, Ready, Needs, ResetBefore, Numbered, Rounds, IsFed, OpenSlots, Participants
<1> QED  BY <1>2, <1>3, <1>4, <1>5, <1>6, <1>7, <1>8, <1>9 DEF Next

LEMMA InitIsApt == Init => Apt
<1> SUFFICES ASSUME Init, ~DeletedThenFilled PROVE LanesStand /\ GoodRounds /\ Ready
    BY DEF Apt
<1>1. IInv /\ World /\ LanesStand /\ Ready
    BY InitHolds, InvariantIsWorld DEF Init, LanesStand, Ready
<1>2. <<>> \in Seq(Heat)
    OBVIOUS
<1>3. Rounds = DOMAIN Plan
    BY DEF Init, Rounds
<1>4. ASSUME NEW r \in Rounds PROVE Good(heats[r]) /\ (Fielded(heats[r]) \/ IsFed(r))
  <2>1. heats[r] \in Seq(Heat)
      BY <1>1 DEF IInv, Shape
  <2>2. CASE IsFed(r)
    <3>1. heats[r] = SlotsRebuilt(<<>>)
        BY <1>3, <2>2 DEF Init
    <3>2. Whole(heats[r])
        BY <1>1, <1>2, <3>1, SlotsAreWhole
    <3> QED  BY <1>1, <2>1, <2>2, <3>2, WholeIsGood
  <2>3. CASE ~IsFed(r)
    <3>1. heats[r] = RosterRebuilt(<<>>)
        BY <1>3, <2>3 DEF Init
    <3>2. Whole(heats[r]) /\ Fielded(heats[r])
        BY <1>1, <1>2, <3>1, RosterIsWhole
    <3> QED  BY <1>1, <2>1, <3>2, WholeIsGood
  <2> QED  BY <2>2, <2>3
<1> QED  BY <1>1, <1>4 DEF GoodRounds

LEMMA AptKept == IInv /\ Fitting /\ Apt /\ [Next]_vars => Apt'
<1> SUFFICES ASSUME IInv, Fitting, Apt, [Next]_vars, ~DeletedThenFilled'
             PROVE  LanesStand' /\ GoodRounds' /\ Ready'
    BY DEF Apt
<1>1. race' = race
    BY StepsForm DEF Forms
<1>2. ~DeletedThenFilled
    BY <1>1 DEF DeletedThenFilled
<1> QED  BY <1>2, RoundsStayGood, StepsReady DEF Apt

LEMMA EverApt == Spec => []Apt
<1> QED  BY InitIsApt, AptKept, Invariant, EverFitting, PTL DEF Spec

\* No car is drawn twice in a heat.
THEOREM NobodyIsDrawnTwice == Spec => []NobodyRacesThemself
<1>1. IInv /\ Apt => NobodyRacesThemself
    BY DEF Apt, GoodRounds, Good, Sound, Distinct, NobodyRacesThemself
<1> QED  BY <1>1, EverApt, Invariant, PTL

\* A championship round is all placeholders or has none.
THEOREM RoundsAreNotHalfFilled == Spec => []NoHalfFilledRound
<1>1. IInv /\ Apt => NoHalfFilledRound
  <2> SUFFICES ASSUME IInv, Apt, ~DeletedThenFilled, NEW r \in Rounds
               PROVE  OpenSlots(heats[r]) = {} \/ Field(heats[r]) = {}
      BY DEF NoHalfFilledRound
  <2>1. heats[r] \in Seq(Heat) /\ race \in Races
      BY DEF IInv, Shape
  <2>2. Fielded(heats[r]) \/ Waiting(heats[r])
      BY DEF Apt, GoodRounds, Good, Sound
  <2> QED  BY <2>1, <2>2, FieldedFacts, WaitingFacts
<1> QED  BY <1>1, EverApt, Invariant, PTL

-----------------------------------------------------------------------------
(* A round whose time has come is filled.                                  *)

\* What RipeRoundIsFilled excepts.
Calm == Without({"withdraw", "outage", "exclude", "delete_heat", "delete_round", "crash"})

\* Somebody, or a slot, is in every heat, and heats that wait are still to run.
Manned(hs) == \A i \in DOMAIN hs :
    /\ \E l \in DOMAIN hs[i].lanes : hs[i].lanes[l] # Nobody
    /\ HasSlot(hs[i]) => hs[i].out = NotRun

\* A rotation of one participant or more seats one in every heat.
LEMMA RotationIsManned ==
    ASSUME World, NEW participants \in Seq(Seats), Len(participants) >= 1,
           NEW others \in Seq(Seats), NEW i \in Nat
    PROVE  \E l \in DOMAIN RotationHeat(participants, others, i).lanes :
              RotationHeat(participants, others, i).lanes[l] # Nobody
<1> DEFINE n == Len(participants)
           m == Larger(n, Cardinality(usable))
<1>1. n \in Nat /\ n >= 1 /\ usable \subseteq 1..Width /\ usable # {}
    BY DEF World
<1>2. Cardinality(usable) \in Nat
    BY <1>1, LanesRank
<1>3. /\ \A l \in usable : Turn(n, i, l) \in 0..m-1
      /\ n <= Cardinality(usable) => \A c \in 0..n-1 : \E l \in usable : Turn(n, i, l) = c
  <2> HIDE DEF n
  <2> QED  BY <1>1, TurnFacts
<1>4. m \in Nat /\ (n <= Cardinality(usable) \/ m = n)
    BY <1>1, <1>2 DEF Larger
<1> HIDE DEF n, m
<1>5. PICK l \in usable : Turn(n, i, l) \in Nat /\ Turn(n, i, l) < n
  <2>1. CASE n <= Cardinality(usable)
    <3>1. 0 \in 0..n-1
        BY <1>1
    <3>2. PICK l \in usable : Turn(n, i, l) = 0
        BY <2>1, <3>1, <1>3
    <3> QED  BY <3>2, <1>1
  <2>2. CASE m = n
    <3>1. PICK l \in usable : TRUE
        BY <1>1
    <3>2. Turn(n, i, l) \in 0..n-1
        BY <2>2, <1>3
    <3> QED  BY <3>2, <1>1
  <2> QED  BY <2>1, <2>2, <1>4
<1>6. Turn(n, i, l) + 1 \in 1..n
    BY <1>1, <1>5
<1>7. participants[Turn(n, i, l) + 1] \in Seats
    BY <1>6 DEF n
<1>8. RotationHeat(participants, others, i).lanes[l] = participants[Turn(n, i, l) + 1]
    BY <1>5, RotationSeats DEF n
<1>9. l \in DOMAIN RotationHeat(participants, others, i).lanes
    BY RotationSeats
<1> QED  BY <1>7, <1>8, <1>9 DEF Seats

LEMMA DrawIsManned ==
    ASSUME World, NEW count \in Nat, NEW participants \in Seq(Seats),
           Len(participants) >= 1 \/ count = 0
    PROVE  Manned(Draw(count, participants)) /\ Fresh(Draw(count, participants))
<1> DEFINE hs == Draw(count, participants)
<1>1. Fresh(hs)
    BY DrawIsFresh
<1>2. ASSUME NEW i \in DOMAIN hs
      PROVE  /\ \E l \in DOMAIN hs[i].lanes : hs[i].lanes[l] # Nobody
             /\ hs[i].out = NotRun
  <2>1. i \in 1..count /\ i \in Nat /\ hs[i] = RotationHeat(participants, <<>>, i)
      BY DEF Draw
  <2>2. Len(participants) >= 1
      BY <2>1
  <2>3. <<>> \in Seq(Seats)
      OBVIOUS
  <2>4. RotationHeat(participants, <<>>, i).out = NotRun
      BY DEF RotationHeat
  <2>5. \E l \in DOMAIN RotationHeat(participants, <<>>, i).lanes :
           RotationHeat(participants, <<>>, i).lanes[l] # Nobody
      BY <2>1, <2>2, <2>3, RotationIsManned
  <2> HIDE DEF hs
  <2> QED  BY <2>1, <2>4, <2>5
<1> QED  BY <1>1, <1>2 DEF Manned

\* Heats that were just drawn are not complete.
LEMMA FreshIsIncomplete ==
    ASSUME NEW hs, Fresh(hs), Manned(hs)
    PROVE  ~HeatsComplete(hs)
<1> SUFFICES ASSUME HeatsComplete(hs) PROVE FALSE
    OBVIOUS
<1>1. hs \in Seq(Heat) /\ hs # <<>>
    BY DEF Fresh, HeatsComplete
<1>2. 1 \in DOMAIN hs /\ 1 \in 1..Len(hs)
    BY <1>1
<1>3. hs[1].out = NotRun /\ HeatComplete(hs[1])
    BY <1>2 DEF Fresh, HeatsComplete
<1>4. PICK l \in DOMAIN hs[1].lanes : hs[1].lanes[l] # Nobody
    BY <1>2 DEF Manned
<1>5. hs[1].lanes[l] \in Range(hs[1].lanes)
    BY DEF Range
<1>6. NotRun \notin Racers \cup {Skipped}
    BY RacersAssumption DEF NotRun, Skipped
<1> QED  BY <1>3, <1>4, <1>5, <1>6 DEF HeatComplete

LEMMA RebuiltIsManned ==
    ASSUME World, NEW hs \in Seq(Heat), NEW wanted \in Nat \ {0}, NEW participants \in Seq(Seats)
    PROVE  LET new == Rebuilt(hs, wanted, participants)
           IN  Manned(new) /\ Fresh(new) /\ ~HeatsComplete(new)
<1>1. PICK runs \in Nat \ {0} :
         Rebuilt(hs, wanted, participants) = Draw(Len(participants) * runs, participants)
    BY RebuiltIsFresh
<1>2. Len(participants) \in Nat
    OBVIOUS
<1>3. Len(participants) * runs \in Nat /\ (Len(participants) = 0 => Len(participants) * runs = 0)
  <2> DEFINE n == Len(participants)
  <2>1. n \in Nat
      OBVIOUS
  <2> HIDE DEF n
  <2>2. n * runs \in Nat /\ (n = 0 => n * runs = 0)
      BY <2>1
  <2> QED  BY <2>2 DEF n
<1>4. Len(participants) >= 1 \/ Len(participants) * runs = 0
    BY <1>2, <1>3
<1>5. Manned(Rebuilt(hs, wanted, participants)) /\ Fresh(Rebuilt(hs, wanted, participants))
    BY <1>1, <1>3, <1>4, DrawIsManned
<1> QED  BY <1>5, FreshIsIncomplete

LEMMA SlotsAreManned ==
    ASSUME World, NEW hs \in Seq(Heat), NEW n \in 1..race.size + Cardinality(Racers)
    PROVE  /\ Manned(ResetToSlots(hs, n)) /\ ~HeatsComplete(ResetToSlots(hs, n))
           /\ Manned(SlotsRebuilt(hs)) /\ ~HeatsComplete(SlotsRebuilt(hs))
<1>1. race \in Races
    BY DEF World
<1>2. race.size \in 1..race.size + Cardinality(Racers)
    BY <1>1, RaceFacts, SeatFacts
<1>3. Slots(n) \in Seq(Seats) /\ Len(Slots(n)) = n /\ Slots(race.size) \in Seq(Seats)
    BY <1>1, <1>2, SlotsAreSeats
<1>4. PICK count \in Nat : count >= n /\ ResetToSlots(hs, n) = Draw(count, Slots(n))
    BY ResetIsDraw
<1>5. Manned(ResetToSlots(hs, n)) /\ Fresh(ResetToSlots(hs, n))
    BY <1>3, <1>4, DrawIsManned
<1>6. Manned(SlotsRebuilt(hs)) /\ ~HeatsComplete(SlotsRebuilt(hs))
    BY <1>1, <1>3, RaceFacts, RebuiltIsManned DEF SlotsRebuilt
<1> QED  BY <1>5, <1>6, FreshIsIncomplete

LEMMA RosterIsManned ==
    ASSUME World, NEW hs \in Seq(Heat)
    PROVE  Manned(RosterRebuilt(hs)) /\ ~HeatsComplete(RosterRebuilt(hs))
<1>1. race \in Races /\ checkedIn \in SUBSET Racers
    BY DEF World
<1>2. Roster \in Seq(Seats)
    BY <1>1, AscendingRacers DEF Roster
<1> QED  BY <1>2, RebuiltIsManned DEF RosterRebuilt

\* Filling leaves nobody out, and what it changes is still to be raced.
LEMMA PopulatedIsManned ==
    ASSUME World, NEW hs \in Seq(Heat), Manned(hs), Sound(hs), NEW field \in Seq(Racers)
    PROVE  LET new == Populated(hs, field)
           IN  Manned(new) /\ (new = hs \/ ~HeatsComplete(new))
<1>1. race \in Races /\ race.runs \in Nat \ {0} /\ Racers \subseteq Seats
    BY RaceFacts, SeatFacts DEF World
<1>2. field \in Seq(Seats)
    BY <1>1
<1>3. LET new == Rebuilt(hs, race.runs, field) IN Manned(new) /\ ~HeatsComplete(new)
    BY <1>1, <1>2, RebuiltIsManned
<1> DEFINE new == Resolved(hs, field)
<1>4. /\ DOMAIN new = DOMAIN hs
      /\ \A i \in DOMAIN hs : new[i].lanes = Filled(hs[i].lanes, field) /\ new[i].out = hs[i].out
      /\ Fielded(hs) => new = hs
    BY <1>1, ResolvedFacts
<1> HIDE DEF new
<1>5. \A x \in Racers : ~(x < 0) /\ x # Nobody
    BY RacersAssumption DEF Nobody
<1>6. ASSUME NEW i \in DOMAIN hs
      PROVE  /\ DOMAIN new[i].lanes = DOMAIN hs[i].lanes
             /\ \A l \in DOMAIN hs[i].lanes :
                   new[i].lanes[l] \in Racers \/ new[i].lanes[l] = hs[i].lanes[l]
  <2>1. hs[i] \in Heat
      OBVIOUS
  <2> QED  BY <2>1, <1>1, <1>4, FilledFacts
<1>7. ASSUME NEW i \in DOMAIN hs
      PROVE  /\ \E l \in DOMAIN new[i].lanes : new[i].lanes[l] # Nobody
             /\ HasSlot(new[i]) => HasSlot(hs[i])
  <2>1. PICK l \in DOMAIN hs[i].lanes : hs[i].lanes[l] # Nobody
      BY DEF Manned
  <2>2. new[i].lanes[l] # Nobody
      BY <2>1, <1>5, <1>6
  <2>3. HasSlot(new[i]) => HasSlot(hs[i])
      BY <1>5, <1>6 DEF HasSlot
  <2> QED  BY <2>1, <2>2, <2>3, <1>6
<1>8. Manned(new)
    BY <1>4, <1>7 DEF Manned
<1>9. new = hs \/ ~HeatsComplete(new)
  <2>1. CASE Fielded(hs)
      BY <2>1, <1>4
  <2>2. CASE ~Fielded(hs)
    <3>1. PICK i \in DOMAIN hs : HasSlot(hs[i])
        BY <2>2 DEF Fielded
    <3>2. new[i].out = NotRun /\ i \in DOMAIN new
        BY <3>1, <1>4 DEF Manned
    <3>3. PICK l \in DOMAIN new[i].lanes : new[i].lanes[l] # Nobody
        BY <1>7
    <3>4. ~(Range(new[i].lanes) \subseteq {Nobody})
        BY <3>3 DEF Range
    <3>5. NotRun \notin Racers \cup {Skipped}
        BY RacersAssumption DEF NotRun, Skipped
    <3>6. ~HeatComplete(new[i])
        BY <3>2, <3>4, <3>5 DEF HeatComplete
    <3> QED  BY <3>2, <3>6 DEF HeatsComplete
  <2> QED  BY <2>1, <2>2
<1> QED  BY <1>3, <1>8, <1>9 DEF Populated, new

\* Heats added for a latecomer are still to be raced.
LEMMA LateIsManned ==
    ASSUME World, NEW hs \in Seq(Heat), Manned(hs), ~(checkedIn \subseteq Field(hs))
    PROVE  LET new == hs \o LateHeats(Ascending(checkedIn \ Field(hs)), Ascending(Field(hs)))
           IN  Manned(new) /\ ~HeatsComplete(new)
<1> DEFINE missing == checkedIn \ Field(hs)
           newcomers == Ascending(missing)
           others == Ascending(Field(hs))
           m == Larger(Len(newcomers), Cardinality(usable))
           late == LateHeats(newcomers, others)
           new == hs \o late
<1>1. race \in Races /\ Cardinality(usable) \in Nat \ {0} /\ missing \in SUBSET Racers
      /\ Field(hs) \in SUBSET Racers /\ missing # {}
    BY LanesInService DEF World, Field
<1>2. newcomers \in Seq(Seats) /\ others \in Seq(Seats) /\ Len(newcomers) = Cardinality(missing)
    BY <1>1, AscendingRacers
<1>3. Len(newcomers) >= 1 /\ Len(newcomers) \in Nat
  <2>1. IsFiniteSet(missing)
      BY <1>1, RacersAssumption, FS_Subset
  <2>2. Cardinality(missing) # 0 /\ Cardinality(missing) \in Nat
      BY <1>1, <2>1, FS_EmptySet, FS_CardinalityType
  <2> QED  BY <2>2, <1>2
<1> HIDE DEF newcomers, others, missing
<1>4. m \in Nat \ {0}
    BY <1>1, <1>3 DEF Larger
<1>5. late = [i \in 1..m |-> RotationHeat(newcomers, others, i)]
    BY DEF LateHeats
<1> HIDE DEF m, late
<1>6. ASSUME NEW i \in 1..m
      PROVE  /\ late[i] \in Heat /\ late[i].out = NotRun
             /\ \E l \in DOMAIN late[i].lanes : late[i].lanes[l] # Nobody
  <2>1. i \in Nat /\ late[i] = RotationHeat(newcomers, others, i)
      BY <1>4, <1>5
  <2>2. RotationHeat(newcomers, others, i) \in Heat /\ RotationHeat(newcomers, others, i).out = NotRun
      BY <2>1, <1>2, RotationIsHeat DEF World
  <2>3. \E l \in DOMAIN RotationHeat(newcomers, others, i).lanes :
           RotationHeat(newcomers, others, i).lanes[l] # Nobody
      BY <2>1, <1>2, <1>3, RotationIsManned
  <2> QED  BY <2>1, <2>2, <2>3
<1>7. late \in Seq(Heat) /\ Len(late) = m
    BY <1>4, <1>5, <1>6
<1>8. /\ new \in Seq(Heat) /\ Len(new) = Len(hs) + m
      /\ \A i \in 1..Len(hs) : new[i] = hs[i]
      /\ \A i \in 1..m : new[Len(hs) + i] = late[i]
    BY <1>4, <1>7
<1>9. Len(hs) \in Nat /\ DOMAIN hs = 1..Len(hs) /\ DOMAIN new = 1..Len(hs) + m
    BY <1>8
<1> HIDE DEF new
<1>10. ASSUME NEW i \in DOMAIN new
       PROVE  (i \in DOMAIN hs /\ new[i] = hs[i]) \/ \E k \in 1..m : new[i] = late[k]
  <2>1. CASE i <= Len(hs)
      BY <2>1, <1>8, <1>9
  <2>2. CASE ~(i <= Len(hs))
    <3>1. i - Len(hs) \in 1..m /\ Len(hs) + (i - Len(hs)) = i
        BY <2>2, <1>4, <1>9
    <3> QED  BY <3>1, <1>8
  <2> QED  BY <2>1, <2>2
<1>11. Manned(new)
  <2> SUFFICES ASSUME NEW i \in DOMAIN new
               PROVE  /\ \E l \in DOMAIN new[i].lanes : new[i].lanes[l] # Nobody
                      /\ HasSlot(new[i]) => new[i].out = NotRun
      BY DEF Manned
  <2>1. CASE i \in DOMAIN hs /\ new[i] = hs[i]
      BY <2>1 DEF Manned
  <2>2. CASE \E k \in 1..m : new[i] = late[k]
      BY <2>2, <1>6
  <2> QED  BY <2>1, <2>2, <1>10
<1>12. ~HeatsComplete(new)
  <2>1. 1 \in 1..m /\ Len(hs) + 1 \in DOMAIN new
      BY <1>4, <1>9
  <2>2. new[Len(hs) + 1] = late[1] /\ late[1].out = NotRun
      BY <2>1, <1>6, <1>8
  <2>3. PICK l \in DOMAIN late[1].lanes : late[1].lanes[l] # Nobody
      BY <2>1, <1>6
  <2>4. ~(Range(late[1].lanes) \subseteq {Nobody})
      BY <2>3 DEF Range
  <2>5. NotRun \notin Racers \cup {Skipped}
      BY RacersAssumption DEF NotRun, Skipped
  <2>6. ~HeatComplete(new[Len(hs) + 1])
      BY <2>2, <2>4, <2>5 DEF HeatComplete
  <2> QED  BY <2>1, <2>6 DEF HeatsComplete
<1> QED  BY <1>11, <1>12 DEF new, late, newcomers, others, missing

LEMMA PickIsManned ==
    ASSUME IInv, NEW r \in Rounds, PickedByHand(r)
    PROVE  Manned(heats'[r]) /\ ~HeatsComplete(heats'[r])
<1>1. PICK picks \in Picks : PinRoundField(r, picks)
    BY DEF PickedByHand
<1> DEFINE slots == ResetToSlots(heats[r], 2)
<1>2. World /\ heats[r] \in Seq(Heat) /\ race \in Races
    BY InvariantIsWorld DEF IInv, Shape
<1>3. Len(picks) = 2 /\ picks \in Seq(Racers)
  <2> DEFINE n == 2
  <2>1. n \in Nat /\ picks \in [1..n -> Racers]
      BY DEF Picks
  <2> HIDE DEF n
  <2>2. picks \in Seq(Racers) /\ Len(picks) = n
      BY <2>1
  <2> QED  BY <2>2 DEF n
<1>4. 2 \in 1..race.size + Cardinality(Racers)
    BY <1>2, RacersAssumption, RaceFacts, SeatFacts
<1>5. Manned(slots) /\ ~HeatsComplete(slots)
    BY <1>2, <1>4, SlotsAreManned
<1>6. PICK count \in Nat : count >= 2 /\ slots = Draw(count, Slots(2))
    BY <1>2, <1>4, ResetIsDraw
<1>7. slots \in Seq(Heat) /\ Sound(slots)
    BY <1>2, <1>4, <1>6, SlotsDrawn
<1>8. heats'[r] = Populated(slots, picks)
    BY <1>1, <1>3 DEF PinRoundField, IInv, Shape
<1> HIDE DEF slots
<1> QED  BY <1>2, <1>3, <1>5, <1>7, <1>8, PopulatedIsManned

\* What changes a round, other than a result, leaves it with heats to run.
LEMMA RewritingManned ==
    ASSUME IInv, Calm, NEW r \in Rounds, Manned(heats[r]), Sound(heats[r]),
           Field(heats[r]) \subseteq checkedIn, Rewritten(r)
    PROVE  /\ Manned(heats'[r])
           /\ heats'[r] = heats[r] \/ LanesKept(r) \/ ~HeatsComplete(heats'[r])
<1>1. World /\ heats[r] \in Seq(Heat) /\ race \in Races
    BY InvariantIsWorld DEF IInv, Shape
<1>2. race.size \in 1..race.size + Cardinality(Racers)
    BY <1>1, RaceFacts, SeatFacts
<1>3. CASE DrawnForSlots(r)
    BY <1>1, <1>2, <1>3, SlotsAreManned DEF DrawnForSlots
<1>4. CASE DrawnForRoster(r)
    BY <1>1, <1>4, RosterIsManned DEF DrawnForRoster
<1>5. CASE FilledAgain(r)
  <2>1. source[r] \in Int
      BY DEF IInv, Shape
  <2>2. Winners(source[r]) \in Seq(Racers)
      BY <2>1, WinnersAdvanceOnce
  <2> QED  BY <2>2, <1>1, <1>5, PopulatedIsManned DEF FilledAgain
<1>6. CASE ThinnedOut(r)
  <2>1. LanesKept(r)
      BY <1>6 DEF ThinnedOut, Calm, Without
  <2>2. DOMAIN heats'[r] = DOMAIN heats[r]
      BY <2>1, <1>1 DEF LanesKept
  <2>3. ASSUME NEW i \in DOMAIN heats[r]
        PROVE  /\ \E l \in DOMAIN heats'[r][i].lanes : heats'[r][i].lanes[l] # Nobody
               /\ HasSlot(heats'[r][i]) => heats'[r][i].out = NotRun
    <3>1. heats'[r][i].lanes = heats[r][i].lanes /\ (HasSlot(heats[r][i]) => heats'[r][i] = heats[r][i])
        BY <2>1 DEF LanesKept
    <3>2. HasSlot(heats'[r][i]) => HasSlot(heats[r][i])
        BY <3>1 DEF HasSlot
    <3> QED  BY <3>1, <3>2 DEF Manned
  <2> QED  BY <2>1, <2>2, <2>3 DEF Manned
<1>7. CASE LateAdded(r)
    BY <1>1, <1>7, LateIsManned DEF LateAdded
<1>8. CASE HeatGone(r)
    BY <1>8 DEF HeatGone, Calm, Without
<1>9. CASE PickedByHand(r)
    BY <1>9, PickIsManned
<1> QED  BY <1>3, <1>4, <1>5, <1>6, <1>7, <1>8, <1>9 DEF Rewritten

\* A round whose time has come and that waits, and the steps that will fill it.
Due(r) ==
    /\ AwaitsStandings(r) /\ OpenSlots(heats[r]) # {}
    /\ \A p \in Rounds : p < r => RoundComplete(p)
    /\ \E p \in Rounds : p < r /\ ~IsFed(p)
Filler(step, r) ==
    \/ step = Step("fill", r)
    \/ step.do = "trigger" /\ step.round < r

\* Rounds draw on rounds before them, and seat those who are checked in.
Sources == \A r \in Rounds : source[r] > 0 => source[r] \in Rounds /\ source[r] < r
Crews == \A r \in Rounds : Manned(heats[r]) /\ Field(heats[r]) \subseteq checkedIn

\* A sweep or a cascade is left, and in a cascade a round that will be reset
\* will be filled after that. No round is due that nothing will fill.
OneKind == \/ \A i \in DOMAIN todo : todo[i].do \in {"withdraw", "admit"}
           \/ \A i \in DOMAIN todo : todo[i].do \in {"reset", "trigger", "fill"}
Orderly == \A i \in DOMAIN todo : todo[i].do = "reset" =>
              \E j \in DOMAIN todo : j > i /\ Filler(todo[j], todo[i].round)
Promised == \A r \in Rounds : Due(r) => \E i \in DOMAIN todo : Filler(todo[i], r)
Manning == excluded = {} /\ Sources /\ Crews
Promises == OneKind /\ Orderly /\ Promised
Ripe == Calm => Manning /\ Promises

\* Somebody on the leaderboard who is checked in and counts will advance.
LEMMA LeadersAdvance ==
    ASSUME IInv, NEW s \in Int, (OnLeaderboard(s) \cap checkedIn) \ excluded # {}
    PROVE  Winners(s) # <<>>
<1> DEFINE W == (OnLeaderboard(s) \cap checkedIn) \ excluded
           n == Cardinality(W)
           leader(k) == CHOOSE x \in W : Cardinality({y \in W : Ahead(s, y, x)}) = k - 1
           ranked == InOrder(W, LAMBDA p, q : Ahead(s, p, q))
           m == IF Len(ranked) < race.size THEN Len(ranked) ELSE race.size
<1>1. IsFiniteSet(W) /\ W # {}
    BY RacersAssumption, FS_Subset DEF IInv, Scalars
<1>2. n \in Nat /\ n # 0
    BY <1>1, FS_EmptySet, FS_CardinalityType
<1>3. ranked = [k \in 1..n |-> leader(k)]
    BY DEF InOrder
<1>4. Winners(s) = SubSeq(ranked, 1, m)
    BY DEF Winners
<1>5. race.size \in Nat \ {0}
    BY RaceFacts DEF IInv, Shape
<1> HIDE DEF n, W, leader, ranked
<1>6. ranked \in Seq({leader(k) : k \in 1..n}) /\ Len(ranked) = n
    BY <1>2, <1>3
<1>7. m \in 1..n
    BY <1>2, <1>5, <1>6
<1> HIDE DEF m
<1>8. Len(SubSeq(ranked, 1, m)) = m
    BY <1>6, <1>7
<1>9. Len(Winners(s)) = m
    BY <1>4, <1>8 DEF m
<1>10. Len(Winners(s)) # 0
    BY <1>2, <1>7, <1>9
<1>11. Len(<<>>) = 0
    OBVIOUS
<1> QED  BY <1>10, <1>11

\* A round that is complete has somebody in it.
LEMMA CompleteIsManned ==
    ASSUME IInv, NEW p \in Rounds, RoundComplete(p), Manned(heats[p])
    PROVE  \E i \in DOMAIN heats[p] : \E q \in Racers : q \in Range(heats[p][i].lanes)
<1>1. heats[p] \in Seq(Heat) /\ heats[p] # <<>> /\ race \in Races
    BY DEF IInv, Shape, RoundComplete, HeatsComplete
<1>2. 1 \in DOMAIN heats[p]
    BY <1>1
<1>3. heats[p][1] \in Heat /\ ~HasSlot(heats[p][1])
    BY <1>1, <1>2 DEF RoundComplete, HeatsComplete, HeatComplete
<1>4. PICK l \in DOMAIN heats[p][1].lanes : heats[p][1].lanes[l] # Nobody
    BY <1>2 DEF Manned
<1>5. ~(heats[p][1].lanes[l] < 0) /\ heats[p][1].lanes[l] \in Range(heats[p][1].lanes)
    BY <1>3 DEF HasSlot, Range
<1>6. heats[p][1].lanes[l] \in Lanes
    BY <1>3, <1>5, LanesOfHeat
<1>7. heats[p][1].lanes[l] \in Racers
    BY <1>1, <1>4, <1>5, <1>6, SeatFacts
<1> QED  BY <1>2, <1>5, <1>7

\* When a round's time has come, somebody advances to it.
LEMMA SomebodyAdvances ==
    ASSUME IInv, Manning, NEW r \in Rounds, Due(r)
    PROVE  Decided(r) /\ Winners(source[r]) # <<>>
<1> DEFINE s == source[r]
<1>1. s \in Int /\ s >= General /\ s # General
    BY DEF IInv, Scalars, Shape, Due, AwaitsStandings, IsFed
<1>2. Decided(r) /\ \E p \in Rounds : p \in ScoredRounds(s) /\ RoundComplete(p)
  <2>1. CASE s = All
    <3>1. Decided(r)
        BY <2>1 DEF Decided, Due
    <3>2. PICK p \in Rounds : p < r /\ ~IsFed(p)
        BY DEF Due
    <3>3. p \in ScoredRounds(s) /\ RoundComplete(p)
        BY <2>1, <3>2 DEF ScoredRounds, Due
    <3> QED  BY <3>1, <3>3
  <2>2. CASE s > 0
    <3>1. s \in Rounds /\ s < r
        BY <2>2 DEF Manning, Sources
    <3>2. RoundComplete(s) /\ s # All
        BY <2>2, <3>1 DEF Due, All
    <3>3. s \in ScoredRounds(s) /\ Decided(r)
        BY <3>1, <3>2 DEF ScoredRounds, Decided
    <3> QED  BY <3>1, <3>2, <3>3
  <2> QED  BY <1>1, <2>1, <2>2 DEF General, All
<1>3. PICK p \in Rounds : p \in ScoredRounds(s) /\ RoundComplete(p)
    BY <1>2
<1>4. PICK i \in DOMAIN heats[p] : \E q \in Racers : q \in Range(heats[p][i].lanes)
    BY <1>3, CompleteIsManned DEF Manning, Crews
<1>5. PICK q \in Racers : q \in Range(heats[p][i].lanes)
    BY <1>4
<1>6. q \in Field(heats[p])
    BY <1>5, SeatedFacts DEF IInv, Shape
<1>7. q \in checkedIn /\ q \notin excluded
    BY <1>6 DEF Manning, Crews
<1>8. q \in OnLeaderboard(s)
  <2>1. <<p, i>> \in Scored(s) /\ ScoredHeat(<<p, i>>) = heats[p][i]
      BY <1>3 DEF Scored, ScoredHeat
  <2> QED  BY <1>5, <2>1 DEF OnLeaderboard
<1> QED  BY <1>1, <1>2, <1>7, <1>8, LeadersAdvance

\* A round that is added comes after all others.
LEMMA NextNumberIsLast == IInv => \A p \in Rounds : p < NextNumber
<1> SUFFICES ASSUME IInv, NEW p \in Rounds PROVE p < NextNumber
    OBVIOUS
<1> DEFINE m == CHOOSE k \in Rounds : \A r \in Rounds : r <= k
<1>1. IsFiniteSet(Rounds) /\ Rounds \subseteq Nat
    BY RoundsAreFinite
<1>2. \E k \in Rounds : \A r \in Rounds : r <= k
    BY <1>1, LargestExists
<1>3. m \in Rounds /\ \A r \in Rounds : r <= m
    BY <1>2, Zenon
<1>4. NextNumber = 1 + m
    BY DEF NextNumber
<1> HIDE DEF m
<1>5. m \in Nat /\ p \in Nat /\ p <= m
    BY <1>1, <1>3
<1> QED  BY <1>4, <1>5

\* What no step does, where RipeRoundIsFilled is claimed.
LEMMA CalmSteps ==
    ASSUME IInv, Calm, [Next]_vars
    PROVE  /\ excluded' = excluded /\ checkedIn \subseteq checkedIn'
           /\ Rounds \subseteq Rounds'
           /\ \A r \in Rounds' \ Rounds :
                 /\ \A p \in Rounds : p < r
                 /\ source'[r] > 0 => source'[r] \in Rounds
<1> DEFINE Stands == excluded' = excluded /\ checkedIn' = checkedIn /\ source' = source
           Goal == /\ excluded' = excluded /\ checkedIn \subseteq checkedIn'
                   /\ Rounds \subseteq Rounds'
                   /\ \A r \in Rounds' \ Rounds :
                         /\ \A p \in Rounds : p < r
                         /\ source'[r] > 0 => source'[r] \in Rounds
<1>1. Stands => Goal
    BY DEF Rounds
<1>2. Settle => Stands
    BY DEF Settle, Reset, Trigger, Fill, Advance, Withdraw, Admit, Outage, Redraw, Fails, Proceed
<1>3. Crash => Stands
    BY DEF Crash
<1>4. ASSUME NEW r \in Rounds, RoundRequest(r) PROVE Stands
  <2>1. ~DeleteRound(r)
      BY DEF DeleteRound, Calm, Without
  <2> QED  BY <1>4, <2>1 DEF RoundRequest, RecordHeatResult, DeleteHeat, RegenerateRound,
                             PinRoundField, UnpinRoundField, AdvanceRound
<1>5. ASSUME NEW q \in race.movers, CheckIn(q) \/ SetExcluded(q) PROVE Goal
  <2>1. CheckIn(q) /\ q \notin checkedIn
      BY <1>5 DEF CheckIn, SetExcluded, Calm, Without
  <2> QED  BY <2>1 DEF CheckIn, Rounds
<1>6. ASSUME NEW s \in race.offered, CreateRound(s) PROVE Goal
  <2> DEFINE n == NextNumber
  <2>1. n \notin Rounds /\ \A p \in Rounds : p < n
      BY NextNumberIsNew, NextNumberIsLast
  <2> HIDE DEF n
  <2>2. /\ source' = [r \in Rounds \cup {n} |-> IF r = n THEN s ELSE source[r]]
        /\ excluded' = excluded /\ checkedIn' = checkedIn /\ (s > 0 => s \in Rounds)
      BY <1>6 DEF CreateRound, n
  <2>3. Rounds' = Rounds \cup {n} /\ source'[n] = s
      BY <2>2 DEF Rounds
  <2> QED  BY <2>1, <2>2, <2>3
<1>7. RecordRunOff => Stands
    BY DEF RecordRunOff
<1>8. ASSUME NEW lanes, SetLaneOutages(lanes) PROVE Stands
    BY <1>8 DEF SetLaneOutages
<1>9. UNCHANGED vars => Stands
    BY DEF vars
<1> HIDE DEF Goal, Stands
<1>10. Goal
    BY <1>1, <1>2, <1>3, <1>4, <1>5, <1>6, <1>7, <1>8, <1>9 DEF Next
<1> QED  BY <1>10 DEF Goal

LEMMA StartingManned ==
    ASSUME IInv, NEW r \in Rounds', Started(r)
    PROVE  Manned(heats'[r])
<1>1. World /\ <<>> \in Seq(Heat) /\ race \in Races
    BY InvariantIsWorld DEF World
<1>2. race.size \in 1..race.size + Cardinality(Racers)
    BY <1>1, RaceFacts, SeatFacts
<1> QED  BY <1>1, <1>2, SlotsAreManned, RosterIsManned DEF Started

\* Nobody is given a place in a round who is not checked in.
LEMMA FieldsStayIn ==
    ASSUME IInv, Fitting, Calm, Manning, [Next]_vars, NEW r \in Rounds'
    PROVE  Field(heats'[r]) \subseteq checkedIn'
<1> SUFFICES ASSUME NEW q \in Field(heats'[r]), q \notin checkedIn' PROVE FALSE
    OBVIOUS
<1>1. IInv' /\ Forms /\ race' = race /\ race \in Races
    BY StepsKeep, StepsForm DEF Forms, IInv, Shape
<1>2. heats'[r] \in Seq(Heat)
    BY <1>1, NewHeats
<1>3. q \in Racers /\ q \notin checkedIn
    BY <1>1, <1>2, CalmSteps, SeatedFacts
<1>4. r \in Rounds => heats[r] \in Seq(Heat) /\ q \notin Field(heats[r])
    BY <1>3 DEF Manning, Crews, IInv, Shape
<1>5. r \in Rounds => Places(q, heats[r]) = {}
    BY <1>1, <1>3, <1>4, SeatedFacts DEF Places
<1>6. ~FillsLateHeats(q, r)
    BY <1>4 DEF FillsLateHeats
<1>7. Cardinality(Places(q, heats'[r])) <= 0
    BY <1>3, <1>5, <1>6, AbsentStay, FS_EmptySet
<1>8. IsFiniteSet(Places(q, heats'[r]))
  <2>1. Places(q, heats'[r]) \subseteq 1..Len(heats'[r]) /\ Len(heats'[r]) \in Nat
      BY <1>2 DEF Places
  <2>2. IsFiniteSet(1..Len(heats'[r]))
      BY <2>1, FS_Interval
  <2> QED  BY <2>1, <2>2, FS_Subset
<1>9. Places(q, heats'[r]) = {}
    BY <1>7, <1>8, FS_EmptySet, FS_CardinalityType
<1> QED  BY <1>1, <1>2, <1>9, SeatedFacts DEF Places

LEMMA CalmIsApt ==
    ASSUME IInv, Apt, Calm
    PROVE  ~DeletedThenFilled /\ GoodRounds /\ Ready /\ \A r \in Rounds : Sound(heats[r])
<1>1. ~DeletedThenFilled
    BY DEF DeletedThenFilled, Calm, Without
<1> QED  BY <1>1 DEF Apt, GoodRounds, Good

LEMMA ManningKept ==
    ASSUME IInv, Fitting, Apt, Calm, Manning, [Next]_vars
    PROVE  Manning'
<1>1. IInv' /\ Forms /\ race' = race
    BY StepsKeep, StepsForm DEF Forms
<1>2. excluded' = {}
    BY CalmSteps DEF Manning
<1>3. Sources'
  <2> SUFFICES ASSUME NEW r \in Rounds', source'[r] > 0
               PROVE  source'[r] \in Rounds' /\ source'[r] < r
      BY DEF Sources
  <2>1. r \in Rounds => source'[r] = source[r]
      BY <1>1 DEF Forms
  <2> QED  BY <2>1, CalmSteps DEF Manning, Sources
<1>4. Crews'
  <2> SUFFICES ASSUME NEW r \in Rounds'
               PROVE  Manned(heats'[r]) /\ Field(heats'[r]) \subseteq checkedIn'
      BY DEF Crews, Manned, Field, Participants
  <2>1. CASE r \in Rounds
    <3>1. Rewritten(r)
        BY <1>1, <2>1 DEF Forms
    <3>2. Manned(heats[r]) /\ Field(heats[r]) \subseteq checkedIn /\ Sound(heats[r])
        BY <2>1, CalmIsApt DEF Manning, Crews
    <3> QED  BY <2>1, <3>1, <3>2, RewritingManned, FieldsStayIn
  <2>2. CASE r \notin Rounds
    <3>1. Started(r)
        BY <1>1, <2>2 DEF Forms
    <3> QED  BY <3>1, StartingManned, FieldsStayIn
  <2> QED  BY <2>1, <2>2
<1> QED  BY <1>2, <1>3, <1>4 DEF Manning

\* A step fills the round it is for, or leaves it with heats to run.
StepTaken ==
    /\ UNCHANGED <<source, pinned>>
    /\ \A p \in Rounds : heats'[p] = heats[p] \/ ~HeatsComplete(heats'[p])
    /\ \A p \in Rounds : \/ heats'[p] = heats[p] \/ ~IsFed(p) \/ OpenSlots(heats'[p]) = {}
                         \/ Head(todo) = Step("reset", p)

LEMMA StepOnNone ==
    ASSUME UNCHANGED <<source, pinned, heats>>
    PROVE  StepTaken
BY DEF StepTaken

LEMMA StepOnRound ==
    ASSUME IInv, NEW r \in Rounds, NEW new, UNCHANGED <<source, pinned>>,
           heats' = [heats EXCEPT ![r] = new], new = heats[r] \/ ~HeatsComplete(new),
           new = heats[r] \/ ~IsFed(r) \/ OpenSlots(new) = {} \/ Head(todo) = Step("reset", r)
    PROVE  StepTaken
<1>1. heats'[r] = new /\ \A p \in Rounds : p # r => heats'[p] = heats[p]
    BY DEF IInv, Shape
<1> QED  BY <1>1 DEF StepTaken

\* Filling a round fills it, if anybody advances.
LEMMA FillingFills ==
    ASSUME IInv, Apt, Calm, Manning, NEW r \in Rounds, FilledAgain(r)
    PROVE  LET new == Populated(heats[r], Winners(source[r]))
           IN  /\ new = heats[r] \/ ~HeatsComplete(new)
               /\ Winners(source[r]) = <<>> => new = heats[r]
               /\ Winners(source[r]) # <<>> => OpenSlots(new) = {}
<1> DEFINE field == Winners(source[r])
           new == Populated(heats[r], field)
<1>1. /\ World /\ heats[r] \in Seq(Heat) /\ race \in Races /\ Settled(heats[r])
      /\ checkedIn \in SUBSET Racers
    BY InvariantIsWorld DEF IInv, Shape, Scalars
<1>2. Sound(heats[r]) /\ Manned(heats[r]) /\ Good(heats[r]) /\ Ready
    BY CalmIsApt DEF Manning, Crews, GoodRounds
<1>3. Numbered(heats[r])
    BY <1>2, FilledIsNumbered
<1>4. field \in Seq(checkedIn) /\ Apart(field) /\ field \in Seq(Racers)
  <2>1. source[r] \in Int
      BY DEF IInv, Shape
  <2> QED  BY <2>1, WinnersAreApart, WinnersAdvanceOnce
<1> HIDE DEF field
<1>5. new = heats[r] \/ ~HeatsComplete(new)
    BY <1>1, <1>2, <1>4, PopulatedIsManned
<1>6. /\ field = <<>> => new = heats[r]
      /\ field # <<>> => Fielded(new)
    BY <1>1, <1>2, <1>3, <1>4, PopulatedIsSound
<1>7. new \in Seq(Heat)
    BY <1>1, <1>4, PopulatedSucceeds DEF Succeeds
<1>8. field # <<>> => OpenSlots(new) = {}
    BY <1>1, <1>6, <1>7, FieldedFacts
<1> QED  BY <1>5, <1>6, <1>8 DEF field

LEMMA SettleIsCalm ==
    ASSUME IInv, Fitting, Apt, Calm, Manning, OneKind, Settle
    PROVE  /\ StepTaken
           /\ \/ todo' = <<>> /\ Head(todo).do = "admit"
              \/ \E more \in Seq(Request) :
                   /\ todo' = more \o Tail(todo)
                   /\ \A i \in DOMAIN more : more[i].do = "fill" /\ Head(todo).do = "trigger"
<1> DEFINE r == Head(todo).round
           do == Head(todo).do
           After == \/ todo' = <<>> /\ Head(todo).do = "admit"
                    \/ \E more \in Seq(Request) :
                         /\ todo' = more \o Tail(todo)
                         /\ \A i \in DOMAIN more : more[i].do = "fill" /\ Head(todo).do = "trigger"
<1>1. ~Idle /\ Head(todo) \in Fit /\ 1 \in DOMAIN todo /\ Head(todo) = todo[1]
    BY DEF Settle, Idle, Fitting
<1>2. /\ r \in Rounds /\ Head(todo) = Step(do, r)
      /\ do \in {"reset", "trigger", "fill", "withdraw", "admit"}
      /\ do = "reset" => IsFed(r) /\ r \notin pinned
      /\ do = "admit" => ~IsFed(r)
    BY <1>1 DEF Fit, Fits, Request, Step, OneKind
<1>3. /\ World /\ heats[r] \in Seq(Heat) /\ race \in Races /\ DOMAIN heats = Rounds
      /\ race.size \in 1..race.size + Cardinality(Racers)
    BY <1>2, InvariantIsWorld, RaceFacts, SeatFacts DEF IInv, Shape
<1>4. Manned(heats[r]) /\ Field(heats[r]) \subseteq checkedIn
    BY <1>2 DEF Manning, Crews
<1>5. ASSUME NEW hs, Proceed(hs, <<>>) PROVE After
  <2>1. <<>> \in Seq(Request) /\ DOMAIN <<>> = {}
      OBVIOUS
  <2> QED  BY <2>1, <1>5 DEF Proceed
<1>6. Proceed(heats, <<>>) => StepTaken
    BY StepOnNone DEF Proceed
<1>7. ASSUME do = "reset", Reset(r) PROVE StepTaken /\ After
  <2>1. CASE MayRebuild(heats[r])
    <3>1. Proceed([heats EXCEPT ![r] = ResetToSlots(heats[r], race.size)], <<>>)
        BY <1>7, <2>1 DEF Reset
    <3>2. ~HeatsComplete(ResetToSlots(heats[r], race.size))
        BY <1>3, SlotsAreManned
    <3> QED  BY <3>1, <3>2, <1>2, <1>5, <1>7, StepOnRound DEF Proceed
  <2>2. CASE ~MayRebuild(heats[r])
      BY <1>5, <1>6, <1>7, <2>2 DEF Reset
  <2> QED  BY <2>1, <2>2
<1>8. ASSUME do = "trigger", Trigger(r) PROVE StepTaken /\ After
  <2> DEFINE S == RoundsToInvalidate(r)
             more == Steps("fill", S)
  <2>1. S \in SUBSET Rounds /\ "fill" \in Dos
      BY DEF RoundsToInvalidate, Dos
  <2>2. more \in Seq(Request) /\ more \in Seq({Step("fill", p) : p \in S})
      BY <2>1, StepsAreRequests, StepsFacts
  <2>3. CASE ~RoundComplete(r)
      BY <1>5, <1>6, <1>8, <2>3 DEF Trigger
  <2>4. CASE RoundComplete(r)
    <3>1. Proceed(heats, more)
        BY <1>8, <2>4 DEF Trigger
    <3> HIDE DEF more
    <3>2. ASSUME NEW i \in DOMAIN more PROVE more[i].do = "fill" /\ Head(todo).do = "trigger"
      <4>1. PICK q \in S : more[i] = Step("fill", q)
          BY <2>2
      <4> QED  BY <4>1, <1>8 DEF Step
    <3> QED  BY <3>1, <3>2, <2>2, StepOnNone DEF Proceed
  <2> QED  BY <2>3, <2>4
<1>9. ASSUME do = "fill", Fill(r) PROVE StepTaken /\ After
  <2> DEFINE new == Populated(heats[r], Winners(source[r]))
  <2>1. CASE IsFed(r) /\ r \notin pinned /\ Decided(r)
    <3>1. Proceed([heats EXCEPT ![r] = new], <<>>)
        BY <1>9, <2>1 DEF Fill
    <3>2. heats'[r] = new
        BY <3>1, <1>2, <1>3 DEF Proceed
    <3>3. FilledAgain(r)
        BY <3>2, <2>1, <1>1, <1>9 DEF FilledAgain
    <3>4. new = heats[r] \/ ~HeatsComplete(new)
        BY <3>3, <1>2, FillingFills
    <3>5. new = heats[r] \/ OpenSlots(new) = {}
        BY <3>3, <1>2, FillingFills
    <3> HIDE DEF new
    <3> QED  BY <3>1, <3>4, <3>5, <1>2, <1>5, StepOnRound DEF Proceed
  <2>2. CASE ~(IsFed(r) /\ r \notin pinned /\ Decided(r))
      BY <1>5, <1>6, <1>9, <2>2 DEF Fill
  <2> QED  BY <2>1, <2>2
<1>10. ASSUME do = "withdraw", Withdraw(r) PROVE StepTaken /\ After
  <2>1. Field(heats[r]) \ checkedIn = {}
      BY <1>4
  <2> QED  BY <2>1, <1>5, <1>6, <1>10 DEF Withdraw
<1>11. ASSUME do = "admit", Admit(r) PROVE StepTaken /\ After
  <2> DEFINE hs == heats[r]
             late == hs \o LateHeats(Ascending(checkedIn \ Field(hs)), Ascending(Field(hs)))
  <2>1. CASE Fails
    <3>1. After
        BY <1>11, <2>1 DEF Fails
    <3> QED  BY <3>1, <2>1, StepOnNone DEF Fails
  <2>2. CASE Proceed([heats EXCEPT ![r] = RosterRebuilt(hs)], <<>>)
    <3>1. ~HeatsComplete(RosterRebuilt(hs))
        BY <1>3, RosterIsManned
    <3> QED  BY <3>1, <2>2, <1>2, <1>5, <1>11, StepOnRound DEF Proceed
  <2>3. CASE checkedIn \ Field(hs) # {} /\ Proceed([heats EXCEPT ![r] = late], <<>>)
    <3>1. ~(checkedIn \subseteq Field(hs))
        BY <2>3
    <3>2. ~HeatsComplete(late)
        BY <3>1, <1>3, <1>4, LateIsManned
    <3> HIDE DEF late
    <3> QED  BY <3>2, <2>3, <1>2, <1>5, <1>11, StepOnRound DEF Proceed
  <2>4. CASE Proceed(heats, <<>>)
      BY <2>4, <1>5, <1>6
  <2> QED  BY <1>11, <2>1, <2>2, <2>3, <2>4 DEF Admit, Redraw
<1> HIDE DEF After
<1>12. StepTaken /\ After
    BY <1>2, <1>7, <1>8, <1>9, <1>10, <1>11 DEF Settle
<1> QED  BY <1>12 DEF After

\* A round that is due after a step, and was not changed by it, was due before.
LEMMA DueBefore ==
    ASSUME NEW r \in Rounds, Due(r)', Rounds \subseteq Rounds', \A p \in Rounds' \ Rounds : r < p,
           \A p \in Rounds : source'[p] = source[p], r \in pinned => r \in pinned',
           \A p \in Rounds : p < r => heats'[p] = heats[p] \/ ~HeatsComplete(heats'[p]),
           heats'[r] = heats[r], r \in Int, Rounds' \subseteq Int
    PROVE  Due(r)
<1>1. /\ IsFed(r)' /\ r \notin pinned' /\ MayRebuild(heats'[r]) /\ OpenSlots(heats'[r]) # {}
      /\ \A p \in Rounds' : p < r => HeatsComplete(heats'[p])
      /\ \E p \in Rounds' : p < r /\ ~IsFed(p)'
    BY DEF Due, AwaitsStandings, Unraced, MayRebuild, OpenSlots, Participants, RoundComplete,
           HeatsComplete, HeatComplete, HasSlot
<1>2. AwaitsStandings(r) /\ OpenSlots(heats[r]) # {}
    BY <1>1 DEF AwaitsStandings, Unraced, IsFed
<1>3. ASSUME NEW p \in Rounds, p < r PROVE RoundComplete(p)
    BY <1>1, <1>3 DEF RoundComplete
<1>4. \E p \in Rounds : p < r /\ ~IsFed(p)
  <2>1. PICK p \in Rounds' : p < r /\ ~IsFed(p)'
      BY <1>1
  <2>2. p \in Int
      BY <2>1
  <2>3. p \in Rounds
      BY <2>1, <2>2
  <2> QED  BY <2>1, <2>3 DEF IsFed
<1> QED  BY <1>2, <1>3, <1>4 DEF Due

LEMMA SlotsOfDue ==
    ASSUME NEW r, Due(r)'
    PROVE  source'[r] # General /\ r \notin pinned' /\ MayRebuild(heats'[r])
           /\ OpenSlots(heats'[r]) # {}
BY DEF Due, AwaitsStandings, IsFed, OpenSlots, Participants, Unraced, MayRebuild

\* A round that is due stays promised while the steps that are left are taken.
LEMMA DueIsFilled ==
    ASSUME IInv, Fitting, Apt, Calm, Manning, Settle, NEW r \in Rounds, Due(r), Due(r)',
           Filler(Head(todo), r)
    PROVE  \E i \in DOMAIN todo' : Filler(todo'[i], r)
<1>1. ~Idle
    BY DEF Settle
<1>2. CASE Head(todo) = Step("fill", r)
  <2>1. Fill(r) /\ Head(todo).do = "fill" /\ Head(todo).round = r
      BY <1>2 DEF Settle, Step
  <2>2. IsFed(r) /\ r \notin pinned /\ Decided(r) /\ Winners(source[r]) # <<>>
      BY SomebodyAdvances DEF Due, AwaitsStandings
  <2>3. heats'[r] = Populated(heats[r], Winners(source[r]))
      BY <2>1, <2>2 DEF Fill, Proceed, IInv, Shape
  <2>4. FilledAgain(r)
      BY <1>1, <2>1, <2>2, <2>3 DEF FilledAgain
  <2>5. OpenSlots(heats'[r]) = {}
      BY <2>2, <2>3, <2>4, FillingFills
  <2> QED  BY <2>5, SlotsOfDue
<1>3. CASE Head(todo).do = "trigger" /\ Head(todo).round < r
  <2> DEFINE p == Head(todo).round
             S == RoundsToInvalidate(p)
             more == Steps("fill", S)
  <2>1. Trigger(p)
      BY <1>3 DEF Settle
  <2>2. Head(todo) \in Fit
      BY <1>1 DEF Fitting, Idle
  <2>3. p \in Rounds /\ RoundComplete(p)
      BY <2>2, <1>3 DEF Due, Fit, Request
  <2>4. todo' = more \o Tail(todo)
      BY <2>1, <2>3 DEF Trigger, Proceed
  <2>5. S \in SUBSET Rounds /\ "fill" \in Dos /\ r \in S
      BY <1>3 DEF RoundsToInvalidate, Dos, Due, AwaitsStandings
  <2>6. more \in Seq(Request)
      BY <2>5, StepsAreRequests
  <2>7. PICK k \in DOMAIN more : more[k] = Step("fill", r)
      BY <2>5, StepsFacts
  <2> HIDE DEF more
  <2>8. k \in DOMAIN todo' /\ todo'[k] = more[k]
    <3>1. /\ Len(more) \in Nat /\ Len(todo) \in Nat /\ Len(todo) >= 1 /\ DOMAIN more = 1..Len(more)
          /\ DOMAIN todo' = 1..Len(more) + Len(todo) - 1
          /\ \A i \in 1..Len(more) + Len(todo) - 1 :
                todo'[i] = IF i <= Len(more) THEN more[i] ELSE todo[i - Len(more) + 1]
        BY <1>1, <2>4, <2>6, TodoAfter
    <3>2. k \in 1..Len(more) + Len(todo) - 1 /\ k <= Len(more)
        BY <3>1
    <3> QED  BY <3>1, <3>2
  <2> QED  BY <2>7, <2>8 DEF Filler
<1> QED  BY <1>2, <1>3 DEF Filler, Step

LEMMA SettleKeepsPromises ==
    ASSUME IInv, Fitting, Apt, Calm, Manning, Promises, Settle
    PROVE  Promises'
<1>1. /\ StepTaken
      /\ \/ todo' = <<>> /\ Head(todo).do = "admit"
         \/ \E more \in Seq(Request) :
              /\ todo' = more \o Tail(todo)
              /\ \A i \in DOMAIN more : more[i].do = "fill" /\ Head(todo).do = "trigger"
    BY SettleIsCalm DEF Promises
<1>2. ~Idle /\ 1 \in DOMAIN todo /\ Head(todo) = todo[1]
    BY DEF Settle, Idle, IInv, Shape
<1>3. Rounds' = Rounds /\ Rounds \subseteq Int
    BY <1>1, RoundsAreFinite DEF StepTaken, Rounds
<1>4. ASSUME NEW r \in Rounds, Due(r)'
      PROVE  Due(r) \/ Head(todo) = Step("reset", r)
  <2>1. heats'[r] = heats[r] \/ Head(todo) = Step("reset", r)
      BY <1>1, <1>4, SlotsOfDue DEF StepTaken, IsFed
  <2>2. heats'[r] = heats[r] => Due(r)
      BY <1>1, <1>3, <1>4, DueBefore DEF StepTaken
  <2> QED  BY <2>1, <2>2
<1>5. CASE todo' = <<>> /\ Head(todo).do = "admit"
  <2>1. \A i \in DOMAIN todo : todo[i].do \in {"withdraw", "admit"}
      BY <1>2, <1>5 DEF Promises, OneKind
  <2>2. \A i \in DOMAIN todo : \A r : ~Filler(todo[i], r)
      BY <2>1 DEF Filler, Step
  <2>3. \A r \in Rounds : ~Due(r)'
      BY <1>4, <1>5, <2>2 DEF Promises, Promised, Step
  <2> QED  BY <1>3, <1>5, <2>3 DEF Promises, OneKind, Orderly, Promised
<1>6. ASSUME NEW more \in Seq(Request), todo' = more \o Tail(todo),
             \A i \in DOMAIN more : more[i].do = "fill" /\ Head(todo).do = "trigger"
      PROVE  Promises'
  <2> DEFINE m == Len(more)
             n == Len(todo)
  <2>1. /\ m \in Nat /\ n \in Nat /\ n >= 1 /\ DOMAIN todo = 1..n /\ DOMAIN more = 1..m
        /\ DOMAIN todo' = 1..m + n - 1
        /\ \A i \in 1..m + n - 1 : todo'[i] = IF i <= m THEN more[i] ELSE todo[i - m + 1]
      BY <1>2, <1>6, TodoAfter
  <2> HIDE DEF m, n
  <2>2. ASSUME NEW k \in DOMAIN todo, k > 1
        PROVE  k + m - 1 \in DOMAIN todo' /\ todo'[k + m - 1] = todo[k]
    <3>1. k + m - 1 \in 1..m + n - 1 /\ ~(k + m - 1 <= m) /\ (k + m - 1) - m + 1 = k
        BY <2>1, <2>2
    <3> QED  BY <3>1, <2>1
  <2>3. ASSUME NEW i \in DOMAIN todo'
        PROVE  \/ i \in DOMAIN more /\ todo'[i] = more[i]
               \/ i - m + 1 \in DOMAIN todo /\ i - m + 1 > 1 /\ todo'[i] = todo[i - m + 1]
      BY <2>1
  <2>4. OneKind'
      BY <1>2, <1>6, <2>3 DEF Promises, OneKind
  <2>5. Orderly'
    <3> SUFFICES ASSUME NEW i \in DOMAIN todo', todo'[i].do = "reset"
                 PROVE  \E j \in DOMAIN todo' : j > i /\ Filler(todo'[j], todo'[i].round)
        BY DEF Orderly, Filler, Step
    <3>1. i - m + 1 \in DOMAIN todo /\ i - m + 1 > 1 /\ todo'[i] = todo[i - m + 1]
        BY <1>6, <2>3
    <3>2. PICK j \in DOMAIN todo : j > i - m + 1 /\ Filler(todo[j], todo'[i].round)
        BY <3>1 DEF Promises, Orderly
    <3>3. j > 1 /\ j + m - 1 > i
        BY <3>1, <3>2, <2>1
    <3>4. j + m - 1 \in DOMAIN todo' /\ todo'[j + m - 1] = todo[j]
        BY <3>3, <2>2
    <3> QED  BY <3>2, <3>3, <3>4
  <2>6. ASSUME NEW r \in Rounds, NEW k \in DOMAIN todo, k > 1, Filler(todo[k], r)
        PROVE  \E i \in DOMAIN todo' : Filler(todo'[i], r)
      BY <2>2, <2>6
  <2>7. Promised'
    <3> SUFFICES ASSUME NEW r \in Rounds, Due(r)'
                 PROVE  \E i \in DOMAIN todo' : Filler(todo'[i], r)
        BY <1>3 DEF Promised, Filler, Step
    <3>1. CASE Due(r)
      <4>1. PICK k \in DOMAIN todo : Filler(todo[k], r)
          BY <3>1 DEF Promises, Promised
      <4>2. CASE k = 1
          BY <1>2, <3>1, <4>1, <4>2, DueIsFilled
      <4>3. CASE k # 1
          BY <2>1, <2>6, <4>1, <4>3
      <4> QED  BY <4>2, <4>3
    <3>2. CASE Head(todo) = Step("reset", r)
      <4>1. todo[1].do = "reset" /\ todo[1].round = r
          BY <1>2, <3>2 DEF Step
      <4>2. PICK k \in DOMAIN todo : k > 1 /\ Filler(todo[k], r)
          BY <1>2, <4>1 DEF Promises, Orderly
      <4> QED  BY <2>6, <4>2
    <3> QED  BY <1>4, <3>1, <3>2
  <2> QED  BY <2>4, <2>5, <2>7 DEF Promises
<1> QED  BY <1>1, <1>5, <1>6

\* What a request asks for: rounds are reset and then filled, or one is filled.
LEMMA ResetsThenFills ==
    ASSUME IInv, NEW S \in SUBSET Rounds, NEW more \in Seq(Request),
           todo' = Steps("reset", S) \o more,
           \A k \in DOMAIN more : more[k].do \in {"trigger", "fill"},
           \A r \in S : \E k \in DOMAIN more : Filler(more[k], r)
    PROVE  /\ OneKind' /\ Orderly'
           /\ \A k \in DOMAIN more : \E j \in DOMAIN todo' : todo'[j] = more[k]
<1> DEFINE resets == Steps("reset", S)
           n == Len(resets)
           q == resets \o more
<1>1. resets \in Seq({Step("reset", r) : r \in S})
    BY StepsFacts
<1> HIDE DEF resets
<1>2. n \in Nat /\ Len(more) \in Nat /\ DOMAIN resets = 1..n /\ DOMAIN more = 1..Len(more)
    BY <1>1
<1>3. /\ DOMAIN q = 1..n + Len(more)
      /\ \A i \in 1..n + Len(more) : q[i] = IF i <= n THEN resets[i] ELSE more[i - n]
    BY <1>1, <1>2
<1>4. todo' = q
    BY DEF resets
<1> HIDE DEF q, n
<1>5. ASSUME NEW k \in DOMAIN more
      PROVE  k + n \in DOMAIN q /\ q[k + n] = more[k] /\ k + n > n
  <2>1. k + n \in 1..n + Len(more) /\ ~(k + n <= n) /\ (k + n) - n = k
      BY <1>2
  <2> QED  BY <2>1, <1>2, <1>3
<1>6. ASSUME NEW i \in DOMAIN q
      PROVE  \/ i <= n /\ \E r \in S : q[i] = Step("reset", r)
             \/ \E k \in DOMAIN more : q[i] = more[k]
  <2>1. CASE i <= n
    <3>1. i \in 1..n
        BY <2>1, <1>2, <1>3
    <3> QED  BY <2>1, <3>1, <1>1, <1>2, <1>3
  <2>2. CASE ~(i <= n)
    <3>1. i - n \in 1..Len(more)
        BY <2>2, <1>2, <1>3
    <3> QED  BY <2>2, <3>1, <1>2, <1>3
  <2> QED  BY <2>1, <2>2
<1>7. OneKind'
  <2>1. \A i \in DOMAIN q : q[i].do \in {"reset", "trigger", "fill"}
      BY <1>6 DEF Step
  <2> QED  BY <1>4, <2>1 DEF OneKind
<1>8. Orderly'
  <2> SUFFICES ASSUME NEW i \in DOMAIN q, q[i].do = "reset"
               PROVE  \E j \in DOMAIN q : j > i /\ Filler(q[j], q[i].round)
      BY <1>4, Zenon DEF Orderly
  <2>1. i <= n
      BY <1>6
  <2>2. PICK r \in S : q[i] = Step("reset", r)
      BY <1>6
  <2>3. PICK k \in DOMAIN more : Filler(more[k], r)
      OBVIOUS
  <2>4. k + n \in DOMAIN q /\ q[k + n] = more[k] /\ k + n > n
      BY <1>5
  <2>5. i \in Int /\ k + n \in Int
      BY <2>4, <1>2, <1>3
  <2>6. k + n > i
      BY <2>1, <2>4, <2>5, <1>2
  <2> QED  BY <2>2, <2>3, <2>4, <2>6 DEF Step
<1>9. \A k \in DOMAIN more : \E j \in DOMAIN todo' : todo'[j] = more[k]
    BY <1>4, <1>5
<1> QED  BY <1>7, <1>8, <1>9

LEMMA AsksToFill ==
    ASSUME NEW s, NEW n, todo' = AskToFill(s, n)
    PROVE  /\ OneKind' /\ Orderly'
           /\ s # General => \E i \in DOMAIN todo' : Filler(todo'[i], n)
<1>1. CASE s = General
    BY <1>1 DEF AskToFill, OneKind, Orderly
<1>2. CASE s # General
  <2>1. DOMAIN todo' = {1} /\ todo'[1] = Step("fill", n)
      BY <1>2 DEF AskToFill
  <2> QED  BY <2>1 DEF OneKind, Orderly, Filler, Step
<1> QED  BY <1>1, <1>2

LEMMA NothingPromised == todo' = <<>> => OneKind' /\ Orderly'
BY DEF OneKind, Orderly

LEMMA NothingIsDue ==
    ASSUME Idle, Promises
    PROVE  \A r \in Rounds : ~Due(r)
BY DEF Idle, Promises, Promised

\* A request for one round makes no other one due.
LEMMA OnlyOneIsDue ==
    ASSUME IInv, Idle, Promises, NEW r \in Rounds, source' = source, pinned \subseteq pinned' \cup {r},
           \A p \in Rounds : p # r => heats'[p] = heats[p],
           heats'[r] = heats[r] \/ ~HeatsComplete(heats'[r]),
           NEW x \in Rounds, Due(x)'
    PROVE  x = r /\ (heats'[r] = heats[r] => r \in pinned /\ r \notin pinned')
<1>1. Rounds' = Rounds /\ Rounds \subseteq Int
    BY RoundsAreFinite DEF Rounds
<1>2. ~Due(x)
    BY NothingIsDue
<1>3. heats'[x] = heats[x] => x \in pinned /\ x \notin pinned'
    BY <1>1, <1>2, DueBefore
<1> QED  BY <1>3

LEMMA RecordingPromises ==
    ASSUME IInv, Apt, Calm, Promises, NEW r \in Rounds, NEW i \in DOMAIN heats[r], NEW out,
           RecordHeatResult(r, i, out), IInv'
    PROVE  Promises'
<1> DEFINE S == RoundsToInvalidate(r)
           more == <<Step("trigger", r)>>
           new == [heats[r] EXCEPT ![i].out = out]
<1>1. S \in SUBSET Rounds /\ more \in Seq(Request)
    BY DEF RoundsToInvalidate, Step, Request, Dos
<1>2. /\ DOMAIN more = {1} /\ more[1] = Step("trigger", r)
      /\ \A k \in DOMAIN more : more[k].do \in {"trigger", "fill"}
    BY DEF Step
<1>3. todo' = Steps("reset", S) \o more /\ UNCHANGED <<source, pinned>>
    BY DEF RecordHeatResult, Cascade
<1>4. \A p \in S : \E k \in DOMAIN more : Filler(more[k], p)
    BY <1>2 DEF Filler, Step, RoundsToInvalidate
<1>5. /\ heats[r] \in Seq(Heat) /\ heats' = [heats EXCEPT ![r] = new] /\ DOMAIN heats = Rounds
      /\ ~HasSlot(heats[r][i])
    BY DEF RecordHeatResult, IInv, Shape
<1> HIDE DEF S, more
<1>6. /\ OneKind' /\ Orderly'
      /\ \A k \in DOMAIN more : \E j \in DOMAIN todo' : todo'[j] = more[k]
    BY <1>1, <1>2, <1>3, <1>4, ResetsThenFills DEF Step
<1>7. PICK j \in DOMAIN todo' : todo'[j] = Step("trigger", r)
    BY <1>2, <1>6
<1>8. Fielded(heats[r])
    BY <1>5, CalmIsApt DEF Sound, Waiting
<1>9. Thins(new, heats[r]) /\ new = heats'[r] /\ \A p \in Rounds : p # r => heats'[p] = heats[p]
    BY <1>5, RecordedThins
<1>10. Rounds' = Rounds /\ Rounds \subseteq Int /\ race \in Races
    BY <1>3, RoundsAreFinite DEF Rounds, IInv, Shape
<1> HIDE DEF new
<1>11. new \in Seq(Heat)
  <2>1. race' = race
      BY DEF RecordHeatResult
  <2> QED  BY <2>1, <1>9, <1>10, NewHeats
<1>12. OpenSlots(heats'[r]) = {}
    BY <1>5, <1>8, <1>9, <1>10, <1>11, ThinnedFacts, FieldedFacts
<1>13. Promised'
  <2> SUFFICES ASSUME NEW x \in Rounds, Due(x)' PROVE Filler(todo'[j], x)
      BY <1>10 DEF Promised, Filler, Step
  <2>1. x # r
      BY <1>12, SlotsOfDue
  <2>2. ~(x < r)
    <3>1. ~Due(x)
        BY NothingIsDue DEF RecordHeatResult
    <3> QED  BY <3>1, <2>1, <1>3, <1>9, <1>10, DueBefore
  <2>3. r < x
      BY <2>1, <2>2, <1>10
  <2> QED  BY <2>3, <1>7 DEF Filler, Step
<1> QED  BY <1>6, <1>13 DEF Promises

LEMMA RunOffPromises == ASSUME IInv, Promises, RecordRunOff PROVE Promises'
<1> DEFINE S == RoundsToInvalidate(0)
           more == Steps("fill", Rounds)
<1>1. S \in SUBSET Rounds /\ more \in Seq(Request) /\ more \in Seq({Step("fill", r) : r \in Rounds})
    BY StepsAreRequests, StepsFacts DEF RoundsToInvalidate, Dos
<1>2. \A r \in Rounds : \E k \in DOMAIN more : more[k] = Step("fill", r)
    BY StepsFacts
<1>3. todo' = Steps("reset", S) \o more /\ UNCHANGED <<source, pinned, heats>> /\ Idle
    BY DEF RecordRunOff, RunOffCascade
<1> HIDE DEF more, S
<1>4. \A k \in DOMAIN more : more[k].do \in {"trigger", "fill"}
  <2> SUFFICES ASSUME NEW k \in DOMAIN more PROVE more[k].do \in {"trigger", "fill"}
      OBVIOUS
  <2>1. PICK r \in Rounds : more[k] = Step("fill", r)
      BY <1>1
  <2> QED  BY <2>1 DEF Step
<1>5. \A r \in S : \E k \in DOMAIN more : Filler(more[k], r)
    BY <1>1, <1>2 DEF Filler
<1>6. OneKind' /\ Orderly'
    BY <1>1, <1>3, <1>4, <1>5, ResetsThenFills
<1>7. Rounds' = Rounds
    BY <1>3 DEF Rounds
<1>8. Promised'
  <2> SUFFICES ASSUME NEW r \in Rounds, Due(r)' PROVE FALSE
      BY <1>7 DEF Promised
  <2> QED  BY <1>3, OnlyOneIsDue
<1> QED  BY <1>6, <1>8 DEF Promises

LEMMA CheckInPromises == ASSUME IInv, Promises, NEW q, CheckIn(q) PROVE Promises'
<1> DEFINE S == {r \in Rounds : ~IsFed(r)}
           T == {Step("withdraw", r) : r \in Rounds} \cup {Step("admit", r) : r \in S}
<1>1. /\ Steps("withdraw", Rounds) \in Seq({Step("withdraw", r) : r \in Rounds})
      /\ Steps("admit", S) \in Seq({Step("admit", r) : r \in S})
    BY StepsFacts
<1>2. /\ todo' = Steps("withdraw", Rounds) \o Steps("admit", S)
      /\ UNCHANGED <<source, pinned, heats>> /\ Idle
    BY DEF CheckIn
<1>3. todo' \in Seq(T)
    BY <1>1, <1>2
<1>4. \A step \in T : step.do \in {"withdraw", "admit"}
    BY DEF Step
<1> HIDE DEF S, T
<1>5. \A i \in DOMAIN todo' : todo'[i].do \in {"withdraw", "admit"}
    BY <1>3, <1>4
<1>6. Rounds' = Rounds
    BY <1>2 DEF Rounds
<1>7. Promised'
  <2> SUFFICES ASSUME NEW r \in Rounds, Due(r)' PROVE FALSE
      BY <1>6 DEF Promised
  <2> QED  BY <1>2, OnlyOneIsDue
<1> QED  BY <1>5, <1>7 DEF Promises, OneKind, Orderly

LEMMA CreatePromises ==
    ASSUME IInv, Promises, NEW s \in race.offered, CreateRound(s)
    PROVE  Promises'
<1> DEFINE n == NextNumber
<1>1. n \in Nat /\ n \notin Rounds /\ \A p \in Rounds : p < n
    BY NextNumberIsNew, NextNumberIsLast
<1> HIDE DEF n
<1>2. /\ source' = [r \in Rounds \cup {n} |-> IF r = n THEN s ELSE source[r]]
      /\ \A r \in Rounds : heats'[r] = heats[r]
      /\ todo' = AskToFill(s, n) /\ pinned' = pinned /\ Idle
  <2>1. heats' = [r \in Rounds \cup {n} |->
                     IF r # n THEN heats[r]
                     ELSE IF s = General THEN RosterRebuilt(<<>>) ELSE SlotsRebuilt(<<>>)]
      BY DEF CreateRound, n
  <2>2. \A r \in Rounds : heats'[r] = heats[r]
      BY <2>1, <1>1
  <2> QED  BY <2>2 DEF CreateRound, n
<1>3. Rounds' = Rounds \cup {n} /\ source'[n] = s /\ \A r \in Rounds : source'[r] = source[r]
    BY <1>1, <1>2 DEF Rounds
<1>4. Rounds \subseteq Int /\ Rounds' \subseteq Int
    BY <1>1, <1>3, RoundsAreFinite
<1>5. ASSUME NEW r \in Rounds' , Due(r)'
      PROVE  r = n /\ s # General
  <2>1. r \in Rounds => FALSE
    <3> SUFFICES ASSUME r \in Rounds PROVE FALSE
        OBVIOUS
    <3>1. ~Due(r)
        BY <1>2, NothingIsDue
    <3> QED  BY <3>1, <1>1, <1>2, <1>3, <1>4, <1>5, DueBefore
  <2> QED  BY <2>1, <1>3, <1>5, SlotsOfDue
<1>6. /\ OneKind' /\ Orderly'
      /\ s # General => \E i \in DOMAIN todo' : Filler(todo'[i], n)
    BY <1>2, AsksToFill
<1>7. Promised'
  <2> SUFFICES ASSUME NEW r \in Rounds', Due(r)'
               PROVE  \E i \in DOMAIN todo' : Filler(todo'[i], r)
      BY DEF Promised, Filler, Step
  <2> QED  BY <1>5, <1>6
<1> QED  BY <1>6, <1>7 DEF Promises

LEMMA RegeneratePromises ==
    ASSUME IInv, Promises, NEW r \in Rounds, RegenerateRound(r)
    PROVE  Promises'
<1>1. /\ World /\ heats[r] \in Seq(Heat) /\ race \in Races
      /\ race.size \in 1..race.size + Cardinality(Racers)
    BY InvariantIsWorld, RaceFacts, SeatFacts DEF IInv, Shape
<1>2. /\ UNCHANGED <<source, pinned>> /\ Idle
      /\ heats'[r] = IF IsFed(r) THEN SlotsRebuilt(heats[r]) ELSE RosterRebuilt(heats[r])
      /\ \A p \in Rounds : p # r => heats'[p] = heats[p]
      /\ todo' = AskToFill(source[r], r)
    BY DEF RegenerateRound, IInv, Shape
<1>3. ~HeatsComplete(heats'[r])
    BY <1>1, <1>2, SlotsAreManned, RosterIsManned
<1>4. /\ OneKind' /\ Orderly'
      /\ source[r] # General => \E i \in DOMAIN todo' : Filler(todo'[i], r)
    BY <1>2, AsksToFill
<1>5. Rounds' = Rounds
    BY <1>2 DEF Rounds
<1>6. Promised'
  <2> SUFFICES ASSUME NEW x \in Rounds, Due(x)'
               PROVE  \E i \in DOMAIN todo' : Filler(todo'[i], x)
      BY <1>5 DEF Promised, Filler, Step
  <2>1. x = r
      BY <1>2, <1>3, OnlyOneIsDue
  <2> QED  BY <2>1, <1>2, <1>4, SlotsOfDue
<1> QED  BY <1>4, <1>6 DEF Promises

LEMMA PinPromises ==
    ASSUME IInv, Promises, NEW r \in Rounds, NEW picks \in Picks, PinRoundField(r, picks)
    PROVE  Promises'
<1>1. ~HeatsComplete(heats'[r])
    BY PickIsManned DEF PickedByHand
<1>2. /\ source' = source /\ pinned' = pinned \cup {r} /\ Idle /\ todo' = <<>>
      /\ \A p \in Rounds : p # r => heats'[p] = heats[p]
    BY DEF PinRoundField, Idle, IInv, Shape
<1>3. Rounds' = Rounds
    BY <1>2 DEF Rounds
<1>4. Promised'
  <2> SUFFICES ASSUME NEW x \in Rounds, Due(x)' PROVE FALSE
      BY <1>3 DEF Promised
  <2>1. x = r
      BY <1>1, <1>2, OnlyOneIsDue
  <2> QED  BY <2>1, <1>2, SlotsOfDue
<1> QED  BY <1>2, <1>4, NothingPromised DEF Promises

LEMMA UnpinPromises ==
    ASSUME IInv, Promises, NEW r \in Rounds, UnpinRoundField(r)
    PROVE  Promises'
<1>1. /\ UNCHANGED <<source, heats>> /\ Idle /\ pinned' = pinned \ {r}
      /\ todo' = IF MayRebuild(heats[r]) THEN <<Step("reset", r), Step("fill", r)>> ELSE <<>>
    BY DEF UnpinRoundField
<1>2. Rounds' = Rounds
    BY <1>1 DEF Rounds
<1>3. ASSUME NEW x \in Rounds, Due(x)' PROVE x = r /\ MayRebuild(heats[r])
  <2>1. x = r
      BY <1>1, <1>3, OnlyOneIsDue
  <2> QED  BY <2>1, <1>1, <1>3, SlotsOfDue
<1>4. CASE todo' = <<>>
  <2>1. \A x \in Rounds : ~Due(x)'
      BY <1>1, <1>3, <1>4
  <2> QED  BY <2>1, <1>2, <1>4, NothingPromised DEF Promises, Promised
<1>5. CASE todo' = <<Step("reset", r), Step("fill", r)>>
  <2>1. DOMAIN todo' = {1, 2} /\ todo'[1] = Step("reset", r) /\ todo'[2] = Step("fill", r)
      BY <1>5
  <2>2. \A x : x = r => Filler(todo'[2], x)
      BY <2>1 DEF Filler
  <2>3. OneKind'
      BY <2>1 DEF OneKind, Step
  <2>4. Orderly'
    <3> SUFFICES ASSUME NEW i \in DOMAIN todo', todo'[i].do = "reset"
                 PROVE  \E j \in DOMAIN todo' : j > i /\ Filler(todo'[j], todo'[i].round)
        BY DEF Orderly, Filler, Step
    <3>1. i = 1 /\ todo'[i].round = r
        BY <2>1 DEF Step
    <3> QED  BY <3>1, <2>1, <2>2
  <2>5. Promised'
      BY <1>2, <1>3, <2>1, <2>2 DEF Promised, Filler, Step
  <2> QED  BY <2>3, <2>4, <2>5 DEF Promises
<1> QED  BY <1>1, <1>4, <1>5

LEMMA AdvancePromises ==
    ASSUME IInv, Apt, Calm, Manning, Promises, NEW r \in Rounds, AdvanceRound(r)
    PROVE  Promises'
<1>1. /\ UNCHANGED <<source, pinned>> /\ Idle /\ todo' = <<>>
      /\ heats'[r] = Populated(heats[r], Winners(source[r]))
      /\ \A p \in Rounds : p # r => heats'[p] = heats[p]
    BY DEF AdvanceRound, Idle, IInv, Shape
<1>2. FilledAgain(r)
    BY <1>1 DEF FilledAgain, AdvanceRound
<1>3. heats'[r] = heats[r] \/ (~HeatsComplete(heats'[r]) /\ OpenSlots(heats'[r]) = {})
    BY <1>1, <1>2, FillingFills
<1>4. Rounds' = Rounds
    BY <1>1 DEF Rounds
<1>5. Promised'
  <2> SUFFICES ASSUME NEW x \in Rounds, Due(x)' PROVE FALSE
      BY <1>4 DEF Promised
  <2>1. x = r /\ heats'[r] # heats[r]
      BY <1>1, <1>3, OnlyOneIsDue
  <2> QED  BY <2>1, <1>3, SlotsOfDue
<1> QED  BY <1>1, <1>5, NothingPromised DEF Promises

LEMMA PromisesKept ==
    ASSUME IInv, Fitting, Apt, Calm, Manning, Promises, [Next]_vars
    PROVE  Promises'
<1>1. Settle => Promises'
    BY SettleKeepsPromises
<1>2. ~Crash
    BY DEF Crash, Calm, Without
<1>3. ASSUME NEW r \in Rounds, RoundRequest(r) PROVE Promises'
  <2>1. ~DeleteRound(r) /\ \A i : ~DeleteHeat(r, i)
      BY DEF DeleteRound, DeleteHeat, Calm, Without
  <2>2. CASE \E i \in DOMAIN heats[r] : \E out \in {NotRun, Skipped, Partial} \cup Racers :
               RecordHeatResult(r, i, out)
      BY <2>2, RecordingPromises, StepsKeep
  <2>3. CASE RegenerateRound(r)
      BY <2>3, RegeneratePromises
  <2>4. CASE \E picks \in Picks : PinRoundField(r, picks)
      BY <2>4, PinPromises
  <2>5. CASE UnpinRoundField(r)
      BY <2>5, UnpinPromises
  <2>6. CASE AdvanceRound(r)
      BY <2>6, AdvancePromises
  <2> QED  BY <1>3, <2>1, <2>2, <2>3, <2>4, <2>5, <2>6 DEF RoundRequest
<1>4. ASSUME NEW q \in race.movers, CheckIn(q) \/ SetExcluded(q) PROVE Promises'
  <2>1. CheckIn(q)
      BY <1>4 DEF SetExcluded, Calm, Without
  <2> QED  BY <2>1, CheckInPromises
<1>5. ASSUME NEW s \in race.offered, CreateRound(s) PROVE Promises'
    BY <1>5, CreatePromises
<1>6. RecordRunOff => Promises'
    BY RunOffPromises
<1>7. \A lanes : ~SetLaneOutages(lanes)
    BY DEF SetLaneOutages, Calm, Without
<1>8. ASSUME UNCHANGED vars PROVE Promises'
  <2>1. UNCHANGED <<source, pinned, heats, todo>> /\ Rounds' = Rounds /\ Rounds \subseteq Int
      BY <1>8, RoundsAreFinite DEF vars, Rounds
  <2>2. OneKind' /\ Orderly'
      BY <2>1 DEF Promises, OneKind, Orderly, Filler, Step
  <2>3. \A r \in Rounds : Due(r)' => Due(r)
      BY <2>1, DueBefore
  <2> QED  BY <2>1, <2>2, <2>3 DEF Promises, Promised, Filler, Step
<1> QED  BY <1>1, <1>2, <1>3, <1>4, <1>5, <1>6, <1>7, <1>8 DEF Next

LEMMA InitIsRipe == Init => Ripe
<1> SUFFICES ASSUME Init PROVE Manning /\ Promises
    BY DEF Ripe
<1>1. IInv /\ World /\ race \in Races /\ <<>> \in Seq(Heat)
    BY InitHolds, InvariantIsWorld DEF World
<1>2. Rounds = DOMAIN Plan /\ Rounds = 1..Len(Plan) /\ todo = <<>>
    BY PlanAssumption DEF Init, Rounds
<1>3. race.size \in 1..race.size + Cardinality(Racers)
    BY <1>1, RaceFacts, SeatFacts
<1>4. ASSUME NEW r \in Rounds
      PROVE  /\ Manned(heats[r]) /\ ~HeatsComplete(heats[r])
             /\ Field(heats[r]) \subseteq checkedIn
  <2>1. CASE IsFed(r)
    <3>1. heats[r] = SlotsRebuilt(<<>>)
        BY <1>2, <2>1 DEF Init
    <3>2. heats[r] \in Seq(Heat) /\ Waiting(heats[r])
        BY <1>1, <3>1, SlotsAreWhole
    <3>3. Field(heats[r]) = {}
        BY <1>1, <3>2, WaitingFacts
    <3> QED  BY <1>1, <1>3, <3>1, <3>3, SlotsAreManned
  <2>2. CASE ~IsFed(r)
    <3>1. heats[r] = RosterRebuilt(<<>>) /\ heats[r] \in Seq(Heat)
        BY <1>1, <1>2, <2>2 DEF Init, IInv, Shape
    <3>2. \A i \in DOMAIN heats[r] : Range(heats[r][i].lanes) \subseteq checkedIn \cup {Nobody}
        BY <1>1, <3>1, RosterIsWhole
    <3>3. Nobody \notin Racers
        BY RacersAssumption DEF Nobody
    <3>4. Field(heats[r]) \subseteq checkedIn
        BY <1>1, <3>1, <3>2, <3>3, SeatedFacts
    <3> QED  BY <1>1, <3>1, <3>4, RosterIsManned
  <2> QED  BY <2>1, <2>2
<1>5. Manning
  <2>1. \A r \in Rounds : source[r] > 0 => source[r] \in Rounds /\ source[r] < r
    <3> SUFFICES ASSUME NEW r \in Rounds, source[r] > 0 PROVE source[r] \in Rounds /\ source[r] < r
        OBVIOUS
    <3>1. source[r] = Plan[r] /\ source[r] \in Int /\ Plan[r] < r
        BY <1>1, <1>2, PlanAssumption DEF Init, IInv, Shape
    <3> QED  BY <3>1, <1>2, PlanAssumption
  <2> QED  BY <2>1, <1>4 DEF Manning, Sources, Crews, Init
<1>6. \A r \in Rounds : ~Due(r)
    BY <1>4 DEF Due, RoundComplete
<1> QED  BY <1>2, <1>5, <1>6 DEF Promises, OneKind, Orderly, Promised

LEMMA RipeKept == IInv /\ Fitting /\ Apt /\ Ripe /\ [Next]_vars => Ripe'
<1> SUFFICES ASSUME IInv, Fitting, Apt, Ripe, [Next]_vars, Calm' PROVE Manning' /\ Promises'
    BY DEF Ripe
<1>1. race' = race
    BY StepsForm DEF Forms
<1>2. Calm
    BY <1>1 DEF Calm, Without
<1> QED  BY <1>2, ManningKept, PromisesKept DEF Ripe

LEMMA EverRipe == Spec => []Ripe
<1> QED  BY InitIsRipe, RipeKept, Invariant, EverFitting, EverApt, PTL DEF Spec

\* When all the racing before an unraced round is done, it is filled: nothing is
\* left to do only when no round that is due waits.
THEOREM RipeRoundsAreFilled == Spec => []RipeRoundIsFilled
<1>1. Ripe => RipeRoundIsFilled
    BY DEF Ripe, Calm, Promises, Promised, Due, Idle, RipeRoundIsFilled
<1> QED  BY <1>1, EverRipe, PTL

-----------------------------------------------------------------------------
(* The runs of a round are kept.                                           *)

\* A product, taken apart again.
LEMMA WholeQuotient ==
    ASSUME NEW a \in Nat, NEW b \in Nat \ {0}
    PROVE  (a * b) \div b = a
OBVIOUS

\* A sequence that lists nobody twice lists as many as it is long.
LEMMA ApartCounts ==
    ASSUME NEW S, NEW q \in Seq(S), Apart(q)
    PROVE  IsFiniteSet(Range(q)) /\ Cardinality(Range(q)) = Len(q)
<1> DEFINE n == Len(q)
           f == [k \in 1..n |-> q[k]]
<1>1. n \in Nat /\ DOMAIN q = 1..n
    OBVIOUS
<1>2. Range(q) = {q[k] : k \in 1..n}
    BY <1>1 DEF Range
<1>3. IsFiniteSet(1..n) /\ Cardinality(1..n) = n
    BY <1>1, FS_Interval
<1> HIDE DEF n
<1>4. f \in [1..n -> Range(q)] /\ \A j, k \in 1..n : f[j] = f[k] => j = k
    BY <1>2 DEF Apart, n
<1>5. \A x \in Range(q) : \E k \in 1..n : f[k] = x
    BY <1>2
<1> HIDE DEF f
<1>6. f \in Surjection(1..n, Range(q)) /\ f \in Injection(1..n, Range(q))
    BY <1>4, <1>5 DEF Surjection, Injection, IsInjective
<1>7. IsFiniteSet(Range(q)) /\ Cardinality(Range(q)) = n
    BY <1>3, <1>6, FS_Surjection
<1> QED  BY <1>7 DEF n

\* Participants who are drawn for as many heats as there are of them are all in.
LEMMA DrawSeatsAll ==
    ASSUME World, NEW count \in Nat, NEW participants \in Seq(Seats), Apart(participants),
           count >= Len(participants)
    PROVE  LET hs == Draw(count, participants)
           IN  /\ Len(hs) = count /\ Participants(hs) = Range(participants)
               /\ Cardinality(Participants(hs)) = Len(participants)
<1> DEFINE hs == Draw(count, participants)
           n == Len(participants)
<1>1. n \in Nat /\ DOMAIN participants = 1..n /\ Len(hs) = count /\ DOMAIN hs = 1..count
    BY DrawIsFresh DEF Draw
<1>2. Range(participants) = {participants[k] : k \in 1..n} /\ Nobody \notin Range(participants)
    BY <1>1 DEF Range, Seats
<1>3. Participants(hs) \subseteq Range(participants)
    BY DrawFacts DEF Participants
<1>4. ASSUME NEW k \in 1..n PROVE participants[k] \in Participants(hs)
  <2>1. k \in DOMAIN hs /\ k \in Nat /\ hs[k] = RotationHeat(participants, <<>>, k)
      BY <1>1, DrawFacts
  <2>2. PICK l \in usable : Turn(n, k, l) = k - 1
      BY <2>1, <1>1, <1>4, TurnFacts DEF World
  <2>3. Turn(n, k, l) < n /\ Turn(n, k, l) + 1 = k
      BY <2>2, <1>1
  <2>4. RotationHeat(participants, <<>>, k).lanes[l] = participants[k]
        /\ l \in DOMAIN RotationHeat(participants, <<>>, k).lanes
      BY <2>3, RotationSeats
  <2> HIDE DEF hs
  <2>5. participants[k] \in Range(hs[k].lanes)
      BY <2>1, <2>4 DEF Range
  <2>6. participants[k] # Nobody
      BY <1>2, <1>4
  <2> QED  BY <2>1, <2>5, <2>6 DEF Participants
<1>5. Participants(hs) = Range(participants)
    BY <1>2, <1>3, <1>4
<1> QED  BY <1>1, <1>5, ApartCounts

\* What a round is drawn with when it keeps its runs.
RunsHold(hs) ==
    /\ Len(hs) = race.runs * Cardinality(Participants(hs))
    /\ Cardinality(Participants(hs)) \in 1..race.size

LEMMA RebuiltKeepsRuns ==
    ASSUME World, NEW hs \in Seq(Heat), hs = <<>> \/ RunsHold(hs),
           NEW participants \in Seq(Seats), Apart(participants), Len(participants) \in 1..race.size
    PROVE  RunsHold(Rebuilt(hs, race.runs, participants))
<1> DEFINE had == Cardinality(Participants(hs))
           runs == IF hs = <<>> \/ had = 0 THEN race.runs ELSE Larger(1, Len(hs) \div had)
           n == Len(participants)
           new == Rebuilt(hs, race.runs, participants)
<1>1. race.runs \in Nat \ {0} /\ race.size \in Nat \ {0}
    BY RaceFacts DEF World
<1>2. runs = race.runs
  <2>1. CASE hs = <<>>
      BY <2>1
  <2>2. CASE hs # <<>> /\ had # 0
    <3>1. had \in Nat \ {0} /\ Len(hs) = race.runs * had
        BY <1>1, <2>2 DEF RunsHold
    <3>2. Len(hs) \div had = race.runs
        BY <3>1, <1>1, WholeQuotient
    <3> QED  BY <1>1, <2>2, <3>2 DEF Larger
  <2> QED  BY <2>1, <2>2
<1>3. new = Draw(n * race.runs, participants)
    BY <1>2 DEF Rebuilt
<1>4. n \in Nat \ {0}
    BY <1>1
<1> HIDE DEF n, new
<1>5. n * race.runs \in Nat /\ n * race.runs >= n /\ n * race.runs = race.runs * n
  <2>1. \A k \in Nat \ {0}, j \in Nat \ {0} : k * j \in Nat /\ k * j >= k /\ k * j = j * k
      BY Z3T(30)
  <2> QED  BY <2>1, <1>1, <1>4
<1>6. Len(new) = n * race.runs /\ Cardinality(Participants(new)) = n
    BY <1>3, <1>5, DrawSeatsAll DEF n
<1> QED  BY <1>5, <1>6 DEF RunsHold, new, n

\* The slots a final goes back to are as many as were asked for, and it is run as
\* often as it was: what is left of a shorter one does not divide by them.
LEMMA SlotsKeepRuns ==
    ASSUME World, ShortFieldsShow, NEW hs \in Seq(Heat), hs = <<>> \/ RunsHold(hs)
    PROVE  /\ RunsHold(SlotsRebuilt(hs))
           /\ RunsHold(ResetToSlots(hs, race.size))
<1> DEFINE n == race.size
           had == Cardinality(Participants(hs))
<1>1. race.runs \in Nat \ {0} /\ n \in Nat \ {0} /\ n \in 1..n + Cardinality(Racers)
      /\ race \in Races
    BY RaceFacts, SeatFacts DEF World
<1>2. /\ Slots(n) \in Seq(Seats) /\ Len(Slots(n)) = n /\ Apart(Slots(n))
  <2>1. Slots(n) \in Seq(Seats) /\ Len(Slots(n)) = n
      BY <1>1, SlotsAreSeats
  <2>2. Apart(Slots(n))
      BY <1>1, <2>1 DEF Apart, Slots
  <2> QED  BY <2>1, <2>2
<1>3. n \in 1..n
    BY <1>1
<1>4. RunsHold(Rebuilt(hs, race.runs, Slots(n)))
    BY <1>2, <1>3, RebuiltKeepsRuns
<1>5. ASSUME hs # <<>>, Len(hs) % n = 0 PROVE RunsHold(Draw(Len(hs), Slots(n)))
  <2>1. had \in 1..n /\ Len(hs) = race.runs * had /\ Len(hs) \in Nat
      BY <1>5 DEF RunsHold
  <2>2. had = n
    <3> SUFFICES ASSUME had # n PROVE FALSE
        OBVIOUS
    <3>1. had \in 1..n-1
        BY <2>1, <1>1
    <3>2. (had * race.runs) % n # 0
        BY <3>1 DEF ShortFieldsShow
    <3> HIDE DEF had, n
    <3>3. had * race.runs = race.runs * had
        BY <2>1, <1>1
    <3> QED  BY <3>2, <3>3, <2>1, <1>5
  <2> HIDE DEF had
  <2>3. Len(hs) = race.runs * n /\ Len(hs) >= n
    <3> DEFINE m == Len(hs)
    <3>1. m = race.runs * n
        BY <2>1, <2>2
    <3> HIDE DEF m, n
    <3>2. m >= n
        BY <3>1, <1>1
    <3> QED  BY <3>1, <3>2 DEF m
  <2>4. /\ Len(Draw(Len(hs), Slots(n))) = Len(hs)
        /\ Cardinality(Participants(Draw(Len(hs), Slots(n)))) = n
      BY <2>1, <2>3, <1>2, DrawSeatsAll
  <2> QED  BY <2>3, <2>4, <1>3 DEF RunsHold
<1> QED  BY <1>4, <1>5 DEF SlotsRebuilt, ResetToSlots

\* A round that waits has its slots filled one for one.
LEMMA ResolvedKeepsRuns ==
    ASSUME race \in Races, NEW hs \in Seq(Heat), RunsHold(hs), Waiting(hs), Numbered(hs),
           NEW S \in SUBSET Racers, NEW field \in Seq(S), Apart(field),
           Len(field) >= Cardinality(OpenSlots(hs))
    PROVE  RunsHold(Resolved(hs, field))
<1> DEFINE new == Resolved(hs, field)
           P == Participants(hs)
           f == [x \in P |-> field[-x]]
<1>1. /\ DOMAIN new = DOMAIN hs
      /\ \A i \in DOMAIN hs : new[i].lanes = Filled(hs[i].lanes, field)
    BY ResolvedFacts
<1>2. Len(new) = Len(hs)
    BY <1>1 DEF Resolved
<1>3. P \subseteq Seats /\ IsFiniteSet(P) /\ Field(hs) = {}
    BY ParticipantFacts, WaitingFacts
<1>4. P = OpenSlots(hs) /\ \A x \in P : x \in Int /\ x < 0
  <2>1. \A x \in P : x \in Int /\ x < 0
      BY <1>3, SeatFacts DEF Field, Seats
  <2> QED  BY <2>1 DEF OpenSlots
<1>5. \A x \in P : -x \in 1..Len(field)
  <2>1. Cardinality(OpenSlots(hs)) \in Nat /\ Len(field) \in Nat
      BY SeatedFacts
  <2> SUFFICES ASSUME NEW x \in P PROVE -x \in 1..Len(field)
      OBVIOUS
  <2>2. -x <= Cardinality(OpenSlots(hs)) /\ x \in Int /\ x < 0
      BY <1>4 DEF Numbered
  <2> HIDE DEF P
  <2> QED  BY <2>1, <2>2
<1>6. ASSUME NEW i \in DOMAIN hs, NEW l \in DOMAIN hs[i].lanes
      PROVE  /\ DOMAIN new[i].lanes = DOMAIN hs[i].lanes
             /\ hs[i].lanes[l] = Nobody => new[i].lanes[l] = Nobody
             /\ hs[i].lanes[l] # Nobody =>
                   /\ hs[i].lanes[l] \in P /\ new[i].lanes[l] = field[-hs[i].lanes[l]]
                   /\ new[i].lanes[l] \in Racers
  <2> DEFINE x == hs[i].lanes[l]
  <2>1. hs[i] \in Heat
      OBVIOUS
  <2>2. /\ DOMAIN Filled(hs[i].lanes, field) = DOMAIN hs[i].lanes
        /\ \/ /\ x < 0 /\ -x \in 1..Len(field)
              /\ Filled(hs[i].lanes, field)[l] = field[-x]
              /\ Filled(hs[i].lanes, field)[l] \in S
           \/ /\ ~(x < 0 /\ -x <= Len(field))
              /\ Filled(hs[i].lanes, field)[l] = x
      BY <2>1, FilledFacts
  <2>3. ~(Nobody < 0)
      BY DEF Nobody
  <2>4. x # Nobody => x \in P
      BY DEF Participants, Range
  <2>5. x # Nobody => x < 0 /\ -x <= Len(field)
      BY <2>4, <1>4, <1>5
  <2> HIDE DEF x, new, P
  <2> QED  BY <2>2, <2>3, <2>4, <2>5, <1>1 DEF x
<1>7. Nobody \notin Racers
    BY RacersAssumption DEF Nobody
<1> HIDE DEF new
<1>8. \A x \in P : f[x] \in Participants(new)
  <2> SUFFICES ASSUME NEW x \in P PROVE field[-x] \in Participants(new)
      OBVIOUS
  <2>1. PICK i \in DOMAIN hs : x \in Range(hs[i].lanes)
      BY DEF Participants
  <2>2. PICK l \in DOMAIN hs[i].lanes : hs[i].lanes[l] = x
      BY <2>1 DEF Range
  <2>3. x # Nobody
      BY DEF Participants
  <2>4. new[i].lanes[l] = field[-x] /\ l \in DOMAIN new[i].lanes /\ new[i].lanes[l] \in Racers
      BY <2>2, <2>3, <1>6
  <2> QED  BY <2>4, <1>1, <1>7 DEF Participants, Range
<1>9. \A y \in Participants(new) : \E x \in P : f[x] = y
  <2> SUFFICES ASSUME NEW y \in Participants(new) PROVE \E x \in P : field[-x] = y
      OBVIOUS
  <2>1. PICK i \in DOMAIN hs : y \in Range(new[i].lanes) /\ y # Nobody
      BY <1>1 DEF Participants
  <2>2. PICK l \in DOMAIN new[i].lanes : new[i].lanes[l] = y
      BY <2>1 DEF Range
  <2>3. DOMAIN new[i].lanes = DOMAIN hs[i].lanes
    <3>1. new[i].lanes = Filled(hs[i].lanes, field)
        BY <1>1
    <3> QED  BY <3>1 DEF Filled
  <2> QED  BY <2>1, <2>2, <2>3, <1>6
<1>10. \A x, y \in P : f[x] = f[y] => x = y
  <2> SUFFICES ASSUME NEW x \in P, NEW y \in P, field[-x] = field[-y] PROVE x = y
      OBVIOUS
  <2>1. -x = -y
      BY <1>5 DEF Apart
  <2>2. x \in Int /\ y \in Int
      BY <1>4
  <2> QED  BY <2>1, <2>2
<1> HIDE DEF P
<1>11. f \in [P -> Participants(new)]
    BY <1>8
<1> HIDE DEF f
<1>12. f \in Surjection(P, Participants(new)) /\ f \in Injection(P, Participants(new))
    BY <1>9, <1>10, <1>11 DEF Surjection, Injection, IsInjective
<1>13. Cardinality(Participants(new)) = Cardinality(P)
    BY <1>3, <1>12, FS_Surjection
<1> QED  BY <1>2, <1>13 DEF RunsHold, new, P

\* Where RunsAreKept is claimed, and what is kept: of a final that has lost lanes
\* while it was under way nothing is said.
Durable ==
    /\ Without({"delete_heat", "pin"}) /\ ~({"outage", "clear_final"} \subseteq race.uses)
    /\ ShortFieldsShow
RunsHeld ==
    Durable =>
        /\ pinned = {}
        /\ \A r \in Rounds : IsFed(r) /\ (MayRebuild(heats[r]) \/ "outage" \notin race.uses)
                             => RunsHold(heats[r])

LEMMA WinnersAreFew ==
    ASSUME IInv, NEW s \in Int
    PROVE  Len(Winners(s)) <= race.size
<1> DEFINE W == (OnLeaderboard(s) \cap checkedIn) \ excluded
           n == Cardinality(W)
           leader(k) == CHOOSE x \in W : Cardinality({y \in W : Ahead(s, y, x)}) = k - 1
           ranked == InOrder(W, LAMBDA p, q : Ahead(s, p, q))
           m == IF Len(ranked) < race.size THEN Len(ranked) ELSE race.size
<1>1. IsFiniteSet(W)
    BY RacersAssumption, FS_Subset DEF IInv, Scalars
<1>2. n \in Nat
    BY <1>1, FS_CardinalityType
<1>3. ranked = [k \in 1..n |-> leader(k)]
    BY DEF InOrder
<1>4. Winners(s) = SubSeq(ranked, 1, m)
    BY DEF Winners
<1>5. race.size \in Nat
    BY RaceFacts DEF IInv, Shape
<1> HIDE DEF n, W, leader, ranked
<1>6. ranked \in Seq({leader(k) : k \in 1..n}) /\ Len(ranked) = n
    BY <1>2, <1>3
<1>7. m \in 0..n /\ m <= race.size
    BY <1>2, <1>5, <1>6
<1> HIDE DEF m
<1>8. Len(SubSeq(ranked, 1, m)) = m
    BY <1>2, <1>6, <1>7
<1> QED  BY <1>4, <1>7, <1>8

LEMMA FillingKeepsRuns ==
    ASSUME IInv, Apt, Durable, NEW r \in Rounds, RunsHold(heats[r]), FilledAgain(r)
    PROVE  RunsHold(heats'[r])
<1> DEFINE hs == heats[r]
           field == Winners(source[r])
<1>1. /\ World /\ hs \in Seq(Heat) /\ race \in Races /\ Settled(hs) /\ race.size \in Nat
      /\ checkedIn \in SUBSET Racers /\ source[r] \in Int /\ Racers \subseteq Seats
    BY InvariantIsWorld, RaceFacts, SeatFacts DEF IInv, Shape, Scalars
<1>2. Good(hs) /\ Ready
    BY DEF Apt, GoodRounds, Durable, Without, DeletedThenFilled
<1>3. Numbered(hs) /\ Sound(hs)
    BY <1>2, FilledIsNumbered DEF Good
<1>4. /\ field \in Seq(checkedIn) /\ Apart(field) /\ field \in Seq(Racers)
      /\ Len(field) <= race.size
    BY <1>1, WinnersAreApart, WinnersAdvanceOnce, WinnersAreFew
<1>5. heats'[r] = Populated(hs, field)
    BY DEF FilledAgain
<1> HIDE DEF field
<1>6. field \in Seq(Seats)
    BY <1>1, <1>4
<1>7. CASE Fielded(hs)
  <2>1. heats'[r] = hs
      BY <1>1, <1>4, <1>5, <1>7, PopulatedPlaces
  <2> QED  BY <2>1
<1>8. CASE ~Fielded(hs) /\ field # <<>>
  <2>1. Waiting(hs) /\ MayRebuild(hs)
      BY <1>1, <1>3, <1>8, WaitingFacts DEF Sound
  <2>2. Len(field) \in 1..race.size
      BY <1>1, <1>4, <1>8
  <2>3. RunsHold(Rebuilt(hs, race.runs, field))
      BY <2>2, <1>1, <1>4, <1>6, RebuiltKeepsRuns
  <2>4. Cardinality(OpenSlots(hs)) \in Nat /\ Len(field) \in Nat
      BY <1>1, <1>4, SeatedFacts
  <2>5. Len(field) >= Cardinality(OpenSlots(hs)) => RunsHold(Resolved(hs, field))
      BY <2>1, <1>1, <1>3, <1>4, ResolvedKeepsRuns
  <2>6. \/ heats'[r] = Rebuilt(hs, race.runs, field)
        \/ /\ ~(Len(field) < Cardinality(OpenSlots(hs)))
           /\ heats'[r] = Resolved(hs, field)
      BY <2>1, <1>5, <1>8 DEF Populated
  <2> QED  BY <2>3, <2>4, <2>5, <2>6
<1>9. CASE field = <<>>
    BY <1>5, <1>9 DEF Populated
<1> QED  BY <1>7, <1>8, <1>9

LEMMA RewritingKeepsRuns ==
    ASSUME IInv, Apt, Durable, RunsHeld, NEW r \in Rounds, IsFed(r), Rewritten(r),
           heats'[r] \in Seq(Heat), MayRebuild(heats'[r]) \/ "outage" \notin race.uses
    PROVE  RunsHold(heats'[r])
<1>1. World /\ heats[r] \in Seq(Heat) /\ race \in Races /\ Settled(heats[r])
    BY InvariantIsWorld DEF IInv, Shape
<1>2. MayRebuild(heats[r]) \/ "outage" \notin race.uses => RunsHold(heats[r])
    BY DEF RunsHeld
<1>3. CASE heats'[r] = heats[r]
    BY <1>2, <1>3
<1>4. CASE DrawnForSlots(r)
  <2>1. RunsHold(heats[r])
      BY <1>2, <1>4 DEF DrawnForSlots
  <2> QED  BY <2>1, <1>1, <1>4, SlotsKeepRuns DEF DrawnForSlots, Durable
<1>5. CASE FilledAgain(r)
  <2>1. CASE MayRebuild(heats[r]) \/ "outage" \notin race.uses
      BY <2>1, <1>2, <1>5, FillingKeepsRuns
  <2>2. CASE ~MayRebuild(heats[r])
    <3>1. Sound(heats[r])
        BY DEF Apt, GoodRounds, Good, Durable, Without, DeletedThenFilled
    <3>2. Fielded(heats[r])
        BY <2>2, <3>1, <1>1, WaitingFacts DEF Sound
    <3>3. Winners(source[r]) \in Seq(checkedIn) /\ Apart(Winners(source[r]))
          /\ checkedIn \in SUBSET Racers
        BY WinnersAreApart DEF IInv, Scalars
    <3>4. heats'[r] = heats[r]
        BY <3>2, <3>3, <1>1, <1>5, PopulatedPlaces DEF FilledAgain
    <3> QED  BY <3>4, <1>3
  <2> QED  BY <2>1, <2>2
<1>6. CASE ThinnedOut(r)
  <2>1. r \notin pinned
      BY DEF RunsHeld
  <2>2. LanesKept(r)
      BY <2>1, <1>6 DEF ThinnedOut
  <2>3. MayRebuild(heats[r]) \/ "outage" \notin race.uses
      BY <2>2 DEF LanesKept, Durable
  <2>4. Len(heats'[r]) = Len(heats[r]) /\ DOMAIN heats'[r] = DOMAIN heats[r]
      BY <2>2, <1>1 DEF LanesKept
  <2>5. Participants(heats'[r]) = Participants(heats[r])
      BY <2>2, <2>4 DEF LanesKept, Participants
  <2> QED  BY <2>3, <2>4, <2>5, <1>2 DEF RunsHold
<1>7. ~DrawnForRoster(r) /\ ~LateAdded(r) /\ ~HeatGone(r) /\ ~PickedByHand(r)
    BY DEF DrawnForRoster, LateAdded, HeatGone, PickedByHand, PinRoundField, Durable, Without
<1> QED  BY <1>3, <1>4, <1>5, <1>6, <1>7 DEF Rewritten

\* RunsHold of a race that is passed to it.
KeepsRuns(rc, hs) ==
    /\ Len(hs) = rc.runs * Cardinality(Participants(hs))
    /\ Cardinality(Participants(hs)) \in 1..rc.size

LEMMA RunsKept == IInv /\ Fitting /\ Apt /\ RunsHeld /\ [Next]_vars => RunsHeld'
<1> SUFFICES ASSUME IInv, Fitting, Apt, RunsHeld, [Next]_vars, Durable'
             PROVE  /\ pinned' = {}
                    /\ \A r \in Rounds' :
                          /\ source'[r] # General
                          /\ MayRebuild(heats'[r]) \/ "outage" \notin race'.uses
                          => KeepsRuns(race', heats'[r])
    BY DEF RunsHeld, IsFed, MayRebuild, RunsHold, KeepsRuns, Participants
<1>1. IInv' /\ Forms /\ race' = race
    BY StepsKeep, StepsForm DEF Forms
<1>2. Durable
    BY <1>1 DEF Durable, Without, ShortFieldsShow
<1>3. pinned' = {}
    BY <1>1, <1>2 DEF Forms, RunsHeld, PickedByHand, PinRoundField, Durable, Without
<1>4. ASSUME NEW r \in Rounds', source'[r] # General,
             MayRebuild(heats'[r]) \/ "outage" \notin race.uses
      PROVE  RunsHold(heats'[r])
  <2>1. CASE r \in Rounds
    <3>1. Rewritten(r) /\ IsFed(r) /\ heats'[r] \in Seq(Heat)
        BY <1>1, <1>4, <2>1, NewHeats DEF Forms, IsFed
    <3> QED  BY <3>1, <2>1, <1>2, <1>4, RewritingKeepsRuns
  <2>2. CASE r \notin Rounds
    <3>1. heats'[r] = SlotsRebuilt(<<>>)
        BY <1>1, <1>4, <2>2 DEF Forms, Started
    <3>2. World /\ <<>> \in Seq(Heat)
        BY InvariantIsWorld
    <3> QED  BY <3>1, <3>2, <1>2, SlotsKeepRuns DEF Durable
  <2> QED  BY <2>1, <2>2
<1>5. \A r \in Rounds' : RunsHold(heats'[r]) => KeepsRuns(race', heats'[r])
    BY <1>1 DEF RunsHold, KeepsRuns
<1> QED  BY <1>1, <1>3, <1>4, <1>5

LEMMA EverRunsHeld == Spec => []RunsHeld
<1>1. Init => RunsHeld
  <2> SUFFICES ASSUME Init, Durable, NEW r \in Rounds, IsFed(r) PROVE RunsHold(heats[r])
      BY DEF RunsHeld, Init
  <2>1. World /\ <<>> \in Seq(Heat)
      BY InitHolds, InvariantIsWorld
  <2>2. heats[r] = SlotsRebuilt(<<>>)
      BY DEF Init, Rounds
  <2> QED  BY <2>1, <2>2, SlotsKeepRuns DEF Durable
<1> QED  BY <1>1, RunsKept, Invariant, EverFitting, EverApt, PTL DEF Spec

\* A championship round keeps the runs it was set up for, although they are stored
\* nowhere: every reset, fill and rebuild for a short field divides them out of the
\* heats it finds, and draws as many again.
THEOREM RunsStand == Spec => []RunsAreKept
<1>1. RunsHeld => RunsAreKept
  <2> SUFFICES ASSUME RunsHeld, Durable, NEW r \in Rounds, AwaitsStandings(r)
               PROVE  Len(heats[r]) = race.runs * Cardinality(Participants(heats[r]))
      BY DEF RunsAreKept, Durable
  <2> QED  BY DEF RunsHeld, AwaitsStandings, Unraced, RunsHold
<1> QED  BY <1>1, EverRunsHeld, PTL

-----------------------------------------------------------------------------
(* Who advances, when the standings are made again.                        *)

\* Taking away others than the first n of a ranking leaves the first n.
LEMMA FirstStay ==
    ASSUME NEW S, IsFiniteSet(S), NEW Below, Ranks(S, Below), NEW n \in Nat,
           NEW T \in SUBSET S, \A x \in S : Cardinality(Below[x]) < n => x \in T
    PROVE  \A x \in S : (x \in T /\ Cardinality(Below[x] \cap T) < n)
                            <=> Cardinality(Below[x]) < n
<1>1. \A x \in S : Below[x] \in SUBSET S /\ IsFiniteSet(Below[x])
  <2>1. \A x \in S : Below[x] \in SUBSET S
      BY DEF Ranks
  <2> QED  BY <2>1, FS_Subset
<1>2. \A x \in S : /\ Cardinality(Below[x]) \in Nat
                   /\ Cardinality(Below[x] \cap T) \in Nat
                   /\ Cardinality(Below[x] \cap T) <= Cardinality(Below[x])
  <2> TAKE x \in S
  <2>1. Below[x] \cap T \in SUBSET Below[x]
      OBVIOUS
  <2> QED  BY <1>1, <2>1, FS_Subset, FS_CardinalityType
<1>3. ASSUME NEW x \in S, Cardinality(Below[x]) < n
      PROVE  x \in T /\ Cardinality(Below[x] \cap T) < n
    BY <1>2, <1>3
<1>4. ASSUME NEW x \in T, ~(Cardinality(Below[x]) < n)
      PROVE  ~(Cardinality(Below[x] \cap T) < n)
  <2>1. x \in S /\ Cardinality(S) \in Nat /\ Cardinality(Below[x]) \in 0..Cardinality(S)-1
      BY RanksAreApart
  <2>2. n + 1 \in 1..Cardinality(S) /\ n <= Cardinality(Below[x])
      BY <2>1, <1>4
  <2>3. PICK z \in S : HasRank(z, n + 1, Below)
      BY <2>2, EveryRankIsTaken
  <2>4. Cardinality(Below[z]) = n
      BY <2>3 DEF HasRank
  <2>5. z = x \/ z \in Below[x]
    <3>1. ASSUME x \in Below[z], Below[x] \subseteq Below[z] PROVE FALSE
      <4>1. x \notin Below[x]
          BY <2>1 DEF Ranks
      <4>2. Below[x] \in SUBSET (Below[z] \ {x})
          BY <4>1, <3>1
      <4>3. Cardinality(Below[z] \ {x}) = n - 1 /\ IsFiniteSet(Below[z] \ {x})
          BY <1>1, <2>4, <3>1, FS_RemoveElement
      <4>4. Cardinality(Below[x]) <= n - 1
          BY <4>2, <4>3, FS_Subset
      <4> QED  BY <4>4, <2>1, <2>2
    <3> QED  BY <2>1, <3>1 DEF Ranks
  <2>6. Below[z] \subseteq Below[x]
    <3>1. CASE z \in Below[x]
      <4>1. x # z
          BY <2>1, <3>1 DEF Ranks
      <4>2. x \in Below[z] /\ Below[x] \subseteq Below[z] => z \in Below[z]
          BY <3>1
      <4> QED  BY <2>1, <4>1, <4>2 DEF Ranks
    <3> QED  BY <2>5, <3>1
  <2>7. ASSUME NEW y \in Below[z] PROVE y \in T
    <3>1. y \in S /\ z \notin Below[z] /\ y # z
        BY <1>1, <2>3 DEF Ranks
    <3>2. Below[y] \subseteq Below[z] /\ y \notin Below[y]
        BY <3>1, <2>3 DEF Ranks
    <3>3. Below[y] \in SUBSET (Below[z] \ {y})
        BY <3>2
    <3>4. Cardinality(Below[z] \ {y}) = n - 1 /\ IsFiniteSet(Below[z] \ {y})
        BY <1>1, <2>3, <2>4, FS_RemoveElement
    <3>5. Cardinality(Below[y]) <= n - 1
        BY <3>3, <3>4, FS_Subset
    <3>7. Cardinality(Below[y]) \in Nat
        BY <3>1, <1>2
    <3>6. Cardinality(Below[y]) < n
        BY <3>5, <3>7
    <3> QED  BY <3>1, <3>6
  <2>8. Below[z] \in SUBSET (Below[x] \cap T) /\ IsFiniteSet(Below[x] \cap T)
    <3>1. Below[x] \cap T \in SUBSET Below[x]
        OBVIOUS
    <3> QED  BY <2>1, <2>6, <2>7, <3>1, <1>1, FS_Subset
  <2>9. Cardinality(Below[z]) <= Cardinality(Below[x] \cap T)
      BY <2>8, FS_Subset
  <2> QED  BY <2>1, <2>4, <2>9, <1>2
<1> QED  BY <1>3, <1>4

\* Those a source's standings rank, and the first of them.
Eligible(s) == (OnLeaderboard(s) \cap checkedIn) \ excluded
IsTop(s, x) == Cardinality({y \in Eligible(s) : Ahead(s, y, x)}) < race.size

\* Those who advance are the first.
LEMMA WinnersAreTop ==
    ASSUME IInv, NEW s \in Int
    PROVE  Range(Winners(s)) = {x \in Eligible(s) : IsTop(s, x)}
<1> DEFINE W == (OnLeaderboard(s) \cap checkedIn) \ excluded
           Below == [x \in W |-> {y \in W : Ahead(s, y, x)}]
           n == Cardinality(W)
           leader(k) == CHOOSE x \in W : Cardinality({y \in W : Ahead(s, y, x)}) = k - 1
           ranked == InOrder(W, LAMBDA p, q : Ahead(s, p, q))
           m == IF Len(ranked) < race.size THEN Len(ranked) ELSE race.size
<1>1. W \in SUBSET Racers
    BY DEF IInv, Scalars
<1>2. IsFiniteSet(W)
    BY <1>1, RacersAssumption, FS_Subset
<1>3. Ranks(W, Below)
    BY <1>1, AheadRanks
<1>4. \A x \in W : Below[x] = {y \in W : Ahead(s, y, x)}
    OBVIOUS
<1>5. ranked = [k \in 1..n |-> leader(k)]
    BY DEF InOrder
<1>6. Winners(s) = SubSeq(ranked, 1, m)
    BY DEF Winners
<1>7. race.size \in Nat \ {0}
    BY RaceFacts DEF IInv, Shape
<1>8. Eligible(s) = W
    BY DEF Eligible
<1>9. \A x \in W : IsTop(s, x) <=> Cardinality(Below[x]) < race.size
    BY <1>4, <1>8 DEF IsTop
<1> HIDE DEF W, Below
<1>10. ASSUME NEW k \in 1..n PROVE leader(k) \in W /\ HasRank(leader(k), k, Below)
  <2> DEFINE a == leader(k)
  <2>1. \E x \in W : HasRank(x, k, Below)
      BY <1>2, <1>3, EveryRankIsTaken
  <2>2. \E x \in W : Cardinality({y \in W : Ahead(s, y, x)}) = k - 1
      BY <2>1, <1>4 DEF HasRank
  <2>3. a \in W /\ Cardinality({y \in W : Ahead(s, y, a)}) = k - 1
      BY <2>2, Zenon
  <2> QED  BY <2>3, <1>4 DEF HasRank
<1> HIDE DEF leader, ranked
<1>11. n \in Nat /\ \A x \in W : Cardinality(Below[x]) \in 0..n-1
    BY <1>2, <1>3, RanksAreApart
<1>12. ranked \in Seq(W) /\ Len(ranked) = n /\ \A k \in 1..n : ranked[k] \in W
    BY <1>5, <1>10, <1>11
<1>13. m \in 0..n /\ \A k \in 1..n : k <= m <=> k - 1 < race.size
    BY <1>7, <1>11, <1>12
<1> HIDE DEF m, n
<1>14. /\ Len(Winners(s)) = m /\ Winners(s) \in Seq(W)
       /\ \A k \in 1..m : Winners(s)[k] = leader(k)
  <2>1. n \in Nat
      BY <1>11
  <2>2. \A k \in 1..m : SubSeq(ranked, 1, m)[k] = ranked[k] /\ k \in 1..n
      BY <1>12, <1>13, <2>1
  <2>3. Len(SubSeq(ranked, 1, m)) = m /\ SubSeq(ranked, 1, m) \in Seq(W)
      BY <1>12, <1>13, <2>1
  <2> QED  BY <2>2, <2>3, <1>5, <1>6
<1>15. Range(Winners(s)) = {leader(k) : k \in 1..m}
  <2>1. DOMAIN Winners(s) = 1..m
      BY <1>14
  <2> QED  BY <2>1, <1>14 DEF Range
<1>16. ASSUME NEW k \in 1..m PROVE leader(k) \in W /\ IsTop(s, leader(k))
  <2>1. k \in 1..n /\ k - 1 < race.size
      BY <1>11, <1>13
  <2>2. leader(k) \in W /\ Cardinality(Below[leader(k)]) = k - 1
      BY <2>1, <1>10 DEF HasRank
  <2> QED  BY <2>1, <2>2, <1>9
<1>17. ASSUME NEW x \in W, IsTop(s, x) PROVE \E k \in 1..m : x = leader(k)
  <2> DEFINE k == Cardinality(Below[x]) + 1
  <2>1. k \in 1..n /\ k - 1 = Cardinality(Below[x]) /\ k - 1 < race.size
      BY <1>9, <1>11, <1>17
  <2>2. leader(k) \in W /\ Cardinality(Below[leader(k)]) = Cardinality(Below[x])
      BY <2>1, <1>10 DEF HasRank
  <2>3. leader(k) = x
      BY <2>2, <1>2, <1>3, RanksAreApart
  <2>4. k \in 1..m
      BY <2>1, <1>13, <1>11
  <2> QED  BY <2>3, <2>4
<1> QED  BY <1>8, <1>15, <1>16, <1>17

\* The standings are made of what is in the heats that count.
LEMMA ScoredEntries ==
    ASSUME NEW s
    PROVE  /\ \A e : e \in Scored(s) <=> \E p \in ScoredRounds(s) : \E i \in DOMAIN heats[p] : e = <<p, i>>
           /\ \A p, i : ScoredHeat(<<p, i>>) = heats[p][i]
<1>1. ASSUME NEW e
      PROVE  e \in Scored(s) <=> \E p \in ScoredRounds(s) : \E i \in DOMAIN heats[p] : e = <<p, i>>
    BY DEF Scored
<1> QED  BY <1>1 DEF ScoredHeat

\* Who is on the leaderboard is who is seated in the rounds that count.
LEMMA BoardIsFields ==
    IInv => \A s \in Int : \A q :
        q \in OnLeaderboard(s) <=> \E p \in ScoredRounds(s) : q \in Field(heats[p])
<1> SUFFICES ASSUME IInv, NEW s \in Int, NEW q
             PROVE  q \in OnLeaderboard(s) <=> \E p \in ScoredRounds(s) : q \in Field(heats[p])
    OBVIOUS
<1>1. race \in Races /\ \A p \in ScoredRounds(s) : heats[p] \in Seq(Heat)
    BY DEF IInv, Shape, ScoredRounds
<1>2. q \in OnLeaderboard(s) <=> q \in Racers /\ \E e \in Scored(s) : q \in Range(ScoredHeat(e).lanes)
    BY DEF OnLeaderboard
<1>3. (\E e \in Scored(s) : q \in Range(ScoredHeat(e).lanes))
         <=> \E p \in ScoredRounds(s) : \E i \in DOMAIN heats[p] : q \in Range(heats[p][i].lanes)
  <2>1. ASSUME NEW p \in ScoredRounds(s), NEW i \in DOMAIN heats[p]
        PROVE  <<p, i>> \in Scored(s) /\ ScoredHeat(<<p, i>>) = heats[p][i]
      BY ScoredEntries
  <2>2. ASSUME NEW e \in Scored(s)
        PROVE  \E p \in ScoredRounds(s) : \E i \in DOMAIN heats[p] : ScoredHeat(e) = heats[p][i]
      BY ScoredEntries
  <2>3. ASSUME NEW e \in Scored(s), q \in Range(ScoredHeat(e).lanes)
        PROVE  \E p \in ScoredRounds(s) : \E i \in DOMAIN heats[p] : q \in Range(heats[p][i].lanes)
    <3>1. PICK p \in ScoredRounds(s) : \E i \in DOMAIN heats[p] : ScoredHeat(e) = heats[p][i]
        BY <2>2
    <3> QED  BY <3>1, <2>3
  <2>4. ASSUME NEW p \in ScoredRounds(s), NEW i \in DOMAIN heats[p], q \in Range(heats[p][i].lanes)
        PROVE  \E e \in Scored(s) : q \in Range(ScoredHeat(e).lanes)
      BY <2>1, <2>4, Zenon
  <2> QED  BY <2>3, <2>4
<1>4. \A p \in ScoredRounds(s) :
         q \in Field(heats[p]) <=> q \in Racers /\ \E i \in DOMAIN heats[p] : q \in Range(heats[p][i].lanes)
    BY <1>1, SeatedFacts
<1> QED  BY <1>2, <1>3, <1>4

\* The same once a step is taken.
LEMMA BoardIsFieldsNext ==
    IInv' => \A s \in Int : \A q :
        (q \in OnLeaderboard(s) <=> \E p \in ScoredRounds(s) : q \in Field(heats[p]))'
<1>1. IInv' => (\A s \in Int : \A q :
        q \in OnLeaderboard(s) <=> \E p \in ScoredRounds(s) : q \in Field(heats[p]))'
    BY BoardIsFields, PTL
<1> QED  BY <1>1

\* Who advances once a step is taken: the first of the leaderboard of then.
LEMMA WinnersAreTopNext ==
    IInv' => \A s \in Int : (Range(Winners(s)) = {x \in Eligible(s) : IsTop(s, x)})'
<1>1. IInv => \A s \in Int : Range(Winners(s)) = {x \in Eligible(s) : IsTop(s, x)}
    BY WinnersAreTop
<1>2. IInv' => (\A s \in Int : Range(Winners(s)) = {x \in Eligible(s) : IsTop(s, x)})'
    BY <1>1, PTL
<1> QED  BY <1>2

\* What the standings read of a round is the same: the heats that were raced, and
\* who is on them of those who are checked in.
Alike(hs, new) ==
    /\ \A i \in DOMAIN hs : IsResult(hs[i].out) => i \in DOMAIN new /\ new[i] = hs[i]
    /\ \A i \in DOMAIN new : IsResult(new[i].out) => i \in DOMAIN hs /\ new[i] = hs[i]
    /\ Field(new) \cap checkedIn = Field(hs) \cap checkedIn

\* Then nobody overtakes anybody.
LEMMA NobodyOvertakes ==
    ASSUME IInv, IInv', NEW s \in Int, runOff' = runOff \/ s # All,
           ScoredRounds(s)' = ScoredRounds(s),
           \A p \in ScoredRounds(s) : Alike(heats[p], heats'[p])
    PROVE  \A x, y \in Racers : Ahead(s, x, y)' <=> Ahead(s, x, y)
<1> DEFINE R == {e \in Scored(s) : IsResult(ScoredHeat(e).out)}
           Rn == {e \in Scored(s)' : IsResult(ScoredHeat(e)'.out)}
<1>1. /\ \A e : e \in Scored(s) <=> \E p \in ScoredRounds(s) : \E i \in DOMAIN heats[p] : e = <<p, i>>
      /\ \A e : e \in Scored(s)' <=> \E p \in ScoredRounds(s) : \E i \in DOMAIN heats'[p] : e = <<p, i>>
      /\ \A p, i : ScoredHeat(<<p, i>>) = heats[p][i] /\ ScoredHeat(<<p, i>>)' = heats'[p][i]
  <2>1. \A e : e \in Scored(s)' <=> \E p \in ScoredRounds(s)' : \E i \in DOMAIN heats'[p] : e = <<p, i>>
      BY DEF Scored
  <2>2. \A p, i : ScoredHeat(<<p, i>>)' = heats'[p][i]
      BY DEF ScoredHeat
  <2> QED  BY <2>1, <2>2, ScoredEntries
<1>4. \A e \in Scored(s) : IsResult(ScoredHeat(e).out) <=> e \in R
    OBVIOUS
<1>5. \A e \in Scored(s)' : IsResult(ScoredHeat(e)'.out) <=> e \in Rn
    OBVIOUS
<1>6. R \subseteq Scored(s) /\ Rn \subseteq Scored(s)'
    OBVIOUS
<1> HIDE DEF R, Rn
<1>2. ASSUME NEW e \in R PROVE e \in Rn /\ ScoredHeat(e)' = ScoredHeat(e)
  <2>1. PICK p \in ScoredRounds(s) : \E i \in DOMAIN heats[p] : e = <<p, i>>
      BY <1>1, <1>6
  <2>0. PICK i \in DOMAIN heats[p] : e = <<p, i>>
      BY <2>1
  <2>2. IsResult(heats[p][i].out)
      BY <2>0, <1>4, <1>5, <1>1
  <2>3. i \in DOMAIN heats'[p] /\ heats'[p][i] = heats[p][i]
      BY <2>2 DEF Alike
  <2> QED  BY <2>0, <2>2, <2>3, <1>1, <1>4, <1>5
<1>3. ASSUME NEW e \in Rn PROVE e \in R
  <2>1. PICK p \in ScoredRounds(s) : \E i \in DOMAIN heats'[p] : e = <<p, i>>
      BY <1>1, <1>6
  <2>0. PICK i \in DOMAIN heats'[p] : e = <<p, i>>
      BY <2>1
  <2>2. IsResult(heats'[p][i].out)
      BY <2>0, <1>4, <1>5, <1>1
  <2>3. i \in DOMAIN heats[p] /\ heats'[p][i] = heats[p][i]
      BY <2>2 DEF Alike
  <2> QED  BY <2>0, <2>2, <2>3, <1>1, <1>4, <1>5
<1>7. ASSUME NEW q \in Racers PROVE HasRaced(s, q)' = HasRaced(s, q)
  <2>1. HasRaced(s, q) <=> \E e \in R : q \in Range(ScoredHeat(e).lanes)
      BY <1>4, <1>6 DEF HasRaced
  <2>2. HasRaced(s, q)' <=> \E e \in Rn : q \in Range(ScoredHeat(e)'.lanes)
      BY <1>5, <1>6 DEF HasRaced, IsResult
  <2>3. HasRaced(s, q)' <=> HasRaced(s, q)
      BY <2>1, <2>2, <1>2, <1>3
  <2> QED  BY <2>3 DEF HasRaced
<1>8. ASSUME NEW q \in Racers PROVE Wins(s, q)' = Wins(s, q)
  <2>1. IsResult(q)
      BY DEF IsResult
  <2>2. \A e \in Scored(s) : ScoredHeat(e).out = q => e \in R
      BY <2>1, <1>4
  <2>3. \A e \in Scored(s)' : ScoredHeat(e)'.out = q => e \in Rn
      BY <2>1, <1>5
  <2>4. {e \in Scored(s) : ScoredHeat(e).out = q} = {e \in Scored(s)' : ScoredHeat(e)'.out = q}
      BY <2>2, <2>3, <1>2, <1>3, <1>6
  <2> QED  BY <2>4 DEF Wins
<1>9. ASSUME NEW x \in Racers, NEW y \in Racers PROVE Ahead(s, x, y)' <=> Ahead(s, x, y)
  <2>1. /\ HasRaced(s, x)' = HasRaced(s, x) /\ HasRaced(s, y)' = HasRaced(s, y)
        /\ Wins(s, x)' = Wins(s, x) /\ Wins(s, y)' = Wins(s, y)
      BY <1>7, <1>8
  <2>2. (runOff /\ s = All)' <=> runOff /\ s = All
      BY DEF IInv, Scalars
  <2> QED  BY <2>1, <2>2 DEF Ahead
<1> QED  BY <1>9

\* And those who advance are the same, unless one of them has left.
LEMMA WinnersStand ==
    ASSUME IInv, IInv', race' = race, NEW s \in Int, runOff' = runOff \/ s # All,
           excluded' = excluded, checkedIn' \subseteq checkedIn,
           ScoredRounds(s)' = ScoredRounds(s),
           \A p \in ScoredRounds(s) : Alike(heats[p], heats'[p]),
           Range(Winners(s)) \subseteq checkedIn'
    PROVE  Range(Winners(s))' = Range(Winners(s))
<1> DEFINE S == Eligible(s)
           T == Eligible(s)'
           Below == [x \in S |-> {y \in S : Ahead(s, y, x)}]
           n == race.size
<1>1. \A x, y \in Racers : Ahead(s, x, y)' <=> Ahead(s, x, y)
    BY NobodyOvertakes
<1>2. ASSUME NEW q \in checkedIn PROVE q \in OnLeaderboard(s)' <=> q \in OnLeaderboard(s)
  <2>1. q \in OnLeaderboard(s)' <=> \E p \in ScoredRounds(s)' : q \in Field(heats'[p])
      BY BoardIsFieldsNext DEF Field, Participants
  <2>2. q \in OnLeaderboard(s) <=> \E p \in ScoredRounds(s) : q \in Field(heats[p])
      BY BoardIsFields
  <2>3. \A p \in ScoredRounds(s) : q \in Field(heats'[p]) <=> q \in Field(heats[p])
      BY DEF Alike
  <2> QED  BY <2>1, <2>2, <2>3
<1>3. S \in SUBSET Racers /\ T = S \cap checkedIn' /\ IsFiniteSet(S)
  <2>1. S \in SUBSET Racers
      BY DEF IInv, Scalars, Eligible
  <2>2. T = (OnLeaderboard(s)' \cap checkedIn') \ excluded
      BY DEF Eligible
  <2>3. T = S \cap checkedIn'
      BY <2>2, <1>2 DEF Eligible
  <2> QED  BY <2>1, <2>3, RacersAssumption, FS_Subset
<1>4. Range(Winners(s)) = {x \in S : IsTop(s, x)}
    BY WinnersAreTop
<1>5. Range(Winners(s))' = {x \in T : IsTop(s, x)'}
    BY WinnersAreTopNext
<1>6. \A x \in S : IsTop(s, x) <=> Cardinality({y \in S : Ahead(s, y, x)}) < n
    BY DEF IsTop
<1>7. \A x \in T : IsTop(s, x)' <=> Cardinality({y \in T : Ahead(s, y, x)'}) < n
    BY DEF IsTop
<1> HIDE DEF S, T
<1>8. \A x \in S : Below[x] = {y \in S : Ahead(s, y, x)}
    OBVIOUS
<1>9. Ranks(S, Below)
    BY <1>3, AheadRanks
<1> HIDE DEF Below
<1>10. \A x \in T : {y \in T : Ahead(s, y, x)'} = Below[x] \cap T
    BY <1>1, <1>3, <1>8
<1>11. \A x \in S : Cardinality(Below[x]) < n => x \in T
  <2> SUFFICES ASSUME NEW x \in S, Cardinality(Below[x]) < n PROVE x \in T
      OBVIOUS
  <2>1. x \in Range(Winners(s))
      BY <1>4, <1>6, <1>8
  <2> QED  BY <2>1, <1>3
<1>12. n \in Nat /\ T \in SUBSET S
    BY <1>3, RaceFacts DEF IInv, Shape
<1> HIDE DEF n
<1>13. \A x \in S : (x \in T /\ Cardinality(Below[x] \cap T) < n) <=> Cardinality(Below[x]) < n
    BY <1>3, <1>9, <1>11, <1>12, FirstStay
<1>14. \A x : x \in {z \in T : IsTop(s, z)'} <=> x \in {z \in S : IsTop(s, z)}
  <2> TAKE x
  <2>1. x \in {z \in T : IsTop(s, z)'} <=> x \in T /\ Cardinality(Below[x] \cap T) < n
      BY <1>7, <1>10
  <2>2. x \in {z \in S : IsTop(s, z)} <=> x \in S /\ Cardinality(Below[x]) < n
      BY <1>6, <1>8
  <2> QED  BY <2>1, <2>2, <1>12, <1>13
<1> QED  BY <1>4, <1>5, <1>14

-----------------------------------------------------------------------------
(* An unraced line-up is that of the standings as they are.                *)

\* The races it is proved for. There are qualifying rounds, and they come before the
\* finals and stay there: the results of one behind a final would be in its standings,
\* and take back nothing. Rounds are not both created and deleted; and lanes fail only
\* in races that no car leaves and where no round is redrawn by hand, or a round that
\* lost a car with its lane would get it back. And finals are fed by qualifying rounds,
\* unless they are only filled from rounds that are done: one that is advanced,
\* skipped or picked early may be drawn on before it is drawn again.
Untaken == Without({"advance", "skip", "pin"})
Layered ==
    /\ \E n \in DOMAIN Plan : Plan[n] = General
    /\ \A p, n \in DOMAIN Plan : Plan[p] = General /\ Plan[n] # General => p < n
    /\ ~({"create", "delete_round"} \subseteq race.uses)
    /\ "create" \in race.uses => General \notin race.offered
    /\ "outage" \in race.uses =>
          Without({"withdraw", "regenerate"}) /\ Cardinality(race.present) >= 2
    /\ \/ Untaken
       \/ /\ \A n \in DOMAIN Plan : Plan[n] > 0 => Plan[Plan[n]] = General
          /\ "create" \in race.uses =>
                \A s \in race.offered : s > 0 => s \in DOMAIN Plan /\ Plan[s] = General
Claimed == Layered /\ Without({"check_back_in", "exclude", "delete_heat", "clear_final", "crash"})

\* A source that no redraw of a final changes.
Preliminary(s) == s = All \/ (s \in Rounds /\ ~IsFed(s))

Layers ==
    /\ \A p, r \in Rounds : ~IsFed(p) /\ IsFed(r) => p < r
    /\ \A r \in Rounds : source[r] > 0 => source[r] < r
    /\ (\E r \in Rounds : IsFed(r)) => \E p \in Rounds : ~IsFed(p)
    /\ "create" \in race.uses => \A n \in DOMAIN Plan : n \in Rounds /\ source[n] = Plan[n]
    /\ Untaken \/ \A r \in Rounds : IsFed(r) => Preliminary(source[r])

\* Whoever is checked in is in every qualifying round.
Crewed == "outage" \notin race.uses =>
             \A p \in Rounds : ~IsFed(p) => checkedIn \subseteq Field(heats[p])

\* A round has every slot or none.
AllSlots == {-k : k \in 1..race.size}
Slotted == \A r \in Rounds : OpenSlots(heats[r]) \in {{}, AllSlots}

Pending(do, r) == \E i \in DOMAIN todo : todo[i] = Step(do, r)
Awaiting(r) == AwaitsStandings(r) /\ Field(heats[r]) # {}

\* Where nobody advances early, what a final that holds racers draws on is raced.
Unrun(hs) == Manned(hs) /\ \A i \in DOMAIN hs : hs[i].out = NotRun
Opened(r) == Preliminary(source[r]) \/ (source[r] \in Rounds /\ ~Unraced(source[r]))
Taken == Untaken =>
    /\ pinned = {}
    /\ \A r \in Rounds : IsFed(r) /\ Unraced(r) =>
          /\ Unrun(heats[r])
          /\ Field(heats[r]) # {} \/ Pending("advance", r) => Opened(r)

\* The sweep of an outage comes to the rounds in order.
Swept ==
    /\ (\E i \in DOMAIN todo : todo[i].do = "outage") => \A i \in DOMAIN todo : todo[i].do = "outage"
    /\ \A i \in DOMAIN todo : todo[i].do = "outage" =>
          \A r \in Rounds : Awaiting(r) /\ r > todo[i].round =>
             \E j \in DOMAIN todo : j > i /\ todo[j] = Step("outage", r)
    /\ \A i \in DOMAIN todo : todo[i].do \in {"withdraw", "admit", "advance"} => "withdraw" \in race.uses

\* Every unraced line-up is that of the standings, or will be drawn again.
Current(r) == Field(heats[r]) = {} \/ Field(heats[r]) = Range(Winners(source[r]))
CoveredAt(r) ==
    AwaitsStandings(r) =>
        \/ Current(r) \/ Pending("reset", r) \/ Pending("outage", r)
        \/ Pending("withdraw", r) /\ ~(Field(heats[r]) \subseteq checkedIn)
Covered == \A r \in Rounds : CoveredAt(r)
Enough == "outage" \in race.uses => Cardinality(checkedIn) >= 2

Settling == Layers /\ Crewed /\ Slotted /\ Taken /\ Swept /\ Enough
UpToDate == Claimed => Settling /\ Covered

\* The rounds that count for a final come before it.
LEMMA ScoredAreBefore ==
    ASSUME IInv, Layers, NEW r \in Rounds, IsFed(r), NEW p \in ScoredRounds(source[r])
    PROVE  /\ p \in Rounds /\ p < r
           /\ source[r] = All => ~IsFed(p)
           /\ source[r] # All => p = source[r]
<1>1. source[r] \in Int /\ source[r] >= General /\ source[r] # General
    BY DEF IInv, Shape, Scalars, IsFed
<1>2. CASE source[r] = All
  <2>1. {q \in Rounds : ~IsFed(q)} # {}
      BY DEF Layers
  <2>2. p \in Rounds /\ ~IsFed(p)
      BY <1>2, <2>1 DEF ScoredRounds
  <2> QED  BY <1>2, <2>2 DEF Layers
<1>3. CASE source[r] # All
  <2>1. source[r] > 0
      BY <1>1, <1>3 DEF All, General
  <2>2. p \in Rounds /\ p = source[r]
      BY <1>3 DEF ScoredRounds
  <2> QED  BY <1>3, <2>1, <2>2 DEF Layers
<1> QED  BY <1>2, <1>3

\* A final that may still be drawn again counts for nobody who holds racers.
LEMMA OpenFeedsNobody ==
    ASSUME IInv, Layers, Taken, NEW p \in Rounds, IsFed(p), Unraced(p),
           NEW r \in Rounds, Awaiting(r)
    PROVE  p \notin ScoredRounds(source[r])
<1> SUFFICES ASSUME p \in ScoredRounds(source[r]) PROVE FALSE
    OBVIOUS
<1>1. IsFed(r) /\ Unraced(r) /\ Field(heats[r]) # {}
    BY DEF Awaiting, AwaitsStandings
<1>2. source[r] # All /\ p = source[r]
    BY <1>1, ScoredAreBefore
<1>3. CASE Untaken
    BY <1>1, <1>2, <1>3 DEF Taken, Opened, Preliminary
<1>4. CASE ~Untaken
    BY <1>1, <1>2, <1>4 DEF Layers, Preliminary
<1> QED  BY <1>3, <1>4

\* Those who advance from the same rounds, when one round changes that is not
\* among them, or as the standings do not see.
LEMMA FeedersStand ==
    ASSUME IInv, IInv', UNCHANGED <<source, checkedIn, excluded, race>>,
           NEW p \in Rounds, \A q \in Rounds \ {p} : heats'[q] = heats[q],
           NEW r \in Rounds, runOff' = runOff \/ source[r] # All,
           Alike(heats[p], heats'[p]) \/ p \notin ScoredRounds(source[r])
    PROVE  Range(Winners(source[r]))' = Range(Winners(source[r]))
<1> DEFINE s == source[r]
<1>1. s \in Int /\ s' = s
    BY DEF IInv, Shape
<1>2. ScoredRounds(s)' = ScoredRounds(s)
    BY DEF ScoredRounds, Rounds, IsFed
<1>3. ASSUME NEW q \in ScoredRounds(s) PROVE Alike(heats[q], heats'[q])
  <2>1. q \in Rounds
      BY DEF ScoredRounds
  <2>2. q # p => Alike(heats[q], heats'[q])
      BY <2>1 DEF Alike
  <2> QED  BY <2>2
<1>4. Range(Winners(s)) \subseteq checkedIn'
  <2>1. Winners(s) \in Seq(checkedIn)
      BY <1>1, WinnersAdvanceOnce
  <2> QED  BY <2>1 DEF Range
<1> HIDE DEF s
<1>6. \A t : t = s => (runOff' = runOff \/ t # All)
    BY DEF s
<1>7. Range(Winners(s))' = Range(Winners(s))
    BY <1>1, <1>2, <1>3, <1>4, <1>6, WinnersStand
<1> QED  BY <1>7 DEF s

-----------------------------------------------------------------------------
(* What a draw and a filling leave in a final.                             *)

\* A round that is drawn for slots has all of them and nobody, and is to be run.
LEMMA SlotsAreAll ==
    ASSUME World, NEW hs \in Seq(Heat),
           NEW new, new = ResetToSlots(hs, race.size) \/ new = SlotsRebuilt(hs)
    PROVE  OpenSlots(new) = AllSlots /\ Field(new) = {} /\ Unrun(new)
<1>1. race \in Races /\ race.size \in Nat \ {0} /\ race.runs \in Nat \ {0}
      /\ race.size \in 1..race.size + Cardinality(Racers)
    BY RaceFacts, SeatFacts DEF World
<1>2. Slots(race.size) \in Seq(Seats) /\ Len(Slots(race.size)) = race.size
    BY <1>1, SlotsAreSeats
<1>3. Apart(Slots(race.size)) /\ Range(Slots(race.size)) = AllSlots
  <2>1. DOMAIN Slots(race.size) = 1..race.size /\ \A k \in 1..race.size : Slots(race.size)[k] = -k
      BY DEF Slots
  <2>2. \A j, k \in 1..race.size : -j = -k => j = k
      BY <1>1
  <2> QED  BY <2>1, <2>2, <1>2 DEF Apart, Range, AllSlots
<1>4. \E count \in Nat : count >= race.size /\ new = Draw(count, Slots(race.size))
  <2>1. \E count \in Nat : count >= race.size /\ SlotsRebuilt(hs) = Draw(count, Slots(race.size))
      BY <1>1, <1>2, RebuiltIsDraw DEF SlotsRebuilt
  <2>2. \E count \in Nat : count >= race.size /\ ResetToSlots(hs, race.size) = Draw(count, Slots(race.size))
      BY <1>1, ResetIsDraw
  <2> QED  BY <2>1, <2>2
<1>5. PICK count \in Nat : count >= race.size /\ new = Draw(count, Slots(race.size))
    BY <1>4
<1>6. Participants(new) = AllSlots /\ new \in Seq(Heat) /\ \A i \in 1..Len(new) : new[i].out = NotRun
    BY <1>2, <1>3, <1>5, DrawSeatsAll, DrawIsFresh DEF Fresh
<1>7. \A x \in AllSlots : x < 0 /\ x \notin Racers
  <2>1. \A k \in 1..race.size : -k < 0 /\ -k \notin Nat
      BY <1>1
  <2> QED  BY <2>1, RacersAssumption DEF AllSlots
<1>8. Manned(new)
    BY <1>1, SlotsAreManned
<1> QED  BY <1>6, <1>7, <1>8 DEF OpenSlots, Field, Unrun

\* One that is drawn for the roster has everybody, and is to be run.
LEMMA RosterIsAll ==
    ASSUME World, NEW hs \in Seq(Heat)
    PROVE  Field(RosterRebuilt(hs)) = checkedIn /\ Fresh(RosterRebuilt(hs))
<1>1. race \in Races /\ checkedIn \in SUBSET Racers /\ 1 \in Nat \ {0}
    BY DEF World
<1>2. Roster \in Seq(Seats) /\ Apart(Roster)
    BY <1>1, AscendingRacers, AscendingIsApart DEF Roster
<1>3. Range(Roster) = checkedIn
  <2>3. IsFiniteSet(Racers) /\ Racers \in SUBSET Int
      BY RacersAssumption
  <2>1. IsFiniteSet(checkedIn) /\ checkedIn \in SUBSET Int
      BY <1>1, <2>3, FS_Subset
  <2>2. Lists(Roster, checkedIn)
      BY <2>1, AscendingOrder DEF Roster
  <2> QED  BY <2>2 DEF Lists, Range
<1>4. PICK count \in Nat : count >= Len(Roster) /\ RosterRebuilt(hs) = Draw(count, Roster)
    BY <1>1, <1>2, RebuiltIsDraw DEF RosterRebuilt
<1>5. Participants(RosterRebuilt(hs)) = checkedIn
    BY <1>2, <1>3, <1>4, DrawSeatsAll
<1>6. Fresh(RosterRebuilt(hs))
    BY <1>2, <1>4, DrawIsFresh
<1> QED  BY <1>1, <1>5, <1>6 DEF Field

\* A round that waits, filled, holds those it was filled with.
LEMMA ResolvedFields ==
    ASSUME race \in Races, NEW hs \in Seq(Heat), Settled(hs), Waiting(hs), OpenSlots(hs) = AllSlots,
           NEW field \in Seq(Racers), Len(field) <= race.size
    PROVE  Field(Resolved(hs, field)) = Range(field)
<1> DEFINE new == Resolved(hs, field)
           n == Len(field)
<1>1. DOMAIN new = DOMAIN hs /\ \A i \in DOMAIN hs : new[i].lanes = Filled(hs[i].lanes, field)
    BY ResolvedFacts
<1>2. n \in Nat /\ race.size \in Nat /\ DOMAIN field = 1..n
    BY RaceFacts
<1>3. new \in Seq(Heat)
    BY ResolvedSucceeds DEF Succeeds
<1> HIDE DEF new
<1>4. ASSUME NEW q \in Range(field) PROVE q \in Field(new)
  <2>1. PICK k \in 1..n : q = field[k]
      BY <1>2 DEF Range
  <2>2. -k \in OpenSlots(hs) /\ -k < 0 /\ -(-k) = k
      BY <1>2 DEF AllSlots
  <2>3. PICK i \in DOMAIN hs : -k \in Range(hs[i].lanes)
      BY <2>2, SeatedFacts
  <2>4. PICK l \in DOMAIN hs[i].lanes : hs[i].lanes[l] = -k
      BY <2>3 DEF Range
  <2>5. hs[i] \in Heat
      OBVIOUS
  <2>6. DOMAIN new[i].lanes = DOMAIN hs[i].lanes /\ new[i].lanes[l] = field[k]
    <3>1. hs[i].lanes[l] < 0 /\ -hs[i].lanes[l] = k /\ k <= n
        BY <2>2, <2>4, <1>2
    <3> QED  BY <3>1, <2>5, <1>1, FilledFacts
  <2>7. q \in Range(new[i].lanes) /\ q \in Racers
      BY <2>1, <2>6 DEF Range
  <2> QED  BY <2>7, <1>1, <1>3, SeatedFacts
<1>5. ASSUME NEW q \in Field(new) PROVE q \in Range(field)
  <2>1. PICK i \in DOMAIN hs : q \in Range(new[i].lanes) /\ q \in Racers
      BY <1>1, <1>3, SeatedFacts
  <2>2. hs[i] \in Heat
      OBVIOUS
  <2>3. PICK l \in DOMAIN hs[i].lanes : q = Filled(hs[i].lanes, field)[l]
      BY <2>1, <2>2, <1>1, FilledFacts DEF Range
  <2>4. hs[i].lanes[l] \in Range(hs[i].lanes) /\ hs[i].lanes[l] \notin Racers
      BY DEF Range, Waiting
  <2>5. -hs[i].lanes[l] \in 1..n /\ q = field[-hs[i].lanes[l]]
      BY <2>1, <2>2, <2>3, <2>4, FilledFacts
  <2> QED  BY <2>5, <1>2 DEF Range
<1> QED  BY <1>4, <1>5 DEF new

\* A final that is filled holds the field it is filled with, and no slot; or it stands.
LEMMA PopulatedFields ==
    ASSUME World, NEW hs \in Seq(Heat), Settled(hs), Sound(hs), Numbered(hs),
           OpenSlots(hs) \in {{}, AllSlots}, NEW field \in Seq(Racers), Apart(field),
           Len(field) <= race.size
    PROVE  \/ Populated(hs, field) = hs
           \/ Field(Populated(hs, field)) = Range(field) /\ OpenSlots(Populated(hs, field)) = {}
<1>1. race \in Races /\ race.runs \in Nat \ {0} /\ race.size \in Nat \ {0} /\ Len(field) \in Nat
      /\ field \in Seq(Seats) /\ Racers \in SUBSET Racers
  <2>1. Racers \subseteq Seats
      BY SeatFacts DEF World
  <2> QED  BY <2>1, RaceFacts DEF World
<1>2. CASE field = <<>> \/ Fielded(hs)
    BY <1>1, <1>2, PopulatedPlaces DEF Populated
<1>3. CASE field # <<>> /\ ~Fielded(hs)
  <2>1. Waiting(hs) /\ MayRebuild(hs)
      BY <1>1, <1>3, WaitingFacts DEF Sound
  <2>2. Fielded(Populated(hs, field)) /\ Populated(hs, field) \in Seq(Heat)
      BY <1>1, <1>3, PopulatedIsSound, PopulatedSucceeds DEF Succeeds
  <2>3. OpenSlots(Populated(hs, field)) = {}
      BY <2>2, <1>1, FieldedFacts
  <2>4. CASE Len(field) < Cardinality(OpenSlots(hs))
    <3>1. Populated(hs, field) = Rebuilt(hs, race.runs, field)
        BY <2>1, <2>4, <1>3 DEF Populated
    <3>2. PICK count \in Nat : count >= Len(field) /\ Rebuilt(hs, race.runs, field) = Draw(count, field)
        BY <1>1, RebuiltIsDraw
    <3>3. Participants(Populated(hs, field)) = Range(field)
        BY <3>1, <3>2, <1>1, DrawSeatsAll
    <3>4. Range(field) \subseteq Racers
        BY DEF Range
    <3> QED  BY <3>3, <3>4, <2>3 DEF Field
  <2>5. CASE ~(Len(field) < Cardinality(OpenSlots(hs)))
    <3>1. Populated(hs, field) = Resolved(hs, field)
        BY <2>5, <1>3 DEF Populated
    <3>2. OpenSlots(hs) = AllSlots
      <4> SUFFICES ASSUME OpenSlots(hs) = {} PROVE FALSE
          OBVIOUS
      <4>1. PICK i \in DOMAIN hs : HasSlot(hs[i])
          BY <2>1, <1>3 DEF Fielded
      <4>2. PICK x \in Range(hs[i].lanes) : x < 0
          BY <4>1, <1>1, SeatedFacts
      <4> QED  BY <4>2, <1>1, SeatedFacts
    <3> QED  BY <3>1, <3>2, <2>1, <2>3, <1>1, ResolvedFields
  <2> QED  BY <2>4, <2>5
<1> QED  BY <1>2, <1>3

-----------------------------------------------------------------------------
(* What no step disturbs, where rounds are layered.                        *)

\* Where no heat is deleted, every round is one that can be filled.
LEMMA ClaimedIsApt ==
    ASSUME IInv, Apt, Claimed
    PROVE  /\ ~DeletedThenFilled /\ GoodRounds /\ Ready
           /\ \A r \in Rounds : Sound(heats[r]) /\ Numbered(heats[r])
<1>1. "delete_heat" \notin race.uses
    BY DEF Claimed, Layered, Without
<1>2. ~DeletedThenFilled
    BY <1>1 DEF DeletedThenFilled
<1> QED  BY <1>1, <1>2 DEF Apt, GoodRounds, Good

\* What no step does to such a race.
LEMMA FrameStands ==
    ASSUME IInv, Claimed, [Next]_vars
    PROVE  /\ excluded' = excluded /\ checkedIn' \subseteq checkedIn
           /\ "outage" \in race.uses => checkedIn' = checkedIn
           /\ \/ source' = source
              \/ \E s \in race.offered : CreateRound(s) /\ s # General
              \/ \E p \in Rounds : DeleteRound(p)
<1> DEFINE Stands == excluded' = excluded /\ checkedIn' = checkedIn
           Source == \/ source' = source
                     \/ \E s \in race.offered : CreateRound(s) /\ s # General
                     \/ \E p \in Rounds : DeleteRound(p)
           Goal == /\ excluded' = excluded /\ checkedIn' \subseteq checkedIn
                   /\ "outage" \in race.uses => checkedIn' = checkedIn
                   /\ Source
<1>1. Stands /\ Source => Goal
    OBVIOUS
<1>2. source' = source => Source
    OBVIOUS
<1>3. Settle => Stands /\ source' = source
    BY DEF Settle, Reset, Trigger, Fill, Advance, Withdraw, Admit, Outage, Redraw, Fails, Proceed
<1>4. Crash => Stands /\ source' = source
    BY DEF Crash
<1>5. ASSUME NEW r \in Rounds, RoundRequest(r) PROVE Stands /\ Source
  <2>1. DeleteRound(r) => Stands /\ Source
      BY DEF DeleteRound
  <2>2. CASE ~DeleteRound(r)
    <3>1. Stands /\ source' = source
        BY <1>5, <2>2 DEF RoundRequest, RecordHeatResult, DeleteHeat, RegenerateRound,
                          PinRoundField, UnpinRoundField, AdvanceRound
    <3> QED  BY <3>1
  <2> QED  BY <2>1, <2>2
<1>6. ASSUME NEW q \in race.movers, CheckIn(q) \/ SetExcluded(q) PROVE Goal
  <2>1. CheckIn(q) /\ q \in checkedIn /\ "withdraw" \in race.uses
      BY <1>6 DEF CheckIn, SetExcluded, Claimed, Without
  <2>2. "outage" \notin race.uses
      BY <2>1 DEF Claimed, Layered, Without
  <2> QED  BY <2>1, <2>2 DEF CheckIn
<1>7. ASSUME NEW s \in race.offered, CreateRound(s) PROVE Stands /\ Source
  <2>1. s # General
      BY <1>7 DEF CreateRound, Claimed, Layered
  <2> QED  BY <1>7, <2>1 DEF CreateRound
<1>8. RecordRunOff => Stands /\ source' = source
    BY DEF RecordRunOff
<1>9. ASSUME NEW lanes, SetLaneOutages(lanes) PROVE Stands /\ source' = source
    BY <1>9 DEF SetLaneOutages
<1>10. UNCHANGED vars => Stands /\ source' = source
    BY DEF vars
<1> HIDE DEF Goal, Stands, Source
<1>11. Goal
    BY <1>1, <1>2, <1>3, <1>4, <1>5, <1>6, <1>7, <1>8, <1>9, <1>10 DEF Next
<1> QED  BY <1>11 DEF Goal, Source

\* Where lanes leave no car does.
LEMMA EnoughKept == ASSUME IInv, Claimed, Enough, [Next]_vars, race' = race PROVE Enough'
BY FrameStands DEF Enough

\* What is left of the rounds when one is added or deleted.
LEMMA CreatedRound ==
    ASSUME IInv, NEW s \in race.offered, CreateRound(s), s # General
    PROVE  /\ \E n : /\ n \notin Rounds /\ \A p \in Rounds : p < n
                     /\ Rounds' = Rounds \cup {n} /\ source'[n] = s
                     /\ \A p \in Rounds : source'[p] = source[p] /\ heats'[p] = heats[p]
                     /\ heats'[n] = SlotsRebuilt(<<>>)
                     /\ todo' = <<Step("fill", n)>>
           /\ "create" \in race.uses /\ (s > 0 => s \in Rounds) /\ Idle
           /\ UNCHANGED <<pinned, checkedIn, excluded, runOff, usable, race>>
<1> DEFINE n == NextNumber
<1>1. n \notin Rounds /\ \A p \in Rounds : p < n
    BY NextNumberIsNew, NextNumberIsLast
<1> HIDE DEF n
<1>2. /\ source' = [r \in Rounds \cup {n} |-> IF r = n THEN s ELSE source[r]]
      /\ heats' = [r \in Rounds \cup {n} |->
                    IF r # n THEN heats[r]
                    ELSE IF s = General THEN RosterRebuilt(<<>>) ELSE SlotsRebuilt(<<>>)]
      /\ todo' = AskToFill(s, n)
      /\ "create" \in race.uses /\ (s > 0 => s \in Rounds) /\ Idle
      /\ UNCHANGED <<pinned, checkedIn, excluded, runOff, usable, race>>
    BY DEF CreateRound, n
<1>3. Rounds' = Rounds \cup {n} /\ source'[n] = s /\ heats'[n] = SlotsRebuilt(<<>>)
    BY <1>2 DEF Rounds
<1>4. todo' = <<Step("fill", n)>>
    BY <1>2 DEF AskToFill
<1>5. \A p \in Rounds : source'[p] = source[p] /\ heats'[p] = heats[p]
    BY <1>1, <1>2
<1> QED  BY <1>1, <1>2, <1>3, <1>4, <1>5

\* A round that is deleted was not raced; a qualifying one goes only where no final is.
LEMMA DeletedRound ==
    ASSUME IInv, NEW p \in Rounds, DeleteRound(p)
    PROVE  /\ Rounds' = Rounds \ {p}
           /\ \A r \in Rounds' : source'[r] = source[r] /\ heats'[r] = heats[r]
           /\ Unraced(p) /\ (~IsFed(p) => \A r \in Rounds : ~IsFed(r))
           /\ "delete_round" \in race.uses /\ Idle /\ todo' = <<>>
           /\ pinned' = pinned \ {p}
           /\ UNCHANGED <<checkedIn, excluded, runOff, usable, race>>
<1>1. /\ source' = [r \in Rounds \ {p} |-> source[r]]
      /\ heats' = [r \in Rounds \ {p} |-> heats[r]]
    BY DEF DeleteRound, Restrict
<1>2. DOMAIN heats = Rounds
    BY DEF IInv, Shape
<1>3. Rounds' = Rounds \ {p}
    BY <1>1 DEF Rounds
<1>4. todo' = <<>>
    BY DEF DeleteRound, Idle
<1> QED  BY <1>1, <1>2, <1>3, <1>4 DEF DeleteRound, Unraced

\* Qualifying rounds stay before the finals.
LEMMA LayersKept == ASSUME IInv, Claimed, Layers, [Next]_vars, race' = race PROVE Layers'
<1>1. CASE source' = source
  <2>1. Rounds' = Rounds /\ \A r : IsFed(r)' = IsFed(r) /\ Preliminary(source[r])' = Preliminary(source[r])
      BY <1>1 DEF Rounds, IsFed, Preliminary
  <2>2. Untaken' = Untaken
      BY DEF Untaken, Without
  <2> QED  BY <1>1, <2>1, <2>2 DEF Layers
<1>2. ASSUME NEW s \in race.offered, CreateRound(s), s # General PROVE Layers'
  <2>0. PICK n : /\ n \notin Rounds /\ \A p \in Rounds : p < n
                 /\ Rounds' = Rounds \cup {n} /\ source'[n] = s
                 /\ \A p \in Rounds : source'[p] = source[p]
      BY <1>2, CreatedRound
  <2>1. /\ n \notin Rounds /\ \A p \in Rounds : p < n
        /\ Rounds' = Rounds \cup {n} /\ source'[n] = s
        /\ \A p \in Rounds : source'[p] = source[p]
        /\ "create" \in race.uses /\ (s > 0 => s \in Rounds)
      BY <2>0, <1>2, CreatedRound
  <2>2. IsFed(n)' /\ \A p \in Rounds : IsFed(p)' = IsFed(p)
      BY <2>1, <1>2 DEF IsFed
  <2>3. \A p \in DOMAIN Plan : p \in Rounds /\ source[p] = Plan[p]
      BY <2>1 DEF Layers
  <2>4. \A p, r \in Rounds' : ~IsFed(p)' /\ IsFed(r)' => p < r
      BY <2>1, <2>2 DEF Layers
  <2>5. \A r \in Rounds' : source'[r] > 0 => source'[r] < r
      BY <2>1 DEF Layers
  <2>6. \E p \in Rounds' : ~IsFed(p)'
    <3>1. PICK p \in DOMAIN Plan : Plan[p] = General
        BY DEF Claimed, Layered
    <3>2. p \in Rounds /\ ~IsFed(p)
        BY <3>1, <2>3 DEF IsFed
    <3> QED  BY <3>2, <2>1, <2>2
  <2>7. \A p \in DOMAIN Plan : p \in Rounds' /\ source'[p] = Plan[p]
      BY <2>1, <2>3
  <2>8. ASSUME ~Untaken, NEW r \in Rounds', IsFed(r)' PROVE Preliminary(source[r])'
    <3>1. CASE r = n
      <4>1. s > 0 => s \in DOMAIN Plan /\ Plan[s] = General
          BY <2>8, <2>1, <1>2 DEF Claimed, Layered
      <4>2. s > 0 => s \in Rounds /\ ~IsFed(s)
          BY <4>1, <2>3 DEF IsFed
      <4>3. s \in Int /\ s >= General
          BY RaceFacts DEF IInv, Shape
      <4>4. s = All \/ s > 0
          BY <4>3, <1>2 DEF All, General
      <4>5. s > 0 => s \in Rounds' /\ ~IsFed(s)'
          BY <4>2, <2>1, <2>2
      <4>6. source'[r] = s
          BY <3>1, <2>1
      <4> QED  BY <4>4, <4>5, <4>6 DEF Preliminary, IsFed
    <3>2. CASE r \in Rounds
      <4>1. Preliminary(source[r]) /\ source'[r] = source[r]
          BY <3>2, <2>1, <2>2, <2>8 DEF Layers
      <4> QED  BY <4>1, <2>1, <2>2 DEF Preliminary, IsFed
    <3> QED  BY <3>1, <3>2, <2>1
  <2>9. Untaken' = Untaken
      BY DEF Untaken, Without
  <2> QED  BY <2>4, <2>5, <2>6, <2>7, <2>8, <2>9 DEF Layers
<1>3. ASSUME NEW p \in Rounds, DeleteRound(p) PROVE Layers'
  <2>1. /\ Rounds' = Rounds \ {p}
        /\ \A r \in Rounds' : source'[r] = source[r]
        /\ ~IsFed(p) => \A r \in Rounds : ~IsFed(r)
        /\ "delete_round" \in race.uses
      BY <1>3, DeletedRound
  <2>2. "create" \notin race.uses
      BY <2>1 DEF Claimed, Layered
  <2>3. \A r \in Rounds' : IsFed(r)' = IsFed(r)
      BY <2>1 DEF IsFed
  <2>4. (\E r \in Rounds' : IsFed(r)') => \E q \in Rounds' : ~IsFed(q)'
      BY <2>1, <2>3 DEF Layers
  <2>5. ASSUME NEW r \in Rounds', IsFed(r)', ~Untaken PROVE Preliminary(source[r])'
    <3>1. Preliminary(source[r]) /\ IsFed(p)
        BY <2>1, <2>3, <2>5 DEF Layers
    <3> QED  BY <3>1, <2>1, <2>3, <2>5 DEF Preliminary, IsFed
  <2>6. Untaken' = Untaken
      BY DEF Untaken, Without
  <2>7. /\ \A q, r \in Rounds' : ~IsFed(q)' /\ IsFed(r)' => q < r
        /\ \A r \in Rounds' : source'[r] > 0 => source'[r] < r
      BY <2>1, <2>3 DEF Layers
  <2> QED  BY <2>2, <2>4, <2>5, <2>6, <2>7 DEF Layers
<1> QED  BY <1>1, <1>2, <1>3, FrameStands

\* Every draw of a qualifying round seats whoever is checked in.
LEMMA CrewedKept ==
    ASSUME IInv, Fitting, Apt, Claimed, Crewed, [Next]_vars
    PROVE  Crewed'
<1>1. IInv' /\ Forms /\ race' = race /\ race \in Races
    BY StepsKeep, StepsForm DEF Forms, IInv, Shape
<1> SUFFICES ASSUME "outage" \notin race.uses, NEW p \in Rounds', source'[p] = General
             PROVE  checkedIn' \subseteq Field(heats'[p])
    BY <1>1 DEF Crewed, IsFed, Field, Participants
<1>2. checkedIn' \subseteq checkedIn
    BY FrameStands
<1>3. ASSUME p \notin Rounds PROVE FALSE
  <2>1. source' # source
      BY <1>3 DEF Rounds
  <2>2. ASSUME NEW s \in race.offered, CreateRound(s), s # General PROVE FALSE
    <3>1. PICK n : Rounds' = Rounds \cup {n} /\ source'[n] = s
        BY <2>2, CreatedRound
    <3> QED  BY <3>1, <2>2, <1>3
  <2>3. ASSUME NEW q \in Rounds, DeleteRound(q) PROVE FALSE
      BY <2>3, <1>3, DeletedRound
  <2> QED  BY <2>1, <2>2, <2>3, FrameStands
<1>4. p \in Rounds /\ ~IsFed(p) /\ Rewritten(p) /\ checkedIn \subseteq Field(heats[p])
  <2>1. p \in Rounds
      BY <1>3
  <2>2. source'[p] = source[p] /\ Rewritten(p)
      BY <2>1, <1>1 DEF Forms
  <2> QED  BY <2>1, <2>2 DEF Crewed, IsFed
<1>5. World /\ heats[p] \in Seq(Heat)
    BY <1>4, InvariantIsWorld DEF IInv, Shape
<1>6. DrawnForRoster(p) => checkedIn \subseteq Field(heats'[p])
    BY <1>5, RosterIsAll DEF DrawnForRoster
<1>7. ThinnedOut(p) => checkedIn \subseteq Field(heats'[p])
    BY <1>4 DEF ThinnedOut, Without
<1>8. ~LateAdded(p) /\ ~HeatGone(p) /\ ~DrawnForSlots(p) /\ ~FilledAgain(p) /\ ~PickedByHand(p)
    BY <1>4 DEF LateAdded, HeatGone, DrawnForSlots, FilledAgain, PickedByHand, PinRoundField,
                Claimed, Layered, Without
<1>9. checkedIn \subseteq Field(heats'[p])
    BY <1>4, <1>6, <1>7, <1>8 DEF Rewritten
<1> QED  BY <1>2, <1>9

\* Those who advance can fill a final.
LEMMA FillingFields ==
    ASSUME IInv, Apt, Claimed, Slotted, NEW r \in Rounds
    PROVE  LET new == Populated(heats[r], Winners(source[r]))
           IN  \/ new = heats[r]
               \/ Field(new) = Range(Winners(source[r])) /\ OpenSlots(new) = {}
<1> DEFINE field == Winners(source[r])
           hs == heats[r]
           new == Populated(hs, field)
<1>1. World /\ hs \in Seq(Heat) /\ Settled(hs) /\ source[r] \in Int
    BY InvariantIsWorld DEF IInv, Shape
<1>2. Sound(hs) /\ Numbered(hs)
    BY ClaimedIsApt
<1>3. OpenSlots(hs) \in {{}, AllSlots}
    BY DEF Slotted
<1>4. field \in Seq(Racers) /\ Apart(field) /\ Len(field) <= race.size
    BY <1>1, WinnersAdvanceOnce, WinnersAreApart, WinnersAreFew
<1> HIDE DEF field, hs, new
<1>5. \/ Populated(hs, field) = hs
      \/ Field(Populated(hs, field)) = Range(field) /\ OpenSlots(Populated(hs, field)) = {}
    BY <1>1, <1>2, <1>3, <1>4, PopulatedFields
<1> QED  BY <1>5 DEF field, hs, new

\* A final is filled at one go.
LEMMA SlottedKept ==
    ASSUME IInv, Fitting, Apt, Claimed, Slotted, [Next]_vars
    PROVE  Slotted'
<1>1. IInv' /\ Forms /\ race' = race /\ race \in Races
    BY StepsKeep, StepsForm DEF Forms, IInv, Shape
<1> SUFFICES ASSUME NEW r \in Rounds' PROVE OpenSlots(heats'[r]) \in {{}, AllSlots}
    BY <1>1 DEF Slotted, AllSlots, OpenSlots, Participants
<1>2. World /\ <<>> \in Seq(Heat) /\ heats'[r] \in Seq(Heat) /\ GoodRounds
    BY <1>1, InvariantIsWorld, NewHeats, ClaimedIsApt
<1>3. Fielded(heats'[r]) => OpenSlots(heats'[r]) = {}
    BY <1>1, <1>2, FieldedFacts
<1>4. CASE r \notin Rounds
  <2>1. Started(r)
      BY <1>1, <1>4 DEF Forms
  <2>2. heats'[r] = RosterRebuilt(<<>>) \/ heats'[r] = SlotsRebuilt(<<>>)
      BY <2>1 DEF Started
  <2>3. Fielded(RosterRebuilt(<<>>)) /\ OpenSlots(SlotsRebuilt(<<>>)) = AllSlots
      BY <1>2, RosterIsWhole, SlotsAreAll
  <2> QED  BY <2>2, <2>3, <1>3
<1>5. CASE r \in Rounds
  <2>1. /\ Rewritten(r) /\ OpenSlots(heats[r]) \in {{}, AllSlots} /\ heats[r] \in Seq(Heat)
        /\ Sound(heats[r]) /\ (Fielded(heats[r]) \/ IsFed(r))
      BY <1>1, <1>2, <1>5 DEF Forms, Slotted, IInv, Shape, GoodRounds, Good
  <2>2. DrawnForSlots(r) => OpenSlots(heats'[r]) = AllSlots
      BY <2>1, <1>2, SlotsAreAll DEF DrawnForSlots
  <2>3. DrawnForRoster(r) => Fielded(heats'[r])
      BY <2>1, <1>2, RosterIsWhole DEF DrawnForRoster
  <2>4. FilledAgain(r) => OpenSlots(heats'[r]) \in {{}, AllSlots}
      BY <2>1, <1>5, FillingFields DEF FilledAgain
  <2>5. ThinnedOut(r) => Fielded(heats'[r])
    <3>1. ThinnedOut(r) => Fielded(heats[r]) /\ Thins(heats'[r], heats[r])
        BY <2>1 DEF ThinnedOut, Sound
    <3> QED  BY <3>1, <2>1, <1>1, <1>2, ThinnedFacts
  <2>6. LateAdded(r) => Fielded(heats'[r])
    <3>1. LateAdded(r) => Fielded(heats[r])
        BY <2>1 DEF LateAdded
    <3>2. \A i \in DOMAIN heats[r] : Distinct(heats[r][i])
        BY <2>1 DEF Sound
    <3> QED  BY <3>1, <3>2, <2>1, <1>2, LateIsWhole DEF LateAdded
  <2>7. ~HeatGone(r)
      BY DEF HeatGone, Claimed, Layered, Without
  <2>8. PickedByHand(r) => Fielded(heats'[r])
      BY <1>5, PickFacts
  <2> QED  BY <2>1, <2>2, <2>3, <2>4, <2>5, <2>6, <2>7, <2>8, <1>3 DEF Rewritten
<1> QED  BY <1>4, <1>5

-----------------------------------------------------------------------------
(* What a step that is left to take does to the standings.                 *)

\* A heat that is to come may lose its lanes, as far as the standings go.
LEMMA VacatedIsAlike ==
    ASSUME IInv, NEW p \in Rounds
    PROVE  Alike(heats[p], Vacated(heats[p], Field(heats[p]) \ checkedIn))
<1> DEFINE hs == heats[p]
           gone == Field(hs) \ checkedIn
           new == Vacated(hs, gone)
<1>1. hs \in Seq(Heat) /\ race \in Races /\ Settled(hs)
    BY DEF IInv, Shape
<1>2. DOMAIN new = DOMAIN hs /\ \A i \in DOMAIN hs : new[i] = HeatVacated(hs[i], gone)
    BY DEF Vacated
<1>3. Thins(new, hs) /\ Field(hs) \ gone \subseteq Field(new)
    BY <1>1, VacatedThins
<1>4. new \in Seq(Heat)
  <2>1. \A i \in 1..Len(hs) : new[i] \in Heat
      BY <1>1, HeatVacatedFacts DEF Vacated
  <2>2. new = [i \in 1..Len(hs) |-> new[i]]
      BY <1>1 DEF Vacated
  <2>3. Len(hs) \in Nat
      BY <1>1
  <2> HIDE DEF new, hs, gone
  <2> QED  BY <2>1, <2>2, <2>3
<1>5. gone \cap checkedIn = {} /\ Field(hs) \cap checkedIn \subseteq Field(hs) \ gone
    OBVIOUS
<1> HIDE DEF new, hs, gone
<1>6. Field(new) \subseteq Field(hs)
  <2>1. \A q \in Racers : Places(q, new) \subseteq Places(q, hs)
      BY <1>1, <1>3, <1>4, ThinnedFacts
  <2>2. ASSUME NEW q \in Field(new) PROVE q \in Field(hs)
    <3>1. PICK i \in DOMAIN new : q \in Range(new[i].lanes) /\ q \in Racers
        BY <1>1, <1>4, SeatedFacts
    <3>2. i \in Places(q, hs)
        BY <3>1, <2>1 DEF Places
    <3> QED  BY <3>1, <3>2, <1>1, SeatedFacts DEF Places
  <2> QED  BY <2>2
<1>7. Field(new) \cap checkedIn = Field(hs) \cap checkedIn
    BY <1>3, <1>5, <1>6
<1>8. ~IsResult(NotRun) /\ ~IsResult(Skipped)
    BY <1>1, SeatFacts DEF IsResult
<1>9. ASSUME NEW i \in DOMAIN hs PROVE new[i] = hs[i] \/ (~IsResult(hs[i].out) /\ ~IsResult(new[i].out))
  <2>1. \/ HeatVacated(hs[i], gone) = hs[i]
        \/ hs[i].out = NotRun /\ HeatVacated(hs[i], gone).out \in {NotRun, Skipped}
      BY DEF HeatVacated
  <2> QED  BY <2>1, <1>2, <1>8
<1>10. Alike(hs, new)
    BY <1>2, <1>7, <1>9 DEF Alike
<1> QED  BY <1>10 DEF new, hs, gone

\* Nor does it show in the standings that a round nobody has raced is drawn again
\* for those who are all in it.
LEMMA RedrawnIsAlike ==
    ASSUME IInv, NEW p \in Rounds, Unraced(p), checkedIn \subseteq Field(heats[p])
    PROVE  Alike(heats[p], RosterRebuilt(heats[p]))
<1> DEFINE hs == heats[p]
           new == RosterRebuilt(hs)
<1>1. hs \in Seq(Heat) /\ race \in Races /\ World
    BY InvariantIsWorld DEF IInv, Shape
<1>2. Field(new) = checkedIn /\ Fresh(new)
    BY <1>1, RosterIsAll
<1>3. ~IsResult(NotRun)
    BY <1>1, SeatFacts DEF IsResult
<1> HIDE DEF new
<1>4. \A i \in DOMAIN new : ~IsResult(new[i].out)
    BY <1>2, <1>3 DEF Fresh
<1>5. Field(new) \cap checkedIn = Field(hs) \cap checkedIn
    BY <1>2
<1>6. Alike(hs, new)
    BY <1>4, <1>5 DEF Alike, Unraced, MayRebuild
<1> QED  BY <1>6 DEF new

\* What a step that was left to take does to its round, and leaves to be done.
Redo(p) == <<Step("reset", p), Step("advance", p)>>
Outcome(do, p, more) ==
    \/ /\ do \notin {"reset", "outage"} /\ heats'[p] = heats[p]
       /\ \/ \A i \in DOMAIN more : more[i].do = "fill"
          \/ more = Redo(p) /\ AwaitsStandings(p) /\ Field(heats[p]) # {} /\ do = "withdraw"
       /\ do = "withdraw" /\ AwaitsStandings(p) /\ ~(Field(heats[p]) \subseteq checkedIn)
             => more = Redo(p)
    \/ do = "reset" /\ more = <<>> /\ heats'[p] = heats[p] /\ ~Unraced(p)
    \/ /\ do = "reset" /\ more = <<>> /\ AwaitsStandings(p)
       /\ heats'[p] = ResetToSlots(heats[p], race.size)
    \/ /\ do \in {"fill", "advance"} /\ more = <<>> /\ IsFed(p) /\ p \notin pinned
       /\ do = "fill" => Decided(p)
       /\ heats'[p] = Populated(heats[p], Winners(source[p]))
    \/ do = "withdraw" /\ more = <<>> /\ (IsFed(p) => p \in pinned)
    \/ /\ do = "outage" /\ more = <<>>
       /\ IsFed(p) /\ Unraced(p) => heats'[p] = SlotsRebuilt(heats[p])
Moved(do, p, more) ==
    /\ todo' = more \o Tail(todo) /\ UNCHANGED settings
    /\ \A q \in Rounds \ {p} : heats'[q] = heats[q]
    /\ do = "outage" \/ Alike(heats[p], heats'[p]) \/ (IsFed(p) /\ Unraced(p))
    /\ Outcome(do, p, more)

\* Each step that is left to take is one of those.
LEMMA SettleMoves ==
    ASSUME IInv, Fitting, Apt, Claimed, Crewed, Swept, Enough, Settle
    PROVE  ~Idle /\ \E do \in Dos : \E p \in Rounds : \E more \in Seq(Request) :
              Head(todo) = Step(do, p) /\ Moved(do, p, more)
<1> DEFINE p == Head(todo).round
           do == Head(todo).do
<1>1. ~Idle /\ Head(todo) \in Fit /\ Head(todo) = todo[1] /\ 1 \in DOMAIN todo
  <2>1. todo # <<>> /\ todo \in Seq(Fit)
      BY DEF Settle, Idle, Fitting
  <2> QED  BY <2>1 DEF Idle
<1>2. p \in Rounds /\ do \in Dos /\ Head(todo) = Step(do, p) /\ Fits(Head(todo))
    BY <1>1 DEF Fit, Request, Step
<1>3. heats \in [Rounds -> Seq(Heat)] /\ race \in Races /\ World /\ <<>> \in Seq(Request)
    BY InvariantIsWorld DEF IInv, Shape
<1>4. ASSUME do \in {"withdraw", "admit", "advance"}
      PROVE  "withdraw" \in race.uses /\ (~IsFed(p) => checkedIn \subseteq Field(heats[p]))
  <2>1. "withdraw" \in race.uses
      BY <1>1, <1>4 DEF Swept
  <2>2. "outage" \notin race.uses
      BY <2>1 DEF Claimed, Layered, Without
  <2> QED  BY <2>1, <2>2, <1>2 DEF Crewed
<1>5. Alike(heats[p], heats[p])
    BY DEF Alike
<1>6. /\ ~IsFed(p) /\ Unraced(p) /\ checkedIn \subseteq Field(heats[p])
            => Alike(heats[p], RosterRebuilt(heats[p]))
      /\ Alike(heats[p], Vacated(heats[p], Field(heats[p]) \ checkedIn))
    BY <1>2, RedrawnIsAlike, VacatedIsAlike
<1>7. ~Unraced(p) => Populated(heats[p], Winners(source[p])) = heats[p]
  <2>1. heats[p] \in Seq(Heat) /\ Settled(heats[p]) /\ Sound(heats[p])
      BY <1>2, ClaimedIsApt DEF IInv, Shape
  <2>2. ~Unraced(p) => Fielded(heats[p])
      BY <2>1, <1>3, WaitingFacts DEF Sound, Unraced
  <2>3. Winners(source[p]) \in Seq(checkedIn) /\ Apart(Winners(source[p])) /\ checkedIn \in SUBSET Racers
      BY <1>2, <1>3, WinnersAreApart DEF World
  <2> QED  BY <2>1, <2>2, <2>3, <1>3, PopulatedPlaces
<1> HIDE DEF p, do
<1>8. ASSUME NEW more \in Seq(Request), Proceed(heats, more)
      PROVE  /\ todo' = more \o Tail(todo) /\ UNCHANGED settings /\ heats'[p] = heats[p]
             /\ \A q \in Rounds \ {p} : heats'[q] = heats[q]
    BY <1>8 DEF Proceed, settings
<1>9. ASSUME NEW new, Proceed([heats EXCEPT ![p] = new], <<>>)
      PROVE  /\ todo' = <<>> \o Tail(todo) /\ UNCHANGED settings /\ heats'[p] = new
             /\ \A q \in Rounds \ {p} : heats'[q] = heats[q]
    BY <1>2, <1>3, <1>9 DEF Proceed, settings
<1>10. DOMAIN <<>> = {}
    OBVIOUS
<1> DEFINE Goal == \E more \in Seq(Request) : Moved(do, p, more)
<1>11. ASSUME do = "reset", Reset(p) PROVE Goal
  <2>1. IsFed(p) /\ p \notin pinned
      BY <1>2, <1>11 DEF Fits, Step
  <2>2. CASE MayRebuild(heats[p])
    <3>1. Proceed([heats EXCEPT ![p] = ResetToSlots(heats[p], race.size)], <<>>)
        BY <1>11, <2>2 DEF Reset
    <3>2. Moved(do, p, <<>>)
        BY <3>1, <2>1, <2>2, <1>9, <1>11 DEF Moved, Outcome, AwaitsStandings, Unraced
    <3> QED  BY <3>2, <1>3
  <2>3. CASE ~MayRebuild(heats[p])
    <3>1. Proceed(heats, <<>>)
        BY <1>11, <2>3 DEF Reset
    <3>2. Moved(do, p, <<>>)
        BY <3>1, <2>3, <1>3, <1>5, <1>8, <1>11 DEF Moved, Outcome, Unraced
    <3> QED  BY <3>2, <1>3
  <2> QED  BY <2>2, <2>3
\* Where nothing happens to the round.
<1>12. ASSUME NEW more \in Seq(Request), Proceed(heats, more), do \notin {"reset", "outage"},
              \A i \in DOMAIN more : more[i].do = "fill",
              do = "withdraw" => Field(heats[p]) \subseteq checkedIn \/ ~AwaitsStandings(p)
       PROVE  Goal
  <2>1. Moved(do, p, more)
      BY <1>5, <1>8, <1>12 DEF Moved, Outcome
  <2> QED  BY <2>1
<1>13. ASSUME do = "trigger", Trigger(p) PROVE Goal
  <2> DEFINE S == RoundsToInvalidate(p)
             more == Steps("fill", S)
  <2>1. S \in SUBSET Rounds /\ "fill" \in Dos
      BY DEF RoundsToInvalidate, Dos
  <2>2. more \in Seq(Request) /\ more \in Seq({Step("fill", q) : q \in S})
      BY <2>1, StepsAreRequests, StepsFacts
  <2>3. Proceed(heats, <<>>) \/ Proceed(heats, more)
      BY <1>13 DEF Trigger
  <2> HIDE DEF more
  <2>4. \A i \in DOMAIN more : more[i].do = "fill"
      BY <2>2 DEF Step
  <2> HIDE DEF Goal
  <2> QED  BY <2>2, <2>3, <2>4, <1>3, <1>10, <1>12, <1>13
<1>14. ASSUME do \in {"fill", "advance"}, IsFed(p), p \notin pinned, do = "fill" => Decided(p),
              Proceed([heats EXCEPT ![p] = Populated(heats[p], Winners(source[p]))], <<>>)
       PROVE  Goal
  <2>1. Moved(do, p, <<>>)
      BY <1>5, <1>7, <1>9, <1>14 DEF Moved, Outcome
  <2> QED  BY <2>1, <1>3
<1>15. ASSUME do = "fill", Fill(p) PROVE Goal
  <2>1. CASE IsFed(p) /\ p \notin pinned /\ Decided(p)
    <3>1. Proceed([heats EXCEPT ![p] = Populated(heats[p], Winners(source[p]))], <<>>)
        BY <1>15, <2>1 DEF Fill
    <3> HIDE DEF Goal
    <3> QED  BY <3>1, <2>1, <1>14, <1>15
  <2>2. CASE ~(IsFed(p) /\ p \notin pinned /\ Decided(p))
    <3>1. Proceed(heats, <<>>)
        BY <1>15, <2>2 DEF Fill
    <3> HIDE DEF Goal
    <3> QED  BY <3>1, <1>3, <1>10, <1>12, <1>15
  <2> QED  BY <2>1, <2>2
<1>16. ASSUME do = "advance", Advance(p) PROVE Goal
  <2>1. IsFed(p) /\ p \notin pinned
      BY <1>2, <1>16 DEF Fits, Step
  <2>2. Proceed([heats EXCEPT ![p] = Populated(heats[p], Winners(source[p]))], <<>>)
      BY <1>16 DEF Advance
  <2> HIDE DEF Goal
  <2> QED  BY <2>1, <2>2, <1>14, <1>16
<1>17. ASSUME do = "withdraw", Withdraw(p) PROVE Goal
  <2> DEFINE hs == heats[p]
             gone == Field(hs) \ checkedIn
  <2>1. CASE gone = {}
    <3>1. Proceed(heats, <<>>) /\ Field(hs) \subseteq checkedIn
        BY <1>17, <2>1 DEF Withdraw
    <3> HIDE DEF Goal
    <3> QED  BY <3>1, <1>3, <1>10, <1>12, <1>17
  <2>2. CASE gone # {} /\ IsFed(p) /\ p \notin pinned
    <3>1. CASE MayRebuild(hs)
      <4>1. Proceed(heats, Redo(p)) /\ AwaitsStandings(p) /\ Field(hs) # {}
          BY <1>17, <2>2, <3>1 DEF Withdraw, Redo, AwaitsStandings, Unraced
      <4>2. Redo(p) \in Seq(Request)
        <5>1. Step("reset", p) \in Request /\ Step("advance", p) \in Request
            BY <1>2 DEF Step, Request, Dos
        <5> QED  BY <5>1 DEF Redo
      <4>3. Moved(do, p, Redo(p))
          BY <4>1, <4>2, <1>5, <1>8, <1>17 DEF Moved, Outcome
      <4> QED  BY <4>2, <4>3
    <3>2. CASE ~MayRebuild(hs)
      <4>1. Proceed(heats, <<>>) /\ ~AwaitsStandings(p)
          BY <1>17, <2>2, <3>2 DEF Withdraw, AwaitsStandings, Unraced
      <4> HIDE DEF Goal
      <4> QED  BY <4>1, <1>3, <1>10, <1>12, <1>17
    <3> QED  BY <3>1, <3>2
  <2>3. CASE gone # {} /\ ~(IsFed(p) /\ p \notin pinned)
    <3>1. \/ Proceed(heats, <<>>)
          \/ ~IsFed(p) /\ Unraced(p) /\ Proceed([heats EXCEPT ![p] = RosterRebuilt(hs)], <<>>)
          \/ Proceed([heats EXCEPT ![p] = Vacated(hs, gone)], <<>>)
        BY <1>17, <2>3 DEF Withdraw, Unraced
    <3>2. ~AwaitsStandings(p)
        BY <2>3 DEF AwaitsStandings
    <3>3. ASSUME NEW new, Alike(hs, new), Proceed([heats EXCEPT ![p] = new], <<>>) PROVE Goal
      <4>1. Moved(do, p, <<>>)
          BY <1>9, <1>17, <2>3, <3>3 DEF Moved, Outcome
      <4> QED  BY <4>1, <1>3
    <3> HIDE DEF Goal
    <3>4. Proceed(heats, <<>>) => Goal
        BY <3>2, <1>3, <1>10, <1>12, <1>17
    <3> QED  BY <3>1, <3>3, <3>4, <1>4, <1>6, <1>17
  <2> QED  BY <2>1, <2>2, <2>3
<1>18. ASSUME do = "admit", Admit(p) PROVE Goal
  <2>1. checkedIn \ Field(heats[p]) = {}
      BY <1>2, <1>4, <1>18 DEF Fits, Step
  <2>2. Proceed(heats, <<>>)
      BY <1>18, <2>1 DEF Admit
  <2> HIDE DEF Goal
  <2> QED  BY <2>2, <1>3, <1>10, <1>12, <1>18
<1>19. ASSUME do = "outage", Outage(p) PROVE Goal
  <2>1. Cardinality(checkedIn) >= 2 /\ Cardinality(checkedIn) \in Nat
    <3>1. "outage" \in race.uses
        BY <1>2, <1>19 DEF Fits, Step
    <3>2. IsFiniteSet(checkedIn)
        BY <1>3, RacersAssumption, FS_Subset DEF World
    <3> QED  BY <3>1, <3>2, FS_CardinalityType DEF Enough
  <2>2. \E new : /\ Proceed([heats EXCEPT ![p] = new], <<>>)
                 /\ IsFed(p) /\ Unraced(p) => new = SlotsRebuilt(heats[p])
    <3>1. CASE ~Unraced(p)
      <4>1. Proceed([heats EXCEPT ![p] = Relaned(heats[p])], <<>>)
          BY <1>19, <3>1 DEF Outage, Unraced
      <4> QED  BY <4>1, <3>1
    <3>2. CASE Unraced(p) /\ IsFed(p)
      <4>1. Proceed([heats EXCEPT ![p] = SlotsRebuilt(heats[p])], <<>>)
          BY <1>19, <3>2 DEF Outage, Unraced
      <4> QED  BY <4>1
    <3>3. CASE Unraced(p) /\ ~IsFed(p)
      <4>1. ~(Cardinality(checkedIn) < 2)
          BY <2>1
      <4>2. Proceed([heats EXCEPT ![p] = RosterRebuilt(heats[p])], <<>>)
          BY <1>19, <3>3, <4>1 DEF Outage, Redraw, Unraced
      <4> QED  BY <4>2, <3>3
    <3> QED  BY <3>1, <3>2, <3>3
  <2>3. PICK new : /\ Proceed([heats EXCEPT ![p] = new], <<>>)
                   /\ IsFed(p) /\ Unraced(p) => new = SlotsRebuilt(heats[p])
      BY <2>2
  <2>4. Moved(do, p, <<>>)
      BY <2>3, <1>9, <1>19 DEF Moved, Outcome
  <2> QED  BY <2>4, <1>3
<1> HIDE DEF Goal
<1>20. Goal
    BY <1>11, <1>13, <1>15, <1>16, <1>17, <1>18, <1>19 DEF Settle, p, do
<1> QED  BY <1>1, <1>2, <1>20 DEF Goal

\* Where the steps that are left are found again when one is taken.
LEMMA TodoShifts ==
    ASSUME IInv, ~Idle, NEW more \in Seq(Request), todo' = more \o Tail(todo)
    PROVE  \E m \in Nat :
              /\ DOMAIN more = 1..m /\ DOMAIN todo \subseteq Nat \ {0} /\ DOMAIN todo' \subseteq Nat \ {0}
              /\ 1 \in DOMAIN todo /\ Head(todo) = todo[1]
              /\ \A k \in DOMAIN todo : k > 1 =>
                    k + m - 1 \in DOMAIN todo' /\ todo'[k + m - 1] = todo[k]
              /\ \A i \in DOMAIN more : i \in DOMAIN todo' /\ todo'[i] = more[i]
              /\ \A i \in DOMAIN todo' :
                    \/ i \in DOMAIN more /\ todo'[i] = more[i]
                    \/ i - m + 1 \in DOMAIN todo /\ i - m + 1 > 1 /\ todo'[i] = todo[i - m + 1]
<1> DEFINE m == Len(more)
           n == Len(todo)
<1>1. /\ m \in Nat /\ n \in Nat /\ n >= 1 /\ DOMAIN todo = 1..n /\ DOMAIN more = 1..m
      /\ DOMAIN todo' = 1..m + n - 1 /\ Head(todo) = todo[1]
      /\ \A i \in 1..m + n - 1 : todo'[i] = IF i <= m THEN more[i] ELSE todo[i - m + 1]
    BY TodoAfter
<1> HIDE DEF m, n
<1>2. ASSUME NEW k \in DOMAIN todo, k > 1
      PROVE k + m - 1 \in DOMAIN todo' /\ todo'[k + m - 1] = todo[k]
  <2>1. k + m - 1 \in 1..m + n - 1 /\ ~(k + m - 1 <= m) /\ (k + m - 1) - m + 1 = k
      BY <1>1, <1>2
  <2> QED  BY <2>1, <1>1
<1>3. ASSUME NEW i \in DOMAIN todo'
      PROVE  \/ i \in DOMAIN more /\ todo'[i] = more[i]
             \/ i - m + 1 \in DOMAIN todo /\ i - m + 1 > 1 /\ todo'[i] = todo[i - m + 1]
    BY <1>1
<1>4. ASSUME NEW i \in DOMAIN more PROVE i \in DOMAIN todo' /\ todo'[i] = more[i]
  <2>1. i \in 1..m + n - 1 /\ i <= m
      BY <1>1
  <2> QED  BY <2>1, <1>1
<1>5. DOMAIN todo \subseteq Nat \ {0} /\ DOMAIN todo' \subseteq Nat \ {0} /\ 1 \in DOMAIN todo
    BY <1>1
<1> QED  BY <1>1, <1>2, <1>3, <1>4, <1>5

\* A step that is left stays until it is taken.
LEMMA PendingStays ==
    ASSUME IInv, ~Idle, NEW more \in Seq(Request), todo' = more \o Tail(todo), NEW do, NEW r
    PROVE  /\ Pending(do, r) /\ Head(todo) # Step(do, r) => Pending(do, r)'
           /\ \A i \in DOMAIN more : more[i] = Step(do, r) => Pending(do, r)'
           /\ Pending(do, r)' => Pending(do, r) \/ \E i \in DOMAIN more : more[i] = Step(do, r)
<1>1. PICK m \in Nat :
              /\ DOMAIN more = 1..m /\ DOMAIN todo \subseteq Nat \ {0} /\ DOMAIN todo' \subseteq Nat \ {0}
              /\ 1 \in DOMAIN todo /\ Head(todo) = todo[1]
              /\ \A k \in DOMAIN todo : k > 1 =>
                    k + m - 1 \in DOMAIN todo' /\ todo'[k + m - 1] = todo[k]
              /\ \A i \in DOMAIN more : i \in DOMAIN todo' /\ todo'[i] = more[i]
              /\ \A i \in DOMAIN todo' :
                    \/ i \in DOMAIN more /\ todo'[i] = more[i]
                    \/ i - m + 1 \in DOMAIN todo /\ i - m + 1 > 1 /\ todo'[i] = todo[i - m + 1]
    BY TodoShifts
<1>2. Pending(do, r)' <=> \E i \in DOMAIN todo' : todo'[i] = Step(do, r)
    BY DEF Pending, Step
<1>3. ASSUME Pending(do, r), Head(todo) # Step(do, r) PROVE Pending(do, r)'
  <2>1. PICK k \in DOMAIN todo : todo[k] = Step(do, r)
      BY <1>3 DEF Pending
  <2>2. k > 1
      BY <2>1, <1>1, <1>3
  <2> QED  BY <2>1, <2>2, <1>1, <1>2
<1>4. ASSUME Pending(do, r)' PROVE Pending(do, r) \/ \E i \in DOMAIN more : more[i] = Step(do, r)
  <2>1. PICK i \in DOMAIN todo' : todo'[i] = Step(do, r)
      BY <1>2, <1>4
  <2> QED  BY <2>1, <1>1 DEF Pending
<1> QED  BY <1>1, <1>2, <1>3, <1>4

\* What is raced stays raced.
LEMMA RacedStays ==
    ASSUME IInv, Kept, NEW r \in Rounds, MayRebuild(heats'[r])
    PROVE  Unraced(r)
<1> SUFFICES ASSUME NEW i \in DOMAIN heats[r], IsResult(heats[r][i].out) PROVE FALSE
    BY DEF Unraced, MayRebuild
<1>1. heats[r][i] \in Range(heats'[r])
    BY DEF Kept
<1>2. PICK j \in DOMAIN heats'[r] : heats'[r][j] = heats[r][i]
    BY <1>1 DEF Range
<1> QED  BY <1>2 DEF MayRebuild

\* While steps are taken, a line-up the standings have left behind stays promised.
LEMMA CoveredBySettle ==
    ASSUME IInv, Fitting, Apt, Claimed, Settling, Covered, Settle
    PROVE  Covered'
<1>1. IInv' /\ Kept
    BY SettleKeeps
<1>2. ~Idle /\ \E do \in Dos : \E p \in Rounds : \E more \in Seq(Request) :
              Head(todo) = Step(do, p) /\ Moved(do, p, more)
    BY SettleMoves DEF Settling
<1>3. PICK do \in Dos : \E p \in Rounds : \E more \in Seq(Request) :
              Head(todo) = Step(do, p) /\ Moved(do, p, more)
    BY <1>2
<1>4. PICK p \in Rounds : \E more \in Seq(Request) : Head(todo) = Step(do, p) /\ Moved(do, p, more)
    BY <1>3
<1>5. PICK more \in Seq(Request) : Head(todo) = Step(do, p) /\ Moved(do, p, more)
    BY <1>4
<1>6. /\ todo' = more \o Tail(todo) /\ UNCHANGED settings
      /\ \A q \in Rounds \ {p} : heats'[q] = heats[q]
      /\ do = "outage" \/ Alike(heats[p], heats'[p]) \/ (IsFed(p) /\ Unraced(p))
      /\ Outcome(do, p, more)
    BY <1>5 DEF Moved
<1>7. UNCHANGED <<source, pinned, checkedIn, excluded, race>> /\ runOff' = runOff /\ Rounds' = Rounds
    BY <1>6 DEF settings, Rounds
<1>8. \A x, r : /\ Pending(x, r) /\ ~(do = x /\ p = r) => Pending(x, r)'
                /\ \A i \in DOMAIN more : more[i] = Step(x, r) => Pending(x, r)'
  <2> TAKE x, r
  <2>1. Head(todo) = Step(x, r) => do = x /\ p = r
      BY <1>5 DEF Step
  <2>2. Pending(x, r) /\ Head(todo) # Step(x, r) => Pending(x, r)'
      BY <1>2, <1>6, PendingStays
  <2>3. \A i \in DOMAIN more : more[i] = Step(x, r) => Pending(x, r)'
      BY <1>2, <1>6, PendingStays
  <2> QED  BY <2>1, <2>2, <2>3
<1> SUFFICES ASSUME NEW r \in Rounds, AwaitsStandings(r)' PROVE CoveredAt(r)'
    BY <1>7 DEF Covered, CoveredAt
<1>9. IsFed(r) /\ r \notin pinned /\ Unraced(r) /\ AwaitsStandings(r) /\ CoveredAt(r)
  <2>1. IsFed(r) /\ r \notin pinned /\ MayRebuild(heats'[r])
      BY <1>7 DEF AwaitsStandings, IsFed, Unraced
  <2>2. Unraced(r)
      BY <2>1, <1>1, RacedStays
  <2> QED  BY <2>1, <2>2 DEF AwaitsStandings, Covered
<1>10. p \notin ScoredRounds(source[r]) \/ Alike(heats[p], heats'[p])
       => Range(Winners(source[r]))' = Range(Winners(source[r]))
    BY <1>1, <1>6, <1>7, FeedersStand
<1>11. heats'[r] = heats[r] => (Pending("withdraw", r) /\ ~(Field(heats[r]) \subseteq checkedIn)
          /\ Pending("withdraw", r)' => CoveredAt(r)')
    BY <1>7 DEF CoveredAt, Field, Participants
<1>12. Pending("reset", r)' \/ Pending("outage", r)' => CoveredAt(r)'
    BY DEF CoveredAt
<1>13. Field(heats'[r]) = {} => CoveredAt(r)'
    BY DEF CoveredAt, Current
<1>14. Field(heats'[r]) = Range(Winners(source[r])) /\ Range(Winners(source[r]))' = Range(Winners(source[r]))
       => CoveredAt(r)'
    BY DEF CoveredAt, Current
<1>15. \/ Current(r) \/ Pending("reset", r) \/ Pending("outage", r)
       \/ Pending("withdraw", r) /\ ~(Field(heats[r]) \subseteq checkedIn)
    BY <1>9 DEF CoveredAt
<1>16. CASE r # p
  <2>1. heats'[r] = heats[r]
      BY <1>6, <1>16
  <2>2. ASSUME Current(r), Field(heats[r]) # {} PROVE CoveredAt(r)'
    <3>1. Awaiting(r)
        BY <1>9, <2>2 DEF Awaiting
    <3>2. IsFed(p) /\ Unraced(p) => p \notin ScoredRounds(source[r])
        BY <3>1, OpenFeedsNobody DEF Settling
    <3>3. ASSUME do = "outage", p \in ScoredRounds(source[r]) PROVE Pending("outage", r)'
      <4>1. p < r
          BY <1>9, <3>3, ScoredAreBefore DEF Settling
      <4>2. 1 \in DOMAIN todo /\ todo[1] = Step(do, p)
          BY <1>2, <1>5 DEF Idle, IInv, Shape
      <4>3. todo[1].do = "outage" /\ todo[1].round = p
          BY <4>2, <3>3 DEF Step
      <4>4. \A i \in DOMAIN todo : todo[i].do = "outage" =>
               \A q \in Rounds : Awaiting(q) /\ q > todo[i].round =>
                  \E j \in DOMAIN todo : j > i /\ todo[j] = Step("outage", q)
          BY DEF Settling, Swept
      <4>5. r > p
          BY <4>1
      <4>6. \E j \in DOMAIN todo : todo[j] = Step("outage", r)
          BY <4>2, <4>3, <4>4, <4>5, <3>1
      <4>7. Pending("outage", r)
          BY <4>6 DEF Pending
      <4> QED  BY <4>7, <1>8, <1>16
    <3>4. CASE Pending("outage", r)'
        BY <3>4, <1>12
    <3>5. CASE p \notin ScoredRounds(source[r]) \/ Alike(heats[p], heats'[p])
        BY <3>5, <1>10, <1>14, <2>1, <2>2 DEF Current
    <3> QED  BY <3>2, <3>3, <3>4, <3>5, <1>6
  <2>3. Current(r) => CoveredAt(r)'
      BY <2>1, <2>2, <1>13
  <2> QED  BY <2>1, <2>3, <1>8, <1>11, <1>12, <1>15, <1>16
<1>17. CASE r = p
  <2>1. Range(Winners(source[r]))' = Range(Winners(source[r]))
    <3>1. r \in ScoredRounds(source[r]) => r < r
        BY <1>9, ScoredAreBefore DEF Settling
    <3>2. r \in Int
        BY RoundsAreFinite
    <3> QED  BY <3>1, <3>2, <1>10, <1>17
  <2>2. World /\ heats[r] \in Seq(Heat)
      BY InvariantIsWorld DEF IInv, Shape
  <2>3. heats'[r] = heats[r] /\ Current(r) => CoveredAt(r)'
      BY <2>1, <1>13, <1>14 DEF Current
  <2>4. ASSUME do \notin {"reset", "outage"}, heats'[r] = heats[r],
               do = "withdraw" /\ AwaitsStandings(r) /\ ~(Field(heats[r]) \subseteq checkedIn)
                 => more = Redo(r)
        PROVE  CoveredAt(r)'
    <3>1. Pending("reset", r) \/ Pending("outage", r) => CoveredAt(r)'
        BY <2>4, <1>8, <1>12
    <3>2. ASSUME do = "withdraw", ~(Field(heats[r]) \subseteq checkedIn) PROVE CoveredAt(r)'
      <4>1. more = Redo(r)
          BY <3>2, <2>4, <1>9
      <4>2. 1 \in DOMAIN more /\ more[1] = Step("reset", r)
          BY <4>1 DEF Redo
      <4> QED  BY <4>2, <1>8, <1>12
    <3>3. do # "withdraw" /\ Pending("withdraw", r) /\ ~(Field(heats[r]) \subseteq checkedIn) => CoveredAt(r)'
        BY <2>4, <1>8, <1>11
    <3> QED  BY <3>1, <3>2, <3>3, <2>3, <2>4, <1>15
  <2>5. heats'[r] = ResetToSlots(heats[r], race.size) \/ heats'[r] = SlotsRebuilt(heats[r]) => CoveredAt(r)'
      BY <2>2, <1>13, SlotsAreAll
  <2>6. ASSUME do \in {"fill", "advance"}, heats'[r] = Populated(heats[r], Winners(source[r]))
        PROVE  CoveredAt(r)'
    <3>1. heats'[r] = heats[r] \/ Field(heats'[r]) = Range(Winners(source[r]))
        BY <2>6, FillingFields DEF Settling
    <3> QED  BY <3>1, <2>1, <2>4, <2>6, <1>14
  <2>7. Outcome(do, r, more)
      BY <1>6, <1>17
  <2> QED  BY <2>4, <2>5, <2>6, <2>7, <1>9 DEF Outcome
<1> QED  BY <1>16, <1>17

-----------------------------------------------------------------------------
(* What a request does to the standings.                                   *)

\* What a request asks for is left to be done.
LEMMA AskedFor ==
    ASSUME IInv, NEW do \in Dos, NEW S \in SUBSET Rounds, NEW T, NEW more \in Seq(T),
           todo' = Steps(do, S) \o more \/ todo' = Steps(do, S)
    PROVE  \A r \in S : Pending(do, r)'
<1> DEFINE asked == Steps(do, S)
<1>1. asked \in Seq({Step(do, r) : r \in S}) /\ \A r \in S : \E k \in DOMAIN asked : asked[k] = Step(do, r)
    BY StepsFacts
<1>2. todo' = asked \o more \/ todo' = asked
    OBVIOUS
<1> HIDE DEF asked
<1>3. ASSUME NEW k \in DOMAIN asked PROVE k \in DOMAIN todo' /\ todo'[k] = asked[k]
  <2>1. k \in 1..Len(asked) /\ Len(asked) \in Nat /\ Len(more) \in Nat
      BY <1>1
  <2>2. k \in 1..Len(asked) + Len(more)
      BY <2>1
  <2>3. k \in DOMAIN (asked \o more) /\ (asked \o more)[k] = asked[k]
      BY <1>1, <2>1, <2>2
  <2> QED  BY <1>2, <2>3
<1> QED  BY <1>1, <1>3 DEF Pending, Step

\* Between requests every line-up is up to date.
LEMMA IdleIsCurrent ==
    ASSUME Idle, Covered, NEW r \in Rounds, AwaitsStandings(r)
    PROVE  Current(r)
<1>1. DOMAIN todo = {}
    BY DEF Idle
<1> QED  BY <1>1 DEF Covered, CoveredAt, Pending

\* A line-up nobody touches stays so when one round changes that does not count
\* for it, or as the standings do not see.
LEMMA OthersStand ==
    ASSUME IInv, IInv', Idle, Covered, UNCHANGED <<source, checkedIn, excluded, runOff, race>>,
           NEW p \in Rounds, \A q \in Rounds \ {p} : heats'[q] = heats[q],
           NEW r \in Rounds, AwaitsStandings(r), heats'[r] = heats[r],
           Alike(heats[p], heats'[p]) \/ (Awaiting(r) => p \notin ScoredRounds(source[r]))
    PROVE  CoveredAt(r)'
<1>1. Current(r)
    BY IdleIsCurrent
<1>2. Field(heats[r]) = {} => CoveredAt(r)'
    BY DEF CoveredAt, Current
<1>3. ASSUME Field(heats[r]) # {} PROVE CoveredAt(r)'
  <2>1. Awaiting(r)
      BY <1>3 DEF Awaiting
  <2>2. Alike(heats[p], heats'[p]) \/ p \notin ScoredRounds(source[r])
      BY <2>1
  <2>3. Range(Winners(source[r]))' = Range(Winners(source[r]))
      BY <2>2, FeedersStand
  <2> QED  BY <2>3, <1>1, <1>3 DEF CoveredAt, Current
<1> QED  BY <1>2, <1>3

\* As does one that is itself changed and holds those who advance.
LEMMA OneStands ==
    ASSUME IInv, IInv', Idle, Layers, Covered, UNCHANGED <<source, checkedIn, excluded, runOff, race>>,
           NEW r \in Rounds, \A q \in Rounds \ {r} : heats'[q] = heats[q], AwaitsStandings(r),
           Field(heats'[r]) \in {Field(heats[r]), Range(Winners(source[r]))}
    PROVE  CoveredAt(r)'
<1>1. Current(r) /\ IsFed(r)
    BY IdleIsCurrent DEF AwaitsStandings
<1>2. r \notin ScoredRounds(source[r])
  <2>1. r \in ScoredRounds(source[r]) => r < r
      BY <1>1, ScoredAreBefore
  <2>2. r \in Int
      BY RoundsAreFinite
  <2> QED  BY <2>1, <2>2
<1>3. Range(Winners(source[r]))' = Range(Winners(source[r]))
    BY <1>2, FeedersStand
<1> QED  BY <1>1, <1>3 DEF CoveredAt, Current

\* A result, or a correction, has every final it counts for drawn again.
LEMMA CoveredByResult ==
    ASSUME IInv, IInv', Claimed, Settling, Covered, NEW p \in Rounds, NEW i \in DOMAIN heats[p], NEW out,
           RecordHeatResult(p, i, out)
    PROVE  Covered'
<1>1. /\ Idle /\ heats' = [heats EXCEPT ![p][i].out = out] /\ todo' = Cascade(p)
      /\ UNCHANGED <<source, pinned, checkedIn, excluded, runOff, usable, race>>
      /\ IsFed(p) /\ IsResult(heats[p][i].out) => IsResult(out)
    BY DEF RecordHeatResult, Claimed, Without
<1>2. Rounds' = Rounds /\ heats[p] \in Seq(Heat) /\ heats \in [Rounds -> Seq(Heat)]
    BY <1>1 DEF Rounds, IInv, Shape
<1>3. /\ \A q \in Rounds \ {p} : heats'[q] = heats[q]
      /\ heats'[p] = [heats[p] EXCEPT ![i].out = out]
    BY <1>1, <1>2
<1>4. /\ DOMAIN heats'[p] = DOMAIN heats[p]
      /\ \A j \in DOMAIN heats[p] : heats'[p][j].lanes = heats[p][j].lanes
      /\ \A j \in DOMAIN heats[p] : j # i => heats'[p][j] = heats[p][j]
      /\ heats'[p][i].out = out
  <2>1. heats[p][i] \in Heat
      BY <1>2
  <2> QED  BY <1>2, <1>3, <2>1 DEF Heat
<1>5. Field(heats'[p]) = Field(heats[p])
    BY <1>4 DEF Field, Participants
<1> SUFFICES ASSUME NEW r \in Rounds, AwaitsStandings(r)' PROVE CoveredAt(r)'
    BY <1>2 DEF Covered, CoveredAt
<1>6. IsFed(r) /\ r \notin pinned /\ MayRebuild(heats'[r])
    BY <1>1 DEF AwaitsStandings, IsFed, Unraced
<1>7. CASE r > p
  <2>1. r \in RoundsToInvalidate(p)
      BY <1>6, <1>7 DEF RoundsToInvalidate
  <2>2. todo' = Steps("reset", RoundsToInvalidate(p)) \o <<Step("trigger", p)>>
      BY <1>1 DEF Cascade
  <2>3. <<Step("trigger", p)>> \in Seq({Step("trigger", p)}) /\ "reset" \in Dos
        /\ RoundsToInvalidate(p) \in SUBSET Rounds
      BY DEF Dos, RoundsToInvalidate
  <2>4. Pending("reset", r)'
      BY <2>1, <2>2, <2>3, AskedFor
  <2> QED  BY <2>4 DEF CoveredAt
<1>8. CASE r = p
  <2>1. Unraced(r)
    <3> SUFFICES ASSUME NEW j \in DOMAIN heats[r], IsResult(heats[r][j].out) PROVE FALSE
        BY DEF Unraced, MayRebuild
    <3>1. ~IsResult(heats'[r][j].out)
        BY <1>4, <1>6, <1>8 DEF MayRebuild
    <3> QED  BY <3>1, <1>1, <1>4, <1>6, <1>8
  <2>2. AwaitsStandings(r)
      BY <2>1, <1>6 DEF AwaitsStandings
  <2> QED  BY <2>2, <1>1, <1>3, <1>5, <1>8, OneStands DEF Settling
<1>9. CASE r < p
  <2>0. r # p /\ ~(p < r)
      BY <1>9, RoundsAreFinite
  <2>1. p \notin ScoredRounds(source[r])
      BY <2>0, <1>6, ScoredAreBefore DEF Settling
  <2>2. heats'[r] = heats[r]
      BY <2>0, <1>3
  <2>3. AwaitsStandings(r)
      BY <2>2, <1>6 DEF AwaitsStandings, Unraced
  <2> QED  BY <2>1, <2>2, <2>3, <1>1, <1>3, OthersStand
<1>10. r \in Int /\ p \in Int
    BY RoundsAreFinite
<1> QED  BY <1>7, <1>8, <1>9, <1>10

\* A run-off has every final drawn again.
LEMMA CoveredByRunOff ==
    ASSUME IInv, IInv', Covered, RecordRunOff
    PROVE  Covered'
<1>1. UNCHANGED <<source, pinned, heats>> /\ todo' = RunOffCascade
    BY DEF RecordRunOff
<1> SUFFICES ASSUME NEW r \in Rounds, AwaitsStandings(r)' PROVE CoveredAt(r)'
    BY <1>1 DEF Covered, CoveredAt, Rounds
<1>2. r \in RoundsToInvalidate(0)
  <2>1. r > 0
      BY DEF IInv, Scalars
  <2> QED  BY <2>1, <1>1 DEF RoundsToInvalidate, AwaitsStandings, IsFed
<1>3. todo' = Steps("reset", RoundsToInvalidate(0)) \o Steps("fill", Rounds)
    BY <1>1 DEF RunOffCascade
<1>4. "reset" \in Dos /\ RoundsToInvalidate(0) \in SUBSET Rounds /\ Rounds \in SUBSET Rounds
    BY DEF Dos, RoundsToInvalidate
<1>5. Steps("fill", Rounds) \in Seq({Step("fill", q) : q \in Rounds})
    BY <1>4, StepsFacts
<1>6. Pending("reset", r)'
    BY <1>2, <1>3, <1>4, <1>5, AskedFor
<1> QED  BY <1>6 DEF CoveredAt

\* A car that leaves has its places taken from it, wherever it is.
LEMMA CoveredByCheckIn ==
    ASSUME IInv, IInv', Claimed, Covered, NEW q, CheckIn(q)
    PROVE  Covered'
<1>1. /\ Idle /\ checkedIn' \subseteq checkedIn /\ UNCHANGED <<source, pinned, heats, excluded, runOff, race>>
      /\ todo' = Steps("withdraw", Rounds) \o Steps("admit", {r \in Rounds : ~IsFed(r)})
    BY DEF CheckIn, Claimed, Without
<1> SUFFICES ASSUME NEW r \in Rounds, AwaitsStandings(r)' PROVE CoveredAt(r)'
    BY <1>1 DEF Covered, CoveredAt, Rounds
<1>2. AwaitsStandings(r) /\ source[r] \in Int
    BY <1>1 DEF AwaitsStandings, IsFed, Unraced, IInv, Shape
<1>3. Pending("withdraw", r)'
  <2>1. "withdraw" \in Dos /\ Rounds \in SUBSET Rounds /\ {p \in Rounds : ~IsFed(p)} \in SUBSET Rounds
      BY DEF Dos
  <2>2. Steps("admit", {p \in Rounds : ~IsFed(p)})
           \in Seq({Step("admit", p) : p \in {p \in Rounds : ~IsFed(p)}})
      BY <2>1, StepsFacts
  <2> QED  BY <2>1, <2>2, <1>1, AskedFor
<1>4. CASE ~(Field(heats[r]) \subseteq checkedIn')
    BY <1>1, <1>3, <1>4 DEF CoveredAt, Field, Participants
<1>5. CASE Field(heats[r]) \subseteq checkedIn' /\ Field(heats[r]) # {}
  <2>1. Field(heats[r]) = Range(Winners(source[r]))
      BY <1>1, <1>2, <1>5, IdleIsCurrent DEF Current
  <2> DEFINE s == source[r]
  <2>2. ScoredRounds(s)' = ScoredRounds(s) /\ s' = s
      BY <1>1 DEF ScoredRounds, Rounds, IsFed
  <2>3. \A p \in ScoredRounds(s) : Alike(heats[p], heats'[p])
      BY <1>1 DEF Alike
  <2>4. s \in Int /\ Range(Winners(s)) \subseteq checkedIn'
      BY <1>2, <1>5, <2>1
  <2> HIDE DEF s
  <2>5. Range(Winners(s))' = Range(Winners(s))
      BY <2>2, <2>3, <2>4, <1>1, WinnersStand
  <2> QED  BY <2>1, <2>5, <1>1 DEF CoveredAt, Current, s
<1>6. CASE Field(heats[r]) = {}
    BY <1>1, <1>6 DEF CoveredAt, Current
<1> QED  BY <1>4, <1>5, <1>6

\* A lane that goes or returns has every round laid out again.
LEMMA CoveredByOutages ==
    ASSUME IInv, NEW lanes, SetLaneOutages(lanes)
    PROVE  Covered'
<1>1. UNCHANGED <<source, pinned, heats>> /\ todo' = Steps("outage", {r \in Rounds : heats[r] # <<>>})
    BY DEF SetLaneOutages
<1> SUFFICES ASSUME NEW r \in Rounds PROVE CoveredAt(r)'
    BY <1>1 DEF Covered, Rounds
<1>2. CASE heats[r] # <<>>
  <2>1. "outage" \in Dos /\ {p \in Rounds : heats[p] # <<>>} \in SUBSET Rounds /\ <<>> \in Seq({})
      BY DEF Dos
  <2>2. Pending("outage", r)'
      BY <2>1, <1>1, <1>2, AskedFor
  <2> QED  BY <2>2 DEF CoveredAt
<1>3. CASE heats[r] = <<>>
  <2>1. DOMAIN heats'[r] = {}
      BY <1>1, <1>3
  <2>2. Field(heats'[r]) = {}
      BY <2>1 DEF Field, Participants
  <2> QED  BY <2>2 DEF CoveredAt, Current
<1> QED  BY <1>2, <1>3

\* Who counts for a final is the same when a round comes or goes that does not.
LEMMA CoveredByCreate ==
    ASSUME IInv, IInv', Claimed, Layers, Covered, NEW s \in race.offered, CreateRound(s)
    PROVE  Covered'
<1>0. s # General
    BY DEF Claimed, Layered, CreateRound
<1>1. PICK n : /\ n \notin Rounds /\ \A p \in Rounds : p < n
               /\ Rounds' = Rounds \cup {n} /\ source'[n] = s
               /\ \A p \in Rounds : source'[p] = source[p] /\ heats'[p] = heats[p]
               /\ heats'[n] = SlotsRebuilt(<<>>)
    BY <1>0, CreatedRound
<1>2. Idle /\ UNCHANGED <<pinned, checkedIn, excluded, runOff, race>>
    BY <1>0, CreatedRound
<1>3. World /\ <<>> \in Seq(Heat)
    BY InvariantIsWorld
<1> SUFFICES ASSUME NEW r \in Rounds', AwaitsStandings(r)' PROVE CoveredAt(r)'
    BY DEF Covered, CoveredAt
<1>4. CASE r = n
  <2>1. Field(heats'[r]) = {}
      BY <1>1, <1>3, <1>4, SlotsAreAll
  <2> QED  BY <2>1 DEF CoveredAt, Current
<1>5. CASE r \in Rounds
  <2>1. AwaitsStandings(r) /\ IsFed(r)
      BY <1>1, <1>2, <1>5 DEF AwaitsStandings, IsFed, Unraced
  <2>2. Current(r)
      BY <2>1, <1>2, <1>5, IdleIsCurrent
  <2> DEFINE t == source[r]
  <2>3. t \in Int /\ t # n /\ t' = t
    <3>1. t \in Int /\ (t > 0 => t < r) /\ n \in Nat /\ n > 0 /\ r < n
      <4>1. n \in Rounds' /\ Rounds' \subseteq Nat /\ Rounds' \subseteq 1..(IF race.rounds > Len(Plan) THEN race.rounds ELSE Len(Plan))'
          BY <1>1, RoundsAreFinite DEF IInv, Scalars
      <4> QED  BY <4>1, <1>1, <1>5 DEF IInv, Shape, Layers
    <3>2. r \in Int
        BY <1>5, RoundsAreFinite
    <3> QED  BY <3>1, <3>2, <1>1, <1>5
  <2> HIDE DEF t
  <2>4. {q \in Rounds : ~IsFed(q)} # {}
      BY <2>1, <1>5 DEF Layers
  <2>5. {q \in Rounds : ~IsFed(q)}' = {q \in Rounds : ~IsFed(q)}
      BY <1>0, <1>1 DEF IsFed
  <2>6. ScoredRounds(t)' = ScoredRounds(t)
    <3>1. {t} \cap Rounds' = {t} \cap Rounds
        BY <2>3, <1>1
    <3> QED  BY <3>1, <2>3, <2>4, <2>5 DEF ScoredRounds
  <2>7. \A p \in ScoredRounds(t) : Alike(heats[p], heats'[p])
    <3>1. ScoredRounds(t) \subseteq Rounds
        BY DEF ScoredRounds
    <3> QED  BY <3>1, <1>1 DEF Alike
  <2>8. Range(Winners(t)) \subseteq checkedIn'
    <3>1. Winners(t) \in Seq(checkedIn)
        BY <2>3, WinnersAdvanceOnce
    <3> QED  BY <3>1, <1>2 DEF Range
  <2>9. Range(Winners(t))' = Range(Winners(t))
      BY <2>3, <2>6, <2>7, <2>8, <1>2, WinnersStand
  <2>10. Field(heats'[r]) = Field(heats[r])
      BY <1>1, <1>5
  <2> QED  BY <2>2, <2>9, <2>10 DEF CoveredAt, Current, t
<1> QED  BY <1>1, <1>4, <1>5

\* A round that nobody has raced counts for nothing, and may go.
LEMMA CoveredByDelete ==
    ASSUME IInv, IInv', Settling, Covered, NEW p \in Rounds, DeleteRound(p)
    PROVE  Covered'
<1>1. /\ Rounds' = Rounds \ {p}
      /\ \A r \in Rounds' : source'[r] = source[r] /\ heats'[r] = heats[r]
      /\ Unraced(p) /\ (~IsFed(p) => \A r \in Rounds : ~IsFed(r))
      /\ Idle /\ pinned' = pinned \ {p}
      /\ UNCHANGED <<checkedIn, excluded, runOff, race>>
    BY DeletedRound
<1> SUFFICES ASSUME NEW r \in Rounds', AwaitsStandings(r)' PROVE CoveredAt(r)'
    BY DEF Covered, CoveredAt
<1>2. r \in Rounds /\ r # p /\ AwaitsStandings(r) /\ IsFed(r) /\ IsFed(p)
    BY <1>1 DEF AwaitsStandings, IsFed, Unraced
<1>3. Current(r) /\ Field(heats'[r]) = Field(heats[r])
    BY <1>1, <1>2, IdleIsCurrent
<1>4. ASSUME Field(heats[r]) # {} PROVE CoveredAt(r)'
  <2>1. p \notin ScoredRounds(source[r])
      BY <1>1, <1>2, <1>4, OpenFeedsNobody DEF Settling, Awaiting
  <2> DEFINE t == source[r]
  <2>2. t \in Int /\ t' = t
      BY <1>1, <1>2 DEF IInv, Shape
  <2>3. p \notin ScoredRounds(t)
      BY <2>1
  <2> HIDE DEF t
  <2>4. {q \in Rounds : ~IsFed(q)} # {}
      BY <1>2 DEF Settling, Layers
  <2>5. {q \in Rounds : ~IsFed(q)}' = {q \in Rounds : ~IsFed(q)}
    <3>1. \A q \in Rounds' : IsFed(q)' = IsFed(q)
        BY <1>1 DEF IsFed
    <3> QED  BY <3>1, <1>1, <1>2
  <2>6. ScoredRounds(t)' = ScoredRounds(t)
    <3>1. t # All => {t} \cap Rounds' = {t} \cap Rounds
        BY <2>3, <1>1 DEF ScoredRounds
    <3> QED  BY <3>1, <2>2, <2>4, <2>5 DEF ScoredRounds
  <2>7. \A q \in ScoredRounds(t) : Alike(heats[q], heats'[q])
    <3>1. ScoredRounds(t) \subseteq Rounds'
        BY <2>3, <1>1 DEF ScoredRounds
    <3> QED  BY <3>1, <1>1 DEF Alike
  <2>8. Range(Winners(t)) \subseteq checkedIn'
    <3>1. Winners(t) \in Seq(checkedIn)
        BY <2>2, WinnersAdvanceOnce
    <3> QED  BY <3>1, <1>1 DEF Range
  <2>9. Range(Winners(t))' = Range(Winners(t))
      BY <2>2, <2>6, <2>7, <2>8, <1>1, WinnersStand
  <2> QED  BY <1>3, <2>9 DEF CoveredAt, Current, t
<1> QED  BY <1>3, <1>4 DEF CoveredAt, Current

\* Where one round is drawn, picked, handed back or filled, the others stand.
LEMMA CoveredByOne ==
    ASSUME IInv, IInv', Idle, Settling, Covered, UNCHANGED <<source, checkedIn, excluded, runOff, race>>,
           NEW p \in Rounds, \A q \in Rounds \ {p} : heats'[q] = heats[q],
           pinned' \ {p} = pinned \ {p},
           Alike(heats[p], heats'[p]) \/ (IsFed(p) /\ Unraced(p)),
           AwaitsStandings(p)' => CoveredAt(p)'
    PROVE  Covered'
<1> SUFFICES ASSUME NEW r \in Rounds, AwaitsStandings(r)', r # p PROVE CoveredAt(r)'
    BY DEF Covered, CoveredAt, Rounds
<1>1. AwaitsStandings(r) /\ heats'[r] = heats[r]
  <2>1. r \in pinned <=> r \in pinned'
      OBVIOUS
  <2> QED  BY <2>1 DEF AwaitsStandings, IsFed, Unraced
<1>2. IsFed(p) /\ Unraced(p) => (Awaiting(r) => p \notin ScoredRounds(source[r]))
    BY OpenFeedsNobody DEF Settling
<1> QED  BY <1>1, <1>2, OthersStand

\* A round that is redrawn holds nobody, or the same cars.
LEMMA CoveredByRegenerate ==
    ASSUME IInv, IInv', Claimed, Settling, Covered, NEW p \in Rounds, RegenerateRound(p)
    PROVE  Covered'
<1>1. /\ Idle /\ Unraced(p) /\ UNCHANGED <<source, pinned, checkedIn, excluded, runOff, race>>
      /\ heats' = [heats EXCEPT ![p] = IF IsFed(p) THEN SlotsRebuilt(@) ELSE RosterRebuilt(@)]
    BY DEF RegenerateRound, Unraced
<1>2. heats \in [Rounds -> Seq(Heat)] /\ World
    BY InvariantIsWorld DEF IInv, Shape
<1>3. /\ \A q \in Rounds \ {p} : heats'[q] = heats[q]
      /\ heats'[p] = IF IsFed(p) THEN SlotsRebuilt(heats[p]) ELSE RosterRebuilt(heats[p])
    BY <1>1, <1>2
<1>4. CASE IsFed(p)
  <2>1. Field(heats'[p]) = {}
      BY <1>2, <1>3, <1>4, SlotsAreAll
  <2>2. CoveredAt(p)'
      BY <2>1 DEF CoveredAt, Current
  <2> QED  BY <2>2, <1>1, <1>3, <1>4, CoveredByOne
<1>5. CASE ~IsFed(p)
  <2>1. "outage" \notin race.uses
      BY DEF RegenerateRound, Claimed, Layered, Without
  <2>2. checkedIn \subseteq Field(heats[p])
      BY <2>1, <1>5 DEF Settling, Crewed
  <2>3. Alike(heats[p], heats'[p])
      BY <2>2, <1>1, <1>3, <1>5, RedrawnIsAlike
  <2>4. ~AwaitsStandings(p)'
      BY <1>1, <1>5 DEF AwaitsStandings, IsFed
  <2> QED  BY <2>3, <2>4, <1>1, <1>3, CoveredByOne
<1> QED  BY <1>4, <1>5

\* A round picked by hand does not wait for the standings.
LEMMA CoveredByPin ==
    ASSUME IInv, IInv', Settling, Covered, NEW p \in Rounds, NEW picks \in Picks, PinRoundField(p, picks)
    PROVE  Covered'
<1>1. /\ Idle /\ IsFed(p) /\ Unraced(p) /\ UNCHANGED <<source, checkedIn, excluded, runOff, race>>
      /\ \E new : heats' = [heats EXCEPT ![p] = new]
      /\ pinned' = pinned \cup {p}
    BY DEF PinRoundField, Unraced
<1>2. \A q \in Rounds \ {p} : heats'[q] = heats[q]
    BY <1>1 DEF IInv, Shape
<1>3. ~AwaitsStandings(p)' /\ pinned' \ {p} = pinned \ {p}
    BY <1>1 DEF AwaitsStandings
<1> QED  BY <1>1, <1>2, <1>3, CoveredByOne

\* A round that is handed back to the standings is drawn again.
LEMMA CoveredByUnpin ==
    ASSUME IInv, IInv', Settling, Covered, NEW p \in Rounds, UnpinRoundField(p)
    PROVE  Covered'
<1>1. /\ Idle /\ UNCHANGED <<source, heats, checkedIn, excluded, runOff, race>>
      /\ pinned' = pinned \ {p}
      /\ MayRebuild(heats[p]) => todo' = <<Step("reset", p), Step("fill", p)>>
    BY DEF UnpinRoundField
<1>2. Alike(heats[p], heats'[p]) /\ pinned' \ {p} = pinned \ {p}
    BY <1>1 DEF Alike
<1>3. ASSUME AwaitsStandings(p)' PROVE CoveredAt(p)'
  <2>1. todo' = <<Step("reset", p), Step("fill", p)>>
      BY <1>1, <1>3 DEF AwaitsStandings, Unraced
  <2>2. 1 \in DOMAIN todo' /\ todo'[1] = Step("reset", p)
      BY <2>1
  <2>3. Pending("reset", p)'
      BY <2>2 DEF Pending, Step
  <2> QED  BY <2>3 DEF CoveredAt
<1> QED  BY <1>1, <1>2, <1>3, CoveredByOne

\* A round that is advanced by hand gets those who advance.
LEMMA CoveredByAdvance ==
    ASSUME IInv, IInv', Apt, Claimed, Settling, Covered, NEW p \in Rounds, AdvanceRound(p)
    PROVE  Covered'
<1>1. /\ Idle /\ IsFed(p) /\ UNCHANGED <<source, pinned, checkedIn, excluded, runOff, race>>
      /\ heats' = [heats EXCEPT ![p] = Populated(@, Winners(source[p]))]
    BY DEF AdvanceRound
<1>2. heats \in [Rounds -> Seq(Heat)] /\ World /\ race \in Races
    BY InvariantIsWorld DEF IInv, Shape
<1>3. /\ \A q \in Rounds \ {p} : heats'[q] = heats[q]
      /\ heats'[p] = Populated(heats[p], Winners(source[p]))
    BY <1>1, <1>2
<1>4. heats'[p] = heats[p] \/ Field(heats'[p]) = Range(Winners(source[p]))
    BY <1>3, FillingFields DEF Settling
<1>5. CASE Unraced(p)
  <2>1. AwaitsStandings(p)' => AwaitsStandings(p)
      BY <1>1, <1>5 DEF AwaitsStandings, IsFed
  <2>2. AwaitsStandings(p)' => CoveredAt(p)'
      BY <2>1, <1>1, <1>3, <1>4, OneStands DEF Settling
  <2> QED  BY <2>2, <1>1, <1>3, <1>5, CoveredByOne
<1>6. CASE ~Unraced(p)
  <2>1. heats[p] \in Seq(Heat) /\ Settled(heats[p]) /\ Sound(heats[p])
      BY ClaimedIsApt DEF IInv, Shape
  <2>2. Fielded(heats[p])
      BY <2>1, <1>2, <1>6, WaitingFacts DEF Sound, Unraced
  <2>3. Winners(source[p]) \in Seq(checkedIn) /\ Apart(Winners(source[p])) /\ checkedIn \in SUBSET Racers
      BY <1>2, WinnersAreApart DEF World
  <2>4. heats'[p] = heats[p]
      BY <2>1, <2>2, <2>3, <1>2, <1>3, PopulatedPlaces
  <2>5. Alike(heats[p], heats'[p]) /\ ~AwaitsStandings(p)'
      BY <2>4, <1>6 DEF Alike, AwaitsStandings, Unraced
  <2> QED  BY <2>5, <1>1, <1>3, CoveredByOne
<1> QED  BY <1>5, <1>6

\* Nothing happens.
LEMMA CoveredByNothing == ASSUME IInv, IInv', Covered, UNCHANGED vars PROVE Covered'
<1>1. UNCHANGED <<source, pinned, heats, checkedIn, excluded, runOff, todo, race>>
    BY DEF vars
<1> SUFFICES ASSUME NEW r \in Rounds, AwaitsStandings(r)' PROVE CoveredAt(r)'
    BY <1>1 DEF Covered, CoveredAt, Rounds
<1>2. AwaitsStandings(r) /\ CoveredAt(r)
    BY <1>1 DEF Covered, AwaitsStandings, IsFed, Unraced
<1>3. Alike(heats[r], heats'[r])
    BY <1>1 DEF Alike
<1>4. Range(Winners(source[r]))' = Range(Winners(source[r]))
    BY <1>1, <1>3, FeedersStand
<1>5. \A do : Pending(do, r)' <=> Pending(do, r)
    BY <1>1 DEF Pending, Step
<1>6. Current(r)' <=> Current(r)
    BY <1>1, <1>4 DEF Current, Field, Participants
<1>7. (~(Field(heats[r]) \subseteq checkedIn))' <=> ~(Field(heats[r]) \subseteq checkedIn)
    BY <1>1 DEF Field, Participants
<1> QED  BY <1>2, <1>5, <1>6, <1>7 DEF CoveredAt

\* A line-up is that of the standings, or will be drawn again: step by step.
LEMMA CoveredKept ==
    ASSUME IInv, Fitting, Apt, Claimed, Settling, Covered, [Next]_vars
    PROVE  Covered'
<1>1. IInv'
    BY StepsKeep
<1>2. CASE Settle
    BY <1>2, CoveredBySettle
<1>3. ~Crash
    BY DEF Crash, Claimed, Without
<1>4. ASSUME NEW r \in Rounds, RoundRequest(r) PROVE Covered'
  <2>1. ASSUME NEW i \in DOMAIN heats[r], NEW out, RecordHeatResult(r, i, out) PROVE Covered'
      BY <2>1, <1>1, CoveredByResult
  <2>2. ~\E i \in DOMAIN heats[r] : DeleteHeat(r, i)
      BY DEF DeleteHeat, Claimed, Layered, Without
  <2>3. DeleteRound(r) => Covered'
      BY <1>1, CoveredByDelete
  <2>4. RegenerateRound(r) => Covered'
      BY <1>1, CoveredByRegenerate
  <2>5. ASSUME NEW picks \in Picks, PinRoundField(r, picks) PROVE Covered'
      BY <2>5, <1>1, CoveredByPin
  <2>6. UnpinRoundField(r) => Covered'
      BY <1>1, CoveredByUnpin
  <2>7. AdvanceRound(r) => Covered'
      BY <1>1, CoveredByAdvance
  <2> QED  BY <1>4, <2>1, <2>2, <2>3, <2>4, <2>5, <2>6, <2>7 DEF RoundRequest
<1>5. ASSUME NEW q \in race.movers, CheckIn(q) \/ SetExcluded(q) PROVE Covered'
  <2>1. CheckIn(q)
      BY <1>5 DEF SetExcluded, Claimed, Without
  <2> QED  BY <2>1, <1>1, CoveredByCheckIn
<1>6. ASSUME NEW s \in race.offered, CreateRound(s) PROVE Covered'
    BY <1>1, <1>6, CoveredByCreate DEF Settling
<1>7. RecordRunOff => Covered'
    BY <1>1, CoveredByRunOff
<1>8. ASSUME NEW lanes, SetLaneOutages(lanes) PROVE Covered'
    BY <1>8, CoveredByOutages
<1>9. UNCHANGED vars => Covered'
    BY <1>1, CoveredByNothing
<1> QED  BY <1>2, <1>3, <1>4, <1>5, <1>6, <1>7, <1>8, <1>9 DEF Next

-----------------------------------------------------------------------------
(* A final that holds racers draws on rounds that are done.                *)

\* Steps of some kinds only.
Asks(D) == {step \in [do : Dos, round : Nat] : step.do \in D}

\* The steps for some rounds are of their kind.
LEMMA StepsAsk ==
    ASSUME IInv, NEW D, NEW do \in Dos, do \in D, NEW S \in SUBSET Rounds
    PROVE  Steps(do, S) \in Seq(Asks(D))
<1>1. Steps(do, S) \in Seq({Step(do, r) : r \in S})
    BY StepsFacts
<1>2. ASSUME NEW r \in S PROVE Step(do, r) \in Asks(D)
  <2>1. r \in Nat
      BY RoundsAreFinite
  <2> QED  BY <2>1 DEF Asks, Step
<1>3. {Step(do, r) : r \in S} \subseteq Asks(D)
    BY <1>2
<1> HIDE DEF Asks
<1> QED  BY <1>1, <1>3

\* What a request may leave to be done.
Mending == {"reset", "trigger", "fill"}

\* What a request leaves to be done, other than the one for an outage.
LEMMA WhatIsAsked ==
    ASSUME IInv, Claimed, [Next]_vars
    PROVE  \/ Settle
           \/ todo' = todo
           \/ \E lanes : SetLaneOutages(lanes)
           \/ todo' \in Seq(Asks(Mending))
           \/ "withdraw" \in race.uses /\ todo' \in Seq(Asks({"withdraw", "admit"}))
<1> DEFINE Goal == \/ Settle
                   \/ todo' = todo
                   \/ \E lanes : SetLaneOutages(lanes)
                   \/ todo' \in Seq(Asks(Mending))
                   \/ "withdraw" \in race.uses /\ todo' \in Seq(Asks({"withdraw", "admit"}))
<1>1. /\ \A do \in Mending : do \in Dos
      /\ \A do \in Mending, r \in Rounds : Step(do, r) \in Asks(Mending)
  <2>1. Rounds \subseteq Nat
      BY RoundsAreFinite
  <2> QED  BY <2>1 DEF Mending, Dos, Asks, Step
<1>2. \A do \in Mending : \A S \in SUBSET Rounds : Steps(do, S) \in Seq(Asks(Mending))
    BY <1>1, StepsAsk
<1>3. \A s \in Seq(Asks(Mending)), t \in Seq(Asks(Mending)) : s \o t \in Seq(Asks(Mending))
    OBVIOUS
<1>4. {"reset", "trigger", "fill"} = Mending /\ \A c : RoundsToInvalidate(c) \in SUBSET Rounds
    BY DEF Mending, RoundsToInvalidate
<1>5. ASSUME NEW r \in Rounds, NEW i, NEW out, RecordHeatResult(r, i, out) PROVE Goal
  <2>1. todo' = Steps("reset", RoundsToInvalidate(r)) \o <<Step("trigger", r)>>
      BY <1>5 DEF RecordHeatResult, Cascade
  <2>2. Steps("reset", RoundsToInvalidate(r)) \in Seq(Asks(Mending))
      BY <1>2, <1>4
  <2>3. <<Step("trigger", r)>> \in Seq(Asks(Mending))
    <3>1. Step("trigger", r) \in Asks(Mending)
        BY <1>1, <1>4
    <3> QED  BY <3>1
  <2> QED  BY <2>1, <2>2, <2>3, <1>3
<1>6. ASSUME RecordRunOff PROVE Goal
  <2>1. todo' = Steps("reset", RoundsToInvalidate(0)) \o Steps("fill", Rounds)
      BY <1>6 DEF RecordRunOff, RunOffCascade
  <2>2. Steps("reset", RoundsToInvalidate(0)) \in Seq(Asks(Mending)) /\ Steps("fill", Rounds) \in Seq(Asks(Mending))
      BY <1>2, <1>4
  <2> QED  BY <2>1, <2>2, <1>3
<1>7. ASSUME NEW s, NEW r \in Nat, todo' = AskToFill(s, r) PROVE Goal
  <2>1. <<>> \in Seq(Asks(Mending)) /\ <<Step("fill", r)>> \in Seq(Asks(Mending))
      BY DEF Asks, Mending, Dos, Step
  <2> QED  BY <2>1, <1>7 DEF AskToFill
<1>8. ASSUME NEW r \in Rounds, UnpinRoundField(r) PROVE Goal
  <2>1. todo' = <<>> \/ todo' = <<Step("reset", r), Step("fill", r)>>
      BY <1>8 DEF UnpinRoundField
  <2>2. Step("reset", r) \in Asks(Mending) /\ Step("fill", r) \in Asks(Mending)
      BY <1>1, <1>4
  <2>3. <<>> \in Seq(Asks(Mending)) /\ <<Step("reset", r), Step("fill", r)>> \in Seq(Asks(Mending))
      BY <2>2
  <2> QED  BY <2>1, <2>3
<1>9. ASSUME NEW q, CheckIn(q) PROVE Goal
  <2>1. /\ todo' = Steps("withdraw", Rounds) \o Steps("admit", {r \in Rounds : ~IsFed(r)})
        /\ "withdraw" \in race.uses
      BY <1>9 DEF CheckIn, Claimed, Without
  <2> DEFINE D == {"withdraw", "admit"}
  <2>2. "withdraw" \in Dos /\ "admit" \in Dos /\ {r \in Rounds : ~IsFed(r)} \in SUBSET Rounds
        /\ Rounds \in SUBSET Rounds /\ "withdraw" \in D /\ "admit" \in D
      BY DEF Dos
  <2> HIDE DEF D
  <2>3. Steps("withdraw", Rounds) \in Seq(Asks(D)) /\ Steps("admit", {r \in Rounds : ~IsFed(r)}) \in Seq(Asks(D))
      BY <2>2, StepsAsk
  <2>4. todo' \in Seq(Asks(D))
      BY <2>1, <2>3
  <2> QED  BY <2>1, <2>4 DEF D
<1>10. ASSUME NEW r \in Rounds, RoundRequest(r) PROVE Goal
  <2>1. r \in Nat
      BY RoundsAreFinite
  <2>2. RegenerateRound(r) => todo' = AskToFill(source[r], r)
      BY DEF RegenerateRound
  <2>3. (\E i \in DOMAIN heats[r] : DeleteHeat(r, i)) \/ DeleteRound(r) \/ AdvanceRound(r)
        \/ (\E picks \in Picks : PinRoundField(r, picks)) => todo' = todo
      BY DEF DeleteHeat, DeleteRound, AdvanceRound, PinRoundField
  <2>4. RegenerateRound(r) => Goal
      BY <2>1, <2>2, <1>7
  <2> HIDE DEF Goal
  <2>5. todo' = todo => Goal
      BY DEF Goal
  <2> QED  BY <1>10, <1>5, <1>8, <2>3, <2>4, <2>5 DEF RoundRequest
<1>11. ASSUME NEW s \in race.offered, CreateRound(s) PROVE Goal
  <2>1. todo' = AskToFill(s, NextNumber) /\ NextNumber \in Nat
      BY <1>11, NextNumberIsNew DEF CreateRound
  <2> QED  BY <2>1, <1>7
<1>12. Crash => Goal
  <2>1. <<>> \in Seq(Asks(Mending))
      OBVIOUS
  <2> QED  BY <2>1 DEF Crash
<1>13. ASSUME NEW q, SetExcluded(q) PROVE Goal
    BY <1>13 DEF SetExcluded
<1>14. ASSUME NEW lanes, SetLaneOutages(lanes) PROVE Goal
    BY <1>14
<1>15. UNCHANGED vars => Goal
    BY DEF vars
<1>16. Settle => Goal
    OBVIOUS
<1> HIDE DEF Goal
<1>17. Goal
    BY <1>6, <1>9, <1>10, <1>11, <1>12, <1>13, <1>14, <1>15, <1>16 DEF Next
<1> QED  BY <1>17 DEF Goal

\* A final that is raced stays raced where finals are not cleared.
LEMMA FinalsStayRaced ==
    ASSUME IInv, Claimed, [Next]_vars, NEW r \in Rounds, IsFed(r), r \in Rounds', MayRebuild(heats'[r])
    PROVE  Unraced(r)
<1> SUFFICES ASSUME NEW i \in DOMAIN heats[r], IsResult(heats[r][i].out) PROVE FALSE
    BY DEF Unraced, MayRebuild
<1>1. heats[r][i] \in Range(heats'[r]) \/ \E out \in Outcomes : RecordHeatResult(r, i, out)
    BY StepsKeep
<1>2. CASE heats[r][i] \in Range(heats'[r])
  <2>1. PICK j \in DOMAIN heats'[r] : heats'[r][j] = heats[r][i]
      BY <1>2 DEF Range
  <2> QED  BY <2>1 DEF MayRebuild
<1>3. ASSUME NEW out, RecordHeatResult(r, i, out) PROVE FALSE
  <2>1. IsResult(out)
      BY <1>3 DEF RecordHeatResult, Claimed, Without
  <2>2. heats[r] \in Seq(Heat) /\ heats \in [Rounds -> Seq(Heat)] /\ heats[r][i] \in Heat
      BY DEF IInv, Shape
  <2>3. heats'[r] = [heats[r] EXCEPT ![i].out = out]
      BY <1>3, <2>2 DEF RecordHeatResult
  <2>4. i \in DOMAIN heats'[r] /\ heats'[r][i].out = out
      BY <2>2, <2>3 DEF Heat
  <2> QED  BY <2>1, <2>4 DEF MayRebuild
<1> QED  BY <1>1, <1>2, <1>3

\* How a final that nobody has raced changes, where it is filled only when it is ripe.
FinalChanges(r) ==
    \/ heats'[r] = heats[r]
    \/ Field(heats'[r]) = {} /\ Unrun(heats'[r])
    \/ /\ heats'[r] = Populated(heats[r], Winners(source[r]))
       /\ Pending("advance", r) \/ Decided(r)
    \/ \E i \in DOMAIN heats[r] : \E out : RecordHeatResult(r, i, out)

\* No step changes an unraced final in any other way.
LEMMA FinalsChange ==
    ASSUME IInv, Fitting, Apt, Claimed, Untaken, pinned = {}, Crewed, Swept, Enough, [Next]_vars,
           NEW r \in Rounds, r \in Rounds', IsFed(r), Unraced(r)
    PROVE  FinalChanges(r)
<1>1. World /\ heats[r] \in Seq(Heat) /\ heats \in [Rounds -> Seq(Heat)]
    BY InvariantIsWorld DEF IInv, Shape
<1>2. heats'[r] = heats[r] => FinalChanges(r)
    BY DEF FinalChanges
<1>3. heats'[r] = ResetToSlots(heats[r], race.size) \/ heats'[r] = SlotsRebuilt(heats[r]) => FinalChanges(r)
    BY <1>1, SlotsAreAll DEF FinalChanges
<1>4. CASE Settle
  <2>1. ~Idle /\ \E do \in Dos : \E p \in Rounds : \E more \in Seq(Request) :
              Head(todo) = Step(do, p) /\ Moved(do, p, more)
      BY <1>4, SettleMoves
  <2>2. PICK do \in Dos : \E p \in Rounds : \E more \in Seq(Request) :
              Head(todo) = Step(do, p) /\ Moved(do, p, more)
      BY <2>1
  <2>3. PICK p \in Rounds : \E more \in Seq(Request) : Head(todo) = Step(do, p) /\ Moved(do, p, more)
      BY <2>2
  <2>4. PICK more \in Seq(Request) : Head(todo) = Step(do, p) /\ Moved(do, p, more)
      BY <2>3
  <2>5. r # p => FinalChanges(r)
      BY <2>4, <1>2 DEF Moved
  <2>6. CASE r = p
    <3>1. Outcome(do, r, more)
        BY <2>4, <2>6 DEF Moved
    <3>2. 1 \in DOMAIN todo /\ todo[1] = Step(do, r)
        BY <2>1, <2>4, <2>6 DEF Idle, IInv, Shape
    <3>3. do = "advance" => Pending("advance", r)
        BY <3>2 DEF Pending
    <3>4. CASE heats'[r] = Populated(heats[r], Winners(source[r])) /\ do \in {"fill", "advance"}
               /\ (do = "fill" => Decided(r))
        BY <3>3, <3>4 DEF FinalChanges
    <3>5. \/ heats'[r] = heats[r]
          \/ heats'[r] = ResetToSlots(heats[r], race.size) \/ heats'[r] = SlotsRebuilt(heats[r])
          \/ heats'[r] = Populated(heats[r], Winners(source[r])) /\ do \in {"fill", "advance"}
             /\ (do = "fill" => Decided(r))
        BY <3>1 DEF Outcome
    <3> QED  BY <3>4, <3>5, <1>2, <1>3
  <2> QED  BY <2>5, <2>6
<1>5. ASSUME NEW p \in Rounds, RoundRequest(p) PROVE FinalChanges(r)
  <2>1. ASSUME p # r PROVE heats'[r] = heats[r]
    <3>1. CASE DeleteRound(p)
        BY <3>1, DeletedRound
    <3>2. CASE ~DeleteRound(p)
      <4>1. (\E new : heats' = [heats EXCEPT ![p] = new]) \/ heats' = heats
        <5>1. ASSUME NEW i \in DOMAIN heats[p], NEW out, RecordHeatResult(p, i, out)
              PROVE  heats' = [heats EXCEPT ![p] = [heats[p] EXCEPT ![i].out = out]]
            BY <5>1, <1>1 DEF RecordHeatResult
        <5>2. ASSUME NEW i \in DOMAIN heats[p], DeleteHeat(p, i)
              PROVE  \E new : heats' = [heats EXCEPT ![p] = new]
            BY <5>2 DEF DeleteHeat
        <5>3. RegenerateRound(p) => \E new : heats' = [heats EXCEPT ![p] = new]
            BY DEF RegenerateRound
        <5>4. ASSUME NEW picks \in Picks, PinRoundField(p, picks)
              PROVE  \E new : heats' = [heats EXCEPT ![p] = new]
            BY <5>4 DEF PinRoundField
        <5>5. AdvanceRound(p) => \E new : heats' = [heats EXCEPT ![p] = new]
            BY DEF AdvanceRound
        <5>6. UnpinRoundField(p) => heats' = heats
            BY DEF UnpinRoundField
        <5> QED  BY <5>1, <5>2, <5>3, <5>4, <5>5, <5>6, <3>2, <1>5 DEF RoundRequest
      <4> QED  BY <4>1, <2>1, <1>1
    <3> QED  BY <3>1, <3>2
  <2>2. CASE p = r
    <3>1. ~DeleteRound(r)
        BY DeletedRound
    <3>2. ~(\E i \in DOMAIN heats[r] : DeleteHeat(r, i)) /\ ~(\E picks \in Picks : PinRoundField(r, picks))
          /\ ~AdvanceRound(r) /\ ~UnpinRoundField(r)
        BY DEF DeleteHeat, PinRoundField, AdvanceRound, UnpinRoundField, Claimed, Layered, Untaken, Without
    <3>3. RegenerateRound(r) => heats'[r] = SlotsRebuilt(heats[r])
        BY <1>1 DEF RegenerateRound
    <3>4. (\E i \in DOMAIN heats[r] : \E out : RecordHeatResult(r, i, out)) => FinalChanges(r)
        BY DEF FinalChanges
    <3> QED  BY <1>3, <1>5, <2>2, <3>1, <3>2, <3>3, <3>4 DEF RoundRequest
  <2> QED  BY <2>1, <2>2, <1>2
<1>6. ASSUME NEW s \in race.offered, CreateRound(s) PROVE FinalChanges(r)
  <2>1. s # General
      BY <1>6 DEF CreateRound, Claimed, Layered
  <2> QED  BY <1>2, <1>6, <2>1, CreatedRound
<1>7. Crash \/ RecordRunOff \/ (\E q \in race.movers : CheckIn(q) \/ SetExcluded(q))
      \/ (\E lanes : SetLaneOutages(lanes)) \/ UNCHANGED vars => heats' = heats
    BY DEF Crash, RecordRunOff, CheckIn, SetExcluded, SetLaneOutages, vars
<1>8. heats' = heats => FinalChanges(r)
    BY <1>2
<1>9. (Settle \/ \E p \in Rounds : RoundRequest(p)) => FinalChanges(r)
    BY <1>4, <1>5
<1>10. FinalChanges(r)
    BY <1>6, <1>7, <1>8, <1>9 DEF Next
<1> QED  BY <1>10

\* Filling runs no heat.
LEMMA PopulatedIsUnrun ==
    ASSUME World, NEW hs \in Seq(Heat), Unrun(hs), Sound(hs), NEW field \in Seq(Racers)
    PROVE  Unrun(Populated(hs, field))
<1>1. Manned(Populated(hs, field))
    BY PopulatedIsManned DEF Unrun
<1>2. race \in Races /\ race.runs \in Nat \ {0} /\ field \in Seq(Seats) /\ Racers \in SUBSET Racers
  <2>1. Racers \subseteq Seats
      BY SeatFacts DEF World
  <2> QED  BY <2>1, RaceFacts DEF World
<1>3. \A i \in DOMAIN Rebuilt(hs, race.runs, field) : Rebuilt(hs, race.runs, field)[i].out = NotRun
  <2>1. Fresh(Rebuilt(hs, race.runs, field))
      BY <1>2, RebuiltIsFresh
  <2> QED  BY <2>1 DEF Fresh
<1>4. \A i \in DOMAIN Resolved(hs, field) : Resolved(hs, field)[i].out = NotRun
  <2>1. /\ DOMAIN Resolved(hs, field) = DOMAIN hs
        /\ \A i \in DOMAIN hs : Resolved(hs, field)[i].out = hs[i].out
      BY <1>2, ResolvedFacts
  <2> QED  BY <2>1 DEF Unrun
<1>5. \A i \in DOMAIN Populated(hs, field) : Populated(hs, field)[i].out = NotRun
    BY <1>3, <1>4 DEF Populated, Unrun
<1> QED  BY <1>1, <1>5 DEF Unrun

\* The rounds there are stay what they are, or are deleted.
LEMMA RoundsStand ==
    ASSUME IInv, Claimed, [Next]_vars
    PROVE  /\ \A r \in Rounds \cap Rounds' : source'[r] = source[r]
           /\ \A r \in Rounds \ Rounds' : DeleteRound(r)
<1>1. CASE source' = source
    BY <1>1 DEF Rounds
<1>2. ASSUME NEW s \in race.offered, CreateRound(s), s # General
      PROVE  Rounds \subseteq Rounds' /\ \A r \in Rounds : source'[r] = source[r]
    BY <1>2, CreatedRound
<1>3. ASSUME NEW p \in Rounds, DeleteRound(p)
      PROVE  Rounds' = Rounds \ {p} /\ \A r \in Rounds' : source'[r] = source[r]
    BY <1>3, DeletedRound
<1> QED  BY <1>1, <1>2, <1>3, FrameStands

\* Once a final may be filled, it may.
LEMMA OpenedStays ==
    ASSUME IInv, Claimed, [Next]_vars, NEW r \in Rounds, r \in Rounds', IsFed(r), Opened(r)
    PROVE  Opened(r)'
<1> DEFINE s == source[r]
<1>1. source'[r] = s /\ \A p \in Rounds \cap Rounds' : source'[p] = source[p]
    BY RoundsStand
<1>2. Opened(r)' <=> \/ s = All
                     \/ s \in Rounds' /\ source'[s] = General
                     \/ s \in Rounds' /\ ~MayRebuild(heats'[s])
    BY <1>1 DEF Opened, Preliminary, IsFed, Unraced
<1>3. s = All \/ (s \in Rounds /\ (~IsFed(s) \/ ~Unraced(s)))
    BY DEF Opened, Preliminary
<1>4. ASSUME s \in Rounds, ~IsFed(s) \/ ~Unraced(s)
      PROVE  s \in Rounds' /\ (source'[s] = General \/ ~MayRebuild(heats'[s]))
  <2>1. s \in Rounds'
    <3>1. s \notin Rounds' => DeleteRound(s)
        BY <1>4, RoundsStand
    <3>2. DeleteRound(s) => Unraced(s) /\ (~IsFed(s) => ~IsFed(r))
        BY <1>4, DeletedRound
    <3> QED  BY <3>1, <3>2, <1>4
  <2>2. CASE ~IsFed(s)
      BY <2>1, <2>2, <1>1, <1>4 DEF IsFed
  <2>3. CASE IsFed(s) /\ ~Unraced(s)
      BY <2>1, <2>3, <1>4, FinalsStayRaced
  <2> QED  BY <2>1, <2>2, <2>3, <1>4
<1> HIDE DEF s
<1> QED  BY <1>2, <1>3, <1>4

\* Where all that is left is of some kinds, so is each of it.
LEMMA PendingAsked ==
    ASSUME NEW D, todo' \in Seq(Asks(D)), NEW do, NEW r, Pending(do, r)'
    PROVE  do \in D
<1>1. PICK i \in DOMAIN todo' : todo'[i] = Step(do, r)
    BY DEF Pending, Step
<1>2. todo'[i] \in Asks(D)
    OBVIOUS
<1> QED  BY <1>1, <1>2 DEF Asks, Step

\* Only a final that holds racers is asked to be filled before it is ripe.
LEMMA AdvanceAsked ==
    ASSUME IInv, Fitting, Apt, Claimed, Crewed, Swept, Enough, [Next]_vars,
           NEW r \in Rounds, Pending("advance", r)'
    PROVE  Pending("advance", r) \/ (AwaitsStandings(r) /\ Field(heats[r]) # {})
<1>1. CASE Settle
  <2>1. ~Idle /\ \E do \in Dos : \E p \in Rounds : \E more \in Seq(Request) :
              Head(todo) = Step(do, p) /\ Moved(do, p, more)
      BY <1>1, SettleMoves
  <2>2. PICK do \in Dos : \E p \in Rounds : \E more \in Seq(Request) :
              Head(todo) = Step(do, p) /\ Moved(do, p, more)
      BY <2>1
  <2>3. PICK p \in Rounds : \E more \in Seq(Request) : Head(todo) = Step(do, p) /\ Moved(do, p, more)
      BY <2>2
  <2>4. PICK more \in Seq(Request) : Head(todo) = Step(do, p) /\ Moved(do, p, more)
      BY <2>3
  <2>5. Pending("advance", r) \/ \E i \in DOMAIN more : more[i] = Step("advance", r)
    <3>1. todo' = more \o Tail(todo)
        BY <2>4 DEF Moved
    <3>2. Pending("advance", r)' =>
             Pending("advance", r) \/ \E i \in DOMAIN more : more[i] = Step("advance", r)
        BY <2>1, <3>1, PendingStays
    <3> QED  BY <3>2
  <2>6. ASSUME NEW i \in DOMAIN more, more[i] = Step("advance", r)
        PROVE  AwaitsStandings(r) /\ Field(heats[r]) # {}
    <3>1. more[i].do = "advance" /\ more[i].round = r /\ more # <<>>
        BY <2>6 DEF Step
    <3>2. more = Redo(p) /\ AwaitsStandings(p) /\ Field(heats[p]) # {}
        BY <2>4, <3>1 DEF Moved, Outcome
    <3>3. r = p
        BY <3>1, <3>2 DEF Redo, Step
    <3> QED  BY <3>2, <3>3
  <2> QED  BY <2>5, <2>6
<1>2. todo' = todo => Pending("advance", r)
    BY DEF Pending, Step
<1>3. ASSUME NEW lanes, SetLaneOutages(lanes) PROVE FALSE
  <2>1. todo' = Steps("outage", {p \in Rounds : heats[p] # <<>>})
      BY <1>3 DEF SetLaneOutages
  <2>2. "outage" \in Dos /\ "outage" \in {"outage"} /\ {p \in Rounds : heats[p] # <<>>} \in SUBSET Rounds
      BY DEF Dos
  <2>3. todo' \in Seq(Asks({"outage"}))
      BY <2>1, <2>2, StepsAsk
  <2> QED  BY <2>3, PendingAsked
<1>4. ~(todo' \in Seq(Asks(Mending)))
    BY PendingAsked DEF Mending
<1>5. ~(todo' \in Seq(Asks({"withdraw", "admit"})))
    BY PendingAsked
<1> QED  BY <1>1, <1>2, <1>3, <1>4, <1>5, WhatIsAsked

\* A round that is done was raced, where no heat is passed over.
LEMMA DecidedIsOpened ==
    ASSUME IInv, Taken, Untaken, NEW r \in Rounds, IsFed(r), Decided(r)
    PROVE  Opened(r)
<1>1. CASE source[r] = All
    BY <1>1 DEF Opened, Preliminary
<1>2. CASE source[r] # All
  <2>1. source[r] \in Rounds /\ HeatsComplete(heats[source[r]])
      BY <1>2 DEF Decided, RoundComplete
  <2>2. ASSUME IsFed(source[r]), Unraced(source[r]) PROVE FALSE
    <3>1. Unrun(heats[source[r]]) /\ heats[source[r]] \in Seq(Heat)
        BY <2>1, <2>2 DEF Taken, IInv, Shape
    <3>2. Fresh(heats[source[r]]) /\ Manned(heats[source[r]])
        BY <3>1 DEF Unrun, Fresh
    <3> QED  BY <3>2, <2>1, FreshIsIncomplete
  <2> QED  BY <2>1, <2>2 DEF Opened, Preliminary
<1> QED  BY <1>1, <1>2

\* Where nobody advances early, a heat that is run is raced.
LEMMA RunIsRaced ==
    ASSUME IInv, Untaken, NEW r \in Rounds, Unrun(heats[r]), NEW i \in DOMAIN heats[r], NEW out,
           RecordHeatResult(r, i, out)
    PROVE  ~MayRebuild(heats'[r])
<1>1. heats[r] \in Seq(Heat) /\ heats \in [Rounds -> Seq(Heat)] /\ heats[r][i] \in Heat
    BY DEF IInv, Shape
<1>2. heats'[r] = [heats[r] EXCEPT ![i].out = out]
    BY <1>1 DEF RecordHeatResult
<1>3. i \in DOMAIN heats'[r] /\ heats'[r][i].out = out
    BY <1>1, <1>2 DEF Heat
<1>4. out \in {NotRun, Skipped, Partial} \cup Racers /\ out # NotRun
    BY DEF RecordHeatResult, Unrun
<1>5. out # Skipped
    BY DEF RecordHeatResult, Untaken, Without
<1> QED  BY <1>3, <1>4, <1>5 DEF MayRebuild, IsResult

\* A final that holds racers draws on what is raced, and stays so.
LEMMA TakenKept ==
    ASSUME IInv, Fitting, Apt, Claimed, Settling, [Next]_vars
    PROVE  Taken'
<1>1. IInv' /\ Forms /\ race' = race /\ race \in Races /\ World
    BY StepsKeep, StepsForm, InvariantIsWorld DEF Forms, IInv, Shape
<1>2. Untaken' <=> Untaken
    BY <1>1 DEF Untaken, Without
<1>3. ASSUME Untaken PROVE pinned = {} /\ pinned' = {}
  <2>1. pinned = {}
      BY <1>3 DEF Settling, Taken
  <2>2. \A r \in pinned' \ pinned : "pin" \in race.uses
      BY <1>1 DEF Forms, PickedByHand, PinRoundField
  <2> QED  BY <2>1, <2>2, <1>3 DEF Untaken, Without
<1> SUFFICES ASSUME Untaken, NEW r \in Rounds', source'[r] # General, MayRebuild(heats'[r])
             PROVE  Unrun(heats'[r]) /\ (Field(heats'[r]) # {} \/ Pending("advance", r)' => Opened(r)')
    BY <1>2, <1>3 DEF Taken, IsFed, Unraced, Unrun, Manned, HasSlot, Field, Participants
<1>4. CASE r \notin Rounds
  <2>1. source' # source
      BY <1>4 DEF Rounds
  <2>2. ASSUME NEW p \in Rounds, DeleteRound(p) PROVE FALSE
      BY <2>2, <1>4, DeletedRound
  <2>3. ASSUME NEW s \in race.offered, CreateRound(s), s # General
        PROVE  heats'[r] = SlotsRebuilt(<<>>) /\ ~Pending("advance", r)'
    <3>1. PICK n : Rounds' = Rounds \cup {n} /\ heats'[n] = SlotsRebuilt(<<>>) /\ todo' = <<Step("fill", n)>>
        BY <2>3, CreatedRound
    <3>2. \A i \in DOMAIN todo' : todo'[i].do = "fill"
        BY <3>1 DEF Step
    <3> QED  BY <3>1, <3>2, <1>4 DEF Pending, Step
  <2>4. heats'[r] = SlotsRebuilt(<<>>) /\ ~Pending("advance", r)'
      BY <2>1, <2>2, <2>3, FrameStands
  <2>5. <<>> \in Seq(Heat)
      OBVIOUS
  <2> QED  BY <2>4, <2>5, <1>1, SlotsAreAll
<1>5. CASE r \in Rounds
  <2>1. IsFed(r) /\ Unraced(r)
    <3>1. IsFed(r)
        BY <1>5, RoundsStand DEF IsFed
    <3> QED  BY <3>1, <1>5, FinalsStayRaced
  <2>2. Unrun(heats[r]) /\ (Field(heats[r]) # {} \/ Pending("advance", r) => Opened(r))
      BY <2>1, <1>5 DEF Settling, Taken
  <2>3. FinalChanges(r)
      BY <2>1, <1>3, <1>5, FinalsChange DEF Settling
  <2>4. Sound(heats[r]) /\ heats[r] \in Seq(Heat) /\ Winners(source[r]) \in Seq(Racers)
    <3>1. source[r] \in Int
        BY <1>5 DEF IInv, Shape
    <3> QED  BY <3>1, <1>5, ClaimedIsApt, WinnersAdvanceOnce DEF IInv, Shape
  <2>5. ~\E i \in DOMAIN heats[r] : \E out : RecordHeatResult(r, i, out)
      BY <2>2, <1>5, RunIsRaced
  <2>6. Unrun(Populated(heats[r], Winners(source[r])))
      BY <2>2, <2>4, <1>1, PopulatedIsUnrun
  <2>7. Unrun(heats'[r])
      BY <2>2, <2>3, <2>5, <2>6 DEF FinalChanges
  <2>8. Pending("advance", r)' => Opened(r)
      BY <2>2, <1>5, AdvanceAsked DEF Settling
  <2>9. Field(heats'[r]) # {} => Opened(r)
    <3>1. Decided(r) => Opened(r)
        BY <2>1, <1>5, DecidedIsOpened DEF Settling
    <3> QED  BY <3>1, <2>2, <2>3, <2>5 DEF FinalChanges
  <2>10. Opened(r) => Opened(r)'
      BY <2>1, <1>5, OpenedStays
  <2> QED  BY <2>7, <2>8, <2>9, <2>10
<1> QED  BY <1>4, <1>5

-----------------------------------------------------------------------------
(* A sweep comes to the rounds in order.                                   *)

\* In ascending order, the lower comes first.
LEMMA AscendingRises ==
    ASSUME NEW S \in SUBSET Int, IsFiniteSet(S), NEW j \in 1..Cardinality(S), NEW k \in 1..Cardinality(S),
           Ascending(S)[j] < Ascending(S)[k]
    PROVE  j < k
<1> DEFINE Below == [x \in S |-> {y \in S : y < x}]
           x == Ascending(S)[j]
           z == Ascending(S)[k]
<1>1. \A y \in S : Below[y] = {w \in S : w < y}
    OBVIOUS
<1>2. Ranks(S, Below)
    BY NumbersRank
<1> HIDE DEF Below
<1>3. ASSUME NEW i \in 1..Cardinality(S)
      PROVE  Ascending(S)[i] \in S /\ Cardinality(Below[Ascending(S)[i]]) = i - 1
  <2> DEFINE a == CHOOSE w \in S : Cardinality({y \in S : y < w}) = i - 1
  <2>1. \E w \in S : HasRank(w, i, Below)
      BY <1>2, EveryRankIsTaken
  <2>2. \E w \in S : Cardinality({y \in S : y < w}) = i - 1
      BY <2>1, <1>1 DEF HasRank
  <2>3. a \in S /\ Cardinality({y \in S : y < a}) = i - 1
      BY <2>2, Zenon
  <2>4. Ascending(S)[i] = a
      BY DEF Ascending, InOrder
  <2> QED  BY <2>3, <2>4, <1>1
<1>4. /\ x \in S /\ z \in S /\ x < z
      /\ Cardinality(Below[x]) = j - 1 /\ Cardinality(Below[z]) = k - 1
    BY <1>3
<1> HIDE DEF x, z
<1>5. Below[x] = {w \in S : w < x} /\ Below[z] = {w \in S : w < z}
    BY <1>1, <1>4
<1>6. Below[x] \subseteq Below[z] /\ x \in Below[z] /\ x \notin Below[x] /\ Below[z] \subseteq S
  <2>1. \A w \in S : w \in Int
      OBVIOUS
  <2>2. \A w \in S : w < x => w < z
      BY <2>1, <1>4
  <2>3. ~(x < x)
      BY <2>1, <1>4
  <2> QED  BY <2>2, <2>3, <1>4, <1>5
<1>7. IsFiniteSet(Below[z]) /\ Below[x] # Below[z]
    BY <1>6, FS_Subset
<1>8. Cardinality(Below[x]) <= Cardinality(Below[z]) /\ Cardinality(Below[x]) # Cardinality(Below[z])
    BY <1>6, <1>7, FS_Subset
<1> QED  BY <1>4, <1>8

\* A sweep comes to the rounds in order.
LEMMA StepsRise ==
    ASSUME IInv, NEW do, NEW S \in SUBSET Rounds, NEW i \in DOMAIN Steps(do, S), NEW r \in S,
           r > Steps(do, S)[i].round
    PROVE  \E j \in DOMAIN Steps(do, S) : j > i /\ Steps(do, S)[j] = Step(do, r)
<1>1. S \in SUBSET Int /\ IsFiniteSet(S)
    BY RoundsAreFinite, FS_Subset
<1>2. Lists(Ascending(S), S)
    BY <1>1, AscendingOrder
<1> DEFINE q == Ascending(S)
           n == Cardinality(S)
<1>3. n \in Nat /\ q \in [1..n -> S] /\ \A p \in S : \E k \in 1..n : q[k] = p
    BY <1>2 DEF Lists
<1>4. Steps(do, S) = [k \in 1..Len(q) |-> Step(do, q[k])]
    BY DEF Steps
<1>5. \A j, k \in 1..n : q[j] < q[k] => j < k
    BY <1>1, AscendingRises
<1> HIDE DEF q, n
<1>6. Len(q) = n
    BY <1>3
<1>7. DOMAIN Steps(do, S) = 1..n /\ \A k \in 1..n : Steps(do, S)[k] = Step(do, q[k])
    BY <1>4, <1>6
<1>8. PICK j \in 1..n : q[j] = r
    BY <1>3
<1>9. i \in 1..n /\ q[i] \in S /\ Steps(do, S)[i].round = q[i]
    BY <1>3, <1>7 DEF Step
<1>10. q[i] < q[j]
    BY <1>1, <1>8, <1>9
<1>11. i < j
    BY <1>5, <1>8, <1>9, <1>10
<1> QED  BY <1>3, <1>7, <1>8, <1>9, <1>11

\* A request begins when the one before it is done.
LEMMA RequestsAreIdle ==
    ASSUME Claimed, [Next]_vars
    PROVE  Settle \/ Idle \/ UNCHANGED vars
<1>1. ~Crash
    BY DEF Crash, Claimed, Without
<1>2. ASSUME NEW r \in Rounds, RoundRequest(r) PROVE Idle
    BY <1>2 DEF RoundRequest, RecordHeatResult, DeleteHeat, DeleteRound, RegenerateRound,
                PinRoundField, UnpinRoundField, AdvanceRound
<1>3. ASSUME NEW s, CreateRound(s) PROVE Idle
    BY <1>3 DEF CreateRound
<1>4. ASSUME NEW q, CheckIn(q) \/ SetExcluded(q) PROVE Idle
    BY <1>4 DEF CheckIn, SetExcluded
<1>5. ASSUME NEW lanes, SetLaneOutages(lanes) PROVE Idle
    BY <1>5 DEF SetLaneOutages
<1>6. RecordRunOff => Idle
    BY DEF RecordRunOff
<1> QED  BY <1>1, <1>2, <1>3, <1>4, <1>5, <1>6 DEF Next

\* The three parts of Swept.
OneSweep == (\E i \in DOMAIN todo : todo[i].do = "outage") => \A i \in DOMAIN todo : todo[i].do = "outage"
InTurn == \A i \in DOMAIN todo : todo[i].do = "outage" =>
             \A r \in Rounds : Awaiting(r) /\ r > todo[i].round =>
                \E j \in DOMAIN todo : j > i /\ todo[j] = Step("outage", r)
Warranted == \A i \in DOMAIN todo :
                todo[i].do \in {"withdraw", "admit", "advance"} => "withdraw" \in race.uses

\* The parts of Swept.
LEMMA SweptParts == (Swept <=> OneSweep /\ InTurn /\ Warranted) /\ (Swept <=> OneSweep /\ InTurn /\ Warranted)'
<1>1. Swept <=> OneSweep /\ InTurn /\ Warranted
    BY DEF Swept, OneSweep, InTurn, Warranted
<1> QED  BY <1>1, PTL

\* A step that is taken leaves the rest of the sweep in order.
LEMMA SweptBySettle ==
    ASSUME IInv, Fitting, Apt, Claimed, Crewed, Swept, Enough, Settle
    PROVE  Swept'
<1>0. OneSweep /\ InTurn /\ Warranted
    BY SweptParts
<1>1. ~Idle /\ \E do \in Dos : \E p \in Rounds : \E more \in Seq(Request) :
              Head(todo) = Step(do, p) /\ Moved(do, p, more)
    BY SettleMoves
<1>2. PICK do \in Dos : \E p \in Rounds : \E more \in Seq(Request) :
              Head(todo) = Step(do, p) /\ Moved(do, p, more)
    BY <1>1
<1>3. PICK p \in Rounds : \E more \in Seq(Request) : Head(todo) = Step(do, p) /\ Moved(do, p, more)
    BY <1>2
<1>4. PICK more \in Seq(Request) : Head(todo) = Step(do, p) /\ Moved(do, p, more)
    BY <1>3
<1>5. todo' = more \o Tail(todo) /\ UNCHANGED settings /\ Outcome(do, p, more)
      /\ \A q \in Rounds \ {p} : heats'[q] = heats[q]
    BY <1>4 DEF Moved
<1>6. PICK m \in Nat :
              /\ DOMAIN more = 1..m /\ DOMAIN todo \subseteq Nat \ {0} /\ DOMAIN todo' \subseteq Nat \ {0}
              /\ 1 \in DOMAIN todo /\ Head(todo) = todo[1]
              /\ \A k \in DOMAIN todo : k > 1 =>
                    k + m - 1 \in DOMAIN todo' /\ todo'[k + m - 1] = todo[k]
              /\ \A i \in DOMAIN more : i \in DOMAIN todo' /\ todo'[i] = more[i]
              /\ \A i \in DOMAIN todo' :
                    \/ i \in DOMAIN more /\ todo'[i] = more[i]
                    \/ i - m + 1 \in DOMAIN todo /\ i - m + 1 > 1 /\ todo'[i] = todo[i - m + 1]
    BY <1>1, <1>5, TodoShifts
<1>7. todo[1].do = do /\ todo[1].round = p
    BY <1>4, <1>6 DEF Step
<1>8. \A i \in DOMAIN more : more[i].do \in {"fill", "reset", "advance"}
                             /\ (more[i].do = "advance" => do = "withdraw")
  <2>1. ASSUME more = Redo(p) PROVE \A i \in DOMAIN more : more[i].do \in {"reset", "advance"}
      BY <2>1 DEF Redo, Step
  <2>2. \/ more = <<>> \/ \A i \in DOMAIN more : more[i].do = "fill"
        \/ more = Redo(p) /\ do = "withdraw"
      BY <1>5 DEF Outcome
  <2> QED  BY <2>1, <2>2
<1>9. do = "outage" => more = <<>> /\ (IsFed(p) /\ Unraced(p) => heats'[p] = SlotsRebuilt(heats[p]))
    BY <1>5 DEF Outcome
<1>10. ASSUME NEW i \in DOMAIN todo', todo'[i].do = "outage"
       PROVE  /\ do = "outage" /\ m = 0 /\ i + 1 \in DOMAIN todo /\ todo'[i] = todo[i + 1]
              /\ i \in Nat /\ \A k \in DOMAIN todo : todo[k].do = "outage"
  <2>1. i - m + 1 \in DOMAIN todo /\ i - m + 1 > 1 /\ todo'[i] = todo[i - m + 1]
      BY <1>6, <1>8, <1>10
  <2>2. \A k \in DOMAIN todo : todo[k].do = "outage"
      BY <2>1, <1>0, <1>10 DEF OneSweep
  <2>3. do = "outage"
      BY <2>2, <1>6, <1>7
  <2>4. DOMAIN more = {}
      BY <2>3, <1>9
  <2>5. m = 0
    <3> SUFFICES ASSUME m # 0 PROVE FALSE
        OBVIOUS
    <3>1. 1 \in 1..m
        OBVIOUS
    <3>2. DOMAIN more = 1..m
        BY <1>6
    <3> QED  BY <2>4, <3>1, <3>2
  <2>6. i \in Nat
      BY <1>6
  <2>7. i - m + 1 = i + 1
      BY <2>5, <2>6
  <2> QED  BY <2>1, <2>2, <2>3, <2>5, <2>6, <2>7
<1>11. OneSweep'
  <2> SUFFICES ASSUME NEW i \in DOMAIN todo', todo'[i].do = "outage", NEW k \in DOMAIN todo'
               PROVE  todo'[k].do = "outage"
      BY DEF OneSweep
  <2>1. m = 0 /\ \A j \in DOMAIN todo : todo[j].do = "outage"
      BY <1>10
  <2>2. k \notin DOMAIN more
      BY <2>1, <1>6
  <2> QED  BY <2>1, <2>2, <1>6
<1>12. Warranted'
  <2> SUFFICES ASSUME NEW i \in DOMAIN todo', todo'[i].do \in {"withdraw", "admit", "advance"}
               PROVE  "withdraw" \in race.uses
    <3>1. race' = race
        BY <1>5 DEF settings
    <3> QED  BY <3>1 DEF Warranted
  <2>1. CASE i \in DOMAIN more /\ todo'[i] = more[i]
    <3>1. todo[1].do = "withdraw"
        BY <2>1, <1>7, <1>8
    <3> QED  BY <3>1, <1>0, <1>6 DEF Warranted
  <2>2. CASE i - m + 1 \in DOMAIN todo /\ todo'[i] = todo[i - m + 1]
      BY <2>2, <1>0 DEF Warranted
  <2> QED  BY <2>1, <2>2, <1>6
<1>13. InTurn'
  <2>0. Rounds' = Rounds
      BY <1>5 DEF settings, Rounds
  <2> SUFFICES ASSUME NEW i \in DOMAIN todo', todo'[i].do = "outage", NEW r \in Rounds, Awaiting(r)',
                      r > todo'[i].round
               PROVE  \E j \in DOMAIN todo' : j > i /\ todo'[j] = Step("outage", r)
      BY <2>0 DEF InTurn, Step
  <2>1. /\ do = "outage" /\ m = 0 /\ i + 1 \in DOMAIN todo /\ todo'[i] = todo[i + 1]
        /\ i \in Nat /\ todo[i + 1].do = "outage"
      BY <1>10
  <2>2. IsFed(r) /\ r \notin pinned /\ MayRebuild(heats'[r]) /\ Field(heats'[r]) # {}
      BY <1>5 DEF Awaiting, AwaitsStandings, IsFed, Unraced, settings, Field, Participants
  <2>3. Unraced(r)
      BY <2>2, SettleKeeps, RacedStays
  <2>4. r # p
    <3> SUFFICES ASSUME r = p PROVE FALSE
        OBVIOUS
    <3>1. heats'[r] = SlotsRebuilt(heats[r]) /\ World /\ heats[r] \in Seq(Heat)
        BY <2>1, <2>2, <2>3, <1>9, InvariantIsWorld DEF IInv, Shape
    <3> QED  BY <3>1, <2>2, SlotsAreAll
  <2>5. Awaiting(r)
      BY <2>2, <2>3, <2>4, <1>5 DEF Awaiting, AwaitsStandings
  <2>6. PICK j \in DOMAIN todo : j > i + 1 /\ todo[j] = Step("outage", r)
      BY <2>1, <2>5, <1>0 DEF InTurn
  <2>7. j \in Nat /\ j > 1 /\ j + m - 1 > i
      BY <2>1, <2>6, <1>6
  <2>8. j + m - 1 \in DOMAIN todo' /\ todo'[j + m - 1] = todo[j]
      BY <2>7, <1>6
  <2> QED  BY <2>6, <2>7, <2>8
<1> QED  BY <1>11, <1>12, <1>13, SweptParts

\* A sweep begins with every round, in ascending order.
LEMMA SweptKept ==
    ASSUME IInv, Fitting, Apt, Claimed, Settling, [Next]_vars
    PROVE  Swept'
<1>1. race' = race
    BY StepsForm DEF Forms
<1>2. ASSUME NEW D, todo' \in Seq(Asks(D)), "outage" \notin D,
             D \cap {"withdraw", "admit", "advance"} # {} => "withdraw" \in race.uses
      PROVE  Swept'
  <2>1. \A i \in DOMAIN todo' : todo'[i].do \in D
    <3>1. \A i \in DOMAIN todo' : todo'[i] \in Asks(D)
        BY <1>2
    <3> QED  BY <3>1 DEF Asks
  <2>2. OneSweep' /\ InTurn' /\ Warranted'
      BY <2>1, <1>1, <1>2 DEF OneSweep, InTurn, Warranted
  <2> QED  BY <2>2, SweptParts
<1>3. CASE Settle
    BY <1>3, SweptBySettle DEF Settling
<1>4. CASE Idle /\ todo' = todo
  <2>1. todo' \in Seq(Asks({}))
      BY <1>4 DEF Idle
  <2> QED  BY <2>1, <1>2
<1>5. CASE UNCHANGED vars
  <2>1. \A r : Awaiting(r)' <=> Awaiting(r)
      BY <1>5 DEF vars, Awaiting, AwaitsStandings, IsFed, Unraced, MayRebuild, Field, Participants
  <2>2. Rounds' = Rounds /\ todo' = todo
      BY <1>5 DEF vars, Rounds
  <2>3. OneSweep /\ InTurn /\ Warranted
      BY SweptParts DEF Settling
  <2>4. OneSweep' /\ InTurn' /\ Warranted'
      BY <2>1, <2>2, <2>3, <1>1 DEF OneSweep, InTurn, Warranted, Step
  <2> QED  BY <2>4, SweptParts
<1>6. ASSUME NEW lanes, SetLaneOutages(lanes) PROVE Swept'
  <2> DEFINE S == {r \in Rounds : heats[r] # <<>>}
  <2>1. /\ todo' = Steps("outage", S) /\ UNCHANGED <<source, pinned, heats>>
      BY <1>6 DEF SetLaneOutages
  <2>2. S \in SUBSET Rounds /\ "outage" \in Dos /\ "outage" \in {"outage"}
      BY DEF Dos
  <2>3. todo' \in Seq(Asks({"outage"}))
      BY <2>1, <2>2, StepsAsk
  <2>4. \A i \in DOMAIN todo' : todo'[i].do = "outage"
    <3>1. \A i \in DOMAIN todo' : todo'[i] \in Asks({"outage"})
        BY <2>3
    <3> QED  BY <3>1 DEF Asks
  <2>5. ASSUME NEW r \in Rounds, Awaiting(r)' PROVE r \in S
    <3>1. Field(heats[r]) # {}
        BY <2>1, <2>5 DEF Awaiting, Field, Participants
    <3>2. DOMAIN <<>> = {}
        OBVIOUS
    <3>3. heats[r] # <<>>
        BY <3>1, <3>2 DEF Field, Participants
    <3> QED  BY <3>3
  <2> HIDE DEF S
  <2>6. ASSUME NEW i \in DOMAIN todo', NEW r \in Rounds, Awaiting(r)', r > todo'[i].round
        PROVE  \E j \in DOMAIN todo' : j > i /\ todo'[j] = Step("outage", r)
      BY <2>1, <2>2, <2>5, <2>6, StepsRise
  <2>7. Rounds' = Rounds
      BY <2>1 DEF Rounds
  <2>8. InTurn'
      BY <2>6, <2>7 DEF InTurn, Step
  <2>9. OneSweep' /\ Warranted'
      BY <2>4 DEF OneSweep, Warranted
  <2> QED  BY <2>8, <2>9, SweptParts
<1>7. todo' \in Seq(Asks(Mending)) => Swept'
    BY <1>2 DEF Mending
<1>8. "withdraw" \in race.uses /\ todo' \in Seq(Asks({"withdraw", "admit"})) => Swept'
    BY <1>2
<1>9. Settle \/ Idle \/ UNCHANGED vars
    BY RequestsAreIdle
<1> QED  BY <1>3, <1>4, <1>5, <1>6, <1>7, <1>8, <1>9, WhatIsAsked

-----------------------------------------------------------------------------
(* Every line-up is up to date.                                            *)

\* A race begins with its finals on placeholders.
LEMMA InitIsUpToDate == Init => UpToDate
<1> SUFFICES ASSUME Init, Claimed PROVE Settling /\ Covered
    BY DEF UpToDate
<1>1. IInv /\ World /\ <<>> \in Seq(Heat)
    BY InitHolds, InvariantIsWorld
<1>2. Rounds = DOMAIN Plan /\ \A r \in Rounds : source[r] = Plan[r]
    BY DEF Init, Rounds
<1>3. ASSUME NEW r \in Rounds, IsFed(r)
      PROVE  OpenSlots(heats[r]) = AllSlots /\ Field(heats[r]) = {} /\ Unrun(heats[r])
  <2>1. heats[r] = SlotsRebuilt(<<>>)
      BY <1>2, <1>3 DEF Init
  <2> QED  BY <2>1, <1>1, SlotsAreAll
<1>4. ASSUME NEW r \in Rounds, ~IsFed(r)
      PROVE  OpenSlots(heats[r]) = {} /\ Field(heats[r]) = checkedIn
  <2>1. heats[r] = RosterRebuilt(<<>>)
      BY <1>2, <1>4 DEF Init
  <2>2. Fielded(heats[r]) /\ Field(heats[r]) = checkedIn
      BY <2>1, <1>1, RosterIsWhole, RosterIsAll
  <2>3. heats[r] \in Seq(Heat) /\ race \in Races
      BY <1>1 DEF IInv, Shape
  <2> QED  BY <2>2, <2>3, FieldedFacts
<1>5. Layers
  <2>1. DOMAIN Plan = 1..Len(Plan) /\ Len(Plan) \in Nat
        /\ \A n \in DOMAIN Plan : Plan[n] \in Int /\ General <= Plan[n] /\ Plan[n] < n
      BY PlanAssumption
  <2>2. /\ \E n \in DOMAIN Plan : Plan[n] = General
        /\ \A p, n \in DOMAIN Plan : Plan[p] = General /\ Plan[n] # General => p < n
      BY DEF Claimed, Layered
  <2>3. ASSUME ~Untaken, NEW r \in Rounds, IsFed(r) PROVE Preliminary(source[r])
    <3>1. Plan[r] > 0 => Plan[Plan[r]] = General
        BY <2>3, <1>2 DEF Claimed, Layered
    <3>2. Plan[r] = All \/ Plan[r] > 0
        BY <2>1, <2>3, <1>2 DEF IsFed, All, General
    <3>3. Plan[r] > 0 => Plan[r] \in DOMAIN Plan
        BY <2>1, <1>2
    <3> QED  BY <3>1, <3>2, <3>3, <1>2 DEF Preliminary, IsFed
  <2>4. \E p \in Rounds : ~IsFed(p)
      BY <2>2, <1>2 DEF IsFed
  <2>5. \A p, r \in Rounds : ~IsFed(p) /\ IsFed(r) => p < r
      BY <2>2, <1>2 DEF IsFed
  <2>6. \A r \in Rounds : source[r] > 0 => source[r] < r
      BY <2>1, <1>2
  <2> QED  BY <2>3, <2>4, <2>5, <2>6, <1>2 DEF Layers
<1>6. Crewed /\ Slotted
    BY <1>3, <1>4 DEF Crewed, Slotted
<1>7. todo = <<>> /\ pinned = {} /\ checkedIn = race.present
    BY DEF Init
<1>8. Taken
  <2>1. \A r : ~Pending("advance", r)
      BY <1>7 DEF Pending
  <2> QED  BY <2>1, <1>3, <1>7 DEF Taken
<1>9. Swept
    BY <1>7 DEF Swept
<1>10. Enough
    BY <1>7 DEF Enough, Claimed, Layered
<1>11. Covered
    BY <1>3 DEF Covered, CoveredAt, Current, AwaitsStandings
<1> QED  BY <1>5, <1>6, <1>8, <1>9, <1>10, <1>11 DEF Settling

\* Every step keeps the line-ups up to date, or leaves the draw to be made.
LEMMA UpToDateKept == IInv /\ Fitting /\ Apt /\ UpToDate /\ [Next]_vars => UpToDate'
<1> SUFFICES ASSUME IInv, Fitting, Apt, UpToDate, [Next]_vars, Claimed' PROVE Settling' /\ Covered'
    BY DEF UpToDate
<1>1. race' = race
    BY StepsForm DEF Forms
<1>2. Claimed
    BY <1>1 DEF Claimed, Layered, Untaken, Without
<1>3. Settling /\ Covered
    BY <1>2 DEF UpToDate
<1>4. Layers' /\ Crewed' /\ Slotted' /\ Enough'
    BY <1>1, <1>2, <1>3, LayersKept, CrewedKept, SlottedKept, EnoughKept DEF Settling
<1>5. Taken' /\ Swept' /\ Covered'
    BY <1>2, <1>3, TakenKept, SweptKept, CoveredKept
<1> QED  BY <1>4, <1>5 DEF Settling

\* It holds of every race that is layered.
LEMMA EverUpToDate == Spec => []UpToDate
BY InitIsUpToDate, UpToDateKept, Invariant, EverFitting, EverApt, PTL DEF Spec

\* A championship round that nobody has raced holds nobody, or exactly those who
\* would advance to it now: whatever moves its standings (a result or a correction
\* in a round before it, a run-off, a car that leaves, a lane that goes) leaves a
\* step behind that draws it again, until none is left.
THEOREM UnracedFieldsAreCurrent == Spec => [](Layered => UnracedFieldIsCurrent)
<1>1. UpToDate => (Layered => UnracedFieldIsCurrent)
  <2> SUFFICES ASSUME UpToDate, Layered, Idle,
                      Without({"check_back_in", "exclude", "delete_heat", "clear_final", "crash"}),
                      NEW r \in Rounds, AwaitsStandings(r), Field(heats[r]) # {}
               PROVE  Field(heats[r]) = Range(Winners(source[r]))
      BY DEF UnracedFieldIsCurrent
  <2>1. Covered
      BY DEF UpToDate, Claimed
  <2> QED  BY <2>1, IdleIsCurrent DEF Current
<1> QED  BY <1>1, EverUpToDate, PTL

============================================================================
