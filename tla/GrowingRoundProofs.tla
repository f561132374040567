------------------------- MODULE GrowingRoundProofs -------------------------
(***************************************************************************)
(* Proofs about GrowingRound, for any roster and any round: its rows are   *)
(* well formed, nobody races alone, and a balanced round that counts has   *)
(* drawn everybody as often, unless it is set aside.                       *)
(***************************************************************************)
EXTENDS GrowingRound, HeatChunksProofs, FiniteSetTheorems

-----------------------------------------------------------------------------
(* The inductive invariant.                                                *)

Lanes == 1..round.width
Heat == [cars : UNION {[D -> Racers \cup {Nobody}] : D \in SUBSET Lanes},
         order : Seq(Racers), dnf : SUBSET Racers,
         zeroed : BOOLEAN, passed : BOOLEAN, wave : Nat]

\* What one row says of another: results are of the heat's cars.
Sound(h) ==
    /\ DOMAIN h.cars # {}
    /\ IsInjective(h.order) /\ Range(h.order) \cap h.dnf = {}
    /\ Finished(h) \subseteq Cars(h) /\ (h.passed => ~HasResults(h))
    /\ (h.zeroed => h.dnf # {})

\* The rows of a round to which n things have happened: each of them takes away
\* one heat at most, so there are not many more waves than heats.
Rows(hs, n) ==
    /\ hs \in Seq(Heat)
    /\ \A i \in DOMAIN hs : Sound(hs[i]) /\ hs[i].wave \in 1..Len(hs) + n

LanesOK(lanes) == lanes \in Seq(Lanes) /\ IsInjective(lanes)

IInv ==
    /\ round \in RoundKinds /\ checkedIn \subseteq Racers /\ LanesOK(usable)
    /\ disrupted \in BOOLEAN /\ changes \in 0..round.changes
    /\ Rows(heats, changes)

LEMMA InvariantImpliesType == IInv => TypeOK
<1> SUFFICES ASSUME IInv PROVE TypeOK
    OBVIOUS
<1> USE DEF IInv
<1>1. round.changes \in Nat
    BY RoundKindsAssumption
<1>2. ASSUME NEW i \in DOMAIN heats PROVE HeatOK(heats[i])
  <2>1. heats[i] \in Heat /\ Sound(heats[i]) /\ heats[i].wave \in 1..Len(heats) + changes
    BY <1>2 DEF Rows
  <2>2. heats[i].wave \in 1..Len(heats) + round.changes
    BY <1>1, <2>1 DEF Rows
  <2>3. DOMAIN heats[i].cars \subseteq Lanes /\ Range(heats[i].cars) \subseteq Racers \cup {Nobody}
    BY <2>1 DEF Heat, Range
  <2>4. {heats[i].zeroed, heats[i].passed} \subseteq BOOLEAN
    BY <2>1 DEF Heat
  <2> QED  BY <2>1, <2>2, <2>3, <2>4 DEF HeatOK, Sound, Lanes
<1>3. Range(usable) \subseteq 1..round.width /\ IsInjective(usable)
  <2>1. usable \in Seq(Lanes) /\ IsInjective(usable)
    BY DEF LanesOK
  <2>2. \A k \in DOMAIN usable : usable[k] \in Lanes
    BY <2>1
  <2> QED  BY <2>1, <2>2 DEF Lanes, Range
<1> QED  BY <1>2, <1>3 DEF TypeOK

-----------------------------------------------------------------------------
(* Drawing a set of heats.                                                 *)

\* A heat as it is drawn: of two cars at least.
IsDrawn(h) ==
    /\ h.order = <<>> /\ h.dnf = {} /\ ~h.zeroed /\ ~h.passed
    /\ ~FewerThanTwo(Cars(h))

LEMMA OrderOfField ==
    ASSUME NEW hs, NEW field \in SUBSET Racers, ~FewerThanTwo(field), NEW o \in Orders(hs, field)
    PROVE  /\ o \in Seq(field) /\ Len(o) >= 2
           /\ \A x, y \in 1..Len(o) : o[x] = o[y] => x = y
<1> DEFINE n == Cardinality(field)
<1>1. IsFiniteSet(field)
    BY RacersAssumption, FS_Subset
<1>2. n \in Nat
    BY <1>1, FS_CardinalityType
<1>3. o \in Injection(1..n, field)
    BY DEF Orders
<1>4. o \in [1..n -> field] /\ \A x, y \in 1..n : o[x] = o[y] => x = y
    BY <1>3 DEF Injection, IsInjective
<1>5. n >= 2
  <2>1. n # 0
    BY <1>1, FS_EmptySet DEF FewerThanTwo
  <2>2. n # 1
    <3>1. n = 1 <=> \E x : field = {x}
        BY <1>1, FS_Singleton
    <3> QED  BY <3>1 DEF FewerThanTwo
  <2> QED  BY <1>2, <2>1, <2>2
<1> HIDE DEF n
<1>6. o \in Seq(field) /\ Len(o) = n
    BY <1>2, <1>4
<1> QED  BY <1>4, <1>5, <1>6

\* A group of two cars or more, on lanes of the track.
LEMMA GroupSeated ==
    ASSUME NEW hs, NEW S \in SUBSET Racers, NEW group \in Seq(S), NEW lanes, LanesOK(lanes),
           Len(group) \in 2..Len(lanes),
           \A x, y \in DOMAIN group : group[x] = group[y] => x = y,
           NEW cars \in Seatings(hs, group, lanes), NEW w \in Nat
    PROVE  NewHeat(cars, w) \in Heat /\ IsDrawn(NewHeat(cars, w)) /\ DOMAIN cars # {}
<1> DEFINE D == {lanes[k] : k \in DOMAIN group}
           h == NewHeat(cars, w)
<1>1. cars \in Injection(D, Range(group))
    BY DEF Seatings
<1>2. cars \in [D -> Range(group)] /\ \A a, b \in D : cars[a] = cars[b] => a = b
    BY <1>1 DEF Injection, IsInjective
<1>3. DOMAIN group = 1..Len(group) /\ DOMAIN lanes = 1..Len(lanes)
    BY DEF LanesOK
<1>4. D \subseteq Lanes /\ lanes[1] \in D /\ lanes[2] \in D
    BY <1>3 DEF LanesOK
<1>5. lanes[1] # lanes[2]
  <2>1. 1 \in DOMAIN lanes /\ 2 \in DOMAIN lanes
    BY <1>3
  <2> QED  BY <2>1 DEF LanesOK, IsInjective
<1>6. Range(group) \subseteq Racers
    BY DEF Range
<1>7. 0 \notin Racers
    BY RacersAssumption
<1> HIDE DEF D
<1>8. cars \in [D -> Racers \cup {Nobody}]
    BY <1>2, <1>6
<1>9. cars \in UNION {[E -> Racers \cup {Nobody}] : E \in SUBSET Lanes}
    BY <1>4, <1>8
<1>10. h \in Heat
    BY <1>9 DEF NewHeat, Heat
<1>11. cars[lanes[1]] # cars[lanes[2]]
    BY <1>2, <1>4, <1>5
<1>12. cars[lanes[1]] \in Cars(h) /\ cars[lanes[2]] \in Cars(h)
    BY <1>2, <1>4, <1>6, <1>7 DEF Cars, Range, NewHeat, Nobody
<1>13. ~FewerThanTwo(Cars(h))
    BY <1>11, <1>12 DEF FewerThanTwo
<1>14. IsDrawn(h)
    BY <1>13 DEF IsDrawn, NewHeat
<1> QED  BY <1>2, <1>4, <1>10, <1>14

NextWave(hs) == IF hs = <<>> THEN 1 ELSE hs[Len(hs)].wave + 1

\* What the order of a field is cut into: heats of two cars or more that share none.
Cut(groups, field, w) ==
    /\ groups # <<>> /\ groups \in Seq(Seq(field))
    /\ \A i \in DOMAIN groups : Len(groups[i]) \in 2..w
    /\ \A i, j \in DOMAIN groups : \A x \in DOMAIN groups[i], y \in DOMAIN groups[j] :
           groups[i][x] = groups[j][y] => i = j /\ x = y

LEMMA FieldIsCut ==
    ASSUME NEW hs, NEW field \in SUBSET Racers, ~FewerThanTwo(field), NEW o \in Orders(hs, field),
           NEW w \in Nat, w >= 2
    PROVE  Cut(ChunkHeats(o, w), field, w)
<1>1. o \in Seq(field) /\ Len(o) >= 2 /\ \A x, y \in 1..Len(o) : o[x] = o[y] => x = y
    BY OrderOfField
<1> QED  BY <1>1, ChunkHeatsFit, Zenon DEF Cut

\* What is drawn is rows of two cars or more, all of one wave.
LEMMA DrawsOK ==
    ASSUME NEW hs, NextWave(hs) \in Nat, NEW field \in SUBSET Racers, ~FewerThanTwo(field),
           NEW lanes, LanesOK(lanes), Len(lanes) >= 2, NEW new \in Draws(hs, field, lanes)
    PROVE  /\ new \in Seq(Heat) /\ new # <<>>
           /\ \A i \in DOMAIN new : /\ IsDrawn(new[i]) /\ DOMAIN new[i].cars # {}
                                    /\ new[i].wave = NextWave(hs)
<1> DEFINE Seated(groups) ==
            {cars \in [DOMAIN groups -> UNION {Seatings(hs, groups[i], lanes) :
                                                i \in DOMAIN groups}] :
                \A i \in DOMAIN groups : cars[i] \in Seatings(hs, groups[i], lanes)}
<1>1. PICK o \in Orders(hs, field) :
        \E cars \in Seated(ChunkHeats(o, Len(lanes))) :
            new = [i \in DOMAIN cars |-> NewHeat(cars[i], NextWave(hs))]
  <2>1. Draws(hs, field, lanes) =
          UNION {{[i \in DOMAIN cars |-> NewHeat(cars[i], NextWave(hs))] : cars \in Seated(groups)} :
                    groups \in {ChunkHeats(q, Len(lanes)) : q \in Orders(hs, field)}}
    BY DEF Draws, NextWave
  <2> HIDE DEF Seated
  <2> QED  BY <2>1
<1> DEFINE groups == ChunkHeats(o, Len(lanes))
<1>2. PICK cars \in Seated(groups) : new = [i \in DOMAIN cars |-> NewHeat(cars[i], NextWave(hs))]
    BY <1>1
<1>4. Len(lanes) \in Nat
    BY DEF LanesOK
<1>5. Cut(groups, field, Len(lanes))
    BY <1>4, FieldIsCut
<1>6. DOMAIN cars = DOMAIN groups /\ \A i \in DOMAIN groups : cars[i] \in Seatings(hs, groups[i], lanes)
    BY <1>2
<1> HIDE DEF groups, Seated
<1> USE DEF Cut
<1>7. DOMAIN groups = 1..Len(groups) /\ Len(groups) \in Nat \ {0}
    BY <1>5
<1>8. ASSUME NEW i \in DOMAIN groups
      PROVE  /\ NewHeat(cars[i], NextWave(hs)) \in Heat
             /\ IsDrawn(NewHeat(cars[i], NextWave(hs))) /\ DOMAIN cars[i] # {}
  <2>1. groups[i] \in Seq(field) /\ Len(groups[i]) \in 2..Len(lanes)
    BY <1>5
  <2>2. \A x, y \in DOMAIN groups[i] : groups[i][x] = groups[i][y] => x = y
    BY <1>5
  <2>3. cars[i] \in Seatings(hs, groups[i], lanes)
    BY <1>6
  <2> QED  BY <2>1, <2>2, <2>3, GroupSeated
<1>9. new = [i \in 1..Len(groups) |-> NewHeat(cars[i], NextWave(hs))]
    BY <1>2, <1>6, <1>7
<1>10. \A i \in 1..Len(groups) : NewHeat(cars[i], NextWave(hs)) \in Heat
    BY <1>7, <1>8
<1>11. new \in Seq(Heat) /\ Len(new) = Len(groups)
    BY <1>7, <1>9, <1>10
<1>12. new # <<>>
    BY <1>7, <1>11
<1>13. ASSUME NEW i \in DOMAIN new
       PROVE  IsDrawn(new[i]) /\ DOMAIN new[i].cars # {} /\ new[i].wave = NextWave(hs)
  <2>1. i \in DOMAIN groups /\ new[i] = NewHeat(cars[i], NextWave(hs))
    BY <1>7, <1>9
  <2>2. new[i].cars = cars[i] /\ new[i].wave = NextWave(hs)
    BY <2>1 DEF NewHeat
  <2> QED  BY <1>8, <2>1, <2>2
<1> QED  BY <1>11, <1>12, <1>13

\* Rows, some of which are of a wave that is there already.
LEMMA DrawnIsSound ==
    ASSUME NEW h, IsDrawn(h), DOMAIN h.cars # {}
    PROVE  Sound(h) /\ ~Alone(h)
<1>1. DOMAIN h.order = {} /\ Range(h.order) = {}
    BY DEF IsDrawn, Range
<1> QED  BY <1>1 DEF IsDrawn, Sound, Finished, HasResults, IsInjective, Alone

\* Growing a round keeps its rows, and adds none in which a car is alone.
LEMMA ExtendedOK ==
    ASSUME NEW hs, NEW n \in Nat, Rows(hs, n), NEW present \in SUBSET Racers,
           NEW lanes, LanesOK(lanes), NEW grown \in Extended(hs, present, lanes)
    PROVE  /\ Rows(grown, n)
           /\ \A i \in DOMAIN grown : Alone(grown[i]) => \E j \in DOMAIN hs : grown[i] = hs[j]
<1>1. CASE ~Grows(hs, present, lanes)
  <2>1. grown = hs
    BY <1>1 DEF Extended
  <2> QED  BY <2>1
<1>2. CASE Grows(hs, present, lanes)
  <2>1. PICK new \in Draws(hs, Contenders(hs, present), lanes) : grown = hs \o new
    BY <1>2 DEF Extended
  <2>2. hs \in Seq(Heat) /\ hs # <<>> /\ Len(hs) \in Nat \ {0} /\ DOMAIN hs = 1..Len(hs)
    BY <1>2 DEF Rows, Grows
  <2>3. hs[Len(hs)].wave \in 1..Len(hs) + n
    BY <2>2 DEF Rows
  <2>4. NextWave(hs) \in 1..Len(hs) + n + 1
    BY <2>2, <2>3 DEF NextWave
  <2>5. Contenders(hs, present) \in SUBSET Racers
    BY DEF Contenders, Standing
  <2>6. /\ new \in Seq(Heat) /\ new # <<>>
        /\ \A i \in DOMAIN new : /\ IsDrawn(new[i]) /\ DOMAIN new[i].cars # {}
                                 /\ new[i].wave = NextWave(hs)
    <3>1. ~FewerThanTwo(Contenders(hs, present)) /\ Len(lanes) >= 2
        BY <1>2 DEF Grows
    <3>2. NextWave(hs) \in Nat
        BY <2>2, <2>4
    <3> HIDE DEF NextWave
    <3> QED  BY <2>5, <3>1, <3>2, DrawsOK
  <2>7. /\ grown \in Seq(Heat) /\ Len(grown) = Len(hs) + Len(new)
        /\ Len(new) \in Nat \ {0} /\ DOMAIN new = 1..Len(new) /\ DOMAIN grown = 1..Len(grown)
    BY <2>1, <2>2, <2>6
  <2>8. ASSUME NEW i \in DOMAIN grown
        PROVE  \/ i \in DOMAIN hs /\ grown[i] = hs[i]
               \/ \E j \in DOMAIN new : grown[i] = new[j]
    <3>1. i \in 1..Len(hs) => grown[i] = hs[i]
        BY <2>1, <2>2, <2>6
    <3>2. i \notin 1..Len(hs) => i - Len(hs) \in 1..Len(new) /\ grown[i] = new[i - Len(hs)]
        BY <2>1, <2>2, <2>6, <2>7
    <3> QED  BY <2>2, <2>7, <3>1, <3>2
  <2>9. ASSUME NEW i \in DOMAIN grown
        PROVE  Sound(grown[i]) /\ grown[i].wave \in 1..Len(grown) + n
    <3>1. CASE i \in DOMAIN hs /\ grown[i] = hs[i]
      <4>1. Sound(hs[i]) /\ hs[i].wave \in 1..Len(hs) + n
        BY <3>1 DEF Rows
      <4> QED  BY <2>2, <2>7, <3>1, <4>1
    <3>2. CASE \E j \in DOMAIN new : grown[i] = new[j]
      <4>1. PICK j \in DOMAIN new : grown[i] = new[j]
        BY <3>2
      <4>2. Sound(new[j]) /\ new[j].wave = NextWave(hs)
        BY <2>6, DrawnIsSound
      <4> QED  BY <2>2, <2>4, <2>7, <4>1, <4>2
    <3> QED  BY <2>8, <3>1, <3>2
  <2>10. ASSUME NEW i \in DOMAIN grown, Alone(grown[i])
         PROVE  \E j \in DOMAIN hs : grown[i] = hs[j]
    <3>1. \A j \in DOMAIN new : ~Alone(new[j])
        BY <2>6, DrawnIsSound
    <3> QED  BY <2>8, <2>10, <3>1
  <2> QED  BY <2>7, <2>9, <2>10 DEF Rows
<1> QED  BY <1>1, <1>2

\* Drawing it again, which may be refused, leaves rows too.
LEMMA RebuiltOK ==
    ASSUME NEW hs, NEW n \in Nat, Rows(hs, n), NEW present \in SUBSET Racers,
           NEW lanes, LanesOK(lanes), NEW new \in Rebuilt(hs, present, lanes)
    PROVE  /\ Rows(new, n)
           /\ \A i \in DOMAIN new : Alone(new[i]) => \E j \in DOMAIN hs : new[i] = hs[j]
<1>1. CASE FewerThanTwo(present) \/ Len(lanes) < 2
  <2>1. new = hs
    BY <1>1 DEF Rebuilt
  <2> QED  BY <2>1
<1>2. CASE ~(FewerThanTwo(present) \/ Len(lanes) < 2)
  <2>1. new \in Draws(<<>>, present, lanes) /\ ~FewerThanTwo(present) /\ Len(lanes) >= 2
    BY <1>2 DEF Rebuilt, LanesOK
  <2>2. NextWave(<<>>) = 1
    BY DEF NextWave
  <2>3. /\ new \in Seq(Heat) /\ new # <<>>
        /\ \A i \in DOMAIN new : IsDrawn(new[i]) /\ DOMAIN new[i].cars # {} /\ new[i].wave = 1
    BY <2>1, <2>2, DrawsOK
  <2>4. Len(new) \in Nat \ {0}
    BY <2>3
  <2>5. \A i \in DOMAIN new : Sound(new[i]) /\ ~Alone(new[i]) /\ new[i].wave \in 1..Len(new) + n
    BY <2>3, <2>4, DrawnIsSound
  <2> QED  BY <2>3, <2>5 DEF Rows
<1> QED  BY <1>1, <1>2

-----------------------------------------------------------------------------
(* What rewrites the heats there are.                                      *)

LaneCars == UNION {[D -> Racers \cup {Nobody}] : D \in SUBSET Lanes}

LEMMA ThinnedOK ==
    ASSUME NEW h \in Heat, Sound(h), ~HasResults(h), NEW cars \in LaneCars, DOMAIN cars # {}
    PROVE  /\ Thinned(h, cars) \in Heat /\ Sound(Thinned(h, cars)) /\ ~Alone(Thinned(h, cars))
           /\ Thinned(h, cars).wave = h.wave
<1> DEFINE t == Thinned(h, cars)
<1>1. /\ t \in Heat /\ t.cars = cars /\ t.wave = h.wave /\ t.order = h.order /\ t.dnf = h.dnf
      /\ t.zeroed = h.zeroed /\ t.passed = (h.passed \/ FewerThanTwo(Range(cars) \ {Nobody}))
    BY DEF Thinned, Heat, LaneCars
<1> HIDE DEF t
<1>2. Finished(t) = {} /\ ~HasResults(t)
    BY <1>1 DEF Finished, HasResults
<1>3. Sound(t)
    BY <1>1, <1>2 DEF Sound
<1>4. ~Alone(t)
    BY <1>1 DEF Alone, Waits, Cars
<1> QED  BY <1>1, <1>3, <1>4 DEF t

\* Rewriting rows one by one, each to one of the same wave.
LEMMA RewrittenOK ==
    ASSUME NEW hs, NEW n \in Nat, Rows(hs, n), NEW new,
           new = [i \in DOMAIN hs |-> new[i]],
           \A i \in DOMAIN hs : new[i] \in Heat /\ Sound(new[i]) /\ new[i].wave = hs[i].wave
    PROVE  Rows(new, n) /\ DOMAIN new = DOMAIN hs
<1>1. DOMAIN hs = 1..Len(hs) /\ Len(hs) \in Nat
    BY DEF Rows
<1>2. new = [i \in 1..Len(hs) |-> new[i]]
    BY <1>1
<1>3. new \in Seq(Heat) /\ Len(new) = Len(hs)
    BY <1>1, <1>2
<1>4. \A i \in DOMAIN new : Sound(new[i]) /\ new[i].wave \in 1..Len(new) + n
    BY <1>1, <1>3 DEF Rows
<1> QED  BY <1>2, <1>3, <1>4, <1>1 DEF Rows

LEMMA VacatedOK ==
    ASSUME NEW hs, NEW n \in Nat, Rows(hs, n), NEW gone
    PROVE  /\ Rows(Vacated(hs, gone), n) /\ DOMAIN Vacated(hs, gone) = DOMAIN hs
           /\ \A i \in DOMAIN hs : Alone(Vacated(hs, gone)[i]) => Vacated(hs, gone)[i] = hs[i]
<1> DEFINE new == Vacated(hs, gone)
           cars(i) == [l \in DOMAIN hs[i].cars |->
                          IF hs[i].cars[l] \in gone THEN Nobody ELSE hs[i].cars[l]]
<1>1. ASSUME NEW i \in DOMAIN hs
      PROVE  /\ new[i] \in Heat /\ Sound(new[i]) /\ new[i].wave = hs[i].wave
             /\ Alone(new[i]) => new[i] = hs[i]
  <2>1. hs[i] \in Heat /\ Sound(hs[i])
    BY DEF Rows
  <2>2. CASE ~Vacates(hs[i], gone)
    <3>1. new[i] = hs[i]
        BY <2>2 DEF Vacated
    <3> QED  BY <2>1, <3>1
  <2>3. CASE Vacates(hs[i], gone)
    <3>1. new[i] = Thinned(hs[i], cars(i))
        BY <2>3 DEF Vacated
    <3>2. cars(i) \in LaneCars
        BY <2>1 DEF Heat, LaneCars
    <3>3. DOMAIN cars(i) # {}
        BY <2>1 DEF Sound
    <3>4. ~HasResults(hs[i])
        BY <2>3 DEF Vacates, Waits
    <3> HIDE DEF cars
    <3> QED  BY <2>1, <3>1, <3>2, <3>3, <3>4, ThinnedOK
  <2> QED  BY <2>2, <2>3
<1>2. new = [i \in DOMAIN hs |-> new[i]]
    BY DEF Vacated
<1> QED  BY <1>1, <1>2, RewrittenOK

LEMMA RelanedOK ==
    ASSUME NEW hs, NEW n \in Nat, Rows(hs, n), NEW lanes, LanesOK(lanes), round \in RoundKinds
    PROVE  /\ Rows(Relaned(hs, lanes), n) /\ DOMAIN Relaned(hs, lanes) = DOMAIN hs
           /\ \A i \in DOMAIN hs : Alone(Relaned(hs, lanes)[i]) => Relaned(hs, lanes)[i] = hs[i]
<1> DEFINE new == Relaned(hs, lanes)
<1>1. 1 \in Lanes
  <2>1. round.width \in Nat /\ round.width >= 2
    BY RoundKindsAssumption
  <2> QED  BY <2>1 DEF Lanes
<1>2. lanes # <<>> => lanes[1] \in Lanes
    BY DEF LanesOK
<1>3. ASSUME NEW i \in DOMAIN hs
      PROVE  /\ new[i] \in Heat /\ Sound(new[i]) /\ new[i].wave = hs[i].wave
             /\ Alone(new[i]) => new[i] = hs[i]
  <2>1. hs[i] \in Heat /\ Sound(hs[i])
    BY DEF Rows
  <2>2. CASE ~Relanes(hs[i], lanes)
    <3>1. new[i] = hs[i]
        BY <2>2 DEF Relaned
    <3> QED  BY <2>1, <3>1
  <2>3. CASE Relanes(hs[i], lanes)
    <3>1. new[i] = Thinned(hs[i], LanesLeft(hs[i], lanes))
        BY <2>3 DEF Relaned
    <3>2. LanesLeft(hs[i], lanes) \in LaneCars /\ DOMAIN LanesLeft(hs[i], lanes) # {}
      <4> DEFINE left == Restrict(hs[i].cars, DOMAIN hs[i].cars \cap Range(lanes))
                 l == IF lanes = <<>> THEN 1 ELSE lanes[1]
      <4>1. left \in LaneCars
        <5>1. PICK D \in SUBSET Lanes : hs[i].cars \in [D -> Racers \cup {Nobody}]
            BY <2>1 DEF Heat
        <5>2. left \in [D \cap Range(lanes) -> Racers \cup {Nobody}]
            BY <5>1 DEF Restrict
        <5>3. D \cap Range(lanes) \in SUBSET Lanes
            OBVIOUS
        <5> QED  BY <5>2, <5>3 DEF LaneCars
      <4>2. [x \in {l} |-> Nobody] \in LaneCars
        <5>1. l \in Lanes
            BY <1>1, <1>2
        <5> HIDE DEF l
        <5>2. [x \in {l} |-> Nobody] \in [{l} -> Racers \cup {Nobody}] /\ {l} \in SUBSET Lanes
            BY <5>1
        <5> QED  BY <5>2 DEF LaneCars
      <4>3. LanesLeft(hs[i], lanes) = IF DOMAIN left # {} THEN left ELSE [x \in {l} |-> Nobody]
        BY DEF LanesLeft
      <4> HIDE DEF left, l
      <4> QED  BY <4>1, <4>2, <4>3
    <3>3. ~HasResults(hs[i])
        BY <2>3 DEF Relanes
    <3> QED  BY <2>1, <3>1, <3>2, <3>3, ThinnedOK
  <2> QED  BY <2>2, <2>3
<1>4. new = [i \in DOMAIN hs |-> new[i]]
    BY DEF Relaned
<1> QED  BY <1>3, <1>4, RewrittenOK

\* A result: the cars of the heat, in the order they finished in, or not.
LEMMA RunsOK ==
    ASSUME NEW h \in Heat, DOMAIN h.cars # {}, NEW cars \in SUBSET Cars(h), NEW r \in Runs(h, cars)
    PROVE  r \in Heat /\ Sound(r) /\ r.cars = h.cars /\ r.wave = h.wave
<1>1. PICK out \in SUBSET cars, z \in BOOLEAN : (z => out # {}) /\ r \in Results(h, cars, out, z)
  <2>1. \A out \in DidNotFinish(cars) : out \in SUBSET cars
    BY DEF DidNotFinish
  <2>2. \/ \E out \in DidNotFinish(cars) : r \in Results(h, cars, out, FALSE)
        \/ \E out \in DidNotFinish(cars) \ {{}} : r \in Results(h, cars, out, TRUE)
    BY DEF Runs
  <2>3. CASE \E out \in DidNotFinish(cars) : r \in Results(h, cars, out, FALSE)
    <3>1. PICK out \in DidNotFinish(cars) : r \in Results(h, cars, out, FALSE)
        BY <2>3
    <3> QED  BY <2>1, <3>1, Zenon
  <2>4. CASE \E out \in DidNotFinish(cars) \ {{}} : r \in Results(h, cars, out, TRUE)
    <3>1. PICK out \in DidNotFinish(cars) : out # {} /\ r \in Results(h, cars, out, TRUE)
        BY <2>4
    <3> QED  BY <2>1, <3>1, Zenon
  <2> QED  BY <2>2, <2>3, <2>4
<1> DEFINE ran == cars \ out
           n == Cardinality(ran)
<1>2. PICK o \in Injection(1..n, ran) :
        r = [h EXCEPT !.order = o, !.dnf = out, !.zeroed = z, !.passed = FALSE]
    BY <1>1 DEF Results
<1>3. Cars(h) \subseteq Racers
    BY DEF Heat, Cars, Range
<1>4. ran \subseteq Racers /\ out \subseteq Racers /\ ran \cap out = {} /\ ran \cup out \subseteq Cars(h)
    BY <1>3
<1>5. n \in Nat
  <2>1. IsFiniteSet(ran)
    BY <1>4, RacersAssumption, FS_Subset
  <2> QED  BY <2>1, FS_CardinalityType
<1>6. z \in BOOLEAN /\ (z => out # {})
    BY <1>1
<1> HIDE DEF ran, n
<1>7. o \in [1..n -> ran] /\ IsInjective(o)
    BY DEF Injection
<1>8. o \in Seq(Racers)
    BY <1>4, <1>5, <1>7
<1>9. Range(o) \subseteq ran
    BY <1>7 DEF Range
<1>10. /\ r.cars = h.cars /\ r.wave = h.wave /\ r.order = o /\ r.dnf = out /\ r.zeroed = z
      /\ r.passed = FALSE /\ r \in Heat
    BY <1>2, <1>4, <1>6, <1>8 DEF Heat
<1>11. Finished(r) \subseteq Cars(r)
    BY <1>4, <1>9, <1>10 DEF Finished, Cars
<1>12. Sound(r)
    BY <1>4, <1>6, <1>7, <1>9, <1>10, <1>11 DEF Sound
<1> QED  BY <1>10, <1>12

-----------------------------------------------------------------------------
(* The steps.                                                              *)

\* Every car that is alone in a heat that waits was alone in it before.
LonesFrom(new, old) ==
    \A i \in DOMAIN new :
        Alone(new[i]) => \E j \in DOMAIN old : old[j].cars = new[i].cars /\ old[j].wave = new[i].wave

Keeps ==
    /\ round' = round /\ checkedIn' \subseteq Racers /\ LanesOK(usable')
    /\ disrupted' \in BOOLEAN /\ changes' \in 0..round.changes
    /\ Rows(heats', changes') /\ LonesFrom(heats', heats)

LEMMA RowsLast ==
    ASSUME NEW hs, NEW n \in Nat, NEW m \in Nat, n <= m, Rows(hs, n)
    PROVE  Rows(hs, m)
<1>1. Len(hs) \in Nat
    BY DEF Rows
<1> QED  BY <1>1 DEF Rows

LEMMA OneRewritten ==
    ASSUME NEW hs, NEW n \in Nat, Rows(hs, n), NEW i \in DOMAIN hs, NEW h \in Heat, Sound(h),
           h.cars = hs[i].cars, h.wave = hs[i].wave
    PROVE  Rows([hs EXCEPT ![i] = h], n) /\ LonesFrom([hs EXCEPT ![i] = h], hs)
<1> DEFINE new == [hs EXCEPT ![i] = h]
<1>1. \A j \in DOMAIN hs : new[j] = IF j = i THEN h ELSE hs[j]
    BY DEF Rows
<1>2. new = [j \in DOMAIN hs |-> new[j]]
    BY DEF Rows
<1>3. \A j \in DOMAIN hs : hs[j] \in Heat /\ Sound(hs[j])
    BY DEF Rows
<1> HIDE DEF new
<1>4. \A j \in DOMAIN hs : /\ new[j] \in Heat /\ Sound(new[j])
                           /\ new[j].wave = hs[j].wave /\ new[j].cars = hs[j].cars
    BY <1>1, <1>3
<1>5. Rows(new, n) /\ DOMAIN new = DOMAIN hs
    BY <1>2, <1>4, RewrittenOK
<1>6. LonesFrom(new, hs)
    BY <1>4, <1>5 DEF LonesFrom
<1> QED  BY <1>5, <1>6 DEF new

LEMMA ExtendKeeps ==
    ASSUME NEW hs, NEW marked \in BOOLEAN, Extend(hs, marked), IInv, round' = round,
           checkedIn' \subseteq Racers, LanesOK(usable'), changes' \in 0..round.changes,
           Rows(hs, changes'), LonesFrom(hs, heats)
    PROVE  Keeps
<1>1. PICK grown \in Extended(hs, checkedIn', usable') :
        /\ heats' = grown
        /\ disrupted' = (disrupted \/ marked \/ (grown # hs /\ Uneven(hs, checkedIn')))
    BY DEF Extend
<1>2. changes' \in Nat
    BY RoundKindsAssumption DEF IInv
<1>3. /\ Rows(grown, changes')
      /\ \A i \in DOMAIN grown : Alone(grown[i]) => \E j \in DOMAIN hs : grown[i] = hs[j]
    BY <1>2, ExtendedOK
<1>4. LonesFrom(grown, heats)
    BY <1>3 DEF LonesFrom
<1>5. disrupted' \in BOOLEAN
    BY <1>1
<1> QED  BY <1>1, <1>3, <1>4, <1>5 DEF Keeps

LEMMA RebuildKeeps ==
    ASSUME Rebuild, IInv, round' = round, checkedIn' \subseteq Racers, LanesOK(usable'),
           changes' \in 0..round.changes, Rows(heats, changes')
    PROVE  Keeps
<1>1. PICK new \in Rebuilt(heats, checkedIn', usable') : heats' = new /\ disrupted' = disrupted
    BY DEF Rebuild
<1>2. changes' \in Nat
    BY RoundKindsAssumption DEF IInv
<1>3. /\ Rows(new, changes')
      /\ \A i \in DOMAIN new : Alone(new[i]) => \E j \in DOMAIN heats : new[i] = heats[j]
    BY <1>2, RebuiltOK
<1>4. LonesFrom(new, heats)
    BY <1>3 DEF LonesFrom
<1> QED  BY <1>1, <1>3, <1>4 DEF Keeps, IInv

\* An operation on the rows: what was so of them is, however often it has happened.
LEMMA ChangeKeeps ==
    ASSUME IInv, Change
    PROVE  /\ round' = round /\ changes' = changes + 1 /\ changes' \in 0..round.changes
           /\ changes' \in Nat /\ Rows(heats, changes')
<1>1. round' = round /\ changes' = changes + 1 /\ changes < round.changes
    BY DEF Change
<1>2. round \in RoundKinds /\ changes \in 0..round.changes /\ Rows(heats, changes)
    BY DEF IInv
<1>3. round.changes \in Nat
    BY <1>2, RoundKindsAssumption
<1>4. changes \in Nat /\ changes + 1 \in Nat /\ changes <= changes + 1
    BY <1>2, <1>3
<1> QED  BY <1>1, <1>2, <1>3, <1>4, RowsLast

\* A heat and what is recorded of it.
LEMMA RecordKeeps ==
    ASSUME IInv, NEW i \in DOMAIN heats, NEW h \in Heat, Sound(h),
           h.cars = heats[i].cars, h.wave = heats[i].wave, RecordHeatResult(i, h),
           round' = round, changes' \in 0..round.changes, changes' \in Nat, Rows(heats, changes')
    PROVE  Keeps
<1>1. UNCHANGED <<checkedIn, usable>> /\ Extend([heats EXCEPT ![i] = h], FALSE)
    BY DEF RecordHeatResult
<1>2. Rows([heats EXCEPT ![i] = h], changes') /\ LonesFrom([heats EXCEPT ![i] = h], heats)
    BY OneRewritten
<1> QED  BY <1>1, <1>2, ExtendKeeps DEF IInv

LEMMA RowOf ==
    ASSUME IInv, NEW i \in DOMAIN heats
    PROVE  heats[i] \in Heat /\ Sound(heats[i]) /\ DOMAIN heats[i].cars # {}
BY DEF IInv, Rows, Sound

LEMMA RaceKeeps == ASSUME IInv, Race PROVE Keeps
<1>1. PICK i \in DOMAIN heats : /\ \E h \in Runs(heats[i], Cars(heats[i])) : RecordHeatResult(i, h)
                                /\ UNCHANGED <<round, changes>>
    BY DEF Race
<1>2. PICK h \in Runs(heats[i], Cars(heats[i])) : RecordHeatResult(i, h)
    BY <1>1
<1>3. h \in Heat /\ Sound(h) /\ h.cars = heats[i].cars /\ h.wave = heats[i].wave
    BY RowOf, RunsOK
<1>4. changes' \in 0..round.changes /\ changes' \in Nat /\ Rows(heats, changes')
    BY <1>1, RoundKindsAssumption DEF IInv
<1> QED  BY <1>1, <1>2, <1>3, <1>4, RecordKeeps

LEMMA CorrectKeeps == ASSUME IInv, Correct PROVE Keeps
<1>1. PICK i \in DOMAIN heats : /\ \E h \in Runs(heats[i], Cars(heats[i])) : RecordHeatResult(i, h)
                                /\ Change
    BY DEF Correct
<1>2. PICK h \in Runs(heats[i], Cars(heats[i])) : RecordHeatResult(i, h)
    BY <1>1
<1>3. h \in Heat /\ Sound(h) /\ h.cars = heats[i].cars /\ h.wave = heats[i].wave
    BY RowOf, RunsOK
<1> QED  BY <1>1, <1>2, <1>3, ChangeKeeps, RecordKeeps

LEMMA RecordPartKeeps == ASSUME IInv, RecordPart PROVE Keeps
<1>1. PICK i \in DOMAIN heats :
        /\ \E cars \in SUBSET Cars(heats[i]) :
              \E h \in Runs(heats[i], cars) : RecordHeatResult(i, h)
        /\ Change
    BY DEF RecordPart
<1>2. PICK cars \in SUBSET Cars(heats[i]) :
        \E h \in Runs(heats[i], cars) : RecordHeatResult(i, h)
    BY <1>1
<1> PICK h \in Runs(heats[i], cars) : RecordHeatResult(i, h)
    BY <1>2
<1>3. h \in Heat /\ Sound(h) /\ h.cars = heats[i].cars /\ h.wave = heats[i].wave
    BY RowOf, RunsOK
<1> QED  BY <1>1, <1>2, <1>3, ChangeKeeps, RecordKeeps

\* A heat that is put back to wait, and one that is passed over, are rows still.
LEMMA ClearedRow ==
    ASSUME IInv, NEW i \in DOMAIN heats
    PROVE  LET h == NewHeat(heats[i].cars, heats[i].wave)
           IN  h \in Heat /\ Sound(h) /\ h.cars = heats[i].cars /\ h.wave = heats[i].wave
<1> DEFINE h == NewHeat(heats[i].cars, heats[i].wave)
<1>1. h \in Heat /\ h.cars = heats[i].cars /\ h.wave = heats[i].wave
    BY RowOf DEF NewHeat, Heat
<1>2. h.order = <<>> /\ h.dnf = {} /\ h.passed = FALSE /\ h.zeroed = FALSE
    BY DEF NewHeat
<1>3. Range(h.order) = {} /\ IsInjective(h.order)
    BY <1>2 DEF Range, IsInjective
<1> HIDE DEF h
<1>4. Sound(h)
    BY <1>1, <1>2, <1>3, RowOf DEF Sound, Finished
<1> QED  BY <1>1, <1>4 DEF h

LEMMA SkippedRow ==
    ASSUME IInv, NEW i \in DOMAIN heats, Waits(heats[i])
    PROVE  LET h == [heats[i] EXCEPT !.passed = TRUE]
           IN  h \in Heat /\ Sound(h) /\ h.cars = heats[i].cars /\ h.wave = heats[i].wave
<1> DEFINE h == [heats[i] EXCEPT !.passed = TRUE]
<1>1. h \in Heat /\ h.cars = heats[i].cars /\ h.wave = heats[i].wave
    BY RowOf DEF Heat
<1>2. h.order = heats[i].order /\ h.dnf = heats[i].dnf /\ h.zeroed = heats[i].zeroed
    BY RowOf DEF Heat
<1> HIDE DEF h
<1>3. Finished(h) = Finished(heats[i]) /\ ~HasResults(h) /\ Cars(h) = Cars(heats[i])
    BY <1>1, <1>2 DEF Finished, HasResults, Waits, Cars
<1>4. Sound(h)
    BY <1>1, <1>2, <1>3, RowOf DEF Sound
<1> QED  BY <1>1, <1>4 DEF h

LEMMA ClearKeeps == ASSUME IInv, Clear PROVE Keeps
<1>1. PICK i \in DOMAIN heats :
        RecordHeatResult(i, NewHeat(heats[i].cars, heats[i].wave)) /\ Change
    BY DEF Clear
<1> QED  BY <1>1, ClearedRow, ChangeKeeps, RecordKeeps

LEMMA SkipKeeps == ASSUME IInv, Skip PROVE Keeps
<1>1. PICK i \in DOMAIN heats :
        Waits(heats[i]) /\ RecordHeatResult(i, [heats[i] EXCEPT !.passed = TRUE]) /\ Change
    BY DEF Skip
<1> QED  BY <1>1, SkippedRow, ChangeKeeps, RecordKeeps

LEMMA SweepKeeps ==
    ASSUME IInv, Sweep, Change, checkedIn' \subseteq Racers, UNCHANGED usable
    PROVE  Keeps
<1> DEFINE gone == Scheduled(heats) \ checkedIn'
<1>1. \/ Rebuild
      \/ Extend(Vacated(heats, gone), FALSE)
      \/ UNCHANGED <<heats, disrupted>>
    BY DEF Sweep
<1>2. LanesOK(usable')
    BY DEF IInv
<1>3. CASE Rebuild
    BY <1>2, <1>3, ChangeKeeps, RebuildKeeps
<1>4. CASE Extend(Vacated(heats, gone), FALSE)
  <2> HIDE DEF gone
  <2>1. /\ Rows(Vacated(heats, gone), changes') /\ DOMAIN Vacated(heats, gone) = DOMAIN heats
        /\ \A i \in DOMAIN heats :
              Alone(Vacated(heats, gone)[i]) => Vacated(heats, gone)[i] = heats[i]
    BY ChangeKeeps, VacatedOK
  <2>2. LonesFrom(Vacated(heats, gone), heats)
    BY <2>1 DEF LonesFrom
  <2> QED  BY <1>2, <1>4, <2>1, <2>2, ChangeKeeps, ExtendKeeps
<1>5. CASE UNCHANGED <<heats, disrupted>>
    BY <1>2, <1>5, ChangeKeeps DEF Keeps, IInv, LonesFrom
<1> QED  BY <1>1, <1>3, <1>4, <1>5

LEMMA CheckOutKeeps == ASSUME IInv, CheckOut PROVE Keeps
<1>1. checkedIn' \subseteq Racers /\ UNCHANGED usable /\ Sweep /\ Change
    BY DEF CheckOut, IInv
<1> QED  BY <1>1, SweepKeeps

LEMMA CheckInKeeps == ASSUME IInv, CheckIn PROVE Keeps
<1>1. checkedIn' \subseteq Racers /\ UNCHANGED usable /\ Sweep /\ Change
    BY DEF CheckIn, IInv
<1> QED  BY <1>1, SweepKeeps

LEMMA SetLaneOutagesKeeps == ASSUME IInv, SetLaneOutages PROVE Keeps
<1>1. /\ \E n \in 0..round.width : usable' \in Ascending(n)
      /\ checkedIn' = checkedIn /\ Change
      /\ \/ Rebuild
         \/ Extend(Relaned(heats, usable'), TRUE)
         \/ UNCHANGED <<heats, disrupted>>
    BY DEF SetLaneOutages
<1>2. LanesOK(usable')
  <2>1. PICK n \in 0..round.width : usable' \in Ascending(n)
    BY <1>1
  <2>2. n \in Nat /\ round.width \in Nat
    <3>1. round \in RoundKinds
        BY DEF IInv
    <3>2. round.width \in Nat
        BY <3>1, RoundKindsAssumption
    <3> QED  BY <3>2
  <2>3. usable' \in [1..n -> Lanes] /\ \A j, k \in 1..n : j < k => usable'[j] < usable'[k]
    BY <2>1 DEF Ascending, Lanes
  <2>4. usable' \in Seq(Lanes)
    BY <2>2, <2>3
  <2>5. \A j, k \in 1..n : usable'[j] = usable'[k] => j = k
    <3> SUFFICES ASSUME NEW j \in 1..n, NEW k \in 1..n, usable'[j] = usable'[k], j # k PROVE FALSE
        OBVIOUS
    <3>1. usable'[j] \in Int /\ usable'[k] \in Int
        BY <2>3 DEF Lanes
    <3>2. j < k \/ k < j
        BY <2>2
    <3> QED  BY <2>3, <3>1, <3>2
  <2> QED  BY <2>3, <2>4, <2>5 DEF LanesOK, IsInjective
<1>3. checkedIn' \subseteq Racers /\ round \in RoundKinds
    BY <1>1 DEF IInv
<1>4. CASE Rebuild
    BY <1>1, <1>2, <1>3, <1>4, ChangeKeeps, RebuildKeeps
<1>5. CASE Extend(Relaned(heats, usable'), TRUE)
  <2>1. /\ Rows(Relaned(heats, usable'), changes') /\ DOMAIN Relaned(heats, usable') = DOMAIN heats
        /\ \A i \in DOMAIN heats :
              Alone(Relaned(heats, usable')[i]) => Relaned(heats, usable')[i] = heats[i]
    BY <1>1, <1>2, <1>3, ChangeKeeps, RelanedOK
  <2>2. LonesFrom(Relaned(heats, usable'), heats)
    BY <2>1 DEF LonesFrom
  <2> QED  BY <1>1, <1>2, <1>3, <1>5, <2>1, <2>2, ChangeKeeps, ExtendKeeps
<1>6. CASE UNCHANGED <<heats, disrupted>>
    BY <1>1, <1>2, <1>3, <1>6, ChangeKeeps DEF Keeps, IInv, LonesFrom
<1> QED  BY <1>1, <1>4, <1>5, <1>6

LEMMA DeleteHeatKeeps == ASSUME IInv, DeleteHeat PROVE Keeps
<1>1. PICK i \in DOMAIN heats :
        /\ heats' = [j \in 1..Len(heats) - 1 |-> heats[IF j < i THEN j ELSE j + 1]]
        /\ UNCHANGED <<disrupted, checkedIn, usable>> /\ Change
    BY DEF DeleteHeat
<1>2. heats \in Seq(Heat) /\ Len(heats) \in Nat /\ DOMAIN heats = 1..Len(heats)
    BY DEF IInv, Rows
<1>3. Len(heats) - 1 \in Nat
    BY <1>2
<1>4. ASSUME NEW j \in 1..Len(heats) - 1
      PROVE  heats'[j] \in Heat /\ \E k \in DOMAIN heats : heats'[j] = heats[k]
  <2>1. (IF j < i THEN j ELSE j + 1) \in 1..Len(heats)
    BY <1>2, <1>3
  <2> QED  BY <1>1, <1>2, <2>1
<1>5. heats' \in Seq(Heat) /\ Len(heats') = Len(heats) - 1 /\ DOMAIN heats' = 1..Len(heats) - 1
    BY <1>1, <1>3, <1>4
<1>6. changes \in Nat /\ changes' = changes + 1
    BY <1>1, ChangeKeeps, RoundKindsAssumption DEF IInv
<1>7. ASSUME NEW j \in DOMAIN heats'
      PROVE  /\ Sound(heats'[j]) /\ heats'[j].wave \in 1..Len(heats') + changes'
             /\ \E k \in DOMAIN heats : heats'[j] = heats[k]
  <2>1. PICK k \in DOMAIN heats : heats'[j] = heats[k]
    BY <1>4, <1>5
  <2>2. Sound(heats[k]) /\ heats[k].wave \in 1..Len(heats) + changes
    BY DEF IInv, Rows
  <2> QED  BY <1>2, <1>5, <1>6, <2>1, <2>2
<1>8. Rows(heats', changes') /\ LonesFrom(heats', heats)
    BY <1>5, <1>7 DEF Rows, LonesFrom
<1> QED  BY <1>1, <1>8, ChangeKeeps DEF Keeps, IInv

LEMMA RegenerateRoundKeeps == ASSUME IInv, RegenerateRound PROVE Keeps
<1>1. UNCHANGED <<checkedIn, usable>> /\ Rebuild /\ Change
    BY DEF RegenerateRound
<1> QED  BY <1>1, ChangeKeeps, RebuildKeeps DEF IInv

LEMMA NextKeeps == ASSUME IInv, Next PROVE Keeps
BY RaceKeeps, CorrectKeeps, RecordPartKeeps, ClearKeeps, SkipKeeps, CheckOutKeeps, CheckInKeeps,
   SetLaneOutagesKeeps, DeleteHeatKeeps, RegenerateRoundKeeps DEF Next

LEMMA TwoAreTwo == ASSUME NEW S, Cardinality(S) >= 2 PROVE ~FewerThanTwo(S)
<1> SUFFICES ASSUME FewerThanTwo(S) PROVE FALSE
    OBVIOUS
<1>1. CASE S = {}
    BY <1>1, FS_EmptySet
<1>2. CASE S # {}
  <2>1. PICK q : S = {q}
    BY <1>2 DEF FewerThanTwo
  <2>2. Cardinality({q}) = 1
    BY FS_Singleton
  <2> QED  BY <2>1, <2>2
<1> QED  BY <1>1, <1>2

LEMMA InitEstablishes == Init => IInv
<1> SUFFICES ASSUME Init PROVE IInv
    OBVIOUS
<1>1. /\ round \in RoundKinds /\ checkedIn = Racers \ round.late
      /\ heats \in Draws(<<>>, checkedIn, usable) /\ disrupted = FALSE /\ changes = 0
      /\ usable = [l \in 1..round.width |-> l]
    BY DEF Init
<1>2. /\ round.width \in Nat /\ round.width >= 2 /\ round.changes \in Nat
      /\ Cardinality(checkedIn) >= 2
    BY <1>1, RoundKindsAssumption
<1>3. LanesOK(usable) /\ Len(usable) >= 2
  <2>1. usable \in Seq(Lanes) /\ Len(usable) = round.width
    BY <1>1, <1>2 DEF Lanes
  <2> QED  BY <1>1, <1>2, <2>1 DEF LanesOK, IsInjective
<1>4. ~FewerThanTwo(checkedIn)
    BY <1>2, TwoAreTwo
<1>5. NextWave(<<>>) = 1 /\ checkedIn \in SUBSET Racers
    BY <1>1 DEF NextWave
<1>6. /\ heats \in Seq(Heat) /\ heats # <<>>
      /\ \A i \in DOMAIN heats : IsDrawn(heats[i]) /\ DOMAIN heats[i].cars # {} /\ heats[i].wave = 1
  <2> HIDE DEF NextWave
  <2>1. NextWave(<<>>) \in Nat
    BY <1>5
  <2>2. heats \in Draws(<<>>, checkedIn, usable) /\ checkedIn \in SUBSET Racers
    BY <1>1, <1>5
  <2>3. /\ heats \in Seq(Heat) /\ heats # <<>>
        /\ \A i \in DOMAIN heats : /\ IsDrawn(heats[i]) /\ DOMAIN heats[i].cars # {}
                                   /\ heats[i].wave = NextWave(<<>>)
    BY <1>3, <1>4, <2>1, <2>2, DrawsOK, Zenon
  <2> QED  BY <1>5, <2>3
<1>7. Rows(heats, 0)
  <2>1. Len(heats) \in Nat \ {0}
    BY <1>6
  <2>2. \A i \in DOMAIN heats : Sound(heats[i]) /\ heats[i].wave \in 1..Len(heats) + 0
    BY <1>6, <2>1, DrawnIsSound
  <2> QED  BY <1>6, <2>2 DEF Rows
<1>8. changes \in 0..round.changes /\ Rows(heats, changes)
    BY <1>1, <1>2, <1>7
<1>9. disrupted \in BOOLEAN
    BY <1>1
<1> QED  BY <1>1, <1>3, <1>5, <1>8, <1>9 DEF IInv

LEMMA KeepsInvariant == ASSUME IInv, Keeps PROVE IInv'
<1>1. /\ round' = round /\ checkedIn' \subseteq Racers /\ LanesOK(usable')
      /\ disrupted' \in BOOLEAN /\ changes' \in 0..round.changes /\ Rows(heats', changes')
    BY DEF Keeps
<1> QED  BY <1>1 DEF IInv, LanesOK, Rows, Heat, Lanes

LEMMA Inductive == IInv /\ [Next]_vars => IInv'
<1> SUFFICES ASSUME IInv, [Next]_vars PROVE IInv'
    OBVIOUS
<1>1. CASE Next
    BY <1>1, NextKeeps, KeepsInvariant
<1>2. CASE UNCHANGED vars
    BY <1>2 DEF vars, IInv, LanesOK, Rows, Heat, Lanes
<1> QED  BY <1>1, <1>2

\* Whatever is recorded, corrected, withdrawn, checked in, deleted or drawn again, a round's
\* rows are well formed: results are of the heat's own cars, on lanes of the track
\* (record_heat_result, withdraw_absent_racers, apply_outages_to_scheduled_heats).
THEOREM TypeCorrect == Spec => []TypeOK
<1>1. Spec => []IInv
    BY InitEstablishes, Inductive, PTL DEF Spec
<1> QED  BY <1>1, InvariantImpliesType, PTL

\* Nobody is left by itself in a heat that waits, neither by a draw nor by what rewrites
\* one (chunk_heats, pass_over_if_alone), whatever the roster, the track and the round.
THEOREM NobodyAlone == Spec => NobodyRacesAlone
<1> DEFINE Lones == \A i \in DOMAIN heats' :
                        Alone(heats'[i]) =>
                            \E j \in DOMAIN heats :
                                heats[j].cars = heats'[i].cars /\ heats[j].wave = heats'[i].wave
<1>1. IInv /\ [Next]_vars => [Lones]_vars
    BY NextKeeps DEF Keeps, LonesFrom
<1>2. Spec => []IInv
    BY InitEstablishes, Inductive, PTL DEF Spec
<1> HIDE DEF Lones
<1>3. Spec => [][Lones]_vars
    BY <1>1, <1>2, PTL DEF Spec
<1> QED  BY <1>3 DEF NobodyRacesAlone, Lones

-----------------------------------------------------------------------------
(* Who is in the heats that are drawn: everybody of the field, once.       *)

\* Nobody is in two heats.
Once(hs) == \A q \in Racers : \A i, j \in DOMAIN hs :
                q \in Cars(hs[i]) /\ q \in Cars(hs[j]) => i = j

\* A group on as many lanes, each car of it on one.
LEMMA GroupIsSeated ==
    ASSUME NEW hs, NEW group \in Seq(Racers), NEW lanes, LanesOK(lanes),
           Len(group) \in 2..Len(lanes),
           \A x, y \in DOMAIN group : group[x] = group[y] => x = y,
           NEW cars \in Seatings(hs, group, lanes), NEW w
    PROVE  Cars(NewHeat(cars, w)) = Range(group)
<1> DEFINE n == Len(group)
           D == {lanes[k] : k \in DOMAIN group}
           f == [k \in 1..n |-> lanes[k]]
           g == [k \in 1..n |-> group[k]]
<1>1. n \in Nat /\ DOMAIN group = 1..n /\ 1..n \subseteq DOMAIN lanes
    BY DEF LanesOK
<1>2. IsFiniteSet(1..n)
    BY <1>1, FS_Interval
<1> HIDE DEF n
<1>3. f \in Bijection(1..n, D)
    BY <1>1 DEF LanesOK, IsInjective, Bijection, Injection, Surjection
<1>4. g \in Bijection(1..n, Range(group))
    BY <1>1 DEF IsInjective, Bijection, Injection, Surjection, Range
<1> HIDE DEF D, f, g
<1>5. /\ IsFiniteSet(D) /\ Cardinality(D) = Cardinality(1..n)
      /\ IsFiniteSet(Range(group)) /\ Cardinality(Range(group)) = Cardinality(1..n)
    BY <1>2, <1>3, <1>4, FS_Bijection DEF ExistsBijection
<1>6. cars \in Injection(D, Range(group))
    BY DEF Seatings, D
<1>7. cars \in Surjection(D, Range(group))
    BY <1>5, <1>6, FS_Injection
<1>8. Range(cars) = Range(group)
    BY <1>7 DEF Surjection, Range
<1>9. Range(group) \subseteq Racers /\ 0 \notin Racers
    BY <1>1, RacersAssumption DEF Range
<1> QED  BY <1>8, <1>9 DEF Cars, NewHeat, Nobody

\* The order a field is drawn in has everybody of it.
LEMMA OrderHasAll ==
    ASSUME NEW hs, NEW field \in SUBSET Racers, NEW o \in Orders(hs, field), NEW q \in field
    PROVE  \E x \in 1..Len(o) : o[x] = q
<1> DEFINE n == Cardinality(field)
<1>1. IsFiniteSet(field) /\ n \in Nat
    BY RacersAssumption, FS_Subset, FS_CardinalityType
<1>2. IsFiniteSet(1..n) /\ Cardinality(1..n) = n
    BY <1>1, FS_Interval
<1>3. o \in Injection(1..n, field)
    BY DEF Orders
<1>4. o \in Surjection(1..n, field)
    BY <1>1, <1>2, <1>3, FS_Injection
<1> HIDE DEF n
<1>5. o \in [1..n -> field] /\ \E x \in 1..n : o[x] = q
    BY <1>4 DEF Surjection
<1>6. Len(o) = n
    BY <1>1, <1>5
<1> QED  BY <1>5, <1>6

\* What is drawn of a field puts nobody in two heats and nobody else in any, and
\* on three lanes or more leaves nobody out.
LEMMA DrawsSeat ==
    ASSUME NEW hs, NEW field \in SUBSET Racers, ~FewerThanTwo(field),
           NEW lanes, LanesOK(lanes), Len(lanes) >= 2, NEW new \in Draws(hs, field, lanes)
    PROVE  /\ Once(new) /\ Scheduled(new) \subseteq field
           /\ Len(lanes) >= 3 => field \subseteq Scheduled(new)
<1> DEFINE Seated(groups) ==
            {cars \in [DOMAIN groups -> UNION {Seatings(hs, groups[i], lanes) :
                                                i \in DOMAIN groups}] :
                \A i \in DOMAIN groups : cars[i] \in Seatings(hs, groups[i], lanes)}
<1>1. PICK o \in Orders(hs, field) :
        \E cars \in Seated(ChunkHeats(o, Len(lanes))) :
            new = [i \in DOMAIN cars |-> NewHeat(cars[i], NextWave(hs))]
  <2>1. Draws(hs, field, lanes) =
          UNION {{[i \in DOMAIN cars |-> NewHeat(cars[i], NextWave(hs))] : cars \in Seated(groups)} :
                    groups \in {ChunkHeats(q, Len(lanes)) : q \in Orders(hs, field)}}
    BY DEF Draws, NextWave
  <2> HIDE DEF Seated
  <2> QED  BY <2>1
<1> DEFINE groups == ChunkHeats(o, Len(lanes))
<1>2. PICK cars \in Seated(groups) : new = [i \in DOMAIN cars |-> NewHeat(cars[i], NextWave(hs))]
    BY <1>1
<1>3. o \in Seq(field) /\ Len(o) >= 2 /\ \A x, y \in 1..Len(o) : o[x] = o[y] => x = y
    BY OrderOfField
<1>4. Len(lanes) \in Nat
    BY DEF LanesOK
<1>5. Cut(groups, field, Len(lanes))
    BY <1>4, FieldIsCut
<1>6. DOMAIN cars = DOMAIN groups /\ \A i \in DOMAIN groups : cars[i] \in Seatings(hs, groups[i], lanes)
    BY <1>2
<1>7. Len(lanes) >= 3 => \A x \in 1..Len(o) :
        \E i \in DOMAIN groups : \E p \in DOMAIN groups[i] : groups[i][p] = o[x]
    BY <1>3, <1>4, ChunkHeatsCover
<1> HIDE DEF groups, Seated, NextWave
<1> USE DEF Cut
<1>8. DOMAIN new = DOMAIN groups
    BY <1>2, <1>6
<1>9. ASSUME NEW i \in DOMAIN groups
      PROVE  Cars(new[i]) = Range(groups[i]) /\ Range(groups[i]) \subseteq field
  <2>1. groups[i] \in Seq(field) /\ groups[i] \in Seq(Racers)
    BY <1>5
  <2>2. \A x, y \in DOMAIN groups[i] : groups[i][x] = groups[i][y] => x = y
    BY <1>5
  <2>3. new[i] = NewHeat(cars[i], NextWave(hs))
    BY <1>2, <1>6
  <2>4. Cars(new[i]) = Range(groups[i])
    BY <1>5, <1>6, <2>1, <2>2, <2>3, GroupIsSeated
  <2> QED  BY <2>1, <2>4 DEF Range
<1>10. Once(new)
    BY <1>5, <1>8, <1>9 DEF Once, Range
<1>11. Scheduled(new) \subseteq field
    BY <1>8, <1>9 DEF Scheduled
<1>12. ASSUME Len(lanes) >= 3, NEW q \in field
       PROVE  q \in Scheduled(new)
  <2>1. PICK x \in 1..Len(o) : o[x] = q
    BY OrderHasAll
  <2>2. PICK i \in DOMAIN groups : \E p \in DOMAIN groups[i] : groups[i][p] = q
    BY <1>7, <1>12, <2>1
  <2>3. q \in Cars(new[i])
    BY <1>9, <2>2 DEF Range
  <2> QED  BY <1>8, <2>2, <2>3 DEF Scheduled
<1> QED  BY <1>10, <1>11, <1>12

-----------------------------------------------------------------------------
(* How often everybody has been drawn.                                     *)

\* Those who are there, and have been drawn, have been drawn as often.
Level(hs, present) ==
    \A p, q \in Scheduled(hs) \cap present : Appearances(hs, p) = Appearances(hs, q)

\* The heats somebody is in.
In(hs, q) == {i \in DOMAIN hs : q \in Cars(hs[i])}

\* Counting appearances is counting those heats.
LEMMA InFacts ==
    ASSUME NEW hs \in Seq(Heat), NEW q
    PROVE  /\ Appearances(hs, q) = Cardinality(In(hs, q)) /\ Appearances(hs, q) \in Nat
           /\ q \in Scheduled(hs) <=> In(hs, q) # {}
           /\ Appearances(hs, q) = 0 <=> In(hs, q) = {}
           /\ IsFiniteSet(In(hs, q)) /\ In(hs, q) \subseteq DOMAIN hs
           /\ Scheduled(hs) \subseteq Racers
<1>1. IsFiniteSet(DOMAIN hs)
  <2>1. DOMAIN hs = 1..Len(hs) /\ Len(hs) \in Nat
      OBVIOUS
  <2> QED  BY <2>1, FS_Interval
<1>2. IsFiniteSet(In(hs, q)) /\ In(hs, q) \subseteq DOMAIN hs
    BY <1>1, FS_Subset DEF In
<1>3. Appearances(hs, q) = Cardinality(In(hs, q))
    BY DEF Appearances, In
<1>4. Cardinality(In(hs, q)) \in Nat /\ (Cardinality(In(hs, q)) = 0 <=> In(hs, q) = {})
    BY <1>2, FS_CardinalityType, FS_EmptySet
<1>5. q \in Scheduled(hs) <=> In(hs, q) # {}
    BY DEF Scheduled, In
<1>6. Scheduled(hs) \subseteq Racers
  <2>1. ASSUME NEW i \in DOMAIN hs PROVE Cars(hs[i]) \subseteq Racers
    <3>1. hs[i] \in Heat
        OBVIOUS
    <3> QED  BY <3>1 DEF Heat, Cars, Range
  <2> QED  BY <2>1 DEF Scheduled
<1> QED  BY <1>2, <1>3, <1>4, <1>5, <1>6

\* Where nobody is in two heats, those who are drawn have been drawn as often.
LEMMA OnceIsLevel ==
    ASSUME NEW hs \in Seq(Heat), Once(hs)
    PROVE  \A q \in Scheduled(hs) : Appearances(hs, q) = 1
<1> SUFFICES ASSUME NEW q \in Scheduled(hs) PROVE Appearances(hs, q) = 1
    OBVIOUS
<1>1. q \in Racers /\ In(hs, q) # {}
    BY InFacts
<1>2. PICK i : i \in In(hs, q)
    BY <1>1
<1>3. In(hs, q) = {i}
    BY <1>1, <1>2 DEF In, Once
<1>4. Cardinality({i}) = 1
    BY FS_Singleton
<1> QED  BY <1>3, <1>4, InFacts

\* Drawing a set of heats puts everybody in it in one heat more.
LEMMA DrawnOnceMore ==
    ASSUME NEW hs \in Seq(Heat), NEW new \in Seq(Heat), Once(new), NEW q \in Racers
    PROVE  /\ Scheduled(hs \o new) = Scheduled(hs) \cup Scheduled(new)
           /\ Appearances(hs \o new, q) =
                Appearances(hs, q) + (IF q \in Scheduled(new) THEN 1 ELSE 0)
<1> DEFINE all == hs \o new
           n == Len(hs)
<1>1. /\ all \in Seq(Heat) /\ n \in Nat /\ DOMAIN hs = 1..n /\ Len(new) \in Nat
      /\ DOMAIN new = 1..Len(new) /\ DOMAIN all = 1..n + Len(new)
      /\ \A i \in 1..n + Len(new) : all[i] = IF i <= n THEN hs[i] ELSE new[i - n]
    OBVIOUS
<1> HIDE DEF all, n
<1>2. \A i \in DOMAIN hs : i \in DOMAIN all /\ all[i] = hs[i]
    BY <1>1
<1>3. \A j \in DOMAIN new : n + j \in DOMAIN all /\ all[n + j] = new[j] /\ n + j \notin DOMAIN hs
  <2> SUFFICES ASSUME NEW j \in DOMAIN new
               PROVE  n + j \in DOMAIN all /\ all[n + j] = new[j] /\ n + j \notin DOMAIN hs
      OBVIOUS
  <2>1. j \in 1..Len(new) /\ n + j \in 1..n + Len(new) /\ ~(n + j <= n) /\ (n + j) - n = j
      BY <1>1
  <2> QED  BY <2>1, <1>1
<1>4. \A i \in DOMAIN all : i \in DOMAIN hs \/ \E j \in DOMAIN new : i = n + j
  <2> SUFFICES ASSUME NEW i \in DOMAIN all, i \notin DOMAIN hs
               PROVE  \E j \in DOMAIN new : i = n + j
      OBVIOUS
  <2>1. i - n \in DOMAIN new /\ i = n + (i - n)
      BY <1>1
  <2> QED  BY <2>1
<1>5. Scheduled(all) = Scheduled(hs) \cup Scheduled(new)
    BY <1>2, <1>3, <1>4 DEF Scheduled
<1>6. CASE q \notin Scheduled(new)
  <2>1. In(all, q) = In(hs, q)
      BY <1>2, <1>3, <1>4, <1>6 DEF In, Scheduled
  <2>2. Appearances(all, q) = Appearances(hs, q) /\ Appearances(hs, q) \in Nat
      BY <2>1, <1>1, InFacts
  <2> QED  BY <2>2, <1>5, <1>6 DEF all
<1>7. CASE q \in Scheduled(new)
  <2>1. PICK j \in DOMAIN new : q \in Cars(new[j])
      BY <1>7 DEF Scheduled
  <2>2. \A k \in DOMAIN new : q \in Cars(new[k]) => k = j
      BY <2>1 DEF Once
  <2>3. In(all, q) = In(hs, q) \cup {n + j}
      BY <1>2, <1>3, <1>4, <2>1, <2>2 DEF In
  <2>4. n + j \notin In(hs, q)
      BY <1>3 DEF In
  <2>5. Cardinality(In(hs, q) \cup {n + j}) = Cardinality(In(hs, q)) + 1
      BY <2>4, InFacts, FS_AddElement
  <2> QED  BY <2>3, <2>5, <1>1, <1>5, <1>7, InFacts DEF all
<1> QED  BY <1>6, <1>7

\* The heats there were, from which nobody is gone that is there.
Thins(new, hs, present) ==
    /\ DOMAIN new = DOMAIN hs
    /\ \A i \in DOMAIN hs : /\ Cars(new[i]) \subseteq Cars(hs[i])
                            /\ Cars(hs[i]) \cap present \subseteq Cars(new[i])

\* Thinning spoils neither.
LEMMA ThinningKeeps ==
    ASSUME NEW hs, NEW new, NEW present, Thins(new, hs, present)
    PROVE  /\ Once(hs) => Once(new)
           /\ Scheduled(new) \subseteq Scheduled(hs)
           /\ Level(hs, present) => Level(new, present)
<1>1. Once(hs) => Once(new)
    BY DEF Thins, Once
<1>2. Scheduled(new) \subseteq Scheduled(hs)
    BY DEF Thins, Scheduled
<1>3. \A p \in present : Appearances(new, p) = Appearances(hs, p)
  <2> SUFFICES ASSUME NEW p \in present PROVE Appearances(new, p) = Appearances(hs, p)
      OBVIOUS
  <2>1. {i \in DOMAIN new : p \in Cars(new[i])} = {i \in DOMAIN hs : p \in Cars(hs[i])}
      BY DEF Thins
  <2> QED  BY <2>1 DEF Appearances
<1> QED  BY <1>1, <1>2, <1>3 DEF Level

\* Growing a round: nobody is drawn twice into a round of one phase, and where
\* nobody sits out, those who are there stay level or the round is uneven.
LEMMA GrowingKeepsLevel ==
    ASSUME NEW hs, NEW n \in Nat, Rows(hs, n), ~Elimination, NEW present \in SUBSET Racers,
           NEW lanes, LanesOK(lanes), NEW grown \in Extended(hs, present, lanes)
    PROVE  /\ round.goal = 1 /\ Once(hs) => Once(grown)
           /\ Scheduled(grown) \subseteq Scheduled(hs) \cup present
           /\ Len(lanes) >= 3 /\ Level(hs, present)
                => Level(grown, present) \/ (grown # hs /\ Uneven(hs, present))
<1>1. CASE ~Grows(hs, present, lanes)
  <2>1. grown = hs
      BY <1>1 DEF Extended
  <2> QED  BY <2>1
<1>2. CASE Grows(hs, present, lanes)
  <2>1. PICK new \in Draws(hs, present, lanes) : grown = hs \o new
      BY <1>2 DEF Extended, Contenders
  <2>2. hs \in Seq(Heat) /\ hs # <<>> /\ Len(lanes) >= 2 /\ ~FewerThanTwo(present)
      BY <1>2 DEF Rows, Grows, Contenders
  <2>3. NextWave(hs) \in Nat
    <3>1. Len(hs) \in DOMAIN hs
        BY <2>2
    <3>2. hs[Len(hs)] \in Heat
        BY <3>1, <2>2
    <3>3. hs[Len(hs)].wave \in Nat
        BY <3>2 DEF Heat
    <3> QED  BY <2>2, <3>3 DEF NextWave
  <2>4. new \in Seq(Heat) /\ new # <<>>
      BY <2>1, <2>2, <2>3, DrawsOK
  <2>5. Once(new) /\ Scheduled(new) \subseteq present
        /\ (Len(lanes) >= 3 => present \subseteq Scheduled(new))
      BY <2>1, <2>2, DrawsSeat
  <2>6. \A q \in Racers :
          /\ Scheduled(grown) = Scheduled(hs) \cup Scheduled(new)
          /\ Appearances(grown, q) =
                Appearances(hs, q) + (IF q \in Scheduled(new) THEN 1 ELSE 0)
      BY <2>1, <2>2, <2>4, <2>5, DrawnOnceMore
  <2>7. Scheduled(grown) \subseteq Scheduled(hs) \cup present
    <3>1. \E q : q \in Racers
        BY <2>2 DEF FewerThanTwo
    <3> QED  BY <3>1, <2>5, <2>6
  <2>8. grown # hs
    <3>1. Len(new) \in Nat \ {0} /\ Len(grown) = Len(hs) + Len(new) /\ Len(hs) \in Nat
        BY <2>1, <2>2, <2>4
    <3> QED  BY <3>1
  <2>9. ASSUME round.goal = 1, Once(hs) PROVE Once(grown)
    <3>1. Scheduled(hs) = {}
      <4>1. \A q \in Scheduled(hs) : ~(Appearances(hs, q) >= 1)
          BY <1>2, <2>9 DEF Grows, PhasesRun
      <4>2. \A q \in Scheduled(hs) : Appearances(hs, q) = 1
          BY <2>2, <2>9, OnceIsLevel
      <4> QED  BY <4>1, <4>2
    <3>2. \A i \in DOMAIN grown : Cars(grown[i]) # {} =>
            i - Len(hs) \in DOMAIN new /\ grown[i] = new[i - Len(hs)]
      <4>1. \A i \in DOMAIN hs : Cars(hs[i]) = {}
          BY <3>1 DEF Scheduled
      <4>2. /\ DOMAIN grown = 1..Len(hs) + Len(new) /\ Len(hs) \in Nat /\ Len(new) \in Nat
            /\ DOMAIN hs = 1..Len(hs) /\ DOMAIN new = 1..Len(new)
            /\ \A i \in 1..Len(hs) + Len(new) :
                  grown[i] = IF i <= Len(hs) THEN hs[i] ELSE new[i - Len(hs)]
          BY <2>1, <2>2, <2>4
      <4> QED  BY <4>1, <4>2
    <3>3. DOMAIN grown \subseteq Int /\ Len(hs) \in Int
        BY <2>1, <2>2, <2>4
    <3> SUFFICES ASSUME NEW q \in Racers, NEW i \in DOMAIN grown, NEW j \in DOMAIN grown,
                        q \in Cars(grown[i]), q \in Cars(grown[j])
                 PROVE  i = j
        BY DEF Once
    <3>4. i - Len(hs) = j - Len(hs)
        BY <2>5, <3>2 DEF Once
    <3> QED  BY <3>3, <3>4
  <2>10. ASSUME Len(lanes) >= 3, ~Uneven(hs, present) PROVE Level(grown, present)
    <3>1. \A q \in present, p \in Scheduled(hs) : ~(Appearances(hs, q) < Appearances(hs, p))
        BY <2>10 DEF Uneven
    <3>2. \A q \in Racers : /\ Appearances(hs, q) \in Nat
                            /\ q \notin Scheduled(hs) => Appearances(hs, q) = 0
        BY <2>2, InFacts
    <3>3. \A p, q \in present : Appearances(hs, p) = Appearances(hs, q)
      <4> SUFFICES ASSUME NEW p \in present, NEW q \in present
                   PROVE  ~(Appearances(hs, q) < Appearances(hs, p))
          BY <3>2
      <4> QED  BY <3>1, <3>2
    <3> QED  BY <2>5, <2>6, <2>10, <3>3 DEF Level
  <2> QED  BY <2>7, <2>8, <2>9, <2>10
<1> QED  BY <1>1, <1>2

\* Drawing a round again: nobody is in it twice, and nobody who is not there.
LEMMA RedrawingIsLevel ==
    ASSUME NEW hs, NEW present \in SUBSET Racers, NEW lanes, LanesOK(lanes),
           NEW new \in Rebuilt(hs, present, lanes), new # hs
    PROVE  Once(new) /\ Scheduled(new) \subseteq present /\ Level(new, present)
<1>1. new \in Draws(<<>>, present, lanes) /\ ~FewerThanTwo(present) /\ Len(lanes) >= 2
    BY DEF Rebuilt, LanesOK
<1>2. NextWave(<<>>) \in Nat
    BY DEF NextWave
<1>3. new \in Seq(Heat)
    BY <1>1, <1>2, DrawsOK
<1>4. Once(new) /\ Scheduled(new) \subseteq present
    BY <1>1, DrawsSeat
<1> QED  BY <1>3, <1>4, OnceIsLevel DEF Level

-----------------------------------------------------------------------------
(* A balanced round that counts is level.                                  *)

\* A round on three lanes that stay, whose cars never come back and whose heats
\* are not deleted; or one of a single phase.
Steady ==
    /\ round.width >= 3 /\ round.late \cap round.movers = {}
    /\ round.uses \cap {"return", "outage", "delete_heat"} = {}
OnePhase == round.goal = 1

\* While it is raced too: whoever is there has been drawn as often, unless the
\* round is set aside, and nobody has been drawn before they arrived.
Present == Scheduled(heats) \cap (round.late \ checkedIn) = {}
LevelInv ==
    ~Elimination =>
        /\ OnePhase => Once(heats)
        /\ Steady => /\ Len(usable) >= 3 /\ Present
                     /\ disrupted \/ Level(heats, checkedIn)

\* The same of a step.
LevelNext ==
    /\ OnePhase => Once(heats')
    /\ Steady => /\ Len(usable') >= 3
                 /\ Scheduled(heats') \cap (round.late \ checkedIn') = {}
                 /\ disrupted' \/ Level(heats', checkedIn')

\* What an operation makes of the heats before the round grows.
Ready(hs) ==
    /\ OnePhase => Once(hs)
    /\ Steady => /\ Len(usable') >= 3
                 /\ Scheduled(hs) \cap (round.late \ checkedIn') = {}
                 /\ disrupted \/ Level(hs, checkedIn')

\* Each way to grow or draw the heats from ready ones, then each operation.
LEMMA ExtendLevels ==
    ASSUME NEW hs, NEW n \in Nat, Rows(hs, n), NEW marked, Extend(hs, marked), ~Elimination,
           checkedIn' \subseteq Racers, LanesOK(usable'), Ready(hs)
    PROVE  LevelNext
<1>1. PICK grown \in Extended(hs, checkedIn', usable') :
        /\ heats' = grown
        /\ disrupted' = (disrupted \/ marked \/ (grown # hs /\ Uneven(hs, checkedIn')))
    BY DEF Extend
<1>2. /\ OnePhase /\ Once(hs) => Once(heats')
      /\ Scheduled(heats') \subseteq Scheduled(hs) \cup checkedIn'
      /\ Len(usable') >= 3 /\ Level(hs, checkedIn')
            => Level(heats', checkedIn') \/ (heats' # hs /\ Uneven(hs, checkedIn'))
    BY <1>1, GrowingKeepsLevel DEF OnePhase
<1>3. disrupted \/ (heats' # hs /\ Uneven(hs, checkedIn')) => disrupted'
    BY <1>1
<1> QED  BY <1>2, <1>3 DEF Ready, LevelNext

LEMMA RebuildLevels ==
    ASSUME Rebuild, checkedIn' \subseteq Racers, LanesOK(usable'), Ready(heats)
    PROVE  LevelNext
<1>1. heats' \in Rebuilt(heats, checkedIn', usable') /\ disrupted' = disrupted
    BY DEF Rebuild
<1>2. CASE heats' = heats
    BY <1>1, <1>2 DEF Ready, LevelNext
<1>3. CASE heats' # heats
  <2>1. Once(heats') /\ Scheduled(heats') \subseteq checkedIn' /\ Level(heats', checkedIn')
      BY <1>1, <1>3, RedrawingIsLevel
  <2> QED  BY <2>1 DEF Ready, LevelNext
<1> QED  BY <1>2, <1>3

\* Heats from which only those have gone who are not there.
LEMMA ThinnedIsReady ==
    ASSUME IInv, LevelInv, ~Elimination, usable' = usable \/ ~Steady, checkedIn' \subseteq Racers,
           NEW hs, Thins(hs, heats, checkedIn'),
           Steady => \/ checkedIn' \subseteq checkedIn /\ (checkedIn \ checkedIn') \cap round.late = {}
                     \/ \E q \in round.late \ checkedIn : checkedIn' = checkedIn \cup {q}
    PROVE  Ready(hs)
<1>1. /\ Once(heats) => Once(hs)
      /\ Scheduled(hs) \subseteq Scheduled(heats)
      /\ Level(heats, checkedIn') => Level(hs, checkedIn')
    BY ThinningKeeps
<1>2. CASE Steady
  <2>1. Len(usable') >= 3 /\ Present /\ (disrupted \/ Level(heats, checkedIn))
      BY <1>2 DEF LevelInv
  <2>2. CASE checkedIn' \subseteq checkedIn /\ (checkedIn \ checkedIn') \cap round.late = {}
    <3>1. Scheduled(heats) \cap (round.late \ checkedIn') = {}
        BY <2>1, <2>2 DEF Present
    <3>2. Level(heats, checkedIn) => Level(heats, checkedIn')
        BY <2>2 DEF Level
    <3> QED  BY <1>1, <2>1, <3>1, <3>2 DEF Ready, LevelInv
  <2>3. CASE \E q \in round.late \ checkedIn : checkedIn' = checkedIn \cup {q}
    <3>1. PICK q \in round.late \ checkedIn : checkedIn' = checkedIn \cup {q}
        BY <2>3
    <3>2. q \notin Scheduled(heats)
        BY <2>1 DEF Present
    <3>3. Level(heats, checkedIn) => Level(heats, checkedIn')
        BY <3>1, <3>2 DEF Level
    <3> QED  BY <1>1, <2>1, <3>1, <3>3 DEF Ready, LevelInv, Present
  <2> QED  BY <1>2, <2>2, <2>3
<1>3. CASE ~Steady
    BY <1>1, <1>3 DEF Ready, LevelInv
<1> QED  BY <1>2, <1>3

\* A heat that is recorded keeps its cars.
LEMMA RecordLevels ==
    ASSUME IInv, LevelInv, ~Elimination, NEW i \in DOMAIN heats, NEW h \in Heat, Sound(h),
           h.cars = heats[i].cars, h.wave = heats[i].wave, RecordHeatResult(i, h)
    PROVE  LevelNext
<1> DEFINE hs == [heats EXCEPT ![i] = h]
<1>1. /\ checkedIn' = checkedIn /\ usable' = usable /\ Extend(hs, FALSE)
      /\ checkedIn \subseteq Racers /\ LanesOK(usable')
    BY DEF RecordHeatResult, IInv
<1>2. Rows(hs, changes) /\ changes \in Nat
    BY OneRewritten, RoundKindsAssumption DEF IInv
<1>3. Thins(hs, heats, checkedIn')
  <2>1. heats \in Seq(Heat)
      BY DEF IInv, Rows
  <2> QED  BY <2>1 DEF Thins, Cars
<1> HIDE DEF hs
<1>4. Ready(hs)
    BY <1>1, <1>3, ThinnedIsReady
<1> QED  BY <1>1, <1>2, <1>4, ExtendLevels

LEMMA RacingLevels ==
    ASSUME IInv, LevelInv, ~Elimination, Race \/ Correct \/ RecordPart \/ Clear \/ Skip
    PROVE  LevelNext
<1>1. CASE Race \/ Correct \/ RecordPart
  <2>1. PICK i \in DOMAIN heats : \E cars \in SUBSET Cars(heats[i]) :
          \E h \in Runs(heats[i], cars) : RecordHeatResult(i, h)
    <3>1. CASE Race
        BY <3>1 DEF Race
    <3>2. CASE Correct
        BY <3>2 DEF Correct
    <3>3. CASE RecordPart
        BY <3>3 DEF RecordPart
    <3> QED  BY <1>1, <3>1, <3>2, <3>3
  <2> PICK cars \in SUBSET Cars(heats[i]) : \E h \in Runs(heats[i], cars) : RecordHeatResult(i, h)
      BY <2>1
  <2>2. PICK h \in Runs(heats[i], cars) : RecordHeatResult(i, h)
      OBVIOUS
  <2>3. h \in Heat /\ Sound(h) /\ h.cars = heats[i].cars /\ h.wave = heats[i].wave
      BY RowOf, RunsOK
  <2> QED  BY <2>2, <2>3, RecordLevels
<1>2. CASE Clear
  <2>1. PICK i \in DOMAIN heats : RecordHeatResult(i, NewHeat(heats[i].cars, heats[i].wave))
      BY <1>2 DEF Clear
  <2> DEFINE h == NewHeat(heats[i].cars, heats[i].wave)
  <2>2. h \in Heat /\ Sound(h) /\ h.cars = heats[i].cars /\ h.wave = heats[i].wave
      BY ClearedRow
  <2> QED  BY <2>1, <2>2, RecordLevels
<1>3. CASE Skip
  <2>1. PICK i \in DOMAIN heats :
          Waits(heats[i]) /\ RecordHeatResult(i, [heats[i] EXCEPT !.passed = TRUE])
      BY <1>3 DEF Skip
  <2> DEFINE h == [heats[i] EXCEPT !.passed = TRUE]
  <2>2. h \in Heat /\ Sound(h) /\ h.cars = heats[i].cars /\ h.wave = heats[i].wave
      BY <2>1, SkippedRow
  <2> QED  BY <2>1, <2>2, RecordLevels
<1> QED  BY <1>1, <1>2, <1>3

\* What withdrawals and outages leave of the heats.
LEMMA VacatedThins ==
    ASSUME NEW hs, NEW n, Rows(hs, n), NEW gone, NEW present \in SUBSET Racers, gone \cap present = {}
    PROVE  Thins(Vacated(hs, gone), hs, present)
<1> SUFFICES ASSUME NEW i \in DOMAIN hs
             PROVE  /\ Cars(Vacated(hs, gone)[i]) \subseteq Cars(hs[i])
                    /\ Cars(hs[i]) \cap present \subseteq Cars(Vacated(hs, gone)[i])
    BY DEF Thins, Vacated
<1> DEFINE cars == [l \in DOMAIN hs[i].cars |->
                       IF hs[i].cars[l] \in gone THEN Nobody ELSE hs[i].cars[l]]
<1>1. hs[i] \in Heat
    BY DEF Rows
<1>2. Vacated(hs, gone)[i] = IF ~Vacates(hs[i], gone) THEN hs[i] ELSE Thinned(hs[i], cars)
    BY DEF Vacated
<1>3. Thinned(hs[i], cars).cars = cars
    BY <1>1 DEF Thinned, Heat
<1>4. /\ Range(cars) \ {Nobody} \subseteq Range(hs[i].cars) \ {Nobody}
      /\ (Range(hs[i].cars) \ {Nobody}) \cap present \subseteq Range(cars) \ {Nobody}
    BY DEF Range
<1> HIDE DEF cars
<1> QED  BY <1>2, <1>3, <1>4 DEF Cars

LEMMA RelanedThins ==
    ASSUME NEW hs, NEW n, Rows(hs, n), NEW lanes
    PROVE  Thins(Relaned(hs, lanes), hs, {})
<1> SUFFICES ASSUME NEW i \in DOMAIN hs
             PROVE  Cars(Relaned(hs, lanes)[i]) \subseteq Cars(hs[i])
    BY DEF Thins, Relaned
<1> DEFINE left == Restrict(hs[i].cars, DOMAIN hs[i].cars \cap Range(lanes))
<1>1. hs[i] \in Heat
    BY DEF Rows
<1>2. Relaned(hs, lanes)[i] =
        IF Relanes(hs[i], lanes) THEN Thinned(hs[i], LanesLeft(hs[i], lanes)) ELSE hs[i]
    BY DEF Relaned
<1>3. Thinned(hs[i], LanesLeft(hs[i], lanes)).cars = LanesLeft(hs[i], lanes)
    BY <1>1 DEF Thinned, Heat
<1>4. Range(left) \subseteq Range(hs[i].cars)
    BY DEF Range, Restrict
<1>5. \A l : Range([x \in {l} |-> Nobody]) = {Nobody}
    BY DEF Range
<1> HIDE DEF left
<1>6. Range(LanesLeft(hs[i], lanes)) \ {Nobody} \subseteq Range(hs[i].cars) \ {Nobody}
    BY <1>4, <1>5 DEF LanesLeft, left
<1> QED  BY <1>2, <1>3, <1>6 DEF Cars

LEMMA RosterLevels ==
    ASSUME IInv, LevelInv, ~Elimination, CheckOut \/ CheckIn
    PROVE  LevelNext
<1> DEFINE gone == Scheduled(heats) \ checkedIn'
<1>1. Sweep /\ Change /\ usable' = usable /\ checkedIn' \subseteq Racers
    BY DEF CheckOut, CheckIn, IInv
<1>2. Steady => \/ checkedIn' \subseteq checkedIn /\ (checkedIn \ checkedIn') \cap round.late = {}
                \/ \E q \in round.late \ checkedIn : checkedIn' = checkedIn \cup {q}
  <2>1. CASE CheckOut
    <3>1. PICK q \in checkedIn \cap round.movers : checkedIn' = checkedIn \ {q}
        BY <2>1 DEF CheckOut
    <3> QED  BY <3>1 DEF Steady
  <2>2. CASE CheckIn
    <3>1. PICK q \in Racers \ checkedIn :
            (q \in round.late \/ Uses("return")) /\ checkedIn' = checkedIn \cup {q}
        BY <2>2 DEF CheckIn
    <3> QED  BY <3>1 DEF Steady, Uses
  <2> QED  BY <2>1, <2>2
<1>3. LanesOK(usable') /\ Rows(heats, changes) /\ changes \in Nat
    BY <1>1, RoundKindsAssumption DEF IInv
<1>4. Ready(heats)
  <2>1. Thins(heats, heats, checkedIn')
      BY DEF Thins
  <2> QED  BY <2>1, <1>1, <1>2, ThinnedIsReady
<1>5. \/ Rebuild
      \/ Extend(Vacated(heats, gone), FALSE)
      \/ UNCHANGED <<heats, disrupted>>
    BY <1>1 DEF Sweep
<1>6. CASE Rebuild
    BY <1>1, <1>3, <1>4, <1>6, RebuildLevels
<1>7. CASE Extend(Vacated(heats, gone), FALSE)
  <2>1. gone \cap checkedIn' = {}
      OBVIOUS
  <2> HIDE DEF gone
  <2>2. Rows(Vacated(heats, gone), changes)
      BY <1>3, VacatedOK
  <2>3. Thins(Vacated(heats, gone), heats, checkedIn')
      BY <1>1, <1>3, <2>1, VacatedThins
  <2>4. Ready(Vacated(heats, gone))
      BY <2>3, <1>1, <1>2, ThinnedIsReady
  <2> QED  BY <2>2, <2>4, <1>1, <1>3, <1>7, ExtendLevels
<1>8. CASE UNCHANGED <<heats, disrupted>>
    BY <1>4, <1>8 DEF Ready, LevelNext
<1> QED  BY <1>5, <1>6, <1>7, <1>8

\* A lane that is lost: of a round of one phase nobody comes to be in two heats.
LEMMA OutageLevels ==
    ASSUME IInv, LevelInv, ~Elimination, SetLaneOutages
    PROVE  LevelNext
<1>1. /\ Uses("outage") /\ checkedIn' = checkedIn /\ IInv'
      /\ \/ Rebuild
         \/ Extend(Relaned(heats, usable'), TRUE)
         \/ UNCHANGED <<heats, disrupted>>
  <2>1. IInv'
      BY SetLaneOutagesKeeps, KeepsInvariant
  <2> QED  BY <2>1 DEF SetLaneOutages
<1>2. ~Steady
    BY <1>1 DEF Steady, Uses
<1>3. /\ checkedIn' \subseteq Racers /\ LanesOK(usable') /\ round \in RoundKinds
      /\ Rows(heats, changes) /\ changes \in Nat
  <2>1. checkedIn' \subseteq Racers /\ round \in RoundKinds /\ Rows(heats, changes) /\ changes \in Nat
      BY <1>1, RoundKindsAssumption DEF IInv
  <2>2. round' = round
      BY ChangeKeeps DEF SetLaneOutages
  <2>3. LanesOK(usable')
      BY <1>1, <2>2 DEF IInv, LanesOK, Lanes
  <2> QED  BY <2>1, <2>3
<1>4. OnePhase => Once(heats)
    BY DEF LevelInv
<1>5. CASE Rebuild
    BY <1>2, <1>3, <1>4, <1>5, RebuildLevels DEF Ready
<1>6. CASE Extend(Relaned(heats, usable'), TRUE)
  <2>1. Rows(Relaned(heats, usable'), changes)
      BY <1>3, RelanedOK
  <2>2. Thins(Relaned(heats, usable'), heats, {})
      BY <1>3, RelanedThins
  <2>3. Ready(Relaned(heats, usable'))
      BY <1>2, <1>4, <2>2, ThinningKeeps DEF Ready
  <2> QED  BY <2>1, <2>3, <1>3, <1>6, ExtendLevels
<1>7. CASE UNCHANGED <<heats, disrupted>>
    BY <1>2, <1>4, <1>7 DEF LevelNext
<1> QED  BY <1>1, <1>5, <1>6, <1>7

LEMMA DeletionLevels ==
    ASSUME IInv, LevelInv, ~Elimination, DeleteHeat
    PROVE  LevelNext
<1>1. PICK i \in DOMAIN heats :
        /\ Uses("delete_heat")
        /\ heats' = [j \in 1..Len(heats) - 1 |-> heats[IF j < i THEN j ELSE j + 1]]
    BY DEF DeleteHeat
<1>2. ~Steady
    BY <1>1 DEF Steady, Uses
<1>3. DOMAIN heats = 1..Len(heats) /\ Len(heats) \in Nat
    BY DEF IInv, Rows
<1>4. ASSUME Once(heats), NEW q \in Racers, NEW j \in 1..Len(heats) - 1,
             NEW k \in 1..Len(heats) - 1, q \in Cars(heats'[j]), q \in Cars(heats'[k])
      PROVE  j = k
  <2> DEFINE at(x) == IF x < i THEN x ELSE x + 1
  <2>1. at(j) \in DOMAIN heats /\ at(k) \in DOMAIN heats
      BY <1>3
  <2>2. heats'[j] = heats[at(j)] /\ heats'[k] = heats[at(k)]
      BY <1>1
  <2>3. at(j) = at(k)
      BY <1>4, <2>1, <2>2 DEF Once
  <2> QED  BY <2>3, <1>3
<1>5. OnePhase => Once(heats')
    BY <1>1, <1>4 DEF Once, LevelInv
<1> QED  BY <1>2, <1>5 DEF LevelNext

LEMMA RegeneratingLevels ==
    ASSUME IInv, LevelInv, ~Elimination, RegenerateRound
    PROVE  LevelNext
<1>1. UNCHANGED <<checkedIn, usable>> /\ Rebuild /\ checkedIn' \subseteq Racers /\ LanesOK(usable')
    BY DEF RegenerateRound, IInv
<1>2. Ready(heats)
    BY <1>1 DEF Ready, LevelInv, Present
<1> QED  BY <1>1, <1>2, RebuildLevels

LEMMA LevelInvKept == IInv /\ LevelInv /\ [Next]_vars => LevelInv'
<1>1. ASSUME IInv, LevelInv, ~Elimination, Next PROVE LevelNext
    BY <1>1, RacingLevels, RosterLevels, OutageLevels, DeletionLevels, RegeneratingLevels DEF Next
<1>2. ASSUME IInv, Next PROVE round' = round
    BY <1>2, NextKeeps DEF Keeps
<1>3. ASSUME round' = round, LevelNext PROVE LevelInv'
    BY <1>3 DEF LevelInv, LevelNext, OnePhase, Steady, Present, Once, Level, Scheduled,
                Appearances, Elimination
<1>4. ASSUME round' = round, Elimination PROVE LevelInv'
    BY <1>4 DEF LevelInv, Elimination
<1>5. ASSUME LevelInv, UNCHANGED vars PROVE LevelInv'
    BY <1>5 DEF LevelInv, OnePhase, Steady, Present, Once, Level, Scheduled,
                Appearances, Elimination, vars
<1> QED  BY <1>1, <1>2, <1>3, <1>4, <1>5

LEMMA InitIsLevel == Init => LevelInv
<1> SUFFICES ASSUME Init, ~Elimination PROVE LevelInv
    BY DEF LevelInv
<1>1. /\ round \in RoundKinds /\ checkedIn = Racers \ round.late
      /\ heats \in Draws(<<>>, checkedIn, usable)
      /\ usable = [l \in 1..round.width |-> l]
    BY DEF Init
<1>2. round.width \in Nat /\ round.width >= 2 /\ Cardinality(checkedIn) >= 2
    BY <1>1, RoundKindsAssumption
<1>3. LanesOK(usable) /\ Len(usable) = round.width
  <2>1. usable \in Seq(Lanes) /\ Len(usable) = round.width
    BY <1>1, <1>2 DEF Lanes
  <2> QED  BY <1>1, <1>2, <2>1 DEF LanesOK, IsInjective
<1>4. ~FewerThanTwo(checkedIn) /\ checkedIn \in SUBSET Racers
    BY <1>1, <1>2, TwoAreTwo
<1>5. Once(heats) /\ Scheduled(heats) \subseteq checkedIn
  <2>1. heats \in Draws(<<>>, checkedIn, usable) /\ Len(usable) >= 2
    BY <1>1, <1>2, <1>3
  <2> QED  BY <1>3, <1>4, <2>1, DrawsSeat
<1>6. heats \in Seq(Heat)
    BY InitEstablishes DEF IInv, Rows
<1>7. Level(heats, checkedIn)
    BY <1>5, <1>6, OnceIsLevel DEF Level
<1> QED  BY <1>2, <1>3, <1>5, <1>7 DEF LevelInv, Steady, Present

\* A balanced round that counts for a POINTS sum gave those who are in it as many
\* heats (extend_balanced_round, Round.disrupted), if it is raced on three lanes or more
\* that stay, nobody leaves it and comes back, and no heat of it is deleted; or if it
\* has a single phase, whatever happens to it.
THEOREM UnevenRoundsAreSetAside ==
    Spec => [](Steady \/ OnePhase => UnevenRoundIsSetAside)
<1>1. IInv /\ LevelInv => (Steady \/ OnePhase => UnevenRoundIsSetAside)
  <2> SUFFICES ASSUME IInv, LevelInv, Steady \/ OnePhase, ~Elimination, ~disrupted
               PROVE  Level(heats, checkedIn)
      BY DEF UnevenRoundIsSetAside, Level
  <2>1. CASE Steady
      BY <2>1 DEF LevelInv
  <2>2. CASE OnePhase
    <3>1. heats \in Seq(Heat) /\ Once(heats)
        BY <2>2 DEF IInv, Rows, LevelInv
    <3> QED  BY <3>1, OnceIsLevel DEF Level
  <2> QED  BY <2>1, <2>2
<1>2. Spec => []IInv
    BY InitEstablishes, Inductive, PTL DEF Spec
<1>3. Spec => []LevelInv
    BY <1>2, InitIsLevel, LevelInvKept, PTL DEF Spec
<1> QED  BY <1>1, <1>2, <1>3, PTL
=============================================================================
