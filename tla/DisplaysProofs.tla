--------------------------- MODULE DisplaysProofs ---------------------------
(***************************************************************************)
(* Proofs about Displays, for any number of generators, commands, losses   *)
(* of connection and key presses: presence is never overstated, and the    *)
(* ceremony takes no step twice.                                           *)
(***************************************************************************)
EXTENDS Displays, FiniteSetTheorems, TLAPS

-----------------------------------------------------------------------------
(* The inductive invariant.                                                *)

Payloads == [assigned : BOOLEAN, view : {"AWARDS", "STANDINGS"}, seq : Nat, delta : {-1, 0, 1}]

\* A payload is a step to a page that has obeyed the counter seq.
IsStep(seq, p) == p.delta # 0 /\ p.seq # seq

\* Each payload on the wire has a rank: how many steps the ceremony may have taken,
\* in either direction, once it has been delivered. Ranks run from the steps taken to
\* the steps asked for, and go up with every step, whichever of the payloads before it
\* came last.
Ranked(rank) ==
    /\ rank \in [DOMAIN wire -> taken..asked]
    /\ \A i, j \in DOMAIN wire :
          i < j => rank[i] <= rank[j] /\ (IsStep(wire[i].seq, wire[j]) => rank[i] < rank[j])
    /\ obeyed # Nothing =>
          \A i \in DOMAIN wire : IsStep(obeyed, wire[i]) => taken < rank[i]
    /\ row # Nothing =>
          \A i \in DOMAIN wire : IsStep(wire[i].seq, row) => rank[i] < asked

StepsAreAskedFor ==
    /\ wire \in Seq(Payloads)
    /\ taken <= asked
    /\ row # Nothing /\ obeyed # Nothing /\ IsStep(obeyed, row) => taken < asked
    /\ \E rank : Ranked(rank)

IInv == TypeOK /\ NoPhantomConnection /\ StepsAreAskedFor

-----------------------------------------------------------------------------
(* Types and presence.                                                     *)

LEMMA ConnectedRow ==
    ASSUME row \in Rows \cup {Nothing}
    PROVE  /\ Connected(row) \in Rows
           /\ Connected(row).connections = IF row = Nothing THEN 1 ELSE row.connections + 1
           /\ row = Nothing => Connected(row).delta = 0
           /\ row # Nothing => Connected(row).seq = row.seq /\ Connected(row).delta = row.delta
BY DEF Connected, NewRow, Rows

LEMMA PayloadOfRow ==
    ASSUME NEW r \in Rows
    PROVE  Payload(r) \in Payloads /\ \A seq : IsStep(seq, Payload(r)) <=> IsStep(seq, r)
BY DEF Payload, Payloads, Rows, IsStep

LEMMA StepType ==
    ASSUME NEW i \in 0..LastAward, NEW delta \in {-1, 0, 1}
    PROVE  StepIndex(i, delta) \in 0..LastAward
BY AwardsAssumption DEF StepIndex

LEMMA LiveIsFinite == IsFiniteSet(Live) /\ Cardinality(Live) \in Nat
<1>1. Live \subseteq Leashes
    BY DEF Live
<1>2. IsFiniteSet(Live)
    BY <1>1, LeashesAssumption, FS_Subset
<1> QED  BY <1>2, FS_CardinalityType

LEMMA RungGenerators ==
    ASSUME rings \in [Leashes -> Nat \cup {Nothing}], RingAll
    PROVE  rings' \in [Leashes -> Nat \cup {Nothing}] /\ Live' = Live
<1>1. \A l \in Leashes : l \in Live => rings[l] \in Nat
    BY DEF Live
<1>2. rings' \in [Leashes -> Nat \cup {Nothing}]
    BY <1>1 DEF RingAll
<1>3. \A l \in Leashes : rings'[l] # Nothing <=> rings[l] # Nothing
    BY <1>1, NothingAssumption DEF RingAll, Live
<1> QED  BY <1>2, <1>3 DEF Live

\* The row and the generators, as a step leaves them.
Present ==
    /\ row' \in Rows \cup {Nothing}
    /\ rings' \in [Leashes -> Nat \cup {Nothing}]
    /\ NoPhantomConnection'

LEMMA SubscribePresent == ASSUME IInv, Subscribe PROVE Present /\ leash' \in Live'
<1> USE DEF Subscribe
<1>1. row \in Rows \cup {Nothing} /\ rings \in [Leashes -> Nat \cup {Nothing}]
    BY DEF IInv, TypeOK
<1>2. leash' \in Leashes /\ leash' \notin Live
    OBVIOUS
<1>3. rings' \in [Leashes -> Nat \cup {Nothing}]
    BY <1>1
<1>4. Live' = Live \cup {leash'}
  <2>1. \A l \in Leashes : rings'[l] = IF l = leash' THEN 0 ELSE rings[l]
    BY <1>1
  <2> QED  BY <1>2, <2>1, NothingAssumption DEF Live
<1>5. Cardinality(Live') = Cardinality(Live) + 1
    BY <1>2, <1>4, LiveIsFinite, FS_AddElement
<1>6. NoPhantomConnection'
    BY <1>1, <1>5, LiveIsFinite, ConnectedRow DEF IInv, NoPhantomConnection, Rows
<1> QED  BY <1>1, <1>3, <1>4, <1>6, ConnectedRow DEF Present

LEMMA WakePresent == ASSUME IInv, NEW l \in Leashes, Wake(l) PROVE Present /\ Live' = Live
<1> USE DEF Wake
<1>1. row \in Rows \cup {Nothing} /\ rings \in [Leashes -> Nat \cup {Nothing}]
    BY DEF IInv, TypeOK
<1>2. rings[l] \in Nat /\ rings[l] - 1 \in Nat
    BY <1>1 DEF Live
<1>3. rings' \in [Leashes -> Nat \cup {Nothing}]
    BY <1>1, <1>2
<1>4. Live' = Live
  <2>1. \A m \in Leashes : rings'[m] = IF m = l THEN rings[l] - 1 ELSE rings[m]
    BY <1>1
  <2> QED  BY <1>2, <2>1, NothingAssumption DEF Live
<1>5. Cardinality(Live) >= 1
  <2>1. Cardinality(Live) # 0
    BY LiveIsFinite, FS_EmptySet
  <2> QED  BY <2>1, LiveIsFinite
<1>6. NoPhantomConnection'
    BY <1>1, <1>4, <1>5, ConnectedRow DEF IInv, NoPhantomConnection
<1> QED  BY <1>1, <1>3, <1>4, <1>6, ConnectedRow DEF Present

LEMMA EndPresent == ASSUME IInv, NEW l \in Leashes, End(l) PROVE Present /\ Live' = Live \ {l}
<1> USE DEF End
<1>1. row \in Rows \cup {Nothing} /\ rings \in [Leashes -> Nat \cup {Nothing}]
    BY DEF IInv, TypeOK
<1>2. rings' \in [Leashes -> Nat \cup {Nothing}] /\ Live' = Live \ {l}
    BY <1>1 DEF Live
<1>3. Cardinality(Live') = Cardinality(Live) - 1
    BY <1>2, LiveIsFinite, FS_RemoveElement
<1>4. Cardinality(Live') \in Nat
  <2>1. IsFiniteSet(Live')
    BY <1>2, LiveIsFinite, FS_RemoveElement
  <2> QED  BY <2>1, FS_CardinalityType
<1>5. CASE row = Nothing
    BY <1>2, <1>5 DEF Present, NoPhantomConnection, Disconnected
<1>6. CASE row # Nothing
  <2>1. row' \in Rows
    BY <1>1, <1>6 DEF Disconnected, Rows
  <2>2. row'.connections <= Cardinality(Live')
    BY <1>1, <1>3, <1>4, <1>6, LiveIsFinite DEF IInv, NoPhantomConnection, Disconnected, Rows
  <2> QED  BY <1>2, <2>1, <2>2 DEF Present, NoPhantomConnection
<1> QED  BY <1>2, <1>5, <1>6

-----------------------------------------------------------------------------
(* Steps asked for and steps taken.                                        *)

\* The row as far as steps go: as it was, or without a step.
SameStep == row' # Nothing => row'.delta = 0 \/ (row # Nothing /\ row'.seq = row.seq /\ row'.delta = row.delta)

LEMMA EmptyWireKeeps ==
    ASSUME wire' = <<>>, taken' <= asked',
           row' # Nothing /\ obeyed' # Nothing /\ IsStep(obeyed', row') => taken' < asked'
    PROVE  StepsAreAskedFor'
<1> PICK rank : rank = [i \in {} |-> 0]
    OBVIOUS
<1>1. DOMAIN wire' = {}
    OBVIOUS
<1>2. Ranked(rank)'
    BY <1>1 DEF Ranked
<1> QED  BY <1>2 DEF StepsAreAskedFor, IsStep

LEMMA SilentRowKeeps ==
    ASSUME StepsAreAskedFor, UNCHANGED <<wire, taken, asked, obeyed>>, SameStep
    PROVE  StepsAreAskedFor'
<1> PICK rank : Ranked(rank)
    BY DEF StepsAreAskedFor
<1>1. \A seq : row' # Nothing /\ IsStep(seq, row') => row # Nothing /\ IsStep(seq, row)
    BY DEF SameStep, IsStep
<1>2. Ranked(rank)'
    BY <1>1 DEF Ranked, IsStep
<1> QED  BY <1>1, <1>2 DEF StepsAreAskedFor, IsStep

\* What was asked for is the rank of the row, and of the payload made of it.
LEMMA PayloadKeeps ==
    ASSUME StepsAreAskedFor, taken \in Nat, asked \in Nat, UNCHANGED <<taken, asked, obeyed>>,
           SameStep, row' \in Rows, wire' = Append(wire, Payload(row'))
    PROVE  StepsAreAskedFor'
<1> DEFINE n == Len(wire)
<1>1. wire \in Seq(Payloads) /\ Payload(row') \in Payloads /\ row' # Nothing
    BY PayloadOfRow, NothingAssumption DEF StepsAreAskedFor
<1>2. /\ n \in Nat /\ DOMAIN wire = 1..n /\ DOMAIN wire' = 1..n+1 /\ wire' \in Seq(Payloads)
      /\ wire'[n+1] = Payload(row') /\ \A i \in 1..n : wire'[i] = wire[i]
    BY <1>1
<1> PICK rank : Ranked(rank)
    BY DEF StepsAreAskedFor
<1> HIDE DEF n
<1> PICK new : new = [i \in 1..n+1 |-> IF i = n+1 THEN asked ELSE rank[i]]
    OBVIOUS
<1>3. /\ rank \in [1..n -> taken..asked]
      /\ \A i, j \in 1..n : i < j => rank[i] <= rank[j] /\ (IsStep(wire[i].seq, wire[j]) => rank[i] < rank[j])
      /\ obeyed # Nothing => \A i \in 1..n : IsStep(obeyed, wire[i]) => taken < rank[i]
      /\ row # Nothing => \A i \in 1..n : IsStep(wire[i].seq, row) => rank[i] < asked
    BY <1>2 DEF Ranked
<1>4. \A seq : IsStep(seq, row') => row # Nothing /\ IsStep(seq, row)
    BY <1>1 DEF SameStep, IsStep
<1>5. \A seq : IsStep(seq, wire'[n+1]) => row # Nothing /\ IsStep(seq, row)
    BY <1>2, <1>4, PayloadOfRow
<1>6. new \in [1..n+1 -> taken..asked]
    BY <1>2, <1>3 DEF StepsAreAskedFor
<1>7. ASSUME NEW i \in 1..n+1, NEW j \in 1..n+1, i < j
      PROVE  new[i] <= new[j] /\ (IsStep(wire'[i].seq, wire'[j]) => new[i] < new[j])
  <2>1. i \in 1..n /\ new[i] = rank[i] /\ wire'[i] = wire[i]
    BY <1>2, <1>7
  <2>2. CASE j = n+1
    BY <1>2, <1>3, <1>5, <2>1, <2>2
  <2>3. CASE j \in 1..n
    BY <1>2, <1>3, <1>7, <2>1, <2>3
  <2> QED  BY <1>2, <2>2, <2>3
<1>8. ASSUME obeyed # Nothing, NEW i \in 1..n+1, IsStep(obeyed, wire'[i]) PROVE taken < new[i]
  <2>1. CASE i = n+1
    BY <1>2, <1>5, <1>8, <2>1 DEF StepsAreAskedFor
  <2>2. CASE i \in 1..n
    BY <1>2, <1>3, <1>8, <2>2
  <2> QED  BY <1>2, <2>1, <2>2
<1>9. ASSUME NEW i \in 1..n+1, IsStep(wire'[i].seq, row') PROVE new[i] < asked
  <2>1. i # n+1
    BY <1>2, <1>9 DEF IsStep, Payload
  <2>2. i \in 1..n
    BY <1>2, <2>1
  <2> QED  BY <1>2, <1>3, <1>4, <1>9, <2>2
<1>10. Ranked(new)'
    BY <1>2, <1>6, <1>7, <1>8, <1>9 DEF Ranked
<1> QED  BY <1>2, <1>4, <1>10 DEF StepsAreAskedFor

\* A payload is taken off the wire, and the ceremony goes to its rank at most.
LEMMA DeliveryKeeps ==
    ASSUME StepsAreAskedFor, taken \in Nat, asked \in Nat, wire # <<>>, UNCHANGED <<row, asked>>,
           wire' = Tail(wire),
           \/ UNCHANGED <<obeyed, taken>>
           \/ Obeys(Head(wire))
    PROVE  StepsAreAskedFor' /\ taken' \in Nat
<1> DEFINE n == Len(wire)
           p == wire[1]
<1>1. /\ wire \in Seq(Payloads) /\ n \in Nat /\ n >= 1 /\ DOMAIN wire = 1..n /\ DOMAIN wire' = 1..n-1
      /\ wire' \in Seq(Payloads) /\ Head(wire) = p /\ p \in Payloads
      /\ \A i \in 1..n-1 : i+1 \in 1..n /\ wire'[i] = wire[i+1]
  <2>1. wire \in Seq(Payloads)
    BY DEF StepsAreAskedFor
  <2> QED  BY <2>1
<1> PICK rank : Ranked(rank)
    BY DEF StepsAreAskedFor
<1> HIDE DEF n, p
<1> PICK new : new = [i \in 1..n-1 |-> rank[i+1]]
    OBVIOUS
<1>2. /\ rank \in [1..n -> taken..asked]
      /\ \A i, j \in 1..n : i < j => rank[i] <= rank[j] /\ (IsStep(wire[i].seq, wire[j]) => rank[i] < rank[j])
      /\ obeyed # Nothing => \A i \in 1..n : IsStep(obeyed, wire[i]) => taken < rank[i]
      /\ row # Nothing => \A i \in 1..n : IsStep(wire[i].seq, row) => rank[i] < asked
    BY <1>1 DEF Ranked
<1>3. 1 \in 1..n /\ rank[1] \in taken..asked
    BY <1>1, <1>2
<1>4. taken' \in taken..rank[1]
  <2>1. CASE UNCHANGED <<obeyed, taken>>
    BY <1>3, <2>1
  <2>2. CASE Obeys(p)
    <3>1. p.delta \in {-1, 0, 1}
        BY <1>1 DEF Payloads
    <3>2. obeyed # Nothing /\ p.seq # obeyed /\ p.delta # 0 => taken < rank[1]
        BY <1>2, <1>3 DEF IsStep, p
    <3> QED  BY <1>3, <2>2, <3>1, <3>2 DEF Obeys, Takes
  <2> QED  BY <1>1, <2>1, <2>2
<1>5. \A i \in 1..n-1 : new[i] = rank[i+1] /\ rank[i+1] \in rank[1]..asked
  <2>1. ASSUME NEW i \in 1..n-1 PROVE rank[1] <= rank[i+1] /\ rank[i+1] \in taken..asked
    <3>1. i+1 \in 1..n /\ 1 < i+1
        BY <1>1
    <3> QED  BY <1>2, <1>3, <3>1
  <2> QED  BY <1>3, <2>1
<1>6. new \in [1..n-1 -> taken'..asked]
    BY <1>3, <1>4, <1>5
<1>7. ASSUME NEW i \in 1..n-1, NEW j \in 1..n-1, i < j
      PROVE  new[i] <= new[j] /\ (IsStep(wire'[i].seq, wire'[j]) => new[i] < new[j])
  <2>1. i+1 \in 1..n /\ j+1 \in 1..n /\ i+1 < j+1
    BY <1>1, <1>7
  <2> QED  BY <1>1, <1>2, <1>5, <2>1
<1>8. ASSUME NEW seq, seq = obeyed', obeyed' # Nothing
      PROVE  /\ \A i \in 1..n-1 : IsStep(seq, wire'[i]) => taken' < new[i]
             /\ row # Nothing /\ IsStep(seq, row) => taken' < asked
  <2>1. CASE UNCHANGED <<obeyed, taken>>
    BY <1>1, <1>2, <1>5, <1>8, <2>1 DEF StepsAreAskedFor
  <2>2. CASE Obeys(p)
    <3>1. seq = wire[1].seq
        BY <1>8, <2>2 DEF Obeys, p
    <3>2. ASSUME NEW i \in 1..n-1, IsStep(seq, wire'[i]) PROVE rank[1] < new[i]
      <4>1. i+1 \in 1..n /\ 1 < i+1
        BY <1>1
      <4> QED  BY <1>1, <1>2, <1>3, <1>5, <3>1, <3>2, <4>1
    <3>3. row # Nothing /\ IsStep(seq, row) => rank[1] < asked
        BY <1>2, <1>3, <3>1
    <3>4. taken' \in Nat /\ rank[1] \in Nat /\ taken' <= rank[1]
        BY <1>3, <1>4
    <3>5. ASSUME NEW i \in 1..n-1, IsStep(seq, wire'[i]) PROVE taken' < new[i]
      <4>1. new[i] \in rank[1]..asked /\ rank[1] < new[i]
        BY <1>5, <3>2, <3>5
      <4> QED  BY <3>4, <4>1
    <3>6. row # Nothing /\ IsStep(seq, row) => taken' < asked
        BY <3>3, <3>4
    <3> QED  BY <3>5, <3>6
  <2> QED  BY <1>1, <2>1, <2>2
<1>9. ASSUME row # Nothing, NEW i \in 1..n-1, IsStep(wire'[i].seq, row) PROVE new[i] < asked
    BY <1>1, <1>2, <1>5, <1>9
<1>10. Ranked(new)'
    BY <1>1, <1>6, <1>7, <1>8, <1>9 DEF Ranked
<1>11. taken' \in Nat /\ taken' <= asked'
    BY <1>3, <1>4
<1> QED  BY <1>1, <1>8, <1>10, <1>11 DEF StepsAreAskedFor

\* A step more is asked for: by the operator, in the row, or by a key, which is
\* taken at once.
LEMMA AskedKeeps ==
    ASSUME StepsAreAskedFor, taken \in Nat, asked \in Nat, UNCHANGED <<wire, obeyed>>,
           asked' = asked + 1,
           \/ taken' = taken
           \/ taken' = taken + 1 /\ UNCHANGED row
    PROVE  StepsAreAskedFor'
<1> PICK rank : Ranked(rank)
    BY DEF StepsAreAskedFor
<1> PICK new : new = [i \in DOMAIN wire |-> rank[i] + (taken' - taken)]
    OBVIOUS
<1>1. taken' - taken \in {0, 1} /\ (taken' - taken = 1 => UNCHANGED row) /\ taken' \in Nat
    OBVIOUS
<1>2. /\ rank \in [DOMAIN wire -> taken..asked]
      /\ \A i, j \in DOMAIN wire : i < j => rank[i] <= rank[j] /\ (IsStep(wire[i].seq, wire[j]) => rank[i] < rank[j])
      /\ obeyed # Nothing => \A i \in DOMAIN wire : IsStep(obeyed, wire[i]) => taken < rank[i]
      /\ row # Nothing => \A i \in DOMAIN wire : IsStep(wire[i].seq, row) => rank[i] < asked
    BY DEF Ranked
<1>3. \A i \in DOMAIN wire : rank[i] \in taken..asked /\ new[i] = rank[i] + (taken' - taken)
    BY <1>2
<1>4. new \in [DOMAIN wire -> taken'..asked']
    BY <1>1, <1>3
<1>5. ASSUME NEW i \in DOMAIN wire, NEW j \in DOMAIN wire, i < j
      PROVE  new[i] <= new[j] /\ (IsStep(wire[i].seq, wire[j]) => new[i] < new[j])
    BY <1>1, <1>2, <1>3, <1>5
<1>6. ASSUME obeyed # Nothing, NEW i \in DOMAIN wire, IsStep(obeyed, wire[i]) PROVE taken' < new[i]
    BY <1>1, <1>2, <1>3, <1>6
<1>7. ASSUME row' # Nothing, NEW i \in DOMAIN wire, IsStep(wire[i].seq, row') PROVE new[i] < asked'
  <2>1. CASE taken' = taken
    BY <1>3, <2>1
  <2>2. CASE taken' = taken + 1 /\ UNCHANGED row
    BY <1>2, <1>3, <1>7, <2>2
  <2> QED  BY <2>1, <2>2
<1>8. Ranked(new)'
    BY <1>4, <1>5, <1>6, <1>7 DEF Ranked
<1>9. /\ taken' <= asked'
      /\ row' # Nothing /\ obeyed # Nothing /\ IsStep(obeyed, row') => taken' < asked'
    BY DEF StepsAreAskedFor
<1> QED  BY <1>8, <1>9 DEF StepsAreAskedFor, IsStep

-----------------------------------------------------------------------------
(* The steps.                                                              *)

LEMMA InitInvariant == Init => IInv
<1> SUFFICES ASSUME Init PROVE IInv
    OBVIOUS
<1> USE DEF Init
<1>1. TypeOK
  <2>1. {index, wanted} \subseteq 0..LastAward /\ {asked, taken} \subseteq Nat
    BY AwardsAssumption
  <2>2. rings \in [Leashes -> Nat \cup {Nothing}]
    OBVIOUS
  <2>3. leash \in Live \cup {Nothing} /\ obeyed \in Nat \cup {Nothing} /\ row \in Rows \cup {Nothing}
    OBVIOUS
  <2>4. {intermission, owed} \subseteq BOOLEAN
    OBVIOUS
  <2> QED  BY <2>1, <2>2, <2>3, <2>4 DEF TypeOK
<1>2. NoPhantomConnection
    BY DEF NoPhantomConnection
<1> PICK rank : rank = [i \in {} |-> 0]
    OBVIOUS
<1>3. Ranked(rank)
    BY DEF Ranked
<1>4. StepsAreAskedFor
    BY <1>3 DEF StepsAreAskedFor
<1> QED  BY <1>1, <1>2, <1>4 DEF IInv

LEMMA SubscribeKeeps == ASSUME IInv, Subscribe PROVE IInv'
<1> USE DEF Subscribe, screen, history
<1>1. Present /\ leash' \in Live'
    BY SubscribePresent
<1>2. row' \in Rows /\ SameStep /\ wire = <<>>
    BY ConnectedRow DEF IInv, TypeOK, SameStep
<1>3. wire' = Append(wire, Payload(row'))
    BY <1>2
<1>4. StepsAreAskedFor'
    BY <1>2, <1>3, PayloadKeeps DEF IInv, TypeOK
<1>5. leash' # Nothing
    BY <1>1, NothingAssumption DEF Live
<1>6. TypeOK'
    BY <1>1, <1>5 DEF IInv, TypeOK, Present
<1> QED  BY <1>1, <1>4, <1>6 DEF IInv, Present

LEMMA WakeKeeps == ASSUME IInv, NEW l \in Leashes, Wake(l) PROVE IInv'
<1> USE DEF Wake, screen, history
<1>1. Present /\ Live' = Live
    BY WakePresent
<1>2. row' \in Rows /\ SameStep
    BY ConnectedRow DEF IInv, TypeOK, SameStep
<1>3. StepsAreAskedFor'
  <2>1. CASE l = leash
    BY <1>2, <2>1, PayloadKeeps DEF IInv, TypeOK
  <2>2. CASE l # leash
    BY <1>2, <2>2, SilentRowKeeps DEF IInv
  <2> QED  BY <2>1, <2>2
<1>4. l # Nothing
    BY NothingAssumption
<1>5. TypeOK'
    BY <1>1, <1>4 DEF IInv, TypeOK, Present
<1> QED  BY <1>1, <1>3, <1>5 DEF IInv, Present

LEMMA EndKeeps == ASSUME IInv, NEW l \in Leashes, End(l) PROVE IInv'
<1> USE DEF End, screen, history
<1>1. Present /\ Live' = Live \ {l}
    BY EndPresent
<1>2. SameStep
    BY DEF IInv, TypeOK, SameStep, Disconnected, Rows
<1>3. StepsAreAskedFor'
    BY <1>2, SilentRowKeeps DEF IInv
<1>4. TypeOK'
    BY <1>1 DEF IInv, TypeOK, Present
<1> QED  BY <1>1, <1>3, <1>4 DEF IInv, Present

LEMMA RestartKeeps == ASSUME IInv, Restart PROVE IInv'
<1> USE DEF Restart, screen
<1>1. TypeOK'
    BY DEF IInv, TypeOK
<1>2. StepsAreAskedFor'
    BY EmptyWireKeeps DEF IInv, StepsAreAskedFor
<1> QED  BY <1>1, <1>2 DEF IInv, NoPhantomConnection

\* A page that comes up has taken no step, and none is asked of it.
LEMMA FreshKeeps ==
    ASSUME IInv, NEW p \in Pages, Fresh(p), UNCHANGED registry, intermission' \in BOOLEAN
    PROVE  IInv'
<1> USE DEF Fresh, registry
<1>1. TypeOK'
    BY AwardsAssumption DEF IInv, TypeOK
<1>2. StepsAreAskedFor'
    BY EmptyWireKeeps
<1>3. NoPhantomConnection'
    BY DEF IInv, NoPhantomConnection, Live
<1> QED  BY <1>1, <1>2, <1>3 DEF IInv

LEMMA PageFollowed == ASSUME IInv, NEW payload, NEW b PROVE Follows(payload, b) \in Pages
BY DEF IInv, TypeOK, Follows, PageOf, Pages

LEMMA DeliverKeeps == ASSUME IInv, Deliver PROVE IInv'
<1> DEFINE payload == Head(wire)
<1>1. CASE Follows(payload, intermission) # page
  <2>1. Fresh(Follows(payload, intermission)) /\ UNCHANGED <<registry, intermission>>
    BY <1>1 DEF Deliver
  <2>2. Follows(payload, intermission) \in Pages
    BY PageFollowed
  <2>3. intermission' \in BOOLEAN
    BY <2>1 DEF IInv, TypeOK
  <2> QED  BY <2>1, <2>2, <2>3, FreshKeeps
<1>2. CASE Follows(payload, intermission) = page
  <2>1. /\ wire # <<>> /\ wire' = Tail(wire) /\ UNCHANGED <<page, leash, history, registry, intermission>>
        /\ leash # Nothing
        /\ UNCHANGED <<obeyed, index, taken>> \/ Obeys(payload)
    BY <1>2 DEF Deliver
  <2>2. StepsAreAskedFor' /\ taken' \in Nat
    BY <2>1, DeliveryKeeps DEF IInv, TypeOK, history, registry
  <2>3. obeyed' \in Nat \cup {Nothing}
    <3>1. payload \in Payloads
        BY <2>1 DEF IInv, StepsAreAskedFor
    <3> QED  BY <2>1, <3>1 DEF IInv, TypeOK, Obeys, Payloads
  <2>4. index' \in 0..LastAward
    <3>1. payload \in Payloads
        BY <2>1 DEF IInv, StepsAreAskedFor
    <3>2. payload.delta \in {-1, 0, 1}
        BY <3>1 DEF Payloads
    <3>3. index \in 0..LastAward
        BY DEF IInv, TypeOK
    <3>4. index' = index \/ index' = StepIndex(index, payload.delta)
        BY <2>1 DEF Obeys, Takes
    <3> QED  BY <3>2, <3>3, <3>4, StepType
  <2>5. TypeOK'
    BY <2>1, <2>2, <2>3, <2>4 DEF IInv, TypeOK, history, registry, Live
  <2>6. NoPhantomConnection'
    BY <2>1 DEF IInv, NoPhantomConnection, registry, Live
  <2> QED  BY <2>2, <2>5, <2>6 DEF IInv
<1> QED  BY <1>1, <1>2

LEMMA KeyKeeps == ASSUME IInv, NEW delta \in {-1, 1}, Key(delta) PROVE IInv'
<1> USE DEF Key, Takes, Asks, registry
<1>1. StepsAreAskedFor'
    BY AskedKeeps DEF IInv, TypeOK
<1>2. TypeOK'
    BY StepType DEF IInv, TypeOK, Live
<1>3. NoPhantomConnection'
    BY DEF IInv, NoPhantomConnection, Live
<1> QED  BY <1>1, <1>2, <1>3 DEF IInv

LEMMA BreakKeeps == ASSUME IInv, Break PROVE IInv'
<1>1. CASE Fresh(page)
  <2>1. page \in Pages /\ intermission' \in BOOLEAN
    BY DEF IInv, TypeOK, Break
  <2> QED  BY <1>1, <2>1, FreshKeeps DEF Break
<1>2. CASE leash' = Nothing /\ wire' = <<>> /\ owed' = FALSE /\ UNCHANGED <<screen, asked, wanted>>
  <2>1. UNCHANGED <<registry, intermission>>
    BY DEF Break
  <2>2. StepsAreAskedFor'
    BY <1>2, <2>1, EmptyWireKeeps DEF IInv, StepsAreAskedFor, screen, registry
  <2>3. TypeOK'
    BY <1>2, <2>1 DEF IInv, TypeOK, Live, screen, registry
  <2>4. NoPhantomConnection'
    BY <2>1 DEF IInv, NoPhantomConnection, Live, registry
  <2> QED  BY <2>2, <2>3, <2>4 DEF IInv
<1> QED  BY <1>1, <1>2 DEF Break

\* A step that leaves the screen, its leash and the registry alone.
LEMMA OtherKeeps ==
    ASSUME IInv, UNCHANGED <<registry, leash, wire, screen, history>>, intermission' \in BOOLEAN
    PROVE  IInv'
<1> USE DEF registry, screen, history
<1>1. StepsAreAskedFor'
    BY SilentRowKeeps DEF IInv, SameStep
<1>2. TypeOK'
    BY DEF IInv, TypeOK, Live
<1>3. NoPhantomConnection'
    BY DEF IInv, NoPhantomConnection, Live
<1> QED  BY <1>1, <1>2, <1>3 DEF IInv

LEMMA IntermissionKeeps == ASSUME IInv, Intermission PROVE IInv'
<1>1. intermission' \in BOOLEAN /\ UNCHANGED registry
    BY DEF Intermission
<1>2. CASE Fresh(Follows(told, FALSE))
    BY <1>1, <1>2, PageFollowed, FreshKeeps
<1>3. CASE UNCHANGED <<screen, leash, wire, history>>
    BY <1>1, <1>3, OtherKeeps
<1> QED  BY <1>2, <1>3 DEF Intermission

\* A command writes the row and rings the generators.
LEMMA CommandKeeps ==
    ASSUME IInv, UNCHANGED <<leash, wire, screen, intermission>>,
           RingAll, row' \in Rows \cup {Nothing},
           asked' \in Nat, wanted' \in 0..LastAward, owed' \in BOOLEAN,
           row' # Nothing => row # Nothing /\ row'.connections = row.connections,
           StepsAreAskedFor'
    PROVE  IInv'
<1> USE DEF screen
<1>1. rings' \in [Leashes -> Nat \cup {Nothing}] /\ Live' = Live
    BY RungGenerators DEF IInv, TypeOK
<1>2. TypeOK'
    BY <1>1 DEF IInv, TypeOK
<1>3. NoPhantomConnection'
    BY <1>1 DEF IInv, NoPhantomConnection
<1> QED  BY <1>2, <1>3 DEF IInv

LEMMA AssignKeeps == ASSUME IInv, NEW view \in {"AWARDS", "STANDINGS"}, Assign(view) PROVE IInv'
<1> USE DEF Assign, Command, screen, history
<1>1. row' \in Rows /\ row'.connections = row.connections /\ row'.seq = row.seq /\ row'.delta = row.delta
    BY DEF IInv, TypeOK, Rows
<1>2. StepsAreAskedFor'
    BY <1>1, SilentRowKeeps DEF IInv, SameStep
<1>3. asked' \in Nat /\ wanted' \in 0..LastAward /\ owed' \in BOOLEAN
    BY DEF IInv, TypeOK
<1> QED  BY <1>1, <1>2, <1>3, CommandKeeps

LEMMA ForgetKeeps == ASSUME IInv, Forget PROVE IInv'
<1> USE DEF Forget, Command, screen, history
<1>1. StepsAreAskedFor'
    BY SilentRowKeeps DEF IInv, SameStep
<1>2. asked' \in Nat /\ wanted' \in 0..LastAward /\ owed' \in BOOLEAN
    BY DEF IInv, TypeOK
<1> QED  BY <1>1, <1>2, CommandKeeps

LEMMA AdvanceKeeps == ASSUME IInv, NEW delta \in {-1, 1}, Advance(delta) PROVE IInv'
<1> USE DEF Advance, Asks, Command, screen
<1>1. row' \in Rows /\ row'.connections = row.connections
  <2>1. row \in Rows /\ row' = [row EXCEPT !.seq = @ + 1, !.delta = delta]
    BY DEF IInv, TypeOK
  <2>2. row.seq + 1 \in Nat /\ row.connections \in Nat
    BY <2>1 DEF Rows
  <2>3. row' = [connections |-> row.connections, assigned |-> row.assigned,
                view |-> row.view, seq |-> row.seq + 1, delta |-> delta]
    BY <2>1 DEF Rows
  <2> QED  BY <2>1, <2>2, <2>3 DEF Rows
<1>2. asked' \in Nat /\ wanted' \in 0..LastAward /\ owed' \in BOOLEAN
    BY StepType DEF IInv, TypeOK
<1>3. StepsAreAskedFor'
    BY AskedKeeps DEF IInv, TypeOK
<1> QED  BY <1>1, <1>2, <1>3, CommandKeeps

LEMMA StepInvariant == ASSUME IInv, [Next]_vars PROVE IInv'
<1>1. CASE UNCHANGED vars
    BY <1>1, OtherKeeps DEF IInv, TypeOK, vars
<1>2. CASE Next
    BY <1>2, SubscribeKeeps, DeliverKeeps, KeyKeeps, BreakKeeps, IntermissionKeeps, RestartKeeps,
       AdvanceKeeps, ForgetKeeps, AssignKeeps, WakeKeeps, EndKeeps DEF Next
<1> QED  BY <1>1, <1>2

-----------------------------------------------------------------------------
(* The results.                                                            *)

\* The inductive invariant holds: each payload on the wire has a rank between the
\* steps taken and the steps asked for, forwards and backwards, and a row counts no
\* more than there is.
THEOREM StepsAreRanked == Spec => []IInv
<1> QED  BY InitInvariant, StepInvariant, PTL DEF Spec

\* Every variable keeps its type: a row's count never goes below 0, and the screen
\* hangs on a generator that lives.
THEOREM TypeCorrect == Spec => []TypeOK
<1>1. IInv => TypeOK
    BY DEF IInv
<1> QED  BY <1>1, StepsAreRanked, PTL

\* A row never counts more connections than there are generators, so a screen that
\* the server knows to be gone is shown as gone.
THEOREM PresenceIsTrue == Spec => []NoPhantomConnection
<1>1. IInv => NoPhantomConnection
    BY DEF IInv
<1> QED  BY <1>1, StepsAreRanked, PTL

\* The ceremony never takes a step that was not asked for, whatever is sent again
\* after a reconnection, a forgotten screen or a restart.
THEOREM NoStepIsRepeated == Spec => []NoStepIsTakenTwice
<1>1. IInv => NoStepIsTakenTwice
    BY DEF IInv, StepsAreAskedFor, NoStepIsTakenTwice
<1> QED  BY <1>1, StepsAreRanked, PTL

=============================================================================
