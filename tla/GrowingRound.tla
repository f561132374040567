---------------------------- MODULE GrowingRound ----------------------------
(***************************************************************************)
(* A general round whose schedule grows: an elimination round, a wave at a *)
(* time (backend/domain/elimination.py), or a balanced one, a phase at a   *)
(* time (backend/domain/balanced.py). What is drawn next is recomputed     *)
(* from the heats there are, by whatever leaves none of them to be run: a  *)
(* result, a withdrawal or a lane taken out of service (db/crud.py).       *)
(*                                                                         *)
(* A heat is its row: a car, or nobody, on each lane it has; the cars that *)
(* finished, fastest first, and those that did not; whether it was passed  *)
(* over. `wave' is not in the row: it says with which set of heats this    *)
(* one was drawn. Dead heats of two cars are left out. A racer is a        *)
(* positive number, in the order of registration.                          *)
(***************************************************************************)
EXTENDS HeatChunks, FiniteSetsExt

CONSTANTS
    Racers,       \* the roster
    RoundKinds    \* the rounds looked at:
                  \*   style    "elimination" or "balanced"
                  \*   goal     elimination_losses or balanced_phases
                  \*   width    the lanes of the track
                  \*   late     the racers who are not checked in yet
                  \*   movers   bound: the racers who may be checked out
                  \*   changes  bound: how often anything but racing happens
                  \*   uses     which of the optional operations happen

Nobody == 0

ASSUME RacersAssumption == Racers \subseteq Nat \ {0} /\ IsFiniteSet(Racers)
ASSUME RoundKindsAssumption ==
    \A r \in RoundKinds :
        /\ r.style \in {"elimination", "balanced"}
        /\ r.goal \in Nat \ {0} /\ r.width \in Nat /\ r.width >= 2 /\ r.changes \in Nat
        /\ r.late \subseteq Racers /\ Cardinality(Racers \ r.late) >= 2
        /\ r.movers \subseteq Racers
        /\ r.uses \subseteq {"dnf", "partial", "correct", "clear", "skip", "return",
                             "outage", "delete_heat", "regenerate"}

VARIABLES
    round,       \* the one of RoundKinds this behaviour is about, chosen once
    heats,       \* its heats, by number
    disrupted,   \* Round.disrupted: it counts for no POINTS standings
    checkedIn,   \* Racer.car_passed_inspection
    usable,      \* the lanes in service, ascending
    changes      \* how often anything but racing has happened

vars == <<round, heats, disrupted, checkedIn, usable, changes>>

Elimination == round.style = "elimination"
FewerThanTwo(S) == \A p, q \in S : p = q

-----------------------------------------------------------------------------
(* Heats: backend/domain/lanes.py.                                         *)

NewHeat(cars, wave) ==
    [cars |-> cars, order |-> <<>>, dnf |-> {}, zeroed |-> FALSE,
     passed |-> FALSE, wave |-> wave]

Cars(h) == Range(h.cars) \ {Nobody}
Finished(h) == Range(h.order) \cup h.dnf
HasResults(h) == Finished(h) # {}
Waits(h) == ~HasResults(h) /\ ~h.passed

\* Mutant of HeatComplete: a heat that was passed over is never complete (#224).
HeatRaced(h) == Cars(h) \subseteq Finished(h)

HeatComplete(h) == h.passed \/ Cars(h) \subseteq Finished(h)

SomeHeatWaits(hs) == \E i \in DOMAIN hs : Waits(hs[i]) /\ Cars(hs[i]) # {}
MayRebuild(hs) == \A i \in DOMAIN hs : ~HasResults(hs[i])
HeatsComplete(hs) == hs # <<>> /\ \A i \in DOMAIN hs : HeatComplete(hs[i])

\* already, scheduled, appearances: who is in a heat, run or to come, and how
\* many of them; and on a lane.
Scheduled(hs) == UNION {Cars(hs[i]) : i \in DOMAIN hs}
Appearances(hs, q) == Cardinality({i \in DOMAIN hs : q \in Cars(hs[i])})
LaneUses(hs, q, l) ==
    Cardinality({i \in DOMAIN hs : l \in DOMAIN hs[i].cars /\ hs[i].cars[l] = q})

-----------------------------------------------------------------------------
(* Records: losses_by_racer and records.                                   *)

\* The best place wins, and a lane the timer reports as not finished is stored
\* with the place 0.
Winner(h) ==
    IF h.zeroed THEN Min(h.dnf) ELSE IF h.order = <<>> THEN Nobody ELSE h.order[1]

Loses(h, q) == q \in Finished(h) /\ ~FewerThanTwo(Finished(h)) /\ q # Winner(h)
Losses(hs, q) == Cardinality({i \in DOMAIN hs : Loses(hs[i], q)})

Place(h, q) ==
    IF q \in h.dnf THEN IF h.zeroed THEN 0 ELSE Cardinality(Cars(h))
    ELSE CHOOSE k \in DOMAIN h.order : h.order[k] = q

Record(hs, q) ==
    LET raced == {i \in DOMAIN hs : q \in Finished(hs[i])}
    IN  [wins |-> Cardinality({i \in raced : Place(hs[i], q) = 1}),
         points |-> MapThenSumSet(LAMBDA i : Place(hs[i], q), raced),
         heats |-> Cardinality(raced)]

\* performance_order: an unknown record last, then wins, then points per heat.
Outperforms(hs, p, q) ==
    LET a == Record(hs, p)
        b == Record(hs, q)
    IN  IF (a.heats = 0) # (b.heats = 0) THEN b.heats = 0
        ELSE IF a.wins # b.wins THEN a.wins > b.wins
        ELSE IF a.points * b.heats # b.points * a.heats
             THEN a.points * b.heats < b.points * a.heats
        ELSE p < q

\* Who must come before whom in the order a set of heats is drawn in. A first
\* set is shuffled, and so are cars with the same losses.
GoesAhead(hs, p, q) ==
    /\ hs # <<>>
    /\ IF Elimination THEN Losses(hs, p) < Losses(hs, q) ELSE Outperforms(hs, p, q)
Orders(hs, S) ==
    LET ahead == {pq \in S \X S : GoesAhead(hs, pq[1], pq[2])}
    IN  {o \in Injection(1..Cardinality(S), S) :
            \A i, j \in 1..Cardinality(S) : i < j => <<o[j], o[i]>> \notin ahead}

-----------------------------------------------------------------------------
(* Drawing a set of heats: next_wave and next_phase, generate_heats_for_   *)
(* round, extend_elimination_round and extend_balanced_round.              *)

\* The lanes a heat's cars are given: in the order drawn, or each lane to one of
\* those left who have used it least.
Seatings(hs, group, lanes) ==
    {cars \in Injection({lanes[k] : k \in DOMAIN group}, Range(group)) :
        IF Elimination THEN \A k \in DOMAIN group : cars[lanes[k]] = group[k]
        ELSE \A j, k \in DOMAIN group :
                j < k => LaneUses(hs, cars[lanes[j]], lanes[j]) <=
                         LaneUses(hs, cars[lanes[k]], lanes[j])}

\* The heats a field may be drawn into, given those that were drawn before.
Draws(hs, field, lanes) ==
    LET wave == IF hs = <<>> THEN 1 ELSE hs[Len(hs)].wave + 1
        Seated(groups) ==
            {cars \in [DOMAIN groups -> UNION {Seatings(hs, groups[i], lanes) :
                                                i \in DOMAIN groups}] :
                \A i \in DOMAIN groups : cars[i] \in Seatings(hs, groups[i], lanes)}
    IN  UNION {{[i \in DOMAIN cars |-> NewHeat(cars[i], wave)] : cars \in Seated(groups)} :
                    groups \in {ChunkHeats(o, Len(lanes)) : o \in Orders(hs, field)}}

\* A field or a track too small for a schedule is refused, and nothing changes.
Rebuilt(hs, present, lanes) ==
    IF FewerThanTwo(present) \/ Len(lanes) < 2 THEN {hs} ELSE Draws(<<>>, present, lanes)

\* Who is still in an elimination round, of those on the roster who have been
\* in a heat of it; and whether that decides it (is_decided).
Standing(hs, present) == {q \in Scheduled(hs) \cap present : Losses(hs, q) < round.goal}
Decided(hs, present) ==
    Scheduled(hs) \cap present # {} /\ FewerThanTwo(Standing(hs, present))

\* Who would be drawn next. A latecomer joins an elimination round until it is
\* decided, and a balanced one always.
Contenders(hs, present) ==
    IF ~Elimination THEN present
    ELSE IF Decided(hs, present) THEN Standing(hs, present)
    ELSE Standing(hs, present) \cup (present \ Scheduled(hs))

PhasesRun(hs) == ~Elimination /\ \E q \in Scheduled(hs) : Appearances(hs, q) >= round.goal

\* The schedule has run out, the round is not over, and a heat can be drawn.
Grows(hs, present, lanes) ==
    /\ hs # <<>> /\ ~SomeHeatWaits(hs) /\ ~PhasesRun(hs)
    /\ Len(lanes) >= 2 /\ ~FewerThanTwo(Contenders(hs, present))

Extended(hs, present, lanes) ==
    IF Grows(hs, present, lanes)
    THEN {hs \o new : new \in Draws(hs, Contenders(hs, present), lanes)}
    ELSE {hs}

\* Mutant of Uneven: only the cars that were in a heat are counted, a latecomer is not.
UnevenAmongScheduled(hs, present) ==
    /\ ~Elimination
    /\ \E q \in present \cap Scheduled(hs), p \in Scheduled(hs) :
           Appearances(hs, q) < Appearances(hs, p)

\* Somebody drawn into a phase has missed an earlier one.
Uneven(hs, present) ==
    /\ ~Elimination
    /\ \E q \in present, p \in Scheduled(hs) : Appearances(hs, q) < Appearances(hs, p)

\* is_round_complete: every heat is, and a winner has been found or the phases
\* have been run.
RoundComplete(hs, present) ==
    HeatsComplete(hs) /\ IF Elimination THEN Decided(hs, present) ELSE PhasesRun(hs)

-----------------------------------------------------------------------------
(* What rewrites the heats there are.                                      *)

\* Mutant of Thinned: one car left is still raced, as in a round of another style.
ThinnedToOne(h, cars) ==
    [h EXCEPT !.cars = cars, !.passed = h.passed \/ Range(cars) \subseteq {Nobody}]

\* Nobody races alone: a heat that is left with fewer than two cars is passed over.
Thinned(h, cars) ==
    [h EXCEPT !.cars = cars,
              !.passed = h.passed \/ FewerThanTwo(Range(cars) \ {Nobody})]

\* withdraw_absent_racers, in a round under way.
Vacates(h, gone) == Waits(h) /\ Cars(h) \cap gone # {}
Vacated(hs, gone) ==
    [i \in DOMAIN hs |->
        IF ~Vacates(hs[i], gone) THEN hs[i]
        ELSE Thinned(hs[i], [l \in DOMAIN hs[i].cars |->
                 IF hs[i].cars[l] \in gone THEN Nobody ELSE hs[i].cars[l]])]

\* apply_outages_to_scheduled_heats, in a round under way. A heat that is left
\* with no lane is given one to be passed over on.
Relanes(h, lanes) == ~HasResults(h) /\ ~(DOMAIN h.cars \subseteq Range(lanes))

\* Mutant of LanesLeft: a heat that is left with no lane has no row.
LanesLeftOnly(h, lanes) == Restrict(h.cars, DOMAIN h.cars \cap Range(lanes))

LanesLeft(h, lanes) ==
    LET left == Restrict(h.cars, DOMAIN h.cars \cap Range(lanes))
    IN  IF DOMAIN left # {} THEN left
        ELSE [l \in {IF lanes = <<>> THEN 1 ELSE lanes[1]} |-> Nobody]
Relaned(hs, lanes) ==
    [i \in DOMAIN hs |->
        IF Relanes(hs[i], lanes) THEN Thinned(hs[i], LanesLeft(hs[i], lanes)) ELSE hs[i]]

-----------------------------------------------------------------------------
(* The operations. Each ends by growing the round if nothing is left of it *)
(* to be run, with the roster and the lanes as they are by then.           *)

Init ==
    /\ round \in RoundKinds
    /\ checkedIn = Racers \ round.late
    /\ usable = [l \in 1..round.width |-> l]
    /\ heats \in Draws(<<>>, checkedIn, usable)
    /\ disrupted = FALSE
    /\ changes = 0

Uses(use) == use \in round.uses
Change == changes < round.changes /\ changes' = changes + 1 /\ UNCHANGED round

Extend(hs, marked) ==
    \E grown \in Extended(hs, checkedIn', usable') :
        /\ heats' = grown
        /\ disrupted' = (disrupted \/ marked \/ (grown # hs /\ Uneven(hs, checkedIn')))
Rebuild == heats' \in Rebuilt(heats, checkedIn', usable') /\ UNCHANGED disrupted

\* record_heat_result, of an official heat. The lanes are the heat's own.
RecordHeatResult(i, h) ==
    /\ UNCHANGED <<checkedIn, usable>>
    /\ Extend([heats EXCEPT ![i] = h], FALSE)

\* What a run of these cars can come to: a car that does not finish is stored
\* with no place, or by the timer with the place 0.
Results(h, cars, out, zeroed) ==
    {[h EXCEPT !.order = o, !.dnf = out, !.zeroed = zeroed, !.passed = FALSE] :
        o \in Injection(1..Cardinality(cars \ out), cars \ out)}
DidNotFinish(cars) == IF Uses("dnf") THEN SUBSET cars ELSE {{}}
Runs(h, cars) ==
    (UNION {Results(h, cars, out, FALSE) : out \in DidNotFinish(cars)}) \cup
    (UNION {Results(h, cars, out, TRUE) : out \in DidNotFinish(cars) \ {{}}})

\* The next heat that waits, or another, is run.
Race ==
    \E i \in DOMAIN heats :
        /\ Waits(heats[i]) /\ Cars(heats[i]) # {}
        /\ \E h \in Runs(heats[i], Cars(heats[i])) : RecordHeatResult(i, h)
        /\ UNCHANGED <<round, changes>>

\* The editor: other results for a heat that has some, all of its cars' or not.
Correct ==
    \E i \in DOMAIN heats :
        /\ Uses("correct") /\ HasResults(heats[i])
        /\ \E h \in Runs(heats[i], Cars(heats[i])) \ {heats[i]} : RecordHeatResult(i, h)
        /\ Change
RecordPart ==
    \E i \in DOMAIN heats : \E cars \in (SUBSET Cars(heats[i])) \ {{}, Cars(heats[i])} :
        /\ Uses("partial")
        /\ \E h \in Runs(heats[i], cars) : RecordHeatResult(i, h)
        /\ Change

\* Run and Re-Run put a heat back to wait.
Clear ==
    \E i \in DOMAIN heats :
        /\ Uses("clear") /\ ~Waits(heats[i])
        /\ RecordHeatResult(i, NewHeat(heats[i].cars, heats[i].wave))
        /\ Change
Skip ==
    \E i \in DOMAIN heats :
        /\ Uses("skip") /\ Waits(heats[i])
        /\ RecordHeatResult(i, [heats[i] EXCEPT !.passed = TRUE])
        /\ Change

\* _admit_late_racers: withdraw_absent_racers, then admit_late_racers. An unraced
\* round is drawn again; one under way loses the cars that have left, and takes
\* in a latecomer when it next grows.
Sweep ==
    LET gone == Scheduled(heats) \ checkedIn'
        missing == checkedIn' \ Scheduled(heats)
    IN  IF /\ heats # <<>> /\ MayRebuild(heats)
           /\ gone \cup missing # {} /\ ~FewerThanTwo(checkedIn')
        THEN Rebuild
        ELSE IF ~HeatsComplete(heats) /\ \E i \in DOMAIN heats : Vacates(heats[i], gone)
        THEN Extend(Vacated(heats, gone), FALSE)
        ELSE UNCHANGED <<heats, disrupted>>

CheckOut ==
    \E q \in checkedIn \cap round.movers :
        /\ checkedIn' = checkedIn \ {q}
        /\ UNCHANGED usable
        /\ Sweep
        /\ Change
CheckIn ==
    \E q \in Racers \ checkedIn :
        /\ q \in round.late \/ Uses("return")
        /\ checkedIn' = checkedIn \cup {q}
        /\ UNCHANGED usable
        /\ Sweep
        /\ Change

\* usable_lanes_for_race: n lanes of the track.
Ascending(n) == {s \in [1..n -> 1..round.width] : \A j, k \in 1..n : j < k => s[j] < s[k]}

\* setLaneOutages: refused if it would leave an unraced round fewer than two
\* lanes. A round with nothing left to run is not touched.
SetLaneOutages ==
    \E lanes \in (UNION {Ascending(n) : n \in 0..round.width}) \ {usable} :
        /\ Uses("outage")
        /\ heats # <<>> /\ MayRebuild(heats) => Len(lanes) >= 2
        /\ usable' = lanes
        /\ UNCHANGED checkedIn
        /\ IF heats # <<>> /\ MayRebuild(heats) THEN Rebuild
           ELSE IF \E i \in DOMAIN heats : Relanes(heats[i], usable')
           THEN Extend(Relaned(heats, usable'), TRUE)
           ELSE UNCHANGED <<heats, disrupted>>
        /\ Change

DeleteHeat ==
    \E i \in DOMAIN heats :
        /\ Uses("delete_heat") /\ Waits(heats[i])
        /\ heats' = [j \in 1..Len(heats) - 1 |-> heats[IF j < i THEN j ELSE j + 1]]
        /\ UNCHANGED <<disrupted, checkedIn, usable>>
        /\ Change

RegenerateRound ==
    /\ Uses("regenerate") /\ MayRebuild(heats)
    /\ UNCHANGED <<checkedIn, usable>>
    /\ Rebuild
    /\ Change

Next ==
    \/ Race \/ Correct \/ RecordPart \/ Clear \/ Skip
    \/ CheckOut \/ CheckIn \/ SetLaneOutages \/ DeleteHeat \/ RegenerateRound

\* The race goes on: heats that wait are run.
Spec == Init /\ [][Next]_vars /\ WF_vars(Race)

-----------------------------------------------------------------------------
(* Properties.                                                             *)

\* Rows are well formed: every heat has lanes of the track, results are those of
\* its cars, and no car is in two places of one result.
HeatOK(h) ==
    /\ DOMAIN h.cars \subseteq 1..round.width /\ DOMAIN h.cars # {}
    /\ Range(h.cars) \subseteq Racers \cup {Nobody}
    /\ IsInjective(h.order) /\ Range(h.order) \cap h.dnf = {}
    /\ Finished(h) \subseteq Cars(h) /\ (h.passed => ~HasResults(h))
    /\ {h.zeroed, h.passed} \subseteq BOOLEAN /\ (h.zeroed => h.dnf # {})
    /\ h.wave \in 1..Len(heats) + round.changes
TypeOK ==
    /\ round \in RoundKinds /\ checkedIn \subseteq Racers
    /\ \A i \in DOMAIN heats : HeatOK(heats[i])
    /\ disrupted \in BOOLEAN /\ changes \in 0..round.changes
    /\ Range(usable) \subseteq 1..round.width /\ IsInjective(usable)

\* Nobody races alone (#1022): no draw, withdrawal or outage leaves a car by
\* itself in a heat that waits. One that was passed over for it may be run.
Alone(h) == Waits(h) /\ Cars(h) # {} /\ FewerThanTwo(Cars(h))
NobodyRacesAlone ==
    [][\A i \in DOMAIN heats' :
          Alone(heats'[i]) =>
              \E j \in DOMAIN heats :
                  heats[j].cars = heats'[i].cars /\ heats[j].wave = heats'[i].wave]_vars

\* Nothing is left to run, and the round may go no further: there is nobody to
\* race, nowhere to race, or a heat with half its results entered.
HalfEntered(h) == HasResults(h) /\ ~(Cars(h) \subseteq Finished(h))
Halted ==
    \/ Len(usable) < 2 \/ FewerThanTwo(checkedIn)
    \/ \E i \in DOMAIN heats : HalfEntered(heats[i])

\* A round comes to an end: whatever one thing happens to it, racing what there is
\* to race leads to a winner, or to the last phase. Two may undo each other, and the
\* last heat that waits may be deleted: then nothing is drawn.
RoundEnds ==
    round.changes < 2 /\ ~Uses("delete_heat")
    => <>[](~SomeHeatWaits(heats) /\ (RoundComplete(heats, checkedIn) \/ Halted))

\* A balanced round that counts for a POINTS sum is one in which those who were
\* in it, and still are, had as many heats (#172).
UnevenRoundIsSetAside ==
    ~Elimination /\ RoundComplete(heats, checkedIn) /\ ~disrupted
    => \A p, q \in Scheduled(heats) \cap checkedIn : Appearances(heats, p) = Appearances(heats, q)

-----------------------------------------------------------------------------
(* What the repository says of these rounds, and the code does not do.     *)

\* A DNF is a loss: a car that did not finish is not the winner of its heat.
DnfIsALoss ==
    \A i \in DOMAIN heats : \A q \in heats[i].dnf :
        ~FewerThanTwo(Finished(heats[i])) => Loses(heats[i], q)

=============================================================================
