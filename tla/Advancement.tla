---------------------------- MODULE Advancement ----------------------------
(***************************************************************************)
(* Rounds that feed rounds. A championship round draws its field from the  *)
(* standings of the rounds before it (backend/domain/advancement.py), and  *)
(* everything that happens to a race redraws, resets or refills the rounds *)
(* behind it (backend/db/crud.py): a recorded or cleared result, a run-off,*)
(* a check-in or a withdrawal, a lane taken out of service, a round that   *)
(* is created, regenerated, deleted, picked by hand or handed back.        *)
(*                                                                         *)
(* A request commits after each of its steps. `todo' holds the steps that  *)
(* are left; requests do not interleave, since none of them awaits while   *)
(* it works on the database, but a crash may fall between two commits.     *)
(*                                                                         *)
(* A round is drawn as a lane rotation (domain/schedulers/rotation.py):    *)
(* a heat for each participant and run, as full as the lanes and the field *)
(* allow, as every scheduler of the code draws it. A recorded heat is its  *)
(* winner, and the standings rank by wins. A racer is a positive number,   *)
(* in the order of registration; the k-th placeholder slot is -k, as it is *)
(* for the scheduler.                                                      *)
(***************************************************************************)
EXTENDS Integers, Sequences, FiniteSets, Functions

CONSTANTS
    Racers,        \* the roster
    Plan,          \* the sources of the rounds the wizard created, in order
    Width,         \* the lanes of the track
    Races          \* the races looked at:
                   \*   present  the racers who are checked in when it starts
                   \*   size     advancement_num_racers of a championship round
                   \*   runs     runs_per_lane of one; a general one has 1
                   \*   offered  the sources a round added later may be given
                   \*   movers   bound: the racers who leave, come back, are excluded
                   \*   room     bound: what adds heats waits while a round has these
                   \*   rounds   bound: the highest round number
                   \*   uses     which of the optional operations happen

General == -1      \* advancement_source is null: the field is the roster
All == 0           \* "ALL"; a positive source is "ROUND:<id>"

Nobody == 0        \* a lane whose racer was vacated
NotRun == 0        \* what a heat is besides a number of its winner
Skipped == -1
Partial == -2      \* results on some lanes only

ASSUME RacersAssumption ==
    Racers \subseteq Nat \ {0} /\ IsFiniteSet(Racers) /\ Cardinality(Racers) >= 2
ASSUME PlanAssumption ==
    Plan \in Seq(Int) /\ \A n \in 1..Len(Plan) : General <= Plan[n] /\ Plan[n] < n
ASSUME WidthAssumption == Width \in Nat \ {0}
ASSUME RacesAssumption ==
    \A r \in Races :
        /\ {r.size, r.runs} \subseteq Nat \ {0} /\ {r.room, r.rounds} \subseteq Nat
        /\ r.present \subseteq Racers
        /\ r.movers \subseteq Racers
        /\ r.offered \subseteq Int /\ \A s \in r.offered : s >= General
        /\ r.uses \subseteq {"skip", "partial", "clear_final", "run_off", "withdraw",
                             "check_back_in", "exclude", "outage", "create",
                             "delete_round", "delete_heat", "regenerate", "pin",
                             "advance", "crash"}

VARIABLES
    source,     \* the rounds there are, by number, and what each draws on
    pinned,     \* Round.field_pinned
    heats,      \* the heats of each round
    checkedIn,  \* Racer.car_passed_inspection
    excluded,   \* Racer.excluded_from_standings
    runOff,     \* a run-off has settled the ties the other way round
    usable,     \* the lanes in service
    todo,       \* the steps the current request has still to take
    race        \* the one of Races this behaviour is about, chosen once

vars == <<source, pinned, heats, checkedIn, excluded, runOff, usable, todo, race>>

Rounds == DOMAIN source
IsFed(r) == source[r] # General

\* S as the sequence in which everybody has those before them before them. It
\* is written out, and by counting, so that theorems may speak of it.
InOrder(S, Before(_, _)) ==
    [k \in 1..Cardinality(S) |->
        CHOOSE x \in S : Cardinality({y \in S : Before(y, x)}) = k - 1]
Ascending(S) == InOrder(S, <)

Idle == todo = <<>>

-----------------------------------------------------------------------------
(* Heats: backend/domain/lanes.py and the predicates built on it.          *)

IsResult(out) == out \in Racers \cup {Partial}

\* advancement.may_rebuild: rebuilding the round would lose no result.
MayRebuild(hs) == \A i \in DOMAIN hs : ~IsResult(hs[i].out)

HasSlot(h) == \E k \in DOMAIN h.lanes : h.lanes[k] < 0

\* lanes.is_complete: every lane that is not empty is settled.
HeatComplete(h) ==
    /\ ~HasSlot(h)
    /\ h.out \in Racers \cup {Skipped} \/ Range(h.lanes) \subseteq {Nobody}

HeatsComplete(hs) == hs # <<>> /\ \A i \in DOMAIN hs : HeatComplete(hs[i])

\* advancement.scheduled_participant_count counts these.
Participants(hs) == (UNION {Range(hs[i].lanes) : i \in DOMAIN hs}) \ {Nobody}
Field(hs) == Participants(hs) \cap Racers
OpenSlots(hs) == {k \in Participants(hs) : k < 0}

RoundComplete(r) == r \in Rounds /\ HeatsComplete(heats[r])

\* What a round's source says of it now: advancement.should_populate.
Decided(r) ==
    IF source[r] = All THEN \A p \in Rounds : p < r => RoundComplete(p)
                       ELSE RoundComplete(source[r])

-----------------------------------------------------------------------------
(* Standings: services/scoring.py, reduced to what picking a field reads.  *)

\* _scoring_heats: those of the one round named, or of the general rounds, or
\* of every round where there is no general one.
ScoredRounds(s) ==
    LET prelims == {r \in Rounds : ~IsFed(r)}
    IN  IF s # All THEN {s} \cap Rounds ELSE IF prelims = {} THEN Rounds ELSE prelims
Scored(s) == UNION {{r} \X DOMAIN heats[r] : r \in ScoredRounds(s)}
ScoredHeat(e) == heats[e[1]][e[2]]

\* A racer is on the leaderboard once scheduled, and ranked once raced.
OnLeaderboard(s) == (UNION {Range(ScoredHeat(e).lanes) : e \in Scored(s)}) \cap Racers
HasRaced(s, q) ==
    \E e \in Scored(s) : q \in Range(ScoredHeat(e).lanes) /\ IsResult(ScoredHeat(e).out)
Wins(s, q) == Cardinality({e \in Scored(s) : ScoredHeat(e).out = q})

\* rank_key, with a decided run-off of the overall standings before it.
Ahead(s, p, q) ==
    IF HasRaced(s, p) # HasRaced(s, q) THEN HasRaced(s, p)
    ELSE IF Wins(s, p) # Wins(s, q) THEN Wins(s, p) > Wins(s, q)
    ELSE IF runOff /\ s = All THEN p > q ELSE p < q

\* Mutant of Winners: whoever leads, checked in or not.
WinnersWhoeverLeads(s) ==
    LET ranked == InOrder(OnLeaderboard(s) \ excluded, LAMBDA p, q : Ahead(s, p, q))
    IN  SubSeq(ranked, 1, IF Len(ranked) < race.size THEN Len(ranked) ELSE race.size)

\* get_advancing_racers: the top `size' of those checked in.
Winners(s) ==
    LET ranked == InOrder((OnLeaderboard(s) \cap checkedIn) \ excluded,
                          LAMBDA p, q : Ahead(s, p, q))
    IN  SubSeq(ranked, 1, IF Len(ranked) < race.size THEN Len(ranked) ELSE race.size)

-----------------------------------------------------------------------------
(* Drawing, resetting and filling a round's heats.                         *)

Larger(m, n) == IF m > n THEN m ELSE n

\* Mutant of RotationHeat: a field smaller than the track goes round again.
RotationHeatWrapped(participants, others, i) ==
    [lanes |-> [l \in usable |->
        participants[((i - 1 - Cardinality({m \in usable : m < l})) % Len(participants)) + 1]],
     out |-> NotRun]

\* generate_rotation: the i-th heat of a circle of participants, who move one
\* lane along from heat to heat. A lane they leave free goes to one of `others'.
RotationHeat(participants, others, i) ==
    LET n == Len(participants)
        At(l) == (i - 1 - Cardinality({m \in usable : m < l}))
                     % Larger(n, Cardinality(usable))
    IN  [lanes |-> [l \in usable |->
            IF At(l) < n THEN participants[At(l) + 1]
            ELSE IF At(l) - n < Len(others)
                 THEN others[((i + At(l) - n) % Len(others)) + 1]
                 ELSE Nobody],
         out |-> NotRun]

Draw(count, participants) ==
    [i \in 1..count |-> RotationHeat(participants, <<>>, i)]
Slots(n) == [k \in 1..n |-> -k]
Roster == Ascending(checkedIn)

\* Mutant of Rebuilt: the size that was asked for, not that of the field (#311).
RebuiltForRequest(hs, wanted, participants) ==
    Draw(Len(participants) *
             (IF hs = <<>> THEN wanted ELSE Larger(1, Len(hs) \div race.size)), participants)

\* generate_heats_for_round: a heat per participant and run, as many runs as
\* the heats that are cleared made up, or as `wanted' where there were none.
Rebuilt(hs, wanted, participants) ==
    LET had == Cardinality(Participants(hs))
        runs == IF hs = <<>> \/ had = 0 THEN wanted ELSE Larger(1, Len(hs) \div had)
    IN  Draw(Len(participants) * runs, participants)

RosterRebuilt(hs) == Rebuilt(hs, 1, Roster)
SlotsRebuilt(hs) == Rebuilt(hs, race.runs, Slots(race.size))

\* plan_late_entry: each newcomer takes each lane once, in heats they share,
\* and racers of the round fill the lanes that are left.
LateHeats(newcomers, established) ==
    [i \in 1..Larger(Len(newcomers), Cardinality(usable)) |->
        RotationHeat(newcomers, established, i)]

\* _reset_round_to_placeholders: in place where the number of heats divides,
\* regenerated where it does not.
ResetToSlots(hs, n) ==
    IF hs # <<>> /\ Len(hs) % n = 0 THEN Draw(Len(hs), Slots(n))
                                    ELSE Rebuilt(hs, race.runs, Slots(n))

\* resolve_round_placeholders: slot k takes the k-th of those who advance.
Filled(lanes, field) ==
    [k \in DOMAIN lanes |->
        IF lanes[k] < 0 /\ -lanes[k] <= Len(field) THEN field[-lanes[k]] ELSE lanes[k]]
Resolved(hs, field) ==
    [i \in DOMAIN hs |-> [hs[i] EXCEPT !.lanes = Filled(@, field)]]

\* Mutant of Populated: a short field leaves its slots open (#48).
PopulatedInPlace(hs, field) == Resolved(hs, field)

\* populate_round_field: a short field rebuilds the round for who there is.
Populated(hs, field) ==
    IF field = <<>> THEN hs
    ELSE IF Len(field) < Cardinality(OpenSlots(hs)) /\ MayRebuild(hs)
         THEN Rebuilt(hs, race.runs, field)
         ELSE Resolved(hs, field)

\* withdraw_absent_racers of a round under way: the lanes of those who are
\* gone are emptied in the heats to come; a heat left empty is passed over.
HeatVacated(h, gone) ==
    LET left == [l \in DOMAIN h.lanes |-> IF h.lanes[l] \in gone THEN Nobody ELSE h.lanes[l]]
    IN  IF h.out # NotRun \/ Range(h.lanes) \cap gone = {} THEN h
        ELSE [lanes |-> left,
              out |-> IF Range(left) \cap Racers = {} THEN Skipped ELSE NotRun]
Vacated(hs, gone) == [i \in DOMAIN hs |-> HeatVacated(hs[i], gone)]

\* apply_outages_to_scheduled_heats of a round under way: a dead lane is dropped
\* from the heats to come.
HeatRelaned(h) ==
    LET left == Restrict(h.lanes, usable \cap DOMAIN h.lanes)
    IN  IF IsResult(h.out) \/ left = h.lanes THEN h
        ELSE [lanes |-> IF left = <<>> THEN [l \in usable |-> Nobody] ELSE left,
              out |-> IF Range(left) \cap Racers = {} THEN Skipped ELSE h.out]
Relaned(hs) == [i \in DOMAIN hs |-> HeatRelaned(hs[i])]

-----------------------------------------------------------------------------
(* The steps of a request, each with its commit.                           *)

Step(do, r) == [do |-> do, round |-> r]
Steps(do, S) == LET order == Ascending(S)
                IN  [i \in 1..Len(order) |-> Step(do, order[i])]

\* Mutant of RoundsToInvalidate: a line-up picked by hand is drawn again.
InvalidatesPicks(changed) == {r \in Rounds : r > changed /\ IsFed(r)}

\* advancement.rounds_to_invalidate.
RoundsToInvalidate(changed) ==
    {r \in Rounds : r > changed /\ IsFed(r) /\ r \notin pinned}

\* Mutant of Cascade: later rounds are filled and never emptied.
CascadeFillsOnly(r) == <<Step("trigger", r)>>

\* What follows a result, and what follows a round that was drawn for slots.
Cascade(r) == Steps("reset", RoundsToInvalidate(r)) \o <<Step("trigger", r)>>

\* Mutant of AskToFill: nothing does.
NeverAsked(s, r) == <<>>

AskToFill(s, r) == IF s = General THEN <<>> ELSE <<Step("fill", r)>>

\* _cascade_after_run_off_result: every round there is.
RunOffCascade == Steps("reset", RoundsToInvalidate(0)) \o Steps("fill", Rounds)

Proceed(hs, more) ==
    /\ heats' = hs
    /\ todo' = more \o Tail(todo)
    /\ UNCHANGED <<source, pinned, checkedIn, excluded, runOff, usable, race>>

\* invalidate_future_rounds, for one round.
Reset(r) ==
    Proceed(IF MayRebuild(heats[r])
            THEN [heats EXCEPT ![r] = ResetToSlots(@, race.size)] ELSE heats, <<>>)

\* trigger_auto_advancements: only a completed round has news for the others.
Trigger(r) ==
    Proceed(heats, IF RoundComplete(r) THEN Steps("fill", RoundsToInvalidate(r))
                                       ELSE <<>>)

\* populate_round_if_decided.
Fill(r) ==
    Proceed(IF IsFed(r) /\ r \notin pinned /\ Decided(r)
            THEN [heats EXCEPT ![r] = Populated(@, Winners(source[r]))]
            ELSE heats, <<>>)

\* The second half of re-advancing a field that a racer left: whoever leads
\* the source's standings, whether or not the source is decided.
Advance(r) == Proceed([heats EXCEPT ![r] = Populated(@, Winners(source[r]))], <<>>)

\* withdraw_absent_racers, for one round.
Withdraw(r) ==
    LET hs == heats[r]
        gone == Field(hs) \ checkedIn
    IN  IF gone = {} THEN Proceed(heats, <<>>)
        ELSE IF IsFed(r) /\ r \notin pinned
        THEN Proceed(heats, IF MayRebuild(hs)
                            THEN <<Step("reset", r), Step("advance", r)>> ELSE <<>>)
        ELSE IF ~IsFed(r) /\ MayRebuild(hs) /\ Cardinality(checkedIn) >= 2
        THEN Proceed([heats EXCEPT ![r] = RosterRebuilt(@)], <<>>)
        ELSE IF HeatsComplete(hs) THEN Proceed(heats, <<>>)
        ELSE Proceed([heats EXCEPT ![r] = Vacated(@, gone)], <<>>)

\* "Not enough racers", or a late car that its schedule cannot take: the request
\* fails, and what it committed stands.
Fails == /\ todo' = <<>>
         /\ UNCHANGED <<source, pinned, heats, checkedIn, excluded, runOff, usable, race>>

\* A general round that is rebuilt is drawn for the roster as it now stands.
Redraw(r) ==
    IF Cardinality(checkedIn) < 2 THEN Fails
    ELSE Proceed([heats EXCEPT ![r] = RosterRebuilt(@)], <<>>)

\* admit_late_racers, for one general round.  Once it has been raced, a scheduler
\* that cannot absorb a late car refuses it.
Admit(r) ==
    LET hs == heats[r]
        missing == checkedIn \ Field(hs)
    IN  IF hs = <<>> \/ missing = {} THEN Proceed(heats, <<>>)
        ELSE IF MayRebuild(hs) THEN Redraw(r)
        ELSE IF HeatsComplete(hs) THEN Proceed(heats, <<>>)
        ELSE \/ Proceed([heats EXCEPT ![r] =
                    @ \o LateHeats(Ascending(missing), Ascending(Field(hs)))], <<>>)
             \/ Fails

\* apply_outages_to_scheduled_heats, for one round.
Outage(r) ==
    IF ~MayRebuild(heats[r]) THEN Proceed([heats EXCEPT ![r] = Relaned(@)], <<>>)
    ELSE IF IsFed(r)
    THEN Proceed([heats EXCEPT ![r] = SlotsRebuilt(@)], <<>>)
    ELSE Redraw(r)

Settle ==
    /\ ~Idle
    /\ LET r == Head(todo).round
           do == Head(todo).do
       IN  \/ do = "reset"    /\ Reset(r)
           \/ do = "trigger"  /\ Trigger(r)
           \/ do = "fill"     /\ Fill(r)
           \/ do = "advance"  /\ Advance(r)
           \/ do = "withdraw" /\ Withdraw(r)
           \/ do = "admit"    /\ Admit(r)
           \/ do = "outage"   /\ Outage(r)

\* The process dies between two commits of a cascade. The sweeps of a check-in
\* and of an outage hold some changes back to a later commit and are spared.
Crash ==
    /\ "crash" \in race.uses
    /\ ~Idle
    /\ \A i \in DOMAIN todo : todo[i].do \in {"reset", "trigger", "fill"}
    /\ todo' = <<>>
    /\ UNCHANGED <<source, pinned, heats, checkedIn, excluded, runOff, usable, race>>

-----------------------------------------------------------------------------
(* Requests. Each begins when the one before it is done.                   *)

RoomToGrow == \A r \in Rounds : Len(heats[r]) < race.room

\* record_heat_result: by the timer or by hand, a first result, a correction,
\* a skip, or the clearing that a re-run begins with. A heat that waits for a
\* racer cannot be run, edited or skipped.
RecordHeatResult(r, i, out) ==
    LET h == heats[r][i] IN
    /\ Idle
    /\ ~HasSlot(h)
    /\ out \in {NotRun, Skipped, Partial} \cup (Range(h.lanes) \cap Racers)
    /\ out # h.out
    /\ out = Partial => "partial" \in race.uses
    /\ out = Skipped => "skip" \in race.uses
    /\ IsFed(r) /\ IsResult(h.out) /\ ~IsResult(out) => "clear_final" \in race.uses
    /\ heats' = [heats EXCEPT ![r][i].out = out]
    /\ todo' = Cascade(r)
    /\ UNCHANGED <<source, pinned, checkedIn, excluded, runOff, usable, race>>

\* record_heat_result of a run-off, then _cascade_after_run_off_result.
RecordRunOff ==
    /\ "run_off" \in race.uses
    /\ Idle
    /\ runOff' = ~runOff
    /\ todo' = RunOffCascade
    /\ UNCHANGED <<source, pinned, heats, checkedIn, excluded, usable, race>>

\* bulkCheckIn and its siblings, then _admit_late_racers.
CheckIn(q) ==
    /\ IF q \in checkedIn THEN "withdraw" \in race.uses ELSE "check_back_in" \in race.uses
    /\ Idle
    /\ q \notin checkedIn => RoomToGrow
    /\ checkedIn' = IF q \in checkedIn THEN checkedIn \ {q} ELSE checkedIn \cup {q}
    /\ todo' = Steps("withdraw", Rounds)
               \o Steps("admit", {r \in Rounds : ~IsFed(r)})
    /\ UNCHANGED <<source, pinned, heats, excluded, runOff, usable, race>>

\* bulk_set_excluded_from_standings: touches the flag and no schedule.
SetExcluded(q) ==
    /\ "exclude" \in race.uses
    /\ Idle
    /\ excluded' = IF q \in excluded THEN excluded \ {q} ELSE excluded \cup {q}
    /\ UNCHANGED <<source, pinned, heats, checkedIn, runOff, usable, todo, race>>

\* setLaneOutages, and a track whose lane count is turned down.
SetLaneOutages(lanes) ==
    /\ "outage" \in race.uses
    /\ Idle
    /\ RoomToGrow
    /\ usable' = lanes
    /\ todo' = Steps("outage", {r \in Rounds : heats[r] # <<>>})
    /\ UNCHANGED <<source, pinned, heats, checkedIn, excluded, runOff, race>>

\* Mutant of NextNumber: the number of rounds there are (#250).
NextByCount == 1 + Cardinality(Rounds)

\* create_round numbers after the highest there is.
NextNumber == 1 + (IF Rounds = {} THEN 0 ELSE CHOOSE m \in Rounds : \A r \in Rounds : r <= m)

\* createRound.
CreateRound(s) ==
    LET n == NextNumber IN
    /\ "create" \in race.uses
    /\ Idle
    /\ n <= race.rounds
    /\ s = General => Cardinality(checkedIn) >= 2
    /\ s > 0 => s \in Rounds
    /\ source' = [r \in Rounds \cup {n} |-> IF r = n THEN s ELSE source[r]]
    /\ heats' = [r \in Rounds \cup {n} |->
                    IF r # n THEN heats[r]
                    ELSE IF s = General THEN RosterRebuilt(<<>>) ELSE SlotsRebuilt(<<>>)]
    /\ todo' = AskToFill(s, n)
    /\ UNCHANGED <<pinned, checkedIn, excluded, runOff, usable, race>>

\* Mutant of DeleteRound: the pin outlives its round.
DeleteRoundKeepingPin(r) ==
    /\ "delete_round" \in race.uses
    /\ Idle
    /\ MayRebuild(heats[r])
    /\ ~IsFed(r) => \A p \in Rounds : ~IsFed(p)
    /\ source' = Restrict(source, Rounds \ {r})
    /\ heats' = Restrict(heats, Rounds \ {r})
    /\ UNCHANGED <<pinned, checkedIn, excluded, runOff, usable, todo, race>>

\* delete_round: refused once raced, and for a general round that others are
\* scheduled behind.
DeleteRound(r) ==
    /\ "delete_round" \in race.uses
    /\ Idle
    /\ MayRebuild(heats[r])
    /\ ~IsFed(r) => \A p \in Rounds : ~IsFed(p)
    /\ source' = Restrict(source, Rounds \ {r})
    /\ heats' = Restrict(heats, Rounds \ {r})
    /\ pinned' = pinned \ {r}
    /\ UNCHANGED <<checkedIn, excluded, runOff, usable, todo, race>>

\* delete_heat: refused once raced or passed over. Asks for no advancement.
DeleteHeat(r, i) ==
    /\ "delete_heat" \in race.uses
    /\ Idle
    /\ heats[r][i].out = NotRun
    /\ heats' = [heats EXCEPT ![r] = SubSeq(@, 1, i - 1) \o SubSeq(@, i + 1, Len(@))]
    /\ UNCHANGED <<source, pinned, checkedIn, excluded, runOff, usable, todo, race>>

\* regenerateRound: the field is gone with the heats that held it, so a
\* championship round is drawn for placeholders and then asked for again.
RegenerateRound(r) ==
    /\ "regenerate" \in race.uses
    /\ Idle
    /\ MayRebuild(heats[r])
    /\ ~IsFed(r) => Cardinality(checkedIn) >= 2
    /\ heats' = [heats EXCEPT ![r] =
                    IF IsFed(r) THEN SlotsRebuilt(@) ELSE RosterRebuilt(@)]
    /\ todo' = AskToFill(source[r], r)
    /\ UNCHANGED <<source, pinned, checkedIn, excluded, runOff, usable, race>>

\* hand_pick_problem: what a line-up picked by hand must be.
MayBePicked(picks) ==
    /\ Len(picks) >= 2
    /\ Cardinality(Range(picks)) = Len(picks)
    /\ Range(picks) \subseteq checkedIn

\* pin_round_field.
PinRoundField(r, picks) ==
    /\ "pin" \in race.uses
    /\ Idle
    /\ IsFed(r)
    /\ MayRebuild(heats[r])
    /\ MayBePicked(picks)
    /\ heats' = [heats EXCEPT ![r] = Populated(ResetToSlots(@, Len(picks)), picks)]
    /\ pinned' = pinned \cup {r}
    /\ UNCHANGED <<source, checkedIn, excluded, runOff, usable, todo, race>>

\* unpin_round_field.
UnpinRoundField(r) ==
    /\ Idle
    /\ r \in pinned
    /\ pinned' = pinned \ {r}
    /\ todo' = IF MayRebuild(heats[r]) THEN <<Step("reset", r), Step("fill", r)>>
                                       ELSE <<>>
    /\ UNCHANGED <<source, heats, checkedIn, excluded, runOff, usable, race>>

\* advanceRound: fills in who leads now, decided or not, pinned or not.
AdvanceRound(r) ==
    /\ "advance" \in race.uses
    /\ Idle
    /\ IsFed(r)
    /\ heats' = [heats EXCEPT ![r] = Populated(@, Winners(source[r]))]
    /\ UNCHANGED <<source, pinned, checkedIn, excluded, runOff, usable, todo, race>>

-----------------------------------------------------------------------------
\* A race as createRoundWizard leaves it.
Init ==
    /\ race \in Races
    /\ source = [n \in DOMAIN Plan |-> Plan[n]]
    /\ pinned = {}
    /\ checkedIn = race.present
    /\ usable = 1..Width
    /\ heats = [n \in DOMAIN Plan |->
                   IF IsFed(n) THEN SlotsRebuilt(<<>>) ELSE RosterRebuilt(<<>>)]
    /\ excluded = {}
    /\ runOff = FALSE
    /\ todo = <<>>

\* The line-ups a hand can pick from.
Picks == [1..2 -> Racers]

RoundRequest(r) ==
    \/ \E i \in DOMAIN heats[r] : \E out \in {NotRun, Skipped, Partial} \cup Racers :
          RecordHeatResult(r, i, out)
    \/ \E i \in DOMAIN heats[r] : DeleteHeat(r, i)
    \/ DeleteRound(r)
    \/ RegenerateRound(r)
    \/ \E picks \in Picks : PinRoundField(r, picks)
    \/ UnpinRoundField(r)
    \/ AdvanceRound(r)

Next ==
    \/ Settle
    \/ Crash
    \/ \E r \in Rounds : RoundRequest(r)
    \/ \E q \in race.movers : CheckIn(q) \/ SetExcluded(q)
    \/ \E s \in race.offered : CreateRound(s)
    \/ RecordRunOff
    \/ \E lanes \in (SUBSET (1..Width)) \ {{}} : SetLaneOutages(lanes)

Spec == Init /\ [][Next]_vars

-----------------------------------------------------------------------------
(* Properties.                                                             *)

Lanes == Racers \cup {Nobody} \cup {-k : k \in 1..race.size + Cardinality(Racers)}
Outcomes == {NotRun, Skipped, Partial} \cup Racers
Dos == {"reset", "trigger", "fill", "advance", "withdraw", "admit", "outage"}

\* Every variable holds what the tables can hold.
TypeOK ==
    /\ Rounds \subseteq 1..(IF race.rounds > Len(Plan) THEN race.rounds ELSE Len(Plan))
    /\ \A r \in Rounds : source[r] \in Int /\ source[r] >= General
    /\ pinned \subseteq {r \in Rounds : IsFed(r)}
    /\ DOMAIN heats = Rounds
    /\ \A r \in Rounds : \A i \in DOMAIN heats[r] :
          heats[r][i].out \in Outcomes /\ Range(heats[r][i].lanes) \subseteq Lanes
    /\ checkedIn \subseteq Racers /\ excluded \subseteq Racers
    /\ runOff \in BOOLEAN
    /\ usable \subseteq 1..Width /\ usable # {}
    /\ \A i \in DOMAIN todo : todo[i].do \in Dos /\ todo[i].round \in Rounds

\* What a race goes without, for a property that does not hold where it happens.
Without(uses) == race.uses \cap uses = {}
Unraced(r) == MayRebuild(heats[r])
AwaitsStandings(r) == IsFed(r) /\ r \notin pinned /\ Unraced(r)

\* What the two properties below do not hold of: heats of a round are deleted
\* before advanceRound fills it, which fills slots by their number, when a heat
\* need not hold them all.
DeletedThenFilled ==
    /\ {"delete_heat", "advance"} \subseteq race.uses
    /\ race.size > Width \/ "outage" \in race.uses

\* No car is drawn twice in a heat, however its lanes came to be filled: by
\* the scheduler, slot by slot, by hand, or with a latecomer appended. Slots that
\* a field was short of are filled later, with a field that has moved up by one.
NobodyRacesThemself ==
    ~DeletedThenFilled =>
        \A r \in Rounds : \A i \in DOMAIN heats[r] :
            LET lanes == heats[r][i].lanes IN
            \A j, k \in DOMAIN lanes : lanes[j] = lanes[k] /\ lanes[j] # Nobody => j = k

\* A championship round is all placeholders or has none: a slot no advancement
\* will fill would leave heats that can be neither run nor skipped. Rounds are
\* reset as a whole, filled as a whole, and rebuilt when the field is short.
NoHalfFilledRound ==
    ~DeletedThenFilled =>
        \A r \in Rounds : OpenSlots(heats[r]) = {} \/ Field(heats[r]) = {}

\* When all the racing before an unraced round is done, it holds racers, and no
\* placeholders: nothing else will come along to fill it. It does not hold where
\* what completes a round, or empties one, asks for none to be filled: where cars
\* or lanes may leave, qualifiers be excluded, heats or rounds be deleted, and a
\* crash come between two commits.
RipeRoundIsFilled ==
    Idle /\ Without({"withdraw", "outage", "exclude", "delete_heat", "delete_round", "crash"})
    => \A r \in Rounds :
        /\ AwaitsStandings(r)
        /\ \A p \in Rounds : p < r => RoundComplete(p)
        /\ \E p \in Rounds : p < r /\ ~IsFed(p)
        => OpenSlots(heats[r]) = {}

\* An unraced round that holds racers holds those who would advance now: the
\* standings do not move without it being drawn again. A car that is back, or is
\* excluded, a heat that is deleted with the only place a car had, a final whose own
\* results are cleared, and a crash draw nothing again.
UnracedFieldIsCurrent ==
    Idle /\ Without({"check_back_in", "exclude", "delete_heat", "clear_final", "crash"})
    => \A r \in Rounds :
        AwaitsStandings(r) /\ Field(heats[r]) # {}
        => Field(heats[r]) = Range(Winners(source[r]))

\* Nobody who is not checked in is given a place they do not have: not by a
\* draw, and not by advancing. The one place they may be given fills up a
\* latecomer's heat, in a round under way that they were in.
Places(q, hs) == {i \in DOMAIN hs : q \in Range(hs[i].lanes)}
FillsLateHeats(q, r) ==
    /\ r \in Rounds /\ ~IsFed(r) /\ ~MayRebuild(heats[r])
    /\ q \in Field(heats[r])
    /\ Len(heats'[r]) > Len(heats[r])
AbsentCarsAreNotDrawn ==
    [][\A r \in Rounds' : \A q \in Racers \ checkedIn' :
          \/ Cardinality(Places(q, heats'[r])) <=
                IF r \in Rounds THEN Cardinality(Places(q, heats[r])) ELSE 0
          \/ FillsLateHeats(q, r)]_vars

\* The heats of a short field do not divide by the slots that were asked for.
ShortFieldsShow == \A n \in 1..race.size - 1 : (n * race.runs) % race.size # 0

\* A round set up for several runs keeps them whenever its line-up is drawn again,
\* whatever the size of the field. It does not hold where a short round is taken
\* for a full one with fewer runs, where heats are deleted or the field is picked,
\* or where a final that has lost a lane is cleared.
RunsAreKept ==
    /\ Without({"delete_heat", "pin"}) /\ ~({"outage", "clear_final"} \subseteq race.uses)
    /\ ShortFieldsShow
    => \A r \in Rounds :
        AwaitsStandings(r) => Len(heats[r]) = race.runs * Cardinality(Participants(heats[r]))

\* A heat that was raced is only ever changed by recording it again: no reset,
\* redraw, withdrawal, outage or deletion touches it.
RacedHeatsStand ==
    [][\A r \in Rounds : \A i \in DOMAIN heats[r] :
          IsResult(heats[r][i].out) =>
            \/ r \in Rounds' /\ heats[r][i] \in Range(heats'[r])
            \/ \E out \in Outcomes : RecordHeatResult(r, i, out)]_vars

\* A line-up picked by hand stays until it is picked again or handed back; only
\* a car that leaves loses its lane. It does not stand where regenerateRound, or
\* an outage before it is raced, draws the round for placeholders, or where its
\* heats are deleted.
PickStands ==
    [][Without({"regenerate", "outage", "delete_heat"}) => \A r \in pinned \cap pinned' :
          \/ /\ Field(heats'[r]) \subseteq Field(heats[r])
             /\ Field(heats[r]) \cap checkedIn \subseteq Field(heats'[r])
          \/ \E picks \in Picks : PinRoundField(r, picks)]_vars

=============================================================================
