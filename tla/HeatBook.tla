------------------------------ MODULE HeatBook ------------------------------
(***************************************************************************)
(* What a track's timer owes to the record of the race, whatever device is *)
(* behind it and whatever happens on the way: a heat is taken up, and in   *)
(* one step it is either let go of or recorded, with times the track made  *)
(* since the heat was taken up, each for the car drawn in its lane.        *)
(* Nothing else the timer does touches a heat. TimerManager implements     *)
(* this (HeatBook!Spec is the property KeepsTheBook there).                *)
(***************************************************************************)
EXTENDS Naturals

CONSTANTS
    HeatIds,     \* row ids the database may hand out
    FreeHeats,   \* ids held by anonymous exhibition heats
    Lanes, Racers, Nobody, Lineups,
    NoHeat, NoTime,
    ByHand       \* the run that times typed by a person are of

VARIABLES
    armed,    \* the heat whose results are awaited, or NoHeat
    track,    \* the runs the track has made
    since,    \* of them, those made when the armed heat was last taken up
    rows,     \* the heats there are
    lineup,   \* who is drawn in each lane of a heat
    result    \* what is recorded in each lane

vars == <<armed, track, since, rows, lineup, result>>

Time(racer, run) == [racer |-> racer, run |-> run]
Occupied(row) == {l \in Lanes : row[l] # Nobody}
Raced(h) == \E l \in Lanes : result[h][l] # NoTime

\* Only an exhibition heat takes times in a lane with no racer.
MayTime(h, row, lanes) == h \in FreeHeats \/ lanes \subseteq Occupied(row)

Init ==
    /\ armed = NoHeat
    /\ track = 0
    /\ since = 0
    /\ rows = HeatIds
    /\ lineup \in [HeatIds -> Lineups]
    /\ result = [h \in HeatIds |-> [l \in Lanes |-> NoTime]]

TakeUp(h) ==
    /\ h \in rows
    /\ armed' = h
    /\ since' = track
    /\ UNCHANGED <<track, rows, lineup, result>>

LetGo ==
    /\ armed' = NoHeat
    /\ since' = 0
    /\ UNCHANGED <<track, rows, lineup, result>>

\* Cars go down the track.
Race ==
    /\ track' = track + 1
    /\ UNCHANGED <<armed, since, rows, lineup, result>>

\* The lanes timed get a time each, the others keep what they have.
Record(lanes, run) ==
    /\ armed \in rows
    /\ MayTime(armed, lineup[armed], lanes)
    /\ result' = [result EXCEPT ![armed] =
           [l \in Lanes |-> IF l \in lanes THEN Time(lineup[armed][l], run[l]) ELSE @[l]]]
    /\ armed' = NoHeat
    /\ since' = 0
    /\ UNCHANGED <<track, rows, lineup>>

\* A heat nobody has raced is drawn again, created or deleted.
Redraw(h, row) ==
    /\ ~Raced(h)
    /\ rows' = rows \cup {h}
    /\ lineup' = [lineup EXCEPT ![h] = row]
    /\ UNCHANGED <<armed, track, since, result>>

Delete(h) ==
    /\ h \in rows /\ ~Raced(h)
    /\ rows' = rows \ {h}
    /\ UNCHANGED <<armed, track, since, lineup, result>>

\* A person types cars and times together.
Correct(h, row, lanes) ==
    /\ h \in rows
    /\ MayTime(h, row, lanes)
    /\ lineup' = [lineup EXCEPT ![h] = row]
    /\ result' = [result EXCEPT ![h] =
           [l \in Lanes |-> IF l \in lanes THEN Time(row[l], ByHand) ELSE NoTime]]
    /\ UNCHANGED <<armed, track, since, rows>>

Next ==
    \/ LetGo
    \/ Race
    \/ \E lanes \in SUBSET Lanes : \E run \in [lanes -> (since + 1)..track] :
          Record(lanes, run)
    \/ \E h \in HeatIds :
          \/ TakeUp(h) \/ Delete(h)
          \/ \E row \in Lineups :
                \/ Redraw(h, row)
                \/ \E lanes \in SUBSET Lanes : Correct(h, row, lanes)

Spec == Init /\ [][Next]_vars

=============================================================================
