--------------------------- MODULE MCAdvancement ---------------------------
(***************************************************************************)
(* The races that the runs of Advancement are about.                       *)
(***************************************************************************)
EXTENDS Advancement

\* A general round and one final.
OneFinal == <<General, All>>

\* A final of two cars, run once, in rounds of at most two heats.
Race(movers, offered, uses) ==
    [present |-> {1, 2, 3}, size |-> 2, runs |-> 1, room |-> 2, rounds |-> 3,
     movers |-> movers, offered |-> offered, uses |-> uses]

\* What the final owes to the standings of three cars: a round is appended behind
\* it and both are drawn again; it is picked by hand, tied and withdrawn from.
FieldRaces ==
    {Race({}, {2}, {"create", "regenerate"}),
     Race({1}, {}, {"withdraw", "pin", "run_off"})}

\* Everything else that happens on the floor, to two cars: a final that each car
\* runs twice and a third car could join; rounds redrawn, picked and filled by hand,
\* alone and with a third car that arrives late; cars, then lanes too, that go and
\* come back; rounds that are created and deleted too.
Pair(movers, offered, uses) ==
    [Race(movers, offered, uses) EXCEPT !.present = {1, 2}, !.rounds = 2]
TwoRuns(movers, uses) == [Pair(movers, {}, uses) EXCEPT !.size = 3, !.runs = 2]
Sweeps(size, uses) == [Pair({1}, {}, uses) EXCEPT !.size = size, !.room = 3]
FloorRaces ==
    {TwoRuns({1}, {"skip", "withdraw"}),
     TwoRuns({}, {"clear_final", "partial"}),
     Pair({}, {}, {"skip", "regenerate", "pin", "advance", "run_off"}),
     [Pair({3}, {}, {"regenerate", "pin", "advance", "check_back_in"}) EXCEPT !.room = 3],
     Sweeps(2, {"withdraw", "check_back_in", "crash"}),
     Sweeps(1, {"withdraw", "check_back_in", "outage", "crash"}),
     Pair({}, {}, {"outage", "crash"}),
     Pair({1, 2}, {General, All, 1, 2},
          {"clear_final", "exclude", "create", "delete_round", "delete_heat",
           "regenerate", "pin", "advance", "crash"})}

AllRaces == FieldRaces \cup FloorRaces

=============================================================================
