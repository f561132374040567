--------------------------- MODULE MCGrowingRound ---------------------------
(***************************************************************************)
(* The rounds that the runs of GrowingRound are about.                     *)
(***************************************************************************)
EXTENDS GrowingRound

Round(style, goal, width) ==
    [style |-> style, goal |-> goal, width |-> width,
     late |-> {}, movers |-> {}, changes |-> 0, uses |-> {}]

\* Four cars on two lanes, of which one may leave, and come back; cars that are
\* out when beaten twice; phases on three lanes. To each round something else
\* happens: a latecomer, a withdrawal, a lane lost, a heat run again.
Rounds ==
    {[Round("elimination", 1, 2) EXCEPT
        !.movers = {1}, !.changes = 1,
        !.uses = {"outage", "skip", "clear", "regenerate"}],
     [Round("elimination", 1, 2) EXCEPT
        !.movers = {1}, !.changes = 2, !.uses = {"return", "delete_heat"}],
     [Round("elimination", 1, 3) EXCEPT
        !.late = {4}, !.changes = 1, !.uses = {"outage", "partial", "regenerate"}],
     [Round("elimination", 1, 2) EXCEPT
        !.late = {4}, !.changes = 1, !.uses = {"dnf", "correct"}],
     [Round("elimination", 2, 3) EXCEPT !.late = {3, 4}, !.changes = 1],
     [Round("balanced", 3, 3) EXCEPT !.late = {3, 4}, !.changes = 1],
     [Round("balanced", 1, 3) EXCEPT
        !.late = {4}, !.movers = {1}, !.changes = 2, !.uses = {"outage"}],
     [Round("balanced", 2, 3) EXCEPT
        !.late = {4}, !.movers = {1}, !.changes = 1,
        !.uses = {"outage", "correct", "clear"}]}

\* Three cars on two lanes, of which any may not finish.
DnfRounds == {[Round("elimination", 1, 2) EXCEPT !.late = {4}, !.uses = {"dnf"}]}

=============================================================================
