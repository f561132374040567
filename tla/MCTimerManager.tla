--------------------------- MODULE MCTimerManager ---------------------------
(***************************************************************************)
(* Two lanes, two racers, and line-ups that differ in who is where and in  *)
(* whether both lanes, or either, are used.                                *)
(***************************************************************************)
EXTENDS TimerManager, TLC

CONSTANTS l1, l2, r1, r2

TwoLanes == {l1, l2}
TwoRacers == {r1, r2}

\* Both lanes used, one vacated, and a heat still on placeholders.
ThreeLineups == { (l1 :> r1) @@ (l2 :> r2),
                  (l1 :> r2) @@ (l2 :> Nobody),
                  (l1 :> Nobody) @@ (l2 :> Nobody) }

=============================================================================
