---------------------------- MODULE MCRaceScreen ----------------------------
(***************************************************************************)
(* Instances of RaceScreen.                                                *)
(***************************************************************************)
EXTENDS RaceScreen, TLC

\* Two general heats and a final of one heat.
Rounds == 1 :> 0 @@ 2 :> 0 @@ 3 :> 1

Day(drawn, uses) == [drawn |-> drawn, uses |-> uses]

\* One or two general heats are drawn when the page opens, the final may be
\* appended later; each day with some of the optional steps.
Days ==
    {Day({1, 2}, {"edit"}),
     Day({1, 2}, {"skip"}),
     Day({1, 2}, {"skip", "delete"}),
     Day({1, 2}, {"jump", "delete"}),
     Day({1, 2}, {"jump", "append"}),
     Day({1, 2}, {"delete", "leave", "reload"}),
     Day({1}, {"correct", "append"}),
     Day({1}, {"skip", "leave"}),
     Day({1}, {"skip", "rerun", "reset", "arm"}),
     Day({1}, {"rerun", "fault", "reload"}),
     Day({1, 2}, {"correct", "delete"})}

\* Days on which the page is told something new without end, and one on which
\* the schedule grows once it is finished.
RestlessDays ==
    {Day({1}, {"correct"}), Day({1}, {"append", "arm"}), Day({1, 2}, {"arm", "fault"})}

=============================================================================
