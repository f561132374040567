----------------------------- MODULE MCDisplays -----------------------------
(***************************************************************************)
(* Instances of Displays.                                                  *)
(***************************************************************************)
EXTENDS Displays

\* The operator's days: an event, one with a restart and somebody pressing keys at
\* the screen, one with breaks.
EventDays ==
    {{"assign", "advance", "forget"},
     {"assign", "advance", "restart", "key"},
     {"assign", "advance", "intermission"}}

\* A ceremony that is stepped from the list.
CeremonyDay == {{"assign", "advance"}}

=============================================================================
