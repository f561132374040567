---------------------------- MODULE TimerManager ----------------------------
(***************************************************************************)
(* One track's TimerManager (backend/services/timer/manager.py), the       *)
(* GraphQL resolvers that drive it (backend/api/schema.py), the heat rows  *)
(* it records into, and the cars on the track.                             *)
(*                                                                         *)
(* Every handler of the manager runs under one asyncio lock and is one     *)
(* action here.  Two things are not covered by that lock and are steps of  *)
(* their own: force_results releases the lock while it waits for the       *)
(* device, and a resolver that rewrites heats revalidates the armed heat   *)
(* in a later step than the rewrite.                                       *)
(*                                                                         *)
(* Time is abstracted to the order of events: a deadline may pass whenever *)
(* the task that waits for it is alive.  A lane's answer is abstracted to  *)
(* the car that was in the lane and the physical run it was timed in.      *)
(***************************************************************************)
EXTENDS Naturals

CONSTANTS
    HeatIds,            \* row ids the database may hand out
    FreeHeats,          \* ids held by anonymous exhibition heats
    Lanes,              \* the lanes of the track
    Racers,
    Nobody,             \* a lane with no racer in it
    NoHeat,             \* _active_heat_id is None
    NoTime,             \* a lane with no result
    Lineups,            \* who may be drawn against whom, by lane; every lane of
                        \* a heat has a row, and a vacated or still undecided
                        \* one holds Nobody
    MaxRun,             \* bound on the physical runs of the track
    RequiresSerial,     \* TimerProfile.requires_serial
    GateIsKnowable,     \* TimerProfile.gate_state_is_knowable
    GateOpenStartsRace, \* TimerProfile.gate_open_starts_race
    ArmIsAcked,         \* the arm command has a declared acknowledgement
    TimesOut,           \* TimerProfile.result_timeout_seconds is not None
    ReportsOnDemand,    \* TimerProfile.force_results is not empty
    ClearsTrack         \* the operator arms a heat only once the track is
                        \* clear, and runs only cars he staged for an armed timer

EmptyLineup == [l \in Lanes |-> Nobody]
LineupType == [Lanes -> Racers \cup {Nobody}]
Stamp == [racer : Racers \cup {Nobody}, run : Nat]
Blank == [l \in Lanes |-> NoTime]
TimesType == [Lanes -> Stamp \cup {NoTime}]

ASSUME LineupAssumption == Lineups \subseteq LineupType /\ EmptyLineup \in Lineups
ASSUME HeatAssumption == NoHeat \notin HeatIds /\ FreeHeats \subseteq HeatIds
ASSUME LaneAssumption == Lanes # {}
ASSUME TimeAssumption == NoTime \notin Stamp
ASSUME RunAssumption == MaxRun \in Nat
ASSUME ProfileAssumption ==
    /\ RequiresSerial \in BOOLEAN
    /\ GateIsKnowable \in BOOLEAN
    /\ GateOpenStartsRace \in BOOLEAN
    /\ ArmIsAcked \in BOOLEAN
    /\ TimesOut \in BOOLEAN
    /\ ReportsOnDemand \in BOOLEAN
    /\ ClearsTrack \in BOOLEAN

States == {"DISCONNECTED", "CONNECTED", "IDLE", "ARMED", "READY", "RUNNING",
           "RESULTS_OVERDUE", "FAULT"}
Armed == {"ARMED", "READY"}
UnderWay == {"RUNNING", "RESULTS_OVERDUE"}

VARIABLES
    state,        \* _state
    active,       \* _active_heat_id
    testRun,      \* _test_run
    mask,         \* _lane_mask, as the set of lanes it selects
    pending,      \* _pending_results
    racerByLane,  \* _racer_by_lane; EmptyLineup is the empty dict
    clocked,      \* _running_since is not None
    watch,        \* an arm-ack watch of the current arming is alive
    unanswered,   \* history: an acknowledged arm command is out, the device has
                  \* not answered it, and the timer has stayed ARMED on it
    forcing,      \* a force_results call is waiting for the device
    rows,         \* ids of the heat rows that exist
    lineup,       \* racer in each lane of a heat row
    result,       \* recorded result in each lane of a heat row
    owed,         \* a resolver has rewritten heats and not yet revalidated
    cars,         \* the car physically in each lane of the last run
    due,          \* lanes of that run the device has not reported
    run,          \* physical runs so far
    staged,       \* cars are at the gate
    armedAt       \* history: the runs made when the operator last armed

manager == <<state, active, testRun, mask, pending, racerByLane, clocked, watch>>
store == <<rows, lineup, result>>
world == <<cars, due, run, staged, armedAt>>
vars == <<manager, unanswered, forcing, store, owed, world>>

TypeOK ==
    /\ state \in States
    /\ active \in HeatIds \cup {NoHeat}
    /\ testRun \in BOOLEAN
    /\ mask \in SUBSET Lanes
    /\ pending \in TimesType
    /\ racerByLane \in LineupType
    /\ clocked \in BOOLEAN
    /\ watch \in BOOLEAN
    /\ unanswered \in BOOLEAN
    /\ forcing \in BOOLEAN
    /\ rows \in SUBSET HeatIds
    /\ lineup \in [HeatIds -> LineupType]
    /\ result \in [HeatIds -> TimesType]
    /\ owed \in BOOLEAN
    /\ cars \in LineupType
    /\ due \in SUBSET Lanes
    /\ run \in Nat
    /\ staged \in BOOLEAN
    /\ armedAt \in Nat

Init ==
    /\ state = IF RequiresSerial THEN "DISCONNECTED" ELSE "IDLE"
    /\ active = NoHeat
    /\ testRun = FALSE
    /\ mask = {}
    /\ pending = Blank
    /\ racerByLane = EmptyLineup
    /\ clocked = FALSE
    /\ watch = FALSE
    /\ unanswered = FALSE
    /\ forcing = FALSE
    /\ rows = HeatIds
    /\ lineup \in [HeatIds -> Lineups]
    /\ \A h \in FreeHeats : lineup[h] = EmptyLineup
    /\ result = [h \in HeatIds |-> Blank]
    /\ owed = FALSE
    /\ cars = EmptyLineup
    /\ due = {}
    /\ run = 0
    /\ staged = FALSE
    /\ armedAt = 0

-----------------------------------------------------------------------------
(* The armed heat against its row.                                         *)

Occupied(row) == {l \in Lanes : row[l] # Nobody}

\* Mutant: the bits set are those of the racers, not of their lanes.
MaskOfRacers(h) == {lineup[h][l] : l \in Lanes}

\* prepareHeat's mask: the occupied lanes, or every lane of an anonymous
\* exhibition heat.
LaneMask(h) == IF h \in FreeHeats THEN Lanes ELSE Occupied(lineup[h])

\* Mutant: a heat is the one that was armed as long as its id exists.
StaleById == active \notin rows

\* _armed_heat_is_stale, with the missing row its two callers check first.
\* An empty mapping is unknown, not "no racers".
Stale ==
    \/ active \notin rows
    \/ racerByLane # EmptyLineup /\ lineup[active] # racerByLane

\* Mutant: the heat is dropped and the state machine left where it was.
AbandonInPlace ==
    /\ active' = NoHeat
    /\ clocked' = FALSE
    /\ state' = state

\* _abandon_run: disarm, keep the times on the status, rest in IDLE.
Abandon ==
    /\ active' = NoHeat
    /\ clocked' = FALSE
    /\ state' = "IDLE"

\* expected_lanes.issubset(_pending_results), once the mask is known.
Complete(times) == mask # {} /\ \A l \in mask : times[l] # NoTime

\* Mutant: lanes the device did not report lose what is recorded there.
OverlayReplacing(old, times) == times

\* What any step that does not arm leaves of an unanswered arm command.
Overtaken == unanswered' = (unanswered /\ state' = "ARMED")

\* The result columns of a row once the collected times are laid over it.
Overlay(old, times) ==
    [l \in Lanes |-> IF times[l] = NoTime THEN old[l] ELSE times[l]]

\* The row is written and the manager lets go of the heat.
Saved(times) ==
    /\ active \in HeatIds /\ ~Stale
    /\ result' = [result EXCEPT ![active] = Overlay(@, times)]
    /\ active' = NoHeat
    /\ clocked' = FALSE
    /\ state' = "IDLE"

\* _recording_failed: the database refused, before or after the commit of the
\* heat's own row (the cascade behind it commits again and may fail too).
SaveFailed(times) ==
    /\ active \in HeatIds /\ ~Stale
    /\ \/ result' = [result EXCEPT ![active] = Overlay(@, times)]
       \/ result' = result
    /\ active' = NoHeat
    /\ clocked' = FALSE
    /\ state' = "FAULT"

\* _record_results with the times collected so far.
RecordResults(times) ==
    \/ Saved(times)
    \/ SaveFailed(times)
    \/ active \in HeatIds /\ Stale /\ Abandon /\ UNCHANGED result

\* _finish_test_run: the times stay on the screen, nothing is written.
FinishTestRun ==
    /\ clocked' = FALSE
    /\ state' = "IDLE"

-----------------------------------------------------------------------------
(* Operator requests.                                                      *)

\* Mutant: the times of the last run are kept for the next.
ArmKeepingTimes(heat, lanes, row) ==
    /\ ClearsTrack => due = {}
    /\ active' = heat
    /\ testRun' = (heat = NoHeat)
    /\ mask' = lanes
    /\ racerByLane' = row
    /\ state' = "ARMED"
    /\ watch' = ArmIsAcked /\ unanswered' = ArmIsAcked
    /\ staged' = FALSE /\ armedAt' = run
    /\ UNCHANGED <<pending, clocked, forcing, store, owed, cars, due, run>>

\* prepare_heat, and prepare_test_heat with no heat; the cars are staged next.
Arm(heat, lanes, row) ==
    /\ ClearsTrack => due = {}
    /\ active' = heat
    /\ testRun' = (heat = NoHeat)
    /\ mask' = lanes
    /\ pending' = Blank
    /\ racerByLane' = row
    /\ state' = "ARMED"
    /\ watch' = ArmIsAcked /\ unanswered' = ArmIsAcked
    /\ staged' = FALSE /\ armedAt' = run
    /\ UNCHANGED <<clocked, forcing, store, owed, cars, due, run>>

\* prepareHeat.
PrepareHeat(h) ==
    /\ h \in rows
    /\ state \in UnderWay => active = h
    /\ LaneMask(h) # {}
    /\ Arm(h, LaneMask(h), lineup[h])

\* startTimerTest.
PrepareTestHeat ==
    /\ state \in Armed \cup {"RUNNING"} => testRun
    /\ Arm(NoHeat, Lanes, EmptyLineup)

\* abort_heat and reset put the same fields back; only the commands they send
\* differ.  Neither stops the clock of the run it ends.
Disarm ==
    /\ active' = NoHeat
    /\ testRun' = FALSE
    /\ pending' = Blank
    /\ racerByLane' = EmptyLineup
    /\ state' = "IDLE"
    /\ watch' = FALSE
    /\ Overtaken
    /\ UNCHANGED <<mask, clocked, forcing, store, owed, world>>

AbortHeat == Disarm

Reset == Disarm

\* force_record: end a bench test, or record the heat that is armed now.
ForceRecord ==
    \/ /\ testRun /\ state # "IDLE"
       /\ FinishTestRun
       /\ UNCHANGED <<active, result>>
    \/ /\ ~(testRun /\ state # "IDLE")
       /\ active # NoHeat
       /\ RecordResults(pending)
    \/ /\ ~(testRun /\ state # "IDLE")
       /\ active = NoHeat
       /\ UNCHANGED <<state, active, clocked, result>>

\* forceResults: the device is asked, and the call then waits without the
\* lock; a device with no such command is recorded from at once.
ForceResults ==
    /\ ~forcing
    /\ IF ReportsOnDemand /\ state # "IDLE" /\ ~Complete(pending)
       THEN forcing' = TRUE /\ UNCHANGED <<state, active, clocked, result>>
       ELSE forcing' = FALSE /\ ForceRecord
    /\ Overtaken
    /\ UNCHANGED <<testRun, mask, pending, racerByLane, watch, rows, lineup,
                   owed, world>>

\* The wait of forceResults ends, with its answer or at its deadline.
ForceResultsReturns ==
    /\ forcing
    /\ forcing' = FALSE
    /\ ForceRecord
    /\ Overtaken
    /\ UNCHANGED <<testRun, mask, pending, racerByLane, watch, rows, lineup,
                   owed, world>>

-----------------------------------------------------------------------------
(* Lines from the device.                                                  *)

\* The state a parsed event is handled in: any event takes the manager out of
\* CONNECTED, to ARMED when a heat is still armed.
Heard ==
    IF state = "CONNECTED"
    THEN IF active # NoHeat THEN "ARMED" ELSE "IDLE"
    ELSE state

\* _start_race.
StartRace ==
    /\ clocked' = TRUE
    /\ state' = "RUNNING"

\* RaceStarted.  The gate may also be lifted with no cars behind it.
RaceStarted ==
    /\ \/ Heard \in Armed /\ StartRace
       \/ Heard \notin Armed /\ state' = Heard /\ UNCHANGED clocked
    /\ Overtaken
    /\ UNCHANGED <<active, testRun, mask, pending, racerByLane, watch, forcing,
                   store, owed, world>>

\* GateClosed, pushed or polled.
GateClosed ==
    /\ state' = IF Heard = "ARMED" /\ GateIsKnowable THEN "READY" ELSE Heard
    /\ Overtaken
    /\ UNCHANGED <<active, testRun, mask, pending, racerByLane, clocked, watch,
                   forcing, store, owed, world>>

\* GateOpen: a start for a device that has no other, a reload for the rest.
GateOpen ==
    /\ \/ Heard = "READY" /\ GateOpenStartsRace /\ StartRace
       \/ Heard = "READY" /\ ~GateOpenStartsRace /\ state' = "ARMED" /\ UNCHANGED clocked
       \/ Heard # "READY" /\ state' = Heard /\ UNCHANGED clocked
    /\ Overtaken
    /\ UNCHANGED <<active, testRun, mask, pending, racerByLane, watch, forcing,
                   store, owed, world>>

Timing == Armed \cup UnderWay

\* What the device can report: a lane it still owes, or one that was not armed
\* and has no car in it.
Reportable == due \cup (Lanes \ mask)

Answer(l) == [racer |-> IF l \in due THEN cars[l] ELSE Nobody, run |-> run]

\* A result outside a run is dropped.
LaneIgnored(l) ==
    /\ Heard \notin Timing
    /\ state' = Heard
    /\ UNCHANGED <<active, pending, clocked, result>>

\* Only a straggler after RESULTS_OVERDUE starts the clock.
ClockAfterAnswer == clocked \/ Heard = "RESULTS_OVERDUE"

\* A result for a lane the heat did not arm is dropped, once the mask is known.
LaneUnarmed(l) ==
    /\ Heard \in Timing
    /\ mask # {} /\ l \notin mask
    /\ state' = "RUNNING"
    /\ clocked' = ClockAfterAnswer
    /\ UNCHANGED <<active, pending, result>>

\* Mutant: a result is collected whatever lane it is for.
LaneCollectedUnfiltered(l) ==
    /\ Heard \in Timing
    /\ pending' = [pending EXCEPT ![l] = Answer(l)]
    /\ IF Complete(pending') /\ active # NoHeat
       THEN RecordResults(pending')
       ELSE state' = "RUNNING" /\ clocked' = ClockAfterAnswer /\ UNCHANGED <<active, result>>

\* A result is collected; the last lane ends the run.
LaneCollected(l) ==
    /\ Heard \in Timing
    /\ mask = {} \/ l \in mask
    /\ pending' = [pending EXCEPT ![l] = Answer(l)]
    /\ \/ /\ ~Complete(pending')
          /\ state' = "RUNNING"
          /\ clocked' = ClockAfterAnswer
          /\ UNCHANGED <<active, result>>
       \/ /\ Complete(pending') /\ testRun
          /\ FinishTestRun
          /\ UNCHANGED <<active, result>>
       \/ /\ Complete(pending') /\ ~testRun /\ active # NoHeat
          /\ RecordResults(pending')
       \/ /\ Complete(pending') /\ ~testRun /\ active = NoHeat
          /\ state' = "RUNNING"
          /\ clocked' = ClockAfterAnswer
          /\ UNCHANGED <<active, result>>

LaneResult(l) ==
    /\ l \in Reportable
    /\ LaneIgnored(l) \/ LaneUnarmed(l) \/ LaneCollected(l)
    /\ due' = due \ {l}
    /\ Overtaken
    /\ UNCHANGED <<testRun, mask, racerByLane, watch, forcing, rows, lineup, owed,
                   cars, run, staged, armedAt>>

\* Mutant: the lanes are sent again, and nobody waits for the answer.
IdentifiedUnwatched ==
    /\ RequiresSerial
    /\ IF state = "CONNECTED"
       THEN /\ state' = Heard
            /\ watch' = (watch /\ active = NoHeat)
            /\ unanswered' = (ArmIsAcked /\ active # NoHeat)
       ELSE /\ state' = "CONNECTED"
            /\ unanswered' = FALSE
            /\ UNCHANGED watch
    /\ UNCHANGED <<active, testRun, mask, pending, racerByLane, clocked, forcing,
                   store, owed, world>>

\* An identification line: the handshake's answer in CONNECTED, where the lanes
\* of a heat still armed are sent again, so that it can be run again, and the
\* times already collected are kept; a reboot in any other state.
Identified ==
    /\ RequiresSerial
    /\ IF state = "CONNECTED"
       THEN /\ state' = Heard
            /\ watch' = IF active # NoHeat THEN ArmIsAcked ELSE watch
            /\ unanswered' = (ArmIsAcked /\ active # NoHeat)
       ELSE /\ state' = "CONNECTED"
            /\ unanswered' = FALSE
            /\ UNCHANGED watch
    /\ UNCHANGED <<active, testRun, mask, pending, racerByLane, clocked, forcing,
                   store, owed, world>>

\* The arm command is acknowledged: the watch ends with nothing to do.
ArmAcknowledged ==
    /\ watch
    /\ watch' = FALSE
    /\ unanswered' = FALSE
    /\ UNCHANGED <<state, active, testRun, mask, pending, racerByLane, clocked,
                   forcing, store, owed, world>>

-----------------------------------------------------------------------------
(* The link to the device.                                                 *)

\* handle_connect: a port opened by connect_direct, or a proxy that fell back
\* to the assumed profile.  The armed heat and its times are kept.
Connected ==
    /\ RequiresSerial
    /\ state' = "CONNECTED"
    /\ Overtaken
    /\ UNCHANGED <<active, testRun, mask, pending, racerByLane, clocked, watch,
                   forcing, store, owed, world>>

\* handle_disconnect, with the FAULT of a port that raised or would not open.
LinkLost ==
    /\ RequiresSerial
    /\ state' \in {"DISCONNECTED", "FAULT"}
    /\ Overtaken
    /\ UNCHANGED <<active, testRun, mask, pending, racerByLane, clocked, watch,
                   forcing, store, owed, world>>

\* adopt stops the manager first, and the arm-ack watch with it; adopt_profile
\* does not.  Both go straight to IDLE, whether or not a heat is armed.
Adopted ==
    /\ RequiresSerial
    /\ state' = "IDLE"
    /\ watch' \in {watch, FALSE}
    /\ Overtaken
    /\ UNCHANGED <<active, testRun, mask, pending, racerByLane, clocked, forcing,
                   store, owed, world>>

\* set_device: the times go, the armed heat stays.
SetDevice ==
    /\ pending' = Blank
    /\ watch' = FALSE
    /\ state' = IF RequiresSerial THEN "DISCONNECTED" ELSE "IDLE"
    /\ Overtaken
    /\ UNCHANGED <<active, testRun, mask, racerByLane, clocked, forcing, store, owed,
                   world>>

-----------------------------------------------------------------------------
(* The manager's own timers.                                               *)

\* Mutant: the watch gives up, and the timer stays armed with nobody told.
ArmNeverDoubted ==
    /\ watch
    /\ watch' = FALSE
    /\ UNCHANGED <<state, active, testRun, unanswered, mask, pending, racerByLane,
                   clocked, forcing, store, owed, world>>

\* _watch_arm_ack: the acknowledgement did not come, or came as a refusal.
ArmNotConfirmed ==
    /\ watch
    /\ watch' = FALSE
    /\ IF state = "ARMED"
       THEN active' = NoHeat /\ testRun' = FALSE /\ state' = "FAULT"
       ELSE UNCHANGED <<active, testRun, state>>
    /\ UNCHANGED <<unanswered, mask, pending, racerByLane, clocked, forcing, store,
                   owed, world>>

\* Mutant: the watchdog stops the clock and says nothing.
GoOverdueSilently ==
    /\ TimesOut
    /\ state = "RUNNING"
    /\ clocked
    /\ clocked' = FALSE
    /\ UNCHANGED <<state, active, testRun, mask, pending, racerByLane, watch, unanswered,
                   forcing, store, owed, world>>

\* _watchdog_loop's result timeout.
GoOverdue ==
    /\ TimesOut
    /\ state = "RUNNING"
    /\ clocked
    /\ clocked' = FALSE
    /\ state' = "RESULTS_OVERDUE"
    /\ Overtaken
    /\ UNCHANGED <<active, testRun, mask, pending, racerByLane, watch, forcing,
                   store, owed, world>>

-----------------------------------------------------------------------------
(* The schedule, changing under the timer.                                 *)

Raced(h) == \E l \in Lanes : result[h][l] # NoTime

\* A time a person types belongs to no run of the track.
Typed(racer) == [racer |-> racer, run |-> 0]

\* Regenerating, re-fielding or vacating replaces the line-up of a heat nobody
\* has raced, with racers or with placeholders; a regenerated round's new heats
\* may carry the old ids.
RedrawHeat(h, row) ==
    /\ h \notin FreeHeats
    /\ ~Raced(h)
    /\ rows' = rows \cup {h}
    /\ lineup' = [lineup EXCEPT ![h] = row]
    /\ owed' = TRUE
    /\ UNCHANGED <<manager, unanswered, forcing, result, world>>

DeleteHeat(h) ==
    /\ h \in rows
    /\ ~Raced(h)
    /\ rows' = rows \ {h}
    /\ owed' = TRUE
    /\ UNCHANGED <<manager, unanswered, forcing, lineup, result, world>>

\* updateHeatResult: the operator's lanes replace the stored ones, racers and
\* times together; with no times it is a re-run.  A free heat's resolver,
\* recordFreeRaceResult, has nothing to revalidate.
UpdateHeatResult(h, row, timed) ==
    /\ h \in rows
    /\ h \in FreeHeats => row = EmptyLineup
    /\ lineup' = [lineup EXCEPT ![h] = row]
    /\ result' = [result EXCEPT ![h] =
                     [l \in Lanes |-> IF l \in timed THEN Typed(row[l]) ELSE NoTime]]
    /\ owed' = (owed \/ h \notin FreeHeats)
    /\ UNCHANGED <<manager, unanswered, forcing, rows, world>>

\* Mutant: only a deleted row disarms, a redrawn one does not.
RevalidateMissingOnly ==
    /\ owed
    /\ owed' = FALSE
    /\ IF active # NoHeat /\ active \notin rows
       THEN Abandon
       ELSE UNCHANGED <<active, clocked, state>>
    /\ Overtaken
    /\ UNCHANGED <<testRun, mask, pending, racerByLane, watch, forcing, store, world>>

\* _revalidate_timers, at the end of the resolver that rewrote the heats.
Revalidate ==
    /\ owed
    /\ owed' = FALSE
    /\ IF active # NoHeat /\ Stale
       THEN Abandon
       ELSE UNCHANGED <<active, clocked, state>>
    /\ Overtaken
    /\ UNCHANGED <<testRun, mask, pending, racerByLane, watch, forcing, store, world>>

-----------------------------------------------------------------------------
(* The track.                                                              *)

\* The operator puts the cars of the armed heat at the gate of a clear track,
\* the screen saying the timer is armed: by his own arming, or by itself after
\* a reboot.
StageCars ==
    /\ ~staged
    /\ state \in Armed
    /\ due = {}
    /\ staged' = TRUE
    /\ UNCHANGED <<manager, unanswered, forcing, store, owed, cars, due, run, armedAt>>

\* The gate drops on the cars of the heat that is armed.
GateDrops ==
    /\ active # NoHeat \/ testRun
    /\ ClearsTrack => staged
    /\ due = {}
    /\ run < MaxRun
    /\ run' = run + 1
    /\ cars' = racerByLane
    /\ due' = mask
    /\ staged' = FALSE
    /\ UNCHANGED <<manager, unanswered, forcing, store, owed, armedAt>>

\* The device loses what it had not reported: a reset, a power cycle, a car
\* that never arrives.
ResultsLost ==
    /\ due # {}
    /\ due' = {}
    /\ UNCHANGED <<manager, unanswered, forcing, store, owed, cars, run, staged, armedAt>>

-----------------------------------------------------------------------------

Operator ==
    \/ \E h \in HeatIds : PrepareHeat(h)
    \/ PrepareTestHeat
    \/ AbortHeat
    \/ Reset
    \/ ForceResults

Device ==
    \/ RaceStarted
    \/ GateClosed
    \/ GateOpen
    \/ \E l \in Lanes : LaneResult(l)
    \/ Identified
    \/ ArmAcknowledged

Link == Connected \/ LinkLost \/ Adopted \/ SetDevice

Schedule ==
    \/ \E h \in HeatIds : \E row \in Lineups : RedrawHeat(h, row)
    \/ \E h \in HeatIds : DeleteHeat(h)
    \/ \E h \in HeatIds : \E row \in Lineups : \E timed \in SUBSET Lanes :
           /\ h \in FreeHeats \/ timed \subseteq Occupied(row)
           /\ UpdateHeatResult(h, row, timed)

Next ==
    \/ Operator
    \/ Device
    \/ Link
    \/ Schedule
    \/ ForceResultsReturns
    \/ ArmNotConfirmed
    \/ GoOverdue
    \/ Revalidate
    \/ StageCars
    \/ GateDrops
    \/ ResultsLost

Spec == Init /\ [][Next]_vars

\* The event loop runs every task that is ready: the watchdog, the arm-ack
\* watch, the wait of forceResults and the tail of a resolver.  Nobody has to
\* press a button, and no device has to speak.  For the watch it also supposes
\* that a heat is not armed again inside every deadline for ever.
Fairness ==
    /\ WF_vars(ForceResultsReturns)
    /\ WF_vars(ArmNotConfirmed)
    /\ WF_vars(GoOverdue)
    /\ WF_vars(Revalidate)

FairSpec == Spec /\ Fairness

-----------------------------------------------------------------------------
(* Safety.                                                                 *)

\* A timer that is armed, staged, racing or overdue has a heat or a bench test
\* to show for it: none of the ways a heat is taken away (a deleted row, a
\* stale line-up, a failed write, an unanswered arm command) leaves the state
\* machine in a run with nothing to record, "Racing..." for ever.
ArmedForSomething == state \in Timing => active # NoHeat \/ testRun

\* The times in a heat's row are those of the cars in its line-up: not of the
\* cars of another heat that came to hold the same id, nor of a line-up that
\* was redrawn between arming and the finish (_armed_heat_is_stale).
TimesFollowTheCar ==
    \A h \in rows : \A l \in Lanes :
        result[h][l] # NoTime => result[h][l].racer = lineup[h][l]

\* No time is ever recorded in a lane that has no racer, whatever sensors the
\* device reports; anonymous exhibition heats have no racers to go by.
NoTimeInAnEmptyLane ==
    \A h \in rows \ FreeHeats : \A l \in Lanes :
        result[h][l] # NoTime => lineup[h][l] # Nobody

\* The times waiting to be recorded are of runs made since the operator last
\* armed: none is left over from an earlier arming, whatever abort, failed write,
\* lost link, changed device or late answer lay between.
ResultsAreOfThisArming ==
    \A l \in Lanes : pending[l] # NoTime => pending[l].run > armedAt

\* Once the resolver that rewrote the schedule has revalidated, the armed heat
\* is the row it was armed from (_revalidate_timers).
ArmedHeatIsCurrent == ~owed /\ active # NoHeat => ~Stale

-----------------------------------------------------------------------------
(* What the safety properties rest on: the manager's own fields, the row and *)
(* the cars on the track agree from arming to recording.                     *)

\* Nobody ever enters a racer in an exhibition heat that was drawn without one.
ExhibitionsStayAnonymous == \A h \in FreeHeats : lineup[h] = EmptyLineup

\* The lanes an armed heat waits for are the lanes its racers were in.
ArmedLanesAreTaken ==
    /\ testRun => mask # {}
    /\ active # NoHeat =>
        /\ mask # {}
        /\ racerByLane = EmptyLineup <=> active \in FreeHeats
        /\ active \notin FreeHeats => mask = Occupied(racerByLane)

\* What the device still owes, and what it has already reported, belongs to the
\* heat that is armed.
CarsAreTheArmedHeats ==
    active # NoHeat =>
        /\ \A l \in due : cars[l] = racerByLane[l]
        /\ \A l \in Lanes : pending[l] # NoTime =>
               l \in mask /\ pending[l].racer = racerByLane[l]

\* What waits, and what the device still owes, is of a run since the arming.
RunsAreSinceTheArming ==
    /\ armedAt <= run
    /\ due # {} => armedAt < run
    /\ \A l \in Lanes : pending[l] # NoTime => pending[l].run \in (armedAt + 1)..run

\* A recorded time is in an occupied lane and is of the car drawn there, in
\* deleted rows too (only unraced heats are deleted), for their ids come back.
RecordedTimesAreOwned ==
    \A h \in HeatIds : \A l \in Lanes :
        result[h][l] # NoTime =>
            /\ result[h][l].racer = lineup[h][l]
            /\ h \notin FreeHeats => lineup[h][l] # Nobody

\* The inductive invariant behind TimesFollowTheCar, NoTimeInAnEmptyLane and
\* ResultsAreOfThisArming, under ClearsTrack: from arming to recording, the row, the
\* manager's copy of it, the device's answers and the cars on the track agree.
RunInv ==
    /\ ExhibitionsStayAnonymous
    /\ ArmedLanesAreTaken
    /\ CarsAreTheArmedHeats
    /\ RunsAreSinceTheArming
    /\ RecordedTimesAreOwned

-----------------------------------------------------------------------------
(* What the manager implements.                                            *)

Book == INSTANCE HeatBook
            WITH armed <- active, track <- run, ByHand <- 0,
                 since <- IF active = NoHeat THEN 0 ELSE armedAt

\* Under every interleaving of operator, device, link and schedule, the heat
\* rows change as HeatBook lets them: the manager's states, times collected one
\* by one, retries and faults come to one recording of what the heat's cars ran
\* since the heat was taken up, or to none.
KeepsTheBook == Book!Spec

-----------------------------------------------------------------------------
(* Liveness, under the fairness of the event loop.                         *)

\* A run whose clock was started is given up on in the end.
ClockedRunEnds == (state = "RUNNING" /\ clocked) ~> (state # "RUNNING")

\* An arm command the device never answers, the operator's or the one a reboot
\* repeats, is not left armed in silence: the timer comes to FAULT, unless the
\* device answers or the heat moves on (_watch_arm_ack).
UnansweredArmIsNoticed == unanswered ~> (state = "FAULT" \/ ~unanswered)

-----------------------------------------------------------------------------
(* What the documents and comments say, and the code does not do.          *)

\* "last time's times must not linger while this time's arrive", which is said of
\* a re-run the operator asks for: the times waiting to be recorded are of one
\* physical run. Not so after a reboot, which arms the heat again and keeps the
\* half of a run already reported, for the next run to complete.
OneRunAtATime ==
    \A l, m \in Lanes :
        pending[l] # NoTime /\ pending[m] # NoTime => pending[l].run = pending[m].run

\* prepareHeat: "refused while a different heat is running", the results still
\* to arrive belonging to that heat.
RunIsNotSwapped ==
    [][due # {} /\ active # NoHeat /\ active' # active => active' = NoHeat]_vars

=============================================================================
