------------------------- MODULE TimerManagerProofs -------------------------
(***************************************************************************)
(* What holds of a TimerManager for every track, roster and schedule.      *)
(***************************************************************************)
EXTENDS TimerManager, TLAPS

-----------------------------------------------------------------------------
(* What the helpers of the model return.                                   *)

\* Any event handled in CONNECTED is handled in ARMED or IDLE instead.
LEMMA HeardType ==
    ASSUME TypeOK
    PROVE  Heard \in States
BY DEF TypeOK, Heard, States

\* Results laid over a row make a row.
LEMMA OverlayType ==
    ASSUME NEW old \in TimesType, NEW times \in TimesType
    PROVE  Overlay(old, times) \in TimesType
BY DEF Overlay, TimesType

\* The outcome of _record_results, whichever way it ends.
LEMMA RecordResultsType ==
    ASSUME TypeOK, NEW times \in TimesType, RecordResults(times)
    PROVE  /\ state' \in {"IDLE", "FAULT"}
           /\ active' = NoHeat
           /\ clocked' = FALSE
           /\ result' \in [HeatIds -> TimesType]
<1>1. ASSUME Saved(times) PROVE result' \in [HeatIds -> TimesType]
  BY <1>1, OverlayType DEF Saved, TypeOK
<1>2. ASSUME SaveFailed(times) PROVE result' \in [HeatIds -> TimesType]
  BY <1>2, OverlayType DEF SaveFailed, TypeOK
<1>3. QED
  BY <1>1, <1>2 DEF RecordResults, Saved, SaveFailed, Abandon, TypeOK

\* The outcome of force_record.
LEMMA ForceRecordType ==
    ASSUME TypeOK, ForceRecord
    PROVE  /\ state' \in States
           /\ active' \in HeatIds \cup {NoHeat}
           /\ clocked' \in BOOLEAN
           /\ result' \in [HeatIds -> TimesType]
<1>1. pending \in TimesType
  BY DEF TypeOK
<1>2. CASE RecordResults(pending)
  BY <1>1, <1>2, RecordResultsType DEF States
<1>3. CASE ~RecordResults(pending)
  BY <1>3 DEF ForceRecord, FinishTestRun, TypeOK, States
<1>4. QED
  BY <1>2, <1>3

\* A device's answer is a stamped car, and collecting it makes a set of times.
LEMMA AnswerType ==
    ASSUME TypeOK, NEW l \in Lanes
    PROVE  /\ Answer(l) \in Stamp
           /\ [pending EXCEPT ![l] = Answer(l)] \in TimesType
<1>1. cars[l] \in Racers \cup {Nobody}
  BY DEF TypeOK, LineupType
<1>2. Answer(l) \in Stamp
  BY <1>1 DEF Answer, Stamp, TypeOK
<1>3. QED
  BY <1>2 DEF TypeOK, TimesType

-----------------------------------------------------------------------------
(* Type correctness.                                                       *)

\* Every variable keeps its type, for every profile, roster and schedule.
THEOREM TypeCorrect == Spec => []TypeOK
<1>1. Init => TypeOK
  <2> SUFFICES ASSUME Init PROVE TypeOK
    OBVIOUS
  <2>1. lineup \in [HeatIds -> LineupType]
    BY LineupAssumption DEF Init
  <2>2. QED
    BY <2>1, LaneAssumption
    DEF Init, TypeOK, States, LineupType, EmptyLineup, TimesType, Blank
<1>2. TypeOK /\ [Next]_vars => TypeOK'
  <2> SUFFICES ASSUME TypeOK, [Next]_vars PROVE TypeOK'
    OBVIOUS
  <2> Blank \in TimesType /\ EmptyLineup \in LineupType
    BY DEF Blank, TimesType, EmptyLineup, LineupType
  <2> USE ProfileAssumption DEF TypeOK, States, manager, store, world, Overtaken
  <2>1. ASSUME NEW h \in HeatIds, PrepareHeat(h) PROVE TypeOK'
    <3>1. LaneMask(h) \in SUBSET Lanes
      BY DEF LaneMask, Occupied
    <3>2. QED
      BY <2>1, <3>1 DEF PrepareHeat, Arm
  <2>2. CASE PrepareTestHeat
    BY <2>2 DEF PrepareTestHeat, Arm
  <2>3. CASE Disarm
    BY <2>3 DEF Disarm
  <2>4. CASE ForceResults
    BY <2>4, ForceRecordType DEF ForceResults
  <2>5. CASE ForceResultsReturns
    BY <2>5, ForceRecordType DEF ForceResultsReturns
  <2>6. CASE RaceStarted \/ GateClosed \/ GateOpen
    <3>1. state' \in States /\ clocked' \in BOOLEAN
      BY <2>6, HeardType DEF RaceStarted, GateClosed, GateOpen, StartRace
    <3>2. QED
      BY <2>6, <3>1 DEF RaceStarted, GateClosed, GateOpen
  <2>7. ASSUME NEW l \in Lanes, LaneResult(l) PROVE TypeOK'
    <3>1. CASE LaneIgnored(l)
      BY <2>7, <3>1, HeardType DEF LaneResult, LaneIgnored
    <3>2. CASE LaneUnarmed(l)
      BY <2>7, <3>2 DEF LaneResult, LaneUnarmed, ClockAfterAnswer
    <3>3. CASE LaneCollected(l)
      <4>1. pending' \in TimesType
        BY <3>3, AnswerType DEF LaneCollected
      <4>2. CASE RecordResults(pending')
        BY <2>7, <3>3, <4>1, <4>2, RecordResultsType DEF LaneResult, LaneCollected
      <4>3. CASE ~RecordResults(pending')
        BY <2>7, <3>3, <4>1, <4>3
        DEF LaneResult, LaneCollected, ClockAfterAnswer, FinishTestRun
      <4>4. QED
        BY <4>2, <4>3
    <3>4. QED
      BY <2>7, <3>1, <3>2, <3>3 DEF LaneResult
  <2>8. CASE Identified \/ ArmAcknowledged
    <3>1. watch' \in BOOLEAN /\ unanswered' \in BOOLEAN /\ state' \in States
      BY <2>8, HeardType DEF Identified, ArmAcknowledged
    <3>2. QED
      BY <2>8, <3>1 DEF Identified, ArmAcknowledged
  <2>9. CASE Link
    BY <2>9 DEF Link, Connected, LinkLost, Adopted, SetDevice
  <2>10. CASE ArmNotConfirmed \/ GoOverdue \/ Revalidate
    BY <2>10 DEF ArmNotConfirmed, GoOverdue, Revalidate, Abandon
  <2>11. ASSUME NEW h \in HeatIds, NEW row \in Lineups, RedrawHeat(h, row)
         PROVE  TypeOK'
    <3>1. row \in LineupType
      BY LineupAssumption
    <3>2. QED
      BY <2>11, <3>1 DEF RedrawHeat
  <2>12. ASSUME NEW h \in HeatIds, DeleteHeat(h) PROVE TypeOK'
    BY <2>12 DEF DeleteHeat
  <2>13. ASSUME NEW h \in HeatIds, NEW row \in Lineups, NEW timed \in SUBSET Lanes,
                UpdateHeatResult(h, row, timed)
         PROVE  TypeOK'
    <3>1. row \in LineupType
      BY LineupAssumption
    <3>2. [l \in Lanes |-> IF l \in timed THEN Typed(row[l]) ELSE NoTime] \in TimesType
      BY <3>1 DEF Typed, TimesType, Stamp, LineupType
    <3>3. QED
      BY <2>13, <3>1, <3>2 DEF UpdateHeatResult
  <2>14. CASE StageCars \/ GateDrops \/ ResultsLost
    <3>1. cars' \in LineupType /\ due' \in SUBSET Lanes
      BY <2>14 DEF StageCars, GateDrops, ResultsLost
    <3>2. run' \in Nat /\ armedAt' \in Nat
      BY <2>14 DEF StageCars, GateDrops, ResultsLost
    <3>3. staged' \in BOOLEAN
      BY <2>14, Zenon DEF StageCars, GateDrops, ResultsLost
    <3>4. QED
      BY <2>14, <3>1, <3>2, <3>3 DEF StageCars, GateDrops, ResultsLost
  <2>15. CASE UNCHANGED vars
    BY <2>15 DEF vars
  <2>16. QED
    BY <2>1, <2>2, <2>3, <2>4, <2>5, <2>6, <2>7, <2>8, <2>9, <2>10, <2>11, <2>12,
       <2>13, <2>14, <2>15
    DEF Next, Operator, AbortHeat, Reset, Device, Schedule
<1>3. QED
  BY <1>1, <1>2, PTL DEF Spec

-----------------------------------------------------------------------------
(* An armed timer has a heat.                                              *)

\* A result taken outside a run leaves the heat, and a state no run is in.
LEMMA RecordResultsDisarms ==
    ASSUME NEW times, RecordResults(times)
    PROVE  state' \notin Timing /\ active' = NoHeat
BY DEF RecordResults, Saved, SaveFailed, Abandon, Timing, Armed, UnderWay

\* The state an event is handled in is one of a run only if something is armed.
LEMMA HeardIsArmed ==
    ASSUME ArmedForSomething, Heard \in Timing
    PROVE  active # NoHeat \/ testRun
BY DEF ArmedForSomething, Heard, Timing, Armed, UnderWay

\* No operator, no device, no lost link, no rewritten schedule and no failed
\* write leaves the state machine in a run that has nothing to record.
THEOREM NeverRacingForNothing == Spec => []ArmedForSomething
<1>1. Init => ArmedForSomething
  BY DEF Init, ArmedForSomething, Timing, Armed, UnderWay
<1>2. TypeOK /\ ArmedForSomething /\ [Next]_vars => ArmedForSomething'
  <2> SUFFICES ASSUME TypeOK, ArmedForSomething, [Next]_vars
               PROVE  ArmedForSomething'
    OBVIOUS
  <2> USE DEF manager, store, world
  <2>1. ASSUME NEW h \in HeatIds, PrepareHeat(h) PROVE ArmedForSomething'
    BY <2>1, HeatAssumption DEF PrepareHeat, Arm, ArmedForSomething
  <2>2. CASE PrepareTestHeat
    BY <2>2 DEF PrepareTestHeat, Arm, ArmedForSomething
  <2>3. CASE Disarm
    BY <2>3 DEF Disarm, ArmedForSomething, Timing, Armed, UnderWay
  <2>4. ASSUME ForceRecord, UNCHANGED testRun PROVE ArmedForSomething'
    <3>1. CASE RecordResults(pending)
      BY <3>1, RecordResultsDisarms DEF ArmedForSomething
    <3>2. CASE ~RecordResults(pending)
      BY <2>4, <3>2
      DEF ForceRecord, FinishTestRun, ArmedForSomething, Timing, Armed, UnderWay
    <3>3. QED
      BY <3>1, <3>2
  <2>5. CASE ForceResults \/ ForceResultsReturns
    <3>1. CASE ForceRecord
      BY <2>4, <2>5, <3>1 DEF ForceResults, ForceResultsReturns
    <3>2. CASE ~ForceRecord
      BY <2>5, <3>2 DEF ForceResults, ForceResultsReturns, ArmedForSomething, Timing
    <3>3. QED
      BY <3>1, <3>2
  <2>6. CASE RaceStarted \/ GateClosed \/ GateOpen
    <3>1. state' \in Timing => Heard \in Timing
      BY <2>6
      DEF RaceStarted, GateClosed, GateOpen, StartRace, Timing, Armed, UnderWay
    <3>2. QED
      BY <2>6, <3>1, HeardIsArmed
      DEF RaceStarted, GateClosed, GateOpen, ArmedForSomething
  <2>7. ASSUME NEW l \in Lanes, LaneResult(l) PROVE ArmedForSomething'
    <3>1. CASE LaneIgnored(l)
      BY <2>7, <3>1 DEF LaneResult, LaneIgnored, ArmedForSomething
    <3>2. CASE LaneUnarmed(l)
      BY <2>7, <3>2, HeardIsArmed DEF LaneResult, LaneUnarmed, ArmedForSomething
    <3>3. CASE LaneCollected(l) /\ RecordResults(pending')
      BY <3>3, RecordResultsDisarms DEF ArmedForSomething
    <3>4. CASE LaneCollected(l) /\ ~RecordResults(pending')
      BY <2>7, <3>4, HeardIsArmed DEF LaneResult, LaneCollected, ArmedForSomething
    <3>5. QED
      BY <2>7, <3>1, <3>2, <3>3, <3>4 DEF LaneResult
  <2>8. CASE Identified
    BY <2>8 DEF Identified, Heard, ArmedForSomething, Timing, Armed, UnderWay
  <2>9. CASE Link
    BY <2>9 DEF Link, Connected, LinkLost, Adopted, SetDevice, ArmedForSomething,
                Timing, Armed, UnderWay
  <2>10. CASE ArmNotConfirmed
    BY <2>10 DEF ArmNotConfirmed, ArmedForSomething, Timing, Armed, UnderWay
  <2>11. CASE GoOverdue
    BY <2>11 DEF GoOverdue, ArmedForSomething, Timing, Armed, UnderWay
  <2>12. CASE Revalidate
    BY <2>12 DEF Revalidate, Abandon, ArmedForSomething, Timing, Armed, UnderWay
  <2>13. CASE UNCHANGED <<state, active, testRun>>
    BY <2>13 DEF ArmedForSomething
  <2>14. QED
    BY <2>1, <2>2, <2>3, <2>5, <2>6, <2>7, <2>8, <2>9, <2>10, <2>11, <2>12, <2>13
    DEF Next, Operator, AbortHeat, Reset, Device, Schedule, ArmAcknowledged,
        RedrawHeat, DeleteHeat, UpdateHeatResult, StageCars, GateDrops, ResultsLost, vars
<1>3. QED
  BY <1>1, <1>2, TypeCorrect, PTL DEF Spec

-----------------------------------------------------------------------------
(* The armed heat is the heat it was armed from.                           *)

\* An anonymous exhibition heat never gets a racer.
LEMMA ExhibitionsStep ==
    ASSUME TypeOK, ExhibitionsStayAnonymous, [Next]_vars
    PROVE  ExhibitionsStayAnonymous'
<1> USE HeatAssumption DEF TypeOK, ExhibitionsStayAnonymous, manager, store, world
<1>1. CASE Schedule
  BY <1>1 DEF Schedule, RedrawHeat, DeleteHeat, UpdateHeatResult
<1>2. CASE UNCHANGED lineup
  BY <1>2
<1>3. QED
  BY <1>1, <1>2
  DEF Next, vars, Operator, PrepareHeat, PrepareTestHeat, Arm, AbortHeat, Reset, Disarm,
      ForceResults, ForceResultsReturns, Device, RaceStarted, GateClosed, GateOpen,
      LaneResult, Identified, ArmAcknowledged, Link, Connected, LinkLost, Adopted,
      SetDevice, ArmNotConfirmed, GoOverdue, Revalidate, StageCars, GateDrops,
      ResultsLost

\* What an armed heat is compared by survives every step that neither arms a
\* heat nor rewrites one.
LEMMA CurrencyFrame ==
    ASSUME ArmedHeatIsCurrent,
           UNCHANGED <<rows, lineup, owed>>,
           active' = NoHeat \/ UNCHANGED <<active, racerByLane>>
    PROVE  ArmedHeatIsCurrent'
BY DEF ArmedHeatIsCurrent, Stale

\* force_record and the collection of a lane leave the heat or keep it.
LEMMA RecordKeepsOrLeaves ==
    ASSUME ForceRecord \/ \E l \in Lanes : LaneResult(l)
    PROVE  active' = NoHeat \/ active' = active
<1>1. ASSUME NEW times, RecordResults(times) PROVE active' = NoHeat
  BY <1>1, RecordResultsDisarms
<1>2. CASE ForceRecord
  BY <1>1, <1>2 DEF ForceRecord
<1>3. ASSUME NEW l \in Lanes, LaneResult(l) PROVE active' = NoHeat \/ active' = active
  BY <1>1, <1>3 DEF LaneResult, LaneIgnored, LaneUnarmed, LaneCollected
<1>4. QED
  BY <1>2, <1>3

\* Whatever rewrites, deletes or re-creates heats, once its resolver has
\* revalidated, an armed heat still has its row and the line-up it was armed with.
THEOREM ArmedHeatStaysCurrent == Spec => []ArmedHeatIsCurrent
<1> DEFINE Inv == ExhibitionsStayAnonymous /\ ArmedHeatIsCurrent
<1>1. Init => Inv
  BY DEF Init, ExhibitionsStayAnonymous, ArmedHeatIsCurrent
<1>2. TypeOK /\ Inv /\ [Next]_vars => Inv'
  <2> SUFFICES ASSUME TypeOK, Inv, [Next]_vars PROVE ArmedHeatIsCurrent'
    BY ExhibitionsStep
  <2> USE DEF manager, store, world
  <2>1. ASSUME NEW h \in HeatIds, PrepareHeat(h) PROVE ArmedHeatIsCurrent'
    BY <2>1 DEF PrepareHeat, Arm, ArmedHeatIsCurrent, Stale
  <2>2. CASE PrepareTestHeat \/ Disarm
    BY <2>2, CurrencyFrame DEF PrepareTestHeat, Arm, Disarm
  <2>3. CASE ForceResults
    <3>1. active' = NoHeat \/ active' = active
      BY <2>3, RecordKeepsOrLeaves DEF ForceResults
    <3>2. QED
      BY <2>3, <3>1, CurrencyFrame DEF ForceResults
  <2>4. CASE ForceResultsReturns
    <3>1. active' = NoHeat \/ active' = active
      BY <2>4, RecordKeepsOrLeaves DEF ForceResultsReturns
    <3>2. QED
      BY <2>4, <3>1, CurrencyFrame DEF ForceResultsReturns
  <2>5. ASSUME NEW l \in Lanes, LaneResult(l) PROVE ArmedHeatIsCurrent'
    <3>1. active' = NoHeat \/ active' = active
      BY <2>5, RecordKeepsOrLeaves
    <3>2. QED
      BY <2>5, <3>1, CurrencyFrame DEF LaneResult
  <2>6. CASE ArmNotConfirmed
    BY <2>6, CurrencyFrame DEF ArmNotConfirmed
  <2>7. CASE Revalidate
    BY <2>7 DEF Revalidate, Abandon, ArmedHeatIsCurrent, Stale
  <2>8. ASSUME NEW h \in HeatIds, NEW row, RedrawHeat(h, row) \/ DeleteHeat(h)
        PROVE  ArmedHeatIsCurrent'
    BY <2>8 DEF RedrawHeat, DeleteHeat, ArmedHeatIsCurrent
  <2>9. ASSUME NEW h \in HeatIds, NEW row, NEW timed, UpdateHeatResult(h, row, timed)
        PROVE  ArmedHeatIsCurrent'
    <3>1. CASE h \notin FreeHeats
      BY <2>9, <3>1 DEF UpdateHeatResult, ArmedHeatIsCurrent
    <3>2. CASE h \in FreeHeats
      <4>1. lineup' = lineup
        BY <2>9, <3>2, HeatAssumption
        DEF UpdateHeatResult, ExhibitionsStayAnonymous, TypeOK
      <4>2. UNCHANGED <<rows, owed, active, racerByLane>>
        BY <2>9, <3>2 DEF UpdateHeatResult, TypeOK
      <4>3. QED
        BY <4>1, <4>2, CurrencyFrame
    <3>3. QED
      BY <3>1, <3>2
  <2>10. CASE UNCHANGED <<rows, lineup, owed, active, racerByLane>>
    BY <2>10, CurrencyFrame
  <2>11. QED
    BY <2>1, <2>2, <2>3, <2>4, <2>5, <2>6, <2>7, <2>8, <2>9, <2>10
    DEF Next, Operator, AbortHeat, Reset, Device, Link, Schedule, RaceStarted,
        GateClosed, GateOpen, Identified, ArmAcknowledged, Connected, LinkLost,
        Adopted, SetDevice, GoOverdue, StageCars, GateDrops, ResultsLost, vars
<1>3. QED
  BY <1>1, <1>2, TypeCorrect, PTL DEF Spec

-----------------------------------------------------------------------------
(* The times recorded are those of the cars drawn in the heat.             *)

\* Letting go of the heat, or dropping the times collected, disturbs nothing.
LEMMA RunInvFrame ==
    ASSUME RunInv,
           UNCHANGED <<lineup, result, cars, due, run, armedAt, mask>>,
           testRun' => testRun,
           active' = NoHeat \/ UNCHANGED <<active, racerByLane>>,
           pending' \in {pending, Blank}
    PROVE  RunInv'
<1>1. ExhibitionsStayAnonymous' /\ RecordedTimesAreOwned'
  BY DEF RunInv, ExhibitionsStayAnonymous, RecordedTimesAreOwned
<1>2. ArmedLanesAreTaken'
  BY DEF RunInv, ArmedLanesAreTaken, Occupied
<1>3. CarsAreTheArmedHeats'
  BY DEF RunInv, CarsAreTheArmedHeats, Blank
<1>4. RunsAreSinceTheArming'
  BY DEF RunInv, RunsAreSinceTheArming, Blank
<1>5. QED
  BY <1>1, <1>2, <1>3, <1>4 DEF RunInv

\* Recording keeps every recorded time with the car that ran it, whether the
\* write succeeds, fails or is refused.
LEMMA RecordingIsOwned ==
    ASSUME TypeOK, RunInv, active # NoHeat, UNCHANGED lineup,
           NEW times \in TimesType,
           \A l \in Lanes : times[l] # NoTime =>
               l \in mask /\ times[l].racer = racerByLane[l],
           RecordResults(times)
    PROVE  RecordedTimesAreOwned'
<1>1. CASE result' = result
  BY <1>1 DEF RunInv, RecordedTimesAreOwned
<1>2. CASE /\ active \in HeatIds /\ ~Stale
           /\ result' = [result EXCEPT ![active] = Overlay(@, times)]
  <2>1. lineup[active] = racerByLane
    BY <1>2
    DEF Stale, RunInv, ArmedLanesAreTaken, ExhibitionsStayAnonymous
  <2>2. active \notin FreeHeats => \A l \in mask : lineup[active][l] # Nobody
    BY <2>1 DEF RunInv, ArmedLanesAreTaken, Occupied
  <2>3. SUFFICES ASSUME NEW h \in HeatIds, NEW l \in Lanes, result'[h][l] # NoTime
                 PROVE  /\ result'[h][l].racer = lineup[h][l]
                        /\ h \notin FreeHeats => lineup[h][l] # Nobody
    BY DEF RecordedTimesAreOwned
  <2>4. CASE h = active /\ times[l] # NoTime
    <3>1. result'[h][l] = times[l]
      BY <1>2, <2>4 DEF Overlay, TypeOK
    <3>2. QED
      BY <2>1, <2>2, <2>4, <3>1
  <2>5. CASE h # active \/ times[l] = NoTime
    <3>1. result'[h][l] = result[h][l]
      BY <1>2, <2>5 DEF Overlay, TypeOK
    <3>2. QED
      BY <2>3, <3>1 DEF RunInv, RecordedTimesAreOwned
  <2>6. QED
    BY <2>4, <2>5
<1>3. QED
  BY <1>1, <1>2 DEF RecordResults, Saved, SaveFailed

\* force_record disturbs none of it.
LEMMA ForceRecordRunInv ==
    ASSUME TypeOK, RunInv, ForceRecord,
           UNCHANGED <<testRun, mask, pending, racerByLane, watch, rows, lineup,
                       owed, world>>
    PROVE  RunInv'
<1> USE DEF world
<1>1. CASE UNCHANGED <<active, result>>
  BY <1>1, RunInvFrame
<1>2. CASE active # NoHeat /\ RecordResults(pending)
  <2>1. pending \in TimesType
    BY DEF TypeOK
  <2>2. RecordedTimesAreOwned'
    BY <1>2, <2>1, RecordingIsOwned DEF RunInv, CarsAreTheArmedHeats
  <2>3. active' = NoHeat
    BY <1>2, RecordResultsDisarms
  <2>4. QED
    BY <2>2, <2>3
    DEF RunInv, ExhibitionsStayAnonymous, ArmedLanesAreTaken, CarsAreTheArmedHeats,
        RunsAreSinceTheArming
<1>3. QED
  BY <1>1, <1>2 DEF ForceRecord

\* The times collected are of the armed heat's cars, in the lanes it waits for.
LEMMA CollectedIsOwned ==
    ASSUME TypeOK, RunInv, active # NoHeat, NEW l \in Lanes, LaneResult(l),
           LaneCollected(l), NEW m \in Lanes, pending'[m] # NoTime
    PROVE  m \in mask /\ pending'[m].racer = racerByLane[m]
<1> USE DEF TypeOK
<1>1. pending' = [pending EXCEPT ![l] = Answer(l)] /\ pending' \in TimesType
  BY AnswerType DEF LaneCollected
<1>2. CASE m # l
  BY <1>1, <1>2 DEF RunInv, CarsAreTheArmedHeats, TimesType
<1>3. CASE m = l
  <2>1. l \in mask
    BY DEF LaneCollected, RunInv, ArmedLanesAreTaken
  <2>2. l \in due
    BY <2>1 DEF LaneResult, Reportable
  <2>3. cars[l] = racerByLane[l]
    BY <2>2 DEF RunInv, CarsAreTheArmedHeats
  <2>4. QED
    BY <1>1, <1>3, <2>1, <2>2, <2>3 DEF Answer, TimesType
<1>4. QED
  BY <1>2, <1>3

\* A lane the heat waits for is one the device still owes.
LEMMA CollectedIsDue ==
    ASSUME RunInv, ArmedForSomething, NEW l \in Lanes, LaneResult(l), LaneCollected(l)
    PROVE  l \in due
<1>1. mask # {}
  BY HeardIsArmed DEF LaneCollected, RunInv, ArmedLanesAreTaken
<1>2. QED
  BY <1>1 DEF LaneCollected, LaneResult, Reportable

\* A collected answer is of the armed heat's car in that lane, and of the run
\* the cars last made, which is one made since the arming.
LEMMA CollectedRunInv ==
    ASSUME TypeOK, RunInv, ArmedForSomething,
           NEW l \in Lanes, LaneResult(l), LaneCollected(l)
    PROVE  RunInv'
<1> USE DEF TypeOK, world
<1>1. /\ UNCHANGED <<testRun, lineup, mask, racerByLane, cars, run, armedAt>>
      /\ due' = due \ {l}
  BY DEF LaneResult
<1>2. pending' = [pending EXCEPT ![l] = Answer(l)] /\ pending' \in TimesType
  BY AnswerType DEF LaneCollected
<1>3. run \in (armedAt + 1)..run
  BY CollectedIsDue DEF RunInv, RunsAreSinceTheArming
<1>4. RunsAreSinceTheArming'
  <2>1. \A m \in Lanes : pending'[m] # NoTime => pending'[m].run \in (armedAt + 1)..run
    BY <1>2, <1>3 DEF RunInv, RunsAreSinceTheArming, Answer, TimesType
  <2>2. QED
    BY <1>1, <2>1 DEF RunInv, RunsAreSinceTheArming
<1>5. active # NoHeat =>
        \A m \in Lanes : pending'[m] # NoTime =>
            m \in mask /\ pending'[m].racer = racerByLane[m]
  BY CollectedIsOwned
<1>6. ExhibitionsStayAnonymous'
  BY <1>1 DEF RunInv, ExhibitionsStayAnonymous
<1>7. CASE RecordResults(pending') /\ active # NoHeat
  <2>1. active' = NoHeat
    BY <1>7, RecordResultsDisarms
  <2>2. RecordedTimesAreOwned'
    BY <1>1, <1>2, <1>5, <1>7, RecordingIsOwned
  <2>3. QED
    BY <1>1, <1>4, <1>6, <2>1, <2>2
    DEF RunInv, ArmedLanesAreTaken, CarsAreTheArmedHeats
<1>8. CASE UNCHANGED <<active, result>>
  <2>1. RecordedTimesAreOwned' /\ ArmedLanesAreTaken'
    BY <1>1, <1>8 DEF RunInv, RecordedTimesAreOwned, ArmedLanesAreTaken, Occupied
  <2>2. CarsAreTheArmedHeats'
    BY <1>1, <1>5, <1>8 DEF RunInv, CarsAreTheArmedHeats
  <2>3. QED
    BY <1>4, <1>6, <2>1, <2>2 DEF RunInv
<1>9. QED
  BY <1>7, <1>8 DEF LaneCollected

\* Arming copies the row, over a clear track and no waiting result.
LEMMA ArmingRunInv ==
    ASSUME TypeOK, RunInv, ClearsTrack,
           PrepareTestHeat \/ \E h \in HeatIds : PrepareHeat(h)
    PROVE  RunInv'
<1> USE DEF store, TypeOK
<1>1. CASE PrepareTestHeat
  BY <1>1, LaneAssumption
  DEF PrepareTestHeat, Arm, RunInv, ExhibitionsStayAnonymous, ArmedLanesAreTaken,
      CarsAreTheArmedHeats, RunsAreSinceTheArming, RecordedTimesAreOwned, Blank
<1>2. ASSUME NEW h \in HeatIds, PrepareHeat(h) PROVE RunInv'
  <2>1. ExhibitionsStayAnonymous' /\ RecordedTimesAreOwned'
    BY <1>2
    DEF PrepareHeat, Arm, RunInv, ExhibitionsStayAnonymous, RecordedTimesAreOwned
  <2>2. RunsAreSinceTheArming' /\ CarsAreTheArmedHeats'
    BY <1>2
    DEF PrepareHeat, Arm, RunsAreSinceTheArming, CarsAreTheArmedHeats, Blank
  <2>3. lineup[h] = EmptyLineup <=> h \in FreeHeats
    BY <1>2
    DEF PrepareHeat, Arm, LaneMask, Occupied, EmptyLineup, RunInv,
        ExhibitionsStayAnonymous
  <2>4. ArmedLanesAreTaken'
    BY <1>2, <2>3 DEF PrepareHeat, Arm, LaneMask, ArmedLanesAreTaken, Occupied
  <2>5. QED
    BY <2>1, <2>2, <2>4 DEF RunInv
<1>3. QED
  BY <1>1, <1>2

\* Rewriting heats moves no time to another car: a heat with a recorded time is
\* neither redrawn nor deleted, and a person types times and racers together.
LEMMA ScheduleRunInv ==
    ASSUME TypeOK, RunInv, Schedule
    PROVE  RunInv'
<1> USE DEF TypeOK, manager, world
<1>1. UNCHANGED <<manager, world>>
  BY DEF Schedule, RedrawHeat, DeleteHeat, UpdateHeatResult
<1>2. ExhibitionsStayAnonymous'
  BY HeatAssumption
  DEF Schedule, RedrawHeat, DeleteHeat, UpdateHeatResult, RunInv,
      ExhibitionsStayAnonymous
<1>3. RecordedTimesAreOwned'
  <2>1. ASSUME NEW h \in HeatIds, NEW row \in Lineups, RedrawHeat(h, row)
        PROVE  RecordedTimesAreOwned'
    BY <2>1 DEF RedrawHeat, Raced, RunInv, RecordedTimesAreOwned
  <2>2. ASSUME NEW h \in HeatIds, DeleteHeat(h) PROVE RecordedTimesAreOwned'
    BY <2>2 DEF DeleteHeat, RunInv, RecordedTimesAreOwned
  <2>3. ASSUME NEW h \in HeatIds, NEW row \in Lineups, NEW timed \in SUBSET Lanes,
               h \in FreeHeats \/ timed \subseteq Occupied(row),
               UpdateHeatResult(h, row, timed)
        PROVE  RecordedTimesAreOwned'
    <3>1. \A g \in HeatIds \ {h} : lineup'[g] = lineup[g] /\ result'[g] = result[g]
      BY <2>3 DEF UpdateHeatResult
    <3>2. lineup'[h] = row
      BY <2>3 DEF UpdateHeatResult
    <3>3. \A l \in Lanes : result'[h][l] # NoTime =>
              l \in timed /\ result'[h][l] = Typed(row[l])
      BY <2>3 DEF UpdateHeatResult
    <3>4. \A l \in Lanes : result'[h][l] # NoTime =>
              /\ result'[h][l].racer = lineup'[h][l]
              /\ h \notin FreeHeats => lineup'[h][l] # Nobody
      <4>1. \A l \in Lanes : Typed(row[l]).racer = row[l]
        BY DEF Typed
      <4>2. h \notin FreeHeats => \A l \in timed : row[l] # Nobody
        BY <2>3 DEF Occupied
      <4>3. QED
        BY <3>2, <3>3, <4>1, <4>2
    <3>5. QED
      BY <3>1, <3>4 DEF RunInv, RecordedTimesAreOwned
  <2>4. QED
    BY <2>1, <2>2, <2>3 DEF Schedule
<1>4. QED
  BY <1>1, <1>2, <1>3
  DEF RunInv, ArmedLanesAreTaken, CarsAreTheArmedHeats, RunsAreSinceTheArming,
      Occupied

\* From arming to recording, the row, the manager's copy of it, the device's
\* answers and the cars on the track agree, through reboots that arm a heat again
\* for another run, if heats are armed over a clear track.
THEOREM RunsAgree == ASSUME ClearsTrack PROVE Spec => []RunInv
<1>1. Init => RunInv
  BY DEF Init, RunInv, ExhibitionsStayAnonymous, ArmedLanesAreTaken,
         CarsAreTheArmedHeats, RunsAreSinceTheArming, RecordedTimesAreOwned, Blank
<1>2. TypeOK /\ RunInv /\ ArmedForSomething /\ [Next]_vars => RunInv'
  <2> SUFFICES ASSUME TypeOK, RunInv, ArmedForSomething, [Next]_vars PROVE RunInv'
    OBVIOUS
  <2> USE DEF manager, store, world
  <2>1. CASE PrepareTestHeat \/ \E h \in HeatIds : PrepareHeat(h)
    BY <2>1, ArmingRunInv
  <2>2. CASE Disarm
    BY <2>2, RunInvFrame DEF Disarm
  <2>3. CASE ForceResults \/ ForceResultsReturns
    <3>1. CASE ForceRecord
      <4>1. UNCHANGED <<testRun, mask, pending, racerByLane, watch, rows, lineup,
                        owed, world>>
        BY <2>3 DEF ForceResults, ForceResultsReturns
      <4>2. QED
        BY <3>1, <4>1, ForceRecordRunInv
    <3>2. CASE ~ForceRecord
      <4>1. UNCHANGED <<lineup, result, world, testRun, mask, active, racerByLane,
                        pending>>
        BY <2>3, <3>2 DEF ForceResults, ForceResultsReturns
      <4>2. QED
        BY <4>1, RunInvFrame
    <3>3. QED
      BY <3>1, <3>2
  <2>4. ASSUME NEW l \in Lanes, LaneResult(l) PROVE RunInv'
    <3>1. CASE LaneCollected(l)
      BY <2>4, <3>1, CollectedRunInv
    <3>2. CASE ~LaneCollected(l)
      <4>1. UNCHANGED <<lineup, result, cars, run, armedAt, testRun, mask, active,
                        racerByLane, pending>> /\ due' = due \ {l}
        BY <2>4, <3>2 DEF LaneResult, LaneIgnored, LaneUnarmed
      <4>2. QED
        BY <4>1
        DEF RunInv, ExhibitionsStayAnonymous, ArmedLanesAreTaken,
            CarsAreTheArmedHeats, RunsAreSinceTheArming, RecordedTimesAreOwned,
            Occupied
    <3>3. QED
      BY <3>1, <3>2
  <2>5. CASE ArmNotConfirmed \/ Revalidate
    BY <2>5, RunInvFrame DEF ArmNotConfirmed, Revalidate, Abandon
  <2>6. CASE Schedule
    BY <2>6, ScheduleRunInv
  <2>7. CASE GateDrops
    <3>1. RunsAreSinceTheArming'
      BY <2>7 DEF GateDrops, RunInv, RunsAreSinceTheArming, TypeOK
    <3>2. CarsAreTheArmedHeats'
      BY <2>7 DEF GateDrops, RunInv, CarsAreTheArmedHeats
    <3>3. QED
      BY <2>7, <3>1, <3>2
      DEF GateDrops, RunInv, ExhibitionsStayAnonymous, ArmedLanesAreTaken,
          RecordedTimesAreOwned, Occupied
  <2>8. CASE ResultsLost
    BY <2>8
    DEF ResultsLost, RunInv, ExhibitionsStayAnonymous, ArmedLanesAreTaken,
        CarsAreTheArmedHeats, RunsAreSinceTheArming, RecordedTimesAreOwned, Occupied
  <2>9. CASE SetDevice
    BY <2>9, RunInvFrame DEF SetDevice
  <2>10. CASE UNCHANGED <<active, testRun, mask, pending, racerByLane, store,
                          cars, due, run, armedAt>>
    BY <2>10, RunInvFrame
  <2>11. QED
    BY <2>1, <2>2, <2>3, <2>4, <2>5, <2>6, <2>7, <2>8, <2>9, <2>10
    DEF Next, Operator, AbortHeat, Reset, Device, Link, RaceStarted, GateClosed,
        GateOpen, Identified, ArmAcknowledged, Connected, LinkLost, Adopted,
        GoOverdue, StageCars, vars
<1>3. QED
  BY <1>1, <1>2, TypeCorrect, NeverRacingForNothing, PTL DEF Spec

\* A recorded time is the time of the car drawn in that lane of that heat.
THEOREM RecordedTimesFollowTheCar == ASSUME ClearsTrack PROVE Spec => []TimesFollowTheCar
<1>1. TypeOK /\ RunInv => TimesFollowTheCar
  BY DEF TypeOK, RunInv, RecordedTimesAreOwned, TimesFollowTheCar
<1>2. QED
  BY <1>1, TypeCorrect, RunsAgree, PTL

\* No time is recorded in a lane that has no racer.
THEOREM EmptyLanesHaveNoTimes == ASSUME ClearsTrack PROVE Spec => []NoTimeInAnEmptyLane
<1>1. TypeOK /\ RunInv => NoTimeInAnEmptyLane
  BY DEF TypeOK, RunInv, RecordedTimesAreOwned, NoTimeInAnEmptyLane
<1>2. QED
  BY <1>1, TypeCorrect, RunsAgree, PTL

\* The times waiting to be recorded are of runs made since the operator last armed.
THEOREM ResultsAreNeverLeftOver ==
    ASSUME ClearsTrack PROVE Spec => []ResultsAreOfThisArming
<1>1. TypeOK /\ RunInv => ResultsAreOfThisArming
  BY DEF TypeOK, RunInv, RunsAreSinceTheArming, ResultsAreOfThisArming
<1>2. QED
  BY <1>1, TypeCorrect, RunsAgree, PTL

-----------------------------------------------------------------------------
(* The manager implements the book of heats.                               *)

\* The runs made when the heat that is armed was taken up.
since == IF active = NoHeat THEN 0 ELSE armedAt

bookVars == <<active, run, since, rows, lineup, result>>

\* However _record_results ends, the book sees one recording, of runs made since
\* the heat was taken up, or the heat let go of.
LEMMA RecordingIsInTheBook ==
    ASSUME TypeOK, RunInv, active # NoHeat,
           UNCHANGED <<rows, lineup, run>>,
           NEW times \in TimesType,
           \A l \in Lanes : times[l] # NoTime =>
               /\ l \in mask /\ times[l].racer = racerByLane[l]
               /\ times[l].run \in (armedAt + 1)..run,
           RecordResults(times)
    PROVE  Book!Next
<1>1. active' = NoHeat
  BY RecordResultsDisarms
<1>2. CASE result' = result
  BY <1>1, <1>2 DEF Book!Next, Book!LetGo
<1>3. CASE /\ active \in HeatIds /\ ~Stale
           /\ result' = [result EXCEPT ![active] = Overlay(@, times)]
  <2> DEFINE lanes == {l \in Lanes : times[l] # NoTime}
             at == [l \in lanes |-> times[l].run]
  <2>1. active \in rows /\ lineup[active] = racerByLane
    BY <1>3
    DEF Stale, RunInv, ArmedLanesAreTaken, ExhibitionsStayAnonymous
  <2>2. Book!MayTime(active, lineup[active], lanes)
    BY <2>1 DEF Book!MayTime, Book!Occupied, Occupied, RunInv, ArmedLanesAreTaken
  <2>3. \A l \in lanes : times[l] = Book!Time(lineup[active][l], at[l])
    BY <2>1 DEF Book!Time, TimesType, Stamp
  <2>4. Overlay(result[active], times) =
            [l \in Lanes |-> IF l \in lanes THEN Book!Time(lineup[active][l], at[l])
                                            ELSE result[active][l]]
    BY <2>3 DEF Overlay
  <2>5. Book!Record(lanes, at)
    BY <1>1, <1>3, <2>1, <2>2, <2>4 DEF Book!Record
  <2>6. lanes \in SUBSET Lanes /\ at \in [lanes -> (since + 1)..run]
    BY DEF since
  <2>7. QED
    BY <2>5, <2>6 DEF Book!Next, since
<1>4. QED
  BY <1>2, <1>3 DEF RecordResults, Saved, SaveFailed

\* force_record, of whatever has come in so far.
LEMMA ForceRecordIsInTheBook ==
    ASSUME TypeOK, RunInv, ForceRecord,
           UNCHANGED <<rows, lineup, run, armedAt>>
    PROVE  [Book!Next]_bookVars
<1>1. CASE UNCHANGED <<active, result>>
  BY <1>1 DEF bookVars, since
<1>2. CASE active # NoHeat /\ RecordResults(pending)
  <2>1. pending \in TimesType
    BY DEF TypeOK
  <2>2. QED
    BY <1>2, <2>1, RecordingIsInTheBook
    DEF RunInv, CarsAreTheArmedHeats, RunsAreSinceTheArming
<1>3. QED
  BY <1>1, <1>2 DEF ForceRecord

\* The answer of the last lane awaited, and every one before it.
LEMMA LaneResultIsInTheBook ==
    ASSUME TypeOK, RunInv, ArmedForSomething, NEW l \in Lanes, LaneResult(l)
    PROVE  [Book!Next]_bookVars
<1>1. UNCHANGED <<rows, lineup, run, armedAt>>
  BY DEF LaneResult, world
<1>2. CASE UNCHANGED <<active, result>>
  BY <1>1, <1>2 DEF bookVars, since
<1>3. CASE active # NoHeat /\ LaneCollected(l) /\ RecordResults(pending')
  <2>1. pending' \in TimesType
    BY <1>3, AnswerType DEF LaneCollected
  <2>2. \A m \in Lanes : pending'[m] # NoTime =>
            m \in mask /\ pending'[m].racer = racerByLane[m]
    BY <1>3, CollectedIsOwned
  <2>3. \A m \in Lanes : pending'[m] # NoTime =>
            pending'[m].run \in (armedAt + 1)..run
    BY <1>1, <1>3, CollectedRunInv DEF RunInv, RunsAreSinceTheArming
  <2>4. QED
    BY <1>1, <1>3, <2>1, <2>2, <2>3, RecordingIsInTheBook
<1>4. QED
  BY <1>2, <1>3 DEF LaneResult, LaneIgnored, LaneUnarmed, LaneCollected

\* What rewrites heats does so as the book lets it.
LEMMA ScheduleIsInTheBook ==
    ASSUME Schedule
    PROVE  Book!Next
<1> USE DEF manager, world
<1>1. ASSUME NEW h \in HeatIds, NEW row \in Lineups, RedrawHeat(h, row)
      PROVE  Book!Next
  <2>1. Book!Redraw(h, row)
    BY <1>1 DEF RedrawHeat, Raced, Book!Redraw, Book!Raced
  <2>2. QED
    BY <2>1 DEF Book!Next
<1>2. ASSUME NEW h \in HeatIds, DeleteHeat(h) PROVE Book!Next
  <2>1. Book!Delete(h)
    BY <1>2 DEF DeleteHeat, Raced, Book!Delete, Book!Raced
  <2>2. QED
    BY <2>1 DEF Book!Next
<1>3. ASSUME NEW h \in HeatIds, NEW row \in Lineups, NEW timed \in SUBSET Lanes,
             h \in FreeHeats \/ timed \subseteq Occupied(row),
             UpdateHeatResult(h, row, timed)
      PROVE  Book!Next
  <2>1. Book!Correct(h, row, timed)
    BY <1>3
    DEF UpdateHeatResult, Typed, Occupied, Book!Correct, Book!MayTime, Book!Occupied,
        Book!Time
  <2>2. QED
    BY <2>1 DEF Book!Next
<1>4. QED
  BY <1>1, <1>2, <1>3 DEF Schedule

\* Whatever device is behind it and whatever happens on the way, a heat the timer
\* takes up ends in one recording of what its own cars ran since it was taken up, or
\* in none, if heats are armed over a clear track.
THEOREM ImplementsTheBook == ASSUME ClearsTrack PROVE Spec => KeepsTheBook
<1>1. Init => Book!Init
  BY DEF Init, Blank, Book!Init
<1>2. TypeOK /\ RunInv /\ ArmedForSomething /\ [Next]_vars => [Book!Next]_bookVars
  <2> SUFFICES ASSUME TypeOK, RunInv, ArmedForSomething, [Next]_vars
               PROVE  [Book!Next]_bookVars
    OBVIOUS
  <2> USE DEF manager, store, world
  <2>1. ASSUME NEW h \in HeatIds, PrepareHeat(h) PROVE Book!Next
    <3>1. Book!TakeUp(h)
      BY <2>1, HeatAssumption DEF PrepareHeat, Arm, Book!TakeUp
    <3>2. QED
      BY <3>1 DEF Book!Next
  <2>2. CASE PrepareTestHeat \/ Disarm
    BY <2>2 DEF PrepareTestHeat, Arm, Disarm, Book!Next, Book!LetGo
  <2>3. CASE ForceResults \/ ForceResultsReturns
    <3>1. UNCHANGED <<rows, lineup, run, armedAt>>
      BY <2>3 DEF ForceResults, ForceResultsReturns
    <3>2. CASE ForceRecord
      BY <3>1, <3>2, ForceRecordIsInTheBook
    <3>3. CASE ~ForceRecord
      BY <2>3, <3>1, <3>3 DEF ForceResults, ForceResultsReturns, bookVars, since
    <3>4. QED
      BY <3>2, <3>3
  <2>4. ASSUME NEW l \in Lanes, LaneResult(l) PROVE [Book!Next]_bookVars
    BY <2>4, LaneResultIsInTheBook
  <2>5. CASE Schedule
    BY <2>5, ScheduleIsInTheBook
  <2>6. CASE ArmNotConfirmed \/ Revalidate
    BY <2>6
    DEF ArmNotConfirmed, Revalidate, Abandon, Book!Next, Book!LetGo, bookVars, since
  <2>7. CASE GateDrops
    BY <2>7 DEF GateDrops, Book!Next, Book!Race
  <2>8. CASE UNCHANGED <<active, run, armedAt, rows, lineup, result>>
    BY <2>8 DEF bookVars, since
  <2>9. QED
    BY <2>1, <2>2, <2>3, <2>4, <2>5, <2>6, <2>7, <2>8
    DEF Next, vars, Operator, AbortHeat, Reset, Device, RaceStarted, GateClosed,
        GateOpen, Identified, ArmAcknowledged, Link, Connected, LinkLost, Adopted,
        SetDevice, GoOverdue, StageCars, ResultsLost
<1>3. QED
  BY <1>1, <1>2, TypeCorrect, RunsAgree, NeverRacingForNothing, PTL
  DEF Spec, KeepsTheBook, Book!Spec, Book!vars, bookVars, since

=============================================================================
