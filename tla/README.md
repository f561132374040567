# Trusty Track: verification models

TLA+ models of Trusty Track, the software that runs a pinewood derby: it draws
heats, arms the timing hardware, records the times the hardware reports,
advances racers from round to round until there is a champion, and shows all of
it on an operator's screen and on displays around the room. The modules here are
translated from the code in `backend/` and `frontend/`; TLC checks them on small
instances and TLAPS proves the main safety properties of most of them for every
instance.

All paths below are relative to the repository's root.

## 1. Inventory: the parts of the system

Trusty Track is one Python process (FastAPI, Strawberry GraphQL, SQLAlchemy over
SQLite) on one asyncio event loop, with a React frontend and any number of
read-only displays. In the process nothing runs in parallel; everything that can
go wrong with concurrency there goes wrong at an `await`, between two requests,
or between two commits. The browsers run beside it, each with its own copies of
what the server holds, and one of them may lend the server its serial port.

| Part | State it keeps | Operations | Talks to | What makes it correct | Modelled |
|---|---|---|---|---|---|
| **Timer manager** `services/timer/manager.py`, one per track | state machine (8 states), armed heat, lane mask, armed line-up, collected results, start clock, arming generation, acknowledgement queue, gate belief; all in memory | arm, test, abort, reset, force, one handler per device event, watchdog, reconnect, adopt | device (bytes), resolvers, database, event bus | a result is recorded once, in the heat it was run for, for the car that ran it; no run hangs | partly: `TimerManager`, `HeatBook` |
| **Resolvers** `api/schema.py` | none | one mutation per button | all of the others | a mutation that rewrites heats revalidates the timers; refusals are decided on current state | partly, in all modules |
| **Result cascade** `db/crud.py`, `domain/advancement.py` | rounds, heats, lanes, pins in SQLite | record, clear, withdraw, admit, delete, regenerate, pin, advance | called by the timer manager and the resolvers | a round that is fed by another holds the racers the other one decided, or placeholders; raced heats are never redrawn | partly: `Advancement` |
| **Race screen** `RaceControl.tsx`, `RaceExecution.tsx`, `raceFlow.ts` | copies of the race and of the heat's session, the heat chosen, the flow's state | arm, count down, announce, edit, skip, re-run, reset, jump | GraphQL, live connection | it arms, shows and announces what is so; a choice stays put | `RaceScreen` |
| **Live connection and feeds** `liveConnection.ts`, `useRaceState.ts` | a socket, a watchdog, two kinds of subscription | connect, ping, merge, refetch | event bus | what a screen shows catches up with the database | `LiveFeed` |
| **Event bus** `api/pubsub.py` | subscriber queues | publish, subscribe | resolvers, timer manager, displays | the last state always reaches a live subscriber | `LiveFeed`, `Displays` |
| **Displays** `domain/displays.py`, `services/displays.py`, the audience pages | a row per screen: presence, view, ceremony step | subscribe, assign, advance, forget | event bus | a display that missed messages still shows the current view | partly: `Displays` |
| **Browser serial proxy** `SerialProxyContext.tsx` | socket, port, read loop, badge | connect, open with other framing, relay, close | discovery, browser | the port is never stranded; the badge is true | partly: `SerialProxy` |
| **Discovery** `services/timer/probe.py`, `proxy.py`, `api/main.py` | probe walk, the WebSocket that owns a timer | probe, adopt, take over, close | timer manager, browser | one socket owns a timer; a device is identified or the assumed profile is used | what it asks of the page |
| **Growing rounds** `domain/elimination.py`, `domain/balanced.py` | the heats drawn so far | extend on each result | cascade | the story always ends, with the advertised number of racers standing; nobody races alone | partly: `GrowingRound`, `HeatChunks` |
| **Running order** `domain/running_order.py` | heat numbers | number, renumber, repair | cascade | numbers stay distinct and raced heats keep theirs | no |
| **Race lock and intermission** `api/race_lock.py`, `domain/intermission.py` | locked rounds, countdown | refuse, start, end | resolvers | a locked race changes only where the lock allows | a break, in `Displays` |
| **Schedulers** `domain/schedulers/` | none | draw a round's heats | cascade | each racer once in each lane, nobody twice in a heat | the rotation |
| **Scoring** `domain/scoring.py`, `tiebreak.py`, `roll_down.py` | none | rank, break ties, roll down | cascade, screens | a total preorder that agrees with the rules | wins |
| Awards, replays, backup, importers, printables, statistics, auth | | | | little control; see section 14 | the steps of a ceremony |

### What is hard here

* **Rows change under memory.** The timer manager holds a heat by its id between
  arming and recording, and nearly every mutation may delete or redraw that row;
  SQLite hands ids out again. This is the worst of the hazards: a time recorded
  for another child's car, silently.
* **Devices are unreliable witnesses.** Start signals get lost, lanes never
  report, a reboot looks like an identification, an acknowledgement is missing
  or belongs to an earlier command, sensors fire for lanes nobody armed.
* **Awaits.** `force_results` drops the lock while it waits; revalidation,
  disconnects and several checks happen outside it. In the serial proxy three
  kinds of handler wait for one read loop and then want to close one port.
* **Cascades commit in steps.** A recorded result resets, redraws, grows and
  fills later rounds with a commit after each.
* **Nothing retries.** If an event that should trigger advancement is not the
  one that completes a round, the round it feeds stays empty.
* **Copies go stale.** The race screen decides on a copy of the race and a copy
  of the session that are refreshed at different moments; a call is answered
  after the page has moved on; another browser acts in between.
* **Links die silently.** A half-open socket looks open from both ends, a
  generator outlives its page, a change is published while nobody listens.

`PROJECT.json` lists each hazard at its line with the properties that cover it,
and the few no property covers with the reason.

## 2. Plan

Done, in the order written:

1. `TimerManager`: one track's timer from arming to recording, with the schedule
   changing under it; proofs in `TimerManagerProofs`.
2. `Advancement`: rounds feeding rounds; what recording, clearing, withdrawing,
   pinning, deleting and regenerating do to the rounds behind, one commit at a
   time, with crashes between the commits; proofs in `AdvancementProofs`.
3. `HeatBook`: the abstract promise of a timer to the record of the race, which
   `TimerManager` is shown to implement, by TLC and by proof.
4. `RaceScreen`: the operator's screen and its flow machine against a server that
   other people change; proofs in `RaceScreenProofs`.
5. `LiveFeed`: the socket, its watchdog, and the two kinds of feed it carries;
   proofs in `LiveFeedProofs`.
6. `Displays`: a screen on the operator's leash; proofs in `DisplaysProofs`.
7. `SerialProxy`: the page that lends its serial port; proofs in
   `SerialProxyProofs`.
8. `HeatChunks`, how a field is cut into heats, and over it `GrowingRound`: the
   elimination and the balanced round, drawn as they are raced; proofs in
   `HeatChunksProofs` and `GrowingRoundProofs`.

Left, most important first:

* `ArmingLock`: the event lock as a queue of suspended handlers with the callers
  that do not take it (revalidation, disconnect, the checks of `prepareHeat` and
  of the watchdog), and `ArmAck`, the command and acknowledgement queues with the
  arming generation. Both compose with the arming part of `TimerManager`.
* `ProxySession`: takeover of a timer's socket in the server's registry, and the
  probe walk, composed with `SerialProxy`.
* `GateBelief`: polling, debounce and the response window.
* `RaceLock` with intermission; `RunningOrder`.
* Pure algorithms: schedulers, ranks and tie-breaks against reference
  definitions over bounded inputs.
* Theorems: `UnracedFieldIsCurrent` of `Advancement` in the races that are not
  `Layered` and are not known to break it either (section 11).

Nothing composes the modules into one. They meet at interfaces that each models
from its own side: the record of a heat (`TimerManager` and `Advancement` over
`HeatBook`'s redraw, delete and correct), the outcome of a heat and the armed
timer (`RaceScreen` over both), the general round that feeds a final
(`GrowingRound` and `Advancement`), the frames of a feed (`RaceScreen` and `Displays`
over `LiveFeed`).

## 3. `TimerManager`

### State

| Variable | Code |
|---|---|
| `state` | `_state`, the eight values of `TimerState` |
| `active`, `testRun` | `_active_heat_id`, `_test_run` |
| `mask` | `_lane_mask`, as a set of lanes |
| `pending` | `_pending_results`, a result per lane |
| `racerByLane` | `_racer_by_lane`; the empty mapping is `EmptyLineup` |
| `clocked` | whether `_running_since` is set |
| `watch` | whether the arm-acknowledgement watch of the *current* arming is alive. `_arm_generation` is bumped in exactly the places where the watch is cancelled, so a watch of an older generation does nothing and one bit is enough. |
| `forcing` | a `force_results` call is between its two locked sections |
| `rows`, `lineup`, `result` | the heat rows that exist, who is drawn in each lane, what is recorded there. Every lane has a lane row; a vacated or undecided one has `Nobody`. |
| `owed` | a resolver has committed rewritten heats and not revalidated yet |
| `cars`, `due`, `run`, `staged` | the world: who is in which lane in the last physical run, which lanes of it the device still owes, how many runs there were, whether cars are at the gate |
| `unanswered`, `armedAt` | histories, read by properties only: an acknowledged arm command is out and the timer has stayed `ARMED` on it; how many runs there had been when the operator last armed |

A time is a *stamp*: the car that was in the lane and the run it was timed in.
That is what the properties need to tell apart; seconds and places are not
modelled. Commands to the device, the status, the serial log, the transition log,
the event bus and audit entries are left out, as is `LaneCount`, which no state
depends on. `DeviceError` is handled by the code but produced by no profile
(`services/timer/devices/bill_v.py` says so) and is left out too.

### Actions

One action per handler under the event lock: `PrepareHeat`, `PrepareTestHeat`
(both over `Arm`), `AbortHeat`, `Reset`, `ForceResults`; `RaceStarted`,
`GateClosed`, `GateOpen`, `LaneResult`, `Identified`, `ArmAcknowledged` for a line
of the device;
`ArmNotConfirmed`, `GoOverdue` for the manager's own tasks; `Connected`,
`LinkLost`, `Adopted`, `SetDevice` for the link. What happens inside a handler,
recording included, is part of its action: `LaneResult` records, abandons or
fails when the last lane is in.

Two things are steps of their own because the lock does not cover them:
`ForceResultsReturns`, the second half of `force_results`, and `Revalidate`, which
runs after the resolver that rewrote heats has committed. `RedrawHeat`,
`DeleteHeat` and `UpdateHeatResult` are those rewrites: regenerating a round,
re-fielding it after a result, vacating lanes, an outage, deleting, re-running and
overriding all come down to replacing the line-up of a heat without results,
removing it, or replacing its lanes by hand. A redraw of a deleted id models the
reuse of ids. The cascade behind a recorded result rewrites *other* heats, which
is a `RedrawHeat` without the revalidation having to be owed; allowing it at any
moment covers it.

A failed write may strike before or after the row's own commit
(`record_heat_result` commits the row first and the cascade commits again), hence
the two outcomes in `SaveFailed`.

The world: `StageCars` puts cars at the gate of a clear track whenever the screen
says the timer is armed, and `GateDrops` sends off the cars of whatever is armed. A
timer that reboots in the middle of a run arms the heat again by itself
(`Identified`) and keeps the results it had; its cars can then be staged and run a
second time, and the second run completes the first one's half. `Reportable` lanes
are those the device still owes and those that are not armed at all, whose
sensors may fire on nothing; `ResultsLost` forgets what is owed. Start and gate
lines may come at any time, in any order or not at all.

**`ClearsTrack`** is the one assumption about the operator: a heat is armed only
when the track is clear, and the gate drops only on cars staged for an armed
timer. The code enforces the first in `RUNNING` and `RESULTS_OVERDUE` only. The
runs that need it set it; `timer_swap` shows what happens without.

### `HeatBook`, what a timer promises

`HeatBook` forgets the device. A heat is taken up (`TakeUp`), and the book notes
how many runs the track had made; in one step it is then let go of (`LetGo`) or
recorded (`Record`), with times each of the car drawn in its lane and of a run made
since the heat was taken up, in occupied lanes only unless the heat is an anonymous
exhibition. The lanes may be of different runs, for a reboot can make them so.
Otherwise heats are only redrawn or deleted while nobody has raced them, or
corrected by hand. The eight states, the clock, the watch and the collected results
are not in it: `TimerManager` implements it under the mapping `armed <- active`,
`track <- run`, `since <- armedAt` while a heat is armed and 0 otherwise,
`ByHand <- 0`, with `rows`, `lineup` and `result` as they are. The property is
`KeepsTheBook`.

It says in one place what the invariants say in pieces and what no invariant can
say: that *no other step* writes a result, and that recording and letting go are
the same step.

### Runs

| Run | Instance | Shows |
|---|---|---|
| `timer_serial` | serial device whose arm command has no acknowledgement, times out, reports on demand; 2 lanes, 2 racers, 3 line-ups, 2 heats of which one an anonymous exhibition, 2 runs | type correctness and the safety properties below; the exhibition's empty line-up, which is never compared, does no harm |
| `timer_live` | a device that acknowledges the arm command and whose opened gate starts the race, one heat, two runs, fair | `KeepsTheBook` and the two liveness properties |
| `timer_swap` | arm acknowledged, two drawn heats, `ClearsTrack = FALSE` | violation, see section 13 |

Safety: `ArmedForSomething` (never racing with nothing to record),
`TimesFollowTheCar` (a recorded time is that of the car drawn there),
`ResultsAreOfThisArming` (what waits to be recorded was run since the operator
armed), `ArmedHeatIsCurrent` (after revalidation an armed heat is the row it was
armed from). That the waiting results are of *one* run (`OneRunAtATime`) does not
hold after a reboot, section 13. Liveness: `ClockedRunEnds`, and `UnansweredArmIsNoticed`,
which says that an arm command the device never answers, the operator's or the one
a reboot repeats, ends in `FAULT` or is overtaken by the race, and never stays
`ARMED` in silence. A run that was entered without a clock is outside
`ClockedRunEnds`, and nothing ends it: a hazard without a property.
`NoTimeInAnEmptyLane` and the
inductive invariant `RunInv` are proved and have no run: `MayTime` in `HeatBook`
says the same of every recording step.

**Bounds.** Two lanes are enough for a run to be half reported, two heats for a swap
and for id reuse against an unrelated heat, three line-ups for a lane that changes
hands, a lane that is vacated and a heat that is back on placeholders. Two runs
(`MaxRun`), of one arming or of two, are needed for results of one to meet another;
a third adds nothing the second has not. `timer_serial` leaves the acknowledgement
to `timer_live`, whose properties depend on it. One heat is enough for the book,
which never relates two. Deadlock is checked in every run.

**Fairness.** Weak fairness for `ForceResultsReturns`, `ArmNotConfirmed`,
`GoOverdue` and `Revalidate`: each is a task of the event loop with a deadline or
no further wait, and the loop runs every ready task. No fairness for operators,
devices or the network. Weak is enough: each stays enabled until taken or until
the state that needed it is gone. For the watch there is one thing more: each
arming starts a new one, so its fairness also supposes that a heat is not armed
again inside every deadline for ever.

## 4. `Advancement`

### State

| Variable | Code |
|---|---|
| `race` | which of the configured races this behaviour is: the cars checked in at the start, the final's size and runs, what a new round may be fed from, which cars come and go, the rounds there may be and the heats one may grow to, the optional operations; chosen once |
| `source` | the rounds there are, by `round_number`, and each one's `advancement_source`: `General` (null), `All`, or a round |
| `pinned` | `Round.field_pinned` |
| `heats` | each round's heats in order; of a heat, `lanes` (who is in each lane row, `Nobody` if vacated, `-k` for placeholder slot k) and `out` (not run, skipped, results on some lanes only, or the racer who won it) |
| `checkedIn`, `excluded` | `Racer.car_passed_inspection`, `Racer.excluded_from_standings` |
| `runOff` | a run-off has settled the ties of the overall standings the other way round |
| `usable` | the lanes in service |
| `todo` | the steps the current request has still to take |

### Actions

A request does its own write, commits, and leaves its follow-up in `todo`; `Settle`
takes one step of it, with that step's commit. The requests: `RecordHeatResult`
(first result, correction, skip, clearing), `RecordRunOff`, `CheckIn`,
`SetExcluded`, `SetLaneOutages`, `CreateRound`, `DeleteRound`, `DeleteHeat`,
`RegenerateRound`, `PinRoundField`, `UnpinRoundField`, `AdvanceRound`. A request
starts only when the one before is done: no resolver awaits between its first
read and its last commit, so on one event loop they do not interleave.

The steps, one per round:

| Step | Code |
|---|---|
| reset | `invalidate_future_rounds`: an unraced later round goes back on placeholders |
| trigger | `trigger_auto_advancements`: a completed round asks the rounds behind it to fill |
| fill | `populate_round_if_decided` |
| withdraw | `withdraw_absent_racers`: reset and re-advance, redraw, or vacate lanes |
| advance | its re-advancing half |
| admit | `admit_late_racers`: redraw, or append heats for the latecomers |
| outage | `apply_outages_to_scheduled_heats` |

A redraw with fewer than two racers, or a scheduler that cannot take a late car into
a round that has started, fails the request and leaves standing what it has
committed (`Fails`). `Crash` drops what is left of a cascade. It is not
allowed inside the sweeps of a check-in or an outage, which flush some changes and
commit them with a later one: there the steps are a reading order and not a
sequence of commits.

The order of the steps is the code's: resets of all later rounds before the
trigger, in round order; withdrawals of all rounds before admissions.

### What is abstracted

* A heat is its winner, and the standings rank by wins. Seconds, points and the
  other scoring strategies come down to an order that results move; ties go by
  registration, or the other way round after a run-off.
* All schedulers draw a heat per participant and run, each in every lane once.
  `RotationHeat` is the plain rotation and stands for all of them; which cars meet
  whom matters to no property. The cars that fill a latecomer's heats rotate too.
  Which of the schedulers a round has, and so whether it absorbs a latecomer once it
  has results, is not in the state: `Admit` may do either.
* A general round has one run. Left out: the `EACH_GROUP` source, advancing from
  the bottom of the standings, keeping finalists out of a side final, disrupted
  heats, growing rounds (section 9), the master running order, a track on which no lane is in
  service.

### Runs

| Run | Instance | Shows |
|---|---|---|
| `adv_races` | a general round and a final in ten races, two of three racers (`FieldRaces`): rounds are created behind the final and regenerated; cars withdraw, the field is picked by hand and ties are run off. Eight of two racers, with a third who may arrive late (`FloorRaces`): a final of two runs that is a car short; cars that leave and come back, lanes that fail and return; rounds redrawn, picked and filled by hand; everything that creates, deletes, regenerates, pins or advances rounds and heats; crashes | correcting, clearing, creating and regenerating in every order leaves each unraced round on placeholders or with those who would advance now, and never waiting once everything before it is raced (`UnracedFieldIsCurrent`, `RipeRoundIsFilled`); rounds are never half filled; redrawn, vacated, appended and re-laned heats never hold a car twice nor a car that is absent; raced heats are not touched; a pick stands; a rebuilt round has as many runs as it was set up for |

`RipeRoundIsFilled` is the safety form of "must eventually be filled": nothing in
the code retries, so a round that is not filled when the request is done waits
for whatever an operator does next. That is why this module states no fairness
and no liveness.

A property is promised for the races that go without what breaks it in the code as
it is (`Without`, over the optional operations of a race); section 13 names each.

| Property | Excepts |
|---|---|
| `RipeRoundIsFilled` | withdrawals, outages, exclusions, deleted heats and rounds, and crashes: each completes or empties a round and asks for none to be filled |
| `UnracedFieldIsCurrent` | a return (`"check_back_in"`), an exclusion, a deleted heat, a cleared final and a crash: none draws the final again |
| `RunsAreKept` | deleted heats and hand-picked fields, after which "as many runs" means something else; a final cleared after it lost a lane; and fields whose heats happen to divide by the slots asked for (`ShortFieldsShow`), which are taken for full ones of fewer runs |
| `NobodyRacesThemself`, `NoHalfFilledRound` | a round that has lost heats by deletion and is then filled by hand, where it has more cars than lanes (`DeletedThenFilled`): filling goes by slot number, and a heat no longer holds all the slots |
| `PickStands` | regeneration, an outage before the pick is raced, and deleted heats |
| `AbsentCarsAreNotDrawn` | the heats appended for a latecomer, which any car of the round fills (`FillsLateHeats`) |

`AdvancementProofs` proves all of them for every roster, plan, track and race, but
`UnracedFieldIsCurrent` only where the race is `Layered`, as all that the run claims it
for are; sections 10 and 11.

**Bounds.** Three racers for two places is the least in which who advances is a
choice; two racers for three places the least in which a field is short and yet a
race. Two lanes: one can fail, be shared with a latecomer or be vacated while
the other runs. Three rounds (`rounds`) where one is created: one behind a round
that is itself fed, and one beside it. `room` stops appending and outages once a
round has that many heats and leaves room for one latecomer in each general round;
`movers` are the racers whose check-in or exclusion changes; `uses` names the
optional operations. Races differ in `uses` rather than in size: the operations are
grouped by the property they endanger. Deadlock is checked.

## 5. `RaceScreen`

### State

| Variable | Code |
|---|---|
| `result` | what the server has of every heat: absent, on placeholders, fielded, timed or skipped |
| `timer` | the device's state and heat as the server reports it: `IDLE`, armed or `RUNNING` |
| `page` | `RaceControl`: its copy of the race, the heat chosen, the rounds and the finish it has already announced |
| `session` | `RaceExecution`'s copy of `heatSession` for the heat on screen, or none yet |
| `flow` | the state of `raceFlow`'s reducer |
| `mounted`, `editing`, `asking` | whether the Race tab is up; the heat the result editor was filled from; the skip confirmation with what it captured |
| `save`, `arming`, `aborting` | the calls under way, with what they were called with |
| `due`, `merges` | a refetch of the race is wanted or under way; heats whose new result is on its way as an event |

### Actions

The page: `Refetch` (the answer, read when it arrives), `Merge` (an event),
`SessionArrives`, `Tick`. Every one of them ends in an observation (`Show`): the
reducer settles, and its effects (arm, abort, announce) are part of the step. The
operator: `NextHeat`, `CancelCountdown`, `DismissSummary`, `StartNextRound`,
`OpenEditor`, `SaveEditor`, `CloseEditor`, `AskSkip`, `ConfirmSkip`, `DeclineSkip`,
`RunHeat`, `ReRunHeat`, `ResetHeat`, `LeaveTab`, `ReturnToTab`, `Reload`; a change
of the schedule made from this page is the world's `Append` or `Delete` followed by
`ScheduleAnswered`, which drops the heat chosen. The server: `SaveServed` and its
answers, `PrepareServed`, `AbortServed`; a call is served between its start and its
answer, and saving a heat that is gone is answered like any other and writes
nothing. The world: `GateOpens`, `RunEnds`, `TimerGivesUp`, `Append` and `Delete`
from here or from another browser, and another browser's `Correct` and
`ArmElsewhere`.

The server's cascade is `Recorded`: take back the unraced rounds behind, fill those
that are ripe. It is what `Advancement` models in steps; a screen sees its end.

### Abstraction

* A merged event carries the heat's outcome when it arrives, and a refetch is
  answered with the race at one moment. A feed's payload is built and delivered in
  one step; `LiveFeed` is about what happens between. The event of a heat that was
  deleted meanwhile carries one of the outcomes it had (`Payload`): merging an event
  never changes which heats the page lists.
* Effects of `RaceControl` that wait for `fetching` to end are skipped while a
  refetch is due.
* One call to save at a time: the controls are disabled meanwhile. The last heat is
  never deleted. A refilled round may have drawn other cars, or the same.
* Left out: reordering heats by Run, a track without a timer, a locked race,
  sounds, replays and layout.

### Runs

| Run | Instance | Shows |
|---|---|---|
| `screen_day` | two general heats and a final of one, the final there from the start or appended; eleven days, each with some of the optional steps | a summary is shown only while it is true (`SummaryIsTrue`); a countdown has a timed heat behind it, one ahead, and was not called off (`CountdownHasReason`); no answer of the server moves the screen off a heat that still exists (`HeatOnScreenIsPinned`) |
| `screen_live` | three days on which the page is told something new without end; fair | a countdown runs out all the same (`CountdownEnds`), a finish is announced (`FinishIsAnnounced`) |

**Bounds.** One general heat before a final is the least with a cascade; two the
least with a next heat in the round and a heat to jump over. `Seconds` is one where
only the order of events matters, two where a countdown must survive an interruption
in its middle. A day (`Modes`) names the optional steps, in pairs and triples that
meet on the same piece of state: skip with leaving the tab, re-run with faults and a
reload, deletion with jumps, deletion of a heat whose correction is still on its way
to the page, or which is about to be skipped. Other browsers are one actor that may
act at every moment. Deadlock is not checked: an operator may stop, with nothing
under way.

**Fairness.** Weak, for `Tick` (an interval of the browser), `Refetch` (the server
answers) and `Merge` (a frame on a live connection arrives). None for any person
or the timer.

## 6. `LiveFeed`

One browser, one socket, and on it the two kinds of subscription there are: a
*snapshot feed* (`heatSession` and most others), which is woken by a doorbell and
sends what it reads then, and the *event feed* (`raceStateChanged`), which sends each
change to be merged.

| Variable | Code |
|---|---|
| `stored`, `pending` | the database, a version per heat; results committed and not yet published |
| `wakes`, `events` | the two queues in the broadcaster, bounded and unbounded |
| `socket`, `wire` | the client's socket, alive or half-open, and the frames on their way |
| `ping`, `timer` | a ping waits for its pong; the socket the watchdog's timer was set for |
| `display`, `page` | what the two feeds have made of the race |
| `missed` | history: heats whose event was published while this client was not there |

`Connect` opens the socket and subscribes in the order of the code: the queue is
registered before the opening snapshot is read. `PongTimeout` is the watchdog,
which must close the socket it was set for and no later one. `LinkDies` leaves a
socket open that carries nothing, `SocketCloses` is an honest close, `Closed` the
server noticing.

`feed_live` checks that no event is lost to a client that was connected when it was
published (`NothingIsLostWhileConnected`) and that a snapshot display ends up
showing what is stored (`DisplayCatchesUp`). The event feed does not catch up by
itself: an event that was published between two connections is gone (`missed`), and
the page refetches instead. `LiveFeedProofs` proves the first for any number of
heats, results and faults.

**Bounds.** A queue of one is full as soon as a doorbell waits; two heats with two
results between them can be published in the other order than they were
committed; three faults are a dead link, a late pong and a close of the
replacement. Deadlock is not checked: the faults run out and the feed is at rest.

**Fairness.** Weak, for the broadcaster's tasks and the generators (ready tasks of
the event loop), delivery on a link that is alive, the client's retries (they go
on for ever) and its timers. A handshake completes or fails, and a live link
answers pings in time but for `MaxFaults` times; without the second nothing could
be promised.

## 7. `Displays`

One audience screen, its row in the registry, and the generators of its
subscriptions, of which an old one may linger until the server notices that its
page is gone.

| Variable | Code |
|---|---|
| `row` | `DisplayRegistry`'s row: connections, assigned, view, and the ceremony's `seq` and `delta` |
| `rings` | the unbounded queue of each generator, as a count of doorbells |
| `leash`, `wire` | the generator the screen listens to; what it has sent |
| `page`, `told`, `obeyed`, `index` | the page on screen, its last payload, `obeyedSeq`, the award shown (`StepIndex` keeps it within the awards) |
| `intermission` | a break has taken the screens |
| `taken`, `asked`, `wanted`, `owed` | histories since the page came up: the steps it took, those that were asked for, the award these lead to, and that the page was listening for each |

`displays_event` checks, for days with a forgotten screen, a restart and breaks:
presence is never overstated (`NoPhantomConnection`), no step of the ceremony is
taken twice, whatever reconnects or restarts (`NoStepIsTakenTwice`), a screen that
is up when it is forgotten comes back by itself (`ForgottenScreenReturns`), and an
assignment is followed in the end (`AssignmentIsFollowed`). The operator and the
keys step forwards and backwards. `displays_steps` (a step asked for is taken) is a
violation, section 13. `DisplaysProofs` proves the two invariants for any bounds.

Abstracted: one race; the number of awards does not change while the ceremony is up;
React's batching. Left out: names, cameras, identify, scenes (several
assignments in one).

**Bounds.** Two generators: the live one and one that lingers. Three commands:
assign, step, and one more of any kind. Three awards, so that a step back and a step
too far both show. One loss of connection, one key press at the screen.

**Fairness.** Weak, for `Subscribe` (the client retries for ever),
`Deliver`, `Wake` (event loop), `End` (a closed socket is noticed) and the end of
a break. Deadlock is not checked: the bounds run out.

## 8. `SerialProxy`

The page that lends its serial port is a few asynchronous handlers over shared
references. A handler is represented by where it waits; what it does between two
awaits is one step. Promises that have settled go on before any other event
(`Settled`), as the browser's microtasks do.

| Variable | Code |
|---|---|
| `status` | the badge: disconnected, connecting, connected, error |
| `wsRef`, `link`, `detached` | the socket held; the state of each socket; those whose `onclose` was taken away |
| `portRef`, `port` | whether the page believes the port open, and whether it is |
| `reader`, `reading`, `writing` | the socket whose loop holds the reader's lock, `readingRef`, a command holds the writer's lock |
| `pressed`, `asked`, `shut` | where each press of Connect, each `open` request of each socket and each `onclose` waits |
| `answered` | the requests each socket said `ready` to |
| `mishaps` | history: the port was let go of in the middle of a command, or opened for a socket that had closed meanwhile |

`proxy_page` checks that at rest, when no handler is on its way, the page knows
whether it has the port open (`PortIsNotStranded`) and "connected" means that a
socket is up (`BadgeIsTrue`); that the server's request is answered, or its socket
ends (`RequestIsAnswered`), and that "connecting", during which the button cannot
be pressed, ends (`ConnectingEnds`). That a read loop has an open socket
(`LockHasASocket`) is proved.
The two mishaps that the invariants except are in the code as it is; section 13
names them.

**Bounds.** Two presses, so that a socket is replaced; two framings, so that the
port is closed and opened again; four faults out of sockets closed or lost, a
device unplugged or refusing, a late answer. Three presses with two faults, 967
thousand states, also pass. Deadlock is not checked: people stop pressing.

**Fairness.** Weak, for every handler that waits for a promise (promises settle),
for sockets (they open or fail), for the person at the browser's port dialog (it is
modal: they choose or dismiss), and for the server beginning its walk over
framings. None for presses, faults and commands.

Left out: the server's registry of proxies, unmounting the page, several tracks,
bytes and framing.

## 9. `GrowingRound` and `HeatChunks`

A round of either style is drawn as it is raced. `HeatChunks` is the arithmetic of
`domain/heat_chunks.py`: how many cars sit a set of heats out, and how the rest are
cut into heats that differ by one car at most. `GrowingRound` is the round: an
elimination round, which grows by a wave of those who have lost fewer than `goal`
heats, or a balanced one, which grows by a phase of everybody, best record first,
until somebody has been in `goal` heats.

| Variable | Code |
|---|---|
| `round` | which of the configured rounds this behaviour is: style, goal, lanes, latecomers, movers, how often anything but racing happens, the optional operations; chosen once |
| `heats` | the heats in order. `cars` on the lanes of the heat (`Nobody` on a vacated one), `order` of those who finished, `dnf` for those who did not and `zeroed` if they are stored with the place 0, `passed` for a skipped heat, `wave` for the set it was drawn with |
| `disrupted` | `Round.disrupted`: set aside from a POINTS sum |
| `checkedIn`, `usable` | the cars on the roster and the lanes in service |
| `changes` | how often anything but racing has happened, a bound |

Records (losses, wins, points per heat) are read back from the heats each time, as
the code does. The shuffle of cars with equal records is every order that respects
the records (`Orders`); the lanes of a balanced heat are every assignment that gives
each lane to a car that has used it least (`Seatings`). `Extend` ends each operation
that ends so in the code, and draws only when no heat waits, the round is not
decided, and two cars and two lanes are there. The operations are `Race`, `Correct`,
`RecordPart`, `Clear`, `Skip`, `CheckOut` and `CheckIn` over `Sweep`,
`SetLaneOutages`, `DeleteHeat`, `RegenerateRound`.

| Run | Instance | Shows |
|---|---|---|
| `grow_rounds` | eight rounds of up to four cars on two or three lanes: single and double elimination, one to three phases, each with some of a latecomer, a withdrawal, a return, a lost lane, cars that do not finish, heats skipped, corrected, half entered, run again, deleted, drawn again | a draw, a withdrawal or an outage never leaves a car by itself in a heat that waits (`NobodyRacesAlone`); a balanced round that counts gave its cars as many heats each (`UnevenRoundIsSetAside`); racing what there is to race ends the round (`RoundEnds`) |
| `grow_dnf` | three cars on two lanes, any of which may not finish | violation, section 13 |

**Bounds.** Four cars on two lanes is the least field with a second wave that is not
decided at once; on three lanes the least that is cut into two heats; three of
them on two lanes, after a withdrawal, the least with a bye. One change at each moment of
a round finds what an operation does to it; two (a withdrawal and a return, a
withdrawal and an outage) what the second does to the traces of the first.

**Fairness.** Weak, for `Race`: heats that wait are run, in any order. Nothing else
has to happen. Deadlock is not checked, because a decided round of which nothing is
changed any more has stopped.

`RoundEnds` speaks of rounds with one change and without deletions. Two changes may
undo each other, and a deleted last heat draws nothing: the round then stalls with
two cars in contention. Section 13 names these. It also accepts a round that cannot
go on (`Halted`): fewer than two lanes or cars, or a heat of which only some lanes
were entered.

A balanced round's number of phases is always stored: `create_round` refuses less
than one and stores the number of lanes when none is given
(`schema.py:7602`, `crud.py:1861`), and a round made from a plan goes the same way. The
column is null for rounds of other styles only, so that `extend` and
`is_round_complete` fall back on different numbers (`crud.py:2436`, `3811`) is never
seen.

Left out: deleting racers, dead heats, the standings of an elimination round as a
display shows them, the running-order numbers.

## 10. What is proved

`TimerManagerProofs`, for every set of lanes, racers, heats and line-ups and for
every profile:

* `TypeCorrect`: `Spec => []TypeOK`.
* `NeverRacingForNothing`: `Spec => []ArmedForSomething`. Inductive as it stands;
  the interesting steps are an event in `CONNECTED`, which goes back to `ARMED`
  only with a heat, and recording, which leaves the run on every path.
* `ArmedHeatStaysCurrent`: `Spec => []ArmedHeatIsCurrent`, strengthened by
  `ExhibitionsStayAnonymous`, because a free heat's resolver owes no revalidation.
* `RunsAgree`: `Spec => []RunInv`, assuming `ClearsTrack`. `RunInv` says that from
  arming to recording four things agree: the lanes waited for are those of the
  armed line-up; the cars on the track and the results already in are those of
  the armed line-up; whatever waits or is still owed is of a run made since the
  operator armed, in a heat that a reboot has armed again as well; every recorded
  time is of the car drawn there. The property wanted
  is only about the last of them, and the others are what carries it from one
  step to the next: a stamp enters `pending` from `cars`, and `result` from
  `pending`, and each hand-over needs the two sides to agree. Recording relies on
  `_armed_heat_is_stale` having compared the row with the armed line-up.
* `RecordedTimesFollowTheCar`, `EmptyLanesHaveNoTimes`, `ResultsAreNeverLeftOver`
  (`ResultsAreOfThisArming`): consequences of `RunInv`. That the times are of *one* run
  is not among them, for it is not true (section 13).
* `ImplementsTheBook`: `Spec => HeatBook!Spec` under the mapping of section 3,
  assuming `ClearsTrack`. The initial states map to initial states; a step that
  records maps to `Record`, and it needs `RunInv` in the state it starts from, for
  the run and the car of each time; a drop of the gate maps to `Race`; every other
  step maps to one of the other actions or leaves the book alone.

`SerialProxyProofs`, for any number of presses, requests and faults:

* `ProxyIsKnown`: the inductive invariant `ProxyInv`. The properties wanted speak
  of moments at rest, when no handler is under way; the invariant says who is
  responsible for the port in between. `ReaderHoldsPort`: a read loop means an
  open port. `OneWaitsForThePort`: the port is opening or closing exactly when one
  handler waits for it, which is why two closes cannot both go through.
  `SocketsAreKnown`: a socket is made by its own press, closes once, and a detached
  one is not open; without "closes once" a second close event could take the port
  from the handler that waits for it. `ReaderIsKnown`, `PortIsKnown` and
  `BadgeIsKnown`: a loop, an open port, a badge that says connected is accounted
  for by an open socket, by a handler that has yet to let it go, or by a mishap.
* `ProxyTypeCorrect`, `PortIsNeverStranded`, `LockAlwaysHasASocket`,
  `BadgeIsAlwaysTrue`: the invariants of `proxy_page`, from `ProxyInv`.

`HeatChunksProofs`, for every field and every track of two lanes or more:

* `ByesBounded`: on three lanes or more nobody sits out, on two the odd one does. On
  three lanes the fewest heats that hold a field have two cars each at least.
* `ChunkHeatsFit`: every heat has at least two cars and no more than there are
  lanes, and the heats hold distinct cars: the cars before a heat are as many as
  the sizes of the heats before it.
* `ChunkHeatsCover`: on three lanes or more nobody of the field is left out, because
  each place of the order lies in the stretch of one heat (`EveryPlaceIsInAHeat`).

`GrowingRoundProofs`, for any roster and any round, by one lemma per action:

* `TypeCorrect`: `Spec => []TypeOK`, strengthened by `IInv`. It says that a heat is
  `Sound` (results are of its cars, each in one place, and none of a heat that was
  passed over), and bounds `wave` by the number of heats and the changes so far:
  a draw is one wave after the last heat and adds a heat, and only `DeleteHeat`
  takes one away, each time at the cost of a change.
* `NobodyAlone`: `Spec => NobodyRacesAlone`. Every heat of a step's outcome is drawn
  (two cars or more, from `ChunkHeatsFit`), was there with the same cars and wave,
  or was thinned, and a thinned heat with fewer than two cars is passed over. It
  needs `IInv` for the lanes in service, which are distinct.
* `UnevenRoundsAreSetAside`: `Spec => [](Steady \/ OnePhase => UnevenRoundIsSetAside)`.
  The property speaks of a round that is complete; `LevelInv` says what is true while
  it is raced: whoever is there and was drawn has been drawn as often as the others
  (`Level`), unless the round is set aside. A draw puts everybody of the field in one
  heat (`DrawsSeat`, from `ChunkHeatsFit`, `ChunkHeatsCover` and the order being a
  permutation of the field), so growing adds one to each and stays level, unless
  somebody joins who was not drawn before, and that is what `Uneven` looks for
  (`GrowingKeepsLevel`). Whoever withdraws leaves the counts of those who stay
  (`ThinningKeeps`), and a latecomer has not been drawn before they arrive
  (`Present`). A `Steady` round has three lanes or more, none of which is lost; nobody
  who left it comes back and no heat is deleted. A round of one phase (`OnePhase`)
  needs none of that: nobody is ever in two of its heats (`Once`). TLC agreed with
  `LevelInv` on the rounds of `grow_rounds` before it was proved.

`LiveFeedProofs`, for any number of heats, results and faults:

* `FeedIsFollowed`: the inductive invariant. Of a heat with nothing left to publish,
  the last event is in the generator's queue, on the wire, or merged, and wherever
  it is it carries the version stored, unless it went to nobody (`Followed`). It
  needs that a subscription is of the socket that is open, that a dead link carries
  nothing, and that what queues up behind a dead link counts as missed.
* `TypeCorrect` and `NothingIsLost` (`Spec => []NothingIsLostWhileConnected`): from it.

`DisplaysProofs`, for any number of generators, commands, losses and keys:

* `StepsAreRanked`: the inductive invariant. `NoStepIsTakenTwice` alone says nothing
  of what is on its way, so each payload on the wire is given a rank: how many steps
  the ceremony may have taken once it has been delivered, forwards or backwards.
  Ranks run from the steps taken to the steps asked for and go up with every payload
  that is a step to the one before it (`Ranked`), so that delivering one never makes
  the page take a step nobody asked for. Where the steps lead is another matter, and
  fails (`NeverOvertakes`, section 13).
* `TypeCorrect`, `PresenceIsTrue` (`NoPhantomConnection`) and `NoStepIsRepeated`
  (`NoStepIsTakenTwice`): from it.

`AdvancementProofs`, for every roster, plan of rounds, track and set of races, by one
lemma per step and per request:

* `Invariant`: `Spec => []IInv`. Besides the types (`Scalars`, `Shape`: a round is a
  sequence of heats over lanes of the track, a request is a sequence of steps for
  rounds there are) it says that a heat that still waits for a racer has no result
  (`Settled`); without it, filling slots could rewrite a heat that was raced. What
  the steps write is one of few things: a draw nobody has raced (`Fresh`), in a
  round that `MayRebuild`; the same heats with those that were not raced rewritten
  (`RewrittenSucceeds`); or heats added behind (`AdmittedSucceeds`).
* `TypeCorrect`: `Spec => []TypeOK`.
* `RacedHeatsAreKept`: `Spec => RacedHeatsStand`, because each version of a round
  that takes the place of another keeps the raced heats of it (`Succeeds`), and a
  round that is deleted has none.

* `AbsentCarsStayOut`: `Spec => AbsentCarsAreNotDrawn`, and `PicksAreKept`:
  `Spec => PickStands`. Both rest on `StepsForm`: whatever the step, a round that was
  there is rewritten in one of seven ways (`Rewritten`: drawn for its slots or its
  roster, filled, thinned out, added to, shortened by a heat, picked by hand), and a
  new one is drawn. That needs `Fitting`: a request has only steps left that its
  rounds allow, none that resets or advances a pinned round.
* `NobodyIsDrawnTwice`: `Spec => []NobodyRacesThemself`, and `RoundsAreNotHalfFilled`:
  `Spec => []NoHalfFilledRound`. From `Apt`. A round is `Sound`: no heat seats anybody
  twice, and either no heat has a slot or every heat has, and no racer. Filling is by
  slot number, so this is kept only if the slots are the first ones (`Numbered`) or
  each heat has all of them (`Full`); a refill of a round that came out short breaks
  `Numbered` in between, and `Ready` says that no step fills such a round before
  the same request has reset it. That one draw is sound is arithmetic of the
  rotation: two lanes of a heat seat the same car only if their distance divides by
  the size of the field.
* `RipeRoundsAreFilled`: `Spec => []RipeRoundIsFilled`, from `Ripe`, which speaks of the
  moments in the middle of a cascade: every round that is due has a step left in
  `todo` that will fill it (`Promised`), and every reset has one after it (`Orderly`).
  That a fill does not come up empty needs the round before to have somebody in
  every heat (`Manned`), who is checked in (`Crews`), and every round to draw on one
  that is there and before it (`Sources`).
* `RunsStand`: `Spec => []RunsAreKept`, from `RunsHeld`. The runs of a round are stored
  nowhere: each redraw divides the heats by the slots or the participants. They
  come out the same because a draw seats every participant it is given
  (`DrawSeatsAll`), no more advance than were asked for (`WinnersAreFew`), and the
  heats of a short field do not divide by the slots (`ShortFieldsShow`).
* `UnracedFieldsAreCurrent`: `Spec => [](Layered => UnracedFieldIsCurrent)`. In the
  middle of a cascade line-ups are out of date, so `Covered` says of every unraced
  final that waits for the standings: it holds nobody, or exactly those who would
  advance now, or a step left in `todo` will draw it again (a reset, a lane laid out
  again, or a withdrawal of somebody it holds). That a step keeps this comes down to
  who counts for a final and how they rank. What a step does to a round is `Alike` for
  the standings, or is done to a final nobody has raced, whose heats score nothing
  (`SettleMoves`), so the winners stand (`WinnersStand`); and when cars leave, those
  who stay and were among the first still are, in a ranking that lost only others
  (`FirstStay`). The rest, `Settling`, is what that needs: qualifying rounds come first
  (`Layers`) and hold everybody checked in (`Crewed`), so that redrawing one puts
  nobody on the leaderboard; a final has all its slots or none (`Slotted`), so that
  filling it seats all who advance; where nobody advances, skips or picks by hand, a
  final with racers draws on a round that is raced (`Taken`), so a chain of finals is
  not redrawn under the last one; and the sweep of an outage goes through the rounds
  in order (`Swept`), with two cars left to race (`Enough`). `Layered` is what makes
  `Layers` and `Crewed` last, in each plan and race; section 11 says what lies outside.

Everything is drawn for a field in some order, so the proof has to know that a
sorted sequence holds its set. The order is therefore defined by counting who is
ahead (`InOrder`); `EveryRankIsTaken` shows by a counting argument that every place is
somebody's, and `AheadRanks` that the standings put any two racers in an order.

`RaceScreenProofs`, for every schedule, every length of countdown and every day, by
one lemma per action:

* `Invariant`: `Spec => []IInv`, which relates five things: what the server has
  (`Stored`), what the page shows and has announced (`Shown`, `Truthful`), the state of
  the flow machine and the observation it saw last (`Followed`, `Abreast`), and the
  calls under way (`Called`). The machine is *abreast* of the page after every step:
  each ends in an observation, so a countdown is never left from a page that has
  since changed. A race summary is only sure to be of a finished race when no
  refetch is wanted (`Truthful`), which is what `SummaryIsTrue` claims too.
* `TypeCorrect`, `SummariesAreTrue` (`Spec => []SummaryIsTrue`), `CountdownsHaveReason`
  (`Spec => []CountdownHasReason`) and `HeatsStayOnScreen` (`Spec =>
  HeatOnScreenIsPinned`): from it. Of the last: only
  a refetch and an event bring the page a new copy of the race, and both keep the
  heat on screen if it is still listed. Looking for the invariant showed that an
  event, as first modelled, could take a heat that was deleted off the page's list,
  which no event does; `Payload` is the correction.

The assumptions are the named `ASSUME`s of `TimerManager` (line-ups are line-ups,
`NoHeat` is no heat, there is a lane, profile flags are Boolean), of
`SerialProxy` (the bounds are natural numbers), of `LiveFeed` and `Displays` (their
bounds, and that what stands for nothing is no socket, row or number), of `GrowingRound`
(racers are positive numbers and finitely many; a round has a style, two lanes and
two cars), of `Advancement` (two or more racers, finitely many; a round draws on
one before it; a race asks for at least one car and one run) and of `RaceScreen`
(heats are positive numbers and finitely many; every heat has a round; a day begins
with a heat, and those appended later are others; a countdown lasts a second or
more; advancing by itself is on or off).

## 11. What is only model-checked

* Liveness, which is outside what the prover does, and the violations.
* `UnracedFieldIsCurrent` of `Advancement` in races that are not `Layered`. It is false
  of some of them (section 13): where a qualifying round comes behind a final, by plan
  or created, and where a round that lost a car with its lane is redrawn by hand and
  gets it back. Of the others nothing is known beyond small instances, in which TLC
  finds no counterexample: lanes that fail in a race that cars leave, or of fewer than
  two cars; rounds created and deleted in one race; and a final of a final that is
  advanced, skipped or picked by hand. There the invariant above is not inductive,
  and the one that would be has to follow each final through its own source.
* `UnevenRoundIsSetAside` of `GrowingRound` in rounds of two phases or more that are
  not `Steady`; `grow_rounds` has one, which may lose a lane. It is not true of all of
  them, and section 13 names the ones it fails for.

## 12. Checking it

In this directory, for example:

    tlc -workers 2 -config TimerSerial.cfg MCTimerManager
    tlc -workers 2 -config AdvRaces.cfg MCAdvancement
    tlc -workers 2 -config ScreenDay.cfg MCRaceScreen
    tlc -workers 2 -config DisplaysEvent.cfg MCDisplays
    tlc -workers 2 -config FeedLive.cfg LiveFeed
    tlc -workers 2 -config ProxyPage.cfg SerialProxy
    tlc -workers 2 -config GrowRounds.cfg MCGrowingRound
    tlapm TimerManagerProofs.tla
    tlapm SerialProxyProofs.tla
    tlapm HeatChunksProofs.tla
    tlapm GrowingRoundProofs.tla
    tlapm LiveFeedProofs.tla
    tlapm DisplaysProofs.tla
    tlapm AdvancementProofs.tla
    tlapm RaceScreenProofs.tla

`PROJECT.json` names the module and configuration of each run. Each takes a few
minutes at most. Operators commented as *Mutant* are deliberately wrong variants of
the definition below them; substituting one makes the property named in
`PROJECT.json` fail, which shows that the property can.

## 13. Findings

* **A heat can be swapped under running cars** (`RunIsNotSwapped`). The refusal of
  `prepareHeat` goes by the state, and without a start signal the state is still
  ARMED while the cars run. The docstring names timers with no start signal as the
  reason for the refusal.
* **Two steps of a ceremony become one** (`EveryStepIsTaken`). The queue keeps both
  doorbells, but a generator that wakes reads the row as it is by then, so both
  deliver the second step's counter. `schema.py:8330` and `pubsub.py:121` say that
  the unbounded queue is what keeps two steps two.
* **A car that does not finish wins its elimination heat** (`DnfIsALoss`). A lane
  result without a place is read with the place 0, a time of zero is passed over when
  the places are recalculated, and the 0 is stored; the least place wins the heat.
  `elimination.py:21` says "A DNF is a loss."

Seen on the way in the backend, without a run of their own; where an instance is
named, the property fails there without the condition that excepts the operation.

| What | Where | Instance and property |
|---|---|---|
| A reboot mixes two runs of a heat. A device that identifies itself in the middle of a run is taken to have rebooted, and the heat is armed again by itself so that its cars can be run again, but nothing on that path clears `_pending_results`: the second run completes what the first one left, and the heat is recorded with times of both. `domain/heat_session.py:118` says of a re-run the operator asks for that last time's times must not linger while this time's arrive. | `backend/services/timer/manager.py:1155` | `timer_live` with `OneRunAtATime` |
| A Previous and a Next reveal an award. The row of a display holds the last step only; if both clicks land before the generator wakes, the screen sees one Next and goes an award past the one the two steps lead to. | `backend/api/schema.py:8354`, `backend/services/displays.py:77` | `displays_steps` with `NeverOvertakes` |
| A bench test disarms an overdue heat: `startTimerTest` lists the busy states and forgets RESULTS_OVERDUE, and the times already in are dropped, against `docs/reference/timers.md:123`. | `backend/api/schema.py:6410` | |
| A run entered by a first lane result has no clock and never goes overdue. | `backend/services/timer/manager.py:1285` | |
| Abort, reset and re-arming leave `_running_since` set, so the next heat may go overdue early. | `backend/services/timer/manager.py:637` | `timer_serial`: `state = "ARMED"` with `clocked` |
| A correction resets the final fed by a complete round 2; the trigger then looks at round 1, no longer complete, and returns. The final waits although its own source is decided. | `backend/db/crud.py:3874` | |
| A withdrawal empties the last heats to come and so completes their round; only a result triggers advancement. | `backend/db/crud.py:3538` | `adv_races`: `RipeRoundIsFilled`, `"withdraw"` |
| Deleting the last pending heat completes its round and triggers nothing. | `backend/db/crud.py:2120` | `adv_races`: `RipeRoundIsFilled`, `"delete_heat"` |
| Deleting a round completes what lies before the next one and triggers nothing. | `backend/db/crud.py:2013` | `adv_races`: `RipeRoundIsFilled`, `"delete_round"` |
| Excluding every qualifier and taking one back leaves a final that could be filled on placeholders: `setExcludedFromStandings` asks for nothing. | `backend/db/crud.py:4628` | `adv_races`: `RipeRoundIsFilled`, `"exclude"` |
| A crash between two commits of a cascade leaves rounds reset and not filled, or filled from old results; nothing takes a cascade up again after a restart. | `backend/db/crud.py:3730` | `adv_races`: `RipeRoundIsFilled` or `UnracedFieldIsCurrent`, `"crash"` |
| An outage puts a filled, unraced final back on placeholders and does not ask for it to be filled, as `regenerateRound` does. | `backend/db/crud.py:3199` | `adv_races`: `RipeRoundIsFilled`, `"outage"` |
| A qualifier checked out by mistake and back in does not get the place in the final back. | `backend/db/crud.py:3291` | `adv_races`: `UnracedFieldIsCurrent`, `"check_back_in"` |
| A final that went stale while it was raced keeps its line-up when its results are cleared. | `backend/db/crud.py:3744` | `adv_races`: `UnracedFieldIsCurrent`, `"clear_final"` |
| A general round created behind a final feeds the standings the final was drawn from; its results take back only rounds behind it, and the final keeps its line-up. | `backend/db/crud.py:3730` | `adv_races` with `{"create", "run_off"}` and `General` offered: `UnracedFieldIsCurrent` |
| Deleting the only heats a car has in a qualifying round takes it off the leaderboard, and draws no final again that was advanced by hand. | `backend/db/crud.py:2120` | `adv_races` with `{"delete_heat", "advance"}`: `UnracedFieldIsCurrent` without `"delete_heat"` |
| Heats of a qualifying round that lost all their cars with a failed lane count as done; when its results are cleared and it is regenerated, those cars are back on the leaderboard, and a final that was advanced by hand in between is not drawn again. | `backend/api/schema.py:6154` | `adv_races` with two cars, a final of two, a `room` of three heats and `{"outage", "regenerate", "advance"}`: `UnracedFieldIsCurrent` |
| A round whose heats were all skipped can be deleted although a final draws on it: the final keeps its source and its line-up, and ranks nobody from then on. | `backend/db/crud.py:2013` | |
| Excluding a qualifier leaves them in the unraced final. | `backend/db/crud.py:4628` | `adv_races`: `UnracedFieldIsCurrent`, `"exclude"` |
| Regenerating a hand-picked round drops the pick and leaves a pinned round nobody fills. | `backend/api/schema.py:6154` | `adv_races`: `PickStands`, `"regenerate"` |
| A lane taken out of service puts a hand-picked round that has not been raced back on placeholders, and it stays pinned: nobody fills it. | `backend/db/crud.py:3195` | `adv_races`: `PickStands`, `"outage"` |
| Picking the field of a final of one by hand and handing it back changes its runs. | `backend/db/crud.py:2731` | `adv_races`: `RunsAreKept`, `"pin"` |
| A short final of two runs is reset in place as one of a single run when its heats happen to divide by its slots. | `backend/db/crud.py:3700` | `adv_races` with a final of four in `TwoRuns`: `RunsAreKept` without `ShortFieldsShow` |
| Heats of a final with more cars than lanes are deleted, then `advanceRound` fills it: whether the field is short is counted by the slots that are left, and filling goes by slot number, so a slot past the field stays open among racers, and its heat can be neither run nor skipped. | `backend/domain/advancement.py:431` | `adv_races` with a final of three and `{"delete_heat", "advance"}`: `NoHalfFilledRound` without `DeletedThenFilled` |
| A slot that such a refill left open is filled by the next one. If an exclusion has moved the ranks in between, the car that is now third may be in the heat already, and has two lanes of it. | `backend/db/crud.py:2690` | `adv_races` with a final of three and `{"delete_heat", "advance", "exclude"}`: `NobodyRacesThemself` without `DeletedThenFilled` |
| A latecomer's heats can be filled with a car that has been withdrawn. | `backend/db/crud.py:3360` | `adv_races`: `AbsentCarsAreNotDrawn` without `FillsLateHeats` |
| Runs are divided out of the heats of a round, so one that lost half of its racers is rebuilt with a run more than it had. | `backend/db/crud.py:2593` | |
| A balanced round is compared for missed phases only while a later one is drawn. A car that was out for the last phase and is back at its end, a deleted heat, and the odd car of a last phase on two lanes, after a withdrawal or with a lane lost that no waiting heat uses, leave the round uneven and in the POINTS sum. | `backend/db/crud.py:2463` | `grow_rounds` with a round of two phases: `UnevenRoundIsSetAside`, on three lanes with `"return"` and two changes, or `"delete_heat"`, or `"outage"` and two changes; on two lanes with one withdrawal |
| A growing round stalls with cars in contention: after a car was checked out by mistake and back in, a lane lost and returned, a latecomer to a balanced round that was left with one car, or the deletion of the last heat that waits. Only a result asks for more heats, and there is none to run. `crud.py:3420`, `schema.py:4426` and `docs/reference/mid-race-changes.md:60` say that it heals itself. | `backend/db/crud.py:3513` | `grow_rounds`: `RoundEnds` with two changes, or with `"delete_heat"` |
| In a single elimination of three cars on two lanes the first heat decides the round: `is_decided` looks only at cars that were in a heat, and the one that sat out never races. `elimination.py:27` says that it rejoins the next wave. | `backend/domain/elimination.py:133` | |
| Not everybody in a balanced round races the same number of times when a car sits out each phase; `docs/race-day.md:314` and `docs/reference/round-styles.md:41` say that they do. | `backend/domain/heat_chunks.py:40` | |
| A correction publishes the heat it wrote; the later rounds that its cascade takes back or redraws are told by no event, and another tab keeps showing their old cars. `RaceControl.tsx:163` says that every open tab is kept in sync. | `backend/api/schema.py:6651` | |
| A heat that was armed and then recorded by hand with its cars unchanged stays armed, and its run overwrites what was typed; `merge` in `domain/heat_session.py` calls what the timer holds by then superseded. | `backend/services/timer/manager.py:1492` | |
| After a display was forgotten, a lingering generator of the old row can take the count of the screen that came back to 0. | `backend/services/displays.py` | `NoPhantomConnection` is an upper bound for this reason |
| A second connection takes a timer's proxy over while the first one's `finally` is still closing: with three connections the last can be closed by the first. | `backend/api/main.py:1364` | |
| `updateHeatResult` of a heat that was deleted answers no error. | `backend/api/schema.py:6651` | |
| `heatSession` without a heat follows the race channel only if a heat was active when it subscribed. | `backend/api/schema.py` | |

And in the frontend:

| What | Where |
|---|---|
| The result editor writes to the heat now on screen, which need not be the one its lanes were read from. | `RaceExecution.tsx:699`, `backend/db/crud.py:3936` |
| Skip captures the heat, its lanes and the next heat before it asks for confirmation; what changes during the question is overwritten, and the screen may be sent back. | `RaceExecution.tsx:706` |
| After a tab switch, a reload or on a second screen the flow arms the heat on screen, which abandons one that is running elsewhere. | `raceFlow.ts:228`, `backend/api/schema.py:6488` |
| A heat is armed by the flow once: after a refusal, an abort or a disconnect it stays unarmed until the heat on screen changes. | `raceFlow.ts`, `prepared` |
| Space pressed twice while the session is stale passes over a heat that has not run. Space and E also act behind a dialog. | `RaceExecution.tsx`, `docs/race-day.md:510` |
| A dialog that replaces a pending confirmation answers it with yes. | `showAlert` |
| A summary that was dismissed comes back after a tab switch; of two rounds decided in one refetch only the first is announced. | `RaceControl.tsx:367` |
| After a countdown was cancelled a re-run of the same heat gets none. | `raceFlow.ts:228` |
| The badge of the serial proxy says connected when the port opens after its socket has closed (`"late"`). | `SerialProxyContext.tsx:221` |
| The port stays open when it is let go of in the middle of a command, and a command that fails never gives the writer back (`"cut off"`). | `SerialProxyContext.tsx:236` |
| A command that arrives while another is being written is dropped. | `SerialProxyContext.tsx:236` |
| The message of a refused port is wiped by the close that follows it, and a socket that was replaced still sets the badge. | `SerialProxyContext.tsx:228`, `:268` |

## 14. What is not modelled

* What section 2 lists as left: the handlers outside the event lock, the
  acknowledgement queue, gate belief, the registry of proxies and the probe,
  the running order, the race lock, the intermission itself.
* The algorithms that are data to every module here: times, points, dropped runs,
  tie-breaks, roll-down, the balanced-lane scheduler, the lane codec.
* Byte framing and the matchers of the device profiles (parsing), importers,
  printables, image processing, statistics, backup (I/O with little control),
  replays, persistence, authentication and audit, and the pages that only render.
