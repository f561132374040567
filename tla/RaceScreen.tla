----------------------------- MODULE RaceScreen -----------------------------
(***************************************************************************)
(* The operator's race screen: RaceControl holds the race as the last      *)
(* refetch answered it and the heat on screen, RaceExecution holds the     *)
(* live session of that heat, and raceFlow is the machine that arms the    *)
(* timer, counts down to the next heat and raises the summaries.  The      *)
(* server and the timer are modelled by what the screen can tell of them:  *)
(* the outcome of every heat, the cascade behind a result, and which heat  *)
(* is armed or running.                                                    *)
(*                                                                         *)
(* What makes it hard: the page reads two copies of the server, the race   *)
(* and the session, each refreshed in its own time; a call is answered     *)
(* after the page has moved on; and the operator, the countdown, the timer *)
(* and other browsers all act in between.                                  *)
(***************************************************************************)
EXTENDS Naturals, FiniteSetsExt

CONSTANTS
    Heats,        \* every heat the race may ever hold, numbered in running order
    RoundOf,      \* the round of a heat; round 0 is the general one
    Added,        \* the heats of championship rounds that may be appended later
    Seconds,      \* AUTO_ADVANCE_SECONDS, scaled down
    AutoAdvance,  \* the race's autoAdvanceHeat setting
    Modes         \* the days looked at: the heats drawn when the page opens, and
                  \* the names of the optional steps that occur

ASSUME HeatsAssumption == Heats \subseteq Nat \ {0} /\ IsFiniteSet(Heats)
ASSUME RoundAssumption == RoundOf \in [Heats -> Nat]
ASSUME AddedAssumption == Added \subseteq Heats
ASSUME ModesAssumption ==
    \A m \in Modes : m.drawn \subseteq Heats \ Added /\ m.drawn # {}
ASSUME SecondsAssumption == Seconds \in Nat \ {0}
ASSUME AutoAdvanceAssumption == AutoAdvance \in BOOLEAN

NoHeat == 0
NoRound == 0
NoSession == [phase |-> "NO_HEAT", idle |-> TRUE]   \* and an IDLE timer

\* What the lanes of a heat say: not in the schedule, waiting for its field,
\* fielded, raced, or passed over.
Outcomes == {"absent", "slot", "empty", "timed", "skipped"}
Phases == {"NOT_READY", "WAITING", "RUNNING", "RECORDED"}
Screens == {"WATCHING", "COUNTING_DOWN", "ROUND_SUMMARY", "RACE_SUMMARY"}

VARIABLES
    result,    \* the heats' outcomes as stored by the server
    timer,     \* the device: [state, heat]
    page,      \* RaceControl: its copy of the race and what it keeps about it
    session,   \* RaceExecution's copy of heatSession, or NoSession
    flow,      \* the state of raceFlow's machine
    mounted,   \* whether the Race tab, and so RaceExecution, is up
    editing,   \* the heat whose lanes the result editor was filled from
    asking,    \* the skip confirmation on screen: [heat, next]
    save,      \* the updateHeatResult call under way: [kind, heat, of, next]
    arming,    \* heats of the prepareHeat calls under way
    aborting,  \* whether an abortHeat call is under way
    due,       \* whether the race is to be fetched again, or being fetched
    merges,    \* heats whose new result is on its way as an event
    day        \* the one of Modes this behaviour is about, chosen once

server == <<result, timer>>
calls == <<save, arming, aborting>>
feed == <<due, merges>>
vars == <<result, timer, page, session, flow, mounted, editing, asking, calls, feed, day>>

-----------------------------------------------------------------------------
(* A schedule: the outcomes of the heats, on the server or in the page.    *)

HasRun(outcome) == outcome \in {"timed", "skipped"}
Listed(v) == {h \in Heats : v[h] # "absent"}
Unfinished(v) == {h \in Listed(v) : ~HasRun(v[h])}

\* nextExecutionHeat: the first heat after this one that has not run.
NextAfter(v, h) ==
    LET later == {g \in Unfinished(v) : g > h}
    IN  IF later = {} THEN NoHeat ELSE Min(later)

\* Mutant: the screen follows the race and forgets the choice.
OnScreenAdrift(v, chosen) ==
    IF Unfinished(v) # {} THEN Min(Unfinished(v)) ELSE Max(Listed(v))

\* activeExecutionHeat: the operator's choice while it exists, else where the
\* race is up to, else the last heat.
OnScreen(v, chosen) ==
    IF chosen \in Listed(v) THEN chosen
    ELSE IF Unfinished(v) # {} THEN Min(Unfinished(v)) ELSE Max(Listed(v))

RaceComplete(v) == Listed(v) # {} /\ Unfinished(v) = {}

\* The rounds before r have all run, so that r's field can be drawn.
Ripe(v, r) == \A h \in Listed(v) : RoundOf[h] < r => HasRun(v[h])

\* decidedRoundIds: the championship rounds whose field has arrived.
Decided(v) ==
    {r \in {RoundOf[h] : h \in Listed(v)} \ {NoRound} :
        /\ Ripe(v, r)
        /\ \A h \in Listed(v) : RoundOf[h] = r => v[h] # "slot"}

-----------------------------------------------------------------------------
(* The server.                                                             *)

\* A result takes back the field of every later round that has not raced.
Rewritten(v, h) ==
    {g \in Listed(v) : /\ RoundOf[g] > RoundOf[h]
                       /\ \A k \in Heats : RoundOf[k] = RoundOf[g] => v[k] # "timed"}

\* record_heat_result: reset the later rounds, then fill those that are ripe.
Recorded(h, outcome) ==
    LET stored == [result EXCEPT ![h] = outcome]
        reset == [g \in Heats |-> IF g \in Rewritten(stored, h) THEN "slot" ELSE stored[g]]
    IN  [g \in Heats |->
            IF reset[g] = "slot" /\ Ripe(reset, RoundOf[g]) THEN "empty" ELSE reset[g]]

Idle == [state |-> "IDLE", heat |-> NoHeat]

\* revalidate_armed_heat: a heat that lost its cars, or whose cars changed, is
\* disarmed.  A field drawn again may be the same one.
Revalidated(new, redrawn) ==
    IF timer.heat = NoHeat THEN {timer}
    ELSE IF new[timer.heat] \in {"slot", "absent"} THEN {Idle}
    ELSE IF timer.heat \in redrawn THEN {timer, Idle}
    ELSE {timer}

\* updateHeatResult, for lanes that were read from heat `of'.
Store(h, outcome, of) ==
    /\ result' = Recorded(h, outcome)
    /\ timer' \in IF timer.heat = h /\ of # h THEN {Idle}
                  ELSE Revalidated(result', Rewritten(result, h))

\* domain/heat_session.phase
PhaseOf(outcome, running) ==
    IF outcome = "slot" THEN "NOT_READY"
    ELSE IF HasRun(outcome) THEN "RECORDED"
    ELSE IF running THEN "RUNNING" ELSE "WAITING"

Snapshot(h) ==
    [phase |-> PhaseOf(result[h], timer.state = "RUNNING"), idle |-> timer.state = "IDLE"]

-----------------------------------------------------------------------------
(* raceFlow: the machine.  Its state is a record; an observation is a      *)
(* record of what the page shows it.                                       *)

InitialFlow ==
    [screen |-> "WATCHING", left |-> 0, prepared |-> NoHeat, summarised |-> NoRound,
     shown |-> {}, cancelled |-> NoHeat]

\* What the page shows the machine.  Without a session the page falls back on
\* the stored lanes and an IDLE timer.
Observation(p, s) ==
    [heat  |-> p.selected,
     phase |-> IF s = NoSession THEN PhaseOf(p.view[p.selected], FALSE) ELSE s.phase,
     idle  |-> s.idle,
     timed |-> p.view[p.selected] = "timed",
     next  |-> NextAfter(p.view, p.selected) # NoHeat,
     round |-> p.roundSummary,
     race  |-> p.raceSummary]

ShouldCountDown(o) == AutoAdvance /\ o.timed /\ o.next /\ o.phase # "NOT_READY"

\* Mutant: every observation starts the countdown again.
SettleAfresh(f, o) ==
    IF f.screen \in {"ROUND_SUMMARY", "RACE_SUMMARY"} THEN [f EXCEPT !.left = 0]
    ELSE IF f.cancelled = o.heat \/ ~ShouldCountDown(o)
         THEN [f EXCEPT !.screen = "WATCHING", !.left = 0]
    ELSE [f EXCEPT !.screen = "COUNTING_DOWN", !.left = Seconds]

\* Mutant: a countdown that was called off starts again.
SettleRegardless(f, o) ==
    IF f.screen \in {"ROUND_SUMMARY", "RACE_SUMMARY"} THEN [f EXCEPT !.left = 0]
    ELSE IF ~ShouldCountDown(o) THEN [f EXCEPT !.screen = "WATCHING", !.left = 0]
    ELSE IF f.screen = "COUNTING_DOWN" THEN f
    ELSE [f EXCEPT !.screen = "COUNTING_DOWN", !.left = Seconds]

\* Mutant: the countdown is one second too long.
SettleLong(f, o) ==
    IF f.screen \in {"ROUND_SUMMARY", "RACE_SUMMARY"} THEN [f EXCEPT !.left = 0]
    ELSE IF f.cancelled = o.heat \/ ~ShouldCountDown(o)
         THEN [f EXCEPT !.screen = "WATCHING", !.left = 0]
    ELSE IF f.screen = "COUNTING_DOWN" THEN f
    ELSE [f EXCEPT !.screen = "COUNTING_DOWN", !.left = Seconds + 1]

\* settle: a summary stays up; otherwise count down when there is reason to,
\* and leave a countdown that is already running alone.
Settle(f, o) ==
    IF f.screen \in {"ROUND_SUMMARY", "RACE_SUMMARY"} THEN [f EXCEPT !.left = 0]
    ELSE IF f.cancelled = o.heat \/ ~ShouldCountDown(o)
         THEN [f EXCEPT !.screen = "WATCHING", !.left = 0]
    ELSE IF f.screen = "COUNTING_DOWN" THEN f
    ELSE [f EXCEPT !.screen = "COUNTING_DOWN", !.left = Seconds]

\* Whether an observation arms the timer for the heat on screen.
Arms(f, o) == o.phase = "WAITING" /\ o.idle /\ o.heat # f.prepared

\* The screen after the summaries: a decided round is raised once, and dropped
\* when it stops being decided; so is a completed schedule, which is told from
\* another by its set of heats.
Raised(f, o) ==
    IF o.race # f.shown /\ o.race # {} THEN "RACE_SUMMARY"
    ELSE IF o.round # f.summarised /\ o.round # NoRound THEN "ROUND_SUMMARY"
    ELSE IF \/ f.screen = "ROUND_SUMMARY" /\ o.round = NoRound
            \/ f.screen = "RACE_SUMMARY" /\ o.race = {}
         THEN "WATCHING"
    ELSE f.screen

Observed(f, o) ==
    Settle([screen |-> Raised(f, o),
            left |-> f.left,
            prepared |-> IF o.phase = "RECORDED" THEN NoHeat
                         ELSE IF Arms(f, o) THEN o.heat ELSE f.prepared,
            summarised |-> o.round,
            shown |-> o.race,
            cancelled |-> IF f.cancelled = o.heat THEN o.heat ELSE NoHeat], o)

\* SUMMARY_DISMISSED and COUNTDOWN_CANCELLED; each does nothing on another
\* screen.
Dismissed(f, o) ==
    IF f.screen \in {"ROUND_SUMMARY", "RACE_SUMMARY"}
    THEN Settle([f EXCEPT !.screen = "WATCHING", !.left = 0], o) ELSE f

Cancelled(f, o) ==
    IF f.screen = "COUNTING_DOWN"
    THEN [f EXCEPT !.screen = "WATCHING", !.left = 0, !.cancelled = o.heat] ELSE f

-----------------------------------------------------------------------------
(* The page.                                                               *)

\* Mutant: one finished race is like another.
JustCompletedOnce(p, v) == RaceComplete(v) /\ ~p.finished

\* observeRaceComplete: a finished race is news unless it was seen finished,
\* over the same heats.
JustCompleted(p, v) ==
    RaceComplete(v) /\ (~p.finished \/ Listed(p.view) # Listed(v))

\* What RaceControl does with the heats it has: pin the one on screen, drop a
\* race summary that is no longer true, raise one that is news.
Noticed(p, v) ==
    [p EXCEPT !.view = v,
              !.selected = OnScreen(v, p.selected),
              !.finished = RaceComplete(v),
              !.raceSummary = IF JustCompleted(p, v) THEN Listed(v)
                              ELSE IF RaceComplete(v) THEN @ ELSE {}]

\* Mutant: a round summary stays when it is no longer true.
RefetchedSticky(p, v) ==
    [Noticed(p, v) EXCEPT
        !.decided = Decided(v),
        !.roundSummary = IF Decided(v) \ p.decided # {} THEN Min(Decided(v) \ p.decided) ELSE @]

\* An answer of the race query also says which rounds are decided now.
Refetched(p, v) ==
    [Noticed(p, v) EXCEPT
        !.decided = Decided(v),
        !.roundSummary = IF Decided(v) \ p.decided # {} THEN Min(Decided(v) \ p.decided)
                         ELSE IF @ \in Decided(v) THEN @ ELSE NoRound]

\* handleNextHeat, for a next heat read when the handler was made; it may have
\* been deleted since.
Advanced(p, next) ==
    [p EXCEPT !.roundSummary = NoRound,
              !.selected = IF next = NoHeat THEN @ ELSE OnScreen(p.view, next)]

Now == Observation(page, session)

\* The page re-renders as page' and session' say, with the machine in state f:
\* the machine is told if what it observes has changed, and may ask for the
\* heat on screen to be armed.
Show(f) ==
    /\ flow' = IF Now' # Now THEN Observed(f, Now') ELSE f
    /\ arming' = IF Now' # Now /\ Arms(f, Now') THEN arming \cup {page'.selected} ELSE arming

\* While the Race tab is down there is no machine to tell.
ShowIfUp(f) == IF mounted THEN Show(f) ELSE UNCHANGED <<flow, arming>>

\* RaceExecution comes up with no session, and a machine that has seen nothing.
\* Each change of tab fetches the race again.
Mount ==
    /\ mounted' = TRUE
    /\ due' = TRUE
    /\ session' = NoSession
    /\ flow' = Observed(InitialFlow, Now')
    /\ arming' = IF Arms(InitialFlow, Now') THEN arming \cup {page'.selected} ELSE arming

EditorOpen == editing # NoHeat
NoQuestion == [heat |-> NoHeat, next |-> NoHeat]
NoSave == [kind |-> "none", heat |-> NoHeat, of |-> NoHeat, next |-> NoHeat,
           answer |-> "pending"]

\* The Race tab is shown, whether it was up or not.
BringUp(f) == IF mounted THEN UNCHANGED <<mounted, session>> /\ Show(f) ELSE Mount

Opened(v) ==
    [view |-> v, selected |-> OnScreen(v, NoHeat),
     decided |-> Decided(v), finished |-> RaceComplete(v),
     roundSummary |-> NoRound, raceSummary |-> {}]

\* The race as it may stand when the page opens: nothing has run.
Init ==
    /\ day \in Modes
    /\ result = [h \in Heats |-> IF h \notin day.drawn THEN "absent"
                                 ELSE IF RoundOf[h] = NoRound THEN "empty" ELSE "slot"]
    /\ timer = Idle
    /\ page = Opened(result)
    /\ session = NoSession
    /\ mounted = TRUE
    /\ flow = Observed(InitialFlow, Now)
    /\ arming = IF Arms(InitialFlow, Now) THEN {page.selected} ELSE {}
    /\ editing = NoHeat
    /\ asking = NoQuestion
    /\ save = NoSave
    /\ aborting = FALSE
    /\ due = TRUE
    /\ merges = {}

-----------------------------------------------------------------------------
(* What reaches the page.                                                  *)

\* What a call of updateHeatResult writes.
Written == [edit |-> "timed", skip |-> "skipped", clear |-> "empty"]

\* A refetch is answered with the race as it stands.
Refetch ==
    /\ due
    /\ due' = FALSE
    /\ page' = Refetched(page, result)
    /\ UNCHANGED session
    /\ ShowIfUp(flow)
    /\ UNCHANGED <<server, mounted, editing, asking, save, aborting, merges, day>>

\* What an event says of its heat: what is stored by then or, of a heat that
\* was deleted since, one of the things it had been.
Payload(h) == IF result[h] = "absent" THEN Range(Written) ELSE {result[h]}

\* A HEAT_RESULT event: its heat goes into the cache and nothing is fetched; it
\* adds no heat to the list and takes none from it.
\* While a fetch is under way the heats change and nothing is made of it.
Merge(h) ==
    /\ h \in merges
    /\ merges' = merges \ {h}
    /\ \E outcome \in Payload(h) :
        LET v == IF h \in Listed(page.view)
                 THEN [page.view EXCEPT ![h] = outcome] ELSE page.view
        IN  page' = IF due THEN [page EXCEPT !.view = v] ELSE Noticed(page, v)
    /\ UNCHANGED session
    /\ ShowIfUp(flow)
    /\ UNCHANGED <<server, mounted, editing, asking, save, aborting, due, day>>

\* The subscription of the heat on screen delivers.  Until it does, the page
\* keeps what it had, which may be another heat's session.
SessionArrives ==
    /\ mounted
    /\ Snapshot(page.selected) # session
    /\ session' = Snapshot(page.selected)
    /\ UNCHANGED page
    /\ Show(flow)
    /\ UNCHANGED <<server, mounted, editing, asking, save, aborting, feed, day>>

\* The countdown's clock.
Tick ==
    /\ mounted
    /\ flow.screen = "COUNTING_DOWN"
    /\ UNCHANGED session
    /\ IF flow.left > 1
       THEN flow' = [flow EXCEPT !.left = @ - 1] /\ UNCHANGED <<page, arming>>
       ELSE /\ page' = Advanced(page, NextAfter(page.view, page.selected))
            /\ Show([flow EXCEPT !.screen = "WATCHING", !.left = 0])
    /\ UNCHANGED <<server, mounted, editing, asking, save, aborting, feed, day>>

-----------------------------------------------------------------------------
(* The operator.                                                           *)

Unattended == ~EditorOpen /\ flow.screen # "ROUND_SUMMARY"

\* Next Heat, and Space, which looks for no other dialog than these.
NextHeat ==
    /\ mounted /\ Unattended
    /\ Now.phase = "RECORDED" /\ Now.next
    /\ page' = Advanced(page, NextAfter(page.view, page.selected))
    /\ UNCHANGED session
    /\ Show(Cancelled(flow, Now))
    /\ UNCHANGED <<server, mounted, editing, asking, save, aborting, feed, day>>

CancelCountdown ==
    /\ mounted /\ ~EditorOpen
    /\ flow.screen = "COUNTING_DOWN"
    /\ flow' = Cancelled(flow, Now)
    /\ UNCHANGED <<server, page, session, mounted, editing, asking, calls, feed, day>>

DismissSummary ==
    /\ mounted
    /\ flow.screen \in {"ROUND_SUMMARY", "RACE_SUMMARY"}
    /\ flow' = Dismissed(flow, Now)
    /\ UNCHANGED <<server, page, session, mounted, editing, asking, calls, feed, day>>

\* Start Next Round, on the round summary.
StartNextRound ==
    /\ mounted
    /\ flow.screen = "ROUND_SUMMARY"
    /\ page' = Advanced(page, NextAfter(page.view, page.selected))
    /\ UNCHANGED session
    /\ Show(flow)
    /\ UNCHANGED <<server, mounted, editing, asking, save, aborting, feed, day>>

\* Edit, Override and E: the editor is filled from the lanes on screen.
OpenEditor ==
    /\ "edit" \in day.uses
    /\ mounted /\ Unattended
    /\ Now.phase \in {"RECORDED", "WAITING"}
    /\ editing' = page.selected
    /\ UNCHANGED <<server, page, session, flow, mounted, asking, calls, feed, day>>

CloseEditor ==
    /\ EditorOpen
    /\ editing' = NoHeat
    /\ UNCHANGED <<server, page, session, flow, mounted, asking, calls, feed, day>>

\* Save: what was typed is sent for the heat that is on screen now.
SaveEditor ==
    /\ mounted /\ EditorOpen
    /\ Now.phase # "NOT_READY"
    /\ save = NoSave
    /\ save' = [NoSave EXCEPT !.kind = "edit", !.heat = page.selected, !.of = editing]
    /\ UNCHANGED <<server, page, session, flow, mounted, editing, asking, arming,
                   aborting, feed, day>>

\* Skip Heat asks first.  What it will send, and where it will go, are read now.
AskSkip ==
    /\ "skip" \in day.uses
    /\ mounted /\ Unattended
    /\ Now.phase \in {"WAITING", "RUNNING"}
    /\ asking = NoQuestion
    /\ asking' = [heat |-> page.selected, next |-> NextAfter(page.view, page.selected)]
    /\ UNCHANGED <<server, page, session, flow, mounted, editing, calls, feed, day>>

DeclineSkip ==
    /\ asking # NoQuestion
    /\ asking' = NoQuestion
    /\ UNCHANGED <<server, page, session, flow, mounted, editing, calls, feed, day>>

ConfirmSkip ==
    /\ asking # NoQuestion
    /\ save = NoSave
    /\ asking' = NoQuestion
    /\ flow' = IF mounted THEN Cancelled(flow, Now) ELSE flow
    /\ save' = [NoSave EXCEPT !.kind = "skip", !.heat = asking.heat, !.of = asking.heat,
                              !.next = asking.next]
    /\ UNCHANGED <<server, page, session, mounted, editing, arming, aborting, feed, day>>

\* Run on a heat that has not run: it is the one on screen from here on.
RunHeat(h) ==
    /\ "jump" \in day.uses
    /\ Unattended
    /\ h \in Unfinished(page.view)
    /\ page' = [page EXCEPT !.selected = h]
    /\ due' = (due \/ ~mounted)
    /\ BringUp(flow)
    /\ UNCHANGED <<server, editing, asking, save, aborting, merges, day>>

\* Re-Run clears the heat first; it is shown once the server has answered.
\* The summaries offer it for a heat that was skipped, and close.
ReRunHeat(h) ==
    /\ "rerun" \in day.uses
    /\ ~EditorOpen
    /\ h \in Listed(page.view) /\ HasRun(page.view[h])
    /\ flow.screen \in {"ROUND_SUMMARY", "RACE_SUMMARY"} => page.view[h] = "skipped"
    /\ save = NoSave
    /\ flow' = IF mounted THEN Dismissed(flow, Now) ELSE flow
    /\ save' = [NoSave EXCEPT !.kind = "clear", !.heat = h, !.of = h]
    /\ UNCHANGED <<server, page, session, mounted, editing, asking, arming, aborting,
                   feed, day>>

\* Reset Heat arms the heat on screen again.
ResetHeat ==
    /\ "reset" \in day.uses
    /\ mounted /\ Unattended
    /\ Now.phase = "RUNNING"
    /\ arming' = arming \cup {page.selected}
    /\ UNCHANGED <<server, page, session, flow, mounted, editing, asking, save,
                   aborting, feed, day>>

\* Another tab of Race Control, and back.
LeaveTab ==
    /\ "leave" \in day.uses
    /\ mounted
    /\ mounted' = FALSE
    /\ session' = NoSession
    /\ flow' = InitialFlow
    /\ editing' = NoHeat
    /\ asking' = NoQuestion
    /\ due' = TRUE
    /\ UNCHANGED <<server, page, calls, merges, day>>

ReturnToTab ==
    /\ ~mounted
    /\ UNCHANGED page
    /\ Mount
    /\ UNCHANGED <<server, editing, asking, save, aborting, merges, day>>

\* The browser is reloaded: what the page knew is gone, with whatever was to
\* happen when a call is answered.
Reload ==
    /\ "reload" \in day.uses
    /\ page' = Opened(result)
    /\ Mount
    /\ editing' = NoHeat
    /\ asking' = NoQuestion
    /\ save' = NoSave
    /\ merges' = {}
    /\ UNCHANGED <<server, aborting, day>>

-----------------------------------------------------------------------------
(* The calls: served, then answered.                                       *)

SaveServed ==
    /\ save # NoSave /\ save.answer = "pending"
    /\ \/ /\ result[save.heat] \notin {"absent", "slot"}
          /\ Store(save.heat, Written[save.kind], save.of)
          /\ save' = [save EXCEPT !.answer = "stored"]
          /\ merges' = merges \cup {save.heat}
       \/ \* there is nothing to write to, and that is no error
          /\ result[save.heat] = "absent"
          /\ save' = [save EXCEPT !.answer = "stored"]
          /\ UNCHANGED <<server, merges>>
       \/ \* a locked race, a network that dropped the call, a refused lane set
          /\ save' = [save EXCEPT !.answer = "refused"]
          /\ UNCHANGED <<server, merges>>
    /\ UNCHANGED <<page, session, flow, mounted, editing, asking, arming, aborting,
                   due, day>>

\* The editor closes unless the result was refused.
EditAnswered ==
    /\ save.kind = "edit" /\ save.answer # "pending"
    /\ editing' = IF save.answer = "stored" THEN NoHeat ELSE editing
    /\ due' = (due \/ save.answer = "stored")
    /\ save' = NoSave
    /\ UNCHANGED <<server, page, session, flow, mounted, asking, arming, aborting,
                   merges, day>>

\* A skip moves on, and lets the timer go, once the server has taken it.
SkipAnswered ==
    /\ save.kind = "skip" /\ save.answer # "pending"
    /\ IF save.answer = "stored"
       THEN /\ page' = Advanced(page, save.next)
            /\ aborting' = TRUE
            /\ due' = TRUE
            /\ UNCHANGED session
            /\ ShowIfUp(flow)
       ELSE UNCHANGED <<page, session, flow, arming, aborting, due>>
    /\ save' = NoSave
    /\ UNCHANGED <<server, mounted, editing, asking, merges, day>>

ClearAnswered ==
    /\ save.kind = "clear" /\ save.answer # "pending"
    /\ due' = (due \/ save.answer = "stored")
    /\ IF save.answer = "stored"
       THEN /\ page' = Advanced(page, save.heat)
            /\ BringUp(flow)
       ELSE UNCHANGED <<page, session, flow, mounted, arming>>
    /\ save' = NoSave
    /\ UNCHANGED <<server, editing, asking, aborting, merges, day>>

\* The Schedule tab's own Add Round, Regenerate, Delete Round and Delete Heat: the
\* server has done what Append or Delete do (a round drawn again may come out as it
\* was), and the operator's choice is dropped.
ScheduleAnswered ==
    /\ "leave" \in day.uses /\ {"append", "delete"} \cap day.uses # {}
    /\ page' = [page EXCEPT !.selected = OnScreen(page.view, NoHeat)]
    /\ due' = TRUE
    /\ UNCHANGED session
    /\ ShowIfUp(flow)
    /\ UNCHANGED <<server, mounted, editing, asking, save, aborting, merges, day>>

\* prepareHeat: refused for a heat with no cars and while another one runs.
PrepareServed(h) ==
    /\ h \in arming
    /\ arming' = arming \ {h}
    /\ timer' = IF \/ result[h] \in {"absent", "slot"}
                   \/ timer.state = "RUNNING" /\ timer.heat # h
                THEN timer ELSE [state |-> "ARMED", heat |-> h]
    /\ UNCHANGED <<result, page, session, flow, mounted, editing, asking, save,
                   aborting, feed, day>>

AbortServed ==
    /\ aborting
    /\ aborting' = FALSE
    /\ timer' = Idle
    /\ UNCHANGED <<result, page, session, flow, mounted, editing, asking, save, arming,
                   feed, day>>

-----------------------------------------------------------------------------
(* The track and the other browsers.                                       *)

Elsewhere == UNCHANGED <<page, session, flow, mounted, editing, asking, calls, day>>

\* What other browsers are told: of a run the timer recorded and of a change to
\* the schedule, that the race is to be fetched; of a result a browser wrote,
\* that heat and no other; of the timer, nothing here.
TellsRefetch == due' = TRUE /\ UNCHANGED merges
TellsHeat(h) == merges' = merges \cup {h} /\ UNCHANGED due

GateOpens ==
    /\ timer.state = "ARMED"
    /\ timer' = [timer EXCEPT !.state = "RUNNING"]
    /\ UNCHANGED result
    /\ UNCHANGED feed
    /\ Elsewhere

\* The last car is in, or the results are forced: the run is recorded.
RunEnds ==
    /\ timer.state = "RUNNING"
    /\ result' = Recorded(timer.heat, "timed")
    /\ timer' = Idle
    /\ TellsRefetch
    /\ Elsewhere

\* The timer abandons its heat.
TimerGivesUp ==
    /\ "fault" \in day.uses
    /\ timer # Idle
    /\ timer' = Idle
    /\ UNCHANGED result
    /\ UNCHANGED feed
    /\ Elsewhere

\* Another browser records a heat, or clears it.
Correct(h) ==
    /\ "correct" \in day.uses
    /\ result[h] \notin {"absent", "slot"}
    /\ \E outcome \in {"timed", "empty"} : Store(h, outcome, h)
    /\ TellsHeat(h)
    /\ Elsewhere

\* A championship round is appended, from here or from another browser; it is
\* filled at once if it can be.
Append(h) ==
    /\ "append" \in day.uses
    /\ h \in Added /\ result[h] = "absent"
    /\ result' = [result EXCEPT ![h] = IF Ripe(result, RoundOf[h]) THEN "empty" ELSE "slot"]
    /\ UNCHANGED timer
    /\ TellsRefetch
    /\ Elsewhere

\* A heat that has not run is deleted, from here or from another browser; the last
\* one of the race is not.
Delete(h) ==
    /\ "delete" \in day.uses
    /\ h \notin Added
    /\ h \in Unfinished(result) /\ Listed(result) # {h}
    /\ result' = [result EXCEPT ![h] = "absent"]
    /\ timer' \in Revalidated(result', {})
    /\ TellsRefetch
    /\ Elsewhere

\* Another browser arms a heat.
ArmElsewhere(h) ==
    /\ "arm" \in day.uses
    /\ timer.state # "RUNNING"
    /\ result[h] \notin {"absent", "slot"}
    /\ timer' = [state |-> "ARMED", heat |-> h]
    /\ UNCHANGED result
    /\ UNCHANGED feed
    /\ Elsewhere

-----------------------------------------------------------------------------
Next ==
    \/ Refetch \/ SessionArrives \/ Tick
    \/ NextHeat \/ CancelCountdown \/ DismissSummary \/ StartNextRound
    \/ OpenEditor \/ CloseEditor \/ SaveEditor
    \/ AskSkip \/ DeclineSkip \/ ConfirmSkip
    \/ ResetHeat \/ LeaveTab \/ ReturnToTab \/ Reload
    \/ SaveServed \/ EditAnswered \/ SkipAnswered \/ ClearAnswered
    \/ ScheduleAnswered \/ AbortServed
    \/ GateOpens \/ RunEnds \/ TimerGivesUp
    \/ \E h \in Heats :
        \/ Merge(h)
        \/ RunHeat(h) \/ ReRunHeat(h)
        \/ PrepareServed(h)
        \/ Correct(h) \/ Append(h) \/ Delete(h) \/ ArmElsewhere(h)

Spec == Init /\ [][Next]_vars

\* The clock runs, a fetch is answered and an event arrives; no fairness is
\* asked of the operator, the track or the other browsers.
FairSpec ==
    /\ Spec
    /\ WF_vars(Tick) /\ WF_vars(Refetch)
    /\ \A h \in Heats : WF_vars(Merge(h))

-----------------------------------------------------------------------------
(* Properties.                                                             *)

TypeOK ==
    /\ result \in [Heats -> Outcomes]
    /\ timer \in [state : {"IDLE", "ARMED", "RUNNING"}, heat : Heats \cup {NoHeat}]
    /\ page \in [view : [Heats -> Outcomes], selected : Heats, decided : SUBSET Nat,
                 finished : BOOLEAN, roundSummary : Nat, raceSummary : SUBSET Heats]
    /\ session \in [phase : Phases, idle : BOOLEAN] \cup {NoSession}
    /\ flow \in [screen : Screens, left : 0..Seconds, prepared : Heats \cup {NoHeat},
                 summarised : Nat, shown : SUBSET Heats, cancelled : Heats \cup {NoHeat}]
    /\ mounted \in BOOLEAN
    /\ editing \in Heats \cup {NoHeat}
    /\ asking \in [heat : Heats \cup {NoHeat}, next : Heats \cup {NoHeat}]
    /\ save \in [kind : {"none", "edit", "skip", "clear"}, heat : Heats \cup {NoHeat},
                 of : Heats \cup {NoHeat}, next : Heats \cup {NoHeat},
                 answer : {"pending", "stored", "refused"}]
    /\ arming \subseteq Heats
    /\ aborting \in BOOLEAN
    /\ due \in BOOLEAN
    /\ merges \subseteq Heats

\* A summary on screen is true of the race the page shows: the round it names
\* is decided, and the schedule it celebrates is the one in view and has all
\* run once no fetch is under way.
\* RaceControl drops its summaries while rendering (#856) and keys the race's
\* by its heats (#916); raceFlow follows only what it observes.
SummaryIsTrue ==
    /\ page.roundSummary # NoRound => page.roundSummary \in page.decided
    /\ page.raceSummary # {} /\ ~due =>
        page.raceSummary = Listed(page.view) /\ RaceComplete(page.view)
    /\ flow.screen = "ROUND_SUMMARY" =>
        page.roundSummary # NoRound /\ flow.summarised = page.roundSummary
    /\ flow.screen = "RACE_SUMMARY" =>
        page.raceSummary # {} /\ flow.shown = page.raceSummary

\* A countdown runs only over a heat with recorded times, with a heat left to
\* go to, and never over one whose countdown the operator called off.
CountdownHasReason ==
    flow.screen = "COUNTING_DOWN" =>
        /\ page.view[page.selected] = "timed"
        /\ NextAfter(page.view, page.selected) # NoHeat
        /\ flow.cancelled # page.selected

\* An answer of the server never moves the screen off a heat that still
\* exists, whichever heats it shows as run (#130).
HeatOnScreenIsPinned ==
    [][page'.view # page.view /\ page.selected \in Listed(page'.view) /\ ~Reload
        => page'.selected = page.selected]_page

\* A countdown comes to an end, however often the page is told something new
\* while it runs.
CountdownEnds == flow.screen = "COUNTING_DOWN" ~> flow.screen # "COUNTING_DOWN"

\* A race that finishes is announced, over the heats it has by then, unless
\* it stops being finished first.  A page opened on a finished race keeps quiet.
FinishIsAnnounced ==
    (RaceComplete(result) /\ "reload" \notin day.uses)
        ~> (page.raceSummary = Listed(result) \/ ~RaceComplete(result))

=============================================================================
