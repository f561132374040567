-------------------------- MODULE RaceScreenProofs --------------------------
(***************************************************************************)
(* Proofs about RaceScreen, for every schedule, every length of countdown  *)
(* and every day.                                                          *)
(***************************************************************************)
EXTENDS RaceScreen, FiniteSetTheorems, TLAPS

-----------------------------------------------------------------------------
(* The inductive invariant.                                                *)

Schedules == [Heats -> Outcomes]
Pages == [view : Schedules, selected : Heats, decided : SUBSET Nat, finished : BOOLEAN,
          roundSummary : Nat, raceSummary : SUBSET Heats]
Sessions == [phase : Phases, idle : BOOLEAN] \cup {NoSession}
Flows == [screen : Screens, left : 0..Seconds, prepared : Heats \cup {NoHeat},
          summarised : Nat, shown : SUBSET Heats, cancelled : Heats \cup {NoHeat}]
Observations == [heat : Heats, phase : Phases, idle : BOOLEAN, timed : BOOLEAN,
                 next : BOOLEAN, round : Nat, race : SUBSET Heats]

\* The server lists a heat whatever is deleted, and the timer that is not idle
\* has a heat.
Stored ==
    /\ result \in Schedules
    /\ Listed(result) # {}
    /\ timer \in [state : {"IDLE", "ARMED", "RUNNING"}, heat : Heats \cup {NoHeat}]
    /\ timer.state # "IDLE" => timer.heat # NoHeat

\* What a page says of its race, which it may be fetching again.  Events never
\* change the list of heats, so a race summary is always about the list in
\* view; whether those have run is only sure once the fetch is answered.
Truthful(p, fetching) ==
    /\ p.roundSummary # NoRound => p.roundSummary \in p.decided
    /\ p.raceSummary # {} => p.raceSummary = Listed(p.view)
    /\ p.raceSummary # {} /\ ~fetching => RaceComplete(p.view)

\* The page lists a heat; with no fetch under way it lists those the server does.
Shown ==
    /\ page \in Pages
    /\ Listed(page.view) # {}
    /\ due \in BOOLEAN
    /\ merges \subseteq Heats
    /\ Truthful(page, due)
    /\ ~due => Listed(page.view) = Listed(result)

\* A machine that has seen this observation last.
Abreast(f, o) ==
    /\ f \in Flows
    /\ f.summarised = o.round
    /\ f.shown = o.race
    /\ f.screen = "ROUND_SUMMARY" => o.round # NoRound
    /\ f.screen = "RACE_SUMMARY" => o.race # {}
    /\ f.screen = "COUNTING_DOWN" => ShouldCountDown(o) /\ f.cancelled # o.heat

Followed ==
    /\ mounted \in BOOLEAN
    /\ session \in Sessions
    /\ IF mounted THEN Abreast(flow, Now) ELSE flow = InitialFlow

Saves == [kind : {"none", "edit", "skip", "clear"}, heat : Heats \cup {NoHeat},
          of : Heats \cup {NoHeat}, next : Heats \cup {NoHeat},
          answer : {"pending", "stored", "refused"}]

\* A call under way and a question on screen are about a heat.
Called ==
    /\ editing \in Heats \cup {NoHeat}
    /\ asking \in [heat : Heats \cup {NoHeat}, next : Heats \cup {NoHeat}]
    /\ asking # NoQuestion => asking.heat # NoHeat
    /\ save \in Saves
    /\ save # NoSave => save.kind # "none" /\ save.heat # NoHeat
    /\ arming \subseteq Heats
    /\ aborting \in BOOLEAN

IInv == Stored /\ Shown /\ Followed /\ Called

-----------------------------------------------------------------------------
(* Sets of heats and of rounds.                                            *)

\* A finite set of numbers has a least and a greatest member: look at how many
\* are beyond each.
LEMMA Extremes ==
    ASSUME NEW S \in SUBSET Nat, IsFiniteSet(S), S # {}
    PROVE  Min(S) \in S /\ Max(S) \in S
<1> DEFINE R == StrictSubsetOrdering(S)
           above == [x \in S |-> {y \in S : y > x}]
           below == [x \in S |-> {y \in S : y < x}]
<1>1. IsWellFoundedOn(R, SUBSET S)
    BY FS_StrictSubsetOrderingWellFounded, FS_FiniteSubsetsOfFinite
<1>2. \E m \in S : \A y \in S : m >= y
  <2> DEFINE T == {above[x] : x \in S}
  <2>1. T \subseteq SUBSET S /\ T # {}
      OBVIOUS
  <2>2. PICK least \in T : \A other \in T : <<other, least>> \notin R
    <3> HIDE DEF T, R
    <3> QED  BY <2>1, <1>1, WFMin
  <2>3. PICK m \in S : least = above[m]
      OBVIOUS
  <2>4. ASSUME NEW y \in S, ~(m >= y) PROVE FALSE
    <3>1. y \in S /\ m \in Nat /\ y \in Nat /\ \A z \in S : z \in Nat
        BY <2>4
    <3>2. y > m /\ ~(y > y) /\ \A z \in S : z > y => z > m
        BY <2>4, <3>1
    <3>3. y \in above[m] /\ y \notin above[y] /\ above[y] \subseteq above[m]
        BY <3>1, <3>2
    <3>4. <<above[y], above[m]>> \in R
        BY <3>3 DEF StrictSubsetOrdering
    <3> QED  BY <3>4, <2>2, <2>3
  <2> QED  BY <2>4
<1>3. \E m \in S : \A y \in S : m =< y
  <2> DEFINE T == {below[x] : x \in S}
  <2>1. T \subseteq SUBSET S /\ T # {}
      OBVIOUS
  <2>2. PICK least \in T : \A other \in T : <<other, least>> \notin R
    <3> HIDE DEF T, R
    <3> QED  BY <2>1, <1>1, WFMin
  <2>3. PICK m \in S : least = below[m]
      OBVIOUS
  <2>4. ASSUME NEW y \in S, ~(m =< y) PROVE FALSE
    <3>1. y \in S /\ m \in Nat /\ y \in Nat /\ \A z \in S : z \in Nat
        BY <2>4
    <3>2. y < m /\ ~(y < y) /\ \A z \in S : z < y => z < m
        BY <2>4, <3>1
    <3>3. y \in below[m] /\ y \notin below[y] /\ below[y] \subseteq below[m]
        BY <3>1, <3>2
    <3>4. <<below[y], below[m]>> \in R
        BY <3>3 DEF StrictSubsetOrdering
    <3> QED  BY <3>4, <2>2, <2>3
  <2> QED  BY <2>4
<1> QED  BY <1>2, <1>3 DEF Min, Max

\* The heats and the rounds that are numbered are finitely many.
LEMMA HeatsAreFinite ==
    ASSUME NEW S \in SUBSET Heats, S # {}
    PROVE  Min(S) \in S /\ Max(S) \in S
<1>1. IsFiniteSet(S)
    BY HeatsAssumption, FS_Subset
<1>2. S \in SUBSET Nat
    BY HeatsAssumption
<1> QED  BY <1>1, <1>2, Extremes

LEMMA RoundsAreFinite ==
    ASSUME NEW v \in Schedules
    PROVE  /\ Decided(v) \subseteq Nat
           /\ \A old : Decided(v) \ old # {} =>
                Min(Decided(v) \ old) \in Decided(v) \ old
<1> DEFINE Rs == {RoundOf[h] : h \in Listed(v)}
<1>1. Listed(v) \subseteq Heats
    BY DEF Listed
<1>2. IsFiniteSet(Listed(v))
    BY <1>1, HeatsAssumption, FS_Subset
<1>3. IsFiniteSet(Rs)
  <2> DEFINE f == [h \in Listed(v) |-> RoundOf[h]]
  <2>1. f \in Surjection(Listed(v), Rs)
      BY DEF Surjection
  <2> HIDE DEF f, Rs
  <2> QED  BY <2>1, <1>2, FS_Surjection
<1>4. Rs \subseteq Nat
    BY <1>1, RoundAssumption
<1>5. Decided(v) \subseteq Rs
    BY DEF Decided
<1>6. ASSUME NEW old, Decided(v) \ old # {}
      PROVE  Min(Decided(v) \ old) \in Decided(v) \ old
  <2>1. IsFiniteSet(Decided(v) \ old)
      BY <1>3, <1>5, FS_Subset
  <2> QED  BY <2>1, <1>4, <1>5, <1>6, Extremes
<1> QED  BY <1>4, <1>5, <1>6

\* The heat after another one, and the heat on screen, are heats of the race.
LEMMA NextIsAHeat ==
    ASSUME NEW v \in Schedules, NEW h \in Heats
    PROVE  /\ NextAfter(v, h) \in Unfinished(v) \cup {NoHeat}
           /\ NextAfter(v, h) \in Heats \cup {NoHeat}
<1> DEFINE later == {g \in Unfinished(v) : g > h}
<1>1. later \in SUBSET Heats /\ Unfinished(v) \subseteq Heats
    BY DEF Unfinished, Listed
<1>2. later # {} => Min(later) \in later
    BY <1>1, HeatsAreFinite
<1> QED  BY <1>1, <1>2 DEF NextAfter

LEMMA OnScreenIsListed ==
    ASSUME NEW v \in Schedules, NEW chosen, Listed(v) # {}
    PROVE  /\ OnScreen(v, chosen) \in Listed(v)
           /\ OnScreen(v, chosen) \in Heats
           /\ chosen \in Listed(v) => OnScreen(v, chosen) = chosen
<1>1. Listed(v) \in SUBSET Heats /\ Unfinished(v) \in SUBSET Listed(v)
    BY DEF Unfinished, Listed
<1>2. Max(Listed(v)) \in Listed(v)
    BY <1>1, HeatsAreFinite
<1>3. Unfinished(v) # {} => Min(Unfinished(v)) \in Unfinished(v)
    BY <1>1, HeatsAreFinite
<1> QED  BY <1>1, <1>2, <1>3 DEF OnScreen

-----------------------------------------------------------------------------
(* The page.                                                               *)

\* What is made of the heats of an answer or of an event.
LEMMA NoticedIsTruthful ==
    ASSUME NEW p \in Pages, NEW fetching, Truthful(p, fetching),
           NEW v \in Schedules, Listed(v) # {}
    PROVE  /\ Noticed(p, v) \in Pages
           /\ Noticed(p, v).view = v
           /\ p.selected \in Listed(v) => Noticed(p, v).selected = p.selected
           /\ Noticed(p, v).decided = p.decided
           /\ Truthful(Noticed(p, v), FALSE)
<1> DEFINE q == Noticed(p, v)
           summary == IF JustCompleted(p, v) THEN Listed(v)
                      ELSE IF RaceComplete(v) THEN p.raceSummary ELSE {}
<1>1. /\ OnScreen(v, p.selected) \in Heats
      /\ p.selected \in Listed(v) => OnScreen(v, p.selected) = p.selected
    BY OnScreenIsListed
<1>2. RaceComplete(v) \in BOOLEAN /\ Listed(v) \subseteq Heats
    BY DEF RaceComplete, Listed
<1>3. summary \subseteq Heats
    BY <1>2 DEF Pages
<1>4. summary # {} => summary = Listed(v) /\ RaceComplete(v)
  <2>1. CASE JustCompleted(p, v)
      BY <2>1 DEF JustCompleted
  <2>2. CASE ~JustCompleted(p, v) /\ RaceComplete(v)
      BY <2>2 DEF JustCompleted, Truthful
  <2> QED  BY <2>1, <2>2
<1>5. q = [p EXCEPT !.view = v, !.selected = OnScreen(v, p.selected),
                    !.finished = RaceComplete(v), !.raceSummary = summary]
    BY DEF Noticed
<1> HIDE DEF q, summary
<1>6. /\ q \in Pages
      /\ q.view = v /\ q.selected = OnScreen(v, p.selected)
      /\ q.raceSummary = summary
      /\ q.roundSummary = p.roundSummary /\ q.decided = p.decided
    BY <1>1, <1>2, <1>3, <1>5 DEF Pages
<1> QED  BY <1>1, <1>4, <1>6 DEF Truthful, q

LEMMA RefetchedIsTruthful ==
    ASSUME NEW p \in Pages, NEW fetching, Truthful(p, fetching),
           NEW v \in Schedules, Listed(v) # {}
    PROVE  /\ Refetched(p, v) \in Pages
           /\ Refetched(p, v).view = v
           /\ p.selected \in Listed(v) => Refetched(p, v).selected = p.selected
           /\ Truthful(Refetched(p, v), FALSE)
<1> DEFINE n == Noticed(p, v)
           news == Decided(v) \ p.decided
           summary == IF news # {} THEN Min(news)
                      ELSE IF n.roundSummary \in Decided(v) THEN n.roundSummary ELSE NoRound
           q == Refetched(p, v)
<1>1. /\ n \in Pages /\ n.view = v /\ Truthful(n, FALSE)
      /\ p.selected \in Listed(v) => n.selected = p.selected
    BY NoticedIsTruthful
<1>2. Decided(v) \subseteq Nat /\ (news # {} => Min(news) \in news)
    BY RoundsAreFinite
<1>3. summary # NoRound => summary \in Decided(v)
    BY <1>2
<1>4. summary \in Nat
    BY <1>2, <1>3 DEF NoRound
<1>5. q = [n EXCEPT !.decided = Decided(v), !.roundSummary = summary]
    BY DEF Refetched
<1> HIDE DEF q, n, summary
<1>6. /\ q \in Pages
      /\ q.view = n.view /\ q.selected = n.selected
      /\ q.raceSummary = n.raceSummary
      /\ q.roundSummary = summary /\ q.decided = Decided(v)
    BY <1>1, <1>2, <1>4, <1>5 DEF Pages
<1> QED  BY <1>1, <1>3, <1>6 DEF Truthful, q

LEMMA AdvancedIsTruthful ==
    ASSUME NEW p \in Pages, NEW fetching, Truthful(p, fetching), Listed(p.view) # {},
           NEW next \in Heats \cup {NoHeat}
    PROVE  /\ Advanced(p, next) \in Pages
           /\ Advanced(p, next).view = p.view
           /\ Truthful(Advanced(p, next), fetching)
<1> DEFINE q == Advanced(p, next)
<1>1. q = [p EXCEPT !.roundSummary = NoRound,
                    !.selected = IF next = NoHeat THEN p.selected
                                 ELSE OnScreen(p.view, next)]
    BY DEF Advanced
<1>2. (IF next = NoHeat THEN p.selected ELSE OnScreen(p.view, next)) \in Heats
    BY OnScreenIsListed DEF Pages
<1> HIDE DEF q
<1>3. /\ q \in Pages
      /\ q.view = p.view /\ q.raceSummary = p.raceSummary /\ q.roundSummary = NoRound
    BY <1>1, <1>2 DEF Pages, NoRound
<1> QED  BY <1>3 DEF Truthful, q

LEMMA OpenedIsTruthful ==
    ASSUME NEW v \in Schedules, Listed(v) # {}, NEW fetching
    PROVE  /\ Opened(v) \in Pages
           /\ Opened(v).view = v
           /\ Truthful(Opened(v), fetching)
<1>1. OnScreen(v, NoHeat) \in Heats
    BY OnScreenIsListed
<1>2. RaceComplete(v) \in BOOLEAN
    BY DEF RaceComplete
<1>3. Decided(v) \subseteq Nat
    BY RoundsAreFinite
<1> HIDE DEF Decided, RaceComplete
<1> QED  BY <1>1, <1>2, <1>3 DEF Opened, Pages, Truthful, NoRound

-----------------------------------------------------------------------------
(* The machine.                                                            *)

\* Settling does not touch a summary that may stay, and counts down with reason.
LEMMA SettleIsAbreast ==
    ASSUME NEW f \in Flows, NEW o \in Observations,
           f.summarised = o.round, f.shown = o.race,
           f.screen = "ROUND_SUMMARY" => o.round # NoRound,
           f.screen = "RACE_SUMMARY" => o.race # {}
    PROVE  Abreast(Settle(f, o), o)
<1>1. 0 \in 0..Seconds /\ Seconds \in 0..Seconds
    BY SecondsAssumption
<1>2. CASE f.screen \in {"ROUND_SUMMARY", "RACE_SUMMARY"}
    BY <1>1, <1>2 DEF Settle, Abreast, Flows, Screens
<1>3. CASE /\ f.screen \notin {"ROUND_SUMMARY", "RACE_SUMMARY"}
           /\ f.cancelled = o.heat \/ ~ShouldCountDown(o)
    BY <1>1, <1>3 DEF Settle, Abreast, Flows, Screens
<1>4. CASE /\ f.screen \notin {"ROUND_SUMMARY", "RACE_SUMMARY"}
           /\ f.cancelled # o.heat /\ ShouldCountDown(o)
    BY <1>1, <1>4 DEF Settle, Abreast, Flows, Screens
<1> QED  BY <1>2, <1>3, <1>4

\* Having observed something it is abreast of it, whatever it was before.
LEMMA ObservedIsAbreast ==
    ASSUME NEW f \in Flows, NEW o \in Observations
    PROVE  Abreast(Observed(f, o), o)
<1> DEFINE prepared == IF o.phase = "RECORDED" THEN NoHeat
                       ELSE IF Arms(f, o) THEN o.heat ELSE f.prepared
           cancelled == IF f.cancelled = o.heat THEN o.heat ELSE NoHeat
           g == [screen |-> Raised(f, o), left |-> f.left, prepared |-> prepared,
                 summarised |-> o.round, shown |-> o.race, cancelled |-> cancelled]
<1>1. /\ Raised(f, o) \in Screens
      /\ Raised(f, o) = "ROUND_SUMMARY" => o.round # NoRound
      /\ Raised(f, o) = "RACE_SUMMARY" => o.race # {}
    BY DEF Raised, Screens, Flows, Observations
<1>2. prepared \in Heats \cup {NoHeat} /\ cancelled \in Heats \cup {NoHeat}
    BY DEF Flows, Observations
<1>3. Observed(f, o) = Settle(g, o)
    BY DEF Observed
<1> HIDE DEF prepared, cancelled
<1>4. /\ g \in Flows
      /\ g.summarised = o.round /\ g.shown = o.race /\ g.screen = Raised(f, o)
    BY <1>1, <1>2 DEF Flows, Observations
<1> HIDE DEF g
<1>5. Abreast(Settle(g, o), o)
    BY <1>1, <1>4, SettleIsAbreast
<1> QED  BY <1>3, <1>5

\* What the operator does about a summary, a countdown or the clock leaves it
\* abreast of what it had seen.
LEMMA DismissedIsAbreast ==
    ASSUME NEW f, NEW o \in Observations, Abreast(f, o)
    PROVE  Abreast(Dismissed(f, o), o)
<1> DEFINE g == [f EXCEPT !.screen = "WATCHING", !.left = 0]
<1>1. 0 \in 0..Seconds
    BY SecondsAssumption
<1>2. g \in Flows /\ g.summarised = o.round /\ g.shown = o.race /\ g.screen = "WATCHING"
    BY <1>1 DEF Abreast, Flows, Screens
<1> HIDE DEF g
<1>3. Abreast(Settle(g, o), o)
    BY <1>2, SettleIsAbreast
<1> QED  BY <1>3 DEF Dismissed, g

LEMMA CancelledIsAbreast ==
    ASSUME NEW f, NEW o \in Observations, Abreast(f, o)
    PROVE  Abreast(Cancelled(f, o), o)
<1>1. 0 \in 0..Seconds
    BY SecondsAssumption
<1> QED  BY <1>1 DEF Cancelled, Abreast, Flows, Screens, Observations

LEMMA WatchingIsAbreast ==
    ASSUME NEW f, NEW o, Abreast(f, o)
    PROVE  Abreast([f EXCEPT !.screen = "WATCHING", !.left = 0], o)
<1>1. 0 \in 0..Seconds
    BY SecondsAssumption
<1> QED  BY <1>1 DEF Abreast, Flows, Screens

LEMMA ClockIsAbreast ==
    ASSUME NEW f, NEW o, Abreast(f, o), f.left > 1
    PROVE  Abreast([f EXCEPT !.left = @ - 1], o)
<1>1. f.left - 1 \in 0..Seconds
    BY SecondsAssumption DEF Abreast, Flows
<1> QED  BY <1>1 DEF Abreast, Flows

LEMMA InitialFlowIsAFlow == InitialFlow \in Flows
BY SecondsAssumption DEF InitialFlow, Flows, Screens, NoRound

\* What a page shows of its race and of a session.
LEMMA ObservationOfAPage ==
    ASSUME NEW p \in Pages, NEW s \in Sessions
    PROVE  /\ Observation(p, s) \in Observations
           /\ Observation(p, s).heat = p.selected
           /\ Observation(p, s).round = p.roundSummary
           /\ Observation(p, s).race = p.raceSummary
           /\ Observation(p, s).timed = (p.view[p.selected] = "timed")
           /\ Observation(p, s).next = (NextAfter(p.view, p.selected) # NoHeat)
<1>1. p.selected \in Heats /\ p.view \in Schedules
    BY DEF Pages
<1>2. PhaseOf(p.view[p.selected], FALSE) \in Phases
    BY DEF PhaseOf, Phases
<1>3. (IF s = NoSession THEN PhaseOf(p.view[p.selected], FALSE) ELSE s.phase) \in Phases
    BY <1>2 DEF Sessions
<1>4. s.idle \in BOOLEAN
  <2>1. CASE s = NoSession
      BY <2>1 DEF NoSession
  <2>2. CASE s \in [phase : Phases, idle : BOOLEAN]
      BY <2>2
  <2> QED  BY <2>1, <2>2 DEF Sessions
<1>5. /\ (p.view[p.selected] = "timed") \in BOOLEAN
      /\ (NextAfter(p.view, p.selected) # NoHeat) \in BOOLEAN
    OBVIOUS
<1>6. p.roundSummary \in Nat /\ p.raceSummary \in SUBSET Heats
    BY DEF Pages
<1> QED  BY <1>1, <1>3, <1>4, <1>5, <1>6 DEF Observation, Observations

-----------------------------------------------------------------------------
(* The server.                                                             *)

\* A result takes no heat off the list, whatever the cascade does.
LEMMA RecordedIsASchedule ==
    ASSUME result \in Schedules, NEW h \in Heats, NEW outcome \in Outcomes,
           outcome # "absent"
    PROVE  /\ Recorded(h, outcome) \in Schedules
           /\ Listed(Recorded(h, outcome)) = Listed(result) \cup {h}
<1> DEFINE stored == [result EXCEPT ![h] = outcome]
           reset == [g \in Heats |-> IF g \in Rewritten(stored, h) THEN "slot" ELSE stored[g]]
           new == Recorded(h, outcome)
<1>1. stored \in Schedules /\ \A g \in Heats : stored[g] # "absent" <=> g \in Listed(result) \cup {h}
    BY DEF Listed, Schedules
<1>2. Rewritten(stored, h) \subseteq Listed(stored)
    BY DEF Rewritten
<1>3. {"slot", "empty"} \subseteq Outcomes \ {"absent"}
    BY DEF Outcomes
<1>4. reset \in Schedules /\ \A g \in Heats : reset[g] # "absent" <=> stored[g] # "absent"
  <2> HIDE DEF stored
  <2>1. \A g \in Rewritten(stored, h) : stored[g] # "absent"
      BY <1>2 DEF Listed
  <2> QED  BY <1>1, <1>3, <2>1 DEF Schedules
<1>5. new = [g \in Heats |->
                IF reset[g] = "slot" /\ Ripe(reset, RoundOf[g]) THEN "empty" ELSE reset[g]]
    BY DEF Recorded
<1>6. new \in Schedules /\ \A g \in Heats : new[g] # "absent" <=> reset[g] # "absent"
  <2> HIDE DEF reset, new
  <2> QED  BY <1>3, <1>4, <1>5 DEF Schedules
<1>7. \A g \in Heats : new[g] # "absent" <=> g \in Listed(result) \cup {h}
    BY <1>1, <1>4, <1>6
<1> HIDE DEF new
<1> QED  BY <1>6, <1>7 DEF Listed, new

\* Revalidation leaves the timer as it was or idle.
LEMMA RevalidatedTimer ==
    ASSUME NEW new, NEW redrawn
    PROVE  Revalidated(new, redrawn) \subseteq {timer, Idle}
BY DEF Revalidated

LEMMA IdleIsATimer ==
    ASSUME Stored, timer' = timer \/ timer' = Idle
    PROVE  /\ timer' \in [state : {"IDLE", "ARMED", "RUNNING"}, heat : Heats \cup {NoHeat}]
           /\ timer'.state # "IDLE" => timer'.heat # NoHeat
BY DEF Stored, Idle

LEMMA StoreKeepsTheList ==
    ASSUME Stored, NEW h \in Heats, NEW outcome \in Outcomes, NEW of,
           outcome # "absent", result[h] # "absent", Store(h, outcome, of)
    PROVE  Stored' /\ Listed(result') = Listed(result)
<1>1. result' \in Schedules /\ Listed(result') = Listed(result) \cup {h}
    BY RecordedIsASchedule DEF Store, Stored
<1>2. h \in Listed(result)
    BY DEF Listed
<1>3. timer' = timer \/ timer' = Idle
    BY RevalidatedTimer DEF Store
<1>4. /\ timer' \in [state : {"IDLE", "ARMED", "RUNNING"}, heat : Heats \cup {NoHeat}]
      /\ timer'.state # "IDLE" => timer'.heat # NoHeat
    BY <1>3, IdleIsATimer
<1>5. Listed(result') = Listed(result) /\ Listed(result) # {}
    BY <1>1, <1>2
<1> QED  BY <1>1, <1>4, <1>5 DEF Stored

-----------------------------------------------------------------------------
(* What a step leaves alone.                                               *)

LEMMA StoredStays ==
    ASSUME Stored, UNCHANGED server
    PROVE  Stored'
BY DEF Stored, server

\* The page is as it was, and whatever changed the list asks for a fetch.
LEMMA ShownStays ==
    ASSUME Shown, UNCHANGED page, due' \in BOOLEAN, merges' \subseteq Heats, due => due',
           ~due' => Listed(result') = Listed(result)
    PROVE  Shown'
BY DEF Shown, Truthful

LEMMA FollowedStays ==
    ASSUME Followed, UNCHANGED <<page, session, flow, mounted>>
    PROVE  Followed'
BY DEF Followed, Now

LEMMA CalledStays ==
    ASSUME Called, UNCHANGED <<editing, asking, calls>>
    PROVE  Called'
BY DEF Called, calls

\* The screen, when only the server, the timer or the feed moves.
LEMMA ElsewhereIsElsewhere ==
    ASSUME IInv, Elsewhere, Stored', due' \in BOOLEAN, merges' \subseteq Heats, due => due',
           ~due' => Listed(result') = Listed(result)
    PROVE  IInv'
<1>1. UNCHANGED page /\ UNCHANGED <<page, session, flow, mounted>>
      /\ UNCHANGED <<editing, asking, calls>>
    BY DEF Elsewhere
<1>2. Shown'
    BY <1>1, ShownStays DEF IInv
<1>3. Followed'
    BY <1>1, FollowedStays DEF IInv
<1>4. Called'
    BY <1>1, CalledStays DEF IInv
<1> QED  BY <1>2, <1>3, <1>4 DEF IInv

-----------------------------------------------------------------------------
(* The screen follows the page.                                            *)

\* Whatever happens to the page and the session, the machine is told.
LEMMA ShowFollows ==
    ASSUME page' \in Pages, session' \in Sessions, arming \subseteq Heats,
           NEW f, Abreast(f, Now), Show(f)
    PROVE  Abreast(flow', Now') /\ arming' \subseteq Heats
<1>1. Now' \in Observations
    BY ObservationOfAPage DEF Now
<1>2. f \in Flows
    BY DEF Abreast
<1>3. Abreast(flow', Now')
  <2>1. CASE Now' # Now
      BY <2>1, <1>1, <1>2, ObservedIsAbreast DEF Show
  <2>2. CASE Now' = Now
      BY <2>2 DEF Show
  <2> QED  BY <2>1, <2>2
<1>4. page'.selected \in Heats
    BY DEF Pages
<1> QED  BY <1>3, <1>4 DEF Show

LEMMA MountFollows ==
    ASSUME page' \in Pages, arming \subseteq Heats, Mount
    PROVE  Followed' /\ arming' \subseteq Heats
<1>1. session' \in Sessions /\ mounted' = TRUE
    BY DEF Mount, Sessions
<1>2. Now' \in Observations
    BY <1>1, ObservationOfAPage DEF Now
<1>3. Abreast(flow', Now')
    BY <1>2, ObservedIsAbreast, InitialFlowIsAFlow DEF Mount
<1>4. page'.selected \in Heats
    BY DEF Pages
<1> QED  BY <1>1, <1>3, <1>4 DEF Followed, Mount

LEMMA ShowIfUpFollows ==
    ASSUME IInv, page' \in Pages, UNCHANGED <<session, mounted>>, ShowIfUp(flow)
    PROVE  Followed' /\ arming' \subseteq Heats
<1>1. arming \subseteq Heats /\ session' \in Sessions /\ mounted' \in BOOLEAN
    BY DEF IInv, Called, Followed
<1>2. CASE mounted
  <2>1. Abreast(flow, Now) /\ Show(flow)
      BY <1>2 DEF IInv, Followed, ShowIfUp
  <2>2. Abreast(flow', Now') /\ arming' \subseteq Heats
      BY <1>1, <2>1, ShowFollows
  <2> QED  BY <1>1, <1>2, <2>2 DEF Followed
<1>3. CASE ~mounted
    BY <1>1, <1>3 DEF IInv, Followed, ShowIfUp
<1> QED  BY <1>2, <1>3

\* The same on a screen that is up, with the machine moved first.
LEMMA ShowUpFollows ==
    ASSUME IInv, page' \in Pages, session' \in Sessions, UNCHANGED mounted, mounted,
           NEW f, Abreast(f, Now), Show(f)
    PROVE  Followed' /\ arming' \subseteq Heats
<1>1. arming \subseteq Heats /\ mounted'
    BY DEF IInv, Called
<1>2. Abreast(flow', Now') /\ arming' \subseteq Heats
    BY <1>1, ShowFollows
<1> QED  BY <1>1, <1>2 DEF Followed

LEMMA BringUpFollows ==
    ASSUME IInv, page' \in Pages, BringUp(flow)
    PROVE  Followed' /\ arming' \subseteq Heats
<1>1. CASE mounted
    BY <1>1, ShowIfUpFollows DEF BringUp, ShowIfUp
<1>2. CASE ~mounted
    BY <1>2, MountFollows DEF BringUp, IInv, Called
<1> QED  BY <1>1, <1>2

-----------------------------------------------------------------------------
(* The steps keep the invariant.                                           *)

LEMMA InitIsGood == Init => IInv
<1> SUFFICES ASSUME Init PROVE IInv
    OBVIOUS
<1>1. day.drawn \subseteq Heats /\ day.drawn # {}
    BY ModesAssumption DEF Init
<1>2. result \in Schedules /\ Listed(result) = day.drawn
    BY <1>1 DEF Init, Schedules, Outcomes, Listed
<1>3. Stored
    BY <1>1, <1>2 DEF Init, Stored, Idle
<1>4. page \in Pages /\ Truthful(page, due)
    BY <1>1, <1>2, OpenedIsTruthful DEF Init
<1>5. Shown
    BY <1>1, <1>2, <1>4, OpenedIsTruthful DEF Init, Shown
<1>6. session \in Sessions /\ mounted = TRUE
    BY DEF Init, Sessions
<1>7. Now \in Observations
    BY <1>4, <1>6, ObservationOfAPage DEF Now
<1>8. Abreast(flow, Now)
    BY <1>7, ObservedIsAbreast, InitialFlowIsAFlow DEF Init
<1>9. Followed
    BY <1>6, <1>8 DEF Followed
<1>10. arming \subseteq Heats
    BY <1>4 DEF Init, Pages
<1>11. Called
    BY <1>10 DEF Init, Called, Saves, NoSave, NoQuestion
<1> QED  BY <1>3, <1>5, <1>9, <1>11 DEF IInv

LEMMA RefetchStep ==
    ASSUME IInv, Refetch
    PROVE  IInv'
<1>1. Stored'
    BY StoredStays DEF IInv, Refetch
<1>2. result \in Schedules /\ Listed(result) # {} /\ page \in Pages /\ Truthful(page, due)
    BY DEF IInv, Stored, Shown
<1>3. page' \in Pages /\ page'.view = result /\ Truthful(page', FALSE)
    BY <1>2, RefetchedIsTruthful DEF Refetch
<1>4. Shown'
    BY <1>2, <1>3 DEF IInv, Shown, Refetch, server
<1>5. Followed' /\ arming' \subseteq Heats
    BY <1>3, ShowIfUpFollows DEF Refetch
<1>6. Called'
    BY <1>5 DEF IInv, Called, Refetch
<1> QED  BY <1>1, <1>4, <1>5, <1>6 DEF IInv

\* An event, whose heat stays or stays away from the list.
LEMMA MergedSchedule ==
    ASSUME IInv, NEW h \in Heats, NEW outcome \in Payload(h),
           NEW v, v = IF h \in Listed(page.view)
                      THEN [page.view EXCEPT ![h] = outcome] ELSE page.view
    PROVE  v \in Schedules /\ Listed(v) = Listed(page.view)
<1>1. result \in Schedules /\ page.view \in Schedules
    BY DEF IInv, Stored, Shown, Pages
<1>2. outcome \in Outcomes /\ outcome # "absent"
    BY <1>1 DEF Payload, Written, Range, Outcomes, Schedules
<1> QED  BY <1>1, <1>2 DEF Listed, Schedules

LEMMA MergeStep ==
    ASSUME IInv, NEW h \in Heats, Merge(h)
    PROVE  IInv'
<1>1. Stored'
    BY StoredStays DEF IInv, Merge
<1>2. PICK outcome \in Payload(h) :
        LET v == IF h \in Listed(page.view)
                 THEN [page.view EXCEPT ![h] = outcome] ELSE page.view
        IN  page' = IF due THEN [page EXCEPT !.view = v] ELSE Noticed(page, v)
    BY DEF Merge
<1> DEFINE v == IF h \in Listed(page.view)
                THEN [page.view EXCEPT ![h] = outcome] ELSE page.view
<1>3. v \in Schedules /\ Listed(v) = Listed(page.view)
    BY MergedSchedule
<1>4. page' = IF due THEN [page EXCEPT !.view = v] ELSE Noticed(page, v)
    BY <1>2
<1>5. page \in Pages /\ Truthful(page, due) /\ Listed(page.view) # {}
      /\ (~due => Listed(page.view) = Listed(result)) /\ due \in BOOLEAN
    BY DEF IInv, Shown, Stored
<1> HIDE DEF v
<1>6. page' \in Pages /\ page'.view = v /\ Truthful(page', due)
  <2>1. CASE due
    <3>1. page' = [page EXCEPT !.view = v]
        BY <1>4, <2>1
    <3>2. page' \in Pages /\ page'.view = v /\ page'.raceSummary = page.raceSummary
          /\ page'.roundSummary = page.roundSummary /\ page'.decided = page.decided
        BY <1>3, <1>5, <3>1 DEF Pages
    <3> QED  BY <1>3, <1>5, <2>1, <3>2 DEF Truthful
  <2>2. CASE ~due
    <3>1. page' = Noticed(page, v) /\ Listed(v) # {}
        BY <1>3, <1>4, <1>5, <2>2
    <3>2. page' \in Pages /\ page'.view = v /\ Truthful(page', FALSE)
        BY <1>3, <1>5, <3>1, NoticedIsTruthful
    <3> QED  BY <2>2, <3>2 DEF Truthful
  <2> QED  BY <2>1, <2>2
<1>7. Shown'
    BY <1>3, <1>5, <1>6 DEF IInv, Shown, Merge, server
<1>8. Followed' /\ arming' \subseteq Heats
    BY <1>6, ShowIfUpFollows DEF Merge
<1>9. Called'
    BY <1>8 DEF IInv, Called, Merge
<1> QED  BY <1>1, <1>7, <1>8, <1>9 DEF IInv

LEMMA SessionArrivesStep ==
    ASSUME IInv, SessionArrives
    PROVE  IInv'
<1>1. Stored'
    BY StoredStays DEF IInv, SessionArrives
<1>2. Shown'
    BY ShownStays DEF IInv, Shown, SessionArrives, feed, server
<1>3. page' \in Pages
    BY <1>2 DEF Shown
<1>4. session' \in Sessions
  <2>1. PhaseOf(result[page.selected], timer.state = "RUNNING") \in Phases
      BY DEF PhaseOf, Phases
  <2> QED  BY <2>1 DEF SessionArrives, Snapshot, Sessions
<1>5. Followed' /\ arming' \subseteq Heats
    BY <1>3, <1>4, ShowUpFollows DEF SessionArrives, IInv, Followed
<1>6. Called'
    BY <1>5 DEF IInv, Called, SessionArrives
<1> QED  BY <1>1, <1>2, <1>5, <1>6 DEF IInv

\* The heat after the one on screen is shown, by the clock or by the operator.
LEMMA AdvanceKeeps ==
    ASSUME IInv, NEW next \in Heats \cup {NoHeat}, page' = Advanced(page, next),
           UNCHANGED server, due' \in BOOLEAN, due => due', UNCHANGED merges
    PROVE  page' \in Pages /\ Shown'
<1>1. page \in Pages /\ Truthful(page, due) /\ Listed(page.view) # {}
    BY DEF IInv, Shown
<1>2. page' \in Pages /\ page'.view = page.view /\ Truthful(page', due)
    BY <1>1, AdvancedIsTruthful
<1> QED  BY <1>2 DEF IInv, Shown, Truthful, server

LEMMA NextOnScreen ==
    ASSUME IInv
    PROVE  NextAfter(page.view, page.selected) \in Heats \cup {NoHeat}
BY NextIsAHeat DEF IInv, Shown, Pages

LEMMA TickStep ==
    ASSUME IInv, Tick
    PROVE  IInv'
<1>1. Stored'
    BY StoredStays DEF IInv, Tick
<1>2. Abreast(flow, Now) /\ mounted /\ session \in Sessions /\ arming \subseteq Heats
      /\ due \in BOOLEAN
    BY DEF IInv, Followed, Called, Tick, Shown
<1>3. CASE flow.left > 1
  <2>1. UNCHANGED <<page, arming>> /\ flow' = [flow EXCEPT !.left = @ - 1]
      BY <1>3 DEF Tick
  <2>2. Abreast(flow', Now')
      BY <1>2, <1>3, <2>1, ClockIsAbreast DEF Tick, Now
  <2>3. Followed'
      BY <1>2, <2>2 DEF Followed, Tick
  <2>4. Shown'
      BY <2>1, ShownStays DEF IInv, Shown, Tick, feed, server
  <2>5. Called'
      BY <2>1 DEF IInv, Called, Tick
  <2> QED  BY <1>1, <2>3, <2>4, <2>5 DEF IInv
<1>4. CASE ~(flow.left > 1)
  <2>1. /\ page' = Advanced(page, NextAfter(page.view, page.selected))
        /\ Show([flow EXCEPT !.screen = "WATCHING", !.left = 0])
      BY <1>4 DEF Tick
  <2>2. page' \in Pages /\ Shown'
      BY <1>2, <2>1, NextOnScreen, AdvanceKeeps DEF Tick, feed
  <2>3. Abreast([flow EXCEPT !.screen = "WATCHING", !.left = 0], Now)
      BY <1>2, WatchingIsAbreast
  <2>4. Followed' /\ arming' \subseteq Heats
      BY <1>2, <2>1, <2>2, <2>3, ShowUpFollows DEF Tick
  <2>5. Called'
      BY <2>4 DEF IInv, Called, Tick
  <2> QED  BY <1>1, <2>2, <2>4, <2>5 DEF IInv
<1> QED  BY <1>3, <1>4

LEMMA ObservedNow ==
    ASSUME IInv
    PROVE  Now \in Observations
BY ObservationOfAPage DEF IInv, Shown, Followed, Now

LEMMA NextHeatStep ==
    ASSUME IInv, NextHeat
    PROVE  IInv'
<1>1. Stored'
    BY StoredStays DEF IInv, NextHeat
<1>2. Abreast(flow, Now) /\ mounted /\ session \in Sessions /\ due \in BOOLEAN
    BY DEF IInv, Followed, NextHeat, Shown
<1>3. page' \in Pages /\ Shown'
    BY <1>2, NextOnScreen, AdvanceKeeps DEF NextHeat, feed
<1>4. Abreast(Cancelled(flow, Now), Now)
    BY <1>2, ObservedNow, CancelledIsAbreast
<1>5. Followed' /\ arming' \subseteq Heats
    BY <1>2, <1>3, <1>4, ShowUpFollows DEF NextHeat
<1>6. Called'
    BY <1>5 DEF IInv, Called, NextHeat
<1> QED  BY <1>1, <1>3, <1>5, <1>6 DEF IInv

LEMMA StartNextRoundStep ==
    ASSUME IInv, StartNextRound
    PROVE  IInv'
<1>1. Stored'
    BY StoredStays DEF IInv, StartNextRound
<1>2. Abreast(flow, Now) /\ mounted /\ session \in Sessions /\ due \in BOOLEAN
    BY DEF IInv, Followed, StartNextRound, Shown
<1>3. page' \in Pages /\ Shown'
    BY <1>2, NextOnScreen, AdvanceKeeps DEF StartNextRound, feed
<1>4. Followed' /\ arming' \subseteq Heats
    BY <1>2, <1>3, ShowUpFollows DEF StartNextRound
<1>5. Called'
    BY <1>4 DEF IInv, Called, StartNextRound
<1> QED  BY <1>1, <1>3, <1>4, <1>5 DEF IInv

\* The machine moves over a page that stays as it is.
LEMMA MachineMoves ==
    ASSUME IInv, UNCHANGED <<page, session, mounted>>,
           flow' = flow \/ (mounted /\ Abreast(flow', Now))
    PROVE  Followed'
<1>1. Now' = Now
    BY DEF Now
<1> QED  BY <1>1 DEF IInv, Followed

LEMMA CancelCountdownStep ==
    ASSUME IInv, CancelCountdown
    PROVE  IInv'
<1>1. Abreast(flow, Now) /\ mounted
    BY DEF IInv, Followed, CancelCountdown
<1>2. Abreast(flow', Now)
    BY <1>1, ObservedNow, CancelledIsAbreast DEF CancelCountdown
<1>3. Followed'
    BY <1>1, <1>2, MachineMoves DEF CancelCountdown
<1>4. Stored' /\ Called'
    BY StoredStays, CalledStays DEF IInv, CancelCountdown
<1>5. Shown'
    BY ShownStays DEF IInv, Shown, CancelCountdown, feed, server
<1> QED  BY <1>3, <1>4, <1>5 DEF IInv

LEMMA DismissSummaryStep ==
    ASSUME IInv, DismissSummary
    PROVE  IInv'
<1>1. Abreast(flow, Now) /\ mounted
    BY DEF IInv, Followed, DismissSummary
<1>2. Abreast(flow', Now)
    BY <1>1, ObservedNow, DismissedIsAbreast DEF DismissSummary
<1>3. Followed'
    BY <1>1, <1>2, MachineMoves DEF DismissSummary
<1>4. Stored' /\ Called'
    BY StoredStays, CalledStays DEF IInv, DismissSummary
<1>5. Shown'
    BY ShownStays DEF IInv, Shown, DismissSummary, feed, server
<1> QED  BY <1>3, <1>4, <1>5 DEF IInv

\* The editor, the question and the call: the rest of the page stays.
LEMMA OnlyCallsChange ==
    ASSUME IInv, UNCHANGED <<server, page, session, flow, mounted, feed>>, Called'
    PROVE  IInv'
<1>1. Stored'
    BY StoredStays DEF IInv
<1>2. Shown'
    BY ShownStays DEF IInv, Shown, feed, server
<1>3. Followed'
    BY FollowedStays DEF IInv
<1> QED  BY <1>1, <1>2, <1>3 DEF IInv

LEMMA EditorSteps ==
    ASSUME IInv, OpenEditor \/ CloseEditor \/ SaveEditor
    PROVE  IInv'
<1>1. page.selected \in Heats
    BY DEF IInv, Shown, Pages
<1>2. UNCHANGED <<server, page, session, flow, mounted, feed>>
    BY DEF OpenEditor, CloseEditor, SaveEditor
<1>3. CASE OpenEditor
  <2>1. Called'
      BY <1>1, <1>3 DEF IInv, Called, OpenEditor, calls
  <2> QED  BY <1>2, <2>1, OnlyCallsChange
<1>4. CASE CloseEditor
  <2>1. Called'
      BY <1>4 DEF IInv, Called, CloseEditor, calls
  <2> QED  BY <1>2, <2>1, OnlyCallsChange
<1>5. CASE SaveEditor
  <2>1. editing \in Heats \cup {NoHeat} /\ NoHeat \notin Heats
      BY HeatsAssumption DEF IInv, Called, NoHeat
  <2>2. save' = [kind |-> "edit", heat |-> page.selected, of |-> editing,
                 next |-> NoHeat, answer |-> "pending"]
      BY <1>5 DEF SaveEditor, NoSave
  <2>3. save' \in Saves /\ save'.kind # "none" /\ save'.heat # NoHeat
      BY <1>1, <2>1, <2>2 DEF Saves
  <2>4. Called'
      BY <1>5, <2>3 DEF IInv, Called, SaveEditor
  <2> QED  BY <1>2, <2>4, OnlyCallsChange
<1> QED  BY <1>3, <1>4, <1>5

LEMMA QuestionSteps ==
    ASSUME IInv, AskSkip \/ DeclineSkip \/ ConfirmSkip
    PROVE  IInv'
<1>1. page.selected \in Heats /\ NoHeat \notin Heats
    BY HeatsAssumption DEF IInv, Shown, Pages, NoHeat
<1>2. CASE AskSkip
  <2>1. Called'
      BY <1>1, <1>2, NextOnScreen DEF IInv, Called, AskSkip, calls
  <2> QED  BY <1>2, <2>1, OnlyCallsChange DEF AskSkip
<1>3. CASE DeclineSkip
  <2>1. Called'
      BY <1>3 DEF IInv, Called, DeclineSkip, calls, NoQuestion
  <2> QED  BY <1>3, <2>1, OnlyCallsChange DEF DeclineSkip
<1>4. CASE ConfirmSkip
  <2>1. asking.heat \in Heats /\ asking.next \in Heats \cup {NoHeat}
      BY <1>4 DEF IInv, Called, ConfirmSkip
  <2>2. save' = [kind |-> "skip", heat |-> asking.heat, of |-> asking.heat,
                 next |-> asking.next, answer |-> "pending"]
      BY <1>4 DEF ConfirmSkip, NoSave
  <2>3. save' \in Saves /\ save'.kind # "none" /\ save'.heat # NoHeat
      BY <1>1, <2>1, <2>2 DEF Saves
  <2>4. Called'
      BY <1>4, <2>3 DEF IInv, Called, ConfirmSkip, NoQuestion
  <2>5. mounted => Abreast(Cancelled(flow, Now), Now)
      BY ObservedNow, CancelledIsAbreast DEF IInv, Followed
  <2>6. Followed'
    <3>1. flow' = flow \/ (mounted /\ flow' = Cancelled(flow, Now))
        BY <1>4 DEF ConfirmSkip
    <3>2. flow' = flow \/ (mounted /\ Abreast(flow', Now))
        BY <2>5, <3>1
    <3>3. UNCHANGED <<page, session, mounted>>
        BY <1>4 DEF ConfirmSkip
    <3> QED  BY <3>2, <3>3, MachineMoves
  <2>7. Stored' /\ Shown'
      BY <1>4, StoredStays, ShownStays DEF IInv, Shown, ConfirmSkip, feed, server
  <2> QED  BY <2>4, <2>6, <2>7 DEF IInv
<1> QED  BY <1>2, <1>3, <1>4

LEMMA RunHeatStep ==
    ASSUME IInv, NEW h \in Heats, RunHeat(h)
    PROVE  IInv'
<1>1. page \in Pages /\ Truthful(page, due) /\ due \in BOOLEAN
    BY DEF IInv, Shown
<1>2. page' = [page EXCEPT !.selected = h]
    BY DEF RunHeat
<1>3. page' \in Pages /\ page'.view = page.view /\ Truthful(page', due)
    BY <1>1, <1>2 DEF Pages, Truthful
<1>4. due' = (due \/ ~mounted) /\ UNCHANGED <<server, merges>>
    BY DEF RunHeat
<1>5. Stored'
    BY <1>4, StoredStays DEF IInv
<1>6. Shown'
    BY <1>3, <1>4 DEF IInv, Shown, Truthful, Followed, server
<1>7. Followed' /\ arming' \subseteq Heats
    BY <1>3, BringUpFollows DEF RunHeat
<1>8. Called'
    BY <1>7 DEF IInv, Called, RunHeat
<1> QED  BY <1>5, <1>6, <1>7, <1>8 DEF IInv

LEMMA ReRunHeatStep ==
    ASSUME IInv, NEW h \in Heats, ReRunHeat(h)
    PROVE  IInv'
<1>1. NoHeat \notin Heats
    BY HeatsAssumption DEF NoHeat
<1>2. save' = [kind |-> "clear", heat |-> h, of |-> h, next |-> NoHeat,
               answer |-> "pending"]
    BY DEF ReRunHeat, NoSave
<1>3. save' \in Saves /\ save'.kind # "none" /\ save'.heat # NoHeat
    BY <1>1, <1>2 DEF Saves
<1>4. Called'
    BY <1>3 DEF IInv, Called, ReRunHeat
<1>5. mounted => Abreast(Dismissed(flow, Now), Now)
    BY ObservedNow, DismissedIsAbreast DEF IInv, Followed
<1>6. Followed'
  <2>1. flow' = flow \/ (mounted /\ flow' = Dismissed(flow, Now))
      BY DEF ReRunHeat
  <2>2. flow' = flow \/ (mounted /\ Abreast(flow', Now))
      BY <1>5, <2>1
  <2>3. UNCHANGED <<page, session, mounted>>
      BY DEF ReRunHeat
  <2> QED  BY <2>2, <2>3, MachineMoves
<1>7. Stored' /\ Shown'
    BY StoredStays, ShownStays DEF IInv, Shown, ReRunHeat, feed, server
<1> QED  BY <1>4, <1>6, <1>7 DEF IInv

LEMMA ResetHeatStep ==
    ASSUME IInv, ResetHeat
    PROVE  IInv'
<1>1. page.selected \in Heats
    BY DEF IInv, Shown, Pages
<1>2. Called'
    BY <1>1 DEF IInv, Called, ResetHeat
<1> QED  BY <1>2, OnlyCallsChange DEF ResetHeat

\* Tabs and reloads.
LEMMA LeaveTabStep ==
    ASSUME IInv, LeaveTab
    PROVE  IInv'
<1>1. Stored'
    BY StoredStays DEF IInv, LeaveTab
<1>2. Shown'
    BY ShownStays DEF IInv, Shown, LeaveTab, server
<1>3. Followed'
    BY DEF LeaveTab, Followed, Sessions
<1>4. Called'
    BY DEF IInv, Called, LeaveTab, calls, NoQuestion
<1> QED  BY <1>1, <1>2, <1>3, <1>4 DEF IInv

LEMMA ReturnToTabStep ==
    ASSUME IInv, ReturnToTab
    PROVE  IInv'
<1>1. Stored'
    BY StoredStays DEF IInv, ReturnToTab
<1>2. Shown'
    BY ShownStays DEF IInv, Shown, ReturnToTab, Mount, server
<1>3. Followed' /\ arming' \subseteq Heats
    BY MountFollows DEF ReturnToTab, IInv, Shown, Called
<1>4. Called'
    BY <1>3 DEF IInv, Called, ReturnToTab
<1> QED  BY <1>1, <1>2, <1>3, <1>4 DEF IInv

LEMMA ReloadStep ==
    ASSUME IInv, Reload
    PROVE  IInv'
<1>1. Stored'
    BY StoredStays DEF IInv, Reload
<1>2. page' \in Pages /\ Truthful(page', TRUE) /\ Listed(page'.view) # {}
    BY OpenedIsTruthful DEF IInv, Stored, Reload
<1>3. due' = TRUE /\ merges' = {}
    BY DEF Reload, Mount
<1>4. Shown'
    BY <1>2, <1>3 DEF Shown
<1>5. Followed' /\ arming' \subseteq Heats
    BY <1>2, MountFollows DEF Reload, IInv, Called
<1>6. Called'
    BY <1>5 DEF IInv, Called, Reload, Saves, NoSave, NoQuestion
<1> QED  BY <1>1, <1>4, <1>5, <1>6 DEF IInv

\* The calls.
LEMMA SaveServedStep ==
    ASSUME IInv, SaveServed
    PROVE  IInv'
<1>1. /\ save \in Saves /\ save.kind # "none" /\ save.heat \in Heats
      /\ merges \subseteq Heats /\ due \in BOOLEAN
    BY DEF IInv, Called, Shown, SaveServed, Saves
<1>2. Followed'
    BY FollowedStays DEF IInv, SaveServed
<1>3. CASE /\ result[save.heat] \notin {"absent", "slot"}
           /\ Store(save.heat, Written[save.kind], save.of)
           /\ save' = [save EXCEPT !.answer = "stored"]
           /\ merges' = merges \cup {save.heat}
  <2>1. Written[save.kind] \in Outcomes /\ Written[save.kind] # "absent"
      BY <1>1 DEF Written, Outcomes, Saves
  <2>2. Stored' /\ Listed(result') = Listed(result)
      BY <1>1, <1>3, <2>1, StoreKeepsTheList DEF IInv
  <2>3. Shown'
      BY <1>1, <1>3, <2>2, ShownStays DEF IInv, SaveServed
  <2>4. save' \in Saves /\ save'.kind # "none" /\ save'.heat # NoHeat
      BY <1>1, <1>3, HeatsAssumption DEF Saves, NoHeat
  <2>5. Called'
      BY <2>4 DEF IInv, Called, SaveServed
  <2> QED  BY <1>2, <2>2, <2>3, <2>5 DEF IInv
<1>4. ASSUME NEW answer \in {"stored", "refused"},
             save' = [save EXCEPT !.answer = answer], UNCHANGED <<server, merges>>
      PROVE  IInv'
  <2>1. Stored'
      BY <1>4, StoredStays DEF IInv
  <2>2. Shown'
      BY <1>1, <1>4, ShownStays DEF IInv, SaveServed, server
  <2>3. save' \in Saves /\ save'.kind # "none" /\ save'.heat # NoHeat
      BY <1>1, <1>4, HeatsAssumption DEF Saves, NoHeat
  <2>4. Called'
      BY <2>3 DEF IInv, Called, SaveServed
  <2> QED  BY <1>2, <2>1, <2>2, <2>4 DEF IInv
<1> QED  BY <1>3, <1>4 DEF SaveServed

LEMMA NoCallIsACall == NoSave \in Saves
BY DEF NoSave, Saves

LEMMA EditAnsweredStep ==
    ASSUME IInv, EditAnswered
    PROVE  IInv'
<1>1. Stored'
    BY StoredStays DEF IInv, EditAnswered
<1>2. Shown'
    BY ShownStays DEF IInv, Shown, EditAnswered, server
<1>3. Followed'
    BY FollowedStays DEF IInv, EditAnswered
<1>4. Called'
    BY NoCallIsACall DEF IInv, Called, EditAnswered
<1> QED  BY <1>1, <1>2, <1>3, <1>4 DEF IInv

LEMMA SkipAnsweredStep ==
    ASSUME IInv, SkipAnswered
    PROVE  IInv'
<1>1. Stored' /\ due \in BOOLEAN
    BY StoredStays DEF IInv, SkipAnswered, Shown
<1>2. save.next \in Heats \cup {NoHeat}
    BY DEF IInv, Called, Saves
<1>3. CASE save.answer = "stored"
  <2>1. /\ page' = Advanced(page, save.next) /\ aborting' = TRUE /\ due' = TRUE
        /\ UNCHANGED session /\ ShowIfUp(flow)
      BY <1>3 DEF SkipAnswered
  <2>2. page' \in Pages /\ Shown'
      BY <1>1, <1>2, <2>1, AdvanceKeeps DEF SkipAnswered
  <2>3. Followed' /\ arming' \subseteq Heats
      BY <2>1, <2>2, ShowIfUpFollows DEF SkipAnswered
  <2>4. Called'
      BY <2>1, <2>3, NoCallIsACall DEF IInv, Called, SkipAnswered
  <2> QED  BY <1>1, <2>2, <2>3, <2>4 DEF IInv
<1>4. CASE save.answer # "stored"
  <2>1. UNCHANGED <<page, session, flow, arming, aborting, due>>
      BY <1>4 DEF SkipAnswered
  <2>2. Shown'
      BY <2>1, ShownStays DEF IInv, Shown, SkipAnswered, server
  <2>3. Followed'
      BY <2>1, FollowedStays DEF IInv, SkipAnswered
  <2>4. Called'
      BY <2>1, NoCallIsACall DEF IInv, Called, SkipAnswered
  <2> QED  BY <1>1, <2>2, <2>3, <2>4 DEF IInv
<1> QED  BY <1>3, <1>4

LEMMA ClearAnsweredStep ==
    ASSUME IInv, ClearAnswered
    PROVE  IInv'
<1>1. Stored'
    BY StoredStays DEF IInv, ClearAnswered
<1>2. /\ page \in Pages /\ Truthful(page, due) /\ due \in BOOLEAN /\ save.heat \in Heats
      /\ Listed(page.view) # {}
    BY DEF IInv, Called, Shown, ClearAnswered, Saves, NoSave
<1>3. CASE save.answer = "stored"
  <2>1. /\ page' = Advanced(page, save.heat)
        /\ BringUp(flow)
        /\ due' = TRUE
      BY <1>3 DEF ClearAnswered
  <2>2. page' \in Pages /\ page'.view = page.view /\ Truthful(page', TRUE)
      BY <1>2, <2>1, AdvancedIsTruthful DEF Truthful
  <2>3. Shown'
      BY <2>1, <2>2 DEF IInv, Shown, ClearAnswered
  <2>4. Followed' /\ arming' \subseteq Heats
      BY <2>1, <2>2, BringUpFollows
  <2>5. Called'
      BY <2>4, NoCallIsACall DEF IInv, Called, ClearAnswered
  <2> QED  BY <1>1, <2>3, <2>4, <2>5 DEF IInv
<1>4. CASE save.answer # "stored"
  <2>1. UNCHANGED <<page, session, flow, mounted, arming>> /\ due' = due
      BY <1>2, <1>4 DEF ClearAnswered
  <2>2. Shown'
      BY <2>1, ShownStays DEF IInv, Shown, ClearAnswered, server
  <2>3. Followed'
      BY <2>1, FollowedStays DEF IInv
  <2>4. Called'
      BY <2>1, NoCallIsACall DEF IInv, Called, ClearAnswered
  <2> QED  BY <1>1, <2>2, <2>3, <2>4 DEF IInv
<1> QED  BY <1>3, <1>4

LEMMA ScheduleAnsweredStep ==
    ASSUME IInv, ScheduleAnswered
    PROVE  IInv'
<1>1. page \in Pages /\ Truthful(page, due) /\ OnScreen(page.view, NoHeat) \in Heats
    BY OnScreenIsListed DEF IInv, Shown, Pages
<1>2. page' \in Pages /\ page'.view = page.view /\ Truthful(page', TRUE)
    BY <1>1 DEF ScheduleAnswered, Pages, Truthful
<1>3. Stored'
    BY StoredStays DEF IInv, ScheduleAnswered
<1>4. Shown'
    BY <1>2 DEF IInv, Shown, ScheduleAnswered
<1>5. Followed' /\ arming' \subseteq Heats
    BY <1>2, ShowIfUpFollows DEF ScheduleAnswered
<1>6. Called'
    BY <1>5 DEF IInv, Called, ScheduleAnswered
<1> QED  BY <1>3, <1>4, <1>5, <1>6 DEF IInv

\* The timer is armed or let go, at this browser's request.
LEMMA TimerCallSteps ==
    ASSUME IInv, NEW h \in Heats, PrepareServed(h) \/ AbortServed
    PROVE  IInv'
<1>1. NoHeat \notin Heats
    BY HeatsAssumption DEF NoHeat
<1>2. timer' = timer \/ timer' = Idle \/ timer' = [state |-> "ARMED", heat |-> h]
    BY DEF PrepareServed, AbortServed
<1>3. Stored'
    BY <1>1, <1>2 DEF IInv, Stored, Idle, PrepareServed, AbortServed
<1>4. Shown'
    BY ShownStays DEF IInv, Shown, PrepareServed, AbortServed, feed
<1>5. Followed'
    BY FollowedStays DEF IInv, PrepareServed, AbortServed
<1>6. Called'
    BY DEF IInv, Called, PrepareServed, AbortServed
<1> QED  BY <1>3, <1>4, <1>5, <1>6 DEF IInv

\* The track and the other browsers.
LEMMA TrackSteps ==
    ASSUME IInv, GateOpens \/ RunEnds \/ TimerGivesUp
    PROVE  IInv'
<1>1. merges \subseteq Heats /\ due \in BOOLEAN /\ result \in Schedules
      /\ timer \in [state : {"IDLE", "ARMED", "RUNNING"}, heat : Heats \cup {NoHeat}]
      /\ (timer.state # "IDLE" => timer.heat # NoHeat)
    BY DEF IInv, Shown, Stored
<1>2. CASE GateOpens
  <2>1. Stored'
      BY <1>1, <1>2 DEF IInv, Stored, GateOpens
  <2> QED  BY <1>1, <1>2, <2>1, ElsewhereIsElsewhere DEF GateOpens, feed
<1>3. CASE RunEnds
  <2>1. timer.heat \in Heats
      BY <1>1, <1>3 DEF RunEnds
  <2>2. result' \in Schedules /\ Listed(result') = Listed(result) \cup {timer.heat}
      BY <1>1, <1>3, <2>1, RecordedIsASchedule DEF RunEnds, Outcomes
  <2>3. Stored'
      BY <1>3, <2>1, <2>2 DEF Stored, RunEnds, Idle
  <2> QED  BY <1>1, <1>3, <2>3, ElsewhereIsElsewhere DEF RunEnds, TellsRefetch
<1>4. CASE TimerGivesUp
  <2>1. Stored'
      BY <1>1, <1>4 DEF IInv, Stored, TimerGivesUp, Idle
  <2> QED  BY <1>1, <1>4, <2>1, ElsewhereIsElsewhere DEF TimerGivesUp, feed
<1> QED  BY <1>2, <1>3, <1>4

LEMMA CorrectStep ==
    ASSUME IInv, NEW h \in Heats, Correct(h)
    PROVE  IInv'
<1>1. PICK outcome \in {"timed", "empty"} : Store(h, outcome, h)
    BY DEF Correct
<1>2. outcome \in Outcomes /\ outcome # "absent"
    BY DEF Outcomes
<1>3. Stored' /\ Listed(result') = Listed(result)
    BY <1>1, <1>2, StoreKeepsTheList DEF IInv, Correct
<1> QED  BY <1>3, ElsewhereIsElsewhere DEF IInv, Shown, Correct, TellsHeat

LEMMA ScheduleSteps ==
    ASSUME IInv, NEW h \in Heats, Append(h) \/ Delete(h) \/ ArmElsewhere(h)
    PROVE  IInv'
<1>1. merges \subseteq Heats /\ due \in BOOLEAN /\ result \in Schedules /\ Listed(result) # {}
      /\ NoHeat \notin Heats
    BY HeatsAssumption DEF IInv, Shown, Stored, NoHeat
<1>2. CASE Append(h)
  <2>1. result' \in Schedules /\ Listed(result) \subseteq Listed(result')
      BY <1>1, <1>2 DEF Append, Schedules, Outcomes, Listed
  <2>2. Stored'
      BY <1>1, <1>2, <2>1 DEF IInv, Stored, Append
  <2> QED  BY <1>1, <1>2, <2>2, ElsewhereIsElsewhere DEF Append, TellsRefetch
<1>3. CASE Delete(h)
  <2>1. result' \in Schedules
      BY <1>1, <1>3 DEF Delete, Schedules, Outcomes
  <2>2. PICK other \in Listed(result) : other # h
      BY <1>1, <1>3 DEF Delete, Unfinished
  <2>3. other \in Listed(result')
      BY <1>1, <1>3, <2>2 DEF Delete, Schedules, Listed
  <2>4. timer' = timer \/ timer' = Idle
      BY <1>3, RevalidatedTimer DEF Delete
  <2>5. Stored'
      BY <2>1, <2>3, <2>4, IdleIsATimer DEF IInv, Stored
  <2> QED  BY <1>1, <1>3, <2>5, ElsewhereIsElsewhere DEF Delete, TellsRefetch
<1>4. CASE ArmElsewhere(h)
  <2>1. Stored'
      BY <1>1, <1>4 DEF IInv, Stored, ArmElsewhere
  <2> QED  BY <1>1, <1>4, <2>1, ElsewhereIsElsewhere DEF ArmElsewhere, feed
<1> QED  BY <1>2, <1>3, <1>4

LEMMA StutteringStep ==
    ASSUME IInv, UNCHANGED vars
    PROVE  IInv'
<1>1. UNCHANGED <<server, page, session, flow, mounted, feed>>
      /\ UNCHANGED <<editing, asking, calls>>
    BY DEF vars, server
<1>2. Called'
    BY <1>1, CalledStays DEF IInv
<1> QED  BY <1>1, <1>2, OnlyCallsChange

LEMMA StepsKeepIt == IInv /\ [Next]_vars => IInv'
<1> SUFFICES ASSUME IInv, [Next]_vars PROVE IInv'
    OBVIOUS
<1>1. CASE \/ Refetch \/ SessionArrives \/ Tick
           \/ NextHeat \/ CancelCountdown \/ DismissSummary \/ StartNextRound
    BY <1>1, RefetchStep, SessionArrivesStep, TickStep, NextHeatStep,
       CancelCountdownStep, DismissSummaryStep, StartNextRoundStep
<1>2. CASE OpenEditor \/ CloseEditor \/ SaveEditor
    BY <1>2, EditorSteps
<1>3. CASE AskSkip \/ DeclineSkip \/ ConfirmSkip
    BY <1>3, QuestionSteps
<1>4. CASE ResetHeat \/ LeaveTab \/ ReturnToTab \/ Reload
    BY <1>4, ResetHeatStep, LeaveTabStep, ReturnToTabStep, ReloadStep
<1>5. CASE SaveServed \/ EditAnswered \/ SkipAnswered \/ ClearAnswered \/ ScheduleAnswered
    BY <1>5, SaveServedStep, EditAnsweredStep, SkipAnsweredStep, ClearAnsweredStep,
       ScheduleAnsweredStep
<1>6. CASE AbortServed
  <2>1. PICK h : h \in Heats
      BY DEF IInv, Stored, Listed
  <2> QED  BY <1>6, <2>1, TimerCallSteps
<1>7. CASE GateOpens \/ RunEnds \/ TimerGivesUp
    BY <1>7, TrackSteps
<1>8. ASSUME NEW h \in Heats,
             \/ Merge(h)
             \/ RunHeat(h) \/ ReRunHeat(h)
             \/ PrepareServed(h)
             \/ Correct(h) \/ Append(h) \/ Delete(h) \/ ArmElsewhere(h)
      PROVE  IInv'
    BY <1>8, MergeStep, RunHeatStep, ReRunHeatStep, TimerCallSteps, CorrectStep,
       ScheduleSteps
<1>9. CASE UNCHANGED vars
    BY <1>9, StutteringStep
<1> QED  BY <1>1, <1>2, <1>3, <1>4, <1>5, <1>6, <1>7, <1>8, <1>9 DEF Next

-----------------------------------------------------------------------------
(* What the screen may be trusted for.                                     *)

\* In every behaviour: the machine is abreast of what the page shows it, the
\* page's summaries are about the heats in view, and without a fetch under way
\* those are the heats the server lists.
THEOREM Invariant == Spec => []IInv
BY InitIsGood, StepsKeepIt, PTL DEF Spec

\* Every variable keeps to its type; the heat on screen is always a heat of the
\* race, whatever is deleted, appended or rewritten meanwhile.
THEOREM TypeCorrect == Spec => []TypeOK
<1>1. IInv => TypeOK
  <2> SUFFICES ASSUME IInv PROVE TypeOK
      OBVIOUS
  <2>1. flow \in Flows
      BY InitialFlowIsAFlow DEF IInv, Followed, Abreast
  <2> QED  BY <2>1 DEF IInv, Stored, Shown, Followed, Called, TypeOK, Schedules, Pages,
                       Sessions, Flows, Saves
<1> QED  BY <1>1, Invariant, PTL

\* No summary is raised, or left on screen, that is not true of the race the
\* page shows: RaceControl clears them while it renders and raceFlow follows.
THEOREM SummariesAreTrue == Spec => []SummaryIsTrue
<1>1. IInv => SummaryIsTrue
  <2> SUFFICES ASSUME IInv PROVE SummaryIsTrue
      OBVIOUS
  <2>1. /\ page.roundSummary # NoRound => page.roundSummary \in page.decided
        /\ page.raceSummary # {} /\ ~due =>
              page.raceSummary = Listed(page.view) /\ RaceComplete(page.view)
      BY DEF IInv, Shown, Truthful
  <2>2. CASE mounted
    <3>1. Abreast(flow, Now)
        BY <2>2 DEF IInv, Followed
    <3>2. Now.round = page.roundSummary /\ Now.race = page.raceSummary
        BY ObservationOfAPage DEF IInv, Shown, Followed, Now
    <3> QED  BY <2>1, <3>1, <3>2 DEF SummaryIsTrue, Abreast
  <2>3. CASE ~mounted
    <3>1. flow.screen = "WATCHING"
        BY <2>3 DEF IInv, Followed, InitialFlow
    <3> QED  BY <2>1, <3>1 DEF SummaryIsTrue
  <2> QED  BY <2>2, <2>3 DEF IInv, Followed
<1> QED  BY <1>1, Invariant, PTL

\* The countdown never runs over a heat without times, never with nowhere to
\* go, and never over the heat whose countdown the operator called off.
THEOREM CountdownsHaveReason == Spec => []CountdownHasReason
<1>1. IInv => CountdownHasReason
  <2> SUFFICES ASSUME IInv, flow.screen = "COUNTING_DOWN"
               PROVE  /\ page.view[page.selected] = "timed"
                      /\ NextAfter(page.view, page.selected) # NoHeat
                      /\ flow.cancelled # page.selected
      BY DEF CountdownHasReason
  <2>1. mounted
      BY DEF IInv, Followed, InitialFlow
  <2>2. ShouldCountDown(Now) /\ flow.cancelled # Now.heat
      BY <2>1 DEF IInv, Followed, Abreast
  <2>3. /\ Now.heat = page.selected
        /\ Now.timed = (page.view[page.selected] = "timed")
        /\ Now.next = (NextAfter(page.view, page.selected) # NoHeat)
      BY ObservationOfAPage DEF IInv, Shown, Followed, Now
  <2> QED  BY <2>2, <2>3 DEF ShouldCountDown
<1> QED  BY <1>1, Invariant, PTL

\* A step that brings the page a new copy of the race shows the heat it showed,
\* if there still is that heat; only a reload chooses anew.
LEMMA ViewMovesNothing ==
    ASSUME IInv, [Next]_vars, page'.view # page.view, ~Reload,
           page.selected \in Listed(page'.view)
    PROVE  page'.selected = page.selected
<1>1. /\ page \in Pages /\ Truthful(page, due) /\ Listed(page.view) # {}
      /\ result \in Schedules /\ Listed(result) # {}
    BY DEF IInv, Shown, Stored
<1>2. CASE Refetch
    BY <1>1, <1>2, RefetchedIsTruthful DEF Refetch
<1>3. ASSUME NEW h \in Heats, Merge(h)
      PROVE  page'.selected = page.selected
  <2>1. PICK outcome \in Payload(h) :
          LET v == IF h \in Listed(page.view)
                   THEN [page.view EXCEPT ![h] = outcome] ELSE page.view
          IN  page' = IF due THEN [page EXCEPT !.view = v] ELSE Noticed(page, v)
      BY <1>3 DEF Merge
  <2> DEFINE v == IF h \in Listed(page.view)
                  THEN [page.view EXCEPT ![h] = outcome] ELSE page.view
  <2>2. v \in Schedules /\ Listed(v) = Listed(page.view)
      BY MergedSchedule
  <2>3. page' = IF due THEN [page EXCEPT !.view = v] ELSE Noticed(page, v)
      BY <2>1
  <2> HIDE DEF v
  <2>4. CASE due
      BY <1>1, <2>3, <2>4 DEF Pages
  <2>5. CASE ~due
    <3>1. Listed(v) # {} /\ page' = Noticed(page, v)
        BY <1>1, <2>2, <2>3, <2>5 DEF IInv, Shown
    <3> QED  BY <1>1, <2>2, <3>1, NoticedIsTruthful
  <2> QED  BY <2>4, <2>5
<1>4. \/ Refetch
      \/ \E h \in Heats : Merge(h)
      \/ UNCHANGED page
      \/ \E next \in Heats \cup {NoHeat} : page' = Advanced(page, next)
      \/ \E h \in Heats : page' = [page EXCEPT !.selected = h]
  <2>1. /\ {save.next, save.heat} \subseteq Heats \cup {NoHeat}
        /\ OnScreen(page.view, NoHeat) \in Heats
      BY <1>1, OnScreenIsListed DEF IInv, Called, Saves, Pages
  <2> QED  BY <2>1, NextOnScreen
           DEF Next, SessionArrives, Tick, NextHeat, CancelCountdown, DismissSummary,
               StartNextRound, OpenEditor, CloseEditor, SaveEditor, AskSkip, DeclineSkip,
               ConfirmSkip, ResetHeat, LeaveTab, ReturnToTab, SaveServed, EditAnswered,
               SkipAnswered, ClearAnswered, ScheduleAnswered, AbortServed, GateOpens, RunEnds,
               TimerGivesUp,
               RunHeat, ReRunHeat, PrepareServed, Correct, Append, Delete, ArmElsewhere,
               Elsewhere, vars
<1>5. CASE \E next \in Heats \cup {NoHeat} : page' = Advanced(page, next)
    BY <1>1, <1>5, AdvancedIsTruthful
<1>6. CASE \E h \in Heats : page' = [page EXCEPT !.selected = h]
    BY <1>1, <1>6 DEF Pages
<1>7. CASE UNCHANGED page
    BY <1>7
<1> QED  BY <1>2, <1>3, <1>4, <1>5, <1>6, <1>7

\* The heat on screen is pinned: no answer of the server and no event takes the
\* operator off a heat that still exists (#130).
THEOREM HeatsStayOnScreen == Spec => HeatOnScreenIsPinned
<1>1. IInv /\ [Next]_vars =>
        [page'.view # page.view /\ page.selected \in Listed(page'.view) /\ ~Reload
            => page'.selected = page.selected]_page
    BY ViewMovesNothing
<1> QED  BY <1>1, Invariant, PTL DEF Spec, HeatOnScreenIsPinned

=============================================================================
