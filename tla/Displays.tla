------------------------------ MODULE Displays ------------------------------
(***************************************************************************)
(* An audience screen on the operator's leash (backend/services/displays,  *)
(* Subscription.display_assignment).  A screen registers by subscribing:   *)
(* the server runs one generator for each subscription, and the registry   *)
(* keeps one row for the screen however often it comes and goes.  A        *)
(* mutation writes the row and rings every generator; a generator that     *)
(* wakes sends the row as it is by then.  The screen follows the view it   *)
(* is assigned, and the ceremony takes the operator's steps.               *)
(*                                                                         *)
(* The hard part is that neither side knows when the other has gone: a     *)
(* generator outlives the page it served until the server notices, a row   *)
(* outlives them all until it is forgotten, and a step is an event that    *)
(* travels as a state.                                                     *)
(***************************************************************************)
EXTENDS Integers, Sequences, FiniteSets

CONSTANTS
    Leashes,      \* names for the generators that may exist at once
    Nothing,      \* no row, no generator, no payload, no counter
    LastAward,    \* the last of the awards, which are numbered from 0
    Days,         \* the days looked at: what may be done on each
    MaxCommands,  \* bound: the operator's commands
    MaxBreaks,    \* bound: the times the screen loses its connection
    MaxKeys       \* bound: the presenter's key presses at the screen

ASSUME LeashesAssumption == IsFiniteSet(Leashes) /\ Leashes # {}
ASSUME AwardsAssumption == LastAward \in Nat
ASSUME BoundsAssumption == MaxCommands \in Nat /\ MaxBreaks \in Nat /\ MaxKeys \in Nat

Rows == [connections : Nat, assigned : BOOLEAN, view : {"AWARDS", "STANDINGS"},
         seq : Nat, delta : {-1, 0, 1}]
ASSUME NothingAssumption == Nothing \notin Nat \cup Leashes \cup Rows

Pages == {"observation", "ceremony"}

VARIABLES
    row,           \* DisplayRegistry's row for the screen, or Nothing
    rings,         \* each generator: the doorbells in its queue, or Nothing
    leash,         \* the generator the screen is subscribed to, or Nothing
    wire,          \* what that generator has sent and the screen has not seen
    page,          \* the page the screen is on
    told,          \* the last payload that page received, or Nothing
    obeyed,        \* AwardCeremony's obeyedSeq, or Nothing
    index,         \* the award on screen
    taken,         \* history: the steps the page has taken since it came up
    intermission,  \* whether a break has taken the screens over
    asked,         \* history: the steps asked for since the page came up
    wanted,        \* history: the award those steps lead to
    owed,          \* history: each of them found the page listening
    left,          \* what is left of the bounds: [commands, breaks, keys]
    day            \* the one of Days this behaviour is about, chosen once

registry == <<row, rings>>
screen == <<page, told, obeyed, index, taken>>
history == <<asked, wanted, owed>>
vars == <<registry, leash, wire, screen, intermission, history, left, day>>

Live == {l \in Leashes : rings[l] # Nothing}
PageOf(view) == IF view = "AWARDS" THEN "ceremony" ELSE "observation"

NewRow == [connections |-> 1, assigned |-> FALSE, view |-> "STANDINGS", seq |-> 0, delta |-> 0]

-----------------------------------------------------------------------------
(* The registry.                                                           *)

\* DisplayRegistry.connect: a known screen keeps everything.
Connected(r) == IF r = Nothing THEN NewRow ELSE [r EXCEPT !.connections = @ + 1]

\* Mutant: the screen that left is still there.
DisconnectedNever(r) == r

\* Mutant: a count may go below 0.
DisconnectedTwice(r) == IF r = Nothing THEN r ELSE [r EXCEPT !.connections = @ - 1]

\* DisplayRegistry.disconnect: the row is kept, and a count never goes below 0.
Disconnected(r) ==
    IF r = Nothing \/ r.connections = 0 THEN r ELSE [r EXCEPT !.connections = @ - 1]

Payload(r) == [assigned |-> r.assigned, view |-> r.view, seq |-> r.seq, delta |-> r.delta]

\* stepIndex: clamped at both ends.
StepIndex(i, delta) ==
    IF i + delta < 0 THEN 0 ELSE IF i + delta > LastAward THEN LastAward ELSE i + delta

\* pubsub.publish: every generator's queue, none of which is bounded.
RingAll == rings' = [l \in Leashes |-> IF l \in Live THEN rings[l] + 1 ELSE Nothing]

-----------------------------------------------------------------------------
(* The generators.                                                         *)

\* Mutant: the opening payload is left to the first doorbell.
SubscribeSilently ==
    /\ leash = Nothing
    /\ leash' \in Leashes \ Live
    /\ rings' = [rings EXCEPT ![leash'] = 0]
    /\ row' = Connected(row)
    /\ wire' = <<>>
    /\ UNCHANGED <<screen, intermission, history, left, day>>

\* A page opens its subscription: the queue first, then the row, then the
\* opening payload.
Subscribe ==
    /\ leash = Nothing
    /\ leash' \in Leashes \ Live
    /\ rings' = [rings EXCEPT ![leash'] = 0]
    /\ row' = Connected(row)
    /\ wire' = <<Payload(row')>>
    /\ UNCHANGED <<screen, intermission, history, left, day>>

\* A doorbell wakes a generator: it reads the row, registers again if the row
\* has been forgotten, and sends it.
Wake(l) ==
    /\ l \in Live /\ rings[l] > 0
    /\ rings' = [rings EXCEPT ![l] = @ - 1]
    /\ row' = IF row = Nothing THEN Connected(row) ELSE row
    /\ wire' = IF l = leash THEN Append(wire, Payload(row')) ELSE wire
    /\ UNCHANGED <<leash, screen, intermission, history, left, day>>

\* The server notices that nobody is at the other end.
End(l) ==
    /\ l \in Live /\ l # leash
    /\ rings' = [rings EXCEPT ![l] = Nothing]
    /\ row' = Disconnected(row)
    /\ UNCHANGED <<leash, wire, screen, intermission, history, left, day>>

\* The server is restarted: the registry is in memory, and so are the sockets.
Restart ==
    /\ "restart" \in day
    /\ left.breaks > 0
    /\ left' = [left EXCEPT !.breaks = @ - 1]
    /\ row' = Nothing
    /\ rings' = [l \in Leashes |-> Nothing]
    /\ leash' = Nothing
    /\ wire' = <<>>
    /\ owed' = FALSE
    /\ UNCHANGED <<screen, intermission, asked, wanted, day>>

-----------------------------------------------------------------------------
(* The screen.                                                             *)

\* The page comes up with nothing: mounted afresh, not yet subscribed.
Fresh(p) ==
    /\ page' = p
    /\ told' = Nothing
    /\ obeyed' = Nothing
    /\ index' = 0 /\ taken' = 0
    /\ asked' = 0 /\ wanted' = 0
    /\ owed' = TRUE
    /\ leash' = Nothing
    /\ wire' = <<>>

\* Where a payload sends the screen, unless a break has it.
Follows(payload, onBreak) ==
    IF payload # Nothing /\ ~onBreak
       /\ payload.assigned /\ PageOf(payload.view) # page
    THEN PageOf(payload.view) ELSE page

\* The page moves by a step.  A row that was never stepped holds none.
Takes(delta) ==
    /\ index' = StepIndex(index, delta)
    /\ taken' = IF delta = 0 THEN taken ELSE taken + 1

\* Mutant: the payload a page arrives to is a step like any other.
ObeysAnything(payload) ==
    /\ obeyed' = payload.seq
    /\ IF payload.seq # obeyed THEN Takes(payload.delta) ELSE UNCHANGED <<index, taken>>

\* A new counter is a step, but for the one the page arrives to.
Obeys(payload) ==
    /\ obeyed' = payload.seq
    /\ IF obeyed # Nothing /\ payload.seq # obeyed
       THEN Takes(payload.delta) ELSE UNCHANGED <<index, taken>>

Deliver ==
    /\ leash # Nothing /\ wire # <<>>
    /\ LET payload == Head(wire)
       IN  IF Follows(payload, intermission) # page
           THEN Fresh(Follows(payload, intermission))
           ELSE /\ told' = payload
                /\ wire' = Tail(wire)
                /\ IF page = "ceremony"
                   THEN Obeys(payload) ELSE UNCHANGED <<obeyed, index, taken>>
                /\ UNCHANGED <<page, leash, history>>
    /\ UNCHANGED <<registry, intermission, left, day>>

\* One more step is asked for, forwards or backwards.
Asks(delta) ==
    /\ asked' = asked + 1
    /\ wanted' = StepIndex(wanted, delta)

\* A presenter's key at the screen, forwards or backwards (deltaForKey).
Key(delta) ==
    /\ "key" \in day
    /\ page = "ceremony"
    /\ left.keys > 0
    /\ left' = [left EXCEPT !.keys = @ - 1]
    /\ Takes(delta)
    /\ Asks(delta)
    /\ UNCHANGED <<registry, leash, wire, page, told, obeyed, intermission, owed, day>>

\* The connection breaks, and the page lives on; or the page is loaded again.
Break ==
    /\ left.breaks > 0
    /\ left' = [left EXCEPT !.breaks = @ - 1]
    /\ \/ /\ leash # Nothing
          /\ leash' = Nothing
          /\ wire' = <<>>
          /\ owed' = FALSE
          /\ UNCHANGED <<screen, asked, wanted>>
       \/ Fresh(page)
    /\ UNCHANGED <<registry, intermission, day>>

\* A break begins; when it ends the screen goes where it was told to meanwhile.
Intermission ==
    /\ "intermission" \in day
    /\ IF intermission
       THEN /\ intermission' = FALSE
            /\ IF Follows(told, FALSE) # page
               THEN Fresh(Follows(told, FALSE)) ELSE UNCHANGED <<screen, leash, wire,
                                                                 history>>
            /\ UNCHANGED left
       ELSE /\ left.commands > 0
            /\ left' = [left EXCEPT !.commands = @ - 1]
            /\ intermission' = TRUE
            /\ UNCHANGED <<screen, leash, wire, history>>
    /\ UNCHANGED <<registry, day>>

-----------------------------------------------------------------------------
(* The operator.  Each command is refused for a screen nobody has seen.    *)

Command(name) ==
    /\ name \in day
    /\ row # Nothing
    /\ left.commands > 0
    /\ left' = [left EXCEPT !.commands = @ - 1]
    /\ UNCHANGED <<leash, wire, screen, intermission, day>>

Assign(view) ==
    /\ Command("assign")
    /\ row' = [row EXCEPT !.assigned = TRUE, !.view = view]
    /\ RingAll
    /\ UNCHANGED history

\* A step forwards or backwards: the counter goes up, and the step itself is
\* overwritten.
Advance(delta) ==
    /\ Command("advance")
    /\ row' = [row EXCEPT !.seq = @ + 1, !.delta = delta]
    /\ RingAll
    /\ Asks(delta)
    /\ owed' = (owed /\ obeyed # Nothing)

\* Mutant: nobody tells the screen that it has been forgotten.
ForgetSilently ==
    /\ Command("forget")
    /\ row' = Nothing
    /\ UNCHANGED <<rings, history>>

Forget ==
    /\ Command("forget")
    /\ row' = Nothing
    /\ RingAll
    /\ UNCHANGED history

-----------------------------------------------------------------------------
Init ==
    /\ row = Nothing
    /\ rings = [l \in Leashes |-> Nothing]
    /\ leash = Nothing
    /\ wire = <<>>
    /\ page \in Pages
    /\ told = Nothing
    /\ obeyed = Nothing
    /\ index = 0 /\ taken = 0
    /\ intermission = FALSE
    /\ asked = 0 /\ wanted = 0
    /\ owed = TRUE
    /\ left = [commands |-> MaxCommands, breaks |-> MaxBreaks, keys |-> MaxKeys]
    /\ day \in Days

Next ==
    \/ Subscribe \/ Deliver \/ Break \/ Intermission \/ Restart \/ Forget
    \/ \E delta \in {-1, 1} : Key(delta) \/ Advance(delta)
    \/ \E view \in {"AWARDS", "STANDINGS"} : Assign(view)
    \/ \E l \in Leashes : Wake(l) \/ End(l)

Spec == Init /\ [][Next]_vars

\* The client retries for ever, the event loop runs every task that is ready,
\* frames arrive, a server notices in the end, and a break is over one day.
FairSpec ==
    /\ Spec
    /\ WF_vars(Subscribe) /\ WF_vars(Deliver)
    /\ \A l \in Leashes : WF_vars(Wake(l)) /\ WF_vars(End(l))
    /\ WF_vars(intermission /\ Intermission)

-----------------------------------------------------------------------------
(* Properties.                                                             *)

TypeOK ==
    /\ row \in Rows \cup {Nothing}
    /\ rings \in [Leashes -> Nat \cup {Nothing}]
    /\ leash \in Live \cup {Nothing}
    /\ leash = Nothing => wire = <<>>
    /\ page \in Pages
    /\ obeyed \in Nat \cup {Nothing}
    /\ {index, wanted} \subseteq 0..LastAward
    /\ {asked, taken} \subseteq Nat
    /\ {intermission, owed} \subseteq BOOLEAN

\* A row never counts more connections than there are: a screen that went away
\* is shown as gone once the server knows of it, which is how the operator
\* finds the projector that dropped off the wifi.
NoPhantomConnection == row # Nothing => row.connections <= Cardinality(Live)

\* A ceremony never takes more steps than were asked for, by the operator's list
\* and the keys at the screen together: no reconnection, no payload sent for
\* another reason and no restart of the server repeats a step.
NoStepIsTakenTwice == taken <= asked

\* The ceremony has held its connection since it came up, and nothing is on its
\* way to it.
CaughtUp ==
    /\ page = "ceremony" /\ owed /\ obeyed # Nothing
    /\ leash # Nothing /\ wire = <<>> /\ rings[leash] = 0

\* A step asked for while the ceremony holds its connection is taken: two
\* clicks that land while the connection is backed up are two steps.
EveryStepIsTaken == CaughtUp => taken = asked

\* A ceremony that has heard all its steps shows no award beyond the one they lead
\* to. Not so when a Previous and a Next land while the connection is backed up:
\* they come to one Next, which reveals an award.
NeverOvertakes == CaughtUp => index <= wanted

\* A screen that was forgotten while it is up comes back to the list (#758).
ForgottenScreenReturns == (leash # Nothing /\ row = Nothing) ~> row # Nothing

\* A screen ends on the page it was assigned, whatever it missed.
AssignmentIsFollowed ==
    <>[](row # Nothing /\ row.assigned => page = PageOf(row.view))

=============================================================================
