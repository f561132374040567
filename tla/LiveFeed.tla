------------------------------ MODULE LiveFeed ------------------------------
(***************************************************************************)
(* One browser's live connection: the socket and its watchdog              *)
(* (frontend/src/api/liveConnection.ts) and the two kinds of subscription  *)
(* it carries.  A snapshot feed (heatSession and its like) is woken and    *)
(* sends the race as it stands; the event feed (raceStateChanged) sends    *)
(* each change to be merged.  Both are fed by the server's broadcaster     *)
(* (backend/api/pubsub.py).                                                *)
(*                                                                         *)
(* The hard part is the half-open socket, which looks open from both ends  *)
(* and carries nothing, and the windows around a subscription in which a   *)
(* change is published to nobody.                                          *)
(***************************************************************************)
EXTENDS Naturals, Sequences, FiniteSetsExt

CONSTANTS
    Heats,       \* what the race holds, each with a version of its result
    Nothing,     \* no subscription, no timer
    MaxQueue,    \* MAX_QUEUE_SIZE, scaled down
    MaxWrites,   \* bound: the results written, all told
    MaxFaults    \* bound: links that die, sockets that close, pongs that are late

ASSUME BoundsAssumption ==
    MaxQueue \in Nat \ {0} /\ MaxWrites \in Nat /\ MaxFaults \in Nat

\* What an event carries: a heat as it is when it is published.
Events == [kind : {"event"}, heat : Heats, version : Nat]
ASSUME NothingAssumption == Nothing \notin Nat /\ Nothing \notin Seq(Events)

VARIABLES
    stored,    \* the race in the database: the version of each heat
    pending,   \* results committed by a resolver that has still to publish them
    wakes,     \* the snapshot feed's queue, a count of doorbells, or Nothing
    events,    \* the event feed's queue, or Nothing
    socket,    \* the client's socket: [id, open, dead]
    wire,      \* the frames on their way to the client
    ping,      \* whether a ping of this socket waits for its pong
    timer,     \* the watchdog's timer: the socket it was set for, or Nothing
    display,   \* what the snapshot feed shows
    page,      \* what merging the event feed has made of the race
    missed,    \* history: heats whose event this client was not there for
    faults     \* bound: the faults so far

server == <<stored, pending, wakes, events>>
client == <<socket, ping, timer, display, page>>
vars == <<server, client, wire, missed, faults>>

Subscribed == events # Nothing
EventFor(h) == [kind |-> "event", heat |-> h, version |-> stored[h]]
Snapshot == [kind |-> "snapshot", view |-> stored]
Pong == [kind |-> "pong"]

HeatsIn(frames) == {frames[i].heat : i \in {j \in DOMAIN frames : frames[j].kind = "event"}}

\* What the server sends on a dead link goes nowhere.
Sent(frame) == IF socket.dead THEN wire ELSE Append(wire, frame)

-----------------------------------------------------------------------------
(* The server.                                                             *)

\* A resolver commits a result; it may await before it publishes.
Write(h) ==
    /\ MapThenSumSet(LAMBDA g : stored[g], Heats) < MaxWrites
    /\ stored' = [stored EXCEPT ![h] = @ + 1]
    /\ pending' = [pending EXCEPT ![h] = @ + 1]
    /\ UNCHANGED <<wakes, events, client, wire, missed, faults>>

\* Mutant: nothing makes room.
RungAll(queue) == IF queue = Nothing THEN Nothing ELSE queue + 1

\* _PubSub.publish into a bounded queue: the oldest makes room.
Rung(queue) == IF queue = Nothing THEN Nothing
               ELSE IF queue = MaxQueue THEN queue ELSE queue + 1

\* Mutant: the event feed is bounded like the others.
QueuedBounded(queue, event) ==
    IF queue = Nothing THEN Nothing
    ELSE Append(IF Len(queue) = MaxQueue THEN Tail(queue) ELSE queue, event)

\* ... into an unbounded one.
Queued(queue, event) == IF queue = Nothing THEN Nothing ELSE Append(queue, event)

\* Both feeds listen on the race's channel; the payload is read as it is
\* published.
Publish(h) ==
    /\ pending[h] > 0
    /\ pending' = [pending EXCEPT ![h] = @ - 1]
    /\ wakes' = Rung(wakes)
    /\ events' = Queued(events, EventFor(h))
    /\ missed' = IF Subscribed /\ ~socket.dead THEN missed ELSE missed \cup {h}
    /\ UNCHANGED <<stored, client, wire, faults>>

\* The snapshot feed wakes, and reads the database again.
SendSnapshot ==
    /\ wakes # Nothing /\ wakes > 0
    /\ wakes' = wakes - 1
    /\ wire' = Sent(Snapshot)
    /\ UNCHANGED <<stored, pending, events, client, missed, faults>>

SendEvent ==
    /\ Subscribed /\ events # <<>>
    /\ events' = Tail(events)
    /\ wire' = Sent(Head(events))
    /\ UNCHANGED <<stored, pending, wakes, client, missed, faults>>

\* Mutant: the opening snapshot is taken before the queue is registered.
ServeSnapshotFirst ==
    /\ socket.open /\ ~socket.dead
    /\ \/ /\ ~Subscribed
          /\ wakes' = Nothing
          /\ events' = <<>>
          /\ wire' = Sent(Snapshot)
       \/ /\ Subscribed /\ wakes = Nothing
          /\ wakes' = 0
          /\ UNCHANGED <<events, wire>>
    /\ UNCHANGED <<stored, pending, client, missed, faults>>

\* The client's subscriptions arrive: the queues first, then the snapshot.
Serve ==
    /\ socket.open /\ ~socket.dead /\ ~Subscribed
    /\ wakes' = 0
    /\ events' = <<>>
    /\ wire' = Sent(Snapshot)
    /\ UNCHANGED <<stored, pending, client, missed, faults>>

-----------------------------------------------------------------------------
(* The client.                                                             *)

Deliver ==
    /\ socket.open /\ wire # <<>>
    /\ wire' = Tail(wire)
    /\ LET frame == Head(wire)
       IN  \/ /\ frame.kind = "snapshot"
              /\ display' = frame.view
              /\ UNCHANGED <<page, missed, ping, timer>>
           \/ /\ frame.kind = "event"
              /\ page' = [page EXCEPT ![frame.heat] = frame.version]
              /\ missed' = missed \ {frame.heat}
              /\ UNCHANGED <<display, ping, timer>>
           \/ \* pingWatchdog.pong
              /\ frame.kind = "pong"
              /\ ping' = FALSE
              /\ timer' = Nothing
              /\ UNCHANGED <<display, page, missed>>
    /\ UNCHANGED <<server, socket, faults>>

\* pingWatchdog.connected: whatever was still waited for is forgotten.
Connected == timer' = Nothing

\* The retry logic: a new socket, acknowledged.
Connect ==
    /\ ~socket.open
    /\ socket' = [id |-> socket.id + 1, open |-> TRUE, dead |-> FALSE]
    /\ ping' = FALSE
    /\ Connected
    /\ UNCHANGED <<server, wire, display, page, missed, faults>>

\* Mutant: nobody waits for the pong.
WatchdogAsleep == UNCHANGED timer

\* pingWatchdog.ping: the clock starts afresh.
Watchdog == timer' = socket.id

\* keepAlive: one ping at a time.
KeepAlive ==
    /\ socket.open /\ ~ping
    /\ ping' = TRUE
    /\ Watchdog
    /\ UNCHANGED <<server, socket, display, page, wire, missed, faults>>

\* The server answers, unless its answer is on its way already.
Answer ==
    /\ socket.open /\ ~socket.dead /\ ping
    /\ \A i \in DOMAIN wire : wire[i] # Pong
    /\ wire' = Sent(Pong)
    /\ UNCHANGED <<server, client, missed, faults>>

\* The socket is closed: what was on its way, and the generators behind it, go.
Closed ==
    /\ socket' = [socket EXCEPT !.open = FALSE]
    /\ wakes' = Nothing
    /\ events' = Nothing
    /\ wire' = <<>>
    /\ missed' = missed \cup HeatsIn(wire) \cup (IF Subscribed THEN HeatsIn(events) ELSE {})
    /\ UNCHANGED <<stored, pending, display, page, ping>>

\* The pong did not come.  The watchdog closes the socket it watches, which is
\* the one connected last, if it is open.  A link that lives answers in time,
\* faults apart.
PongTimeout ==
    /\ timer # Nothing
    /\ timer' = Nothing
    /\ IF timer = socket.id /\ socket.open /\ ~socket.dead
       THEN faults < MaxFaults /\ faults' = faults + 1 ELSE UNCHANGED faults
    /\ IF socket.open THEN Closed ELSE UNCHANGED <<server, socket, ping, display, page,
                                                   wire, missed>>

-----------------------------------------------------------------------------
(* The venue.                                                              *)

\* The wifi drops the client: no close event at either end.
LinkDies ==
    /\ faults < MaxFaults
    /\ faults' = faults + 1
    /\ socket.open /\ ~socket.dead
    /\ socket' = [socket EXCEPT !.dead = TRUE]
    /\ wire' = <<>>
    /\ missed' = missed \cup HeatsIn(wire) \cup (IF Subscribed THEN HeatsIn(events) ELSE {})
    /\ UNCHANGED <<server, ping, timer, display, page>>

\* The socket closes with an event: the server is restarted, or notices.
SocketCloses ==
    /\ faults < MaxFaults
    /\ faults' = faults + 1
    /\ socket.open
    /\ Closed
    /\ UNCHANGED timer

-----------------------------------------------------------------------------
\* The page has fetched the race as it stands, and connects.
Init ==
    /\ stored = [h \in Heats |-> 0]
    /\ pending = stored
    /\ display = stored
    /\ page = stored
    /\ wakes = Nothing
    /\ events = Nothing
    /\ socket = [id |-> 0, open |-> FALSE, dead |-> FALSE]
    /\ wire = <<>>
    /\ ping = FALSE
    /\ timer = Nothing
    /\ missed = {}
    /\ faults = 0

Next ==
    \/ \E h \in Heats : Write(h) \/ Publish(h)
    \/ SendSnapshot \/ SendEvent \/ Serve \/ Answer
    \/ Deliver \/ Connect \/ KeepAlive \/ PongTimeout
    \/ LinkDies \/ SocketCloses

Spec == Init /\ [][Next]_vars

\* The event loop runs its tasks, frames on a live link arrive, the client
\* retries for ever (retryAttempts: Infinity), and its timers fire.
FairSpec ==
    /\ Spec
    /\ \A h \in Heats : WF_vars(Publish(h))
    /\ WF_vars(SendSnapshot) /\ WF_vars(SendEvent) /\ WF_vars(Serve) /\ WF_vars(Answer)
    /\ WF_vars(Deliver) /\ WF_vars(Connect) /\ WF_vars(KeepAlive) /\ WF_vars(PongTimeout)

-----------------------------------------------------------------------------
(* Properties.                                                             *)

Frames == [kind : {"snapshot"}, view : [Heats -> Nat]] \cup Events \cup {Pong}

TypeOK ==
    /\ {stored, pending, display, page} \subseteq [Heats -> Nat]
    /\ wakes \in 0..MaxQueue \cup {Nothing}
    /\ events \in Seq(Events) \cup {Nothing}
    /\ wire \in Seq(Frames)
    /\ socket \in [id : Nat, open : BOOLEAN, dead : BOOLEAN]
    /\ ping \in BOOLEAN
    /\ timer \in Nat \cup {Nothing}
    /\ missed \subseteq Heats
    /\ faults \in 0..MaxFaults

\* While a client is there for it, no change is lost: a heat whose events it
\* was there for shows its last result once they have arrived, whatever queued
\* up meanwhile (#896).
NothingIsLostWhileConnected ==
    \A h \in Heats :
        /\ h \notin missed /\ pending[h] = 0
        /\ h \notin HeatsIn(wire)
        /\ Subscribed => h \notin HeatsIn(events)
        => page[h] = stored[h]

\* A live screen ends up showing the race as it stands, through every link that
\* dies and every socket that closes.
DisplayCatchesUp == <>[](display = stored)

=============================================================================
