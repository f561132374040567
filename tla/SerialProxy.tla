----------------------------- MODULE SerialProxy -----------------------------
(***************************************************************************)
(* A browser that lends its serial port to the server                      *)
(* (frontend/src/context/SerialProxyContext.tsx). The server, looking for  *)
(* the timer (backend/services/timer/proxy.py), asks over a WebSocket for  *)
(* the port to be opened, and opened again with other framing for each     *)
(* device it tries; the page answers when it is open and relays what it    *)
(* reads.                                                                  *)
(*                                                                         *)
(* The page is a handful of asynchronous handlers over shared references:  *)
(* a press of Connect, each request to open the port, each socket's close  *)
(* event and the loop that reads. A handler is where it waits, and runs    *)
(* from one await to the next in a step. Press p makes socket p.           *)
(***************************************************************************)
EXTENDS Naturals

CONSTANTS
    MaxPresses,   \* bound: presses of Connect
    MaxAsks,      \* bound: framings the server asks one socket for
    MaxFaults     \* bound: sockets closed by the server or lost, a device
                  \* unplugged, an answer too late

ASSUME BoundsAssumption ==
    MaxPresses \in Nat \ {0} /\ MaxAsks \in Nat \ {0} /\ MaxFaults \in Nat

Sockets == 1..MaxPresses
Asks == 1..MaxAsks
None == 0

VARIABLES
    status,     \* what the page says of the connection
    wsRef,      \* the socket the page holds, or None
    link,       \* each socket: its readyState, and how it came to close
    detached,   \* the sockets whose onclose was taken away
    portRef,    \* whether the page believes it has the port open
    port,       \* the port: closed, opening, open or closing
    reader,     \* the socket whose loop holds the port's reader, or None
    reading,    \* readingRef: the loop has not been told to stop
    writing,    \* whether a command to the device holds the port's writer
    mishaps,    \* history: "cut off", the port was let go in the middle of a
                \* command; "late", it opened for a socket already closed
    pressed,    \* where the handler of each press waits
    asked,      \* where each request of each socket is
    shut,       \* where each socket's onclose handler waits
    answered,   \* the requests each socket has said `ready' to
    faults      \* bound: the faults so far

refs == <<wsRef, detached>>
writes == <<writing, mishaps>>
serial == <<portRef, port, reader, reading, writes>>
vars == <<status, refs, link, serial, pressed, asked, shut, answered, faults>>

Faulty == faults < MaxFaults /\ faults' = faults + 1

-----------------------------------------------------------------------------
(* Promises. A handler that waits for a promise that has settled goes on   *)
(* before anything else happens; one that waits for the port does not.     *)

LoopEnded == reader = None
Waits(where) == \E x \in DOMAIN where : where[x] = "stopping"
Settled ==
    LoopEnded => ~Waits(pressed) /\ ~Waits(shut) /\ \A s \in Sockets : ~Waits(asked[s])

\* port.close() is refused while a reader or a writer holds a lock, and unless
\* the port is open.
MayClose == port = "open" /\ LoopEnded /\ ~writing
ClosesPort == MayClose /\ port' = "closing"
LetsGoOfPort ==
    mishaps' = IF portRef /\ port = "open" /\ writing THEN mishaps \cup {"cut off"} ELSE mishaps

\* The reader is given back, and the loop comes to its end.
LoopStops ==
    /\ Settled
    /\ reader # None /\ ~reading
    /\ reader' = None
    /\ UNCHANGED <<writes, status, refs, link, portRef, port, reading, pressed, asked,
                   shut, answered, faults>>

\* The device is unplugged: the loop ends by itself and hangs up.
Unplugged ==
    /\ Settled
    /\ reader # None /\ reading
    /\ Faulty
    /\ reader' = None
    /\ link' = [link EXCEPT ![reader] = IF @ = "open" THEN "hung up" ELSE @]
    /\ UNCHANGED <<writes, status, refs, portRef, port, reading, pressed, asked, shut,
                   answered>>

-----------------------------------------------------------------------------
(* connect, and the disconnect it begins with.                             *)

\* Mutant of StopReading: the loop is told, and not made, to stop.
StopsNothing == UNCHANGED reading

\* stopReading up to its first await.
StopReading == reading' = FALSE

\* The button is there unless the page says `connecting' or `connected'.
Press(p) ==
    /\ Settled
    /\ status \in {"disconnected", "error"}
    /\ pressed[p] = "not yet" /\ \A q \in Sockets : q < p => pressed[q] # "not yet"
    /\ IF status = "error"
       THEN /\ StopReading
            /\ pressed' = [pressed EXCEPT ![p] = "stopping"]
            /\ UNCHANGED status
       ELSE /\ status' = "connecting"
            /\ pressed' = [pressed EXCEPT ![p] = "choosing"]
            /\ UNCHANGED reading
    /\ UNCHANGED <<writes, refs, link, portRef, port, reader, asked, shut, answered,
                   faults>>

Connecting(p) ==
    /\ portRef' = FALSE
    /\ status' = "connecting"
    /\ pressed' = [pressed EXCEPT ![p] = "choosing"]

\* Mutant of Disconnects: the loop is left to end by itself (#331).
DisconnectsAtOnce(p) ==
    /\ pressed[p] = "stopping"
    /\ LetsGoOfPort
    /\ detached' = detached \cup ({wsRef} \ {None})
    /\ link' = [s \in Sockets |->
                   IF s = wsRef /\ link[s] \in {"opening", "open"} THEN "hung up" ELSE link[s]]
    /\ wsRef' = None
    /\ IF portRef /\ MayClose
       THEN /\ ClosesPort
            /\ pressed' = [pressed EXCEPT ![p] = "closing"]
            /\ UNCHANGED <<status, portRef>>
       ELSE Connecting(p) /\ UNCHANGED port
    /\ UNCHANGED <<writing, reader, reading, asked, shut, answered, faults>>

\* disconnect, once the loop has ended: the socket is let go, then the port.
Disconnects(p) ==
    /\ LoopEnded /\ pressed[p] = "stopping"
    /\ LetsGoOfPort
    /\ detached' = detached \cup ({wsRef} \ {None})
    /\ link' = [s \in Sockets |->
                   IF s = wsRef /\ link[s] \in {"opening", "open"} THEN "hung up" ELSE link[s]]
    /\ wsRef' = None
    /\ IF portRef /\ MayClose
       THEN /\ ClosesPort
            /\ pressed' = [pressed EXCEPT ![p] = "closing"]
            /\ UNCHANGED <<status, portRef>>
       ELSE Connecting(p) /\ UNCHANGED port
    /\ UNCHANGED <<writing, reader, reading, asked, shut, answered, faults>>

Disconnected(p) ==
    /\ Settled
    /\ pressed[p] = "closing"
    /\ port' = "closed"
    /\ Connecting(p)
    /\ UNCHANGED <<writes, refs, link, reader, reading, asked, shut, answered, faults>>

\* The port was granted, or picked in the dialog, and the socket is made.
Chosen(p) ==
    /\ Settled
    /\ pressed[p] = "choosing"
    /\ pressed' = [pressed EXCEPT ![p] = "done"]
    /\ wsRef' = p
    /\ link' = [link EXCEPT ![p] = "opening"]
    /\ UNCHANGED <<status, detached, serial, asked, shut, answered, faults>>

\* The dialog was closed with nothing picked; or the browser refused to ask, or to
\* make a socket.
Dismissed(p) ==
    /\ Settled
    /\ pressed[p] = "choosing"
    /\ pressed' = [pressed EXCEPT ![p] = "done"]
    /\ status' \in {"disconnected", "error"}
    /\ UNCHANGED <<refs, link, serial, asked, shut, answered, faults>>

-----------------------------------------------------------------------------
(* The socket.                                                             *)

Opened(s) ==
    /\ Settled
    /\ link[s] = "opening"
    /\ link' = [link EXCEPT ![s] = "open"]
    /\ UNCHANGED <<status, refs, serial, pressed, asked, shut, answered, faults>>

\* The server closes it and says why: the wrong role, no such track, another
\* connection that took the timer over. Or it goes away without a word.
ClosedByServer(s, how) ==
    /\ Settled
    /\ link[s] = "open"
    /\ Faulty
    /\ link' = [link EXCEPT ![s] = how]
    /\ UNCHANGED <<status, refs, serial, pressed, asked, shut, answered>>

\* onerror, which the close event follows.
Fails(s) ==
    /\ Settled
    /\ link[s] \in {"opening", "open"}
    /\ Faulty
    /\ link' = [link EXCEPT ![s] = "hung up"]
    /\ status' = "error"
    /\ UNCHANGED <<refs, serial, pressed, asked, shut, answered>>

\* The close event; onclose, up to its first await.
CloseEvent(s) ==
    /\ Settled
    /\ link[s] \in {"hung up", "refused"}
    /\ link' = [link EXCEPT ![s] = IF @ = "refused" THEN "closed with reason" ELSE "closed"]
    /\ IF s \in detached THEN UNCHANGED <<reading, shut>>
       ELSE StopReading /\ shut' = [shut EXCEPT ![s] = "stopping"]
    /\ UNCHANGED <<writes, status, refs, portRef, port, reader, pressed, asked,
                   answered, faults>>

\* Mutant of Shut: only a close with a reason is shown.
ShutWithReasonOnly(s) ==
    /\ portRef' = FALSE
    /\ shut' = [shut EXCEPT ![s] = "done"]
    /\ status' = IF link[s] = "closed with reason" THEN "error" ELSE status

\* The end of onclose.
Shut(s) ==
    /\ portRef' = FALSE
    /\ shut' = [shut EXCEPT ![s] = "done"]
    /\ status' = IF link[s] = "closed with reason" THEN "error" ELSE "disconnected"

\* onclose, once the loop has ended.
ReleasesPort(s) ==
    /\ LoopEnded /\ shut[s] = "stopping"
    /\ LetsGoOfPort
    /\ IF portRef /\ MayClose
       THEN /\ ClosesPort
            /\ shut' = [shut EXCEPT ![s] = "closing"]
            /\ UNCHANGED <<status, portRef>>
       ELSE Shut(s) /\ UNCHANGED port
    /\ UNCHANGED <<writing, refs, link, reader, reading, pressed, asked, answered,
                   faults>>

Released(s) ==
    /\ Settled
    /\ shut[s] = "closing"
    /\ port' = "closed"
    /\ Shut(s)
    /\ UNCHANGED <<writes, refs, link, reader, reading, pressed, asked, answered, faults>>

-----------------------------------------------------------------------------
(* Requests for the port.                                                  *)

\* ProxySession._reopen: the first request of the walk, the next once the last
\* was answered, and one more when an answer has not come in READY_SECONDS.
Ask(s, n) ==
    /\ Settled
    /\ link[s] = "open"
    /\ asked[s][n] = "not yet"
    /\ \A m \in Asks : m < n => asked[s][m] # "not yet"
    /\ IF n = 1 \/ answered[s] = n - 1 THEN UNCHANGED faults ELSE Faulty
    /\ asked' = [asked EXCEPT ![s][n] = "sent"]
    /\ UNCHANGED <<status, refs, link, serial, pressed, shut, answered>>

\* What the handler does with an error: it says so and hangs up.
RequestFails(s, n) ==
    /\ status' = "error"
    /\ link' = [link EXCEPT ![s] = IF @ \in {"opening", "open"} THEN "hung up" ELSE @]
    /\ asked' = [asked EXCEPT ![s][n] = "over"]

\* port.open(), refused unless the port is closed.
OpensPort(s, n) ==
    IF port = "closed"
    THEN /\ port' = "opening"
         /\ asked' = [asked EXCEPT ![s][n] = "opening"]
         /\ UNCHANGED <<status, link>>
    ELSE RequestFails(s, n) /\ UNCHANGED port

\* onmessage, up to its first await. Requests arrive in order.
Configure(s, n) ==
    /\ Settled
    /\ link[s] = "open"
    /\ asked[s][n] = "sent" /\ \A m \in Asks : m < n => asked[s][m] # "sent"
    /\ IF portRef
       THEN /\ StopReading
            /\ asked' = [asked EXCEPT ![s][n] = "stopping"]
            /\ UNCHANGED <<status, link, port>>
       ELSE OpensPort(s, n) /\ UNCHANGED reading
    /\ UNCHANGED <<writes, refs, portRef, reader, pressed, shut, answered, faults>>

\* Mutant of ClosesForNext: close() is not awaited.
ClosesForNextUnawaited(s, n) ==
    /\ LoopEnded /\ asked[s][n] = "stopping"
    /\ port' = IF portRef /\ MayClose THEN "closing" ELSE port
    /\ RequestFails(s, n)
    /\ UNCHANGED <<writes, refs, portRef, reader, reading, pressed, shut, answered,
                   faults>>

\* The port is let go, to be opened again.
ClosesForNext(s, n) ==
    /\ LoopEnded /\ asked[s][n] = "stopping"
    /\ IF portRef /\ MayClose
       THEN /\ ClosesPort
            /\ asked' = [asked EXCEPT ![s][n] = "closing"]
            /\ UNCHANGED <<status, link>>
       ELSE RequestFails(s, n) /\ UNCHANGED port
    /\ UNCHANGED <<writes, refs, portRef, reader, reading, pressed, shut, answered,
                   faults>>

Reopens(s, n) ==
    /\ Settled
    /\ asked[s][n] = "closing"
    /\ portRef' = FALSE
    /\ port' = "opening"
    /\ asked' = [asked EXCEPT ![s][n] = "opening"]
    /\ UNCHANGED <<writes, status, refs, link, reader, reading, pressed, shut,
                   answered, faults>>

\* The port is open: the server is told, and the loop begins where there still
\* is a socket to relay to.
PortOpens(s, n) ==
    /\ Settled
    /\ asked[s][n] = "opening"
    /\ port' = "open" /\ portRef' = TRUE
    /\ status' = "connected"
    /\ reading' = TRUE
    /\ IF link[s] = "open"
       THEN reader' = s /\ answered' = [answered EXCEPT ![s] = @ + 1] /\ UNCHANGED mishaps
       ELSE mishaps' = mishaps \cup {"late"} /\ UNCHANGED <<reader, answered>>
    /\ asked' = [asked EXCEPT ![s][n] = "over"]
    /\ UNCHANGED <<writing, refs, link, pressed, shut, faults>>

\* The device refuses.
PortRefuses(s, n) ==
    /\ Settled
    /\ asked[s][n] = "opening"
    /\ Faulty
    /\ port' = "closed"
    /\ RequestFails(s, n)
    /\ UNCHANGED <<writes, refs, portRef, reader, reading, pressed, shut, answered>>

\* A command for the device. Its write may take any time, or never settle; one
\* that finds the writer taken is lost.
Transmit(s) ==
    /\ Settled
    /\ link[s] = "open" /\ answered[s] > 0
    /\ port = "open"
    /\ writing' = TRUE /\ ~writing
    /\ UNCHANGED <<status, refs, link, portRef, port, reader, reading, mishaps, pressed,
                   asked, shut, answered, faults>>

Transmitted ==
    /\ Settled
    /\ writing
    /\ writing' = FALSE
    /\ UNCHANGED <<status, refs, link, portRef, port, reader, reading, mishaps, pressed,
                   asked, shut, answered, faults>>

-----------------------------------------------------------------------------
Init ==
    /\ status = "disconnected"
    /\ wsRef = None
    /\ link = [s \in Sockets |-> "none"]
    /\ detached = {}
    /\ portRef = FALSE
    /\ port = "closed"
    /\ reader = None
    /\ reading = FALSE
    /\ writing = FALSE
    /\ mishaps = {}
    /\ pressed = [p \in Sockets |-> "not yet"]
    /\ asked = [s \in Sockets |-> [n \in Asks |-> "not yet"]]
    /\ shut = [s \in Sockets |-> "not yet"]
    /\ answered = [s \in Sockets |-> 0]
    /\ faults = 0

\* What the page does by itself once the browser, the port and the person at
\* the dialog let it.
PressGoesOn(p) == Disconnects(p) \/ Disconnected(p) \/ Chosen(p)
ShutGoesOn(s) == CloseEvent(s) \/ ReleasesPort(s) \/ Released(s)
AskGoesOn(s, n) ==
    Configure(s, n) \/ ClosesForNext(s, n) \/ Reopens(s, n) \/ PortOpens(s, n)

Next ==
    \/ LoopStops
    \/ Unplugged
    \/ Transmitted
    \/ \E s \in Sockets :
          \/ Press(s) \/ PressGoesOn(s) \/ Dismissed(s)
          \/ Opened(s) \/ Fails(s) \/ Transmit(s) \/ ShutGoesOn(s)
          \/ \E how \in {"hung up", "refused"} : ClosedByServer(s, how)
          \/ \E n \in Asks : Ask(s, n) \/ AskGoesOn(s, n) \/ PortRefuses(s, n)

Spec == Init /\ [][Next]_vars

\* Promises settle, sockets open or fail, and the server begins its walk.
FairSpec ==
    /\ Spec
    /\ WF_vars(LoopStops)
    /\ \A s \in Sockets :
          /\ WF_vars(PressGoesOn(s)) /\ WF_vars(Opened(s)) /\ WF_vars(ShutGoesOn(s))
          /\ WF_vars(Ask(s, 1))
          /\ \A n \in Asks : WF_vars(AskGoesOn(s, n))

-----------------------------------------------------------------------------
(* Properties.                                                             *)

Statuses == {"disconnected", "connecting", "connected", "error"}
Links == {"none", "opening", "open", "hung up", "refused", "closed", "closed with reason"}

PressCloses(p) == pressed[p] = "closing"
ShutCloses(s) == shut[s] = "closing"
AskCloses(s, n) == asked[s][n] = "closing"
AskOpens(s, n) == asked[s][n] = "opening"
AskHolds(s, n) == AskCloses(s, n) \/ AskOpens(s, n)

\* A port that is opening or closing has one handler that waits for it.
OneWaitsForThePort ==
    /\ port = "opening" <=> \E s \in Sockets, n \in Asks : AskOpens(s, n)
    /\ port = "closing" <=> \E s \in Sockets :
          PressCloses(s) \/ ShutCloses(s) \/ \E n \in Asks : AskCloses(s, n)
    /\ \A s, r \in Sockets :
          /\ PressCloses(s) /\ PressCloses(r) => s = r
          /\ ShutCloses(s) /\ ShutCloses(r) => s = r
          /\ ~(PressCloses(s) /\ ShutCloses(r))
          /\ \A n \in Asks : AskCloses(s, n) => ~PressCloses(r) /\ ~ShutCloses(r)
          /\ \A n, m \in Asks : AskHolds(s, n) /\ AskHolds(r, m) => s = r /\ n = m

\* Every variable has its type, and whoever opens or closes the port is alone
\* with it: no reader, and no other handler.
TypeOK ==
    /\ status \in Statuses /\ wsRef \in Sockets \cup {None} /\ detached \subseteq Sockets
    /\ link \in [Sockets -> Links] /\ answered \in [Sockets -> Nat]
    /\ port \in {"closed", "opening", "open", "closing"}
    /\ portRef \in BOOLEAN /\ reading \in BOOLEAN
    /\ writing \in BOOLEAN /\ mishaps \subseteq {"cut off", "late"}
    /\ pressed \in [Sockets -> {"not yet", "stopping", "closing", "choosing", "done"}]
    /\ asked \in [Sockets -> [Asks ->
                     {"not yet", "sent", "stopping", "closing", "opening", "over"}]]
    /\ shut \in [Sockets -> {"not yet", "stopping", "closing", "done"}]
    /\ faults \in 0..MaxFaults
    /\ reader \in Sockets \cup {None} /\ (reader # None => port = "open")
    /\ OneWaitsForThePort

\* No handler is on its way.
AtRest ==
    /\ \A p \in Sockets : pressed[p] \in {"not yet", "done"}
    /\ \A s \in Sockets :
          /\ shut[s] \in {"not yet", "done"} /\ link[s] \notin {"hung up", "refused"}
          /\ \A n \in Asks : asked[s][n] \in {"not yet", "sent", "over"}

IsOpen(s) == s # None /\ link[s] = "open"

\* However connecting, retuning, hanging up and closing interleave, the page
\* knows whether it has the port open, so that the next Connect can close and
\* open it (#331). Only a command that is being written as the port is let go
\* keeps it from closing.
PortIsNotStranded ==
    AtRest => (port = "open" <=> portRef) \/ "cut off" \in mishaps

\* The port's reader is held for a socket that is open: a loop that relays to
\* nobody would lock the port for good.
LockHasASocket == AtRest /\ reader # None => IsOpen(reader)

\* "Hardware Timer Proxy Active" is never shown with no socket up: no close, by
\* the server, by a fault or for a later press, leaves it behind. A port that
\* opens after its socket has closed does.
BadgeIsTrue ==
    AtRest /\ status = "connected" => "late" \in mishaps \/ \E s \in Sockets : IsOpen(s)

\* A server that asks for the port gets its answer or the end of the socket:
\* no request hangs on a port that will not close.
RequestIsAnswered ==
    \A s \in Sockets : \A n \in Asks :
        asked[s][n] = "sent" ~> (answered[s] >= n \/ link[s] # "open")

\* The button does not stay on "Connecting...", where it cannot be pressed.
ConnectingEnds == status = "connecting" ~> status # "connecting"

=============================================================================
