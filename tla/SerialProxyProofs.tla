-------------------------- MODULE SerialProxyProofs --------------------------
(***************************************************************************)
(* Proofs about SerialProxy, for any number of presses, requests and       *)
(* faults: the port has one handler at a time and is never stranded, its   *)
(* reader has a socket, and the badge is true.                             *)
(***************************************************************************)
EXTENDS SerialProxy, TLAPS

LEMMA NoneIsNoSocket == None \notin Sockets
  BY DEF None, Sockets

-----------------------------------------------------------------------------
(* TypeOK, in its three parts.                                             *)

Presses == {"not yet", "stopping", "closing", "choosing", "done"}
Requests == {"not yet", "sent", "stopping", "closing", "opening", "over"}
Closes == {"not yet", "stopping", "closing", "done"}

Typed ==
    /\ status \in Statuses /\ wsRef \in Sockets \cup {None} /\ detached \subseteq Sockets
    /\ link \in [Sockets -> Links] /\ answered \in [Sockets -> Nat]
    /\ port \in {"closed", "opening", "open", "closing"}
    /\ portRef \in BOOLEAN /\ reading \in BOOLEAN
    /\ writing \in BOOLEAN /\ mishaps \subseteq {"cut off", "late"}
    /\ pressed \in [Sockets -> Presses]
    /\ asked \in [Sockets -> [Asks -> Requests]]
    /\ shut \in [Sockets -> Closes]
    /\ faults \in 0..MaxFaults
    /\ reader \in Sockets \cup {None}

ReaderHoldsPort == reader # None => port = "open"

LEMMA TypeParts == TypeOK <=> Typed /\ ReaderHoldsPort /\ OneWaitsForThePort
  BY DEF TypeOK, Typed, ReaderHoldsPort, Presses, Requests, Closes

\* What one step of one request changes, and does not.
LEMMA AskMoves ==
    ASSUME Typed, NEW s \in Sockets, NEW n \in Asks, NEW v \in Requests,
           asked' = [asked EXCEPT ![s][n] = v]
    PROVE  /\ asked' \in [Sockets -> [Asks -> Requests]]
           /\ asked'[s][n] = v
           /\ \A r \in Sockets, m \in Asks : r # s \/ m # n => asked'[r][m] = asked[r][m]
<1>1. asked[s] \in [Asks -> Requests]
  BY DEF Typed
<1>2. asked' = [asked EXCEPT ![s] = [asked[s] EXCEPT ![n] = v]]
  BY DEF Typed
<1>3. [asked[s] EXCEPT ![n] = v] \in [Asks -> Requests]
  BY <1>1
<1>4. asked' \in [Sockets -> [Asks -> Requests]]
  BY <1>2, <1>3 DEF Typed
<1>5. asked'[s] = [asked[s] EXCEPT ![n] = v] /\ \A r \in Sockets \ {s} : asked'[r] = asked[r]
  BY <1>2 DEF Typed
<1>6. QED
  BY <1>1, <1>4, <1>5

LEMMA FailureMoves ==
    ASSUME Typed, NEW s \in Sockets, NEW n \in Asks, RequestFails(s, n)
    PROVE  /\ status' = "error" /\ link' \in [Sockets -> Links]
           /\ asked' = [asked EXCEPT ![s][n] = "over"]
  BY DEF Typed, RequestFails, Links

-----------------------------------------------------------------------------
(* Every step keeps the types.                                             *)

LEMMA FaultyTypes == ASSUME Typed, Faulty PROVE faults' \in 0..MaxFaults
<1>1. MaxFaults \in Nat /\ faults \in 0..MaxFaults
  BY BoundsAssumption DEF Typed
<1>2. QED
  BY <1>1 DEF Faulty

LEMMA AnswerTypes ==
    ASSUME Typed, NEW s \in Sockets, answered' = [answered EXCEPT ![s] = @ + 1]
    PROVE  answered' \in [Sockets -> Nat]
<1>1. answered \in [Sockets -> Nat]
  BY DEF Typed
<1>2. QED
  BY <1>1

LEMMA LettingGo ==
    ASSUME Typed, LetsGoOfPort
    PROVE  mishaps \subseteq mishaps' /\ mishaps' \subseteq {"cut off", "late"}
  BY DEF Typed, LetsGoOfPort

LEMMA AskTypes ==
    ASSUME Typed, NEW s \in Sockets, NEW n \in Asks,
           Ask(s, n) \/ AskGoesOn(s, n) \/ PortRefuses(s, n)
    PROVE  Typed'
<1> USE DEF Typed, refs, writes, serial
<1>1. CASE Ask(s, n)
  <2>1. asked' \in [Sockets -> [Asks -> Requests]]
    BY <1>1, AskMoves DEF Ask, Requests
  <2>2. QED
    BY <1>1, <2>1, FaultyTypes DEF Ask
<1>2. CASE Configure(s, n)
  <2>1. /\ asked' \in [Sockets -> [Asks -> Requests]]
        /\ link' \in [Sockets -> Links] /\ status' \in Statuses
    BY <1>2, AskMoves, FailureMoves DEF Configure, OpensPort, Requests, Statuses
  <2>2. QED
    BY <1>2, <2>1 DEF Configure, OpensPort, StopReading
<1>3. CASE ClosesForNext(s, n)
  <2>1. /\ asked' \in [Sockets -> [Asks -> Requests]]
        /\ link' \in [Sockets -> Links] /\ status' \in Statuses
    BY <1>3, AskMoves, FailureMoves DEF ClosesForNext, Requests, Statuses
  <2>2. QED
    BY <1>3, <2>1 DEF ClosesForNext, ClosesPort
<1>4. CASE Reopens(s, n)
  <2>1. asked' \in [Sockets -> [Asks -> Requests]]
    BY <1>4, AskMoves DEF Reopens, Requests
  <2>2. QED
    BY <1>4, <2>1 DEF Reopens
<1>5. CASE PortOpens(s, n)
  <2>1. asked' \in [Sockets -> [Asks -> Requests]]
    BY <1>5, AskMoves DEF PortOpens, Requests
  <2>2. QED
    BY <1>5, <2>1, AnswerTypes DEF PortOpens, Statuses
<1>6. CASE PortRefuses(s, n)
  <2>1. /\ asked' \in [Sockets -> [Asks -> Requests]]
        /\ link' \in [Sockets -> Links] /\ status' \in Statuses
    BY <1>6, AskMoves, FailureMoves DEF PortRefuses, Requests, Statuses
  <2>2. QED
    BY <1>6, <2>1, FaultyTypes DEF PortRefuses
<1>7. QED
  BY <1>1, <1>2, <1>3, <1>4, <1>5, <1>6 DEF AskGoesOn

LEMMA SocketTypes ==
    ASSUME Typed, NEW s \in Sockets,
           \/ Press(s) \/ PressGoesOn(s) \/ Dismissed(s)
           \/ Opened(s) \/ Fails(s) \/ Transmit(s) \/ ShutGoesOn(s)
           \/ \E how \in {"hung up", "refused"} : ClosedByServer(s, how)
    PROVE  Typed'
<1> USE DEF Typed, refs, writes, serial, Links, Statuses
<1>1. CASE Press(s)
  BY <1>1 DEF Press, StopReading, Presses
<1>2. CASE Disconnects(s)
  BY <1>2, LettingGo DEF Disconnects, Connecting, ClosesPort, Presses
<1>3. CASE Disconnected(s) \/ Chosen(s) \/ Dismissed(s)
  BY <1>3 DEF Disconnected, Connecting, Chosen, Dismissed, Presses
<1>4. CASE Opened(s) \/ Fails(s) \/ Transmit(s)
  BY <1>4, FaultyTypes DEF Opened, Fails, Transmit
<1>5. CASE CloseEvent(s)
  BY <1>5 DEF CloseEvent, StopReading, Closes
<1>6. CASE ReleasesPort(s) \/ Released(s)
  BY <1>6, LettingGo DEF ReleasesPort, Released, Shut, ClosesPort, Closes
<1>7. CASE \E how \in {"hung up", "refused"} : ClosedByServer(s, how)
  BY <1>7, FaultyTypes DEF ClosedByServer
<1>8. QED
  BY <1>1, <1>2, <1>3, <1>4, <1>5, <1>6, <1>7 DEF PressGoesOn, ShutGoesOn

LEMMA StepTypes == ASSUME Typed, [Next]_vars PROVE Typed'
<1>1. CASE LoopStops \/ Unplugged \/ Transmitted
  BY <1>1, FaultyTypes
  DEF LoopStops, Unplugged, Transmitted, Typed, refs, writes, serial, Links
<1>2. CASE UNCHANGED vars
  BY <1>2 DEF vars, refs, writes, serial, Typed
<1>3. QED
  BY <1>1, <1>2, AskTypes, SocketTypes DEF Next

-----------------------------------------------------------------------------
(* The port and the one handler that waits for it. A handler takes a port  *)
(* that is free, leaves it, or has nothing to do with it.                  *)

PressesAsBefore == \A s \in Sockets : PressCloses(s)' <=> PressCloses(s)
ShutsAsBefore == \A s \in Sockets : ShutCloses(s)' <=> ShutCloses(s)
AsksAsBefore ==
    \A s \in Sockets, n \in Asks :
        (AskCloses(s, n)' <=> AskCloses(s, n)) /\ (AskOpens(s, n)' <=> AskOpens(s, n))

LEMMA NobodyMoves ==
    ASSUME OneWaitsForThePort, port' = port, PressesAsBefore, ShutsAsBefore, AsksAsBefore
    PROVE  OneWaitsForThePort'
  BY DEF OneWaitsForThePort, AskHolds, PressesAsBefore, ShutsAsBefore, AsksAsBefore

Nobody ==
    \A s \in Sockets :
        ~PressCloses(s) /\ ~ShutCloses(s) /\ \A n \in Asks : ~AskCloses(s, n) /\ ~AskOpens(s, n)

LEMMA FreePort ==
    ASSUME OneWaitsForThePort, port \notin {"opening", "closing"} PROVE Nobody
  BY DEF OneWaitsForThePort, Nobody

LEMMA FreedPort ==
    ASSUME Nobody', port' \notin {"opening", "closing"} PROVE OneWaitsForThePort'
  BY DEF OneWaitsForThePort, Nobody, AskHolds

LEMMA PressTakesPort ==
    ASSUME Typed, OneWaitsForThePort, port = "open", port' = "closing",
           ShutsAsBefore, AsksAsBefore,
           NEW p \in Sockets, pressed' = [pressed EXCEPT ![p] = "closing"]
    PROVE  OneWaitsForThePort'
<1>1. Nobody
  BY FreePort
<1>2. \A s \in Sockets : PressCloses(s)' <=> s = p
  BY <1>1 DEF Nobody, PressCloses, Typed
<1>3. QED
  BY <1>1, <1>2 DEF Nobody, OneWaitsForThePort, AskHolds, ShutsAsBefore, AsksAsBefore

LEMMA ShutTakesPort ==
    ASSUME Typed, OneWaitsForThePort, port = "open", port' = "closing",
           PressesAsBefore, AsksAsBefore,
           NEW s \in Sockets, shut' = [shut EXCEPT ![s] = "closing"]
    PROVE  OneWaitsForThePort'
<1>1. Nobody
  BY FreePort
<1>2. \A r \in Sockets : ShutCloses(r)' <=> r = s
  BY <1>1 DEF Nobody, ShutCloses, Typed
<1>3. QED
  BY <1>1, <1>2 DEF Nobody, OneWaitsForThePort, AskHolds, PressesAsBefore, AsksAsBefore

LEMMA AskTakesPort ==
    ASSUME Typed, OneWaitsForThePort, port \notin {"opening", "closing"},
           PressesAsBefore, ShutsAsBefore,
           NEW s \in Sockets, NEW n \in Asks, NEW v \in {"opening", "closing"},
           asked' = [asked EXCEPT ![s][n] = v], port' = v
    PROVE  OneWaitsForThePort'
<1>1. Nobody
  BY FreePort
<1>2. /\ asked'[s][n] = v
      /\ \A r \in Sockets, m \in Asks : r # s \/ m # n => asked'[r][m] = asked[r][m]
  BY AskMoves DEF Requests
<1>3. \A r \in Sockets, m \in Asks :
          /\ AskCloses(r, m)' <=> v = "closing" /\ r = s /\ m = n
          /\ AskOpens(r, m)' <=> v = "opening" /\ r = s /\ m = n
  BY <1>1, <1>2 DEF Nobody, AskCloses, AskOpens
<1>4. QED
  BY <1>1, <1>3 DEF Nobody, OneWaitsForThePort, AskHolds, PressesAsBefore, ShutsAsBefore

LEMMA PressLeavesPort ==
    ASSUME Typed, OneWaitsForThePort, port' = "closed", ShutsAsBefore, AsksAsBefore,
           NEW p \in Sockets, pressed[p] = "closing",
           pressed' = [pressed EXCEPT ![p] = "choosing"]
    PROVE  OneWaitsForThePort'
<1>1. PressCloses(p) /\ port = "closing"
  BY DEF PressCloses, OneWaitsForThePort
<1>2. \A s \in Sockets : ~PressCloses(s)'
  BY <1>1 DEF PressCloses, OneWaitsForThePort, Typed
<1>3. Nobody'
  BY <1>1, <1>2 DEF Nobody, OneWaitsForThePort, ShutsAsBefore, AsksAsBefore
<1>4. QED
  BY <1>3, FreedPort

LEMMA ShutLeavesPort ==
    ASSUME Typed, OneWaitsForThePort, port' = "closed", PressesAsBefore, AsksAsBefore,
           NEW s \in Sockets, shut[s] = "closing", shut' = [shut EXCEPT ![s] = "done"]
    PROVE  OneWaitsForThePort'
<1>1. ShutCloses(s) /\ port = "closing"
  BY DEF ShutCloses, OneWaitsForThePort
<1>2. \A r \in Sockets : ~ShutCloses(r)'
  BY <1>1 DEF ShutCloses, OneWaitsForThePort, Typed
<1>3. Nobody'
  BY <1>1, <1>2 DEF Nobody, OneWaitsForThePort, PressesAsBefore, AsksAsBefore
<1>4. QED
  BY <1>3, FreedPort

LEMMA AskLeavesPort ==
    ASSUME Typed, OneWaitsForThePort, port' \notin {"opening", "closing"},
           PressesAsBefore, ShutsAsBefore,
           NEW s \in Sockets, NEW n \in Asks, asked[s][n] = "opening",
           asked' = [asked EXCEPT ![s][n] = "over"]
    PROVE  OneWaitsForThePort'
<1>1. AskOpens(s, n) /\ AskHolds(s, n) /\ port = "opening"
  BY DEF AskOpens, AskHolds, OneWaitsForThePort
<1>2. /\ asked'[s][n] = "over"
      /\ \A r \in Sockets, m \in Asks : r # s \/ m # n => asked'[r][m] = asked[r][m]
  BY AskMoves DEF Requests
<1>3. \A r \in Sockets, m \in Asks : ~AskCloses(r, m)' /\ ~AskOpens(r, m)'
  BY <1>1, <1>2 DEF AskCloses, AskOpens, AskHolds, OneWaitsForThePort
<1>4. Nobody'
  BY <1>1, <1>3 DEF Nobody, OneWaitsForThePort, PressesAsBefore, ShutsAsBefore
<1>5. QED
  BY <1>4, FreedPort

LEMMA AskTurnsPort ==
    ASSUME Typed, OneWaitsForThePort, port' = "opening", PressesAsBefore, ShutsAsBefore,
           NEW s \in Sockets, NEW n \in Asks, asked[s][n] = "closing",
           asked' = [asked EXCEPT ![s][n] = "opening"]
    PROVE  OneWaitsForThePort'
<1>1. AskCloses(s, n) /\ AskHolds(s, n) /\ port = "closing"
  BY DEF AskCloses, AskHolds, OneWaitsForThePort
<1>2. /\ asked'[s][n] = "opening"
      /\ \A r \in Sockets, m \in Asks : r # s \/ m # n => asked'[r][m] = asked[r][m]
  BY AskMoves DEF Requests
<1>3. \A r \in Sockets, m \in Asks :
          ~AskCloses(r, m)' /\ (AskOpens(r, m)' <=> r = s /\ m = n)
  BY <1>1, <1>2 DEF AskCloses, AskOpens, AskHolds, OneWaitsForThePort
<1>4. \A r \in Sockets : ~PressCloses(r)' /\ ~ShutCloses(r)'
  BY <1>1 DEF OneWaitsForThePort, PressesAsBefore, ShutsAsBefore
<1>5. QED
  BY <1>3, <1>4 DEF OneWaitsForThePort, AskHolds

LEMMA AskPassesPort ==
    ASSUME Typed, OneWaitsForThePort, port' = port, PressesAsBefore, ShutsAsBefore,
           NEW s \in Sockets, NEW n \in Asks,
           NEW v \in {"sent", "stopping", "over"}, asked' = [asked EXCEPT ![s][n] = v],
           asked[s][n] \in {"not yet", "sent", "stopping"}
    PROVE  OneWaitsForThePort'
<1>1. /\ asked'[s][n] = v
      /\ \A r \in Sockets, m \in Asks : r # s \/ m # n => asked'[r][m] = asked[r][m]
  BY AskMoves DEF Requests
<1>2. AsksAsBefore
  BY <1>1 DEF AsksAsBefore, AskCloses, AskOpens
<1>3. QED
  BY <1>2, NobodyMoves

-----------------------------------------------------------------------------
(* The sockets: each is made by its press, closes once, and is let go of    *)
(* or lets go of the port.                                                  *)

Up(s) == link[s] \in {"open", "hung up", "refused"} /\ s \notin detached

SocketIsKnown(s) ==
    /\ link[s] # "none" => pressed[s] = "done"
    /\ s \in detached => pressed[s] = "done" /\ link[s] \notin {"opening", "open"}
    /\ shut[s] # "not yet" => link[s] \in {"closed", "closed with reason"}

SocketsAreKnown ==
    /\ wsRef # None => pressed[wsRef] = "done"
    /\ \A s \in Sockets : SocketIsKnown(s)

\* The reader's socket is up, or its close event waits for the reader.
ReaderIsKnown == reader # None => Up(reader) \/ shut[reader] = "stopping"

-----------------------------------------------------------------------------
(* Every step leaves the port to one handler.                              *)

LEMMA AskStepsWait ==
    ASSUME Typed, OneWaitsForThePort, NEW s \in Sockets, NEW n \in Asks,
           Ask(s, n) \/ AskGoesOn(s, n) \/ PortRefuses(s, n)
    PROVE  OneWaitsForThePort'
<1>1. PressesAsBefore /\ ShutsAsBefore
  BY DEF Ask, AskGoesOn, Configure, ClosesForNext, Reopens, PortOpens, PortRefuses,
         PressesAsBefore, ShutsAsBefore, PressCloses, ShutCloses
<1>2. CASE Ask(s, n)
  BY <1>1, <1>2, AskPassesPort DEF Ask, serial
<1>3. CASE Configure(s, n)
  <2>1. CASE portRef \/ port # "closed"
    BY <1>1, <1>3, <2>1, AskPassesPort DEF Configure, OpensPort, RequestFails
  <2>2. CASE ~portRef /\ port = "closed"
    BY <1>1, <1>3, <2>2, AskTakesPort DEF Configure, OpensPort
  <2>3. QED
    BY <2>1, <2>2 DEF Typed
<1>4. CASE ClosesForNext(s, n)
  <2>1. CASE portRef /\ MayClose
    BY <1>1, <1>4, <2>1, AskTakesPort DEF ClosesForNext, ClosesPort, MayClose
  <2>2. CASE ~(portRef /\ MayClose)
    BY <1>1, <1>4, <2>2, AskPassesPort DEF ClosesForNext, RequestFails
  <2>3. QED
    BY <2>1, <2>2
<1>5. CASE Reopens(s, n)
  BY <1>1, <1>5, AskTurnsPort DEF Reopens
<1>6. CASE PortOpens(s, n) \/ PortRefuses(s, n)
  BY <1>1, <1>6, AskLeavesPort DEF PortOpens, PortRefuses, RequestFails
<1>7. QED
  BY <1>2, <1>3, <1>4, <1>5, <1>6 DEF AskGoesOn

LEMMA SocketStepsWait ==
    ASSUME Typed, OneWaitsForThePort, SocketsAreKnown, NEW s \in Sockets,
           \/ Press(s) \/ PressGoesOn(s) \/ Dismissed(s)
           \/ Opened(s) \/ Fails(s) \/ Transmit(s) \/ ShutGoesOn(s)
           \/ \E how \in {"hung up", "refused"} : ClosedByServer(s, how)
    PROVE  OneWaitsForThePort'
<1>1. AsksAsBefore
  BY DEF Press, PressGoesOn, Disconnects, Disconnected, Chosen, Dismissed, Opened, Fails,
         Transmit, ShutGoesOn, CloseEvent, ReleasesPort, Released, ClosedByServer,
         AsksAsBefore, AskCloses, AskOpens
<1>2. CASE Press(s) \/ Chosen(s) \/ Dismissed(s)
  <2>1. PressesAsBefore /\ ShutsAsBefore /\ port' = port
    BY <1>2 DEF Press, Chosen, Dismissed, serial, PressesAsBefore, ShutsAsBefore,
                PressCloses, ShutCloses, Typed
  <2>2. QED
    BY <1>1, <2>1, NobodyMoves
<1>3. CASE Disconnects(s)
  <2>1. ShutsAsBefore
    BY <1>3 DEF Disconnects, ShutsAsBefore, ShutCloses
  <2>2. CASE portRef /\ MayClose
    BY <1>1, <1>3, <2>1, <2>2, PressTakesPort DEF Disconnects, ClosesPort, MayClose
  <2>3. CASE ~(portRef /\ MayClose)
    <3>1. PressesAsBefore /\ port' = port
      BY <1>3, <2>3 DEF Disconnects, Connecting, PressesAsBefore, PressCloses, Typed
    <3>2. QED
      BY <1>1, <2>1, <3>1, NobodyMoves
  <2>4. QED
    BY <2>2, <2>3
<1>4. CASE Disconnected(s)
  BY <1>1, <1>4, PressLeavesPort DEF Disconnected, Connecting, ShutsAsBefore, ShutCloses
<1>5. CASE \/ Opened(s) \/ Fails(s) \/ Transmit(s)
           \/ \E how \in {"hung up", "refused"} : ClosedByServer(s, how)
  <2>1. PressesAsBefore /\ ShutsAsBefore /\ port' = port
    BY <1>5 DEF Opened, Fails, Transmit, ClosedByServer, serial, PressesAsBefore,
                ShutsAsBefore, PressCloses, ShutCloses
  <2>2. QED
    BY <1>1, <2>1, NobodyMoves
<1>6. CASE CloseEvent(s)
  <2>1. shut[s] = "not yet"
    BY <1>6 DEF CloseEvent, SocketsAreKnown, SocketIsKnown, Typed
  <2>2. PressesAsBefore /\ ShutsAsBefore /\ port' = port
    BY <1>6, <2>1 DEF CloseEvent, StopReading, PressesAsBefore, ShutsAsBefore, PressCloses,
                      ShutCloses, Typed
  <2>3. QED
    BY <1>1, <2>2, NobodyMoves
<1>7. CASE ReleasesPort(s)
  <2>1. PressesAsBefore
    BY <1>7 DEF ReleasesPort, PressesAsBefore, PressCloses
  <2>2. CASE portRef /\ MayClose
    BY <1>1, <1>7, <2>1, <2>2, ShutTakesPort DEF ReleasesPort, ClosesPort, MayClose
  <2>3. CASE ~(portRef /\ MayClose)
    <3>1. ShutsAsBefore /\ port' = port
      BY <1>7, <2>3 DEF ReleasesPort, Shut, ShutsAsBefore, ShutCloses, Typed
    <3>2. QED
      BY <1>1, <2>1, <3>1, NobodyMoves
  <2>4. QED
    BY <2>2, <2>3
<1>8. CASE Released(s)
  BY <1>1, <1>8, ShutLeavesPort DEF Released, Shut, PressesAsBefore, PressCloses
<1>9. QED
  BY <1>2, <1>3, <1>4, <1>5, <1>6, <1>7, <1>8 DEF PressGoesOn, ShutGoesOn

LEMMA StepWaits ==
    ASSUME Typed, OneWaitsForThePort, SocketsAreKnown, [Next]_vars PROVE OneWaitsForThePort'
<1>1. CASE LoopStops \/ Unplugged \/ Transmitted \/ UNCHANGED vars
  <2>1. PressesAsBefore /\ ShutsAsBefore /\ AsksAsBefore /\ port' = port
    BY <1>1 DEF LoopStops, Unplugged, Transmitted, vars, serial, PressesAsBefore,
                ShutsAsBefore, AsksAsBefore, PressCloses, ShutCloses, AskCloses, AskOpens
  <2>2. QED
    BY <2>1, NobodyMoves
<1>2. QED
  BY <1>1, AskStepsWait, SocketStepsWait DEF Next

-----------------------------------------------------------------------------
(* Every step keeps what is known of sockets, reader and port.             *)

LEMMA SocketsStayKnown == ASSUME Typed, SocketsAreKnown, [Next]_vars PROVE SocketsAreKnown'
<1> USE NoneIsNoSocket DEF Typed, SocketsAreKnown, SocketIsKnown, refs
<1>1. CASE LoopStops \/ Unplugged \/ Transmitted
  BY <1>1 DEF LoopStops, Unplugged, Transmitted
<1>2. ASSUME NEW s \in Sockets, Press(s) \/ Disconnected(s) \/ Chosen(s) \/ Dismissed(s)
      PROVE  SocketsAreKnown'
  <2>1. CASE Press(s)
    BY <2>1 DEF Press
  <2>2. CASE Disconnected(s)
    BY <2>2 DEF Disconnected, Connecting
  <2>3. CASE Chosen(s)
    <3>1. link[s] = "none" /\ s \notin detached /\ shut[s] = "not yet"
      BY <2>3 DEF Chosen
    <3>2. QED
      BY <2>3, <3>1 DEF Chosen
  <2>4. CASE Dismissed(s)
    BY <2>4 DEF Dismissed
  <2>5. QED
    BY <1>2, <2>1, <2>2, <2>3, <2>4
<1>3. ASSUME NEW s \in Sockets, Disconnects(s) PROVE SocketsAreKnown'
  BY <1>3 DEF Disconnects, Connecting
<1>4. ASSUME NEW s \in Sockets,
             \/ Opened(s) \/ Fails(s) \/ Transmit(s)
             \/ \E how \in {"hung up", "refused"} : ClosedByServer(s, how)
      PROVE  SocketsAreKnown'
  BY <1>4 DEF Opened, Fails, Transmit, ClosedByServer
<1>5. ASSUME NEW s \in Sockets, ShutGoesOn(s) PROVE SocketsAreKnown'
  BY <1>5 DEF ShutGoesOn, CloseEvent, ReleasesPort, Released, Shut
<1>6. ASSUME NEW s \in Sockets, NEW n \in Asks,
             Ask(s, n) \/ AskGoesOn(s, n) \/ PortRefuses(s, n)
      PROVE  SocketsAreKnown'
  BY <1>6
  DEF Ask, AskGoesOn, Configure, OpensPort, ClosesForNext, Reopens, PortOpens, PortRefuses,
      RequestFails
<1>7. CASE UNCHANGED vars
  BY <1>7 DEF vars
<1>8. QED
  BY <1>1, <1>2, <1>3, <1>4, <1>5, <1>6, <1>7 DEF Next, PressGoesOn

LEMMA ReaderStaysKnown ==
    ASSUME Typed, OneWaitsForThePort, SocketsAreKnown, ReaderHoldsPort,
           ReaderIsKnown, [Next]_vars
    PROVE  ReaderHoldsPort' /\ ReaderIsKnown'
<1> USE NoneIsNoSocket DEF Typed, ReaderHoldsPort, ReaderIsKnown, Up, LoopEnded, refs, serial
<1>1. CASE LoopStops \/ Unplugged \/ Transmitted
  BY <1>1 DEF LoopStops, Unplugged, Transmitted
<1>2. ASSUME NEW s \in Sockets, Press(s) \/ Chosen(s) \/ Dismissed(s)
      PROVE  ReaderHoldsPort' /\ ReaderIsKnown'
  <2>1. CASE Press(s) \/ Dismissed(s)
    BY <2>1 DEF Press, Dismissed
  <2>2. CASE Chosen(s)
    <3>1. link[s] = "none"
      BY <2>2 DEF Chosen, SocketsAreKnown, SocketIsKnown
    <3>2. QED
      BY <2>2, <3>1 DEF Chosen
  <2>3. QED
    BY <1>2, <2>1, <2>2
<1>3. ASSUME NEW s \in Sockets, Disconnects(s) \/ ReleasesPort(s)
      PROVE  ReaderHoldsPort' /\ ReaderIsKnown'
  BY <1>3 DEF Disconnects, ReleasesPort
<1>4. ASSUME NEW s \in Sockets, Disconnected(s) \/ Released(s)
      PROVE  ReaderHoldsPort' /\ ReaderIsKnown'
  <2>1. port = "closing"
    BY <1>4 DEF Disconnected, Released, OneWaitsForThePort, PressCloses, ShutCloses
  <2>2. QED
    BY <1>4, <2>1 DEF Disconnected, Released
<1>5. ASSUME NEW s \in Sockets,
             \/ Opened(s) \/ Fails(s) \/ Transmit(s)
             \/ \E how \in {"hung up", "refused"} : ClosedByServer(s, how)
      PROVE  ReaderHoldsPort' /\ ReaderIsKnown'
  BY <1>5 DEF Opened, Fails, Transmit, ClosedByServer
<1>6. ASSUME NEW s \in Sockets, CloseEvent(s) PROVE ReaderHoldsPort' /\ ReaderIsKnown'
  BY <1>6 DEF CloseEvent, SocketsAreKnown, SocketIsKnown
<1>7. ASSUME NEW s \in Sockets, NEW n \in Asks, Ask(s, n) \/ Configure(s, n)
      PROVE  ReaderHoldsPort' /\ ReaderIsKnown'
  BY <1>7 DEF Ask, Configure, OpensPort, RequestFails
<1>8. ASSUME NEW s \in Sockets, NEW n \in Asks,
             ClosesForNext(s, n) \/ Reopens(s, n) \/ PortOpens(s, n) \/ PortRefuses(s, n)
      PROVE  ReaderHoldsPort' /\ ReaderIsKnown'
  <2>1. CASE ClosesForNext(s, n)
    BY <2>1 DEF ClosesForNext
  <2>2. CASE Reopens(s, n) \/ PortOpens(s, n) \/ PortRefuses(s, n)
    <3>1. port # "open"
      BY <2>2 DEF Reopens, PortOpens, PortRefuses, OneWaitsForThePort, AskCloses, AskOpens
    <3>2. QED
      BY <2>2, <3>1 DEF Reopens, PortOpens, PortRefuses, RequestFails,
                          SocketsAreKnown, SocketIsKnown
  <2>3. QED
    BY <1>8, <2>1, <2>2
<1>9. CASE UNCHANGED vars
  BY <1>9 DEF vars
<1>10. QED
  BY <1>1, <1>2, <1>3, <1>4, <1>5, <1>6, <1>7, <1>8, <1>9
  DEF Next, PressGoesOn, ShutGoesOn, AskGoesOn

\* The page knows the port, but for one it let go of in the middle of a command.
PortIsKnown ==
    /\ port \in {"closed", "opening"} => ~portRef
    /\ port = "open" /\ ~portRef => "cut off" \in mishaps

LEMMA PortStaysKnown ==
    ASSUME Typed, OneWaitsForThePort, PortIsKnown, [Next]_vars PROVE PortIsKnown'
<1> USE DEF PortIsKnown, LoopEnded, refs, writes, serial
<1>0. ASSUME port' = port, portRef' = portRef, mishaps' = mishaps PROVE PortIsKnown'
  BY <1>0, Zenon
<1>1. CASE LoopStops \/ Unplugged \/ Transmitted
  BY <1>0, <1>1 DEF LoopStops, Unplugged, Transmitted
<1>2. ASSUME NEW s \in Sockets, Press(s) \/ Chosen(s) \/ Dismissed(s) PROVE PortIsKnown'
  BY <1>0, <1>2 DEF Press, Chosen, Dismissed
<1>3. ASSUME NEW s \in Sockets, Disconnects(s) \/ ReleasesPort(s) PROVE PortIsKnown'
  <2>1. CASE portRef /\ MayClose
    BY <1>3, <2>1 DEF Disconnects, ReleasesPort, ClosesPort
  <2>2. CASE ~(portRef /\ MayClose)
    BY <1>3, <2>2, LettingGo
    DEF Disconnects, ReleasesPort, Connecting, Shut, MayClose, LetsGoOfPort
  <2>3. QED
    BY <2>1, <2>2
<1>4. ASSUME NEW s \in Sockets, Disconnected(s) \/ Released(s) PROVE PortIsKnown'
  BY <1>4 DEF Disconnected, Connecting, Released, Shut
<1>5. ASSUME NEW s \in Sockets,
             \/ Opened(s) \/ Fails(s) \/ Transmit(s) \/ CloseEvent(s)
             \/ \E how \in {"hung up", "refused"} : ClosedByServer(s, how)
      PROVE  PortIsKnown'
  BY <1>0, <1>5 DEF Opened, Fails, Transmit, CloseEvent, ClosedByServer
<1>6. ASSUME NEW s \in Sockets, NEW n \in Asks,
             \/ Ask(s, n) \/ Configure(s, n) \/ ClosesForNext(s, n) \/ Reopens(s, n)
             \/ PortOpens(s, n)
      PROVE  PortIsKnown'
  <2>1. CASE Ask(s, n)
    BY <1>0, <2>1 DEF Ask
  <2>2. CASE Configure(s, n)
    <3>1. CASE ~portRef /\ port = "closed"
      BY <2>2, <3>1, Zenon DEF Configure, OpensPort
    <3>2. CASE portRef \/ port # "closed"
      BY <1>0, <2>2, <3>2 DEF Configure, OpensPort
    <3>3. QED
      BY <3>1, <3>2
  <2>3. CASE ClosesForNext(s, n)
    <3>1. CASE portRef /\ MayClose
      BY <2>3, <3>1 DEF ClosesForNext, ClosesPort
    <3>2. CASE ~(portRef /\ MayClose)
      BY <1>0, <2>3, <3>2 DEF ClosesForNext
    <3>3. QED
      BY <3>1, <3>2
  <2>4. CASE Reopens(s, n) \/ PortOpens(s, n)
    BY <2>4 DEF Reopens, PortOpens
  <2>5. QED
    BY <1>6, <2>1, <2>2, <2>3, <2>4
<1>7. ASSUME NEW s \in Sockets, NEW n \in Asks, PortRefuses(s, n) PROVE PortIsKnown'
  <2>1. port = "opening"
    BY <1>7 DEF PortRefuses, OneWaitsForThePort, AskOpens
  <2>2. QED
    BY <1>7, <2>1 DEF PortRefuses
<1>8. CASE UNCHANGED vars
  BY <1>8 DEF vars
<1>9. QED
  BY <1>1, <1>2, <1>3, <1>4, <1>5, <1>6, <1>7, <1>8
  DEF Next, PressGoesOn, ShutGoesOn, AskGoesOn

\* Where the page says it is connected a socket is up, or its close event is on
\* its way to say otherwise; and no press begins there.
Vouches(s) == Up(s) \/ shut[s] \in {"stopping", "closing"}

BadgeIsKnown ==
    /\ status = "connected" => "late" \in mishaps \/ \E s \in Sockets : Vouches(s)
    /\ \A p \in Sockets : pressed[p] \in {"stopping", "closing"} => status # "connected"

LEMMA VouchingGoesOn ==
    ASSUME BadgeIsKnown, mishaps \subseteq mishaps',
           \A s \in Sockets : Vouches(s) => Vouches(s)',
           status' = status \/ status' # "connected",
           \A p \in Sockets : pressed'[p] \in {"stopping", "closing"} =>
               pressed[p] \in {"stopping", "closing"} \/ status' # "connected"
    PROVE  BadgeIsKnown'
  BY DEF BadgeIsKnown

LEMMA OpeningVouches ==
    ASSUME Typed, OneWaitsForThePort, ReaderHoldsPort, SocketsAreKnown, BadgeIsKnown,
           NEW s \in Sockets, NEW n \in Asks, PortOpens(s, n)
    PROVE  BadgeIsKnown'
<1>1. port = "opening"
  BY DEF PortOpens, OneWaitsForThePort, AskOpens
<1>2. \A p \in Sockets : pressed[p] # "stopping"
  BY <1>1 DEF PortOpens, ReaderHoldsPort, Settled, LoopEnded, Waits, Typed
<1>3. \A p \in Sockets : pressed[p] # "closing"
  BY <1>1 DEF OneWaitsForThePort, PressCloses
<1>4. "late" \in mishaps' \/ Vouches(s)'
  BY DEF PortOpens, Vouches, Up, refs, SocketsAreKnown, SocketIsKnown, Typed
<1>5. pressed' = pressed
  BY DEF PortOpens
<1>6. QED
  BY <1>2, <1>3, <1>4, <1>5 DEF BadgeIsKnown

LEMMA BadgeStaysKnown ==
    ASSUME Typed, OneWaitsForThePort, ReaderHoldsPort, SocketsAreKnown,
           BadgeIsKnown, [Next]_vars
    PROVE  BadgeIsKnown'
<1> USE DEF Vouches, Up, refs, writes, serial
<1>1. CASE LoopStops \/ Unplugged \/ Transmitted
  BY <1>1, VouchingGoesOn DEF LoopStops, Unplugged, Transmitted, Typed
<1>2. ASSUME NEW s \in Sockets, Press(s) \/ Chosen(s) \/ Dismissed(s) PROVE BadgeIsKnown'
  <2>1. CASE Press(s)
    BY <2>1, VouchingGoesOn DEF Press, Typed
  <2>2. CASE Chosen(s)
    <3>1. link[s] = "none"
      BY <2>2 DEF Chosen, SocketsAreKnown, SocketIsKnown
    <3>2. QED
      BY <2>2, <3>1, VouchingGoesOn DEF Chosen, Typed
  <2>3. CASE Dismissed(s)
    BY <2>3, VouchingGoesOn DEF Dismissed, Typed
  <2>4. QED
    BY <1>2, <2>1, <2>2, <2>3
<1>3. ASSUME NEW s \in Sockets, Disconnects(s) \/ Disconnected(s) PROVE BadgeIsKnown'
  <2>1. status' # "connected"
    BY <1>3 DEF Disconnects, Disconnected, Connecting, BadgeIsKnown
  <2>2. QED
    BY <2>1 DEF BadgeIsKnown
<1>4. ASSUME NEW s \in Sockets,
             \/ Opened(s) \/ Fails(s) \/ Transmit(s)
             \/ \E how \in {"hung up", "refused"} : ClosedByServer(s, how)
      PROVE  BadgeIsKnown'
  BY <1>4, VouchingGoesOn DEF Opened, Fails, Transmit, ClosedByServer, Typed
<1>5. ASSUME NEW s \in Sockets, CloseEvent(s) PROVE BadgeIsKnown'
  <2>1. \A r \in Sockets : Vouches(r) => Vouches(r)'
    BY <1>5 DEF CloseEvent, Typed
  <2>2. QED
    BY <1>5, <2>1, VouchingGoesOn DEF CloseEvent
<1>6. ASSUME NEW s \in Sockets, ReleasesPort(s) \/ Released(s) PROVE BadgeIsKnown'
  <2>1. CASE status' # "connected"
    BY <2>1 DEF BadgeIsKnown
  <2>2. CASE status' = "connected"
    <3>1. ReleasesPort(s) /\ status' = status /\ shut' = [shut EXCEPT ![s] = "closing"]
      BY <1>6, <2>2 DEF ReleasesPort, Released, Shut
    <3>2. \A r \in Sockets : Vouches(r) => Vouches(r)'
      BY <3>1 DEF ReleasesPort, Typed
    <3>3. mishaps \subseteq mishaps' /\ pressed' = pressed
      BY <3>1, LettingGo DEF ReleasesPort
    <3>4. QED
      BY <3>1, <3>2, <3>3, VouchingGoesOn
  <2>3. QED
    BY <2>1, <2>2
<1>7. ASSUME NEW s \in Sockets, NEW n \in Asks,
             \/ Ask(s, n) \/ Configure(s, n) \/ ClosesForNext(s, n) \/ Reopens(s, n)
             \/ PortRefuses(s, n)
      PROVE  BadgeIsKnown'
  BY <1>7, VouchingGoesOn
  DEF Ask, Configure, OpensPort, ClosesForNext, Reopens, PortRefuses, RequestFails, Typed
<1>8. CASE UNCHANGED vars
  BY <1>8, VouchingGoesOn DEF vars
<1>9. QED
  BY <1>1, <1>2, <1>3, <1>4, <1>5, <1>6, <1>7, <1>8, OpeningVouches
  DEF Next, PressGoesOn, ShutGoesOn, AskGoesOn

-----------------------------------------------------------------------------
(* The theorems.                                                           *)

\* Types and the one handler alone are not inductive: that nobody else comes to
\* wait for the port rests on each socket closing once.
ProxyInv ==
    /\ TypeOK
    /\ SocketsAreKnown /\ ReaderIsKnown /\ PortIsKnown /\ BadgeIsKnown

LEMMA ProxyStarts == ASSUME Init PROVE ProxyInv
<1>1. Typed
  <2>1. faults \in 0..MaxFaults
    <3>1. MaxFaults \in Nat
      BY BoundsAssumption
    <3>2. faults = 0
      BY DEF Init
    <3>3. QED
      BY <3>1, <3>2
  <2>2. asked \in [Sockets -> [Asks -> Requests]] /\ answered \in [Sockets -> Nat]
    BY DEF Init, Requests
  <2>3. QED
    BY <2>1, <2>2 DEF Init, Typed, Links, Statuses, Presses, Closes
<1>2. ReaderHoldsPort /\ OneWaitsForThePort
  <2>1. Nobody
    BY DEF Init, Nobody, PressCloses, ShutCloses, AskCloses, AskOpens
  <2>2. QED
    BY <2>1 DEF Init, Nobody, ReaderHoldsPort, OneWaitsForThePort, AskHolds
<1>3. SocketsAreKnown /\ ReaderIsKnown /\ PortIsKnown /\ BadgeIsKnown
  BY DEF Init, SocketsAreKnown, SocketIsKnown, ReaderIsKnown, PortIsKnown, BadgeIsKnown
<1>4. QED
  BY <1>1, <1>2, <1>3, TypeParts DEF ProxyInv

LEMMA ProxyGoesOn == ASSUME ProxyInv, [Next]_vars PROVE ProxyInv'
<1>1. Typed /\ ReaderHoldsPort /\ OneWaitsForThePort
  BY TypeParts DEF ProxyInv
<1>2. Typed' /\ OneWaitsForThePort' /\ ReaderHoldsPort'
  BY <1>1, StepTypes, StepWaits, ReaderStaysKnown DEF ProxyInv
<1>3. TypeOK'
  BY <1>2 DEF TypeOK, Typed, ReaderHoldsPort, Presses, Requests, Closes
<1>4. QED
  BY <1>1, <1>3, SocketsStayKnown, ReaderStaysKnown, PortStaysKnown,
     BadgeStaysKnown DEF ProxyInv

\* The inductive invariant, whatever the presses, the server's requests, the
\* faults and the order in which the handlers of the page go on.
THEOREM ProxyIsKnown == Spec => []ProxyInv
<1>1. Init => ProxyInv
  BY ProxyStarts
<1>2. ProxyInv /\ [Next]_vars => ProxyInv'
  BY ProxyGoesOn
<1>3. QED
  BY <1>1, <1>2, PTL DEF Spec

\* A port that opens or closes has one handler waiting for it, and no reader.
THEOREM ProxyTypeCorrect == Spec => []TypeOK
<1>1. ProxyInv => TypeOK
  BY DEF ProxyInv
<1>2. QED
  BY <1>1, ProxyIsKnown, PTL

\* Once every handler has ended, the page knows whether its port is open.
THEOREM PortIsNeverStranded == Spec => []PortIsNotStranded
<1>1. ProxyInv => PortIsNotStranded
  <2> SUFFICES ASSUME ProxyInv, AtRest
               PROVE  (port = "open" <=> portRef) \/ "cut off" \in mishaps
    BY DEF PortIsNotStranded
  <2>1. port \in {"closed", "open"}
    BY DEF ProxyInv, TypeOK, OneWaitsForThePort, AtRest, PressCloses, ShutCloses,
           AskCloses, AskOpens
  <2>2. QED
    BY <2>1 DEF ProxyInv, PortIsKnown
<1>2. QED
  BY <1>1, ProxyIsKnown, PTL

\* The reader of the port is only ever held for a socket that is open.
THEOREM LockAlwaysHasASocket == Spec => []LockHasASocket
<1>1. ProxyInv => LockHasASocket
  BY NoneIsNoSocket DEF ProxyInv, TypeOK, ReaderIsKnown, Up, AtRest, LockHasASocket, IsOpen
<1>2. QED
  BY <1>1, ProxyIsKnown, PTL

\* The page shows an active proxy over an open socket, but for a late port.
THEOREM BadgeIsAlwaysTrue == Spec => []BadgeIsTrue
<1>1. ProxyInv => BadgeIsTrue
  BY NoneIsNoSocket DEF ProxyInv, BadgeIsKnown, Vouches, Up, AtRest, BadgeIsTrue, IsOpen
<1>2. QED
  BY <1>1, ProxyIsKnown, PTL

=============================================================================
