--------------------------- MODULE LiveFeedProofs ---------------------------
(***************************************************************************)
(* Proofs about LiveFeed, for any race, any bounds and any number of       *)
(* connections: its variables keep their types, and no change is lost to a *)
(* client that is there for it.                                            *)
(***************************************************************************)
EXTENDS LiveFeed, TLAPS

-----------------------------------------------------------------------------
(* Frames on their way.                                                    *)

IsEvent(frame, h) == frame.kind = "event" /\ frame.heat = h
OnItsWay(frames, h) == \E i \in DOMAIN frames : IsEvent(frames[i], h)

\* The last event of h among these, if there is one, carries the version v.
LastCarries(frames, h, v) ==
    \A i \in DOMAIN frames :
        IsEvent(frames[i], h) /\ (\A j \in DOMAIN frames : j > i => ~IsEvent(frames[j], h))
        => frames[i].version = v

\* Where the last event of a heat is: in the generator's queue, on the wire, or
\* merged. Whichever it is, it carries the last result, unless that has still to
\* be published or went to nobody.
InQueue(h) == Subscribed /\ OnItsWay(events, h)
Followed(h) ==
    /\ Subscribed => LastCarries(events, h, stored[h])
    /\ ~InQueue(h) => LastCarries(wire, h, stored[h])
    /\ h \notin missed /\ ~InQueue(h) /\ ~OnItsWay(wire, h) => page[h] = stored[h]

\* The inductive invariant: a subscription is of the socket that is open, nothing
\* is on its way on a dead link, and what still queues up behind one is missed.
IInv ==
    /\ TypeOK
    /\ Subscribed => socket.open
    /\ socket.dead => wire = <<>>
    /\ \A h \in Heats : ~Subscribed => ~OnItsWay(wire, h)
    /\ \A h \in Heats : socket.dead /\ InQueue(h) => h \in missed
    /\ \A h \in Heats : pending[h] = 0 => Followed(h)

LEMMA HeatsOnTheirWay ==
    ASSUME NEW frames, NEW h PROVE h \in HeatsIn(frames) <=> OnItsWay(frames, h)
BY DEF HeatsIn, OnItsWay, IsEvent

\* What a frame sent does to what is on its way.
LEMMA FrameAppended ==
    ASSUME NEW S, NEW frames \in Seq(S), NEW frame \in S, NEW h, NEW v
    PROVE  LET new == Append(frames, frame)
           IN  /\ new \in Seq(S)
               /\ OnItsWay(new, h) <=> OnItsWay(frames, h) \/ IsEvent(frame, h)
               /\ IsEvent(frame, h) /\ frame.version = v => LastCarries(new, h, v)
               /\ ~IsEvent(frame, h) /\ LastCarries(frames, h, v) => LastCarries(new, h, v)
               /\ ~OnItsWay(frames, h) /\ ~IsEvent(frame, h) => LastCarries(new, h, v)
<1> DEFINE new == Append(frames, frame)
           n == Len(frames)
<1>1. /\ new \in Seq(S) /\ n \in Nat /\ DOMAIN frames = 1..n /\ DOMAIN new = 1..n+1
      /\ new[n+1] = frame /\ \A i \in 1..n : new[i] = frames[i]
    OBVIOUS
<1> HIDE DEF new, n
<1>2. OnItsWay(new, h) <=> OnItsWay(frames, h) \/ IsEvent(frame, h)
  <2>1. CASE IsEvent(frame, h)
    BY <1>1, <2>1 DEF OnItsWay
  <2>2. CASE ~IsEvent(frame, h)
    <3>1. \A i \in 1..n+1 : IsEvent(new[i], h) => i \in 1..n
        BY <1>1, <2>2
    <3> QED  BY <1>1, <2>2, <3>1 DEF OnItsWay
  <2> QED  BY <2>1, <2>2
<1>3. ASSUME IsEvent(frame, h), frame.version = v PROVE LastCarries(new, h, v)
  <2>1. ASSUME NEW i \in 1..n+1, \A j \in 1..n+1 : j > i => ~IsEvent(new[j], h)
        PROVE  i = n+1
    <3>1. ~(n+1 > i)
        BY <1>1, <1>3, <2>1
    <3> QED  BY <1>1, <3>1
  <2> QED  BY <1>1, <1>3, <2>1 DEF LastCarries
<1>4. ASSUME ~IsEvent(frame, h), LastCarries(frames, h, v) PROVE LastCarries(new, h, v)
  <2> SUFFICES ASSUME NEW i \in 1..n+1, IsEvent(new[i], h),
                      \A j \in 1..n+1 : j > i => ~IsEvent(new[j], h)
               PROVE  new[i].version = v
    BY <1>1 DEF LastCarries
  <2>1. i \in 1..n
    BY <1>1, <1>4
  <2>2. \A j \in 1..n : j > i => ~IsEvent(frames[j], h)
    BY <1>1
  <2> QED  BY <1>1, <1>4, <2>1, <2>2 DEF LastCarries
<1>5. ASSUME ~OnItsWay(frames, h), ~IsEvent(frame, h) PROVE LastCarries(new, h, v)
    BY <1>2, <1>5 DEF OnItsWay, LastCarries
<1> QED  BY <1>1, <1>2, <1>3, <1>4, <1>5 DEF new

\* What a frame taken does to what is still on its way.
LEMMA FrameTaken ==
    ASSUME NEW S, NEW frames \in Seq(S), frames # <<>>, NEW h, NEW v
    PROVE  LET frame == Head(frames)
               rest == Tail(frames)
           IN  /\ rest \in Seq(S) /\ frame \in S
               /\ OnItsWay(frames, h) <=> IsEvent(frame, h) \/ OnItsWay(rest, h)
               /\ LastCarries(frames, h, v) => LastCarries(rest, h, v)
               /\ LastCarries(frames, h, v) /\ IsEvent(frame, h) /\ ~OnItsWay(rest, h)
                    => frame.version = v
<1> DEFINE frame == Head(frames)
           rest == Tail(frames)
           n == Len(frames)
<1>1. /\ rest \in Seq(S) /\ frame \in S /\ n \in Nat /\ n >= 1
      /\ DOMAIN frames = 1..n /\ DOMAIN rest = 1..n-1
      /\ frame = frames[1] /\ \A i \in 1..n-1 : rest[i] = frames[i+1]
    OBVIOUS
<1> HIDE DEF frame, rest, n
<1>2. \A i \in 2..n : i-1 \in 1..n-1 /\ frames[i] = rest[i-1]
  <2>1. ASSUME NEW i \in 2..n PROVE i-1 \in 1..n-1 /\ (i-1)+1 = i
    BY <1>1
  <2> QED  BY <1>1, <2>1
<1>3. OnItsWay(frames, h) <=> IsEvent(frame, h) \/ OnItsWay(rest, h)
  <2>1. ASSUME OnItsWay(frames, h) PROVE IsEvent(frame, h) \/ OnItsWay(rest, h)
    <3>1. PICK i \in 1..n : IsEvent(frames[i], h)
        BY <1>1, <2>1 DEF OnItsWay
    <3>2. i = 1 \/ i \in 2..n
        BY <1>1
    <3> QED  BY <1>1, <1>2, <3>1, <3>2 DEF OnItsWay
  <2>2. ASSUME OnItsWay(rest, h) PROVE OnItsWay(frames, h)
    <3>1. PICK i \in 1..n-1 : IsEvent(rest[i], h)
        BY <1>1, <2>2 DEF OnItsWay
    <3>2. i+1 \in 1..n
        BY <1>1
    <3> QED  BY <1>1, <3>1, <3>2 DEF OnItsWay
  <2>3. IsEvent(frame, h) => OnItsWay(frames, h)
    BY <1>1 DEF OnItsWay
  <2> QED  BY <2>1, <2>2, <2>3
<1>4. ASSUME LastCarries(frames, h, v) PROVE LastCarries(rest, h, v)
  <2> SUFFICES ASSUME NEW i \in 1..n-1, IsEvent(rest[i], h),
                      \A j \in 1..n-1 : j > i => ~IsEvent(rest[j], h)
               PROVE  rest[i].version = v
    BY <1>1 DEF LastCarries
  <2>1. i+1 \in 1..n
    BY <1>1
  <2>2. ASSUME NEW j \in 1..n, j > i+1 PROVE ~IsEvent(frames[j], h)
    <3>1. j \in 2..n /\ j-1 > i
        BY <1>1, <2>2
    <3> QED  BY <1>2, <3>1
  <2> QED  BY <1>1, <1>4, <2>1, <2>2 DEF LastCarries
<1>5. ASSUME LastCarries(frames, h, v), IsEvent(frame, h), ~OnItsWay(rest, h)
      PROVE  frame.version = v
  <2>1. ASSUME NEW j \in 1..n, j > 1 PROVE ~IsEvent(frames[j], h)
    <3>1. j \in 2..n
        BY <1>1, <2>1
    <3> QED  BY <1>1, <1>2, <1>5, <3>1 DEF OnItsWay
  <2> QED  BY <1>1, <1>5, <2>1 DEF LastCarries
<1> QED  BY <1>1, <1>3, <1>4, <1>5 DEF frame, rest

\* The empty queue, and frames that are no events.
LEMMA NothingOnItsWay ==
    ASSUME NEW h, NEW v
    PROVE  /\ ~OnItsWay(<<>>, h) /\ LastCarries(<<>>, h, v)
           /\ \A frames : ~OnItsWay(frames, h) => LastCarries(frames, h, v)
BY DEF OnItsWay, LastCarries

\* A frame sent goes on the wire, unless the link is dead.
LEMMA FrameSent ==
    ASSUME IInv, NEW frame \in Frames, NEW h, NEW v
    PROVE  /\ Sent(frame) \in Seq(Frames)
           /\ socket.dead => Sent(frame) = <<>>
           /\ ~socket.dead =>
                /\ OnItsWay(Sent(frame), h) <=> OnItsWay(wire, h) \/ IsEvent(frame, h)
                /\ IsEvent(frame, h) /\ frame.version = v => LastCarries(Sent(frame), h, v)
                /\ ~IsEvent(frame, h) /\ LastCarries(wire, h, v) => LastCarries(Sent(frame), h, v)
<1>1. wire \in Seq(Frames) /\ (socket.dead => wire = <<>>)
    BY DEF IInv, TypeOK
<1>2. Append(wire, frame) \in Seq(Frames)
    BY <1>1, FrameAppended
<1> QED  BY <1>1, <1>2, FrameAppended DEF Sent

LEMMA FramesApart ==
    /\ \A frame \in Frames : frame.kind = "event" => frame \in Events
    /\ \A h : ~IsEvent(Pong, h) /\ ~IsEvent(Snapshot, h)
    /\ Pong \in Frames
BY DEF Frames, Events, Pong, Snapshot, IsEvent

LEMMA InitInvariant == Init => IInv
<1> SUFFICES ASSUME Init PROVE IInv
    OBVIOUS
<1> USE DEF Init
<1>1. TypeOK
  <2>1. stored \in [Heats -> Nat] /\ wire \in Seq(Frames)
    OBVIOUS
  <2>2. {stored, pending, display, page} \subseteq [Heats -> Nat]
    BY <2>1
  <2>3. socket \in [id : Nat, open : BOOLEAN, dead : BOOLEAN] /\ ping \in BOOLEAN
    OBVIOUS
  <2>4. faults \in 0..MaxFaults
    BY BoundsAssumption
  <2> QED  BY <2>1, <2>2, <2>3, <2>4 DEF TypeOK
<1>2. ~Subscribed
    BY DEF Subscribed
<1> QED  BY <1>1, <1>2, NothingOnItsWay DEF IInv, Followed, InQueue

-----------------------------------------------------------------------------
(* The steps.                                                              *)

LEMMA WriteKeeps == ASSUME IInv, NEW g \in Heats, Write(g) PROVE IInv'
<1> USE DEF Write, server, client
<1>1. TypeOK'
  <2>1. stored' \in [Heats -> Nat] /\ pending' \in [Heats -> Nat]
    BY DEF IInv, TypeOK
  <2> QED  BY <2>1 DEF IInv, TypeOK
<1>2. Subscribed' = Subscribed /\ \A h : InQueue(h)' = InQueue(h)
    BY DEF Subscribed, InQueue, OnItsWay
<1>3. ASSUME NEW h \in Heats, pending'[h] = 0 PROVE h # g /\ pending[h] = 0
    BY <1>3 DEF IInv, TypeOK
<1>4. ASSUME NEW h \in Heats, pending'[h] = 0 PROVE Followed(h)'
  <2>1. Followed(h) /\ stored'[h] = stored[h]
    BY <1>3, <1>4 DEF IInv, TypeOK
  <2> QED  BY <1>2, <2>1 DEF Followed, LastCarries, OnItsWay
<1> QED  BY <1>1, <1>2, <1>4 DEF IInv, OnItsWay

LEMMA PublishKeeps == ASSUME IInv, NEW g \in Heats, Publish(g) PROVE IInv'
<1> USE DEF Publish, client
<1> DEFINE event == EventFor(g)
<1>1. event \in Events /\ \A h : IsEvent(event, h) <=> h = g
    BY DEF IInv, TypeOK, EventFor, Events, IsEvent
<1>2. TypeOK /\ TypeOK'
  <2>1. TypeOK
    BY DEF IInv
  <2>2. pending' \in [Heats -> Nat] /\ missed' \subseteq Heats
    BY <2>1 DEF TypeOK
  <2>3. wakes' \in 0..MaxQueue \cup {Nothing}
    BY <2>1, BoundsAssumption DEF TypeOK, Rung
  <2>4. events' \in Seq(Events) \cup {Nothing}
    BY <1>1, <2>1, FrameAppended DEF TypeOK, Queued
  <2> QED  BY <2>1, <2>2, <2>3, <2>4 DEF TypeOK
<1>3. ASSUME NEW h, NEW v, Subscribed
      PROVE  /\ Subscribed'
             /\ OnItsWay(events', h) <=> OnItsWay(events, h) \/ h = g
             /\ h = g /\ v = stored[g] => LastCarries(events', h, v)
             /\ h # g /\ LastCarries(events, h, v) => LastCarries(events', h, v)
  <2>1. events \in Seq(Events) /\ events' = Append(events, event)
    BY <1>2, <1>3 DEF TypeOK, Subscribed, Queued
  <2>2. Subscribed'
    BY <1>1, <2>1, NothingAssumption, FrameAppended DEF Subscribed
  <2>3. event.version = stored[g]
    BY DEF EventFor
  <2> HIDE DEF event
  <2> QED  BY <1>1, <2>1, <2>2, <2>3, FrameAppended
<1> HIDE DEF event
<1>4. ~Subscribed => events' = events /\ ~Subscribed'
    BY DEF Subscribed, Queued
<1>5. ASSUME NEW h \in Heats PROVE InQueue(h)' <=> InQueue(h) \/ (Subscribed /\ h = g)
    BY <1>3, <1>4 DEF InQueue, OnItsWay
<1>6. ASSUME NEW h \in Heats, socket'.dead, InQueue(h)' PROVE h \in missed'
    BY <1>5, <1>6 DEF IInv
<1>7. ASSUME NEW h \in Heats, pending'[h] = 0 PROVE Followed(h)'
  <2>1. CASE h = g /\ Subscribed
    <3>1. LastCarries(events', h, stored[h]) /\ InQueue(h)'
        BY <1>3, <1>5, <2>1
    <3> QED  BY <2>1, <3>1 DEF Followed, LastCarries, InQueue
  <2>2. CASE h = g /\ ~Subscribed
    <3>1. h \in missed' /\ ~Subscribed' /\ ~OnItsWay(wire, h)
        BY <1>4, <2>2 DEF IInv
    <3>2. LastCarries(wire, h, stored[h])
        BY <3>1, NothingOnItsWay
    <3> QED  BY <3>1, <3>2 DEF Followed, LastCarries
  <2>3. CASE h # g
    <3>1. Followed(h)
        BY <1>2, <1>7, <2>3 DEF IInv, TypeOK
    <3>2. InQueue(h)' <=> InQueue(h)
        BY <1>5, <2>3
    <3>3. Subscribed' => LastCarries(events', h, stored[h])
        BY <1>3, <1>4, <2>3, <3>1 DEF Followed
    <3>4. h \notin missed' => h \notin missed
        OBVIOUS
    <3> QED  BY <3>1, <3>2, <3>3, <3>4 DEF Followed, LastCarries, OnItsWay
  <2> QED  BY <2>1, <2>2, <2>3
<1>8. Subscribed' => Subscribed
    BY <1>4
<1>9. \A h \in Heats : ~Subscribed' => ~OnItsWay(wire', h)
    BY <1>3 DEF IInv, OnItsWay
<1> QED  BY <1>2, <1>6, <1>7, <1>8, <1>9 DEF IInv

\* A step that sends a frame that is no event, and changes neither the queue of
\* events nor what they are compared with.
LEMMA OtherFrameKeeps ==
    ASSUME IInv, TypeOK', NEW frame \in Frames, wire' = Sent(frame), \A h : ~IsEvent(frame, h),
           UNCHANGED <<stored, pending, events, socket, page, missed>>
    PROVE  IInv'
<1>1. \A h : OnItsWay(wire', h) => OnItsWay(wire, h)
    BY FrameSent, NothingOnItsWay
<1>2. \A h, v : LastCarries(wire, h, v) => LastCarries(wire', h, v)
    BY FrameSent, NothingOnItsWay
<1>3. \A h : OnItsWay(wire, h) => OnItsWay(wire', h)
    BY FrameSent, NothingOnItsWay DEF IInv
<1>4. Subscribed' = Subscribed /\ \A h : InQueue(h)' = InQueue(h)
    BY DEF Subscribed, InQueue, OnItsWay
<1>5. socket'.dead => wire' = <<>>
    BY FrameSent
<1>6. ASSUME NEW h \in Heats, pending'[h] = 0 PROVE Followed(h)'
  <2>1. Followed(h)
    BY <1>6 DEF IInv
  <2>2. ~InQueue(h) => LastCarries(wire', h, stored[h])
    BY <1>2, <2>1 DEF Followed
  <2>3. ~OnItsWay(wire', h) => ~OnItsWay(wire, h)
    BY <1>3
  <2> QED  BY <1>4, <2>1, <2>2, <2>3 DEF Followed, LastCarries, OnItsWay
<1> QED  BY <1>1, <1>4, <1>5, <1>6 DEF IInv, OnItsWay

LEMMA SendSnapshotKeeps == ASSUME IInv, SendSnapshot PROVE IInv'
<1>1. Snapshot \in Frames
    BY DEF IInv, TypeOK, Frames, Snapshot
<1>2. TypeOK'
  <2>1. wire' \in Seq(Frames)
    BY <1>1, FrameSent DEF SendSnapshot
  <2>2. wakes' \in 0..MaxQueue \cup {Nothing}
    BY BoundsAssumption, NothingAssumption DEF IInv, TypeOK, SendSnapshot
  <2> QED  BY <2>1, <2>2 DEF IInv, TypeOK, SendSnapshot, client
<1> QED  BY <1>1, <1>2, FramesApart, OtherFrameKeeps DEF SendSnapshot, client

LEMMA AnswerKeeps == ASSUME IInv, Answer PROVE IInv'
<1>1. TypeOK'
  <2>1. wire' \in Seq(Frames)
    BY FramesApart, FrameSent DEF Answer
  <2> QED  BY <2>1 DEF IInv, TypeOK, Answer, server, client
<1> QED  BY <1>1, FramesApart, OtherFrameKeeps DEF Answer, server, client

\* A generator takes the head of its queue and sends it.
LEMMA SendEventKeeps == ASSUME IInv, SendEvent PROVE IInv'
<1> USE DEF SendEvent, client
<1> DEFINE event == Head(events)
           rest == Tail(events)
<1>1. TypeOK /\ Subscribed /\ events \in Seq(Events) /\ events # <<>>
    BY DEF IInv, TypeOK, Subscribed
<1>2. rest \in Seq(Events) /\ event \in Events /\ event \in Frames
    BY <1>1, FrameTaken DEF Frames
<1>3. Subscribed'
    BY <1>2, NothingAssumption DEF Subscribed
<1>4. TypeOK'
  <2>1. wire' \in Seq(Frames)
    BY <1>2, FrameSent
  <2> QED  BY <1>1, <1>2, <2>1 DEF TypeOK
<1>5. \A h : /\ InQueue(h) <=> IsEvent(event, h) \/ InQueue(h)'
             /\ InQueue(h)' <=> OnItsWay(rest, h)
  <2>1. \A h : OnItsWay(events, h) <=> IsEvent(event, h) \/ OnItsWay(rest, h)
    BY <1>1, FrameTaken
  <2> QED  BY <1>1, <1>3, <2>1 DEF InQueue, OnItsWay
<1>6. ASSUME NEW h \in Heats, socket'.dead, InQueue(h)' PROVE h \in missed'
    BY <1>5, <1>6 DEF IInv
<1>7. socket'.dead => wire' = <<>>
    BY <1>2, FrameSent
<1>8. ASSUME NEW h \in Heats, pending'[h] = 0 PROVE Followed(h)'
  <2>1. Followed(h) /\ LastCarries(events, h, stored[h])
    BY <1>1, <1>8 DEF IInv, Followed
  <2>2. LastCarries(rest, h, stored[h])
    BY <1>1, <2>1, FrameTaken
  <2>3. IsEvent(event, h) /\ ~OnItsWay(rest, h) => event.version = stored[h]
    BY <1>1, <2>1, FrameTaken
  <2>4. ~InQueue(h)' => LastCarries(wire', h, stored[h])
    <3>1. CASE socket.dead
        BY <1>7, <3>1, NothingOnItsWay
    <3>2. CASE ~socket.dead /\ IsEvent(event, h)
        BY <1>2, <1>5, <2>3, <3>2, FrameSent
    <3>3. CASE ~socket.dead /\ ~IsEvent(event, h)
        BY <1>2, <1>5, <2>1, <3>3, FrameSent DEF Followed
    <3> QED  BY <3>1, <3>2, <3>3
  <2>5. h \notin missed /\ ~InQueue(h)' /\ ~OnItsWay(wire', h) => page[h] = stored[h]
    <3>1. CASE socket.dead
      <4>1. ~InQueue(h) \/ h \in missed
        BY <3>1 DEF IInv
      <4>2. ~OnItsWay(wire, h)
        BY <3>1, NothingOnItsWay DEF IInv
      <4> QED  BY <2>1, <4>1, <4>2 DEF Followed
    <3>2. CASE ~socket.dead
      <4>1. OnItsWay(wire', h) <=> OnItsWay(wire, h) \/ IsEvent(event, h)
        BY <1>2, <3>2, FrameSent
      <4> QED  BY <1>5, <2>1, <4>1 DEF Followed
    <3> QED  BY <3>1, <3>2
  <2> QED  BY <1>3, <2>2, <2>4, <2>5 DEF Followed, LastCarries, OnItsWay
<1> QED  BY <1>1, <1>3, <1>4, <1>6, <1>7, <1>8 DEF IInv

LEMMA ServeKeeps == ASSUME IInv, Serve PROVE IInv'
<1> USE DEF Serve, client
<1>1. TypeOK /\ Snapshot \in Frames
    BY DEF IInv, TypeOK, Frames, Snapshot
<1>2. TypeOK'
  <2>1. wire' \in Seq(Frames) /\ events' \in Seq(Events)
    BY <1>1, FrameSent
  <2>2. wakes' \in 0..MaxQueue
    BY BoundsAssumption
  <2> QED  BY <1>1, <2>1, <2>2 DEF TypeOK
<1>3. \A h : ~InQueue(h)'
    BY DEF InQueue, OnItsWay
<1>4. \A h \in Heats : ~OnItsWay(wire', h)
    BY <1>1, FramesApart, FrameSent DEF IInv
<1>5. ASSUME NEW h \in Heats, pending'[h] = 0 PROVE Followed(h)'
  <2>1. Followed(h) /\ ~InQueue(h) /\ ~OnItsWay(wire, h)
    BY <1>5 DEF IInv, InQueue
  <2>2. LastCarries(events', h, stored[h]) /\ LastCarries(wire', h, stored[h])
    BY <1>4, NothingOnItsWay
  <2>3. h \notin missed => page[h] = stored[h]
    BY <2>1 DEF Followed
  <2> QED  BY <2>2, <2>3 DEF Followed, LastCarries
<1> QED  BY <1>2, <1>3, <1>4, <1>5 DEF IInv, OnItsWay

LEMMA DeliverKeeps == ASSUME IInv, Deliver PROVE IInv'
<1> USE DEF Deliver, server
<1> DEFINE frame == Head(wire)
           rest == Tail(wire)
<1>1. TypeOK /\ wire \in Seq(Frames) /\ wire # <<>> /\ ~socket.dead
    BY DEF IInv, TypeOK
<1>2. rest \in Seq(Frames) /\ frame \in Frames
    BY <1>1, FrameTaken
<1>3. ASSUME frame.kind = "event"
      PROVE  /\ frame \in Events /\ frame.heat \in Heats
             /\ page' = [page EXCEPT ![frame.heat] = frame.version]
             /\ missed' = missed \ {frame.heat}
  <2>1. frame \in Events
    BY <1>2, <1>3, FramesApart
  <2> QED  BY <1>3, <2>1 DEF Events
<1>4. frame.kind # "event" => page' = page /\ missed' = missed
    OBVIOUS
<1>5. TypeOK'
  <2>1. page' \in [Heats -> Nat] /\ missed' \subseteq Heats
    <3>1. frame \in Events => frame.version \in Nat
        BY DEF Events
    <3> QED  BY <1>1, <1>3, <1>4, <3>1 DEF TypeOK
  <2>2. display' \in [Heats -> Nat]
    <3>1. frame.kind = "snapshot" => frame.view \in [Heats -> Nat]
        BY <1>2 DEF Frames, Events, Pong
    <3> QED  BY <1>1, <3>1 DEF TypeOK
  <2>3. ping' \in BOOLEAN /\ timer' \in Nat \cup {Nothing}
    BY <1>1 DEF TypeOK
  <2> QED  BY <1>1, <1>2, <2>1, <2>2, <2>3 DEF TypeOK
<1>6. \A h : OnItsWay(wire, h) <=> IsEvent(frame, h) \/ OnItsWay(rest, h)
    BY <1>1, FrameTaken
<1>7. Subscribed' = Subscribed /\ \A h : InQueue(h)' = InQueue(h)
    BY DEF Subscribed, InQueue, OnItsWay
<1>8. ASSUME NEW h \in Heats, pending'[h] = 0 PROVE Followed(h)'
  <2>1. Followed(h)
    BY <1>8 DEF IInv
  <2>2. ~InQueue(h) => LastCarries(rest, h, stored[h])
    BY <1>1, <2>1, FrameTaken DEF Followed
  <2>3. ASSUME h \notin missed', ~InQueue(h), ~OnItsWay(rest, h) PROVE page'[h] = stored[h]
    <3>1. CASE IsEvent(frame, h)
      <4>1. frame.version = stored[h]
        BY <1>1, <2>1, <2>3, <3>1, FrameTaken DEF Followed
      <4> QED  BY <1>1, <1>3, <3>1, <4>1 DEF IsEvent, TypeOK
    <3>2. CASE ~IsEvent(frame, h)
      <4>1. ~OnItsWay(wire, h)
        BY <1>6, <2>3, <3>2
      <4>2. page'[h] = page[h] /\ h \notin missed
        BY <1>1, <1>3, <1>4, <2>3, <3>2 DEF IsEvent, TypeOK
      <4> QED  BY <2>1, <2>3, <4>1, <4>2 DEF Followed
    <3> QED  BY <3>1, <3>2
  <2> QED  BY <1>7, <2>1, <2>2, <2>3 DEF Followed, LastCarries, OnItsWay
<1>9. \A h \in Heats : ~Subscribed' => ~OnItsWay(wire', h)
    BY <1>6, <1>7 DEF IInv, OnItsWay
<1> QED  BY <1>1, <1>5, <1>7, <1>8, <1>9 DEF IInv

\* A step that leaves the feeds alone.
LEMMA OtherKeeps ==
    ASSUME IInv, TypeOK', UNCHANGED <<stored, pending, events, page, missed, wire>>,
           Subscribed => socket'.open, socket'.dead => socket.dead
    PROVE  IInv'
<1>1. Subscribed' = Subscribed /\ \A h : InQueue(h)' = InQueue(h)
    BY DEF Subscribed, InQueue, OnItsWay
<1>2. \A h : Followed(h)' = Followed(h)
    BY <1>1 DEF Followed, LastCarries, OnItsWay
<1> QED  BY <1>1, <1>2 DEF IInv, OnItsWay

LEMMA ConnectKeeps == ASSUME IInv, Connect PROVE IInv'
<1>1. TypeOK'
  <2>1. socket' \in [id : Nat, open : BOOLEAN, dead : BOOLEAN]
    BY DEF IInv, TypeOK, Connect
  <2> QED  BY <2>1 DEF IInv, TypeOK, Connect, Connected, server
<1> QED  BY <1>1, OtherKeeps DEF IInv, Connect, server

LEMMA KeepAliveKeeps == ASSUME IInv, KeepAlive PROVE IInv'
<1>1. TypeOK'
  <2>1. timer' \in Nat /\ ping' \in BOOLEAN
    BY DEF IInv, TypeOK, KeepAlive, Watchdog
  <2> QED  BY <2>1 DEF IInv, TypeOK, KeepAlive, server
<1> QED  BY <1>1, OtherKeeps DEF IInv, KeepAlive, server

\* Whatever was on its way to a socket that closes, or dies, is missed.
LEMMA AllIsMissed ==
    ASSUME IInv, TypeOK', UNCHANGED <<stored, pending, page>>, wire' = <<>>,
           events' \in {events, Nothing}, Subscribed' => socket'.open,
           missed' = missed \cup HeatsIn(wire) \cup (IF Subscribed THEN HeatsIn(events) ELSE {})
    PROVE  IInv'
<1>1. \A h : ~OnItsWay(wire', h) /\ \A v : LastCarries(wire', h, v)
    BY NothingOnItsWay
<1>2. \A h : InQueue(h)' => InQueue(h)
    BY DEF InQueue, Subscribed, OnItsWay
<1>3. \A h : h \in missed' <=> h \in missed \/ OnItsWay(wire, h) \/ InQueue(h)
    BY HeatsOnTheirWay DEF InQueue
<1>4. ASSUME NEW h \in Heats, pending'[h] = 0 PROVE Followed(h)'
  <2>1. Followed(h)
    BY <1>4 DEF IInv
  <2>2. Subscribed' => LastCarries(events', h, stored[h])
    BY <2>1 DEF Followed, Subscribed
  <2>3. h \notin missed' => page[h] = stored[h]
    BY <1>3, <2>1 DEF Followed
  <2> QED  BY <1>1, <2>2, <2>3 DEF Followed, LastCarries
<1> QED  BY <1>1, <1>2, <1>3, <1>4 DEF IInv, OnItsWay

LEMMA HeatsAreHeats ==
    ASSUME IInv
    PROVE  HeatsIn(wire) \subseteq Heats /\ (Subscribed => HeatsIn(events) \subseteq Heats)
<1>1. \A i \in DOMAIN wire : wire[i] \in Frames
    BY DEF IInv, TypeOK
<1>2. Subscribed => \A i \in DOMAIN events : events[i] \in Events
    BY DEF IInv, TypeOK, Subscribed
<1> QED  BY <1>1, <1>2, FramesApart DEF HeatsIn, Events

LEMMA ClosedKeeps ==
    ASSUME IInv, Closed, timer' \in Nat \cup {Nothing}, faults' \in 0..MaxFaults
    PROVE  IInv'
<1>1. socket \in [id : Nat, open : BOOLEAN, dead : BOOLEAN] /\ missed \subseteq Heats
    BY DEF IInv, TypeOK
<1>2. socket' \in [id : Nat, open : BOOLEAN, dead : BOOLEAN] /\ missed' \subseteq Heats
    BY <1>1, HeatsAreHeats DEF Closed
<1>3. wire' \in Seq(Frames)
    BY DEF Closed
<1>4. TypeOK'
    BY <1>2, <1>3 DEF IInv, TypeOK, Closed
<1> QED  BY <1>4, AllIsMissed DEF Subscribed, Closed

LEMMA PongTimeoutKeeps == ASSUME IInv, PongTimeout PROVE IInv'
<1>1. timer' \in Nat \cup {Nothing} /\ faults' \in 0..MaxFaults
    BY BoundsAssumption DEF IInv, TypeOK, PongTimeout
<1>2. CASE socket.open
    BY <1>1, <1>2, ClosedKeeps DEF PongTimeout
<1>3. CASE ~socket.open
  <2>1. TypeOK'
    BY <1>1, <1>3 DEF IInv, TypeOK, PongTimeout, server
  <2> QED  BY <1>3, <2>1, OtherKeeps DEF IInv, PongTimeout, server
<1> QED  BY <1>2, <1>3

LEMMA SocketClosesKeeps == ASSUME IInv, SocketCloses PROVE IInv'
<1>1. timer' \in Nat \cup {Nothing} /\ faults' \in 0..MaxFaults
    BY BoundsAssumption DEF IInv, TypeOK, SocketCloses
<1> QED  BY <1>1, ClosedKeeps DEF SocketCloses

LEMMA LinkDiesKeeps == ASSUME IInv, LinkDies PROVE IInv'
<1>1. socket \in [id : Nat, open : BOOLEAN, dead : BOOLEAN] /\ missed \subseteq Heats
    BY DEF IInv, TypeOK
<1>2. socket' \in [id : Nat, open : BOOLEAN, dead : BOOLEAN] /\ missed' \subseteq Heats
    BY <1>1, HeatsAreHeats DEF LinkDies
<1>3. wire' \in Seq(Frames) /\ faults' \in 0..MaxFaults
    BY BoundsAssumption DEF IInv, TypeOK, LinkDies
<1>4. TypeOK'
    BY <1>2, <1>3 DEF IInv, TypeOK, LinkDies, server
<1>5. socket'.open
    BY <1>1 DEF LinkDies
<1> QED  BY <1>4, <1>5, AllIsMissed DEF LinkDies, server

LEMMA StepInvariant == ASSUME IInv, [Next]_vars PROVE IInv'
<1>1. CASE UNCHANGED vars
  <2>1. TypeOK'
    BY <1>1 DEF IInv, TypeOK, vars, server, client
  <2> QED  BY <1>1, <2>1, OtherKeeps DEF IInv, vars, server, client
<1>2. CASE Next
    BY <1>2, WriteKeeps, PublishKeeps, SendSnapshotKeeps, SendEventKeeps, ServeKeeps,
       AnswerKeeps, DeliverKeeps, ConnectKeeps, KeepAliveKeeps, PongTimeoutKeeps,
       LinkDiesKeeps, SocketClosesKeeps DEF Next
<1> QED  BY <1>1, <1>2

-----------------------------------------------------------------------------
(* The results.                                                            *)

\* The inductive invariant holds: the last event of a heat is in the queue, on
\* the wire or merged, and carries its last result, unless the client missed one.
THEOREM FeedIsFollowed == Spec => []IInv
<1> QED  BY InitInvariant, StepInvariant, PTL DEF Spec

\* Every variable keeps its type: the snapshot feed's queue stays within its bound,
\* and what reaches the client is a frame.
THEOREM TypeCorrect == Spec => []TypeOK
<1>1. IInv => TypeOK
    BY DEF IInv
<1> QED  BY <1>1, FeedIsFollowed, PTL

\* No change is lost to a client that was there for its event (#896): when all has
\* arrived, the page shows the last result of each heat it missed nothing of.
THEOREM NothingIsLost == Spec => []NothingIsLostWhileConnected
<1>1. ASSUME IInv PROVE NothingIsLostWhileConnected
  <2> SUFFICES ASSUME NEW h \in Heats, h \notin missed, pending[h] = 0, h \notin HeatsIn(wire),
                      Subscribed => h \notin HeatsIn(events)
               PROVE  page[h] = stored[h]
    BY DEF NothingIsLostWhileConnected
  <2>1. ~InQueue(h) /\ ~OnItsWay(wire, h)
    BY HeatsOnTheirWay DEF InQueue
  <2> QED  BY <1>1, <2>1 DEF IInv, Followed
<1> QED  BY <1>1, FeedIsFollowed, PTL

=============================================================================
