--------------------------- MODULE GatewayProofs ----------------------------
(***************************************************************************)
(* What the gateway promises its clients, proved for any number of clients *)
(* and handlers, any caps and limits and any length of the log: what a     *)
(* client receives is the feed of Feed, through crashes, shutdowns, lost   *)
(* connections and full lanes.                                             *)
(***************************************************************************)
EXTENDS Gateway, TLAPS

(* Zenon is the prover of a step that names no other.                      *)
USE ZenonT(30)

(* The outbox of a session of this module: nothing is ephemeral, and the   *)
(* control lane holds no events.                                           *)
ControlFrame == {f \in Frame : ~IsEvent(f)}
NoMap == [k \in {} |-> 0]
Box == [control : Seq(ControlFrame), document : Seq(Frame), ephemeral : {NoMap}, order : {<<>>},
        signal : BOOLEAN, closed : BOOLEAN, overflow : BOOLEAN]

Phase == {"off", "hub", "joined", "welcomed", "fetched", "running"}

LogTyped ==
    /\ log \in Seq(SUBSET User) /\ Len(log) <= MaxSeq
    /\ pending \in [Author -> Seq(Nat)]
    /\ \A a \in Author : \A i \in 1..Len(pending[a]) : pending[a][i] \in 1..Len(log)
    /\ queue \in Seq(Nat) /\ Len(queue) <= PublishCap
    /\ \A i \in 1..Len(queue) : queue[i] \in 1..Len(log)
    /\ overtaken \subseteq 1..Len(log)
    /\ cut \in [User -> SUBSET (1..Len(log))] /\ lost \in [User -> SUBSET (1..Len(log))]

ServedTyped ==
    /\ members \subseteq {u \in User : phase[u] \notin {"off", "hub"}} \ former
    /\ closing \in BOOLEAN /\ former \subseteq User \cup Author /\ (former # {} => closing)
    /\ phase \in [User -> Phase]
    /\ ob \in [User -> Box]
    /\ lastSeq \in [User -> Nat] /\ \A u \in User : lastSeq[u] <= Len(log)
    /\ fetched \in [User -> Seq(Frame)] /\ wire \in [User -> Seq(Frame)]
    /\ got \in [User -> Seq(Nat)]

Typed == LogTyped /\ ServedTyped
-----------------------------------------------------------------------------
(* What the client has is for it, in order, and its holes are explained.   *)
Got(u) ==
    /\ \A i \in 1..Len(got[u]) : got[u][i] \in 1..Len(log) /\ u \in log[got[u][i]]
    /\ \A i, j \in 1..Len(got[u]) : i < j => got[u][i] < got[u][j]
    /\ \A s \in 1..Seen(u) : u \in log[s] => s \in Received(u) \cup Excused(u)

(* What is on the connection continues what the client has, up to lastSeq. *)
OnWire(u, s) == \E i \in 1..Len(wire[u]) : IsEvent(wire[u][i]) /\ wire[u][i].n = s
Chain(u) ==
    /\ \A i \in 1..Len(wire[u]) : IsEvent(wire[u][i]) =>
          wire[u][i].n > Seen(u) /\ wire[u][i].n <= lastSeq[u] /\ u \in log[wire[u][i].n]
    /\ \A i, j \in 1..Len(wire[u]) :
          i < j /\ IsEvent(wire[u][i]) /\ IsEvent(wire[u][j]) => wire[u][i].n < wire[u][j].n
    /\ \A s \in 1..lastSeq[u] :
          u \in log[s] => s \in Received(u) \cup Excused(u) \/ OnWire(u, s)
    /\ IF phase[u] \in {"off", "hub", "joined"}
       THEN wire[u] = <<>> /\ lastSeq[u] = 0
       ELSE Seen(u) <= lastSeq[u]

(* The replay and the document lane hold events for the user.              *)
For(u, frames) ==
    \A i \in 1..Len(frames) :
        IsEvent(frames[i]) /\ frames[i].n \in 1..Len(log) /\ u \in log[frames[i].n]
Lines(u) ==
    /\ For(u, fetched[u]) /\ For(u, ob[u].document)
    /\ phase[u] # "fetched" => fetched[u] = <<>>

(* The events the session has yet to send.                                 *)
Owed(u, s) == s > lastSeq[u] /\ u \in log[s] /\ s \notin Excused(u)
Holds(frames, n, s) == \E j \in 1..n : frames[j].n = s
Held(u, s) == Holds(fetched[u], Len(fetched[u]), s) \/ Holds(ob[u].document, Len(ob[u].document), s)

(* An event the session still owes comes before any later one: in the      *)
(* replay, in the lane behind it, and for a member in the hub's queue.     *)
CaughtUp(u) == phase[u] \in {"fetched", "running"}
ReplayOrder(u) ==
    CaughtUp(u) =>
        \A i \in 1..Len(fetched[u]) : \A s \in 1..Len(log) :
            Owed(u, s) /\ s < fetched[u][i].n => Holds(fetched[u], i - 1, s)
LaneOrder(u) ==
    CaughtUp(u) =>
        \A i \in 1..Len(ob[u].document) : \A s \in 1..Len(log) :
            Owed(u, s) /\ s < ob[u].document[i].n =>
                Holds(fetched[u], Len(fetched[u]), s) \/ Holds(ob[u].document, i - 1, s)
Queued(n, s) == \E j \in 1..n : queue[j] = s
Pending(s) == \E a \in Author : \E i \in 1..Len(pending[a]) : pending[a][i] = s
QueueOrder(u) ==
    CaughtUp(u) /\ u \in members =>
        \A i \in 1..Len(queue) : \A s \in 1..Len(log) :
            Owed(u, s) /\ s < queue[i] => Held(u, s) \/ Queued(i - 1, s)
(* A member is on its way to get whatever it is owed.                      *)
OnItsWay(u) ==
    CaughtUp(u) /\ u \in members =>
        \A s \in 1..Len(log) :
            Owed(u, s) => Held(u, s) \/ Queued(Len(queue), s) \/ Pending(s)

(* The inductive invariant.                                                *)
Promise(u) ==
    Got(u) /\ Chain(u) /\ Lines(u) /\ ReplayOrder(u) /\ LaneOrder(u) /\ QueueOrder(u) /\ OnItsWay(u)
IInv == Typed /\ \A u \in User : Promise(u)
-----------------------------------------------------------------------------
(* What leaves the front of a sequence.                                    *)
LEMMA TailFacts ==
  ASSUME NEW S, NEW q \in Seq(S), q # <<>>
  PROVE  /\ Tail(q) \in Seq(S) /\ Len(q) \in Nat \ {0} /\ Len(Tail(q)) = Len(q) - 1
         /\ Head(q) = q[1] /\ Head(q) \in S /\ \A i \in 1..Len(q) - 1 : Tail(q)[i] = q[i + 1]
BY SMTT(30)

(* What joins its end.                                                     *)
LEMMA AppendFacts ==
  ASSUME NEW S, NEW q \in Seq(S), NEW e \in S
  PROVE  /\ Append(q, e) \in Seq(S) /\ Len(q) \in Nat /\ Len(Append(q, e)) = Len(q) + 1
         /\ Append(q, e)[Len(q) + 1] = e /\ \A i \in 1..Len(q) : Append(q, e)[i] = q[i]
         /\ Append(q, e) # <<>>
BY SMTT(30)

(* One sequence behind another.                                            *)
LEMMA ConcatFacts ==
  ASSUME NEW S, NEW p \in Seq(S), NEW q \in Seq(S)
  PROVE  /\ Len(p) \in Nat /\ Len(q) \in Nat /\ Len(p \o q) = Len(p) + Len(q)
         /\ \A i \in 1..Len(p) : (p \o q)[i] = p[i]
         /\ \A i \in 1..Len(q) : (p \o q)[Len(p) + i] = q[i]
<1>1. /\ Len(p) \in Nat /\ Len(q) \in Nat /\ Len(p \o q) = Len(p) + Len(q)
      /\ \A i \in 1..Len(p) + Len(q) :
            (p \o q)[i] = IF i <= Len(p) THEN p[i] ELSE q[i - Len(p)]
  BY SMTT(30)
<1>2. ASSUME NEW i \in 1..Len(q) PROVE (p \o q)[Len(p) + i] = q[i]
  <2>1. Len(p) + i \in 1..Len(p) + Len(q) /\ ~(Len(p) + i <= Len(p)) /\ (Len(p) + i) - Len(p) = i
    BY <1>1, SMTT(30)
  <2> QED BY <1>1, <2>1
<1>3. ASSUME NEW i \in 1..Len(p) PROVE (p \o q)[i] = p[i]
  <2>1. i \in 1..Len(p) + Len(q) /\ i <= Len(p)
    BY <1>1, SMTT(30)
  <2> QED BY <1>1, <2>1
<1> QED BY <1>1, <1>2, <1>3

(* A frame of a sequence has a number.                                     *)
LEMMA FrameNumbers ==
  ASSUME NEW q \in Seq(Frame), NEW i \in 1..Len(q)
  PROVE  q[i] \in Frame /\ q[i].n \in Nat
<1>1. q[i] \in Frame
  BY SMTT(30)
<1> QED BY <1>1 DEF Frame

(* What a client has seen last is an event it has received, or nothing.    *)
LEMMA SeenIsLast ==
  ASSUME Typed, NEW u \in User, Got(u)
  PROVE  /\ Seen(u) \in 0..Len(log) /\ Len(log) \in Nat /\ Len(got[u]) \in Nat
         /\ \A s \in Received(u) : s \in Nat /\ s <= Seen(u)
<1>1. got[u] \in Seq(Nat) /\ log \in Seq(SUBSET User)
  BY DEF Typed, ServedTyped, LogTyped
<1>2. CASE got[u] = <<>>
  BY <1>1, <1>2, SMTT(30) DEF Seen, Received
<1>3. CASE got[u] # <<>>
  <2>1. Len(got[u]) \in Nat /\ Len(got[u]) \in 1..Len(got[u]) /\ Seen(u) = got[u][Len(got[u])]
    BY <1>1, <1>3, SMTT(30) DEF Seen
  <2>2. Seen(u) \in 1..Len(log) /\ Len(log) \in Nat
    BY <1>1, <2>1, SMTT(30) DEF Got
  <2>3. ASSUME NEW i \in 1..Len(got[u]) PROVE got[u][i] \in Nat /\ got[u][i] <= Seen(u)
    <3>1. got[u][i] \in Nat
      BY <1>1, SMTT(30)
    <3>2. i < Len(got[u]) => got[u][i] < Seen(u)
      BY <2>1 DEF Got
    <3> QED BY <2>1, <2>2, <3>1, <3>2, SMTT(30)
  <2> QED BY <2>1, <2>2, <2>3, SMTT(30) DEF Received
<1> QED BY <1>2, <1>3
-----------------------------------------------------------------------------
(* A new outbox is empty, and the operations on the control lane and the   *)
(* flags leave the document lane alone.                                    *)
LEMMA NewBox == NewOutbox \in Box /\ NewOutbox.document = <<>>
BY SMTT(30) DEF NewOutbox, Box, NoMap

LEMMA ControlBox ==
  ASSUME NEW o \in Box, NEW n \in Nat
  PROVE  /\ PushControl(o, Resync(n)) \in Box /\ PushControl(o, Resync(n)).document = o.document
         /\ Close(o) \in Box /\ Close(o).document = o.document
<1>1. Resync(n) \in ControlFrame
  BY DEF Resync, ControlFrame, Frame, FrameType, IsEvent
<1>2. Append(o.control, Resync(n)) \in Seq(ControlFrame)
  BY <1>1, SMTT(30) DEF Box
<1> QED BY <1>2 DEF Box, PushControl, Close, Wake

(* PushDocument adds the event at the end of the lane, or refuses.         *)
LEMMA DocumentBox ==
  ASSUME NEW o \in Box, NEW frame \in Frame
  PROVE  /\ PushDocument(o, frame) \in Box
         /\ PushDocument(o, frame).document =
               IF DocumentRefused(o) THEN o.document ELSE Append(o.document, frame)
<1>1. Append(o.document, frame) \in Seq(Frame)
  BY SMTT(30) DEF Box
<1> QED BY <1>1 DEF Box, PushDocument, DocumentRefused, Wake

(* PrependDocument puts the replay in front of the lane.                   *)
LEMMA ReplayBox ==
  ASSUME NEW o \in Box, NEW frames \in Seq(Frame), ~PrependRefused(o, frames)
  PROVE  /\ PrependDocument(o, frames) \in Box
         /\ PrependDocument(o, frames).document = frames \o o.document
<1>1. o.document \in Seq(Frame) /\ frames \o o.document \in Seq(Frame)
  BY SMTT(30) DEF Box
<1>2. CASE frames = <<>>
  BY <1>1, <1>2, SMTT(30) DEF PrependDocument
<1>3. CASE frames # <<>>
  BY <1>1, <1>3 DEF Box, PrependDocument, PrependRefused, Wake
<1> QED BY <1>2, <1>3

(* Pop takes a frame of the control lane, which is no event, or the first  *)
(* of the document lane.                                                   *)
LEMMA PopBox ==
  ASSUME NEW o \in Box, ~IsEmpty(o)
  PROVE  /\ PopRest(o) \in Box /\ PopFrame(o) \in Frame
         /\ \/ ~IsEvent(PopFrame(o)) /\ PopRest(o).document = o.document
            \/ /\ o.document # <<>>
               /\ PopFrame(o) = Head(o.document) /\ PopRest(o).document = Tail(o.document)
<1>1. o.control \in Seq(ControlFrame) /\ o.document \in Seq(Frame) /\ o.order = <<>>
  BY DEF Box
<1>2. CASE o.control # <<>>
  <2>1. Tail(o.control) \in Seq(ControlFrame) /\ Head(o.control) \in ControlFrame
    BY <1>1, <1>2, TailFacts
  <2> QED BY <1>2, <2>1 DEF Box, PopRest, PopFrame, ControlFrame
<1>3. CASE o.control = <<>>
  <2>1. o.document # <<>>
    BY <1>1, <1>3 DEF IsEmpty
  <2>2. Tail(o.document) \in Seq(Frame) /\ Head(o.document) \in Frame
    BY <1>1, <2>1, TailFacts
  <2> QED BY <1>3, <2>1, <2>2 DEF Box, PopRest, PopFrame
<1> QED BY <1>2, <1>3
-----------------------------------------------------------------------------
(* What a step may do that leaves the session of u alone: extend the log   *)
(* and excuse more events.                                                 *)
Grows ==
    /\ log' \in Seq(SUBSET User) /\ Len(log) <= Len(log')
    /\ \A s \in 1..Len(log) : log'[s] = log[s]
Excuses(u) == Excused(u) \subseteq Excused(u)'
SameGot(u) == got'[u] = got[u]
SameStart(u) == lastSeq'[u] = lastSeq[u]
SameWire(u) == wire'[u] = wire[u] /\ SameStart(u) /\ phase'[u] = phase[u]
SameLines(u) ==
    fetched'[u] = fetched[u] /\ ob'[u].document = ob[u].document /\ phase'[u] = phase[u]

LEMMA LogKept == ASSUME Typed, UNCHANGED log PROVE Grows
BY SMTT(30) DEF Typed, LogTyped, Grows

(* What the client has stays as good as it was.                            *)
LEMMA GotKept ==
  ASSUME Typed, NEW u \in User, Got(u), Grows, Excuses(u), SameGot(u)
  PROVE  Got(u)' /\ Seen(u)' = Seen(u) /\ Received(u)' = Received(u)
<1>1. Seen(u)' = Seen(u) /\ Received(u)' = Received(u)
  BY DEF SameGot, Seen, Received
<1>2. Seen(u) \in 0..Len(log) /\ Len(log) \in Nat /\ Len(log') \in Nat
  BY SeenIsLast, SMTT(30) DEF Grows
<1>3. \A i \in 1..Len(got'[u]) : got'[u][i] \in 1..Len(log') /\ u \in log'[got'[u][i]]
  BY <1>2, SMTT(30) DEF Got, SameGot, Grows
<1>4. \A i, j \in 1..Len(got'[u]) : i < j => got'[u][i] < got'[u][j]
  BY DEF Got, SameGot
<1>5. ASSUME NEW s \in 1..Seen(u), u \in log'[s] PROVE s \in Received(u)' \cup Excused(u)'
  <2>1. s \in 1..Len(log) /\ u \in log[s]
    BY <1>2, <1>5, SMTT(30) DEF Grows
  <2> QED BY <1>1, <2>1 DEF Got, Excuses
<1> QED BY <1>1, <1>3, <1>4, <1>5 DEF Got

(* So does what is on the connection.                                      *)
LEMMA ChainKept ==
  ASSUME Typed, NEW u \in User, Got(u), Chain(u), Grows, Excuses(u), SameGot(u), SameWire(u)
  PROVE  Chain(u)'
<1>1. Seen(u)' = Seen(u) /\ Received(u)' = Received(u)
  BY GotKept
<1>2. /\ lastSeq[u] \in Nat /\ lastSeq[u] <= Len(log) /\ Len(log) \in Nat /\ Seen(u) \in Nat
      /\ wire[u] \in Seq(Frame)
  BY SeenIsLast, SMTT(30) DEF Typed, ServedTyped
<1>3. ASSUME NEW i \in 1..Len(wire[u]), IsEvent(wire[u][i])
      PROVE  /\ wire[u][i].n > Seen(u) /\ wire[u][i].n <= lastSeq[u]
             /\ u \in log'[wire[u][i].n]
  <2>1. wire[u][i].n > Seen(u) /\ wire[u][i].n <= lastSeq[u] /\ u \in log[wire[u][i].n]
    BY <1>3 DEF Chain
  <2>2. wire[u][i].n \in Nat
    BY <1>2, FrameNumbers
  <2>3. wire[u][i].n \in 1..Len(log)
    BY <1>2, <2>1, <2>2, SMTT(30)
  <2> QED BY <2>1, <2>3 DEF Grows
<1>4. ASSUME NEW s \in 1..lastSeq[u], u \in log'[s]
      PROVE  s \in Received(u)' \cup Excused(u)' \/ OnWire(u, s)'
  <2>1. s \in 1..Len(log) /\ u \in log[s]
    BY <1>2, <1>4, SMTT(30) DEF Grows
  <2>2. OnWire(u, s)' <=> OnWire(u, s)
    BY DEF OnWire, SameWire
  <2> QED BY <1>1, <2>1, <2>2 DEF Chain, Excuses
<1> QED BY <1>1, <1>3, <1>4 DEF Chain, SameWire, SameStart

(* So do the replay and the lane.                                          *)
LEMMA LinesKept ==
  ASSUME Typed, NEW u \in User, Lines(u), Grows, SameLines(u)
  PROVE  Lines(u)'
<1>1. For(u, fetched[u])' /\ For(u, ob[u].document)'
  <2>1. ASSUME NEW frames, For(u, frames)
        PROVE  \A i \in 1..Len(frames) : /\ IsEvent(frames[i]) /\ frames[i].n \in 1..Len(log')
                                         /\ u \in log'[frames[i].n]
    BY <2>1, SMTT(30) DEF Typed, LogTyped, For, Grows
  <2>2. For(u, fetched[u]) /\ For(u, ob[u].document)
    BY DEF Lines
  <2>3. For(u, fetched[u])'
    BY <2>1, <2>2 DEF SameLines, For
  <2>4. For(u, ob[u].document)'
    BY <2>1, <2>2 DEF SameLines, For
  <2> QED BY <2>3, <2>4
<1> QED BY <1>1 DEF Lines, SameLines

(* An event of the log as it was is owed only if it was owed.              *)
LEMMA OwedKept ==
  ASSUME Typed, NEW u \in User, Grows, Excuses(u), lastSeq'[u] >= lastSeq[u], lastSeq'[u] \in Nat,
         NEW s \in 1..Len(log), Owed(u, s)'
  PROVE  Owed(u, s)
BY SMTT(30) DEF Typed, LogTyped, ServedTyped, Owed, Grows, Excuses

LEMMA OrderKept ==
  ASSUME Typed, NEW u \in User, Lines(u), ReplayOrder(u), LaneOrder(u), Grows, Excuses(u),
         SameStart(u), SameLines(u)
  PROVE  ReplayOrder(u)' /\ LaneOrder(u)'
<1>1. CASE ~CaughtUp(u)
  BY <1>1 DEF ReplayOrder, LaneOrder, CaughtUp, SameLines
<1>2. CASE CaughtUp(u)
  <2>1. Len(log) \in Nat /\ Len(log') \in Nat /\ lastSeq'[u] \in Nat /\ lastSeq'[u] >= lastSeq[u]
    BY SMTT(30) DEF Typed, LogTyped, ServedTyped, Grows, SameStart
  <2>2. ASSUME NEW n \in 1..Len(log), NEW s \in 1..Len(log'), s < n
        PROVE  s \in 1..Len(log)
    BY <2>1, <2>2, SMTT(30)
  <2>3. ASSUME NEW i \in 1..Len(fetched[u]), NEW s \in 1..Len(log'), Owed(u, s)',
               s < fetched[u][i].n
        PROVE  Holds(fetched[u], i - 1, s)
    <3>1. fetched[u][i].n \in 1..Len(log)
      BY DEF Lines, For
    <3>2. s \in 1..Len(log) /\ Owed(u, s)
      BY <2>1, <2>2, <2>3, <3>1, OwedKept
    <3> QED BY <1>2, <2>3, <3>2 DEF ReplayOrder
  <2>4. ASSUME NEW i \in 1..Len(ob[u].document), NEW s \in 1..Len(log'), Owed(u, s)',
               s < ob[u].document[i].n
        PROVE  Holds(fetched[u], Len(fetched[u]), s) \/ Holds(ob[u].document, i - 1, s)
    <3>1. ob[u].document[i].n \in 1..Len(log)
      BY DEF Lines, For
    <3>2. s \in 1..Len(log) /\ Owed(u, s)
      BY <2>1, <2>2, <2>4, <3>1, OwedKept
    <3> QED BY <1>2, <2>4, <3>2 DEF LaneOrder
  <2>5. ReplayOrder(u)'
    BY <2>3, SMTT(30) DEF ReplayOrder, SameLines, Holds
  <2>6. LaneOrder(u)'
    BY <2>4, SMTT(30) DEF LaneOrder, SameLines, Holds
  <2> QED BY <2>5, <2>6
<1> QED BY <1>1, <1>2

(* Where the hub and the handlers stand still too, the rest stays as well. *)
SameHub(u) == UNCHANGED <<log, pending, queue>> /\ (u \in members' => u \in members)
LEMMA QueueKept ==
  ASSUME Typed, NEW u \in User, QueueOrder(u), OnItsWay(u), Excuses(u),
         SameStart(u), SameLines(u), SameHub(u)
  PROVE  QueueOrder(u)' /\ OnItsWay(u)'
<1>1. \A s : Held(u, s)' <=> Held(u, s)
  BY DEF Held, Holds, SameLines
<1>2. \A s \in 1..Len(log) : Owed(u, s)' => Owed(u, s)
  BY DEF Owed, SameHub, SameStart, Excuses
<1>3. QueueOrder(u)'
  BY <1>1, <1>2 DEF QueueOrder, CaughtUp, SameHub, SameLines, Queued
<1>4. OnItsWay(u)'
  BY <1>1, <1>2 DEF OnItsWay, CaughtUp, SameHub, SameLines, Queued, Pending
<1> QED BY <1>3, <1>4

(* The other sessions, while one of them takes a step.                     *)
LEMMA OthersKept ==
  ASSUME Typed, NEW u \in User, Promise(u), SameHub(u), Excuses(u),
         SameGot(u), SameWire(u), SameLines(u)
  PROVE  Promise(u)'
<1>1. Grows
  BY LogKept DEF SameHub
<1> QED BY <1>1, GotKept, ChainKept, LinesKept, OrderKept, QueueKept DEF Promise, SameWire
-----------------------------------------------------------------------------
(* Init: nobody has anything, and nobody is owed anything.                 *)
LEMMA IInvInit == Init => IInv
<1> SUFFICES ASSUME Init PROVE IInv
  OBVIOUS
<1>1. LogTyped
  BY GatewayAssumption, SMTT(30) DEF Init, LogTyped
<1>2. ServedTyped
  <2>1. phase \in [User -> Phase] /\ ob \in [User -> Box] /\ lastSeq \in [User -> Nat]
    BY NewBox DEF Init, Phase
  <2>2. \A u \in User : lastSeq[u] <= Len(log)
    BY SMTT(30) DEF Init
  <2>3. /\ fetched \in [User -> Seq(Frame)] /\ wire \in [User -> Seq(Frame)]
        /\ got \in [User -> Seq(Nat)]
    BY SMTT(30) DEF Init
  <2>4. closing \in BOOLEAN /\ former = {} /\ members = {}
    BY DEF Init
  <2> QED BY <2>1, <2>2, <2>3, <2>4 DEF ServedTyped
<1>3. ASSUME NEW u \in User PROVE Promise(u)
  <2>1. Got(u) /\ Chain(u)
    BY SMTT(30) DEF Init, Got, Chain, Seen
  <2>2. Lines(u)
    BY NewBox, SMTT(30) DEF Init, Lines, For
  <2> QED
    BY <2>1, <2>2
       DEF Init, Promise, ReplayOrder, LaneOrder, QueueOrder, OnItsWay, CaughtUp
<1> QED BY <1>1, <1>2, <1>3 DEF IInv, Typed

(* AppendEvent: what is new at the end of the log is pending.              *)
LEMMA CommitStep ==
  ASSUME IInv, NEW a \in Author, NEW n \in 1..2, NEW who \in [1..n -> SUBSET User], Commit(a, who)
  PROVE  IInv'
<1> DEFINE p == [i \in 1..n |-> Len(log) + i]
<1>1. /\ Typed /\ log \in Seq(SUBSET User) /\ Len(log) \in Nat /\ n \in Nat
      /\ who \in Seq(SUBSET User) /\ Len(who) = n
  BY SMTT(30) DEF IInv, Typed, LogTyped
<1>2. /\ log' = log \o who /\ pending' = [pending EXCEPT ![a] = p] /\ pending[a] = <<>>
      /\ Len(log) + n <= MaxSeq
      /\ UNCHANGED <<queue, members, phase, ob, lastSeq, fetched, wire, got, closing,
                     overtaken, cut, lost>>
  BY <1>1 DEF Commit
<1>3. log' \in Seq(SUBSET User) /\ Len(log') = Len(log) + n /\ Grows
  BY <1>1, <1>2, SMTT(30) DEF Grows
<1>4. p \in Seq(Nat) /\ Len(p) = n /\ \A i \in 1..n : p[i] = Len(log) + i
  BY <1>1, SMTT(30)
<1> HIDE DEF p
<1>5. pending'[a] = p /\ \A b \in Author \ {a} : pending'[b] = pending[b]
  BY <1>2 DEF IInv, Typed, LogTyped
<1>6. LogTyped'
  <2>1. pending' \in [Author -> Seq(Nat)]
    BY <1>2, <1>4 DEF IInv, Typed, LogTyped
  <2>2. ASSUME NEW b \in Author, NEW i \in 1..Len(pending'[b]) PROVE pending'[b][i] \in 1..Len(log')
    <3>1. CASE b = a
      BY <1>1, <1>3, <1>4, <1>5, <2>2, <3>1, SMTT(30)
    <3>2. CASE b # a
      <4>1. pending[b][i] \in 1..Len(log)
        BY <1>5, <2>2, <3>2 DEF IInv, Typed, LogTyped
      <4> QED BY <1>1, <1>3, <1>5, <3>2, <4>1, SMTT(30)
    <3> QED BY <3>1, <3>2
  <2>3. \A S : S \subseteq 1..Len(log) => S \subseteq 1..Len(log')
    BY <1>1, <1>3, SMTT(30)
  <2>4. /\ cut' \in [User -> SUBSET (1..Len(log'))] /\ lost' \in [User -> SUBSET (1..Len(log'))]
        /\ overtaken' \subseteq 1..Len(log')
    BY <1>2, <2>3 DEF IInv, Typed, LogTyped
  <2>5. queue' \in Seq(Nat) /\ Len(queue') <= PublishCap
        /\ \A i \in 1..Len(queue') : queue'[i] \in 1..Len(log')
    BY <1>1, <1>2, <1>3, SMTT(30) DEF IInv, Typed, LogTyped
  <2> QED BY <1>2, <1>3, <2>1, <2>2, <2>4, <2>5 DEF LogTyped
<1>7. ServedTyped'
  <2>1. former' = former \/ (closing /\ former' = former \cup {a})
    BY DEF Commit
  <2>2. a \notin User
    BY GatewayAssumption
  <2>3. members' \subseteq {u \in User : phase'[u] \notin {"off", "hub"}} \ former'
    BY <1>2, <2>1, <2>2 DEF IInv, Typed, ServedTyped
  <2>4. former' \subseteq User \cup Author /\ (former' # {} => closing')
    BY <1>2, <2>1 DEF IInv, Typed, ServedTyped
  <2>5. \A u \in User : lastSeq'[u] <= Len(log')
    BY <1>1, <1>2, <1>3, SMTT(30) DEF IInv, Typed, ServedTyped
  <2> QED BY <1>2, <2>3, <2>4, <2>5 DEF IInv, Typed, ServedTyped
<1>8. ASSUME NEW v \in User PROVE Promise(v)'
  <2>1. Excused(v)' = Excused(v) /\ Excuses(v) /\ SameGot(v) /\ SameWire(v) /\ SameLines(v)
    BY <1>2 DEF Excused, Excuses, SameGot, SameWire, SameStart, SameLines
  <2>2. Got(v)' /\ Chain(v)' /\ Lines(v)' /\ ReplayOrder(v)' /\ LaneOrder(v)'
    BY <1>1, <1>3, <2>1, GotKept, ChainKept, LinesKept, OrderKept DEF IInv, Promise, SameWire
  <2>3. \A s : Held(v, s)' <=> Held(v, s)
    BY <2>1 DEF Held, Holds, SameLines
  <2>4. lastSeq'[v] \in Nat /\ lastSeq'[v] >= lastSeq[v]
    BY <1>2, SMTT(30) DEF IInv, Typed, ServedTyped
  <2>5. \A s \in 1..Len(log) : Owed(v, s)' => Owed(v, s)
    BY <1>1, <1>3, <2>1, <2>4, OwedKept
  <2>6. QueueOrder(v)'
    <3> SUFFICES ASSUME CaughtUp(v)', v \in members', NEW i \in 1..Len(queue'),
                        NEW s \in 1..Len(log'), Owed(v, s)', s < queue'[i]
                 PROVE  Held(v, s)' \/ Queued(i - 1, s)'
      BY DEF QueueOrder
    <3>1. i \in 1..Len(queue) /\ queue[i] \in 1..Len(log) /\ s < queue[i]
      BY <1>2 DEF IInv, Typed, LogTyped
    <3>2. s \in 1..Len(log)
      BY <1>1, <1>3, <3>1, SMTT(30)
    <3>3. Held(v, s) \/ Queued(i - 1, s)
      BY <1>2, <2>5, <3>1, <3>2 DEF IInv, Promise, QueueOrder, CaughtUp
    <3> QED BY <1>2, <2>3, <3>3 DEF Queued
  <2>7. OnItsWay(v)'
    <3> SUFFICES ASSUME CaughtUp(v)', v \in members', NEW s \in 1..Len(log'), Owed(v, s)'
                 PROVE  Held(v, s)' \/ Queued(Len(queue), s)' \/ Pending(s)'
      BY <1>2 DEF OnItsWay
    <3>1. CASE s \in 1..Len(log)
      <4>1. Held(v, s) \/ Queued(Len(queue), s) \/ Pending(s)
        BY <1>2, <2>5, <3>1 DEF IInv, Promise, OnItsWay, CaughtUp
      <4>2. ASSUME Pending(s) PROVE Pending(s)'
        <5>1. PICK b \in Author : \E i \in 1..Len(pending[b]) : pending[b][i] = s
          BY <4>2 DEF Pending
        <5>2. b # a
          BY <1>2, <5>1, SMTT(30)
        <5> QED BY <1>5, <5>1, <5>2 DEF Pending
      <4> QED BY <1>2, <2>3, <4>1, <4>2 DEF Queued
    <3>2. CASE s \notin 1..Len(log)
      <4>1. s - Len(log) \in 1..n /\ Len(log) + (s - Len(log)) = s
        BY <1>1, <1>3, <3>2, SMTT(30)
      <4>2. pending'[a][s - Len(log)] = s /\ s - Len(log) \in 1..Len(pending'[a])
        BY <1>4, <1>5, <4>1
      <4> QED BY <4>2 DEF Pending
    <3> QED BY <3>1, <3>2
  <2> QED BY <2>2, <2>6, <2>7 DEF Promise
<1> QED BY <1>6, <1>7, <1>8 DEF IInv, Typed

(* A handler whose next event leaves pending, with the others untouched.   *)
LEMMA Unpend ==
  ASSUME Typed, NEW a \in Author, pending[a] # <<>>,
         pending' = [pending EXCEPT ![a] = Tail(@)]
  PROVE  /\ Head(pending[a]) \in 1..Len(log)
         /\ pending' \in [Author -> Seq(Nat)]
         /\ \A b \in Author : \A i \in 1..Len(pending'[b]) : pending'[b][i] \in 1..Len(log)
         /\ \A s : Pending(s) => s = Head(pending[a]) \/ Pending(s)'
<1> DEFINE t == Tail(pending[a])
<1>1. pending \in [Author -> Seq(Nat)] /\ pending[a] \in Seq(Nat)
  BY DEF Typed, LogTyped
<1>2. /\ t \in Seq(Nat) /\ Len(pending[a]) \in Nat \ {0} /\ Len(t) = Len(pending[a]) - 1
      /\ Head(pending[a]) = pending[a][1] /\ \A i \in 1..Len(pending[a]) - 1 : t[i] = pending[a][i + 1]
  BY <1>1, TailFacts
<1>3. pending' = [pending EXCEPT ![a] = t]
  OBVIOUS
<1> HIDE DEF t
<1>4. /\ pending' \in [Author -> Seq(Nat)] /\ pending'[a] = t
      /\ \A b \in Author \ {a} : pending'[b] = pending[b]
  BY <1>1, <1>2, <1>3
<1>5. \A b \in Author : \A i \in 1..Len(pending[b]) : pending[b][i] \in 1..Len(log)
  BY DEF Typed, LogTyped
<1>6. ASSUME NEW b \in Author, NEW i \in 1..Len(pending'[b]) PROVE pending'[b][i] \in 1..Len(log)
  <2>1. CASE b = a
    <3>1. i \in 1..Len(pending[a]) - 1 /\ i + 1 \in 1..Len(pending[a])
      BY <1>2, <1>4, <1>6, <2>1, SMTT(30)
    <3> QED BY <1>2, <1>4, <1>5, <2>1, <3>1
  <2>2. CASE b # a
    BY <1>4, <1>5, <1>6, <2>2
  <2> QED BY <2>1, <2>2
<1>7. ASSUME NEW s, Pending(s), s # Head(pending[a]) PROVE Pending(s)'
  <2>1. PICK b \in Author : \E i \in 1..Len(pending[b]) : pending[b][i] = s
    BY <1>7 DEF Pending
  <2>2. PICK i \in 1..Len(pending[b]) : pending[b][i] = s
    BY <2>1
  <2>3. CASE b = a
    <3>1. i - 1 \in 1..Len(t) /\ t[i - 1] = s
      BY <1>2, <1>7, <2>2, <2>3, SMTT(30)
    <3> QED BY <1>4, <3>1 DEF Pending
  <2>4. CASE b # a
    BY <1>4, <2>2, <2>4 DEF Pending
  <2> QED BY <2>3, <2>4
<1>8. Head(pending[a]) \in 1..Len(log)
  BY <1>2, <1>5, SMTT(30)
<1> QED BY <1>4, <1>6, <1>7, <1>8

(* Publish: the event joins the queue, and what is still pending before it *)
(* is excused.                                                             *)
LEMMA PublishStep == ASSUME IInv, NEW a \in Author, Publish(a) PROVE IInv'
<1> DEFINE h == Head(pending[a])
           q == Append(queue, h)
<1>1. /\ Typed /\ Len(log) \in Nat /\ queue \in Seq(Nat) /\ PublishCap \in Nat
      /\ \A i \in 1..Len(queue) : queue[i] \in 1..Len(log)
  BY GatewayAssumption, SMTT(30) DEF IInv, Typed, LogTyped
<1>2. /\ pending[a] # <<>> /\ pending' = [pending EXCEPT ![a] = Tail(@)]
      /\ queue' = q /\ Len(queue) < PublishCap
      /\ UNCHANGED <<log, members, phase, ob, lastSeq, fetched, wire, got, closing, former,
                     cut, lost>>
  BY DEF Publish
<1>3. /\ h \in 1..Len(log)
      /\ pending' \in [Author -> Seq(Nat)]
      /\ \A b \in Author : \A i \in 1..Len(pending'[b]) : pending'[b][i] \in 1..Len(log)
      /\ \A s : Pending(s) => s = h \/ Pending(s)'
  BY <1>1, <1>2, Unpend
<1>4. overtaken' = overtaken \cup {s \in 1..h - 1 : Pending(s)}
  BY DEF Publish, Pending
<1> HIDE DEF h
<1>5. /\ q \in Seq(Nat) /\ Len(queue) \in Nat /\ Len(q) = Len(queue) + 1 /\ q[Len(queue) + 1] = h
      /\ \A i \in 1..Len(queue) : q[i] = queue[i]
  BY <1>1, <1>3, AppendFacts, SMTT(30)
<1> HIDE DEF q
<1>6. LogTyped'
  <2>1. overtaken' \subseteq 1..Len(log)
    <3>1. \A s \in 1..h - 1 : s \in 1..Len(log)
      BY <1>1, <1>3, SMTT(30)
    <3>2. overtaken \subseteq 1..Len(log)
      BY DEF IInv, Typed, LogTyped
    <3> QED BY <1>4, <3>1, <3>2
  <2>2. ASSUME NEW i \in 1..Len(q) PROVE q[i] \in 1..Len(log)
    <3>1. i \in 1..Len(queue) \/ i = Len(queue) + 1
      BY <1>5, SMTT(30)
    <3> QED BY <1>1, <1>3, <1>5, <3>1
  <2>3. Len(q) <= PublishCap
    BY <1>1, <1>2, <1>5, SMTT(30)
  <2> QED BY <1>2, <1>3, <1>5, <2>1, <2>2, <2>3 DEF IInv, Typed, LogTyped
<1>7. ServedTyped'
  BY <1>2 DEF IInv, Typed, ServedTyped
<1>8. ASSUME NEW v \in User PROVE Promise(v)'
  <2>1. /\ Excused(v)' = Excused(v) \cup {s \in 1..h - 1 : Pending(s)} /\ Excuses(v) /\ Grows
        /\ SameGot(v) /\ SameWire(v) /\ SameLines(v)
    BY <1>1, <1>2, <1>4, LogKept DEF Excused, Excuses, SameGot, SameWire, SameStart, SameLines
  <2>2. Got(v)' /\ Chain(v)' /\ Lines(v)' /\ ReplayOrder(v)' /\ LaneOrder(v)'
    BY <1>1, <2>1, GotKept, ChainKept, LinesKept, OrderKept DEF IInv, Promise, SameWire
  <2>3. \A s : Held(v, s)' <=> Held(v, s)
    BY <2>1 DEF Held, Holds, SameLines
  <2>4. \A s \in 1..Len(log) : Owed(v, s)' => Owed(v, s) /\ ~(s \in 1..h - 1 /\ Pending(s))
    BY <1>2, <2>1 DEF Owed
  <2>5. \A i \in 0..Len(queue) : \A s : Queued(i, s) => Queued(i, s)'
    <3>1. \A i \in 0..Len(queue) : \A j \in 1..i : j \in 1..Len(queue)
      BY <1>5, SMTT(30)
    <3> QED BY <1>2, <1>5, <3>1 DEF Queued
  <2>6. ASSUME CaughtUp(v)', v \in members', NEW s \in 1..Len(log), Owed(v, s)'
        PROVE  Held(v, s) \/ Queued(Len(queue), s) \/ Pending(s)
    BY <1>2, <2>4, <2>6 DEF IInv, Promise, OnItsWay, CaughtUp
  <2>7. QueueOrder(v)'
    <3> SUFFICES ASSUME CaughtUp(v)', v \in members', NEW i \in 1..Len(q),
                        NEW s \in 1..Len(log), Owed(v, s)', s < q[i]
                 PROVE  Held(v, s)' \/ Queued(i - 1, s)'
      BY <1>2 DEF QueueOrder
    <3>1. CASE i \in 1..Len(queue)
      <4>1. s < queue[i] /\ i - 1 \in 0..Len(queue)
        BY <1>5, <3>1, SMTT(30)
      <4>2. Held(v, s) \/ Queued(i - 1, s)
        BY <1>2, <2>4, <3>1, <4>1 DEF IInv, Promise, QueueOrder, CaughtUp
      <4> QED BY <2>3, <2>5, <4>1, <4>2
    <3>2. CASE i = Len(queue) + 1
      <4>1. s \in 1..h - 1 /\ i - 1 = Len(queue) /\ Len(queue) \in 0..Len(queue)
        BY <1>3, <1>5, <3>2, SMTT(30)
      <4>2. Held(v, s) \/ Queued(Len(queue), s)
        BY <2>4, <2>6, <4>1
      <4> QED BY <2>3, <2>5, <4>1, <4>2
    <3> QED BY <1>5, <3>1, <3>2, SMTT(30)
  <2>8. OnItsWay(v)'
    <3> SUFFICES ASSUME CaughtUp(v)', v \in members', NEW s \in 1..Len(log), Owed(v, s)'
                 PROVE  Held(v, s)' \/ (\E j \in 1..Len(q) : q[j] = s) \/ Pending(s)'
      BY <1>2 DEF OnItsWay, Queued
    <3>1. Queued(Len(queue), s) => \E j \in 1..Len(q) : q[j] = s
      <4>1. \A j \in 1..Len(queue) : j \in 1..Len(q)
        BY <1>5, SMTT(30)
      <4> QED BY <1>5, <4>1 DEF Queued
    <3>2. \E j \in 1..Len(q) : q[j] = h
      <4>1. Len(queue) + 1 \in 1..Len(q)
        BY <1>5, SMTT(30)
      <4> QED BY <1>5, <4>1
    <3> QED BY <1>3, <2>3, <2>6, <3>1, <3>2
  <2> QED BY <2>2, <2>7, <2>8 DEF Promise
<1> QED BY <1>6, <1>7, <1>8 DEF IInv, Typed

(* Publish on the closed hub: the event is lost to the new hub's members.  *)
LEMMA PublishNowhereStep == ASSUME IInv, NEW a \in Author, PublishNowhere(a) PROVE IInv'
<1> DEFINE h == Head(pending[a])
<1>1. Typed /\ Len(log) \in Nat
  BY SMTT(30) DEF IInv, Typed, LogTyped
<1>2. /\ pending[a] # <<>> /\ pending' = [pending EXCEPT ![a] = Tail(@)]
      /\ lost' = [u \in User |->
            IF u \in members /\ phase[u] \in {"fetched", "running"}
            THEN lost[u] \cup {h} ELSE lost[u]]
      /\ former' \subseteq former
      /\ UNCHANGED <<log, queue, members, phase, ob, lastSeq, fetched, wire, got, closing,
                     overtaken, cut>>
  BY DEF PublishNowhere
<1>3. /\ h \in 1..Len(log)
      /\ pending' \in [Author -> Seq(Nat)]
      /\ \A b \in Author : \A i \in 1..Len(pending'[b]) : pending'[b][i] \in 1..Len(log)
      /\ \A s : Pending(s) => s = h \/ Pending(s)'
  BY <1>1, <1>2, Unpend
<1> HIDE DEF h
<1>4. LogTyped'
  <2>1. lost' \in [User -> SUBSET (1..Len(log))]
    BY <1>2, <1>3 DEF IInv, Typed, LogTyped
  <2> QED BY <1>2, <1>3, <2>1 DEF IInv, Typed, LogTyped
<1>5. ServedTyped'
  <2>1. /\ members' \subseteq {u \in User : phase'[u] \notin {"off", "hub"}} \ former'
        /\ former' \subseteq User \cup Author /\ (former' # {} => closing')
    BY <1>2 DEF IInv, Typed, ServedTyped
  <2> QED BY <1>2, <2>1 DEF IInv, Typed, ServedTyped
<1>6. ASSUME NEW v \in User PROVE Promise(v)'
  <2>1. /\ Excuses(v) /\ Grows /\ SameGot(v) /\ SameWire(v) /\ SameLines(v)
    BY <1>1, <1>2, LogKept DEF Excused, Excuses, SameGot, SameWire, SameStart, SameLines
  <2>2. Got(v)' /\ Chain(v)' /\ Lines(v)' /\ ReplayOrder(v)' /\ LaneOrder(v)'
    BY <1>1, <2>1, GotKept, ChainKept, LinesKept, OrderKept DEF IInv, Promise, SameWire
  <2>3. \A s : Held(v, s)' <=> Held(v, s)
    BY <2>1 DEF Held, Holds, SameLines
  <2>4. \A s \in 1..Len(log) : Owed(v, s)' => Owed(v, s)
    BY <1>2, <2>1 DEF Owed, Excuses
  <2>5. QueueOrder(v)'
    BY <1>2, <2>3, <2>4, SMTT(30) DEF IInv, Promise, QueueOrder, CaughtUp, Queued
  <2>6. OnItsWay(v)'
    <3> SUFFICES ASSUME CaughtUp(v)', v \in members', NEW s \in 1..Len(log), Owed(v, s)'
                 PROVE  Held(v, s)' \/ Queued(Len(queue), s)' \/ Pending(s)'
      BY <1>2 DEF OnItsWay
    <3>1. s # h
      BY <1>2 DEF Owed, Excused, CaughtUp
    <3>2. Held(v, s) \/ Queued(Len(queue), s) \/ Pending(s)
      BY <1>2, <2>4 DEF IInv, Promise, OnItsWay, CaughtUp
    <3> QED BY <1>2, <1>3, <2>3, <3>1, <3>2 DEF Queued
  <2> QED BY <2>2, <2>5, <2>6 DEF Promise
<1> QED BY <1>4, <1>5, <1>6 DEF IInv, Typed

(* fanOut: an accepted event goes behind those of the lane, and whoever    *)
(* cannot take it is no longer a member.                                   *)
LEMMA FanOutStep == ASSUME IInv, FanOut PROVE IInv'
<1> DEFINE h == Head(queue)
           q == Tail(queue)
           takes(v) == v \in members \cap log[h] /\ ~DocumentRefused(ob[v])
<1>1. /\ Typed /\ Len(log) \in Nat /\ queue \in Seq(Nat) /\ queue # <<>>
      /\ \A i \in 1..Len(queue) : queue[i] \in 1..Len(log)
  BY SMTT(30) DEF IInv, Typed, LogTyped, FanOut
<1>2. /\ q \in Seq(Nat) /\ Len(queue) \in Nat \ {0} /\ Len(q) = Len(queue) - 1
      /\ h = queue[1] /\ h \in Nat /\ \A i \in 1..Len(queue) - 1 : q[i] = queue[i + 1]
  BY <1>1, TailFacts
<1>3. /\ queue' = q /\ members' = members \ {u \in members \cap log[h] : DocumentRefused(ob[u])}
      /\ ob' = [u \in User |->
            IF u \in members \cap log[h] /\ DocumentRefused(ob[u])
            THEN Close(PushControl(PushDocument(ob[u], Event(h)), Resync(lastSeq[u])))
            ELSE IF u \in members \cap log[h] THEN PushDocument(ob[u], Event(h)) ELSE ob[u]]
      /\ UNCHANGED <<log, pending, phase, lastSeq, fetched, wire, got, closing, former,
                     overtaken, cut, lost>>
  BY DEF FanOut
<1>4. h \in 1..Len(log) /\ Event(h) \in Frame /\ Event(h).n = h /\ IsEvent(Event(h))
  BY <1>1, <1>2, SMTT(30) DEF Event, Frame, FrameType, IsEvent
<1> HIDE DEF q, h
<1>5. ASSUME NEW v \in User
      PROVE  /\ ob[v] \in Box /\ ob'[v] \in Box
             /\ ob'[v].document = IF takes(v) THEN Append(ob[v].document, Event(h))
                                  ELSE ob[v].document
  <2>1. ob[v] \in Box /\ lastSeq[v] \in Nat
    BY DEF IInv, Typed, ServedTyped
  <2>2. CASE v \in members \cap log[h] /\ DocumentRefused(ob[v])
    <3> DEFINE o == PushDocument(ob[v], Event(h))
    <3>1. o \in Box /\ o.document = ob[v].document
      BY <1>4, <2>1, <2>2, DocumentBox
    <3> HIDE DEF o
    <3>2. PushControl(o, Resync(lastSeq[v])) \in Box
          /\ PushControl(o, Resync(lastSeq[v])).document = o.document
      BY <2>1, <3>1, ControlBox
    <3>3. /\ Close(PushControl(o, Resync(lastSeq[v]))) \in Box
          /\ Close(PushControl(o, Resync(lastSeq[v]))).document = o.document
      BY <2>1, <3>2, ControlBox
    <3>4. ob'[v] = Close(PushControl(o, Resync(lastSeq[v])))
      BY <1>3, <2>2 DEF o
    <3> QED BY <2>1, <2>2, <3>1, <3>3, <3>4
  <2>3. CASE takes(v)
    BY <1>3, <1>4, <2>1, <2>3, DocumentBox
  <2>4. CASE v \notin members \cap log[h]
    BY <1>3, <2>1, <2>4
  <2> QED BY <2>2, <2>3, <2>4
<1>6. LogTyped'
  <2>1. ASSUME NEW i \in 1..Len(q) PROVE q[i] \in 1..Len(log)
    <3>1. i + 1 \in 1..Len(queue) /\ q[i] = queue[i + 1]
      BY <1>2, SMTT(30)
    <3> QED BY <1>1, <3>1
  <2>2. Len(q) <= PublishCap
    BY <1>2, GatewayAssumption, SMTT(30) DEF IInv, Typed, LogTyped
  <2> QED BY <1>2, <1>3, <2>1, <2>2 DEF IInv, Typed, LogTyped
<1>7. ServedTyped'
  <2>1. ob' \in [User -> Box]
    <3>1. DOMAIN ob' = User
      BY <1>3
    <3> QED BY <1>3, <1>5, <3>1
  <2>2. members' \subseteq {u \in User : phase'[u] \notin {"off", "hub"}} \ former'
    BY <1>3 DEF IInv, Typed, ServedTyped
  <2> QED BY <1>3, <2>1, <2>2 DEF IInv, Typed, ServedTyped
<1>8. ASSUME NEW v \in User PROVE Promise(v)'
  <2> DEFINE d == ob[v].document
             e == ob'[v].document
  <2>1. /\ Excused(v)' = Excused(v) /\ Excuses(v) /\ Grows /\ SameGot(v) /\ SameWire(v)
        /\ fetched'[v] = fetched[v]
    BY <1>1, <1>3, LogKept DEF Excused, Excuses, SameGot, SameWire, SameStart
  <2>2. Got(v)' /\ Chain(v)'
    BY <1>1, <2>1, GotKept, ChainKept DEF IInv, Promise
  <2>3. \A s : Owed(v, s)' <=> Owed(v, s)
    BY <1>3, <2>1 DEF Owed
  <2>4. Lines(v) /\ ReplayOrder(v) /\ LaneOrder(v) /\ QueueOrder(v) /\ OnItsWay(v)
    BY DEF IInv, Promise
  <2>5. d \in Seq(Frame) /\ Len(d) \in Nat
    BY <1>5, SMTT(30) DEF Box
  <2>6. \/ e = d
        \/ /\ takes(v) /\ Len(e) = Len(d) + 1 /\ e[Len(d) + 1] = Event(h)
           /\ \A i \in 1..Len(d) : e[i] = d[i]
    <3>1. /\ Len(Append(d, Event(h))) = Len(d) + 1 /\ Append(d, Event(h))[Len(d) + 1] = Event(h)
          /\ \A i \in 1..Len(d) : Append(d, Event(h))[i] = d[i]
      BY <1>4, <2>5, AppendFacts, SMTT(30)
    <3>2. e = IF takes(v) THEN Append(d, Event(h)) ELSE d
      BY <1>5
    <3> QED BY <3>1, <3>2
  <2>7. takes(v) => e[Len(d) + 1] = Event(h) /\ Len(e) = Len(d) + 1
    <3>1. /\ Len(Append(d, Event(h))) = Len(d) + 1 /\ Append(d, Event(h))[Len(d) + 1] = Event(h)
      BY <1>4, <2>5, AppendFacts, SMTT(30)
    <3>2. takes(v) => e = Append(d, Event(h))
      BY <1>5
    <3> QED BY <3>1, <3>2
  <2> HIDE DEF d, e
  <2>8. \A n \in 0..Len(d) : \A s : Holds(d, n, s) => Holds(e, n, s)
    BY <2>5, <2>6, SMTT(30) DEF Holds
  <2>9. \A s : Held(v, s) => Held(v, s)'
    <3>1. ASSUME NEW s, Holds(d, Len(d), s) PROVE Holds(e, Len(e), s)
      <4>1. PICK j \in 1..Len(d) : d[j].n = s
        BY <3>1 DEF Holds
      <4>2. j \in 1..Len(e) /\ e[j] = d[j]
        BY <2>5, <2>6, SMTT(30)
      <4> QED BY <4>1, <4>2 DEF Holds
    <3> QED BY <2>1, <3>1 DEF Held, Holds, d, e
  <2>10. \A s : takes(v) /\ s = h => Held(v, s)'
    <3>1. ASSUME takes(v) PROVE Holds(e, Len(e), h)
      <4>1. Len(d) + 1 \in 1..Len(e) /\ e[Len(d) + 1].n = h
        BY <1>4, <2>5, <2>7, <3>1, SMTT(30)
      <4> QED BY <4>1 DEF Holds
    <3> QED BY <3>1 DEF Held, Holds, e
  <2>11. Lines(v)'
    <3>1. For(v, fetched[v]) /\ For(v, d)
      BY <2>4 DEF Lines, d
    <3>2. ASSUME NEW i \in 1..Len(e)
          PROVE  IsEvent(e[i]) /\ e[i].n \in 1..Len(log) /\ v \in log[e[i].n]
      <4>1. CASE e = d
        BY <3>1, <4>1 DEF For
      <4>2. CASE e # d /\ i \in 1..Len(d)
        BY <2>6, <3>1, <4>2 DEF For
      <4>3. CASE e # d /\ i = Len(d) + 1
        BY <1>4, <2>6, <4>3
      <4> QED BY <2>5, <2>6, <4>1, <4>2, <4>3, SMTT(30)
    <3>3. For(v, ob[v].document)'
      BY <1>3, <3>2 DEF For, e
    <3>4. For(v, fetched[v])'
      BY <1>3, <3>1 DEF For
    <3> QED BY <1>3, <2>4, <3>3, <3>4 DEF Lines
  <2>12. ReplayOrder(v)'
    BY <1>3, <2>1, <2>3, <2>4 DEF ReplayOrder, CaughtUp, Holds
  <2>13. LaneOrder(v)'
    <3> SUFFICES ASSUME CaughtUp(v)', NEW i \in 1..Len(e), NEW s \in 1..Len(log), Owed(v, s),
                        s < e[i].n
                 PROVE  Holds(fetched[v], Len(fetched[v]), s) \/ Holds(e, i - 1, s)
      BY <1>3, <2>3, SMTT(30) DEF LaneOrder, Holds, e
    <3>1. CaughtUp(v)
      BY <1>3 DEF CaughtUp
    <3>2. CASE i \in 1..Len(d)
      <4>1. s < d[i].n /\ i - 1 \in 0..Len(d)
        BY <2>5, <2>6, <3>2, SMTT(30)
      <4>2. Holds(fetched[v], Len(fetched[v]), s) \/ Holds(d, i - 1, s)
        BY <2>4, <3>1, <3>2, <4>1 DEF LaneOrder, d
      <4> QED BY <2>8, <4>1, <4>2
    <3>3. CASE i \notin 1..Len(d)
      <4>1. takes(v) /\ i = Len(d) + 1 /\ s < h
        BY <1>4, <2>5, <2>6, <3>3, SMTT(30)
      <4>2. 1 \in 1..Len(queue) /\ v \in members
        BY <1>2, <4>1, SMTT(30)
      <4>3. Held(v, s) \/ Queued(1 - 1, s)
        BY <1>2, <2>4, <3>1, <4>1, <4>2 DEF QueueOrder
      <4>4. Held(v, s) /\ i - 1 = Len(d) /\ Len(d) \in 0..Len(d)
        BY <2>5, <4>1, <4>3, SMTT(30) DEF Queued
      <4> QED BY <2>8, <4>4 DEF Held, d
    <3> QED BY <3>2, <3>3
  <2>14. ASSUME v \in members', NEW s, Owed(v, s), NEW n \in 1..Len(queue), Queued(n, s)
         PROVE  Held(v, s)' \/ Queued(n - 1, s)'
    <3>1. PICK j \in 1..n : queue[j] = s
      BY <2>14 DEF Queued
    <3>2. CASE j = 1
      <4>1. v \in members \cap log[h]
        BY <1>2, <1>3, <2>14, <3>1, <3>2 DEF Owed
      <4>2. takes(v)
        BY <1>3, <2>14, <4>1
      <4> QED BY <1>2, <2>10, <3>1, <3>2, <4>2
    <3>3. CASE j # 1
      <4>1. j - 1 \in 1..n - 1 /\ j - 1 \in 1..Len(queue) - 1 /\ (j - 1) + 1 = j
        BY <1>2, <3>3, SMTT(30)
      <4>2. q[j - 1] = s
        BY <1>2, <3>1, <4>1
      <4> QED BY <1>3, <4>1, <4>2 DEF Queued
    <3> QED BY <3>2, <3>3
  <2>15. QueueOrder(v)'
    <3> SUFFICES ASSUME CaughtUp(v)', v \in members', NEW i \in 1..Len(q),
                        NEW s \in 1..Len(log), Owed(v, s), s < q[i]
                 PROVE  Held(v, s)' \/ Queued(i - 1, s)'
      BY <1>3, <2>3 DEF QueueOrder
    <3>1. i + 1 \in 1..Len(queue) /\ s < queue[i + 1] /\ i \in 1..Len(queue) /\ (i + 1) - 1 = i
      BY <1>2, SMTT(30)
    <3>2. Held(v, s) \/ Queued(i, s)
      <4>1. Held(v, s) \/ Queued((i + 1) - 1, s)
        BY <1>3, <2>4, <3>1 DEF QueueOrder, CaughtUp
      <4> QED BY <3>1, <4>1
    <3> QED BY <2>9, <2>14, <3>1, <3>2
  <2>16. OnItsWay(v)'
    <3> SUFFICES ASSUME CaughtUp(v)', v \in members', NEW s \in 1..Len(log), Owed(v, s)
                 PROVE  Held(v, s)' \/ (\E j \in 1..Len(q) : q[j] = s) \/ Pending(s)
      BY <1>3, <2>3 DEF OnItsWay, Queued, Pending
    <3>1. Held(v, s) \/ Queued(Len(queue), s) \/ Pending(s)
      BY <1>3, <2>4 DEF OnItsWay, CaughtUp
    <3>2. Len(queue) \in 1..Len(queue) /\ Len(queue) - 1 = Len(q)
      BY <1>2, SMTT(30)
    <3>3. Queued(Len(queue), s) => Held(v, s)' \/ \E j \in 1..Len(queue) - 1 : q[j] = s
      BY <1>3, <2>14, <3>2 DEF Queued
    <3> QED BY <2>9, <3>1, <3>2, <3>3
  <2> QED BY <2>2, <2>11, <2>12, <2>13, <2>15, <2>16 DEF Promise
<1> QED BY <1>6, <1>7, <1>8 DEF IInv, Typed
-----------------------------------------------------------------------------
(* A session that a step does not touch, while the hub stands still.       *)
Idle(v) ==
    /\ phase'[v] = phase[v] /\ ob'[v] = ob[v] /\ lastSeq'[v] = lastSeq[v]
    /\ fetched'[v] = fetched[v] /\ wire'[v] = wire[v] /\ got'[v] = got[v] /\ cut'[v] = cut[v]
    /\ v \in members' => v \in members
    /\ UNCHANGED <<log, pending, queue, overtaken, lost>>

LEMMA IdleKept == ASSUME IInv, NEW v \in User, Idle(v) PROVE Promise(v)'
<1>1. SameHub(v) /\ Excuses(v) /\ SameGot(v) /\ SameWire(v) /\ SameLines(v)
  BY DEF Idle, SameHub, Excused, Excuses, SameGot, SameWire, SameStart, SameLines
<1> QED BY <1>1, OthersKept DEF IInv

(* A session that has not caught up owes nothing yet.                      *)
LEMMA NotCaughtUp ==
  ASSUME NEW u \in User, ~CaughtUp(u)', Got(u)', Chain(u)', Lines(u)'
  PROVE  Promise(u)'
BY DEF Promise, ReplayOrder, LaneOrder, QueueOrder, OnItsWay

(* Registry.Hub: the session begins with a new outbox.                     *)
LEMMA HubStep == ASSUME IInv, NEW u \in User, Hub(u) PROVE IInv'
<1>1. /\ phase[u] = "off" /\ phase' = [phase EXCEPT ![u] = "hub"]
      /\ ob' = [ob EXCEPT ![u] = NewOutbox]
      /\ UNCHANGED <<hubVars, members, lastSeq, fetched, wire, got, cut>>
  BY DEF Hub
<1>2. /\ Typed /\ phase \in [User -> Phase] /\ ob \in [User -> Box] /\ u \notin members
      /\ Got(u) /\ Chain(u) /\ Lines(u)
  BY <1>1 DEF IInv, Typed, ServedTyped, Promise
<1>3. LogTyped'
  BY <1>1, <1>2 DEF hubVars, Typed, LogTyped
<1>4. /\ phase' \in [User -> Phase] /\ ob' \in [User -> Box] /\ phase'[u] = "hub"
      /\ ob'[u].document = <<>> /\ \A v \in User \ {u} : phase'[v] = phase[v] /\ ob'[v] = ob[v]
  BY <1>1, <1>2, NewBox DEF Phase
<1>5. ServedTyped'
  <2>1. members' \subseteq {v \in User : phase'[v] \notin {"off", "hub"}} \ former'
    BY <1>1, <1>2, <1>4 DEF hubVars, Typed, ServedTyped
  <2> QED BY <1>1, <1>2, <1>4, <2>1 DEF hubVars, Typed, ServedTyped
<1>6. ASSUME NEW v \in User, v # u PROVE Promise(v)'
  <2>1. Idle(v)
    BY <1>1, <1>4, <1>6 DEF hubVars, Idle
  <2> QED BY <2>1, IdleKept
<1>7. Promise(u)'
  <2>1. Grows /\ Excuses(u) /\ SameGot(u)
    BY <1>1, <1>2, LogKept DEF hubVars, Excuses, Excused, SameGot
  <2>2. Got(u)' /\ Seen(u)' = Seen(u) /\ Received(u)' = Received(u)
    BY <1>2, <2>1, GotKept
  <2>3. wire'[u] = <<>> /\ lastSeq'[u] = 0 /\ fetched'[u] = <<>>
    BY <1>1, <1>2 DEF Chain, Lines
  <2>4. Chain(u)' /\ Lines(u)'
    BY <1>4, <2>3, SMTT(30) DEF Chain, Lines, For
  <2> QED BY <1>4, <2>2, <2>4, NotCaughtUp DEF CaughtUp
<1> QED BY <1>3, <1>5, <1>6, <1>7 DEF IInv, Typed

(* Join: the hub knows the session from here on, if it is not closed.      *)
LEMMA JoinStep == ASSUME IInv, NEW u \in User, Join(u) PROVE IInv'
<1>1. /\ phase[u] = "hub" /\ phase' = [phase EXCEPT ![u] = "joined"]
      /\ members' = members \cup ({u} \ former)
      /\ UNCHANGED <<hubVars, ob, lastSeq, fetched, wire, got, cut>>
  BY DEF Join
<1>2. /\ Typed /\ phase \in [User -> Phase] /\ Got(u) /\ Chain(u) /\ Lines(u)
  BY DEF IInv, Typed, ServedTyped, Promise
<1>3. LogTyped'
  BY <1>1, <1>2 DEF hubVars, Typed, LogTyped
<1>4. /\ phase' \in [User -> Phase] /\ phase'[u] = "joined"
      /\ \A v \in User \ {u} : phase'[v] = phase[v]
  BY <1>1, <1>2 DEF Phase
<1>5. ServedTyped'
  <2>1. members' \subseteq {v \in User : phase'[v] \notin {"off", "hub"}} \ former'
    BY <1>1, <1>2, <1>4 DEF hubVars, Typed, ServedTyped
  <2> QED BY <1>1, <1>2, <1>4, <2>1 DEF hubVars, Typed, ServedTyped
<1>6. ASSUME NEW v \in User, v # u PROVE Promise(v)'
  <2>1. Idle(v)
    BY <1>1, <1>4, <1>6 DEF hubVars, Idle
  <2> QED BY <2>1, IdleKept
<1>7. Promise(u)'
  <2>1. Grows /\ Excuses(u) /\ SameGot(u)
    BY <1>1, <1>2, LogKept DEF hubVars, Excuses, Excused, SameGot
  <2>2. Got(u)' /\ Seen(u)' = Seen(u) /\ Received(u)' = Received(u)
    BY <1>2, <2>1, GotKept
  <2>3. wire'[u] = <<>> /\ lastSeq'[u] = 0
    BY <1>1, <1>2 DEF Chain
  <2>4. Chain(u)'
    BY <1>4, <2>3, SMTT(30) DEF Chain
  <2>5. Lines(u)'
    BY <1>1, <1>2, <1>4 DEF hubVars, Lines, For
  <2> QED BY <1>4, <2>2, <2>4, <2>5, NotCaughtUp DEF CaughtUp
<1> QED BY <1>3, <1>5, <1>6, <1>7 DEF IInv, Typed

(* welcome: the feed goes on after what the client has seen.               *)
LEMMA WelcomeStep == ASSUME IInv, NEW u \in User, Welcome(u) PROVE IInv'
<1>1. /\ Typed /\ phase \in [User -> Phase] /\ lastSeq \in [User -> Nat] /\ Got(u) /\ Chain(u)
      /\ Lines(u)
  BY DEF IInv, Typed, ServedTyped, Promise
<1>2. Seen(u) \in Nat /\ Seen(u) <= Len(log) /\ Len(log) \in Nat
  BY <1>1, SeenIsLast, SMTT(30)
<1>3. /\ phase[u] = "joined" /\ phase' = [phase EXCEPT ![u] = "welcomed"]
      /\ lastSeq' = [lastSeq EXCEPT ![u] = Seen(u)]
      /\ UNCHANGED <<hubVars, members, ob, fetched, wire, got, cut>>
  <2>1. ~(Seen(u) > Len(log))
    BY <1>2, SMTT(30)
  <2>2. (IF Seen(u) > Len(log) THEN 0 ELSE Seen(u)) = Seen(u)
    BY <2>1
  <2> QED BY <2>2 DEF Welcome
<1>4. LogTyped'
  BY <1>1, <1>3 DEF hubVars, Typed, LogTyped
<1>5. /\ phase' \in [User -> Phase] /\ phase'[u] = "welcomed"
      /\ lastSeq' \in [User -> Nat] /\ lastSeq'[u] = Seen(u)
      /\ \A v \in User \ {u} : phase'[v] = phase[v] /\ lastSeq'[v] = lastSeq[v]
  BY <1>1, <1>2, <1>3 DEF Phase
<1>6. ServedTyped'
  <2>1. members' \subseteq {v \in User : phase'[v] \notin {"off", "hub"}} \ former'
    BY <1>1, <1>3, <1>5 DEF hubVars, Typed, ServedTyped
  <2>2. \A v \in User : lastSeq'[v] <= Len(log')
    BY <1>1, <1>2, <1>3, <1>5 DEF hubVars, Typed, ServedTyped
  <2> QED BY <1>1, <1>3, <1>5, <2>1, <2>2 DEF hubVars, Typed, ServedTyped
<1>7. ASSUME NEW v \in User, v # u PROVE Promise(v)'
  <2>1. Idle(v)
    BY <1>3, <1>5, <1>7 DEF hubVars, Idle
  <2> QED BY <2>1, IdleKept
<1>8. Promise(u)'
  <2>1. Grows /\ Excuses(u) /\ SameGot(u) /\ Excused(u)' = Excused(u) /\ log' = log
    BY <1>1, <1>3, LogKept DEF hubVars, Excuses, Excused, SameGot
  <2>2. Got(u)' /\ Seen(u)' = Seen(u) /\ Received(u)' = Received(u)
    BY <1>1, <2>1, GotKept
  <2>3. wire'[u] = <<>>
    BY <1>1, <1>3 DEF Chain
  <2>4. Chain(u)'
    <3>1. \A s \in 1..Seen(u) : u \in log[s] => s \in Received(u) \cup Excused(u)
      BY <1>1 DEF Got
    <3> QED BY <1>2, <1>5, <2>1, <2>2, <2>3, <3>1, SMTT(30) DEF Chain
  <2>5. Lines(u)'
    BY <1>1, <1>3, <1>5 DEF hubVars, Lines, For
  <2> QED BY <1>5, <2>2, <2>4, <2>5, NotCaughtUp DEF CaughtUp
<1> QED BY <1>4, <1>6, <1>7, <1>8 DEF IInv, Typed

(* Serve returns: the next connection begins after what was received.      *)
LEMMA EndStep == ASSUME IInv, NEW u \in User, End(u) PROVE IInv'
<1>1. /\ phase' = [phase EXCEPT ![u] = "off"] /\ members' = members \ {u}
      /\ ob' = [ob EXCEPT ![u] = NewOutbox] /\ lastSeq' = [lastSeq EXCEPT ![u] = 0]
      /\ fetched' = [fetched EXCEPT ![u] = <<>>] /\ wire' = [wire EXCEPT ![u] = <<>>]
      /\ former' = former \ {u}
      /\ UNCHANGED <<log, pending, queue, closing, overtaken, lost, got, cut>>
  BY DEF End
<1>2. /\ Typed /\ phase \in [User -> Phase] /\ ob \in [User -> Box] /\ lastSeq \in [User -> Nat]
      /\ fetched \in [User -> Seq(Frame)] /\ wire \in [User -> Seq(Frame)] /\ Got(u)
      /\ Len(log) \in Nat
  BY SMTT(30) DEF IInv, Typed, LogTyped, ServedTyped, Promise
<1>3. LogTyped'
  BY <1>1, <1>2 DEF Typed, LogTyped
<1>4. /\ phase' \in [User -> Phase] /\ ob' \in [User -> Box] /\ lastSeq' \in [User -> Nat]
      /\ phase'[u] = "off" /\ ob'[u] = NewOutbox /\ lastSeq'[u] = 0
      /\ \A v \in User \ {u} : phase'[v] = phase[v] /\ ob'[v] = ob[v] /\ lastSeq'[v] = lastSeq[v]
  BY <1>1, <1>2, NewBox DEF Phase
<1>5. /\ fetched' \in [User -> Seq(Frame)] /\ wire' \in [User -> Seq(Frame)]
      /\ fetched'[u] = <<>> /\ wire'[u] = <<>>
      /\ \A v \in User \ {u} : fetched'[v] = fetched[v] /\ wire'[v] = wire[v]
  BY <1>1, <1>2, SMTT(30)
<1>6. ServedTyped'
  <2>1. /\ members' \subseteq {v \in User : phase'[v] \notin {"off", "hub"}} \ former'
        /\ former' \subseteq User \cup Author /\ (former' # {} => closing')
    BY <1>1, <1>2, <1>4 DEF Typed, ServedTyped
  <2>2. \A v \in User : lastSeq'[v] <= Len(log')
    BY <1>1, <1>2, <1>4, SMTT(30) DEF Typed, ServedTyped
  <2> QED BY <1>1, <1>2, <1>4, <1>5, <2>1, <2>2 DEF Typed, ServedTyped
<1>7. ASSUME NEW v \in User, v # u PROVE Promise(v)'
  <2>1. Idle(v)
    BY <1>1, <1>4, <1>5, <1>7 DEF Idle
  <2> QED BY <2>1, IdleKept
<1>8. Promise(u)'
  <2>1. Grows /\ Excuses(u) /\ SameGot(u)
    BY <1>1, <1>2, LogKept DEF Excuses, Excused, SameGot
  <2>2. Got(u)'
    BY <1>2, <2>1, GotKept
  <2>3. Chain(u)' /\ Lines(u)'
    BY <1>4, <1>5, NewBox, SMTT(30) DEF Chain, Lines, For
  <2> QED BY <1>4, <2>2, <2>3, NotCaughtUp DEF CaughtUp
<1> QED BY <1>3, <1>6, <1>7, <1>8 DEF IInv, Typed

(* The process is gone: of the sessions, only what clients have is left.   *)
LEMMA CrashStep == ASSUME IInv, Crash PROVE IInv'
<1>1. /\ closing' = FALSE /\ former' = {} /\ pending' = [a \in Author |-> <<>>]
      /\ queue' = <<>> /\ members' = {} /\ phase' = [u \in User |-> "off"]
      /\ ob' = [u \in User |-> NewOutbox] /\ lastSeq' = [u \in User |-> 0]
      /\ fetched' = [u \in User |-> <<>>] /\ wire' = [u \in User |-> <<>>]
      /\ UNCHANGED <<log, got, overtaken, cut, lost>>
  BY DEF Crash
<1>2. Typed /\ Len(log) \in Nat
  BY SMTT(30) DEF IInv, Typed, LogTyped
<1>3. LogTyped'
  <2>1. /\ pending' \in [Author -> Seq(Nat)]
        /\ \A a \in Author : \A i \in 1..Len(pending'[a]) : pending'[a][i] \in 1..Len(log')
    BY <1>1, SMTT(30)
  <2>2. /\ queue' \in Seq(Nat) /\ Len(queue') <= PublishCap
        /\ \A i \in 1..Len(queue') : queue'[i] \in 1..Len(log')
    BY <1>1, GatewayAssumption, SMTT(30)
  <2> QED BY <1>1, <1>2, <2>1, <2>2 DEF Typed, LogTyped
<1>4. ServedTyped'
  <2>1. phase' \in [User -> Phase] /\ ob' \in [User -> Box] /\ lastSeq' \in [User -> Nat]
    BY <1>1, NewBox DEF Phase
  <2>2. \A u \in User : lastSeq'[u] <= Len(log')
    BY <1>1, <1>2, SMTT(30)
  <2>3. fetched' \in [User -> Seq(Frame)] /\ wire' \in [User -> Seq(Frame)]
    BY <1>1, SMTT(30)
  <2>4. closing' \in BOOLEAN /\ got' \in [User -> Seq(Nat)]
    BY <1>1, <1>2 DEF Typed, ServedTyped
  <2> QED BY <1>1, <2>1, <2>2, <2>3, <2>4 DEF ServedTyped
<1>5. ASSUME NEW u \in User PROVE Promise(u)'
  <2>1. Grows /\ Excuses(u) /\ SameGot(u)
    BY <1>1, <1>2, LogKept DEF Excuses, Excused, SameGot
  <2>2. Got(u)'
    BY <1>2, <2>1, GotKept DEF IInv, Promise
  <2>3. Chain(u)' /\ Lines(u)' /\ ~CaughtUp(u)'
    BY <1>1, NewBox, SMTT(30) DEF Chain, Lines, For, CaughtUp
  <2> QED BY <2>2, <2>3, NotCaughtUp
<1> QED BY <1>3, <1>4, <1>5 DEF IInv, Typed

(* Registry.Close: control frames only, and no members.                    *)
LEMMA ShutdownStep == ASSUME IInv, Shutdown PROVE IInv'
<1>1. /\ closing' = TRUE
      /\ former' = {u \in User : phase[u] # "off"} \cup {a \in Author : pending[a] # <<>>}
      /\ ob' = [u \in User |->
            IF u \in members THEN Close(PushControl(ob[u], Resync(0))) ELSE ob[u]]
      /\ queue' = <<>> /\ members' = {}
      /\ UNCHANGED <<log, pending, phase, lastSeq, fetched, wire, got, overtaken, cut, lost>>
  BY DEF Shutdown
<1>2. Typed
  BY DEF IInv
<1>3. ASSUME NEW u \in User PROVE ob'[u] \in Box /\ ob'[u].document = ob[u].document
  <2> DEFINE o == PushControl(ob[u], Resync(0))
  <2>1. ob[u] \in Box
    BY <1>2 DEF Typed, ServedTyped
  <2>2. o \in Box /\ o.document = ob[u].document
    BY <2>1, ControlBox
  <2>3. ob'[u] = IF u \in members THEN Close(o) ELSE ob[u]
    BY <1>1
  <2> HIDE DEF o
  <2>4. Close(o) \in Box /\ Close(o).document = o.document
    BY <2>2, ControlBox
  <2> QED BY <2>1, <2>2, <2>3, <2>4
<1>4. LogTyped'
  <2>1. queue' \in Seq(Nat) /\ Len(queue') <= PublishCap
        /\ \A i \in 1..Len(queue') : queue'[i] \in 1..Len(log')
    BY <1>1, GatewayAssumption, SMTT(30)
  <2> QED BY <1>1, <1>2, <2>1 DEF Typed, LogTyped
<1>5. ServedTyped'
  <2>1. ob' \in [User -> Box]
    <3>1. DOMAIN ob' = User
      BY <1>1
    <3> QED BY <1>1, <1>3, <3>1
  <2>2. former' \subseteq User \cup Author /\ closing' \in BOOLEAN
    BY <1>1
  <2> QED BY <1>1, <1>2, <2>1, <2>2 DEF Typed, ServedTyped
<1>6. ASSUME NEW u \in User PROVE Promise(u)'
  <2>1. Grows /\ Excuses(u) /\ SameGot(u) /\ SameWire(u) /\ SameLines(u)
    BY <1>1, <1>2, <1>3, LogKept DEF Excuses, Excused, SameGot, SameWire, SameStart, SameLines
  <2>2. Got(u)' /\ Chain(u)' /\ Lines(u)' /\ ReplayOrder(u)' /\ LaneOrder(u)'
    BY <1>2, <2>1, GotKept, ChainKept, LinesKept, OrderKept DEF IInv, Promise, SameWire
  <2>3. QueueOrder(u)' /\ OnItsWay(u)'
    BY <1>1 DEF QueueOrder, OnItsWay
  <2> QED BY <2>2, <2>3 DEF Promise
<1> QED BY <1>4, <1>5, <1>6 DEF IInv, Typed
-----------------------------------------------------------------------------
(* replayFrames: what the session owes is in the replay, in order, or cut. *)
LEMMA FetchStep == ASSUME IInv, NEW u \in User, Fetch(u) PROVE IInv'
<1> DEFINE from == lastSeq[u]
           last == IF Len(log) - from > CatchUpLimit THEN from + CatchUpLimit ELSE Len(log)
           S == {s \in from + 1..last : u \in log[s]}
<1>1. /\ Typed /\ phase \in [User -> Phase] /\ fetched \in [User -> Seq(Frame)]
      /\ cut \in [User -> SUBSET (1..Len(log))] /\ Len(log) \in Nat
      /\ from \in Nat /\ from <= Len(log) /\ CatchUpLimit \in Nat
      /\ Got(u) /\ Chain(u) /\ Lines(u)
  BY GatewayAssumption, SMTT(30) DEF IInv, Typed, LogTyped, ServedTyped, Promise
<1>2. last \in Nat /\ last <= Len(log)
  BY <1>1, SMTT(30)
<1>3. PICK rows \in InOrder(S) :
         fetched' = [fetched EXCEPT ![u] = [i \in DOMAIN rows |-> Event(rows[i])]]
  BY DEF Fetch
<1>4. /\ phase[u] = "welcomed" /\ phase' = [phase EXCEPT ![u] = "fetched"]
      /\ cut' = [cut EXCEPT ![u] = @ \cup (last + 1..Len(log))]
      /\ UNCHANGED <<hubVars, members, ob, lastSeq, wire, got>>
  BY DEF Fetch
<1> HIDE DEF last
<1>5. PICK n \in 0..CatchUpLimit : rows \in [1..n -> S]
  BY DEF InOrder
<1>6. /\ n \in Nat /\ \A i, j \in 1..n : i < j => rows[i] < rows[j]
      /\ \A s \in S : \E i \in 1..n : rows[i] = s
  BY <1>1, <1>5, SMTT(30) DEF InOrder
<1>7. \A s \in S : s \in Nat /\ s \in 1..Len(log) /\ u \in log[s] /\ s > from
  BY <1>1, <1>2, SMTT(30)
<1>8. ASSUME NEW s \in 1..Len(log), s > from, s <= last, u \in log[s] PROVE s \in S
  BY <1>1, <1>2, <1>8, SMTT(30)
<1> DEFINE f == [i \in 1..n |-> Event(rows[i])]
<1> HIDE DEF S
<1>9. /\ f \in Seq(Frame) /\ Len(f) = n
      /\ \A i \in 1..n : IsEvent(f[i]) /\ f[i].n = rows[i] /\ rows[i] \in S
  <2>1. \A i \in 1..n : rows[i] \in S /\ Event(rows[i]) \in Frame
    BY <1>5, <1>7 DEF Event, Frame, FrameType
  <2>2. f \in [1..n -> Frame]
    BY <2>1
  <2>3. f \in Seq(Frame) /\ Len(f) = n
    BY <1>6, <2>2, SMTT(30)
  <2> QED BY <2>1, <2>3 DEF Event, IsEvent
<1>10. fetched' = [fetched EXCEPT ![u] = f]
  BY <1>3, <1>5
<1> HIDE DEF f
<1>11. /\ phase' \in [User -> Phase] /\ phase'[u] = "fetched"
       /\ fetched' \in [User -> Seq(Frame)] /\ fetched'[u] = f
       /\ cut'[u] = cut[u] \cup (last + 1..Len(log))
       /\ \A v \in User \ {u} : phase'[v] = phase[v] /\ fetched'[v] = fetched[v] /\ cut'[v] = cut[v]
  BY <1>1, <1>4, <1>9, <1>10 DEF Phase
<1>12. LogTyped'
  <2>1. last + 1..Len(log) \subseteq 1..Len(log)
    BY <1>1, <1>2, SMTT(30)
  <2>2. cut' \in [User -> SUBSET (1..Len(log))]
    BY <1>1, <1>4, <2>1
  <2> QED BY <1>1, <1>4, <2>2 DEF hubVars, Typed, LogTyped
<1>13. ServedTyped'
  <2>1. members' \subseteq {v \in User : phase'[v] \notin {"off", "hub"}} \ former'
    BY <1>1, <1>4, <1>11 DEF hubVars, Typed, ServedTyped
  <2> QED BY <1>1, <1>4, <1>11, <2>1 DEF hubVars, Typed, ServedTyped
<1>14. ASSUME NEW v \in User, v # u PROVE Promise(v)'
  <2>1. Idle(v)
    BY <1>4, <1>11, <1>14 DEF hubVars, Idle
  <2> QED BY <2>1, IdleKept
<1>15. Promise(u)'
  <2>1. Grows /\ Excuses(u) /\ SameGot(u) /\ log' = log
    BY <1>1, <1>4, <1>11, LogKept DEF hubVars, Excuses, Excused, SameGot
  <2>2. Got(u)' /\ Seen(u)' = Seen(u) /\ Received(u)' = Received(u)
    BY <1>1, <2>1, GotKept
  <2>3. Chain(u)'
    <3>1. \A s : OnWire(u, s)' <=> OnWire(u, s)
      BY <1>4 DEF OnWire
    <3>2. \A s \in 1..lastSeq[u] :
             u \in log[s] => s \in Received(u) \cup Excused(u)' \/ OnWire(u, s)
      BY <1>1, <2>1 DEF Chain, Excuses
    <3> QED BY <1>1, <1>4, <1>11, <2>1, <2>2, <3>1, <3>2 DEF Chain
  <2>4. Lines(u)'
    <3>1. For(u, ob[u].document)'
      BY <1>1, <1>4, <2>1 DEF Lines, For
    <3>2. For(u, fetched[u])'
      BY <1>7, <1>9, <1>11, <2>1 DEF For
    <3> QED BY <1>11, <3>1, <3>2 DEF Lines
  <2>5. ASSUME NEW s \in 1..Len(log), Owed(u, s)' PROVE s \in S
    <3>1. s > from /\ u \in log[s] /\ s \notin last + 1..Len(log)
      BY <1>4, <1>11, <2>1, <2>5 DEF Owed, Excused
    <3> QED BY <1>1, <1>2, <1>8, <3>1, SMTT(30)
  <2>6. ASSUME NEW s \in S PROVE \E i \in 1..n : f[i].n = s
    BY <1>6, <1>9, <2>6
  <2>7. \A s \in 1..Len(log) : Owed(u, s)' => Holds(fetched[u], Len(fetched[u]), s)'
    BY <1>9, <1>11, <2>5, <2>6 DEF Holds
  <2>8. ReplayOrder(u)'
    <3> SUFFICES ASSUME NEW i \in 1..n, NEW s \in 1..Len(log), Owed(u, s)', s < f[i].n
                 PROVE  \E j \in 1..i - 1 : f[j].n = s
      <4>1. fetched'[u] = f /\ Len(f) = n /\ log' = log
        BY <1>9, <1>11, <2>1
      <4> QED BY <4>1 DEF ReplayOrder, Holds
    <3>1. PICK j \in 1..n : f[j].n = s
      BY <2>5, <2>6
    <3>2. rows[j] = s /\ rows[j] < rows[i] /\ rows[j] \in Nat /\ rows[i] \in Nat
      BY <1>7, <1>9, <3>1
    <3>3. ~(i < j) /\ i # j
      <4>1. i < j => rows[i] < rows[j]
        BY <1>6
      <4> QED BY <3>2, <4>1, SMTT(30)
    <3>4. j \in 1..i - 1
      BY <1>6, <3>3, SMTT(30)
    <3> QED BY <3>1, <3>4
  <2>9. LaneOrder(u)'
    BY <2>1, <2>7 DEF LaneOrder
  <2>10. QueueOrder(u)' /\ OnItsWay(u)'
    BY <2>1, <2>7 DEF QueueOrder, OnItsWay, Held
  <2> QED BY <2>2, <2>3, <2>4, <2>8, <2>9, <2>10 DEF Promise
<1> QED BY <1>12, <1>13, <1>14, <1>15 DEF IInv, Typed

(* PrependDocument: the replay, and behind it what fanOut has pushed.      *)
LEMMA PrependStep == ASSUME IInv, NEW u \in User, Prepend(u) PROVE IInv'
<1> DEFINE f == fetched[u]
           d == ob[u].document
           e == ob'[u].document
<1>1. /\ phase[u] = "fetched" /\ ~PrependRefused(ob[u], f)
      /\ ob' = [ob EXCEPT ![u] = PrependDocument(@, f)]
      /\ fetched' = [fetched EXCEPT ![u] = <<>>]
      /\ phase' = [phase EXCEPT ![u] = "running"]
      /\ UNCHANGED <<hubVars, members, lastSeq, wire, got, cut>>
  BY DEF Prepend
<1>2. /\ Typed /\ phase \in [User -> Phase] /\ fetched \in [User -> Seq(Frame)]
      /\ ob \in [User -> Box] /\ Promise(u)
  BY DEF IInv, Typed, ServedTyped
<1>3. PrependDocument(ob[u], f) \in Box /\ PrependDocument(ob[u], f).document = f \o d
  BY <1>1, <1>2, ReplayBox
<1>4. /\ phase' \in [User -> Phase] /\ phase'[u] = "running"
      /\ fetched' \in [User -> Seq(Frame)] /\ fetched'[u] = <<>>
      /\ ob' \in [User -> Box] /\ e = f \o d
      /\ \A v \in User \ {u} : phase'[v] = phase[v] /\ fetched'[v] = fetched[v] /\ ob'[v] = ob[v]
  <2>1. /\ phase' \in [User -> Phase] /\ phase'[u] = "running"
        /\ fetched' \in [User -> Seq(Frame)] /\ fetched'[u] = <<>>
        /\ \A v \in User \ {u} : phase'[v] = phase[v] /\ fetched'[v] = fetched[v]
    BY <1>1, <1>2, SMTT(30) DEF Phase
  <2>2. ob' \in [User -> Box] /\ e = f \o d /\ \A v \in User \ {u} : ob'[v] = ob[v]
    BY <1>1, <1>2, <1>3
  <2> QED BY <2>1, <2>2
<1>5. LogTyped'
  BY <1>1, <1>2 DEF hubVars, Typed, LogTyped
<1>6. ServedTyped'
  <2>1. members' \subseteq {v \in User : phase'[v] \notin {"off", "hub"}} \ former'
    BY <1>1, <1>2, <1>4 DEF hubVars, Typed, ServedTyped
  <2> QED BY <1>1, <1>2, <1>4, <2>1 DEF hubVars, Typed, ServedTyped
<1>7. ASSUME NEW v \in User, v # u PROVE Promise(v)'
  <2>1. Idle(v)
    BY <1>1, <1>4, <1>7 DEF hubVars, Idle
  <2> QED BY <2>1, IdleKept
<1>8. Promise(u)'
  <2>1. /\ Grows /\ Excuses(u) /\ SameGot(u) /\ log' = log /\ Excused(u)' = Excused(u)
        /\ lastSeq' = lastSeq /\ queue' = queue /\ pending' = pending /\ members' = members
    BY <1>1, <1>2, LogKept DEF hubVars, Excuses, Excused, SameGot
  <2>2. Got(u)' /\ Seen(u)' = Seen(u) /\ Received(u)' = Received(u)
    BY <1>2, <2>1, GotKept DEF Promise
  <2>3. Chain(u)'
    BY <1>1, <1>2, <1>4, <2>1, <2>2 DEF Promise, Chain, OnWire
  <2>4. f \in Seq(Frame) /\ d \in Seq(Frame)
    BY <1>2 DEF Box
  <2>5. /\ Len(f) \in Nat /\ Len(d) \in Nat /\ Len(e) = Len(f) + Len(d)
        /\ \A i \in 1..Len(f) : e[i] = f[i]
        /\ \A i \in 1..Len(d) : e[Len(f) + i] = d[i]
    <3>1. e = f \o d
      BY <1>4
    <3> HIDE DEF e, f, d
    <3> QED BY <2>4, <3>1, ConcatFacts, SMTT(30)
  <2>6. For(u, f) /\ For(u, d) /\ ReplayOrder(u) /\ LaneOrder(u) /\ QueueOrder(u) /\ OnItsWay(u)
    BY <1>2 DEF Promise, Lines
  <2> HIDE DEF f, d, e
  <2>7. ASSUME NEW i \in 1..Len(e)
        PROVE  i \in 1..Len(f) \/ (i - Len(f) \in 1..Len(d) /\ e[i] = d[i - Len(f)])
    BY <2>5, SMTT(30)
  <2>8. ASSUME NEW i \in 1..Len(e)
        PROVE  IsEvent(e[i]) /\ e[i].n \in 1..Len(log) /\ u \in log[e[i].n]
    BY <2>5, <2>6, <2>7 DEF For
  <2>9. Lines(u)'
    BY <1>4, <2>1, <2>8, SMTT(30) DEF Lines, For, e
  <2>10. ReplayOrder(u)'
    BY <1>4, SMTT(30) DEF ReplayOrder
  <2>11. \A s : Owed(u, s)' <=> Owed(u, s)
    BY <2>1 DEF Owed
  <2>12. ASSUME NEW s, NEW n \in 0..Len(f), Holds(f, n, s), NEW m \in Nat, n <= m
         PROVE  Holds(e, m, s)
    <3>1. PICK j \in 1..n : f[j].n = s
      BY <2>12 DEF Holds
    <3>2. j \in 1..m /\ e[j] = f[j]
      BY <2>5, <2>12, SMTT(30)
    <3> QED BY <3>1, <3>2 DEF Holds
  <2>13. ASSUME NEW s, NEW n \in 0..Len(d), Holds(d, n, s)
         PROVE  Holds(e, Len(f) + n, s)
    <3>1. PICK j \in 1..n : d[j].n = s
      BY <2>13 DEF Holds
    <3>2. j \in 1..Len(d) /\ Len(f) + j \in 1..Len(f) + n
      BY <2>5, SMTT(30)
    <3>3. e[Len(f) + j] = d[j]
      BY <2>5, <3>2
    <3> QED BY <3>1, <3>2, <3>3 DEF Holds
  <2>14. LaneOrder(u)'
    <3> SUFFICES ASSUME NEW i \in 1..Len(e), NEW s \in 1..Len(log), Owed(u, s), s < e[i].n
                 PROVE  Holds(e, i - 1, s)
      BY <2>1, <2>11 DEF LaneOrder, Holds, e
    <3>1. CaughtUp(u)
      BY <1>1 DEF CaughtUp
    <3>2. CASE i \in 1..Len(f)
      <4>1. Holds(f, i - 1, s)
        BY <2>5, <2>6, <3>1, <3>2 DEF ReplayOrder, f
      <4>2. i - 1 \in 0..Len(f) /\ i - 1 \in Nat /\ i - 1 <= i - 1
        BY <2>5, <3>2, SMTT(30)
      <4> QED BY <2>12, <4>1, <4>2
    <3>3. CASE i \notin 1..Len(f)
      <4>1. i - Len(f) \in 1..Len(d) /\ e[i] = d[i - Len(f)]
        BY <2>7, <3>3
      <4>2. Holds(f, Len(f), s) \/ Holds(d, (i - Len(f)) - 1, s)
        BY <2>6, <3>1, <4>1 DEF LaneOrder, f, d
      <4>3. /\ Len(f) \in 0..Len(f) /\ i - 1 \in Nat /\ Len(f) <= i - 1
            /\ (i - Len(f)) - 1 \in 0..Len(d) /\ Len(f) + ((i - Len(f)) - 1) = i - 1
        BY <2>5, <4>1, SMTT(30)
      <4>4. Holds(d, (i - Len(f)) - 1, s) => Holds(e, Len(f) + ((i - Len(f)) - 1), s)
        BY <2>13, <4>3
      <4> QED BY <2>12, <4>2, <4>3, <4>4
    <3> QED BY <3>2, <3>3
  <2>15. \A s : Held(u, s) => Held(u, s)'
    <3>1. ASSUME NEW s, Held(u, s) PROVE Holds(e, Len(e), s)
      <4>1. Holds(f, Len(f), s) \/ Holds(d, Len(d), s)
        BY <3>1 DEF Held, f, d
      <4>2. /\ Len(f) \in 0..Len(f) /\ Len(e) \in Nat /\ Len(f) <= Len(e)
            /\ Len(d) \in 0..Len(d) /\ Len(f) + Len(d) = Len(e)
        BY <2>5, SMTT(30)
      <4> QED BY <2>12, <2>13, <4>1, <4>2
    <3> QED BY <3>1 DEF Held, Holds, e
  <2>16. QueueOrder(u)' /\ OnItsWay(u)'
    <3>1. CaughtUp(u)
      BY <1>1 DEF CaughtUp
    <3>2. QueueOrder(u)'
      BY <2>1, <2>6, <2>11, <2>15, <3>1 DEF QueueOrder, Queued
    <3>3. OnItsWay(u)'
      BY <2>1, <2>6, <2>11, <2>15, <3>1 DEF OnItsWay, Queued, Pending
    <3> QED BY <3>2, <3>3
  <2> QED BY <2>2, <2>3, <2>9, <2>10, <2>14, <2>16 DEF Promise
<1> QED BY <1>5, <1>6, <1>7, <1>8 DEF IInv, Typed
-----------------------------------------------------------------------------
(* The writer takes the first event of the lane, which from then on is not *)
(* owed: it has been sent before, or is sent now.                          *)
LEMMA PopKept ==
  ASSUME IInv, NEW u \in User, phase[u] = "running", ob[u].document # <<>>,
         ob'[u].document = Tail(ob[u].document), phase'[u] = phase[u], fetched'[u] = fetched[u],
         UNCHANGED <<log, pending, queue, members, overtaken, lost>>, cut'[u] = cut[u],
         lastSeq'[u] \in Nat, lastSeq'[u] >= lastSeq[u], lastSeq'[u] >= ob[u].document[1].n
  PROVE  Lines(u)' /\ ReplayOrder(u)' /\ LaneOrder(u)' /\ QueueOrder(u)' /\ OnItsWay(u)'
<1> DEFINE d == ob[u].document
           e == ob'[u].document
<1>1. /\ Typed /\ d \in Seq(Frame) /\ Lines(u) /\ LaneOrder(u) /\ QueueOrder(u) /\ OnItsWay(u)
      /\ lastSeq[u] \in Nat /\ fetched[u] = <<>>
  BY DEF IInv, Typed, ServedTyped, Box, Promise, Lines
<1>2. /\ Len(d) \in Nat \ {0} /\ Len(e) = Len(d) - 1
      /\ \A i \in 1..Len(d) - 1 : e[i] = d[i + 1]
  BY <1>1, TailFacts
<1>3. For(u, d) /\ d[1].n <= lastSeq'[u] /\ CaughtUp(u) /\ CaughtUp(u)'
  BY <1>1 DEF Lines, CaughtUp
<1>4. d[1].n \in Nat
  <2>1. 1 \in 1..Len(d)
    BY <1>2, SMTT(30)
  <2> QED BY <1>1, <2>1, FrameNumbers
<1>5. Excused(u)' = Excused(u)
  BY DEF Excused
<1> HIDE DEF d, e
<1>6. ASSUME NEW s \in 1..Len(log), Owed(u, s)' PROVE Owed(u, s) /\ s # d[1].n
  BY <1>1, <1>3, <1>4, <1>5, <1>6, SMTT(30) DEF Owed
<1>7. ASSUME NEW n \in 1..Len(d), NEW s, s # d[1].n, Holds(d, n, s)
      PROVE  Holds(e, n - 1, s)
  <2>1. PICK j \in 1..n : d[j].n = s
    BY <1>7 DEF Holds
  <2>2. j - 1 \in 1..n - 1 /\ j - 1 \in 1..Len(d) - 1 /\ (j - 1) + 1 = j
    BY <1>2, <1>7, <2>1, SMTT(30)
  <2> QED BY <1>2, <2>1, <2>2 DEF Holds
<1>8. Lines(u)'
  <2>1. ASSUME NEW i \in 1..Len(e)
        PROVE  IsEvent(e[i]) /\ e[i].n \in 1..Len(log) /\ u \in log[e[i].n]
    <3>1. i + 1 \in 1..Len(d) /\ e[i] = d[i + 1]
      BY <1>2, SMTT(30)
    <3> QED BY <1>3, <3>1 DEF For
  <2> QED BY <1>1, <2>1 DEF Lines, For, e
<1>9. ReplayOrder(u)'
  BY <1>1, SMTT(30) DEF ReplayOrder
<1>10. LaneOrder(u)'
  <2> SUFFICES ASSUME NEW i \in 1..Len(e), NEW s \in 1..Len(log), Owed(u, s)', s < e[i].n
               PROVE  Holds(e, i - 1, s)
    BY DEF LaneOrder, Holds, e
  <2>1. i + 1 \in 1..Len(d) /\ s < d[i + 1].n /\ i \in 1..Len(d) /\ (i + 1) - 1 = i
    BY <1>2, SMTT(30)
  <2>2. Holds(fetched[u], Len(fetched[u]), s) \/ Holds(d, (i + 1) - 1, s)
    BY <1>1, <1>3, <1>6, <2>1 DEF LaneOrder, d
  <2>3. Holds(d, i, s)
    BY <1>1, <2>1, <2>2, SMTT(30) DEF Holds
  <2> QED BY <1>6, <1>7, <2>1, <2>3
<1>11. ASSUME NEW s \in 1..Len(log), Owed(u, s)', Held(u, s) PROVE Held(u, s)'
  <2>1. Holds(d, Len(d), s)
    BY <1>1, <1>11, SMTT(30) DEF Held, Holds, d
  <2>2. Len(d) \in 1..Len(d) /\ Len(d) - 1 = Len(e)
    BY <1>2, SMTT(30)
  <2>3. Holds(e, Len(e), s)
    BY <1>6, <1>7, <1>11, <2>1, <2>2
  <2> QED BY <2>3 DEF Held, Holds, e
<1>12. QueueOrder(u)'
  BY <1>1, <1>3, <1>6, <1>11 DEF QueueOrder, Queued
<1>13. OnItsWay(u)'
  BY <1>1, <1>3, <1>6, <1>11 DEF OnItsWay, Queued, Pending
<1> QED BY <1>8, <1>9, <1>10, <1>12, <1>13

(* A frame goes on the connection: no event, or the next one owed.         *)
LEMMA WriteKept ==
  ASSUME IInv, NEW u \in User, phase[u] = "running", NEW frame \in Frame,
         UNCHANGED <<log, got, overtaken, cut, lost>>, phase'[u] = phase[u],
         wire'[u] = Append(wire[u], frame), lastSeq'[u] = IF IsEvent(frame) THEN frame.n ELSE lastSeq[u],
         IsEvent(frame) =>
            /\ frame.n > lastSeq[u] /\ frame.n <= Len(log) /\ u \in log[frame.n]
            /\ \A s \in lastSeq[u] + 1..frame.n - 1 : u \in log[s] => s \in Excused(u)
  PROVE  Chain(u)'
<1> DEFINE w == wire[u]
           x == wire'[u]
<1>1. /\ Typed /\ w \in Seq(Frame) /\ lastSeq[u] \in Nat /\ lastSeq[u] <= Len(log)
      /\ Len(log) \in Nat /\ Got(u) /\ Chain(u)
  BY SMTT(30) DEF IInv, Typed, LogTyped, ServedTyped, Promise
<1>2. Seen(u) \in Nat /\ Seen(u) <= lastSeq[u]
  BY <1>1, SeenIsLast, SMTT(30) DEF Chain
<1>3. Seen(u)' = Seen(u) /\ Received(u)' = Received(u) /\ Excused(u)' = Excused(u)
  BY DEF Seen, Received, Excused
<1>4. /\ Len(w) \in Nat /\ Len(x) = Len(w) + 1 /\ x[Len(w) + 1] = frame
      /\ \A i \in 1..Len(w) : x[i] = w[i]
  BY <1>1, AppendFacts, SMTT(30)
<1>5. frame.n \in Nat
  BY DEF Frame
<1>6. \A i \in 1..Len(w) : w[i].n \in Nat
  BY <1>1, FrameNumbers
<1>7. /\ \A i \in 1..Len(w) : IsEvent(w[i]) =>
            w[i].n > Seen(u) /\ w[i].n <= lastSeq[u] /\ u \in log[w[i].n]
      /\ \A i, j \in 1..Len(w) : i < j /\ IsEvent(w[i]) /\ IsEvent(w[j]) => w[i].n < w[j].n
      /\ \A s \in 1..lastSeq[u] :
            u \in log[s] => s \in Received(u) \cup Excused(u) \/ OnWire(u, s)
  BY <1>1 DEF Chain
<1> HIDE DEF w, x
<1>8. lastSeq'[u] \in Nat /\ lastSeq'[u] >= lastSeq[u]
  BY <1>1, <1>5, SMTT(30)
<1>9. ASSUME NEW i \in 1..Len(x), IsEvent(x[i])
      PROVE  x[i].n > Seen(u) /\ x[i].n <= lastSeq'[u] /\ u \in log[x[i].n]
  <2>1. CASE i \in 1..Len(w)
    BY <1>1, <1>4, <1>6, <1>7, <1>8, <1>9, <2>1, SMTT(30)
  <2>2. CASE i = Len(w) + 1
    BY <1>1, <1>2, <1>4, <1>5, <1>9, <2>2, SMTT(30)
  <2> QED BY <1>4, <2>1, <2>2, SMTT(30)
<1>10. ASSUME NEW i \in 1..Len(x), NEW j \in 1..Len(x), i < j, IsEvent(x[i]), IsEvent(x[j])
       PROVE  x[i].n < x[j].n
  <2>1. CASE j \in 1..Len(w)
    <3>1. i \in 1..Len(w)
      BY <1>4, <1>10, <2>1, SMTT(30)
    <3> QED BY <1>4, <1>7, <1>10, <2>1, <3>1
  <2>2. CASE j = Len(w) + 1
    <3>1. i \in 1..Len(w)
      BY <1>4, <1>10, <2>2, SMTT(30)
    <3>2. x[i].n <= lastSeq[u] /\ x[i].n \in Nat
      BY <1>4, <1>6, <1>7, <1>10, <3>1
    <3> QED BY <1>1, <1>4, <1>5, <1>10, <2>2, <3>2, SMTT(30)
  <2> QED BY <1>4, <2>1, <2>2, SMTT(30)
<1>11. ASSUME NEW s \in 1..lastSeq'[u], u \in log[s]
       PROVE  s \in Received(u) \cup Excused(u) \/ OnWire(u, s)'
  <2>1. CASE s <= lastSeq[u]
    <3>1. s \in 1..lastSeq[u]
      BY <1>1, <2>1, SMTT(30)
    <3>2. OnWire(u, s) => OnWire(u, s)'
      <4>1. \A i \in 1..Len(w) : i \in 1..Len(x)
        BY <1>4, SMTT(30)
      <4> QED BY <1>4, <4>1 DEF OnWire, w, x
    <3> QED BY <1>7, <1>11, <3>1, <3>2
  <2>2. CASE s > lastSeq[u] /\ s # lastSeq'[u]
    <3>1. IsEvent(frame) /\ s \in lastSeq[u] + 1..frame.n - 1
      BY <1>1, <1>5, <1>8, <2>2, SMTT(30)
    <3> QED BY <1>11, <3>1
  <2>3. CASE s > lastSeq[u] /\ s = lastSeq'[u]
    <3>1. IsEvent(frame) /\ s = frame.n /\ Len(w) + 1 \in 1..Len(x)
      BY <1>1, <1>4, <2>3, SMTT(30)
    <3> QED BY <1>4, <3>1 DEF OnWire, x
  <2> QED BY <1>1, <2>1, <2>2, <2>3, SMTT(30)
<1>12. Seen(u) <= lastSeq'[u]
  BY <1>1, <1>2, <1>8, SMTT(30)
<1> QED BY <1>3, <1>9, <1>10, <1>11, <1>12 DEF Chain, x

(* writeLoop: one frame of the outbox.                                     *)
LEMMA SendStep == ASSUME IInv, NEW u \in User, Send(u) PROVE IInv'
<1> DEFINE frame == PopFrame(ob[u])
<1>1. /\ Typed /\ ob \in [User -> Box] /\ wire \in [User -> Seq(Frame)]
      /\ lastSeq \in [User -> Nat] /\ lastSeq[u] <= Len(log) /\ Len(log) \in Nat
      /\ Got(u) /\ Chain(u) /\ Lines(u) /\ ReplayOrder(u) /\ LaneOrder(u)
      /\ QueueOrder(u) /\ OnItsWay(u)
  BY SMTT(30) DEF IInv, Typed, LogTyped, ServedTyped, Promise
<1>2. /\ phase[u] = "running" /\ ~IsEmpty(ob[u]) /\ ob' = [ob EXCEPT ![u] = PopRest(@)]
      /\ UNCHANGED <<hubVars, members, phase, fetched, got, cut>>
  BY DEF Send
<1>3. \/ Stale(u, frame) /\ UNCHANGED <<wire, lastSeq>>
      \/ /\ ~Stale(u, frame) /\ wire' = [wire EXCEPT ![u] = Append(@, frame)]
         /\ lastSeq' = [lastSeq EXCEPT ![u] = IF IsEvent(frame) THEN frame.n ELSE @]
  BY DEF Send
<1>4. /\ PopRest(ob[u]) \in Box /\ frame \in Frame
      /\ \/ ~IsEvent(frame) /\ PopRest(ob[u]).document = ob[u].document
         \/ /\ ob[u].document # <<>> /\ frame = Head(ob[u].document)
            /\ PopRest(ob[u]).document = Tail(ob[u].document)
  BY <1>1, <1>2, PopBox
<1> HIDE DEF frame
<1>5. /\ ob' \in [User -> Box] /\ ob'[u] = PopRest(ob[u])
      /\ \A v \in User \ {u} : ob'[v] = ob[v]
  BY <1>1, <1>2, <1>4
<1>6. frame.n \in Nat
  BY <1>4 DEF Frame
<1>7. ASSUME ob[u].document # <<>>, frame = Head(ob[u].document)
      PROVE  /\ frame = ob[u].document[1] /\ IsEvent(frame) /\ frame.n \in 1..Len(log)
             /\ u \in log[frame.n] /\ 1 \in 1..Len(ob[u].document)
  <2>1. ob[u].document \in Seq(Frame)
    BY <1>1 DEF Box
  <2>2. frame = ob[u].document[1] /\ 1 \in 1..Len(ob[u].document)
    BY <1>7, <2>1, TailFacts, SMTT(30)
  <2> QED BY <1>1, <2>2 DEF Lines, For
<1>8. IsEvent(frame) => frame.n <= Len(log)
  BY <1>1, <1>4, <1>7, SMTT(30)
<1>9. /\ wire' \in [User -> Seq(Frame)] /\ lastSeq' \in [User -> Nat]
      /\ \A v \in User : lastSeq'[v] <= Len(log)
      /\ \A v \in User \ {u} : wire'[v] = wire[v] /\ lastSeq'[v] = lastSeq[v]
  <2>1. CASE UNCHANGED <<wire, lastSeq>>
    BY <1>1, <2>1 DEF Typed, ServedTyped
  <2>2. CASE /\ wire' = [wire EXCEPT ![u] = Append(@, frame)]
             /\ lastSeq' = [lastSeq EXCEPT ![u] = IF IsEvent(frame) THEN frame.n ELSE @]
    <3>1. Append(wire[u], frame) \in Seq(Frame)
      BY <1>1, <1>4, AppendFacts
    <3>2. wire' \in [User -> Seq(Frame)] /\ \A v \in User \ {u} : wire'[v] = wire[v]
      BY <1>1, <2>2, <3>1
    <3>3. /\ lastSeq' \in [User -> Nat] /\ \A v \in User \ {u} : lastSeq'[v] = lastSeq[v]
          /\ lastSeq'[u] <= Len(log)
      BY <1>1, <1>6, <1>8, <2>2
    <3> QED BY <1>1, <3>2, <3>3 DEF Typed, ServedTyped
  <2> QED BY <1>3, <2>1, <2>2
<1>10. LogTyped'
  BY <1>1, <1>2 DEF hubVars, Typed, LogTyped
<1>11. ServedTyped'
  BY <1>1, <1>2, <1>5, <1>9 DEF hubVars, Typed, ServedTyped
<1>12. ASSUME NEW v \in User, v # u PROVE Promise(v)'
  <2>1. Idle(v)
    BY <1>2, <1>5, <1>9, <1>12 DEF hubVars, Idle
  <2> QED BY <2>1, IdleKept
<1>13. Promise(u)'
  <2>1. Grows /\ Excuses(u) /\ SameGot(u) /\ SameHub(u)
    BY <1>1, <1>2, LogKept DEF hubVars, Excuses, Excused, SameGot, SameHub
  <2>2. Got(u)'
    BY <1>1, <2>1, GotKept
  <2>3. CASE ~IsEvent(frame) /\ PopRest(ob[u]).document = ob[u].document
    <3>1. wire'[u] = Append(wire[u], frame) /\ lastSeq'[u] = lastSeq[u]
      BY <1>1, <1>3, <2>3 DEF Stale
    <3>2. SameStart(u) /\ SameLines(u)
      BY <1>2, <1>5, <2>3, <3>1 DEF SameStart, SameLines
    <3>3. Chain(u)'
      BY <1>2, <1>4, <2>3, <3>1, WriteKept DEF hubVars
    <3> QED BY <1>1, <2>1, <2>2, <3>2, <3>3, LinesKept, OrderKept, QueueKept DEF Promise
  <2>4. CASE /\ ob[u].document # <<>> /\ frame = Head(ob[u].document)
             /\ PopRest(ob[u]).document = Tail(ob[u].document)
    <3>1. /\ frame = ob[u].document[1] /\ IsEvent(frame) /\ frame.n \in 1..Len(log)
          /\ u \in log[frame.n] /\ 1 \in 1..Len(ob[u].document)
      BY <1>7, <2>4
    <3>2. \/ frame.n <= lastSeq[u] /\ UNCHANGED <<wire, lastSeq>>
          \/ /\ frame.n > lastSeq[u] /\ wire'[u] = Append(wire[u], frame)
             /\ lastSeq'[u] = frame.n
      BY <1>1, <1>3, <1>6, <3>1, SMTT(30) DEF Stale
    <3>3. lastSeq'[u] \in Nat /\ lastSeq'[u] >= lastSeq[u] /\ lastSeq'[u] >= frame.n
      BY <1>1, <1>6, <3>2, SMTT(30)
    <3>4. Lines(u)' /\ ReplayOrder(u)' /\ LaneOrder(u)' /\ QueueOrder(u)' /\ OnItsWay(u)'
      <4>1. /\ ob'[u].document = Tail(ob[u].document) /\ phase'[u] = phase[u]
            /\ fetched'[u] = fetched[u] /\ cut'[u] = cut[u]
            /\ UNCHANGED <<log, pending, queue, members, overtaken, lost>>
        BY <1>2, <1>5, <2>4 DEF hubVars
      <4> QED BY <1>2, <2>4, <3>1, <3>3, <4>1, PopKept
    <3>5. Chain(u)'
      <4>1. CASE UNCHANGED <<wire, lastSeq>>
        <5>1. SameWire(u)
          BY <1>2, <4>1 DEF SameWire, SameStart
        <5> QED BY <1>1, <2>1, <5>1, ChainKept
      <4>2. CASE frame.n > lastSeq[u] /\ wire'[u] = Append(wire[u], frame) /\ lastSeq'[u] = frame.n
        <5>1. ASSUME NEW s \in lastSeq[u] + 1..frame.n - 1, u \in log[s] PROVE s \in Excused(u)
          <6> SUFFICES ASSUME s \notin Excused(u) PROVE FALSE
            OBVIOUS
          <6>1. s \in 1..Len(log) /\ s > lastSeq[u] /\ s < frame.n
            BY <1>1, <3>1, SMTT(30)
          <6>2. Owed(u, s) /\ CaughtUp(u)
            BY <1>2, <5>1, <6>1 DEF Owed, CaughtUp
          <6>3. Holds(fetched[u], Len(fetched[u]), s) \/ Holds(ob[u].document, 1 - 1, s)
            BY <1>1, <3>1, <6>1, <6>2 DEF LaneOrder
          <6>4. fetched[u] = <<>>
            BY <1>1, <1>2 DEF Lines
          <6> QED BY <6>3, <6>4, SMTT(30) DEF Holds
        <5>2. frame.n <= Len(log)
          BY <1>1, <3>1, SMTT(30)
        <5> QED BY <1>2, <1>4, <3>1, <4>2, <5>1, <5>2, WriteKept DEF hubVars
      <4> QED BY <3>2, <4>1, <4>2
    <3> QED BY <2>2, <3>4, <3>5 DEF Promise
  <2> QED BY <1>4, <2>3, <2>4
<1> QED BY <1>10, <1>11, <1>12, <1>13 DEF IInv, Typed

(* The first event on a connection is the next one the client may get.     *)
LEMMA NextOnWire ==
  ASSUME IInv, NEW u \in User, wire[u] # <<>>, IsEvent(Head(wire[u]))
  PROVE  LET s == Head(wire[u]).n
         IN /\ s \in 1..Len(log) /\ s > Seen(u) /\ u \in log[s]
            /\ \A t \in Seen(u) + 1..s - 1 : u \in log[t] => t \in Excused(u)
<1> DEFINE s == Head(wire[u]).n
<1>1. /\ Typed /\ wire[u] \in Seq(Frame) /\ lastSeq[u] \in Nat /\ lastSeq[u] <= Len(log)
      /\ Got(u) /\ Chain(u)
  BY DEF IInv, Typed, ServedTyped, Promise
<1>2. Head(wire[u]) = wire[u][1] /\ Len(wire[u]) \in Nat /\ 1 \in 1..Len(wire[u])
  BY <1>1, TailFacts, SMTT(30)
<1>3. s \in Nat /\ s > Seen(u) /\ s <= lastSeq[u] /\ u \in log[s]
  BY <1>1, <1>2, FrameNumbers DEF Chain
<1>4. Seen(u) \in Nat /\ Len(log) \in Nat /\ \A t \in Received(u) : t \in Nat /\ t <= Seen(u)
  BY <1>1, SeenIsLast, SMTT(30)
<1>5. ASSUME NEW t \in Seen(u) + 1..s - 1, u \in log[t] PROVE t \in Excused(u)
  <2>1. t \in 1..lastSeq[u] /\ t > Seen(u) /\ t < s /\ t \in Nat
    BY <1>1, <1>3, <1>4, SMTT(30)
  <2>2. t \in Received(u) \cup Excused(u) \/ OnWire(u, t)
    BY <1>1, <1>5, <2>1 DEF Chain
  <2>3. t \notin Received(u)
    BY <1>4, <2>1, SMTT(30)
  <2>4. ~OnWire(u, t)
    <3> SUFFICES ASSUME NEW i \in 1..Len(wire[u]), IsEvent(wire[u][i]), wire[u][i].n = t
                 PROVE  FALSE
      BY DEF OnWire
    <3>1. CASE i = 1
      BY <1>2, <2>1, <1>3, <3>1, SMTT(30)
    <3>2. CASE i # 1
      <4>1. 1 < i
        BY <1>2, <3>2, SMTT(30)
      <4>2. wire[u][1].n < wire[u][i].n
        BY <1>1, <1>2, <4>1 DEF Chain
      <4> QED BY <1>2, <1>3, <2>1, <4>2, SMTT(30)
    <3> QED BY <3>1, <3>2
  <2> QED BY <2>2, <2>3, <2>4
<1>6. s \in 1..Len(log)
  BY <1>1, <1>3, <1>4, SMTT(30)
<1> QED BY <1>3, <1>5, <1>6

(* The client takes the first frame off the connection.                    *)
LEMMA ReceiveStep == ASSUME IInv, NEW u \in User, Receive(u) PROVE IInv'
<1> DEFINE w == wire[u]
           x == wire'[u]
           s == Head(wire[u]).n
<1>1. /\ Typed /\ wire \in [User -> Seq(Frame)] /\ got \in [User -> Seq(Nat)] /\ w \in Seq(Frame)
      /\ got[u] \in Seq(Nat) /\ lastSeq[u] \in Nat /\ lastSeq[u] <= Len(log) /\ Len(log) \in Nat
      /\ Promise(u) /\ Got(u) /\ Chain(u) /\ log \in Seq(SUBSET User)
  BY SMTT(30) DEF IInv, Typed, LogTyped, ServedTyped, Promise
<1>2. /\ w # <<>> /\ wire' = [wire EXCEPT ![u] = Tail(w)]
      /\ got' = [got EXCEPT ![u] = IF IsEvent(Head(w)) THEN Append(got[u], s) ELSE got[u]]
      /\ UNCHANGED <<hubVars, members, phase, ob, lastSeq, fetched, cut>>
  BY DEF Receive
<1>3. /\ Tail(w) \in Seq(Frame) /\ Head(w) \in Frame /\ Len(w) \in Nat \ {0}
      /\ Head(w) = w[1] /\ Len(Tail(w)) = Len(w) - 1
      /\ \A i \in 1..Len(w) - 1 : Tail(w)[i] = w[i + 1]
  BY <1>1, <1>2, TailFacts
<1>4. /\ wire' \in [User -> Seq(Frame)] /\ x = Tail(w)
      /\ \A v \in User \ {u} : wire'[v] = wire[v] /\ got'[v] = got[v]
  BY <1>1, <1>2, <1>3
<1>5. s \in Nat /\ s = w[1].n
  BY <1>3 DEF Frame
<1>6. /\ got' \in [User -> Seq(Nat)]
      /\ got'[u] = IF IsEvent(Head(w)) THEN Append(got[u], s) ELSE got[u]
  <2>1. (IF IsEvent(Head(w)) THEN Append(got[u], s) ELSE got[u]) \in Seq(Nat)
    BY <1>1, <1>5, AppendFacts
  <2> QED BY <1>1, <1>2, <2>1
<1>7. LogTyped' /\ ServedTyped'
  <2>1. LogTyped'
    BY <1>1, <1>2 DEF hubVars, Typed, LogTyped
  <2>2. ServedTyped'
    BY <1>1, <1>2, <1>4, <1>6 DEF hubVars, Typed, ServedTyped
  <2> QED BY <2>1, <2>2
<1>8. ASSUME NEW v \in User, v # u PROVE Promise(v)'
  <2>1. Idle(v)
    BY <1>2, <1>4, <1>8 DEF hubVars, Idle
  <2> QED BY <2>1, IdleKept
<1>9. /\ Grows /\ Excuses(u) /\ SameStart(u) /\ SameLines(u) /\ SameHub(u)
      /\ log' = log /\ Excused(u)' = Excused(u) /\ lastSeq' = lastSeq /\ phase' = phase
  BY <1>1, <1>2, LogKept DEF hubVars, Excuses, Excused, SameStart, SameLines, SameHub
<1>10. Lines(u)' /\ ReplayOrder(u)' /\ LaneOrder(u)' /\ QueueOrder(u)' /\ OnItsWay(u)'
  BY <1>1, <1>9, LinesKept, OrderKept, QueueKept DEF Promise
<1>11. /\ \A i \in 1..Len(w) : IsEvent(w[i]) =>
             w[i].n > Seen(u) /\ w[i].n <= lastSeq[u] /\ u \in log[w[i].n]
       /\ \A i, j \in 1..Len(w) : i < j /\ IsEvent(w[i]) /\ IsEvent(w[j]) => w[i].n < w[j].n
       /\ \A t \in 1..lastSeq[u] :
             u \in log[t] => t \in Received(u) \cup Excused(u) \/ OnWire(u, t)
       /\ phase[u] \notin {"off", "hub", "joined"} /\ Seen(u) <= lastSeq[u]
  BY <1>1, <1>2 DEF Chain
<1>12. /\ Len(x) = Len(w) - 1
       /\ \A i \in 1..Len(x) : x[i] = w[i + 1] /\ i + 1 \in 1..Len(w) /\ 1 < i + 1
       /\ \A i, j \in 1..Len(x) : i < j => i + 1 < j + 1
  BY <1>3, <1>4, SMTT(30)
<1>13. \A t : OnWire(u, t) => OnWire(u, t)' \/ (IsEvent(w[1]) /\ t = w[1].n)
  <2> SUFFICES ASSUME NEW t, NEW i \in 1..Len(w), IsEvent(w[i]), w[i].n = t, i # 1
               PROVE  OnWire(u, t)'
    BY DEF OnWire
  <2>1. i - 1 \in 1..Len(x) /\ (i - 1) + 1 = i
    BY <1>3, <1>12, SMTT(30)
  <2>2. x[i - 1] = w[i]
    BY <1>12, <2>1
  <2> QED BY <2>1, <2>2 DEF OnWire
<1>14. Seen(u) \in Nat /\ Seen(u) <= Len(log)
  BY <1>1, SeenIsLast, SMTT(30)
<1>15. CASE ~IsEvent(Head(w))
  <2>1. SameGot(u)
    BY <1>6, <1>15 DEF SameGot
  <2>2. Got(u)' /\ Seen(u)' = Seen(u) /\ Received(u)' = Received(u)
    BY <1>1, <1>9, <2>1, GotKept
  <2>3. \A t : OnWire(u, t) => OnWire(u, t)'
    BY <1>3, <1>13, <1>15
  <2> HIDE DEF w, x
  <2>4. Chain(u)'
    <3>1. \A i \in 1..Len(x) : IsEvent(x[i]) =>
             x[i].n > Seen(u) /\ x[i].n <= lastSeq[u] /\ u \in log[x[i].n]
      BY <1>11, <1>12
    <3>2. \A i, j \in 1..Len(x) : i < j /\ IsEvent(x[i]) /\ IsEvent(x[j]) => x[i].n < x[j].n
      BY <1>11, <1>12
    <3> QED BY <1>9, <1>11, <2>2, <2>3, <3>1, <3>2 DEF Chain, x
  <2> QED BY <1>7, <1>8, <1>10, <2>2, <2>4 DEF IInv, Typed, Promise
<1>16. CASE IsEvent(Head(w))
  <2> DEFINE g == got[u]
             y == got'[u]
  <2>1. /\ s \in 1..Len(log) /\ s > Seen(u) /\ u \in log[s]
        /\ \A t \in Seen(u) + 1..s - 1 : u \in log[t] => t \in Excused(u)
    BY <1>2, <1>16, NextOnWire
  <2>2. y = Append(g, s)
    BY <1>6, <1>16
  <2>3. /\ Len(g) \in Nat /\ Len(y) = Len(g) + 1 /\ y[Len(g) + 1] = s /\ y # <<>>
        /\ \A i \in 1..Len(g) : y[i] = g[i]
    <3> HIDE DEF s, y
    <3> QED BY <1>1, <1>5, <2>2, AppendFacts, SMTT(30)
  <2>4. /\ \A i \in 1..Len(g) : g[i] \in 1..Len(log) /\ u \in log[g[i]] /\ g[i] <= Seen(u)
        /\ \A i, j \in 1..Len(g) : i < j => g[i] < g[j]
        /\ \A t \in 1..Seen(u) : u \in log[t] => t \in Received(u) \cup Excused(u)
    BY <1>1, SeenIsLast DEF Got, Received
  <2>5. Seen(u)' = s
    BY <2>3 DEF Seen
  <2>6. \A t : t \in Received(u)' <=> t \in Received(u) \/ t = s
    <3>1. \A i \in 1..Len(y) : i \in 1..Len(g) \/ i = Len(g) + 1
      BY <2>3, SMTT(30)
    <3>2. Len(g) + 1 \in 1..Len(y) /\ \A i \in 1..Len(g) : i \in 1..Len(y)
      BY <2>3, SMTT(30)
    <3> HIDE DEF s
    <3>3. \A t : t \in Received(u) <=> \E i \in 1..Len(g) : g[i] = t
      BY DEF Received
    <3>4. \A t : t \in Received(u)' <=> \E i \in 1..Len(y) : y[i] = t
      BY DEF Received
    <3> HIDE DEF g, y
    <3> QED BY <2>3, <3>1, <3>2, <3>3, <3>4
  <2> HIDE DEF w, x, s, g, y
  <2>7. Got(u)'
    <3>1. ASSUME NEW i \in 1..Len(y) PROVE y[i] \in 1..Len(log) /\ u \in log[y[i]]
      <4>1. i \in 1..Len(g) \/ i = Len(g) + 1
        BY <2>3, SMTT(30)
      <4> QED BY <2>1, <2>3, <2>4, <4>1
    <3>2. ASSUME NEW i \in 1..Len(y), NEW j \in 1..Len(y), i < j PROVE y[i] < y[j]
      <4>1. i \in 1..Len(g)
        BY <2>3, <3>2, SMTT(30)
      <4>2. CASE j \in 1..Len(g)
        BY <2>3, <2>4, <3>2, <4>1, <4>2
      <4>3. CASE j = Len(g) + 1
        <5>1. g[i] \in Nat /\ g[i] <= Seen(u) /\ Seen(u) < s
          BY <2>1, <2>4, <1>14, <1>5, <4>1, SMTT(30)
        <5> QED BY <1>5, <1>14, <2>3, <4>1, <4>3, <5>1, SMTT(30)
      <4> QED BY <2>3, <4>2, <4>3, SMTT(30)
    <3>3. ASSUME NEW t \in 1..s, u \in log[t] PROVE t \in Received(u)' \cup Excused(u)
      <4>1. t \in 1..Seen(u) \/ t \in Seen(u) + 1..s - 1 \/ t = s
        BY <1>5, <1>14, <2>1, SMTT(30)
      <4> QED BY <2>1, <2>4, <2>6, <3>3, <4>1
    <3> QED BY <1>9, <2>5, <3>1, <3>2, <3>3 DEF Got, y
  <2>8. Chain(u)'
    <3>1. 1 \in 1..Len(w) /\ IsEvent(w[1]) /\ w[1].n = s
      BY <1>3, <1>5, <1>16, SMTT(30)
    <3>2. \A i \in 1..Len(x) : IsEvent(x[i]) =>
             x[i].n > s /\ x[i].n <= lastSeq[u] /\ u \in log[x[i].n]
      <4> SUFFICES ASSUME NEW i \in 1..Len(x), IsEvent(x[i])
                   PROVE  x[i].n > s /\ x[i].n <= lastSeq[u] /\ u \in log[x[i].n]
        OBVIOUS
      <4>1. x[i] = w[i + 1] /\ i + 1 \in 1..Len(w) /\ 1 < i + 1
        BY <1>12
      <4>2. w[1].n < w[i + 1].n /\ w[i + 1].n <= lastSeq[u] /\ u \in log[w[i + 1].n]
        BY <1>11, <3>1, <4>1
      <4> QED BY <3>1, <4>1, <4>2
    <3>3. \A i, j \in 1..Len(x) : i < j /\ IsEvent(x[i]) /\ IsEvent(x[j]) => x[i].n < x[j].n
      BY <1>11, <1>12, SMTT(30)
    <3>4. \A t \in 1..lastSeq[u] :
             u \in log[t] => t \in Received(u)' \cup Excused(u) \/ OnWire(u, t)'
      BY <1>11, <1>13, <2>6, <3>1
    <3>5. s <= lastSeq[u]
      BY <1>11, <3>1
    <3> QED BY <1>9, <1>11, <2>5, <3>2, <3>3, <3>4, <3>5 DEF Chain, x
  <2> QED BY <1>7, <1>8, <1>10, <2>7, <2>8 DEF IInv, Typed, Promise
<1> QED BY <1>15, <1>16
-----------------------------------------------------------------------------
(* Every step keeps the promises.                                          *)
LEMMA IInvStep == IInv /\ [Next]_vars => IInv'
<1> SUFFICES ASSUME IInv, [Next]_vars PROVE IInv'
  OBVIOUS
<1>1. CASE UNCHANGED vars
  <2>1. Typed'
    BY <1>1 DEF vars, hubVars, IInv, Typed, LogTyped, ServedTyped
  <2>2. ASSUME NEW u \in User PROVE Promise(u)'
    <3>1. Idle(u)
      BY <1>1 DEF vars, hubVars, Idle
    <3> QED BY <3>1, IdleKept
  <2> QED BY <2>1, <2>2 DEF IInv
<1>2. CASE Authored
  <2>1. ASSUME NEW a \in Author, NEW n \in 1..2, NEW who \in [1..n -> SUBSET User], Commit(a, who)
        PROVE  IInv'
    BY <2>1, CommitStep
  <2> QED BY <1>2, <2>1, PublishStep, PublishNowhereStep DEF Authored
<1>3. ASSUME NEW u \in User, Served(u) PROVE IInv'
  BY <1>3, HubStep, JoinStep, WelcomeStep, FetchStep, PrependStep, SendStep, ReceiveStep, EndStep
     DEF Served
<1> QED BY <1>1, <1>2, <1>3, FanOutStep, ShutdownStep, CrashStep DEF Next

(* The state of the gateway is well-formed, with its channel and its log   *)
(* within bounds, and only sessions that have joined are members.          *)
THEOREM GatewayTypeOK == Spec => []TypeOK
<1>1. IInv => TypeOK
  <2> SUFFICES ASSUME IInv PROVE TypeOK
    OBVIOUS
  <2>1. ASSUME NEW q \in Seq(Nat), \A i \in 1..Len(q) : q[i] \in 1..Len(log)
        PROVE  q \in Seq(1..Len(log))
    BY <2>1, SMTT(30)
  <2>2. pending \in [Author -> Seq(1..Len(log))] /\ queue \in Seq(1..Len(log))
    BY <2>1 DEF IInv, Typed, LogTyped
  <2>3. got \in [User -> Seq(1..Len(log))]
    BY <2>1 DEF IInv, Typed, ServedTyped, Promise, Got
  <2>4. ASSUME NEW u \in User PROVE IsOutbox(ob[u])
    <3>1. ob[u] \in Box
      BY DEF IInv, Typed, ServedTyped
    <3>2. ASSUME NEW q \in Seq(ControlFrame) PROVE q \in Seq(Frame)
      BY SMTT(30) DEF ControlFrame
    <3>3. ob[u].control \in Seq(Frame) /\ ob[u].ephemeral = NoMap /\ ob[u].order = <<>>
      BY <3>1, <3>2 DEF Box
    <3>4. NoMap \in [DOMAIN NoMap -> Frame] /\ DOMAIN NoMap \subseteq Key
      BY DEF NoMap
    <3>5. /\ ob[u].ephemeral \in [DOMAIN ob[u].ephemeral -> Frame] /\ ob[u].order \in Seq(Key)
          /\ DOMAIN ob[u].ephemeral \subseteq Key
      BY <3>3, <3>4, SMTT(30)
    <3> DEFINE E == [DOMAIN ob[u].ephemeral -> Frame]
    <3>6. ob[u].ephemeral \in E
      BY <3>5
    <3> HIDE DEF E
    <3>7. ob[u] \in [control : Seq(Frame), document : Seq(Frame), ephemeral : E, order : Seq(Key),
                    signal : BOOLEAN, closed : BOOLEAN, overflow : BOOLEAN]
      BY <3>1, <3>3, <3>5, <3>6 DEF Box
    <3> QED BY <3>5, <3>7 DEF IsOutbox, E
  <2>5. lastSeq \in [User -> 0..Len(log)]
    BY SMTT(30) DEF IInv, Typed, LogTyped, ServedTyped
  <2> QED BY <2>2, <2>3, <2>4, <2>5 DEF IInv, Typed, LogTyped, ServedTyped, Phase, TypeOK
<1> QED BY <1>1, IInvInit, IInvStep, PTL DEF Spec

(* A client that has an event has every earlier one that is for it, but    *)
(* for those overtaken at publication, cut by the catch-up limit or lost   *)
(* with a closed hub (fanOut, welcome, replayFrames, writeLoop).           *)
THEOREM GatewayHolesExplained == Spec => []HolesExplained
<1>1. IInv => HolesExplained
  BY DEF IInv, Promise, Got, HolesExplained
<1> QED BY <1>1, IInvInit, IInvStep, PTL DEF Spec

(* Over all its connections a client receives events in the order of the   *)
(* log, none twice, and only those that are for it (writeLoop's check of   *)
(* the sequence, fanOut and replayFrames).                                 *)
THEOREM GatewayInOrder == Spec => [](FeedSpec!Increases /\ FeedSpec!OnlyAddressed)
<1>1. IInv => FeedSpec!Increases /\ FeedSpec!OnlyAddressed
  BY DEF IInv, Promise, Got, FeedSpec!Increases, FeedSpec!OnlyAddressed
<1> QED BY <1>1, IInvInit, IInvStep, PTL DEF Spec

(* The gateway implements the feed: a commit extends it, a publication or  *)
(* a replay that leaves events out gives up on them, and a client that     *)
(* takes an event off its connection is delivered the next one.            *)
THEOREM GatewayImplementsFeed == Spec => ImplementsFeed
<1> DEFINE skippable == [u \in User |-> Excused(u)]
<1>1. Init => FeedSpec!Init
  BY DEF Init, FeedSpec!Init, Excused
<1>2. IInv /\ IInv' /\ [Next]_vars => [FeedSpec!Next]_(FeedSpec!vars)
  <2> SUFFICES ASSUME IInv, IInv', [Next]_vars, ~UNCHANGED FeedSpec!vars PROVE FeedSpec!Next
    OBVIOUS
  <2>1. ASSUME UNCHANGED <<log, got>>, \A u \in User : Excused(u) \subseteq Excused(u)'
        PROVE  FeedSpec!Next
    <3>1. \A u \in User : Excused(u)' \subseteq 1..Len(log)
      BY <2>1 DEF IInv, Typed, LogTyped, Excused
    <3>2. FeedSpec!GiveUp
      BY <2>1, <3>1 DEF FeedSpec!GiveUp
    <3> QED BY <3>2 DEF FeedSpec!Next
  <2>2. ASSUME UNCHANGED <<log, got, overtaken, cut, lost>> PROVE FALSE
    BY <2>2 DEF FeedSpec!vars, Excused
  <2>3. Next
    BY <2>2 DEF vars, hubVars
  <2>4. ASSUME NEW a \in Author, NEW n \in 1..2, NEW who \in [1..n -> SUBSET User], Commit(a, who)
        PROVE  FeedSpec!Next
    <3>1. log' = log \o who /\ UNCHANGED <<got, overtaken, cut, lost>>
      BY <2>4 DEF Commit
    <3>2. UNCHANGED skippable
      BY <3>1 DEF Excused
    <3>3. FeedSpec!Extend
      BY <3>1, <3>2 DEF FeedSpec!Extend
    <3> QED BY <3>3 DEF FeedSpec!Next
  <2>5. ASSUME NEW a \in Author, Publish(a) \/ PublishNowhere(a) PROVE FeedSpec!Next
    <3>1. /\ UNCHANGED <<log, got>> /\ overtaken \subseteq overtaken' /\ UNCHANGED cut
          /\ \A u \in User : lost[u] \subseteq lost'[u]
      BY <2>5 DEF Publish, PublishNowhere
    <3> QED BY <2>1, <3>1 DEF Excused
  <2>6. CASE FanOut \/ Shutdown \/ Crash
    BY <2>2, <2>6 DEF FanOut, Shutdown, Crash
  <2>7. ASSUME NEW u \in User, Hub(u) \/ Join(u) \/ Welcome(u) \/ Prepend(u) \/ Send(u) \/ End(u)
        PROVE  FeedSpec!Next
    BY <2>2, <2>7 DEF Hub, Join, Welcome, Prepend, Send, End, hubVars
  <2>8. ASSUME NEW u \in User, Fetch(u) PROVE FeedSpec!Next
    <3>1. UNCHANGED <<log, got, overtaken, lost>> /\ \A v \in User : cut[v] \subseteq cut'[v]
      BY <2>8 DEF Fetch, hubVars, IInv, Typed, LogTyped
    <3> QED BY <2>1, <3>1 DEF Excused
  <2>9. ASSUME NEW u \in User, Receive(u) PROVE FeedSpec!Next
    <3> DEFINE s == Head(wire[u]).n
    <3>1. /\ wire[u] # <<>> /\ UNCHANGED <<log, overtaken, cut, lost>>
          /\ got' = [got EXCEPT ![u] = IF IsEvent(Head(wire[u])) THEN Append(@, s) ELSE @]
      BY <2>9 DEF Receive, hubVars
    <3>2. IsEvent(Head(wire[u]))
      <4>1. got \in [User -> Seq(Nat)]
        BY DEF IInv, Typed, ServedTyped
      <4> QED BY <2>2, <3>1, <4>1
    <3>3. /\ s \in 1..Len(log) /\ s > Seen(u) /\ u \in log[s]
          /\ \A t \in Seen(u) + 1..s - 1 : u \in log[t] => t \in Excused(u)
      BY <3>1, <3>2, NextOnWire
    <3>4. got' = [got EXCEPT ![u] = Append(@, s)]
      BY <3>1, <3>2
    <3>5. UNCHANGED skippable
      BY <3>1 DEF Excused
    <3> HIDE DEF s
    <3>6. FeedSpec!Seen(u) = Seen(u) /\ skippable[u] = Excused(u)
      BY DEF FeedSpec!Seen, Seen
    <3>7. FeedSpec!Deliver(u, s)
      BY <3>1, <3>3, <3>4, <3>5, <3>6 DEF FeedSpec!Deliver
    <3> QED BY <3>3, <3>7 DEF FeedSpec!Next
  <2> QED BY <2>3, <2>4, <2>5, <2>6, <2>7, <2>8, <2>9 DEF Next, Authored, Served
<1> QED BY <1>1, <1>2, IInvInit, IInvStep, PTL DEF Spec, ImplementsFeed, FeedSpec!Spec
=============================================================================
