--------------------------- MODULE SessionProofs ----------------------------
(***************************************************************************)
(* Invariants of a session, proved for every cap, every set of keys and    *)
(* every number of events, intents and ephemeral frames.  The first part   *)
(* is about the outbox: every operation keeps its type and the agreement   *)
(* of the two halves of the ephemeral lane.                                *)
(***************************************************************************)
EXTENDS Session, SequenceTheorems, TLAPS

(* An outbox as every operation must find it and leave it.                 *)
Sound(o) == IsOutbox(o) /\ Coherent(o)

(* A new outbox (newOutbox) is sound.                                      *)
LEMMA NewOutboxSound == Sound(NewOutbox)
  BY CapAssumption DEF NewOutbox, Sound, IsOutbox, Coherent

(* Replacing the control lane and waking the writer keeps an outbox sound. *)
LEMMA ControlSound ==
  ASSUME NEW o, Sound(o), NEW s \in Seq(Frame)
  PROVE  Sound(Wake([o EXCEPT !.control = s])) /\ Sound([o EXCEPT !.control = s])
<1>1. IsOutbox(Wake([o EXCEPT !.control = s])) /\ IsOutbox([o EXCEPT !.control = s])
  BY DEF Sound, IsOutbox, Wake
<1>2. Coherent(Wake([o EXCEPT !.control = s])) /\ Coherent([o EXCEPT !.control = s])
  BY DEF Sound, IsOutbox, Coherent, Wake
<1> QED BY <1>1, <1>2 DEF Sound

(* So does replacing the document lane.                                    *)
LEMMA DocumentSound ==
  ASSUME NEW o, Sound(o), NEW s \in Seq(Frame)
  PROVE  Sound(Wake([o EXCEPT !.document = s])) /\ Sound([o EXCEPT !.document = s])
<1>1. IsOutbox(Wake([o EXCEPT !.document = s])) /\ IsOutbox([o EXCEPT !.document = s])
  BY DEF Sound, IsOutbox, Wake
<1>2. Coherent(Wake([o EXCEPT !.document = s])) /\ Coherent([o EXCEPT !.document = s])
  BY DEF Sound, IsOutbox, Coherent, Wake
<1> QED BY <1>1, <1>2 DEF Sound

(* PushControl keeps an outbox sound.                                      *)
LEMMA PushControlSound ==
  ASSUME NEW o, Sound(o), NEW frame \in Frame
  PROVE  Sound(PushControl(o, frame))
<1>1. Append(o.control, frame) \in Seq(Frame)
  BY DEF Sound, IsOutbox
<1> QED BY <1>1, ControlSound DEF PushControl

(* PushDocument keeps it sound, whether it queues, overflows or refuses.   *)
LEMMA PushDocumentSound ==
  ASSUME NEW o, Sound(o), NEW frame \in Frame
  PROVE  Sound(PushDocument(o, frame))
<1>1. Append(o.document, frame) \in Seq(Frame)
  BY DEF Sound, IsOutbox
<1>2. Sound([o EXCEPT !.overflow = TRUE])
  <2>1. IsOutbox([o EXCEPT !.overflow = TRUE])
    BY DEF Sound, IsOutbox
  <2>2. Coherent([o EXCEPT !.overflow = TRUE])
    BY DEF Sound, IsOutbox, Coherent
  <2> QED BY <2>1, <2>2 DEF Sound
<1> QED BY <1>1, <1>2, DocumentSound DEF PushDocument

(* PrependDocument keeps it sound, for any replay.                         *)
LEMMA PrependDocumentSound ==
  ASSUME NEW o, Sound(o), NEW frames \in Seq(Frame)
  PROVE  Sound(PrependDocument(o, frames))
<1>1. frames \o o.document \in Seq(Frame)
  BY DEF Sound, IsOutbox
<1> QED BY <1>1, DocumentSound DEF PrependDocument

(* Close and the receive that empties the signal channel only set flags.   *)
LEMMA FlagsSound ==
  ASSUME NEW o, Sound(o)
  PROVE  Sound(Close(o)) /\ Sound([o EXCEPT !.signal = FALSE])
<1>1. IsOutbox(Close(o)) /\ IsOutbox([o EXCEPT !.signal = FALSE])
  BY DEF Sound, IsOutbox, Close, Wake
<1>2. Coherent(Close(o)) /\ Coherent([o EXCEPT !.signal = FALSE])
  BY DEF Sound, IsOutbox, Coherent, Close, Wake
<1> QED BY <1>1, <1>2 DEF Sound
-----------------------------------------------------------------------------
(* A queue without repetitions.                                            *)
Unique(q) == \A i, j \in 1..Len(q) : q[i] = q[j] => i = j
Elements(q) == {q[i] : i \in 1..Len(q)}

(* What leaves the front of the key queue: the rest has no repetition and  *)
(* holds exactly the other keys.                                           *)
LEMMA TailUnique ==
  ASSUME NEW S, NEW q \in Seq(S), q # <<>>, Unique(q)
  PROVE  /\ Tail(q) \in Seq(S) /\ Len(Tail(q)) = Len(q) - 1
         /\ Unique(Tail(q)) /\ Elements(Tail(q)) = Elements(q) \ {Head(q)}
         /\ Head(q) \in Elements(q)
<1> DEFINE t == Tail(q)
<1>1. /\ t \in Seq(S) /\ Len(t) = Len(q) - 1 /\ Len(q) \in Nat \ {0}
      /\ \A i \in 1..Len(q) - 1 : t[i] = q[i + 1]
      /\ Head(q) = q[1]
  OBVIOUS
<1> HIDE DEF t
<1>2. Unique(t)
  <2> SUFFICES ASSUME NEW i \in 1..Len(t), NEW j \in 1..Len(t), t[i] = t[j]
               PROVE  i = j
    BY DEF Unique
  <2>1. /\ i + 1 \in 1..Len(q) /\ j + 1 \in 1..Len(q) /\ q[i + 1] = q[j + 1]
    BY <1>1
  <2>2. i + 1 = j + 1
    BY <2>1 DEF Unique
  <2> QED BY <2>2
<1>3. ASSUME NEW k \in Elements(q), k # Head(q)
      PROVE  k \in Elements(t)
  <2>1. PICK i \in 1..Len(q) : q[i] = k
    BY DEF Elements
  <2>2. i - 1 \in 1..Len(t) /\ t[i - 1] = k
    BY <1>1, <1>3, <2>1
  <2> QED BY <2>2 DEF Elements
<1>4. ASSUME NEW k \in Elements(t)
      PROVE  k \in Elements(q) /\ k # Head(q)
  <2>1. PICK i \in 1..Len(t) : t[i] = k
    BY <1>4 DEF Elements
  <2>2. i + 1 \in 1..Len(q) /\ q[i + 1] = k /\ 1 \in 1..Len(q) /\ i + 1 # 1
    BY <1>1, <2>1
  <2>3. q[i + 1] # q[1]
    BY <2>2 DEF Unique
  <2> QED BY <1>1, <2>2, <2>3 DEF Elements
<1>5. Head(q) \in Elements(q)
  BY <1>1 DEF Elements
<1> QED BY <1>1, <1>2, <1>3, <1>4, <1>5 DEF t

(* A new key at the back of the key queue.                                 *)
LEMMA AppendUnique ==
  ASSUME NEW S, NEW q \in Seq(S), Unique(q), NEW key \in S, key \notin Elements(q)
  PROVE  /\ Append(q, key) \in Seq(S) /\ Len(Append(q, key)) = Len(q) + 1
         /\ Unique(Append(q, key)) /\ Elements(Append(q, key)) = Elements(q) \cup {key}
<1> DEFINE t == Append(q, key)
<1>1. /\ t \in Seq(S) /\ Len(t) = Len(q) + 1 /\ Len(q) \in Nat
      /\ \A i \in 1..Len(q) : t[i] = q[i]
      /\ t[Len(q) + 1] = key
  OBVIOUS
<1> HIDE DEF t
<1>2. Unique(t)
  <2> SUFFICES ASSUME NEW i \in 1..Len(t), NEW j \in 1..Len(t), t[i] = t[j]
               PROVE  i = j
    BY DEF Unique
  <2>1. \A n \in 1..Len(q) : t[n] # key
    BY <1>1 DEF Elements
  <2>2. CASE i \in 1..Len(q) /\ j \in 1..Len(q)
    <3>1. q[i] = q[j] BY <1>1, <2>2
    <3> QED BY <2>2, <3>1 DEF Unique
  <2>3. CASE i = Len(q) + 1 \/ j = Len(q) + 1
    BY <1>1, <2>1, <2>3
  <2> QED BY <1>1, <2>2, <2>3
<1>3. Elements(t) = Elements(q) \cup {key}
  <2>1. ASSUME NEW i \in 1..Len(t)
        PROVE  t[i] \in Elements(q) \cup {key}
    BY <1>1 DEF Elements
  <2>2. ASSUME NEW k \in Elements(q)
        PROVE  k \in Elements(t)
    BY <1>1 DEF Elements
  <2>3. key \in Elements(t)
    BY <1>1 DEF Elements
  <2> QED BY <2>1, <2>2, <2>3 DEF Elements
<1> QED BY <1>1, <1>2, <1>3 DEF t

(* A sound outbox whose ephemeral queue and map are replaced by coherent   *)
(* ones is sound.                                                          *)
LEMMA LaneSound ==
  ASSUME NEW o, Sound(o), NEW q \in Seq(Key), Unique(q), Len(q) <= EphemeralCap,
         NEW m \in [Elements(q) -> Frame]
  PROVE  Sound([o EXCEPT !.order = q, !.ephemeral = m])
<1> DEFINE p == [o EXCEPT !.order = q, !.ephemeral = m]
<1>1. Elements(q) \subseteq Key
  BY DEF Elements
<1>2. p.order = q /\ p.ephemeral = m /\ DOMAIN m = Elements(q)
  BY DEF Sound, IsOutbox
<1>3. IsOutbox(p)
  BY <1>1, <1>2 DEF Sound, IsOutbox
<1> HIDE DEF p
<1>4. Coherent(p)
  BY <1>2 DEF Coherent, Unique, Elements
<1> QED BY <1>3, <1>4 DEF Sound, p

(* The facts a sound outbox's ephemeral lane offers.                       *)
LEMMA LaneFacts ==
  ASSUME NEW o, Sound(o)
  PROVE  /\ o.order \in Seq(Key) /\ Unique(o.order) /\ Len(o.order) <= EphemeralCap
         /\ Len(o.order) \in Nat
         /\ o.ephemeral \in [Elements(o.order) -> Frame]
         /\ DOMAIN o.ephemeral = Elements(o.order)
<1>1. o.order \in Seq(Key) /\ o.ephemeral \in [DOMAIN o.ephemeral -> Frame]
  BY DEF Sound, IsOutbox
<1>2. /\ Unique(o.order) /\ Len(o.order) <= EphemeralCap
      /\ DOMAIN o.ephemeral = Elements(o.order)
  BY DEF Sound, Coherent, Unique, Elements
<1> QED BY <1>1, <1>2

(* Dropping the oldest key and its frame keeps the lane coherent and makes *)
(* room for one key.                                                       *)
LEMMA DropOldestSound ==
  ASSUME NEW o, Sound(o), o.order # <<>>
  PROVE  /\ Sound(DropOldest(o))
         /\ Len(DropOldest(o).order) = Len(o.order) - 1
         /\ Elements(DropOldest(o).order) \subseteq Elements(o.order)
<1> DEFINE q == Tail(o.order)
           m == Delete(o.ephemeral, Head(o.order))
<1>1. /\ q \in Seq(Key) /\ Len(q) = Len(o.order) - 1
      /\ Unique(q) /\ Elements(q) = Elements(o.order) \ {Head(o.order)}
  BY LaneFacts, TailUnique
<1>2. m \in [Elements(q) -> Frame]
  BY <1>1, LaneFacts DEF Delete
<1>3. Len(q) <= EphemeralCap
  BY <1>1, LaneFacts, CapAssumption
<1>4. DropOldest(o) = [o EXCEPT !.order = q, !.ephemeral = m]
  BY DEF DropOldest
<1>5. DropOldest(o).order = q
  BY <1>4 DEF Sound, IsOutbox
<1> HIDE DEF q, m
<1>6. Sound([o EXCEPT !.order = q, !.ephemeral = m])
  BY <1>1, <1>2, <1>3, LaneSound
<1> QED BY <1>1, <1>4, <1>5, <1>6

(* A key that is not queued, queued behind the others with its frame.      *)
LEMMA AddKeySound ==
  ASSUME NEW o, Sound(o), NEW key \in Key, key \notin Elements(o.order),
         NEW frame \in Frame, Len(o.order) < EphemeralCap
  PROVE  Sound(AddKey(o, key, frame))
<1> DEFINE q == Append(o.order, key)
           m == Assign(o.ephemeral, key, frame)
<1>1. /\ q \in Seq(Key) /\ Len(q) = Len(o.order) + 1
      /\ Unique(q) /\ Elements(q) = Elements(o.order) \cup {key}
  BY LaneFacts, AppendUnique
<1>2. m \in [Elements(q) -> Frame]
  BY <1>1, LaneFacts DEF Assign
<1>3. Len(q) <= EphemeralCap
  BY <1>1, LaneFacts, CapAssumption
<1>4. AddKey(o, key, frame) = [o EXCEPT !.order = q, !.ephemeral = m]
  BY DEF AddKey
<1> HIDE DEF q, m
<1>5. Sound([o EXCEPT !.order = q, !.ephemeral = m])
  BY <1>1, <1>2, <1>3, LaneSound
<1> QED BY <1>4, <1>5

(* PushEphemeral keeps the queue and the map in agreement in each of its   *)
(* cases: closed, replace in place, evict the oldest key, append.          *)
THEOREM PushEphemeralSound ==
  ASSUME NEW o, Sound(o), NEW key \in Key, NEW frame \in Frame
  PROVE  Sound(PushEphemeral(o, key, frame))
<1>1. ASSUME NEW p, Sound(p)
      PROVE  Sound(Wake(p))
  <2>1. IsOutbox(Wake(p))
    BY <1>1 DEF Sound, IsOutbox, Wake
  <2>2. Coherent(Wake(p))
    BY <1>1 DEF Sound, IsOutbox, Coherent, Wake
  <2> QED BY <2>1, <2>2 DEF Sound
<1>2. CASE o.closed
  BY <1>2 DEF PushEphemeral
<1>3. CASE ~o.closed /\ key \in DOMAIN o.ephemeral
  <2> DEFINE m == Assign(o.ephemeral, key, frame)
             p == [o EXCEPT !.ephemeral = m]
  <2>1. m \in [Elements(o.order) -> Frame]
    BY <1>3, LaneFacts DEF Assign
  <2>2. p = [o EXCEPT !.order = o.order, !.ephemeral = m]
    BY DEF Sound, IsOutbox
  <2>3. PushEphemeral(o, key, frame) = Wake(p)
    BY <1>3 DEF PushEphemeral
  <2> HIDE DEF m
  <2>4. Sound([o EXCEPT !.order = o.order, !.ephemeral = m])
    BY <2>1, LaneFacts, LaneSound
  <2>5. Sound(p) BY <2>2, <2>4
  <2> HIDE DEF p
  <2> QED BY <1>1, <2>3, <2>5
<1>4. CASE ~o.closed /\ key \notin DOMAIN o.ephemeral
  <2> DEFINE p == EvictOldest(o)
  <2>1. /\ Sound(p) /\ Len(p.order) < EphemeralCap
        /\ Elements(p.order) \subseteq Elements(o.order)
    <3>1. CASE Len(o.order) >= EphemeralCap
      <4>1. o.order # <<>> /\ p = DropOldest(o)
        BY <3>1, LaneFacts, CapAssumption DEF EvictOldest
      <4>2. Sound(p) /\ Len(p.order) = Len(o.order) - 1
            /\ Elements(p.order) \subseteq Elements(o.order)
        BY <4>1, DropOldestSound
      <4>3. Len(o.order) <= EphemeralCap /\ Len(o.order) \in Nat
        BY LaneFacts
      <4> HIDE DEF p
      <4> QED BY <4>2, <4>3, CapAssumption
    <3>2. CASE ~(Len(o.order) >= EphemeralCap)
      BY <3>2, LaneFacts, CapAssumption DEF EvictOldest
    <3> QED BY <3>1, <3>2
  <2>2. PushEphemeral(o, key, frame) = Wake(AddKey(p, key, frame))
    BY <1>4 DEF PushEphemeral
  <2> HIDE DEF p
  <2>3. key \notin Elements(p.order)
    BY <1>4, <2>1, LaneFacts
  <2>4. Sound(AddKey(p, key, frame))
    BY <2>1, <2>3, AddKeySound
  <2> QED BY <1>1, <2>2, <2>4
<1> QED BY <1>2, <1>3, <1>4

(* Pop keeps an outbox sound, and what it returns is a frame.              *)
THEOREM PopSound ==
  ASSUME NEW o, Sound(o), ~IsEmpty(o)
  PROVE  Sound(PopRest(o)) /\ PopFrame(o) \in Frame
<1>1. CASE o.control # <<>>
  <2>1. Tail(o.control) \in Seq(Frame) /\ Head(o.control) \in Frame
    BY <1>1 DEF Sound, IsOutbox
  <2> QED BY <1>1, <2>1, ControlSound DEF PopRest, PopFrame
<1>2. CASE o.control = <<>> /\ o.document # <<>>
  <2>1. Tail(o.document) \in Seq(Frame) /\ Head(o.document) \in Frame
    BY <1>2 DEF Sound, IsOutbox
  <2> QED BY <1>2, <2>1, DocumentSound DEF PopRest, PopFrame
<1>3. CASE o.control = <<>> /\ o.document = <<>>
  <2>1. o.order # <<>>
    BY <1>3 DEF IsEmpty
  <2>2. o.ephemeral[Head(o.order)] \in Frame
    BY <2>1, LaneFacts, TailUnique
  <2>3. PopRest(o) = DropOldest(o) /\ PopFrame(o) = o.ephemeral[Head(o.order)]
    BY <1>3 DEF PopRest, PopFrame
  <2> QED BY <2>1, <2>2, <2>3, DropOldestSound
<1> QED BY <1>1, <1>2, <1>3
-----------------------------------------------------------------------------
(* The frames a session builds are frames.                                 *)
LEMMA FrameTypes ==
  /\ Pong \in Frame
  /\ \A n \in Nat : /\ Event(n) \in Frame /\ Ack(n) \in Frame /\ ErrorFrame(n) \in Frame
                    /\ Resync(n) \in Frame /\ Ephemeral(n) \in Frame
  BY DEF Frame, FrameType, Pong, Event, Ack, ErrorFrame, Resync, Ephemeral

(* A replay is a sequence of frames.                                       *)
LEMMA ReplayTypes ==
  ASSUME deltaFrom \in Nat, NEW frames \in Replays
  PROVE  frames \in Seq(Frame)
<1>1. PICK n \in 0..MaxSeq : frames \in [1..n -> {Event(seq) : seq \in deltaFrom + 1..MaxSeq}]
  BY DEF Replays
<1>2. \A seq \in deltaFrom + 1..MaxSeq : Event(seq) \in Frame
  BY BoundAssumption, FrameTypes
<1>3. \A i \in 1..n : frames[i] \in Frame
  BY <1>1, <1>2
<1>4. n \in Nat /\ frames \in [1..n -> Frame]
  BY <1>1, <1>3, BoundAssumption
<1> QED BY <1>4

(* The state other than the outbox, and that the writer starts only after  *)
(* the handshake: Prepend finds no frame in its hands.                     *)
Rest ==
    /\ reader \in ReaderState /\ writer \in WriterState /\ hub \in HubState
    /\ lastSeq \in Nat /\ resyncFrom \in Nat /\ deltaFrom \in Nat
    /\ held \in Seq(Frame) /\ Len(held) = (IF writer = "write" THEN 1 ELSE 0)
    /\ live \in SUBSET (1..MaxSeq)
    /\ requests \in Nat /\ controls \in Nat /\ version \in [Key -> Nat]
    /\ accepted \in Seq(Frame) /\ written \in Seq(Frame)
    /\ reader \in {"welcome", "replay"} => writer = "off" /\ written = <<>>

Typed == Sound(ob) /\ Rest

(* The type invariant and the coherence of the ephemeral lane are          *)
(* inductive together.                                                     *)
LEMMA TypedInit == Init => Typed
<1> SUFFICES ASSUME Init PROVE Typed
  OBVIOUS
<1>1. Sound(ob)
  BY NewOutboxSound DEF Init
<1>2. Rest
  BY DEF Init, Rest, ReaderState, WriterState, HubState
<1> QED BY <1>1, <1>2 DEF Typed

(* Every step of the reader, the writer or the hub keeps it.               *)
LEMMA TypedStep == Typed /\ [Next]_vars => Typed'
<1> SUFFICES ASSUME Typed, [Next]_vars PROVE Typed'
  OBVIOUS
<1> USE DEF Typed
<1>1. ASSUME NEW from \in 0..MaxSeq, Welcome(from) PROVE Typed'
  BY <1>1, BoundAssumption DEF Welcome, Rest, ReaderState
<1>2. CASE WelcomeFails
  <2>1. Sound(ob)' BY <1>2, FlagsSound DEF WelcomeFails, Leave
  <2>2. Rest' BY <1>2 DEF WelcomeFails, Leave, Rest, ReaderState, HubState, envVars
  <2> QED BY <2>1, <2>2
<1>3. ASSUME NEW frames \in Replays, Prepend(frames) PROVE Typed'
  <2>1. Sound(ob)'
    <3>1. frames \in Seq(Frame) BY ReplayTypes DEF Rest
    <3> QED BY <1>3, <3>1, FlagsSound, PrependDocumentSound DEF Prepend, Leave
  <2>2. Rest'
    BY <1>3 DEF Prepend, Leave, Rest, ReaderState, WriterState, HubState, envVars
  <2> QED BY <2>1, <2>2
<1>4. ASSUME NEW answer \in {Pong, ErrorFrame(0)}, ReadControl(answer) PROVE Typed'
  <2>1. Sound(ob)' BY <1>4, FrameTypes, PushControlSound DEF ReadControl
  <2>2. Rest' BY <1>4 DEF ReadControl, Rest
  <2> QED BY <2>1, <2>2
<1>5. ASSUME NEW request \in 1..MaxRequest, NEW reply \in {Ack(request), ErrorFrame(request)},
             HandleIntent(reply)
      PROVE  Typed'
  <2>1. reply \in Frame /\ reply.n \in Nat
    <3>1. request \in Nat BY BoundAssumption
    <3>2. reply \in Frame BY <3>1, FrameTypes
    <3> QED BY <3>2 DEF Frame
  <2>2. Sound(ob)' BY <1>5, <2>1, PushDocumentSound DEF HandleIntent
  <2>3. Append(accepted, reply) \in Seq(Frame) BY <2>1 DEF Rest
  <2>4. Rest' BY <1>5, <2>1, <2>3 DEF HandleIntent, Rest
  <2> QED BY <2>2, <2>4
<1>6. CASE ReadFails
  BY <1>6 DEF ReadFails, Rest, ReaderState, envVars
<1>7. CASE CloseOutbox
  <2>1. Sound(ob)' BY <1>7, FlagsSound DEF CloseOutbox
  <2>2. Rest' BY <1>7 DEF CloseOutbox, Rest, ReaderState, envVars
  <2> QED BY <2>1, <2>2
<1>8. CASE Finish
  <2>1. Sound(ob)' BY <1>8, FlagsSound DEF Finish, Leave
  <2>2. Rest' BY <1>8 DEF Finish, Leave, Rest, ReaderState, HubState, envVars
  <2> QED BY <2>1, <2>2
<1>9. CASE PopNext
  <2>1. Sound(ob)' /\ PopFrame(ob) \in Frame BY <1>9, PopSound DEF PopNext
  <2>2. PopFrame(ob).n \in Nat BY <2>1 DEF Frame
  <2>3. <<PopFrame(ob)>> \in Seq(Frame) /\ Len(<<PopFrame(ob)>>) = 1 BY <2>1
  <2>4. Rest' BY <1>9, <2>2, <2>3 DEF PopNext, Rest, WriterState, envVars
  <2> QED BY <2>1, <2>4
<1>10. CASE PopEmpty \/ CheckClosed \/ Cancelled
  BY <1>10 DEF PopEmpty, CheckClosed, Cancelled, Rest, WriterState, envVars
<1>11. CASE Write \/ WriteFails \/ EncodeFails
  <2>1. written \o held \in Seq(Frame) /\ <<>> \in Seq(Frame) /\ Len(<<>>) = 0
    BY DEF Rest
  <2>2. /\ writer = "write" /\ ob' = ob /\ held' = <<>> /\ writer' \in {"pop", "done"}
        /\ (written' = written \/ written' = written \o held)
        /\ UNCHANGED <<reader, hub, lastSeq, resyncFrom, deltaFrom, live, requests,
                        controls, version, accepted>>
    BY <1>11 DEF Write, WriteFails, EncodeFails, envVars
  <2>3. written' \in Seq(Frame) BY <2>1, <2>2 DEF Rest
  <2>4. Rest' BY <2>1, <2>2, <2>3 DEF Rest, WriterState
  <2> QED BY <2>2, <2>4
<1>12. CASE Wakeup
  <2>1. Sound(ob)' BY <1>12, FlagsSound DEF Wakeup
  <2>2. Rest' BY <1>12 DEF Wakeup, Rest, WriterState, envVars
  <2> QED BY <2>1, <2>2
<1>13. ASSUME NEW seq \in 1..MaxSeq, DeliverEvent(seq) PROVE Typed'
  <2>1. Event(seq) \in Frame BY BoundAssumption, FrameTypes
  <2>2. Sound(ob)' BY <1>13, <2>1, PushDocumentSound DEF DeliverEvent
  <2>3. Rest' BY <1>13 DEF DeliverEvent, DropOn, Rest, HubState
  <2> QED BY <2>2, <2>3
<1>14. ASSUME NEW key \in Key, DeliverEphemeral(key) PROVE Typed'
  <2>1. version[key] + 1 \in Nat BY DEF Rest
  <2>2. Sound(ob)' BY <1>14, <2>1, FrameTypes, PushEphemeralSound DEF DeliverEphemeral
  <2>3. Rest' BY <1>14, <2>1 DEF DeliverEphemeral, DropOn, Rest, HubState
  <2> QED BY <2>2, <2>3
<1>15. CASE ReadLastSeq \/ WorldCloses
  <2>1. ob' = ob BY <1>15 DEF ReadLastSeq, WorldCloses
  <2>2. Rest'
    <3>1. CASE ReadLastSeq BY <3>1 DEF ReadLastSeq, Rest, HubState, envVars
    <3>2. CASE WorldCloses BY <3>2 DEF WorldCloses, Rest, HubState, envVars
    <3> QED BY <1>15, <3>1, <3>2
  <2> QED BY <2>1, <2>2
<1>16. CASE PushResync
  <2>1. Sound(ob)' BY <1>16, FrameTypes, PushControlSound DEF PushResync, Rest
  <2>2. Rest' BY <1>16 DEF PushResync, Rest, HubState, envVars
  <2> QED BY <2>1, <2>2
<1>17. CASE CloseSession
  <2>1. Sound(ob)' BY <1>17, FlagsSound DEF CloseSession
  <2>2. Rest' BY <1>17 DEF CloseSession, Rest, HubState, envVars
  <2> QED BY <2>1, <2>2
<1>18. CASE UNCHANGED vars
  BY <1>18 DEF vars, envVars, Rest
<1> QED
  BY <1>1, <1>2, <1>3, <1>4, <1>5, <1>6, <1>7, <1>8, <1>9, <1>10, <1>11, <1>12,
     <1>13, <1>14, <1>15, <1>16, <1>17, <1>18 DEF Next, ReaderNext, WriterNext, HubNext

(* Type correctness of a session.                                          *)
THEOREM SessionTyped == Spec => []TypeOK
<1>1. Typed => TypeOK
  BY DEF Typed, Rest, Sound, TypeOK
<1> QED BY <1>1, TypedInit, TypedStep, PTL DEF Spec

(* The queue and the map of the ephemeral lane always agree, and the lane  *)
(* never exceeds its cap, whatever the reader, the writer and the hub do   *)
(* to the outbox.                                                          *)
THEOREM SessionEphemeralCoherent == Spec => []EphemeralCoherent
<1>1. Typed => EphemeralCoherent
  BY DEF Typed, Sound, EphemeralCoherent
<1> QED BY <1>1, TypedInit, TypedStep, PTL DEF Spec
-----------------------------------------------------------------------------
(* Whoever changes what the writer looks at leaves a wake-up in the        *)
(* channel.                                                                *)
Wakes(o, p) ==
    \/ p.signal
    \/ /\ p.control = o.control /\ p.document = o.document /\ p.order = o.order
       /\ p.closed = o.closed /\ p.signal = o.signal

(* Every operation of the reader and of the hub on the outbox wakes the    *)
(* writer, or leaves it nothing new to see.                                *)
LEMMA PushesWake ==
  ASSUME NEW o, Sound(o)
  PROVE  /\ \A f \in Frame : Wakes(o, PushControl(o, f)) /\ Wakes(o, PushDocument(o, f))
         /\ \A k \in Key, f \in Frame : Wakes(o, PushEphemeral(o, k, f))
         /\ \A s \in Seq(Frame) : Wakes(o, PrependDocument(o, s))
         /\ Wakes(o, Close(o))
<1>1. \A f \in Frame : Wakes(o, PushControl(o, f)) /\ Wakes(o, PushDocument(o, f))
  BY DEF Sound, IsOutbox, Wakes, PushControl, PushDocument, Wake
<1>2. \A k \in Key, f \in Frame : Wakes(o, PushEphemeral(o, k, f))
  BY DEF Sound, IsOutbox, Wakes, PushEphemeral, Wake, AddKey, EvictOldest, DropOldest
<1>3. (\A s \in Seq(Frame) : Wakes(o, PrependDocument(o, s))) /\ Wakes(o, Close(o))
  BY DEF Sound, IsOutbox, Wakes, PrependDocument, Close, Wake
<1> QED BY <1>1, <1>2, <1>3

(* A reader or hub step cannot make a parked writer miss work.             *)
LEMMA WakesKeeps ==
  ASSUME NoLostWakeup, Wakes(ob, ob'), writer' = writer \/ writer' = "pop"
  PROVE  NoLostWakeup'
  BY DEF NoLostWakeup, Wakes, IsEmpty

(* Neither can a step of the writer itself.                                *)
LEMMA WakeupStep == Typed /\ NoLostWakeup /\ [Next]_vars => NoLostWakeup'
<1> SUFFICES ASSUME Typed, NoLostWakeup, [Next]_vars PROVE NoLostWakeup'
  OBVIOUS
<1> USE DEF Typed
<1>1. ASSUME ob' = ob PROVE Wakes(ob, ob')
  BY <1>1 DEF Wakes
<1>2. ASSUME NEW from \in 0..MaxSeq, Welcome(from) PROVE NoLostWakeup'
  BY <1>1, <1>2, WakesKeeps DEF Welcome
<1>3. CASE WelcomeFails \/ CloseOutbox \/ Finish \/ CloseSession
  BY <1>3, PushesWake, WakesKeeps DEF WelcomeFails, CloseOutbox, Finish, CloseSession, Leave
<1>4. ASSUME NEW frames \in Replays, Prepend(frames) PROVE NoLostWakeup'
  <2>1. frames \in Seq(Frame) BY ReplayTypes DEF Rest
  <2> QED BY <1>4, <2>1, PushesWake, WakesKeeps DEF Prepend, Leave
<1>5. ASSUME NEW answer \in {Pong, ErrorFrame(0)}, ReadControl(answer) PROVE NoLostWakeup'
  <2>1. answer \in Frame BY FrameTypes
  <2> QED BY <1>5, <2>1, PushesWake, WakesKeeps DEF ReadControl
<1>6. ASSUME NEW request \in 1..MaxRequest, NEW reply \in {Ack(request), ErrorFrame(request)},
             HandleIntent(reply)
      PROVE  NoLostWakeup'
  <2>1. request \in Nat BY BoundAssumption
  <2>2. reply \in Frame BY <2>1, FrameTypes
  <2> QED BY <1>6, <2>2, PushesWake, WakesKeeps DEF HandleIntent
<1>7. CASE ReadFails \/ ReadLastSeq \/ WorldCloses \/ Write
  BY <1>1, <1>7, WakesKeeps DEF ReadFails, ReadLastSeq, WorldCloses, Write
<1>8. CASE PopNext
  BY <1>8 DEF PopNext, NoLostWakeup
<1>9. CASE PopEmpty
  BY <1>9 DEF PopEmpty, NoLostWakeup, IsEmpty
<1>10. CASE CheckClosed
  BY <1>10 DEF CheckClosed, NoLostWakeup, IsEmpty
<1>11. CASE WriteFails \/ EncodeFails \/ Wakeup \/ Cancelled
  BY <1>11 DEF WriteFails, EncodeFails, Wakeup, Cancelled, NoLostWakeup
<1>12. ASSUME NEW seq \in 1..MaxSeq, DeliverEvent(seq) PROVE NoLostWakeup'
  <2>1. Event(seq) \in Frame BY BoundAssumption, FrameTypes
  <2> QED BY <1>12, <2>1, PushesWake, WakesKeeps DEF DeliverEvent
<1>13. ASSUME NEW key \in Key, DeliverEphemeral(key) PROVE NoLostWakeup'
  <2>1. version[key] + 1 \in Nat BY DEF Rest
  <2> QED BY <1>13, <2>1, FrameTypes, PushesWake, WakesKeeps DEF DeliverEphemeral
<1>14. CASE PushResync
  <2>1. Resync(resyncFrom) \in Frame BY FrameTypes DEF Rest
  <2> QED BY <1>14, <2>1, PushesWake, WakesKeeps DEF PushResync
<1>15. CASE UNCHANGED vars
  BY <1>1, <1>15, WakesKeeps DEF vars
<1> QED
  BY <1>2, <1>3, <1>4, <1>5, <1>6, <1>7, <1>8, <1>9, <1>10, <1>11, <1>12, <1>13,
     <1>14, <1>15 DEF Next, ReaderNext, WriterNext, HubNext

(* No wake-up is ever lost: a parked writer with something to send, or     *)
(* with a closed outbox to notice, has its signal.  The argument is that   *)
(* each push leaves a signal (PushesWake) and the writer consumes one only *)
(* on its way to another Pop.                                              *)
THEOREM SessionNoLostWakeup == Spec => []NoLostWakeup
<1>1. Init => NoLostWakeup
  BY DEF Init, NoLostWakeup
<1> QED BY <1>1, TypedInit, TypedStep, WakeupStep, PTL DEF Spec
-----------------------------------------------------------------------------
(* The events of s are strictly increasing and within lo + 1 .. hi.        *)
Increasing(s, lo, hi) ==
    /\ \A i \in 1..Len(s) : IsEvent(s[i]) => s[i].n \in lo + 1..hi
    /\ \A i, j \in 1..Len(s) :
          i < j /\ IsEvent(s[i]) /\ IsEvent(s[j]) => s[i].n < s[j].n

(* One more frame: an event above hi moves hi, another frame changes       *)
(* nothing.                                                                *)
LEMMA IncreasingAppend ==
  ASSUME NEW s \in Seq(Frame), NEW lo \in Nat, NEW hi \in Nat, lo <= hi,
         Increasing(s, lo, hi), NEW f \in Frame,
         NEW top, top = (IF IsEvent(f) THEN f.n ELSE hi), IsEvent(f) => f.n > hi
  PROVE  Increasing(s \o <<f>>, lo, top) /\ top \in Nat /\ lo <= top
<1> DEFINE t == s \o <<f>>
<1>1. /\ Len(t) = Len(s) + 1 /\ Len(s) \in Nat /\ t[Len(s) + 1] = f
      /\ \A i \in 1..Len(s) : t[i] = s[i] /\ s[i] \in Frame
  OBVIOUS
<1>2. f.n \in Nat /\ \A i \in 1..Len(s) : s[i].n \in Nat
  <2>1. \A g \in Frame : g.n \in Nat BY DEF Frame
  <2> QED BY <1>1, <2>1
<1>3. top \in Nat /\ hi <= top
  BY <1>2
<1> HIDE DEF t
<1>4. ASSUME NEW i \in 1..Len(t), IsEvent(t[i])
      PROVE  t[i].n \in lo + 1..top
  <2>1. CASE i \in 1..Len(s) BY <1>1, <1>2, <1>3, <1>4, <2>1 DEF Increasing
  <2>2. CASE i = Len(s) + 1 BY <1>1, <1>2, <1>3, <1>4, <2>2
  <2> QED BY <1>1, <2>1, <2>2
<1>5. ASSUME NEW i \in 1..Len(t), NEW j \in 1..Len(t), i < j, IsEvent(t[i]), IsEvent(t[j])
      PROVE  t[i].n < t[j].n
  <2>1. i \in 1..Len(s) BY <1>1, <1>5
  <2>2. CASE j \in 1..Len(s) BY <1>1, <1>5, <2>1, <2>2 DEF Increasing
  <2>3. CASE j = Len(s) + 1
    <3>1. s[i].n \in lo + 1..hi BY <1>1, <1>5, <2>1 DEF Increasing
    <3> QED BY <1>1, <1>2, <1>5, <2>1, <2>3, <3>1
  <2> QED BY <1>1, <2>2, <2>3
<1>6. Increasing(t, lo, top)
  BY <1>4, <1>5 DEF Increasing
<1> QED BY <1>3, <1>6 DEF t

(* A frame that was not written after all leaves the others increasing.    *)
LEMMA IncreasingPrefix ==
  ASSUME NEW s \in Seq(Frame), NEW t \in Seq(Frame), NEW lo, NEW hi,
         Increasing(s \o t, lo, hi)
  PROVE  Increasing(s, lo, hi)
<1>1. /\ Len(s \o t) = Len(s) + Len(t) /\ Len(s) \in Nat /\ Len(t) \in Nat
      /\ \A i \in 1..Len(s) : (s \o t)[i] = s[i] /\ i \in 1..Len(s \o t)
  OBVIOUS
<1> DEFINE w == s \o t
<1> HIDE DEF w
<1>2. \A i \in 1..Len(s) : i \in 1..Len(w) /\ w[i] = s[i]
  BY <1>1 DEF w
<1>3. Increasing(w, lo, hi)
  BY DEF w
<1>4. \A i \in 1..Len(s) : IsEvent(s[i]) => s[i].n \in lo + 1..hi
  BY <1>2, <1>3 DEF Increasing
<1>5. \A i, j \in 1..Len(s) : i < j /\ IsEvent(s[i]) /\ IsEvent(s[j]) => s[i].n < s[j].n
  BY <1>2, <1>3 DEF Increasing
<1> QED BY <1>4, <1>5 DEF Increasing

Ordered == deltaFrom <= lastSeq /\ EventsIncrease

(* The order of what is sent survives every step.                          *)
LEMMA OrderedStep == Typed /\ Ordered /\ [Next]_vars => Ordered'
<1> SUFFICES ASSUME Typed, Ordered, [Next]_vars PROVE Ordered'
  OBVIOUS
<1> USE DEF Typed
<1>1. /\ EventsIncrease <=> Increasing(Sent, deltaFrom, lastSeq)
      /\ EventsIncrease' <=> Increasing(Sent', deltaFrom', lastSeq')
  BY DEF EventsIncrease, Increasing
<1>2. /\ held \in Seq(Frame) /\ written \in Seq(Frame)
      /\ writer # "write" => held = <<>>
  BY DEF Rest
<1>3. ASSUME UNCHANGED <<written, held, lastSeq, deltaFrom>> PROVE Ordered'
  BY <1>3 DEF Ordered, EventsIncrease, Sent
<1>4. ASSUME NEW from \in 0..MaxSeq, Welcome(from) PROVE Ordered'
  <2>1. Sent' = <<>> /\ deltaFrom' = lastSeq' /\ lastSeq' \in Nat
    BY <1>2, <1>4, BoundAssumption DEF Welcome, Rest, Sent
  <2>2. Increasing(<<>>, deltaFrom', lastSeq')
    BY DEF Increasing
  <2> QED BY <1>1, <2>1, <2>2 DEF Ordered
<1>5. CASE PopNext
  <2>1. PopFrame(ob) \in Frame BY <1>5, PopSound DEF PopNext
  <2>2. CASE Stale(PopFrame(ob))
    BY <1>3, <1>5, <2>2 DEF PopNext, envVars
  <2>3. CASE ~Stale(PopFrame(ob))
    <3> DEFINE f == PopFrame(ob)
    <3>1. f.n \in Nat BY <2>1 DEF Frame
    <3>2. held = <<>> /\ Sent = written
      BY <1>2, <1>5 DEF PopNext, Sent
    <3>3. /\ Sent' = written \o <<f>> /\ deltaFrom' = deltaFrom
          /\ lastSeq' = (IF IsEvent(f) THEN f.n ELSE lastSeq)
      BY <1>5, <2>3 DEF PopNext, Sent, envVars
    <3>4. IsEvent(f) => f.n > lastSeq
      BY <2>3, <3>1 DEF Stale, Rest
    <3> HIDE DEF f
    <3>5. lastSeq \in Nat /\ deltaFrom \in Nat /\ deltaFrom <= lastSeq
          /\ Increasing(written, deltaFrom, lastSeq) /\ f \in Frame
      BY <1>1, <2>1, <3>2 DEF Ordered, Rest, f
    <3>6. Increasing(written \o <<f>>, deltaFrom, lastSeq') /\ deltaFrom <= lastSeq'
      BY <1>2, <3>3, <3>4, <3>5, IncreasingAppend
    <3> QED BY <1>1, <3>3, <3>6 DEF Ordered
  <2> QED BY <2>2, <2>3
<1>6. CASE Write
  <2>1. Sent' = Sent /\ UNCHANGED <<lastSeq, deltaFrom>>
    BY <1>2, <1>6 DEF Write, Sent, envVars
  <2> QED BY <1>1, <2>1 DEF Ordered
<1>7. CASE WriteFails \/ EncodeFails
  <2>1. Sent' = written /\ UNCHANGED <<lastSeq, deltaFrom>>
    BY <1>2, <1>7 DEF WriteFails, EncodeFails, Sent, envVars
  <2>2. Increasing(written, deltaFrom, lastSeq)
    BY <1>1, <1>2, IncreasingPrefix DEF Ordered, Sent
  <2> QED BY <1>1, <2>1, <2>2 DEF Ordered
<1>8. CASE \/ WelcomeFails \/ ReadFails \/ CloseOutbox \/ Finish
           \/ PopEmpty \/ CheckClosed \/ Wakeup \/ Cancelled
           \/ ReadLastSeq \/ WorldCloses \/ PushResync \/ CloseSession
  BY <1>3, <1>8 DEF WelcomeFails, ReadFails, CloseOutbox, Finish, PopEmpty, CheckClosed,
     Wakeup, Cancelled, ReadLastSeq, WorldCloses, PushResync, CloseSession, envVars
<1>9. CASE \/ \E frames \in Replays : Prepend(frames)
           \/ \E answer \in {Pong, ErrorFrame(0)} : ReadControl(answer)
           \/ \E request \in 1..MaxRequest :
                 \E reply \in {Ack(request), ErrorFrame(request)} : HandleIntent(reply)
  BY <1>3, <1>9 DEF Prepend, ReadControl, HandleIntent, envVars
<1>10. CASE (\E seq \in 1..MaxSeq : DeliverEvent(seq)) \/ \E key \in Key : DeliverEphemeral(key)
  BY <1>3, <1>10 DEF DeliverEvent, DeliverEphemeral
<1>11. CASE UNCHANGED vars
  BY <1>3, <1>11 DEF vars, envVars
<1> QED
  BY <1>4, <1>5, <1>6, <1>7, <1>8, <1>9, <1>10, <1>11
     DEF Next, ReaderNext, WriterNext, HubNext

(* No session is sent an event twice or out of order, for any replay, any  *)
(* order of fan-out and any interleaving of reader, writer and hub.        *)
THEOREM SessionEventsIncrease == Spec => []EventsIncrease
<1>1. Init => Ordered
  BY DEF Init, Ordered, EventsIncrease, Sent
<1>2. Ordered => EventsIncrease
  BY DEF Ordered
<1> QED BY <1>1, <1>2, TypedInit, TypedStep, OrderedStep, PTL DEF Spec
-----------------------------------------------------------------------------
(* Only a delivery adds to the ephemeral map, and it adds the newest; no   *)
(* operation opens an outbox again.                                        *)
Shrinks(o, p) ==
    /\ o.closed => p.closed
    /\ DOMAIN p.ephemeral \subseteq DOMAIN o.ephemeral
    /\ \A k \in DOMAIN p.ephemeral : p.ephemeral[k] = o.ephemeral[k]

(* Every operation but PushEphemeral keeps or empties the ephemeral map.   *)
LEMMA OthersShrink ==
  ASSUME NEW o, Sound(o)
  PROVE  /\ \A f \in Frame : Shrinks(o, PushControl(o, f)) /\ Shrinks(o, PushDocument(o, f))
         /\ \A s \in Seq(Frame) : Shrinks(o, PrependDocument(o, s))
         /\ Shrinks(o, Close(o)) /\ Shrinks(o, [o EXCEPT !.signal = FALSE])
         /\ Shrinks(o, DropOldest(o)) /\ Shrinks(o, PopRest(o))
<1>1. \A f \in Frame : Shrinks(o, PushControl(o, f)) /\ Shrinks(o, PushDocument(o, f))
  BY DEF Sound, IsOutbox, Shrinks, PushControl, PushDocument, Wake
<1>2. /\ \A s \in Seq(Frame) : Shrinks(o, PrependDocument(o, s))
      /\ Shrinks(o, Close(o)) /\ Shrinks(o, [o EXCEPT !.signal = FALSE])
  BY DEF Sound, IsOutbox, Shrinks, PrependDocument, Close, Wake
<1>3. Shrinks(o, DropOldest(o))
  BY DEF Sound, IsOutbox, Shrinks, DropOldest, Delete
<1>4. Shrinks(o, PopRest(o))
  BY <1>3 DEF Sound, IsOutbox, Shrinks, PopRest
<1> QED BY <1>1, <1>2, <1>3, <1>4

(* PushEphemeral leaves the new frame under its key and the others alone.  *)
LEMMA PushedIsNewest ==
  ASSUME NEW o, Sound(o), NEW key \in Key, NEW frame \in Frame,
         NEW p, p = PushEphemeral(o, key, frame), ~p.closed
  PROVE  /\ ~o.closed
         /\ \A k \in DOMAIN p.ephemeral :
               IF k = key THEN p.ephemeral[k] = frame
               ELSE k \in DOMAIN o.ephemeral /\ p.ephemeral[k] = o.ephemeral[k]
<1>1. ~o.closed
  BY DEF PushEphemeral
<1>2. CASE key \in DOMAIN o.ephemeral
  <2>1. p.ephemeral = Assign(o.ephemeral, key, frame)
    BY <1>1, <1>2 DEF PushEphemeral, Wake, Sound, IsOutbox
  <2> QED BY <1>1, <2>1 DEF Assign
<1>3. CASE key \notin DOMAIN o.ephemeral
  <2> DEFINE e == EvictOldest(o)
  <2>1. /\ DOMAIN e.ephemeral \subseteq DOMAIN o.ephemeral
        /\ \A k \in DOMAIN e.ephemeral : e.ephemeral[k] = o.ephemeral[k]
    BY OthersShrink DEF Shrinks, EvictOldest
  <2>2. p = Wake(AddKey(e, key, frame))
    BY <1>1, <1>3 DEF PushEphemeral
  <2>3. DOMAIN e = DOMAIN o
    BY DEF EvictOldest, DropOldest
  <2>4. "ephemeral" \in DOMAIN o
    BY DEF Sound, IsOutbox
  <2> HIDE DEF e
  <2>5. p.ephemeral = Assign(e.ephemeral, key, frame)
    BY <2>2, <2>3, <2>4 DEF Wake, AddKey
  <2> QED BY <1>1, <2>1, <2>5 DEF Assign
<1> QED BY <1>2, <1>3

(* What waits on the ephemeral lane stays the newest in every step.        *)
LEMMA NewestStep == Typed /\ NewestWins /\ [Next]_vars => NewestWins'
<1> SUFFICES ASSUME Typed, NewestWins, [Next]_vars PROVE NewestWins'
  OBVIOUS
<1> USE DEF Typed
<1>1. ASSUME Shrinks(ob, ob'), version' = version PROVE NewestWins'
  BY <1>1 DEF NewestWins, Shrinks
<1>2. ASSUME ob' = ob, version' = version PROVE NewestWins'
  BY <1>2 DEF NewestWins
<1>3. ASSUME NEW key \in Key, DeliverEphemeral(key) PROVE NewestWins'
  <2>1. version[key] + 1 \in Nat /\ version \in [Key -> Nat] BY DEF Rest
  <2>2. Ephemeral(version[key] + 1) \in Frame BY <2>1, FrameTypes
  <2>3. SUFFICES ASSUME ~ob'.closed, NEW k \in DOMAIN ob'.ephemeral
                 PROVE  ob'.ephemeral[k].n = version'[k]
    BY DEF NewestWins
  <2>4. /\ ob' = PushEphemeral(ob, key, Ephemeral(version[key] + 1))
        /\ version' = [version EXCEPT ![key] = @ + 1]
    BY <1>3 DEF DeliverEphemeral
  <2>5. ~ob.closed
    BY <2>2, <2>3, <2>4, PushedIsNewest
  <2>6. CASE k = key
    <3>1. ob'.ephemeral[k] = Ephemeral(version[key] + 1)
      BY <2>2, <2>3, <2>4, <2>6, PushedIsNewest
    <3> QED BY <2>1, <2>4, <2>6, <3>1 DEF Ephemeral
  <2>7. CASE k # key
    <3>1. k \in DOMAIN ob.ephemeral /\ ob'.ephemeral[k] = ob.ephemeral[k]
      BY <2>2, <2>3, <2>4, <2>7, PushedIsNewest
    <3>2. k \in Key BY <3>1 DEF Sound, IsOutbox
    <3> QED BY <2>1, <2>4, <2>5, <2>7, <3>1, <3>2 DEF NewestWins
  <2> QED BY <2>6, <2>7
<1>4. ASSUME NEW frames \in Replays, Prepend(frames) PROVE NewestWins'
  <2>1. frames \in Seq(Frame) BY ReplayTypes DEF Rest
  <2> QED BY <1>1, <1>4, <2>1, OthersShrink DEF Prepend, Leave, envVars
<1>5. CASE WelcomeFails \/ CloseOutbox \/ Finish \/ CloseSession \/ Wakeup \/ PopNext
  BY <1>1, <1>5, OthersShrink
     DEF WelcomeFails, CloseOutbox, Finish, CloseSession, Leave, Wakeup, PopNext, envVars
<1>6. ASSUME NEW answer \in {Pong, ErrorFrame(0)}, ReadControl(answer) PROVE NewestWins'
  <2>1. answer \in Frame BY FrameTypes
  <2> QED BY <1>1, <1>6, <2>1, OthersShrink DEF ReadControl
<1>7. ASSUME NEW request \in 1..MaxRequest, NEW reply \in {Ack(request), ErrorFrame(request)},
             HandleIntent(reply)
      PROVE  NewestWins'
  <2>1. request \in Nat BY BoundAssumption
  <2>2. reply \in Frame BY <2>1, FrameTypes
  <2> QED BY <1>1, <1>7, <2>2, OthersShrink DEF HandleIntent
<1>8. ASSUME NEW seq \in 1..MaxSeq, DeliverEvent(seq) PROVE NewestWins'
  <2>1. Event(seq) \in Frame BY BoundAssumption, FrameTypes
  <2> QED BY <1>1, <1>8, <2>1, OthersShrink DEF DeliverEvent
<1>9. CASE PushResync
  <2>1. Resync(resyncFrom) \in Frame BY FrameTypes DEF Rest
  <2> QED BY <1>1, <1>9, <2>1, OthersShrink DEF PushResync, envVars
<1>10. CASE \/ \E from \in 0..MaxSeq : Welcome(from)
            \/ ReadFails \/ PopEmpty \/ Write \/ WriteFails \/ EncodeFails
            \/ CheckClosed \/ Cancelled \/ ReadLastSeq \/ WorldCloses
            \/ UNCHANGED vars
  BY <1>2, <1>10 DEF Welcome, ReadFails, PopEmpty, Write, WriteFails, EncodeFails, CheckClosed,
     Cancelled, ReadLastSeq, WorldCloses, vars, envVars
<1> QED
  BY <1>3, <1>4, <1>5, <1>6, <1>7, <1>8, <1>9, <1>10
     DEF Next, ReaderNext, WriterNext, HubNext

(* Coalescing never leaves an older payload behind: what waits under a key *)
(* of an open session is the last that was delivered for it, for any       *)
(* number of keys, whatever is evicted, replaced or popped meanwhile.      *)
THEOREM SessionNewestWins == Spec => []NewestWins
<1>1. Init => NewestWins
  <2>1. NewOutbox.ephemeral = [k \in {} |-> 0]
    BY DEF NewOutbox
  <2>2. DOMAIN NewOutbox.ephemeral = {}
    BY <2>1
  <2> QED BY <2>2 DEF Init, NewestWins
<1> QED BY <1>1, TypedInit, TypedStep, NewestStep, PTL DEF Spec
-----------------------------------------------------------------------------
(* Resyncs travel on the control lane only.                                *)
NoResync(frames) == \A i \in 1..Len(frames) : frames[i].type # "resync"
Plain(o) ==
    /\ NoResync(o.document)
    /\ \A k \in DOMAIN o.ephemeral : o.ephemeral[k].type # "resync"

(* No operation puts one on another lane.                                  *)
LEMMA PlainKept ==
  ASSUME NEW o, Sound(o), Plain(o)
  PROVE  /\ \A f \in Frame : Plain(PushControl(o, f))
         /\ \A f \in Frame : f.type # "resync" => Plain(PushDocument(o, f))
         /\ \A s \in Seq(Frame) : NoResync(s) => Plain(PrependDocument(o, s))
         /\ Plain(Close(o)) /\ Plain([o EXCEPT !.signal = FALSE])
         /\ ~IsEmpty(o) => Plain(PopRest(o))
<1>1. /\ \A f \in Frame : Plain(PushControl(o, f))
      /\ Plain(Close(o)) /\ Plain([o EXCEPT !.signal = FALSE])
  BY DEF Sound, IsOutbox, Plain, PushControl, Close, Wake
<1>2. ASSUME NEW f \in Frame, f.type # "resync" PROVE Plain(PushDocument(o, f))
  <2>1. NoResync(Append(o.document, f))
    BY <1>2 DEF Sound, IsOutbox, Plain, NoResync
  <2> QED BY <2>1 DEF Sound, IsOutbox, Plain, PushDocument, Wake
<1>3. ASSUME NEW s \in Seq(Frame), NoResync(s) PROVE Plain(PrependDocument(o, s))
  <2> DEFINE d == o.document
  <2>1. d \in Seq(Frame) /\ NoResync(d)
    BY DEF Sound, IsOutbox, Plain
  <2> HIDE DEF d
  <2>2. ASSUME NEW i \in 1..Len(s \o d) PROVE (s \o d)[i].type # "resync"
    <3>1. CASE i \in 1..Len(s) BY <1>3, <2>1, <3>1 DEF NoResync
    <3>2. CASE i \notin 1..Len(s)
      <4>1. i - Len(s) \in 1..Len(d) /\ (s \o d)[i] = d[i - Len(s)]
        BY <2>1, <3>2
      <4> QED BY <2>1, <4>1 DEF NoResync
    <3> QED BY <3>1, <3>2
  <2>3. NoResync(s \o o.document)
    BY <2>2 DEF NoResync, d
  <2> QED BY <2>3 DEF Sound, IsOutbox, Plain, PrependDocument, Wake
<1>4. ASSUME ~IsEmpty(o) PROVE Plain(PopRest(o))
  <2>1. ASSUME o.document # <<>> PROVE NoResync(Tail(o.document))
    <3> DEFINE d == o.document
    <3>1. d \in Seq(Frame) /\ d # <<>> /\ NoResync(d)
      BY <2>1 DEF Sound, IsOutbox, Plain
    <3> HIDE DEF d
    <3>2. ASSUME NEW i \in 1..Len(Tail(d)) PROVE i + 1 \in 1..Len(d) /\ Tail(d)[i] = d[i + 1]
      BY <3>1
    <3>3. NoResync(Tail(d))
      BY <3>1, <3>2 DEF NoResync
    <3> QED BY <3>3 DEF d
  <2>2. CASE o.control # <<>> \/ o.document # <<>>
    BY <2>1, <2>2 DEF Sound, IsOutbox, Plain, PopRest
  <2>3. CASE o.control = <<>> /\ o.document = <<>>
    <3>1. PopRest(o) = DropOldest(o)
      BY <2>3 DEF PopRest
    <3>2. DropOldest(o).document = o.document
      BY DEF DropOldest, Sound, IsOutbox
    <3> QED BY <3>1, <3>2, OthersShrink DEF Shrinks, Plain
  <2> QED BY <2>2, <2>3
<1> QED BY <1>1, <1>2, <1>3, <1>4

(* So no step of a session does.                                           *)
LEMMA PlainStep == Typed /\ Plain(ob) /\ [Next]_vars => Plain(ob)'
<1> SUFFICES ASSUME Typed, Plain(ob), [Next]_vars PROVE Plain(ob')
  OBVIOUS
<1> USE DEF Typed
<1>1. ASSUME NEW frames \in Replays, Prepend(frames) PROVE Plain(ob')
  <2>1. frames \in Seq(Frame) BY ReplayTypes DEF Rest
  <2>2. NoResync(frames)
    BY DEF Replays, NoResync, Event
  <2> QED BY <1>1, <2>1, <2>2, PlainKept DEF Prepend, Leave
<1>2. CASE WelcomeFails \/ CloseOutbox \/ Finish \/ CloseSession \/ Wakeup \/ PopNext
  BY <1>2, PlainKept DEF WelcomeFails, CloseOutbox, Finish, CloseSession, Leave, Wakeup, PopNext
<1>3. ASSUME NEW answer \in {Pong, ErrorFrame(0)}, ReadControl(answer) PROVE Plain(ob')
  BY <1>3, FrameTypes, PlainKept DEF ReadControl
<1>4. ASSUME NEW request \in 1..MaxRequest, NEW reply \in {Ack(request), ErrorFrame(request)},
             HandleIntent(reply)
      PROVE  Plain(ob')
  <2>1. request \in Nat BY BoundAssumption
  <2>2. reply \in Frame BY <2>1, FrameTypes
  <2>3. reply.type # "resync" BY DEF Ack, ErrorFrame
  <2> QED BY <1>4, <2>2, <2>3, PlainKept DEF HandleIntent
<1>5. ASSUME NEW seq \in 1..MaxSeq, DeliverEvent(seq) PROVE Plain(ob')
  <2>1. Event(seq) \in Frame BY BoundAssumption, FrameTypes
  <2>2. Event(seq).type # "resync" BY DEF Event
  <2> QED BY <1>5, <2>1, <2>2, PlainKept DEF DeliverEvent
<1>6. ASSUME NEW key \in Key, DeliverEphemeral(key) PROVE Plain(ob')
  <2> DEFINE f == Ephemeral(version[key] + 1)
  <2>1. version[key] + 1 \in Nat BY DEF Rest
  <2>2. f \in Frame BY <2>1, FrameTypes
  <2>3. f.type # "resync" BY DEF Ephemeral
  <2>4. ob' = PushEphemeral(ob, key, f) BY <1>6 DEF DeliverEphemeral
  <2>5. ob'.document = ob.document
    BY <2>4 DEF PushEphemeral, Wake, AddKey, EvictOldest, DropOldest, Sound, IsOutbox
  <2> HIDE DEF f
  <2>6. CASE ob'.closed
    <3>1. ob.closed => ob' = ob BY <2>4 DEF PushEphemeral
    <3>2. ob.closed
      BY <2>4, <2>6 DEF PushEphemeral, Wake, AddKey, EvictOldest, DropOldest, Sound, IsOutbox
    <3> QED BY <3>1, <3>2
  <2>7. CASE ~ob'.closed
    BY <2>2, <2>3, <2>4, <2>5, <2>7, PushedIsNewest DEF Plain
  <2> QED BY <2>6, <2>7
<1>7. CASE PushResync
  BY <1>7, FrameTypes, PlainKept DEF PushResync, Rest
<1>8. CASE \/ \E from \in 0..MaxSeq : Welcome(from)
           \/ ReadFails \/ PopEmpty \/ Write \/ WriteFails \/ EncodeFails
           \/ CheckClosed \/ Cancelled \/ ReadLastSeq \/ WorldCloses
           \/ UNCHANGED vars
  BY <1>8 DEF Welcome, ReadFails, PopEmpty, Write, WriteFails, EncodeFails, CheckClosed,
     Cancelled, ReadLastSeq, WorldCloses, vars
<1> QED
  BY <1>1, <1>2, <1>3, <1>4, <1>5, <1>6, <1>7, <1>8 DEF Next, ReaderNext, WriterNext, HubNext

(* Where a client may be told to continue: at the beginning of its feed,   *)
(* or after an event that was sent.                                        *)
Known(n) == n > deltaFrom => \E j \in 1..Len(Sent) : Sent[j] = Event(n)
KnownFrames(frames) ==
    \A i \in 1..Len(frames) : frames[i].type = "resync" => Known(frames[i].n)

(* A writer that gave up has dropped the event it held, but then it sends  *)
(* no resync either.  Before the welcome every position is zero.           *)
Positions ==
    /\ ResyncFromIsSent
    /\ reader = "welcome" =>
          /\ lastSeq = 0 /\ resyncFrom = 0
          /\ \A i \in 1..Len(ob.control) :
                ob.control[i].type = "resync" => ob.control[i].n = 0
    /\ writer # "done" =>
          Known(lastSeq) /\ Known(resyncFrom) /\ KnownFrames(ob.control) /\ KnownFrames(held)

(* What does not touch the positions or what was sent keeps them known.    *)
LEMMA PositionsUnchanged ==
  ASSUME Positions, UNCHANGED <<lastSeq, resyncFrom, deltaFrom, held, written>>,
         reader' = "welcome" => reader = "welcome",
         writer' # "done" => writer # "done",
         ob'.control = ob.control
  PROVE  Positions'
BY DEF Positions, ResyncFromIsSent, Known, KnownFrames, Sent

(* Nor does a frame on the control lane that is no resync, or that asks to *)
(* continue from a known position.                                         *)
LEMMA PositionsPush ==
  ASSUME Typed, Positions, UNCHANGED <<lastSeq, resyncFrom, deltaFrom, held, written, writer, reader>>,
         NEW f \in Frame, ob' = PushControl(ob, f), f.type = "resync" => f.n = resyncFrom
  PROVE  Positions'
<1> USE DEF Typed
<1>1. CASE ob.closed
  BY <1>1, PositionsUnchanged DEF PushControl
<1>2. CASE ~ob.closed
  <2> DEFINE c == ob.control
  <2>1. ob'.control = Append(c, f) /\ c \in Seq(Frame)
    BY <1>2 DEF PushControl, Wake, Sound, IsOutbox
  <2> HIDE DEF c
  <2>2. /\ Len(ob'.control) = Len(c) + 1 /\ Len(c) \in Nat
        /\ \A i \in 1..Len(ob'.control) :
              IF i = Len(c) + 1 THEN ob'.control[i] = f
              ELSE i \in 1..Len(c) /\ ob'.control[i] = c[i]
    BY <2>1
  <2>3. \A n : Known(n)' <=> Known(n)
    BY DEF Known, Sent
  <2>4. KnownFrames(c) /\ Known(resyncFrom) => KnownFrames(ob.control)'
    BY <2>2, <2>3 DEF KnownFrames
  <2>5. ResyncFromIsSent'
    BY DEF Positions, ResyncFromIsSent
  <2>6. KnownFrames(held)' <=> KnownFrames(held)
    BY <2>3 DEF KnownFrames
  <2>7. reader' = "welcome" =>
          /\ lastSeq' = 0 /\ resyncFrom' = 0
          /\ \A i \in 1..Len(ob'.control) :
                ob'.control[i].type = "resync" => ob'.control[i].n = 0
    BY <2>2 DEF Positions, c
  <2>8. (Known(lastSeq)' <=> Known(lastSeq)) /\ (Known(resyncFrom)' <=> Known(resyncFrom))
    BY DEF Known, Sent
  <2> QED BY <2>4, <2>5, <2>6, <2>7, <2>8 DEF Positions, c
<1> QED BY <1>1, <1>2

(* Sending one more frame keeps what was known, and makes the sequence of  *)
(* an event known.                                                         *)
LEMMA PositionsPop ==
  ASSUME Typed, Plain(ob), Positions, PopNext
  PROVE  Positions'
<1> USE DEF Typed
<1> DEFINE f == PopFrame(ob)
           c == ob.control
<1>1. f \in Frame /\ c \in Seq(Frame) /\ written \in Seq(Frame) /\ lastSeq \in Nat
  BY PopSound DEF PopNext, Sound, IsOutbox, Rest
<1>2. held = <<>> /\ Sent = written /\ writer = "pop" /\ reader # "welcome"
  BY DEF PopNext, Rest, Sent
<1>3. Known(lastSeq) /\ Known(resyncFrom) /\ KnownFrames(c)
  BY <1>2 DEF Positions
<1>4. (f.type = "resync" => Known(f.n)) /\ KnownFrames(ob'.control)
  <2>1. CASE c # <<>>
    <3>1. f = c[1] /\ ob'.control = Tail(c)
      BY <1>1, <2>1 DEF PopNext, PopFrame, PopRest, Sound, IsOutbox
    <3> HIDE DEF f, c
    <3>2. /\ 1 \in 1..Len(c)
          /\ \A i \in 1..Len(Tail(c)) : i + 1 \in 1..Len(c) /\ Tail(c)[i] = c[i + 1]
      BY <1>1, <2>1
    <3> QED BY <1>3, <3>1, <3>2 DEF KnownFrames
  <2>2. CASE c = <<>> /\ ob.document # <<>>
    <3>1. f = Head(ob.document) /\ ob'.control = c
      BY <2>2 DEF PopNext, PopFrame, PopRest, Sound, IsOutbox
    <3>2. ob.document \in Seq(Frame)
      BY DEF Sound, IsOutbox
    <3>3. Head(ob.document).type # "resync"
      BY <2>2, <3>2 DEF Plain, NoResync
    <3> QED BY <1>3, <3>1, <3>3
  <2>3. CASE c = <<>> /\ ob.document = <<>>
    <3>1. f = ob.ephemeral[Head(ob.order)] /\ ob'.control = c /\ ob.order # <<>>
      BY <2>3 DEF PopNext, PopFrame, PopRest, IsEmpty, DropOldest, Sound, IsOutbox
    <3>2. Head(ob.order) \in DOMAIN ob.ephemeral
      BY <3>1, LaneFacts, TailUnique
    <3> QED BY <1>3, <3>1, <3>2 DEF Plain
  <2> QED BY <2>1, <2>2, <2>3
<1>5. UNCHANGED <<written, deltaFrom, resyncFrom, reader>> /\ ResyncFromIsSent'
  BY DEF PopNext, envVars, Positions, ResyncFromIsSent
<1>6. CASE Stale(f)
  <2>1. UNCHANGED <<writer, held, lastSeq>>
    BY <1>6 DEF PopNext
  <2>2. \A n : Known(n)' <=> Known(n)
    BY <1>5, <2>1 DEF Known, Sent
  <2>3. KnownFrames(ob.control)' /\ KnownFrames(held)'
    BY <1>2, <1>4, <2>1, <2>2 DEF KnownFrames
  <2>4. Known(lastSeq)' /\ Known(resyncFrom)'
    BY <1>3, <1>5, <2>1 DEF Known, Sent
  <2> QED BY <1>2, <1>5, <2>3, <2>4 DEF Positions
<1>7. CASE ~Stale(f)
  <2>1. /\ held' = <<f>> /\ Sent' = written \o <<f>>
        /\ lastSeq' = (IF IsEvent(f) THEN f.n ELSE lastSeq)
    BY <1>7, <1>5 DEF PopNext, Sent
  <2> HIDE DEF f, c
  <2>2. /\ Len(Sent') = Len(written) + 1 /\ Len(written) \in Nat /\ Sent'[Len(written) + 1] = f
        /\ \A j \in 1..Len(written) : Sent'[j] = written[j]
    BY <1>1, <2>1
  <2>3. \A n : Known(n) => Known(n)'
    BY <1>2, <1>5, <2>2 DEF Known
  <2>4. IsEvent(f) => f = Event(f.n)
    BY <1>1 DEF IsEvent, Event, Frame
  <2>5. Known(lastSeq)'
    <3>1. CASE IsEvent(f)
      <4>1. Len(written) + 1 \in 1..Len(Sent')
        BY <2>2
      <4> QED BY <2>1, <2>2, <2>4, <3>1, <4>1 DEF Known
    <3>2. CASE ~IsEvent(f)
      <4>1. lastSeq' = lastSeq BY <2>1, <3>2
      <4> QED BY <1>2, <1>3, <1>5, <2>2, <4>1 DEF Known
    <3> QED BY <3>1, <3>2
  <2>6. Known(resyncFrom)'
    BY <1>2, <1>3, <1>5, <2>2 DEF Known
  <2>7. KnownFrames(ob.control)' /\ KnownFrames(held)'
    BY <1>4, <2>1, <2>3 DEF KnownFrames
  <2> QED BY <1>2, <1>5, <2>5, <2>6, <2>7 DEF Positions
<1> QED BY <1>6, <1>7

(* Handing the frame to the connection, or giving it up, keeps the         *)
(* positions known.                                                        *)
LEMMA PositionsWrite ==
  ASSUME Typed, Positions, Write \/ WriteFails \/ EncodeFails
  PROVE  Positions'
<1> USE DEF Typed
<1>1. /\ writer = "write" /\ reader # "welcome" /\ held' = <<>>
      /\ UNCHANGED <<ob, lastSeq, resyncFrom, deltaFrom, reader>>
      /\ written \in Seq(Frame) /\ held \in Seq(Frame) /\ Len(held) = 1
  BY DEF Write, WriteFails, EncodeFails, envVars, Rest
<1>2. Known(lastSeq) /\ Known(resyncFrom) /\ KnownFrames(ob.control) /\ KnownFrames(held)
  BY <1>1 DEF Positions
<1>3. /\ Len(Sent) = Len(written) + 1 /\ Len(written) \in Nat
      /\ Sent[Len(written) + 1] = held[1]
      /\ \A i \in 1..Len(written) : Sent[i] = written[i]
  <2> DEFINE w == written
             h == held
  <2>1. w \in Seq(Frame) /\ h \in Seq(Frame) /\ Len(h) = 1
    BY <1>1
  <2> HIDE DEF w, h
  <2>2. /\ Len(w \o h) = Len(w) + 1 /\ Len(w) \in Nat /\ (w \o h)[Len(w) + 1] = h[1]
        /\ \A i \in 1..Len(w) : (w \o h)[i] = w[i]
    BY <2>1, ConcatProperties
  <2> QED BY <2>2 DEF Sent, w, h
<1>4. KnownFrames(held)'
  BY <1>1 DEF KnownFrames
<1>5. ASSUME \A n : Known(n) => Known(n)'
      PROVE  (Known(lastSeq) /\ Known(resyncFrom) /\ KnownFrames(ob.control))'
  <2>1. Known(lastSeq)' /\ Known(resyncFrom)'
    BY <1>1, <1>2, <1>5 DEF Known
  <2> QED BY <1>1, <1>2, <1>5, <2>1 DEF KnownFrames
<1>6. CASE Write
  <2>1. written' = Sent /\ Sent' = Sent
    BY <1>1, <1>6 DEF Write, Sent
  <2>3. ASSUME NEW i \in 1..Len(Sent), Sent[i].type = "resync", Sent[i].n > deltaFrom
        PROVE  \E j \in 1..i : Sent[j] = Event(Sent[i].n)
    <3>1. CASE i \in 1..Len(written)
      <4>1. PICK j \in 1..i : written[j] = Event(written[i].n)
        BY <1>3, <2>3, <3>1 DEF Positions, ResyncFromIsSent
      <4>2. j \in 1..Len(written)
        BY <1>3, <3>1
      <4> QED BY <1>3, <3>1, <4>1, <4>2
    <3>2. CASE i = Len(Sent)
      <4>1. Known(Sent[i].n)
        BY <1>1, <1>2, <1>3, <2>3, <3>2 DEF KnownFrames
      <4> QED BY <2>3, <3>2, <4>1 DEF Known
    <3> QED BY <1>3, <3>1, <3>2
  <2>4. ResyncFromIsSent'
    BY <1>1, <2>1, <2>3 DEF ResyncFromIsSent
  <2>5. \A n : Known(n) => Known(n)'
    BY <1>1, <2>1 DEF Known
  <2> QED BY <1>1, <1>4, <1>5, <2>4, <2>5 DEF Positions
<1>7. CASE WriteFails
  <2>1. ResyncFromIsSent' /\ writer' = "done"
    BY <1>1, <1>7 DEF WriteFails, Positions, ResyncFromIsSent
  <2> QED BY <1>1, <2>1 DEF Positions
<1>8. CASE EncodeFails
  <2>1. Sent' = written /\ written' = written /\ held[1].type = "ephemeral"
    BY <1>1, <1>8 DEF EncodeFails, Sent
  <2>3. \A n : held[1] # Event(n)
    BY <2>1 DEF Event
  <2>4. ASSUME NEW n, Known(n) PROVE Known(n)'
    <3>1. ASSUME NEW j \in 1..Len(Sent), Sent[j] = Event(n)
          PROVE  j \in 1..Len(written) /\ written[j] = Event(n)
      BY <1>3, <2>3, <3>1
    <3> QED BY <1>1, <2>1, <2>4, <3>1 DEF Known
  <2>5. ResyncFromIsSent'
    BY <1>1, <2>1 DEF Positions, ResyncFromIsSent
  <2> QED BY <1>1, <1>4, <1>5, <2>4, <2>5 DEF Positions
<1> QED BY <1>6, <1>7, <1>8

(* The positions stay known in every step.                                 *)
LEMMA PositionsStep == Typed /\ Plain(ob) /\ Positions /\ [Next]_vars => Positions'
<1> SUFFICES ASSUME Typed, Plain(ob), Positions, [Next]_vars PROVE Positions'
  OBVIOUS
<1> USE DEF Typed
<1>1. /\ \A f : PushDocument(ob, f).control = ob.control
      /\ \A s : PrependDocument(ob, s).control = ob.control
      /\ \A k, f : PushEphemeral(ob, k, f).control = ob.control
      /\ Close(ob).control = ob.control /\ [ob EXCEPT !.signal = FALSE].control = ob.control
  BY DEF Sound, IsOutbox, PushDocument, PrependDocument, PushEphemeral, Close, Wake, AddKey,
     EvictOldest, DropOldest
<1>2. ASSUME NEW from \in 0..MaxSeq, Welcome(from) PROVE Positions'
  <2>1. /\ writer = "off" /\ held = <<>> /\ written = <<>> /\ from \in Nat
    BY <1>2, BoundAssumption DEF Welcome, Rest
  <2>2. /\ lastSeq' = from /\ deltaFrom' = from /\ resyncFrom' = 0 /\ held' = <<>>
        /\ written' = <<>> /\ ob' = ob /\ reader' # "welcome"
        /\ \A i \in 1..Len(ob.control) : ob.control[i].type = "resync" => ob.control[i].n = 0
    BY <1>2, <2>1 DEF Welcome, Positions
  <2>3. (Known(lastSeq) /\ Known(resyncFrom) /\ KnownFrames(ob.control) /\ KnownFrames(held))'
    BY <2>1, <2>2 DEF Known, KnownFrames
  <2> QED BY <2>2, <2>3 DEF Positions, ResyncFromIsSent
<1>3. ASSUME NEW frames \in Replays, Prepend(frames) PROVE Positions'
  <2>1. writer = "off" BY <1>3 DEF Prepend, Rest
  <2> QED BY <1>1, <1>3, <2>1, PositionsUnchanged DEF Prepend, Leave, envVars
<1>4. CASE WelcomeFails \/ CloseOutbox \/ Finish
  BY <1>1, <1>4, PositionsUnchanged DEF WelcomeFails, CloseOutbox, Finish, Leave, envVars
<1>5. CASE CloseSession \/ Wakeup
  BY <1>1, <1>5, PositionsUnchanged DEF CloseSession, Wakeup, envVars
<1>6. ASSUME NEW answer \in {Pong, ErrorFrame(0)}, ReadControl(answer) PROVE Positions'
  <2>1. answer \in Frame /\ answer.type # "resync"
    BY FrameTypes DEF Pong, ErrorFrame
  <2> QED BY <1>6, <2>1, PositionsPush DEF ReadControl
<1>7. CASE \/ \E request \in 1..MaxRequest :
                 \E reply \in {Ack(request), ErrorFrame(request)} : HandleIntent(reply)
           \/ \E seq \in 1..MaxSeq : DeliverEvent(seq)
           \/ \E key \in Key : DeliverEphemeral(key)
  BY <1>1, <1>7, PositionsUnchanged DEF HandleIntent, DeliverEvent, DeliverEphemeral
<1>8. CASE PushResync
  <2>1. Resync(resyncFrom) \in Frame /\ Resync(resyncFrom).n = resyncFrom
    BY FrameTypes DEF Rest, Resync
  <2> QED BY <1>8, <2>1, PositionsPush DEF PushResync, envVars
<1>9. CASE ReadLastSeq \/ WorldCloses
  <2>1. /\ UNCHANGED <<ob, reader, writer, lastSeq, held, deltaFrom, written>>
        /\ resyncFrom' \in {0, lastSeq} /\ deltaFrom \in Nat
    BY <1>9 DEF ReadLastSeq, WorldCloses, envVars, Rest
  <2>2. \A n : Known(n)' <=> Known(n)
    BY <2>1 DEF Known, Sent
  <2>3. Known(lastSeq) => Known(lastSeq)' /\ Known(resyncFrom)'
    BY <2>1 DEF Known, Sent
  <2>4. /\ KnownFrames(ob.control) => KnownFrames(ob.control)'
        /\ KnownFrames(held) => KnownFrames(held)'
    BY <2>1, <2>2 DEF KnownFrames
  <2>5. ResyncFromIsSent'
    BY <2>1 DEF Positions, ResyncFromIsSent
  <2> QED BY <2>1, <2>3, <2>4, <2>5 DEF Positions
<1>10. CASE ReadFails \/ PopEmpty \/ CheckClosed \/ Cancelled \/ UNCHANGED vars
  BY <1>10, PositionsUnchanged DEF ReadFails, PopEmpty, CheckClosed, Cancelled, vars, envVars
<1> QED
  BY <1>2, <1>3, <1>4, <1>5, <1>6, <1>7, <1>8, <1>9, <1>10, PositionsPop, PositionsWrite
     DEF Next, ReaderNext, WriterNext, HubNext

(* A resync never asks a client to skip an event, although fanOut reads    *)
(* LastSeq while the writer moves it: the position is where the feed began *)
(* or an event that was written before the resync.                         *)
THEOREM SessionResyncFromIsSent == Spec => []ResyncFromIsSent
<1>1. Init => Plain(ob) /\ Positions
  <2> SUFFICES ASSUME Init PROVE Plain(ob) /\ Positions
    OBVIOUS
  <2>1. /\ ob.ephemeral = [k \in {} |-> 0] /\ ob.document = <<>> /\ ob.control = <<>>
    BY DEF Init, NewOutbox
  <2>2. DOMAIN ob.ephemeral = {}
    BY <2>1
  <2>3. Plain(ob)
    BY <2>1, <2>2 DEF Plain, NoResync
  <2>4. Positions
    BY <2>1 DEF Init, Positions, ResyncFromIsSent, Known, KnownFrames
  <2> QED BY <2>3, <2>4
<1>2. Positions => ResyncFromIsSent
  BY DEF Positions
<1> QED BY <1>1, <1>2, TypedInit, TypedStep, PlainStep, PositionsStep, PTL DEF Spec
-----------------------------------------------------------------------------
(* From here on Zenon is the prover of a step that names no other.         *)
USE ZenonT(30)

(* The replies of one queue come before those of another.                  *)
Before(s, r) == \A a \in Replies(s), b \in Replies(r) : a.n < b.n

(* A queue of one frame, and of none.                                      *)
LEMMA FewReplies ==
  ASSUME NEW f
  PROVE  /\ Replies(<<>>) = {} /\ Rising(<<>>) /\ Rising(<<f>>)
         /\ Replies(<<f>>) = IF IsReply(f) THEN {f} ELSE {}
<1>1. /\ Len(<<>>) = 0 /\ 1..0 = {} /\ Len(<<f>>) = 1 /\ <<f>>[1] = f
      /\ 1..1 = {1} /\ ~(1 < 1)
  BY SMT
<1>2. Replies(<<>>) = {} /\ Rising(<<>>)
  BY <1>1 DEF Replies, Rising
<1>3. \A i \in 1..1 : i = 1
  BY <1>1
<1>4. Rising(<<f>>)
  BY <1>1, <1>3 DEF Rising
<1>5. Replies(<<f>>) = IF IsReply(f) THEN {f} ELSE {}
  BY <1>1 DEF Replies
<1> QED BY <1>2, <1>4, <1>5

(* One queue behind another.                                               *)
LEMMA JoinedReplies ==
  ASSUME NEW s \in Seq(Frame), NEW r \in Seq(Frame)
  PROVE  /\ Replies(s \o r) = Replies(s) \cup Replies(r)
         /\ Rising(s) /\ Rising(r) /\ Before(s, r) => Rising(s \o r)
         /\ Rising(s \o r) => Rising(s)
<1> DEFINE q == s \o r
           a == Len(s)
           b == Len(r)
<1>1. /\ Len(q) = a + b /\ a \in Nat /\ b \in Nat
      /\ \A i \in 1..a + b : q[i] = IF i <= a THEN s[i] ELSE r[i - a]
  BY ConcatProperties, LenProperties
<1> HIDE DEF q, a, b
<1>2. /\ \A i \in 1..a : i \in 1..a + b /\ i <= a
      /\ \A i \in 1..b : a + i \in 1..a + b /\ ~(a + i <= a) /\ (a + i) - a = i
      /\ \A i \in 1..a + b : (i <= a /\ i \in 1..a) \/ (~(i <= a) /\ i - a \in 1..b)
      /\ \A i, j \in 1..a + b : i < j /\ j <= a => i <= a
      /\ \A i, j \in 1..a + b : i < j /\ ~(i <= a) => i - a < j - a
  BY <1>1, SMT
<1>3. ASSUME NEW f \in Replies(q) PROVE f \in Replies(s) \cup Replies(r)
  <2>1. PICK i \in 1..a + b : f = q[i] /\ IsReply(q[i])
    BY <1>1 DEF Replies
  <2>2. CASE i <= a
    BY <1>1, <1>2, <2>1, <2>2 DEF Replies, a
  <2>3. CASE ~(i <= a)
    BY <1>1, <1>2, <2>1, <2>3 DEF Replies, b
  <2> QED BY <2>2, <2>3
<1>4. ASSUME NEW f \in Replies(s) PROVE f \in Replies(q)
  <2>1. PICK i \in 1..a : f = s[i] /\ IsReply(s[i])
    BY DEF Replies, a
  <2>2. i \in 1..Len(q) /\ q[i] = f
    BY <1>1, <1>2, <2>1
  <2> QED BY <2>1, <2>2 DEF Replies
<1>5. ASSUME NEW f \in Replies(r) PROVE f \in Replies(q)
  <2>1. PICK i \in 1..b : f = r[i] /\ IsReply(r[i])
    BY DEF Replies, b
  <2>2. a + i \in 1..Len(q) /\ q[a + i] = f
    BY <1>1, <1>2, <2>1
  <2> QED BY <2>1, <2>2 DEF Replies
<1>6. ASSUME Rising(s), Rising(r), Before(s, r) PROVE Rising(q)
  <2> SUFFICES ASSUME NEW i \in 1..a + b, NEW j \in 1..a + b, i < j, IsReply(q[i]), IsReply(q[j])
               PROVE  q[i].n < q[j].n
    BY <1>1 DEF Rising
  <2>1. CASE j <= a
    <3>1. i <= a /\ i \in 1..a /\ j \in 1..a
      BY <1>2, <2>1
    <3>2. q[i] = s[i] /\ q[j] = s[j]
      BY <1>1, <2>1, <3>1
    <3> QED BY <1>6, <3>1, <3>2 DEF Rising, a
  <2>2. CASE ~(i <= a)
    <3>1. ~(j <= a) /\ i - a \in 1..b /\ j - a \in 1..b /\ i - a < j - a
      BY <1>2, <2>2
    <3>2. q[i] = r[i - a] /\ q[j] = r[j - a]
      BY <1>1, <2>2, <3>1
    <3> QED BY <1>6, <3>1, <3>2 DEF Rising, b
  <2>3. CASE i <= a /\ ~(j <= a)
    <3>1. q[i] = s[i] /\ q[j] = r[j - a] /\ i \in 1..a /\ j - a \in 1..b
      BY <1>1, <1>2, <2>3
    <3>2. q[i] \in Replies(s) /\ q[j] \in Replies(r)
      BY <3>1 DEF Replies, a, b
    <3> QED BY <1>6, <3>2 DEF Before
  <2> QED BY <2>1, <2>2, <2>3
<1>7. Replies(q) = Replies(s) \cup Replies(r)
  BY <1>3, <1>4, <1>5
<1>8. ASSUME Rising(q) PROVE Rising(s)
  BY <1>1, <1>2, <1>8 DEF Rising, a
<1> QED BY <1>6, <1>7, <1>8 DEF q

(* One more frame in a queue.                                              *)
LEMMA AppendedReply ==
  ASSUME NEW s \in Seq(Frame), NEW f \in Frame
  PROVE  /\ Replies(Append(s, f)) = Replies(s) \cup Replies(<<f>>)
         /\ Rising(s) /\ Before(s, <<f>>) => Rising(Append(s, f))
<1>1. Append(s, f) = s \o <<f>> /\ <<f>> \in Seq(Frame)
  BY SMT, AppendIsConcat
<1> QED BY <1>1, JoinedReplies, FewReplies

(* The first frame leaves a queue.                                         *)
LEMMA FirstReply ==
  ASSUME NEW s \in Seq(Frame), s # <<>>
  PROVE  /\ Replies(s) = Replies(<<Head(s)>>) \cup Replies(Tail(s))
         /\ Rising(s) => Rising(Tail(s)) /\ Before(<<Head(s)>>, Tail(s))
<1> DEFINE f == Head(s)
           r == Tail(s)
<1>1. r \in Seq(Frame) /\ f \in Frame /\ Len(r) = Len(s) - 1 /\ \A i \in 1..Len(r) : r[i] = s[i + 1]
  BY HeadTailProperties
<1>2. f = s[1] /\ Len(s) \in Nat \ {0}
  BY SMT
<1>3. <<f>> \in Seq(Frame)
  BY <1>1, SMT
<1> HIDE DEF f, r
<1>4. s = <<f>> \o r
  <2>1. <<f>> \o r \in Seq(Frame) /\ Len(<<f>> \o r) = Len(s)
    BY <1>1, <1>2, <1>3, SMT
  <2> QED BY <1>1, <1>2, SMT DEF f, r
<1>5. Replies(s) = Replies(<<f>>) \cup Replies(r)
  BY <1>1, <1>3, <1>4, JoinedReplies
<1>6. ASSUME Rising(s) PROVE Rising(r) /\ Before(<<f>>, r)
  <2>1. /\ \A i \in 1..Len(r) : i + 1 \in 1..Len(s) /\ 1 < i + 1
        /\ \A i, j \in 1..Len(r) : i < j => i + 1 < j + 1
        /\ 1 \in 1..Len(s)
    BY <1>1, <1>2, SMT
  <2>2. Rising(r)
    BY <1>1, <1>6, <2>1 DEF Rising
  <2>3. ASSUME NEW a \in Replies(<<f>>), NEW b \in Replies(r) PROVE a.n < b.n
    <3>1. a = f /\ IsReply(f)
      BY FewReplies
    <3>2. PICK i \in 1..Len(r) : b = r[i] /\ IsReply(r[i])
      BY DEF Replies
    <3> QED BY <1>1, <1>2, <1>6, <2>1, <3>1, <3>2 DEF Rising
  <2> QED BY <2>2, <2>3 DEF Before
<1> QED BY <1>5, <1>6 DEF f, r

(* Replies travel on the document lane only.                               *)
Quiet(o) ==
    /\ Replies(o.control) = {}
    /\ \A k \in DOMAIN o.ephemeral : ~IsReply(o.ephemeral[k])

(* What an operation on another lane leaves of the document lane, and what *)
(* each operation adds to it or takes from it.                             *)
LEMMA DocumentAfter ==
  ASSUME NEW o, Sound(o)
  PROVE  /\ \A f : PushControl(o, f).document = o.document
         /\ \A k, f : PushEphemeral(o, k, f).document = o.document
         /\ Close(o).document = o.document /\ [o EXCEPT !.signal = FALSE].document = o.document
         /\ \A f : PushDocument(o, f).document =
                      IF DocumentRefused(o) THEN o.document ELSE Append(o.document, f)
         /\ \A s : PrependDocument(o, s).document =
                      IF s = <<>> \/ o.closed THEN o.document ELSE s \o o.document
         /\ PopRest(o).document =
                      IF o.control = <<>> /\ o.document # <<>> THEN Tail(o.document)
                      ELSE o.document
<1>1. o.document \in Seq(Frame) /\ o.control \in Seq(Frame) BY SMT DEF Sound, IsOutbox
<1>2. /\ \A f : PushControl(o, f).document = o.document
      /\ \A k, f : PushEphemeral(o, k, f).document = o.document
      /\ Close(o).document = o.document /\ [o EXCEPT !.signal = FALSE].document = o.document
  BY SMT DEF Sound, IsOutbox, PushControl, PushEphemeral, Close, Wake, AddKey, EvictOldest, DropOldest
<1>3. \A f : PushDocument(o, f).document =
                 IF DocumentRefused(o) THEN o.document ELSE Append(o.document, f)
  BY SMT DEF Sound, IsOutbox, PushDocument, DocumentRefused, Wake
<1>4. \A s : PrependDocument(o, s).document =
                 IF s = <<>> \/ o.closed THEN o.document ELSE s \o o.document
  BY SMT DEF Sound, IsOutbox, PrependDocument, Wake
<1>5. PopRest(o).document =
          IF o.control = <<>> /\ o.document # <<>> THEN Tail(o.document) ELSE o.document
  BY SMT DEF Sound, IsOutbox, PopRest, DropOldest
<1> QED BY <1>2, <1>3, <1>4, <1>5

(* No operation but a push of a reply puts one on the control lane.        *)
LEMMA QuietKept ==
  ASSUME NEW o, Sound(o), Quiet(o)
  PROVE  /\ \A f \in Frame : ~IsReply(f) => Quiet(PushControl(o, f))
         /\ \A f \in Frame : Quiet(PushDocument(o, f))
         /\ \A s \in Seq(Frame) : Quiet(PrependDocument(o, s))
         /\ Quiet(Close(o)) /\ Quiet([o EXCEPT !.signal = FALSE])
         /\ ~IsEmpty(o) => Quiet(PopRest(o))
<1> DEFINE Same(p) == p.control = o.control
<1>1. o.control \in Seq(Frame) BY SMT DEF Sound, IsOutbox
<1>2. ASSUME NEW p, Shrinks(o, p), Replies(p.control) = {} PROVE Quiet(p)
  <2>1. ASSUME NEW k \in DOMAIN p.ephemeral PROVE ~IsReply(p.ephemeral[k])
    BY <1>2 DEF Shrinks, Quiet
  <2> QED BY <1>2, <2>1 DEF Quiet
<1>3. ASSUME NEW p, Shrinks(o, p), Same(p) PROVE Quiet(p)
  BY <1>2, <1>3 DEF Quiet
<1>4. ASSUME NEW f \in Frame, ~IsReply(f) PROVE Quiet(PushControl(o, f))
  <2>1. Shrinks(o, PushControl(o, f)) BY OthersShrink
  <2>2. PushControl(o, f).control = IF o.closed THEN o.control ELSE Append(o.control, f)
    BY SMT DEF Sound, IsOutbox, PushControl, Wake
  <2>3. Replies(Append(o.control, f)) = {}
    BY <1>1, <1>4, AppendedReply, FewReplies DEF Quiet
  <2>4. Replies(PushControl(o, f).control) = {}
    BY <2>2, <2>3 DEF Quiet
  <2> QED BY <1>2, <2>1, <2>4
<1>5. ASSUME NEW f \in Frame PROVE Quiet(PushDocument(o, f))
  <2>1. Same(PushDocument(o, f)) BY SMT DEF Sound, IsOutbox, PushDocument, Wake
  <2> QED BY <1>3, <2>1, OthersShrink
<1>6. ASSUME NEW s \in Seq(Frame) PROVE Quiet(PrependDocument(o, s))
  <2>1. Same(PrependDocument(o, s)) BY SMT DEF Sound, IsOutbox, PrependDocument, Wake
  <2> QED BY <1>3, <2>1, OthersShrink
<1>7. Quiet(Close(o)) /\ Quiet([o EXCEPT !.signal = FALSE])
  <2>1. Same(Close(o)) /\ Same([o EXCEPT !.signal = FALSE])
    BY SMT DEF Sound, IsOutbox, Close, Wake
  <2> QED BY <1>3, <2>1, OthersShrink
<1>8. ASSUME ~IsEmpty(o) PROVE Quiet(PopRest(o))
  <2>1. PopRest(o).control = IF o.control # <<>> THEN Tail(o.control) ELSE o.control
    BY SMT DEF Sound, IsOutbox, PopRest, DropOldest
  <2>2. o.control # <<>> => Replies(Tail(o.control)) = {}
    BY <1>1, FirstReply DEF Quiet
  <2>3. Replies(PopRest(o).control) = {}
    BY <2>1, <2>2 DEF Quiet
  <2> QED BY <1>2, <2>3, OthersShrink
<1> QED BY <1>4, <1>5, <1>6, <1>7, <1>8

(* Every reply a goroutine pushes goes to the document lane.               *)
LEMMA QuietStep == Typed /\ Quiet(ob) /\ [Next]_vars => Quiet(ob)'
<1> SUFFICES ASSUME Typed, Quiet(ob), [Next]_vars PROVE Quiet(ob')
  OBVIOUS
<1> USE DEF Typed
<1>1. ASSUME NEW frames \in Replays, Prepend(frames) PROVE Quiet(ob')
  <2>1. frames \in Seq(Frame) BY ReplayTypes DEF Rest
  <2> QED BY <1>1, <2>1, QuietKept DEF Prepend, Leave
<1>2. CASE WelcomeFails \/ CloseOutbox \/ Finish \/ CloseSession \/ Wakeup \/ PopNext
  BY <1>2, QuietKept DEF WelcomeFails, CloseOutbox, Finish, CloseSession, Leave, Wakeup, PopNext
<1>3. ASSUME NEW answer \in {Pong, ErrorFrame(0)}, ReadControl(answer) PROVE Quiet(ob')
  <2>1. ~IsReply(answer) BY SMT DEF IsReply, Pong, ErrorFrame
  <2>2. answer \in Frame BY SMT, FrameTypes
  <2> QED BY <1>3, <2>1, <2>2, QuietKept DEF ReadControl
<1>4. ASSUME NEW request \in 1..MaxRequest, NEW reply \in {Ack(request), ErrorFrame(request)},
             HandleIntent(reply)
      PROVE  Quiet(ob')
  <2>1. request \in Nat BY BoundAssumption, SMT
  <2>2. reply \in Frame BY <2>1, FrameTypes
  <2> QED BY <1>4, <2>2, QuietKept DEF HandleIntent
<1>5. ASSUME NEW seq \in 1..MaxSeq, DeliverEvent(seq) PROVE Quiet(ob')
  <2>1. Event(seq) \in Frame BY BoundAssumption, FrameTypes, SMT
  <2> QED BY <1>5, <2>1, QuietKept DEF DeliverEvent
<1>6. ASSUME NEW key \in Key, DeliverEphemeral(key) PROVE Quiet(ob')
  <2> DEFINE f == Ephemeral(version[key] + 1)
  <2>1. version[key] + 1 \in Nat BY SMT DEF Rest
  <2>2. f \in Frame BY <2>1, FrameTypes
  <2>3. ~IsReply(f) BY SMT DEF Ephemeral, IsReply
  <2>4. ob' = PushEphemeral(ob, key, f) BY <1>6 DEF DeliverEphemeral
  <2>5. ob'.control = ob.control
    BY <2>4, SMT DEF PushEphemeral, Wake, AddKey, EvictOldest, DropOldest, Sound, IsOutbox
  <2> HIDE DEF f
  <2>6. CASE ob'.closed
    <3>1. ob.closed => ob' = ob BY <2>4 DEF PushEphemeral
    <3>2. ob.closed
      BY <2>4, <2>6, SMT DEF PushEphemeral, Wake, AddKey, EvictOldest, DropOldest, Sound, IsOutbox
    <3> QED BY <3>1, <3>2
  <2>7. CASE ~ob'.closed
    <3>1. /\ ~ob.closed
          /\ \A k \in DOMAIN ob'.ephemeral :
                IF k = key THEN ob'.ephemeral[k] = f
                ELSE k \in DOMAIN ob.ephemeral /\ ob'.ephemeral[k] = ob.ephemeral[k]
      BY <2>2, <2>4, <2>7, PushedIsNewest, SMT
    <3> QED BY <2>3, <2>5, <3>1 DEF Quiet
  <2> QED BY <2>6, <2>7
<1>7. CASE PushResync
  <2>1. Resync(resyncFrom) \in Frame BY FrameTypes DEF Rest
  <2>2. ~IsReply(Resync(resyncFrom)) BY SMT DEF IsReply, Resync
  <2> QED BY <1>7, <2>1, <2>2, QuietKept DEF PushResync
<1>8. CASE \/ \E from \in 0..MaxSeq : Welcome(from)
           \/ ReadFails \/ PopEmpty \/ Write \/ WriteFails \/ EncodeFails
           \/ CheckClosed \/ Cancelled \/ ReadLastSeq \/ WorldCloses
           \/ UNCHANGED vars
  <2>1. ob' = ob
    BY <1>8 DEF Welcome, ReadFails, PopEmpty, Write, WriteFails, EncodeFails, CheckClosed,
       Cancelled, ReadLastSeq, WorldCloses, vars
  <2> QED BY <2>1
<1> QED
  BY <1>1, <1>2, <1>3, <1>4, <1>5, <1>6, <1>7, <1>8 DEF Next, ReaderNext, WriterNext, HubNext

(* What the writer has taken comes before what is queued, and the two      *)
(* together hold the accepted replies.  A new request is above all.        *)
Kept ==
    /\ Rising(accepted) /\ \A a \in Replies(accepted) : a.n <= requests
    /\ writer \notin {"drained", "done"} =>
          /\ Rising(Sent) /\ Rising(ob.document) /\ Before(Sent, ob.document)
          /\ Replies(Sent) \cup Replies(ob.document) = Replies(accepted)

(* A step that leaves the line and the requests alone keeps it.            *)
LEMMA KeptUnchanged ==
  ASSUME Kept, Sent' = Sent, ob'.document = ob.document, UNCHANGED <<accepted, requests>>,
         writer \in {"drained", "done"} => writer' \in {"drained", "done"}
  PROVE  Kept'
<1>1. UNCHANGED <<Replies(Sent), Replies(ob.document), Replies(accepted)>>
  BY DEF Replies
<1>2. UNCHANGED <<Rising(Sent), Rising(ob.document), Rising(accepted)>>
  BY DEF Rising
<1>3. UNCHANGED Before(Sent, ob.document)
  BY <1>1 DEF Before
<1> QED BY <1>1, <1>2, <1>3 DEF Kept

(* The writer takes the first frame of a lane.                             *)
LEMMA KeptPop == ASSUME Typed, Quiet(ob), Kept, PopNext PROVE Kept'
<1> DEFINE f == PopFrame(ob)
           d == ob.document
<1>1. /\ f \in Frame /\ d \in Seq(Frame) /\ written \in Seq(Frame) /\ held = <<>>
      /\ ob.control \in Seq(Frame) /\ <<f>> \in Seq(Frame)
  <2>1. Sound(PopRest(ob)) /\ f \in Frame
    BY PopSound DEF PopNext, Typed
  <2>2. d \in Seq(Frame) /\ ob.control \in Seq(Frame)
    BY SMT DEF Typed, Sound, IsOutbox
  <2>3. writer # "write"
    BY SMT DEF PopNext
  <2>4. written \in Seq(Frame) /\ held = <<>>
    BY <2>3, EmptySeq DEF Typed, Rest
  <2>5. <<f>> \in Seq(Frame)
    BY <2>1, SMT
  <2> QED BY <2>1, <2>2, <2>4, <2>5
<1>2. Sent = written /\ Sent' = (IF Stale(f) THEN written ELSE written \o <<f>>)
  <2>1. written \o <<>> = written
    BY <1>1, SMT
  <2>2. written' = written /\ held' = IF Stale(f) THEN held ELSE <<f>>
    BY DEF PopNext
  <2> QED BY <1>1, <2>1, <2>2 DEF Sent
<1>3. /\ writer = "pop" /\ ob' = PopRest(ob) /\ ~IsEmpty(ob)
      /\ UNCHANGED <<accepted, requests>>
  BY DEF PopNext, envVars
<1>4. ob'.document = IF ob.control = <<>> /\ d # <<>> THEN Tail(d) ELSE d
  BY <1>3, DocumentAfter DEF Typed
<1>5. Stale(f) => ~IsReply(f)
  BY SMT DEF Stale, IsEvent, IsReply
<1>6. /\ Rising(written) /\ Rising(d) /\ Before(written, d)
      /\ Replies(written) \cup Replies(d) = Replies(accepted)
  BY <1>2, <1>3 DEF Kept
<1>7. /\ Replies(written \o <<f>>) = Replies(written) \cup Replies(<<f>>)
      /\ Rising(<<f>>)
      /\ Rising(written) /\ Rising(<<f>>) /\ Before(written, <<f>>) => Rising(written \o <<f>>)
  BY <1>1, JoinedReplies, FewReplies
<1>8. UNCHANGED <<Replies(accepted), Rising(accepted)>>
  BY <1>3 DEF Replies, Rising
<1> DEFINE Line(w, r) == /\ Rising(w) /\ Rising(r) /\ Before(w, r)
                         /\ Replies(w) \cup Replies(r) = Replies(accepted)
<1> HIDE DEF f, d
<1>9. ASSUME Line(Sent', ob'.document) PROVE Kept'
  <2>1. Kept' <=> /\ Rising(accepted)' /\ \A a \in Replies(accepted)' : a.n <= requests'
                  /\ writer' \notin {"drained", "done"} =>
                        /\ Rising(Sent') /\ Rising(ob'.document) /\ Before(Sent', ob'.document)
                        /\ Replies(Sent') \cup Replies(ob'.document) = Replies(accepted)'
    BY DEF Kept, Rising, Replies, Before
  <2> QED BY <1>3, <1>8, <1>9, <2>1 DEF Kept
<1>10. CASE ob.control = <<>> /\ d # <<>>
  <2>1. f = Head(d)
    BY <1>10 DEF PopFrame, f, d
  <2>2. /\ Replies(d) = Replies(<<f>>) \cup Replies(Tail(d))
        /\ Rising(Tail(d)) /\ Before(<<f>>, Tail(d))
    BY <1>1, <1>6, <1>10, <2>1, FirstReply
  <2>3. CASE Stale(f)
    <3>1. Replies(<<f>>) = {}
      BY <1>5, <2>3, FewReplies
    <3>2. Replies(Tail(d)) = Replies(d)
      BY <2>2, <3>1
    <3>3. Line(written, Tail(d))
      BY <1>6, <2>2, <3>2 DEF Before
    <3> QED BY <1>2, <1>4, <1>9, <1>10, <2>3, <3>3
  <2>4. CASE ~Stale(f)
    <3>1. Before(written, <<f>>)
      BY <1>6, <2>2 DEF Before
    <3>2. Before(written \o <<f>>, Tail(d))
      BY <1>6, <1>7, <2>2 DEF Before
    <3>3. Replies(written \o <<f>>) \cup Replies(Tail(d)) = Replies(accepted)
      BY <1>6, <1>7, <2>2
    <3>4. Line(written \o <<f>>, Tail(d))
      BY <1>6, <1>7, <2>2, <3>1, <3>2, <3>3
    <3> QED BY <1>2, <1>4, <1>9, <1>10, <2>4, <3>4
  <2> QED BY <2>3, <2>4
<1>11. CASE ~(ob.control = <<>> /\ d # <<>>)
  <2>1. ~IsReply(f)
    <3>1. CASE ob.control # <<>>
      <4>1. f = Head(ob.control)
        BY <3>1 DEF PopFrame, f
      <4>2. Replies(<<f>>) = {}
        BY <1>1, <3>1, <4>1, FirstReply DEF Quiet
      <4> QED BY <4>2, FewReplies
    <3>2. CASE ob.control = <<>>
      <4>1. d = <<>> /\ ob.order # <<>>
        BY <1>3, <1>11, <3>2 DEF IsEmpty, d
      <4>2. f = ob.ephemeral[Head(ob.order)]
        BY <3>2, <4>1 DEF PopFrame, f, d
      <4>3. /\ ob.order \in Seq(Key) /\ Unique(ob.order) /\ Len(ob.order) <= EphemeralCap
            /\ Len(ob.order) \in Nat
            /\ ob.ephemeral \in [Elements(ob.order) -> Frame]
            /\ DOMAIN ob.ephemeral = Elements(ob.order)
        BY LaneFacts DEF Typed
      <4>4. Head(ob.order) \in Elements(ob.order)
        BY <4>1, <4>3, SMT DEF Elements
      <4> QED BY <4>2, <4>3, <4>4 DEF Quiet
    <3> QED BY <3>1, <3>2
  <2>2. Replies(<<f>>) = {}
    BY <2>1, FewReplies
  <2>3. Replies(written \o <<f>>) = Replies(written) /\ Before(written, <<f>>)
    BY <1>7, <2>2 DEF Before
  <2>4. Line(written, d) /\ Line(written \o <<f>>, d)
    BY <1>6, <1>7, <2>3 DEF Before
  <2>5. ob'.document = d
    BY <1>4, <1>11
  <2>6. CASE Stale(f) BY <1>2, <1>9, <2>4, <2>5, <2>6
  <2>7. CASE ~Stale(f) BY <1>2, <1>9, <2>4, <2>5, <2>7
  <2> QED BY <2>6, <2>7
<1> QED BY <1>10, <1>11

(* A reply joins the end of the document lane, or the lane refuses it.     *)
LEMMA KeptReply ==
  ASSUME Typed, Kept, NEW request \in 1..MaxRequest,
         NEW reply \in {Ack(request), ErrorFrame(request)}, HandleIntent(reply)
  PROVE  Kept'
<1> DEFINE d == ob.document
<1>1. /\ d \in Seq(Frame) /\ accepted \in Seq(Frame) /\ requests \in Nat
  BY SMT DEF Typed, Rest, Sound, IsOutbox
<1>2. request \in Nat /\ request > 0
  BY BoundAssumption, SMT
<1>3. reply \in Frame /\ IsReply(reply) /\ reply.n = requests + 1
  <2>1. reply \in Frame BY <1>2, FrameTypes
  <2>2. IsReply(reply) BY <1>2, SMT DEF Ack, ErrorFrame, IsReply
  <2> QED BY <2>1, <2>2 DEF HandleIntent
<1>4. /\ ob' = PushDocument(ob, reply) /\ requests' = requests + 1
      /\ accepted' = IF DocumentRefused(ob) THEN accepted ELSE Append(accepted, reply)
      /\ writer' = writer /\ Sent' = Sent
  BY <1>3 DEF HandleIntent, Sent
<1>5. ob'.document = IF DocumentRefused(ob) THEN d ELSE Append(d, reply)
  <2>1. \A f : PushDocument(ob, f).document = IF DocumentRefused(ob) THEN d ELSE Append(d, f)
    BY DocumentAfter DEF Typed
  <2> QED BY <1>4, <2>1
<1>6. \A a \in Replies(accepted) : a.n <= requests + 1 /\ a.n < requests + 1
  <2>1. ASSUME NEW a \in Replies(accepted) PROVE a.n \in Nat
    <3>1. PICK i \in 1..Len(accepted) : a = accepted[i]
      BY DEF Replies
    <3>2. accepted[i] \in Frame
      BY <1>1, ElementOfSeq
    <3> QED BY <3>1, <3>2, SMT DEF Frame
  <2>2. ASSUME NEW n \in Nat, n <= requests PROVE n <= requests + 1 /\ n < requests + 1
    BY <1>1, <2>2, SMT
  <2> QED BY <2>1, <2>2 DEF Kept
<1>7. requests + 1 <= requests + 1
  BY <1>1, SMT
<1>8. Kept' <=> /\ Rising(accepted') /\ \A a \in Replies(accepted') : a.n <= requests'
                /\ writer' \notin {"drained", "done"} =>
                      /\ Rising(Sent') /\ Rising(ob'.document) /\ Before(Sent', ob'.document)
                      /\ Replies(Sent') \cup Replies(ob'.document) = Replies(accepted')
  BY DEF Kept, Rising, Replies, Before
<1>9. Replies(<<reply>>) = {reply}
  BY <1>3, FewReplies
<1> HIDE DEF d
<1>10. CASE DocumentRefused(ob)
  <2>1. accepted' = accepted /\ ob'.document = d
    BY <1>4, <1>5, <1>10
  <2> QED BY <1>4, <1>6, <1>8, <2>1 DEF Kept, d
<1>11. CASE ~DocumentRefused(ob)
  <2>1. accepted' = Append(accepted, reply) /\ ob'.document = Append(d, reply)
    BY <1>4, <1>5, <1>11
  <2>2. Before(accepted, <<reply>>)
    BY <1>3, <1>6, <1>9 DEF Before
  <2>3. /\ Replies(Append(accepted, reply)) = Replies(accepted) \cup {reply}
        /\ Rising(Append(accepted, reply))
    BY <1>1, <1>3, <1>9, <2>2, AppendedReply DEF Kept
  <2>4. \A a \in Replies(Append(accepted, reply)) : a.n <= requests + 1
    BY <1>3, <1>6, <1>7, <2>3
  <2>5. ASSUME writer \notin {"drained", "done"}
        PROVE  /\ Rising(Append(d, reply)) /\ Before(Sent, Append(d, reply))
               /\ Replies(Sent) \cup Replies(Append(d, reply)) = Replies(accepted) \cup {reply}
    <3>1. /\ Rising(d) /\ Before(Sent, d)
          /\ Replies(Sent) \cup Replies(d) = Replies(accepted)
      BY <2>5 DEF Kept, d
    <3>2. Before(d, <<reply>>) /\ Before(Sent, <<reply>>)
      BY <2>2, <3>1 DEF Before
    <3>3. Replies(Append(d, reply)) = Replies(d) \cup {reply} /\ Rising(Append(d, reply))
      BY <1>1, <1>3, <1>9, <3>1, <3>2, AppendedReply
    <3>4. Before(Sent, Append(d, reply))
      BY <1>9, <3>1, <3>2, <3>3 DEF Before
    <3> QED BY <3>1, <3>3, <3>4
  <2>6. writer \notin {"drained", "done"} => Rising(Sent)
    BY DEF Kept
  <2> QED BY <1>4, <1>8, <2>1, <2>3, <2>4, <2>5, <2>6
<1> QED BY <1>10, <1>11

(* Frames that are no replies join the document lane: the events of a      *)
(* replay, or of a delivery.                                               *)
LEMMA KeptEvents ==
  ASSUME Typed, Kept, NEW s \in Seq(Frame), Replies(s) = {},
         ob'.document \in {ob.document, s \o ob.document, ob.document \o s},
         Sent' = Sent, UNCHANGED <<accepted, requests>>,
         writer \in {"drained", "done"} => writer' \in {"drained", "done"}
  PROVE  Kept'
<1> DEFINE d == ob.document
<1>1. d \in Seq(Frame)
  BY SMT DEF Typed, Sound, IsOutbox
<1>2. Rising(s)
  BY DEF Rising, Replies
<1>3. Before(s, d) /\ Before(d, s)
  BY DEF Before
<1>4. /\ Replies(s \o d) = Replies(s) \cup Replies(d)
      /\ Rising(s) /\ Rising(d) /\ Before(s, d) => Rising(s \o d)
      /\ Rising(s \o d) => Rising(s)
  BY <1>1, JoinedReplies
<1>5. /\ Replies(d \o s) = Replies(d) \cup Replies(s)
      /\ Rising(d) /\ Rising(s) /\ Before(d, s) => Rising(d \o s)
      /\ Rising(d \o s) => Rising(d)
  BY <1>1, JoinedReplies
<1>6. Replies(ob'.document) = Replies(d) /\ (Rising(d) => Rising(ob'.document))
  BY <1>2, <1>3, <1>4, <1>5
<1>7. Before(Sent, d) => Before(Sent, ob'.document)
  BY <1>6 DEF Before
<1>8. Kept' <=> /\ Rising(accepted') /\ \A a \in Replies(accepted') : a.n <= requests'
                /\ writer' \notin {"drained", "done"} =>
                      /\ Rising(Sent') /\ Rising(ob'.document) /\ Before(Sent', ob'.document)
                      /\ Replies(Sent') \cup Replies(ob'.document) = Replies(accepted')
  BY DEF Kept, Rising, Replies, Before
<1> QED BY <1>6, <1>7, <1>8 DEF Kept

(* A step of a goroutine loses no reply and reorders none.                 *)
LEMMA KeptStep == Typed /\ Quiet(ob) /\ Kept /\ [Next]_vars => Kept'
<1> SUFFICES ASSUME Typed, Quiet(ob), Kept, [Next]_vars PROVE Kept'
  OBVIOUS
<1>1. /\ \A f : PushControl(ob, f).document = ob.document
      /\ \A k, f : PushEphemeral(ob, k, f).document = ob.document
      /\ Close(ob).document = ob.document /\ [ob EXCEPT !.signal = FALSE].document = ob.document
  BY DocumentAfter DEF Typed
<1>2. ob.document \in Seq(Frame) /\ written \in Seq(Frame) /\ held \in Seq(Frame)
  BY SMT DEF Typed, Sound, IsOutbox, Rest
<1>3. ASSUME NEW s \in Seq(Frame), \A i \in 1..Len(s) : s[i].type = "event"
      PROVE  Replies(s) = {}
  <2>1. \A i \in 1..Len(s) : ~IsReply(s[i])
    BY <1>3, SMT DEF IsReply
  <2> QED BY <2>1 DEF Replies
<1>4. ASSUME NEW frames \in Replays, Prepend(frames) PROVE Kept'
  <2>1. frames \in Seq(Frame)
    BY ReplayTypes DEF Typed, Rest
  <2>2. \A i \in 1..Len(frames) : frames[i].type = "event"
    BY <2>1, SMT DEF Replays, Event
  <2>3. Replies(frames) = {}
    BY <1>3, <2>1, <2>2
  <2>4. \A s : PrependDocument(ob, s).document =
                  IF s = <<>> \/ ob.closed THEN ob.document ELSE s \o ob.document
    BY DocumentAfter DEF Typed
  <2>5. ob' = Close(ob) \/ ob' = PrependDocument(ob, frames)
    BY <1>4 DEF Prepend, Leave
  <2>6. ob'.document \in {ob.document, frames \o ob.document, ob.document \o frames}
    BY <1>1, <2>4, <2>5
  <2>7. reader = "replay" /\ UNCHANGED <<accepted, requests, written, held>>
    BY <1>4 DEF Prepend, envVars
  <2>8. writer = "off" /\ "off" \notin {"drained", "done"}
    BY <2>7 DEF Typed, Rest
  <2>9. Sent' = Sent
    BY <2>7 DEF Sent
  <2> QED BY <2>1, <2>3, <2>6, <2>7, <2>8, <2>9, KeptEvents
<1>5. ASSUME NEW seq \in 1..MaxSeq, DeliverEvent(seq) PROVE Kept'
  <2> DEFINE s == <<Event(seq)>>
  <2>1. Event(seq) \in Frame
    BY BoundAssumption, FrameTypes, SMT
  <2>2. s \in Seq(Frame) /\ Append(ob.document, Event(seq)) = ob.document \o s
    BY <1>2, <2>1, SMT, AppendIsConcat
  <2>3. ~IsReply(Event(seq))
    BY SMT DEF IsReply, Event
  <2>4. Replies(s) = {}
    BY <2>3, FewReplies
  <2>5. \A f : PushDocument(ob, f).document =
                  IF DocumentRefused(ob) THEN ob.document ELSE Append(ob.document, f)
    BY DocumentAfter DEF Typed
  <2>6. /\ ob' = PushDocument(ob, Event(seq))
        /\ UNCHANGED <<accepted, requests, written, held, writer>>
    BY <1>5 DEF DeliverEvent
  <2>7. ob'.document \in {ob.document, s \o ob.document, ob.document \o s}
    BY <2>2, <2>5, <2>6
  <2>8. Sent' = Sent
    BY <2>6 DEF Sent
  <2> QED BY <2>2, <2>4, <2>6, <2>7, <2>8, KeptEvents
<1>6. CASE Write
  <2>1. written' = Sent /\ held' = <<>> /\ writer = "write" /\ ob' = ob
        /\ UNCHANGED <<accepted, requests>>
    BY <1>6 DEF Write, Sent, envVars
  <2>2. Sent \in Seq(Frame) /\ Sent \o <<>> = Sent
    BY <1>2, SMT DEF Sent
  <2>3. Sent' = Sent
    BY <2>1, <2>2 DEF Sent
  <2> QED BY <2>1, <2>3, KeptUnchanged
<1>7. CASE EncodeFails
  <2>1. /\ held' = <<>> /\ writer = "write" /\ UNCHANGED <<ob, written, accepted, requests>>
        /\ \A i \in 1..Len(held) : held[i].type = "ephemeral"
    BY <1>7 DEF EncodeFails, envVars
  <2>2. \A i \in 1..Len(held) : ~IsReply(held[i])
    BY <2>1, SMT DEF IsReply
  <2>3. Replies(held) = {}
    BY <2>2 DEF Replies
  <2>4. /\ Replies(Sent) = Replies(written) \cup Replies(held)
        /\ Rising(written) /\ Rising(held) /\ Before(written, held) => Rising(Sent)
        /\ Rising(Sent) => Rising(written)
    BY <1>2, JoinedReplies DEF Sent
  <2>5. written \o <<>> = written
    BY <1>2, SMT
  <2>6. Sent' = written
    BY <2>1, <2>5 DEF Sent
  <2>7. Replies(written) = Replies(Sent)
    BY <2>3, <2>4
  <2>8. /\ Rising(Sent) /\ Rising(ob.document) /\ Before(Sent, ob.document)
        /\ Replies(Sent) \cup Replies(ob.document) = Replies(accepted)
    BY <2>1 DEF Kept
  <2>9. Before(written, ob.document)
    BY <2>7, <2>8 DEF Before
  <2>10. Kept' <=> /\ Rising(accepted') /\ \A a \in Replies(accepted') : a.n <= requests'
                   /\ writer' \notin {"drained", "done"} =>
                         /\ Rising(Sent') /\ Rising(ob'.document) /\ Before(Sent', ob'.document)
                         /\ Replies(Sent') \cup Replies(ob'.document) = Replies(accepted')
    BY DEF Kept, Rising, Replies, Before
  <2> QED BY <2>1, <2>4, <2>6, <2>7, <2>8, <2>9, <2>10 DEF Kept
<1>8. CASE WriteFails \/ Cancelled
  <2>1. writer' = "done" /\ UNCHANGED <<accepted, requests>>
    BY <1>8 DEF WriteFails, Cancelled, envVars
  <2>2. Replies(accepted)' = Replies(accepted) /\ Rising(accepted)' = Rising(accepted)
    BY <2>1 DEF Replies, Rising
  <2> QED BY <2>1, <2>2 DEF Kept
<1>9. ASSUME \/ WelcomeFails \/ CloseOutbox \/ Finish \/ CloseSession \/ Wakeup \/ PushResync
             \/ \E answer \in {Pong, ErrorFrame(0)} : ReadControl(answer)
             \/ \E key \in Key : DeliverEphemeral(key)
      PROVE  Kept'
  <2>1. /\ UNCHANGED <<accepted, requests, written, held>>
        /\ writer \in {"drained", "done"} => writer' \in {"drained", "done"}
    BY <1>9 DEF WelcomeFails, CloseOutbox, Finish, CloseSession, Wakeup, PushResync, ReadControl,
       DeliverEphemeral, envVars
  <2>2. \/ ob' = Close(ob) \/ ob' = [ob EXCEPT !.signal = FALSE]
        \/ \E f : ob' = PushControl(ob, f)
        \/ \E k, f : ob' = PushEphemeral(ob, k, f)
    BY <1>9 DEF WelcomeFails, CloseOutbox, Finish, CloseSession, Wakeup, PushResync, ReadControl,
       DeliverEphemeral, Leave
  <2>3. ob'.document = ob.document
    BY <1>1, <2>2
  <2>4. Sent' = Sent
    BY <2>1 DEF Sent
  <2> QED BY <2>1, <2>3, <2>4, KeptUnchanged
<1>10. ASSUME \/ \E from \in 0..MaxSeq : Welcome(from)
              \/ ReadFails \/ PopEmpty \/ CheckClosed \/ ReadLastSeq \/ WorldCloses
              \/ UNCHANGED vars
       PROVE  Kept'
  <2>1. /\ UNCHANGED <<ob, accepted, requests, written, held>>
        /\ writer \in {"drained", "done"} => writer' \in {"drained", "done"}
    BY <1>10 DEF Welcome, ReadFails, PopEmpty, CheckClosed, ReadLastSeq, WorldCloses, vars, envVars
  <2>2. Sent' = Sent
    BY <2>1 DEF Sent
  <2> QED BY <2>1, <2>2, KeptUnchanged
<1>11. CASE PopNext
  BY <1>11, KeptPop
<1>12. ASSUME NEW request \in 1..MaxRequest, NEW reply \in {Ack(request), ErrorFrame(request)},
              HandleIntent(reply)
       PROVE  Kept'
  BY <1>12, KeptReply
<1> QED
  BY <1>4, <1>5, <1>6, <1>7, <1>8, <1>9, <1>10, <1>11, <1>12 DEF Next, ReaderNext, WriterNext, HubNext

(* Until the writer gives up, the replies sent or still queued are the     *)
(* replies the document lane accepted, each once and in the order the      *)
(* intents were handled, whatever the hub and the writer do meanwhile.     *)
THEOREM SessionRepliesKept == Spec => []RepliesKept
<1>1. Init => Quiet(ob) /\ Kept
  <2> SUFFICES ASSUME Init PROVE Quiet(ob) /\ Kept
    OBVIOUS
  <2>1. /\ ob.control = <<>> /\ ob.document = <<>> /\ DOMAIN ob.ephemeral = {}
        /\ <<>> \o <<>> = <<>>
    BY SMT DEF Init, NewOutbox
  <2>2. Sent = <<>> /\ accepted = <<>>
    BY <2>1 DEF Init, Sent
  <2>3. Replies(<<>>) = {} /\ Rising(<<>>)
    BY FewReplies
  <2> QED BY <2>1, <2>2, <2>3 DEF Quiet, Kept, Before
<1>2. Typed /\ Kept => RepliesKept
  <2> SUFFICES ASSUME Typed, Kept, writer \notin {"drained", "done"}
               PROVE  /\ Replies(Sent \o ob.document) = Replies(accepted)
                      /\ Rising(Sent \o ob.document) /\ Rising(accepted)
    BY DEF RepliesKept
  <2>1. Sent \in Seq(Frame) /\ ob.document \in Seq(Frame)
    BY SMT DEF Typed, Sound, IsOutbox, Rest, Sent
  <2>2. /\ Replies(Sent \o ob.document) = Replies(Sent) \cup Replies(ob.document)
        /\ Rising(Sent) /\ Rising(ob.document) /\ Before(Sent, ob.document)
              => Rising(Sent \o ob.document)
        /\ Rising(Sent \o ob.document) => Rising(Sent)
    BY <2>1, JoinedReplies
  <2> QED BY <2>2 DEF Kept
<1> QED BY <1>1, <1>2, TypedInit, TypedStep, QuietStep, KeptStep, PTL DEF Spec
=============================================================================
