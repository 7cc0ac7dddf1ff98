------------------------------ MODULE Session -------------------------------
(***************************************************************************)
(* One WebSocket session (internal/transport/ws/session.go) from the       *)
(* moment it has joined its hub.  Three goroutines share its outbox:       *)
(*                                                                         *)
(*   reader   Serve: welcome, PrependDocument, readLoop, then the deferred *)
(*            clean-up;                                                    *)
(*   writer   writeLoop: pops frames, drops events at or below lastSeq,    *)
(*            parks on the outbox signal when there is nothing to send;    *)
(*   hub      the world's hub goroutine: fans publications out to the      *)
(*            session, closes it on an error or when the world closes.     *)
(*                                                                         *)
(* Each goroutine is a program counter; a step is what it does between two *)
(* acquisitions of the outbox mutex (or two operations on the connection). *)
(* The hub is the environment here: it delivers the events of the world in *)
(* any order, each at most once.                                           *)
(***************************************************************************)
EXTENDS Outbox

CONSTANTS
    MaxSeq,       \* bound: events of the world
    MaxRequest,   \* bound: intents the client sends
    MaxControl,   \* bound: frames the client sends that are answered on the control lane
    MaxVersion    \* bound: ephemeral frames delivered to the session

ASSUME BoundAssumption ==
    MaxSeq \in Nat /\ MaxRequest \in Nat /\ MaxControl \in Nat /\ MaxVersion \in Nat

VARIABLES
    ob,          \* the outbox
    reader,      \* program counter of Serve
    writer,      \* program counter of writeLoop
    hub,         \* what the hub goroutine is doing with this session
    lastSeq,     \* Session.lastSeq
    held,        \* <<frame>> between Pop and conn.Write, <<>> otherwise
    resyncFrom,  \* argument of the CloseWithResync in progress
    deltaFrom,   \* where this session's feed starts (Welcome.DeltaFrom)
    live,        \* sequences the hub has fanned out to this session
    requests,    \* intents handled so far
    controls,    \* control-lane frames the reader has answered
    version,     \* per key, versions of the ephemeral payload fanned out
    accepted,    \* history: replies the document lane accepted, in order
    written      \* history: frames written to the connection

envVars == <<deltaFrom, live, requests, controls, version>>
vars == <<ob, reader, writer, hub, lastSeq, held, resyncFrom, envVars,
          accepted, written>>

Ack(request) == [type |-> "ack", n |-> request]
ErrorFrame(request) == [type |-> "error", n |-> request]
Pong == [type |-> "pong", n |-> 0]
Ephemeral(v) == [type |-> "ephemeral", n |-> v]

IsReply(frame) == frame.type \in {"ack", "error"} /\ frame.n > 0

ReaderState == {"welcome", "replay", "reading", "closing", "waiting", "ended", "rejected"}
WriterState == {"off", "pop", "write", "check", "park", "drained", "done"}
HubState == {"joined", "dropping", "resync", "close", "left"}

Init ==
    /\ ob = NewOutbox
    /\ reader = "welcome" /\ writer = "off" /\ hub = "joined"
    /\ lastSeq = 0 /\ held = <<>> /\ resyncFrom = 0
    /\ deltaFrom = 0 /\ live = {} /\ requests = 0 /\ controls = 0
    /\ version = [k \in Key |-> 0]
    /\ accepted = <<>> /\ written = <<>>
-----------------------------------------------------------------------------
(* Serve.  Leaving Serve runs its deferred function: hub.Leave, which      *)
(* waits until the hub is back in its select (or has stopped), then        *)
(* outbox.Close and conn.Close.                                            *)
Leave(end) ==
    /\ hub \in {"joined", "left"}
    /\ ob' = Close(ob)
    /\ reader' = end
    /\ hub' = "left"

(* welcome, first half: lastSeq is stored, then the welcome frame is       *)
(* written straight to the connection.                                     *)
Welcome(from) ==
    /\ reader = "welcome"
    /\ lastSeq' = from
    /\ deltaFrom' = from
    /\ reader' = "replay"
    /\ UNCHANGED <<ob, writer, hub, held, resyncFrom, live, requests, controls,
                   version, accepted, written>>

(* The world could not be read, or the welcome or the replay failed.       *)
WelcomeFails ==
    /\ reader \in {"welcome", "replay"}
    /\ Leave("ended")
    /\ UNCHANGED <<writer, lastSeq, held, resyncFrom, envVars, accepted, written>>

(* What replayFrames can return: events after deltaFrom in log order.      *)
Replays ==
    UNION {{f \in [1..n -> {Event(seq) : seq \in deltaFrom + 1..MaxSeq}] :
                \A i, j \in 1..n : i < j => f[i].n < f[j].n} : n \in 0..MaxSeq}

(* welcome, second half: the replay is queued ahead of what the hub has    *)
(* pushed meanwhile and the writer starts.  A closed outbox refuses the    *)
(* replay and Serve returns without ever starting the writer.              *)
Prepend(frames) ==
    /\ reader = "replay"
    /\ IF PrependRefused(ob, frames)
       THEN /\ Leave("rejected")
            /\ UNCHANGED writer
       ELSE /\ ob' = PrependDocument(ob, frames)
            /\ reader' = "reading"
            /\ writer' = "pop"
            /\ UNCHANGED hub
    /\ UNCHANGED <<lastSeq, held, resyncFrom, envVars, accepted, written>>

(* readLoop: a ping is answered, a malformed or unexpected frame (or an    *)
(* intent or ephemeral without its body) is refused, on the control lane.  *)
ReadControl(answer) ==
    /\ reader = "reading"
    /\ controls < MaxControl
    /\ ob' = PushControl(ob, answer)
    /\ controls' = controls + 1
    /\ UNCHANGED <<reader, writer, hub, lastSeq, held, resyncFrom, deltaFrom, live,
                   requests, version, accepted, written>>

(* handleIntent: the handler has run; its ack or error goes on the         *)
(* document lane and the error PushDocument may return is discarded.       *)
HandleIntent(reply) ==
    /\ reader = "reading"
    /\ reply.n = requests + 1
    /\ requests' = reply.n
    /\ ob' = PushDocument(ob, reply)
    /\ accepted' = IF DocumentRefused(ob) THEN accepted ELSE Append(accepted, reply)
    /\ UNCHANGED <<reader, writer, hub, lastSeq, held, resyncFrom, deltaFrom, live,
                   controls, version, written>>

(* conn.Read fails: the client is gone.                                    *)
ReadFails ==
    /\ reader = "reading"
    /\ reader' = "closing"
    /\ UNCHANGED <<ob, writer, hub, lastSeq, held, resyncFrom, envVars, accepted, written>>

(* Serve after readLoop: outbox.Close, cancel, wait for the writer.        *)
CloseOutbox ==
    /\ reader = "closing"
    /\ ob' = Close(ob)
    /\ reader' = "waiting"
    /\ UNCHANGED <<writer, hub, lastSeq, held, resyncFrom, envVars, accepted,
                   written>>

(* Wrong: the writer calls wg.Done only where it returns on Closed().      *)
FinishDrained ==
    /\ reader = "waiting"
    /\ writer = "drained"
    /\ Leave("ended")
    /\ UNCHANGED <<writer, lastSeq, held, resyncFrom, envVars, accepted, written>>

Finish ==
    /\ reader = "waiting"
    /\ writer \in {"drained", "done"}
    /\ Leave("ended")
    /\ UNCHANGED <<writer, lastSeq, held, resyncFrom, envVars, accepted, written>>

ReaderNext ==
    \/ \E from \in 0..MaxSeq : Welcome(from)
    \/ WelcomeFails
    \/ \E frames \in Replays : Prepend(frames)
    \/ \E answer \in {Pong, ErrorFrame(0)} : ReadControl(answer)
    \/ \E request \in 1..MaxRequest :
          \E reply \in {Ack(request), ErrorFrame(request)} : HandleIntent(reply)
    \/ ReadFails
    \/ CloseOutbox
    \/ Finish
-----------------------------------------------------------------------------
(* writeLoop.                                                              *)

(* Wrong: an event with the sequence just sent passes.                     *)
StaleBelow(frame) == IsEvent(frame) /\ frame.n < lastSeq

Stale(frame) == IsEvent(frame) /\ frame.n <= lastSeq

(* outbox.Pop and the sequence check: a stale event is dropped, the        *)
(* sequence of a fresh one is stored before the frame is written.          *)
PopNext ==
    /\ writer = "pop"
    /\ ~IsEmpty(ob)
    /\ ob' = PopRest(ob)
    /\ LET frame == PopFrame(ob) IN
       IF Stale(frame)
       THEN UNCHANGED <<writer, held, lastSeq>>
       ELSE /\ writer' = "write"
            /\ held' = <<frame>>
            /\ lastSeq' = IF IsEvent(frame) THEN frame.n ELSE lastSeq
    /\ UNCHANGED <<reader, hub, resyncFrom, envVars, accepted, written>>

PopEmpty ==
    /\ writer = "pop"
    /\ IsEmpty(ob)
    /\ writer' = "check"
    /\ UNCHANGED <<ob, reader, hub, lastSeq, held, resyncFrom, envVars, accepted, written>>

Write ==
    /\ writer = "write"
    /\ written' = written \o held
    /\ held' = <<>>
    /\ writer' = "pop"
    /\ UNCHANGED <<ob, reader, hub, lastSeq, resyncFrom, envVars, accepted>>

(* Wrong: the loop goes on after a failed write.                           *)
WriteFailsOn ==
    /\ writer = "write"
    /\ writer' = "pop"
    /\ held' = <<>>
    /\ UNCHANGED <<ob, reader, hub, lastSeq, resyncFrom, envVars, accepted,
                   written>>

(* conn.Write returns an error (or the context is cancelled under it).     *)
WriteFails ==
    /\ writer = "write"
    /\ writer' = "done"
    /\ held' = <<>>
    /\ UNCHANGED <<ob, reader, hub, lastSeq, resyncFrom, envVars, accepted,
                   written>>

(* codec.Encode fails; the loop goes on.  Only an ephemeral payload is     *)
(* client bytes passed on as they came; every other frame is marshalled by *)
(* the server or read from a JSON column.                                  *)
EncodeFails ==
    /\ writer = "write"
    /\ \A i \in 1..Len(held) : held[i].type = "ephemeral"
    /\ held' = <<>>
    /\ writer' = "pop"
    /\ UNCHANGED <<ob, reader, hub, lastSeq, resyncFrom, envVars, accepted,
                   written>>

(* outbox.Closed, after the Pop that found nothing.                        *)
CheckClosed ==
    /\ writer = "check"
    /\ writer' = IF ob.closed THEN "drained" ELSE "park"
    /\ UNCHANGED <<ob, reader, hub, lastSeq, held, resyncFrom, envVars, accepted, written>>

(* The select: the signal, or the context Serve has cancelled.             *)
Wakeup ==
    /\ writer = "park"
    /\ ob.signal
    /\ ob' = [ob EXCEPT !.signal = FALSE]
    /\ writer' = "pop"
    /\ UNCHANGED <<reader, hub, lastSeq, held, resyncFrom, envVars, accepted,
                   written>>

Cancelled ==
    /\ writer = "park"
    /\ reader = "waiting"
    /\ writer' = "done"
    /\ UNCHANGED <<ob, reader, hub, lastSeq, held, resyncFrom, envVars, accepted, written>>

WriterNext ==
    \/ PopNext \/ PopEmpty \/ Write \/ WriteFails \/ EncodeFails
    \/ CheckClosed \/ Wakeup \/ Cancelled
-----------------------------------------------------------------------------
(* The hub goroutine.  deliver failing is the start of CloseWithResync.    *)
DropOn(failed) == hub' = IF failed THEN "dropping" ELSE "joined"

DeliverEvent(seq) ==
    /\ hub = "joined"
    /\ seq \notin live
    /\ live' = live \cup {seq}
    /\ ob' = PushDocument(ob, Event(seq))
    /\ DropOn(DocumentRefused(ob))
    /\ UNCHANGED <<reader, writer, lastSeq, held, resyncFrom, deltaFrom, requests,
                   controls, version, accepted, written>>

DeliverEphemeral(key) ==
    /\ hub = "joined"
    /\ version[key] < MaxVersion
    /\ version' = [version EXCEPT ![key] = @ + 1]
    /\ ob' = PushEphemeral(ob, key, Ephemeral(version[key] + 1))
    /\ DropOn(ob.closed)
    /\ UNCHANGED <<reader, writer, lastSeq, held, resyncFrom, deltaFrom, live, requests,
                   controls, accepted, written>>

(* fanOut evaluates session.LastSeq() for CloseWithResync.                 *)
ReadLastSeq ==
    /\ hub = "dropping"
    /\ hub' = "resync"
    /\ resyncFrom' = lastSeq
    /\ UNCHANGED <<ob, reader, writer, lastSeq, held, envVars, accepted, written>>

(* Hub.run receives from quit: CloseWithResync("world closed", 0).         *)
WorldCloses ==
    /\ hub = "joined"
    /\ hub' = "resync"
    /\ resyncFrom' = 0
    /\ UNCHANGED <<ob, reader, writer, lastSeq, held, envVars, accepted, written>>

(* CloseWithResync takes the outbox mutex twice.                           *)
PushResync ==
    /\ hub = "resync"
    /\ hub' = "close"
    /\ ob' = PushControl(ob, Resync(resyncFrom))
    /\ UNCHANGED <<reader, writer, lastSeq, held, resyncFrom, envVars, accepted,
                   written>>

CloseSession ==
    /\ hub = "close"
    /\ hub' = "left"
    /\ ob' = Close(ob)
    /\ UNCHANGED <<reader, writer, lastSeq, held, resyncFrom, envVars, accepted,
                   written>>

HubNext ==
    \/ \E seq \in 1..MaxSeq : DeliverEvent(seq)
    \/ \E key \in Key : DeliverEphemeral(key)
    \/ ReadLastSeq \/ WorldCloses \/ PushResync \/ CloseSession
-----------------------------------------------------------------------------
Next == ReaderNext \/ WriterNext \/ HubNext

Spec == Init /\ [][Next]_vars

(* The Go scheduler runs every runnable goroutine.  What the client does   *)
(* (send, disconnect) is not scheduled, and neither is a fan-out.  The     *)
(* writer's fairness includes that conn.Write returns, as it does when the *)
(* client reads or the connection breaks.                                  *)
Fairness ==
    /\ WF_vars(WelcomeFails \/ \E from \in 0..MaxSeq : Welcome(from))
    /\ WF_vars(\E frames \in Replays : Prepend(frames))
    /\ WF_vars(CloseOutbox) /\ WF_vars(Finish)
    /\ WF_vars(WriterNext)
    /\ WF_vars(ReadLastSeq \/ PushResync \/ CloseSession)

FairSpec == Spec /\ Fairness
-----------------------------------------------------------------------------
TypeOK ==
    /\ IsOutbox(ob)
    /\ reader \in ReaderState /\ writer \in WriterState /\ hub \in HubState
    /\ lastSeq \in Nat /\ resyncFrom \in Nat /\ deltaFrom \in Nat
    /\ held \in Seq(Frame) /\ Len(held) = (IF writer = "write" THEN 1 ELSE 0)
    /\ live \in SUBSET (1..MaxSeq)
    /\ requests \in Nat /\ controls \in Nat /\ version \in [Key -> Nat]
    /\ accepted \in Seq(Frame) /\ written \in Seq(Frame)
-----------------------------------------------------------------------------
Sent == written \o held

(* The writer sends the events of a session in strictly increasing order,  *)
(* all above the sequence the welcome announced: no event is sent twice,   *)
(* whatever order the hub delivered them in and however the replay         *)
(* overlaps what arrived during catch-up (writeLoop, session.go:533).      *)
EventsIncrease ==
    /\ \A i \in 1..Len(Sent) : IsEvent(Sent[i]) => Sent[i].n \in deltaFrom + 1..lastSeq
    /\ \A i, j \in 1..Len(Sent) :
          i < j /\ IsEvent(Sent[i]) /\ IsEvent(Sent[j]) => Sent[i].n < Sent[j].n

(* A parked writer never sleeps over work: if a lane holds a frame or the  *)
(* outbox is closed, the wake-up it waits for is already in the channel    *)
(* (wake, outbox.go:48, against the Pop / Closed / select of writeLoop).   *)
NoLostWakeup ==
    /\ writer \in {"check", "park"} /\ ~IsEmpty(ob) => ob.signal
    /\ writer = "park" /\ ob.closed => ob.signal

(* The ephemeral lane's queue and map agree: every queued key is queued    *)
(* once and has its frame, no frame is without a place in the queue, and   *)
(* the lane stays within its cap (PushEphemeral and Pop, outbox.go).       *)
EphemeralCoherent == Coherent(ob)

(* Coalescing keeps the newest: while the session is open, the frame       *)
(* waiting under a key is the last one delivered for it.                   *)
NewestWins ==
    ~ob.closed => \A k \in DOMAIN ob.ephemeral : ob.ephemeral[k].n = version[k]

(* A resync never asks the client to continue past what it was sent:       *)
(* FromSeq is where its feed began or an event written before the resync   *)
(* (fanOut reads LastSeq while the writer is running, hub.go:127).         *)
ResyncFromIsSent ==
    \A i \in 1..Len(written) :
        written[i].type = "resync" /\ written[i].n > deltaFrom =>
            \E j \in 1..i : written[j] = Event(written[i].n)

(* Until the writer gives up, every reply the document lane accepted is    *)
(* sent or still queued: none lost, none repeated, in the order the        *)
(* intents were handled (which is the order of n), control frames and      *)
(* replays notwithstanding.                                                *)
Replies(s) == {s[i] : i \in {j \in 1..Len(s) : IsReply(s[j])}}
Rising(s) == \A i, j \in 1..Len(s) : i < j /\ IsReply(s[i]) /\ IsReply(s[j]) => s[i].n < s[j].n
RepliesKept ==
    writer \notin {"drained", "done"} =>
        /\ Replies(Sent \o ob.document) = Replies(accepted)
        /\ Rising(Sent \o ob.document) /\ Rising(accepted)

(* Every reply the lane accepted reaches the connection, unless the writer *)
(* has stopped.                                                            *)
ReplyIsWritten ==
    \A r \in 1..MaxRequest :
        (\E i \in 1..Len(accepted) : accepted[i].n = r)
            ~> \/ \E i \in 1..Len(written) : IsReply(written[i]) /\ written[i].n = r
               \/ writer \in {"drained", "done"}

(* When the client goes away Serve returns: the writer it waits for always *)
(* notices (Close, cancel and wg.Wait, session.go:203).                    *)
SessionEnds == reader = "closing" ~> reader = "ended"
-----------------------------------------------------------------------------
(* README.md:76 says of the control lane "Never dropped": a writer that    *)
(* stops because the outbox is closed has sent everything on it.           *)
ControlNeverDropped == writer = "drained" => ob.control = <<>>
=============================================================================
