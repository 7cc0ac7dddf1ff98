------------------------------- MODULE Outbox -------------------------------
(***************************************************************************)
(* The per-session outbox of the realtime gateway                          *)
(* (internal/transport/ws/outbox.go).  An outbox is a record; every method *)
(* of the Go type is an operator from the outbox before the call to the    *)
(* outbox after it.  A method holds o.mu from its first to its last line,  *)
(* so one call is one step of the modules that use these operators.        *)
(*                                                                         *)
(* Three lanes leave in priority order: control, document, ephemeral.  The *)
(* ephemeral lane is a map from key to frame plus the order in which the   *)
(* keys leave.  `signal` is the channel of capacity one the writer parks   *)
(* on: TRUE when the channel holds its one element.                        *)
(***************************************************************************)
EXTENDS Naturals, Sequences

CONSTANTS
    Key,            \* ephemeral coalescing keys
    DocumentCap,    \* outbox.documentCap
    EphemeralCap    \* outbox.ephemeralCap

(* newOutbox replaces a cap that is not positive by its default.           *)
ASSUME CapAssumption == DocumentCap \in Nat \ {0} /\ EphemeralCap \in Nat \ {0}

FrameType == {"event", "ack", "error", "resync", "pong", "ephemeral"}

(* n is what the properties tell frames of one type apart by: the sequence *)
(* of an event, the request of an ack or error, FromSeq of a resync, the   *)
(* version of an ephemeral payload.                                        *)
Frame == [type : FrameType, n : Nat]

Event(seq) == [type |-> "event", n |-> seq]
Resync(from) == [type |-> "resync", n |-> from]
IsEvent(frame) == frame.type = "event"

IsOutbox(o) ==
    /\ o \in [control : Seq(Frame), document : Seq(Frame),
              ephemeral : [DOMAIN o.ephemeral -> Frame], order : Seq(Key),
              signal : BOOLEAN, closed : BOOLEAN, overflow : BOOLEAN]
    /\ DOMAIN o.ephemeral \subseteq Key

NewOutbox ==
    [control |-> <<>>, document |-> <<>>, ephemeral |-> [k \in {} |-> 0],
     order |-> <<>>, signal |-> FALSE, closed |-> FALSE, overflow |-> FALSE]

(* wake() never blocks: a full channel already holds the wake-up.          *)
Wake(o) == [o EXCEPT !.signal = TRUE]
-----------------------------------------------------------------------------
PushControl(o, frame) ==
    IF o.closed THEN o
    ELSE Wake([o EXCEPT !.control = Append(@, frame)])

(* The two errors of PushDocument: ErrOutboxClosed and ErrSlowConsumer.    *)
DocumentRefused(o) == o.closed \/ Len(o.document) >= DocumentCap

(* Wrong: a full lane makes room by dropping its oldest frame.             *)
PushDocumentDropping(o, frame) ==
    IF o.closed THEN o
    ELSE IF Len(o.document) >= DocumentCap
    THEN Wake([o EXCEPT !.document = Append(Tail(@), frame)])
    ELSE Wake([o EXCEPT !.document = Append(@, frame)])

(* Wrong: the event is queued and nobody is told.                          *)
PushDocumentSilently(o, frame) ==
    IF o.closed THEN o
    ELSE IF Len(o.document) >= DocumentCap THEN [o EXCEPT !.overflow = TRUE]
    ELSE [o EXCEPT !.document = Append(@, frame)]

PushDocument(o, frame) ==
    IF o.closed THEN o
    ELSE IF Len(o.document) >= DocumentCap THEN [o EXCEPT !.overflow = TRUE]
    ELSE Wake([o EXCEPT !.document = Append(@, frame)])

(* A Go map with key assigned, and with key deleted.                       *)
Assign(m, key, frame) ==
    [k \in DOMAIN m \cup {key} |-> IF k = key THEN frame ELSE m[k]]
Delete(m, key) == [k \in DOMAIN m \ {key} |-> m[k]]

DropOldest(o) ==
    [o EXCEPT !.order = Tail(@), !.ephemeral = Delete(@, Head(o.order))]

(* Room for one more key: the oldest key leaves when the lane is full.     *)
EvictOldest(o) == IF Len(o.order) >= EphemeralCap THEN DropOldest(o) ELSE o

AddKey(o, key, frame) ==
    [o EXCEPT !.order = Append(@, key), !.ephemeral = Assign(@, key, frame)]

(* Wrong: a key that is already queued keeps its older frame.              *)
PushEphemeralOnce(o, key, frame) ==
    IF o.closed \/ key \in DOMAIN o.ephemeral THEN o
    ELSE Wake(AddKey(EvictOldest(o), key, frame))

PushEphemeral(o, key, frame) ==
    IF o.closed THEN o
    ELSE IF key \in DOMAIN o.ephemeral
    THEN Wake([o EXCEPT !.ephemeral = Assign(@, key, frame)])
    ELSE Wake(AddKey(EvictOldest(o), key, frame))

(* No frames: returns before it looks at closed.                           *)
PrependRefused(o, frames) == frames # <<>> /\ o.closed

(* Wrong: the replay is queued behind what arrived during catch-up.        *)
AppendReplay(o, frames) ==
    IF frames = <<>> \/ o.closed THEN o
    ELSE Wake([o EXCEPT !.document = @ \o frames])

PrependDocument(o, frames) ==
    IF frames = <<>> \/ o.closed THEN o
    ELSE Wake([o EXCEPT !.document = frames \o @])

Close(o) == IF o.closed THEN o ELSE Wake([o EXCEPT !.closed = TRUE])
-----------------------------------------------------------------------------
(* Pop returns (PopFrame, TRUE) and leaves PopRest, or (_, FALSE) when     *)
(* every lane is empty.  It does not look at closed.                       *)
IsEmpty(o) == o.control = <<>> /\ o.document = <<>> /\ o.order = <<>>

PopFrame(o) ==
    CASE o.control # <<>>  -> Head(o.control)
      [] o.control = <<>> /\ o.document # <<>> -> Head(o.document)
      [] OTHER -> o.ephemeral[Head(o.order)]

PopRest(o) ==
    CASE o.control # <<>>  -> [o EXCEPT !.control = Tail(@)]
      [] o.control = <<>> /\ o.document # <<>> -> [o EXCEPT !.document = Tail(@)]
      [] OTHER -> DropOldest(o)
-----------------------------------------------------------------------------
(* The ephemeral lane's queue and map agree, and the lane is within cap.   *)
Coherent(o) ==
    /\ \A i, j \in 1..Len(o.order) : o.order[i] = o.order[j] => i = j
    /\ DOMAIN o.ephemeral = {o.order[i] : i \in 1..Len(o.order)}
    /\ Len(o.order) <= EphemeralCap
=============================================================================
