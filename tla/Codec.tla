------------------------------- MODULE Codec --------------------------------
(***************************************************************************)
(* The two encodings of frames (internal/transport/ws/frame.go and         *)
(* protocodec.go).  A frame has a lane, a type and a body, or none; a body *)
(* maps the fields of its type to values, of which Zero is the empty one.  *)
(* What is on the wire leaves fields out: Protobuf every empty one, JSON   *)
(* the ones tagged omitempty.                                              *)
(***************************************************************************)
EXTENDS Integers, FiniteSets

Zero == 0
NoBody == <<>>

Fields == [
    hello     |-> {"ticket", "worldId", "protocolVersion", "lastSeq", "locale", "capabilities"},
    welcome   |-> {"sessionId", "userId", "role", "seq", "deltaFrom", "snapshotRef"},
    intent    |-> {"requestId", "kind", "worldId", "payload"},
    ack       |-> {"requestId", "seq", "result"},
    event     |-> {"seq", "kind", "worldId", "sceneId", "payload"},
    ephemeral |-> {"kind", "key", "worldId", "sceneId", "payload"},
    error     |-> {"requestId", "code", "messageKey", "params"},
    ping      |-> {"sentAtUnixMs"},
    pong      |-> {"sentAtUnixMs"},
    resync    |-> {"reason", "fromSeq"}]
FrameType == DOMAIN Fields

(* The fields tagged omitempty.                                            *)
OmitEmpty(type) ==
    Fields[type] \cap ({"locale", "capabilities", "snapshotRef", "payload", "result",
                        "sceneId", "params"}
                       \cup IF type = "error" THEN {"requestId"} ELSE {})

Present(body, omitted) == [f \in {f \in DOMAIN body : ~(f \in omitted /\ body[f] = Zero)} |-> body[f]]

(* Wrong: a field is forgotten.                                            *)
FilledButScene(type, wire) ==
    [f \in Fields[type] |-> IF f \in DOMAIN wire /\ f # "sceneId" THEN wire[f] ELSE Zero]

Filled(type, wire) == [f \in Fields[type] |-> IF f \in DOMAIN wire THEN wire[f] ELSE Zero]

Refusal == [ok |-> FALSE]
Accepted(frame) == [ok |-> TRUE, frame |-> frame]

(* toProto and proto.Marshal: a body is required, except of a ping or pong.*)
toProto(frame) ==
    IF frame.type \notin FrameType \/ (frame.body = NoBody /\ frame.type \notin {"ping", "pong"})
    THEN Refusal
    ELSE Accepted([lane |-> frame.lane, type |-> frame.type,
                   wire |-> Present(frame.body, Fields[frame.type])])

(* proto.Unmarshal and fromProto: Lane(...) keeps the low eight bits.      *)
fromProto(message) ==
    IF message.type \notin FrameType THEN Refusal
    ELSE Accepted([lane |-> message.lane % 256, type |-> message.type,
                   body |-> Filled(message.type, message.wire)])

(* json.Marshal: any type, with or without a body.                         *)
toJSON(frame) ==
    Accepted([lane |-> frame.lane, type |-> frame.type, hasBody |-> frame.body # NoBody,
              wire |-> IF frame.body = NoBody THEN NoBody
                       ELSE Present(frame.body, OmitEmpty(frame.type))])

(* json.Unmarshal: a lane is a uint8, and a type is required.              *)
fromJSON(message) ==
    IF message.lane \notin 0..255 \/ message.type = "" THEN Refusal
    ELSE Accepted([lane |-> message.lane, type |-> message.type,
                   body |-> IF message.hasBody THEN Filled(message.type, message.wire)
                            ELSE NoBody])
=============================================================================
