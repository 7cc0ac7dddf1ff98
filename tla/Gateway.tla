------------------------------ MODULE Gateway -------------------------------
(***************************************************************************)
(* One world of the realtime gateway: intent handlers that append to the   *)
(* world's event log and publish after the commit, the hub that fans out,  *)
(* and per user a client that connects, catches up, loses its connection   *)
(* and comes back with the sequence it last saw.  The server may crash: it *)
(* keeps the log and nothing else.  Or it is shut down: Registry.Close     *)
(* forgets the hub and closes it, and until the process exits handlers of  *)
(* the closed hub finish and late handshakes are given a new one.          *)
(*                                                                         *)
(* A session is coarser here than in Session: its writer pops, checks and  *)
(* writes in one step, and a fan-out is one step (the outboxes it visits   *)
(* are independent of each other).                                         *)
(***************************************************************************)
EXTENDS Outbox

CONSTANTS
    User,           \* the clients, one session each
    Author,         \* handlers that may run at the same time
    CatchUpLimit,   \* catchUpLimit
    PublishCap,     \* capacity of Hub.publish
    MaxSeq          \* bound: length of the log

ASSUME GatewayAssumption ==
    /\ CatchUpLimit \in Nat \ {0} /\ PublishCap \in Nat \ {0} /\ MaxSeq \in Nat
    /\ User \cap Author = {}

VARIABLES
    log,        \* world_events: log[s] is the set of users event s is for
    pending,    \* pending[a]: events handler a has committed, not yet published
    queue,      \* Hub.publish
    members,    \* the sessions map of Hub.run
    phase,      \* where a user's session is in Serve
    ob,         \* its outbox
    lastSeq,    \* its lastSeq
    fetched,    \* what replayFrames returned, until it is prepended
    wire,       \* frames written and not yet received
    got,        \* events the client has received, over all its connections
    closing,    \* whether Registry.Close has run: queue and members are a new hub's
    former,     \* the sessions and handlers whose hub is the closed one
    overtaken,  \* history: events pending while a later one was published
    cut,        \* history: events catchUpLimit kept out of a replay
    lost        \* history: events published on the closed hub, past a session on the new one

hubVars == <<log, pending, queue, closing, former, overtaken, lost>>
vars == <<hubVars, members, phase, ob, lastSeq, fetched, wire, got, cut>>

(* hello.LastSeq: the client asks to continue after the last event it saw. *)
Seen(u) == IF got[u] = <<>> THEN 0 ELSE got[u][Len(got[u])]

Init ==
    /\ log = <<>> /\ queue = <<>> /\ members = {} /\ overtaken = {}
    /\ closing = FALSE /\ former = {}
    /\ pending = [a \in Author |-> <<>>]
    /\ phase = [u \in User |-> "off"]
    /\ ob = [u \in User |-> NewOutbox]
    /\ lastSeq = [u \in User |-> 0]
    /\ fetched = [u \in User |-> <<>>]
    /\ wire = [u \in User |-> <<>>]
    /\ got = [u \in User |-> <<>>]
    /\ cut = [u \in User |-> {}]
    /\ lost = [u \in User |-> {}]
-----------------------------------------------------------------------------
(* A handler's transaction commits: AppendEvent takes the next sequence    *)
(* under the world's row lock, so the log has no gap and commit order is   *)
(* sequence order.  A door appends two events.  While the server shuts     *)
(* down it may be the handler of a session of either hub.                  *)
Commit(a, who) ==
    /\ pending[a] = <<>>
    /\ Len(log) + Len(who) <= MaxSeq
    /\ log' = log \o who
    /\ pending' = [pending EXCEPT ![a] = [i \in 1..Len(who) |-> Len(log) + i]]
    /\ former' \in {former} \cup (IF closing THEN {former \cup {a}} ELSE {})
    /\ UNCHANGED <<queue, members, phase, ob, lastSeq, fetched, wire, got, closing,
                   overtaken, cut, lost>>

(* Hub.Publish, after the transaction and under no lock.  It blocks while  *)
(* the channel is full.                                                    *)
Publish(a) ==
    /\ pending[a] # <<>> /\ a \notin former
    /\ Len(queue) < PublishCap
    /\ queue' = Append(queue, Head(pending[a]))
    /\ pending' = [pending EXCEPT ![a] = Tail(@)]
    /\ overtaken' = overtaken \cup
          {s \in 1..Head(pending[a]) - 1 :
              \E b \in Author : \E i \in 1..Len(pending[b]) : pending[b][i] = s}
    /\ UNCHANGED <<log, members, phase, ob, lastSeq, fetched, wire, got, closing, former,
                   cut, lost>>

(* Hub.Publish on the closed hub returns at once.  A session that has      *)
(* caught up on the new hub will not hear of the event.                    *)
PublishNowhere(a) ==
    /\ pending[a] # <<>> /\ a \in former
    /\ pending' = [pending EXCEPT ![a] = Tail(@)]
    /\ lost' = [u \in User |->
          IF u \in members /\ phase[u] \in {"fetched", "running"}
          THEN lost[u] \cup {Head(pending[a])} ELSE lost[u]]
    /\ former' = IF Len(pending[a]) = 1 THEN former \ {a} ELSE former
    /\ UNCHANGED <<log, queue, members, phase, ob, lastSeq, fetched, wire, got, closing,
                   overtaken, cut>>

(* Wrong: a full lane loses the event and the session goes on.             *)
FanOutLossy ==
    /\ queue # <<>>
    /\ ob' = [u \in User |-> IF u \in members \cap log[Head(queue)]
                             THEN PushDocument(ob[u], Event(Head(queue))) ELSE ob[u]]
    /\ queue' = Tail(queue)
    /\ UNCHANGED <<log, pending, members, phase, lastSeq, fetched, wire, got, closing,
                   former, overtaken, cut, lost>>

(* fanOut: the sessions the event is for get it; one that cannot take it   *)
(* is told to resync, closed and forgotten.                                *)
FanOut ==
    /\ queue # <<>>
    /\ LET s == Head(queue)
           targets == members \cap log[s]
           slow == {u \in targets : DocumentRefused(ob[u])}
           Pushed(u) == PushDocument(ob[u], Event(s))
       IN /\ ob' = [u \in User |->
                       IF u \in slow THEN Close(PushControl(Pushed(u), Resync(lastSeq[u])))
                       ELSE IF u \in targets THEN Pushed(u) ELSE ob[u]]
          /\ members' = members \ slow
    /\ queue' = Tail(queue)
    /\ UNCHANGED <<log, pending, phase, lastSeq, fetched, wire, got, closing, former,
                   overtaken, cut, lost>>
-----------------------------------------------------------------------------
(* Serve: authenticate has succeeded; Registry.Hub gives the session a hub.*)
Hub(u) ==
    /\ phase[u] = "off"
    /\ phase' = [phase EXCEPT ![u] = "hub"]
    /\ ob' = [ob EXCEPT ![u] = NewOutbox]
    /\ UNCHANGED <<hubVars, members, lastSeq, fetched, wire, got, cut>>

(* The session joins it before the welcome.  Join on a closed hub returns, *)
(* and Serve goes on.                                                      *)
Join(u) ==
    /\ phase[u] = "hub"
    /\ phase' = [phase EXCEPT ![u] = "joined"]
    /\ members' = members \cup ({u} \ former)
    /\ UNCHANGED <<hubVars, ob, lastSeq, fetched, wire, got, cut>>

(* welcome reads the world and stores where the feed starts.               *)
Welcome(u) ==
    /\ phase[u] = "joined"
    /\ phase' = [phase EXCEPT ![u] = "welcomed"]
    /\ lastSeq' = [lastSeq EXCEPT ![u] = IF Seen(u) > Len(log) THEN 0 ELSE Seen(u)]
    /\ UNCHANGED <<hubVars, members, ob, fetched, wire, got, cut>>

(* Wrong: a session that starts is never replayed anything.                *)
FetchNothing(u) ==
    /\ phase[u] = "welcomed"
    /\ phase' = [phase EXCEPT ![u] = "fetched"]
    /\ UNCHANGED <<hubVars, members, ob, lastSeq, fetched, wire, got, cut>>

(* The rows of EventsSince, of which there are at most CatchUpLimit, in    *)
(* the order of their sequence.                                            *)
InOrder(S) ==
    {q \in UNION {[1..n -> S] : n \in 0..CatchUpLimit} :
        /\ \A i, j \in DOMAIN q : i < j => q[i] < q[j]
        /\ \A s \in S : \E i \in DOMAIN q : q[i] = s}

(* replayFrames: at most CatchUpLimit rows of the log, then those of them  *)
(* that are for u.                                                         *)
Fetch(u) ==
    /\ phase[u] = "welcomed"
    /\ phase' = [phase EXCEPT ![u] = "fetched"]
    /\ LET from == lastSeq[u]
           last == IF Len(log) - from > CatchUpLimit THEN from + CatchUpLimit ELSE Len(log)
       IN /\ \E rows \in InOrder({s \in from + 1..last : u \in log[s]}) :
                fetched' = [fetched EXCEPT ![u] = [i \in DOMAIN rows |-> Event(rows[i])]]
          /\ cut' = [cut EXCEPT ![u] = @ \cup (last + 1..Len(log))]
    /\ UNCHANGED <<hubVars, members, ob, lastSeq, wire, got>>

(* The end of welcome, and the start of the writer.                        *)
Prepend(u) ==
    /\ phase[u] = "fetched"
    /\ ~PrependRefused(ob[u], fetched[u])
    /\ ob' = [ob EXCEPT ![u] = PrependDocument(@, fetched[u])]
    /\ fetched' = [fetched EXCEPT ![u] = <<>>]
    /\ phase' = [phase EXCEPT ![u] = "running"]
    /\ UNCHANGED <<hubVars, members, lastSeq, wire, got, cut>>

(* writeLoop: one frame.                                                   *)
Stale(u, frame) == IsEvent(frame) /\ frame.n <= lastSeq[u]

Send(u) ==
    /\ phase[u] = "running"
    /\ ~IsEmpty(ob[u])
    /\ ob' = [ob EXCEPT ![u] = PopRest(@)]
    /\ LET frame == PopFrame(ob[u]) IN
       IF Stale(u, frame)
       THEN UNCHANGED <<wire, lastSeq>>
       ELSE /\ wire' = [wire EXCEPT ![u] = Append(@, frame)]
            /\ lastSeq' = [lastSeq EXCEPT ![u] = IF IsEvent(frame) THEN frame.n ELSE @]
    /\ UNCHANGED <<hubVars, members, phase, fetched, got, cut>>

(* The client takes a frame off the connection.                            *)
Receive(u) ==
    /\ wire[u] # <<>>
    /\ wire' = [wire EXCEPT ![u] = Tail(@)]
    /\ got' = [got EXCEPT ![u] = IF IsEvent(Head(wire[u])) THEN Append(@, Head(wire[u]).n) ELSE @]
    /\ UNCHANGED <<hubVars, members, phase, ob, lastSeq, fetched, cut>>

(* Wrong: Serve returns without telling the hub.                           *)
EndWithoutLeave(u) ==
    /\ phase[u] # "off"
    /\ phase' = [phase EXCEPT ![u] = "off"]
    /\ ob' = [ob EXCEPT ![u] = NewOutbox]
    /\ lastSeq' = [lastSeq EXCEPT ![u] = 0]
    /\ fetched' = [fetched EXCEPT ![u] = <<>>]
    /\ wire' = [wire EXCEPT ![u] = <<>>]
    /\ former' = former \ {u}
    /\ UNCHANGED <<log, pending, queue, closing, overtaken, lost, members, got, cut>>

(* Serve returns: the client or its connection is gone, the handshake      *)
(* failed, or a closed outbox refused the replay.  What was on the         *)
(* connection is lost.                                                     *)
End(u) ==
    /\ phase[u] # "off"
    /\ phase' = [phase EXCEPT ![u] = "off"]
    /\ members' = members \ {u}
    /\ ob' = [ob EXCEPT ![u] = NewOutbox]
    /\ lastSeq' = [lastSeq EXCEPT ![u] = 0]
    /\ fetched' = [fetched EXCEPT ![u] = <<>>]
    /\ wire' = [wire EXCEPT ![u] = <<>>]
    /\ former' = former \ {u}
    /\ UNCHANGED <<log, pending, queue, closing, overtaken, lost, got, cut>>

(* Registry.Close and Hub.Close: the sessions of the hub are told to start *)
(* over and closed.  Publications that wait are not looked at.             *)
Shutdown ==
    /\ ~closing
    /\ closing' = TRUE
    /\ former' = {u \in User : phase[u] # "off"} \cup {a \in Author : pending[a] # <<>>}
    /\ ob' = [u \in User |->
                 IF u \in members THEN Close(PushControl(ob[u], Resync(0))) ELSE ob[u]]
    /\ queue' = <<>> /\ members' = {}
    /\ UNCHANGED <<log, pending, phase, lastSeq, fetched, wire, got, overtaken, cut, lost>>

(* The process dies, or exits, and is started again.                       *)
Crash ==
    /\ closing' = FALSE /\ former' = {}
    /\ pending' = [a \in Author |-> <<>>]
    /\ queue' = <<>> /\ members' = {}
    /\ phase' = [u \in User |-> "off"]
    /\ ob' = [u \in User |-> NewOutbox]
    /\ lastSeq' = [u \in User |-> 0]
    /\ fetched' = [u \in User |-> <<>>]
    /\ wire' = [u \in User |-> <<>>]
    /\ UNCHANGED <<log, got, overtaken, cut, lost>>

(* Run returns when the store is closed, and main with it.                 *)
Exit == closing /\ Crash

Authored ==
    \/ \E a \in Author : \E n \in 1..2 : \E who \in [1..n -> SUBSET User] : Commit(a, who)
    \/ \E a \in Author : Publish(a) \/ PublishNowhere(a)

Served(u) ==
    \/ Hub(u) \/ Join(u) \/ Welcome(u) \/ Fetch(u) \/ Prepend(u) \/ Send(u) \/ Receive(u) \/ End(u)

Next ==
    \/ Authored
    \/ FanOut
    \/ \E u \in User : Served(u)
    \/ Shutdown
    \/ Crash

Spec == Init /\ [][Next]_vars

(* Handlers, the hub, the writer and the handshake are goroutines the      *)
(* scheduler runs; the network delivers.  Nothing makes a client connect,  *)
(* an author write or a connection break.  A shutdown ends in the exit of  *)
(* the process.                                                            *)
Fairness ==
    /\ \A a \in Author : WF_vars(Publish(a))
    /\ WF_vars(FanOut)
    /\ \A u \in User : WF_vars(Join(u) \/ Welcome(u) \/ Fetch(u) \/ Prepend(u))
    /\ \A u \in User : WF_vars(Send(u)) /\ WF_vars(Receive(u))
    /\ WF_vars(Exit)

FairSpec == Spec /\ Fairness
-----------------------------------------------------------------------------
TypeOK ==
    /\ log \in Seq(SUBSET User) /\ Len(log) <= MaxSeq
    /\ pending \in [Author -> Seq(1..Len(log))]
    /\ queue \in Seq(1..Len(log)) /\ Len(queue) <= PublishCap
    /\ members \subseteq {u \in User : phase[u] \notin {"off", "hub"}} \ former
    /\ closing \in BOOLEAN /\ former \subseteq User \cup Author /\ (former # {} => closing)
    /\ phase \in [User -> {"off", "hub", "joined", "welcomed", "fetched", "running"}]
    /\ DOMAIN ob = User /\ \A u \in User : IsOutbox(ob[u])
    /\ lastSeq \in [User -> 0..Len(log)]
    /\ fetched \in [User -> Seq(Frame)] /\ wire \in [User -> Seq(Frame)]
    /\ got \in [User -> Seq(1..Len(log))]
    /\ overtaken \in SUBSET (1..Len(log)) /\ cut \in [User -> SUBSET (1..Len(log))]
    /\ lost \in [User -> SUBSET (1..Len(log))]

Received(u) == {got[u][i] : i \in 1..Len(got[u])}

(* If a client has an event, it has every earlier one that is for it,      *)
(* unless that event was still unpublished when a later one was published, *)
(* or fell beyond the catch-up limit, or came from a handler of the closed *)
(* hub when the client was on the new one.  Crashes, lost connections,     *)
(* full lanes, the overlap of replay and fan-out and, else, a shutdown     *)
(* cost nothing.                                                           *)
Excused(u) == overtaken \cup cut[u] \cup lost[u]
HolesExplained ==
    \A u \in User : \A s \in 1..Seen(u) :
        u \in log[s] => s \in Received(u) \cup Excused(u)

(* The gateway implements the feed, leaving out what HolesExplained names: *)
(* a client never receives an event twice, out of order, or one that is    *)
(* not for it, over all its connections, live (fanOut) and in a replay.    *)
FeedSpec == INSTANCE Feed WITH skippable <- [u \in User |-> Excused(u)]
ImplementsFeed == FeedSpec!Spec

(* A client whose session stays up in the end receives everything that is  *)
(* for it, but for what HolesExplained names.                              *)
StableSessionCatchesUp ==
    \A u \in User :
        <>[](phase[u] # "off" /\ ~ob[u].closed) =>
            <>[](\A s \in 1..Len(log) :
                    u \in log[s] => s \in Received(u) \cup Excused(u))
-----------------------------------------------------------------------------
(* README.md:83 says "the writer drops any event whose sequence it has     *)
(* already sent": an event the writer is about to drop has been sent to    *)
(* this client.                                                            *)
DropsOnlySent ==
    \A u \in User :
        phase[u] = "running" /\ ~IsEmpty(ob[u]) /\ Stale(u, PopFrame(ob[u])) =>
            \/ PopFrame(ob[u]).n \in Received(u)
            \/ \E i \in 1..Len(wire[u]) : wire[u][i] = PopFrame(ob[u])
=============================================================================
