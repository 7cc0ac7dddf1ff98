------------------------------- MODULE Scene --------------------------------
(***************************************************************************)
(* What the members at a table are told about the tokens of a scene, and   *)
(* when: live, in the frames a token move or a door computes inside its    *)
(* transaction; on reconnecting, from a replay that projects the documents *)
(* as they are by then; and over HTTP, from a listing.  Replay and listing *)
(* read outside a transaction, one query after the other, while tokens     *)
(* move, doors open and owners change.                                     *)
(*                                                                         *)
(* Transactions are atomic here, as on SQLite's single connection; the     *)
(* queries of a ReadOnly are not one transaction there either.  Events are *)
(* published in the order of the log.  World and Gateway are about the     *)
(* cases left out: overlapping transactions, overtaken publications, full  *)
(* lanes and cut replays.                                                  *)
(***************************************************************************)
EXTENDS Sight, Sequences

CONSTANTS
    User,       \* the members of the world
    RoleOf,     \* RoleOf[u]: the role of u in world_members
    Token,      \* the tokens of the scene
    Place,      \* bound: where a token may stand
    Door,       \* the doors of the scene
    DoorAt,     \* DoorAt[d]: the segment of door d
    AccessLevel,\* bound: levels that are granted to a user
    MaxSeq,     \* bound: events and access changes
    MaxGrants   \* bound: access changes

ASSUME SceneAssumption ==
    /\ RoleOf \in [User -> Roles]
    /\ Place \subseteq Point /\ DoorAt \in [Door -> Segment]
    /\ AccessLevel \subseteq Levels
    /\ MaxSeq \in Nat /\ MaxGrants \in Nat

VARIABLES
    token,      \* token[t]: position and access control list of a token
    open,       \* open[d]: doorOpen of a door
    log,        \* world_events: the token an event is about, or None
    grants,     \* access changes so far, for MaxGrants
    pc,         \* pc[u]: what u's session, or listing, is doing
    todo,       \* todo[u]: events the replay still has to project
    read,       \* read[u]: what the queries for one item have returned so far
    replay,     \* replay[u]: frames of the replay in progress, or the listing
    lane,       \* lane[u]: frames the hub has pushed, then the document lane
    seen,       \* seen[u]: the sequence u received last
    told        \* told[u][t]: where u was last told that t stands

vars == <<token, open, log, grants, pc, todo, read, replay, lane, seen, told>>
docs == <<token, open, log, grants>>

None == "none"
Untold == <<0>>
Pos == Place \cup {Unreadable}
NoRead == [tokens |-> <<>>]
Player == {u \in User : ~IsStaff(RoleOf[u])}

(* setDocumentAccess sets the entry of one user.                           *)
WithLevel(acl, u, level) ==
    [k \in DOMAIN acl \cup {u} |-> IF k = u THEN level ELSE acl[k]]

(* createToken lets everybody observe.                                     *)
NewACL == [k \in {DefaultKey} |-> LevelObserver]
ACLs == {NewACL} \cup {WithLevel(NewACL, u, level) : u \in Player, level \in AccessLevel}

(* A scene somebody has prepared: no event yet, nobody at the table.       *)
Init ==
    /\ token \in [Token -> [pos : Place, acl : ACLs]]
    /\ open \in [Door -> BOOLEAN]
    /\ log = <<>> /\ grants = 0
    /\ pc = [u \in User |-> "off"]
    /\ todo = [u \in User |-> <<>>]
    /\ read = [u \in User |-> NoRead]
    /\ replay = [u \in User |-> <<>>]
    /\ lane = [u \in User |-> <<>>]
    /\ seen = [u \in User |-> 0]
    /\ told = [u \in User |-> [t \in Token |-> Untold]]
-----------------------------------------------------------------------------
(* createWall, with door set: it blocks sight while it is closed.          *)
Walls == {[segment |-> DoorAt[d], blocksSight |-> TRUE, door |-> TRUE, open |-> open[d]] :
            d \in Door}
Blockers == BlockersOf(Walls)
Viewpoints(u) == ViewpointsOf(u, RoleOf[u], token)
Level(u, doc) == Grant(u, RoleOf[u], doc)

(* The positions in the redacted views of some tokens.                     *)
Shown(u, tokens, visible) ==
    [t \in {t \in visible : ShowsData(Level(u, tokens[t]))} |-> tokens[t].pos]

(* Whether u, as things stand, would be told live where t is.              *)
MayKnow(u, t) ==
    /\ ShowsData(Level(u, token[t]))
    /\ u \in Filter({u}, RoleOf, token[t].pos, Blockers, [v \in {u} |-> Viewpoints(v)])

(* An event about tokens; a visibility update lists all that can be seen.  *)
Frame(seq, shown, all) == [seq |-> seq, shown |-> shown, all |-> all]

(* The hub pushes a publication to the sessions that have joined.          *)
Joined(u) == pc[u] \notin {"off", "list", "listed"}
Push(frames) == lane' = [u \in User |-> IF Joined(u) THEN lane[u] \o frames[u] ELSE lane[u]]

(* History: what was committed since the first query of a read.            *)
Touch ==
    read' = [u \in User |-> IF read[u] = NoRead THEN NoRead
                            ELSE [read[u] EXCEPT !.commits = Least(@ + 1, 2)]]
-----------------------------------------------------------------------------
(* scene.token.move, or a document.patch that leaves no readable position: *)
(* the views and the line of sight are resolved inside the transaction.    *)
Patch(u, t, pos) ==
    /\ pc[u] = "live"
    /\ CanEdit(RoleOf[u], Level(u, token[t]))
    /\ Len(log) + grants < MaxSeq
    /\ token' = [token EXCEPT ![t].pos = pos]
    /\ log' = Append(log, t)
    /\ LET views == {v \in User : CanRead(Level(v, token'[t]))}
           points == [v \in User |-> ViewpointsOf(v, RoleOf[v], token')]
           recipients == Filter(views, RoleOf, pos, Blockers, points)
       IN Push([v \in User |->
                  IF v \in recipients
                  THEN <<Frame(Len(log) + 1, Shown(v, token', {t}), FALSE)>> ELSE <<>>])
    /\ Touch
    /\ UNCHANGED <<open, grants, pc, todo, replay, seen, told>>

(* scene.door.toggle: two events, the second with what each member sees    *)
(* through the door as it is now.                                          *)
Toggle(u, d) ==
    /\ pc[u] = "live"
    /\ IsStaff(RoleOf[u])
    /\ Len(log) + grants + 2 <= MaxSeq
    /\ open' = [open EXCEPT ![d] = ~@]
    /\ log' = log \o <<None, None>>
    /\ Push([v \in User |->
          LET visible == VisibleTokens(RoleOf[v], token, Blockers', Viewpoints(v))
          IN <<Frame(Len(log) + 1, <<>>, FALSE),
               Frame(Len(log) + 2, Shown(v, token, visible), TRUE)>>])
    /\ Touch
    /\ UNCHANGED <<token, grants, pc, todo, replay, seen, told>>

(* setDocumentAccess, over HTTP: no event tells anybody.                   *)
SetAccess(u, t, level) ==
    /\ grants < MaxGrants
    /\ Len(log) + grants < MaxSeq
    /\ grants' = grants + 1
    /\ token' = [token EXCEPT ![t].acl = WithLevel(@, u, level)]
    /\ Touch
    /\ UNCHANGED <<open, log, pc, todo, replay, lane, seen, told>>
-----------------------------------------------------------------------------
(* Serve: the session joins the hub before it catches up.                  *)
Join(u) ==
    /\ pc[u] = "off"
    /\ pc' = [pc EXCEPT ![u] = "joined"]
    /\ UNCHANGED <<docs, todo, read, replay, lane, seen, told>>

(* welcome, then EventsSince for the replay.                               *)
EventsSince(u) ==
    /\ pc[u] = "joined"
    /\ pc' = [pc EXCEPT ![u] = "replay"]
    /\ todo' = [todo EXCEPT ![u] = [i \in 1..Len(log) - seen[u] |-> seen[u] + i]]
    /\ UNCHANGED <<docs, read, replay, lane, seen, told>>

(* The replay gets a frame for its current event, or leaves it out.        *)
EndItem(u, shown, include) ==
    /\ pc' = [pc EXCEPT ![u] = "replay"]
    /\ todo' = [todo EXCEPT ![u] = Tail(@)]
    /\ replay' = [replay EXCEPT ![u] =
                    IF include THEN Append(@, Frame(Head(todo[u]), shown, FALSE)) ELSE @]
    /\ read' = [read EXCEPT ![u] = NoRead]
    /\ UNCHANGED told

(* The listing is complete.                                                *)
EndListing(u, shown) ==
    /\ pc' = [pc EXCEPT ![u] = "listed"]
    /\ replay' = [replay EXCEPT ![u] = <<Frame(0, shown, TRUE)>>]
    /\ read' = [read EXCEPT ![u] = NoRead]
    /\ UNCHANGED <<todo, told>>

(* It is answered; what the client makes of it is its own affair.          *)
Answer(u) ==
    /\ pc[u] = "listed"
    /\ pc' = [pc EXCEPT ![u] = "off"]
    /\ replay' = [replay EXCEPT ![u] = <<>>]
    /\ UNCHANGED <<docs, todo, read, lane, seen, told>>

BeginRead(u, tokens, next) ==
    /\ pc' = [pc EXCEPT ![u] = next]
    /\ read' = [read EXCEPT ![u] =
          [tokens |-> tokens, blockers |-> {}, commits |-> 0,
           known |-> {t \in DOMAIN tokens : MayKnow(u, t)}]]
    /\ UNCHANGED <<todo, replay, told>>

(* replayPayload reads the document of an event about a token.  Somebody   *)
(* who may not read it is not told; staff, and a position that does not    *)
(* decode, need no line of sight.  Scenes and doors are for everybody, and *)
(* say nothing about tokens in a replay.                                   *)
GetDocument(u) ==
    /\ pc[u] = "replay"
    /\ todo[u] # <<>>
    /\ LET t == log[Head(todo[u])]
           copy == [x \in {t} |-> token[t]]
       IN IF t = None THEN EndItem(u, <<>>, TRUE)
          ELSE IF ~CanRead(Level(u, token[t])) THEN EndItem(u, <<>>, FALSE)
          ELSE IF IsStaff(RoleOf[u]) \/ token[t].pos = Unreadable
               THEN EndItem(u, Shown(u, copy, {t}), TRUE)
          ELSE BeginRead(u, copy, "item")
    /\ UNCHANGED <<docs, lane, seen>>

(* listTokens: the documents first.  (Staff are listed all of them.)       *)
ListDocuments(u) ==
    /\ pc[u] = "off"
    /\ BeginRead(u, token, "list")
    /\ UNCHANGED <<docs, lane, seen>>

(* BlockersOf; without a blocker nobody asks for viewpoints.               *)
ReadWalls(u) ==
    /\ pc[u] \in {"item", "list"}
    /\ read[u] # NoRead /\ read[u].blockers = {}
    /\ LET tokens == read[u].tokens
           all == Shown(u, tokens, DOMAIN tokens)
       IN IF Blockers = {}
          THEN IF pc[u] = "list" THEN EndListing(u, all) ELSE EndItem(u, all, TRUE)
          ELSE /\ read' = [read EXCEPT ![u].blockers = Blockers]
               /\ UNCHANGED <<pc, todo, replay, told>>
    /\ UNCHANGED <<docs, lane, seen>>

(* ViewpointsOf, and the answer.                                           *)
ReadViewpoints(u) ==
    /\ read[u] # NoRead
    /\ read[u].blockers # {}
    /\ LET tokens == read[u].tokens
           listed == VisibleTokens(RoleOf[u], tokens, read[u].blockers, Viewpoints(u))
           replayed == {t \in DOMAIN tokens :
               CanSee(RoleOf[u], tokens[t].pos, read[u].blockers, Viewpoints(u))}
       IN IF pc[u] = "list" THEN EndListing(u, Shown(u, tokens, listed))
          ELSE EndItem(u, Shown(u, tokens, replayed), replayed # {})
    /\ UNCHANGED <<docs, lane, seen>>
-----------------------------------------------------------------------------
(* Wrong: the replay goes behind what arrived while it was read.           *)
AppendReplay(u) ==
    /\ pc[u] = "replay"
    /\ todo[u] = <<>>
    /\ pc' = [pc EXCEPT ![u] = "live"]
    /\ lane' = [lane EXCEPT ![u] = @ \o replay[u]]
    /\ replay' = [replay EXCEPT ![u] = <<>>]
    /\ UNCHANGED <<docs, todo, read, seen, told>>

(* PrependDocument; then the session reads intents and writes frames.      *)
Prepend(u) ==
    /\ pc[u] = "replay"
    /\ todo[u] = <<>>
    /\ pc' = [pc EXCEPT ![u] = "live"]
    /\ lane' = [lane EXCEPT ![u] = replay[u] \o @]
    /\ replay' = [replay EXCEPT ![u] = <<>>]
    /\ UNCHANGED <<docs, todo, read, seen, told>>

(* writeLoop: an event that is not newer than the last is dropped.         *)
Send(u) ==
    /\ pc[u] = "live"
    /\ lane[u] # <<>>
    /\ LET frame == Head(lane[u])
       IN IF frame.seq <= seen[u] THEN UNCHANGED <<seen, told>>
          ELSE /\ seen' = [seen EXCEPT ![u] = frame.seq]
               /\ told' = [told EXCEPT ![u] = [t \in Token |->
                    IF t \in DOMAIN frame.shown THEN frame.shown[t]
                    ELSE IF frame.all THEN Untold ELSE @[t]]]
    /\ lane' = [lane EXCEPT ![u] = Tail(@)]
    /\ UNCHANGED <<docs, pc, todo, read, replay>>

(* Wrong: the queries of the replay go on after the session.               *)
DisconnectMidRead(u) ==
    /\ Joined(u)
    /\ pc' = [pc EXCEPT ![u] = "off"]
    /\ todo' = [todo EXCEPT ![u] = <<>>]
    /\ replay' = [replay EXCEPT ![u] = <<>>]
    /\ lane' = [lane EXCEPT ![u] = <<>>]
    /\ UNCHANGED <<docs, read, seen, told>>

(* The connection breaks; the client will continue from what it has seen.  *)
Disconnect(u) ==
    /\ Joined(u)
    /\ pc' = [pc EXCEPT ![u] = "off"]
    /\ todo' = [todo EXCEPT ![u] = <<>>]
    /\ read' = [read EXCEPT ![u] = NoRead]
    /\ replay' = [replay EXCEPT ![u] = <<>>]
    /\ lane' = [lane EXCEPT ![u] = <<>>]
    /\ UNCHANGED <<docs, seen, told>>

Next ==
    \/ \E u \in User, t \in Token, pos \in Pos : Patch(u, t, pos)
    \/ \E u \in User, d \in Door : Toggle(u, d)
    \/ \E u \in Player, t \in Token, level \in AccessLevel : SetAccess(u, t, level)
    \/ \E u \in Player : ListDocuments(u)
    \/ \E u \in User :
          \/ Join(u) \/ EventsSince(u) \/ GetDocument(u)
          \/ ReadWalls(u) \/ ReadViewpoints(u) \/ Answer(u)
          \/ Prepend(u) \/ Send(u) \/ Disconnect(u)

Spec == Init /\ [][Next]_vars
-----------------------------------------------------------------------------
AccessLists == UNION {[users \cup {DefaultKey} -> Levels] : users \in SUBSET User}
Documents == [pos : Pos, acl : AccessLists]
Reads ==
    [tokens : UNION {[ts -> Documents] : ts \in SUBSET Token},
     blockers : SUBSET {DoorAt[d] : d \in Door}, commits : 0..2,
     known : SUBSET Token]

TypeOK ==
    /\ token \in [Token -> Documents]
    /\ open \in [Door -> BOOLEAN]
    /\ Len(log) <= MaxSeq /\ \A i \in 1..Len(log) : log[i] \in Token \cup {None}
    /\ grants \in 0..MaxGrants
    /\ pc \in [User -> {"off", "list", "listed", "joined", "replay", "item", "live"}]
    /\ \A u \in User :
          /\ read[u] = NoRead \/ read[u] \in Reads
          /\ read[u] # NoRead <=> pc[u] \in {"item", "list"}
          /\ pc[u] = "item" => todo[u] # <<>>
          /\ seen[u] \in 0..Len(log)
          /\ told[u] \in [Token -> Pos \cup {Untold}]

(* When a session has caught up, staff know where every token stands that  *)
(* was moved, and so do the owners of a token, unless it stands on a door  *)
(* or nowhere: the replay's stand-ins for old events, the live frames that *)
(* arrived meanwhile and the door updates leave no stale position behind.  *)
OnDoor(pos) == \E d \in Door : Crosses(<<pos, pos>>, DoorAt[d])
CaughtUp(u) == pc[u] = "live" /\ lane[u] = <<>>
Converges ==
    \A u \in User, i \in 1..Len(log) :
        CaughtUp(u) /\ log[i] # None =>
            LET pos == token[log[i]].pos
            IN \/ told[u][log[i]] = pos
               \/ ~IsStaff(RoleOf[u])
                  /\ \/ Level(u, token[log[i]]) # LevelOwner \/ grants > 0
                     \/ pos = Unreadable \/ OnDoor(pos)

(* A replayed or listed position is one the user would have been told live *)
(* when the first or the last of its queries ran.  For the answer to mix   *)
(* states none of which would have shown it, two commits must fall between *)
(* the queries, or one that takes the user's last viewpoint: who has none  *)
(* sees all.                                                               *)
Shows(u) ==
    IF Len(replay'[u]) > Len(replay[u]) THEN replay'[u][Len(replay'[u])].shown
    ELSE <<>>
ReadsShowTheVisible ==
    [][\A u \in User :
          read[u] # NoRead /\ read'[u] = NoRead /\ read[u].commits < 2 =>
              \A t \in DOMAIN Shows(u) :
                  Shows(u)[t] # Unreadable =>
                      \/ t \in read[u].known
                      \/ Viewpoints(u) = {}
                      \/ MayKnow(u, t) /\ token[t].pos = Shows(u)[t]]_vars
=============================================================================
