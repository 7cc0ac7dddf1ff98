------------------------------- MODULE World --------------------------------
(***************************************************************************)
(* The intents of one world and the HTTP requests that write its documents *)
(* (internal/transport/ws/intents.go, combat.go, doors.go, chat.go,        *)
(* httpapi/scenes.go), as transactions on the store (sqlstore).            *)
(*                                                                         *)
(* A transaction reads (Begin), then writes and commits (Commit), then its *)
(* handler publishes.  On SQLite the pool has one connection, so nothing   *)
(* runs between a transaction's first and last statement (Serial).  On     *)
(* PostgreSQL transactions run at READ COMMITTED: others may commit        *)
(* between the read and the writes.  The writes and the commit are one     *)
(* step on both: AppendEvent locks the world's row until the commit, and a *)
(* transaction without an event has a single writing statement.            *)
(***************************************************************************)
EXTENDS Documents, FiniteSets

CONSTANTS
    Handler,     \* requests in flight at the same time
    Stores,      \* the stores a server may be configured with
    HTTPStores   \* those on which documents are also written over HTTP

ASSUME WorldAssumption ==
    /\ Stores \subseteq {"sqlite", "postgres"} /\ HTTPStores \subseteq Stores
    /\ MaxTokens \in Nat /\ MaxSeq \in Nat

VARIABLES
    store,      \* the driver openStore chose
    docs,       \* documents
    scene,      \* worlds.active_scene
    tokens,     \* tokens on the scene
    eventSeq,   \* worlds.event_seq
    log,        \* world_events
    tx,         \* what each request is doing
    announced,  \* history: rows whose events were published
    overwrote   \* history: a tracker was replaced by one made from an older copy

stored == <<docs, scene, tokens, eventSeq, log>>
vars == <<store, stored, tx, announced, overwrote>>

Idle == [op |-> "idle"]
Publishing(rows) == [op |-> "publish", rows |-> rows]

(* openStore: one store for the life of the server.                        *)
Serial == store = "sqlite"
HTTPWrites == store \in HTTPStores

Init ==
    /\ store \in Stores
    /\ docs = InitialDocs
    /\ scene \in Scene
    /\ tokens \in 0..MaxTokens
    /\ eventSeq = 0 /\ log = <<>>
    /\ tx = [h \in Handler |-> Idle]
    /\ announced = {} /\ overwrote = FALSE
-----------------------------------------------------------------------------
(* Wrong: the SQLite pool may grow as well.                                *)
ConnectionAlwaysFree == TRUE

(* Store.Tx: sqlite.Open allows one connection, held from BeginTx to the   *)
(* commit; postgres.Open allows sixteen.                                   *)
ConnectionFree == Serial => \A h \in Handler : tx[h].op \in {"idle", "publish"}

Begin(h, op) ==
    /\ tx[h] = Idle
    /\ ConnectionFree
    /\ tx' = [tx EXCEPT ![h] = op]
    /\ UNCHANGED <<stored, announced>>

(* AppendEvent, once per event: event_seq + 1 RETURNING, under the row's   *)
(* lock; then the handler publishes what it appended.                      *)
Append1(h, row) ==
    /\ eventSeq < MaxSeq
    /\ eventSeq' = eventSeq + 1
    /\ log' = Append(log, row)
    /\ tx' = [tx EXCEPT ![h] = Publishing(<<row>>)]
    /\ UNCHANGED <<tokens, announced>>

(* A statement or the commit fails, or the client goes away: rollback.     *)
Fail(h) ==
    /\ tx[h].op \notin {"idle", "publish"}
    /\ tx' = [tx EXCEPT ![h] = Idle]
    /\ UNCHANGED <<stored, announced>>

(* Hub.Publish, after Store.Tx has returned.                               *)
Publish(h) ==
    /\ tx[h].op = "publish"
    /\ announced' = announced \cup {Head(tx[h].rows)}
    /\ tx' = [tx EXCEPT ![h] =
                 IF Len(tx[h].rows) = 1 THEN Idle ELSE Publishing(Tail(tx[h].rows))]
    /\ UNCHANGED stored
-----------------------------------------------------------------------------
(* combat.start: ListDocuments, and a roll for each token.  It builds on   *)
(* no tracker (at is 0), the other two on the one they read.               *)
ReadTokens(h) ==
    /\ tokens > 0
    /\ Begin(h, [op |-> "combat", combat |-> NewCombat(tokens), at |-> 0])

(* combat.next.                                                            *)
ReadNext(h) ==
    /\ docs.combat # NoDocument
    /\ Running(docs.combat.data)
    /\ Begin(h, [op |-> "combat", combat |-> Advance(docs.combat.data), at |-> docs.combat.at])

(* combat.end, which does not ask whether the combat is running.           *)
ReadEnd(h) ==
    /\ docs.combat # NoDocument
    /\ Begin(h, [op |-> "combat", combat |-> Ended(docs.combat.data), at |-> docs.combat.at])

(* Wrong: the event is announced before the transaction has committed.     *)
CommitCombatEarly(h) ==
    /\ tx[h].op = "combat"
    /\ LET combat == tx[h].combat
           row == Row(eventSeq + 1, "staff", CombatKind(combat), "combat", combat)
       IN /\ eventSeq < MaxSeq
          /\ announced' = announced \cup {row}
          /\ \/ /\ tx' = [tx EXCEPT ![h] = Idle]
                /\ UNCHANGED stored
             \/ /\ eventSeq' = eventSeq + 1
                /\ log' = Append(log, row)
                /\ tx' = [tx EXCEPT ![h] = Publishing(<<row>>)]
                /\ docs' = [docs EXCEPT !.combat = CombatDocument(combat, eventSeq + 1)]
                /\ UNCHANGED <<scene, tokens>>

(* The tracker has changed since the handler read the one it builds on.    *)
Outdated(h) == tx[h].at # 0 /\ tx[h].at # docs.combat.at

(* commitCombat: the event, then the whole document.                       *)
CommitCombat(h) ==
    /\ tx[h].op = "combat"
    /\ LET combat == tx[h].combat IN
       /\ Append1(h, Row(eventSeq + 1, "staff", CombatKind(combat), "combat", combat))
       /\ docs' = [docs EXCEPT !.combat = CombatDocument(combat, eventSeq + 1)]
    /\ UNCHANGED scene
-----------------------------------------------------------------------------
(* scene.door.toggle: the wall is read whole, flipped and written whole,   *)
(* with an event for the door and one for what can be seen now.            *)
ReadDoor(h) == Begin(h, [op |-> "door", wall |-> docs.wall])

CommitDoor(h) ==
    /\ tx[h].op = "door"
    /\ eventSeq + 2 <= MaxSeq
    /\ LET wall == Toggled(tx[h].wall.data)
           rows == <<Row(eventSeq + 1, "staff", "scene.door.toggle", "wall", wall),
                     Row(eventSeq + 2, "staff", "scene.visibility", "scene", NoBody)>>
       IN /\ log' = log \o rows
          /\ docs' = [docs EXCEPT !.wall = Document(wall, tx[h].wall.acl, eventSeq + 1)]
          /\ tx' = [tx EXCEPT ![h] = Publishing(rows)]
    /\ eventSeq' = eventSeq + 2
    /\ UNCHANGED <<scene, tokens, announced>>
-----------------------------------------------------------------------------
(* applyPatch (scene.token.move, document.patch): GetDocument, Authorize.  *)
ReadPatch(h, by, field, value) ==
    /\ MayEdit(by, docs.token)
    /\ Begin(h, [op |-> "patch", by |-> by, field |-> field, value |-> value,
                 read |-> docs.token])

(* Wrong: the patch is applied to the copy that was authorized.            *)
CommitPatchOfRead(h) ==
    /\ tx[h].op = "patch"
    /\ Append1(h, Row(eventSeq + 1, tx[h].by, "document.patch", "token",
                      [f \in {tx[h].field} |-> tx[h].value]))
    /\ docs' = [docs EXCEPT
          !.token = Patched(tx[h].read, tx[h].field, tx[h].value, eventSeq + 1)]
    /\ UNCHANGED scene

(* AppendEvent and PatchDocument, an UPDATE of the fields it names.        *)
CommitPatch(h) ==
    /\ tx[h].op = "patch"
    /\ Append1(h, Row(eventSeq + 1, tx[h].by, "document.patch", "token",
                      [f \in {tx[h].field} |-> tx[h].value]))
    /\ docs' = [docs EXCEPT !.token = Patched(@, tx[h].field, tx[h].value, eventSeq + 1)]
    /\ UNCHANGED scene
-----------------------------------------------------------------------------
(* scene.activate: GetDocument, GetWorld.                                  *)
ReadWorld(h, s) == Begin(h, [op |-> "activate", scene |-> s, eventSeq |-> eventSeq])

(* Wrong: PutWorld also writes the event_seq that was read.                *)
CommitActivateSeq(h) ==
    /\ tx[h].op = "activate"
    /\ LET seq == tx[h].eventSeq + 1
           row == Row(seq, "staff", "scene.activate", "scene", [scene |-> tx[h].scene])
       IN /\ eventSeq < MaxSeq
          /\ eventSeq' = seq
          /\ log' = Append(log, row)
          /\ tx' = [tx EXCEPT ![h] = Publishing(<<row>>)]
    /\ scene' = tx[h].scene
    /\ UNCHANGED <<docs, tokens, announced>>

(* PutWorld, which leaves event_seq alone, and AppendEvent.                *)
CommitActivate(h) ==
    /\ tx[h].op = "activate"
    /\ Append1(h, Row(eventSeq + 1, "staff", "scene.activate", "scene",
                      [scene |-> tx[h].scene]))
    /\ scene' = tx[h].scene
    /\ UNCHANGED docs

(* chat.post and chat.roll: nothing of what they read can change; the      *)
(* message is a new document.                                              *)
ReadChat(h, by) == Begin(h, [op |-> "chat", by |-> by])

CommitChat(h) ==
    /\ tx[h].op = "chat"
    /\ Append1(h, Row(eventSeq + 1, tx[h].by, "chat.message", "message", NoBody))
    /\ UNCHANGED <<docs, scene>>
-----------------------------------------------------------------------------
(* setDocumentAccess: the document is read whole and written whole, with   *)
(* another ownership and no event.                                         *)
ReadAccess(h, id, level) ==
    /\ HTTPWrites
    /\ docs[id] # NoDocument
    /\ Begin(h, [op |-> "access", id |-> id, level |-> level, read |-> docs[id]])

CommitAccess(h) ==
    /\ tx[h].op = "access"
    /\ docs' = [docs EXCEPT ![tx[h].id] = [tx[h].read EXCEPT !.acl = tx[h].level]]
    /\ tx' = [tx EXCEPT ![h] = Idle]
    /\ UNCHANGED <<scene, tokens, eventSeq, log, announced>>

(* createToken: one writing statement, a new document.                     *)
CreateToken ==
    /\ HTTPWrites
    /\ ConnectionFree
    /\ tokens < MaxTokens
    /\ tokens' = tokens + 1
    /\ UNCHANGED <<docs, scene, eventSeq, log, tx, announced>>
-----------------------------------------------------------------------------
Read(h) ==
    \/ ReadTokens(h) \/ ReadNext(h) \/ ReadEnd(h) \/ ReadDoor(h)
    \/ \E by \in {"staff", "player"} :
          \/ ReadChat(h, by)
          \/ \E field \in {"place", "name"}, value \in Value : ReadPatch(h, by, field, value)
    \/ \E s \in Scene : ReadWorld(h, s)
    \/ \E id \in DocId, level \in Level : ReadAccess(h, id, level)

Commit(h) ==
    \/ CommitCombat(h) \/ CommitDoor(h) \/ CommitPatch(h)
    \/ CommitActivate(h) \/ CommitChat(h) \/ CommitAccess(h)

(* In this step h commits a tracker it made from an older one.             *)
Overwrites(h) == tx[h].op = "combat" /\ tx'[h].op = "publish" /\ Outdated(h)

Next ==
    /\ \/ \E h \in Handler : Read(h) \/ Commit(h) \/ Fail(h) \/ Publish(h)
       \/ CreateToken
    /\ overwrote' = (overwrote \/ \E h \in Handler : Overwrites(h))
    /\ UNCHANGED store

Spec == Init /\ [][Next]_vars
-----------------------------------------------------------------------------
IsDocument(document) == document.acl \in Level /\ document.at \in 0..MaxSeq

TypeOK ==
    /\ store \in Stores
    /\ \/ docs.combat = NoDocument
       \/ IsDocument(docs.combat) /\ docs.combat.data \in CombatData
    /\ IsDocument(docs.wall) /\ docs.wall.data \in [open : BOOLEAN]
    /\ IsDocument(docs.token) /\ docs.token.data \in [place : Value \cup {0}, name : Value \cup {0}]
    /\ scene \in Scene /\ tokens \in 0..MaxTokens
    /\ eventSeq \in 0..MaxSeq /\ DOMAIN log = 1..eventSeq

Rows(Test(_)) == {i \in 1..Len(log) : Test(log[i])}
Newest(rows) == CHOOSE i \in rows : \A j \in rows : j <= i

(* The sequences of the log are 1, 2, 3, ... and event_seq is the last of  *)
(* them, however transactions interleave and whatever scene.activate       *)
(* writes to the world's row (AppendEvent and PutWorld).                   *)
LogGapless == eventSeq = Len(log) /\ \A i \in 1..Len(log) : log[i].seq = i

(* README.md:214 "a turn that was announced is a turn that was committed": *)
(* every published event is the committed row of its sequence.             *)
AnnouncedWasCommitted ==
    \A row \in announced : row.seq \in 1..Len(log) /\ log[row.seq] = row

(* The documents are what the log says: the combat and the door are as     *)
(* their newest event left them, every field of the token is as the newest *)
(* event about it set it, and updated_seq names that event.  This holds on *)
(* both stores as long as only intents write, since each writes its        *)
(* document and its event under the world's row lock.                      *)
DocumentsMatchLog ==
    LET About(id) == Rows(LAMBDA row : row.id = id)
        Setting(f) == Rows(LAMBDA row : row.id = "token" /\ f \in DOMAIN row.body)
    IN /\ \A id \in DocId : About(id) # {} => docs[id].at = Newest(About(id))
       /\ \A id \in {"combat", "wall"} :
             About(id) # {} => docs[id].data = log[Newest(About(id))].body
       /\ \A f \in {"place", "name"} :
             Setting(f) # {} => docs.token.data[f] = log[Newest(Setting(f))].body[f]

(* On SQLite a world implements the table: every transaction acts on the   *)
(* documents as they are when it commits.                                  *)
TableSpec == INSTANCE Table
ImplementsTable == TableSpec!Init /\ [][Serial => TableSpec!Next]_(TableSpec!vars)

(* combat.next moves on by exactly one turn, so a running combat has seen  *)
(* as many turns as combat.next was committed since it started, unless the *)
(* tracker was ever replaced by one made from an older copy: only then can *)
(* a turn be lost or be taken twice (handleCombatNext, commitCombat).      *)
TurnsCounted ==
    LET combats == Rows(LAMBDA row : row.id = "combat")
        starts == Rows(LAMBDA row : row.id = "combat" /\ row.body = NewCombat(row.body.size))
        c == docs.combat.data
    IN docs.combat # NoDocument /\ c.active /\ ~overwrote =>
          (c.round - 1) * c.size + c.turn = Cardinality({i \in combats : i > Newest(starts)})

(* On SQLite it never is: the pool's one connection keeps a transaction    *)
(* that would overtake the reader out until the reader has committed.      *)
SerialNeverOverwrites == Serial => ~overwrote
=============================================================================
