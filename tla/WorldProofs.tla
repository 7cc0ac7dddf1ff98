---------------------------- MODULE WorldProofs -----------------------------
(***************************************************************************)
(* What the intents and HTTP requests of a world keep, on both stores and  *)
(* for any number of handlers, events, tokens and values, and that on      *)
(* SQLite they implement the abstract table.                               *)
(***************************************************************************)
EXTENDS World, SequenceTheorems, FiniteSetTheorems, TLAPS

(* Zenon is the prover of a step that names no other.                      *)
USE ZenonT(30)

Kept(Data) == [data : Data, acl : Level, at : 0..MaxSeq]
WallData == [open : BOOLEAN]
TokenData == [place : Value \cup {0}, name : Value \cup {0}]
Who == {"staff", "player"}
Field == {"place", "name"}

(* The type of an event's row.                                             *)
Body ==
    CombatData \cup WallData \cup {NoBody} \cup [scene : Scene]
    \cup UNION {[{f} -> Value] : f \in Field}
LogRow ==
    [seq : Nat, by : Who,
     kind : {"combat.update", "combat.end", "scene.door.toggle", "scene.visibility",
             "document.patch", "scene.activate", "chat.message"},
     id : {"combat", "wall", "token", "scene", "message"}, body : Body]
InLog == {log[i] : i \in 1..Len(log)}

(* What a request may be doing.                                            *)
CombatTx == [op : {"combat"}, combat : CombatData, at : 0..MaxSeq]
DoorTx == [op : {"door"}, wall : Kept(WallData)]
PatchTx == [op : {"patch"}, by : Who, field : Field, value : Value, read : Kept(TokenData)]
ActivateTx == [op : {"activate"}, scene : Scene, eventSeq : Nat]
ChatTx == [op : {"chat"}, by : Who]
AccessTx(id, Data) == [op : {"access"}, id : {id}, level : Level, read : Kept(Data)]
Working ==
    CombatTx \cup DoorTx \cup PatchTx \cup ActivateTx \cup ChatTx
    \cup AccessTx("combat", CombatData) \cup AccessTx("wall", WallData)
    \cup AccessTx("token", TokenData)
PublishTx == [op : {"publish"}, rows : Seq(InLog) \ {<<>>}]

DocsTyped ==
    docs \in [combat : Kept(CombatData) \cup {NoDocument}, wall : Kept(WallData),
              token : Kept(TokenData)]

(* The log has no gap; what is announced, or about to be, is in it.        *)
IInv ==
    /\ store \in Stores /\ DocsTyped
    /\ scene \in Scene /\ tokens \in 0..MaxTokens /\ eventSeq \in 0..MaxSeq
    /\ log \in Seq(LogRow) /\ LogGapless
    /\ announced \subseteq InLog /\ overwrote \in BOOLEAN
    /\ tx \in [Handler -> {Idle} \cup Working \cup PublishTx]

(* Combats keep their type: the turn stays one of a combatant's.           *)
LEMMA CombatsTyped ==
  /\ \A size \in 1..MaxTokens : NewCombat(size) \in CombatData
  /\ \A c \in CombatData : Ended(c) \in CombatData /\ (Running(c) => Advance(c) \in CombatData)
<1> USE WorldAssumption
<1>1. \A size \in 1..MaxTokens : NewCombat(size) \in CombatData
  BY SMTT(30) DEF NewCombat, CombatData
<1>2. ASSUME NEW c \in CombatData PROVE Ended(c) \in CombatData
  <2>1. c \in [active : BOOLEAN, round : Nat, turn : Nat, size : 0..MaxTokens]
    BY DEF CombatData
  <2>2. 0 \in 0..MaxTokens
    BY SMTT(30)
  <2>3. Ended(c) \in [active : BOOLEAN, round : Nat, turn : Nat, size : 0..MaxTokens]
    BY <2>1, <2>2 DEF Ended
  <2>4. Ended(c).active = FALSE
    BY <2>1 DEF Ended
  <2> QED BY <2>3, <2>4 DEF CombatData
<1>3. ASSUME NEW c \in CombatData, Running(c) PROVE Advance(c) \in CombatData
  <2>1. /\ c \in [active : BOOLEAN, round : Nat, turn : Nat, size : 0..MaxTokens]
        /\ c.active /\ c.turn < c.size /\ c.round >= 1
    BY <1>3 DEF Running, CombatData
  <2>2. CASE c.turn + 1 >= c.size
    <3>1. Advance(c) = [active |-> c.active, round |-> c.round + 1, turn |-> 0, size |-> c.size]
      BY <2>1, <2>2 DEF Advance
    <3> QED BY <2>1, <3>1, SMTT(30) DEF CombatData
  <2>3. CASE ~(c.turn + 1 >= c.size)
    <3>1. Advance(c) =
            [active |-> c.active, round |-> c.round, turn |-> c.turn + 1, size |-> c.size]
      BY <2>1, <2>3 DEF Advance
    <3> QED BY <2>1, <2>3, <3>1, SMTT(30) DEF CombatData
  <2> QED BY <2>2, <2>3
<1> QED BY <1>1, <1>2, <1>3

(* What is in the log stays in the log.                                    *)
LEMMA InLogGrows ==
  ASSUME Len(log) \in Nat, Len(log') \in Nat, Len(log) <= Len(log'),
         \A i \in 1..Len(log) : log'[i] = log[i]
  PROVE  InLog \subseteq InLog' /\ PublishTx \subseteq PublishTx'
<1>1. InLog \subseteq InLog'
  BY SMTT(30) DEF InLog
<1>2. Seq(InLog) \subseteq Seq(InLog')
  BY <1>1, SMTT(30)
<1> QED BY <1>1, <1>2 DEF PublishTx

(* Starting a transaction leaves everything stored as it is.               *)
LEMMA BeginStep ==
  ASSUME IInv, NEW h \in Handler, NEW op \in Working, Begin(h, op), store' = store,
         overwrote' \in BOOLEAN
  PROVE  IInv'
<1>1. /\ UNCHANGED <<docs, scene, tokens, eventSeq, log, announced>>
      /\ tx' = [tx EXCEPT ![h] = op]
  BY DEF Begin, stored
<1>2. InLog' = InLog /\ PublishTx' = PublishTx
  BY <1>1 DEF InLog, PublishTx
<1>3. tx' \in [Handler -> {Idle} \cup Working \cup PublishTx]
  BY <1>1 DEF IInv
<1> QED BY <1>1, <1>2, <1>3 DEF IInv, DocsTyped, LogGapless

(* The fields of what a request may be doing.                              *)
LEMMA Operations ==
  /\ Idle.op = "idle"
  /\ \A t \in Working : t.op \notin {"idle", "publish"}
  /\ \A t \in PublishTx : t.op = "publish" /\ t.rows \in Seq(InLog) /\ t.rows # <<>>
  /\ \A t \in {Idle} \cup Working \cup PublishTx :
        /\ t.op = "combat" => t \in CombatTx
        /\ t.op = "door" => t \in DoorTx
        /\ t.op = "patch" => t \in PatchTx
        /\ t.op = "activate" => t \in ActivateTx
        /\ t.op = "chat" => t \in ChatTx
        /\ t.op = "publish" => t \in PublishTx
        /\ t.op = "access" => t \in AccessTx("combat", CombatData)
                                 \cup AccessTx("wall", WallData) \cup AccessTx("token", TokenData)
BY SMTT(30) DEF Idle, Working, PublishTx, CombatTx, DoorTx, PatchTx, ActivateTx, ChatTx, AccessTx

(* What a request finds when it reads makes a well-formed transaction.     *)
LEMMA ReadStep ==
  ASSUME IInv, NEW h \in Handler, Read(h), store' = store, overwrote' \in BOOLEAN
  PROVE  IInv'
<1> USE WorldAssumption
<1>1. /\ docs.combat \in Kept(CombatData) \cup {NoDocument}
      /\ docs.wall \in Kept(WallData) /\ docs.token \in Kept(TokenData)
      /\ tokens \in 0..MaxTokens /\ eventSeq \in Nat
  BY SMTT(30) DEF IInv, DocsTyped
<1>2. docs.combat # NoDocument => docs.combat.data \in CombatData /\ docs.combat.at \in 0..MaxSeq
  BY <1>1 DEF Kept
<1>3. CASE ReadTokens(h)
  <2>1. [op |-> "combat", combat |-> NewCombat(tokens), at |-> 0] \in Working
    BY <1>1, <1>3, CombatsTyped, SMTT(30) DEF ReadTokens, Working, CombatTx
  <2> QED BY <1>3, <2>1, BeginStep DEF ReadTokens
<1>4. CASE ReadNext(h)
  <2>1. [op |-> "combat", combat |-> Advance(docs.combat.data), at |-> docs.combat.at] \in Working
    BY <1>2, <1>4, CombatsTyped DEF ReadNext, Working, CombatTx
  <2> QED BY <1>4, <2>1, BeginStep DEF ReadNext
<1>5. CASE ReadEnd(h)
  <2>1. [op |-> "combat", combat |-> Ended(docs.combat.data), at |-> docs.combat.at] \in Working
    BY <1>2, <1>5, CombatsTyped DEF ReadEnd, Working, CombatTx
  <2> QED BY <1>5, <2>1, BeginStep DEF ReadEnd
<1>6. CASE ReadDoor(h)
  <2>1. [op |-> "door", wall |-> docs.wall] \in Working
    BY <1>1 DEF Working, DoorTx
  <2> QED BY <1>6, <2>1, BeginStep DEF ReadDoor
<1>7. ASSUME NEW by \in {"staff", "player"}, ReadChat(h, by) PROVE IInv'
  <2>1. [op |-> "chat", by |-> by] \in Working
    BY DEF Working, ChatTx, Who
  <2> QED BY <1>7, <2>1, BeginStep DEF ReadChat
<1>8. ASSUME NEW by \in {"staff", "player"}, NEW field \in {"place", "name"}, NEW value \in Value,
             ReadPatch(h, by, field, value)
      PROVE  IInv'
  <2>1. [op |-> "patch", by |-> by, field |-> field, value |-> value, read |-> docs.token] \in Working
    BY <1>1 DEF Working, PatchTx, Who, Field
  <2> QED BY <1>8, <2>1, BeginStep DEF ReadPatch
<1>9. ASSUME NEW s \in Scene, ReadWorld(h, s) PROVE IInv'
  <2>1. [op |-> "activate", scene |-> s, eventSeq |-> eventSeq] \in Working
    BY <1>1 DEF Working, ActivateTx
  <2> QED BY <1>9, <2>1, BeginStep DEF ReadWorld
<1>10. ASSUME NEW id \in DocId, NEW level \in Level, ReadAccess(h, id, level) PROVE IInv'
  <2> DEFINE t == [op |-> "access", id |-> id, level |-> level, read |-> docs[id]]
  <2>1. CASE id = "combat"
    <3>1. docs[id] \in Kept(CombatData)
      BY <1>1, <1>10, <2>1 DEF ReadAccess
    <3>2. t \in AccessTx("combat", CombatData)
      BY <2>1, <3>1 DEF AccessTx
    <3> QED BY <1>10, <3>2, BeginStep DEF ReadAccess, Working
  <2>2. CASE id = "wall"
    <3>1. t \in AccessTx("wall", WallData)
      BY <1>1, <2>2 DEF AccessTx
    <3> QED BY <1>10, <3>1, BeginStep DEF ReadAccess, Working
  <2>3. CASE id = "token"
    <3>1. t \in AccessTx("token", TokenData)
      BY <1>1, <2>3 DEF AccessTx
    <3> QED BY <1>10, <3>1, BeginStep DEF ReadAccess, Working
  <2> QED BY <2>1, <2>2, <2>3 DEF DocId
<1> QED
  BY <1>3, <1>4, <1>5, <1>6, <1>7, <1>8, <1>9, <1>10 DEF Read

(* Committing some events, whatever else is written with them.             *)
LEMMA GrownLog ==
  ASSUME IInv, NEW h \in Handler, NEW rows \in Seq(LogRow), rows # <<>>,
         \A i \in 1..Len(rows) : rows[i].seq = Len(log) + i,
         log' = log \o rows, eventSeq' = Len(log) + Len(rows), eventSeq' <= MaxSeq,
         tx' = [tx EXCEPT ![h] = Publishing(rows)],
         UNCHANGED <<tokens, announced, store>>,
         DocsTyped', scene' \in Scene, overwrote' \in BOOLEAN
  PROVE  IInv'
<1>1. /\ log \in Seq(LogRow) /\ Len(log) \in Nat /\ \A i \in 1..Len(log) : log[i].seq = i
      /\ announced \subseteq InLog /\ Len(rows) \in Nat
  BY SMTT(30) DEF IInv, LogGapless
<1>2. /\ log' \in Seq(LogRow) /\ Len(log') = Len(log) + Len(rows)
      /\ \A i \in 1..Len(log) : log'[i] = log[i]
      /\ \A i \in 1..Len(rows) : log'[Len(log) + i] = rows[i]
  <2> DEFINE l == log
  <2>1. l \in Seq(LogRow) BY <1>1
  <2> HIDE DEF l
  <2>2. /\ l \o rows \in Seq(LogRow) /\ Len(l \o rows) = Len(l) + Len(rows)
        /\ \A i \in 1..Len(l) : (l \o rows)[i] = l[i]
        /\ \A i \in 1..Len(rows) : (l \o rows)[Len(l) + i] = rows[i]
    BY <2>1, SMTT(30)
  <2> QED BY <2>2 DEF l
<1>3. \A i \in 1..Len(log') : log'[i].seq = i
  <2> SUFFICES ASSUME NEW i \in 1..Len(log') PROVE log'[i].seq = i
    OBVIOUS
  <2>1. CASE i \in 1..Len(log) BY <1>1, <1>2, <2>1
  <2>2. CASE i \notin 1..Len(log)
    <3>1. i - Len(log) \in 1..Len(rows) /\ i = Len(log) + (i - Len(log))
      BY <1>1, <1>2, <2>2, SMTT(30)
    <3> QED BY <1>1, <1>2, <3>1
  <2> QED BY <2>1, <2>2
<1>4. InLog \subseteq InLog' /\ PublishTx \subseteq PublishTx'
  BY <1>1, <1>2, InLogGrows, SMTT(30)
<1>5. rows \in Seq(InLog')
  <2>1. ASSUME NEW i \in 1..Len(rows) PROVE rows[i] \in InLog'
    <3>1. Len(log) + i \in 1..Len(log') BY <1>1, <1>2, SMTT(30)
    <3> QED BY <1>2, <3>1 DEF InLog
  <2> QED BY <2>1, SMTT(30)
<1>6. Publishing(rows) \in PublishTx'
  BY <1>5 DEF Publishing, PublishTx
<1>7. tx' \in [Handler -> {Idle} \cup Working \cup PublishTx']
  BY <1>4, <1>6 DEF IInv
<1>8. eventSeq' \in 0..MaxSeq
  BY <1>1, WorldAssumption, SMTT(30)
<1>9. LogGapless' /\ announced' \subseteq InLog'
  BY <1>1, <1>2, <1>3, <1>4 DEF LogGapless
<1> QED BY <1>2, <1>7, <1>8, <1>9 DEF IInv

(* The same for one event.                                                 *)
LEMMA AppendStep ==
  ASSUME IInv, NEW h \in Handler, NEW row \in LogRow, row.seq = eventSeq + 1,
         Append1(h, row), store' = store, DocsTyped', scene' \in Scene, overwrote' \in BOOLEAN
  PROVE  IInv'
<1>1. eventSeq = Len(log) /\ log \in Seq(LogRow) /\ eventSeq \in Nat
  BY SMTT(30) DEF IInv, LogGapless
<1> DEFINE rows == <<row>>
<1>2. /\ rows \in Seq(LogRow) /\ rows # <<>> /\ Len(rows) = 1
      /\ \A i \in 1..Len(rows) : rows[i].seq = Len(log) + i
  BY <1>1, SMTT(30)
<1>3. log' = log \o rows
  BY <1>1, SMTT(30) DEF Append1
<1>4. eventSeq' = Len(log) + Len(rows) /\ eventSeq' <= MaxSeq
  BY <1>1, <1>2, WorldAssumption, SMTT(30) DEF Append1
<1>5. tx' = [tx EXCEPT ![h] = Publishing(rows)] /\ UNCHANGED <<tokens, announced, store>>
  BY DEF Append1
<1> HIDE DEF rows
<1> QED BY <1>2, <1>3, <1>4, <1>5, GrownLog

(* A document written anew, and the token with one field patched.          *)
LEMMA DocsWritten ==
  ASSUME DocsTyped, NEW seq \in 0..MaxSeq
  PROVE  /\ \A c \in CombatData : docs' = [docs EXCEPT !.combat = CombatDocument(c, seq)] => DocsTyped'
         /\ \A w \in Kept(WallData) :
               docs' = [docs EXCEPT !.wall = Document(Toggled(w.data), w.acl, seq)] => DocsTyped'
         /\ \A field \in Field, value \in Value :
               docs' = [docs EXCEPT !.token = Patched(@, field, value, seq)] => DocsTyped'
<1>1. ASSUME NEW c \in CombatData, docs' = [docs EXCEPT !.combat = CombatDocument(c, seq)]
      PROVE  DocsTyped'
  <2>1. CombatDocument(c, seq) \in Kept(CombatData)
    BY DEF CombatDocument, Document, Kept, Level
  <2> QED BY <1>1, <2>1 DEF DocsTyped
<1>2. ASSUME NEW w \in Kept(WallData),
             docs' = [docs EXCEPT !.wall = Document(Toggled(w.data), w.acl, seq)]
      PROVE  DocsTyped'
  <2>1. w.data \in WallData /\ w.acl \in Level
    BY DEF Kept
  <2>2. Toggled(w.data) \in WallData
    BY <2>1 DEF Toggled, WallData
  <2>3. Document(Toggled(w.data), w.acl, seq) \in Kept(WallData)
    BY <2>1, <2>2 DEF Document, Kept
  <2> QED BY <1>2, <2>3 DEF DocsTyped
<1>3. ASSUME NEW field \in Field, NEW value \in Value,
             docs' = [docs EXCEPT !.token = Patched(@, field, value, seq)]
      PROVE  DocsTyped'
  <2>1. docs.token \in Kept(TokenData)
    BY DEF DocsTyped
  <2>2. Patched(docs.token, field, value, seq) \in Kept(TokenData)
    <3>1. CASE field = "place" BY <2>1, <3>1 DEF Patched, Kept, TokenData
    <3>2. CASE field = "name" BY <2>1, <3>2 DEF Patched, Kept, TokenData
    <3> QED BY <3>1, <3>2 DEF Field
  <2> QED BY <1>3, <2>2 DEF DocsTyped
<1> QED BY <1>1, <1>2, <1>3

(* The rows the intents append are rows.                                   *)
LEMMA RowsTyped ==
  ASSUME NEW seq \in Nat
  PROVE  /\ \A c \in CombatData : Row(seq, "staff", CombatKind(c), "combat", c) \in LogRow
         /\ \A w \in WallData : Row(seq, "staff", "scene.door.toggle", "wall", w) \in LogRow
         /\ Row(seq, "staff", "scene.visibility", "scene", NoBody) \in LogRow
         /\ \A by \in Who, f \in Field, v \in Value :
               Row(seq, by, "document.patch", "token", [g \in {f} |-> v]) \in LogRow
         /\ \A s \in Scene : Row(seq, "staff", "scene.activate", "scene", [scene |-> s]) \in LogRow
         /\ \A by \in Who : Row(seq, by, "chat.message", "message", NoBody) \in LogRow
<1>1. \A c \in CombatData : Row(seq, "staff", CombatKind(c), "combat", c) \in LogRow
  BY DEF Row, LogRow, CombatKind, Body, Who
<1>2. \A w \in WallData : Row(seq, "staff", "scene.door.toggle", "wall", w) \in LogRow
  BY DEF Row, LogRow, Body, Who
<1>3. Row(seq, "staff", "scene.visibility", "scene", NoBody) \in LogRow
  BY DEF Row, LogRow, Body, Who
<1>4. ASSUME NEW by \in Who, NEW f \in Field, NEW v \in Value
      PROVE  Row(seq, by, "document.patch", "token", [g \in {f} |-> v]) \in LogRow
  <2> DEFINE b == [g \in {f} |-> v]
  <2>1. b \in [{f} -> Value] OBVIOUS
  <2>2. b \in Body BY <2>1 DEF Body
  <2> HIDE DEF b
  <2>3. Row(seq, by, "document.patch", "token", b) \in LogRow
    BY <2>2 DEF Row, LogRow
  <2> QED BY <2>3 DEF b
<1>5. ASSUME NEW s \in Scene
      PROVE  Row(seq, "staff", "scene.activate", "scene", [scene |-> s]) \in LogRow
  <2>1. [scene |-> s] \in Body BY DEF Body
  <2> QED BY <2>1 DEF Row, LogRow, Who
<1>6. \A by \in Who : Row(seq, by, "chat.message", "message", NoBody) \in LogRow
  BY DEF Row, LogRow, Body
<1> QED BY <1>1, <1>2, <1>3, <1>4, <1>5, <1>6

(* Every commit keeps the invariant.                                       *)
LEMMA CommitStep ==
  ASSUME IInv, NEW h \in Handler, Commit(h), store' = store, overwrote' \in BOOLEAN
  PROVE  IInv'
<1> USE WorldAssumption
<1>1. /\ DocsTyped /\ scene \in Scene /\ eventSeq \in Nat /\ eventSeq + 1 \in Nat
      /\ eventSeq = Len(log) /\ tx[h] \in {Idle} \cup Working \cup PublishTx
      /\ tx \in [Handler -> {Idle} \cup Working \cup PublishTx]
  BY SMTT(30) DEF IInv, LogGapless
<1>2. eventSeq < MaxSeq => eventSeq + 1 \in 0..MaxSeq
  BY <1>1, SMTT(30)
<1>3. CASE CommitCombat(h)
  <2>1. tx[h].combat \in CombatData
    BY <1>1, <1>3, Operations DEF CommitCombat, CombatTx
  <2> DEFINE row == Row(eventSeq + 1, "staff", CombatKind(tx[h].combat), "combat", tx[h].combat)
  <2>2. row \in LogRow /\ row.seq = eventSeq + 1
    BY <1>1, <2>1, RowsTyped DEF Row
  <2>3. /\ Append1(h, row) /\ scene' = scene
        /\ docs' = [docs EXCEPT !.combat = CombatDocument(tx[h].combat, eventSeq + 1)]
    BY <1>3 DEF CommitCombat
  <2>4. eventSeq + 1 \in 0..MaxSeq
    BY <1>2, <2>3 DEF Append1
  <2>5. DocsTyped'
    BY <1>1, <2>1, <2>3, <2>4, DocsWritten
  <2> HIDE DEF row
  <2> QED BY <1>1, <2>2, <2>3, <2>5, AppendStep
<1>4. CASE CommitDoor(h)
  <2> DEFINE w == Toggled(tx[h].wall.data)
             rows == <<Row(eventSeq + 1, "staff", "scene.door.toggle", "wall", w),
                       Row(eventSeq + 2, "staff", "scene.visibility", "scene", NoBody)>>
  <2>1. tx[h].wall \in Kept(WallData) /\ eventSeq + 1 \in 0..MaxSeq
    BY <1>1, <1>4, Operations, SMTT(30) DEF CommitDoor, DoorTx
  <2>2. w \in WallData
    <3>1. tx[h].wall.data \in WallData BY <2>1 DEF Kept
    <3> QED BY <3>1 DEF Toggled, WallData
  <2>3. DocsTyped' /\ scene' = scene
    BY <1>1, <1>4, <2>1, DocsWritten DEF CommitDoor
  <2>4. rows[1] \in LogRow /\ rows[2] \in LogRow
    BY <1>1, <2>2, RowsTyped, SMTT(30)
  <2>5. rows[1].seq = Len(log) + 1 /\ rows[2].seq = Len(log) + 2
    BY <1>1 DEF Row
  <2>6. /\ log' = log \o rows /\ tx' = [tx EXCEPT ![h] = Publishing(rows)]
        /\ eventSeq' = eventSeq + 2 /\ eventSeq' <= MaxSeq /\ UNCHANGED <<tokens, announced>>
    BY <1>4 DEF CommitDoor
  <2>7. Len(rows) = 2 /\ rows # <<>> /\ rows \in Seq(LogRow)
    BY <2>4, SMTT(30)
  <2> HIDE DEF rows
  <2>8. \A i \in 1..Len(rows) : rows[i].seq = Len(log) + i
    <3>1. \A i \in 1..2 : i = 1 \/ i = 2
      BY SMTT(30)
    <3> QED BY <2>5, <2>7, <3>1
  <2> QED BY <1>1, <2>3, <2>6, <2>7, <2>8, GrownLog
<1>5. CASE CommitPatch(h)
  <2>1. tx[h].by \in Who /\ tx[h].field \in Field /\ tx[h].value \in Value
    BY <1>1, <1>5, Operations DEF CommitPatch, PatchTx
  <2> DEFINE row == Row(eventSeq + 1, tx[h].by, "document.patch", "token",
                        [f \in {tx[h].field} |-> tx[h].value])
  <2>2. row \in LogRow /\ row.seq = eventSeq + 1
    BY <1>1, <2>1, RowsTyped DEF Row
  <2>3. /\ Append1(h, row) /\ scene' = scene
        /\ docs' = [docs EXCEPT !.token = Patched(@, tx[h].field, tx[h].value, eventSeq + 1)]
    BY <1>5 DEF CommitPatch
  <2> HIDE DEF row
  <2>4. eventSeq + 1 \in 0..MaxSeq
    BY <1>2, <2>3 DEF Append1
  <2>5. DocsTyped'
    BY <1>1, <2>1, <2>3, <2>4, DocsWritten
  <2> QED BY <1>1, <2>2, <2>3, <2>5, AppendStep
<1>6. CASE CommitActivate(h)
  <2>1. tx[h].scene \in Scene
    BY <1>1, <1>6, Operations DEF CommitActivate, ActivateTx
  <2> DEFINE row == Row(eventSeq + 1, "staff", "scene.activate", "scene", [scene |-> tx[h].scene])
  <2>2. row \in LogRow /\ row.seq = eventSeq + 1
    BY <1>1, <2>1, RowsTyped DEF Row
  <2>3. Append1(h, row) /\ scene' = tx[h].scene /\ docs' = docs
    BY <1>6 DEF CommitActivate
  <2>4. DocsTyped'
    BY <1>1, <2>3 DEF DocsTyped
  <2> HIDE DEF row
  <2> QED BY <2>1, <2>2, <2>3, <2>4, AppendStep
<1>7. CASE CommitChat(h)
  <2>1. tx[h].by \in Who
    BY <1>1, <1>7, Operations DEF CommitChat, ChatTx
  <2> DEFINE row == Row(eventSeq + 1, tx[h].by, "chat.message", "message", NoBody)
  <2>2. row \in LogRow /\ row.seq = eventSeq + 1
    BY <1>1, <2>1, RowsTyped DEF Row
  <2>3. Append1(h, row) /\ scene' = scene /\ docs' = docs
    BY <1>7 DEF CommitChat
  <2>4. DocsTyped'
    BY <1>1, <2>3 DEF DocsTyped
  <2> HIDE DEF row
  <2> QED BY <1>1, <2>2, <2>3, <2>4, AppendStep
<1>8. CASE CommitAccess(h)
  <2>1. DocsTyped'
    <3>1. tx[h] \in AccessTx("combat", CombatData) \cup AccessTx("wall", WallData)
                        \cup AccessTx("token", TokenData)
      BY <1>1, <1>8, Operations DEF CommitAccess
    <3>2. docs' = [docs EXCEPT ![tx[h].id] = [tx[h].read EXCEPT !.acl = tx[h].level]]
      BY <1>8 DEF CommitAccess
    <3>3. CASE tx[h] \in AccessTx("combat", CombatData)
      BY <1>1, <3>2, <3>3 DEF AccessTx, DocsTyped, Kept
    <3>4. CASE tx[h] \in AccessTx("wall", WallData)
      BY <1>1, <3>2, <3>4 DEF AccessTx, DocsTyped, Kept
    <3>5. CASE tx[h] \in AccessTx("token", TokenData)
      BY <1>1, <3>2, <3>5 DEF AccessTx, DocsTyped, Kept
    <3> QED BY <3>1, <3>3, <3>4, <3>5
  <2>2. /\ UNCHANGED <<scene, tokens, eventSeq, log, announced>>
        /\ tx' = [tx EXCEPT ![h] = Idle]
    BY <1>8 DEF CommitAccess
  <2>3. tx' \in [Handler -> {Idle} \cup Working \cup PublishTx]
    BY <1>1, <2>2
  <2>4. InLog' = InLog /\ PublishTx' = PublishTx
    BY <2>2 DEF InLog, PublishTx
  <2> QED BY <2>1, <2>2, <2>3, <2>4 DEF IInv, LogGapless
<1> QED BY <1>3, <1>4, <1>5, <1>6, <1>7, <1>8 DEF Commit

(* So do the other steps, and the initial states satisfy it.               *)
LEMMA IInvInit == Init => IInv
<1> SUFFICES ASSUME Init PROVE IInv
  OBVIOUS
<1> USE WorldAssumption
<1>1. DocsTyped
  <2>1. Document([open |-> FALSE], "observer", 0) \in Kept(WallData)
    BY SMTT(30) DEF Document, Kept, WallData, Level
  <2>2. Document([place |-> 0, name |-> 0], "observer", 0) \in Kept(TokenData)
    BY SMTT(30) DEF Document, Kept, TokenData, Level
  <2> QED BY <2>1, <2>2 DEF Init, InitialDocs, DocsTyped
<1>2. tx \in [Handler -> {Idle} \cup Working \cup PublishTx]
  BY DEF Init
<1>3. log = <<>> /\ eventSeq = 0 /\ log \in Seq(LogRow) /\ LogGapless
  BY SMTT(30) DEF Init, LogGapless
<1>4. announced \subseteq InLog
  BY DEF Init
<1>5. /\ store \in Stores /\ scene \in Scene /\ tokens \in 0..MaxTokens
      /\ eventSeq = 0
  BY DEF Init
<1>6. overwrote \in BOOLEAN
  BY DEF Init
<1>7. eventSeq \in 0..MaxSeq
  BY <1>5, SMTT(30)
<1> QED BY <1>1, <1>2, <1>3, <1>4, <1>5, <1>6, <1>7 DEF IInv

LEMMA IInvStep == IInv /\ [Next]_vars => IInv'
<1> SUFFICES ASSUME IInv, [Next]_vars PROVE IInv'
  OBVIOUS
<1> USE WorldAssumption
<1>1. CASE UNCHANGED vars
  <2>1. InLog' = InLog /\ PublishTx' = PublishTx
    BY <1>1 DEF vars, stored, InLog, PublishTx
  <2> QED BY <1>1, <2>1 DEF vars, stored, IInv, DocsTyped, LogGapless
<1>2. CASE Next
  <2>1. store' = store /\ overwrote' \in BOOLEAN
    BY <1>2 DEF Next
  <2>2. ASSUME UNCHANGED <<docs, scene, eventSeq, log>>, tokens' \in 0..MaxTokens,
               announced' \subseteq InLog,
               tx' \in [Handler -> {Idle} \cup Working \cup PublishTx]
        PROVE  IInv'
    <3>1. InLog' = InLog /\ PublishTx' = PublishTx
      BY <2>2 DEF InLog, PublishTx
    <3> QED BY <2>1, <2>2, <3>1 DEF IInv, DocsTyped, LogGapless
  <2>3. /\ tx \in [Handler -> {Idle} \cup Working \cup PublishTx]
        /\ announced \subseteq InLog /\ tokens \in 0..MaxTokens
    BY DEF IInv
  <2>4. ASSUME NEW h \in Handler, Fail(h) PROVE IInv'
    BY <2>2, <2>3, <2>4 DEF Fail, stored
  <2>5. ASSUME NEW h \in Handler, Publish(h) PROVE IInv'
    <3> DEFINE rows == tx[h].rows
    <3>1. rows \in Seq(InLog) /\ rows # <<>>
      BY <2>3, <2>5, Operations DEF Publish
    <3> HIDE DEF rows
    <3>2. Head(rows) \in InLog /\ Tail(rows) \in Seq(InLog) /\ (Len(rows) # 1 => Tail(rows) # <<>>)
      <4> DEFINE t == Tail(rows)
      <4>1. Head(rows) \in InLog /\ t \in Seq(InLog) /\ Len(rows) \in Nat /\ Len(t) = Len(rows) - 1
        BY <3>1, HeadTailProperties, SMTT(30)
      <4> HIDE DEF t
      <4>2. Len(rows) # 1 => t # <<>>
        BY <4>1, SMTT(30)
      <4> QED BY <4>1, <4>2 DEF t
    <3>3. Len(rows) # 1 => Publishing(Tail(rows)) \in PublishTx
      BY <3>2 DEF Publishing, PublishTx
    <3>4. tx' = [tx EXCEPT ![h] = IF Len(rows) = 1 THEN Idle ELSE Publishing(Tail(rows))]
      BY <2>5 DEF Publish, rows
    <3>5. tx' \in [Handler -> {Idle} \cup Working \cup PublishTx]
      BY <2>3, <3>3, <3>4
    <3>6. announced' \subseteq InLog
      BY <2>3, <2>5, <3>2 DEF Publish, rows
    <3> QED BY <2>2, <2>3, <2>5, <3>5, <3>6 DEF Publish, stored
  <2>6. CASE CreateToken
    BY <2>2, <2>3, <2>6, SMTT(30) DEF CreateToken
  <2> QED BY <1>2, <2>1, <2>4, <2>5, <2>6, ReadStep, CommitStep DEF Next
<1> QED BY <1>1, <1>2

(* Type correctness of a world, the turn of a running combat included.     *)
THEOREM WorldTypeOK == Spec => []TypeOK
<1>1. IInv => TypeOK
  BY SMTT(30) DEF IInv, DocsTyped, Kept, TypeOK, IsDocument, WallData, TokenData, LogGapless
<1> QED BY <1>1, IInvInit, IInvStep, PTL DEF Spec

(* The log has no gap and event_seq is its length, on either store and for *)
(* any number of overlapping requests.                                     *)
THEOREM WorldLogGapless == Spec => []LogGapless
<1>1. IInv => LogGapless
  BY DEF IInv
<1> QED BY <1>1, IInvInit, IInvStep, PTL DEF Spec

(* No event is announced that is not, or not in this form, in the log.     *)
THEOREM WorldAnnouncedWasCommitted == Spec => []AnnouncedWasCommitted
<1>1. IInv => AnnouncedWasCommitted
  <2> SUFFICES ASSUME IInv, NEW row \in announced
               PROVE  row.seq \in 1..Len(log) /\ log[row.seq] = row
    BY DEF AnnouncedWasCommitted
  <2>1. PICK i \in 1..Len(log) : row = log[i]
    BY DEF IInv, InLog
  <2>2. row.seq = i
    BY <2>1 DEF IInv, LogGapless
  <2> QED BY <2>1, <2>2
<1> QED BY <1>1, IInvInit, IInvStep, PTL DEF Spec
-----------------------------------------------------------------------------
(* On SQLite at most one transaction is open, and what it is about to      *)
(* write is made of the documents as they still are.                       *)
Busy(h) == tx[h].op \notin {"idle", "publish"}
Fresh(t) ==
    /\ t.op = "combat" =>
          \/ tokens > 0 /\ t.combat = NewCombat(tokens) /\ t.at = 0
          \/ /\ docs.combat # NoDocument /\ t.at = docs.combat.at
             /\ \/ Running(docs.combat.data) /\ t.combat = Advance(docs.combat.data)
                \/ t.combat = Ended(docs.combat.data)
    /\ t.op = "door" => t.wall = docs.wall
    /\ t.op = "patch" => MayEdit(t.by, docs.token)
    /\ t.op = "access" => docs[t.id] # NoDocument /\ t.read = docs[t.id]
Current ==
    Serial => /\ overwrote = FALSE
              /\ \A g, h \in Handler : Busy(g) /\ Busy(h) => g = h
              /\ \A h \in Handler : Fresh(tx[h])

LEMMA CurrentInit == Init => Current
BY SMTT(30) DEF Init, Current, Busy, Fresh, Idle

(* No tracker is outdated, so no step of the next-state relation records   *)
(* that one was overwritten.                                               *)
LEMMA NothingOverwritten ==
  ASSUME Current, Serial, Next
  PROVE  overwrote' = FALSE /\ Serial'
<1>1. ASSUME NEW h \in Handler PROVE ~Overwrites(h)
  <2>1. Fresh(tx[h])
    BY DEF Current
  <2>2. tx[h].op = "combat" => ~Outdated(h)
    BY <2>1 DEF Fresh, Outdated
  <2> QED BY <2>2 DEF Overwrites
<1> QED BY <1>1 DEF Next, Current, Serial

(* A transaction starts on what it has just read.                          *)
LEMMA BeginCurrent ==
  ASSUME IInv, Current, Serial, Next, NEW h \in Handler, NEW op, Begin(h, op), Fresh(op)
  PROVE  Current'
<1>1. \A g \in Handler : ~Busy(g)
  BY DEF Begin, ConnectionFree, Busy
<1>2. \A g \in Handler : tx'[g] = IF g = h THEN op ELSE tx[g]
  BY DEF Begin, IInv
<1>3. \A g \in Handler : g # h => ~Busy(g)'
  BY <1>1, <1>2 DEF Busy
<1>4. UNCHANGED <<docs, tokens>>
  BY DEF Begin, stored
<1>5. \A g \in Handler : Fresh(tx[g])'
  BY <1>2, <1>4 DEF Fresh, Current
<1> QED BY <1>3, <1>5, NothingOverwritten DEF Current

(* When the open transaction ends there is none.                           *)
LEMMA EndCurrent ==
  ASSUME IInv, Current, Serial, Next, NEW h \in Handler, Busy(h),
         tx'[h].op \in {"idle", "publish"}, \A g \in Handler \ {h} : tx'[g] = tx[g]
  PROVE  Current'
<1>1. \A g \in Handler : g # h => ~Busy(g)
  BY DEF Current
<1>2. \A g \in Handler : tx'[g].op \in {"idle", "publish"}
  BY <1>1 DEF Busy
<1>3. \A g \in Handler : ~Busy(g)' /\ Fresh(tx[g])'
  BY <1>2 DEF Busy, Fresh
<1> QED BY <1>3, NothingOverwritten DEF Current

LEMMA CurrentStep == IInv /\ Current /\ [Next]_vars => Current'
<1> SUFFICES ASSUME IInv, Current, [Next]_vars PROVE Current'
  OBVIOUS
<1>1. CASE UNCHANGED vars
  BY <1>1 DEF vars, stored, Current, Busy, Fresh, Serial
<1>2. CASE Next /\ ~Serial
  BY <1>2 DEF Next, Current, Serial
<1>3. CASE Next /\ Serial
  <2>1. DOMAIN tx = Handler
    BY DEF IInv
  <2>2. ASSUME NEW h \in Handler, Read(h) PROVE Current'
    <3>1. CASE ReadTokens(h)
      BY <1>3, <3>1, BeginCurrent DEF ReadTokens, Fresh
    <3>2. CASE ReadNext(h)
      BY <1>3, <3>2, BeginCurrent DEF ReadNext, Fresh
    <3>3. CASE ReadEnd(h)
      BY <1>3, <3>3, BeginCurrent DEF ReadEnd, Fresh
    <3>4. CASE ReadDoor(h)
      BY <1>3, <3>4, BeginCurrent DEF ReadDoor, Fresh
    <3>5. ASSUME NEW by, ReadChat(h, by) PROVE Current'
      BY <1>3, <3>5, BeginCurrent DEF ReadChat, Fresh
    <3>6. ASSUME NEW by, NEW field, NEW value, ReadPatch(h, by, field, value) PROVE Current'
      BY <1>3, <3>6, BeginCurrent DEF ReadPatch, Fresh
    <3>7. ASSUME NEW s, ReadWorld(h, s) PROVE Current'
      BY <1>3, <3>7, BeginCurrent DEF ReadWorld, Fresh
    <3>8. ASSUME NEW id, NEW level, ReadAccess(h, id, level) PROVE Current'
      BY <1>3, <3>8, BeginCurrent DEF ReadAccess, Fresh
    <3> QED BY <2>2, <3>1, <3>2, <3>3, <3>4, <3>5, <3>6, <3>7, <3>8 DEF Read
  <2>3. ASSUME NEW h \in Handler, Commit(h) PROVE Current'
    <3>1. Busy(h)
      BY <2>3 DEF Commit, CommitCombat, CommitDoor, CommitPatch, CommitActivate, CommitChat,
                  CommitAccess, Busy
    <3>2. tx'[h].op \in {"idle", "publish"} /\ \A g \in Handler \ {h} : tx'[g] = tx[g]
      BY <2>3, <2>1, SMTT(30) DEF Commit, CommitCombat, CommitDoor, CommitPatch, CommitActivate,
                        CommitChat, CommitAccess, Append1, Publishing, Idle
    <3> QED BY <1>3, <3>1, <3>2, EndCurrent
  <2>4. ASSUME NEW h \in Handler, Fail(h) PROVE Current'
    <3>1. Busy(h) /\ tx'[h].op \in {"idle", "publish"} /\ \A g \in Handler \ {h} : tx'[g] = tx[g]
      BY <2>4, <2>1 DEF Fail, Busy, Idle
    <3> QED BY <1>3, <3>1, EndCurrent
  <2>5. ASSUME NEW h \in Handler, Publish(h) PROVE Current'
    <3>1. tx'[h].op \in {"idle", "publish"} /\ \A g \in Handler \ {h} : tx'[g] = tx[g]
      BY <2>5, <2>1 DEF Publish, Publishing, Idle
    <3>2. UNCHANGED <<docs, tokens>>
      BY <2>5 DEF Publish, stored
    <3>3. \A g \in Handler : Fresh(tx[g])' /\ (Busy(g)' => Busy(g))
      BY <1>3, <3>1, <3>2 DEF Current, Fresh, Busy
    <3> QED BY <1>3, <3>3, NothingOverwritten DEF Current
  <2>6. CASE CreateToken
    <3>1. \A g \in Handler : tx'[g].op \in {"idle", "publish"}
      BY <1>3, <2>6 DEF CreateToken, ConnectionFree
    <3>2. \A g \in Handler : ~Busy(g)' /\ Fresh(tx[g])'
      BY <3>1 DEF Busy, Fresh
    <3> QED BY <1>3, <3>2, NothingOverwritten DEF Current
  <2> QED BY <1>3, <2>2, <2>3, <2>4, <2>5, <2>6 DEF Next
<1> QED BY <1>1, <1>2, <1>3

(* The pool's one connection keeps every transaction out that would change *)
(* the tracker under the reader's hands.                                   *)
THEOREM WorldSerialNeverOverwrites == Spec => []SerialNeverOverwrites
<1>1. Current => SerialNeverOverwrites
  BY DEF Current, SerialNeverOverwrites
<1> QED BY <1>1, IInvInit, IInvStep, CurrentInit, CurrentStep, PTL DEF Spec
-----------------------------------------------------------------------------
(* The table speaks of documents and rows as the world does.               *)
LEMMA SameOperators ==
  /\ TableSpec!InitialDocs = InitialDocs /\ TableSpec!NoDocument = NoDocument
  /\ TableSpec!NoBody = NoBody /\ TableSpec!DocId = DocId /\ TableSpec!Level = Level
  /\ \A seq, by, kind, id, body :
        TableSpec!Row(seq, by, kind, id, body) = Row(seq, by, kind, id, body)
  /\ \A c : /\ TableSpec!CombatKind(c) = CombatKind(c) /\ (TableSpec!Running(c) <=> Running(c))
            /\ TableSpec!Advance(c) = Advance(c) /\ TableSpec!Ended(c) = Ended(c)
            /\ TableSpec!Toggled(c) = Toggled(c) /\ TableSpec!NewCombat(c) = NewCombat(c)
  /\ \A c, seq : TableSpec!CombatDocument(c, seq) = CombatDocument(c, seq)
  /\ \A d, f, v, seq : TableSpec!Patched(d, f, v, seq) = Patched(d, f, v, seq)
  /\ \A by, d : TableSpec!MayEdit(by, d) <=> MayEdit(by, d)
<1>1. /\ TableSpec!InitialDocs = InitialDocs /\ TableSpec!NoDocument = NoDocument
      /\ TableSpec!NoBody = NoBody /\ TableSpec!DocId = DocId /\ TableSpec!Level = Level
  BY DEF TableSpec!InitialDocs, InitialDocs, TableSpec!NoDocument, NoDocument,
         TableSpec!Document, Document, TableSpec!NoBody, NoBody, TableSpec!DocId, DocId,
         TableSpec!Level, Level
<1>2. \A seq, by, kind, id, body :
        TableSpec!Row(seq, by, kind, id, body) = Row(seq, by, kind, id, body)
  BY DEF TableSpec!Row, Row
<1>3. \A c : /\ TableSpec!CombatKind(c) = CombatKind(c) /\ (TableSpec!Running(c) <=> Running(c))
            /\ TableSpec!Advance(c) = Advance(c) /\ TableSpec!Ended(c) = Ended(c)
            /\ TableSpec!Toggled(c) = Toggled(c) /\ TableSpec!NewCombat(c) = NewCombat(c)
  BY DEF TableSpec!CombatKind, CombatKind, TableSpec!Running, Running, TableSpec!Advance, Advance,
         TableSpec!Ended, Ended, TableSpec!Toggled, Toggled, TableSpec!NewCombat, NewCombat
<1>4. \A c, seq : TableSpec!CombatDocument(c, seq) = CombatDocument(c, seq)
  BY DEF TableSpec!CombatDocument, CombatDocument, TableSpec!Document, Document
<1>5. \A d, f, v, seq : TableSpec!Patched(d, f, v, seq) = Patched(d, f, v, seq)
  BY DEF TableSpec!Patched, Patched
<1>6. \A by, d : TableSpec!MayEdit(by, d) <=> MayEdit(by, d)
  BY DEF TableSpec!MayEdit, MayEdit
<1> QED BY <1>1, <1>2, <1>3, <1>4, <1>5, <1>6

(* A wall with other data and another updated_seq.                         *)
LEMMA Rewritten ==
  ASSUME NEW d \in Kept(WallData), NEW w, NEW n
  PROVE  [d EXCEPT !.data = w, !.at = n] = Document(w, d.acl, n)
<1>1. d = [data |-> d.data, acl |-> d.acl, at |-> d.at]
  BY DEF Kept
<1>2. \A a, b, c : [[data |-> a, acl |-> b, at |-> c] EXCEPT !.data = w, !.at = n]
                     = [data |-> w, acl |-> b, at |-> n]
  <2> TAKE a, b, c
  <2> DEFINE e == [data |-> a, acl |-> b, at |-> c]
             x == [e EXCEPT !.data = w, !.at = n]
             y == [data |-> w, acl |-> b, at |-> n]
  <2>1. DOMAIN x = {"data", "acl", "at"} /\ DOMAIN y = {"data", "acl", "at"}
    BY SMTT(30)
  <2>2. x.data = y.data /\ x.acl = y.acl /\ x.at = y.at
    OBVIOUS
  <2>3. x = [f \in DOMAIN x |-> x[f]] /\ y = [f \in DOMAIN y |-> y[f]]
    OBVIOUS
  <2> HIDE DEF x, y
  <2>4. x = y
    BY <2>1, <2>2, <2>3
  <2> QED BY <2>4 DEF x, y
<1> QED BY <1>1, <1>2, Zenon DEF Document

(* A transaction on SQLite is one step of the table.                       *)
LEMMA CommitMaps ==
  ASSUME IInv, Current, Serial, NEW h \in Handler, Commit(h)
  PROVE  TableSpec!Next
<1>1. /\ Fresh(tx[h]) /\ eventSeq = Len(log) /\ TableSpec!Here = eventSeq + 1
      /\ tx[h] \in {Idle} \cup Working \cup PublishTx /\ DocsTyped
  BY DEF Current, IInv, LogGapless, TableSpec!Here
<1>2. CASE CommitCombat(h)
  <2>1. TableSpec!SetCombat(tx[h].combat)
    BY <1>1, <1>2, SameOperators
       DEF CommitCombat, Append1, TableSpec!SetCombat, TableSpec!Say
  <2>2. TableSpec!StartCombat \/ TableSpec!NextTurn \/ TableSpec!EndCombat
    BY <1>1, <1>2, <2>1, SameOperators
       DEF CommitCombat, Fresh, TableSpec!StartCombat, TableSpec!NextTurn, TableSpec!EndCombat
  <2> QED BY <2>2 DEF TableSpec!Next
<1>3. CASE CommitDoor(h)
  <2>1. tx[h].wall = docs.wall /\ docs.wall \in Kept(WallData)
    BY <1>1, <1>3 DEF CommitDoor, Fresh, DocsTyped
  <2> DEFINE w == Toggled(docs.wall.data)
  <2>2. [docs.wall EXCEPT !.data = w, !.at = eventSeq + 1]
           = Document(w, docs.wall.acl, eventSeq + 1)
    <3>1. w \in WallData
      <4>1. docs.wall.data \in WallData
        BY <2>1 DEF Kept
      <4> QED BY <4>1 DEF WallData, Toggled
    <3>2. eventSeq + 1 \in Nat
      BY SMTT(30) DEF IInv
    <3> HIDE DEF w
    <3> QED BY <2>1, <3>1, <3>2, Rewritten
  <2>3. docs' = [docs EXCEPT !.wall = [docs.wall EXCEPT !.data = w, !.at = eventSeq + 1]]
    BY <1>3, <2>1, <2>2 DEF CommitDoor
  <2>4. docs' = [docs EXCEPT !.wall.data = w, !.wall.at = eventSeq + 1]
    BY <1>1, <2>3 DEF DocsTyped
  <2>5. /\ log' = log \o <<Row(eventSeq + 1, "staff", "scene.door.toggle", "wall", w),
                           Row(eventSeq + 2, "staff", "scene.visibility", "scene", NoBody)>>
        /\ UNCHANGED <<scene, tokens>>
    BY <1>3, <2>1 DEF CommitDoor
  <2>6. eventSeq + 2 = (eventSeq + 1) + 1
    BY SMTT(30) DEF IInv
  <2>7. TableSpec!ToggleDoor
    BY <1>1, <2>4, <2>5, <2>6, SameOperators DEF TableSpec!ToggleDoor
  <2> QED BY <2>7 DEF TableSpec!Next
<1>4. CASE CommitPatch(h)
  <2>1. tx[h].by \in Who /\ tx[h].field \in Field /\ tx[h].value \in Value
    BY <1>1, <1>4, Operations DEF CommitPatch, PatchTx
  <2>2. TableSpec!Patch(tx[h].by, tx[h].field, tx[h].value)
    BY <1>1, <1>4, SameOperators
       DEF CommitPatch, Append1, Fresh, TableSpec!Patch, TableSpec!Say
  <2> QED BY <2>1, <2>2 DEF TableSpec!Next, Who, Field
<1>5. CASE CommitActivate(h)
  <2>1. tx[h].scene \in Scene
    BY <1>1, <1>5, Operations DEF CommitActivate, ActivateTx
  <2>2. TableSpec!Activate(tx[h].scene)
    BY <1>1, <1>5, SameOperators DEF CommitActivate, Append1, TableSpec!Activate, TableSpec!Say
  <2> QED BY <2>1, <2>2 DEF TableSpec!Next
<1>6. CASE CommitChat(h)
  <2>1. tx[h].by \in Who
    BY <1>1, <1>6, Operations DEF CommitChat, ChatTx
  <2>2. TableSpec!Chat(tx[h].by)
    BY <1>1, <1>6, SameOperators DEF CommitChat, Append1, TableSpec!Chat, TableSpec!Say
  <2> QED BY <2>1, <2>2 DEF TableSpec!Next, Who
<1>7. CASE CommitAccess(h)
  <2>1. tx[h].id \in DocId /\ tx[h].level \in Level
    BY <1>1, <1>7, Operations DEF CommitAccess, AccessTx, DocId
  <2>2. tx[h].read = docs[tx[h].id] /\ docs[tx[h].id] # NoDocument
    BY <1>1, <1>7 DEF CommitAccess, Fresh
  <2>3. docs' = [docs EXCEPT ![tx[h].id].acl = tx[h].level]
    BY <1>1, <1>7, <2>1, <2>2 DEF CommitAccess, DocsTyped, DocId
  <2>4. TableSpec!SetAccess(tx[h].id, tx[h].level)
    BY <1>7, <2>2, <2>3, SameOperators DEF CommitAccess, TableSpec!SetAccess
  <2> QED BY <2>1, <2>4, SameOperators DEF TableSpec!Next
<1> QED BY <1>2, <1>3, <1>4, <1>5, <1>6, <1>7 DEF Commit

(* On SQLite a world implements the table: its commits are the table's     *)
(* steps, and nothing else it does is seen there, reads and publications   *)
(* included.                                                               *)
THEOREM WorldImplementsTable == Spec => ImplementsTable
<1>1. Init => TableSpec!Init
  BY SameOperators DEF Init, TableSpec!Init
<1>2. IInv /\ Current /\ [Next]_vars => [Serial => TableSpec!Next]_(TableSpec!vars)
  <2> SUFFICES ASSUME IInv, Current, [Next]_vars, Serial, ~UNCHANGED TableSpec!vars
               PROVE  TableSpec!Next
    OBVIOUS
  <2>1. Next
    BY DEF vars, stored, TableSpec!vars
  <2>2. ASSUME NEW h \in Handler, Read(h) PROVE FALSE
    BY <2>2 DEF Read, ReadTokens, ReadNext, ReadEnd, ReadDoor, ReadChat, ReadPatch, ReadWorld,
                ReadAccess, Begin, stored, TableSpec!vars
  <2>3. ASSUME NEW h \in Handler, Fail(h) \/ Publish(h) PROVE FALSE
    BY <2>3 DEF Fail, Publish, stored, TableSpec!vars
  <2>4. CASE CreateToken
    <3>1. TableSpec!AddToken
      BY <2>4 DEF CreateToken, TableSpec!AddToken
    <3> QED BY <3>1 DEF TableSpec!Next
  <2> QED BY <2>1, <2>2, <2>3, <2>4, CommitMaps DEF Next
<1> QED
  BY <1>1, <1>2, IInvInit, IInvStep, CurrentInit, CurrentStep, PTL DEF Spec, ImplementsTable
-----------------------------------------------------------------------------
(* The rows about a document, and those that set a field of the token.     *)
About(id) == {i \in 1..Len(log) : log[i].id = id}
Setting(f) == {i \in 1..Len(log) : log[i].id = "token" /\ f \in DOMAIN log[i].body}

(* A document is as the newest of its rows says, and so is a field.        *)
Latest(id) ==
    About(id) # {} =>
        /\ docs[id].at \in About(id) /\ \A j \in About(id) : j <= docs[id].at
        /\ id # "token" => docs[id].data = log[docs[id].at].body
LatestSet(f) ==
    Setting(f) # {} =>
        \E i \in Setting(f) : /\ \A j \in Setting(f) : j <= i
                              /\ docs.token.data[f] = log[i].body[f]
Matching == (\A id \in DocId : Latest(id)) /\ (\A f \in Field : LatestSet(f))

(* The log only grows.                                                     *)
New == Len(log) + 1..Len(log')
Grows ==
    /\ Len(log) \in Nat /\ Len(log') \in Nat /\ Len(log) <= Len(log')
    /\ \A i \in 1..Len(log) : log'[i] = log[i]

(* A document without news stays as it was.                                *)
LEMMA LatestKept ==
  ASSUME Grows, NEW id, Latest(id), \A i \in New : log'[i].id # id,
         docs'[id].at = docs[id].at, docs'[id].data = docs[id].data
  PROVE  Latest(id)'
<1>1. About(id)' = About(id)
  BY SMTT(30) DEF About, Grows, New
<1>2. \A i \in About(id) : log'[i] = log[i]
  BY DEF About, Grows
<1> QED BY <1>1, <1>2 DEF Latest

(* One with news is as they say.                                           *)
LEMMA LatestWritten ==
  ASSUME Grows, NEW id, NEW n \in New, log'[n].id = id,
         \A i \in New : log'[i].id = id => i = n,
         docs'[id].at = n, id # "token" => docs'[id].data = log'[n].body
  PROVE  Latest(id)'
<1>1. n \in About(id)' /\ \A j \in About(id)' : j <= n
  BY SMTT(30) DEF About, Grows, New
<1> QED BY <1>1 DEF Latest

(* The same for a field of the token.                                      *)
LEMMA SetKept ==
  ASSUME Grows, NEW f, LatestSet(f),
         \A i \in New : ~(log'[i].id = "token" /\ f \in DOMAIN log'[i].body),
         docs'.token.data[f] = docs.token.data[f]
  PROVE  LatestSet(f)'
<1>1. Setting(f)' = Setting(f)
  BY SMTT(30) DEF Setting, Grows, New
<1>2. \A i \in Setting(f) : log'[i] = log[i]
  BY DEF Setting, Grows
<1> QED BY <1>1, <1>2 DEF LatestSet

LEMMA SetWritten ==
  ASSUME Grows, NEW f, NEW n \in New, n = Len(log'), log'[n].id = "token",
         f \in DOMAIN log'[n].body, docs'.token.data[f] = log'[n].body[f]
  PROVE  LatestSet(f)'
<1>1. n \in Setting(f)' /\ \A j \in Setting(f)' : j <= n
  BY SMTT(30) DEF Setting, Grows, New
<1> QED BY <1>1 DEF LatestSet

(* Where no document changes and no row is about one, all still match.     *)
LEMMA MatchingKept ==
  ASSUME Grows, Matching, \A i \in New : log'[i].id \notin DocId,
         \A id \in DocId : docs'[id].at = docs[id].at /\ docs'[id].data = docs[id].data
  PROVE  Matching'
<1>1. ASSUME NEW id \in DocId PROVE Latest(id)'
  BY <1>1, LatestKept DEF Matching
<1>2. ASSUME NEW f \in Field PROVE LatestSet(f)'
  <2>1. "token" \in DocId
    BY DEF DocId
  <2>2. docs'.token.data[f] = docs.token.data[f]
    BY <2>1
  <2>3. \A i \in New : log'[i].id # "token"
    BY <2>1
  <2> QED BY <2>2, <2>3, SetKept DEF Matching
<1> QED BY <1>1, <1>2 DEF Matching

(* What a log grown by one row has at its end.                             *)
LEMMA GrownByOne ==
  ASSUME IInv, NEW row, log' = Append(log, row)
  PROVE  Grows /\ Len(log') = Len(log) + 1 /\ New = {Len(log) + 1} /\ log'[Len(log) + 1] = row
<1> DEFINE l == log
<1>1. l \in Seq(LogRow)
  BY DEF IInv
<1> HIDE DEF l
<1>2. /\ Len(l) \in Nat /\ Len(Append(l, row)) = Len(l) + 1
      /\ Append(l, row)[Len(l) + 1] = row /\ \A i \in 1..Len(l) : Append(l, row)[i] = l[i]
  BY <1>1, SMTT(30)
<1>3. /\ Len(log) \in Nat /\ Len(log') = Len(log) + 1
      /\ log'[Len(log) + 1] = row /\ \A i \in 1..Len(log) : log'[i] = log[i]
  BY <1>2 DEF l
<1> QED BY <1>3, SMTT(30) DEF Grows, New

(* The same for two rows.                                                  *)
LEMMA GrownByTwo ==
  ASSUME IInv, NEW r1, NEW r2, log' = log \o <<r1, r2>>
  PROVE  /\ Grows /\ New = {Len(log) + 1, Len(log) + 2}
         /\ log'[Len(log) + 1] = r1 /\ log'[Len(log) + 2] = r2
<1> DEFINE l == log
           rows == <<r1, r2>>
           S == LogRow \cup {r1, r2}
<1>1. l \in Seq(S)
  <2>1. l \in Seq(LogRow) /\ LogRow \subseteq S
    BY DEF IInv
  <2> HIDE DEF l, S
  <2> QED BY <2>1, SMTT(30)
<1>2. Len(rows) = 2 /\ rows[1] = r1 /\ rows[2] = r2 /\ rows \in Seq(S)
  <2>1. r1 \in S /\ r2 \in S
    OBVIOUS
  <2> HIDE DEF S
  <2> QED BY <2>1, SMTT(30)
<1> HIDE DEF l, rows, S
<1>3. /\ Len(l) \in Nat /\ Len(l \o rows) = Len(l) + 2
      /\ \A i \in 1..Len(l) : (l \o rows)[i] = l[i]
      /\ \A i \in 1..2 : (l \o rows)[Len(l) + i] = rows[i]
  <2>1. rows \in Seq(S)
    BY <1>2
  <2>2. /\ Len(l) \in Nat /\ Len(l \o rows) = Len(l) + Len(rows)
        /\ \A i \in 1..Len(l) : (l \o rows)[i] = l[i]
        /\ \A i \in 1..Len(rows) : (l \o rows)[Len(l) + i] = rows[i]
    BY <1>1, <2>1, SMTT(30)
  <2> QED BY <1>2, <2>2
<1>4. log' = l \o rows /\ l = log
  BY DEF l, rows
<1>5. /\ Len(log) \in Nat /\ Len(log') = Len(log) + 2
      /\ \A i \in 1..Len(log) : log'[i] = log[i]
      /\ log'[Len(log) + 1] = r1 /\ log'[Len(log) + 2] = r2
  BY <1>2, <1>3, <1>4, SMTT(30)
<1> QED BY <1>5, SMTT(30) DEF Grows, New

(* Whoever changes access rights came over HTTP.                           *)
OverHTTP == \A h \in Handler : tx[h].op = "access" => HTTPWrites

LEMMA OverHTTPStep == IInv /\ OverHTTP /\ [Next]_vars => OverHTTP'
<1> SUFFICES ASSUME IInv, OverHTTP, [Next]_vars PROVE OverHTTP'
  OBVIOUS
<1>1. CASE UNCHANGED vars
  BY <1>1 DEF vars, OverHTTP, HTTPWrites
<1>2. CASE Next
  <2>1. HTTPWrites' <=> HTTPWrites
    BY <1>2 DEF Next, HTTPWrites
  <2>2. ASSUME NEW h \in Handler, tx'[h].op = "access" => HTTPWrites,
               \A g \in Handler \ {h} : tx'[g] = tx[g]
        PROVE  OverHTTP'
    BY <2>1, <2>2 DEF OverHTTP
  <2>3. DOMAIN tx = Handler
    BY DEF IInv
  <2>4. ASSUME NEW h \in Handler, Read(h) PROVE OverHTTP'
    <3>1. tx'[h].op = "access" => HTTPWrites
      BY <2>3, <2>4, SMTT(30) DEF Read, ReadTokens, ReadNext, ReadEnd, ReadDoor, ReadChat,
                        ReadPatch, ReadWorld, ReadAccess, Begin
    <3>2. \A g \in Handler \ {h} : tx'[g] = tx[g]
      BY <2>3, <2>4 DEF Read, ReadTokens, ReadNext, ReadEnd, ReadDoor, ReadChat, ReadPatch,
                        ReadWorld, ReadAccess, Begin
    <3> QED BY <2>2, <3>1, <3>2
  <2>5. ASSUME NEW h \in Handler, Commit(h) \/ Fail(h) \/ Publish(h) PROVE OverHTTP'
    <3>1. tx'[h].op \in {"idle", "publish"} /\ \A g \in Handler \ {h} : tx'[g] = tx[g]
      BY <2>3, <2>5, SMTT(30) DEF Commit, CommitCombat, CommitDoor, CommitPatch, CommitActivate,
                        CommitChat, CommitAccess, Append1, Fail, Publish, Publishing, Idle
    <3> QED BY <2>2, <3>1
  <2>6. CASE CreateToken
    BY <2>1, <2>6 DEF CreateToken, OverHTTP
  <2> QED BY <1>2, <2>4, <2>5, <2>6 DEF Next
<1> QED BY <1>1, <1>2

(* Documents match their rows after every commit.                          *)
LEMMA CommitMatches ==
  ASSUME IInv, Current, OverHTTP, Matching, HTTPStores \subseteq {"sqlite"},
         NEW h \in Handler, Commit(h)
  PROVE  Matching'
<1>1. /\ eventSeq = Len(log) /\ Len(log) \in Nat /\ DocsTyped
      /\ tx[h] \in {Idle} \cup Working \cup PublishTx
  BY SMTT(30) DEF IInv, LogGapless
<1>2. DOMAIN docs = DocId
  BY <1>1 DEF DocsTyped, DocId
<1> DEFINE n == Len(log) + 1
<1>3. CASE CommitCombat(h)
  <2> DEFINE c == tx[h].combat
             row == Row(n, "staff", CombatKind(c), "combat", c)
  <2>1. log' = Append(log, row) /\ docs' = [docs EXCEPT !.combat = CombatDocument(c, n)]
    BY <1>1, <1>3 DEF CommitCombat, Append1
  <2>2. row.id = "combat" /\ row.body = c
    BY DEF Row
  <2> HIDE DEF row
  <2>3. Grows /\ New = {n} /\ log'[n] = row
    BY <2>1, GrownByOne
  <2>4. /\ docs'["combat"].at = n /\ docs'["combat"].data = c
        /\ docs'["wall"] = docs["wall"] /\ docs'["token"] = docs["token"]
    BY <1>2, <2>1 DEF DocId, CombatDocument, Document
  <2> HIDE DEF n, c
  <2>5. Latest("combat")'
    BY <2>2, <2>3, <2>4, LatestWritten
  <2>6. Latest("wall")' /\ Latest("token")'
    BY <2>2, <2>3, <2>4, LatestKept DEF Matching, DocId
  <2>7. \A f \in Field : LatestSet(f)'
    BY <2>2, <2>3, <2>4, SetKept DEF Matching
  <2> QED BY <2>5, <2>6, <2>7 DEF Matching, DocId
<1>4. CASE CommitDoor(h)
  <2> DEFINE w == Toggled(tx[h].wall.data)
             r1 == Row(n, "staff", "scene.door.toggle", "wall", w)
             r2 == Row(n + 1, "staff", "scene.visibility", "scene", NoBody)
  <2>1. /\ log' = log \o <<r1, r2>>
        /\ docs' = [docs EXCEPT !.wall = Document(w, tx[h].wall.acl, n)]
    <3>1. eventSeq + 2 = (eventSeq + 1) + 1
      BY SMTT(30) DEF IInv
    <3> QED BY <1>1, <1>4, <3>1 DEF CommitDoor
  <2>2. r1.id = "wall" /\ r1.body = w /\ r2.id = "scene"
    BY DEF Row
  <2> HIDE DEF r1, r2
  <2>3. Grows /\ New = {n, n + 1} /\ log'[n] = r1 /\ log'[n + 1] = r2
    <3>1. /\ Grows /\ New = {Len(log) + 1, Len(log) + 2}
          /\ log'[Len(log) + 1] = r1 /\ log'[Len(log) + 2] = r2
      BY <2>1, GrownByTwo
    <3>2. Len(log) + 2 = n + 1
      BY <1>1, SMTT(30)
    <3> QED BY <3>1, <3>2
  <2>4. /\ docs'["wall"].at = n /\ docs'["wall"].data = w
        /\ docs'["combat"] = docs["combat"] /\ docs'["token"] = docs["token"]
    BY <1>2, <2>1 DEF DocId, Document
  <2> HIDE DEF n, w
  <2>5. Latest("wall")'
    BY <2>2, <2>3, <2>4, LatestWritten
  <2>6. Latest("combat")' /\ Latest("token")'
    BY <2>2, <2>3, <2>4, LatestKept DEF Matching, DocId
  <2>7. \A f \in Field : LatestSet(f)'
    BY <2>2, <2>3, <2>4, SetKept DEF Matching
  <2> QED BY <2>5, <2>6, <2>7 DEF Matching, DocId
<1>5. CASE CommitPatch(h)
  <2> DEFINE field == tx[h].field
             value == tx[h].value
             row == Row(n, tx[h].by, "document.patch", "token", [f \in {field} |-> value])
  <2>1. /\ log' = Append(log, row)
        /\ docs' = [docs EXCEPT !.token = Patched(docs.token, field, value, n)]
    BY <1>1, <1>5 DEF CommitPatch, Append1
  <2>2. row.id = "token" /\ row.body = [f \in {field} |-> value]
    BY DEF Row
  <2> HIDE DEF row
  <2>3. Grows /\ New = {n} /\ n = Len(log') /\ log'[n] = row
    BY <2>1, GrownByOne
  <2>4. docs.token \in Kept(TokenData) /\ field \in Field
    BY <1>1, <1>5, Operations DEF DocsTyped, CommitPatch, PatchTx
  <2>5. /\ docs'["token"] = Patched(docs.token, field, value, n)
        /\ docs'["wall"] = docs["wall"] /\ docs'["combat"] = docs["combat"]
    BY <1>2, <2>1 DEF DocId
  <2> HIDE DEF n, field, value
  <2>6. /\ docs'.token.at = n
        /\ \A f \in Field : docs'.token.data[f] = IF f = field THEN value ELSE docs.token.data[f]
    BY <2>4, <2>5 DEF Patched, Kept, TokenData, Field
  <2>7. Latest("token")'
    BY <2>2, <2>3, <2>6, LatestWritten
  <2>8. Latest("wall")' /\ Latest("combat")'
    BY <2>2, <2>3, <2>5, LatestKept DEF Matching, DocId
  <2>9. ASSUME NEW f \in Field PROVE LatestSet(f)'
    <3>1. CASE f = field
      <4>1. f \in DOMAIN log'[n].body /\ log'[n].body[f] = value /\ docs'.token.data[f] = value
        BY <2>2, <2>3, <2>6, <3>1
      <4> QED BY <2>2, <2>3, <4>1, SetWritten
    <3>2. CASE f # field
      <4>1. \A i \in New : f \notin DOMAIN log'[i].body
        BY <2>2, <2>3, <3>2
      <4>2. LatestSet(f) /\ docs'.token.data[f] = docs.token.data[f]
        BY <2>6, <3>2 DEF Matching
      <4> QED BY <2>3, <4>1, <4>2, SetKept
    <3> QED BY <3>1, <3>2
  <2> QED BY <2>7, <2>8, <2>9 DEF Matching, DocId
<1>6. ASSUME NEW row, row.id \notin DocId, log' = Append(log, row), docs' = docs PROVE Matching'
  BY <1>6, GrownByOne, MatchingKept
<1>7. CASE CommitActivate(h)
  BY <1>6, <1>7 DEF CommitActivate, Append1, Row, DocId
<1>8. CASE CommitChat(h)
  BY <1>6, <1>8 DEF CommitChat, Append1, Row, DocId
<1>9. CASE CommitAccess(h)
  <2> DEFINE id == tx[h].id
  <2>1. id \in DocId /\ Serial
    BY <1>1, <1>9, Operations
       DEF CommitAccess, AccessTx, DocId, OverHTTP, HTTPWrites, Serial
  <2>2. tx[h].read = docs[id]
    BY <1>9, <2>1 DEF CommitAccess, Current, Fresh
  <2>3. docs' = [docs EXCEPT ![id] = [docs[id] EXCEPT !.acl = tx[h].level]] /\ log' = log
    BY <1>9, <2>2 DEF CommitAccess
  <2> HIDE DEF id
  <2>4. \A i \in DocId : docs'[i].at = docs[i].at /\ docs'[i].data = docs[i].data
    BY <1>2, <2>1, <2>3, SMTT(30)
  <2>5. Grows /\ New = {}
    BY <1>1, <2>3, SMTT(30) DEF Grows, New
  <2> QED BY <2>4, <2>5, MatchingKept
<1> QED BY <1>3, <1>4, <1>5, <1>7, <1>8, <1>9 DEF Commit

LEMMA MatchingInit == Init => OverHTTP /\ Matching
<1> SUFFICES ASSUME Init PROVE OverHTTP /\ Matching
  OBVIOUS
<1>1. OverHTTP
  BY DEF Init, OverHTTP, Idle
<1>2. Len(log) = 0
  BY DEF Init
<1>3. \A id : About(id) = {}
  BY <1>2, SMTT(30) DEF About
<1>4. \A f : Setting(f) = {}
  BY <1>2, SMTT(30) DEF Setting
<1> QED BY <1>1, <1>3, <1>4 DEF Matching, Latest, LatestSet

LEMMA MatchingStep ==
  ASSUME HTTPStores \subseteq {"sqlite"}
  PROVE  IInv /\ Current /\ OverHTTP /\ Matching /\ [Next]_vars => Matching'
<1> SUFFICES ASSUME IInv, Current, OverHTTP, Matching, [Next]_vars PROVE Matching'
  OBVIOUS
<1>1. ASSUME UNCHANGED <<docs, log>> PROVE Matching'
  BY <1>1, SMTT(30) DEF Matching, Latest, LatestSet, About, Setting
<1>2. CASE UNCHANGED vars
  BY <1>1, <1>2 DEF vars, stored
<1>3. ASSUME NEW h \in Handler, Read(h) PROVE Matching'
  BY <1>1, <1>3 DEF Read, ReadTokens, ReadNext, ReadEnd, ReadDoor, ReadChat, ReadPatch,
                    ReadWorld, ReadAccess, Begin, stored
<1>4. ASSUME NEW h \in Handler, Fail(h) \/ Publish(h) PROVE Matching'
  BY <1>1, <1>4 DEF Fail, Publish, stored
<1>5. CASE CreateToken
  BY <1>1, <1>5 DEF CreateToken
<1> QED BY <1>2, <1>3, <1>4, <1>5, CommitMatches DEF Next

(* The documents are what the log says, on either store, whoever overlaps  *)
(* whom, where documents are written over HTTP on SQLite at most.          *)
THEOREM WorldDocumentsMatchLog ==
  ASSUME HTTPStores \subseteq {"sqlite"}
  PROVE  Spec => []DocumentsMatchLog
<1>1. \A rows \in SUBSET Nat : \A i \in rows : (\A j \in rows : j <= i) => Newest(rows) = i
  <2> SUFFICES ASSUME NEW rows \in SUBSET Nat, NEW i \in rows, \A j \in rows : j <= i
               PROVE  Newest(rows) = i
    OBVIOUS
  <2>1. Newest(rows) \in rows /\ \A j \in rows : j <= Newest(rows)
    BY DEF Newest
  <2> DEFINE m == Newest(rows)
  <2>2. m \in Nat /\ i \in Nat /\ m <= i /\ i <= m
    BY <2>1
  <2> HIDE DEF m
  <2>3. m = i
    BY <2>2, SMTT(30)
  <2> QED BY <2>3 DEF m
<1>2. ASSUME IInv, Matching PROVE DocumentsMatchLog
  <2>1. /\ \A id : Rows(LAMBDA row : row.id = id) = About(id)
        /\ \A f : Rows(LAMBDA row : row.id = "token" /\ f \in DOMAIN row.body) = Setting(f)
    BY DEF Rows, About, Setting
  <2>2. \A id : About(id) \in SUBSET Nat
    BY SMTT(30) DEF About
  <2>3. \A f : Setting(f) \in SUBSET Nat
    BY SMTT(30) DEF Setting
  <2>4. ASSUME NEW id \in DocId, About(id) # {}
        PROVE  /\ docs[id].at = Newest(About(id))
               /\ id # "token" => docs[id].data = log[Newest(About(id))].body
    BY <1>1, <1>2, <2>2, <2>4 DEF Matching, Latest
  <2>5. ASSUME NEW f \in Field, Setting(f) # {}
        PROVE  docs.token.data[f] = log[Newest(Setting(f))].body[f]
    BY <1>1, <1>2, <2>3, <2>5 DEF Matching, LatestSet
  <2>6. \A id \in {"combat", "wall"} : id \in DocId /\ id # "token"
    BY DEF DocId
  <2> QED BY <2>1, <2>4, <2>5, <2>6 DEF DocumentsMatchLog, Field
<1>3. IInv /\ Current /\ OverHTTP /\ Matching /\ [Next]_vars => Matching'
  BY MatchingStep
<1>4. IInv /\ Matching => DocumentsMatchLog
  BY <1>2
<1> QED
  BY <1>3, <1>4, IInvInit, IInvStep, CurrentInit, CurrentStep, MatchingInit, OverHTTPStep, PTL
     DEF Spec
-----------------------------------------------------------------------------
(* The combats that were started, and what was committed to one since.     *)
Starts ==
    {i \in 1..Len(log) : log[i].id = "combat" /\ log[i].body = NewCombat(log[i].body.size)}
After(s) == {i \in About("combat") : i > s}
Turns(c) == (c.round - 1) * c.size + c.turn

(* A request's tracker is a new one, or the next of a stored one: of the   *)
(* one stored now, unless that is younger than what the request read.      *)
Successor(c, d) == (Running(c) /\ d = Advance(c)) \/ d = Ended(c)
BuiltOn(t) ==
    \/ t.at = 0 /\ \E size \in 1..MaxTokens : t.combat = NewCombat(size)
    \/ t.at \in 1..Len(log) /\ (t.at = docs.combat.at => Successor(docs.combat.data, t.combat))
Tracked ==
    /\ docs.combat # NoDocument => About("combat") # {}
    /\ \A h \in Handler : tx[h].op = "combat" => BuiltOn(tx[h])

(* A running combat has had a turn for every row since the newest start.   *)
Counted ==
    docs.combat # NoDocument /\ docs.combat.data.active /\ ~overwrote =>
        \E s \in Starts : /\ \A j \in Starts : j <= s
                          /\ Turns(docs.combat.data) = Cardinality(After(s))

(* A turn more, in this round or the next; never back to the start.        *)
LEMMA OneTurn ==
  ASSUME NEW c \in CombatData, Running(c)
  PROVE  /\ Turns(Advance(c)) = Turns(c) + 1 /\ Turns(c) \in Nat
         /\ \A size : Advance(c) # NewCombat(size)
<1>1. /\ c \in [active : BOOLEAN, round : Nat, turn : Nat, size : 0..MaxTokens]
      /\ c.active /\ c.turn < c.size /\ c.round >= 1
  BY SMT DEF Running, CombatData
<1>2. MaxTokens \in Nat
  BY WorldAssumption
<1>3. PICK r \in Nat : r = c.round - 1
  BY <1>1, SMT
<1>4. c.size \in Nat /\ c.turn \in Nat /\ c.round = r + 1
  BY <1>1, <1>2, <1>3, SMT
<1>5. PICK x \in Nat : x = r * c.size /\ (r + 1) * c.size = x + c.size
  <2>1. \A a, b \in Nat : a * b \in Nat /\ (a + 1) * b = a * b + b
    BY SMT
  <2> QED BY <1>4, <2>1
<1>6. CASE c.turn + 1 >= c.size
  <2>1. Advance(c) = [active |-> c.active, round |-> c.round + 1, turn |-> 0, size |-> c.size]
    BY <1>1, <1>6 DEF Advance
  <2>2. Turns(Advance(c)) = x + c.size /\ Turns(c) = x + c.turn
    BY <1>3, <1>4, <1>5, <2>1, SMT DEF Turns
  <2>3. c.turn + 1 = c.size
    BY <1>1, <1>4, <1>6, SMT
  <2>4. \A size : Advance(c) # NewCombat(size)
    <3>1. Advance(c).round # 1 /\ \A size : NewCombat(size).round = 1
      BY <1>4, <2>1, SMT DEF NewCombat
    <3> QED BY <3>1
  <2>5. x + c.size = (x + c.turn) + 1 /\ x + c.turn \in Nat
    BY <1>4, <2>3, SMT
  <2> QED BY <2>2, <2>4, <2>5
<1>7. CASE ~(c.turn + 1 >= c.size)
  <2>1. Advance(c) = [active |-> c.active, round |-> c.round, turn |-> c.turn + 1, size |-> c.size]
    BY <1>1, <1>7 DEF Advance
  <2>2. Turns(Advance(c)) = x + (c.turn + 1) /\ Turns(c) = x + c.turn
    BY <1>3, <1>4, <1>5, <2>1, SMT DEF Turns
  <2>3. \A size : Advance(c) # NewCombat(size)
    <3>1. Advance(c).turn # 0 /\ \A size : NewCombat(size).turn = 0
      BY <1>4, <2>1, SMT DEF NewCombat
    <3> QED BY <3>1
  <2>4. x + (c.turn + 1) = (x + c.turn) + 1 /\ x + c.turn \in Nat
    BY <1>4, SMT
  <2> QED BY <2>2, <2>3, <2>4
<1> QED BY <1>6, <1>7

(* A combat just started has had none.                                     *)
LEMMA NoTurn ==
  ASSUME NEW size \in 1..MaxTokens
  PROVE  Turns(NewCombat(size)) = 0 /\ NewCombat(size).size = size
<1>1. size \in Nat
  BY WorldAssumption, SMT
<1> QED BY <1>1, SMT DEF Turns, NewCombat

(* A log without news of the combat, and a tracker that stays.             *)
LEMMA CountedKept ==
  ASSUME Grows, \A i \in New : log'[i].id # "combat", docs'.combat.at = docs.combat.at,
         docs'.combat.data = docs.combat.data,
         docs'.combat = NoDocument <=> docs.combat = NoDocument,
         overwrote => overwrote', Counted
  PROVE  Counted'
<1>1. About("combat")' = About("combat") /\ Starts' = Starts
  <2>1. \A i \in 1..Len(log') : i \in 1..Len(log) \/ i \in New
    BY SMT DEF Grows, New
  <2>2. \A i \in 1..Len(log) : i \in 1..Len(log')
    BY SMT DEF Grows
  <2>3. About("combat")' = About("combat")
    BY <2>1, <2>2 DEF About, Grows
  <2>4. Starts' = Starts
    BY <2>1, <2>2 DEF Starts, Grows
  <2> QED BY <2>3, <2>4
<1>2. \A s : After(s)' = After(s)
  BY <1>1 DEF After
<1> QED BY <1>1, <1>2 DEF Counted

(* A step that does nothing with the combat: the tracker stays, no row is  *)
(* about it and no request takes one up.                                   *)
TrackerStays ==
    /\ Grows /\ \A i \in New : log'[i].id # "combat"
    /\ docs'.combat.at = docs.combat.at /\ docs'.combat.data = docs.combat.data
    /\ docs'.combat = NoDocument <=> docs.combat = NoDocument
    /\ overwrote => overwrote'
Aside == TrackerStays /\ \A g \in Handler : tx'[g].op = "combat" => tx'[g] = tx[g]

LEMMA BuiltOnKept ==
  ASSUME TrackerStays, NEW t, BuiltOn(t)
  PROVE  (\/ t.at = 0 /\ \E size \in 1..MaxTokens : t.combat = NewCombat(size)
          \/ t.at \in 1..Len(log') /\ (t.at = docs'.combat.at => Successor(docs'.combat.data, t.combat)))
<1>1. \A i \in 1..Len(log) : i \in 1..Len(log')
  BY SMT DEF TrackerStays, Grows
<1> QED BY <1>1 DEF BuiltOn, TrackerStays

(* It keeps the count and what the requests build on.                      *)
LEMMA AsideKeeps == ASSUME Aside, Tracked, Counted PROVE Tracked' /\ Counted'
<1>1. Counted'
  BY CountedKept DEF Aside, TrackerStays
<1>2. \A i \in 1..Len(log) : i \in 1..Len(log')
  BY SMT DEF Aside, TrackerStays, Grows
<1>3. About("combat") \subseteq About("combat")'
  BY <1>2 DEF About, Aside, TrackerStays, Grows
<1>4. docs'.combat # NoDocument => About("combat")' # {}
  BY <1>3 DEF Tracked, Aside, TrackerStays
<1>5. ASSUME NEW g \in Handler, tx'[g].op = "combat" PROVE BuiltOn(tx[g])'
  <2>1. tx'[g] = tx[g] /\ BuiltOn(tx[g])
    BY <1>5 DEF Aside, Tracked
  <2>2. \/ tx[g].at = 0 /\ \E size \in 1..MaxTokens : tx[g].combat = NewCombat(size)
        \/ /\ tx[g].at \in 1..Len(log')
           /\ tx[g].at = docs'.combat.at => Successor(docs'.combat.data, tx[g].combat)
    BY <2>1, BuiltOnKept DEF Aside
  <2> QED BY <2>1, <2>2 DEF BuiltOn
<1>6. Tracked'
  BY <1>4, <1>5 DEF Tracked
<1> QED BY <1>1, <1>6

(* combat.start, combat.next and combat.end read.                          *)
LEMMA ReadTracks ==
  ASSUME IInv, Matching, Tracked, Counted, overwrote => overwrote', NEW h \in Handler, Read(h)
  PROVE  Tracked' /\ Counted'
<1>1. DOMAIN tx = Handler /\ Len(log) \in Nat /\ tokens \in 0..MaxTokens
  BY LenProperties DEF IInv
<1>2. docs' = docs /\ log' = log
  BY DEF Read, ReadTokens, ReadNext, ReadEnd, ReadDoor, ReadChat, ReadPatch, ReadWorld,
         ReadAccess, Begin, stored
<1>3. TrackerStays
  <2>1. Len(log) <= Len(log) /\ Len(log) + 1..Len(log) = {}
    BY <1>1, SMT
  <2>2. Grows /\ New = {}
    BY <1>1, <1>2, <2>1 DEF Grows, New
  <2> QED BY <1>2, <2>2 DEF TrackerStays
<1>4. ASSUME NEW op, Begin(h, op), op.op = "combat" => BuiltOn(op) PROVE Tracked' /\ Counted'
  <2>1. \A g \in Handler : tx'[g] = IF g = h THEN op ELSE tx[g]
    BY <1>1, <1>4 DEF Begin
  <2>2. Counted'
    BY <1>3, CountedKept DEF TrackerStays
  <2>3. About("combat")' = About("combat")
    BY <1>2 DEF About
  <2>4. ASSUME NEW g \in Handler, tx'[g].op = "combat" PROVE BuiltOn(tx[g])'
    <3>1. BuiltOn(tx'[g])
      BY <1>4, <2>1, <2>4 DEF Tracked
    <3> QED BY <1>2, <3>1 DEF BuiltOn
  <2> QED BY <1>2, <2>2, <2>3, <2>4 DEF Tracked
<1>5. ASSUME docs.combat # NoDocument PROVE docs.combat.at \in 1..Len(log)
  <2>1. About("combat") # {} /\ Latest("combat")
    BY <1>5 DEF Tracked, Matching, DocId
  <2> QED BY <2>1 DEF Latest, About
<1>6. CASE ReadTokens(h)
  <2> DEFINE t == [op |-> "combat", combat |-> NewCombat(tokens), at |-> 0]
  <2>1. Begin(h, t) /\ tokens \in 1..MaxTokens
    BY <1>1, <1>6, WorldAssumption, SMT DEF ReadTokens
  <2>2. BuiltOn(t)
    BY <2>1 DEF BuiltOn
  <2> HIDE DEF t
  <2> QED BY <1>4, <2>1, <2>2
<1>7. CASE ReadNext(h)
  <2> DEFINE t == [op |-> "combat", combat |-> Advance(docs.combat.data), at |-> docs.combat.at]
  <2>1. Begin(h, t) /\ docs.combat # NoDocument /\ Running(docs.combat.data)
    BY <1>7 DEF ReadNext
  <2>2. BuiltOn(t)
    BY <1>5, <2>1 DEF BuiltOn, Successor
  <2> HIDE DEF t
  <2> QED BY <1>4, <2>1, <2>2
<1>8. CASE ReadEnd(h)
  <2> DEFINE t == [op |-> "combat", combat |-> Ended(docs.combat.data), at |-> docs.combat.at]
  <2>1. Begin(h, t) /\ docs.combat # NoDocument
    BY <1>8 DEF ReadEnd
  <2>2. BuiltOn(t)
    BY <1>5, <2>1 DEF BuiltOn, Successor
  <2> HIDE DEF t
  <2> QED BY <1>4, <2>1, <2>2
<1>9. ASSUME NEW op, Begin(h, op), op.op # "combat" PROVE Tracked' /\ Counted'
  BY <1>4, <1>9
<1>10. CASE ReadDoor(h)
  BY <1>9, <1>10 DEF ReadDoor
<1>11. ASSUME NEW by, ReadChat(h, by) PROVE Tracked' /\ Counted'
  BY <1>9, <1>11 DEF ReadChat
<1>12. ASSUME NEW by, NEW field, NEW value, ReadPatch(h, by, field, value)
       PROVE  Tracked' /\ Counted'
  BY <1>9, <1>12 DEF ReadPatch
<1>13. ASSUME NEW s, ReadWorld(h, s) PROVE Tracked' /\ Counted'
  BY <1>9, <1>13 DEF ReadWorld
<1>14. ASSUME NEW id, NEW level, ReadAccess(h, id, level) PROVE Tracked' /\ Counted'
  BY <1>9, <1>14 DEF ReadAccess
<1> QED
  BY <1>6, <1>7, <1>8, <1>10, <1>11, <1>12, <1>13, <1>14 DEF Read

(* commitCombat: the count starts again, goes on by one, or ends; unless   *)
(* the tracker it replaces is not the one it was made from.                *)
LEMMA CommitCounts ==
  ASSUME IInv, Matching, Tracked, Counted, NEW h \in Handler, CommitCombat(h),
         overwrote' = (overwrote \/ \E g \in Handler : Overwrites(g))
  PROVE  Tracked' /\ Counted'
<1>1. PICK n : n = Len(log) + 1
  OBVIOUS
<1>2. PICK t : t = tx[h]
  OBVIOUS
<1>3. PICK c : c = docs.combat
  OBVIOUS
<1> DEFINE d == t.combat
           row == Row(n, "staff", CombatKind(d), "combat", d)
           A == About("combat")
<1>4. /\ eventSeq = Len(log) /\ log \in Seq(LogRow) /\ Len(log) \in Nat /\ DOMAIN tx = Handler
      /\ DocsTyped
  BY LenProperties DEF IInv, LogGapless
<1>5. /\ t.op = "combat" /\ log' = Append(log, row)
      /\ docs' = [docs EXCEPT !.combat = CombatDocument(d, n)]
      /\ tx' = [tx EXCEPT ![h] = Publishing(<<row>>)]
  BY <1>1, <1>2, <1>4 DEF CommitCombat, Append1
<1>6. row.id = "combat" /\ row.body = d
  BY DEF Row
<1> HIDE DEF row
<1>7. Grows /\ Len(log') = n /\ New = {n} /\ log'[n] = row
  BY <1>1, <1>5, GrownByOne
<1>8. /\ docs'.combat = CombatDocument(d, n) /\ docs'.combat.at = n /\ docs'.combat.data = d
  BY <1>4, <1>5 DEF DocsTyped, CombatDocument, Document
<1>9. /\ n \in Nat /\ n > 0 /\ n \in 1..Len(log')
      /\ \A i \in 1..Len(log) : i \in 1..Len(log') /\ i # n /\ i < n /\ i <= n /\ n > i /\ ~(i > n)
      /\ \A i \in 1..Len(log') : i = n \/ i \in 1..Len(log)
      /\ ~(n > n) /\ n <= n
  BY <1>1, <1>4, <1>7, SMT
<1>10. /\ \A i \in 1..Len(log) : log'[i] = log[i]
  BY <1>7 DEF Grows
<1>11. About("combat")' = A \cup {n} /\ n \notin A
  BY <1>6, <1>7, <1>9, <1>10 DEF About
<1>12. \A g \in Handler : tx'[g].op = "combat" => tx'[g] = tx[g] /\ g # h
  <2>1. tx'[h].op = "publish"
    BY <1>4, <1>5 DEF Publishing
  <2> QED BY <1>4, <1>5, <2>1
<1>13. Tracked'
  <2>1. ASSUME NEW g \in Handler, tx'[g].op = "combat" PROVE BuiltOn(tx[g])'
    <3>1. tx'[g] = tx[g] /\ BuiltOn(tx[g])
      BY <1>12, <2>1 DEF Tracked
    <3> QED BY <1>8, <1>9, <3>1 DEF BuiltOn
  <2> QED BY <1>11, <2>1 DEF Tracked
<1>14. ASSUME d.active, ~overwrote'
       PROVE  \E s \in Starts' : /\ \A j \in Starts' : j <= s
                                 /\ Turns(d) = Cardinality(After(s)')
  <2>1. ~overwrote /\ ~Outdated(h)
    <3>1. tx'[h].op = "publish"
      BY <1>4, <1>5 DEF Publishing
    <3> QED BY <1>2, <1>5, <1>14, <3>1 DEF Overwrites
  <2>2. BuiltOn(t)
    BY <1>2, <1>5 DEF Tracked
  <2>3. CASE t.at = 0 /\ \E size \in 1..MaxTokens : t.combat = NewCombat(size)
    <3>1. PICK size \in 1..MaxTokens : d = NewCombat(size)
      BY <2>3
    <3>2. Turns(d) = 0 /\ d.size = size
      BY <3>1, NoTurn
    <3>3. n \in Starts'
      BY <1>6, <1>7, <1>9, <3>1, <3>2 DEF Starts
    <3>4. \A j \in Starts' : j <= n
      BY <1>9 DEF Starts
    <3>5. After(n)' = {}
      <4>1. \A i \in A : ~(i > n)
        BY <1>9 DEF About
      <4> QED BY <1>9, <1>11, <4>1 DEF After
    <3>6. Cardinality(After(n)') = 0
      BY <3>5, FS_EmptySet
    <3> QED BY <3>2, <3>3, <3>4, <3>6
  <2>4. CASE t.at \in 1..Len(log) /\ (t.at = docs.combat.at => Successor(docs.combat.data, t.combat))
    <3>1. t.at # 0 /\ t.at = c.at /\ 0 \notin 1..Len(log)
      BY <1>2, <1>3, <1>4, <2>1, <2>4, SMT DEF Outdated
    <3>2. c # NoDocument
      <4>1. NoDocument.at = 0
        BY DEF NoDocument
      <4> QED BY <3>1, <4>1
    <3>3. c.data \in CombatData
      BY <1>3, <1>4, <3>2, SMT DEF DocsTyped, Kept
    <3>4. Successor(c.data, d)
      BY <1>3, <2>4, <3>1
    <3>5. ~Ended(c.data).active
      BY <3>3, SMT DEF Ended, CombatData
    <3>6. Running(c.data) /\ d = Advance(c.data)
      BY <1>14, <3>4, <3>5 DEF Successor
    <3>7. /\ Turns(d) = Turns(c.data) + 1 /\ Turns(c.data) \in Nat
          /\ \A size : d # NewCombat(size)
      BY <3>3, <3>6, OneTurn
    <3>8. c.data.active
      BY <3>6 DEF Running
    <3>9. PICK s \in Starts : (\A j \in Starts : j <= s) /\ Turns(c.data) = Cardinality(After(s))
      BY <1>3, <2>1, <3>2, <3>8 DEF Counted
    <3>10. Starts' = Starts
      BY <1>6, <1>7, <1>9, <1>10, <3>7 DEF Starts
    <3>11. n > s
      BY <1>9 DEF Starts
    <3>12. After(s)' = After(s) \cup {n} /\ n \notin After(s)
      BY <1>11, <3>11 DEF After
    <3>13. IsFiniteSet(After(s))
      <4>1. IsFiniteSet(1..Len(log))
        BY <1>4, FS_Interval, SMT
      <4>2. After(s) \subseteq 1..Len(log)
        BY DEF After, About
      <4> QED BY <4>1, <4>2, FS_Subset
    <3>14. Cardinality(After(s) \cup {n}) = Cardinality(After(s)) + 1
      BY <3>12, <3>13, FS_AddElement
    <3> QED BY <3>7, <3>9, <3>10, <3>12, <3>14
  <2> QED BY <2>2, <2>3, <2>4 DEF BuiltOn
<1>15. Counted'
  BY <1>8, <1>14 DEF Counted
<1> QED BY <1>13, <1>15

(* The other commits leave the tracker as it is.                           *)
LEMMA OthersAside ==
  ASSUME IInv, Current, OverHTTP, HTTPStores \subseteq {"sqlite"}, NEW h \in Handler,
         CommitDoor(h) \/ CommitPatch(h) \/ CommitActivate(h) \/ CommitChat(h) \/ CommitAccess(h),
         overwrote => overwrote'
  PROVE  Aside
<1>1. /\ eventSeq = Len(log) /\ Len(log) \in Nat /\ DOMAIN tx = Handler
      /\ docs \in [combat : Kept(CombatData) \cup {NoDocument}, wall : Kept(WallData),
                   token : Kept(TokenData)]
      /\ tx[h] \in {Idle} \cup Working \cup PublishTx
  BY LenProperties DEF IInv, LogGapless, DocsTyped
<1>2. \A g \in Handler : tx'[g].op = "combat" => tx'[g] = tx[g]
  <2>1. tx'[h].op \in {"idle", "publish"} /\ \A g \in Handler \ {h} : tx'[g] = tx[g]
    BY <1>1, SMT DEF CommitDoor, CommitPatch, CommitActivate, CommitChat, CommitAccess, Append1,
                     Publishing, Idle
  <2>2. tx'[h].op # "combat"
    BY <2>1
  <2> QED BY <2>1, <2>2
<1>3. ASSUME NEW row, row.id # "combat", log' = Append(log, row), docs'.combat = docs.combat
      PROVE  Aside
  <2>1. Grows /\ Len(log') = Len(log) + 1 /\ New = {Len(log) + 1} /\ log'[Len(log) + 1] = row
    BY <1>3, GrownByOne
  <2> QED BY <1>2, <1>3, <2>1 DEF Aside, TrackerStays
<1>4. CASE CommitDoor(h)
  <2> DEFINE w == Toggled(tx[h].wall.data)
             r1 == Row(eventSeq + 1, "staff", "scene.door.toggle", "wall", w)
             r2 == Row(eventSeq + 2, "staff", "scene.visibility", "scene", NoBody)
  <2>1. /\ log' = log \o <<r1, r2>>
        /\ docs' = [docs EXCEPT !.wall = Document(w, tx[h].wall.acl, eventSeq + 1)]
    BY <1>4 DEF CommitDoor
  <2>2. r1.id # "combat" /\ r2.id # "combat"
    BY DEF Row
  <2> HIDE DEF r1, r2
  <2>3. /\ Grows /\ New = {Len(log) + 1, Len(log) + 2}
        /\ log'[Len(log) + 1] = r1 /\ log'[Len(log) + 2] = r2
    BY <2>1, GrownByTwo
  <2>4. docs'.combat = docs.combat
    BY <1>1, <2>1
  <2> QED BY <1>2, <2>2, <2>3, <2>4 DEF Aside, TrackerStays
<1>5. CASE CommitPatch(h)
  <2>1. docs'.combat = docs.combat
    BY <1>1, <1>5 DEF CommitPatch
  <2> DEFINE row == Row(eventSeq + 1, tx[h].by, "document.patch", "token",
                        [f \in {tx[h].field} |-> tx[h].value])
  <2>2. log' = Append(log, row) /\ row.id # "combat"
    BY <1>5 DEF CommitPatch, Append1, Row
  <2> HIDE DEF row
  <2> QED BY <1>3, <2>1, <2>2
<1>6. CASE CommitActivate(h)
  <2> DEFINE row == Row(eventSeq + 1, "staff", "scene.activate", "scene", [scene |-> tx[h].scene])
  <2>1. docs' = docs /\ log' = Append(log, row) /\ row.id # "combat"
    BY <1>6 DEF CommitActivate, Append1, Row
  <2> HIDE DEF row
  <2> QED BY <1>3, <2>1
<1>7. CASE CommitChat(h)
  <2> DEFINE row == Row(eventSeq + 1, tx[h].by, "chat.message", "message", NoBody)
  <2>1. docs' = docs /\ log' = Append(log, row) /\ row.id # "combat"
    BY <1>7 DEF CommitChat, Append1, Row
  <2> HIDE DEF row
  <2> QED BY <1>3, <2>1
<1>8. CASE CommitAccess(h)
  <2>1. tx[h].op = "access" /\ Serial
    BY <1>8 DEF CommitAccess, OverHTTP, HTTPWrites, Serial
  <2>2. docs[tx[h].id] # NoDocument /\ tx[h].read = docs[tx[h].id]
    BY <2>1 DEF Current, Fresh
  <2>3. tx[h].id \in DocId /\ tx[h].level \in Level
    BY <1>1, <2>1, Operations, SMT DEF AccessTx, DocId
  <2>4. docs' = [docs EXCEPT ![tx[h].id] = [docs[tx[h].id] EXCEPT !.acl = tx[h].level]] /\ log' = log
    BY <1>8, <2>2 DEF CommitAccess
  <2>5. Grows /\ New = {}
    BY <1>1, <2>4, SMT DEF Grows, New
  <2>6. CASE tx[h].id # "combat"
    <3>1. docs'.combat = docs.combat
      BY <1>1, <2>4, <2>6
    <3> QED BY <1>2, <2>5, <3>1 DEF Aside, TrackerStays
  <2>7. CASE tx[h].id = "combat"
    <3>1. docs.combat \in Kept(CombatData) /\ docs.combat # NoDocument
      BY <1>1, <2>2, <2>7
    <3>2. docs'.combat = [docs.combat EXCEPT !.acl = tx[h].level]
      BY <1>1, <2>4, <2>7
    <3>3. /\ docs'.combat.at = docs.combat.at /\ docs'.combat.data = docs.combat.data
          /\ DOMAIN docs'.combat = {"data", "acl", "at"} /\ DOMAIN NoDocument = {"at"}
      BY <3>1, <3>2, SMT DEF Kept, NoDocument
    <3>4. docs'.combat # NoDocument
      BY <3>3, "data" # "at"
    <3> QED BY <1>2, <2>5, <3>1, <3>3, <3>4 DEF Aside, TrackerStays
  <2> QED BY <2>6, <2>7
<1> QED BY <1>4, <1>5, <1>6, <1>7, <1>8

LEMMA CountedStep ==
  ASSUME HTTPStores \subseteq {"sqlite"}
  PROVE  IInv /\ Current /\ OverHTTP /\ Matching /\ Tracked /\ Counted /\ [Next]_vars
            => Tracked' /\ Counted'
<1> SUFFICES ASSUME IInv, Current, OverHTTP, Matching, Tracked, Counted, [Next]_vars
             PROVE  Tracked' /\ Counted'
  OBVIOUS
<1>1. DOMAIN tx = Handler /\ Len(log) \in Nat
  BY LenProperties DEF IInv
<1>2. overwrote => overwrote'
  BY DEF Next, vars
<1>3. ASSUME UNCHANGED <<docs, log>>, \A g \in Handler : tx'[g].op = "combat" => tx'[g] = tx[g]
      PROVE  Tracked' /\ Counted'
  <2>1. Len(log) <= Len(log) /\ Len(log) + 1..Len(log) = {}
    BY <1>1, SMT
  <2>2. Grows /\ New = {}
    BY <1>1, <1>3, <2>1 DEF Grows, New
  <2>3. Aside
    BY <1>2, <1>3, <2>2 DEF Aside, TrackerStays
  <2> QED BY <2>3, AsideKeeps
<1>4. CASE UNCHANGED vars
  BY <1>3, <1>4 DEF vars, stored
<1>5. CASE Next
  <2>1. ASSUME NEW h \in Handler, Read(h) PROVE Tracked' /\ Counted'
    BY <1>2, <2>1, ReadTracks
  <2>2. ASSUME NEW h \in Handler, CommitCombat(h) PROVE Tracked' /\ Counted'
    BY <1>5, <2>2, CommitCounts DEF Next
  <2>3. ASSUME NEW h \in Handler,
               CommitDoor(h) \/ CommitPatch(h) \/ CommitActivate(h) \/ CommitChat(h) \/ CommitAccess(h)
        PROVE  Tracked' /\ Counted'
    BY <1>2, <2>3, OthersAside, AsideKeeps
  <2>4. ASSUME NEW h \in Handler, Fail(h) \/ Publish(h) PROVE Tracked' /\ Counted'
    <3>1. UNCHANGED <<docs, log>>
      BY <2>4 DEF Fail, Publish, stored
    <3>2. tx'[h].op # "combat" /\ \A g \in Handler \ {h} : tx'[g] = tx[g]
      BY <1>1, <2>4, SMT DEF Fail, Publish, Publishing, Idle
    <3> QED BY <1>3, <3>1, <3>2
  <2>5. CASE CreateToken
    BY <1>3, <2>5 DEF CreateToken
  <2> QED BY <1>5, <2>1, <2>2, <2>3, <2>4, <2>5 DEF Next, Commit
<1> QED BY <1>4, <1>5

(* A running combat has seen as many turns as combat.next was committed    *)
(* since it started, on either store and for any number of requests and    *)
(* combatants, as long as no tracker made from an older copy replaced a    *)
(* younger one and documents are written over HTTP on SQLite at most.      *)
THEOREM WorldTurnsCounted ==
  ASSUME HTTPStores \subseteq {"sqlite"}
  PROVE  Spec => []TurnsCounted
<1>1. Init => Tracked /\ Counted
  <2> SUFFICES ASSUME Init PROVE Tracked /\ Counted
    OBVIOUS
  <2>1. docs.combat = NoDocument /\ \A h \in Handler : tx[h].op # "combat"
    BY SMT DEF Init, InitialDocs, Idle
  <2> QED BY <2>1 DEF Tracked, Counted
<1>2. IInv /\ Counted => TurnsCounted
  <2> SUFFICES ASSUME IInv, Counted, docs.combat # NoDocument, docs.combat.data.active, ~overwrote
               PROVE  Turns(docs.combat.data) = Cardinality(After(Newest(Starts)))
    <3>1. /\ Rows(LAMBDA row : row.id = "combat") = About("combat")
          /\ Rows(LAMBDA row : row.id = "combat" /\ row.body = NewCombat(row.body.size)) = Starts
      BY SMT DEF Rows, About, Starts
    <3> QED BY <3>1 DEF TurnsCounted, Turns, After
  <2>1. PICK s \in Starts : /\ \A j \in Starts : j <= s
                            /\ Turns(docs.combat.data) = Cardinality(After(s))
    BY DEF Counted
  <2>2. Newest(Starts) \in Starts /\ \A j \in Starts : j <= Newest(Starts)
    BY <2>1 DEF Newest
  <2>3. \A i, j \in Starts : i <= j /\ j <= i => i = j
    BY SMT DEF Starts
  <2>4. Newest(Starts) = s
    BY <2>1, <2>2, <2>3
  <2> QED BY <2>1, <2>4
<1>3. /\ IInv /\ Current /\ OverHTTP /\ Matching /\ [Next]_vars => Matching'
      /\ IInv /\ Current /\ OverHTTP /\ Matching /\ Tracked /\ Counted /\ [Next]_vars
            => Tracked' /\ Counted'
  BY MatchingStep, CountedStep
<1> QED
  BY <1>1, <1>2, <1>3, IInvInit, IInvStep, CurrentInit, CurrentStep, MatchingInit, OverHTTPStep, PTL
     DEF Spec
=============================================================================
