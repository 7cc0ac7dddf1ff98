---------------------------- MODULE SceneProofs -----------------------------
(***************************************************************************)
(* What the members at a table see and know, for any number of members,    *)
(* tokens and doors, any positions with integer coordinates and any number *)
(* of events: what live frames, replays and listings tell them.            *)
(***************************************************************************)
EXTENDS Scene, SequenceTheorems, TLAPS

(* What stands on a wall is not seen from anywhere (Crosses).              *)
LEMMA EndBlocks ==
  ASSUME NEW p \in Point, NEW q \in Point, NEW s \in Segment, Crosses(<<q, q>>, s)
  PROVE  Crosses(<<p, q>>, s)
<1>1. s[1] \in Point /\ s[2] \in Point
  BY DEF Segment
<1>2. /\ q[1] \in Int /\ q[2] \in Int
      /\ s[1][1] \in Int /\ s[1][2] \in Int /\ s[2][1] \in Int /\ s[2][2] \in Int
  BY <1>1 DEF Point
<1>3. /\ orientation(q, q, s[1]) = 0 /\ orientation(q, q, s[2]) = 0
      /\ orientation(s[1], s[2], s[1]) = 0 /\ orientation(s[1], s[2], s[2]) = 0
  BY <1>2 DEF orientation
<1>4. ASSUME NEW i \in {1, 2}, onSegment(q, q, s[i])
      PROVE  orientation(s[1], s[2], q) = 0 /\ onSegment(s[1], s[2], q)
  <2>1. q[1] = s[i][1] /\ q[2] = s[i][2]
    BY <1>2, <1>4 DEF onSegment, Least, Greatest
  <2>2. onSegment(s[1], s[2], q)
    BY <1>2, <2>1 DEF onSegment, Least, Greatest
  <2>3. orientation(s[1], s[2], q) = orientation(s[1], s[2], s[i])
    BY <2>1 DEF orientation
  <2> QED BY <1>3, <2>2, <2>3
<1>5. orientation(s[1], s[2], q) = 0 /\ onSegment(s[1], s[2], q)
  BY <1>3, <1>4 DEF Crosses, Opposite
<1> QED BY <1>5 DEF Crosses
-----------------------------------------------------------------------------
(* From here on Zenon is the prover of a step that names no other.         *)
USE ZenonT(30)

Program == {"off", "list", "listed", "joined", "replay", "item", "live"}
Positions == UNION {[ts -> Pos] : ts \in SUBSET Token}
Frames == [seq : Nat, shown : Positions, all : BOOLEAN]

DocsTyped ==
    /\ token \in [Token -> Documents]
    /\ open \in [Door -> BOOLEAN]
    /\ log \in Seq(Token \cup {None}) /\ Len(log) <= MaxSeq
    /\ grants \in 0..MaxGrants

SessionsTyped ==
    /\ pc \in [User -> Program]
    /\ todo \in [User -> Seq(Nat)]
    /\ read \in [User -> Reads \cup {NoRead}]
    /\ replay \in [User -> Seq(Frames)]
    /\ lane \in [User -> Seq(Frames)]
    /\ seen \in [User -> Nat]
    /\ told \in [User -> [Token -> Pos \cup {Untold}]]

(* What a session has in each of its stages.                               *)
Stage(u) ==
    /\ pc[u] \in {"off", "list", "listed"} => lane[u] = <<>>
    /\ pc[u] \notin {"replay", "item"} => todo[u] = <<>>
    /\ pc[u] \in {"off", "list", "joined", "live"} => replay[u] = <<>>
    /\ read[u] # NoRead <=> pc[u] \in {"item", "list"}
    /\ pc[u] = "item" => todo[u] # <<>>

(* Sequences: what the replay holds comes before what it has still to do.  *)
Order(u) ==
    /\ seen[u] <= Len(log)
    /\ \A i \in 1..Len(todo[u]) : todo[u][i] \in 1..Len(log)
    /\ \A i, j \in 1..Len(todo[u]) : i < j => todo[u][i] < todo[u][j]
    /\ \A i \in 1..Len(lane[u]) : lane[u][i].seq \in 1..Len(log)
    /\ Joined(u) => \A i \in 1..Len(replay[u]) :
          /\ replay[u][i].seq \in 1..Len(log)
          /\ \A j \in 1..Len(todo[u]) : replay[u][i].seq < todo[u][j]

(* The last event about a token.                                           *)
Latest(m, t) == log[m] = t /\ \A i \in 1..Len(log) : log[i] = t => i <= m
Remembered == \A i \in 1..Len(log) : \E m \in 1..Len(log) : Latest(m, log[i])

(* Who cannot miss where a token stands.                                   *)
Sure(u, t) ==
    \/ IsStaff(RoleOf[u])
    \/ /\ Level(u, token[t]) = LevelOwner /\ grants = 0
       /\ token[t].pos # Unreadable /\ ~OnDoor(token[t].pos)

(* The copy of a document that a replay works on.                          *)
Copied(u) ==
    pc[u] = "item" =>
        LET h == Head(todo[u])
            t == log[h]
        IN /\ t \in Token /\ t # None
           /\ DOMAIN read[u].tokens = {t}
           /\ grants = 0 => read[u].tokens[t].acl = token[t].acl
           /\ Latest(h, t) => read[u].tokens[t].pos = token[t].pos

(* A frame that leaves who receives it with the position of t.             *)
Fresh(frame, t) ==
    /\ t \in DOMAIN frame.shown => frame.shown[t] = token[t].pos
    /\ frame.all => t \in DOMAIN frame.shown

(* Frame i of a line is the event m about t, and the first of that age.    *)
Brings(line, i, m, t) ==
    /\ line[i].seq = m /\ t \in DOMAIN line[i].shown
    /\ \A j \in 1..i - 1 : line[j].seq < m

Coming(u, t, m) ==
    \/ \E i \in 1..Len(todo[u]) : todo[u][i] = m
    \/ \E i \in 1..Len(replay[u]) : Brings(replay[u], i, m, t)
    \/ /\ \E i \in 1..Len(lane[u]) : Brings(lane[u], i, m, t)
       /\ \A i \in 1..Len(replay[u]) : replay[u][i].seq < m
       /\ \A i \in 1..Len(todo[u]) : todo[u][i] < m

Informed(u, t, m) ==
    /\ m <= seen[u] => told[u][t] = token[t].pos
    /\ Joined(u) =>
          /\ \A i \in 1..Len(replay[u]) : replay[u][i].seq >= m => Fresh(replay[u][i], t)
          /\ \A i \in 1..Len(lane[u]) : lane[u][i].seq >= m => Fresh(lane[u][i], t)
          /\ pc[u] # "joined" /\ m > seen[u] => Coming(u, t, m)

Knows(u) ==
    \A t \in Token \ {None}, m \in 1..Len(log) :
        Latest(m, t) /\ Sure(u, t) => Informed(u, t, m)

(* Whether u would be told of a document, the other documents being so.    *)
WouldKnow(u, doc, blockers, documents) ==
    /\ ShowsData(Level(u, doc))
    /\ \/ doc.pos = Unreadable \/ blockers = {} \/ IsStaff(RoleOf[u])
       \/ VisibleFromAny(ViewpointsOf(u, RoleOf[u], documents), doc.pos, blockers)

DoorSegments == {DoorAt[d] : d \in Door}

(* The state documents and blockers were in when the read began, as far as *)
(* one commit can tell it from the present.                                *)
Began(u, documents, blockers) ==
    LET r == read[u] IN
    /\ \A t \in DOMAIN r.tokens : r.tokens[t] = documents[t]
    /\ r.known = {t \in DOMAIN r.tokens : WouldKnow(u, documents[t], blockers, documents)}
    /\ r.commits = 0 => documents = token /\ blockers = Blockers /\ r.blockers \in {{}, Blockers}
    /\ r.commits = 1 =>
          \/ documents = token /\ r.blockers \in {{}, Blockers, blockers}
          \/ /\ blockers = Blockers /\ r.blockers \in {{}, Blockers}
             /\ \E x \in Token :
                   /\ \A t \in Token \ {x} : documents[t] = token[t]
                   /\ documents[x].pos = token[x].pos \/ documents[x].acl = token[x].acl

Since(u) ==
    read[u] # NoRead /\ read[u].commits < 2 =>
        \E documents \in [Token -> Documents], blockers \in SUBSET DoorSegments :
            Began(u, documents, blockers)

Good(u) == Stage(u) /\ Order(u) /\ Copied(u) /\ Knows(u) /\ Since(u)

IInv == DocsTyped /\ SessionsTyped /\ Remembered /\ \A u \in User : Good(u)
-----------------------------------------------------------------------------
(* A sequence of one element.                                              *)
LEMMA OneElement ==
  ASSUME NEW S, NEW x \in S
  PROVE  <<x>> \in Seq(S)
BY SMT

(* What stands where when one sequence is put behind another.              *)
Stacked(s, r, line) ==
    /\ Len(line) = Len(s) + Len(r)
    /\ \A i \in 1..Len(s) : /\ i \in 1..Len(line) /\ line[i] = s[i]
                            /\ \A j \in 1..i - 1 : j \in 1..Len(s)
    /\ \A i \in 1..Len(r) :
          /\ Len(s) + i \in 1..Len(line) /\ line[Len(s) + i] = r[i]
          /\ \A j \in 1..(Len(s) + i) - 1 : j \in 1..Len(s)
                \/ (\E k \in 1..i - 1 : j = Len(s) + k /\ k \in 1..Len(r))
    /\ \A i \in 1..Len(line) : i \in 1..Len(s) \/ (\E k \in 1..Len(r) : i = Len(s) + k)

(* So it is with the concatenation of two.                                 *)
LEMMA Joining ==
  ASSUME NEW S, NEW s \in Seq(S), NEW r \in Seq(S)
  PROVE  s \o r \in Seq(S) /\ Stacked(s, r, s \o r)
<1> DEFINE line == s \o r
           a == Len(s)
           b == Len(r)
<1>1. /\ line \in Seq(S) /\ Len(line) = a + b /\ a \in Nat /\ b \in Nat
      /\ \A i \in 1..a + b : line[i] = IF i <= a THEN s[i] ELSE r[i - a]
  BY ConcatProperties, SMT
<1> HIDE DEF line, a, b
<1>2. /\ \A i \in 1..a : i \in 1..a + b /\ i <= a /\ \A j \in 1..i - 1 : j \in 1..a
      /\ \A i \in 1..b : a + i \in 1..a + b /\ ~(a + i <= a) /\ (a + i) - a = i
      /\ \A i \in 1..b : \A j \in 1..(a + i) - 1 :
            j \in 1..a \/ (j - a \in 1..i - 1 /\ j = a + (j - a) /\ j - a \in 1..b)
      /\ \A i \in 1..a + b : i \in 1..a \/ (i - a \in 1..b /\ i = a + (i - a))
  BY <1>1, SMT
<1>3. /\ \A i \in 1..a : line[i] = s[i]
      /\ \A i \in 1..b : line[a + i] = r[i]
  BY <1>1, <1>2
<1>4. /\ \A i \in 1..b : \A j \in 1..(a + i) - 1 :
            j \in 1..a \/ (\E k \in 1..i - 1 : j = a + k /\ k \in 1..b)
      /\ \A i \in 1..a + b : i \in 1..a \/ (\E k \in 1..b : i = a + k)
  <2>1. ASSUME NEW i \in 1..b, NEW j \in 1..(a + i) - 1, j \notin 1..a
        PROVE  \E k \in 1..i - 1 : j = a + k /\ k \in 1..b
    <3>1. j - a \in 1..i - 1 /\ j = a + (j - a) /\ j - a \in 1..b
      BY <1>2, <2>1
    <3> QED BY <3>1
  <2>2. ASSUME NEW i \in 1..a + b, i \notin 1..a PROVE \E k \in 1..b : i = a + k
    <3>1. i - a \in 1..b /\ i = a + (i - a)
      BY <1>2, <2>2
    <3> QED BY <3>1
  <2> QED BY <2>1, <2>2
<1> QED BY <1>1, <1>2, <1>3, <1>4 DEF line, a, b, Stacked

(* Levels are numbers, and staff own everything.                           *)
LEMMA LevelType ==
  ASSUME NEW u \in User, NEW doc \in Documents
  PROVE  /\ Level(u, doc) \in Levels
         /\ IsStaff(RoleOf[u]) => Level(u, doc) = LevelOwner
<1>1. PICK users \in SUBSET User : doc.acl \in [users \cup {DefaultKey} -> Levels]
  BY DEF Documents, AccessLists
<1>2. Applicable(u, doc.acl, <<>>, LevelNone) \in Levels
  BY <1>1 DEF Applicable, Has
<1>3. LevelOwner \in Levels /\ LevelObserver \in Levels
  BY SMT DEF Levels, LevelOwner, LevelObserver, LevelNone
<1> QED BY <1>2, <1>3, SMT DEF Level, Grant, Effective

(* setDocumentAccess leaves an access control list.                        *)
LEMMA WithLevelType ==
  ASSUME NEW acl \in AccessLists, NEW u \in User, NEW level \in Levels
  PROVE  WithLevel(acl, u, level) \in AccessLists
<1>1. PICK users \in SUBSET User : acl \in [users \cup {DefaultKey} -> Levels]
  BY DEF AccessLists
<1>2. WithLevel(acl, u, level) \in [(users \cup {u}) \cup {DefaultKey} -> Levels]
  BY <1>1, SMT DEF WithLevel
<1> QED BY <1>2 DEF AccessLists

(* The access control lists a scene begins with are some.                  *)
LEMMA FirstACLs == ACLs \subseteq AccessLists
<1>1. NewACL \in AccessLists
  <2>1. NewACL \in [{} \cup {DefaultKey} -> Levels]
    BY SMT DEF NewACL, Levels, LevelObserver, LevelNone, LevelOwner
  <2> QED BY <2>1 DEF AccessLists
<1>2. \A u \in User, level \in Levels : WithLevel(NewACL, u, level) \in AccessLists
  BY <1>1, WithLevelType
<1>3. AccessLevel \subseteq Levels /\ Player \subseteq User
  BY SceneAssumption DEF Player
<1> QED BY <1>1, <1>2, <1>3, SMT DEF ACLs

(* A frame that says nothing about tokens.                                 *)
LEMMA NothingShown == <<>> \in Positions /\ DOMAIN <<>> = {}
<1>1. <<>> \in Seq(Pos) /\ Len(<<>>) = 0 /\ 1..0 = {}
  BY SMT
<1>2. <<>> \in [{} -> Pos] /\ DOMAIN <<>> = {}
  BY <1>1, LenProperties
<1> QED BY <1>2 DEF Positions

(* What Shown shows of some documents.                                     *)
LEMMA ShownIs ==
  ASSUME NEW u \in User, NEW ts \in SUBSET Token, NEW tokens \in [ts -> Documents],
         NEW visible \in SUBSET ts
  PROVE  /\ Shown(u, tokens, visible) \in Positions
         /\ DOMAIN Shown(u, tokens, visible) = {t \in visible : ShowsData(Level(u, tokens[t]))}
         /\ \A t \in visible : ShowsData(Level(u, tokens[t]))
               => Shown(u, tokens, visible)[t] = tokens[t].pos
<1> DEFINE dom == {t \in visible : ShowsData(Level(u, tokens[t]))}
<1>1. Shown(u, tokens, visible) = [t \in dom |-> tokens[t].pos]
  BY DEF Shown
<1>2. dom \in SUBSET Token /\ \A t \in dom : tokens[t].pos \in Pos
  BY DEF Documents
<1>3. [t \in dom |-> tokens[t].pos] \in [dom -> Pos]
  BY <1>2
<1>4. Shown(u, tokens, visible) \in Positions
  BY <1>1, <1>2, <1>3 DEF Positions
<1> QED BY <1>1, <1>4

(* A record of a read is never mistaken for none.                          *)
LEMMA ReadIsOne == NoRead \notin Reads
<1>1. DOMAIN NoRead = {"tokens"}
  BY DEF NoRead
<1>2. \A r \in Reads : "blockers" \in DOMAIN r
  BY DEF Reads
<1>3. "blockers" # "tokens"
  OBVIOUS
<1> QED BY <1>1, <1>2, <1>3

(* What the queries see, closed doors included, are segments.              *)
LEMMA BlockersType ==
  ASSUME open \in [Door -> BOOLEAN]
  PROVE  Blockers \subseteq DoorSegments /\ DoorSegments \subseteq Segment
<1>1. DoorSegments \subseteq Segment
  BY SceneAssumption DEF DoorSegments
<1>2. ASSUME NEW b \in Blockers PROVE b \in DoorSegments
  <2>1. PICK w \in Walls : b = w.segment
    BY DEF Blockers, BlockersOf
  <2>2. PICK d \in Door : w = [segment |-> DoorAt[d], blocksSight |-> TRUE, door |-> TRUE, open |-> open[d]]
    BY <2>1 DEF Walls
  <2> QED BY <2>1, <2>2 DEF DoorSegments
<1> QED BY <1>1, <1>2
-----------------------------------------------------------------------------
(* A step that leaves a member's session and the documents alone.          *)
Aside(v) ==
    /\ pc'[v] = pc[v] /\ todo'[v] = todo[v] /\ read'[v] = read[v]
    /\ replay'[v] = replay[v] /\ lane'[v] = lane[v]
    /\ seen'[v] = seen[v] /\ told'[v] = told[v]

(* What nobody touches stays good.                                         *)
LEMMA AsideKept ==
  ASSUME NEW v \in User, Good(v), UNCHANGED docs, Aside(v)
  PROVE  Good(v)'
<1>0. UNCHANGED <<token, open, log, grants>>
  BY DEF docs
<1>1. Stage(v)'
  BY SMTT(30) DEF Good, Stage, Aside
<1>2. Order(v)'
  <2>1. Order(v)
    BY DEF Good
  <2> QED BY <1>0, <2>1 DEF Order, Aside, Joined
<1>3. Copied(v)'
  <2>1. Copied(v)
    BY DEF Good
  <2>2. \A m, t : Latest(m, t)' <=> Latest(m, t)
    BY <1>0 DEF Latest
  <2> QED BY <1>0, <2>1, <2>2 DEF Copied, Aside
<1>4. Knows(v)'
  <2> SUFFICES ASSUME NEW t \in Token \ {None}, NEW m \in 1..Len(log), Latest(m, t), Sure(v, t)
               PROVE  Informed(v, t, m)'
    BY <1>0 DEF Knows, Latest, Sure
  <2>1. Informed(v, t, m)
    BY DEF Good, Knows
  <2> QED BY <1>0, <2>1 DEF Informed, Aside, Joined, Fresh, Coming, Brings
<1>5. Since(v)'
  <2>1. Blockers' = Blockers
    BY <1>0 DEF Blockers, Walls
  <2>2. \A documents, blockers : Began(v, documents, blockers)' <=> Began(v, documents, blockers)
    BY <1>0, <2>1 DEF Began, Aside
  <2> QED BY <2>2 DEF Good, Since, Aside
<1> QED BY <1>1, <1>2, <1>3, <1>4, <1>5 DEF Good

(* Good again, for a member whose documents have not changed and who reads *)
(* nothing at the moment.                                                  *)
LEMMA IdleGood ==
  ASSUME NEW u \in User, Stage(u)', Order(u)', read'[u] = NoRead, pc'[u] # "item",
         UNCHANGED docs,
         \A t \in Token \ {None}, m \in 1..Len(log) :
            Latest(m, t) /\ Sure(u, t) => Informed(u, t, m)'
  PROVE  Good(u)'
<1>0. UNCHANGED <<token, open, log, grants>>
  BY DEF docs
<1>1. Knows(u)'
  BY <1>0 DEF Knows, Latest, Sure
<1>2. Copied(u)' /\ Since(u)'
  BY DEF Copied, Since
<1> QED BY <1>1, <1>2 DEF Good

(* A step of one session, the documents being left alone.                  *)
LEMMA SessionStep ==
  ASSUME IInv, NEW u \in User, UNCHANGED docs, SessionsTyped',
         \A v \in User \ {u} : Aside(v), Good(u)'
  PROVE  IInv'
<1>0. UNCHANGED <<token, open, log, grants>>
  BY DEF docs
<1>1. DocsTyped' /\ Remembered'
  BY <1>0 DEF IInv, DocsTyped, Remembered, Latest
<1>2. \A v \in User \ {u} : Good(v)'
  BY AsideKept DEF IInv
<1> QED BY <1>1, <1>2 DEF IInv

(* A session joins the hub.                                                *)
LEMMA JoinStep ==
  ASSUME IInv, NEW u \in User, Join(u)
  PROVE  IInv'
<1>0. UNCHANGED <<token, open, log, grants>> /\ UNCHANGED docs
  BY DEF Join, docs
<1>2. SessionsTyped'
  BY SMT DEF IInv, SessionsTyped, Join, Program
<1>3. \A v \in User \ {u} : Aside(v)
  BY DEF IInv, SessionsTyped, Join, Aside
<1>4. Good(u)'
  <2>1. pc[u] = "off" /\ pc'[u] = "joined" /\ Good(u)
    BY DEF IInv, SessionsTyped, Join
  <2>2. UNCHANGED <<todo, read, replay, lane, seen, told>>
    BY DEF Join
  <2>3. todo[u] = <<>> /\ replay[u] = <<>> /\ lane[u] = <<>> /\ read[u] = NoRead
    BY <2>1 DEF Good, Stage
  <2>4. Stage(u)'
    BY <2>1, <2>2, <2>3 DEF Stage
  <2>5. Order(u)'
    BY <1>0, <2>1, <2>2, <2>3, SMT DEF Good, Order
  <2>6. ASSUME NEW t \in Token \ {None}, NEW m \in 1..Len(log), Latest(m, t), Sure(u, t)
        PROVE  Informed(u, t, m)'
    <3>1. Informed(u, t, m)
      BY <2>1, <2>6 DEF Good, Knows
    <3> QED BY <1>0, <2>1, <2>2, <2>3, <3>1, SMT DEF Informed
  <2> QED BY <1>0, <2>1, <2>2, <2>3, <2>4, <2>5, <2>6, IdleGood
<1> QED BY <1>0, <1>2, <1>3, <1>4, SessionStep

(* A session learns which events it has missed.                            *)
LEMMA EventsSinceStep ==
  ASSUME IInv, NEW u \in User, EventsSince(u)
  PROVE  IInv'
<1>0. UNCHANGED <<token, open, log, grants>> /\ UNCHANGED docs
  BY DEF EventsSince, docs
<1> DEFINE missed == [i \in 1..Len(log) - seen[u] |-> seen[u] + i]
<1>2. /\ pc[u] = "joined" /\ pc'[u] = "replay" /\ todo'[u] = missed
      /\ UNCHANGED <<read, replay, lane, seen, told>>
  BY DEF IInv, SessionsTyped, EventsSince
<1>3. /\ Len(log) \in Nat /\ seen[u] \in Nat /\ seen[u] <= Len(log)
      /\ Len(log) - seen[u] \in Nat
  BY SMT DEF IInv, DocsTyped, SessionsTyped, Good, Order
<1>4. missed \in Seq(Nat) /\ Len(missed) = Len(log) - seen[u]
  BY <1>3, SMT
<1>5. /\ \A i \in 1..Len(missed) : missed[i] \in 1..Len(log)
      /\ \A i, j \in 1..Len(missed) : i < j => missed[i] < missed[j]
      /\ \A m \in 1..Len(log) : m > seen[u] => \E i \in 1..Len(missed) : missed[i] = m
  <2>1. \A m \in 1..Len(log) : m > seen[u] => m - seen[u] \in 1..Len(missed) /\ missed[m - seen[u]] = m
    BY <1>3, <1>4, SMT
  <2> QED BY <1>3, <1>4, <2>1, SMT
<1> HIDE DEF missed
<1>6. SessionsTyped'
  <2>1. todo' = [todo EXCEPT ![u] = missed] /\ pc' = [pc EXCEPT ![u] = "replay"]
    BY DEF EventsSince, missed
  <2> QED BY <1>2, <1>4, <2>1, SMT DEF IInv, SessionsTyped, Program
<1>7. \A v \in User \ {u} : Aside(v)
  BY DEF IInv, SessionsTyped, EventsSince, Aside
<1>8. Good(u)'
  <2>1. Good(u) /\ replay[u] = <<>> /\ read[u] = NoRead
    BY <1>2 DEF IInv, Good, Stage
  <2>2. Stage(u)'
    BY <1>2, <2>1 DEF Good, Stage
  <2>3. Order(u)'
    BY <1>0, <1>2, <1>5, <2>1, SMT DEF Good, Order
  <2>4. ASSUME NEW t \in Token \ {None}, NEW m \in 1..Len(log), Latest(m, t), Sure(u, t)
        PROVE  Informed(u, t, m)'
    <3>1. Informed(u, t, m)
      BY <2>1, <2>4 DEF Good, Knows
    <3>2. m > seen[u] => Coming(u, t, m)'
      BY <1>2, <1>5 DEF Coming
    <3>3. Joined(u) /\ Joined(u)'
      BY <1>2 DEF Joined
    <3> QED BY <1>0, <1>2, <3>1, <3>2, <3>3 DEF Informed, Fresh
  <2> QED BY <1>0, <1>2, <2>1, <2>2, <2>3, <2>4, IdleGood
<1> QED BY <1>0, <1>6, <1>7, <1>8, SessionStep

(* A replay is done with an event: it has shown a token that it is the     *)
(* last event about, where the token stands, and no other.                 *)
LEMMA EndItemStep ==
  ASSUME IInv, NEW u \in User, NEW shown \in Positions, NEW include \in BOOLEAN,
         pc[u] \in {"replay", "item"}, todo[u] # <<>>,
         EndItem(u, shown, include), UNCHANGED <<docs, lane, seen>>,
         DOMAIN shown \subseteq {log[Head(todo[u])]},
         \A t \in Token \ {None} : Latest(Head(todo[u]), t) /\ Sure(u, t) =>
            include /\ t \in DOMAIN shown /\ shown[t] = token[t].pos
  PROVE  IInv'
<1> DEFINE line == todo[u]
           rest == Tail(line)
           head == Head(line)
           frame == Frame(head, shown, FALSE)
           before == replay[u]
           after == IF include THEN Append(before, frame) ELSE before
<1>0. UNCHANGED <<token, open, log, grants>> /\ UNCHANGED docs
  BY DEF docs
<1>1. line \in Seq(Nat) /\ line # <<>> /\ before \in Seq(Frames)
  BY DEF IInv, SessionsTyped
<1>2. /\ pc' = [pc EXCEPT ![u] = "replay"] /\ todo' = [todo EXCEPT ![u] = rest]
      /\ read' = [read EXCEPT ![u] = NoRead] /\ replay' = [replay EXCEPT ![u] = after]
      /\ UNCHANGED <<lane, seen, told>>
  BY SMT DEF EndItem, SessionsTyped, IInv
<1>3. /\ Len(line) \in Nat \ {0} /\ Len(rest) = Len(line) - 1 /\ rest \in Seq(Nat)
      /\ \A i \in 1..Len(rest) : i + 1 \in 1..Len(line) /\ i + 1 > 1 /\ rest[i] = line[i + 1]
      /\ head = line[1] /\ 1 \in 1..Len(line) /\ head \in Nat
      /\ \A i \in 1..Len(line) : i = 1 \/ (i - 1 \in 1..Len(rest) /\ rest[i - 1] = line[i])
  BY <1>1, SMT
<1>4. frame \in Frames /\ frame.seq = head /\ frame.shown = shown /\ frame.all = FALSE
  BY <1>3 DEF Frame, Frames
<1> HIDE DEF frame
<1>5. /\ after \in Seq(Frames)
      /\ \A i \in 1..Len(before) : i \in 1..Len(after) /\ after[i] = before[i]
      /\ \A i \in 1..Len(after) : i \in 1..Len(before) \/ (include /\ after[i] = frame)
      /\ include => /\ Len(before) + 1 \in 1..Len(after) /\ after[Len(before) + 1] = frame
                    /\ \A j \in 1..(Len(before) + 1) - 1 : j \in 1..Len(before)
  BY <1>1, <1>4, SMT
<1> HIDE DEF line, rest, head, before, after
<1>6. SessionsTyped'
  BY <1>2, <1>3, <1>5, SMT DEF IInv, SessionsTyped, Program
<1>7. \A v \in User \ {u} : Aside(v)
  BY <1>2 DEF IInv, SessionsTyped, Aside
<1>8. /\ pc'[u] = "replay" /\ todo'[u] = rest /\ read'[u] = NoRead /\ replay'[u] = after
      /\ lane'[u] = lane[u] /\ seen'[u] = seen[u] /\ told'[u] = told[u]
      /\ todo[u] = line /\ replay[u] = before /\ Good(u) /\ Joined(u) /\ Joined(u)'
  BY <1>2 DEF IInv, SessionsTyped, line, before, Joined
<1>9. Stage(u)'
  BY <1>8 DEF Stage
<1>10. /\ head \in 1..Len(log)
       /\ \A i \in 1..Len(rest) : rest[i] \in 1..Len(log) /\ head < rest[i]
       /\ \A i \in 1..Len(before) : before[i].seq < head
       /\ \A i \in 1..Len(before), j \in 1..Len(rest) : before[i].seq < rest[j]
  BY <1>3, <1>8 DEF Good, Order
<1>11. Order(u)'
  <2>1. \A i, j \in 1..Len(rest) : i < j => rest[i] < rest[j]
    <3>1. Len(rest) \in Nat /\ \A i, j \in 1..Len(rest) : i < j => i + 1 < j + 1
      BY <1>3, SMT
    <3>2. \A i, j \in 1..Len(line) : i < j => line[i] < line[j]
      BY <1>8 DEF Good, Order
    <3> QED BY <1>3, <3>1, <3>2
  <2>2. ASSUME NEW i \in 1..Len(after)
        PROVE  after[i].seq \in 1..Len(log) /\ \A j \in 1..Len(rest) : after[i].seq < rest[j]
    <3>1. CASE i \in 1..Len(before)
      BY <1>5, <1>8, <1>10, <3>1 DEF Good, Order
    <3>2. CASE after[i] = frame
      BY <1>4, <1>10, <3>2
    <3> QED BY <1>5, <3>1, <3>2
  <2> QED BY <1>0, <1>8, <1>10, <2>1, <2>2 DEF Good, Order
<1>12. ASSUME NEW t \in Token \ {None}, NEW m \in 1..Len(log), Latest(m, t), Sure(u, t)
       PROVE  Informed(u, t, m)'
  <2>1. Informed(u, t, m)
    BY <1>8, <1>12 DEF Good, Knows
  <2>2. head = Head(todo[u])
    BY DEF head, line
  <2>3. /\ t \in DOMAIN shown => t = log[head]
        /\ t = log[head] => head <= m
    BY <1>10, <1>12, <2>2 DEF Latest
  <2>4. head = m => include /\ t \in DOMAIN shown /\ shown[t] = token[t].pos
    BY <1>12, <2>2
  <2>5. head \in Nat /\ m \in Nat /\ (head >= m /\ head <= m => head = m)
    BY <1>3, SMT
  <2>6. ASSUME NEW i \in 1..Len(after), after[i].seq >= m PROVE Fresh(after[i], t)
    <3>1. CASE i \in 1..Len(before)
      BY <1>5, <1>8, <2>1, <2>6, <3>1 DEF Informed
    <3>2. CASE after[i] = frame
      BY <1>4, <2>3, <2>4, <2>5, <2>6, <3>2 DEF Fresh
    <3> QED BY <1>5, <3>1, <3>2
  <2>7. ASSUME Coming(u, t, m) PROVE Coming(u, t, m)'
    <3>1. CASE \E i \in 1..Len(line) : line[i] = m
      <4>1. PICK i \in 1..Len(line) : line[i] = m
        BY <3>1
      <4>2. CASE i = 1
        <5>1. Brings(after, Len(before) + 1, m, t)
          BY <1>3, <1>4, <1>5, <1>10, <2>4, <4>1, <4>2 DEF Brings
        <5> QED BY <1>3, <1>5, <1>8, <2>4, <4>1, <4>2, <5>1 DEF Coming, Brings
      <4>3. CASE i # 1
        BY <1>3, <1>8, <4>1, <4>3 DEF Coming
      <4> QED BY <4>2, <4>3
    <3>2. CASE \E i \in 1..Len(before) : Brings(before, i, m, t)
      <4>1. PICK i \in 1..Len(before) : Brings(before, i, m, t)
        BY <3>2
      <4>2. \A j \in 1..i - 1 : j \in 1..Len(before)
        BY <1>1, SMT
      <4>3. Brings(after, i, m, t)
        BY <1>5, <4>1, <4>2 DEF Brings
      <4> QED BY <1>5, <1>8, <4>3 DEF Coming, Brings
    <3>3. CASE /\ \E i \in 1..Len(lane[u]) : Brings(lane[u], i, m, t)
               /\ \A i \in 1..Len(before) : before[i].seq < m
               /\ \A i \in 1..Len(line) : line[i] < m
      <4>1. \A i \in 1..Len(after) : after[i].seq < m
        BY <1>3, <1>4, <1>5, <3>3
      <4>2. \A i \in 1..Len(rest) : rest[i] < m
        BY <1>3, <3>3
      <4> QED BY <1>8, <3>3, <4>1, <4>2 DEF Coming, Brings
    <3> QED BY <1>8, <2>7, <3>1, <3>2, <3>3 DEF Coming
  <2>8. pc[u] # "joined"
    OBVIOUS
  <2>9. \A f : Fresh(f, t)' <=> Fresh(f, t)
    BY <1>0 DEF Fresh
  <2> QED BY <1>0, <1>8, <2>1, <2>6, <2>7, <2>8, <2>9 DEF Informed, Fresh
<1>13. Good(u)'
  BY <1>0, <1>8, <1>9, <1>11, <1>12, IdleGood
<1> QED BY <1>0, <1>6, <1>7, <1>13, SessionStep
-----------------------------------------------------------------------------
(* Owners are shown what they own.                                         *)
LEMMA OwnersAreShown == CanRead(LevelOwner) /\ ShowsData(LevelOwner)
BY SMT DEF CanRead, ShowsData, LevelOwner, LevelNone, LevelLimited

(* Who cannot miss a token owns it, or is staff, which comes to the same.  *)
LEMMA SureOwn ==
  ASSUME NEW u \in User, NEW t \in Token, token \in [Token -> Documents], Sure(u, t)
  PROVE  Level(u, token[t]) = LevelOwner
BY LevelType DEF Sure

(* The owner of a token that stands on no door sees it from where it is.   *)
LEMMA OwnerSeesIt ==
  ASSUME NEW u \in User, NEW t \in Token, NEW documents \in [Token -> Documents],
         Level(u, documents[t]) = LevelOwner, documents[t].pos # Unreadable,
         ~OnDoor(documents[t].pos), NEW blockers \in SUBSET DoorSegments
  PROVE  /\ documents[t].pos \in ViewpointsOf(u, RoleOf[u], documents)
         /\ VisibleFromAny(ViewpointsOf(u, RoleOf[u], documents), documents[t].pos, blockers)
<1>1. Grant(u, RoleOf[u], documents[t]) >= LevelOwner
  BY SMT DEF Level, LevelOwner
<1>2. documents[t].pos \in ViewpointsOf(u, RoleOf[u], documents)
  BY <1>1 DEF ViewpointsOf
<1>3. Visible(documents[t].pos, documents[t].pos, blockers)
  BY DEF Visible, OnDoor, DoorSegments
<1> QED BY <1>2, <1>3 DEF VisibleFromAny

(* MayKnow in terms of the documents and the blockers.                     *)
LEMMA MayKnowIs ==
  ASSUME NEW u \in User, NEW t \in Token
  PROVE  MayKnow(u, t) <=> WouldKnow(u, token[t], Blockers, token)
BY DEF MayKnow, WouldKnow, Filter, Viewpoints

(* What a session or listing has read when its first query is answered.    *)
LEMMA BeginReadStep ==
  ASSUME IInv, NEW u \in User, NEW ts \in SUBSET Token, NEW tokens \in [ts -> Documents],
         \A t \in ts : tokens[t] = token[t],
         NEW next \in {"item", "list"}, BeginRead(u, tokens, next),
         UNCHANGED <<docs, lane, seen>>,
         next = "list" => pc[u] = "off",
         next = "item" => /\ pc[u] = "replay" /\ todo[u] # <<>>
                          /\ log[Head(todo[u])] \in Token \ {None}
                          /\ ts = {log[Head(todo[u])]}
  PROVE  IInv'
<1> DEFINE known == {t \in DOMAIN tokens : MayKnow(u, t)}
           r == [tokens |-> tokens, blockers |-> {}, commits |-> 0, known |-> known]
<1>0. UNCHANGED <<token, open, log, grants>> /\ UNCHANGED docs
  BY DEF docs
<1>1. /\ pc' = [pc EXCEPT ![u] = next] /\ read' = [read EXCEPT ![u] = r]
      /\ UNCHANGED <<todo, replay, lane, seen, told>>
  BY DEF BeginRead
<1>2. /\ r \in Reads /\ r # NoRead
      /\ r.tokens = tokens /\ r.blockers = {} /\ r.commits = 0 /\ r.known = known
  <2>1. 0 \in 0..2
    BY SMT
  <2>2. r \in Reads
    BY <2>1 DEF Reads
  <2> QED BY <2>2, ReadIsOne
<1>3. known = {t \in DOMAIN tokens : WouldKnow(u, token[t], Blockers, token)}
  BY MayKnowIs
<1> HIDE DEF r, known
<1>4. SessionsTyped'
  BY <1>1, <1>2 DEF IInv, SessionsTyped, Program
<1>5. \A v \in User \ {u} : Aside(v)
  BY <1>1 DEF IInv, SessionsTyped, Aside
<1>6. pc'[u] = next /\ read'[u] = r /\ Good(u)
  BY <1>1 DEF IInv, SessionsTyped
<1>7. Stage(u)'
  BY <1>1, <1>2, <1>6 DEF Good, Stage
<1>8. Order(u)'
  BY <1>0, <1>1, <1>6 DEF Good, Order, Joined
<1>9. Copied(u)'
  BY <1>0, <1>1, <1>2, <1>6 DEF Copied
<1>10. Knows(u)'
  <2> SUFFICES ASSUME NEW t \in Token \ {None}, NEW m \in 1..Len(log), Latest(m, t), Sure(u, t)
               PROVE  Informed(u, t, m)'
    BY <1>0 DEF Knows, Latest, Sure
  <2>1. Informed(u, t, m)
    BY <1>6 DEF Good, Knows
  <2>2. Joined(u)' => Joined(u) /\ pc[u] # "joined"
    BY <1>6 DEF Joined
  <2> QED BY <1>0, <1>1, <2>1, <2>2 DEF Informed, Fresh, Coming, Brings
<1>11. Since(u)'
  <2>1. Blockers' = Blockers /\ Blockers \in SUBSET DoorSegments
    BY <1>0, BlockersType DEF Blockers, Walls, IInv, DocsTyped
  <2>2. Began(u, token, Blockers)'
    <3>1. \A t \in DOMAIN tokens : tokens[t] = token[t]
      OBVIOUS
    <3>2. 0 # 1
      BY SMT
    <3> QED BY <1>0, <1>2, <1>3, <1>6, <2>1, <3>1, <3>2 DEF Began
  <2> QED BY <1>0, <2>1, <2>2 DEF Since, IInv, DocsTyped
<1>12. Good(u)'
  BY <1>7, <1>8, <1>9, <1>10, <1>11 DEF Good
<1> QED BY <1>0, <1>4, <1>5, <1>12, SessionStep

(* A listing asks for the documents.                                       *)
LEMMA ListDocumentsStep ==
  ASSUME IInv, NEW u \in User, ListDocuments(u)
  PROVE  IInv'
<1>1. token \in [Token -> Documents] /\ Token \in SUBSET Token
  BY DEF IInv, DocsTyped
<1>2. pc[u] = "off" /\ BeginRead(u, token, "list") /\ UNCHANGED <<docs, lane, seen>>
  BY DEF ListDocuments
<1> QED BY <1>1, <1>2, BeginReadStep

(* A replay asks for the document of an event, and may be done with it.    *)
LEMMA GetDocumentStep ==
  ASSUME IInv, NEW u \in User, GetDocument(u)
  PROVE  IInv'
<1> DEFINE head == Head(todo[u])
           t == log[head]
           copy == [x \in {t} |-> token[t]]
<1>1. /\ pc[u] = "replay" /\ todo[u] # <<>> /\ UNCHANGED <<docs, lane, seen>>
      /\ IF t = None THEN EndItem(u, <<>>, TRUE)
         ELSE IF ~CanRead(Level(u, token[t])) THEN EndItem(u, <<>>, FALSE)
         ELSE IF IsStaff(RoleOf[u]) \/ token[t].pos = Unreadable
              THEN EndItem(u, Shown(u, copy, {t}), TRUE)
         ELSE BeginRead(u, copy, "item")
  BY DEF GetDocument
<1>2. token \in [Token -> Documents] /\ log \in Seq(Token \cup {None})
  BY DEF IInv, DocsTyped
<1>3. t \in Token \cup {None}
  <2>1. todo[u] \in Seq(Nat) /\ \A i \in 1..Len(todo[u]) : todo[u][i] \in 1..Len(log)
    BY DEF IInv, SessionsTyped, Good, Order
  <2>2. head = todo[u][1] /\ 1 \in 1..Len(todo[u])
    BY <1>1, <2>1, SMT
  <2>3. head \in 1..Len(log)
    BY <2>1, <2>2
  <2> QED BY <1>2, <2>3, SMT
<1>4. \A x : Latest(head, x) => x = t
  BY DEF Latest
<1>5. CASE t = None
  BY <1>1, <1>4, <1>5, NothingShown, EndItemStep
<1>6. CASE t # None
  <2>1. t \in Token /\ {t} \in SUBSET Token /\ copy \in [{t} -> Documents] /\ copy[t] = token[t]
    BY <1>2, <1>3, <1>6
  <2>2. Sure(u, t) => CanRead(Level(u, token[t])) /\ ShowsData(Level(u, token[t]))
    BY <1>2, <2>1, SureOwn, OwnersAreShown
  <2>3. CASE ~CanRead(Level(u, token[t]))
    BY <1>1, <1>4, <1>6, <2>2, <2>3, NothingShown, EndItemStep
  <2>4. CASE BeginRead(u, copy, "item")
    BY <1>1, <1>6, <2>1, <2>4, BeginReadStep
  <2>5. CASE EndItem(u, Shown(u, copy, {t}), TRUE)
    <3> DEFINE shown == Shown(u, copy, {t})
    <3>1. /\ shown \in Positions /\ DOMAIN shown \subseteq {t}
          /\ Sure(u, t) => t \in DOMAIN shown /\ shown[t] = token[t].pos
      <4> HIDE DEF copy, t
      <4>1. /\ Shown(u, copy, {t}) \in Positions
            /\ DOMAIN Shown(u, copy, {t}) = {x \in {t} : ShowsData(Level(u, copy[x]))}
            /\ \A x \in {t} : ShowsData(Level(u, copy[x])) => Shown(u, copy, {t})[x] = copy[x].pos
        BY <2>1, ShownIs
      <4> QED BY <2>1, <2>2, <4>1
    <3> HIDE DEF shown, copy
    <3>2. EndItem(u, shown, TRUE)
      BY <2>5 DEF shown
    <3> QED BY <1>1, <1>4, <3>1, <3>2, EndItemStep
  <2> QED BY <1>1, <1>6, <2>3, <2>4, <2>5
<1> QED BY <1>5, <1>6

(* A listing is complete.                                                  *)
LEMMA EndListingStep ==
  ASSUME IInv, NEW u \in User, NEW shown \in Positions, pc[u] = "list",
         EndListing(u, shown), UNCHANGED <<docs, lane, seen>>
  PROVE  IInv'
<1> DEFINE line == <<Frame(0, shown, TRUE)>>
<1>0. UNCHANGED <<token, open, log, grants>> /\ UNCHANGED docs
  BY DEF docs
<1>1. /\ pc' = [pc EXCEPT ![u] = "listed"] /\ replay' = [replay EXCEPT ![u] = line]
      /\ read' = [read EXCEPT ![u] = NoRead] /\ UNCHANGED <<todo, lane, seen, told>>
  BY DEF EndListing
<1>2. line \in Seq(Frames)
  <2>1. 0 \in Nat
    BY SMT
  <2>2. Frame(0, shown, TRUE) \in Frames
    BY <2>1 DEF Frame, Frames
  <2> QED BY <2>2, OneElement
<1> HIDE DEF line
<1>3. SessionsTyped'
  BY <1>1, <1>2 DEF IInv, SessionsTyped, Program
<1>4. \A v \in User \ {u} : Aside(v)
  BY <1>1 DEF IInv, SessionsTyped, Aside
<1>5. pc'[u] = "listed" /\ read'[u] = NoRead /\ Good(u) /\ ~Joined(u)'
  BY <1>1 DEF IInv, SessionsTyped, Joined
<1>6. Stage(u)'
  BY <1>1, <1>5 DEF Good, Stage
<1>7. Order(u)'
  BY <1>0, <1>1, <1>5 DEF Good, Order
<1>8. ASSUME NEW t \in Token \ {None}, NEW m \in 1..Len(log), Latest(m, t), Sure(u, t)
      PROVE  Informed(u, t, m)'
  BY <1>0, <1>1, <1>5, <1>8 DEF Good, Knows, Informed
<1>9. Good(u)'
  BY <1>0, <1>5, <1>6, <1>7, <1>8, IdleGood
<1> QED BY <1>0, <1>3, <1>4, <1>9, SessionStep

(* A replay shows a copy that it may show, in the item of the event.       *)
LEMMA CopyStep ==
  ASSUME IInv, NEW u \in User, NEW visible, NEW include \in BOOLEAN, pc[u] = "item",
         visible \subseteq DOMAIN read[u].tokens,
         EndItem(u, Shown(u, read[u].tokens, visible), include),
         UNCHANGED <<docs, lane, seen>>,
         \A t \in DOMAIN read[u].tokens :
            Sure(u, t) /\ read[u].tokens[t].pos = token[t].pos => include /\ t \in visible
  PROVE  IInv'
<1> DEFINE tokens == read[u].tokens
           t == log[Head(todo[u])]
           shown == Shown(u, tokens, visible)
<1>1. Good(u) /\ read[u] \in Reads
  BY DEF IInv, Good, Stage, SessionsTyped
<1>2. /\ todo[u] # <<>> /\ t \in Token /\ t # None /\ DOMAIN tokens = {t}
      /\ grants = 0 => tokens[t].acl = token[t].acl
      /\ Latest(Head(todo[u]), t) => tokens[t].pos = token[t].pos
  BY <1>1 DEF Good, Stage, Copied
<1>3. tokens \in [{t} -> Documents] /\ {t} \in SUBSET Token
  BY <1>1, <1>2 DEF Reads
<1>4. token \in [Token -> Documents]
  BY DEF IInv, DocsTyped
<1>5. Sure(u, t) => ShowsData(Level(u, tokens[t]))
  <2>1. tokens[t] \in Documents
    BY <1>3
  <2>2. IsStaff(RoleOf[u]) => Level(u, tokens[t]) = LevelOwner
    BY <2>1, LevelType
  <2>3. tokens[t].acl = token[t].acl => Level(u, tokens[t]) = Level(u, token[t])
    BY DEF Level, Grant
  <2> QED BY <1>2, <2>2, <2>3, OwnersAreShown DEF Sure
<1> HIDE DEF tokens, t
<1>6. /\ shown \in Positions
      /\ DOMAIN shown = {x \in visible : ShowsData(Level(u, tokens[x]))}
      /\ \A x \in visible : ShowsData(Level(u, tokens[x])) => shown[x] = tokens[x].pos
  <2>1. visible \in SUBSET {t}
    BY <1>2 DEF tokens
  <2> QED BY <1>3, <2>1, ShownIs
<1>7. visible \subseteq {t}
  BY <1>2 DEF tokens
<1>8. EndItem(u, shown, include)
  BY DEF tokens
<1> HIDE DEF shown
<1>9. ASSUME NEW x \in Token \ {None}, Latest(Head(todo[u]), x), Sure(u, x)
      PROVE  include /\ x \in DOMAIN shown /\ shown[x] = token[x].pos
  <2>1. x = t
    BY <1>9 DEF Latest, t
  <2>2. include /\ t \in visible
    BY <1>2, <1>9, <2>1 DEF tokens
  <2> QED BY <1>2, <1>5, <1>6, <1>9, <2>1, <2>2
<1>10. DOMAIN shown \subseteq {log[Head(todo[u])]}
  BY <1>6, <1>7 DEF t
<1> QED BY <1>2, <1>6, <1>8, <1>9, <1>10, EndItemStep

(* A read asks for the walls.                                              *)
LEMMA ReadWallsStep ==
  ASSUME IInv, NEW u \in User, ReadWalls(u)
  PROVE  IInv'
<1> DEFINE tokens == read[u].tokens
           all == Shown(u, tokens, DOMAIN tokens)
<1>0. UNCHANGED <<token, open, log, grants>> /\ UNCHANGED docs /\ UNCHANGED <<lane, seen>>
  BY DEF ReadWalls, docs
<1>1. /\ pc[u] \in {"item", "list"} /\ read[u] # NoRead /\ read[u].blockers = {}
      /\ Blockers = {} =>
            IF pc[u] = "list" THEN EndListing(u, all) ELSE EndItem(u, all, TRUE)
      /\ Blockers # {} => /\ read' = [read EXCEPT ![u].blockers = Blockers]
                          /\ UNCHANGED <<pc, todo, replay, told>>
  BY DEF ReadWalls
<1>2. read[u] \in Reads /\ Good(u)
  BY <1>1 DEF IInv, SessionsTyped
<1>3. Blockers' = Blockers /\ Blockers \in SUBSET DoorSegments
  BY <1>0, BlockersType DEF Blockers, Walls, IInv, DocsTyped
<1>4. CASE Blockers = {} /\ pc[u] = "item"
  <2>1. EndItem(u, all, TRUE)
    BY <1>1, <1>4
  <2> QED BY <1>0, <1>4, <2>1, CopyStep
<1>5. CASE Blockers = {} /\ pc[u] = "list"
  <2>1. EndListing(u, all)
    BY <1>1, <1>5
  <2>2. PICK ts \in SUBSET Token : tokens \in [ts -> Documents]
    BY <1>2 DEF Reads
  <2>3. all \in Positions
    BY <2>2, ShownIs
  <2> QED BY <1>0, <1>5, <2>1, <2>3, EndListingStep
<1>6. CASE Blockers # {}
  <2> DEFINE r == [read[u] EXCEPT !.blockers = Blockers]
  <2>1. read' = [read EXCEPT ![u] = r] /\ UNCHANGED <<pc, todo, replay, told>>
    BY <1>1, <1>6
  <2>2. /\ r \in Reads /\ r.tokens = tokens /\ r.blockers = Blockers
        /\ r.commits = read[u].commits /\ r.known = read[u].known
    BY <1>2, <1>3 DEF Reads, DoorSegments
  <2>3. r # NoRead
    BY <2>2, ReadIsOne
  <2> HIDE DEF r
  <2>4. SessionsTyped'
    BY <1>0, <2>1, <2>2 DEF IInv, SessionsTyped
  <2>5. \A v \in User \ {u} : Aside(v)
    BY <1>0, <2>1 DEF IInv, SessionsTyped, Aside
  <2>6. read'[u] = r
    BY <2>1 DEF IInv, SessionsTyped
  <2>7. Stage(u)'
    BY <1>0, <1>1, <1>2, <2>1, <2>3, <2>6 DEF Good, Stage
  <2>8. Order(u)'
    BY <1>0, <1>2, <2>1 DEF Good, Order, Joined
  <2>9. Copied(u)'
    BY <1>0, <1>2, <2>1, <2>2, <2>6 DEF Good, Copied, Latest
  <2>10. Knows(u)'
    <3> SUFFICES ASSUME NEW t \in Token \ {None}, NEW m \in 1..Len(log), Latest(m, t), Sure(u, t)
                 PROVE  Informed(u, t, m)'
      BY <1>0 DEF Knows, Latest, Sure
    <3>1. Informed(u, t, m)
      BY <1>2 DEF Good, Knows
    <3> QED BY <1>0, <2>1, <3>1 DEF Informed, Fresh, Coming, Brings, Joined
  <2>11. Since(u)'
    <3> SUFFICES ASSUME read[u].commits < 2 PROVE Since(u)'
      BY <2>2, <2>6 DEF Since
    <3>1. PICK documents \in [Token -> Documents], blockers \in SUBSET DoorSegments :
              Began(u, documents, blockers)
      BY <1>1, <1>2 DEF Good, Since
    <3>2. Began(u, documents, blockers)'
      BY <1>0, <1>3, <2>2, <2>6, <3>1 DEF Began
    <3> QED BY <3>2 DEF Since
  <2>12. Good(u)'
    BY <2>7, <2>8, <2>9, <2>10, <2>11 DEF Good
  <2> QED BY <1>0, <2>4, <2>5, <2>12, SessionStep
<1> QED BY <1>1, <1>4, <1>5, <1>6

(* A read asks for the viewpoints, and is complete.                        *)
LEMMA ReadViewpointsStep ==
  ASSUME IInv, NEW u \in User, ReadViewpoints(u)
  PROVE  IInv'
<1> DEFINE tokens == read[u].tokens
           listed == VisibleTokens(RoleOf[u], tokens, read[u].blockers, Viewpoints(u))
           replayed == {t \in DOMAIN tokens :
                          CanSee(RoleOf[u], tokens[t].pos, read[u].blockers, Viewpoints(u))}
<1>1. /\ read[u] # NoRead /\ UNCHANGED <<docs, lane, seen>>
      /\ IF pc[u] = "list" THEN EndListing(u, Shown(u, tokens, listed))
         ELSE EndItem(u, Shown(u, tokens, replayed), replayed # {})
  BY DEF ReadViewpoints
<1>2. read[u] \in Reads /\ pc[u] \in {"item", "list"} /\ Good(u)
  BY <1>1 DEF IInv, SessionsTyped, Good, Stage
<1>3. PICK ts \in SUBSET Token : tokens \in [ts -> Documents]
  BY <1>2 DEF Reads
<1>4. CASE pc[u] = "list"
  <2>1. listed \in SUBSET ts
    BY <1>3 DEF VisibleTokens
  <2>2. Shown(u, tokens, listed) \in Positions
    BY <1>3, <2>1, ShownIs
  <2> QED BY <1>1, <1>4, <2>2, EndListingStep
<1>5. CASE pc[u] = "item"
  <2>1. ASSUME NEW t \in DOMAIN tokens, Sure(u, t), tokens[t].pos = token[t].pos
        PROVE  t \in replayed
    <3>1. CASE IsStaff(RoleOf[u])
      BY <3>1 DEF CanSee
    <3>2. CASE ~IsStaff(RoleOf[u])
      <4>1. /\ t \in Token /\ token \in [Token -> Documents]
            /\ read[u].blockers \in SUBSET DoorSegments
        BY <1>2, <1>3 DEF IInv, DocsTyped, Reads, DoorSegments
      <4>2. VisibleFromAny(Viewpoints(u), token[t].pos, read[u].blockers)
        BY <2>1, <3>2, <4>1, OwnerSeesIt DEF Sure, Viewpoints
      <4> QED BY <2>1, <4>2 DEF CanSee
    <3> QED BY <3>1, <3>2
  <2>2. EndItem(u, Shown(u, tokens, replayed), replayed # {}) /\ replayed \subseteq DOMAIN tokens
    BY <1>1, <1>5
  <2>3. (replayed # {}) \in BOOLEAN
    OBVIOUS
  <2> HIDE DEF replayed
  <2>4. \A t \in DOMAIN tokens : Sure(u, t) /\ tokens[t].pos = token[t].pos =>
           replayed # {} /\ t \in replayed
    BY <2>1
  <2> QED BY <1>1, <1>5, <2>2, <2>3, <2>4, CopyStep
<1> QED BY <1>2, <1>4, <1>5

(* A listing is answered.                                                  *)
LEMMA AnswerStep ==
  ASSUME IInv, NEW u \in User, Answer(u)
  PROVE  IInv'
<1>0. UNCHANGED <<token, open, log, grants>> /\ UNCHANGED docs
  BY DEF Answer, docs
<1>1. /\ pc[u] = "listed" /\ pc' = [pc EXCEPT ![u] = "off"]
      /\ replay' = [replay EXCEPT ![u] = <<>>] /\ UNCHANGED <<todo, read, lane, seen, told>>
  BY DEF Answer
<1>2. <<>> \in Seq(Frames)
  BY SMT
<1>3. SessionsTyped'
  BY <1>1, <1>2 DEF IInv, SessionsTyped, Program
<1>4. \A v \in User \ {u} : Aside(v)
  BY <1>1 DEF IInv, SessionsTyped, Aside
<1>5. pc'[u] = "off" /\ replay'[u] = <<>> /\ read'[u] = NoRead /\ Good(u) /\ ~Joined(u)'
  BY <1>1 DEF IInv, SessionsTyped, Joined, Good, Stage
<1>6. Stage(u)'
  BY <1>1, <1>5 DEF Good, Stage
<1>7. Order(u)'
  BY <1>0, <1>1, <1>5 DEF Good, Order
<1>8. ASSUME NEW t \in Token \ {None}, NEW m \in 1..Len(log), Latest(m, t), Sure(u, t)
      PROVE  Informed(u, t, m)'
  BY <1>0, <1>1, <1>5, <1>8 DEF Good, Knows, Informed
<1>9. Good(u)'
  BY <1>0, <1>5, <1>6, <1>7, <1>8, IdleGood
<1> QED BY <1>0, <1>3, <1>4, <1>9, SessionStep

(* A connection breaks.                                                    *)
LEMMA DisconnectStep ==
  ASSUME IInv, NEW u \in User, Disconnect(u)
  PROVE  IInv'
<1>0. UNCHANGED <<token, open, log, grants>> /\ UNCHANGED docs
  BY DEF Disconnect, docs
<1>1. /\ pc' = [pc EXCEPT ![u] = "off"] /\ todo' = [todo EXCEPT ![u] = <<>>]
      /\ read' = [read EXCEPT ![u] = NoRead] /\ replay' = [replay EXCEPT ![u] = <<>>]
      /\ lane' = [lane EXCEPT ![u] = <<>>] /\ UNCHANGED <<seen, told>>
  BY DEF Disconnect
<1>2. <<>> \in Seq(Frames) /\ <<>> \in Seq(Nat) /\ Len(<<>>) = 0 /\ 1..0 = {}
  BY SMT
<1>3. SessionsTyped'
  BY <1>1, <1>2 DEF IInv, SessionsTyped, Program
<1>4. \A v \in User \ {u} : Aside(v)
  BY <1>1 DEF IInv, SessionsTyped, Aside
<1>5. /\ pc'[u] = "off" /\ todo'[u] = <<>> /\ read'[u] = NoRead /\ replay'[u] = <<>>
      /\ lane'[u] = <<>> /\ Good(u) /\ ~Joined(u)'
  BY <1>1 DEF IInv, SessionsTyped, Joined
<1>6. Stage(u)'
  BY <1>5 DEF Stage
<1>7. Order(u)'
  BY <1>0, <1>1, <1>2, <1>5 DEF Good, Order
<1>8. ASSUME NEW t \in Token \ {None}, NEW m \in 1..Len(log), Latest(m, t), Sure(u, t)
      PROVE  Informed(u, t, m)'
  BY <1>0, <1>1, <1>5, <1>8 DEF Good, Knows, Informed
<1>9. Good(u)'
  BY <1>0, <1>5, <1>6, <1>7, <1>8, IdleGood
<1> QED BY <1>0, <1>3, <1>4, <1>9, SessionStep

(* The replay goes in front of what arrived while it was read.             *)
LEMMA PrependStep ==
  ASSUME IInv, NEW u \in User, Prepend(u)
  PROVE  IInv'
<1> DEFINE before == replay[u]
           old == lane[u]
           line == before \o old
<1>0. UNCHANGED <<token, open, log, grants>> /\ UNCHANGED docs
  BY DEF Prepend, docs
<1>1. /\ pc[u] = "replay" /\ todo[u] = <<>> /\ pc' = [pc EXCEPT ![u] = "live"]
      /\ lane' = [lane EXCEPT ![u] = line] /\ replay' = [replay EXCEPT ![u] = <<>>]
      /\ UNCHANGED <<todo, read, seen, told>>
  BY DEF Prepend, IInv, SessionsTyped
<1>2. before \in Seq(Frames) /\ old \in Seq(Frames)
  BY DEF IInv, SessionsTyped
<1>3. line \in Seq(Frames) /\ Stacked(before, old, line)
  <2> HIDE DEF before, old
  <2> QED BY <1>2, Joining
<1>4. <<>> \in Seq(Frames) /\ Len(<<>>) = 0 /\ 1..0 = {}
  BY SMT
<1> HIDE DEF line, before, old
<1>5. SessionsTyped'
  BY <1>1, <1>3, <1>4 DEF IInv, SessionsTyped, Program
<1>6. \A v \in User \ {u} : Aside(v)
  BY <1>1 DEF IInv, SessionsTyped, Aside
<1>7. /\ pc'[u] = "live" /\ replay'[u] = <<>> /\ lane'[u] = line /\ todo'[u] = <<>>
      /\ read'[u] = NoRead /\ replay[u] = before /\ lane[u] = old
      /\ Good(u) /\ Joined(u) /\ Joined(u)'
  BY <1>1 DEF IInv, SessionsTyped, Joined, Good, Stage, before, old
<1>8. Stage(u)'
  BY <1>7 DEF Stage
<1>9. Order(u)'
  <2>1. ASSUME NEW i \in 1..Len(line) PROVE line[i].seq \in 1..Len(log)
    <3>1. CASE i \in 1..Len(before)
      BY <1>3, <1>7, <3>1 DEF Good, Order, Stacked
    <3>2. CASE \E k \in 1..Len(old) : i = Len(before) + k
      <4>1. PICK k \in 1..Len(old) : i = Len(before) + k
        BY <3>2
      <4>2. line[Len(before) + k] = old[k]
        BY <1>3 DEF Stacked
      <4>3. old[k].seq \in 1..Len(log)
        BY <1>7 DEF Good, Order
      <4> QED BY <4>1, <4>2, <4>3
    <3> QED BY <1>3, <3>1, <3>2 DEF Stacked
  <2> QED BY <1>0, <1>1, <1>4, <1>7, <2>1 DEF Good, Order
<1>10. ASSUME NEW t \in Token \ {None}, NEW m \in 1..Len(log), Latest(m, t), Sure(u, t)
       PROVE  Informed(u, t, m)'
  <2>1. Informed(u, t, m)
    BY <1>7, <1>10 DEF Good, Knows
  <2>2. ASSUME NEW i \in 1..Len(line), line[i].seq >= m PROVE Fresh(line[i], t)
    <3>1. CASE i \in 1..Len(before)
      BY <1>3, <1>7, <2>1, <2>2, <3>1 DEF Informed, Stacked
    <3>2. CASE \E k \in 1..Len(old) : i = Len(before) + k
      <4>1. PICK k \in 1..Len(old) : i = Len(before) + k
        BY <3>2
      <4>2. line[i] = old[k]
        BY <1>3, <4>1 DEF Stacked
      <4> QED BY <1>7, <2>1, <2>2, <4>2 DEF Informed
    <3> QED BY <1>3, <3>1, <3>2 DEF Stacked
  <2>3. ASSUME Coming(u, t, m) PROVE \E i \in 1..Len(line) : Brings(line, i, m, t)
    <3>1. CASE \E i \in 1..Len(before) : Brings(before, i, m, t)
      <4>1. PICK i \in 1..Len(before) : Brings(before, i, m, t)
        BY <3>1
      <4>2. Brings(line, i, m, t)
        BY <1>3, <4>1 DEF Brings, Stacked
      <4> QED BY <1>3, <4>2 DEF Stacked
    <3>2. CASE /\ \E i \in 1..Len(old) : Brings(old, i, m, t)
               /\ \A i \in 1..Len(before) : before[i].seq < m
      <4>1. PICK i \in 1..Len(old) : Brings(old, i, m, t)
        BY <3>2
      <4>2. ASSUME NEW j \in 1..(Len(before) + i) - 1 PROVE line[j].seq < m
        <5>1. CASE j \in 1..Len(before)
          BY <1>3, <3>2, <5>1 DEF Stacked
        <5>2. CASE \E k \in 1..i - 1 : j = Len(before) + k /\ k \in 1..Len(old)
          BY <1>3, <4>1, <5>2 DEF Brings, Stacked
        <5> QED BY <1>3, <5>1, <5>2 DEF Stacked
      <4>3. Brings(line, Len(before) + i, m, t)
        BY <1>3, <4>1, <4>2 DEF Brings, Stacked
      <4> QED BY <1>3, <4>3 DEF Stacked
    <3> QED BY <1>1, <1>4, <1>7, <2>3, <3>1, <3>2 DEF Coming
  <2>4. Coming(u, t, m) => Coming(u, t, m)'
    BY <1>4, <1>7, <2>3 DEF Coming, Brings
  <2>5. \A f : Fresh(f, t)' <=> Fresh(f, t)
    BY <1>0 DEF Fresh
  <2> QED BY <1>0, <1>1, <1>4, <1>7, <2>1, <2>2, <2>4, <2>5 DEF Informed, Fresh
<1>11. Good(u)'
  BY <1>0, <1>7, <1>8, <1>9, <1>10, IdleGood
<1> QED BY <1>0, <1>5, <1>6, <1>11, SessionStep

(* A frame is written, or dropped because it is old.                       *)
LEMMA SendStep ==
  ASSUME IInv, NEW u \in User, Send(u)
  PROVE  IInv'
<1> DEFINE line == lane[u]
           rest == Tail(line)
           frame == Head(line)
           heard == [t \in Token |-> IF t \in DOMAIN frame.shown THEN frame.shown[t]
                                     ELSE IF frame.all THEN Untold ELSE told[u][t]]
           drop == frame.seq <= seen[u]
<1>0. UNCHANGED <<token, open, log, grants>> /\ UNCHANGED docs
  BY DEF Send, docs
<1>1. /\ pc[u] = "live" /\ line # <<>> /\ lane' = [lane EXCEPT ![u] = rest]
      /\ drop => UNCHANGED <<seen, told>>
      /\ ~drop => seen' = [seen EXCEPT ![u] = frame.seq] /\ told' = [told EXCEPT ![u] = heard]
      /\ UNCHANGED <<pc, todo, read, replay>>
  BY SMT DEF Send, IInv, SessionsTyped
<1>2. line \in Seq(Frames) /\ seen[u] \in Nat /\ told[u] \in [Token -> Pos \cup {Untold}]
  BY DEF IInv, SessionsTyped
<1>3. /\ rest \in Seq(Frames) /\ frame \in Frames /\ frame = line[1] /\ 1 \in 1..Len(line)
      /\ \A i \in 1..Len(rest) : i + 1 \in 1..Len(line) /\ rest[i] = line[i + 1]
      /\ \A i \in 1..Len(line) : i = 1 \/ /\ i - 1 \in 1..Len(rest) /\ rest[i - 1] = line[i]
                                          /\ 1 \in 1..i - 1
                                          /\ \A j \in 1..(i - 1) - 1 : j \in 1..Len(rest) /\ j + 1 \in 1..i - 1
  <2> HIDE DEF line
  <2>1. /\ frame \in Frames /\ rest \in Seq(Frames) /\ Len(rest) = Len(line) - 1
        /\ \A i \in 1..Len(rest) : rest[i] = line[i + 1]
    BY <1>1, <1>2, HeadTailProperties
  <2>2. frame = line[1] /\ Len(line) \in Nat \ {0}
    BY <1>1, <1>2, SMT
  <2> HIDE DEF rest, frame
  <2>3. /\ \A i \in 1..Len(rest) : i + 1 \in 1..Len(line)
        /\ 1 \in 1..Len(line)
        /\ \A i \in 1..Len(line) : i = 1 \/
              /\ i - 1 \in 1..Len(rest) /\ (i - 1) + 1 = i /\ 1 \in 1..i - 1
              /\ \A j \in 1..(i - 1) - 1 : j \in 1..Len(rest) /\ j + 1 \in 1..i - 1
    BY <2>1, <2>2, SMT
  <2> QED BY <2>1, <2>2, <2>3
<1>4. /\ frame.seq \in Nat /\ frame.shown \in Positions
      /\ \A t \in Token : t \in DOMAIN frame.shown => frame.shown[t] \in Pos
  <2> HIDE DEF frame
  <2>1. frame.seq \in Nat /\ frame.shown \in Positions
    BY <1>3 DEF Frames
  <2>2. PICK ts \in SUBSET Token : frame.shown \in [ts -> Pos]
    BY <2>1 DEF Positions
  <2> QED BY <2>1, <2>2
<1>5. heard \in [Token -> Pos \cup {Untold}]
  BY <1>2, <1>4
<1>6. \A t \in Token : heard[t] = IF t \in DOMAIN frame.shown THEN frame.shown[t]
                                  ELSE IF frame.all THEN Untold ELSE told[u][t]
  OBVIOUS
<1> HIDE DEF line, rest, frame, heard
<1>7. SessionsTyped'
  <2>1. seen' \in [User -> Nat] /\ told' \in [User -> [Token -> Pos \cup {Untold}]]
    <3>1. CASE drop
      BY <1>1, <3>1 DEF IInv, SessionsTyped
    <3>2. CASE ~drop
      BY <1>1, <1>4, <1>5, <3>2 DEF IInv, SessionsTyped
    <3> QED BY <3>1, <3>2
  <2> QED BY <1>1, <1>3, <2>1 DEF IInv, SessionsTyped
<1>8. \A v \in User \ {u} : Aside(v)
  <2> SUFFICES ASSUME NEW v \in User \ {u} PROVE Aside(v)
    OBVIOUS
  <2>1. seen'[v] = seen[v] /\ told'[v] = told[v]
    <3>1. CASE drop
      BY <1>1, <3>1
    <3>2. CASE ~drop
      BY <1>1, <3>2 DEF IInv, SessionsTyped
    <3> QED BY <3>1, <3>2
  <2> QED BY <1>1, <2>1 DEF IInv, SessionsTyped, Aside
<1>9. /\ lane'[u] = rest /\ Good(u) /\ todo[u] = <<>> /\ replay[u] = <<>> /\ read[u] = NoRead
      /\ lane[u] = line /\ Joined(u) /\ Joined(u)'
      /\ seen'[u] = IF drop THEN seen[u] ELSE frame.seq
      /\ told'[u] = IF drop THEN told[u] ELSE heard
  BY <1>1 DEF IInv, SessionsTyped, Good, Stage, Joined, line
<1>10. Stage(u)'
  BY <1>1, <1>9 DEF Good, Stage
<1>11. Order(u)'
  <2>1. seen[u] <= Len(log) /\ frame.seq \in 1..Len(log) /\ Len(log) \in Nat
    BY <1>3, <1>9, LenProperties DEF Good, Order, IInv, DocsTyped
  <2>2. seen'[u] <= Len(log)
    BY <1>9, <2>1, SMT
  <2>3. \A i \in 1..Len(rest) : rest[i].seq \in 1..Len(log)
    BY <1>3, <1>9 DEF Good, Order
  <2> QED BY <1>0, <1>1, <1>9, <2>2, <2>3 DEF Good, Order
<1>12. ASSUME NEW t \in Token \ {None}, NEW m \in 1..Len(log), Latest(m, t), Sure(u, t)
       PROVE  Informed(u, t, m)'
  <2>1. Informed(u, t, m)
    BY <1>9, <1>12 DEF Good, Knows
  <2>2. m \in Nat /\ seen[u] \in Nat /\ frame.seq \in Nat
    BY <1>2, <1>4, SMT
  <2>3. \A i \in 1..Len(rest) : rest[i].seq >= m => Fresh(rest[i], t)
    BY <1>3, <1>9, <2>1 DEF Informed
  <2>4. frame.seq >= m => Fresh(frame, t)
    BY <1>3, <1>9, <2>1 DEF Informed
  <2>5. m > seen[u] => \E i \in 1..Len(line) : Brings(line, i, m, t)
    <3>1. Len(<<>>) = 0 /\ 1..0 = {}
      BY SMT
    <3> QED BY <1>1, <1>9, <2>1, <3>1 DEF Informed, Coming
  <2>6. ASSUME m <= seen'[u] PROVE told'[u][t] = token[t].pos
    <3>1. CASE drop
      BY <1>9, <2>1, <2>6, <3>1 DEF Informed
    <3>2. CASE ~drop
      <4>1. frame.seq >= m
        BY <1>9, <2>2, <2>6, <3>2, SMT
      <4>2. t \in DOMAIN frame.shown \/ (~frame.all /\ told[u][t] = token[t].pos)
        <5>1. CASE m <= seen[u]
          BY <2>1, <2>4, <4>1, <5>1 DEF Informed, Fresh
        <5>2. CASE m > seen[u]
          <6>1. PICK i \in 1..Len(line) : Brings(line, i, m, t)
            BY <2>5, <5>2
          <6>2. CASE i = 1
            BY <1>3, <6>1, <6>2 DEF Brings
          <6>3. CASE i # 1
            <7>1. frame.seq < m
              BY <1>3, <6>1, <6>3 DEF Brings
            <7> QED BY <2>2, <4>1, <7>1, SMT
          <6> QED BY <6>2, <6>3
        <5> QED BY <2>2, <5>1, <5>2, SMT
      <4> QED BY <1>6, <1>9, <2>4, <3>2, <4>1, <4>2 DEF Fresh
    <3> QED BY <3>1, <3>2
  <2>7. ASSUME m > seen'[u] PROVE \E i \in 1..Len(rest) : Brings(rest, i, m, t)
    <3>1. m > seen[u] /\ frame.seq < m
      BY <1>9, <2>2, <2>7, SMT
    <3>2. PICK i \in 1..Len(line) : Brings(line, i, m, t)
      BY <2>5, <3>1
    <3>3. i # 1
      <4>1. frame.seq # m
        BY <2>2, <3>1, SMT
      <4> QED BY <1>3, <3>2, <4>1 DEF Brings
    <3>4. Brings(rest, i - 1, m, t)
      BY <1>3, <3>2, <3>3 DEF Brings
    <3> QED BY <1>3, <3>3, <3>4
  <2>8. m > seen'[u] => Coming(u, t, m)'
    <3>1. Len(<<>>) = 0 /\ 1..0 = {}
      BY SMT
    <3> QED BY <1>1, <1>9, <2>7, <3>1 DEF Coming, Brings
  <2>9. \A f : Fresh(f, t)' <=> Fresh(f, t)
    BY <1>0 DEF Fresh
  <2>10. \A i \in 1..Len(replay[u]) : FALSE
    BY <1>9, SMT
  <2> QED BY <1>0, <1>1, <1>9, <2>3, <2>6, <2>8, <2>9, <2>10 DEF Informed, Fresh
<1>13. Good(u)'
  BY <1>0, <1>1, <1>9, <1>10, <1>11, <1>12, IdleGood
<1> QED BY <1>0, <1>7, <1>8, <1>13, SessionStep
-----------------------------------------------------------------------------
(* What a commit means for the reads in progress.                          *)
LEMMA Touched ==
  ASSUME SessionsTyped, Touch
  PROVE  /\ read' \in [User -> Reads \cup {NoRead}]
         /\ \A v \in User : read[v] = NoRead => read'[v] = NoRead
         /\ \A v \in User : read[v] # NoRead =>
               /\ read'[v] # NoRead /\ read'[v].tokens = read[v].tokens
               /\ read'[v].blockers = read[v].blockers /\ read'[v].known = read[v].known
               /\ read'[v].commits < 2 => read[v].commits = 0 /\ read'[v].commits = 1
<1> DEFINE after(v) == [read[v] EXCEPT !.commits = Least(@ + 1, 2)]
<1>1. read' = [v \in User |-> IF read[v] = NoRead THEN NoRead ELSE after(v)]
  BY DEF Touch
<1>2. ASSUME NEW v \in User, read[v] # NoRead
      PROVE  /\ after(v) \in Reads /\ after(v).tokens = read[v].tokens
             /\ after(v).blockers = read[v].blockers /\ after(v).known = read[v].known
             /\ after(v).commits < 2 => read[v].commits = 0 /\ after(v).commits = 1
  <2>1. read[v] \in Reads
    BY <1>2 DEF SessionsTyped
  <2>2. /\ read[v].commits \in 0..2
        /\ \A i \in 0..2 : /\ Least(i + 1, 2) \in 0..2
                           /\ Least(i + 1, 2) < 2 => i = 0 /\ Least(i + 1, 2) = 1
    <3>1. read[v].commits \in 0..2
      BY <2>1 DEF Reads
    <3> QED BY <3>1, SMT DEF Least
  <2>3. after(v).commits = Least(read[v].commits + 1, 2)
    BY <2>1 DEF Reads
  <2> QED BY <2>1, <2>2, <2>3 DEF Reads
<1> HIDE DEF after
<1>3. \A v \in User : read'[v] = IF read[v] = NoRead THEN NoRead ELSE after(v)
  BY <1>1
<1> QED BY <1>1, <1>2, <1>3, ReadIsOne

(* What a member knows of a token that stays where it is, when more frames *)
(* arrive that are right about it.                                         *)
LEMMA LaneGrows ==
  ASSUME NEW v \in User, NEW t, NEW m, Informed(v, t, m),
         UNCHANGED <<pc, todo, replay, seen, told>>, token'[t].pos = token[t].pos,
         lane[v] \in Seq(Frames), NEW more \in Seq(Frames),
         lane'[v] = IF Joined(v) THEN lane[v] \o more ELSE lane[v],
         \A i \in 1..Len(more) : Fresh(more[i], t)
  PROVE  Informed(v, t, m)'
<1>1. Joined(v)' <=> Joined(v)
  BY DEF Joined
<1>2. \A f : Fresh(f, t)' <=> Fresh(f, t)
  BY DEF Fresh
<1>3. CASE ~Joined(v)
  BY <1>1, <1>3 DEF Informed
<1>4. CASE Joined(v)
  <2> DEFINE line == lane[v]
             after == line \o more
  <2>1. lane'[v] = after
    BY <1>4
  <2>2. Stacked(line, more, after)
    <3>1. line \in Seq(Frames)
      OBVIOUS
    <3> HIDE DEF line
    <3> QED BY <3>1, Joining
  <2> HIDE DEF after
  <2>3. ASSUME NEW i \in 1..Len(after), after[i].seq >= m PROVE Fresh(after[i], t)
    <3>1. CASE i \in 1..Len(line)
      BY <1>4, <2>2, <2>3, <3>1 DEF Informed, Stacked
    <3>2. CASE \E k \in 1..Len(more) : i = Len(line) + k
      BY <2>2, <3>2 DEF Stacked
    <3> QED BY <2>2, <3>1, <3>2 DEF Stacked
  <2>4. ASSUME NEW i \in 1..Len(line), Brings(line, i, m, t)
        PROVE  i \in 1..Len(after) /\ Brings(after, i, m, t)
    BY <2>2, <2>4 DEF Brings, Stacked
  <2>5. Coming(v, t, m) => Coming(v, t, m)'
    BY <2>1, <2>4 DEF Coming, Brings
  <2> QED BY <1>1, <1>2, <1>4, <2>1, <2>3, <2>5 DEF Informed, Fresh
<1> QED BY <1>3, <1>4

(* The sequence numbers a member has, when the log and the lane get longer.*)
LEMMA OrderGrows ==
  ASSUME NEW v \in User, Order(v), UNCHANGED <<pc, todo, replay, seen>>,
         Len(log) \in Nat, Len(log') \in Nat, Len(log) <= Len(log'), seen[v] \in Nat,
         lane[v] \in Seq(Frames), NEW more \in Seq(Frames),
         lane'[v] = IF Joined(v) THEN lane[v] \o more ELSE lane[v],
         \A i \in 1..Len(more) : more[i].seq \in 1..Len(log')
  PROVE  Order(v)'
<1>1. seen[v] <= Len(log') /\ \A i \in 1..Len(log) : i \in 1..Len(log')
  <2>1. seen[v] <= Len(log)
    BY DEF Order
  <2> QED BY <2>1, SMT
<1>2. ASSUME NEW i \in 1..Len(lane'[v]) PROVE lane'[v][i].seq \in 1..Len(log')
  <2>1. CASE ~Joined(v)
    BY <1>1, <1>2, <2>1 DEF Order
  <2>2. CASE Joined(v)
    <3> DEFINE line == lane[v]
               after == line \o more
    <3>1. lane'[v] = after /\ line \in Seq(Frames)
      BY <2>2
    <3>2. Stacked(line, more, after)
      <4> HIDE DEF line
      <4> QED BY <3>1, Joining
    <3> HIDE DEF after
    <3>3. \A j \in 1..Len(line) : line[j].seq \in 1..Len(log')
      BY <1>1 DEF Order
    <3>4. i \in 1..Len(line) \/ (\E k \in 1..Len(more) : i = Len(line) + k)
      BY <1>2, <3>1, <3>2 DEF Stacked
    <3> QED BY <3>1, <3>2, <3>3, <3>4 DEF Stacked
  <2> QED BY <2>1, <2>2
<1> QED BY <1>1, <1>2 DEF Order, Joined

(* What a read in progress knows of its beginning after one commit.        *)
LEMMA SinceAfter ==
  ASSUME SessionsTyped, Touch, NEW v \in User, Since(v),
         \/ token' = token
         \/ /\ Blockers' = Blockers
            /\ \E x \in Token : /\ \A t \in Token \ {x} : token[t] = token'[t]
                                /\ token[x].pos = token'[x].pos \/ token[x].acl = token'[x].acl
  PROVE  Since(v)'
<1> SUFFICES ASSUME read'[v] # NoRead, read'[v].commits < 2 PROVE Since(v)'
  BY DEF Since
<1>1. /\ read[v] # NoRead /\ read'[v].tokens = read[v].tokens
      /\ read'[v].blockers = read[v].blockers /\ read'[v].known = read[v].known
      /\ read[v].commits = 0 /\ read'[v].commits = 1
  BY Touched
<1>2. 0 < 2 /\ 1 # 0
  BY SMT
<1>3. PICK documents \in [Token -> Documents], blockers \in SUBSET DoorSegments :
          Began(v, documents, blockers)
  BY <1>1, <1>2 DEF Since
<1>4. documents = token /\ blockers = Blockers /\ read[v].blockers \in {{}, Blockers}
  BY <1>1, <1>3 DEF Began
<1>5. Began(v, documents, blockers)'
  BY <1>1, <1>2, <1>3, <1>4 DEF Began
<1> QED BY <1>3, <1>5 DEF Since

(* Nothing but the documents, the log and the lanes change with a commit.  *)
LEMMA StageKept ==
  ASSUME SessionsTyped, Touch, NEW v \in User, Stage(v), UNCHANGED <<pc, todo, replay>>,
         ~Joined(v) => lane'[v] = lane[v]
  PROVE  Stage(v)'
<1>1. read'[v] = NoRead <=> read[v] = NoRead
  BY Touched
<1> QED BY <1>1 DEF Stage, Joined

(* Somebody's level is changed.                                            *)
LEMMA SetAccessStep ==
  ASSUME IInv, NEW u \in User, NEW x \in Token, NEW level \in Levels, SetAccess(u, x, level)
  PROVE  IInv'
<1> DEFINE doc == [token[x] EXCEPT !.acl = WithLevel(token[x].acl, u, level)]
<1>1. /\ grants < MaxGrants /\ grants' = grants + 1 /\ token' = [token EXCEPT ![x] = doc]
      /\ Touch /\ UNCHANGED <<open, log, pc, todo, replay, lane, seen, told>>
  BY DEF SetAccess
<1>2. DocsTyped /\ SessionsTyped /\ Remembered
  BY DEF IInv
<1>3. doc \in Documents /\ doc.pos = token[x].pos
  <2>1. token[x] \in Documents
    BY <1>2 DEF DocsTyped
  <2>2. WithLevel(token[x].acl, u, level) \in AccessLists
    BY <2>1, WithLevelType DEF Documents
  <2> QED BY <2>1, <2>2 DEF Documents
<1> HIDE DEF doc
<1>4. /\ token' \in [Token -> Documents] /\ \A t \in Token : token'[t].pos = token[t].pos
      /\ \A t \in Token \ {x} : token[t] = token'[t]
  BY <1>1, <1>2, <1>3 DEF DocsTyped
<1>5. grants' \in 0..MaxGrants /\ grants' # 0
  BY <1>1, <1>2, SceneAssumption, SMT DEF DocsTyped
<1>6. DocsTyped' /\ Remembered'
  BY <1>1, <1>2, <1>4, <1>5 DEF DocsTyped, Remembered, Latest
<1>7. SessionsTyped'
  BY <1>1, <1>2, Touched DEF SessionsTyped
<1>8. ASSUME NEW v \in User PROVE Good(v)'
  <2>1. Good(v)
    BY DEF IInv
  <2>2. Stage(v)'
    BY <1>1, <1>2, <2>1, StageKept DEF Good
  <2>3. Order(v)'
    BY <1>1, <2>1 DEF Good, Order, Joined
  <2>4. Copied(v)'
    <3> SUFFICES ASSUME pc[v] = "item" PROVE Copied(v)'
      BY <1>1 DEF Copied
    <3>1. read[v] # NoRead
      BY <2>1 DEF Good, Stage
    <3>2. read'[v].tokens = read[v].tokens
      BY <1>1, <1>2, <3>1, Touched
    <3> QED BY <1>1, <1>4, <1>5, <2>1, <3>2 DEF Good, Copied, Latest
  <2>5. Knows(v)'
    <3> SUFFICES ASSUME NEW t \in Token \ {None}, NEW m \in 1..Len(log), Latest(m, t), Sure(v, t)'
                 PROVE  Informed(v, t, m)'
      BY <1>1 DEF Knows, Latest
    <3>1. Sure(v, t)
      BY <1>5 DEF Sure
    <3>2. Informed(v, t, m)
      BY <2>1, <3>1 DEF Good, Knows
    <3> QED BY <1>1, <1>4, <3>2 DEF Informed, Fresh, Coming, Brings, Joined
  <2>6. Since(v)'
    <3>1. Blockers' = Blockers
      BY <1>1 DEF Blockers, Walls
    <3> QED BY <1>1, <1>2, <1>4, <2>1, <3>1, SinceAfter DEF Good
  <2> QED BY <2>2, <2>3, <2>4, <2>5, <2>6 DEF Good
<1> QED BY <1>6, <1>7, <1>8 DEF IInv

(* A token is moved.                                                       *)
LEMMA PatchStep ==
  ASSUME IInv, NEW u \in User, NEW x \in Token, NEW pos \in Pos, Patch(u, x, pos)
  PROVE  IInv'
<1>0. PICK n : n = Len(log)
  OBVIOUS
<1> DEFINE doc == [token[x] EXCEPT !.pos = pos]
           views == {v \in User : CanRead(Level(v, token'[x]))}
           points == [v \in User |-> ViewpointsOf(v, RoleOf[v], token')]
           recipients == Filter(views, RoleOf, pos, Blockers, points)
           frame(v) == Frame(n + 1, Shown(v, token', {x}), FALSE)
           more(v) == IF v \in recipients THEN <<frame(v)>> ELSE <<>>
<1>1. /\ n + grants < MaxSeq /\ token' = [token EXCEPT ![x] = doc] /\ log' = Append(log, x)
      /\ Push([v \in User |-> more(v)]) /\ Touch
      /\ UNCHANGED <<open, grants, pc, todo, replay, seen, told>>
  BY <1>0 DEF Patch
<1>2. DocsTyped /\ SessionsTyped /\ Remembered
  BY DEF IInv
<1>3. /\ token' \in [Token -> Documents] /\ \A t \in Token \ {x} : token[t] = token'[t]
      /\ token'[x].pos = pos /\ token'[x].acl = token[x].acl
  <2>1. token[x] \in Documents
    BY <1>2 DEF DocsTyped
  <2>2. doc \in Documents /\ doc.pos = pos /\ doc.acl = token[x].acl
    BY <2>1 DEF Documents
  <2> HIDE DEF doc
  <2> QED BY <1>1, <1>2, <2>2 DEF DocsTyped
<1>4. /\ n \in Nat /\ log' \in Seq(Token \cup {None}) /\ Len(log') = n + 1 /\ n + 1 <= MaxSeq
      /\ \A i \in 1..n : i \in 1..n + 1 /\ log'[i] = log[i] /\ ~(n + 1 <= i) /\ i < n + 1
      /\ log'[n + 1] = x /\ n + 1 \in 1..n + 1 /\ n + 1 \in Nat
      /\ \A i \in 1..n + 1 : i \in 1..n \/ i = n + 1
      /\ \A i \in 1..n + 1 : i <= n + 1
  <2>1. /\ log \in Seq(Token \cup {None}) /\ grants \in Nat /\ MaxSeq \in Nat
    BY <1>2, SceneAssumption, SMT DEF DocsTyped
  <2>2. n \in Nat
    BY <1>0, <2>1, LenProperties
  <2>3. /\ log' \in Seq(Token \cup {None}) /\ Len(log') = n + 1
        /\ \A i \in 1..n : log'[i] = log[i]
        /\ log'[n + 1] = x
    <3>1. x \in Token \cup {None}
      OBVIOUS
    <3>2. /\ Append(log, x) \in Seq(Token \cup {None}) /\ Len(Append(log, x)) = Len(log) + 1
          /\ \A i \in 1..Len(log) : Append(log, x)[i] = log[i]
          /\ Append(log, x)[Len(log) + 1] = x
      BY <2>1, <3>1, SMT
    <3>3. log' = Append(log, x)
      BY <1>1
    <3> QED BY <1>0, <3>2, <3>3
  <2>4. /\ n + 1 <= MaxSeq
        /\ \A i \in 1..n : i \in 1..n + 1 /\ ~(n + 1 <= i) /\ i < n + 1
        /\ n + 1 \in 1..n + 1 /\ n + 1 \in Nat
        /\ \A i \in 1..n + 1 : i \in 1..n \/ i = n + 1
        /\ \A i \in 1..n + 1 : i <= n + 1
    <3>1. n + grants < MaxSeq
      BY <1>1
    <3> QED BY <2>1, <2>2, <3>1, SMT
  <2> QED BY <2>2, <2>3, <2>4
<1> HIDE DEF doc
<1>5. DocsTyped'
  BY <1>1, <1>2, <1>3, <1>4 DEF DocsTyped
<1>6. Remembered'
  <2> SUFFICES ASSUME NEW i \in 1..n + 1 PROVE \E m \in 1..n + 1 : Latest(m, log[i])'
    BY <1>4 DEF Remembered
  <2>1. Latest(n + 1, x)'
    BY <1>4 DEF Latest
  <2>2. CASE log'[i] = x
    BY <1>4, <2>1, <2>2 DEF Latest
  <2>3. CASE log'[i] # x
    <3>1. i \in 1..n
      BY <1>4, <2>3
    <3>2. PICK m \in 1..n : Latest(m, log[i])
      BY <1>0, <1>2, <3>1 DEF Remembered
    <3>3. Latest(m, log[i])'
      BY <1>0, <1>4, <2>3, <3>1, <3>2 DEF Latest
    <3> QED BY <1>4, <3>3 DEF Latest
  <2> QED BY <2>2, <2>3
<1>7. ASSUME NEW v \in User
      PROVE  /\ more(v) \in Seq(Frames)
             /\ lane[v] \in Seq(Frames) /\ lane'[v] = IF Joined(v) THEN lane[v] \o more(v) ELSE lane[v]
             /\ \A i \in 1..Len(more(v)) : more(v)[i] = frame(v)
             /\ v \in recipients => Len(more(v)) = 1 /\ more(v)[1] = frame(v) /\ 1 \in 1..1
             /\ frame(v).seq = n + 1 /\ frame(v).all = FALSE
             /\ DOMAIN frame(v).shown \subseteq {x}
             /\ ShowsData(Level(v, token'[x])) =>
                   x \in DOMAIN frame(v).shown /\ frame(v).shown[x] = token'[x].pos
             /\ x \in DOMAIN frame(v).shown => frame(v).shown[x] = token'[x].pos
  <2> DEFINE shown == Shown(v, token', {x})
  <2>1. /\ shown \in Positions
        /\ DOMAIN shown = {t \in {x} : ShowsData(Level(v, token'[t]))}
        /\ \A t \in {x} : ShowsData(Level(v, token'[t])) => shown[t] = token'[t].pos
    <3>1. {x} \in SUBSET Token /\ Token \in SUBSET Token
      OBVIOUS
    <3> QED BY <1>3, <3>1, ShownIs
  <2> HIDE DEF shown
  <2>2. frame(v) = Frame(n + 1, shown, FALSE)
    BY DEF shown
  <2>3. /\ frame(v) \in Frames /\ frame(v).seq = n + 1 /\ frame(v).all = FALSE
        /\ frame(v).shown = shown
    BY <1>4, <2>1, <2>2 DEF Frame, Frames
  <2> HIDE DEF frame, recipients
  <2>4. /\ <<frame(v)>> \in Seq(Frames) /\ Len(<<frame(v)>>) = 1 /\ <<frame(v)>>[1] = frame(v)
        /\ \A i \in 1..1 : i = 1
        /\ 1 \in 1..1
    BY <2>3, SMT
  <2>5. <<>> \in Seq(Frames) /\ Len(<<>>) = 0 /\ 1..0 = {}
    BY SMT
  <2>6. /\ more(v) \in Seq(Frames)
        /\ \A i \in 1..Len(more(v)) : more(v)[i] = frame(v)
        /\ v \in recipients => Len(more(v)) = 1 /\ more(v)[1] = frame(v) /\ 1 \in 1..1
    <3>1. CASE v \in recipients
      BY <2>4, <3>1
    <3>2. CASE v \notin recipients
      BY <2>5, <3>2
    <3> QED BY <3>1, <3>2
  <2>7. lane[v] \in Seq(Frames) /\ lane'[v] = IF Joined(v) THEN lane[v] \o more(v) ELSE lane[v]
    <3> HIDE DEF more
    <3> QED BY <1>1, <1>2 DEF Push, SessionsTyped
  <2> QED BY <2>1, <2>3, <2>6, <2>7
<1> HIDE DEF more, frame
<1>8. SessionsTyped'
  <2>1. \A v \in User : lane'[v] \in Seq(Frames)
    <3> SUFFICES ASSUME NEW v \in User PROVE lane'[v] \in Seq(Frames)
      OBVIOUS
    <3>1. lane[v] \in Seq(Frames) /\ more(v) \in Seq(Frames)
      BY <1>7
    <3>2. lane[v] \o more(v) \in Seq(Frames)
      BY <3>1, SMT
    <3> QED BY <1>7, <3>1, <3>2
  <2>2. lane' \in [User -> Seq(Frames)]
    BY <1>1, <2>1 DEF Push
  <2> QED BY <1>1, <1>2, <2>2, Touched DEF SessionsTyped
<1>9. ASSUME NEW v \in User PROVE Good(v)'
  <2>1. Good(v) /\ seen[v] \in Nat
    BY <1>2 DEF IInv, SessionsTyped
  <2>2. Stage(v)'
    BY <1>1, <1>2, <1>7, <2>1, StageKept DEF Good
  <2>3. Order(v)'
    <3>1. n <= n + 1
      BY <1>4, SMT
    <3>2. ASSUME NEW i \in 1..Len(more(v)) PROVE more(v)[i].seq \in 1..Len(log')
      <4>1. more(v)[i] = frame(v) /\ frame(v).seq = n + 1
        BY <1>7
      <4> QED BY <1>4, <4>1
    <3>3. /\ UNCHANGED <<pc, todo, replay, seen>> /\ Len(log) \in Nat /\ Len(log') \in Nat
          /\ Len(log) <= Len(log')
      BY <1>0, <1>1, <1>4, <3>1
    <3>4. /\ lane[v] \in Seq(Frames) /\ more(v) \in Seq(Frames)
          /\ lane'[v] = IF Joined(v) THEN lane[v] \o more(v) ELSE lane[v]
      BY <1>7
    <3>5. Order(v)
      BY <2>1 DEF Good
    <3> QED BY <2>1, <3>2, <3>3, <3>4, <3>5, OrderGrows
  <2>4. Copied(v)'
    <3> SUFFICES ASSUME pc[v] = "item" PROVE Copied(v)'
      BY <1>1 DEF Copied
    <3>1. read[v] # NoRead /\ todo[v] # <<>>
      BY <2>1 DEF Good, Stage
    <3>2. read'[v].tokens = read[v].tokens
      BY <1>1, <1>2, <3>1, Touched
    <3>0. PICK h, t : h = Head(todo[v]) /\ t = log[h]
      OBVIOUS
    <3>3. h \in 1..n
      <4>1. todo[v] \in Seq(Nat) /\ \A i \in 1..Len(todo[v]) : todo[v][i] \in 1..n
        BY <1>0, <1>2, <2>1 DEF SessionsTyped, Good, Order
      <4>2. h = todo[v][1] /\ 1 \in 1..Len(todo[v])
        BY <3>0, <3>1, <4>1, SMT
      <4> QED BY <4>1, <4>2
    <3>4. log'[h] = t
      BY <1>4, <3>0, <3>3
    <3>5. /\ t \in Token /\ t # None /\ DOMAIN read[v].tokens = {t}
          /\ grants = 0 => read[v].tokens[t].acl = token[t].acl
          /\ Latest(h, t) => read[v].tokens[t].pos = token[t].pos
      BY <2>1, <3>0 DEF Good, Copied
    <3>6. token'[t].acl = token[t].acl
      BY <1>3, <3>5
    <3>7. Latest(h, t)' => Latest(h, t) /\ token'[t].pos = token[t].pos
      <4> SUFFICES ASSUME Latest(h, t)' PROVE Latest(h, t) /\ token'[t].pos = token[t].pos
        OBVIOUS
      <4>1. log'[h] = t /\ \A i \in 1..n + 1 : log'[i] = t => i <= h
        BY <1>1, <1>4, <3>4 DEF Latest
      <4>2. t # x
        BY <1>4, <3>3, <4>1
      <4>3. Latest(h, t)
        BY <1>0, <1>4, <3>0, <3>3, <4>1 DEF Latest
      <4> QED BY <1>3, <3>5, <4>2, <4>3
    <3>8. Head(todo'[v]) = h /\ log'[Head(todo'[v])] = t
      BY <1>1, <3>0, <3>4
    <3> QED BY <1>1, <3>2, <3>5, <3>6, <3>7, <3>8, <3>4 DEF Copied, Latest
  <2>5. Knows(v)'
    <3> SUFFICES ASSUME NEW t \in Token \ {None}, NEW m \in 1..n + 1, Latest(m, t)', Sure(v, t)'
                 PROVE  Informed(v, t, m)'
      BY <1>4 DEF Knows
    <3>1. log'[m] = t /\ \A i \in 1..n + 1 : log'[i] = t => i <= m
      BY <1>4 DEF Latest
    <3>2. CASE t # x
      <4>1. m \in 1..n /\ Latest(m, t)
        BY <1>0, <1>4, <3>1, <3>2 DEF Latest
      <4>2. Sure(v, t)
        BY <1>1, <1>3, <3>2 DEF Sure
      <4>3. Informed(v, t, m)
        BY <1>0, <2>1, <4>1, <4>2 DEF Good, Knows
      <4>4. \A i \in 1..Len(more(v)) : Fresh(more(v)[i], t)
        BY <1>7, <3>2 DEF Fresh
      <4> QED BY <1>1, <1>3, <1>7, <3>2, <4>3, <4>4, LaneGrows
    <3>3. CASE t = x
      <4>1. m = n + 1
        BY <1>4, <3>1, <3>3
      <4>2. Level(v, token'[x]) = LevelOwner
        BY <1>3, <3>3, LevelType DEF Sure
      <4>3. v \in recipients
        <5>1. v \in views
          BY <4>2, OwnersAreShown
        <5>2. CASE IsStaff(RoleOf[v])
          BY <5>1, <5>2 DEF Filter
        <5>3. CASE ~IsStaff(RoleOf[v])
          <6>1. token'[x].pos # Unreadable /\ ~OnDoor(token'[x].pos)
            BY <3>3, <5>3 DEF Sure
          <6>2. Blockers \in SUBSET DoorSegments
            BY <1>2, BlockersType DEF DocsTyped
          <6>3. VisibleFromAny(points[v], pos, Blockers)
            BY <1>3, <4>2, <6>1, <6>2, OwnerSeesIt
          <6> QED BY <5>1, <6>3 DEF Filter
        <5> QED BY <5>2, <5>3
      <4>4. /\ Len(more(v)) = 1 /\ more(v)[1] = frame(v) /\ 1 \in 1..Len(more(v))
            /\ x \in DOMAIN frame(v).shown /\ frame(v).shown[x] = token'[x].pos
        BY <1>7, <4>2, <4>3, OwnersAreShown
      <4> HIDE DEF recipients
      <4>5. seen[v] <= n /\ ~(m <= seen[v])
        <5>1. seen[v] <= n
          BY <1>0, <2>1 DEF Good, Order
        <5> QED BY <1>4, <2>1, <4>1, <5>1, SMT
      <4>6. CASE ~Joined(v)
        BY <1>1, <4>5, <4>6 DEF Informed, Joined
      <4>7. CASE Joined(v)
        <5> DEFINE line == lane[v]
                   after == line \o more(v)
        <5>1. lane'[v] = after
          BY <1>7, <4>7
        <5>2. Stacked(line, more(v), after)
          <6>1. line \in Seq(Frames) /\ more(v) \in Seq(Frames)
            BY <1>7
          <6> HIDE DEF line
          <6> QED BY <6>1, Joining
        <5> HIDE DEF after
        <5>3. \A i \in 1..n : i < m /\ ~(i >= m)
          BY <1>4, <4>1, SMT
        <5>4. /\ \A i \in 1..Len(line) : line[i].seq \in 1..n
              /\ \A i \in 1..Len(replay[v]) : replay[v][i].seq \in 1..n
              /\ \A i \in 1..Len(todo[v]) : todo[v][i] \in 1..n
          BY <1>0, <2>1, <4>7 DEF Good, Order
        <5>5. /\ t \in DOMAIN frame(v).shown /\ frame(v).shown[t] = token'[t].pos
          BY <3>3, <4>4
        <5>6. ASSUME NEW i \in 1..Len(after), after[i].seq >= m PROVE after[i] = frame(v)
          <6>1. CASE i \in 1..Len(line)
            BY <5>2, <5>3, <5>4, <5>6, <6>1 DEF Stacked
          <6>2. CASE \E k \in 1..Len(more(v)) : i = Len(line) + k
            <7>1. PICK k \in 1..Len(more(v)) : i = Len(line) + k
              BY <6>2
            <7>2. after[i] = more(v)[k]
              BY <5>2, <7>1 DEF Stacked
            <7> QED BY <1>7, <7>1, <7>2
          <6> QED BY <5>2, <6>1, <6>2 DEF Stacked
        <5>7. Len(line) + 1 \in 1..Len(after) /\ Brings(after, Len(line) + 1, m, t)
          <6>1. Len(line) + 1 \in 1..Len(after) /\ after[Len(line) + 1] = frame(v)
            BY <4>4, <5>2 DEF Stacked
          <6>2. \A j \in 1..(Len(line) + 1) - 1 : j \in 1..Len(line)
            <7>1. Len(line) \in Nat
              BY <1>7, LenProperties
            <7> HIDE DEF line
            <7> QED BY <7>1, SMT
          <6>3. \A j \in 1..(Len(line) + 1) - 1 : after[j].seq < m
            BY <5>2, <5>3, <5>4, <6>2 DEF Stacked
          <6> QED BY <1>7, <3>3, <4>1, <4>4, <6>1, <6>3 DEF Brings
        <5>8. Coming(v, t, m)'
          BY <1>1, <5>1, <5>3, <5>4, <5>7 DEF Coming, Brings
        <5>9. \A i \in 1..Len(replay[v]) : ~(replay[v][i].seq >= m)
          BY <5>3, <5>4
        <5>10. \A i \in 1..Len(lane'[v]) : lane'[v][i].seq >= m => lane'[v][i] = frame(v)
          BY <5>1, <5>6
        <5> QED BY <1>1, <4>5, <5>5, <5>8, <5>9, <5>10 DEF Informed, Fresh
      <4> QED BY <4>6, <4>7
    <3> QED BY <3>2, <3>3
  <2>6. Since(v)'
    <3>1. Blockers' = Blockers
      BY <1>1 DEF Blockers, Walls
    <3> QED BY <1>1, <1>2, <1>3, <2>1, <3>1, SinceAfter DEF Good
  <2> QED BY <2>2, <2>3, <2>4, <2>5, <2>6 DEF Good
<1> QED BY <1>5, <1>6, <1>8, <1>9 DEF IInv

(* A door is opened or closed.                                             *)
LEMMA ToggleStep ==
  ASSUME IInv, NEW u \in User, NEW d \in Door, Toggle(u, d)
  PROVE  IInv'
<1>0. PICK n : n = Len(log)
  OBVIOUS
<1> DEFINE visible(v) == VisibleTokens(RoleOf[v], token, Blockers', Viewpoints(v))
           first == Frame(n + 1, <<>>, FALSE)
           second(v) == Frame(n + 2, Shown(v, token, visible(v)), TRUE)
           more(v) == <<first, second(v)>>
<1>1. /\ n + grants + 2 <= MaxSeq /\ open' = [open EXCEPT ![d] = ~open[d]]
      /\ log' = log \o <<None, None>>
      /\ Push([v \in User |-> more(v)]) /\ Touch
      /\ UNCHANGED <<token, grants, pc, todo, replay, seen, told>>
  BY <1>0 DEF Toggle
<1>2. DocsTyped /\ SessionsTyped /\ Remembered
  BY DEF IInv
<1>3. open' \in [Door -> BOOLEAN] /\ Blockers' \in SUBSET DoorSegments
  <2>1. open' \in [Door -> BOOLEAN]
    <3> HIDE DEF more
    <3> QED BY <1>1, <1>2 DEF DocsTyped
  <2>2. (open \in [Door -> BOOLEAN] => Blockers \subseteq DoorSegments)'
    BY BlockersType, PTL
  <2> QED BY <2>1, <2>2 DEF DoorSegments
<1>4. /\ n \in Nat /\ log' \in Seq(Token \cup {None}) /\ Len(log') = n + 2 /\ n + 2 <= MaxSeq
      /\ \A i \in 1..n : i \in 1..n + 2 /\ log'[i] = log[i]
      /\ log'[n + 1] = None /\ log'[n + 2] = None
      /\ n + 1 \in 1..n + 2 /\ n + 2 \in 1..n + 2 /\ n + 1 \in Nat /\ n + 2 \in Nat /\ n <= n + 2
      /\ \A i \in 1..n + 2 : i \in 1..n \/ i = n + 1 \/ i = n + 2
      /\ \A i \in 1..n + 2 : i <= n + 2
  <2>1. /\ log \in Seq(Token \cup {None}) /\ grants \in Nat /\ MaxSeq \in Nat
    BY <1>2, SceneAssumption, SMT DEF DocsTyped
  <2>2. n \in Nat
    BY <1>0, <2>1, LenProperties
  <2>3. /\ n + 1 \in 1..n + 2 /\ n + 2 \in 1..n + 2 /\ n + 1 \in Nat /\ n + 2 \in Nat
        /\ \A i \in 1..n : i \in 1..n + 2 /\ i <= n
        /\ ~(n + 1 <= n) /\ ~(n + 2 <= n) /\ (n + 1) - n = 1 /\ (n + 2) - n = 2 /\ n <= n + 2
        /\ \A i \in 1..n + 2 : i \in 1..n \/ i = n + 1 \/ i = n + 2
        /\ \A i \in 1..n + 2 : i <= n + 2
    BY <2>2, SMT
  <2>4. n + 2 <= MaxSeq
    <3>1. n + grants + 2 <= MaxSeq
      BY <1>1
    <3> QED BY <2>1, <2>2, <3>1, SMT
  <2>5. /\ <<None, None>> \in Seq(Token \cup {None}) /\ Len(<<None, None>>) = 2
        /\ <<None, None>>[1] = None /\ <<None, None>>[2] = None
    <3>1. None \in Token \cup {None}
      OBVIOUS
    <3> HIDE DEF None
    <3> QED BY <3>1, SMT
  <2>6. /\ log \o <<None, None>> \in Seq(Token \cup {None})
        /\ Len(log \o <<None, None>>) = Len(log) + Len(<<None, None>>)
        /\ \A i \in 1..Len(log) + Len(<<None, None>>) : (log \o <<None, None>>)[i] =
              IF i <= Len(log) THEN log[i] ELSE <<None, None>>[i - Len(log)]
    BY <2>1, <2>5, ConcatProperties
  <2>7. log' = log \o <<None, None>>
    BY <1>1
  <2>8. /\ log' \in Seq(Token \cup {None}) /\ Len(log') = n + 2
        /\ \A i \in 1..n + 2 : log'[i] = IF i <= n THEN log[i] ELSE <<None, None>>[i - n]
    BY <1>0, <2>5, <2>6, <2>7
  <2>9. log'[n + 1] = None /\ log'[n + 2] = None /\ \A i \in 1..n : log'[i] = log[i]
    BY <2>3, <2>5, <2>8
  <2> QED BY <2>2, <2>3, <2>4, <2>8, <2>9
<1>5. DocsTyped'
  <2> HIDE DEF more
  <2> QED BY <1>1, <1>2, <1>3, <1>4 DEF DocsTyped
<1>6. Remembered'
  <2> SUFFICES ASSUME NEW i \in 1..n + 2 PROVE \E m \in 1..n + 2 : Latest(m, log[i])'
    BY <1>4 DEF Remembered
  <2>1. Latest(n + 2, None)'
    BY <1>4 DEF Latest, None
  <2>2. CASE log'[i] = None
    BY <1>4, <2>1, <2>2 DEF Latest
  <2>3. CASE log'[i] # None
    <3>1. i \in 1..n
      BY <1>4, <2>3
    <3>2. PICK m \in 1..n : Latest(m, log[i])
      BY <1>0, <1>2, <3>1 DEF Remembered
    <3>3. Latest(m, log[i])'
      BY <1>0, <1>4, <2>3, <3>1, <3>2 DEF Latest
    <3> QED BY <1>4, <3>3 DEF Latest
  <2> QED BY <2>2, <2>3
<1>7. ASSUME NEW v \in User
      PROVE  /\ more(v) \in Seq(Frames)
             /\ lane[v] \in Seq(Frames) /\ lane'[v] = IF Joined(v) THEN lane[v] \o more(v) ELSE lane[v]
             /\ \A i \in 1..Len(more(v)) : more(v)[i].seq \in 1..n + 2
             /\ \A t \in Token : Sure(v, t) => \A i \in 1..Len(more(v)) : Fresh(more(v)[i], t)
  <2> DEFINE shown == Shown(v, token, visible(v))
  <2>1. token \in [Token -> Documents] /\ Token \in SUBSET Token
    BY <1>2 DEF DocsTyped
  <2>2. visible(v) \in SUBSET Token
    BY <2>1 DEF VisibleTokens
  <2>3. /\ shown \in Positions
        /\ DOMAIN shown = {t \in visible(v) : ShowsData(Level(v, token[t]))}
        /\ \A t \in visible(v) : ShowsData(Level(v, token[t])) => shown[t] = token[t].pos
    <3> HIDE DEF visible
    <3> QED BY <2>1, <2>2, ShownIs
  <2>4. ASSUME NEW t \in Token, Sure(v, t) PROVE t \in visible(v) /\ ShowsData(Level(v, token[t]))
    <3>1. Level(v, token[t]) = LevelOwner
      BY <2>1, <2>4, SureOwn
    <3>2. CASE IsStaff(RoleOf[v])
      BY <2>1, <3>1, <3>2, OwnersAreShown DEF VisibleTokens
    <3>3. CASE ~IsStaff(RoleOf[v])
      <4>1. token[t].pos # Unreadable /\ ~OnDoor(token[t].pos)
        BY <2>4, <3>3 DEF Sure
      <4>2. VisibleFromAny(Viewpoints(v), token[t].pos, Blockers')
        BY <1>3, <2>1, <3>1, <4>1, OwnerSeesIt DEF Viewpoints
      <4> QED BY <2>1, <3>1, <4>1, <4>2, OwnersAreShown DEF VisibleTokens
    <3> QED BY <3>2, <3>3
  <2> HIDE DEF shown
  <2>5. second(v) = Frame(n + 2, shown, TRUE)
    BY DEF shown
  <2> HIDE DEF visible
  <2>6. /\ first \in Frames /\ first.seq = n + 1 /\ first.shown = <<>> /\ first.all = FALSE
        /\ second(v) \in Frames /\ second(v).seq = n + 2 /\ second(v).shown = shown
    BY <1>4, <2>3, <2>5, NothingShown DEF Frame, Frames
  <2> HIDE DEF first, second
  <2>7. /\ more(v) \in Seq(Frames) /\ Len(more(v)) = 2
        /\ more(v)[1] = first /\ more(v)[2] = second(v) /\ \A i \in 1..2 : i = 1 \/ i = 2
    BY <2>6, SMT
  <2> HIDE DEF more
  <2>8. ASSUME NEW i \in 1..Len(more(v)) PROVE more(v)[i].seq \in 1..n + 2
    <3>1. i = 1 \/ i = 2
      BY <2>7
    <3>2. first.seq \in 1..n + 2 /\ second(v).seq \in 1..n + 2
      BY <1>4, <2>6
    <3> QED BY <2>7, <3>1, <3>2
  <2>9. ASSUME NEW t \in Token, Sure(v, t) PROVE Fresh(first, t) /\ Fresh(second(v), t)
    <3>1. Fresh(first, t)
      BY <2>6, NothingShown DEF Fresh
    <3>2. t \in DOMAIN shown /\ shown[t] = token[t].pos
      BY <2>3, <2>4, <2>9
    <3> QED BY <2>6, <3>1, <3>2 DEF Fresh
  <2>10. ASSUME NEW t \in Token, Sure(v, t), NEW i \in 1..Len(more(v)) PROVE Fresh(more(v)[i], t)
    <3>1. i = 1 \/ i = 2
      BY <2>7
    <3> QED BY <2>7, <2>9, <2>10, <3>1
  <2>11. lane[v] \in Seq(Frames) /\ lane'[v] = IF Joined(v) THEN lane[v] \o more(v) ELSE lane[v]
    BY <1>1, <1>2 DEF Push, SessionsTyped
  <2> QED BY <2>7, <2>8, <2>10, <2>11
<1> HIDE DEF more
<1>8. SessionsTyped'
  <2>1. ASSUME NEW v \in User PROVE lane'[v] \in Seq(Frames)
    <3>1. lane[v] \in Seq(Frames) /\ more(v) \in Seq(Frames)
      BY <1>7
    <3>2. lane[v] \o more(v) \in Seq(Frames)
      BY <3>1, SMT
    <3> QED BY <1>7, <3>1, <3>2
  <2>2. lane' \in [User -> Seq(Frames)]
    BY <1>1, <2>1 DEF Push
  <2> QED BY <1>1, <1>2, <2>2, Touched DEF SessionsTyped
<1>9. ASSUME NEW v \in User PROVE Good(v)'
  <2>1. Good(v) /\ seen[v] \in Nat
    BY <1>2 DEF IInv, SessionsTyped
  <2>2. Stage(v)'
    BY <1>1, <1>2, <1>7, <2>1, StageKept DEF Good
  <2>3. Order(v)'
    <3>2. \A i \in 1..Len(more(v)) : more(v)[i].seq \in 1..Len(log')
      BY <1>4, <1>7
    <3>3. /\ UNCHANGED <<pc, todo, replay, seen>> /\ Len(log) \in Nat /\ Len(log') \in Nat
          /\ Len(log) <= Len(log')
      BY <1>0, <1>1, <1>4
    <3>4. /\ lane[v] \in Seq(Frames) /\ more(v) \in Seq(Frames)
          /\ lane'[v] = IF Joined(v) THEN lane[v] \o more(v) ELSE lane[v]
      BY <1>7
    <3>5. Order(v)
      BY <2>1 DEF Good
    <3> QED BY <2>1, <3>2, <3>3, <3>4, <3>5, OrderGrows
  <2>4. Copied(v)'
    <3> SUFFICES ASSUME pc[v] = "item" PROVE Copied(v)'
      BY <1>1 DEF Copied
    <3>1. read[v] # NoRead /\ todo[v] # <<>>
      BY <2>1 DEF Good, Stage
    <3>2. read'[v].tokens = read[v].tokens
      BY <1>1, <1>2, <3>1, Touched
    <3>0. PICK h, t : h = Head(todo[v]) /\ t = log[h]
      OBVIOUS
    <3>3. h \in 1..n
      <4>1. todo[v] \in Seq(Nat) /\ \A i \in 1..Len(todo[v]) : todo[v][i] \in 1..n
        BY <1>0, <1>2, <2>1 DEF SessionsTyped, Good, Order
      <4>2. h = todo[v][1] /\ 1 \in 1..Len(todo[v])
        BY <3>0, <3>1, <4>1, SMT
      <4> QED BY <4>1, <4>2
    <3>4. log'[h] = t
      BY <1>4, <3>0, <3>3
    <3>5. /\ t \in Token /\ t # None /\ DOMAIN read[v].tokens = {t}
          /\ grants = 0 => read[v].tokens[t].acl = token[t].acl
          /\ Latest(h, t) => read[v].tokens[t].pos = token[t].pos
      BY <2>1, <3>0 DEF Good, Copied
    <3>6. Latest(h, t)' => Latest(h, t)
      BY <1>0, <1>4, <3>0, <3>3 DEF Latest
    <3>7. Head(todo'[v]) = h /\ log'[Head(todo'[v])] = t
      BY <1>1, <3>0, <3>4
    <3> QED BY <1>1, <3>2, <3>4, <3>5, <3>6, <3>7 DEF Copied, Latest
  <2>5. Knows(v)'
    <3> SUFFICES ASSUME NEW t \in Token \ {None}, NEW m \in 1..n + 2, Latest(m, t)', Sure(v, t)'
                 PROVE  Informed(v, t, m)'
      BY <1>4 DEF Knows
    <3>1. log'[m] = t /\ \A i \in 1..n + 2 : log'[i] = t => i <= m
      BY <1>4 DEF Latest
    <3>2. m \in 1..n /\ Latest(m, t)
      BY <1>0, <1>4, <3>1 DEF Latest
    <3>3. Sure(v, t)
      BY <1>1 DEF Sure
    <3>4. Informed(v, t, m)
      BY <1>0, <2>1, <3>2, <3>3 DEF Good, Knows
    <3>5. \A i \in 1..Len(more(v)) : Fresh(more(v)[i], t)
      BY <1>7, <3>3
    <3>6. /\ UNCHANGED <<pc, todo, replay, seen, told>> /\ token'[t].pos = token[t].pos
      BY <1>1
    <3>7. /\ lane[v] \in Seq(Frames) /\ more(v) \in Seq(Frames)
          /\ lane'[v] = IF Joined(v) THEN lane[v] \o more(v) ELSE lane[v]
      BY <1>7
    <3> QED BY <3>4, <3>5, <3>6, <3>7, LaneGrows
  <2>6. Since(v)'
    BY <1>1, <1>2, <2>1, SinceAfter DEF Good
  <2> QED BY <2>2, <2>3, <2>4, <2>5, <2>6 DEF Good
<1> QED BY <1>5, <1>6, <1>8, <1>9 DEF IInv
-----------------------------------------------------------------------------
(* A scene somebody has prepared is good.                                  *)
LEMMA InitGood == Init => IInv
<1> SUFFICES ASSUME Init PROVE IInv
  OBVIOUS
<1>1. /\ <<>> \in Seq(Token \cup {None}) /\ <<>> \in Seq(Nat) /\ <<>> \in Seq(Frames)
      /\ Len(<<>>) = 0 /\ 1..0 = {} /\ 0 \in Nat /\ 0 <= 0
  BY SMT
<1>2. DocsTyped
  <2>1. 0 <= MaxSeq /\ 0 \in 0..MaxGrants
    BY SceneAssumption, SMT
  <2>2. [pos : Place, acl : ACLs] \subseteq Documents
    BY FirstACLs DEF Documents, Pos
  <2> QED BY <1>1, <2>1, <2>2 DEF Init, DocsTyped
<1>3. SessionsTyped
  BY <1>1 DEF Init, SessionsTyped, Program
<1>4. Remembered
  BY <1>1 DEF Init, Remembered
<1>5. ASSUME NEW u \in User PROVE Good(u)
  <2>1. /\ pc[u] = "off" /\ todo[u] = <<>> /\ read[u] = NoRead /\ replay[u] = <<>>
        /\ lane[u] = <<>> /\ seen[u] = 0 /\ log = <<>>
    BY DEF Init
  <2>2. Stage(u) /\ Copied(u) /\ Since(u)
    BY <2>1 DEF Stage, Copied, Since
  <2>3. Order(u)
    BY <1>1, <2>1 DEF Order
  <2>4. Knows(u)
    BY <1>1, <2>1 DEF Knows
  <2> QED BY <2>2, <2>3, <2>4 DEF Good
<1> QED BY <1>2, <1>3, <1>4, <1>5 DEF IInv

(* Every step keeps the invariant.                                         *)
LEMMA NextGood == IInv /\ [Next]_vars => IInv'
<1> SUFFICES ASSUME IInv, [Next]_vars PROVE IInv'
  OBVIOUS
<1>1. CASE \E u \in User, t \in Token, pos \in Pos : Patch(u, t, pos)
  BY <1>1, PatchStep
<1>2. CASE \E u \in User, d \in Door : Toggle(u, d)
  BY <1>2, ToggleStep
<1>3. CASE \E u \in Player, t \in Token, level \in AccessLevel : SetAccess(u, t, level)
  <2>1. Player \subseteq User /\ AccessLevel \subseteq Levels
    BY SceneAssumption DEF Player
  <2> QED BY <1>3, <2>1, SetAccessStep
<1>4. CASE \E u \in Player : ListDocuments(u)
  BY <1>4, ListDocumentsStep DEF Player
<1>5. ASSUME NEW u \in User,
             \/ Join(u) \/ EventsSince(u) \/ GetDocument(u)
             \/ ReadWalls(u) \/ ReadViewpoints(u) \/ Answer(u)
             \/ Prepend(u) \/ Send(u) \/ Disconnect(u)
      PROVE  IInv'
  BY <1>5, JoinStep, EventsSinceStep, GetDocumentStep, ReadWallsStep, ReadViewpointsStep,
     AnswerStep, PrependStep, SendStep, DisconnectStep
<1>6. CASE UNCHANGED vars
  <2>1. /\ UNCHANGED docs /\ UNCHANGED <<token, open, log, grants>>
        /\ UNCHANGED <<pc, todo, read, replay, lane, seen, told>>
    BY <1>6 DEF vars, docs
  <2>2. \A v \in User : Aside(v)
    BY <2>1 DEF Aside
  <2>3. \A v \in User : Good(v)'
    BY <2>1, <2>2, AsideKept DEF IInv
  <2>4. DocsTyped' /\ Remembered' /\ SessionsTyped'
    BY <2>1 DEF IInv, DocsTyped, Remembered, Latest, SessionsTyped
  <2> QED BY <2>3, <2>4 DEF IInv
<1> QED BY <1>1, <1>2, <1>3, <1>4, <1>5, <1>6 DEF Next

(* The invariant says what TypeOK says.                                    *)
LEMMA GoodIsTyped == IInv => TypeOK
<1> SUFFICES ASSUME IInv PROVE TypeOK
  OBVIOUS
<1>1. \A i \in 1..Len(log) : log[i] \in Token \cup {None}
  BY ElementOfSeq DEF IInv, DocsTyped
<1>2. ASSUME NEW u \in User
      PROVE  /\ read[u] = NoRead \/ read[u] \in Reads
             /\ read[u] # NoRead <=> pc[u] \in {"item", "list"}
             /\ pc[u] = "item" => todo[u] # <<>>
             /\ seen[u] \in 0..Len(log)
             /\ told[u] \in [Token -> Pos \cup {Untold}]
  <2>1. seen[u] \in 0..Len(log)
    <3>1. seen[u] \in Nat /\ seen[u] <= Len(log) /\ Len(log) \in Nat
      BY LenProperties DEF IInv, SessionsTyped, DocsTyped, Good, Order
    <3> QED BY <3>1, SMT
  <2>2. Stage(u)
    BY DEF IInv, Good
  <2> QED BY <2>1, <2>2 DEF IInv, SessionsTyped, Stage
<1> QED BY <1>1, <1>2 DEF IInv, DocsTyped, SessionsTyped, Program, TypeOK

(* Documents, sessions and reads are what they are meant to be; a read is  *)
(* in progress exactly while a replay or a listing is at one.              *)
THEOREM SceneTyped == Spec => []TypeOK
BY InitGood, NextGood, GoodIsTyped, PTL DEF Spec

(* The invariant says that who has caught up knows.                        *)
LEMMA GoodConverges == IInv => Converges
<1> SUFFICES ASSUME IInv PROVE Converges
  OBVIOUS
<1>0. grants = 0 \/ grants > 0
  <2>1. grants \in 0..MaxGrants
    BY DEF IInv, DocsTyped
  <2> QED BY <2>1, SceneAssumption, SMT
<1> SUFFICES ASSUME NEW u \in User, NEW i \in 1..Len(log), CaughtUp(u), log[i] # None,
                    told[u][log[i]] # token[log[i]].pos
             PROVE  ~Sure(u, log[i])
  BY <1>0 DEF Converges, Sure
<1>1. log[i] \in Token
  <2>1. log \in Seq(Token \cup {None})
    BY DEF IInv, DocsTyped
  <2>2. log[i] \in Token \cup {None}
    BY <2>1, ElementOfSeq
  <2> QED BY <2>2
<1>2. PICK m \in 1..Len(log) : Latest(m, log[i])
  BY DEF IInv, Remembered
<1> SUFFICES ASSUME Sure(u, log[i]) PROVE FALSE
  OBVIOUS
<1>3. Informed(u, log[i], m) /\ Stage(u)
  BY <1>1, <1>2 DEF IInv, Good, Knows
<1>4. pc[u] = "live" /\ lane[u] = <<>> /\ todo[u] = <<>> /\ replay[u] = <<>> /\ Joined(u)
  BY <1>3 DEF CaughtUp, Stage, Joined
<1>5. m > seen[u]
  <2>1. m \in Nat /\ seen[u] \in Nat
    BY SMT DEF IInv, SessionsTyped
  <2>2. ~(m <= seen[u])
    BY <1>3 DEF Informed
  <2> QED BY <2>1, <2>2, SMT
<1>6. Coming(u, log[i], m)
  BY <1>3, <1>4, <1>5 DEF Informed
<1>7. Len(<<>>) = 0 /\ 1..0 = {}
  BY SMT
<1> QED BY <1>4, <1>6, <1>7 DEF Coming

(* Whoever has caught up, staff or the owner of a token that stands in the *)
(* open, knows where the token stands, however replays, live frames, doors *)
(* and reconnections were interleaved (Serve, replayPayload, Filter).      *)
THEOREM SceneConverges == Spec => []Converges
BY InitGood, NextGood, GoodConverges, PTL DEF Spec

(* Positions that decode are points.                                       *)
LEMMA PlacesArePoints ==
  ASSUME NEW doc \in Documents, doc.pos # Unreadable
  PROVE  doc.pos \in Point
BY SceneAssumption DEF Documents, Pos

(* A replay or listing that answers after at most one commit shows what    *)
(* the member would have been told before or after it.                     *)
LEMMA AnswerIsKnown ==
  ASSUME IInv, NEW u \in User, read[u] # NoRead, read[u].commits < 2,
         NEW t \in DOMAIN read[u].tokens,
         ShowsData(Level(u, read[u].tokens[t])), read[u].tokens[t].pos # Unreadable,
         NEW b, b = {} => Blockers = {}, b \in {{}, read[u].blockers},
         \/ b = {} \/ IsStaff(RoleOf[u])
         \/ VisibleFromAny(Viewpoints(u), read[u].tokens[t].pos, b)
  PROVE  \/ t \in read[u].known
         \/ Viewpoints(u) = {}
         \/ MayKnow(u, t) /\ token[t].pos = read[u].tokens[t].pos
<1>1. PICK documents \in [Token -> Documents], blockers \in SUBSET DoorSegments :
          Began(u, documents, blockers)
  BY DEF IInv, Good, Since
<1>2. read[u] \in Reads /\ t \in Token
  <2>1. read[u] \in Reads
    BY DEF IInv, SessionsTyped
  <2> QED BY <2>1 DEF Reads
<1>3. read[u].tokens[t] = documents[t]
  BY <1>1 DEF Began
<1>4. t \in read[u].known <=> WouldKnow(u, documents[t], blockers, documents)
  BY <1>1 DEF Began
<1>5. MayKnow(u, t) <=> WouldKnow(u, token[t], Blockers, token)
  BY <1>2, MayKnowIs
<1>6. documents = token /\ b = blockers => t \in read[u].known
  BY <1>3, <1>4 DEF WouldKnow, Viewpoints
<1>7. documents[t] = token[t] /\ b = Blockers =>
         MayKnow(u, t) /\ token[t].pos = read[u].tokens[t].pos
  BY <1>3, <1>5 DEF WouldKnow, Viewpoints
<1>8. read[u].commits = 0 \/ read[u].commits = 1
  <2>1. read[u].commits \in 0..2
    BY <1>2 DEF Reads
  <2> QED BY <2>1, SMT
<1>9. CASE read[u].commits = 0
  <2>1. documents = token /\ blockers = Blockers /\ read[u].blockers \in {{}, Blockers}
    BY <1>1, <1>9 DEF Began
  <2> QED BY <1>6, <2>1
<1>10. CASE documents = token /\ read[u].blockers \in {{}, Blockers, blockers}
  BY <1>6, <1>7, <1>10
<1>11. CASE /\ blockers = Blockers /\ read[u].blockers \in {{}, Blockers}
            /\ \E x \in Token :
                  /\ \A y \in Token \ {x} : documents[y] = token[y]
                  /\ documents[x].pos = token[x].pos \/ documents[x].acl = token[x].acl
  <2>1. b = Blockers
    BY <1>11
  <2>2. PICK x \in Token :
           /\ \A y \in Token \ {x} : documents[y] = token[y]
           /\ documents[x].pos = token[x].pos \/ documents[x].acl = token[x].acl
    BY <1>11
  <2>3. CASE t # x
    BY <1>2, <1>7, <2>1, <2>2, <2>3
  <2>4. CASE b = {} \/ IsStaff(RoleOf[u])
    BY <1>3, <1>4, <1>11, <2>1, <2>4 DEF WouldKnow
  <2>5. CASE t = x /\ Viewpoints(u) # {} /\ VisibleFromAny(Viewpoints(u), documents[t].pos, b)
    <3>1. PICK p \in Viewpoints(u) : Visible(p, documents[t].pos, b)
      BY <2>5 DEF VisibleFromAny
    <3>2. token \in [Token -> Documents]
      BY DEF IInv, DocsTyped
    <3>3. PICK y \in Token : /\ Level(u, token[y]) >= LevelOwner
                             /\ token[y].pos # Unreadable /\ p = token[y].pos
      BY <3>1, <3>2 DEF Viewpoints, ViewpointsOf, Level
    <3>4. CASE y # x
      <4>1. p \in ViewpointsOf(u, RoleOf[u], documents)
        BY <2>2, <3>3, <3>4 DEF ViewpointsOf, Level
      <4> QED BY <1>3, <1>4, <1>11, <2>1, <3>1, <4>1 DEF WouldKnow, VisibleFromAny
    <3>5. CASE y = x /\ documents[x].pos = token[x].pos
      <4>1. ShowsData(Level(u, token[x]))
        <5>1. Level(u, token[x]) \in Levels /\ Level(u, token[x]) >= LevelOwner
          BY <3>2, <3>3, <3>5, LevelType
        <5> QED BY <5>1, SMT DEF ShowsData, LevelOwner, LevelLimited, LevelNone, Levels
      <4> QED BY <1>3, <1>5, <2>1, <2>5, <3>1, <3>5, <4>1 DEF WouldKnow, VisibleFromAny, Viewpoints
    <3>6. CASE y = x /\ documents[x].acl = token[x].acl
      <4> DEFINE q == documents[t].pos
      <4>1. q \in ViewpointsOf(u, RoleOf[u], documents)
        <5>1. Level(u, documents[x]) = Level(u, token[x])
          BY <3>6 DEF Level, Grant
        <5> QED BY <1>3, <2>5, <3>3, <3>6, <5>1 DEF ViewpointsOf, Level
      <4>2. Visible(q, q, b)
        <5>1. q \in Point /\ p \in Point
          BY <1>2, <1>3, <3>2, <3>3, PlacesArePoints
        <5>2. b \subseteq Segment
          BY <2>1, BlockersType DEF IInv, DocsTyped
        <5> HIDE DEF q
        <5>3. \A s \in b : Crosses(<<q, q>>, s) => Crosses(<<p, q>>, s)
          BY <5>1, <5>2, EndBlocks
        <5> QED BY <3>1, <5>3 DEF Visible, q
      <4> QED BY <1>3, <1>4, <1>11, <2>1, <4>1, <4>2 DEF WouldKnow, VisibleFromAny
    <3> QED BY <2>2, <3>4, <3>5, <3>6
  <2> QED BY <1>3, <2>3, <2>4, <2>5
<1> QED BY <1>1, <1>8, <1>9, <1>10, <1>11 DEF Began

(* Only these steps end a read.                                            *)
LEMMA ReadEnds ==
  ASSUME IInv, Next, NEW u \in User, read[u] # NoRead, read'[u] = NoRead
  PROVE  ReadWalls(u) \/ ReadViewpoints(u) \/ Disconnect(u)
<1>1. SessionsTyped /\ read \in [User -> Reads \cup {NoRead}] /\ pc[u] \in {"item", "list"}
  BY DEF IInv, SessionsTyped, Good, Stage
<1>2. ~Touch
  BY <1>1, Touched
<1>3. ASSUME NEW v \in User, NEW r, read' = [read EXCEPT ![v] = r] PROVE v = u
  BY <1>1, <1>3
<1>4. read' # read
  OBVIOUS
<1>5. ASSUME NEW v \in User, ListDocuments(v) PROVE FALSE
  <2>1. v = u
    BY <1>3, <1>5 DEF ListDocuments, BeginRead
  <2> QED BY <1>1, <1>5, <2>1 DEF ListDocuments
<1>6. ASSUME NEW v \in User, GetDocument(v) PROVE FALSE
  <2>1. pc[v] = "replay" /\ \E r : read' = [read EXCEPT ![v] = r]
    BY <1>6 DEF GetDocument, BeginRead, EndItem
  <2>2. v = u
    BY <1>3, <2>1
  <2> QED BY <1>1, <2>1, <2>2
<1>7. ASSUME NEW v \in User, ReadWalls(v) PROVE v = u
  <2>1. \E r : read' = [read EXCEPT ![v] = r]
    BY <1>7 DEF ReadWalls, EndListing, EndItem
  <2> QED BY <1>3, <2>1
<1>8. ASSUME NEW v \in User, ReadViewpoints(v) PROVE v = u
  <2>1. \E r : read' = [read EXCEPT ![v] = r]
    BY <1>8 DEF ReadViewpoints, EndListing, EndItem
  <2> QED BY <1>3, <2>1
<1>9. ASSUME NEW v \in User, Disconnect(v) PROVE v = u
  BY <1>3, <1>9 DEF Disconnect
<1>10. ASSUME NEW v \in User, Join(v) \/ EventsSince(v) \/ Answer(v) \/ Prepend(v) \/ Send(v)
       PROVE  FALSE
  BY <1>4, <1>10 DEF Join, EventsSince, Answer, Prepend, Send
<1>11. ASSUME NEW v \in User, NEW t, NEW p, Patch(v, t, p) PROVE FALSE
  BY <1>2, <1>11 DEF Patch
<1>12. ASSUME NEW v \in User, NEW d, Toggle(v, d) PROVE FALSE
  BY <1>2, <1>12 DEF Toggle
<1>13. ASSUME NEW v, NEW t, NEW level, SetAccess(v, t, level) PROVE FALSE
  BY <1>2, <1>13 DEF SetAccess
<1> QED BY <1>5, <1>6, <1>7, <1>8, <1>9, <1>10, <1>11, <1>12, <1>13 DEF Next, Player

(* What a replay or a listing adds when it is done with a read.            *)
LEMMA NewlyShown ==
  ASSUME IInv, NEW u \in User, NEW shown,
         \/ \E include \in BOOLEAN : EndItem(u, shown, include)
         \/ pc[u] = "list" /\ EndListing(u, shown)
  PROVE  Shows(u) = shown \/ Shows(u) = <<>>
<1>1. replay[u] \in Seq(Frames) /\ replay \in [User -> Seq(Frames)]
  BY DEF IInv, SessionsTyped
<1>2. CASE \E include \in BOOLEAN : EndItem(u, shown, include)
  <2> DEFINE frame == Frame(Head(todo[u]), shown, FALSE)
             before == replay[u]
  <2>1. replay'[u] = before \/ replay'[u] = Append(before, frame)
    BY <1>1, <1>2 DEF EndItem
  <2>2. frame.shown = shown
    BY DEF Frame
  <2> HIDE DEF frame
  <2>3. /\ Len(before) \in Nat /\ ~(Len(before) > Len(before))
        /\ Len(Append(before, frame)) = Len(before) + 1
        /\ Append(before, frame)[Len(before) + 1] = frame
    <3>1. before \in Seq(Frames \cup {frame}) /\ frame \in Frames \cup {frame}
      BY <1>1, SMT
    <3>2. Len(before) \in Nat
      BY <1>1, LenProperties
    <3>3. ~(Len(before) > Len(before))
      BY <3>2, SMT
    <3> HIDE DEF before
    <3> QED BY <3>1, <3>2, <3>3, AppendProperties
  <2> QED BY <2>1, <2>2, <2>3 DEF Shows
<1>3. CASE pc[u] = "list" /\ EndListing(u, shown)
  <2> DEFINE frame == Frame(0, shown, TRUE)
  <2>1. replay'[u] = <<frame>>
    BY <1>1, <1>3 DEF EndListing
  <2>2. frame.shown = shown
    BY DEF Frame
  <2> HIDE DEF frame
  <2>3. Len(<<frame>>) = 1 /\ <<frame>>[1] = frame
    BY SMT
  <2> QED BY <2>1, <2>2, <2>3 DEF Shows
<1> QED BY <1>2, <1>3

(* What a step that ends a read shows, the member would have been told.    *)
LEMMA AnswersAreKnown ==
  ASSUME IInv, Next, NEW u \in User,
         read[u] # NoRead, read'[u] = NoRead, read[u].commits < 2,
         NEW t \in DOMAIN Shows(u), Shows(u)[t] # Unreadable
  PROVE  \/ t \in read[u].known
         \/ Viewpoints(u) = {}
         \/ MayKnow(u, t) /\ token[t].pos = Shows(u)[t]
<1> DEFINE tokens == read[u].tokens
<1>1. /\ read[u] \in Reads /\ pc[u] \in {"item", "list"}
  BY DEF IInv, SessionsTyped, Good, Stage
<1>2. PICK ts \in SUBSET Token : tokens \in [ts -> Documents]
  BY <1>1 DEF Reads
<1>3. ASSUME NEW visible \in SUBSET DOMAIN tokens, NEW b,
             Shows(u) = Shown(u, tokens, visible), b = {} => Blockers = {},
             b \in {{}, read[u].blockers},
             \A x \in visible : tokens[x].pos # Unreadable =>
                \/ b = {} \/ IsStaff(RoleOf[u])
                \/ VisibleFromAny(Viewpoints(u), tokens[x].pos, b)
      PROVE  \/ t \in read[u].known
             \/ Viewpoints(u) = {}
             \/ MayKnow(u, t) /\ token[t].pos = Shows(u)[t]
  <2>1. visible \in SUBSET ts
    BY <1>2
  <2>2. /\ Shown(u, tokens, visible) \in Positions
        /\ DOMAIN Shown(u, tokens, visible) = {x \in visible : ShowsData(Level(u, tokens[x]))}
        /\ \A x \in visible : ShowsData(Level(u, tokens[x]))
              => Shown(u, tokens, visible)[x] = tokens[x].pos
    <3> HIDE DEF tokens
    <3> QED BY <1>2, <2>1, ShownIs
  <2>3. t \in visible /\ ShowsData(Level(u, tokens[t])) /\ Shows(u)[t] = tokens[t].pos
    BY <1>3, <2>2
  <2>4. t \in DOMAIN tokens
    BY <2>3
  <2> QED BY <1>3, <2>3, <2>4, AnswerIsKnown
<1>4. ASSUME Shows(u) = <<>> PROVE FALSE
  BY <1>4, NothingShown
<1>5. CASE ReadWalls(u)
  <2> DEFINE all == Shown(u, tokens, DOMAIN tokens)
  <2>1. /\ Blockers # {} => read' = [read EXCEPT ![u].blockers = Blockers]
        /\ Blockers = {} => IF pc[u] = "list" THEN EndListing(u, all) ELSE EndItem(u, all, TRUE)
    BY <1>5 DEF ReadWalls
  <2>2. Blockers = {}
    <3>1. ASSUME read' = [read EXCEPT ![u].blockers = Blockers] PROVE FALSE
      <4>1. read'[u] = [read[u] EXCEPT !.blockers = Blockers]
        BY <3>1 DEF IInv, SessionsTyped
      <4>2. Blockers \in SUBSET DoorSegments
        BY BlockersType DEF IInv, DocsTyped
      <4>3. [read[u] EXCEPT !.blockers = Blockers] \in Reads
        BY <1>1, <4>2 DEF Reads, DoorSegments
      <4> QED BY <4>1, <4>3, ReadIsOne
    <3> QED BY <2>1, <3>1
  <2>3. Shows(u) = all
    <3> HIDE DEF all
    <3> QED BY <1>4, <2>1, <2>2, NewlyShown
  <2> QED BY <1>3, <2>2, <2>3
<1>6. CASE ReadViewpoints(u)
  <2> DEFINE b == read[u].blockers
             listed == VisibleTokens(RoleOf[u], tokens, b, Viewpoints(u))
             replayed == {x \in DOMAIN tokens : CanSee(RoleOf[u], tokens[x].pos, b, Viewpoints(u))}
  <2>1. /\ b # {}
        /\ IF pc[u] = "list" THEN EndListing(u, Shown(u, tokens, listed))
           ELSE EndItem(u, Shown(u, tokens, replayed), replayed # {})
    BY <1>6 DEF ReadViewpoints
  <2>2. (replayed # {}) \in BOOLEAN
    OBVIOUS
  <2>3. Shows(u) = Shown(u, tokens, listed) \/ Shows(u) = Shown(u, tokens, replayed)
    <3> HIDE DEF replayed, listed
    <3> QED BY <1>4, <2>1, <2>2, NewlyShown
  <2>4. /\ listed \in SUBSET DOMAIN tokens /\ replayed \in SUBSET DOMAIN tokens
        /\ \A x \in listed \cup replayed : tokens[x].pos # Unreadable =>
                \/ b = {} \/ IsStaff(RoleOf[u])
                \/ VisibleFromAny(Viewpoints(u), tokens[x].pos, b)
    BY DEF VisibleTokens, CanSee, VisibleFromAny
  <2> HIDE DEF listed, replayed
  <2>5. CASE Shows(u) = Shown(u, tokens, listed)
    BY <1>3, <2>1, <2>4, <2>5
  <2>6. CASE Shows(u) = Shown(u, tokens, replayed)
    BY <1>3, <2>1, <2>4, <2>6
  <2> QED BY <2>3, <2>5, <2>6
<1>7. CASE Disconnect(u)
  <2>1. replay'[u] = <<>>
    BY <1>7 DEF Disconnect, IInv, SessionsTyped
  <2>2. Len(replay[u]) \in Nat
    BY LenProperties DEF IInv, SessionsTyped
  <2>3. ~(Len(<<>>) > Len(replay[u]))
    BY <2>2, SMT
  <2> QED BY <1>4, <2>1, <2>3 DEF Shows
<1> QED BY <1>5, <1>6, <1>7, ReadEnds

(* A replay or a listing, whose queries are not one transaction, shows     *)
(* nothing that the member would not have been told live when the first or *)
(* the last query ran, as long as one commit falls between them            *)
(* (replayPayload, listTokens, ViewpointsOf).                              *)
THEOREM SceneReadsShowTheVisible == Spec => ReadsShowTheVisible
<1>1. IInv /\ [Next]_vars =>
        [\A u \in User :
          read[u] # NoRead /\ read'[u] = NoRead /\ read[u].commits < 2 =>
              \A t \in DOMAIN Shows(u) :
                  Shows(u)[t] # Unreadable =>
                      \/ t \in read[u].known
                      \/ Viewpoints(u) = {}
                      \/ MayKnow(u, t) /\ token[t].pos = Shows(u)[t]]_vars
  BY AnswersAreKnown
<1> QED BY <1>1, InitGood, NextGood, PTL DEF Spec, ReadsShowTheVisible
=============================================================================
