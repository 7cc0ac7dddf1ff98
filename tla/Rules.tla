------------------------------- MODULE Rules --------------------------------
(***************************************************************************)
(* The pure functions the rest of the server relies on, called once each   *)
(* with every input of a bounded set and compared with what they are meant *)
(* to compute: geometry, permissions, redaction, line of sight, dice and   *)
(* the two encodings of a frame.                                           *)
(***************************************************************************)
EXTENDS Sight, Redact, Dice, Codec

CONSTANTS
    Grid,           \* bound: points of segments
    Spot,           \* bound: points where tokens stand
    Barrier,        \* bound: segments of walls
    Path,           \* bound: paths of a document, closed under prefixes
    Piece,          \* bound: pieces of dice expressions
    MaxTokens       \* bound: tokens of a dice expression

ASSUME RulesAssumption ==
    /\ Grid \subseteq Point
    /\ IsFiniteSet(Path) /\ \A p \in Path : p \in Seq(STRING) /\ p # <<>>
    /\ \A piece \in Piece :
          \/ piece = Malformed
          \/ piece.kind = "constant" /\ piece = Constant(piece.value) /\ piece.value \in Int
          \/ /\ piece.kind = "dice"
             /\ piece = DicePiece(piece.count, piece.faces, piece.mode, piece.amount)
             /\ piece.count \in Nat /\ piece.faces \in Nat /\ piece.amount \in Nat
             /\ piece.mode \in {"", "kh", "kl", "dh", "dl"}
    /\ MaxTokens \in Nat

VARIABLE call       \* the last call: its arguments and its result

Idle == [op |-> "idle"]
Init == call = Idle
-----------------------------------------------------------------------------
CallCrosses(first, second) ==
    call' = [op |-> "crosses", first |-> first, second |-> second, out |-> Crosses(first, second)]

(* Access control lists with entries for one user and for everybody.       *)
User == "user"
ACL == UNION {[keys -> Levels] : keys \in SUBSET {User, DefaultKey}}

CallRedact(paths, role, level, policy) ==
    call' = [op |-> "redact", paths |-> paths, role |-> role, level |-> level, policy |-> policy,
          out |-> RedactDocument(paths, role, level, policy),
          hidden |-> collectHidden(paths, <<>>, role, level, policy)]

(* The three ways to ask whether a member is told of a token.              *)
CallSight(role, tokens, walls) ==
    LET blockers == BlockersOf(walls)
        points == ViewpointsOf(User, role, tokens)
        one == [u \in {User} |-> role]
    IN call' = [op |-> "sight", role |-> role, tokens |-> tokens, walls |-> walls,
             filter |-> {t \in DOMAIN tokens :
                User \in Filter({User}, one, tokens[t].pos, blockers, [u \in {User} |-> points])},
             visible |-> VisibleTokens(role, tokens, blockers, points),
             canSee |-> {t \in DOMAIN tokens : CanSee(role, tokens[t].pos, blockers, points)}]

CallRoll(tokens, source) ==
    call' = [op |-> "roll", tokens |-> tokens, source |-> source, out |-> Roll(tokens, source)]

Via(encoded, Decode(_)) == IF encoded.ok THEN Decode(encoded.frame) ELSE encoded
CallCodec(frame) ==
    call' = [op |-> "codec", frame |-> frame,
          proto |-> Via(toProto(frame), fromProto), json |-> Via(toJSON(frame), fromJSON)]

Token == {"t1", "t2"}
Docs == [pos : Spot \cup {Unreadable},
         acl : {acl \in ACL : Has(acl, DefaultKey) /\ acl[DefaultKey] = LevelObserver}]
Wall == {w \in [segment : Barrier, blocksSight : BOOLEAN, door : BOOLEAN, open : BOOLEAN] :
           w.open => w.door}
Walls == {{}} \cup {{v, w} : v, w \in Wall}
SeqOf(S, n) == UNION {[1..m -> S] : m \in 0..n}
SignToken == [kind : {"sign"}, sign : Sign]
Expression == {tokens \in SeqOf(SignToken \cup Piece, MaxTokens) :
                 \A i \in 1..Len(tokens) - 1 : "sign" \in {tokens[i].kind, tokens[i + 1].kind}}
Frames == UNION {[lane : {0, 2, 255}, type : {type},
                  body : {NoBody} \cup [Fields[type] -> {Zero, 1}]] : type \in FrameType}
PrefixClosed(paths) == \A p \in paths : Len(p) > 1 => SubSeq(p, 1, Len(p) - 1) \in paths
Trees == {paths \in SUBSET Path : PrefixClosed(paths)}
LevelsOf(role) ==
    IF IsStaff(role) THEN {LevelOwner}
    ELSE IF role = "observer" THEN 0..LevelObserver ELSE Levels

Next ==
    /\ call = Idle
    /\ \/ \E first, second \in Grid \X Grid : CallCrosses(first, second)
       \/ \E paths \in Trees, role \in Roles, policy \in [Path -> Visibilities] :
              \E level \in LevelsOf(role) : CallRedact(paths, role, level, policy)
       \/ \E role \in Roles, tokens \in [Token -> Docs], walls \in Walls :
              CallSight(role, tokens, walls)
       \/ \E tokens \in Expression, source \in [1..MaxDice -> 1..MaxFaces] : CallRoll(tokens, source)
       \/ \E frame \in Frames : CallCodec(frame)

Spec == Init /\ [][Next]_call
-----------------------------------------------------------------------------
(* Two segments with integer ends have a point in common: where they are   *)
(* not parallel it divides each in parts of their cross product, and where *)
(* they are it can be taken to be a point of the grid.                     *)
Cross(u, v) == u[1] * v[2] - u[2] * v[1]
Minus(p, q) == <<p[1] - q[1], p[2] - q[2]>>
Dot(u, v) == u[1] * v[1] + u[2] * v[2]
On(p, s) ==
    /\ Cross(Minus(p, s[1]), Minus(p, s[2])) = 0
    /\ Dot(Minus(p, s[1]), Minus(p, s[2])) <= 0
HaveCommonPoint(first, second) ==
    LET u == Minus(first[2], first[1])
        v == Minus(second[2], second[1])
        d == IF Cross(u, v) < 0 THEN -Cross(u, v) ELSE Cross(u, v)
    IN IF d = 0 THEN \E p \in Grid : On(p, first) /\ On(p, second)
       ELSE \E i, j \in 0..d : \A c \in 1..2 :
                d * first[1][c] + i * u[c] = d * second[1][c] + j * v[c]

(* Sight is blocked exactly by what it meets, however the two lie: Crosses *)
(* finds a common point of two segments whenever there is one.             *)
CrossesFindsCommonPoint ==
    call.op = "crosses" => (call.out <=> HaveCommonPoint(call.first, call.second))

(* README.md:253 "Redaction removes paths rather than nulling them, so     *)
(* absence is indistinguishable from non-existence": what is shown is what *)
(* would be shown of a document without the hidden paths and all below     *)
(* them, and nothing else is left out above "limited".                     *)
Below(p, hidden) == \E h \in hidden : Len(h) <= Len(p) /\ SubSeq(p, 1, Len(h)) = h
HiddenIsAbsent ==
    call.op = "redact" =>
        LET rest == {p \in call.paths : ~Below(p, call.hidden)}
        IN /\ call.out = RedactDocument(rest, call.role, call.level, call.policy)
           /\ call.out.data = IF call.level > LevelLimited THEN rest ELSE {}
           /\ \A p \in call.out.data : \A n \in 1..Len(p) :
                 call.policy[SubSeq(p, 1, n)] # "gm" \/ IsStaff(call.role)

(* sight.go:177 "CanSee answers for one token what Filter asks per         *)
(* recipient and VisibleTokens asks per token": live frames, listings and  *)
(* catch-up answer alike about every token whose position decodes.         *)
Readable(t) == call.tokens[t].pos # Unreadable
PathsAgree ==
    call.op = "sight" =>
        \A t \in Token : Readable(t) =>
            (t \in call.filter <=> t \in call.canSee) /\ (t \in call.visible <=> t \in call.canSee)

(* What dice can yield when n of them are kept, what a piece is worth,     *)
(* where the pieces of an expression stand and what each adds to the sum.  *)
Yields(dice, n) == {SumOver(dice, S, Len(dice)) : S \in {S \in SUBSET (1..Len(dice)) : Cardinality(S) = n}}
Extreme(S, most) == CHOOSE n \in S : \A m \in S : IF most THEN m <= n ELSE n <= m
Worth(piece, dice) ==
    IF piece.kind = "constant" THEN piece.value
    ELSE LET k == Least(piece.amount, Len(dice))
         IN CASE piece.mode = "" -> SumOver(dice, 1..Len(dice), Len(dice))
              [] piece.mode \in {"kh", "kl"} -> Extreme(Yields(dice, k), piece.mode = "kh")
              [] OTHER -> Extreme(Yields(dice, Len(dice) - k), piece.mode = "dl")
Count(piece) == IF piece.kind = "dice" THEN piece.count ELSE 0
Sound(piece) ==
    \/ piece.kind = "constant"
    \/ piece.kind = "dice" /\ piece.faces \in 2..MaxFaces /\ piece.count >= 1
First(tokens) == IF Len(tokens) > 0 /\ tokens[1].kind = "sign" THEN 2 ELSE 1
Places(tokens) == {i \in First(tokens)..Len(tokens) : (i - First(tokens)) % 2 = 0}
DiceUpTo(tokens, n) == SumOver([i \in Places(tokens) |-> Count(tokens[i])], Places(tokens), n)
Formed(tokens) ==
    /\ Len(tokens) >= First(tokens) /\ Len(tokens) \in Places(tokens)
    /\ \A i \in First(tokens)..Len(tokens) : i \in Places(tokens) <=> tokens[i].kind # "sign"
    /\ \A i \in Places(tokens) : Sound(tokens[i])
    /\ DiceUpTo(tokens, Len(tokens)) <= MaxDice
Term(tokens, source, i) ==
    LET n == DiceUpTo(tokens, i - 1)
    IN (IF i > 1 /\ tokens[i - 1].sign = "-" THEN -1 ELSE 1)
       * Worth(tokens[i], SubSeq(source, n + 1, n + Count(tokens[i])))

(* A roll succeeds exactly on signs and sound pieces that alternate, with  *)
(* no more dice than the budget of the whole expression, and adds up the   *)
(* pieces: what it keeps of its dice is the most, or the least, they can   *)
(* yield.                                                                  *)
RollAddsUp ==
    call.op = "roll" =>
        LET tokens == call.tokens
        IN /\ call.out.ok <=> Formed(tokens)
           /\ Formed(tokens) =>
                 call.out.total = SumOver([i \in Places(tokens) |-> Term(tokens, call.source, i)],
                                          Places(tokens), Len(tokens))

(* README.md:281 "a contract test asserts they decode to the same frame    *)
(* for every frame type": so they do whenever a frame has its body; a ping *)
(* without one gains an empty one as Protobuf, and other frames without a  *)
(* body only JSON lets through.                                            *)
CodecsAgree ==
    call.op = "codec" =>
        LET frame == call.frame
            empty == [frame EXCEPT !.body = [f \in Fields[frame.type] |-> Zero]]
        IN /\ call.json = Accepted(frame)
           /\ call.proto =
                IF frame.body # NoBody THEN Accepted(frame)
                ELSE IF frame.type \in {"ping", "pong"} THEN Accepted(empty) ELSE Refusal
=============================================================================
