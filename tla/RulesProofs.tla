---------------------------- MODULE RulesProofs -----------------------------
(***************************************************************************)
(* Proofs about the pure functions: that they compute what they are meant  *)
(* to for all segments with integer ends, all walls and tokens, documents  *)
(* of any depth with any policy and frames with any fields.                *)
(***************************************************************************)
EXTENDS Rules, SequenceTheorems, FiniteSetTheorems, TLAPS

(* The next call is one of five.                                           *)
LEMMA NextCalls ==
  ASSUME Next
  PROVE  \/ \E first, second \in Grid \X Grid : CallCrosses(first, second)
         \/ \E paths \in Trees, role \in Roles, policy \in [Path -> Visibilities] :
                \E level \in LevelsOf(role) : CallRedact(paths, role, level, policy)
         \/ \E role \in Roles, tokens \in [Token -> Docs], walls \in Walls :
                CallSight(role, tokens, walls)
         \/ \E tokens \in Expression, source \in [1..MaxDice -> 1..MaxFaces] : CallRoll(tokens, source)
         \/ \E frame \in Frames : CallCodec(frame)
BY Zenon DEF Next

(* What a call is about.                                                   *)
LEMMA CallIs ==
  /\ \A first, second : CallCrosses(first, second) => call'.op = "crosses"
  /\ \A paths, role, level, policy : CallRedact(paths, role, level, policy) => call'.op = "redact"
  /\ \A role, tokens, walls : CallSight(role, tokens, walls) => call'.op = "sight"
  /\ \A tokens, source : CallRoll(tokens, source) => call'.op = "roll"
  /\ \A frame : CallCodec(frame) => call'.op = "codec"
  /\ call = Idle => call.op = "idle"
BY DEF CallCrosses, CallRedact, CallSight, CallRoll, CallCodec, Idle

(* A set of numbers that is not empty has a least element: the intervals   *)
(* from 0 to its elements are finite sets, and inclusion of these is well- *)
(* founded.                                                                *)
LEMMA Smallest == ASSUME NEW S \in SUBSET Nat, S # {} PROVE \E m \in S : \A k \in S : m <= k
<1> DEFINE T == {0..n : n \in S}
<1>1. IsWellFoundedOn(StrictSubsetOrdering(Nat), FiniteSubsetsOf(Nat))
  BY FS_StrictSubsetOrderingWellFounded, Zenon
<1>2. \A n \in S : 0..n \in FiniteSubsetsOf(Nat)
  <2> TAKE n \in S
  <2>1. IsFiniteSet(0..n)
    BY FS_Interval
  <2>2. 0..n \in SUBSET Nat
    OBVIOUS
  <2> QED BY <2>1, <2>2, Zenon DEF FiniteSubsetsOf
<1>3. T \subseteq FiniteSubsetsOf(Nat) /\ T # {}
  BY <1>2, Zenon
<1>4. PICK x \in T : \A y \in T : ~ (<<y, x>> \in StrictSubsetOrdering(Nat))
  BY <1>1, <1>3, WFMin, Zenon
<1>5. PICK m \in S : x = 0..m
  BY <1>4, Zenon
<1>6. ASSUME NEW k \in S, k < m PROVE FALSE
  <2>1. 0..k \subseteq 0..m /\ 0..k # 0..m
    <3>1. m \in 0..m /\ m \notin 0..k
      BY <1>6
    <3> QED BY <3>1, <1>6
  <2>2. 0..k \in SUBSET Nat /\ 0..m \in SUBSET Nat
    OBVIOUS
  <2>3. <<0..k, 0..m>> \in StrictSubsetOrdering(Nat)
    BY <2>1, <2>2 DEF StrictSubsetOrdering
  <2> QED BY <2>3, <1>4, <1>5, Zenon
<1> QED BY <1>6

(* Induction: what holds of 0 and, with a number, of the next, holds of    *)
(* all.                                                                    *)
LEMMA Upward ==
    ASSUME NEW S, 0 \in S, \A n \in Nat : n \in S => n + 1 \in S
    PROVE  Nat \subseteq S
<1> SUFFICES ASSUME NEW n \in Nat, n \notin S PROVE FALSE
  OBVIOUS
<1> DEFINE T == {k \in Nat : k \notin S}
<1>1. T \in SUBSET Nat /\ T # {}
  OBVIOUS
<1> HIDE DEF T
<1>2. PICK m \in T : \A k \in T : m <= k
  BY <1>1, Smallest, Zenon
<1> USE DEF T
<1>3. m # 0 /\ m \in Nat
  BY <1>2
<1>4. m - 1 \in Nat /\ m - 1 \in S
  BY <1>2, <1>3
<1>5. (m - 1) + 1 \in S
  BY <1>4
<1> QED BY <1>5, <1>2, <1>3
-----------------------------------------------------------------------------
(* Line of sight (Vision, Sight).                                          *)

(* The coordinates of points and the ends of segments.                     *)
LEMMA Coordinates ==
  /\ \A p \in Point : p[1] \in Int /\ p[2] \in Int
  /\ \A s \in Segment : s[1] \in Point /\ s[2] \in Point
BY DEF Point, Segment

(* Turning a line around turns the sign of an orientation.                 *)
LEMMA OrientationTurns ==
  ASSUME NEW a \in Point, NEW b \in Point, NEW c \in Point
  PROVE  /\ orientation(a, b, c) \in Int
         /\ orientation(b, a, c) = -orientation(a, b, c)
         /\ orientation(a, a, c) = 0 /\ orientation(a, b, a) = 0 /\ orientation(a, b, b) = 0
<1>1. a[1] \in Int /\ a[2] \in Int /\ b[1] \in Int /\ b[2] \in Int /\ c[1] \in Int /\ c[2] \in Int
  BY Coordinates
<1> DEFINE x == b[1] - a[1]
           y == b[2] - a[2]
           v == c[1] - a[1]
           w == c[2] - a[2]
<1>2. orientation(a, b, c) = x * w - y * v
  BY DEF orientation
<1>3. orientation(b, a, c) = (-x) * (w - y) - (-y) * (v - x)
  BY <1>1 DEF orientation
<1>4. x \in Int /\ y \in Int /\ v \in Int /\ w \in Int
  BY <1>1
<1> HIDE DEF x, y, v, w
<1>5. orientation(a, b, c) \in Int
  BY <1>2, <1>4
<1>6. (-x) * (w - y) - (-y) * (v - x) = -(x * w - y * v)
  BY <1>4
<1>7. orientation(a, a, c) = 0 /\ orientation(a, b, a) = 0 /\ orientation(a, b, b) = 0
  BY <1>1 DEF orientation
<1> QED BY <1>2, <1>3, <1>5, <1>6, <1>7

(* A point lies on a segment.                                              *)
LiesOn(p, s) == orientation(s[1], s[2], p) = 0 /\ onSegment(s[1], s[2], p)

(* It makes no difference to Crosses at which end a segment begins.        *)
LEMMA CrossesTurned ==
  ASSUME NEW p \in Point, NEW q \in Point, NEW s \in Segment
  PROVE  Crosses(<<p, q>>, s) <=> Crosses(<<q, p>>, s)
<1>1. s[1] \in Point /\ s[2] \in Point
  BY Coordinates
<1>2. /\ p[1] \in Int /\ p[2] \in Int /\ q[1] \in Int /\ q[2] \in Int
      /\ s[1][1] \in Int /\ s[1][2] \in Int /\ s[2][1] \in Int /\ s[2][2] \in Int
  BY <1>1, Coordinates
<1>3. /\ orientation(q, p, s[1]) = -orientation(p, q, s[1])
      /\ orientation(q, p, s[2]) = -orientation(p, q, s[2])
      /\ orientation(p, q, s[1]) \in Int /\ orientation(p, q, s[2]) \in Int
      /\ orientation(s[1], s[2], p) \in Int /\ orientation(s[1], s[2], q) \in Int
  BY <1>1, OrientationTurns
<1>4. \A c \in Point : onSegment(p, q, c) <=> onSegment(q, p, c)
  BY <1>2, Coordinates DEF onSegment, Least, Greatest
<1>5. /\ onSegment(p, q, s[1]) <=> onSegment(q, p, s[1])
      /\ onSegment(p, q, s[2]) <=> onSegment(q, p, s[2])
  BY <1>1, <1>4
<1> QED BY <1>3, <1>5 DEF Crosses, Opposite

(* Sight is mutual: who sees a point is seen from there (Visible).         *)
THEOREM SightIsMutual ==
  ASSUME NEW p \in Point, NEW q \in Point, NEW blockers \in SUBSET Segment
  PROVE  Visible(p, q, blockers) <=> Visible(q, p, blockers)
BY CrossesTurned DEF Visible

(* A segment that shrinks to a point meets what that point lies on, and    *)
(* no segment that ends on a wall misses it.                               *)
LEMMA CrossesAtPoint ==
  ASSUME NEW p \in Point, NEW s \in Segment
  PROVE  /\ Crosses(<<p, p>>, s) <=> LiesOn(p, s)
         /\ \A v \in Point : LiesOn(p, s) => Crosses(<<v, p>>, s)
<1>1. s[1] \in Point /\ s[2] \in Point
  BY Coordinates
<1>2. /\ p[1] \in Int /\ p[2] \in Int
      /\ s[1][1] \in Int /\ s[1][2] \in Int /\ s[2][1] \in Int /\ s[2][2] \in Int
  BY <1>1, Coordinates
<1>3. orientation(p, p, s[1]) = 0 /\ orientation(p, p, s[2]) = 0
      /\ orientation(s[1], s[2], s[1]) = 0 /\ orientation(s[1], s[2], s[2]) = 0
  BY <1>1, OrientationTurns
<1>4. ASSUME NEW i \in {1, 2}, onSegment(p, p, s[i]) PROVE LiesOn(p, s)
  <2>1. p[1] = s[i][1] /\ p[2] = s[i][2]
    BY <1>2, <1>4 DEF onSegment, Least, Greatest
  <2>2. onSegment(s[1], s[2], p)
    BY <1>2, <2>1 DEF onSegment, Least, Greatest
  <2>3. orientation(s[1], s[2], p) = orientation(s[1], s[2], s[i])
    BY <2>1 DEF orientation
  <2> QED BY <1>3, <2>2, <2>3 DEF LiesOn
<1>5. Crosses(<<p, p>>, s) => LiesOn(p, s)
  BY <1>3, <1>4 DEF Crosses, Opposite, LiesOn
<1>6. \A v \in Point : LiesOn(p, s) => Crosses(<<v, p>>, s)
  BY DEF Crosses, LiesOn
<1> QED BY <1>5, <1>6

-----------------------------------------------------------------------------
(* Two segments have a point in common: the one i/d of the way along the   *)
(* first is the one j/d of the way along the second.  Segments with        *)
(* integer ends that have a point in common have one with such parts.      *)
SamePoint(first, second, d, i, j) ==
    \A c \in {1, 2} :
        (d - i) * first[1][c] + i * first[2][c] = (d - j) * second[1][c] + j * second[2][c]
Meet(first, second) == \E d \in Nat \ {0} : \E i, j \in 0..d : SamePoint(first, second, d, i, j)

(* A number lies between zero and another.                                 *)
Between(w, u) == (0 <= w /\ w <= u) \/ (u <= w /\ w <= 0)

(* A part of a whole lies between zero and the whole.                      *)
LEMMA PartIsBetween ==
  ASSUME NEW d \in Nat \ {0}, NEW i \in 0..d, NEW u \in Int, NEW w \in Int, d * w = i * u
  PROVE  Between(w, u)
<1>1. CASE u >= 0
  <2>1. 0 <= i * u /\ i * u <= d * u
    BY <1>1
  <2>2. 0 <= d * w /\ 0 <= d * (u - w)
    BY <2>1
  <2>3. 0 <= w /\ 0 <= u - w
    BY <2>2
  <2> QED BY <2>3 DEF Between
<1>2. CASE u < 0
  <2>1. 0 >= i * u /\ i * u >= d * u
    BY <1>2
  <2>2. 0 >= d * w /\ 0 >= d * (u - w)
    BY <2>1
  <2>3. 0 >= w /\ 0 >= u - w
    BY <2>2
  <2> QED BY <2>3 DEF Between
<1> QED BY <1>1, <1>2

(* What is true of multiples is true of what they are multiples of.        *)
LEMMA BetweenMultiples ==
  ASSUME NEW d \in Nat \ {0}, NEW u \in Int, NEW w \in Int, Between(d * w, d * u)
  PROVE  Between(w, u)
<1>1. CASE 0 <= d * w /\ d * w <= d * u
  <2>1. 0 <= d * w /\ 0 <= d * (u - w)
    BY <1>1
  <2>2. 0 <= w /\ 0 <= u - w
    BY <2>1
  <2> QED BY <2>2 DEF Between
<1>2. CASE d * u <= d * w /\ d * w <= 0
  <2>1. 0 >= d * w /\ 0 >= d * (u - w)
    BY <1>2
  <2>2. 0 >= w /\ 0 >= u - w
    BY <2>1
  <2> QED BY <2>2 DEF Between
<1> QED BY <1>1, <1>2 DEF Between

(* Of two intervals with a point in common, an end of one is in the other. *)
LEMMA Overlap ==
  ASSUME NEW d \in Nat \ {0}, NEW i \in 0..d, NEW j \in 0..d,
         NEW u \in Int, NEW v \in Int, NEW w \in Int, i * u = d * w + j * v
  PROVE  Between(w, u) \/ Between(w + v, u) \/ Between(-w, v)
<1>1. PICK m \in Int : m = i * u
  OBVIOUS
<1>2. PICK X \in Int, V \in Int, W \in Int, n \in Int :
         X = d * u /\ V = d * v /\ W = d * w /\ n = j * v
  OBVIOUS
<1>3. m = W + n
  BY <1>1, <1>2
<1>4. Between(m, X)
  <2>1. CASE u >= 0
    BY <1>1, <1>2, <2>1 DEF Between
  <2>2. CASE u < 0
    BY <1>1, <1>2, <2>2 DEF Between
  <2> QED BY <2>1, <2>2
<1>5. Between(n, V)
  <2>1. CASE v >= 0
    BY <1>2, <2>1 DEF Between
  <2>2. CASE v < 0
    BY <1>2, <2>2 DEF Between
  <2> QED BY <2>1, <2>2
<1>6. Between(W, X) \/ Between(W + V, X) \/ Between(-W, V)
  BY <1>3, <1>4, <1>5 DEF Between
<1>7. W + V = d * (w + v) /\ -W = d * (-w)
  BY <1>2
<1>8. Between(d * w, d * u) \/ Between(d * (w + v), d * u) \/ Between(d * (-w), d * v)
  BY <1>2, <1>6, <1>7, ZenonT(30)
<1>9. w + v \in Int /\ -w \in Int
  OBVIOUS
<1> QED BY <1>8, <1>9, BetweenMultiples, Zenon

(* On a line that is not upright, what is between in one coordinate is     *)
(* between in the other.                                                   *)
LEMMA BetweenOnLine ==
  ASSUME NEW ux \in Int, NEW uy \in Int, NEW wx \in Int, NEW wy \in Int,
         ux * wy = uy * wx, ux # 0, Between(wx, ux)
  PROVE  Between(wy, uy)
<1>1. CASE ux > 0
  <2>1. ux \in Nat \ {0} /\ wx \in 0..ux
    BY <1>1 DEF Between
  <2>2. ux * wy = wx * uy
    OBVIOUS
  <2> QED BY <2>1, <2>2, PartIsBetween, Zenon
<1>2. CASE ux < 0
  <2>1. -ux \in Nat \ {0} /\ -wx \in 0..(-ux)
    BY <1>2 DEF Between
  <2>2. (-ux) * wy = (-wx) * uy
    OBVIOUS
  <2> QED BY <2>1, <2>2, PartIsBetween, Zenon
<1> QED BY <1>1, <1>2

(* Two vectors lie on a line, and one is a part of the other.              *)
Parallel(ux, uy, wx, wy) == ux * wy = uy * wx
Part(ux, uy, wx, wy) ==
    \E d \in Nat \ {0} : \E i \in 0..d : d * wx = i * ux /\ d * wy = i * uy

(* A vector that lies between zero and another on their line is a part.    *)
LEMMA BetweenIsPart ==
  ASSUME NEW ux \in Int, NEW uy \in Int, NEW wx \in Int, NEW wy \in Int,
         Parallel(ux, uy, wx, wy), Between(wx, ux), Between(wy, uy)
  PROVE  Part(ux, uy, wx, wy)
<1> USE DEF Part, Parallel
<1>1. CASE ux > 0
  <2>1. ux \in Nat \ {0} /\ wx \in 0..ux
    BY <1>1 DEF Between
  <2>2. ux * wx = wx * ux /\ ux * wy = wx * uy
    OBVIOUS
  <2> QED BY <2>1, <2>2
<1>2. CASE ux < 0
  <2>1. -ux \in Nat \ {0} /\ -wx \in 0..(-ux)
    BY <1>2 DEF Between
  <2>2. (-ux) * wx = (-wx) * ux /\ (-ux) * wy = (-wx) * uy
    OBVIOUS
  <2> QED BY <2>1, <2>2, Zenon
<1>3. CASE ux = 0
  <2>1. wx = 0
    BY <1>3 DEF Between
  <2>2. CASE uy > 0
    <3>1. uy \in Nat \ {0} /\ wy \in 0..uy
      BY <2>2 DEF Between
    <3>2. uy * wx = wy * ux /\ uy * wy = wy * uy
      BY <1>3, <2>1
    <3> QED BY <3>1, <3>2
  <2>3. CASE uy < 0
    <3>1. -uy \in Nat \ {0} /\ -wy \in 0..(-uy)
      BY <2>3 DEF Between
    <3>2. (-uy) * wx = (-wy) * ux /\ (-uy) * wy = (-wy) * uy
      BY <1>3, <2>1
    <3> QED BY <3>1, <3>2, Zenon
  <2>4. CASE uy = 0
    <3>1. wy = 0
      BY <2>4 DEF Between
    <3>2. 1 \in Nat \ {0} /\ 0 \in 0..1 /\ 1 * wx = 0 * ux /\ 1 * wy = 0 * uy
      BY <1>3, <2>1, <2>4, <3>1
    <3> QED BY <3>2, Zenon
  <2> QED BY <2>2, <2>3, <2>4
<1> QED BY <1>1, <1>2, <1>3

(* Crosses in terms of vectors: the first segment is u, the second is v    *)
(* and begins at w.                                                        *)
Incident(ux, uy, vx, vy, wx, wy) ==
    LET d1 == ux * wy - uy * wx
        d3 == vy * wx - vx * wy
        turn == ux * vy - uy * vx
    IN \/ Opposite(d1, d1 + turn) /\ Opposite(d3, d3 - turn)
       \/ d1 = 0 /\ Between(wx, ux) /\ Between(wy, uy)
       \/ d1 + turn = 0 /\ Between(wx + vx, ux) /\ Between(wy + vy, uy)
       \/ d3 = 0 /\ Between(-wx, vx) /\ Between(-wy, vy)
       \/ d3 - turn = 0 /\ Between(ux - wx, vx) /\ Between(uy - wy, vy)

(* The point i/d of the way along u is the one j/d of the way along v.     *)
Common(ux, uy, vx, vy, wx, wy, d, i, j) == i * ux = d * wx + j * vx /\ i * uy = d * wy + j * vy

(* Parallel segments with a point in common: an end of one is on the       *)
(* other.                                                                  *)
LEMMA ParallelMeeting ==
  ASSUME NEW ux \in Int, NEW uy \in Int, NEW vx \in Int, NEW vy \in Int,
         NEW wx \in Int, NEW wy \in Int, NEW d \in Nat \ {0}, NEW i \in 0..d, NEW j \in 0..d,
         Common(ux, uy, vx, vy, wx, wy, d, i, j), Parallel(ux, uy, wx, wy),
         Parallel(ux, uy, vx, vy), Parallel(vx, vy, wx, wy), ux # 0
  PROVE  \/ Between(wx, ux) /\ Between(wy, uy)
         \/ Between(wx + vx, ux) /\ Between(wy + vy, uy)
         \/ Between(-wx, vx) /\ Between(-wy, vy)
<1> USE DEF Common, Parallel
<1>1. wx + vx \in Int /\ wy + vy \in Int /\ -wx \in Int /\ -wy \in Int
  OBVIOUS
<1>2. Between(wx, ux) \/ Between(wx + vx, ux) \/ Between(-wx, vx)
  BY Overlap, Zenon
<1>3. CASE Between(wx, ux)
  BY <1>3, BetweenOnLine
<1>4. CASE Between(wx + vx, ux)
  <2>1. ux * (wy + vy) = uy * (wx + vx)
    OBVIOUS
  <2> QED BY <1>1, <1>4, <2>1, BetweenOnLine
<1>5. CASE Between(-wx, vx) /\ vx # 0
  <2>1. vx * (-wy) = vy * (-wx)
    OBVIOUS
  <2> QED BY <1>1, <1>5, <2>1, BetweenOnLine
<1>6. CASE Between(-wx, vx) /\ vx = 0
  <2>1. wx = 0
    BY <1>6 DEF Between
  <2>2. Between(wx, ux)
    BY <2>1 DEF Between
  <2> QED BY <1>3, <2>2
<1> QED BY <1>2, <1>3, <1>4, <1>5, <1>6

(* Segments that meet are incident.                                        *)
LEMMA MeetingIncident ==
  ASSUME NEW ux \in Int, NEW uy \in Int, NEW vx \in Int, NEW vy \in Int,
         NEW wx \in Int, NEW wy \in Int, NEW d \in Nat \ {0}, NEW i \in 0..d, NEW j \in 0..d,
         Common(ux, uy, vx, vy, wx, wy, d, i, j)
  PROVE  Incident(ux, uy, vx, vy, wx, wy)
<1>0. i * ux = d * wx + j * vx /\ i * uy = d * wy + j * vy
  BY DEF Common
<1>1. PICK d1 \in Int, d3 \in Int, turn \in Int :
         d1 = ux * wy - uy * wx /\ d3 = vy * wx - vx * wy /\ turn = ux * vy - uy * vx
  OBVIOUS
<1>2. d * d1 + j * turn = 0
  <2>1. uy * (i * ux) = uy * (d * wx + j * vx) /\ ux * (i * uy) = ux * (d * wy + j * vy)
    BY <1>0
  <2>2. uy * (i * ux) = ux * (i * uy)
    OBVIOUS
  <2>3. ux * (d * wy + j * vy) - uy * (d * wx + j * vx) = d * d1 + j * turn
    BY <1>1
  <2> QED BY <2>1, <2>2, <2>3
<1>3. i * turn = d * d3
  <2>1. vy * (i * ux) = vy * (d * wx + j * vx) /\ vx * (i * uy) = vx * (d * wy + j * vy)
    BY <1>0
  <2>2. vy * (d * wx + j * vx) - vx * (d * wy + j * vy) = d * d3
    BY <1>1
  <2>3. vy * (i * ux) - vx * (i * uy) = i * turn
    BY <1>1
  <2> QED BY <2>1, <2>2, <2>3
<1>4. d * (d1 + turn) = (d - j) * turn /\ d * (d3 - turn) = (i - d) * turn
  BY <1>2, <1>3
<1> SUFFICES \/ Opposite(d1, d1 + turn) /\ Opposite(d3, d3 - turn)
             \/ d1 = 0 /\ Between(wx, ux) /\ Between(wy, uy)
             \/ d1 + turn = 0 /\ Between(wx + vx, ux) /\ Between(wy + vy, uy)
             \/ d3 = 0 /\ Between(-wx, vx) /\ Between(-wy, vy)
             \/ d3 - turn = 0 /\ Between(ux - wx, vx) /\ Between(uy - wy, vy)
  BY <1>1 DEF Incident
<1>5. CASE i # 0 /\ i # d /\ j # 0 /\ j # d /\ turn # 0
  <2>1. CASE turn > 0
    <3>1. d * d1 < 0 /\ d * (d1 + turn) > 0 /\ d * d3 > 0 /\ d * (d3 - turn) < 0
      BY <1>2, <1>3, <1>4, <1>5, <2>1
    <3>2. d1 < 0 /\ d1 + turn > 0 /\ d3 > 0 /\ d3 - turn < 0
      BY <3>1
    <3> QED BY <3>2 DEF Opposite
  <2>2. CASE turn < 0
    <3>1. d * d1 > 0 /\ d * (d1 + turn) < 0 /\ d * d3 < 0 /\ d * (d3 - turn) > 0
      BY <1>2, <1>3, <1>4, <1>5, <2>2
    <3>2. d1 > 0 /\ d1 + turn < 0 /\ d3 < 0 /\ d3 - turn > 0
      BY <3>1
    <3> QED BY <3>2 DEF Opposite
  <2> QED BY <1>5, <2>1, <2>2
<1>6. CASE j = 0
  <2>1. d * wx = i * ux /\ d * wy = i * uy /\ d * d1 = 0
    BY <1>0, <1>2, <1>6
  <2>2. d1 = 0
    BY <2>1
  <2> QED BY <2>1, <2>2, PartIsBetween, Zenon
<1>7. CASE j = d
  <2>1. d * (wx + vx) = i * ux /\ d * (wy + vy) = i * uy /\ d * (d1 + turn) = 0
    BY <1>0, <1>4, <1>7
  <2>2. d1 + turn = 0 /\ wx + vx \in Int /\ wy + vy \in Int
    BY <2>1
  <2> QED BY <2>1, <2>2, PartIsBetween, Zenon
<1>8. CASE i = 0
  <2>1. d * (-wx) = j * vx /\ d * (-wy) = j * vy /\ d * d3 = 0
    BY <1>0, <1>3, <1>8
  <2>2. d3 = 0 /\ -wx \in Int /\ -wy \in Int
    BY <2>1
  <2> QED BY <2>1, <2>2, PartIsBetween, Zenon
<1>9. CASE i = d
  <2>1. d * (ux - wx) = j * vx /\ d * (uy - wy) = j * vy /\ d * (d3 - turn) = 0
    BY <1>0, <1>4, <1>9
  <2>2. d3 - turn = 0 /\ ux - wx \in Int /\ uy - wy \in Int
    BY <2>1
  <2> QED BY <2>1, <2>2, PartIsBetween, Zenon
<1>10. CASE turn = 0
  <2>1. d * d1 = 0 /\ d * d3 = 0
    BY <1>2, <1>3, <1>10
  <2>2. d1 = 0 /\ d3 = 0 /\ d1 + turn = 0
    BY <1>10, <2>1
  <2>3. Parallel(ux, uy, wx, wy) /\ Parallel(ux, uy, vx, vy) /\ Parallel(vx, vy, wx, wy)
    BY <1>1, <1>10, <2>2 DEF Parallel
  <2>4. CASE ux # 0
    <3>1. \/ Between(wx, ux) /\ Between(wy, uy)
          \/ Between(wx + vx, ux) /\ Between(wy + vy, uy)
          \/ Between(-wx, vx) /\ Between(-wy, vy)
      BY <2>3, <2>4, ParallelMeeting, ZenonT(30)
    <3> QED BY <2>2, <3>1
  <2>5. CASE uy # 0
    <3>1. Parallel(uy, ux, wy, wx) /\ Parallel(uy, ux, vy, vx) /\ Parallel(vy, vx, wy, wx)
      BY <2>3 DEF Parallel
    <3>0. Common(uy, ux, vy, vx, wy, wx, d, i, j)
      BY DEF Common
    <3>2. \/ Between(wy, uy) /\ Between(wx, ux)
          \/ Between(wy + vy, uy) /\ Between(wx + vx, ux)
          \/ Between(-wy, vy) /\ Between(-wx, vx)
      BY <2>5, <3>0, <3>1, ParallelMeeting, ZenonT(30)
    <3> QED BY <2>2, <3>2
  <2>6. CASE ux = 0 /\ uy = 0
    <3>1. d * (-wx) = j * vx /\ d * (-wy) = j * vy /\ -wx \in Int /\ -wy \in Int
      BY <1>0, <2>6
    <3> QED BY <2>2, <3>1, PartIsBetween, Zenon
  <2> QED BY <2>4, <2>5, <2>6
<1> QED BY <1>5, <1>6, <1>7, <1>8, <1>9, <1>10

(* Incident segments meet.                                                 *)
LEMMA IncidentMeet ==
  ASSUME NEW ux \in Int, NEW uy \in Int, NEW vx \in Int, NEW vy \in Int,
         NEW wx \in Int, NEW wy \in Int, Incident(ux, uy, vx, vy, wx, wy)
  PROVE  \E d \in Nat \ {0} : \E i, j \in 0..d :
            Common(ux, uy, vx, vy, wx, wy, d, i, j)
<1> USE DEF Common
<1>1. PICK d1 \in Int, d3 \in Int, turn \in Int :
         d1 = ux * wy - uy * wx /\ d3 = vy * wx - vx * wy /\ turn = ux * vy - uy * vx
  OBVIOUS
<1>2. \/ Opposite(d1, d1 + turn) /\ Opposite(d3, d3 - turn)
      \/ d1 = 0 /\ Between(wx, ux) /\ Between(wy, uy)
      \/ d1 + turn = 0 /\ Between(wx + vx, ux) /\ Between(wy + vy, uy)
      \/ d3 = 0 /\ Between(-wx, vx) /\ Between(-wy, vy)
      \/ d3 - turn = 0 /\ Between(ux - wx, vx) /\ Between(uy - wy, vy)
  BY <1>1 DEF Incident
<1>3. CASE Opposite(d1, d1 + turn) /\ Opposite(d3, d3 - turn)
  <2>1. d3 * ux = turn * wx - d1 * vx /\ d3 * uy = turn * wy - d1 * vy
    BY <1>1
  <2>2. CASE turn > 0
    <3>1. turn \in Nat \ {0} /\ d3 \in 0..turn /\ -d1 \in 0..turn
      BY <1>3, <2>2 DEF Opposite
    <3>2. d3 * ux = turn * wx + (-d1) * vx /\ d3 * uy = turn * wy + (-d1) * vy
      BY <2>1
    <3> QED BY <3>1, <3>2, Zenon
  <2>3. CASE turn < 0
    <3>1. -turn \in Nat \ {0} /\ -d3 \in 0..(-turn) /\ d1 \in 0..(-turn)
      BY <1>3, <2>3 DEF Opposite
    <3>2. (-d3) * ux = (-turn) * wx + d1 * vx /\ (-d3) * uy = (-turn) * wy + d1 * vy
      BY <2>1
    <3> QED BY <3>1, <3>2, Zenon
  <2>4. turn # 0
    BY <1>3 DEF Opposite
  <2> QED BY <2>2, <2>3, <2>4
<1>4. CASE d1 = 0 /\ Between(wx, ux) /\ Between(wy, uy)
  <2>1. wx \in Int /\ wy \in Int /\ Parallel(ux, uy, wx, wy)
    BY <1>1, <1>4 DEF Parallel
  <2>2. Part(ux, uy, wx, wy)
    BY <1>4, <2>1, BetweenIsPart, ZenonT(30)
  <2>3. PICK d \in Nat \ {0} : \E k \in 0..d : d * wx = k * ux /\ d * wy = k * uy
    BY <2>2 DEF Part
  <2>4. PICK k \in 0..d : d * wx = k * ux /\ d * wy = k * uy
    BY <2>3
  <2>5. 0 \in 0..d /\ Common(ux, uy, vx, vy, wx, wy, d, k, 0)
    BY <2>4
  <2> QED BY <2>5, Zenon
<1>5. CASE d1 + turn = 0 /\ Between(wx + vx, ux) /\ Between(wy + vy, uy)
  <2>1. wx + vx \in Int /\ wy + vy \in Int /\ Parallel(ux, uy, wx + vx, wy + vy)
    BY <1>1, <1>5 DEF Parallel
  <2>2. Part(ux, uy, wx + vx, wy + vy)
    BY <1>5, <2>1, BetweenIsPart, ZenonT(30)
  <2>3. PICK d \in Nat \ {0} : \E k \in 0..d : d * (wx + vx) = k * ux /\ d * (wy + vy) = k * uy
    BY <2>2, Zenon DEF Part
  <2>4. PICK k \in 0..d : d * (wx + vx) = k * ux /\ d * (wy + vy) = k * uy
    BY <2>3
  <2>5. d \in 0..d /\ Common(ux, uy, vx, vy, wx, wy, d, k, d)
    BY <2>4
  <2> QED BY <2>5, Zenon
<1>6. CASE d3 = 0 /\ Between(-wx, vx) /\ Between(-wy, vy)
  <2>1. -wx \in Int /\ -wy \in Int /\ Parallel(vx, vy, -wx, -wy)
    BY <1>1, <1>6 DEF Parallel
  <2>2. Part(vx, vy, -wx, -wy)
    BY <1>6, <2>1, BetweenIsPart, ZenonT(30)
  <2>3. PICK d \in Nat \ {0} : \E k \in 0..d : d * (-wx) = k * vx /\ d * (-wy) = k * vy
    BY <2>2, Zenon DEF Part
  <2>4. PICK k \in 0..d : d * (-wx) = k * vx /\ d * (-wy) = k * vy
    BY <2>3, Zenon
  <2>5. 0 \in 0..d /\ Common(ux, uy, vx, vy, wx, wy, d, 0, k)
    BY <2>4
  <2> QED BY <2>5, Zenon
<1>7. CASE d3 - turn = 0 /\ Between(ux - wx, vx) /\ Between(uy - wy, vy)
  <2>1. ux - wx \in Int /\ uy - wy \in Int /\ Parallel(vx, vy, ux - wx, uy - wy)
    BY <1>1, <1>7 DEF Parallel
  <2>2. Part(vx, vy, ux - wx, uy - wy)
    BY <1>7, <2>1, BetweenIsPart, ZenonT(30)
  <2>3. PICK d \in Nat \ {0} : \E k \in 0..d : d * (ux - wx) = k * vx /\ d * (uy - wy) = k * vy
    BY <2>2, Zenon DEF Part
  <2>4. PICK k \in 0..d : d * (ux - wx) = k * vx /\ d * (uy - wy) = k * vy
    BY <2>3, Zenon
  <2>5. d \in 0..d /\ Common(ux, uy, vx, vy, wx, wy, d, d, k)
    BY <2>4
  <2> QED BY <2>5, Zenon
<1> QED BY <1>2, <1>3, <1>4, <1>5, <1>6, <1>7

(* onSegment asks of each coordinate whether it is between.                *)
LEMMA BoxIsBetween ==
  ASSUME NEW a \in Point, NEW b \in Point, NEW c \in Point
  PROVE  onSegment(a, b, c) <=>
            Between(c[1] - a[1], b[1] - a[1]) /\ Between(c[2] - a[2], b[2] - a[2])
<1>1. ASSUME NEW k \in Int, NEW l \in Int, NEW m \in Int
      PROVE  m <= Greatest(k, l) /\ m >= Least(k, l) <=> Between(m - k, l - k)
  BY DEF Least, Greatest, Between
<1> QED BY <1>1, Coordinates, Zenon DEF onSegment

(* The vectors along two segments, and from the first to the second.       *)
Along(s, c) == s[2][c] - s[1][c]
Apart(first, second, c) == second[1][c] - first[1][c]

(* Crosses depends on these vectors alone.                                 *)
LEMMA CrossesIsIncident ==
  ASSUME NEW first \in Segment, NEW second \in Segment
  PROVE  Crosses(first, second) <=> Incident(Along(first, 1), Along(first, 2),
             Along(second, 1), Along(second, 2), Apart(first, second, 1), Apart(first, second, 2))
<1>1. first[1] \in Point /\ first[2] \in Point /\ second[1] \in Point /\ second[2] \in Point
  BY Coordinates
<1>2. /\ first[1][1] \in Int /\ first[1][2] \in Int /\ first[2][1] \in Int /\ first[2][2] \in Int
      /\ second[1][1] \in Int /\ second[1][2] \in Int
      /\ second[2][1] \in Int /\ second[2][2] \in Int
  BY <1>1, Coordinates
<1>3. PICK ux \in Int, uy \in Int : ux = first[2][1] - first[1][1] /\ uy = first[2][2] - first[1][2]
  BY <1>2
<1>4. PICK vx \in Int, vy \in Int :
         vx = second[2][1] - second[1][1] /\ vy = second[2][2] - second[1][2]
  BY <1>2
<1>5. PICK wx \in Int, wy \in Int :
         wx = second[1][1] - first[1][1] /\ wy = second[1][2] - first[1][2]
  BY <1>2
<1>6. PICK ax \in Int, ay \in Int : ax = first[1][1] /\ ay = first[1][2]
  BY <1>2
<1>7. /\ first[2][1] = ax + ux /\ first[2][2] = ay + uy
      /\ second[1][1] = ax + wx /\ second[1][2] = ay + wy
      /\ second[2][1] = ax + wx + vx /\ second[2][2] = ay + wy + vy
  BY <1>2, <1>3, <1>4, <1>5, <1>6
<1>8. /\ orientation(first[1], first[2], second[1]) = ux * wy - uy * wx
      /\ orientation(first[1], first[2], second[2]) = (ux * wy - uy * wx) + (ux * vy - uy * vx)
      /\ orientation(second[1], second[2], first[1]) = vy * wx - vx * wy
      /\ orientation(second[1], second[2], first[2]) = (vy * wx - vx * wy) - (ux * vy - uy * vx)
  <2>1. orientation(first[1], first[2], second[1]) = ux * wy - uy * wx
    BY <1>3, <1>5 DEF orientation
  <2>2. orientation(first[1], first[2], second[2]) = ux * (wy + vy) - uy * (wx + vx)
    BY <1>6, <1>7 DEF orientation
  <2>3. orientation(second[1], second[2], first[1]) = vx * (-wy) - vy * (-wx)
    BY <1>6, <1>7 DEF orientation
  <2>4. orientation(second[1], second[2], first[2]) = vx * (uy - wy) - vy * (ux - wx)
    <3>1. /\ second[2][1] - second[1][1] = vx /\ second[2][2] - second[1][2] = vy
          /\ first[2][1] - second[1][1] = ux - wx /\ first[2][2] - second[1][2] = uy - wy
      BY <1>6, <1>7
    <3> QED BY <3>1, ZenonT(30) DEF orientation
  <2>5. ux * (wy + vy) - uy * (wx + vx) = (ux * wy - uy * wx) + (ux * vy - uy * vx)
    OBVIOUS
  <2>6. vx * (-wy) - vy * (-wx) = vy * wx - vx * wy
    OBVIOUS
  <2>7. vx * (uy - wy) - vy * (ux - wx) = (vy * wx - vx * wy) - (ux * vy - uy * vx)
    OBVIOUS
  <2> QED BY <2>1, <2>2, <2>3, <2>4, <2>5, <2>6, <2>7
<1>9. /\ onSegment(first[1], first[2], second[1]) <=> Between(wx, ux) /\ Between(wy, uy)
      /\ onSegment(first[1], first[2], second[2]) <=> Between(wx + vx, ux) /\ Between(wy + vy, uy)
      /\ onSegment(second[1], second[2], first[1]) <=> Between(-wx, vx) /\ Between(-wy, vy)
      /\ onSegment(second[1], second[2], first[2]) <=> Between(ux - wx, vx) /\ Between(uy - wy, vy)
  <2>1. /\ second[1][1] - first[1][1] = wx /\ second[1][2] - first[1][2] = wy
        /\ second[2][1] - first[1][1] = wx + vx /\ second[2][2] - first[1][2] = wy + vy
        /\ first[1][1] - second[1][1] = -wx /\ first[1][2] - second[1][2] = -wy
        /\ first[2][1] - second[1][1] = ux - wx /\ first[2][2] - second[1][2] = uy - wy
    BY <1>6, <1>7
  <2>2. \A p, q, r \in Point :
           onSegment(p, q, r) <=>
              Between(r[1] - p[1], q[1] - p[1]) /\ Between(r[2] - p[2], q[2] - p[2])
    BY BoxIsBetween
  <2> QED BY <1>1, <1>3, <1>4, <2>1, <2>2, ZenonT(30)
<1>10. Crosses(first, second) <=> Incident(ux, uy, vx, vy, wx, wy)
  BY <1>8, <1>9 DEF Crosses, Incident
<1> QED BY <1>3, <1>4, <1>5, <1>10, Zenon DEF Along, Apart

(* So does whether they have a point in common.                            *)
LEMMA MeetIsCommon ==
  ASSUME NEW first \in Segment, NEW second \in Segment
  PROVE  Meet(first, second) <=> \E d \in Nat \ {0} : \E i, j \in 0..d :
            Common(Along(first, 1), Along(first, 2), Along(second, 1), Along(second, 2),
                   Apart(first, second, 1), Apart(first, second, 2), d, i, j)
<1>1. first[1] \in Point /\ first[2] \in Point /\ second[1] \in Point /\ second[2] \in Point
  BY Coordinates
<1>2. /\ first[1][1] \in Int /\ first[1][2] \in Int /\ first[2][1] \in Int /\ first[2][2] \in Int
      /\ second[1][1] \in Int /\ second[1][2] \in Int
      /\ second[2][1] \in Int /\ second[2][2] \in Int
  BY <1>1, Coordinates
<1>3. PICK ux \in Int, uy \in Int : ux = first[2][1] - first[1][1] /\ uy = first[2][2] - first[1][2]
  BY <1>2
<1>4. PICK vx \in Int, vy \in Int :
         vx = second[2][1] - second[1][1] /\ vy = second[2][2] - second[1][2]
  BY <1>2
<1>5. PICK wx \in Int, wy \in Int :
         wx = second[1][1] - first[1][1] /\ wy = second[1][2] - first[1][2]
  BY <1>2
<1>6. PICK ax \in Int, ay \in Int : ax = first[1][1] /\ ay = first[1][2]
  BY <1>2
<1>7. /\ first[2][1] = ax + ux /\ first[2][2] = ay + uy
      /\ second[1][1] = ax + wx /\ second[1][2] = ay + wy
      /\ second[2][1] = ax + wx + vx /\ second[2][2] = ay + wy + vy
  BY <1>2, <1>3, <1>4, <1>5, <1>6
<1>11. ASSUME NEW d \in Nat \ {0}, NEW i \in 0..d, NEW j \in 0..d
      PROVE  SamePoint(first, second, d, i, j) <=> Common(ux, uy, vx, vy, wx, wy, d, i, j)
  <2>1. ASSUME NEW a \in Int, NEW u \in Int, NEW v \in Int, NEW w \in Int
        PROVE  (d - i) * a + i * (a + u) = (d - j) * (a + w) + j * (a + w + v)
                  <=> i * u = d * w + j * v
    <3>1. (d - i) * a + i * (a + u) = d * a + i * u
      OBVIOUS
    <3>2. (d - j) * (a + w) + j * (a + w + v) = d * a + d * w + j * v
      OBVIOUS
    <3> QED BY <3>1, <3>2
  <2>2. /\ (d - i) * ax + i * (ax + ux) = (d - j) * (ax + wx) + j * (ax + wx + vx)
              <=> i * ux = d * wx + j * vx
        /\ (d - i) * ay + i * (ay + uy) = (d - j) * (ay + wy) + j * (ay + wy + vy)
              <=> i * uy = d * wy + j * vy
    BY <2>1
  <2>3. 1 \in {1, 2} /\ 2 \in {1, 2} /\ \A c \in {1, 2} : c = 1 \/ c = 2
    OBVIOUS
  <2> QED BY <1>6, <1>7, <2>2, <2>3, ZenonT(30) DEF Common, SamePoint
<1>12. Meet(first, second) <=> \E d \in Nat \ {0} : \E i, j \in 0..d :
                                 Common(ux, uy, vx, vy, wx, wy, d, i, j)
  BY <1>11, ZenonT(30) DEF Meet
<1> QED BY <1>3, <1>4, <1>5, <1>12, ZenonT(30) DEF Along, Apart

(* The vectors have integer coordinates.                                   *)
LEMMA AlongType ==
  ASSUME NEW first \in Segment, NEW second \in Segment
  PROVE  /\ Along(first, 1) \in Int /\ Along(first, 2) \in Int
         /\ Along(second, 1) \in Int /\ Along(second, 2) \in Int
         /\ Apart(first, second, 1) \in Int /\ Apart(first, second, 2) \in Int
<1>1. first[1] \in Point /\ first[2] \in Point /\ second[1] \in Point /\ second[2] \in Point
  BY Coordinates
<1> QED BY <1>1, Coordinates DEF Along, Apart

(* Crosses is right about all segments with integer ends, however they lie:*)
(* it says yes exactly when they have a point in common.                   *)
THEOREM CrossesIsMeeting ==
  ASSUME NEW first \in Segment, NEW second \in Segment
  PROVE  Crosses(first, second) <=> Meet(first, second)
<1>1. PICK ux \in Int, uy \in Int : ux = Along(first, 1) /\ uy = Along(first, 2)
  BY AlongType
<1>2. PICK vx \in Int, vy \in Int : vx = Along(second, 1) /\ vy = Along(second, 2)
  BY AlongType
<1>3. PICK wx \in Int, wy \in Int : wx = Apart(first, second, 1) /\ wy = Apart(first, second, 2)
  BY AlongType
<1>4. Crosses(first, second) <=> Incident(ux, uy, vx, vy, wx, wy)
  BY <1>1, <1>2, <1>3, CrossesIsIncident
<1>5. Meet(first, second) <=> \E d \in Nat \ {0} : \E i, j \in 0..d :
                                Common(ux, uy, vx, vy, wx, wy, d, i, j)
  BY <1>1, <1>2, <1>3, MeetIsCommon
<1>6. Incident(ux, uy, vx, vy, wx, wy) <=> \E d \in Nat \ {0} : \E i, j \in 0..d :
                                          Common(ux, uy, vx, vy, wx, wy, d, i, j)
  BY MeetingIncident, IncidentMeet, ZenonT(30)
<1> QED BY <1>4, <1>5, <1>6

(* Line of sight is what it should be: a point is visible from another     *)
(* exactly when nothing that blocks sight has a point in common with the   *)
(* line between them, its ends included (Visible).                         *)
THEOREM VisibleIsUnobstructed ==
  ASSUME NEW from \in Point, NEW to \in Point, NEW blockers \in SUBSET Segment
  PROVE  Visible(from, to, blockers) <=> \A b \in blockers : ~Meet(<<from, to>>, b)
<1>1. <<from, to>> \in Segment
  BY DEF Segment
<1> QED BY <1>1, CrossesIsMeeting DEF Visible
-----------------------------------------------------------------------------
(* Who owns a token sees where it stands, except when it stands on         *)
(* something that blocks sight; there nobody but staff sees it, and        *)
(* applyPatch, which has committed the owner's move, answers that it is    *)
(* forbidden (ViewpointsOf, CanSee).                                       *)
THEOREM OwnerSeesOwn ==
  ASSUME NEW role, ~IsStaff(role), NEW points \in SUBSET Point, NEW pos \in points,
         pos # Unreadable, NEW blockers \in SUBSET Segment
  PROVE  CanSee(role, pos, blockers, points) <=> \A b \in blockers : ~LiesOn(pos, b)
<1>1. pos \in Point
  OBVIOUS
<1>2. ASSUME \A b \in blockers : ~LiesOn(pos, b) PROVE CanSee(role, pos, blockers, points)
  <2>1. Visible(pos, pos, blockers)
    BY <1>1, <1>2, CrossesAtPoint DEF Visible
  <2> QED BY <2>1 DEF CanSee, VisibleFromAny
<1>3. ASSUME NEW b \in blockers, LiesOn(pos, b) PROVE ~CanSee(role, pos, blockers, points)
  <2>1. \A v \in points : ~Visible(v, pos, blockers)
    BY <1>1, <1>3, CrossesAtPoint, Zenon DEF Visible
  <2> QED BY <1>3, <2>1 DEF CanSee, VisibleFromAny
<1> QED BY <1>2, <1>3

(* "CanSee answers for one token what Filter asks per recipient and        *)
(* VisibleTokens asks per token" (sight.go:177), for every token whose     *)
(* position decodes and every member, who then are told of the same tokens *)
(* by live frames, listings and catch-up.                                  *)
THEOREM SightPathsAgree ==
  ASSUME NEW views, NEW u \in views, NEW role, NEW tokens, NEW t \in DOMAIN tokens,
         tokens[t].pos # Unreadable, NEW blockers, NEW points
  PROVE  /\ u \in Filter(views, role, tokens[t].pos, blockers, points)
               <=> CanSee(role[u], tokens[t].pos, blockers, points[u])
         /\ t \in VisibleTokens(role[u], tokens, blockers, points[u])
               <=> CanSee(role[u], tokens[t].pos, blockers, points[u])
BY DEF Filter, CanSee, VisibleTokens, VisibleFromAny

(* Opening a door, or taking away a wall, hides nothing: with fewer        *)
(* blockers a member sees all they saw (handleDoorToggle, BlockersOf).     *)
THEOREM FewerBlockersHideNothing ==
  ASSUME NEW role, NEW pos, NEW points, NEW blockers, NEW fewer \in SUBSET blockers,
         CanSee(role, pos, blockers, points)
  PROVE  CanSee(role, pos, fewer, points)
BY DEF CanSee, VisibleFromAny, Visible

(* A coordinate lies between two others when the way from one and the way  *)
(* to the other do not have opposite signs.                                *)
LEMMA ProductIsBetween ==
  ASSUME NEW u \in Int, NEW w \in Int
  PROVE  w * (w - u) <= 0 <=> Between(w, u)
<1>1. CASE w > 0
  <2>1. w * (w - u) <= 0 <=> w - u <= 0
    BY <1>1
  <2> QED BY <1>1, <2>1 DEF Between
<1>2. CASE w < 0
  <2>1. w * (w - u) <= 0 <=> w - u >= 0
    BY <1>2
  <2> QED BY <1>2, <2>1 DEF Between
<1>3. CASE w = 0
  BY <1>3 DEF Between
<1> QED BY <1>1, <1>2, <1>3

(* On a line, a point whose ways to two others do not point the same way   *)
(* lies between them in both coordinates.                                  *)
LEMMA DotIsBetween ==
  ASSUME NEW ux \in Int, NEW uy \in Int, NEW wx \in Int, NEW wy \in Int,
         Parallel(ux, uy, wx, wy)
  PROVE  wx * (wx - ux) + wy * (wy - uy) <= 0 <=> Between(wx, ux) /\ Between(wy, uy)
<1>1. PICK s \in Int, t \in Int : s = wx * (wx - ux) /\ t = wy * (wy - uy)
  OBVIOUS
<1>2. (s <= 0 <=> Between(wx, ux)) /\ (t <= 0 <=> Between(wy, uy))
  BY <1>1, ProductIsBetween
<1>3. ux * wy = uy * wx
  BY DEF Parallel
<1>4. ASSUME s + t <= 0 PROVE s <= 0 /\ t <= 0
  <2>1. (ux * ux) * t = (uy * uy) * s
    <3>1. (ux * ux) * t = (ux * wy) * (ux * wy) - (ux * wy) * (ux * uy)
      BY <1>1
    <3>2. (uy * uy) * s = (uy * wx) * (uy * wx) - (uy * wx) * (ux * uy)
      BY <1>1
    <3> QED BY <1>3, <3>1, <3>2
  <2>2. PICK a \in Int, b \in Int : a = ux * ux /\ b = uy * uy
    OBVIOUS
  <2>3. a >= 0 /\ b >= 0 /\ (a = 0 => ux = 0) /\ (b = 0 => uy = 0)
    BY <2>2
  <2>4. CASE a > 0 /\ b > 0
    <3>1. a * t = b * s
      BY <2>1, <2>2
    <3>2. t > 0 => s > 0
      BY <2>4, <3>1
    <3>3. s > 0 => t > 0
      BY <2>4, <3>1
    <3> QED BY <1>4, <3>2, <3>3
  <2>5. CASE a > 0 /\ b = 0
    <3>1. a * t = 0
      BY <2>1, <2>2, <2>5
    <3>2. t = 0
      BY <2>5, <3>1
    <3> QED BY <1>4, <3>2
  <2>6. CASE a = 0 /\ b > 0
    <3>1. b * s = 0
      BY <2>1, <2>2, <2>6
    <3>2. s = 0
      BY <2>6, <3>1
    <3> QED BY <1>4, <3>2
  <2>7. CASE a = 0 /\ b = 0
    <3>1. s = wx * wx /\ t = wy * wy
      BY <1>1, <2>3, <2>7
    <3>2. s >= 0 /\ t >= 0
      BY <3>1
    <3> QED BY <1>4, <3>2
  <2> QED BY <2>3, <2>4, <2>5, <2>6, <2>7
<1> QED BY <1>1, <1>2, <1>4

(* A point is on a segment, as On says it with a product.                  *)
LEMMA OnIsLiesOn ==
  ASSUME NEW p \in Point, NEW s \in Segment
  PROVE  On(p, s) <=> LiesOn(p, s)
<1>1. s[1] \in Point /\ s[2] \in Point
  BY Coordinates
<1>2. PICK ax \in Int, ay \in Int : ax = s[1][1] /\ ay = s[1][2]
  BY <1>1, Coordinates
<1>3. PICK ux \in Int, uy \in Int : ux = s[2][1] - s[1][1] /\ uy = s[2][2] - s[1][2]
  BY <1>1, Coordinates
<1>4. PICK wx \in Int, wy \in Int : wx = p[1] - s[1][1] /\ wy = p[2] - s[1][2]
  BY <1>1, Coordinates
<1>5. p[1] - s[2][1] = wx - ux /\ p[2] - s[2][2] = wy - uy
  <2>1. s[2][1] \in Int /\ s[2][2] \in Int /\ p[1] \in Int /\ p[2] \in Int
    BY <1>1, Coordinates
  <2> QED BY <1>2, <1>3, <1>4, <2>1
<1>6. Minus(p, s[1]) = <<wx, wy>> /\ Minus(p, s[2]) = <<wx - ux, wy - uy>>
  BY <1>4, <1>5, Zenon DEF Minus
<1>7. Cross(<<wx, wy>>, <<wx - ux, wy - uy>>) = wx * (wy - uy) - wy * (wx - ux)
  BY DEF Cross
<1>8. Dot(<<wx, wy>>, <<wx - ux, wy - uy>>) = wx * (wx - ux) + wy * (wy - uy)
  BY DEF Dot
<1>9. wx * (wy - uy) - wy * (wx - ux) = ux * wy - uy * wx
  OBVIOUS
<1>10. orientation(s[1], s[2], p) = ux * wy - uy * wx
  BY <1>3, <1>4, Zenon DEF orientation
<1>11. onSegment(s[1], s[2], p) <=> Between(wx, ux) /\ Between(wy, uy)
  BY <1>1, <1>3, <1>4, BoxIsBetween
<1>12. On(p, s) <=> ux * wy - uy * wx = 0 /\ wx * (wx - ux) + wy * (wy - uy) <= 0
  BY <1>6, <1>7, <1>8, <1>9, Zenon DEF On
<1>13. LiesOn(p, s) <=> ux * wy - uy * wx = 0 /\ Between(wx, ux) /\ Between(wy, uy)
  BY <1>10, <1>11, Zenon DEF LiesOn
<1>14. ux * wy - uy * wx = 0 <=> Parallel(ux, uy, wx, wy)
  BY DEF Parallel
<1> QED BY <1>12, <1>13, <1>14, DotIsBetween, Zenon

(* Segments with a point of the grid in common cross.                      *)
LEMMA OnBothCrosses ==
  ASSUME NEW first \in Segment, NEW second \in Segment, NEW p \in Point,
         LiesOn(p, first), LiesOn(p, second)
  PROVE  Crosses(first, second)
<1>1. /\ first[1] \in Point /\ first[2] \in Point /\ second[1] \in Point /\ second[2] \in Point
      /\ p[1] \in Int /\ p[2] \in Int
  BY Coordinates
<1>2. PICK ux \in Int, uy \in Int : ux = Along(first, 1) /\ uy = Along(first, 2)
  BY AlongType
<1>3. PICK vx \in Int, vy \in Int : vx = Along(second, 1) /\ vy = Along(second, 2)
  BY AlongType
<1>4. PICK wx \in Int, wy \in Int : wx = Apart(first, second, 1) /\ wy = Apart(first, second, 2)
  BY AlongType
<1>5. PICK sx \in Int, sy \in Int : sx = p[1] - first[1][1] /\ sy = p[2] - first[1][2]
  BY <1>1, Coordinates
<1>6. PICK tx \in Int, ty \in Int : tx = p[1] - second[1][1] /\ ty = p[2] - second[1][2]
  BY <1>1, Coordinates
<1>7. sx = wx + tx /\ sy = wy + ty
  <2>1. /\ first[1][1] \in Int /\ first[1][2] \in Int /\ second[1][1] \in Int /\ second[1][2] \in Int
    BY <1>1, Coordinates
  <2> QED BY <1>1, <1>4, <1>5, <1>6, <2>1 DEF Apart
<1>8. Parallel(ux, uy, sx, sy) /\ Between(sx, ux) /\ Between(sy, uy)
  <2>1. orientation(first[1], first[2], p) = ux * sy - uy * sx
    BY <1>2, <1>5, Zenon DEF orientation, Along
  <2>2. Between(sx, ux) /\ Between(sy, uy)
    BY <1>1, <1>2, <1>5, BoxIsBetween DEF LiesOn, Along
  <2> QED BY <2>1, <2>2 DEF LiesOn, Parallel
<1>9. Parallel(vx, vy, tx, ty) /\ Between(tx, vx) /\ Between(ty, vy)
  <2>1. orientation(second[1], second[2], p) = vx * ty - vy * tx
    BY <1>3, <1>6, Zenon DEF orientation, Along
  <2>2. Between(tx, vx) /\ Between(ty, vy)
    BY <1>1, <1>3, <1>6, BoxIsBetween DEF LiesOn, Along
  <2> QED BY <2>1, <2>2 DEF LiesOn, Parallel
<1>10. PICK d \in Nat \ {0} : \E i \in 0..d : d * sx = i * ux /\ d * sy = i * uy
  <2>1. Part(ux, uy, sx, sy)
    BY <1>8, BetweenIsPart, Zenon
  <2> QED BY <2>1, Zenon DEF Part
<1>11. PICK i \in 0..d : d * sx = i * ux /\ d * sy = i * uy
  BY <1>10, Zenon
<1>12. PICK e \in Nat \ {0} : \E j \in 0..e : e * tx = j * vx /\ e * ty = j * vy
  <2>1. Part(vx, vy, tx, ty)
    BY <1>9, BetweenIsPart, Zenon
  <2> QED BY <2>1, Zenon DEF Part
<1>13. PICK j \in 0..e : e * tx = j * vx /\ e * ty = j * vy
  BY <1>12, Zenon
<1>14. PICK n \in Nat \ {0}, k \in Nat, m \in Nat : n = d * e /\ k = i * e /\ m = j * d
  OBVIOUS
<1>15. k \in 0..n /\ m \in 0..n
  <2>1. i * e <= d * e
    OBVIOUS
  <2>2. j * d <= e * d
    OBVIOUS
  <2>3. e * d = d * e
    OBVIOUS
  <2> QED BY <1>14, <2>1, <2>2, <2>3
<1>16. Common(ux, uy, vx, vy, wx, wy, n, k, m)
  <2>1. k * ux = n * wx + m * vx
    <3>1. k * ux = e * (i * ux)
      BY <1>14
    <3>2. e * (d * sx) = n * sx
      BY <1>14
    <3>3. m * vx = d * (j * vx)
      BY <1>14
    <3>4. d * (e * tx) = n * tx
      BY <1>14
    <3>5. n * sx = n * wx + n * tx
      BY <1>7
    <3>6. e * (i * ux) = n * sx /\ d * (j * vx) = n * tx
      BY <1>11, <1>13, <3>2, <3>4
    <3> QED BY <3>1, <3>3, <3>5, <3>6
  <2>2. k * uy = n * wy + m * vy
    <3>1. k * uy = e * (i * uy)
      BY <1>14
    <3>2. e * (d * sy) = n * sy
      BY <1>14
    <3>3. m * vy = d * (j * vy)
      BY <1>14
    <3>4. d * (e * ty) = n * ty
      BY <1>14
    <3>5. n * sy = n * wy + n * ty
      BY <1>7
    <3>6. e * (i * uy) = n * sy /\ d * (j * vy) = n * ty
      BY <1>11, <1>13, <3>2, <3>4
    <3> QED BY <3>1, <3>3, <3>5, <3>6
  <2> QED BY <2>1, <2>2, Zenon DEF Common
<1>17. Incident(ux, uy, vx, vy, wx, wy)
  BY <1>15, <1>16, MeetingIncident, Zenon
<1> QED BY <1>2, <1>3, <1>4, <1>17, CrossesIsIncident

(* Where two segments that are not parallel have a point in common, it     *)
(* divides them in parts of their cross product.                           *)
LEMMA TurnDivides ==
  ASSUME NEW ux \in Int, NEW uy \in Int, NEW vx \in Int, NEW vy \in Int,
         NEW wx \in Int, NEW wy \in Int, Incident(ux, uy, vx, vy, wx, wy),
         NEW size \in Nat \ {0}, size = ux * vy - uy * vx \/ size = -(ux * vy - uy * vx)
  PROVE  \E k, m \in 0..size : Common(ux, uy, vx, vy, wx, wy, size, k, m)
<1>1. PICK d \in Nat \ {0} : \E i, j \in 0..d : Common(ux, uy, vx, vy, wx, wy, d, i, j)
  BY IncidentMeet, Zenon
<1>2. PICK i \in 0..d : \E j \in 0..d : Common(ux, uy, vx, vy, wx, wy, d, i, j)
  BY <1>1, Zenon
<1>3. PICK j \in 0..d : Common(ux, uy, vx, vy, wx, wy, d, i, j)
  BY <1>2, Zenon
<1>4. i * ux = d * wx + j * vx /\ i * uy = d * wy + j * vy
  BY <1>3 DEF Common
<1>5. PICK d1 \in Int, d3 \in Int, turn \in Int :
         d1 = ux * wy - uy * wx /\ d3 = vy * wx - vx * wy /\ turn = ux * vy - uy * vx
  OBVIOUS
<1>6. d * d1 + j * turn = 0
  <2>1. uy * (i * ux) = uy * (d * wx + j * vx) /\ ux * (i * uy) = ux * (d * wy + j * vy)
    BY <1>4
  <2>2. uy * (i * ux) = ux * (i * uy)
    OBVIOUS
  <2>3. ux * (d * wy + j * vy) - uy * (d * wx + j * vx) = d * d1 + j * turn
    BY <1>5
  <2> QED BY <2>1, <2>2, <2>3
<1>7. i * turn = d * d3
  <2>1. vy * (i * ux) = vy * (d * wx + j * vx) /\ vx * (i * uy) = vx * (d * wy + j * vy)
    BY <1>4
  <2>2. vy * (d * wx + j * vx) - vx * (d * wy + j * vy) = d * d3
    BY <1>5
  <2>3. vy * (i * ux) - vx * (i * uy) = i * turn
    BY <1>5
  <2> QED BY <2>1, <2>2, <2>3
<1>8. d3 * ux = turn * wx - d1 * vx /\ d3 * uy = turn * wy - d1 * vy
  BY <1>5
<1>9. size = turn \/ size = -turn
  BY <1>5
<1>10. Between(d3, turn) /\ Between(-d1, turn)
  <2>1. d * d3 = i * turn /\ d * (-d1) = j * turn /\ -d1 \in Int
    BY <1>6, <1>7
  <2> QED BY <2>1, PartIsBetween, Zenon
<1>11. CASE size = turn
  <2>1. d3 \in 0..size /\ -d1 \in 0..size
    BY <1>10, <1>11 DEF Between
  <2>2. Common(ux, uy, vx, vy, wx, wy, size, d3, -d1)
    <3>1. turn * wx - d1 * vx = turn * wx + (-d1) * vx /\ turn * wy - d1 * vy = turn * wy + (-d1) * vy
      OBVIOUS
    <3> QED BY <1>8, <1>11, <3>1, Zenon DEF Common
  <2> QED BY <2>1, <2>2, Zenon
<1>12. CASE size = -turn
  <2>1. -d3 \in 0..size /\ d1 \in 0..size
    BY <1>10, <1>12 DEF Between
  <2>2. Common(ux, uy, vx, vy, wx, wy, size, -d3, d1)
    <3>1. /\ (-d3) * ux = -(d3 * ux) /\ (-d3) * uy = -(d3 * uy)
          /\ (-turn) * wx + d1 * vx = -(turn * wx - d1 * vx)
          /\ (-turn) * wy + d1 * vy = -(turn * wy - d1 * vy)
      OBVIOUS
    <3> QED BY <1>8, <1>12, <3>1, Zenon DEF Common
  <2> QED BY <2>1, <2>2, Zenon
<1> QED BY <1>9, <1>11, <1>12

(* The end of a segment lies on it.                                        *)
LEMMA EndsLieOn ==
  ASSUME NEW s \in Segment
  PROVE  LiesOn(s[1], s) /\ LiesOn(s[2], s)
<1>1. s[1] \in Point /\ s[2] \in Point
  BY Coordinates
<1>2. orientation(s[1], s[2], s[1]) = 0 /\ orientation(s[1], s[2], s[2]) = 0
  BY <1>1, OrientationTurns
<1>3. onSegment(s[1], s[2], s[1]) /\ onSegment(s[1], s[2], s[2])
  BY <1>1, Coordinates DEF onSegment, Least, Greatest
<1> QED BY <1>2, <1>3 DEF LiesOn

(* A common point of two segments with directions u and v, as multiples of *)
(* a d-th of them, or of the grid.                                         *)
CommonAt(first, second, u, v, d) ==
    IF d = 0 THEN \E p \in Grid : On(p, first) /\ On(p, second)
    ELSE \E i, j \in 0..d : \A c \in 1..2 :
            d * first[1][c] + i * u[c] = d * second[1][c] + j * v[c]
Size(n) == IF n < 0 THEN -n ELSE n

(* Crosses says yes exactly when there is a common point as                *)
(* HaveCommonPoint describes it.                                           *)
LEMMA CrossesIsCommonPoint ==
  ASSUME NEW first \in Grid \X Grid, NEW second \in Grid \X Grid
  PROVE  Crosses(first, second) <=> HaveCommonPoint(first, second)
<1>0. first \in Segment /\ second \in Segment /\ \A p \in Grid : p \in Point
  BY RulesAssumption, Zenon DEF Segment
<1>1. first[1] \in Grid /\ first[2] \in Grid /\ second[1] \in Grid /\ second[2] \in Grid
  OBVIOUS
<1>2. PICK ux \in Int, uy \in Int : ux = Along(first, 1) /\ uy = Along(first, 2)
  BY <1>0, AlongType
<1>3. PICK vx \in Int, vy \in Int : vx = Along(second, 1) /\ vy = Along(second, 2)
  BY <1>0, AlongType
<1>4. PICK wx \in Int, wy \in Int : wx = Apart(first, second, 1) /\ wy = Apart(first, second, 2)
  BY <1>0, AlongType
<1>5. PICK turn \in Int : turn = ux * vy - uy * vx
  OBVIOUS
<1>6. PICK size \in Nat : size = Size(turn)
  BY DEF Size
<1>7. Minus(first[2], first[1]) = <<ux, uy>> /\ Minus(second[2], second[1]) = <<vx, vy>>
  BY <1>2, <1>3, Zenon DEF Minus, Along
<1>8. Cross(<<ux, uy>>, <<vx, vy>>) = turn
  BY <1>5 DEF Cross
<1>9. Crosses(first, second) <=> Incident(ux, uy, vx, vy, wx, wy)
  BY <1>0, <1>2, <1>3, <1>4, CrossesIsIncident
<1>10. HaveCommonPoint(first, second) <=> CommonAt(first, second, <<ux, uy>>, <<vx, vy>>, size)
  <2>1. HaveCommonPoint(first, second) <=>
           LET u == Minus(first[2], first[1])
               v == Minus(second[2], second[1])
           IN CommonAt(first, second, u, v, Size(Cross(u, v)))
    BY Zenon DEF HaveCommonPoint, CommonAt, Size
  <2> QED BY <1>6, <1>7, <1>8, <2>1, Zenon
<1>11. \A p \in Grid : On(p, first) /\ On(p, second) <=> LiesOn(p, first) /\ LiesOn(p, second)
  BY <1>0, OnIsLiesOn, Zenon
<1>12. CASE size = 0
  <2>1. turn = 0
    BY <1>6, <1>12 DEF Size
  <2>2. ASSUME NEW p \in Grid, LiesOn(p, first), LiesOn(p, second) PROVE Crosses(first, second)
    BY <1>0, <2>2, OnBothCrosses, Zenon
  <2>3. ASSUME Crosses(first, second)
        PROVE  \E p \in Grid : LiesOn(p, first) /\ LiesOn(p, second)
    <3>1. /\ orientation(first[1], first[2], second[1]) \in Int
          /\ orientation(first[1], first[2], second[2]) = orientation(first[1], first[2], second[1])
      <4>1. PICK d1 \in Int : d1 = ux * wy - uy * wx
        OBVIOUS
      <4>2. orientation(first[1], first[2], second[1]) = d1
        BY <1>2, <1>4, <4>1, Zenon DEF orientation, Along, Apart
      <4>3. second[2][1] - first[1][1] = wx + vx /\ second[2][2] - first[1][2] = wy + vy
        <5>1. /\ first[1][1] \in Int /\ first[1][2] \in Int /\ second[1][1] \in Int
              /\ second[1][2] \in Int /\ second[2][1] \in Int /\ second[2][2] \in Int
          BY <1>0, <1>1, Coordinates
        <5> QED BY <1>3, <1>4, <5>1 DEF Along, Apart
      <4>4. orientation(first[1], first[2], second[2]) = ux * (wy + vy) - uy * (wx + vx)
        BY <1>2, <4>3, Zenon DEF orientation, Along
      <4>5. ux * (wy + vy) - uy * (wx + vx) = d1 + turn
        BY <1>5, <4>1
      <4> QED BY <2>1, <4>1, <4>2, <4>4, <4>5
    <3>2. \/ LiesOn(second[1], first) \/ LiesOn(second[2], first)
          \/ LiesOn(first[1], second) \/ LiesOn(first[2], second)
      BY <2>3, <3>1 DEF Crosses, Opposite, LiesOn
    <3>3. /\ LiesOn(first[1], first) /\ LiesOn(first[2], first)
          /\ LiesOn(second[1], second) /\ LiesOn(second[2], second)
      BY <1>0, EndsLieOn, Zenon
    <3> QED BY <1>1, <3>2, <3>3, Zenon
  <2> QED BY <1>10, <1>11, <1>12, <2>2, <2>3, Zenon DEF CommonAt
<1>13. CASE size # 0
  <2>1. size \in Nat \ {0} /\ (size = turn \/ size = -turn)
    BY <1>6, <1>13 DEF Size
  <2>2. ASSUME NEW i \in 0..size, NEW j \in 0..size
        PROVE  (\A c \in 1..2 : size * first[1][c] + i * <<ux, uy>>[c]
                                   = size * second[1][c] + j * <<vx, vy>>[c])
                  <=> Common(ux, uy, vx, vy, wx, wy, size, i, j)
    <3>1. /\ first[1][1] \in Int /\ first[1][2] \in Int
          /\ second[1][1] \in Int /\ second[1][2] \in Int
      BY <1>0, <1>1, Coordinates
    <3>3. size * first[1][1] + i * ux = size * second[1][1] + j * vx <=> i * ux = size * wx + j * vx
      <4>1. PICK a \in Int, b \in Int : a = first[1][1] /\ b = second[1][1]
        BY <3>1
      <4>2. wx = b - a
        BY <1>4, <4>1 DEF Apart
      <4>3. size * a + i * ux = size * b + j * vx <=> i * ux = size * wx + j * vx
        <5>1. size * wx = size * b - size * a
          BY <4>2
        <5> QED BY <5>1
      <4> QED BY <4>1, <4>3, Zenon
    <3>4. size * first[1][2] + i * uy = size * second[1][2] + j * vy <=> i * uy = size * wy + j * vy
      <4>1. PICK a \in Int, b \in Int : a = first[1][2] /\ b = second[1][2]
        BY <3>1
      <4>2. wy = b - a
        BY <1>4, <4>1 DEF Apart
      <4>3. size * a + i * uy = size * b + j * vy <=> i * uy = size * wy + j * vy
        <5>1. size * wy = size * b - size * a
          BY <4>2
        <5> QED BY <5>1
      <4> QED BY <4>1, <4>3, Zenon
    <3>5. 1..2 = {1, 2} /\ <<ux, uy>>[1] = ux /\ <<ux, uy>>[2] = uy
          /\ <<vx, vy>>[1] = vx /\ <<vx, vy>>[2] = vy
      OBVIOUS
    <3> QED BY <3>3, <3>4, <3>5, Zenon DEF Common
  <2>3. Incident(ux, uy, vx, vy, wx, wy)
           => \E i, j \in 0..size : Common(ux, uy, vx, vy, wx, wy, size, i, j)
    BY <1>5, <2>1, TurnDivides, Zenon
  <2>4. (\E i, j \in 0..size : Common(ux, uy, vx, vy, wx, wy, size, i, j))
           => Incident(ux, uy, vx, vy, wx, wy)
    BY <2>1, MeetingIncident, Zenon
  <2> QED BY <1>9, <1>10, <1>13, <2>2, <2>3, <2>4, Zenon DEF CommonAt
<1> QED BY <1>12, <1>13

(* Sight is blocked exactly by what it meets, on any grid.                 *)
THEOREM RulesCrossesFindsCommonPoint == Spec => []CrossesFindsCommonPoint
<1>1. Init => CrossesFindsCommonPoint
  BY CallIs, Zenon DEF Init, CrossesFindsCommonPoint
<1>2. CrossesFindsCommonPoint /\ [Next]_call => CrossesFindsCommonPoint'
  <2> SUFFICES ASSUME CrossesFindsCommonPoint, [Next]_call PROVE CrossesFindsCommonPoint'
    OBVIOUS
  <2>1. CASE UNCHANGED call
    BY <2>1, Zenon DEF CrossesFindsCommonPoint
  <2>2. CASE call'.op # "crosses"
    BY <2>2, Zenon DEF CrossesFindsCommonPoint
  <2>3. ASSUME NEW first \in Grid \X Grid, NEW second \in Grid \X Grid, CallCrosses(first, second)
        PROVE  CrossesFindsCommonPoint'
    <3>1. call'.first = first /\ call'.second = second /\ call'.out = Crosses(first, second)
      BY <2>3 DEF CallCrosses
    <3> QED BY <3>1, CrossesIsCommonPoint, Zenon DEF CrossesFindsCommonPoint
  <2> QED BY <2>1, <2>2, <2>3, NextCalls, CallIs, Zenon
<1> QED BY <1>1, <1>2, PTL DEF Spec
-----------------------------------------------------------------------------
(* Redaction (Redact).                                                     *)

(* The part of a path above its n-th key.                                  *)
LEMMA Cut ==
  ASSUME NEW S, NEW p \in Seq(S), NEW m \in 0..Len(p)
  PROVE  /\ SubSeq(p, 1, m) \in Seq(S) /\ Len(SubSeq(p, 1, m)) = m
         /\ \A i \in 1..m : SubSeq(p, 1, m)[i] = p[i]
         /\ \A n \in 0..m : SubSeq(SubSeq(p, 1, m), 1, n) = SubSeq(p, 1, n)
         /\ SubSeq(p, 1, Len(p)) = p
         /\ SubSeq(p, 1, 0) = <<>>
<1>1. /\ SubSeq(p, 1, m) \in Seq(S) /\ Len(SubSeq(p, 1, m)) = m
      /\ \A i \in 1..m : SubSeq(p, 1, m)[i] = p[i]
  BY SubSeqProperties
<1>2. ASSUME NEW n \in 0..m PROVE SubSeq(SubSeq(p, 1, m), 1, n) = SubSeq(p, 1, n)
  <2>1. PICK q \in Seq(S) : q = SubSeq(p, 1, m)
    BY <1>1, Zenon
  <2>2. Len(q) = m /\ \A i \in 1..m : q[i] = p[i]
    BY <1>1, <2>1
  <2>3. SubSeq(q, 1, n) = [i \in 1..n |-> q[i]]
    BY <2>2
  <2>4. SubSeq(p, 1, n) = [i \in 1..n |-> p[i]]
    OBVIOUS
  <2> QED BY <2>1, <2>2, <2>3, <2>4
<1>3. SubSeq(p, 1, Len(p)) = p
  OBVIOUS
<1>4. SubSeq(p, 1, 0) = <<>>
  OBVIOUS
<1> QED BY <1>1, <1>2, <1>3, <1>4

(* A document: its paths, with all that lead to them.                      *)
Document(paths) ==
    /\ IsFiniteSet(paths) /\ PrefixClosed(paths)
    /\ \A p \in paths : p \in Seq(STRING) /\ p # <<>>

(* All that leads to a path of a document is in the document.              *)
LEMMA LeadsTo ==
  ASSUME NEW paths, Document(paths), NEW p \in paths, NEW n \in 1..Len(p)
  PROVE  SubSeq(p, 1, n) \in paths
<1> DEFINE Left == {k \in Nat : k < Len(p) => SubSeq(p, 1, Len(p) - k) \in paths}
<1>1. p \in Seq(STRING) /\ Len(p) \in Nat
  BY DEF Document
<1>2. 0 \in Left
  <2>1. SubSeq(p, 1, Len(p)) = p /\ Len(p) - 0 = Len(p)
    BY <1>1
  <2> QED BY <2>1, Zenon
<1>3. ASSUME NEW k \in Nat, k \in Left PROVE k + 1 \in Left
  <2> SUFFICES ASSUME k + 1 < Len(p) PROVE SubSeq(p, 1, Len(p) - (k + 1)) \in paths
    OBVIOUS
  <2>1. PICK m \in 0..Len(p) : m = Len(p) - k
    BY <1>1
  <2>2. SubSeq(p, 1, m) \in paths /\ m > 1
    BY <1>1, <1>3, <2>1
  <2>3. Len(SubSeq(p, 1, m)) = m
    BY <1>1, Cut
  <2>4. SubSeq(SubSeq(p, 1, m), 1, m - 1) \in paths
    BY <2>2, <2>3, Zenon DEF Document, PrefixClosed
  <2>5. m - 1 \in 0..m
    BY <2>2
  <2>6. SubSeq(SubSeq(p, 1, m), 1, m - 1) = SubSeq(p, 1, m - 1)
    BY <1>1, <2>5, Cut
  <2>7. m - 1 = Len(p) - (k + 1)
    BY <1>1, <2>1
  <2> QED BY <2>4, <2>6, <2>7, Zenon
<1> HIDE DEF Left
<1>4. Nat \subseteq Left
  BY <1>2, <1>3, Upward
<1>5. Len(p) - n \in Nat /\ Len(p) - n < Len(p) /\ Len(p) - (Len(p) - n) = n
  BY <1>1
<1>6. Len(p) - n \in Left
  BY <1>4, <1>5
<1> QED BY <1>5, <1>6 DEF Left

(* The paths of a document are no longer than some number.                 *)
LEMMA Bounded ==
  ASSUME NEW paths, Document(paths)
  PROVE  \E N \in Nat : \A p \in paths : Len(p) <= N
<1> DEFINE Bound(ps) == \E N \in Nat : \A p \in ps : Len(p) <= N
           Bad == {ps \in SUBSET paths : ~Bound(ps)}
<1>0. \A p \in paths : Len(p) \in Nat
  BY DEF Document
<1> SUFFICES ASSUME ~Bound(paths) PROVE FALSE
  OBVIOUS
<1>1. FiniteSubsetsOf(paths) = SUBSET paths
  BY FS_FiniteSubsetsOfFinite, Zenon DEF Document
<1>2. IsWellFoundedOn(StrictSubsetOrdering(paths), SUBSET paths)
  BY <1>1, FS_StrictSubsetOrderingWellFounded, Zenon
<1>3. Bad \subseteq SUBSET paths /\ Bad # {}
  <2>1. paths \in Bad
    OBVIOUS
  <2> QED BY <2>1
<1>4. PICK x \in Bad : \A y \in Bad : ~ (<<y, x>> \in StrictSubsetOrdering(paths))
  BY <1>2, <1>3, WFMin, Zenon
<1>5. x # {}
  <2>1. 0 \in Nat /\ \A p \in {} : Len(p) <= 0
    OBVIOUS
  <2> QED BY <1>4, <2>1, Zenon
<1>6. PICK p \in x : TRUE
  BY <1>5
<1>7. <<x \ {p}, x>> \in StrictSubsetOrdering(paths)
  BY <1>4, <1>6, Zenon DEF StrictSubsetOrdering
<1>8. PICK N \in Nat : \A q \in x \ {p} : Len(q) <= N
  <2>1. x \ {p} \in SUBSET paths /\ x \ {p} \notin Bad
    BY <1>4, <1>7, Zenon
  <2> QED BY <2>1, Zenon
<1>9. Len(p) \in Nat /\ \A q \in x : Len(q) \in Nat
  BY <1>0, <1>4, <1>6
<1>10. \A q \in x : Len(q) <= N + Len(p)
  <2> TAKE q \in x
  <2>1. CASE q = p
    BY <1>9, <2>1
  <2>2. CASE q # p
    BY <1>8, <1>9, <2>2
  <2> QED BY <2>1, <2>2
<1>11. N + Len(p) \in Nat
  BY <1>9
<1> QED BY <1>4, <1>10, <1>11, Zenon

(* A path, or the top of a document, is a sequence of keys.                *)
LEMMA PathIsSequence ==
  ASSUME NEW paths, Document(paths), NEW at \in {<<>>} \cup paths
  PROVE  at \in Seq(STRING) /\ Len(at) \in Nat
<1>1. CASE at = <<>>
  BY <1>1
<1>2. CASE at \in paths
  BY <1>2 DEF Document
<1> QED BY <1>1, <1>2

(* The paths of a document right below one of them, or below its top.      *)
Children(paths, at) == {c \in paths : Len(c) = Len(at) + 1 /\ SubSeq(c, 1, Len(at)) = at}

(* The keys of an object lead to what is right below it (KeysAt).          *)
LEMMA KeysLead ==
  ASSUME NEW paths, Document(paths), NEW at \in {<<>>} \cup paths
  PROVE  /\ \A key \in KeysAt(paths, at) : Append(at, key) \in Children(paths, at)
         /\ \A c \in Children(paths, at) : \E key \in KeysAt(paths, at) : c = Append(at, key)
<1>1. at \in Seq(STRING) /\ Len(at) \in Nat
  BY PathIsSequence
<1>2. ASSUME NEW c \in Children(paths, at)
      PROVE  c = Append(at, c[Len(c)]) /\ c[Len(c)] \in KeysAt(paths, at)
  <2>1. c \in paths /\ c \in Seq(STRING) /\ Len(c) = Len(at) + 1 /\ SubSeq(c, 1, Len(at)) = at
    BY <1>2 DEF Children, Document
  <2>2. c[Len(c)] \in KeysAt(paths, at)
    BY <2>1, Zenon DEF KeysAt
  <2>3. \A i \in 1..Len(at) : c[i] = at[i]
    BY <1>1, <2>1, Cut
  <2>4. c = Append(at, c[Len(c)])
    BY <1>1, <2>1, <2>3
  <2> QED BY <2>2, <2>4
<1>3. ASSUME NEW key \in KeysAt(paths, at) PROVE Append(at, key) \in Children(paths, at)
  <2>1. PICK c \in Children(paths, at) : key = c[Len(c)]
    BY <1>3, Zenon DEF KeysAt, Children
  <2> QED BY <1>2, <2>1, Zenon
<1> QED BY <1>2, <1>3, Zenon

(* A path is below another.                                                *)
Under(p, at) == Len(at) < Len(p) /\ SubSeq(p, 1, Len(at)) = at

(* What is below an object is what is right below it and what is below     *)
(* that.                                                                   *)
LEMMA UnderChild ==
  ASSUME NEW paths, Document(paths), NEW at \in {<<>>} \cup paths, NEW p \in paths
  PROVE  /\ Under(p, at) <=> \E c \in Children(paths, at) : p = c \/ Under(p, c)
         /\ \A c \in Children(paths, at) : p = c \/ Under(p, c) => c = SubSeq(p, 1, Len(at) + 1)
<1>1. at \in Seq(STRING) /\ Len(at) \in Nat /\ p \in Seq(STRING) /\ Len(p) \in Nat
  BY PathIsSequence, Zenon
<1>2. ASSUME Under(p, at)
      PROVE  \E c \in Children(paths, at) : p = c \/ Under(p, c)
  <2>1. Len(at) + 1 \in 1..Len(p) /\ Len(at) + 1 \in 0..Len(p) /\ Len(at) \in 0..Len(at) + 1
    BY <1>1, <1>2 DEF Under
  <2>2. PICK c \in paths : c = SubSeq(p, 1, Len(at) + 1)
    BY <2>1, LeadsTo, Zenon
  <2>3. Len(c) = Len(at) + 1 /\ SubSeq(c, 1, Len(at)) = SubSeq(p, 1, Len(at))
    BY <1>1, <2>1, <2>2, Cut
  <2>4. c \in Children(paths, at)
    BY <1>2, <2>3 DEF Children, Under
  <2>5. CASE Len(p) = Len(at) + 1
    <3>1. p = c
      BY <1>1, <2>2, <2>5
    <3> QED BY <2>4, <3>1
  <2>6. CASE Len(p) # Len(at) + 1
    <3>1. Len(c) < Len(p)
      BY <1>1, <2>1, <2>3, <2>6
    <3>2. Under(p, c)
      BY <2>2, <2>3, <3>1 DEF Under
    <3> QED BY <2>4, <3>2
  <2> QED BY <2>5, <2>6
<1>3. ASSUME NEW c \in Children(paths, at), p = c \/ Under(p, c)
      PROVE  Under(p, at) /\ c = SubSeq(p, 1, Len(at) + 1)
  <2>1. c \in Seq(STRING) /\ Len(c) = Len(at) + 1 /\ SubSeq(c, 1, Len(at)) = at
    BY DEF Children, Document
  <2>2. CASE p = c
    BY <1>1, <2>1, <2>2 DEF Under
  <2>3. CASE Under(p, c)
    <3>1. Len(c) < Len(p) /\ SubSeq(p, 1, Len(c)) = c
      BY <2>3 DEF Under
    <3>2. Len(c) \in 0..Len(p) /\ Len(at) \in 0..Len(c)
      BY <1>1, <2>1, <3>1
    <3>3. SubSeq(SubSeq(p, 1, Len(c)), 1, Len(at)) = SubSeq(p, 1, Len(at))
      BY <1>1, <3>2, Cut
    <3>4. SubSeq(p, 1, Len(at)) = at
      BY <2>1, <3>1, <3>3
    <3>5. Len(at) < Len(p)
      BY <1>1, <2>1, <3>1
    <3> QED BY <2>1, <3>1, <3>4, <3>5 DEF Under
  <2> QED BY <1>3, <2>2, <2>3
<1> QED BY <1>2, <1>3, Zenon

(* Of what is below an object: the paths that are fine and all that leads  *)
(* to them from there is, and the first on their way that are not.         *)
Shown(paths, fine, at) ==
    {p \in paths : Under(p, at) /\ \A n \in Len(at) + 1..Len(p) : SubSeq(p, 1, n) \in fine}
Stops(paths, fine, at) ==
    {p \in paths : /\ Under(p, at) /\ p \notin fine
                   /\ \A n \in Len(at) + 1..Len(p) - 1 : SubSeq(p, 1, n) \in fine}

(* Both can be collected object by object, as pruneObject and              *)
(* collectHidden do.                                                       *)
LEMMA ShownByChild ==
  ASSUME NEW paths, Document(paths), NEW fine, NEW at \in {<<>>} \cup paths, NEW p
  PROVE  p \in Shown(paths, fine, at)
            <=> \E c \in Children(paths, at) :
                   c \in fine /\ (p = c \/ p \in Shown(paths, fine, c))
<1>0. at \in Seq(STRING) /\ Len(at) \in Nat
  BY PathIsSequence
<1>1. ASSUME p \in Shown(paths, fine, at)
      PROVE  \E c \in Children(paths, at) :
                c \in fine /\ (p = c \/ p \in Shown(paths, fine, c))
  <2>1. /\ p \in paths /\ Under(p, at)
        /\ \A n \in Len(at) + 1..Len(p) : SubSeq(p, 1, n) \in fine
    BY <1>1, Zenon DEF Shown
  <2>2. PICK c \in Children(paths, at) : p = c \/ Under(p, c)
    BY <2>1, UnderChild, Zenon
  <2>3. c = SubSeq(p, 1, Len(at) + 1)
    BY <2>1, <2>2, UnderChild, Zenon
  <2>4. Len(p) \in Nat /\ Len(at) < Len(p) /\ Len(c) = Len(at) + 1
    BY <2>1, <2>2, PathIsSequence DEF Under, Children
  <2>5. c \in fine
    <3>1. Len(at) + 1 \in Len(at) + 1..Len(p)
      BY <1>0, <2>4
    <3> QED BY <2>1, <2>3, <3>1, Zenon
  <2>6. \A n \in Len(c) + 1..Len(p) : SubSeq(p, 1, n) \in fine
    <3>1. Len(c) + 1..Len(p) \subseteq Len(at) + 1..Len(p)
      BY <1>0, <2>4
    <3> QED BY <2>1, <3>1, Zenon
  <2> QED BY <2>1, <2>2, <2>5, <2>6, Zenon DEF Shown
<1>2. ASSUME NEW c \in Children(paths, at), c \in fine, p = c \/ p \in Shown(paths, fine, c)
      PROVE  p \in Shown(paths, fine, at)
  <2>1. p \in paths /\ (p = c \/ Under(p, c))
    BY <1>2, Zenon DEF Shown, Children
  <2>2. Under(p, at)
    <3>1. \E b \in Children(paths, at) : p = b \/ Under(p, b)
      BY <2>1, Zenon
    <3>2. Under(p, at) <=> \E b \in Children(paths, at) : p = b \/ Under(p, b)
      BY <2>1, UnderChild
    <3> QED BY <3>1, <3>2, Zenon
  <2>3. c = SubSeq(p, 1, Len(at) + 1)
    BY <2>1, UnderChild, Zenon
  <2>4. Len(p) \in Nat /\ Len(c) = Len(at) + 1
    BY <2>1, PathIsSequence DEF Children
  <2>5. ASSUME NEW n \in Len(at) + 1..Len(p) PROVE SubSeq(p, 1, n) \in fine
    <3>1. CASE n = Len(at) + 1
      BY <1>2, <2>3, <3>1, Zenon
    <3>2. CASE n # Len(at) + 1
      <4>1. n \in Len(c) + 1..Len(p)
        BY <1>0, <2>4, <3>2
      <4>2. p # c
        BY <2>4, <4>1
      <4> QED BY <1>2, <4>1, <4>2, Zenon DEF Shown
    <3> QED BY <3>1, <3>2
  <2> QED BY <2>1, <2>2, <2>5, Zenon DEF Shown
<1> QED BY <1>1, <1>2, Zenon

(* So can what stops: the child itself where it is not fine.               *)
LEMMA StopsByChild ==
  ASSUME NEW paths, Document(paths), NEW fine, NEW at \in {<<>>} \cup paths, NEW p
  PROVE  p \in Stops(paths, fine, at)
            <=> \E c \in Children(paths, at) :
                   IF c \in fine THEN p \in Stops(paths, fine, c) ELSE p = c
<1>0. at \in Seq(STRING) /\ Len(at) \in Nat
  BY PathIsSequence
<1>1. ASSUME p \in Stops(paths, fine, at)
      PROVE  \E c \in Children(paths, at) :
                IF c \in fine THEN p \in Stops(paths, fine, c) ELSE p = c
  <2>1. /\ p \in paths /\ Under(p, at) /\ p \notin fine
        /\ \A n \in Len(at) + 1..Len(p) - 1 : SubSeq(p, 1, n) \in fine
    BY <1>1, Zenon DEF Stops
  <2>2. PICK c \in Children(paths, at) : p = c \/ Under(p, c)
    BY <2>1, UnderChild, Zenon
  <2>3. c = SubSeq(p, 1, Len(at) + 1)
    BY <2>1, <2>2, UnderChild, Zenon
  <2>4. Len(p) \in Nat /\ Len(at) < Len(p) /\ Len(c) = Len(at) + 1
    BY <2>1, <2>2, PathIsSequence DEF Under, Children
  <2>5. CASE p = c
    BY <2>1, <2>5, Zenon
  <2>6. CASE p # c
    <3>1. Under(p, c)
      BY <2>2, <2>6
    <3>2. Len(at) + 1 \in Len(at) + 1..Len(p) - 1
      BY <1>0, <2>4, <3>1 DEF Under
    <3>3. c \in fine
      BY <2>1, <2>3, <3>2, Zenon
    <3>4. Len(c) + 1..Len(p) - 1 \subseteq Len(at) + 1..Len(p) - 1
      BY <1>0, <2>4
    <3>5. \A n \in Len(c) + 1..Len(p) - 1 : SubSeq(p, 1, n) \in fine
      BY <2>1, <3>4, Zenon
    <3> QED BY <2>1, <2>2, <3>1, <3>3, <3>5, Zenon DEF Stops
  <2> QED BY <2>5, <2>6
<1>2. ASSUME NEW c \in Children(paths, at),
             IF c \in fine THEN p \in Stops(paths, fine, c) ELSE p = c
      PROVE  p \in Stops(paths, fine, at)
  <2>1. p \in paths /\ (p = c \/ Under(p, c)) /\ p \notin fine
    BY <1>2, Zenon DEF Stops, Children
  <2>2. Under(p, at)
    <3>1. \E b \in Children(paths, at) : p = b \/ Under(p, b)
      BY <2>1, Zenon
    <3>2. Under(p, at) <=> \E b \in Children(paths, at) : p = b \/ Under(p, b)
      BY <2>1, UnderChild
    <3> QED BY <3>1, <3>2, Zenon
  <2>3. c = SubSeq(p, 1, Len(at) + 1)
    BY <2>1, UnderChild, Zenon
  <2>4. Len(p) \in Nat /\ Len(c) = Len(at) + 1
    BY <2>1, PathIsSequence DEF Children
  <2>5. ASSUME NEW n \in Len(at) + 1..Len(p) - 1 PROVE SubSeq(p, 1, n) \in fine
    <3>0. p # c
      BY <1>0, <2>4
    <3>1. CASE n = Len(at) + 1
      BY <1>2, <2>3, <3>0, <3>1, Zenon
    <3>2. CASE n # Len(at) + 1
      <4>1. n \in Len(c) + 1..Len(p) - 1
        BY <1>0, <2>4, <3>2
      <4> QED BY <1>2, <3>0, <4>1, Zenon DEF Stops
    <3> QED BY <3>1, <3>2
  <2> QED BY <2>1, <2>2, <2>5, Zenon DEF Stops
<1> QED BY <1>1, <1>2, Zenon

(* What is collected object by object is determined by what is taken at    *)
(* each: here where a path is fine, there where it is not.                 *)
Collects(F, paths, fine, here, there) ==
    \A at \in {<<>>} \cup paths : \A p :
        p \in F[at] <=> \E c \in Children(paths, at) :
                           \/ c \in fine /\ (p \in here[c] \/ p \in F[c])
                           \/ c \notin fine /\ p \in there[c]

(* There is only one way to collect, since documents are finitely deep.    *)
LEMMA CollectsOnce ==
  ASSUME NEW paths, Document(paths), NEW fine, NEW here, NEW there,
         NEW F, Collects(F, paths, fine, here, there),
         NEW G, Collects(G, paths, fine, here, there)
  PROVE  \A at \in {<<>>} \cup paths : F[at] = G[at]
<1>1. PICK N \in Nat : \A p \in paths : Len(p) <= N
  BY Bounded
<1> DEFINE Depth == {k \in Nat : \A at \in {<<>>} \cup paths : Len(at) + k > N => F[at] = G[at]}
<1>2. ASSUME NEW at \in {<<>>} \cup paths,
             \A c \in Children(paths, at) : F[c] = G[c]
      PROVE  F[at] = G[at]
  <2>1. ASSUME NEW p PROVE p \in F[at] <=> p \in G[at]
    BY <1>2, Zenon DEF Collects
  <2> QED BY <2>1, Zenon
<1>3. 0 \in Depth
  <2> SUFFICES ASSUME NEW at \in {<<>>} \cup paths, Len(at) + 0 > N PROVE F[at] = G[at]
    OBVIOUS
  <2>1. Len(at) \in Nat
    BY PathIsSequence
  <2>2. Children(paths, at) = {}
    BY <1>1, <2>1 DEF Children
  <2> QED BY <1>2, <2>2
<1>4. ASSUME NEW k \in Nat, k \in Depth PROVE k + 1 \in Depth
  <2> SUFFICES ASSUME NEW at \in {<<>>} \cup paths, Len(at) + (k + 1) > N PROVE F[at] = G[at]
    OBVIOUS
  <2>1. Len(at) \in Nat
    BY PathIsSequence
  <2>2. ASSUME NEW c \in Children(paths, at) PROVE F[c] = G[c]
    <3>1. c \in {<<>>} \cup paths /\ Len(c) + k > N
      BY <2>1 DEF Children
    <3> QED BY <1>4, <3>1
  <2> QED BY <1>2, <2>2
<1> HIDE DEF Depth
<1>5. Nat \subseteq Depth
  BY <1>3, <1>4, Upward
<1>6. ASSUME NEW at \in {<<>>} \cup paths PROVE F[at] = G[at]
  <2>1. Len(at) \in Nat /\ N + 1 \in Nat /\ Len(at) + (N + 1) > N
    BY PathIsSequence
  <2>2. N + 1 \in Depth
    BY <1>5, <2>1
  <2> QED BY <2>1, <2>2 DEF Depth
<1> QED BY <1>6

(* The paths of a document that a grant allows (Allows).                   *)
Fine(paths, role, level, policy) == {p \in paths : Allows(role, level, policy[p])}

(* pruneObject shows the paths that are allowed all the way.               *)
LEMMA PruneShows ==
  ASSUME NEW paths, Document(paths), NEW role, NEW level, NEW policy
  PROVE  pruneObject(paths, <<>>, role, level, policy)
            = Shown(paths, Fine(paths, role, level, policy), <<>>)
<1> DEFINE D == {<<>>} \cup paths
           fine == Fine(paths, role, level, policy)
           here == [c \in paths |-> {c}]
           there == [c \in paths |-> {}]
           Once(f, at) == UNION {LET path == Append(at, key)
                                 IN IF Allows(role, level, policy[path]) THEN {path} \cup f[path]
                                    ELSE {} : key \in KeysAt(paths, at)}
           F == CHOOSE f : f = [at \in D |-> Once(f, at)]
           G == [at \in D |-> Shown(paths, fine, at)]
<1>1. pruneObject(paths, <<>>, role, level, policy) = F[<<>>]
  BY DEF pruneObject
<1>2. ASSUME NEW f, NEW at \in D, NEW p
      PROVE  p \in Once(f, at) <=> \E c \in Children(paths, at) :
                \/ c \in fine /\ (p \in here[c] \/ p \in f[c])
                \/ c \notin fine /\ p \in there[c]
  <2>1. ASSUME NEW c \in Children(paths, at)
        PROVE  /\ c \in fine <=> Allows(role, level, policy[c])
               /\ here[c] = {c} /\ there[c] = {}
    BY Zenon DEF Children, Fine
  <2>2. p \in Once(f, at) <=> \E key \in KeysAt(paths, at) :
           Allows(role, level, policy[Append(at, key)])
           /\ (p = Append(at, key) \/ p \in f[Append(at, key)])
    OBVIOUS
  <2>3. p \in Once(f, at) <=> \E c \in Children(paths, at) :
           Allows(role, level, policy[c]) /\ (p = c \/ p \in f[c])
    <3>1. \A key \in KeysAt(paths, at) : Append(at, key) \in Children(paths, at)
      BY KeysLead
    <3>2. \A c \in Children(paths, at) : \E key \in KeysAt(paths, at) : c = Append(at, key)
      BY KeysLead
    <3> HIDE DEF Once
    <3> QED BY <2>2, <3>1, <3>2, Zenon
  <2> HIDE DEF Once, here, there, fine
  <2> QED BY <2>1, <2>3, Zenon
<1> HIDE DEF Once, here, there, fine, F, G, D
<1>3. ASSUME NEW at \in D PROVE Once(G, at) = Shown(paths, fine, at)
  <2>1. ASSUME NEW c \in Children(paths, at)
        PROVE  G[c] = Shown(paths, fine, c) /\ here[c] = {c} /\ there[c] = {}
    BY Zenon DEF Children, here, there, G, D
  <2>2. ASSUME NEW p PROVE p \in Once(G, at) <=> p \in Shown(paths, fine, at)
    <3>1. p \in Once(G, at) <=> \E c \in Children(paths, at) :
             c \in fine /\ (p = c \/ p \in Shown(paths, fine, c))
      <4>1. p \in Once(G, at) <=> \E c \in Children(paths, at) :
               \/ c \in fine /\ (p \in here[c] \/ p \in G[c])
               \/ c \notin fine /\ p \in there[c]
        BY <1>2, Zenon
      <4>2. \A c \in Children(paths, at) :
               /\ p \in here[c] <=> p = c
               /\ p \in G[c] <=> p \in Shown(paths, fine, c)
               /\ p \notin there[c]
        BY <2>1
      <4> QED BY <4>1, <4>2, Zenon
    <3> QED BY <3>1, ShownByChild, Zenon DEF D
  <2> QED BY <2>2
<1>4. G = [at \in D |-> Once(G, at)]
  BY <1>3, Zenon DEF G
<1>5. F = [at \in D |-> Once(F, at)]
  BY <1>4, Zenon DEF F
<1>6. Collects(F, paths, fine, here, there)
  <2> SUFFICES ASSUME NEW at \in D, NEW p
               PROVE  p \in F[at] <=> \E c \in Children(paths, at) :
                         \/ c \in fine /\ (p \in here[c] \/ p \in F[c])
                         \/ c \notin fine /\ p \in there[c]
    BY Zenon DEF Collects, D
  <2>1. F[at] = Once(F, at)
    BY <1>5, Zenon
  <2>2. p \in Once(F, at) <=> \E c \in Children(paths, at) :
           \/ c \in fine /\ (p \in here[c] \/ p \in F[c])
           \/ c \notin fine /\ p \in there[c]
    BY <1>2, Zenon
  <2> QED BY <2>1, <2>2, Zenon
<1>7. Collects(G, paths, fine, here, there)
  <2> SUFFICES ASSUME NEW at \in D, NEW p
               PROVE  p \in G[at] <=> \E c \in Children(paths, at) :
                         \/ c \in fine /\ (p \in here[c] \/ p \in G[c])
                         \/ c \notin fine /\ p \in there[c]
    BY Zenon DEF Collects, D
  <2>1. G[at] = Once(G, at)
    BY <1>4, Zenon
  <2>2. p \in Once(G, at) <=> \E c \in Children(paths, at) :
           \/ c \in fine /\ (p \in here[c] \/ p \in G[c])
           \/ c \notin fine /\ p \in there[c]
    BY <1>2, Zenon
  <2> QED BY <2>1, <2>2, Zenon
<1>8. <<>> \in D /\ F[<<>>] = G[<<>>]
  <2>1. \A at \in {<<>>} \cup paths : F[at] = G[at]
    BY <1>6, <1>7, CollectsOnce
  <2> QED BY <2>1, Zenon DEF D
<1>9. G[<<>>] = Shown(paths, fine, <<>>)
  BY <1>8, Zenon DEF G
<1> QED BY <1>1, <1>8, <1>9, Zenon DEF fine

(* collectHidden lists the first paths on their way that are not allowed.  *)
LEMMA HiddenStops ==
  ASSUME NEW paths, Document(paths), NEW role, NEW level, NEW policy
  PROVE  collectHidden(paths, <<>>, role, level, policy)
            = Stops(paths, Fine(paths, role, level, policy), <<>>)
<1> DEFINE D == {<<>>} \cup paths
           fine == Fine(paths, role, level, policy)
           here == [c \in paths |-> {}]
           there == [c \in paths |-> {c}]
           Once(f, at) == UNION {LET path == Append(at, key)
                                 IN IF Allows(role, level, policy[path]) THEN f[path]
                                    ELSE {path} : key \in KeysAt(paths, at)}
           F == CHOOSE f : f = [at \in D |-> Once(f, at)]
           G == [at \in D |-> Stops(paths, fine, at)]
<1>1. collectHidden(paths, <<>>, role, level, policy) = F[<<>>]
  BY DEF collectHidden
<1>2. ASSUME NEW f, NEW at \in D, NEW p
      PROVE  p \in Once(f, at) <=> \E c \in Children(paths, at) :
                \/ c \in fine /\ (p \in here[c] \/ p \in f[c])
                \/ c \notin fine /\ p \in there[c]
  <2>1. ASSUME NEW c \in Children(paths, at)
        PROVE  /\ c \in fine <=> Allows(role, level, policy[c])
               /\ here[c] = {} /\ there[c] = {c}
    BY Zenon DEF Children, Fine
  <2>2. p \in Once(f, at) <=> \E key \in KeysAt(paths, at) :
           \/ Allows(role, level, policy[Append(at, key)]) /\ p \in f[Append(at, key)]
           \/ ~Allows(role, level, policy[Append(at, key)]) /\ p = Append(at, key)
    OBVIOUS
  <2>3. p \in Once(f, at) <=> \E c \in Children(paths, at) :
           \/ Allows(role, level, policy[c]) /\ p \in f[c]
           \/ ~Allows(role, level, policy[c]) /\ p = c
    <3>1. \A key \in KeysAt(paths, at) : Append(at, key) \in Children(paths, at)
      BY KeysLead
    <3>2. \A c \in Children(paths, at) : \E key \in KeysAt(paths, at) : c = Append(at, key)
      BY KeysLead
    <3> HIDE DEF Once
    <3> QED BY <2>2, <3>1, <3>2, Zenon
  <2> HIDE DEF Once, here, there, fine
  <2> QED BY <2>1, <2>3, Zenon
<1> HIDE DEF Once, here, there, fine, F, G, D
<1>3. ASSUME NEW at \in D PROVE Once(G, at) = Stops(paths, fine, at)
  <2>1. ASSUME NEW c \in Children(paths, at)
        PROVE  G[c] = Stops(paths, fine, c) /\ here[c] = {} /\ there[c] = {c}
    BY Zenon DEF Children, here, there, G, D
  <2>2. ASSUME NEW p PROVE p \in Once(G, at) <=> p \in Stops(paths, fine, at)
    <3>1. p \in Once(G, at) <=> \E c \in Children(paths, at) :
             IF c \in fine THEN p \in Stops(paths, fine, c) ELSE p = c
      <4>1. p \in Once(G, at) <=> \E c \in Children(paths, at) :
               \/ c \in fine /\ (p \in here[c] \/ p \in G[c])
               \/ c \notin fine /\ p \in there[c]
        BY <1>2, Zenon
      <4>2. \A c \in Children(paths, at) :
               /\ p \notin here[c]
               /\ p \in G[c] <=> p \in Stops(paths, fine, c)
               /\ p \in there[c] <=> p = c
        BY <2>1
      <4> QED BY <4>1, <4>2, Zenon
    <3>2. p \in Stops(paths, fine, at) <=> \E c \in Children(paths, at) :
             IF c \in fine THEN p \in Stops(paths, fine, c) ELSE p = c
      BY StopsByChild, SMTT(30) DEF D
    <3> QED BY <3>1, <3>2, Zenon
  <2> QED BY <2>2
<1>4. G = [at \in D |-> Once(G, at)]
  BY <1>3, Zenon DEF G
<1>5. F = [at \in D |-> Once(F, at)]
  BY <1>4, Zenon DEF F
<1>6. Collects(F, paths, fine, here, there)
  <2> SUFFICES ASSUME NEW at \in D, NEW p
               PROVE  p \in F[at] <=> \E c \in Children(paths, at) :
                         \/ c \in fine /\ (p \in here[c] \/ p \in F[c])
                         \/ c \notin fine /\ p \in there[c]
    BY Zenon DEF Collects, D
  <2>1. F[at] = Once(F, at)
    BY <1>5, Zenon
  <2>2. p \in Once(F, at) <=> \E c \in Children(paths, at) :
           \/ c \in fine /\ (p \in here[c] \/ p \in F[c])
           \/ c \notin fine /\ p \in there[c]
    BY <1>2, Zenon
  <2> QED BY <2>1, <2>2, Zenon
<1>7. Collects(G, paths, fine, here, there)
  <2> SUFFICES ASSUME NEW at \in D, NEW p
               PROVE  p \in G[at] <=> \E c \in Children(paths, at) :
                         \/ c \in fine /\ (p \in here[c] \/ p \in G[c])
                         \/ c \notin fine /\ p \in there[c]
    BY Zenon DEF Collects, D
  <2>1. G[at] = Once(G, at)
    BY <1>4, Zenon
  <2>2. p \in Once(G, at) <=> \E c \in Children(paths, at) :
           \/ c \in fine /\ (p \in here[c] \/ p \in G[c])
           \/ c \notin fine /\ p \in there[c]
    BY <1>2, Zenon
  <2> QED BY <2>1, <2>2, Zenon
<1>8. <<>> \in D /\ F[<<>>] = G[<<>>]
  <2>1. \A at \in {<<>>} \cup paths : F[at] = G[at]
    BY <1>6, <1>7, CollectsOnce
  <2> QED BY <2>1, Zenon DEF D
<1>9. G[<<>>] = Stops(paths, fine, <<>>)
  BY <1>8, Zenon DEF G
<1> QED BY <1>1, <1>8, <1>9, Zenon DEF fine

(* A part of a document with all that leads to its paths is a document.    *)
LEMMA PartOfDocument ==
  ASSUME NEW paths, Document(paths), NEW rest \in SUBSET paths, PrefixClosed(rest)
  PROVE  Document(rest)
<1>1. IsFiniteSet(rest)
  BY FS_Subset DEF Document
<1> QED BY <1>1 DEF Document

(* What is left when the hidden paths go, with all that is below them, is  *)
(* what is allowed all the way.                                            *)
LEMMA RestIsShown ==
  ASSUME NEW paths, Document(paths), NEW fine \in SUBSET paths
  PROVE  {p \in paths : ~Below(p, Stops(paths, fine, <<>>))} = Shown(paths, fine, <<>>)
<1>0. /\ Len(<<>>) = 0
      /\ \A p \in paths : /\ p \in Seq(STRING) /\ Len(p) \in Nat /\ Len(p) > 0
                          /\ SubSeq(p, 1, 0) = <<>> /\ Under(p, <<>>)
  <2>1. Len(<<>>) = 0
    OBVIOUS
  <2>2. ASSUME NEW p \in paths
        PROVE  /\ p \in Seq(STRING) /\ Len(p) \in Nat /\ Len(p) > 0
               /\ SubSeq(p, 1, 0) = <<>> /\ Under(p, <<>>)
    <3>1. p \in Seq(STRING) /\ Len(p) \in Nat /\ Len(p) > 0
      BY DEF Document
    <3>2. SubSeq(p, 1, 0) = <<>>
      BY <3>1
    <3> QED BY <2>1, <3>1, <3>2 DEF Under
  <2> QED BY <2>1, <2>2, Zenon
<1>1. ASSUME NEW p \in paths, ~Below(p, Stops(paths, fine, <<>>)) PROVE p \in Shown(paths, fine, <<>>)
  <2> DEFINE Bad == {n \in 1..Len(p) : SubSeq(p, 1, n) \notin fine}
  <2>1. Bad \in SUBSET Nat
    OBVIOUS
  <2>2. ASSUME Bad # {} PROVE FALSE
    <3> HIDE DEF Bad
    <3>1. PICK m \in Bad : \A k \in Bad : m <= k
      BY <2>1, <2>2, Smallest
    <3> USE DEF Bad
    <3>2. m \in 1..Len(p) /\ m \in 0..Len(p) /\ m \in Nat /\ SubSeq(p, 1, m) \notin fine
      BY <3>1, <1>0
    <3>3. PICK h \in paths : h = SubSeq(p, 1, m)
      BY <3>2, LeadsTo, Zenon
    <3>4. Len(h) = m /\ \A n \in 0..m : SubSeq(h, 1, n) = SubSeq(p, 1, n)
      BY <1>0, <3>2, <3>3, Cut
    <3>5. ASSUME NEW n \in 1..Len(h) - 1 PROVE SubSeq(h, 1, n) \in fine
      <4>1. n \in 0..m /\ n \in 1..Len(p) /\ ~(m <= n)
        BY <1>0, <3>2, <3>4
      <4>2. SubSeq(p, 1, n) \in fine
        BY <3>1, <4>1
      <4> QED BY <3>4, <4>1, <4>2, Zenon
    <3>6. 0 + 1 = 1
      OBVIOUS
    <3>7. h \in Stops(paths, fine, <<>>)
      BY <1>0, <3>2, <3>3, <3>5, <3>6, Zenon DEF Stops
    <3>8. Len(h) <= Len(p) /\ SubSeq(p, 1, Len(h)) = h
      BY <1>0, <3>2, <3>3, <3>4
    <3> QED BY <1>1, <3>7, <3>8, Zenon DEF Below
  <2>3. \A n \in 0 + 1..Len(p) : SubSeq(p, 1, n) \in fine
    BY <2>2
  <2> QED BY <1>0, <2>3, Zenon DEF Shown
<1>2. ASSUME NEW p \in Shown(paths, fine, <<>>), Below(p, Stops(paths, fine, <<>>)) PROVE FALSE
  <2>1. p \in paths /\ \A n \in 0 + 1..Len(p) : SubSeq(p, 1, n) \in fine
    BY <1>0, <1>2, Zenon DEF Shown
  <2>2. PICK h \in Stops(paths, fine, <<>>) : Len(h) <= Len(p) /\ SubSeq(p, 1, Len(h)) = h
    BY <1>2, Zenon DEF Below
  <2>3. h \in paths /\ h \notin fine
    BY <2>2, Zenon DEF Stops
  <2>4. Len(h) \in 0 + 1..Len(p)
    BY <1>0, <2>1, <2>2, <2>3
  <2> QED BY <2>1, <2>2, <2>3, <2>4, Zenon
<1>3. Shown(paths, fine, <<>>) \subseteq paths
  BY Zenon DEF Shown
<1> QED BY <1>1, <1>2, <1>3, Zenon

(* A document without the hidden paths and all that is below them.         *)
Rest(paths, hidden) == {p \in paths : ~Below(p, hidden)}

(* What redaction shows of a document is what it shows of the rest without *)
(* the hidden paths, which is all of the rest.                             *)
LEMMA RestAlone ==
  ASSUME NEW paths, Document(paths), NEW role, NEW level, NEW policy
  PROVE  LET rest == Rest(paths, collectHidden(paths, <<>>, role, level, policy))
         IN /\ pruneObject(paths, <<>>, role, level, policy) = rest
            /\ pruneObject(rest, <<>>, role, level, policy) = rest
            /\ \A p \in rest : \A n \in 1..Len(p) : Allows(role, level, policy[SubSeq(p, 1, n)])
<1> DEFINE rest == Rest(paths, collectHidden(paths, <<>>, role, level, policy))
<1>1. PICK fine \in SUBSET paths : fine = Fine(paths, role, level, policy)
  BY Zenon DEF Fine
<1>2. rest = Shown(paths, fine, <<>>)
  <2>1. collectHidden(paths, <<>>, role, level, policy) = Stops(paths, fine, <<>>)
    BY <1>1, HiddenStops
  <2>2. {p \in paths : ~Below(p, Stops(paths, fine, <<>>))} = Shown(paths, fine, <<>>)
    BY RestIsShown
  <2> QED BY <2>1, <2>2, Zenon DEF Rest
<1> HIDE DEF rest
<1>3. pruneObject(paths, <<>>, role, level, policy) = rest
  BY <1>1, <1>2, PruneShows
<1>4. Len(<<>>) = 0 /\ 0 + 1 = 1
  OBVIOUS
<1>5. ASSUME NEW p
      PROVE  p \in rest <=> p \in paths /\ Under(p, <<>>) /\ \A n \in 1..Len(p) : SubSeq(p, 1, n) \in fine
  BY <1>2, <1>4, Zenon DEF Shown
<1>6. \A p \in rest : \A n \in 1..Len(p) : Allows(role, level, policy[SubSeq(p, 1, n)])
  BY <1>1, <1>5, Zenon DEF Fine
<1>7. ASSUME NEW p \in rest, NEW m \in 1..Len(p) PROVE SubSeq(p, 1, m) \in rest
  <2>1. p \in paths /\ p \in Seq(STRING) /\ Len(p) \in Nat
    BY <1>5 DEF Document
  <2>2. PICK q \in paths : q = SubSeq(p, 1, m)
    BY <2>1, LeadsTo, Zenon
  <2>3. m \in 0..Len(p) /\ m \in 1..Len(p)
    BY <2>1
  <2>4. Len(q) = m /\ \A n \in 0..m : SubSeq(q, 1, n) = SubSeq(p, 1, n)
    BY <2>1, <2>2, <2>3, Cut
  <2>5. ASSUME NEW n \in 1..Len(q) PROVE SubSeq(q, 1, n) \in fine
    <3>1. n \in 0..m /\ n \in 1..Len(p)
      BY <2>1, <2>4
    <3> QED BY <1>5, <2>4, <3>1, Zenon
  <2>6. Under(q, <<>>)
    <3>1. q \in Seq(STRING) /\ Len(q) > 0
      BY <2>1, <2>2, <2>3, <2>4 DEF Document
    <3>2. SubSeq(q, 1, 0) = <<>>
      BY <3>1
    <3> QED BY <1>4, <3>1, <3>2, Zenon DEF Under
  <2> QED BY <1>5, <2>2, <2>5, <2>6, Zenon
<1>8. Document(rest)
  <2>1. PrefixClosed(rest)
    <3> SUFFICES ASSUME NEW p \in rest, Len(p) > 1 PROVE SubSeq(p, 1, Len(p) - 1) \in rest
      BY Zenon DEF PrefixClosed
    <3>1. Len(p) \in Nat
      BY <1>5 DEF Document
    <3>2. Len(p) - 1 \in 1..Len(p)
      BY <3>1
    <3> QED BY <1>7, <3>2
  <2>2. rest \in SUBSET paths
    BY <1>5
  <2> QED BY <2>1, <2>2, PartOfDocument
<1>9. pruneObject(rest, <<>>, role, level, policy) = rest
  <2>1. PICK own : own = Fine(rest, role, level, policy)
    OBVIOUS
  <2>2. pruneObject(rest, <<>>, role, level, policy) = Shown(rest, own, <<>>)
    BY <1>8, <2>1, PruneShows
  <2>3. ASSUME NEW p \in rest, NEW n \in 1..Len(p) PROVE SubSeq(p, 1, n) \in own
    BY <1>6, <1>7, <2>1, Zenon DEF Fine
  <2>4. ASSUME NEW p \in rest PROVE p \in Shown(rest, own, <<>>)
    BY <1>4, <1>5, <2>3, Zenon DEF Shown
  <2>5. Shown(rest, own, <<>>) \subseteq rest
    BY Zenon DEF Shown
  <2> QED BY <2>2, <2>4, <2>5, Zenon
<1> QED BY <1>3, <1>6, <1>9, Zenon DEF rest

(* Redaction never lets on that there is something it does not show        *)
(* (README.md:253), for every document, policy and grant.                  *)
THEOREM RulesHiddenIsAbsent == Spec => []HiddenIsAbsent
<1>1. Init => HiddenIsAbsent
  BY CallIs, Zenon DEF Init, HiddenIsAbsent
<1>2. HiddenIsAbsent /\ [Next]_call => HiddenIsAbsent'
  <2> SUFFICES ASSUME HiddenIsAbsent, [Next]_call PROVE HiddenIsAbsent'
    OBVIOUS
  <2>1. CASE UNCHANGED call
    BY <2>1, Zenon DEF HiddenIsAbsent
  <2>2. CASE call'.op # "redact"
    BY <2>2, Zenon DEF HiddenIsAbsent
  <2>3. ASSUME NEW paths \in Trees, NEW role \in Roles,
               NEW policy \in [Path -> Visibilities], NEW level \in LevelsOf(role),
               CallRedact(paths, role, level, policy)
        PROVE  HiddenIsAbsent'
    <3>1. Document(paths)
      <4>1. paths \in SUBSET Path /\ PrefixClosed(paths)
        BY DEF Trees
      <4> QED BY <4>1, FS_Subset, RulesAssumption, Zenon DEF Document
    <3>2. PICK hidden : hidden = collectHidden(paths, <<>>, role, level, policy)
      OBVIOUS
    <3>3. PICK rest : rest = Rest(paths, hidden)
      OBVIOUS
    <3>4. /\ pruneObject(paths, <<>>, role, level, policy) = rest
          /\ pruneObject(rest, <<>>, role, level, policy) = rest
          /\ \A p \in rest : \A n \in 1..Len(p) : Allows(role, level, policy[SubSeq(p, 1, n)])
      BY <3>1, <3>2, <3>3, RestAlone, Zenon
    <3>5. level \in 0..3
      BY DEF LevelsOf, LevelOwner, LevelObserver, Levels, LevelNone
    <3>6. /\ call'.paths = paths /\ call'.role = role /\ call'.level = level
          /\ call'.policy = policy /\ call'.hidden = hidden
          /\ call'.out = RedactDocument(paths, role, level, policy)
      BY <2>3, <3>2 DEF CallRedact
    <3>7. /\ RedactDocument(paths, role, level, policy) = RedactDocument(rest, role, level, policy)
          /\ RedactDocument(paths, role, level, policy).data
                = IF level > LevelLimited THEN rest ELSE {}
      <4>1. CASE level = 0
        BY <4>1 DEF RedactDocument, CanRead, LevelNone, LevelLimited
      <4>2. CASE level = 1
        BY <4>2 DEF RedactDocument, CanRead, LevelNone, LevelLimited
      <4>3. CASE level > 1
        <5>1. CanRead(level) /\ level # LevelLimited /\ level > LevelLimited
          BY <3>5, <4>3 DEF CanRead, LevelNone, LevelLimited
        <5>2. /\ RedactDocument(paths, role, level, policy) = [send |-> TRUE, data |-> rest]
              /\ RedactDocument(rest, role, level, policy) = [send |-> TRUE, data |-> rest]
          BY <3>4, <5>1, Zenon DEF RedactDocument
        <5> QED BY <5>1, <5>2
      <4> QED BY <3>5, <4>1, <4>2, <4>3
    <3>8. ASSUME NEW p \in RedactDocument(paths, role, level, policy).data, NEW n \in 1..Len(p)
          PROVE  policy[SubSeq(p, 1, n)] # "gm" \/ IsStaff(role)
      <4>1. p \in rest
        BY <3>7
      <4> QED BY <3>4, <4>1, Zenon DEF Allows
    <3> QED BY <3>3, <3>6, <3>7, <3>8, Zenon DEF HiddenIsAbsent, Rest
  <2> QED BY <2>1, <2>2, <2>3, NextCalls, CallIs, Zenon
<1> QED BY <1>1, <1>2, PTL DEF Spec
-----------------------------------------------------------------------------
(* The encodings of a frame (Codec).                                       *)

(* A decoder that gives every field that is not on the wire its empty      *)
(* value finds the body again, whichever empty fields were left out.       *)
LEMMA FilledAgain ==
  ASSUME NEW type, NEW body, body = [f \in Fields[type] |-> body[f]], NEW omitted
  PROVE  Filled(type, Present(body, omitted)) = body
<1> DEFINE wire == Present(body, omitted)
<1>1. DOMAIN body = Fields[type]
  BY DOMAIN [f \in Fields[type] |-> body[f]] = Fields[type]
<1>2. /\ DOMAIN wire = {f \in Fields[type] : ~(f \in omitted /\ body[f] = Zero)}
      /\ \A f \in DOMAIN wire : wire[f] = body[f]
  BY <1>1 DEF Present
<1>3. ASSUME NEW f \in Fields[type]
      PROVE  (IF f \in DOMAIN wire THEN wire[f] ELSE Zero) = body[f]
  BY <1>2
<1> HIDE DEF wire
<1>4. Filled(type, wire) = [f \in Fields[type] |-> body[f]]
  BY <1>3 DEF Filled
<1> QED BY <1>4 DEF wire

(* Every type of frame has fields, so a body is never taken for none.      *)
LEMMA BodyIsOne ==
  ASSUME NEW type \in FrameType, NEW body, body = [f \in Fields[type] |-> body[f]]
  PROVE  body # NoBody
<1>1. \E f : f \in Fields[type]
  BY SMT DEF FrameType, Fields
<1>2. DOMAIN body # {}
  BY <1>1, DOMAIN [f \in Fields[type] |-> body[f]] = Fields[type]
<1>3. DOMAIN <<>> = {}
  BY SMT
<1> QED BY <1>2, <1>3 DEF NoBody

(* Both encodings bring a frame with a body across unchanged, whatever its *)
(* fields hold, although each leaves other empty fields out (toProto,      *)
(* fromProto and the tags of frame.go).                                    *)
THEOREM FramesComeAcross ==
  ASSUME NEW type \in FrameType, NEW lane \in 0..255, NEW Value,
         NEW body \in [Fields[type] -> Value],
         NEW frame, frame = [lane |-> lane, type |-> type, body |-> body]
  PROVE  /\ toProto(frame).ok /\ fromProto(toProto(frame).frame) = Accepted(frame)
         /\ toJSON(frame).ok /\ fromJSON(toJSON(frame).frame) = Accepted(frame)
<1>1. body = [f \in Fields[type] |-> body[f]]
  OBVIOUS
<1>2. body # NoBody
  BY <1>1, BodyIsOne
<1>3. \A omitted : Filled(type, Present(body, omitted)) = body
  BY <1>1, FilledAgain
<1>4. type # "" /\ lane % 256 = lane
  <2>1. type # ""
    BY Zenon DEF FrameType, Fields
  <2>2. lane % 256 = lane
    BY SMT
  <2> QED BY <2>1, <2>2, Zenon
<1>5. frame.lane = lane /\ frame.type = type /\ frame.body = body
  BY SMT
<1>6. PICK p : p = [lane |-> lane, type |-> type, wire |-> Present(body, Fields[type])]
  BY Zenon
<1>7. PICK q : q = [lane |-> lane, type |-> type, hasBody |-> TRUE,
                    wire |-> Present(body, OmitEmpty(type))]
  BY Zenon
<1>8. /\ p.lane = lane /\ p.type = type /\ p.wire = Present(body, Fields[type])
      /\ q.lane = lane /\ q.type = type /\ q.hasBody = TRUE
      /\ q.wire = Present(body, OmitEmpty(type))
  BY <1>6, <1>7
<1>9. toProto(frame) = Accepted(p)
  BY <1>2, <1>5, <1>6, SMTT(30) DEF toProto
<1>10. toJSON(frame) = Accepted(q)
  <2>1. (frame.body # NoBody) = TRUE
    BY <1>2, <1>5
  <2> QED BY <1>2, <1>5, <1>7, <2>1, Zenon DEF toJSON
<1>11. \A m : Accepted(m).ok = TRUE /\ Accepted(m).frame = m
  BY DEF Accepted
<1>12. fromProto(p) = Accepted(frame)
  BY <1>3, <1>4, <1>8, Zenon DEF fromProto
<1>13. fromJSON(q) = Accepted(frame)
  BY <1>3, <1>4, <1>8, Zenon DEF fromJSON
<1> QED BY <1>9, <1>10, <1>11, <1>12, <1>13, SMTT(30)

(* Live frames, listings and catch-up agree about every token they are     *)
(* asked about (sight.go:177).                                             *)
THEOREM RulesPathsAgree == Spec => []PathsAgree
<1>1. Init => PathsAgree
  BY CallIs, Zenon DEF Init, PathsAgree
<1>2. PathsAgree /\ [Next]_call => PathsAgree'
  <2> SUFFICES ASSUME PathsAgree, [Next]_call PROVE PathsAgree'
    OBVIOUS
  <2>1. CASE UNCHANGED call
    BY <2>1, Zenon DEF PathsAgree, Readable
  <2>2. CASE call'.op # "sight"
    BY <2>2, Zenon DEF PathsAgree
  <2>3. ASSUME NEW role \in Roles, NEW tokens \in [Token -> Docs], NEW walls \in Walls,
               CallSight(role, tokens, walls)
        PROVE  PathsAgree'
    <3>1. PICK blockers : blockers = BlockersOf(walls)
      OBVIOUS
    <3>2. PICK points : points = ViewpointsOf(User, role, tokens)
      OBVIOUS
    <3>3. PICK one : one = [u \in {User} |-> role]
      BY Zenon
    <3>4. PICK own : own = [u \in {User} |-> points]
      BY Zenon
    <3>5. User \in {User} /\ one[User] = role /\ own[User] = points /\ DOMAIN tokens = Token
      BY <3>3, <3>4, Zenon
    <3>6. /\ call'.tokens = tokens
          /\ call'.filter = {t \in DOMAIN tokens :
                               User \in Filter({User}, one, tokens[t].pos, blockers, own)}
          /\ call'.visible = VisibleTokens(role, tokens, blockers, points)
          /\ call'.canSee = {t \in DOMAIN tokens : CanSee(role, tokens[t].pos, blockers, points)}
      BY <2>3, <3>1, <3>2, <3>3, <3>4 DEF CallSight
    <3>7. ASSUME NEW t \in Token, tokens[t].pos # Unreadable
          PROVE  /\ t \in call'.filter <=> t \in call'.canSee
                 /\ t \in call'.visible <=> t \in call'.canSee
      <4>1. /\ User \in Filter({User}, one, tokens[t].pos, blockers, own)
                  <=> CanSee(role, tokens[t].pos, blockers, points)
            /\ t \in VisibleTokens(role, tokens, blockers, points)
                  <=> CanSee(role, tokens[t].pos, blockers, points)
        BY <3>5, <3>7, SightPathsAgree, Zenon
      <4> QED BY <3>5, <3>6, <4>1, Zenon
    <3> QED BY <3>6, <3>7, Zenon DEF PathsAgree, Readable
  <2> QED BY <2>1, <2>2, <2>3, NextCalls, CallIs, Zenon
<1> QED BY <1>1, <1>2, PTL DEF Spec

(* A frame without a body, and with an empty one.                          *)
Bodiless(lane, type) == [lane |-> lane, type |-> type, body |-> NoBody]
Emptied(lane, type) == [lane |-> lane, type |-> type, body |-> [f \in Fields[type] |-> Zero]]

(* A ping or pong without a body comes across as Protobuf with an empty    *)
(* one; other frames without a body are refused.  As JSON all come across. *)
LEMMA BodilessComesAcross ==
  ASSUME NEW type \in FrameType, NEW lane \in 0..255
  PROVE  /\ Via(toProto(Bodiless(lane, type)), fromProto)
               = IF type \in {"ping", "pong"} THEN Accepted(Emptied(lane, type)) ELSE Refusal
         /\ Via(toJSON(Bodiless(lane, type)), fromJSON) = Accepted(Bodiless(lane, type))
<1> DEFINE frame == Bodiless(lane, type)
           empty == Emptied(lane, type)
<1>1. type # "" /\ lane % 256 = lane
  <2>1. type # ""
    BY Zenon DEF FrameType, Fields
  <2>2. lane % 256 = lane
    OBVIOUS
  <2> QED BY <2>1, <2>2, Zenon
<1>2. frame.lane = lane /\ frame.type = type /\ frame.body = NoBody
  BY DEF Bodiless
<1>3. Via(toProto(frame), fromProto) = IF type \in {"ping", "pong"} THEN Accepted(empty) ELSE Refusal
  <2>1. CASE type \notin {"ping", "pong"}
    <3>1. toProto(frame) = Refusal
      BY <1>2, <2>1, Zenon DEF toProto
    <3>2. Refusal.ok = FALSE
      BY DEF Refusal
    <3> QED BY <2>1, <3>1, <3>2, Zenon DEF Via
  <2>2. CASE type \in {"ping", "pong"}
    <3>1. PICK wire : wire = Present(NoBody, Fields[type])
      OBVIOUS
    <3>2. DOMAIN wire = {}
      <4>1. DOMAIN NoBody = {}
        BY DEF NoBody
      <4> QED BY <3>1, <4>1 DEF Present
    <3>3. PICK p : p = [lane |-> lane, type |-> type, wire |-> wire]
      BY Zenon
    <3>4. p.lane = lane /\ p.type = type /\ p.wire = wire
      BY <3>3
    <3>5. toProto(frame) = Accepted(p)
      BY <1>2, <2>2, <3>1, <3>3, Zenon DEF toProto
    <3>6. Accepted(p).ok = TRUE /\ Accepted(p).frame = p
      BY DEF Accepted
    <3>7. Filled(type, wire) = [f \in Fields[type] |-> Zero]
      BY <3>2 DEF Filled
    <3>8. fromProto(p) = Accepted(empty)
      BY <1>1, <3>4, <3>7, Zenon DEF fromProto, Emptied
    <3> QED BY <2>2, <3>5, <3>6, <3>8, Zenon DEF Via
  <2> QED BY <2>1, <2>2
<1>4. Via(toJSON(frame), fromJSON) = Accepted(frame)
  <2>1. PICK q : q = [lane |-> lane, type |-> type, hasBody |-> FALSE, wire |-> NoBody]
    BY Zenon
  <2>2. q.lane = lane /\ q.type = type /\ q.hasBody = FALSE
    BY <2>1
  <2>3. toJSON(frame) = Accepted(q)
    BY <1>2, <2>1, Zenon DEF toJSON
  <2>4. Accepted(q).ok = TRUE /\ Accepted(q).frame = q
    BY DEF Accepted
  <2>5. fromJSON(q) = Accepted(frame)
    BY <1>1, <2>2, Zenon DEF fromJSON, Bodiless
  <2> QED BY <2>3, <2>4, <2>5, Zenon DEF Via
<1> QED BY <1>3, <1>4

(* Whatever the type and the body, the two encodings differ in nothing but *)
(* what becomes of frames without a body (README.md:281).                  *)
THEOREM RulesCodecsAgree == Spec => []CodecsAgree
<1>1. Init => CodecsAgree
  BY CallIs, Zenon DEF Init, CodecsAgree
<1>2. CodecsAgree /\ [Next]_call => CodecsAgree'
  <2> SUFFICES ASSUME CodecsAgree, [Next]_call PROVE CodecsAgree'
    OBVIOUS
  <2>1. CASE UNCHANGED call
    BY <2>1, Zenon DEF CodecsAgree
  <2>2. CASE call'.op # "codec"
    BY <2>2, Zenon DEF CodecsAgree
  <2>3. ASSUME NEW frame \in Frames, CallCodec(frame) PROVE CodecsAgree'
    <3>1. PICK type \in FrameType :
             frame \in [lane : {0, 2, 255}, type : {type}, body : {NoBody} \cup [Fields[type] -> {Zero, 1}]]
      BY Zenon DEF Frames
    <3>2. PICK lane, body :
             /\ lane \in 0..255 /\ body \in {NoBody} \cup [Fields[type] -> {Zero, 1}]
             /\ frame = [lane |-> lane, type |-> type, body |-> body]
      BY <3>1
    <3>3. frame.type = type /\ frame.body = body
      BY <3>2
    <3>4. PICK empty : empty = Emptied(lane, type)
      OBVIOUS
    <3>5. [frame EXCEPT !.body = [f \in Fields[frame.type] |-> Zero]] = empty
      BY <3>2, <3>3, <3>4 DEF Emptied
    <3>6. /\ call'.frame = frame
          /\ call'.proto = Via(toProto(frame), fromProto)
          /\ call'.json = Via(toJSON(frame), fromJSON)
      BY <2>3 DEF CallCodec
    <3>7. CASE body = NoBody
      <4>1. frame = Bodiless(lane, type)
        BY <3>2, <3>7, SMTT(30) DEF Bodiless
      <4>2. /\ Via(toProto(frame), fromProto)
                  = IF type \in {"ping", "pong"} THEN Accepted(empty) ELSE Refusal
            /\ Via(toJSON(frame), fromJSON) = Accepted(frame)
        BY <3>2, <3>4, <4>1, BodilessComesAcross
      <4> QED BY <3>3, <3>5, <3>6, <3>7, <4>2, ZenonT(30) DEF CodecsAgree
    <3>8. CASE body # NoBody
      <4>1. body \in [Fields[type] -> {Zero, 1}]
        BY <3>2, <3>8, SMTT(30)
      <4>2. /\ toProto(frame).ok /\ fromProto(toProto(frame).frame) = Accepted(frame)
            /\ toJSON(frame).ok /\ fromJSON(toJSON(frame).frame) = Accepted(frame)
        BY <3>2, <4>1, FramesComeAcross, Zenon
      <4> QED BY <3>3, <3>6, <3>8, <4>2, ZenonT(30) DEF CodecsAgree, Via
    <3> QED BY <3>7, <3>8
  <2> QED BY <2>1, <2>2, <2>3, NextCalls, CallIs, Zenon
<1> QED BY <1>1, <1>2, PTL DEF Spec
=============================================================================
