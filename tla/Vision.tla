------------------------------- MODULE Vision -------------------------------
(***************************************************************************)
(* Line of sight between points (internal/core/vision/vision.go).  A point *)
(* is <<x, y>>, a segment a pair of points.  Coordinates are integers, so  *)
(* the tolerance epsilon of the floating point code is zero.               *)
(***************************************************************************)
EXTENDS Integers, FiniteSets

Point == Int \X Int
Segment == Point \X Point

Least(i, j) == IF i < j THEN i ELSE j
Greatest(i, j) == IF i > j THEN i ELSE j

orientation(a, b, c) == (b[1] - a[1]) * (c[2] - a[2]) - (b[2] - a[2]) * (c[1] - a[1])

(* Wrong: looks at one coordinate only.                                    *)
onSegmentX(a, b, c) == c[1] \in Least(a[1], b[1])..Greatest(a[1], b[1])

(* Whether c, on the line through a and b, lies between them.              *)
onSegment(a, b, c) ==
    /\ c[1] <= Greatest(a[1], b[1]) /\ c[1] >= Least(a[1], b[1])
    /\ c[2] <= Greatest(a[2], b[2]) /\ c[2] >= Least(a[2], b[2])

Opposite(d, e) == (d > 0 /\ e < 0) \/ (d < 0 /\ e > 0)

(* Whether two segments have a point in common: their ends lie on opposite *)
(* sides of each other, or an end of one lies on the other.                *)
Crosses(first, second) ==
    LET d1 == orientation(first[1], first[2], second[1])
        d2 == orientation(first[1], first[2], second[2])
        d3 == orientation(second[1], second[2], first[1])
        d4 == orientation(second[1], second[2], first[2])
    IN \/ Opposite(d1, d2) /\ Opposite(d3, d4)
       \/ d1 = 0 /\ onSegment(first[1], first[2], second[1])
       \/ d2 = 0 /\ onSegment(first[1], first[2], second[2])
       \/ d3 = 0 /\ onSegment(second[1], second[2], first[1])
       \/ d4 = 0 /\ onSegment(second[1], second[2], first[2])

Visible(from, to, blockers) == \A b \in blockers : ~Crosses(<<from, to>>, b)

(* Without a viewpoint nothing is hidden.                                  *)
VisibleFromAny(viewpoints, to, blockers) ==
    viewpoints = {} \/ \E v \in viewpoints : Visible(v, to, blockers)
=============================================================================
