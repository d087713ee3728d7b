---- MODULE WorkAreaGeometry ----
(***************************************************************************)
(* Work areas as polygons in a camera's picture (work_areas/geometry.py):  *)
(* which outlines the server accepts, and whether the point between the    *)
(* feet of a person lies in an area.  An administrator clicks the corners  *)
(* one after the other; the outline so far is the whole state.             *)
(*                                                                         *)
(* Corners and points are on a grid, so the arithmetic is exact and the    *)
(* tolerance EPS = 1e-10 is zero.  Corners are numbered from 1.            *)
(***************************************************************************)
EXTENDS Integers, FiniteSets, Sequences, Functions

CONSTANTS Width, Height,  \* the grid is (0..Width) \X (0..Height)
          MaxCorners      \* bound: corners of an outline (32 in the code)

GridAssumption == Width \in Nat /\ Height \in Nat /\ MaxCorners \in Nat

VARIABLE points  \* the outline

Grid == (0..Width) \X (0..Height)

\* The outline is made of different points of the grid.
TypeOK == /\ points \in Seq(Grid) /\ Len(points) <= MaxCorners
          /\ \A i, j \in DOMAIN points : points[i] = points[j] => i = j

Init == points = <<>>

\* A repeated corner would be refused (polygon_duplicate_vertices).
Fresh(p) == \A i \in DOMAIN points : points[i] # p

Click(p) == Len(points) < MaxCorners /\ Fresh(p) /\ points' = Append(points, p)

Next == \E p \in Grid : Click(p)

Spec == Init /\ [][Next]_points

(***************************************************************************)
(* Segments.                                                               *)
(***************************************************************************)
cross(a, b, c) == (b[1] - a[1]) * (c[2] - a[2]) - (b[2] - a[2]) * (c[1] - a[1])

Between(a, x, b) == (a <= x /\ x <= b) \/ (b <= x /\ x <= a)

on_segment(a, b, p) == cross(a, b, p) = 0 /\ \A i \in {1, 2} : Between(a[i], p[i], b[i])

Opposite(x, y) == x * y < 0

intersects(a, b, c, d) ==
    \/ Opposite(cross(a, b, c), cross(a, b, d)) /\ Opposite(cross(c, d, a), cross(c, d, b))
    \/ on_segment(a, b, c) \/ on_segment(a, b, d) \/ on_segment(c, d, a) \/ on_segment(c, d, b)

(***************************************************************************)
(* Outlines.                                                               *)
(***************************************************************************)
After(ps, i)  == ps[(i % Len(ps)) + 1]
Before(ps, i) == ps[IF i = 1 THEN Len(ps) ELSE i - 1]

\* Twice the area, with a sign.
Area2(ps) == FoldFunction(+, 0, [i \in DOMAIN ps |-> cross(<<0, 0>>, ps[i], After(ps, i))])

Neighbours(ps, i, j) == j = i + 1 \/ (i = 1 /\ j = Len(ps))

validate_points(ps) ==
    /\ Len(ps) >= 3
    /\ Area2(ps) # 0
    /\ \A i \in DOMAIN ps : cross(Before(ps, i), ps[i], After(ps, i)) # 0
    /\ \A i, j \in DOMAIN ps : i < j /\ ~ Neighbours(ps, i, j)
                                  => ~ intersects(ps[i], After(ps, i), ps[j], After(ps, j))

\* The side from a to b crosses the ray that leaves p to the right.
RayCrosses(a, b, p) ==
    /\ (a[2] > p[2]) # (b[2] > p[2])
    /\ IF b[2] > a[2] THEN (p[1] - a[1]) * (b[2] - a[2]) < (b[1] - a[1]) * (p[2] - a[2])
                      ELSE (p[1] - a[1]) * (b[2] - a[2]) > (b[1] - a[1]) * (p[2] - a[2])

OnOutline(ps, p) == \E i \in DOMAIN ps : on_segment(ps[i], After(ps, i), p)

contains(ps, p) ==
    \/ OnOutline(ps, p)
    \/ Cardinality({i \in DOMAIN ps : RayCrosses(ps[i], After(ps, i), p)}) % 2 = 1

(***************************************************************************)
(* Properties.                                                             *)
(***************************************************************************)
\* What the server accepts encloses an area, and `contains` finds exactly the points
\* of that area: by Pick's theorem, twice the area of an outline that neither crosses
\* nor touches itself is 2 * inner points + points on the outline - 2.
PickHolds ==
    validate_points(points) =>
       LET border == {p \in Grid : OnOutline(points, p)}
           inner  == {p \in Grid : contains(points, p)} \ border
       IN  Area2(points) \in {k * (2 * Cardinality(inner) + Cardinality(border) - 2) : k \in {-1, 1}}

Shifted(ps)  == [i \in DOMAIN ps |-> After(ps, i)]
Reversed(ps) == [i \in DOMAIN ps |-> ps[Len(ps) + 1 - i]]
Mirrored(ps) == [i \in DOMAIN ps |-> <<ps[i][1], Height - ps[i][2]>>]

\* It makes no difference at which corner and in which direction an outline is drawn,
\* nor which way up the picture is: the same outlines are accepted, and the same
\* persons stand in them.
DrawingIsFree ==
    /\ validate_points(Shifted(points)) = validate_points(points)
    /\ validate_points(Reversed(points)) = validate_points(points)
    /\ validate_points(points) =>
          \A p \in Grid :
             /\ contains(Shifted(points), p) = contains(points, p)
             /\ contains(Reversed(points), p) = contains(points, p)
             /\ contains(Mirrored(points), <<p[1], Height - p[2]>>) = contains(points, p)

\* The invariant: the parts above, and every variable has its type.
OutlinesHold == TypeOK /\ PickHolds /\ DrawingIsFree
====
