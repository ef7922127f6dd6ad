------------------------------ MODULE Geometry ------------------------------
(***************************************************************************)
(* The two geometric tests of spatial-engine/geofencer.go on an integer    *)
(* grid.  A position is <<lat, lon>>, a polygon the sequence of its        *)
(* vertices, closed or not.  The floating-point quotient of ray casting is *)
(* an exact comparison here: both sides are multiplied by yj - yi.         *)
(***************************************************************************)
EXTENDS Integers, SequencesExt

Lat(p) == p[1]
Lon(p) == p[2]

(* computeAABB.                                                            *)
ComputeAABB(polygon) ==
    LET V == ToSet(polygon) IN
    [MinLat |-> Min({Lat(v) : v \in V}), MaxLat |-> Max({Lat(v) : v \in V}),
     MinLon |-> Min({Lon(v) : v \in V}), MaxLon |-> Max({Lon(v) : v \in V})]

(* Faults: a vertex on the ray counts from one end of an edge and not from *)
(* the other; the box mixes the axes up.                                   *)
StraddlesUneven(p, vi, vj) == (Lat(vi) > Lat(p)) # (Lat(vj) >= Lat(p))
InBoxSwapped(p, box) == /\ Lat(p) \in box.MinLon .. box.MaxLon
                        /\ Lon(p) \in box.MinLat .. box.MaxLat

(* Tier 1 of Check.                                                        *)
InBox(p, box) == /\ Lat(p) \in box.MinLat .. box.MaxLat
                 /\ Lon(p) \in box.MinLon .. box.MaxLon

(* The edge from vj to vi reaches from one side of the ray's latitude to   *)
(* the other.                                                              *)
Straddles(p, vi, vj) == (Lat(vi) > Lat(p)) # (Lat(vj) > Lat(p))

(* The ray from p to the right meets the edge:                             *)
(* lon < (xj - xi) * (lat - yi) / (yj - yi) + xi.                          *)
Crosses(p, vi, vj) ==
    LET dy == Lat(vj) - Lat(vi)
        left == (Lon(p) - Lon(vi)) * dy
        right == (Lon(vj) - Lon(vi)) * (Lat(p) - Lat(vi)) IN
    /\ Straddles(p, vi, vj)
    /\ IF dy > 0 THEN left < right ELSE left > right

(* The vertex before i: the loop starts with j at the last one.            *)
Before(polygon, i) == polygon[IF i = 1 THEN Len(polygon) ELSE i - 1]

(* Tier 2: inside has been negated an odd number of times.                 *)
PointInPolygon(p, polygon) ==
    /\ Len(polygon) >= 3
    /\ Cardinality({i \in DOMAIN polygon :
                      Crosses(p, polygon[i], Before(polygon, i))}) % 2 = 1

(* Both tiers.                                                             *)
Covers(polygon, p) == /\ polygon # << >>
                      /\ InBox(p, ComputeAABB(polygon))
                      /\ PointInPolygon(p, polygon)

-----------------------------------------------------------------------------
(* A reference: p is inside iff it is in an odd number of the triangles    *)
(* that fan out from the first vertex.  Side is the side of the line a-b   *)
(* that p is on; positions on the line of two vertices are left out.       *)
Side(p, a, b) == (Lon(b) - Lon(a)) * (Lat(p) - Lat(a))
                 - (Lat(b) - Lat(a)) * (Lon(p) - Lon(a))

OffLines(p, polygon) ==
    \A a, b \in ToSet(polygon) : a # b => Side(p, a, b) # 0

InTriangle(p, a, b, c) ==
    \/ Side(p, a, b) > 0 /\ Side(p, b, c) > 0 /\ Side(p, c, a) > 0
    \/ Side(p, a, b) < 0 /\ Side(p, b, c) < 0 /\ Side(p, c, a) < 0

InArea(p, polygon) ==
    Cardinality({i \in 2..Len(polygon) - 1 :
                   InTriangle(p, polygon[1], polygon[i], polygon[i + 1])}) % 2 = 1

(* The two polygons a cut from vertex i to vertex j leaves.                *)
CutOff(polygon, i, j) == SubSeq(polygon, i, j)
Remainder(polygon, i, j) == SubSeq(polygon, 1, i) \o SubSeq(polygon, j, Len(polygon))
=============================================================================
