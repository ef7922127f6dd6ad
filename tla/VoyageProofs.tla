---------------------------- MODULE VoyageProofs ----------------------------
(***************************************************************************)
(* Proofs about the movement of the simulated vessels: normal vessels in   *)
(* any area, violators on the routes of zones.go.                          *)
(***************************************************************************)
EXTENDS Voyage, TLAPS, FiniteSetTheorems, SequenceTheorems

(* Positions that reach from side to side of a box and not beyond it.      *)
HasBox(S, lat1, lat2, lon1, lon2) ==
    /\ \A v \in S : Lat(v) \in lat1..lat2 /\ Lon(v) \in lon1..lon2
    /\ \E v \in S : Lat(v) = lat1
    /\ \E v \in S : Lat(v) = lat2
    /\ \E v \in S : Lon(v) = lon1
    /\ \E v \in S : Lon(v) = lon2

(* The box of a polygon is that of its vertices.                           *)
LEMMA BoxBounds ==
    ASSUME NEW polygon, NEW lat1 \in Int, NEW lat2 \in Int, NEW lon1 \in Int, NEW lon2 \in Int,
           HasBox(ToSet(polygon), lat1, lat2, lon1, lon2)
    PROVE  ComputeAABB(polygon) = [MinLat |-> lat1, MaxLat |-> lat2,
                                   MinLon |-> lon1, MaxLon |-> lon2]
<1>1. ASSUME NEW S, NEW lo \in Int, NEW hi \in Int, S \subseteq lo..hi, lo \in S, hi \in S
      PROVE  Min(S) = lo /\ Max(S) = hi
  <2>1. \A x \in S : (\A y \in S : x <= y) => x = lo
    BY <1>1
  <2>2. \A x \in S : (\A y \in S : x >= y) => x = hi
    BY <1>1
  <2>3. (\A y \in S : lo <= y) /\ (\A y \in S : hi >= y)
    BY <1>1
  <2>4. Min(S) \in S /\ \A y \in S : Min(S) <= y
    BY <1>1, <2>3, Zenon DEF Min
  <2>5. Max(S) \in S /\ \A y \in S : Max(S) >= y
    BY <1>1, <2>3, Zenon DEF Max
  <2> QED BY <2>1, <2>2, <2>4, <2>5
<1> DEFINE Lats == {Lat(v) : v \in ToSet(polygon)}
           Lons == {Lon(v) : v \in ToSet(polygon)}
<1>2. Lats \subseteq lat1..lat2 /\ lat1 \in Lats /\ lat2 \in Lats
  BY DEF HasBox
<1>3. Lons \subseteq lon1..lon2 /\ lon1 \in Lons /\ lon2 \in Lons
  BY DEF HasBox
<1>4. ComputeAABB(polygon) = [MinLat |-> Min(Lats), MaxLat |-> Max(Lats),
                              MinLon |-> Min(Lons), MaxLon |-> Max(Lons)]
  BY DEF ComputeAABB
<1> HIDE DEF Lats, Lons
<1>5. Min(Lats) = lat1 /\ Max(Lats) = lat2
  BY <1>1, <1>2, Zenon
<1>6. Min(Lons) = lon1 /\ Max(Lons) = lon2
  BY <1>1, <1>3, Zenon
<1> QED BY <1>4, <1>5, <1>6

LEMMA AtCoordinates ==
    ASSUME NEW y \in Int, NEW x \in Int
    PROVE  /\ Lat(At(y, x)) = 2 * y /\ Lon(At(y, x)) = 2 * x
           /\ 2 * y \in Int /\ 2 * x \in Int
  BY DEF Lat, Lon, At

LEMMA RectangleBox ==
    ASSUME NEW s \in Int, NEW w \in Int, NEW n \in Int, NEW e \in Int, s < n, w < e
    PROVE  ComputeAABB(Rectangle(s, w, n, e))
           = [MinLat |-> 2 * s, MaxLat |-> 2 * n, MinLon |-> 2 * w, MaxLon |-> 2 * e]
<1> DEFINE r == Rectangle(s, w, n, e)
           V == ToSet(r)
<1>1. V = {At(s, w), At(s, e), At(n, e), At(n, w)}
  BY DEF Rectangle, ToSet
<1>2. 2 * s <= 2 * n /\ 2 * w <= 2 * e /\ {2 * s, 2 * n, 2 * w, 2 * e} \subseteq Int
  OBVIOUS
<1>3. \A v \in V : Lat(v) \in {2 * s, 2 * n} /\ Lon(v) \in {2 * w, 2 * e}
  BY <1>1, AtCoordinates
<1>4. {2 * s, 2 * n} \subseteq (2 * s)..(2 * n) /\ {2 * w, 2 * e} \subseteq (2 * w)..(2 * e)
  BY <1>2
<1>5. At(s, w) \in V /\ At(n, e) \in V
  BY <1>1
<1>6. Lat(At(s, w)) = 2 * s /\ Lon(At(s, w)) = 2 * w /\ Lat(At(n, e)) = 2 * n /\ Lon(At(n, e)) = 2 * e
  BY AtCoordinates
<1> HIDE DEF V
<1>7. \A v \in V : Lat(v) \in (2 * s)..(2 * n) /\ Lon(v) \in (2 * w)..(2 * e)
  BY <1>3, <1>4
<1>8. /\ \E v \in V : Lat(v) = 2 * s
      /\ \E v \in V : Lat(v) = 2 * n
      /\ \E v \in V : Lon(v) = 2 * w
      /\ \E v \in V : Lon(v) = 2 * e
  BY <1>5, <1>6
<1> HIDE DEF r
<1>9. ComputeAABB(r) = [MinLat |-> 2 * s, MaxLat |-> 2 * n, MinLon |-> 2 * w, MaxLon |-> 2 * e]
  <2> DEFINE a == 2 * s
             b == 2 * n
             c == 2 * w
             d == 2 * e
  <2>1. a \in Int /\ b \in Int /\ c \in Int /\ d \in Int /\ HasBox(ToSet(r), a, b, c, d)
    BY <1>2, <1>7, <1>8 DEF HasBox, V
  <2> HIDE DEF a, b, c, d
  <2>2. ComputeAABB(r) = [MinLat |-> a, MaxLat |-> b, MinLon |-> c, MaxLon |-> d]
    BY <2>1, BoxBounds
  <2> QED BY <2>2 DEF a, b, c, d
<1> QED BY <1>9 DEF r

(* A rectangle covers the positions from its south-western corner on, up   *)
(* to its other sides and without them.                                    *)
LEMMA RectangleCovers ==
    ASSUME NEW s \in Int, NEW w \in Int, NEW n \in Int, NEW e \in Int, s < n, w < e,
           NEW p \in Int \X Int
    PROVE  Covers(Rectangle(s, w, n, e), p)
           <=> /\ 2 * s <= Lat(p) /\ Lat(p) < 2 * n
               /\ 2 * w <= Lon(p) /\ Lon(p) < 2 * e
<1> DEFINE r == Rectangle(s, w, n, e)
           C == {i \in DOMAIN r : Crosses(p, r[i], Before(r, i))}
           y == Lat(p)
           x == Lon(p)
<1>1. y \in Int /\ x \in Int
  BY DEF Lat, Lon
<1>2. /\ Len(r) = 5 /\ DOMAIN r = 1..5 /\ r # << >>
      /\ r[1] = At(s, w) /\ r[2] = At(s, e) /\ r[3] = At(n, e)
      /\ r[4] = At(n, w) /\ r[5] = At(s, w)
  BY DEF Rectangle
<1> HIDE DEF r
<1>3. /\ Before(r, 1) = At(s, w) /\ Before(r, 2) = At(s, w) /\ Before(r, 3) = At(s, e)
      /\ Before(r, 4) = At(n, e) /\ Before(r, 5) = At(n, w)
  BY <1>2 DEF Before
<1>4. \A y1, x1, y2, x2 \in Int :
        Crosses(p, At(y1, x1), At(y2, x2))
        <=> /\ (2 * y1 > y) # (2 * y2 > y)
            /\ IF 2 * y2 - 2 * y1 > 0
               THEN (x - 2 * x1) * (2 * y2 - 2 * y1) < (2 * x2 - 2 * x1) * (y - 2 * y1)
               ELSE (x - 2 * x1) * (2 * y2 - 2 * y1) > (2 * x2 - 2 * x1) * (y - 2 * y1)
  BY AtCoordinates DEF Crosses, Straddles
<1>5. ~Crosses(p, r[1], Before(r, 1)) /\ ~Crosses(p, r[2], Before(r, 2)) /\ ~Crosses(p, r[4], Before(r, 4))
  BY <1>1, <1>2, <1>3, <1>4
<1> DEFINE d == 2 * n - 2 * s
<1>6. d \in Int /\ d > 0
  OBVIOUS
<1>7. \A a \in Int : (a * (-d) > 0 <=> a < 0) /\ (a * d < 0 <=> a < 0)
  BY <1>6
<1>8. Crosses(p, r[3], Before(r, 3)) <=> 2 * s <= y /\ y < 2 * n /\ x < 2 * e
  <2>1. 2 * s - 2 * n = -d /\ 2 * e - 2 * e = 0 /\ x - 2 * e \in Int
    BY <1>1
  <2>2. Crosses(p, r[3], Before(r, 3)) <=> /\ (2 * n > y) # (2 * s > y)
                                           /\ (x - 2 * e) * (-d) > 0 * (y - 2 * n)
    BY <1>2, <1>3, <1>4, <1>6, <2>1
  <2>3. 0 * (y - 2 * n) = 0
    BY <1>1
  <2>4. Crosses(p, r[3], Before(r, 3)) <=> ((2 * n > y) # (2 * s > y)) /\ x - 2 * e < 0
    BY <1>7, <2>1, <2>2, <2>3
  <2> QED BY <1>1, <2>4
<1>9. Crosses(p, r[5], Before(r, 5)) <=> 2 * s <= y /\ y < 2 * n /\ x < 2 * w
  <2>1. 2 * w - 2 * w = 0 /\ x - 2 * w \in Int
    BY <1>1
  <2>2. Crosses(p, r[5], Before(r, 5)) <=> /\ (2 * s > y) # (2 * n > y)
                                           /\ (x - 2 * w) * d < 0 * (y - 2 * s)
    BY <1>2, <1>3, <1>4, <1>6, <2>1
  <2>3. 0 * (y - 2 * s) = 0
    BY <1>1
  <2>4. Crosses(p, r[5], Before(r, 5)) <=> ((2 * s > y) # (2 * n > y)) /\ x - 2 * w < 0
    BY <1>7, <2>1, <2>2, <2>3
  <2> QED BY <1>1, <2>4
<1>10. C \subseteq {3, 5}
  BY <1>2, <1>5
<1>11. /\ 3 \in C <=> 2 * s <= y /\ y < 2 * n /\ x < 2 * e
       /\ 5 \in C <=> 2 * s <= y /\ y < 2 * n /\ x < 2 * w
  BY <1>2, <1>8, <1>9
<1> HIDE DEF C
<1>12. C = {} \/ C = {3} \/ C = {5} \/ C = {3, 5}
  BY <1>10
<1>13. Cardinality({}) = 0 /\ Cardinality({3}) = 1 /\ Cardinality({5}) = 1 /\ Cardinality({3, 5}) = 2
  <2>1. IsFiniteSet({3}) /\ Cardinality({3}) = 1 /\ Cardinality({5}) = 1
    BY FS_Singleton
  <2>2. Cardinality({3} \cup {5}) = Cardinality({3}) + 1
    BY <2>1, FS_AddElement, 5 \notin {3}
  <2>3. {3} \cup {5} = {3, 5}
    OBVIOUS
  <2> QED BY <2>1, <2>2, <2>3, FS_EmptySet
<1>14. Cardinality(C) % 2 = 1 <=> (C = {3} \/ C = {5})
  BY <1>12, <1>13
<1>15. PointInPolygon(p, r) <=> (C = {3} \/ C = {5})
  BY <1>2, <1>14 DEF PointInPolygon, C
<1>16. PointInPolygon(p, r) <=> 2 * s <= y /\ y < 2 * n /\ 2 * w <= x /\ x < 2 * e
  BY <1>1, <1>11, <1>12, <1>15
<1>17. InBox(p, ComputeAABB(r)) <=> 2 * s <= y /\ y <= 2 * n /\ 2 * w <= x /\ x <= 2 * e
  <2>1. ComputeAABB(r) = [MinLat |-> 2 * s, MaxLat |-> 2 * n, MinLon |-> 2 * w, MaxLon |-> 2 * e]
    BY RectangleBox DEF r
  <2>2. InBox(p, ComputeAABB(r)) <=> y \in (2 * s)..(2 * n) /\ x \in (2 * w)..(2 * e)
    BY <2>1 DEF InBox
  <2> QED BY <1>1, <2>2
<1> HIDE DEF x, y
<1>18. Covers(r, p) <=> InBox(p, ComputeAABB(r)) /\ PointInPolygon(p, r)
  BY <1>2 DEF Covers
<1> QED BY <1>1, <1>16, <1>17, <1>18 DEF r, x, y

-----------------------------------------------------------------------------
(* The routes as data: waypoints are positions, and each route is within   *)
(* limits of its own.                                                      *)
WithinLimits(r, lat1, lat2, lon1, lon2) ==
    \A k \in 1..Len(r.Waypoints) : /\ Lat(r.Waypoints[k]) \in lat1..lat2
                                   /\ Lon(r.Waypoints[k]) \in lon1..lon2


LEMMA RouteLimits ==
    ASSUME NEW r \in ViolatorRoutes
    PROVE  \/ WithinLimits(r, 36, 52, 448, 464) /\ r.Through = {1}
           \/ WithinLimits(r, 58, 72, 440, 456) /\ r.Through = {2}
           \/ WithinLimits(r, 24, 40, 396, 412) /\ r.Through = {3}
           \/ WithinLimits(r, 2, 16, 408, 420) /\ r.Through = {4}
           \/ WithinLimits(r, 20, 36, 472, 488) /\ r.Through = {5}
           \/ WithinLimits(r, 4, 16, 408, 432) /\ r.Through = {4, 6}
           \/ WithinLimits(r, 54, 68, 464, 476) /\ r.Through = {7}
<1>1. ASSUME r = [Waypoints |-> << At(18, 224), At(22, 228), At(23, 229), At(26, 232) >>,
                   Through |-> {1}]
      PROVE  WithinLimits(r, 36, 52, 448, 464) /\ r.Through = {1}
  <2>1. Len(r.Waypoints) = 4 /\ r.Through = {1}
    BY <1>1
  <2>2. /\ Lat(r.Waypoints[1]) = 36 /\ Lon(r.Waypoints[1]) = 448
        /\ Lat(r.Waypoints[2]) = 44 /\ Lon(r.Waypoints[2]) = 456
        /\ Lat(r.Waypoints[3]) = 46 /\ Lon(r.Waypoints[3]) = 458
        /\ Lat(r.Waypoints[4]) = 52 /\ Lon(r.Waypoints[4]) = 464
    BY <1>1 DEF At, Lat, Lon
  <2> QED BY <2>1, <2>2 DEF WithinLimits
<1>2. ASSUME r = [Waypoints |-> << At(29, 220), At(32, 224), At(33, 225), At(36, 228) >>,
                   Through |-> {2}]
      PROVE  WithinLimits(r, 58, 72, 440, 456) /\ r.Through = {2}
  <2>1. Len(r.Waypoints) = 4 /\ r.Through = {2}
    BY <1>2
  <2>2. /\ Lat(r.Waypoints[1]) = 58 /\ Lon(r.Waypoints[1]) = 440
        /\ Lat(r.Waypoints[2]) = 64 /\ Lon(r.Waypoints[2]) = 448
        /\ Lat(r.Waypoints[3]) = 66 /\ Lon(r.Waypoints[3]) = 450
        /\ Lat(r.Waypoints[4]) = 72 /\ Lon(r.Waypoints[4]) = 456
    BY <1>2 DEF At, Lat, Lon
  <2> QED BY <2>1, <2>2 DEF WithinLimits
<1>3. ASSUME r = [Waypoints |-> << At(12, 198), At(16, 202), At(17, 203), At(16, 204), At(20, 206) >>,
                   Through |-> {3}]
      PROVE  WithinLimits(r, 24, 40, 396, 412) /\ r.Through = {3}
  <2>1. Len(r.Waypoints) = 5 /\ r.Through = {3}
    BY <1>3
  <2>2. /\ Lat(r.Waypoints[1]) = 24 /\ Lon(r.Waypoints[1]) = 396
        /\ Lat(r.Waypoints[2]) = 32 /\ Lon(r.Waypoints[2]) = 404
        /\ Lat(r.Waypoints[3]) = 34 /\ Lon(r.Waypoints[3]) = 406
        /\ Lat(r.Waypoints[4]) = 32 /\ Lon(r.Waypoints[4]) = 408
        /\ Lat(r.Waypoints[5]) = 40 /\ Lon(r.Waypoints[5]) = 412
    BY <1>3 DEF At, Lat, Lon
  <2> QED BY <2>1, <2>2 DEF WithinLimits
<1>4. ASSUME r = [Waypoints |-> << At(1, 204), At(4, 207), At(5, 208), At(8, 210) >>,
                   Through |-> {4}]
      PROVE  WithinLimits(r, 2, 16, 408, 420) /\ r.Through = {4}
  <2>1. Len(r.Waypoints) = 4 /\ r.Through = {4}
    BY <1>4
  <2>2. /\ Lat(r.Waypoints[1]) = 2 /\ Lon(r.Waypoints[1]) = 408
        /\ Lat(r.Waypoints[2]) = 8 /\ Lon(r.Waypoints[2]) = 414
        /\ Lat(r.Waypoints[3]) = 10 /\ Lon(r.Waypoints[3]) = 416
        /\ Lat(r.Waypoints[4]) = 16 /\ Lon(r.Waypoints[4]) = 420
    BY <1>4 DEF At, Lat, Lon
  <2> QED BY <2>1, <2>2 DEF WithinLimits
<1>5. ASSUME r = [Waypoints |-> << At(10, 236), At(14, 240), At(15, 241), At(18, 244) >>,
                   Through |-> {5}]
      PROVE  WithinLimits(r, 20, 36, 472, 488) /\ r.Through = {5}
  <2>1. Len(r.Waypoints) = 4 /\ r.Through = {5}
    BY <1>5
  <2>2. /\ Lat(r.Waypoints[1]) = 20 /\ Lon(r.Waypoints[1]) = 472
        /\ Lat(r.Waypoints[2]) = 28 /\ Lon(r.Waypoints[2]) = 480
        /\ Lat(r.Waypoints[3]) = 30 /\ Lon(r.Waypoints[3]) = 482
        /\ Lat(r.Waypoints[4]) = 36 /\ Lon(r.Waypoints[4]) = 488
    BY <1>5 DEF At, Lat, Lon
  <2> QED BY <2>1, <2>2 DEF WithinLimits
<1>6. ASSUME r = [Waypoints |-> << At(4, 212), At(8, 216), At(7, 215),
             At(5, 210), At(4, 207), At(2, 204) >>,
                   Through |-> {4, 6}]
      PROVE  WithinLimits(r, 4, 16, 408, 432) /\ r.Through = {4, 6}
  <2>1. Len(r.Waypoints) = 6 /\ r.Through = {4, 6}
    BY <1>6
  <2>2. /\ Lat(r.Waypoints[1]) = 8 /\ Lon(r.Waypoints[1]) = 424
        /\ Lat(r.Waypoints[2]) = 16 /\ Lon(r.Waypoints[2]) = 432
        /\ Lat(r.Waypoints[3]) = 14 /\ Lon(r.Waypoints[3]) = 430
        /\ Lat(r.Waypoints[4]) = 10 /\ Lon(r.Waypoints[4]) = 420
        /\ Lat(r.Waypoints[5]) = 8 /\ Lon(r.Waypoints[5]) = 414
        /\ Lat(r.Waypoints[6]) = 4 /\ Lon(r.Waypoints[6]) = 408
    BY <1>6 DEF At, Lat, Lon
  <2> QED BY <2>1, <2>2 DEF WithinLimits
<1>7. ASSUME r = [Waypoints |-> << At(27, 232), At(30, 235), At(31, 236), At(34, 238) >>,
                   Through |-> {7}]
      PROVE  WithinLimits(r, 54, 68, 464, 476) /\ r.Through = {7}
  <2>1. Len(r.Waypoints) = 4 /\ r.Through = {7}
    BY <1>7
  <2>2. /\ Lat(r.Waypoints[1]) = 54 /\ Lon(r.Waypoints[1]) = 464
        /\ Lat(r.Waypoints[2]) = 60 /\ Lon(r.Waypoints[2]) = 470
        /\ Lat(r.Waypoints[3]) = 62 /\ Lon(r.Waypoints[3]) = 472
        /\ Lat(r.Waypoints[4]) = 68 /\ Lon(r.Waypoints[4]) = 476
    BY <1>7 DEF At, Lat, Lon
  <2> QED BY <2>1, <2>2 DEF WithinLimits
<1> QED BY <1>1, <1>2, <1>3, <1>4, <1>5, <1>6, <1>7 DEF ViolatorRoutes

LEMMA RouteShape ==
    ASSUME NEW r \in ViolatorRoutes
    PROVE  /\ r.Waypoints \in Seq(Int \X Int) /\ Len(r.Waypoints) \in {4, 5, 6}
           /\ r # NoRoute
<1>1. ASSUME r = [Waypoints |-> << At(18, 224), At(22, 228), At(23, 229), At(26, 232) >>,
                   Through |-> {1}]
      PROVE  r.Waypoints \in Seq(Int \X Int) /\ Len(r.Waypoints) = 4 /\ r.Through # {}
  BY <1>1 DEF At
<1>2. ASSUME r = [Waypoints |-> << At(29, 220), At(32, 224), At(33, 225), At(36, 228) >>,
                   Through |-> {2}]
      PROVE  r.Waypoints \in Seq(Int \X Int) /\ Len(r.Waypoints) = 4 /\ r.Through # {}
  BY <1>2 DEF At
<1>3. ASSUME r = [Waypoints |-> << At(12, 198), At(16, 202), At(17, 203), At(16, 204), At(20, 206) >>,
                   Through |-> {3}]
      PROVE  r.Waypoints \in Seq(Int \X Int) /\ Len(r.Waypoints) = 5 /\ r.Through # {}
  BY <1>3 DEF At
<1>4. ASSUME r = [Waypoints |-> << At(1, 204), At(4, 207), At(5, 208), At(8, 210) >>,
                   Through |-> {4}]
      PROVE  r.Waypoints \in Seq(Int \X Int) /\ Len(r.Waypoints) = 4 /\ r.Through # {}
  BY <1>4 DEF At
<1>5. ASSUME r = [Waypoints |-> << At(10, 236), At(14, 240), At(15, 241), At(18, 244) >>,
                   Through |-> {5}]
      PROVE  r.Waypoints \in Seq(Int \X Int) /\ Len(r.Waypoints) = 4 /\ r.Through # {}
  BY <1>5 DEF At
<1>6. ASSUME r = [Waypoints |-> << At(4, 212), At(8, 216), At(7, 215),
             At(5, 210), At(4, 207), At(2, 204) >>,
                   Through |-> {4, 6}]
      PROVE  r.Waypoints \in Seq(Int \X Int) /\ Len(r.Waypoints) = 6 /\ r.Through # {}
  BY <1>6 DEF At
<1>7. ASSUME r = [Waypoints |-> << At(27, 232), At(30, 235), At(31, 236), At(34, 238) >>,
                   Through |-> {7}]
      PROVE  r.Waypoints \in Seq(Int \X Int) /\ Len(r.Waypoints) = 4 /\ r.Through # {}
  BY <1>7 DEF At
<1>8. /\ r.Waypoints \in Seq(Int \X Int) /\ r.Through # {}
      /\ Len(r.Waypoints) \in {4, 5, 6}
  BY <1>1, <1>2, <1>3, <1>4, <1>5, <1>6, <1>7, SMTT(40) DEF ViolatorRoutes
<1> QED BY <1>8 DEF NoRoute

-----------------------------------------------------------------------------
(* Types.                                                                  *)
LEMMA CourseReflected ==
    ASSUME NEW c \in Course, NEW p
    PROVE  Reflect(c, p) \in Course
<1>1. Course = {0, 30, 60, 90, 120, 150, 180, 210, 240, 270, 300, 330}
  BY DEF Course
<1>2. \A d \in Course : (720 - d) % 360 \in Course /\ (540 - d) % 360 \in Course
  BY <1>1
<1> QED BY <1>2 DEF Reflect

LEMMA TypeInit ==
    ASSUME Init
    PROVE  TypeOK
<1>1. CASE route = NoRoute
  <2>1. (LatMin..LatMax) \X (LonMin..LonMax) \subseteq Int \X Int
    OBVIOUS
  <2>2. NoRoute \notin ViolatorRoutes
    BY RouteShape
  <2> QED BY <1>1, <2>1, <2>2 DEF Init, TypeOK
<1>2. CASE route # NoRoute
  <2>1. route \in ViolatorRoutes
    BY <1>2 DEF Init
  <2>2. route.Waypoints[1] \in Int \X Int /\ 1 \in 1..Len(route.Waypoints)
    <3>1. route.Waypoints \in Seq(Int \X Int) /\ Len(route.Waypoints) \in {4, 5, 6}
      BY <2>1, RouteShape
    <3>2. 1 \in 1..Len(route.Waypoints)
      BY <3>1
    <3> QED BY <3>1, <3>2, ElementOfSeq
  <2>3. COG = 0 /\ WaypointIdx = 1
    BY <1>2 DEF Init
  <2>4. \E dLat, dLon \in {-1, 0, 1} :
          pos = << Lat(route.Waypoints[1]) + dLat, Lon(route.Waypoints[1]) + dLon >>
    BY <1>2 DEF Init
  <2>5. pos \in Int \X Int
    BY <2>2, <2>4 DEF Lat, Lon
  <2>6. 0 \in Course
    BY DEF Course
  <2> QED BY <1>2, <2>1, <2>2, <2>3, <2>5, <2>6 DEF TypeOK
<1> QED BY <1>1, <1>2

(* What the two ways to move keep.                                         *)
LEMMA TypeStep ==
    ASSUME TypeOK, [Next]_vars
    PROVE  TypeOK'
<1>1. ASSUME TickNormal PROVE TypeOK'
  <2>1. PICK n \in North(COG), e \in East(COG), delta \in {-30, 0, 30} :
          LET p == << Lat(pos) + n, Lon(pos) + e >> IN
          /\ pos' = << Keep(Lat(p), LatMin, LatMax), Keep(Lon(p), LonMin, LonMax) >>
          /\ COG' = Reflect((COG + delta + 360) % 360, p)
    BY <1>1 DEF TickNormal
  <2>2. COG' \in Course
    <3> DEFINE a == COG
               c == (a + delta + 360) % 360
               p == << Lat(pos) + n, Lon(pos) + e >>
    <3>1. a \in Course
      BY DEF TypeOK
    <3>2. COG' = Reflect(c, p)
      BY <2>1
    <3> HIDE DEF a, p
    <3>3. \A d \in Course : (d + delta + 360) % 360 \in Course
      <4>1. Course = {0, 30, 60, 90, 120, 150, 180, 210, 240, 270, 300, 330}
        BY DEF Course
      <4> QED BY <4>1
    <3>4. c \in Course
      BY <3>1, <3>3
    <3> HIDE DEF c
    <3> QED BY <3>2, <3>4, CourseReflected
  <2>3. n \in Int /\ e \in Int
    BY DEF North, East
  <2>4. pos' \in Int \X Int
    <3>1. \A x \in Int : Keep(x, LatMin, LatMax) \in Int /\ Keep(x, LonMin, LonMax) \in Int
      BY VoyageAssumption DEF Keep
    <3>2. Lat(pos) + n \in Int /\ Lon(pos) + e \in Int
      BY <2>3 DEF TypeOK, Lat, Lon
    <3>3. pos' = << Keep(Lat(pos) + n, LatMin, LatMax), Keep(Lon(pos) + e, LonMin, LonMax) >>
      BY <2>1 DEF Lat, Lon
    <3> QED BY <3>1, <3>2, <3>3
  <2> QED BY <1>1, <2>2, <2>4 DEF TickNormal, TypeOK
<1>2. ASSUME Reach PROVE TypeOK'
  <2>1. route \in ViolatorRoutes /\ WaypointIdx \in 1..Len(route.Waypoints)
    BY <1>2 DEF Reach, TypeOK
  <2>2. WaypointIdx' \in 1..Len(route.Waypoints)
    <3>1. Len(route.Waypoints) \in {4, 5, 6}
      BY <2>1, RouteShape
    <3>2. \A n \in {4, 5, 6} : \A k \in 1..n : (k % n) + 1 \in 1..n
      OBVIOUS
    <3> QED BY <1>2, <2>1, <3>1, <3>2 DEF Reach, NextWaypoint
  <2> QED BY <1>2, <2>2 DEF Reach, TypeOK
<1>3. ASSUME Sail PROVE TypeOK'
  <2>1. Target \in Int \X Int
    BY <1>3, RouteShape, ElementOfSeq DEF Sail, TypeOK, Target
  <2>2. \A x, t \in Int : Towards(x, t) \subseteq Int
    BY DEF Towards
  <2>3. pos' \in Int \X Int
    BY <1>3, <2>1, <2>2 DEF Sail, TypeOK, Lat, Lon
  <2> QED BY <1>3, <2>3 DEF Sail, TypeOK
<1> QED BY <1>1, <1>2, <1>3 DEF Next, vars, TypeOK

(* Routes, positions and courses are of their types, and a violator always *)
(* has a waypoint to go to (vessel.go 154-175).                            *)
THEOREM TypeCorrect == Spec => []TypeOK
  BY TypeInit, TypeStep, PTL DEF Spec

-----------------------------------------------------------------------------
(* A coordinate of a violator is between those of two waypoints, but for   *)
(* the quarter of a degree it may have started with.                       *)
Between(x, c) == /\ \E a \in DOMAIN c : c[a] - 1 <= x
                 /\ \E b \in DOMAIN c : x <= c[b] + 1

Lats(r) == [i \in 1..Len(r.Waypoints) |-> Lat(r.Waypoints[i])]
Lons(r) == [i \in 1..Len(r.Waypoints) |-> Lon(r.Waypoints[i])]

OnRoute == route # NoRoute => /\ Between(Lat(pos), Lats(route))
                              /\ Between(Lon(pos), Lons(route))

(* It sails towards a waypoint and not past it.                            *)
LEMMA TowardsBetween ==
    ASSUME NEW n \in Nat, NEW c \in [1..n -> Int], NEW k \in 1..n,
           NEW x \in Int, Between(x, c), NEW y \in Towards(x, c[k])
    PROVE  Between(y, c)
<1>1. c[k] \in Int /\ DOMAIN c = 1..n
  OBVIOUS
<1>2. y \in Int /\ ((x <= y /\ (y = x \/ y <= c[k])) \/ (y <= x /\ (y = x \/ c[k] <= y)))
  BY <1>1 DEF Towards
<1>3. PICK a \in 1..n : c[a] - 1 <= x
  BY <1>1 DEF Between
<1>4. PICK b \in 1..n : x <= c[b] + 1
  BY <1>1 DEF Between
<1>5. c[a] \in Int /\ c[b] \in Int
  OBVIOUS
<1>6. c[a] - 1 <= y \/ c[k] - 1 <= y
  BY <1>1, <1>2, <1>3, <1>5
<1>7. y <= c[b] + 1 \/ y <= c[k] + 1
  BY <1>1, <1>2, <1>4, <1>5
<1> QED BY <1>1, <1>6, <1>7 DEF Between

LEMMA RouteCoordinates ==
    ASSUME NEW r \in ViolatorRoutes
    PROVE  LET n == Len(r.Waypoints) IN
           /\ n \in {4, 5, 6} /\ Lats(r) \in [1..n -> Int] /\ Lons(r) \in [1..n -> Int]
           /\ \A i \in 1..n : /\ Lats(r)[i] = Lat(r.Waypoints[i])
                              /\ Lons(r)[i] = Lon(r.Waypoints[i])
<1>1. r.Waypoints \in Seq(Int \X Int) /\ Len(r.Waypoints) \in {4, 5, 6}
  BY RouteShape
<1>2. \A i \in 1..Len(r.Waypoints) : r.Waypoints[i] \in Int \X Int
  BY <1>1, ElementOfSeq
<1>3. \A p \in Int \X Int : Lat(p) \in Int /\ Lon(p) \in Int
  BY DEF Lat, Lon
<1> QED BY <1>1, <1>2, <1>3 DEF Lats, Lons

LEMMA OnRouteInit ==
    ASSUME Init
    PROVE  OnRoute
<1>1. SUFFICES ASSUME route # NoRoute
               PROVE  Between(Lat(pos), Lats(route)) /\ Between(Lon(pos), Lons(route))
  BY DEF OnRoute
<1>2. route \in ViolatorRoutes
  BY <1>1 DEF Init
<1> DEFINE y == Lats(route)[1]
           x == Lons(route)[1]
<1>3. /\ y = Lat(route.Waypoints[1]) /\ x = Lon(route.Waypoints[1])
      /\ y \in Int /\ x \in Int /\ 1 \in DOMAIN Lats(route) /\ 1 \in DOMAIN Lons(route)
  BY <1>2, RouteCoordinates
<1>4. \E dLat, dLon \in {-1, 0, 1} : pos = << Lat(route.Waypoints[1]) + dLat, Lon(route.Waypoints[1]) + dLon >>
  BY <1>1 DEF Init
<1>5. \E dLat, dLon \in {-1, 0, 1} : Lat(pos) = y + dLat /\ Lon(pos) = x + dLon
  BY <1>3, <1>4 DEF Lat, Lon
<1>6. y - 1 <= Lat(pos) /\ Lat(pos) <= y + 1 /\ x - 1 <= Lon(pos) /\ Lon(pos) <= x + 1
  BY <1>3, <1>5
<1> QED BY <1>3, <1>6 DEF Between

LEMMA OnRouteStep ==
    ASSUME TypeOK, OnRoute, [Next]_vars
    PROVE  OnRoute'
<1>1. ASSUME Sail PROVE OnRoute'
  <2>1. route \in ViolatorRoutes /\ WaypointIdx \in 1..Len(route.Waypoints) /\ route' = route
    BY <1>1 DEF Sail, TypeOK
  <2> DEFINE n == Len(route.Waypoints)
             y == Lats(route)
             x == Lons(route)
  <2>2. /\ n \in Nat /\ y \in [1..n -> Int] /\ x \in [1..n -> Int]
        /\ y[WaypointIdx] = Lat(Target) /\ x[WaypointIdx] = Lon(Target)
    BY <2>1, RouteCoordinates DEF Target
  <2>3. Between(Lat(pos), y) /\ Between(Lon(pos), x)
    BY <1>1 DEF OnRoute, Sail
  <2>4. Lat(pos) \in Int /\ Lon(pos) \in Int
    BY DEF TypeOK, Lat, Lon
  <2>5. Lat(pos') \in Towards(Lat(pos), Lat(Target)) /\ Lon(pos') \in Towards(Lon(pos), Lon(Target))
    BY <1>1 DEF Sail, Lat, Lon
  <2> HIDE DEF n, y, x
  <2>6. Between(Lat(pos'), y)
    BY <2>1, <2>2, <2>3, <2>4, <2>5, TowardsBetween DEF n
  <2>7. Between(Lon(pos'), x)
    BY <2>1, <2>2, <2>3, <2>4, <2>5, TowardsBetween DEF n
  <2> QED BY <2>1, <2>6, <2>7 DEF OnRoute, x, y
<1>2. ASSUME UNCHANGED <<route, pos>> \/ TickNormal PROVE OnRoute'
  BY <1>2 DEF OnRoute, TickNormal
<1> QED BY <1>1, <1>2 DEF Next, vars, Reach

(* What the demo zones cover.                                              *)
LEMMA DemoCoverage ==
    ASSUME NEW p \in Int \X Int
    PROVE  /\ Covers(DemoZones[1], p) => Lat(p) \in 40..47 /\ Lon(p) \in 452..459
           /\ Covers(DemoZones[2], p) => Lat(p) \in 62..67 /\ Lon(p) \in 444..451
           /\ Covers(DemoZones[3], p) => Lat(p) \in 28..37 /\ Lon(p) \in 400..409
           /\ Covers(DemoZones[4], p) => Lat(p) \in 6..11 /\ Lon(p) \in 412..417
           /\ Covers(DemoZones[5], p) => Lat(p) \in 24..31 /\ Lon(p) \in 476..483
           /\ Covers(DemoZones[6], p) => Lat(p) \in 12..19 /\ Lon(p) \in 428..435
           /\ Covers(DemoZones[7], p) => Lat(p) \in 58..63 /\ Lon(p) \in 468..473
<1>0. Lat(p) \in Int /\ Lon(p) \in Int
  BY DEF Lat, Lon
<1>1. Covers(DemoZones[1], p) => Lat(p) \in 40..47 /\ Lon(p) \in 452..459
  <2>1. DemoZones[1] = Rectangle(20, 226, 24, 230)
    BY DEF DemoZones
  <2>2. Covers(Rectangle(20, 226, 24, 230), p) => /\ 2 * 20 <= Lat(p) /\ Lat(p) < 2 * 24
                                                   /\ 2 * 226 <= Lon(p) /\ Lon(p) < 2 * 230
    BY RectangleCovers
  <2> QED BY <1>0, <2>1, <2>2
<1>2. Covers(DemoZones[2], p) => Lat(p) \in 62..67 /\ Lon(p) \in 444..451
  <2>1. DemoZones[2] = Rectangle(31, 222, 34, 226)
    BY DEF DemoZones
  <2>2. Covers(Rectangle(31, 222, 34, 226), p) => /\ 2 * 31 <= Lat(p) /\ Lat(p) < 2 * 34
                                                   /\ 2 * 222 <= Lon(p) /\ Lon(p) < 2 * 226
    BY RectangleCovers
  <2> QED BY <1>0, <2>1, <2>2
<1>3. Covers(DemoZones[3], p) => Lat(p) \in 28..37 /\ Lon(p) \in 400..409
  <2>1. DemoZones[3] = Rectangle(14, 200, 19, 205)
    BY DEF DemoZones
  <2>2. Covers(Rectangle(14, 200, 19, 205), p) => /\ 2 * 14 <= Lat(p) /\ Lat(p) < 2 * 19
                                                   /\ 2 * 200 <= Lon(p) /\ Lon(p) < 2 * 205
    BY RectangleCovers
  <2> QED BY <1>0, <2>1, <2>2
<1>4. Covers(DemoZones[4], p) => Lat(p) \in 6..11 /\ Lon(p) \in 412..417
  <2>1. DemoZones[4] = Rectangle(3, 206, 6, 209)
    BY DEF DemoZones
  <2>2. Covers(Rectangle(3, 206, 6, 209), p) => /\ 2 * 3 <= Lat(p) /\ Lat(p) < 2 * 6
                                                   /\ 2 * 206 <= Lon(p) /\ Lon(p) < 2 * 209
    BY RectangleCovers
  <2> QED BY <1>0, <2>1, <2>2
<1>5. Covers(DemoZones[5], p) => Lat(p) \in 24..31 /\ Lon(p) \in 476..483
  <2>1. DemoZones[5] = Rectangle(12, 238, 16, 242)
    BY DEF DemoZones
  <2>2. Covers(Rectangle(12, 238, 16, 242), p) => /\ 2 * 12 <= Lat(p) /\ Lat(p) < 2 * 16
                                                   /\ 2 * 238 <= Lon(p) /\ Lon(p) < 2 * 242
    BY RectangleCovers
  <2> QED BY <1>0, <2>1, <2>2
<1>6. Covers(DemoZones[6], p) => Lat(p) \in 12..19 /\ Lon(p) \in 428..435
  <2>1. DemoZones[6] = Rectangle(6, 214, 10, 218)
    BY DEF DemoZones
  <2>2. Covers(Rectangle(6, 214, 10, 218), p) => /\ 2 * 6 <= Lat(p) /\ Lat(p) < 2 * 10
                                                   /\ 2 * 214 <= Lon(p) /\ Lon(p) < 2 * 218
    BY RectangleCovers
  <2> QED BY <1>0, <2>1, <2>2
<1>7. Covers(DemoZones[7], p) => Lat(p) \in 58..63 /\ Lon(p) \in 468..473
  <2>1. DemoZones[7] = Rectangle(29, 234, 32, 237)
    BY DEF DemoZones
  <2>2. Covers(Rectangle(29, 234, 32, 237), p) => /\ 2 * 29 <= Lat(p) /\ Lat(p) < 2 * 32
                                                   /\ 2 * 234 <= Lon(p) /\ Lon(p) < 2 * 237
    BY RectangleCovers
  <2> QED BY <1>0, <2>1, <2>2
<1> QED BY <1>1, <1>2, <1>3, <1>4, <1>5, <1>6, <1>7

(* A position near a route is near the rectangle that holds the route.     *)
NearLimits(p, lat1, lat2, lon1, lon2) ==
    lat1 <= Lat(p) + 1 /\ Lat(p) <= lat2 + 1 /\ lon1 <= Lon(p) + 1 /\ Lon(p) <= lon2 + 1

LEMMA RouteNearLimits ==
    ASSUME NEW r \in ViolatorRoutes, NEW p \in Int \X Int,
           Between(Lat(p), Lats(r)), Between(Lon(p), Lons(r)),
           NEW lat1 \in Int, NEW lat2 \in Int, NEW lon1 \in Int, NEW lon2 \in Int,
           WithinLimits(r, lat1, lat2, lon1, lon2)
    PROVE  NearLimits(p, lat1, lat2, lon1, lon2)
<1> DEFINE n == Len(r.Waypoints)
           y == Lats(r)
           x == Lons(r)
<1>1. /\ y \in [1..n -> Int] /\ x \in [1..n -> Int]
      /\ \A i \in 1..n : y[i] = Lat(r.Waypoints[i]) /\ x[i] = Lon(r.Waypoints[i])
  BY RouteCoordinates
<1>2. \A i \in 1..n : y[i] \in lat1..lat2 /\ x[i] \in lon1..lon2
  BY <1>1 DEF WithinLimits
<1>3. Lat(p) \in Int /\ Lon(p) \in Int
  BY DEF Lat, Lon
<1>4. Between(Lat(p), y) /\ Between(Lon(p), x) /\ DOMAIN y = 1..n /\ DOMAIN x = 1..n
  BY <1>1
<1> HIDE DEF n, y, x
<1>5. \A v \in Int, f \in [1..n -> Int], lo, hi \in Int :
        Between(v, f) /\ (\A i \in 1..n : f[i] \in lo..hi) => lo <= v + 1 /\ v <= hi + 1
  <2> SUFFICES ASSUME NEW v \in Int, NEW f \in [1..n -> Int], NEW lo \in Int, NEW hi \in Int,
                      Between(v, f), \A i \in 1..n : f[i] \in lo..hi
               PROVE  lo <= v + 1 /\ v <= hi + 1
    OBVIOUS
  <2>1. DOMAIN f = 1..n
    OBVIOUS
  <2>2. PICK a \in 1..n : f[a] - 1 <= v
    BY <2>1, Zenon DEF Between
  <2>3. PICK b \in 1..n : v <= f[b] + 1
    BY <2>1, Zenon DEF Between
  <2>4. f[a] \in lo..hi /\ f[b] \in lo..hi
    OBVIOUS
  <2>5. f[a] \in Int /\ f[b] \in Int
    BY <2>4
  <2> QED BY <2>2, <2>3, <2>4, <2>5
<1>6. lat1 <= Lat(p) + 1 /\ Lat(p) <= lat2 + 1
  BY <1>1, <1>2, <1>3, <1>4, <1>5
<1>7. lon1 <= Lon(p) + 1 /\ Lon(p) <= lon2 + 1
  BY <1>1, <1>2, <1>3, <1>4, <1>5
<1> QED BY <1>6, <1>7 DEF NearLimits

(* Positions near a route are in none of the zones it is not meant for.    *)
LEMMA RouteAvoids ==
    ASSUME NEW r \in ViolatorRoutes, NEW p \in Int \X Int,
           Between(Lat(p), Lats(r)), Between(Lon(p), Lons(r)),
           NEW z \in (1..7) \ r.Through
    PROVE  ~Covers(DemoZones[z], p)
<1>1. Lat(p) \in Int /\ Lon(p) \in Int
  BY DEF Lat, Lon
<1>2. \A lat1, lat2, lon1, lon2 \in Int :
        WithinLimits(r, lat1, lat2, lon1, lon2) => NearLimits(p, lat1, lat2, lon1, lon2)
  BY RouteNearLimits
<1>3. ASSUME WithinLimits(r, 36, 52, 448, 464), r.Through = {1}
      PROVE  ~Covers(DemoZones[z], p)
  <2>1. NearLimits(p, 36, 52, 448, 464)
    BY <1>3, <1>2
  <2>2. Lat(p) \in 35..53 /\ Lon(p) \in 447..465
    BY <1>1, <2>1 DEF NearLimits
  <2> QED BY <1>1, <1>3, <2>2, DemoCoverage
<1>4. ASSUME WithinLimits(r, 58, 72, 440, 456), r.Through = {2}
      PROVE  ~Covers(DemoZones[z], p)
  <2>1. NearLimits(p, 58, 72, 440, 456)
    BY <1>4, <1>2
  <2>2. Lat(p) \in 57..73 /\ Lon(p) \in 439..457
    BY <1>1, <2>1 DEF NearLimits
  <2> QED BY <1>1, <1>4, <2>2, DemoCoverage
<1>5. ASSUME WithinLimits(r, 24, 40, 396, 412), r.Through = {3}
      PROVE  ~Covers(DemoZones[z], p)
  <2>1. NearLimits(p, 24, 40, 396, 412)
    BY <1>5, <1>2
  <2>2. Lat(p) \in 23..41 /\ Lon(p) \in 395..413
    BY <1>1, <2>1 DEF NearLimits
  <2> QED BY <1>1, <1>5, <2>2, DemoCoverage
<1>6. ASSUME WithinLimits(r, 2, 16, 408, 420), r.Through = {4}
      PROVE  ~Covers(DemoZones[z], p)
  <2>1. NearLimits(p, 2, 16, 408, 420)
    BY <1>6, <1>2
  <2>2. Lat(p) \in 1..17 /\ Lon(p) \in 407..421
    BY <1>1, <2>1 DEF NearLimits
  <2> QED BY <1>1, <1>6, <2>2, DemoCoverage
<1>7. ASSUME WithinLimits(r, 20, 36, 472, 488), r.Through = {5}
      PROVE  ~Covers(DemoZones[z], p)
  <2>1. NearLimits(p, 20, 36, 472, 488)
    BY <1>7, <1>2
  <2>2. Lat(p) \in 19..37 /\ Lon(p) \in 471..489
    BY <1>1, <2>1 DEF NearLimits
  <2> QED BY <1>1, <1>7, <2>2, DemoCoverage
<1>8. ASSUME WithinLimits(r, 4, 16, 408, 432), r.Through = {4, 6}
      PROVE  ~Covers(DemoZones[z], p)
  <2>1. NearLimits(p, 4, 16, 408, 432)
    BY <1>8, <1>2
  <2>2. Lat(p) \in 3..17 /\ Lon(p) \in 407..433
    BY <1>1, <2>1 DEF NearLimits
  <2> QED BY <1>1, <1>8, <2>2, DemoCoverage
<1>9. ASSUME WithinLimits(r, 54, 68, 464, 476), r.Through = {7}
      PROVE  ~Covers(DemoZones[z], p)
  <2>1. NearLimits(p, 54, 68, 464, 476)
    BY <1>9, <1>2
  <2>2. Lat(p) \in 53..69 /\ Lon(p) \in 463..477
    BY <1>1, <2>1 DEF NearLimits
  <2> QED BY <1>1, <1>9, <2>2, DemoCoverage
<1> QED BY <1>3, <1>4, <1>5, <1>6, <1>7, <1>8, <1>9, RouteLimits

(* A normal vessel that is put back at a border stays in its area.         *)
LEMMA BoundsStep ==
    ASSUME TypeOK, route = NoRoute, TickNormal
    PROVE  InBounds'
<1>1. PICK n \in North(COG), e \in East(COG) :
        pos' = << Keep(Lat(pos) + n, LatMin, LatMax), Keep(Lon(pos) + e, LonMin, LonMax) >>
  BY DEF TickNormal, Lat, Lon
<1>2. n \in Int /\ e \in Int /\ Lat(pos) \in Int /\ Lon(pos) \in Int
  BY DEF North, East, TypeOK, Lat, Lon
<1>3. \A x \in Int : /\ Keep(x, LatMin, LatMax) \in LatMin..LatMax
                     /\ Keep(x, LonMin, LonMax) \in LonMin..LonMax
  BY VoyageAssumption DEF Keep
<1> QED BY <1>1, <1>2, <1>3 DEF InBounds, Lat, Lon

(* Vessels are where their scripts have them: normal ones in their area,   *)
(* violators in no zone but those of their route (vessel.go 104-189,       *)
(* zones.go 74-141).                                                       *)
THEOREM KeepsToItsWatersHolds == Spec => []KeepsToItsWaters
<1> DEFINE Inv == OnRoute /\ (route = NoRoute => InBounds)
<1>1. Init => Inv
  <2>1. Init /\ route = NoRoute => InBounds
    <3>1. NoRoute \notin ViolatorRoutes
      BY RouteShape
    <3> QED BY <3>1 DEF Init, InBounds, Lat, Lon
  <2> QED BY <2>1, OnRouteInit
<1>2. TypeOK /\ Inv /\ [Next]_vars => Inv'
  <2>1. ASSUME TypeOK, Inv, [Next]_vars PROVE route' = NoRoute => InBounds'
    <3>1. CASE TickNormal
      BY <2>1, <3>1, BoundsStep DEF TickNormal
    <3>2. CASE Reach \/ Sail \/ UNCHANGED vars
      BY <2>1, <3>2 DEF Reach, Sail, vars, InBounds
    <3> QED BY <2>1, <3>1, <3>2 DEF Next
  <2> QED BY <2>1, OnRouteStep
<1>3. TypeOK /\ Inv => KeepsToItsWaters
  <2>1. DOMAIN DemoZones = 1..7
    BY DEF DemoZones
  <2>2. ASSUME TypeOK, Inv, route # NoRoute, NEW z \in (1..7) \ route.Through
        PROVE  ~Covers(DemoZones[z], pos)
    <3>1. route \in ViolatorRoutes /\ pos \in Int \X Int
      BY <2>2 DEF TypeOK
    <3>2. Between(Lat(pos), Lats(route)) /\ Between(Lon(pos), Lons(route))
      BY <2>2 DEF OnRoute
    <3> QED BY <3>1, <3>2, RouteAvoids
  <2> QED BY <2>1, <2>2 DEF KeepsToItsWaters
<1> QED BY <1>1, <1>2, <1>3, TypeCorrect, PTL DEF Spec
=============================================================================
