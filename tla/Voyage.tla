------------------------------- MODULE Voyage -------------------------------
(***************************************************************************)
(* The movement of one simulated vessel (simulator/vessel.go) and the      *)
(* routes and zones it is set up with (simulator/zones.go).  Positions are *)
(* on a grid of quarter degrees: a step of the model is as many ticks as   *)
(* the vessel needs to the next grid line, which at its speed it never     *)
(* misses.  Speeds are left out.                                           *)
(***************************************************************************)
EXTENDS Geometry

CONSTANTS LatMin, LatMax, LonMin, LonMax,   \* bounds of the normal vessels
          Inset                             \* 0.1 degrees

ASSUME VoyageAssumption ==
    /\ {LatMin, LatMax, LonMin, LonMax} \subseteq Int
    /\ Inset \in Nat \ {0}
    /\ LatMin + Inset <= LatMax - Inset /\ LonMin + Inset <= LonMax - Inset

(* A position in half degrees, and a closed rectangle of zones.go.         *)
At(lat2, lon2) == << 2 * lat2, 2 * lon2 >>
Rectangle(s, w, n, e) == << At(s, w), At(s, e), At(n, e), At(n, w), At(s, w) >>

DemoZones ==
    << Rectangle(20, 226, 24, 230), Rectangle(31, 222, 34, 226),
       Rectangle(14, 200, 19, 205), Rectangle(3, 206, 6, 209),
       Rectangle(12, 238, 16, 242), Rectangle(6, 214, 10, 218),
       Rectangle(29, 234, 32, 237) >>

(* The waypoints, and the zones their comments name.                       *)
ViolatorRoutes ==
    { [Waypoints |-> << At(18, 224), At(22, 228), At(23, 229), At(26, 232) >>, Through |-> {1}],
      [Waypoints |-> << At(29, 220), At(32, 224), At(33, 225), At(36, 228) >>, Through |-> {2}],
      [Waypoints |-> << At(12, 198), At(16, 202), At(17, 203), At(16, 204), At(20, 206) >>,
       Through |-> {3}],
      [Waypoints |-> << At(1, 204), At(4, 207), At(5, 208), At(8, 210) >>, Through |-> {4}],
      [Waypoints |-> << At(10, 236), At(14, 240), At(15, 241), At(18, 244) >>, Through |-> {5}],
      [Waypoints |-> << At(4, 212), At(8, 216), At(7, 215), At(5, 210), At(4, 207), At(2, 204) >>,
       Through |-> {4, 6}],
      [Waypoints |-> << At(27, 232), At(30, 235), At(31, 236), At(34, 238) >>, Through |-> {7}] }

NoRoute == [Waypoints |-> << >>, Through |-> {}]

VARIABLES route,         \* NoRoute for a normal vessel
          WaypointIdx,
          pos,           \* <<Lat, Lon>>
          COG            \* course of a normal vessel; a violator's is that
                         \* of its target

vars == <<route, WaypointIdx, pos, COG>>

InBounds == Lat(pos) \in LatMin..LatMax /\ Lon(pos) \in LonMin..LonMax

Course == {30 * k : k \in 0..11}

(* NewVessel: a violator starts up to a quarter of a degree off its route. *)
Init == /\ WaypointIdx = 1
        /\ COG \in Course
        /\ \/ /\ route = NoRoute
              /\ pos \in (LatMin..LatMax) \X (LonMin..LonMax)
           \/ /\ COG = 0
              /\ route \in ViolatorRoutes
              /\ \E dLat, dLon \in {-1, 0, 1} :
                   pos = << Lat(route.Waypoints[1]) + dLat, Lon(route.Waypoints[1]) + dLon >>

(* Grid lines the vessel may reach next on a course, along each axis.      *)
North(cog) == IF cog < 90 \/ cog > 270 THEN {0, 1} ELSE IF cog \in {90, 270} THEN {0} ELSE {-1, 0}
East(cog) == IF cog \in 1..179 THEN {0, 1} ELSE IF cog \in {0, 180} THEN {0} ELSE {-1, 0}

(* Fault: only the lower bound is tested.                                  *)
KeepAboveMin(x, min, max) == IF x < min THEN min + Inset ELSE x

(* A coordinate beyond its bound is put back inside it.                    *)
Keep(x, min, max) == IF x < min THEN min + Inset ELSE IF x > max THEN max - Inset ELSE x

(* The course is mirrored for each axis that was out of bounds.            *)
Reflect(cog, p) ==
    LET cog1 == IF Lat(p) \in LatMin..LatMax THEN cog ELSE (720 - cog) % 360 IN
    IF Lon(p) \in LonMin..LonMax THEN cog1 ELSE (540 - cog1) % 360

(* tickNormal: on along the course, which then may change by up to 30      *)
(* degrees, and back from the bounds.                                      *)
TickNormal ==
    /\ route = NoRoute
    /\ \E n \in North(COG), e \in East(COG), delta \in {-30, 0, 30} :
         LET p == << Lat(pos) + n, Lon(pos) + e >> IN
         /\ pos' = << Keep(Lat(p), LatMin, LatMax), Keep(Lon(p), LonMin, LonMax) >>
         /\ COG' = Reflect((COG + delta + 360) % 360, p)
    /\ UNCHANGED <<route, WaypointIdx>>

Target == route.Waypoints[WaypointIdx]

(* Fault: the last waypoint is the end.                                    *)
NextWaypointOrLast == IF WaypointIdx = Len(route.Waypoints) THEN WaypointIdx ELSE WaypointIdx + 1

NextWaypoint == (WaypointIdx % Len(route.Waypoints)) + 1

(* tickViolator at its waypoint: it turns to the next one.                 *)
Reach == /\ route # NoRoute
         /\ pos = Target
         /\ WaypointIdx' = NextWaypoint
         /\ UNCHANGED <<route, pos, COG>>

(* tickViolator elsewhere: on towards the waypoint, on both axes and not   *)
(* past it; the way bends, as the course takes no account of the latitude. *)
Towards(x, target) == IF x < target THEN {x, x + 1} ELSE IF x > target THEN {x - 1, x} ELSE {x}

Sail == /\ route # NoRoute
        /\ pos # Target
        /\ pos' \in Towards(Lat(pos), Lat(Target)) \X Towards(Lon(pos), Lon(Target))
        /\ pos' # pos
        /\ UNCHANGED <<route, WaypointIdx, COG>>

Next == TickNormal \/ Reach \/ Sail

(* The engine ticks its vessels as long as it runs.                        *)
Spec == Init /\ [][Next]_vars /\ WF_vars(Reach \/ Sail)

-----------------------------------------------------------------------------
TypeOK == /\ route \in ViolatorRoutes \cup {NoRoute}
          /\ route # NoRoute => WaypointIdx \in 1..Len(route.Waypoints)
          /\ pos \in Int \X Int
          /\ COG \in Course

(* A normal vessel does not leave the bounds, whatever its course did to   *)
(* it (vessel.go:134), and a violator alerts in the zones its route is     *)
(* meant for and in no other, on the bent ways between its waypoints       *)
(* (zones.go 74-141).                                                      *)
KeepsToItsWaters ==
    IF route = NoRoute THEN InBounds
    ELSE \A z \in DOMAIN DemoZones \ route.Through : ~Covers(DemoZones[z], pos)

(* zones.go:73, "Each route starts outside a zone, enters it, transits     *)
(* through, and exits": so it does, round after round, for every zone its  *)
(* comments name, as the geofencer sees it.                                *)
RoutesTransit ==
    \A r \in ViolatorRoutes : route = r =>
      \A z \in r.Through :
        /\ ~Covers(DemoZones[z], pos)
        /\ []<>Covers(DemoZones[z], pos)
        /\ []<>~Covers(DemoZones[z], pos)
=============================================================================
