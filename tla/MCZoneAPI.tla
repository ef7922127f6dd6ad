----------------------------- MODULE MCZoneAPI ------------------------------
(* Instance of ZoneAPI for TLC: three ids, a closed square, an open concave *)
(* polygon, one with slanted edges and a mere line.                         *)
EXTENDS ZoneAPI

CONSTANTS z1, z2, z3

MCZoneID == {z1, z2, z3}
MCPoint == (0..3) \X (0..4)
MCSeverity == {"HIGH"}

Square == << <<0, 0>>, <<0, 2>>, <<2, 2>>, <<2, 0>>, <<0, 0>> >>
Corner == << <<0, 0>>, <<0, 4>>, <<2, 4>>, <<2, 2>>, <<4, 2>>, <<4, 0>> >>
Slanted == << <<0, 1>>, <<1, 4>>, <<2, 4>>, <<2, 2>> >>
Line == << <<0, 0>>, <<2, 2>> >>
MCPolygon == {Square, Corner, Slanted, Line}

ZoneOf(i, q, s) == [id |-> i, polygon |-> q, severity |-> s]

(* A file as contracts/demo_zones.json: one entry per id.                  *)
MCZoneFile == { << ZoneOf(z1, Line, "HIGH"), ZoneOf(z2, Corner, "HIGH") >> }
=============================================================================
