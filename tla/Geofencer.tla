----------------------------- MODULE Geofencer ------------------------------
(***************************************************************************)
(* The set of restricted zones of spatial-engine/geofencer.go.  The Go     *)
(* slice Geofencer.zones is the sequence zones; every method holds the     *)
(* RWMutex for its whole body, so each one is a single step.  Whether a    *)
(* zone covers a position is decided by the two tests of Geometry; the box *)
(* Go stores beside a polygon is a function of it.                         *)
(***************************************************************************)
EXTENDS Geometry

CONSTANTS ZoneID,      \* zone ids
          Point,       \* positions a vessel can report: <<lat, lon>>
          Polygon,     \* the polygons zones are drawn with
          Severity,    \* LOW, MEDIUM, HIGH
          ZoneFile     \* the contents --zones-file may have: sequences of zones

VARIABLE zones

Zone == [id : ZoneID, polygon : Polygon, severity : Severity]

ASSUME PositionAssumption == /\ Point \subseteq Int \X Int
                             /\ Polygon \subseteq Seq(Int \X Int)
ASSUME ZoneFileAssumption == ZoneFile \subseteq Seq(Zone)

(* The indices of the zones of s with this id, and the first of them.      *)
IndicesOf(s, id) == {i \in DOMAIN s : s[i].id = id}
IndexOf(s, id) == CHOOSE i \in IndicesOf(s, id) : \A j \in IndicesOf(s, id) : i <= j

(* Fault: POST keeps the zone that is there.                               *)
PutKeepsOld(s, z) == IF IndicesOf(s, z.id) = {} THEN Append(s, z) ELSE s

(* AddZone: replace the first zone with z's id in place, or append z.      *)
Put(s, z) == IF IndicesOf(s, z.id) = {} THEN Append(s, z)
             ELSE ReplaceAt(s, IndexOf(s, z.id), z)

(* Fault: the entry is blanked, not cut.                                   *)
WithoutBlanks(s, id) ==
    IF IndicesOf(s, id) = {} THEN s
    ELSE ReplaceAt(s, IndexOf(s, id), [id |-> "", polygon |-> << >>, severity |-> ""])

(* RemoveZone: cut the first zone with this id, if there is one.           *)
Without(s, id) == IF IndicesOf(s, id) = {} THEN s
                  ELSE RemoveAt(s, IndexOf(s, id))

(* A missing or malformed file leaves the geofencer empty (main.go).       *)
LoadFromFile == zones \in ZoneFile \cup {<< >>}

AddZone(z) == zones' = Put(zones, z)

RemoveZone(id) == zones' = Without(zones, id)

(* The zones a position is inside.  The order of the hits is abstracted.   *)
Check(p) == {z \in ToSet(zones) : Covers(z.polygon, p)}

UniqueIds(s) == \A i, j \in DOMAIN s : s[i].id = s[j].id => i = j
=============================================================================
