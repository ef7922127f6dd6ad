------------------------------ MODULE ZoneAPI -------------------------------
(***************************************************************************)
(* The zone-management REST API of spatial-engine/api.go over the          *)
(* geofencer.  A handler calls one Geofencer method under its lock, so a   *)
(* request takes effect in one step; reply is the response to the request  *)
(* that took effect last.                                                  *)
(***************************************************************************)
EXTENDS Geofencer

VARIABLE reply

vars == <<zones, reply>>

NoReply == [op |-> "NONE"]

Init == /\ LoadFromFile
        /\ reply = NoReply

(* POST with a body that does not decode, has no zone_id or has fewer than *)
(* three vertices.                                                         *)
RefuseZone == /\ reply' = [op |-> "POST", status |-> "refused"]
              /\ UNCHANGED zones

PostZone(z) == /\ Len(z.polygon) >= 3
               /\ AddZone(z)
               /\ reply' = [op |-> "POST", zone |-> z, status |-> "created"]

DeleteZone(id) ==
    /\ RemoveZone(id)
    /\ reply' = [op |-> "DELETE", id |-> id,
                 status |-> IF IndicesOf(zones, id) = {} THEN "unknown" ELSE "deleted"]

ListZones == /\ reply' = [op |-> "GET", listed |-> zones]
             /\ UNCHANGED zones

Next == \/ RefuseZone
        \/ \E z \in Zone : PostZone(z)
        \/ \E id \in ZoneID : DeleteZone(id)
        \/ ListZones

Spec == Init /\ [][Next]_vars

-----------------------------------------------------------------------------

TypeOK == zones \in Seq(Zone)

(* No two active zones share a zone_id: AddZone and RemoveZone both stop   *)
(* at the first match (geofencer.go 78-83, 92-97), so they are only right  *)
(* while ids are unique, through every interleaving of requests.           *)
ZoneIdsUnique == UniqueIds(zones)

(* A DELETE answered "deleted" leaves no active zone with that id: the     *)
(* next Check cannot report it (geofencer.go 87-99, api.go 155-167).       *)
DeletedMeansGone ==
    [][ reply'.op = "DELETE" /\ reply'.status = "deleted"
          => \A i \in DOMAIN zones' : zones'[i].id # reply'.id ]_vars

(* Off the lines its vertices span, a position is reported inside a zone   *)
(* iff it is in an odd number of the triangles the polygon is made of: the *)
(* box never hides what ray casting finds, whatever the direction, the     *)
(* first vertex and the closing edge (geofencer.go 131-139).               *)
ChecksMatchAreas ==
    \A z \in ToSet(zones), p \in Point :
        OffLines(p, z.polygon) => (z \in Check(p) <=> InArea(p, z.polygon))

(* A zone redrawn as two along any line between two of its vertices covers *)
(* the same positions, and none of them twice: one on the new border is    *)
(* inside exactly one of the two (geofencer.go 193-196).                   *)
CutsShareNoPosition ==
    \A z \in ToSet(zones), p \in Point :
    \A i, j \in DOMAIN z.polygon :
        i + 1 < j /\ j - i < Len(z.polygon) - 1
        => (z \in Check(p) <=> Covers(CutOff(z.polygon, i, j), p)
                              # Covers(Remainder(z.polygon, i, j), p))

(* The API with its slice, first-match update and first-match delete       *)
(* implements the table of ZoneRegistry, replies included.                 *)
Listed(r) == IF r.op = "GET" THEN [r EXCEPT !.listed = ToSet(r.listed)] ELSE r

Registry == INSTANCE ZoneRegistry WITH active <- ToSet(zones), answer <- Listed(reply)

ImplementsRegistry == Registry!Spec
=============================================================================
