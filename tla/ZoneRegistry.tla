---------------------------- MODULE ZoneRegistry ----------------------------
(***************************************************************************)
(* What the zone-management REST API promises (contracts/rest_api.md): a   *)
(* table of restricted zones keyed by zone_id.  POST makes the posted zone *)
(* the only one with its id, DELETE leaves no zone with that id, GET lists *)
(* exactly the active zones.  A zone is a record with a field id.          *)
(***************************************************************************)
EXTENDS FiniteSets

CONSTANTS ZoneID,     \* the zone ids
          Zone        \* the zones: records with a field id \in ZoneID

VARIABLES active,     \* the set of active zones
          answer      \* the answer to the last request

regVars == <<active, answer>>

NoAnswer == [op |-> "NONE"]

WithId(id) == {z \in active : z.id = id}

Init == /\ active \in {S \in SUBSET Zone : \A y, z \in S : y.id = z.id => y = z}
        /\ answer = NoAnswer

Post(z) == /\ active' = (active \ WithId(z.id)) \cup {z}
           /\ answer' = [op |-> "POST", zone |-> z, status |-> "created"]

Delete(id) ==
    /\ active' = active \ WithId(id)
    /\ answer' = [op |-> "DELETE", id |-> id,
                  status |-> IF WithId(id) = {} THEN "unknown" ELSE "deleted"]

List == /\ answer' = [op |-> "GET", listed |-> active]
        /\ UNCHANGED active

Refuse == /\ answer' = [op |-> "POST", status |-> "refused"]
          /\ UNCHANGED active

Next == \/ \E z \in Zone : Post(z)
        \/ \E id \in ZoneID : Delete(id)
        \/ List
        \/ Refuse

Spec == Init /\ [][Next]_regVars
=============================================================================
