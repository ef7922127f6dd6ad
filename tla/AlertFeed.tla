------------------------------ MODULE AlertFeed -----------------------------
(***************************************************************************)
(* What a consumer of violation events may rely on (contracts/             *)
(* ws_messages.md, spatial_event.proto): for each vessel and zone the      *)
(* stream is a series of visits, ENTER HEARTBEAT* EXIT.  feed[v][z] is the *)
(* last event emitted for the pair, "NONE" before the first.               *)
(***************************************************************************)
CONSTANTS Vessel, ZoneID

VARIABLE feed

EventKind == {"ENTER", "HEARTBEAT", "EXIT"}

Init == feed = [v \in Vessel |-> [z \in ZoneID |-> "NONE"]]

Open(v, z) == feed[v][z] \in {"ENTER", "HEARTBEAT"}

Emit(v, z, kind) == feed' = [feed EXCEPT ![v][z] = kind]

Enter(v, z) == Emit(v, z, "ENTER")

Heartbeat(v, z) == Open(v, z) /\ Emit(v, z, "HEARTBEAT")

Exit(v, z) == Open(v, z) /\ Emit(v, z, "EXIT")

(* A heartbeat or an exit always belongs to a visit that is open.          *)
Next == \E v \in Vessel, z \in ZoneID :
            Enter(v, z) \/ Heartbeat(v, z) \/ Exit(v, z)

Spec == Init /\ [][Next]_feed
=============================================================================
