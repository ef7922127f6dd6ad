----------------------------- MODULE MCDashboard ----------------------------
(* Instance of Dashboard for TLC: three alerts, two of them of one ts.     *)
EXTENDS Dashboard

CONSTANTS v1, v2, z1

MCVessel == {v1, v2}
MCZone == {z1}
MCRow == { [id |-> 1, vessel |-> v1, zone |-> z1, ts |-> 1],
           [id |-> 2, vessel |-> v2, zone |-> z1, ts |-> 1],
           [id |-> 3, vessel |-> v1, zone |-> z1, ts |-> 2] }
=============================================================================
