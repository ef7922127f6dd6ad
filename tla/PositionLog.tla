---------------------------- MODULE PositionLog -----------------------------
(***************************************************************************)
(* What the feed promises the classifier: for each vessel, reports that it *)
(* made, each newer than the one before; reports may be missing.  Only a   *)
(* vessel one of whose datagrams was overtaken or sent again may be seen   *)
(* at an older report.                                                     *)
(***************************************************************************)
EXTENDS Integers

CONSTANT Vessel

VARIABLES made,        \* how many reports each vessel has made
          seen,        \* the report a classification worker took last, or 0
          disordered   \* the vessels with a datagram out of order

Init == /\ made = [v \in Vessel |-> 0]
        /\ seen = [v \in Vessel |-> 0]
        /\ disordered = {}

Make == /\ made' \in [Vessel -> Nat]
        /\ \A v \in Vessel : made'[v] >= made[v]
        /\ UNCHANGED <<seen, disordered>>

See(v) == \E n \in 1..made[v] :
            /\ n > seen[v] \/ v \in disordered
            /\ seen' = [seen EXCEPT ![v] = n]
            /\ UNCHANGED <<made, disordered>>

Disorder == /\ disordered' \in SUBSET Vessel
            /\ disordered \subseteq disordered'
            /\ UNCHANGED <<made, seen>>

Next == Make \/ Disorder \/ \E v \in Vessel : See(v)

Spec == Init /\ [][Next]_<<made, seen, disordered>>
=============================================================================
