---------------------------- MODULE MCClassifier ----------------------------
(* Instances of Classifier for TLC.                                        *)
EXTENDS Classifier

CONSTANTS v1, v2, z1

(* A position outside the zone and one inside.                             *)
OpenSea == <<4, 1>>
Reef == <<1, 1>>
Triangle == << <<0, 0>>, <<0, 3>>, <<3, 0>> >>
MCPolygon == {Triangle}

ZoneOf(i, q, s) == [id |-> i, polygon |-> q, severity |-> s]

MCSeverity == {"HIGH"}
OneVessel == {v1}
TwoVessels == {v1, v2}
OneZone == {z1}
TwoPoints == {OpenSea, Reef}

ReefFile == { << ZoneOf(z1, Triangle, "HIGH") >> }
NoUpdate == {}
ReefUpdate == { ZoneOf(z1, Triangle, "HIGH") }

(* Every vessel hashed to worker 1; or each to its own.                    *)
SameShard == [v \in Vessel |-> 1]
OwnShard == [v \in Vessel |-> IF v = v1 THEN 1 ELSE 2]

(* Bound for the runs that are not about shutdown: do not explore it.      *)
NoShutdown == ~cancelled
=============================================================================
