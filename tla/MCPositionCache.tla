-------------------------- MODULE MCPositionCache ---------------------------
(* Instances of PositionCache for TLC.                                     *)
EXTENDS PositionCache

CONSTANTS v1, r1

OneVessel == {v1}
OneReader == {r1}
NoReader == {}
=============================================================================
