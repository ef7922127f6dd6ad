------------------------------ MODULE MCVoyage ------------------------------
(* Instance of Voyage for TLC: the real routes and zones, and a normal      *)
(* vessel in an area of two degrees.                                        *)
EXTENDS Voyage
=============================================================================
