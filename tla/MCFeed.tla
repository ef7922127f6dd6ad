------------------------------- MODULE MCFeed -------------------------------
(* Instance of Feed for TLC: vessels whose reports differ in every field.  *)
EXTENDS Feed

CONSTANTS a, b

MCWorker == {a, b}
MCReportOf ==
    [i \in VesselIndex |-> [n \in 1..(BatchSize * MaxBatches) |->
       [VesselID |-> << i >>, MMSI |-> << >>, Lat |-> 8 + n, Lon |-> 16 + i,
        SOGKnots |-> n, COGDegrees |-> i, TSUnixMs |-> n,
        IsScriptedViolator |-> i = 0]]]
MCHash == [id \in {<< i >> : i \in VesselIndex} |-> IF id = << 1 >> THEN b ELSE a]
MCRange == 0..63
=============================================================================
