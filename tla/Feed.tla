-------------------------------- MODULE Feed --------------------------------
(***************************************************************************)
(* The position feed: the simulator and the ingestion of the spatial       *)
(* engine, two processes with a signal each, over UDP, which loses and     *)
(* reorders datagrams.  A stream (TCP, file) is written but nothing in the *)
(* repository reads it.                                                    *)
(***************************************************************************)
EXTENDS SimEngine, Ingestion

VARIABLES seen,          \* history: last report of each vessel a worker took
          disordered     \* history: vessels with a datagram out of order

vars == <<transportVars, engineVars, ingestionVars, seen, disordered>>

Garbled == -1

Init == /\ EngineInit
        /\ IngestionInit
        /\ seen = [i \in VesselIndex |-> 0]
        /\ disordered = {}

(* The vessels with a record among these.                                  *)
VesselsOf(records) ==
    {i \in VesselIndex : \E r \in ToSet(records) : r.VesselID = ReportOf[i][1].VesselID}

(* The simulator's steps; what a flush sends again is out of order.        *)
Simulate ==
    /\ \/ \E w \in SimWorker : SimWorkerStep(w)
       \/ CancelSimulator
    /\ UNCHANGED <<ingestionVars, seen, disordered>>

SendAgain(w) == /\ Flush(w)
                /\ disordered' = disordered \cup VesselsOf(batch[w].Records)
                /\ UNCHANGED <<ingestionVars, seen>>

(* The i-th datagram arrives, before those ahead of it.                    *)
Deliver(i) ==
    /\ Read(wire[i])
    /\ wire' = RemoveAt(wire, i)
    /\ disordered' = disordered \cup
         UNION {UNION {VesselsOf(b.Records) : b \in UnmarshalBinary(wire[k])} : k \in 1..(i - 1)}
    /\ UNCHANGED <<mode, call, data, stream, holder, stats, engineVars, seen>>

Ingest == /\ IngestionStep \/ CancelEngine
          /\ UNCHANGED <<transportVars, engineVars, seen, disordered>>

(* A worker takes a record, of the vessel with its id.                     *)
Classify(s) ==
    /\ Take(s)
    /\ LET r == Head(workers[s]) IN
       \E i \in VesselIndex :
         /\ r.VesselID = ReportOf[i][1].VesselID
         /\ seen' = [seen EXCEPT ![i] = IF r \in Made THEN r.TSUnixMs ELSE Garbled]
    /\ UNCHANGED <<transportVars, engineVars, disordered>>

Next == \/ Simulate
        \/ \E w \in SimWorker : SendAgain(w)
        \/ \E i \in 1..Len(wire) : Deliver(i)
        \/ Ingest
        \/ \E s \in Worker : Classify(s)

Spec == Init /\ [][Next]_vars

(* A goroutine inside Send or at a record goes on; a select takes a closed *)
(* ctx.Done() in the end; a mutex is handed on.  The ticker need not fire  *)
(* and the classification workers may have stopped.                        *)
Fairness ==
    /\ \A w \in SimWorker :
         /\ WF_vars(FinishSend(w) /\ UNCHANGED <<ingestionVars, seen, disordered>>)
         /\ SF_vars(Lock(w) /\ UNCHANGED <<engineVars, ingestionVars, seen, disordered>>)
         /\ SF_vars(\/ SendAgain(w)
                    \/ Quit(w) /\ UNCHANGED <<ingestionVars, seen, disordered>>)
    /\ WF_vars(IngestionStep /\ UNCHANGED <<transportVars, engineVars, seen, disordered>>)

FairSpec == Spec /\ Fairness

-----------------------------------------------------------------------------
TypeOK == /\ TransportTypeOK /\ EngineTypeOK /\ IngestionTypeOK
          /\ seen \in [VesselIndex -> Nat \cup {Garbled}]
          /\ disordered \subseteq VesselIndex

(* From the round over the vessels, the shards and the reused batch buffer *)
(* through encoding, UDP, decoding, the hash and full queues: a worker     *)
(* takes only reports that were made, as they were made, and those of one  *)
(* vessel in their order unless a datagram was out of order or sent again  *)
(* (engine.go 113-185, ingestion.go 60-104).                               *)
Log == INSTANCE PositionLog WITH Vessel <- VesselIndex

ImplementsPositionLog == Log!Spec

(* What a worker writes decodes to its batch, and cut short at any byte    *)
(* decodes to nothing, not to fewer records (ais.go 43-200).               *)
BatchesDecode ==
    [][\A w \in SimWorker : call[w] = "none" /\ call'[w] # "none"
         => /\ UnmarshalBinary(data'[w]) = {batch'[w]}
            /\ \A n \in 0..(Len(data'[w]) - 1) :
                 UnmarshalBinary(SubSeq(data'[w], 1, n)) = {}]_vars

(* As long as no write has failed, whoever reads the connection or file    *)
(* finds whole frames: the workers never write into each other's           *)
(* (transport.go 200-225, 136-160).                                        *)
FramesWhole == stats.Errors = 0 /\ holder = Free => WholeFrames

(* Every batch a worker numbered is counted once, as sent or as an error,  *)
(* by the sender and by the engine, up to the calls under way, and so all  *)
(* are when the simulator has ended (engine.go 144-183, transport.go).     *)
UnderWay(places) == Cardinality({w \in SimWorker : call[w] \in places})

EveryBatchCounted ==
    /\ totals.batches + UnderWay({"ok"}) = stats.BatchesSent
    /\ totals.errors + UnderWay({"error"}) = stats.Errors
    /\ stats.BatchesSent + stats.Errors + UnderWay({"datagram", "lock", "length", "data"})
       = SumFunction([w \in SimWorker |-> batch[w].BatchSeq])

(* Both processes end on their signal, whatever the other does and however *)
(* full the queues are (engine.go 143-157, ingestion.go 54-67).  A signal  *)
(* and an end are for good, so each is stated as what holds in the long    *)
(* run.                                                                    *)
FeedStops == <>[](/\ simCancelled => SimulatorDone
                  /\ cancelled => ~running)
=============================================================================
