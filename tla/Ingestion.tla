----------------------------- MODULE Ingestion ------------------------------
(***************************************************************************)
(* The UDP listener of the spatial engine (spatial-engine/ingestion.go):   *)
(* it decodes a datagram and hands each record to the classification       *)
(* worker its vessel is hashed to, dropping it when that worker's queue is *)
(* full.  Its counters are metrics and left out.                           *)
(***************************************************************************)
EXTENDS AISCodec

CONSTANTS Worker,        \* the classification workers
          Hash,          \* hashVesselID(id) % numWorkers
          QueueCap,      \* 4096 records
          LatRange, LonRange

ASSUME IngestionAssumption == /\ \A id \in DOMAIN Hash : Hash[id] \in Worker
                              /\ QueueCap \in Nat \ {0}

VARIABLES cancelled,     \* ctx.Done() of the engine is closed
          open,          \* the UDP socket
          running,       \* Run has not returned
          todo,          \* the records of the batch being dispatched
          workers        \* the input channels

ingestionVars == <<cancelled, open, running, todo, workers>>

IngestionTypeOK ==
    /\ cancelled \in BOOLEAN /\ open \in BOOLEAN /\ running \in BOOLEAN
    /\ todo \in Seq(AISRecord)
    /\ workers \in [Worker -> Seq(AISRecord)]
    /\ \A s \in Worker : Len(workers[s]) <= QueueCap

IngestionInit == /\ cancelled = FALSE
                 /\ open = TRUE
                 /\ running = TRUE
                 /\ todo = << >>
                 /\ workers = [s \in Worker |-> << >>]

(* A datagram: one that does not decode is counted and forgotten.  A       *)
(* ReadFrom that fails while the socket is open changes nothing.           *)
Read(datagram) ==
    /\ running /\ open
    /\ todo = << >>
    /\ todo' = IF UnmarshalBinary(datagram) = {} THEN << >>
               ELSE (CHOOSE b \in UnmarshalBinary(datagram) : TRUE).Records
    /\ UNCHANGED <<cancelled, open, running, workers>>

(* Fault: the next record waits for a slot in its queue.                   *)
OfferBlocking(r) ==
    /\ Len(workers[Hash[r.VesselID]]) < QueueCap
    /\ workers' = [workers EXCEPT ![Hash[r.VesselID]] = Append(@, r)]

ValidPosition(r) == r.Lat \in LatRange /\ r.Lon \in LonRange

(* Validation, the hash and the non-blocking send.                         *)
Offer(r) ==
    LET shard == Hash[r.VesselID] IN
    workers' = IF ValidPosition(r) /\ Len(workers[shard]) < QueueCap
               THEN [workers EXCEPT ![shard] = Append(@, r)]
               ELSE workers

Dispatch == /\ running
            /\ todo # << >>
            /\ Offer(Head(todo))
            /\ todo' = Tail(todo)
            /\ UNCHANGED <<cancelled, open, running>>

(* SIGINT or SIGTERM; the goroutine that then closes the socket; the       *)
(* ReadFrom that fails.                                                    *)
CancelEngine == /\ ~cancelled
                /\ cancelled' = TRUE
                /\ UNCHANGED <<open, running, todo, workers>>

CloseSocket == /\ cancelled
               /\ open
               /\ open' = FALSE
               /\ UNCHANGED <<cancelled, running, todo, workers>>

ReturnNil == /\ running
             /\ todo = << >>
             /\ ~open
             /\ running' = FALSE
             /\ UNCHANGED <<cancelled, open, todo, workers>>

IngestionStep == Dispatch \/ CloseSocket \/ ReturnNil

(* A classification worker receives.                                       *)
Take(s) == /\ workers[s] # << >>
           /\ workers' = [workers EXCEPT ![s] = Tail(@)]
           /\ UNCHANGED <<cancelled, open, running, todo>>
=============================================================================
