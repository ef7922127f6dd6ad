----------------------------- MODULE SimEngine ------------------------------
(***************************************************************************)
(* The simulation engine (simulator/engine.go): each worker goroutine owns *)
(* the vessels of its shard, fills its batch from them in turn and hands   *)
(* it to the sender.  What a worker does between two calls of the sender   *)
(* touches nothing another goroutine sees and is one step.                 *)
(***************************************************************************)
EXTENDS Transport

CONSTANTS VesselCount,   \* --vessels
          BatchSize,     \* --batch-size
          ReportOf,      \* ReportOf[i][n]: what Tick of vessel i returns the
                         \* n-th time, of which n is the timestamp
          MaxBatches     \* bound: batches filled in all

VesselIndex == 0 .. VesselCount - 1

(* What a batch of BatchSize records takes at most.                        *)
FrameLimit == 2 * IntWidth + BatchSize * RecordLimit

(* Vessels have ids of their own, shorter than a length byte can say.  The *)
(* fields hold their values, the counters up to the bound and the length   *)
(* of a frame among them.                                                  *)
ASSUME EngineAssumption ==
    /\ VesselCount \in Nat
    /\ BatchSize \in Nat \ {0}
    /\ MaxBatches \in Nat
    /\ \A n \in 0..FrameLimit : Fits(n, IntWidth)
    /\ \A n \in 0..(MaxBatches + 1) : Fits(n, IntWidth)
    /\ \A i \in VesselIndex, n \in 1..(BatchSize * MaxBatches) :
         /\ ReportOf[i][n] \in AISRecord
         /\ ReportOf[i][n].TSUnixMs = n
         /\ ReportOf[i][n].VesselID = ReportOf[i][1].VesselID
         /\ RecordFits(ReportOf[i][n])
         /\ \A j \in VesselIndex \ {i} : ReportOf[i][n].VesselID # ReportOf[j][n].VesselID

VARIABLES simCancelled,  \* ctx.Done() of the simulator is closed
          at,            \* where each worker is in workerLoop
          batch,         \* its AISBatch; the records stay after a Send
          vesselIdx,     \* where its round over the vessels goes on
          made,          \* how often each vessel has been ticked
          totals         \* totalBatches and totalErrors

engineVars == <<simCancelled, at, batch, vesselIdx, made, totals>>

EngineTypeOK ==
    /\ simCancelled \in BOOLEAN
    /\ at \in [SimWorker -> {"select", "send", "flush", "done"}]
    /\ batch \in [SimWorker -> AISBatch]
    /\ vesselIdx \in [SimWorker -> Nat]
    /\ made \in [VesselIndex -> Nat]
    /\ totals \in [batches : Nat, errors : Nat]
    /\ \A w \in SimWorker : call[w] # "none" => at[w] \in {"send", "flush"}

(* The vessels of a worker.                                                *)
Shard(w) == {i \in VesselIndex : i % NumWorkers = w}

(* A worker without vessels returns at once.                               *)
EngineInit ==
    /\ TransportInit
    /\ simCancelled = FALSE
    /\ at = [w \in SimWorker |-> IF Shard(w) = {} THEN "done" ELSE "select"]
    /\ batch = [w \in SimWorker |-> [Records |-> << >>, BatchSeq |-> 0]]
    /\ vesselIdx = [w \in SimWorker |-> 0]
    /\ made = [i \in VesselIndex |-> 0]
    /\ totals = [batches |-> 0, errors |-> 0]

(* Fault: the worker goes round all the vessels.                           *)
VesselOfAll(w, j) == (w + vesselIdx[w] + j - 1) % VesselCount

(* The vessel of the j-th record of the next batch of w, the records of    *)
(* vessel i up to the j-th, and the batch: a vessel is in it several times *)
(* when the batch is larger than the shard.                                *)
VesselAt(w, j) == w + NumWorkers * ((vesselIdx[w] + j - 1) % Cardinality(Shard(w)))
TicksUpTo(w, i, j) == Cardinality({k \in 1..j : VesselAt(w, k) = i})
Fill(w) == [j \in 1..BatchSize |->
              LET i == VesselAt(w, j) IN ReportOf[i][made[i] + TicksUpTo(w, i, j)]]

(* batchSeq++, and the call of the sender.                                 *)
SendNext(w, records, place) ==
    LET next == [Records |-> records, BatchSeq |-> batch[w].BatchSeq + 1] IN
    /\ batch' = [batch EXCEPT ![w] = next]
    /\ Send(w, next)
    /\ at' = [at EXCEPT ![w] = place]

(* The ticker.                                                             *)
Tick(w) ==
    /\ at[w] = "select"
    /\ SumFunction(made) < MaxBatches * BatchSize
    /\ SendNext(w, Fill(w), "send")
    /\ vesselIdx' = [vesselIdx EXCEPT ![w] = @ + BatchSize]
    /\ made' = [i \in VesselIndex |-> made[i] + TicksUpTo(w, i, BatchSize)]
    /\ UNCHANGED <<simCancelled, totals>>

(* On cancellation the records in the batch are sent, those of the last    *)
(* Send; a worker that never filled its batch returns.                     *)
Flush(w) ==
    /\ at[w] = "select"
    /\ simCancelled
    /\ batch[w].Records # << >>
    /\ SendNext(w, batch[w].Records, "flush")
    /\ UNCHANGED <<simCancelled, vesselIdx, made, totals>>

Quit(w) ==
    /\ at[w] = "select"
    /\ simCancelled
    /\ batch[w].Records = << >>
    /\ at' = [at EXCEPT ![w] = "done"]
    /\ UNCHANGED <<simCancelled, batch, vesselIdx, made, totals, transportVars>>

(* Fault: the last Send is not counted.                                    *)
CountedUnlessFlushed(w) ==
    CASE at[w] = "flush" -> totals
      [] at[w] # "flush" /\ call[w] = "ok" -> [totals EXCEPT !.batches = @ + 1]
      [] OTHER -> [totals EXCEPT !.errors = @ + 1]

Counted(w) == IF call[w] = "ok" THEN [totals EXCEPT !.batches = @ + 1]
              ELSE [totals EXCEPT !.errors = @ + 1]

(* Send returns and its result is counted.                                 *)
Count(w) ==
    /\ Return(w)
    /\ totals' = Counted(w)
    /\ at' = [at EXCEPT ![w] = IF @ = "flush" THEN "done" ELSE "select"]
    /\ UNCHANGED <<simCancelled, batch, vesselIdx, made>>

(* A signal, or the end of --duration.                                     *)
CancelSimulator == /\ ~simCancelled
                   /\ simCancelled' = TRUE
                   /\ UNCHANGED <<at, batch, vesselIdx, made, totals, transportVars>>

FinishSend(w) == \/ Count(w)
                 \/ SendStep(w) /\ UNCHANGED engineVars

SimWorkerStep(w) == \/ Tick(w) \/ FinishSend(w) \/ Quit(w)
                    \/ Lock(w) /\ UNCHANGED engineVars

SimulatorDone == \A w \in SimWorker : at[w] = "done"

-----------------------------------------------------------------------------
(* The reports the vessels have made.                                      *)
Made == UNION {{ReportOf[i][n] : n \in 1..made[i]} : i \in VesselIndex}
=============================================================================
