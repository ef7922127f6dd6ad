----------------------------- MODULE Transport ------------------------------
(***************************************************************************)
(* The senders of the simulator (simulator/transport.go).  A call of Send  *)
(* by one of its worker goroutines marshals a batch and then either writes *)
(* one UDP datagram, or a length and the data to a stream (a TCP           *)
(* connection or a file) with the mutex held.  Records and bytes are       *)
(* counted along with the batches.                                         *)
(***************************************************************************)
EXTENDS AISCodec

CONSTANTS NumWorkers,    \* --workers
          WireCap        \* datagrams the socket buffers hold

ASSUME TransportAssumption == NumWorkers \in Nat \ {0} /\ WireCap \in Nat \ {0}

SimWorker == 0 .. NumWorkers - 1
Free == -1

VARIABLES mode,      \* --transport: "udp", or "stream" for tcp and file
          call,      \* where each worker is in Send
          data,      \* what it writes
          wire,      \* datagrams on their way to the engine
          stream,    \* bytes written to the connection or file
          holder,    \* the worker inside the mutex, or Free
          stats      \* SenderStats

transportVars == <<mode, call, data, wire, stream, holder, stats>>

Calls == {"none", "datagram", "lock", "length", "data", "ok", "error"}

TransportTypeOK ==
    /\ mode \in {"udp", "stream"}
    /\ call \in [SimWorker -> Calls]
    /\ data \in [SimWorker -> Seq(Byte)]
    /\ wire \in Seq(Seq(Byte)) /\ Len(wire) <= WireCap
    /\ stream \in Seq(Byte)
    /\ holder \in SimWorker \cup {Free}
    /\ stats \in [BatchesSent : Nat, Errors : Nat]
    /\ \A w \in SimWorker : holder = w <=> call[w] \in {"length", "data"}

TransportInit ==
    /\ mode \in {"udp", "stream"}
    /\ call = [w \in SimWorker |-> "none"]
    /\ data = [w \in SimWorker |-> << >>]
    /\ wire = << >>
    /\ stream = << >>
    /\ holder = Free
    /\ stats = [BatchesSent |-> 0, Errors |-> 0]

Go(w, place) == call' = [call EXCEPT ![w] = place]

CountBatch == stats' = [stats EXCEPT !.BatchesSent = @ + 1]
CountError == stats' = [stats EXCEPT !.Errors = @ + 1]

(* A worker calls Send.                                                    *)
Send(w, batch) ==
    /\ call[w] = "none"
    /\ data' = [data EXCEPT ![w] = MarshalBinary(batch)]
    /\ Go(w, IF mode = "udp" THEN "datagram" ELSE "lock")
    /\ UNCHANGED <<mode, wire, stream, holder, stats>>

(* A datagram counts as sent when the network has it, which may lose it    *)
(* and does when the buffers are full.  The update of stats, under the     *)
(* mutex, follows the write without anything another goroutine sees.       *)
WriteDatagram(w) ==
    /\ call[w] = "datagram"
    /\ \/ /\ \/ UNCHANGED wire
             \/ Len(wire) < WireCap /\ wire' = Append(wire, data[w])
          /\ CountBatch
          /\ Go(w, "ok")
       \/ UNCHANGED wire /\ CountError /\ Go(w, "error")
    /\ UNCHANGED <<mode, data, stream, holder>>

(* Fault: the stream is written without the mutex.                         *)
LockNothing(w) == /\ call[w] = "lock"
                  /\ Go(w, "length")
                  /\ UNCHANGED <<mode, data, wire, stream, holder, stats>>

Lock(w) == /\ call[w] = "lock"
           /\ holder = Free
           /\ holder' = w
           /\ Go(w, "length")
           /\ UNCHANGED <<mode, data, wire, stream, stats>>

LengthPrefix(w) == LittleEndian(Len(data[w]), IntWidth)

WriteLength(w) == /\ call[w] = "length"
                  /\ stream' = stream \o LengthPrefix(w)
                  /\ Go(w, "data")
                  /\ UNCHANGED <<mode, data, wire, holder, stats>>

WriteData(w) == /\ call[w] = "data"
                /\ stream' = stream \o data[w]
                /\ CountBatch
                /\ holder' = Free
                /\ Go(w, "ok")
                /\ UNCHANGED <<mode, data, wire>>

(* A write fails before its first byte or after it, the call with it.      *)
WriteFails(w) ==
    /\ call[w] \in {"length", "data"}
    /\ LET bytes == IF call[w] = "length" THEN LengthPrefix(w) ELSE data[w] IN
       stream' \in {stream, Append(stream, Head(bytes))}
    /\ CountError
    /\ holder' = Free
    /\ Go(w, "error")
    /\ UNCHANGED <<mode, data, wire>>

SendStep(w) == WriteDatagram(w) \/ WriteLength(w) \/ WriteData(w) \/ WriteFails(w)

(* Send returns to its caller.                                             *)
Returned(w) == call[w] \in {"ok", "error"}
Return(w) == /\ Returned(w)
             /\ call' = [call EXCEPT ![w] = "none"]
             /\ data' = [data EXCEPT ![w] = << >>]
             /\ UNCHANGED <<mode, wire, stream, holder, stats>>

-----------------------------------------------------------------------------
(* The stream is whole frames from offset on: what a reader that takes a   *)
(* length and then as many bytes finds are batches.                        *)
WholeFrames ==
    LET whole[k \in 0..Len(stream)] ==
          \/ k = Len(stream)
          \/ /\ k + IntWidth <= Len(stream)
             /\ LET n == NumberAt(stream, k, IntWidth)
                    next == k + IntWidth + n IN
                /\ next <= Len(stream)
                /\ UnmarshalBinary(Bytes(stream, k + IntWidth, n)) # {}
                /\ whole[next]
    IN whole[0]
=============================================================================
