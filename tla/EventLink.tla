------------------------------ MODULE EventLink ------------------------------
(***************************************************************************)
(* The way of an event from the spatial engine to the alert history: the   *)
(* publisher's sendEvent (event_publisher.go), the TCP stream, the broker's*)
(* consumer and pipeline (consumer.go, pipeline.go) and the table of       *)
(* alerts (store.go).                                                      *)
(*                                                                         *)
(* The publisher has two goroutines, one per kind of event, that share one *)
(* connection under a mutex.  A frame is two writes, its length and its    *)
(* data, and two reads.  Publisher and consumer both dial --event-addr;    *)
(* the event bus that listens there and joins them is external.  Either    *)
(* end may learn that the connection is gone much later than the other.    *)
(***************************************************************************)
EXTENDS Integers, Sequences

CONSTANTS MaxEvents,      \* bound: how many events each goroutine has
          Oversize,       \* events whose data is longer than 10 MB
          WireCap         \* what the socket buffers hold, in writes

Sender == {"violations", "positions"}
Event == Sender \X (Nat \ {0})

ASSUME LinkAssumption == /\ MaxEvents \in [Sender -> Nat]
                         /\ Oversize \subseteq Event
                         /\ WireCap \in Nat \ {0}

VARIABLES pc, taken,          \* per goroutine of the publisher, and its events so far
          connMu, conn,       \* fields of EventPublisher; conn is "stale" when
                              \* the other end is gone
          stopping,           \* the engine's context is cancelled
          unfinished,         \* events on the last line of the fixture file
          link, wire,         \* the consumer's connection, and what it has to read
          consumer, frame,    \* Consumer.Run, readStream and Process
          closing,            \* the broker's context is cancelled
          alerts,             \* the alerts table: it outlives the broker
          refused, shown, seen    \* history: alerts not saved, events broadcast

publisherVars == <<pc, taken, connMu, unfinished>>
storeVars == <<alerts, refused, shown, seen>>
consumerVars == <<consumer, frame>>
vars == <<publisherVars, conn, stopping, link, wire, consumerVars, closing, storeVars>>

-----------------------------------------------------------------------------
Half == Event \X {"length", "data"}
NoEvent == <<"violations", 0>>

Init == /\ pc = [g \in Sender |-> "idle"]
        /\ taken = [g \in Sender |-> 0]
        /\ connMu = {}
        /\ conn = "nil"
        /\ stopping = FALSE
        /\ unfinished = 0
        /\ link = "none" /\ wire = << >>
        /\ consumer = "top" /\ frame = NoEvent
        /\ closing = FALSE
        /\ alerts = {} /\ refused = {} /\ shown = {}
        /\ seen = [g \in Sender |-> << >>]

Current(g) == <<g, taken[g]>>

-----------------------------------------------------------------------------
(* EventPublisher.  Each goroutine takes an event (from the violations     *)
(* channel, or a snapshot at a tick) and calls sendEvent with it.          *)

(* Fault: an event that may have been lost is taken again.                 *)
TakeAgain(g) ==
    /\ pc[g] = "idle"
    /\ \/ taken[g] > 0 /\ UNCHANGED taken
       \/ taken[g] < MaxEvents[g] /\ taken' = [taken EXCEPT ![g] = @ + 1]
    /\ pc' = [pc EXCEPT ![g] = "lock"]
    /\ UNCHANGED <<connMu, unfinished, conn, stopping, link, wire, consumerVars, closing, storeVars>>

Take(g) ==
    /\ pc[g] = "idle"
    /\ taken[g] < MaxEvents[g]
    /\ taken' = [taken EXCEPT ![g] = @ + 1]
    /\ pc' = [pc EXCEPT ![g] = "lock"]
    /\ UNCHANGED <<connMu, unfinished, conn, stopping, link, wire, consumerVars, closing, storeVars>>

StopSender(g) ==
    /\ pc[g] = "idle"
    /\ stopping
    /\ pc' = [pc EXCEPT ![g] = "done"]
    /\ UNCHANGED <<taken, connMu, unfinished, conn, stopping, link, wire, consumerVars, closing, storeVars>>

(* Fault: no mutex.                                                        *)
NoLock(g) ==
    /\ pc[g] = "lock"
    /\ connMu' = connMu \union {g}
    /\ pc' = [pc EXCEPT ![g] = IF conn = "nil" THEN "dial" ELSE "length"]
    /\ UNCHANGED <<taken, unfinished, conn, stopping, link, wire, consumerVars, closing, storeVars>>

Lock(g) ==
    /\ pc[g] = "lock"
    /\ connMu = {}
    /\ connMu' = connMu \union {g}
    /\ pc' = [pc EXCEPT ![g] = IF conn = "nil" THEN "dial" ELSE "length"]
    /\ UNCHANGED <<taken, unfinished, conn, stopping, link, wire, consumerVars, closing, storeVars>>

(* sendEvent returns, and its deferred Unlock runs.                        *)
Return(g) ==
    /\ connMu' = connMu \ {g}
    /\ pc' = [pc EXCEPT ![g] = "line"]
    /\ UNCHANGED <<taken, unfinished>>

(* The dial succeeds once the consumer waits for its upstream.             *)
Dial(g) ==
    /\ pc[g] = "dial"
    /\ link = "waiting"
    /\ conn' = "up" /\ link' = "joined"
    /\ pc' = [pc EXCEPT ![g] = "length"]
    /\ UNCHANGED <<taken, connMu, unfinished, stopping, wire, consumerVars, closing, storeVars>>

DialFails(g) ==
    /\ pc[g] = "dial"
    /\ Return(g)
    /\ UNCHANGED <<conn, stopping, link, wire, consumerVars, closing, storeVars>>

(* A write to a connection the other end has left may succeed for a while; *)
(* one to a connection whose buffers are full blocks.                      *)
Written(half) ==
    \/ /\ conn = "up" /\ Len(wire) < WireCap
       /\ wire' = Append(wire, half)
    \/ /\ conn = "stale"
       /\ UNCHANGED wire

(* Fault: the mutex is held for a write, not for a frame.                  *)
LengthUnlocks(g) ==
    /\ pc[g] = "length"
    /\ Written(<<Current(g), "length">>)
    /\ pc' = [pc EXCEPT ![g] = "data"]
    /\ connMu' = connMu \ {g}
    /\ UNCHANGED <<taken, unfinished, conn, stopping, link, consumerVars, closing, storeVars>>

WriteLength(g) ==
    /\ pc[g] = "length"
    /\ Written(<<Current(g), "length">>)
    /\ pc' = [pc EXCEPT ![g] = "data"]
    /\ UNCHANGED <<taken, connMu, unfinished, conn, stopping, link, consumerVars, closing, storeVars>>

WriteData(g) ==
    /\ pc[g] = "data"
    /\ Written(<<Current(g), "data">>)
    /\ Return(g)
    /\ UNCHANGED <<conn, stopping, link, consumerVars, closing, storeVars>>

(* Fault: an early return that does not unlock.                            *)
FailsLocked(g) ==
    /\ pc[g] \in {"length", "data"}
    /\ conn = "stale"
    /\ conn' = "nil"
    /\ pc' = [pc EXCEPT ![g] = "line"]
    /\ UNCHANGED <<taken, connMu, unfinished, stopping, link, wire, consumerVars, closing, storeVars>>

(* Either write fails: the connection is closed and dropped, and the event *)
(* with it.                                                                *)
WriteFails(g) ==
    /\ pc[g] \in {"length", "data"}
    /\ conn = "stale"
    /\ conn' = "nil"
    /\ Return(g)
    /\ UNCHANGED <<stopping, link, wire, consumerVars, closing, storeVars>>

(* The fixture file: the event, then the end of its line, not under the    *)
(* mutex.                                                                  *)
WriteLine(g) ==
    /\ pc[g] = "line"
    /\ unfinished' = unfinished + 1
    /\ pc' = [pc EXCEPT ![g] = "newline"]
    /\ UNCHANGED <<taken, connMu, conn, stopping, link, wire, consumerVars, closing, storeVars>>

WriteNewline(g) ==
    /\ pc[g] = "newline"
    /\ unfinished' = 0
    /\ pc' = [pc EXCEPT ![g] = "idle"]
    /\ UNCHANGED <<taken, connMu, conn, stopping, link, wire, consumerVars, closing, storeVars>>

(* A signal to the engine.                                                 *)
CancelEngine ==
    /\ ~stopping
    /\ stopping' = TRUE
    /\ UNCHANGED <<publisherVars, conn, link, wire, consumerVars, closing, storeVars>>

-----------------------------------------------------------------------------
(* The network, the event bus or the engine's end breaks the connection.   *)
Break ==
    /\ link = "joined"
    /\ link' = "cut" /\ conn' = "stale"
    /\ UNCHANGED <<publisherVars, stopping, wire, consumerVars, closing, storeVars>>

(* The consumer's end closes: what it has not read is gone, the publisher  *)
(* learns of it at some later write.                                       *)
Hangup ==
    /\ link' = "none" /\ wire' = << >>
    /\ conn' = IF conn = "up" THEN "stale" ELSE conn
    /\ frame' = NoEvent

-----------------------------------------------------------------------------
(* Consumer.                                                               *)

Check ==
    /\ consumer = "top"
    /\ consumer' = IF closing THEN "done" ELSE "dial"
    /\ UNCHANGED <<publisherVars, conn, stopping, link, wire, frame, closing, storeVars>>

ConsumerDial ==
    /\ consumer = "dial"
    /\ \/ consumer' = "length" /\ link' = "waiting"
       \/ consumer' = "sleep" /\ UNCHANGED link
    /\ UNCHANGED <<publisherVars, conn, stopping, wire, frame, closing, storeVars>>

Wake ==
    /\ consumer = "sleep"
    /\ consumer' = "top"
    /\ UNCHANGED <<publisherVars, conn, stopping, link, wire, frame, closing, storeVars>>

(* A length that is none, because it is data, is as invalid as one that is *)
(* too large.                                                              *)
Valid(half) == half[2] = "length" /\ half[1] \notin Oversize

ReadLength ==
    /\ consumer = "length"
    /\ wire # << >>
    /\ IF Valid(Head(wire))
       THEN /\ consumer' = "payload" /\ frame' = Head(wire)[1]
            /\ wire' = Tail(wire)
            /\ UNCHANGED <<conn, link>>
       ELSE consumer' = "sleep" /\ Hangup
    /\ UNCHANGED <<publisherVars, stopping, closing, storeVars>>

(* Fault: broadcast first, then save.                                      *)
ShowsFirst ==
    /\ consumer = "payload"
    /\ wire # << >>
    /\ wire' = Tail(wire)
    /\ consumer' = IF Head(wire) # <<frame, "data">> THEN "length"
                   ELSE IF frame[1] = "violations" THEN "save" ELSE "broadcast"
    /\ shown' = IF Head(wire) # <<frame, "data">> THEN shown ELSE shown \union {frame}
    /\ UNCHANGED <<publisherVars, conn, stopping, link, frame, closing, alerts, refused, seen>>

(* Bytes that are not the data of this frame are not JSON: they are skipped.*)
ReadPayload ==
    /\ consumer = "payload"
    /\ wire # << >>
    /\ wire' = Tail(wire)
    /\ consumer' = IF Head(wire) # <<frame, "data">> THEN "length"
                   ELSE IF frame[1] = "violations" THEN "save" ELSE "broadcast"
    /\ UNCHANGED <<publisherVars, conn, stopping, link, frame, closing, storeVars>>

(* Fault: nobody closes the connection on cancellation.                    *)
FailsWhenCut ==
    /\ consumer \in {"length", "payload"}
    /\ link = "cut"
    /\ consumer' = "sleep" /\ Hangup
    /\ UNCHANGED <<publisherVars, stopping, closing, storeVars>>

(* ReadFull fails: the connection ended, or the goroutine that waits for   *)
(* the cancellation closed it.                                             *)
ReadFails ==
    /\ consumer \in {"length", "payload"}
    /\ link = "cut" \/ closing
    /\ consumer' = "sleep" /\ Hangup
    /\ UNCHANGED <<publisherVars, stopping, closing, storeVars>>

(* Pipeline.Process: SaveAlert, whose error is only logged, and Broadcast. *)
SaveAlert ==
    /\ consumer = "save"
    /\ consumer' = "broadcast"
    /\ \/ alerts' = alerts \union {frame} /\ UNCHANGED refused
       \/ refused' = refused \union {frame} /\ UNCHANGED alerts
    /\ UNCHANGED <<publisherVars, conn, stopping, link, wire, frame, closing, shown, seen>>

Broadcast ==
    /\ consumer = "broadcast"
    /\ consumer' = "length"
    /\ shown' = shown \union {frame}
    /\ seen' = [seen EXCEPT ![frame[1]] = Append(@, frame[2])]
    /\ frame' = NoEvent
    /\ UNCHANGED <<publisherVars, conn, stopping, link, wire, closing, alerts, refused>>

(* A signal to the broker.                                                 *)
CancelBroker ==
    /\ ~closing
    /\ closing' = TRUE
    /\ UNCHANGED <<publisherVars, conn, stopping, link, wire, consumerVars, storeVars>>

(* The broker ends at any moment and is started again.                     *)
RestartBroker ==
    /\ consumer' = "top" /\ closing' = FALSE
    /\ Hangup
    /\ UNCHANGED <<publisherVars, stopping, storeVars>>

-----------------------------------------------------------------------------
SendEvent(g) == \/ Dial(g) \/ DialFails(g)
                \/ WriteLength(g) \/ WriteData(g) \/ WriteFails(g)
                \/ WriteLine(g) \/ WriteNewline(g)

Consume == \/ Check \/ ConsumerDial \/ Wake
           \/ ReadLength \/ ReadPayload \/ ReadFails
           \/ SaveAlert \/ Broadcast

Next == \/ \E g \in Sender : Take(g) \/ StopSender(g) \/ Lock(g) \/ SendEvent(g)
        \/ CancelEngine \/ Break
        \/ Consume
        \/ CancelBroker \/ RestartBroker

Spec == Init /\ [][Next]_vars

(* A goroutine that can go on does; a mutex is handed on; a select takes a *)
(* case that is ready again and again; dials and reads come to an end.     *)
FairSpec == /\ Spec
            /\ \A g \in Sender : /\ WF_vars(SendEvent(g))
                                 /\ SF_vars(Lock(g))
                                 /\ SF_vars(StopSender(g))
            /\ WF_vars(Consume)

-----------------------------------------------------------------------------
TypeOK ==
    /\ pc \in [Sender -> {"idle", "lock", "dial", "length", "data", "line", "newline", "done"}]
    /\ taken \in [Sender -> Nat] /\ \A g \in Sender : taken[g] <= MaxEvents[g]
    /\ connMu \in {{}} \union {{g} : g \in Sender}
    /\ conn \in {"nil", "up", "stale"}
    /\ stopping \in BOOLEAN
    /\ unfinished \in Nat
    /\ link \in {"none", "waiting", "joined", "cut"}
    /\ wire \in Seq(Half)
    /\ consumer \in {"top", "dial", "sleep", "length", "payload", "save", "broadcast", "done"}
    /\ frame \in Event \union {NoEvent}
    /\ closing \in BOOLEAN
    /\ alerts \in SUBSET Event /\ refused \in SUBSET Event /\ shown \in SUBSET Event
    /\ seen \in [Sender -> Seq(Nat)]

(* The mutex is held from the dial to the end of the frame, and the two    *)
(* ends agree about the connection except that the publisher may not yet   *)
(* know of its loss.                                                       *)
ConnInv ==
    /\ \A g \in Sender :
         /\ g \in connMu <=> pc[g] \in {"dial", "length", "data"}
         /\ pc[g] = "dial" => conn = "nil"
         /\ pc[g] \in {"length", "data"} => conn # "nil"
         /\ pc[g] \notin {"idle", "done"} => taken[g] > 0
    /\ conn = "up" <=> link = "joined"
    /\ consumer \in {"top", "dial", "sleep", "done"} <=> link = "none"
    /\ link = "waiting" => consumer = "length"
    /\ link \in {"none", "waiting"} => wire = << >>
    /\ consumer \in {"payload", "save", "broadcast"} => frame \in Event
    /\ consumer \notin {"payload", "save", "broadcast"} => frame = NoEvent

(* What may come after a half on the wire.                                 *)
Follows(first, second) ==
    IF first[2] = "length" THEN second = <<first[1], "data">> ELSE second[2] = "length"

(* The last half before the wire, and the last one written.                *)
Prior == <<frame, IF consumer = "payload" THEN "length" ELSE "data">>
Latest == IF wire = << >> THEN Prior ELSE wire[Len(wire)]

(* Each half on the wire follows the one before it, from what the consumer *)
(* has read to what the publisher is about to write.                       *)
WireInv ==
    /\ wire # << >> => Follows(Prior, wire[1])
    /\ \A i \in 1..Len(wire) - 1 : Follows(wire[i], wire[i + 1])
    /\ conn = "up" =>
         IF \E g \in Sender : pc[g] = "data"
         THEN \A g \in Sender : pc[g] = "data" => Latest = <<Current(g), "length">>
         ELSE Latest[2] = "data"

Before(e, f) == e[1] = f[1] => e[2] < f[2]
Lengths == {i \in 1..Len(wire) : wire[i][2] = "length"}
Sent(e) == /\ e[2] <= taken[e[1]]
           /\ pc[e[1]] \in {"lock", "dial", "length"} => e[2] < taken[e[1]]

(* Of each goroutine, what the broker has processed comes before what it   *)
(* processes, that before what is on the wire, that before what is unsent. *)
OrderInv ==
    /\ \A g \in Sender : \A k \in DOMAIN seen[g] :
         /\ Sent(<<g, seen[g][k]>>)
         /\ frame # NoEvent => Before(<<g, seen[g][k]>>, frame)
         /\ \A i \in Lengths : Before(<<g, seen[g][k]>>, wire[i][1])
    /\ frame # NoEvent => Sent(frame) /\ \A i \in Lengths : Before(frame, wire[i][1])
    /\ \A i \in Lengths : /\ Sent(wire[i][1])
                          /\ \A j \in Lengths : i < j => Before(wire[i][1], wire[j][1])

LinkInv == ConnInv /\ WireInv /\ OrderInv

(* Whatever the two goroutines, the failures and the reconnections do, the *)
(* consumer finds a length where it reads a length, and after it the data  *)
(* that belongs to it.                                                     *)
ReadsWholeFrames ==
    wire # << >> =>
        /\ consumer = "length" => Head(wire)[2] = "length"
        /\ consumer = "payload" => Head(wire) = <<frame, "data">>

(* The broker processes the events of each goroutine in order, none twice. *)
Feed == INSTANCE EventFeed WITH Number <- 1..(MaxEvents["violations"] + MaxEvents["positions"])
ImplementsEventFeed == Feed!Spec

(* The history has every alert that dashboards were shown, unless the      *)
(* database refused it; a restart between the two does not matter.         *)
ShownAreStored ==
    \A e \in shown : e[1] = "violations" => e \in alerts \union refused

(* The publisher stops when the engine is cancelled, whatever happens to   *)
(* the connection it is about to use.                                      *)
PublisherStops == stopping ~> \A g \in Sender : pc[g] = "done"

(* The consumer stops on a signal although it may be waiting for bytes     *)
(* that never come.                                                        *)
ConsumerStops == closing ~> consumer = "done" \/ ~closing

-----------------------------------------------------------------------------
(* event_publisher.go:4, the fixture file is JSONL: a line is one event.   *)
OneEventPerLine == unfinished <= 1
=============================================================================
