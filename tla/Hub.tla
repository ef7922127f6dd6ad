-------------------------------- MODULE Hub ---------------------------------
(***************************************************************************)
(* The WebSocket hub of the event broker (hub.go): the Run loop over the   *)
(* channels register, unregister and broadcast, and for each connection    *)
(* the goroutines writePump and readPump.  Client is the set of            *)
(* connections; a dashboard that reconnects is another one.                *)
(*                                                                         *)
(* A step is one channel operation or one write to the connection.  The    *)
(* hub's loop over its clients is a step per client, so that the pumps     *)
(* run in the middle of a broadcast.                                       *)
(***************************************************************************)
EXTENDS Integers, Sequences

CONSTANTS Client,
          BroadcastCap,     \* 1024 messages
          SendCap,          \* 256 messages per client
          MaxMessages       \* bound: the pipeline stops here

ASSUME HubAssumption == /\ BroadcastCap \in Nat \ {0}
                        /\ SendCap \in Nat \ {0}
                        /\ MaxMessages \in Nat

VARIABLES clients,      \* h.clients
          broadcast,    \* h.broadcast
          todo,         \* the clients the broadcast loop has yet to visit;
                        \* the hub is back at its select when it is empty
          message,      \* the message it delivers
          handler,      \* HandleWebSocket, per connection
          reader, writer,   \* the two pumps, per connection
          send,         \* c.send, the client's channel
          closes,       \* how often it was closed
          frame, queued,    \* the WebSocket message being written, and n
          conn,         \* the server's end of the connection
          peer,         \* whether the dashboard is there and answers pings
          next,         \* messages the pipeline has passed to Broadcast
          log, start, got   \* history: as in Subscription

pumpVars == <<reader, writer, frame, queued>>
channelVars == <<clients, send, closes>>
hubVars == <<broadcast, todo, message, next, log>>
vars == <<hubVars, channelVars, pumpVars, handler, conn, peer, start, got>>

-----------------------------------------------------------------------------
Message == 1..MaxMessages
Outside == -1

Init == /\ clients = {}
        /\ broadcast = << >> /\ todo = {} /\ message = 0
        /\ handler = [c \in Client |-> "none"]
        /\ reader = [c \in Client |-> "none"]
        /\ writer = [c \in Client |-> "none"]
        /\ send = [c \in Client |-> << >>]
        /\ closes = [c \in Client |-> 0]
        /\ frame = [c \in Client |-> << >>]
        /\ queued = [c \in Client |-> 0]
        /\ conn = [c \in Client |-> "none"]
        /\ peer = [c \in Client |-> "away"]
        /\ next = 0
        /\ log = << >>
        /\ start = [c \in Client |-> Outside]
        /\ got = [c \in Client |-> << >>]

-----------------------------------------------------------------------------
(* Broadcast: a non-blocking send, the message is dropped when the hub's   *)
(* channel is full.  Messages are numbered as the pipeline produces them.  *)
Broadcast ==
    /\ next < MaxMessages
    /\ next' = next + 1
    /\ broadcast' = IF Len(broadcast) < BroadcastCap THEN Append(broadcast, next')
                    ELSE broadcast
    /\ UNCHANGED <<todo, message, log, channelVars, pumpVars, handler, conn, peer, start, got>>

(* HandleWebSocket: the upgrade succeeds, the handler sends to register.   *)
Connect(c) ==
    /\ handler[c] = "none"
    /\ handler' = [handler EXCEPT ![c] = "registering"]
    /\ conn' = [conn EXCEPT ![c] = "open"]
    /\ peer' = [peer EXCEPT ![c] = "here"]
    /\ UNCHANGED <<hubVars, channelVars, pumpVars, start, got>>

(* The dashboard closes, dies, or leaves a ping unanswered for a minute.   *)
PeerLeaves(c) ==
    /\ peer[c] = "here"
    /\ peer' = [peer EXCEPT ![c] = "away"]
    /\ UNCHANGED <<hubVars, channelVars, pumpVars, handler, conn, start, got>>

-----------------------------------------------------------------------------
(* The hub's select.  The handler starts the two pumps when it is served.  *)
SelectingAlways == TRUE     \* Fault: it serves the others in mid-broadcast.

Selecting == todo = {}

Register(c) ==
    /\ Selecting
    /\ handler[c] = "registering"
    /\ clients' = clients \cup {c}
    /\ start' = [start EXCEPT ![c] = Len(log)]
    /\ handler' = [handler EXCEPT ![c] = "done"]
    /\ reader' = [reader EXCEPT ![c] = "reading"]
    /\ writer' = [writer EXCEPT ![c] = "select"]
    /\ UNCHANGED <<hubVars, send, closes, frame, queued, conn, peer, got>>

(* Fault: close without looking in the map.                                *)
LeaveUnchecked(c) == /\ clients' = clients \ {c}
                     /\ closes' = [closes EXCEPT ![c] = @ + 1]

(* delete(h.clients, client); close(client.send)                           *)
Drop(c) == /\ clients' = clients \ {c}
           /\ closes' = [closes EXCEPT ![c] = @ + 1]

(* The same unless the hub has dropped the client before.                  *)
Leave(c) == IF c \in clients THEN Drop(c) ELSE UNCHANGED <<clients, closes>>

Unregister(c) ==
    /\ Selecting
    /\ reader[c] = "leaving"
    /\ Leave(c)
    /\ reader' = [reader EXCEPT ![c] = "closing"]
    /\ UNCHANGED <<hubVars, send, writer, frame, queued, handler, conn, peer, start, got>>

TakeBroadcast ==
    /\ Selecting
    /\ broadcast # << >>
    /\ message' = Head(broadcast)
    /\ broadcast' = Tail(broadcast)
    /\ log' = Append(log, message')
    /\ todo' = clients
    /\ UNCHANGED <<next, channelVars, pumpVars, handler, conn, peer, start, got>>

(* Fault: the hub waits for room in the buffer.                            *)
DeliverBlocking(c) ==
    /\ Len(send[c]) < SendCap
    /\ send' = [send EXCEPT ![c] = Append(@, message)]
    /\ UNCHANGED <<clients, closes>>

(* The loop body: a non-blocking send; a client whose buffer is full is    *)
(* dropped.                                                                *)
DeliverOrDrop(c) ==
    \/ /\ Len(send[c]) < SendCap
       /\ send' = [send EXCEPT ![c] = Append(@, message)]
       /\ UNCHANGED <<clients, closes>>
    \/ /\ Len(send[c]) = SendCap
       /\ Drop(c)
       /\ UNCHANGED send

Deliver(c) ==
    /\ c \in todo
    /\ todo' = todo \ {c}
    /\ DeliverOrDrop(c)
    /\ UNCHANGED <<broadcast, message, next, log, pumpVars, handler, conn, peer, start, got>>

-----------------------------------------------------------------------------
(* writePump: a message from the channel starts a frame, ...               *)
WriterTake(c) ==
    /\ writer[c] = "select"
    /\ send[c] # << >>
    /\ frame' = [frame EXCEPT ![c] = << Head(send[c]) >>]
    /\ send' = [send EXCEPT ![c] = Tail(@)]
    /\ writer' = [writer EXCEPT ![c] = "count"]
    /\ UNCHANGED <<hubVars, clients, closes, reader, queued, handler, conn, peer, start, got>>

(* Fault: the message already taken is counted too.                        *)
WaitingAndTaken(c) == Len(send[c]) + 1

Waiting(c) == Len(send[c])

(* ... n := len(c.send) ...                                                *)
WriterCount(c) ==
    /\ writer[c] = "count"
    /\ queued' = [queued EXCEPT ![c] = Waiting(c)]
    /\ writer' = [writer EXCEPT ![c] = "fill"]
    /\ UNCHANGED <<hubVars, channelVars, reader, frame, handler, conn, peer, start, got>>

(* Fault: the messages that were queued are written before the one taken.  *)
WriterFillFirst(c) ==
    /\ writer[c] = "fill"
    /\ queued[c] > 0
    /\ queued' = [queued EXCEPT ![c] = @ - 1]
    /\ frame' = [frame EXCEPT ![c] = << Head(send[c]) >> \o @]
    /\ send' = [send EXCEPT ![c] = Tail(@)]
    /\ UNCHANGED <<hubVars, clients, closes, reader, writer, handler, conn, peer, start, got>>

(* ... more messages go into the same frame, separated by newlines, ...    *)
WriterFill(c) ==
    /\ writer[c] = "fill"
    /\ queued[c] > 0
    /\ queued' = [queued EXCEPT ![c] = @ - 1]
    /\ frame' = [frame EXCEPT ![c] = Append(@, Head(send[c]))]
    /\ send' = [send EXCEPT ![c] = Tail(@)]
    /\ UNCHANGED <<hubVars, clients, closes, reader, writer, handler, conn, peer, start, got>>

(* ... and the frame is written.                                           *)
WriterFlush(c) ==
    /\ writer[c] = "fill"
    /\ queued[c] = 0
    /\ conn[c] = "open"
    /\ got' = [got EXCEPT ![c] = @ \o frame[c]]
    /\ frame' = [frame EXCEPT ![c] = << >>]
    /\ writer' = [writer EXCEPT ![c] = "select"]
    /\ UNCHANGED <<hubVars, channelVars, reader, queued, handler, conn, peer, start>>

(* writePump returns, closing the connection: it failed to open, or        *)
(* within 10 s to write, a frame, or to ping; or the hub closed the        *)
(* channel and every message left in it is written.                        *)
WriterReturns(c) ==
    /\ writer' = [writer EXCEPT ![c] = "done"]
    /\ conn' = [conn EXCEPT ![c] = "closed"]
    /\ frame' = [frame EXCEPT ![c] = << >>]
    /\ UNCHANGED <<hubVars, channelVars, reader, queued, handler, peer, start, got>>

WriterFails(c) == /\ \/ writer[c] = "count"
                     \/ writer[c] = "fill" /\ queued[c] = 0
                     \/ writer[c] = "select"
                  /\ WriterReturns(c)

WriterSeesClose(c) == /\ writer[c] = "select"
                      /\ send[c] = << >> /\ closes[c] > 0
                      /\ WriterReturns(c)

(* Fault: readPump returns without unregistering.                          *)
LeavesSilently == "closing"

Leaves == "leaving"

(* readPump: ReadMessage fails, the client is unregistered, the connection *)
(* closed.                                                                 *)
ReaderFails(c) ==
    /\ reader[c] = "reading"
    /\ conn[c] = "closed" \/ peer[c] = "away"
    /\ reader' = [reader EXCEPT ![c] = Leaves]
    /\ UNCHANGED <<hubVars, channelVars, writer, frame, queued, handler, conn, peer, start, got>>

ReaderCloses(c) ==
    /\ reader[c] = "closing"
    /\ reader' = [reader EXCEPT ![c] = "done"]
    /\ conn' = [conn EXCEPT ![c] = "closed"]
    /\ UNCHANGED <<hubVars, channelVars, writer, frame, queued, handler, peer, start, got>>

-----------------------------------------------------------------------------
WriterStep(c) == \/ WriterTake(c) \/ WriterCount(c) \/ WriterFill(c)
                 \/ WriterFlush(c) \/ WriterSeesClose(c)

Next == \/ Broadcast \/ TakeBroadcast
        \/ \E c \in Client :
             \/ Connect(c) \/ PeerLeaves(c)
             \/ Register(c) \/ Unregister(c) \/ Deliver(c)
             \/ WriterStep(c) \/ WriterFails(c)
             \/ ReaderFails(c) \/ ReaderCloses(c)

Spec == Init /\ [][Next]_vars

(* A write fails in the end if it cannot succeed, and so does the next     *)
(* ping on a connection that is closed.                                    *)
WriterGivesUp(c) == /\ writer[c] = "fill" \/ conn[c] = "closed"
                    /\ WriterFails(c)

(* Every goroutine keeps running, and Go's select serves each of several   *)
(* ready channels sooner or later (SF).  Nothing is assumed of the         *)
(* pipeline and of the dashboards.                                         *)
Fairness ==
    /\ SF_vars(TakeBroadcast)
    /\ \A c \in Client : /\ SF_vars(Register(c)) /\ SF_vars(Unregister(c))
                         /\ WF_vars(Deliver(c))
                         /\ WF_vars(WriterStep(c) \/ WriterGivesUp(c))
                         /\ WF_vars(ReaderFails(c)) /\ WF_vars(ReaderCloses(c))

FairSpec == Spec /\ Fairness

-----------------------------------------------------------------------------
TypeOK ==
    /\ clients \subseteq Client /\ todo \subseteq clients
    /\ broadcast \in Seq(Message) /\ Len(broadcast) <= BroadcastCap
    /\ message \in Message \cup {0}
    /\ todo # {} => message \in Message
    /\ handler \in [Client -> {"none", "registering", "done"}]
    /\ reader \in [Client -> {"none", "reading", "leaving", "closing", "done"}]
    /\ writer \in [Client -> {"none", "select", "count", "fill", "done"}]
    /\ send \in [Client -> Seq(Message)]
    /\ closes \in [Client -> Nat]
    /\ frame \in [Client -> Seq(Message)]
    /\ queued \in [Client -> Nat]
    /\ conn \in [Client -> {"none", "open", "closed"}]
    /\ peer \in [Client -> {"here", "away"}]
    /\ next \in 0..MaxMessages
    /\ log \in Seq(Message)
    /\ start \in [Client -> Nat \cup {Outside}]
    /\ got \in [Client -> Seq(Message)]

(* No goroutine panics: the hub never sends to a client's channel after    *)
(* closing it, nor closes it twice, although a full buffer and a leaving   *)
(* reader both close it (hub.go 59-65, 70-78).                             *)
ClosedOnce ==
    \A c \in Client : closes[c] <= 1 /\ (c \in clients => closes[c] = 0)

(* A client the hub has dropped has its channel closed: its writer is not  *)
(* left waiting for messages that never come (hub.go 62-63, 75-76).        *)
DroppedIsClosed ==
    \A c \in Client : reader[c] # "none" /\ c \notin clients => closes[c] = 1

(* writePump never blocks inside a frame: the messages it counted are      *)
(* there, though the hub may have closed the channel (hub.go 145-149).     *)
CountedAreQueued ==
    \A c \in Client : writer[c] = "fill" => queued[c] <= Len(send[c])

(* Subscribers get the stream from where they joined, in order and without *)
(* a gap, through coalescing and failing connections: the one whose buffer *)
(* is full loses its connection rather than a message (hub.go 70-80).      *)
Stream == INSTANCE Subscription

ImplementsSubscription == Stream!Spec

(* Why, two inductive invariants.  Of a connection's life: its pumps run   *)
(* once it is registered, its channel is closed when, and only when, it    *)
(* leaves the map after that, and it has a frame while it writes one.      *)
LifeInv ==
    \A c \in Client :
        /\ c \in clients => handler[c] = "done"
        /\ handler[c] = "done" <=> reader[c] # "none"
        /\ handler[c] = "done" <=> writer[c] # "none"
        /\ handler[c] = "done" <=> start[c] # Outside
        /\ closes[c] = IF handler[c] = "done" /\ c \notin clients THEN 1 ELSE 0
        /\ handler[c] # "done" => send[c] = << >> /\ got[c] = << >>
        /\ frame[c] # << >> <=> writer[c] \in {"count", "fill"}

(* Of the messages on their way to it: the frame and then the channel hold *)
(* the stretch of the stream after the messages received.  It ends where   *)
(* the stream does, but for the message being delivered, while the         *)
(* connection is in the map.                                               *)
Received(c) == start[c] + Len(got[c])
Taken(c) == Received(c) + Len(frame[c])
Passed(c) == Taken(c) + Len(send[c])

StreamInv ==
    /\ todo # {} => log # << >> /\ message = log[Len(log)]
    /\ \A c \in Client : writer[c] \in {"select", "count", "fill"} =>
         /\ Passed(c) <= Len(log)
         /\ \A i \in DOMAIN frame[c] : frame[c][i] = log[Received(c) + i]
         /\ \A i \in DOMAIN send[c] : send[c][i] = log[Taken(c) + i]
         /\ c \in clients => Passed(c) = IF c \in todo THEN Len(log) - 1 ELSE Len(log)

(* A dashboard never gets an older message after a newer one, nor one      *)
(* twice: messages reach each connection as the pipeline numbered them,    *)
(* through two queues, coalescing and drops (hub.go 68-81, 93-97 and       *)
(* 130-152).                                                               *)
Rising(s) == \A i, j \in DOMAIN s : i < j => s[i] < s[j]

DeliveredInOrder == \A c \in Client : Rising(got[c])

(* Why: what the hub has taken and then what waits for it is in order, and *)
(* what a connection received is a stretch of it.                          *)
OrderInv ==
    /\ Rising(log \o broadcast)
    /\ \A i \in DOMAIN (log \o broadcast) : (log \o broadcast)[i] <= next

ReceivedInv ==
    \A c \in Client : \A i \in DOMAIN got[c] : /\ start[c] + i <= Len(log)
                                              /\ got[c][i] = log[start[c] + i]

(* A connection whose dashboard has left is forgotten: out of the map and  *)
(* both goroutines ended, whichever of the ends notices first.             *)
GoneIsForgotten ==
    \A c \in Client : conn[c] = "open" /\ peer[c] = "away"
        ~> c \notin clients /\ reader[c] = "done" /\ writer[c] = "done"

(* The hub never waits for a client: what Broadcast accepted is handed out.*)
BroadcastsHandedOut ==
    \A m \in Message :
        (\E i \in DOMAIN broadcast : broadcast[i] = m)
        ~> (todo = {} /\ \E i \in DOMAIN log : log[i] = m)
=============================================================================
