------------------------------ MODULE HubProofs -------------------------------
(***************************************************************************)
(* Proofs about the hub, for every number of connections, every capacity   *)
(* of its channels and every number of messages: its goroutines do not     *)
(* panic, and every subscriber gets the stream without a gap.              *)
(***************************************************************************)
EXTENDS Hub, SequenceTheorems, TLAPS

(* Type correctness.  That writePump only receives messages that are there *)
(* is part of it, or what it receives would have no type.                  *)
LEMMA TypeInit == Init => TypeOK /\ CountedAreQueued
  BY HubAssumption DEF Init, TypeOK, CountedAreQueued, Message

LEMMA NumberOfMessage == \A m \in Message : m \in Nat \ {0}
  BY HubAssumption DEF Message

LEMMA TypeHub ==
    ASSUME TypeOK, Broadcast \/ TakeBroadcast
    PROVE  TypeOK'
<1> USE DEF TypeOK, channelVars, pumpVars
<1>1. CASE Broadcast
  <2>1. next' \in Message /\ next' \in 0..MaxMessages
    BY <1>1, HubAssumption DEF Broadcast, Message
  <2>2. broadcast' \in Seq(Message) /\ Len(broadcast') <= BroadcastCap
    BY <1>1, <2>1, AppendProperties, LenProperties, HubAssumption DEF Broadcast
  <2> QED BY <1>1, <2>1, <2>2 DEF Broadcast
<1>2. CASE TakeBroadcast
  <2>1. /\ message' \in Message
        /\ broadcast' \in Seq(Message) /\ Len(broadcast') = Len(broadcast) - 1
    BY <1>2, HeadTailProperties DEF TakeBroadcast
  <2>2. log' \in Seq(Message)
    BY <1>2, <2>1, AppendProperties DEF TakeBroadcast
  <2>3. Len(broadcast') <= BroadcastCap
    BY <2>1, LenProperties, HubAssumption
  <2> QED BY <1>2, <2>1, <2>2, <2>3 DEF TakeBroadcast
<1> QED BY <1>1, <1>2

LEMMA TypeClients ==
    ASSUME TypeOK, NEW c \in Client,
           \/ Connect(c) \/ PeerLeaves(c) \/ Register(c) \/ Unregister(c) \/ Deliver(c)
    PROVE  TypeOK'
<1> USE DEF TypeOK, hubVars, channelVars, pumpVars
<1>1. CASE Connect(c) \/ PeerLeaves(c)
  BY <1>1, ZenonT(40) DEF Connect, PeerLeaves
<1>2. CASE Register(c)
  <2>1. Len(log) \in Nat
    BY LenProperties
  <2> QED BY <1>2, <2>1 DEF Register, Selecting
<1>3. CASE Unregister(c)
  BY <1>3, SMTT(30) DEF Unregister, Leave, Drop, Selecting
<1>4. CASE Deliver(c)
  <2>1. Append(send[c], message) \in Seq(Message)
    BY <1>4, AppendProperties DEF Deliver
  <2>2. todo' = todo \ {c} /\ c \in clients
    BY <1>4 DEF Deliver
  <2>3. /\ clients' = clients \/ clients' = clients \ {c}
        /\ send' = send \/ send' = [send EXCEPT ![c] = Append(send[c], message)]
        /\ closes' = closes \/ closes' = [closes EXCEPT ![c] = closes[c] + 1]
    BY <1>4 DEF Deliver, DeliverOrDrop, Drop
  <2>4. clients' \subseteq Client /\ todo' \subseteq clients'
    BY <2>2, <2>3
  <2>5. send' \in [Client -> Seq(Message)]
    BY <2>1, <2>3, ZenonT(40)
  <2>6. closes' \in [Client -> Nat]
    <3>1. closes[c] + 1 \in Nat
      OBVIOUS
    <3> QED BY <2>3, <3>1, ZenonT(40)
  <2> QED BY <1>4, <2>4, <2>5, <2>6 DEF Deliver
<1> QED BY <1>1, <1>2, <1>3, <1>4

LEMMA TypePumps ==
    ASSUME TypeOK, CountedAreQueued, NEW c \in Client,
           WriterStep(c) \/ WriterFails(c) \/ ReaderFails(c) \/ ReaderCloses(c)
    PROVE  TypeOK'
<1> USE DEF TypeOK, hubVars
<1>1. CASE WriterTake(c)
  <2>1. Head(send[c]) \in Message /\ Tail(send[c]) \in Seq(Message)
    BY <1>1, HeadTailProperties DEF WriterTake
  <2> QED BY <1>1, <2>1 DEF WriterTake
<1>2. CASE WriterCount(c)
  <2>1. Len(send[c]) \in Nat
    BY LenProperties
  <2> QED BY <1>2, <2>1 DEF WriterCount, Waiting, channelVars
<1>3. CASE WriterFill(c)
  <2>1. send[c] # << >>
    BY <1>3 DEF WriterFill, CountedAreQueued
  <2>2. Head(send[c]) \in Message /\ Tail(send[c]) \in Seq(Message)
    BY <2>1, HeadTailProperties
  <2>3. Append(frame[c], Head(send[c])) \in Seq(Message)
    BY <2>2, AppendProperties
  <2>4. queued[c] - 1 \in Nat
    BY <1>3 DEF WriterFill
  <2>5. queued' = [queued EXCEPT ![c] = queued[c] - 1]
    BY <1>3 DEF WriterFill
  <2>6. queued' \in [Client -> Nat]
    BY <2>4, <2>5
  <2> QED BY <1>3, <2>2, <2>3, <2>6 DEF WriterFill
<1>4. CASE WriterFlush(c)
  <2>1. got[c] \o frame[c] \in Seq(Message)
    BY ConcatProperties
  <2> QED BY <1>4, <2>1 DEF WriterFlush, channelVars
<1>5. CASE WriterSeesClose(c) \/ WriterFails(c)
  <2>1. WriterReturns(c)
    BY <1>5 DEF WriterSeesClose, WriterFails
  <2> QED BY <2>1 DEF WriterReturns, channelVars
<1>6. CASE ReaderFails(c) \/ ReaderCloses(c)
  BY <1>6, ZenonT(40) DEF ReaderFails, ReaderCloses, Leaves, channelVars
<1> QED BY <1>1, <1>2, <1>3, <1>4, <1>5, <1>6 DEF WriterStep

LEMMA TypeStep ==
    ASSUME TypeOK, CountedAreQueued, [Next]_vars
    PROVE  TypeOK'
<1>1. CASE UNCHANGED vars
  BY <1>1 DEF vars, TypeOK, hubVars, channelVars, pumpVars
<1> QED BY <1>1, TypeHub, TypeClients, TypePumps DEF Next

(* The messages counted: only writePump receives from the channel, and     *)
(* only the hub sends to it.                                               *)
LEMMA CountedStep ==
    ASSUME TypeOK, CountedAreQueued, [Next]_vars
    PROVE  CountedAreQueued'
<1> USE DEF CountedAreQueued, hubVars, channelVars, pumpVars
<1>1. CASE UNCHANGED <<writer, queued, send>>
  BY <1>1
<1>2. UNCHANGED vars \/ Broadcast \/ TakeBroadcast => UNCHANGED <<writer, queued, send>>
  BY DEF vars, Broadcast, TakeBroadcast
<1>3. ASSUME NEW c \in Client,
             Connect(c) \/ PeerLeaves(c) \/ Unregister(c) \/ ReaderFails(c) \/ ReaderCloses(c)
      PROVE  UNCHANGED <<writer, queued, send>>
  BY <1>3 DEF Connect, PeerLeaves, Unregister, ReaderFails, ReaderCloses
<1>4. ASSUME NEW c \in Client, Register(c) PROVE CountedAreQueued'
  BY <1>4 DEF Register, TypeOK
<1>5. ASSUME NEW c \in Client, Deliver(c) PROVE CountedAreQueued'
  <2>1. UNCHANGED <<writer, queued>>
    BY <1>5 DEF Deliver
  <2>2. send' = [send EXCEPT ![c] = Append(send[c], message)] \/ send' = send
    BY <1>5 DEF Deliver, DeliverOrDrop
  <2>3. Len(Append(send[c], message)) = Len(send[c]) + 1 /\ Len(send[c]) \in Nat
    BY <1>5, AppendProperties, LenProperties DEF Deliver, TypeOK
  <2>4. \A d \in Client : Len(send[d]) \in Nat /\ queued[d] \in Nat
    BY LenProperties DEF TypeOK
  <2>5. \A d \in Client : Len(send'[d]) = Len(send[d]) \/ Len(send'[d]) = Len(send[d]) + 1
    BY <2>2, <2>3 DEF TypeOK
  <2> QED BY <2>1, <2>4, <2>5
<1>6. ASSUME NEW c \in Client, WriterTake(c) \/ WriterSeesClose(c) \/ WriterFails(c) \/ WriterFlush(c)
      PROVE  CountedAreQueued'
  BY <1>6, SMTT(30) DEF WriterTake, WriterSeesClose, WriterFails, WriterReturns, WriterFlush, TypeOK
<1>7. ASSUME NEW c \in Client, WriterCount(c) PROVE CountedAreQueued'
  <2>1. Len(send[c]) \in Nat
    BY LenProperties DEF TypeOK
  <2> QED BY <1>7, <2>1 DEF WriterCount, Waiting, TypeOK
<1>8. ASSUME NEW c \in Client, WriterFill(c) PROVE CountedAreQueued'
  <2>1. queued[c] > 0 /\ queued[c] <= Len(send[c]) /\ send[c] # << >>
    BY <1>8 DEF WriterFill, TypeOK
  <2>2. Len(Tail(send[c])) = Len(send[c]) - 1 /\ Len(send[c]) \in Nat
    BY <2>1, HeadTailProperties, LenProperties DEF TypeOK
  <2>3. queued'[c] <= Len(send'[c])
    BY <1>8, <2>1, <2>2 DEF WriterFill, TypeOK
  <2> QED BY <1>8, <2>3 DEF WriterFill, TypeOK
<1> QED BY <1>1, <1>2, <1>3, <1>4, <1>5, <1>6, <1>7, <1>8 DEF Next, WriterStep

LEMMA TypeAndCounted == Spec => [](TypeOK /\ CountedAreQueued)
  BY TypeInit, TypeStep, CountedStep, PTL DEF Spec

(* The hub, its channels and the connections are of their types.           *)
THEOREM TypeCorrect == Spec => []TypeOK
  BY TypeAndCounted, PTL

(* writePump never blocks inside a frame.                                  *)
THEOREM FramesNeverBlock == Spec => []CountedAreQueued
  BY TypeAndCounted, PTL

-----------------------------------------------------------------------------
(* The life of a connection.                                               *)
LEMMA LifeStep ==
    ASSUME TypeOK, CountedAreQueued, LifeInv, [Next]_vars
    PROVE  LifeInv'
<1> USE DEF LifeInv, hubVars, channelVars, pumpVars
<1>0. /\ handler \in [Client -> {"none", "registering", "done"}]
      /\ reader \in [Client -> {"none", "reading", "leaving", "closing", "done"}]
      /\ writer \in [Client -> {"none", "select", "count", "fill", "done"}]
      /\ send \in [Client -> Seq(Message)]
      /\ closes \in [Client -> Nat]
      /\ frame \in [Client -> Seq(Message)]
      /\ start \in [Client -> Nat \cup {Outside}]
      /\ got \in [Client -> Seq(Message)]
  BY DEF TypeOK
<1>1. CASE UNCHANGED vars \/ Broadcast \/ TakeBroadcast
  BY <1>1 DEF vars, Broadcast, TakeBroadcast
<1>2. ASSUME NEW c \in Client, Connect(c) \/ PeerLeaves(c) PROVE LifeInv'
  BY <1>0, <1>2 DEF Connect, PeerLeaves
<1>3. ASSUME NEW c \in Client, Register(c) PROVE LifeInv'
  <2>1. Len(log) # Outside
    BY LenProperties DEF Outside, TypeOK
  <2>2. /\ c \notin clients /\ closes[c] = 0
        /\ send[c] = << >> /\ got[c] = << >> /\ frame[c] = << >>
    BY <1>0, <1>3 DEF Register
  <2>3. \A d \in Client \ {c} :
            /\ handler'[d] = handler[d] /\ reader'[d] = reader[d]
            /\ writer'[d] = writer[d] /\ start'[d] = start[d]
            /\ d \in clients' <=> d \in clients
    BY <1>0, <1>3 DEF Register
  <2>4. /\ handler'[c] = "done" /\ reader'[c] = "reading" /\ writer'[c] = "select"
        /\ start'[c] = Len(log) /\ c \in clients'
    BY <1>0, <1>3 DEF Register
  <2>5. UNCHANGED <<closes, send, got, frame>>
    BY <1>3 DEF Register
  <2> QED BY <2>1, <2>2, <2>3, <2>4, <2>5
<1>4. ASSUME NEW c \in Client, Unregister(c) PROVE LifeInv'
  BY <1>0, <1>4 DEF Unregister, Leave, Drop
<1>5. ASSUME NEW c \in Client, Deliver(c) PROVE LifeInv'
  <2>1. c \in clients /\ handler[c] = "done"
    BY <1>5 DEF Deliver, TypeOK
  <2> QED BY <1>0, <1>5, <2>1 DEF Deliver, DeliverOrDrop, Drop
<1>6. ASSUME NEW c \in Client, WriterTake(c) PROVE LifeInv'
  BY <1>0, <1>6 DEF WriterTake
<1>7. ASSUME NEW c \in Client, WriterReturns(c), writer[c] # "none" PROVE LifeInv'
  BY <1>0, <1>7 DEF WriterReturns
<1>8. ASSUME NEW c \in Client, WriterSeesClose(c) \/ WriterFails(c) PROVE LifeInv'
  BY <1>7, <1>8 DEF WriterSeesClose, WriterFails
<1>9. ASSUME NEW c \in Client, WriterCount(c) \/ WriterFlush(c) PROVE LifeInv'
  <2>1. CASE WriterCount(c)
    BY <1>0, <2>1 DEF WriterCount
  <2>2. CASE WriterFlush(c)
    <3>1. handler[c] = "done"
      BY <2>2 DEF WriterFlush
    <3>2. /\ frame' = [frame EXCEPT ![c] = << >>] /\ writer' = [writer EXCEPT ![c] = "select"]
          /\ \A d \in Client \ {c} : got'[d] = got[d]
          /\ UNCHANGED <<handler, reader, start, clients, closes, send>>
      BY <1>0, <2>2 DEF WriterFlush
    <3> QED BY <1>0, <2>2, <3>1, <3>2, SMTT(30) DEF WriterFlush
  <2> QED BY <1>9, <2>1, <2>2
<1>10. ASSUME NEW c \in Client, WriterFill(c) PROVE LifeInv'
  <2>1. send[c] # << >>
    BY <1>10 DEF WriterFill, CountedAreQueued, TypeOK
  <2>2. Head(send[c]) \in Message
    BY <1>0, <2>1, HeadTailProperties
  <2>3. Append(frame[c], Head(send[c])) # << >>
    <3>1. frame[c] \in Seq(Message)
      BY <1>0
    <3> HIDE DEF LifeInv
    <3> QED BY <2>2, <3>1, AppendProperties
  <2> QED BY <1>0, <1>10, <2>3 DEF WriterFill
<1>11. ASSUME NEW c \in Client, ReaderFails(c) \/ ReaderCloses(c) PROVE LifeInv'
  BY <1>0, <1>11 DEF ReaderFails, ReaderCloses, Leaves
<1> HIDE DEF LifeInv
<1> QED BY <1>1, <1>2, <1>3, <1>4, <1>5, <1>6, <1>8, <1>9, <1>10, <1>11 DEF Next, WriterStep

(* A connection's pumps, its channel and its place in the map agree.       *)
THEOREM LivesInOrder == Spec => []LifeInv
<1>1. Init => LifeInv
  <2>1. SUFFICES ASSUME Init, NEW c \in Client PROVE LifeInv!(c)
    BY DEF LifeInv
  <2>2. /\ handler[c] = "none" /\ reader[c] = "none" /\ writer[c] = "none"
        /\ start[c] = Outside /\ closes[c] = 0 /\ c \notin clients
        /\ send[c] = << >> /\ got[c] = << >> /\ frame[c] = << >>
    BY <2>1 DEF Init
  <2> QED BY <2>2
<1> QED BY <1>1, TypeAndCounted, LifeStep, PTL DEF Spec

(* No goroutine of the broker panics on a client's channel.                *)
THEOREM ChannelsClosedOnce == Spec => []ClosedOnce
<1>1. LifeInv => ClosedOnce
  <2>1. LifeInv => \A c \in Client : /\ closes[c] = 0 \/ closes[c] = 1
                                     /\ c \in clients => closes[c] = 0
    BY DEF LifeInv
  <2>2. \A n : n = 0 \/ n = 1 => n <= 1
    OBVIOUS
  <2> QED BY <2>1, <2>2 DEF ClosedOnce
<1> QED BY <1>1, LivesInOrder, PTL

(* A client the hub has dropped has its channel closed.                    *)
THEOREM DroppedAreClosed == Spec => []DroppedIsClosed
<1>1. LifeInv => DroppedIsClosed
  BY DEF LifeInv, DroppedIsClosed
<1> QED BY <1>1, LivesInOrder, PTL

-----------------------------------------------------------------------------
(* The stream.  StreamInv, one connection at a time.                       *)
Writing(c) == writer[c] \in {"select", "count", "fill"}

FrameIsNext(c) == \A i \in 1..Len(frame[c]) : frame[c][i] = log[Received(c) + i]
SendIsNext(c) == \A i \in 1..Len(send[c]) : send[c][i] = log[Taken(c) + i]
EndsWithLog(c) == /\ Passed(c) <= Len(log)
                  /\ c \in clients => Passed(c) = IF c \in todo THEN Len(log) - 1 ELSE Len(log)

StreamOf(c) == Writing(c) => FrameIsNext(c) /\ SendIsNext(c) /\ EndsWithLog(c)

Delivering == todo # {} => log # << >> /\ message = log[Len(log)]

LEMMA StreamParts ==
    ASSUME TypeOK
    PROVE  StreamInv <=> Delivering /\ \A c \in Client : StreamOf(c)
<1>1. \A c \in Client : DOMAIN frame[c] = 1..Len(frame[c]) /\ DOMAIN send[c] = 1..Len(send[c])
  BY LenProperties DEF TypeOK
<1> QED BY <1>1 DEF StreamInv, Delivering, StreamOf, Writing, FrameIsNext, SendIsNext, EndsWithLog

LEMMA StreamPartsNext ==
    ASSUME TypeOK', Delivering', \A c \in Client : StreamOf(c)'
    PROVE  StreamInv'
<1>1. \A c \in Client : /\ DOMAIN frame'[c] = 1..Len(frame'[c])
                        /\ DOMAIN send'[c] = 1..Len(send'[c])
  BY LenProperties DEF TypeOK
<1> QED BY <1>1 DEF StreamInv, Delivering, StreamOf, Writing, FrameIsNext, SendIsNext, EndsWithLog

LEMMA StreamTypes ==
    ASSUME TypeOK, LifeInv, NEW c \in Client
    PROVE  /\ Len(got[c]) \in Nat /\ Len(frame[c]) \in Nat /\ Len(send[c]) \in Nat
           /\ Len(log) \in Nat
           /\ got[c] \in Seq(Message) /\ frame[c] \in Seq(Message)
           /\ send[c] \in Seq(Message) /\ log \in Seq(Message)
           /\ Writing(c) => /\ start[c] \in Nat
                            /\ Received(c) \in Nat /\ Taken(c) \in Nat /\ Passed(c) \in Nat
<1>1. got[c] \in Seq(Message) /\ frame[c] \in Seq(Message) /\ send[c] \in Seq(Message) /\ log \in Seq(Message)
  BY DEF TypeOK
<1>2. Len(got[c]) \in Nat /\ Len(frame[c]) \in Nat /\ Len(send[c]) \in Nat /\ Len(log) \in Nat
  BY <1>1, LenProperties
<1>3. Writing(c) => start[c] \in Nat
  BY DEF Writing, LifeInv, TypeOK
<1>4. Writing(c) => Received(c) \in Nat
  BY <1>2, <1>3 DEF Received
<1>5. Writing(c) => Taken(c) \in Nat
  BY <1>2, <1>4 DEF Taken
<1>6. Writing(c) => Passed(c) \in Nat
  BY <1>2, <1>5 DEF Passed
<1> QED BY <1>1, <1>2, <1>3, <1>4, <1>5, <1>6

(* A step that leaves a connection's messages alone, and the stream.       *)
LEMMA StreamOther ==
    ASSUME NEW d \in Client, StreamOf(d), Writing(d)' => Writing(d),
           UNCHANGED <<log, start[d], got[d], frame[d], send[d]>>,
           d \in clients' => d \in clients /\ (d \in todo' <=> d \in todo)
    PROVE  StreamOf(d)'
<1>1. UNCHANGED <<Received(d), Taken(d), Passed(d)>>
  BY DEF Received, Taken, Passed
<1> QED BY <1>1 DEF StreamOf, FrameIsNext, SendIsNext, EndsWithLog

(* A new message of the stream.                                            *)
LEMMA StreamPublish ==
    ASSUME TypeOK, LifeInv, NEW d \in Client, StreamOf(d), TakeBroadcast
    PROVE  StreamOf(d)'
<1>1. /\ message' \in Message /\ log' = Append(log, message') /\ todo = {} /\ todo' = clients
      /\ UNCHANGED <<writer, start, got, frame, send, clients>>
  BY HeadTailProperties DEF TakeBroadcast, Selecting, TypeOK, channelVars, pumpVars
<1>2. SUFFICES ASSUME Writing(d) PROVE FrameIsNext(d)' /\ SendIsNext(d)' /\ EndsWithLog(d)'
  BY <1>1 DEF StreamOf, Writing
<1>3. UNCHANGED <<Received(d), Taken(d), Passed(d)>>
  BY <1>1 DEF Received, Taken, Passed
<1>4. Len(log') = Len(log) + 1 /\ \A i \in 1..Len(log) : log'[i] = log[i]
  BY <1>1, AppendProperties, StreamTypes
<1>5. /\ Received(d) \in Nat /\ Taken(d) \in Nat /\ Passed(d) <= Len(log)
      /\ Taken(d) = Received(d) + Len(frame[d]) /\ Passed(d) = Taken(d) + Len(send[d])
      /\ Len(frame[d]) \in Nat /\ Len(send[d]) \in Nat /\ Len(log) \in Nat
  BY <1>2, StreamTypes DEF StreamOf, EndsWithLog, Taken, Passed
<1>6. FrameIsNext(d)'
  <2>1. \A i \in 1..Len(frame[d]) : Received(d) + i \in 1..Len(log)
    BY <1>5, SMTT(30)
  <2> QED BY <1>1, <1>2, <1>3, <1>4, <2>1 DEF FrameIsNext, StreamOf
<1>7. SendIsNext(d)'
  <2>1. \A i \in 1..Len(send[d]) : Taken(d) + i \in 1..Len(log)
    BY <1>5, SMTT(30)
  <2> QED BY <1>1, <1>2, <1>3, <1>4, <2>1 DEF SendIsNext, StreamOf
<1>8. EndsWithLog(d)'
  BY <1>1, <1>2, <1>3, <1>4, <1>5 DEF EndsWithLog, StreamOf
<1> QED BY <1>6, <1>7, <1>8

(* A new subscriber.                                                       *)
LEMMA StreamJoin ==
    ASSUME TypeOK, LifeInv, NEW c \in Client, Register(c)
    PROVE  StreamOf(c)'
<1>1. /\ todo' = {} /\ log' = log /\ start'[c] = Len(log)
      /\ got'[c] = << >> /\ frame'[c] = << >> /\ send'[c] = << >>
  BY DEF Register, Selecting, LifeInv, TypeOK, hubVars
<1>2. Len(<< >>) = 0 /\ Len(log) \in Nat
  BY StreamTypes
<1>3. Received(c)' = Len(log) /\ Taken(c)' = Len(log) /\ Passed(c)' = Len(log)
  BY <1>1, <1>2 DEF Received, Taken, Passed
<1> QED BY <1>1, <1>2, <1>3 DEF StreamOf, FrameIsNext, SendIsNext, EndsWithLog

(* A message passed to a subscriber.                                       *)
LEMMA StreamDeliver ==
    ASSUME TypeOK, LifeInv, Delivering, NEW c \in Client, StreamOf(c), Deliver(c)
    PROVE  StreamOf(c)'
<1>1. /\ c \in todo /\ c \in clients /\ c \notin todo' /\ message \in Message
      /\ UNCHANGED <<log, message, writer, start, got, frame>>
      /\ message = log[Len(log)]
  BY DEF Deliver, TypeOK, pumpVars, Delivering
<1>2. UNCHANGED <<Received(c), Taken(c)>>
  BY <1>1 DEF Received, Taken
<1>3. SUFFICES ASSUME Writing(c) PROVE FrameIsNext(c)' /\ SendIsNext(c)' /\ EndsWithLog(c)'
  BY <1>1 DEF StreamOf, Writing
<1>4. FrameIsNext(c)'
  BY <1>1, <1>2, <1>3 DEF FrameIsNext, StreamOf
<1>5. CASE send' = [send EXCEPT ![c] = Append(send[c], message)]
  <2>1. send'[c] = Append(send[c], message)
    BY <1>5 DEF TypeOK
  <2>2. /\ Len(send'[c]) = Len(send[c]) + 1
        /\ \A i \in 1..Len(send[c]) : send'[c][i] = send[c][i]
        /\ send'[c][Len(send[c]) + 1] = message
    BY <1>1, <2>1, StreamTypes, AppendProperties
  <2>3. Passed(c) = Len(log) - 1 /\ Passed(c) = Taken(c) + Len(send[c])
    BY <1>1, <1>3 DEF StreamOf, EndsWithLog, Passed
  <2>4. Taken(c) \in Nat /\ Len(send[c]) \in Nat /\ Len(log) \in Nat
    BY <1>3, StreamTypes
  <2>5. Len(log) = Taken(c) + Len(send[c]) + 1
    BY <2>3, <2>4
  <2>6. SendIsNext(c)'
    <3>1. ASSUME NEW i \in 1..Len(send'[c]) PROVE send'[c][i] = log[Taken(c) + i]
      <4>1. CASE i = Len(send[c]) + 1
        BY <1>1, <2>2, <2>4, <2>5, <4>1
      <4>2. CASE i \in 1..Len(send[c])
        BY <1>3, <2>2, <4>2 DEF StreamOf, SendIsNext
      <4> QED BY <2>2, <2>4, <4>1, <4>2
    <3> QED BY <1>1, <1>2, <3>1 DEF SendIsNext
  <2>7. EndsWithLog(c)'
    BY <1>1, <1>2, <2>2, <2>4, <2>5, SMTT(30) DEF EndsWithLog, Passed
  <2> QED BY <1>4, <2>6, <2>7
<1>6. CASE send' = send /\ c \notin clients'
  <2>1. SendIsNext(c)'
    BY <1>1, <1>2, <1>3, <1>6 DEF SendIsNext, StreamOf
  <2>2. EndsWithLog(c)'
    BY <1>1, <1>2, <1>3, <1>6 DEF EndsWithLog, StreamOf, Passed
  <2> QED BY <1>4, <2>1, <2>2
<1> QED BY <1>5, <1>6 DEF Deliver, DeliverOrDrop, Drop

(* writePump moves messages from the channel to the frame, ...             *)
LEMMA StreamTake ==
    ASSUME TypeOK, LifeInv, NEW c \in Client, StreamOf(c), WriterTake(c)
    PROVE  StreamOf(c)'
<1>1. /\ Writing(c) /\ send[c] # << >> /\ frame[c] = << >>
      /\ UNCHANGED <<log, start, got, clients, todo>>
      /\ frame'[c] = << Head(send[c]) >> /\ send'[c] = Tail(send[c])
  BY DEF WriterTake, Writing, LifeInv, TypeOK, hubVars
<1>2. /\ Len(send'[c]) = Len(send[c]) - 1
      /\ \A i \in 1..Len(send'[c]) : send'[c][i] = send[c][i + 1]
      /\ Head(send[c]) = send[c][1]
  BY <1>1, StreamTypes, HeadTailProperties
<1>3. Len(frame[c]) = 0 /\ Len(frame'[c]) = 1 /\ frame'[c][1] = send[c][1]
  BY <1>1, <1>2
<1>4. /\ Received(c) \in Nat /\ Taken(c) = Received(c) /\ Len(send[c]) \in Nat \ {0}
  BY <1>1, <1>3, StreamTypes, EmptySeq DEF Taken
<1>5. Received(c)' = Received(c) /\ Taken(c)' = Taken(c) + 1 /\ Passed(c)' = Passed(c)
  BY <1>1, <1>2, <1>3, <1>4 DEF Received, Taken, Passed
<1>6. \A i \in 1..Len(send[c]) : send[c][i] = log[Taken(c) + i]
  BY <1>1 DEF StreamOf, SendIsNext
<1>7. FrameIsNext(c)'
  BY <1>1, <1>3, <1>4, <1>5, <1>6 DEF FrameIsNext
<1>8. SendIsNext(c)'
  <2>1. ASSUME NEW i \in 1..Len(send'[c]) PROVE send'[c][i] = log[Taken(c) + 1 + i]
    <3>1. i + 1 \in 1..Len(send[c]) /\ Taken(c) + (i + 1) = Taken(c) + 1 + i
      BY <1>2, <1>4
    <3> QED BY <1>2, <1>6, <3>1
  <2> QED BY <1>1, <1>5, <2>1 DEF SendIsNext
<1>9. EndsWithLog(c)'
  BY <1>1, <1>5 DEF EndsWithLog, StreamOf
<1> QED BY <1>7, <1>8, <1>9 DEF StreamOf

LEMMA StreamFill ==
    ASSUME TypeOK, CountedAreQueued, LifeInv, NEW c \in Client, StreamOf(c), WriterFill(c)
    PROVE  StreamOf(c)'
<1>1. /\ Writing(c) /\ send[c] # << >>
      /\ UNCHANGED <<log, start, got, clients, todo>>
      /\ frame'[c] = Append(frame[c], Head(send[c])) /\ send'[c] = Tail(send[c])
  BY DEF WriterFill, Writing, CountedAreQueued, TypeOK, hubVars
<1>2. /\ Len(send'[c]) = Len(send[c]) - 1
      /\ \A i \in 1..Len(send'[c]) : send'[c][i] = send[c][i + 1]
      /\ Head(send[c]) = send[c][1] /\ Head(send[c]) \in Message
  BY <1>1, StreamTypes, HeadTailProperties
<1>3. /\ Len(frame'[c]) = Len(frame[c]) + 1
      /\ \A i \in 1..Len(frame[c]) : frame'[c][i] = frame[c][i]
      /\ frame'[c][Len(frame[c]) + 1] = send[c][1]
  BY <1>1, <1>2, StreamTypes, AppendProperties
<1>4. /\ Received(c) \in Nat /\ Taken(c) \in Nat
      /\ Len(frame[c]) \in Nat /\ Len(send[c]) \in Nat /\ Len(send[c]) # 0
      /\ Taken(c) = Received(c) + Len(frame[c])
  BY <1>1, StreamTypes, EmptySeq DEF Taken
<1>5. Received(c)' = Received(c) /\ Taken(c)' = Taken(c) + 1 /\ Passed(c)' = Passed(c)
  <2>1. Received(c)' = Received(c)
    BY <1>1 DEF Received
  <2>2. Taken(c)' = Taken(c) + 1
    BY <1>3, <1>4, <2>1 DEF Taken
  <2>3. Passed(c)' = Passed(c)
    BY <1>2, <1>4, <2>2 DEF Passed
  <2> QED BY <2>1, <2>2, <2>3
<1>6. \A i \in 1..Len(send[c]) : send[c][i] = log[Taken(c) + i]
  BY <1>1 DEF StreamOf, SendIsNext
<1>7. FrameIsNext(c)'
  <2>1. ASSUME NEW i \in 1..Len(frame'[c]) PROVE frame'[c][i] = log[Received(c) + i]
    <3>1. CASE i \in 1..Len(frame[c])
      BY <1>1, <1>3, <3>1 DEF StreamOf, FrameIsNext
    <3>2. CASE i = Len(frame[c]) + 1
      <4>1. 1 \in 1..Len(send[c]) /\ Received(c) + i = Taken(c) + 1
        <5>1. Len(send[c]) >= 1
          BY <1>4
        <5> QED BY <1>4, <3>2, <5>1
      <4> QED BY <1>3, <1>6, <3>2, <4>1
    <3> QED BY <1>3, <1>4, <3>1, <3>2
  <2> QED BY <1>1, <1>5, <2>1 DEF FrameIsNext
<1>8. SendIsNext(c)'
  <2>1. ASSUME NEW i \in 1..Len(send'[c]) PROVE send'[c][i] = log[Taken(c) + 1 + i]
    <3>1. i + 1 \in 1..Len(send[c])
      <4>1. i \in 1..(Len(send[c]) - 1)
        BY <1>2
      <4> QED BY <1>4, <4>1
    <3>2. Taken(c) + (i + 1) = Taken(c) + 1 + i
      BY <1>4
    <3> QED BY <1>2, <1>6, <3>1, <3>2
  <2> QED BY <1>1, <1>5, <2>1 DEF SendIsNext
<1>9. EndsWithLog(c)'
  BY <1>1, <1>5 DEF EndsWithLog, StreamOf
<1> QED BY <1>7, <1>8, <1>9 DEF StreamOf

(* ... and from the frame to the dashboard.                                *)
LEMMA StreamFlush ==
    ASSUME TypeOK, LifeInv, NEW c \in Client, StreamOf(c), WriterFlush(c)
    PROVE  StreamOf(c)'
<1>1. /\ Writing(c) /\ got'[c] = got[c] \o frame[c] /\ frame'[c] = << >>
      /\ UNCHANGED <<log, start, send, clients, todo>>
  BY DEF WriterFlush, Writing, TypeOK, hubVars, channelVars
<1>2. Len(got'[c]) = Len(got[c]) + Len(frame[c]) /\ Len(frame'[c]) = 0
  BY <1>1, StreamTypes, ConcatProperties
<1>3. Received(c)' = Taken(c) /\ Taken(c)' = Taken(c) /\ Passed(c)' = Passed(c)
  <2>1. Received(c)' = Taken(c)
    <3>1. start[c] \in Nat /\ Len(got[c]) \in Nat /\ Len(frame[c]) \in Nat
      BY <1>1, StreamTypes
    <3>2. Received(c)' = start[c] + (Len(got[c]) + Len(frame[c]))
      BY <1>1, <1>2 DEF Received
    <3>3. Taken(c) = (start[c] + Len(got[c])) + Len(frame[c])
      BY DEF Taken, Received
    <3>4. \A k, m, n \in Nat : k + (m + n) = (k + m) + n
      OBVIOUS
    <3> QED BY <3>1, <3>2, <3>3, <3>4
  <2>2. Taken(c)' = Taken(c)
    BY <1>1, <1>2, <2>1, StreamTypes DEF Taken
  <2>3. Passed(c)' = Passed(c)
    BY <1>1, <2>2 DEF Passed
  <2> QED BY <2>1, <2>2, <2>3
<1>4. FrameIsNext(c)'
  BY <1>2 DEF FrameIsNext
<1>5. SendIsNext(c)' /\ EndsWithLog(c)'
  BY <1>1, <1>3 DEF SendIsNext, EndsWithLog, StreamOf
<1> QED BY <1>4, <1>5 DEF StreamOf

LEMMA StreamStep ==
    ASSUME TypeOK, TypeOK', CountedAreQueued, LifeInv, StreamInv, [Next]_vars
    PROVE  StreamInv'
<1> USE DEF hubVars, channelVars, pumpVars
<1>0. /\ writer \in [Client -> {"none", "select", "count", "fill", "done"}]
      /\ start \in [Client -> Nat \cup {Outside}]
      /\ got \in [Client -> Seq(Message)] /\ frame \in [Client -> Seq(Message)]
      /\ send \in [Client -> Seq(Message)]
      /\ Delivering /\ \A d \in Client : StreamOf(d)
  BY StreamParts DEF TypeOK
<1>1. CASE UNCHANGED <<todo, message, log, clients, writer, start, got, frame, send>>
  <2>1. \A d \in Client : StreamOf(d)'
    BY <1>0, <1>1, StreamOther DEF Writing
  <2>2. Delivering'
    BY <1>0, <1>1 DEF Delivering
  <2> QED BY <2>1, <2>2, StreamPartsNext
<1>2. CASE TakeBroadcast
  <2>1. Delivering'
    <3>1. log' = Append(log, message') /\ message' \in Message /\ log \in Seq(Message)
      BY <1>2, HeadTailProperties DEF TakeBroadcast, TypeOK
    <3>2. Len(log') = Len(log) + 1 /\ log'[Len(log) + 1] = message' /\ log' # << >>
      BY <3>1, AppendProperties
    <3> QED BY <3>2 DEF Delivering
  <2>2. \A d \in Client : StreamOf(d)'
    BY <1>0, <1>2, StreamPublish
  <2> QED BY <2>1, <2>2, StreamPartsNext
<1>3. ASSUME NEW c \in Client, UNCHANGED <<todo, message, log>>, StreamOf(c)',
             clients' \subseteq clients \cup {c},
             \A d \in Client \ {c} : UNCHANGED <<writer[d], start[d], got[d], frame[d], send[d]>>
      PROVE  StreamInv'
  <2>1. \A d \in Client \ {c} : StreamOf(d)'
    BY <1>0, <1>3, StreamOther DEF Writing
  <2>2. Delivering'
    BY <1>0, <1>3 DEF Delivering
  <2> QED BY <1>3, <2>1, <2>2, StreamPartsNext
<1>4. ASSUME NEW c \in Client, Register(c) PROVE StreamInv'
  BY <1>0, <1>3, <1>4, StreamJoin DEF Register
<1>5. ASSUME NEW c \in Client, Deliver(c) PROVE StreamInv'
  <2>1. StreamOf(c)'
    BY <1>0, <1>5, StreamDeliver
  <2>2. /\ UNCHANGED <<message, log, writer, start, got, frame>>
        /\ todo' = todo \ {c} /\ c \in todo /\ clients' \subseteq clients
        /\ \A d \in Client \ {c} : send'[d] = send[d] /\ (d \in clients' => d \in clients)
    BY <1>0, <1>5 DEF Deliver, DeliverOrDrop, Drop
  <2>3. \A d \in Client \ {c} : StreamOf(d)'
    BY <1>0, <2>2, StreamOther DEF Writing
  <2>4. Delivering'
    BY <1>0, <2>2 DEF Delivering
  <2> QED BY <2>1, <2>3, <2>4, StreamPartsNext
<1>6. ASSUME NEW c \in Client, Unregister(c) PROVE StreamInv'
  <2>1. /\ UNCHANGED <<todo, message, log, writer, start, got, frame, send>>
        /\ clients' \subseteq clients
    BY <1>6 DEF Unregister, Leave, Drop
  <2>2. StreamOf(c)'
    BY <1>0, <2>1, StreamOther DEF Writing
  <2> QED BY <1>3, <2>1, <2>2
<1>7. ASSUME NEW c \in Client, WriterTake(c) PROVE StreamInv'
  BY <1>0, <1>3, <1>7, StreamTake DEF WriterTake
<1>8. ASSUME NEW c \in Client, WriterFill(c) PROVE StreamInv'
  BY <1>0, <1>3, <1>8, StreamFill DEF WriterFill
<1>9. ASSUME NEW c \in Client, WriterFlush(c) PROVE StreamInv'
  BY <1>0, <1>3, <1>9, StreamFlush DEF WriterFlush
<1>10. ASSUME NEW c \in Client, WriterCount(c) PROVE StreamInv'
  <2>1. StreamOf(c)'
    BY <1>0, <1>10, StreamOther DEF WriterCount, Writing
  <2> QED BY <1>0, <1>3, <1>10, <2>1 DEF WriterCount
<1>11. ASSUME NEW c \in Client, WriterSeesClose(c) \/ WriterFails(c) PROVE StreamInv'
  <2>1. WriterReturns(c)
    BY <1>11 DEF WriterSeesClose, WriterFails
  <2>2. writer'[c] = "done"
    BY <1>0, <2>1 DEF WriterReturns
  <2>3. StreamOf(c)'
    BY <2>2 DEF StreamOf, Writing
  <2> QED BY <1>0, <1>3, <2>1, <2>3 DEF WriterReturns
<1>12. CASE UNCHANGED vars \/ Broadcast
  BY <1>1, <1>12 DEF vars, Broadcast
<1>13. ASSUME NEW c \in Client,
              Connect(c) \/ PeerLeaves(c) \/ ReaderFails(c) \/ ReaderCloses(c)
       PROVE  StreamInv'
  BY <1>1, <1>13 DEF Connect, PeerLeaves, ReaderFails, ReaderCloses
<1> QED BY <1>2, <1>4, <1>5, <1>6, <1>7, <1>8, <1>9, <1>10, <1>11, <1>12, <1>13 DEF Next, WriterStep

(* What is on its way to a subscriber is the stream it has yet to get.     *)
THEOREM StreamInvariant == Spec => []StreamInv
<1>1. Init => StreamInv
  BY DEF Init, StreamInv
<1> QED BY <1>1, TypeAndCounted, TypeCorrect, LivesInOrder, StreamStep, PTL DEF Spec

-----------------------------------------------------------------------------
(* A step of the hub is a step of the subscription, or none of its.        *)
LEMMA FlushReceives ==
    ASSUME TypeOK, LifeInv, StreamInv, NEW c \in Client, WriterFlush(c)
    PROVE  Stream!Next
<1> DEFINE last == Taken(c)
           first == start[c] + Len(got[c]) + 1
<1>1. /\ Writing(c) /\ frame[c] # << >> /\ StreamOf(c)
      /\ got' = [got EXCEPT ![c] = got[c] \o frame[c]] /\ UNCHANGED <<log, start>>
  BY StreamParts DEF WriterFlush, Writing, LifeInv, hubVars
<1>2. /\ start[c] \in Nat /\ Len(got[c]) \in Nat /\ Len(frame[c]) \in Nat \ {0}
      /\ Len(log) \in Nat /\ Len(send[c]) \in Nat
      /\ frame[c] \in Seq(Message) /\ log \in Seq(Message)
  BY <1>1, StreamTypes, EmptySeq
<1>3. Passed(c) <= Len(log)
  BY <1>1 DEF StreamOf, EndsWithLog
<1>4. last = first + Len(frame[c]) - 1 /\ last <= Len(log) /\ first \in Nat \ {0} /\ last \in Nat
  <2>1. Taken(c) = start[c] + Len(got[c]) + Len(frame[c])
    BY DEF Taken, Received
  <2>2. Taken(c) <= Len(log)
    BY <1>2, <1>3, <2>1, SMTT(30) DEF Passed
  <2> QED BY <1>2, <2>1, <2>2, SMTT(30)
<1>5. last \in first..Len(log) /\ last \in 1..Len(log)
  BY <1>2, <1>4
<1>6. SubSeq(log, first, last) = frame[c]
  <2>1. \A i \in first..last : log[i] \in Message
    BY <1>2, <1>4, LenProperties
  <2>2. /\ SubSeq(log, first, last) \in Seq(Message)
        /\ Len(SubSeq(log, first, last)) = Len(frame[c])
        /\ \A i \in 1..Len(frame[c]) : SubSeq(log, first, last)[i] = log[first + i - 1]
    <3>1. first \in Int /\ last \in Int /\ first <= last /\ last - first + 1 = Len(frame[c])
      BY <1>2, <1>4, SMTT(30)
    <3> HIDE DEF first, last
    <3> QED BY <2>1, <3>1, SubSeqProperties
  <2>3. \A i \in 1..Len(frame[c]) : frame[c][i] = log[Received(c) + i]
    BY <1>1 DEF StreamOf, FrameIsNext
  <2>4. \A i \in 1..Len(frame[c]) : first + i - 1 = Received(c) + i
    BY <1>2 DEF Received
  <2>5. \A i \in 1..Len(frame[c]) : SubSeq(log, first, last)[i] = frame[c][i]
    BY <2>2, <2>3, <2>4
  <2> HIDE DEF first, last
  <2> QED BY <1>2, <2>2, <2>5, SeqEqual
<1>7. start[c] # Stream!Outside
  BY <1>2 DEF Stream!Outside
<1> HIDE DEF last
<1>8. Stream!Receive(c, last)
  BY <1>1, <1>5, <1>6, <1>7 DEF Stream!Receive
<1> QED BY <1>5, <1>8 DEF Stream!Next

LEMMA StreamNext ==
    ASSUME TypeOK, LifeInv, StreamInv, [Next]_vars
    PROVE  [Stream!Next]_<<log, start, got>>
<1> USE DEF hubVars
<1>1. CASE TakeBroadcast
  <2>1. message' \in Message
    BY <1>1, HeadTailProperties DEF TakeBroadcast, TypeOK
  <2>2. Stream!Publish(message')
    BY <1>1 DEF TakeBroadcast, Stream!Publish
  <2> QED BY <2>1, <2>2 DEF Stream!Next
<1>2. ASSUME NEW c \in Client, Register(c) PROVE Stream!Next
  <2>1. start[c] = Stream!Outside
    BY <1>2 DEF Register, LifeInv, Outside, Stream!Outside
  <2>2. Stream!Join(c)
    BY <1>2, <2>1 DEF Register, Stream!Join
  <2> QED BY <2>2 DEF Stream!Next
<1>3. UNCHANGED vars \/ Broadcast => UNCHANGED <<log, start, got>>
  BY DEF vars, Broadcast
<1>4. ASSUME NEW c \in Client,
             \/ Connect(c) \/ PeerLeaves(c) \/ Unregister(c) \/ Deliver(c)
             \/ ReaderFails(c) \/ ReaderCloses(c)
      PROVE  UNCHANGED <<log, start, got>>
  BY <1>4 DEF Connect, PeerLeaves, Unregister, Deliver, ReaderFails, ReaderCloses
<1>5. ASSUME NEW c \in Client,
             \/ WriterTake(c) \/ WriterCount(c) \/ WriterFill(c)
             \/ WriterSeesClose(c) \/ WriterFails(c)
      PROVE  UNCHANGED <<log, start, got>>
  BY <1>5 DEF WriterTake, WriterCount, WriterFill, WriterSeesClose, WriterFails, WriterReturns
<1> QED BY <1>1, <1>2, <1>3, <1>4, <1>5, FlushReceives DEF Next, WriterStep

(* Every connection gets the stream from where it joined, in order and     *)
(* without a gap, until it ends: the hub implements Subscription.          *)
THEOREM HubImplementsSubscription == Spec => ImplementsSubscription
<1>1. Init => Stream!Init
  BY DEF Init, Stream!Init, Outside, Stream!Outside
<1> QED BY <1>1, TypeCorrect, LivesInOrder, StreamInvariant, StreamNext, PTL
        DEF Spec, ImplementsSubscription, Stream!Spec

-----------------------------------------------------------------------------
(* The stream is in the pipeline's order: a message joins the queue behind *)
(* all that are older, ...                                                 *)
LEMMA RisingAppend ==
    ASSUME NEW s \in Seq(Nat), Rising(s), NEW m \in Nat,
           \A i \in DOMAIN s : s[i] < m
    PROVE  /\ Rising(Append(s, m))
           /\ \A i \in DOMAIN Append(s, m) : Append(s, m)[i] <= m
<1> DEFINE t == Append(s, m)
           n == Len(s)
<1>1. n \in Nat /\ DOMAIN s = 1..n /\ \A i \in 1..n : s[i] \in Nat
  BY LenProperties, ElementOfSeq
<1>2. /\ DOMAIN t = 1..(n + 1) /\ t[n + 1] = m
      /\ \A i \in 1..n : t[i] = s[i]
  BY <1>1, AppendProperties, LenProperties
<1> HIDE DEF t, n
<1>3. \A i \in 1..(n + 1) : i \in 1..n \/ i = n + 1
  BY <1>1
<1>4. Rising(t)
  <2>1. SUFFICES ASSUME NEW i \in 1..(n + 1), NEW j \in 1..(n + 1), i < j
                 PROVE  t[i] < t[j]
    BY <1>2 DEF Rising
  <2>2. i \in 1..n
    BY <1>1, <2>1
  <2>3. CASE j \in 1..n
    BY <1>1, <1>2, <2>1, <2>2, <2>3 DEF Rising
  <2>4. CASE j = n + 1
    BY <1>1, <1>2, <2>2, <2>4
  <2> QED BY <1>3, <2>3, <2>4
<1>5. \A i \in 1..(n + 1) : t[i] <= m
  BY <1>1, <1>2, <1>3
<1> QED BY <1>2, <1>4, <1>5 DEF t

(* ... and the hub takes the oldest: the whole does not change.            *)
LEMMA ConcatAppend ==
    ASSUME NEW S, NEW s \in Seq(S), NEW t \in Seq(S), NEW m \in S
    PROVE  s \o Append(t, m) = Append(s \o t, m)
<1>1. << m >> \in Seq(S)
  OBVIOUS
<1>2. s \o (t \o << m >>) = (s \o t) \o << m >>
  BY <1>1, ConcatAssociative
<1>3. s \o t \in Seq(S)
  BY ConcatProperties
<1> QED BY <1>2, <1>3, AppendIsConcat

LEMMA TakenInOrder ==
    ASSUME NEW S, NEW s \in Seq(S), NEW t \in Seq(S), t # << >>
    PROVE  Append(s, Head(t)) \o Tail(t) = s \o t
<1> DEFINE h == << Head(t) >>
           r == Tail(t)
<1>1. /\ Head(t) \in S /\ r \in Seq(S) /\ Len(t) \in Nat \ {0} /\ Head(t) = t[1]
      /\ Len(r) = Len(t) - 1 /\ \A i \in 1..Len(r) : r[i] = t[i + 1]
  BY HeadTailProperties, LenProperties, EmptySeq
<1>2. h \in Seq(S) /\ Len(h) = 1 /\ h[1] = t[1]
  BY <1>1
<1>3. Append(s, Head(t)) = s \o h
  BY <1>1, AppendIsConcat
<1> HIDE DEF h, r
<1>0. h \in Seq(S) /\ r \in Seq(S)
  BY <1>1, <1>2
<1>4. /\ h \o r \in Seq(S) /\ Len(h \o r) = 1 + Len(r)
      /\ \A i \in 1..(1 + Len(r)) : (h \o r)[i] = IF i <= 1 THEN h[i] ELSE r[i - 1]
  <2>1. /\ h \o r \in Seq(S) /\ Len(h \o r) = Len(h) + Len(r)
        /\ \A i \in 1..(Len(h) + Len(r)) : (h \o r)[i] = IF i <= Len(h) THEN h[i] ELSE r[i - Len(h)]
    BY <1>0, ConcatProperties
  <2> QED BY <1>2, <2>1
<1>5. 1 + Len(r) = Len(t)
  BY <1>1
<1>6. ASSUME NEW i \in 1..Len(t) PROVE (h \o r)[i] = t[i]
  <2>1. CASE i = 1
    BY <1>2, <1>4, <1>5, <2>1
  <2>2. CASE i # 1
    <3>1. ~(i <= 1) /\ i - 1 \in 1..Len(r) /\ (i - 1) + 1 = i
      BY <1>1, <2>2
    <3> QED BY <1>1, <1>4, <1>5, <3>1
  <2> QED BY <2>1, <2>2
<1>7. h \o r = t
  BY <1>1, <1>4, <1>5, <1>6, SeqEqual
<1>8. (s \o h) \o r = s \o (h \o r)
  BY <1>0, ConcatAssociative
<1> QED BY <1>3, <1>7, <1>8 DEF r

LEMMA OrderStep ==
    ASSUME TypeOK, OrderInv, [Next]_vars
    PROVE  OrderInv'
<1> DEFINE all == log \o broadcast
<1>0. /\ log \in Seq(Message) /\ broadcast \in Seq(Message) /\ next \in Nat
      /\ all \in Seq(Message) /\ Rising(all) /\ \A i \in DOMAIN all : all[i] <= next
  BY HubAssumption, ConcatProperties DEF TypeOK, OrderInv
<1>6. Seq(Message) \subseteq Seq(Nat)
  <2>1. Message \subseteq Nat
    BY HubAssumption DEF Message
  <2> QED BY <2>1, SeqMonotonic
<1>1. CASE Broadcast
  <2>1. next' = next + 1 /\ log' = log
    BY <1>1 DEF Broadcast
  <2>2. \A i \in DOMAIN all : all[i] \in Nat /\ all[i] < next' /\ all[i] <= next'
    <3>1. \A i \in DOMAIN all : all[i] \in Message
      BY <1>0, LenProperties, ElementOfSeq
    <3> HIDE DEF all
    <3> QED BY <1>0, <2>1, <3>1 DEF Message
  <2>3. CASE broadcast' = broadcast
    BY <1>0, <2>1, <2>2, <2>3 DEF OrderInv
  <2>4. CASE broadcast' = Append(broadcast, next')
    <3>1. log \o broadcast' = Append(all, next')
      <4>1. next' \in Nat /\ log \in Seq(Nat) /\ broadcast \in Seq(Nat)
        BY <1>0, <1>6, <2>1
      <4> QED BY <2>4, <4>1, ConcatAppend
    <3> HIDE DEF all
    <3>2. Rising(Append(all, next')) /\ \A i \in DOMAIN Append(all, next') : Append(all, next')[i] <= next'
      BY <1>0, <1>6, <2>1, <2>2, RisingAppend
    <3> QED BY <2>1, <3>1, <3>2 DEF OrderInv
  <2> QED BY <1>1, <2>3, <2>4 DEF Broadcast
<1>2. CASE TakeBroadcast
  <2>1. /\ log' = Append(log, Head(broadcast)) /\ broadcast' = Tail(broadcast)
        /\ broadcast # << >> /\ next' = next
    BY <1>2 DEF TakeBroadcast
  <2>2. log' \o broadcast' = all
    BY <1>0, <2>1, TakenInOrder
  <2> QED BY <1>0, <2>1, <2>2 DEF OrderInv
<1>3. UNCHANGED <<log, broadcast, next>> => OrderInv'
  BY DEF OrderInv, Rising
<1>4. UNCHANGED vars => UNCHANGED <<log, broadcast, next>>
  BY DEF vars, hubVars
<1>5. ASSUME NEW c \in Client,
             \/ Connect(c) \/ PeerLeaves(c) \/ Register(c) \/ Unregister(c) \/ Deliver(c)
             \/ WriterStep(c) \/ WriterFails(c) \/ ReaderFails(c) \/ ReaderCloses(c)
      PROVE  UNCHANGED <<log, broadcast, next>>
  BY <1>5 DEF hubVars, Connect, PeerLeaves, Register, Unregister, Deliver, WriterStep, WriterTake,
              WriterCount, WriterFill, WriterFlush, WriterSeesClose, WriterFails, WriterReturns,
              ReaderFails, ReaderCloses
<1> QED BY <1>1, <1>2, <1>3, <1>4, <1>5 DEF Next

(* What a connection received stays a stretch of the stream.               *)
LEMMA ReceivedStep ==
    ASSUME TypeOK, LifeInv, ReceivedInv, [Stream!Next]_<<log, start, got>>
    PROVE  ReceivedInv'
<1>0. /\ log \in Seq(Message) /\ Len(log) \in Nat
      /\ start \in [Client -> Nat \cup {Outside}] /\ got \in [Client -> Seq(Message)]
  BY LenProperties DEF TypeOK
<1>1. ASSUME NEW m \in Message, Stream!Publish(m) PROVE ReceivedInv'
  <2>1. /\ Len(log') = Len(log) + 1 /\ \A i \in 1..Len(log) : log'[i] = log[i]
        /\ UNCHANGED <<start, got>>
    BY <1>0, <1>1, AppendProperties DEF Stream!Publish
  <2>2. ASSUME NEW c \in Client, NEW i \in DOMAIN got[c]
        PROVE  start[c] + i <= Len(log') /\ got[c][i] = log'[start[c] + i]
    <3>1. start[c] + i <= Len(log) /\ got[c][i] = log[start[c] + i]
      BY DEF ReceivedInv
    <3>2. i \in Nat /\ i >= 1
      BY <1>0, LenProperties
    <3>3. start[c] \in Nat
      <4>1. got[c] # << >>
        BY <1>0, EmptySeq, LenProperties
      <4>2. start[c] # Outside
        BY <4>1 DEF LifeInv
      <4> QED BY <1>0, <4>2
    <3>4. start[c] + i \in 1..Len(log)
      BY <1>0, <3>1, <3>2, <3>3
    <3> QED BY <1>0, <2>1, <3>1, <3>4
  <2> QED BY <2>1, <2>2 DEF ReceivedInv
<1>2. ASSUME NEW c \in Client, Stream!Join(c) PROVE ReceivedInv'
  <2>1. got[c] = << >>
    BY <1>2 DEF Stream!Join, LifeInv, Outside, Stream!Outside
  <2>2. UNCHANGED <<log, got>> /\ \A d \in Client \ {c} : start'[d] = start[d]
    BY <1>0, <1>2 DEF Stream!Join
  <2>3. DOMAIN got[c] = {}
    BY <2>1
  <2> QED BY <2>2, <2>3 DEF ReceivedInv
<1>3. ASSUME NEW c \in Client, NEW last \in 1..Len(log), Stream!Receive(c, last)
      PROVE  ReceivedInv'
  <2> DEFINE n == Len(got[c])
             st == start[c]
             new == SubSeq(log, st + n + 1, last)
  <2>1. /\ st \in Nat /\ n \in Nat /\ last \in (st + n + 1)..Len(log)
        /\ got' = [got EXCEPT ![c] = got[c] \o new] /\ UNCHANGED <<log, start>>
    BY <1>0, <1>3, LenProperties DEF Stream!Receive, Outside, Stream!Outside
  <2> HIDE DEF n, st
  <2>2. /\ new \in Seq(Message) /\ Len(new) = last - (st + n)
        /\ \A i \in 1..(last - (st + n)) : new[i] = log[st + n + i]
    <3> DEFINE first == st + n + 1
    <3>1. first \in Int /\ last \in Int /\ first <= last /\ last <= Len(log) /\ 1 <= first
      BY <1>0, <2>1
    <3>2. \A i \in first..last : log[i] \in Message
      BY <1>0, <3>1, LenProperties, ElementOfSeq
    <3>3. last - first + 1 = last - (st + n) /\ \A i \in Int : first + i - 1 = st + n + i
      BY <2>1
    <3> HIDE DEF first
    <3>4. /\ SubSeq(log, first, last) \in Seq(Message)
          /\ Len(SubSeq(log, first, last)) = last - first + 1
          /\ \A i \in 1..(last - first + 1) : SubSeq(log, first, last)[i] = log[first + i - 1]
      BY <3>1, <3>2, SubSeqProperties
    <3>5. \A i \in 1..(last - (st + n)) : i \in Int
      OBVIOUS
    <3> QED BY <3>3, <3>4, <3>5 DEF first
  <2> HIDE DEF new
  <2>6. got[c] \in Seq(Message) /\ new \in Seq(Message) /\ Len(got[c]) = n
    BY <1>0, <2>2 DEF n
  <2>3. /\ Len(got[c] \o new) = n + Len(new)
        /\ DOMAIN (got[c] \o new) = 1..(n + Len(new))
        /\ \A i \in 1..(n + Len(new)) : (got[c] \o new)[i] = IF i <= n THEN got[c][i] ELSE new[i - n]
    <3>1. /\ got[c] \o new \in Seq(Message)
          /\ Len(got[c] \o new) = Len(got[c]) + Len(new)
          /\ \A i \in 1..(Len(got[c]) + Len(new)) :
               (got[c] \o new)[i] = IF i <= Len(got[c]) THEN got[c][i] ELSE new[i - Len(got[c])]
      BY <2>6, ConcatProperties
    <3> QED BY <2>6, <3>1, LenProperties
  <2>4. ASSUME NEW i \in 1..(n + Len(new))
        PROVE  st + i <= Len(log) /\ (got[c] \o new)[i] = log[st + i]
    <3>1. n + Len(new) = last - st /\ Len(new) \in Nat
      BY <1>0, <2>1, <2>2
    <3>2. st + i <= Len(log)
      BY <1>0, <2>1, <3>1
    <3>3. CASE i <= n
      <4>1. i \in DOMAIN got[c]
        BY <1>0, <2>1, <3>3, LenProperties DEF n
      <4> QED BY <2>3, <3>2, <3>3, <4>1 DEF ReceivedInv, st
    <3>4. CASE i > n
      <4>1. i - n \in 1..(last - (st + n)) /\ st + n + (i - n) = st + i /\ ~(i <= n)
        BY <1>0, <2>1, <3>1, <3>4
      <4> QED BY <2>2, <2>3, <3>2, <4>1
    <3>5. i <= n \/ i > n
      BY <2>1
    <3> QED BY <3>3, <3>4, <3>5
  <2>5. got'[c] = got[c] \o new /\ \A d \in Client \ {c} : got'[d] = got[d]
    BY <1>0, <2>1
  <2>7. ASSUME NEW d \in Client, NEW i \in DOMAIN got'[d]
        PROVE  start'[d] + i <= Len(log') /\ got'[d][i] = log'[start'[d] + i]
    <3>1. CASE d = c
      BY <2>1, <2>3, <2>4, <2>5, <2>7, <3>1 DEF st
    <3>2. CASE d # c
      <4>1. got'[d] = got[d] /\ start'[d] = start[d] /\ log' = log
        BY <2>1, <2>5, <3>2
      <4> QED BY <2>7, <4>1 DEF ReceivedInv
    <3> QED BY <3>1, <3>2
  <2> QED BY <2>7 DEF ReceivedInv
<1>4. CASE UNCHANGED <<log, start, got>>
  BY <1>4 DEF ReceivedInv
<1> QED BY <1>1, <1>2, <1>3, <1>4 DEF Stream!Next

(* What every connection has received is in the order of the pipeline, and *)
(* no message is there twice (hub.go 68-81, 93-97 and 130-152).            *)
THEOREM DeliveredInOrderHolds == Spec => []DeliveredInOrder
<1>1. Init => OrderInv /\ ReceivedInv
  <2>1. ASSUME Init PROVE OrderInv
    <3>1. log \o broadcast = << >>
      BY <2>1, EmptySeq, ConcatEmptySeq DEF Init
    <3> QED BY <3>1 DEF OrderInv, Rising
  <2> QED BY <2>1 DEF Init, ReceivedInv
<1>2. TypeOK /\ LifeInv /\ StreamInv /\ OrderInv /\ ReceivedInv /\ [Next]_vars
        => OrderInv' /\ ReceivedInv'
  BY OrderStep, StreamNext, ReceivedStep
<1>3. TypeOK /\ LifeInv /\ OrderInv /\ ReceivedInv => DeliveredInOrder
  <2>1. SUFFICES ASSUME TypeOK, LifeInv, OrderInv, ReceivedInv, NEW c \in Client,
                        NEW i \in DOMAIN got[c], NEW j \in DOMAIN got[c], i < j
                 PROVE  got[c][i] < got[c][j]
    BY DEF DeliveredInOrder, Rising
  <2>2. log \in Seq(Message) /\ broadcast \in Seq(Message) /\ got[c] \in Seq(Message)
        /\ start[c] \in Nat \cup {Outside}
    BY <2>1 DEF TypeOK
  <2>3. i \in Nat /\ j \in Nat /\ i >= 1 /\ j >= 1 /\ Len(log) \in Nat /\ Len(broadcast) \in Nat
    BY <2>2, LenProperties
  <2>4. start[c] \in Nat
    <3>1. got[c] # << >>
      BY <2>1
    <3> QED BY <2>1, <2>2, <3>1 DEF LifeInv
  <2> DEFINE k == start[c] + i
             l == start[c] + j
             all == log \o broadcast
  <2>5. /\ k \in 1..Len(log) /\ l \in 1..Len(log) /\ k < l
        /\ got[c][i] = log[k] /\ got[c][j] = log[l]
    BY <2>1, <2>3, <2>4 DEF ReceivedInv
  <2>6. /\ DOMAIN all = 1..(Len(log) + Len(broadcast))
        /\ \A n \in 1..(Len(log) + Len(broadcast)) :
             all[n] = IF n <= Len(log) THEN log[n] ELSE broadcast[n - Len(log)]
    BY <2>2, ConcatProperties, LenProperties
  <2>7. Rising(all)
    BY <2>1 DEF OrderInv
  <2> HIDE DEF k, l, all
  <2>8. k \in DOMAIN all /\ l \in DOMAIN all /\ all[k] = log[k] /\ all[l] = log[l]
    BY <2>3, <2>5, <2>6
  <2> QED BY <2>5, <2>7, <2>8 DEF Rising
<1> QED BY <1>1, <1>2, <1>3, TypeCorrect, LivesInOrder, StreamInvariant, PTL DEF Spec
=============================================================================
