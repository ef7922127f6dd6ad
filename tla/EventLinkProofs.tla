--------------------------- MODULE EventLinkProofs ---------------------------
(***************************************************************************)
(* Proofs about the way of the events, for any number of events and any    *)
(* buffers: the connection may break and the broker restart at any moment. *)
(***************************************************************************)
EXTENDS EventLink, SequenceTheorems, TLAPS

LEMMA NoEventIsNone == NoEvent \notin Event
  BY DEF NoEvent, Event, Sender

LEMMA CurrentIsEvent ==
    ASSUME TypeOK, ConnInv, NEW g \in Sender, pc[g] \notin {"idle", "done"}
    PROVE  Current(g) \in Event
  BY DEF TypeOK, ConnInv, Current, Event

LEMMA HalvesRead ==
    ASSUME NEW w \in Seq(Half), w # << >>
    PROVE  /\ Tail(w) \in Seq(Half) /\ Head(w) \in Half /\ Head(w) = w[1]
           /\ Head(w)[1] \in Event /\ Head(w)[2] \in {"length", "data"}
<1>1. Head(w) \in Half /\ Tail(w) \in Seq(Half) /\ Head(w) = w[1]
  OBVIOUS
<1> QED BY <1>1 DEF Half

LEMMA WrittenType ==
    ASSUME TypeOK, NEW half \in Half, Written(half)
    PROVE  wire' \in Seq(Half)
<1>1. wire \in Seq(Half)
  BY DEF TypeOK
<1>2. Append(wire, half) \in Seq(Half)
  BY <1>1
<1> QED BY <1>1, <1>2 DEF Written

LEMMA HangupType ==
    ASSUME TypeOK, Hangup
    PROVE  /\ link' \in {"none"} /\ wire' \in Seq(Half) /\ frame' = NoEvent
           /\ conn' \in {"nil", "stale"}
  BY DEF TypeOK, Hangup

(* Type correctness.                                                       *)
LEMMA TypeInit == Init => TypeOK
<1> SUFFICES ASSUME Init PROVE TypeOK
  OBVIOUS
<1>1. taken \in [Sender -> Nat] /\ \A g \in Sender : taken[g] <= MaxEvents[g]
  BY LinkAssumption DEF Init
<1>2. wire \in Seq(Half) /\ seen \in [Sender -> Seq(Nat)]
  BY DEF Init
<1> QED BY <1>1, <1>2 DEF Init, TypeOK


LEMMA TypeStep ==
    ASSUME TypeOK, ConnInv, [Next]_vars
    PROVE  TypeOK'
<1> USE DEF TypeOK, publisherVars, consumerVars, storeVars
<1>1. ASSUME NEW g \in Sender, Take(g) PROVE TypeOK'
  <2>1. taken[g] \in Nat /\ MaxEvents[g] \in Nat /\ taken[g] < MaxEvents[g]
    BY <1>1, LinkAssumption DEF Take
  <2>2. taken[g] + 1 \in Nat /\ taken[g] + 1 <= MaxEvents[g]
    BY <2>1
  <2>3. taken' = [taken EXCEPT ![g] = taken[g] + 1]
    BY <1>1 DEF Take
  <2> QED BY <1>1, <2>2, <2>3 DEF Take
<1>2. ASSUME NEW g \in Sender, StopSender(g) PROVE TypeOK'
  BY <1>2 DEF StopSender
<1>3. ASSUME NEW g \in Sender, Lock(g) PROVE TypeOK'
  BY <1>3 DEF Lock
<1>4. ASSUME NEW g \in Sender, Dial(g) PROVE TypeOK'
  BY <1>4 DEF Dial
<1>5. ASSUME NEW g \in Sender, DialFails(g) PROVE TypeOK'
  BY <1>5, ZenonT(40) DEF DialFails, Return
<1>6. ASSUME NEW g \in Sender, WriteLength(g) PROVE TypeOK'
  <2>1. <<Current(g), "length">> \in Half
    BY <1>6, CurrentIsEvent DEF WriteLength, Half
  <2>2. wire' \in Seq(Half)
    BY <1>6, <2>1, WrittenType DEF WriteLength
  <2> QED BY <1>6, <2>2 DEF WriteLength
<1>7. ASSUME NEW g \in Sender, WriteData(g) PROVE TypeOK'
  <2>1. <<Current(g), "data">> \in Half
    BY <1>7, CurrentIsEvent DEF WriteData, Half
  <2>2. wire' \in Seq(Half)
    BY <1>7, <2>1, WrittenType DEF WriteData
  <2> QED BY <1>7, <2>2, ZenonT(40) DEF WriteData, Return
<1>8. ASSUME NEW g \in Sender, WriteFails(g) PROVE TypeOK'
  BY <1>8 DEF WriteFails, Return
<1>9. ASSUME NEW g \in Sender, WriteLine(g) PROVE TypeOK'
  BY <1>9 DEF WriteLine
<1>10. ASSUME NEW g \in Sender, WriteNewline(g) PROVE TypeOK'
  BY <1>10 DEF WriteNewline
<1>11. CASE Check
  BY <1>11 DEF Check
<1>12. CASE ConsumerDial
  BY <1>12 DEF ConsumerDial
<1>13. CASE Wake
  BY <1>13 DEF Wake
<1>14. CASE ReadLength
  <2>1. Tail(wire) \in Seq(Half) /\ Head(wire)[1] \in Event
    BY <1>14, HalvesRead DEF ReadLength
  <2>2. CASE Valid(Head(wire))
    BY <1>14, <2>1, <2>2 DEF ReadLength
  <2>3. CASE ~Valid(Head(wire))
    <3>1. Hangup
      BY <1>14, <2>3 DEF ReadLength
    <3> QED BY <1>14, <2>3, <3>1, HangupType DEF ReadLength
  <2> QED BY <2>2, <2>3
<1>15. CASE ReadPayload
  BY <1>15 DEF ReadPayload
<1>16. CASE ReadFails
  BY <1>16, HangupType DEF ReadFails
<1>17. CASE SaveAlert
  <2>1. frame \in Event
    BY <1>17 DEF SaveAlert, ConnInv
  <2> QED BY <1>17, <2>1 DEF SaveAlert
<1>18. CASE Broadcast
  <2>1. frame \in Event /\ frame[1] \in Sender /\ frame[2] \in Nat
    BY <1>18 DEF Broadcast, ConnInv, Event
  <2>2. Append(seen[frame[1]], frame[2]) \in Seq(Nat)
    BY <2>1
  <2>3. seen' \in [Sender -> Seq(Nat)]
    BY <1>18, <2>1, <2>2 DEF Broadcast
  <2> QED BY <1>18, <2>1, <2>3 DEF Broadcast
<1>19. CASE CancelEngine
  BY <1>19 DEF CancelEngine
<1>20. CASE Break
  BY <1>20 DEF Break
<1>21. CASE CancelBroker
  BY <1>21 DEF CancelBroker
<1>22. CASE RestartBroker
  BY <1>22, HangupType DEF RestartBroker
<1>23. CASE UNCHANGED vars
  BY <1>23 DEF vars
<1> QED
  BY <1>1, <1>2, <1>3, <1>4, <1>5, <1>6, <1>7, <1>8, <1>9, <1>10, <1>11, <1>12, <1>13, <1>14, <1>15, <1>16, <1>17, <1>18, <1>19, <1>20, <1>21, <1>22, <1>23 DEF Next, SendEvent, Consume

(* The mutex, the connection and the program counters agree.               *)
LEMMA ConnInit == Init => ConnInv
  BY DEF Init, ConnInv

LEMMA ConnStep ==
    ASSUME TypeOK, ConnInv, WireInv, [Next]_vars
    PROVE  ConnInv'
<1> USE DEF TypeOK, ConnInv, publisherVars, consumerVars, storeVars
<1>1. ASSUME NEW g \in Sender, Take(g) PROVE ConnInv'
  BY <1>1 DEF Take
<1>2. ASSUME NEW g \in Sender, StopSender(g) PROVE ConnInv'
  BY <1>2 DEF StopSender
<1>3. ASSUME NEW g \in Sender, Lock(g) PROVE ConnInv'
  BY <1>3 DEF Lock
<1>4. ASSUME NEW g \in Sender, Dial(g) PROVE ConnInv'
  BY <1>4 DEF Dial
<1>5. ASSUME NEW g \in Sender, DialFails(g) PROVE ConnInv'
  BY <1>5 DEF DialFails, Return
<1>6. ASSUME NEW g \in Sender, WriteLength(g) PROVE ConnInv'
  BY <1>6 DEF WriteLength, Written
<1>7. ASSUME NEW g \in Sender, WriteData(g) PROVE ConnInv'
  BY <1>7 DEF WriteData, Written, Return
<1>8. ASSUME NEW g \in Sender, WriteFails(g) PROVE ConnInv'
  BY <1>8 DEF WriteFails, Return
<1>9. ASSUME NEW g \in Sender, WriteLine(g) PROVE ConnInv'
  BY <1>9 DEF WriteLine
<1>10. ASSUME NEW g \in Sender, WriteNewline(g) PROVE ConnInv'
  BY <1>10 DEF WriteNewline
<1>11. CASE Check
  BY <1>11 DEF Check
<1>12. CASE ConsumerDial
  BY <1>12 DEF ConsumerDial
<1>13. CASE Wake
  BY <1>13 DEF Wake
<1>14. CASE ReadLength
  <2>1. Head(wire)[1] \in Event
    BY <1>14, HalvesRead DEF ReadLength
  <2>2. CASE Valid(Head(wire))
    BY <1>14, <2>1, <2>2 DEF ReadLength
  <2>3. CASE ~Valid(Head(wire))
    BY <1>14, <2>3 DEF ReadLength, Hangup
  <2> QED BY <2>2, <2>3
<1>15. CASE ReadPayload
  <2>1. Head(wire) = <<frame, "data">> /\ frame \in Event
    BY <1>15, HalvesRead DEF ReadPayload, WireInv, Follows, Prior
  <2>2. Tail(wire) \in Seq(Half) /\ link \notin {"none", "waiting"}
    BY <1>15, HalvesRead DEF ReadPayload
  <2> QED BY <1>15, <2>1, <2>2 DEF ReadPayload
<1>16. CASE ReadFails
  BY <1>16 DEF ReadFails, Hangup
<1>17. CASE SaveAlert
  BY <1>17 DEF SaveAlert
<1>18. CASE Broadcast
  BY <1>18 DEF Broadcast
<1>19. CASE CancelEngine
  BY <1>19 DEF CancelEngine
<1>20. CASE Break
  BY <1>20 DEF Break
<1>21. CASE CancelBroker
  BY <1>21 DEF CancelBroker
<1>22. CASE RestartBroker
  BY <1>22 DEF RestartBroker, Hangup
<1>23. CASE UNCHANGED vars
  BY <1>23 DEF vars
<1> QED
  BY <1>1, <1>2, <1>3, <1>4, <1>5, <1>6, <1>7, <1>8, <1>9, <1>10, <1>11, <1>12, <1>13, <1>14, <1>15, <1>16, <1>17, <1>18, <1>19, <1>20, <1>21, <1>22, <1>23 DEF Next, SendEvent, Consume

(* What the publisher writes follows what the consumer reads.              *)
LEMMA WireInit == Init => WireInv
  BY DEF Init, WireInv, Follows, Prior, Latest


LEMMA AppendHalf ==
    ASSUME NEW w \in Seq(Half), NEW half \in Half
    PROVE  /\ Append(w, half) \in Seq(Half) /\ Append(w, half) # << >>
           /\ Len(Append(w, half)) = Len(w) + 1 /\ Append(w, half)[Len(w) + 1] = half
           /\ \A i \in 1..Len(w) : Append(w, half)[i] = w[i]
  BY AppendProperties

LEMMA TailHalf ==
    ASSUME NEW w \in Seq(Half), w # << >>
    PROVE  /\ Len(w) \in Nat \ {0} /\ Len(Tail(w)) = Len(w) - 1
           /\ \A i \in 1..Len(w) - 1 : Tail(w)[i] = w[i + 1]
           /\ Tail(w) = << >> <=> Len(w) = 1
<1>1. Len(w) \in Nat \ {0} /\ Tail(w) \in Seq(Half) /\ Len(Tail(w)) = Len(w) - 1
  OBVIOUS
<1>2. ASSUME NEW i \in 1..Len(w) - 1 PROVE Tail(w)[i] = w[i + 1]
  BY <1>1, HeadTailProperties
<1>3. Tail(w) = << >> <=> Len(Tail(w)) = 0
  BY <1>1, EmptySeq
<1> QED BY <1>1, <1>2, <1>3

(* One goroutine at most is between the lock and its return.               *)
LEMMA OneHolder ==
    ASSUME TypeOK, ConnInv, NEW g \in Sender, NEW h \in Sender,
           pc[g] \in {"dial", "length", "data"}, pc[h] \in {"dial", "length", "data"}
    PROVE  g = h
  BY DEF TypeOK, ConnInv

(* A half that follows the latest one keeps the wire in order.             *)
LEMMA WireAppend ==
    ASSUME TypeOK, WireInv, NEW half \in Half, Follows(Latest, half),
           wire' = Append(wire, half), UNCHANGED consumerVars
    PROVE  /\ wire' # << >> => Follows(Prior, wire[1])'
           /\ \A i \in 1..Len(wire') - 1 : Follows(wire'[i], wire'[i + 1])
           /\ Latest' = half
<1>1. wire \in Seq(Half) /\ Len(wire) \in Nat
  BY DEF TypeOK
<1>2. /\ wire' # << >> /\ Len(wire') = Len(wire) + 1 /\ wire'[Len(wire) + 1] = half
      /\ \A i \in 1..Len(wire) : wire'[i] = wire[i]
  BY <1>1, AppendHalf
<1>3. Latest' = half
  BY <1>1, <1>2 DEF Latest
<1>4. Prior' = Prior
  BY DEF Prior, consumerVars
<1>5. Follows(Prior, wire[1])'
  <2>1. CASE wire = << >>
    <3>1. wire'[1] = half /\ Latest = Prior
      BY <2>1, <1>1, <1>2 DEF Latest
    <3> QED BY <3>1, <1>4 DEF Follows
  <2>2. CASE wire # << >>
    <3>1. 1 \in 1..Len(wire)
      BY <2>2, <1>1
    <3>2. wire'[1] = wire[1]
      BY <3>1, <1>2
    <3> QED BY <2>2, <3>2, <1>4 DEF WireInv, Follows
  <2> QED BY <2>1, <2>2
<1>6. ASSUME NEW i \in 1..Len(wire') - 1 PROVE Follows(wire'[i], wire'[i + 1])
  <2>1. CASE i < Len(wire)
    <3>1. i \in 1..Len(wire) - 1 /\ wire'[i] = wire[i] /\ wire'[i + 1] = wire[i + 1]
      BY <2>1, <1>1, <1>2
    <3> QED BY <3>1 DEF WireInv
  <2>2. CASE i = Len(wire)
    <3>1. wire # << >> /\ wire'[i] = wire[i] /\ wire'[i + 1] = half
      BY <2>2, <1>1, <1>2
    <3>2. Latest = wire[i]
      BY <2>2, <3>1 DEF Latest
    <3> QED BY <3>1, <3>2
  <2> QED BY <2>1, <2>2, <1>1, <1>2
<1> QED BY <1>3, <1>5, <1>6

(* So does reading a half, if it becomes the one before the wire.          *)
LEMMA WireTail ==
    ASSUME TypeOK, WireInv, wire # << >>, wire' = Tail(wire),
           Prior' = Head(wire)
    PROVE  /\ wire' # << >> => Follows(Prior, wire[1])'
           /\ \A i \in 1..Len(wire') - 1 : Follows(wire'[i], wire'[i + 1])
           /\ Latest' = Latest
<1>1. /\ wire \in Seq(Half) /\ Len(wire) \in Nat \ {0} /\ Len(wire') = Len(wire) - 1
      /\ \A i \in 1..Len(wire) - 1 : wire'[i] = wire[i + 1]
      /\ wire' = << >> <=> Len(wire) = 1
      /\ Head(wire) = wire[1]
  BY TailHalf, HalvesRead DEF TypeOK
<1>2. ASSUME wire' # << >> PROVE Follows(Prior, wire[1])'
  <2>1. 1 \in 1..Len(wire) - 1
    BY <1>1, <1>2
  <2>2. wire'[1] = wire[2] /\ Follows(wire[1], wire[2])
    BY <2>1, <1>1 DEF WireInv
  <2> QED BY <2>2, <1>1 DEF Follows
<1>3. ASSUME NEW i \in 1..Len(wire') - 1 PROVE Follows(wire'[i], wire'[i + 1])
  <2>1. i \in 1..Len(wire) - 1 /\ i + 1 \in 1..Len(wire) - 1
    BY <1>1
  <2>2. wire'[i] = wire[i + 1] /\ wire'[i + 1] = wire[(i + 1) + 1]
    BY <2>1, <1>1
  <2> QED BY <2>1, <2>2 DEF WireInv
<1>4. Latest' = Latest
  <2>1. CASE wire' = << >>
    BY <2>1, <1>1 DEF Latest
  <2>2. CASE wire' # << >>
    <3>1. Len(wire') \in 1..Len(wire) - 1 /\ Len(wire') + 1 = Len(wire)
      BY <2>2, <1>1
    <3>2. wire'[Len(wire')] = wire[Len(wire)]
      BY <3>1, <1>1
    <3> QED BY <2>2, <3>2 DEF Latest
  <2> QED BY <2>1, <2>2
<1> QED BY <1>2, <1>3, <1>4

LEMMA WireStep ==
    ASSUME TypeOK, ConnInv, WireInv, [Next]_vars
    PROVE  WireInv'
<1> USE DEF TypeOK, ConnInv, publisherVars, consumerVars, storeVars
<1>1. ASSUME NEW g \in Sender, Take(g) PROVE WireInv'
  BY <1>1 DEF Take, WireInv, Prior, Latest, Current
<1>2. ASSUME NEW g \in Sender, StopSender(g) PROVE WireInv'
  BY <1>2 DEF StopSender, WireInv, Prior, Latest, Current
<1>3. ASSUME NEW g \in Sender, Lock(g) PROVE WireInv'
  BY <1>3 DEF Lock, WireInv, Prior, Latest, Current
<1>4. ASSUME NEW g \in Sender, Dial(g) PROVE WireInv'
  <2>1. wire = << >> /\ wire' = << >> /\ Prior' = Prior /\ Prior[2] = "data"
    BY <1>4 DEF Dial, Prior
  <2>2. \A h \in Sender : pc'[h] # "data"
    BY <1>4, OneHolder DEF Dial
  <2>3. Latest'[2] = "data"
    BY <2>1 DEF Latest
  <2> QED BY <2>1, <2>2, <2>3 DEF WireInv
<1>5. ASSUME NEW g \in Sender, DialFails(g) PROVE WireInv'
  BY <1>5 DEF DialFails, Return, WireInv, Prior, Latest, Current
<1>6. ASSUME NEW g \in Sender, WriteLength(g) PROVE WireInv'
  <2>1. CASE conn = "stale"
    BY <1>6, <2>1 DEF WriteLength, Written, WireInv, Prior, Latest
  <2>2. CASE conn = "up"
    <3>1. \A h \in Sender : pc[h] # "data"
      BY <1>6, OneHolder DEF WriteLength
    <3>2. <<Current(g), "length">> \in Half
      BY <1>6, CurrentIsEvent DEF WriteLength, Half
    <3>3. Follows(Latest, <<Current(g), "length">>)
      BY <2>2, <3>1 DEF WireInv, Follows
    <3>4. wire' = Append(wire, <<Current(g), "length">>) /\ UNCHANGED consumerVars
      BY <1>6, <2>2 DEF WriteLength, Written
    <3>5. /\ (wire # << >> => Follows(Prior, wire[1]))'
          /\ \A i \in 1..Len(wire') - 1 : Follows(wire'[i], wire'[i + 1])
          /\ Latest' = <<Current(g), "length">>
      BY <3>2, <3>3, <3>4, WireAppend
    <3>6. pc'[g] = "data" /\ (\A h \in Sender : pc'[h] = "data" => h = g) /\ Current(g)' = Current(g)
      BY <1>6, <3>1 DEF WriteLength, Current
    <3> QED BY <3>5, <3>6 DEF WireInv
  <2> QED BY <1>6, <2>1, <2>2 DEF WriteLength, Written
<1>7. ASSUME NEW g \in Sender, WriteData(g) PROVE WireInv'
  <2>1. \A h \in Sender : pc'[h] # "data"
    BY <1>7, OneHolder DEF WriteData, Return
  <2>2. CASE conn = "stale"
    BY <1>7, <2>2 DEF WriteData, Written, Return, WireInv, Prior, Latest
  <2>3. CASE conn = "up"
    <3>1. Latest = <<Current(g), "length">>
      BY <1>7, <2>3 DEF WriteData, WireInv
    <3>2. <<Current(g), "data">> \in Half
      BY <1>7, CurrentIsEvent DEF WriteData, Half
    <3>3. Follows(Latest, <<Current(g), "data">>)
      BY <3>1 DEF Follows
    <3>4. wire' = Append(wire, <<Current(g), "data">>) /\ UNCHANGED consumerVars
      BY <1>7, <2>3 DEF WriteData, Written
    <3>5. /\ (wire # << >> => Follows(Prior, wire[1]))'
          /\ \A i \in 1..Len(wire') - 1 : Follows(wire'[i], wire'[i + 1])
          /\ Latest' = <<Current(g), "data">>
      BY <3>2, <3>3, <3>4, WireAppend
    <3> QED BY <2>1, <3>5 DEF WireInv
  <2> QED BY <1>7, <2>2, <2>3 DEF WriteData, Written
<1>8. ASSUME NEW g \in Sender, WriteFails(g) PROVE WireInv'
  BY <1>8 DEF WriteFails, Return, WireInv, Prior, Latest, Current
<1>9. ASSUME NEW g \in Sender, WriteLine(g) PROVE WireInv'
  BY <1>9 DEF WriteLine, WireInv, Prior, Latest, Current
<1>10. ASSUME NEW g \in Sender, WriteNewline(g) PROVE WireInv'
  BY <1>10 DEF WriteNewline, WireInv, Prior, Latest, Current
<1>11. CASE Check
  BY <1>11 DEF Check, WireInv, Prior, Latest, Current
<1>12. CASE ConsumerDial
  BY <1>12 DEF ConsumerDial, WireInv, Prior, Latest, Current
<1>13. CASE Wake
  BY <1>13 DEF Wake, WireInv, Prior, Latest, Current
<1>14. CASE ReadLength
  <2>1. Head(wire) \in Half /\ Head(wire)[1] \in Event
    BY <1>14, HalvesRead DEF ReadLength
  <2>2. CASE Valid(Head(wire))
    <3>1. consumer' = "payload" /\ frame' = Head(wire)[1] /\ Head(wire)[2] = "length"
      BY <1>14, <2>2 DEF ReadLength, Valid
    <3>2. Prior' = Head(wire)
      BY <2>1, <3>1 DEF Prior, Half
    <3>3. wire # << >> /\ wire' = Tail(wire) /\ UNCHANGED <<pc, taken, conn>>
      BY <1>14, <2>2 DEF ReadLength
    <3>4. /\ (wire # << >> => Follows(Prior, wire[1]))'
          /\ \A i \in 1..Len(wire') - 1 : Follows(wire'[i], wire'[i + 1])
          /\ Latest' = Latest
      BY <3>2, <3>3, WireTail
    <3> QED BY <3>3, <3>4 DEF WireInv, Current
  <2>3. CASE ~Valid(Head(wire))
    <3>1. wire' = << >> /\ conn' # "up"
      BY <1>14, <2>3 DEF ReadLength, Hangup
    <3> QED BY <3>1 DEF WireInv
  <2> QED BY <2>2, <2>3
<1>15. CASE ReadPayload
  <2>1. Head(wire) = <<frame, "data">> /\ frame \in Event
    BY <1>15, HalvesRead DEF ReadPayload, WireInv, Follows, Prior
  <2>2. consumer' # "payload" /\ frame' = frame
    BY <1>15, <2>1 DEF ReadPayload
  <2>3. Prior' = Head(wire)
    BY <2>1, <2>2 DEF Prior
  <2>4. wire # << >> /\ wire' = Tail(wire) /\ UNCHANGED <<pc, taken, conn>>
    BY <1>15 DEF ReadPayload
  <2>5. /\ (wire # << >> => Follows(Prior, wire[1]))'
        /\ \A i \in 1..Len(wire') - 1 : Follows(wire'[i], wire'[i + 1])
        /\ Latest' = Latest
    BY <2>3, <2>4, WireTail
  <2> QED BY <2>4, <2>5 DEF WireInv, Current
<1>16. CASE ReadFails
  BY <1>16 DEF ReadFails, Hangup, WireInv, Prior, Latest, Current
<1>17. CASE SaveAlert
  BY <1>17 DEF SaveAlert, WireInv, Prior, Latest, Current
<1>18. CASE Broadcast
  <2>1. Prior[2] = "data" /\ Prior'[2] = "data" /\ UNCHANGED <<wire, pc, taken, conn>>
    BY <1>18 DEF Broadcast, Prior
  <2>2. CASE wire = << >>
    BY <2>1, <2>2 DEF WireInv, Latest, Current
  <2>3. CASE wire # << >>
    BY <2>1, <2>3 DEF WireInv, Latest, Current, Follows
  <2> QED BY <2>2, <2>3
<1>19. CASE CancelEngine
  BY <1>19 DEF CancelEngine, WireInv, Prior, Latest, Current
<1>20. CASE Break
  BY <1>20 DEF Break, WireInv, Prior, Latest, Current
<1>21. CASE CancelBroker
  BY <1>21 DEF CancelBroker, WireInv, Prior, Latest, Current
<1>22. CASE RestartBroker
  BY <1>22 DEF RestartBroker, Hangup, WireInv, Prior, Latest, Current
<1>23. CASE UNCHANGED vars
  BY <1>23 DEF vars, WireInv, Prior, Latest, Current
<1> QED
  BY <1>1, <1>2, <1>3, <1>4, <1>5, <1>6, <1>7, <1>8, <1>9, <1>10, <1>11, <1>12, <1>13, <1>14, <1>15, <1>16, <1>17, <1>18, <1>19, <1>20, <1>21, <1>22, <1>23 DEF Next, SendEvent, Consume

(* The order of the events: processed, in hand, on the wire, unsent.       *)
LEMMA OrderInit == Init => OrderInv
  BY DEF Init, OrderInv, Lengths


(* What matters of a step that leaves the events where they are.           *)
LEMMA StaySent ==
    ASSUME TypeOK, OrderInv, UNCHANGED <<frame, seen>>,
           Len(wire') \in Nat, Len(wire) \in Nat,
           \A i \in Lengths' : i \in Lengths /\ wire'[i] = wire[i],
           \A e \in Sender \X Nat : Sent(e) => Sent(e)'
    PROVE  OrderInv'
<1>1. \A g \in Sender : \A k \in DOMAIN seen[g] : <<g, seen[g][k]>> \in Sender \X Nat
  BY DEF TypeOK
<1>2. frame # NoEvent => frame \in Sender \X Nat
  BY DEF TypeOK, Event
<1>3. \A i \in Lengths : wire[i][1] \in Sender \X Nat
  BY DEF TypeOK, Lengths, Half, Event
<1> QED BY <1>1, <1>2, <1>3, SMTT(30) DEF OrderInv, Before

LEMMA WireTypes ==
    ASSUME TypeOK
    PROVE  /\ Len(wire) \in Nat
           /\ \A i \in 1..Len(wire) : wire[i] \in Half /\ wire[i][1] \in Sender \X Nat
<1>1. wire \in Seq(Half) /\ \A h \in Half : h[1] \in Sender \X Nat
  BY DEF TypeOK, Half, Event
<1> QED BY <1>1

LEMMA OrderStep ==
    ASSUME TypeOK, ConnInv, WireInv, OrderInv, [Next]_vars
    PROVE  OrderInv'
<1> USE DEF TypeOK, ConnInv, publisherVars, consumerVars, storeVars
<1>1. ASSUME NEW g \in Sender, Take(g) PROVE OrderInv'
  <2>1. UNCHANGED <<wire, frame, seen>> /\ taken' = [taken EXCEPT ![g] = taken[g] + 1]
        /\ pc' = [pc EXCEPT ![g] = "lock"]
    BY <1>1 DEF Take
  <2>2. ASSUME NEW e \in Sender \X Nat, Sent(e) PROVE Sent(e)'
    <3>1. CASE e[1] = g
      <4>1. e[2] \in Nat /\ taken[g] \in Nat /\ e[2] <= taken[g] /\ taken'[g] = taken[g] + 1
        BY <2>1, <2>2, <3>1 DEF Sent
      <4>2. e[2] < taken'[g]
        BY <4>1
      <4> QED BY <4>1, <4>2, <3>1 DEF Sent
    <3>2. CASE e[1] # g
      <4>1. taken'[e[1]] = taken[e[1]] /\ pc'[e[1]] = pc[e[1]]
        BY <2>1, <3>2
      <4> QED BY <2>2, <4>1 DEF Sent
    <3> QED BY <3>1, <3>2
  <2>3. Len(wire) \in Nat /\ Lengths' = Lengths
    BY <2>1, WireTypes DEF Lengths
  <2> QED BY <2>1, <2>2, <2>3, StaySent
<1>2. ASSUME NEW g \in Sender, StopSender(g) PROVE OrderInv'
  BY <1>2 DEF StopSender, OrderInv, Lengths, Sent, Before
<1>3. ASSUME NEW g \in Sender, Lock(g) PROVE OrderInv'
  BY <1>3 DEF Lock, OrderInv, Lengths, Sent, Before
<1>4. ASSUME NEW g \in Sender, Dial(g) PROVE OrderInv'
  BY <1>4 DEF Dial, OrderInv, Lengths, Sent, Before
<1>5. ASSUME NEW g \in Sender, DialFails(g) PROVE OrderInv'
  BY <1>5 DEF DialFails, Return, OrderInv, Lengths, Sent, Before
<1>6. ASSUME NEW g \in Sender, WriteLength(g) PROVE OrderInv'
  <2> DEFINE this == Current(g)
  <2>1. /\ UNCHANGED <<frame, seen, taken>> /\ pc' = [pc EXCEPT ![g] = "data"]
        /\ pc[g] = "length" /\ Len(wire) \in Nat
    BY <1>6, WireTypes DEF WriteLength
  <2>2. ASSUME NEW e \in Sender \X Nat, Sent(e) PROVE Sent(e)' /\ Before(e, this)
    <3>1. CASE e[1] = g
      BY <2>1, <2>2, <3>1 DEF Sent, Before, Current
    <3>2. CASE e[1] # g
      BY <2>1, <2>2, <3>2 DEF Sent, Before, Current
    <3> QED BY <3>1, <3>2
  <2>3. CASE conn = "stale"
    <3>1. wire' = wire /\ Lengths' = Lengths
      BY <1>6, <2>3 DEF WriteLength, Written, Lengths
    <3> QED BY <2>1, <2>2, <3>1, StaySent
  <2>4. CASE conn = "up"
    <3>1. <<this, "length">> \in Half
      BY <1>6, CurrentIsEvent DEF WriteLength, Half
    <3>2. /\ Len(wire') = Len(wire) + 1 /\ wire'[Len(wire) + 1] = <<this, "length">>
          /\ \A i \in 1..Len(wire) : wire'[i] = wire[i]
      BY <1>6, <2>4, <3>1, AppendHalf DEF WriteLength, Written
    <3>3. Sent(this)'
      BY <2>1 DEF Sent, Current
    <3>4. Lengths' = Lengths \union {Len(wire) + 1}
      BY <2>1, <3>2 DEF Lengths
    <3>5. \A i \in Lengths : /\ i \in Nat /\ i < Len(wire) + 1 /\ wire'[i] = wire[i]
                             /\ wire[i][1] \in Sender \X Nat
      BY <2>1, <3>2, WireTypes DEF Lengths
    <3>6. frame # NoEvent => frame \in Sender \X Nat
      BY DEF Event
    <3>7. \A h \in Sender : \A k \in DOMAIN seen[h] : <<h, seen[h][k]>> \in Sender \X Nat
      OBVIOUS
    <3>8. \A i \in Lengths' : \/ i \in Lengths /\ wire'[i][1] = wire[i][1]
                              \/ i = Len(wire) + 1 /\ wire'[i][1] = this
      BY <3>2, <3>4, <3>5
    <3> HIDE DEF this, TypeOK, ConnInv
    <3>9. ASSUME NEW h \in Sender, NEW k \in DOMAIN seen[h]
          PROVE  /\ Sent(<<h, seen[h][k]>>)
                 /\ frame # NoEvent => Before(<<h, seen[h][k]>>, frame)
                 /\ \A i \in Lengths' : Before(<<h, seen[h][k]>>, wire'[i][1])
      BY <2>2, <3>7, <3>8 DEF OrderInv
    <3>10. frame # NoEvent => Sent(frame) /\ \A i \in Lengths' : Before(frame, wire'[i][1])
      BY <2>2, <3>6, <3>8 DEF OrderInv
    <3>11. ASSUME NEW i \in Lengths', NEW j \in Lengths', i < j
           PROVE  Before(wire'[i][1], wire'[j][1])
      <4>1. i \in Lengths
        <5>1. CASE i = Len(wire) + 1 /\ j \in Lengths
          BY <2>1, <3>5, <3>11, <5>1
        <5>2. CASE i = Len(wire) + 1 /\ j = Len(wire) + 1
          BY <2>1, <3>11, <5>2
        <5> QED BY <3>8, <3>11, <5>1, <5>2
      <4> QED BY <2>2, <3>5, <3>8, <3>11, <4>1 DEF OrderInv
    <3>12. \A e \in Sender \X Nat : Sent(e) => Sent(e)'
      BY <2>2
    <3>13. \A i \in Lengths' : Sent(wire[i][1])'
      <4> SUFFICES ASSUME NEW i \in Lengths' PROVE Sent(wire[i][1])'
        OBVIOUS
      <4>1. CASE i \in Lengths /\ wire'[i][1] = wire[i][1]
        BY <3>5, <3>12, <4>1 DEF OrderInv, Sent
      <4>2. CASE i = Len(wire) + 1 /\ wire'[i][1] = this
        BY <3>3, <4>2, <2>1 DEF Sent, this, Current
      <4> QED BY <3>8, <4>1, <4>2
    <3>14. /\ \A h \in Sender : \A k \in DOMAIN seen[h] : Sent(<<h, seen[h][k]>>)'
           /\ frame # NoEvent => Sent(frame)'
      BY <2>1, <3>6, <3>7, <3>9, <3>10, <3>12 DEF Sent
    <3> QED BY <2>1, <3>9, <3>10, <3>11, <3>13, <3>14 DEF OrderInv, Before
  <2> QED BY <1>6, <2>3, <2>4 DEF WriteLength, Written
<1>7. ASSUME NEW g \in Sender, WriteData(g) PROVE OrderInv'
  <2>1. UNCHANGED <<frame, seen, taken>> /\ pc' = [pc EXCEPT ![g] = "line"] /\ Len(wire) \in Nat
    BY <1>7, WireTypes DEF WriteData, Return
  <2>2. ASSUME NEW e \in Sender \X Nat, Sent(e) PROVE Sent(e)'
    BY <2>1, <2>2 DEF Sent
  <2>3. CASE conn = "stale"
    <3>1. wire' = wire /\ Lengths' = Lengths
      BY <1>7, <2>3 DEF WriteData, Written, Lengths
    <3> QED BY <2>1, <2>2, <3>1, StaySent
  <2>4. CASE conn = "up"
    <3>1. <<Current(g), "data">> \in Half
      BY <1>7, CurrentIsEvent DEF WriteData, Half
    <3>2. wire' = Append(wire, <<Current(g), "data">>) /\ wire \in Seq(Half)
      BY <1>7, <2>4 DEF WriteData, Written
    <3> HIDE DEF TypeOK, ConnInv
    <3>3. /\ Len(wire') = Len(wire) + 1 /\ wire'[Len(wire) + 1] = <<Current(g), "data">>
           /\ \A i \in 1..Len(wire) : wire'[i] = wire[i]
      BY <3>1, <3>2, AppendHalf
    <3>4. \A i \in Lengths' : i \in Lengths /\ wire'[i] = wire[i]
      BY <2>1, <3>3 DEF Lengths
    <3> QED BY <2>1, <2>2, <3>3, <3>4, StaySent
  <2> QED BY <1>7, <2>3, <2>4 DEF WriteData, Written
<1>8. ASSUME NEW g \in Sender, WriteFails(g) PROVE OrderInv'
  BY <1>8 DEF WriteFails, Return, OrderInv, Lengths, Sent, Before
<1>9. ASSUME NEW g \in Sender, WriteLine(g) PROVE OrderInv'
  BY <1>9 DEF WriteLine, OrderInv, Lengths, Sent, Before
<1>10. ASSUME NEW g \in Sender, WriteNewline(g) PROVE OrderInv'
  BY <1>10 DEF WriteNewline, OrderInv, Lengths, Sent, Before
<1>11. CASE Check
  BY <1>11 DEF Check, OrderInv, Lengths, Sent, Before
<1>12. CASE ConsumerDial
  BY <1>12 DEF ConsumerDial, OrderInv, Lengths, Sent, Before
<1>13. CASE Wake
  BY <1>13 DEF Wake, OrderInv, Lengths, Sent, Before
<1>14. CASE ReadLength
  <2>1. wire # << >> /\ UNCHANGED <<pc, taken, seen>> /\ frame = NoEvent
    BY <1>14 DEF ReadLength
  <2>2. CASE Valid(Head(wire))
    <3>1. /\ Len(wire) \in Nat \ {0} /\ Len(wire') = Len(wire) - 1 /\ Head(wire) = wire[1]
          /\ \A i \in 1..Len(wire) - 1 : wire'[i] = wire[i + 1]
      BY <1>14, <2>1, <2>2, TailHalf, HalvesRead DEF ReadLength
    <3>2. 1 \in Lengths /\ frame' = wire[1][1]
      BY <1>14, <2>2, <3>1 DEF ReadLength, Valid, Lengths
    <3>3. \A i \in Lengths' : i + 1 \in Lengths /\ 1 < i + 1 /\ wire'[i] = wire[i + 1] /\ i \in Int
      BY <3>1 DEF Lengths
    <3>4. \A i \in Lengths', j \in Lengths' : i < j => i + 1 < j + 1
      BY <3>3
    <3> HIDE DEF TypeOK, ConnInv
    <3>5. \A e : Sent(e)' <=> Sent(e)
      BY <2>1 DEF Sent
    <3>6. ASSUME NEW h \in Sender, NEW k \in DOMAIN seen[h]
          PROVE  /\ Sent(<<h, seen[h][k]>>)
                 /\ Before(<<h, seen[h][k]>>, frame')
                 /\ \A i \in Lengths' : Before(<<h, seen[h][k]>>, wire'[i][1])
      BY <3>2, <3>3 DEF OrderInv
    <3>7. Sent(frame') /\ \A i \in Lengths' : Before(frame', wire'[i][1])
      BY <3>2, <3>3 DEF OrderInv
    <3>8. \A i \in Lengths' : /\ Sent(wire'[i][1])
                              /\ \A j \in Lengths' : i < j => Before(wire'[i][1], wire'[j][1])
      BY <3>3, <3>4 DEF OrderInv
    <3> QED BY <2>1, <3>5, <3>6, <3>7, <3>8 DEF OrderInv, Before, Sent
  <2>3. CASE ~Valid(Head(wire))
    <3>1. wire' = << >> /\ frame' = NoEvent
      BY <1>14, <2>3 DEF ReadLength, Hangup
    <3> QED BY <2>1, <3>1 DEF OrderInv, Lengths, Sent, Before
  <2> QED BY <2>2, <2>3
<1>15. CASE ReadPayload
  BY <1>15 DEF ReadPayload, OrderInv, Lengths, Sent, Before
<1>16. CASE ReadFails
  BY <1>16 DEF ReadFails, Hangup, OrderInv, Lengths, Sent, Before
<1>17. CASE SaveAlert
  BY <1>17 DEF SaveAlert, OrderInv, Lengths, Sent, Before
<1>18. CASE Broadcast
  <2> DEFINE s == frame[1]  n == frame[2]
  <2>1. frame \in Event /\ s \in Sender /\ n \in Nat /\ frame = <<s, n>> /\ frame # NoEvent
    BY <1>18, NoEventIsNone DEF Broadcast, Event
  <2>2. /\ UNCHANGED <<wire, pc, taken>> /\ frame' = NoEvent
        /\ seen' = [seen EXCEPT ![s] = Append(seen[s], n)]
    BY <1>18 DEF Broadcast
  <2>3. seen[s] \in Seq(Nat) /\ Len(seen[s]) \in Nat /\ seen'[s] = Append(seen[s], n)
    BY <2>1, <2>2
  <2>4. /\ DOMAIN seen'[s] = 1..Len(seen[s]) + 1 /\ seen'[s][Len(seen[s]) + 1] = n
        /\ \A k \in 1..Len(seen[s]) : seen'[s][k] = seen[s][k]
    <3> HIDE DEF TypeOK, ConnInv
    <3>1. /\ seen'[s] \in Seq(Nat) /\ Len(seen'[s]) = Len(seen[s]) + 1
          /\ seen'[s][Len(seen[s]) + 1] = n
          /\ \A k \in 1..Len(seen[s]) : seen'[s][k] = seen[s][k]
      BY <2>1, <2>3, AppendProperties
    <3>2. DOMAIN seen'[s] = 1..Len(seen'[s])
      BY <3>1, LenProperties
    <3> QED BY <3>1, <3>2
  <2>5. \A h \in Sender : h # s => seen'[h] = seen[h]
    BY <2>2
  <2> HIDE DEF s, n, TypeOK, ConnInv
  <2>6. ASSUME NEW h \in Sender, NEW k \in DOMAIN seen'[h]
        PROVE  Sent(<<h, seen'[h][k]>>) /\ \A i \in Lengths : Before(<<h, seen'[h][k]>>, wire[i][1])
    <3>1. CASE h = s /\ k = Len(seen[s]) + 1
      BY <2>1, <2>4, <3>1 DEF OrderInv
    <3>2. CASE h = s /\ k # Len(seen[s]) + 1
      <4>1. k \in DOMAIN seen[s] /\ seen'[s][k] = seen[s][k]
        BY <2>3, <2>4, <2>6, <3>2
      <4> QED BY <3>2, <4>1 DEF OrderInv
    <3>3. CASE h # s
      BY <2>5, <2>6, <3>3 DEF OrderInv
    <3> QED BY <3>1, <3>2, <3>3
  <2> QED BY <2>2, <2>6 DEF OrderInv, Lengths, Sent, Before
<1>19. CASE CancelEngine
  BY <1>19 DEF CancelEngine, OrderInv, Lengths, Sent, Before
<1>20. CASE Break
  BY <1>20 DEF Break, OrderInv, Lengths, Sent, Before
<1>21. CASE CancelBroker
  BY <1>21 DEF CancelBroker, OrderInv, Lengths, Sent, Before
<1>22. CASE RestartBroker
  BY <1>22 DEF RestartBroker, Hangup, OrderInv, Lengths, Sent, Before
<1>23. CASE UNCHANGED vars
  BY <1>23 DEF vars, OrderInv, Lengths, Sent, Before
<1> QED
  BY <1>1, <1>2, <1>3, <1>4, <1>5, <1>6, <1>7, <1>8, <1>9, <1>10, <1>11, <1>12, <1>13, <1>14, <1>15, <1>16, <1>17, <1>18, <1>19, <1>20, <1>21, <1>22, <1>23 DEF Next, SendEvent, Consume

LEMMA LinkInvariant == Spec => [](TypeOK /\ LinkInv)
<1>1. Init => TypeOK /\ LinkInv
  BY TypeInit, ConnInit, WireInit, OrderInit DEF LinkInv
<1>2. TypeOK /\ LinkInv /\ [Next]_vars => (TypeOK /\ LinkInv)'
  <2> SUFFICES ASSUME TypeOK, ConnInv, WireInv, OrderInv, [Next]_vars
               PROVE  TypeOK' /\ ConnInv' /\ WireInv' /\ OrderInv'
    BY DEF LinkInv
  <2> QED BY TypeStep, ConnStep, WireStep, OrderStep
<1> QED BY <1>1, <1>2, PTL DEF Spec

(* Every state of the link is well-typed and one goroutine at most holds   *)
(* the mutex.                                                              *)
THEOREM TypeCorrect == Spec => []TypeOK
  BY LinkInvariant, PTL

(* Publisher and consumer agree about the connection, the frames on it and *)
(* the order of its events.                                                *)
THEOREM LinkInOrder == Spec => []LinkInv
  BY LinkInvariant, PTL

(* The consumer never reads a frame from its middle.                       *)
THEOREM FramesAreWhole == Spec => []ReadsWholeFrames
<1>1. TypeOK /\ LinkInv => ReadsWholeFrames
  <2> SUFFICES ASSUME TypeOK, LinkInv, wire # << >> PROVE
        /\ consumer = "length" => Head(wire)[2] = "length"
        /\ consumer = "payload" => Head(wire) = <<frame, "data">>
    BY DEF ReadsWholeFrames
  <2>1. Head(wire) = wire[1]
    BY HalvesRead DEF TypeOK
  <2> QED BY <2>1 DEF LinkInv, WireInv, Follows, Prior
<1> QED BY <1>1, LinkInvariant, PTL

(* The broker processes the events of each goroutine in order, none twice: *)
(* the link implements the event feed.                                     *)
LEMMA FeedStep ==
    ASSUME TypeOK, ConnInv, OrderInv, [Next]_vars
    PROVE  [Feed!Next]_seen
<1>1. CASE Broadcast
  <2> DEFINE s == frame[1]  n == frame[2]
  <2>1. frame \in Event /\ s \in Sender /\ n \in Nat \ {0} /\ frame = <<s, n>> /\ frame # NoEvent
    BY <1>1, NoEventIsNone DEF Broadcast, ConnInv, Event
  <2>2. seen' = [seen EXCEPT ![s] = Append(@, n)]
    BY <1>1 DEF Broadcast
  <2>3. \A k \in DOMAIN seen[s] : seen[s][k] < n
    BY <2>1 DEF OrderInv, Before
  <2>4. n <= taken[s] /\ taken[s] <= MaxEvents[s] /\ taken[s] \in Nat
    BY <2>1 DEF OrderInv, Sent, TypeOK
  <2>5. s \in {"violations", "positions"}
    BY <2>1 DEF Sender
  <2>6. /\ MaxEvents["violations"] \in Nat /\ MaxEvents["positions"] \in Nat
        /\ MaxEvents[s] \in Nat
    BY <2>1, LinkAssumption DEF Sender
  <2>7. MaxEvents[s] = MaxEvents["violations"] \/ MaxEvents[s] = MaxEvents["positions"]
    BY <2>5
  <2> HIDE DEF s, n
  <2>8. n \in 1..(MaxEvents["violations"] + MaxEvents["positions"])
    BY <2>1, <2>4, <2>6, <2>7
  <2>9. Feed!Process(s, n)
    BY <2>2, <2>3 DEF Feed!Process
  <2> QED BY <2>1, <2>8, <2>9 DEF Feed!Next
<1>2. CASE ~Broadcast
  <2> USE DEF storeVars, consumerVars, publisherVars
  <2>1. ASSUME NEW g \in Sender, Take(g) \/ StopSender(g) \/ Lock(g) \/ SendEvent(g)
        PROVE  UNCHANGED seen
    BY <2>1 DEF Take, StopSender, Lock, SendEvent, Dial, DialFails, WriteLength, WriteData,
                WriteFails, WriteLine, WriteNewline
  <2>2. ASSUME Consume PROVE UNCHANGED seen
    BY <1>2, <2>2 DEF Consume, Check, ConsumerDial, Wake, ReadLength, ReadPayload, ReadFails,
                      SaveAlert
  <2>3. ASSUME CancelEngine \/ Break \/ CancelBroker \/ RestartBroker PROVE UNCHANGED seen
    BY <2>3 DEF CancelEngine, Break, CancelBroker, RestartBroker
  <2>4. ASSUME UNCHANGED vars PROVE UNCHANGED seen
    BY <2>4 DEF vars
  <2>5. UNCHANGED seen
    BY <2>1, <2>2, <2>3, <2>4 DEF Next
  <2> QED BY <2>5
<1> QED BY <1>1, <1>2

THEOREM LinkImplementsFeed == Spec => ImplementsEventFeed
<1>1. Init => Feed!Init
  BY DEF Init, Feed!Init
<1>2. TypeOK /\ LinkInv /\ [Next]_vars => [Feed!Next]_seen
  BY FeedStep DEF LinkInv
<1> QED BY <1>1, <1>2, LinkInvariant, PTL DEF Spec, ImplementsEventFeed, Feed!Spec

(* The history has every alert that was broadcast, unless the database     *)
(* refused it: what is about to be broadcast went to the table first.      *)
StoreInv ==
    /\ ShownAreStored
    /\ consumer = "broadcast" /\ frame[1] = "violations" => frame \in alerts \union refused

LEMMA StoreStep ==
    ASSUME StoreInv, [Next]_vars
    PROVE  StoreInv'
<1> USE DEF StoreInv, ShownAreStored, publisherVars, consumerVars, storeVars
<1>1. ASSUME NEW g \in Sender, Take(g) PROVE StoreInv'
  BY <1>1 DEF Take
<1>2. ASSUME NEW g \in Sender, StopSender(g) PROVE StoreInv'
  BY <1>2 DEF StopSender
<1>3. ASSUME NEW g \in Sender, Lock(g) PROVE StoreInv'
  BY <1>3 DEF Lock
<1>4. ASSUME NEW g \in Sender, Dial(g) PROVE StoreInv'
  BY <1>4 DEF Dial
<1>5. ASSUME NEW g \in Sender, DialFails(g) PROVE StoreInv'
  BY <1>5 DEF DialFails, Return
<1>6. ASSUME NEW g \in Sender, WriteLength(g) PROVE StoreInv'
  BY <1>6 DEF WriteLength, Written
<1>7. ASSUME NEW g \in Sender, WriteData(g) PROVE StoreInv'
  BY <1>7 DEF WriteData, Written, Return
<1>8. ASSUME NEW g \in Sender, WriteFails(g) PROVE StoreInv'
  BY <1>8 DEF WriteFails, Return
<1>9. ASSUME NEW g \in Sender, WriteLine(g) PROVE StoreInv'
  BY <1>9 DEF WriteLine
<1>10. ASSUME NEW g \in Sender, WriteNewline(g) PROVE StoreInv'
  BY <1>10 DEF WriteNewline
<1>11. CASE Check
  BY <1>11 DEF Check
<1>12. CASE ConsumerDial
  BY <1>12 DEF ConsumerDial
<1>13. CASE Wake
  BY <1>13 DEF Wake
<1>14. CASE ReadLength
  BY <1>14 DEF ReadLength, Hangup
<1>15. CASE ReadPayload
  BY <1>15 DEF ReadPayload
<1>16. CASE ReadFails
  BY <1>16 DEF ReadFails, Hangup
<1>17. CASE SaveAlert
  BY <1>17 DEF SaveAlert
<1>18. CASE Broadcast
  BY <1>18 DEF Broadcast
<1>19. CASE CancelEngine
  BY <1>19 DEF CancelEngine
<1>20. CASE Break
  BY <1>20 DEF Break
<1>21. CASE CancelBroker
  BY <1>21 DEF CancelBroker
<1>22. CASE RestartBroker
  BY <1>22 DEF RestartBroker, Hangup
<1>23. CASE UNCHANGED vars
  BY <1>23 DEF vars
<1> QED
  BY <1>1, <1>2, <1>3, <1>4, <1>5, <1>6, <1>7, <1>8, <1>9, <1>10, <1>11, <1>12, <1>13, <1>14, <1>15, <1>16, <1>17, <1>18, <1>19, <1>20, <1>21, <1>22, <1>23 DEF Next, SendEvent, Consume

THEOREM StoredBeforeShown == Spec => []ShownAreStored
<1>1. Init => StoreInv
  BY DEF Init, StoreInv, ShownAreStored
<1>2. StoreInv /\ [Next]_vars => StoreInv'
  BY StoreStep
<1>3. StoreInv => ShownAreStored
  BY DEF StoreInv
<1> QED BY <1>1, <1>2, <1>3, PTL DEF Spec
=============================================================================
