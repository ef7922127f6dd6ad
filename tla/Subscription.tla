---------------------------- MODULE Subscription ----------------------------
(***************************************************************************)
(* What the hub does for a subscriber (event-broker/hub.go 60-100): from   *)
(* the moment it joins it receives the messages the hub takes from its     *)
(* channel in order, each once and without a gap, until its connection     *)
(* ends, which the hub brings about when the subscriber falls behind.      *)
(* contracts/ws_messages.md 91 says otherwise of that case, that the       *)
(* oldest position batches are dropped: the code never does so.            *)
(***************************************************************************)
EXTENDS Integers, Sequences

CONSTANTS Client,      \* connections: one that ends does not come back
          Message

VARIABLES log,         \* every message taken from the channel
          start,       \* start[c]: how many were taken before c joined
          got          \* got[c]: the messages c has received

Outside == -1

Init == /\ log = << >>
        /\ start = [c \in Client |-> Outside]
        /\ got = [c \in Client |-> << >>]

Publish(m) == /\ log' = Append(log, m)
              /\ UNCHANGED <<start, got>>

Join(c) == /\ start[c] = Outside
           /\ start' = [start EXCEPT ![c] = Len(log)]
           /\ UNCHANGED <<log, got>>

(* The next messages after those c has, none skipped.                      *)
Receive(c, last) ==
    LET first == start[c] + Len(got[c]) + 1 IN
    /\ start[c] # Outside
    /\ last \in first..Len(log)
    /\ got' = [got EXCEPT ![c] = @ \o SubSeq(log, first, last)]
    /\ UNCHANGED <<log, start>>

Next == \/ \E m \in Message : Publish(m)
        \/ \E c \in Client : Join(c) \/ \E last \in 1..Len(log) : Receive(c, last)

Spec == Init /\ [][Next]_<<log, start, got>>
=============================================================================
