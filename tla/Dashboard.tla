----------------------------- MODULE Dashboard ------------------------------
(***************************************************************************)
(* One browser tab (dashboard/src): the history and the stream it gets     *)
(* from the broker.  The pipeline and the alert table are the broker's; of *)
(* its hub there is the channel that Broadcast fills, the tab's place      *)
(* among the clients and the frames it may join messages in (Hub has the   *)
(* goroutines).  Toasts, filters and the zone overlay are left out.        *)
(***************************************************************************)
EXTENDS AlertStore

CONSTANTS MaxAlerts,     \* MAX_ALERTS, 500
          None,          \* no alert
          BroadcastCap,  \* the hub's broadcast channel, 1024 messages
          WireCap,       \* frames in the tab's send buffer and on the wire
          FrameCap       \* bound: messages in a frame

ASSUME BoundAssumption == /\ MaxAlerts \in Nat \ {0}
                          /\ BroadcastCap \in Nat \ {0}
                          /\ WireCap \in Nat \ {0}
                          /\ FrameCap \in Nat \ {0}
                          /\ None \notin Row

VARIABLES handled, inHand,    \* pipeline: alerts taken; saved, not yet broadcast
          backlog,            \* hub: its broadcast channel
          client, frames,     \* hub: the tab is yet to register ("none"), registered
                              \* ("in") or forgotten ("out"); frames sent to it
          socket, alerts,     \* tab: its socket, store.alerts,
          load,               \* the initial GET /api/alerts
          missed,             \* history: alerts that need not be on the list,
          subscribed          \* whether the hub had the tab when the query ran

broker == <<table, handled, inHand, backlog, client, frames>>
tab == <<socket, alerts, load>>
history == <<missed, subscribed>>
vars == <<broker, tab, history>>

-----------------------------------------------------------------------------

Init == /\ table = {} /\ handled = {} /\ inHand = None /\ backlog = << >>
        /\ client = "none" /\ frames = << >>
        /\ socket = "connecting" /\ alerts = << >>
        /\ load = [state |-> "asked", body |-> << >>]
        /\ missed = {} /\ subscribed = FALSE

TakeOneMore(s, n) == SubSeq(s, 1, Min({n + 1, Len(s)}))
Take(s, n) == SubSeq(s, 1, Min({n, Len(s)}))

-----------------------------------------------------------------------------
(* The broker.                                                             *)

(* A failed save is printed and the alert is broadcast all the same.       *)
HandleViolation(r) ==
    /\ inHand = None /\ r \notin handled
    /\ handled' = handled \cup {r}
    /\ inHand' = r
    /\ SaveAlert(r) \/ UNCHANGED table
    /\ UNCHANGED <<backlog, client, frames, tab, history>>

AlertsIn(ms) == {ms[i].payload : i \in {j \in DOMAIN ms : ms[j].type = "ALERT"}}

(* Hub.Broadcast does not block: a message that the channel has no room    *)
(* for is dropped.                                                         *)
Offer(m) ==
    \/ /\ Len(backlog) < BroadcastCap
       /\ backlog' = Append(backlog, m)
       /\ UNCHANGED missed
    \/ /\ Len(backlog) >= BroadcastCap
       /\ missed' = missed \cup AlertsIn(<< m >>)
       /\ UNCHANGED backlog

BroadcastAgain == /\ inHand # None
                  /\ Offer([type |-> "ALERT", payload |-> inHand])
                  /\ UNCHANGED <<table, handled, inHand, client, frames, tab, subscribed>>

Broadcast == /\ inHand # None
             /\ Offer([type |-> "ALERT", payload |-> inHand])
             /\ inHand' = None
             /\ UNCHANGED <<table, handled, client, frames, tab, subscribed>>

(* The engine's batch: its payload has snapshots, not vessels.             *)
HandlePositionBatch ==
    /\ inHand = None
    /\ Offer([type |-> "POSITION_BATCH", payload |-> "snapshots"])
    /\ UNCHANGED <<table, handled, inHand, client, frames, tab, subscribed>>

(* Fault: a tab whose buffer is full misses the message and stays.         *)
StreamSkips(m) ==
    \/ client # "in" /\ UNCHANGED <<client, frames, missed>>
    \/ /\ client = "in" /\ Len(frames) < WireCap
       /\ frames' = Append(frames, << m >>)
       /\ UNCHANGED <<client, missed>>
    \/ /\ client = "in" /\ Len(frames) >= WireCap
       /\ UNCHANGED <<client, frames, missed>>

(* What a message the hub takes from its channel does for the tab: if it   *)
(* is no client, nothing; else it goes in a frame of its own, or joins the *)
(* last one when others were queued, or finds the buffer full and the hub  *)
(* forgets the tab, which still gets what was sent before.                 *)
Stream(m) ==
    \/ client # "in" /\ UNCHANGED <<client, frames, missed>>
    \/ /\ client = "in" /\ Len(frames) < WireCap
       /\ frames' = Append(frames, << m >>)
       /\ UNCHANGED <<client, missed>>
    \/ /\ client = "in" /\ frames # << >> /\ Len(Last(frames)) < FrameCap
       /\ frames' = ReplaceAt(frames, Len(frames), Append(Last(frames), m))
       /\ missed' = missed \cup AlertsIn(Last(frames'))
       /\ UNCHANGED client
    \/ /\ client = "in" /\ Len(frames) >= WireCap
       /\ client' = "out"
       /\ UNCHANGED <<frames, missed>>

HandOut == /\ backlog # << >>
           /\ Stream(Head(backlog))
           /\ backlog' = Tail(backlog)
           /\ UNCHANGED <<table, handled, inHand, tab, subscribed>>

(* The hub takes the tab from its register channel, before or after the    *)
(* tab sees the upgrade.                                                   *)
Join == /\ client = "none" /\ socket # "closed"
        /\ client' = "in"
        /\ UNCHANGED <<table, handled, inHand, backlog, frames, tab, history>>

-----------------------------------------------------------------------------
(* The stream in the tab.                                                  *)

Open == /\ socket = "connecting"
        /\ socket' = "open"
        /\ UNCHANGED <<broker, alerts, load, history>>

(* onclose and onerror: the tab does not connect again.                    *)
Close == /\ socket # "closed"
         /\ socket' = "closed"
         /\ client' = "out" /\ frames' = << >>
         /\ UNCHANGED <<table, handled, inHand, backlog, alerts, load, history>>

(* JSON.parse throws on joined envelopes: none of them arrives.            *)
Parsed(frame) == {frame[i] : i \in {j \in DOMAIN frame : Len(frame) = 1}}

PushAlert(r) == alerts' = Take(<< r >> \o alerts, MaxAlerts)

(* upsertVessels throws on a batch without vessels, which leaves all as it *)
(* was.                                                                    *)
Dispatch(m) ==
    \/ /\ m.type = "ALERT"
       /\ PushAlert(m.payload)
       /\ missed' = IF load.state \in {"asked", "answered"} THEN missed \cup {m.payload} ELSE missed
    \/ /\ m.type = "POSITION_BATCH"
       /\ UNCHANGED <<alerts, missed>>

OnMessage ==
    /\ socket = "open" /\ frames # << >>
    /\ frames' = Tail(frames)
    /\ \/ \E m \in Parsed(Head(frames)) : Dispatch(m)
       \/ Parsed(Head(frames)) = {} /\ UNCHANGED <<alerts, missed>>
    /\ UNCHANGED <<table, handled, inHand, backlog, client, socket, load, subscribed>>

-----------------------------------------------------------------------------
(* The initial history.                                                    *)

AnswerLoad == /\ load.state = "asked"
              /\ \E s \in HandleGetAlerts(NoParameters) :
                    /\ load' = [state |-> "answered", body |-> s]
                    /\ missed' = missed \cup (table \ ToSet(s))
              /\ subscribed' = (client = "in")
              /\ UNCHANGED <<broker, socket, alerts>>

(* Array.sort is stable: alerts of one ts keep their order.                *)
SetInitialAlerts(s) ==
    \E p \in SetToSeqs(DOMAIN s) :
      /\ \A i, j \in DOMAIN s : i < j =>
           \/ s[p[i]].ts > s[p[j]].ts
           \/ s[p[i]].ts = s[p[j]].ts /\ p[i] < p[j]
      /\ alerts' = Take([i \in DOMAIN s |-> s[p[i]]], MaxAlerts)

ShowLoad == /\ load.state = "answered"
            /\ SetInitialAlerts(load.body)
            /\ load' = [state |-> "shown", body |-> << >>]
            /\ UNCHANGED <<broker, socket, history>>

(* No connection, a status that is not ok, a body that breaks off.         *)
LoadFails == /\ load.state \in {"asked", "answered"}
             /\ load' = [state |-> "failed", body |-> << >>]
             /\ UNCHANGED <<broker, socket, alerts, history>>

-----------------------------------------------------------------------------

Next == \/ \E r \in Row : HandleViolation(r)
        \/ Broadcast \/ HandlePositionBatch \/ HandOut \/ Join
        \/ Open \/ Close \/ OnMessage
        \/ AnswerLoad \/ ShowLoad \/ LoadFails

Spec == Init /\ [][Next]_vars

-----------------------------------------------------------------------------

TypeOK ==
    /\ table \subseteq handled /\ handled \subseteq Row
    /\ inHand \in handled \cup {None}
    /\ AlertsIn(backlog) \subseteq handled /\ Len(backlog) <= BroadcastCap
    /\ client \in {"none", "in", "out"}
    /\ \A i \in DOMAIN frames : AlertsIn(frames[i]) \subseteq handled
    /\ socket \in {"connecting", "open", "closed"}
    /\ alerts \in Seq(handled) /\ Len(alerts) <= MaxAlerts
    /\ load.state \in {"asked", "answered", "shown", "failed"} /\ load.body \in Seq(table)
    /\ missed \subseteq handled /\ subscribed \in BOOLEAN

(* History and stream meet: when the hub had the tab before the query ran  *)
(* and still has it, every stored alert is on the list once nothing is on  *)
(* its way (store.go saves before hub.Broadcast, pipeline.go 73-82), with  *)
(* these exceptions and no other: the list is cut at MAX_ALERTS, the       *)
(* answer was cut at its limit (store.go 124-129), setInitialAlerts        *)
(* overwrote the alert (store.ts 29-32), its frame was joined with others  *)
(* (hub.go 145-149), or the hub's channel was full (hub.go 93-97).         *)
Settled == /\ load.state = "shown" /\ socket = "open" /\ client = "in"
           /\ frames = << >> /\ backlog = << >> /\ inHand = None

HistoryAndStreamMeet ==
    Settled /\ subscribed /\ Len(alerts) < MaxAlerts
      => table \subseteq ToSet(alerts) \cup missed

(* The stream shows an alert once, and history and stream together at most *)
(* twice, whatever arrives between the query and its answer: the page keys *)
(* its list by alert_id (App.tsx 246-248).                                 *)
Times(r) == Cardinality({i \in DOMAIN alerts : alerts[i] = r})

StreamShowsOnce ==
    \A r \in handled : Times(r) <= (IF load.state = "shown" THEN 2 ELSE 1)
=============================================================================
