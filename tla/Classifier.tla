----------------------------- MODULE Classifier -----------------------------
(***************************************************************************)
(* The classification stage of the spatial engine (classifier.go): worker  *)
(* goroutines, each owning the vessels hashed to it, the exitDetector      *)
(* goroutine that sweeps all the trackers, the bounded violations channel  *)
(* and the publisher that drains it (event_publisher.go), zone reloads     *)
(* through the API and shutdown by context cancellation.                   *)
(*                                                                         *)
(* A step is one access to a channel, to a map or to the geofencer, so the *)
(* model has every interleaving of the goroutines.  Time is in units of    *)
(* the heartbeat interval; the sweep ticker may fire at any time from its  *)
(* first period on.                                                        *)
(***************************************************************************)
EXTENDS Geofencer

CONSTANTS Vessel,
          NumWorkers,          \* --workers
          ShardOf,             \* hashVesselID % numWorkers
          ZoneUpdate,          \* the zones POSTed and DELETEd while it runs
          WorkerCap,           \* 4096 records
          ViolationsCap,       \* 8192 events
          HeartbeatInterval,   \* 5 s
          StaleAfter,          \* 60 s
          SweepPeriod,         \* 30 s: the sweep ticker does not fire before
          MaxTime              \* bound: the clock stops here

Worker == 1..NumWorkers

ASSUME ClassifierAssumption ==
    /\ NumWorkers \in Nat \ {0}
    /\ ShardOf \in [Vessel -> Worker]
    /\ ZoneUpdate \subseteq Zone
    /\ WorkerCap \in Nat \ {0}
    /\ ViolationsCap \in Nat \ {0}
    /\ HeartbeatInterval \in Nat
    /\ StaleAfter \in Nat
    /\ SweepPeriod \in Nat
    /\ MaxTime \in Nat

VARIABLES now,          \* time.Now()
          cancelled,    \* ctx.Done() is closed
          crashed,      \* the Go runtime ended the process
          queue,        \* workers[w], the input channels
          pc, job, out, \* the worker goroutines: where, on what, which event
          tracked,      \* the vessels with an entry in their worker's tracker
          vesselZones,  \* vesselZones[v][z]: last seen time, or Absent
          cache,        \* the position cache: last position of each vessel
          sweep,        \* the exitDetector goroutine
          violations, closed,   \* the violations channel
          publishing,   \* the publisher still receives
          feed,         \* history: last event emitted for each pair
          received,     \* history: pairs whose last event the publisher took
          discarded,    \* history: pairs whose last event was dropped as oldest
          robbed,       \* history: workers that lost the slot they freed
          disturbed,    \* history: vessels whose tracking a sweep dropped
          reloaded      \* history: vessels not checked since a zone changed

workerVars == <<queue, pc, job, out>>
trackerVars == <<tracked, vesselZones>>
channelVars == <<violations, feed, received, discarded, robbed>>
lifeVars == <<cancelled, crashed, closed, publishing>>
vars == <<zones, now, workerVars, trackerVars, cache, sweep, channelVars,
          lifeVars, disturbed, reloaded>>

-----------------------------------------------------------------------------
Absent == -1
NoPosition == << >>
NoJob == [vessel |-> "", hits |-> {}, inside |-> {}]
NoEvent == [event |-> [vessel |-> "", zone |-> "", severity |-> "", kind |-> ""],
            seen |-> Absent]

Record == [vessel : Vessel, point : Point]
Job == [vessel : Vessel, hits : SUBSET Zone, inside : SUBSET ZoneID]
ViolationEvent == [vessel : Vessel, zone : ZoneID, severity : Severity \cup {""},
                   kind : {"ENTER", "HEARTBEAT", "EXIT"}]
(* An event being emitted, and what vesselZones holds once it is sent.     *)
Outgoing == [event : ViolationEvent, seen : Nat \cup {Absent}]
Sweep == [pc : {"wait", "visit", "zones", "expire", "unlink", "stopped"},
          threshold : Int, todo : SUBSET Vessel,
          vessel : Vessel \cup {""}, zone : ZoneID \cup {""}]

EmptyTracker == [z \in ZoneID |-> Absent]
IdleSweep == [pc |-> "wait", threshold |-> 0, todo |-> {}, vessel |-> "", zone |-> ""]

Init == /\ LoadFromFile
        /\ now = 0
        /\ cancelled = FALSE /\ crashed = FALSE /\ closed = FALSE
        /\ publishing = TRUE
        /\ queue = [w \in Worker |-> << >>]
        /\ pc = [w \in Worker |-> "idle"]
        /\ job = [w \in Worker |-> NoJob]
        /\ out = [w \in Worker |-> NoEvent]
        /\ tracked = {}
        /\ vesselZones = [v \in Vessel |-> EmptyTracker]
        /\ cache = [v \in Vessel |-> NoPosition]
        /\ sweep = IdleSweep
        /\ violations = << >>
        /\ feed = [v \in Vessel |-> [z \in ZoneID |-> "NONE"]]
        /\ received = {} /\ discarded = {} /\ robbed = {}
        /\ disturbed = {}
        /\ reloaded = {}

-----------------------------------------------------------------------------
(* A goroutine of a live process is at a place in its code.                *)
At(w, place) == ~crashed /\ pc[w] = place
SweepAt(place) == ~crashed /\ sweep.pc = place

(* Ingestion hands a record to its vessel's worker and drops it when that  *)
(* worker's queue is full (nothing changes then).  It does not look at the *)
(* context between two records of a batch, so records of the batch in hand *)
(* come after the cancellation too.                                        *)
Dispatch(v, p) ==
    LET w == ShardOf[v] IN
    /\ ~crashed
    /\ Len(queue[w]) < WorkerCap
    /\ queue' = [queue EXCEPT ![w] = Append(@, [vessel |-> v, point |-> p])]
    /\ UNCHANGED <<zones, now, pc, job, out, trackerVars, cache, sweep,
                   channelVars, lifeVars, disturbed, reloaded>>

(* Fault: currentHits keyed by the hit instead of its zone id.             *)
NewJobKeyedByHit(r) == [vessel |-> r.vessel, hits |-> Check(r.point),
                        inside |-> Check(r.point)]

(* The hits of a record, and currentHits, the set of their zone ids.       *)
NewJob(r) == [vessel |-> r.vessel, hits |-> Check(r.point),
              inside |-> {h.id : h \in Check(r.point)}]

(* A worker takes a record, stores the position and runs the geofence      *)
(* check.  Nothing another goroutine does between the two is seen by both. *)
Receive(w) ==
    /\ At(w, "idle")
    /\ queue[w] # << >>
    /\ LET r == Head(queue[w]) IN
       /\ cache' = [cache EXCEPT ![r.vessel] = r.point]
       /\ job' = [job EXCEPT ![w] = NewJob(r)]
       /\ reloaded' = reloaded \ {r.vessel}
    /\ queue' = [queue EXCEPT ![w] = Tail(@)]
    /\ pc' = [pc EXCEPT ![w] = "track"]
    /\ UNCHANGED <<zones, now, out, trackerVars, sweep, channelVars, lifeVars, disturbed>>

(* Look the vessel up in the tracker, making its zone map if it has none.  *)
Track(w) ==
    LET v == job[w].vessel IN
    /\ At(w, "track")
    /\ tracked' = tracked \cup {v}
    /\ vesselZones' = IF v \in tracked THEN vesselZones
                      ELSE [vesselZones EXCEPT ![v] = EmptyTracker]
    /\ pc' = [pc EXCEPT ![w] = "zones"]
    /\ UNCHANGED <<zones, now, queue, job, out, cache, sweep, channelVars,
                   lifeVars, disturbed, reloaded>>

(* The worker decides on an event for its vessel and turns to sending it.  *)
Announce(w, zone, severity, kind, seen) ==
    /\ out' = [out EXCEPT ![w] =
                 [event |-> [vessel |-> job[w].vessel, zone |-> zone,
                             severity |-> severity, kind |-> kind],
                  seen |-> seen]]
    /\ pc' = [pc EXCEPT ![w] = "emit"]

(* The next hit, in any order: a zone not tracked yet is an ENTER, one not *)
(* announced for HeartbeatInterval a HEARTBEAT, any other needs nothing.   *)
TakeHit(w, h) ==
    LET seen == vesselZones[job[w].vessel][h.id] IN
    /\ At(w, "zones")
    /\ h \in job[w].hits
    /\ job' = [job EXCEPT ![w].hits = @ \ {h}]
    /\ \/ seen = Absent /\ Announce(w, h.id, h.severity, "ENTER", now)
       \/ /\ seen # Absent /\ now - seen >= HeartbeatInterval
          /\ Announce(w, h.id, h.severity, "HEARTBEAT", now)
       \/ /\ seen # Absent /\ now - seen < HeartbeatInterval
          /\ UNCHANGED <<pc, out>>
    /\ UNCHANGED <<zones, now, queue, trackerVars, cache, sweep, channelVars,
                   lifeVars, disturbed, reloaded>>

(* Faults: no exit is ever found; a zone never entered is exited.          *)
ExitedNever(w) == {}
ExitedUntracked(w) == ZoneID \ job[w].inside

(* The tracked zones the record is no longer in.                           *)
Exited(w) == {z \in ZoneID \ job[w].inside : vesselZones[job[w].vessel][z] # Absent}

(* ZONE_EXIT carries no severity.                                          *)
FindExit(w, z) ==
    /\ At(w, "zones")
    /\ job[w].hits = {}
    /\ z \in Exited(w)
    /\ Announce(w, z, "", "EXIT", Absent)
    /\ UNCHANGED <<zones, now, queue, job, trackerVars, cache, sweep, channelVars,
                   lifeVars, disturbed, reloaded>>

FinishRecord(w) ==
    /\ At(w, "zones")
    /\ job[w].hits = {}
    /\ Exited(w) = {}
    /\ pc' = [pc EXCEPT ![w] = "idle"]
    /\ job' = [job EXCEPT ![w] = NoJob]
    /\ UNCHANGED <<zones, now, queue, out, trackerVars, cache, sweep, channelVars,
                   lifeVars, disturbed, reloaded>>

(* emitViolation: a non-blocking send; if the channel is full, a non-      *)
(* blocking receive that discards the oldest event, then a blocking send.  *)
Enqueue(w) ==
    LET e == out[w].event IN
    /\ Len(violations) < ViolationsCap
    /\ violations' = Append(violations, e)
    /\ feed' = [feed EXCEPT ![e.vessel][e.zone] = e.kind]
    /\ received' = received \ {<<e.vessel, e.zone>>}
    /\ discarded' = discarded \ {<<e.vessel, e.zone>>}
    /\ robbed' = (robbed \cup {u \in Worker : pc[u] = "send"}) \ {w}
    /\ pc' = [pc EXCEPT ![w] = "record"]

ChannelFull(w) == /\ Len(violations) = ViolationsCap
                  /\ pc' = [pc EXCEPT ![w] = "drop"]
                  /\ UNCHANGED channelVars

Emit(w) == /\ At(w, "emit")
           /\ Enqueue(w) \/ ChannelFull(w)
           /\ UNCHANGED <<zones, now, queue, job, out, trackerVars, cache, sweep,
                          lifeVars, disturbed, reloaded>>

(* Faults: the newest event goes; no event goes.                           *)
WithoutNewest(s) == IF s = << >> THEN s ELSE Front(s)
WithoutNone(s) == s

WithoutOldest(s) == IF s = << >> THEN s ELSE Tail(s)

(* The channel has an event of the pair other than its oldest.             *)
HasLater(v, z) == \E i \in DOMAIN violations :
                    i > 1 /\ violations[i].vessel = v /\ violations[i].zone = z

(* The pair whose last event the oldest is, if it is that of one.          *)
LastOfPair == {<<violations[i].vessel, violations[i].zone>> :
                 i \in {j \in DOMAIN violations :
                         j = 1 /\ ~HasLater(violations[j].vessel, violations[j].zone)}}

DropOldest(w) == /\ At(w, "drop")
                 /\ violations' = WithoutOldest(violations)
                 /\ discarded' = discarded \cup LastOfPair
                 /\ pc' = [pc EXCEPT ![w] = "send"]
                 /\ UNCHANGED <<zones, now, queue, job, out, trackerVars, cache, sweep,
                                feed, received, robbed, lifeVars, disturbed, reloaded>>

Send(w) == /\ At(w, "send")
           /\ Enqueue(w)
           /\ UNCHANGED <<zones, now, queue, job, out, trackerVars, cache, sweep,
                          lifeVars, disturbed, reloaded>>

(* After the send: remember when the zone was announced, or forget it.     *)
RecordSeen(w) ==
    LET e == out[w].event IN
    /\ At(w, "record")
    /\ vesselZones' = [vesselZones EXCEPT ![e.vessel][e.zone] = out[w].seen]
    /\ pc' = [pc EXCEPT ![w] = "zones"]
    /\ out' = [out EXCEPT ![w] = NoEvent]
    /\ UNCHANGED <<zones, now, queue, job, tracked, cache, sweep, channelVars,
                   lifeVars, disturbed, reloaded>>

Stop(w) == /\ At(w, "idle")
           /\ cancelled
           /\ pc' = [pc EXCEPT ![w] = "stopped"]
           /\ UNCHANGED <<zones, now, queue, job, out, trackerVars, cache, sweep,
                          channelVars, lifeVars, disturbed, reloaded>>

WorkerStep(w) ==
    \/ Receive(w) \/ Track(w)
    \/ \E h \in Zone : TakeHit(w, h)
    \/ \E z \in ZoneID : FindExit(w, z)
    \/ FinishRecord(w)
    \/ Emit(w) \/ DropOldest(w) \/ Send(w) \/ RecordSeen(w)

-----------------------------------------------------------------------------
(* exitDetector.  A range over a Go map visits every entry that is there   *)
(* throughout, and may or may not visit those added meanwhile (more).      *)
SweepStart(more) ==
    /\ SweepAt("wait")
    /\ now >= SweepPeriod
    /\ sweep' = [sweep EXCEPT !.pc = "visit", !.threshold = now - StaleAfter,
                              !.todo = tracked \cup more]
    /\ UNCHANGED <<zones, now, workerVars, trackerVars, cache, channelVars,
                   lifeVars, disturbed, reloaded>>

SweepVisit(v) ==
    /\ SweepAt("visit")
    /\ v \in sweep.todo \cap tracked
    /\ sweep' = [sweep EXCEPT !.pc = "zones", !.vessel = v, !.todo = @ \ {v}]
    /\ UNCHANGED <<zones, now, workerVars, trackerVars, cache, channelVars,
                   lifeVars, disturbed, reloaded>>

(* The visited vessel's zones last seen before the threshold.              *)
Stale(v) == {z \in ZoneID : vesselZones[v][z] \in 0..(sweep.threshold - 1)}

SweepFindStale(z) ==
    /\ SweepAt("zones")
    /\ z \in Stale(sweep.vessel)
    /\ sweep' = [sweep EXCEPT !.pc = "expire", !.zone = z]
    /\ UNCHANGED <<zones, now, workerVars, trackerVars, cache, channelVars,
                   lifeVars, disturbed, reloaded>>

(* The delete: no event is emitted, and the zone may have been seen again  *)
(* since it was found stale.                                               *)
SweepExpire ==
    /\ SweepAt("expire")
    /\ vesselZones' = [vesselZones EXCEPT ![sweep.vessel][sweep.zone] = Absent]
    /\ disturbed' = disturbed \cup {sweep.vessel}
    /\ sweep' = [sweep EXCEPT !.pc = "zones", !.zone = ""]
    /\ UNCHANGED <<zones, now, workerVars, tracked, cache, channelVars,
                   lifeVars, reloaded>>

(* The zones are all visited: test len(zones) == 0.                        *)
SweepZonesDone ==
    /\ SweepAt("zones")
    /\ Stale(sweep.vessel) = {}
    /\ sweep' = IF vesselZones[sweep.vessel] = EmptyTracker
                THEN [sweep EXCEPT !.pc = "unlink"]
                ELSE [sweep EXCEPT !.pc = "visit", !.vessel = ""]
    /\ UNCHANGED <<zones, now, workerVars, trackerVars, cache, channelVars,
                   lifeVars, disturbed, reloaded>>

(* A worker in the middle of a record of v holds v's zone map.             *)
Holds(w, v) == pc[w] \in {"zones", "emit", "drop", "send", "record"} /\ job[w].vessel = v

(* The vessel's entry is deleted.  If its worker holds the map, or filled  *)
(* it since the test, the map is orphaned: the next record makes another.  *)
SweepUnlink ==
    LET v == sweep.vessel IN
    /\ SweepAt("unlink")
    /\ tracked' = tracked \ {v}
    /\ disturbed' = IF Holds(ShardOf[v], v) \/ vesselZones[v] # EmptyTracker
                    THEN disturbed \cup {v} ELSE disturbed
    /\ sweep' = [sweep EXCEPT !.pc = "visit", !.vessel = ""]
    /\ UNCHANGED <<zones, now, workerVars, vesselZones, cache, channelVars,
                   lifeVars, reloaded>>

SweepDone == /\ SweepAt("visit")
             /\ sweep.todo \cap tracked = {}
             /\ sweep' = IdleSweep
             /\ UNCHANGED <<zones, now, workerVars, trackerVars, cache, channelVars,
                            lifeVars, disturbed, reloaded>>

SweepStop == /\ SweepAt("wait")
             /\ cancelled
             /\ sweep' = [sweep EXCEPT !.pc = "stopped"]
             /\ UNCHANGED <<zones, now, workerVars, trackerVars, cache, channelVars,
                            lifeVars, disturbed, reloaded>>

SweepStep == \/ \E v \in Vessel : SweepVisit(v)
             \/ \E z \in ZoneID : SweepFindStale(z)
             \/ SweepExpire \/ SweepZonesDone \/ SweepUnlink \/ SweepDone

-----------------------------------------------------------------------------
(* Run closes the channel when every goroutine it started has returned.    *)
Close == /\ ~crashed
         /\ ~closed
         /\ \A w \in Worker : pc[w] = "stopped"
         /\ SweepAt("stopped")
         /\ closed' = TRUE
         /\ UNCHANGED <<zones, now, workerVars, trackerVars, cache, sweep, channelVars,
                        cancelled, crashed, publishing, disturbed, reloaded>>

(* Fault: wait for three events, to send them together.                    *)
ReadyWhenThree(s) == Len(s) > 2

Ready(s) == s # << >>

(* The publisher's forwarding goroutine.  What it does with an event (a    *)
(* TCP frame, the fixture file) touches nothing here.                      *)
Publish == /\ ~crashed
           /\ publishing
           /\ Ready(violations)
           /\ violations' = Tail(violations)
           /\ LET e == Head(violations) IN
              received' = IF e.kind = feed[e.vessel][e.zone]
                          THEN received \cup {<<e.vessel, e.zone>>} ELSE received
           /\ UNCHANGED <<zones, now, workerVars, trackerVars, cache, sweep, feed,
                          discarded, robbed, lifeVars, disturbed, reloaded>>

StopPublishing ==
    /\ ~crashed
    /\ publishing
    /\ cancelled \/ (closed /\ violations = << >>)
    /\ publishing' = FALSE
    /\ UNCHANGED <<zones, now, workerVars, trackerVars, cache, sweep, channelVars,
                   cancelled, crashed, closed, disturbed, reloaded>>

(* SIGINT or SIGTERM.                                                      *)
Cancel == /\ ~crashed
          /\ ~cancelled
          /\ cancelled' = TRUE
          /\ UNCHANGED <<zones, now, workerVars, trackerVars, cache, sweep, channelVars,
                         crashed, closed, publishing, disturbed, reloaded>>

(* The clock, up to the bound MaxTime.                                     *)
Tick == /\ ~crashed
        /\ now < MaxTime
        /\ now' = now + 1
        /\ UNCHANGED <<zones, workerVars, trackerVars, cache, sweep, channelVars,
                       lifeVars, disturbed, reloaded>>

(* A zone posted or deleted through the API takes effect at once.          *)
ReloadZones == /\ ~crashed
               /\ \E z \in ZoneUpdate : AddZone(z) \/ RemoveZone(z.id)
               /\ reloaded' = Vessel
               /\ UNCHANGED <<now, workerVars, trackerVars, cache, sweep, channelVars,
                              lifeVars, disturbed>>

-----------------------------------------------------------------------------
(* The Go maps the next step of a goroutine touches: the tracker of a      *)
(* worker ("outer") or the zone map of a vessel ("inner").                 *)
Outer(w) == <<"outer", w>>
Inner(v) == <<"inner", v>>

WorkerReads(w) == CASE pc[w] = "track" -> {Outer(w)}
                    [] pc[w] = "zones" -> {Inner(job[w].vessel)}
                    [] OTHER -> {}
WorkerWrites(w) ==
    CASE pc[w] = "track" /\ job[w].vessel \notin tracked -> {Outer(w)}
      [] pc[w] = "record" -> {Inner(job[w].vessel)}
      [] OTHER -> {}
SweepReads == CASE sweep.pc = "visit" -> {Outer(w) : w \in Worker}
                [] sweep.pc = "zones" -> {Inner(sweep.vessel)}
                [] OTHER -> {}
SweepWrites == CASE sweep.pc = "expire" -> {Inner(sweep.vessel)}
                 [] sweep.pc = "unlink" -> {Outer(ShardOf[sweep.vessel])}
                 [] OTHER -> {}

Race(w) == \/ WorkerWrites(w) \cap (SweepReads \cup SweepWrites) # {}
           \/ SweepWrites \cap (WorkerReads(w) \cup WorkerWrites(w)) # {}

(* Unsynchronised accesses to one map, one of them a write: the Go runtime *)
(* may detect it and end the process ("fatal error: concurrent map ...");  *)
(* if it does not, the two accesses take effect in either order.           *)
MapRaceFatal == /\ ~crashed
                /\ \E w \in Worker : Race(w)
                /\ crashed' = TRUE
                /\ UNCHANGED <<zones, now, workerVars, trackerVars, cache, sweep,
                               channelVars, cancelled, closed, publishing,
                               disturbed, reloaded>>

Next == \/ \E v \in Vessel, p \in Point : Dispatch(v, p)
        \/ \E w \in Worker : WorkerStep(w) \/ Stop(w)
        \/ \E more \in SUBSET Vessel : SweepStart(more)
        \/ SweepStep \/ SweepStop
        \/ Publish \/ StopPublishing \/ Close
        \/ Cancel \/ Tick \/ ReloadZones
        \/ MapRaceFatal

Spec == Init /\ [][Next]_vars

(* Every goroutine but the ticker and the outside world keeps running; a   *)
(* Go select takes a ready ctx.Done() sooner or later (SF), and a blocked  *)
(* sender is served by the receive that frees a slot (SF).                 *)
Fairness ==
    /\ \A w \in Worker : /\ WF_vars(WorkerStep(w))
                         /\ SF_vars(Send(w))
                         /\ SF_vars(Stop(w))
    /\ WF_vars(SweepStep)
    /\ SF_vars(SweepStop)
    /\ WF_vars(Publish)
    /\ SF_vars(StopPublishing)
    /\ WF_vars(Close)

FairSpec == Spec /\ Fairness

-----------------------------------------------------------------------------
Emitting == {"emit", "drop", "send", "record"}

TypeOK ==
    /\ zones \in Seq(Zone)
    /\ now \in Nat
    /\ cancelled \in BOOLEAN /\ crashed \in BOOLEAN
    /\ closed \in BOOLEAN /\ publishing \in BOOLEAN
    /\ queue \in [Worker -> Seq(Record)]
    /\ pc \in [Worker -> {"idle", "track", "zones", "emit", "drop", "send",
                          "record", "stopped"}]
    /\ job \in [Worker -> Job \cup {NoJob}]
    /\ out \in [Worker -> Outgoing \cup {NoEvent}]
    /\ \A w \in Worker : /\ pc[w] \notin {"idle", "stopped"} => job[w] \in Job
                         /\ pc[w] \in Emitting => out[w] \in Outgoing
    /\ tracked \subseteq Vessel
    /\ vesselZones \in [Vessel -> [ZoneID -> Nat \cup {Absent}]]
    /\ cache \in [Vessel -> Point \cup {NoPosition}]
    /\ sweep \in Sweep
    /\ sweep.pc \in {"zones", "expire", "unlink"} => sweep.vessel \in Vessel
    /\ sweep.pc = "expire" => sweep.zone \in ZoneID
    /\ violations \in Seq(ViolationEvent)
    /\ feed \in [Vessel -> [ZoneID -> {"NONE", "ENTER", "HEARTBEAT", "EXIT"}]]
    /\ received \subseteq Vessel \X ZoneID /\ discarded \subseteq Vessel \X ZoneID
    /\ robbed \subseteq Worker
    /\ disturbed \subseteq Vessel
    /\ reloaded \subseteq Vessel

(* A visit of v to z has been announced and its exit has not.              *)
Open(v, z) == feed[v][z] \in {"ENTER", "HEARTBEAT"}

Processing(v) == pc[ShardOf[v]] \notin {"idle", "stopped"} /\ job[ShardOf[v]].vessel = v

(* The alert stream and the position cache tell the same story: between    *)
(* two records of a vessel, its open visits are exactly the zones that     *)
(* cover the cached position, whatever the sweeps, the overflow of the     *)
(* channel and the other workers did, until a sweep drops a zone it had or *)
(* a map its worker was filling (classifier.go 111-185).                   *)
AlertsMatchPositions ==
    \A v \in Vessel \ (disturbed \cup reloaded) :
        cache[v] # NoPosition /\ ~Processing(v)
        => {z \in ZoneID : Open(v, z)} = {h.id : h \in Check(cache[v])}

(* Of each pair the event emitted last is the last the channel holds, or   *)
(* the last the publisher received, or was dropped while it was the oldest *)
(* event: overflow never discards a newer event and keeps an older one,    *)
(* and nothing else is lost, whichever worker makes room.  The drop itself *)
(* may be too late: the publisher may have emptied a channel found full,   *)
(* and the oldest event then be one just sent (classifier.go 217-229).     *)
OverflowKeepsLatest ==
    \A v \in Vessel, z \in ZoneID :
        LET about == {i \in DOMAIN violations :
                        violations[i].vessel = v /\ violations[i].zone = z} IN
        IF about # {} THEN violations[Max(about)].kind = feed[v][z]
        ELSE feed[v][z] = "NONE" \/ <<v, z>> \in received \cup discarded

(* Heartbeats and exits are only emitted inside an open visit, in spite of *)
(* the sweeper deleting zones the worker is about to refresh or to exit.   *)
Alerts == INSTANCE AlertFeed

ImplementsAlertFeed == Alerts!Spec

(* Why it does, an inductive invariant: a worker only has vessels of its   *)
(* shard, so nothing else emits about them; a heartbeat or exit about to   *)
(* be sent, and every tracked zone, belongs to an open visit, except an    *)
(* exit already sent and not yet recorded.                                 *)
OwnVessels ==
    \A w \in Worker :
        /\ \A i \in DOMAIN queue[w] : ShardOf[queue[w][i].vessel] = w
        /\ pc[w] \notin {"idle", "stopped"} => ShardOf[job[w].vessel] = w
        /\ pc[w] \in Emitting => /\ out[w].event.vessel = job[w].vessel
                                 /\ out[w].event.kind = "EXIT" => out[w].seen = Absent

PendingInOpenVisit ==
    \A w \in Worker :
        LET e == out[w].event IN
        /\ pc[w] \in {"emit", "drop", "send"} /\ e.kind # "ENTER" => Open(e.vessel, e.zone)
        /\ pc[w] = "record" => feed[e.vessel][e.zone] = e.kind

TrackedInOpenVisit ==
    \A v \in Vessel, z \in ZoneID :
        LET w == ShardOf[v] IN
        vesselZones[v][z] # Absent
        => Open(v, z) \/ /\ pc[w] = "record"
                         /\ out[w].event.vessel = v /\ out[w].event.zone = z

FeedInv == OwnVessels /\ PendingInOpenVisit /\ TrackedInOpenVisit

(* The send after the drop finds no room only when another worker has sent *)
(* in between, and taken the slot the drop had freed (classifier.go        *)
(* 222-227): a worker alone never blocks.                                  *)
BlocksOnlyWhenRobbed ==
    \A w \in Worker :
        pc[w] = "send" /\ Len(violations) = ViolationsCap => w \in robbed

(* After cancellation Run returns and closes the violations channel, also  *)
(* when the publisher has left first (classifier.go 73-94).                *)
ShutdownCompletes == cancelled ~> (closed \/ crashed)

(* While the engine is not shutting down every record taken from a queue   *)
(* is processed to the end, however full the violations channel is.        *)
RecordsProcessed ==
    \A w \in Worker : pc[w] = "track" ~> (pc[w] = "idle" \/ cancelled \/ crashed)

-----------------------------------------------------------------------------
(* A statement of a comment of the code that does not hold.                *)

(* classifier.go:38, a tracker is never touched by two goroutines at once. *)
TrackersNotShared == \A w \in Worker : ~Race(w)

(* What of it does hold: no two workers ever touch one map, as a vessel's  *)
(* records all go to one worker (ingestion.go 94-107, classifier.go       *)
(* 111-185); ...                                                           *)
WorkersNeverRace ==
    \A w1, w2 \in Worker :
        w1 # w2 => WorkerWrites(w1) \cap (WorkerReads(w2) \cup WorkerWrites(w2)) = {}

(* ... and the process cannot end for a shared map before the first sweep  *)
(* (classifier.go 192-203).                                                *)
SafeBeforeSweep == now < SweepPeriod => ~crashed

(* No goroutine sends on the violations channel once it is closed: it      *)
(* would panic (classifier.go 92-93, 217-229).                             *)
ClosedIsQuiet == closed => \A w \in Worker : pc[w] = "stopped"
=============================================================================
