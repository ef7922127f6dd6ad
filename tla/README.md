# AISentry in TLA+

This directory holds TLA+ models of AISentry, a pipeline that watches simulated
ship traffic for geofence violations, the TLC configurations that check them,
and TLAPS proofs of the properties that matter most. Every definition is
translated from the Go or TypeScript source; `PROJECT.json` names, for each one,
the file and the lines it stands for.

    simulator --UDP 9001--> spatial-engine --TCP 9100--> event-broker --WS 9003--> dashboard
                             REST 9002 (zones)           REST 9003 (alerts, SQLite)

The engine and the broker both *dial* port 9100, and nothing in the repository
but the stand-in `mock-event-source` listens there: for an event to cross, some
event bus has to accept both connections and join them. The models of the link
assume one, marked external.

## Inventory

| Component (source) | State | Operations | Talks to |
|---|---|---|---|
| simulator engine (`simulator/engine.go`, `main.go`) | per worker: a shard of vessels, a reused batch buffer, a sequence number; shared counters | tick, fill and send a batch, flush, stop | transport |
| simulator transport (`transport.go`) | UDP socket, TCP connection or file; a mutex; counters | send a batch | spatial-engine |
| vessel movement (`vessel.go`, `zones.go`) | position, course, route and next waypoint | tick of a normal vessel, of a scripted violator | engine |
| AIS codec (`simulator/proto/ais.go`) | none | MarshalBinary, UnmarshalBinary | engine, ingestion |
| ingestion (`spatial-engine/ingestion.go`) | the socket, the batch being dispatched, worker queues | read a datagram, validate a record, hash it to a worker, drop it if the queue is full, stop | classifier |
| classifier (`classifier.go`) | per-worker trackers `vesselZones[v][z]`, violations channel | worker loop (ENTER, HEARTBEAT, EXIT), exitDetector sweep, drop-oldest emission, Run/close | geofencer, position cache, publisher |
| geofencer (`geofencer.go`) | the slice of zones under an RWMutex | load file, add, remove, list, check | zone API, classifier |
| zone API (`api.go`) | none of its own | GET, POST, DELETE | geofencer |
| position cache (`position_cache.go`) | sync.Map of entries, atomic counter | Update, Get, evictExpired, Snapshot | classifier, publisher |
| event publisher (`event_publisher.go`) | TCP connection under a mutex, fixture file | forward violations, flush positions at 10 Hz, reconnect | broker |
| metrics (`metrics.go`) | atomic counters | increment, print, export | all of the engine |
| consumer (`event-broker/consumer.go`) | TCP connection, back-off | dial, read frames, reconnect | pipeline |
| pipeline (`pipeline.go`) | none of its own | violation: save, broadcast; positions: broadcast | store, hub |
| alert store (`store.go`) | SQLite table of alerts | save, query | pipeline, alerts API |
| hub (`hub.go`) | the map of clients; register, unregister, broadcast channels; per client a send channel and two pumps | Run loop, HandleWebSocket, readPump, writePump, Broadcast | pipeline, dashboards |
| alerts API (`event-broker/api.go`) | none | GET alerts | store |
| broker main (`event-broker/main.go`) | context, WaitGroup | start, signal, wait | all of the broker |
| dashboard store and client (`dashboard/src/store.ts`, `ws.ts`, `api.ts`) | vessels, alerts, zones, statistics, socket | connect, dispatch by message type, initial queries, zone refreshes | hub, REST |
| dashboard interface (`App.tsx`) | React state | timers, rendering | store |
| stand-ins (`mock-event-source`, `mock-ws-server`, `mock-stream-server.mjs`) | generated data | replay | tests by hand |

The contracts under `src/contracts/` (`ws_messages.md`, `rest_api.md`,
`spatial_event.proto`, `demo_zones.json`) say what the parts promise each other.

What is hard about it: the engine is a set of goroutines that share maps,
channels and counters, some with locks, some (the trackers) without; channels are
bounded and each has its own policy when full (drop the new record, drop the
oldest event, drop the client, block); connections end from either side while
messages are on their way; a signal stops all of it at once, in no particular
order. `PROJECT.json` lists these hazards one by one, with the source line and
the property that covers each, or the reason none does yet.

What makes each component correct:

* zones: the table is keyed by id, and an id answered "deleted" has no active
  zone left; a check finds the zones whose area a position is in, and no position
  belongs to both of two adjacent zones;
* classifier: per vessel and zone the events form visits, ENTER HEARTBEAT* EXIT;
  open visits agree with the positions; overflow loses old events, not new ones;
  it neither blocks nor loses its way at shutdown;
* position cache: never an older position for a newer one; a stored position stays
  until it expires; a flush is complete; silent vessels leave; the counter counts;
* hub: no panic on a closed channel, each subscriber gets the stream without a
  gap until its connection ends, ended connections are forgotten, the hub never
  waits for a client;
* event link: frames are read whole, events are processed in order and none
  twice, the history has what dashboards are shown, both ends stop on a signal;
* alert history and dashboard: between the initial query and the stream no stored
  alert is missed but for reasons that can be named, none is listed again and
  again, a long history can be paged without gaps;
* position feed (simulator, transport, codec, ingestion): a classification worker
  sees reports that were made, unaltered, those of one vessel in order unless the
  network or the flush repeats or overtakes them; frames are whole, every
  batch is counted, and both processes stop on their signal;
* vessel movement: a scripted violator visits the zones of its route round after
  round, a normal vessel stays in its area.

## Modules

| Module | Models | Abstract specification |
|---|---|---|
| `Geometry` | bounding box and ray casting | an area test by triangles (operators in the module) |
| `Geofencer` | the zone slice and its locked methods, over `Geometry` | |
| `ZoneAPI` | the REST handlers over it | `ZoneRegistry` (a table keyed by id) |
| `Classifier` | workers, exitDetector, violations channel, the publisher's drain, zone reloads, shutdown | `AlertFeed` (visits) |
| `Hub` | the Run loop, the HTTP handler, both pumps of each connection | `Subscription` (a stream without gaps, while the connection lives) |
| `PositionCache` | Update, Get, eviction, Snapshot and the flush | |
| `EventLink` | sendEvent with its mutex and the fixture file, the TCP stream, the consumer, the pipeline, the alerts table, restarts of the broker | `EventFeed` (events in order, none twice) |
| `AlertStore` | the alert table, its query and the handler of `GET /api/alerts`; what reading it page by page gives | |
| `Dashboard` | one browser tab: initial query, stream, alert list; with the pipeline and, of the hub, its channel and the tab's frames | |
| `AISCodec` | the binary encoding of batches | |
| `Transport` | the senders, as called by several workers; over `AISCodec` | |
| `SimEngine` | the simulator's workers and their batches; over `Transport` | |
| `Ingestion` | the UDP listener; over `AISCodec` | |
| `Feed` | simulator, network and ingestion together | `PositionLog` (reports of a vessel in order) |
| `Voyage` | one vessel, the routes and the demo zones; over `Geometry` | |
| `ZoneAPIProofs`, `ClassifierProofs`, `HubProofs`, `PositionCacheProofs`, `EventLinkProofs`, `DashboardProofs`, `FeedProofs`, `VoyageProofs` | the theorems | |
| `MC*` | instances for TLC | |

`ZoneAPI` and `Classifier` both extend `Geofencer`: the first drives it with
requests, the second with records and with reloads that may come between any two
steps of a worker.

Conventions. A Go function that another goroutine can observe half-way is
several actions, one per access to shared state, and a program counter says
where it is; one that holds a mutex throughout is a single action. Names are
those of the source. A definition under a comment *Fault* is not part of the
model: it is the definition that follows it with a plausible mistake in it, and
`PROJECT.json` names the property that finds the mistake. Variables marked
*history* record what happened for the sake of a property; no guard reads them.

### Geometry, Geofencer and ZoneAPI

`Geometry` is on an integer grid. A polygon is the sequence of its vertices,
closed or open, as in the JSON. `Crosses` is the comparison of `pointInPolygon`
with both sides multiplied by `yj - yi`, so the quotient is exact; in Go it is
rounded, which can only matter for positions within rounding error of an edge.
`InArea` is an independent definition (an odd number of the triangles that fan
out from a vertex), against which `ChecksMatchAreas` compares the whole of
`Check` for positions off the lines through two vertices. On those lines ray casting
has its own rule, half-open intervals, and what it must give is that a zone
cut in two, as adjacent zones are, has no position in both halves and
none in neither: `CutsShareNoPosition`.

`Check(p)` is the set of zones that cover `p`: the two tests and the loop
around them. `Put` and `Without` are the loops of `AddZone` and
`RemoveZone`, which stop at the first zone with the id. The state of `ZoneAPI`
is the slice and the last answer. `ZoneFile` gives the files the engine may be
started with; a file that is missing or malformed leaves the slice empty, as
`main.go` goes on after the error.

### Classifier

`pc[w]` walks through `workerLoop`: `idle` (the select), `track` (the look-up in
the tracker), `zones` (the two loops), `emit`, `drop`, `send` (emitViolation: a
non-blocking send, a non-blocking receive, a blocking send) and `record` (the
assignment after the emission). `sweep.pc` does the same for `exitDetector`.
Both read and write `tracked` (the outer map of a worker's tracker) and
`vesselZones` (the inner maps) with no lock between them, so those accesses
interleave freely; `Race` says when two of them clash, and `MapRaceFatal` is
the Go runtime's answer to that, which may or may not come. An inner map that the
sweep unlinks while a worker holds it becomes unreachable: the vessel's next
record makes a new one.

Events are abstracted to vessel, zone, severity and kind. Time is in units of
the heartbeat interval. Ranging over a Go map visits all entries that are there
throughout and any subset of those added during the range: the argument `more`
of `SweepStart` is that subset, and likewise in `PositionCache`.

Three history variables follow the channel: `received` and `discarded` name the
pairs of vessel and zone whose last event the publisher took, or a worker dropped
while it was the oldest, and `robbed` the workers that freed a slot which another
worker then took. `Dispatch` stands for the ingestion, which goes on with the
batch in hand after a cancellation.

### PositionCache

Each step is one operation on the `sync.Map` or on the atomic counter. A
vessel's updates come from the one worker it is hashed to, so they follow each
other; everything else interleaves. A position is the number of the report it came
from. `flush` is the position flush of the publisher: Snapshot, then the
`ActiveVessels` gauge unless the snapshot is empty. `Doomed` are the keys that
Get or the eviction has found expired and will delete; the history variable
`settled` names the vessels whose latest position was stored when no such delete
was on its way, and of those `KeptUntilExpired` says that the position stays.

### Hub

`todo` is the rest of the hub's loop over its clients during a broadcast; the hub
is at its `select` when it is empty. Each element of `Client` is one connection
with its handler, its two pumps (`reader`, `writer`), its `send` channel (`closes`
counts the closes: two would be a panic, and so would a send after one) and both
ends of the socket. The writer takes a message, counts what is queued, takes as
many more into the same frame and writes it: four kinds of step, with the hub
and the reader running in between. A write succeeds, or fails for one of the
reasons a socket has (deadline, peer gone, closed by the other pump).

### EventLink

`pc[g]` follows each of the publisher's two goroutines through `sendEvent`
(`lock`, `dial`, `length`, `data`) and the two writes to the fixture file. `conn`
is the publisher's view of the connection and `link` the consumer's: after a
`Break`, a `Hangup` or a restart the publisher holds a `stale` connection, to
which writes succeed for a while before one fails. `wire` is what the socket
buffers hold, in halves: the length of an event or its data. A write to full
buffers blocks, as no deadline is set. The consumer reads what arrived before a
connection was cut, or not: `ReadFails` is enabled throughout.

The alerts table survives `RestartBroker`, which stands for any end of the
broker process and its next start. The goroutine that `readStream` leaves behind
per connection is not a state of its own: all of them act once, on cancellation,
and then only the newest has a connection to close.

### AlertStore and Dashboard

`QueryAlerts` is the set of answers the SELECT may give: rows of one timestamp
come in any order. A parameter that is missing or not a number is `Absent`.
A history longer than a page is read by asking again up to the last timestamp of a full
page: `NoGap` says that two pages in a row leave out nothing between them, `GoesBack`
that the second is older, as long as fewer rows than fill a page have one timestamp.

`Dashboard` is a tab beside the broker's pipeline (`HandleViolation` saves,
`Broadcast` hands to the hub). `Offer` is `Hub.Broadcast`, which drops a message for
which the channel of the hub, `backlog`, has no room. `client` is the hub's view of
the tab, `socket` the tab's own, and either may come first; a tab whose buffer is
full is forgotten by the hub. `frames` is what the hub has sent,
and a message may join the frame before it, as `writePump` does. `load` follows
the initial query: asked, answered by the database, shown by the tab; the stream
goes on in between. A frame the tab cannot parse has no effect, and
neither has a position batch: the engine's payload has `snapshots` where the
dashboard reads `vessels`, so `upsertVessels` throws before it stores anything.
A stored alert may be missing from the list of a tab that the hub had before the query
ran and still has, for these reasons: the list is cut at `MAX_ALERTS`; the limit
of the answer cut it off; the answer overwrote it, since it came before the answer
was shown; its frame was joined with others; or the channel of the hub was full. The last four
are collected in the history variable `missed`, and `HistoryAndStreamMeet` says that there is
no other reason.

### AISCodec, Transport, SimEngine, Ingestion, Feed

A byte is a digit to the base `ByteBase`, a number the digits of its
little-endian form, of a float those of its bits; the widths of the fields are
constants, 4 and 8 in the code. `UnmarshalBinary` is a set, empty where the code
returns `ErrTooShort`. The bytes are there on the wire and in the stream: what
the ingestion dispatches is decoded from what a worker encoded.

`SimEngine` follows `workerLoop`. Between two calls of the sender a worker
touches only its own vessels and its own batch, so filling a batch is one step.
`ReportOf[i][n]` is what `Tick` of vessel i returns the n-th time. The records
stay in the batch after a call, as in the code, and are what `Flush` sends at
cancellation. `Transport` follows a call of `Send` from there: over UDP one write;
over TCP or to a file (`mode = "stream"`, one model for two senders that have the
same code) the mutex, the length and the data. A write fails before its
first byte or after it, and the call returns the error; the next call goes on
in the same stream, which is misframed from then on (`FramesWhole` speaks of
streams without a failed write).

`Ingestion` is `Run` with the goroutine that closes its socket. A batch is
dispatched record by record, while the classification workers take from their
queues. `Feed` joins the two processes by `wire`, the datagrams on their way:
`Deliver` takes any of them, and one may be lost when it is written or stay for
ever. `PositionLog` is what is promised of that: the history variable `seen` is the
report a worker took last of a vessel, and only a vessel in `disordered`, one
that had a datagram overtaken or flushed again, may go back. Nothing in the repository
reads the stream; `WholeFrames` is what a reader would do.

### Voyage

One vessel, normal or a scripted violator, since vessels do not see each other.
Positions are on a grid of quarter degrees, on which all waypoints and zone borders
lie. A step of the model is as many ticks as the vessel takes to the next grid
line: it moves less than 0.0004 degrees a tick (25 knots, batches at least once a
second), far less than the 0.005 degrees within which a waypoint counts as
reached, so it does not jump over one. The way between waypoints is any on which both
coordinates approach the target: the code steers by a bearing on the plane and
moves on the sphere, so its way is bent. The
demo zones and the routes are those of `zones.go`, with the zones that its comments
name for each route; the geofencer's `Covers` decides what is inside.
`KeepsToItsWaters` says where a vessel may be seen at all: a normal one in its area, whatever
its course and however it is put back at a border, and a violator, on any such way between its
waypoints and in any round, outside every demo zone that its route does not name.

## Runs

Passing runs:

| Run | Shows |
|---|---|
| `zone_api` | from any file without repeated ids, every answer is that of a table keyed by id; checks find the zones whose area a position is in, and no position is in both halves of a zone that is cut in two |
| `classifier_edges` | one worker against sweep, reload, full channel and shutdown: the events are visits and agree with the positions |
| `classifier_pair` | two workers on one full channel: the last event of a vessel and zone is in the channel, received, or was discarded as the oldest event; a send after a drop finds no room only if the other worker took the slot; no record is stuck while the publisher runs |
| `hub` | two connections that come and go during broadcasts: no panic, no gap while a connection lives, ended connections are forgotten, accepted broadcasts are handed out |
| `cache` | one vessel, one reader, eviction and flush: the counter never reports too many, no old position returns, a stored position stays until it expires unless a delete was decided before it was stored, a flush is complete, a silent vessel leaves |
| `link` | two senders, an oversize frame between two others, breaks and restarts at any moment: whole frames, in order, none twice, history complete, both ends stop |
| `dashboard` | a tab that loads the history while it joins the stream, with failing saves and requests and a connection that may close: no stored alert is missed but for the five reasons above, none is listed a third time; for every table of the rows and every query, a page that is not full is complete and a full one is followed by one without a gap |
| `feed` | two simulator workers and the ingestion over a lossy, reordering network, or a stream whose writes fail: reports are seen unaltered and in order (but for the known exceptions), batches decode, and cut short do not, frames are whole, every batch is counted once, both processes stop |
| `voyage` | every scripted route starts outside its zones and enters and leaves each of them again and again, and no other; a normal vessel stays in its area |

Runs that show a disagreement (one property each, quoted in `PROJECT.json`
under `findings`):

| Run | What the code does |
|---|---|
| `classifier_hang` | two workers: after the publisher has left, the blocking send in `emitViolation` waits for ever and Run does not return |
| `classifier_race` | worker and exitDetector access one Go map at the same time |
| `link_fixture` | two events end up on one line of the JSONL fixture file |

Deviations that the models contain and that have no run of their own:

* a zones file may repeat an id; DELETE then answers "deleted" and the second
  entry stays active (`ZoneFile` therefore has no such file, and the theorems
  assume as much);
* the sweep forgets a visit without an EXIT, and a vessel that never left is then
  announced as entering again, where classifier.go:141 says "first time this
  vessel is seen in this zone" (`AlertFeed` therefore allows ENTER in an open
  visit); EXIT events have no severity;
* `writePump` joins queued envelopes with newlines in one WebSocket message
  (hub.go:147), where ws_messages.md:11 has one envelope per message and the
  dashboard parses one JSON value: the alerts in it are lost (they are in
  `missed` of `Dashboard`);
* a client of the hub that falls behind is disconnected (hub.go:74), where
  ws_messages.md:91 promises "dropping oldest position batches if client falls
  behind"; `Subscription` states what the code does, a stream without a gap that ends
  with the connection;
* `Hub.Broadcast` drops a message when the hub's channel of 1024 is full, an
  alert that was just saved too (hub.go:93-97);
* rows of one timestamp have no order of their own (store.go:129), so the next page may have
  some of them again, and with as many as a page holds, the same page may come for
  ever: rows beyond it are never reached by timestamps alone;
* eviction deletes by key a position stored after it looked, until the next
  report; the `ActiveVessels` gauge keeps its last value when no vessel is left;
* the cache counter can fall below the number of entries, and below zero: an
  eviction between LoadOrStore and Store makes Update re-create the entry
  without counting it (`NeverOvercounts` is the half that holds);
* the answer to the dashboard's initial query replaces the alerts that arrived
  before it; an alert saved after the query and broadcast before the hub has the
  tab is in neither (`subscribed` excludes it); position batches have no effect in
  the dashboard; a stream that closes is not opened again;
* an event that cannot be sent is lost, and so is one in a socket buffer;
* an engine whose peer stops reading without closing waits in a write for ever,
  with the mutex held: `PublisherStops` assumes that the consumer reads;
* the flush at cancellation ("Flush remaining records", engine.go:145) sends the
  batch that was sent last a second time, under a new number;
* every simulator worker numbers its own batches, where ais_record.proto:26 has
  a "monotonically increasing batch sequence number"; nothing reads it;
* a batch of more than about 1110 records does not fit a UDP datagram, so every
  send fails; after a failed write to a stream the frames that follow are misframed,
  and a TCP peer that stops reading holds all workers, and the end of the simulator, up;
* a vessel is moved by the time since its worker's last batch, whether it is in
  that batch once, several times or not at all in between;
* a normal vessel that is put back at a border keeps its course towards that border:
  vessel.go:137 and 145 mirror the other axis (`Reflect`), under the comment
  "reflect"; it bounces until a random change of course takes it away;
* the broker's `main` waits for `hub.Run`, which never returns: after a signal
  the consumer and the API stop and the process does not.

### Bounds, and why they are enough

* `classifier_*`: one vessel (two where workers compete), one zone,
  capacities 1 or 2, clock up to 2 heartbeat intervals with a stale
  limit of 1: a channel of one is full after one event, a visit can be
  announced, refreshed, found stale, swept and announced again. A vessel's events
  depend on nothing but its own tracker and the channel, so a second
  vessel only matters for the channel and for the second worker. Several zones
  under one point are left to the proof of `ClassifierImplementsAlertFeed`.
* `classifier_pair` carries a constraint, `NoShutdown`: it looks at the running
  engine, and `classifier_edges` and `classifier_hang` at its end. It cuts only
  states after a cancellation, which `RecordsProcessed` excuses in any case.
* `zone_api`: three ids on a grid of 4 by 5 positions; a closed square, an open
  concave polygon, one with slanted edges and a mere line: positions inside, outside,
  on edges, level with vertices, and in the box but not in the polygon.
* `feed`: two workers with one vessel each, batches of two records, two batches and
  the flushes, two datagrams on the wire, queues of one record: a batch
  has its vessel twice, is overtaken, finds a queue full half-way, and is flushed again
  while the other worker is inside the mutex. Bytes have base 8, integers and
  doubles two of them: lengths need a second digit. Two
  classification workers take from their queues or stop.
* `voyage`: the real routes and zones; the area of the normal vessel is cut to two
  degrees, as only its borders matter, and courses are multiples of 30 degrees.
* `hub`: two connections, channels of one message, two messages: a client's buffer
  overflows in the middle of a broadcast while the other's does not, frames
  hold more than one message (with a buffer of one plus the message taken). That no
  message is left out *after* a buffer was full needs a third message, which makes the
  liveness checks too long: TLC checked it apart from them, and `HubImplementsSubscription`
  proves it for any number.
* `cache`: three reports and three units of time let an entry expire, be
  evicted and be stored again. One reader is enough for Get to race the eviction for
  one entry; several vessels in one flush are left to the proofs.
* `link`: one violation and three position batches, of which the second is
  oversize, and buffers of two writes: two batches of one goroutine are processed
  with a connection lost between them, a frame and a half do not fit, events of
  both goroutines compete for the mutex, and breaks and restarts are not
  bounded at all.
* `dashboard`: three alerts, two of one timestamp, a default limit of two, a
  maximum of three and a list of four: the query is cut in the middle of a timestamp, and
  lists of up to three alerts are below the maximum, so that `HistoryAndStreamMeet` speaks of
  them. The channel of the hub holds one message, so it overflows; two frames of two messages
  are enough for a message to be sent alone, joined, or not at all.
  `PagesCoverHistory` is about every table that can be made of the three rows, every filter
  and limit, and every answer.

`CHECK_DEADLOCK FALSE` is set where the system may stop: a clock, reports or
messages bounded by the model, an engine shut down or ended by the runtime.
The bounds are constants: `MaxTime`, `MaxReports`, `MaxMessages`, `MaxEvents`, `MaxBatches`, `WireCap`, `FrameCap`, and `Row`: an alert is handled once.

### Fairness

Liveness is checked under fairness that Go's scheduler and libraries give:

* a goroutine that can go on does (weak fairness of its steps);
* a `select` with a case that is ready again and again takes it sooner or later
  (strong fairness of `Stop`, `SweepStop`, `StopPublishing`, and of the hub's
  `Register`, `Unregister`, `TakeBroadcast`), since Go chooses at random among ready
  cases; a sender blocked on a channel is first in line for the next free slot
  (strong fairness of `Send`);
* in the hub a write that cannot succeed fails at its deadline, and a ping on a
  closed connection fails (`WriterGivesUp`);
* in the cache the clock and both tickers go on;
* in the link a mutex is handed on (strong fairness of `Lock`: Go's mutex turns
  to first-come-first-served after a millisecond), and dials and reads come to
  an end (`Consume`);

* in the feed a goroutine that is inside `Send` or at a record goes on, the `select`
  of a worker takes the closed `ctx.Done()` in the end though its ticker may be ready
  too, and the mutex is handed on. Writes are assumed to return. The ticker, the
  network and the classification workers need not do anything;
* a violator is ticked as long as the simulator runs.

Nothing is assumed of the outside: vessels need not report, requests and
dashboards need not come, a signal need not arrive, and a write may fail at any time.

## Proofs

TLAPS proves the following for every value of the constants, from the named
assumptions in the modules (finite sets of vessels and readers, positive
capacities, `ShardOf` a function into the workers).

* `ZoneAPIProofs`: what `Put` and `Without` return, in terms of the ids and
  zones of a sequence, and from that type correctness, unique
  ids, DELETE means gone, and that `ZoneAPI` implements `ZoneRegistry`; the
  last three assume files without a repeated id, and would be false otherwise.
  Then the two tests of `Check`, for every polygon on the grid, open or closed,
  convex or not. An edge is met iff it reaches across the latitude of the position
  and the position is on the right side of it (`CrossesSide`), so an edge counts alike in both
  directions. Counts are compared by parity: of stretches of edges that follow each other
  (`ChainSplit`), of the edges met from west of all vertices, which come in pairs
  (`WestParity`; hence the box hides nothing, `InsideIsInBox`), and of one triangle
  (`TriangleParity`), from which `FanParity` follows by induction over
  the vertices. From them `ChecksMatchAreas` and `CutsShareNoPosition`. They are
  about exact arithmetic: what rounding does to positions near an edge is not modelled.
* `ClassifierProofs`: type correctness, and that the classifier implements
  `AlertFeed` for any number of workers and any interleaving with the sweep. The
  inductive invariant is `FeedInv`. A heartbeat or exit is decided on one step
  and sent on a later one, and the tracker is written after that; the sweep may
  delete the tracker's entry at any point between. So the invariant says that a
  worker only holds vessels of its shard (nobody else can end the visit
  meanwhile), that a pending heartbeat or exit belongs to an open visit, and
  that a tracked zone does too, but for the one exit that is sent and not
  yet recorded. On it rest `AlertsInv`, which says between which steps of a record
  an open visit and a tracked zone may differ, and from it `AlertsMatchPositions`;
  `LastIsLatest` (the channel ends with the last event of each pair, and dropping
  takes the first) with `LastAccounted` (a pair of which the channel has no event
  had its last one received or discarded as the oldest), and from them
  `OverflowKeepsLatest`; and `RoomInv`, from which `BlocksOnlyWhenRobbed`, for any number of
  workers: after a drop there is room unless another worker has sent since. That
  the send may then wait for ever is what `classifier_hang` shows. Where the race lies is proved too: two workers never clash
  on a map, for any number of them, since each holds vessels of its own shard only
  (`WorkersNeverRace`), and before the first sweep nothing clashes at all
  (`SafeBeforeSweep`): the race of `classifier_race` is always one with the sweep. And a
  channel that is closed is quiet: `Run` closes it after every worker and the sweep
  have left, so nobody is inside an emission (`ClosedIsQuiet`).
* `PositionCacheProofs`: type correctness; the counter, by counting the three
  sets `Present`, `Adding`, `Subtracting` at each step; `UpdateInv` (an update
  on its way to the map is the latest report and no older than the entry there)
  and from it `LastKnown`; `FlushInv` (a steady
  vessel's entry stays fresh, since updates only make it younger) and from it
  `FlushComplete`; and `KeptInv`, from it `KeptUntilExpired`. An eviction judges by the
  time it began, which is never later than now, so what it finds expired is expired
  still; a position stored when no delete was on its way can only be met by a delete
  decided after it had expired itself.
* `HubProofs`: type correctness together with `CountedAreQueued` (otherwise
  `writePump` might receive from an empty channel); `LifeInv`, which ties the
  handler, the pumps, the map and the number of closes, and from it no double
  close and no dropped client left open; `StreamInv`, which says that
  the frame being written followed by the channel is exactly the stretch of the
  stream after what the client has, ending where the stream ends while the client
  is in the map, and from it that the hub implements `Subscription`.
  Then what that stream is: `DeliveredInOrder`, the messages a connection gets were
  broadcast one after the other, none twice. `OrderInv` says that what the hub has handed
  out, followed by the broadcasts that wait in its channel, rises and was all broadcast;
  `ReceivedInv` that what a connection has is a stretch of what was handed out.

* `EventLinkProofs`: type correctness with mutual exclusion; `LinkInv`, in three
  parts. `ConnInv`: the mutex, the program counters and the two views of the
  connection agree. `WireInv`: each half on the wire follows the one before
  it, from what the consumer has read to what the publisher is about to write, so
  that a reader is never in the middle of a frame. `OrderInv`: processed, in hand,
  on the wire and unsent are in this order. From them whole frames and that the
  link implements `EventFeed`; and, by an invariant of its own, that what was
  broadcast is stored or was refused.
* `DashboardProofs`: type correctness; `PagesCoverHistory`, from the
  order `Answers` gives its rows and, for `GoesBack`, by counting the rows of the timestamp a
  page ends with; from the same order, by induction over the pages, `ReadingsAreComplete`: whoever
  reads an unchanging table until a page is not full has every row that matches.
  `MeetInv` follows an alert from the
  table to the list: what the answer contains is listed when it is shown, and what was
  saved since the hub has the tab is yet to be broadcast, in the channel of the hub, on the wire,
  listed, or in `missed`; from it `HistoryAndStreamMeet`. `OnceInv` (an alert is on the
  wire at most once, and not if it is still to be handled) and from it
  `StreamShowsOnce`.
* `FeedProofs`: type correctness, for which the codec has to be followed through: bytes
  of numbers, strings, records and batches are bytes, and whatever bytes arrive
  decode to a batch or to nothing, never by a read past the end.
  The vessels a worker ticks are those of its shard, and their reports are within
  the bound, since batches tick as many vessels as they have records (`RoundOK`). Then
  `EveryBatchCounted`: the calls under way in each place are counted as a worker
  moves (`CallingMoves`), a sum of numbers grows with one of them (`SumGrows`).
  Then the codec, in two directions. `Agrees(bytes, offset, s)` says that `bytes` holds
  `s` from an offset on as far as it goes, so one proof covers whole and cut data:
  from it a number (`AgreesNumber`), a string, a record (`RecordRead`) and, turn by
  turn of the loop, a batch (`BatchRead`) is read as it was written, and not at all when a
  byte is missing. `BatchInv` says what a worker's batch is: reports of its vessels,
  numbered within the bound, and what it writes is that batch encoded. From the two,
  `BatchesDecode`. For `FramesWhole`, the offsets from which a stream is whole frames are
  described as a least set (`Framed`), to which a frame can be added at the end
  (`OneMoreFrame`), which the recursion of `WholeFrames` cannot; `StreamInv` says that
  the stream is whole frames, plus the length of what comes next while a worker is
  between its two writes, which the mutex lets only one be.
  Last, that the feed implements `PositionLog`. The reports of a vessel are followed
  from the batch to the queue (`Chain`): the last one seen, those in the queue of
  its worker, in the batch being dispatched, in the datagrams one after the
  other, and in the batch about to be written come in this order, as long as the
  vessel is not in `disordered`. `LogInv` is that, with the facts that hold
  in any case: all these records are reports that were made (`Logged`), in the queue they
  are hashed to (`Sharded`), and each batch has those of a vessel in order
  (`AllRising`). Every step is shown to keep it: what a worker fills in is newer than all
  that was made before (`TickLog`), only one worker writes reports of a vessel
  (`WriteLog`), a datagram passes over others only at the cost of their
  vessels' order (`DeliverLog`), records are dropped, but never swapped (`DispatchLog`).
  The recursive functions of `AISCodec`, and the fold `SumFunction`, are shown to exist and to
  satisfy their equations by induction in the form a prover without operator
  parameters can use: a set of naturals with 0 and with every successor is all
  of them (`NatInductionSet`), and a function on an interval can be extended point by point
  (`RecursionExists`).
  What is assumed (`EngineAssumption`): each vessel has an id of its own, which its
  reports carry; ids are shorter than 256 bytes, the coordinates fit the fields, and so do the
  length of a frame and the number of a batch (`FrameLimit`, `MaxBatches`). With the
  widths of the code a frame of the default 256 records has less than 2^18 bytes and a
  worker would have to send 2^31 batches.

* `VoyageProofs`: type correctness and `KeepsToItsWaters`, for any area of normal vessels
  that the inset at its borders fits into (`VoyageAssumption`). A course remains a multiple of 30 degrees through
  either reflection. For the violators the argument is in four parts: a closed rectangle
  covers no position beyond its bounds, by the box test alone (`RectangleCovers`); a
  violator's coordinates are between those of two waypoints of its route, give or take the
  quarter of a degree it may start with (`OnRoute`); so each
  route has limits of its own (`RouteLimits`); and the demo zones a route does not name lie
  beyond them (`DemoCoverage`, `RouteAvoids`).

Only model-checked: the liveness properties (`RecordsProcessed`, `GoneIsForgotten`,
`BroadcastsHandedOut`, `ExpiredAreEvicted`, `PublisherStops`, `ConsumerStops`, `FeedStops`,
`RoutesTransit`), which are beyond the prover. The inductive
invariants (`FeedInv`, `UpdateInv`, `FlushInv`, `KeptInv`, `LifeInv`, `StreamInv`, `LinkInv`, `LogInv`,
`OrderInv`, `ReceivedInv`), unique zone ids, DELETE means gone, the type correctness of
`Voyage`, `DeliveredInOrder`, `ReadingsAreComplete`, `WorkersNeverRace`, `SafeBeforeSweep` and `ClosedIsQuiet` are proved and
no run lists them; TLC agreed with each on the instances of the runs before it was proved.

## Not modelled, and why

* Metrics other than the gauge, the simulator's statistics and their printing
  (its last report comes from a goroutine nobody waits for and may not appear),
  logging, flags, HTTP and JSON details: no property is about them.
* Floating-point arithmetic: geometry and movement are on grids, the codec moves bits.
  Speeds, noise and the moments of course changes are any.
* The memory of the decoder: `UnmarshalBinary` allocates for the number of records a datagram
  claims before it reads them (ais.go:127).
* Duplicated datagrams: a network between the simulator and the engine may
  produce them, and they would act like a flush.
* The zone table of the dashboard: refreshes have no order, and the last answer
  to arrive stays; a property would restate the assignment. Its rendering and toasts.
* The three stand-in servers: they are not part of the running system.

## Plan

Models of the parts that are only partly covered: the start of the engine and of the broker
beyond their signals, and the dashboard's vessels and zones if its code comes to read the
payloads the engine sends.
