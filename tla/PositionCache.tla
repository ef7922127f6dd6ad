--------------------------- MODULE PositionCache ----------------------------
(***************************************************************************)
(* The last-known-position cache of the spatial engine (position_cache.go) *)
(* and the position flush that reads it (event_publisher.go).  entries is  *)
(* the sync.Map: a step is one operation of it, or one on the counter.     *)
(*                                                                         *)
(* The updates of a vessel come from one classifier worker, so they follow *)
(* each other; those of different vessels, the eviction, the flush and     *)
(* the readers interleave.  A position is abstracted to its number among   *)
(* the vessel's reports.  A Range visits every entry that is there         *)
(* throughout, and sees each as it is at its visit.                        *)
(***************************************************************************)
EXTENDS Integers, FiniteSets

CONSTANTS Vessel,
          Reader,         \* goroutines that call Get
          TTL,            \* --cache-ttl
          MaxTime,        \* bound: the clock stops here
          MaxReports      \* bound: a vessel reports no more after that

ASSUME CacheAssumption == /\ IsFiniteSet(Vessel) /\ IsFiniteSet(Reader)
                          /\ TTL \in Nat
                          /\ MaxTime \in Nat
                          /\ MaxReports \in Nat

VARIABLES now,              \* time.Now()
          entries, count,   \* the fields of PositionCache
          updating, entry, reports,     \* per vessel, its worker in Update
          getting, wanted,              \* per reader, in Get
          eviction,         \* evictExpired
          flush,            \* Snapshot, in the position flush
          activeVessels,    \* metrics.ActiveVessels
          steady,           \* history: fresh when the flush began, there since
          settled           \* history: whose last position no Delete was on its way to

updateVars == <<updating, entry, reports>>
getVars == <<getting, wanted>>
history == <<steady, settled>>
vars == <<now, entries, count, updateVars, getVars, eviction, flush, activeVessels, history>>

-----------------------------------------------------------------------------
Nothing == [report |-> 0, at |-> 0]
Entry == [report : 1..MaxReports, at : Nat]

Present == {v \in Vessel : entries[v] # Nothing}

Init == /\ now = 0
        /\ entries = [v \in Vessel |-> Nothing]
        /\ count = 0
        /\ updating = [v \in Vessel |-> "idle"]
        /\ entry = [v \in Vessel |-> Nothing]
        /\ reports = [v \in Vessel |-> 0]
        /\ getting = [r \in Reader |-> "idle"]
        /\ wanted = [r \in Reader |-> {}]
        /\ eviction = [pc |-> "idle", now |-> 0, todo |-> {}, key |-> {}, evicted |-> 0]
        /\ flush = [pc |-> "idle", now |-> 0, todo |-> {}, batch |-> {}]
        /\ activeVessels = 0
        /\ steady = {}
        /\ settled = {}

Tick == /\ now < MaxTime
        /\ now' = now + 1
        /\ UNCHANGED <<entries, count, updateVars, getVars, eviction, flush, activeVessels, history>>

-----------------------------------------------------------------------------
(* Fault: UpdatedAt is left at the zero time.                              *)
Unstamped(n) == [report |-> n, at |-> -1]

Stamped(n) == [report |-> n, at |-> now]

(* Update: stamp the entry, ...                                            *)
Update(v) ==
    /\ updating[v] = "idle"
    /\ reports[v] < MaxReports
    /\ reports' = [reports EXCEPT ![v] = @ + 1]
    /\ entry' = [entry EXCEPT ![v] = Stamped(reports'[v])]
    /\ updating' = [updating EXCEPT ![v] = "load"]
    /\ settled' = settled \ {v}
    /\ UNCHANGED <<now, entries, count, getVars, eviction, flush, activeVessels, steady>>

(* The entries that Get or the eviction has found expired and will delete, *)
(* by their key.                                                           *)
Doomed == eviction.key \cup UNION {wanted[r] : r \in Reader}

Put(v) == /\ entries' = [entries EXCEPT ![v] = entry[v]]
          /\ settled' = IF v \in Doomed THEN settled ELSE settled \cup {v}

(* ... LoadOrStore, ...                                                    *)
LoadOrStore(v) ==
    /\ updating[v] = "load"
    /\ IF v \in Present
       THEN /\ updating' = [updating EXCEPT ![v] = "store"]
            /\ UNCHANGED <<entries, settled>>
       ELSE /\ updating' = [updating EXCEPT ![v] = "add"]
            /\ Put(v)
    /\ UNCHANGED <<now, count, entry, reports, getVars, eviction, flush, activeVessels, steady>>

(* Fault: an entry that is there is left alone.                            *)
StoreNothing(v) ==
    /\ updating[v] = "store"
    /\ updating' = [updating EXCEPT ![v] = "idle"]
    /\ UNCHANGED <<now, entries, count, entry, reports, getVars, eviction, flush, activeVessels, history>>

(* ... and Store if there was one, or count the new one.                   *)
Store(v) ==
    /\ updating[v] = "store"
    /\ Put(v)
    /\ updating' = [updating EXCEPT ![v] = "idle"]
    /\ UNCHANGED <<now, count, entry, reports, getVars, eviction, flush, activeVessels, steady>>

AddCount(v) ==
    /\ updating[v] = "add"
    /\ count' = count + 1
    /\ updating' = [updating EXCEPT ![v] = "idle"]
    /\ UNCHANGED <<now, entries, entry, reports, getVars, eviction, flush, activeVessels, history>>

-----------------------------------------------------------------------------
(* Fault: the operands of Sub are swapped.                                 *)
ExpiredSwapped(e, t) == e.at - t > TTL

(* Fault: a position exactly TTL old has expired already.                  *)
ExpiredAtTTL(e, t) == t - e.at >= TTL

Expired(e, t) == t - e.at > TTL

(* sync.Map.Delete.                                                        *)
Delete(v) == /\ entries' = [entries EXCEPT ![v] = Nothing]
             /\ steady' = steady \ {v}

(* Get: an entry found expired is deleted, and the counter decremented.    *)
Get(r, v) ==
    /\ getting[r] = "idle"
    /\ v \in Present
    /\ Expired(entries[v], now)
    /\ getting' = [getting EXCEPT ![r] = "delete"]
    /\ wanted' = [wanted EXCEPT ![r] = {v}]
    /\ UNCHANGED <<now, entries, count, updateVars, eviction, flush, activeVessels, history>>

GetDelete(r, v) ==
    /\ getting[r] = "delete"
    /\ v \in wanted[r]
    /\ Delete(v)
    /\ getting' = [getting EXCEPT ![r] = "subtract"]
    /\ wanted' = [wanted EXCEPT ![r] = {}]
    /\ UNCHANGED <<now, count, updateVars, eviction, flush, activeVessels, settled>>

GetSubtract(r) ==
    /\ getting[r] = "subtract"
    /\ count' = count - 1
    /\ getting' = [getting EXCEPT ![r] = "idle"]
    /\ UNCHANGED <<now, entries, updateVars, wanted, eviction, flush, activeVessels, history>>

-----------------------------------------------------------------------------
(* evictExpired, at each tick of StartEviction.                            *)
EvictStart(more) ==
    /\ eviction.pc = "idle"
    /\ eviction' = [eviction EXCEPT !.pc = "range", !.now = now, !.todo = Present \cup more]
    /\ UNCHANGED <<now, entries, count, updateVars, getVars, flush, activeVessels, history>>

EvictVisit(v) ==
    /\ eviction.pc = "range"
    /\ v \in eviction.todo \cap Present
    /\ eviction' = IF Expired(entries[v], eviction.now)
                   THEN [eviction EXCEPT !.pc = "delete", !.key = {v}, !.todo = @ \ {v}]
                   ELSE [eviction EXCEPT !.todo = @ \ {v}]
    /\ UNCHANGED <<now, entries, count, updateVars, getVars, flush, activeVessels, history>>

(* The delete goes by the key: the vessel may have reported since.         *)
EvictDelete(v) ==
    /\ eviction.pc = "delete"
    /\ v \in eviction.key
    /\ Delete(v)
    /\ eviction' = [eviction EXCEPT !.pc = "range", !.key = {}, !.evicted = @ + 1]
    /\ UNCHANGED <<now, count, updateVars, getVars, flush, activeVessels, settled>>

(* Fault: the evicted entries are not subtracted.                          *)
LessNothing(c, n) == c

LessEvicted(c, n) == c - n

EvictDone ==
    /\ eviction.pc = "range"
    /\ eviction.todo \cap Present = {}
    /\ count' = LessEvicted(count, eviction.evicted)
    /\ eviction' = [eviction EXCEPT !.pc = "idle", !.now = 0, !.todo = {}, !.evicted = 0]
    /\ UNCHANGED <<now, entries, updateVars, getVars, flush, activeVessels, history>>

-----------------------------------------------------------------------------
(* Fault: an entry exactly TTL old is left out.                            *)
YoungerThanTTL(e, t) == t - e.at < TTL

Fresh(e, t) == t - e.at <= TTL

(* The position flush: Snapshot collects the fresh entries, ...            *)
SnapshotStart(more) ==
    /\ flush.pc = "idle"
    /\ flush' = [flush EXCEPT !.pc = "range", !.now = now, !.todo = Present \cup more]
    /\ steady' = {v \in Present : ~Expired(entries[v], now)}
    /\ UNCHANGED <<now, entries, count, updateVars, getVars, eviction, activeVessels, settled>>

SnapshotVisit(v) ==
    /\ flush.pc = "range"
    /\ v \in flush.todo \cap Present
    /\ flush' = [flush EXCEPT !.todo = @ \ {v},
                   !.batch = IF Fresh(entries[v], flush.now)
                             THEN @ \cup {[vessel |-> v, entry |-> entries[v]]} ELSE @]
    /\ UNCHANGED <<now, entries, count, updateVars, getVars, eviction, activeVessels, history>>

(* ... an empty snapshot is skipped, any other is counted and sent.        *)
SnapshotDone ==
    /\ flush.pc = "range"
    /\ flush.todo \cap Present = {}
    /\ activeVessels' = IF flush.batch = {} THEN activeVessels ELSE Cardinality(flush.batch)
    /\ flush' = [flush EXCEPT !.pc = "idle", !.now = 0, !.todo = {}, !.batch = {}]
    /\ steady' = {}
    /\ UNCHANGED <<now, entries, count, updateVars, getVars, eviction, settled>>

-----------------------------------------------------------------------------
UpdateStep(v) == LoadOrStore(v) \/ Store(v) \/ AddCount(v)

EvictStep == EvictDone \/ \E v \in Vessel : EvictVisit(v) \/ EvictDelete(v)

FlushStep == SnapshotDone \/ \E v \in Vessel : SnapshotVisit(v)

Next == \/ Tick
        \/ \E v \in Vessel : Update(v) \/ UpdateStep(v)
        \/ \E r \in Reader : GetSubtract(r) \/ \E v \in Vessel : Get(r, v) \/ GetDelete(r, v)
        \/ \E more \in SUBSET Vessel : EvictStart(more) \/ SnapshotStart(more)
        \/ EvictStep \/ FlushStep

Spec == Init /\ [][Next]_vars

(* The clock and the two tickers go on; so does whoever is in a call.      *)
Fairness == /\ WF_vars(Tick)
            /\ \A v \in Vessel : WF_vars(UpdateStep(v))
            /\ WF_vars(EvictStart({})) /\ WF_vars(EvictStep)
            /\ WF_vars(SnapshotStart({})) /\ WF_vars(FlushStep)

FairSpec == Spec /\ Fairness

-----------------------------------------------------------------------------
TypeOK ==
    /\ now \in Nat
    /\ entries \in [Vessel -> Entry \cup {Nothing}]
    /\ count \in Int
    /\ updating \in [Vessel -> {"idle", "load", "store", "add"}]
    /\ entry \in [Vessel -> Entry \cup {Nothing}]
    /\ \A v \in Vessel : updating[v] # "idle" => entry[v] \in Entry
    /\ reports \in [Vessel -> 0..MaxReports]
    /\ getting \in [Reader -> {"idle", "delete", "subtract"}]
    /\ wanted \in [Reader -> SUBSET Vessel]
    /\ eviction \in [pc : {"idle", "range", "delete"}, now : Nat, todo : SUBSET Vessel,
                     key : SUBSET Vessel, evicted : Nat]
    /\ flush \in [pc : {"idle", "range"}, now : Nat, todo : SUBSET Vessel,
                  batch : SUBSET [vessel : Vessel, entry : Entry]]
    /\ IsFiniteSet(flush.batch)
    /\ activeVessels \in Nat
    /\ steady \subseteq Vessel
    /\ settled \subseteq Vessel

(* What is decided but not yet added to or subtracted from the counter.    *)
Adding == {v \in Vessel : updating[v] = "add"}
Subtracting == {r \in Reader : getting[r] = "subtract"}

(* The counter, corrected for the calls under way, never exceeds the       *)
(* number of entries: the races between Update, Get and eviction only ever *)
(* make Count report too few vessels (position_cache.go 62-68, 80-83,      *)
(* 116-127).                                                               *)
NeverOvercounts ==
    count + Cardinality(Adding) - Cardinality(Subtracting) - eviction.evicted
      <= Cardinality(Present)

(* A cached position is the vessel's latest, or the one before it while    *)
(* the update is under way: no race brings an older one back.              *)
LastKnown ==
    \A v \in Present : \/ entries[v].report = reports[v]
                       \/ /\ updating[v] # "idle"
                          /\ entries[v].report = reports[v] - 1

(* A flush has every vessel whose position was fresh when it began and has *)
(* been cached since, whatever is stored and deleted during its range      *)
(* (position_cache.go 94-109).                                             *)
FlushComplete ==
    flush.pc = "range" =>
        \A v \in steady : v \in flush.todo \/ \E p \in flush.batch : p.vessel = v

(* A position that has been stored is in the cache as long as it is not    *)
(* older than TTL, with one exception: a Get or an eviction that had found *)
(* the entry before it expired deletes by the key, and takes the new one   *)
(* with it (position_cache.go 80-83, 116-121).  Whatever else is under     *)
(* way, nothing fresh is deleted.                                          *)
KeptUntilExpired ==
    \A v \in settled : now - entry[v].at <= TTL => entries[v] = entry[v]

(* Why they hold, three inductive invariants.  Of the updates: an entry on *)
(* its way to the map is the vessel's latest, and no older than the one    *)
(* that is there.                                                          *)
UpdateInv ==
    \A v \in Vessel :
        /\ updating[v] # "idle" => entry[v].report = reports[v] /\ entry[v].at <= now
        /\ v \in Present =>
              /\ entries[v].at <= now
              /\ updating[v] \in {"load", "store"} => entries[v].at <= entry[v].at
              /\ updating[v] = "add" => entries[v] = entry[v]

(* Of the flush: a steady vessel's entry stays one that the flush takes.   *)
FlushInv ==
    /\ flush.pc = "idle" => flush.batch = {} /\ steady = {}
    /\ \A v \in steady : v \in Present /\ Fresh(entries[v], flush.now)

(* Of the deletions: none is on its way to a settled position that has not *)
(* expired, since what was expired for an eviction's time is expired now.  *)
KeptInv ==
    /\ eviction.now <= now
    /\ \A v \in settled :
          /\ updating[v] \in {"idle", "add"}
          /\ entry[v] \in Entry
          /\ now - entry[v].at <= TTL => entries[v] = entry[v] /\ v \notin Doomed

(* A vessel that stops reporting leaves the cache once its TTL has passed. *)
ExpiredAreEvicted ==
    <>[](\A v \in Present : MaxTime - entries[v].at <= TTL)
=============================================================================
