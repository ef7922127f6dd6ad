------------------------ MODULE PositionCacheProofs -------------------------
(***************************************************************************)
(* Proofs about the position cache, for every number of vessels and        *)
(* readers, every TTL and every interleaving.                              *)
(***************************************************************************)
EXTENDS PositionCache, FiniteSetTheorems, TLAPS

LEMMA EntryIsSomething == Nothing \notin Entry
  BY DEF Entry, Nothing

(* Type correctness.                                                       *)
LEMMA TypeInit == Init => TypeOK
<1> SUFFICES ASSUME Init PROVE TypeOK
  OBVIOUS
<1>1. entries \in [Vessel -> Entry \cup {Nothing}] /\ entry \in [Vessel -> Entry \cup {Nothing}]
  BY DEF Init
<1>2. reports \in [Vessel -> 0..MaxReports]
  BY CacheAssumption DEF Init
<1>3. IsFiniteSet(flush.batch)
  BY FS_EmptySet DEF Init
<1> QED BY <1>1, <1>2, <1>3 DEF Init, TypeOK

LEMMA TypeUpdates ==
    ASSUME TypeOK, NEW v \in Vessel, Update(v) \/ UpdateStep(v)
    PROVE  TypeOK'
<1> USE DEF TypeOK, getVars
<1>1. CASE Update(v)
  <2>1. reports'[v] \in 1..MaxReports /\ reports' \in [Vessel -> 0..MaxReports]
    BY <1>1, CacheAssumption DEF Update
  <2>2. Stamped(reports'[v]) \in Entry
    BY <2>1 DEF Stamped, Entry
  <2> QED BY <1>1, <2>1, <2>2 DEF Update
<1>2. CASE LoadOrStore(v)
  BY <1>2 DEF LoadOrStore, Put, history
<1>3. CASE Store(v)
  BY <1>3 DEF Store, Put, history
<1>4. CASE AddCount(v)
  BY <1>4 DEF AddCount, history
<1> QED BY <1>1, <1>2, <1>3, <1>4 DEF UpdateStep

LEMMA TypeGets ==
    ASSUME TypeOK, NEW r \in Reader, NEW v \in Vessel,
           Get(r, v) \/ GetDelete(r, v) \/ GetSubtract(r)
    PROVE  TypeOK'
<1> USE DEF TypeOK, updateVars
<1>1. CASE Get(r, v)
  BY <1>1 DEF Get, history
<1>2. CASE GetDelete(r, v)
  BY <1>2 DEF GetDelete, Delete
<1>3. CASE GetSubtract(r)
  BY <1>3 DEF GetSubtract, history
<1> QED BY <1>1, <1>2, <1>3

LEMMA DifferenceType == \A m \in Int, n \in Nat : m - n \in Int
  OBVIOUS

LEMMA TypeEviction ==
    ASSUME TypeOK, NEW v \in Vessel, NEW more \in SUBSET Vessel,
           EvictStart(more) \/ EvictVisit(v) \/ EvictDelete(v) \/ EvictDone
    PROVE  TypeOK'
<1> USE DEF TypeOK, updateVars, getVars
<1>1. CASE EvictStart(more)
  BY <1>1 DEF EvictStart, Present, history
<1>2. CASE EvictVisit(v)
  BY <1>2 DEF EvictVisit, history
<1>3. CASE EvictDelete(v)
  <2>1. eviction.evicted + 1 \in Nat
    OBVIOUS
  <2>2. eviction' = [eviction EXCEPT !.pc = "range", !.key = {}, !.evicted = eviction.evicted + 1]
    BY <1>3 DEF EvictDelete
  <2>3. eviction' \in [pc : {"idle", "range", "delete"}, now : Nat, todo : SUBSET Vessel,
                       key : SUBSET Vessel, evicted : Nat]
    BY <2>1, <2>2, Zenon
  <2> QED BY <1>3, <2>3 DEF EvictDelete, Delete
<1>4. CASE EvictDone
  <2>1. count' \in Int
    BY <1>4, DifferenceType DEF EvictDone, LessEvicted
  <2> QED BY <1>4, <2>1 DEF EvictDone, history
<1> QED BY <1>1, <1>2, <1>3, <1>4

LEMMA TypeFlush ==
    ASSUME TypeOK, NEW v \in Vessel, NEW more \in SUBSET Vessel,
           SnapshotStart(more) \/ SnapshotVisit(v) \/ SnapshotDone
    PROVE  TypeOK'
<1> USE DEF TypeOK, updateVars, getVars
<1>1. CASE SnapshotStart(more)
  BY <1>1 DEF SnapshotStart, Present
<1>2. CASE SnapshotVisit(v)
  <2>1. entries[v] \in Entry
    BY <1>2 DEF SnapshotVisit, Present
  <2> DEFINE b == flush'.batch
  <2>2. b = flush.batch \/ b = flush.batch \cup {[vessel |-> v, entry |-> entries[v]]}
    BY <1>2 DEF SnapshotVisit
  <2>3. b \subseteq [vessel : Vessel, entry : Entry]
    BY <2>1, <2>2
  <2>4. IsFiniteSet(b)
    <3>1. IsFiniteSet(flush.batch)
      OBVIOUS
    <3>2. \A x : IsFiniteSet(flush.batch \cup {x})
      <4> HIDE DEF TypeOK
      <4> QED BY <3>1, FS_AddElement, Zenon
    <3>3. b = flush.batch \/ \E x : b = flush.batch \cup {x}
      BY <2>2, Zenon
    <3> HIDE DEF b, TypeOK
    <3> QED BY <3>1, <3>2, <3>3, Zenon
  <2>5. flush' = [flush EXCEPT !.todo = flush.todo \ {v}, !.batch = b]
    BY <1>2 DEF SnapshotVisit
  <2> HIDE DEF b
  <2>6. flush' \in [pc : {"idle", "range"}, now : Nat, todo : SUBSET Vessel,
                    batch : SUBSET [vessel : Vessel, entry : Entry]]
    BY <2>3, <2>5, Zenon
  <2>7. flush'.batch = b
    BY <2>5
  <2> QED BY <1>2, <2>4, <2>6, <2>7 DEF SnapshotVisit, history
<1>3. CASE SnapshotDone
  <2>1. Cardinality(flush.batch) \in Nat /\ IsFiniteSet({})
    BY FS_CardinalityType, FS_EmptySet
  <2> QED BY <1>3, <2>1 DEF SnapshotDone
<1> QED BY <1>1, <1>2, <1>3

LEMMA TypeStep ==
    ASSUME TypeOK, [Next]_vars
    PROVE  TypeOK'
<1>1. CASE Tick
  BY <1>1 DEF Tick, TypeOK, updateVars, getVars, history
<1>2. CASE UNCHANGED vars
  BY <1>2 DEF vars, TypeOK, updateVars, getVars, history
<1>3. CASE \E v \in Vessel : Update(v) \/ UpdateStep(v)
  BY <1>3, TypeUpdates
<1>4. CASE \E r \in Reader : GetSubtract(r) \/ \E v \in Vessel : Get(r, v) \/ GetDelete(r, v)
  <2>1. ASSUME NEW r \in Reader, GetSubtract(r) PROVE TypeOK'
    BY <2>1 DEF GetSubtract, TypeOK, updateVars, history
  <2> QED BY <1>4, <2>1, TypeGets
<1>5. CASE \/ \E more \in SUBSET Vessel : EvictStart(more) \/ SnapshotStart(more)
           \/ EvictStep \/ FlushStep
  <2>1. CASE EvictDone
    <3>1. count' \in Int
      BY <2>1, DifferenceType DEF EvictDone, LessEvicted, TypeOK
    <3> QED BY <2>1, <3>1 DEF EvictDone, TypeOK, updateVars, getVars, history
  <2>2. CASE SnapshotDone
    <3>1. Cardinality(flush.batch) \in Nat /\ IsFiniteSet({})
      BY FS_CardinalityType, FS_EmptySet DEF TypeOK
    <3> QED BY <2>2, <3>1 DEF SnapshotDone, TypeOK, updateVars, getVars
  <2>3. ASSUME NEW more \in SUBSET Vessel, EvictStart(more) PROVE TypeOK'
    BY <2>3 DEF EvictStart, Present, TypeOK, updateVars, getVars, history
  <2>4. ASSUME NEW more \in SUBSET Vessel, SnapshotStart(more) PROVE TypeOK'
    BY <2>4 DEF SnapshotStart, Present, TypeOK, updateVars, getVars
  <2>5. CASE \E v \in Vessel : EvictVisit(v) \/ EvictDelete(v)
    BY <2>5, TypeEviction
  <2>6. CASE \E v \in Vessel : SnapshotVisit(v)
    BY <2>6, TypeFlush
  <2> QED BY <1>5, <2>1, <2>2, <2>3, <2>4, <2>5, <2>6 DEF EvictStep, FlushStep
<1> QED BY <1>1, <1>2, <1>3, <1>4, <1>5 DEF Next

(* The cache, its counter and the calls on it are of their types.          *)
THEOREM TypeCorrect == Spec => []TypeOK
  BY TypeInit, TypeStep, PTL DEF Spec

-----------------------------------------------------------------------------
(* The positions.  A step of a vessel's worker, a deletion, a tick of the  *)
(* clock, or one that leaves all of this alone.                            *)
positionVars == <<now, entries, entry, updating, reports>>

Deletion(v) == /\ entries' = [entries EXCEPT ![v] = Nothing]
               /\ UNCHANGED <<now, entry, updating, reports>>

LEMMA PositionSteps ==
    ASSUME [Next]_vars
    PROVE  \/ UNCHANGED positionVars
           \/ Tick
           \/ \E v \in Vessel : Update(v) \/ UpdateStep(v) \/ Deletion(v)
<1> USE DEF positionVars, updateVars
<1>1. CASE UNCHANGED vars
  BY <1>1 DEF vars
<1>2. CASE \E r \in Reader : GetSubtract(r) \/ \E v \in Vessel : Get(r, v) \/ GetDelete(r, v)
  <2>1. ASSUME NEW r \in Reader, GetSubtract(r) PROVE UNCHANGED positionVars
    BY <2>1 DEF GetSubtract
  <2>2. ASSUME NEW r \in Reader, NEW v \in Vessel, Get(r, v) PROVE UNCHANGED positionVars
    BY <2>2 DEF Get
  <2>3. ASSUME NEW r \in Reader, NEW v \in Vessel, GetDelete(r, v) PROVE Deletion(v)
    BY <2>3 DEF GetDelete, Deletion, Delete
  <2> QED BY <1>2, <2>1, <2>2, <2>3
<1>3. CASE \/ \E more \in SUBSET Vessel : EvictStart(more) \/ SnapshotStart(more)
           \/ EvictStep \/ FlushStep
  <2>1. ASSUME NEW v \in Vessel, EvictDelete(v) PROVE Deletion(v)
    BY <2>1 DEF EvictDelete, Deletion, Delete
  <2>2. ASSUME NEW more \in SUBSET Vessel, EvictStart(more) \/ SnapshotStart(more)
        PROVE  UNCHANGED positionVars
    BY <2>2 DEF EvictStart, SnapshotStart
  <2>3. ASSUME NEW v \in Vessel, EvictVisit(v) \/ SnapshotVisit(v)
        PROVE  UNCHANGED positionVars
    BY <2>3 DEF EvictVisit, SnapshotVisit
  <2>4. EvictDone \/ SnapshotDone => UNCHANGED positionVars
    BY DEF EvictDone, SnapshotDone
  <2> QED BY <1>3, <2>1, <2>2, <2>3, <2>4 DEF EvictStep, FlushStep
<1> QED BY <1>1, <1>2, <1>3 DEF Next

LEMMA UpdateInvStep ==
    ASSUME TypeOK, UpdateInv, [Next]_vars
    PROVE  UpdateInv'
<1> USE DEF UpdateInv, Present, TypeOK
<1>1. CASE UNCHANGED positionVars
  BY <1>1 DEF positionVars
<1>2. CASE Tick
  <2>1. now' = now + 1 /\ UNCHANGED <<entries, entry, updating, reports>>
    BY <1>2 DEF Tick, updateVars
  <2>2. \A v \in Vessel : updating[v] # "idle" => entry[v].at \in Nat
    BY DEF Entry
  <2>3. \A v \in Present : entries[v].at \in Nat
    BY DEF Entry
  <2> QED BY <2>1, <2>2, <2>3
<1>3. ASSUME NEW v \in Vessel, Deletion(v) PROVE UpdateInv'
  BY <1>3 DEF Deletion
<1>4. ASSUME NEW v \in Vessel, Update(v) PROVE UpdateInv'
  <2>1. entry'[v] = [report |-> reports'[v], at |-> now]
    BY <1>4 DEF Update, Stamped
  <2>2. entries[v] # Nothing => entries[v].at <= now
    BY <1>4 DEF Update
  <2> QED BY <1>4, <2>1, <2>2 DEF Update
<1>5. ASSUME NEW v \in Vessel, LoadOrStore(v) PROVE UpdateInv'
  <2>1. entry[v].at \in Nat
    BY <1>5 DEF LoadOrStore, Entry
  <2> QED BY <1>5, <2>1 DEF LoadOrStore, Put
<1>6. ASSUME NEW v \in Vessel, Store(v) PROVE UpdateInv'
  BY <1>6 DEF Store, Put
<1>7. ASSUME NEW v \in Vessel, AddCount(v) PROVE UpdateInv'
  BY <1>7 DEF AddCount
<1> QED BY <1>1, <1>2, <1>3, <1>4, <1>5, <1>6, <1>7, PositionSteps DEF UpdateStep

(* What an update carries, and what it finds.                              *)
THEOREM UpdatesInOrder == Spec => []UpdateInv
<1>1. Init => UpdateInv
  BY DEF Init, UpdateInv, Present
<1> QED BY <1>1, TypeCorrect, UpdateInvStep, PTL DEF Spec

LEMMA LastKnownStep ==
    ASSUME TypeOK, UpdateInv, LastKnown, [Next]_vars
    PROVE  LastKnown'
<1> USE DEF LastKnown, Present, TypeOK
<1>1. CASE UNCHANGED positionVars
  BY <1>1 DEF positionVars
<1>2. CASE Tick
  BY <1>2 DEF Tick, updateVars
<1>3. ASSUME NEW v \in Vessel, Deletion(v) PROVE LastKnown'
  BY <1>3 DEF Deletion
<1>4. ASSUME NEW v \in Vessel, Update(v) PROVE LastKnown'
  <2>1. reports'[v] = reports[v] + 1 /\ reports[v] \in Int
    BY <1>4, CacheAssumption DEF Update
  <2>2. entries[v] # Nothing => entries[v].report = reports'[v] - 1
    BY <1>4, <2>1 DEF Update
  <2> QED BY <1>4, <2>2 DEF Update
<1>5. ASSUME NEW v \in Vessel, LoadOrStore(v) PROVE LastKnown'
  BY <1>5 DEF LoadOrStore, UpdateInv, Put
<1>6. ASSUME NEW v \in Vessel, Store(v) PROVE LastKnown'
  BY <1>6 DEF Store, UpdateInv, Put
<1>7. ASSUME NEW v \in Vessel, AddCount(v) PROVE LastKnown'
  BY <1>7 DEF AddCount, UpdateInv
<1> QED BY <1>1, <1>2, <1>3, <1>4, <1>5, <1>6, <1>7, PositionSteps DEF UpdateStep

(* Whatever Get and the eviction delete in between, an update never puts   *)
(* an older position back.                                                 *)
THEOREM CachesLastKnown == Spec => []LastKnown
<1>1. Init => LastKnown
  BY DEF Init, LastKnown, Present
<1> QED BY <1>1, TypeCorrect, UpdatesInOrder, LastKnownStep, PTL DEF Spec

-----------------------------------------------------------------------------
(* The flush.  Its own steps, and those that leave it and what it goes by  *)
(* alone, or change one entry.                                             *)
flushVars == <<entries, flush, steady>>

EntryChange(v) == LoadOrStore(v) \/ Store(v) \/ (Delete(v) /\ UNCHANGED flush)

LEMMA FlushSteps ==
    ASSUME [Next]_vars
    PROVE  \/ UNCHANGED flushVars
           \/ \E v \in Vessel : EntryChange(v)
           \/ \E more \in SUBSET Vessel : SnapshotStart(more)
           \/ FlushStep
<1> USE DEF flushVars, EntryChange
<1>1. UNCHANGED vars \/ Tick => UNCHANGED flushVars
  BY DEF vars, Tick, history
<1>2. ASSUME NEW v \in Vessel, Update(v) \/ UpdateStep(v)
      PROVE  UNCHANGED flushVars \/ EntryChange(v)
  BY <1>2 DEF Update, UpdateStep, AddCount, history
<1>3. ASSUME NEW r \in Reader, GetSubtract(r) PROVE UNCHANGED flushVars
  BY <1>3 DEF GetSubtract, history
<1>4. ASSUME NEW r \in Reader, NEW v \in Vessel, Get(r, v) \/ GetDelete(r, v)
      PROVE  UNCHANGED flushVars \/ EntryChange(v)
  BY <1>4 DEF Get, GetDelete, history
<1>5. ASSUME NEW more \in SUBSET Vessel, EvictStart(more) PROVE UNCHANGED flushVars
  BY <1>5 DEF EvictStart, history
<1>6. ASSUME EvictStep PROVE UNCHANGED flushVars \/ \E v \in Vessel : EntryChange(v)
  <2>1. EvictDone => UNCHANGED flushVars
    BY DEF EvictDone, history
  <2>2. ASSUME NEW v \in Vessel, EvictVisit(v) \/ EvictDelete(v)
        PROVE  UNCHANGED flushVars \/ EntryChange(v)
    BY <2>2 DEF EvictVisit, EvictDelete, history
  <2> QED BY <1>6, <2>1, <2>2 DEF EvictStep
<1> HIDE DEF flushVars, EntryChange
<1> QED BY <1>1, <1>2, <1>3, <1>4, <1>5, <1>6 DEF Next

(* An update of a steady vessel leaves it fresh for the flush.             *)
LEMMA FlushTimes ==
    ASSUME TypeOK, NEW v \in Present
    PROVE  /\ entries[v] \in Entry /\ entries[v].at \in Nat
           /\ TTL \in Nat /\ now \in Nat /\ flush.now \in Nat
  BY CacheAssumption DEF TypeOK, Present, Entry

LEMMA YoungerIsFresh ==
    \A t, a, b, k \in Int : t - a <= k /\ a <= b => t - b <= k
  OBVIOUS

LEMMA FlushInvStep ==
    ASSUME TypeOK, UpdateInv, FlushInv, [Next]_vars
    PROVE  FlushInv'
<1>1. CASE UNCHANGED flushVars
  BY <1>1 DEF flushVars, FlushInv, Present, Fresh
<1>2. ASSUME NEW v \in Vessel, EntryChange(v) PROVE FlushInv'
  <2>1. CASE Delete(v) /\ UNCHANGED flush
    BY <2>1 DEF Delete, FlushInv, Present, Fresh, TypeOK
  <2>2. CASE LoadOrStore(v)
    <3>1. UNCHANGED <<flush, steady>>
      BY <2>2 DEF LoadOrStore
    <3>2. \A w \in steady : entries'[w] = entries[w]
      BY <2>2 DEF LoadOrStore, FlushInv, TypeOK, Put
    <3> QED BY <3>1, <3>2 DEF FlushInv, Present, Fresh, TypeOK
  <2>3. CASE Store(v)
    <3>1. UNCHANGED <<flush, steady>> /\ entries' = [entries EXCEPT ![v] = entry[v]]
      BY <2>3 DEF Store, Put
    <3>2. entry[v] \in Entry /\ entry[v].at \in Nat
      BY <2>3 DEF Store, TypeOK, Entry
    <3>3. v \in steady => Fresh(entry[v], flush.now)
      <4>1. SUFFICES ASSUME v \in steady PROVE Fresh(entry[v], flush.now)
        OBVIOUS
      <4>2. v \in Present /\ Fresh(entries[v], flush.now)
        BY <4>1 DEF FlushInv
      <4>3. entries[v].at <= entry[v].at
        BY <2>3, <4>2 DEF Store, UpdateInv
      <4> QED BY <3>2, <4>2, <4>3, FlushTimes, YoungerIsFresh DEF Fresh
    <3> QED BY <3>1, <3>2, <3>3, EntryIsSomething DEF FlushInv, Present, Fresh, TypeOK
  <2> QED BY <1>2, <2>1, <2>2, <2>3 DEF EntryChange
<1>3. ASSUME NEW more \in SUBSET Vessel, SnapshotStart(more) PROVE FlushInv'
  <2>1. flush'.batch = {} /\ flush'.now = now /\ flush'.pc = "range" /\ UNCHANGED entries
    BY <1>3 DEF SnapshotStart, FlushInv, TypeOK
  <2>2. \A v \in Present : ~Expired(entries[v], now) => Fresh(entries[v], now)
    BY FlushTimes DEF Expired, Fresh
  <2> QED BY <1>3, <2>1, <2>2 DEF SnapshotStart, FlushInv, Present, Fresh
<1>4. ASSUME NEW v \in Vessel, SnapshotVisit(v) PROVE FlushInv'
  BY <1>4 DEF SnapshotVisit, FlushInv, Present, Fresh, TypeOK, history
<1>5. CASE SnapshotDone
  BY <1>5 DEF SnapshotDone, FlushInv, TypeOK
<1> QED BY <1>1, <1>2, <1>3, <1>4, <1>5, FlushSteps DEF FlushStep

(* What the flush has taken, and what it can still count on.               *)
THEOREM FlushInvariant == Spec => []FlushInv
<1>1. Init => FlushInv
  BY DEF Init, FlushInv
<1> QED BY <1>1, TypeCorrect, UpdatesInOrder, FlushInvStep, PTL DEF Spec

LEMMA FlushStepKeeps ==
    ASSUME TypeOK, FlushInv, FlushComplete, [Next]_vars
    PROVE  FlushComplete'
<1> USE DEF FlushComplete
<1>1. CASE UNCHANGED flushVars
  BY <1>1 DEF flushVars
<1>2. ASSUME NEW v \in Vessel, EntryChange(v) PROVE FlushComplete'
  BY <1>2 DEF EntryChange, LoadOrStore, Store, Delete
<1>3. ASSUME NEW more \in SUBSET Vessel, SnapshotStart(more)
      PROVE  FlushComplete'
  BY <1>3 DEF SnapshotStart, FlushInv, TypeOK
<1>4. ASSUME NEW v \in Vessel, SnapshotVisit(v) PROVE FlushComplete'
  <2> DEFINE new == [vessel |-> v, entry |-> entries[v]]
  <2>1. /\ flush'.pc = flush.pc /\ flush'.now = flush.now /\ UNCHANGED steady
        /\ flush'.todo = flush.todo \ {v}
        /\ flush'.batch = IF Fresh(entries[v], flush.now)
                          THEN flush.batch \cup {new} ELSE flush.batch
    BY <1>4 DEF SnapshotVisit, TypeOK, history
  <2>3. v \in steady => Fresh(entries[v], flush.now)
    BY DEF FlushInv
  <2>4. new.vessel = v /\ new.entry = entries[v]
    OBVIOUS
  <2> HIDE DEF new
  <2> QED BY <2>1, <2>3, <2>4
<1>5. CASE SnapshotDone
  BY <1>5 DEF SnapshotDone, TypeOK
<1> QED BY <1>1, <1>2, <1>3, <1>4, <1>5, FlushSteps DEF FlushStep

(* No fresh position is missed by a flush, whatever runs meanwhile.        *)
THEOREM FlushesAreComplete == Spec => []FlushComplete
<1>1. Init => FlushComplete
  BY DEF Init, FlushComplete
<1> QED BY <1>1, TypeCorrect, FlushInvariant, FlushStepKeeps, PTL DEF Spec

-----------------------------------------------------------------------------
(* The deletions.  What a stored position's safety goes by, and the steps  *)
(* that change it.                                                         *)
keptVars == <<now, entries, entry, updating, settled, getVars, eviction>>

LEMMA KeptTimes ==
    ASSUME TypeOK
    PROVE  /\ TTL \in Nat /\ now \in Nat /\ eviction.now \in Nat
           /\ \A v \in Vessel : entry[v] \in Entry => entry[v].at \in Nat
  BY CacheAssumption DEF TypeOK, Entry

(* What is expired for the time an eviction began at is expired now.       *)
LEMMA StaysExpired ==
    \A t, u, a, k \in Int : t <= u /\ t - a > k => ~(u - a <= k)
  OBVIOUS

LEMMA KeptUpdates ==
    ASSUME TypeOK, UpdateInv, KeptInv, NEW v \in Vessel, Update(v) \/ UpdateStep(v)
    PROVE  KeptInv'
<1> USE DEF KeptInv
<1>0. UNCHANGED <<now, eviction, getVars, Doomed>>
  BY DEF Update, UpdateStep, LoadOrStore, Store, AddCount, Doomed, getVars
<1>1. CASE Update(v)
  <2>1. \A w \in settled' : /\ w \in settled /\ w # v
                             /\ updating'[w] = updating[w] /\ entry'[w] = entry[w]
    BY <1>1 DEF Update, TypeOK
  <2>2. UNCHANGED entries
    BY <1>1 DEF Update
  <2> QED BY <1>0, <2>1, <2>2
<1>2. CASE LoadOrStore(v) /\ v \in Present
  <2>1. UNCHANGED <<entries, entry, settled>> /\ v \notin settled
    BY <1>2 DEF LoadOrStore
  <2>2. \A w \in settled : updating'[w] = updating[w]
    BY <1>2, <2>1 DEF LoadOrStore, TypeOK
  <2> QED BY <1>0, <2>1, <2>2
<1>3. ASSUME Put(v), UNCHANGED entry, updating' \in {[updating EXCEPT ![v] = "add"],
                                                     [updating EXCEPT ![v] = "idle"]},
             updating[v] # "idle"
      PROVE  KeptInv'
  <2>1. \A w \in settled' : w \in settled \/ (w = v /\ v \notin Doomed)
    BY <1>3 DEF Put
  <2>2. /\ entries' = [entries EXCEPT ![v] = entry[v]] /\ entry[v] \in Entry
        /\ updating'[v] \in {"idle", "add"}
    BY <1>3 DEF Put, TypeOK
  <2>3. \A w \in Vessel : w # v => updating'[w] = updating[w] /\ entries'[w] = entries[w]
    BY <1>3, <2>2 DEF TypeOK
  <2>4. entries'[v] = entry[v]
    BY <2>2 DEF TypeOK
  <2>5. settled \subseteq Vessel /\ settled' \subseteq Vessel
    BY <2>1 DEF TypeOK
  <2> QED BY <1>0, <1>3, <2>1, <2>2, <2>3, <2>4, <2>5
<1>4. CASE LoadOrStore(v) /\ v \notin Present
  BY <1>3, <1>4 DEF LoadOrStore
<1>5. CASE Store(v)
  BY <1>3, <1>5 DEF Store
<1>6. CASE AddCount(v)
  <2>1. UNCHANGED <<entries, entry, settled>>
    BY <1>6 DEF AddCount, history
  <2>2. \A w \in settled : updating'[w] \in {"idle", "add"}
    BY <1>6 DEF AddCount, TypeOK
  <2> QED BY <1>0, <2>1, <2>2
<1> QED BY <1>1, <1>2, <1>4, <1>5, <1>6 DEF UpdateStep

(* Get and the eviction: the vessel they single out is not one whose       *)
(* settled position is fresh, ...                                          *)
LEMMA KeptDecisions ==
    ASSUME TypeOK, KeptInv, NEW v \in Vessel,
           UNCHANGED <<now, entries, entry, updating, settled>>,
           Doomed' \subseteq Doomed \cup {v}, eviction'.now = eviction.now,
           v \in Present, \E t \in Int : t <= now /\ Expired(entries[v], t)
    PROVE  KeptInv'
<1>1. ASSUME v \in settled, now - entry[v].at <= TTL PROVE FALSE
  <2>1. entries[v] = entry[v] /\ entry[v].at \in Nat
    BY <1>1, KeptTimes DEF KeptInv
  <2>2. PICK t \in Int : t <= now /\ t - entries[v].at > TTL
    BY DEF Expired
  <2> QED BY <1>1, <2>1, <2>2, KeptTimes, StaysExpired
<1> QED BY <1>1 DEF KeptInv

(* ... and what they then delete is the vessel they had singled out.       *)
LEMMA KeptDeletions ==
    ASSUME TypeOK, KeptInv, NEW v \in Doomed, v \in Vessel, Delete(v),
           UNCHANGED <<now, entry, updating, settled>>,
           Doomed' \subseteq Doomed, eviction'.now = eviction.now
    PROVE  KeptInv'
<1>1. \A w \in Vessel : w # v => entries'[w] = entries[w]
  BY DEF Delete, TypeOK
<1>2. settled \subseteq Vessel
  BY DEF TypeOK
<1> QED BY <1>1, <1>2 DEF KeptInv

LEMMA KeptStep ==
    ASSUME TypeOK, UpdateInv, KeptInv, [Next]_vars
    PROVE  KeptInv'
<1>1. CASE UNCHANGED keptVars
  BY <1>1 DEF keptVars, KeptInv, Doomed, getVars
<1>2. CASE UNCHANGED vars
  BY <1>1, <1>2 DEF vars, keptVars, updateVars, history
<1>3. CASE Tick
  <2>1. UNCHANGED <<entries, entry, updating, settled, eviction, Doomed>> /\ now' = now + 1
    BY <1>3 DEF Tick, Doomed, updateVars, getVars, history
  <2>2. ASSUME NEW v \in settled, now' - entry[v].at <= TTL PROVE now - entry[v].at <= TTL
    BY <2>1, <2>2, KeptTimes DEF KeptInv, TypeOK
  <2> QED BY <2>1, <2>2, KeptTimes DEF KeptInv
<1>4. ASSUME NEW v \in Vessel, Update(v) \/ UpdateStep(v) PROVE KeptInv'
  BY <1>4, KeptUpdates
<1>5. ASSUME NEW r \in Reader, GetSubtract(r) PROVE KeptInv'
  BY <1>5 DEF GetSubtract, KeptInv, Doomed, updateVars, history
<1>6. ASSUME NEW r \in Reader, NEW v \in Vessel, Get(r, v) PROVE KeptInv'
  <2>1. /\ UNCHANGED <<now, entries, entry, updating, settled, eviction>>
        /\ v \in Present /\ Expired(entries[v], now)
    BY <1>6 DEF Get, updateVars, history
  <2>2. Doomed' \subseteq Doomed \cup {v}
    BY <1>6 DEF Get, Doomed, TypeOK
  <2> QED BY <2>1, <2>2, KeptTimes, KeptDecisions
<1>7. ASSUME NEW r \in Reader, NEW v \in Vessel, GetDelete(r, v) PROVE KeptInv'
  <2>1. UNCHANGED <<now, entry, updating, settled, eviction>> /\ Delete(v)
    BY <1>7 DEF GetDelete, updateVars
  <2>2. v \in Doomed /\ Doomed' \subseteq Doomed
    BY <1>7 DEF GetDelete, Doomed, TypeOK
  <2> QED BY <2>1, <2>2, KeptDeletions
<1>8. ASSUME NEW v \in Vessel, EvictVisit(v) PROVE KeptInv'
  <2>1. UNCHANGED <<now, entries, entry, updating, settled, getVars>> /\ v \in Present
    BY <1>8 DEF EvictVisit, updateVars, history
  <2>2. eviction'.now = eviction.now
    BY <1>8 DEF EvictVisit, TypeOK
  <2>3. CASE Expired(entries[v], eviction.now)
    <3>1. Doomed' \subseteq Doomed \cup {v}
      BY <1>8, <2>1, <2>3 DEF EvictVisit, Doomed, TypeOK, getVars
    <3>2. eviction.now \in Int /\ eviction.now <= now
      BY KeptTimes DEF KeptInv
    <3> QED BY <2>1, <2>2, <2>3, <3>1, <3>2, KeptDecisions
  <2>4. CASE ~Expired(entries[v], eviction.now)
    <3>1. UNCHANGED Doomed
      BY <1>8, <2>1, <2>4 DEF EvictVisit, Doomed, TypeOK, getVars
    <3> QED BY <2>1, <2>2, <3>1 DEF KeptInv
  <2> QED BY <2>3, <2>4
<1>9. ASSUME NEW v \in Vessel, EvictDelete(v) PROVE KeptInv'
  <2>1. UNCHANGED <<now, entry, updating, settled, getVars>> /\ Delete(v)
    BY <1>9 DEF EvictDelete, updateVars
  <2>2. /\ v \in Doomed /\ Doomed' \subseteq Doomed
        /\ eviction'.now = eviction.now
    BY <1>9 DEF EvictDelete, Doomed, TypeOK, getVars
  <2> QED BY <2>1, <2>2, KeptDeletions
<1>10. ASSUME EvictDone \/ \E more \in SUBSET Vessel : EvictStart(more) PROVE KeptInv'
  <2>1. UNCHANGED <<now, entries, entry, updating, settled, getVars>>
    BY <1>10 DEF EvictDone, EvictStart, updateVars, history
  <2>2. eviction'.now \in {0, now} /\ eviction'.key = eviction.key
    BY <1>10 DEF EvictDone, EvictStart, TypeOK
  <2>3. UNCHANGED Doomed
    BY <2>1, <2>2 DEF Doomed, getVars
  <2> QED BY <2>1, <2>2, <2>3, KeptTimes DEF KeptInv
<1>11. ASSUME FlushStep \/ \E more \in SUBSET Vessel : SnapshotStart(more)
       PROVE  UNCHANGED keptVars
  BY <1>11 DEF FlushStep, SnapshotStart, SnapshotVisit, SnapshotDone, keptVars,
               updateVars, history
<1> QED BY <1>1, <1>2, <1>3, <1>4, <1>5, <1>6, <1>7, <1>8, <1>9, <1>10, <1>11
        DEF Next, EvictStep

(* No deletion is on its way to a position that was stored after it was    *)
(* decided and has not expired.                                            *)
THEOREM DeletionsDecided == Spec => []KeptInv
<1>1. Init => KeptInv
  BY DEF Init, KeptInv
<1> QED BY <1>1, TypeCorrect, UpdatesInOrder, KeptStep, PTL DEF Spec

(* A stored position stays in the cache until it expires, unless a Get or  *)
(* an eviction had already decided to delete the one before it.            *)
THEOREM PositionsKept == Spec => []KeptUntilExpired
<1>1. KeptInv => KeptUntilExpired
  BY DEF KeptInv, KeptUntilExpired
<1> QED BY <1>1, DeletionsDecided, PTL

-----------------------------------------------------------------------------
(* The counter.                                                            *)
LEMMA CounterTypes ==
    ASSUME TypeOK
    PROVE  /\ IsFiniteSet(Present) /\ IsFiniteSet(Adding) /\ IsFiniteSet(Subtracting)
           /\ Cardinality(Present) \in Nat
           /\ Cardinality(Adding) \in Nat
           /\ Cardinality(Subtracting) \in Nat
           /\ count \in Int /\ eviction.evicted \in Nat
<1>1. Present \subseteq Vessel /\ Adding \subseteq Vessel /\ Subtracting \subseteq Reader
  BY DEF Present, Adding, Subtracting
<1>2. IsFiniteSet(Present) /\ IsFiniteSet(Adding) /\ IsFiniteSet(Subtracting)
  BY <1>1, FS_Subset, CacheAssumption
<1> QED BY <1>2, FS_CardinalityType DEF TypeOK

(* One more element counts at most one more, one less at least one less.   *)
LEMMA AddOne ==
    ASSUME NEW S, IsFiniteSet(S), NEW x
    PROVE  /\ Cardinality(S \cup {x}) \in {Cardinality(S), Cardinality(S) + 1}
           /\ x \notin S => Cardinality(S \cup {x}) = Cardinality(S) + 1
  BY FS_AddElement

LEMMA TakeOne ==
    ASSUME NEW S, IsFiniteSet(S), NEW x
    PROVE  /\ Cardinality(S \ {x}) \in {Cardinality(S), Cardinality(S) - 1}
           /\ x \in S => Cardinality(S \ {x}) = Cardinality(S) - 1
  BY FS_RemoveElement

counterVars == <<entries, count, updating, getting, eviction>>

LEMMA CounterUpdates ==
    ASSUME TypeOK, NeverOvercounts, NEW v \in Vessel, Update(v) \/ UpdateStep(v)
    PROVE  NeverOvercounts'
<1> USE CounterTypes
<1>0. UNCHANGED <<getting, eviction>> /\ UNCHANGED Subtracting
  BY DEF Update, UpdateStep, LoadOrStore, Store, AddCount, Subtracting, getVars
<1>1. CASE UNCHANGED <<Present, Adding, count>>
  BY <1>0, <1>1 DEF NeverOvercounts
<1>2. CASE Update(v)
  <2>1. UNCHANGED <<Present, Adding, count>>
    BY <1>2 DEF Update, Present, Adding, TypeOK
  <2> QED BY <1>1, <2>1
<1>3. CASE LoadOrStore(v) /\ v \in Present
  <2>1. UNCHANGED <<Present, Adding, count>>
    BY <1>3 DEF LoadOrStore, Present, Adding, TypeOK
  <2> QED BY <1>1, <2>1
<1>4. CASE LoadOrStore(v) /\ v \notin Present
  <2>1. Present' = Present \cup {v} /\ Adding' = Adding \cup {v} /\ UNCHANGED count
    BY <1>4, EntryIsSomething DEF LoadOrStore, Present, Adding, TypeOK, Put
  <2>2. v \notin Adding
    BY <1>4 DEF LoadOrStore, Adding
  <2>3. Cardinality(Present') = Cardinality(Present) + 1
    BY <1>4, <2>1, AddOne
  <2>4. Cardinality(Adding') = Cardinality(Adding) + 1
    BY <2>1, <2>2, AddOne
  <2> QED BY <1>0, <2>1, <2>3, <2>4 DEF NeverOvercounts
<1>5. CASE Store(v)
  <2>1. Present' = Present \cup {v} /\ UNCHANGED <<Adding, count>>
    BY <1>5, EntryIsSomething DEF Store, Present, Adding, TypeOK, Put
  <2>2. Cardinality(Present') >= Cardinality(Present)
    BY <2>1, AddOne
  <2>3. Cardinality(Present') \in Nat
    BY <2>1, AddOne
  <2> QED BY <1>0, <2>1, <2>2, <2>3 DEF NeverOvercounts
<1>6. CASE AddCount(v)
  <2>1. Adding' = Adding \ {v} /\ v \in Adding /\ UNCHANGED Present /\ count' = count + 1
    BY <1>6 DEF AddCount, Present, Adding, TypeOK
  <2>2. Cardinality(Adding') = Cardinality(Adding) - 1
    BY <2>1, TakeOne
  <2> QED BY <1>0, <2>1, <2>2 DEF NeverOvercounts
<1> QED BY <1>2, <1>3, <1>4, <1>5, <1>6 DEF UpdateStep

LEMMA CounterDeletions ==
    ASSUME TypeOK, NEW v \in Vessel, Delete(v)
    PROVE  /\ Cardinality(Present') \in Nat
           /\ Cardinality(Present') >= Cardinality(Present) - 1
<1>1. Present' = Present \ {v}
  BY DEF Delete, Present, TypeOK
<1>2. Cardinality(Present') \in Nat
  BY <1>1, CounterTypes, FS_RemoveElement, FS_CardinalityType
<1> QED BY <1>1, <1>2, CounterTypes, TakeOne

LEMMA CounterStep ==
    ASSUME TypeOK, NeverOvercounts, [Next]_vars
    PROVE  NeverOvercounts'
<1> USE CounterTypes
<1>0. CASE UNCHANGED counterVars
  BY <1>0 DEF counterVars, NeverOvercounts, Present, Adding, Subtracting
<1>1. CASE UNCHANGED vars \/ Tick
  BY <1>0, <1>1 DEF counterVars, vars, Tick, updateVars, getVars
<1>2. ASSUME NEW v \in Vessel, Update(v) \/ UpdateStep(v) PROVE NeverOvercounts'
  BY <1>2, CounterUpdates
<1>3. ASSUME NEW r \in Reader, GetSubtract(r) PROVE NeverOvercounts'
  <2>1. /\ UNCHANGED <<Present, Adding, eviction>> /\ count' = count - 1
        /\ Subtracting' = Subtracting \ {r} /\ r \in Subtracting
    BY <1>3 DEF GetSubtract, Present, Adding, Subtracting, TypeOK, updateVars
  <2>2. Cardinality(Subtracting') = Cardinality(Subtracting) - 1
    BY <2>1, TakeOne
  <2> QED BY <2>1, <2>2 DEF NeverOvercounts
<1>4. ASSUME NEW r \in Reader, NEW v \in Vessel, GetDelete(r, v) PROVE NeverOvercounts'
  <2>1. /\ UNCHANGED <<Adding, eviction, count>> /\ Delete(v)
        /\ Subtracting' = Subtracting \cup {r} /\ r \notin Subtracting
    BY <1>4 DEF GetDelete, Adding, Subtracting, TypeOK, updateVars
  <2>2. Cardinality(Subtracting') = Cardinality(Subtracting) + 1
    BY <2>1, AddOne
  <2> QED BY <2>1, <2>2, CounterDeletions DEF NeverOvercounts
<1>5. ASSUME NEW v \in Vessel, EvictDelete(v) PROVE NeverOvercounts'
  <2>1. /\ UNCHANGED <<Adding, Subtracting, count>> /\ Delete(v)
        /\ eviction'.evicted = eviction.evicted + 1
    BY <1>5 DEF EvictDelete, Adding, Subtracting, TypeOK, updateVars, getVars
  <2> QED BY <2>1, CounterDeletions DEF NeverOvercounts
<1>6. CASE EvictDone
  <2>1. /\ UNCHANGED <<Present, Adding, Subtracting>>
        /\ count' = count - eviction.evicted /\ eviction'.evicted = 0
    BY <1>6 DEF EvictDone, LessEvicted, Present, Adding, Subtracting, TypeOK,
                updateVars, getVars
  <2> QED BY <2>1 DEF NeverOvercounts
<1>7. CASE UNCHANGED <<entries, count, updating, getting, eviction.evicted>>
  BY <1>7 DEF NeverOvercounts, Present, Adding, Subtracting
<1>8. ASSUME NEW v \in Vessel, EvictVisit(v) PROVE NeverOvercounts'
  <2>1. UNCHANGED <<entries, count, updating, getting, eviction.evicted>>
    BY <1>8 DEF EvictVisit, TypeOK, updateVars, getVars
  <2> QED BY <1>7, <2>1
<1>9. ASSUME NEW r \in Reader, NEW v \in Vessel, Get(r, v) PROVE NeverOvercounts'
  <2>1. UNCHANGED <<Present, Adding, Subtracting, count, eviction>>
    BY <1>9 DEF Get, Present, Adding, Subtracting, TypeOK, updateVars
  <2> QED BY <2>1 DEF NeverOvercounts
<1>10. ASSUME NEW v \in Vessel, SnapshotVisit(v) PROVE UNCHANGED counterVars
  BY <1>10 DEF SnapshotVisit, counterVars, updateVars, getVars
<1>11. SnapshotDone => UNCHANGED counterVars
  BY DEF SnapshotDone, counterVars, updateVars, getVars
<1>12. ASSUME NEW more \in SUBSET Vessel, EvictStart(more) PROVE NeverOvercounts'
  <2>1. UNCHANGED <<entries, count, updating, getting, eviction.evicted>>
    BY <1>12 DEF EvictStart, TypeOK, updateVars, getVars
  <2> QED BY <1>7, <2>1
<1>13. ASSUME NEW more \in SUBSET Vessel, SnapshotStart(more) PROVE UNCHANGED counterVars
  BY <1>13 DEF SnapshotStart, counterVars, updateVars, getVars
<1>14. CASE EvictStep
  BY <1>5, <1>6, <1>8, <1>14 DEF EvictStep
<1>15. CASE FlushStep
  BY <1>0, <1>10, <1>11, <1>15 DEF FlushStep
<1> QED BY <1>0, <1>1, <1>2, <1>3, <1>4, <1>9, <1>12, <1>13, <1>14, <1>15 DEF Next

(* The counter, corrected for the calls under way, never exceeds the       *)
(* number of entries.                                                      *)
THEOREM CounterNeverOver == Spec => []NeverOvercounts
<1>1. Init => NeverOvercounts
  <2>1. Init => /\ Present = {} /\ Adding = {} /\ Subtracting = {}
                /\ count = 0 /\ eviction.evicted = 0
    BY DEF Init, Present, Adding, Subtracting
  <2> QED BY <2>1, FS_EmptySet DEF NeverOvercounts
<1> QED BY <1>1, TypeCorrect, CounterStep, PTL DEF Spec
=============================================================================
