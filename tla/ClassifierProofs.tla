-------------------------- MODULE ClassifierProofs --------------------------
(***************************************************************************)
(* Proofs about the classification stage, for every number of workers,     *)
(* vessels, zones, channel capacities and every timing.                    *)
(***************************************************************************)
EXTENDS Classifier, TLAPS, SequenceTheorems, FiniteSetTheorems, WellFoundedInduction

(* A non-empty set of natural numbers has a least element.                 *)
LEMMA LeastNatural ==
    ASSUME NEW S, S \subseteq Nat, S # {}
    PROVE  \E i \in S : \A j \in S : i <= j
<1> DEFINE R == {ss \in Nat \X Nat : ss[1] < ss[2]}
<1>1. IsWellFoundedOn(R, Nat)
  BY NatLessThanWellFounded DEF OpToRel
<1>2. PICK i \in S : \A j \in S : <<j, i>> \notin R
  <2> HIDE DEF R
  <2> QED BY <1>1, WFMin
<1>3. ASSUME NEW j \in S PROVE i <= j
  <2>1. <<j, i>> \notin R
    BY <1>2
  <2>2. ~ (j < i)
    BY <2>1
  <2> QED BY <2>2
<1> QED BY <1>3

(* The first zone with an id is a zone of the sequence with that id.       *)
LEMMA IndexOfProperties ==
    ASSUME NEW s \in Seq(Zone), NEW id, IndicesOf(s, id) # {}
    PROVE  /\ IndexOf(s, id) \in 1..Len(s)
           /\ s[IndexOf(s, id)].id = id
<1>1. IndicesOf(s, id) \subseteq 1..Len(s)
  BY LenProperties DEF IndicesOf
<1>2. \E i \in IndicesOf(s, id) : \A j \in IndicesOf(s, id) : i <= j
  BY <1>1, LenProperties, LeastNatural
<1>3. IndexOf(s, id) \in IndicesOf(s, id)
  BY <1>2, Zenon DEF IndexOf
<1> QED BY <1>1, <1>3 DEF IndicesOf

(* Both operations keep the zones a sequence of zones.                     *)
LEMMA PutType ==
    ASSUME NEW s \in Seq(Zone), NEW z \in Zone
    PROVE  Put(s, z) \in Seq(Zone)
<1>1. CASE IndicesOf(s, z.id) = {}
  BY <1>1, AppendProperties DEF Put
<1>2. CASE IndicesOf(s, z.id) # {}
  BY <1>2, IndexOfProperties, ExceptSeq DEF Put, ReplaceAt
<1> QED BY <1>1, <1>2

(* RemoveAt drops one position.                                            *)
LEMMA RemoveAtType ==
    ASSUME NEW S, NEW s \in Seq(S), NEW k \in 1..Len(s)
    PROVE  RemoveAt(s, k) \in Seq(S)
<1> DEFINE a == SubSeq(s, 1, k - 1)
           b == SubSeq(s, k + 1, Len(s))
<1>1. Len(s) \in Nat /\ \A i \in 1..Len(s) : s[i] \in S
  BY LenProperties, ElementOfSeq
<1>2. a \in Seq(S)
  <2>1. \A i \in 1..(k - 1) : s[i] \in S
    BY <1>1
  <2> QED BY <2>1, <1>1, SubSeqProperties
<1>3. b \in Seq(S)
  <2>1. \A i \in (k + 1)..Len(s) : s[i] \in S
    BY <1>1
  <2> QED BY <2>1, <1>1, SubSeqProperties
<1> HIDE DEF a, b
<1>4. a \o b \in Seq(S)
  BY <1>2, <1>3, ConcatProperties
<1> QED BY <1>4 DEF RemoveAt, a, b

LEMMA WithoutType ==
    ASSUME NEW s \in Seq(Zone), NEW id
    PROVE  Without(s, id) \in Seq(Zone)
  BY IndexOfProperties, RemoveAtType DEF Without

(* The zones of a sequence as a set.                                       *)
LEMMA ToSetElements ==
    ASSUME NEW S, NEW s \in Seq(S)
    PROVE  ToSet(s) = {s[i] : i \in 1..Len(s)}
  BY LenProperties DEF ToSet

-----------------------------------------------------------------------------
(* What Check returns are zones.                                           *)
LEMMA CheckType ==
    ASSUME TypeOK, NEW p
    PROVE  Check(p) \subseteq Zone
<1>1. zones \in Seq(Zone)
  BY DEF TypeOK
<1>2. \A i \in 1..Len(zones) : zones[i] \in Zone
  BY <1>1, ElementOfSeq
<1> QED BY <1>1, <1>2, ToSetElements DEF Check

LEMMA IdleSweepType == IdleSweep \in Sweep /\ IdleSweep.pc = "wait"
<1>1. {} \in SUBSET Vessel /\ 0 \in Int
  OBVIOUS
<1> QED BY <1>1 DEF IdleSweep, Sweep

LEMMA TypeInit ==
    ASSUME Init
    PROVE  TypeOK
<1>1. zones \in Seq(Zone)
  BY ZoneFileAssumption, EmptySeq DEF Init, LoadFromFile
<1>2. queue \in [Worker -> Seq(Record)] /\ violations \in Seq(ViolationEvent)
  BY EmptySeq DEF Init
<1>3. sweep \in Sweep /\ sweep.pc = "wait"
  BY IdleSweepType DEF Init
<1>4. /\ job \in [Worker -> Job \cup {NoJob}]
      /\ out \in [Worker -> Outgoing \cup {NoEvent}]
      /\ \A w \in Worker : pc[w] = "idle"
  BY DEF Init
<1>5. vesselZones \in [Vessel -> [ZoneID -> Nat \cup {Absent}]]
  BY DEF Init, EmptyTracker
<1> QED BY <1>1, <1>2, <1>3, <1>4, <1>5 DEF Init, TypeOK, Emitting

-----------------------------------------------------------------------------
(* Type correctness, a lemma for each goroutine.                           *)
LEMMA TypeDispatch ==
    ASSUME TypeOK, NEW v \in Vessel, NEW p \in Point, Dispatch(v, p)
    PROVE  TypeOK'
  BY ClassifierAssumption, AppendProperties, ZenonT(40)
     DEF TypeOK, Dispatch, Record, trackerVars, channelVars, lifeVars

LEMMA TypeReceive ==
    ASSUME TypeOK, NEW w \in Worker, Receive(w)
    PROVE  TypeOK'
<1>1. Head(queue[w]) \in Record /\ Tail(queue[w]) \in Seq(Record)
  BY HeadTailProperties DEF TypeOK, Receive
<1>2. NewJob(Head(queue[w])) \in Job
  BY <1>1, CheckType DEF NewJob, Job, Record, Zone
<1> QED BY <1>1, <1>2 DEF TypeOK, Receive, At, Record, Emitting, trackerVars, channelVars, lifeVars

LEMMA TypeTrack ==
    ASSUME TypeOK, NEW w \in Worker, Track(w)
    PROVE  TypeOK'
  BY DEF TypeOK, Track, At, Job, Emitting, EmptyTracker, channelVars, lifeVars

LEMMA TypeTakeHit ==
    ASSUME TypeOK, NEW w \in Worker, NEW h \in Zone, TakeHit(w, h)
    PROVE  TypeOK'
<1>1. /\ job[w] \in Job
      /\ job' \in [Worker -> Job \cup {NoJob}]
      /\ \A u \in Worker : u # w => job'[u] = job[u]
      /\ job'[w] \in Job
  BY DEF TypeOK, TakeHit, At, Job
<1>2. h.id \in ZoneID /\ h.severity \in Severity
  BY DEF Zone
<1>3. ASSUME NEW kind \in {"ENTER", "HEARTBEAT"}, Announce(w, h.id, h.severity, kind, now)
      PROVE  /\ out' \in [Worker -> Outgoing \cup {NoEvent}]
             /\ \A u \in Worker : u # w => out'[u] = out[u] /\ pc'[u] = pc[u]
             /\ out'[w] \in Outgoing /\ pc'[w] = "emit"
             /\ pc' \in [Worker -> {"idle", "track", "zones", "emit", "drop", "send",
                                    "record", "stopped"}]
  BY <1>1, <1>2, <1>3, ZenonT(40) DEF TypeOK, Announce, Outgoing, ViolationEvent, Job
<1>4. \/ UNCHANGED <<pc, out>>
      \/ \E kind \in {"ENTER", "HEARTBEAT"} : Announce(w, h.id, h.severity, kind, now)
  BY DEF TakeHit
<1>5. pc[w] = "zones" /\ UNCHANGED <<zones, now, queue, trackerVars, cache, sweep,
                                   channelVars, lifeVars, disturbed, reloaded>>
  BY DEF TakeHit, At
<1>6. CASE UNCHANGED <<pc, out>>
  BY <1>1, <1>5, <1>6 DEF TypeOK, trackerVars, channelVars, lifeVars
<1>7. CASE \E kind \in {"ENTER", "HEARTBEAT"} : Announce(w, h.id, h.severity, kind, now)
  BY <1>1, <1>3, <1>5, <1>7 DEF TypeOK, trackerVars, channelVars, lifeVars
<1> QED BY <1>4, <1>6, <1>7

LEMMA TypeFindExit ==
    ASSUME TypeOK, NEW w \in Worker, NEW z \in ZoneID, FindExit(w, z)
    PROVE  TypeOK'
  BY ZenonT(40) DEF TypeOK, FindExit, At, Announce, Job, Outgoing, ViolationEvent, Emitting,
         trackerVars, channelVars, lifeVars

LEMMA TypeFinishRecord ==
    ASSUME TypeOK, NEW w \in Worker, FinishRecord(w)
    PROVE  TypeOK'
  BY DEF TypeOK, FinishRecord, At, Emitting, trackerVars, channelVars, lifeVars
LEMMA TypeEnqueue ==
    ASSUME TypeOK, NEW w \in Worker, pc[w] \in {"emit", "send"}, Enqueue(w),
           UNCHANGED <<zones, now, queue, job, out, trackerVars, cache, sweep,
                       lifeVars, disturbed, reloaded>>
    PROVE  TypeOK'
<1>1. out[w].event \in ViolationEvent
  BY DEF TypeOK, Outgoing, Emitting
<1>2. Append(violations, out[w].event) \in Seq(ViolationEvent)
  BY <1>1, AppendProperties DEF TypeOK
<1> QED BY <1>1, <1>2, ZenonT(40) DEF TypeOK, Enqueue, ViolationEvent, Emitting, trackerVars, lifeVars

LEMMA EventPair ==
    ASSUME NEW e \in ViolationEvent
    PROVE  <<e.vessel, e.zone>> \in Vessel \X ZoneID
  BY DEF ViolationEvent

LEMMA TypeEmit ==
    ASSUME TypeOK, NEW w \in Worker, Emit(w) \/ DropOldest(w) \/ Send(w)
    PROVE  TypeOK'
<1>1. CASE (Emit(w) \/ Send(w)) /\ Enqueue(w)
  BY <1>1, TypeEnqueue DEF Emit, Send, At
<1>2. CASE Emit(w) /\ ChannelFull(w)
  BY <1>2 DEF TypeOK, Emit, ChannelFull, At, Emitting, trackerVars, channelVars, lifeVars
<1>3. CASE DropOldest(w)
  <2>1. WithoutOldest(violations) \in Seq(ViolationEvent)
    BY HeadTailProperties DEF TypeOK, WithoutOldest
  <2>2. LastOfPair \subseteq Vessel \X ZoneID
    <3>1. \A i \in DOMAIN violations : violations[i] \in ViolationEvent
      BY ElementOfSeq, LenProperties DEF TypeOK
    <3>2. \A i \in DOMAIN violations :
             <<violations[i].vessel, violations[i].zone>> \in Vessel \X ZoneID
      BY <3>1, EventPair
    <3> QED BY <3>2 DEF LastOfPair
  <2>3. discarded' \subseteq Vessel \X ZoneID
    BY <1>3, <2>2 DEF DropOldest, TypeOK
  <2> QED BY <1>3, <2>1, <2>3 DEF TypeOK, DropOldest, At, Emitting, trackerVars, lifeVars
<1> QED BY <1>1, <1>2, <1>3 DEF Emit, Send

LEMMA TypeRecordSeen ==
    ASSUME TypeOK, NEW w \in Worker, RecordSeen(w)
    PROVE  TypeOK'
<1>1. out[w] \in Outgoing
  BY DEF TypeOK, RecordSeen, At, Emitting
<1>2. vesselZones' \in [Vessel -> [ZoneID -> Nat \cup {Absent}]]
  BY <1>1 DEF TypeOK, RecordSeen, Outgoing, ViolationEvent
<1> QED BY <1>1, <1>2 DEF TypeOK, RecordSeen, At, Emitting, channelVars, lifeVars

LEMMA DifferenceType == \A m, n \in Nat : m - n \in Int
  OBVIOUS

LEMMA TypeSweep ==
    ASSUME TypeOK, SweepStep \/ SweepStop \/ \E more \in SUBSET Vessel : SweepStart(more)
    PROVE  TypeOK'
<1> USE DEF TypeOK, SweepAt, Sweep, workerVars, trackerVars, channelVars, lifeVars
<1>1. ASSUME NEW more \in SUBSET Vessel, SweepStart(more) PROVE TypeOK'
  <2>1. now - StaleAfter \in Int
    <3>1. StaleAfter \in Nat
      BY ClassifierAssumption
    <3>2. now \in Nat
      OBVIOUS
    <3> QED BY <3>1, <3>2, DifferenceType
  <2>2. sweep' \in Sweep /\ sweep'.pc = "visit"
    BY <1>1, <2>1 DEF SweepStart
  <2> QED BY <1>1, <2>2 DEF SweepStart
<1>2. ASSUME NEW v \in Vessel, SweepVisit(v) PROVE TypeOK'
  BY <1>2 DEF SweepVisit
<1>3. ASSUME NEW z \in ZoneID, SweepFindStale(z) PROVE TypeOK'
  BY <1>3 DEF SweepFindStale
<1>4. CASE SweepExpire
  BY <1>4 DEF SweepExpire
<1>5. CASE SweepZonesDone
  BY <1>5 DEF SweepZonesDone
<1>6. CASE SweepUnlink
  BY <1>6 DEF SweepUnlink
<1>7. CASE SweepDone
  BY <1>7, IdleSweepType DEF SweepDone
<1>8. CASE SweepStop
  BY <1>8 DEF SweepStop
<1> QED BY <1>1, <1>2, <1>3, <1>4, <1>5, <1>6, <1>7, <1>8 DEF SweepStep

LEMMA TypeWorld ==
    ASSUME TypeOK,
           \/ \E w \in Worker : Stop(w)
           \/ Publish \/ StopPublishing \/ Close \/ Cancel \/ Tick \/ ReloadZones
           \/ MapRaceFatal
    PROVE  TypeOK'
<1> USE DEF TypeOK, workerVars, trackerVars, channelVars, lifeVars
<1>1. ASSUME NEW w \in Worker, Stop(w) PROVE TypeOK'
  BY <1>1 DEF Stop, At, Emitting
<1>2. CASE Publish
  <2>1. violations' \in Seq(ViolationEvent) /\ Head(violations) \in ViolationEvent
    BY <1>2, HeadTailProperties DEF Publish, Ready
  <2>2. received' \subseteq received \cup {<<Head(violations).vessel, Head(violations).zone>>}
    BY <1>2 DEF Publish
  <2>3. received' \subseteq Vessel \X ZoneID
    BY <2>1, <2>2, EventPair
  <2> QED BY <1>2, <2>1, <2>3 DEF Publish
<1>3. CASE StopPublishing \/ Close \/ Cancel \/ MapRaceFatal
  BY <1>3 DEF StopPublishing, Close, Cancel, MapRaceFatal
<1>4. CASE Tick
  BY <1>4 DEF Tick
<1>5. CASE ReloadZones
  <2>1. PICK z \in Zone : AddZone(z) \/ RemoveZone(z.id)
    BY <1>5, ClassifierAssumption DEF ReloadZones
  <2>2. zones' \in Seq(Zone)
    BY <2>1, PutType, WithoutType DEF AddZone, RemoveZone
  <2> QED BY <1>5, <2>2 DEF ReloadZones
<1> QED BY <1>1, <1>2, <1>3, <1>4, <1>5

LEMMA TypeStep ==
    ASSUME TypeOK, [Next]_vars
    PROVE  TypeOK'
<1>1. CASE UNCHANGED vars
  BY <1>1 DEF TypeOK, vars, workerVars, trackerVars, channelVars, lifeVars
<1>2. ASSUME NEW w \in Worker, WorkerStep(w)
      PROVE  TypeOK'
  BY <1>2, TypeReceive, TypeTrack, TypeTakeHit, TypeFindExit, TypeFinishRecord, TypeEmit,
     TypeRecordSeen DEF WorkerStep
<1> QED BY <1>1, <1>2, TypeDispatch, TypeSweep, TypeWorld DEF Next

(* Every variable keeps its type: the queues and the channel hold records  *)
(* and events, a busy worker has a job, a sending one an event.            *)
THEOREM TypeCorrect == Spec => []TypeOK
  BY TypeInit, TypeStep, PTL DEF Spec
-----------------------------------------------------------------------------
(* The alert feed: FeedInv is inductive, a lemma for each kind of step.    *)
LEMMA FeedInit ==
    ASSUME Init
    PROVE  FeedInv
<1>1. \A w \in Worker : pc[w] = "idle" /\ DOMAIN queue[w] = {}
  BY DEF Init
<1>2. \A v \in Vessel, z \in ZoneID : vesselZones[v][z] = Absent
  BY DEF Init, EmptyTracker
<1> QED BY <1>1, <1>2 DEF FeedInv, OwnVessels, PendingInOpenVisit, TrackedInOpenVisit, Emitting

LEMMA FeedForget ==
    ASSUME FeedInv, UNCHANGED <<workerVars, feed>>,
           \A v \in Vessel, z \in ZoneID :
               vesselZones'[v][z] \in {Absent, vesselZones[v][z]}
    PROVE  FeedInv'
  BY DEF FeedInv, OwnVessels, PendingInOpenVisit, TrackedInOpenVisit, Open, workerVars

LEMMA FeedDispatch ==
    ASSUME TypeOK, FeedInv, NEW v \in Vessel, NEW p \in Point, Dispatch(v, p)
    PROVE  FeedInv'
<1> DEFINE w == ShardOf[v]
           r == [vessel |-> v, point |-> p]
<1>1. w \in Worker /\ r \in Record
  BY ClassifierAssumption DEF Record
<1>2. /\ queue[w] \in Seq(Record)
      /\ \A u \in Worker : queue'[u] = IF u = w THEN Append(queue[w], r) ELSE queue[u]
  BY <1>1 DEF Dispatch, TypeOK
<1>3. ASSUME NEW u \in Worker, NEW i \in DOMAIN queue'[u]
      PROVE  ShardOf[queue'[u][i].vessel] = u
  <2>1. CASE u # w
    BY <1>2, <1>3, <2>1 DEF FeedInv, OwnVessels
  <2>2. CASE u = w
    <3> DEFINE q == Append(queue[w], r)
    <3>0. queue'[w] = q /\ i \in DOMAIN q
      BY <1>1, <1>2, <1>3, <2>2
    <3>a. /\ q \in Seq(Record)
          /\ Len(q) = Len(queue[w]) + 1
          /\ \A j \in 1..Len(queue[w]) : q[j] = queue[w][j]
          /\ q[Len(queue[w]) + 1] = r
      BY <1>1, <1>2, AppendProperties
    <3> HIDE DEF q
    <3>b. DOMAIN q = 1..Len(q) /\ DOMAIN queue[w] = 1..Len(queue[w]) /\ Len(queue[w]) \in Nat
      BY <1>2, <3>a, LenProperties
    <3>1. \/ i \in DOMAIN queue[w] /\ queue'[w][i] = queue[w][i]
          \/ queue'[w][i] = r
      BY <3>0, <3>a, <3>b
    <3> QED BY <1>1, <2>2, <3>1 DEF FeedInv, OwnVessels
  <2> QED BY <2>1, <2>2
<1> QED BY <1>3, SMTT(60) DEF FeedInv, OwnVessels, PendingInOpenVisit, TrackedInOpenVisit, Open, Emitting,
                    Dispatch, trackerVars, channelVars

LEMMA FeedReceive ==
    ASSUME TypeOK, FeedInv, NEW w \in Worker, Receive(w)
    PROVE  FeedInv'
<1> DEFINE r == Head(queue[w])
<1>1. queue[w] \in Seq(Record) /\ queue[w] # << >>
  BY DEF TypeOK, Receive
<1>2. /\ r = queue[w][1] /\ 1 \in DOMAIN queue[w]
      /\ \A i \in DOMAIN Tail(queue[w]) :
            i + 1 \in DOMAIN queue[w] /\ Tail(queue[w])[i] = queue[w][i + 1]
  BY <1>1, HeadTailProperties, LenProperties, EmptySeq
<1>3. /\ ShardOf[r.vessel] = w
      /\ \A i \in DOMAIN Tail(queue[w]) : ShardOf[Tail(queue[w])[i].vessel] = w
  BY <1>2 DEF FeedInv, OwnVessels
<1>4. /\ \A u \in Worker : queue'[u] = IF u = w THEN Tail(queue[w]) ELSE queue[u]
      /\ \A u \in Worker : pc'[u] = IF u = w THEN "track" ELSE pc[u]
      /\ \A u \in Worker : job'[u] = IF u = w THEN NewJob(r) ELSE job[u]
      /\ UNCHANGED <<out, vesselZones, feed>>
      /\ pc[w] = "idle"
  BY DEF TypeOK, Receive, At, trackerVars, channelVars
<1> HIDE DEF r
<1>5. OwnVessels'
  <2>1. job'[w].vessel = r.vessel
    <3>1. NewJob(r).vessel = r.vessel
      BY Zenon DEF NewJob
    <3> QED BY <1>4, <3>1
  <2>2. ASSUME NEW u \in Worker, NEW i \in DOMAIN queue'[u]
        PROVE  ShardOf[queue'[u][i].vessel] = u
    <3>1. CASE u = w
      BY <1>3, <1>4, <2>2, <3>1
    <3>2. CASE u # w
      BY <1>4, <2>2, <3>2 DEF FeedInv, OwnVessels
    <3> QED BY <3>1, <3>2
  <2>3. ASSUME NEW u \in Worker
        PROVE  /\ pc'[u] \notin {"idle", "stopped"} => ShardOf[job'[u].vessel] = u
               /\ pc'[u] \in Emitting => /\ out'[u].event.vessel = job'[u].vessel
                                         /\ out'[u].event.kind = "EXIT" => out'[u].seen = Absent
    BY <1>3, <1>4, <2>1 DEF FeedInv, OwnVessels, Emitting
  <2> QED BY <2>2, <2>3 DEF OwnVessels, Emitting
<1>6. PendingInOpenVisit' /\ TrackedInOpenVisit'
  BY <1>4, ClassifierAssumption DEF FeedInv, PendingInOpenVisit, TrackedInOpenVisit, Open
<1> QED BY <1>5, <1>6 DEF FeedInv

(* The steps of a worker that send nothing and remember nothing new.       *)
LEMMA FeedQuiet ==
    ASSUME TypeOK, FeedInv, NEW w \in Worker,
           Track(w) \/ FinishRecord(w) \/ Stop(w)
                    \/ DropOldest(w) \/ (Emit(w) /\ ChannelFull(w))
    PROVE  FeedInv'
<1>1. /\ pc[w] \notin {"record", "stopped"}
      /\ \A u \in Worker : u # w => pc'[u] = pc[u] /\ job'[u] = job[u]
      /\ \/ pc[w] = "track" /\ pc'[w] = "zones" /\ job'[w] = job[w]
         \/ pc[w] \in {"zones", "idle"} /\ pc'[w] \in {"idle", "stopped"}
         \/ pc[w] \in {"emit", "drop"} /\ pc'[w] \in {"drop", "send"} /\ job'[w] = job[w]
      /\ UNCHANGED <<queue, out, feed>>
  BY DEF TypeOK, Track, FinishRecord, Stop, DropOldest, Emit, ChannelFull, At, channelVars
<1>2. \A v \in Vessel, z \in ZoneID : vesselZones'[v][z] \in {Absent, vesselZones[v][z]}
  <2>1. CASE Track(w)
    <3>1. vesselZones' \in {vesselZones, [vesselZones EXCEPT ![job[w].vessel] = EmptyTracker]}
      BY <2>1 DEF Track
    <3>2. vesselZones \in [Vessel -> [ZoneID -> Nat \cup {Absent}]]
      BY DEF TypeOK
    <3> QED BY <3>1, <3>2 DEF EmptyTracker
  <2>2. CASE ~ Track(w)
    <3>1. vesselZones' = vesselZones
      BY <2>2 DEF FinishRecord, Stop, DropOldest, Emit, trackerVars
    <3> QED BY <3>1
  <2> QED BY <2>1, <2>2
<1>3. OwnVessels'
  BY <1>1 DEF FeedInv, OwnVessels, Emitting
<1>4. PendingInOpenVisit'
  BY <1>1 DEF FeedInv, PendingInOpenVisit, Open
<1>5. TrackedInOpenVisit'
  BY <1>1, <1>2, ClassifierAssumption DEF FeedInv, TrackedInOpenVisit, Open
<1> QED BY <1>3, <1>4, <1>5 DEF FeedInv

(* A heartbeat or an exit is decided on for a tracked zone.                *)
LEMMA FeedDecide ==
    ASSUME TypeOK, FeedInv, NEW w \in Worker,
           \/ \E h \in Zone : TakeHit(w, h)
           \/ \E z \in ZoneID : FindExit(w, z)
    PROVE  FeedInv'
<1>1. /\ pc[w] = "zones" /\ job[w] \in Job /\ job[w].vessel \in Vessel
      /\ UNCHANGED <<queue, vesselZones, feed>>
      /\ job'[w].vessel = job[w].vessel
      /\ \A u \in Worker : u # w => job'[u] = job[u]
  <2>1. pc[w] = "zones" /\ job[w] \in Job /\ job[w].vessel \in Vessel
    BY DEF TypeOK, Job, TakeHit, FindExit, At
  <2>2. UNCHANGED <<queue, vesselZones, feed>>
    BY DEF TakeHit, FindExit, trackerVars, channelVars
  <2>3. (\E h \in Zone : job' = [job EXCEPT ![w].hits = @ \ {h}]) \/ job' = job
    BY DEF TakeHit, FindExit
  <2>4. /\ job'[w].vessel = job[w].vessel
        /\ \A u \in Worker : u # w => job'[u] = job[u]
    BY <2>1, <2>3 DEF TypeOK, Job
  <2> QED BY <2>1, <2>2, <2>4
<1>2. CASE UNCHANGED <<pc, out>>
  BY <1>1, <1>2 DEF FeedInv, OwnVessels, PendingInOpenVisit, TrackedInOpenVisit, Open, Emitting
<1>3. ASSUME NEW z \in ZoneID, NEW s, NEW kind, NEW seen, Announce(w, z, s, kind, seen),
             kind # "ENTER" => vesselZones[job[w].vessel][z] # Absent,
             kind = "EXIT" => seen = Absent
      PROVE  FeedInv'
  <2>1. /\ pc'[w] = "emit"
        /\ out'[w].event.vessel = job[w].vessel /\ out'[w].event.zone = z
        /\ out'[w].event.kind = kind /\ out'[w].seen = seen
        /\ \A u \in Worker : u # w => pc'[u] = pc[u] /\ out'[u] = out[u]
    BY <1>3 DEF Announce, TypeOK
  <2>2. OwnVessels'
    BY <1>1, <1>3, <2>1 DEF FeedInv, OwnVessels, Emitting
  <2>3. ShardOf[job[w].vessel] = w
    BY <1>1 DEF FeedInv, OwnVessels
  <2>4. kind # "ENTER" => Open(job[w].vessel, z)
    BY <1>1, <1>3, <2>3 DEF FeedInv, TrackedInOpenVisit
  <2>5. PendingInOpenVisit'
    BY <1>1, <2>1, <2>4 DEF FeedInv, PendingInOpenVisit, Open
  <2>6. TrackedInOpenVisit'
    BY <1>1, <2>1, ClassifierAssumption DEF FeedInv, TrackedInOpenVisit, Open
  <2> QED BY <2>2, <2>5, <2>6 DEF FeedInv
<1>4. ASSUME NEW h \in Zone, TakeHit(w, h)
      PROVE  FeedInv'
  <2>1. \/ UNCHANGED <<pc, out>>
        \/ Announce(w, h.id, h.severity, "ENTER", now)
        \/ /\ Announce(w, h.id, h.severity, "HEARTBEAT", now)
           /\ vesselZones[job[w].vessel][h.id] # Absent
    BY <1>4 DEF TakeHit
  <2>2. h.id \in ZoneID
    BY DEF Zone
  <2>3. CASE Announce(w, h.id, h.severity, "ENTER", now)
    BY <1>3, <2>2, <2>3
  <2>4. CASE /\ Announce(w, h.id, h.severity, "HEARTBEAT", now)
             /\ vesselZones[job[w].vessel][h.id] # Absent
    BY <1>3, <2>2, <2>4
  <2> QED BY <1>2, <2>1, <2>3, <2>4
<1>5. ASSUME NEW z \in ZoneID, FindExit(w, z)
      PROVE  FeedInv'
  <2>1. /\ Announce(w, z, "", "EXIT", Absent)
        /\ vesselZones[job[w].vessel][z] # Absent
    BY <1>5 DEF FindExit, Exited
  <2> QED BY <1>3, <2>1
<1> QED BY <1>4, <1>5

(* Sending: the feed moves, for this worker's vessel only.                 *)
LEMMA FeedEnqueue ==
    ASSUME TypeOK, FeedInv, NEW w \in Worker, pc[w] \in {"emit", "send"}, Enqueue(w),
           UNCHANGED <<queue, job, out, vesselZones>>
    PROVE  FeedInv'
<1> DEFINE e == out[w].event
<1>1. e \in ViolationEvent /\ e.vessel \in Vessel /\ e.zone \in ZoneID
  BY DEF TypeOK, Emitting, Outgoing, ViolationEvent
<1>2. /\ ShardOf[e.vessel] = w /\ e.vessel = job[w].vessel
      /\ \A u \in Worker : pc[u] \in Emitting => ShardOf[out[u].event.vessel] = u
  BY DEF FeedInv, OwnVessels, Emitting
<1>3. /\ pc'[w] = "record"
      /\ \A u \in Worker : u # w => pc'[u] = pc[u]
  BY DEF Enqueue, TypeOK
<1>4. \A v \in Vessel, z \in ZoneID :
         feed'[v][z] = IF v = e.vessel /\ z = e.zone THEN e.kind ELSE feed[v][z]
  BY <1>1 DEF Enqueue, TypeOK
<1>5. OwnVessels'
  BY <1>3 DEF FeedInv, OwnVessels, Emitting
<1>6. \A u \in Worker : u # w /\ pc[u] \in Emitting =>
         /\ out[u].event.vessel \in Vessel /\ out[u].event.zone \in ZoneID
         /\ out[u].event.vessel # e.vessel
  BY <1>2 DEF TypeOK, Emitting, Outgoing, ViolationEvent
<1>7. PendingInOpenVisit'
  BY <1>1, <1>3, <1>4, <1>6 DEF FeedInv, PendingInOpenVisit, Open, Emitting
<1>8. TrackedInOpenVisit'
  BY <1>2, <1>3, <1>4, ClassifierAssumption DEF FeedInv, TrackedInOpenVisit, Open
<1> QED BY <1>5, <1>7, <1>8 DEF FeedInv

LEMMA FeedRecordSeen ==
    ASSUME TypeOK, FeedInv, NEW w \in Worker, RecordSeen(w)
    PROVE  FeedInv'
<1> DEFINE e == out[w].event
<1>1. e.vessel \in Vessel /\ e.zone \in ZoneID /\ e.kind \in {"ENTER", "HEARTBEAT", "EXIT"}
  BY DEF TypeOK, Emitting, Outgoing, ViolationEvent, RecordSeen, At
<1>2. /\ ShardOf[e.vessel] = w
      /\ e.kind = "EXIT" => out[w].seen = Absent
      /\ feed[e.vessel][e.zone] = e.kind
  BY DEF FeedInv, OwnVessels, PendingInOpenVisit, Emitting, RecordSeen, At
<1>3. /\ pc'[w] = "zones"
      /\ \A u \in Worker : u # w => pc'[u] = pc[u] /\ out'[u] = out[u]
      /\ UNCHANGED <<queue, job, feed>>
      /\ pc[w] = "record"
  BY DEF RecordSeen, At, TypeOK, channelVars
<1>4. \A v \in Vessel, z \in ZoneID :
         vesselZones'[v][z] = IF v = e.vessel /\ z = e.zone THEN out[w].seen
                                                             ELSE vesselZones[v][z]
  BY <1>1 DEF RecordSeen, TypeOK
<1>5. OwnVessels'
  BY <1>3 DEF FeedInv, OwnVessels, Emitting
<1>6. PendingInOpenVisit'
  BY <1>3 DEF FeedInv, PendingInOpenVisit, Open
<1>7. ASSUME NEW v \in Vessel, NEW z \in ZoneID, vesselZones'[v][z] # Absent
      PROVE  \/ Open(v, z)'
             \/ LET u == ShardOf[v] IN
                pc'[u] = "record" /\ out'[u].event.vessel = v /\ out'[u].event.zone = z
  <2>1. CASE v = e.vessel /\ z = e.zone
    BY <1>1, <1>2, <1>3, <1>4, <1>7, <2>1 DEF Open
  <2>2. CASE ~ (v = e.vessel /\ z = e.zone)
    <3>1. vesselZones[v][z] # Absent
      BY <1>4, <1>7, <2>2
    <3> QED BY <1>3, <2>2, <3>1, ClassifierAssumption DEF FeedInv, TrackedInOpenVisit, Open
  <2> QED BY <2>1, <2>2
<1> QED BY <1>5, <1>6, <1>7 DEF FeedInv, TrackedInOpenVisit

LEMMA FeedStep ==
    ASSUME TypeOK, FeedInv, [Next]_vars
    PROVE  FeedInv'
<1>1. ASSUME NEW w \in Worker, WorkerStep(w) \/ Stop(w)
      PROVE  FeedInv'
  <2>1. CASE (Emit(w) /\ Enqueue(w)) \/ Send(w)
    BY <2>1, FeedEnqueue DEF Emit, Send, At, trackerVars
  <2> QED BY <1>1, <2>1, FeedReceive, FeedQuiet, FeedDecide, FeedRecordSeen
          DEF WorkerStep, Emit
<1>2. CASE SweepStep \/ SweepStop \/ \E more \in SUBSET Vessel : SweepStart(more)
  <2>1. \A v \in Vessel, z \in ZoneID : vesselZones'[v][z] \in {Absent, vesselZones[v][z]}
    <3>1. CASE SweepExpire
      BY <3>1 DEF SweepExpire, TypeOK
    <3>2. CASE ~ SweepExpire
      <4>1. vesselZones' = vesselZones
        BY <1>2, <3>2 DEF SweepStep, SweepStop, SweepStart, SweepVisit, SweepFindStale,
                          SweepZonesDone, SweepUnlink, SweepDone, trackerVars
      <4> QED BY <4>1
    <3> QED BY <3>1, <3>2
  <2>2. UNCHANGED <<workerVars, feed>>
    BY <1>2 DEF SweepStep, SweepStop, SweepStart, SweepVisit, SweepFindStale,
                SweepExpire, SweepZonesDone, SweepUnlink, SweepDone, channelVars
  <2> QED BY <2>1, <2>2, FeedForget
<1>3. CASE \/ Publish \/ StopPublishing \/ Close \/ Cancel \/ Tick \/ ReloadZones
           \/ MapRaceFatal \/ UNCHANGED vars
  <2>1. UNCHANGED <<workerVars, feed, vesselZones>>
    BY <1>3 DEF Publish, StopPublishing, Close, Cancel, Tick, ReloadZones, MapRaceFatal,
                vars, trackerVars, channelVars
  <2> QED BY <2>1, FeedForget
<1> QED BY <1>1, <1>2, <1>3, FeedDispatch DEF Next

(* A worker only announces its own vessels, and what it is about to send   *)
(* and what it tracks belong to open visits (classifier.go 125-185), with  *)
(* the sweeper running beside it (190-215).                                *)
THEOREM FeedInvariant == Spec => []FeedInv
<1>1. Init => FeedInv
  BY FeedInit
<1>2. TypeOK /\ FeedInv /\ [Next]_vars => FeedInv'
  BY FeedStep
<1> QED BY <1>1, <1>2, TypeCorrect, PTL DEF Spec

-----------------------------------------------------------------------------
(* Every step of the classifier is a step of the alert feed or leaves it.  *)
LEMMA AlertsStep ==
    ASSUME TypeOK, FeedInv, [Next]_vars
    PROVE  [Alerts!Next]_feed
<1>1. ASSUME NEW w \in Worker, pc[w] \in {"emit", "send"}, Enqueue(w)
      PROVE  Alerts!Next
  <2> DEFINE e == out[w].event
  <2>1. /\ e.vessel \in Vessel /\ e.zone \in ZoneID
        /\ e.kind \in {"ENTER", "HEARTBEAT", "EXIT"}
    BY <1>1 DEF TypeOK, Emitting, Outgoing, ViolationEvent
  <2>2. e.kind # "ENTER" => Open(e.vessel, e.zone)
    BY <1>1 DEF FeedInv, PendingInOpenVisit
  <2>3. feed' = [feed EXCEPT ![e.vessel][e.zone] = e.kind]
    BY <1>1 DEF Enqueue
  <2> HIDE DEF e
  <2> QED BY <2>1, <2>2, <2>3 DEF Open, Alerts!Next, Alerts!Enter, Alerts!Heartbeat,
             Alerts!Exit, Alerts!Open, Alerts!Emit
<1>2. ASSUME NEW w \in Worker, WorkerStep(w) \/ Stop(w)
      PROVE  [Alerts!Next]_feed
  <2>1. CASE (Emit(w) /\ Enqueue(w)) \/ Send(w)
    BY <1>1, <2>1 DEF Emit, Send, At
  <2>2. CASE ~ ((Emit(w) /\ Enqueue(w)) \/ Send(w))
    BY <1>2, <2>2 DEF WorkerStep, Receive, Track, TakeHit, FindExit, FinishRecord, Emit,
       ChannelFull, DropOldest, RecordSeen, Stop, channelVars
  <2> QED BY <2>1, <2>2
<1>3. CASE ~ \E w \in Worker : WorkerStep(w) \/ Stop(w)
  BY <1>3 DEF Next, Dispatch, SweepStep, SweepStop, SweepStart, SweepVisit, SweepFindStale,
     SweepExpire, SweepZonesDone, SweepUnlink, SweepDone, Publish, StopPublishing, Close,
     Cancel, Tick, ReloadZones, MapRaceFatal, vars, channelVars
<1> QED BY <1>2, <1>3

(* The events the classifier emits for each vessel and zone form visits: a *)
(* heartbeat or an exit always belongs to a visit that was entered, also   *)
(* when the sweeper deletes zones under a worker's hands (classifier.go    *)
(* 125-215).                                                               *)
THEOREM ClassifierImplementsAlertFeed == Spec => ImplementsAlertFeed
<1>1. Init => Alerts!Init
  BY DEF Init, Alerts!Init
<1>2. TypeOK /\ FeedInv /\ [Next]_vars => [Alerts!Next]_feed
  BY AlertsStep
<1> QED BY <1>1, <1>2, TypeCorrect, FeedInvariant, PTL DEF Spec, ImplementsAlertFeed, Alerts!Spec

-----------------------------------------------------------------------------
(* The alerts and the positions, an inductive invariant.  A busy worker    *)
(* still has to look at hits inside its vessel's zones only; an exit is    *)
(* announced for a zone it is not in, anything else for one it is in, and  *)
(* remembered.                                                             *)
Ids(hits) == {h.id : h \in hits}

JobsConsistent ==
    \A w \in Worker : pc[w] \notin {"idle", "stopped"} =>
        /\ Ids(job[w].hits) \subseteq job[w].inside
        /\ pc[w] \in Emitting =>
             /\ out[w].event.kind = "EXIT" <=> out[w].event.zone \notin job[w].inside
             /\ out[w].event.kind # "EXIT" => out[w].seen # Absent

(* As long as no sweep took anything from a vessel, its worker fills a map *)
(* that its tracker has, ...                                               *)
TrackersReachable ==
    \A v \in Vessel \ disturbed :
        /\ Holds(ShardOf[v], v) => v \in tracked
        /\ v \notin tracked => \A z \in ZoneID : vesselZones[v][z] = Absent

(* ... every open visit is tracked, or sent and about to be, ...           *)
OpenIsTracked ==
    \A v \in Vessel \ disturbed, z \in ZoneID :
        LET w == ShardOf[v] IN
        Open(v, z) => \/ vesselZones[v][z] # Absent
                      \/ /\ pc[w] = "record"
                         /\ out[w].event.vessel = v /\ out[w].event.zone = z

(* ... and, while the zones stay what they were at its last check, it is   *)
(* tracked where its position is, up to what its worker has still to do.   *)
ChecksKept ==
    \A v \in Vessel \ (disturbed \cup reloaded) :
        LET w == ShardOf[v] IN
        /\ Processing(v) =>
             /\ job[w].inside = Ids(Check(cache[v]))
             /\ \A z \in job[w].inside :
                  \/ z \in Ids(job[w].hits)
                  \/ vesselZones[v][z] # Absent
                  \/ pc[w] \in Emitting /\ out[w].event.zone = z
        /\ ~Processing(v) /\ cache[v] # NoPosition =>
             \A z \in ZoneID : vesselZones[v][z] # Absent <=> z \in Ids(Check(cache[v]))

AlertsInv == JobsConsistent /\ TrackersReachable /\ OpenIsTracked /\ ChecksKept

(* What the invariant is for.                                              *)
LEMMA AlertsInvImplies ==
    ASSUME TypeOK, FeedInv, AlertsInv
    PROVE  AlertsMatchPositions
<1>1. SUFFICES ASSUME NEW v \in Vessel \ (disturbed \cup reloaded),
                      cache[v] # NoPosition, ~Processing(v)
               PROVE  {z \in ZoneID : Open(v, z)} = {h.id : h \in Check(cache[v])}
  BY DEF AlertsMatchPositions
<1>2. ShardOf[v] \in Worker
  BY ClassifierAssumption
<1>3. ASSUME NEW z \in ZoneID,
             pc[ShardOf[v]] = "record", out[ShardOf[v]].event.vessel = v
      PROVE  FALSE
  BY <1>1, <1>2, <1>3 DEF Processing, FeedInv, OwnVessels, Emitting
<1>4. \A z \in ZoneID : Open(v, z) <=> vesselZones[v][z] # Absent
  BY <1>3 DEF FeedInv, TrackedInOpenVisit, AlertsInv, OpenIsTracked
<1>5. \A z \in ZoneID : vesselZones[v][z] # Absent <=> z \in Ids(Check(cache[v]))
  BY <1>1 DEF AlertsInv, ChecksKept
<1>6. Ids(Check(cache[v])) \subseteq ZoneID
  BY CheckType DEF Ids, Zone
<1> QED BY <1>4, <1>5, <1>6 DEF Ids

LEMMA AlertsInit ==
    ASSUME Init
    PROVE  AlertsInv
<1>1. /\ \A w \in Worker : pc[w] = "idle"
      /\ \A v \in Vessel : cache[v] = NoPosition
      /\ \A v \in Vessel, z \in ZoneID : vesselZones[v][z] = Absent /\ feed[v][z] = "NONE"
  BY DEF Init, EmptyTracker
<1>2. \A v \in Vessel : ShardOf[v] \in Worker
  BY ClassifierAssumption
<1> QED BY <1>1, <1>2 DEF AlertsInv, JobsConsistent, TrackersReachable, OpenIsTracked, ChecksKept,
                          Holds, Processing, Open

(* A step that leaves workers, trackers, positions and feed alone; it may  *)
(* disturb vessels or put them among those to be checked again.            *)
LEMMA AlertsQuiet ==
    ASSUME AlertsInv,
           UNCHANGED <<pc, job, out, tracked, vesselZones, cache, feed>>,
           disturbed \subseteq disturbed',
           reloaded \subseteq reloaded',
           zones' = zones \/ reloaded' = Vessel
    PROVE  AlertsInv'
<1>1. JobsConsistent' /\ TrackersReachable' /\ OpenIsTracked'
  BY DEF AlertsInv, JobsConsistent, TrackersReachable, OpenIsTracked, Holds, Open, Emitting
<1>2. CASE zones' = zones
  <2>1. \A p : Check(p)' = Check(p)
    BY <1>2 DEF Check
  <2> QED BY <1>1, <2>1 DEF AlertsInv, ChecksKept, Processing, Emitting
<1>3. CASE reloaded' = Vessel
  BY <1>1, <1>3 DEF AlertsInv, ChecksKept
<1> QED BY <1>2, <1>3
LEMMA AlertsReceive ==
    ASSUME TypeOK, FeedInv, AlertsInv, NEW w \in Worker, Receive(w)
    PROVE  AlertsInv'
<1> DEFINE r == Head(queue[w])
<1>1. r \in Record /\ r.vessel \in Vessel /\ ShardOf[r.vessel] = w
  <2>1. queue[w] \in Seq(Record) /\ queue[w] # << >>
    BY DEF TypeOK, Receive
  <2>2. r \in Record /\ r = queue[w][1] /\ 1 \in DOMAIN queue[w]
    BY <2>1, HeadTailProperties, LenProperties, EmptySeq
  <2> QED BY <2>2 DEF Record, FeedInv, OwnVessels
<1>2. /\ cache' = [cache EXCEPT ![r.vessel] = r.point]
      /\ job' = [job EXCEPT ![w] = NewJob(r)]
      /\ reloaded' = reloaded \ {r.vessel}
      /\ pc[w] = "idle" /\ pc' = [pc EXCEPT ![w] = "track"]
      /\ UNCHANGED <<zones, out, tracked, vesselZones, feed, disturbed>>
  BY DEF Receive, At, trackerVars, channelVars
<1>3. /\ NewJob(r).vessel = r.vessel
      /\ NewJob(r).hits = Check(r.point)
      /\ NewJob(r).inside = Ids(Check(r.point))
  BY Zenon DEF NewJob, Ids
<1> HIDE DEF r
<1>4. /\ pc'[w] = "track" /\ job'[w] = NewJob(r)
      /\ \A u \in Worker \ {w} : pc'[u] = pc[u] /\ job'[u] = job[u]
      /\ cache'[r.vessel] = r.point
      /\ \A v \in Vessel \ {r.vessel} : cache'[v] = cache[v]
      /\ \A v \in Vessel : ShardOf[v] \in Worker
      /\ \A p : Check(p)' = Check(p)
  BY <1>1, <1>2, ClassifierAssumption DEF TypeOK, Check
<1>5. JobsConsistent'
  BY <1>2, <1>3, <1>4 DEF AlertsInv, JobsConsistent, Emitting
<1>6. TrackersReachable' /\ OpenIsTracked'
  BY <1>1, <1>2, <1>4 DEF AlertsInv, TrackersReachable, OpenIsTracked, Holds, Open
<1>7. ASSUME NEW v \in Vessel \ (disturbed' \cup reloaded')
      PROVE  /\ Processing(v)' =>
                  /\ job'[ShardOf[v]].inside = Ids(Check(cache[v]))'
                  /\ \A z \in job'[ShardOf[v]].inside :
                       \/ z \in Ids(job[ShardOf[v]].hits)'
                       \/ vesselZones'[v][z] # Absent
                       \/ pc'[ShardOf[v]] \in Emitting /\ out'[ShardOf[v]].event.zone = z
             /\ ~Processing(v)' /\ cache'[v] # NoPosition =>
                  \A z \in ZoneID : vesselZones'[v][z] # Absent <=> z \in Ids(Check(cache[v]))'
  <2>1. CASE v = r.vessel
    BY <1>1, <1>3, <1>4, <2>1 DEF Processing
  <2>2. CASE v # r.vessel
    <3>1. v \in Vessel \ (disturbed \cup reloaded) /\ cache'[v] = cache[v]
      BY <1>2, <1>4, <1>7, <2>2
    <3>2. CASE ShardOf[v] = w
      <4>1. ~Processing(v) /\ ~Processing(v)'
        BY <1>2, <1>3, <1>4, <2>2, <3>2 DEF Processing
      <4> QED BY <1>2, <1>4, <3>1, <4>1 DEF AlertsInv, ChecksKept
    <3>3. CASE ShardOf[v] # w
      BY <1>2, <1>4, <3>1, <3>3 DEF AlertsInv, ChecksKept, Processing
    <3> QED BY <3>2, <3>3
  <2> QED BY <2>1, <2>2
<1>8. ChecksKept'
  BY <1>7 DEF ChecksKept
<1> QED BY <1>5, <1>6, <1>8 DEF AlertsInv

LEMMA JobInside ==
    ASSUME TypeOK, NEW w \in Worker
    PROVE  job[w].inside \subseteq ZoneID
<1>1. NoJob.inside = {}
  BY Zenon DEF NoJob
<1>2. \A j \in Job : j.inside \subseteq ZoneID
  BY DEF Job
<1>3. job[w] \in Job \cup {NoJob}
  BY DEF TypeOK
<1> QED BY <1>1, <1>2, <1>3

LEMMA AlertsTrack ==
    ASSUME TypeOK, FeedInv, AlertsInv, NEW w \in Worker, Track(w)
    PROVE  AlertsInv'
<1> DEFINE x == job[w].vessel
<1>1. /\ pc[w] = "track" /\ pc' = [pc EXCEPT ![w] = "zones"]
      /\ tracked' = tracked \cup {x}
      /\ vesselZones' = IF x \in tracked THEN vesselZones
                        ELSE [vesselZones EXCEPT ![x] = EmptyTracker]
      /\ UNCHANGED <<zones, job, out, cache, feed, disturbed, reloaded>>
  BY DEF Track, At, channelVars
<1>2. x \in Vessel /\ ShardOf[x] = w
  BY <1>1 DEF TypeOK, Job, FeedInv, OwnVessels
<1>3. /\ pc'[w] = "zones"
      /\ \A u \in Worker \ {w} : pc'[u] = pc[u]
      /\ \A v \in Vessel : ShardOf[v] \in Worker
      /\ \A p : Check(p)' = Check(p)
  BY <1>1, ClassifierAssumption DEF TypeOK, Check
<1>4. \A v \in Vessel \ disturbed, z \in ZoneID : vesselZones'[v][z] = vesselZones[v][z]
  <2>1. CASE x \in tracked
    BY <1>1, <2>1
  <2>2. CASE x \notin tracked
    <3>1. \A v \in Vessel, z \in ZoneID :
             vesselZones'[v][z] = IF v = x THEN Absent ELSE vesselZones[v][z]
      BY <1>1, <1>2, <2>2 DEF TypeOK, EmptyTracker
    <3> QED BY <2>2, <3>1 DEF AlertsInv, TrackersReachable
  <2> QED BY <2>1, <2>2
<1>5. JobsConsistent'
  BY <1>1, <1>3 DEF AlertsInv, JobsConsistent, Emitting
<1>6. TrackersReachable' /\ OpenIsTracked'
  BY <1>1, <1>2, <1>3, <1>4 DEF AlertsInv, TrackersReachable, OpenIsTracked, Holds, Open
<1>7. ASSUME NEW v \in Vessel
      PROVE  Processing(v)' <=> Processing(v)
  BY <1>1, <1>3 DEF Processing
<1>8. \A u \in Worker : job[u].inside \subseteq ZoneID
  BY JobInside
<1>9. \A u \in Worker : pc'[u] \in Emitting <=> pc[u] \in Emitting
  BY <1>1, <1>3 DEF Emitting
<1>10. ChecksKept'
  BY <1>1, <1>3, <1>4, <1>7, <1>8, <1>9 DEF AlertsInv, ChecksKept
<1> QED BY <1>5, <1>6, <1>10 DEF AlertsInv
(* A worker decides on the next event: an ENTER or a HEARTBEAT for a hit,  *)
(* an EXIT for a zone without one, or nothing for a hit seen just now.     *)
LEMMA AlertsDecide ==
    ASSUME TypeOK, FeedInv, AlertsInv, NEW w \in Worker,
           \/ \E h \in Zone : TakeHit(w, h)
           \/ \E z \in ZoneID : FindExit(w, z)
    PROVE  AlertsInv'
<1> DEFINE x == job[w].vessel
<1>1. /\ pc[w] = "zones" /\ x \in Vessel /\ ShardOf[x] = w
      /\ UNCHANGED <<zones, tracked, vesselZones, cache, feed, disturbed, reloaded>>
      /\ \A v \in Vessel : ShardOf[v] \in Worker
      /\ \A p : Check(p)' = Check(p)
  <2>1. /\ pc[w] = "zones"
        /\ UNCHANGED <<zones, tracked, vesselZones, cache, feed, disturbed, reloaded>>
    BY DEF TakeHit, FindExit, At, trackerVars, channelVars
  <2>2. x \in Vessel /\ ShardOf[x] = w
    BY <2>1 DEF TypeOK, Job, FeedInv, OwnVessels
  <2> QED BY <2>1, <2>2, ClassifierAssumption DEF Check
<1>2. /\ Ids(job[w].hits) \subseteq job[w].inside
      /\ \A u \in Worker : job[u].inside \subseteq ZoneID
  BY <1>1, JobInside DEF AlertsInv, JobsConsistent
<1>3. /\ job'[w].vessel = x /\ job'[w].inside = job[w].inside
      /\ job'[w].hits \subseteq job[w].hits
      /\ \A u \in Worker \ {w} : job'[u] = job[u]
      /\ pc'[w] \in {"zones", "emit"}
      /\ \A u \in Worker \ {w} : pc'[u] = pc[u] /\ out'[u] = out[u]
      /\ pc'[w] = "emit" =>
           /\ out'[w].event.kind = "EXIT" <=> out'[w].event.zone \notin job[w].inside
           /\ out'[w].event.kind # "EXIT" => out'[w].seen # Absent
      /\ \A z \in Ids(job[w].hits) :
           \/ z \in Ids(job'[w].hits)
           \/ vesselZones[x][z] # Absent
           \/ pc'[w] = "emit" /\ out'[w].event.zone = z
  <2>1. ASSUME NEW h \in Zone, TakeHit(w, h) PROVE <1>3!:
    <3>1. /\ job' = [job EXCEPT ![w].hits = @ \ {h}] /\ h \in job[w].hits
          /\ \/ /\ vesselZones[x][h.id] = Absent
                /\ Announce(w, h.id, h.severity, "ENTER", now)
             \/ /\ vesselZones[x][h.id] # Absent
                /\ Announce(w, h.id, h.severity, "HEARTBEAT", now)
             \/ vesselZones[x][h.id] # Absent /\ UNCHANGED <<pc, out>>
      BY <2>1 DEF TakeHit
    <3>2. /\ job'[w].vessel = x /\ job'[w].inside = job[w].inside
          /\ job'[w].hits = job[w].hits \ {h}
          /\ \A u \in Worker \ {w} : job'[u] = job[u]
      BY <1>1, <3>1 DEF TypeOK, Job
    <3>3. /\ h.id \in job[w].inside
          /\ \A z \in Ids(job[w].hits) : z \in Ids(job'[w].hits) \/ z = h.id
      BY <1>2, <3>1, <3>2 DEF Ids
    <3>4. now # Absent
      BY DEF TypeOK, Absent
    <3>5. ASSUME NEW kind \in {"ENTER", "HEARTBEAT"}, Announce(w, h.id, h.severity, kind, now)
          PROVE  /\ pc'[w] = "emit"
                 /\ out'[w].event.zone = h.id
                 /\ out'[w].event.kind = kind
                 /\ out'[w].seen = now
                 /\ \A u \in Worker \ {w} : pc'[u] = pc[u] /\ out'[u] = out[u]
      BY <3>5 DEF Announce, TypeOK
    <3>6. CASE UNCHANGED <<pc, out>> /\ vesselZones[x][h.id] # Absent
      BY <1>1, <3>2, <3>3, <3>6
    <3>7. CASE \E kind \in {"ENTER", "HEARTBEAT"} : Announce(w, h.id, h.severity, kind, now)
      BY <3>2, <3>3, <3>4, <3>5, <3>7
    <3> QED BY <3>1, <3>6, <3>7
  <2>2. ASSUME NEW z \in ZoneID, FindExit(w, z) PROVE <1>3!:
    <3>1. /\ z \notin job[w].inside
          /\ job' = job
          /\ Announce(w, z, "", "EXIT", Absent)
      BY <2>2 DEF FindExit, Exited
    <3>2. /\ pc'[w] = "emit"
          /\ out'[w].event.zone = z
          /\ out'[w].event.kind = "EXIT"
          /\ \A u \in Worker \ {w} : pc'[u] = pc[u] /\ out'[u] = out[u]
      BY <3>1 DEF Announce, TypeOK
    <3> QED BY <3>1, <3>2
  <2> QED BY <2>1, <2>2
<1> HIDE DEF x
<1>4. JobsConsistent'
  BY <1>1, <1>2, <1>3 DEF AlertsInv, JobsConsistent, Emitting, Ids
<1>5. TrackersReachable' /\ OpenIsTracked'
  BY <1>1, <1>3 DEF AlertsInv, TrackersReachable, OpenIsTracked, Holds, Open, x
<1>6. ASSUME NEW v \in Vessel
      PROVE  Processing(v)' <=> Processing(v)
  BY <1>1, <1>3 DEF Processing, x
<1>7. ASSUME NEW v \in Vessel \ (disturbed \cup reloaded), Processing(v)
      PROVE  /\ job'[ShardOf[v]].inside = Ids(Check(cache[v]))
             /\ \A z \in job'[ShardOf[v]].inside :
                  \/ z \in Ids(job'[ShardOf[v]].hits)
                  \/ vesselZones[v][z] # Absent
                  \/ pc'[ShardOf[v]] \in Emitting /\ out'[ShardOf[v]].event.zone = z
  <2>1. /\ job[ShardOf[v]].inside = Ids(Check(cache[v]))
        /\ \A z \in job[ShardOf[v]].inside :
             \/ z \in Ids(job[ShardOf[v]].hits)
             \/ vesselZones[v][z] # Absent
             \/ pc[ShardOf[v]] \in Emitting /\ out[ShardOf[v]].event.zone = z
    BY <1>7 DEF AlertsInv, ChecksKept
  <2>2. CASE ShardOf[v] = w
    <3>1. v = x
      BY <1>7, <2>2 DEF Processing, x
    <3> QED BY <1>1, <1>3, <2>1, <2>2, <3>1 DEF Emitting
  <2>3. CASE ShardOf[v] # w
    BY <1>1, <1>3, <2>1, <2>3
  <2> QED BY <2>2, <2>3
<1>8. ChecksKept'
  BY <1>1, <1>6, <1>7 DEF AlertsInv, ChecksKept
<1> QED BY <1>4, <1>5, <1>8 DEF AlertsInv
LEMMA AlertsFinish ==
    ASSUME TypeOK, FeedInv, AlertsInv, NEW w \in Worker, FinishRecord(w)
    PROVE  AlertsInv'
<1> DEFINE x == job[w].vessel
<1>1. /\ pc[w] = "zones" /\ pc' = [pc EXCEPT ![w] = "idle"]
      /\ job[w].hits = {} /\ Exited(w) = {}
      /\ job' = [job EXCEPT ![w] = NoJob]
      /\ UNCHANGED <<zones, out, tracked, vesselZones, cache, feed, disturbed, reloaded>>
  BY DEF FinishRecord, At, trackerVars, channelVars
<1>2. /\ x \in Vessel /\ ShardOf[x] = w
      /\ \A v \in Vessel : ShardOf[v] \in Worker
      /\ \A p : Check(p)' = Check(p)
  BY <1>1, ClassifierAssumption, ZenonT(40) DEF TypeOK, Job, FeedInv, OwnVessels, Check
<1>3. /\ pc'[w] = "idle"
      /\ \A u \in Worker \ {w} : pc'[u] = pc[u] /\ job'[u] = job[u]
  BY <1>1 DEF TypeOK
<1>4. JobsConsistent'
  BY <1>1, <1>3 DEF AlertsInv, JobsConsistent, Emitting
<1>5. TrackersReachable' /\ OpenIsTracked'
  BY <1>1, <1>2, <1>3 DEF AlertsInv, TrackersReachable, OpenIsTracked, Holds, Open
<1>6. ASSUME x \notin disturbed \cup reloaded
      PROVE  \A z \in ZoneID : vesselZones[x][z] # Absent <=> z \in Ids(Check(cache[x]))
  <2>1. Processing(x)
    BY <1>1, <1>2 DEF Processing
  <2>2. /\ job[w].inside = Ids(Check(cache[x]))
        /\ \A z \in job[w].inside : vesselZones[x][z] # Absent
    BY <1>1, <1>2, <1>6, <2>1 DEF AlertsInv, ChecksKept, Ids, Emitting
  <2>3. \A z \in ZoneID \ job[w].inside : vesselZones[x][z] = Absent
    BY <1>1 DEF Exited
  <2> QED BY <2>2, <2>3
<1>7. ASSUME NEW v \in Vessel, v # x
      PROVE  Processing(v)' <=> Processing(v)
  BY <1>1, <1>2, <1>3, <1>7 DEF Processing
<1>8. ASSUME NEW v \in Vessel, v = x
      PROVE  ~Processing(v)'
  BY <1>1, <1>2, <1>3, <1>8 DEF Processing
<1> HIDE DEF x
<1>9. ChecksKept'
  <2>1. ASSUME NEW v \in Vessel, Processing(v), v # x
        PROVE  ShardOf[v] # w
    BY <2>1, <1>2 DEF Processing, x
  <2> QED BY <1>1, <1>2, <1>3, <1>6, <1>7, <1>8, <2>1 DEF AlertsInv, ChecksKept, Emitting
<1> QED BY <1>4, <1>5, <1>9 DEF AlertsInv

LEMMA AlertsStop ==
    ASSUME TypeOK, AlertsInv, NEW w \in Worker, Stop(w)
    PROVE  AlertsInv'
<1>1. /\ pc[w] = "idle" /\ pc' = [pc EXCEPT ![w] = "stopped"]
      /\ UNCHANGED <<zones, job, out, tracked, vesselZones, cache, feed, disturbed, reloaded>>
  BY DEF Stop, At, trackerVars, channelVars
<1>2. /\ pc'[w] = "stopped"
      /\ \A u \in Worker \ {w} : pc'[u] = pc[u]
      /\ \A v \in Vessel : ShardOf[v] \in Worker
      /\ \A p : Check(p)' = Check(p)
  BY <1>1, ClassifierAssumption DEF TypeOK, Check
<1> QED BY <1>1, <1>2 DEF AlertsInv, JobsConsistent, TrackersReachable, OpenIsTracked, ChecksKept,
                          Holds, Open, Processing, Emitting

(* A worker on its way through emitViolation: it sends, which opens or     *)
(* closes the visit and takes it to "record", or it waits for room.        *)
LEMMA AlertsSend ==
    ASSUME TypeOK, FeedInv, AlertsInv, NEW w \in Worker, Emit(w) \/ DropOldest(w) \/ Send(w)
    PROVE  AlertsInv'
<1> DEFINE e == out[w].event
<1>1. /\ pc[w] \in {"emit", "drop", "send"}
      /\ UNCHANGED <<zones, job, out, tracked, vesselZones, cache, disturbed, reloaded>>
      /\ \/ /\ pc' = [pc EXCEPT ![w] = "record"]
            /\ feed' = [feed EXCEPT ![e.vessel][e.zone] = e.kind]
         \/ /\ pc' \in {[pc EXCEPT ![w] = "drop"], [pc EXCEPT ![w] = "send"]}
            /\ feed' = feed
  BY DEF Emit, DropOldest, Send, Enqueue, ChannelFull, At, trackerVars, channelVars
<1>2. /\ pc'[w] \in {"drop", "send", "record"}
      /\ \A u \in Worker \ {w} : pc'[u] = pc[u]
      /\ \A v \in Vessel : ShardOf[v] \in Worker
      /\ \A p : Check(p)' = Check(p)
  BY <1>1, ClassifierAssumption DEF TypeOK, Check
<1>3. /\ e.vessel = job[w].vessel /\ ShardOf[e.vessel] = w
      /\ e.vessel \in Vessel /\ e.zone \in ZoneID
  BY <1>1 DEF TypeOK, Emitting, Outgoing, ViolationEvent, FeedInv, OwnVessels
<1>4. \A v \in Vessel, z \in ZoneID :
         \/ feed'[v][z] = feed[v][z]
         \/ pc'[w] = "record" /\ v = e.vessel /\ z = e.zone
  <2>1. CASE feed' = feed
    BY <2>1
  <2>2. CASE feed' # feed
    <3>1. pc'[w] = "record" /\ feed' = [feed EXCEPT ![e.vessel][e.zone] = e.kind]
      BY <1>1, <2>2 DEF TypeOK
    <3> QED BY <1>3, <3>1 DEF TypeOK
  <2> QED BY <2>1, <2>2
<1> HIDE DEF e
<1>5. JobsConsistent' /\ TrackersReachable'
  BY <1>1, <1>2 DEF AlertsInv, JobsConsistent, TrackersReachable, Holds, Emitting
<1>6. OpenIsTracked'
  BY <1>1, <1>2, <1>3, <1>4 DEF AlertsInv, OpenIsTracked, Open, e
<1>7. /\ \A v \in Vessel : Processing(v)' <=> Processing(v)
      /\ \A u \in Worker : pc'[u] \in Emitting <=> pc[u] \in Emitting
  BY <1>1, <1>2 DEF Processing, Emitting
<1>8. ChecksKept'
  BY <1>1, <1>2, <1>7 DEF AlertsInv, ChecksKept
<1> QED BY <1>5, <1>6, <1>8 DEF AlertsInv

LEMMA AlertsRecordSeen ==
    ASSUME TypeOK, FeedInv, AlertsInv, NEW w \in Worker, RecordSeen(w)
    PROVE  AlertsInv'
<1> DEFINE e == out[w].event
<1>1. /\ pc[w] = "record" /\ pc' = [pc EXCEPT ![w] = "zones"]
      /\ vesselZones' = [vesselZones EXCEPT ![e.vessel][e.zone] = out[w].seen]
      /\ out' = [out EXCEPT ![w] = NoEvent]
      /\ UNCHANGED <<zones, job, tracked, cache, feed, disturbed, reloaded>>
  BY DEF RecordSeen, At, channelVars
<1>2. /\ pc'[w] = "zones"
      /\ \A u \in Worker \ {w} : pc'[u] = pc[u] /\ out'[u] = out[u]
      /\ \A v \in Vessel : ShardOf[v] \in Worker
      /\ \A p : Check(p)' = Check(p)
  BY <1>1, ClassifierAssumption DEF TypeOK, Check
<1>3. /\ e.vessel = job[w].vessel /\ ShardOf[e.vessel] = w
      /\ e.vessel \in Vessel /\ e.zone \in ZoneID
      /\ feed[e.vessel][e.zone] = e.kind
      /\ e.kind = "EXIT" => out[w].seen = Absent
      /\ e.kind = "EXIT" <=> e.zone \notin job[w].inside
      /\ e.kind # "EXIT" => out[w].seen # Absent
  BY <1>1 DEF TypeOK, Emitting, Outgoing, ViolationEvent, FeedInv, OwnVessels,
              PendingInOpenVisit, AlertsInv, JobsConsistent
<1>4. \A v \in Vessel, z \in ZoneID :
         vesselZones'[v][z] = IF v = e.vessel /\ z = e.zone THEN out[w].seen
                                                             ELSE vesselZones[v][z]
  BY <1>1, <1>3 DEF TypeOK
<1>5. JobsConsistent'
  BY <1>1, <1>2 DEF AlertsInv, JobsConsistent, Emitting
<1>6. TrackersReachable'
  <2>1. e.vessel \notin disturbed => e.vessel \in tracked
    BY <1>1, <1>3 DEF AlertsInv, TrackersReachable, Holds
  <2> QED BY <1>1, <1>2, <1>3, <1>4, <2>1, SMTT(60) DEF AlertsInv, TrackersReachable, Holds
<1>7. OpenIsTracked'
  <2>1. ASSUME NEW v \in Vessel \ disturbed, NEW z \in ZoneID, Open(v, z), v = e.vessel, z = e.zone
        PROVE  vesselZones'[v][z] # Absent
    BY <1>3, <1>4, <2>1 DEF Open
  <2>2. ASSUME NEW v \in Vessel \ disturbed, NEW z \in ZoneID, Open(v, z),
               ~ (v = e.vessel /\ z = e.zone)
        PROVE  \/ vesselZones'[v][z] # Absent
               \/ /\ pc'[ShardOf[v]] = "record"
                  /\ out'[ShardOf[v]].event.vessel = v /\ out'[ShardOf[v]].event.zone = z
    BY <1>2, <1>4, <2>2 DEF AlertsInv, OpenIsTracked
  <2> QED BY <1>1, <2>1, <2>2, SMTT(30) DEF OpenIsTracked, Open
<1> HIDE DEF e
<1>8. \A v \in Vessel : Processing(v)' <=> Processing(v)
  BY <1>1, <1>2 DEF Processing
<1>9. ASSUME NEW v \in Vessel \ (disturbed \cup reloaded)
      PROVE  /\ Processing(v) =>
                  /\ job[ShardOf[v]].inside = Ids(Check(cache[v]))
                  /\ \A z \in job[ShardOf[v]].inside :
                       \/ z \in Ids(job[ShardOf[v]].hits)
                       \/ vesselZones'[v][z] # Absent
                       \/ pc'[ShardOf[v]] \in Emitting /\ out'[ShardOf[v]].event.zone = z
             /\ ~Processing(v) /\ cache[v] # NoPosition =>
                  \A z \in ZoneID : vesselZones'[v][z] # Absent <=> z \in Ids(Check(cache[v]))
  <2>1. CASE v = e.vessel
    <3>1. Processing(v)
      BY <1>1, <1>3, <2>1 DEF Processing
    <3>2. /\ job[w].inside = Ids(Check(cache[v]))
          /\ \A z \in job[w].inside :
               z \in Ids(job[w].hits) \/ vesselZones[v][z] # Absent \/ e.zone = z
      BY <1>3, <2>1, <3>1 DEF AlertsInv, ChecksKept, e
    <3>3. \A z \in job[w].inside : z \in ZoneID
      BY JobInside
    <3> QED BY <1>3, <1>4, <2>1, <3>1, <3>2, <3>3
  <2>2. CASE v # e.vessel
    <3>1. \A z \in ZoneID : vesselZones'[v][z] = vesselZones[v][z]
      BY <1>4, <2>2
    <3>2. Processing(v) => ShardOf[v] # w
      BY <1>1, <1>3, <2>2 DEF Processing
    <3>3. \A z \in job[ShardOf[v]].inside : z \in ZoneID
      BY <1>2, JobInside
    <3> QED BY <1>2, <3>1, <3>2, <3>3 DEF AlertsInv, ChecksKept
  <2> QED BY <2>1, <2>2
<1>10. ChecksKept'
  BY <1>1, <1>2, <1>8, <1>9 DEF ChecksKept
<1> QED BY <1>5, <1>6, <1>7, <1>10 DEF AlertsInv

(* What a sweep deletes disturbs the vessel, but for a map that is empty   *)
(* and that no worker holds.                                               *)
LEMMA AlertsSweep ==
    ASSUME TypeOK, AlertsInv, SweepExpire \/ SweepUnlink
    PROVE  AlertsInv'
<1> DEFINE x == sweep.vessel
<1>1. /\ UNCHANGED <<zones, pc, job, out, cache, feed, reloaded>>
      /\ x \in Vessel
      /\ \A p : Check(p)' = Check(p)
  BY DEF SweepExpire, SweepUnlink, SweepAt, TypeOK, workerVars, channelVars, Check
<1>2. /\ disturbed \subseteq disturbed'
      /\ \A v \in Vessel \ disturbed', z \in ZoneID : vesselZones'[v][z] = vesselZones[v][z]
      /\ \A v \in Vessel \ disturbed' : v \in tracked' <=> v \in tracked /\ ~ (SweepUnlink /\ v = x)
      /\ x \notin disturbed' => /\ ~Holds(ShardOf[x], x)
                                /\ \A z \in ZoneID : vesselZones[x][z] = Absent
  <2>1. CASE SweepExpire
    <3>1. disturbed' = disturbed \cup {x} /\ tracked' = tracked
      BY <2>1 DEF SweepExpire
    <3>2. \A v \in Vessel \ {x} : vesselZones'[v] = vesselZones[v]
      BY <2>1 DEF SweepExpire, TypeOK
    <3> QED BY <3>1, <3>2
  <2>2. CASE SweepUnlink
    <3>1. /\ tracked' = tracked \ {x} /\ vesselZones' = vesselZones
          /\ disturbed' = IF Holds(ShardOf[x], x) \/ vesselZones[x] # EmptyTracker
                          THEN disturbed \cup {x} ELSE disturbed
      BY <2>2 DEF SweepUnlink
    <3>2. CASE Holds(ShardOf[x], x) \/ vesselZones[x] # EmptyTracker
      BY <2>2, <3>1, <3>2
    <3>3. CASE ~ (Holds(ShardOf[x], x) \/ vesselZones[x] # EmptyTracker)
      BY <2>2, <3>1, <3>3 DEF EmptyTracker
    <3> QED BY <3>2, <3>3
  <2> QED BY <2>1, <2>2
<1> HIDE DEF x
<1>3. JobsConsistent' /\ OpenIsTracked'
  BY <1>1, <1>2 DEF AlertsInv, JobsConsistent, OpenIsTracked, Open, Emitting
<1>4. TrackersReachable'
  BY <1>1, <1>2 DEF AlertsInv, TrackersReachable, Holds
<1>5. ChecksKept'
  <2>1. \A v \in Vessel : ShardOf[v] \in Worker
    BY ClassifierAssumption
  <2>2. \A v \in Vessel : \A z \in job[ShardOf[v]].inside : z \in ZoneID
    BY <2>1, JobInside
  <2> QED BY <1>1, <1>2, <2>2 DEF AlertsInv, ChecksKept, Processing, Emitting
<1> QED BY <1>3, <1>4, <1>5 DEF AlertsInv
LEMMA AlertsInvStep ==
    ASSUME TypeOK, FeedInv, AlertsInv, [Next]_vars
    PROVE  AlertsInv'
<1>1. ASSUME NEW w \in Worker, WorkerStep(w) \/ Stop(w)
      PROVE  AlertsInv'
  BY <1>1, AlertsReceive, AlertsTrack, AlertsDecide, AlertsFinish, AlertsStop, AlertsSend,
     AlertsRecordSeen DEF WorkerStep
<1>2. CASE SweepExpire \/ SweepUnlink
  BY <1>2, AlertsSweep
<1>3. CASE \/ \E v \in Vessel, p \in Point : Dispatch(v, p)
           \/ \E v \in Vessel : SweepVisit(v)
           \/ \E z \in ZoneID : SweepFindStale(z)
           \/ \E more \in SUBSET Vessel : SweepStart(more)
           \/ SweepZonesDone \/ SweepDone \/ SweepStop
           \/ Publish \/ StopPublishing \/ Close \/ Cancel \/ Tick \/ ReloadZones
           \/ MapRaceFatal \/ UNCHANGED vars
  <2>1. /\ UNCHANGED <<pc, job, out, tracked, vesselZones, cache, feed, disturbed>>
        /\ \/ UNCHANGED <<zones, reloaded>>
           \/ reloaded' = Vessel
    BY <1>3 DEF Dispatch, SweepVisit, SweepFindStale, SweepStart, SweepZonesDone, SweepDone,
       SweepStop, Publish, StopPublishing, Close, Cancel, Tick, ReloadZones, MapRaceFatal,
       vars, workerVars, trackerVars, channelVars
  <2>2. reloaded \subseteq Vessel
    BY DEF TypeOK
  <2> QED BY <2>1, <2>2, AlertsQuiet
<1> QED BY <1>1, <1>2, <1>3 DEF Next, SweepStep

(* Between two records of a vessel its open visits are the zones that      *)
(* cover its cached position, whatever workers, sweeps, overflow and       *)
(* reloads of zones do in between, unless a sweep dropped what it tracked  *)
(* or a zone changed since its last record (classifier.go 111-215).        *)
THEOREM AlertsMatchPositionsHolds == Spec => []AlertsMatchPositions
<1>1. Init => AlertsInv
  BY AlertsInit
<1>2. TypeOK /\ FeedInv /\ AlertsInv /\ [Next]_vars => AlertsInv'
  BY AlertsInvStep
<1>3. TypeOK /\ FeedInv /\ AlertsInv => AlertsMatchPositions
  BY AlertsInvImplies
<1> QED BY <1>1, <1>2, <1>3, TypeCorrect, FeedInvariant, PTL DEF Spec

-----------------------------------------------------------------------------
(* The violations channel.  The last event in it about a pair is the last  *)
(* one emitted about that pair.                                            *)
About(i, v, z) == violations[i].vessel = v /\ violations[i].zone = z

LastIsLatest ==
    \A v \in Vessel, z \in ZoneID : \A i \in DOMAIN violations :
        /\ About(i, v, z)
        /\ \A j \in DOMAIN violations : j > i => ~About(j, v, z)
        => violations[i].kind = feed[v][z]

(* Of a pair it has no event of, the last one was received or discarded.   *)
LastAccounted ==
    \A v \in Vessel, z \in ZoneID :
        (\A i \in DOMAIN violations : ~About(i, v, z))
        => feed[v][z] = "NONE" \/ <<v, z>> \in received \cup discarded

OverflowInv == LastIsLatest /\ LastAccounted

(* A non-empty set of indices has a largest one.                           *)
LEMMA LargestIndex ==
    ASSUME NEW n \in Nat, NEW S, S \subseteq 1..n, S # {}
    PROVE  Max(S) \in S /\ \A j \in S : j <= Max(S)
<1> DEFINE D == {n - i : i \in S}
<1>0. \A i \in S : i \in Int /\ n - i \in Nat
  OBVIOUS
<1>1. D \subseteq Nat /\ D # {}
  BY <1>0
<1>2. PICK d \in D : \A k \in D : d <= k
  <2> HIDE DEF D
  <2> QED BY <1>1, LeastNatural
<1>3. PICK i \in S : d = n - i
  BY <1>2
<1>4. \A j \in S : i >= j
  BY <1>2, <1>3
<1>5. Max(S) \in S /\ \A j \in S : Max(S) >= j
  BY <1>3, <1>4, Zenon DEF Max
<1> QED BY <1>0, <1>5

LEMMA OverflowInvImplies ==
    ASSUME TypeOK, OverflowInv
    PROVE  OverflowKeepsLatest
<1> SUFFICES ASSUME NEW v \in Vessel, NEW z \in ZoneID
             PROVE  LET S == {i \in DOMAIN violations : About(i, v, z)}
                    IN  IF S # {} THEN violations[Max(S)].kind = feed[v][z]
                        ELSE feed[v][z] = "NONE" \/ <<v, z>> \in received \cup discarded
  BY DEF OverflowKeepsLatest, About
<1> DEFINE S == {i \in DOMAIN violations : About(i, v, z)}
<1>1. CASE S = {}
  BY <1>1 DEF OverflowInv, LastAccounted
<1>2. CASE S # {}
  <2>1. Len(violations) \in Nat /\ DOMAIN violations = 1..Len(violations)
    BY LenProperties DEF TypeOK
  <2>2. S \subseteq 1..Len(violations)
    BY <2>1
  <2>3. Max(S) \in S /\ \A j \in S : j <= Max(S)
    <3> HIDE DEF S
    <3> QED BY <1>2, <2>1, <2>2, LargestIndex
  <2>4. ASSUME NEW j \in DOMAIN violations, j > Max(S)
        PROVE  ~About(j, v, z)
    <3>1. Max(S) \in Int /\ j \in Int
      BY <2>1, <2>3
    <3>2. j \notin S
      <4> HIDE DEF S
      <4> QED BY <2>3, <2>4, <3>1
    <3> QED BY <3>2
  <2> QED BY <1>2, <2>3, <2>4 DEF OverflowInv, LastIsLatest
<1> QED BY <1>1, <1>2

(* The channel loses its oldest event: to the publisher, or to make room.  *)
LEMMA LatestTail ==
    ASSUME TypeOK, LastIsLatest, violations # << >>,
           violations' = Tail(violations), feed' = feed
    PROVE  LastIsLatest'
<1>1. /\ Len(violations) \in Nat \ {0}
      /\ DOMAIN violations = 1..Len(violations)
      /\ DOMAIN violations' = 1..(Len(violations) - 1)
      /\ \A i \in 1..(Len(violations) - 1) : violations'[i] = violations[i + 1]
  BY HeadTailProperties, LenProperties, EmptySeq DEF TypeOK
<1>2. ASSUME NEW v \in Vessel, NEW z \in ZoneID, NEW i \in DOMAIN violations',
             About(i, v, z)',
             \A j \in DOMAIN violations' : j > i => ~About(j, v, z)'
      PROVE  violations'[i].kind = feed'[v][z]
  <2>1. i + 1 \in DOMAIN violations /\ About(i + 1, v, z)
    BY <1>1, <1>2 DEF About
  <2>2. ASSUME NEW j \in DOMAIN violations, j > i + 1
        PROVE  ~About(j, v, z)
    <3>1. /\ j - 1 \in DOMAIN violations' /\ j - 1 > i
          /\ violations'[j - 1] = violations[j]
      BY <1>1, <1>2, <2>2
    <3> QED BY <1>2, <3>1 DEF About
  <2>3. violations[i + 1].kind = feed[v][z]
    BY <2>1, <2>2 DEF LastIsLatest
  <2> QED BY <1>1, <1>2, <2>3
<1> QED BY <1>2 DEF LastIsLatest

LEMMA LatestEnqueue ==
    ASSUME TypeOK, LastIsLatest, NEW w \in Worker, pc[w] \in {"emit", "send"}, Enqueue(w)
    PROVE  LastIsLatest'
<1> DEFINE e == out[w].event
<1>1. e \in ViolationEvent /\ e.vessel \in Vessel /\ e.zone \in ZoneID
  BY DEF TypeOK, Emitting, Outgoing, ViolationEvent
<1>2. /\ Len(violations) \in Nat
      /\ DOMAIN violations = 1..Len(violations)
      /\ DOMAIN violations' = 1..(Len(violations) + 1)
      /\ \A i \in 1..Len(violations) : violations'[i] = violations[i]
      /\ violations'[Len(violations) + 1] = e
  <2> HIDE DEF e
  <2>1. violations \in Seq(ViolationEvent) /\ violations' = Append(violations, e)
    BY DEF TypeOK, Enqueue, e
  <2> QED BY <1>1, <2>1, AppendProperties, LenProperties
<1>3. \A v \in Vessel, z \in ZoneID :
         feed'[v][z] = IF v = e.vessel /\ z = e.zone THEN e.kind ELSE feed[v][z]
  BY <1>1 DEF Enqueue, TypeOK
<1> HIDE DEF e
<1>4. ASSUME NEW v \in Vessel, NEW z \in ZoneID, NEW i \in DOMAIN violations',
             About(i, v, z)',
             \A j \in DOMAIN violations' : j > i => ~About(j, v, z)'
      PROVE  violations'[i].kind = feed'[v][z]
  <2>1. CASE i = Len(violations) + 1
    BY <1>2, <1>3, <1>4, <2>1 DEF About
  <2>2. CASE i # Len(violations) + 1
    <3>1. i \in DOMAIN violations /\ Len(violations) + 1 \in DOMAIN violations'
          /\ Len(violations) + 1 > i
      BY <1>2, <2>2
    <3>2. ~ (v = e.vessel /\ z = e.zone)
      BY <1>2, <1>4, <3>1 DEF About
    <3>3. About(i, v, z) /\ violations'[i] = violations[i]
      BY <1>2, <1>4, <3>1 DEF About
    <3>4. ASSUME NEW j \in DOMAIN violations, j > i
          PROVE  ~About(j, v, z)
      <4>1. j \in DOMAIN violations' /\ violations'[j] = violations[j]
        BY <1>2
      <4> QED BY <1>4, <3>4, <4>1 DEF About
    <3>5. violations[i].kind = feed[v][z]
      BY <3>1, <3>3, <3>4 DEF LastIsLatest
    <3> QED BY <1>3, <3>2, <3>3, <3>5
  <2> QED BY <2>1, <2>2
<1> QED BY <1>4 DEF LastIsLatest

(* The accounts of the pairs, over the same two steps of the channel.      *)
LEMMA AccountedTail ==
    ASSUME TypeOK, LastAccounted, violations # << >>,
           violations' = Tail(violations), feed' = feed,
           received \subseteq received', discarded \subseteq discarded',
           \A v \in Vessel, z \in ZoneID :
              About(1, v, z) /\ ~HasLater(v, z) => <<v, z>> \in received' \cup discarded'
    PROVE  LastAccounted'
<1>1. /\ Len(violations) \in Nat \ {0}
      /\ DOMAIN violations = 1..Len(violations)
      /\ DOMAIN violations' = 1..(Len(violations) - 1)
      /\ \A i \in 1..(Len(violations) - 1) : violations'[i] = violations[i + 1]
  BY HeadTailProperties, LenProperties, EmptySeq DEF TypeOK
<1>2. ASSUME NEW v \in Vessel, NEW z \in ZoneID,
             \A i \in DOMAIN violations' : ~About(i, v, z)'
      PROVE  feed'[v][z] = "NONE" \/ <<v, z>> \in received' \cup discarded'
  <2>1. ASSUME NEW j \in DOMAIN violations, j > 1 PROVE ~About(j, v, z)
    <3>1. j - 1 \in DOMAIN violations' /\ violations'[j - 1] = violations[j]
      BY <1>1, <2>1
    <3> QED BY <1>2, <3>1 DEF About
  <2>2. ~HasLater(v, z)
    BY <2>1 DEF HasLater, About
  <2>3. CASE About(1, v, z)
    BY <2>2, <2>3
  <2>4. CASE ~About(1, v, z)
    <3>1. \A j \in DOMAIN violations : ~About(j, v, z)
      BY <1>1, <2>1, <2>4
    <3> QED BY <3>1 DEF LastAccounted
  <2> QED BY <2>3, <2>4
<1> QED BY <1>2 DEF LastAccounted

LEMMA AccountedEnqueue ==
    ASSUME TypeOK, LastAccounted, NEW w \in Worker, pc[w] \in {"emit", "send"}, Enqueue(w)
    PROVE  LastAccounted'
<1> DEFINE e == out[w].event
<1>1. e \in ViolationEvent /\ e.vessel \in Vessel /\ e.zone \in ZoneID
  BY DEF TypeOK, Emitting, Outgoing, ViolationEvent
<1>2. /\ DOMAIN violations = 1..Len(violations) /\ Len(violations) \in Nat
      /\ DOMAIN violations' = 1..(Len(violations) + 1)
      /\ \A i \in 1..Len(violations) : violations'[i] = violations[i]
      /\ violations'[Len(violations) + 1] = e
  <2> HIDE DEF e
  <2>1. violations \in Seq(ViolationEvent) /\ violations' = Append(violations, e)
    BY DEF TypeOK, Enqueue, e
  <2> QED BY <1>1, <2>1, AppendProperties, LenProperties
<1>3. /\ \A v \in Vessel, z \in ZoneID :
            ~(v = e.vessel /\ z = e.zone) => feed'[v][z] = feed[v][z]
      /\ received' = received \ {<<e.vessel, e.zone>>}
      /\ discarded' = discarded \ {<<e.vessel, e.zone>>}
  BY <1>1 DEF Enqueue, TypeOK
<1> HIDE DEF e
<1>4. ASSUME NEW v \in Vessel, NEW z \in ZoneID,
             \A i \in DOMAIN violations' : ~About(i, v, z)'
      PROVE  feed'[v][z] = "NONE" \/ <<v, z>> \in received' \cup discarded'
  <2>1. ~(v = e.vessel /\ z = e.zone)
    <3>1. Len(violations) + 1 \in DOMAIN violations'
      BY <1>2
    <3> QED BY <1>2, <1>4, <3>1 DEF About
  <2>2. \A i \in DOMAIN violations : ~About(i, v, z)
    BY <1>2, <1>4 DEF About
  <2>3. feed[v][z] = "NONE" \/ <<v, z>> \in received \cup discarded
    BY <2>2 DEF LastAccounted
  <2> QED BY <1>3, <2>1, <2>3
<1> QED BY <1>4 DEF LastAccounted

(* The publisher takes the oldest event: if it was the last of its pair,   *)
(* it is of the kind emitted last, and the pair is received.               *)
LEMMA OverflowPublish ==
    ASSUME TypeOK, OverflowInv, Publish
    PROVE  OverflowInv'
<1> DEFINE e == Head(violations)
<1>1. /\ violations # << >> /\ violations' = Tail(violations) /\ feed' = feed
      /\ discarded' = discarded
      /\ received' = IF e.kind = feed[e.vessel][e.zone]
                     THEN received \cup {<<e.vessel, e.zone>>} ELSE received
  BY DEF Publish, Ready
<1>2. e = violations[1] /\ 1 \in DOMAIN violations /\ DOMAIN violations \subseteq Nat
  BY <1>1, HeadTailProperties, LenProperties, EmptySeq DEF TypeOK
<1>3. ASSUME NEW v \in Vessel, NEW z \in ZoneID, About(1, v, z), ~HasLater(v, z)
      PROVE  <<v, z>> \in received'
  <2>1. \A j \in DOMAIN violations : j > 1 => ~About(j, v, z)
    BY <1>3 DEF HasLater, About
  <2>2. violations[1].kind = feed[v][z]
    BY <1>2, <1>3, <2>1 DEF OverflowInv, LastIsLatest
  <2>3. e.vessel = v /\ e.zone = z /\ e.kind = feed[v][z]
    BY <1>2, <1>3, <2>2 DEF About
  <2> HIDE DEF e
  <2> QED BY <1>1, <2>3
<1>4. received \subseteq received'
  BY <1>1
<1> HIDE DEF e
<1>5. LastIsLatest'
  BY <1>1, LatestTail DEF OverflowInv
<1>6. LastAccounted'
  BY <1>1, <1>3, <1>4, AccountedTail DEF OverflowInv
<1> QED BY <1>5, <1>6 DEF OverflowInv

(* A worker makes room: the oldest event's pair is on record if no later   *)
(* event of it is in the channel.                                          *)
LEMMA OverflowDrop ==
    ASSUME TypeOK, OverflowInv, NEW w \in Worker, DropOldest(w)
    PROVE  OverflowInv'
<1>1. CASE violations = << >>
  <2>1. UNCHANGED <<violations, feed, received>> /\ discarded \subseteq discarded'
    BY <1>1 DEF DropOldest, WithoutOldest
  <2> QED BY <2>1 DEF OverflowInv, LastIsLatest, LastAccounted, About
<1>2. CASE violations # << >>
  <2>1. /\ violations' = Tail(violations) /\ feed' = feed /\ received' = received
        /\ discarded' = discarded \cup LastOfPair
    BY <1>2 DEF DropOldest, WithoutOldest
  <2>2. 1 \in DOMAIN violations
    BY <1>2, LenProperties, EmptySeq DEF TypeOK
  <2>3. ASSUME NEW v \in Vessel, NEW z \in ZoneID, About(1, v, z), ~HasLater(v, z)
        PROVE  <<v, z>> \in LastOfPair
    BY <2>2, <2>3 DEF LastOfPair, About
  <2>4. LastIsLatest'
    BY <1>2, <2>1, LatestTail DEF OverflowInv
  <2>5. LastAccounted'
    BY <1>2, <2>1, <2>3, AccountedTail DEF OverflowInv
  <2> QED BY <2>4, <2>5 DEF OverflowInv
<1> QED BY <1>1, <1>2

LEMMA ChannelSteps ==
    ASSUME [Next]_vars
    PROVE  \/ \E w \in Worker : (Emit(w) /\ Enqueue(w)) \/ Send(w) \/ DropOldest(w)
           \/ Publish
           \/ UNCHANGED channelVars
  BY ZenonT(40) DEF Next, WorkerStep, Receive, Track, TakeHit, FindExit, FinishRecord, Emit, ChannelFull,
     RecordSeen, Stop, Dispatch, SweepStep, SweepStop, SweepStart, SweepVisit, SweepFindStale,
     SweepExpire, SweepZonesDone, SweepUnlink, SweepDone, StopPublishing, Close, Cancel,
     Tick, ReloadZones, MapRaceFatal, vars, channelVars

LEMMA OverflowStep ==
    ASSUME TypeOK, OverflowInv, [Next]_vars
    PROVE  OverflowInv'
<1>1. ASSUME NEW w \in Worker, (Emit(w) /\ Enqueue(w)) \/ Send(w)
      PROVE  OverflowInv'
  BY <1>1, LatestEnqueue, AccountedEnqueue DEF Emit, Send, At, OverflowInv
<1>2. CASE UNCHANGED channelVars
  BY <1>2 DEF OverflowInv, LastIsLatest, LastAccounted, About, channelVars
<1> QED BY <1>1, <1>2, OverflowPublish, OverflowDrop, ChannelSteps

(* However many workers make room at once, of each pair the event emitted  *)
(* last is the last in the channel, or received, or was discarded while it *)
(* was the oldest (classifier.go 217-229).                                 *)
THEOREM OverflowKeepsLatestHolds == Spec => []OverflowKeepsLatest
<1>1. Init => OverflowInv
  BY EmptySeq DEF Init, OverflowInv, LastIsLatest, LastAccounted
<1>2. TypeOK /\ OverflowInv /\ [Next]_vars => OverflowInv'
  BY OverflowStep
<1>3. TypeOK /\ OverflowInv => OverflowKeepsLatest
  BY OverflowInvImplies
<1> QED BY <1>1, <1>2, <1>3, TypeCorrect, PTL DEF Spec

-----------------------------------------------------------------------------
(* The second send of emitViolation.                                       *)
RoomInv == Len(violations) <= ViolationsCap /\ BlocksOnlyWhenRobbed

LEMMA RoomTypes ==
    ASSUME TypeOK
    PROVE  ViolationsCap \in Nat \ {0} /\ Len(violations) \in Nat
  BY ClassifierAssumption, LenProperties DEF TypeOK

LEMMA RoomEnqueue ==
    ASSUME TypeOK, RoomInv, NEW w \in Worker, Enqueue(w), pc[w] \in {"emit", "send"}
    PROVE  RoomInv'
<1>1. out[w].event \in ViolationEvent
  BY DEF TypeOK, Emitting, Outgoing
<1>2. Len(violations') = Len(violations) + 1 /\ Len(violations) < ViolationsCap
  BY <1>1, AppendProperties DEF Enqueue, TypeOK
<1>3. \A u \in Worker : pc'[u] = "send" => u # w /\ pc[u] = "send"
  BY DEF Enqueue, TypeOK
<1>4. \A u \in Worker : u # w /\ pc[u] = "send" => u \in robbed'
  BY DEF Enqueue
<1> QED BY <1>2, <1>3, <1>4, RoomTypes DEF RoomInv, BlocksOnlyWhenRobbed

LEMMA RoomDrop ==
    ASSUME TypeOK, RoomInv, NEW w \in Worker, DropOldest(w)
    PROVE  RoomInv'
<1>1. violations # << >> => Len(Tail(violations)) = Len(violations) - 1
  BY HeadTailProperties, EmptySeq DEF TypeOK
<1>2. Len(violations') < ViolationsCap
  BY <1>1, RoomTypes, EmptySeq DEF DropOldest, WithoutOldest, RoomInv
<1>3. Len(violations') \in Int
  BY <1>1, RoomTypes, EmptySeq DEF DropOldest, WithoutOldest
<1> QED BY <1>2, <1>3, RoomTypes DEF RoomInv, BlocksOnlyWhenRobbed

LEMMA RoomStep ==
    ASSUME TypeOK, RoomInv, [Next]_vars
    PROVE  RoomInv'
<1>1. ASSUME NEW w \in Worker, (Emit(w) /\ Enqueue(w)) \/ Send(w) PROVE RoomInv'
  BY <1>1, RoomEnqueue DEF Emit, Send, At
<1>2. ASSUME NEW w \in Worker, DropOldest(w) PROVE RoomInv'
  BY <1>2, RoomDrop
<1>3. CASE Publish
  <2>1. Len(violations') = Len(violations) - 1 /\ UNCHANGED <<pc, robbed>>
    BY <1>3, HeadTailProperties, EmptySeq DEF Publish, Ready, TypeOK, workerVars
  <2> QED BY <2>1, RoomTypes DEF RoomInv, BlocksOnlyWhenRobbed
<1>4. ASSUME NEW w \in Worker, WorkerStep(w) \/ Stop(w), UNCHANGED channelVars
      PROVE  RoomInv'
  <2>1. \A u \in Worker : pc'[u] = "send" => pc[u] = "send" \/ DropOldest(w)
    BY <1>4 DEF TypeOK, WorkerStep, Receive, Track, TakeHit, Announce, FindExit,
          FinishRecord, Emit, Send, Enqueue, ChannelFull, RecordSeen, Stop
  <2> QED BY <1>2, <1>4, <2>1 DEF RoomInv, BlocksOnlyWhenRobbed, channelVars
<1>5. CASE UNCHANGED <<pc, channelVars>>
  BY <1>5 DEF RoomInv, BlocksOnlyWhenRobbed, channelVars
<1>6. ASSUME ~ \E w \in Worker : WorkerStep(w) \/ Stop(w), ~Publish
      PROVE  UNCHANGED <<pc, channelVars>>
  BY <1>6 DEF Next, Dispatch, SweepStep, SweepStop, SweepStart, SweepVisit, SweepFindStale,
     SweepExpire, SweepZonesDone, SweepUnlink, SweepDone, StopPublishing, Close, Cancel,
     Tick, ReloadZones, MapRaceFatal, vars, workerVars, channelVars
<1> QED BY <1>1, <1>2, <1>3, <1>4, <1>5, <1>6, ChannelSteps

(* For any number of workers, the send after a drop blocks only if another *)
(* worker has taken the slot in between: the publisher, the sweep and the  *)
(* shutdown cannot fill it (classifier.go 217-229).  That it then may      *)
(* block for good is what classifier_hang shows.                           *)
THEOREM BlocksOnlyWhenRobbedHolds == Spec => []BlocksOnlyWhenRobbed
<1>1. Init => RoomInv
  <2>1. \A w \in Worker : Init => pc[w] = "idle"
    BY DEF Init
  <2>2. Len(<< >>) = 0
    BY EmptySeq
  <2> QED BY <2>1, <2>2, ClassifierAssumption DEF Init, RoomInv, BlocksOnlyWhenRobbed
<1>2. TypeOK /\ RoomInv /\ [Next]_vars => RoomInv'
  BY RoomStep
<1>3. RoomInv => BlocksOnlyWhenRobbed
  BY DEF RoomInv
<1> QED BY <1>1, <1>2, <1>3, TypeCorrect, PTL DEF Spec

-----------------------------------------------------------------------------
(* Two workers never touch the tracker or the zone map of one another, one *)
(* of them writing: each has the vessels of its shard only (ingestion.go   *)
(* 162-169, classifier.go 111-185).                                        *)
THEOREM WorkersNeverRaceHolds == Spec => []WorkersNeverRace
<1>1. TypeOK /\ FeedInv => WorkersNeverRace
  <2>1. SUFFICES ASSUME TypeOK, FeedInv, NEW w1 \in Worker, NEW w2 \in Worker, w1 # w2
                 PROVE  WorkerWrites(w1) \cap (WorkerReads(w2) \cup WorkerWrites(w2)) = {}
    BY DEF WorkersNeverRace
  <2> DEFINE Touched(w) == IF pc[w] = "track" THEN {Outer(w)}
                           ELSE IF pc[w] \in {"zones", "record"} THEN {Inner(job[w].vessel)} ELSE {}
  <2>2. \A w \in Worker : WorkerWrites(w) \cup WorkerReads(w) \subseteq Touched(w)
    BY DEF WorkerWrites, WorkerReads
  <2>3. Touched(w1) \cap Touched(w2) = {}
    <3>1. pc[w1] \in {"zones", "record"} => ShardOf[job[w1].vessel] = w1
      BY <2>1 DEF FeedInv, OwnVessels
    <3>2. pc[w2] \in {"zones", "record"} => ShardOf[job[w2].vessel] = w2
      BY <2>1 DEF FeedInv, OwnVessels
    <3>3. \A v \in {job[w1].vessel}, u \in {job[w2].vessel} : v # u => Inner(v) # Inner(u)
      BY DEF Inner
    <3>4. Outer(w1) # Outer(w2)
      BY <2>1 DEF Outer
    <3>5. \A w, v : Outer(w) # Inner(v)
      BY DEF Outer, Inner
    <3> QED BY <2>1, <3>1, <3>2, <3>3, <3>4, <3>5
  <2> HIDE DEF Touched
  <2> QED BY <2>2, <2>3
<1> QED BY <1>1, TypeCorrect, FeedInvariant, PTL

(* Before the first sweep nothing races: the sweep is the only goroutine   *)
(* that touches another's tracker (classifier.go 192-215).                 *)
THEOREM SafeBeforeSweepHolds == Spec => []SafeBeforeSweep
<1> DEFINE Waiting == now < SweepPeriod => ~crashed /\ sweep.pc \in {"wait", "stopped"}
<1>1. Init => Waiting
  BY IdleSweepType DEF Init
<1>2. ASSUME TypeOK, Waiting, [Next]_vars PROVE Waiting'
  <2>1. now' >= now /\ now \in Nat /\ now' \in Nat
    <3>1. now' \in {now, now + 1}
      BY <1>2 DEF Next, Dispatch, WorkerStep, Receive, Track, TakeHit, FindExit, FinishRecord, Emit,
         DropOldest, Send, RecordSeen, Stop, SweepStart, SweepStep, SweepVisit, SweepFindStale,
         SweepExpire, SweepZonesDone, SweepUnlink, SweepDone, SweepStop, Publish, StopPublishing,
         Close, Cancel, Tick, ReloadZones, MapRaceFatal, vars
    <3> QED BY <1>2, <3>1 DEF TypeOK
  <2>2. SUFFICES ASSUME now' < SweepPeriod
                 PROVE  ~crashed' /\ sweep'.pc \in {"wait", "stopped"}
    OBVIOUS
  <2>3. now < SweepPeriod /\ ~crashed /\ sweep.pc \in {"wait", "stopped"}
    BY <1>2, <2>1, <2>2, ClassifierAssumption
  <2>4. ~ \E w \in Worker : Race(w)
    BY <2>3 DEF Race, SweepReads, SweepWrites
  <2>5. ~ \E more \in SUBSET Vessel : SweepStart(more)
    <3>1. \A more : SweepStart(more) => now >= SweepPeriod
      BY DEF SweepStart
    <3>2. ~(now >= SweepPeriod)
      BY <2>1, <2>3, ClassifierAssumption
    <3> QED BY <3>1, <3>2
  <2>6. ~ SweepStep
    BY <2>3 DEF SweepStep, SweepAt, SweepVisit, SweepFindStale, SweepExpire, SweepZonesDone,
                SweepUnlink, SweepDone
  <2>7. CASE SweepStop
    BY <1>2, <2>3, <2>7 DEF SweepStop, lifeVars, TypeOK, Sweep
  <2>8. CASE ~ SweepStop
    <3>1. ~MapRaceFatal
      BY <2>4 DEF MapRaceFatal
    <3>2. ASSUME NEW w \in Worker, WorkerStep(w) \/ Stop(w)
          PROVE  UNCHANGED <<sweep, crashed>>
      BY <3>2 DEF WorkerStep, Receive, Track, TakeHit, FindExit, FinishRecord, Emit, DropOldest,
                  Send, RecordSeen, Stop, lifeVars
    <3>3. ASSUME NEW v \in Vessel, NEW p \in Point, Dispatch(v, p)
          PROVE  UNCHANGED <<sweep, crashed>>
      BY <3>3 DEF Dispatch, lifeVars
    <3>4. ASSUME \/ Publish \/ StopPublishing \/ Close \/ Cancel \/ Tick \/ ReloadZones
                 \/ UNCHANGED vars
          PROVE  UNCHANGED <<sweep, crashed>>
      BY <3>4 DEF Publish, StopPublishing, Close, Cancel, Tick, ReloadZones, vars, lifeVars
    <3>5. Next \/ UNCHANGED vars
      BY <1>2
    <3>6. UNCHANGED <<sweep, crashed>>
      BY <2>5, <2>6, <2>8, <3>1, <3>2, <3>3, <3>4, <3>5 DEF Next
    <3> QED BY <2>3, <3>6
  <2> QED BY <2>7, <2>8
<1>3. Waiting => SafeBeforeSweep
  BY DEF SafeBeforeSweep
<1> HIDE DEF Waiting
<1> QED BY <1>1, <1>2, <1>3, TypeCorrect, PTL DEF Spec

(* Nothing is sent on the violations channel once it is closed (classifier *)
(* .go 92-93, 217-229).                                                    *)
THEOREM ClosedIsQuietHolds == Spec => []ClosedIsQuiet
<1>1. Init => ClosedIsQuiet
  BY DEF Init, ClosedIsQuiet
<1>2. ASSUME TypeOK, ClosedIsQuiet, [Next]_vars PROVE ClosedIsQuiet'
  <2>1. CASE Close
    BY <2>1 DEF Close, ClosedIsQuiet, workerVars
  <2>2. CASE \E w \in Worker : WorkerStep(w) \/ Stop(w)
    <3>1. PICK w \in Worker : WorkerStep(w) \/ Stop(w)
      BY <2>2
    <3>2. pc[w] # "stopped" /\ closed' = closed
      BY <3>1 DEF WorkerStep, Receive, Track, TakeHit, FindExit, FinishRecord, Emit, DropOldest,
                  Send, RecordSeen, Stop, At, lifeVars
    <3> QED BY <1>2, <3>2 DEF ClosedIsQuiet
  <2>3. CASE ~ Close /\ ~ \E w \in Worker : WorkerStep(w) \/ Stop(w)
    <3>1. closed' = closed /\ pc' = pc
      BY <1>2, <2>3 DEF Next, Dispatch, SweepStart, SweepStep, SweepVisit, SweepFindStale,
         SweepExpire, SweepZonesDone, SweepUnlink, SweepDone, SweepStop, Publish, StopPublishing,
         Cancel, Tick, ReloadZones, MapRaceFatal, vars, lifeVars, workerVars
    <3> QED BY <1>2, <3>1 DEF ClosedIsQuiet
  <2> QED BY <2>1, <2>2, <2>3
<1> QED BY <1>1, <1>2, TypeCorrect, PTL DEF Spec
=============================================================================
