-------------------------- MODULE DashboardProofs ---------------------------
(***************************************************************************)
(* Proofs about the alert history and the dashboard, for every set of      *)
(* alerts, every limit and any number of frames on the wire.               *)
(***************************************************************************)
EXTENDS Dashboard, TLAPS, SequenceTheorems, FiniteSetTheorems, WellFoundedInduction

LEMMA MinOfTwo ==
    ASSUME NEW a \in Int, NEW b \in Int
    PROVE  Min({a, b}) = IF a <= b THEN a ELSE b
<1> DEFINE m == IF a <= b THEN a ELSE b
<1>1. m \in {a, b} /\ \A y \in {a, b} : m <= y
  OBVIOUS
<1>2. \A x \in {a, b} : (\A y \in {a, b} : x <= y) => x = m
  OBVIOUS
<1> HIDE DEF m
<1>3. Min({a, b}) \in {a, b} /\ \A y \in {a, b} : Min({a, b}) <= y
  BY <1>1, Zenon DEF Min
<1> QED BY <1>2, <1>3 DEF m

LEMMA ToSetElements ==
    ASSUME NEW s, NEW x
    PROVE  x \in ToSet(s) <=> \E i \in DOMAIN s : s[i] = x
  BY DEF ToSet

(* A sequence cut at a length.                                             *)
LEMMA TakeProperties ==
    ASSUME NEW S, NEW s \in Seq(S), NEW n \in Nat
    PROVE  /\ Take(s, n) \in Seq(S)
           /\ Len(Take(s, n)) = IF n <= Len(s) THEN n ELSE Len(s)
           /\ \A i \in 1..Len(Take(s, n)) : Take(s, n)[i] = s[i]
<1> DEFINE m == IF n <= Len(s) THEN n ELSE Len(s)
<1>1. /\ Len(s) \in Nat /\ m \in Nat /\ m <= Len(s)
      /\ \A i \in 1..Len(s) : s[i] \in S
  BY LenProperties, ElementOfSeq
<1>2. Take(s, n) = SubSeq(s, 1, m)
  BY <1>1, MinOfTwo DEF Take
<1>3. \A i \in 1..m : s[i] \in S
  BY <1>1
<1> HIDE DEF m
<1>4. /\ SubSeq(s, 1, m) \in Seq(S)
      /\ Len(SubSeq(s, 1, m)) = IF 1 <= m THEN m - 1 + 1 ELSE 0
      /\ \A i \in 1 .. m - 1 + 1 : SubSeq(s, 1, m)[i] = s[1 + i - 1]
  BY <1>1, <1>3, SubSeqProperties
<1>5. Len(SubSeq(s, 1, m)) = m
  BY <1>1, <1>4
<1>6. \A i \in 1..m : SubSeq(s, 1, m)[i] = s[i]
  BY <1>1, <1>4
<1> QED BY <1>2, <1>4, <1>5, <1>6 DEF m

(* The elements of a finite set in some order: each of them is there, and  *)
(* at one place.                                                           *)
LEMMA EachOnce ==
    ASSUME NEW S, IsFiniteSet(S), NEW p \in SetToSeqs(S)
    PROVE  /\ p \in Seq(S)
           /\ Len(p) = Cardinality(S)
           /\ \A i, j \in 1..Len(p) : p[i] = p[j] => i = j
           /\ \A r \in S : \E i \in 1..Len(p) : p[i] = r
<1> DEFINE n == Cardinality(S)
<1>1. n \in Nat /\ IsFiniteSet(1..n) /\ Cardinality(1..n) = n
  BY FS_CardinalityType, FS_Interval
<1>2. p \in [1..n -> S] /\ \A i, j \in 1..n : i # j => p[i] # p[j]
  BY DEF SetToSeqs
<1>3. p \in Seq(S) /\ Len(p) = n
  <2> HIDE DEF n
  <2>1. p \in Seq(S)
    BY <1>1, <1>2, SeqDef
  <2>2. DOMAIN p = 1..Len(p) /\ Len(p) \in Nat /\ DOMAIN p = 1..n
    BY <1>2, <2>1, LenProperties
  <2>3. \A m \in Nat : Cardinality(1..m) = m
    BY FS_Interval
  <2> QED BY <1>1, <2>1, <2>2, <2>3
<1>4. p \in Injection(1..n, S)
  BY <1>2 DEF Injection, IsInjective
<1>5. p \in Surjection(1..n, S)
  BY <1>1, <1>4, FS_Injection
<1> QED BY <1>2, <1>3, <1>5 DEF Surjection

LEMMA LimitType ==
    ASSUME NEW n \in Int
    PROVE  Limit(n) \in Nat \ {0}
  BY LimitAssumption DEF Limit

(* What an answer of the database says about the rows it found: it lists   *)
(* each once, the newest first; a row it leaves out is no newer than those *)
(* it lists, and none is left out while the answer is below the limit.     *)
LEMMA AnswerProperties ==
    ASSUME NEW rows, IsFiniteSet(rows), NEW f, f.limit \in Int, NEW page \in Answers(rows, f)
    PROVE  /\ page \in Seq({r \in rows : Matches(r, f)})
           /\ Len(page) <= Limit(f.limit)
           /\ \A i, j \in 1..Len(page) : page[i] = page[j] => i = j
           /\ NewestFirst(page)
           /\ \A r \in rows : Matches(r, f) =>
                \/ r \in ToSet(page)
                \/ Len(page) = Limit(f.limit) /\ \A q \in ToSet(page) : q.ts >= r.ts
<1> DEFINE found == {r \in rows : Matches(r, f)}
           n == Cardinality(found)
           lim == Limit(f.limit)
           size == IF n <= lim THEN n ELSE lim
<1>1. IsFiniteSet(found) /\ n \in Nat /\ lim \in Nat \ {0}
  <2>1. IsFiniteSet(found)
    BY FS_Subset
  <2> QED BY <2>1, FS_CardinalityType, LimitType
<1>2. PICK p \in SetToSeqs(found) : NewestFirst(p) /\ page = SubSeq(p, 1, Min({n, lim}))
  BY DEF Answers
<1>3. /\ p \in Seq(found)
      /\ Len(p) = n
      /\ \A i, j \in 1..n : p[i] = p[j] => i = j
      /\ \A r \in found : \E i \in 1..n : p[i] = r
  <2> HIDE DEF found
  <2> QED BY <1>1, EachOnce
<1> HIDE DEF found, n, lim
<1>4. page = Take(p, lim)
  BY <1>1, <1>2, <1>3, MinOfTwo DEF Take
<1>5. /\ page \in Seq(found)
      /\ Len(page) = size
      /\ \A i \in 1..size : page[i] = p[i]
  <2>1. /\ Take(p, lim) \in Seq(found)
        /\ Len(Take(p, lim)) = IF lim <= Len(p) THEN lim ELSE Len(p)
        /\ \A i \in 1..Len(Take(p, lim)) : Take(p, lim)[i] = p[i]
    BY <1>1, <1>3, TakeProperties
  <2> QED BY <1>1, <1>3, <1>4, <2>1
<1>6. size \in Nat /\ size <= n /\ size <= lim
  BY <1>1
<1> HIDE DEF size
<1>7. \A i, j \in 1..Len(page) : page[i] = page[j] => i = j
  BY <1>1, <1>3, <1>5, <1>6
<1>8. ASSUME NEW r \in found, r \notin ToSet(page)
      PROVE  Len(page) = lim /\ \A q \in ToSet(page) : q.ts >= r.ts
  <2>1. DOMAIN page = 1..size /\ DOMAIN p = 1..n
    BY <1>3, <1>5, LenProperties
  <2>2. PICK k \in 1..n : p[k] = r
    BY <1>3
  <2>3. k > size
    <3>1. k \in 1..size => page[k] \in ToSet(page)
      BY <2>1 DEF ToSet
    <3> QED BY <1>1, <1>5, <1>6, <1>8, <2>2, <3>1
  <2>4. size = lim
    BY <1>1, <1>6, <2>2, <2>3 DEF size
  <2>5. ASSUME NEW i \in 1..size PROVE page[i].ts >= r.ts
    <3>1. i \in 1..n /\ i < k /\ page[i] = p[i]
      BY <1>1, <1>5, <1>6, <2>2, <2>3
    <3>2. p[i].ts >= p[k].ts
      BY <1>2, <2>1, <2>2, <3>1 DEF NewestFirst
    <3> QED BY <2>2, <3>1, <3>2
  <2> QED BY <1>5, <2>1, <2>4, <2>5 DEF ToSet
<1>9. NewestFirst(page)
  <2>1. DOMAIN page = 1..size /\ DOMAIN p = 1..n
    BY <1>3, <1>5, LenProperties
  <2>2. \A i \in 1..size : i \in 1..n /\ page[i] = p[i]
    BY <1>1, <1>5, <1>6
  <2> QED BY <1>2, <2>1, <2>2 DEF NewestFirst
<1> QED BY <1>5, <1>6, <1>7, <1>8, <1>9 DEF found, lim

(* The list after the initial query: the answer in some order, cut at the  *)
(* maximum.                                                                *)
LEMMA ShownProperties ==
    ASSUME NEW S, NEW s \in Seq(S), SetInitialAlerts(s),
           \A i, j \in 1..Len(s) : s[i] = s[j] => i = j
    PROVE  /\ alerts' \in Seq(S) /\ Len(alerts') <= MaxAlerts
           /\ \A i, j \in 1..Len(alerts') : alerts'[i] = alerts'[j] => i = j
           /\ Len(alerts') < MaxAlerts =>
                Len(alerts') = Len(s) /\ ToSet(s) \subseteq ToSet(alerts')
<1> DEFINE n == Len(s)
<1>1. /\ n \in Nat /\ DOMAIN s = 1..n /\ \A i \in 1..n : s[i] \in S
      /\ IsFiniteSet(1..n) /\ Cardinality(1..n) = n
  <2>1. n \in Nat /\ DOMAIN s = 1..n /\ \A i \in 1..n : s[i] \in S
    BY LenProperties, ElementOfSeq
  <2> HIDE DEF n
  <2>2. IsFiniteSet(1..n) /\ Cardinality(1..n) = n
    BY <2>1, FS_Interval
  <2> QED BY <2>1, <2>2
<1>2. PICK p \in SetToSeqs(1..n) : alerts' = Take([i \in 1..n |-> s[p[i]]], MaxAlerts)
  BY <1>1 DEF SetInitialAlerts
<1>3. /\ p \in Seq(1..n) /\ Len(p) = n
      /\ \A i, j \in 1..n : p[i] = p[j] => i = j
      /\ \A k \in 1..n : \E i \in 1..n : p[i] = k
  <2> DEFINE D == 1..n
  <2>1. IsFiniteSet(D) /\ Cardinality(D) = n /\ p \in SetToSeqs(D) /\ n \in Nat
    BY <1>1
  <2> HIDE DEF n, D
  <2>2. /\ p \in Seq(D) /\ Len(p) = n
        /\ \A i, j \in 1..n : p[i] = p[j] => i = j
        /\ \A k \in D : \E i \in 1..n : p[i] = k
    BY <2>1, EachOnce
  <2> QED BY <2>2 DEF D
<1>4. \A i \in 1..n : p[i] \in 1..n
  BY <1>3, ElementOfSeq
<1> DEFINE t == [i \in 1..n |-> s[p[i]]]
<1>5. t \in Seq(S) /\ Len(t) = n
  <2> HIDE DEF n
  <2>1. t \in [1..n -> S]
    BY <1>1, <1>4
  <2> HIDE DEF t
  <2>2. t \in Seq(S)
    BY <1>1, <2>1, SeqDef
  <2>3. 1..Len(t) = 1..n /\ Len(t) \in Nat
    BY <2>1, <2>2, LenProperties
  <2>4. \A m \in Nat : Cardinality(1..m) = m
    BY FS_Interval
  <2> QED BY <1>1, <2>2, <2>3, <2>4
<1>6. MaxAlerts \in Nat
  BY BoundAssumption
<1>7. alerts' = Take(t, MaxAlerts)
  BY <1>2
<1>8. \A i \in 1..n : t[i] = s[p[i]]
  OBVIOUS
<1>9. \A i, j \in 1..n : s[i] = s[j] => i = j
  OBVIOUS
<1> HIDE DEF n, t
<1>10. /\ alerts' \in Seq(S)
       /\ Len(alerts') = IF MaxAlerts <= n THEN MaxAlerts ELSE n
       /\ \A i \in 1..Len(alerts') : alerts'[i] = t[i]
  BY <1>5, <1>6, <1>7, TakeProperties
<1>11. /\ Len(alerts') <= MaxAlerts /\ Len(alerts') <= n /\ Len(alerts') \in Nat
       /\ Len(alerts') < MaxAlerts => Len(alerts') = n
  BY <1>1, <1>6, <1>10
<1>12. \A i \in 1..Len(alerts') : i \in 1..n /\ alerts'[i] = s[p[i]]
  BY <1>1, <1>8, <1>10, <1>11
<1>13. \A i, j \in 1..Len(alerts') : alerts'[i] = alerts'[j] => i = j
  <2>1. ASSUME NEW i \in 1..Len(alerts'), NEW j \in 1..Len(alerts'), alerts'[i] = alerts'[j]
        PROVE  i = j
    <3>1. i \in 1..n /\ j \in 1..n /\ s[p[i]] = s[p[j]]
      BY <1>12, <2>1
    <3>2. p[i] = p[j]
      BY <1>4, <1>9, <3>1
    <3> QED BY <1>3, <3>1, <3>2
  <2> QED BY <2>1
<1>14. ASSUME Len(alerts') < MaxAlerts
       PROVE  Len(alerts') = n /\ ToSet(s) \subseteq ToSet(alerts')
  <2>1. Len(alerts') = n
    BY <1>11, <1>14
  <2>2. DOMAIN alerts' = 1..n
    BY <1>10, <2>1, LenProperties
  <2>3. ASSUME NEW k \in 1..n PROVE \E i \in 1..n : alerts'[i] = s[k]
    <3>1. PICK i \in 1..n : p[i] = k
      BY <1>3
    <3>2. alerts'[i] = s[k]
      BY <1>12, <2>1, <3>1
    <3> QED BY <3>2
  <2>4. \A k \in DOMAIN s : \E i \in DOMAIN alerts' : alerts'[i] = s[k]
    BY <1>1, <2>2, <2>3
  <2>5. ToSet(s) \subseteq ToSet(alerts')
    <3>1. ASSUME NEW x \in ToSet(s) PROVE x \in ToSet(alerts')
      <4>1. PICK k \in DOMAIN s : s[k] = x
        BY ToSetElements
      <4>2. PICK i \in DOMAIN alerts' : alerts'[i] = s[k]
        BY <2>4
      <4> QED BY <4>1, <4>2, ToSetElements
    <3> QED BY <3>1
  <2> QED BY <2>1, <2>5
<1> QED BY <1>10, <1>11, <1>13, <1>14 DEF n

-----------------------------------------------------------------------------
(* Type correctness, with the messages on the wire and an answer that      *)
(* lists each alert once.                                                  *)
Message == [type : {"ALERT"}, payload : Row]
           \cup [type : {"POSITION_BATCH"}, payload : {"snapshots"}]

TypeInv == /\ TypeOK
           /\ IsFiniteSet(table)
           /\ backlog \in Seq(Message)
           /\ frames \in Seq(Seq(Message))
           /\ \A i, j \in 1..Len(load.body) : load.body[i] = load.body[j] => i = j

(* The alerts on their way to the tab, for the frames on the wire.         *)
OnWire(wire) == UNION {AlertsIn(wire[i]) : i \in DOMAIN wire}

LEMMA AlertsInElements ==
    ASSUME NEW frame, NEW r
    PROVE  r \in AlertsIn(frame) <=>
             \E k \in DOMAIN frame : frame[k].type = "ALERT" /\ frame[k].payload = r
  BY DEF AlertsIn

LEMMA OnWireElements ==
    ASSUME NEW wire, NEW r
    PROVE  r \in OnWire(wire) <=> \E i \in DOMAIN wire : r \in AlertsIn(wire[i])
  BY DEF OnWire

LEMMA OnWireMessages ==
    ASSUME NEW wire, NEW r
    PROVE  r \in OnWire(wire) <=> \E i \in DOMAIN wire : \E k \in DOMAIN wire[i] :
                                    wire[i][k].type = "ALERT" /\ wire[i][k].payload = r
  BY AlertsInElements, OnWireElements

(* A message that the hub sends takes a place of its own on the wire; in   *)
(* a frame with others, all the alerts of that frame are missed.           *)
LEMMA StreamEffect ==
    ASSUME frames \in Seq(Seq(Message)), NEW m \in Message, Stream(m),
           client = "in", client' = "in"
    PROVE  /\ frames' \in Seq(Seq(Message))
           /\ missed \subseteq missed'
           /\ missed' \subseteq missed \cup OnWire(frames')
           /\ \E I \in DOMAIN frames' : \E K \in DOMAIN frames'[I] :
                /\ frames'[I][K] = m
                /\ \A i \in DOMAIN frames' : \A k \in DOMAIN frames'[i] :
                     \/ i = I /\ k = K
                     \/ i \in DOMAIN frames /\ k \in DOMAIN frames[i] /\ frames'[i][k] = frames[i][k]
                /\ \A i \in DOMAIN frames : \A k \in DOMAIN frames[i] :
                     /\ i \in DOMAIN frames' /\ k \in DOMAIN frames'[i]
                     /\ frames'[i][k] = frames[i][k]
                     /\ ~ (i = I /\ k = K)
           /\ \A i \in DOMAIN frames' :
                \/ Len(frames'[i]) = 1
                \/ i \in DOMAIN frames /\ frames'[i] = frames[i]
                \/ AlertsIn(frames'[i]) \subseteq missed'
<1> DEFINE n == Len(frames)
<1>1. n \in Nat /\ DOMAIN frames = 1..n /\ \A i \in 1..n : frames[i] \in Seq(Message)
  BY LenProperties, ElementOfSeq
<1>2. CASE frames' = Append(frames, << m >>) /\ UNCHANGED missed
  <2>1. << m >> \in Seq(Message) /\ Len(<< m >>) = 1 /\ << m >>[1] = m /\ DOMAIN << m >> = 1..1
    OBVIOUS
  <2>2. /\ frames' \in Seq(Seq(Message)) /\ Len(frames') = n + 1
        /\ \A i \in 1..n : frames'[i] = frames[i]
        /\ frames'[n + 1] = << m >>
    BY <1>2, <2>1, AppendProperties
  <2>3. DOMAIN frames' = 1..(n + 1)
    BY <2>2, LenProperties
  <2> HIDE DEF n
  <2>4. /\ n + 1 \in DOMAIN frames' /\ 1 \in DOMAIN frames'[n + 1] /\ frames'[n + 1][1] = m
        /\ \A i \in DOMAIN frames' : i = n + 1 \/ i \in DOMAIN frames
        /\ \A k \in DOMAIN frames'[n + 1] : k = 1
        /\ \A i \in DOMAIN frames : i \in DOMAIN frames' /\ i # n + 1
        /\ Len(frames'[n + 1]) = 1
    BY <1>1, <2>1, <2>2, <2>3
  <2> QED BY <1>1, <1>2, <2>2, <2>4, SMTT(30)
<1>3. CASE /\ frames # << >>
           /\ frames' = ReplaceAt(frames, n, Append(Last(frames), m))
           /\ missed' = missed \cup AlertsIn(Last(frames'))
  <2> DEFINE last == frames[n]
             next == Append(last, m)
  <2>1. n \in 1..n
    BY <1>1, <1>3, EmptySeq
  <2>2. last \in Seq(Message) /\ Len(last) \in Nat /\ DOMAIN last = 1..Len(last)
    BY <1>1, <2>1, LenProperties
  <2>3. /\ next \in Seq(Message) /\ Len(next) = Len(last) + 1
        /\ \A k \in 1..Len(last) : next[k] = last[k]
        /\ next[Len(last) + 1] = m
    <3> HIDE DEF last
    <3> QED BY <2>2, AppendProperties
  <2>4. DOMAIN next = 1..(Len(last) + 1)
    <3> HIDE DEF next, last
    <3> QED BY <2>3, LenProperties
  <2>5. /\ frames' \in Seq(Seq(Message)) /\ Len(frames') = n
        /\ \A i \in 1..n : frames'[i] = IF i = n THEN next ELSE frames[i]
    <3>1. frames' = [frames EXCEPT ![n] = next]
      BY <1>3 DEF ReplaceAt, Last
    <3> HIDE DEF next, n
    <3> QED BY <2>1, <2>3, <3>1, ExceptSeq DEF n
  <2>6. DOMAIN frames' = 1..n /\ Last(frames') = next
    <3> HIDE DEF next
    <3> QED BY <2>1, <2>5, LenProperties DEF Last
  <2> DEFINE K == Len(last) + 1
  <2> HIDE DEF n, last, next, K
  <2>7. Len(last) + 1 \in Nat \ {0} /\ \A k \in 1..(Len(last) + 1) : k \in 1..Len(last) \/ k = K
    BY <2>2 DEF K
  <2>9. frames'[n] = next /\ frames[n] = last
    BY <2>1, <2>5 DEF last
  <2>10. /\ n \in DOMAIN frames' /\ K \in DOMAIN frames'[n] /\ frames'[n][K] = m
    BY <1>1, <2>1, <2>3, <2>4, <2>6, <2>7, <2>9 DEF K
  <2>11. /\ \A i \in DOMAIN frames' : i \in DOMAIN frames /\ (i = n \/ frames'[i] = frames[i])
         /\ \A i \in DOMAIN frames : i \in DOMAIN frames'
    BY <1>1, <2>5, <2>6
  <2>12. \A k \in DOMAIN frames'[n] :
             k = K \/ (k \in DOMAIN frames[n] /\ frames'[n][k] = frames[n][k])
    <3>1. \A k \in 1..Len(last) : next[k] = last[k]
      BY <2>3
    <3>2. \A k \in 1..(Len(last) + 1) : k = K \/ (k \in 1..Len(last) /\ next[k] = last[k])
      BY <2>7, <3>1, Zenon
    <3>3. \A k \in DOMAIN next : k = K \/ (k \in DOMAIN last /\ next[k] = last[k])
      BY <2>2, <2>4, <3>2, Zenon
    <3> QED BY <2>9, <3>3
  <2>13. \A k \in DOMAIN frames[n] :
             k \in DOMAIN frames'[n] /\ frames'[n][k] = frames[n][k] /\ k # K
    BY <2>2, <2>3, <2>4, <2>9 DEF K
  <2>8. /\ AlertsIn(frames'[n]) \subseteq missed' /\ missed \subseteq missed'
        /\ missed' \subseteq missed \cup OnWire(frames')
    <3>1. missed' = missed \cup AlertsIn(frames'[n])
      BY <1>3, <2>6, <2>9
    <3>2. AlertsIn(frames'[n]) \subseteq OnWire(frames')
      BY <2>10, OnWireElements
    <3> QED BY <3>1, <3>2
  <2>14. \A i \in DOMAIN frames' : \A k \in DOMAIN frames'[i] :
           \/ i = n /\ k = K
           \/ i \in DOMAIN frames /\ k \in DOMAIN frames[i] /\ frames'[i][k] = frames[i][k]
    BY <2>11, <2>12
  <2>15. \A i \in DOMAIN frames : \A k \in DOMAIN frames[i] :
           /\ i \in DOMAIN frames' /\ k \in DOMAIN frames'[i]
           /\ frames'[i][k] = frames[i][k]
           /\ ~ (i = n /\ k = K)
    BY <2>11, <2>13
  <2> QED BY <2>5, <2>8, <2>10, <2>11, <2>14, <2>15, Zenon
<1>4. ~ (client' = "out")
  OBVIOUS
<1> QED BY <1>2, <1>3, <1>4 DEF Stream

LEMMA OnWireStream ==
    ASSUME frames \in Seq(Seq(Message)), NEW m \in Message, Stream(m)
    PROVE  /\ frames' \in Seq(Seq(Message))
           /\ missed \subseteq missed'
           /\ missed' \subseteq missed \cup OnWire(frames')
           /\ OnWire(frames) \subseteq OnWire(frames')
           /\ \A r \in OnWire(frames') :
                r \in OnWire(frames) \/ (m.type = "ALERT" /\ m.payload = r)
           /\ client = "in" /\ client' = "in" /\ m.type = "ALERT" => m.payload \in OnWire(frames')
<1>1. CASE UNCHANGED <<frames, missed>> /\ ~ (client = "in" /\ client' = "in")
  BY <1>1
<1>2. CASE client = "in" /\ client' = "in"
  <2>1. PICK I \in DOMAIN frames' : \E K \in DOMAIN frames'[I] :
          /\ frames'[I][K] = m
          /\ \A i \in DOMAIN frames' : \A k \in DOMAIN frames'[i] :
               \/ i = I /\ k = K
               \/ i \in DOMAIN frames /\ k \in DOMAIN frames[i] /\ frames'[i][k] = frames[i][k]
          /\ \A i \in DOMAIN frames : \A k \in DOMAIN frames[i] :
               /\ i \in DOMAIN frames' /\ k \in DOMAIN frames'[i]
               /\ frames'[i][k] = frames[i][k]
               /\ ~ (i = I /\ k = K)
    BY <1>2, StreamEffect
  <2>2. PICK K \in DOMAIN frames'[I] :
          /\ frames'[I][K] = m
          /\ \A i \in DOMAIN frames' : \A k \in DOMAIN frames'[i] :
               \/ i = I /\ k = K
               \/ i \in DOMAIN frames /\ k \in DOMAIN frames[i] /\ frames'[i][k] = frames[i][k]
          /\ \A i \in DOMAIN frames : \A k \in DOMAIN frames[i] :
               /\ i \in DOMAIN frames' /\ k \in DOMAIN frames'[i]
               /\ frames'[i][k] = frames[i][k]
               /\ ~ (i = I /\ k = K)
    BY <2>1
  <2>3. /\ frames' \in Seq(Seq(Message)) /\ missed \subseteq missed'
        /\ missed' \subseteq missed \cup OnWire(frames')
    BY <1>2, StreamEffect
  <2>4. ASSUME NEW r \in OnWire(frames) PROVE r \in OnWire(frames')
    <3>1. PICK i \in DOMAIN frames : \E k \in DOMAIN frames[i] :
            frames[i][k].type = "ALERT" /\ frames[i][k].payload = r
      BY OnWireMessages
    <3>2. PICK k \in DOMAIN frames[i] : frames[i][k].type = "ALERT" /\ frames[i][k].payload = r
      BY <3>1
    <3>3. i \in DOMAIN frames' /\ k \in DOMAIN frames'[i] /\ frames'[i][k] = frames[i][k]
      BY <2>2
    <3> QED BY <3>2, <3>3, OnWireMessages
  <2>5. ASSUME NEW r \in OnWire(frames')
        PROVE  r \in OnWire(frames) \/ (m.type = "ALERT" /\ m.payload = r)
    <3>1. PICK i \in DOMAIN frames' : \E k \in DOMAIN frames'[i] :
            frames'[i][k].type = "ALERT" /\ frames'[i][k].payload = r
      BY OnWireMessages
    <3>2. PICK k \in DOMAIN frames'[i] : frames'[i][k].type = "ALERT" /\ frames'[i][k].payload = r
      BY <3>1
    <3>3. CASE i = I /\ k = K
      BY <2>2, <3>2, <3>3
    <3>4. CASE i \in DOMAIN frames /\ k \in DOMAIN frames[i] /\ frames'[i][k] = frames[i][k]
      BY <3>2, <3>4, OnWireMessages
    <3> QED BY <2>2, <3>3, <3>4
  <2>6. m.type = "ALERT" => m.payload \in OnWire(frames')
    BY <2>2, OnWireMessages
  <2> QED BY <2>3, <2>4, <2>5, <2>6
<1>3. \/ UNCHANGED <<frames, missed>> /\ ~ (client = "in" /\ client' = "in")
      \/ client = "in" /\ client' = "in"
  BY DEF Stream
<1> QED BY <1>1, <1>2, <1>3

(* What the pipeline offers joins the channel, or is missed.               *)
LEMMA OfferEffect ==
    ASSUME backlog \in Seq(Message), Len(backlog) <= BroadcastCap, NEW m \in Message, Offer(m)
    PROVE  /\ backlog' \in Seq(Message) /\ Len(backlog') <= BroadcastCap
           /\ missed \subseteq missed' /\ missed' \subseteq missed \cup AlertsIn(<< m >>)
           /\ AlertsIn(backlog) \subseteq AlertsIn(backlog')
           /\ AlertsIn(backlog') \subseteq AlertsIn(backlog) \cup AlertsIn(<< m >>)
           /\ AlertsIn(<< m >>) \subseteq AlertsIn(backlog') \cup missed'
           /\ \A i \in DOMAIN backlog' : \/ i \in DOMAIN backlog /\ backlog'[i] = backlog[i]
                                         \/ i = Len(backlog) + 1 /\ backlog'[i] = m
<1> DEFINE n == Len(backlog)
<1>1. n \in Nat /\ DOMAIN backlog = 1..n /\ BroadcastCap \in Nat
  BY LenProperties, BoundAssumption
<1>2. DOMAIN << m >> = {1} /\ << m >>[1] = m
  OBVIOUS
<1>3. CASE backlog' = backlog /\ missed' = missed \cup AlertsIn(<< m >>)
  BY <1>3
<1>4. CASE Len(backlog) < BroadcastCap /\ backlog' = Append(backlog, m) /\ UNCHANGED missed
  <2>1. /\ backlog' \in Seq(Message) /\ Len(backlog') = n + 1
        /\ \A i \in 1..n : backlog'[i] = backlog[i]
        /\ backlog'[n + 1] = m
    BY <1>4, AppendProperties
  <2>2. DOMAIN backlog' = 1..(n + 1)
    BY <2>1, LenProperties
  <2> HIDE DEF n
  <2>3. /\ n + 1 \in DOMAIN backlog'
        /\ \A i \in DOMAIN backlog : i \in DOMAIN backlog' /\ backlog'[i] = backlog[i]
        /\ \A i \in DOMAIN backlog' : i \in DOMAIN backlog \/ i = n + 1
    BY <1>1, <2>1, <2>2
  <2>4. AlertsIn(backlog) \subseteq AlertsIn(backlog')
    BY <2>3, AlertsInElements
  <2>5. AlertsIn(<< m >>) \subseteq AlertsIn(backlog')
    BY <1>2, <2>1, <2>3, AlertsInElements
  <2>6. AlertsIn(backlog') \subseteq AlertsIn(backlog) \cup AlertsIn(<< m >>)
    <3>1. ASSUME NEW r \in AlertsIn(backlog') PROVE r \in AlertsIn(backlog) \cup AlertsIn(<< m >>)
      <4>1. PICK i \in DOMAIN backlog' : backlog'[i].type = "ALERT" /\ backlog'[i].payload = r
        BY AlertsInElements
      <4>2. CASE i \in DOMAIN backlog
        BY <2>3, <4>1, <4>2, AlertsInElements
      <4>3. CASE i = n + 1
        BY <1>2, <2>1, <4>1, <4>3, AlertsInElements
      <4> QED BY <2>3, <4>2, <4>3
    <3> QED BY <3>1
  <2>7. Len(backlog') <= BroadcastCap
    BY <1>1, <1>4, <2>1 DEF n
  <2> QED BY <1>4, <2>1, <2>3, <2>4, <2>5, <2>6, <2>7 DEF n
<1> QED BY <1>3, <1>4 DEF Offer

(* What the hub takes from its channel.                                    *)
LEMMA BacklogTail ==
    ASSUME backlog \in Seq(Message), backlog # << >>, backlog' = Tail(backlog)
    PROVE  /\ backlog' \in Seq(Message) /\ Len(backlog') <= Len(backlog)
           /\ Head(backlog) \in Message /\ Head(backlog) = backlog[1] /\ 1 \in DOMAIN backlog
           /\ \A i \in DOMAIN backlog' : i \in Nat \ {0} /\ i + 1 \in DOMAIN backlog
                                         /\ backlog'[i] = backlog[i + 1]
           /\ \A r : r \in AlertsIn(backlog) <=>
                \/ Head(backlog).type = "ALERT" /\ Head(backlog).payload = r
                \/ r \in AlertsIn(backlog')
<1> DEFINE n == Len(backlog)
<1>1. n \in Nat \ {0} /\ DOMAIN backlog = 1..n
  BY LenProperties, EmptySeq
<1>2. /\ backlog' \in Seq(Message) /\ Len(backlog') = n - 1 /\ Head(backlog) \in Message
      /\ \A i \in 1..Len(backlog') : backlog'[i] = backlog[i + 1]
  BY HeadTailProperties
<1>3. DOMAIN backlog' = 1..(n - 1) /\ Head(backlog) = backlog[1] /\ 1 \in DOMAIN backlog
  BY <1>1, <1>2, LenProperties
<1> HIDE DEF n
<1>4. \A i \in DOMAIN backlog' : i \in Nat \ {0} /\ i + 1 \in DOMAIN backlog
                                /\ backlog'[i] = backlog[i + 1]
  BY <1>1, <1>2, <1>3
<1>5. ASSUME NEW r, r \in AlertsIn(backlog)
      PROVE  \/ Head(backlog).type = "ALERT" /\ Head(backlog).payload = r
             \/ r \in AlertsIn(backlog')
  <2>1. PICK i \in DOMAIN backlog : backlog[i].type = "ALERT" /\ backlog[i].payload = r
    BY <1>5, AlertsInElements
  <2>2. CASE i = 1
    BY <1>3, <2>1, <2>2
  <2>3. CASE i # 1
    <3>1. i - 1 \in 1..(n - 1) /\ (i - 1) + 1 = i
      BY <1>1, <2>3
    <3>2. i - 1 \in DOMAIN backlog' /\ backlog'[i - 1] = backlog[(i - 1) + 1]
      BY <1>3, <1>4, <3>1
    <3>3. backlog'[i - 1] = backlog[i]
      BY <3>1, <3>2
    <3> QED BY <2>1, <3>2, <3>3, AlertsInElements
  <2> QED BY <2>2, <2>3
<1>6. ASSUME NEW r, r \in AlertsIn(backlog') PROVE r \in AlertsIn(backlog)
  <2>1. PICK i \in DOMAIN backlog' : backlog'[i].type = "ALERT" /\ backlog'[i].payload = r
    BY <1>6, AlertsInElements
  <2> QED BY <1>4, <2>1, AlertsInElements
<1>7. ASSUME NEW r, Head(backlog).type = "ALERT" /\ Head(backlog).payload = r
      PROVE  r \in AlertsIn(backlog)
  BY <1>3, <1>7, AlertsInElements
<1>8. Len(backlog') <= Len(backlog)
  BY <1>1, <1>2 DEF n
<1> QED BY <1>2, <1>3, <1>4, <1>5, <1>6, <1>7, <1>8

(* The first frame leaves the wire.                                        *)
LEMMA OnWireTail ==
    ASSUME frames \in Seq(Seq(Message)), frames # << >>, frames' = Tail(frames)
    PROVE  /\ frames' \in Seq(Seq(Message)) /\ Head(frames) = frames[1] /\ 1 \in DOMAIN frames
           /\ \A i \in DOMAIN frames' : i + 1 \in DOMAIN frames /\ frames'[i] = frames[i + 1]
           /\ \A i \in DOMAIN frames' : i \in Nat \ {0}
           /\ \A r : r \in OnWire(frames) <=> r \in AlertsIn(Head(frames)) \/ r \in OnWire(frames')
<1> DEFINE n == Len(frames)
<1>1. n \in Nat \ {0} /\ DOMAIN frames = 1..n
  BY LenProperties, EmptySeq
<1>2. /\ frames' \in Seq(Seq(Message)) /\ Len(frames') = n - 1
      /\ \A i \in 1..Len(frames') : frames'[i] = frames[i + 1]
  BY HeadTailProperties
<1>3. DOMAIN frames' = 1..(n - 1) /\ Head(frames) = frames[1] /\ 1 \in DOMAIN frames
  BY <1>1, <1>2, LenProperties
<1> HIDE DEF n
<1>4. \A i \in DOMAIN frames' : i \in Nat \ {0} /\ i + 1 \in DOMAIN frames /\ frames'[i] = frames[i + 1]
  BY <1>1, <1>2, <1>3
<1>5. ASSUME NEW r, r \in OnWire(frames)
      PROVE  r \in AlertsIn(Head(frames)) \/ r \in OnWire(frames')
  <2>1. PICK i \in DOMAIN frames : r \in AlertsIn(frames[i])
    BY <1>5, OnWireElements
  <2>2. CASE i = 1
    BY <1>3, <2>1, <2>2
  <2>3. CASE i # 1
    <3>1. i \in 1..n /\ i - 1 \in 1..(n - 1) /\ (i - 1) + 1 = i
      BY <1>1, <2>3
    <3>2. i - 1 \in DOMAIN frames' /\ frames'[i - 1] = frames[(i - 1) + 1]
      BY <1>2, <1>3, <3>1
    <3>3. i - 1 \in DOMAIN frames' /\ r \in AlertsIn(frames'[i - 1])
      BY <2>1, <3>1, <3>2
    <3> QED BY <3>3, OnWireElements
  <2> QED BY <2>2, <2>3
<1>6. ASSUME NEW r, r \in AlertsIn(Head(frames)) PROVE r \in OnWire(frames)
  BY <1>3, <1>6, OnWireElements
<1>7. ASSUME NEW r, r \in OnWire(frames') PROVE r \in OnWire(frames)
  <2>1. PICK i \in DOMAIN frames' : r \in AlertsIn(frames'[i])
    BY <1>7, OnWireElements
  <2> QED BY <1>4, <2>1, OnWireElements
<1> QED BY <1>2, <1>3, <1>4, <1>5, <1>6, <1>7

(* A frame that parses holds one message; one that does not may hold more. *)
LEMMA ParsedFrame ==
    ASSUME NEW frame \in Seq(Message)
    PROVE  /\ \A m \in Parsed(frame) :
                /\ Len(frame) = 1 /\ 1 \in DOMAIN frame /\ frame[1] = m /\ m \in Message
                /\ m.type = "ALERT" => AlertsIn(frame) = {m.payload}
                /\ m.type # "ALERT" => AlertsIn(frame) = {}
           /\ Parsed(frame) = {} => Len(frame) # 1
<1>1. Len(frame) \in Nat /\ DOMAIN frame = 1..Len(frame) /\ \A i \in DOMAIN frame : frame[i] \in Message
  BY LenProperties, ElementOfSeq
<1>2. CASE Len(frame) = 1
  <2>1. DOMAIN frame = {1}
    BY <1>1, <1>2
  <2>2. Parsed(frame) = {frame[1]} /\ frame[1] \in Message
    BY <1>1, <1>2, <2>1 DEF Parsed
  <2>3. frame[1].type = "ALERT" => AlertsIn(frame) = {frame[1].payload}
    BY <2>1, AlertsInElements
  <2>4. frame[1].type # "ALERT" => AlertsIn(frame) = {}
    BY <2>1, AlertsInElements
  <2> QED BY <1>2, <2>1, <2>2, <2>3, <2>4
<1>3. CASE Len(frame) # 1
  BY <1>3 DEF Parsed
<1> QED BY <1>2, <1>3

LEMMA PushProperties ==
    ASSUME NEW S, alerts \in Seq(S), Len(alerts) <= MaxAlerts, NEW r \in S, PushAlert(r)
    PROVE  /\ alerts' \in Seq(S) /\ Len(alerts') <= MaxAlerts
           /\ 1 \in DOMAIN alerts' /\ alerts'[1] = r
           /\ \A i \in DOMAIN alerts' : i \in Nat \ {0}
           /\ \A i \in DOMAIN alerts' : i # 1 => i - 1 \in DOMAIN alerts /\ alerts'[i] = alerts[i - 1]
           /\ Len(alerts) <= Len(alerts')
           /\ Len(alerts') < MaxAlerts => ToSet(alerts) \cup {r} \subseteq ToSet(alerts')
<1> DEFINE n == Len(alerts)
           t == << r >> \o alerts
<1>1. n \in Nat /\ DOMAIN alerts = 1..n /\ MaxAlerts \in Nat \ {0}
  BY LenProperties, BoundAssumption
<1>2. << r >> \in Seq(S) /\ Len(<< r >>) = 1 /\ << r >>[1] = r
  OBVIOUS
<1>3. /\ t \in Seq(S) /\ Len(t) = 1 + n
      /\ \A i \in 1..(1 + n) : t[i] = IF i <= 1 THEN << r >>[i] ELSE alerts[i - 1]
  BY <1>2, ConcatProperties
<1>4. alerts' = Take(t, MaxAlerts)
  BY DEF PushAlert
<1> HIDE DEF t
<1>5. /\ alerts' \in Seq(S)
      /\ Len(alerts') = IF MaxAlerts <= 1 + n THEN MaxAlerts ELSE 1 + n
      /\ \A i \in 1..Len(alerts') : alerts'[i] = t[i]
  BY <1>1, <1>3, <1>4, TakeProperties
<1> HIDE DEF n
<1>6. /\ Len(alerts') \in Nat \ {0} /\ Len(alerts') <= MaxAlerts /\ Len(alerts') <= 1 + n
      /\ Len(alerts') < MaxAlerts => Len(alerts') = 1 + n
      /\ n <= MaxAlerts => n <= Len(alerts')
  BY <1>1, <1>5
<1>7. DOMAIN alerts' = 1..Len(alerts')
  BY <1>5, LenProperties
<1>8. 1 \in DOMAIN alerts' /\ alerts'[1] = r
  BY <1>1, <1>2, <1>3, <1>5, <1>6, <1>7
<1>9. \A i \in DOMAIN alerts' : i # 1 => i - 1 \in DOMAIN alerts /\ alerts'[i] = alerts[i - 1]
  <2>1. ASSUME NEW i \in DOMAIN alerts', i # 1
        PROVE  i - 1 \in DOMAIN alerts /\ alerts'[i] = alerts[i - 1]
    <3>1. i \in Int /\ 1 <= i /\ i <= Len(alerts') /\ Len(alerts') <= 1 + n /\ Len(alerts') \in Int
      BY <1>6, <1>7, <2>1
    <3>2. i \in 1..(1 + n) /\ i - 1 \in 1..n /\ ~ (i <= 1)
      BY <1>1, <2>1, <3>1
    <3> QED BY <1>1, <1>3, <1>5, <1>7, <3>2
  <2> QED BY <2>1
<1>10. ASSUME Len(alerts') < MaxAlerts, NEW q \in ToSet(alerts) PROVE q \in ToSet(alerts')
  <2>1. PICK k \in DOMAIN alerts : alerts[k] = q
    BY ToSetElements
  <2>2. k + 1 \in DOMAIN alerts' /\ k + 1 # 1 /\ (k + 1) - 1 = k
    BY <1>1, <1>6, <1>7, <1>10
  <2>3. alerts'[k + 1] = q
    BY <1>9, <2>1, <2>2
  <2> QED BY <2>2, <2>3, ToSetElements
<1>11. r \in ToSet(alerts')
  BY <1>8, ToSetElements
<1> QED BY <1>5, <1>6, <1>7, <1>8, <1>9, <1>10, <1>11 DEF n
-----------------------------------------------------------------------------
(* Type correctness.                                                       *)

LEMMA SeqWidens ==
    ASSUME NEW S, NEW T, S \subseteq T, NEW s \in Seq(S)
    PROVE  s \in Seq(T)
<1>1. Len(s) \in Nat /\ s \in [1..Len(s) -> T]
  BY LenProperties, ElementOfSeq
<1> QED BY <1>1, SeqDef

LEMMA EmptyProperties ==
    ASSUME NEW S
    PROVE  << >> \in Seq(S) /\ Len(<< >>) = 0 /\ DOMAIN << >> = {}
  BY EmptySeq

LEMMA NothingOnWire ==
    OnWire(<< >>) = {}
  BY EmptyProperties DEF OnWire

LEMMA RowsAndMessages ==
    /\ None \notin Row
    /\ \A m \in Message : m.type = "ALERT" => m.payload \in Row
    /\ \A r \in Row : LET m == [type |-> "ALERT", payload |-> r]
                      IN  m \in Message /\ m.type = "ALERT" /\ m.payload = r
    /\ LET m == [type |-> "POSITION_BATCH", payload |-> "snapshots"]
       IN  m \in Message /\ m.type # "ALERT"
  BY BoundAssumption DEF Message

LEMMA HandledOnWire ==
    TypeOK <=> /\ table \subseteq handled /\ handled \subseteq Row
               /\ inHand \in handled \cup {None}
               /\ AlertsIn(backlog) \subseteq handled /\ Len(backlog) <= BroadcastCap
               /\ client \in {"none", "in", "out"}
               /\ OnWire(frames) \subseteq handled
               /\ socket \in {"connecting", "open", "closed"}
               /\ alerts \in Seq(handled) /\ Len(alerts) <= MaxAlerts
               /\ load.state \in {"asked", "answered", "shown", "failed"}
               /\ load.body \in Seq(table)
               /\ missed \subseteq handled /\ subscribed \in BOOLEAN
  BY DEF TypeOK, OnWire

LEMMA TypeInit == Init => TypeInv
<1> SUFFICES ASSUME Init PROVE TypeInv
  OBVIOUS
<1>1. /\ << >> \in Seq(handled) /\ << >> \in Seq(table) /\ << >> \in Seq(Seq(Message))
      /\ << >> \in Seq(Message) /\ Len(<< >>) = 0 /\ OnWire(<< >>) = {} /\ DOMAIN << >> = {}
  BY EmptyProperties, NothingOnWire
<1>2. 0 <= MaxAlerts /\ 0 <= BroadcastCap
  BY BoundAssumption
<1>3. IsFiniteSet(table)
  BY FS_EmptySet DEF Init
<1>4. AlertsIn(backlog) = {}
  BY <1>1, AlertsInElements DEF Init
<1>5. TypeOK
  BY <1>1, <1>2, <1>4, HandledOnWire DEF Init
<1> QED BY <1>1, <1>3, <1>5 DEF TypeInv, Init

LEMMA TypeHandle ==
    ASSUME TypeInv, NEW r \in Row, HandleViolation(r)
    PROVE  TypeInv'
<1>1. table' = table \/ table' = table \cup {r}
  BY DEF HandleViolation, SaveAlert
<1>2. IsFiniteSet(table')
  BY <1>1, FS_AddElement DEF TypeInv
<1>3. alerts' \in Seq(handled')
  BY SeqWidens DEF TypeInv, TypeOK, HandleViolation, tab
<1>4. load'.body \in Seq(table')
  BY <1>1, SeqWidens DEF TypeInv, TypeOK, HandleViolation, tab
<1>5. AlertsIn(backlog') = AlertsIn(backlog)
  BY DEF HandleViolation
<1> QED BY <1>1, <1>2, <1>3, <1>4, <1>5 DEF TypeInv, TypeOK, HandleViolation, tab, history

(* What the pipeline puts on the hub's channel.                            *)
LEMMA Offered ==
    ASSUME TypeInv, Broadcast \/ HandlePositionBatch
    PROVE  \E m \in Message :
             /\ Offer(m) /\ inHand' = None
             /\ AlertsIn(<< m >>) = {inHand} \ {None}
             /\ m.type = "ALERT" => m.payload = inHand /\ inHand \in handled
<1>1. \A m : /\ m.type = "ALERT" => AlertsIn(<< m >>) = {m.payload}
             /\ m.type # "ALERT" => AlertsIn(<< m >>) = {}
  <2> TAKE m
  <2>1. DOMAIN << m >> = {1} /\ << m >>[1] = m
    OBVIOUS
  <2> QED BY <2>1 DEF AlertsIn
<1>2. CASE Broadcast
  <2> DEFINE m == [type |-> "ALERT", payload |-> inHand]
  <2>1. inHand \in Row /\ inHand \in handled /\ inHand # None /\ Offer(m) /\ inHand' = None
    BY <1>2 DEF Broadcast, TypeInv, TypeOK
  <2>2. m \in Message /\ m.type = "ALERT" /\ m.payload = inHand
    BY <2>1, RowsAndMessages
  <2> HIDE DEF m
  <2>3. AlertsIn(<< m >>) = {inHand} \ {None}
    BY <1>1, <2>1, <2>2
  <2> QED BY <2>1, <2>2, <2>3
<1>3. CASE HandlePositionBatch
  <2> DEFINE m == [type |-> "POSITION_BATCH", payload |-> "snapshots"]
  <2>1. Offer(m) /\ inHand = None /\ inHand' = None
    BY <1>3 DEF HandlePositionBatch
  <2>2. m \in Message /\ m.type # "ALERT"
    BY RowsAndMessages
  <2> HIDE DEF m
  <2>3. AlertsIn(<< m >>) = {inHand} \ {None}
    BY <1>1, <2>1, <2>2
  <2> QED BY <2>1, <2>2, <2>3
<1> QED BY <1>2, <1>3

LEMMA TypeOffer ==
    ASSUME TypeInv, Broadcast \/ HandlePositionBatch
    PROVE  TypeInv'
<1>1. PICK m \in Message : /\ Offer(m) /\ inHand' = None
                           /\ AlertsIn(<< m >>) = {inHand} \ {None}
  BY Offered
<1>2. AlertsIn(<< m >>) \subseteq handled
  BY <1>1 DEF TypeInv, TypeOK
<1>3. backlog \in Seq(Message) /\ Len(backlog) <= BroadcastCap
  BY DEF TypeInv, TypeOK
<1>4. /\ backlog' \in Seq(Message) /\ Len(backlog') <= BroadcastCap
      /\ missed' \subseteq missed \cup AlertsIn(<< m >>)
      /\ AlertsIn(backlog') \subseteq AlertsIn(backlog) \cup AlertsIn(<< m >>)
  BY <1>1, <1>3, OfferEffect
<1>5. missed' \subseteq handled /\ AlertsIn(backlog') \subseteq handled
  BY <1>2, <1>4 DEF TypeInv, TypeOK
<1>6. UNCHANGED <<table, handled, client, frames, tab, subscribed>>
  BY DEF Broadcast, HandlePositionBatch
<1> QED BY <1>1, <1>4, <1>5, <1>6 DEF TypeInv, TypeOK, tab

LEMMA TypeHandOut ==
    ASSUME TypeInv, HandOut
    PROVE  TypeInv'
<1> DEFINE m == Head(backlog)
<1>1. /\ Stream(m) /\ backlog' = Tail(backlog) /\ backlog # << >>
      /\ UNCHANGED <<table, handled, inHand, tab, subscribed>>
  BY DEF HandOut
<1>2. /\ backlog' \in Seq(Message) /\ Len(backlog') <= Len(backlog) /\ m \in Message
      /\ \A r : r \in AlertsIn(backlog) <=>
           (m.type = "ALERT" /\ m.payload = r) \/ r \in AlertsIn(backlog')
  BY <1>1, BacklogTail DEF TypeInv
<1> HIDE DEF m
<1>3. m.type = "ALERT" => m.payload \in handled
  BY <1>2 DEF TypeInv, TypeOK
<1>4. frames \in Seq(Seq(Message)) /\ OnWire(frames) \subseteq handled
  BY HandledOnWire DEF TypeInv
<1>5. /\ frames' \in Seq(Seq(Message))
      /\ missed' \subseteq missed \cup OnWire(frames')
      /\ \A r \in OnWire(frames') :
           r \in OnWire(frames) \/ (m.type = "ALERT" /\ m.payload = r)
  BY <1>1, <1>2, <1>4, OnWireStream
<1>6. OnWire(frames') \subseteq handled
  BY <1>3, <1>4, <1>5
<1>7. missed' \subseteq handled /\ AlertsIn(backlog') \subseteq handled
  BY <1>2, <1>5, <1>6 DEF TypeInv, TypeOK
<1>8. client' \in {"none", "in", "out"}
  BY <1>1 DEF Stream, TypeInv, TypeOK
<1>9. Len(backlog') <= BroadcastCap
  <2>1. Len(backlog) \in Nat /\ Len(backlog') \in Nat
    BY <1>2, LenProperties DEF TypeInv
  <2> QED BY <1>2, <2>1, BoundAssumption DEF TypeInv, TypeOK
<1>10. \A i \in DOMAIN frames' : AlertsIn(frames'[i]) \subseteq handled'
  BY <1>1, <1>6 DEF OnWire
<1> QED BY <1>1, <1>2, <1>5, <1>7, <1>8, <1>9, <1>10 DEF TypeInv, TypeOK, tab

LEMMA TypeOnMessage ==
    ASSUME TypeInv, OnMessage
    PROVE  TypeInv'
<1>1. /\ frames' \in Seq(Seq(Message)) /\ Head(frames) = frames[1] /\ 1 \in DOMAIN frames
      /\ \A r : r \in OnWire(frames) <=> r \in AlertsIn(Head(frames)) \/ r \in OnWire(frames')
  BY OnWireTail DEF TypeInv, OnMessage
<1>2. Head(frames) \in Seq(Message)
  BY HeadTailProperties DEF TypeInv, OnMessage
<1>3. UNCHANGED <<table, handled, inHand, backlog, client, socket, load, subscribed>>
  BY DEF OnMessage
<1>4. alerts' \in Seq(handled) /\ Len(alerts') <= MaxAlerts /\ missed' \subseteq handled
  <2>1. CASE UNCHANGED <<alerts, missed>>
    BY <2>1 DEF TypeInv, TypeOK
  <2>2. ASSUME NEW m \in Parsed(Head(frames)), m.type = "ALERT", PushAlert(m.payload),
               missed' \subseteq missed \cup {m.payload}
        PROVE  alerts' \in Seq(handled) /\ Len(alerts') <= MaxAlerts /\ missed' \subseteq handled
    <3>1. m.payload \in AlertsIn(Head(frames))
      BY <1>2, <2>2, ParsedFrame
    <3>2. m.payload \in handled
      BY <1>1, <3>1, HandledOnWire DEF TypeInv
    <3>3. missed' \subseteq handled
      BY <2>2, <3>2 DEF TypeInv, TypeOK
    <3> QED BY <2>2, <3>2, <3>3, PushProperties DEF TypeInv, TypeOK
  <2> QED BY <2>1, <2>2 DEF OnMessage, Dispatch
<1>5. OnWire(frames') \subseteq handled
  BY <1>1, HandledOnWire DEF TypeInv
<1>6. \A i \in DOMAIN frames' : AlertsIn(frames'[i]) \subseteq handled'
  BY <1>3, <1>5 DEF OnWire
<1>7. AlertsIn(backlog') = AlertsIn(backlog)
  BY <1>3
<1> QED BY <1>1, <1>3, <1>4, <1>6, <1>7 DEF TypeInv, TypeOK

(* What the initial query finds: without parameters every row matches.     *)
LEMMA HistoryAnswer ==
    ASSUME TypeInv, NEW page \in HandleGetAlerts(NoParameters)
    PROVE  /\ page \in Seq(table)
           /\ \A i, j \in 1..Len(page) : page[i] = page[j] => i = j
<1> DEFINE f == Filters(NoParameters)
<1>1. /\ f.vessel = Absent /\ f.zone = Absent
      /\ f.from = 0 /\ f.to = 0 /\ f.limit = 0
  BY DEF Filters, NoParameters, Number
<1>2. page \in Answers(table, f)
  BY DEF HandleGetAlerts, QueryAlerts
<1> HIDE DEF f
<1>3. \A r \in table : Matches(r, f)
  BY <1>1 DEF Matches
<1>4. {r \in table : Matches(r, f)} = table
  BY <1>3
<1>5. IsFiniteSet(table) /\ f.limit \in Int
  BY <1>1 DEF TypeInv
<1>6. /\ page \in Seq({r \in table : Matches(r, f)})
      /\ \A i, j \in 1..Len(page) : page[i] = page[j] => i = j
  BY <1>2, <1>5, AnswerProperties
<1> QED BY <1>4, <1>6

LEMMA TypeAnswer ==
    ASSUME TypeInv, AnswerLoad
    PROVE  TypeInv'
<1>1. PICK s \in HandleGetAlerts(NoParameters) :
        load' = [state |-> "answered", body |-> s] /\ missed' = missed \cup (table \ ToSet(s))
  BY DEF AnswerLoad
<1>2. load'.state = "answered" /\ load'.body = s
  BY <1>1
<1>3. s \in Seq(table) /\ \A i, j \in 1..Len(s) : s[i] = s[j] => i = j
  BY HistoryAnswer
<1>4. missed' \subseteq handled /\ subscribed' \in BOOLEAN
  BY <1>1 DEF AnswerLoad, TypeInv, TypeOK
<1>5. UNCHANGED <<table, handled, inHand, backlog, client, frames, socket, alerts>>
  BY DEF AnswerLoad, broker
<1> QED BY <1>2, <1>3, <1>4, <1>5 DEF TypeInv, TypeOK

LEMMA TypeShow ==
    ASSUME TypeInv, ShowLoad
    PROVE  TypeInv'
<1>1. load'.state = "shown" /\ load'.body = << >>
  BY DEF ShowLoad
<1>2. load.body \in Seq(handled)
  BY SeqWidens DEF TypeInv, TypeOK
<1>3. alerts' \in Seq(handled) /\ Len(alerts') <= MaxAlerts
  BY <1>2, ShownProperties DEF ShowLoad, TypeInv
<1>4. load'.body \in Seq(table) /\ Len(load'.body) = 0
  BY <1>1, EmptyProperties
<1>5. UNCHANGED <<broker, socket, history>>
  BY DEF ShowLoad
<1> QED BY <1>1, <1>3, <1>4, <1>5 DEF TypeInv, TypeOK, broker, history

LEMMA TypeRest ==
    ASSUME TypeInv, Join \/ Open \/ Close \/ LoadFails \/ UNCHANGED vars
    PROVE  TypeInv'
<1>1. << >> \in Seq(table) /\ << >> \in Seq(Seq(Message)) /\ Len(<< >>) = 0 /\ DOMAIN << >> = {}
  BY EmptyProperties
<1>2. CASE Join
  BY <1>2 DEF Join, TypeInv, TypeOK, tab, history
<1>3. CASE Open
  BY <1>3 DEF Open, TypeInv, TypeOK, broker, history
<1>4. CASE Close
  BY <1>1, <1>4 DEF Close, TypeInv, TypeOK, history
<1>5. CASE LoadFails
  <2>1. load'.state = "failed" /\ load'.body = << >>
    BY <1>5 DEF LoadFails
  <2> QED BY <1>1, <1>5, <2>1 DEF LoadFails, TypeInv, TypeOK, broker, history
<1>6. CASE UNCHANGED vars
  BY <1>6 DEF vars, broker, tab, history, TypeInv, TypeOK
<1> QED BY <1>2, <1>3, <1>4, <1>5, <1>6

LEMMA TypeStep ==
    TypeInv /\ [Next]_vars => TypeInv'
<1> SUFFICES ASSUME TypeInv, [Next]_vars PROVE TypeInv'
  OBVIOUS
<1>1. ASSUME NEW r \in Row, HandleViolation(r) PROVE TypeInv'
  BY <1>1, TypeHandle
<1>2. CASE Broadcast \/ HandlePositionBatch
  BY <1>2, TypeOffer
<1>3. CASE HandOut
  BY <1>3, TypeHandOut
<1>4. CASE OnMessage
  BY <1>4, TypeOnMessage
<1>5. CASE AnswerLoad
  BY <1>5, TypeAnswer
<1>6. CASE ShowLoad
  BY <1>6, TypeShow
<1>7. CASE Join \/ Open \/ Close \/ LoadFails \/ UNCHANGED vars
  BY <1>7, TypeRest
<1> QED BY <1>1, <1>2, <1>3, <1>4, <1>5, <1>6, <1>7 DEF Next

LEMMA TypeInvAlways == Spec => []TypeInv
<1> QED BY TypeInit, TypeStep, PTL DEF Spec

(* Every value the broker and the tab hold is of its type: the list shows  *)
(* alerts that were handled, at most MaxAlerts of them (store.ts 29-32 and *)
(* 59-61), and the answer lists rows that the table has.                   *)
THEOREM TypeCorrect == Spec => []TypeOK
<1>1. TypeInv => TypeOK
  BY DEF TypeInv
<1> QED BY <1>1, TypeInvAlways, PTL

-----------------------------------------------------------------------------
(* Reading the history page by page.                                       *)

LEMMA LeastNatural ==
    ASSUME NEW S, S \subseteq Nat, S # {}
    PROVE  \E i \in S : \A j \in S : i <= j
<1> DEFINE R == {ss \in Nat \X Nat : ss[1] < ss[2]}
<1>1. IsWellFoundedOn(R, Nat)
  BY NatLessThanWellFounded DEF OpToRel
<1>2. PICK i \in S : \A j \in S : <<j, i>> \notin R
  <2> HIDE DEF R
  <2> QED BY <1>1, WFMin
<1>3. ASSUME NEW j \in S PROVE i <= j
  <2>1. <<j, i>> \notin R
    BY <1>2
  <2>2. ~ (j < i)
    BY <2>1
  <2> QED BY <2>2
<1> QED BY <1>3

LEMMA QueryType ==
    ASSUME NEW q \in Query
    PROVE  /\ Filters(q).limit \in Int
           /\ PageSize(q) = Limit(Filters(q).limit) /\ PageSize(q) \in Nat \ {0}
<1>1. q.limit \in {Absent} \cup 1..(MaxLimit + 1)
  BY DEF Query
<1>2. Filters(q).limit = Number(q.limit)
  BY DEF Filters
<1>3. Number(q.limit) \in Int
  BY <1>1, LimitAssumption DEF Number
<1> QED BY <1>2, <1>3, LimitType DEF PageSize

LEMMA RowType ==
    ASSUME NEW r \in Row
    PROVE  r.ts \in Nat \ {0} /\ r.ts # Absent /\ r.ts \in {x.ts : x \in Row}
<1>1. r.ts \in Nat \ {0}
  BY RowAssumption
<1> QED BY <1>1, RowAssumption

(* The page asked for after a full one has the rows of the query up to the *)
(* last ts.                                                                *)
LEMMA NextProperties ==
    ASSUME NEW rows \in SUBSET Row, IsFiniteSet(rows), NEW q \in Query,
           NEW page \in Pages(rows, q), Full(q, page)
    PROVE  /\ page \in Seq(Found(rows, q)) /\ Last(page) \in Found(rows, q)
           /\ NextQuery(q, page) \in Query
           /\ PageSize(NextQuery(q, page)) = PageSize(q)
           /\ \A r : r \in Found(rows, NextQuery(q, page)) <=>
                       r \in Found(rows, q) /\ r.ts <= Last(page).ts
           /\ \A r \in Found(rows, q) : r \in ToSet(page) \/ r.ts <= Last(page).ts
<1> DEFINE f == Filters(q)
           t == Last(page).ts
           n == NextQuery(q, page)
<1>1. /\ f.limit \in Int /\ PageSize(q) = Limit(f.limit) /\ PageSize(q) \in Nat \ {0}
  BY QueryType
<1>2. /\ page \in Seq(Found(rows, q))
      /\ \A r \in Found(rows, q) : \/ r \in ToSet(page)
                                  \/ \A y \in ToSet(page) : y.ts >= r.ts
  <2>1. page \in Answers(rows, f)
    BY DEF Pages
  <2> HIDE DEF f
  <2>2. /\ page \in Seq({r \in rows : Matches(r, f)})
        /\ \A r \in rows : Matches(r, f) =>
             \/ r \in ToSet(page)
             \/ Len(page) = Limit(f.limit) /\ \A y \in ToSet(page) : y.ts >= r.ts
    BY <1>1, <2>1, AnswerProperties
  <2> QED BY <2>2 DEF Found, f
<1>3. Last(page) \in Found(rows, q) /\ Last(page) \in ToSet(page)
  <2>1. Len(page) \in 1..Len(page) /\ DOMAIN page = 1..Len(page)
    BY <1>1, <1>2, LenProperties DEF Full
  <2>2. page[Len(page)] \in Found(rows, q)
    BY <1>2, <2>1, ElementOfSeq
  <2> QED BY <2>1, <2>2, ToSetElements DEF Last
<1>4. t \in Nat \ {0} /\ t # Absent /\ t \in {x.ts : x \in Row}
  BY <1>3, RowType DEF Found
<1>5. /\ n \in Query /\ n.vessel = q.vessel /\ n.zone = q.zone /\ n.from = q.from
      /\ n.limit = q.limit /\ n.to = t
  BY <1>4 DEF NextQuery, Query
<1>6. PageSize(n) = PageSize(q)
  BY <1>5 DEF PageSize
<1>7. ASSUME NEW r \in Row
      PROVE  Matches(r, Filters(n)) <=> Matches(r, f) /\ r.ts <= t
  <2> DEFINE g == Filters(n)
  <2>1. g.vessel = f.vessel /\ g.zone = f.zone /\ g.from = f.from /\ g.to = t
    BY <1>4, <1>5 DEF Filters, Number
  <2>2. f.to > 0 => t <= f.to
    BY <1>3 DEF Found, Matches
  <2>3. f.to \in Int /\ t \in Int /\ r.ts \in Int /\ t > 0
    <3>1. q.to = Absent \/ q.to \in Int
      BY RowType DEF Query
    <3> QED BY <1>4, <3>1, RowType DEF Filters, Number
  <2> HIDE DEF f, g, t
  <2>4. (f.to > 0 => r.ts <= f.to) /\ r.ts <= t <=> r.ts <= t
    BY <2>2, <2>3
  <2>5. (g.to > 0 => r.ts <= g.to) <=> r.ts <= t
    BY <2>1, <2>3
  <2>6. Matches(r, g) <=> Matches(r, f) /\ r.ts <= t
    BY <2>1, <2>4, <2>5, Zenon DEF Matches
  <2> QED BY <2>6 DEF g
<1>8. \A r : r \in Found(rows, n) <=> r \in Found(rows, q) /\ r.ts <= t
  BY <1>7 DEF Found
<1>9. ASSUME NEW r \in Found(rows, q) PROVE r \in ToSet(page) \/ r.ts <= t
  <2>1. r.ts \in Int /\ t \in Int
    BY <1>4, RowType DEF Found
  <2>2. r \in ToSet(page) \/ t >= r.ts
    BY <1>2, <1>3
  <2> QED BY <2>1, <2>2
<1> QED BY <1>2, <1>3, <1>5, <1>6, <1>8, <1>9

(* Two pages in a row leave no gap, and the second goes back in time.      *)
LEMMA PagesMeet ==
    ASSUME NEW rows \in SUBSET Row, IsFiniteSet(rows), NEW q \in Query,
           NEW page \in Pages(rows, q), Full(q, page),
           NEW next \in Pages(rows, NextQuery(q, page))
    PROVE  NoGap(rows, q, page, next) /\ GoesBack(rows, q, page, next)
<1> DEFINE n == NextQuery(q, page)
           t == Last(page).ts
<1>1. /\ Last(page) \in Found(rows, q)
      /\ n \in Query /\ PageSize(n) = PageSize(q)
      /\ \A r : r \in Found(rows, n) <=> r \in Found(rows, q) /\ r.ts <= t
      /\ \A r \in Found(rows, q) : r \in ToSet(page) \/ r.ts <= t
  BY NextProperties
<1> HIDE DEF n
<1>2. /\ Filters(n).limit \in Int /\ PageSize(n) = Limit(Filters(n).limit)
      /\ PageSize(q) \in Nat \ {0}
  BY <1>1, QueryType
<1>3. /\ next \in Seq(Found(rows, n)) /\ NewestFirst(next)
      /\ \A i, j \in 1..Len(next) : next[i] = next[j] => i = j
      /\ \A r \in Found(rows, n) :
           \/ r \in ToSet(next)
           \/ Full(q, next) /\ \A y \in ToSet(next) : y.ts >= r.ts
  <2>1. next \in Answers(rows, Filters(n))
    BY DEF Pages, n
  <2>2. /\ next \in Seq({r \in rows : Matches(r, Filters(n))}) /\ NewestFirst(next)
        /\ \A i, j \in 1..Len(next) : next[i] = next[j] => i = j
        /\ \A r \in rows : Matches(r, Filters(n)) =>
             \/ r \in ToSet(next)
             \/ Len(next) = Limit(Filters(n).limit) /\ \A y \in ToSet(next) : y.ts >= r.ts
    BY <1>2, <2>1, AnswerProperties
  <2> QED BY <1>1, <1>2, <2>2 DEF Found, Full
<1>4. DOMAIN next = 1..Len(next) /\ Len(next) \in Nat
      /\ \A i \in 1..Len(next) : next[i] \in Found(rows, n)
  BY <1>3, LenProperties, ElementOfSeq
<1>5. Full(q, next) => Len(next) \in 1..Len(next) /\ Last(next) \in ToSet(next)
  BY <1>2, <1>4, ToSetElements DEF Full, Last
<1>6. \A r \in Found(rows, q) : r.ts \in Int
  BY RowType DEF Found
<1>7. NoGap(rows, q, page, next)
  <2>1. SUFFICES ASSUME NEW r \in Found(rows, q), r \notin ToSet(page), r \notin ToSet(next)
                 PROVE  Full(q, next) /\ r.ts <= Last(next).ts
    BY DEF NoGap
  <2>2. r \in Found(rows, n)
    BY <1>1, <2>1
  <2>3. Full(q, next) /\ Last(next).ts >= r.ts
    BY <1>3, <1>5, <2>1, <2>2
  <2>4. Last(next) \in Found(rows, q)
    BY <1>1, <1>4, <1>5, <2>3 DEF Last
  <2> QED BY <1>6, <2>3, <2>4
<1>8. GoesBack(rows, q, page, next)
  <2> DEFINE same == {r \in Found(rows, q) : r.ts = t}
  <2>1. SUFFICES ASSUME Full(q, next), Cardinality(same) < PageSize(q), ~ (Last(next).ts < t)
                 PROVE  FALSE
    BY DEF GoesBack
  <2>2. ASSUME NEW i \in 1..Len(next) PROVE next[i] \in same
    <3>1. next[i] \in Found(rows, q) /\ next[i].ts <= t
      BY <1>1, <1>4
    <3>2. next[i].ts >= Last(next).ts
      <4>1. Len(next) \in 1..Len(next) /\ next[i].ts \in Int /\ i \in Int
        BY <1>5, <1>6, <2>1, <3>1
      <4>2. CASE i = Len(next)
        BY <4>1, <4>2 DEF Last
      <4>3. CASE i # Len(next)
        <5> DEFINE m == Len(next)
        <5>1. m \in Nat /\ i \in 1..m /\ i # m
          BY <1>4, <4>3
        <5> HIDE DEF m
        <5>2. i < m
          BY <5>1
        <5>3. i < Len(next)
          BY <5>2 DEF m
        <5> QED BY <1>3, <1>4, <4>1, <5>3 DEF NewestFirst, Last
      <4> QED BY <4>2, <4>3
    <3>3. Last(next) \in Found(rows, q)
      BY <1>1, <1>4, <1>5, <2>1 DEF Last
    <3>4. t \in Int /\ Last(next).ts \in Int /\ next[i].ts \in Int
      BY <1>1, <1>6, <3>1, <3>3
    <3> HIDE DEF t
    <3>5. next[i].ts = t
      BY <2>1, <3>1, <3>2, <3>4
    <3> QED BY <3>1, <3>5
  <2> DEFINE D == 1..Len(next)
  <2>3. IsFiniteSet(same)
    <3>1. same \subseteq rows
      BY DEF Found
    <3> HIDE DEF same
    <3> QED BY <3>1, FS_Subset
  <2>4. IsFiniteSet(D) /\ Cardinality(D) = Len(next)
    BY <1>4, FS_Interval
  <2>5. next \in [D -> same]
    <3>1. next = [i \in D |-> next[i]]
      BY <1>3, LenProperties, SeqDef
    <3> HIDE DEF same
    <3> QED BY <2>2, <3>1
  <2>6. next \in Injection(D, same)
    BY <1>3, <2>5 DEF Injection, IsInjective
  <2> HIDE DEF D, same
  <2>7. Cardinality(D) <= Cardinality(same)
    BY <2>3, <2>6, FS_Injection
  <2>8. Cardinality(same) \in Nat
    BY <2>3, FS_CardinalityType
  <2> QED BY <1>2, <2>1, <2>4, <2>7, <2>8 DEF Full
<1> QED BY <1>7, <1>8

(* A page that is not full has every row.                                  *)
LEMMA LastPage ==
    ASSUME NEW rows \in SUBSET Row, IsFiniteSet(rows), NEW q \in Query,
           NEW page \in Pages(rows, q), ~Full(q, page)
    PROVE  ToSet(page) = Found(rows, q)
<1> DEFINE f == Filters(q)
<1>1. f.limit \in Int /\ PageSize(q) = Limit(f.limit)
  BY QueryType
<1>2. page \in Answers(rows, f)
  BY DEF Pages
<1> HIDE DEF f
<1>3. /\ page \in Seq({r \in rows : Matches(r, f)})
      /\ \A r \in rows : Matches(r, f) =>
           r \in ToSet(page) \/ Len(page) = Limit(f.limit)
  BY <1>1, <1>2, AnswerProperties
<1>4. page \in Seq(Found(rows, q)) /\ Found(rows, q) \subseteq ToSet(page)
  BY <1>1, <1>3 DEF Found, Full, f
<1>5. ToSet(page) \subseteq Found(rows, q)
  <2>1. \A i \in DOMAIN page : page[i] \in Found(rows, q)
    BY <1>4, LenProperties, ElementOfSeq
  <2> QED BY <2>1, ToSetElements
<1> QED BY <1>4, <1>5

LEMMA EveryTableIsRead == EveryTableReads
<1> SUFFICES ASSUME NEW rows \in SUBSET Row, IsFiniteSet(rows),
                    NEW q \in Query, NEW page \in Pages(rows, q)
             PROVE  /\ Full(q, page) => \A next \in Pages(rows, NextQuery(q, page)) :
                         NoGap(rows, q, page, next) /\ GoesBack(rows, q, page, next)
                    /\ ~Full(q, page) => ToSet(page) = Found(rows, q)
  BY DEF EveryTableReads, Readable
<1> QED BY PagesMeet, LastPage

(* Whatever is stored, a page of the history that is not full has every    *)
(* row that matches; a full one is followed by one that leaves no gap, and *)
(* that goes back in time as long as fewer rows than fill a page have one  *)
(* ts (store.go 114-129).                                                  *)
THEOREM PagesCoverHistoryHolds == Spec => []PagesCoverHistory
<1>1. TypeInv => PagesCoverHistory
  BY EveryTableIsRead DEF TypeInv, TypeOK, PagesCoverHistory
<1> QED BY <1>1, TypeInvAlways, PTL

(* A reading of a table: queries and their answers, each query but the     *)
(* first the one that follows a full page, the last page not full.         *)
IsReading(rows, queries, pages) ==
    /\ queries \in Seq(Query) /\ Len(queries) > 0 /\ DOMAIN pages = DOMAIN queries
    /\ \A i \in DOMAIN queries : pages[i] \in Pages(rows, queries[i])
    /\ \A i \in DOMAIN queries : i < Len(queries) =>
         Full(queries[i], pages[i]) /\ queries[i + 1] = NextQuery(queries[i], pages[i])
    /\ ~Full(queries[Len(queries)], pages[Len(queries)])

(* Whoever asks for pages of a table that stays as it is, until one is not *)
(* full, has got every row that matches the first query (store.go 114-129).*)
THEOREM ReadingsAreComplete ==
    ASSUME NEW rows \in SUBSET Row, IsFiniteSet(rows), NEW queries, NEW pages,
           IsReading(rows, queries, pages), NEW r \in Found(rows, queries[1])
    PROVE  \E i \in DOMAIN queries : r \in ToSet(pages[i])
<1> SUFFICES ASSUME \A i \in DOMAIN queries : r \notin ToSet(pages[i])
             PROVE  FALSE
  OBVIOUS
<1> DEFINE n == Len(queries)
           Lost == {i \in 1..n : r \notin Found(rows, queries[i])}
<1>1. /\ n \in Nat \ {0} /\ DOMAIN queries = 1..n
      /\ \A i \in 1..n : queries[i] \in Query
  BY LenProperties, ElementOfSeq DEF IsReading
<1>2. n \in Lost
  <2>1. n \in DOMAIN queries /\ ~Full(queries[n], pages[n])
    BY <1>1 DEF IsReading
  <2>2. pages[n] \in Pages(rows, queries[n])
    BY <2>1 DEF IsReading
  <2> HIDE DEF n
  <2>3. ToSet(pages[n]) = Found(rows, queries[n])
    BY <1>1, <2>1, <2>2, LastPage
  <2> QED BY <1>1, <2>1, <2>3
<1>3. PICK k \in Lost : \A j \in Lost : k <= j
  <2>1. Lost \subseteq Nat /\ Lost # {}
    BY <1>1, <1>2
  <2> HIDE DEF Lost
  <2> QED BY <2>1, LeastNatural
<1> HIDE DEF n
<1>4. k \in 1..n /\ k # 1 /\ r \notin Found(rows, queries[k])
  BY <1>3
<1> DEFINE j == k - 1
<1>5. j \in 1..n /\ j < n /\ j + 1 = k /\ j < k
  BY <1>1, <1>4
<1> HIDE DEF j
<1>6. r \in Found(rows, queries[j])
  <2>1. j \in Int /\ k \in Int
    BY <1>4, <1>5
  <2> QED BY <1>3, <1>5, <2>1
<1>7. /\ pages[j] \in Pages(rows, queries[j]) /\ Full(queries[j], pages[j])
      /\ queries[j + 1] = NextQuery(queries[j], pages[j]) /\ r \notin ToSet(pages[j])
  BY <1>1, <1>5 DEF IsReading, n
<1>8. queries[j] \in Query
  BY <1>1, <1>5
<1>9. r \in Found(rows, NextQuery(queries[j], pages[j]))
  BY <1>6, <1>7, <1>8, NextProperties
<1> QED BY <1>4, <1>5, <1>7, <1>9

-----------------------------------------------------------------------------
(* History and stream meet: while the hub has the tab, a stored alert that *)
(* the answer does not list, and the list does not show, is in the         *)
(* pipeline's hand, in the hub's channel or on the wire, or may be missed. *)
Reaches == missed \cup OnWire(frames) \cup AlertsIn(backlog) \cup {inHand}

Connected == subscribed /\ client = "in"

AnswerLists == load.state = "answered" => table \subseteq ToSet(load.body) \cup Reaches

ListShows == load.state = "shown" /\ Len(alerts) < MaxAlerts
               => table \subseteq ToSet(alerts) \cup Reaches

JoinedFramesMissed == \A i \in DOMAIN frames :
                        Len(frames[i]) # 1 => AlertsIn(frames[i]) \subseteq missed

MeetInv == /\ Connected => AnswerLists /\ ListShows
           /\ load.state = "asked" => ~subscribed
           /\ subscribed => client # "none"
           /\ JoinedFramesMissed

(* Whatever reached the tab's side before a step still does after it,      *)
(* unless the tab took it off the wire.                                    *)
LEMMA MeetStays ==
    ASSUME MeetInv, Reaches \ {None} \subseteq Reaches', None \notin table,
           table' = table, client' = client, UNCHANGED <<alerts, load, subscribed>>,
           JoinedFramesMissed'
    PROVE  MeetInv'
  BY DEF MeetInv, Connected, AnswerLists, ListShows

LEMMA MeetInit == Init => MeetInv
<1> SUFFICES ASSUME Init PROVE MeetInv
  OBVIOUS
<1>1. DOMAIN frames = {}
  BY EmptyProperties DEF Init
<1> QED BY <1>1 DEF Init, MeetInv, Connected, JoinedFramesMissed

LEMMA MeetHandle ==
    ASSUME TypeInv, MeetInv, NEW r \in Row, HandleViolation(r)
    PROVE  MeetInv'
<1>1. table' \subseteq table \cup {r} /\ inHand' = r /\ inHand = None
  BY DEF HandleViolation, SaveAlert
<1>2. /\ UNCHANGED <<backlog, client, frames, alerts, load, missed, subscribed>>
  BY DEF HandleViolation, tab, history
<1>3. None \notin table
  BY RowsAndMessages DEF TypeInv, TypeOK
<1>4. OnWire(frames') = OnWire(frames) /\ AlertsIn(backlog') = AlertsIn(backlog)
  BY <1>2
<1>5. Reaches \ {None} \subseteq Reaches' /\ r \in Reaches'
  BY <1>1, <1>2, <1>4 DEF Reaches
<1>6. ToSet(load.body)' = ToSet(load.body) /\ ToSet(alerts)' = ToSet(alerts)
  BY <1>2
<1> QED BY <1>1, <1>2, <1>3, <1>5, <1>6
         DEF MeetInv, Connected, AnswerLists, ListShows, JoinedFramesMissed

LEMMA MeetOffer ==
    ASSUME TypeInv, MeetInv, Broadcast \/ HandlePositionBatch
    PROVE  MeetInv'
<1>1. PICK m \in Message : /\ Offer(m) /\ inHand' = None
                           /\ AlertsIn(<< m >>) = {inHand} \ {None}
  BY Offered
<1>2. UNCHANGED <<table, client, frames, alerts, load, subscribed>>
  BY DEF Broadcast, HandlePositionBatch, tab
<1>3. backlog \in Seq(Message) /\ Len(backlog) <= BroadcastCap /\ None \notin table
  BY RowsAndMessages DEF TypeInv, TypeOK
<1>4. /\ missed \subseteq missed' /\ AlertsIn(backlog) \subseteq AlertsIn(backlog')
      /\ AlertsIn(<< m >>) \subseteq AlertsIn(backlog') \cup missed'
  BY <1>1, <1>3, OfferEffect
<1>5. OnWire(frames') = OnWire(frames)
  BY <1>2
<1>6. Reaches \ {None} \subseteq Reaches'
  BY <1>1, <1>4, <1>5 DEF Reaches
<1>7. JoinedFramesMissed'
  BY <1>2, <1>4 DEF MeetInv, JoinedFramesMissed
<1> QED BY <1>2, <1>3, <1>6, <1>7, MeetStays

LEMMA MeetHandOut ==
    ASSUME TypeInv, MeetInv, HandOut
    PROVE  MeetInv'
<1> DEFINE m == Head(backlog)
<1>1. /\ Stream(m) /\ backlog' = Tail(backlog) /\ backlog # << >>
      /\ UNCHANGED <<table, inHand, alerts, load, subscribed>>
  BY DEF HandOut, tab
<1>2. /\ m \in Message
      /\ \A r : r \in AlertsIn(backlog) <=>
           (m.type = "ALERT" /\ m.payload = r) \/ r \in AlertsIn(backlog')
  BY <1>1, BacklogTail DEF TypeInv
<1> HIDE DEF m
<1>3. frames \in Seq(Seq(Message)) /\ None \notin table
  BY RowsAndMessages DEF TypeInv, TypeOK
<1>4. /\ missed \subseteq missed' /\ OnWire(frames) \subseteq OnWire(frames')
      /\ client = "in" /\ client' = "in" /\ m.type = "ALERT" => m.payload \in OnWire(frames')
  BY <1>1, <1>2, <1>3, OnWireStream
<1>5. JoinedFramesMissed'
  <2>1. CASE UNCHANGED <<frames, missed>>
    BY <2>1 DEF MeetInv, JoinedFramesMissed
  <2>2. CASE client = "in" /\ client' = "in"
    <3>1. \A i \in DOMAIN frames' :
             \/ Len(frames'[i]) = 1
             \/ i \in DOMAIN frames /\ frames'[i] = frames[i]
             \/ AlertsIn(frames'[i]) \subseteq missed'
      BY <1>1, <1>2, <1>3, <2>2, StreamEffect
    <3> QED BY <1>4, <3>1 DEF MeetInv, JoinedFramesMissed
  <2>3. UNCHANGED <<frames, missed>> \/ (client = "in" /\ client' = "in")
    BY <1>1 DEF Stream
  <2> QED BY <2>1, <2>2, <2>3
<1>6. CASE client = "in" /\ client' = "in"
  <2>1. Reaches \ {None} \subseteq Reaches'
    BY <1>1, <1>2, <1>4, <1>6 DEF Reaches
  <2> QED BY <1>1, <1>3, <1>5, <1>6, <2>1, MeetStays
<1>7. CASE client' # "in"
  <2>1. client # "none" => client' # "none"
    BY <1>1 DEF Stream
  <2> QED BY <1>1, <1>5, <1>7, <2>1 DEF MeetInv, Connected
<1>8. client' = "in" => client = "in"
  BY <1>1 DEF Stream
<1> QED BY <1>6, <1>7, <1>8

LEMMA MeetOnMessage ==
    ASSUME TypeInv, MeetInv, OnMessage
    PROVE  MeetInv'
<1>1. /\ frames' \in Seq(Seq(Message)) /\ Head(frames) = frames[1] /\ 1 \in DOMAIN frames
      /\ \A i \in DOMAIN frames' : i + 1 \in DOMAIN frames /\ frames'[i] = frames[i + 1]
      /\ \A r : r \in OnWire(frames) <=> r \in AlertsIn(Head(frames)) \/ r \in OnWire(frames')
  BY OnWireTail DEF TypeInv, OnMessage
<1>2. Head(frames) \in Seq(Message)
  BY HeadTailProperties DEF TypeInv, OnMessage
<1>3. UNCHANGED <<table, handled, inHand, backlog, client, load, subscribed>>
  BY DEF OnMessage
<1>4. AlertsIn(backlog') = AlertsIn(backlog)
  BY <1>3
<1>5. missed \subseteq missed'
  BY DEF OnMessage, Dispatch
<1>6. JoinedFramesMissed'
  BY <1>1, <1>5 DEF MeetInv, JoinedFramesMissed
<1>7. CASE Parsed(Head(frames)) = {} /\ UNCHANGED <<alerts, missed>>
  <2>1. AlertsIn(Head(frames)) \subseteq missed
    BY <1>1, <1>2, <1>7, ParsedFrame DEF MeetInv, JoinedFramesMissed
  <2>2. Reaches \subseteq Reaches'
    BY <1>1, <1>3, <1>4, <1>7, <2>1 DEF Reaches
  <2> QED BY <1>3, <1>6, <1>7, <2>2 DEF MeetInv, Connected, AnswerLists, ListShows
<1>8. ASSUME NEW m \in Parsed(Head(frames)), Dispatch(m)
      PROVE  MeetInv'
  <2>1. /\ m.type = "ALERT" => AlertsIn(Head(frames)) = {m.payload}
        /\ m.type # "ALERT" => AlertsIn(Head(frames)) = {}
    BY <1>2, ParsedFrame
  <2>2. CASE m.type # "ALERT"
    <3>1. UNCHANGED <<alerts, missed>>
      BY <1>8, <2>2 DEF Dispatch
    <3>2. Reaches \subseteq Reaches'
      BY <1>1, <1>3, <1>4, <2>1, <2>2, <3>1 DEF Reaches
    <3> QED BY <1>3, <1>6, <3>1, <3>2 DEF MeetInv, Connected, AnswerLists, ListShows
  <2>3. CASE m.type = "ALERT"
    <3> DEFINE r == m.payload
    <3>1. /\ PushAlert(r)
          /\ load.state \in {"asked", "answered"} => r \in missed'
      BY <1>8, <2>3 DEF Dispatch
    <3>2. Reaches \subseteq Reaches' \cup {r}
      BY <1>1, <1>3, <1>4, <1>5, <2>1, <2>3 DEF Reaches
    <3>3. load.state = "answered" => Reaches \subseteq Reaches'
      BY <3>1, <3>2 DEF Reaches
    <3>4. r \in handled
      BY <1>1, <2>1, <2>3, HandledOnWire DEF TypeInv
    <3>5. /\ Len(alerts) \in Nat /\ Len(alerts') \in Nat /\ Len(alerts) <= Len(alerts')
          /\ Len(alerts') < MaxAlerts => ToSet(alerts) \cup {r} \subseteq ToSet(alerts')
      <4>1. /\ alerts' \in Seq(handled) /\ Len(alerts) <= Len(alerts')
            /\ Len(alerts') < MaxAlerts => ToSet(alerts) \cup {r} \subseteq ToSet(alerts')
        BY <3>1, <3>4, PushProperties DEF TypeInv, TypeOK
      <4> QED BY <4>1, LenProperties DEF TypeInv, TypeOK
    <3> HIDE DEF r
    <3>6. AnswerLists => AnswerLists'
      BY <1>3, <3>3 DEF AnswerLists
    <3>7. ListShows => ListShows'
      <4>1. Len(alerts') < MaxAlerts => Len(alerts) < MaxAlerts
        BY <3>5, BoundAssumption
      <4> QED BY <1>3, <3>2, <3>5, <4>1 DEF ListShows
    <3> QED BY <1>3, <1>6, <3>6, <3>7 DEF MeetInv, Connected
  <2> QED BY <2>2, <2>3
<1> QED BY <1>7, <1>8 DEF OnMessage

LEMMA MeetAnswer ==
    ASSUME TypeInv, MeetInv, AnswerLoad
    PROVE  MeetInv'
<1>1. PICK s \in HandleGetAlerts(NoParameters) :
        load' = [state |-> "answered", body |-> s] /\ missed' = missed \cup (table \ ToSet(s))
  BY DEF AnswerLoad
<1>2. load'.state = "answered" /\ load'.body = s
  BY <1>1
<1>3. UNCHANGED <<table, client, frames, alerts>> /\ subscribed' = (client = "in")
  BY DEF AnswerLoad, broker
<1>4. AnswerLists'
  BY <1>1, <1>2, <1>3 DEF AnswerLists, Reaches
<1>5. JoinedFramesMissed'
  BY <1>1, <1>3 DEF MeetInv, JoinedFramesMissed
<1> QED BY <1>2, <1>3, <1>4, <1>5 DEF MeetInv, Connected, ListShows

LEMMA MeetShow ==
    ASSUME TypeInv, MeetInv, ShowLoad
    PROVE  MeetInv'
<1>1. load'.state = "shown" /\ load'.body = << >>
  BY DEF ShowLoad
<1>2. /\ UNCHANGED <<table, inHand, backlog, client, frames, missed, subscribed>>
      /\ load.state = "answered" /\ SetInitialAlerts(load.body)
  BY DEF ShowLoad, broker, history
<1>3. Reaches' = Reaches
  BY <1>2 DEF Reaches
<1>4. Len(alerts') < MaxAlerts => ToSet(load.body) \subseteq ToSet(alerts')
  BY <1>2, ShownProperties DEF TypeInv, TypeOK
<1>5. Connected => ListShows'
  BY <1>2, <1>3, <1>4 DEF MeetInv, AnswerLists, ListShows
<1> QED BY <1>1, <1>2, <1>5 DEF MeetInv, Connected, AnswerLists, JoinedFramesMissed

LEMMA MeetRest ==
    ASSUME TypeInv, MeetInv, Join \/ Open \/ Close \/ LoadFails \/ UNCHANGED vars
    PROVE  MeetInv'
<1> USE DEF MeetInv, Connected, AnswerLists, ListShows, JoinedFramesMissed, Reaches
<1>1. CASE Join
  BY <1>1 DEF Join, tab, history
<1>2. CASE Open
  BY <1>2 DEF Open, broker, history
<1>3. CASE Close
  <2>1. DOMAIN frames' = {} /\ client' = "out" /\ load' = load /\ subscribed' = subscribed
    BY <1>3, EmptyProperties DEF Close, history
  <2> QED BY <2>1
<1>4. CASE LoadFails
  <2>1. load'.state = "failed"
    BY <1>4 DEF LoadFails
  <2> QED BY <1>4, <2>1 DEF LoadFails, broker, history
<1>5. CASE UNCHANGED vars
  BY <1>5 DEF vars, broker, tab, history
<1> QED BY <1>1, <1>2, <1>3, <1>4, <1>5

LEMMA MeetStep ==
    TypeInv /\ MeetInv /\ [Next]_vars => MeetInv'
<1> SUFFICES ASSUME TypeInv, MeetInv, [Next]_vars PROVE MeetInv'
  OBVIOUS
<1>1. ASSUME NEW r \in Row, HandleViolation(r) PROVE MeetInv'
  BY <1>1, MeetHandle
<1>2. CASE Broadcast \/ HandlePositionBatch
  BY <1>2, MeetOffer
<1>3. CASE HandOut
  BY <1>3, MeetHandOut
<1>4. CASE OnMessage
  BY <1>4, MeetOnMessage
<1>5. CASE AnswerLoad
  BY <1>5, MeetAnswer
<1>6. CASE ShowLoad
  BY <1>6, MeetShow
<1>7. CASE Join \/ Open \/ Close \/ LoadFails \/ UNCHANGED vars
  BY <1>7, MeetRest
<1> QED BY <1>1, <1>2, <1>3, <1>4, <1>5, <1>6, <1>7 DEF Next

LEMMA MeetImplies == TypeInv /\ MeetInv => HistoryAndStreamMeet
<1> SUFFICES ASSUME TypeInv, MeetInv, Settled, subscribed, Len(alerts) < MaxAlerts
             PROVE  table \subseteq ToSet(alerts) \cup missed
  BY DEF HistoryAndStreamMeet
<1>1. table \subseteq ToSet(alerts) \cup Reaches
  BY DEF Settled, MeetInv, Connected, ListShows
<1>2. OnWire(frames) = {} /\ inHand = None /\ None \notin table
  BY NothingOnWire, RowsAndMessages DEF Settled, TypeInv, TypeOK
<1>3. AlertsIn(backlog) = {}
  BY EmptyProperties, AlertsInElements DEF Settled
<1> QED BY <1>1, <1>2, <1>3 DEF Reaches

(* When the hub had the tab before the query ran and has it still, a       *)
(* stored alert is on a list below its maximum once nothing is on its way, *)
(* unless the hub's full channel dropped it (hub.go 93-97), its frame was  *)
(* joined with others (hub.go 145-149), it came before the answer was      *)
(* shown (store.ts 29-32) or the answer's limit left it out: no alert      *)
(* falls between the save and the broadcast (pipeline.go 73-82).           *)
THEOREM HistoryAndStreamMeetHolds == Spec => []HistoryAndStreamMeet
<1>1. Spec => []MeetInv
  BY MeetInit, MeetStep, TypeInvAlways, PTL DEF Spec
<1> QED BY <1>1, TypeInvAlways, MeetImplies, PTL
-----------------------------------------------------------------------------
(* The list shows an alert once or twice.  An alert is taken once, so of   *)
(* the pipeline's hand, the hub's channel and the wire it is at one place  *)
(* at most; what is yet to come is not on the list, but for what the       *)
(* answer brought.                                                         *)
Count(s, r) == Cardinality({i \in DOMAIN s : s[i] = r})

SoFar == IF load.state = "shown" THEN 1 ELSE 0

OnceOnWire == \A i, j \in DOMAIN frames : \A k \in DOMAIN frames[i], l \in DOMAIN frames[j] :
                /\ frames[i][k].type = "ALERT" /\ frames[j][l].type = "ALERT"
                /\ frames[i][k].payload = frames[j][l].payload
                => i = j /\ k = l

OnceInBacklog == \A i, j \in DOMAIN backlog :
                   /\ backlog[i].type = "ALERT" /\ backlog[j].type = "ALERT"
                   /\ backlog[i].payload = backlog[j].payload
                   => i = j

ToCome == AlertsIn(backlog) \cup OnWire(frames)

OnceInv == /\ OnceOnWire /\ OnceInBacklog
           /\ AlertsIn(backlog) \cap OnWire(frames) = {}
           /\ inHand \notin ToCome
           /\ \A r \in handled : r = inHand \/ r \in ToCome => Count(alerts, r) <= SoFar
           /\ \A r \in handled : Count(alerts, r) <= SoFar + 1

LEMMA CountType ==
    ASSUME NEW S, NEW s \in Seq(S), NEW r
    PROVE  /\ Count(s, r) \in Nat
           /\ r \notin S => Count(s, r) = 0
<1> DEFINE D == {i \in DOMAIN s : s[i] = r}
<1>1. DOMAIN s = 1..Len(s) /\ Len(s) \in Nat /\ \A i \in 1..Len(s) : s[i] \in S
  BY LenProperties, ElementOfSeq
<1>2. IsFiniteSet(1..Len(s))
  BY <1>1, FS_Interval
<1>3. IsFiniteSet(D)
  BY <1>1, <1>2, FS_Subset
<1>4. r \notin S => D = {}
  BY <1>1
<1> HIDE DEF D
<1>5. Cardinality(D) \in Nat /\ (D = {} => Cardinality(D) = 0)
  BY <1>3, FS_CardinalityType, FS_EmptySet
<1> QED BY <1>4, <1>5 DEF Count, D

LEMMA CountDistinct ==
    ASSUME NEW S, NEW s \in Seq(S), \A i, j \in 1..Len(s) : s[i] = s[j] => i = j, NEW r
    PROVE  Count(s, r) <= 1
<1> DEFINE D == {i \in DOMAIN s : s[i] = r}
<1>1. DOMAIN s = 1..Len(s)
  BY LenProperties
<1>2. D = {} \/ \E i : D = {i}
  BY <1>1, SMTT(30)
<1> HIDE DEF D
<1>3. Cardinality(D) <= 1
  <2>1. CASE D = {}
    BY <2>1, FS_EmptySet
  <2>2. ASSUME NEW i, D = {i} PROVE Cardinality(D) <= 1
    <3>1. Cardinality({i}) = 1
      BY FS_Singleton, Zenon
    <3> QED BY <2>2, <3>1
  <2> QED BY <1>2, <2>1, <2>2
<1> QED BY <1>3 DEF Count, D

(* A push adds at most one to the count of what it pushes and nothing to   *)
(* the others: a place of the new list other than the first was the one    *)
(* before it on the old list.                                              *)
LEMMA CountPush ==
    ASSUME NEW S, alerts \in Seq(S), Len(alerts) <= MaxAlerts, NEW r \in S, PushAlert(r), NEW q
    PROVE  /\ Count(alerts', q) <= Count(alerts, q) + 1
           /\ q # r => Count(alerts', q) <= Count(alerts, q)
<1> DEFINE A == {i \in DOMAIN alerts : alerts[i] = q}
           B == {i \in DOMAIN alerts' : alerts'[i] = q}
           C == B \ {1}
           f == [i \in C |-> i - 1]
<1>1. /\ alerts' \in Seq(S) /\ alerts'[1] = r
      /\ \A i \in DOMAIN alerts' : i \in Nat \ {0}
      /\ \A i \in DOMAIN alerts' : i # 1 => i - 1 \in DOMAIN alerts /\ alerts'[i] = alerts[i - 1]
  BY PushProperties
<1>2. IsFiniteSet(A) /\ IsFiniteSet(B)
  <2>1. /\ DOMAIN alerts = 1..Len(alerts) /\ Len(alerts) \in Nat
        /\ DOMAIN alerts' = 1..Len(alerts') /\ Len(alerts') \in Nat
    BY <1>1, LenProperties
  <2>2. IsFiniteSet(DOMAIN alerts) /\ IsFiniteSet(DOMAIN alerts')
    BY <2>1, FS_Interval
  <2> QED BY <2>2, FS_Subset
<1>3. \A i \in C : i \in Nat /\ i - 1 \in A
  BY <1>1
<1>4. f \in [C -> A] /\ \A i, j \in C : f[i] = f[j] => i = j
  <2>1. \A i \in C : f[i] = i - 1 /\ i \in Nat
    BY <1>3
  <2>2. f \in [C -> A]
    BY <1>3
  <2> HIDE DEF f
  <2> QED BY <2>1, <2>2
<1> HIDE DEF f, C
<1>5. Cardinality(C) <= Cardinality(A)
  <2>1. f \in Injection(C, A)
    BY <1>4 DEF Injection, IsInjective
  <2> HIDE DEF A
  <2> QED BY <1>2, <2>1, FS_Injection
<1>6. q # r => C = B
  BY <1>1 DEF C
<1> HIDE DEF A, B
<1>7. /\ Cardinality(A) \in Nat /\ Cardinality(B) \in Nat
      /\ Cardinality(C) = IF 1 \in B THEN Cardinality(B) - 1 ELSE Cardinality(B)
  BY <1>2, FS_CardinalityType, FS_RemoveElement DEF C
<1>8. Cardinality(B) <= Cardinality(A) + 1 /\ (q # r => Cardinality(B) <= Cardinality(A))
  BY <1>5, <1>6, <1>7
<1> QED BY <1>8 DEF Count, A, B

LEMMA OnceImplies == OnceInv => StreamShowsOnce
<1>1. SoFar + 1 = IF load.state = "shown" THEN 2 ELSE 1
  BY DEF SoFar
<1> QED BY <1>1 DEF OnceInv, StreamShowsOnce, Times, Count
LEMMA OnceInit == Init => OnceInv
<1> SUFFICES ASSUME Init PROVE OnceInv
  OBVIOUS
<1>1. /\ OnWire(frames) = {} /\ DOMAIN frames = {} /\ DOMAIN backlog = {}
  BY NothingOnWire, EmptyProperties DEF Init
<1>2. AlertsIn(backlog) = {}
  BY <1>1, AlertsInElements
<1> QED BY <1>1, <1>2 DEF Init, OnceInv, OnceOnWire, OnceInBacklog, ToCome

LEMMA OnceHandle ==
    ASSUME TypeInv, OnceInv, NEW r \in Row, HandleViolation(r)
    PROVE  OnceInv'
<1>1. /\ r \notin handled /\ handled' = handled \cup {r} /\ inHand' = r
      /\ UNCHANGED <<backlog, frames, alerts, load>>
  BY DEF HandleViolation, tab
<1>2. /\ OnWire(frames') = OnWire(frames) /\ AlertsIn(backlog') = AlertsIn(backlog)
      /\ ToCome' = ToCome /\ ToCome \subseteq handled /\ SoFar' = SoFar
  BY <1>1, HandledOnWire DEF TypeInv, SoFar, ToCome
<1>3. Count(alerts, r) = 0 /\ SoFar \in {0, 1}
  BY <1>1, CountType DEF TypeInv, TypeOK, SoFar
<1>4. \A q : Count(alerts', q) = Count(alerts, q)
  BY <1>1
<1>5. OnceOnWire' /\ OnceInBacklog'
  BY <1>1 DEF OnceInv, OnceOnWire, OnceInBacklog
<1>6. inHand' \notin ToCome' /\ AlertsIn(backlog') \cap OnWire(frames') = {}
  BY <1>1, <1>2 DEF OnceInv
<1>7. ASSUME NEW q \in handled', q = inHand' \/ q \in ToCome'
      PROVE  Count(alerts', q) <= SoFar'
  <2>1. CASE q = r
    BY <1>2, <1>3, <1>4, <2>1
  <2>2. CASE q # r
    <3>1. q \in handled /\ q \in ToCome
      BY <1>1, <1>2, <1>7, <2>2
    <3> QED BY <1>2, <1>4, <3>1 DEF OnceInv
  <2> QED BY <2>1, <2>2
<1>8. ASSUME NEW q \in handled' PROVE Count(alerts', q) <= SoFar' + 1
  <2>1. CASE q = r
    BY <1>2, <1>3, <1>4, <2>1
  <2>2. CASE q # r
    BY <1>1, <1>2, <1>4, <2>2 DEF OnceInv
  <2> QED BY <2>1, <2>2
<1> QED BY <1>5, <1>6, <1>7, <1>8 DEF OnceInv

LEMMA OnceOffer ==
    ASSUME TypeInv, OnceInv, Broadcast \/ HandlePositionBatch
    PROVE  OnceInv'
<1>1. PICK m \in Message : /\ Offer(m) /\ inHand' = None
                           /\ AlertsIn(<< m >>) = {inHand} \ {None}
                           /\ m.type = "ALERT" => m.payload = inHand /\ inHand \in handled
  BY Offered
<1>2. UNCHANGED <<handled, frames, alerts, load>>
  BY DEF Broadcast, HandlePositionBatch, tab
<1>3. /\ backlog \in Seq(Message) /\ Len(backlog) <= BroadcastCap
      /\ ToCome \subseteq handled /\ None \notin handled
  BY RowsAndMessages, HandledOnWire DEF TypeInv, TypeOK, ToCome
<1>4. /\ AlertsIn(backlog') \subseteq AlertsIn(backlog) \cup AlertsIn(<< m >>)
      /\ \A i \in DOMAIN backlog' : \/ i \in DOMAIN backlog /\ backlog'[i] = backlog[i]
                                    \/ i = Len(backlog) + 1 /\ backlog'[i] = m
  BY <1>1, <1>3, OfferEffect
<1>5. /\ OnWire(frames') = OnWire(frames) /\ OnceOnWire' /\ SoFar' = SoFar
  BY <1>2 DEF OnceInv, OnceOnWire, SoFar
<1>6. \A i \in DOMAIN backlog : backlog[i].type = "ALERT" => backlog[i].payload # inHand
  BY AlertsInElements DEF OnceInv, ToCome
<1>7. OnceInBacklog'
  <2>1. SUFFICES ASSUME NEW i \in DOMAIN backlog', NEW j \in DOMAIN backlog',
                        backlog'[i].type = "ALERT", backlog'[j].type = "ALERT",
                        backlog'[i].payload = backlog'[j].payload
                 PROVE  i = j
    BY DEF OnceInBacklog
  <2>2. CASE /\ i \in DOMAIN backlog /\ backlog'[i] = backlog[i]
             /\ j \in DOMAIN backlog /\ backlog'[j] = backlog[j]
    BY <2>1, <2>2 DEF OnceInv, OnceInBacklog
  <2>3. CASE i \in DOMAIN backlog /\ backlog'[i] = backlog[i] /\ backlog'[j] = m
    BY <1>1, <1>6, <2>1, <2>3
  <2>4. CASE j \in DOMAIN backlog /\ backlog'[j] = backlog[j] /\ backlog'[i] = m
    BY <1>1, <1>6, <2>1, <2>4
  <2>5. CASE i = Len(backlog) + 1 /\ j = Len(backlog) + 1
    BY <2>5
  <2> QED BY <1>4, <2>2, <2>3, <2>4, <2>5
<1>8. ToCome' \subseteq ToCome \cup ({inHand} \ {None})
  BY <1>1, <1>4, <1>5 DEF ToCome
<1>9. AlertsIn(backlog') \cap OnWire(frames') = {}
  BY <1>1, <1>4, <1>5 DEF OnceInv, ToCome
<1>10. inHand' \notin ToCome'
  BY <1>1, <1>3, <1>8
<1>11. ASSUME NEW r \in handled', r = inHand' \/ r \in ToCome'
       PROVE  Count(alerts', r) <= SoFar'
  <2>1. r \in handled /\ (r = inHand \/ r \in ToCome)
    BY <1>1, <1>2, <1>3, <1>8, <1>11
  <2> QED BY <1>2, <1>5, <2>1 DEF OnceInv
<1>12. \A r \in handled' : Count(alerts', r) <= SoFar' + 1
  BY <1>2, <1>5 DEF OnceInv
<1> QED BY <1>5, <1>7, <1>9, <1>10, <1>11, <1>12 DEF OnceInv

LEMMA OnceHandOut ==
    ASSUME TypeInv, OnceInv, HandOut
    PROVE  OnceInv'
<1> DEFINE m == Head(backlog)
<1>1. /\ Stream(m) /\ backlog' = Tail(backlog) /\ backlog # << >>
      /\ UNCHANGED <<handled, inHand, alerts, load>>
  BY DEF HandOut, tab
<1>2. /\ m \in Message /\ m = backlog[1] /\ 1 \in DOMAIN backlog
      /\ \A i \in DOMAIN backlog' : i \in Nat \ {0} /\ i + 1 \in DOMAIN backlog
                                    /\ backlog'[i] = backlog[i + 1]
      /\ \A r : r \in AlertsIn(backlog) <=>
           (m.type = "ALERT" /\ m.payload = r) \/ r \in AlertsIn(backlog')
  BY <1>1, BacklogTail DEF TypeInv
<1> HIDE DEF m
<1>3. frames \in Seq(Seq(Message)) /\ ToCome \subseteq handled
  BY HandledOnWire DEF TypeInv, ToCome
<1>4. /\ OnWire(frames) \subseteq OnWire(frames')
      /\ \A r \in OnWire(frames') : r \in OnWire(frames) \/ (m.type = "ALERT" /\ m.payload = r)
  BY <1>1, <1>2, <1>3, OnWireStream
<1>5. m.type = "ALERT" => m.payload \notin OnWire(frames)
  BY <1>2 DEF OnceInv
<1>6. OnceOnWire'
  <2>1. CASE UNCHANGED frames
    BY <2>1 DEF OnceInv, OnceOnWire
  <2>2. CASE client = "in" /\ client' = "in"
    <3>1. PICK I \in DOMAIN frames' : \E K \in DOMAIN frames'[I] :
            /\ frames'[I][K] = m
            /\ \A i \in DOMAIN frames' : \A k \in DOMAIN frames'[i] :
                 \/ i = I /\ k = K
                 \/ i \in DOMAIN frames /\ k \in DOMAIN frames[i] /\ frames'[i][k] = frames[i][k]
            /\ \A i \in DOMAIN frames : \A k \in DOMAIN frames[i] :
                 /\ i \in DOMAIN frames' /\ k \in DOMAIN frames'[i]
                 /\ frames'[i][k] = frames[i][k]
                 /\ ~ (i = I /\ k = K)
      BY <1>1, <1>2, <1>3, <2>2, StreamEffect
    <3>2. PICK K \in DOMAIN frames'[I] :
            /\ frames'[I][K] = m
            /\ \A i \in DOMAIN frames' : \A k \in DOMAIN frames'[i] :
                 \/ i = I /\ k = K
                 \/ i \in DOMAIN frames /\ k \in DOMAIN frames[i] /\ frames'[i][k] = frames[i][k]
      BY <3>1
    <3>3. SUFFICES ASSUME NEW i \in DOMAIN frames', NEW j \in DOMAIN frames',
                          NEW k \in DOMAIN frames'[i], NEW l \in DOMAIN frames'[j],
                          frames'[i][k].type = "ALERT", frames'[j][l].type = "ALERT",
                          frames'[i][k].payload = frames'[j][l].payload
                   PROVE  i = j /\ k = l
      BY DEF OnceOnWire
    <3>4. CASE i = I /\ k = K /\ j = I /\ l = K
      BY <3>4
    <3>5. CASE /\ i = I /\ k = K
               /\ j \in DOMAIN frames /\ l \in DOMAIN frames[j] /\ frames'[j][l] = frames[j][l]
      <4>1. frames[j][l].payload \in OnWire(frames)
        BY <3>3, <3>5, OnWireMessages
      <4> QED BY <1>5, <3>2, <3>3, <3>5, <4>1
    <3>6. CASE /\ j = I /\ l = K
               /\ i \in DOMAIN frames /\ k \in DOMAIN frames[i] /\ frames'[i][k] = frames[i][k]
      <4>1. frames[i][k].payload \in OnWire(frames)
        BY <3>3, <3>6, OnWireMessages
      <4> QED BY <1>5, <3>2, <3>3, <3>6, <4>1
    <3>7. CASE /\ i \in DOMAIN frames /\ k \in DOMAIN frames[i] /\ frames'[i][k] = frames[i][k]
               /\ j \in DOMAIN frames /\ l \in DOMAIN frames[j] /\ frames'[j][l] = frames[j][l]
      BY <3>3, <3>7 DEF OnceInv, OnceOnWire
    <3> QED BY <3>2, <3>4, <3>5, <3>6, <3>7
  <2>3. UNCHANGED frames \/ (client = "in" /\ client' = "in")
    BY <1>1 DEF Stream
  <2> QED BY <2>1, <2>2, <2>3
<1>7. OnceInBacklog'
  <2>1. SUFFICES ASSUME NEW i \in DOMAIN backlog', NEW j \in DOMAIN backlog',
                        backlog'[i].type = "ALERT", backlog'[j].type = "ALERT",
                        backlog'[i].payload = backlog'[j].payload
                 PROVE  i = j
    BY DEF OnceInBacklog
  <2>2. /\ i + 1 \in DOMAIN backlog /\ backlog'[i] = backlog[i + 1] /\ i \in Nat
        /\ j + 1 \in DOMAIN backlog /\ backlog'[j] = backlog[j + 1] /\ j \in Nat
    BY <1>2
  <2>3. i + 1 = j + 1
    BY <2>1, <2>2 DEF OnceInv, OnceInBacklog
  <2> QED BY <2>2, <2>3
<1>8. m.type = "ALERT" => m.payload \notin AlertsIn(backlog')
  <2>1. SUFFICES ASSUME m.type = "ALERT", NEW i \in DOMAIN backlog',
                        backlog'[i].type = "ALERT", backlog'[i].payload = m.payload
                 PROVE  FALSE
    BY AlertsInElements
  <2>2. i \in Nat \ {0} /\ i + 1 \in DOMAIN backlog /\ backlog'[i] = backlog[i + 1]
    BY <1>2
  <2>3. i + 1 = 1
    BY <1>2, <2>1, <2>2 DEF OnceInv, OnceInBacklog
  <2> QED BY <2>2, <2>3
<1>9. AlertsIn(backlog') \cap OnWire(frames') = {}
  BY <1>2, <1>4, <1>8 DEF OnceInv
<1>10. ToCome' \subseteq ToCome
  BY <1>2, <1>4 DEF ToCome
<1>11. SoFar' = SoFar /\ \A r : Count(alerts', r) = Count(alerts, r)
  BY <1>1 DEF SoFar
<1> QED BY <1>1, <1>6, <1>7, <1>9, <1>10, <1>11 DEF OnceInv

LEMMA OnceOnMessage ==
    ASSUME TypeInv, OnceInv, OnMessage
    PROVE  OnceInv'
<1>1. /\ frames' \in Seq(Seq(Message)) /\ Head(frames) = frames[1] /\ 1 \in DOMAIN frames
      /\ \A i \in DOMAIN frames' : i + 1 \in DOMAIN frames /\ frames'[i] = frames[i + 1]
      /\ \A i \in DOMAIN frames' : i \in Nat \ {0}
      /\ \A r : r \in OnWire(frames) <=> r \in AlertsIn(Head(frames)) \/ r \in OnWire(frames')
  BY OnWireTail DEF TypeInv, OnMessage
<1>2. Head(frames) \in Seq(Message)
  BY HeadTailProperties DEF TypeInv, OnMessage
<1>3. UNCHANGED <<handled, inHand, backlog, load>>
  BY DEF OnMessage
<1>4. SoFar' = SoFar /\ SoFar \in {0, 1}
  BY <1>3 DEF SoFar
<1>5. OnceOnWire'
  <2>1. SUFFICES ASSUME NEW i \in DOMAIN frames', NEW j \in DOMAIN frames',
                        NEW k \in DOMAIN frames'[i], NEW l \in DOMAIN frames'[j],
                        frames'[i][k].type = "ALERT", frames'[j][l].type = "ALERT",
                        frames'[i][k].payload = frames'[j][l].payload
                 PROVE  i = j /\ k = l
    BY DEF OnceOnWire
  <2>2. /\ i + 1 \in DOMAIN frames /\ frames'[i] = frames[i + 1] /\ i \in Nat
        /\ j + 1 \in DOMAIN frames /\ frames'[j] = frames[j + 1] /\ j \in Nat
    BY <1>1
  <2>3. i + 1 = j + 1 /\ k = l
    BY <2>1, <2>2 DEF OnceInv, OnceOnWire
  <2> QED BY <2>2, <2>3
<1>6. /\ OnceInBacklog' /\ AlertsIn(backlog') = AlertsIn(backlog) /\ ToCome' \subseteq ToCome
      /\ AlertsIn(backlog') \cap OnWire(frames') = {} /\ inHand' \notin ToCome'
  <2>1. AlertsIn(backlog') = AlertsIn(backlog) /\ OnceInBacklog'
    BY <1>3 DEF OnceInv, OnceInBacklog
  <2>2. OnWire(frames') \subseteq OnWire(frames)
    BY <1>1
  <2> QED BY <1>3, <2>1, <2>2 DEF OnceInv, ToCome
<1>7. CASE UNCHANGED alerts
  BY <1>1, <1>3, <1>4, <1>5, <1>6, <1>7 DEF OnceInv
<1>8. ASSUME NEW m \in Parsed(Head(frames)), m.type = "ALERT", PushAlert(m.payload)
      PROVE  OnceInv'
  <2> DEFINE r == m.payload
  <2>1. r \in OnWire(frames) /\ r \in handled
    <3>1. r \in AlertsIn(Head(frames))
      BY <1>2, <1>8, ParsedFrame
    <3> QED BY <1>1, <3>1, HandledOnWire DEF TypeInv
  <2>2. r \notin OnWire(frames')
    <3>1. SUFFICES ASSUME NEW i \in DOMAIN frames', NEW k \in DOMAIN frames'[i],
                          frames'[i][k].type = "ALERT", frames'[i][k].payload = r
                   PROVE  FALSE
      BY OnWireMessages
    <3>2. i + 1 \in DOMAIN frames /\ frames'[i] = frames[i + 1] /\ i \in Nat \ {0}
      BY <1>1
    <3>3. 1 \in DOMAIN frames[1] /\ frames[1][1] = m
      BY <1>1, <1>2, <1>8, ParsedFrame
    <3>4. i + 1 = 1
      BY <1>1, <1>8, <3>1, <3>2, <3>3 DEF OnceInv, OnceOnWire
    <3> QED BY <3>2, <3>4
  <2>3. ASSUME NEW q
        PROVE  /\ Count(alerts', q) <= Count(alerts, q) + 1
               /\ q # r => Count(alerts', q) <= Count(alerts, q)
               /\ Count(alerts', q) \in Nat /\ Count(alerts, q) \in Nat
    <3>1. alerts \in Seq(handled) /\ Len(alerts) <= MaxAlerts /\ PushAlert(r)
      BY <1>8 DEF TypeInv, TypeOK
    <3> HIDE DEF r
    <3>2. alerts' \in Seq(handled)
      BY <2>1, <3>1, PushProperties
    <3> QED BY <2>1, <3>1, <3>2, CountPush, CountType
  <2> HIDE DEF r
  <2>4. ASSUME NEW q \in handled', q = inHand' \/ q \in ToCome'
        PROVE  Count(alerts', q) <= SoFar'
    <3>1. q # r /\ q \in handled /\ (q = inHand \/ q \in ToCome)
      <4>1. r \notin AlertsIn(backlog) /\ r # inHand
        BY <2>1 DEF OnceInv, ToCome
      <4>2. r \notin ToCome'
        BY <1>6, <2>2, <4>1 DEF ToCome
      <4> QED BY <1>3, <1>6, <2>4, <4>1, <4>2
    <3>2. Count(alerts, q) <= SoFar
      BY <3>1 DEF OnceInv
    <3> QED BY <1>4, <2>3, <3>1, <3>2
  <2>5. ASSUME NEW q \in handled' PROVE Count(alerts', q) <= SoFar' + 1
    <3>1. CASE q = r
      <4>1. Count(alerts, q) <= SoFar
        BY <2>1, <3>1 DEF OnceInv, ToCome
      <4> QED BY <1>4, <2>3, <4>1
    <3>2. CASE q # r
      <4>1. Count(alerts, q) <= SoFar + 1
        BY <1>3, <2>5 DEF OnceInv
      <4> QED BY <1>4, <2>3, <3>2, <4>1
    <3> QED BY <3>1, <3>2
  <2> QED BY <1>5, <1>6, <2>4, <2>5 DEF OnceInv
<1> QED BY <1>7, <1>8 DEF OnMessage, Dispatch

LEMMA OnceShow ==
    ASSUME TypeInv, OnceInv, ShowLoad
    PROVE  OnceInv'
<1>1. load'.state = "shown" /\ SetInitialAlerts(load.body) /\ UNCHANGED <<handled, inHand, backlog, frames>>
  BY DEF ShowLoad, broker
<1>2. /\ alerts' \in Seq(table)
      /\ \A i, j \in 1..Len(alerts') : alerts'[i] = alerts'[j] => i = j
  BY <1>1, ShownProperties DEF TypeInv, TypeOK
<1>3. \A r : Count(alerts', r) <= 1 /\ Count(alerts', r) \in Nat
  BY <1>2, CountDistinct, CountType
<1>4. SoFar' = 1
  BY <1>1 DEF SoFar
<1>5. \A r : Count(alerts', r) <= SoFar' /\ Count(alerts', r) <= SoFar' + 1
  BY <1>3, <1>4
<1>6. AlertsIn(backlog') = AlertsIn(backlog) /\ OnWire(frames') = OnWire(frames)
  BY <1>1
<1> QED BY <1>1, <1>5, <1>6 DEF OnceInv, OnceOnWire, OnceInBacklog, ToCome

LEMMA OnceRest ==
    ASSUME TypeInv, OnceInv, Join \/ Open \/ Close \/ AnswerLoad \/ LoadFails \/ UNCHANGED vars
    PROVE  OnceInv'
<1>1. UNCHANGED <<handled, inHand, backlog, alerts>>
  BY DEF Join, Open, Close, AnswerLoad, LoadFails, vars, broker, tab
<1>2. SoFar' = SoFar
  <2>1. CASE UNCHANGED load
    BY <2>1 DEF SoFar
  <2>2. CASE AnswerLoad \/ LoadFails
    <3>1. load.state # "shown" /\ load'.state # "shown"
      BY <2>2 DEF AnswerLoad, LoadFails
    <3> QED BY <3>1 DEF SoFar
  <2> QED BY <2>1, <2>2 DEF Join, Open, Close, vars, tab
<1>3. frames' = frames \/ frames' = << >>
  BY DEF Join, Open, Close, AnswerLoad, LoadFails, vars, broker
<1>4. OnceOnWire' /\ OnWire(frames') \subseteq OnWire(frames)
  <2>1. CASE frames' = frames
    BY <2>1 DEF OnceInv, OnceOnWire
  <2>2. CASE frames' = << >>
    <3>1. DOMAIN frames' = {} /\ OnWire(frames') = {}
      BY <2>2, EmptyProperties, NothingOnWire
    <3> QED BY <3>1 DEF OnceOnWire
  <2> QED BY <1>3, <2>1, <2>2
<1>5. AlertsIn(backlog') = AlertsIn(backlog) /\ OnceInBacklog'
  BY <1>1 DEF OnceInv, OnceInBacklog
<1>6. ToCome' \subseteq ToCome /\ AlertsIn(backlog') \cap OnWire(frames') = {}
  BY <1>4, <1>5 DEF OnceInv, ToCome
<1> QED BY <1>1, <1>2, <1>4, <1>5, <1>6 DEF OnceInv

LEMMA OnceStep ==
    TypeInv /\ OnceInv /\ [Next]_vars => OnceInv'
<1> SUFFICES ASSUME TypeInv, OnceInv, [Next]_vars PROVE OnceInv'
  OBVIOUS
<1>1. ASSUME NEW r \in Row, HandleViolation(r) PROVE OnceInv'
  BY <1>1, OnceHandle
<1>2. CASE Broadcast \/ HandlePositionBatch
  BY <1>2, OnceOffer
<1>3. CASE HandOut
  BY <1>3, OnceHandOut
<1>4. CASE OnMessage
  BY <1>4, OnceOnMessage
<1>5. CASE ShowLoad
  BY <1>5, OnceShow
<1>6. CASE Join \/ Open \/ Close \/ AnswerLoad \/ LoadFails \/ UNCHANGED vars
  BY <1>6, OnceRest
<1> QED BY <1>1, <1>2, <1>3, <1>4, <1>5, <1>6 DEF Next

(* The stream shows an alert once, history and stream together at most     *)
(* twice, however the answer and the frames interleave (App.tsx 246-248,   *)
(* store.ts 29-32 and 59-61).                                              *)
THEOREM StreamShowsOnceHolds == Spec => []StreamShowsOnce
<1>1. Spec => []OnceInv
  BY OnceInit, OnceStep, TypeInvAlways, PTL DEF Spec
<1> QED BY <1>1, OnceImplies, PTL
=============================================================================
