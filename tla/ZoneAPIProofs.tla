--------------------------- MODULE ZoneAPIProofs ----------------------------
(***************************************************************************)
(* Proofs about the geofencer and the zone-management API: what AddZone    *)
(* and RemoveZone do to the zone sequence, what the two tests of Check     *)
(* find, and the API's theorems, for every set of ids, points and          *)
(* severities, every number of zones and every zone file whose ids are     *)
(* unique.                                                                 *)
(***************************************************************************)
EXTENDS ZoneAPI, TLAPS, SequenceTheorems, FiniteSetTheorems, WellFoundedInduction

(* A non-empty set of natural numbers has a least element.                 *)
LEMMA LeastNatural ==
    ASSUME NEW S, S \subseteq Nat, S # {}
    PROVE  \E i \in S : \A j \in S : i <= j
<1> DEFINE R == {ss \in Nat \X Nat : ss[1] < ss[2]}
<1>1. IsWellFoundedOn(R, Nat)
  BY NatLessThanWellFounded DEF OpToRel
<1>2. PICK i \in S : \A j \in S : <<j, i>> \notin R
  <2> HIDE DEF R
  <2> QED BY <1>1, WFMin
<1>3. ASSUME NEW j \in S PROVE i <= j
  <2>1. <<j, i>> \notin R
    BY <1>2
  <2>2. ~ (j < i)
    BY <2>1
  <2> QED BY <2>2
<1> QED BY <1>3

(* The first zone with an id is a zone of the sequence with that id.       *)
LEMMA IndexOfProperties ==
    ASSUME NEW s \in Seq(Zone), NEW id, IndicesOf(s, id) # {}
    PROVE  /\ IndexOf(s, id) \in 1..Len(s)
           /\ s[IndexOf(s, id)].id = id
<1>1. IndicesOf(s, id) \subseteq 1..Len(s)
  BY LenProperties DEF IndicesOf
<1>2. \E i \in IndicesOf(s, id) : \A j \in IndicesOf(s, id) : i <= j
  BY <1>1, LenProperties, LeastNatural
<1>3. IndexOf(s, id) \in IndicesOf(s, id)
  BY <1>2, Zenon DEF IndexOf
<1> QED BY <1>1, <1>3 DEF IndicesOf

(* Both operations keep the zones a sequence of zones.                     *)
LEMMA PutType ==
    ASSUME NEW s \in Seq(Zone), NEW z \in Zone
    PROVE  Put(s, z) \in Seq(Zone)
<1>1. CASE IndicesOf(s, z.id) = {}
  BY <1>1, AppendProperties DEF Put
<1>2. CASE IndicesOf(s, z.id) # {}
  BY <1>2, IndexOfProperties, ExceptSeq DEF Put, ReplaceAt
<1> QED BY <1>1, <1>2

(* RemoveAt drops one position and shifts the later ones down.             *)
LEMMA RemoveAtProperties ==
    ASSUME NEW S, NEW s \in Seq(S), NEW k \in 1..Len(s)
    PROVE  /\ RemoveAt(s, k) \in Seq(S)
           /\ Len(RemoveAt(s, k)) = Len(s) - 1
           /\ \A i \in 1..(Len(s) - 1) :
                RemoveAt(s, k)[i] = IF i < k THEN s[i] ELSE s[i + 1]
<1> DEFINE a == SubSeq(s, 1, k - 1)
           b == SubSeq(s, k + 1, Len(s))
<1>1. /\ Len(s) \in Nat
      /\ \A i \in 1..Len(s) : s[i] \in S
  BY LenProperties, ElementOfSeq
<1>2. /\ a \in Seq(S)
      /\ Len(a) = k - 1
      /\ \A i \in 1..(k - 1) : a[i] = s[i]
  <2>1. \A i \in 1..(k - 1) : s[i] \in S
    BY <1>1
  <2> HIDE DEF a
  <2>2. /\ a \in Seq(S)
        /\ Len(a) = IF 1 <= k - 1 THEN k - 1 - 1 + 1 ELSE 0
        /\ \A i \in 1..(k - 1 - 1 + 1) : a[i] = s[1 + i - 1]
    BY <2>1, <1>1, SubSeqProperties DEF a
  <2> QED BY <2>2, <1>1
<1>3. /\ b \in Seq(S)
      /\ Len(b) = Len(s) - k
      /\ \A i \in 1..(Len(s) - k) : b[i] = s[k + i]
  <2>1. \A i \in (k + 1)..Len(s) : s[i] \in S
    BY <1>1
  <2> HIDE DEF b
  <2>2. /\ b \in Seq(S)
        /\ Len(b) = IF k + 1 <= Len(s) THEN Len(s) - (k + 1) + 1 ELSE 0
        /\ \A i \in 1..(Len(s) - (k + 1) + 1) : b[i] = s[(k + 1) + i - 1]
    BY <2>1, <1>1, SubSeqProperties DEF b
  <2> QED BY <2>2, <1>1
<1> HIDE DEF a, b
<1>4. /\ a \o b \in Seq(S)
      /\ Len(a \o b) = Len(a) + Len(b)
      /\ \A i \in 1..(Len(a) + Len(b)) :
           (a \o b)[i] = IF i <= Len(a) THEN a[i] ELSE b[i - Len(a)]
  BY <1>2, <1>3, ConcatProperties
<1>5. RemoveAt(s, k) = a \o b
  BY DEF RemoveAt, a, b
<1>6. Len(a) + Len(b) = Len(s) - 1
  BY <1>1, <1>2, <1>3
<1>7. ASSUME NEW i \in 1..(Len(s) - 1)
      PROVE  (a \o b)[i] = IF i < k THEN s[i] ELSE s[i + 1]
  <2>0. i \in Int /\ k \in Int
    BY <1>1
  <2>1. (a \o b)[i] = IF i <= Len(a) THEN a[i] ELSE b[i - Len(a)]
    BY <1>4, <1>6
  <2>2. CASE i < k
    BY <1>2, <2>1, <2>2
  <2>3. CASE i >= k
    <3>1. i - Len(a) \in 1..(Len(s) - k) /\ ~ (i <= Len(a))
      BY <1>1, <1>2, <2>3
    <3>2. b[i - Len(a)] = s[k + (i - Len(a))]
      BY <1>3, <3>1
    <3> QED BY <1>1, <1>2, <2>1, <2>3, <3>1, <3>2
  <2>4. i < k \/ i >= k
    BY <2>0
  <2> QED BY <2>2, <2>3, <2>4
<1> QED BY <1>4, <1>5, <1>6, <1>7

LEMMA WithoutType ==
    ASSUME NEW s \in Seq(Zone), NEW id
    PROVE  Without(s, id) \in Seq(Zone)
  BY IndexOfProperties, RemoveAtProperties DEF Without

(* The zones of a sequence as a set.                                       *)
LEMMA ToSetElements ==
    ASSUME NEW S, NEW s \in Seq(S)
    PROVE  ToSet(s) = {s[i] : i \in 1..Len(s)}
  BY LenProperties DEF ToSet

(* While ids are unique AddZone replaces exactly the zone with that id.    *)
LEMMA PutEffect ==
    ASSUME NEW s \in Seq(Zone), UniqueIds(s), NEW z \in Zone
    PROVE  /\ UniqueIds(Put(s, z))
           /\ ToSet(Put(s, z)) = {y \in ToSet(s) : y.id # z.id} \cup {z}
<1> DEFINE t == Put(s, z)
<1>1. Len(s) \in Nat /\ DOMAIN s = 1..Len(s)
  BY LenProperties
<1>2. t \in Seq(Zone) /\ Len(t) \in Nat /\ DOMAIN t = 1..Len(t)
  BY PutType, LenProperties
<1>3. CASE IndicesOf(s, z.id) = {}
  <2>1. /\ Len(t) = Len(s) + 1
        /\ \A i \in 1..Len(s) : t[i] = s[i]
        /\ t[Len(s) + 1] = z
    BY <1>3, AppendProperties DEF Put
  <2>2. \A i \in 1..Len(s) : s[i].id # z.id
    BY <1>1, <1>3 DEF IndicesOf
  <2> HIDE DEF t
  <2>3. UniqueIds(t)
    BY <1>1, <1>2, <2>1, <2>2 DEF UniqueIds
  <2>4. ToSet(t) = {y \in ToSet(s) : y.id # z.id} \cup {z}
    BY <1>1, <1>2, <2>1, <2>2, ToSetElements
  <2> QED BY <2>3, <2>4 DEF t
<1>4. CASE IndicesOf(s, z.id) # {}
  <2> DEFINE k == IndexOf(s, z.id)
  <2>1. k \in 1..Len(s) /\ s[k].id = z.id
    BY <1>4, IndexOfProperties
  <2> HIDE DEF k
  <2>2. /\ Len(t) = Len(s)
        /\ \A i \in 1..Len(s) : t[i] = IF i = k THEN z ELSE s[i]
    BY <1>4, <2>1, ExceptSeq DEF Put, ReplaceAt, k
  <2>3. \A i \in 1..Len(s) : s[i].id = z.id <=> i = k
    BY <1>1, <2>1 DEF UniqueIds
  <2> HIDE DEF t
  <2>4. UniqueIds(t)
    BY <1>1, <1>2, <2>1, <2>2, <2>3 DEF UniqueIds
  <2>5. ToSet(t) = {y \in ToSet(s) : y.id # z.id} \cup {z}
    BY <1>1, <1>2, <2>1, <2>2, <2>3, ToSetElements
  <2> QED BY <2>4, <2>5 DEF t
<1> QED BY <1>3, <1>4

(* While ids are unique RemoveZone removes exactly the zone with that id.  *)
LEMMA WithoutEffect ==
    ASSUME NEW s \in Seq(Zone), UniqueIds(s), NEW id
    PROVE  /\ UniqueIds(Without(s, id))
           /\ ToSet(Without(s, id)) = {y \in ToSet(s) : y.id # id}
<1> DEFINE t == Without(s, id)
<1>1. Len(s) \in Nat /\ DOMAIN s = 1..Len(s)
  BY LenProperties
<1>2. t \in Seq(Zone) /\ Len(t) \in Nat /\ DOMAIN t = 1..Len(t)
  BY WithoutType, LenProperties
<1>3. CASE IndicesOf(s, id) = {}
  <2>1. \A i \in 1..Len(s) : s[i].id # id
    BY <1>1, <1>3 DEF IndicesOf
  <2> QED BY <1>3, <2>1, ToSetElements DEF Without
<1>4. CASE IndicesOf(s, id) # {}
  <2> DEFINE k == IndexOf(s, id)
  <2>1. k \in 1..Len(s) /\ s[k].id = id
    BY <1>4, IndexOfProperties
  <2> HIDE DEF k
  <2>2. /\ Len(t) = Len(s) - 1
        /\ \A i \in 1..(Len(s) - 1) : t[i] = IF i < k THEN s[i] ELSE s[i + 1]
    BY <1>4, <2>1, RemoveAtProperties DEF Without, k
  <2>3. \A i \in 1..Len(s) : s[i].id = id <=> i = k
    BY <1>1, <2>1 DEF UniqueIds
  <2> HIDE DEF t
  <2>4. UniqueIds(t)
    <3>1. SUFFICES ASSUME NEW i \in 1..Len(t), NEW j \in 1..Len(t), t[i].id = t[j].id
                   PROVE  i = j
      BY <1>2 DEF UniqueIds
    <3> DEFINE old(n) == IF n < k THEN n ELSE n + 1
    <3>2. /\ old(i) \in 1..Len(s) /\ old(j) \in 1..Len(s)
          /\ t[i] = s[old(i)] /\ t[j] = s[old(j)]
      BY <1>1, <2>1, <2>2
    <3>3. old(i) = old(j)
      BY <1>1, <3>1, <3>2 DEF UniqueIds
    <3> QED BY <1>1, <2>1, <2>2, <3>3
  <2>5. ToSet(t) = {y \in ToSet(s) : y.id # id}
    <3>1. ASSUME NEW y \in ToSet(t)
          PROVE  y \in ToSet(s) /\ y.id # id
      <4>1. PICK i \in 1..Len(t) : y = t[i]
        BY <1>2, ToSetElements
      <4>2. PICK j \in 1..Len(s) : j # k /\ y = s[j]
        BY <1>1, <2>1, <2>2, <4>1
      <4> QED BY <2>3, <4>2, ToSetElements
    <3>2. ASSUME NEW y \in ToSet(s), y.id # id
          PROVE  y \in ToSet(t)
      <4>1. PICK j \in 1..Len(s) : y = s[j]
        BY ToSetElements
      <4>2. j # k
        BY <2>1, <3>2, <4>1
      <4>3. PICK i \in 1..Len(t) : y = t[i]
        <5>1. CASE j < k
          BY <1>1, <2>1, <2>2, <4>1, <5>1
        <5>2. CASE j > k
          <6>1. j - 1 \in 1..Len(t) /\ t[j - 1] = s[j]
            BY <1>1, <2>1, <2>2, <5>2
          <6> QED BY <4>1, <6>1
        <5> QED BY <1>1, <2>1, <4>2, <5>1, <5>2
      <4> QED BY <1>2, <4>3, ToSetElements
    <3> QED BY <3>1, <3>2
  <2> QED BY <2>4, <2>5 DEF t
<1> QED BY <1>3, <1>4

-----------------------------------------------------------------------------
(* The parity of a set's size.                                             *)
Parity(S) == Cardinality(S) % 2

(* The sum of two parities.                                                *)
Xor(m, n) == IF m = n THEN 0 ELSE 1

(* The size of a finite set is even or odd.                                *)
LEMMA ParityType ==
    ASSUME NEW S, IsFiniteSet(S)
    PROVE  Parity(S) \in {0, 1}
<1>1. Cardinality(S) \in Nat
  BY FS_CardinalityType
<1> QED BY <1>1 DEF Parity

(* The parity of two sets without a common element is the sum of theirs.   *)
LEMMA ParityUnion ==
    ASSUME NEW S, NEW T, IsFiniteSet(S), IsFiniteSet(T), S \cap T = {}
    PROVE  /\ IsFiniteSet(S \cup T)
           /\ Parity(S \cup T) = Xor(Parity(S), Parity(T))
<1>1. Cardinality(S) \in Nat /\ Cardinality(T) \in Nat /\ Cardinality({}) = 0
  BY FS_CardinalityType, FS_EmptySet
<1>2. IsFiniteSet(S \cup T) /\ Cardinality(S \cup T) = Cardinality(S) + Cardinality(T)
  <2>1. Cardinality(S \cup T) = Cardinality(S) + Cardinality(T) - Cardinality(S \cap T)
    BY FS_Union
  <2>2. IsFiniteSet(S \cup T)
    BY FS_Union
  <2>3. Cardinality(S \cap T) = 0
    BY <1>1
  <2> QED BY <1>1, <2>1, <2>2, <2>3
<1>3. \A m, n \in Nat : (m + n) % 2 = IF m % 2 = n % 2 THEN 0 ELSE 1
  OBVIOUS
<1> QED BY <1>1, <1>2, <1>3 DEF Parity, Xor

(* Moving a set of numbers keeps its parity.                               *)
LEMMA ParityShift ==
    ASSUME NEW S, NEW T, IsFiniteSet(S), NEW k \in Int,
           S \subseteq Int, T \subseteq Int,
           \A i \in Int : i \in S <=> i + k \in T
    PROVE  Parity(T) = Parity(S)
<1> DEFINE f == [i \in S |-> i + k]
<1>1. \A i \in S : i \in Int /\ i + k \in T
  OBVIOUS
<1>2. \A j \in T : j - k \in S /\ (j - k) + k = j
  OBVIOUS
<1>3. f \in [S -> T] /\ \A i \in S : f[i] = i + k
  BY <1>1
<1> HIDE DEF f
<1>4. \A i, j \in S : f[i] = f[j] => i = j
  BY <1>1, <1>3
<1>5. \A j \in T : \E i \in S : f[i] = j
  BY <1>2, <1>3
<1>6. f \in Bijection(S, T)
  BY <1>3, <1>4, <1>5 DEF Bijection, Injection, Surjection, IsInjective
<1>7. ExistsBijection(S, T)
  BY <1>6 DEF ExistsBijection
<1> QED BY <1>7, FS_Bijection DEF Parity

(* Side as a cross product, seen from the position.                        *)
LEMMA SideFrom ==
    ASSUME NEW y \in Int, NEW x \in Int, NEW ay \in Int, NEW ax \in Int,
           NEW by \in Int, NEW bx \in Int
    PROVE  (bx - ax) * (y - ay) - (by - ay) * (x - ax)
           = (ax - x) * (by - y) - (ay - y) * (bx - x)
  OBVIOUS

(* A position weighted by its triangle: the sides from it balance.         *)
LEMMA Bary ==
    ASSUME NEW a1 \in Int, NEW a2 \in Int, NEW b1 \in Int, NEW b2 \in Int,
           NEW c1 \in Int, NEW c2 \in Int
    PROVE  (((b2 * c1) - (b1 * c2)) * a1) + (((c2 * a1) - (c1 * a2)) * b1)
            + (((a2 * b1) - (a1 * b2)) * c1) = 0
  OBVIOUS

(* The sign of a product.                                                  *)
LEMMA Signs ==
    ASSUME NEW m \in Int, NEW n \in Int
    PROVE  /\ m > 0 /\ n > 0 => m * n > 0
           /\ m > 0 /\ n < 0 => m * n < 0
           /\ m < 0 /\ n > 0 => m * n < 0
           /\ m < 0 /\ n < 0 => m * n > 0
           /\ m >= 0 /\ n >= 0 => m * n >= 0
           /\ m <= 0 /\ n >= 0 => m * n <= 0
           /\ m >= 0 /\ n <= 0 => m * n <= 0
           /\ m <= 0 /\ n <= 0 => m * n >= 0
  OBVIOUS

(* Positions on the grid.                                                  *)
Position == Int \X Int

LEMMA Coordinates ==
    ASSUME NEW v \in Position
    PROVE  Lat(v) \in Int /\ Lon(v) \in Int /\ v = <<Lat(v), Lon(v)>>
  BY DEF Position, Lat, Lon

(* Side turns round with its line.                                         *)
LEMMA SideCross ==
    ASSUME NEW p \in Position, NEW a \in Position, NEW b \in Position
    PROVE  /\ Side(p, a, b) \in Int
           /\ Side(p, a, b) = ((Lon(a) - Lon(p)) * (Lat(b) - Lat(p)))
                              - ((Lat(a) - Lat(p)) * (Lon(b) - Lon(p)))
           /\ Side(p, b, a) = 0 - Side(p, a, b)
           /\ Side(p, a, a) = 0
  BY Coordinates DEF Side

(* The ray meets an edge from below if the position is to the left of it,  *)
(* an edge from above if it is to the right: ray casting without its       *)
(* quotient.                                                               *)
LEMMA CrossesSide ==
    ASSUME NEW p \in Position, NEW a \in Position, NEW b \in Position
    PROVE  Crosses(p, a, b) <=>
             \/ Lat(a) <= Lat(p) /\ Lat(p) < Lat(b) /\ Side(p, a, b) > 0
             \/ Lat(b) <= Lat(p) /\ Lat(p) < Lat(a) /\ Side(p, a, b) < 0
<1> DEFINE y == Lat(p)
           x == Lon(p)
           a1 == Lat(a)
           a2 == Lon(a)
           b1 == Lat(b)
           b2 == Lon(b)
           left == (x - a2) * (b1 - a1)
           right == (b2 - a2) * (y - a1)
           side == Side(p, a, b)
<1>1. y \in Int /\ x \in Int /\ a1 \in Int /\ a2 \in Int /\ b1 \in Int /\ b2 \in Int
  BY Coordinates
<1>2. side = right - ((b1 - a1) * (x - a2))
  BY DEF Side
<1>3. left \in Int /\ right \in Int /\ side = right - left
  <2> HIDE DEF y, x, a1, a2, b1, b2, side
  <2> QED BY <1>1, <1>2
<1>4. Crosses(p, a, b) <=> /\ (a1 > y) # (b1 > y)
                           /\ IF b1 - a1 > 0 THEN left < right ELSE left > right
  BY DEF Crosses, Straddles
<1> HIDE DEF y, x, a1, a2, b1, b2, left, right, side
<1>5. Crosses(p, a, b) <=> (a1 <= y /\ y < b1 /\ side > 0) \/ (b1 <= y /\ y < a1 /\ side < 0)
  BY <1>1, <1>3, <1>4
<1> QED BY <1>5 DEF y, x, a1, a2, b1, b2, side

(* The direction of an edge does not matter.                               *)
LEMMA CrossesSymmetric ==
    ASSUME NEW p \in Position, NEW a \in Position, NEW b \in Position
    PROVE  Crosses(p, a, b) <=> Crosses(p, b, a)
<1> DEFINE s == Side(p, a, b)
           t == Side(p, b, a)
<1>1. s \in Int /\ t = 0 - s
  BY SideCross
<1> HIDE DEF s, t
<1> QED BY <1>1, CrossesSide, Coordinates DEF s, t

(* Past every longitude no edge is met, before every one each edge that    *)
(* reaches across is.                                                      *)
LEMMA CrossesFar ==
    ASSUME NEW p \in Position, NEW a \in Position, NEW b \in Position
    PROVE  /\ Lon(a) < Lon(p) /\ Lon(b) < Lon(p) => ~ Crosses(p, a, b)
           /\ Lon(p) < Lon(a) /\ Lon(p) < Lon(b)
                => (Crosses(p, a, b) <=> (Lat(p) < Lat(a)) # (Lat(p) < Lat(b)))
<1> DEFINE a1 == Lat(a) - Lat(p)
           a2 == Lon(a) - Lon(p)
           b1 == Lat(b) - Lat(p)
           b2 == Lon(b) - Lon(p)
           s == Side(p, a, b)
           m == a2 * b1
           n == a1 * b2
<1>1. a1 \in Int /\ a2 \in Int /\ b1 \in Int /\ b2 \in Int
  BY Coordinates
<1>2. s = m - n
  BY SideCross
<1>3. /\ a1 > 0 <=> Lat(p) < Lat(a)
      /\ b1 > 0 <=> Lat(p) < Lat(b)
      /\ a1 <= 0 <=> Lat(a) <= Lat(p)
      /\ b1 <= 0 <=> Lat(b) <= Lat(p)
      /\ a2 > 0 <=> Lon(p) < Lon(a)
      /\ b2 > 0 <=> Lon(p) < Lon(b)
      /\ a2 < 0 <=> Lon(a) < Lon(p)
      /\ b2 < 0 <=> Lon(b) < Lon(p)
  BY Coordinates
<1>4. Crosses(p, a, b) <=> (a1 <= 0 /\ b1 > 0 /\ s > 0) \/ (b1 <= 0 /\ a1 > 0 /\ s < 0)
  <2> HIDE DEF a1, a2, b1, b2, s, m, n
  <2> QED BY <1>3, CrossesSide DEF s
<1> HIDE DEF a1, a2, b1, b2, s
<1>5. m \in Int /\ n \in Int
  BY <1>1
<1>6. /\ a2 < 0 /\ b1 > 0 => m < 0
      /\ a2 > 0 /\ b1 > 0 => m > 0
      /\ a2 < 0 /\ b1 <= 0 => m >= 0
      /\ a2 > 0 /\ b1 <= 0 => m <= 0
      /\ b2 < 0 /\ a1 > 0 => n < 0
      /\ b2 > 0 /\ a1 > 0 => n > 0
      /\ b2 < 0 /\ a1 <= 0 => n >= 0
      /\ b2 > 0 /\ a1 <= 0 => n <= 0
  BY <1>1, Signs
<1> HIDE DEF m, n
<1>7. a2 < 0 /\ b2 < 0 => ~ Crosses(p, a, b)
  BY <1>1, <1>2, <1>4, <1>5, <1>6
<1>8. a2 > 0 /\ b2 > 0 => (Crosses(p, a, b) <=> (a1 > 0) # (b1 > 0))
  BY <1>1, <1>2, <1>4, <1>5, <1>6
<1> QED BY <1>3, <1>7, <1>8

(* The triangle a-b-c is met an odd number of times from the positions     *)
(* inside it.                                                              *)
LEMMA TriangleParity ==
    ASSUME NEW p \in Position, NEW a \in Position, NEW b \in Position, NEW c \in Position,
           a # b => Side(p, a, b) # 0, b # c => Side(p, b, c) # 0, c # a => Side(p, c, a) # 0
    PROVE  InTriangle(p, a, b, c) <=>
             (Crosses(p, a, b) <=> (Crosses(p, b, c) <=> Crosses(p, c, a)))
<1> DEFINE a1 == Lat(a) - Lat(p)
           b1 == Lat(b) - Lat(p)
           c1 == Lat(c) - Lat(p)
           r == Side(p, b, c)
           s == Side(p, c, a)
           t == Side(p, a, b)
<1>1. a1 \in Int /\ b1 \in Int /\ c1 \in Int /\ r \in Int /\ s \in Int /\ t \in Int
  <2>1. a1 \in Int /\ b1 \in Int /\ c1 \in Int
    BY Coordinates
  <2>2. r \in Int /\ s \in Int /\ t \in Int
    BY SideCross
  <2> QED BY <2>1, <2>2
<1>2. (r * a1) + (s * b1) + (t * c1) = 0
  <2> DEFINE a2 == Lon(a) - Lon(p)
             b2 == Lon(b) - Lon(p)
             c2 == Lon(c) - Lon(p)
  <2>1. a2 \in Int /\ b2 \in Int /\ c2 \in Int
    BY Coordinates
  <2>2. /\ r = (b2 * c1) - (b1 * c2)
        /\ s = (c2 * a1) - (c1 * a2)
        /\ t = (a2 * b1) - (a1 * b2)
    BY SideCross
  <2> HIDE DEF a1, b1, c1, a2, b2, c2, r, s, t
  <2> QED BY <1>1, <2>1, <2>2, Bary
<1>3. /\ Crosses(p, a, b) <=> (a1 <= 0 /\ b1 > 0 /\ t > 0) \/ (b1 <= 0 /\ a1 > 0 /\ t < 0)
      /\ Crosses(p, b, c) <=> (b1 <= 0 /\ c1 > 0 /\ r > 0) \/ (c1 <= 0 /\ b1 > 0 /\ r < 0)
      /\ Crosses(p, c, a) <=> (c1 <= 0 /\ a1 > 0 /\ s > 0) \/ (a1 <= 0 /\ c1 > 0 /\ s < 0)
  BY CrossesSide, Coordinates
<1>4. InTriangle(p, a, b, c) <=> (r > 0 /\ s > 0 /\ t > 0) \/ (r < 0 /\ s < 0 /\ t < 0)
  BY DEF InTriangle
<1>5. /\ r = 0 => (b1 = c1 /\ s = 0 - t)
      /\ s = 0 => (c1 = a1 /\ t = 0 - r)
      /\ t = 0 => (a1 = b1 /\ r = 0 - s)
  BY SideCross
<1>6. ~ (a1 = 0 /\ b1 = 0 /\ t # 0)
  <2>1. t = ((Lon(a) - Lon(p)) * b1) - (a1 * (Lon(b) - Lon(p)))
    BY SideCross
  <2>2. Lon(a) - Lon(p) \in Int /\ Lon(b) - Lon(p) \in Int
    BY Coordinates
  <2> HIDE DEF a1, b1, t
  <2> QED BY <1>1, <2>1, <2>2
<1> HIDE DEF a1, b1, c1, r, s, t
<1> DEFINE ra == r * a1
           sb == s * b1
           tc == t * c1
<1>7. ra \in Int /\ sb \in Int /\ tc \in Int /\ ra + sb + tc = 0
  BY <1>1, <1>2
<1>8. /\ r > 0 /\ a1 > 0 => ra > 0
      /\ r < 0 /\ a1 > 0 => ra < 0
      /\ r > 0 /\ a1 < 0 => ra < 0
      /\ r < 0 /\ a1 < 0 => ra > 0
      /\ s > 0 /\ b1 > 0 => sb > 0
      /\ s < 0 /\ b1 > 0 => sb < 0
      /\ s > 0 /\ b1 < 0 => sb < 0
      /\ s < 0 /\ b1 < 0 => sb > 0
      /\ t > 0 /\ c1 > 0 => tc > 0
      /\ t < 0 /\ c1 > 0 => tc < 0
      /\ t > 0 /\ c1 < 0 => tc < 0
      /\ t < 0 /\ c1 < 0 => tc > 0
  BY <1>1, Signs
<1>9. (a1 = 0 => ra = 0) /\ (b1 = 0 => sb = 0) /\ (c1 = 0 => tc = 0)
  BY <1>1
<1> HIDE DEF ra, sb, tc
<1>10. CASE r # 0 /\ s # 0 /\ t # 0
  <2>1. CASE t > 0 /\ r > 0 /\ s > 0
    BY <1>1, <1>3, <1>4, <1>6, <1>7, <1>8, <1>9, <2>1
  <2>2. CASE t < 0 /\ r < 0 /\ s < 0
    BY <1>1, <1>3, <1>4, <1>6, <1>7, <1>8, <1>9, <2>2
  <2>3. CASE ~ (t > 0 /\ r > 0 /\ s > 0) /\ ~ (t < 0 /\ r < 0 /\ s < 0)
    BY <1>1, <1>3, <1>4, <1>6, <1>7, <1>8, <1>9, <1>10, <2>3
  <2> QED BY <2>1, <2>2, <2>3
<1>11. CASE r = 0
  BY <1>1, <1>3, <1>4, <1>5, <1>11
<1>12. CASE s = 0
  BY <1>1, <1>3, <1>4, <1>5, <1>12
<1>13. CASE t = 0
  BY <1>1, <1>3, <1>4, <1>5, <1>13
<1> QED BY <1>10, <1>11, <1>12, <1>13

(* Induction up to n.                                                      *)
LEMMA NaturalInduction ==
    ASSUME NEW G, 1 \in G, NEW n \in Nat, \A k \in 1..n - 1 : k \in G => k + 1 \in G
    PROVE  1..n \subseteq G
<1> SUFFICES ASSUME NEW j \in 1..n, j \notin G PROVE FALSE
  OBVIOUS
<1> DEFINE B == 1..n \ G
<1>1. B \subseteq Nat /\ B # {}
  OBVIOUS
<1>2. PICK k \in B : \A i \in B : k <= i
  <2> HIDE DEF B
  <2> QED BY <1>1, LeastNatural
<1>3. k # 1 /\ k - 1 \in 1..n - 1 /\ (k - 1) + 1 = k /\ ~ (k <= k - 1) /\ k - 1 \in 1..n
  BY <1>2
<1>4. k - 1 \in G
  BY <1>2, <1>3
<1>5. k \in G
  BY <1>3, <1>4
<1> QED BY <1>2, <1>5

(* The edges of a polygon that are met, from vertex lo to vertex hi.       *)
Chain(s, p, lo, hi) == {i \in (lo + 1)..hi : Crosses(p, s[i], s[i - 1])}
Met(p, a, b) == IF Crosses(p, a, b) THEN 1 ELSE 0
Turns(s, p, lo, hi) == Parity(Chain(s, p, lo, hi))

(* A stretch of edges is met finitely often.                               *)
LEMMA ChainFinite ==
    ASSUME NEW s, NEW p, NEW lo \in Int, NEW hi \in Int
    PROVE  /\ IsFiniteSet(Chain(s, p, lo, hi))
           /\ Turns(s, p, lo, hi) \in {0, 1}
<1>1. IsFiniteSet((lo + 1)..hi)
  BY FS_Interval
<1>2. Chain(s, p, lo, hi) \subseteq (lo + 1)..hi
  BY DEF Chain
<1>3. IsFiniteSet(Chain(s, p, lo, hi))
  BY <1>1, <1>2, FS_Subset
<1> QED BY <1>3, ParityType DEF Turns

(* Two stretches that follow each other.                                   *)
LEMMA ChainSplit ==
    ASSUME NEW s, NEW p, NEW lo \in Int, NEW mid \in Int, NEW hi \in Int,
           lo <= mid, mid <= hi
    PROVE  Turns(s, p, lo, hi) = Xor(Turns(s, p, lo, mid), Turns(s, p, mid, hi))
<1>1. /\ Chain(s, p, lo, hi) = Chain(s, p, lo, mid) \cup Chain(s, p, mid, hi)
      /\ Chain(s, p, lo, mid) \cap Chain(s, p, mid, hi) = {}
  BY DEF Chain
<1> QED BY <1>1, ChainFinite, ParityUnion DEF Turns

(* The parities of the smallest sets.                                      *)
LEMMA ParitySmall ==
    /\ Parity({}) = 0
    /\ \A x : Parity({x}) = 1
<1>1. Cardinality({}) = 0 /\ \A x : Cardinality({x}) = 1
  BY FS_EmptySet, FS_Singleton
<1>2. 0 % 2 = 0 /\ 1 % 2 = 1
  OBVIOUS
<1> QED BY <1>1, <1>2 DEF Parity

(* No edge, and one edge.                                                  *)
LEMMA ChainSmall ==
    ASSUME NEW s, NEW p, NEW k \in Int
    PROVE  /\ Turns(s, p, k, k) = 0
           /\ Turns(s, p, k, k + 1) = Met(p, s[k + 1], s[k])
<1>1. Chain(s, p, k, k) = {}
  BY DEF Chain
<1>2. Chain(s, p, k, k + 1) = IF Crosses(p, s[k + 1], s[k]) THEN {k + 1} ELSE {}
  <2>1. (k + 1)..(k + 1) = {k + 1} /\ (k + 1) - 1 = k
    OBVIOUS
  <2> QED BY <2>1 DEF Chain
<1> QED BY <1>1, <1>2, ParitySmall DEF Turns, Met

(* Two stretches with the same vertices, k positions apart, are met as     *)
(* often.                                                                  *)
Moved(s, t, lo, hi, k) ==
    /\ lo \in Int /\ hi \in Int /\ k \in Int
    /\ \A i \in lo..hi : t[i + k] = s[i]

LEMMA ChainMoved ==
    ASSUME NEW s, NEW t, NEW p, NEW lo, NEW hi, NEW k, Moved(s, t, lo, hi, k)
    PROVE  Turns(t, p, lo + k, hi + k) = Turns(s, p, lo, hi)
<1>0. lo \in Int /\ hi \in Int /\ k \in Int
  BY DEF Moved
<1> DEFINE S == Chain(s, p, lo, hi)
           T == Chain(t, p, lo + k, hi + k)
<1>1. S \subseteq Int /\ T \subseteq Int
  BY <1>0 DEF Chain
<1>2. ASSUME NEW i \in Int PROVE i \in S <=> i + k \in T
  <2>1. i \in (lo + 1)..hi <=> i + k \in ((lo + k) + 1)..(hi + k)
    BY <1>0
  <2>2. CASE i \in (lo + 1)..hi
    <3>1. i \in lo..hi /\ i - 1 \in lo..hi /\ (i - 1) + k = (i + k) - 1
      BY <1>0, <2>2
    <3>2. t[i + k] = s[i] /\ t[(i + k) - 1] = s[i - 1]
      BY <3>1 DEF Moved
    <3> QED BY <2>1, <2>2, <3>2 DEF Chain
  <2>3. CASE i \notin (lo + 1)..hi
    BY <2>1, <2>3 DEF Chain
  <2> QED BY <2>2, <2>3
<1>3. IsFiniteSet(S)
  BY <1>0, ChainFinite
<1> HIDE DEF S, T
<1>4. Parity(T) = Parity(S)
  BY <1>0, <1>1, <1>2, <1>3, ParityShift
<1> QED BY <1>4 DEF S, T, Turns

(* Ray casting adds the closing edge to the edges between the vertices.    *)
LEMMA CastParity ==
    ASSUME NEW s \in Seq(Position), NEW p, Len(s) >= 3
    PROVE  PointInPolygon(p, s) <=> Turns(s, p, 1, Len(s)) # Met(p, s[1], s[Len(s)])
<1> DEFINE n == Len(s)
           E == {i \in DOMAIN s : Crosses(p, s[i], Before(s, i))}
           C == IF Crosses(p, s[1], s[n]) THEN {1} ELSE {}
<1>1. n \in Nat /\ DOMAIN s = 1..n
  BY LenProperties
<1>2. E = Chain(s, p, 1, n) \cup C
  <2>1. \A i \in 1..n : Before(s, i) = IF i = 1 THEN s[n] ELSE s[i - 1]
    BY DEF Before
  <2>2. \A i : i \in 1..n <=> i = 1 \/ i \in (1 + 1)..n
    BY <1>1
  <2>3. 1 \notin (1 + 1)..n
    BY <1>1
  <2> HIDE DEF n
  <2> QED BY <1>1, <2>1, <2>2, <2>3 DEF Chain
<1>3. Chain(s, p, 1, n) \cap C = {}
  BY <1>1 DEF Chain
<1>4. IsFiniteSet(C) /\ Parity(C) = Met(p, s[1], s[n])
  BY ParitySmall, FS_EmptySet, FS_Singleton DEF Met
<1>5. IsFiniteSet(Chain(s, p, 1, n))
  BY <1>1, ChainFinite
<1>6. Parity(E) = Xor(Turns(s, p, 1, n), Met(p, s[1], s[n]))
  <2> HIDE DEF E, C
  <2> QED BY <1>2, <1>3, <1>4, <1>5, ParityUnion DEF Turns
<1>7. PointInPolygon(p, s) <=> Parity(E) = 1
  BY DEF PointInPolygon, Parity
<1> QED BY <1>6, <1>7 DEF Xor

(* A non-empty range of whole numbers has a greatest and a least element.  *)
LEMMA Extremes ==
    ASSUME NEW n \in Nat, n >= 1, NEW f, \A i \in 1..n : f[i] \in Int,
           NEW S, S = {f[i] : i \in 1..n}
    PROVE  /\ Max(S) \in S /\ \A x \in S : x <= Max(S)
           /\ Min(S) \in S /\ \A x \in S : Min(S) <= x
<1> DEFINE G == {k \in Nat : /\ \E i \in 1..k : \A j \in 1..k : f[j] <= f[i]
                             /\ \E i \in 1..k : \A j \in 1..k : f[i] <= f[j]}
<1>1. 1 \in G
  BY 1 \in 1..1, 1..1 = {1}
<1>2. ASSUME NEW k \in 1..n - 1, k \in G PROVE k + 1 \in G
  <2>1. k + 1 \in Nat /\ k + 1 \in 1..k + 1 /\ 1..k + 1 = 1..k \cup {k + 1} /\ 1..k + 1 \subseteq 1..n
    OBVIOUS
  <2>2. PICK i \in 1..k : \A j \in 1..k : f[j] <= f[i]
    BY <1>2
  <2>3. PICK m \in 1..k : \A j \in 1..k : f[m] <= f[j]
    BY <1>2
  <2>4. /\ i \in 1..k + 1 /\ m \in 1..k + 1
        /\ f[i] \in Int /\ f[m] \in Int /\ f[k + 1] \in Int /\ \A j \in 1..k : f[j] \in Int
    BY <2>1
  <2>5. \E h \in 1..k + 1 : \A j \in 1..k + 1 : f[j] <= f[h]
    <3>1. CASE f[k + 1] <= f[i]
      BY <2>1, <2>2, <2>4, <3>1
    <3>2. CASE ~ (f[k + 1] <= f[i])
      BY <2>1, <2>2, <2>4, <3>2
    <3> QED BY <3>1, <3>2
  <2>6. \E h \in 1..k + 1 : \A j \in 1..k + 1 : f[h] <= f[j]
    <3>1. CASE f[m] <= f[k + 1]
      BY <2>1, <2>3, <2>4, <3>1
    <3>2. CASE ~ (f[m] <= f[k + 1])
      BY <2>1, <2>3, <2>4, <3>2
    <3> QED BY <3>1, <3>2
  <2> QED BY <2>1, <2>5, <2>6
<1>3. n \in G
  <2> HIDE DEF G
  <2>1. 1..n \subseteq G
    BY <1>1, <1>2, NaturalInduction
  <2> QED BY <2>1
<1>4. \E x \in S : \A y \in S : x >= y
  BY <1>3
<1>5. \E x \in S : \A y \in S : x <= y
  BY <1>3
<1>6. Max(S) \in S /\ \A y \in S : Max(S) >= y
  BY <1>4, Zenon DEF Max
<1>7. Min(S) \in S /\ \A y \in S : Min(S) <= y
  BY <1>5, Zenon DEF Min
<1>8. \A x \in S : x \in Int
  OBVIOUS
<1> QED BY <1>6, <1>7, <1>8

(* A position outside the box is past all vertices on one side.            *)
LEMMA OutsideBox ==
    ASSUME NEW s \in Seq(Position), Len(s) >= 1, NEW p \in Position,
           ~ InBox(p, ComputeAABB(s))
    PROVE  \/ \A i \in 1..Len(s) : Lat(s[i]) < Lat(p)
           \/ \A i \in 1..Len(s) : Lat(p) < Lat(s[i])
           \/ \A i \in 1..Len(s) : Lon(s[i]) < Lon(p)
           \/ \A i \in 1..Len(s) : Lon(p) < Lon(s[i])
<1> DEFINE n == Len(s)
           box == ComputeAABB(s)
           lat == [i \in 1..n |-> Lat(s[i])]
           lon == [i \in 1..n |-> Lon(s[i])]
           LatS == {Lat(v) : v \in ToSet(s)}
           LonS == {Lon(v) : v \in ToSet(s)}
<1>1. n \in Nat /\ n >= 1 /\ DOMAIN s = 1..n /\ \A i \in 1..n : s[i] \in Position
  BY LenProperties, ElementOfSeq
<1>2. \A i \in 1..n : Lat(s[i]) \in Int /\ Lon(s[i]) \in Int
  BY <1>1, Coordinates
<1>3. /\ \A i \in 1..n : lat[i] = Lat(s[i]) /\ lat[i] \in Int
      /\ \A i \in 1..n : lon[i] = Lon(s[i]) /\ lon[i] \in Int
  BY <1>2
<1>4. ToSet(s) = {s[i] : i \in 1..n}
  BY <1>1 DEF ToSet
<1>5. LatS = {lat[i] : i \in 1..n} /\ LonS = {lon[i] : i \in 1..n}
  BY <1>3, <1>4
<1>6. /\ box.MinLat = Min(LatS) /\ box.MaxLat = Max(LatS)
      /\ box.MinLon = Min(LonS) /\ box.MaxLon = Max(LonS)
  BY DEF ComputeAABB
<1>7. ~ (/\ Lat(p) \in box.MinLat .. box.MaxLat
         /\ Lon(p) \in box.MinLon .. box.MaxLon)
  BY DEF InBox
<1> HIDE DEF n, box, lat, lon, LatS, LonS
<1>8. /\ Max(LatS) \in LatS /\ \A x \in LatS : x <= Max(LatS)
      /\ Min(LatS) \in LatS /\ \A x \in LatS : Min(LatS) <= x
  BY <1>1, <1>3, <1>5, Extremes
<1>9. /\ Max(LonS) \in LonS /\ \A x \in LonS : x <= Max(LonS)
      /\ Min(LonS) \in LonS /\ \A x \in LonS : Min(LonS) <= x
  BY <1>1, <1>3, <1>5, Extremes
<1>10. /\ \A i \in 1..n : Lat(s[i]) \in LatS /\ Lon(s[i]) \in LonS
       /\ LatS \subseteq Int /\ LonS \subseteq Int
  BY <1>3, <1>5
<1>11. Lat(p) \in Int /\ Lon(p) \in Int
  BY Coordinates
<1>12. ~ (Lat(p) \in box.MinLat .. box.MaxLat)
         => \/ \A i \in 1..n : Lat(s[i]) < Lat(p)
            \/ \A i \in 1..n : Lat(p) < Lat(s[i])
  <2>1. Min(LatS) \in Int /\ Max(LatS) \in Int
    BY <1>8, <1>10
  <2>2. ~ (Lat(p) \in box.MinLat .. box.MaxLat) => Lat(p) < Min(LatS) \/ Max(LatS) < Lat(p)
    BY <1>6, <1>11, <2>1
  <2>3. Lat(p) < Min(LatS) => \A i \in 1..n : Lat(p) < Lat(s[i])
    BY <1>2, <1>8, <1>10, <1>11, <2>1
  <2>4. Max(LatS) < Lat(p) => \A i \in 1..n : Lat(s[i]) < Lat(p)
    BY <1>2, <1>8, <1>10, <1>11, <2>1
  <2> QED BY <2>2, <2>3, <2>4
<1>13. ~ (Lon(p) \in box.MinLon .. box.MaxLon)
         => \/ \A i \in 1..n : Lon(s[i]) < Lon(p)
            \/ \A i \in 1..n : Lon(p) < Lon(s[i])
  <2>1. Min(LonS) \in Int /\ Max(LonS) \in Int
    BY <1>9, <1>10
  <2>2. ~ (Lon(p) \in box.MinLon .. box.MaxLon) => Lon(p) < Min(LonS) \/ Max(LonS) < Lon(p)
    BY <1>6, <1>11, <2>1
  <2>3. Lon(p) < Min(LonS) => \A i \in 1..n : Lon(p) < Lon(s[i])
    BY <1>2, <1>9, <1>10, <1>11, <2>1
  <2>4. Max(LonS) < Lon(p) => \A i \in 1..n : Lon(s[i]) < Lon(p)
    BY <1>2, <1>9, <1>10, <1>11, <2>1
  <2> QED BY <2>2, <2>3, <2>4
<1> QED BY <1>7, <1>12, <1>13 DEF n

(* West of every vertex the ray meets the edges that reach across its      *)
(* latitude: an odd number of them on the way from one side to the other.  *)
LEMMA WestParity ==
    ASSUME NEW s \in Seq(Position), NEW p \in Position, NEW n \in Nat, n = Len(s), n >= 1,
           \A i \in 1..n : Lon(p) < Lon(s[i])
    PROVE  Turns(s, p, 1, n) = Met(p, s[1], s[n])
<1> DEFINE up == [i \in 1..n |-> IF Lat(p) < Lat(s[i]) THEN 1 ELSE 0]
           G == {k \in Nat : Turns(s, p, 1, k) = Xor(up[1], up[k])}
<1>1. \A i \in 1..n : s[i] \in Position
  BY ElementOfSeq
<1>2. \A i \in 1..n : up[i] \in {0, 1} /\ (up[i] = 1 <=> Lat(p) < Lat(s[i]))
  OBVIOUS
<1> HIDE DEF up
<1>3. \A i, j \in 1..n : Met(p, s[i], s[j]) = Xor(up[i], up[j])
  BY <1>1, <1>2, CrossesFar DEF Met, Xor
<1>4. 1 \in G
  BY ChainSmall DEF Xor
<1>5. ASSUME NEW k \in 1..n - 1, k \in G PROVE k + 1 \in G
  <2>1. 1 \in 1..n /\ k \in 1..n /\ k + 1 \in 1..n /\ k \in Int /\ k + 1 \in Nat /\ 1 <= k /\ k <= k + 1
    OBVIOUS
  <2>2. Turns(s, p, 1, k) = Xor(up[1], up[k])
    BY <1>5
  <2>3. Turns(s, p, k, k + 1) = Xor(up[k + 1], up[k])
    BY <1>3, <2>1, ChainSmall, ZenonT(40)
  <2>4. Turns(s, p, 1, k + 1) = Xor(Turns(s, p, 1, k), Turns(s, p, k, k + 1))
    BY <2>1, ChainSplit
  <2>5. Turns(s, p, 1, k + 1) = Xor(up[1], up[k + 1])
    BY <1>2, <2>1, <2>2, <2>3, <2>4 DEF Xor
  <2> QED BY <2>1, <2>5
<1>6. n \in G
  <2> HIDE DEF G
  <2>1. 1..n \subseteq G
    BY <1>4, <1>5, NaturalInduction
  <2> QED BY <2>1
<1> QED BY <1>3, <1>6

(* The box hides nothing that ray casting finds.                           *)
LEMMA InsideIsInBox ==
    ASSUME NEW s \in Seq(Position), NEW p \in Position, PointInPolygon(p, s)
    PROVE  InBox(p, ComputeAABB(s))
<1> DEFINE n == Len(s)
<1>1. n \in Nat /\ n >= 3 /\ \A i \in 1..n : s[i] \in Position
  BY LenProperties, ElementOfSeq DEF PointInPolygon
<1>2. Turns(s, p, 1, n) # Met(p, s[1], s[n])
  BY <1>1, CastParity
<1>3. SUFFICES ASSUME ~ InBox(p, ComputeAABB(s)) PROVE FALSE
  OBVIOUS
<1>4. \/ \A i \in 1..n : Lat(s[i]) < Lat(p)
      \/ \A i \in 1..n : Lat(p) < Lat(s[i])
      \/ \A i \in 1..n : Lon(s[i]) < Lon(p)
      \/ \A i \in 1..n : Lon(p) < Lon(s[i])
  BY <1>1, <1>3, OutsideBox
<1> HIDE DEF n
<1>5. CASE \A i, j \in 1..n : ~ Crosses(p, s[i], s[j])
  <2>1. Met(p, s[1], s[n]) = 0
    BY <1>1, <1>5 DEF Met
  <2>2. \A i \in (1 + 1)..n : i \in 1..n /\ i - 1 \in 1..n
    BY <1>1
  <2>3. Chain(s, p, 1, n) = {}
    BY <1>5, <2>2 DEF Chain
  <2> QED BY <1>2, <2>1, <2>3, ParitySmall DEF Turns
<1>6. Lat(p) \in Int /\ \A i \in 1..n : Lat(s[i]) \in Int
  BY <1>1, Coordinates
<1>7. CASE \A i \in 1..n : Lat(s[i]) < Lat(p)
  BY <1>1, <1>5, <1>6, <1>7, CrossesSide
<1>8. CASE \A i \in 1..n : Lat(p) < Lat(s[i])
  BY <1>1, <1>5, <1>6, <1>8, CrossesSide
<1>9. CASE \A i \in 1..n : Lon(s[i]) < Lon(p)
  BY <1>1, <1>5, <1>9, CrossesFar
<1>10. CASE \A i \in 1..n : Lon(p) < Lon(s[i])
  <2>1. n = Len(s) /\ n >= 1
    BY <1>1 DEF n
  <2> QED BY <1>1, <1>2, <1>10, <2>1, WestParity
<1> QED BY <1>4, <1>7, <1>8, <1>9, <1>10

(* Covers is ray casting alone.                                            *)
LEMMA CoversCast ==
    ASSUME NEW s \in Seq(Position), NEW p \in Position
    PROVE  Covers(s, p) <=> PointInPolygon(p, s)
<1>1. PointInPolygon(p, s) => s # << >>
  BY EmptySeq DEF PointInPolygon
<1> QED BY <1>1, InsideIsInBox DEF Covers

(* The vertices of the two parts of a cut.                                 *)
LEMMA CutOffVertices ==
    ASSUME NEW s \in Seq(Position), NEW i \in 1..Len(s), NEW j \in 1..Len(s), i < j
    PROVE  /\ CutOff(s, i, j) \in Seq(Position)
           /\ Len(CutOff(s, i, j)) = j - i + 1
           /\ \A k \in 1..j - i + 1 : CutOff(s, i, j)[k] = s[i + k - 1]
<1>1. Len(s) \in Nat /\ \A k \in i..j : s[k] \in Position
  BY LenProperties, ElementOfSeq
<1> QED BY <1>1, SubSeqProperties DEF CutOff

LEMMA RemainderVertices ==
    ASSUME NEW s \in Seq(Position), NEW i \in 1..Len(s), NEW j \in 1..Len(s), i < j
    PROVE  /\ Remainder(s, i, j) \in Seq(Position)
           /\ Len(Remainder(s, i, j)) = i + Len(s) - j + 1
           /\ \A k \in 1..i : Remainder(s, i, j)[k] = s[k]
           /\ \A k \in j..Len(s) : Remainder(s, i, j)[k + (i + 1 - j)] = s[k]
<1> DEFINE n == Len(s)
           a == SubSeq(s, 1, i)
           b == SubSeq(s, j, n)
           r == Remainder(s, i, j)
<1>1. n \in Nat /\ i \in 1..n /\ j \in 1..n /\ \A k \in 1..n : s[k] \in Position
  BY LenProperties, ElementOfSeq
<1>2. /\ a \in Seq(Position) /\ Len(a) = i
      /\ \A k \in 1..i : a[k] = s[k]
  <2>1. \A k \in 1..i : s[k] \in Position
    BY <1>1
  <2> HIDE DEF a
  <2>2. /\ a \in Seq(Position)
        /\ Len(a) = IF 1 <= i THEN i - 1 + 1 ELSE 0
        /\ \A k \in 1..(i - 1 + 1) : a[k] = s[1 + k - 1]
    BY <2>1, <1>1, SubSeqProperties DEF a
  <2> QED BY <2>2, <1>1
<1>3. /\ b \in Seq(Position) /\ Len(b) = n - j + 1
      /\ \A k \in 1..(n - j + 1) : b[k] = s[j + k - 1]
  <2>1. \A k \in j..n : s[k] \in Position
    BY <1>1
  <2> HIDE DEF b
  <2>2. /\ b \in Seq(Position)
        /\ Len(b) = IF j <= n THEN n - j + 1 ELSE 0
        /\ \A k \in 1..(n - j + 1) : b[k] = s[j + k - 1]
    BY <2>1, <1>1, SubSeqProperties DEF b
  <2> QED BY <2>2, <1>1
<1>4. r = a \o b
  BY DEF Remainder
<1> HIDE DEF a, b, n, r
<1>5. /\ r \in Seq(Position)
      /\ Len(r) = Len(a) + Len(b)
      /\ \A k \in 1..(Len(a) + Len(b)) : r[k] = IF k <= Len(a) THEN a[k] ELSE b[k - Len(a)]
  BY <1>2, <1>3, <1>4, ConcatProperties
<1>6. Len(r) = i + n - j + 1
  BY <1>1, <1>2, <1>3, <1>5
<1>7. ASSUME NEW k \in 1..i PROVE r[k] = s[k]
  BY <1>1, <1>2, <1>3, <1>5
<1>8. ASSUME NEW k \in j..n PROVE r[k + (i + 1 - j)] = s[k]
  <2>1. /\ k + (i + 1 - j) \in 1..(Len(a) + Len(b))
        /\ ~ (k + (i + 1 - j) <= Len(a))
        /\ (k + (i + 1 - j)) - Len(a) = k - j + 1
        /\ k - j + 1 \in 1..(n - j + 1)
        /\ j + (k - j + 1) - 1 = k
    BY <1>1, <1>2, <1>3
  <2>2. r[k + (i + 1 - j)] = b[k - j + 1]
    BY <1>5, <2>1
  <2> QED BY <1>3, <2>1, <2>2
<1> QED BY <1>5, <1>6, <1>7, <1>8 DEF n, r

(* The m vertices c and the l vertices r are s cut from i to j.            *)
Cutting(s, c, r, n, i, j, m, l) ==
    /\ n \in Int /\ i \in Int /\ j \in Int /\ m \in Int /\ l \in Int
    /\ 1 <= i /\ i < j /\ j <= n /\ m = j - i + 1 /\ l = i + n - j + 1
    /\ \A k \in 1..m : c[k] = s[i + k - 1]
    /\ \A k \in 1..i : r[k] = s[k]
    /\ \A k \in j..n : r[k + (i + 1 - j)] = s[k]

(* The parities of the parts: A and C are met outside the cut, B inside.   *)
CutParts(s, c, r, p, n, i, j, m, l) ==
    \E A, B, C \in {0, 1} :
      /\ Turns(s, p, 1, n) = Xor(A, Xor(B, C))
      /\ Turns(c, p, 1, m) = B
      /\ Turns(r, p, 1, l) = Xor(A, Xor(Met(p, s[j], s[i]), C))
      /\ c[1] = s[i] /\ c[m] = s[j] /\ r[1] = s[1] /\ r[l] = s[n]

(* A cut adds the same edge to both parts.                                 *)
LEMMA CutTurns ==
    ASSUME NEW s, NEW c, NEW r, NEW p, NEW n, NEW i, NEW j, NEW m, NEW l,
           Cutting(s, c, r, n, i, j, m, l)
    PROVE  CutParts(s, c, r, p, n, i, j, m, l)
<1> DEFINE one == 1
           A == Turns(s, p, one, i)
           B == Turns(s, p, i, j)
           C == Turns(s, p, j, n)
           cut == Met(p, s[j], s[i])
           d == one - i
           e == i + 1 - j
<1>0. /\ n \in Int /\ i \in Int /\ j \in Int /\ m \in Int /\ l \in Int
      /\ 1 <= i /\ i < j /\ j <= n /\ m = j - i + 1 /\ l = i + n - j + 1
  BY DEF Cutting
<1>1. /\ one \in Int /\ one <= i /\ i <= j /\ i + 1 \in Int /\ i <= i + 1 /\ i + 1 <= l /\ i <= l
      /\ d \in Int /\ i + d = one /\ j + d = m
      /\ e \in Int /\ j + e = i + 1 /\ n + e = l
      /\ one \in 1..i /\ i \in 1..i /\ j \in j..n /\ n \in j..n
      /\ one \in 1..m /\ m \in 1..m /\ i + one - 1 = i /\ i + m - 1 = j
  BY <1>0
<1>2. \A k \in i..j : k + d \in 1..m /\ i + (k + d) - 1 = k
  BY <1>0
<1>3. \A k \in j..n : r[k + e] = s[k]
  BY DEF Cutting
<1>4. \A k \in one..i : r[k] = s[k]
  BY DEF Cutting
<1>5. one = 1
  OBVIOUS
<1> HIDE DEF one, d, e
<1>6. A \in {0, 1} /\ B \in {0, 1} /\ C \in {0, 1}
  BY <1>0, <1>1, ChainFinite
<1>7. Turns(s, p, one, n) = Xor(A, Xor(B, C))
  <2>1. Turns(s, p, one, n) = Xor(A, Turns(s, p, i, n))
    <3>1. i <= n
      BY <1>1
    <3> QED BY <1>0, <1>1, <3>1, ChainSplit
  <2>2. Turns(s, p, i, n) = Xor(B, C)
    BY <1>0, <1>1, ChainSplit
  <2> QED BY <2>1, <2>2
<1>8. Turns(c, p, one, m) = B
  <2>1. \A k \in i..j : c[k + d] = s[k]
    BY <1>2 DEF Cutting
  <2>2. d \in Int /\ i \in Int /\ j \in Int
    BY <1>0, <1>1
  <2>3. Moved(s, c, i, j, d)
    BY <2>1, <2>2 DEF Moved
  <2>4. Turns(c, p, i + d, j + d) = B
    BY <2>3, ChainMoved
  <2> QED BY <1>1, <2>4
<1>9. Turns(r, p, i + 1, l) = C
  <2>1. Moved(s, r, j, n, e)
    BY <1>0, <1>1, <1>3 DEF Moved
  <2>2. Turns(r, p, j + e, n + e) = C
    BY <2>1, ChainMoved
  <2> QED BY <1>1, <2>2
<1>10. Turns(r, p, one, i) = A
  <2> DEFINE z == 0
  <2>1. z \in Int /\ one + z = one /\ i + z = i /\ \A k \in one..i : k + z = k
    BY <1>1
  <2> HIDE DEF z
  <2>2. \A k \in one..i : r[k + z] = s[k]
    BY <1>4, <2>1
  <2>3. one \in Int /\ z \in Int /\ i \in Int
    BY <1>0, <1>1, <2>1
  <2>4. Moved(s, r, one, i, z)
    BY <2>2, <2>3 DEF Moved
  <2>5. Turns(r, p, one + z, i + z) = A
    BY <2>4, ChainMoved
  <2> QED BY <2>1, <2>5
<1>11. c[one] = s[i] /\ c[m] = s[j]
  BY <1>1 DEF Cutting
<1>12. r[one] = s[one] /\ r[i] = s[i]
  BY <1>1 DEF Cutting
<1>13. r[i + 1] = s[j] /\ r[l] = s[n]
  <2>1. r[j + e] = s[j] /\ r[n + e] = s[n]
    BY <1>1, <1>3
  <2> QED BY <1>1, <2>1
<1>14. Turns(r, p, i, i + 1) = cut
  BY <1>0, <1>12, <1>13, ChainSmall
<1>15. Turns(r, p, one, l) = Xor(A, Xor(cut, C))
  <2>1. Turns(r, p, one, l) = Xor(Turns(r, p, one, i), Turns(r, p, i, l))
    BY <1>0, <1>1, ChainSplit
  <2>2. Turns(r, p, i, l) = Xor(Turns(r, p, i, i + 1), Turns(r, p, i + 1, l))
    BY <1>0, <1>1, ChainSplit
  <2> QED BY <1>9, <1>10, <1>14, <2>1, <2>2
<1> HIDE DEF A, B, C
<1> QED BY <1>5, <1>6, <1>7, <1>8, <1>11, <1>12, <1>13, <1>15 DEF CutParts

(* A position is inside a polygon iff it is inside exactly one of the two  *)
(* parts a cut leaves.                                                     *)
LEMMA CutCovers ==
    ASSUME NEW s \in Seq(Position), NEW p \in Position,
           NEW i \in DOMAIN s, NEW j \in DOMAIN s, i + 1 < j, j - i < Len(s) - 1
    PROVE  Covers(s, p) <=> Covers(CutOff(s, i, j), p) # Covers(Remainder(s, i, j), p)
<1> DEFINE n == Len(s)
           m == j - i + 1
           l == i + n - j + 1
           c == CutOff(s, i, j)
           r == Remainder(s, i, j)
<1>1. /\ n \in Nat /\ DOMAIN s = 1..n
      /\ \A k \in 1..n : s[k] \in Position
  BY LenProperties, ElementOfSeq
<1>2. /\ i \in 1..n /\ j \in 1..n /\ i \in Int /\ j \in Int /\ 1 <= i /\ i < j /\ j <= n
      /\ j - i < n - 1
  BY <1>1
<1> HIDE DEF n
<1>3. n \in Int /\ m \in Int /\ l \in Int /\ n >= 3 /\ m >= 3 /\ l >= 3
  BY <1>1, <1>2
<1>4. /\ c \in Seq(Position) /\ Len(c) = m
      /\ \A k \in 1..m : c[k] = s[i + k - 1]
  BY <1>2, CutOffVertices DEF n
<1>5. /\ r \in Seq(Position) /\ Len(r) = l
      /\ \A k \in 1..i : r[k] = s[k]
      /\ \A k \in j..n : r[k + (i + 1 - j)] = s[k]
  BY <1>2, RemainderVertices DEF n
<1>6. m = j - i + 1 /\ l = i + n - j + 1
  OBVIOUS
<1> HIDE DEF m, l, c, r
<1> DEFINE cut == Met(p, s[j], s[i])
           back == Met(p, s[1], s[n])
<1>7. PICK A, B, C \in {0, 1} :
             /\ Turns(s, p, 1, n) = Xor(A, Xor(B, C))
             /\ Turns(c, p, 1, m) = B
             /\ Turns(r, p, 1, l) = Xor(A, Xor(cut, C))
             /\ c[1] = s[i] /\ c[m] = s[j] /\ r[1] = s[1] /\ r[l] = s[n]
  <2>1. Cutting(s, c, r, n, i, j, m, l)
    BY <1>2, <1>3, <1>4, <1>5, <1>6 DEF Cutting
  <2> HIDE DEF cut, back
  <2>2. \E A, B, C \in {0, 1} :
             /\ Turns(s, p, 1, n) = Xor(A, Xor(B, C))
             /\ Turns(c, p, 1, m) = B
             /\ Turns(r, p, 1, l) = Xor(A, Xor(Met(p, s[j], s[i]), C))
             /\ c[1] = s[i] /\ c[m] = s[j] /\ r[1] = s[1] /\ r[l] = s[n]
    <3>1. CutParts(s, c, r, p, n, i, j, m, l)
      BY <2>1, CutTurns
    <3> QED BY <3>1 DEF CutParts
  <2> QED BY <2>2 DEF cut
<1>8. /\ cut \in {0, 1} /\ back \in {0, 1} /\ Met(p, s[i], s[j]) = cut
  BY <1>1, <1>2, CrossesSymmetric DEF Met
<1>9. Covers(s, p) <=> Xor(A, Xor(B, C)) # back
  BY <1>3, <1>7, CastParity, CoversCast DEF n
<1>10. Covers(c, p) <=> B # cut
  BY <1>3, <1>4, <1>7, <1>8, CastParity, CoversCast
<1>11. Covers(r, p) <=> Xor(A, Xor(cut, C)) # back
  BY <1>3, <1>5, <1>7, CastParity, CoversCast
<1> HIDE DEF cut, back
<1>12. Xor(A, Xor(B, C)) # back <=> ((B # cut) # (Xor(A, Xor(cut, C)) # back))
  BY <1>8 DEF Xor
<1>13. Covers(s, p) <=> Covers(c, p) # Covers(r, p)
  BY <1>9, <1>10, <1>11, <1>12 DEF Covers
<1> QED BY <1>13 DEF c, r

(* Ray casting turns with the triangles from the first vertex.             *)
LEMMA FanParity ==
    ASSUME NEW s \in Seq(Position), NEW p \in Position, Len(s) >= 3, OffLines(p, s)
    PROVE  PointInPolygon(p, s) <=> InArea(p, s)
<1> DEFINE n == Len(s)
           Fan(k) == {i \in 2..k - 1 : InTriangle(p, s[1], s[i], s[i + 1])}
           G == {k \in Nat : 2 <= k => /\ IsFiniteSet(Fan(k))
                                       /\ Parity(Fan(k)) = Xor(Turns(s, p, 1, k), Met(p, s[1], s[k]))}
<1>1. n \in Nat /\ n >= 3 /\ DOMAIN s = 1..n /\ \A k \in 1..n : s[k] \in Position
  BY LenProperties, ElementOfSeq
<1>2. \A i, j \in 1..n : Met(p, s[i], s[j]) \in {0, 1} /\ Met(p, s[i], s[j]) = Met(p, s[j], s[i])
  BY <1>1, CrossesSymmetric DEF Met
<1>3. \A i, j \in 1..n : s[i] # s[j] => Side(p, s[i], s[j]) # 0
  BY <1>1 DEF OffLines, ToSet
<1>4. 1 \in G
  BY ~ (2 <= 1)
<1>5. ASSUME NEW k \in 1..n - 1, k \in G PROVE k + 1 \in G
  <2>1. 1 \in 1..n /\ k \in 1..n /\ k + 1 \in 1..n /\ k \in Int /\ k + 1 \in Nat /\ 1 <= k /\ k <= k + 1
    BY <1>1
  <2>2. CASE k = 1
    <3>1. Fan(2) = {}
      OBVIOUS
    <3> DEFINE one == 1
    <3>2. one \in Int /\ one + 1 = 2 /\ one = 1
      OBVIOUS
    <3>3. Turns(s, p, 1, 2) = Met(p, s[2], s[1])
      <4> HIDE DEF one
      <4>1. Turns(s, p, one, one + 1) = Met(p, s[one + 1], s[one])
        BY <3>2, ChainSmall
      <4> QED BY <3>2, <4>1
    <3>4. Met(p, s[2], s[1]) = Met(p, s[1], s[2])
      BY <1>1, <1>2
    <3>5. IsFiniteSet(Fan(2)) /\ Parity(Fan(2)) = Xor(Turns(s, p, 1, 2), Met(p, s[1], s[2]))
      BY <3>1, <3>3, <3>4, FS_EmptySet, ParitySmall DEF Xor
    <3> HIDE DEF Fan
    <3> QED BY <2>2, <3>5
  <2>3. CASE k # 1
    <3>1. 2 <= k
      BY <2>1, <2>3
    <3>2. /\ IsFiniteSet(Fan(k))
          /\ Parity(Fan(k)) = Xor(Turns(s, p, 1, k), Met(p, s[1], s[k]))
      BY <1>5, <3>1
    <3> DEFINE T == IF InTriangle(p, s[1], s[k], s[k + 1]) THEN {k} ELSE {}
    <3>3. Fan(k + 1) = Fan(k) \cup T /\ Fan(k) \cap T = {}
      BY <3>1
    <3>4. IsFiniteSet(T)
      BY FS_EmptySet, FS_Singleton
    <3>5. Parity(T) = Xor(Met(p, s[1], s[k]), Xor(Met(p, s[k + 1], s[k]), Met(p, s[1], s[k + 1])))
      <4>1. InTriangle(p, s[1], s[k], s[k + 1])
              <=> (Crosses(p, s[1], s[k]) <=> (Crosses(p, s[k], s[k + 1]) <=> Crosses(p, s[k + 1], s[1])))
        BY <1>1, <1>3, <2>1, TriangleParity
      <4>2. /\ Crosses(p, s[k], s[k + 1]) <=> Crosses(p, s[k + 1], s[k])
            /\ Crosses(p, s[k + 1], s[1]) <=> Crosses(p, s[1], s[k + 1])
        BY <1>1, <2>1, CrossesSymmetric
      <4> QED BY <4>1, <4>2, ParitySmall DEF Met, Xor
    <3>6. Turns(s, p, 1, k + 1) = Xor(Turns(s, p, 1, k), Met(p, s[k + 1], s[k]))
      <4>1. Turns(s, p, 1, k + 1) = Xor(Turns(s, p, 1, k), Turns(s, p, k, k + 1))
        BY <2>1, ChainSplit
      <4>2. Turns(s, p, k, k + 1) = Met(p, s[k + 1], s[k])
        BY <2>1, ChainSmall
      <4> QED BY <4>1, <4>2
    <3> HIDE DEF Fan, T
    <3>7. IsFiniteSet(Fan(k + 1)) /\ Parity(Fan(k + 1)) = Xor(Parity(Fan(k)), Parity(T))
      BY <3>2, <3>3, <3>4, ParityUnion
    <3>8. Turns(s, p, 1, k) \in {0, 1}
      BY <2>1, ChainFinite
    <3>9. /\ Met(p, s[1], s[k]) \in {0, 1} /\ Met(p, s[k + 1], s[k]) \in {0, 1}
          /\ Met(p, s[1], s[k + 1]) \in {0, 1}
      BY <1>2, <2>1
    <3>10. Parity(Fan(k + 1)) = Xor(Turns(s, p, 1, k + 1), Met(p, s[1], s[k + 1]))
      BY <3>2, <3>5, <3>6, <3>7, <3>8, <3>9 DEF Xor
    <3> QED BY <2>1, <3>7, <3>10
  <2> QED BY <2>2, <2>3
<1>6. n \in G
  <2> HIDE DEF G
  <2>1. 1..n \subseteq G
    BY <1>1, <1>4, <1>5, NaturalInduction
  <2> QED BY <1>1, <2>1
<1>7. Parity(Fan(n)) = Xor(Turns(s, p, 1, n), Met(p, s[1], s[n]))
  <2>1. 2 <= n
    BY <1>1
  <2> HIDE DEF Fan
  <2> QED BY <1>6, <2>1
<1>8. InArea(p, s) <=> Parity(Fan(n)) = 1
  BY DEF InArea, Parity
<1> HIDE DEF Fan
<1> QED BY <1>1, <1>7, <1>8, CastParity DEF Xor

(* Fewer than three vertices enclose nothing.                              *)
LEMMA FewVertices ==
    ASSUME NEW s \in Seq(Position), NEW p, ~ (Len(s) >= 3)
    PROVE  ~ InArea(p, s)
<1>1. 2..Len(s) - 1 = {}
  BY LenProperties
<1>2. {i \in 2..Len(s) - 1 : InTriangle(p, s[1], s[i], s[i + 1])} = {}
  BY <1>1
<1>3. Cardinality({}) % 2 # 1
  BY ParitySmall DEF Parity
<1> QED BY <1>2, <1>3 DEF InArea

-----------------------------------------------------------------------------
(* The zones stay a sequence of zones (geofencer.go 71-99).                *)
THEOREM TypeCorrect == Spec => []TypeOK
<1>1. Init => TypeOK
  BY ZoneFileAssumption, EmptySeq DEF Init, LoadFromFile, TypeOK
<1>2. TypeOK /\ [Next]_vars => TypeOK'
  BY PutType, WithoutType
     DEF TypeOK, Next, vars, RefuseZone, PostZone, AddZone, DeleteZone, RemoveZone, ListZones
<1> QED BY <1>1, <1>2, PTL DEF Spec

(* Zone ids stay unique if the zone file's are: AddZone and RemoveZone     *)
(* work on the first match only (geofencer.go 78-83, 92-97).               *)
THEOREM IdsStayUnique ==
    ASSUME \A f \in ZoneFile : UniqueIds(f)
    PROVE  Spec => []ZoneIdsUnique
<1>1. Init => ZoneIdsUnique
  <2>1. UniqueIds(<< >>)
    BY DEF UniqueIds
  <2> QED BY <2>1 DEF Init, LoadFromFile, ZoneIdsUnique
<1>2. TypeOK /\ ZoneIdsUnique /\ [Next]_vars => ZoneIdsUnique'
  BY PutEffect, WithoutEffect
     DEF TypeOK, ZoneIdsUnique, Next, vars, RefuseZone, PostZone, AddZone,
         DeleteZone, RemoveZone, ListZones
<1> QED BY <1>1, <1>2, TypeCorrect, PTL DEF Spec

(* A DELETE answered "deleted" leaves no zone with that id (geofencer.go   *)
(* 87-99 with api.go 155-167).                                             *)
THEOREM DeletedZonesAreGone ==
    ASSUME \A f \in ZoneFile : UniqueIds(f)
    PROVE  Spec => DeletedMeansGone
<1> DEFINE Gone == \A i \in DOMAIN zones' : zones'[i].id # reply'.id
<1>1. ASSUME TypeOK, ZoneIdsUnique, [Next]_vars, ~ UNCHANGED vars,
             reply'.op = "DELETE"
      PROVE  Gone
  <2>1. PICK id \in ZoneID : DeleteZone(id)
    <3>1. Next
      BY <1>1
    <3>2. RefuseZone => reply'.op = "POST"
      BY DEF RefuseZone
    <3>3. ListZones => reply'.op = "GET"
      BY DEF ListZones
    <3>4. \A z \in Zone : PostZone(z) => reply'.op = "POST"
      BY DEF PostZone
    <3>5. reply'.op # "POST" /\ reply'.op # "GET"
      BY <1>1
    <3> QED BY <3>1, <3>2, <3>3, <3>4, <3>5 DEF Next
  <2>2. zones' = Without(zones, id) /\ reply'.id = id
    BY <2>1 DEF DeleteZone, RemoveZone
  <2>3. /\ zones' \in Seq(Zone)
        /\ ToSet(zones') = {y \in ToSet(zones) : y.id # id}
    BY <1>1, <2>2, WithoutType, WithoutEffect DEF TypeOK, ZoneIdsUnique
  <2>4. \A i \in DOMAIN zones' : zones'[i] \in ToSet(zones')
    BY DEF ToSet
  <2> QED BY <2>2, <2>3, <2>4
<1>2. TypeOK /\ ZoneIdsUnique /\ [Next]_vars =>
        [ reply'.op = "DELETE" /\ reply'.status = "deleted" => Gone ]_vars
  BY <1>1
<1> QED BY <1>2, TypeCorrect, IdsStayUnique, PTL DEF Spec, DeletedMeansGone

-----------------------------------------------------------------------------
(* A zone's polygon is a sequence of positions.                            *)
LEMMA ZonePolygon ==
    ASSUME TypeOK, NEW z \in ToSet(zones)
    PROVE  z.polygon \in Seq(Position)
<1>1. z \in Zone
  BY ToSetElements, ElementOfSeq DEF TypeOK
<1> QED BY <1>1, PositionAssumption DEF Zone, Position

(* Off the lines its vertices span a position is reported inside a zone    *)
(* iff it is in an odd number of the triangles that fan out from the first *)
(* vertex: neither the box nor the closing edge changes the answer         *)
(* (geofencer.go 121-143, 179-204).                                        *)
THEOREM ChecksMatchAreasHolds == Spec => []ChecksMatchAreas
<1>1. TypeOK => ChecksMatchAreas
  <2>1. SUFFICES ASSUME TypeOK, NEW z \in ToSet(zones), NEW p \in Point,
                        OffLines(p, z.polygon)
                 PROVE  z \in Check(p) <=> InArea(p, z.polygon)
    BY DEF ChecksMatchAreas
  <2>2. z.polygon \in Seq(Position) /\ p \in Position
    BY <2>1, ZonePolygon, PositionAssumption DEF Position
  <2>3. z \in Check(p) <=> PointInPolygon(p, z.polygon)
    BY <2>2, CoversCast DEF Check
  <2>4. CASE Len(z.polygon) >= 3
    BY <2>1, <2>2, <2>3, <2>4, FanParity
  <2>5. CASE ~ (Len(z.polygon) >= 3)
    BY <2>2, <2>3, <2>5, FewVertices DEF PointInPolygon
  <2> QED BY <2>4, <2>5
<1> QED BY <1>1, TypeCorrect, PTL

(* A zone redrawn as two along a line between two of its vertices covers   *)
(* the same positions and none of them twice, on the border too: a vertex  *)
(* on the ray counts from one end of an edge only (geofencer.go 193-196).  *)
THEOREM CutsShareNoPositionHolds == Spec => []CutsShareNoPosition
<1>1. TypeOK => CutsShareNoPosition
  <2>1. SUFFICES ASSUME TypeOK, NEW z \in ToSet(zones), NEW p \in Point,
                        NEW i \in DOMAIN z.polygon, NEW j \in DOMAIN z.polygon,
                        i + 1 < j, j - i < Len(z.polygon) - 1
                 PROVE  z \in Check(p) <=> Covers(CutOff(z.polygon, i, j), p)
                                           # Covers(Remainder(z.polygon, i, j), p)
    BY DEF CutsShareNoPosition
  <2>2. z.polygon \in Seq(Position) /\ p \in Position
    BY <2>1, ZonePolygon, PositionAssumption DEF Position
  <2>3. z \in Check(p) <=> Covers(z.polygon, p)
    BY DEF Check
  <2> QED BY <2>1, <2>2, <2>3, CutCovers
<1> QED BY <1>1, TypeCorrect, PTL

-----------------------------------------------------------------------------
(* The initial zones are a table.                                          *)
LEMMA RegistryInit ==
    ASSUME \A f \in ZoneFile : UniqueIds(f), Init
    PROVE  Registry!Init
<1>1. zones \in Seq(Zone) /\ UniqueIds(zones)
  <2>1. UniqueIds(<< >>)
    BY DEF UniqueIds
  <2> QED BY <2>1, ZoneFileAssumption, EmptySeq DEF Init, LoadFromFile
<1>2. ToSet(zones) \subseteq Zone
  BY <1>1, ToSetElements, ElementOfSeq
<1>3. \A y, z \in ToSet(zones) : y.id = z.id => y = z
  BY <1>1 DEF ToSet, UniqueIds
<1>4. Listed(reply) = Registry!NoAnswer
  BY DEF Init, NoReply, Listed, Registry!NoAnswer
<1> QED BY <1>2, <1>3, <1>4 DEF Registry!Init

(* Every request is a request to the table.                                *)
LEMMA RegistryStep ==
    ASSUME TypeOK, ZoneIdsUnique, [Next]_vars
    PROVE  [Registry!Next]_(Registry!regVars)
<1>1. CASE RefuseZone
  BY <1>1 DEF RefuseZone, Listed, Registry!Next, Registry!Refuse
<1>2. ASSUME NEW z \in Zone, PostZone(z)
      PROVE  Registry!Next
  <2>1. ToSet(zones') = {y \in ToSet(zones) : y.id # z.id} \cup {z}
    BY <1>2, PutEffect DEF TypeOK, ZoneIdsUnique, PostZone, AddZone
  <2>2. ToSet(zones') = (ToSet(zones) \ Registry!WithId(z.id)) \cup {z}
    BY <2>1 DEF Registry!WithId
  <2>3. Registry!Post(z)
    BY <1>2, <2>2 DEF PostZone, Listed, Registry!Post
  <2> QED BY <2>3 DEF Registry!Next
<1>3. ASSUME NEW id \in ZoneID, DeleteZone(id)
      PROVE  Registry!Next
  <2>1. ToSet(zones') = {y \in ToSet(zones) : y.id # id}
    BY <1>3, WithoutEffect DEF TypeOK, ZoneIdsUnique, DeleteZone, RemoveZone
  <2>2. ToSet(zones') = ToSet(zones) \ Registry!WithId(id)
    BY <2>1 DEF Registry!WithId
  <2>3. IndicesOf(zones, id) = {} <=> Registry!WithId(id) = {}
    BY DEF IndicesOf, Registry!WithId, ToSet
  <2>4. Registry!Delete(id)
    BY <1>3, <2>2, <2>3 DEF DeleteZone, Listed, Registry!Delete
  <2> QED BY <2>4 DEF Registry!Next
<1>4. CASE ListZones
  BY <1>4 DEF ListZones, Listed, Registry!Next, Registry!List
<1>5. CASE UNCHANGED vars
  BY <1>5 DEF vars, Listed, Registry!regVars
<1> QED BY <1>1, <1>2, <1>3, <1>4, <1>5 DEF Next

(* The API implements the table of zones keyed by id, replies included, if *)
(* the zone file's ids are unique.                                         *)
THEOREM APIImplementsRegistry ==
    ASSUME \A f \in ZoneFile : UniqueIds(f)
    PROVE  Spec => ImplementsRegistry
<1>1. Init => Registry!Init
  BY RegistryInit
<1>2. TypeOK /\ ZoneIdsUnique /\ [Next]_vars => [Registry!Next]_(Registry!regVars)
  BY RegistryStep
<1> QED BY <1>1, <1>2, TypeCorrect, IdsStayUnique, PTL
        DEF Spec, ImplementsRegistry, Registry!Spec
=============================================================================
