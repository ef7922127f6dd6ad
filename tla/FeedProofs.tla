---------------------------- MODULE FeedProofs -----------------------------
(***************************************************************************)
(* Proofs about the position feed, for every number of workers, vessels    *)
(* and datagrams, every batch size and every width of the fields.          *)
(***************************************************************************)
EXTENDS Feed, TLAPS, SequenceTheorems, FiniteSetTheorems, WellFoundedInduction

-----------------------------------------------------------------------------
(* Induction, over sets of numbers and sets of sets, and the functions it  *)
(* defines.                                                                *)

LEMMA NatInductionSet ==
    ASSUME NEW G, 0 \in G, \A n \in Nat : n \in G => n + 1 \in G
    PROVE  Nat \subseteq G
<1> DEFINE R == {ss \in Nat \X Nat : ss[1] < ss[2]}
           B == Nat \ G
<1> SUFFICES ASSUME B # {} PROVE FALSE
  OBVIOUS
<1>1. IsWellFoundedOn(R, Nat)
  BY NatLessThanWellFounded DEF OpToRel
<1>2. PICK n \in B : \A m \in B : <<m, n>> \notin R
  <2>1. B \subseteq Nat
    OBVIOUS
  <2> HIDE DEF R, B
  <2> QED BY <1>1, <2>1, WFMin
<1>3. n \in Nat /\ n # 0
  OBVIOUS
<1>4. n - 1 \in Nat /\ (n - 1) + 1 = n /\ n - 1 < n
  BY <1>3
<1>5. n - 1 \in B
  BY <1>4
<1>6. <<n - 1, n>> \in R
  BY <1>3, <1>4
<1> QED BY <1>2, <1>5, <1>6

(* The function over lo..hi that starts with a and goes on with F.         *)
Recursive(f, lo, hi, S, a, F) ==
    /\ f \in [lo..hi -> S]
    /\ f[lo] = a
    /\ \A i \in (lo + 1)..hi : f[i] = F[<<i, f[i - 1]>>]

LEMMA RecursionExists ==
    ASSUME NEW lo \in Int, NEW hi \in Int, lo <= hi, NEW S, NEW a \in S,
           NEW F, \A i \in lo..hi, x \in S : F[<<i, x>>] \in S
    PROVE  \E f : Recursive(f, lo, hi, S, a, F)
<1> DEFINE Upto(n) == \E f : Recursive(f, lo, lo + n, S, a, F)
           G == {n \in Nat : lo + n <= hi => Upto(n)}
<1>1. 0 \in G
  <2> DEFINE f == [i \in lo..(lo + 0) |-> a]
  <2>1. f \in [lo..(lo + 0) -> S] /\ f[lo] = a /\ (lo + 1)..(lo + 0) = {}
    OBVIOUS
  <2> HIDE DEF f
  <2>2. Recursive(f, lo, lo + 0, S, a, F)
    BY <2>1 DEF Recursive
  <2>3. Upto(0)
    BY <2>2
  <2> HIDE DEF Upto
  <2> QED BY <2>3
<1>2. ASSUME NEW n \in Nat, n \in G PROVE n + 1 \in G
  <2>1. SUFFICES ASSUME lo + (n + 1) <= hi PROVE Upto(n + 1)
    OBVIOUS
  <2>2. Upto(n)
    <3>1. lo + n <= hi
      BY <2>1
    <3> HIDE DEF Upto
    <3> QED BY <1>2, <3>1
  <2>3. PICK f : Recursive(f, lo, lo + n, S, a, F)
    BY <2>2
  <2> DEFINE k == lo + (n + 1)
             g == [i \in lo..k |-> IF i = k THEN F[<<k, f[k - 1]>>] ELSE f[i]]
  <2>4. k \in lo..hi /\ k - 1 \in lo..(lo + n) /\ k # lo /\ k \in Int
    BY <2>1
  <2>5. /\ F[<<k, f[k - 1]>>] \in S /\ f[lo] = a
        /\ \A i \in lo..(lo + n) : f[i] \in S
    BY <2>3, <2>4 DEF Recursive
  <2>6. \A i \in lo..k : i = k \/ (i \in lo..(lo + n) /\ i # k)
    BY <2>4
  <2>7. lo \in lo..k /\ k \in lo..k /\ k - 1 # k /\ k - 1 \in lo..k
    BY <2>4
  <2>8. \A i \in (lo + 1)..k :
          i = k \/ (i \in (lo + 1)..(lo + n) /\ i # k /\ i \in lo..k /\ i - 1 \in lo..k /\ i - 1 # k)
    BY <2>4
  <2> HIDE DEF k
  <2>9. g \in [lo..k -> S]
    BY <2>5, <2>6
  <2>10. g[lo] = a
    BY <2>4, <2>5, <2>7
  <2>11. g[k] = F[<<k, g[k - 1]>>]
    BY <2>7
  <2>12. \A i \in (lo + 1)..(lo + n) : i # k /\ i \in lo..k /\ i - 1 \in lo..k /\ i - 1 # k
                                        => g[i] = F[<<i, g[i - 1]>>]
    BY <2>3 DEF Recursive
  <2> HIDE DEF g
  <2>13. \A i \in (lo + 1)..k : g[i] = F[<<i, g[i - 1]>>]
    BY <2>8, <2>11, <2>12
  <2>14. Recursive(g, lo, k, S, a, F)
    BY <2>9, <2>10, <2>13 DEF Recursive
  <2> QED BY <2>14 DEF k
<1>3. Nat \subseteq G
  <2> HIDE DEF G
  <2> QED BY <1>1, <1>2, NatInductionSet
<1>4. hi - lo \in Nat /\ lo + (hi - lo) = hi
  OBVIOUS
<1>5. hi - lo \in G
  <2> HIDE DEF G
  <2> QED BY <1>3, <1>4
<1>6. Upto(hi - lo)
  <2>1. lo + (hi - lo) <= hi
    BY <1>4
  <2> HIDE DEF Upto
  <2> QED BY <1>5, <2>1
<1> QED BY <1>4, <1>6

LEMMA RecursionFromZero ==
    ASSUME NEW hi \in Nat, NEW S, NEW a \in S,
           NEW F, \A i \in 0..hi, x \in S : F[<<i, x>>] \in S
    PROVE  \E f : Recursive(f, 0, hi, S, a, F)
<1> DEFINE lo == 0
<1>1. lo \in Int /\ hi \in Int /\ lo <= hi /\ lo + 1 = 1
  OBVIOUS
<1> HIDE DEF lo
<1>2. \A i \in lo..hi, x \in S : F[<<i, x>>] \in S
  BY DEF lo
<1>3. PICK f : Recursive(f, lo, hi, S, a, F)
  BY <1>1, <1>2, RecursionExists
<1> QED BY <1>3 DEF lo

LEMMA RecursionFromOne ==
    ASSUME NEW hi \in Nat \ {0}, NEW S, NEW a \in S,
           NEW F, \A i \in 1..hi, x \in S : F[<<i, x>>] \in S
    PROVE  \E f : Recursive(f, 1, hi, S, a, F)
<1> DEFINE lo == 1
<1>1. lo \in Int /\ hi \in Int /\ lo <= hi
  OBVIOUS
<1> HIDE DEF lo
<1>2. \A i \in lo..hi, x \in S : F[<<i, x>>] \in S
  BY DEF lo
<1>3. PICK f : Recursive(f, lo, hi, S, a, F)
  BY <1>1, <1>2, RecursionExists
<1> QED BY <1>3 DEF lo

(* A family of subsets of S with the empty set, and with a set whenever it *)
(* has that set without its chosen element, has all finite ones.           *)
LEMMA SubsetInduction ==
    ASSUME NEW S, IsFiniteSet(S), NEW G, {} \in G,
           \A s \in SUBSET S : s # {} /\ s \ {CHOOSE x \in s : TRUE} \in G => s \in G
    PROVE  SUBSET S \subseteq G
<1> DEFINE N == {n \in Nat : \A s \in SUBSET S : Cardinality(s) <= n => s \in G}
<1>1. \A s \in SUBSET S : IsFiniteSet(s) /\ Cardinality(s) \in Nat /\ (Cardinality(s) = 0 => s = {})
  <2>1. ASSUME NEW s \in SUBSET S
        PROVE  IsFiniteSet(s) /\ Cardinality(s) \in Nat /\ (Cardinality(s) = 0 => s = {})
    <3>1. IsFiniteSet(s)
      BY FS_Subset
    <3>2. Cardinality(s) \in Nat
      BY <3>1, FS_CardinalityType
    <3>3. Cardinality(s) = 0 => s = {}
      BY <3>1, FS_EmptySet
    <3> QED BY <3>1, <3>2, <3>3
  <2> QED BY <2>1
<1>2. 0 \in N
  <2>1. ASSUME NEW s \in SUBSET S, Cardinality(s) <= 0 PROVE s \in G
    <3>1. s = {}
      BY <1>1, <2>1
    <3> QED BY <3>1
  <2> QED BY <2>1
<1>3. ASSUME NEW n \in Nat, n \in N PROVE n + 1 \in N
  <2>1. SUFFICES ASSUME NEW s \in SUBSET S, Cardinality(s) <= n + 1, s # {} PROVE s \in G
    OBVIOUS
  <2> DEFINE x == CHOOSE x \in s : TRUE
             t == s \ {x}
  <2>2. x \in s
    BY <2>1
  <2>3. Cardinality(t) = Cardinality(s) - 1 /\ t \in SUBSET S
    <3> HIDE DEF x
    <3> QED BY <1>1, <2>2, FS_RemoveElement
  <2>4. Cardinality(t) <= n
    BY <1>1, <2>1, <2>3
  <2>5. t \in G
    BY <1>3, <2>3, <2>4
  <2> QED BY <2>1, <2>5
<1>4. Nat \subseteq N
  <2> HIDE DEF N
  <2> QED BY <1>2, <1>3, NatInductionSet
<1>5. ASSUME NEW s \in SUBSET S PROVE s \in G
  <2>1. Cardinality(s) \in N /\ Cardinality(s) \in Nat
    BY <1>1, <1>4
  <2>2. Cardinality(s) <= Cardinality(s)
    BY <2>1
  <2> QED BY <2>1, <2>2
<1> QED BY <1>5
-----------------------------------------------------------------------------
(* Sums of functions.                                                      *)
Pick(s) == CHOOSE x \in s : TRUE

AreSums(sum, f, S) == sum = [s \in SUBSET S |->
                               IF s = {} THEN 0 ELSE f[Pick(s)] + sum[s \ {Pick(s)}]]

SumsOf(f, S) == CHOOSE sum : AreSums(sum, f, S)

LEMMA SumsExist ==
    ASSUME NEW S, IsFiniteSet(S), NEW f \in [S -> Nat]
    PROVE  \E sum : AreSums(sum, f, S)
<1> DEFINE D(n) == {s \in SUBSET S : Cardinality(s) <= n}
           Body(sum, s) == IF s = {} THEN 0 ELSE f[Pick(s)] + sum[s \ {Pick(s)}]
           G == {n \in Nat : \E sum : sum = [s \in D(n) |-> Body(sum, s)]}
<1>1. \A s \in SUBSET S : /\ IsFiniteSet(s) /\ Cardinality(s) \in Nat
                          /\ Cardinality(s) = 0 <=> s = {}
  <2>1. ASSUME NEW s \in SUBSET S
        PROVE  IsFiniteSet(s) /\ Cardinality(s) \in Nat /\ (Cardinality(s) = 0 <=> s = {})
    <3>1. IsFiniteSet(s)
      BY FS_Subset
    <3>2. Cardinality(s) \in Nat
      BY <3>1, FS_CardinalityType
    <3>3. Cardinality(s) = 0 <=> s = {}
      BY <3>1, FS_EmptySet
    <3> QED BY <3>1, <3>2, <3>3
  <2> QED BY <2>1
<1>2. \A s \in SUBSET S : s # {} =>
        /\ s \ {Pick(s)} \in SUBSET S
        /\ Cardinality(s \ {Pick(s)}) = Cardinality(s) - 1
  <2>1. ASSUME NEW s \in SUBSET S, s # {}
        PROVE  s \ {Pick(s)} \in SUBSET S /\ Cardinality(s \ {Pick(s)}) = Cardinality(s) - 1
    <3>1. Pick(s) \in s
      BY <2>1 DEF Pick
    <3> QED BY <1>1, <3>1, FS_RemoveElement
  <2> QED BY <2>1
<1>3. 0 \in G
  <2> DEFINE sum == [s \in D(0) |-> 0]
  <2>1. \A s \in D(0) : s = {}
    BY <1>1
  <2>2. sum = [s \in D(0) |-> Body(sum, s)]
    BY <2>1
  <2> HIDE DEF sum
  <2> QED BY <2>2
<1>4. ASSUME NEW n \in Nat, n \in G PROVE n + 1 \in G
  <2>1. PICK old : old = [s \in D(n) |-> Body(old, s)]
    BY <1>4
  <2> DEFINE sum == [s \in D(n + 1) |-> Body(old, s)]
  <2>2. \A s \in D(n) : s \in D(n + 1) /\ s \in SUBSET S
    BY <1>1
  <2>3. \A s \in D(n + 1) : s # {} => s \ {Pick(s)} \in D(n)
    BY <1>1, <1>2
  <2> HIDE DEF D
  <2>4. \A s \in D(n) : sum[s] = old[s]
    <3>1. \A s \in D(n) : sum[s] = Body(old, s)
      BY <2>2
    <3>2. \A s \in D(n) : old[s] = Body(old, s)
      BY <2>1
    <3> HIDE DEF Body, sum
    <3> QED BY <3>1, <3>2
  <2>5. \A s \in D(n + 1) : Body(sum, s) = Body(old, s)
    <3> HIDE DEF sum
    <3> QED BY <2>3, <2>4
  <2>6. sum = [s \in D(n + 1) |-> Body(sum, s)]
    <3>1. sum = [s \in D(n + 1) |-> Body(old, s)]
      OBVIOUS
    <3> HIDE DEF sum, Body
    <3> QED BY <2>5, <3>1
  <2> HIDE DEF sum, Body
  <2> QED BY <2>6
<1>5. Nat \subseteq G
  <2> HIDE DEF G
  <2> QED BY <1>3, <1>4, NatInductionSet
<1>6. Cardinality(S) \in Nat /\ D(Cardinality(S)) = SUBSET S
  <2>1. \A s \in SUBSET S : Cardinality(s) <= Cardinality(S)
    BY FS_Subset
  <2> QED BY <1>1, <2>1
<1>7. \E sum : sum = [s \in D(Cardinality(S)) |-> Body(sum, s)]
  <2> HIDE DEF D, Body
  <2> QED BY <1>5, <1>6
<1>8. \E sum : sum = [s \in SUBSET S |-> Body(sum, s)]
  <2> HIDE DEF D, Body
  <2> QED BY <1>6, <1>7
<1> QED BY <1>8, Zenon DEF AreSums

(* Each of the sums is the one without an element and that element.        *)
LEMMA SumsAre ==
    ASSUME NEW S, IsFiniteSet(S), NEW f \in [S -> Nat]
    PROVE  /\ SumsOf(f, S)[{}] = 0
           /\ \A s \in SUBSET S : s # {} =>
                /\ Pick(s) \in s
                /\ SumsOf(f, S)[s] = f[Pick(s)] + SumsOf(f, S)[s \ {Pick(s)}]
           /\ \A s \in SUBSET S : SumsOf(f, S)[s] \in Nat
           /\ SumFunction(f) = SumsOf(f, S)[S]
<1> DEFINE sum == SumsOf(f, S)
           G == {s \in SUBSET S : sum[s] \in Nat}
<1>1. sum = [s \in SUBSET S |-> IF s = {} THEN 0 ELSE f[Pick(s)] + sum[s \ {Pick(s)}]]
  <2>1. \E it : AreSums(it, f, S)
    BY SumsExist
  <2>2. AreSums(sum, f, S)
    BY <2>1, Zenon DEF SumsOf
  <2> QED BY <2>2, Zenon DEF AreSums
<1>2. SumFunction(f) = sum[S]
  BY Zenon DEF SumFunction, SumFunctionOnSet, FoldFunctionOnSet, MapThenFoldSet, SumsOf, AreSums, Pick
<1> HIDE DEF sum
<1>3. sum[{}] = 0
  BY <1>1
<1>4. \A s \in SUBSET S : s # {} => Pick(s) \in s /\ sum[s] = f[Pick(s)] + sum[s \ {Pick(s)}]
  <2>1. ASSUME NEW s \in SUBSET S, s # {} PROVE Pick(s) \in s
    BY <2>1 DEF Pick
  <2> QED BY <1>1, <2>1
<1>5. SUBSET S \subseteq G
  <2>1. {} \in G
    BY <1>3
  <2>2. \A s \in SUBSET S : s # {} /\ s \ {Pick(s)} \in G => s \in G
    BY <1>4
  <2> HIDE DEF G
  <2> QED BY <2>1, <2>2, SubsetInduction DEF Pick
<1> QED BY <1>2, <1>3, <1>4, <1>5 DEF sum

LEMMA SumType ==
    ASSUME NEW S, IsFiniteSet(S), NEW f \in [S -> Nat]
    PROVE  SumFunction(f) \in Nat
  BY SumsAre

LEMMA SumZero ==
    ASSUME NEW S, IsFiniteSet(S), NEW f \in [S -> Nat], \A x \in S : f[x] = 0
    PROVE  SumFunction(f) = 0
<1> DEFINE G == {s \in SUBSET S : SumsOf(f, S)[s] = 0}
<1>1. {} \in G
  BY SumsAre
<1>2. \A s \in SUBSET S : s # {} /\ s \ {Pick(s)} \in G => s \in G
  BY SumsAre
<1>3. SUBSET S \subseteq G
  <2> HIDE DEF G
  <2> QED BY <1>1, <1>2, SubsetInduction DEF Pick
<1> QED BY <1>3, SumsAre

(* What one of the values grows by, the sum grows by.                      *)
LEMMA SumGrows ==
    ASSUME NEW S, IsFiniteSet(S), NEW f \in [S -> Nat], NEW g \in [S -> Nat],
           NEW w \in S, NEW d \in Nat, g[w] = f[w] + d, \A x \in S \ {w} : g[x] = f[x]
    PROVE  SumFunction(g) = SumFunction(f) + d
<1> DEFINE F == SumsOf(f, S)
           H == SumsOf(g, S)
           More(s) == IF w \in s THEN d ELSE 0
           G == {s \in SUBSET S : H[s] = F[s] + More(s)}
<1>1. /\ F[{}] = 0 /\ H[{}] = 0
      /\ \A s \in SUBSET S : F[s] \in Nat /\ H[s] \in Nat
      /\ \A s \in SUBSET S : s # {} => /\ Pick(s) \in s
                                       /\ F[s] = f[Pick(s)] + F[s \ {Pick(s)}]
                                       /\ H[s] = g[Pick(s)] + H[s \ {Pick(s)}]
      /\ SumFunction(f) = F[S] /\ SumFunction(g) = H[S]
  <2>1. /\ F[{}] = 0 /\ SumFunction(f) = F[S]
        /\ \A s \in SUBSET S : F[s] \in Nat
        /\ \A s \in SUBSET S : s # {} => /\ Pick(s) \in s
                                         /\ F[s] = f[Pick(s)] + F[s \ {Pick(s)}]
    BY SumsAre, Zenon
  <2>2. /\ H[{}] = 0 /\ SumFunction(g) = H[S]
        /\ \A s \in SUBSET S : H[s] \in Nat
        /\ \A s \in SUBSET S : s # {} => H[s] = g[Pick(s)] + H[s \ {Pick(s)}]
    BY SumsAre, ZenonT(40)
  <2> HIDE DEF F, H
  <2> QED BY <2>1, <2>2, Zenon
<1> HIDE DEF F, H
<1>2. {} \in G
  BY <1>1
<1>3. ASSUME NEW s \in SUBSET S, s # {}, s \ {Pick(s)} \in G PROVE s \in G
  <2> DEFINE x == Pick(s)
             t == s \ {x}
  <2>1. /\ x \in s /\ x \in S /\ t \in SUBSET S /\ H[t] = F[t] + More(t)
        /\ F[s] = f[x] + F[t] /\ H[s] = g[x] + H[t]
        /\ F[t] \in Nat /\ f[x] \in Nat
    BY <1>1, <1>3
  <2>2. CASE x = w
    <3>1. More(s) = d /\ More(t) = 0 /\ g[x] = f[x] + d
      BY <2>1, <2>2
    <3> HIDE DEF x, t, More
    <3> QED BY <2>1, <3>1
  <2>3. CASE x # w
    <3>1. More(s) = More(t) /\ g[x] = f[x] /\ More(t) \in Nat
      BY <2>1, <2>3
    <3> HIDE DEF x, t, More
    <3> QED BY <2>1, <3>1
  <2> QED BY <2>2, <2>3
<1>4. SUBSET S \subseteq G
  <2> HIDE DEF G
  <2> QED BY <1>2, <1>3, SubsetInduction DEF Pick
<1> QED BY <1>1, <1>4
-----------------------------------------------------------------------------
(* The codec: numbers and their bytes.                                     *)

LEMMA DivMod ==
    ASSUME NEW n \in Nat
    PROVE  /\ n \div ByteBase \in Nat /\ n % ByteBase \in Byte
           /\ n = ((n \div ByteBase) * ByteBase) + (n % ByteBase)
<1>1. ByteBase \in Nat /\ ByteBase > 0
  BY CodecAssumption
<1>2. n \div ByteBase \in Nat
  BY <1>1
<1>3. n % ByteBase \in 0..(ByteBase - 1)
  BY <1>1
<1>4. n = ((n \div ByteBase) * ByteBase) + (n % ByteBase)
  BY <1>1
<1> QED BY <1>2, <1>3, <1>4 DEF Byte

AreShifts(rest, n, width) ==
    rest = [k \in 0..width |-> IF k = 0 THEN n ELSE rest[k - 1] \div ByteBase]

LEMMA ShiftedProperties ==
    ASSUME NEW n \in Nat, NEW width \in Nat
    PROVE  /\ Shifted(n, width)[0] = n
           /\ \A k \in 0..width : Shifted(n, width)[k] \in Nat
           /\ \A k \in 1..width : Shifted(n, width)[k] = Shifted(n, width)[k - 1] \div ByteBase
<1> DEFINE F == [x \in (0..width) \X Nat |-> x[2] \div ByteBase]
           rest == Shifted(n, width)
           G == {k \in Nat : k <= width => rest[k] \in Nat}
<1>1. \E f : AreShifts(f, n, width)
  <2>2. \A i \in 0..width, m \in Nat : F[<<i, m>>] = m \div ByteBase
    OBVIOUS
  <2>1. \A i \in 0..width, m \in Nat : F[<<i, m>>] \in Nat
    BY <2>2, DivMod
  <2> HIDE DEF F
  <2>7. PICK f : Recursive(f, 0, width, Nat, n, F)
    BY <2>1, RecursionFromZero
  <2>3. f \in [0..width -> Nat] /\ f[0] = n /\ \A i \in 1..width : f[i] = F[<<i, f[i - 1]>>]
    BY <2>7 DEF Recursive
  <2>4. \A i \in 0..width : i # 0 => i \in 1..width /\ i - 1 \in 0..width
    OBVIOUS
  <2>5. \A i \in 0..width : i # 0 => f[i] = f[i - 1] \div ByteBase
    BY <2>2, <2>3, <2>4
  <2>6. f = [k \in 0..width |-> IF k = 0 THEN n ELSE f[k - 1] \div ByteBase]
    BY <2>3, <2>5
  <2> QED BY <2>6 DEF AreShifts
<1>2. AreShifts(rest, n, width)
  BY <1>1, Zenon DEF Shifted, AreShifts
<1> HIDE DEF rest
<1>3. \A k \in 0..width : rest[k] = IF k = 0 THEN n ELSE rest[k - 1] \div ByteBase
  BY <1>2 DEF AreShifts
<1>4. Nat \subseteq G
  <2>1. 0 \in G
    BY <1>3
  <2>2. ASSUME NEW k \in Nat, k \in G PROVE k + 1 \in G
    <3>1. SUFFICES ASSUME k + 1 <= width PROVE rest[k + 1] \in Nat
      OBVIOUS
    <3>2. rest[k] \in Nat
      BY <2>2, <3>1
    <3>3. k + 1 \in 0..width /\ k + 1 # 0 /\ (k + 1) - 1 = k
      BY <3>1
    <3>4. rest[k + 1] = rest[k] \div ByteBase
      BY <1>3, <3>3
    <3> QED BY <3>2, <3>4, DivMod
  <2> HIDE DEF G
  <2> QED BY <2>1, <2>2, NatInductionSet
<1>5. \A k \in 0..width : rest[k] \in Nat
  BY <1>4
<1>6. \A k \in 1..width : rest[k] = rest[k - 1] \div ByteBase
  BY <1>3
<1> QED BY <1>3, <1>5, <1>6 DEF rest

LEMMA LittleEndianType ==
    ASSUME NEW n \in Nat, NEW width \in Nat
    PROVE  /\ LittleEndian(n, width) \in Seq(Byte)
           /\ Len(LittleEndian(n, width)) = width
           /\ \A k \in 1..width : LittleEndian(n, width)[k] = Shifted(n, width)[k - 1] % ByteBase
<1> DEFINE d == [k \in 1..width |-> Shifted(n, width)[k - 1] % ByteBase]
<1>1. LittleEndian(n, width) = d
  BY DEF LittleEndian
<1>2. \A k \in 1..width : Shifted(n, width)[k - 1] % ByteBase \in Byte
  <2>1. \A k \in 1..width : k - 1 \in 0..width
    OBVIOUS
  <2> QED BY <2>1, ShiftedProperties, DivMod
<1>3. d \in [1..width -> Byte]
  BY <1>2
<1>4. \A k \in 1..width : d[k] = Shifted(n, width)[k - 1] % ByteBase
  OBVIOUS
<1> HIDE DEF d
<1>5. d \in Seq(Byte)
  BY <1>3, SeqDef
<1>6. 1..Len(d) = 1..width /\ Len(d) \in Nat
  BY <1>3, <1>5, LenProperties
<1>7. \A m \in Nat : Cardinality(1..m) = m
  BY FS_Interval
<1>8. Len(d) = width
  BY <1>6, <1>7
<1> QED BY <1>1, <1>4, <1>5, <1>8

AreValues(value, digits) ==
    value = [k \in 0..Len(digits) |->
               IF k = 0 THEN 0 ELSE value[k - 1] * ByteBase + digits[Len(digits) - k + 1]]

(* Number reads the digits from the last to the first.                     *)
LEMMA NumberProperties ==
    ASSUME NEW digits \in Seq(Byte)
    PROVE  \E value :
             /\ value[0] = 0
             /\ \A k \in 0..Len(digits) : value[k] \in Nat
             /\ \A k \in 1..Len(digits) :
                  value[k] = value[k - 1] * ByteBase + digits[Len(digits) - k + 1]
             /\ Number(digits) = value[Len(digits)]
<1> DEFINE n == Len(digits)
           F == [x \in (0..n) \X Nat |->
                   IF x[1] = 0 THEN 0 ELSE x[2] * ByteBase + digits[n - x[1] + 1]]
           value == CHOOSE v : AreValues(v, digits)
           G == {k \in Nat : k <= n => value[k] \in Nat}
<1>1. n \in Nat /\ ByteBase \in Nat /\ Byte \subseteq Nat
  BY LenProperties, CodecAssumption DEF Byte
<1>2. \A k \in 1..n : digits[n - k + 1] \in Nat
  <2>1. \A k \in 1..n : n - k + 1 \in 1..n
    BY <1>1
  <2> QED BY <1>1, <2>1, ElementOfSeq
<1>3. \A m \in Nat, k \in 1..n : m * ByteBase + digits[n - k + 1] \in Nat
  <2> HIDE DEF n
  <2> TAKE m \in Nat, k \in 1..n
  <2> DEFINE d == digits[n - k + 1]
  <2>1. d \in Nat
    BY <1>2
  <2> HIDE DEF d
  <2>2. m * ByteBase + d \in Nat
    BY <1>1, <2>1
  <2> QED BY <2>2 DEF d
<1> HIDE DEF n
<1>4. \E f : AreValues(f, digits)
  <2>1. \A k \in 0..n, m \in Nat : F[<<k, m>>] = IF k = 0 THEN 0 ELSE m * ByteBase + digits[n - k + 1]
    OBVIOUS
  <2>2. ASSUME NEW k \in 0..n, NEW m \in Nat PROVE F[<<k, m>>] \in Nat
    <3>1. CASE k = 0
      BY <2>1, <3>1
    <3>2. CASE k \in 1..n
      <4>1. k # 0
        BY <1>1, <3>2
      <4> QED BY <1>3, <2>1, <3>2, <4>1
    <3>3. k = 0 \/ k \in 1..n
      BY <1>1
    <3> QED BY <3>1, <3>2, <3>3
  <2>3. \A i \in 0..n, m \in Nat : i # 0 => F[<<i, m>>] = m * ByteBase + digits[n - i + 1]
    OBVIOUS
  <2> HIDE DEF F
  <2>8. PICK f : Recursive(f, 0, n, Nat, 0, F)
    BY <1>1, <2>2, RecursionFromZero
  <2>4. f \in [0..n -> Nat] /\ f[0] = 0 /\ \A i \in 1..n : f[i] = F[<<i, f[i - 1]>>]
    BY <2>8 DEF Recursive
  <2>5. \A i \in 0..n : i # 0 => i \in 1..n /\ i - 1 \in 0..n
    BY <1>1
  <2>6. \A i \in 0..n : i # 0 => f[i] = f[i - 1] * ByteBase + digits[n - i + 1]
    BY <2>3, <2>4, <2>5
  <2>7. f = [k \in 0..n |-> IF k = 0 THEN 0 ELSE f[k - 1] * ByteBase + digits[n - k + 1]]
    BY <2>4, <2>6
  <2> QED BY <2>7 DEF AreValues, n
<1>5. AreValues(value, digits)
  BY <1>4, Zenon
<1>6. Number(digits) = value[n]
  BY Zenon DEF Number, AreValues, n
<1> HIDE DEF value
<1>7. \A k \in 0..n : value[k] = IF k = 0 THEN 0 ELSE value[k - 1] * ByteBase + digits[n - k + 1]
  BY <1>5 DEF AreValues, n
<1>8. Nat \subseteq G
  <2>1. 0 \in G
    BY <1>1, <1>7
  <2>2. ASSUME NEW k \in Nat, k \in G PROVE k + 1 \in G
    <3>1. SUFFICES ASSUME k + 1 <= n PROVE value[k + 1] \in Nat
      OBVIOUS
    <3>2. value[k] \in Nat
      BY <1>1, <2>2, <3>1
    <3>3. k + 1 \in 0..n /\ k + 1 \in 1..n /\ k + 1 # 0 /\ (k + 1) - 1 = k
      BY <1>1, <3>1
    <3>4. value[k + 1] = value[k] * ByteBase + digits[n - (k + 1) + 1]
      BY <1>7, <3>3
    <3> QED BY <1>3, <3>2, <3>3, <3>4
  <2> HIDE DEF G
  <2> QED BY <2>1, <2>2, NatInductionSet
<1>9. \A k \in 0..n : value[k] \in Nat
  BY <1>1, <1>8
<1>10. \A k \in 1..n : value[k] = value[k - 1] * ByteBase + digits[n - k + 1]
  BY <1>1, <1>7
<1>11. value[0] = 0
  BY <1>1, <1>7
<1> QED BY <1>6, <1>9, <1>10, <1>11 DEF n

LEMMA NumberType ==
    ASSUME NEW digits \in Seq(Byte)
    PROVE  Number(digits) \in Nat
<1>1. Len(digits) \in Nat
  BY LenProperties
<1>2. Len(digits) \in 0..Len(digits)
  BY <1>1
<1> QED BY <1>2, NumberProperties
(* A number that fits its width is read as it was written.                 *)
LEMMA NumberOfLittleEndian ==
    ASSUME NEW n \in Nat, NEW width \in Nat, Shifted(n, width)[width] = 0
    PROVE  Number(LittleEndian(n, width)) = n
<1> DEFINE d == LittleEndian(n, width)
           rest == Shifted(n, width)
<1>1. d \in Seq(Byte) /\ Len(d) = width /\ \A k \in 1..width : d[k] = rest[k - 1] % ByteBase
  BY LittleEndianType
<1>2. /\ rest[0] = n /\ rest[width] = 0
      /\ \A k \in 0..width : rest[k] \in Nat
      /\ \A k \in 1..width : rest[k] = rest[k - 1] \div ByteBase
  BY ShiftedProperties
<1> HIDE DEF d, rest
<1>3. PICK value :
        /\ value[0] = 0
        /\ \A k \in 1..width : value[k] = value[k - 1] * ByteBase + d[width - k + 1]
        /\ Number(d) = value[width]
  BY <1>1, NumberProperties
<1> DEFINE G == {k \in Nat : k <= width => value[k] = rest[width - k]}
<1>4. 0 \in G
  <2>1. width - 0 = width
    OBVIOUS
  <2> QED BY <1>2, <1>3, <2>1
<1>5. ASSUME NEW k \in Nat, k \in G PROVE k + 1 \in G
  <2>1. SUFFICES ASSUME k + 1 <= width PROVE value[k + 1] = rest[width - (k + 1)]
    OBVIOUS
  <2> DEFINE j == width - k
  <2>2. /\ k + 1 \in 1..width /\ (k + 1) - 1 = k
        /\ j \in 1..width /\ j - 1 \in 0..width
        /\ width - (k + 1) + 1 = j /\ width - (k + 1) = j - 1
    BY <2>1
  <2>3. value[k] = rest[j]
    BY <1>5, <2>1
  <2> HIDE DEF j
  <2>4. value[k + 1] = value[k] * ByteBase + d[j]
    BY <1>3, <2>2
  <2>5. d[j] = rest[j - 1] % ByteBase /\ rest[j] = rest[j - 1] \div ByteBase /\ rest[j - 1] \in Nat
    BY <1>1, <1>2, <2>2
  <2>6. rest[j - 1] = ((rest[j - 1] \div ByteBase) * ByteBase) + (rest[j - 1] % ByteBase)
    BY <2>5, DivMod
  <2>7. value[k + 1] = rest[j - 1]
    BY <2>3, <2>4, <2>5, <2>6
  <2> QED BY <2>2, <2>7
<1>6. width \in G
  <2>1. Nat \subseteq G
    <3> HIDE DEF G
    <3> QED BY <1>4, <1>5, NatInductionSet
  <2> HIDE DEF G
  <2> QED BY <2>1
<1>7. value[width] = rest[width - width] /\ width - width = 0
  BY <1>6
<1> QED BY <1>2, <1>3, <1>7 DEF d

-----------------------------------------------------------------------------
(* The codec: sequences and records.                                       *)

AreFlat(flat, seqs) ==
    flat = [i \in 1..Len(seqs) |-> IF i = 1 THEN seqs[i] ELSE flat[i - 1] \o seqs[i]]

LEMMA FlattenProperties ==
    ASSUME NEW S, NEW seqs \in Seq(Seq(S)), Len(seqs) # 0
    PROVE  \E flat :
             /\ flat[1] = seqs[1]
             /\ \A i \in 1..Len(seqs) : flat[i] \in Seq(S)
             /\ \A i \in 2..Len(seqs) : flat[i] = flat[i - 1] \o seqs[i]
             /\ FlattenSeq(seqs) = flat[Len(seqs)]
<1> DEFINE n == Len(seqs)
           F == [x \in (1..n) \X Seq(S) |-> x[2] \o seqs[x[1]]]
           flat == CHOOSE f : AreFlat(f, seqs)
           G == {k \in Nat : k \in 1..n => flat[k] \in Seq(S)}
<1>1. n \in Nat \ {0} /\ \A i \in 1..n : seqs[i] \in Seq(S)
  BY LenProperties, ElementOfSeq
<1> HIDE DEF n
<1>2. \A s \in Seq(S), i \in 1..n : s \o seqs[i] \in Seq(S)
  BY <1>1, ConcatProperties
<1>3. \E f : AreFlat(f, seqs)
  <2>1. \A i \in 1..n, s \in Seq(S) : F[<<i, s>>] = s \o seqs[i]
    OBVIOUS
  <2> HIDE DEF F
  <2>2. \A i \in 1..n, s \in Seq(S) : F[<<i, s>>] \in Seq(S)
    BY <1>2, <2>1
  <2>3. seqs[1] \in Seq(S)
    BY <1>1
  <2>4. PICK f : Recursive(f, 1, n, Seq(S), seqs[1], F)
    BY <1>1, <2>2, <2>3, RecursionFromOne
  <2>5. f \in [1..n -> Seq(S)] /\ f[1] = seqs[1] /\ \A i \in 2..n : f[i] = F[<<i, f[i - 1]>>]
    BY <2>4 DEF Recursive
  <2>6. \A i \in 1..n : i # 1 => i \in 2..n /\ i - 1 \in 1..n
    BY <1>1
  <2>7. \A i \in 1..n : i # 1 => f[i] = f[i - 1] \o seqs[i]
    BY <2>1, <2>5, <2>6
  <2>8. f = [i \in 1..n |-> IF i = 1 THEN seqs[i] ELSE f[i - 1] \o seqs[i]]
    BY <2>5, <2>7
  <2> QED BY <2>8 DEF AreFlat, n
<1>4. AreFlat(flat, seqs)
  BY <1>3, Zenon
<1>5. FlattenSeq(seqs) = flat[n]
  <2>1. Len(seqs) # 0
    OBVIOUS
  <2> QED BY <2>1, Zenon DEF FlattenSeq, AreFlat, n
<1> HIDE DEF flat
<1>6. \A i \in 1..n : flat[i] = IF i = 1 THEN seqs[i] ELSE flat[i - 1] \o seqs[i]
  BY <1>4 DEF AreFlat, n
<1>7. flat[1] = seqs[1] /\ \A i \in 2..n : flat[i] = flat[i - 1] \o seqs[i]
  <2>1. 1 \in 1..n /\ \A i \in 2..n : i \in 1..n /\ i # 1
    BY <1>1
  <2> QED BY <1>6, <2>1, Zenon
<1>8. Nat \subseteq G
  <2>1. 0 \in G
    OBVIOUS
  <2>2. ASSUME NEW k \in Nat, k \in G PROVE k + 1 \in G
    <3>1. SUFFICES ASSUME k + 1 \in 1..n PROVE flat[k + 1] \in Seq(S)
      OBVIOUS
    <3>2. CASE k = 0
      <4>1. k + 1 = 1
        BY <3>2
      <4> QED BY <1>1, <1>7, <3>1, <4>1
    <3>3. CASE k # 0
      <4>1. k \in 1..n /\ k + 1 \in 2..n /\ (k + 1) - 1 = k
        BY <1>1, <3>1, <3>3
      <4>2. flat[k] \in Seq(S)
        BY <2>2, <4>1
      <4>3. flat[k + 1] = flat[k] \o seqs[k + 1]
        BY <1>7, <4>1
      <4> QED BY <1>2, <3>1, <4>2, <4>3
    <3> QED BY <3>2, <3>3
  <2> HIDE DEF G
  <2> QED BY <2>1, <2>2, NatInductionSet
<1>9. \A i \in 1..n : flat[i] \in Seq(S)
  BY <1>8
<1> QED BY <1>5, <1>7, <1>9 DEF n

LEMMA FlattenType ==
    ASSUME NEW S, NEW seqs \in Seq(Seq(S))
    PROVE  FlattenSeq(seqs) \in Seq(S)
<1>1. CASE Len(seqs) = 0
  <2>1. seqs = << >>
    BY <1>1, EmptySeq
  <2>2. FlattenSeq(seqs) = seqs
    BY <1>1, Zenon DEF FlattenSeq
  <2>3. FlattenSeq(seqs) = << >>
    BY <2>1, <2>2, Zenon
  <2>4. << >> \in Seq(S)
    BY EmptySeq, Zenon
  <2> QED BY <2>3, <2>4
<1>2. CASE Len(seqs) # 0
  <2>1. Len(seqs) \in 1..Len(seqs)
    BY <1>2, LenProperties
  <2> QED BY <1>2, <2>1, FlattenProperties
<1> QED BY <1>1, <1>2
LEMMA SequenceOver ==
    ASSUME NEW S, NEW n \in Nat, NEW f \in [1..n -> S]
    PROVE  f \in Seq(S) /\ Len(f) = n
<1>1. f \in Seq(S)
  BY SeqDef
<1>2. 1..Len(f) = 1..n /\ Len(f) \in Nat
  BY <1>1, LenProperties
<1>3. \A m \in Nat : Cardinality(1..m) = m
  BY FS_Interval
<1> QED BY <1>1, <1>2, <1>3

LEMMA MarshalStringType ==
    ASSUME NEW s \in Seq(Byte)
    PROVE  MarshalString(s) \in Seq(Byte)
<1>1. Len(s) % ByteBase \in Byte
  BY LenProperties, DivMod
<1>2. << Len(s) % ByteBase >> \in Seq(Byte)
  BY <1>1
<1> QED BY <1>2, ConcatProperties DEF MarshalString

LEMMA MarshalRecordType ==
    ASSUME NEW r \in AISRecord
    PROVE  MarshalRecord(r) \in Seq(Byte)
<1>1. /\ r.VesselID \in Seq(Byte) /\ r.MMSI \in Seq(Byte)
      /\ r.Lat \in Nat /\ r.Lon \in Nat /\ r.SOGKnots \in Nat /\ r.COGDegrees \in Nat
      /\ r.TSUnixMs \in Nat
  BY DEF AISRecord
<1>2. DoubleWidth \in Nat /\ FloatWidth \in Nat /\ 0 \in Byte /\ 1 \in Byte
  BY CodecAssumption DEF Byte
<1>3. << IF r.IsScriptedViolator THEN 1 ELSE 0 >> \in Seq(Byte)
  <2>1. (IF r.IsScriptedViolator THEN 1 ELSE 0) \in Byte
    BY <1>2
  <2> QED BY <2>1
<1>4. /\ MarshalString(r.VesselID) \in Seq(Byte) /\ MarshalString(r.MMSI) \in Seq(Byte)
      /\ LittleEndian(r.Lat, DoubleWidth) \in Seq(Byte)
      /\ LittleEndian(r.Lon, DoubleWidth) \in Seq(Byte)
      /\ LittleEndian(r.SOGKnots, FloatWidth) \in Seq(Byte)
      /\ LittleEndian(r.COGDegrees, FloatWidth) \in Seq(Byte)
      /\ LittleEndian(r.TSUnixMs, DoubleWidth) \in Seq(Byte)
  BY <1>1, <1>2, MarshalStringType, LittleEndianType
<1> DEFINE B == Byte
           flag == << IF r.IsScriptedViolator THEN 1 ELSE 0 >>
<1>5. \A s, t \in Seq(B) : s \o t \in Seq(B)
  BY ConcatProperties
<1>6. flag \in Seq(B)
  BY <1>3
<1> HIDE DEF B, flag
<1>7. MarshalString(r.VesselID) \o MarshalString(r.MMSI) \in Seq(B)
  BY <1>4, <1>5 DEF B
<1>8. MarshalString(r.VesselID) \o MarshalString(r.MMSI)
      \o LittleEndian(r.Lat, DoubleWidth) \in Seq(B)
  BY <1>4, <1>5, <1>7 DEF B
<1>9. MarshalString(r.VesselID) \o MarshalString(r.MMSI)
      \o LittleEndian(r.Lat, DoubleWidth) \o LittleEndian(r.Lon, DoubleWidth) \in Seq(B)
  BY <1>4, <1>5, <1>8 DEF B
<1>10. MarshalString(r.VesselID) \o MarshalString(r.MMSI)
       \o LittleEndian(r.Lat, DoubleWidth) \o LittleEndian(r.Lon, DoubleWidth)
       \o LittleEndian(r.SOGKnots, FloatWidth) \in Seq(B)
  BY <1>4, <1>5, <1>9 DEF B
<1>11. MarshalString(r.VesselID) \o MarshalString(r.MMSI)
       \o LittleEndian(r.Lat, DoubleWidth) \o LittleEndian(r.Lon, DoubleWidth)
       \o LittleEndian(r.SOGKnots, FloatWidth) \o LittleEndian(r.COGDegrees, FloatWidth) \in Seq(B)
  BY <1>4, <1>5, <1>10 DEF B
<1>12. MarshalString(r.VesselID) \o MarshalString(r.MMSI)
       \o LittleEndian(r.Lat, DoubleWidth) \o LittleEndian(r.Lon, DoubleWidth)
       \o LittleEndian(r.SOGKnots, FloatWidth) \o LittleEndian(r.COGDegrees, FloatWidth)
       \o LittleEndian(r.TSUnixMs, DoubleWidth) \in Seq(B)
  BY <1>4, <1>5, <1>11 DEF B
<1>13. MarshalString(r.VesselID) \o MarshalString(r.MMSI)
       \o LittleEndian(r.Lat, DoubleWidth) \o LittleEndian(r.Lon, DoubleWidth)
       \o LittleEndian(r.SOGKnots, FloatWidth) \o LittleEndian(r.COGDegrees, FloatWidth)
       \o LittleEndian(r.TSUnixMs, DoubleWidth) \o flag \in Seq(B)
  BY <1>5, <1>6, <1>12
<1> QED BY <1>13 DEF MarshalRecord, B, flag

(* Two byte strings joined are as long as both.                            *)
LEMMA ConcatBytes ==
    ASSUME NEW s \in Seq(Byte), NEW t \in Seq(Byte)
    PROVE  s \o t \in Seq(Byte) /\ Len(s \o t) = Len(s) + Len(t)
  BY ConcatProperties

(* A batch is marshalled to bytes, and to some of them.                    *)
LEMMA MarshalBinaryType ==
    ASSUME NEW b \in AISBatch
    PROVE  MarshalBinary(b) \in Seq(Byte) /\ Len(MarshalBinary(b)) \in Nat \ {0}
<1> DEFINE n == Len(b.Records)
           body == FlattenSeq([i \in DOMAIN b.Records |-> MarshalRecord(b.Records[i])])
           seqno == LittleEndian(b.BatchSeq, IntWidth)
           count == LittleEndian(Len(b.Records), IntWidth)
<1>1. b.Records \in Seq(AISRecord) /\ b.BatchSeq \in Nat /\ IntWidth \in Nat \ {0}
  BY CodecAssumption DEF AISBatch
<1>2. n \in Nat /\ DOMAIN b.Records = 1..n /\ \A i \in 1..n : b.Records[i] \in AISRecord
  BY <1>1, LenProperties, ElementOfSeq
<1>3. body \in Seq(Byte)
  <2> DEFINE parts == [i \in DOMAIN b.Records |-> MarshalRecord(b.Records[i])]
  <2>1. parts \in [1..n -> Seq(Byte)]
    BY <1>2, MarshalRecordType
  <2> HIDE DEF parts
  <2>2. parts \in Seq(Seq(Byte))
    BY <1>2, <2>1, SequenceOver
  <2>3. FlattenSeq(parts) \in Seq(Byte)
    BY <2>2, FlattenType
  <2> QED BY <2>3 DEF parts
<1>4. /\ seqno \in Seq(Byte) /\ Len(seqno) = IntWidth
      /\ count \in Seq(Byte) /\ Len(count) = IntWidth
  BY <1>1, <1>2, LittleEndianType
<1> HIDE DEF body, seqno, count
<1>5. seqno \o count \in Seq(Byte) /\ Len(seqno \o count) = IntWidth + IntWidth
  <2>1. seqno \o count \in Seq(Byte) /\ Len(seqno \o count) = Len(seqno) + Len(count)
    BY <1>4, ConcatBytes, Zenon
  <2> QED BY <1>4, <2>1
<1>6. /\ (seqno \o count) \o body \in Seq(Byte)
      /\ Len((seqno \o count) \o body) = (IntWidth + IntWidth) + Len(body)
  BY <1>3, <1>5, ConcatProperties
<1>7. Len(body) \in Nat
  BY <1>3, LenProperties
<1>8. (IntWidth + IntWidth) + Len(body) \in Nat \ {0}
  BY <1>1, <1>7
<1>9. MarshalBinary(b) = (seqno \o count) \o body
  BY DEF MarshalBinary, body, seqno, count
<1> QED BY <1>6, <1>8, <1>9

LEMMA BytesType ==
    ASSUME NEW bytes \in Seq(Byte), NEW offset \in Nat, NEW width \in Nat,
           offset + width <= Len(bytes)
    PROVE  Bytes(bytes, offset, width) \in Seq(Byte)
<1>1. \A i \in (offset + 1)..(offset + width) : bytes[i] \in Byte
  <2>1. \A i \in (offset + 1)..(offset + width) : i \in 1..Len(bytes)
    BY LenProperties
  <2> QED BY <2>1, ElementOfSeq
<1>2. offset + 1 \in Int /\ offset + width \in Int
  OBVIOUS
<1> QED BY <1>1, <1>2, SubSeqProperties DEF Bytes

LEMMA UnmarshalRecordType ==
    ASSUME NEW bytes \in Seq(Byte), NEW offset \in Nat, NEW u \in UnmarshalRecord(bytes, offset)
    PROVE  u.next \in Nat /\ u.record \in AISRecord
<1> DEFINE idLen == bytes[offset + 1]
           mmsiAt == offset + 1 + idLen
           mmsiLen == bytes[mmsiAt + 1]
           latAt == mmsiAt + 1 + mmsiLen
           lonAt == latAt + DoubleWidth
           sogAt == lonAt + DoubleWidth
           cogAt == sogAt + FloatWidth
           tsAt == cogAt + FloatWidth
           violatorAt == tsAt + DoubleWidth
<1>1. /\ ~(offset >= Len(bytes) \/ mmsiAt >= Len(bytes) \/ violatorAt >= Len(bytes))
      /\ u = [next |-> violatorAt + 1,
              record |-> [VesselID |-> Bytes(bytes, offset + 1, idLen),
                          MMSI |-> Bytes(bytes, mmsiAt + 1, mmsiLen),
                          Lat |-> NumberAt(bytes, latAt, DoubleWidth),
                          Lon |-> NumberAt(bytes, lonAt, DoubleWidth),
                          SOGKnots |-> NumberAt(bytes, sogAt, FloatWidth),
                          COGDegrees |-> NumberAt(bytes, cogAt, FloatWidth),
                          TSUnixMs |-> NumberAt(bytes, tsAt, DoubleWidth),
                          IsScriptedViolator |-> bytes[violatorAt + 1] = 1]]
  BY Zenon DEF UnmarshalRecord
<1>2. Len(bytes) \in Nat /\ DoubleWidth \in Nat /\ FloatWidth \in Nat
  BY CodecAssumption, LenProperties
<1>3. \A i \in 1..Len(bytes) : bytes[i] \in Nat
  <2>1. Byte \subseteq Nat
    BY CodecAssumption DEF Byte
  <2> QED BY <2>1, ElementOfSeq
<1> HIDE DEF violatorAt
<1>4. ~(offset >= Len(bytes)) /\ ~(mmsiAt >= Len(bytes)) /\ ~(violatorAt >= Len(bytes))
  BY <1>1
<1>5. offset + 1 \in 1..Len(bytes)
  BY <1>2, <1>4
<1>6. idLen \in Nat
  BY <1>3, <1>5
<1> HIDE DEF idLen
<1>7. mmsiAt \in Nat /\ mmsiAt < Len(bytes) /\ mmsiAt + 1 \in 1..Len(bytes)
      /\ mmsiAt = offset + 1 + idLen
  BY <1>2, <1>4, <1>6
<1>8. mmsiLen \in Nat
  BY <1>3, <1>7
<1> HIDE DEF mmsiAt, mmsiLen
<1>9. /\ latAt = mmsiAt + 1 + mmsiLen /\ lonAt = latAt + DoubleWidth
      /\ sogAt = lonAt + DoubleWidth /\ cogAt = sogAt + FloatWidth
      /\ tsAt = cogAt + FloatWidth /\ violatorAt = tsAt + DoubleWidth
  BY DEF violatorAt
<1> HIDE DEF latAt, lonAt, sogAt, cogAt, tsAt
<1>10. /\ latAt \in Nat /\ lonAt \in Nat /\ sogAt \in Nat /\ cogAt \in Nat /\ tsAt \in Nat
       /\ violatorAt \in Nat
  <2>1. latAt \in Nat
    BY <1>7, <1>8 DEF latAt
  <2>2. lonAt \in Nat
    BY <1>2, <2>1 DEF lonAt
  <2>3. sogAt \in Nat
    BY <1>2, <2>2 DEF sogAt
  <2>4. cogAt \in Nat
    BY <1>2, <2>3 DEF cogAt
  <2>5. tsAt \in Nat
    BY <1>2, <2>4 DEF tsAt
  <2>6. violatorAt \in Nat
    BY <1>2, <2>5 DEF violatorAt
  <2> QED BY <2>1, <2>2, <2>3, <2>4, <2>5, <2>6
<1>11. violatorAt < Len(bytes)
  BY <1>2, <1>4, <1>10
<1>12. /\ (offset + 1) + idLen <= Len(bytes) /\ (mmsiAt + 1) + mmsiLen <= Len(bytes)
       /\ latAt + DoubleWidth <= Len(bytes) /\ lonAt + DoubleWidth <= Len(bytes)
       /\ sogAt + FloatWidth <= Len(bytes) /\ cogAt + FloatWidth <= Len(bytes)
       /\ tsAt + DoubleWidth <= Len(bytes)
  BY <1>2, <1>6, <1>7, <1>8, <1>9, <1>10, <1>11
<1>13. /\ Bytes(bytes, offset + 1, idLen) \in Seq(Byte)
       /\ Bytes(bytes, mmsiAt + 1, mmsiLen) \in Seq(Byte)
  <2>1. offset + 1 \in Nat /\ mmsiAt + 1 \in Nat
    BY <1>7
  <2> QED BY <1>6, <1>8, <1>12, <2>1, BytesType
<1>14. /\ NumberAt(bytes, latAt, DoubleWidth) \in Nat
       /\ NumberAt(bytes, lonAt, DoubleWidth) \in Nat
       /\ NumberAt(bytes, sogAt, FloatWidth) \in Nat
       /\ NumberAt(bytes, cogAt, FloatWidth) \in Nat
       /\ NumberAt(bytes, tsAt, DoubleWidth) \in Nat
  BY <1>2, <1>10, <1>12, BytesType, NumberType DEF NumberAt
<1>15. (bytes[violatorAt + 1] = 1) \in BOOLEAN
  OBVIOUS
<1>16. violatorAt + 1 \in Nat
  BY <1>10
<1> HIDE DEF violatorAt
<1>17. u.next = violatorAt + 1
  BY <1>1, Zenon
<1>18. u.record = [VesselID |-> Bytes(bytes, offset + 1, idLen),
                          MMSI |-> Bytes(bytes, mmsiAt + 1, mmsiLen),
                          Lat |-> NumberAt(bytes, latAt, DoubleWidth),
                          Lon |-> NumberAt(bytes, lonAt, DoubleWidth),
                          SOGKnots |-> NumberAt(bytes, sogAt, FloatWidth),
                          COGDegrees |-> NumberAt(bytes, cogAt, FloatWidth),
                          TSUnixMs |-> NumberAt(bytes, tsAt, DoubleWidth),
                          IsScriptedViolator |-> bytes[violatorAt + 1] = 1]
  BY <1>1, Zenon
<1>19. u.record \in AISRecord
  BY <1>13, <1>14, <1>15, <1>18 DEF AISRecord
<1> QED BY <1>16, <1>17, <1>19
(* One turn of the loop over the records of a datagram.                    *)
AreRead(read, bytes, count) ==
    read = [i \in 0..count |->
              IF i = 0 THEN {[offset |-> 2 * IntWidth, records |-> << >>]}
              ELSE UNION { {[offset |-> u.next, records |-> Append(done.records, u.record)] :
                              u \in UnmarshalRecord(bytes, done.offset)} : done \in read[i - 1] }]

Progress == [offset : Nat, records : Seq(AISRecord)]

LEMMA ReadOneMore ==
    ASSUME NEW bytes \in Seq(Byte), NEW got \in SUBSET Progress
    PROVE  UNION { {[offset |-> u.next, records |-> Append(done.records, u.record)] :
                      u \in UnmarshalRecord(bytes, done.offset)} : done \in got } \in SUBSET Progress
<1>1. SUFFICES ASSUME NEW done \in got, NEW u \in UnmarshalRecord(bytes, done.offset)
               PROVE  [offset |-> u.next, records |-> Append(done.records, u.record)] \in Progress
  OBVIOUS
<1>2. done.offset \in Nat /\ done.records \in Seq(AISRecord)
  BY <1>1 DEF Progress
<1>3. u.next \in Nat /\ u.record \in AISRecord
  BY <1>1, <1>2, UnmarshalRecordType
<1>4. Append(done.records, u.record) \in Seq(AISRecord)
  BY <1>2, <1>3, AppendProperties
<1> QED BY <1>3, <1>4 DEF Progress

LEMMA UnmarshalRecordsType ==
    ASSUME NEW bytes \in Seq(Byte), NEW count \in Nat
    PROVE  UnmarshalRecords(bytes, count) \subseteq Seq(AISRecord)
<1> DEFINE More(got) ==
             UNION { {[offset |-> u.next, records |-> Append(done.records, u.record)] :
                        u \in UnmarshalRecord(bytes, done.offset)} : done \in got }
           start == {[offset |-> 2 * IntWidth, records |-> << >>]}
           P == SUBSET Progress
           F == [x \in (0..count) \X P |-> More(x[2])]
           read == CHOOSE read : AreRead(read, bytes, count)
           G == {i \in Nat : i <= count => read[i] \in P}
<1>1. start \in P
  <2>1. 2 * IntWidth \in Nat
    BY CodecAssumption
  <2>2. << >> \in Seq(AISRecord)
    BY EmptySeq
  <2> QED BY <2>1, <2>2 DEF Progress
<1>2. \A got \in P : More(got) \in P
  <2> SUFFICES ASSUME NEW got \in P PROVE More(got) \in P
    OBVIOUS
  <2> QED BY ReadOneMore
<1> HIDE DEF P, start, More
<1>3. \E f : AreRead(f, bytes, count)
  <2>1. \A i \in 0..count, got \in P : F[<<i, got>>] = More(got)
    OBVIOUS
  <2>2. \A i \in 0..count, got \in P : F[<<i, got>>] \in P
    BY <1>2, <2>1
  <2> HIDE DEF F
  <2>3. PICK f : Recursive(f, 0, count, P, start, F)
    BY <1>1, <2>2, RecursionFromZero
  <2>4. f \in [0..count -> P] /\ f[0] = start /\ \A i \in 1..count : f[i] = F[<<i, f[i - 1]>>]
    BY <2>3 DEF Recursive
  <2>5. \A i \in 0..count : i # 0 => i \in 1..count /\ i - 1 \in 0..count
    OBVIOUS
  <2>6. \A i \in 0..count : i # 0 => f[i] = More(f[i - 1])
    BY <2>1, <2>4, <2>5
  <2>7. f = [i \in 0..count |-> IF i = 0 THEN start ELSE More(f[i - 1])]
    BY <2>4, <2>6
  <2> QED BY <2>7 DEF AreRead, start, More
<1>4. AreRead(read, bytes, count)
  BY <1>3, Zenon
<1>5. UnmarshalRecords(bytes, count) = {done.records : done \in read[count]}
  BY Zenon DEF UnmarshalRecords, AreRead
<1> HIDE DEF read
<1>6. \A i \in 0..count : read[i] = IF i = 0 THEN start ELSE More(read[i - 1])
  <2>1. read = [i \in 0..count |-> IF i = 0 THEN start ELSE More(read[i - 1])]
    BY <1>4 DEF AreRead, start, More
  <2> QED BY <2>1
<1>7. 0 \in G
  BY <1>1, <1>6
<1>8. ASSUME NEW i \in Nat, i \in G PROVE i + 1 \in G
  <2>1. SUFFICES ASSUME i + 1 <= count PROVE read[i + 1] \in P
    OBVIOUS
  <2>2. i + 1 \in 0..count /\ i + 1 # 0 /\ (i + 1) - 1 = i /\ read[i] \in P
    BY <1>8, <2>1
  <2> QED BY <1>2, <1>6, <2>2
<1>9. count \in G
  <2>1. Nat \subseteq G
    <3> HIDE DEF G
    <3> QED BY <1>7, <1>8, NatInductionSet
  <2> HIDE DEF G
  <2> QED BY <2>1
<1>10. read[count] \in P
  BY <1>9
<1>11. \A done \in read[count] : done.records \in Seq(AISRecord)
  BY <1>10 DEF P, Progress
<1> QED BY <1>5, <1>11

LEMMA UnmarshalBinaryType ==
    ASSUME NEW bytes \in Seq(Byte)
    PROVE  UnmarshalBinary(bytes) \subseteq AISBatch
<1>1. SUFFICES ASSUME NEW b \in UnmarshalBinary(bytes) PROVE b \in AISBatch
  OBVIOUS
<1>2. ~(Len(bytes) < 2 * IntWidth)
  BY <1>1 DEF UnmarshalBinary
<1>3. PICK records \in UnmarshalRecords(bytes, NumberAt(bytes, IntWidth, IntWidth)) :
        b = [BatchSeq |-> NumberAt(bytes, 0, IntWidth), Records |-> records]
  BY <1>1, <1>2, Zenon DEF UnmarshalBinary
<1>4. IntWidth \in Nat /\ Len(bytes) \in Nat
  BY CodecAssumption, LenProperties
<1>5. NumberAt(bytes, 0, IntWidth) \in Nat /\ NumberAt(bytes, IntWidth, IntWidth) \in Nat
  <2>1. 0 + IntWidth <= Len(bytes) /\ IntWidth + IntWidth <= Len(bytes) /\ 0 \in Nat
    BY <1>2, <1>4
  <2>2. Bytes(bytes, 0, IntWidth) \in Seq(Byte) /\ Bytes(bytes, IntWidth, IntWidth) \in Seq(Byte)
    BY <1>4, <2>1, BytesType
  <2> QED BY <2>2, NumberType DEF NumberAt
<1>6. records \in Seq(AISRecord)
  BY <1>3, <1>5, UnmarshalRecordsType
<1> QED BY <1>3, <1>5, <1>6 DEF AISBatch
-----------------------------------------------------------------------------
(* The round over the vessels.                                             *)

LEMMA VesselsFinite ==
    /\ IsFiniteSet(VesselIndex) /\ VesselIndex \subseteq Nat
    /\ \A w \in SimWorker : Shard(w) \subseteq VesselIndex /\ Cardinality(Shard(w)) \in Nat
<1>1. IsFiniteSet(VesselIndex) /\ VesselIndex \subseteq Nat
  <2>1. 0 \in Int /\ VesselCount - 1 \in Int
    BY EngineAssumption
  <2> QED BY <2>1, FS_Interval DEF VesselIndex
<1>2. ASSUME NEW w \in SimWorker
      PROVE  Shard(w) \subseteq VesselIndex /\ Cardinality(Shard(w)) \in Nat
  <2>1. Shard(w) \subseteq VesselIndex
    BY DEF Shard
  <2> QED BY <1>1, <2>1, FS_Subset, FS_CardinalityType
<1> QED BY <1>1, <1>2

(* Every index of a shard is that of a vessel.                             *)
LEMMA ShardIndex ==
    ASSUME NEW w \in SimWorker, Shard(w) # {}, NEW n \in Nat
    PROVE  w + NumWorkers * (n % Cardinality(Shard(w))) \in VesselIndex
<1> DEFINE c == Cardinality(Shard(w))
           m == n % c
           q == [i \in Shard(w) |-> i \div NumWorkers]
<1>1. c \in Nat \ {0}
  <2>1. IsFiniteSet(Shard(w)) /\ c \in Nat
    BY VesselsFinite, FS_Subset
  <2> QED BY <2>1, FS_EmptySet
<1>2. m \in Nat /\ m < c
  <2> HIDE DEF c
  <2> QED BY <1>1
<1>3. NumWorkers \in Nat \ {0} /\ w \in Nat /\ VesselCount \in Nat
  BY TransportAssumption, EngineAssumption DEF SimWorker
<1> HIDE DEF c, m
<1>4. NumWorkers * m \in Nat
  BY <1>2, <1>3
<1>5. SUFFICES ASSUME w + NumWorkers * m >= VesselCount PROVE FALSE
  <2>1. w + NumWorkers * m < VesselCount => w + NumWorkers * m \in VesselIndex
    BY <1>3, <1>4 DEF VesselIndex
  <2>2. w + NumWorkers * m \in Nat
    BY <1>3, <1>4
  <2>3. w + NumWorkers * m \in VesselIndex
    BY <1>3, <1>5, <2>1, <2>2
  <2> QED BY <2>3 DEF m, c
<1>6. \A i \in Shard(w) : /\ i \in Nat /\ i < VesselCount /\ i \div NumWorkers \in Nat
                          /\ i = (NumWorkers * (i \div NumWorkers)) + w
  <2>1. SUFFICES ASSUME NEW i \in Shard(w)
                 PROVE  /\ i \in Nat /\ i < VesselCount /\ i \div NumWorkers \in Nat
                        /\ i = (NumWorkers * (i \div NumWorkers)) + w
    OBVIOUS
  <2>2. i \in Nat /\ i < VesselCount /\ i % NumWorkers = w
    BY <1>3 DEF Shard, VesselIndex
  <2>3. i \div NumWorkers \in Nat
    BY <1>3, <2>2
  <2>4. i = (NumWorkers * (i \div NumWorkers)) + (i % NumWorkers)
    BY <1>3, <2>2
  <2> QED BY <2>2, <2>3, <2>4
<1>7. \A i \in Shard(w) : i \div NumWorkers \in 0..(m - 1)
  <2>1. SUFFICES ASSUME NEW i \in Shard(w) PROVE i \div NumWorkers \in 0..(m - 1)
    OBVIOUS
  <2> DEFINE p == i \div NumWorkers
  <2>2. p \in Nat /\ NumWorkers * p < NumWorkers * m
    BY <1>3, <1>4, <1>5, <1>6
  <2> HIDE DEF p
  <2>3. p < m
    <3>1. SUFFICES ASSUME m <= p PROVE FALSE
      BY <1>2, <2>2
    <3>2. NumWorkers * m <= NumWorkers * p
      BY <1>2, <1>3, <2>2, <3>1
    <3>3. NumWorkers * p \in Nat
      BY <1>3, <2>2
    <3> QED BY <1>4, <2>2, <3>2, <3>3
  <2>4. p \in 0..(m - 1)
    BY <1>2, <2>2, <2>3
  <2> QED BY <2>4 DEF p
<1>8. q \in Injection(Shard(w), 0..(m - 1))
  BY <1>6, <1>7 DEF Injection, IsInjective
<1>9. IsFiniteSet(0..(m - 1)) /\ Cardinality(0..(m - 1)) = m
  <2>1. 0 \in Int /\ m - 1 \in Int
    BY <1>2
  <2>2. Cardinality(0..(m - 1)) = IF 0 > m - 1 THEN 0 ELSE ((m - 1) - 0) + 1
    BY <2>1, FS_Interval
  <2>3. IsFiniteSet(0..(m - 1))
    BY <2>1, FS_Interval
  <2> QED BY <1>2, <2>2, <2>3
<1>10. Cardinality(Shard(w)) <= m
  <2>1. \E f : f \in Injection(Shard(w), 0..(m - 1))
    BY <1>8
  <2>2. Injection(Shard(w), 0..(m - 1)) # {}
    BY <2>1
  <2> QED BY <1>9, <2>1, <2>2, FS_Injection
<1> QED BY <1>1, <1>2, <1>10 DEF c

LEMMA VesselAtType ==
    ASSUME NEW w \in SimWorker, Shard(w) # {}, vesselIdx[w] \in Nat, NEW j \in Nat \ {0}
    PROVE  VesselAt(w, j) \in VesselIndex
<1>1. vesselIdx[w] + j - 1 \in Nat
  OBVIOUS
<1> QED BY <1>1, ShardIndex DEF VesselAt

LEMMA TicksType ==
    ASSUME NEW w \in SimWorker, NEW i \in VesselIndex, NEW j \in Nat
    PROVE  /\ TicksUpTo(w, i, j) \in 0..j
           /\ TicksUpTo(w, i, 0) = 0
           /\ TicksUpTo(w, i, j + 1) = TicksUpTo(w, i, j) + (IF VesselAt(w, j + 1) = i THEN 1 ELSE 0)
<1> DEFINE T(k) == {l \in 1..k : VesselAt(w, l) = i}
<1>1. \A k \in Nat : IsFiniteSet(1..k) /\ Cardinality(1..k) = k
  BY FS_Interval
<1>2. IsFiniteSet(T(j)) /\ Cardinality(T(j)) \in 0..j
  <2>1. T(j) \subseteq 1..j
    OBVIOUS
  <2> HIDE DEF T
  <2>2. IsFiniteSet(T(j)) /\ Cardinality(T(j)) <= Cardinality(1..j)
    BY <1>1, <2>1, FS_Subset
  <2> QED BY <1>1, <2>2, FS_CardinalityType
<1>3. Cardinality(T(0)) = 0
  <2>1. T(0) = {}
    OBVIOUS
  <2> HIDE DEF T
  <2> QED BY <2>1, FS_EmptySet
<1>4. Cardinality(T(j + 1)) = Cardinality(T(j)) + (IF VesselAt(w, j + 1) = i THEN 1 ELSE 0)
  <2>1. 1..(j + 1) = (1..j) \cup {j + 1} /\ j + 1 \notin 1..j
    OBVIOUS
  <2>2. CASE VesselAt(w, j + 1) = i
    <3>1. T(j + 1) = T(j) \cup {j + 1} /\ j + 1 \notin T(j)
      BY <2>1, <2>2
    <3> HIDE DEF T
    <3>2. Cardinality(T(j) \cup {j + 1}) = Cardinality(T(j)) + 1
      BY <1>2, <3>1, FS_AddElement
    <3> QED BY <2>2, <3>1, <3>2
  <2>3. CASE VesselAt(w, j + 1) # i
    <3>1. T(j + 1) = T(j)
      BY <2>1, <2>3
    <3> HIDE DEF T
    <3> QED BY <1>2, <2>3, <3>1
  <2> QED BY <2>2, <2>3
<1>5. \A k \in Nat : TicksUpTo(w, i, k) = Cardinality(T(k))
  BY DEF TicksUpTo
<1> HIDE DEF T
<1>6. j + 1 \in Nat /\ 0 \in Nat
  OBVIOUS
<1> QED BY <1>2, <1>3, <1>4, <1>5, <1>6

(* A batch ticks as many vessels as it has records.                        *)
LEMMA TicksSum ==
    ASSUME NEW w \in SimWorker, Shard(w) # {}, vesselIdx[w] \in Nat,
           made \in [VesselIndex -> Nat], NEW size \in Nat
    PROVE  /\ [i \in VesselIndex |-> made[i] + TicksUpTo(w, i, size)] \in [VesselIndex -> Nat]
           /\ SumFunction([i \in VesselIndex |-> made[i] + TicksUpTo(w, i, size)])
              = SumFunction(made) + size
<1> DEFINE f(j) == [i \in VesselIndex |-> made[i] + TicksUpTo(w, i, j)]
           G == {j \in Nat : SumFunction(f(j)) = SumFunction(made) + j}
<1>1. SumFunction(made) \in Nat /\ IsFiniteSet(VesselIndex)
  BY SumType, VesselsFinite
<1>2. \A j \in Nat : f(j) \in [VesselIndex -> Nat]
  <2>1. \A j \in Nat, i \in VesselIndex : TicksUpTo(w, i, j) \in Nat
    <3>1. \A j \in Nat, i \in VesselIndex : TicksUpTo(w, i, j) \in 0..j
      BY TicksType
    <3> QED BY <3>1
  <2> QED BY <2>1
<1>3. \A j \in Nat, i \in VesselIndex : f(j)[i] = made[i] + TicksUpTo(w, i, j)
  OBVIOUS
<1>4. f(0) = made
  <2>1. \A i \in VesselIndex : TicksUpTo(w, i, 0) = 0
    BY TicksType
  <2> QED BY <2>1
<1> HIDE DEF f
<1>5. 0 \in G
  BY <1>1, <1>4
<1>6. ASSUME NEW j \in Nat, j \in G PROVE j + 1 \in G
  <2> DEFINE x == VesselAt(w, j + 1)
  <2>1. x \in VesselIndex
    BY VesselAtType
  <2>2. \A i \in VesselIndex : /\ TicksUpTo(w, i, j + 1) = TicksUpTo(w, i, j) + (IF x = i THEN 1 ELSE 0)
                               /\ TicksUpTo(w, i, j) \in 0..j
    BY TicksType
  <2> HIDE DEF x
  <2>3. f(j + 1)[x] = f(j)[x] + 1
    BY <1>3, <2>1, <2>2
  <2>4. \A i \in VesselIndex \ {x} : f(j + 1)[i] = f(j)[i]
    BY <1>3, <2>2
  <2>5. f(j) \in [VesselIndex -> Nat] /\ f(j + 1) \in [VesselIndex -> Nat] /\ 1 \in Nat
    BY <1>2
  <2>6. SumFunction(f(j + 1)) = SumFunction(f(j)) + 1
    BY <1>1, <2>1, <2>3, <2>4, <2>5, SumGrows
  <2>7. SumFunction(f(j)) = SumFunction(made) + j
    BY <1>6
  <2> QED BY <1>1, <2>6, <2>7
<1>7. size \in G
  <2>1. Nat \subseteq G
    <3> HIDE DEF G
    <3> QED BY <1>5, <1>6, NatInductionSet
  <2> HIDE DEF G
  <2> QED BY <2>1
<1>8. f(size) \in [VesselIndex -> Nat] /\ SumFunction(f(size)) = SumFunction(made) + size
  BY <1>2, <1>7
<1> QED BY <1>8 DEF f

LEMMA SumAtLeast ==
    ASSUME NEW S, IsFiniteSet(S), NEW f \in [S -> Nat], NEW x \in S
    PROVE  f[x] <= SumFunction(f) /\ SumFunction(f) \in Nat
<1> DEFINE g == [y \in S |-> IF y = x THEN 0 ELSE f[y]]
<1>1. g \in [S -> Nat] /\ f[x] \in Nat /\ f[x] = g[x] + f[x] /\ \A y \in S \ {x} : f[y] = g[y]
  OBVIOUS
<1> HIDE DEF g
<1>2. SumFunction(f) = SumFunction(g) + f[x]
  BY <1>1, SumGrows
<1>3. SumFunction(g) \in Nat
  BY <1>1, SumType
<1> QED BY <1>1, <1>2, <1>3
-----------------------------------------------------------------------------
(* The type invariant.  The bound on the batches is met because vessels    *)
(* are ticked batch by batch, and a write that fails has bytes to write.   *)

TransportOK ==
    /\ TransportTypeOK
    /\ \A w \in SimWorker : call[w] # "none" => Len(data[w]) \in Nat \ {0}

RoundOK ==
    /\ EngineTypeOK
    /\ \A w \in SimWorker : at[w] # "done" => Shard(w) # {}
    /\ \E k \in Nat : k <= MaxBatches /\ SumFunction(made) = k * BatchSize

TypeInv == TransportOK /\ RoundOK /\ IngestionTypeOK
           /\ seen \in [VesselIndex -> Nat \cup {Garbled}]
           /\ disordered \subseteq VesselIndex

LEMMA Workers ==
    SimWorker \subseteq Nat /\ Free \notin SimWorker /\ IsFiniteSet(SimWorker)
<1>1. NumWorkers \in Nat
  BY TransportAssumption
<1>2. 0 \in Int /\ NumWorkers - 1 \in Int
  BY <1>1
<1> QED BY <1>1, <1>2, FS_Interval DEF SimWorker, Free

(* Send, as it begins, goes on, and returns.                               *)

LEMMA SendKeepsTransport ==
    ASSUME TransportOK, NEW w \in SimWorker, NEW b \in AISBatch, Send(w, b)
    PROVE  TransportOK'
<1>1. MarshalBinary(b) \in Seq(Byte) /\ Len(MarshalBinary(b)) \in Nat \ {0}
  BY MarshalBinaryType
<1>2. /\ call \in [SimWorker -> Calls] /\ data \in [SimWorker -> Seq(Byte)] /\ call[w] = "none"
      /\ data' = [data EXCEPT ![w] = MarshalBinary(b)]
      /\ call' = [call EXCEPT ![w] = IF mode = "udp" THEN "datagram" ELSE "lock"]
      /\ mode' = mode /\ wire' = wire /\ stream' = stream /\ holder' = holder /\ stats' = stats
  BY DEF TransportOK, TransportTypeOK, Send, Go
<1>3. call' \in [SimWorker -> Calls]
  BY <1>2 DEF Calls
<1>4. data' \in [SimWorker -> Seq(Byte)] /\ \A v \in SimWorker : v # w => data'[v] = data[v]
  BY <1>1, <1>2
<1>5. \A v \in SimWorker : call'[v] # "none" => Len(data'[v]) \in Nat \ {0}
  BY <1>1, <1>2, <1>4 DEF TransportOK
<1>6. \A v \in SimWorker : holder' = v <=> call'[v] \in {"length", "data"}
  <2>1. \A v \in SimWorker : holder = v <=> call[v] \in {"length", "data"}
    BY DEF TransportOK, TransportTypeOK
  <2>2. call'[w] \notin {"length", "data"} /\ call[w] \notin {"length", "data"}
    BY <1>2
  <2>3. \A v \in SimWorker : v # w => call'[v] = call[v]
    BY <1>2
  <2> QED BY <1>2, <2>1, <2>2, <2>3
<1> QED BY <1>2, <1>3, <1>4, <1>5, <1>6 DEF TransportOK, TransportTypeOK

(* A step of w inside Send that leaves what it writes alone.               *)
LEMMA CallKeepsTransport ==
    ASSUME TransportOK, NEW w \in SimWorker, NEW place \in Calls,
           call[w] # "none", call' = [call EXCEPT ![w] = place],
           mode' = mode, data' = data,
           wire' \in Seq(Seq(Byte)) /\ Len(wire') <= WireCap,
           stream' \in Seq(Byte),
           holder' \in SimWorker \cup {Free},
           stats' \in [BatchesSent : Nat, Errors : Nat],
           holder' = w <=> place \in {"length", "data"},
           \A v \in SimWorker : v # w => (holder' = v <=> holder = v)
    PROVE  TransportOK'
<1>1. call' \in [SimWorker -> Calls] /\ call'[w] = place
      /\ \A v \in SimWorker : v # w => call'[v] = call[v]
  BY DEF TransportOK, TransportTypeOK
<1>2. \A v \in SimWorker : holder = v <=> call[v] \in {"length", "data"}
  BY DEF TransportOK, TransportTypeOK
<1>3. \A v \in SimWorker : holder' = v <=> call'[v] \in {"length", "data"}
  BY <1>1, <1>2
<1>4. \A v \in SimWorker : call'[v] # "none" => Len(data'[v]) \in Nat \ {0}
  BY <1>1 DEF TransportOK
<1> QED BY <1>1, <1>3, <1>4 DEF TransportOK, TransportTypeOK

LEMMA CountingType ==
    ASSUME stats \in [BatchesSent : Nat, Errors : Nat]
    PROVE  /\ [stats EXCEPT !.BatchesSent = @ + 1] \in [BatchesSent : Nat, Errors : Nat]
           /\ [stats EXCEPT !.Errors = @ + 1] \in [BatchesSent : Nat, Errors : Nat]
  OBVIOUS

LEMMA SendStepKeepsTransport ==
    ASSUME TransportOK, NEW w \in SimWorker, SendStep(w) \/ Lock(w)
    PROVE  TransportOK'
<1> USE DEF Go, CountBatch, CountError
<1>1. /\ wire \in Seq(Seq(Byte)) /\ Len(wire) <= WireCap /\ Len(wire) \in Nat
      /\ stream \in Seq(Byte) /\ holder \in SimWorker \cup {Free}
      /\ stats \in [BatchesSent : Nat, Errors : Nat]
      /\ data[w] \in Seq(Byte)
      /\ \A v \in SimWorker : holder = v <=> call[v] \in {"length", "data"}
      /\ call[w] # "none" => Len(data[w]) \in Nat \ {0}
  BY LenProperties DEF TransportOK, TransportTypeOK
<1>2. w # Free /\ \A v \in SimWorker : v # Free
  BY Workers
<1>3. LengthPrefix(w) \in Seq(Byte) /\ Len(LengthPrefix(w)) \in Nat \ {0}
  <2>1. Len(data[w]) \in Nat /\ IntWidth \in Nat \ {0}
    BY <1>1, LenProperties, CodecAssumption
  <2> QED BY <2>1, LittleEndianType DEF LengthPrefix
<1>4. {"ok", "error", "length", "data"} \subseteq Calls
  BY DEF Calls
<1>5. CASE WriteDatagram(w)
  <2>1. /\ call[w] = "datagram" /\ mode' = mode /\ data' = data /\ stream' = stream
        /\ holder' = holder
        /\ wire' = wire \/ (Len(wire) < WireCap /\ wire' = Append(wire, data[w]))
        /\ \/ stats' = [stats EXCEPT !.BatchesSent = @ + 1] /\ call' = [call EXCEPT ![w] = "ok"]
           \/ stats' = [stats EXCEPT !.Errors = @ + 1] /\ call' = [call EXCEPT ![w] = "error"]
    BY <1>5 DEF WriteDatagram
  <2>2. wire' \in Seq(Seq(Byte)) /\ Len(wire') <= WireCap
    <3>1. CASE Len(wire) < WireCap /\ wire' = Append(wire, data[w])
      <4>1. wire' \in Seq(Seq(Byte)) /\ Len(wire') = Len(wire) + 1
        BY <1>1, <3>1, AppendProperties
      <4> QED BY <1>1, <3>1, <4>1, TransportAssumption
    <3> QED BY <1>1, <2>1, <3>1
  <2>3. stats' \in [BatchesSent : Nat, Errors : Nat]
    BY <1>1, <2>1, CountingType
  <2>4. holder' # w /\ call[w] # "none"
    BY <1>1, <2>1
  <2>5. CASE call' = [call EXCEPT ![w] = "ok"]
    BY <1>1, <1>4, <2>1, <2>2, <2>3, <2>4, <2>5, CallKeepsTransport
  <2>6. CASE call' = [call EXCEPT ![w] = "error"]
    BY <1>1, <1>4, <2>1, <2>2, <2>3, <2>4, <2>6, CallKeepsTransport
  <2> QED BY <2>1, <2>5, <2>6
<1>6. CASE WriteLength(w)
  <2>1. /\ call[w] = "length" /\ mode' = mode /\ data' = data /\ wire' = wire
        /\ holder' = holder /\ stats' = stats /\ stream' = stream \o LengthPrefix(w)
        /\ call' = [call EXCEPT ![w] = "data"]
    BY <1>6 DEF WriteLength
  <2>2. stream' \in Seq(Byte)
    BY <1>1, <1>3, <2>1, ConcatProperties
  <2>3. holder' = w /\ call[w] # "none"
    BY <1>1, <2>1
  <2> QED BY <1>1, <1>4, <2>1, <2>2, <2>3, CallKeepsTransport
<1>7. CASE WriteData(w)
  <2>1. /\ call[w] = "data" /\ mode' = mode /\ data' = data /\ wire' = wire
        /\ holder' = Free /\ stats' = [stats EXCEPT !.BatchesSent = @ + 1]
        /\ stream' = stream \o data[w]
        /\ call' = [call EXCEPT ![w] = "ok"]
    BY <1>7 DEF WriteData
  <2>2. stream' \in Seq(Byte) /\ stats' \in [BatchesSent : Nat, Errors : Nat]
    BY <1>1, <2>1, ConcatProperties, CountingType
  <2>3. holder = w /\ call[w] # "none" /\ holder' # w
        /\ \A v \in SimWorker : v # w => holder' # v /\ holder # v
    BY <1>1, <1>2, <2>1
  <2> QED BY <1>1, <1>4, <2>1, <2>2, <2>3, CallKeepsTransport
<1>8. CASE WriteFails(w)
  <2> DEFINE bytes == IF call[w] = "length" THEN LengthPrefix(w) ELSE data[w]
  <2>1. /\ call[w] \in {"length", "data"} /\ mode' = mode /\ data' = data /\ wire' = wire
        /\ holder' = Free /\ stats' = [stats EXCEPT !.Errors = @ + 1]
        /\ stream' \in {stream, Append(stream, Head(bytes))}
        /\ call' = [call EXCEPT ![w] = "error"]
    BY <1>8 DEF WriteFails
  <2>2. call[w] # "none"
    BY <2>1
  <2>3. bytes \in Seq(Byte) /\ Len(bytes) \in Nat \ {0}
    BY <1>1, <1>3, <2>2
  <2> HIDE DEF bytes
  <2>4. bytes # << >>
    BY <2>3
  <2>5. Head(bytes) \in Byte
    BY <2>3, <2>4, HeadTailProperties
  <2>6. Append(stream, Head(bytes)) \in Seq(Byte)
    BY <1>1, <2>5, AppendProperties
  <2>7. stream' \in Seq(Byte) /\ stats' \in [BatchesSent : Nat, Errors : Nat]
    BY <1>1, <2>1, <2>6, CountingType
  <2>8. holder = w /\ holder' # w /\ \A v \in SimWorker : v # w => holder' # v /\ holder # v
    BY <1>1, <1>2, <2>1
  <2> QED BY <1>1, <1>4, <2>1, <2>2, <2>7, <2>8, CallKeepsTransport
<1>9. CASE Lock(w)
  <2>1. /\ call[w] = "lock" /\ holder = Free /\ mode' = mode /\ data' = data /\ wire' = wire
        /\ holder' = w /\ stats' = stats /\ stream' = stream
        /\ call' = [call EXCEPT ![w] = "length"]
    BY <1>9 DEF Lock
  <2>2. call[w] # "none" /\ \A v \in SimWorker : v # w => holder' # v /\ holder # v
    BY <1>2, <2>1
  <2> QED BY <1>1, <1>4, <2>1, <2>2, CallKeepsTransport
<1> QED BY <1>5, <1>6, <1>7, <1>8, <1>9 DEF SendStep

LEMMA ReturnKeepsTransport ==
    ASSUME TransportOK, NEW w \in SimWorker, Return(w)
    PROVE  TransportOK'
<1>1. /\ call \in [SimWorker -> Calls] /\ data \in [SimWorker -> Seq(Byte)]
      /\ call[w] \in {"ok", "error"}
      /\ call' = [call EXCEPT ![w] = "none"] /\ data' = [data EXCEPT ![w] = << >>]
      /\ mode' = mode /\ wire' = wire /\ stream' = stream /\ holder' = holder /\ stats' = stats
  BY DEF TransportOK, TransportTypeOK, Return, Returned
<1>2. call' \in [SimWorker -> Calls] /\ data' \in [SimWorker -> Seq(Byte)]
  <2>1. << >> \in Seq(Byte)
    BY EmptySeq
  <2> QED BY <1>1, <2>1 DEF Calls
<1>3. call'[w] = "none" /\ \A v \in SimWorker : v # w => call'[v] = call[v] /\ data'[v] = data[v]
  BY <1>1
<1>4. \A v \in SimWorker : call'[v] # "none" => Len(data'[v]) \in Nat \ {0}
  BY <1>3 DEF TransportOK
<1>5. \A v \in SimWorker : holder = v <=> call[v] \in {"length", "data"}
  BY DEF TransportOK, TransportTypeOK
<1>6. \A v \in SimWorker : holder' = v <=> call'[v] \in {"length", "data"}
  BY <1>1, <1>3, <1>5
<1> QED BY <1>1, <1>2, <1>4, <1>6 DEF TransportOK, TransportTypeOK
(* What a worker fills its batch with are reports.                         *)
LEMMA FillType ==
    ASSUME RoundOK, NEW w \in SimWorker, at[w] = "select", SumFunction(made) < MaxBatches * BatchSize
    PROVE  /\ Fill(w) \in Seq(AISRecord)
           /\ SumFunction(made) + BatchSize <= BatchSize * MaxBatches
           /\ \E k \in Nat : k <= MaxBatches /\ SumFunction(made) + BatchSize = k * BatchSize
<1>1. /\ made \in [VesselIndex -> Nat] /\ vesselIdx[w] \in Nat /\ Shard(w) # {}
      /\ BatchSize \in Nat \ {0} /\ MaxBatches \in Nat
  BY EngineAssumption DEF RoundOK, EngineTypeOK
<1>2. PICK k \in Nat : k <= MaxBatches /\ SumFunction(made) = k * BatchSize
  BY DEF RoundOK
<1>3. k < MaxBatches
  <2>1. k # MaxBatches
    <3>1. MaxBatches * BatchSize \in Nat
      BY <1>1
    <3>2. ~(MaxBatches * BatchSize < MaxBatches * BatchSize)
      BY <3>1
    <3>3. SumFunction(made) # MaxBatches * BatchSize
      BY <3>2, Zenon
    <3> QED BY <1>2, <3>3, Zenon
  <2> QED BY <1>1, <1>2, <2>1
<1>4. k + 1 \in Nat /\ k + 1 <= MaxBatches /\ (k + 1) * BatchSize = (k * BatchSize) + BatchSize
  BY <1>1, <1>3
<1>5. (k + 1) * BatchSize <= MaxBatches * BatchSize
  BY <1>1, <1>4
<1>6. SumFunction(made) + BatchSize <= BatchSize * MaxBatches
  <2>1. MaxBatches * BatchSize = BatchSize * MaxBatches
    BY <1>1
  <2>2. SumFunction(made) + BatchSize = (k + 1) * BatchSize
    BY <1>2, <1>4
  <2> QED BY <1>5, <2>1, <2>2
<1>7. \A j \in 1..BatchSize :
        LET i == VesselAt(w, j) IN ReportOf[i][made[i] + TicksUpTo(w, i, j)] \in AISRecord
  <2>1. SUFFICES ASSUME NEW j \in 1..BatchSize
                 PROVE  LET i == VesselAt(w, j) IN
                        ReportOf[i][made[i] + TicksUpTo(w, i, j)] \in AISRecord
    OBVIOUS
  <2> DEFINE i == VesselAt(w, j)
             t == TicksUpTo(w, i, j)
  <2>2. j \in Nat \ {0} /\ j <= BatchSize /\ j - 1 \in Nat /\ (j - 1) + 1 = j
    BY <1>1
  <2>3. i \in VesselIndex
    BY <1>1, <2>2, VesselAtType
  <2>4. t \in 0..j /\ t \in Nat \ {0}
    <3>1. TicksUpTo(w, i, j) \in 0..j
      BY <2>2, <2>3, TicksType
    <3>2. /\ TicksUpTo(w, i, j - 1) \in 0..(j - 1)
          /\ TicksUpTo(w, i, (j - 1) + 1)
             = TicksUpTo(w, i, j - 1) + (IF VesselAt(w, (j - 1) + 1) = i THEN 1 ELSE 0)
      <4>1. j - 1 \in Nat
        BY <2>2
      <4> HIDE DEF i, t
      <4> QED BY <2>3, <4>1, TicksType
    <3>3. TicksUpTo(w, i, j) = TicksUpTo(w, i, j - 1) + 1
      BY <2>2, <3>2
    <3> HIDE DEF i
    <3> QED BY <2>2, <3>1, <3>2, <3>3
  <2> HIDE DEF i, t
  <2>5. made[i] \in Nat /\ made[i] <= SumFunction(made) /\ SumFunction(made) \in Nat
    <3>1. IsFiniteSet(VesselIndex)
      BY VesselsFinite
    <3>2. made[i] <= SumFunction(made) /\ SumFunction(made) \in Nat
      BY <1>1, <2>3, <3>1, SumAtLeast
    <3> QED BY <1>1, <2>3, <3>2
  <2>6. BatchSize * MaxBatches \in Nat
    BY <1>1
  <2>7. made[i] + t \in 1..(BatchSize * MaxBatches)
    BY <1>1, <1>6, <2>2, <2>4, <2>5, <2>6
  <2>8. ReportOf[i][made[i] + t] \in AISRecord
    BY <2>3, <2>7, EngineAssumption
  <2> QED BY <2>8 DEF i, t
<1>8. Fill(w) \in [1..BatchSize -> AISRecord]
  BY <1>7 DEF Fill
<1>9. Fill(w) \in Seq(AISRecord)
  BY <1>1, <1>8, SequenceOver
<1>10. \E l \in Nat : l <= MaxBatches /\ SumFunction(made) + BatchSize = l * BatchSize
  BY <1>2, <1>4
<1> QED BY <1>6, <1>9, <1>10

LEMMA SendNextKeeps ==
    ASSUME TransportOK, RoundOK, NEW w \in SimWorker, NEW records \in Seq(AISRecord),
           NEW place \in {"send", "flush"}, at[w] = "select", SendNext(w, records, place)
    PROVE  /\ TransportOK'
           /\ at' \in [SimWorker -> {"select", "send", "flush", "done"}]
           /\ batch' \in [SimWorker -> AISBatch]
           /\ \A v \in SimWorker : call'[v] # "none" => at'[v] \in {"send", "flush"}
           /\ \A v \in SimWorker : at'[v] # "done" => Shard(v) # {}
<1> DEFINE next == [Records |-> records, BatchSeq |-> batch[w].BatchSeq + 1]
<1>1. /\ batch \in [SimWorker -> AISBatch]
      /\ at \in [SimWorker -> {"select", "send", "flush", "done"}]
      /\ \A v \in SimWorker : call[v] # "none" => at[v] \in {"send", "flush"}
      /\ \A v \in SimWorker : at[v] # "done" => Shard(v) # {}
      /\ call \in [SimWorker -> Calls]
  BY DEF RoundOK, EngineTypeOK, TransportOK, TransportTypeOK
<1>2. batch' = [batch EXCEPT ![w] = next] /\ Send(w, next) /\ at' = [at EXCEPT ![w] = place]
  BY DEF SendNext
<1>3. next \in AISBatch
  <2>1. batch[w] \in AISBatch
    BY <1>1
  <2>2. batch[w].BatchSeq \in Nat
    BY <2>1 DEF AISBatch
  <2> QED BY <2>2 DEF AISBatch
<1> HIDE DEF next
<1>4. TransportOK'
  BY <1>2, <1>3, SendKeepsTransport
<1>5. \A v \in SimWorker : v # w => call'[v] = call[v] /\ at'[v] = at[v]
  BY <1>1, <1>2 DEF Send, Go
<1>6. at'[w] = place
  BY <1>1, <1>2
<1>7. \A v \in SimWorker : call'[v] # "none" => at'[v] \in {"send", "flush"}
  BY <1>1, <1>5, <1>6
<1>8. \A v \in SimWorker : at'[v] # "done" => Shard(v) # {}
  BY <1>1, <1>5, <1>6
<1>9. batch' \in [SimWorker -> AISBatch]
  BY <1>1, <1>2, <1>3
<1>10. at' \in [SimWorker -> {"select", "send", "flush", "done"}]
  BY <1>1, <1>2
<1> QED BY <1>4, <1>7, <1>8, <1>9, <1>10

LEMMA TickKeeps ==
    ASSUME TransportOK, RoundOK, NEW w \in SimWorker, Tick(w)
    PROVE  TransportOK' /\ RoundOK'
<1>1. /\ at[w] = "select" /\ SumFunction(made) < MaxBatches * BatchSize
      /\ SendNext(w, Fill(w), "send")
      /\ vesselIdx' = [vesselIdx EXCEPT ![w] = @ + BatchSize]
      /\ made' = [i \in VesselIndex |-> made[i] + TicksUpTo(w, i, BatchSize)]
      /\ simCancelled' = simCancelled /\ totals' = totals
  BY DEF Tick
<1>2. /\ Fill(w) \in Seq(AISRecord)
      /\ \E k \in Nat : k <= MaxBatches /\ SumFunction(made) + BatchSize = k * BatchSize
  BY <1>1, FillType
<1>3. /\ TransportOK'
      /\ at' \in [SimWorker -> {"select", "send", "flush", "done"}]
      /\ batch' \in [SimWorker -> AISBatch]
      /\ \A v \in SimWorker : call'[v] # "none" => at'[v] \in {"send", "flush"}
      /\ \A v \in SimWorker : at'[v] # "done" => Shard(v) # {}
  BY <1>1, <1>2, SendNextKeeps
<1>4. /\ made \in [VesselIndex -> Nat] /\ vesselIdx \in [SimWorker -> Nat] /\ Shard(w) # {}
      /\ BatchSize \in Nat /\ simCancelled \in BOOLEAN
      /\ totals \in [batches : Nat, errors : Nat]
  BY <1>1, EngineAssumption DEF RoundOK, EngineTypeOK
<1>5. made' \in [VesselIndex -> Nat] /\ SumFunction(made') = SumFunction(made) + BatchSize
  <2>1. vesselIdx[w] \in Nat
    BY <1>4
  <2> QED BY <1>1, <1>4, <2>1, TicksSum
<1>6. vesselIdx' \in [SimWorker -> Nat]
  BY <1>1, <1>4
<1>7. EngineTypeOK'
  BY <1>1, <1>3, <1>4, <1>5, <1>6 DEF EngineTypeOK
<1>8. \E k \in Nat : k <= MaxBatches /\ SumFunction(made') = k * BatchSize
  BY <1>2, <1>5
<1> QED BY <1>3, <1>7, <1>8 DEF RoundOK

LEMMA FlushKeeps ==
    ASSUME TransportOK, RoundOK, NEW w \in SimWorker, Flush(w)
    PROVE  TransportOK' /\ RoundOK'
<1>1. /\ at[w] = "select" /\ SendNext(w, batch[w].Records, "flush")
      /\ simCancelled' = simCancelled /\ vesselIdx' = vesselIdx /\ made' = made
      /\ totals' = totals
  BY DEF Flush
<1>2. batch[w].Records \in Seq(AISRecord)
  <2>1. batch[w] \in AISBatch
    BY DEF RoundOK, EngineTypeOK
  <2> QED BY <2>1 DEF AISBatch
<1>3. /\ TransportOK'
      /\ at' \in [SimWorker -> {"select", "send", "flush", "done"}]
      /\ batch' \in [SimWorker -> AISBatch]
      /\ \A v \in SimWorker : call'[v] # "none" => at'[v] \in {"send", "flush"}
      /\ \A v \in SimWorker : at'[v] # "done" => Shard(v) # {}
  BY <1>1, <1>2, SendNextKeeps
<1> QED BY <1>1, <1>3 DEF RoundOK, EngineTypeOK

LEMMA CountKeeps ==
    ASSUME TransportOK, RoundOK, NEW w \in SimWorker, Count(w)
    PROVE  TransportOK' /\ RoundOK'
<1>1. /\ Return(w) /\ totals' = Counted(w)
      /\ at' = [at EXCEPT ![w] = IF at[w] = "flush" THEN "done" ELSE "select"]
      /\ simCancelled' = simCancelled /\ batch' = batch /\ vesselIdx' = vesselIdx /\ made' = made
  BY DEF Count
<1>2. TransportOK'
  BY <1>1, ReturnKeepsTransport
<1>3. /\ at \in [SimWorker -> {"select", "send", "flush", "done"}]
      /\ totals \in [batches : Nat, errors : Nat]
      /\ call \in [SimWorker -> Calls]
      /\ \A v \in SimWorker : call[v] # "none" => at[v] \in {"send", "flush"}
      /\ \A v \in SimWorker : at[v] # "done" => Shard(v) # {}
  BY DEF RoundOK, EngineTypeOK, TransportOK, TransportTypeOK
<1>4. call[w] # "none" /\ call' = [call EXCEPT ![w] = "none"]
  BY <1>1 DEF Return, Returned
<1>5. at[w] \in {"send", "flush"} /\ Shard(w) # {}
  BY <1>3, <1>4
<1>6. totals' \in [batches : Nat, errors : Nat]
  BY <1>1, <1>3 DEF Counted
<1>7. /\ at' \in [SimWorker -> {"select", "send", "flush", "done"}]
      /\ call'[w] = "none"
      /\ \A v \in SimWorker : v # w => at'[v] = at[v] /\ call'[v] = call[v]
  BY <1>1, <1>3, <1>4
<1>8. \A v \in SimWorker : call'[v] # "none" => at'[v] \in {"send", "flush"}
  BY <1>3, <1>7
<1>9. \A v \in SimWorker : at'[v] # "done" => Shard(v) # {}
  BY <1>3, <1>5, <1>7
<1> QED BY <1>1, <1>2, <1>6, <1>7, <1>8, <1>9 DEF RoundOK, EngineTypeOK

LEMMA QuitKeeps ==
    ASSUME TransportOK, RoundOK, NEW w \in SimWorker, Quit(w)
    PROVE  TransportOK' /\ RoundOK'
<1>1. /\ at[w] = "select" /\ at' = [at EXCEPT ![w] = "done"]
      /\ simCancelled' = simCancelled /\ batch' = batch /\ vesselIdx' = vesselIdx /\ made' = made
      /\ totals' = totals /\ UNCHANGED transportVars
  BY DEF Quit
<1>2. TransportOK'
  BY <1>1 DEF TransportOK, TransportTypeOK, transportVars
<1>3. /\ at \in [SimWorker -> {"select", "send", "flush", "done"}] /\ call' = call
      /\ \A v \in SimWorker : call[v] # "none" => at[v] \in {"send", "flush"}
      /\ \A v \in SimWorker : at[v] # "done" => Shard(v) # {}
  BY <1>1 DEF RoundOK, EngineTypeOK, transportVars
<1>4. at' \in [SimWorker -> {"select", "send", "flush", "done"}] /\ at'[w] = "done"
      /\ \A v \in SimWorker : v # w => at'[v] = at[v]
  BY <1>1, <1>3
<1>5. \A v \in SimWorker : call'[v] # "none" => at'[v] \in {"send", "flush"}
  BY <1>1, <1>3, <1>4
<1>6. \A v \in SimWorker : at'[v] # "done" => Shard(v) # {}
  BY <1>3, <1>4
<1> QED BY <1>1, <1>2, <1>4, <1>5, <1>6 DEF RoundOK, EngineTypeOK

LEMMA SendStepKeeps ==
    ASSUME TransportOK, RoundOK, NEW w \in SimWorker, SendStep(w) \/ Lock(w), UNCHANGED engineVars
    PROVE  TransportOK' /\ RoundOK'
<1>1. TransportOK'
  BY SendStepKeepsTransport
<1>2. /\ call \in [SimWorker -> Calls] /\ at' = at
      /\ \A v \in SimWorker : call[v] # "none" => at[v] \in {"send", "flush"}
  BY DEF RoundOK, EngineTypeOK, TransportOK, TransportTypeOK, engineVars
<1>3. call[w] # "none" /\ \A v \in SimWorker : v # w => call'[v] = call[v]
  BY <1>2 DEF SendStep, WriteDatagram, WriteLength, WriteData, WriteFails, Lock, Go
<1>4. \A v \in SimWorker : call'[v] # "none" => at'[v] \in {"send", "flush"}
  BY <1>2, <1>3
<1> QED BY <1>1, <1>4 DEF RoundOK, EngineTypeOK, engineVars
(* The ingestion.                                                          *)

LEMMA RemoveAtType ==
    ASSUME NEW S, NEW s \in Seq(S), NEW i \in 1..Len(s)
    PROVE  RemoveAt(s, i) \in Seq(S) /\ Len(RemoveAt(s, i)) = Len(s) - 1
<1>1. Len(s) \in Nat /\ \A k \in 1..Len(s) : s[k] \in S
  BY LenProperties, ElementOfSeq
<1>2. SubSeq(s, 1, i - 1) \in Seq(S) /\ Len(SubSeq(s, 1, i - 1)) = i - 1
  <2>1. 1 \in Int /\ i - 1 \in Int /\ \A k \in 1..(i - 1) : s[k] \in S
    BY <1>1
  <2>2. /\ SubSeq(s, 1, i - 1) \in Seq(S)
        /\ Len(SubSeq(s, 1, i - 1)) = IF 1 <= i - 1 THEN ((i - 1) - 1) + 1 ELSE 0
    BY <2>1, SubSeqProperties
  <2> QED BY <1>1, <2>2
<1>3. SubSeq(s, i + 1, Len(s)) \in Seq(S) /\ Len(SubSeq(s, i + 1, Len(s))) = Len(s) - i
  <2>1. i + 1 \in Int /\ Len(s) \in Int /\ \A k \in (i + 1)..Len(s) : s[k] \in S
    BY <1>1
  <2>2. /\ SubSeq(s, i + 1, Len(s)) \in Seq(S)
        /\ Len(SubSeq(s, i + 1, Len(s))) = IF i + 1 <= Len(s) THEN (Len(s) - (i + 1)) + 1 ELSE 0
    BY <2>1, SubSeqProperties
  <2> QED BY <1>1, <2>2
<1> DEFINE before == SubSeq(s, 1, i - 1)
           after == SubSeq(s, i + 1, Len(s))
<1>4. RemoveAt(s, i) = before \o after
  BY DEF RemoveAt
<1> HIDE DEF before, after
<1>5. before \in Seq(S) /\ after \in Seq(S) /\ Len(before) = i - 1 /\ Len(after) = Len(s) - i
  BY <1>2, <1>3 DEF before, after
<1>6. before \o after \in Seq(S) /\ Len(before \o after) = Len(before) + Len(after)
  BY <1>5, ConcatProperties
<1>7. Len(before) + Len(after) = Len(s) - 1
  BY <1>1, <1>5
<1> QED BY <1>4, <1>6, <1>7

LEMMA ReadKeeps ==
    ASSUME IngestionTypeOK, NEW datagram \in Seq(Byte), Read(datagram)
    PROVE  IngestionTypeOK'
<1>1. UnmarshalBinary(datagram) \subseteq AISBatch
  BY UnmarshalBinaryType
<1>2. UnmarshalBinary(datagram) # {}
      => (CHOOSE b \in UnmarshalBinary(datagram) : TRUE) \in UnmarshalBinary(datagram)
  BY Zenon
<1>3. \A b \in AISBatch : b.Records \in Seq(AISRecord)
  BY DEF AISBatch
<1>4. << >> \in Seq(AISRecord)
  BY EmptySeq
<1>5. todo' \in Seq(AISRecord)
  <2>1. todo' = IF UnmarshalBinary(datagram) = {} THEN << >>
                ELSE (CHOOSE b \in UnmarshalBinary(datagram) : TRUE).Records
    BY DEF Read
  <2> QED BY <1>1, <1>2, <1>3, <1>4, <2>1
<1> QED BY <1>5 DEF IngestionTypeOK, Read

LEMMA IngestKeeps ==
    ASSUME IngestionTypeOK, IngestionStep \/ CancelEngine
    PROVE  IngestionTypeOK'
<1>1. CASE Dispatch
  <2> DEFINE r == Head(todo)
             shard == Hash[r.VesselID]
  <2>1. /\ todo # << >> /\ todo \in Seq(AISRecord) /\ todo' = Tail(todo) /\ Offer(r)
        /\ cancelled' = cancelled /\ open' = open /\ running' = running
        /\ workers \in [Worker -> Seq(AISRecord)]
        /\ \A s \in Worker : Len(workers[s]) <= QueueCap
    BY <1>1 DEF Dispatch, IngestionTypeOK
  <2>2. r \in AISRecord /\ todo' \in Seq(AISRecord)
    BY <2>1, HeadTailProperties
  <2>3. workers' = workers
        \/ (Len(workers[shard]) < QueueCap
            /\ workers' = [workers EXCEPT ![shard] = Append(workers[shard], r)])
    BY <2>1 DEF Offer
  <2> HIDE DEF r, shard
  <2>4. QueueCap \in Nat
    BY IngestionAssumption
  <2>5. ASSUME shard \in Worker, Len(workers[shard]) < QueueCap,
               workers' = [workers EXCEPT ![shard] = Append(workers[shard], r)]
        PROVE  workers' \in [Worker -> Seq(AISRecord)] /\ \A s \in Worker : Len(workers'[s]) <= QueueCap
    <3>1. workers[shard] \in Seq(AISRecord) /\ Len(workers[shard]) \in Nat
      BY <2>1, <2>5, LenProperties
    <3>2. /\ Append(workers[shard], r) \in Seq(AISRecord)
          /\ Len(Append(workers[shard], r)) = Len(workers[shard]) + 1
      BY <2>2, <3>1, AppendProperties
    <3>3. Len(Append(workers[shard], r)) <= QueueCap
      BY <2>4, <2>5, <3>1, <3>2
    <3> QED BY <2>1, <2>5, <3>2, <3>3
  <2>6. ASSUME shard \notin Worker,
               workers' = [workers EXCEPT ![shard] = Append(workers[shard], r)]
        PROVE  workers' = workers
    BY <2>1, <2>6
  <2>7. workers' \in [Worker -> Seq(AISRecord)] /\ \A s \in Worker : Len(workers'[s]) <= QueueCap
    BY <2>1, <2>3, <2>5, <2>6
  <2> QED BY <2>1, <2>2, <2>7 DEF IngestionTypeOK
<1>2. CASE CloseSocket
  BY <1>2 DEF CloseSocket, IngestionTypeOK
<1>3. CASE ReturnNil
  BY <1>3 DEF ReturnNil, IngestionTypeOK
<1>4. CASE CancelEngine
  BY <1>4 DEF CancelEngine, IngestionTypeOK
<1> QED BY <1>1, <1>2, <1>3, <1>4 DEF IngestionStep

LEMMA TakeKeeps ==
    ASSUME IngestionTypeOK, NEW s \in Worker, Take(s)
    PROVE  IngestionTypeOK' /\ Head(workers[s]) \in AISRecord
<1>1. /\ workers[s] # << >> /\ workers \in [Worker -> Seq(AISRecord)]
      /\ workers' = [workers EXCEPT ![s] = Tail(workers[s])]
      /\ \A v \in Worker : Len(workers[v]) <= QueueCap
      /\ cancelled' = cancelled /\ open' = open /\ running' = running /\ todo' = todo
  BY DEF Take, IngestionTypeOK
<1>2. /\ Head(workers[s]) \in AISRecord /\ Tail(workers[s]) \in Seq(AISRecord)
      /\ Len(Tail(workers[s])) = Len(workers[s]) - 1 /\ Len(workers[s]) \in Nat
  <2>1. workers[s] \in Seq(AISRecord)
    BY <1>1
  <2> QED BY <1>1, <2>1, HeadTailProperties, LenProperties
<1>3. Len(Tail(workers[s])) <= QueueCap
  BY <1>1, <1>2, IngestionAssumption
<1>4. workers' \in [Worker -> Seq(AISRecord)] /\ \A v \in Worker : Len(workers'[v]) <= QueueCap
  BY <1>1, <1>2, <1>3
<1> QED BY <1>1, <1>2, <1>4 DEF IngestionTypeOK

LEMMA TypeInvInit == Init => TypeInv
<1> SUFFICES ASSUME Init PROVE TypeInv
  OBVIOUS
<1> USE DEF Init, EngineInit, TransportInit, IngestionInit
<1>1. WireCap \in Nat /\ QueueCap \in Nat /\ MaxBatches \in Nat /\ BatchSize \in Nat
  BY TransportAssumption, IngestionAssumption, EngineAssumption
<1>2. << >> \in Seq(Byte) /\ << >> \in Seq(Seq(Byte)) /\ << >> \in Seq(AISRecord) /\ Len(<< >>) = 0
  BY EmptySeq
<1>3. TransportOK
  <2>1. \A w \in SimWorker : call[w] = "none"
    BY DEF TransportOK
  <2>2. call \in [SimWorker -> Calls] /\ data \in [SimWorker -> Seq(Byte)]
    BY <1>2 DEF Calls
  <2>3. \A w \in SimWorker : holder = w <=> call[w] \in {"length", "data"}
    BY <2>1, Workers
  <2>4. wire \in Seq(Seq(Byte)) /\ Len(wire) <= WireCap
    BY <1>1, <1>2
  <2> QED BY <1>2, <2>1, <2>2, <2>3, <2>4 DEF TransportOK, TransportTypeOK
<1>4. RoundOK
  <2>1. at \in [SimWorker -> {"select", "send", "flush", "done"}]
        /\ \A w \in SimWorker : (at[w] # "done" => Shard(w) # {}) /\ call[w] = "none"
    OBVIOUS
  <2>2. batch \in [SimWorker -> AISBatch]
    <3>1. [Records |-> << >>, BatchSeq |-> 0] \in AISBatch
      BY <1>2 DEF AISBatch
    <3> QED BY <3>1
  <2>3. made \in [VesselIndex -> Nat] /\ \A i \in VesselIndex : made[i] = 0
    OBVIOUS
  <2>4. SumFunction(made) = 0
    BY <2>3, VesselsFinite, SumZero
  <2>5. 0 \in Nat /\ 0 <= MaxBatches /\ SumFunction(made) = 0 * BatchSize
    BY <1>1, <2>4
  <2>6. EngineTypeOK
    BY <2>1, <2>2, <2>3 DEF EngineTypeOK
  <2> QED BY <2>1, <2>5, <2>6 DEF RoundOK
<1>5. IngestionTypeOK
  <2>1. \A s \in Worker : workers[s] = << >>
    OBVIOUS
  <2>2. workers \in [Worker -> Seq(AISRecord)]
    BY <1>2
  <2>3. \A s \in Worker : Len(workers[s]) <= QueueCap
    BY <1>1, <1>2, <2>1
  <2>4. todo \in Seq(AISRecord) /\ cancelled \in BOOLEAN /\ open \in BOOLEAN /\ running \in BOOLEAN
    BY <1>2
  <2> QED BY <2>2, <2>3, <2>4 DEF IngestionTypeOK
<1> QED BY <1>3, <1>4, <1>5 DEF TypeInv

LEMMA TypeInvStep == TypeInv /\ [Next]_vars => TypeInv'
<1> SUFFICES ASSUME TypeInv, [Next]_vars PROVE TypeInv'
  OBVIOUS
<1>1. /\ TransportOK /\ RoundOK /\ IngestionTypeOK
      /\ seen \in [VesselIndex -> Nat \cup {Garbled}] /\ disordered \subseteq VesselIndex
  BY DEF TypeInv
<1>2. \A records : VesselsOf(records) \subseteq VesselIndex
  BY DEF VesselsOf
<1>3. UNCHANGED ingestionVars => IngestionTypeOK'
  BY <1>1 DEF IngestionTypeOK, ingestionVars
<1>4. UNCHANGED <<transportVars, engineVars>> => TransportOK' /\ RoundOK'
  BY <1>1 DEF TransportOK, TransportTypeOK, transportVars, RoundOK, EngineTypeOK, engineVars
<1>5. CASE Simulate
  <2>1. UNCHANGED <<ingestionVars, seen, disordered>>
    BY <1>5 DEF Simulate
  <2>2. TransportOK' /\ RoundOK'
    <3>1. ASSUME NEW w \in SimWorker, SimWorkerStep(w) PROVE TransportOK' /\ RoundOK'
      BY <1>1, <3>1, TickKeeps, CountKeeps, QuitKeeps, SendStepKeeps DEF SimWorkerStep, FinishSend
    <3>2. ASSUME CancelSimulator PROVE TransportOK' /\ RoundOK'
      BY <1>1, <3>2 DEF CancelSimulator, TransportOK, TransportTypeOK, transportVars, RoundOK,
                        EngineTypeOK
    <3> QED BY <1>5, <3>1, <3>2 DEF Simulate
  <2> QED BY <1>1, <1>3, <2>1, <2>2 DEF TypeInv
<1>6. ASSUME NEW w \in SimWorker, SendAgain(w) PROVE TypeInv'
  <2>1. Flush(w) /\ disordered' = disordered \cup VesselsOf(batch[w].Records)
        /\ UNCHANGED <<ingestionVars, seen>>
    BY <1>6 DEF SendAgain
  <2>2. TransportOK' /\ RoundOK'
    BY <1>1, <2>1, FlushKeeps
  <2> QED BY <1>1, <1>2, <1>3, <2>1, <2>2 DEF TypeInv
<1>7. ASSUME NEW i \in 1..Len(wire), Deliver(i) PROVE TypeInv'
  <2>1. /\ Read(wire[i]) /\ wire' = RemoveAt(wire, i)
        /\ disordered' = disordered \cup
             UNION {UNION {VesselsOf(b.Records) : b \in UnmarshalBinary(wire[k])} : k \in 1..(i - 1)}
        /\ mode' = mode /\ call' = call /\ data' = data /\ stream' = stream /\ holder' = holder
        /\ stats' = stats /\ UNCHANGED engineVars /\ seen' = seen
    BY <1>7 DEF Deliver
  <2>2. wire \in Seq(Seq(Byte)) /\ Len(wire) <= WireCap
    BY <1>1 DEF TransportOK, TransportTypeOK
  <2>3. wire[i] \in Seq(Byte)
    BY <2>2, ElementOfSeq
  <2>4. IngestionTypeOK'
    BY <1>1, <2>1, <2>3, ReadKeeps
  <2>5. wire' \in Seq(Seq(Byte)) /\ Len(wire') <= WireCap
    <3>1. wire' \in Seq(Seq(Byte)) /\ Len(wire') = Len(wire) - 1 /\ Len(wire) \in Nat
      BY <2>1, <2>2, RemoveAtType, LenProperties
    <3> QED BY <2>2, <3>1, TransportAssumption
  <2>6. TransportOK'
    BY <1>1, <2>1, <2>5 DEF TransportOK, TransportTypeOK
  <2>7. RoundOK'
    BY <1>1, <2>1 DEF RoundOK, EngineTypeOK, engineVars
  <2>8. disordered' \subseteq VesselIndex
    BY <1>1, <1>2, <2>1
  <2> QED BY <1>1, <2>1, <2>4, <2>6, <2>7, <2>8 DEF TypeInv
<1>8. CASE Ingest
  <2>1. (IngestionStep \/ CancelEngine) /\ UNCHANGED <<transportVars, engineVars, seen, disordered>>
    BY <1>8 DEF Ingest
  <2>2. IngestionTypeOK'
    BY <1>1, <2>1, IngestKeeps
  <2> QED BY <1>1, <1>4, <2>1, <2>2 DEF TypeInv
<1>9. ASSUME NEW s \in Worker, Classify(s) PROVE TypeInv'
  <2>1. Take(s) /\ UNCHANGED <<transportVars, engineVars, disordered>>
    BY <1>9 DEF Classify
  <2>2. IngestionTypeOK' /\ Head(workers[s]) \in AISRecord
    BY <1>1, <2>1, TakeKeeps
  <2>3. seen' \in [VesselIndex -> Nat \cup {Garbled}]
    <3> DEFINE r == Head(workers[s])
    <3>1. PICK i \in VesselIndex :
            seen' = [seen EXCEPT ![i] = IF r \in Made THEN r.TSUnixMs ELSE Garbled]
      BY <1>9 DEF Classify
    <3>2. r.TSUnixMs \in Nat
      BY <2>2 DEF AISRecord
    <3> HIDE DEF r
    <3> QED BY <1>1, <3>1, <3>2
  <2> QED BY <1>1, <1>4, <2>1, <2>2, <2>3 DEF TypeInv
<1>10. CASE UNCHANGED vars
  <2>1. UNCHANGED <<transportVars, engineVars>> /\ UNCHANGED ingestionVars
        /\ seen' = seen /\ disordered' = disordered
    BY <1>10 DEF vars
  <2> QED BY <1>1, <1>3, <1>4, <2>1 DEF TypeInv
<1> QED BY <1>5, <1>6, <1>7, <1>8, <1>9, <1>10 DEF Next

LEMMA TypeInvHolds == Spec => []TypeInv
  BY TypeInvInit, TypeInvStep, PTL DEF Spec

(* Every variable of the simulator and of the ingestion keeps its type: a  *)
(* worker is in the mutex exactly when it writes to the stream, is in Send *)
(* only from its own loop, fills its batch from vessels there are, what it *)
(* writes is bytes, what is decoded from them, whatever they are, are      *)
(* records, and no queue is over its capacity (engine.go, transport.go,    *)
(* ais.go, ingestion.go).                                                  *)
THEOREM TypeCorrect == Spec => []TypeOK
<1>1. TypeInv => TypeOK
  BY DEF TypeInv, TransportOK, RoundOK, TypeOK
<1> QED BY <1>1, TypeInvHolds, PTL
-----------------------------------------------------------------------------
(* Every batch is counted.                                                 *)

Calling(calls, places) == Cardinality({w \in SimWorker : calls[w] \in places})
Numbered(batches) == [w \in SimWorker |-> batches[w].BatchSeq]
Waiting == {"datagram", "lock", "length", "data"}
In(place, places) == IF place \in places THEN 1 ELSE 0

(* A worker that goes from a place to another leaves the one and is in the *)
(* other.                                                                  *)
Moves(calls, after, w, places) ==
    /\ Calling(calls, places) \in Nat /\ Calling(after, places) \in Nat
    /\ In(calls[w], places) \in Nat /\ In(after[w], places) \in Nat
    /\ Calling(after, places) + In(calls[w], places)
       = Calling(calls, places) + In(after[w], places)

LEMMA CallingMoves ==
    ASSUME NEW calls, NEW after, NEW w \in SimWorker, NEW places,
           \A v \in SimWorker \ {w} : after[v] = calls[v]
    PROVE  Moves(calls, after, w, places)
<1> DEFINE rest == {v \in SimWorker \ {w} : calls[v] \in places}
           now == {v \in SimWorker : calls[v] \in places}
           then == {v \in SimWorker : after[v] \in places}
<1>2. w \notin rest /\ rest \subseteq SimWorker
  OBVIOUS
<1>3. now = (IF calls[w] \in places THEN rest \cup {w} ELSE rest)
  OBVIOUS
<1>4. then = (IF after[w] \in places THEN rest \cup {w} ELSE rest)
  OBVIOUS
<1>5. Calling(calls, places) = Cardinality(now) /\ Calling(after, places) = Cardinality(then)
  BY DEF Calling
<1> HIDE DEF rest, now, then
<1>6. IsFiniteSet(rest) /\ Cardinality(rest) \in Nat
  BY <1>2, Workers, FS_Subset, FS_CardinalityType
<1>7. Cardinality(rest \cup {w}) = Cardinality(rest) + 1
  BY <1>2, <1>6, FS_AddElement
<1>8. Cardinality(now) = Cardinality(rest) + In(calls[w], places)
  BY <1>3, <1>6, <1>7 DEF In
<1>9. Cardinality(then) = Cardinality(rest) + In(after[w], places)
  BY <1>4, <1>6, <1>7 DEF In
<1>11. In(calls[w], places) \in Nat /\ In(after[w], places) \in Nat
  BY DEF In
<1>10. Cardinality(now) \in Nat /\ Cardinality(then) \in Nat
       /\ Cardinality(then) + In(calls[w], places) = Cardinality(now) + In(after[w], places)
  BY <1>6, <1>8, <1>9, <1>11
<1> QED BY <1>5, <1>10, <1>11 DEF Moves

(* The counts with the calls, the batches and the counters as parameters.  *)
Balanced(calls, batches, sent, total) ==
    /\ total.batches + Calling(calls, {"ok"}) = sent.BatchesSent
    /\ total.errors + Calling(calls, {"error"}) = sent.Errors
    /\ sent.BatchesSent + sent.Errors + Calling(calls, Waiting) = SumFunction(Numbered(batches))

CounterTypes ==
    /\ call \in [SimWorker -> Calls]
    /\ stats \in [BatchesSent : Nat, Errors : Nat] /\ totals \in [batches : Nat, errors : Nat]
    /\ batch \in [SimWorker -> AISBatch]

(* From one place to another, with what the counters then are.             *)
CountsFollow(from, to, sent, total) ==
    /\ total.batches + In(to, {"ok"}) + stats.BatchesSent
       = totals.batches + In(from, {"ok"}) + sent.BatchesSent
    /\ total.errors + In(to, {"error"}) + stats.Errors
       = totals.errors + In(from, {"error"}) + sent.Errors
    /\ sent.BatchesSent + sent.Errors + In(to, Waiting)
       = stats.BatchesSent + stats.Errors + In(from, Waiting)

LEMMA BalancedMoves ==
    ASSUME CounterTypes, Balanced(call, batch, stats, totals),
           NEW w \in SimWorker, NEW place \in Calls, call' = [call EXCEPT ![w] = place],
           NEW sent \in [BatchesSent : Nat, Errors : Nat], NEW total \in [batches : Nat, errors : Nat],
           CountsFollow(call[w], place, sent, total)
    PROVE  Balanced(call', batch, sent, total)
<1>1. /\ Moves(call, call', w, {"ok"}) /\ Moves(call, call', w, {"error"})
      /\ Moves(call, call', w, Waiting) /\ call'[w] = place
  <2>1. call'[w] = place /\ \A v \in SimWorker \ {w} : call'[v] = call[v]
    BY DEF CounterTypes
  <2> QED BY <2>1, CallingMoves
<1>2. /\ stats.BatchesSent \in Nat /\ stats.Errors \in Nat
      /\ totals.batches \in Nat /\ totals.errors \in Nat
      /\ sent.BatchesSent \in Nat /\ sent.Errors \in Nat
      /\ total.batches \in Nat /\ total.errors \in Nat
  BY DEF CounterTypes
<1>3. total.batches + Calling(call', {"ok"}) = sent.BatchesSent
  <2>1. total.batches + In(place, {"ok"}) + stats.BatchesSent
        = totals.batches + In(call[w], {"ok"}) + sent.BatchesSent
    BY DEF CountsFollow
  <2>2. totals.batches + Calling(call, {"ok"}) = stats.BatchesSent
    BY DEF Balanced
  <2> QED BY <1>1, <1>2, <2>1, <2>2 DEF Moves
<1>4. total.errors + Calling(call', {"error"}) = sent.Errors
  <2>1. total.errors + In(place, {"error"}) + stats.Errors
        = totals.errors + In(call[w], {"error"}) + sent.Errors
    BY DEF CountsFollow
  <2>2. totals.errors + Calling(call, {"error"}) = stats.Errors
    BY DEF Balanced
  <2> QED BY <1>1, <1>2, <2>1, <2>2 DEF Moves
<1>5. sent.BatchesSent + sent.Errors + Calling(call', Waiting) = SumFunction(Numbered(batch))
  <2>1. sent.BatchesSent + sent.Errors + In(place, Waiting)
        = stats.BatchesSent + stats.Errors + In(call[w], Waiting)
    BY DEF CountsFollow
  <2>2. stats.BatchesSent + stats.Errors + Calling(call, Waiting) = SumFunction(Numbered(batch))
    BY DEF Balanced
  <2> QED BY <1>1, <1>2, <2>1, <2>2 DEF Moves
<1> QED BY <1>3, <1>4, <1>5 DEF Balanced

(* A batch that is numbered is one more to be counted.                     *)
LEMMA BalancedSends ==
    ASSUME CounterTypes, Balanced(call, batch, stats, totals),
           NEW w \in SimWorker, NEW records, NEW place, at[w] = "select",
           SendNext(w, records, place)
    PROVE  Balanced(call', batch', stats, totals)
<1> DEFINE next == [Records |-> records, BatchSeq |-> batch[w].BatchSeq + 1]
           start == IF mode = "udp" THEN "datagram" ELSE "lock"
           s == SumFunction(Numbered(batch))
<1>1. /\ batch' = [batch EXCEPT ![w] = next] /\ call[w] = "none"
      /\ call' = [call EXCEPT ![w] = start]
  BY DEF SendNext, Send, Go
<1>2. start \in Waiting /\ call[w] \notin Waiting /\ call[w] \notin {"ok"} /\ call[w] \notin {"error"}
      /\ start \notin {"ok"} /\ start \notin {"error"}
  BY <1>1 DEF Waiting
<1> HIDE DEF start
<1>3. /\ Moves(call, call', w, {"ok"}) /\ Moves(call, call', w, {"error"})
      /\ Moves(call, call', w, Waiting) /\ call'[w] = start
  <2>1. call'[w] = start /\ \A v \in SimWorker \ {w} : call'[v] = call[v]
    BY <1>1 DEF CounterTypes
  <2> QED BY <2>1, CallingMoves
<1>4. /\ Calling(call', {"ok"}) = Calling(call, {"ok"})
      /\ Calling(call', {"error"}) = Calling(call, {"error"})
      /\ Calling(call', Waiting) = Calling(call, Waiting) + 1
  <2>1. /\ In(start, Waiting) = 1 /\ In(call[w], Waiting) = 0
        /\ In(call[w], {"ok"}) = 0 /\ In(start, {"ok"}) = 0
        /\ In(call[w], {"error"}) = 0 /\ In(start, {"error"}) = 0
    BY <1>2 DEF In
  <2>2. Calling(call', {"ok"}) + 0 = Calling(call, {"ok"}) + 0
    BY <1>3, <2>1 DEF Moves
  <2>3. Calling(call', {"error"}) + 0 = Calling(call, {"error"}) + 0
    BY <1>3, <2>1 DEF Moves
  <2>4. Calling(call', Waiting) + 0 = Calling(call, Waiting) + 1
    BY <1>3, <2>1 DEF Moves
  <2> QED BY <1>3, <2>2, <2>3, <2>4 DEF Moves
<1>5. SumFunction(Numbered(batch')) = s + 1
  <2>1. \A v \in SimWorker : batch[v].BatchSeq \in Nat
    BY DEF CounterTypes, AISBatch
  <2>2. next.BatchSeq = batch[w].BatchSeq + 1
    OBVIOUS
  <2> HIDE DEF next
  <2>3. batch'[w] = next /\ \A v \in SimWorker \ {w} : batch'[v] = batch[v]
    BY <1>1 DEF CounterTypes
  <2>4. \A v \in SimWorker : batch'[v].BatchSeq \in Nat
    BY <2>1, <2>2, <2>3
  <2>5. Numbered(batch) \in [SimWorker -> Nat] /\ Numbered(batch') \in [SimWorker -> Nat]
    BY <2>1, <2>4 DEF Numbered
  <2>6. Numbered(batch')[w] = Numbered(batch)[w] + 1
        /\ \A v \in SimWorker \ {w} : Numbered(batch')[v] = Numbered(batch)[v]
    BY <2>2, <2>3 DEF Numbered
  <2>7. 1 \in Nat /\ IsFiniteSet(SimWorker)
    BY Workers
  <2> QED BY <2>5, <2>6, <2>7, SumGrows
<1>6. stats.BatchesSent + stats.Errors + Calling(call, Waiting) = s
  BY DEF Balanced
<1>7. stats.BatchesSent \in Nat /\ stats.Errors \in Nat /\ Calling(call, Waiting) \in Nat
  BY <1>3 DEF CounterTypes, Moves
<1> HIDE DEF s
<1>8. stats.BatchesSent + stats.Errors + Calling(call', Waiting) = SumFunction(Numbered(batch'))
  BY <1>4, <1>5, <1>6, <1>7
<1> QED BY <1>4, <1>8 DEF Balanced

LEMMA CountedIsBalanced == EveryBatchCounted <=> Balanced(call, batch, stats, totals)
  BY Zenon DEF EveryBatchCounted, Balanced, UnderWay, Calling, Numbered, Waiting
LEMMA BalancedInit == Init => EveryBatchCounted
<1> SUFFICES ASSUME Init PROVE EveryBatchCounted
  OBVIOUS
<1>1. /\ stats = [BatchesSent |-> 0, Errors |-> 0] /\ totals = [batches |-> 0, errors |-> 0]
      /\ \A w \in SimWorker : call[w] = "none" /\ batch[w].BatchSeq = 0
  BY DEF Init, EngineInit, TransportInit
<1>2. \A P : "none" \notin P => Calling(call, P) = 0
  <2>1. SUFFICES ASSUME NEW P, "none" \notin P PROVE Calling(call, P) = 0
    OBVIOUS
  <2>2. {w \in SimWorker : call[w] \in P} = {}
    BY <1>1, <2>1
  <2> QED BY <2>2, FS_EmptySet DEF Calling
<1>3. /\ Calling(call, {"ok"}) = 0 /\ Calling(call, {"error"}) = 0 /\ Calling(call, Waiting) = 0
  <2>1. "none" \notin {"ok"} /\ "none" \notin {"error"} /\ "none" \notin Waiting
    BY DEF Waiting
  <2> QED BY <1>2, <2>1
<1>4. SumFunction(Numbered(batch)) = 0
  <2>1. Numbered(batch) \in [SimWorker -> Nat] /\ \A w \in SimWorker : Numbered(batch)[w] = 0
    BY <1>1 DEF Numbered
  <2> QED BY <2>1, Workers, SumZero
<1>5. Balanced(call, batch, stats, totals)
  BY <1>1, <1>3, <1>4 DEF Balanced
<1> QED BY <1>5, CountedIsBalanced

(* A step inside Send counts the batch it ends with.                       *)
LEMMA SendStepBalanced ==
    ASSUME CounterTypes, Balanced(call, batch, stats, totals), NEW w \in SimWorker,
           SendStep(w) \/ Lock(w)
    PROVE  Balanced(call', batch, stats', totals)
<1> DEFINE sentOne == [stats EXCEPT !.BatchesSent = @ + 1]
           failedOne == [stats EXCEPT !.Errors = @ + 1]
<1>1. stats \in [BatchesSent : Nat, Errors : Nat] /\ totals \in [batches : Nat, errors : Nat]
  BY DEF CounterTypes
<1>2. /\ sentOne \in [BatchesSent : Nat, Errors : Nat]
      /\ sentOne.BatchesSent = stats.BatchesSent + 1 /\ sentOne.Errors = stats.Errors
      /\ failedOne \in [BatchesSent : Nat, Errors : Nat]
      /\ failedOne.BatchesSent = stats.BatchesSent /\ failedOne.Errors = stats.Errors + 1
  BY <1>1
<1>3. call[w] \in Waiting
  BY DEF SendStep, WriteDatagram, WriteLength, WriteData, WriteFails, Lock, Waiting
<1>4. \/ call' = [call EXCEPT ![w] = "ok"] /\ stats' = sentOne
      \/ call' = [call EXCEPT ![w] = "error"] /\ stats' = failedOne
      \/ \E place \in {"length", "data"} :
           call' = [call EXCEPT ![w] = place] /\ stats' = stats
  BY DEF SendStep, WriteDatagram, WriteLength, WriteData, WriteFails, Lock, Go, CountBatch, CountError
<1> HIDE DEF sentOne, failedOne
<1>5. /\ In(call[w], Waiting) = 1 /\ In(call[w], {"ok"}) = 0 /\ In(call[w], {"error"}) = 0
      /\ stats.BatchesSent \in Nat /\ stats.Errors \in Nat
      /\ totals.batches \in Nat /\ totals.errors \in Nat
  BY <1>1, <1>3 DEF In, Waiting
<1>6. CASE call' = [call EXCEPT ![w] = "ok"] /\ stats' = sentOne
  <2> DEFINE place == "ok"
  <2>1. /\ place \in Calls
        /\ In(place, {"ok"}) = 1 /\ In(place, {"error"}) = 0 /\ In(place, Waiting) = 0
    BY DEF In, Waiting, Calls
  <2>2. call' = [call EXCEPT ![w] = place]
    BY <1>6
  <2> HIDE DEF place
  <2>3. CountsFollow(call[w], place, sentOne, totals)
    BY <1>2, <1>5, <2>1 DEF CountsFollow
  <2>4. Balanced(call', batch, sentOne, totals)
    BY <1>1, <1>2, <2>1, <2>2, <2>3, BalancedMoves
  <2> QED BY <1>6, <2>2, <2>4
<1>7. CASE call' = [call EXCEPT ![w] = "error"] /\ stats' = failedOne
  <2> DEFINE place == "error"
  <2>1. /\ place \in Calls
        /\ In(place, {"ok"}) = 0 /\ In(place, {"error"}) = 1 /\ In(place, Waiting) = 0
    BY DEF In, Waiting, Calls
  <2>2. call' = [call EXCEPT ![w] = place]
    BY <1>7
  <2> HIDE DEF place
  <2>3. CountsFollow(call[w], place, failedOne, totals)
    BY <1>2, <1>5, <2>1 DEF CountsFollow
  <2>4. Balanced(call', batch, failedOne, totals)
    BY <1>1, <1>2, <2>1, <2>2, <2>3, BalancedMoves
  <2> QED BY <1>7, <2>2, <2>4
<1>8. ASSUME NEW place \in {"length", "data"}, call' = [call EXCEPT ![w] = place], stats' = stats
      PROVE  Balanced(call', batch, stats', totals)
  <2>1. /\ place \in Calls
        /\ In(place, {"ok"}) = 0 /\ In(place, {"error"}) = 0 /\ In(place, Waiting) = 1
    BY DEF In, Waiting, Calls
  <2>2. CountsFollow(call[w], place, stats, totals)
    BY <1>5, <2>1 DEF CountsFollow
  <2>3. Balanced(call', batch, stats, totals)
    BY <1>1, <1>8, <2>1, <2>2, BalancedMoves
  <2> QED BY <1>8, <2>3
<1> QED BY <1>4, <1>6, <1>7, <1>8

(* The result of Send is counted when it returns.                          *)
LEMMA CountBalanced ==
    ASSUME CounterTypes, Balanced(call, batch, stats, totals), NEW w \in SimWorker, Count(w)
    PROVE  Balanced(call', batch, stats, totals')
<1> DEFINE place == "none"
<1>1. /\ call[w] \in {"ok", "error"} /\ call' = [call EXCEPT ![w] = place]
      /\ totals' = (IF call[w] = "ok" THEN [totals EXCEPT !.batches = @ + 1]
                    ELSE [totals EXCEPT !.errors = @ + 1])
      /\ stats \in [BatchesSent : Nat, Errors : Nat] /\ totals \in [batches : Nat, errors : Nat]
  BY DEF Count, Return, Returned, Counted, CounterTypes
<1>2. /\ totals' \in [batches : Nat, errors : Nat]
      /\ totals'.batches = totals.batches + In(call[w], {"ok"})
      /\ totals'.errors = totals.errors + In(call[w], {"error"})
  BY <1>1 DEF In
<1>3. /\ place \in Calls
      /\ In(place, {"ok"}) = 0 /\ In(place, {"error"}) = 0
      /\ In(place, Waiting) = 0 /\ In(call[w], Waiting) = 0
      /\ In(call[w], {"ok"}) \in Nat /\ In(call[w], {"error"}) \in Nat
  BY <1>1 DEF In, Waiting, Calls
<1>4. /\ stats.BatchesSent \in Nat /\ stats.Errors \in Nat
      /\ totals.batches \in Nat /\ totals.errors \in Nat
  BY <1>1
<1> HIDE DEF place
<1>5. CountsFollow(call[w], place, stats, totals')
  BY <1>2, <1>3, <1>4 DEF CountsFollow
<1>6. Balanced(call', batch, stats, totals')
  BY <1>1, <1>2, <1>3, <1>5, BalancedMoves
<1> QED BY <1>1, <1>6

LEMMA BalancedStep == TypeInv /\ EveryBatchCounted /\ [Next]_vars => EveryBatchCounted'
<1> SUFFICES ASSUME TypeInv, EveryBatchCounted, [Next]_vars PROVE EveryBatchCounted'
  OBVIOUS
<1>1. CounterTypes
  BY DEF TypeInv, TransportOK, TransportTypeOK, RoundOK, EngineTypeOK, CounterTypes
<1>2. Balanced(call, batch, stats, totals)
  BY CountedIsBalanced
<1>3. SUFFICES Balanced(call', batch', stats', totals')
  BY Zenon DEF EveryBatchCounted, Balanced, UnderWay, Calling, Numbered, Waiting
<1>4. ASSUME NEW w \in SimWorker, Tick(w) \/ Flush(w) PROVE Balanced(call', batch', stats', totals')
  <2>1. at[w] = "select" /\ totals' = totals
        /\ \E records : \E place : SendNext(w, records, place)
    BY <1>4 DEF Tick, Flush
  <2>2. PICK records, place : SendNext(w, records, place)
    BY <2>1
  <2>3. stats' = stats
    BY <2>2 DEF SendNext, Send
  <2> QED BY <1>1, <1>2, <2>1, <2>2, <2>3, BalancedSends
<1>5. ASSUME NEW w \in SimWorker, SimWorkerStep(w) PROVE Balanced(call', batch', stats', totals')
  <2>1. CASE Tick(w)
    BY <1>4, <2>1
  <2>2. CASE Count(w)
    <3>1. batch' = batch /\ stats' = stats
      BY <2>2 DEF Count, Return
    <3> QED BY <1>1, <1>2, <2>2, <3>1, CountBalanced
  <2>3. CASE (SendStep(w) \/ Lock(w)) /\ UNCHANGED engineVars
    <3>1. batch' = batch /\ totals' = totals
      BY <2>3 DEF engineVars
    <3> QED BY <1>1, <1>2, <2>3, <3>1, SendStepBalanced
  <2>4. CASE Quit(w)
    BY <1>2, <2>4 DEF Quit, transportVars
  <2> QED BY <1>5, <2>1, <2>2, <2>3, <2>4 DEF SimWorkerStep, FinishSend
<1>6. UNCHANGED <<call, batch, stats, totals>> => Balanced(call', batch', stats', totals')
  BY <1>2
<1>7. CASE Simulate
  <2>1. CancelSimulator => UNCHANGED <<call, batch, stats, totals>>
    BY DEF CancelSimulator, transportVars
  <2> QED BY <1>5, <1>6, <1>7, <2>1 DEF Simulate
<1>8. ASSUME NEW w \in SimWorker, SendAgain(w) PROVE Balanced(call', batch', stats', totals')
  BY <1>4, <1>8 DEF SendAgain
<1>9. ASSUME NEW i \in 1..Len(wire), Deliver(i) PROVE Balanced(call', batch', stats', totals')
  BY <1>6, <1>9 DEF Deliver, engineVars
<1>10. CASE Ingest
  BY <1>6, <1>10 DEF Ingest, transportVars, engineVars
<1>11. ASSUME NEW s \in Worker, Classify(s) PROVE Balanced(call', batch', stats', totals')
  BY <1>6, <1>11 DEF Classify, transportVars, engineVars
<1>12. CASE UNCHANGED vars
  BY <1>6, <1>12 DEF vars, transportVars, engineVars
<1> QED BY <1>7, <1>8, <1>9, <1>10, <1>11, <1>12 DEF Next

(* However the workers share the sender, its mutex and the counters, and   *)
(* whatever fails, a batch that was numbered is counted once as sent or as *)
(* an error, by the sender and by the engine (engine.go 144-183,           *)
(* transport.go 104-225).                                                  *)
THEOREM EveryBatchCountedHolds == Spec => []EveryBatchCounted
<1>1. Init => EveryBatchCounted
  BY BalancedInit
<1>2. EveryBatchCounted /\ TypeInv /\ [Next]_vars => EveryBatchCounted'
  BY BalancedStep
<1> QED BY <1>1, <1>2, TypeInvHolds, PTL DEF Spec

-----------------------------------------------------------------------------
(* The codec: decoding.                                                    *)

(* What bytes holds of s from offset on, as far as it goes.                *)
Agrees(bytes, offset, s) ==
    \A i \in 1..Len(s) : offset + i <= Len(bytes) => bytes[offset + i] = s[i]

LEMMA AgreesConcat ==
    ASSUME NEW bytes, Len(bytes) \in Nat, NEW offset \in Nat, NEW s \in Seq(Byte), NEW t \in Seq(Byte),
           Agrees(bytes, offset, s \o t)
    PROVE  /\ Agrees(bytes, offset, s) /\ Agrees(bytes, offset + Len(s), t)
           /\ s \o t \in Seq(Byte) /\ Len(s \o t) = Len(s) + Len(t)
           /\ Len(s) \in Nat /\ Len(t) \in Nat
<1> DEFINE m == Len(s)
           n == Len(t)
           st == s \o t
<1>1. m \in Nat /\ n \in Nat
  BY LenProperties
<1>2. /\ st \in Seq(Byte) /\ Len(st) = m + n
      /\ \A i \in 1..(m + n) : st[i] = IF i <= m THEN s[i] ELSE t[i - m]
  BY ConcatProperties
<1>3. \A i \in 1..(m + n) : offset + i <= Len(bytes) => bytes[offset + i] = st[i]
  BY <1>2 DEF Agrees
<1> HIDE DEF st, m, n
<1>4. \A i \in 1..m : i \in 1..(m + n) /\ i <= m
  BY <1>1
<1>5. \A i \in 1..n : /\ m + i \in 1..(m + n) /\ ~(m + i <= m) /\ (m + i) - m = i
                      /\ offset + (m + i) = (offset + m) + i
  BY <1>1
<1>6. \A i \in 1..m : offset + i <= Len(bytes) => bytes[offset + i] = s[i]
  BY <1>2, <1>3, <1>4
<1>7. \A i \in 1..n : st[m + i] = t[i]
  BY <1>2, <1>5
<1>8. \A i \in 1..n : (offset + m) + i <= Len(bytes) => bytes[(offset + m) + i] = t[i]
  <2>1. SUFFICES ASSUME NEW i \in 1..n, (offset + m) + i <= Len(bytes)
                 PROVE  bytes[(offset + m) + i] = t[i]
    OBVIOUS
  <2>2. offset + (m + i) = (offset + m) + i /\ m + i \in 1..(m + n) /\ st[m + i] = t[i]
    BY <1>5, <1>7
  <2>3. offset + (m + i) <= Len(bytes)
    BY <2>1, <2>2
  <2>4. bytes[offset + (m + i)] = st[m + i]
    BY <1>3, <2>2, <2>3
  <2> QED BY <2>2, <2>4
<1> QED BY <1>1, <1>2, <1>6, <1>8 DEF m, n, st, Agrees

LEMMA AgreesBytes ==
    ASSUME NEW bytes \in Seq(Byte), NEW offset \in Nat, NEW s \in Seq(Byte),
           Agrees(bytes, offset, s), offset + Len(s) <= Len(bytes)
    PROVE  Bytes(bytes, offset, Len(s)) = s
<1> DEFINE n == Len(s)
           sub == SubSeq(bytes, offset + 1, offset + n)
<1>1. n \in Nat /\ Len(bytes) \in Nat /\ offset + n <= Len(bytes)
  BY LenProperties
<1>2. \A i \in 1..n : bytes[offset + i] = s[i]
  <2>1. \A i \in 1..n : offset + i <= Len(bytes)
    BY <1>1
  <2> QED BY <2>1 DEF Agrees
<1> HIDE DEF n
<1>3. \A i \in (offset + 1)..(offset + n) : bytes[i] \in Byte
  <2>1. \A i \in (offset + 1)..(offset + n) : i \in 1..Len(bytes)
    BY <1>1
  <2> QED BY <2>1, ElementOfSeq
<1>4. offset + 1 \in Int /\ offset + n \in Int
  BY <1>1
<1>5. /\ sub \in Seq(Byte)
      /\ Len(sub) = IF offset + 1 <= offset + n THEN ((offset + n) - (offset + 1)) + 1 ELSE 0
      /\ \A i \in 1..(((offset + n) - (offset + 1)) + 1) : sub[i] = bytes[((offset + 1) + i) - 1]
  BY <1>3, <1>4, SubSeqProperties, SMTT(30)
<1> HIDE DEF sub
<1>6. Len(sub) = n
  BY <1>1, <1>5
<1>7. \A i \in 1..n : sub[i] = bytes[offset + i]
  <2>1. ((offset + n) - (offset + 1)) + 1 = n
    BY <1>1
  <2>2. \A i \in 1..n : ((offset + 1) + i) - 1 = offset + i
    OBVIOUS
  <2> QED BY <1>5, <2>1, <2>2
<1>8. sub = s
  <2>1. Len(sub) = Len(s) /\ \A i \in 1..Len(sub) : sub[i] = s[i]
    BY <1>2, <1>6, <1>7 DEF n
  <2> QED BY <1>5, <2>1, SeqEqual
<1> QED BY <1>8 DEF Bytes, sub, n

LEMMA AgreesNumber ==
    ASSUME NEW bytes \in Seq(Byte), NEW offset \in Nat, NEW n \in Nat, NEW width \in Nat,
           Fits(n, width), Agrees(bytes, offset, LittleEndian(n, width)),
           offset + width <= Len(bytes)
    PROVE  NumberAt(bytes, offset, width) = n
<1>1. LittleEndian(n, width) \in Seq(Byte) /\ Len(LittleEndian(n, width)) = width
  BY LittleEndianType
<1>2. offset + Len(LittleEndian(n, width)) <= Len(bytes)
  BY <1>1
<1>3. Bytes(bytes, offset, Len(LittleEndian(n, width))) = LittleEndian(n, width)
  BY <1>1, <1>2, AgreesBytes
<1>4. Bytes(bytes, offset, width) = LittleEndian(n, width)
  BY <1>1, <1>3
<1>5. Number(LittleEndian(n, width)) = n
  BY NumberOfLittleEndian DEF Fits
<1> QED BY <1>4, <1>5 DEF NumberAt

LEMMA AgreesString ==
    ASSUME NEW bytes \in Seq(Byte), NEW offset \in Nat, NEW s \in Seq(Byte), Len(s) < ByteBase,
           Agrees(bytes, offset, MarshalString(s))
    PROVE  /\ Len(MarshalString(s)) = Len(s) + 1
           /\ offset < Len(bytes) => bytes[offset + 1] = Len(s)
           /\ (offset + 1) + Len(s) <= Len(bytes) => Bytes(bytes, offset + 1, Len(s)) = s
<1>1. Len(s) \in Nat /\ Len(bytes) \in Nat /\ ByteBase \in Nat \ {0}
  BY LenProperties, CodecAssumption
<1>2. Len(s) % ByteBase = Len(s)
  BY <1>1
<1>3. << Len(s) >> \in Seq(Byte) /\ Len(<< Len(s) >>) = 1 /\ << Len(s) >>[1] = Len(s)
  <2>1. Len(s) \in Byte
    BY <1>1 DEF Byte
  <2> QED BY <2>1
<1>4. MarshalString(s) = << Len(s) >> \o s
  BY <1>2 DEF MarshalString
<1> DEFINE h == << Len(s) >>
<1>5. h \in Seq(Byte) /\ Len(h) = 1 /\ h[1] = Len(s) /\ Agrees(bytes, offset, h \o s)
  BY <1>3, <1>4
<1> HIDE DEF h
<1>6. /\ Agrees(bytes, offset, h) /\ Agrees(bytes, offset + 1, s)
      /\ Len(h \o s) = 1 + Len(s)
  <2>1. /\ Agrees(bytes, offset, h) /\ Agrees(bytes, offset + Len(h), s)
        /\ Len(h \o s) = Len(h) + Len(s)
    <3>1. h \in Seq(Byte) /\ Agrees(bytes, offset, h \o s) /\ Len(bytes) \in Nat
      BY <1>1, <1>5
    <3> QED BY <3>1, AgreesConcat
  <2> QED BY <1>5, <2>1
<1>7. offset < Len(bytes) => bytes[offset + 1] = Len(s)
  <2>1. 1 \in 1..Len(h)
    BY <1>5
  <2>2. offset + 1 <= Len(bytes) => bytes[offset + 1] = h[1]
    BY <1>6, <2>1 DEF Agrees
  <2> QED BY <1>1, <1>5, <2>2
<1>8. (offset + 1) + Len(s) <= Len(bytes) => Bytes(bytes, offset + 1, Len(s)) = s
  BY <1>6, AgreesBytes
<1>9. Len(MarshalString(s)) = Len(s) + 1
  BY <1>1, <1>4, <1>6 DEF h
<1> QED BY <1>7, <1>8, <1>9

(* The parts of a record, one after the other.                             *)
LEMMA RecordParts ==
    ASSUME NEW r \in AISRecord
    PROVE  /\ MarshalString(r.VesselID) \in Seq(Byte) /\ MarshalString(r.MMSI) \in Seq(Byte)
           /\ LittleEndian(r.Lat, DoubleWidth) \in Seq(Byte)
           /\ LittleEndian(r.Lon, DoubleWidth) \in Seq(Byte)
           /\ LittleEndian(r.SOGKnots, FloatWidth) \in Seq(Byte)
           /\ LittleEndian(r.COGDegrees, FloatWidth) \in Seq(Byte)
           /\ LittleEndian(r.TSUnixMs, DoubleWidth) \in Seq(Byte)
           /\ Len(LittleEndian(r.Lat, DoubleWidth)) = DoubleWidth
           /\ Len(LittleEndian(r.Lon, DoubleWidth)) = DoubleWidth
           /\ Len(LittleEndian(r.SOGKnots, FloatWidth)) = FloatWidth
           /\ Len(LittleEndian(r.COGDegrees, FloatWidth)) = FloatWidth
           /\ Len(LittleEndian(r.TSUnixMs, DoubleWidth)) = DoubleWidth
           /\ << IF r.IsScriptedViolator THEN 1 ELSE 0 >> \in Seq(Byte)
<1>1. /\ r.VesselID \in Seq(Byte) /\ r.MMSI \in Seq(Byte)
      /\ r.Lat \in Nat /\ r.Lon \in Nat /\ r.SOGKnots \in Nat /\ r.COGDegrees \in Nat
      /\ r.TSUnixMs \in Nat
  BY DEF AISRecord
<1>2. DoubleWidth \in Nat /\ FloatWidth \in Nat /\ 0 \in Byte /\ 1 \in Byte
  BY CodecAssumption DEF Byte
<1>3. << IF r.IsScriptedViolator THEN 1 ELSE 0 >> \in Seq(Byte)
  <2>1. (IF r.IsScriptedViolator THEN 1 ELSE 0) \in Byte
    BY <1>2
  <2> QED BY <2>1
<1> QED BY <1>1, <1>2, <1>3, MarshalStringType, LittleEndianType

(* A field of a record begins where the one before it ends.                *)
LEMMA FieldAfter ==
    ASSUME NEW offset \in Nat, NEW length \in Nat, NEW width \in Nat, NEW start \in Nat,
           NEW longer, NEW next,
           offset + length = start, longer = length + width, next = start + width
    PROVE  next = start + width /\ offset + longer = next /\ next \in Nat
  OBVIOUS

(* A record is read where it was written, or not at all if it is cut off.  *)
LEMMA RecordRead ==
    ASSUME NEW bytes \in Seq(Byte), NEW offset \in Nat, NEW r \in AISRecord, RecordFits(r),
           Agrees(bytes, offset, MarshalRecord(r))
    PROVE  /\ Len(MarshalRecord(r)) \in Nat
           /\ UnmarshalRecord(bytes, offset)
              = IF offset + Len(MarshalRecord(r)) <= Len(bytes)
                THEN {[next |-> offset + Len(MarshalRecord(r)), record |-> r]} ELSE {}
<1> DEFINE A == MarshalString(r.VesselID)
           B == MarshalString(r.MMSI)
           C == LittleEndian(r.Lat, DoubleWidth)
           D == LittleEndian(r.Lon, DoubleWidth)
           E == LittleEndian(r.SOGKnots, FloatWidth)
           F == LittleEndian(r.COGDegrees, FloatWidth)
           G == LittleEndian(r.TSUnixMs, DoubleWidth)
           H == << IF r.IsScriptedViolator THEN 1 ELSE 0 >>
           m == Len(MarshalRecord(r))
           N == Len(bytes)
<1>1. /\ A \in Seq(Byte) /\ B \in Seq(Byte) /\ C \in Seq(Byte) /\ D \in Seq(Byte)
      /\ E \in Seq(Byte) /\ F \in Seq(Byte) /\ G \in Seq(Byte) /\ H \in Seq(Byte)
      /\ Len(C) = DoubleWidth /\ Len(D) = DoubleWidth /\ Len(E) = FloatWidth
      /\ Len(F) = FloatWidth /\ Len(G) = DoubleWidth
  BY RecordParts
<1>2. Len(H) = 1 /\ H[1] = IF r.IsScriptedViolator THEN 1 ELSE 0
  OBVIOUS
<1>3. MarshalRecord(r) = ((((((A \o B) \o C) \o D) \o E) \o F) \o G) \o H
  BY DEF MarshalRecord
<1>4. N \in Nat
  BY LenProperties
<1> DEFINE AB == A \o B
           AC == AB \o C
           AD == AC \o D
           AE == AD \o E
           AF == AE \o F
           AG == AF \o G
<1>5. \A s, t \in Seq(Byte) : s \o t \in Seq(Byte) /\ Len(s \o t) = Len(s) + Len(t)
  BY ConcatProperties
<1>6. \A s \in Seq(Byte) : Len(s) \in Nat
  BY LenProperties
<1>7. Agrees(bytes, offset, AG \o H)
  BY <1>3
<1> HIDE DEF A, B, C, D, E, F, G, H, N
<1>8. AB \in Seq(Byte) /\ Len(AB) = Len(A) + Len(B)
  BY <1>1, <1>5
<1> HIDE DEF AB
<1>9. AC \in Seq(Byte) /\ Len(AC) = Len(AB) + Len(C)
  BY <1>1, <1>5, <1>8
<1> HIDE DEF AC
<1>10. AD \in Seq(Byte) /\ Len(AD) = Len(AC) + Len(D)
  BY <1>1, <1>5, <1>9
<1> HIDE DEF AD
<1>11. AE \in Seq(Byte) /\ Len(AE) = Len(AD) + Len(E)
  BY <1>1, <1>5, <1>10
<1> HIDE DEF AE
<1>12. AF \in Seq(Byte) /\ Len(AF) = Len(AE) + Len(F)
  BY <1>1, <1>5, <1>11
<1> HIDE DEF AF
<1>13. AG \in Seq(Byte) /\ Len(AG) = Len(AF) + Len(G)
  BY <1>1, <1>5, <1>12
<1> HIDE DEF AG
<1>14. Len(AG \o H) = Len(AG) + 1
  <2>1. Len(H) = 1
    BY <1>2
  <2>2. AG \in Seq(Byte) /\ H \in Seq(Byte)
    BY <1>1, <1>13
  <2>3. Len(AG \o H) = Len(AG) + Len(H)
    BY <2>2, ConcatProperties
  <2> QED BY <2>1, <2>3
<1>15. m = Len(AG \o H)
  BY <1>3 DEF AG, AF, AE, AD, AC, AB
<1> HIDE DEF m
<1>16. Agrees(bytes, offset, AG) /\ Agrees(bytes, offset + Len(AG), H)
  BY <1>1, <1>4, <1>7, <1>13, AgreesConcat DEF N
<1>17. Agrees(bytes, offset, AF) /\ Agrees(bytes, offset + Len(AF), G)
  BY <1>1, <1>4, <1>12, <1>16, AgreesConcat DEF N, AG
<1>18. Agrees(bytes, offset, AE) /\ Agrees(bytes, offset + Len(AE), F)
  BY <1>1, <1>4, <1>11, <1>17, AgreesConcat DEF N, AF
<1>19. Agrees(bytes, offset, AD) /\ Agrees(bytes, offset + Len(AD), E)
  BY <1>1, <1>4, <1>10, <1>18, AgreesConcat DEF N, AE
<1>20. Agrees(bytes, offset, AC) /\ Agrees(bytes, offset + Len(AC), D)
  BY <1>1, <1>4, <1>9, <1>19, AgreesConcat DEF N, AD
<1>21. Agrees(bytes, offset, AB) /\ Agrees(bytes, offset + Len(AB), C)
  BY <1>1, <1>4, <1>8, <1>20, AgreesConcat DEF N, AC
<1>22. Agrees(bytes, offset, A) /\ Agrees(bytes, offset + Len(A), B)
  BY <1>1, <1>4, <1>21, AgreesConcat DEF N, AB
<1> DEFINE idLen == bytes[offset + 1]
           mmsiAt == offset + 1 + idLen
           mmsiLen == bytes[mmsiAt + 1]
           latAt == mmsiAt + 1 + mmsiLen
           lonAt == latAt + DoubleWidth
           sogAt == lonAt + DoubleWidth
           cogAt == sogAt + FloatWidth
           tsAt == cogAt + FloatWidth
           violatorAt == tsAt + DoubleWidth
           read == [VesselID |-> Bytes(bytes, offset + 1, idLen),
                    MMSI |-> Bytes(bytes, mmsiAt + 1, mmsiLen),
                    Lat |-> NumberAt(bytes, latAt, DoubleWidth),
                    Lon |-> NumberAt(bytes, lonAt, DoubleWidth),
                    SOGKnots |-> NumberAt(bytes, sogAt, FloatWidth),
                    COGDegrees |-> NumberAt(bytes, cogAt, FloatWidth),
                    TSUnixMs |-> NumberAt(bytes, tsAt, DoubleWidth),
                    IsScriptedViolator |-> bytes[violatorAt + 1] = 1]
<1>23. UnmarshalRecord(bytes, offset)
       = IF offset >= N \/ mmsiAt >= N \/ violatorAt >= N THEN {}
         ELSE {[next |-> violatorAt + 1, record |-> read]}
  BY Zenon DEF UnmarshalRecord, N
<1> DEFINE la == Len(r.VesselID)
           lb == Len(r.MMSI)
<1>23a. /\ r.VesselID \in Seq(Byte) /\ r.MMSI \in Seq(Byte)
        /\ r.Lat \in Nat /\ r.Lon \in Nat /\ r.SOGKnots \in Nat /\ r.COGDegrees \in Nat
        /\ r.TSUnixMs \in Nat /\ r.IsScriptedViolator \in BOOLEAN
  BY DEF AISRecord
<1>24. DoubleWidth \in Nat /\ FloatWidth \in Nat /\ la \in Nat /\ lb \in Nat
  BY <1>23a, CodecAssumption, LenProperties
<1>25. /\ Len(r.VesselID) < ByteBase /\ Len(r.MMSI) < ByteBase
       /\ Fits(r.Lat, DoubleWidth) /\ Fits(r.Lon, DoubleWidth) /\ Fits(r.TSUnixMs, DoubleWidth)
       /\ Fits(r.SOGKnots, FloatWidth) /\ Fits(r.COGDegrees, FloatWidth)
  BY DEF RecordFits
<1>26. /\ Len(A) = la + 1
       /\ offset < N => idLen = la
       /\ (offset + 1) + la <= N
          => Bytes(bytes, offset + 1, la) = r.VesselID
  BY <1>22, <1>23a, <1>25, AgreesString DEF A, N
<1> DEFINE a == Len(A)
           b == Len(B)
<1>27. /\ b = lb + 1
       /\ offset + a < N => bytes[(offset + a) + 1] = lb
       /\ ((offset + a) + 1) + lb <= N
          => Bytes(bytes, (offset + a) + 1, lb) = r.MMSI
  <2>1. offset + a \in Nat
    BY <1>1, <1>6
  <2>2. Agrees(bytes, offset + a, MarshalString(r.MMSI))
    BY <1>22 DEF B
  <2> HIDE DEF a
  <2> QED BY <1>23a, <1>25, <2>1, <2>2, AgreesString DEF B, N
<1> HIDE DEF la, lb, idLen, mmsiAt, mmsiLen, latAt, lonAt, sogAt, cogAt, tsAt, violatorAt, read
<1>28. a \in Nat \ {0} /\ b \in Nat \ {0} /\ a = la + 1 /\ b = lb + 1
       /\ m = a + b + DoubleWidth + DoubleWidth + FloatWidth + FloatWidth + DoubleWidth + 1
  <2>1. /\ Len(AB) = a + b /\ Len(AC) = (a + b) + DoubleWidth
        /\ Len(AD) = ((a + b) + DoubleWidth) + DoubleWidth
        /\ Len(AE) = (((a + b) + DoubleWidth) + DoubleWidth) + FloatWidth
        /\ Len(AF) = ((((a + b) + DoubleWidth) + DoubleWidth) + FloatWidth) + FloatWidth
        /\ Len(AG) = (((((a + b) + DoubleWidth) + DoubleWidth) + FloatWidth) + FloatWidth) + DoubleWidth
    BY <1>1, <1>8, <1>9, <1>10, <1>11, <1>12, <1>13
  <2> HIDE DEF a, b
  <2> QED BY <1>14, <1>15, <1>24, <1>26, <1>27, <2>1 DEF a
<1> HIDE DEF a, b
<1>29. CASE offset >= N
  <2>1. ~(offset + m <= N)
    BY <1>4, <1>24, <1>28, <1>29
  <2> QED BY <1>23, <1>24, <1>28, <1>29, <2>1 DEF m, N
<1>30. ASSUME offset < N
       PROVE  idLen = la /\ mmsiAt = offset + a
  BY <1>24, <1>26, <1>28, <1>30 DEF mmsiAt
<1>31. CASE offset < N /\ mmsiAt >= N
  <2>1. mmsiAt = offset + a
    BY <1>30, <1>31
  <2>2. ~(offset + m <= N)
    BY <1>4, <1>24, <1>28, <1>31, <2>1
  <2> QED BY <1>23, <1>24, <1>28, <1>31, <2>2 DEF m, N
<1>32. ASSUME offset < N, mmsiAt < N
       PROVE  /\ mmsiLen = lb
              /\ latAt = offset + a + b
              /\ violatorAt + 1 = offset + m
              /\ violatorAt \in Nat
  <2>1. mmsiAt = offset + a
    BY <1>30, <1>32
  <2>2. mmsiLen = lb
    BY <1>27, <1>32, <2>1 DEF mmsiLen
  <2>3. latAt = offset + a + b
    BY <1>24, <1>28, <2>1, <2>2 DEF latAt
  <2>4. violatorAt = offset + a + b + DoubleWidth + DoubleWidth + FloatWidth + FloatWidth + DoubleWidth
    BY <2>3 DEF violatorAt, tsAt, cogAt, sogAt, lonAt
  <2> QED BY <1>24, <1>28, <2>2, <2>3, <2>4
<1>33. CASE offset < N /\ mmsiAt < N /\ violatorAt >= N
  <2>1. violatorAt + 1 = offset + m /\ violatorAt \in Nat
    BY <1>32, <1>33
  <2>2. ~(offset + m <= N)
    BY <1>4, <1>33, <2>1
  <2> QED BY <1>23, <1>24, <1>28, <1>33, <2>2 DEF m, N
<1>34. CASE offset < N /\ mmsiAt < N /\ violatorAt < N
  <2>1. /\ idLen = la /\ mmsiAt = offset + a /\ mmsiLen = lb
        /\ latAt = offset + a + b /\ violatorAt + 1 = offset + m /\ violatorAt \in Nat
    BY <1>30, <1>32, <1>34
  <2>2. offset + m <= N
    BY <1>4, <1>34, <2>1
  <2>3. /\ offset + Len(AB) = latAt /\ offset + Len(AC) = lonAt /\ offset + Len(AD) = sogAt
        /\ offset + Len(AE) = cogAt /\ offset + Len(AF) = tsAt /\ offset + Len(AG) = violatorAt
        /\ latAt \in Nat /\ lonAt \in Nat /\ sogAt \in Nat /\ cogAt \in Nat /\ tsAt \in Nat
        /\ lonAt = latAt + DoubleWidth /\ sogAt = lonAt + DoubleWidth /\ cogAt = sogAt + FloatWidth
        /\ tsAt = cogAt + FloatWidth /\ violatorAt = tsAt + DoubleWidth
    <3>1. offset + Len(AB) = latAt /\ latAt \in Nat
      BY <1>8, <1>24, <1>28, <2>1 DEF a, b
    <3>0. /\ Len(AB) \in Nat /\ Len(AC) \in Nat /\ Len(AD) \in Nat /\ Len(AE) \in Nat /\ Len(AF) \in Nat
      BY <1>6, <1>8, <1>9, <1>10, <1>11, <1>12
    <3> HIDE DEF latAt
    <3>2. lonAt = latAt + DoubleWidth /\ offset + Len(AC) = lonAt /\ lonAt \in Nat
      <4>1. Len(AC) = Len(AB) + DoubleWidth
        BY <1>1, <1>9
      <4>2. lonAt = latAt + DoubleWidth
        BY DEF lonAt
      <4> HIDE DEF lonAt
      <4> QED BY <1>24, <3>0, <3>1, <4>1, <4>2
    <3> HIDE DEF lonAt
    <3>3. sogAt = lonAt + DoubleWidth /\ offset + Len(AD) = sogAt /\ sogAt \in Nat
      <4>1. Len(AD) = Len(AC) + DoubleWidth
        BY <1>1, <1>10
      <4>2. sogAt = lonAt + DoubleWidth
        BY DEF sogAt
      <4> HIDE DEF sogAt
      <4> QED BY <1>24, <3>0, <3>2, <4>1, <4>2, FieldAfter
    <3> HIDE DEF sogAt
    <3>4. cogAt = sogAt + FloatWidth /\ offset + Len(AE) = cogAt /\ cogAt \in Nat
      <4>1. Len(AE) = Len(AD) + FloatWidth
        BY <1>1, <1>11
      <4>2. cogAt = sogAt + FloatWidth
        BY DEF cogAt
      <4> HIDE DEF cogAt
      <4> QED BY <1>24, <3>0, <3>3, <4>1, <4>2, FieldAfter
    <3> HIDE DEF cogAt
    <3>5. tsAt = cogAt + FloatWidth /\ offset + Len(AF) = tsAt /\ tsAt \in Nat
      <4>1. Len(AF) = Len(AE) + FloatWidth
        BY <1>1, <1>12
      <4>2. tsAt = cogAt + FloatWidth
        BY DEF tsAt
      <4> HIDE DEF tsAt
      <4> QED BY <1>24, <3>0, <3>4, <4>1, <4>2, FieldAfter
    <3> HIDE DEF tsAt
    <3>6. violatorAt = tsAt + DoubleWidth /\ offset + Len(AG) = violatorAt /\ violatorAt \in Nat
      <4>1. Len(AG) = Len(AF) + DoubleWidth
        BY <1>1, <1>13
      <4>2. violatorAt = tsAt + DoubleWidth
        BY DEF violatorAt
      <4> HIDE DEF violatorAt
      <4> QED BY <1>24, <3>0, <3>5, <4>1, <4>2, FieldAfter
    <3> QED BY <3>1, <3>2, <3>3, <3>4, <3>5, <3>6
  <2>4. /\ latAt + DoubleWidth <= N /\ lonAt + DoubleWidth <= N /\ sogAt + FloatWidth <= N
        /\ cogAt + FloatWidth <= N /\ tsAt + DoubleWidth <= N
    <3>1. violatorAt < N /\ tsAt + DoubleWidth <= N /\ tsAt <= N
      BY <1>4, <1>24, <1>34, <2>3
    <3>2. cogAt + FloatWidth <= N /\ cogAt <= N
      BY <1>4, <1>24, <2>3, <3>1
    <3>3. sogAt + FloatWidth <= N /\ sogAt <= N
      BY <1>4, <1>24, <2>3, <3>2
    <3>4. lonAt + DoubleWidth <= N /\ lonAt <= N
      BY <1>4, <1>24, <2>3, <3>3
    <3>5. latAt + DoubleWidth <= N
      BY <1>4, <1>24, <2>3, <3>4
    <3> QED BY <3>1, <3>2, <3>3, <3>4, <3>5
  <2>5. NumberAt(bytes, latAt, DoubleWidth) = r.Lat
    <3>1. Agrees(bytes, latAt, LittleEndian(r.Lat, DoubleWidth))
      BY <1>21, <2>3 DEF C
    <3>2. latAt \in Nat /\ latAt + DoubleWidth <= Len(bytes)
      BY <2>3, <2>4 DEF N
    <3>3. r.Lat \in Nat /\ Fits(r.Lat, DoubleWidth) /\ DoubleWidth \in Nat
      BY <1>23a, <1>24, <1>25
    <3> QED BY <3>1, <3>2, <3>3, AgreesNumber
  <2>6. NumberAt(bytes, lonAt, DoubleWidth) = r.Lon
    <3>1. Agrees(bytes, lonAt, LittleEndian(r.Lon, DoubleWidth))
      BY <1>20, <2>3 DEF D
    <3>2. lonAt \in Nat /\ lonAt + DoubleWidth <= Len(bytes)
      BY <2>3, <2>4 DEF N
    <3>3. r.Lon \in Nat /\ Fits(r.Lon, DoubleWidth) /\ DoubleWidth \in Nat
      BY <1>23a, <1>24, <1>25
    <3> QED BY <3>1, <3>2, <3>3, AgreesNumber
  <2>7. NumberAt(bytes, sogAt, FloatWidth) = r.SOGKnots
    <3>1. Agrees(bytes, sogAt, LittleEndian(r.SOGKnots, FloatWidth))
      BY <1>19, <2>3 DEF E
    <3>2. sogAt \in Nat /\ sogAt + FloatWidth <= Len(bytes)
      BY <2>3, <2>4 DEF N
    <3>3. r.SOGKnots \in Nat /\ Fits(r.SOGKnots, FloatWidth) /\ FloatWidth \in Nat
      BY <1>23a, <1>24, <1>25
    <3> QED BY <3>1, <3>2, <3>3, AgreesNumber
  <2>8. NumberAt(bytes, cogAt, FloatWidth) = r.COGDegrees
    <3>1. Agrees(bytes, cogAt, LittleEndian(r.COGDegrees, FloatWidth))
      BY <1>18, <2>3 DEF F
    <3>2. cogAt \in Nat /\ cogAt + FloatWidth <= Len(bytes)
      BY <2>3, <2>4 DEF N
    <3>3. r.COGDegrees \in Nat /\ Fits(r.COGDegrees, FloatWidth) /\ FloatWidth \in Nat
      BY <1>23a, <1>24, <1>25
    <3> QED BY <3>1, <3>2, <3>3, AgreesNumber
  <2>9. NumberAt(bytes, tsAt, DoubleWidth) = r.TSUnixMs
    <3>1. Agrees(bytes, tsAt, LittleEndian(r.TSUnixMs, DoubleWidth))
      BY <1>17, <2>3 DEF G
    <3>2. tsAt \in Nat /\ tsAt + DoubleWidth <= Len(bytes)
      BY <2>3, <2>4 DEF N
    <3>3. r.TSUnixMs \in Nat /\ Fits(r.TSUnixMs, DoubleWidth) /\ DoubleWidth \in Nat
      BY <1>23a, <1>24, <1>25
    <3> QED BY <3>1, <3>2, <3>3, AgreesNumber
  <2>10. Bytes(bytes, offset + 1, idLen) = r.VesselID
    <3>1. (offset + 1) + la <= N
      BY <1>4, <1>24, <1>28, <1>34, <2>1
    <3> QED BY <1>26, <2>1, <3>1
  <2>11. Bytes(bytes, mmsiAt + 1, mmsiLen) = r.MMSI
    <3>1. ((offset + a) + 1) + lb <= N
      BY <1>4, <1>24, <1>28, <1>34, <2>1, <2>3
    <3> QED BY <1>27, <2>1, <3>1
  <2>12. (bytes[violatorAt + 1] = 1) = r.IsScriptedViolator
    <3>1. 1 \in 1..Len(H)
      BY <1>2
    <3>2. violatorAt + 1 <= N
      BY <1>4, <1>34, <2>1
    <3>3. bytes[violatorAt + 1] = H[1]
      BY <1>16, <2>3, <3>1, <3>2 DEF Agrees, N
    <3>4. bytes[violatorAt + 1] = IF r.IsScriptedViolator THEN 1 ELSE 0
      BY <1>2, <3>3, Zenon
    <3>5. CASE r.IsScriptedViolator
      <4>1. bytes[violatorAt + 1] = 1
        BY <3>4, <3>5
      <4> QED BY <1>23a, <3>5, <4>1, Zenon
    <3>6. CASE ~r.IsScriptedViolator
      <4>1. bytes[violatorAt + 1] # 1
        BY <3>4, <3>6
      <4> QED BY <1>23a, <3>6, <4>1, Zenon
    <3> QED BY <1>23a, <3>5, <3>6
  <2>13. read = [VesselID |-> r.VesselID, MMSI |-> r.MMSI, Lat |-> r.Lat, Lon |-> r.Lon,
                 SOGKnots |-> r.SOGKnots, COGDegrees |-> r.COGDegrees, TSUnixMs |-> r.TSUnixMs,
                 IsScriptedViolator |-> r.IsScriptedViolator]
    BY <2>5, <2>6, <2>7, <2>8, <2>9, <2>10, <2>11, <2>12, Zenon DEF read
  <2>14. r = [VesselID |-> r.VesselID, MMSI |-> r.MMSI, Lat |-> r.Lat, Lon |-> r.Lon,
              SOGKnots |-> r.SOGKnots, COGDegrees |-> r.COGDegrees, TSUnixMs |-> r.TSUnixMs,
              IsScriptedViolator |-> r.IsScriptedViolator]
    BY DEF AISRecord
  <2>15. read = r
    BY <2>13, <2>14, Zenon
  <2>16. ~(offset >= N) /\ ~(mmsiAt >= N) /\ ~(violatorAt >= N)
    BY <1>4, <1>28, <1>34, <2>1
  <2>17. UnmarshalRecord(bytes, offset) = {[next |-> offset + m, record |-> r]}
    BY <1>23, <2>1, <2>15, <2>16, Zenon
  <2>18. m \in Nat
    BY <1>24, <1>28
  <2> QED BY <2>2, <2>17, <2>18 DEF m, N
<1>35. \/ offset >= N
       \/ offset < N /\ mmsiAt >= N
       \/ offset < N /\ mmsiAt < N /\ violatorAt >= N
       \/ offset < N /\ mmsiAt < N /\ violatorAt < N
  <2>1. ASSUME offset < N, mmsiAt < N PROVE violatorAt >= N \/ violatorAt < N
    BY <1>4, <1>32, <2>1
  <2>2. ASSUME offset < N PROVE mmsiAt >= N \/ mmsiAt < N
    <3>1. mmsiAt \in Nat
      BY <1>28, <1>30, <2>2
    <3> QED BY <1>4, <3>1
  <2>3. offset >= N \/ offset < N
    BY <1>4
  <2> QED BY <2>1, <2>2, <2>3
<1> QED BY <1>29, <1>31, <1>33, <1>34, <1>35

(* Where the loop over the records starts, and one turn of it.             *)
Start == {[offset |-> 2 * IntWidth, records |-> << >>]}
More(bytes, got) ==
    UNION { {[offset |-> u.next, records |-> Append(done.records, u.record)] :
               u \in UnmarshalRecord(bytes, done.offset)} : done \in got }

(* The turns of the loop, and its result.                                  *)
Reads(read, bytes, count) ==
    /\ read[0] = Start
    /\ \A i \in 1..count : read[i] = More(bytes, read[i - 1])
    /\ \A i \in 0..count : read[i] \in SUBSET Progress
    /\ UnmarshalRecords(bytes, count) = {done.records : done \in read[count]}

LEMMA ReadProperties ==
    ASSUME NEW bytes \in Seq(Byte), NEW count \in Nat
    PROVE  \E read : Reads(read, bytes, count)
<1> DEFINE P == SUBSET Progress
           F == [x \in (0..count) \X P |-> More(bytes, x[2])]
           read == CHOOSE read : AreRead(read, bytes, count)
           G == {i \in Nat : i <= count => read[i] \in P}
<1>1. Start \in P
  <2>1. 2 * IntWidth \in Nat
    BY CodecAssumption
  <2>2. << >> \in Seq(AISRecord)
    BY EmptySeq
  <2> QED BY <2>1, <2>2 DEF Progress, Start
<1>2. \A got \in P : More(bytes, got) \in P
  <2> SUFFICES ASSUME NEW got \in P PROVE More(bytes, got) \in P
    OBVIOUS
  <2> QED BY ReadOneMore DEF More
<1> HIDE DEF P
<1>3. \E f : AreRead(f, bytes, count)
  <2>1. \A i \in 0..count, got \in P : F[<<i, got>>] = More(bytes, got)
    OBVIOUS
  <2>2. \A i \in 0..count, got \in P : F[<<i, got>>] \in P
    BY <1>2, <2>1
  <2> HIDE DEF F
  <2>3. PICK f : Recursive(f, 0, count, P, Start, F)
    BY <1>1, <2>2, RecursionFromZero
  <2>4. f \in [0..count -> P] /\ f[0] = Start /\ \A i \in 1..count : f[i] = F[<<i, f[i - 1]>>]
    BY <2>3 DEF Recursive
  <2>5. \A i \in 0..count : i # 0 => i \in 1..count /\ i - 1 \in 0..count
    OBVIOUS
  <2>6. \A i \in 0..count : i # 0 => f[i] = More(bytes, f[i - 1])
    BY <2>1, <2>4, <2>5
  <2>7. f = [i \in 0..count |-> IF i = 0 THEN Start ELSE More(bytes, f[i - 1])]
    BY <2>4, <2>6
  <2> QED BY <2>7 DEF AreRead, Start, More
<1>4. AreRead(read, bytes, count)
  BY <1>3, Zenon
<1>5. UnmarshalRecords(bytes, count) = {done.records : done \in read[count]}
  BY Zenon DEF UnmarshalRecords, AreRead
<1> HIDE DEF read
<1>6. \A i \in 0..count : read[i] = IF i = 0 THEN Start ELSE More(bytes, read[i - 1])
  <2>1. read = [i \in 0..count |-> IF i = 0 THEN Start ELSE More(bytes, read[i - 1])]
    BY <1>4 DEF AreRead, Start, More
  <2> QED BY <2>1
<1>7. read[0] = Start /\ \A i \in 1..count : read[i] = More(bytes, read[i - 1])
  <2>1. 0 \in 0..count /\ \A i \in 1..count : i \in 0..count /\ i # 0
    OBVIOUS
  <2> QED BY <1>6, <2>1, Zenon
<1>8. 0 \in G
  BY <1>1, <1>7
<1>9. ASSUME NEW i \in Nat, i \in G PROVE i + 1 \in G
  <2>1. SUFFICES ASSUME i + 1 <= count PROVE read[i + 1] \in P
    OBVIOUS
  <2>2. i + 1 \in 1..count /\ (i + 1) - 1 = i /\ read[i] \in P
    BY <1>9, <2>1
  <2> QED BY <1>2, <1>7, <2>2
<1>10. \A i \in 0..count : read[i] \in P
  <2>1. Nat \subseteq G
    <3> HIDE DEF G
    <3> QED BY <1>8, <1>9, NatInductionSet
  <2> QED BY <2>1
<1> QED BY <1>5, <1>7, <1>10 DEF P, Reads

LEMMA OneMore ==
    ASSUME NEW bytes, NEW done, NEW got, got = {done}
    PROVE  /\ UnmarshalRecord(bytes, done.offset) = {} => More(bytes, got) = {}
           /\ \A u : UnmarshalRecord(bytes, done.offset) = {u}
                => More(bytes, got) = {[offset |-> u.next, records |-> Append(done.records, u.record)]}
<1>1. More(bytes, got)
      = {[offset |-> u.next, records |-> Append(done.records, u.record)] :
           u \in UnmarshalRecord(bytes, done.offset)}
  BY DEF More
<1> QED BY <1>1

(* The first records of a sequence.                                        *)
Prefixed(s, S) ==
    /\ SubSeq(s, 1, 0) = << >>
    /\ SubSeq(s, 1, Len(s)) = s
    /\ \A i \in 0..(Len(s) - 1) :
         /\ SubSeq(s, 1, i) \in Seq(S)
         /\ SubSeq(s, 1, i + 1) = Append(SubSeq(s, 1, i), s[i + 1])

LEMMA FirstOnes ==
    ASSUME NEW S, NEW s \in Seq(S)
    PROVE  Prefixed(s, S)
<1>1. Len(s) \in Nat /\ \A i \in 1..Len(s) : s[i] \in S
  BY LenProperties, ElementOfSeq
<1>2. \A i \in 0..Len(s) :
        /\ SubSeq(s, 1, i) \in Seq(S)
        /\ Len(SubSeq(s, 1, i)) = i
        /\ \A k \in 1..i : SubSeq(s, 1, i)[k] = s[k]
  <2>1. SUFFICES ASSUME NEW i \in 0..Len(s)
                 PROVE  /\ SubSeq(s, 1, i) \in Seq(S)
                        /\ Len(SubSeq(s, 1, i)) = i
                        /\ \A k \in 1..i : SubSeq(s, 1, i)[k] = s[k]
    OBVIOUS
  <2>2. /\ 1 \in Int /\ i \in Int /\ \A k \in 1..i : s[k] \in S
    BY <1>1
  <2>3. /\ SubSeq(s, 1, i) \in Seq(S)
        /\ Len(SubSeq(s, 1, i)) = IF 1 <= i THEN (i - 1) + 1 ELSE 0
        /\ \A k \in 1..((i - 1) + 1) : SubSeq(s, 1, i)[k] = s[(1 + k) - 1]
    BY <2>2, SubSeqProperties
  <2>4. (i - 1) + 1 = i /\ \A k \in 1..i : (1 + k) - 1 = k
    OBVIOUS
  <2>5. (IF 1 <= i THEN (i - 1) + 1 ELSE 0) = i
    BY <1>1
  <2> QED BY <2>3, <2>4, <2>5
<1>3. SubSeq(s, 1, 0) = << >>
  <2>1. 1 \in Int /\ 0 \in Int /\ 0 < 1
    OBVIOUS
  <2> QED BY <2>1, SubSeqEmpty
<1>4. SubSeq(s, 1, Len(s)) = s
  <2>1. Len(s) \in 0..Len(s)
    BY <1>1
  <2> QED BY <1>2, <2>1, SeqEqual
<1>5. ASSUME NEW i \in 0..(Len(s) - 1)
      PROVE  /\ SubSeq(s, 1, i) \in Seq(S)
             /\ SubSeq(s, 1, i + 1) = Append(SubSeq(s, 1, i), s[i + 1])
  <2> DEFINE p == SubSeq(s, 1, i)
             q == SubSeq(s, 1, i + 1)
             e == s[i + 1]
  <2>1. i \in 0..Len(s) /\ i + 1 \in 0..Len(s) /\ i + 1 \in 1..Len(s)
    BY <1>1
  <2>2. e \in S
    BY <1>1, <2>1
  <2>3. p \in Seq(S) /\ Len(p) = i /\ \A k \in 1..i : p[k] = s[k]
    BY <1>2, <2>1
  <2>4. q \in Seq(S) /\ Len(q) = i + 1 /\ \A k \in 1..(i + 1) : q[k] = s[k]
    BY <1>2, <2>1
  <2>5. q[i + 1] = e
    BY <2>1, <2>4
  <2> HIDE DEF p, q, e
  <2>6. /\ Append(p, e) \in Seq(S) /\ Len(Append(p, e)) = i + 1
        /\ \A k \in 1..i : Append(p, e)[k] = p[k]
        /\ Append(p, e)[i + 1] = e
    BY <2>2, <2>3, AppendProperties
  <2>7. \A k \in 1..(i + 1) : k \in 1..i \/ k = i + 1
    OBVIOUS
  <2>8. \A k \in 1..(i + 1) : q[k] = Append(p, e)[k]
    BY <2>3, <2>4, <2>5, <2>6, <2>7
  <2>9. q = Append(p, e)
    BY <2>4, <2>6, <2>8, SeqEqual
  <2> QED BY <2>3, <2>9 DEF p, q, e
<1> QED BY <1>3, <1>4, <1>5 DEF Prefixed

(* The bytes of each record.                                               *)
Parts(records) == [i \in DOMAIN records |-> MarshalRecord(records[i])]

(* Where the bytes of the i-th record end, counted from the first, when    *)
(* bytes holds them all as far as it goes.                                 *)
Ends(ends, bytes, records) ==
    /\ ends[0] = 0
    /\ ends[Len(records)] = Len(FlattenSeq(Parts(records)))
    /\ \A i \in 1..Len(records) :
         /\ ends[i - 1] \in Nat
         /\ Len(MarshalRecord(records[i])) \in Nat
         /\ ends[i] = ends[i - 1] + Len(MarshalRecord(records[i]))
         /\ Agrees(bytes, 2 * IntWidth + ends[i - 1], MarshalRecord(records[i]))

LEMMA PartsType ==
    ASSUME NEW records \in Seq(AISRecord)
    PROVE  /\ Parts(records) \in Seq(Seq(Byte)) /\ Len(Parts(records)) = Len(records)
           /\ \A i \in 1..Len(records) : Parts(records)[i] = MarshalRecord(records[i])
<1>1. /\ Len(records) \in Nat /\ DOMAIN records = 1..Len(records)
      /\ \A i \in 1..Len(records) : records[i] \in AISRecord
  BY LenProperties, ElementOfSeq
<1>2. Parts(records) \in [1..Len(records) -> Seq(Byte)]
  BY <1>1, MarshalRecordType DEF Parts
<1>3. \A i \in 1..Len(records) : Parts(records)[i] = MarshalRecord(records[i])
  BY <1>1 DEF Parts
<1> QED BY <1>1, <1>2, <1>3, SequenceOver

LEMMA EndsExist ==
    ASSUME NEW bytes \in Seq(Byte), NEW records \in Seq(AISRecord),
           Agrees(bytes, 2 * IntWidth, FlattenSeq(Parts(records)))
    PROVE  \E ends : Ends(ends, bytes, records)
<1> DEFINE n == Len(records)
           parts == Parts(records)
           base == 2 * IntWidth
<1>1. /\ n \in Nat /\ parts \in Seq(Seq(Byte)) /\ Len(parts) = n
      /\ \A i \in 1..n : parts[i] = MarshalRecord(records[i])
  BY LenProperties, PartsType
<1>2. base \in Nat /\ Len(bytes) \in Nat
  BY CodecAssumption, LenProperties
<1>3. CASE n = 0
  <2>1. parts = << >>
    BY <1>1, <1>3, EmptySeq
  <2>2. FlattenSeq(parts) = << >>
    <3>1. FlattenSeq(parts) = parts
      BY <1>1, <1>3, Zenon DEF FlattenSeq
    <3> QED BY <2>1, <3>1, Zenon
  <2>3. Len(FlattenSeq(parts)) = 0
    BY <2>2, EmptySeq
  <2> DEFINE ends == [i \in {0} |-> 0]
  <2>4. ends[0] = 0 /\ ends[Len(records)] = 0
    BY <1>3
  <2> HIDE DEF ends
  <2>5. Ends(ends, bytes, records)
    BY <1>3, <2>3, <2>4 DEF Ends
  <2> QED BY <2>5
<1>4. CASE n # 0
  <2>1. PICK flat :
          /\ flat[1] = parts[1]
          /\ \A i \in 1..n : flat[i] \in Seq(Byte)
          /\ \A i \in 2..n : flat[i] = flat[i - 1] \o parts[i]
          /\ FlattenSeq(parts) = flat[n]
    <3> HIDE DEF n, parts
    <3> QED BY <1>1, <1>4, FlattenProperties
  <2> HIDE DEF n, parts, base
  <2> DEFINE G == {k \in Nat : k < n => Agrees(bytes, base, flat[n - k])}
  <2>2. \A i \in 1..n : parts[i] \in Seq(Byte)
    BY <1>1, ElementOfSeq
  <2>3. \A i \in 2..n : Agrees(bytes, base, flat[i])
          => /\ Agrees(bytes, base, flat[i - 1])
             /\ Agrees(bytes, base + Len(flat[i - 1]), parts[i])
             /\ Len(flat[i]) = Len(flat[i - 1]) + Len(parts[i])
    <3>1. SUFFICES ASSUME NEW i \in 2..n
                   PROVE  Agrees(bytes, base, flat[i])
                          => /\ Agrees(bytes, base, flat[i - 1])
                             /\ Agrees(bytes, base + Len(flat[i - 1]), parts[i])
                             /\ Len(flat[i]) = Len(flat[i - 1]) + Len(parts[i])
      OBVIOUS
    <3>2. i \in 1..n /\ i - 1 \in 1..n
      BY <1>1
    <3>3. flat[i - 1] \in Seq(Byte) /\ parts[i] \in Seq(Byte) /\ flat[i] = flat[i - 1] \o parts[i]
      BY <2>1, <2>2, <3>2
    <3> QED BY <1>2, <3>1, <3>3, AgreesConcat
  <2>4. 0 \in G
    <3>1. n - 0 = n
      BY <1>1
    <3> QED BY <2>1, <3>1 DEF parts, base
  <2>5. ASSUME NEW k \in Nat, k \in G PROVE k + 1 \in G
    <3>1. SUFFICES ASSUME k + 1 < n PROVE Agrees(bytes, base, flat[n - (k + 1)])
      OBVIOUS
    <3>2. n - k \in 2..n /\ (n - k) - 1 = n - (k + 1) /\ k < n
      BY <1>1, <3>1
    <3>3. Agrees(bytes, base, flat[n - k])
      BY <2>5, <3>2
    <3>4. Agrees(bytes, base, flat[(n - k) - 1])
      BY <2>3, <3>2, <3>3
    <3> QED BY <3>2, <3>4
  <2>6. \A i \in 1..n : Agrees(bytes, base, flat[i])
    <3>1. Nat \subseteq G
      <4> HIDE DEF G
      <4> QED BY <2>4, <2>5, NatInductionSet
    <3>2. SUFFICES ASSUME NEW i \in 1..n PROVE Agrees(bytes, base, flat[i])
      OBVIOUS
    <3>3. n - i \in Nat /\ n - i < n /\ n - (n - i) = i
      BY <1>1
    <3>4. n - i \in G
      BY <3>1, <3>3
    <3> QED BY <3>3, <3>4
  <2> DEFINE ends == [i \in 0..n |-> IF i = 0 THEN 0 ELSE Len(flat[i])]
  <2>7. ends[0] = 0 /\ ends[n] = Len(FlattenSeq(parts)) /\ \A i \in 1..n : ends[i] = Len(flat[i])
    <3>1. 0 \in 0..n /\ n \in 0..n /\ \A i \in 1..n : i \in 0..n /\ i # 0
      BY <1>1
    <3> QED BY <1>4, <2>1, <3>1
  <2> HIDE DEF ends
  <2>8. \A i \in 1..n : Len(flat[i]) \in Nat
    BY <2>1, LenProperties
  <2>9. ASSUME NEW i \in 1..n
        PROVE  /\ ends[i - 1] \in Nat
               /\ ends[i] = ends[i - 1] + Len(parts[i])
               /\ Len(parts[i]) \in Nat
               /\ Agrees(bytes, base + ends[i - 1], parts[i])
    <3>1. Len(parts[i]) \in Nat
      BY <2>2, LenProperties
    <3>2. CASE i = 1
      <4>1. ends[i - 1] = 0 /\ ends[i] = Len(parts[i])
        BY <2>1, <2>7, <3>2
      <4>2. 0 + Len(parts[i]) = Len(parts[i]) /\ base + 0 = base
        BY <1>2, <3>1
      <4>3. Agrees(bytes, base, parts[i])
        BY <2>1, <2>6, <3>2
      <4> QED BY <3>1, <4>1, <4>2, <4>3
    <3>3. CASE i # 1
      <4>1. i \in 2..n /\ i - 1 \in 1..n
        BY <1>1, <3>3
      <4>2. ends[i - 1] = Len(flat[i - 1]) /\ ends[i] = Len(flat[i])
        BY <2>7, <4>1
      <4> QED BY <2>3, <2>6, <2>8, <3>1, <4>1, <4>2
    <3> QED BY <3>2, <3>3
  <2>10. Ends(ends, bytes, records)
    BY <1>1, <2>7, <2>9 DEF Ends, n, parts, base
  <2> QED BY <2>10
<1> QED BY <1>3, <1>4

(* Records are read where they were written, or none at all if they are    *)
(* cut off anywhere.                                                       *)
LEMMA RecordsRead ==
    ASSUME NEW bytes \in Seq(Byte), NEW records \in Seq(AISRecord),
           \A i \in 1..Len(records) : RecordFits(records[i]),
           Agrees(bytes, 2 * IntWidth, FlattenSeq(Parts(records))),
           2 * IntWidth <= Len(bytes)
    PROVE  UnmarshalRecords(bytes, Len(records))
           = IF 2 * IntWidth + Len(FlattenSeq(Parts(records))) <= Len(bytes)
             THEN {records} ELSE {}
<1> DEFINE n == Len(records)
           N == Len(bytes)
           base == 2 * IntWidth
<1>1. n \in Nat /\ N \in Nat /\ base \in Nat /\ \A i \in 1..n : records[i] \in AISRecord
  BY CodecAssumption, LenProperties, ElementOfSeq
<1>2. PICK ends : Ends(ends, bytes, records)
  BY EndsExist
<1>3. /\ ends[0] = 0 /\ ends[n] = Len(FlattenSeq(Parts(records)))
      /\ \A i \in 1..n :
           /\ ends[i - 1] \in Nat
           /\ Len(MarshalRecord(records[i])) \in Nat
           /\ ends[i] = ends[i - 1] + Len(MarshalRecord(records[i]))
           /\ Agrees(bytes, base + ends[i - 1], MarshalRecord(records[i]))
  BY <1>2 DEF Ends
<1>4. PICK read : Reads(read, bytes, n)
  BY <1>1, ReadProperties
<1>5. /\ read[0] = Start /\ \A i \in 1..n : read[i] = More(bytes, read[i - 1])
      /\ UnmarshalRecords(bytes, n) = {done.records : done \in read[n]}
  BY <1>4 DEF Reads
<1>6. base <= N
  OBVIOUS
<1>6a. \A i \in 1..n : RecordFits(records[i])
  OBVIOUS
<1>6b. /\ SubSeq(records, 1, 0) = << >> /\ SubSeq(records, 1, n) = records
       /\ \A i \in 0..(n - 1) :
            SubSeq(records, 1, i + 1) = Append(SubSeq(records, 1, i), records[i + 1])
  <2>1. /\ SubSeq(records, 1, 0) = << >> /\ SubSeq(records, 1, Len(records)) = records
        /\ \A i \in 0..(Len(records) - 1) :
              /\ SubSeq(records, 1, i) \in Seq(AISRecord)
              /\ SubSeq(records, 1, i + 1) = Append(SubSeq(records, 1, i), records[i + 1])
    <3>1. Prefixed(records, AISRecord)
      BY FirstOnes
    <3> QED BY <3>1 DEF Prefixed
  <2> QED BY <2>1
<1>6c. Start = {[offset |-> base, records |-> << >>]}
  BY DEF Start
<1> HIDE DEF n, N, base
<1> DEFINE progress(i) == [offset |-> base + ends[i], records |-> SubSeq(records, 1, i)]
           Right(i) == read[i] = IF base + ends[i] <= N THEN {progress(i)} ELSE {}
           G == {i \in Nat : i <= n => Right(i)}
<1>7. 0 \in G
  <2>1. base + ends[0] = base
    BY <1>1, <1>3
  <2>2. progress(0) = [offset |-> base, records |-> << >>]
    BY <1>6b, <2>1
  <2>3. read[0] = {progress(0)}
    BY <1>5, <1>6c, <2>2, Zenon
  <2>4. base + ends[0] <= N
    BY <1>6, <2>1
  <2>5. Right(0)
    BY <2>3, <2>4, Zenon
  <2> QED BY <2>5
<1>8. ASSUME NEW i \in Nat, i \in G PROVE i + 1 \in G
  <2>1. SUFFICES ASSUME i + 1 <= n PROVE Right(i + 1)
    OBVIOUS
  <2>2. i + 1 \in 1..n /\ (i + 1) - 1 = i /\ i \in 0..(n - 1) /\ Right(i)
    BY <1>1, <1>8, <2>1
  <2> DEFINE r == records[i + 1]
             len == Len(MarshalRecord(r))
             off == base + ends[i]
             done == progress(i)
  <2>3. /\ r \in AISRecord /\ RecordFits(r) /\ len \in Nat /\ ends[i] \in Nat
        /\ ends[i + 1] = ends[i] + len /\ off \in Nat /\ Agrees(bytes, off, MarshalRecord(r))
    <3>1. r \in AISRecord /\ RecordFits(r)
      BY <1>1, <1>6a, <2>2
    <3>2. /\ ends[i] \in Nat /\ len \in Nat /\ ends[i + 1] = ends[i] + len
          /\ Agrees(bytes, off, MarshalRecord(r))
      BY <1>3, <2>2
    <3>3. off \in Nat
      BY <1>1, <3>2
    <3> QED BY <3>1, <3>2, <3>3
  <2>4. read[i + 1] = More(bytes, read[i])
    BY <1>5, <2>2
  <2>5. base + ends[i + 1] = off + len
    BY <1>1, <2>3
  <2>6. done.offset = off /\ done.records = SubSeq(records, 1, i)
    OBVIOUS
  <2>7. SubSeq(records, 1, i + 1) = Append(done.records, r)
    BY <1>6b, <2>2, <2>6
  <2>8. read[i] = IF off <= N THEN {done} ELSE {}
    BY <2>2, Zenon
  <2>9. progress(i + 1) = [offset |-> off + len, records |-> Append(done.records, r)]
    BY <2>5, <2>7
  <2>10. Right(i + 1) <=> read[i + 1] = IF off + len <= N THEN {progress(i + 1)} ELSE {}
    BY <2>5
  <2>11. UnmarshalRecord(bytes, off)
         = IF off + len <= N THEN {[next |-> off + len, record |-> r]} ELSE {}
    <3> HIDE DEF r, off
    <3> QED BY <2>3, RecordRead DEF N
  <2> HIDE DEF off, len, done, r, progress, Right
  <2>12. CASE ~(off <= N)
    <3>1. read[i] = {}
      BY <2>8, <2>12, Zenon
    <3>2. read[i + 1] = {}
      BY <2>4, <3>1 DEF More
    <3>3. ~(off + len <= N)
      BY <1>1, <2>3, <2>12
    <3> QED BY <2>10, <3>2, <3>3, Zenon
  <2>13. CASE off <= N /\ ~(off + len <= N)
    <3>1. read[i] = {done}
      BY <2>8, <2>13, Zenon
    <3>2. UnmarshalRecord(bytes, done.offset) = {}
      BY <2>6, <2>11, <2>13, Zenon
    <3>3. More(bytes, read[i]) = {}
      BY <3>1, <3>2, OneMore
    <3> QED BY <2>4, <2>10, <2>13, <3>3, Zenon
  <2>14. CASE off <= N /\ off + len <= N
    <3> DEFINE u == [next |-> off + len, record |-> r]
    <3>1. read[i] = {done}
      BY <2>8, <2>14, Zenon
    <3>2. UnmarshalRecord(bytes, done.offset) = {u}
      BY <2>6, <2>11, <2>14, Zenon
    <3>3. u.next = off + len /\ u.record = r
      OBVIOUS
    <3> HIDE DEF u
    <3>4. More(bytes, read[i]) = {[offset |-> u.next, records |-> Append(done.records, u.record)]}
      BY <3>1, <3>2, OneMore, ZenonT(40)
    <3>5. More(bytes, read[i]) = {progress(i + 1)}
      BY <2>9, <3>3, <3>4, Zenon
    <3> QED BY <2>4, <2>10, <2>14, <3>5, Zenon
  <2> QED BY <2>12, <2>13, <2>14
<1>9. Right(n)
  <2>1. Nat \subseteq G
    <3> HIDE DEF G
    <3> QED BY <1>7, <1>8, NatInductionSet
  <2>2. n \in Nat /\ n <= n
    BY <1>1
  <2> HIDE DEF Right
  <2>3. n \in G
    BY <2>1, <2>2, Zenon
  <2> QED BY <2>2, <2>3, Zenon
<1>10. CASE base + ends[n] <= N
  <2>1. read[n] = {progress(n)}
    BY <1>9, <1>10, Zenon
  <2>2. progress(n).records = records
    BY <1>6b
  <2>3. UnmarshalRecords(bytes, n) = {records}
    BY <1>5, <2>1, <2>2
  <2> QED BY <1>3, <1>10, <2>3 DEF n, N, base
<1>11. CASE ~(base + ends[n] <= N)
  <2>1. read[n] = {}
    BY <1>9, <1>11, Zenon
  <2>2. UnmarshalRecords(bytes, n) = {}
    BY <1>5, <2>1
  <2> QED BY <1>3, <1>11, <2>2 DEF n, N, base
<1> QED BY <1>10, <1>11

(* A batch whose fields hold their values.                                 *)
BatchFits(b) ==
    /\ Fits(b.BatchSeq, IntWidth) /\ Fits(Len(b.Records), IntWidth)
    /\ \A i \in 1..Len(b.Records) : RecordFits(b.Records[i])

(* A batch is read as it was written, or not at all if it is cut off.      *)
LEMMA BatchRead ==
    ASSUME NEW bytes \in Seq(Byte), NEW b \in AISBatch, BatchFits(b),
           Agrees(bytes, 0, MarshalBinary(b))
    PROVE  UnmarshalBinary(bytes)
           = IF Len(MarshalBinary(b)) <= Len(bytes) THEN {b} ELSE {}
<1> DEFINE n == Len(b.Records)
           body == FlattenSeq(Parts(b.Records))
           seqno == LittleEndian(b.BatchSeq, IntWidth)
           count == LittleEndian(n, IntWidth)
           N == Len(bytes)
<1>1. b.Records \in Seq(AISRecord) /\ b.BatchSeq \in Nat /\ IntWidth \in Nat \ {0}
  BY CodecAssumption DEF AISBatch
<1>2. n \in Nat /\ N \in Nat
  BY <1>1, LenProperties
<1>3. Fits(b.BatchSeq, IntWidth) /\ Fits(n, IntWidth)
  BY DEF BatchFits
<1>4. \A i \in 1..n : RecordFits(b.Records[i])
  BY DEF BatchFits
<1>5. body \in Seq(Byte)
  BY <1>1, PartsType, FlattenType
<1>6. /\ seqno \in Seq(Byte) /\ Len(seqno) = IntWidth
      /\ count \in Seq(Byte) /\ Len(count) = IntWidth
  BY <1>1, <1>2, LittleEndianType
<1>7. MarshalBinary(b) = (seqno \o count) \o body
  BY DEF MarshalBinary, Parts
<1> HIDE DEF body, seqno, count, N, n
<1>8. seqno \o count \in Seq(Byte) /\ Len(seqno \o count) = IntWidth + IntWidth
  <2>1. seqno \o count \in Seq(Byte) /\ Len(seqno \o count) = Len(seqno) + Len(count)
    BY <1>6, ConcatBytes, Zenon
  <2> QED BY <1>6, <2>1
<1>9. Len(MarshalBinary(b)) = 2 * IntWidth + Len(body) /\ Len(body) \in Nat
  <2>1. Len((seqno \o count) \o body) = (IntWidth + IntWidth) + Len(body) /\ Len(body) \in Nat
    BY <1>5, <1>8, ConcatBytes, LenProperties, Zenon
  <2> QED BY <1>1, <1>7, <2>1
<1>10. Agrees(bytes, 0, seqno \o count) /\ Agrees(bytes, 2 * IntWidth, body)
  <2>1. Agrees(bytes, 0, (seqno \o count) \o body) /\ 0 \in Nat
    BY <1>7
  <2>2. /\ Agrees(bytes, 0, seqno \o count)
        /\ Agrees(bytes, 0 + Len(seqno \o count), body)
    BY <1>2, <1>5, <1>8, <2>1, AgreesConcat DEF N
  <2>3. 0 + Len(seqno \o count) = 2 * IntWidth
    BY <1>1, <1>8
  <2> QED BY <2>2, <2>3
<1>11. Agrees(bytes, 0, seqno) /\ Agrees(bytes, IntWidth, count)
  <2>1. 0 \in Nat /\ Agrees(bytes, 0, seqno) /\ Agrees(bytes, 0 + Len(seqno), count)
    BY <1>2, <1>6, <1>10, AgreesConcat DEF N
  <2>2. 0 + Len(seqno) = IntWidth
    BY <1>1, <1>6
  <2> QED BY <2>1, <2>2
<1>12. CASE N < 2 * IntWidth
  <2>1. UnmarshalBinary(bytes) = {}
    BY <1>12, Zenon DEF UnmarshalBinary, N
  <2>2. ~(Len(MarshalBinary(b)) <= N)
    BY <1>1, <1>2, <1>9, <1>12
  <2> QED BY <2>1, <2>2, Zenon DEF N
<1>13. CASE ~(N < 2 * IntWidth)
  <2>1. 2 * IntWidth <= N /\ 0 + IntWidth <= N /\ IntWidth + IntWidth <= N
    BY <1>1, <1>2, <1>13
  <2>2. NumberAt(bytes, 0, IntWidth) = b.BatchSeq
    <3>1. 0 \in Nat /\ IntWidth \in Nat
      BY <1>1
    <3> QED BY <1>1, <1>3, <1>11, <2>1, <3>1, AgreesNumber DEF N, seqno
  <2>3. NumberAt(bytes, IntWidth, IntWidth) = n
    <3>1. IntWidth \in Nat
      BY <1>1
    <3> QED BY <1>2, <1>3, <1>11, <2>1, <3>1, AgreesNumber DEF N, count
  <2>4. UnmarshalRecords(bytes, n) = IF 2 * IntWidth + Len(body) <= N THEN {b.Records} ELSE {}
    BY <1>1, <1>4, <1>10, <2>1, RecordsRead DEF N, n, body
  <2>5. UnmarshalBinary(bytes)
        = {[BatchSeq |-> b.BatchSeq, Records |-> records] : records \in UnmarshalRecords(bytes, n)}
    BY <1>13, <2>2, <2>3, Zenon DEF UnmarshalBinary, N
  <2>6. b = [BatchSeq |-> b.BatchSeq, Records |-> b.Records]
    BY DEF AISBatch
  <2>7. CASE 2 * IntWidth + Len(body) <= N
    <3>1. UnmarshalRecords(bytes, n) = {b.Records}
      BY <2>4, <2>7, Zenon
    <3>2. UnmarshalBinary(bytes) = {b}
      BY <2>5, <2>6, <3>1
    <3>3. Len(MarshalBinary(b)) <= N
      BY <1>9, <2>7
    <3> QED BY <3>2, <3>3, Zenon DEF N
  <2>8. CASE ~(2 * IntWidth + Len(body) <= N)
    <3>1. UnmarshalRecords(bytes, n) = {}
      BY <2>4, <2>8, Zenon
    <3>2. UnmarshalBinary(bytes) = {}
      BY <2>5, <3>1
    <3>3. ~(Len(MarshalBinary(b)) <= N)
      BY <1>9, <2>8
    <3> QED BY <3>2, <3>3, Zenon DEF N
  <2> QED BY <2>7, <2>8
<1> QED BY <1>12, <1>13

(* What is written of a batch decodes to it, and to nothing if it is cut.  *)
Decodes(bytes, b) ==
    /\ UnmarshalBinary(bytes) = {b}
    /\ \A n \in 0..(Len(bytes) - 1) : UnmarshalBinary(SubSeq(bytes, 1, n)) = {}

LEMMA BatchDecodes ==
    ASSUME NEW b \in AISBatch, BatchFits(b)
    PROVE  Decodes(MarshalBinary(b), b)
<1> DEFINE bytes == MarshalBinary(b)
           N == Len(bytes)
<1>1. bytes \in Seq(Byte) /\ N \in Nat /\ \A i \in 1..N : bytes[i] \in Byte
  <2>1. MarshalBinary(b) \in Seq(Byte)
    BY MarshalBinaryType
  <2> QED BY <2>1, LenProperties, ElementOfSeq
<1>2. UnmarshalBinary(bytes) = {b}
  <2>1. Agrees(bytes, 0, MarshalBinary(b))
    <3>1. \A i \in 1..Len(MarshalBinary(b)) : 0 + i = i
      BY <1>1
    <3> QED BY <3>1 DEF Agrees
  <2>2. UnmarshalBinary(bytes) = IF N <= N THEN {b} ELSE {}
    BY <1>1, <2>1, BatchRead
  <2>3. N <= N
    BY <1>1
  <2> QED BY <2>2, <2>3, Zenon
<1>3. ASSUME NEW n \in 0..(N - 1) PROVE UnmarshalBinary(SubSeq(bytes, 1, n)) = {}
  <2> DEFINE cut == SubSeq(bytes, 1, n)
  <2> HIDE DEF bytes, N
  <2>1. 1 \in Int /\ n \in Int /\ (\A i \in 1..n : bytes[i] \in Byte) /\ ~(N <= n)
    BY <1>1
  <2>2. /\ cut \in Seq(Byte)
        /\ Len(cut) = IF 1 <= n THEN (n - 1) + 1 ELSE 0
        /\ \A i \in 1..((n - 1) + 1) : cut[i] = bytes[(1 + i) - 1]
    BY <2>1, SubSeqProperties
  <2>3. (IF 1 <= n THEN (n - 1) + 1 ELSE 0) = n /\ (n - 1) + 1 = n
        /\ \A i \in 1..n : (1 + i) - 1 = i
    BY <2>1
  <2>4. Len(cut) = n /\ \A i \in 1..n : cut[i] = bytes[i]
    BY <2>2, <2>3
  <2> HIDE DEF cut
  <2>5. Agrees(cut, 0, bytes)
    <3>1. \A i \in 1..N : 0 + i = i /\ (i <= n => i \in 1..n)
      BY <1>1
    <3> QED BY <2>4, <3>1 DEF Agrees, N
  <2>6. UnmarshalBinary(cut) = IF N <= Len(cut) THEN {b} ELSE {}
    BY <2>2, <2>5, BatchRead DEF bytes, N
  <2> QED BY <2>1, <2>4, <2>6, Zenon DEF cut
<1> QED BY <1>2, <1>3 DEF Decodes

-----------------------------------------------------------------------------
(* What a worker fills its batch with, and what it writes.                 *)

(* A record of vessel i, and the report it is the n-th time.               *)
Of(i, r) == r.VesselID = ReportOf[i][1].VesselID

IsReport(r, i, n) ==
    /\ r \in AISRecord /\ RecordFits(r) /\ r.TSUnixMs = n
    /\ \A j \in VesselIndex : Of(j, r) <=> j = i

LEMMA Reports ==
    ASSUME NEW i \in VesselIndex, NEW n \in 1..(BatchSize * MaxBatches)
    PROVE  IsReport(ReportOf[i][n], i, n)
<1> DEFINE r == ReportOf[i][n]
           T == 1..(BatchSize * MaxBatches)
<1>1. 1 \in T
  BY EngineAssumption
<1>2. \A k \in VesselIndex, m \in T :
        /\ ReportOf[k][m] \in AISRecord
        /\ ReportOf[k][m].TSUnixMs = m
        /\ ReportOf[k][m].VesselID = ReportOf[k][1].VesselID
        /\ RecordFits(ReportOf[k][m])
        /\ \A j \in VesselIndex \ {k} : ReportOf[k][m].VesselID # ReportOf[j][m].VesselID
  BY EngineAssumption
<1>3. n \in T
  OBVIOUS
<1> HIDE DEF T
<1>4. r \in AISRecord /\ RecordFits(r) /\ r.TSUnixMs = n /\ r.VesselID = ReportOf[i][1].VesselID
  BY <1>2, <1>3
<1>5. ASSUME NEW j \in VesselIndex, j # i PROVE ReportOf[i][1].VesselID # ReportOf[j][1].VesselID
  BY <1>1, <1>2, <1>5
<1>6. \A j \in VesselIndex : Of(j, r) <=> j = i
  BY <1>4, <1>5, Zenon DEF Of
<1> QED BY <1>4, <1>6 DEF IsReport

(* A vessel has not made more reports than the bound allows.               *)
Bounded(m) == \E k \in Nat : k <= MaxBatches /\ SumFunction(m) = k * BatchSize

LEMMA BoundedReports ==
    ASSUME NEW m \in [VesselIndex -> Nat], Bounded(m), NEW i \in VesselIndex
    PROVE  m[i] <= BatchSize * MaxBatches
<1>1. PICK k \in Nat : k <= MaxBatches /\ SumFunction(m) = k * BatchSize
  BY DEF Bounded
<1>2. m[i] <= SumFunction(m) /\ SumFunction(m) \in Nat
  BY VesselsFinite, SumAtLeast
<1>3. BatchSize \in Nat /\ MaxBatches \in Nat /\ m[i] \in Nat
  BY EngineAssumption
<1>4. k * BatchSize <= MaxBatches * BatchSize /\ MaxBatches * BatchSize = BatchSize * MaxBatches
  BY <1>1, <1>3
<1>5. BatchSize * MaxBatches \in Nat
  BY <1>3
<1> QED BY <1>1, <1>2, <1>3, <1>4, <1>5

(* Records that are reports of some of the vessels.                        *)
Reported(records, m, S) ==
    \A j \in 1..Len(records) : \E i \in S : \E n \in 1..m[i] : records[j] = ReportOf[i][n]

LEMMA ReportedIs ==
    ASSUME NEW m \in [VesselIndex -> Nat], Bounded(m), NEW i \in VesselIndex, NEW n \in 1..m[i]
    PROVE  IsReport(ReportOf[i][n], i, n)
<1>1. m[i] <= BatchSize * MaxBatches /\ BatchSize * MaxBatches \in Nat /\ m[i] \in Nat
  BY BoundedReports, EngineAssumption
<1>2. n \in 1..(BatchSize * MaxBatches)
  BY <1>1
<1> QED BY <1>2, Reports

(* What a worker fills its batch with: the reports its vessels make next,  *)
(* those of one vessel in their order.                                     *)
LEMMA VesselAtShard ==
    ASSUME NEW w \in SimWorker, Shard(w) # {}, vesselIdx[w] \in Nat, NEW j \in Nat \ {0}
    PROVE  VesselAt(w, j) \in Shard(w)
<1> DEFINE n == vesselIdx[w] + j - 1
           c == Cardinality(Shard(w))
           m == n % c
           N == NumWorkers
           v == w + N * m
           q == v \div N
<1>1. c \in Nat \ {0}
  <2>1. IsFiniteSet(Shard(w)) /\ c \in Nat
    BY VesselsFinite, FS_Subset
  <2> QED BY <2>1, FS_EmptySet
<1>2. n \in Nat /\ N \in Nat \ {0} /\ w \in Nat /\ w < N
  BY TransportAssumption DEF SimWorker
<1>3. VesselAt(w, j) = v
  BY DEF VesselAt
<1>4. v \in VesselIndex
  BY <1>3, VesselAtType
<1> HIDE DEF n, c, N
<1>5. m \in Nat
  BY <1>1, <1>2
<1> HIDE DEF m
<1>6. v \in Nat
  BY <1>2, <1>5
<1>7. v = (q * N) + (v % N) /\ v % N \in 0..(N - 1) /\ q \in Nat
  <2> HIDE DEF v
  <2> QED BY <1>2, <1>6, DivMod
<1>8. v % N = w
  <2> DEFINE r == v % N
  <2>1. w + N * m = (q * N) + r
    BY <1>7
  <2>2. r \in Nat /\ r < N /\ q \in Nat
    BY <1>2, <1>7
  <2> HIDE DEF v, q, r
  <2>3. ASSUME q < m PROVE FALSE
    <3>1. PICK d \in Nat : m = (q + 1) + d
      <4>1. m - (q + 1) \in Nat /\ m = (q + 1) + (m - (q + 1))
        BY <1>5, <2>2, <2>3
      <4> QED BY <4>1
    <3>2. N * m = ((q * N) + N) + (N * d) /\ N * d \in Nat /\ q * N \in Nat
      BY <1>2, <2>2, <3>1
    <3> QED BY <1>2, <2>1, <2>2, <3>2
  <2>4. ASSUME m < q PROVE FALSE
    <3>1. PICK d \in Nat : q = (m + 1) + d
      <4>1. q - (m + 1) \in Nat /\ q = (m + 1) + (q - (m + 1))
        BY <1>5, <2>2, <2>4
      <4> QED BY <4>1
    <3>2. q * N = ((N * m) + N) + (N * d) /\ N * d \in Nat /\ N * m \in Nat
      BY <1>2, <1>5, <3>1
    <3> QED BY <1>2, <2>1, <2>2, <3>2
  <2>5. q = m
    BY <1>5, <2>2, <2>3, <2>4
  <2>6. N * m = q * N /\ q * N \in Nat
    BY <1>2, <2>2, <2>5
  <2>7. r = w
    BY <1>2, <2>1, <2>2, <2>6
  <2> QED BY <2>7 DEF r
<1> QED BY <1>3, <1>4, <1>8 DEF Shard, N

LEMMA TicksRise ==
    ASSUME NEW w \in SimWorker, NEW i \in VesselIndex, NEW p \in Nat, NEW q \in Nat, p < q
    PROVE  /\ TicksUpTo(w, i, p) <= TicksUpTo(w, i, q)
           /\ VesselAt(w, q) = i => TicksUpTo(w, i, p) < TicksUpTo(w, i, q)
           /\ TicksUpTo(w, i, p) \in Nat /\ TicksUpTo(w, i, q) \in Nat
<1> DEFINE T(k) == TicksUpTo(w, i, k)
           G == {d \in Nat : T(p) <= T(p + d)}
<1>1. \A k \in Nat : T(k) \in Nat /\ T(k + 1) = T(k) + (IF VesselAt(w, k + 1) = i THEN 1 ELSE 0)
  <2>1. \A k \in Nat : T(k) \in 0..k /\ T(k + 1) = T(k) + (IF VesselAt(w, k + 1) = i THEN 1 ELSE 0)
    BY TicksType
  <2> QED BY <2>1
<1> HIDE DEF T
<1>2. 0 \in G
  <2>1. p + 0 = p /\ T(p) <= T(p)
    BY <1>1
  <2> QED BY <2>1
<1>3. ASSUME NEW d \in Nat, d \in G PROVE d + 1 \in G
  <2>1. T(p) <= T(p + d) /\ p + d \in Nat /\ (p + d) + 1 = p + (d + 1)
    BY <1>3
  <2>2. T(p + (d + 1)) = T(p + d) + (IF VesselAt(w, (p + d) + 1) = i THEN 1 ELSE 0)
    BY <1>1, <2>1
  <2>3. T(p) <= T(p + (d + 1))
    BY <1>1, <2>1, <2>2
  <2> QED BY <2>3
<1>4. \A d \in Nat : T(p) <= T(p + d)
  <2>1. Nat \subseteq G
    <3> HIDE DEF G
    <3> QED BY <1>2, <1>3, NatInductionSet
  <2> QED BY <2>1
<1> DEFINE d == q - 1 - p
<1>5. d \in Nat /\ p + d = q - 1 /\ q - 1 \in Nat /\ (q - 1) + 1 = q
  OBVIOUS
<1> HIDE DEF d
<1>6. T(p) <= T(q - 1)
  BY <1>4, <1>5
<1>7. T(q) = T(q - 1) + (IF VesselAt(w, q) = i THEN 1 ELSE 0)
  BY <1>1, <1>5
<1>8. T(p) \in Nat /\ T(q) \in Nat /\ T(q - 1) \in Nat
  BY <1>1, <1>5
<1>9. T(p) <= T(q) /\ (VesselAt(w, q) = i => T(p) < T(q))
  BY <1>6, <1>7, <1>8
<1> QED BY <1>8, <1>9 DEF T

(* Records of which those of vessel i come in the order they were made.    *)
Rising(records, i) ==
    \A p, q \in 1..Len(records) :
      p < q /\ Of(i, records[p]) /\ Of(i, records[q]) => records[p].TSUnixMs < records[q].TSUnixMs

(* Records that are reports made since before.                             *)
Fresh(records, before, after, S) ==
    \A j \in 1..Len(records) : \E i \in S : \E n \in (before[i] + 1)..after[i] : records[j] = ReportOf[i][n]

Ticked(w) == [i \in VesselIndex |-> made[i] + TicksUpTo(w, i, BatchSize)]

LEMMA FillIsFresh ==
    ASSUME RoundOK, NEW w \in SimWorker, at[w] = "select", SumFunction(made) < MaxBatches * BatchSize
    PROVE  /\ Fill(w) \in Seq(AISRecord) /\ Len(Fill(w)) = BatchSize
           /\ Fresh(Fill(w), made, Ticked(w), Shard(w))
           /\ \A i \in VesselIndex : Rising(Fill(w), i)
           /\ Ticked(w) \in [VesselIndex -> Nat] /\ Bounded(Ticked(w))
           /\ \A i \in VesselIndex : made[i] <= Ticked(w)[i]
           /\ \E k \in Nat : k < MaxBatches /\ SumFunction(made) = k * BatchSize
<1> DEFINE M == Ticked(w)
           n(i, j) == made[i] + TicksUpTo(w, i, j)
<1>1. /\ made \in [VesselIndex -> Nat] /\ vesselIdx[w] \in Nat /\ Shard(w) # {}
      /\ BatchSize \in Nat \ {0} /\ MaxBatches \in Nat
  BY EngineAssumption DEF RoundOK, EngineTypeOK
<1>2. Fill(w) \in Seq(AISRecord)
      /\ \E k \in Nat : k <= MaxBatches /\ SumFunction(made) + BatchSize = k * BatchSize
  BY FillType
<1>3. M \in [VesselIndex -> Nat] /\ SumFunction(M) = SumFunction(made) + BatchSize
  BY <1>1, TicksSum DEF Ticked
<1>4. Bounded(M)
  BY <1>2, <1>3 DEF Bounded
<1>5. Len(Fill(w)) = BatchSize /\ \A j \in 1..BatchSize :
        Fill(w)[j] = ReportOf[VesselAt(w, j)][n(VesselAt(w, j), j)]
  <2>1. DOMAIN Fill(w) = 1..BatchSize
        /\ \A j \in 1..BatchSize : Fill(w)[j] = ReportOf[VesselAt(w, j)][n(VesselAt(w, j), j)]
    BY DEF Fill
  <2>2. 1..Len(Fill(w)) = 1..BatchSize /\ Len(Fill(w)) \in Nat
    BY <1>2, <2>1, LenProperties
  <2>3. \A k \in Nat : Cardinality(1..k) = k
    BY FS_Interval
  <2> QED BY <1>1, <2>1, <2>2, <2>3
<1>6. \A i \in VesselIndex : M[i] = made[i] + TicksUpTo(w, i, BatchSize) /\ made[i] <= M[i]
  <2>1. \A i \in VesselIndex : M[i] = made[i] + TicksUpTo(w, i, BatchSize)
    BY DEF Ticked
  <2>2. \A i \in VesselIndex : TicksUpTo(w, i, BatchSize) \in 0..BatchSize
    BY <1>1, TicksType
  <2> QED BY <1>1, <2>1, <2>2
<1>7. ASSUME NEW j \in 1..BatchSize
      PROVE  /\ VesselAt(w, j) \in Shard(w) /\ VesselAt(w, j) \in VesselIndex
             /\ n(VesselAt(w, j), j) \in (made[VesselAt(w, j)] + 1)..M[VesselAt(w, j)]
             /\ n(VesselAt(w, j), j) \in Nat
  <2> DEFINE i == VesselAt(w, j)
             t == TicksUpTo(w, i, j)
  <2>1. j \in Nat \ {0} /\ j - 1 \in Nat /\ j - 1 < j
    OBVIOUS
  <2>2. i \in Shard(w) /\ i \in VesselIndex
    BY <1>1, <2>1, VesselAtShard, VesselsFinite
  <2>3. /\ TicksUpTo(w, i, j - 1) < t /\ TicksUpTo(w, i, j - 1) \in Nat /\ t \in Nat
    BY <2>1, <2>2, TicksRise
  <2>4. t <= TicksUpTo(w, i, BatchSize) /\ TicksUpTo(w, i, BatchSize) \in Nat
    <3>1. CASE j = BatchSize
      <4>1. TicksUpTo(w, i, BatchSize) = t
        BY <3>1
      <4> HIDE DEF t, i
      <4> QED BY <2>3, <4>1
    <3>2. CASE j < BatchSize
      <4> HIDE DEF i
      <4> QED BY <1>1, <2>1, <2>2, <3>2, TicksRise
    <3> QED BY <1>1, <3>1, <3>2
  <2>5. n(i, j) = made[i] + t /\ made[i] \in Nat /\ M[i] = made[i] + TicksUpTo(w, i, BatchSize)
    BY <1>1, <1>6, <2>2
  <2> HIDE DEF i, t, n, M
  <2>6. n(i, j) \in (made[i] + 1)..M[i] /\ n(i, j) \in Nat
    BY <2>3, <2>4, <2>5
  <2> QED BY <2>2, <2>6 DEF i
<1> HIDE DEF M
<1>8. Fresh(Fill(w), made, M, Shard(w))
  <2> HIDE DEF n
  <2>1. \A j \in 1..BatchSize : \E i \in Shard(w) : \E x \in (made[i] + 1)..M[i] : Fill(w)[j] = ReportOf[i][x]
    BY <1>5, <1>7
  <2> QED BY <1>5, <2>1 DEF Fresh
<1>9. ASSUME NEW j \in 1..BatchSize
      PROVE  IsReport(Fill(w)[j], VesselAt(w, j), n(VesselAt(w, j), j))
  <2> DEFINE i == VesselAt(w, j)
  <2>1. i \in VesselIndex /\ n(i, j) \in (made[i] + 1)..M[i] /\ made[i] \in Nat /\ M[i] \in Nat
    BY <1>1, <1>3, <1>7
  <2> HIDE DEF n, i
  <2>2. n(i, j) \in 1..M[i]
    BY <2>1
  <2>3. IsReport(ReportOf[i][n(i, j)], i, n(i, j))
    BY <1>3, <1>4, <2>1, <2>2, ReportedIs
  <2> QED BY <1>5, <2>3 DEF i
<1>10. ASSUME NEW i \in VesselIndex PROVE Rising(Fill(w), i)
  <2>1. SUFFICES ASSUME NEW p \in 1..BatchSize, NEW q \in 1..BatchSize, p < q,
                        Of(i, Fill(w)[p]), Of(i, Fill(w)[q])
                 PROVE  Fill(w)[p].TSUnixMs < Fill(w)[q].TSUnixMs
    BY <1>5 DEF Rising
  <2>2. VesselAt(w, p) = i /\ VesselAt(w, q) = i
    BY <1>9, <2>1, Zenon DEF IsReport
  <2>3. Fill(w)[p].TSUnixMs = n(i, p) /\ Fill(w)[q].TSUnixMs = n(i, q)
    BY <1>9, <2>2, Zenon DEF IsReport
  <2>4. TicksUpTo(w, i, p) < TicksUpTo(w, i, q) /\ TicksUpTo(w, i, p) \in Nat
        /\ TicksUpTo(w, i, q) \in Nat
    BY <2>1, <2>2, TicksRise
  <2>5. made[i] \in Nat
    BY <1>1
  <2>6. n(i, p) < n(i, q)
    BY <2>4, <2>5
  <2> QED BY <2>3, <2>6
<1>11. \E k \in Nat : k < MaxBatches /\ SumFunction(made) = k * BatchSize
  <2>1. PICK k \in Nat : k <= MaxBatches /\ SumFunction(made) = k * BatchSize
    BY DEF RoundOK
  <2>2. k # MaxBatches
    <3>1. MaxBatches * BatchSize \in Nat
      BY <1>1
    <3>2. ~(MaxBatches * BatchSize < MaxBatches * BatchSize)
      BY <3>1
    <3>3. SumFunction(made) # MaxBatches * BatchSize
      BY <3>2, Zenon
    <3> QED BY <2>1, <3>3, Zenon
  <2>3. k < MaxBatches
    BY <1>1, <2>1, <2>2
  <2> QED BY <2>1, <2>3
<1> QED BY <1>2, <1>3, <1>4, <1>5, <1>6, <1>8, <1>10, <1>11 DEF M

(* No worker has numbered more batches than were filled, but for the one   *)
(* it sends again when it ends.                                            *)
Again(place) == IF place \in {"flush", "done"} THEN 1 ELSE 0

BatchesBounded(ats, batches, m) ==
    \E k \in Nat :
      /\ k <= MaxBatches
      /\ SumFunction(m) = k * BatchSize
      /\ \A w \in SimWorker : batches[w].BatchSeq <= k + Again(ats[w])

(* What the workers' batches hold.                                         *)
BatchesReported(batches, m) ==
    \A w \in SimWorker :
      /\ Reported(batches[w].Records, m, Shard(w))
      /\ Len(batches[w].Records) \in {0, BatchSize}

(* What is being sent is a batch.                                          *)
Encoded(calls, datas, batches) ==
    \A w \in SimWorker :
      calls[w] # "none" => datas[w] = MarshalBinary(batches[w]) /\ batches[w].Records # << >>

BatchInv ==
    /\ BatchesBounded(at, batch, made)
    /\ BatchesReported(batch, made)
    /\ Encoded(call, data, batch)

LEMMA ReportedLater ==
    ASSUME NEW before \in [VesselIndex -> Nat], NEW after \in [VesselIndex -> Nat],
           \A i \in VesselIndex : before[i] <= after[i],
           NEW S \in SUBSET VesselIndex, NEW records, Reported(records, before, S)
    PROVE  Reported(records, after, S)
<1>1. \A i \in S : 1..before[i] \subseteq 1..after[i]
  OBVIOUS
<1> QED BY <1>1 DEF Reported

LEMMA FreshReported ==
    ASSUME NEW before \in [VesselIndex -> Nat], NEW after \in [VesselIndex -> Nat],
           NEW S \in SUBSET VesselIndex, NEW records, Fresh(records, before, after, S)
    PROVE  Reported(records, after, S)
<1>1. \A i \in S : (before[i] + 1)..after[i] \subseteq 1..after[i]
  OBVIOUS
<1> QED BY <1>1 DEF Reported, Fresh

(* A batch of the simulator fits its fields.                               *)
LEMMA BatchFitsFields ==
    ASSUME NEW b \in AISBatch, NEW m \in [VesselIndex -> Nat], Bounded(m),
           NEW S \in SUBSET VesselIndex, Reported(b.Records, m, S),
           Len(b.Records) \in {0, BatchSize}, b.BatchSeq <= MaxBatches + 1
    PROVE  BatchFits(b)
<1>1. b.BatchSeq \in Nat /\ MaxBatches \in Nat /\ BatchSize \in Nat \ {0}
  BY EngineAssumption DEF AISBatch
<1>2. Fits(b.BatchSeq, IntWidth)
  <2>1. b.BatchSeq \in 0..(MaxBatches + 1)
    BY <1>1
  <2> QED BY <2>1, EngineAssumption
<1>3. Fits(Len(b.Records), IntWidth)
  <2>1. RecordLimit \in Nat \ {0} /\ IntWidth \in Nat
    BY CodecAssumption DEF RecordLimit
  <2>2. BatchSize * RecordLimit >= BatchSize /\ BatchSize * RecordLimit \in Nat
    <3>1. PICK d \in Nat : RecordLimit = 1 + d
      <4>1. RecordLimit - 1 \in Nat /\ RecordLimit = 1 + (RecordLimit - 1)
        BY <2>1
      <4> QED BY <4>1
    <3>2. BatchSize * (1 + d) = BatchSize + (BatchSize * d) /\ BatchSize * d \in Nat
      BY <1>1, <3>1
    <3>3. BatchSize * RecordLimit = BatchSize * (1 + d)
      BY <3>1
    <3> QED BY <1>1, <3>2, <3>3
  <2>3. FrameLimit = 2 * IntWidth + BatchSize * RecordLimit
    BY DEF FrameLimit
  <2>4. FrameLimit \in Nat /\ BatchSize <= FrameLimit
    BY <1>1, <2>1, <2>2, <2>3
  <2>5. Len(b.Records) \in 0..FrameLimit
    BY <1>1, <2>4
  <2> QED BY <2>5, EngineAssumption
<1>4. ASSUME NEW j \in 1..Len(b.Records) PROVE RecordFits(b.Records[j])
  <2>1. PICK i \in S : \E n \in 1..m[i] : b.Records[j] = ReportOf[i][n]
    BY DEF Reported
  <2>2. PICK n \in 1..m[i] : b.Records[j] = ReportOf[i][n]
    BY <2>1
  <2>3. i \in VesselIndex
    BY <2>1
  <2>4. IsReport(ReportOf[i][n], i, n)
    BY <2>2, <2>3, ReportedIs
  <2> QED BY <2>2, <2>4 DEF IsReport
<1> QED BY <1>2, <1>3, <1>4 DEF BatchFits

(* The batch of a worker that is sending.                                  *)
LEMMA SendingFits ==
    ASSUME NEW ats, NEW batches \in [SimWorker -> AISBatch], NEW m \in [VesselIndex -> Nat],
           BatchesBounded(ats, batches, m), BatchesReported(batches, m), NEW w \in SimWorker
    PROVE  BatchFits(batches[w])
<1>1. PICK k \in Nat :
        /\ k <= MaxBatches
        /\ SumFunction(m) = k * BatchSize
        /\ \A v \in SimWorker : batches[v].BatchSeq <= k + Again(ats[v])
  BY DEF BatchesBounded
<1>2. Bounded(m)
  BY <1>1 DEF Bounded
<1>3. batches[w] \in AISBatch /\ batches[w].BatchSeq \in Nat
  BY DEF AISBatch
<1>4. batches[w].BatchSeq <= MaxBatches + 1
  <2>1. Again(ats[w]) \in {0, 1} /\ MaxBatches \in Nat
    BY EngineAssumption DEF Again
  <2>2. batches[w].BatchSeq <= k + Again(ats[w])
    BY <1>1
  <2> QED BY <1>1, <1>3, <2>1, <2>2
<1>5. Reported(batches[w].Records, m, Shard(w)) /\ Len(batches[w].Records) \in {0, BatchSize}
  BY DEF BatchesReported
<1>6. Shard(w) \in SUBSET VesselIndex
  BY VesselsFinite
<1> QED BY <1>2, <1>3, <1>4, <1>5, <1>6, BatchFitsFields

LEMMA BatchInvInit == Init => BatchInv
<1> SUFFICES ASSUME Init PROVE BatchInv
  OBVIOUS
<1>1. /\ batch = [w \in SimWorker |-> [Records |-> << >>, BatchSeq |-> 0]]
      /\ call = [w \in SimWorker |-> "none"] /\ made = [i \in VesselIndex |-> 0]
  BY DEF Init, EngineInit, TransportInit
<1>2. \A w \in SimWorker : batch[w].Records = << >> /\ batch[w].BatchSeq = 0 /\ call[w] = "none"
  BY <1>1
<1>3. SumFunction(made) = 0
  <2>1. made \in [VesselIndex -> Nat] /\ \A i \in VesselIndex : made[i] = 0
    BY <1>1
  <2> QED BY <2>1, VesselsFinite, SumZero
<1>4. Len(<< >>) = 0
  BY EmptySeq
<1>5. BatchesBounded(at, batch, made)
  <2>1. 0 \in Nat /\ 0 <= MaxBatches /\ SumFunction(made) = 0 * BatchSize
    BY <1>3, EngineAssumption
  <2>2. \A w \in SimWorker : batch[w].BatchSeq <= 0 + Again(at[w])
    BY <1>2 DEF Again
  <2> QED BY <2>1, <2>2 DEF BatchesBounded
<1>6. BatchesReported(batch, made)
  <2>1. \A w \in SimWorker : Len(batch[w].Records) = 0
    BY <1>2, <1>4
  <2>2. \A w \in SimWorker : Reported(batch[w].Records, made, Shard(w))
    BY <2>1 DEF Reported
  <2> QED BY <2>1, <2>2 DEF BatchesReported
<1>7. Encoded(call, data, batch)
  BY <1>2 DEF Encoded
<1> QED BY <1>5, <1>6, <1>7 DEF BatchInv

(* A worker numbers a batch and calls the sender.                          *)
Numbers(w, records, place) ==
    /\ call[w] = "none" /\ at[w] = "select"
    /\ batch'[w] = [Records |-> records, BatchSeq |-> batch[w].BatchSeq + 1]
    /\ data'[w] = MarshalBinary(batch'[w])
    /\ call'[w] # "none" /\ at'[w] = place
    /\ \A v \in SimWorker : v # w => /\ batch'[v] = batch[v] /\ data'[v] = data[v]
                                     /\ call'[v] = call[v] /\ at'[v] = at[v]

LEMMA SendNextNumbers ==
    ASSUME TypeInv, NEW w \in SimWorker, NEW records, NEW place, at[w] = "select",
           SendNext(w, records, place)
    PROVE  Numbers(w, records, place)
<1>1. /\ batch \in [SimWorker -> AISBatch] /\ data \in [SimWorker -> Seq(Byte)]
      /\ call \in [SimWorker -> Calls]
      /\ at \in [SimWorker -> {"select", "send", "flush", "done"}]
  BY DEF TypeInv, TransportOK, TransportTypeOK, RoundOK, EngineTypeOK
<1> DEFINE next == [Records |-> records, BatchSeq |-> batch[w].BatchSeq + 1]
           go == IF mode = "udp" THEN "datagram" ELSE "lock"
<1>2. /\ batch' = [batch EXCEPT ![w] = next] /\ call[w] = "none"
      /\ data' = [data EXCEPT ![w] = MarshalBinary(next)]
      /\ call' = [call EXCEPT ![w] = go] /\ at' = [at EXCEPT ![w] = place]
  BY DEF SendNext, Send, Go
<1>3. go # "none"
  OBVIOUS
<1> HIDE DEF next, go
<1>4. batch'[w] = next /\ data'[w] = MarshalBinary(next) /\ call'[w] = go /\ at'[w] = place
  BY <1>1, <1>2
<1>5. \A v \in SimWorker : v # w => /\ batch'[v] = batch[v] /\ data'[v] = data[v]
                                    /\ call'[v] = call[v] /\ at'[v] = at[v]
  BY <1>1, <1>2
<1> QED BY <1>2, <1>3, <1>4, <1>5 DEF Numbers, next

LEMMA TickBatches ==
    ASSUME TypeInv, TypeInv', BatchInv, NEW w \in SimWorker, Tick(w)
    PROVE  BatchInv'
<1>1. /\ RoundOK /\ batch \in [SimWorker -> AISBatch] /\ batch' \in [SimWorker -> AISBatch]
      /\ made \in [VesselIndex -> Nat]
  BY DEF TypeInv, RoundOK, EngineTypeOK
<1>2. /\ at[w] = "select" /\ SumFunction(made) < MaxBatches * BatchSize
      /\ made' = Ticked(w) /\ Numbers(w, Fill(w), "send")
  BY SendNextNumbers DEF Tick, Ticked
<1>3. /\ Len(Fill(w)) = BatchSize /\ Fresh(Fill(w), made, made', Shard(w))
      /\ made' \in [VesselIndex -> Nat] /\ \A i \in VesselIndex : made[i] <= made'[i]
  BY <1>1, <1>2, FillIsFresh
<1>4. SumFunction(made') = SumFunction(made) + BatchSize
  <2>1. Shard(w) # {} /\ vesselIdx[w] \in Nat /\ BatchSize \in Nat
    BY <1>1, <1>2, EngineAssumption DEF RoundOK, EngineTypeOK
  <2> QED BY <1>1, <1>2, <2>1, TicksSum DEF Ticked
<1>5. /\ batch'[w] = [Records |-> Fill(w), BatchSeq |-> batch[w].BatchSeq + 1]
      /\ data'[w] = MarshalBinary(batch'[w]) /\ at'[w] = "send"
      /\ \A v \in SimWorker : v # w => /\ batch'[v] = batch[v] /\ data'[v] = data[v]
                                       /\ call'[v] = call[v] /\ at'[v] = at[v]
  BY <1>2 DEF Numbers
<1>6. batch'[w].Records = Fill(w) /\ batch'[w].BatchSeq = batch[w].BatchSeq + 1
  BY <1>5
<1>7. BatchesBounded(at', batch', made')
  <2>1. PICK k \in Nat :
          /\ k <= MaxBatches
          /\ SumFunction(made) = k * BatchSize
          /\ \A v \in SimWorker : batch[v].BatchSeq <= k + Again(at[v])
    BY DEF BatchInv, BatchesBounded
  <2>2. k < MaxBatches /\ MaxBatches \in Nat /\ BatchSize \in Nat
    <3>1. MaxBatches \in Nat /\ BatchSize \in Nat
      BY EngineAssumption
    <3>2. k # MaxBatches
      <4>1. ~(MaxBatches * BatchSize < MaxBatches * BatchSize)
        <5>1. MaxBatches * BatchSize \in Nat
          BY <3>1
        <5> QED BY <5>1
      <4>2. SumFunction(made) # MaxBatches * BatchSize
        BY <1>2, <4>1, Zenon
      <4> QED BY <2>1, <4>2, Zenon
    <3> QED BY <2>1, <3>1, <3>2
  <2>3. k + 1 \in Nat /\ k + 1 <= MaxBatches /\ SumFunction(made') = (k + 1) * BatchSize
    <3>1. (k + 1) * BatchSize = (k * BatchSize) + BatchSize
      BY <2>2
    <3> QED BY <1>4, <2>1, <2>2, <3>1
  <2>4. \A v \in SimWorker : batch[v].BatchSeq \in Nat /\ Again(at[v]) \in Nat
    BY <1>1 DEF AISBatch, Again
  <2>5. batch'[w].BatchSeq <= (k + 1) + Again(at'[w])
    <3>1. Again(at[w]) = 0 /\ Again(at'[w]) = 0
      BY <1>2, <1>5 DEF Again
    <3> QED BY <1>6, <2>1, <2>4, <3>1
  <2>6. \A v \in SimWorker : v # w => batch'[v].BatchSeq <= (k + 1) + Again(at'[v])
    <3>1. SUFFICES ASSUME NEW v \in SimWorker, v # w
                   PROVE  batch'[v].BatchSeq <= (k + 1) + Again(at'[v])
      OBVIOUS
    <3>2. batch[v].BatchSeq <= k + Again(at[v]) /\ batch'[v] = batch[v] /\ at'[v] = at[v]
      BY <1>5, <2>1, <3>1
    <3> QED BY <2>4, <3>2
  <2> QED BY <2>3, <2>5, <2>6 DEF BatchesBounded
<1>8. BatchesReported(batch', made')
  <2>1. SUFFICES ASSUME NEW v \in SimWorker
                 PROVE  /\ Reported(batch'[v].Records, made', Shard(v))
                        /\ Len(batch'[v].Records) \in {0, BatchSize}
    BY DEF BatchesReported
  <2>2. Shard(v) \in SUBSET VesselIndex
    BY VesselsFinite
  <2>3. CASE v = w
    <3>1. Reported(Fill(w), made', Shard(w))
      BY <1>1, <1>3, <2>2, <2>3, FreshReported
    <3> QED BY <1>3, <1>6, <2>3, <3>1
  <2>4. CASE v # w
    <3>1. /\ Reported(batch[v].Records, made, Shard(v))
          /\ Len(batch[v].Records) \in {0, BatchSize} /\ batch'[v] = batch[v]
      BY <1>5, <2>4 DEF BatchInv, BatchesReported
    <3>2. Reported(batch[v].Records, made', Shard(v))
      BY <1>1, <1>3, <2>2, <3>1, ReportedLater
    <3> QED BY <3>1, <3>2
  <2> QED BY <2>3, <2>4
<1>9. Encoded(call', data', batch')
  <2>1. Fill(w) # << >>
    BY <1>3, EmptySeq, EngineAssumption
  <2>2. \A v \in SimWorker : v # w /\ call'[v] # "none"
          => data'[v] = MarshalBinary(batch'[v]) /\ batch'[v].Records # << >>
    BY <1>5 DEF BatchInv, Encoded
  <2> QED BY <1>5, <1>6, <2>1, <2>2 DEF Encoded
<1> QED BY <1>7, <1>8, <1>9 DEF BatchInv

LEMMA FlushBatches ==
    ASSUME TypeInv, BatchInv, NEW w \in SimWorker, Flush(w)
    PROVE  BatchInv'
<1>1. /\ RoundOK /\ batch \in [SimWorker -> AISBatch]
      /\ made \in [VesselIndex -> Nat]
  BY DEF TypeInv, RoundOK, EngineTypeOK
<1>2. /\ at[w] = "select" /\ made' = made /\ batch[w].Records # << >>
      /\ Numbers(w, batch[w].Records, "flush")
  BY SendNextNumbers DEF Flush
<1>3. /\ batch'[w] = [Records |-> batch[w].Records, BatchSeq |-> batch[w].BatchSeq + 1]
      /\ data'[w] = MarshalBinary(batch'[w]) /\ at'[w] = "flush"
      /\ \A v \in SimWorker : v # w => /\ batch'[v] = batch[v] /\ data'[v] = data[v]
                                       /\ call'[v] = call[v] /\ at'[v] = at[v]
  BY <1>2 DEF Numbers
<1>4. batch'[w].Records = batch[w].Records /\ batch'[w].BatchSeq = batch[w].BatchSeq + 1
  BY <1>3
<1>5. BatchesBounded(at', batch', made')
  <2>1. PICK k \in Nat :
          /\ k <= MaxBatches
          /\ SumFunction(made) = k * BatchSize
          /\ \A v \in SimWorker : batch[v].BatchSeq <= k + Again(at[v])
    BY DEF BatchInv, BatchesBounded
  <2>2. batch'[w].BatchSeq <= k + Again(at'[w])
    <3>1. Again(at[w]) = 0 /\ Again(at'[w]) = 1
      BY <1>2, <1>3 DEF Again
    <3>2. batch[w].BatchSeq \in Nat
      BY <1>1 DEF AISBatch
    <3> QED BY <1>4, <2>1, <3>1, <3>2
  <2>3. \A v \in SimWorker : v # w => batch'[v].BatchSeq <= k + Again(at'[v])
    BY <1>3, <2>1
  <2> QED BY <1>2, <2>1, <2>2, <2>3 DEF BatchesBounded
<1>6. BatchesReported(batch', made')
  <2>1. \A v \in SimWorker : batch'[v].Records = batch[v].Records
    BY <1>3, <1>4
  <2> QED BY <1>2, <2>1 DEF BatchInv, BatchesReported
<1>7. Encoded(call', data', batch')
  <2>1. \A v \in SimWorker : v # w /\ call'[v] # "none"
          => data'[v] = MarshalBinary(batch'[v]) /\ batch'[v].Records # << >>
    BY <1>3 DEF BatchInv, Encoded
  <2> QED BY <1>2, <1>3, <1>4, <2>1 DEF Encoded
<1> QED BY <1>5, <1>6, <1>7 DEF BatchInv

(* The steps that leave the batches alone.                                 *)
LEMMA BatchesStay ==
    ASSUME BatchInv, batch \in [SimWorker -> AISBatch], batch' = batch, made' = made,
           \A w \in SimWorker : at[w] \in {"flush", "done"} => at'[w] \in {"flush", "done"},
           \A w \in SimWorker : call'[w] # "none" => call[w] # "none" /\ data'[w] = data[w]
    PROVE  BatchInv'
<1>1. BatchesBounded(at', batch', made')
  <2>1. PICK k \in Nat :
          /\ k <= MaxBatches
          /\ SumFunction(made) = k * BatchSize
          /\ \A v \in SimWorker : batch[v].BatchSeq <= k + Again(at[v])
    BY DEF BatchInv, BatchesBounded
  <2>2. ASSUME NEW v \in SimWorker PROVE batch[v].BatchSeq <= k + Again(at'[v])
    <3>1. CASE at'[v] \in {"flush", "done"} /\ at[v] \notin {"flush", "done"}
      <4>1. Again(at[v]) = 0 /\ Again(at'[v]) = 1
        BY <3>1 DEF Again
      <4>2. batch[v].BatchSeq <= k + Again(at[v])
        BY <2>1
      <4>3. batch[v].BatchSeq <= k
        BY <4>1, <4>2
      <4>4. k + 1 = k + Again(at'[v])
        BY <4>1
      <4>5. batch[v].BatchSeq \in Nat
        BY DEF AISBatch
      <4> QED BY <4>1, <4>3, <4>5
    <3>2. CASE ~(at'[v] \in {"flush", "done"} /\ at[v] \notin {"flush", "done"})
      <4>1. Again(at[v]) = Again(at'[v])
        BY <3>2 DEF Again
      <4> QED BY <2>1, <4>1
    <3> QED BY <3>1, <3>2
  <2> QED BY <2>1, <2>2 DEF BatchesBounded
<1>2. BatchesReported(batch', made')
  BY DEF BatchInv
<1>3. Encoded(call', data', batch')
  BY DEF BatchInv, Encoded
<1> QED BY <1>1, <1>2, <1>3 DEF BatchInv

LEMMA BatchInvStep == TypeInv /\ TypeInv' /\ BatchInv /\ [Next]_vars => BatchInv'
<1> SUFFICES ASSUME TypeInv, TypeInv', BatchInv, [Next]_vars PROVE BatchInv'
  OBVIOUS
<1>1. /\ batch \in [SimWorker -> AISBatch] /\ call \in [SimWorker -> Calls]
      /\ data \in [SimWorker -> Seq(Byte)]
      /\ at \in [SimWorker -> {"select", "send", "flush", "done"}]
  BY DEF TypeInv, TransportOK, TransportTypeOK, RoundOK, EngineTypeOK
<1>2. ASSUME batch' = batch, made' = made, at' = at, call' = call, data' = data PROVE BatchInv'
  BY <1>2 DEF BatchInv
<1>3. ASSUME NEW w \in SimWorker, Count(w) PROVE BatchInv'
  <2>1. /\ batch' = batch /\ made' = made
        /\ call' = [call EXCEPT ![w] = "none"] /\ data' = [data EXCEPT ![w] = << >>]
        /\ at' = [at EXCEPT ![w] = IF at[w] = "flush" THEN "done" ELSE "select"]
        /\ call[w] \in {"ok", "error"}
    BY <1>3 DEF Count, Return, Returned
  <2>2. at[w] \in {"send", "flush"}
    BY <2>1 DEF TypeInv, RoundOK, EngineTypeOK
  <2>3. \A v \in SimWorker : at[v] \in {"flush", "done"} => at'[v] \in {"flush", "done"}
    BY <1>1, <2>1, <2>2
  <2>4. \A v \in SimWorker : call'[v] # "none" => call[v] # "none" /\ data'[v] = data[v]
    BY <1>1, <2>1
  <2> QED BY <1>1, <2>1, <2>3, <2>4, BatchesStay
<1>4. ASSUME NEW w \in SimWorker, Quit(w) PROVE BatchInv'
  <2>1. /\ batch' = batch /\ made' = made /\ call' = call /\ data' = data
        /\ at' = [at EXCEPT ![w] = "done"]
    BY <1>4 DEF Quit, transportVars
  <2>2. \A v \in SimWorker : at[v] \in {"flush", "done"} => at'[v] \in {"flush", "done"}
    BY <1>1, <2>1
  <2>3. \A v \in SimWorker : call'[v] # "none" => call[v] # "none" /\ data'[v] = data[v]
    BY <2>1
  <2> QED BY <1>1, <2>1, <2>2, <2>3, BatchesStay
<1>5. ASSUME NEW w \in SimWorker, SendStep(w) \/ Lock(w), UNCHANGED engineVars PROVE BatchInv'
  <2>1. /\ batch' = batch /\ made' = made /\ at' = at /\ data' = data
        /\ call[w] # "none" /\ \A v \in SimWorker : v # w => call'[v] = call[v]
    BY <1>1, <1>5 DEF SendStep, WriteDatagram, WriteLength, WriteData, WriteFails, Lock, Go, engineVars
  <2>2. \A v \in SimWorker : call'[v] # "none" => call[v] # "none" /\ data'[v] = data[v]
    BY <2>1
  <2>3. \A v \in SimWorker : at[v] \in {"flush", "done"} => at'[v] \in {"flush", "done"}
    BY <2>1
  <2> QED BY <1>1, <2>1, <2>2, <2>3, BatchesStay
<1>6. CASE Simulate
  <2>1. ASSUME NEW w \in SimWorker, SimWorkerStep(w) PROVE BatchInv'
    BY <1>3, <1>4, <1>5, <2>1, TickBatches DEF SimWorkerStep, FinishSend
  <2>2. ASSUME CancelSimulator PROVE BatchInv'
    BY <1>2, <2>2 DEF CancelSimulator, transportVars
  <2> QED BY <1>6, <2>1, <2>2 DEF Simulate
<1>7. ASSUME NEW w \in SimWorker, SendAgain(w) PROVE BatchInv'
  BY <1>7, FlushBatches DEF SendAgain
<1>8. CASE (\E i \in 1..Len(wire) : Deliver(i)) \/ Ingest \/ \E s \in Worker : Classify(s)
  BY <1>2, <1>8 DEF Deliver, Ingest, Classify, transportVars, engineVars
<1>9. CASE UNCHANGED vars
  BY <1>2, <1>9 DEF vars, transportVars, engineVars
<1> QED BY <1>6, <1>7, <1>8, <1>9 DEF Next

LEMMA BatchInvHolds == Spec => []BatchInv
  BY TypeInvHolds, TypeInvInit, TypeInvStep, BatchInvInit, BatchInvStep, PTL DEF Spec

(* What a call of Send writes decodes to its batch, and cut short at any   *)
(* byte decodes to nothing (ais.go 43-200): every field is read where it   *)
(* was written, and every length is what it was.                           *)
THEOREM BatchesDecodeHolds == Spec => BatchesDecode
<1> DEFINE Encoding ==
      \A w \in SimWorker : call[w] = "none" /\ call'[w] # "none"
         => /\ UnmarshalBinary(data'[w]) = {batch'[w]}
            /\ \A n \in 0..(Len(data'[w]) - 1) :
                 UnmarshalBinary(SubSeq(data'[w], 1, n)) = {}
<1>1. TypeInv' /\ BatchInv' => Encoding
  <2>1. SUFFICES ASSUME TypeInv', BatchInv', NEW w \in SimWorker, call'[w] # "none"
                 PROVE  Decodes(data'[w], batch'[w])
    BY DEF Decodes
  <2>2. batch' \in [SimWorker -> AISBatch] /\ made' \in [VesselIndex -> Nat]
    BY <2>1 DEF TypeInv, RoundOK, EngineTypeOK
  <2>3. BatchesBounded(at', batch', made') /\ BatchesReported(batch', made')
        /\ Encoded(call', data', batch')
    BY <2>1 DEF BatchInv
  <2>4. BatchFits(batch'[w])
    BY <2>2, <2>3, SendingFits
  <2>5. data'[w] = MarshalBinary(batch'[w])
    BY <2>1, <2>3 DEF Encoded
  <2>6. batch'[w] \in AISBatch
    BY <2>2
  <2>7. Decodes(MarshalBinary(batch'[w]), batch'[w])
    BY <2>4, <2>6, BatchDecodes
  <2> QED BY <2>5, <2>7
<1>2. TypeInv' /\ BatchInv' => [Encoding]_vars
  BY <1>1
<1>3. BatchesDecode <=> [][Encoding]_vars
  BY DEF BatchesDecode
<1> HIDE DEF Encoding
<1> QED BY <1>2, <1>3, TypeInvHolds, BatchInvHolds, PTL

-----------------------------------------------------------------------------
(* The frames of the stream.                                               *)

(* Frames on the stream: the offsets from which bytes is whole frames are  *)
(* the smallest set that holds its end and the start of every frame that   *)
(* ends in the set.                                                        *)
FrameEnd(bytes, k) == k + IntWidth + NumberAt(bytes, k, IntWidth)

IsFrame(bytes, k) ==
    /\ k + IntWidth <= Len(bytes)
    /\ FrameEnd(bytes, k) <= Len(bytes)
    /\ UnmarshalBinary(Bytes(bytes, k + IntWidth, NumberAt(bytes, k, IntWidth))) # {}

ClosedUnder(S, bytes) ==
    /\ Len(bytes) \in S
    /\ \A k \in 0..Len(bytes) : IsFrame(bytes, k) /\ FrameEnd(bytes, k) \in S => k \in S

Framed(bytes) == {k \in 0..Len(bytes) : \A S \in SUBSET (0..Len(bytes)) : ClosedUnder(S, bytes) => k \in S}

AreWhole(whole, bytes) ==
    whole = [k \in 0..Len(bytes) |->
               \/ k = Len(bytes)
               \/ /\ k + IntWidth <= Len(bytes)
                  /\ LET n == NumberAt(bytes, k, IntWidth)
                         next == k + IntWidth + n IN
                     /\ next <= Len(bytes)
                     /\ UnmarshalBinary(Bytes(bytes, k + IntWidth, n)) # {}
                     /\ whole[next]]

LEMMA FrameEndType ==
    ASSUME NEW bytes \in Seq(Byte), NEW k \in 0..Len(bytes), IsFrame(bytes, k)
    PROVE  FrameEnd(bytes, k) \in 0..Len(bytes)
<1>1. k \in Nat /\ IntWidth \in Nat /\ k + IntWidth <= Len(bytes) /\ FrameEnd(bytes, k) <= Len(bytes)
      /\ Len(bytes) \in Nat
  BY CodecAssumption, LenProperties DEF IsFrame
<1>2. NumberAt(bytes, k, IntWidth) \in Nat
  BY <1>1, BytesType, NumberType DEF NumberAt
<1> QED BY <1>1, <1>2 DEF FrameEnd

LEMMA FramedIs ==
    ASSUME NEW bytes \in Seq(Byte), NEW k \in 0..Len(bytes)
    PROVE  k \in Framed(bytes)
           <=> k = Len(bytes) \/ (IsFrame(bytes, k) /\ FrameEnd(bytes, k) \in Framed(bytes))
<1> DEFINE Starts(j) == j = Len(bytes) \/ (IsFrame(bytes, j) /\ FrameEnd(bytes, j) \in Framed(bytes))
           D == {j \in 0..Len(bytes) : Starts(j)}
<1>1. Len(bytes) \in 0..Len(bytes)
  BY LenProperties
<1>2. D \subseteq Framed(bytes)
  <2>1. SUFFICES ASSUME NEW j \in D, NEW S \in SUBSET (0..Len(bytes)), ClosedUnder(S, bytes)
                 PROVE  j \in S
    BY DEF Framed
  <2>2. CASE j = Len(bytes)
    BY <2>1, <2>2 DEF ClosedUnder
  <2>3. CASE IsFrame(bytes, j) /\ FrameEnd(bytes, j) \in Framed(bytes)
    <3>1. FrameEnd(bytes, j) \in S
      BY <2>1, <2>3 DEF Framed
    <3> QED BY <2>1, <2>3, <3>1 DEF ClosedUnder
  <2> QED BY <2>1, <2>2, <2>3
<1>3. ClosedUnder(D, bytes)
  <2>1. Len(bytes) \in D
    <3>1. Starts(Len(bytes))
      OBVIOUS
    <3> HIDE DEF Starts
    <3> QED BY <1>1, <3>1
  <2>2. ASSUME NEW j \in 0..Len(bytes), IsFrame(bytes, j), FrameEnd(bytes, j) \in D PROVE j \in D
    BY <1>2, <2>2
  <2> HIDE DEF D
  <2> QED BY <2>1, <2>2 DEF ClosedUnder
<1>4. Framed(bytes) \subseteq D
  <2>1. D \in SUBSET (0..Len(bytes))
    OBVIOUS
  <2> HIDE DEF D
  <2> QED BY <1>3, <2>1 DEF Framed
<1> QED BY <1>2, <1>4

(* A stream of which 0 is such an offset is whole frames.                  *)
LEMMA FramedIsWhole ==
    ASSUME stream \in Seq(Byte), 0 \in Framed(stream)
    PROVE  WholeFrames
<1> DEFINE L == Len(stream)
           f == [k \in 0..L |-> k \in Framed(stream)]
           whole == CHOOSE whole : AreWhole(whole, stream)
           S == {k \in 0..L : whole[k]}
<1>1. L \in Nat
  BY LenProperties
<1>2. AreWhole(f, stream)
  <2>1. ASSUME NEW k \in 0..L
        PROVE  f[k] = (\/ k = L
                       \/ /\ k + IntWidth <= L
                          /\ FrameEnd(stream, k) <= L
                          /\ UnmarshalBinary(Bytes(stream, k + IntWidth, NumberAt(stream, k, IntWidth))) # {}
                          /\ f[FrameEnd(stream, k)])
    <3> DEFINE rhs == \/ k = L
                      \/ /\ k + IntWidth <= L
                         /\ FrameEnd(stream, k) <= L
                         /\ UnmarshalBinary(Bytes(stream, k + IntWidth, NumberAt(stream, k, IntWidth))) # {}
                         /\ f[FrameEnd(stream, k)]
    <3>1. f[k] = (k \in Framed(stream)) /\ f[k] \in BOOLEAN
      OBVIOUS
    <3>2. f[k] <=> (k = L \/ (IsFrame(stream, k) /\ FrameEnd(stream, k) \in Framed(stream)))
      BY <3>1, FramedIs
    <3>3. CASE IsFrame(stream, k)
      <4>1. FrameEnd(stream, k) \in 0..L
        BY <3>3, FrameEndType
      <4>2. f[FrameEnd(stream, k)] <=> FrameEnd(stream, k) \in Framed(stream)
        BY <4>1
      <4> HIDE DEF f
      <4>3. f[k] <=> rhs
        BY <3>2, <3>3, <4>2 DEF IsFrame
      <4> QED BY <3>1, <4>3, Zenon
    <3>4. CASE ~IsFrame(stream, k)
      <4> HIDE DEF f
      <4>1. f[k] <=> rhs
        BY <3>2, <3>4 DEF IsFrame
      <4> QED BY <3>1, <4>1, Zenon
    <3> QED BY <3>3, <3>4
  <2> DEFINE g == [k \in 0..L |->
                     \/ k = L
                     \/ /\ k + IntWidth <= L
                        /\ FrameEnd(stream, k) <= L
                        /\ UnmarshalBinary(Bytes(stream, k + IntWidth, NumberAt(stream, k, IntWidth))) # {}
                        /\ f[FrameEnd(stream, k)]]
  <2>2. f = g
    <3>1. \A k \in 0..L : g[k] = (\/ k = L
                       \/ /\ k + IntWidth <= L
                          /\ FrameEnd(stream, k) <= L
                          /\ UnmarshalBinary(Bytes(stream, k + IntWidth, NumberAt(stream, k, IntWidth))) # {}
                          /\ f[FrameEnd(stream, k)])
      BY Zenon
    <3>2. DOMAIN f = 0..L /\ DOMAIN g = 0..L /\ f = [k \in 0..L |-> f[k]] /\ g = [k \in 0..L |-> g[k]]
      OBVIOUS
    <3> HIDE DEF f, g
    <3>3. \A k \in 0..L : f[k] = g[k]
      BY <2>1, <3>1, Zenon
    <3> QED BY <3>2, <3>3
  <2> HIDE DEF f
  <2> QED BY <2>2, Zenon DEF AreWhole, FrameEnd
<1>3. AreWhole(whole, stream)
  <2> HIDE DEF f
  <2> QED BY <1>2, Zenon
<1>4. WholeFrames <=> whole[0]
  BY Zenon DEF WholeFrames, AreWhole
<1> HIDE DEF whole, f
<1>5. ASSUME NEW k \in 0..L
      PROVE  whole[k] = (\/ k = L
                         \/ /\ k + IntWidth <= L
                            /\ FrameEnd(stream, k) <= L
                            /\ UnmarshalBinary(Bytes(stream, k + IntWidth, NumberAt(stream, k, IntWidth))) # {}
                            /\ whole[FrameEnd(stream, k)])
  BY <1>3, Zenon DEF AreWhole, FrameEnd
<1>6. ClosedUnder(S, stream)
  <2>0. L \in 0..L
    BY <1>1
  <2>1. whole[L] /\ L \in 0..L
    BY <1>5, <2>0, Zenon
  <2>2. ASSUME NEW k \in 0..L, IsFrame(stream, k), FrameEnd(stream, k) \in S PROVE k \in S
    <3>1. whole[FrameEnd(stream, k)]
      BY <2>2
    <3>2. whole[k]
      BY <1>5, <2>2, <3>1, Zenon DEF IsFrame
    <3> QED BY <3>2
  <2> QED BY <2>1, <2>2 DEF ClosedUnder
<1>7. 0 \in S
  <2>1. S \in SUBSET (0..Len(stream))
    OBVIOUS
  <2> HIDE DEF S
  <2> QED BY <1>6, <2>1 DEF Framed
<1> QED BY <1>4, <1>7

(* What bytes that agree with others from the start have in common.        *)
LEMMA SameBytes ==
    ASSUME NEW s \in Seq(Byte), NEW t \in Seq(Byte), Agrees(t, 0, s), Len(s) <= Len(t),
           NEW k \in Nat, NEW width \in Nat, k + width <= Len(s)
    PROVE  Bytes(t, k, width) = Bytes(s, k, width)
<1>1. Len(s) \in Nat /\ Len(t) \in Nat
  BY LenProperties
<1>2. k + 1 \in Int /\ k + width \in Int
  OBVIOUS
<1>3. \A i \in (k + 1)..(k + width) : /\ i \in 1..Len(s) /\ i \in 1..Len(t) /\ 0 + i = i
                                      /\ 0 + i <= Len(t)
  BY <1>1
<1>4. \A i \in (k + 1)..(k + width) : t[i] = s[i] /\ s[i] \in Byte /\ t[i] \in Byte
  <2>1. \A i \in (k + 1)..(k + width) : t[0 + i] = s[i]
    BY <1>3 DEF Agrees
  <2>2. \A i \in (k + 1)..(k + width) : s[i] \in Byte /\ t[i] \in Byte
    BY <1>3, ElementOfSeq
  <2> QED BY <1>3, <2>1, <2>2
<1> DEFINE a == SubSeq(s, k + 1, k + width)
           b == SubSeq(t, k + 1, k + width)
           l == IF k + 1 <= k + width THEN ((k + width) - (k + 1)) + 1 ELSE 0
<1>5. /\ a \in Seq(Byte) /\ Len(a) = l
      /\ \A i \in 1..(((k + width) - (k + 1)) + 1) : a[i] = s[((k + 1) + i) - 1]
  BY <1>2, <1>4, SubSeqProperties
<1>6. /\ b \in Seq(Byte) /\ Len(b) = l
      /\ \A i \in 1..(((k + width) - (k + 1)) + 1) : b[i] = t[((k + 1) + i) - 1]
  BY <1>2, <1>4, SubSeqProperties
<1>7. l = width /\ ((k + width) - (k + 1)) + 1 = width
  OBVIOUS
<1> HIDE DEF a, b, l
<1>8. \A i \in 1..width : ((k + 1) + i) - 1 \in (k + 1)..(k + width)
  OBVIOUS
<1>9. \A i \in 1..width : a[i] = b[i]
  <2>1. SUFFICES ASSUME NEW i \in 1..width PROVE a[i] = b[i]
    OBVIOUS
  <2>2. a[i] = s[((k + 1) + i) - 1] /\ b[i] = t[((k + 1) + i) - 1]
    BY <1>5, <1>6, <1>7
  <2>3. t[((k + 1) + i) - 1] = s[((k + 1) + i) - 1]
    BY <1>4, <1>8
  <2> QED BY <2>2, <2>3
<1>10. a = b
  <2>1. Len(a) = Len(b) /\ \A i \in 1..Len(a) : a[i] = b[i]
    BY <1>5, <1>6, <1>7, <1>9
  <2> QED BY <1>5, <1>6, <2>1, SeqEqual
<1> QED BY <1>10 DEF Bytes, a, b

LEMMA AgreesSelf ==
    ASSUME NEW s \in Seq(Byte)
    PROVE  Agrees(s, 0, s)
<1>1. \A i \in 1..Len(s) : 0 + i = i
  BY LenProperties
<1> QED BY <1>1 DEF Agrees

(* A frame after frames.                                                   *)
LEMMA OneMoreFrame ==
    ASSUME NEW s \in Seq(Byte), 0 \in Framed(s), NEW d \in Seq(Byte),
           Fits(Len(d), IntWidth), UnmarshalBinary(d) # {}
    PROVE  0 \in Framed((s \o LittleEndian(Len(d), IntWidth)) \o d)
<1> DEFINE L == Len(s)
           D == Len(d)
           le == LittleEndian(D, IntWidth)
           sl == s \o le
           t == sl \o d
<1>1. L \in Nat /\ D \in Nat /\ IntWidth \in Nat \ {0}
  BY LenProperties, CodecAssumption
<1>2. le \in Seq(Byte) /\ Len(le) = IntWidth
  BY <1>1, LittleEndianType
<1>2a. Fits(D, IntWidth)
  OBVIOUS
<1> HIDE DEF L, D
<1>3. sl \in Seq(Byte) /\ Len(sl) = L + IntWidth
  <2> HIDE DEF le
  <2> QED BY <1>2, ConcatProperties DEF L
<1>4. t \in Seq(Byte) /\ Len(t) = (L + IntWidth) + D
  <2> HIDE DEF sl
  <2> QED BY <1>3, ConcatProperties DEF D
<1>5. Agrees(t, 0, sl) /\ Agrees(t, L + IntWidth, d)
  <2>1. Agrees(t, 0, sl \o d) /\ 0 \in Nat /\ Len(t) \in Nat
    BY <1>4, AgreesSelf, LenProperties
  <2> HIDE DEF t, sl
  <2>2. Agrees(t, 0, sl) /\ Agrees(t, 0 + Len(sl), d)
    BY <1>3, <2>1, AgreesConcat
  <2>3. 0 + Len(sl) = L + IntWidth
    BY <1>1, <1>3
  <2> QED BY <2>2, <2>3
<1>6. Agrees(t, 0, s) /\ Agrees(t, L, le)
  <2>1. Agrees(t, 0, s \o le) /\ 0 \in Nat /\ Len(t) \in Nat
    BY <1>4, <1>5, LenProperties
  <2> HIDE DEF t, le
  <2>2. Agrees(t, 0, s) /\ Agrees(t, 0 + L, le)
    BY <1>2, <2>1, AgreesConcat DEF L
  <2>3. 0 + L = L
    BY <1>1
  <2> QED BY <2>2, <2>3
<1> HIDE DEF t, sl
<1>7. L <= Len(t) /\ L + IntWidth <= Len(t) /\ (L + IntWidth) + D <= Len(t) /\ L \in 0..Len(t)
  BY <1>1, <1>4
<1>8. NumberAt(t, L, IntWidth) = D
  <2>1. IntWidth \in Nat
    BY <1>1
  <2> QED BY <1>1, <1>2a, <1>4, <1>6, <1>7, <2>1, AgreesNumber DEF le
<1>9. FrameEnd(t, L) = Len(t) /\ IsFrame(t, L)
  <2>1. FrameEnd(t, L) = Len(t)
    BY <1>4, <1>8 DEF FrameEnd
  <2>2. Bytes(t, L + IntWidth, D) = d
    <3>1. L + IntWidth \in Nat
      BY <1>1
    <3> QED BY <1>4, <1>5, <1>7, <3>1, AgreesBytes DEF D
  <2>3. Len(t) <= Len(t)
    BY <1>1, <1>4
  <2> QED BY <1>7, <1>8, <2>1, <2>2, <2>3 DEF IsFrame
<1>10. ASSUME NEW S \in SUBSET (0..Len(t)), ClosedUnder(S, t) PROVE 0 \in S
  <2> DEFINE R == S \cap (0..L)
  <2>1. L \in R
    <3>1. L \in S
      BY <1>7, <1>9, <1>10 DEF ClosedUnder
    <3> QED BY <1>1, <3>1
  <2>2. ASSUME NEW k \in 0..L, IsFrame(s, k), FrameEnd(s, k) \in R PROVE k \in R
    <3> DEFINE n == NumberAt(s, k, IntWidth)
    <3>1. k \in Nat /\ k + IntWidth <= L /\ FrameEnd(s, k) <= L /\ k \in 0..Len(t)
      BY <1>1, <1>4, <2>2 DEF IsFrame, L
    <3>2. NumberAt(t, k, IntWidth) = n
      <4>1. IntWidth \in Nat
        BY <1>1
      <4>2. Bytes(t, k, IntWidth) = Bytes(s, k, IntWidth)
        BY <1>4, <1>6, <1>7, <3>1, <4>1, SameBytes DEF L
      <4> QED BY <4>2 DEF NumberAt
    <3>3. n \in Nat
      BY <1>1, <3>1, BytesType, NumberType DEF NumberAt, L
    <3> HIDE DEF n
    <3>4. FrameEnd(s, k) = (k + IntWidth) + n /\ FrameEnd(t, k) = (k + IntWidth) + n
      BY <3>2 DEF FrameEnd, n
    <3>5. Bytes(t, k + IntWidth, n) = Bytes(s, k + IntWidth, n)
      <4>1. k + IntWidth \in Nat /\ (k + IntWidth) + n <= L
        BY <1>1, <3>1, <3>4
      <4> QED BY <1>4, <1>6, <1>7, <3>3, <4>1, SameBytes DEF L
    <3>6. IsFrame(t, k)
      <4>1. k + IntWidth <= Len(t) /\ FrameEnd(t, k) <= Len(t)
        BY <1>1, <1>4, <3>1, <3>3, <3>4
      <4>2. UnmarshalBinary(Bytes(s, k + IntWidth, n)) # {}
        BY <2>2 DEF IsFrame, n
      <4> QED BY <3>2, <3>5, <4>1, <4>2 DEF IsFrame
    <3>7. FrameEnd(t, k) \in S
      BY <2>2, <3>4
    <3>8. k \in S
      BY <1>10, <3>1, <3>6, <3>7 DEF ClosedUnder
    <3> QED BY <2>2, <3>8
  <2>3. ClosedUnder(R, s)
    <3> HIDE DEF R
    <3> QED BY <2>1, <2>2 DEF ClosedUnder, L
  <2>4. 0 \in R
    <3>1. R \in SUBSET (0..Len(s))
      BY DEF L
    <3> HIDE DEF R
    <3> QED BY <2>3, <3>1 DEF Framed
  <2> QED BY <2>4
<1>11. 0 \in 0..Len(t)
  BY <1>1, <1>4
<1>12. 0 \in Framed(t)
  BY <1>10, <1>11 DEF Framed
<1> QED BY <1>12 DEF t, sl, le, D

(* The length of a frame.                                                  *)
LEMMA RecordLength ==
    ASSUME NEW r \in AISRecord, RecordFits(r)
    PROVE  Len(MarshalRecord(r)) \in 0..RecordLimit /\ RecordLimit \in Nat
<1> DEFINE A == MarshalString(r.VesselID)
           B == MarshalString(r.MMSI)
           C == LittleEndian(r.Lat, DoubleWidth)
           D == LittleEndian(r.Lon, DoubleWidth)
           E == LittleEndian(r.SOGKnots, FloatWidth)
           F == LittleEndian(r.COGDegrees, FloatWidth)
           G == LittleEndian(r.TSUnixMs, DoubleWidth)
           H == << IF r.IsScriptedViolator THEN 1 ELSE 0 >>
<1>1. /\ A \in Seq(Byte) /\ B \in Seq(Byte) /\ C \in Seq(Byte) /\ D \in Seq(Byte)
      /\ E \in Seq(Byte) /\ F \in Seq(Byte) /\ G \in Seq(Byte) /\ H \in Seq(Byte)
      /\ Len(C) = DoubleWidth /\ Len(D) = DoubleWidth /\ Len(E) = FloatWidth
      /\ Len(F) = FloatWidth /\ Len(G) = DoubleWidth
  BY RecordParts
<1>2. Len(H) = 1
  OBVIOUS
<1>3. r.VesselID \in Seq(Byte) /\ r.MMSI \in Seq(Byte)
  BY DEF AISRecord
<1>4. Len(r.VesselID) < ByteBase /\ Len(r.MMSI) < ByteBase
  BY DEF RecordFits
<1>5. \A s \in Seq(Byte) : Len(s) < ByteBase => Len(MarshalString(s)) \in 0..ByteBase
  <2>1. SUFFICES ASSUME NEW s \in Seq(Byte), Len(s) < ByteBase
                 PROVE  Len(MarshalString(s)) \in 0..ByteBase
    OBVIOUS
  <2>2. Agrees(MarshalString(s), 0, MarshalString(s)) /\ MarshalString(s) \in Seq(Byte) /\ 0 \in Nat
    BY MarshalStringType, AgreesSelf
  <2>3. Len(MarshalString(s)) = Len(s) + 1
    BY <2>1, <2>2, AgreesString
  <2>4. Len(s) \in Nat /\ ByteBase \in Nat
    BY LenProperties, CodecAssumption
  <2> QED BY <2>1, <2>3, <2>4
<1>6. Len(A) \in 0..ByteBase /\ Len(B) \in 0..ByteBase
  BY <1>3, <1>4, <1>5
<1>7. MarshalRecord(r) = ((((((A \o B) \o C) \o D) \o E) \o F) \o G) \o H
  BY DEF MarshalRecord
<1> HIDE DEF A, B, C, D, E, F, G, H
<1> DEFINE AB == A \o B
           AC == AB \o C
           AD == AC \o D
           AE == AD \o E
           AF == AE \o F
           AG == AF \o G
           AH == AG \o H
<1>9. AB \in Seq(Byte) /\ Len(AB) = Len(A) + Len(B)
  BY <1>1, ConcatBytes, Zenon
<1> HIDE DEF AB
<1>10. AC \in Seq(Byte) /\ Len(AC) = Len(AB) + DoubleWidth
  <2>1. AB \o C \in Seq(Byte) /\ Len(AB \o C) = Len(AB) + Len(C)
    BY <1>1, <1>9, ConcatBytes, Zenon
  <2>2. Len(C) = DoubleWidth
    BY <1>1
  <2> QED BY <2>1, <2>2
<1> HIDE DEF AC
<1>11. AD \in Seq(Byte) /\ Len(AD) = Len(AC) + DoubleWidth
  <2>1. AC \o D \in Seq(Byte) /\ Len(AC \o D) = Len(AC) + Len(D)
    BY <1>1, <1>10, ConcatBytes, Zenon
  <2>2. Len(D) = DoubleWidth
    BY <1>1
  <2> QED BY <2>1, <2>2
<1> HIDE DEF AD
<1>12. AE \in Seq(Byte) /\ Len(AE) = Len(AD) + FloatWidth
  <2>1. AD \o E \in Seq(Byte) /\ Len(AD \o E) = Len(AD) + Len(E)
    BY <1>1, <1>11, ConcatBytes, Zenon
  <2>2. Len(E) = FloatWidth
    BY <1>1
  <2> QED BY <2>1, <2>2
<1> HIDE DEF AE
<1>13. AF \in Seq(Byte) /\ Len(AF) = Len(AE) + FloatWidth
  <2>1. AE \o F \in Seq(Byte) /\ Len(AE \o F) = Len(AE) + Len(F)
    BY <1>1, <1>12, ConcatBytes, Zenon
  <2>2. Len(F) = FloatWidth
    BY <1>1
  <2> QED BY <2>1, <2>2
<1> HIDE DEF AF
<1>14. AG \in Seq(Byte) /\ Len(AG) = Len(AF) + DoubleWidth
  <2>1. AF \o G \in Seq(Byte) /\ Len(AF \o G) = Len(AF) + Len(G)
    BY <1>1, <1>13, ConcatBytes, Zenon
  <2>2. Len(G) = DoubleWidth
    BY <1>1
  <2> QED BY <2>1, <2>2
<1> HIDE DEF AG
<1>15. Len(AH) = Len(AG) + 1
  <2>1. AG \o H \in Seq(Byte) /\ Len(AG \o H) = Len(AG) + Len(H)
    BY <1>1, <1>14, ConcatBytes, Zenon
  <2>2. Len(H) = 1
    BY <1>2
  <2> QED BY <2>1, <2>2
<1>16. MarshalRecord(r) = AH
  BY <1>7 DEF AG, AF, AE, AD, AC, AB
<1> HIDE DEF AH
<1>17. DoubleWidth \in Nat /\ FloatWidth \in Nat /\ ByteBase \in Nat
  BY CodecAssumption
<1> DEFINE x == Len(A)
           y == Len(B)
<1>18. Len(MarshalRecord(r)) = ((((((x + y) + DoubleWidth) + DoubleWidth) + FloatWidth) + FloatWidth) + DoubleWidth) + 1
  BY <1>9, <1>10, <1>11, <1>12, <1>13, <1>14, <1>15, <1>16
<1>19. x \in 0..ByteBase /\ y \in 0..ByteBase
  BY <1>6
<1>20. RecordLimit = 2 * ByteBase + 3 * DoubleWidth + 2 * FloatWidth + 1
  BY DEF RecordLimit
<1> HIDE DEF x, y
<1> QED BY <1>17, <1>18, <1>19, <1>20

LEMMA FrameLength ==
    ASSUME NEW b \in AISBatch, BatchFits(b), Len(b.Records) \in {0, BatchSize}
    PROVE  Len(MarshalBinary(b)) \in 0..FrameLimit
<1> DEFINE n == Len(b.Records)
           body == FlattenSeq(Parts(b.Records))
           seqno == LittleEndian(b.BatchSeq, IntWidth)
           count == LittleEndian(n, IntWidth)
           none == << >>
<1>1. b.Records \in Seq(AISRecord) /\ b.BatchSeq \in Nat /\ IntWidth \in Nat \ {0}
      /\ BatchSize \in Nat
  BY CodecAssumption, EngineAssumption DEF AISBatch
<1>2. n \in Nat /\ \A i \in 1..n : b.Records[i] \in AISRecord
  BY <1>1, LenProperties, ElementOfSeq
<1>3. body \in Seq(Byte)
  BY <1>1, PartsType, FlattenType
<1>4. /\ seqno \in Seq(Byte) /\ Len(seqno) = IntWidth
      /\ count \in Seq(Byte) /\ Len(count) = IntWidth
  BY <1>1, <1>2, LittleEndianType
<1>5. MarshalBinary(b) = (seqno \o count) \o body
  BY DEF MarshalBinary, Parts
<1>6. n \in {0, BatchSize} /\ \A i \in 1..n : RecordFits(b.Records[i])
  BY DEF BatchFits
<1>7. PICK ends : Ends(ends, none, b.Records)
  <2>1. none \in Seq(Byte) /\ Len(none) = 0
    BY EmptySeq
  <2>2. Agrees(none, 2 * IntWidth, FlattenSeq(Parts(b.Records)))
    <3>1. \A i \in 1..Len(FlattenSeq(Parts(b.Records))) : ~(2 * IntWidth + i <= 0)
      BY <1>1
    <3> HIDE DEF none
    <3> QED BY <2>1, <3>1 DEF Agrees
  <2> HIDE DEF none
  <2> QED BY <1>1, <2>1, <2>2, EndsExist
<1>8. /\ ends[0] = 0 /\ ends[n] = Len(body)
      /\ \A i \in 1..n : /\ ends[i - 1] \in Nat
                         /\ ends[i] = ends[i - 1] + Len(MarshalRecord(b.Records[i]))
  BY <1>7 DEF Ends
<1> HIDE DEF n, body, seqno, count
<1> DEFINE K == RecordLimit
           G == {i \in Nat : i <= n => ends[i] \in Nat /\ ends[i] <= i * K}
<1>9. K \in Nat
  BY CodecAssumption DEF RecordLimit
<1>10. 0 \in G
  <2>1. 0 * K = 0
    BY <1>9
  <2> HIDE DEF K
  <2> QED BY <1>8, <2>1
<1>11. ASSUME NEW i \in Nat, i \in G PROVE i + 1 \in G
  <2>1. SUFFICES ASSUME i + 1 <= n PROVE ends[i + 1] \in Nat /\ ends[i + 1] <= (i + 1) * K
    OBVIOUS
  <2>2. i + 1 \in 1..n /\ (i + 1) - 1 = i /\ ends[i] \in Nat /\ ends[i] <= i * K
    BY <1>2, <1>11, <2>1
  <2>3. Len(MarshalRecord(b.Records[i + 1])) \in 0..K
    BY <1>2, <1>6, <2>2, RecordLength
  <2>4. ends[i + 1] = ends[i] + Len(MarshalRecord(b.Records[i + 1]))
    BY <1>8, <2>2
  <2> HIDE DEF K
  <2>5. (i + 1) * K = (i * K) + K /\ i * K \in Nat
    BY <1>9
  <2> QED BY <1>9, <2>2, <2>3, <2>4, <2>5
<1>12. Len(body) \in Nat /\ Len(body) <= n * K
  <2>1. Nat \subseteq G
    <3> HIDE DEF G
    <3> QED BY <1>10, <1>11, NatInductionSet
  <2>2. n \in Nat /\ n <= n
    BY <1>2
  <2> HIDE DEF K
  <2> QED BY <1>8, <2>1, <2>2
<1>13. n * K <= BatchSize * K /\ BatchSize * K \in Nat /\ n * K \in Nat
  <2>1. n = 0 \/ n = BatchSize
    BY <1>6
  <2> HIDE DEF K
  <2>2. BatchSize * K \in Nat /\ 0 * K = 0
    BY <1>1, <1>9
  <2>3. CASE n = 0
    BY <2>2, <2>3
  <2>4. CASE n = BatchSize
    BY <2>2, <2>4
  <2> QED BY <2>1, <2>3, <2>4
<1>14. Len(MarshalBinary(b)) = (IntWidth + IntWidth) + Len(body)
  <2>1. seqno \o count \in Seq(Byte) /\ Len(seqno \o count) = IntWidth + IntWidth
    <3>1. seqno \o count \in Seq(Byte) /\ Len(seqno \o count) = Len(seqno) + Len(count)
      BY <1>4, ConcatProperties
    <3> QED BY <1>4, <3>1
  <2>2. Len((seqno \o count) \o body) = (IntWidth + IntWidth) + Len(body)
    BY <1>3, <2>1, ConcatProperties
  <2> QED BY <1>5, <2>2
<1>15. FrameLimit = 2 * IntWidth + BatchSize * K
  BY DEF FrameLimit
<1> HIDE DEF K
<1> QED BY <1>1, <1>12, <1>13, <1>14, <1>15

(* Until a write fails the stream is whole frames, or whole frames and the *)
(* length of what the worker in the mutex writes next.                     *)
AtLength(calls, datas, bytes) ==
    \E w \in SimWorker, t \in Seq(Byte) :
      /\ calls[w] = "data"
      /\ 0 \in Framed(t)
      /\ bytes = t \o LittleEndian(Len(datas[w]), IntWidth)

BetweenFrames(calls, bytes) == (\A w \in SimWorker : calls[w] # "data") /\ 0 \in Framed(bytes)

StreamInv ==
    stats.Errors = 0 => BetweenFrames(call, stream) \/ AtLength(call, data, stream)

LEMMA StreamInvInit == Init => StreamInv
<1> SUFFICES ASSUME Init PROVE StreamInv
  OBVIOUS
<1>1. stream = << >> /\ call = [w \in SimWorker |-> "none"]
  BY DEF Init, EngineInit, TransportInit
<1>2. \A w \in SimWorker : call[w] # "data"
  BY <1>1
<1>3. Len(stream) = 0
  BY <1>1, EmptySeq
<1>4. 0 \in Framed(stream)
  <2>1. 0 \in 0..Len(stream)
    BY <1>3
  <2> QED BY <1>3, <2>1 DEF Framed, ClosedUnder
<1> QED BY <1>2, <1>4 DEF StreamInv, BetweenFrames

(* The steps that write nothing to the stream.                             *)
LEMMA StreamStays ==
    ASSUME StreamInv, stream' = stream, stats'.Errors = 0 => stats.Errors = 0,
           \A w \in SimWorker : call'[w] = "data" <=> call[w] = "data",
           \A w \in SimWorker : call[w] = "data" => data'[w] = data[w]
    PROVE  StreamInv'
<1>1. SUFFICES ASSUME stats'.Errors = 0
               PROVE  BetweenFrames(call', stream') \/ AtLength(call', data', stream')
  BY DEF StreamInv
<1>2. BetweenFrames(call, stream) \/ AtLength(call, data, stream)
  BY <1>1 DEF StreamInv
<1>3. CASE BetweenFrames(call, stream)
  BY <1>3 DEF BetweenFrames
<1>4. CASE AtLength(call, data, stream)
  <2>1. PICK w \in SimWorker, t \in Seq(Byte) :
          /\ call[w] = "data"
          /\ 0 \in Framed(t)
          /\ stream = t \o LittleEndian(Len(data[w]), IntWidth)
    BY <1>4 DEF AtLength
  <2>2. call'[w] = "data" /\ stream' = t \o LittleEndian(Len(data'[w]), IntWidth)
    BY <2>1
  <2> QED BY <2>1, <2>2 DEF AtLength
<1> QED BY <1>2, <1>3, <1>4

LEMMA SendStepStream ==
    ASSUME TypeInv, BatchInv, StreamInv, NEW w \in SimWorker, SendStep(w) \/ Lock(w)
    PROVE  StreamInv'
<1>1. /\ call \in [SimWorker -> Calls] /\ data \in [SimWorker -> Seq(Byte)]
      /\ stream \in Seq(Byte) /\ stats \in [BatchesSent : Nat, Errors : Nat]
      /\ \A v \in SimWorker : holder = v <=> call[v] \in {"length", "data"}
      /\ batch \in [SimWorker -> AISBatch] /\ made \in [VesselIndex -> Nat]
  BY DEF TypeInv, TransportOK, TransportTypeOK, RoundOK, EngineTypeOK
<1>2. stats.Errors \in Nat
  BY <1>1
<1>3. \A v \in SimWorker : v # w => call'[v] = call[v]
  BY <1>1 DEF SendStep, WriteDatagram, WriteLength, WriteData, WriteFails, Lock, Go
<1>4. ASSUME CountError PROVE stats'.Errors # 0
  BY <1>1, <1>2, <1>4 DEF CountError
<1>5. ASSUME CountBatch PROVE stats'.Errors = stats.Errors
  BY <1>1, <1>5 DEF CountBatch
<1>6. CASE WriteDatagram(w)
  <2>1. /\ call[w] = "datagram" /\ call'[w] \in {"ok", "error"} /\ stream' = stream /\ data' = data
        /\ CountBatch \/ CountError
    BY <1>1, <1>6 DEF WriteDatagram, Go
  <2>2. stats'.Errors = 0 => stats.Errors = 0
    BY <1>4, <1>5, <2>1
  <2>3. \A v \in SimWorker : call'[v] = "data" <=> call[v] = "data"
    BY <1>3, <2>1
  <2> QED BY <2>1, <2>2, <2>3, StreamStays
<1>7. CASE Lock(w)
  <2>1. /\ call[w] = "lock" /\ call'[w] = "length" /\ stream' = stream /\ data' = data
        /\ stats' = stats
    BY <1>1, <1>7 DEF Lock, Go
  <2>2. \A v \in SimWorker : call'[v] = "data" <=> call[v] = "data"
    BY <1>3, <2>1
  <2> QED BY <2>1, <2>2, StreamStays
<1>8. CASE WriteLength(w)
  <2>1. /\ call[w] = "length" /\ call'[w] = "data" /\ data' = data /\ stats' = stats
        /\ stream' = stream \o LittleEndian(Len(data[w]), IntWidth)
    BY <1>1, <1>8 DEF WriteLength, LengthPrefix, Go
  <2>2. SUFFICES ASSUME stats.Errors = 0 PROVE AtLength(call', data', stream')
    BY <2>1 DEF StreamInv
  <2>3. \A v \in SimWorker : call[v] # "data"
    <3>1. holder = w
      BY <1>1, <2>1
    <3>2. SUFFICES ASSUME NEW v \in SimWorker, call[v] = "data" PROVE FALSE
      OBVIOUS
    <3>3. holder = v
      BY <1>1, <3>2
    <3> QED BY <2>1, <3>1, <3>2, <3>3
  <2>4. 0 \in Framed(stream)
    BY <2>2, <2>3 DEF StreamInv, BetweenFrames, AtLength
  <2>5. stream' = stream \o LittleEndian(Len(data'[w]), IntWidth)
    BY <2>1
  <2> QED BY <1>1, <2>1, <2>4, <2>5 DEF AtLength
<1>9. CASE WriteData(w)
  <2>1. /\ call[w] = "data" /\ call'[w] = "ok" /\ data' = data /\ stats'.Errors = stats.Errors
        /\ stream' = stream \o data[w]
    BY <1>1, <1>5, <1>9 DEF WriteData, Go
  <2>2. \A v \in SimWorker : call[v] = "data" => v = w
    <3>1. holder = w
      BY <1>1, <2>1
    <3>2. SUFFICES ASSUME NEW v \in SimWorker, call[v] = "data" PROVE v = w
      OBVIOUS
    <3>3. holder = v
      BY <1>1, <3>2
    <3> QED BY <3>1, <3>3
  <2>3. SUFFICES ASSUME stats.Errors = 0 PROVE BetweenFrames(call', stream')
    BY <2>1 DEF StreamInv
  <2>4. AtLength(call, data, stream)
    BY <2>1, <2>3 DEF StreamInv, BetweenFrames
  <2>5. PICK t \in Seq(Byte) :
          /\ 0 \in Framed(t)
          /\ stream = t \o LittleEndian(Len(data[w]), IntWidth)
    BY <2>2, <2>4 DEF AtLength
  <2>6. /\ BatchesBounded(at, batch, made) /\ BatchesReported(batch, made)
        /\ Encoded(call, data, batch)
    BY DEF BatchInv
  <2>7. BatchFits(batch[w]) /\ batch[w] \in AISBatch /\ Len(batch[w].Records) \in {0, BatchSize}
        /\ data[w] = MarshalBinary(batch[w])
    <3>1. BatchFits(batch[w])
      BY <1>1, <2>6, SendingFits
    <3>2. Len(batch[w].Records) \in {0, BatchSize}
      BY <2>6 DEF BatchesReported
    <3>3. data[w] = MarshalBinary(batch[w])
      BY <2>1, <2>6 DEF Encoded
    <3> QED BY <1>1, <3>1, <3>2, <3>3
  <2>8. Fits(Len(data[w]), IntWidth)
    <3>1. Len(data[w]) \in 0..FrameLimit
      BY <2>7, FrameLength
    <3> QED BY <3>1, EngineAssumption
  <2>9. UnmarshalBinary(data[w]) # {}
    <3>1. Decodes(data[w], batch[w])
      BY <2>7, BatchDecodes
    <3> QED BY <3>1 DEF Decodes
  <2>10. 0 \in Framed((t \o LittleEndian(Len(data[w]), IntWidth)) \o data[w])
    <3>1. data[w] \in Seq(Byte)
      BY <1>1
    <3> QED BY <2>5, <2>8, <2>9, <3>1, OneMoreFrame
  <2>11. 0 \in Framed(stream')
    BY <2>1, <2>5, <2>10, Zenon
  <2>12. \A v \in SimWorker : call'[v] # "data"
    BY <1>3, <2>1, <2>2
  <2> QED BY <2>11, <2>12 DEF BetweenFrames
<1>10. CASE WriteFails(w)
  <2>1. stats'.Errors # 0
    BY <1>4, <1>10 DEF WriteFails
  <2> QED BY <2>1 DEF StreamInv
<1> QED BY <1>6, <1>7, <1>8, <1>9, <1>10 DEF SendStep

LEMMA StreamInvStep == TypeInv /\ BatchInv /\ StreamInv /\ [Next]_vars => StreamInv'
<1> SUFFICES ASSUME TypeInv, BatchInv, StreamInv, [Next]_vars PROVE StreamInv'
  OBVIOUS
<1>1. call \in [SimWorker -> Calls] /\ data \in [SimWorker -> Seq(Byte)]
  BY DEF TypeInv, TransportOK, TransportTypeOK
<1>2. ASSUME stream' = stream, stats' = stats, call' = call, data' = data PROVE StreamInv'
  BY <1>2 DEF StreamInv
<1>3. ASSUME NEW w \in SimWorker, NEW records, NEW place, SendNext(w, records, place)
      PROVE  StreamInv'
  <2> DEFINE next == [Records |-> records, BatchSeq |-> batch[w].BatchSeq + 1]
  <2>1. Send(w, next)
    BY <1>3 DEF SendNext
  <2> HIDE DEF next
  <2>2. /\ call[w] = "none" /\ stream' = stream /\ stats' = stats
        /\ call'[w] \in {"datagram", "lock"}
        /\ \A v \in SimWorker : v # w => call'[v] = call[v] /\ data'[v] = data[v]
    BY <1>1, <2>1 DEF Send, Go
  <2>3. \A v \in SimWorker : call'[v] = "data" <=> call[v] = "data"
    BY <2>2
  <2>4. \A v \in SimWorker : call[v] = "data" => data'[v] = data[v]
    BY <2>2
  <2> QED BY <2>2, <2>3, <2>4, StreamStays
<1>4. ASSUME NEW w \in SimWorker, Count(w) PROVE StreamInv'
  <2>1. /\ call[w] \in {"ok", "error"} /\ stream' = stream /\ stats' = stats
        /\ call'[w] = "none"
        /\ \A v \in SimWorker : v # w => call'[v] = call[v] /\ data'[v] = data[v]
    BY <1>1, <1>4 DEF Count, Return, Returned
  <2>2. \A v \in SimWorker : call'[v] = "data" <=> call[v] = "data"
    BY <2>1
  <2>3. \A v \in SimWorker : call[v] = "data" => data'[v] = data[v]
    BY <2>1
  <2> QED BY <2>1, <2>2, <2>3, StreamStays
<1>5. CASE Simulate
  <2>1. ASSUME NEW w \in SimWorker, SimWorkerStep(w) PROVE StreamInv'
    <3>1. CASE Tick(w)
      BY <1>3, <3>1 DEF Tick
    <3>2. CASE FinishSend(w)
      BY <1>4, <3>2, SendStepStream DEF FinishSend
    <3>3. CASE Quit(w)
      BY <1>2, <3>3 DEF Quit, transportVars
    <3>4. CASE Lock(w) /\ UNCHANGED engineVars
      BY <3>4, SendStepStream
    <3> QED BY <2>1, <3>1, <3>2, <3>3, <3>4 DEF SimWorkerStep
  <2>2. ASSUME CancelSimulator PROVE StreamInv'
    BY <1>2, <2>2 DEF CancelSimulator, transportVars
  <2> QED BY <1>5, <2>1, <2>2 DEF Simulate
<1>6. ASSUME NEW w \in SimWorker, SendAgain(w) PROVE StreamInv'
  BY <1>3, <1>6 DEF SendAgain, Flush
<1>7. CASE (\E i \in 1..Len(wire) : Deliver(i)) \/ Ingest \/ \E s \in Worker : Classify(s)
  BY <1>2, <1>7 DEF Deliver, Ingest, Classify, transportVars
<1>8. CASE UNCHANGED vars
  BY <1>2, <1>8 DEF vars, transportVars
<1> QED BY <1>5, <1>6, <1>7, <1>8 DEF Next

LEMMA StreamInvHolds == Spec => []StreamInv
  BY TypeInvHolds, BatchInvHolds, StreamInvInit, StreamInvStep, PTL DEF Spec

(* Until a write fails, whoever reads the connection or file while no      *)
(* worker is in the mutex finds whole frames, each with a batch in it      *)
(* (transport.go 200-225, 136-160): the length of a frame fits its field,  *)
(* the mutex keeps length and data together, and what is appended leaves   *)
(* the frames before it alone.                                             *)
THEOREM FramesWholeHolds == Spec => []FramesWhole
<1>1. TypeInv /\ StreamInv => FramesWhole
  <2>1. SUFFICES ASSUME TypeInv, StreamInv, stats.Errors = 0, holder = Free PROVE WholeFrames
    BY DEF FramesWhole
  <2>2. stream \in Seq(Byte) /\ \A v \in SimWorker : holder = v <=> call[v] \in {"length", "data"}
    BY <2>1 DEF TypeInv, TransportOK, TransportTypeOK
  <2>3. \A v \in SimWorker : call[v] # "data"
    <3>1. SUFFICES ASSUME NEW v \in SimWorker, call[v] = "data" PROVE FALSE
      OBVIOUS
    <3>2. holder = v
      BY <2>2, <3>1
    <3> QED BY <2>1, <3>2, Workers
  <2>4. 0 \in Framed(stream)
    BY <2>1, <2>3 DEF StreamInv, BetweenFrames, AtLength
  <2> QED BY <2>2, <2>4, FramedIsWhole
<1> QED BY <1>1, TypeInvHolds, StreamInvHolds, PTL

-----------------------------------------------------------------------------
(* The refinement of the position log: the reports of a vessel on their    *)
(* way, by their time.                                                     *)

(* The reports of vessel i among records, by their time; what comes before *)
(* what.                                                                   *)
Values(records, i) == {records[j].TSUnixMs : j \in {l \in 1..Len(records) : Of(i, records[l])}}

Lt(A, B) == \A a \in A, b \in B : a < b

(* The reports of a vessel on their way: the last one seen, those in the   *)
(* queues W, in the batch T being dispatched, in the n datagrams X and in  *)
(* the batches Y the simulator is about to write.                          *)
Chain(last, W, T, X, n, Y) ==
    /\ \A s \in Worker : Lt({last}, W[s]) /\ Lt(W[s], T)
    /\ \A s \in Worker, k \in 1..n : Lt(W[s], X[k])
    /\ \A s \in Worker, w \in SimWorker : Lt(W[s], Y[w])
    /\ Lt({last}, T)
    /\ \A k \in 1..n : Lt(T, X[k]) /\ Lt({last}, X[k])
    /\ \A w \in SimWorker : Lt(T, Y[w]) /\ Lt({last}, Y[w])
    /\ \A k, l \in 1..n : k < l => Lt(X[k], X[l])
    /\ \A k \in 1..n, w \in SimWorker : Lt(X[k], Y[w])

LEMMA LtSmaller ==
    ASSUME NEW A, NEW B, NEW C, NEW D, Lt(A, B), C \subseteq A, D \subseteq B
    PROVE  Lt(C, D)
BY DEF Lt

LEMMA LtEmpty ==
    \A A : Lt({}, A) /\ Lt(A, {})
BY DEF Lt

LEMMA LtUnion ==
    ASSUME NEW A, NEW B, NEW C
    PROVE  /\ Lt(A, C) /\ Lt(B, C) => Lt(A \cup B, C)
           /\ Lt(A, B) /\ Lt(A, C) => Lt(A, B \cup C)
BY DEF Lt

(* Reports are lost.                                                       *)
LEMMA ChainShrinks ==
    ASSUME NEW last, NEW W, NEW T, NEW X, NEW n, NEW Y, Chain(last, W, T, X, n, Y),
           NEW W1, NEW T1, NEW X1, NEW Y1,
           \A s \in Worker : W1[s] \subseteq W[s], T1 \subseteq T,
           \A k \in 1..n : X1[k] \subseteq X[k], \A w \in SimWorker : Y1[w] \subseteq Y[w]
    PROVE  Chain(last, W1, T1, X1, n, Y1)
<1>1. \A s \in Worker : Lt({last}, W1[s]) /\ Lt(W1[s], T1)
  BY LtSmaller DEF Chain
<1>2. \A s \in Worker, k \in 1..n : Lt(W1[s], X1[k])
  BY LtSmaller DEF Chain
<1>3. \A s \in Worker, w \in SimWorker : Lt(W1[s], Y1[w])
  BY LtSmaller DEF Chain
<1>4. Lt({last}, T1)
  BY LtSmaller DEF Chain
<1>5. \A k \in 1..n : Lt(T1, X1[k]) /\ Lt({last}, X1[k])
  BY LtSmaller DEF Chain
<1>6. \A w \in SimWorker : Lt(T1, Y1[w]) /\ Lt({last}, Y1[w])
  BY LtSmaller DEF Chain
<1>7. \A k, l \in 1..n : k < l => Lt(X1[k], X1[l])
  BY LtSmaller DEF Chain
<1>8. \A k \in 1..n, w \in SimWorker : Lt(X1[k], Y1[w])
  BY LtSmaller DEF Chain
<1> QED BY <1>1, <1>2, <1>3, <1>4, <1>5, <1>6, <1>7, <1>8 DEF Chain

(* The first report of the batch goes into a queue.                        *)
LEMMA ChainDispatches ==
    ASSUME NEW last, NEW W, NEW T, NEW X, NEW n, NEW Y, Chain(last, W, T, X, n, Y),
           NEW x, x \in T, NEW T1, T1 \subseteq T, Lt({x}, T1),
           NEW W1, \A s \in Worker : W1[s] \subseteq W[s] \cup {x}
    PROVE  Chain(last, W1, T1, X, n, Y)
<1>0. {x} \subseteq T
  OBVIOUS
<1> DEFINE V == [s \in Worker |-> W[s] \cup {x}]
<1>1. \A s \in Worker : Lt({last}, V[s]) /\ Lt(V[s], T1)
  <2>1. SUFFICES ASSUME NEW s \in Worker PROVE Lt({last}, W[s] \cup {x}) /\ Lt(W[s] \cup {x}, T1)
    OBVIOUS
  <2>2. Lt({last}, W[s]) /\ Lt(W[s], T) /\ Lt({last}, T)
    BY DEF Chain
  <2>3. Lt({last}, {x}) /\ Lt(W[s], T1)
    BY <1>0, <2>2, LtSmaller
  <2> QED BY <2>2, <2>3, LtUnion
<1>2. \A s \in Worker, k \in 1..n : Lt(V[s], X[k])
  <2>1. SUFFICES ASSUME NEW s \in Worker, NEW k \in 1..n PROVE Lt(W[s] \cup {x}, X[k])
    OBVIOUS
  <2>2. Lt(W[s], X[k]) /\ Lt(T, X[k])
    BY DEF Chain
  <2>3. Lt({x}, X[k])
    BY <1>0, <2>2, LtSmaller
  <2> QED BY <2>2, <2>3, LtUnion
<1>3. \A s \in Worker, w \in SimWorker : Lt(V[s], Y[w])
  <2>1. SUFFICES ASSUME NEW s \in Worker, NEW w \in SimWorker PROVE Lt(W[s] \cup {x}, Y[w])
    OBVIOUS
  <2>2. Lt(W[s], Y[w]) /\ Lt(T, Y[w])
    BY DEF Chain
  <2>3. Lt({x}, Y[w])
    BY <1>0, <2>2, LtSmaller
  <2> QED BY <2>2, <2>3, LtUnion
<1> HIDE DEF V
<1>4. Lt({last}, T1)
  BY LtSmaller DEF Chain
<1>5. \A k \in 1..n : Lt(T1, X[k]) /\ Lt({last}, X[k])
  BY LtSmaller DEF Chain
<1>6. \A w \in SimWorker : Lt(T1, Y[w]) /\ Lt({last}, Y[w])
  BY LtSmaller DEF Chain
<1>7. Chain(last, V, T1, X, n, Y)
  BY <1>1, <1>2, <1>3, <1>4, <1>5, <1>6 DEF Chain
<1>8. \A s \in Worker : W1[s] \subseteq V[s]
  BY DEF V
<1> QED BY <1>7, <1>8, ChainShrinks

(* A report is seen, from the only queue with reports of its vessel.       *)
LEMMA ChainSees ==
    ASSUME NEW last, NEW W, NEW T, NEW X, NEW n, NEW Y, Chain(last, W, T, X, n, Y),
           NEW h \in Worker, NEW x, x \in W[h],
           NEW W1, Lt({x}, W1[h]), W1[h] \subseteq W[h], \A s \in Worker : s # h => W1[s] = {}
    PROVE  last < x /\ Chain(x, W1, T, X, n, Y)
<1>1. {x} \subseteq W[h]
  OBVIOUS
<1>2. last < x
  BY DEF Chain, Lt
<1>3. \A s \in Worker : Lt({x}, W1[s]) /\ W1[s] \subseteq W[h] /\ Lt(W1[s], T)
  <2>1. SUFFICES ASSUME NEW s \in Worker PROVE Lt({x}, W1[s]) /\ W1[s] \subseteq W[h]
    BY LtSmaller DEF Chain
  <2> QED BY LtEmpty
<1>4. \A s \in Worker, k \in 1..n : Lt(W1[s], X[k])
  BY <1>3, LtSmaller DEF Chain
<1>5. \A s \in Worker, w \in SimWorker : Lt(W1[s], Y[w])
  BY <1>3, LtSmaller DEF Chain
<1>6. Lt({x}, T)
  BY <1>1, LtSmaller DEF Chain
<1>7. \A k \in 1..n : Lt(T, X[k]) /\ Lt({x}, X[k])
  BY <1>1, LtSmaller DEF Chain
<1>8. \A w \in SimWorker : Lt(T, Y[w]) /\ Lt({x}, Y[w])
  BY <1>1, LtSmaller DEF Chain
<1> QED BY <1>2, <1>3, <1>4, <1>5, <1>6, <1>7, <1>8 DEF Chain

(* The batch of w becomes the last datagram; no other worker has reports   *)
(* of the vessel.                                                          *)
LEMMA ChainWrites ==
    ASSUME NEW last, NEW W, NEW T, NEW X, NEW n \in Nat, NEW Y, Chain(last, W, T, X, n, Y),
           NEW w \in SimWorker, \A v \in SimWorker : v # w => Y[v] = {} \/ Y[w] = {},
           NEW X1, \A k \in 1..n : X1[k] \subseteq X[k], X1[n + 1] \subseteq Y[w],
           NEW Y1, Y1[w] = {}, \A v \in SimWorker : v # w => Y1[v] \subseteq Y[v]
    PROVE  Chain(last, W, T, X1, n + 1, Y1)
<1>0. \A k \in 1..(n + 1) : k \in 1..n \/ k = n + 1
  OBVIOUS
<1>1. \A v \in SimWorker : Y1[v] \subseteq Y[v]
  OBVIOUS
<1>2. \A s \in Worker, k \in 1..(n + 1) : Lt(W[s], X1[k])
  BY <1>0, LtSmaller DEF Chain
<1>3. \A s \in Worker, v \in SimWorker : Lt(W[s], Y1[v])
  BY <1>1, LtSmaller DEF Chain
<1>4. \A k \in 1..(n + 1) : Lt(T, X1[k]) /\ Lt({last}, X1[k])
  BY <1>0, LtSmaller DEF Chain
<1>5. \A v \in SimWorker : Lt(T, Y1[v]) /\ Lt({last}, Y1[v])
  BY <1>1, LtSmaller DEF Chain
<1>6. \A k, l \in 1..(n + 1) : k < l => Lt(X1[k], X1[l])
  <2>1. SUFFICES ASSUME NEW k \in 1..(n + 1), NEW l \in 1..(n + 1), k < l PROVE Lt(X1[k], X1[l])
    OBVIOUS
  <2>2. k \in 1..n
    BY <2>1
  <2>3. CASE l \in 1..n
    BY <2>1, <2>2, <2>3, LtSmaller DEF Chain
  <2>4. CASE l = n + 1
    BY <2>2, <2>4, LtSmaller DEF Chain
  <2> QED BY <1>0, <2>3, <2>4
<1>7. \A k \in 1..(n + 1), v \in SimWorker : Lt(X1[k], Y1[v])
  <2>1. SUFFICES ASSUME NEW k \in 1..(n + 1), NEW v \in SimWorker PROVE Lt(X1[k], Y1[v])
    OBVIOUS
  <2>2. CASE k \in 1..n
    BY <1>1, <2>2, LtSmaller DEF Chain
  <2>3. CASE k = n + 1
    <3>1. Y1[v] = {} \/ X1[k] = {}
      BY <2>3
    <3> QED BY <3>1, LtEmpty
  <2> QED BY <1>0, <2>2, <2>3
<1>8. \A s \in Worker : Lt({last}, W[s]) /\ Lt(W[s], T)
  BY DEF Chain
<1>9. Lt({last}, T)
  BY DEF Chain
<1> QED BY <1>2, <1>3, <1>4, <1>5, <1>6, <1>7, <1>8, <1>9 DEF Chain

(* The j-th datagram is read; those ahead of it have no report of the      *)
(* vessel.                                                                 *)
LEMMA ChainReads ==
    ASSUME NEW last, NEW W, NEW T, NEW X, NEW n \in Nat, NEW Y, Chain(last, W, T, X, n, Y),
           NEW j \in 1..n, \A k \in 1..(j - 1) : X[k] = {},
           NEW X1, \A k \in 1..(n - 1) : X1[k] = IF k < j THEN X[k] ELSE X[k + 1]
    PROVE  Chain(last, W, X[j], X1, n - 1, Y)
<1>1. \A k \in 1..(n - 1) : /\ k < j => X1[k] = {}
                            /\ ~(k < j) => X1[k] = X[k + 1] /\ k + 1 \in 1..n /\ j < k + 1
  OBVIOUS
<1>2. \A s \in Worker : Lt({last}, W[s]) /\ Lt(W[s], X[j])
  BY DEF Chain
<1>3. \A s \in Worker, k \in 1..(n - 1) : Lt(W[s], X1[k])
  BY <1>1, LtEmpty DEF Chain
<1>4. \A k \in 1..(n - 1) : Lt(X[j], X1[k]) /\ Lt({last}, X1[k])
  <2>1. SUFFICES ASSUME NEW k \in 1..(n - 1) PROVE Lt(X[j], X1[k]) /\ Lt({last}, X1[k])
    OBVIOUS
  <2>2. CASE k < j
    BY <1>1, <2>2, LtEmpty
  <2>3. CASE ~(k < j)
    <3>1. X1[k] = X[k + 1] /\ k + 1 \in 1..n /\ j < k + 1
      BY <1>1, <2>3
    <3>2. Lt(X[j], X[k + 1]) /\ Lt({last}, X[k + 1])
      BY <3>1 DEF Chain
    <3> QED BY <3>1, <3>2
  <2> QED BY <2>2, <2>3
<1>5. \A k, l \in 1..(n - 1) : k < l => Lt(X1[k], X1[l])
  <2>1. SUFFICES ASSUME NEW k \in 1..(n - 1), NEW l \in 1..(n - 1), k < l PROVE Lt(X1[k], X1[l])
    OBVIOUS
  <2>2. CASE k < j
    BY <1>1, <2>2, LtEmpty
  <2>3. CASE ~(k < j)
    <3>1. ~(l < j) /\ k + 1 < l + 1
      BY <2>1, <2>3
    <3>2. Lt(X[k + 1], X[l + 1])
      BY <1>1, <2>3, <3>1 DEF Chain
    <3> QED BY <1>1, <2>3, <3>1, <3>2
  <2> QED BY <2>2, <2>3
<1>6. \A k \in 1..(n - 1), w \in SimWorker : Lt(X1[k], Y[w])
  BY <1>1, LtEmpty DEF Chain
<1>7. \A s \in Worker, w \in SimWorker : Lt(W[s], Y[w])
  BY DEF Chain
<1>8. \A w \in SimWorker : Lt(X[j], Y[w]) /\ Lt({last}, Y[w])
  BY DEF Chain
<1>9. Lt({last}, X[j])
  BY DEF Chain
<1> QED BY <1>2, <1>3, <1>4, <1>5, <1>6, <1>7, <1>8, <1>9 DEF Chain

(* New reports.                                                            *)
LEMMA ChainMakes ==
    ASSUME NEW last, NEW W, NEW T, NEW X, NEW n, NEW Y, Chain(last, W, T, X, n, Y),
           NEW w \in SimWorker, NEW Y1, \A v \in SimWorker : v # w => Y1[v] \subseteq Y[v],
           \A s \in Worker : Lt(W[s], Y1[w]), Lt(T, Y1[w]), Lt({last}, Y1[w]),
           \A k \in 1..n : Lt(X[k], Y1[w])
    PROVE  Chain(last, W, T, X, n, Y1)
<1>1. \A v \in SimWorker : v # w => Lt(T, Y1[v]) /\ Lt({last}, Y1[v])
  BY LtSmaller DEF Chain
<1>2. \A s \in Worker, v \in SimWorker : v # w => Lt(W[s], Y1[v])
  BY LtSmaller DEF Chain
<1>3. \A k \in 1..n, v \in SimWorker : v # w => Lt(X[k], Y1[v])
  BY LtSmaller DEF Chain
<1> QED BY <1>1, <1>2, <1>3 DEF Chain

(* The records a datagram is read as.                                      *)
Recs(bytes) ==
    IF UnmarshalBinary(bytes) = {} THEN << >>
    ELSE (CHOOSE b \in UnmarshalBinary(bytes) : TRUE).Records

(* The records on their way are reports, each in the queue of its vessel.  *)
Logged(m, queues, dispatched, datagrams) ==
    /\ \A s \in Worker : Reported(queues[s], m, VesselIndex)
    /\ Reported(dispatched, m, VesselIndex)
    /\ \A k \in 1..Len(datagrams) : Reported(Recs(datagrams[k]), m, VesselIndex)

Sharded(queues) ==
    \A s \in Worker : \A j \in 1..Len(queues[s]) : Hash[queues[s][j].VesselID] = s

(* Every batch has the reports of a vessel in their order.                 *)
AllRising(dispatched, datagrams, batches) ==
    \A i \in VesselIndex :
      /\ Rising(dispatched, i)
      /\ \A k \in 1..Len(datagrams) : Rising(Recs(datagrams[k]), i)
      /\ \A w \in SimWorker : Rising(batches[w].Records, i)

(* The reports of vessel i on their way.                                   *)
Queued(queues, i) == [s \in Worker |-> Values(queues[s], i)]
OnWire(datagrams, i) == [k \in 1..Len(datagrams) |-> Values(Recs(datagrams[k]), i)]
Pending(calls, batches, i) ==
    [w \in SimWorker |-> IF calls[w] = "datagram" THEN Values(batches[w].Records, i) ELSE {}]

(* Those of a vessel without a datagram out of order come in their order.  *)
Coming(i) ==
    /\ \A s \in Worker : Rising(workers[s], i)
    /\ Chain(seen[i], Queued(workers, i), Values(todo, i), OnWire(wire, i), Len(wire),
             Pending(call, batch, i))

SeenMade(last, m) == \A i \in VesselIndex : last[i] \in 0..m[i]

LogInv ==
    /\ SeenMade(seen, made)
    /\ Logged(made, workers, todo, wire)
    /\ Sharded(workers)
    /\ AllRising(todo, wire, batch)
    /\ \A i \in VesselIndex \ disordered : Coming(i)

LEMMA InValues ==
    ASSUME NEW records, NEW i, NEW x
    PROVE  x \in Values(records, i)
           <=> \E j \in 1..Len(records) : Of(i, records[j]) /\ x = records[j].TSUnixMs
BY DEF Values

LEMMA NoValues ==
    \A i : Values(<< >>, i) = {}
<1>1. Len(<< >>) = 0
  BY EmptySeq
<1>2. \A j : j \notin 1..0
  OBVIOUS
<1> QED BY <1>1, <1>2 DEF Values

(* Records of which the first is taken, with another one at the end.       *)
LEMMA TailElements ==
    ASSUME NEW s \in Seq(AISRecord), s # << >>
    PROVE  /\ Tail(s) \in Seq(AISRecord) /\ Len(Tail(s)) \in Nat /\ Len(s) \in Nat
           /\ Len(Tail(s)) = Len(s) - 1
           /\ Head(s) = s[1] /\ 1 \in 1..Len(s)
           /\ \A j \in 1..Len(Tail(s)) : Tail(s)[j] = s[j + 1] /\ j + 1 \in 1..Len(s)
<1>1. /\ Tail(s) \in Seq(AISRecord) /\ Len(Tail(s)) = Len(s) - 1
      /\ \A j \in 1..Len(Tail(s)) : Tail(s)[j] = s[j + 1]
  BY HeadTailProperties
<1>2. Len(Tail(s)) \in Nat /\ Len(s) \in Nat
  BY <1>1, LenProperties
<1>3. Head(s) = s[1]
  OBVIOUS
<1>4. \A j \in 1..Len(Tail(s)) : j + 1 \in 1..Len(s)
  BY <1>1, <1>2
<1>5. 1 \in 1..Len(s)
  BY <1>1, <1>2
<1> QED BY <1>1, <1>2, <1>3, <1>4, <1>5

LEMMA TailReported ==
    ASSUME NEW s \in Seq(AISRecord), s # << >>, NEW m, NEW S, Reported(s, m, S)
    PROVE  Reported(Tail(s), m, S)
<1>1. SUFFICES ASSUME NEW j \in 1..Len(Tail(s))
               PROVE  \E i \in S : \E n \in 1..m[i] : Tail(s)[j] = ReportOf[i][n]
  BY DEF Reported
<1>2. Tail(s)[j] = s[j + 1] /\ j + 1 \in 1..Len(s)
  BY <1>1, TailElements
<1>3. \E i \in S : \E n \in 1..m[i] : s[j + 1] = ReportOf[i][n]
  BY <1>2 DEF Reported
<1> QED BY <1>2, <1>3

LEMMA TailRising ==
    ASSUME NEW s \in Seq(AISRecord), s # << >>, NEW i, Rising(s, i)
    PROVE  Rising(Tail(s), i)
<1>1. SUFFICES ASSUME NEW p \in 1..Len(Tail(s)), NEW q \in 1..Len(Tail(s)), p < q,
                      Of(i, Tail(s)[p]), Of(i, Tail(s)[q])
               PROVE  Tail(s)[p].TSUnixMs < Tail(s)[q].TSUnixMs
  BY DEF Rising
<1>2. /\ Tail(s)[p] = s[p + 1] /\ p + 1 \in 1..Len(s)
      /\ Tail(s)[q] = s[q + 1] /\ q + 1 \in 1..Len(s)
  BY TailElements
<1>3. p + 1 < q + 1
  BY <1>1
<1> QED BY <1>1, <1>2, <1>3 DEF Rising

LEMMA TailValues ==
    ASSUME NEW s \in Seq(AISRecord), s # << >>, NEW i
    PROVE  /\ Values(Tail(s), i) \subseteq Values(s, i)
           /\ Of(i, Head(s)) => Head(s).TSUnixMs \in Values(s, i)
           /\ Rising(s, i) /\ Of(i, Head(s)) => Lt({Head(s).TSUnixMs}, Values(Tail(s), i))
<1>1. ASSUME NEW x \in Values(Tail(s), i)
      PROVE  \E j \in 1..Len(s) : Of(i, s[j]) /\ x = s[j].TSUnixMs /\ 1 < j
  <2>1. PICK j \in 1..Len(Tail(s)) : Of(i, Tail(s)[j]) /\ x = Tail(s)[j].TSUnixMs
    BY <1>1, Zenon DEF Values
  <2>2. Tail(s)[j] = s[j + 1] /\ j + 1 \in 1..Len(s) /\ 1 < j + 1
    BY TailElements
  <2> QED BY <2>1, <2>2
<1>2. Values(Tail(s), i) \subseteq Values(s, i)
  BY <1>1, InValues
<1>3. Of(i, Head(s)) => Head(s).TSUnixMs \in Values(s, i)
  BY TailElements, InValues
<1>4. ASSUME Rising(s, i), Of(i, Head(s)), NEW x \in Values(Tail(s), i) PROVE Head(s).TSUnixMs < x
  <2>1. PICK j \in 1..Len(s) : Of(i, s[j]) /\ x = s[j].TSUnixMs /\ 1 < j
    BY <1>1, <1>4
  <2>2. Head(s) = s[1] /\ 1 \in 1..Len(s)
    BY TailElements
  <2> QED BY <1>4, <2>1, <2>2 DEF Rising
<1> QED BY <1>2, <1>3, <1>4 DEF Lt

LEMMA AppendElements ==
    ASSUME NEW s \in Seq(AISRecord), NEW r \in AISRecord, NEW j \in 1..Len(Append(s, r))
    PROVE  \/ j \in 1..Len(s) /\ Append(s, r)[j] = s[j]
           \/ j = Len(s) + 1 /\ Append(s, r)[j] = r
<1>1. /\ Len(Append(s, r)) = Len(s) + 1
      /\ \A k \in 1..Len(s) : Append(s, r)[k] = s[k]
      /\ Append(s, r)[Len(s) + 1] = r
  BY AppendProperties
<1>2. Len(s) \in Nat
  BY LenProperties
<1>3. j \in 1..Len(s) \/ j = Len(s) + 1
  BY <1>1, <1>2
<1> QED BY <1>1, <1>3

LEMMA AppendReported ==
    ASSUME NEW s \in Seq(AISRecord), NEW r \in AISRecord, NEW m, NEW S, Reported(s, m, S),
           \E i \in S : \E n \in 1..m[i] : r = ReportOf[i][n]
    PROVE  Reported(Append(s, r), m, S)
<1>1. SUFFICES ASSUME NEW j \in 1..Len(Append(s, r))
               PROVE  \E i \in S : \E n \in 1..m[i] : Append(s, r)[j] = ReportOf[i][n]
  BY DEF Reported
<1>2. CASE j \in 1..Len(s) /\ Append(s, r)[j] = s[j]
  BY <1>2 DEF Reported
<1>3. CASE Append(s, r)[j] = r
  BY <1>3
<1> QED BY <1>1, <1>2, <1>3, AppendElements

LEMMA AppendValues ==
    ASSUME NEW s \in Seq(AISRecord), NEW r \in AISRecord, NEW i
    PROVE  /\ Values(Append(s, r), i) \subseteq Values(s, i) \cup {r.TSUnixMs}
           /\ ~Of(i, r) => Values(Append(s, r), i) \subseteq Values(s, i)
<1>1. ASSUME NEW x \in Values(Append(s, r), i)
      PROVE  x \in Values(s, i) \/ (Of(i, r) /\ x = r.TSUnixMs)
  <2>1. PICK j \in 1..Len(Append(s, r)) :
          Of(i, Append(s, r)[j]) /\ x = Append(s, r)[j].TSUnixMs
    BY <1>1, Zenon DEF Values
  <2>2. \/ j \in 1..Len(s) /\ Append(s, r)[j] = s[j]
        \/ j = Len(s) + 1 /\ Append(s, r)[j] = r
    BY AppendElements
  <2> QED BY <2>1, <2>2, InValues
<1> QED BY <1>1

LEMMA AppendRising ==
    ASSUME NEW s \in Seq(AISRecord), NEW r \in AISRecord, NEW i, Rising(s, i),
           Of(i, r) => Lt(Values(s, i), {r.TSUnixMs})
    PROVE  Rising(Append(s, r), i)
<1>1. SUFFICES ASSUME NEW p \in 1..Len(Append(s, r)), NEW q \in 1..Len(Append(s, r)), p < q,
                      Of(i, Append(s, r)[p]), Of(i, Append(s, r)[q])
               PROVE  Append(s, r)[p].TSUnixMs < Append(s, r)[q].TSUnixMs
  BY DEF Rising
<1>2. Len(s) \in Nat /\ Len(Append(s, r)) = Len(s) + 1
  BY LenProperties, AppendProperties
<1>3. p \in 1..Len(s) /\ Append(s, r)[p] = s[p]
  <2>1. p # Len(s) + 1
    BY <1>1, <1>2
  <2> QED BY <2>1, AppendElements
<1>4. CASE q \in 1..Len(s) /\ Append(s, r)[q] = s[q]
  BY <1>1, <1>3, <1>4 DEF Rising
<1>5. CASE Append(s, r)[q] = r
  <2>1. s[p].TSUnixMs \in Values(s, i)
    BY <1>1, <1>3, InValues
  <2> QED BY <1>1, <1>3, <1>5, <2>1 DEF Lt
<1> QED BY <1>4, <1>5, AppendElements

(* What is made of a datagram taken out of their sequence.                 *)
LEMMA RemoveAtElements ==
    ASSUME NEW S, NEW s \in Seq(S), NEW i \in 1..Len(s)
    PROVE  /\ Len(RemoveAt(s, i)) = Len(s) - 1 /\ Len(s) \in Nat
           /\ \A k \in 1..(Len(s) - 1) : RemoveAt(s, i)[k] = IF k < i THEN s[k] ELSE s[k + 1]
<1> DEFINE before == SubSeq(s, 1, i - 1)
           after == SubSeq(s, i + 1, Len(s))
<1>1. Len(s) \in Nat /\ \A k \in 1..Len(s) : s[k] \in S
  BY LenProperties, ElementOfSeq
<1>2. before \in Seq(S) /\ Len(before) = i - 1 /\ \A k \in 1..(i - 1) : before[k] = s[k]
  <2>1. 1 \in Int /\ i - 1 \in Int /\ \A k \in 1..(i - 1) : s[k] \in S
    BY <1>1
  <2>2. /\ SubSeq(s, 1, i - 1) \in Seq(S)
        /\ Len(SubSeq(s, 1, i - 1)) = IF 1 <= i - 1 THEN ((i - 1) - 1) + 1 ELSE 0
        /\ \A k \in 1..(((i - 1) - 1) + 1) : SubSeq(s, 1, i - 1)[k] = s[(1 + k) - 1]
    BY <2>1, SubSeqProperties
  <2> QED BY <1>1, <2>2
<1>3. /\ after \in Seq(S) /\ Len(after) = Len(s) - i
      /\ \A k \in 1..(Len(s) - i) : after[k] = s[i + k]
  <2>1. i + 1 \in Int /\ Len(s) \in Int /\ \A k \in (i + 1)..Len(s) : s[k] \in S
    BY <1>1
  <2>2. /\ SubSeq(s, i + 1, Len(s)) \in Seq(S)
        /\ Len(SubSeq(s, i + 1, Len(s))) = IF i + 1 <= Len(s) THEN (Len(s) - (i + 1)) + 1 ELSE 0
        /\ \A k \in 1..((Len(s) - (i + 1)) + 1) : SubSeq(s, i + 1, Len(s))[k] = s[((i + 1) + k) - 1]
    BY <2>1, SubSeqProperties
  <2> QED BY <1>1, <2>2
<1>4. RemoveAt(s, i) = before \o after
  BY DEF RemoveAt
<1> HIDE DEF before, after
<1>5. /\ Len(before \o after) = Len(before) + Len(after)
      /\ \A k \in 1..(Len(before) + Len(after)) : (before \o after)[k] =
           IF k <= Len(before) THEN before[k] ELSE after[k - Len(before)]
  BY <1>2, <1>3, ConcatProperties
<1>6. Len(before) + Len(after) = Len(s) - 1
  BY <1>1, <1>2, <1>3
<1>7. ASSUME NEW k \in 1..(Len(s) - 1)
      PROVE  (before \o after)[k] = IF k < i THEN s[k] ELSE s[k + 1]
  <2>1. (before \o after)[k] = IF k <= i - 1 THEN before[k] ELSE after[k - (i - 1)]
    BY <1>2, <1>5, <1>6
  <2>2. CASE k < i
    <3>1. k <= i - 1 /\ k \in 1..(i - 1)
      BY <1>1, <2>2
    <3> QED BY <1>2, <2>1, <2>2, <3>1
  <2>3. CASE ~(k < i)
    <3>1. ~(k <= i - 1) /\ k - (i - 1) \in 1..(Len(s) - i) /\ i + (k - (i - 1)) = k + 1
      BY <1>1, <2>3
    <3> QED BY <1>3, <2>1, <2>3, <3>1
  <2> QED BY <2>2, <2>3
<1> QED BY <1>1, <1>4, <1>5, <1>6, <1>7

LEMMA RecsType ==
    ASSUME NEW bytes \in Seq(Byte)
    PROVE  /\ Recs(bytes) \in Seq(AISRecord)
           /\ \A b : UnmarshalBinary(bytes) = {b} => Recs(bytes) = b.Records
           /\ UnmarshalBinary(bytes) # {} =>
                \E b \in UnmarshalBinary(bytes) : Recs(bytes) = b.Records
<1> DEFINE U == UnmarshalBinary(bytes)
<1>1. U \subseteq AISBatch
  BY UnmarshalBinaryType
<1> HIDE DEF U
<1>2. Recs(bytes) = IF U = {} THEN << >> ELSE (CHOOSE b \in U : TRUE).Records
  BY DEF Recs, U
<1>3. U # {} => (CHOOSE b \in U : TRUE) \in U
  BY Zenon
<1>4. U # {} => \E b \in U : Recs(bytes) = b.Records
  BY <1>2, <1>3, Zenon
<1>5. << >> \in Seq(AISRecord) /\ \A b \in AISBatch : b.Records \in Seq(AISRecord)
  BY EmptySeq DEF AISBatch
<1>6. Recs(bytes) \in Seq(AISRecord)
  BY <1>1, <1>2, <1>4, <1>5
<1>7. \A b : U = {b} => Recs(bytes) = b.Records
  BY <1>4
<1> QED BY <1>4, <1>6, <1>7 DEF U

(* The values of reports are the numbers they were made under.             *)
LEMMA ReportedValues ==
    ASSUME NEW m \in [VesselIndex -> Nat], Bounded(m), NEW S \in SUBSET VesselIndex,
           NEW records, Reported(records, m, S), NEW i \in VesselIndex,
           NEW x \in Values(records, i)
    PROVE  i \in S /\ x \in 1..m[i]
<1>1. PICK j \in 1..Len(records) : Of(i, records[j]) /\ x = records[j].TSUnixMs
  BY Zenon DEF Values
<1>2. PICK k \in S : \E n \in 1..m[k] : records[j] = ReportOf[k][n]
  BY DEF Reported
<1>3. PICK n \in 1..m[k] : records[j] = ReportOf[k][n]
  BY <1>2
<1>4. k \in VesselIndex
  BY <1>2
<1>5. IsReport(records[j], k, n)
  BY <1>3, <1>4, ReportedIs
<1>6. k = i /\ x = n
  BY <1>1, <1>5 DEF IsReport
<1> QED BY <1>2, <1>3, <1>6

LEMMA FreshValues ==
    ASSUME NEW m \in [VesselIndex -> Nat], NEW before \in [VesselIndex -> Nat], Bounded(m),
           NEW S \in SUBSET VesselIndex, NEW records, Fresh(records, before, m, S),
           NEW i \in VesselIndex, NEW x \in Values(records, i)
    PROVE  x \in (before[i] + 1)..m[i]
<1>1. PICK j \in 1..Len(records) : Of(i, records[j]) /\ x = records[j].TSUnixMs
  BY Zenon DEF Values
<1>2. PICK k \in S : \E n \in (before[k] + 1)..m[k] : records[j] = ReportOf[k][n]
  BY DEF Fresh
<1>3. PICK n \in (before[k] + 1)..m[k] : records[j] = ReportOf[k][n]
  BY <1>2
<1>4. k \in VesselIndex
  BY <1>2
<1>5. n \in 1..m[k]
  BY <1>3, <1>4
<1>6. IsReport(records[j], k, n)
  BY <1>3, <1>4, <1>5, ReportedIs
<1>7. k = i /\ x = n
  BY <1>1, <1>6 DEF IsReport
<1> QED BY <1>3, <1>7

(* A vessel without a record there has no value there.                     *)
LEMMA ValuesOfVessels ==
    ASSUME NEW records \in Seq(AISRecord), NEW i \in VesselIndex, i \notin VesselsOf(records)
    PROVE  Values(records, i) = {}
<1>1. SUFFICES ASSUME NEW j \in 1..Len(records), Of(i, records[j]) PROVE FALSE
  BY Zenon DEF Values
<1>2. records[j] \in ToSet(records)
  <2>1. DOMAIN records = 1..Len(records)
    BY LenProperties
  <2> QED BY <2>1 DEF ToSet
<1> QED BY <1>1, <1>2 DEF VesselsOf, Of

LEMMA LogInvInit == Init => LogInv
<1> SUFFICES ASSUME Init PROVE LogInv
  OBVIOUS
<1>1. /\ seen = [i \in VesselIndex |-> 0] /\ made = [i \in VesselIndex |-> 0]
      /\ workers = [s \in Worker |-> << >>] /\ todo = << >> /\ wire = << >>
      /\ batch = [w \in SimWorker |-> [Records |-> << >>, BatchSeq |-> 0]]
      /\ call = [w \in SimWorker |-> "none"]
  BY DEF Init, EngineInit, TransportInit, IngestionInit
<1>2. Len(<< >>) = 0 /\ \A j : j \notin 1..0
  BY EmptySeq
<1>3. \A m, S : Reported(<< >>, m, S)
  BY <1>2 DEF Reported
<1>4. \A i : Rising(<< >>, i)
  BY <1>2 DEF Rising
<1>5. Len(wire) = 0 /\ \A k : k \notin 1..Len(wire)
  BY <1>1, <1>2
<1>6. Logged(made, workers, todo, wire)
  BY <1>1, <1>3, <1>5 DEF Logged
<1>7. AllRising(todo, wire, batch)
  BY <1>1, <1>4, <1>5 DEF AllRising
<1>8. Sharded(workers)
  BY <1>1, <1>2 DEF Sharded
<1>9. SeenMade(seen, made)
  BY <1>1 DEF SeenMade
<1>10. ASSUME NEW i \in VesselIndex PROVE Coming(i)
  <2>1. \A s \in Worker : Queued(workers, i)[s] = {}
    BY <1>1, NoValues DEF Queued
  <2>2. Values(todo, i) = {}
    BY <1>1, NoValues
  <2>3. \A w \in SimWorker : Pending(call, batch, i)[w] = {}
    BY <1>1 DEF Pending
  <2>4. \A s \in Worker : Rising(workers[s], i)
    BY <1>1, <1>4
  <2> QED BY <1>5, <2>1, <2>2, <2>3, <2>4, LtEmpty DEF Coming, Chain
<1> QED BY <1>6, <1>7, <1>8, <1>9, <1>10 DEF LogInv

(* A call goes on, or nothing of it is seen.                               *)
LEMMA CallsLog ==
    ASSUME LogInv, seen' = seen, made' = made, workers' = workers, todo' = todo, wire' = wire,
           batch' = batch, disordered' = disordered,
           \A w \in SimWorker : call'[w] = "datagram" => call[w] = "datagram"
    PROVE  LogInv'
<1>1. ASSUME NEW i \in VesselIndex \ disordered PROVE Coming(i)'
  <2>1. Coming(i)
    BY DEF LogInv
  <2>2. \A w \in SimWorker : Pending(call', batch, i)[w] \subseteq Pending(call, batch, i)[w]
    BY DEF Pending
  <2>3. Chain(seen[i], Queued(workers, i), Values(todo, i), OnWire(wire, i), Len(wire),
              Pending(call', batch, i))
    BY <2>1, <2>2, ChainShrinks DEF Coming
  <2> QED BY <2>1, <2>3 DEF Coming
<1> QED BY <1>1 DEF LogInv

LEMMA LogTypes ==
    ASSUME TypeInv
    PROVE  /\ made \in [VesselIndex -> Nat] /\ Bounded(made)
           /\ seen \in [VesselIndex -> Nat \cup {Garbled}] /\ disordered \subseteq VesselIndex
           /\ batch \in [SimWorker -> AISBatch] /\ call \in [SimWorker -> Calls]
           /\ data \in [SimWorker -> Seq(Byte)] /\ wire \in Seq(Seq(Byte))
           /\ todo \in Seq(AISRecord) /\ workers \in [Worker -> Seq(AISRecord)]
           /\ \A w \in SimWorker : batch[w].Records \in Seq(AISRecord)
           /\ \A w \in SimWorker : batch[w] \in AISBatch
<1>1. \A b \in AISBatch : b.Records \in Seq(AISRecord)
  BY DEF AISBatch
<1>2. batch \in [SimWorker -> AISBatch]
  BY DEF TypeInv, RoundOK, EngineTypeOK
<1>3. Bounded(made)
  BY DEF TypeInv, RoundOK, Bounded
<1> QED BY <1>1, <1>2, <1>3 DEF TypeInv, TransportOK, TransportTypeOK, RoundOK, EngineTypeOK, IngestionTypeOK

(* What a worker fills its batch with is newer than all that is on its     *)
(* way.                                                                    *)
LEMMA TickLog ==
    ASSUME TypeInv, TypeInv', LogInv, NEW w \in SimWorker, Tick(w),
           seen' = seen, workers' = workers, todo' = todo, disordered' = disordered
    PROVE  LogInv'
<1>1. /\ RoundOK /\ made \in [VesselIndex -> Nat] /\ Bounded(made)
      /\ made' \in [VesselIndex -> Nat] /\ Bounded(made')
      /\ todo \in Seq(AISRecord) /\ workers \in [Worker -> Seq(AISRecord)]
  BY LogTypes DEF TypeInv, RoundOK, EngineTypeOK, Bounded
<1>2. /\ at[w] = "select" /\ SumFunction(made) < MaxBatches * BatchSize
      /\ made' = Ticked(w) /\ Numbers(w, Fill(w), "send") /\ wire' = wire
  BY SendNextNumbers DEF Tick, Ticked, SendNext, Send
<1>3. /\ Fresh(Fill(w), made, made', Shard(w)) /\ \A i \in VesselIndex : Rising(Fill(w), i)
      /\ \A i \in VesselIndex : made[i] <= made'[i]
  BY <1>1, <1>2, FillIsFresh
<1>4. /\ batch'[w] = [Records |-> Fill(w), BatchSeq |-> batch[w].BatchSeq + 1]
      /\ \A v \in SimWorker : v # w => batch'[v] = batch[v] /\ call'[v] = call[v]
  BY <1>2 DEF Numbers
<1>5. batch'[w].Records = Fill(w)
  BY <1>4
<1>6. VesselIndex \in SUBSET VesselIndex /\ Shard(w) \in SUBSET VesselIndex
  BY VesselsFinite
<1>7. SeenMade(seen, made') /\ SeenMade(seen, made)
  <2>1. \A i \in VesselIndex : 0..made[i] \subseteq 0..made'[i]
    BY <1>1, <1>3
  <2> QED BY <2>1 DEF LogInv, SeenMade
<1>8. Logged(made', workers, todo, wire) /\ Logged(made, workers, todo, wire)
  BY <1>1, <1>3, <1>6, ReportedLater DEF LogInv, Logged
<1>9. AllRising(todo, wire, batch')
  BY <1>3, <1>4, <1>5 DEF LogInv, AllRising
<1>10. ASSUME NEW i \in VesselIndex \ disordered PROVE Coming(i)'
  <2> DEFINE Y == Pending(call, batch, i)
             Y1 == Pending(call', batch', i)
             last == seen[i]
             W == Queued(workers, i)
             T == Values(todo, i)
             X == OnWire(wire, i)
             n == Len(wire)
  <2>1. (\A s \in Worker : Rising(workers[s], i)) /\ Chain(last, W, T, X, n, Y)
    BY DEF LogInv, Coming
  <2>2. \A v \in SimWorker : v # w => Y1[v] \subseteq Y[v]
    BY <1>4 DEF Pending
  <2>3. \A x \in Y1[w] : x \in (made[i] + 1)..made'[i]
    <3>1. Y1[w] \subseteq Values(Fill(w), i)
      BY <1>5 DEF Pending
    <3> QED BY <1>1, <1>3, <1>6, <3>1, FreshValues
  <2>4. made[i] \in Nat
    BY <1>1
  <2>5. ASSUME NEW records, Reported(records, made, VesselIndex)
        PROVE  Lt(Values(records, i), Y1[w])
    <3>1. \A x \in Values(records, i) : x \in 1..made[i]
      BY <1>1, <1>6, <2>5, ReportedValues
    <3> HIDE DEF Y1
    <3> QED BY <2>3, <2>4, <3>1 DEF Lt
  <2>6. \A s \in Worker : Lt(W[s], Y1[w])
    BY <1>8, <2>5 DEF Logged, Queued
  <2>7. Lt(T, Y1[w])
    BY <1>8, <2>5 DEF Logged
  <2>8. Lt({last}, Y1[w])
    <3>1. last \in 0..made[i]
      BY <1>7 DEF SeenMade
    <3> HIDE DEF Y1, last
    <3> QED BY <2>3, <2>4, <3>1 DEF Lt
  <2>9. \A k \in 1..n : Lt(X[k], Y1[w])
    BY <1>8, <2>5 DEF Logged, OnWire
  <2> HIDE DEF Y, Y1, W, T, X, n, last
  <2>10. Chain(last, W, T, X, n, Y1)
    BY <2>1, <2>2, <2>6, <2>7, <2>8, <2>9, ChainMakes
  <2> QED BY <1>2, <2>1, <2>10 DEF Coming, Y1, W, T, X, n, last
<1> QED BY <1>2, <1>7, <1>8, <1>9, <1>10 DEF LogInv

(* A vessel whose records are sent again is out of order from then on.     *)
LEMMA FlushLog ==
    ASSUME TypeInv, LogInv, NEW w \in SimWorker, SendAgain(w)
    PROVE  LogInv'
<1>1. /\ at[w] = "select" /\ made' = made /\ Numbers(w, batch[w].Records, "flush")
      /\ wire' = wire /\ seen' = seen /\ workers' = workers /\ todo' = todo
      /\ disordered' = disordered \cup VesselsOf(batch[w].Records)
  BY SendNextNumbers DEF SendAgain, Flush, SendNext, Send, ingestionVars
<1>2. /\ batch'[w] = [Records |-> batch[w].Records, BatchSeq |-> batch[w].BatchSeq + 1]
      /\ \A v \in SimWorker : v # w => batch'[v] = batch[v] /\ call'[v] = call[v]
  BY <1>1 DEF Numbers
<1>3. batch'[w].Records = batch[w].Records
  BY <1>2
<1>4. AllRising(todo, wire, batch')
  BY <1>2, <1>3 DEF LogInv, AllRising
<1>5. ASSUME NEW i \in VesselIndex, i \notin disordered' PROVE Coming(i)'
  <2>1. Coming(i)
    BY <1>1, <1>5 DEF LogInv
  <2>2. Values(batch[w].Records, i) = {}
    <3>1. batch[w].Records \in Seq(AISRecord) /\ i \notin VesselsOf(batch[w].Records)
      BY <1>1, <1>5, LogTypes
    <3> QED BY <3>1, ValuesOfVessels
  <2>3. \A v \in SimWorker : Pending(call', batch', i)[v] \subseteq Pending(call, batch, i)[v]
    BY <1>2, <1>3, <2>2 DEF Pending
  <2>4. Chain(seen[i], Queued(workers, i), Values(todo, i), OnWire(wire, i), Len(wire),
              Pending(call', batch', i))
    BY <2>1, <2>3, ChainShrinks DEF Coming
  <2> QED BY <1>1, <2>1, <2>4 DEF Coming
<1> QED BY <1>1, <1>4, <1>5 DEF LogInv

(* The datagram that is written holds the records of its batch.            *)
LEMMA WriteLog ==
    ASSUME TypeInv, BatchInv, LogInv, NEW w \in SimWorker, WriteDatagram(w),
           wire' = Append(wire, data[w]), batch' = batch, made' = made,
           seen' = seen, workers' = workers, todo' = todo, disordered' = disordered
    PROVE  LogInv'
<1>1. /\ wire \in Seq(Seq(Byte)) /\ data[w] \in Seq(Byte) /\ Len(wire) \in Nat
      /\ made \in [VesselIndex -> Nat] /\ Bounded(made)
      /\ batch \in [SimWorker -> AISBatch] /\ call \in [SimWorker -> Calls]
  BY LogTypes, LenProperties
<1>2. /\ call[w] = "datagram" /\ call'[w] # "datagram"
      /\ \A v \in SimWorker : v # w => call'[v] = call[v]
  BY <1>1 DEF WriteDatagram, Go
<1>3. Recs(data[w]) = batch[w].Records
  <2>1. data[w] = MarshalBinary(batch[w]) /\ batch[w] \in AISBatch
    BY <1>1, <1>2 DEF BatchInv, Encoded
  <2>2. BatchFits(batch[w])
    BY <1>1, SendingFits DEF BatchInv
  <2>3. Decodes(data[w], batch[w])
    BY <2>1, <2>2, BatchDecodes
  <2> QED BY <1>1, <2>3, RecsType DEF Decodes
<1>4. /\ Len(wire') = Len(wire) + 1 /\ \A k \in 1..Len(wire) : wire'[k] = wire[k]
      /\ wire'[Len(wire) + 1] = data[w]
  BY <1>1, AppendProperties
<1>5. \A k \in 1..Len(wire') : k \in 1..Len(wire) \/ k = Len(wire) + 1
  BY <1>1, <1>4
<1>6. \A v \in SimWorker : Reported(batch[v].Records, made, Shard(v))
  BY DEF BatchInv, BatchesReported
<1>7. \A v \in SimWorker : Shard(v) \in SUBSET VesselIndex
  BY VesselsFinite
<1>8. Logged(made, workers, todo, wire')
  <2>1. Reported(batch[w].Records, made, VesselIndex)
    BY <1>6, <1>7 DEF Reported
  <2>2. ASSUME NEW k \in 1..Len(wire') PROVE Reported(Recs(wire'[k]), made, VesselIndex)
    BY <1>3, <1>4, <1>5, <2>1 DEF LogInv, Logged
  <2> QED BY <2>2 DEF LogInv, Logged
<1>9. AllRising(todo, wire', batch)
  <2>1. ASSUME NEW i \in VesselIndex, NEW k \in 1..Len(wire') PROVE Rising(Recs(wire'[k]), i)
    BY <1>3, <1>4, <1>5 DEF LogInv, AllRising
  <2> QED BY <2>1 DEF LogInv, AllRising
<1>10. ASSUME NEW i \in VesselIndex \ disordered PROVE Coming(i)'
  <2> DEFINE Y == Pending(call, batch, i)
             Y1 == Pending(call', batch, i)
             W == Queued(workers, i)
             T == Values(todo, i)
             X == OnWire(wire, i)
             X1 == OnWire(wire', i)
             n == Len(wire)
  <2>1. (\A s \in Worker : Rising(workers[s], i)) /\ Chain(seen[i], W, T, X, n, Y)
    BY DEF LogInv, Coming
  <2>2. ASSUME NEW v \in SimWorker, v # w PROVE Y[v] = {} \/ Y[w] = {}
    <3>1. \A u \in SimWorker : \A x \in Y[u] : i \in Shard(u)
      <4>1. \A u \in SimWorker : Y[u] \subseteq Values(batch[u].Records, i)
        BY DEF Pending
      <4> HIDE DEF Y
      <4> QED BY <1>1, <1>6, <1>7, <4>1, ReportedValues
    <3>2. ~(i \in Shard(v) /\ i \in Shard(w))
      BY <2>2 DEF Shard
    <3> HIDE DEF Y
    <3> QED BY <3>1, <3>2
  <2>3. Y1[w] = {} /\ \A v \in SimWorker : v # w => Y1[v] \subseteq Y[v]
    BY <1>2 DEF Pending
  <2>4. \A k \in 1..n : X1[k] \subseteq X[k]
    BY <1>4, <1>5 DEF OnWire
  <2>5. X1[n + 1] \subseteq Y[w]
    <3>1. n + 1 \in 1..Len(wire')
      BY <1>1, <1>4
    <3> QED BY <1>2, <1>3, <1>4, <3>1 DEF OnWire, Pending
  <2>6. n \in Nat /\ Len(wire') = n + 1
    BY <1>1, <1>4
  <2> HIDE DEF Y, Y1, W, T, X, X1, n
  <2>7. Chain(seen[i], W, T, X1, n + 1, Y1)
    BY <2>1, <2>2, <2>3, <2>4, <2>5, <2>6, ChainWrites
  <2> QED BY <2>1, <2>6, <2>7 DEF Coming, Y1, W, T, X1
<1> QED BY <1>8, <1>9, <1>10 DEF LogInv

(* A datagram is read while no batch is dispatched; the vessels of those   *)
(* it overtakes are out of order from then on.                             *)
LEMMA DeliverLog ==
    ASSUME TypeInv, LogInv, NEW j \in 1..Len(wire), Deliver(j)
    PROVE  LogInv'
<1>1. /\ wire \in Seq(Seq(Byte)) /\ Len(wire) \in Nat
      /\ \A k \in 1..Len(wire) : wire[k] \in Seq(Byte)
  BY LogTypes, LenProperties, ElementOfSeq
<1>2. /\ todo = << >> /\ wire' = RemoveAt(wire, j)
      /\ disordered' = disordered \cup
           UNION {UNION {VesselsOf(b.Records) : b \in UnmarshalBinary(wire[k])} : k \in 1..(j - 1)}
      /\ call' = call /\ made' = made /\ batch' = batch /\ workers' = workers /\ seen' = seen
  BY DEF Deliver, Read, engineVars
<1>3. todo' = Recs(wire[j])
  BY DEF Deliver, Read, Recs
<1>4. /\ Len(wire') = Len(wire) - 1
      /\ \A k \in 1..(Len(wire) - 1) : wire'[k] = IF k < j THEN wire[k] ELSE wire[k + 1]
  BY <1>1, <1>2, RemoveAtElements
<1>5. ASSUME NEW k \in 1..Len(wire') PROVE \E l \in 1..Len(wire) : wire'[k] = wire[l]
  <2>1. k \in 1..(Len(wire) - 1) /\ k \in 1..Len(wire) /\ k + 1 \in 1..Len(wire)
    BY <1>1, <1>4
  <2> QED BY <1>4, <2>1
<1>6. Logged(made, workers, todo', wire')
  BY <1>3, <1>5 DEF LogInv, Logged
<1>7. AllRising(todo', wire', batch)
  <2>1. \A i \in VesselIndex : Rising(todo', i)
    BY <1>3 DEF LogInv, AllRising
  <2>2. \A i \in VesselIndex : \A k \in 1..Len(wire') : Rising(Recs(wire'[k]), i)
    BY <1>5 DEF LogInv, AllRising
  <2> QED BY <2>1, <2>2 DEF LogInv, AllRising
<1>8. ASSUME NEW i \in VesselIndex, i \notin disordered' PROVE Coming(i)'
  <2> DEFINE Y == Pending(call, batch, i)
             W == Queued(workers, i)
             T == Values(todo, i)
             X == OnWire(wire, i)
             X1 == OnWire(wire', i)
             n == Len(wire)
  <2>1. (\A s \in Worker : Rising(workers[s], i)) /\ Chain(seen[i], W, T, X, n, Y)
    BY <1>2, <1>8 DEF LogInv, Coming
  <2>2. ASSUME NEW k \in 1..(j - 1) PROVE X[k] = {}
    <3>1. k \in 1..Len(wire)
      BY <1>1
    <3>2. wire[k] \in Seq(Byte)
      BY <1>1, <3>1
    <3>3. Recs(wire[k]) \in Seq(AISRecord)
      BY <3>2, RecsType
    <3>4. CASE UnmarshalBinary(wire[k]) = {}
      <4>1. Recs(wire[k]) = << >>
        BY <3>4 DEF Recs
      <4> QED BY <3>1, <4>1, NoValues DEF OnWire
    <3>5. CASE UnmarshalBinary(wire[k]) # {}
      <4>1. PICK b \in UnmarshalBinary(wire[k]) : Recs(wire[k]) = b.Records
        BY <3>2, <3>5, RecsType
      <4>2. i \notin VesselsOf(b.Records)
        BY <1>2, <1>8, <4>1
      <4>3. Values(Recs(wire[k]), i) = {}
        BY <3>3, <4>1, <4>2, ValuesOfVessels
      <4> QED BY <3>1, <4>3 DEF OnWire
    <3> QED BY <3>4, <3>5
  <2>3. \A k \in 1..(n - 1) : X1[k] = IF k < j THEN X[k] ELSE X[k + 1]
    <3>1. SUFFICES ASSUME NEW k \in 1..(n - 1) PROVE X1[k] = IF k < j THEN X[k] ELSE X[k + 1]
      OBVIOUS
    <3>2. k \in 1..Len(wire') /\ k \in 1..Len(wire) /\ k + 1 \in 1..Len(wire)
      BY <1>1, <1>4
    <3> QED BY <1>4, <3>2 DEF OnWire
  <2>4. n \in Nat /\ Len(wire') = n - 1 /\ j \in 1..n
    BY <1>1, <1>4
  <2>5. X[j] = Values(todo', i)
    BY <1>3 DEF OnWire
  <2> HIDE DEF Y, W, T, X, X1, n
  <2>6. Chain(seen[i], W, X[j], X1, n - 1, Y)
    BY <2>1, <2>2, <2>3, <2>4, ChainReads
  <2> QED BY <1>2, <2>1, <2>4, <2>5, <2>6 DEF Coming, Y, W, X1
<1> QED BY <1>2, <1>6, <1>7, <1>8 DEF LogInv

(* The next record of the batch goes into the queue of its vessel, behind  *)
(* all that was seen and queued before it, or is dropped.                  *)
LEMMA DispatchLog ==
    ASSUME TypeInv, LogInv, Dispatch,
           seen' = seen, made' = made, wire' = wire, call' = call, batch' = batch,
           disordered' = disordered
    PROVE  LogInv'
<1> DEFINE r == Head(todo)
           h == Hash[r.VesselID]
<1>1. todo \in Seq(AISRecord) /\ todo # << >> /\ workers \in [Worker -> Seq(AISRecord)]
      /\ todo' = Tail(todo)
  BY LogTypes DEF Dispatch
<1>2. workers' = workers \/ workers' = [workers EXCEPT ![h] = Append(workers[h], r)]
  BY DEF Dispatch, Offer
<1>3. r \in AISRecord /\ \E i \in VesselIndex : \E k \in 1..made[i] : r = ReportOf[i][k]
  <2>1. r \in AISRecord /\ r = todo[1] /\ 1 \in 1..Len(todo)
    BY <1>1, HeadTailProperties, TailElements
  <2>2. Reported(todo, made, VesselIndex)
    BY DEF LogInv, Logged
  <2> HIDE DEF r
  <2> QED BY <2>1, <2>2 DEF Reported
<1>4. h = Hash[r.VesselID]
  OBVIOUS
<1>5. \A i : Of(i, r) => r.TSUnixMs \in Values(todo, i)
  BY <1>1, TailValues
<1>6. \A i : Rising(todo, i) /\ Of(i, r) => Lt({r.TSUnixMs}, Values(Tail(todo), i))
  BY <1>1, TailValues
<1> HIDE DEF r, h
<1>7. \A s \in Worker : \/ workers'[s] = workers[s]
                        \/ s = h /\ workers'[s] = Append(workers[s], r)
  BY <1>1, <1>2
<1>8. \A s \in Worker : workers[s] \in Seq(AISRecord)
  BY <1>1
<1>9. Logged(made, workers', todo', wire)
  <2>1. Logged(made, workers, todo, wire)
    BY DEF LogInv
  <2>2. Reported(todo', made, VesselIndex)
    BY <1>1, <2>1, TailReported DEF Logged
  <2>3. ASSUME NEW s \in Worker PROVE Reported(workers'[s], made, VesselIndex)
    <3>1. Reported(workers[s], made, VesselIndex)
      BY <2>1 DEF Logged
    <3>2. Reported(Append(workers[s], r), made, VesselIndex)
      BY <1>3, <1>8, <3>1, AppendReported
    <3> QED BY <1>7, <3>1, <3>2
  <2> QED BY <2>1, <2>2, <2>3 DEF Logged
<1>10. Sharded(workers')
  <2>1. SUFFICES ASSUME NEW s \in Worker, NEW j \in 1..Len(workers'[s])
                 PROVE  Hash[workers'[s][j].VesselID] = s
    BY DEF Sharded
  <2>2. CASE workers'[s] = workers[s]
    BY <2>1, <2>2 DEF LogInv, Sharded
  <2>3. CASE s = h /\ workers'[s] = Append(workers[s], r)
    <3>1. \/ j \in 1..Len(workers[s]) /\ workers'[s][j] = workers[s][j]
          \/ workers'[s][j] = r
      BY <1>3, <1>8, <2>1, <2>3, AppendElements
    <3> QED BY <1>4, <2>3, <3>1 DEF LogInv, Sharded
  <2> QED BY <1>7, <2>2, <2>3
<1>11. AllRising(todo', wire, batch)
  BY <1>1, TailRising DEF LogInv, AllRising
<1>12. ASSUME NEW i \in VesselIndex \ disordered PROVE Coming(i)'
  <2> DEFINE Y == Pending(call, batch, i)
             W == Queued(workers, i)
             W1 == Queued(workers', i)
             T == Values(todo, i)
             T1 == Values(todo', i)
             X == OnWire(wire, i)
             n == Len(wire)
             x == r.TSUnixMs
  <2>1. (\A s \in Worker : Rising(workers[s], i)) /\ Chain(seen[i], W, T, X, n, Y)
    BY DEF LogInv, Coming
  <2>2. T1 \subseteq T
    BY <1>1, TailValues
  <2>3. \A s \in Worker : W1[s] = Values(workers'[s], i) /\ W[s] = Values(workers[s], i)
    BY DEF Queued
  <2>4. ASSUME NEW s \in Worker PROVE Rising(workers'[s], i)
    <3>1. Of(i, r) => Lt(Values(workers[s], i), {x})
      <4>1. ASSUME Of(i, r) PROVE x \in T /\ Lt(W[s], T)
        BY <1>5, <2>1, <4>1 DEF Chain
      <4> HIDE DEF W, T, x
      <4> QED BY <2>3, <4>1 DEF Lt
    <3>2. Rising(Append(workers[s], r), i)
      BY <1>3, <1>8, <2>1, <3>1, AppendRising
    <3> QED BY <1>7, <2>1, <3>2
  <2>5. Chain(seen[i], W1, T1, X, n, Y)
    <3>1. CASE Of(i, r)
      <4>1. x \in T /\ Lt({x}, T1)
        BY <1>1, <1>5, <1>6, <3>1 DEF LogInv, AllRising
      <4>2. ASSUME NEW s \in Worker PROVE W1[s] \subseteq W[s] \cup {x}
        <5>1. Values(Append(workers[s], r), i) \subseteq Values(workers[s], i) \cup {x}
          BY <1>3, <1>8, AppendValues
        <5>2. W1[s] = Values(workers'[s], i) /\ W[s] = Values(workers[s], i)
          BY <2>3
        <5> HIDE DEF W, W1, x
        <5> QED BY <1>7, <5>1, <5>2
      <4> HIDE DEF Y, W, W1, T, T1, X, n, x
      <4> QED BY <2>1, <2>2, <4>1, <4>2, ChainDispatches
    <3>2. CASE ~Of(i, r)
      <4>1. ASSUME NEW s \in Worker PROVE W1[s] \subseteq W[s]
        <5>1. Values(Append(workers[s], r), i) \subseteq Values(workers[s], i)
          BY <1>3, <1>8, <3>2, AppendValues
        <5>2. W1[s] = Values(workers'[s], i) /\ W[s] = Values(workers[s], i)
          BY <2>3
        <5> HIDE DEF W, W1
        <5> QED BY <1>7, <5>1, <5>2
      <4> HIDE DEF Y, W, W1, T, T1, X, n, x
      <4> QED BY <2>1, <2>2, <4>1, ChainShrinks
    <3> QED BY <3>1, <3>2
  <2> QED BY <2>4, <2>5 DEF Coming
<1> QED BY <1>9, <1>10, <1>11, <1>12 DEF LogInv

(* What a worker takes: a report, at its time.                             *)
Sees(i, s) ==
    /\ Of(i, Head(workers[s]))
    /\ Head(workers[s]).TSUnixMs \in 1..made[i]
    /\ seen' = [seen EXCEPT ![i] = Head(workers[s]).TSUnixMs]

LEMMA ClassifySees ==
    ASSUME TypeInv, LogInv, NEW s \in Worker, Classify(s)
    PROVE  \E i \in VesselIndex : Sees(i, s)
<1> DEFINE r == Head(workers[s])
<1>1. workers[s] \in Seq(AISRecord) /\ workers[s] # << >>
      /\ made \in [VesselIndex -> Nat] /\ Bounded(made)
  BY LogTypes DEF Classify, Take
<1>2. PICK i \in VesselIndex :
        /\ r.VesselID = ReportOf[i][1].VesselID
        /\ seen' = [seen EXCEPT ![i] = IF r \in Made THEN r.TSUnixMs ELSE Garbled]
  BY DEF Classify
<1>3. r = workers[s][1] /\ 1 \in 1..Len(workers[s])
  BY <1>1, TailElements
<1>4. Reported(workers[s], made, VesselIndex)
  BY DEF LogInv, Logged
<1> HIDE DEF r
<1>5. PICK j \in VesselIndex : \E k \in 1..made[j] : r = ReportOf[j][k]
  BY <1>3, <1>4 DEF Reported
<1>6. PICK k \in 1..made[j] : r = ReportOf[j][k]
  BY <1>5
<1>7. IsReport(r, j, k)
  BY <1>1, <1>6, ReportedIs
<1>8. Of(i, r)
  BY <1>2 DEF Of
<1>9. i = j /\ r.TSUnixMs = k
  BY <1>7, <1>8 DEF IsReport
<1>10. r \in Made
  BY <1>6 DEF Made
<1>11. seen' = [seen EXCEPT ![i] = r.TSUnixMs]
  BY <1>2, <1>10, Zenon
<1>12. r.TSUnixMs \in 1..made[i]
  BY <1>9
<1> QED BY <1>8, <1>11, <1>12 DEF Sees, r

(* The first of a queue is seen; no other queue has records of its vessel. *)
LEMMA ClassifyLog ==
    ASSUME TypeInv, LogInv, NEW s \in Worker, Classify(s), NEW i \in VesselIndex, Sees(i, s)
    PROVE  LogInv' /\ (i \notin disordered => seen[i] < seen'[i])
<1> DEFINE r == Head(workers[s])
           x == r.TSUnixMs
<1>1. /\ workers \in [Worker -> Seq(AISRecord)] /\ workers[s] # << >>
      /\ workers[s] \in Seq(AISRecord) /\ made \in [VesselIndex -> Nat]
      /\ seen \in [VesselIndex -> Nat \cup {Garbled}]
      /\ workers' = [workers EXCEPT ![s] = Tail(workers[s])]
      /\ todo' = todo /\ wire' = wire /\ call' = call /\ batch' = batch /\ made' = made
      /\ disordered' = disordered
  BY LogTypes DEF Classify, Take, transportVars, engineVars
<1>2. Of(i, r) /\ x \in 1..made[i] /\ seen' = [seen EXCEPT ![i] = x]
  BY DEF Sees
<1>3. /\ workers'[s] = Tail(workers[s])
      /\ \A t \in Worker : t # s => workers'[t] = workers[t]
  BY <1>1
<1>4. x \in Values(workers[s], i)
      /\ (Rising(workers[s], i) => Lt({x}, Values(Tail(workers[s]), i)))
  BY <1>1, <1>2, TailValues
<1>5. Hash[r.VesselID] = s
  <2>1. r = workers[s][1] /\ 1 \in 1..Len(workers[s])
    BY <1>1, TailElements
  <2> QED BY <2>1 DEF LogInv, Sharded
<1> HIDE DEF r, x
<1>6. seen'[i] = x /\ \A v \in VesselIndex : v # i => seen'[v] = seen[v]
  BY <1>1, <1>2
<1>7. SeenMade(seen', made)
  <2>1. x \in 0..made[i]
    BY <1>1, <1>2
  <2> QED BY <1>6, <2>1 DEF LogInv, SeenMade
<1>8. Logged(made, workers', todo, wire)
  BY <1>1, <1>3, TailReported DEF LogInv, Logged
<1>9. Sharded(workers')
  <2>1. SUFFICES ASSUME NEW t \in Worker, NEW j \in 1..Len(workers'[t])
                 PROVE  Hash[workers'[t][j].VesselID] = t
    BY DEF Sharded
  <2>2. CASE t = s
    <3>1. j \in 1..Len(Tail(workers[s]))
      BY <1>3, <2>1, <2>2
    <3>2. Tail(workers[s])[j] = workers[s][j + 1] /\ j + 1 \in 1..Len(workers[s])
      BY <1>1, <3>1, TailElements
    <3>3. Hash[workers[s][j + 1].VesselID] = s
      BY <3>2 DEF LogInv, Sharded
    <3>4. workers'[t][j] = workers[s][j + 1]
      BY <1>3, <2>2, <3>2, Zenon
    <3> QED BY <2>2, <3>3, <3>4
  <2>3. CASE t # s
    BY <1>3, <2>1, <2>3 DEF LogInv, Sharded
  <2> QED BY <2>2, <2>3
<1>10. ASSUME NEW v \in VesselIndex \ disordered
       PROVE  Coming(v)' /\ (v = i => seen[i] < x)
  <2> DEFINE Y == Pending(call, batch, v)
             W == Queued(workers, v)
             W1 == Queued(workers', v)
             T == Values(todo, v)
             X == OnWire(wire, v)
             n == Len(wire)
  <2>1. (\A t \in Worker : Rising(workers[t], v)) /\ Chain(seen[v], W, T, X, n, Y)
    BY DEF LogInv, Coming
  <2>2. \A t \in Worker : Rising(workers'[t], v)
    <3>1. Rising(Tail(workers[s]), v)
      BY <1>1, <2>1, TailRising
    <3> QED BY <1>3, <2>1, <3>1
  <2>3. \A t \in Worker : W1[t] = Values(workers'[t], v) /\ W[t] = Values(workers[t], v)
    BY DEF Queued
  <2>4. Values(Tail(workers[s]), v) \subseteq Values(workers[s], v)
    BY <1>1, TailValues
  <2>5. \A t \in Worker : W1[t] \subseteq W[t]
    <3>1. \A t \in Worker : Values(workers'[t], v) \subseteq Values(workers[t], v)
      BY <1>3, <2>4
    <3> QED BY <2>3, <3>1
  <2>6. CASE v = i
    <3>1. ASSUME NEW t \in Worker, t # s PROVE W1[t] = {}
      <4>1. SUFFICES ASSUME NEW j \in 1..Len(workers[t]), Of(i, workers[t][j]) PROVE FALSE
        <5>1. Values(workers[t], i) = {}
          BY <4>1, Zenon DEF Values
        <5> QED BY <1>3, <2>3, <2>6, <3>1, <5>1
      <4>2. workers[t][j].VesselID = r.VesselID
        BY <1>2, <4>1 DEF Of
      <4>3. Hash[workers[t][j].VesselID] = t
        BY DEF LogInv, Sharded
      <4> QED BY <1>5, <3>1, <4>2, <4>3
    <3>2. x \in W[s] /\ Lt({x}, W1[s]) /\ W1[s] \subseteq W[s]
      BY <1>3, <1>4, <2>1, <2>3, <2>5, <2>6
    <3> HIDE DEF Y, W, W1, T, X, n
    <3>3. seen[v] < x /\ Chain(x, W1, T, X, n, Y)
      BY <2>1, <3>1, <3>2, ChainSees
    <3>4. seen'[v] = x
      BY <1>6, <2>6
    <3> QED BY <1>1, <2>2, <2>6, <3>3, <3>4 DEF Coming, Y, W1, T, X, n
  <2>7. CASE v # i
    <3> HIDE DEF Y, W, W1, T, X, n
    <3>1. Chain(seen[v], W1, T, X, n, Y)
      BY <2>1, <2>5, ChainShrinks
    <3>2. seen'[v] = seen[v]
      BY <1>6, <2>7
    <3> QED BY <1>1, <2>2, <2>7, <3>1, <3>2 DEF Coming, Y, W1, T, X, n
  <2> QED BY <2>6, <2>7
<1>11. AllRising(todo, wire, batch)
  BY DEF LogInv
<1> QED BY <1>1, <1>6, <1>7, <1>8, <1>9, <1>10, <1>11 DEF LogInv

(* Every step keeps the invariant and is one of the log, or none.          *)
LEMMA LogStep ==
    ASSUME TypeInv, TypeInv', BatchInv, LogInv, [Next]_vars
    PROVE  LogInv' /\ (Log!Next \/ (made' = made /\ seen' = seen /\ disordered' = disordered))
<1> DEFINE Same == made' = made /\ seen' = seen /\ disordered' = disordered
           Good == LogInv' /\ (Log!Next \/ Same)
<1>1. /\ made \in [VesselIndex -> Nat] /\ made' \in [VesselIndex -> Nat]
      /\ seen \in [VesselIndex -> Nat \cup {Garbled}]
      /\ disordered \subseteq VesselIndex /\ disordered' \subseteq VesselIndex
      /\ call \in [SimWorker -> Calls]
  BY LogTypes DEF TypeInv, RoundOK, EngineTypeOK
<1>2. ASSUME NEW w \in SimWorker, SendStep(w) \/ Lock(w), UNCHANGED engineVars,
             UNCHANGED <<ingestionVars, seen, disordered>>
      PROVE  Good
  <2>1. /\ made' = made /\ batch' = batch /\ workers' = workers /\ todo' = todo
        /\ seen' = seen /\ disordered' = disordered
    BY <1>2 DEF engineVars, ingestionVars
  <2>2. CASE WriteDatagram(w) /\ wire' = Append(wire, data[w])
    BY <2>1, <2>2, WriteLog
  <2>3. CASE wire' = wire
    <3>1. \A v \in SimWorker : call'[v] = "datagram" => call[v] = "datagram"
      BY <1>1, <1>2 DEF SendStep, WriteDatagram, WriteLength, WriteData, WriteFails, Lock, Go
    <3> QED BY <2>1, <2>3, <3>1, CallsLog
  <2>4. \/ WriteDatagram(w) /\ wire' = Append(wire, data[w])
        \/ wire' = wire
    BY <1>2 DEF SendStep, WriteDatagram, WriteLength, WriteData, WriteFails, Lock
  <2> QED BY <2>2, <2>3, <2>4
<1>3. ASSUME seen' = seen, made' = made, workers' = workers, todo' = todo, wire' = wire,
             batch' = batch, disordered' = disordered, call' = call
      PROVE  Good
  BY <1>3, CallsLog
<1>4. CASE Simulate
  <2>1. UNCHANGED <<ingestionVars, seen, disordered>>
    BY <1>4 DEF Simulate
  <2>2. workers' = workers /\ todo' = todo /\ seen' = seen /\ disordered' = disordered
    BY <2>1 DEF ingestionVars
  <2>3. ASSUME NEW w \in SimWorker, Tick(w) PROVE Good
    <3>1. LogInv'
      BY <2>2, <2>3, TickLog
    <3>2. \A i \in VesselIndex : made'[i] >= made[i]
      <4>1. RoundOK /\ at[w] = "select" /\ SumFunction(made) < MaxBatches * BatchSize
            /\ made' = Ticked(w)
        BY <2>3 DEF TypeInv, Tick, Ticked
      <4>2. \A i \in VesselIndex : made[i] <= Ticked(w)[i]
        BY <4>1, FillIsFresh
      <4> QED BY <1>1, <4>1, <4>2
    <3>3. Log!Make
      BY <1>1, <2>2, <3>2 DEF Log!Make
    <3> QED BY <3>1, <3>3 DEF Log!Next
  <2>4. ASSUME NEW w \in SimWorker, Count(w) PROVE Good
    <3>1. /\ made' = made /\ batch' = batch /\ wire' = wire
          /\ call' = [call EXCEPT ![w] = "none"]
      BY <2>4 DEF Count, Return
    <3>2. \A v \in SimWorker : call'[v] = "datagram" => call[v] = "datagram"
      BY <1>1, <3>1
    <3> QED BY <2>2, <3>1, <3>2, CallsLog
  <2>5. ASSUME NEW w \in SimWorker, Quit(w) PROVE Good
    BY <1>3, <2>2, <2>5 DEF Quit, transportVars
  <2>6. ASSUME NEW w \in SimWorker, SimWorkerStep(w) PROVE Good
    BY <1>2, <2>1, <2>3, <2>4, <2>5, <2>6 DEF SimWorkerStep, FinishSend
  <2>7. ASSUME CancelSimulator PROVE Good
    BY <1>3, <2>2, <2>7 DEF CancelSimulator, transportVars
  <2> QED BY <1>4, <2>6, <2>7 DEF Simulate
<1>5. ASSUME NEW w \in SimWorker, SendAgain(w) PROVE Good
  <2>1. made' = made /\ seen' = seen /\ disordered \subseteq disordered'
    BY <1>5 DEF SendAgain, Flush
  <2>2. Log!Disorder
    BY <1>1, <2>1 DEF Log!Disorder
  <2> QED BY <1>5, <2>2, FlushLog DEF Log!Next
<1>6. ASSUME NEW j \in 1..Len(wire), Deliver(j) PROVE Good
  <2>1. made' = made /\ seen' = seen /\ disordered \subseteq disordered'
    BY <1>6 DEF Deliver, engineVars
  <2>2. Log!Disorder
    BY <1>1, <2>1 DEF Log!Disorder
  <2> QED BY <1>6, <2>2, DeliverLog DEF Log!Next
<1>7. CASE Ingest
  <2>1. /\ seen' = seen /\ made' = made /\ wire' = wire /\ call' = call /\ batch' = batch
        /\ disordered' = disordered
    BY <1>7 DEF Ingest, transportVars, engineVars
  <2>2. CASE Dispatch
    BY <2>1, <2>2, DispatchLog
  <2>3. CASE CloseSocket \/ ReturnNil \/ CancelEngine
    BY <1>3, <2>1, <2>3 DEF CloseSocket, ReturnNil, CancelEngine
  <2> QED BY <1>7, <2>2, <2>3 DEF Ingest, IngestionStep
<1>8. ASSUME NEW s \in Worker, Classify(s) PROVE Good
  <2>1. PICK i \in VesselIndex : Sees(i, s)
    BY <1>8, ClassifySees
  <2>2. LogInv' /\ (i \notin disordered => seen[i] < seen'[i])
    BY <1>8, <2>1, ClassifyLog
  <2>3. made' = made /\ disordered' = disordered
    BY <1>8 DEF Classify, engineVars
  <2> DEFINE n == Head(workers[s]).TSUnixMs
  <2>4. n \in 1..made[i] /\ seen' = [seen EXCEPT ![i] = n]
    BY <2>1 DEF Sees
  <2> HIDE DEF n
  <2>5. seen'[i] = n /\ seen[i] \in Int /\ n \in Int
    BY <1>1, <2>4 DEF Garbled
  <2>6. n > seen[i] \/ i \in disordered
    BY <2>2, <2>5
  <2>7. Log!See(i)
    BY <2>3, <2>4, <2>6 DEF Log!See
  <2> QED BY <2>2, <2>7 DEF Log!Next
<1>9. CASE UNCHANGED vars
  BY <1>3, <1>9 DEF vars, transportVars, engineVars, ingestionVars
<1> QED BY <1>4, <1>5, <1>6, <1>7, <1>8, <1>9 DEF Next

LEMMA LogInvHolds == Spec => []LogInv
<1>1. TypeInv /\ TypeInv' /\ BatchInv /\ LogInv /\ [Next]_vars => LogInv'
  BY LogStep
<1> QED BY <1>1, LogInvInit, TypeInvHolds, BatchInvHolds, PTL DEF Spec

(* The feed implements the position log: a classification worker takes     *)
(* only reports that were made, as they were made, and those of one vessel *)
(* in their order, unless a datagram of it was overtaken or sent again     *)
(* (engine.go 113-185, ingestion.go 60-104).                               *)
THEOREM ImplementsPositionLogHolds == Spec => ImplementsPositionLog
<1>1. Init => Log!Init
  BY DEF Init, EngineInit, Log!Init
<1>2. TypeInv /\ TypeInv' /\ BatchInv /\ LogInv /\ [Next]_vars
        => [Log!Next]_<<made, seen, disordered>>
  BY LogStep
<1> QED BY <1>1, <1>2, TypeInvHolds, BatchInvHolds, LogInvHolds, PTL
        DEF Spec, ImplementsPositionLog, Log!Spec
=============================================================================
