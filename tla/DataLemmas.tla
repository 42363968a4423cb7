----------------------------- MODULE DataLemmas -----------------------------
(***************************************************************************)
(* Lemmas that the proofs share: about numbers, finite sets and sums, and  *)
(* about what an allocation and a release do to the cells of a pool of any *)
(* size.  The least natural number, or a minimal subset, for which a claim *)
(* fails stands in for induction.                                          *)
(***************************************************************************)
EXTENDS PagedAllocator, TLAPS, FiniteSetTheorems, SequenceTheorems,
        WellFoundedInduction

-----------------------------------------------------------------------------
(* Numbers, finite sets and sums.                                          *)

LEMMA ProductIsMonotonic ==
  ASSUME NEW i \in Nat, NEW j \in Nat, NEW m \in Nat, i <= j
  PROVE  /\ i * m \in Nat /\ j * m \in Nat /\ i * m <= j * m
         /\ (i + 1) * m = i * m + m
<1>1. /\ i * m \in Nat /\ j * m \in Nat /\ (i + 1) * m = i * m + m
      /\ (j - i) * m >= 0 /\ (j - i) * m = j * m - i * m
  OBVIOUS
<1>2. QED
  BY <1>1

LEMMA LeastElement ==
  ASSUME NEW T \in SUBSET Nat, T # {}
  PROVE  \E x \in T : \A y \in T : x <= y
<1> DEFINE Less == {xy \in Nat \X Nat : xy[1] < xy[2]}
<1>1. IsWellFoundedOn(Less, Nat)
  BY NatLessThanWellFounded DEF OpToRel
<1>2. \A x, y \in Nat : x < y => <<x, y>> \in Less
  OBVIOUS
<1> HIDE DEF Less
<1>3. PICK x \in T : \A y \in T : ~ (<<y, x>> \in Less)
  BY <1>1, WFMin
<1>4. \A y \in T : x \in Nat /\ y \in Nat /\ ~ (y < x)
  BY <1>2, <1>3
<1>5. QED
  BY <1>4

LEMMA GreatestElement ==
  ASSUME NEW n \in Nat, NEW T \in SUBSET (0 .. n), T # {}
  PROVE  \E x \in T : \A y \in T : x >= y
<1> DEFINE R == {n - x : x \in T}
<1>1. \A x \in T : n - x \in Nat /\ x \in Nat
  OBVIOUS
<1>2. R \in SUBSET Nat /\ R # {}
  BY <1>1
<1> HIDE DEF R
<1>3. PICK r \in R : \A s \in R : r <= s
  BY <1>2, LeastElement
<1>4. PICK x \in T : r = n - x
  BY <1>3 DEF R
<1>5. \A y \in T : n - x <= n - y
  BY <1>3, <1>4 DEF R
<1>6. \A y \in T : x >= y
  <2> TAKE y \in T
  <2>1. n - x <= n - y /\ x \in Nat /\ y \in Nat
    BY <1>1, <1>5
  <2>2. QED
    BY <2>1
<1>7. QED
  BY <1>6

(* Among some subsets of a finite set there is one that leaves them        *)
(* whichever element is taken away.                                        *)
LEMMA MinimalSubset ==
  ASSUME NEW S, IsFiniteSet(S), NEW B \in SUBSET SUBSET S, B # {}
  PROVE  \E T \in B : \A x \in T : T \ {x} \notin B
<1> DEFINE Less == StrictSubsetOrdering(S)
<1>1. IsWellFoundedOn(Less, FiniteSubsetsOf(S))
  BY FS_StrictSubsetOrderingWellFounded
<1>2. B \subseteq FiniteSubsetsOf(S)
  BY FS_Subset DEF FiniteSubsetsOf
<1>3. \A T \in B : \A x \in T : <<T \ {x}, T>> \in Less
  BY DEF StrictSubsetOrdering
<1> HIDE DEF Less
<1>4. PICK T \in B : \A U \in B : ~ (<<U, T>> \in Less)
  BY <1>1, <1>2, WFMin
<1>5. QED
  BY <1>3, <1>4

-----------------------------------------------------------------------------
(* The sum of a function of naturals over a finite set, as the number of   *)
(* its single units, which makes a sum a cardinality.                      *)
UnitsOf(x, n) == {x} \X (1 .. n)
Units(g, S)   == UNION {UnitsOf(x, g[x]) : x \in S}
Total(g, S)   == Cardinality(Units(g, S))

IsSummable(g, S) == IsFiniteSet(S) /\ \A x \in S : g[x] \in Nat

LEMMA UnitsOfOne ==
  ASSUME NEW x, NEW n \in Nat
  PROVE  IsFiniteSet(UnitsOf(x, n)) /\ Cardinality(UnitsOf(x, n)) = n
<1> DEFINE D == 1 .. n  f == [k \in D |-> <<x, k>>]
<1>1. IsFiniteSet(D) /\ Cardinality(D) = n
  BY FS_Interval
<1>2. f \in Bijection(D, {x} \X D)
  <2>1. f \in [D -> {x} \X D]
    OBVIOUS
  <2>2. \A k, l \in D : f[k] = f[l] => k = l
    <3>1. \A k \in D : f[k][2] = k
      OBVIOUS
    <3>2. QED
      BY <3>1
  <2>3. \A t \in {x} \X D : \E k \in D : f[k] = t
    <3> SUFFICES ASSUME NEW t \in {x} \X D PROVE f[t[2]] = t /\ t[2] \in D
      OBVIOUS
    <3>1. t[1] = x /\ t[2] \in D /\ t = <<t[1], t[2]>>
      OBVIOUS
    <3>2. QED
      BY <3>1
  <2> HIDE DEF f, D
  <2>4. QED
    BY <2>1, <2>2, <2>3 DEF Bijection, Injection, Surjection, IsInjective
<1>3. ExistsBijection(D, {x} \X D)
  BY <1>2 DEF ExistsBijection
<1>4. QED
  BY <1>1, <1>3, FS_Bijection DEF UnitsOf

LEMMA UnitsAdd ==
  ASSUME NEW g, NEW S, NEW x, x \notin S, g[x] \in Nat,
         IsFiniteSet(Units(g, S)), Total(g, S) \in Nat
  PROVE  /\ IsFiniteSet(Units(g, S \union {x}))
         /\ Total(g, S \union {x}) = Total(g, S) + g[x]
<1> DEFINE A == Units(g, S)  D == UnitsOf(x, g[x])  v == g[x]
<1>1. Units(g, S \union {x}) = A \union D
  BY DEF Units
<1>2. A \intersect D = {}
  BY DEF Units, UnitsOf
<1>3. IsFiniteSet(D) /\ Cardinality(D) = v /\ v \in Nat
  BY UnitsOfOne
<1>4. Cardinality(A \intersect D) = 0
  BY <1>2, FS_EmptySet
<1>5. IsFiniteSet(A) /\ Cardinality(A) = Total(g, S) /\ Total(g, S) \in Nat
  BY DEF Total
<1> HIDE DEF A, D, v
<1>6. /\ IsFiniteSet(A \union D)
      /\ Cardinality(A \union D) =
            Cardinality(A) + Cardinality(D) - Cardinality(A \intersect D)
  BY <1>3, <1>5, FS_Union
<1>7. Cardinality(A \union D) = Total(g, S) + v
  BY <1>3, <1>4, <1>5, <1>6
<1>8. Total(g, S \union {x}) = Cardinality(A \union D)
  BY <1>1 DEF Total
<1>9. QED
  BY <1>1, <1>6, <1>7, <1>8 DEF v

LEMMA TotalOfNone == \A g : Units(g, {}) = {} /\ Total(g, {}) = 0
<1>1. ASSUME NEW g PROVE Units(g, {}) = {}
  <2>1. \A u \in Units(g, {}) : \E x \in {} : u \in UnitsOf(x, g[x])
    BY DEF Units
  <2>2. QED
    BY <2>1
<1>2. QED
  BY <1>1, FS_EmptySet DEF Total

LEMMA TotalAgrees ==
  ASSUME NEW S, NEW g, NEW h, \A x \in S : g[x] = h[x]
  PROVE  Total(g, S) = Total(h, S)
<1>1. Units(g, S) = Units(h, S)
  BY DEF Units
<1>2. QED
  BY <1>1 DEF Total

LEMMA TotalType ==
  ASSUME NEW g, NEW S, IsSummable(g, S)
  PROVE  IsFiniteSet(Units(g, S)) /\ Total(g, S) \in Nat
<1> DEFINE B == {T \in SUBSET S : ~ IsFiniteSet(Units(g, T))}
<1>1. B = {}
  <2> SUFFICES ASSUME B # {} PROVE FALSE
    OBVIOUS
  <2>1. B \in SUBSET SUBSET S /\ IsFiniteSet(S)
    BY DEF IsSummable
  <2> HIDE DEF B
  <2>2. PICK T \in B : \A x \in T : T \ {x} \notin B
    BY <2>1, MinimalSubset
  <2>3. T \in SUBSET S /\ ~ IsFiniteSet(Units(g, T))
    BY <2>2 DEF B
  <2>4. PICK x : x \in T
    BY <2>3, TotalOfNone, FS_EmptySet
  <2> DEFINE U == T \ {x}
  <2>5. IsFiniteSet(Units(g, U)) /\ x \notin U /\ T = U \union {x}
    BY <2>2, <2>3, <2>4 DEF B
  <2> HIDE DEF U
  <2>6. Total(g, U) \in Nat
    BY <2>5, FS_CardinalityType DEF Total
  <2>7. g[x] \in Nat
    BY <2>3, <2>4 DEF IsSummable
  <2>8. QED
    BY <2>3, <2>5, <2>6, <2>7, UnitsAdd
<1>2. IsFiniteSet(Units(g, S))
  BY <1>1
<1>3. QED
  BY <1>2, FS_CardinalityType DEF Total

LEMMA TotalAdd ==
  ASSUME NEW g, NEW S, IsSummable(g, S), NEW x, x \notin S, g[x] \in Nat
  PROVE  /\ IsSummable(g, S \union {x})
         /\ Total(g, S \union {x}) = Total(g, S) + g[x]
<1>1. IsFiniteSet(S \union {x})
  BY FS_AddElement DEF IsSummable
<1>2. QED
  BY <1>1, TotalType, UnitsAdd DEF IsSummable

LEMMA TotalRemove ==
  ASSUME NEW g, NEW S, IsSummable(g, S), NEW x \in S
  PROVE  /\ IsSummable(g, S \ {x})
         /\ Total(g, S \ {x}) = Total(g, S) - g[x]
         /\ g[x] \in Nat /\ g[x] <= Total(g, S)
<1> DEFINE T == S \ {x}
<1>1. IsSummable(g, T) /\ x \notin T /\ g[x] \in Nat /\ S = T \union {x}
  BY FS_Subset DEF IsSummable
<1> HIDE DEF T
<1>2. Total(g, S) = Total(g, T) + g[x]
  BY <1>1, TotalAdd
<1>3. Total(g, T) \in Nat
  BY <1>1, TotalType
<1>4. QED
  BY <1>1, <1>2, <1>3 DEF T

(* A fold that adds up the elements, taken in any order, is the total: its *)
(* recursive equation has that and no other solution.                      *)
SumEquation(it, g, pick, S) ==
  it = [s \in SUBSET S |-> IF s = {} THEN 0
                           ELSE g[pick[s]] + it[s \ {pick[s]}]]

LEMMA TotalIsTheSum ==
  ASSUME NEW g, NEW S, IsSummable(g, S),
         NEW pick, \A s \in SUBSET S : s # {} => pick[s] \in s
  PROVE  /\ SumEquation([s \in SUBSET S |-> Total(g, s)], g, pick, S)
         /\ \A it : SumEquation(it, g, pick, S) => it[S] = Total(g, S)
<1> DEFINE f == [s \in SUBSET S |-> Total(g, s)]
<1>1. ASSUME NEW s \in SUBSET S, s # {}
      PROVE  /\ pick[s] \in s /\ s \ {pick[s]} \in SUBSET S
             /\ Total(g, s) = g[pick[s]] + Total(g, s \ {pick[s]})
  <2> DEFINE x == pick[s]  u == s \ {x}
  <2>1. x \in s /\ g[x] \in Nat
    BY <1>1 DEF IsSummable
  <2> HIDE DEF x
  <2>2. IsSummable(g, u) /\ x \notin u /\ s = u \union {x}
    BY <2>1, FS_Subset DEF IsSummable
  <2> HIDE DEF u
  <2>3. Total(g, s) = Total(g, u) + g[x] /\ Total(g, u) \in Nat
    BY <2>1, <2>2, TotalAdd, TotalType
  <2>4. QED
    BY <2>1, <2>2, <2>3 DEF x, u
<1>2. SumEquation(f, g, pick, S)
  BY <1>1, TotalOfNone DEF SumEquation
<1>3. ASSUME NEW it, SumEquation(it, g, pick, S)
      PROVE  it[S] = Total(g, S)
  <2>1. \A s \in SUBSET S : it[s] = IF s = {} THEN 0
                                    ELSE g[pick[s]] + it[s \ {pick[s]}]
    BY <1>3 DEF SumEquation
  <2> DEFINE B == {s \in SUBSET S : it[s] # Total(g, s)}
  <2>2. B = {}
    <3> SUFFICES ASSUME B # {} PROVE FALSE
      OBVIOUS
    <3>1. B \in SUBSET SUBSET S /\ IsFiniteSet(S)
      BY DEF IsSummable
    <3> HIDE DEF B
    <3>2. PICK s \in B : \A x \in s : s \ {x} \notin B
      BY <3>1, MinimalSubset
    <3>3. s \in SUBSET S /\ it[s] # Total(g, s)
      BY <3>2 DEF B
    <3>4. s # {}
      BY <2>1, <3>3, TotalOfNone
    <3>5. /\ pick[s] \in s /\ s \ {pick[s]} \in SUBSET S
          /\ Total(g, s) = g[pick[s]] + Total(g, s \ {pick[s]})
      BY <1>1, <3>3, <3>4
    <3>6. it[s \ {pick[s]}] = Total(g, s \ {pick[s]})
      BY <3>2, <3>5 DEF B
    <3>7. QED
      BY <2>1, <3>3, <3>4, <3>5, <3>6
  <2>3. QED
    BY <2>2
<1>4. QED
  BY <1>2, <1>3

-----------------------------------------------------------------------------
(* Pools of cells.                                                         *)

IsCellPool(pool) == pool \in [cut : Nat, garbage : Seq(Nat)]

(* A sound pool that has cut no more cells than it may is of its type. *)
LEMMA SoundIsPool ==
  ASSUME NEW p, IsCellPool(p), IsSound(p), NEW max \in Nat, p.cut <= max
  PROVE  IsPool(p, max)
<1>1. p.cut \in 0 .. max
  BY DEF IsCellPool
<1>2. p.garbage \in Seq(1 .. max)
  <2>1. p.garbage \in Seq(Nat)
    BY DEF IsCellPool
  <2>2. p.garbage \in Seq(Range(p.garbage))
    BY <2>1, SeqOfRange
  <2>3. Range(p.garbage) \subseteq 1 .. max
    BY <1>1 DEF IsSound, ToSet, Range
  <2>4. QED
    BY <2>2, <2>3, SeqMonotonic
<1>3. QED
  BY <1>1, <1>2 DEF IsPool

LEMMA EmptyPoolIsSound ==
  /\ IsCellPool(EmptyPool) /\ IsSound(EmptyPool)
  /\ InUse(EmptyPool) = {} /\ EmptyPool.cut = 0
<1>1. EmptyPool.garbage = <<>> /\ EmptyPool.cut = 0
  BY DEF EmptyPool
<1>2. ToSet(EmptyPool.garbage) = {} /\ IsInjective(EmptyPool.garbage)
  BY <1>1 DEF ToSet, IsInjective
<1>3. QED
  BY <1>1, <1>2 DEF IsCellPool, IsSound, InUse, EmptyPool

(* alloc() returns a cell nobody has, and that cell only changes hands.  A *)
(* new one is cut only when no freed one is left.                          *)
LEMMA AllocIsSound ==
  ASSUME NEW p, IsCellPool(p), IsSound(p)
  PROVE  /\ IsCellPool(Alloc(p)) /\ IsSound(Alloc(p))
         /\ Cell(p) \notin InUse(p)
         /\ InUse(Alloc(p)) = InUse(p) \union {Cell(p)}
         /\ Cell(p) \in 1 .. Alloc(p).cut
         /\ Alloc(p).cut \in {p.cut, p.cut + 1}
         /\ p.garbage # <<>> => Alloc(p).cut = p.cut
<1> DEFINE g == p.garbage
<1>0. g \in Seq(Nat) /\ p.cut \in Nat /\ Len(g) \in Nat
  BY DEF IsCellPool
<1>1. CASE g = <<>>
  <2>1. ToSet(g) = {}
    BY <1>1 DEF ToSet
  <2>2. Alloc(p) = [p EXCEPT !.cut = @ + 1] /\ Cell(p) = p.cut + 1
    BY <1>1 DEF Alloc, Cell
  <2>3. /\ Alloc(p).cut = p.cut + 1 /\ Alloc(p).garbage = g
        /\ IsCellPool(Alloc(p))
    BY <1>0, <2>2 DEF IsCellPool
  <2>4. IsSound(Alloc(p))
    BY <1>0, <2>1, <2>3 DEF IsSound
  <2>5. InUse(p) = 1 .. p.cut /\ InUse(Alloc(p)) = 1 .. p.cut + 1
    BY <2>1, <2>3 DEF InUse
  <2>6. QED
    BY <1>0, <1>1, <2>2, <2>3, <2>4, <2>5
<1>2. CASE g # <<>>
  <2> DEFINE n == Len(g)  f == SubSeq(g, 1, n - 1)
  <2>1. n \in Nat \ {0} /\ DOMAIN g = 1 .. n /\ \A i \in 1 .. n : g[i] \in Nat
    BY <1>0, <1>2
  <2>2. /\ f \in Seq(Nat) /\ DOMAIN f = 1 .. n - 1
        /\ \A i \in 1 .. n - 1 : f[i] = g[i]
    BY <1>0, <2>1
  <2>3. /\ Cell(p) = g[n]
        /\ Alloc(p) = [p EXCEPT !.garbage = f]
    BY <1>2 DEF Cell, Alloc, Last, Front
  <2>4. /\ Alloc(p).cut = p.cut /\ Alloc(p).garbage = f
        /\ IsCellPool(Alloc(p))
    BY <1>0, <2>2, <2>3 DEF IsCellPool
  <2> HIDE DEF f, n
  <2>5. /\ \A i, j \in 1 .. n : g[i] = g[j] => i = j
        /\ \A i \in 1 .. n : g[i] \in 1 .. p.cut
    BY <2>1 DEF IsSound, IsInjective, ToSet
  <2>6. ToSet(f) = ToSet(g) \ {g[n]}
    <3>1. \A c : c \in ToSet(f) <=> \E i \in 1 .. n - 1 : c = g[i]
      BY <2>2 DEF ToSet
    <3>2. \A c : c \in ToSet(g) <=> \E i \in 1 .. n : c = g[i]
      BY <2>1 DEF ToSet
    <3>3. 1 .. n = (1 .. n - 1) \union {n} /\ n \notin 1 .. n - 1
      BY <2>1
    <3>4. QED
      BY <2>5, <3>1, <3>2, <3>3
  <2>7. g[n] \in ToSet(g) /\ g[n] \in 1 .. p.cut
    BY <2>1, <2>5 DEF ToSet
  <2>8. IsSound(Alloc(p))
    <3>1. IsInjective(f)
      <4>1. \A i \in 1 .. n - 1 : i \in 1 .. n /\ f[i] = g[i]
        BY <2>1, <2>2
      <4>2. QED
        BY <2>2, <2>5, <4>1 DEF IsInjective
    <3>2. ToSet(f) \subseteq 1 .. p.cut
      BY <2>6 DEF IsSound
    <3>3. QED
      BY <2>4, <3>1, <3>2 DEF IsSound
  <2>9. InUse(Alloc(p)) = InUse(p) \union {g[n]} /\ g[n] \notin InUse(p)
    BY <2>4, <2>6, <2>7 DEF InUse
  <2>10. QED
    BY <2>3, <2>4, <2>7, <2>8, <2>9
<1>3. QED
  BY <1>1, <1>2

(* free() of a cell in use gives back that cell and no other. *)
LEMMA FreeIsSound ==
  ASSUME NEW p, IsCellPool(p), IsSound(p), NEW c \in InUse(p)
  PROVE  /\ IsCellPool(Free(p, c)) /\ IsSound(Free(p, c))
         /\ InUse(Free(p, c)) = InUse(p) \ {c}
         /\ Free(p, c).cut = p.cut
<1> DEFINE g == p.garbage  n == Len(g)  f == Append(g, c)
<1>0. /\ g \in Seq(Nat) /\ p.cut \in Nat /\ n \in Nat /\ DOMAIN g = 1 .. n
      /\ c \in 1 .. p.cut /\ c \notin ToSet(g)
  BY DEF IsCellPool, InUse
<1>1. /\ f \in Seq(Nat) /\ DOMAIN f = 1 .. n + 1
      /\ f[n + 1] = c /\ \A i \in 1 .. n : f[i] = g[i]
  BY <1>0
<1>2. Free(p, c) = [p EXCEPT !.garbage = f]
  BY DEF Free
<1>3. /\ Free(p, c).cut = p.cut /\ Free(p, c).garbage = f
      /\ IsCellPool(Free(p, c))
  BY <1>0, <1>1, <1>2 DEF IsCellPool
<1> HIDE DEF f, n
<1>4. ToSet(f) = ToSet(g) \union {c}
  <2>1. 1 .. n + 1 = (1 .. n) \union {n + 1}
    BY <1>0
  <2>2. QED
    BY SMTT(30), <1>0, <1>1, <2>1 DEF ToSet
<1>5. IsInjective(f)
  <2>1. \A i, j \in 1 .. n : g[i] = g[j] => i = j
    BY <1>0 DEF IsSound, IsInjective
  <2>2. \A i \in 1 .. n : g[i] # c
    BY <1>0 DEF ToSet
  <2>3. QED
    BY SMTT(30), <1>0, <1>1, <2>1, <2>2 DEF IsInjective
<1>6. IsSound(Free(p, c)) /\ InUse(Free(p, c)) = InUse(p) \ {c}
  BY <1>0, <1>3, <1>4, <1>5 DEF IsSound, InUse
<1>7. QED
  BY <1>3, <1>6
=============================================================================
