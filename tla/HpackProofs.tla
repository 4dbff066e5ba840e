----------------------------- MODULE HpackProofs -----------------------------
(***************************************************************************)
(* For every header, entry size, static table, table limit and integer     *)
(* layout: the two contexts never disagree, the counter that eviction goes *)
(* by is the size of the entries, insertion keeps what fits, and integers  *)
(* arrive as they were sent or are refused.                                *)
(***************************************************************************)
EXTENDS Hpack, SequenceTheorems, WellFoundedInduction, TLAPS

----------------------------------------------------------------------------
(* Induction over the natural numbers, by sets.                            *)

\* The least number of a set that is not empty.
LEMMA LeastElement ==
  ASSUME NEW T, T \subseteq Nat, T # {}
  PROVE  \E x \in T : \A y \in T : ~(y < x)
<1> DEFINE R == {ss \in Nat \X Nat : ss[1] < ss[2]}
<1>1. IsWellFoundedOn(R, Nat)
  BY NatLessThanWellFounded DEF OpToRel
<1>2. \E x \in T : \A y \in T : ~(<<y, x>> \in R)
  <2> HIDE DEF R
  <2> QED  BY <1>1, WFMin
<1> QED  BY <1>2

\* A set that has 0 and every successor has every natural number.
LEMMA EveryNat ==
  ASSUME NEW T, 0 \in T, \A n \in Nat : n \in T => n + 1 \in T
  PROVE  Nat \subseteq T
<1> SUFFICES ASSUME Nat \ T # {} PROVE FALSE
  OBVIOUS
<1>1. PICK x \in Nat \ T : \A y \in Nat \ T : ~(y < x)
  BY LeastElement
<1>2. x - 1 \in Nat
  BY <1>1
<1>3. x - 1 \in T
  BY <1>1, <1>2
<1> QED  BY <1>1, <1>2, <1>3

\* A set that has a number when it has all below it has every natural number.
LEMMA EveryNatStrong ==
  ASSUME NEW T, \A n \in Nat : (\A m \in Nat : m < n => m \in T) => n \in T
  PROVE  Nat \subseteq T
<1> SUFFICES ASSUME Nat \ T # {} PROVE FALSE
  OBVIOUS
<1>1. PICK x \in Nat \ T : \A y \in Nat \ T : ~(y < x)
  BY LeastElement
<1> QED  BY <1>1

----------------------------------------------------------------------------
(* Folds over a sequence, as steps from its first element to its last.     *)

\* The largest of some numbers is one of them.
LEMMA MaxMember ==
  ASSUME NEW n \in Nat, NEW t \in SUBSET (1 .. n), t # {}
  PROVE  Max(t) \in t /\ \A y \in t : y <= Max(t)
<1> DEFINE T == {n - x : x \in t}
<1>1. T \subseteq Nat /\ T # {}
  <2>1. ASSUME NEW x \in t PROVE n - x \in Nat
    <3>1. x \in 1 .. n
      OBVIOUS
    <3> QED  BY <3>1
  <2> QED  BY <2>1
<1>2. PICK z \in T : \A y \in T : ~(y < z)
  BY <1>1, LeastElement
<1>3. PICK x \in t : z = n - x
  BY <1>2
<1>4. \A y \in t : x >= y
  <2>1. ASSUME NEW y \in t PROVE x >= y
    <3>1. n - y \in T
      OBVIOUS
    <3>2. ~(n - y < n - x)
      BY <1>2, <1>3, <3>1
    <3>3. x \in Int /\ y \in Int
      OBVIOUS
    <3> QED  BY <3>2, <3>3
  <2> QED  BY <2>1
<1>5. Max(t) \in t /\ \A y \in t : Max(t) >= y
  BY <1>4 DEF Max
<1> QED  BY <1>5

\* The first numbers but the largest of them.
LEMMA Intervals ==
  ASSUME NEW n \in Nat, NEW k \in 1 .. n
  PROVE  /\ 1 .. k \in SUBSET (1 .. n) /\ 1 .. k # {} /\ Max(1 .. k) = k
         /\ (1 .. k) \ {k} = 1 .. k - 1 /\ k - 1 \in 0 .. n
<1>1. k \in Nat /\ k >= 1 /\ k <= n /\ k \in 1 .. k
  OBVIOUS
<1>2. 1 .. k \in SUBSET (1 .. n) /\ 1 .. k # {}
  BY <1>1
<1>3. Max(1 .. k) = k
  <2>1. Max(1 .. k) \in 1 .. k /\ \A y \in 1 .. k : y <= Max(1 .. k)
    BY <1>2, MaxMember
  <2> QED  BY <1>1, <2>1
<1>4. (1 .. k) \ {k} = 1 .. k - 1
  <2>1. \A i : i \in (1 .. k) \ {k} <=> i \in 1 .. k - 1
    BY <1>1
  <2> QED  BY <2>1
<1> QED  BY <1>1, <1>2, <1>3, <1>4

\* The recursion by which FoldLeft is defined has a solution.
Solves(it, A, base, G, n) ==
  /\ it \in [SUBSET (1 .. n) -> A]
  /\ it[{}] = base
  /\ \A t \in SUBSET (1 .. n) : t # {} => it[t] = G[<<it[t \ {Max(t)}], Max(t)>>]

LEMMA Solution ==
  ASSUME NEW n \in Nat, NEW A, NEW base \in A, NEW G \in [A \X (1 .. n) -> A]
  PROVE  \E it : Solves(it, A, base, G, n)
<1> DEFINE T == {k \in Nat : k <= n => \E it : Solves(it, A, base, G, k)}
<1>1. 0 \in T
  <2> DEFINE it == [t \in SUBSET (1 .. 0) |-> base]
  <2>1. \A t \in SUBSET (1 .. 0) : t = {}
    OBVIOUS
  <2>2. it \in [SUBSET (1 .. 0) -> A] /\ it[{}] = base
    OBVIOUS
  <2> HIDE DEF it
  <2>3. Solves(it, A, base, G, 0)
    BY <2>1, <2>2 DEF Solves
  <2> QED  BY <2>3
<1>2. ASSUME NEW k \in Nat, k \in T PROVE k + 1 \in T
  <2> SUFFICES ASSUME k + 1 <= n PROVE \E it : Solves(it, A, base, G, k + 1)
    OBVIOUS
  <2>1. PICK it : Solves(it, A, base, G, k)
    BY <1>2
  <2> DEFINE jt == [t \in SUBSET (1 .. k + 1) |->
                      IF k + 1 \in t THEN G[<<it[t \ {k + 1}], k + 1>>] ELSE it[t]]
  <2>2. \A t \in SUBSET (1 .. k + 1) : t \ {k + 1} \in SUBSET (1 .. k)
    <3>1. \A y \in 1 .. k + 1 : y # k + 1 => y \in 1 .. k
      OBVIOUS
    <3> QED  BY <3>1
  <2>3. jt \in [SUBSET (1 .. k + 1) -> A]
    <3>1. ASSUME NEW t \in SUBSET (1 .. k + 1)
          PROVE  (IF k + 1 \in t THEN G[<<it[t \ {k + 1}], k + 1>>] ELSE it[t]) \in A
      <4>1. it[t \ {k + 1}] \in A
        BY <2>1, <2>2 DEF Solves
      <4>2. k + 1 \in 1 .. n
        OBVIOUS
      <4>3. k + 1 \notin t => t = t \ {k + 1}
        OBVIOUS
      <4> QED  BY <4>1, <4>2, <4>3
    <3> QED  BY <3>1
  <2>4. jt[{}] = base
    BY <2>1 DEF Solves
  <2>5. ASSUME NEW t \in SUBSET (1 .. k + 1), t # {}
        PROVE  jt[t] = G[<<jt[t \ {Max(t)}], Max(t)>>]
    <3>0. k + 1 \in Nat /\ Max(t) \in t /\ \A y \in t : y <= Max(t)
      <4>1. \A m \in Nat : \A u \in SUBSET (1 .. m) : u # {} =>
               Max(u) \in u /\ \A y \in u : y <= Max(u)
        BY MaxMember
      <4>2. k + 1 \in Nat
        OBVIOUS
      <4> QED  BY <2>5, <4>1, <4>2
    <3>1. CASE k + 1 \in t
      <4>1. Max(t) = k + 1
        <5>1. Max(t) \in 1 .. k + 1 /\ k + 1 <= Max(t)
          BY <3>0, <3>1
        <5> QED  BY <5>1
      <4>2. t \ {k + 1} \in SUBSET (1 .. k + 1) /\ k + 1 \notin t \ {k + 1}
        OBVIOUS
      <4> QED  BY <3>1, <4>1, <4>2
    <3>2. CASE k + 1 \notin t
      <4>1. t \in SUBSET (1 .. k) /\ t \ {Max(t)} \in SUBSET (1 .. k)
        BY <2>2, <3>2
      <4>2. it[t] = G[<<it[t \ {Max(t)}], Max(t)>>]
        BY <2>1, <2>5, <4>1 DEF Solves
      <4>3. jt[t] = it[t] /\ jt[t \ {Max(t)}] = it[t \ {Max(t)}]
        BY <3>2, <4>1
      <4> QED  BY <4>2, <4>3
    <3> QED  BY <3>1, <3>2
  <2> HIDE DEF jt
  <2>6. Solves(jt, A, base, G, k + 1)
    BY <2>3, <2>4, <2>5 DEF Solves
  <2> QED  BY <2>6
<1> HIDE DEF T
<1>3. n \in T
  BY <1>1, <1>2, EveryNat
<1> QED  BY <1>3 DEF T

\* Steps that agree at first and go on alike agree.
LEMMA SameSteps ==
  ASSUME NEW n \in Nat, NEW g, NEW h, g[0] = h[0],
         \A k \in 1 .. n : g[k - 1] = h[k - 1] => g[k] = h[k]
  PROVE  \A k \in 0 .. n : g[k] = h[k]
<1> DEFINE T == {k \in Nat : k <= n => g[k] = h[k]}
<1>1. 0 \in T
  OBVIOUS
<1>2. ASSUME NEW k \in Nat, k \in T PROVE k + 1 \in T
  <2> SUFFICES ASSUME k + 1 <= n PROVE g[k + 1] = h[k + 1]
    OBVIOUS
  <2>1. k + 1 \in 1 .. n /\ (k + 1) - 1 = k /\ g[k] = h[k]
    BY <1>2
  <2> QED  BY <2>1
<1> HIDE DEF T
<1>3. Nat \subseteq T
  BY <1>1, <1>2, EveryNat
<1> QED  BY <1>3 DEF T

\* Steps that keep a type have it.
LEMMA TypedSteps ==
  ASSUME NEW n \in Nat, NEW g, NEW A, g[0] \in A,
         \A k \in 1 .. n : g[k - 1] \in A => g[k] \in A
  PROVE  \A k \in 0 .. n : g[k] \in A
<1> DEFINE T == {k \in Nat : k <= n => g[k] \in A}
<1>1. 0 \in T
  OBVIOUS
<1>2. ASSUME NEW k \in Nat, k \in T PROVE k + 1 \in T
  <2> SUFFICES ASSUME k + 1 <= n PROVE g[k + 1] \in A
    OBVIOUS
  <2>1. k + 1 \in 1 .. n /\ (k + 1) - 1 = k /\ g[k] \in A
    BY <1>2
  <2> QED  BY <2>1
<1> HIDE DEF T
<1>3. Nat \subseteq T
  BY <1>1, <1>2, EveryNat
<1> QED  BY <1>3 DEF T

----------------------------------------------------------------------------
(* The size of a table.                                                    *)

\* An entry has a size.
LEMMA SizeType ==
  ASSUME NEW h \in HeaderSet
  PROVE  SizeOf(h) \in Nat \ {0}
<1>1. h.name \in Names /\ h.value \in Values
  BY DEF HeaderSet
<1> QED  BY <1>1, TableAssumption DEF SizeOf

\* The sizes of the entries, added up one by one.
Sums(t, g) ==
  /\ g \in [0 .. Len(t) -> Nat] /\ g[0] = 0 /\ g[Len(t)] = SumOf(t)
  /\ \A k \in 1 .. Len(t) : g[k] = g[k - 1] + SizeOf(t[k])

LEMMA SumSteps ==
  ASSUME NEW t \in Seq(HeaderSet)
  PROVE  \E g : Sums(t, g)
<1> DEFINE n == Len(t)
           G == [x \in Nat \X (1 .. n) |-> x[1] + SizeOf(t[x[2]])]
           it == CHOOSE f : f = [u \in SUBSET DOMAIN t |->
                                   IF u = {} THEN 0 ELSE f[u \ {Max(u)}] + SizeOf(t[Max(u)])]
           g == [k \in 0 .. n |-> it[1 .. k]]
<1>1. n \in Nat /\ DOMAIN t = 1 .. n
  OBVIOUS
<1>2. SumOf(t) = it[DOMAIN t]
  BY DEF SumOf, FoldLeft, MapThenFoldSet
<1>3. G \in [Nat \X (1 .. n) -> Nat]
  <2>1. \A k \in 1 .. n : SizeOf(t[k]) \in Nat
    BY SizeType
  <2> QED  BY <2>1
<1>4. \A x \in Nat, k \in 1 .. n : G[<<x, k>>] = x + SizeOf(t[k])
  OBVIOUS
<1> HIDE DEF G
<1>5. it = [u \in SUBSET (1 .. n) |->
              IF u = {} THEN 0 ELSE it[u \ {Max(u)}] + SizeOf(t[Max(u)])]
  <2>1. PICK f : Solves(f, Nat, 0, G, n)
    BY <1>1, <1>3, Solution
  <2>2. ASSUME NEW u \in SUBSET (1 .. n)
        PROVE  f[u] = IF u = {} THEN 0 ELSE f[u \ {Max(u)}] + SizeOf(t[Max(u)])
    <3>1. CASE u = {}
      BY <2>1, <3>1 DEF Solves
    <3>2. CASE u # {}
      <4>1. Max(u) \in 1 .. n
        BY <1>1, <3>2, MaxMember
      <4>2. f[u \ {Max(u)}] \in Nat
        BY <2>1 DEF Solves
      <4>3. f[u] = G[<<f[u \ {Max(u)}], Max(u)>>]
        BY <2>1, <3>2 DEF Solves
      <4> QED  BY <1>4, <3>2, <4>1, <4>2, <4>3
    <3> QED  BY <3>1, <3>2
  <2>3. f = [u \in SUBSET (1 .. n) |-> IF u = {} THEN 0 ELSE f[u \ {Max(u)}] + SizeOf(t[Max(u)])]
    BY <2>1, <2>2 DEF Solves
  <2> QED  BY <1>1, <2>3
<1> HIDE DEF it
<1>6. g[0] = 0
  <2>1. 1 .. 0 \in SUBSET (1 .. n) /\ 1 .. 0 = {}
    BY <1>1
  <2> QED  BY <1>1, <1>5, <2>1
<1>7. ASSUME NEW k \in 1 .. n PROVE g[k] = g[k - 1] + SizeOf(t[k])
  <2>1. /\ 1 .. k \in SUBSET (1 .. n) /\ 1 .. k # {} /\ Max(1 .. k) = k
        /\ (1 .. k) \ {k} = 1 .. k - 1 /\ k - 1 \in 0 .. n
    BY <1>1, Intervals
  <2>2. it[1 .. k] = it[1 .. k - 1] + SizeOf(t[k])
    BY <1>5, <2>1
  <2> QED  BY <1>1, <2>1, <2>2
<1>8. g[n] = SumOf(t) /\ g = [k \in 0 .. n |-> g[k]]
  BY <1>1, <1>2
<1> HIDE DEF g
<1>9. \A k \in 0 .. n : g[k] \in Nat
  <2>1. ASSUME NEW k \in 1 .. n, g[k - 1] \in Nat PROVE g[k] \in Nat
    BY <1>7, <2>1, SizeType
  <2>2. n \in Nat /\ g[0] \in Nat
    BY <1>1, <1>6
  <2> HIDE DEF n
  <2> QED  BY ONLY <2>1, <2>2, TypedSteps
<1>10. g \in [0 .. n -> Nat]
  BY <1>8, <1>9
<1> QED  BY <1>6, <1>7, <1>8, <1>10 DEF Sums

\* Two tables, one after the other, have the two sizes.
LEMMA SumConcat ==
  ASSUME NEW s \in Seq(HeaderSet), NEW t \in Seq(HeaderSet)
  PROVE  SumOf(s \o t) = SumOf(s) + SumOf(t)
<1> DEFINE u == s \o t
           m == Len(s)
           n == Len(t)
<1>1. /\ u \in Seq(HeaderSet) /\ m \in Nat /\ n \in Nat /\ Len(u) = m + n
      /\ \A k \in 1 .. m : u[k] = s[k]
      /\ \A k \in 1 .. n : u[m + k] = t[k]
  OBVIOUS
<1> HIDE DEF u, m, n
<1>2. PICK f : Sums(s, f)
  BY SumSteps
<1>3. PICK g : Sums(t, g)
  BY SumSteps
<1>4. PICK h : Sums(u, h)
  BY <1>1, SumSteps
<1>5. h[m] = f[m]
  <2>1. f[0] = h[0]
    BY <1>2, <1>4 DEF Sums
  <2>2. ASSUME NEW k \in 1 .. m, f[k - 1] = h[k - 1] PROVE f[k] = h[k]
    <3>1. k \in 1 .. Len(u) /\ u[k] = s[k]
      BY <1>1
    <3>2. f[k] = f[k - 1] + SizeOf(s[k])
      BY <1>2 DEF Sums, m
    <3>3. h[k] = h[k - 1] + SizeOf(u[k])
      BY <1>4, <3>1 DEF Sums
    <3> QED  BY <2>2, <3>1, <3>2, <3>3
  <2>3. m \in Nat
    BY <1>1
  <2>4. \A k \in 0 .. m : f[k] = h[k]
    BY ONLY ZenonT(60), <2>1, <2>2, <2>3, SameSteps
  <2> QED  BY <1>1, <2>4
<1> DEFINE a == [k \in 0 .. n |-> SumOf(s) + g[k]]
           b == [k \in 0 .. n |-> h[m + k]]
<1>6. SumOf(s) \in Nat /\ f[m] = SumOf(s)
  <2>1. Len(s) \in 0 .. Len(s)
    OBVIOUS
  <2> QED  BY <1>2, <2>1 DEF Sums, m
<1>7. a[0] = b[0]
  <2>1. g[0] = 0
    BY <1>3 DEF Sums
  <2> QED  BY <1>1, <1>5, <1>6, <2>1
<1>8. ASSUME NEW k \in 1 .. n, a[k - 1] = b[k - 1] PROVE a[k] = b[k]
  <2>1. /\ k - 1 \in 0 .. n /\ k \in 0 .. n /\ m + k \in 1 .. Len(u)
        /\ (m + k) - 1 = m + (k - 1) /\ u[m + k] = t[k]
    BY <1>1
  <2>2. /\ g[k] = g[k - 1] + SizeOf(t[k]) /\ g[k - 1] \in Nat /\ SizeOf(t[k]) \in Nat
    <3>1. g[k] = g[k - 1] + SizeOf(t[k]) /\ g[k - 1] \in Nat
      BY <1>3, <2>1 DEF Sums, n
    <3>2. t[k] \in HeaderSet
      BY <2>1 DEF n
    <3> QED  BY <3>1, <3>2, SizeType
  <2>3. h[m + k] = h[m + (k - 1)] + SizeOf(t[k])
    <3>1. \A j \in 1 .. Len(u) : h[j] = h[j - 1] + SizeOf(u[j])
      BY <1>4 DEF Sums
    <3> QED  BY <2>1, <3>1
  <2>4. SumOf(s) + g[k - 1] = h[m + (k - 1)]
    BY <1>8, <2>1
  <2> QED  BY <1>6, <2>1, <2>2, <2>3, <2>4
<1> HIDE DEF a, b
<1>9. a[n] = b[n]
  <2>1. n \in Nat
    BY <1>1
  <2>2. \A k \in 0 .. n : a[k] = b[k]
    BY ONLY ZenonT(60), <2>1, <1>7, <1>8, SameSteps
  <2> QED  BY <1>1, <2>2
<1>10. g[n] = SumOf(t) /\ h[m + n] = SumOf(u)
  BY <1>1, <1>3, <1>4 DEF Sums, n
<1>11. a[n] = SumOf(s) + g[n] /\ b[n] = h[m + n]
  BY <1>1 DEF a, b
<1> QED  BY <1>9, <1>10, <1>11 DEF u

\* The size of nothing, of an entry, of a table in two parts.
LEMMA SumFacts ==
  /\ SumOf(<<>>) = 0
  /\ \A h \in HeaderSet : SumOf(<<h>>) = SizeOf(h)
  /\ \A t \in Seq(HeaderSet) : SumOf(t) \in Nat
<1>1. SumOf(<<>>) = 0
  <2>1. <<>> \in Seq(HeaderSet) /\ Len(<<>>) = 0
    OBVIOUS
  <2>2. PICK g : Sums(<<>>, g)
    BY <2>1, SumSteps
  <2> QED  BY <2>1, <2>2 DEF Sums
<1>2. ASSUME NEW h \in HeaderSet PROVE SumOf(<<h>>) = SizeOf(h)
  <2> DEFINE t == <<h>>
  <2>1. t \in Seq(HeaderSet) /\ Len(t) = 1 /\ t[1] = h
    OBVIOUS
  <2> HIDE DEF t
  <2>2. PICK g : Sums(t, g)
    BY <2>1, SumSteps
  <2>3. 1 \in 1 .. Len(t) /\ 1 - 1 = 0 /\ SizeOf(h) \in Nat
    BY <2>1, SizeType
  <2>4. g[1] = g[0] + SizeOf(t[1]) /\ g[0] = 0 /\ g[1] = SumOf(t)
    BY <2>1, <2>2, <2>3 DEF Sums
  <2> QED  BY <2>1, <2>3, <2>4 DEF t
<1>3. ASSUME NEW t \in Seq(HeaderSet) PROVE SumOf(t) \in Nat
  <2>1. PICK g : Sums(t, g)
    BY SumSteps
  <2>2. Len(t) \in 0 .. Len(t)
    OBVIOUS
  <2> QED  BY <2>1, <2>2 DEF Sums
<1> QED  BY <1>1, <1>2, <1>3

----------------------------------------------------------------------------
(* Eviction keeps the longest run of newest entries that fits.             *)

\* The newest entries of a table, as many as fit and no more.
Fit(t, limit, m) ==
  /\ m \in 0 .. Len(t) /\ SumOf(SubSeq(t, 1, m)) <= limit
  /\ m = Len(t) \/ limit < SumOf(SubSeq(t, 1, m + 1))

\* A table in two parts.
LEMMA TwoParts ==
  ASSUME NEW t \in Seq(HeaderSet), NEW k \in 0 .. Len(t)
  PROVE  /\ SubSeq(t, 1, k) \in Seq(HeaderSet) /\ Len(SubSeq(t, 1, k)) = k
         /\ SubSeq(t, k + 1, Len(t)) \in Seq(HeaderSet)
         /\ SumOf(t) = SumOf(SubSeq(t, 1, k)) + SumOf(SubSeq(t, k + 1, Len(t)))
         /\ SumOf(SubSeq(t, 1, k)) \in Nat /\ SumOf(SubSeq(t, k + 1, Len(t))) \in Nat
<1> DEFINE a == SubSeq(t, 1, k)
           b == SubSeq(t, k + 1, Len(t))
<1>1. a \in Seq(HeaderSet) /\ b \in Seq(HeaderSet) /\ Len(a) = k
  OBVIOUS
<1>2. a \o b = t
  <2>1. 1 \in 1 .. Len(t) + 1 /\ k \in 1 - 1 .. Len(t) /\ Len(t) \in k .. Len(t)
    OBVIOUS
  <2>2. a \o b = SubSeq(t, 1, Len(t))
    BY <2>1, ConcatAdjacentSubSeq
  <2> QED  BY <2>2, SubSeqFull
<1> HIDE DEF a, b
<1>3. SumOf(t) = SumOf(a) + SumOf(b)
  BY <1>1, <1>2, SumConcat
<1>4. SumOf(a) \in Nat /\ SumOf(b) \in Nat
  BY <1>1, SumFacts
<1> QED  BY <1>1, <1>3, <1>4 DEF a, b

\* More entries are no smaller.
LEMMA LongerIsLarger ==
  ASSUME NEW t \in Seq(HeaderSet), NEW k \in 0 .. Len(t), NEW j \in 0 .. k
  PROVE  SumOf(SubSeq(t, 1, j)) <= SumOf(SubSeq(t, 1, k))
<1> DEFINE u == SubSeq(t, 1, k)
<1>1. u \in Seq(HeaderSet) /\ Len(u) = k
  BY TwoParts
<1>2. SubSeq(u, 1, j) = SubSeq(t, 1, j)
  OBVIOUS
<1>3. j \in 0 .. Len(u)
  BY <1>1
<1> HIDE DEF u
<1>4. SumOf(u) = SumOf(SubSeq(u, 1, j)) + SumOf(SubSeq(u, j + 1, Len(u)))
      /\ SumOf(SubSeq(u, 1, j)) \in Nat /\ SumOf(SubSeq(u, j + 1, Len(u))) \in Nat
  BY <1>1, <1>3, TwoParts
<1>5. SumOf(SubSeq(u, 1, j)) <= SumOf(u)
  BY <1>4
<1> QED  BY <1>2, <1>5 DEF u

\* What fits and cannot be longer is the longest that fits.
LEMMA FitIsLongest ==
  ASSUME NEW t \in Seq(HeaderSet), NEW limit \in Nat, NEW m, Fit(t, limit, m)
  PROVE  LongestFit(t, limit) = SubSeq(t, 1, m)
<1> DEFINE N == {n \in 0 .. Len(t) : SumOf(SubSeq(t, 1, n)) <= limit}
<1>1. m \in N
  BY DEF Fit
<1>2. ASSUME NEW n \in N PROVE n <= m
  <2>1. CASE m = Len(t)
    BY <2>1
  <2>2. CASE m # Len(t)
    <3> SUFFICES ASSUME m < n PROVE FALSE
      BY <1>1
    <3>1. n \in 0 .. Len(t) /\ m + 1 \in 0 .. n /\ m + 1 \in 0 .. Len(t)
      BY <1>1
    <3>2. SumOf(SubSeq(t, 1, m + 1)) <= SumOf(SubSeq(t, 1, n))
      BY <3>1, LongerIsLarger
    <3>3. SumOf(SubSeq(t, 1, m + 1)) \in Nat /\ SumOf(SubSeq(t, 1, n)) \in Nat
      BY <3>1, TwoParts
    <3>4. limit < SumOf(SubSeq(t, 1, m + 1)) /\ SumOf(SubSeq(t, 1, n)) <= limit
      BY <2>2 DEF Fit
    <3> QED  BY <3>2, <3>3, <3>4
  <2> QED  BY <2>1, <2>2
<1>3. Max(N) = m
  <2>1. m \in Int /\ \A n \in N : n \in Int
    BY <1>1
  <2>2. Max(N) \in N /\ \A n \in N : Max(N) >= n
    BY <1>1, <1>2, <2>1 DEF Max
  <2> QED  BY <1>1, <1>2, <2>1, <2>2
<1> QED  BY <1>3 DEF LongestFit

\* evict_until_size, from a counter that is right.
LEMMA Evict ==
  ASSUME NEW c \in ContextSet, c.size = SumOf(c.table), NEW limit \in Nat
  PROVE  /\ EvictUntil(c, limit) \in ContextSet
         /\ EvictUntil(c, limit).max = c.max
         /\ EvictUntil(c, limit).size = SumOf(EvictUntil(c, limit).table)
         /\ \E m : Fit(c.table, limit, m) /\ EvictUntil(c, limit).table = SubSeq(c.table, 1, m)
<1> DEFINE t == c.table
           n == Len(t)
           Enough(k) == c.size - SumOf(Suffix(t, k)) <= limit \/ k = n
           N == {k \in 0 .. n : Enough(k)}
           k0 == Min(N)
           m == n - k0
<1>1. t \in Seq(HeaderSet) /\ n \in Nat /\ c.max \in Nat
  BY DEF ContextSet
<1>2. k0 \in N /\ \A k \in N : k0 <= k
  <2>1. N \subseteq Nat /\ n \in N
    BY <1>1
  <2>2. PICK x \in N : \A y \in N : ~(y < x)
    BY <2>1, LeastElement
  <2>3. \A y \in N : x <= y
    BY <2>1, <2>2
  <2> QED  BY <2>2, <2>3 DEF Min
<1>3. ASSUME NEW k \in 0 .. n
      PROVE  /\ c.size - SumOf(Suffix(t, k)) = SumOf(SubSeq(t, 1, n - k))
             /\ SumOf(SubSeq(t, 1, n - k)) \in Nat
  <2>1. n - k \in 0 .. n /\ n - k + 1 = (n - k) + 1
    BY <1>1
  <2>2. Suffix(t, k) = SubSeq(t, (n - k) + 1, n)
    BY DEF Suffix
  <2> DEFINE j == n - k
  <2>3. j \in 0 .. Len(t)
    BY <2>1
  <2> HIDE DEF j
  <2>4. /\ SumOf(t) = SumOf(SubSeq(t, 1, j)) + SumOf(SubSeq(t, j + 1, n))
        /\ SumOf(SubSeq(t, 1, j)) \in Nat /\ SumOf(SubSeq(t, j + 1, n)) \in Nat
    BY <1>1, <2>3, TwoParts
  <2> QED  BY <2>2, <2>4 DEF j
<1>4. EvictUntil(c, limit) = [c EXCEPT !.table = SubSeq(t, 1, m),
                                       !.size = c.size - SumOf(Suffix(t, k0))]
  BY DEF EvictUntil
<1> HIDE DEF k0, N
<1>5. k0 \in 0 .. n /\ m \in 0 .. n /\ Enough(k0)
  BY <1>1, <1>2 DEF N
<1> HIDE DEF Enough
<1>6. Fit(t, limit, m)
  <2>1. SumOf(SubSeq(t, 1, m)) <= limit
    <3>1. CASE k0 = n
      <4>1. SubSeq(t, 1, m) = <<>>
        BY <1>1, <3>1
      <4>2. SumOf(<<>>) = 0
        BY SumFacts
      <4>3. SumOf(SubSeq(t, 1, m)) = 0
        BY <4>1, <4>2
      <4> QED  BY <4>3
    <3>2. CASE k0 # n
      BY <1>3, <1>5, <3>2 DEF Enough
    <3> QED  BY <3>1, <3>2
  <2>2. CASE m = n
    BY <1>5, <2>1, <2>2 DEF Fit
  <2>3. CASE m # n
    <3>1. k0 - 1 \in 0 .. n /\ n - (k0 - 1) = m + 1 /\ k0 - 1 # n
      BY <1>1, <1>5, <2>3
    <3>2. ~Enough(k0 - 1)
      BY <1>1, <1>2, <1>5, <3>1 DEF N
    <3>3. limit < SumOf(SubSeq(t, 1, m + 1))
      BY <1>3, <3>1, <3>2 DEF Enough
    <3> QED  BY <1>5, <2>1, <3>3 DEF Fit
  <2> QED  BY <2>2, <2>3
<1>7. SumOf(SubSeq(t, 1, m)) = c.size - SumOf(Suffix(t, k0)) /\ SumOf(SubSeq(t, 1, m)) \in Nat
  BY <1>3, <1>5
<1>8. SubSeq(t, 1, m) \in Seq(HeaderSet)
  BY <1>1, <1>5, TwoParts
<1> HIDE DEF m, t, n
<1>9. c = [table |-> c.table, max |-> c.max, size |-> c.size]
  BY DEF ContextSet
<1> QED  BY <1>1, <1>4, <1>6, <1>7, <1>8, <1>9 DEF ContextSet, t

\* A context whose counter is right and within the limit.
Good(c) == c \in ContextSet /\ c.size = SumOf(c.table) /\ c.size <= c.max

Contexts == {c \in ContextSet : Good(c)}

\* A new context is one.
LEMMA NewContextGood ==
  NewContext \in Contexts
<1>1. <<>> \in Seq(HeaderSet) /\ DefaultMaxSize \in Nat
  BY TableAssumption
<1> DEFINE c == NewContext
<1>2. c \in ContextSet /\ c.table = <<>> /\ c.max = DefaultMaxSize /\ c.size = 0
  BY <1>1 DEF NewContext, ContextSet
<1> HIDE DEF c
<1>3. SumOf(c.table) = 0 /\ 0 <= DefaultMaxSize
  BY <1>1, <1>2, SumFacts
<1> QED  BY <1>2, <1>3 DEF Contexts, Good, c

\* set_max_table_size.
LEMMA SetMaxTableSizeGood ==
  ASSUME NEW c \in Contexts, NEW n \in Nat
  PROVE  SetMaxTableSize(c, n) \in Contexts /\ SetMaxTableSize(c, n).max = n
<1> DEFINE d == [c EXCEPT !.max = n]
           e == EvictUntil(d, n)
<1>1. d \in ContextSet /\ d.size = SumOf(d.table) /\ d.max = n
  BY DEF Contexts, Good, ContextSet
<1> HIDE DEF d
<1>2. /\ e \in ContextSet /\ e.max = n /\ e.size = SumOf(e.table)
      /\ \E m : Fit(d.table, n, m) /\ e.table = SubSeq(d.table, 1, m)
  BY <1>1, Evict
<1> HIDE DEF e
<1>3. e.size <= n
  BY <1>2 DEF Fit
<1> QED  BY <1>2, <1>3 DEF SetMaxTableSize, Contexts, Good, d, e

\* add_to_dynamic_table keeps the longest run of newest entries that fits.
LEMMA AddGood ==
  ASSUME NEW c \in Contexts, NEW h \in HeaderSet
  PROVE  /\ AddToDynamicTable(c, h) \in Contexts
         /\ AddToDynamicTable(c, h).max = c.max
         /\ AddToDynamicTable(c, h).table = LongestFit(<<h>> \o c.table, c.max)
<1> DEFINE r == AddToDynamicTable(c, h)
           t == c.table
           u == <<h>> \o t
<1>1. /\ c \in ContextSet /\ t \in Seq(HeaderSet) /\ c.max \in Nat /\ c.size \in Nat
      /\ c.size = SumOf(t) /\ c.size <= c.max
      /\ c = [table |-> c.table, max |-> c.max, size |-> c.size]
  BY DEF Contexts, Good, ContextSet
<1>2. SizeOf(h) \in Nat \ {0} /\ <<h>> \in Seq(HeaderSet) /\ SumOf(<<h>>) = SizeOf(h)
  BY SizeType, SumFacts
<1> HIDE DEF t
<1>3. u \in Seq(HeaderSet) /\ Len(u) = Len(t) + 1
  BY <1>1
\* The first n entries of the longer table.
<1>4. ASSUME NEW n \in 0 .. Len(t)
      PROVE  /\ SubSeq(u, 1, n + 1) = <<h>> \o SubSeq(t, 1, n)
             /\ SumOf(SubSeq(u, 1, n + 1)) = SizeOf(h) + SumOf(SubSeq(t, 1, n))
             /\ SubSeq(t, 1, n) \in Seq(HeaderSet) /\ SumOf(SubSeq(t, 1, n)) \in Nat
  <2>1. SubSeq(t, 1, n) \in Seq(HeaderSet) /\ SumOf(SubSeq(t, 1, n)) \in Nat
    BY <1>1, TwoParts
  <2>2. SubSeq(u, 1, n + 1) = <<h>> \o SubSeq(t, 1, n)
    BY <1>1
  <2> DEFINE a == SubSeq(t, 1, n)
  <2> HIDE DEF a, u
  <2>3. SumOf(<<h>> \o a) = SumOf(<<h>>) + SumOf(a)
    <3>1. a \in Seq(HeaderSet)
      BY <2>1 DEF a
    <3> QED  BY <1>2, <3>1, SumConcat
  <2> QED  BY <1>2, <2>1, <2>2, <2>3 DEF a
<1>5. CASE SizeOf(h) > c.max
  <2>1. r = [c EXCEPT !.table = <<>>, !.size = 0]
    BY <1>5 DEF AddToDynamicTable
  <2>2. r = [table |-> <<>>, max |-> c.max, size |-> 0]
    BY <1>1, <2>1
  <2>3. <<>> \in Seq(HeaderSet) /\ SumOf(<<>>) = 0
    BY SumFacts
  <2>4. r \in Contexts /\ r.max = c.max /\ r.table = <<>>
    <3>1. r \in ContextSet /\ r.max = c.max /\ r.table = <<>> /\ r.size = 0
      BY <1>1, <2>2, <2>3 DEF ContextSet
    <3> HIDE DEF r
    <3>2. SumOf(r.table) = 0
      BY <2>3, <3>1
    <3> QED  BY <1>1, <3>1, <3>2 DEF Contexts, Good
  <2>5. Fit(u, c.max, 0)
    <3>1. 0 \in 0 .. Len(t) /\ SubSeq(t, 1, 0) = <<>> /\ 0 + 1 = 1
      BY <1>1
    <3>2. SumOf(SubSeq(u, 1, 1)) = SizeOf(h) + SumOf(<<>>)
      BY <1>4, <3>1
    <3>3. SubSeq(u, 1, 0) = <<>>
      BY <1>3
    <3>4. SumOf(SubSeq(u, 1, 0)) = 0 /\ c.max < SumOf(SubSeq(u, 1, 1))
      <4>1. SumOf(SubSeq(u, 1, 0)) = 0
        BY <2>3, <3>3
      <4>2. SumOf(SubSeq(u, 1, 1)) = SizeOf(h)
        BY <1>2, <2>3, <3>2
      <4> QED  BY <1>5, <4>1, <4>2
    <3>5. 0 \in 0 .. Len(u)
      BY <1>1, <1>3
    <3> QED  BY <1>1, <3>1, <3>4, <3>5 DEF Fit
  <2>6. LongestFit(u, c.max) = SubSeq(u, 1, 0)
    <3> HIDE DEF u
    <3> QED  BY <1>1, <1>3, <2>5, FitIsLongest
  <2>7. SubSeq(u, 1, 0) = <<>>
    BY <1>3
  <2> HIDE DEF r
  <2>8. r.table = LongestFit(u, c.max)
    BY <2>4, <2>6, <2>7
  <2> QED  BY <2>4, <2>8 DEF r, t
<1>6. CASE ~(SizeOf(h) > c.max)
  <2> DEFINE limit == c.max - SizeOf(h)
             e == EvictUntil(c, limit)
  <2>1. limit \in Nat
    BY <1>1, <1>2, <1>6
  <2>2. r = [e EXCEPT !.table = <<h>> \o @, !.size = @ + SizeOf(h)]
    BY <1>6 DEF AddToDynamicTable
  <2> HIDE DEF limit
  <2>3. /\ e \in ContextSet /\ e.max = c.max /\ e.size = SumOf(e.table)
        /\ \E m : Fit(t, limit, m) /\ e.table = SubSeq(t, 1, m)
    BY <1>1, <2>1, Evict DEF t
  <2> HIDE DEF e
  <2>4. PICK m : Fit(t, limit, m) /\ e.table = SubSeq(t, 1, m)
    BY <2>3
  <2>5. /\ m \in 0 .. Len(t) /\ SumOf(SubSeq(t, 1, m)) <= limit
        /\ m = Len(t) \/ limit < SumOf(SubSeq(t, 1, m + 1))
    BY <2>4 DEF Fit
  <2>5a. e.size <= limit
    <3>1. SumOf(e.table) = SumOf(SubSeq(t, 1, m))
      BY <2>4
    <3> QED  BY <2>3, <2>5, <3>1
  <2>6. r = [table |-> <<h>> \o e.table, max |-> c.max, size |-> e.size + SizeOf(h)]
    BY <2>2, <2>3 DEF ContextSet
  <2>7. /\ SubSeq(u, 1, m + 1) = <<h>> \o e.table
        /\ SumOf(SubSeq(u, 1, m + 1)) = SizeOf(h) + e.size
        /\ e.table \in Seq(HeaderSet) /\ e.size \in Nat
    BY <1>4, <2>3, <2>4, <2>5
  <2>8. Fit(u, c.max, m + 1)
    <3>1. m + 1 \in 0 .. Len(u) /\ m \in Nat
      BY <1>1, <1>3, <2>5
    <3>2. SumOf(SubSeq(u, 1, m + 1)) <= c.max
      BY <1>1, <1>2, <2>7, <2>5a DEF limit
    <3>3. CASE m = Len(t)
      BY <1>3, <3>1, <3>2, <3>3 DEF Fit
    <3>4. CASE m # Len(t)
      <4>1. m + 1 \in 0 .. Len(t)
        BY <1>1, <2>5, <3>4
      <4>2. /\ SumOf(SubSeq(u, 1, (m + 1) + 1)) = SizeOf(h) + SumOf(SubSeq(t, 1, m + 1))
            /\ SumOf(SubSeq(t, 1, m + 1)) \in Nat
        BY <1>4, <4>1
      <4>3. c.max < SumOf(SubSeq(u, 1, (m + 1) + 1))
        BY <1>1, <1>2, <2>5, <3>4, <4>2 DEF limit
      <4> QED  BY <3>1, <3>2, <4>3 DEF Fit
    <3> QED  BY <3>3, <3>4
  <2>9. LongestFit(u, c.max) = SubSeq(u, 1, m + 1)
    <3> HIDE DEF u
    <3> QED  BY <1>1, <1>3, <2>8, FitIsLongest
  <2>10. r.table = LongestFit(u, c.max) /\ r.max = c.max
    <3>1. r.table = <<h>> \o e.table /\ r.max = c.max
      BY <2>6
    <3> HIDE DEF r, u
    <3> QED  BY <2>7, <2>9, <3>1
  <2>11. r \in Contexts
    <3>1. <<h>> \o e.table \in Seq(HeaderSet)
      BY <1>2, <2>7
    <3>2. r \in ContextSet
      BY <1>1, <1>2, <2>6, <2>7, <3>1 DEF ContextSet
    <3>3. r.size = e.size + SizeOf(h) /\ r.table = <<h>> \o e.table
      BY <2>6
    <3>4. r.size = SumOf(r.table) /\ r.size <= r.max
      <4>1. SumOf(r.table) = SizeOf(h) + e.size
        BY <2>7, <3>3
      <4>2. e.size <= limit
        BY <2>3, <2>4, <2>5
      <4> QED  BY <1>1, <1>2, <2>7, <2>10, <3>3, <4>1, <4>2 DEF limit
    <3> QED  BY <3>2, <3>4 DEF Contexts, Good
  <2> HIDE DEF r
  <2> QED  BY <2>10, <2>11 DEF r, t
<1> QED  BY <1>5, <1>6

----------------------------------------------------------------------------
(* Integers.                                                               *)

\* Quotients, remainders and digits with the bit that another one follows.
LEMMA Division ==
  ASSUME NEW w \in Nat, NEW b \in Nat, b > 1
  PROVE  /\ w \div b \in Nat /\ w % b \in 0 .. b - 1
         /\ w = (w % b) + b * (w \div b)
         /\ w >= b => w \div b >= 1 /\ w \div b < w
         /\ w < b => w % b = w
<1>1. w \div b \in Nat /\ w % b \in 0 .. b - 1
  OBVIOUS
<1>2. w = (w % b) + b * (w \div b)
  OBVIOUS
<1>3. w < b => w % b = w
  OBVIOUS
<1>4. ASSUME w >= b PROVE w \div b >= 1 /\ w \div b < w
  <2> DEFINE q == w \div b
             x == w % b
  <2>1. q \in Nat /\ x \in 0 .. b - 1 /\ w = x + b * q
    BY <1>1, <1>2
  <2> HIDE DEF q, x
  <2>2. q # 0
    BY <1>4, <2>1
  <2>3. b * q >= 2 * q
    <3>1. \E e \in Nat : b = 2 + e
      <4>1. b - 2 \in Nat /\ b = 2 + (b - 2)
        OBVIOUS
      <4> QED  BY <4>1
    <3>2. PICK e \in Nat : b = 2 + e
      BY <3>1
    <3>3. e * q \in Nat /\ (2 + e) * q = 2 * q + e * q
      BY <2>1
    <3> QED  BY <2>1, <3>2, <3>3
  <2>4. b * q \in Nat
    BY <2>1
  <2>5. q < w
    BY <2>1, <2>2, <2>3, <2>4
  <2> QED  BY <2>1, <2>2, <2>5 DEF q
<1> QED  BY <1>1, <1>2, <1>3, <1>4

LEMMA FollowedDigit ==
  ASSUME NEW b \in Nat, b > 1, NEW x \in 0 .. b - 1
  PROVE  (x + b) % b = x /\ x % b = x
<1>1. x % b = x
  OBVIOUS
<1>2. (x + b) % b = x
  <2> DEFINE y == x + b
             q == y \div b
             z == y % b
  <2>1. y \in Nat /\ q \in Nat /\ z \in 0 .. b - 1 /\ y = z + b * q
    <3>1. y \in Nat
      OBVIOUS
    <3> HIDE DEF y
    <3> QED  BY <3>1, Division
  <2>2. x + b = z + b * q
    BY <2>1
  <2> HIDE DEF q, z, y
  <2>3. q # 0
    BY <2>1, <2>2
  <2>4. CASE q = 1
    BY <2>1, <2>2, <2>4 DEF z, y
  <2>5. CASE q >= 2
    <3>1. PICK e \in Nat : q = 2 + e
      <4>1. q - 2 \in Nat /\ q = 2 + (q - 2)
        BY <2>1, <2>5
      <4> QED  BY <4>1
    <3>2. b * (2 + e) = 2 * b + b * e /\ b * e \in Nat
      OBVIOUS
    <3> QED  BY <2>1, <2>2, <3>1, <3>2
  <2> QED  BY <2>1, <2>3, <2>4, <2>5
<1> QED  BY <1>1, <1>2

\* What each digit counts.
LEMMA PowerFacts ==
  /\ Power[0] = 1
  /\ \A k \in 1 .. LastDigit : Power[k] = Base * Power[k - 1]
  /\ \A k \in 0 .. LastDigit : Power[k] \in Nat \ {0}
<1> DEFINE Raises(f, n) == f = [k \in 0 .. n |-> IF k = 0 THEN 1 ELSE Base * f[k - 1]]
           T == {n \in Nat : \E f : Raises(f, n)}
<1>1. 0 \in T
  <2> DEFINE f == [k \in 0 .. 0 |-> 1]
  <2>1. f = [k \in 0 .. 0 |-> IF k = 0 THEN 1 ELSE Base * f[k - 1]]
    OBVIOUS
  <2> QED  BY <2>1
<1>2. ASSUME NEW n \in Nat, n \in T PROVE n + 1 \in T
  <2>1. PICK f : Raises(f, n)
    BY <1>2
  <2> DEFINE g == [k \in 0 .. n + 1 |-> IF k = n + 1 THEN Base * f[n] ELSE f[k]]
  <2>2. ASSUME NEW k \in 0 .. n + 1 PROVE g[k] = IF k = 0 THEN 1 ELSE Base * g[k - 1]
    <3>1. CASE k = n + 1
      <4>1. n \in 0 .. n + 1 /\ n # n + 1 /\ k - 1 = n /\ k # 0
        BY <3>1
      <4> QED  BY <3>1, <4>1
    <3>2. CASE k # n + 1
      <4>1. k \in 0 .. n
        BY <3>2
      <4>2. f[k] = IF k = 0 THEN 1 ELSE Base * f[k - 1]
        BY <2>1, <4>1
      <4>3. k # 0 => k - 1 \in 0 .. n + 1 /\ k - 1 # n + 1
        BY <4>1
      <4> QED  BY <3>2, <4>2, <4>3
    <3> QED  BY <3>1, <3>2
  <2>3. g = [k \in 0 .. n + 1 |-> IF k = 0 THEN 1 ELSE Base * g[k - 1]]
    BY <2>2
  <2> HIDE DEF g
  <2>4. Raises(g, n + 1)
    BY <2>3
  <2> QED  BY <2>4
<1> HIDE DEF T
<1>3. LastDigit \in T
  BY <1>1, <1>2, EveryNat, IntegerAssumption
<1>4. Power = [k \in 0 .. LastDigit |-> IF k = 0 THEN 1 ELSE Base * Power[k - 1]]
  <2>1. PICK f : Raises(f, LastDigit)
    BY <1>3 DEF T
  <2> QED  BY <2>1 DEF Power
<1>5. LastDigit \in Nat /\ Base \in Nat /\ Base > 1
  BY IntegerAssumption
<1>6. Power[0] = 1 /\ \A k \in 1 .. LastDigit : Power[k] = Base * Power[k - 1]
  <2>1. 0 \in 0 .. LastDigit
    BY <1>5
  <2>2. Power[0] = 1
    BY <1>4, <2>1
  <2>3. ASSUME NEW k \in 1 .. LastDigit PROVE Power[k] = Base * Power[k - 1]
    <3>1. k \in 0 .. LastDigit /\ k # 0
      BY <1>5
    <3> QED  BY <1>4, <3>1
  <2> QED  BY <2>2, <2>3
<1>7. \A k \in 0 .. LastDigit : Power[k] \in Nat \ {0}
  <2> DEFINE A == Nat \ {0}
  <2>1. Power[0] \in A
    BY <1>6
  <2>2. ASSUME NEW k \in 1 .. LastDigit, Power[k - 1] \in A PROVE Power[k] \in A
    <3>1. \A x \in Nat, y \in Nat : x > 0 /\ y > 0 => x * y \in Nat /\ x * y > 0
      OBVIOUS
    <3> QED  BY <1>5, <1>6, <2>2, <3>1
  <2> HIDE DEF A
  <2> QED  BY <1>5, <2>1, <2>2, TypedSteps DEF A
<1> QED  BY <1>6, <1>7

\* What the integers can be.
LEMMA LimitFacts ==
  /\ Limit \in Nat /\ Limit >= 1 /\ MaxInt \in Nat /\ Limit <= MaxInt
  /\ Limit = Power[LastDigit - 1] * (LastChunk + 1)
  /\ Base \in Nat /\ Base > 1 /\ LastDigit \in Nat /\ LastDigit >= 1
  /\ LastChunk \in 0 .. Base - 1
  /\ \A kind \in Kinds : Mask[kind] \in 1 .. 2 * Base - 1
<1>1. /\ Base \in Nat /\ Base > 1 /\ LastDigit \in Nat /\ LastDigit >= 1
      /\ LastChunk \in 0 .. Base - 1
  BY IntegerAssumption
<1>2. Power[LastDigit - 1] \in Nat \ {0} /\ LastChunk + 1 \in Nat \ {0}
  BY <1>1, PowerFacts
<1>3. \A x \in Nat, y \in Nat : x > 0 /\ y > 0 => x * y \in Nat /\ x * y >= 1
  OBVIOUS
<1>4. Limit \in Nat /\ Limit >= 1
  BY <1>2, <1>3 DEF Limit
<1>5. \A kind \in Kinds : Mask[kind] \in 1 .. 2 * Base - 1
  BY IntegerAssumption
<1> QED  BY <1>1, <1>4, <1>5 DEF Limit, MaxInt

\* Digits is what its recursion says.
LEMMA DigitsSteps ==
  \A v \in 0 .. MaxInt :
    Digits[v] = IF v >= Base THEN <<(v % Base) + Base>> \o Digits[v \div Base] ELSE <<v>>
<1> DEFINE Next1(f, v) == IF v >= Base THEN <<(v % Base) + Base>> \o f[v \div Base] ELSE <<v>>
           Writes(f, n) == f = [v \in 0 .. n |-> Next1(f, v)]
           T == {n \in Nat : \E f : Writes(f, n)}
<1>0. /\ Base \in Nat /\ Base > 1 /\ MaxInt \in Nat
      /\ \A v \in Nat : v >= Base => v \div Base \in 0 .. v - 1
  <2>1. Base \in Nat /\ Base > 1 /\ MaxInt \in Nat
    BY LimitFacts
  <2>2. \A v \in Nat : v >= Base => v \div Base \in Nat /\ v \div Base < v
    BY <2>1, Division
  <2> QED  BY <2>1, <2>2
<1>1. 0 \in T
  <2> DEFINE f == [v \in 0 .. 0 |-> <<v>>]
  <2>1. \A v \in 0 .. 0 : ~(v >= Base)
    BY <1>0
  <2>2. f = [v \in 0 .. 0 |-> Next1(f, v)]
    BY <2>1
  <2> QED  BY <2>2
<1>2. ASSUME NEW n \in Nat, n \in T PROVE n + 1 \in T
  <2>1. PICK f : Writes(f, n)
    BY <1>2
  <2> DEFINE g == [v \in 0 .. n + 1 |-> IF v = n + 1 THEN Next1(f, v) ELSE f[v]]
  <2>2. ASSUME NEW v \in 0 .. n + 1 PROVE g[v] = Next1(g, v)
    <3>1. g[v] = Next1(f, v)
      <4>1. CASE v = n + 1
        BY <4>1
      <4>2. CASE v # n + 1
        <5>1. v \in 0 .. n
          BY <4>2
        <5> QED  BY <2>1, <4>2, <5>1
      <4> QED  BY <4>1, <4>2
    <3>2. v >= Base => v \div Base \in 0 .. n
      BY <1>0
    <3>3. \A x \in 0 .. n : g[x] = f[x]
      OBVIOUS
    <3> HIDE DEF g
    <3> QED  BY <3>1, <3>2, <3>3
  <2>3. g = [v \in 0 .. n + 1 |-> Next1(g, v)]
    <3> HIDE DEF Next1
    <3>1. g = [v \in 0 .. n + 1 |-> g[v]]
      OBVIOUS
    <3> HIDE DEF g
    <3> QED  BY <2>2, <3>1
  <2> HIDE DEF g
  <2>4. Writes(g, n + 1)
    BY <2>3
  <2> QED  BY SMTT(30), <2>4
<1> HIDE DEF T
<1>3. MaxInt \in T
  BY <1>0, <1>1, <1>2, EveryNat
<1>4. Digits = [v \in 0 .. MaxInt |-> Next1(Digits, v)]
  <2>1. PICK f : Writes(f, MaxInt)
    BY <1>3 DEF T
  <2> QED  BY <2>1 DEF Digits
<1> HIDE DEF Next1
<1>5. \A v \in 0 .. MaxInt : Digits[v] = Next1(Digits, v)
  BY <1>4
<1> QED  BY <1>5 DEF Next1

\* The digits of an integer and what is left of it after each.
Chain(w, D, r) ==
  /\ D \in Seq(0 .. 2 * Base - 1) /\ Len(D) >= 1 /\ D[Len(D)] < Base
  /\ r \in [Nat -> Nat] /\ r[0] = w
  /\ \A k \in 1 .. Len(D) : r[k - 1] = (D[k] % Base) + Base * r[k]
  /\ \A k \in 1 .. Len(D) - 1 : D[k] >= Base /\ r[k] >= 1
  /\ \A k \in Nat : k >= Len(D) => r[k] = 0

LEMMA DigitChain ==
  ASSUME NEW w \in 0 .. MaxInt
  PROVE  \E r : Chain(w, Digits[w], r)
<1> DEFINE T == {v \in Nat : v <= MaxInt => \E r : Chain(v, Digits[v], r)}
<1>0. Base \in Nat /\ Base > 1 /\ MaxInt \in Nat
  BY LimitFacts
<1>1. ASSUME NEW n \in Nat, \A m \in Nat : m < n => m \in T PROVE n \in T
  <2> SUFFICES ASSUME n <= MaxInt PROVE \E r : Chain(n, Digits[n], r)
    OBVIOUS
  <2>0. n \in 0 .. MaxInt
    OBVIOUS
  <2>1. CASE n < Base
    <3> DEFINE D == <<n>>
               r == [k \in Nat |-> IF k = 0 THEN n ELSE 0]
    <3>1. Digits[n] = D
      <4>1. ~(n >= Base)
        BY <1>0, <2>1
      <4> QED  BY <2>0, <4>1, DigitsSteps
    <3>2. D \in Seq(0 .. 2 * Base - 1) /\ Len(D) = 1 /\ D[1] = n
      BY <1>0, <2>1
    <3>3. n % Base = n
      BY <1>0, <2>1, Division
    <3>4. r \in [Nat -> Nat] /\ r[0] = n /\ \A k \in Nat : k >= 1 => r[k] = 0
      OBVIOUS
    <3>5. Base * 0 = 0 /\ r[1] = 0
      BY <1>0
    <3> HIDE DEF D, r
    <3>6. Chain(n, D, r)
      <4>1. \A k \in 1 .. 1 : k = 1 /\ k - 1 = 0
        OBVIOUS
      <4>2. \A k \in 1 .. 1 - 1 : FALSE
        OBVIOUS
      <4> QED  BY <2>1, <3>2, <3>3, <3>4, <3>5, <4>1, <4>2 DEF Chain
    <3> QED  BY <3>1, <3>6
  <2>2. CASE n >= Base
    <3> DEFINE q == n \div Base
               x == n % Base
               E == Digits[q]
    <3>1. q \in Nat /\ x \in 0 .. Base - 1 /\ n = x + Base * q /\ q >= 1 /\ q < n
      BY <1>0, <2>2, Division
    <3>2. Digits[n] = <<x + Base>> \o E
      BY <2>0, <2>2, DigitsSteps
    <3> HIDE DEF q, x
    <3>3. PICK s : Chain(q, E, s)
      <4>1. q \in T /\ q <= MaxInt
        BY <1>0, <1>1, <3>1
      <4> QED  BY <4>1
    <3> HIDE DEF E
    <3>4. /\ E \in Seq(0 .. 2 * Base - 1) /\ Len(E) >= 1 /\ E[Len(E)] < Base
          /\ s \in [Nat -> Nat] /\ s[0] = q
          /\ \A k \in 1 .. Len(E) : s[k - 1] = (E[k] % Base) + Base * s[k]
          /\ \A k \in 1 .. Len(E) - 1 : E[k] >= Base /\ s[k] >= 1
          /\ \A k \in Nat : k >= Len(E) => s[k] = 0
      BY <3>3 DEF Chain
    <3> DEFINE D == <<x + Base>> \o E
               r == [k \in Nat |-> IF k = 0 THEN n ELSE s[k - 1]]
    <3>5. /\ D \in Seq(0 .. 2 * Base - 1) /\ Len(D) = Len(E) + 1 /\ D[1] = x + Base
          /\ \A k \in 1 .. Len(E) : D[k + 1] = E[k]
      BY <1>0, <3>1, <3>4
    <3>6. /\ r \in [Nat -> Nat] /\ r[0] = n
          /\ \A k \in Nat : k >= 1 => r[k] = s[k - 1]
      <4>1. s \in [Nat -> Nat]
        BY <3>4
      <4>2. \A k \in Nat : k # 0 => k - 1 \in Nat /\ s[k - 1] \in Nat
        BY <4>1
      <4>3. \A k \in Nat : (IF k = 0 THEN n ELSE s[k - 1]) \in Nat
        BY <4>2
      <4> QED  BY <4>3
    <3>7. D[1] % Base = x
      BY <1>0, <3>1, <3>5, FollowedDigit
    <3>8. Len(E) \in Nat
      <4>1. E \in Seq(0 .. 2 * Base - 1)
        BY <3>4
      <4> QED  BY <4>1, LenProperties
    <3> HIDE DEF D, r
    <3>9. ASSUME NEW k \in 1 .. Len(D) PROVE r[k - 1] = (D[k] % Base) + Base * r[k]
      <4>1. CASE k = 1
        <5>1. r[k] = q /\ r[k - 1] = n
          BY <3>4, <3>6, <4>1
        <5> QED  BY <3>1, <3>7, <4>1, <5>1
      <4>2. CASE k # 1
        <5> DEFINE j == k - 1
        <5>1. j \in 1 .. Len(E) /\ k = j + 1
          BY <3>5, <3>8, <4>2
        <5> HIDE DEF j
        <5>2. r[k - 1] = s[j - 1] /\ r[k] = s[j] /\ D[k] = E[j]
          <6>1. k - 1 = j /\ j \in Nat /\ j >= 1 /\ k \in Nat /\ k >= 1
            BY <3>8, <5>1
          <6> QED  BY <3>5, <3>6, <5>1, <6>1
        <5> QED  BY <3>4, <5>1, <5>2
      <4> QED  BY <4>1, <4>2
    <3>10. ASSUME NEW k \in 1 .. Len(D) - 1 PROVE D[k] >= Base /\ r[k] >= 1
      <4>1. CASE k = 1
        <5>1. r[k] = q
          BY <3>4, <3>6, <4>1
        <5> QED  BY <1>0, <3>1, <3>5, <4>1, <5>1
      <4>2. CASE k # 1
        <5> DEFINE j == k - 1
        <5>1. j \in 1 .. Len(E) - 1 /\ j \in 1 .. Len(E) /\ k = j + 1
          BY <3>5, <3>8, <4>2
        <5> HIDE DEF j
        <5>2. r[k] = s[j] /\ D[k] = E[j]
          <6>1. k - 1 = j /\ k \in Nat /\ k >= 1
            BY <3>8, <5>1
          <6> QED  BY <3>5, <3>6, <5>1, <6>1
        <5> QED  BY <3>4, <5>1, <5>2
      <4> QED  BY <4>1, <4>2
    <3>11. ASSUME NEW k \in Nat, k >= Len(D) PROVE r[k] = 0
      <4>1. k - 1 \in Nat /\ k - 1 >= Len(E) /\ k >= 1
        BY <3>4, <3>5, <3>8, <3>11
      <4> QED  BY <3>4, <3>6, <4>1
    <3>12. D[Len(D)] < Base
      <4>1. Len(E) \in 1 .. Len(E)
        BY <3>4, <3>8
      <4> QED  BY <3>4, <3>5, <4>1
    <3>13. Len(D) >= 1
      BY <3>5, <3>8
    <3>14. Chain(n, D, r)
      BY <3>5, <3>6, <3>9, <3>10, <3>11, <3>12, <3>13 DEF Chain
    <3> QED  BY <3>2, <3>14 DEF D
  <2> QED  BY <1>0, <2>1, <2>2
<1> HIDE DEF T
<1>2. Nat \subseteq T
  BY <1>1, EveryNatStrong
<1> QED  BY <1>0, <1>2 DEF T

\* What is left lies between what its digits count.
LEMMA ChainBounds ==
  ASSUME NEW w \in Nat, NEW D, NEW r, Chain(w, D, r), NEW k \in 0 .. LastDigit
  PROVE  Power[k] * r[k] <= w /\ w < Power[k] * (r[k] + 1)
<1> DEFINE Q(j) == Power[j] * r[j] <= w /\ w < Power[j] * (r[j] + 1)
           T == {j \in Nat : j <= LastDigit => Q(j)}
<1>0. /\ Base \in Nat /\ Base > 1 /\ LastDigit \in Nat
      /\ \A j \in Nat : r[j] \in Nat
  BY LimitFacts DEF Chain
<1>1. 0 \in T
  <2>1. Power[0] = 1 /\ r[0] = w
    BY PowerFacts DEF Chain
  <2>2. 1 * w = w /\ 1 * (w + 1) = w + 1
    OBVIOUS
  <2> QED  BY <2>1, <2>2
<1>2. ASSUME NEW j \in Nat, j \in T PROVE j + 1 \in T
  <2> SUFFICES ASSUME j + 1 <= LastDigit PROVE Q(j + 1)
    OBVIOUS
  <2>1. Q(j)
    BY <1>0, <1>2
  <2>2. j + 1 \in 1 .. LastDigit /\ (j + 1) - 1 = j /\ j \in 0 .. LastDigit
    BY <1>0
  <2> DEFINE p == Power[j]
             a == r[j]
             b == r[j + 1]
             P2 == Power[j + 1]
  <2>3. p \in Nat \ {0} /\ a \in Nat /\ b \in Nat /\ P2 = Base * p /\ P2 \in Nat
    BY <1>0, <2>2, PowerFacts
  <2>4. \E d \in 0 .. Base - 1 : a = d + Base * b
    <3>1. CASE j + 1 <= Len(D)
      <4>1. j + 1 \in 1 .. Len(D) /\ D \in Seq(0 .. 2 * Base - 1)
        BY <3>1 DEF Chain
      <4>2. D[j + 1] \in Nat
        BY <1>0, <4>1
      <4>3. D[j + 1] % Base \in 0 .. Base - 1
        BY <1>0, <4>2, Division
      <4>4. a = (D[j + 1] % Base) + Base * b
        BY <2>2, <4>1 DEF Chain
      <4> QED  BY <4>3, <4>4
    <3>2. CASE ~(j + 1 <= Len(D))
      <4>1. Len(D) \in Nat
        <5>1. D \in Seq(0 .. 2 * Base - 1)
          BY DEF Chain
        <5> QED  BY <5>1, LenProperties
      <4>2. j >= Len(D) /\ j + 1 >= Len(D) /\ j + 1 \in Nat
        BY <3>2, <4>1
      <4>5. \A i \in Nat : i >= Len(D) => r[i] = 0
        BY DEF Chain
      <4>6. a = 0 /\ b = 0
        BY <4>2, <4>5
      <4>3. 0 \in 0 .. Base - 1 /\ 0 = 0 + Base * 0
        BY <1>0
      <4> QED  BY <4>6, <4>3
    <3> QED  BY <3>1, <3>2
  <2>5. PICK d \in 0 .. Base - 1 : a = d + Base * b
    BY <2>4
  <2>6. p * a <= w /\ w < p * (a + 1)
    BY <2>1
  <2> HIDE DEF p, a, b, P2
  <2>7. P2 * b <= p * a
    <3>1. p * a = p * d + (Base * p) * b
      BY <1>0, <2>3, <2>5
    <3>2. p * d \in Nat /\ (Base * p) * b \in Nat
      BY <1>0, <2>3
    <3> QED  BY <2>3, <3>1, <3>2
  <2>8. p * (a + 1) <= P2 * (b + 1)
    <3>1. PICK e \in Nat : Base = d + 1 + e
      <4>1. Base - (d + 1) \in Nat /\ Base = d + 1 + (Base - (d + 1))
        BY <1>0
      <4> QED  BY <4>1
    <3>2. (Base * p) * (b + 1) = p * (Base * b + Base)
      BY <1>0, <2>3
    <3>3. Base * b + Base = (a + 1) + e
      BY <1>0, <2>3, <2>5, <3>1
    <3>4. p * ((a + 1) + e) = p * (a + 1) + p * e /\ p * e \in Nat /\ p * (a + 1) \in Nat
      BY <2>3
    <3> QED  BY <2>3, <3>2, <3>3, <3>4
  <2>9. P2 * b <= w /\ w < P2 * (b + 1)
    <3>1. P2 * b \in Nat /\ p * a \in Nat /\ p * (a + 1) \in Nat /\ P2 * (b + 1) \in Nat
      BY <2>3
    <3> QED  BY <2>6, <2>7, <2>8, <3>1
  <2> QED  BY <2>9 DEF P2, b
<1> HIDE DEF T
<1>3. k \in T
  BY <1>0, <1>1, <1>2, EveryNat
<1> QED  BY <1>0, <1>3 DEF T

\* The digits are added one by one.
LEMMA GatherSteps ==
  ASSUME NEW D \in Seq(Nat), Len(D) <= LastDigit, NEW mask \in Nat
  PROVE  \E g : /\ g[0] = mask /\ g[Len(D)] = Gathered(mask, D)
                /\ \A k \in 1 .. Len(D) : g[k] = g[k - 1] + (D[k] % Base) * Power[k - 1]
<1> DEFINE n == Len(D)
           ids == [i \in DOMAIN D |-> i]
           Add(k) == (D[k] % Base) * Power[k - 1]
           G == [x \in Nat \X (1 .. n) |-> x[1] + Add(x[2])]
           it == CHOOSE f : f = [u \in SUBSET DOMAIN ids |->
                                   IF u = {} THEN mask
                                   ELSE f[u \ {Max(u)}]
                                        + (D[ids[Max(u)]] % Base) * Power[ids[Max(u)] - 1]]
           g == [k \in 0 .. n |-> it[1 .. k]]
<1>1. /\ n \in Nat /\ DOMAIN D = 1 .. n /\ DOMAIN ids = 1 .. n /\ n <= LastDigit
      /\ \A k \in 1 .. n : ids[k] = k
  OBVIOUS
<1>2. Gathered(mask, D) = it[DOMAIN ids]
  BY DEF Gathered, FoldLeftDomain, FoldLeft, MapThenFoldSet
<1> HIDE DEF ids
<1>3. \A k \in 1 .. n : Add(k) \in Nat
  <2>1. ASSUME NEW k \in 1 .. n PROVE Add(k) \in Nat
    <3>1. D[k] \in Nat /\ Base \in Nat /\ Base > 1
      BY LimitFacts
    <3>2. D[k] % Base \in Nat
      BY <3>1, Division
    <3>3. k - 1 \in 0 .. LastDigit
      BY <1>1, LimitFacts
    <3>4. Power[k - 1] \in Nat
      BY <3>3, PowerFacts
    <3> QED  BY <3>2, <3>4
  <2> QED  BY <2>1
<1>4. \A k \in 1 .. n : (D[ids[k]] % Base) * Power[ids[k] - 1] = Add(k)
  BY <1>1
<1> HIDE DEF Add
<1>5. G \in [Nat \X (1 .. n) -> Nat] /\ \A x \in Nat, k \in 1 .. n : G[<<x, k>>] = x + Add(k)
  BY <1>3
<1> HIDE DEF G
<1>6. it = [u \in SUBSET (1 .. n) |-> IF u = {} THEN mask ELSE it[u \ {Max(u)}] + Add(Max(u))]
  <2>1. PICK f : Solves(f, Nat, mask, G, n)
    BY <1>1, <1>5, Solution
  <2> DEFINE Raw(f_, u) ==
               IF u = {} THEN mask
               ELSE f_[u \ {Max(u)}] + (D[ids[Max(u)]] % Base) * Power[ids[Max(u)] - 1]
  <2>2. \A u \in SUBSET (1 .. n) : u # {} => Max(u) \in 1 .. n
    BY <1>1, MaxMember
  <2>3. \A f_, u : u \in SUBSET (1 .. n) =>
          Raw(f_, u) = IF u = {} THEN mask ELSE f_[u \ {Max(u)}] + Add(Max(u))
    BY <1>4, <2>2
  <2> HIDE DEF Raw
  <2>4. ASSUME NEW u \in SUBSET (1 .. n) PROVE f[u] = Raw(f, u)
    <3>1. CASE u = {}
      BY <2>1, <2>3, <3>1 DEF Solves
    <3>2. CASE u # {}
      <4>1. f[u \ {Max(u)}] \in Nat
        BY <2>1 DEF Solves
      <4>2. f[u] = G[<<f[u \ {Max(u)}], Max(u)>>]
        BY <2>1, <3>2 DEF Solves
      <4>3. f[u] = f[u \ {Max(u)}] + Add(Max(u))
        BY <1>5, <2>2, <3>2, <4>1, <4>2
      <4>4. Raw(f, u) = f[u \ {Max(u)}] + Add(Max(u))
        <5>1. Raw(f, u) = IF u = {} THEN mask ELSE f[u \ {Max(u)}] + Add(Max(u))
          BY <2>3
        <5> QED  BY <3>2, <5>1
      <4> QED  BY <4>3, <4>4
    <3> QED  BY <3>1, <3>2
  <2>5. f = [u \in SUBSET (1 .. n) |-> Raw(f, u)]
    BY <2>1, <2>4 DEF Solves
  <2>6. it = [u \in SUBSET (1 .. n) |-> Raw(it, u)]
    <3>1. it = CHOOSE f_ : f_ = [u \in SUBSET (1 .. n) |-> Raw(f_, u)]
      BY <1>1 DEF Raw
    <3> HIDE DEF it
    <3> QED  BY <2>5, <3>1
  <2> HIDE DEF it
  <2>7. \A u \in SUBSET (1 .. n) :
          Raw(it, u) = IF u = {} THEN mask ELSE it[u \ {Max(u)}] + Add(Max(u))
    BY <2>3
  <2> QED  BY <2>6, <2>7
<1> HIDE DEF it
<1>7. g[0] = mask
  <2>1. 1 .. 0 \in SUBSET (1 .. n) /\ 1 .. 0 = {}
    BY <1>1
  <2> QED  BY <1>1, <1>6, <2>1
<1>8. ASSUME NEW k \in 1 .. n PROVE g[k] = g[k - 1] + Add(k)
  <2>1. /\ 1 .. k \in SUBSET (1 .. n) /\ 1 .. k # {} /\ Max(1 .. k) = k
        /\ (1 .. k) \ {k} = 1 .. k - 1 /\ k - 1 \in 0 .. n
    BY <1>1, Intervals
  <2>2. it[1 .. k] = it[1 .. k - 1] + Add(k)
    BY <1>6, <2>1
  <2> QED  BY <1>1, <2>1, <2>2
<1>9. g[n] = Gathered(mask, D)
  BY <1>1, <1>2
<1> HIDE DEF g
<1> QED  BY <1>7, <1>8, <1>9 DEF Add

\* The digits of an integer add up to it.
LEMMA GatherValue ==
  ASSUME NEW w \in Nat, NEW D, NEW r, Chain(w, D, r), Len(D) <= LastDigit, NEW mask \in Nat
  PROVE  Gathered(mask, D) = mask + w
<1> DEFINE n == Len(D)
<1>0. Base \in Nat /\ Base > 1
  BY LimitFacts
<1>1. /\ Base \in Nat /\ Base > 1 /\ LastDigit \in Nat
      /\ D \in Seq(0 .. 2 * Base - 1) /\ r \in [Nat -> Nat]
  BY LimitFacts DEF Chain
<1>2. n \in Nat /\ n <= LastDigit /\ D \in Seq(Nat)
  <2>1. 0 .. 2 * Base - 1 \subseteq Nat
    BY <1>1
  <2> QED  BY <1>1, <2>1, SeqMonotonic, LenProperties
<1>3. PICK g : /\ g[0] = mask /\ g[n] = Gathered(mask, D)
               /\ \A k \in 1 .. n : g[k] = g[k - 1] + (D[k] % Base) * Power[k - 1]
  BY <1>2, GatherSteps
<1> DEFINE a == [k \in 0 .. n |-> g[k] + Power[k] * r[k]]
           b == [k \in 0 .. n |-> mask + w]
           ok == [k \in 0 .. n |-> g[k] \in Nat /\ a[k] = b[k]]
<1> HIDE DEF n
<1>4. ok[0] \in {TRUE}
  <2>1. Power[0] = 1 /\ r[0] = w /\ 0 \in 0 .. n
    BY <1>2, PowerFacts DEF Chain
  <2>2. 1 * w = w
    OBVIOUS
  <2> QED  BY <1>3, <2>1, <2>2
<1>5. ASSUME NEW k \in 1 .. n, ok[k - 1] \in {TRUE} PROVE ok[k] \in {TRUE}
  <2>1. /\ k - 1 \in 0 .. n /\ k \in 0 .. n /\ k \in 1 .. LastDigit /\ k - 1 \in 0 .. LastDigit
        /\ k \in Nat /\ k - 1 \in Nat
    BY <1>1, <1>2
  <2> DEFINE p == Power[k - 1]
             x == r[k]
             y == r[k - 1]
             d == D[k] % Base
             s == g[k - 1]
  <2>2. p \in Nat /\ Power[k] = Base * p /\ x \in Nat /\ y \in Nat
    BY <1>1, <2>1, PowerFacts
  <2>3. d \in Nat
    <3>1. D[k] \in Nat
      BY <1>2 DEF n
    <3> QED  BY <1>0, <3>1, Division
  <2>4. y = d + Base * x
    BY DEF Chain, n
  <2>5. s \in Nat /\ s + p * y = mask + w
    BY <1>5, <2>1
  <2>6. g[k] = s + d * p
    BY <1>3
  <2> HIDE DEF p, x, y, d, s
  <2>7. p * y = d * p + (Base * p) * x
    BY <1>1, <2>2, <2>3, <2>4
  <2>8. d * p \in Nat /\ (Base * p) * x \in Nat
    BY <1>1, <2>2, <2>3
  <2>9. g[k] \in Nat /\ g[k] + (Base * p) * x = mask + w
    BY <2>5, <2>6, <2>7, <2>8
  <2>10. a[k] = b[k]
    BY <2>1, <2>2, <2>9 DEF x
  <2> QED  BY <2>1, <2>9, <2>10
<1> HIDE DEF ok, a, b
<1>6. \A k \in 0 .. n : ok[k] \in {TRUE}
  <2>1. n \in Nat
    BY <1>2
  <2> QED  BY ONLY <1>4, <1>5, <2>1, TypedSteps
<1>7. g[n] \in Nat /\ g[n] + Power[n] * r[n] = mask + w
  <2>1. n \in 0 .. n
    BY <1>2
  <2> QED  BY <1>6, <2>1 DEF ok, a, b
<1>8. r[n] = 0 /\ Power[n] \in Nat
  <2>1. n \in 0 .. LastDigit
    BY <1>1, <1>2
  <2>2. \A k \in Nat : k >= n => r[k] = 0
    BY DEF Chain, n
  <2>3. r[n] = 0
    BY <1>2, <2>2
  <2> QED  BY <2>1, <2>3, PowerFacts
<1> QED  BY <1>3, <1>7, <1>8

\* The digits and the limit tell the same values from the others.
LEMMA ChainLimit ==
  ASSUME NEW w \in Nat, NEW D, NEW r, Chain(w, D, r)
  PROVE  w < Limit <=> ~(Len(D) > LastDigit \/ (Len(D) = LastDigit /\ D[Len(D)] > LastChunk))
<1> DEFINE n == Len(D)
           L == LastDigit - 1
           p == Power[L]
           x == r[L]
           c == LastChunk + 1
<1>0. Base \in Nat /\ Base > 1
  BY LimitFacts
<1>9. Limit = p * c
  BY LimitFacts
<1>1. /\ Base \in Nat /\ Base > 1 /\ LastDigit \in Nat /\ LastDigit >= 1
      /\ LastChunk \in 0 .. Base - 1
  BY LimitFacts
<1>10. \A k \in Nat : r[k] \in Nat
  BY DEF Chain
<1>11. D \in Seq(0 .. 2 * Base - 1) /\ Len(D) >= 1
  BY DEF Chain
<1>12. L \in 0 .. LastDigit /\ L \in Nat /\ LastDigit = L + 1
  BY <1>1
<1>2. L \in 0 .. LastDigit /\ L \in Nat /\ p \in Nat \ {0} /\ x \in Nat /\ c \in 1 .. Base
  <2>1. p \in Nat \ {0}
    BY <1>12, PowerFacts
  <2>2. x \in Nat
    BY <1>10, <1>12
  <2>3. c \in 1 .. Base
    BY <1>1
  <2> QED  BY <1>12, <2>1, <2>2, <2>3
<1>3. n \in Nat /\ n >= 1 /\ \A k \in 1 .. n : D[k] \in Nat
  <2>1. n \in Nat /\ n >= 1
    BY <1>11, LenProperties
  <2>2. \A k \in 1 .. n : D[k] \in 0 .. 2 * Base - 1
    BY <1>11, ElementOfSeq
  <2>3. 0 .. 2 * Base - 1 \subseteq Nat
    BY <1>0
  <2> QED  BY <2>1, <2>2, <2>3
<1> HIDE DEF n
<1>4. p * x <= w /\ w < p * (x + 1)
  BY <1>2, ChainBounds
<1>5. /\ \A k \in 1 .. n : r[k - 1] = (D[k] % Base) + Base * r[k]
      /\ \A k \in 1 .. n - 1 : D[k] >= Base /\ r[k] >= 1
      /\ \A k \in Nat : k >= n => r[k] = 0
      /\ D[n] < Base
  BY DEF Chain, n
\* Of two factors.
<1>6. \A a \in Nat, b \in Nat : a <= b => p * a <= p * b /\ p * a \in Nat /\ p * b \in Nat
  <2>1. ASSUME NEW a \in Nat, NEW b \in Nat, a <= b
        PROVE  p * a <= p * b /\ p * a \in Nat /\ p * b \in Nat
    <3>1. PICK e \in Nat : b = a + e
      <4>1. b - a \in Nat /\ b = a + (b - a)
        BY <2>1
      <4> QED  BY <4>1
    <3>2. p * (a + e) = p * a + p * e /\ p * a \in Nat /\ p * e \in Nat
      BY <1>2
    <3> QED  BY <3>1, <3>2
  <2> QED  BY <2>1
<1>7. CASE n > LastDigit
  <2>1. /\ LastDigit \in 1 .. n - 1 /\ LastDigit \in 1 .. n
        /\ LastDigit \in Nat
    BY <1>1, <1>3, <1>7
  <2>2. x = (D[LastDigit] % Base) + Base * r[LastDigit] /\ r[LastDigit] >= 1
    BY <1>5, <2>1
  <2>3. D[LastDigit] \in Nat /\ r[LastDigit] \in Nat
    <3> QED  BY <1>3, <1>10, <2>1
  <2>4. D[LastDigit] % Base \in Nat
    BY <1>0, <2>3, Division
  <2>5. x >= Base
    <3>1. \A m \in Nat : m >= 1 => Base * m >= Base
      <4>1. ASSUME NEW m \in Nat, m >= 1 PROVE Base * m >= Base
        <5>1. PICK e \in Nat : m = 1 + e
          <6>1. m - 1 \in Nat /\ m = 1 + (m - 1)
            BY <4>1
          <6> QED  BY <6>1
        <5>2. Base * (1 + e) = Base + Base * e /\ Base * e \in Nat
          BY <1>1
        <5> QED  BY <1>1, <5>1, <5>2
      <4> QED  BY <4>1
    <3>2. Base * r[LastDigit] >= Base /\ Base * r[LastDigit] \in Nat
      BY <1>1, <2>2, <2>3, <3>1
    <3> QED  BY <1>1, <2>2, <2>4, <3>2
  <2> HIDE DEF x, c, p
  <2>6. c <= x /\ c \in Nat
    BY <1>1, <1>2, <2>5
  <2>7. p * c <= p * x /\ p * c \in Nat /\ p * x \in Nat
    BY <1>2, <1>6, <2>6
  <2>8. ~(w < Limit)
    BY <1>4, <1>9, <2>7
  <2> QED  BY <1>7, <2>8 DEF n
<1>8. CASE n <= LastDigit
  <2>1. x = IF n = LastDigit THEN D[n] ELSE 0
    <3>1. CASE n = LastDigit
      <4>1. n \in 1 .. n /\ L = n - 1 /\ r[n] = 0
        BY <1>3, <1>5, <3>1
      <4>2. x = (D[n] % Base) + Base * 0
        BY <1>5, <4>1
      <4>3. D[n] \in Nat
        BY <1>1, <1>3
      <4>4. D[n] % Base = D[n]
        BY <1>0, <1>5, <4>3, Division
      <4>5. Base * 0 = 0
        BY <1>1
      <4> QED  BY <3>1, <4>2, <4>3, <4>4, <4>5
    <3>2. CASE n # LastDigit
      <4>1. L >= n
        BY <1>1, <1>3, <1>8, <3>2
      <4> QED  BY <1>2, <1>5, <3>2, <4>1
    <3> QED  BY <3>1, <3>2
  <2>2. x <= LastChunk <=> ~(n > LastDigit \/ (n = LastDigit /\ D[n] > LastChunk))
    <3>1. D[n] \in Nat
      BY <1>1, <1>3
    <3> QED  BY <1>1, <1>3, <1>8, <2>1, <3>1
  <2> HIDE DEF x, c, p
  <2>3. ASSUME x <= LastChunk PROVE w < Limit
    <3>1. x + 1 <= c /\ x + 1 \in Nat /\ c \in Nat
      BY <1>1, <1>2, <2>3 DEF c
    <3>2. p * (x + 1) <= p * c /\ p * (x + 1) \in Nat /\ p * c \in Nat
      BY <1>6, <3>1
    <3> QED  BY <1>4, <1>9, <3>2
  <2>4. ASSUME ~(x <= LastChunk) PROVE ~(w < Limit)
    <3>1. c <= x /\ c \in Nat
      BY <1>1, <1>2, <2>4 DEF c
    <3>2. p * c <= p * x /\ p * c \in Nat /\ p * x \in Nat
      BY <1>2, <1>6, <3>1
    <3> QED  BY <1>4, <1>9, <3>2
  <2> QED  BY <2>2, <2>3, <2>4 DEF n
<1> QED  BY <1>1, <1>3, <1>7, <1>8 DEF n

\* An integer as the representations carry it.
LEMMA EncodeIntType ==
  ASSUME NEW kind \in Kinds, NEW v \in 0 .. MaxInt
  PROVE  EncodeInt(v, Mask[kind]) \in Seq(0 .. 2 * Base - 1)
<1> DEFINE mask == Mask[kind]
           A == 0 .. 2 * Base - 1
<1>1. mask \in 1 .. 2 * Base - 1 /\ Base \in Nat /\ Base > 1 /\ MaxInt \in Nat
  BY LimitFacts
<1> HIDE DEF mask
<1>2. mask \in A /\ mask \in Nat
  BY <1>1
<1>3. CASE v < mask
  <2>1. v \in A
    BY <1>1, <1>3
  <2>2. EncodeInt(v, mask) = <<v>>
    BY <1>3 DEF EncodeInt
  <2> HIDE DEF A
  <2> QED  BY <2>1, <2>2 DEF mask, A
<1>4. CASE ~(v < mask)
  <2>1. v - mask \in 0 .. MaxInt
    BY <1>1, <1>4
  <2>2. PICK r : Chain(v - mask, Digits[v - mask], r)
    BY <2>1, DigitChain
  <2>3. Digits[v - mask] \in Seq(A)
    BY <2>2 DEF Chain
  <2>4. EncodeInt(v, mask) = <<mask>> \o Digits[v - mask]
    BY <1>4 DEF EncodeInt
  <2> HIDE DEF A
  <2> QED  BY <1>2, <2>3, <2>4 DEF mask, A
<1> QED  BY <1>3, <1>4

\* decode_int gives back what encode wrote, or refuses it.
LEMMA RoundTrip ==
  ASSUME NEW kind \in Kinds, NEW v \in 0 .. MaxInt
  PROVE  DecodeInt(EncodeInt(v, Mask[kind]), Mask[kind]) =
           IF Accepted(v, Mask[kind]) THEN v ELSE Refused
<1> DEFINE mask == Mask[kind]
           A == 0 .. 2 * Base - 1
<1>1. /\ mask \in Nat /\ Base \in Nat /\ Base > 1 /\ MaxInt \in Nat /\ LastDigit \in Nat
      /\ Limit \in Nat /\ Limit >= 1 /\ v \in Nat
  BY LimitFacts
<1> HIDE DEF mask
<1>2. CASE v < mask
  <2>1. EncodeInt(v, mask) = <<v>> /\ <<v>>[1] = v
    BY <1>2 DEF EncodeInt
  <2>2. DecodeInt(<<v>>, mask) = v
    BY <1>2, <2>1 DEF DecodeInt
  <2>3. Accepted(v, mask)
    BY <1>1, <1>2 DEF Accepted
  <2> QED  BY <2>1, <2>2, <2>3 DEF mask
<1>3. CASE ~(v < mask)
  <2> DEFINE w == v - mask
             D == Digits[w]
             s == <<mask>> \o D
             m == Len(D)
             ends == {i \in 2 .. Len(s) : s[i] < Base}
  <2>1. w \in 0 .. MaxInt /\ w \in Nat /\ v = mask + w
    BY <1>1, <1>3
  <2> HIDE DEF w
  <2>2. PICK r : Chain(w, D, r)
    BY <2>1, DigitChain
  <2> HIDE DEF D
  <2>3. D \in Seq(A) /\ m >= 1 /\ D[m] < Base /\ \A k \in 1 .. m - 1 : D[k] >= Base
    BY <2>2 DEF Chain
  <2>4. m \in Nat /\ \A k \in 1 .. m : D[k] \in A
    BY <2>3, LenProperties, ElementOfSeq
  <2>5. A \subseteq Nat
    BY <1>1
  <2> HIDE DEF A
  <2>6. D \in Seq(Nat) /\ \A k \in 1 .. m : D[k] \in Nat
    BY <2>3, <2>4, <2>5, SeqMonotonic
  <2> HIDE DEF m
  <2>7. /\ Len(s) = m + 1 /\ s[1] = mask
        /\ \A k \in 1 .. m : s[k + 1] = D[k]
        /\ SubSeq(s, 2, m + 1) = D
    <3>1. <<mask>> \in Seq(Nat) /\ Len(<<mask>>) = 1 /\ <<mask>>[1] = mask
      BY <1>1
    <3>2. Len(s) = m + 1 /\ s \in Seq(Nat)
      BY <2>6, <3>1 DEF m
    <3>3. s[1] = mask /\ \A k \in 1 .. m : s[k + 1] = D[k]
      BY <1>1, <2>6 DEF m
    <3> HIDE DEF s
    <3> DEFINE u == SubSeq(s, 2, m + 1)
    <3>4. u \in Seq(Nat) /\ Len(u) = m /\ \A k \in 1 .. m : u[k] = s[k + 1]
      BY <2>4, <3>2
    <3> HIDE DEF u
    <3>5. u = D
      <4>1. Len(u) = Len(D) /\ \A k \in 1 .. Len(u) : u[k] = D[k]
        BY <3>3, <3>4 DEF m
      <4> QED  BY <2>6, <3>4, <4>1, SeqEqual
    <3> QED  BY <3>2, <3>3, <3>5 DEF u
  <2> HIDE DEF s
  <2>8. ends = {m + 1}
    <3>1. ASSUME NEW i PROVE i \in ends <=> i = m + 1
      <4>1. CASE i \in 2 .. m
        <5>1. i - 1 \in 1 .. m - 1 /\ i - 1 \in 1 .. m /\ i = (i - 1) + 1
          BY <2>4, <4>1
        <5>2. s[i] = D[i - 1] /\ D[i - 1] >= Base /\ D[i - 1] \in Nat
          BY <2>3, <2>6, <2>7, <5>1 DEF m
        <5>3. ~(s[i] < Base)
          BY <1>1, <5>2
        <5> QED  BY <2>4, <4>1, <5>3
      <4>2. CASE i = m + 1
        <5>1. m \in 1 .. m /\ m + 1 \in 2 .. Len(s)
          BY <2>3, <2>4, <2>7 DEF m
        <5>2. s[m + 1] = D[m] /\ D[m] < Base
          BY <2>3, <2>7, <5>1 DEF m
        <5> QED  BY <4>2, <5>1, <5>2
      <4>3. CASE i \notin 2 .. m /\ i # m + 1
        <5>1. i \notin 2 .. Len(s)
          BY <2>4, <2>7, <4>3
        <5> QED  BY <4>3, <5>1
      <4> QED  BY <4>1, <4>2, <4>3
    <3> QED  BY <3>1
  <2>9. Min({m + 1}) = m + 1 /\ (m + 1) - 1 = m
    <3>1. m + 1 \in Int /\ m + 1 <= m + 1
      BY <2>4
    <3> QED  BY <2>4, <3>1 DEF Min
  <2>10. DecodeInt(s, mask) =
           IF m > LastDigit \/ (m = LastDigit /\ s[m + 1] > LastChunk) THEN Refused
           ELSE Gathered(mask, D)
    <3>1. ends # {} /\ Min(ends) - 1 = m
      BY <2>8, <2>9
    <3>2. ~(s[1] < mask)
      BY <1>1, <2>7
    <3>3. DecodeInt(s, mask) =
            IF m > LastDigit \/ (m = LastDigit /\ s[m + 1] > LastChunk) THEN Refused
            ELSE Gathered(mask, SubSeq(s, 2, m + 1))
      <4> HIDE DEF m
      <4>1. DecodeInt(s, mask) =
              IF s[1] < mask THEN s[1]
              ELSE IF ends = {} \/ Min(ends) - 1 > LastDigit
                      \/ (Min(ends) - 1 = LastDigit /\ s[(Min(ends) - 1) + 1] > LastChunk)
                   THEN Refused
              ELSE Gathered(mask, SubSeq(s, 2, (Min(ends) - 1) + 1))
        BY DEF DecodeInt
      <4> HIDE DEF ends
      <4> QED  BY <3>1, <3>2, <4>1
    <3> QED  BY <2>7, <3>3
  <2>11. s[m + 1] = D[m]
    <3>1. m \in 1 .. m
      BY <2>3, <2>4 DEF m
    <3> QED  BY <2>7, <3>1
  <2>12. w < Limit <=> ~(m > LastDigit \/ (m = LastDigit /\ D[m] > LastChunk))
    BY <2>1, <2>2, ChainLimit DEF m
  <2>13. m <= LastDigit => Gathered(mask, D) = v
    BY <1>1, <2>1, <2>2, GatherValue DEF m
  <2>14. Accepted(v, mask) <=> w < Limit
    BY <1>1, <2>1 DEF Accepted
  <2>15. EncodeInt(v, mask) = s
    BY <1>3 DEF EncodeInt, s, D, w
  <2>16. ~(m > LastDigit) <=> m <= LastDigit
    BY <1>1, <2>4
  <2> QED  BY <2>10, <2>11, <2>12, <2>13, <2>14, <2>15, <2>16 DEF mask
<1> QED  BY <1>2, <1>3

----------------------------------------------------------------------------
(* Representations, one by one.                                            *)

\* What an encoder writes: an integer it can write, the strings it needs.
GoodReps ==
  {rep \in RepSet : \E v \in 0 .. MaxInt :
     /\ rep.int = EncodeInt(v, Mask[rep.kind])
     /\ rep.kind \in {"incremental", "plain"} =>
          rep.value \in Values /\ (v = 0 => rep.name \in Names)}

\* What decode has so far.
Accs == [ctx : Contexts, headers : Seq(HeaderSet), thrown : BOOLEAN]

\* An index that is in range names a header.
LEMMA GetHeaderType ==
  ASSUME NEW c \in Contexts, NEW i \in Indices(c)
  PROVE  GetHeader(c, i) \in HeaderSet /\ i \in Nat /\ i >= 1
<1>1. c.table \in Seq(HeaderSet) /\ StaticTable \in Seq(HeaderSet)
  BY TableAssumption DEF Contexts, Good, ContextSet
<1>2. Len(c.table) \in Nat /\ Len(StaticTable) \in Nat
  BY <1>1
<1>3. i \in Nat /\ i >= 1 /\ i <= Len(StaticTable) + Len(c.table)
  BY <1>2 DEF Indices
<1>4. CASE i <= Len(StaticTable)
  <2>1. i \in 1 .. Len(StaticTable)
    BY <1>2, <1>3, <1>4
  <2> QED  BY <1>1, <1>3, <1>4, <2>1, ElementOfSeq DEF GetHeader
<1>5. CASE ~(i <= Len(StaticTable))
  <2>1. i - Len(StaticTable) \in 1 .. Len(c.table)
    BY <1>2, <1>3, <1>5
  <2> QED  BY <1>1, <1>3, <1>5, <2>1, ElementOfSeq DEF GetHeader
<1> QED  BY <1>4, <1>5

\* What a representation says: it throws, changes the size or adds a header.
Throws(c, rep) ==
  LET i == DecodeInt(rep.int, Mask[rep.kind])
  IN \/ i = Refused
     \/ /\ rep.kind # "resize" /\ ~(rep.kind # "indexed" /\ i = 0)
        /\ i \notin Indices(c)
Header(c, rep) ==
  LET i == DecodeInt(rep.int, Mask[rep.kind])
      named == rep.kind # "indexed" /\ i = 0
  IN IF rep.kind = "indexed" THEN GetHeader(c, i)
     ELSE [name |-> IF named THEN rep.name ELSE GetHeader(c, i).name, value |-> rep.value]
CtxAfter(c, rep) ==
  IF rep.kind = "resize" THEN SetMaxTableSize(c, DecodeInt(rep.int, Mask[rep.kind]))
  ELSE IF rep.kind = "incremental" THEN AddToDynamicTable(c, Header(c, rep)) ELSE c

LEMMA DecodeRepCases ==
  ASSUME NEW c, NEW hs, NEW thrown, NEW rep
  PROVE  DecodeRep([ctx |-> c, headers |-> hs, thrown |-> thrown], rep) =
           IF thrown \/ Throws(c, rep) THEN [ctx |-> c, headers |-> hs, thrown |-> TRUE]
           ELSE [ctx |-> CtxAfter(c, rep), thrown |-> thrown,
                 headers |-> IF rep.kind = "resize" THEN hs ELSE Append(hs, Header(c, rep))]
<1> DEFINE acc == [ctx |-> c, headers |-> hs, thrown |-> thrown]
           i == DecodeInt(rep.int, Mask[rep.kind])
           named == rep.kind # "indexed" /\ i = 0
           h == IF rep.kind = "indexed" THEN GetHeader(acc.ctx, i)
                ELSE [name |-> IF named THEN rep.name ELSE GetHeader(acc.ctx, i).name,
                      value |-> rep.value]
<1>1. acc.ctx = c /\ acc.headers = hs /\ acc.thrown = thrown
  OBVIOUS
<1>2. h = Header(c, rep)
  BY <1>1 DEF Header
<1>3. DecodeRep(acc, rep) =
        IF acc.thrown \/ i = Refused THEN [acc EXCEPT !.thrown = TRUE]
        ELSE IF rep.kind = "resize" THEN [acc EXCEPT !.ctx = SetMaxTableSize(@, i)]
        ELSE IF ~named /\ i \notin Indices(acc.ctx) THEN [acc EXCEPT !.thrown = TRUE]
        ELSE [acc EXCEPT !.headers = Append(@, h),
                         !.ctx = IF rep.kind = "incremental" THEN AddToDynamicTable(@, h) ELSE @]
  BY DEF DecodeRep
<1>4. Throws(c, rep) <=> i = Refused \/ (rep.kind # "resize" /\ ~named /\ i \notin Indices(c))
  BY DEF Throws
<1>5. CtxAfter(c, rep) = IF rep.kind = "resize" THEN SetMaxTableSize(c, i)
                         ELSE IF rep.kind = "incremental" THEN AddToDynamicTable(c, h) ELSE c
  BY <1>2 DEF CtxAfter
<1> HIDE DEF i, h, named
<1>6. CASE thrown \/ Throws(c, rep)
  <2>1. DecodeRep(acc, rep) = [acc EXCEPT !.thrown = TRUE]
    BY <1>1, <1>3, <1>4, <1>6
  <2> QED  BY <1>6, <2>1
<1>7. CASE ~(thrown \/ Throws(c, rep)) /\ rep.kind = "resize"
  <2>1. DecodeRep(acc, rep) = [acc EXCEPT !.ctx = SetMaxTableSize(c, i)]
    BY <1>1, <1>3, <1>4, <1>7
  <2> QED  BY <1>5, <1>7, <2>1
<1>8. CASE ~(thrown \/ Throws(c, rep)) /\ rep.kind # "resize"
  <2>1. DecodeRep(acc, rep) =
          [acc EXCEPT !.headers = Append(hs, h),
                      !.ctx = IF rep.kind = "incremental" THEN AddToDynamicTable(c, h) ELSE c]
    BY <1>1, <1>3, <1>4, <1>8
  <2> QED  BY <1>2, <1>5, <1>8, <2>1
<1> QED  BY <1>6, <1>7, <1>8

\* A representation that does not throw keeps the types.
LEMMA RepType ==
  ASSUME NEW c \in Contexts, NEW rep \in GoodReps, ~Throws(c, rep)
  PROVE  /\ CtxAfter(c, rep) \in Contexts
         /\ rep.kind # "resize" => Header(c, rep) \in HeaderSet
<1> DEFINE i == DecodeInt(rep.int, Mask[rep.kind])
<1>1. PICK v \in 0 .. MaxInt :
        /\ rep.int = EncodeInt(v, Mask[rep.kind])
        /\ rep.kind \in {"incremental", "plain"} =>
             rep.value \in Values /\ (v = 0 => rep.name \in Names)
  BY DEF GoodReps
<1>2. rep.kind \in Kinds
  BY DEF GoodReps, RepSet
<1>3. i = IF Accepted(v, Mask[rep.kind]) THEN v ELSE Refused
  BY <1>1, <1>2, RoundTrip
<1>4. i # Refused /\ (rep.kind # "resize" /\ ~(rep.kind # "indexed" /\ i = 0) => i \in Indices(c))
  BY DEF Throws
<1>5. i = v /\ i \in Nat
  BY <1>3, <1>4, LimitFacts
<1>6. rep.kind # "resize" => Header(c, rep) \in HeaderSet
  <2>1. CASE rep.kind = "indexed"
    <3>1. Header(c, rep) = GetHeader(c, i)
      BY <2>1 DEF Header
    <3> QED  BY <1>4, <2>1, <3>1, GetHeaderType
  <2>2. CASE rep.kind \in {"incremental", "plain"}
    <3> DEFINE nm == IF i = 0 THEN rep.name ELSE GetHeader(c, i).name
    <3>1. Header(c, rep) = [name |-> nm, value |-> rep.value]
      BY <2>2 DEF Header
    <3>2. nm \in Names
      <4>1. CASE i = 0
        BY <1>1, <1>5, <2>2, <4>1
      <4>2. CASE i # 0
        <5>1. GetHeader(c, i) \in HeaderSet
          BY <1>4, <2>2, <4>2, GetHeaderType
        <5> QED  BY <4>2, <5>1 DEF HeaderSet
      <4> QED  BY <4>1, <4>2
    <3> HIDE DEF nm
    <3> QED  BY <1>1, <2>2, <3>1, <3>2 DEF HeaderSet
  <2> QED  BY <1>2, <2>1, <2>2 DEF Kinds
<1>7. CtxAfter(c, rep) \in Contexts
  <2>1. CASE rep.kind = "resize"
    <3>1. CtxAfter(c, rep) = SetMaxTableSize(c, i)
      BY <2>1 DEF CtxAfter
    <3> HIDE DEF i
    <3> QED  BY <1>5, <3>1, SetMaxTableSizeGood
  <2>2. CASE rep.kind = "incremental"
    <3>1. CtxAfter(c, rep) = AddToDynamicTable(c, Header(c, rep))
      BY <2>2 DEF CtxAfter
    <3> QED  BY <1>6, <2>2, <3>1, AddGood
  <2>3. CASE rep.kind \notin {"resize", "incremental"}
    BY <2>3 DEF CtxAfter
  <2> QED  BY <2>1, <2>2, <2>3
<1> QED  BY <1>6, <1>7

LEMMA RepCases ==
  ASSUME NEW c, NEW hs, NEW rep
  PROVE  /\ DecodeRep([ctx |-> c, headers |-> hs, thrown |-> TRUE], rep)
              = [ctx |-> c, headers |-> hs, thrown |-> TRUE]
         /\ Throws(c, rep) =>
              DecodeRep([ctx |-> c, headers |-> hs, thrown |-> FALSE], rep)
                = [ctx |-> c, headers |-> hs, thrown |-> TRUE]
         /\ ~Throws(c, rep) /\ rep.kind = "resize" =>
              DecodeRep([ctx |-> c, headers |-> hs, thrown |-> FALSE], rep)
                = [ctx |-> CtxAfter(c, rep), headers |-> hs, thrown |-> FALSE]
         /\ ~Throws(c, rep) /\ rep.kind # "resize" =>
              DecodeRep([ctx |-> c, headers |-> hs, thrown |-> FALSE], rep)
                = [ctx |-> CtxAfter(c, rep), headers |-> Append(hs, Header(c, rep)),
                   thrown |-> FALSE]
<1>1. DecodeRep([ctx |-> c, headers |-> hs, thrown |-> TRUE], rep) =
        [ctx |-> c, headers |-> hs, thrown |-> TRUE]
  <2>1. ASSUME NEW th, th
        PROVE  DecodeRep([ctx |-> c, headers |-> hs, thrown |-> th], rep) =
                 [ctx |-> c, headers |-> hs, thrown |-> TRUE]
    BY <2>1, DecodeRepCases
  <2> QED  BY <2>1
<1>2. ASSUME NEW th, ~th, th = FALSE
      PROVE  /\ Throws(c, rep) =>
                  DecodeRep([ctx |-> c, headers |-> hs, thrown |-> th], rep)
                    = [ctx |-> c, headers |-> hs, thrown |-> TRUE]
             /\ ~Throws(c, rep) =>
                  DecodeRep([ctx |-> c, headers |-> hs, thrown |-> th], rep) =
                   [ctx |-> CtxAfter(c, rep), thrown |-> th,
                    headers |-> IF rep.kind = "resize" THEN hs ELSE Append(hs, Header(c, rep))]
  BY <1>2, DecodeRepCases
<1>3. /\ Throws(c, rep) =>
           DecodeRep([ctx |-> c, headers |-> hs, thrown |-> FALSE], rep)
             = [ctx |-> c, headers |-> hs, thrown |-> TRUE]
      /\ ~Throws(c, rep) =>
           DecodeRep([ctx |-> c, headers |-> hs, thrown |-> FALSE], rep) =
             [ctx |-> CtxAfter(c, rep), thrown |-> FALSE,
              headers |-> IF rep.kind = "resize" THEN hs ELSE Append(hs, Header(c, rep))]
  BY <1>2
<1> QED  BY <1>1, <1>3

\* The four ways of a representation, on what decode has so far.
LEMMA AccCases ==
  ASSUME NEW acc \in Accs, NEW rep \in GoodReps
  PROVE  \/ acc = [ctx |-> acc.ctx, headers |-> acc.headers, thrown |-> TRUE]
         \/ /\ acc = [ctx |-> acc.ctx, headers |-> acc.headers, thrown |-> FALSE]
            /\ \/ Throws(acc.ctx, rep)
               \/ ~Throws(acc.ctx, rep) /\ rep.kind = "resize"
               \/ ~Throws(acc.ctx, rep) /\ rep.kind # "resize"
<1>1. /\ acc.thrown \in BOOLEAN
      /\ acc = [ctx |-> acc.ctx, headers |-> acc.headers, thrown |-> acc.thrown]
  BY DEF Accs
<1>2. CASE acc.thrown = TRUE
  BY <1>1, <1>2
<1>3. CASE acc.thrown = FALSE
  BY <1>1, <1>3
<1> QED  BY <1>1, <1>2, <1>3

LEMMA DecodeRepType ==
  ASSUME NEW acc \in Accs, NEW rep \in GoodReps
  PROVE  /\ DecodeRep(acc, rep) \in Accs
         /\ acc.thrown = TRUE => DecodeRep(acc, rep).thrown = TRUE
<1> DEFINE c == acc.ctx
           hs == acc.headers
           D == DecodeRep(acc, rep)
<1>1. c \in Contexts /\ hs \in Seq(HeaderSet)
  BY DEF Accs
<1>2. \A d \in Contexts, ks \in Seq(HeaderSet), th \in BOOLEAN :
        [ctx |-> d, headers |-> ks, thrown |-> th] \in Accs
  BY DEF Accs
<1> HIDE DEF c, hs, D
<1>3. CASE acc = [ctx |-> c, headers |-> hs, thrown |-> TRUE]
  <2>1. D = acc
    BY <1>3, RepCases DEF D
  <2> QED  BY <1>3, <2>1 DEF D
<1>4. CASE acc = [ctx |-> c, headers |-> hs, thrown |-> FALSE] /\ Throws(c, rep)
  <2>1. D = [ctx |-> c, headers |-> hs, thrown |-> TRUE]
    BY <1>4, RepCases DEF D
  <2>2. D \in Accs
    BY <1>1, <1>2, <2>1
  <2> QED  BY <1>4, <2>2 DEF D
<1>5. CASE /\ acc = [ctx |-> c, headers |-> hs, thrown |-> FALSE] /\ ~Throws(c, rep)
           /\ rep.kind = "resize"
  <2>1. D = [ctx |-> CtxAfter(c, rep), headers |-> hs, thrown |-> FALSE]
    BY <1>5, RepCases DEF D
  <2>2. CtxAfter(c, rep) \in Contexts
    BY <1>1, <1>5, RepType
  <2>3. D \in Accs
    BY <1>1, <1>2, <2>1, <2>2
  <2> QED  BY <1>5, <2>3 DEF D
<1>6. CASE /\ acc = [ctx |-> c, headers |-> hs, thrown |-> FALSE] /\ ~Throws(c, rep)
           /\ rep.kind # "resize"
  <2> DEFINE H == Header(c, rep)
  <2>1. D = [ctx |-> CtxAfter(c, rep), headers |-> Append(hs, H), thrown |-> FALSE]
    BY <1>6, RepCases DEF D
  <2>2. CtxAfter(c, rep) \in Contexts /\ H \in HeaderSet
    BY <1>1, <1>6, RepType
  <2> HIDE DEF H
  <2>3. Append(hs, H) \in Seq(HeaderSet)
    BY <1>1, <2>2
  <2>4. D \in Accs
    BY <1>2, <2>1, <2>2, <2>3
  <2> QED  BY <1>6, <2>4 DEF D
<1> QED  BY <1>3, <1>4, <1>5, <1>6, AccCases DEF c, hs

\* Headers decoded before do not matter to what follows.
Shift(acc, hs) == [ctx |-> acc.ctx, headers |-> hs \o acc.headers, thrown |-> acc.thrown]

LEMMA DecodeRepShift ==
  ASSUME NEW acc \in Accs, NEW rep \in GoodReps, NEW hs \in Seq(HeaderSet)
  PROVE  /\ Shift(acc, hs) \in Accs
         /\ DecodeRep(Shift(acc, hs), rep) = Shift(DecodeRep(acc, rep), hs)
<1> DEFINE c == acc.ctx
           ks == acc.headers
           ls == hs \o ks
           D == DecodeRep(acc, rep)
           E == DecodeRep(Shift(acc, hs), rep)
<1>1. c \in Contexts /\ ks \in Seq(HeaderSet) /\ acc.thrown \in BOOLEAN
  BY DEF Accs
<1> HIDE DEF c, ks, D, E
<1>2. ls \in Seq(HeaderSet)
  BY <1>1
<1>3. Shift(acc, hs) = [ctx |-> c, headers |-> ls, thrown |-> acc.thrown]
  BY DEF Shift, c, ks
<1>4. Shift(acc, hs) \in Accs
  BY <1>1, <1>2, <1>3 DEF Accs
<1> HIDE DEF ls
<1>5. CASE acc = [ctx |-> c, headers |-> ks, thrown |-> TRUE]
  <2>1. D = acc
    BY <1>5, RepCases DEF D
  <2>2. Shift(acc, hs) = [ctx |-> c, headers |-> ls, thrown |-> TRUE]
    BY <1>3, <1>5
  <2>3. E = Shift(acc, hs)
    BY ZenonT(60), <2>2, RepCases DEF E
  <2> QED  BY <1>4, <2>1, <2>3 DEF D, E
<1>6. CASE acc = [ctx |-> c, headers |-> ks, thrown |-> FALSE]
  <2>1. Shift(acc, hs) = [ctx |-> c, headers |-> ls, thrown |-> FALSE]
    BY <1>3, <1>6
  <2>2. CASE Throws(c, rep)
    <3>1. D = [ctx |-> c, headers |-> ks, thrown |-> TRUE]
      BY <1>6, <2>2, RepCases DEF D
    <3>2. E = [ctx |-> c, headers |-> ls, thrown |-> TRUE]
      BY ZenonT(60), <2>1, <2>2, RepCases DEF E
    <3>3. Shift(D, hs) = [ctx |-> c, headers |-> hs \o ks, thrown |-> TRUE]
      BY <3>1 DEF Shift
    <3> QED  BY <1>4, <3>2, <3>3 DEF D, E, ls
  <2>3. CASE ~Throws(c, rep) /\ rep.kind = "resize"
    <3> DEFINE d == CtxAfter(c, rep)
    <3>1. D = [ctx |-> d, headers |-> ks, thrown |-> FALSE]
      BY <1>6, <2>3, RepCases DEF D
    <3>2. E = [ctx |-> d, headers |-> ls, thrown |-> FALSE]
      BY <2>1, <2>3, RepCases DEF E
    <3> HIDE DEF d
    <3>3. Shift(D, hs) = [ctx |-> d, headers |-> hs \o ks, thrown |-> FALSE]
      BY <3>1 DEF Shift
    <3> QED  BY <1>4, <3>2, <3>3 DEF D, E, ls
  <2>4. CASE ~Throws(c, rep) /\ rep.kind # "resize"
    <3> DEFINE d == CtxAfter(c, rep)
               H == Header(c, rep)
    <3>1. D = [ctx |-> d, headers |-> Append(ks, H), thrown |-> FALSE]
      BY <1>6, <2>4, RepCases DEF D
    <3>2. E = [ctx |-> d, headers |-> Append(ls, H), thrown |-> FALSE]
      BY <2>1, <2>4, RepCases DEF E
    <3>3. H \in HeaderSet
      BY <1>1, <2>4, RepType
    <3> HIDE DEF d, H
    <3>4. Shift(D, hs) = [ctx |-> d, headers |-> hs \o Append(ks, H), thrown |-> FALSE]
      BY <3>1 DEF Shift
    <3>5. Append(ls, H) = hs \o Append(ks, H)
      BY <1>1, <3>3 DEF ls
    <3> QED  BY <1>4, <3>2, <3>4, <3>5 DEF D, E
  <2> QED  BY <2>2, <2>3, <2>4
<1> QED  BY <1>5, <1>6, AccCases DEF c, ks

DecodeFrom(acc, reps) == FoldLeft(DecodeRep, acc, reps)

\* What decode has after each representation.
Decodes(acc, reps, g) ==
  /\ g[0] = acc /\ g[Len(reps)] = DecodeFrom(acc, reps)
  /\ \A k \in 1 .. Len(reps) : g[k] = DecodeRep(g[k - 1], reps[k])
  /\ \A k \in 0 .. Len(reps) : g[k] \in Accs

LEMMA DecodeSteps ==
  ASSUME NEW acc \in Accs, NEW reps \in Seq(GoodReps)
  PROVE  \E g : Decodes(acc, reps, g)
<1> DEFINE n == Len(reps)
           G == [x \in Accs \X (1 .. n) |-> DecodeRep(x[1], reps[x[2]])]
           it == CHOOSE f : f = [u \in SUBSET DOMAIN reps |->
                                   IF u = {} THEN acc ELSE DecodeRep(f[u \ {Max(u)}], reps[Max(u)])]
           g == [k \in 0 .. n |-> it[1 .. k]]
<1>1. n \in Nat /\ DOMAIN reps = 1 .. n /\ \A k \in 1 .. n : reps[k] \in GoodReps
  OBVIOUS
<1>2. DecodeFrom(acc, reps) = it[DOMAIN reps]
  BY DEF DecodeFrom, FoldLeft, MapThenFoldSet
<1>3. /\ G \in [Accs \X (1 .. n) -> Accs]
      /\ \A x \in Accs, k \in 1 .. n : G[<<x, k>>] = DecodeRep(x, reps[k])
  <2>1. \A x \in Accs, k \in 1 .. n : DecodeRep(x, reps[k]) \in Accs
    BY <1>1, DecodeRepType
  <2> QED  BY <2>1
<1> HIDE DEF G
<1>4. it = [u \in SUBSET (1 .. n) |->
              IF u = {} THEN acc ELSE DecodeRep(it[u \ {Max(u)}], reps[Max(u)])]
  <2>1. PICK f : Solves(f, Accs, acc, G, n)
    BY <1>1, <1>3, Solution
  <2>2. ASSUME NEW u \in SUBSET (1 .. n)
        PROVE  f[u] = IF u = {} THEN acc ELSE DecodeRep(f[u \ {Max(u)}], reps[Max(u)])
    <3>1. CASE u = {}
      BY <2>1, <3>1 DEF Solves
    <3>2. CASE u # {}
      <4>1. Max(u) \in 1 .. n
        BY <1>1, <3>2, MaxMember
      <4>2. f[u \ {Max(u)}] \in Accs
        BY <2>1 DEF Solves
      <4>3. f[u] = G[<<f[u \ {Max(u)}], Max(u)>>]
        BY <2>1, <3>2 DEF Solves
      <4> QED  BY <1>3, <3>2, <4>1, <4>2, <4>3
    <3> QED  BY <3>1, <3>2
  <2>3. f = [u \in SUBSET (1 .. n) |->
               IF u = {} THEN acc ELSE DecodeRep(f[u \ {Max(u)}], reps[Max(u)])]
    BY <2>1, <2>2 DEF Solves
  <2> QED  BY <1>1, <2>3
<1> HIDE DEF it
<1>5. g[0] = acc
  <2>1. 1 .. 0 \in SUBSET (1 .. n) /\ 1 .. 0 = {}
    BY <1>1
  <2> QED  BY <1>1, <1>4, <2>1
<1>6. ASSUME NEW k \in 1 .. n PROVE g[k] = DecodeRep(g[k - 1], reps[k])
  <2>1. /\ 1 .. k \in SUBSET (1 .. n) /\ 1 .. k # {} /\ Max(1 .. k) = k
        /\ (1 .. k) \ {k} = 1 .. k - 1 /\ k - 1 \in 0 .. n
    BY <1>1, Intervals
  <2>2. it[1 .. k] = DecodeRep(it[1 .. k - 1], reps[k])
    BY <1>4, <2>1
  <2> QED  BY <1>1, <2>1, <2>2
<1>7. g[n] = DecodeFrom(acc, reps)
  BY <1>1, <1>2
<1> HIDE DEF g
<1>8. \A k \in 0 .. n : g[k] \in Accs
  <2>1. ASSUME NEW k \in 1 .. n, g[k - 1] \in Accs PROVE g[k] \in Accs
    BY <1>1, <1>6, <2>1, DecodeRepType
  <2>2. n \in Nat /\ g[0] \in Accs
    BY <1>1, <1>5
  <2> HIDE DEF n
  <2> QED  BY ONLY <2>1, <2>2, TypedSteps
<1> QED  BY <1>5, <1>6, <1>7, <1>8 DEF Decodes

\* Nothing, one representation, two runs of representations.
LEMMA DecodeNothing ==
  ASSUME NEW acc \in Accs
  PROVE  DecodeFrom(acc, <<>>) = acc
<1>1. <<>> \in Seq(GoodReps) /\ Len(<<>>) = 0
  OBVIOUS
<1>2. PICK g : Decodes(acc, <<>>, g)
  BY <1>1, DecodeSteps
<1> QED  BY <1>1, <1>2 DEF Decodes

LEMMA DecodeOne ==
  ASSUME NEW acc \in Accs, NEW rep \in GoodReps
  PROVE  DecodeFrom(acc, <<rep>>) = DecodeRep(acc, rep)
<1> DEFINE q == <<rep>>
<1>1. q \in Seq(GoodReps) /\ Len(q) = 1 /\ q[1] = rep
  OBVIOUS
<1> HIDE DEF q
<1>2. PICK g : Decodes(acc, q, g)
  BY <1>1, DecodeSteps
<1>3. 1 \in 1 .. Len(q) /\ 1 - 1 = 0
  BY <1>1
<1>4. g[1] = DecodeRep(g[0], q[1]) /\ g[0] = acc /\ g[1] = DecodeFrom(acc, q)
  BY <1>1, <1>2, <1>3 DEF Decodes
<1> QED  BY <1>1, <1>4 DEF q

LEMMA DecodeConcat ==
  ASSUME NEW acc \in Accs, NEW s \in Seq(GoodReps), NEW t \in Seq(GoodReps)
  PROVE  /\ DecodeFrom(acc, s) \in Accs
         /\ DecodeFrom(acc, s \o t) = DecodeFrom(DecodeFrom(acc, s), t)
<1> DEFINE u == s \o t
           m == Len(s)
           n == Len(t)
           mid == DecodeFrom(acc, s)
<1>1. /\ u \in Seq(GoodReps) /\ m \in Nat /\ n \in Nat /\ Len(u) = m + n
      /\ \A k \in 1 .. m : u[k] = s[k]
      /\ \A k \in 1 .. n : u[m + k] = t[k]
  OBVIOUS
<1> HIDE DEF u, m, n, mid
<1>2. PICK f : Decodes(acc, s, f)
  BY DecodeSteps
<1>3. mid \in Accs /\ f[m] = mid
  <2>1. Len(s) \in 0 .. Len(s)
    OBVIOUS
  <2> QED  BY <1>2, <2>1 DEF Decodes, m, mid
<1>4. PICK g : Decodes(mid, t, g)
  BY <1>3, DecodeSteps
<1>5. PICK h : Decodes(acc, u, h)
  BY <1>1, DecodeSteps
<1>6. h[m] = f[m]
  <2>1. f[0] = h[0]
    BY <1>2, <1>5 DEF Decodes
  <2>2. ASSUME NEW k \in 1 .. m, f[k - 1] = h[k - 1] PROVE f[k] = h[k]
    <3>1. k \in 1 .. Len(u) /\ u[k] = s[k]
      BY <1>1
    <3>2. f[k] = DecodeRep(f[k - 1], s[k])
      BY <1>2 DEF Decodes, m
    <3>3. h[k] = DecodeRep(h[k - 1], u[k])
      BY <1>5, <3>1 DEF Decodes
    <3> QED  BY <2>2, <3>1, <3>2, <3>3
  <2>3. m \in Nat
    BY <1>1
  <2>4. \A k \in 0 .. m : f[k] = h[k]
    BY ONLY ZenonT(60), <2>1, <2>2, <2>3, SameSteps
  <2> QED  BY <2>3, <2>4
<1> DEFINE b == [k \in 0 .. n |-> h[m + k]]
<1>7. b[0] = g[0]
  <2>1. g[0] = mid
    BY <1>4 DEF Decodes
  <2>2. 0 \in 0 .. n /\ m + 0 = m
    BY <1>1
  <2> QED  BY <1>3, <1>6, <2>1, <2>2
<1>8. ASSUME NEW k \in 1 .. n, b[k - 1] = g[k - 1] PROVE b[k] = g[k]
  <2>1. /\ k - 1 \in 0 .. n /\ k \in 0 .. n /\ m + k \in 1 .. Len(u)
        /\ (m + k) - 1 = m + (k - 1) /\ u[m + k] = t[k]
    BY <1>1
  <2>2. g[k] = DecodeRep(g[k - 1], t[k])
    BY <1>4 DEF Decodes, n
  <2>3. h[m + k] = DecodeRep(h[m + (k - 1)], t[k])
    <3>1. \A j \in 1 .. Len(u) : h[j] = DecodeRep(h[j - 1], u[j])
      BY <1>5 DEF Decodes
    <3> QED  BY <2>1, <3>1
  <2>4. h[m + (k - 1)] = g[k - 1]
    BY <1>8, <2>1
  <2> QED  BY <2>1, <2>2, <2>3, <2>4
<1>9. b[n] = h[m + n]
  BY <1>1
<1> HIDE DEF b
<1>10. b[n] = g[n]
  <2>1. n \in Nat
    BY <1>1
  <2>2. \A k \in 0 .. n : b[k] = g[k]
    BY ONLY ZenonT(60), <2>1, <1>7, <1>8, SameSteps
  <2> QED  BY <2>1, <2>2
<1>11. g[n] = DecodeFrom(mid, t) /\ h[m + n] = DecodeFrom(acc, u)
  BY <1>1, <1>4, <1>5 DEF Decodes, n
<1> QED  BY <1>3, <1>9, <1>10, <1>11 DEF u, mid

\* What was decoded before stays in front; what has thrown throws.
LEMMA DecodeAfter ==
  ASSUME NEW acc \in Accs, NEW q \in Seq(GoodReps)
  PROVE  /\ \A hs \in Seq(HeaderSet) :
              DecodeFrom(Shift(acc, hs), q) = Shift(DecodeFrom(acc, q), hs)
         /\ acc.thrown = TRUE => DecodeFrom(acc, q).thrown = TRUE
<1> DEFINE n == Len(q)
<1>1. n \in Nat /\ \A k \in 1 .. n : q[k] \in GoodReps
  OBVIOUS
<1>2. PICK g : Decodes(acc, q, g)
  BY DecodeSteps
<1>3. /\ g[0] = acc /\ g[n] = DecodeFrom(acc, q)
      /\ \A k \in 1 .. n : g[k] = DecodeRep(g[k - 1], q[k])
      /\ \A k \in 0 .. n : g[k] \in Accs
  BY <1>2 DEF Decodes
<1>4. ASSUME NEW hs \in Seq(HeaderSet)
      PROVE  DecodeFrom(Shift(acc, hs), q) = Shift(DecodeFrom(acc, q), hs)
  <2>1. Shift(acc, hs) \in Accs
    <3>1. hs \o acc.headers \in Seq(HeaderSet)
      BY DEF Accs
    <3> QED  BY <3>1 DEF Shift, Accs
  <2>2. PICK h : Decodes(Shift(acc, hs), q, h)
    BY <2>1, DecodeSteps
  <2>3. /\ h[0] = Shift(acc, hs) /\ h[n] = DecodeFrom(Shift(acc, hs), q)
        /\ \A k \in 1 .. n : h[k] = DecodeRep(h[k - 1], q[k])
    BY <2>2 DEF Decodes
  <2> DEFINE a == [k \in 0 .. n |-> Shift(g[k], hs)]
  <2> HIDE DEF n
  <2>4. a[0] = h[0]
    BY <1>1, <1>3, <2>3
  <2>5. ASSUME NEW k \in 1 .. n, a[k - 1] = h[k - 1] PROVE a[k] = h[k]
    <3>1. k - 1 \in 0 .. n /\ k \in 0 .. n
      BY <1>1
    <3>2. g[k - 1] \in Accs /\ q[k] \in GoodReps
      BY <1>1, <1>3, <3>1
    <3>3. DecodeRep(Shift(g[k - 1], hs), q[k]) = Shift(DecodeRep(g[k - 1], q[k]), hs)
      BY <3>2, DecodeRepShift
    <3>4. h[k - 1] = Shift(g[k - 1], hs)
      BY <2>5, <3>1
    <3> QED  BY <1>3, <2>3, <3>1, <3>3, <3>4
  <2>6. a[n] = Shift(g[n], hs)
    BY <1>1
  <2> HIDE DEF a
  <2>7. a[n] = h[n]
    <3>1. n \in Nat
      BY <1>1
    <3>2. \A k \in 0 .. n : a[k] = h[k]
      BY ONLY ZenonT(60), <2>4, <2>5, <3>1, SameSteps
    <3> QED  BY <3>1, <3>2
  <2> QED  BY <1>3, <2>3, <2>6, <2>7
<1>5. ASSUME acc.thrown = TRUE PROVE DecodeFrom(acc, q).thrown = TRUE
  <2> DEFINE A == {x \in Accs : x.thrown = TRUE}
  <2>1. g[0] \in A
    BY <1>3, <1>5
  <2>2. ASSUME NEW k \in 1 .. n, g[k - 1] \in A PROVE g[k] \in A
    <3>1. q[k] \in GoodReps /\ g[k] = DecodeRep(g[k - 1], q[k])
      BY <1>1, <1>3
    <3> QED  BY <2>2, <3>1, DecodeRepType
  <2> HIDE DEF A, n
  <2>3. n \in Nat
    BY <1>1
  <2>4. \A k \in 0 .. n : g[k] \in A
    BY ONLY <2>1, <2>2, <2>3, TypedSteps
  <2>5. g[n] \in A
    BY <2>3, <2>4
  <2> QED  BY <1>3, <2>5 DEF A
<1> QED  BY <1>4, <1>5

----------------------------------------------------------------------------
(* What the encoder writes says what it means.                             *)

Encoders == {c \in Contexts : c.max \in Sizes \union {DefaultMaxSize}}

\* Every entry has a size.
LEMMA LengthBound ==
  ASSUME NEW t \in Seq(HeaderSet)
  PROVE  Len(t) <= SumOf(t)
<1> DEFINE n == Len(t)
<1>1. n \in Nat /\ \A k \in 1 .. n : SizeOf(t[k]) \in Nat \ {0}
  BY SizeType
<1>2. PICK g : Sums(t, g)
  BY SumSteps
<1>3. /\ g[0] = 0 /\ g[n] = SumOf(t) /\ \A k \in 0 .. n : g[k] \in Nat
      /\ \A k \in 1 .. n : g[k] = g[k - 1] + SizeOf(t[k])
  BY <1>2 DEF Sums
<1> HIDE DEF n
<1> DEFINE d == [k \in 0 .. n |-> g[k] - k]
<1>4. d[0] \in Nat
  BY <1>1, <1>3
<1>5. ASSUME NEW k \in 1 .. n, d[k - 1] \in Nat PROVE d[k] \in Nat
  <2>1. k \in Nat /\ k - 1 \in 0 .. n /\ k \in 0 .. n
    BY <1>1
  <2>2. g[k - 1] \in Nat /\ g[k - 1] - (k - 1) \in Nat
    BY <1>3, <1>5, <2>1
  <2>3. g[k] = g[k - 1] + SizeOf(t[k]) /\ SizeOf(t[k]) \in Nat \ {0}
    BY <1>1, <1>3
  <2> QED  BY <2>1, <2>2, <2>3
<1>6. d[n] = SumOf(t) - n
  BY <1>1, <1>3
<1> HIDE DEF d
<1>7. d[n] \in Nat
  <2>1. n \in Nat
    BY <1>1
  <2>2. \A k \in 0 .. n : d[k] \in Nat
    BY ONLY <1>4, <1>5, <2>1, TypedSteps
  <2> QED  BY <2>1, <2>2
<1>8. SumOf(t) \in Nat
  BY SumFacts
<1> QED  BY <1>1, <1>6, <1>7, <1>8 DEF n

\* The decoder accepts every index an encoder uses, and its table's size.
LEMMA SmallAccepted ==
  ASSUME NEW c \in Encoders, NEW kind \in Kinds
  PROVE  /\ \A i \in Indices(c) \union {0} :
              i \in 0 .. MaxInt /\ Accepted(i, Mask[kind])
         /\ c.max \in 0 .. MaxInt /\ Accepted(c.max, Mask[kind])
<1>1. /\ c.table \in Seq(HeaderSet) /\ c.max \in Nat /\ c.size = SumOf(c.table)
      /\ c.size <= c.max /\ c.max \in Sizes \union {DefaultMaxSize}
  BY DEF Encoders, Contexts, Good, ContextSet
<1>2. /\ Len(c.table) \in Nat /\ SumOf(c.table) \in Nat /\ Len(c.table) <= SumOf(c.table)
      /\ Len(StaticTable) \in Nat
  <2>1. Len(c.table) \in Nat /\ Len(StaticTable) \in Nat
    BY <1>1, TableAssumption
  <2> QED  BY <1>1, <2>1, SumFacts, LengthBound
<1> DEFINE m == Mask[kind]
           top == c.max + Len(StaticTable)
<1>3. m \in Nat /\ Limit \in Nat /\ MaxInt \in Nat
  BY LimitFacts
<1>4. top <= MaxInt /\ top < m + Limit /\ top \in Nat
  BY <1>1, <1>2, SizesAssumption DEF Accepted
<1>5. \A i \in Nat : i <= top => i \in 0 .. MaxInt /\ Accepted(i, m)
  <2> HIDE DEF top, m
  <2> QED  BY <1>3, <1>4 DEF Accepted
<1>6. \A i \in Indices(c) \union {0} : i \in Nat /\ i <= top
  BY <1>1, <1>2 DEF Indices
<1>7. c.max <= top
  BY <1>1, <1>2
<1> QED  BY <1>1, <1>5, <1>6, <1>7

\* The first of some indices is one of them, or there is none.
LEMMA FirstFacts ==
  ASSUME NEW S, S \subseteq Nat \ {0}
  PROVE  (First(S) = 0 /\ S = {}) \/ (First(S) \in S /\ First(S) # 0)
<1>1. CASE S = {}
  BY <1>1 DEF First
<1>2. CASE S # {}
  <2>1. PICK x \in S : \A y \in S : ~(y < x)
    BY <1>2, LeastElement
  <2>2. \A y \in S : x <= y
    BY <2>1
  <2>3. Min(S) \in S
    BY <2>2 DEF Min
  <2> QED  BY <1>2, <2>3 DEF First
<1> QED  BY <1>1, <1>2

\* A representation carries its integer.
LEMMA RepFacts ==
  ASSUME NEW kind \in Kinds, NEW int \in 0 .. MaxInt, Accepted(int, Mask[kind]),
         NEW name \in Names \union {NoString}, NEW value \in Values \union {NoString},
         kind \in {"incremental", "plain"} => value \in Values /\ (int = 0 => name \in Names)
  PROVE  /\ Rep(kind, int, name, value) \in GoodReps
         /\ Rep(kind, int, name, value).kind = kind
         /\ Rep(kind, int, name, value).name = name
         /\ Rep(kind, int, name, value).value = value
         /\ DecodeInt(Rep(kind, int, name, value).int, Mask[kind]) = int
         /\ int # Refused
<1> DEFINE r == Rep(kind, int, name, value)
<1>1. r = [kind |-> kind, int |-> EncodeInt(int, Mask[kind]), name |-> name, value |-> value]
  BY DEF Rep
<1>2. EncodeInt(int, Mask[kind]) \in Seq(0 .. 2 * Base - 1)
  BY EncodeIntType
<1>3. DecodeInt(EncodeInt(int, Mask[kind]), Mask[kind]) = int
  BY RoundTrip
<1> HIDE DEF r
<1>4. r \in RepSet
  BY <1>1, <1>2 DEF RepSet
<1>5. r.kind = kind /\ r.int = EncodeInt(int, Mask[kind]) /\ r.name = name /\ r.value = value
  BY <1>1
<1>6. r \in GoodReps
  BY <1>4, <1>5 DEF GoodReps
<1>7. int # Refused
  BY LimitFacts DEF Refused
<1> QED  BY <1>3, <1>5, <1>6, <1>7 DEF r

\* A literal names its header and carries its value.
LEMMA LiteralFacts ==
  ASSUME NEW c \in Encoders, NEW kind \in {"incremental", "plain"}, NEW h \in HeaderSet
  PROVE  /\ Literal(c, kind, h) \in GoodReps /\ Literal(c, kind, h).kind = kind
         /\ ~Throws(c, Literal(c, kind, h)) /\ Header(c, Literal(c, kind, h)) = h
<1> DEFINE S == {i \in Indices(c) : GetHeader(c, i).name = h.name}
           i == FindNameMatch(c, h.name)
           nm == IF i = 0 THEN h.name ELSE NoString
           r == Literal(c, kind, h)
<1>1. c \in Contexts /\ kind \in Kinds
  BY DEF Encoders, Kinds
<1>2. h.name \in Names /\ h.value \in Values /\ h = [name |-> h.name, value |-> h.value]
  BY DEF HeaderSet
<1>3. \A j \in Indices(c) : j \in Nat \ {0}
  BY <1>1, GetHeaderType
<1>4. i = 0 \/ (i \in Indices(c) /\ GetHeader(c, i).name = h.name)
  <2>1. i = First(S)
    BY DEF FindNameMatch
  <2>2. S \subseteq Nat \ {0}
    BY <1>3
  <2> HIDE DEF S, i
  <2>3. (First(S) = 0 /\ S = {}) \/ (First(S) \in S /\ First(S) # 0)
    BY <2>2, FirstFacts
  <2> QED  BY <2>1, <2>3 DEF S
<1> HIDE DEF i
<1>5. i \in 0 .. MaxInt /\ Accepted(i, Mask[kind])
  BY <1>1, <1>4, SmallAccepted
<1>6. r = Rep(kind, i, nm, h.value)
  BY DEF Literal, i
<1>7. nm \in Names \union {NoString} /\ (i = 0 => nm \in Names)
  BY <1>2
<1> HIDE DEF nm, r
<1>8. /\ r \in GoodReps /\ r.kind = kind /\ r.name = nm /\ r.value = h.value
      /\ DecodeInt(r.int, Mask[kind]) = i /\ i # Refused
  BY <1>1, <1>2, <1>5, <1>6, <1>7, RepFacts
<1>9. ~Throws(c, r)
  BY <1>4, <1>8 DEF Throws
<1>10. Header(c, r) = h
  <2>1. Header(c, r) = [name |-> IF i = 0 THEN r.name ELSE GetHeader(c, i).name, value |-> r.value]
    BY <1>8 DEF Header
  <2>2. (IF i = 0 THEN r.name ELSE GetHeader(c, i).name) = h.name
    BY <1>4, <1>8 DEF nm
  <2> QED  BY <1>2, <1>8, <2>1, <2>2
<1> QED  BY <1>8, <1>9, <1>10 DEF r

\* The representation encode adds for a header, and the table it leaves.
RepOf(c, h) ==
  IF FindExactMatch(c, h) # 0 THEN Rep("indexed", FindExactMatch(c, h), NoString, NoString)
  ELSE Literal(c, "incremental", h)
CtxOf(c, h) == IF FindExactMatch(c, h) # 0 THEN c ELSE AddToDynamicTable(c, h)

LEMMA EncodeOne ==
  ASSUME NEW c \in Encoders, NEW h \in HeaderSet
  PROVE  /\ CtxOf(c, h) \in Encoders /\ RepOf(c, h) \in GoodReps
         /\ \A q : EncodeHeader([ctx |-> c, reps |-> q], h) =
                     [ctx |-> CtxOf(c, h), reps |-> Append(q, RepOf(c, h))]
         /\ \A hs : DecodeRep([ctx |-> c, headers |-> hs, thrown |-> FALSE], RepOf(c, h)) =
                      [ctx |-> CtxOf(c, h), headers |-> Append(hs, h), thrown |-> FALSE]
<1> DEFINE S == {j \in Indices(c) : GetHeader(c, j) = h}
           i == FindExactMatch(c, h)
           r == RepOf(c, h)
           d == CtxOf(c, h)
<1>1. c \in Contexts /\ "indexed" \in Kinds
  BY DEF Encoders, Kinds
<1>2. \A j \in Indices(c) : j \in Nat \ {0}
  BY <1>1, GetHeaderType
<1>3. i = 0 \/ (i \in Indices(c) /\ GetHeader(c, i) = h /\ i # 0)
  <2>1. i = First(S)
    BY DEF FindExactMatch
  <2>2. S \subseteq Nat \ {0}
    BY <1>2
  <2> HIDE DEF S, i
  <2>3. (First(S) = 0 /\ S = {}) \/ (First(S) \in S /\ First(S) # 0)
    BY <2>2, FirstFacts
  <2> QED  BY <2>1, <2>3 DEF S
<1>4. /\ d = IF i # 0 THEN c ELSE AddToDynamicTable(c, h)
      /\ r = IF i # 0 THEN Rep("indexed", i, NoString, NoString) ELSE Literal(c, "incremental", h)
  BY DEF CtxOf, RepOf
<1>5. ASSUME NEW q
      PROVE  EncodeHeader([ctx |-> c, reps |-> q], h) = [ctx |-> d, reps |-> Append(q, r)]
  <2> DEFINE acc == [ctx |-> c, reps |-> q]
  <2>1. acc.ctx = c /\ acc.reps = q
    OBVIOUS
  <2>2. EncodeHeader(acc, h) =
          IF i # 0 THEN [acc EXCEPT !.reps = Append(q, Rep("indexed", i, NoString, NoString))]
          ELSE [ctx |-> AddToDynamicTable(c, h), reps |-> Append(q, Literal(c, "incremental", h))]
    BY <2>1 DEF EncodeHeader
  <2> HIDE DEF i, r, d
  <2>3. CASE i # 0
    <3>1. EncodeHeader(acc, h) = [acc EXCEPT !.reps = Append(q, r)] /\ d = c
      BY <1>4, <2>2, <2>3
    <3> QED  BY <3>1
  <2>4. CASE i = 0
    BY <1>4, <2>2, <2>4
  <2> QED  BY <2>3, <2>4
<1> HIDE DEF i, r, d
<1>6. d \in Encoders
  BY <1>1, <1>4, AddGood DEF Encoders
<1>7. r \in GoodReps /\ ~Throws(c, r) /\ Header(c, r) = h /\ CtxAfter(c, r) = d /\ r.kind # "resize"
  <2>1. CASE i # 0
    <3>1. i \in 0 .. MaxInt /\ Accepted(i, Mask["indexed"])
      BY <1>1, <1>3, <2>1, SmallAccepted
    <3>2. /\ r \in GoodReps /\ r.kind = "indexed"
          /\ DecodeInt(r.int, Mask["indexed"]) = i /\ i # Refused
      BY <1>1, <1>4, <2>1, <3>1, RepFacts
    <3>3. ~Throws(c, r)
      BY <1>3, <2>1, <3>2 DEF Throws
    <3>4. Header(c, r) = h
      BY <1>3, <2>1, <3>2 DEF Header
    <3>5. CtxAfter(c, r) = d
      BY <1>4, <2>1, <3>2 DEF CtxAfter
    <3> QED  BY <3>2, <3>3, <3>4, <3>5
  <2>2. CASE i = 0
    <3>1. r = Literal(c, "incremental", h) /\ d = AddToDynamicTable(c, h)
      BY <1>4, <2>2
    <3>2. r \in GoodReps /\ r.kind = "incremental" /\ ~Throws(c, r) /\ Header(c, r) = h
      BY <3>1, LiteralFacts
    <3>3. CtxAfter(c, r) = d
      BY <3>1, <3>2 DEF CtxAfter
    <3> QED  BY <3>2, <3>3
  <2> QED  BY <2>1, <2>2
<1>8. ASSUME NEW hs
      PROVE  DecodeRep([ctx |-> c, headers |-> hs, thrown |-> FALSE], r) =
               [ctx |-> d, headers |-> Append(hs, h), thrown |-> FALSE]
  <2>1. DecodeRep([ctx |-> c, headers |-> hs, thrown |-> FALSE], r)
          = [ctx |-> CtxAfter(c, r), headers |-> Append(hs, Header(c, r)), thrown |-> FALSE]
    BY <1>7, RepCases
  <2> QED  BY <1>7, <2>1
<1> QED  BY <1>5, <1>6, <1>7, <1>8 DEF r, d

\* What encode has after each header.
EncAccs == [ctx : Encoders, reps : Seq(GoodReps)]

Encodes(c, headers, g) ==
  /\ g[0] = [ctx |-> c, reps |-> <<>>] /\ g[Len(headers)] = Encode(c, headers)
  /\ \A k \in 1 .. Len(headers) : g[k] = EncodeHeader(g[k - 1], headers[k])
  /\ \A k \in 0 .. Len(headers) : g[k] \in EncAccs

LEMMA EncodeHeaderType ==
  ASSUME NEW acc \in EncAccs, NEW h \in HeaderSet
  PROVE  /\ EncodeHeader(acc, h) \in EncAccs
         /\ EncodeHeader(acc, h).ctx = CtxOf(acc.ctx, h)
         /\ EncodeHeader(acc, h).reps = Append(acc.reps, RepOf(acc.ctx, h))
<1> DEFINE c == acc.ctx
           q == acc.reps
           d == CtxOf(c, h)
           r == RepOf(c, h)
<1>1. c \in Encoders /\ q \in Seq(GoodReps) /\ acc = [ctx |-> c, reps |-> q]
  BY DEF EncAccs
<1> HIDE DEF c, q
<1>2. d \in Encoders /\ r \in GoodReps
  BY <1>1, EncodeOne
<1>3. EncodeHeader(acc, h) = [ctx |-> d, reps |-> Append(q, r)]
  BY <1>1, EncodeOne
<1> HIDE DEF d, r
<1>4. Append(q, r) \in Seq(GoodReps)
  BY <1>1, <1>2
<1> QED  BY <1>2, <1>3, <1>4 DEF EncAccs, d, r, c, q

LEMMA EncodeSteps ==
  ASSUME NEW c \in Encoders, NEW headers \in Seq(HeaderSet)
  PROVE  \E g : Encodes(c, headers, g)
<1> DEFINE n == Len(headers)
           acc == [ctx |-> c, reps |-> <<>>]
           G == [x \in EncAccs \X (1 .. n) |-> EncodeHeader(x[1], headers[x[2]])]
           it == CHOOSE f : f = [u \in SUBSET DOMAIN headers |->
                                   IF u = {} THEN acc
                                   ELSE EncodeHeader(f[u \ {Max(u)}], headers[Max(u)])]
           g == [k \in 0 .. n |-> it[1 .. k]]
<1>1. n \in Nat /\ DOMAIN headers = 1 .. n /\ \A k \in 1 .. n : headers[k] \in HeaderSet
  OBVIOUS
<1>2. Encode(c, headers) = it[DOMAIN headers]
  BY DEF Encode, FoldLeft, MapThenFoldSet
<1>0. acc \in EncAccs
  <2>1. <<>> \in Seq(GoodReps)
    OBVIOUS
  <2> QED  BY <2>1 DEF EncAccs
<1> HIDE DEF acc
<1>3. /\ G \in [EncAccs \X (1 .. n) -> EncAccs]
      /\ \A x \in EncAccs, k \in 1 .. n : G[<<x, k>>] = EncodeHeader(x, headers[k])
  <2>1. \A x \in EncAccs, k \in 1 .. n : EncodeHeader(x, headers[k]) \in EncAccs
    BY <1>1, EncodeHeaderType
  <2> QED  BY <2>1
<1> HIDE DEF G
<1>4. it = [u \in SUBSET (1 .. n) |->
              IF u = {} THEN acc ELSE EncodeHeader(it[u \ {Max(u)}], headers[Max(u)])]
  <2>1. PICK f : Solves(f, EncAccs, acc, G, n)
    BY <1>0, <1>1, <1>3, Solution
  <2>2. ASSUME NEW u \in SUBSET (1 .. n)
        PROVE  f[u] = IF u = {} THEN acc ELSE EncodeHeader(f[u \ {Max(u)}], headers[Max(u)])
    <3>1. CASE u = {}
      BY <2>1, <3>1 DEF Solves
    <3>2. CASE u # {}
      <4>1. Max(u) \in 1 .. n
        BY <1>1, <3>2, MaxMember
      <4>2. f[u \ {Max(u)}] \in EncAccs
        BY <2>1 DEF Solves
      <4>3. f[u] = G[<<f[u \ {Max(u)}], Max(u)>>]
        BY <2>1, <3>2 DEF Solves
      <4> QED  BY <1>3, <3>2, <4>1, <4>2, <4>3
    <3> QED  BY <3>1, <3>2
  <2>3. f = [u \in SUBSET (1 .. n) |->
               IF u = {} THEN acc ELSE EncodeHeader(f[u \ {Max(u)}], headers[Max(u)])]
    BY <2>1, <2>2 DEF Solves
  <2> QED  BY <1>1, <2>3
<1> HIDE DEF it
<1>5. g[0] = acc
  <2>1. 1 .. 0 \in SUBSET (1 .. n) /\ 1 .. 0 = {}
    BY <1>1
  <2> QED  BY <1>1, <1>4, <2>1
<1>6. ASSUME NEW k \in 1 .. n PROVE g[k] = EncodeHeader(g[k - 1], headers[k])
  <2>1. /\ 1 .. k \in SUBSET (1 .. n) /\ 1 .. k # {} /\ Max(1 .. k) = k
        /\ (1 .. k) \ {k} = 1 .. k - 1 /\ k - 1 \in 0 .. n
    BY <1>1, Intervals
  <2>2. it[1 .. k] = EncodeHeader(it[1 .. k - 1], headers[k])
    BY <1>4, <2>1
  <2> QED  BY <1>1, <2>1, <2>2
<1>7. g[n] = Encode(c, headers)
  BY <1>1, <1>2
<1> HIDE DEF g
<1>8. \A k \in 0 .. n : g[k] \in EncAccs
  <2>1. ASSUME NEW k \in 1 .. n, g[k - 1] \in EncAccs PROVE g[k] \in EncAccs
    BY <1>1, <1>6, <2>1, EncodeHeaderType
  <2>2. n \in Nat /\ g[0] \in EncAccs
    BY <1>0, <1>1, <1>5
  <2> HIDE DEF n
  <2> QED  BY ONLY <2>1, <2>2, TypedSteps
<1> QED  BY <1>5, <1>6, <1>7, <1>8 DEF Encodes, acc

\* What decode makes of a block that is decoded to its end.
Ok(c, hs) == [ctx |-> c, headers |-> hs, thrown |-> FALSE]

LEMMA OkType ==
  /\ \A c \in Contexts, hs \in Seq(HeaderSet) : Ok(c, hs) \in Accs
  /\ \A c \in Contexts : Ok(c, <<>>) \in Accs
  /\ \A c, reps : Decode(c, reps) = DecodeFrom(Ok(c, <<>>), reps)
<1>1. \A c \in Contexts, hs \in Seq(HeaderSet) : Ok(c, hs) \in Accs
  BY DEF Ok, Accs
<1>2. <<>> \in Seq(HeaderSet)
  OBVIOUS
<1>3. \A c, reps : Decode(c, reps) = DecodeFrom(Ok(c, <<>>), reps)
  BY DEF Decode, DecodeFrom, Ok
<1> QED  BY <1>1, <1>2, <1>3

\* A block decoded from the table it was encoded from gives the headers and
\* the table it was encoded to.
LEMMA EncodeDecode ==
  ASSUME NEW c \in Encoders, NEW headers \in Seq(HeaderSet)
  PROVE  /\ Encode(c, headers).ctx \in Encoders
         /\ Encode(c, headers).reps \in Seq(GoodReps)
         /\ Decode(c, Encode(c, headers).reps) = Ok(Encode(c, headers).ctx, headers)
<1> DEFINE n == Len(headers)
<1>1. n \in Nat /\ \A k \in 1 .. n : headers[k] \in HeaderSet
  OBVIOUS
<1>2. PICK g : Encodes(c, headers, g)
  BY EncodeSteps
<1>3. /\ g[0] = [ctx |-> c, reps |-> <<>>] /\ g[n] = Encode(c, headers)
      /\ \A k \in 1 .. n : g[k] = EncodeHeader(g[k - 1], headers[k])
      /\ \A k \in 0 .. n : g[k] \in EncAccs
  BY <1>2 DEF Encodes
<1>4. \A k \in 0 .. n : g[k].ctx \in Encoders /\ g[k].reps \in Seq(GoodReps)
  BY <1>3 DEF EncAccs
<1>5. c \in Contexts
  BY DEF Encoders
<1> DEFINE a == [k \in 0 .. n |-> DecodeFrom(Ok(c, <<>>), g[k].reps)]
           b == [k \in 0 .. n |-> Ok(g[k].ctx, SubSeq(headers, 1, k))]
<1>6. a[0] = b[0]
  <2>1. SubSeq(headers, 1, 0) = <<>> /\ 0 \in 0 .. n
    BY <1>1
  <2>2. g[0].reps = <<>> /\ g[0].ctx = c
    BY <1>3
  <2>3. DecodeFrom(Ok(c, <<>>), <<>>) = Ok(c, <<>>)
    BY <1>5, DecodeNothing, OkType
  <2> QED  BY <2>1, <2>2, <2>3
<1>7. ASSUME NEW k \in 1 .. n, a[k - 1] = b[k - 1] PROVE a[k] = b[k]
  <2>1. k - 1 \in 0 .. n /\ k \in 0 .. n
    BY <1>1
  <2> DEFINE e == g[k - 1]
             h == headers[k]
             q == e.reps
             r == RepOf(e.ctx, h)
             hs == SubSeq(headers, 1, k - 1)
  <2>2. e \in EncAccs /\ h \in HeaderSet /\ g[k] = EncodeHeader(e, h)
    BY <1>1, <1>3, <2>1
  <2>3. e.ctx \in Encoders /\ q \in Seq(GoodReps)
    BY <1>4, <2>1
  <2>4. DecodeFrom(Ok(c, <<>>), q) = Ok(e.ctx, hs)
    BY <1>7, <2>1
  <2>5. SubSeq(headers, 1, k) = Append(hs, h)
    BY <1>1
  <2> HIDE DEF e, h, hs
  <2>6. g[k].ctx = CtxOf(e.ctx, h) /\ g[k].reps = Append(q, r)
    BY <2>2, EncodeHeaderType
  <2> DEFINE d == e.ctx
  <2>7. d \in Encoders
    BY <2>3
  <2> HIDE DEF d, q
  <2>8. r \in GoodReps
    BY <2>2, <2>7, EncodeOne DEF d
  <2>9. DecodeRep(Ok(d, hs), RepOf(d, h)) = Ok(CtxOf(d, h), Append(hs, h))
    BY <2>2, <2>7, EncodeOne DEF Ok
  <2> HIDE DEF r
  <2>10. Append(q, r) = q \o <<r>> /\ <<r>> \in Seq(GoodReps)
    BY <2>3, <2>8
  <2>11. Ok(c, <<>>) \in Accs
    BY <1>5, OkType
  <2>12. DecodeFrom(Ok(c, <<>>), q \o <<r>>) = DecodeFrom(Ok(d, hs), <<r>>)
         /\ Ok(d, hs) \in Accs
    BY <2>3, <2>4, <2>10, <2>11, DecodeConcat DEF d
  <2>13. DecodeFrom(Ok(d, hs), <<r>>) = DecodeRep(Ok(d, hs), r)
    BY <2>8, <2>12, DecodeOne
  <2>14. DecodeFrom(Ok(c, <<>>), g[k].reps) = Ok(g[k].ctx, SubSeq(headers, 1, k))
    BY <2>5, <2>6, <2>9, <2>10, <2>12, <2>13 DEF d, r
  <2> QED  BY <2>1, <2>14
<1>8. a[n] = DecodeFrom(Ok(c, <<>>), g[n].reps) /\ b[n] = Ok(g[n].ctx, SubSeq(headers, 1, n))
      /\ SubSeq(headers, 1, n) = headers /\ n \in 0 .. n
  BY <1>1, SubSeqFull
<1> HIDE DEF a, b, n
<1>9. a[n] = b[n]
  <2>1. n \in Nat
    BY <1>1
  <2>2. \A k \in 0 .. n : a[k] = b[k]
    BY ONLY ZenonT(60), <1>6, <1>7, <2>1, SameSteps
  <2> QED  BY <2>1, <2>2
<1> QED  BY <1>3, <1>4, <1>8, <1>9, OkType

----------------------------------------------------------------------------
(* The blocks on their way take the decoder's table to the encoder's.      *)

BlockSet == [reps : Seq(GoodReps), headers : Seq(HeaderSet)]

\* The tables that the blocks lead to, each from the one before.
Chained(cs, from, to, blocks) ==
  /\ cs \in [0 .. Len(blocks) -> Contexts] /\ cs[0] = from /\ cs[Len(blocks)] = to
  /\ \A i \in 1 .. Len(blocks) :
       Decode(cs[i - 1], blocks[i].reps) = Ok(cs[i], blocks[i].headers)

\* The inductive invariant.
IInv ==
  /\ encoder \in Encoders /\ decoder \in Contexts
  /\ channel \in Seq(BlockSet) /\ failed \in BOOLEAN
  /\ ~failed => \E cs : Chained(cs, decoder, encoder, channel)

\* One more block.
LEMMA ChainAppend ==
  ASSUME NEW from, NEW mid, NEW to \in Contexts, NEW blocks \in Seq(BlockSet),
         NEW cs, Chained(cs, from, mid, blocks),
         NEW b \in BlockSet, Decode(mid, b.reps) = Ok(to, b.headers)
  PROVE  \E ds : Chained(ds, from, to, Append(blocks, b))
<1> DEFINE n == Len(blocks)
           bs == Append(blocks, b)
           ds == [i \in 0 .. n + 1 |-> IF i = n + 1 THEN to ELSE cs[i]]
<1>1. /\ n \in Nat /\ Len(bs) = n + 1 /\ bs[n + 1] = b
      /\ \A i \in 1 .. n : bs[i] = blocks[i]
  OBVIOUS
<1>2. /\ cs \in [0 .. n -> Contexts] /\ cs[0] = from /\ cs[n] = mid
      /\ \A i \in 1 .. n : Decode(cs[i - 1], blocks[i].reps) = Ok(cs[i], blocks[i].headers)
  BY DEF Chained
<1> HIDE DEF n, bs
<1>3. ds \in [0 .. n + 1 -> Contexts] /\ ds[0] = from /\ ds[n + 1] = to
      /\ \A i \in 0 .. n : ds[i] = cs[i]
  <2>1. \A i \in 0 .. n + 1 : i # n + 1 => i \in 0 .. n
    BY <1>1
  <2>2. 0 \in 0 .. n + 1 /\ 0 # n + 1 /\ n + 1 \in 0 .. n + 1
    BY <1>1
  <2>3. \A i \in 0 .. n : i \in 0 .. n + 1 /\ i # n + 1
    BY <1>1
  <2>4. ds \in [0 .. n + 1 -> Contexts]
    BY <1>2, <2>1
  <2> QED  BY <1>2, <2>2, <2>3, <2>4
<1> HIDE DEF ds
<1>4. ASSUME NEW i \in 1 .. n + 1
      PROVE  Decode(ds[i - 1], bs[i].reps) = Ok(ds[i], bs[i].headers)
  <2>1. CASE i = n + 1
    <3>1. i - 1 = n /\ n \in 0 .. n
      BY <1>1, <2>1
    <3> QED  BY <1>1, <1>2, <1>3, <2>1, <3>1
  <2>2. CASE i # n + 1
    <3>1. i \in 1 .. n /\ i \in 0 .. n /\ i - 1 \in 0 .. n
      BY <1>1, <2>2
    <3> QED  BY <1>1, <1>2, <1>3, <3>1
  <2> QED  BY <2>1, <2>2
<1>5. Chained(ds, from, to, bs)
  BY <1>1, <1>3, <1>4 DEF Chained
<1> QED  BY <1>5 DEF bs

\* The first block done, or another one in its place.
LEMMA ChainTail ==
  ASSUME NEW from, NEW to, NEW blocks \in Seq(BlockSet), blocks # <<>>,
         NEW cs, Chained(cs, from, to, blocks)
  PROVE  /\ cs[1] \in Contexts
         /\ Decode(from, blocks[1].reps) = Ok(cs[1], blocks[1].headers)
         /\ \E ds : Chained(ds, cs[1], to, Tail(blocks))
         /\ \A b \in BlockSet, d \in Contexts : Decode(d, b.reps) = Ok(cs[1], b.headers) =>
              \E ds : Chained(ds, d, to, <<b>> \o Tail(blocks))
<1> DEFINE n == Len(blocks) - 1
           tl == Tail(blocks)
<1>1. /\ n \in Nat /\ Len(blocks) = n + 1 /\ Len(tl) = n /\ tl \in Seq(BlockSet)
      /\ \A i \in 1 .. n : tl[i] = blocks[i + 1]
  OBVIOUS
<1>2. /\ cs \in [0 .. n + 1 -> Contexts] /\ cs[0] = from /\ cs[n + 1] = to
      /\ \A i \in 1 .. n + 1 : Decode(cs[i - 1], blocks[i].reps) = Ok(cs[i], blocks[i].headers)
  BY <1>1 DEF Chained
<1> HIDE DEF n, tl
<1>3. cs[1] \in Contexts /\ Decode(from, blocks[1].reps) = Ok(cs[1], blocks[1].headers)
  <2>1. 1 \in 1 .. n + 1 /\ 1 \in 0 .. n + 1 /\ 1 - 1 = 0
    BY <1>1
  <2> QED  BY <1>2, <2>1
<1>4. \E ds : Chained(ds, cs[1], to, tl)
  <2> DEFINE ds == [i \in 0 .. n |-> cs[i + 1]]
  <2>1. \A i \in 0 .. n : i + 1 \in 0 .. n + 1
    BY <1>1
  <2>2. ds \in [0 .. n -> Contexts]
    BY <1>2, <2>1
  <2>3. ds[0] = cs[1] /\ ds[n] = to
    BY <1>1, <1>2
  <2>4. ASSUME NEW i \in 1 .. n PROVE Decode(ds[i - 1], tl[i].reps) = Ok(ds[i], tl[i].headers)
    <3>1. i + 1 \in 1 .. n + 1 /\ (i + 1) - 1 = i /\ (i - 1) + 1 = i /\ i \in 0 .. n /\ i - 1 \in 0 .. n
      BY <1>1
    <3>2. Decode(cs[i], blocks[i + 1].reps) = Ok(cs[i + 1], blocks[i + 1].headers)
      BY <1>2, <3>1
    <3> QED  BY <1>1, <3>1, <3>2
  <2> HIDE DEF ds
  <2>5. Chained(ds, cs[1], to, tl)
    BY <1>1, <2>2, <2>3, <2>4 DEF Chained
  <2> QED  BY <2>5
<1>5. ASSUME NEW b, NEW d \in Contexts, Decode(d, b.reps) = Ok(cs[1], b.headers)
      PROVE  \E ds : Chained(ds, d, to, <<b>> \o tl)
  <2> DEFINE ds == [i \in 0 .. n + 1 |-> IF i = 0 THEN d ELSE cs[i]]
             bs == <<b>> \o tl
  <2>1. Len(bs) = n + 1 /\ bs[1] = b /\ \A i \in 1 .. n : bs[i + 1] = tl[i]
    BY <1>1
  <2>2. ds \in [0 .. n + 1 -> Contexts]
    BY <1>2
  <2>3. ds[0] = d /\ ds[n + 1] = to /\ \A i \in 1 .. n + 1 : ds[i] = cs[i]
    BY <1>1, <1>2
  <2> HIDE DEF ds, bs
  <2>4. ASSUME NEW i \in 1 .. n + 1 PROVE Decode(ds[i - 1], bs[i].reps) = Ok(ds[i], bs[i].headers)
    <3>1. CASE i = 1
      <4>1. i - 1 = 0 /\ 1 \in 1 .. n + 1
        BY <1>1, <3>1
      <4> QED  BY <1>5, <2>1, <2>3, <3>1, <4>1
    <3>2. CASE i # 1
      <4>1. i - 1 \in 1 .. n /\ i - 1 \in 1 .. n + 1 /\ (i - 1) + 1 = i
        BY <1>1, <3>2
      <4>2. bs[i] = blocks[i]
        BY <1>1, <2>1, <4>1
      <4> QED  BY <1>2, <2>3, <4>1, <4>2
    <3> QED  BY <3>1, <3>2
  <2>5. Chained(ds, d, to, bs)
    BY <2>1, <2>2, <2>3, <2>4 DEF Chained
  <2> QED  BY <2>5 DEF bs
<1> QED  BY <1>3, <1>4, <1>5 DEF tl

\* A block read in two pieces.
Read(s, k) == SubSeq(s, 1, k)
Unread(s, k) == SubSeq(s, k + 1, Len(s))
LeavesRest(d, reps, hs, k, to) ==
  /\ d.ctx \in Contexts /\ d.headers \in Seq(HeaderSet) /\ d.thrown = FALSE
  /\ Unread(reps, k) \in Seq(GoodReps)
  /\ Unread(hs, Len(d.headers)) \in Seq(HeaderSet)
  /\ Decode(d.ctx, Unread(reps, k)) = Ok(to, Unread(hs, Len(d.headers)))

LEMMA BlockSplit ==
  ASSUME NEW c \in Contexts, NEW reps \in Seq(GoodReps), NEW hs \in Seq(HeaderSet),
         NEW to, Decode(c, reps) = Ok(to, hs), NEW k \in 0 .. Len(reps)
  PROVE  LeavesRest(Decode(c, Read(reps, k)), reps, hs, k, to)
<1> DEFINE r1 == SubSeq(reps, 1, k)
           r2 == SubSeq(reps, k + 1, Len(reps))
           d == Decode(c, Read(reps, k))
           ks == d.headers
           acc == Ok(c, <<>>)
           x == Decode(d.ctx, r2)
<1>1. r1 \in Seq(GoodReps) /\ r2 \in Seq(GoodReps)
  OBVIOUS
<1>2. r1 \o r2 = reps
  <2>1. 1 \in 1 .. Len(reps) + 1 /\ k \in 1 - 1 .. Len(reps) /\ Len(reps) \in k .. Len(reps)
    OBVIOUS
  <2>2. r1 \o r2 = SubSeq(reps, 1, Len(reps))
    BY <2>1, ConcatAdjacentSubSeq
  <2> QED  BY <2>2, SubSeqFull
<1>3. acc \in Accs /\ d = DecodeFrom(acc, r1) /\ DecodeFrom(acc, reps) = Ok(to, hs)
  BY OkType DEF Read
<1> HIDE DEF acc, r1, r2, d
<1>4. d \in Accs /\ DecodeFrom(d, r2) = Ok(to, hs)
  <2>1. acc \in Accs
    BY <1>3
  <2>2. /\ DecodeFrom(acc, r1) \in Accs
        /\ DecodeFrom(acc, r1 \o r2) = DecodeFrom(DecodeFrom(acc, r1), r2)
    BY <1>1, <2>1, DecodeConcat
  <2> QED  BY <1>2, <1>3, <2>2
<1>5. d.ctx \in Contexts /\ ks \in Seq(HeaderSet) /\ d.thrown \in BOOLEAN
  BY <1>4 DEF Accs
<1>6. d.thrown = FALSE
  <2>1. d.thrown = TRUE => DecodeFrom(d, r2).thrown = TRUE
    BY <1>1, <1>4, DecodeAfter
  <2>2. Ok(to, hs).thrown = FALSE
    BY DEF Ok
  <2> QED  BY <1>4, <1>5, <2>1, <2>2
<1>7. d = Shift(Ok(d.ctx, <<>>), ks)
  <2>1. d = [ctx |-> d.ctx, headers |-> ks, thrown |-> FALSE]
    BY <1>4, <1>6 DEF Accs
  <2>2. ks \o <<>> = ks
    BY <1>5, ConcatEmptySeq
  <2>3. Shift(Ok(d.ctx, <<>>), ks) = [ctx |-> d.ctx, headers |-> ks \o <<>>, thrown |-> FALSE]
    BY DEF Shift, Ok
  <2> QED  BY <2>1, <2>2, <2>3
<1>8. x = DecodeFrom(Ok(d.ctx, <<>>), r2) /\ Ok(d.ctx, <<>>) \in Accs
  BY <1>5, OkType
<1> HIDE DEF x
<1>9. Ok(to, hs) = Shift(x, ks) /\ x \in Accs
  <2>1. x \in Accs
    BY <1>1, <1>8, DecodeConcat
  <2>2. DecodeFrom(Shift(Ok(d.ctx, <<>>), ks), r2) = Shift(DecodeFrom(Ok(d.ctx, <<>>), r2), ks)
    BY <1>1, <1>5, <1>8, DecodeAfter
  <2> HIDE DEF ks
  <2> QED  BY <1>4, <1>7, <1>8, <2>1, <2>2
<1> DEFINE ys == x.headers
<1>10. to = x.ctx /\ hs = ks \o ys /\ x.thrown = FALSE /\ ys \in Seq(HeaderSet)
  BY <1>9 DEF Ok, Shift, Accs
<1>11. x = [ctx |-> x.ctx, headers |-> ys, thrown |-> x.thrown]
  BY <1>9 DEF Accs
<1> HIDE DEF ks, ys
<1>12. SubSeq(hs, Len(ks) + 1, Len(hs)) = ys
  BY <1>5, <1>10
<1>13. x = Ok(to, SubSeq(hs, Len(ks) + 1, Len(hs)))
  BY <1>10, <1>11, <1>12 DEF Ok
<1>14. LeavesRest(d, reps, hs, k, to)
  BY <1>1, <1>5, <1>6, <1>10, <1>12, <1>13 DEF x, ks, r2, Unread, LeavesRest
<1> QED  BY <1>14 DEF d

----------------------------------------------------------------------------
(* The invariant is inductive.                                             *)

LEMMA Initial ==
  Init => IInv
<1> SUFFICES ASSUME Init PROVE IInv
  OBVIOUS
<1>1. NewContext \in Contexts /\ NewContext \in Encoders
  BY NewContextGood DEF Encoders, NewContext
<1>2. channel = <<>> /\ <<>> \in Seq(BlockSet) /\ Len(<<>>) = 0
  BY DEF Init
<1> DEFINE cs == [i \in 0 .. 0 |-> NewContext]
<1>3. cs \in [0 .. 0 -> Contexts] /\ cs[0] = NewContext
  BY <1>1
<1> HIDE DEF cs
<1>4. Chained(cs, decoder, encoder, channel)
  BY <1>2, <1>3 DEF Init, Chained
<1> QED  BY <1>1, <1>2, <1>4 DEF Init, IInv

\* A block that leads from the encoder's table to its next one.
LEMMA SendKeeps ==
  ASSUME IInv, NEW reps \in Seq(GoodReps), NEW headers \in Seq(HeaderSet),
         encoder' \in Encoders, Decode(encoder, reps) = Ok(encoder', headers),
         Send(reps, headers), UNCHANGED <<decoder, failed>>
  PROVE  IInv'
<1> DEFINE b == [reps |-> reps, headers |-> headers]
<1>1. b \in BlockSet /\ b.reps = reps /\ b.headers = headers
  BY DEF BlockSet
<1>2. channel' = Append(channel, b)
  BY DEF Send
<1> HIDE DEF b
<1>3. channel \in Seq(BlockSet) /\ channel' \in Seq(BlockSet)
  BY <1>1, <1>2 DEF IInv
<1>4. ASSUME ~failed PROVE \E ds : Chained(ds, decoder, encoder', channel')
  <2>1. PICK cs : Chained(cs, decoder, encoder, channel)
    BY <1>4 DEF IInv
  <2>2. encoder' \in Contexts /\ Decode(encoder, b.reps) = Ok(encoder', b.headers)
    BY <1>1 DEF Encoders
  <2>3. \E ds : Chained(ds, decoder, encoder', Append(channel, b))
    BY <1>1, <1>3, <2>1, <2>2, ChainAppend
  <2> QED  BY <1>2, <2>3
<1>5. decoder' \in Contexts /\ failed' \in BOOLEAN
  BY DEF IInv
<1>6. ~failed' => \E ds : Chained(ds, decoder', encoder', channel')
  BY <1>4
<1> QED  BY <1>3, <1>5, <1>6 DEF IInv

LEMMA SendHeadersKeeps ==
  ASSUME IInv, NEW headers \in Seq(HeaderSet), SendHeaders(headers)
  PROVE  IInv'
<1> DEFINE e == Encode(encoder, headers)
<1>1. encoder \in Encoders
  BY DEF IInv
<1>2. /\ e.ctx \in Encoders /\ e.reps \in Seq(GoodReps)
      /\ Decode(encoder, e.reps) = Ok(e.ctx, headers)
  BY <1>1, EncodeDecode
<1>3. encoder' = e.ctx /\ Send(e.reps, headers) /\ UNCHANGED <<decoder, failed>>
  BY DEF SendHeaders
<1> HIDE DEF e
<1> QED  BY <1>2, <1>3, SendKeeps

LEMMA SendPlainKeeps ==
  ASSUME IInv, NEW h \in HeaderSet, SendPlain(h)
  PROVE  IInv'
<1> DEFINE r == Literal(encoder, "plain", h)
<1>1. encoder \in Encoders /\ encoder \in Contexts
  BY DEF IInv, Encoders
<1>2. r \in GoodReps /\ r.kind = "plain" /\ ~Throws(encoder, r) /\ Header(encoder, r) = h
  BY <1>1, LiteralFacts
<1>3. Send(<<r>>, <<h>>) /\ UNCHANGED <<encoder, decoder, failed>>
  BY DEF SendPlain
<1> HIDE DEF r
<1>4. CtxAfter(encoder, r) = encoder
  BY <1>2 DEF CtxAfter
<1>5. DecodeRep(Ok(encoder, <<>>), r) = Ok(encoder, Append(<<>>, h))
  <2>1. r.kind # "resize"
    BY <1>2
  <2>2. DecodeRep([ctx |-> encoder, headers |-> <<>>, thrown |-> FALSE], r)
          = [ctx |-> CtxAfter(encoder, r), headers |-> Append(<<>>, Header(encoder, r)),
             thrown |-> FALSE]
    BY <1>2, <2>1, RepCases
  <2> QED  BY <1>2, <1>4, <2>2 DEF Ok
<1>6. Append(<<>>, h) = <<h>> /\ <<h>> \in Seq(HeaderSet) /\ <<r>> \in Seq(GoodReps)
  BY <1>2
<1>7. Ok(encoder, <<>>) \in Accs /\ Decode(encoder, <<r>>) = DecodeFrom(Ok(encoder, <<>>), <<r>>)
  BY <1>1, OkType
<1>8. Decode(encoder, <<r>>) = Ok(encoder, <<h>>)
  BY <1>2, <1>5, <1>6, <1>7, DecodeOne
<1>9. encoder' \in Encoders /\ Decode(encoder, <<r>>) = Ok(encoder', <<h>>)
  BY <1>1, <1>3, <1>8
<1> QED  BY <1>3, <1>6, <1>9, SendKeeps

LEMMA ResizeKeeps ==
  ASSUME IInv, NEW n \in Sizes, NEW h \in HeaderSet, Resize(n, <<h>>)
  PROVE  IInv'
<1> DEFINE c == SetMaxTableSize(encoder, n)
           e == Encode(c, <<h>>)
           r == Rep("resize", n, NoString, NoString)
           reps == <<r>> \o e.reps
<1>1. encoder \in Encoders /\ encoder \in Contexts /\ n \in Nat /\ <<h>> \in Seq(HeaderSet)
  BY TableAssumption DEF IInv, Encoders
<1>2. c \in Encoders /\ c \in Contexts /\ c.max = n
  BY <1>1, SetMaxTableSizeGood DEF Encoders
<1>3. encoder' = e.ctx /\ Send(reps, <<h>>) /\ UNCHANGED <<decoder, failed>>
  BY DEF Resize
<1> HIDE DEF c
<1>4. /\ e.ctx \in Encoders /\ e.reps \in Seq(GoodReps)
      /\ Decode(c, e.reps) = Ok(e.ctx, <<h>>)
  BY <1>1, <1>2, EncodeDecode
<1>5. n \in 0 .. MaxInt /\ Accepted(n, Mask["resize"]) /\ "resize" \in Kinds
  BY <1>2, SmallAccepted DEF Kinds
<1>6. /\ r \in GoodReps /\ r.kind = "resize"
      /\ DecodeInt(r.int, Mask["resize"]) = n /\ n # Refused
  BY <1>5, RepFacts
<1> HIDE DEF e, r
<1>7. ~Throws(encoder, r)
  BY <1>6 DEF Throws
<1>8. CtxAfter(encoder, r) = c
  BY <1>6 DEF CtxAfter, c
<1>9. DecodeRep(Ok(encoder, <<>>), r) = Ok(c, <<>>)
  BY <1>6, <1>7, <1>8, RepCases DEF Ok
<1>10. Ok(encoder, <<>>) \in Accs /\ <<r>> \in Seq(GoodReps)
  BY <1>1, <1>6, OkType
<1>11. DecodeFrom(Ok(encoder, <<>>), <<r>>) = Ok(c, <<>>)
  BY <1>6, <1>9, <1>10, DecodeOne
<1>12. DecodeFrom(Ok(encoder, <<>>), <<r>> \o e.reps) = DecodeFrom(Ok(c, <<>>), e.reps)
  BY ZenonT(60), <1>4, <1>10, <1>11, DecodeConcat
<1>13. Decode(encoder, reps) = Ok(e.ctx, <<h>>)
  BY <1>4, <1>12, OkType
<1>14. reps \in Seq(GoodReps)
  BY <1>4, <1>10
<1> HIDE DEF reps
<1> QED  BY <1>1, <1>3, <1>4, <1>13, <1>14, SendKeeps

LEMMA ReceiveKeeps ==
  ASSUME IInv, NEW k \in Nat, NEW cut \in BOOLEAN, Receive(k, cut)
  PROVE  IInv'
<1> DEFINE b == Head(channel)
           reps == b.reps
           hs == b.headers
           d == Decode(decoder, SubSeq(reps, 1, k))
           rest == [reps |-> SubSeq(reps, k + 1, Len(reps)),
                    headers |-> SubSeq(hs, Len(d.headers) + 1, Len(hs))]
           tl == Tail(channel)
<1>1. /\ ~failed /\ channel # <<>> /\ k \in 0 .. Len(reps)
      /\ decoder' = d.ctx /\ failed' = (cut \/ d.thrown)
      /\ channel' = IF rest.reps = <<>> THEN tl ELSE <<rest>> \o tl
      /\ UNCHANGED encoder
  BY DEF Receive
<1>2. /\ decoder \in Contexts /\ encoder \in Encoders /\ channel \in Seq(BlockSet)
  BY DEF IInv
<1>3. PICK cs : Chained(cs, decoder, encoder, channel)
  BY <1>1 DEF IInv
<1>4. b = channel[1] /\ b \in BlockSet /\ tl \in Seq(BlockSet)
  BY <1>1, <1>2, HeadTailProperties
<1> HIDE DEF b, tl
<1>5. /\ cs[1] \in Contexts /\ Decode(decoder, reps) = Ok(cs[1], hs)
      /\ \E ds : Chained(ds, cs[1], encoder, tl)
      /\ \A x \in BlockSet, c \in Contexts : Decode(c, x.reps) = Ok(cs[1], x.headers) =>
           \E ds : Chained(ds, c, encoder, <<x>> \o tl)
  BY ZenonT(60), <1>1, <1>2, <1>3, <1>4, ChainTail DEF tl
<1>6. reps \in Seq(GoodReps) /\ hs \in Seq(HeaderSet)
  BY <1>4 DEF BlockSet
<1> HIDE DEF reps, hs
<1> DEFINE r2 == SubSeq(reps, k + 1, Len(reps))
           h2 == SubSeq(hs, Len(d.headers) + 1, Len(hs))
<1>7. /\ d.ctx \in Contexts /\ d.headers \in Seq(HeaderSet) /\ d.thrown = FALSE
      /\ r2 \in Seq(GoodReps) /\ h2 \in Seq(HeaderSet)
      /\ Decode(d.ctx, r2) = Ok(cs[1], h2)
  <2> DEFINE to == cs[1]
  <2>1. d = Decode(decoder, Read(reps, k))
    BY DEF Read
  <2>2. Decode(decoder, reps) = Ok(to, hs) /\ k \in 0 .. Len(reps) /\ decoder \in Contexts
    BY <1>1, <1>2, <1>5
  <2> HIDE DEF to, d
  <2>3. LeavesRest(d, reps, hs, k, to)
    BY ONLY <1>6, <2>1, <2>2, BlockSplit
  <2>4. r2 = Unread(reps, k) /\ h2 = Unread(hs, Len(d.headers))
    BY DEF Unread
  <2> QED  BY <2>3, <2>4 DEF to, LeavesRest
<1> HIDE DEF d, r2, h2
<1>8. rest = [reps |-> r2, headers |-> h2] /\ rest.reps = r2 /\ rest.headers = h2
  BY DEF r2, h2
<1> HIDE DEF rest
<1>9. rest \in BlockSet
  BY <1>7, <1>8 DEF BlockSet
<1>10. channel' \in Seq(BlockSet)
  <2>1. <<rest>> \o tl \in Seq(BlockSet)
    BY <1>4, <1>9
  <2> QED  BY <1>1, <1>4, <2>1
<1>11. encoder' \in Encoders /\ decoder' \in Contexts /\ failed' \in BOOLEAN
  BY <1>1, <1>2, <1>7
<1>12. \E ds : Chained(ds, decoder', encoder', channel')
  <2>1. CASE r2 = <<>>
    <3>1. Ok(d.ctx, <<>>) \in Accs /\ Decode(d.ctx, <<>>) = DecodeFrom(Ok(d.ctx, <<>>), <<>>)
      BY <1>7, OkType
    <3>2. Ok(d.ctx, <<>>) = Ok(cs[1], h2)
      BY <1>7, <2>1, <3>1, DecodeNothing
    <3>3. d.ctx = cs[1]
      <4>1. Ok(d.ctx, <<>>).ctx = d.ctx /\ Ok(cs[1], h2).ctx = cs[1]
        BY DEF Ok
      <4> QED  BY <3>2, <4>1
    <3>4. channel' = tl /\ decoder' = cs[1] /\ encoder' = encoder
      BY <1>1, <1>8, <2>1, <3>3
    <3> QED  BY <1>5, <3>4
  <2>2. CASE r2 # <<>>
    <3>1. channel' = <<rest>> \o tl /\ decoder' = d.ctx /\ encoder' = encoder
      BY <1>1, <1>8, <2>2
    <3>2. Decode(d.ctx, rest.reps) = Ok(cs[1], rest.headers)
      BY <1>7, <1>8
    <3>3. \E ds : Chained(ds, d.ctx, encoder, <<rest>> \o tl)
      BY <1>5, <1>7, <1>9, <3>2
    <3> QED  BY <3>1, <3>3
  <2> QED  BY <2>1, <2>2
<1> QED  BY <1>10, <1>11, <1>12 DEF IInv

LEMMA Step ==
  IInv /\ [Next]_vars => IInv'
<1> SUFFICES ASSUME IInv, [Next]_vars PROVE IInv'
  OBVIOUS
<1>1. ASSUME NEW headers \in Blocks, SendHeaders(headers) PROVE IInv'
  <2>1. \A m \in 0 .. MaxHeaders : m \in Nat
    OBVIOUS
  <2>2. headers \in UNION {[1 .. m -> HeaderSet] : m \in 0 .. MaxHeaders}
    BY DEF Blocks, BoundedSeq, SeqOf
  <2>3. PICK m \in 0 .. MaxHeaders : headers \in [1 .. m -> HeaderSet]
    BY <2>2
  <2>4. headers \in Seq(HeaderSet)
    BY <2>1, <2>3
  <2> QED  BY <1>1, <2>4, SendHeadersKeeps
<1>2. ASSUME NEW h \in HeaderSet, SendPlain(h) PROVE IInv'
  BY <1>2, SendPlainKeeps
<1>3. ASSUME NEW n \in Sizes, NEW h \in HeaderSet, Resize(n, <<h>>) PROVE IInv'
  BY <1>3, ResizeKeeps
<1>4. ASSUME NEW cut \in BOOLEAN,
             NEW k \in 0 .. (IF channel = <<>> THEN 0 ELSE Len(Head(channel).reps)),
             Receive(k, cut)
      PROVE  IInv'
  <2>1. k \in Nat
    OBVIOUS
  <2> QED  BY <1>4, <2>1, ReceiveKeeps
<1>5. ASSUME UNCHANGED vars PROVE IInv'
  BY <1>5 DEF IInv, vars, Chained
<1> QED  BY <1>1, <1>2, <1>3, <1>4, <1>5 DEF Next

LEMMA Invariance ==
  Spec => []IInv
<1> QED  BY Initial, Step, PTL DEF Spec

----------------------------------------------------------------------------
(* What follows of the invariant.                                          *)

\* Sequences laid end to end, one at a time.
Flattens(f, seqs, S) ==
  /\ f[0] = <<>> /\ f[Len(seqs)] = FlattenSeq(seqs)
  /\ \A k \in 1 .. Len(seqs) : f[k] = f[k - 1] \o seqs[k]
  /\ \A k \in 0 .. Len(seqs) : f[k] \in Seq(S)

LEMMA FlattenSteps ==
  ASSUME NEW S, NEW seqs \in Seq(Seq(S))
  PROVE  \E f : Flattens(f, seqs, S)
<1> DEFINE n == Len(seqs)
           A == Seq(S)
           G == [x \in A \X (1 .. n) |-> IF x[2] = 1 THEN seqs[x[2]] ELSE x[1] \o seqs[x[2]]]
           flat == CHOOSE f : f = [i \in 1 .. n |-> IF i = 1 THEN seqs[i] ELSE f[i - 1] \o seqs[i]]
           f == [k \in 0 .. n |-> IF k = 0 THEN <<>> ELSE flat[k]]
<1>1. n \in Nat /\ (\A k \in 1 .. n : seqs[k] \in A) /\ <<>> \in A
  OBVIOUS
<1>2. FlattenSeq(seqs) = IF n = 0 THEN seqs ELSE flat[n]
  BY DEF FlattenSeq
<1>3. /\ G \in [A \X (1 .. n) -> A]
      /\ \A x \in A, k \in 1 .. n :
           G[<<x, k>>] = IF k = 1 THEN seqs[k] ELSE x \o seqs[k]
  <2>1. \A x \in A, y \in A : x \o y \in A
    OBVIOUS
  <2> HIDE DEF A
  <2> QED  BY <1>1, <2>1
<1> HIDE DEF G, A
<1>4. flat = [i \in 1 .. n |-> IF i = 1 THEN seqs[i] ELSE flat[i - 1] \o seqs[i]]
  <2>1. PICK it : Solves(it, A, <<>>, G, n)
    BY <1>1, <1>3, Solution
  <2> DEFINE h == [i \in 1 .. n |-> it[1 .. i]]
  <2>2. ASSUME NEW i \in 1 .. n
        PROVE  h[i] = IF i = 1 THEN seqs[i] ELSE h[i - 1] \o seqs[i]
    <3>1. /\ 1 .. i \in SUBSET (1 .. n) /\ 1 .. i # {} /\ Max(1 .. i) = i
          /\ (1 .. i) \ {i} = 1 .. i - 1 /\ i - 1 \in 0 .. n
      BY <1>1, Intervals
    <3>2. it[1 .. i] = G[<<it[1 .. i - 1], i>>]
      BY <2>1, <3>1 DEF Solves
    <3>3. 1 .. i - 1 \in SUBSET (1 .. n)
      BY <1>1
    <3>4. it[1 .. i - 1] \in A
      BY <2>1, <3>3 DEF Solves
    <3>5. i # 1 => i - 1 \in 1 .. n
      BY <1>1
    <3> QED  BY <1>3, <3>2, <3>4, <3>5
  <2>3. h = [i \in 1 .. n |-> IF i = 1 THEN seqs[i] ELSE h[i - 1] \o seqs[i]]
    BY <2>2
  <2> HIDE DEF h
  <2> QED  BY <2>3
<1> HIDE DEF flat
<1>5. f[0] = <<>>
  BY <1>1
<1>6. ASSUME NEW k \in 1 .. n PROVE f[k] = f[k - 1] \o seqs[k]
  <2>1. f[k] = flat[k]
    BY <1>1
  <2>2. CASE k = 1
    <3>1. f[k - 1] = <<>>
      BY <1>1, <2>2
    <3>2. seqs[k] = <<>> \o seqs[k]
      BY <1>1, ConcatEmptySeq DEF A
    <3> QED  BY <1>4, <2>1, <2>2, <3>1, <3>2
  <2>3. CASE k # 1
    <3>1. k - 1 \in 0 .. n /\ k - 1 # 0
      BY <1>1, <2>3
    <3> QED  BY <1>4, <2>1, <2>3, <3>1
  <2> QED  BY <2>2, <2>3
<1>7. f[n] = FlattenSeq(seqs)
  <2>1. CASE n = 0
    <3>1. seqs = <<>> /\ f[n] = <<>>
      BY <2>1
    <3> QED  BY <1>2, <2>1, <3>1
  <2>2. CASE n # 0
    BY <1>1, <1>2, <2>2
  <2> QED  BY <2>1, <2>2
<1> HIDE DEF f
<1>8. \A k \in 0 .. n : f[k] \in A
  <2>0. \A x, y \in A : x \o y \in A
    BY DEF A
  <2> HIDE DEF n
  <2>1. ASSUME NEW k \in 1 .. n, f[k - 1] \in A PROVE f[k] \in A
    <3>1. f[k] = f[k - 1] \o seqs[k] /\ seqs[k] \in A
      BY <1>1, <1>6
    <3> QED  BY <2>0, <2>1, <3>1
  <2>2. n \in Nat /\ f[0] \in A
    BY <1>1, <1>5
  <2> QED  BY ONLY <2>1, <2>2, TypedSteps
<1>9. Flattens(f, seqs, S)
  BY <1>5, <1>6, <1>7, <1>8 DEF Flattens, A
<1> QED  BY <1>9

\* A decoder that reads every block to its end is where the chain ends.
LEMMA ReadAll ==
  ASSUME NEW from \in Contexts, NEW to, NEW cs, channel \in Seq(BlockSet),
         Chained(cs, from, to, channel)
  PROVE  Decode(from, RepsInFlight) = Ok(to, HeadersInFlight)
<1> DEFINE n == Len(channel)
           rs == [i \in DOMAIN channel |-> channel[i].reps]
           hs == [i \in DOMAIN channel |-> channel[i].headers]
<1>1. n \in Nat /\ DOMAIN channel = 1 .. n /\ \A i \in 1 .. n : channel[i] \in BlockSet
  OBVIOUS
<1>2. \A i \in 1 .. n : channel[i].reps \in Seq(GoodReps) /\ channel[i].headers \in Seq(HeaderSet)
  BY <1>1 DEF BlockSet
<1>3. /\ rs \in Seq(Seq(GoodReps)) /\ Len(rs) = n
      /\ hs \in Seq(Seq(HeaderSet)) /\ Len(hs) = n
      /\ \A i \in 1 .. n : rs[i] = channel[i].reps /\ hs[i] = channel[i].headers
  <2> DEFINE A == Seq(GoodReps)
             B == Seq(HeaderSet)
  <2>1. \A i \in 1 .. n : channel[i].reps \in A /\ channel[i].headers \in B
    BY <1>2
  <2> HIDE DEF A, B, n
  <2>2. rs \in [1 .. n -> A] /\ hs \in [1 .. n -> B]
    BY <1>1, <2>1
  <2>3. rs \in Seq(A) /\ Len(rs) = n /\ hs \in Seq(B) /\ Len(hs) = n
    BY <1>1, <2>2
  <2> QED  BY <1>1, <2>3 DEF A, B
<1>4. RepsInFlight = FlattenSeq(rs) /\ HeadersInFlight = FlattenSeq(hs)
  BY DEF RepsInFlight, HeadersInFlight
<1>5. /\ cs \in [0 .. n -> Contexts] /\ cs[0] = from /\ cs[n] = to
      /\ \A i \in 1 .. n : Decode(cs[i - 1], channel[i].reps) = Ok(cs[i], channel[i].headers)
  BY DEF Chained
<1> HIDE DEF n, rs, hs
<1>6. PICK f : Flattens(f, rs, GoodReps)
  BY <1>3, FlattenSteps
<1>7. PICK g : Flattens(g, hs, HeaderSet)
  BY <1>3, FlattenSteps
<1>8. /\ f[0] = <<>> /\ f[n] = RepsInFlight /\ g[0] = <<>> /\ g[n] = HeadersInFlight
      /\ \A k \in 1 .. n : f[k] = f[k - 1] \o rs[k] /\ g[k] = g[k - 1] \o hs[k]
      /\ \A k \in 0 .. n : f[k] \in Seq(GoodReps) /\ g[k] \in Seq(HeaderSet)
  BY <1>3, <1>4, <1>6, <1>7 DEF Flattens
<1> DEFINE acc == Ok(from, <<>>)
           a == [k \in 0 .. n |-> DecodeFrom(acc, f[k])]
           b == [k \in 0 .. n |-> Ok(cs[k], g[k])]
<1>9. acc \in Accs
  BY OkType
<1>10. a[0] = b[0]
  <2>1. 0 \in 0 .. n
    BY <1>1
  <2>2. a[0] = DecodeFrom(acc, <<>>) /\ b[0] = acc
    BY <1>5, <1>8, <2>1
  <2> HIDE DEF acc
  <2>3. DecodeFrom(acc, <<>>) = acc
    BY <1>9, DecodeNothing
  <2> QED  BY <2>2, <2>3
<1> HIDE DEF acc
<1>11. ASSUME NEW k \in 1 .. n, a[k - 1] = b[k - 1] PROVE a[k] = b[k]
  <2>1. k - 1 \in 0 .. n /\ k \in 0 .. n
    BY <1>1
  <2> DEFINE c == cs[k - 1]
             d == cs[k]
             p == f[k - 1]
             q == rs[k]
             u == g[k - 1]
             v == hs[k]
             x == Ok(c, <<>>)
  <2>2. /\ c \in Contexts /\ d \in Contexts /\ p \in Seq(GoodReps) /\ q \in Seq(GoodReps)
        /\ u \in Seq(HeaderSet) /\ v \in Seq(HeaderSet)
    BY <1>2, <1>3, <1>5, <1>8, <2>1
  <2>3. f[k] = p \o q /\ g[k] = u \o v
    BY <1>8
  <2>4. DecodeFrom(acc, p) = Ok(c, u)
    BY <1>11, <2>1
  <2>5. DecodeFrom(x, q) = Ok(d, v) /\ x \in Accs
    <3>1. Decode(c, q) = Ok(d, v)
      BY <1>3, <1>5
    <3> QED  BY <2>2, <3>1, OkType
  <2> HIDE DEF c, d, p, q, u, v
  <2>6. Ok(c, u) = Shift(x, u)
    BY <2>2, ConcatEmptySeq DEF Ok, Shift
  <2>7. Shift(Ok(d, v), u) = Ok(d, u \o v)
    BY DEF Ok, Shift
  <2> HIDE DEF x
  <2>8. DecodeFrom(acc, p \o q) = DecodeFrom(DecodeFrom(acc, p), q)
    BY <1>9, <2>2, DecodeConcat
  <2>9. DecodeFrom(Shift(x, u), q) = Shift(DecodeFrom(x, q), u)
    BY <2>2, <2>5, DecodeAfter
  <2>10. DecodeFrom(acc, p \o q) = Ok(d, u \o v)
    BY <2>4, <2>5, <2>6, <2>7, <2>8, <2>9
  <2> QED  BY <2>1, <2>3, <2>10 DEF d
<1>12. a[n] = DecodeFrom(acc, f[n]) /\ b[n] = Ok(cs[n], g[n])
  BY <1>1
<1> HIDE DEF a, b
<1>13. n \in Nat
  BY <1>1
<1>14. \A k \in 0 .. n : a[k] = b[k]
  BY ONLY ZenonT(60), <1>10, <1>11, <1>13, SameSteps
<1>15. a[n] = b[n]
  BY <1>13, <1>14
<1> QED  BY <1>5, <1>8, <1>12, <1>15, OkType DEF acc

\* The contexts and the blocks keep their types: the counter of a table,
\* current_table_size_, never goes below 0, where the code's would wrap.
THEOREM TypeCorrect ==
  Spec => []TypeOK
<1>1. IInv => TypeOK
  <2> SUFFICES ASSUME IInv PROVE TypeOK
    OBVIOUS
  <2>1. encoder \in ContextSet /\ decoder \in ContextSet /\ failed \in BOOLEAN
    BY DEF IInv, Encoders, Contexts
  <2>2. BlockSet \subseteq [reps : Seq(RepSet), headers : Seq(HeaderSet)]
    <3>1. GoodReps \subseteq RepSet
      BY DEF GoodReps
    <3>2. Seq(GoodReps) \subseteq Seq(RepSet)
      BY <3>1
    <3> QED  BY <3>2 DEF BlockSet
  <2>3. channel \in Seq([reps : Seq(RepSet), headers : Seq(HeaderSet)])
    <3> DEFINE T == [reps : Seq(RepSet), headers : Seq(HeaderSet)]
    <3>1. channel \in Seq(BlockSet) /\ BlockSet \subseteq T
      BY <2>2 DEF IInv
    <3> HIDE DEF T
    <3>2. channel \in Seq(T)
      BY <3>1
    <3> QED  BY <3>2 DEF T
  <2> QED  BY <2>1, <2>3 DEF TypeOK
<1> QED  BY <1>1, Invariance, PTL

\* The counter that eviction goes by is the size of the entries, within the
\* limit, at both ends, whatever was sent, resized, cut or refused before.
THEOREM SizeCounted ==
  Spec => []SizeIsCounted
<1>1. IInv => SizeIsCounted
  BY DEF IInv, SizeIsCounted, Encoders, Contexts, Good
<1> QED  BY <1>1, Invariance, PTL

\* add_to_dynamic_table keeps what RFC 7541 4.4 keeps, of every table that
\* arises and for every header.
THEOREM InsertionKeeps ==
  Spec => []InsertionKeepsWhatFits
<1>1. IInv => InsertionKeepsWhatFits
  BY AddGood DEF IInv, InsertionKeepsWhatFits, Encoders
<1> QED  BY <1>1, Invariance, PTL

\* Every integer of the encoder's word arrives as it was sent or is refused,
\* and a refused size update leaves the decoder's table alone.
THEOREM IntegersArrive ==
  Spec => []IntegersSurvive
<1>1. IInv => IntegersSurvive
  <2> SUFFICES ASSUME IInv PROVE IntegersSurvive
    OBVIOUS
  <2>1. \A kind \in Kinds, v \in 0 .. MaxInt :
          DecodeInt(EncodeInt(v, Mask[kind]), Mask[kind]) =
            IF Accepted(v, Mask[kind]) THEN v ELSE Refused
    BY RoundTrip
  <2>2. ASSUME NEW v \in 0 .. MaxInt
        PROVE  LET d == Decode(decoder, <<Rep("resize", v, NoString, NoString)>>)
               IN IF Accepted(v, Mask["resize"]) THEN d.ctx = SetMaxTableSize(decoder, v)
                  ELSE d.thrown /\ d.ctx = decoder
    <3> DEFINE r == Rep("resize", v, NoString, NoString)
               d == Decode(decoder, <<r>>)
    <3>1. "resize" \in Kinds /\ decoder \in Contexts
      BY DEF Kinds, IInv
    <3>2. r = [kind |-> "resize", int |-> EncodeInt(v, Mask["resize"]), name |-> NoString,
               value |-> NoString]
      BY DEF Rep
    <3>3. EncodeInt(v, Mask["resize"]) \in Seq(0 .. 2 * Base - 1)
      BY <3>1, EncodeIntType
    <3>4. r \in RepSet
      BY <3>1, <3>2, <3>3 DEF RepSet
    <3>5. r.kind = "resize" /\ r.int = EncodeInt(v, Mask["resize"])
      BY <3>2
    <3> HIDE DEF r
    <3>6. r \in GoodReps
      BY <3>4, <3>5 DEF GoodReps
    <3>7. DecodeInt(r.int, Mask[r.kind]) = IF Accepted(v, Mask["resize"]) THEN v ELSE Refused
      BY <2>1, <3>1, <3>5
    <3>8. Ok(decoder, <<>>) \in Accs /\ d = DecodeFrom(Ok(decoder, <<>>), <<r>>)
      BY <3>1, OkType
    <3>9. d = DecodeRep([ctx |-> decoder, headers |-> <<>>, thrown |-> FALSE], r)
      BY <3>6, <3>8, DecodeOne DEF Ok
    <3> HIDE DEF d
    <3>10. CASE Accepted(v, Mask["resize"])
      <4>1. DecodeInt(r.int, Mask[r.kind]) = v /\ v # Refused
        BY <3>7, <3>10, LimitFacts DEF Refused
      <4>2. ~Throws(decoder, r) /\ CtxAfter(decoder, r) = SetMaxTableSize(decoder, v)
        BY <3>5, <4>1 DEF Throws, CtxAfter
      <4>3. d = [ctx |-> SetMaxTableSize(decoder, v), headers |-> <<>>, thrown |-> FALSE]
        BY ZenonT(60), <3>5, <3>9, <4>2, RepCases
      <4> QED  BY <3>10, <4>3 DEF d, r
    <3>11. CASE ~Accepted(v, Mask["resize"])
      <4>1. Throws(decoder, r)
        BY <3>7, <3>11 DEF Throws
      <4>2. d = [ctx |-> decoder, headers |-> <<>>, thrown |-> TRUE]
        BY <3>9, <4>1, RepCases
      <4> QED  BY <3>11, <4>2 DEF d, r
    <3> QED  BY <3>10, <3>11
  <2> QED  BY <2>1, <2>2 DEF IntegersSurvive
<1> QED  BY <1>1, Invariance, PTL

\* The two ends never disagree while the connection lasts: whatever headers
\* were sent, however the encoder resized its table and in whatever pieces
\* the blocks were read, the decoder that reads what is in flight has the
\* encoder's table and the headers that were sent.
THEOREM EndsAgree ==
  Spec => []TablesAgree
<1>1. IInv => TablesAgree
  <2> SUFFICES ASSUME IInv, ~failed PROVE TablesAgree
    BY DEF TablesAgree
  <2> DEFINE d == Decode(decoder, RepsInFlight)
             hs == HeadersInFlight
  <2>1. PICK cs : Chained(cs, decoder, encoder, channel)
    BY DEF IInv
  <2>2. d = Ok(encoder, hs)
    BY <2>1, ReadAll DEF IInv
  <2> HIDE DEF d, hs
  <2>3. d.ctx = encoder /\ d.headers = hs /\ d.thrown = FALSE
    BY <2>2 DEF Ok
  <2> QED  BY <2>3 DEF TablesAgree, d, hs
<1> QED  BY <1>1, Invariance, PTL
=============================================================================
