---------------------------- MODULE H2LinkProofs ----------------------------
(***************************************************************************)
(* For every number of streams and every body, window, frame size and      *)
(* schedule, two connected engines agree about every window, never accuse  *)
(* each other, deliver each body whole and in order, and close a stream    *)
(* once, after its last byte.  Each theorem names what it asks of bodies,  *)
(* windows and reads, where it asks anything.                              *)
(***************************************************************************)
EXTENDS H2Link, H2CoreProofs, WellFoundedInduction

----------------------------------------------------------------------------
(* Induction over the natural numbers, by sets.                            *)

\* The least number of a set that is not empty.
LEMMA LeastElement ==
  ASSUME NEW T, T \subseteq Nat, T # {}
  PROVE  \E x \in T : \A y \in T : ~(y < x)
<1> DEFINE R == {ss \in Nat \X Nat : ss[1] < ss[2]}
<1>1. IsWellFoundedOn(R, Nat)
  BY NatLessThanWellFounded DEF OpToRel
<1>2. \E x \in T : \A y \in T : ~(<<y, x>> \in R)
  <2> HIDE DEF R
  <2> QED  BY <1>1, WFMin
<1> QED  BY <1>2

\* A set that has 0 and every successor has every natural number.
LEMMA EveryNat ==
  ASSUME NEW T, 0 \in T, \A n \in Nat : n \in T => n + 1 \in T
  PROVE  Nat \subseteq T
<1> SUFFICES ASSUME Nat \ T # {} PROVE FALSE
  OBVIOUS
<1>1. PICK x \in Nat \ T : \A y \in Nat \ T : ~(y < x)
  BY LeastElement
<1>2. x - 1 \in Nat
  BY <1>1
<1>3. x - 1 \in T
  BY <1>1, <1>2
<1> QED  BY <1>1, <1>2, <1>3

----------------------------------------------------------------------------
(* Folds over a sequence, as steps from its first element to its last.     *)

\* The largest of some numbers is one of them.
LEMMA MaxMember ==
  ASSUME NEW n \in Nat, NEW t \in SUBSET (1 .. n), t # {}
  PROVE  Max(t) \in t /\ \A y \in t : y <= Max(t)
<1> DEFINE T == {n - x : x \in t}
<1>1. T \subseteq Nat /\ T # {}
  <2>1. ASSUME NEW x \in t PROVE n - x \in Nat
    <3>1. x \in 1 .. n
      OBVIOUS
    <3> QED  BY <3>1
  <2> QED  BY <2>1
<1>2. PICK z \in T : \A y \in T : ~(y < z)
  BY <1>1, LeastElement
<1>3. PICK x \in t : z = n - x
  BY <1>2
<1>4. \A y \in t : x >= y
  <2>1. ASSUME NEW y \in t PROVE x >= y
    <3>1. n - y \in T
      OBVIOUS
    <3>2. ~(n - y < n - x)
      BY <1>2, <1>3, <3>1
    <3>3. x \in Int /\ y \in Int
      OBVIOUS
    <3> QED  BY <3>2, <3>3
  <2> QED  BY <2>1
<1>5. Max(t) \in t /\ \A y \in t : Max(t) >= y
  BY <1>4 DEF Max
<1> QED  BY <1>5

\* The first numbers but the largest of them.
LEMMA Intervals ==
  ASSUME NEW n \in Nat, NEW k \in 1 .. n
  PROVE  /\ 1 .. k \in SUBSET (1 .. n) /\ 1 .. k # {} /\ Max(1 .. k) = k
         /\ (1 .. k) \ {k} = 1 .. k - 1 /\ k - 1 \in 0 .. n
<1>1. k \in Nat /\ k >= 1 /\ k <= n /\ k \in 1 .. k
  OBVIOUS
<1>2. 1 .. k \in SUBSET (1 .. n) /\ 1 .. k # {}
  BY <1>1
<1>3. Max(1 .. k) = k
  <2>1. Max(1 .. k) \in 1 .. k /\ \A y \in 1 .. k : y <= Max(1 .. k)
    BY <1>2, MaxMember
  <2> QED  BY <1>1, <2>1
<1>4. (1 .. k) \ {k} = 1 .. k - 1
  <2>1. \A i : i \in (1 .. k) \ {k} <=> i \in 1 .. k - 1
    BY <1>1
  <2> QED  BY <2>1
<1> QED  BY <1>1, <1>2, <1>3, <1>4

\* The recursion by which FoldLeft is defined has a solution.
Solves(it, A, base, G, n) ==
  /\ it \in [SUBSET (1 .. n) -> A]
  /\ it[{}] = base
  /\ \A t \in SUBSET (1 .. n) : t # {} => it[t] = G[<<it[t \ {Max(t)}], Max(t)>>]

\* A recursion over 1..n has a solution.
LEMMA Solution ==
  ASSUME NEW n \in Nat, NEW A, NEW base \in A, NEW G \in [A \X (1 .. n) -> A]
  PROVE  \E it : Solves(it, A, base, G, n)
<1> DEFINE T == {k \in Nat : k <= n => \E it : Solves(it, A, base, G, k)}
<1>1. 0 \in T
  <2> DEFINE it == [t \in SUBSET (1 .. 0) |-> base]
  <2>1. \A t \in SUBSET (1 .. 0) : t = {}
    OBVIOUS
  <2>2. it \in [SUBSET (1 .. 0) -> A] /\ it[{}] = base
    OBVIOUS
  <2> HIDE DEF it
  <2>3. Solves(it, A, base, G, 0)
    BY <2>1, <2>2 DEF Solves
  <2> QED  BY <2>3
<1>2. ASSUME NEW k \in Nat, k \in T PROVE k + 1 \in T
  <2> SUFFICES ASSUME k + 1 <= n PROVE \E it : Solves(it, A, base, G, k + 1)
    OBVIOUS
  <2>1. PICK it : Solves(it, A, base, G, k)
    BY <1>2
  <2> DEFINE jt == [t \in SUBSET (1 .. k + 1) |->
                      IF k + 1 \in t THEN G[<<it[t \ {k + 1}], k + 1>>] ELSE it[t]]
  <2>2. \A t \in SUBSET (1 .. k + 1) : t \ {k + 1} \in SUBSET (1 .. k)
    <3>1. \A y \in 1 .. k + 1 : y # k + 1 => y \in 1 .. k
      OBVIOUS
    <3> QED  BY <3>1
  <2>3. jt \in [SUBSET (1 .. k + 1) -> A]
    <3>1. ASSUME NEW t \in SUBSET (1 .. k + 1)
          PROVE  (IF k + 1 \in t THEN G[<<it[t \ {k + 1}], k + 1>>] ELSE it[t]) \in A
      <4>1. it[t \ {k + 1}] \in A
        BY <2>1, <2>2 DEF Solves
      <4>2. k + 1 \in 1 .. n
        OBVIOUS
      <4>3. k + 1 \notin t => t = t \ {k + 1}
        OBVIOUS
      <4> QED  BY <4>1, <4>2, <4>3
    <3> QED  BY <3>1
  <2>4. jt[{}] = base
    BY <2>1 DEF Solves
  <2>5. ASSUME NEW t \in SUBSET (1 .. k + 1), t # {}
        PROVE  jt[t] = G[<<jt[t \ {Max(t)}], Max(t)>>]
    <3>0. k + 1 \in Nat /\ Max(t) \in t /\ \A y \in t : y <= Max(t)
      <4>1. \A m \in Nat : \A u \in SUBSET (1 .. m) : u # {} =>
               Max(u) \in u /\ \A y \in u : y <= Max(u)
        BY MaxMember
      <4>2. k + 1 \in Nat
        OBVIOUS
      <4> QED  BY <2>5, <4>1, <4>2
    <3>1. CASE k + 1 \in t
      <4>1. Max(t) = k + 1
        <5>1. Max(t) \in 1 .. k + 1 /\ k + 1 <= Max(t)
          BY <3>0, <3>1
        <5> QED  BY <5>1
      <4>2. t \ {k + 1} \in SUBSET (1 .. k + 1) /\ k + 1 \notin t \ {k + 1}
        OBVIOUS
      <4> QED  BY <3>1, <4>1, <4>2
    <3>2. CASE k + 1 \notin t
      <4>1. t \in SUBSET (1 .. k) /\ t \ {Max(t)} \in SUBSET (1 .. k)
        BY <2>2, <3>2
      <4>2. it[t] = G[<<it[t \ {Max(t)}], Max(t)>>]
        BY <2>1, <2>5, <4>1 DEF Solves
      <4>3. jt[t] = it[t] /\ jt[t \ {Max(t)}] = it[t \ {Max(t)}]
        BY <3>2, <4>1
      <4> QED  BY <4>2, <4>3
    <3> QED  BY <3>1, <3>2
  <2> HIDE DEF jt
  <2>6. Solves(jt, A, base, G, k + 1)
    BY <2>3, <2>4, <2>5 DEF Solves
  <2> QED  BY <2>6
<1> HIDE DEF T
<1>3. n \in T
  BY <1>1, <1>2, EveryNat
<1> QED  BY <1>3 DEF T

\* Steps that agree at first and go on alike agree.
LEMMA SameSteps ==
  ASSUME NEW n \in Nat, NEW g, NEW h, g[0] = h[0],
         \A k \in 1 .. n : g[k - 1] = h[k - 1] => g[k] = h[k]
  PROVE  \A k \in 0 .. n : g[k] = h[k]
<1> DEFINE T == {k \in Nat : k <= n => g[k] = h[k]}
<1>1. 0 \in T
  OBVIOUS
<1>2. ASSUME NEW k \in Nat, k \in T PROVE k + 1 \in T
  <2> SUFFICES ASSUME k + 1 <= n PROVE g[k + 1] = h[k + 1]
    OBVIOUS
  <2>1. k + 1 \in 1 .. n /\ (k + 1) - 1 = k /\ g[k] = h[k]
    BY <1>2
  <2> QED  BY <2>1
<1> HIDE DEF T
<1>3. Nat \subseteq T
  BY <1>1, <1>2, EveryNat
<1> QED  BY <1>3 DEF T

\* Steps that keep a type have it.
LEMMA TypedSteps ==
  ASSUME NEW n \in Nat, NEW g, NEW A, g[0] \in A,
         \A k \in 1 .. n : g[k - 1] \in A => g[k] \in A
  PROVE  \A k \in 0 .. n : g[k] \in A
<1> DEFINE T == {k \in Nat : k <= n => g[k] \in A}
<1>1. 0 \in T
  OBVIOUS
<1>2. ASSUME NEW k \in Nat, k \in T PROVE k + 1 \in T
  <2> SUFFICES ASSUME k + 1 <= n PROVE g[k + 1] \in A
    OBVIOUS
  <2>1. k + 1 \in 1 .. n /\ (k + 1) - 1 = k /\ g[k] \in A
    BY <1>2
  <2> QED  BY <2>1
<1> HIDE DEF T
<1>3. Nat \subseteq T
  BY <1>1, <1>2, EveryNat
<1> QED  BY <1>3 DEF T

----------------------------------------------------------------------------
(* Sums.                                                                   *)

\* The numbers of a sequence, added up one by one.
Sums(t, g) ==
  /\ g \in [0 .. Len(t) -> Nat] /\ g[0] = 0 /\ g[Len(t)] = Total(t)
  /\ \A k \in 1 .. Len(t) : g[k] = g[k - 1] + t[k]

\* A sequence of numbers has partial sums.
LEMMA SumSteps ==
  ASSUME NEW t \in Seq(Nat)
  PROVE  \E g : Sums(t, g)
<1> DEFINE n == Len(t)
           G == [x \in Nat \X (1 .. n) |-> x[1] + t[x[2]]]
           it == CHOOSE f : f = [u \in SUBSET DOMAIN t |->
                                   IF u = {} THEN 0 ELSE f[u \ {Max(u)}] + t[Max(u)]]
           g == [k \in 0 .. n |-> it[1 .. k]]
<1>1. n \in Nat /\ DOMAIN t = 1 .. n
  OBVIOUS
<1>2. Total(t) = it[DOMAIN t]
  BY DEF Total, FoldLeft, MapThenFoldSet
<1>3. G \in [Nat \X (1 .. n) -> Nat]
  <2>1. \A k \in 1 .. n : t[k] \in Nat
    BY <1>1
  <2> QED  BY <2>1
<1>4. \A x \in Nat, k \in 1 .. n : G[<<x, k>>] = x + t[k]
  OBVIOUS
<1> HIDE DEF G
<1>5. it = [u \in SUBSET (1 .. n) |->
              IF u = {} THEN 0 ELSE it[u \ {Max(u)}] + t[Max(u)]]
  <2>1. PICK f : Solves(f, Nat, 0, G, n)
    BY <1>1, <1>3, Solution
  <2>2. ASSUME NEW u \in SUBSET (1 .. n)
        PROVE  f[u] = IF u = {} THEN 0 ELSE f[u \ {Max(u)}] + t[Max(u)]
    <3>1. CASE u = {}
      BY <2>1, <3>1 DEF Solves
    <3>2. CASE u # {}
      <4>1. Max(u) \in 1 .. n
        BY <1>1, <3>2, MaxMember
      <4>2. f[u \ {Max(u)}] \in Nat
        BY <2>1 DEF Solves
      <4>3. f[u] = G[<<f[u \ {Max(u)}], Max(u)>>]
        BY <2>1, <3>2 DEF Solves
      <4> QED  BY <1>4, <3>2, <4>1, <4>2, <4>3
    <3> QED  BY <3>1, <3>2
  <2>3. f = [u \in SUBSET (1 .. n) |-> IF u = {} THEN 0 ELSE f[u \ {Max(u)}] + t[Max(u)]]
    BY <2>1, <2>2 DEF Solves
  <2> QED  BY <1>1, <2>3
<1> HIDE DEF it
<1>6. g[0] = 0
  <2>1. 1 .. 0 \in SUBSET (1 .. n) /\ 1 .. 0 = {}
    BY <1>1
  <2> QED  BY <1>1, <1>5, <2>1
<1>7. ASSUME NEW k \in 1 .. n PROVE g[k] = g[k - 1] + t[k]
  <2>1. /\ 1 .. k \in SUBSET (1 .. n) /\ 1 .. k # {} /\ Max(1 .. k) = k
        /\ (1 .. k) \ {k} = 1 .. k - 1 /\ k - 1 \in 0 .. n
    BY <1>1, Intervals
  <2>2. it[1 .. k] = it[1 .. k - 1] + t[k]
    BY <1>5, <2>1
  <2> QED  BY <1>1, <2>1, <2>2
<1>8. g[n] = Total(t) /\ g = [k \in 0 .. n |-> g[k]]
  BY <1>1, <1>2
<1> HIDE DEF g
<1>9. \A k \in 0 .. n : g[k] \in Nat
  <2>1. ASSUME NEW k \in 1 .. n, g[k - 1] \in Nat PROVE g[k] \in Nat
    <3>1. g[k - 1] \in Nat /\ t[k] \in Nat /\ g[k] = g[k - 1] + t[k]
      BY <1>1, <1>7, <2>1
    <3> QED  BY <3>1
  <2>2. n \in Nat /\ g[0] \in Nat
    BY <1>1, <1>6
  <2> HIDE DEF n
  <2> QED  BY ONLY <2>1, <2>2, TypedSteps
<1>10. g \in [0 .. n -> Nat]
  BY <1>8, <1>9
<1> QED  BY <1>6, <1>7, <1>8, <1>10 DEF Sums

\* Two tables, one after the other, have the two sizes.
LEMMA SumConcat ==
  ASSUME NEW s \in Seq(Nat), NEW t \in Seq(Nat)
  PROVE  Total(s \o t) = Total(s) + Total(t)
<1> DEFINE u == s \o t
           m == Len(s)
           n == Len(t)
<1>1. /\ u \in Seq(Nat) /\ m \in Nat /\ n \in Nat /\ Len(u) = m + n
      /\ \A k \in 1 .. m : u[k] = s[k]
      /\ \A k \in 1 .. n : u[m + k] = t[k]
  OBVIOUS
<1> HIDE DEF u, m, n
<1>2. PICK f : Sums(s, f)
  BY SumSteps
<1>3. PICK g : Sums(t, g)
  BY SumSteps
<1>4. PICK h : Sums(u, h)
  BY <1>1, SumSteps
<1>5. h[m] = f[m]
  <2>1. f[0] = h[0]
    BY <1>2, <1>4 DEF Sums
  <2>2. ASSUME NEW k \in 1 .. m, f[k - 1] = h[k - 1] PROVE f[k] = h[k]
    <3>1. k \in 1 .. Len(u) /\ u[k] = s[k]
      BY <1>1
    <3>2. f[k] = f[k - 1] + s[k]
      BY <1>2 DEF Sums, m
    <3>3. h[k] = h[k - 1] + u[k]
      BY <1>4, <3>1 DEF Sums
    <3> QED  BY <2>2, <3>1, <3>2, <3>3
  <2>3. m \in Nat
    BY <1>1
  <2>4. \A k \in 0 .. m : f[k] = h[k]
    BY ONLY ZenonT(60), <2>1, <2>2, <2>3, SameSteps
  <2> QED  BY <1>1, <2>4
<1> DEFINE a == [k \in 0 .. n |-> Total(s) + g[k]]
           b == [k \in 0 .. n |-> h[m + k]]
<1>6. Total(s) \in Nat /\ f[m] = Total(s)
  <2>1. Len(s) \in 0 .. Len(s)
    OBVIOUS
  <2> QED  BY <1>2, <2>1 DEF Sums, m
<1>7. a[0] = b[0]
  <2>1. g[0] = 0
    BY <1>3 DEF Sums
  <2> QED  BY <1>1, <1>5, <1>6, <2>1
<1>8. ASSUME NEW k \in 1 .. n, a[k - 1] = b[k - 1] PROVE a[k] = b[k]
  <2>1. /\ k - 1 \in 0 .. n /\ k \in 0 .. n /\ m + k \in 1 .. Len(u)
        /\ (m + k) - 1 = m + (k - 1) /\ u[m + k] = t[k]
    BY <1>1
  <2>2. /\ g[k] = g[k - 1] + t[k] /\ g[k - 1] \in Nat /\ t[k] \in Nat
    <3>1. g[k] = g[k - 1] + t[k] /\ g[k - 1] \in Nat
      BY <1>3, <2>1 DEF Sums, n
    <3>2. t[k] \in Nat
      BY <2>1 DEF n
    <3> QED  BY <3>1, <3>2
  <2>3. h[m + k] = h[m + (k - 1)] + t[k]
    <3>1. \A j \in 1 .. Len(u) : h[j] = h[j - 1] + u[j]
      BY <1>4 DEF Sums
    <3> QED  BY <2>1, <3>1
  <2>4. Total(s) + g[k - 1] = h[m + (k - 1)]
    BY <1>8, <2>1
  <2> QED  BY <1>6, <2>1, <2>2, <2>3, <2>4
<1> HIDE DEF a, b
<1>9. a[n] = b[n]
  <2>1. n \in Nat
    BY <1>1
  <2>2. \A k \in 0 .. n : a[k] = b[k]
    BY ONLY ZenonT(60), <2>1, <1>7, <1>8, SameSteps
  <2> QED  BY <1>1, <2>2
<1>10. g[n] = Total(t) /\ h[m + n] = Total(u)
  BY <1>1, <1>3, <1>4 DEF Sums, n
<1>11. a[n] = Total(s) + g[n] /\ b[n] = h[m + n]
  BY <1>1 DEF a, b
<1> QED  BY <1>9, <1>10, <1>11 DEF u

\* The size of nothing, of an entry, of a table in two parts.
LEMMA SumFacts ==
  /\ Total(<<>>) = 0
  /\ \A h \in Nat : Total(<<h>>) = h
  /\ \A t \in Seq(Nat) : Total(t) \in Nat
<1>1. Total(<<>>) = 0
  <2>1. <<>> \in Seq(Nat) /\ Len(<<>>) = 0
    OBVIOUS
  <2>2. PICK g : Sums(<<>>, g)
    BY <2>1, SumSteps
  <2> QED  BY <2>1, <2>2 DEF Sums
<1>2. ASSUME NEW h \in Nat PROVE Total(<<h>>) = h
  <2> DEFINE t == <<h>>
  <2>1. t \in Seq(Nat) /\ Len(t) = 1 /\ t[1] = h
    OBVIOUS
  <2> HIDE DEF t
  <2>2. PICK g : Sums(t, g)
    BY <2>1, SumSteps
  <2>3. 1 \in 1 .. Len(t) /\ 1 - 1 = 0 /\ h \in Nat
    BY <2>1
  <2>4. g[1] = g[0] + t[1] /\ g[0] = 0 /\ g[1] = Total(t)
    BY <2>1, <2>2, <2>3 DEF Sums
  <2> QED  BY <2>1, <2>3, <2>4 DEF t
<1>3. ASSUME NEW t \in Seq(Nat) PROVE Total(t) \in Nat
  <2>1. PICK g : Sums(t, g)
    BY SumSteps
  <2>2. Len(t) \in 0 .. Len(t)
    OBVIOUS
  <2> QED  BY <2>1, <2>2 DEF Sums

<1> QED  BY <1>1, <1>2, <1>3

\* Nothing but zeros.
LEMMA TotalZero ==
  ASSUME NEW t \in Seq(Nat), \A i \in 1 .. Len(t) : t[i] = 0
  PROVE  Total(t) = 0
<1> DEFINE n == Len(t)
           z == [k \in 0 .. n |-> 0]
<1>1. PICK g : Sums(t, g)
  BY SumSteps
<1>2. n \in Nat
  OBVIOUS
<1>3. z[0] = g[0]
  BY <1>1, <1>2 DEF Sums
<1>4. ASSUME NEW k \in 1 .. n, z[k - 1] = g[k - 1] PROVE z[k] = g[k]
  <2>1. g[k] = g[k - 1] + t[k] /\ t[k] = 0
    BY <1>1 DEF Sums
  <2>2. z[k - 1] = 0 /\ z[k] = 0
    BY <1>2
  <2> QED  BY <1>4, <2>1, <2>2
<1>5. z[n] = 0 /\ g[n] = Total(t)
  BY <1>1, <1>2 DEF Sums
<1> HIDE DEF z, n
<1>6. \A k \in 0 .. n : z[k] = g[k]
  BY ONLY ZenonT(60), <1>2, <1>3, <1>4, SameSteps
<1> QED  BY <1>2, <1>5, <1>6

\* What the elements of a sequence weigh.
Weigh(G, w) == [i \in DOMAIN w |-> G[w[i]]]

\* The weights of a sequence are a sequence of numbers of its length.
LEMMA WeighType ==
  ASSUME NEW S, NEW G \in [S -> Nat], NEW w \in Seq(S)
  PROVE  Weigh(G, w) \in Seq(Nat) /\ Len(Weigh(G, w)) = Len(w)
<1>1. Len(w) \in Nat /\ DOMAIN w = 1 .. Len(w) /\ \A i \in 1 .. Len(w) : G[w[i]] \in Nat
  OBVIOUS
<1> QED  BY <1>1 DEF Weigh

\* The weights of two sequences, one after the other.
LEMMA WeighConcat ==
  ASSUME NEW S, NEW G \in [S -> Nat], NEW v \in Seq(S), NEW w \in Seq(S)
  PROVE  Weigh(G, v \o w) = Weigh(G, v) \o Weigh(G, w)
<1> DEFINE u == v \o w
           a == Weigh(G, v)
           b == Weigh(G, w)
<1>1. /\ u \in Seq(S) /\ Len(u) = Len(v) + Len(w) /\ Len(v) \in Nat /\ Len(w) \in Nat
      /\ DOMAIN u = 1 .. Len(v) + Len(w)
      /\ \A i \in 1 .. Len(v) + Len(w) : u[i] = IF i <= Len(v) THEN v[i] ELSE w[i - Len(v)]
  OBVIOUS
<1>2. a \in Seq(Nat) /\ Len(a) = Len(v) /\ b \in Seq(Nat) /\ Len(b) = Len(w)
  BY WeighType
<1>3. /\ \A i \in 1 .. Len(v) : a[i] = G[v[i]]
      /\ \A i \in 1 .. Len(w) : b[i] = G[w[i]]
      /\ Weigh(G, u) = [i \in DOMAIN u |-> G[u[i]]]
  BY DEF Weigh
<1> HIDE DEF u, a, b
<1>4. /\ a \o b \in Seq(Nat) /\ Len(a \o b) = Len(v) + Len(w)
      /\ \A i \in 1 .. Len(v) + Len(w) : (a \o b)[i] = IF i <= Len(v) THEN a[i] ELSE b[i - Len(v)]
  <2>1. /\ a \o b \in Seq(Nat) /\ Len(a \o b) = Len(a) + Len(b)
        /\ \A i \in 1 .. Len(a) + Len(b) : (a \o b)[i] = IF i <= Len(a) THEN a[i] ELSE b[i - Len(a)]
    BY <1>2, ConcatProperties
  <2> QED  BY <1>2, <2>1
<1>5. ASSUME NEW i \in 1 .. Len(v) + Len(w)
      PROVE  G[u[i]] = IF i <= Len(v) THEN a[i] ELSE b[i - Len(v)]
  <2>1. CASE i <= Len(v)
    <3>1. i \in 1 .. Len(v) /\ u[i] = v[i]
      BY <1>1, <2>1
    <3> QED  BY <1>3, <2>1, <3>1
  <2>2. CASE ~(i <= Len(v))
    <3>1. i - Len(v) \in 1 .. Len(w)
      BY <1>1, <2>2
    <3> QED  BY <1>1, <1>3, <2>2, <3>1
  <2> QED  BY <2>1, <2>2
<1>6. /\ Weigh(G, u) \in Seq(Nat) /\ Len(Weigh(G, u)) = Len(v) + Len(w)
      /\ \A i \in 1 .. Len(v) + Len(w) : Weigh(G, u)[i] = G[u[i]]
  BY <1>1, <1>3, WeighType
<1> DEFINE c == Weigh(G, u)
           d == a \o b
<1>7. \A i \in 1 .. Len(v) + Len(w) : c[i] = d[i]
  BY <1>4, <1>5, <1>6
<1>8. c \in Seq(Nat) /\ d \in Seq(Nat) /\ Len(c) = Len(d) /\ Len(c) = Len(v) + Len(w)
  BY <1>4, <1>6
<1> HIDE DEF c, d
<1>9. c = d
  BY <1>7, <1>8, SeqEqual
<1> QED  BY <1>9 DEF u, a, b, c, d

\* What a sequence weighs: nothing when empty, and the sum of its parts.
LEMMA WeighFacts ==
  ASSUME NEW S, NEW G \in [S -> Nat]
  PROVE  /\ Total(Weigh(G, <<>>)) = 0
         /\ \A w \in Seq(S) : Total(Weigh(G, w)) \in Nat
         /\ \A x \in S : Total(Weigh(G, <<x>>)) = G[x]
         /\ \A v \in Seq(S), w \in Seq(S) :
              Total(Weigh(G, v \o w)) = Total(Weigh(G, v)) + Total(Weigh(G, w))
         /\ \A w \in Seq(S) :
              w # <<>> => Total(Weigh(G, w)) = G[Head(w)] + Total(Weigh(G, Tail(w)))
<1>1. Total(Weigh(G, <<>>)) = 0
  <2>1. Weigh(G, <<>>) = <<>>
    BY DEF Weigh
  <2> QED  BY <2>1, SumFacts
<1>2. \A w \in Seq(S) : Total(Weigh(G, w)) \in Nat
  BY WeighType, SumFacts
<1>3. ASSUME NEW x \in S PROVE Total(Weigh(G, <<x>>)) = G[x]
  <2>1. Weigh(G, <<x>>) = <<G[x]>>
    BY DEF Weigh
  <2> QED  BY <2>1, SumFacts
<1>4. ASSUME NEW v \in Seq(S), NEW w \in Seq(S)
      PROVE  Total(Weigh(G, v \o w)) = Total(Weigh(G, v)) + Total(Weigh(G, w))
  <2> DEFINE a == Weigh(G, v)
             b == Weigh(G, w)
  <2>1. a \in Seq(Nat) /\ b \in Seq(Nat)
    BY WeighType
  <2>2. Weigh(G, v \o w) = a \o b
    BY WeighConcat
  <2> HIDE DEF a, b
  <2>3. Total(a \o b) = Total(a) + Total(b)
    BY <2>1, SumConcat
  <2> QED  BY <2>2, <2>3 DEF a, b
<1>5. ASSUME NEW w \in Seq(S), w # <<>>
      PROVE  Total(Weigh(G, w)) = G[Head(w)] + Total(Weigh(G, Tail(w)))
  <2>1. Head(w) \in S /\ Tail(w) \in Seq(S) /\ <<Head(w)>> \in Seq(S) /\ w = <<Head(w)>> \o Tail(w)
    BY <1>5
  <2>2. Total(Weigh(G, <<Head(w)>> \o Tail(w)))
          = Total(Weigh(G, <<Head(w)>>)) + Total(Weigh(G, Tail(w)))
    BY <1>4, <2>1
  <2> QED  BY <1>3, <2>1, <2>2
<1> QED  BY <1>1, <1>2, <1>3, <1>4, <1>5

----------------------------------------------------------------------------
(* What a sequence of frames, or of events, carries.                       *)

DataIn(w, s) == Total([i \in DOMAIN w |-> DataOf(w[i], s)])
CreditIn(w, s) == Total([i \in DOMAIN w |-> CreditOf(w[i], s)])

BytesOf(v, s) == IF v.type = "data" /\ v.stream = s THEN v.len ELSE 0
BytesIn(q, s) == Total([i \in DOMAIN q |-> BytesOf(q[i], s)])

\* The DATA of frames for a stream, or for the connection.
LEMMA DataInFacts ==
  ASSUME NEW s \in Streams \union {0}
  PROVE  /\ DataIn(<<>>, s) = 0
         /\ \A w \in Seq(FrameSet) : DataIn(w, s) \in Nat
         /\ \A f \in FrameSet : DataIn(<<f>>, s) = DataOf(f, s)
         /\ \A v \in Seq(FrameSet), w \in Seq(FrameSet) :
              DataIn(v \o w, s) = DataIn(v, s) + DataIn(w, s)
         /\ \A w \in Seq(FrameSet) :
              w # <<>> => DataIn(w, s) = DataOf(Head(w), s) + DataIn(Tail(w), s)
<1> DEFINE G == [f \in FrameSet |-> DataOf(f, s)]
<1>1. G \in [FrameSet -> Nat]
  <2>1. ASSUME NEW f \in FrameSet PROVE DataOf(f, s) \in Nat
    BY DEF DataOf, FrameSet
  <2> QED  BY <2>1
<1>2. ASSUME NEW w \in Seq(FrameSet) PROVE DataIn(w, s) = Total(Weigh(G, w))
  <2>1. \A i \in DOMAIN w : DataOf(w[i], s) = G[w[i]]
    OBVIOUS
  <2>2. [i \in DOMAIN w |-> DataOf(w[i], s)] = [i \in DOMAIN w |-> G[w[i]]]
    BY <2>1
  <2> QED  BY <2>2 DEF DataIn, Weigh
<1>3. \A f \in FrameSet : G[f] = DataOf(f, s) /\ <<f>> \in Seq(FrameSet)
  OBVIOUS
<1>4. <<>> \in Seq(FrameSet)
  OBVIOUS
<1>5. \A w \in Seq(FrameSet) : w # <<>> => Head(w) \in FrameSet /\ Tail(w) \in Seq(FrameSet)
  OBVIOUS
<1>6. \A v \in Seq(FrameSet), w \in Seq(FrameSet) : v \o w \in Seq(FrameSet)
  OBVIOUS
<1> HIDE DEF G
<1>7. /\ Total(Weigh(G, <<>>)) = 0
      /\ \A w \in Seq(FrameSet) : Total(Weigh(G, w)) \in Nat
      /\ \A x \in FrameSet : Total(Weigh(G, <<x>>)) = G[x]
      /\ \A v \in Seq(FrameSet), w \in Seq(FrameSet) :
           Total(Weigh(G, v \o w)) = Total(Weigh(G, v)) + Total(Weigh(G, w))
      /\ \A w \in Seq(FrameSet) :
           w # <<>> => Total(Weigh(G, w)) = G[Head(w)] + Total(Weigh(G, Tail(w)))
  BY <1>1, WeighFacts
<1>8. DataIn(<<>>, s) = 0
  BY <1>2, <1>4, <1>7
<1>9. \A w \in Seq(FrameSet) : DataIn(w, s) \in Nat
  BY <1>2, <1>7
<1>10. \A f \in FrameSet : DataIn(<<f>>, s) = DataOf(f, s)
  BY <1>2, <1>3, <1>7
<1>11. ASSUME NEW v \in Seq(FrameSet), NEW w \in Seq(FrameSet)
       PROVE  DataIn(v \o w, s) = DataIn(v, s) + DataIn(w, s)
  <2>1. v \o w \in Seq(FrameSet)
    BY <1>6
  <2>2. DataIn(v \o w, s) = Total(Weigh(G, v \o w))
    BY <1>2, <2>1
  <2> QED  BY <1>2, <1>7, <2>2
<1>12. \A w \in Seq(FrameSet) :
         w # <<>> => DataIn(w, s) = DataOf(Head(w), s) + DataIn(Tail(w), s)
  BY <1>2, <1>3, <1>5, <1>7
<1> QED  BY <1>8, <1>9, <1>10, <1>11, <1>12

\* The credit of frames for a stream, or for the connection.
LEMMA CreditInFacts ==
  ASSUME NEW s \in Streams \union {0}
  PROVE  /\ CreditIn(<<>>, s) = 0
         /\ \A w \in Seq(FrameSet) : CreditIn(w, s) \in Nat
         /\ \A f \in FrameSet : CreditIn(<<f>>, s) = CreditOf(f, s)
         /\ \A v \in Seq(FrameSet), w \in Seq(FrameSet) :
              CreditIn(v \o w, s) = CreditIn(v, s) + CreditIn(w, s)
         /\ \A w \in Seq(FrameSet) :
              w # <<>> => CreditIn(w, s) = CreditOf(Head(w), s) + CreditIn(Tail(w), s)
<1> DEFINE G == [f \in FrameSet |-> CreditOf(f, s)]
<1>1. G \in [FrameSet -> Nat]
  <2>1. ASSUME NEW f \in FrameSet PROVE CreditOf(f, s) \in Nat
    BY DEF CreditOf, FrameSet
  <2> QED  BY <2>1
<1>2. ASSUME NEW w \in Seq(FrameSet) PROVE CreditIn(w, s) = Total(Weigh(G, w))
  <2>1. \A i \in DOMAIN w : CreditOf(w[i], s) = G[w[i]]
    OBVIOUS
  <2>2. [i \in DOMAIN w |-> CreditOf(w[i], s)] = [i \in DOMAIN w |-> G[w[i]]]
    BY <2>1
  <2> QED  BY <2>2 DEF CreditIn, Weigh
<1>3. \A f \in FrameSet : G[f] = CreditOf(f, s) /\ <<f>> \in Seq(FrameSet)
  OBVIOUS
<1>4. <<>> \in Seq(FrameSet)
  OBVIOUS
<1>5. \A w \in Seq(FrameSet) : w # <<>> => Head(w) \in FrameSet /\ Tail(w) \in Seq(FrameSet)
  OBVIOUS
<1>6. \A v \in Seq(FrameSet), w \in Seq(FrameSet) : v \o w \in Seq(FrameSet)
  OBVIOUS
<1> HIDE DEF G
<1>7. /\ Total(Weigh(G, <<>>)) = 0
      /\ \A w \in Seq(FrameSet) : Total(Weigh(G, w)) \in Nat
      /\ \A x \in FrameSet : Total(Weigh(G, <<x>>)) = G[x]
      /\ \A v \in Seq(FrameSet), w \in Seq(FrameSet) :
           Total(Weigh(G, v \o w)) = Total(Weigh(G, v)) + Total(Weigh(G, w))
      /\ \A w \in Seq(FrameSet) :
           w # <<>> => Total(Weigh(G, w)) = G[Head(w)] + Total(Weigh(G, Tail(w)))
  BY <1>1, WeighFacts
<1>8. CreditIn(<<>>, s) = 0
  BY <1>2, <1>4, <1>7
<1>9. \A w \in Seq(FrameSet) : CreditIn(w, s) \in Nat
  BY <1>2, <1>7
<1>10. \A f \in FrameSet : CreditIn(<<f>>, s) = CreditOf(f, s)
  BY <1>2, <1>3, <1>7
<1>11. ASSUME NEW v \in Seq(FrameSet), NEW w \in Seq(FrameSet)
       PROVE  CreditIn(v \o w, s) = CreditIn(v, s) + CreditIn(w, s)
  <2>1. v \o w \in Seq(FrameSet)
    BY <1>6
  <2>2. CreditIn(v \o w, s) = Total(Weigh(G, v \o w))
    BY <1>2, <2>1
  <2> QED  BY <1>2, <1>7, <2>2
<1>12. \A w \in Seq(FrameSet) :
         w # <<>> => CreditIn(w, s) = CreditOf(Head(w), s) + CreditIn(Tail(w), s)
  BY <1>2, <1>3, <1>5, <1>7
<1> QED  BY <1>8, <1>9, <1>10, <1>11, <1>12

\* The data of events for a stream.
LEMMA BytesInFacts ==
  ASSUME NEW s \in Streams \union {0}
  PROVE  /\ BytesIn(<<>>, s) = 0
         /\ \A w \in Seq(EventSet) : BytesIn(w, s) \in Nat
         /\ \A f \in EventSet : BytesIn(<<f>>, s) = BytesOf(f, s)
         /\ \A v \in Seq(EventSet), w \in Seq(EventSet) :
              BytesIn(v \o w, s) = BytesIn(v, s) + BytesIn(w, s)
         /\ \A w \in Seq(EventSet) :
              w # <<>> => BytesIn(w, s) = BytesOf(Head(w), s) + BytesIn(Tail(w), s)
<1> DEFINE G == [f \in EventSet |-> BytesOf(f, s)]
<1>1. G \in [EventSet -> Nat]
  <2>1. ASSUME NEW f \in EventSet PROVE BytesOf(f, s) \in Nat
    BY DEF BytesOf, EventSet
  <2> QED  BY <2>1
<1>2. ASSUME NEW w \in Seq(EventSet) PROVE BytesIn(w, s) = Total(Weigh(G, w))
  <2>1. \A i \in DOMAIN w : BytesOf(w[i], s) = G[w[i]]
    OBVIOUS
  <2>2. [i \in DOMAIN w |-> BytesOf(w[i], s)] = [i \in DOMAIN w |-> G[w[i]]]
    BY <2>1
  <2> QED  BY <2>2 DEF BytesIn, Weigh
<1>3. \A f \in EventSet : G[f] = BytesOf(f, s) /\ <<f>> \in Seq(EventSet)
  OBVIOUS
<1>4. <<>> \in Seq(EventSet)
  OBVIOUS
<1>5. \A w \in Seq(EventSet) : w # <<>> => Head(w) \in EventSet /\ Tail(w) \in Seq(EventSet)
  OBVIOUS
<1>6. \A v \in Seq(EventSet), w \in Seq(EventSet) : v \o w \in Seq(EventSet)
  OBVIOUS
<1> HIDE DEF G
<1>7. /\ Total(Weigh(G, <<>>)) = 0
      /\ \A w \in Seq(EventSet) : Total(Weigh(G, w)) \in Nat
      /\ \A x \in EventSet : Total(Weigh(G, <<x>>)) = G[x]
      /\ \A v \in Seq(EventSet), w \in Seq(EventSet) :
           Total(Weigh(G, v \o w)) = Total(Weigh(G, v)) + Total(Weigh(G, w))
      /\ \A w \in Seq(EventSet) :
           w # <<>> => Total(Weigh(G, w)) = G[Head(w)] + Total(Weigh(G, Tail(w)))
  BY <1>1, WeighFacts
<1>8. BytesIn(<<>>, s) = 0
  BY <1>2, <1>4, <1>7
<1>9. \A w \in Seq(EventSet) : BytesIn(w, s) \in Nat
  BY <1>2, <1>7
<1>10. \A f \in EventSet : BytesIn(<<f>>, s) = BytesOf(f, s)
  BY <1>2, <1>3, <1>7
<1>11. ASSUME NEW v \in Seq(EventSet), NEW w \in Seq(EventSet)
       PROVE  BytesIn(v \o w, s) = BytesIn(v, s) + BytesIn(w, s)
  <2>1. v \o w \in Seq(EventSet)
    BY <1>6
  <2>2. BytesIn(v \o w, s) = Total(Weigh(G, v \o w))
    BY <1>2, <2>1
  <2> QED  BY <1>2, <1>7, <2>2
<1>12. \A w \in Seq(EventSet) :
         w # <<>> => BytesIn(w, s) = BytesOf(Head(w), s) + BytesIn(Tail(w), s)
  BY <1>2, <1>3, <1>5, <1>7
<1> QED  BY <1>8, <1>9, <1>10, <1>11, <1>12

\* What is common to all frames of one body: DATA of the stream, never empty,
\* with END_STREAM on the last at most.
Chunks(w, s, end) ==
  \A i \in DOMAIN w :
    /\ w[i].type = "data" /\ w[i].stream = s /\ w[i].len \in 1 .. MaxFrame /\ w[i].val = 0
    /\ w[i].end => end /\ i = Len(w)

\* The DATA frames of n bytes carry n bytes.
LEMMA DataFramesCarry ==
  ASSUME NEW s \in Streams, NEW n \in Nat, NEW end \in BOOLEAN
  PROVE  LET w == DataFrames(s, n, end) IN
         /\ w \in Seq(FrameSet)
         /\ Chunks(w, s, end)
         /\ \A t \in Streams \union {0} :
              /\ DataIn(w, t) = IF t \in {0, s} THEN n ELSE 0
              /\ CreditIn(w, t) = 0
<1> DEFINE w     == DataFrames(s, n, end)
           count == (n + MaxFrame - 1) \div MaxFrame
           T(k)  == k * MaxFrame
           L(i)  == Least(MaxFrame, n - T(i - 1))
<1>1. w \in Seq(FrameSet)
  BY DataFramesType
<1>2. /\ count \in Nat /\ MaxFrame * count <= n + MaxFrame - 1
      /\ n + MaxFrame - 1 < MaxFrame * (count + 1)
  BY MaxFrameAssumption
<1>3. w = [i \in 1 .. count |-> Data(s, L(i), end /\ i = count)]
  BY DEF DataFrames
<1> HIDE DEF w, count
<1>4. Len(w) = count /\ DOMAIN w = 1 .. count
  BY <1>2, <1>3
<1>5. ASSUME NEW i \in 1 .. count
      PROVE  /\ T(i - 1) \in Nat /\ T(i) = T(i - 1) + MaxFrame
             /\ T(i - 1) < n
             /\ i # count => T(i) < n
             /\ i = count => n <= T(i)
  <2>1. T(i - 1) \in Nat /\ T(i) = T(i - 1) + MaxFrame
    BY <1>2, MaxFrameAssumption
  <2>2. T(i) <= MaxFrame * count
    BY <1>2, MaxFrameAssumption
  <2>3. T(i - 1) < n
    BY <1>2, <2>1, <2>2, MaxFrameAssumption
  <2>4. ASSUME i # count PROVE T(i) < n
    <3>1. i + 1 \in 1 .. count
      BY <1>2, <2>4
    <3>2. T(i + 1) <= MaxFrame * count
      BY <1>2, <3>1, MaxFrameAssumption
    <3>3. T(i + 1) = T(i) + MaxFrame /\ T(i) \in Nat
      BY <1>2, MaxFrameAssumption
    <3> QED  BY <1>2, <3>2, <3>3, MaxFrameAssumption
  <2>5. ASSUME i = count PROVE n <= T(i)
    <3>1. MaxFrame * (count + 1) = T(i) + MaxFrame /\ T(i) \in Nat
      BY <1>2, <2>5, MaxFrameAssumption
    <3> QED  BY <1>2, <3>1, MaxFrameAssumption
  <2> QED  BY <2>1, <2>3, <2>4, <2>5
<1>6. ASSUME NEW i \in 1 .. count
      PROVE  L(i) \in 1 .. MaxFrame /\ L(i) = IF i = count THEN n - T(i - 1) ELSE MaxFrame
  <2>1. MaxFrame \in Nat /\ MaxFrame > 0
    BY MaxFrameAssumption
  <2> HIDE DEF T
  <2> QED  BY <1>5, <2>1 DEF Least
<1> HIDE DEF T, L
<1>7. ASSUME NEW i \in 1 .. count
      PROVE  /\ w[i].type = "data" /\ w[i].stream = s /\ w[i].len = L(i) /\ w[i].val = 0
             /\ w[i].end = (end /\ i = count)
  BY <1>3 DEF Data, Frame
<1>8. Chunks(w, s, end)
  BY <1>4, <1>6, <1>7 DEF Chunks
<1>9. ASSUME NEW t \in Streams \union {0} PROVE CreditIn(w, t) = 0
  <2> DEFINE z == [i \in DOMAIN w |-> CreditOf(w[i], t)]
  <2>1. \A i \in 1 .. count : CreditOf(w[i], t) = 0
    BY <1>7 DEF CreditOf
  <2> QED
    <3>1. z \in Seq(Nat) /\ Len(z) = count /\ \A i \in 1 .. count : z[i] = 0
      BY <1>2, <1>4, <2>1
    <3> HIDE DEF z
    <3>2. Total(z) = 0
      BY <3>1, TotalZero
    <3> QED  BY <3>2 DEF CreditIn, z
<1>10. ASSUME NEW t \in Streams, t # s PROVE DataIn(w, t) = 0
  <2> DEFINE z == [i \in DOMAIN w |-> DataOf(w[i], t)]
  <2>1. \A i \in 1 .. count : DataOf(w[i], t) = 0
    BY <1>7, <1>10, StreamsAssumption DEF DataOf
  <2>2. z \in Seq(Nat) /\ Len(z) = count /\ \A i \in 1 .. count : z[i] = 0
    BY <1>2, <1>4, <2>1
  <2> HIDE DEF z
  <2>3. Total(z) = 0
    BY <2>2, TotalZero
  <2> QED  BY <2>3 DEF DataIn, z
<1>11. ASSUME NEW t \in {0, s} PROVE DataIn(w, t) = n
  <2> DEFINE z == [i \in DOMAIN w |-> DataOf(w[i], t)]
             p == [k \in 0 .. count |-> IF k = count THEN n ELSE T(k)]
  <2>1. \A i \in 1 .. count : DataOf(w[i], t) = L(i)
    BY <1>7 DEF DataOf
  <2>2. z \in Seq(Nat) /\ Len(z) = count /\ \A i \in 1 .. count : z[i] = L(i)
    BY <1>2, <1>4, <1>6, <2>1
  <2> HIDE DEF z
  <2>3. PICK g : Sums(z, g)
    BY <2>2, SumSteps
  <2>4. p[0] = g[0]
    <3>1. g[0] = 0 /\ T(0) = 0
      BY <2>3, MaxFrameAssumption DEF Sums, T
    <3>2. count = 0 => n = 0
      BY <1>2, MaxFrameAssumption
    <3> QED  BY <1>2, <3>1, <3>2
  <2>5. ASSUME NEW k \in 1 .. count, p[k - 1] = g[k - 1] PROVE p[k] = g[k]
    <3>1. g[k] = g[k - 1] + z[k]
      BY <2>2, <2>3 DEF Sums
    <3>2. p[k - 1] = T(k - 1) /\ p[k] = IF k = count THEN n ELSE T(k)
      BY <1>2
    <3>3. T(k - 1) \in Nat /\ T(k) = T(k - 1) + MaxFrame
      BY <1>5
    <3>4. z[k] = IF k = count THEN n - T(k - 1) ELSE MaxFrame
      BY <1>6, <2>2
    <3> QED  BY <2>5, <3>1, <3>2, <3>3, <3>4, MaxFrameAssumption
  <2>6. p[count] = n
    BY <1>2
  <2>7. count \in Nat
    BY <1>2
  <2> HIDE DEF p
  <2>8. \A k \in 0 .. count : p[k] = g[k]
    BY ONLY ZenonT(60), <2>4, <2>5, <2>7, SameSteps
  <2>9. Total(z) = n
    BY <2>2, <2>3, <2>6, <2>7, <2>8 DEF Sums
  <2> QED  BY <2>9 DEF DataIn, z
<1>12. \A t \in Streams \union {0} : DataIn(w, t) = IF t \in {0, s} THEN n ELSE 0
  BY <1>10, <1>11
<1> QED  BY <1>1, <1>8, <1>9, <1>12 DEF w

----------------------------------------------------------------------------
(* What send_data writes.                                                  *)

\* send_data takes what it accepts from the windows and writes it.
LEMMA SendDataSays ==
  ASSUME NEW e \in EngineSet, NEW s \in Streams, NEW n \in Nat \ {0}
  PROVE  LET sent == Accepted(e, s, n)
             f    == SendData(e, s, n, TRUE)
         IN
         /\ Says(e, f, DataFrames(s, sent, sent = n), <<>>)
         /\ Running(e, f)
         /\ f.connection_recv_window = e.connection_recv_window
         /\ f.connection_send_window = e.connection_send_window - sent
         /\ f.peer_initial_window_size = e.peer_initial_window_size
         /\ SameFlows(e, f, Streams \ {s})
         /\ StreamSendWindow(f, s) = StreamSendWindow(e, s) - sent
         /\ StreamRecv(f, s) = StreamRecv(e, s)
         /\ Enters(e, f, {s})
<1> DEFINE sent == Accepted(e, s, n)
           all  == sent = n
           w    == DataFrames(s, sent, all)
           out  == Write(e, w)
           g    == GetOrInit(out, s)
           v    == g.connection_send_window - sent
           x    == [g.flow[s] EXCEPT !.send_window = @ - sent]
           h    == [g EXCEPT !.connection_send_window = v, !.flow[s] = x]
<1>1. sent \in Nat /\ sent <= n
  BY AcceptedType
<1>2. StreamSendWindow(e, s) \in Int /\ e.connection_send_window \in Int
  BY MemberTypes, WindowTypes
<1>3. all \in BOOLEAN
  OBVIOUS
<1>4. SendData(e, s, n, TRUE) = IF sent = 0 THEN e ELSE h
  BY DEF SendData
<1> HIDE DEF sent, all
<1>5. w \in Seq(FrameSet)
  BY <1>1, <1>3, DataFramesType
<1>6. CASE sent = 0
  <2>1. w = <<>>
    <3>1. (0 + MaxFrame - 1) \div MaxFrame = 0
      BY MaxFrameAssumption
    <3>2. 1 .. 0 = {}
      OBVIOUS
    <3>3. w = [i \in 1 .. 0 |-> Data(s, Least(MaxFrame, 0 - (i - 1) * MaxFrame), all /\ i = 0)]
      BY <1>6, <3>1 DEF DataFrames
    <3> HIDE DEF w
    <3>4. w \in Seq(FrameSet) /\ DOMAIN w = 1 .. 0
      BY <1>5, <3>3
    <3> QED  BY <3>2, <3>4
  <2>2. e.pending_out \o <<>> = e.pending_out /\ e.event_queue \o <<>> = e.event_queue
    BY MemberTypes, ConcatEmptySeq
  <2>3. Says(e, e, w, <<>>)
    BY <2>1, <2>2, EmptySeq DEF Says
  <2>4. /\ Running(e, e) /\ SameFlows(e, e, Streams \ {s}) /\ Enters(e, e, {s})
    BY DEF Running, Settled, SameFlows, SameFlow, Enters
  <2>5. SendData(e, s, n, TRUE) = e
    BY <1>4, <1>6
  <2>6. /\ e.connection_send_window = e.connection_send_window - sent
        /\ StreamSendWindow(e, s) = StreamSendWindow(e, s) - sent
    BY <1>2, <1>6
  <2> HIDE DEF w
  <2> QED  BY <2>3, <2>4, <2>5, <2>6 DEF sent, all, w
<1>7. CASE sent # 0
  <2>1. Says(e, out, w, <<>>) /\ KeepsWindows(e, out) /\ out.flow = e.flow /\ out \in EngineSet
    BY <1>5, WriteSays DEF Says
  <2> HIDE DEF out, w
  <2>2. /\ Says(out, g, <<>>, <<>>) /\ KeepsWindows(out, g) /\ Enters(out, g, {s})
        /\ g.flow[s] = StreamEntry(out, s) /\ g \in EngineSet
    BY <2>1, GetOrInitSays DEF Says
  <2>3. g.flow[s].tracked
    BY <2>1, <2>2, StreamEntryLemma
  <2> HIDE DEF g
  <2>4. w \o <<>> = w /\ <<>> \o <<>> = <<>>
    BY <2>1, ConcatEmptySeq DEF Says
  <2>5. Says(e, g, w, <<>>) /\ KeepsWindows(e, g) /\ Enters(e, g, {s})
    <3>1. Says(e, g, w \o <<>>, <<>> \o <<>>)
      BY <2>1, <2>2, SaysTransitive
    <3> QED  BY <2>1, <2>2, <2>4, <3>1, QuietTransitive DEF Enters
  <2>6. /\ x \in StreamState /\ x.tracked /\ x.send_window = g.flow[s].send_window - sent
        /\ x.recv_window = g.flow[s].recv_window
    BY <1>1, <2>2, <2>3, FlowTypes DEF StreamState
  <2>7. v \in Int /\ v = e.connection_send_window - sent
    BY <1>1, <2>2, <2>5, MemberTypes DEF KeepsWindows, SameCredit
  <2> HIDE DEF v, x
  <2>8. /\ h \in EngineSet /\ Running(g, h)
        /\ h.connection_recv_window = g.connection_recv_window
        /\ h.connection_send_window = v
        /\ h.peer_initial_window_size = g.peer_initial_window_size
        /\ h.pending_out = g.pending_out /\ h.event_queue = g.event_queue
        /\ h.flow[s] = x /\ \A t \in Streams \ {s} : h.flow[t] = g.flow[t]
    BY <2>2, <2>6, <2>7 DEF EngineSet, Running, Settled
  <2> HIDE DEF h
  <2>9. Says(e, h, w, <<>>)
    BY <2>5, <2>8 DEF Says
  <2>10. Running(e, h)
    BY <2>5, <2>8 DEF KeepsWindows, Running, Settled
  <2>11. \A t \in Streams \ {s} : SameFlow(e, h, t)
    <3>1. \A t \in Streams \ {s} : SameFlow(g, h, t)
      BY <2>8, SameFlowState DEF Running, Settled
    <3> QED  BY <2>5, <3>1 DEF SameFlow, KeepsWindows, SameFlows
  <2>12. StreamSendWindow(h, s) = StreamSendWindow(e, s) - sent
    <3>1. StreamSendWindow(g, s) = StreamSendWindow(e, s)
      BY <2>5 DEF SameFlow, KeepsWindows, SameFlows
    <3> QED  BY <2>3, <2>6, <2>8, <3>1 DEF StreamSendWindow
  <2>13. StreamRecv(h, s) = StreamRecv(e, s)
    <3>1. StreamRecv(g, s) = StreamRecv(e, s)
      BY <2>5 DEF SameFlow, KeepsWindows, SameFlows
    <3> QED  BY <2>3, <2>6, <2>8, <3>1 DEF StreamRecv, StreamEntry
  <2>14. Enters(e, h, {s})
    BY <2>5, <2>8 DEF Enters
  <2>15. SendData(e, s, n, TRUE) = h
    BY <1>4, <1>7
  <2> QED  BY <2>5, <2>7, <2>8, <2>9, <2>10, <2>11, <2>12, <2>13, <2>14, <2>15
            DEF KeepsWindows, SameCredit, SameFlows, sent, all, w
<1> QED  BY <1>6, <1>7

----------------------------------------------------------------------------
(* What is reported of a stream.                                           *)

\* The events of HEADERS and DATA of stream s; end: with END_STREAM.
Reports(s, end) ==
  {v \in EventSet :
     /\ v.stream = s
     /\ v.type \in {"headers", "data", "new_stream", "stream_closed"}
     /\ v.type = "data" => v.len > 0
     /\ v.type = "stream_closed" => end}

Trouble == Event("connection_error", 0, 0)

ClosedLast(q) == \A i \in DOMAIN q : q[i].type = "stream_closed" => i = Len(q)

\* Nothing that closes a stream before the last event.
LEMMA ClosedLastConcat ==
  ASSUME NEW u \in Seq(EventSet), NEW v \in Seq(EventSet),
         \A i \in DOMAIN u : u[i].type # "stream_closed", ClosedLast(v)
  PROVE  ClosedLast(u \o v)
<1> SUFFICES ASSUME NEW i \in DOMAIN (u \o v), (u \o v)[i].type = "stream_closed"
             PROVE  i = Len(u \o v)
  BY DEF ClosedLast
<1>1. /\ Len(u \o v) = Len(u) + Len(v) /\ i \in 1 .. Len(u) + Len(v)
      /\ Len(u) \in Nat /\ Len(v) \in Nat
  BY ConcatProperties, LenProperties
<1>2. CASE i <= Len(u)
  <2>1. (u \o v)[i] = u[i] /\ i \in DOMAIN u
    BY <1>1, <1>2, ConcatProperties, LenProperties
  <2> QED  BY <2>1
<1>3. CASE i > Len(u)
  <2>1. (u \o v)[i] = v[i - Len(u)] /\ i - Len(u) \in DOMAIN v
    BY <1>1, <1>3, ConcatProperties, LenProperties
  <2>2. i - Len(u) = Len(v)
    BY <2>1 DEF ClosedLast
  <2> QED  BY <1>1, <2>2
<1> QED  BY <1>1, <1>2, <1>3

\* END_STREAM closes the stream.
Closing(s, end) == IF end THEN <<Event("stream_closed", s, 0)>> ELSE <<>>

\* What END_STREAM reports.
LEMMA ClosingReports ==
  ASSUME NEW s \in Streams, NEW end \in BOOLEAN
  PROVE  LET q == Closing(s, end) IN
         /\ q \in Seq(EventSet) /\ q \in Seq(Reports(s, end)) /\ ClosedLast(q)
         /\ \A t \in Streams : BytesIn(q, t) = 0
<1>1. Event("stream_closed", s, 0) \in EventSet
  BY EventTypesOK DEF EventTypes
<1>2. CASE end
  <2> DEFINE v == Event("stream_closed", s, 0)
  <2>1. v.type = "stream_closed" /\ v.stream = s
    BY DEF Event
  <2>2. \A t \in Streams : BytesOf(v, t) = 0
    BY <2>1 DEF BytesOf
  <2>3. v \in EventSet /\ Closing(s, end) = <<v>>
    BY <1>1, <1>2 DEF Closing
  <2> HIDE DEF v
  <2>4. v \in Reports(s, end)
    BY <1>2, <2>1, <2>3 DEF Reports
  <2>5. \A t \in Streams : BytesIn(<<v>>, t) = 0
    BY <2>2, <2>3, BytesInFacts
  <2> QED  BY <2>3, <2>4, <2>5 DEF ClosedLast
<1>3. CASE ~end
  <2>1. \A t \in Streams : BytesIn(<<>>, t) = 0
    BY BytesInFacts
  <2> QED  BY <1>3, <2>1 DEF Closing, ClosedLast
<1> QED  BY <1>2, <1>3

\* Events that are not the end of the stream, and then the end of it.
LEMMA ThenClosing ==
  ASSUME NEW s \in Streams, NEW end \in BOOLEAN, NEW R \in SUBSET EventSet,
         Reports(s, end) \subseteq R, NEW u \in Seq(R),
         \A i \in DOMAIN u : u[i].type # "stream_closed"
  PROVE  LET q == u \o Closing(s, end) IN
         /\ q \in Seq(EventSet) /\ q \in Seq(R) /\ ClosedLast(q)
         /\ \A t \in Streams : BytesIn(q, t) = BytesIn(u, t)
<1> DEFINE c == Closing(s, end)
<1>1. /\ c \in Seq(EventSet) /\ c \in Seq(Reports(s, end)) /\ ClosedLast(c)
      /\ \A t \in Streams : BytesIn(c, t) = 0
  BY ClosingReports
<1> HIDE DEF c
<1>5. c \in Seq(R) /\ u \in Seq(EventSet)
  <2>1. \A S : \A q \in Seq(S) : \A T : S \subseteq T => q \in Seq(T)
    OBVIOUS
  <2> QED  BY <1>1, <2>1
<1>2. u \o c \in Seq(EventSet) /\ u \o c \in Seq(R)
  BY <1>1, <1>5, ConcatProperties
<1>3. ClosedLast(u \o c)
  BY <1>1, <1>5, ClosedLastConcat
<1>4. ASSUME NEW t \in Streams PROVE BytesIn(u \o c, t) = BytesIn(u, t)
  <2>1. BytesIn(u \o c, t) = BytesIn(u, t) + BytesIn(c, t) /\ BytesIn(u, t) \in Nat
    BY <1>1, <1>5, BytesInFacts
  <2> QED  BY <1>1, <2>1
<1> QED  BY <1>2, <1>3, <1>4 DEF c

\* HEADERS: new_stream if the server did not know it, headers, and the end.
Announcement(e, s) ==
  IF e.role = "server" /\ ~StreamEntry(e, s).known THEN <<Event("new_stream", s, 0)>> ELSE <<>>

HeaderEvents(e, f) ==
  Announcement(e, f.stream) \o (<<Event("headers", f.stream, 0)>> \o Closing(f.stream, f.end))

\* A header block reports its stream, its fields, and its end.
LEMMA HeaderEventsReport ==
  ASSUME NEW e \in EngineSet, NEW f \in FrameSet, f.stream \in Streams
  PROVE  LET q == HeaderEvents(e, f) IN
         /\ q \in Seq(EventSet) /\ q \in Seq(Reports(f.stream, f.end)) /\ ClosedLast(q)
         /\ \A t \in Streams : BytesIn(q, t) = 0
<1> DEFINE s == f.stream
           n == Event("new_stream", s, 0)
           h == Event("headers", s, 0)
           a == Announcement(e, s)
           c == Closing(s, f.end)
<1>1. n \in EventSet /\ n.type = "new_stream" /\ n.stream = s
  BY EventTypesOK DEF EventTypes, Event
<1>2. h \in EventSet /\ h.type = "headers" /\ h.stream = s
  BY EventTypesOK DEF EventTypes, Event
<1>3. a = <<n>> \/ a = <<>>
  BY DEF Announcement
<1>4. HeaderEvents(e, f) = a \o (<<h>> \o c) /\ c \in Seq(EventSet) /\ f.end \in BOOLEAN
  BY ClosingReports DEF HeaderEvents, FrameSet
<1> HIDE DEF n, h, a
<1>5. n \in Reports(s, f.end) /\ h \in Reports(s, f.end)
  BY <1>1, <1>2 DEF Reports
<1> DEFINE u == a \o <<h>>
<1> HIDE DEF c
<1>11. a \in Seq(EventSet) /\ <<h>> \in Seq(EventSet)
  <2>1. <<n>> \in Seq(EventSet) /\ <<>> \in Seq(EventSet) /\ <<h>> \in Seq(EventSet)
    BY <1>1, <1>2
  <2> QED  BY <1>3, <2>1
<1> DEFINE T == {v \in Reports(s, f.end) : v.type # "stream_closed"}
<1>6. n \in T /\ h \in T
  BY <1>1, <1>2, <1>5
<1>7. u \in Seq(EventSet) /\ u \in Seq(T)
  <2>1. <<n>> \in Seq(T) /\ <<>> \in Seq(T) /\ <<h>> \in Seq(T)
    BY <1>6
  <2>2. a \in Seq(T)
    BY <1>3, <2>1
  <2> QED  BY <1>11, <2>1, <2>2, ConcatProperties
<1> HIDE DEF u
<1>8. u \in Seq(Reports(s, f.end)) /\ \A i \in DOMAIN u : u[i].type # "stream_closed"
  <2>1. \A i \in DOMAIN u : u[i] \in T
    BY <1>7
  <2> QED  BY <1>7, <2>1
<1>9. ASSUME NEW t \in Streams PROVE BytesIn(u, t) = 0
  <2>1. BytesIn(a, t) = 0
    <3>1. BytesIn(<<n>>, t) = BytesOf(n, t)
      BY <1>1, BytesInFacts
    <3>2. BytesOf(n, t) = 0
      BY <1>1 DEF BytesOf
    <3>3. BytesIn(<<>>, t) = 0
      BY BytesInFacts
    <3> QED  BY <1>3, <3>1, <3>2, <3>3
  <2>2. BytesIn(<<h>>, t) = 0
    <3>1. BytesIn(<<h>>, t) = BytesOf(h, t)
      BY <1>2, BytesInFacts
    <3> QED  BY <1>2, <3>1 DEF BytesOf
  <2>3. BytesIn(u, t) = BytesIn(a, t) + BytesIn(<<h>>, t)
    BY <1>11, BytesInFacts DEF u
  <2> QED  BY <2>1, <2>2, <2>3
<1>10. a \o (<<h>> \o c) = u \o c
  BY <1>4, <1>11, Regroup DEF u
<1>12. /\ u \o c \in Seq(EventSet) /\ u \o c \in Seq(Reports(s, f.end)) /\ ClosedLast(u \o c)
       /\ \A t \in Streams : BytesIn(u \o c, t) = BytesIn(u, t)
  <2>1. Reports(s, f.end) \in SUBSET EventSet
    BY DEF Reports
  <2> QED  BY <1>4, <1>7, <1>8, <2>1, ThenClosing DEF c
<1> QED  BY <1>4, <1>9, <1>10, <1>12

\* What a header block makes an engine do.
LEMMA ReceiveHeadersSays ==
  ASSUME NEW e \in EngineSet, NEW f \in FrameSet, f.stream \in Streams
  PROVE  LET g == ReceiveHeaders(e, f) IN
         /\ Says(e, g, <<>>, HeaderEvents(e, f))
         /\ KeepsWindows(e, g) /\ Enters(e, g, {f.stream})
<1> DEFINE s     == f.stream
           isNew == e.role = "server" /\ ~StreamEntry(e, s).known
           i     == GetOrInit(e, s)
           x     == [i.flow[s] EXCEPT !.known = @ \/ isNew]
           h     == [i EXCEPT !.flow[s].known = @ \/ isNew]
           a     == Emit(h, Announcement(e, s))
           rest  == <<Event("headers", s, 0)>> \o Closing(s, f.end)
           g     == Emit(a, rest)
<1>1. /\ Says(e, i, <<>>, <<>>) /\ KeepsWindows(e, i) /\ Enters(e, i, {s})
      /\ i.flow[s] = StreamEntry(e, s) /\ i \in EngineSet
  BY GetOrInitSays DEF Says
<1>2. ReceiveHeaders(e, f) = g
  BY DEF ReceiveHeaders, Announce, Announcement, Closing
<1>3. isNew \in BOOLEAN
  OBVIOUS
<1>4. h = ReplaceFlow(i, s, x)
  BY DEF ReplaceFlow
<1>5. i.flow[s].tracked
  BY <1>1, StreamEntryLemma
<1>16. s \in Streams
  OBVIOUS
<1> HIDE DEF i, h, isNew, s
<1>6. /\ x \in StreamState /\ x.tracked /\ x.send_window = i.flow[s].send_window
      /\ x.recv_window = i.flow[s].recv_window
  BY <1>1, <1>3, <1>5, <1>16, FlowTypes DEF StreamState
<1> HIDE DEF x
<1>7. /\ Says(i, h, <<>>, <<>>) /\ Running(i, h) /\ SameCredit(i, h)
      /\ SameFlows(i, h, Streams \ {s})
      /\ h.flow[s] = x /\ \A t \in Streams \ {s} : h.flow[t] = i.flow[t]
  BY ZenonT(40), <1>1, <1>4, <1>6, <1>16, ReplaceSays
<1>8. SameFlow(i, h, s)
  BY <1>5, <1>6, <1>7 DEF SameFlow, StreamSendWindow, StreamRecv, StreamEntry
<1>9. KeepsWindows(i, h) /\ Enters(e, h, {s}) /\ h \in EngineSet
  BY <1>1, <1>7, <1>8 DEF KeepsWindows, SameFlows, Enters, Says
<1>10. Announcement(e, s) \in Seq(EventSet) /\ rest \in Seq(EventSet)
  <2>1. /\ Event("new_stream", s, 0) \in EventSet /\ Event("headers", s, 0) \in EventSet
        /\ f.end \in BOOLEAN
    BY <1>16, EventTypesOK DEF EventTypes, FrameSet
  <2>2. Closing(s, f.end) \in Seq(EventSet)
    BY <1>16, <2>1, ClosingReports
  <2> QED  BY <2>1, <2>2 DEF Announcement
<1> HIDE DEF rest
<1>11. /\ Says(h, a, <<>>, Announcement(e, s)) /\ KeepsWindows(h, a) /\ a.flow = h.flow
       /\ a \in EngineSet
  BY <1>9, <1>10, EmitSays DEF Says
<1> HIDE DEF a
<1>12. Says(a, g, <<>>, rest) /\ KeepsWindows(a, g) /\ g.flow = a.flow
  BY <1>10, <1>11, EmitSays
<1> HIDE DEF g
<1>13. KeepsWindows(e, g)
  <2>1. KeepsWindows(e, h)
    BY <1>1, <1>9, QuietTransitive
  <2>2. KeepsWindows(e, a)
    BY <1>11, <2>1, QuietTransitive
  <2> QED  BY <1>12, <2>2, QuietTransitive
<1>14. Says(e, g, <<>>, HeaderEvents(e, f))
  <2>1. Says(e, h, <<>> \o <<>>, <<>> \o <<>>)
    BY <1>1, <1>7, SaysTransitive
  <2>2. \A S : \A q \in Seq(S) : <<>> \o q = q
    BY ConcatEmptySeq
  <2>3. <<>> \in Seq(EventSet) /\ <<>> \o <<>> = <<>>
    OBVIOUS
  <2>4. Says(e, h, <<>>, <<>>)
    BY <2>1, <2>3
  <2>5. Says(e, a, <<>> \o <<>>, <<>> \o Announcement(e, s))
    BY <1>11, <2>4, SaysTransitive
  <2>6. Says(e, a, <<>>, Announcement(e, s))
    BY <1>10, <2>2, <2>3, <2>5
  <2>7. Says(e, g, <<>> \o <<>>, Announcement(e, s) \o rest)
    BY <1>12, <2>6, SaysTransitive
  <2> QED  BY <2>3, <2>7 DEF HeaderEvents, rest, s
<1>15. Enters(e, g, {s})
  BY <1>9, <1>11, <1>12 DEF Enters
<1> QED  BY <1>2, <1>13, <1>14, <1>15 DEF s

----------------------------------------------------------------------------
(* DATA, and the credit it is answered with.                               *)

\* The receive windows of the connection and of s moved by c and r.
Receives(e, g, s, c, r) ==
  /\ Running(e, g)
  /\ g.connection_send_window = e.connection_send_window
  /\ g.peer_initial_window_size = e.peer_initial_window_size
  /\ g.connection_recv_window = e.connection_recv_window + c
  /\ SameFlows(e, g, Streams \ {s})
  /\ StreamSendWindow(g, s) = StreamSendWindow(e, s)
  /\ StreamRecv(g, s) = StreamRecv(e, s) + r
  /\ g.flow[s].tracked
  /\ \A t \in Streams \ {s} : g.flow[t].tracked = e.flow[t].tracked

\* Two steps of receiving add up.
LEMMA ReceivesTransitive ==
  ASSUME NEW e \in EngineSet, NEW f \in EngineSet, NEW g \in EngineSet, NEW s \in Streams,
         NEW c \in Int, NEW r \in Int, NEW d \in Int, NEW v \in Int,
         Receives(e, f, s, c, r), Receives(f, g, s, d, v)
  PROVE  Receives(e, g, s, c + d, r + v)
<1>1. e.connection_recv_window \in Int /\ StreamRecv(e, s) \in Int
  BY MemberTypes, WindowTypes
<1>2. g.connection_recv_window = e.connection_recv_window + (c + d)
  BY <1>1 DEF Receives
<1>3. StreamRecv(g, s) = StreamRecv(e, s) + (r + v)
  BY <1>1 DEF Receives
<1>4. Running(e, g) /\ SameFlows(e, g, Streams \ {s})
  BY DEF Receives, Running, Settled, SameFlows, SameFlow
<1> QED  BY <1>2, <1>3, <1>4 DEF Receives

\* Receiving on a stream creates no other entry.
LEMMA ReceivesEnters ==
  ASSUME NEW e, NEW g, NEW s, NEW c, NEW r, Receives(e, g, s, c, r)
  PROVE  Enters(e, g, {s})
  BY DEF Receives, Enters

\* A quiet change receives nothing.
LEMMA QuietReceives ==
  ASSUME NEW e \in EngineSet, NEW g, NEW s \in Streams, KeepsWindows(e, g), g.flow = e.flow,
         e.flow[s].tracked
  PROVE  Receives(e, g, s, 0, 0)
<1>1. e.connection_recv_window \in Int /\ StreamRecv(e, s) \in Int
  BY MemberTypes, WindowTypes
<1> QED  BY <1>1 DEF Receives, KeepsWindows, SameCredit, SameFlows, SameFlow

\* n bytes are taken from both receive windows.
LEMMA ReceiveBytesSays ==
  ASSUME NEW e \in EngineSet, NEW s \in Streams, NEW n \in Nat
  PROVE  LET f == ReceiveBytes(e, s, n) IN
         Says(e, f, <<>>, <<>>) /\ Receives(e, f, s, -n, -n)
<1> DEFINE g == GetOrInit(e, s)
           v == g.connection_recv_window - n
           w == g.flow[s].recv_window - n
           x == [g.flow[s] EXCEPT !.recv_window = w]
           f == [g EXCEPT !.connection_recv_window = v, !.flow[s] = x]
<1>1. /\ Says(e, g, <<>>, <<>>) /\ KeepsWindows(e, g) /\ Enters(e, g, {s})
      /\ g.flow[s] = StreamEntry(e, s) /\ g \in EngineSet
      /\ \A t \in Streams \ {s} : g.flow[t] = e.flow[t]
  BY GetOrInitSays, GetOrInitLemma DEF Says
<1>2. ReceiveBytes(e, s, n) = f
  BY DEF ReceiveBytes
<1>3. g.flow[s].tracked /\ StreamRecv(e, s) = g.flow[s].recv_window
  BY <1>1, StreamEntryLemma DEF StreamRecv
<1> HIDE DEF g
<1>4. v \in Int /\ w \in Int /\ v = e.connection_recv_window - n /\ w = StreamRecv(e, s) - n
  BY <1>1, <1>3, MemberTypes, FlowTypes DEF KeepsWindows, SameCredit
<1> HIDE DEF v, w
<1>5. /\ x \in StreamState /\ x.tracked /\ x.recv_window = w
      /\ x.send_window = g.flow[s].send_window
  BY <1>1, <1>3, <1>4, FlowTypes DEF StreamState
<1> HIDE DEF x
<1>6. /\ f \in EngineSet /\ Running(g, f)
      /\ f.connection_send_window = g.connection_send_window
      /\ f.peer_initial_window_size = g.peer_initial_window_size
      /\ f.connection_recv_window = v
      /\ f.pending_out = g.pending_out /\ f.event_queue = g.event_queue
      /\ f.flow[s] = x /\ \A t \in Streams \ {s} : f.flow[t] = g.flow[t]
  BY <1>1, <1>4, <1>5 DEF EngineSet, Running, Settled
<1> HIDE DEF f
<1>7. Says(e, f, <<>>, <<>>)
  BY <1>1, <1>6 DEF Says
<1>8. Running(e, f)
  BY <1>1, <1>6 DEF KeepsWindows, Running, Settled
<1>9. /\ f.connection_send_window = e.connection_send_window
      /\ f.peer_initial_window_size = e.peer_initial_window_size
      /\ f.connection_recv_window = e.connection_recv_window + (-n)
  BY <1>1, <1>4, <1>6, MemberTypes DEF KeepsWindows, SameCredit
<1>10. \A t \in Streams \ {s} : SameFlow(e, f, t)
  BY <1>1, <1>6, <1>8, <1>9, SameFlowState DEF Running, Settled
<1>11. StreamSendWindow(f, s) = StreamSendWindow(e, s)
  <2>1. StreamSendWindow(g, s) = StreamSendWindow(e, s)
    BY <1>1 DEF KeepsWindows, SameFlows, SameFlow
  <2> QED  BY <1>3, <1>5, <1>6, <2>1 DEF StreamSendWindow
<1>12. StreamRecv(f, s) = StreamRecv(e, s) + (-n)
  <2>1. StreamRecv(f, s) = w
    BY <1>5, <1>6 DEF StreamRecv, StreamEntry
  <2> QED  BY <1>4, <2>1, WindowTypes
<1>13. /\ f.flow[s].tracked
       /\ \A t \in Streams \ {s} : f.flow[t].tracked = e.flow[t].tracked
  BY <1>1, <1>5, <1>6
<1> QED  BY <1>2, <1>7, <1>8, <1>9, <1>10, <1>11, <1>12, <1>13 DEF Receives, SameFlows

\* The WINDOW_UPDATEs that answer DATA of s.
Grants(s) ==
  {f \in FrameSet : /\ f.type = "window_update" /\ f.stream \in {0, s} /\ f.len = 1
                    /\ ~f.end /\ f.val > 0}

\* They carry no DATA.
LEMMA GrantsCarry ==
  ASSUME NEW s \in Streams, NEW w \in Seq(Grants(s)), NEW t \in Streams \union {0}
  PROVE  /\ w \in Seq(FrameSet) /\ DataIn(w, t) = 0
         /\ t \notin {0, s} => CreditIn(w, t) = 0
<1>1. w \in Seq(FrameSet) /\ \A i \in 1 .. Len(w) : w[i] \in Grants(s)
  BY DEF Grants
<1>2. DataIn(w, t) = 0
  <2> DEFINE z == [i \in DOMAIN w |-> DataOf(w[i], t)]
  <2>1. \A i \in 1 .. Len(w) : DataOf(w[i], t) = 0
    BY <1>1 DEF DataOf, Grants
  <2>2. z \in Seq(Nat) /\ Len(z) = Len(w) /\ \A i \in 1 .. Len(z) : z[i] = 0
    BY <1>1, <2>1
  <2> HIDE DEF z
  <2>3. Total(z) = 0
    BY <2>2, TotalZero
  <2> QED  BY <2>3 DEF DataIn, z
<1>3. ASSUME t \notin {0, s} PROVE CreditIn(w, t) = 0
  <2> DEFINE z == [i \in DOMAIN w |-> CreditOf(w[i], t)]
  <2>1. \A i \in 1 .. Len(w) : CreditOf(w[i], t) = 0
    BY <1>1, <1>3 DEF CreditOf, Grants
  <2>2. z \in Seq(Nat) /\ Len(z) = Len(w) /\ \A i \in 1 .. Len(z) : z[i] = 0
    BY <1>1, <2>1
  <2> HIDE DEF z
  <2>3. Total(z) = 0
    BY <2>2, TotalZero
  <2> QED  BY <2>3 DEF CreditIn, z
<1> QED  BY <1>1, <1>2, <1>3

\* One of them.
LEMMA OneGrant ==
  ASSUME NEW s \in Streams, NEW t \in {0, s}, NEW n \in Nat \ {0}
  PROVE  LET f == WindowUpdate(t, n) IN
         /\ f \in FrameSet /\ <<f>> \in Seq(Grants(s)) /\ <<f>> \in Seq(FrameSet)
         /\ \A u \in Streams \union {0} : CreditIn(<<f>>, u) = IF u = t THEN n ELSE 0
<1> DEFINE f == WindowUpdate(t, n)
<1>1. /\ f \in FrameSet /\ f.type = "window_update" /\ f.stream = t /\ f.len = 1 /\ ~f.end
      /\ f.val = n
  BY FrameTypesOK DEF WindowUpdate, Frame, FrameTypes
<1> HIDE DEF f
<1>2. f \in Grants(s)
  BY <1>1 DEF Grants
<1>3. ASSUME NEW u \in Streams \union {0} PROVE CreditIn(<<f>>, u) = IF u = t THEN n ELSE 0
  <2>1. CreditIn(<<f>>, u) = CreditOf(f, u)
    BY <1>1, CreditInFacts
  <2> QED  BY <1>1, <2>1 DEF CreditOf
<1> QED  BY <1>1, <1>2, <1>3 DEF f

\* A call that answers DATA of s moves the windows by what it grants.
Credits(e, g, s, out) ==
  /\ out \in Seq(Grants(s)) /\ Says(e, g, out, <<>>)
  /\ Receives(e, g, s, CreditIn(out, 0), CreditIn(out, s))

\* None is granted.
LEMMA NoCredit ==
  ASSUME NEW e \in EngineSet, NEW g \in EngineSet, NEW s \in Streams, e.flow[s].tracked,
         KeepsWindows(e, g), g.flow = e.flow,
         g.pending_out = e.pending_out, g.event_queue = e.event_queue
  PROVE  Credits(e, g, s, <<>>)
<1>1. Says(e, g, <<>>, <<>>)
  BY SilentSays DEF Says
<1>2. Receives(e, g, s, 0, 0)
  BY QuietReceives
<1>3. CreditIn(<<>>, 0) = 0 /\ CreditIn(<<>>, s) = 0
  BY CreditInFacts
<1> QED  BY <1>1, <1>2, <1>3, EmptySeq DEF Credits

\* The credit given back on the connection is what its window grows by.
LEMMA CreditConnectionSays ==
  ASSUME NEW e \in EngineSet, NEW s \in Streams, NEW n \in Nat \ {0}, e.flow[s].tracked
  PROVE  \E out : Credits(e, CreditConnection(e, n), s, out)
<1> DEFINE c == e.connection_consumed + n
           v == e.connection_recv_window + c
           g == [e EXCEPT !.connection_recv_window = v, !.connection_consumed = 0]
           h == [e EXCEPT !.connection_consumed = c]
           f == CreditConnection(e, n)
           u == WindowUpdate(0, c)
<1>1. c \in Nat \ {0} /\ v \in Int
  BY MemberTypes
<1>2. CASE c >= Threshold(e)
  <2>1. f = Write(g, <<u>>)
    BY <1>2 DEF CreditConnection
  <2> DEFINE k == c
  <2>2. v = e.connection_recv_window + k /\ k \in Nat \ {0} /\ u = WindowUpdate(0, k)
    BY <1>1
  <2> HIDE DEF c, v, k, f, u
  <2>3. /\ g \in EngineSet /\ Running(e, g) /\ g.flow = e.flow
        /\ g.connection_send_window = e.connection_send_window
        /\ g.peer_initial_window_size = e.peer_initial_window_size
        /\ g.connection_recv_window = v
        /\ g.pending_out = e.pending_out /\ g.event_queue = e.event_queue
    BY <1>1 DEF EngineSet, Running, Settled
  <2> HIDE DEF g
  <2>4. /\ <<u>> \in Seq(Grants(s)) /\ <<u>> \in Seq(FrameSet)
        /\ CreditIn(<<u>>, 0) = k /\ CreditIn(<<u>>, s) = 0
    BY <2>2, OneGrant, StreamsAssumption
  <2>5. Says(g, f, <<u>>, <<>>) /\ KeepsWindows(g, f) /\ f.flow = g.flow
    BY <2>1, <2>3, <2>4, WriteSays
  <2>6. Says(e, f, <<u>>, <<>>)
    BY <2>3, <2>5 DEF Says
  <2>7. /\ Running(e, f)
        /\ f.connection_send_window = e.connection_send_window
        /\ f.peer_initial_window_size = e.peer_initial_window_size
        /\ f.connection_recv_window = e.connection_recv_window + k
    BY <2>2, <2>3, <2>5 DEF KeepsWindows, SameCredit, Running, Settled
  <2>8. \A t \in Streams : SameFlow(e, f, t)
    BY <2>3, <2>5, <2>7, SameFlowState DEF Running, Settled
  <2>9. StreamRecv(f, s) = StreamRecv(e, s) + 0
    BY <2>8, WindowTypes DEF SameFlow
  <2>10. Receives(e, f, s, k, 0)
    BY <2>3, <2>5, <2>7, <2>8, <2>9 DEF Receives, SameFlows, SameFlow
  <2>11. Credits(e, f, s, <<u>>)
    BY <2>4, <2>6, <2>10 DEF Credits
  <2> QED  BY <2>11 DEF f
<1>3. CASE ~(c >= Threshold(e))
  <2>1. f = h
    BY <1>3 DEF CreditConnection
  <2> HIDE DEF c, f
  <2>2. /\ h \in EngineSet /\ Running(e, h) /\ SameCredit(e, h) /\ h.flow = e.flow
        /\ h.pending_out = e.pending_out /\ h.event_queue = e.event_queue
    BY <1>1 DEF EngineSet, Running, Settled, SameCredit
  <2> HIDE DEF h
  <2>3. KeepsWindows(e, h)
    BY <2>2, SameFlowState DEF KeepsWindows, SameFlows, Running, Settled, SameCredit
  <2>4. Credits(e, h, s, <<>>)
    BY <2>2, <2>3, NoCredit
  <2> QED  BY <2>1, <2>4 DEF f
<1> QED  BY <1>2, <1>3

\* The credit given back on a stream is what its window grows by.
LEMMA CreditStreamSays ==
  ASSUME NEW e \in EngineSet, NEW s \in Streams, NEW n \in Nat \ {0}, e.flow[s].tracked
  PROVE  \E out : Credits(e, CreditStream(e, s, n), s, out)
<1> DEFINE y        == e.flow[s]
           c        == y.consumed_bytes + n
           v        == y.recv_window + c
           credited == [y EXCEPT !.recv_window = v, !.consumed_bytes = 0]
           kept     == [y EXCEPT !.consumed_bytes = c]
           g        == ReplaceFlow(e, s, credited)
           h        == ReplaceFlow(e, s, kept)
           f        == CreditStream(e, s, n)
           u        == WindowUpdate(s, c)
<1>1. y \in StreamState /\ c \in Nat \ {0} /\ v \in Int /\ y.tracked
  BY FlowTypes
<1>2. y.recv_window = StreamRecv(e, s) /\ y.send_window = StreamSendWindow(e, s)
  BY <1>1 DEF StreamRecv, StreamEntry, StreamSendWindow
<1>3. CASE c >= Threshold(e)
  <2>1. f = Write(g, <<u>>)
    BY <1>3 DEF CreditStream, ReplaceFlow
  <2> DEFINE k == c
  <2>2. v = StreamRecv(e, s) + k /\ k \in Nat \ {0} /\ u = WindowUpdate(s, k)
    BY <1>1, <1>2
  <2> HIDE DEF y, c, v, k, f, u
  <2>3. /\ credited \in StreamState /\ credited.tracked /\ credited.recv_window = v
        /\ credited.send_window = StreamSendWindow(e, s)
    BY <1>1, <1>2 DEF StreamState
  <2> HIDE DEF credited
  <2>4. /\ Says(e, g, <<>>, <<>>) /\ Running(e, g) /\ SameCredit(e, g)
        /\ SameFlows(e, g, Streams \ {s}) /\ g.flow[s] = credited
        /\ \A t \in Streams \ {s} : g.flow[t] = e.flow[t]
    BY ZenonT(40), <2>3, ReplaceSays
  <2> HIDE DEF g
  <2>5. g \in EngineSet
    BY <2>4 DEF Says
  <2>6. /\ <<u>> \in Seq(Grants(s)) /\ <<u>> \in Seq(FrameSet)
        /\ CreditIn(<<u>>, 0) = 0 /\ CreditIn(<<u>>, s) = k
    <3>1. /\ <<WindowUpdate(s, k)>> \in Seq(Grants(s)) /\ <<WindowUpdate(s, k)>> \in Seq(FrameSet)
          /\ \A t \in Streams \union {0} :
               CreditIn(<<WindowUpdate(s, k)>>, t) = IF t = s THEN k ELSE 0
      BY <2>2, OneGrant
    <3>2. s # 0
      BY StreamsAssumption
    <3> QED  BY <2>2, <3>1, <3>2
  <2>7. Says(g, f, <<u>>, <<>>) /\ KeepsWindows(g, f) /\ f.flow = g.flow
    BY <2>1, <2>5, <2>6, WriteSays
  <2>8. Says(e, f, <<u>>, <<>>)
    <3>1. Says(e, f, <<>> \o <<u>>, <<>> \o <<>>)
      BY <2>4, <2>7, SaysTransitive
    <3>2. <<>> \o <<u>> = <<u>> /\ <<>> \o <<>> = <<>>
      BY <2>6, ConcatEmptySeq
    <3> QED  BY <3>1, <3>2
  <2>9. Running(e, f) /\ SameCredit(e, f)
    BY <2>4, <2>7 DEF KeepsWindows, SameCredit, Running, Settled
  <2>10. SameFlows(e, f, Streams \ {s})
    BY <2>4, <2>7 DEF KeepsWindows, SameFlows, SameFlow
  <2>11. StreamSendWindow(f, s) = StreamSendWindow(e, s) /\ StreamRecv(f, s) = StreamRecv(e, s) + k
    BY <2>2, <2>3, <2>4, <2>7 DEF StreamSendWindow, StreamRecv, StreamEntry
  <2>12. e.connection_recv_window + 0 = e.connection_recv_window
    BY MemberTypes
  <2>13. f.flow[s].tracked /\ \A t \in Streams \ {s} : f.flow[t].tracked = e.flow[t].tracked
    BY <2>3, <2>4, <2>7
  <2>14. Receives(e, f, s, 0, k)
    BY <2>9, <2>10, <2>11, <2>12, <2>13 DEF Receives, SameCredit
  <2>15. Credits(e, f, s, <<u>>)
    BY <2>6, <2>8, <2>14 DEF Credits
  <2> QED  BY <2>15 DEF f
<1>4. CASE ~(c >= Threshold(e))
  <2>1. f = h
    BY <1>4 DEF CreditStream, ReplaceFlow
  <2> HIDE DEF y, c, f
  <2>2. /\ kept \in StreamState /\ kept.tracked /\ kept.recv_window = StreamRecv(e, s)
        /\ kept.send_window = StreamSendWindow(e, s)
    BY <1>1, <1>2 DEF StreamState
  <2> HIDE DEF kept
  <2>3. /\ Says(e, h, <<>>, <<>>) /\ Running(e, h) /\ SameCredit(e, h)
        /\ SameFlows(e, h, Streams \ {s}) /\ h.flow[s] = kept
        /\ \A t \in Streams \ {s} : h.flow[t] = e.flow[t]
    BY ZenonT(40), <2>2, ReplaceSays
  <2> HIDE DEF h
  <2>4. /\ StreamSendWindow(h, s) = StreamSendWindow(e, s)
        /\ StreamRecv(h, s) = StreamRecv(e, s) + 0
    BY <2>2, <2>3, WindowTypes DEF StreamSendWindow, StreamRecv, StreamEntry
  <2>5. e.connection_recv_window + 0 = e.connection_recv_window
    BY MemberTypes
  <2>6. Receives(e, h, s, 0, 0)
    BY <2>2, <2>3, <2>4, <2>5 DEF Receives, SameCredit
  <2>7. CreditIn(<<>>, 0) = 0 /\ CreditIn(<<>>, s) = 0
    BY CreditInFacts
  <2>8. Credits(e, h, s, <<>>)
    BY <2>3, <2>6, <2>7, EmptySeq DEF Credits
  <2> QED  BY <2>1, <2>8 DEF f
<1> QED  BY <1>3, <1>4

\* update_flow_control complains, or takes the bytes and grants new ones.
Overruns(e, s, n) == e.connection_recv_window < n \/ StreamRecv(e, s) < n

\* DATA takes from both windows, is answered by credit, and draws a complaint
\* only when it overruns one.
LEMMA UpdateFlowControlSays ==
  ASSUME NEW e \in EngineSet, NEW s \in Streams, NEW n \in Nat \ {0}
  PROVE  LET g == UpdateFlowControl(e, s, n) IN
         \E out : /\ out \in Seq(Grants(s))
                  /\ Says(e, g, out, IF Overruns(e, s, n) THEN <<Trouble>> ELSE <<>>)
                  /\ Receives(e, g, s, CreditIn(out, 0) - n, CreditIn(out, s) - n)
<1> DEFINE r == ReceiveBytes(e, s, n)
           c == CreditConnection(r, n)
           f == CreditStream(c, s, n)
           g == UpdateFlowControl(e, s, n)
<1>1. Says(e, r, <<>>, <<>>) /\ Receives(e, r, s, -n, -n) /\ r \in EngineSet
  BY ReceiveBytesSays DEF Says
<1>2. r.flow[s].tracked /\ r.flow[s].recv_window = StreamRecv(r, s)
  BY <1>1 DEF Receives, StreamRecv, StreamEntry
<1>3. r.connection_recv_window < 0 \/ r.flow[s].recv_window < 0 <=> Overruns(e, s, n)
  <2>1. e.connection_recv_window \in Int /\ StreamRecv(e, s) \in Int
    BY MemberTypes, WindowTypes
  <2> QED  BY <1>1, <1>2, <2>1 DEF Receives, Overruns
<1>4. g = IF Overruns(e, s, n) THEN Emit(r, <<Trouble>>) ELSE f
  BY <1>3 DEF UpdateFlowControl, Trouble
<1> HIDE DEF r, g
<1>5. <<>> \in Seq(FrameSet) /\ <<>> \in Seq(EventSet) /\ <<>> \o <<>> = <<>>
  OBVIOUS
<1>6. CASE Overruns(e, s, n)
  <2>1. <<Trouble>> \in Seq(EventSet)
    BY EventTypesOK, OneEvent DEF EventTypes, Trouble
  <2>2. Says(r, g, <<>>, <<Trouble>>) /\ KeepsWindows(r, g) /\ g.flow = r.flow /\ g \in EngineSet
    BY <1>1, <1>4, <1>6, <2>1, EmitSays DEF Says
  <2>3. Receives(r, g, s, 0, 0)
    BY <1>1, <1>2, <2>2, QuietReceives
  <2>4. Receives(e, g, s, (-n) + 0, (-n) + 0)
    BY <1>1, <2>2, <2>3, ReceivesTransitive
  <2>5. Says(e, g, <<>> \o <<>>, <<>> \o <<Trouble>>)
    BY <1>1, <2>2, SaysTransitive
  <2>6. <<>> \o <<Trouble>> = <<Trouble>>
    BY <2>1, ConcatEmptySeq
  <2>7. CreditIn(<<>>, 0) - n = (-n) + 0 /\ CreditIn(<<>>, s) - n = (-n) + 0
    BY CreditInFacts
  <2>8. Says(e, g, <<>>, <<Trouble>>)
    BY <1>5, <2>5, <2>6
  <2>9. Receives(e, g, s, CreditIn(<<>>, 0) - n, CreditIn(<<>>, s) - n)
    BY <2>4, <2>7
  <2> QED  BY <1>6, <2>8, <2>9, EmptySeq DEF g
<1>7. CASE ~Overruns(e, s, n)
  <2>1. PICK o1 : Credits(r, c, s, o1)
    BY <1>1, <1>2, CreditConnectionSays
  <2> HIDE DEF c
  <2>2. /\ o1 \in Seq(Grants(s)) /\ Says(r, c, o1, <<>>) /\ c \in EngineSet
        /\ Receives(r, c, s, CreditIn(o1, 0), CreditIn(o1, s)) /\ c.flow[s].tracked
    BY <2>1 DEF Credits, Says, Receives
  <2>3. PICK o2 : Credits(c, f, s, o2)
    BY <2>2, CreditStreamSays
  <2> HIDE DEF f
  <2>4. /\ o2 \in Seq(Grants(s)) /\ Says(c, f, o2, <<>>) /\ f \in EngineSet
        /\ Receives(c, f, s, CreditIn(o2, 0), CreditIn(o2, s))
    BY <2>3 DEF Credits, Says
  <2> DEFINE out == o1 \o o2
  <2>5. out \in Seq(Grants(s))
    BY <2>2, <2>4, ConcatProperties
  <2>6. o1 \in Seq(FrameSet) /\ o2 \in Seq(FrameSet)
    BY <2>2, <2>4, GrantsCarry
  <2>7. /\ CreditIn(out, 0) = CreditIn(o1, 0) + CreditIn(o2, 0)
        /\ CreditIn(out, s) = CreditIn(o1, s) + CreditIn(o2, s)
        /\ CreditIn(o1, 0) \in Nat /\ CreditIn(o1, s) \in Nat
        /\ CreditIn(o2, 0) \in Nat /\ CreditIn(o2, s) \in Nat
    BY <2>6, CreditInFacts
  <2>8. Says(e, f, out, <<>>)
    <3>1. Says(e, c, <<>> \o o1, <<>> \o <<>>)
      BY <1>1, <2>2, SaysTransitive
    <3>2. <<>> \o o1 = o1
      BY <2>6, ConcatEmptySeq
    <3>3. Says(e, c, o1, <<>>)
      BY <1>5, <3>1, <3>2
    <3>4. Says(e, f, o1 \o o2, <<>> \o <<>>)
      BY <2>4, <3>3, SaysTransitive
    <3> QED  BY <1>5, <3>4
  <2> HIDE DEF out
  <2>9. Receives(e, c, s, (-n) + CreditIn(o1, 0), (-n) + CreditIn(o1, s))
    BY <1>1, <2>2, <2>7, ReceivesTransitive
  <2> DEFINE a == (-n) + CreditIn(o1, 0)
             b == (-n) + CreditIn(o1, s)
  <2>10. a \in Int /\ b \in Int
    BY <2>7
  <2>11. a + CreditIn(o2, 0) = CreditIn(out, 0) - n /\ b + CreditIn(o2, s) = CreditIn(out, s) - n
    BY <2>7
  <2>12. Receives(e, c, s, a, b)
    BY <2>9
  <2> HIDE DEF a, b
  <2>13. Receives(e, f, s, a + CreditIn(o2, 0), b + CreditIn(o2, s))
    BY <2>2, <2>4, <2>7, <2>10, <2>12, ReceivesTransitive
  <2>14. g = f
    BY <1>4, <1>7
  <2>15. Receives(e, f, s, CreditIn(out, 0) - n, CreditIn(out, s) - n)
    BY <2>11, <2>13
  <2> QED  BY <1>7, <2>5, <2>8, <2>14, <2>15 DEF g
<1> QED  BY <1>6, <1>7

\* DATA: the bytes, what update_flow_control has to complain of, and the end.
DataEvents(e, f, n) ==
  (<<Event("data", f.stream, n)>> \o
     IF Overruns(e, f.stream, n) THEN <<Trouble>> ELSE <<>>) \o Closing(f.stream, f.end)

\* What a DATA chunk reports: its bytes, a complaint if any, its end.
LEMMA DataEventsReport ==
  ASSUME NEW e \in EngineSet, NEW f \in FrameSet, f.stream \in Streams, NEW n \in Nat \ {0}
  PROVE  LET q == DataEvents(e, f, n) IN
         /\ q \in Seq(EventSet) /\ q \in Seq(Reports(f.stream, f.end) \union {Trouble})
         /\ ClosedLast(q)
         /\ ~Overruns(e, f.stream, n) => q \in Seq(Reports(f.stream, f.end))
         /\ \A t \in Streams : BytesIn(q, t) = IF t = f.stream THEN n ELSE 0
<1> DEFINE s == f.stream
           d == Event("data", s, n)
           x == IF Overruns(e, s, n) THEN <<Trouble>> ELSE <<>>
           c == Closing(s, f.end)
           P == Reports(s, f.end)
           R == P \union {Trouble}
           u == <<d>> \o x
           T == {v \in R : v.type # "stream_closed"}
<1>1. d \in EventSet /\ d.type = "data" /\ d.stream = s /\ d.len = n
  BY EventTypesOK DEF EventTypes, Event
<1>2. Trouble \in EventSet /\ Trouble.type = "connection_error"
  BY EventTypesOK DEF EventTypes, Trouble, Event
<1>3. x = <<Trouble>> \/ x = <<>>
  OBVIOUS
<1>4. ~Overruns(e, s, n) => x = <<>>
  OBVIOUS
<1>5. DataEvents(e, f, n) = u \o c /\ f.end \in BOOLEAN /\ s \in Streams
  BY DEF DataEvents, FrameSet
<1> HIDE DEF d, x, c
<1>6. P \in SUBSET EventSet /\ R \in SUBSET EventSet /\ P \subseteq R /\ d \in P
  BY <1>1, <1>2 DEF Reports
<1>7. d \in T /\ Trouble \in T
  BY <1>1, <1>2, <1>6
<1>8. <<d>> \in Seq(T) /\ x \in Seq(T) /\ <<d>> \in Seq(EventSet) /\ x \in Seq(EventSet)
  <2>1. <<Trouble>> \in Seq(T) /\ <<>> \in Seq(T)
    BY <1>7
  <2>2. <<Trouble>> \in Seq(EventSet) /\ <<>> \in Seq(EventSet)
    BY <1>2
  <2>3. <<d>> \in Seq(T) /\ <<d>> \in Seq(EventSet)
    BY <1>1, <1>7
  <2> QED  BY <1>3, <2>1, <2>2, <2>3
<1>9. u \in Seq(T)
  BY <1>8, ConcatProperties
<1>10. \A t \in Streams : BytesIn(u, t) = IF t = s THEN n ELSE 0
  <2>1. ASSUME NEW t \in Streams PROVE BytesIn(u, t) = IF t = s THEN n ELSE 0
    <3>1. BytesIn(<<d>>, t) = BytesOf(d, t) /\ BytesIn(<<Trouble>>, t) = BytesOf(Trouble, t)
          /\ BytesIn(<<>>, t) = 0
      BY <1>1, <1>2, BytesInFacts
    <3>2. BytesIn(<<d>>, t) = IF t = s THEN n ELSE 0
      BY <1>1, <3>1 DEF BytesOf
    <3>3. BytesIn(x, t) = 0
      BY <1>2, <1>3, <3>1 DEF BytesOf
    <3>4. BytesIn(u, t) = BytesIn(<<d>>, t) + BytesIn(x, t)
      BY <1>8, BytesInFacts
    <3> QED  BY <3>2, <3>3, <3>4
  <2> QED  BY <2>1
<1> HIDE DEF u
<1>11. u \in Seq(R) /\ \A i \in DOMAIN u : u[i].type # "stream_closed"
  <2>1. \A i \in DOMAIN u : u[i] \in T
    BY <1>9
  <2> HIDE DEF R
  <2> QED  BY <1>9, <2>1
<1> HIDE DEF R
<1>12. /\ u \o c \in Seq(EventSet) /\ u \o c \in Seq(R) /\ ClosedLast(u \o c)
       /\ \A t \in Streams : BytesIn(u \o c, t) = BytesIn(u, t)
  BY ZenonT(40), <1>5, <1>6, <1>11, ThenClosing DEF c
<1>13. ASSUME ~Overruns(e, s, n) PROVE u \o c \in Seq(P)
  <2>1. u = <<d>>
    <3>1. <<d>> \o <<>> = <<d>>
      BY <1>8, ConcatEmptySeq
    <3> QED  BY <1>4, <1>13, <3>1 DEF u
  <2>2. u \in Seq(P)
    BY <1>6, <2>1
  <2> QED  BY <1>5, <1>6, <1>11, <2>2, ThenClosing DEF c
<1> QED  BY <1>5, <1>10, <1>12, <1>13 DEF R

\* The flow state of s is erased: the windows are the initial ones.
Forgotten(e, g, s) ==
  /\ StreamSendWindow(g, s) = e.peer_initial_window_size
  /\ StreamRecv(g, s) = e.initial_window_size

\* What a DATA chunk makes an engine do; END_STREAM erases the entry, so that
\* both windows of the stream start anew.
LEMMA ReceiveDataSays ==
  ASSUME NEW e \in EngineSet, NEW f \in FrameSet, f.stream \in Streams, NEW n \in Nat \ {0}
  PROVE  LET g == ReceiveData(e, f, n)
             s == f.stream
         IN
         \E out :
           /\ out \in Seq(Grants(s)) /\ Says(e, g, out, DataEvents(e, f, n))
           /\ Running(e, g)
           /\ g.connection_send_window = e.connection_send_window
           /\ g.peer_initial_window_size = e.peer_initial_window_size
           /\ g.connection_recv_window = e.connection_recv_window + (CreditIn(out, 0) - n)
           /\ SameFlows(e, g, Streams \ {s}) /\ Enters(e, g, {s})
           /\ ~f.end => /\ StreamSendWindow(g, s) = StreamSendWindow(e, s)
                        /\ StreamRecv(g, s) = StreamRecv(e, s) + (CreditIn(out, s) - n)
           /\ f.end => Forgotten(e, g, s)
<1> DEFINE s == f.stream
           v == Event("data", s, n)
           x == IF Overruns(e, s, n) THEN <<Trouble>> ELSE <<>>
           k == Closing(s, f.end)
           d == Emit(e, <<v>>)
           a == UpdateFlowControl(d, s, n)
           b == ReplaceFlow(a, s, Untracked)
           g == ReceiveData(e, f, n)
<1>1. /\ DataEvents(e, f, n) = (<<v>> \o x) \o k /\ f.end \in BOOLEAN /\ s \in Streams
      /\ f.end => k = <<Event("stream_closed", s, 0)>>
      /\ ~f.end => k = <<>>
  BY DEF DataEvents, FrameSet, Closing
<1>2. g = IF f.end THEN Emit(b, k) ELSE a
  BY <1>1 DEF ReceiveData, ReplaceFlow
<1>3. <<v>> \in Seq(EventSet) /\ k \in Seq(EventSet)
  BY <1>1, EventTypesOK, OneEvent, ClosingReports DEF EventTypes
<1> HIDE DEF v, k, s, g
<1>4. Says(e, d, <<>>, <<v>>) /\ KeepsWindows(e, d) /\ d.flow = e.flow /\ d \in EngineSet
  BY <1>3, EmitSays DEF Says
<1>5. Overruns(d, s, n) <=> Overruns(e, s, n)
  BY <1>1, <1>4 DEF Overruns, KeepsWindows, SameCredit, SameFlows, SameFlow
<1> HIDE DEF d
<1>6. x = IF Overruns(d, s, n) THEN <<Trouble>> ELSE <<>>
  BY <1>5
<1> HIDE DEF x
<1>7. PICK out : /\ out \in Seq(Grants(s)) /\ Says(d, a, out, x)
                 /\ Receives(d, a, s, CreditIn(out, 0) - n, CreditIn(out, s) - n)
  BY <1>1, <1>4, <1>6, UpdateFlowControlSays
<1> HIDE DEF a
<1>8. a \in EngineSet /\ out \in Seq(FrameSet) /\ x \in Seq(EventSet)
  BY <1>7 DEF Says
<1>9. Says(e, a, out, <<v>> \o x)
  <2>1. Says(e, a, <<>> \o out, <<v>> \o x)
    BY <1>4, <1>7, SaysTransitive
  <2>2. <<>> \o out = out
    BY <1>8, ConcatEmptySeq
  <2> QED  BY <2>1, <2>2
<1>10. /\ Running(e, a)
       /\ a.connection_send_window = e.connection_send_window
       /\ a.peer_initial_window_size = e.peer_initial_window_size
       /\ a.connection_recv_window = e.connection_recv_window + (CreditIn(out, 0) - n)
       /\ SameFlows(e, a, Streams \ {s}) /\ Enters(e, a, {s})
  BY <1>4, <1>7 DEF Receives, KeepsWindows, SameCredit, Running, Settled, SameFlows, SameFlow, Enters
<1>11. /\ StreamSendWindow(a, s) = StreamSendWindow(e, s)
       /\ StreamRecv(a, s) = StreamRecv(e, s) + (CreditIn(out, s) - n)
  BY <1>1, <1>4, <1>7 DEF Receives, KeepsWindows, SameFlows, SameFlow
<1>12. <<v>> \o x \in Seq(EventSet)
  BY <1>3, <1>8, ConcatProperties
<1>13. CASE ~f.end
  <2>1. (<<v>> \o x) \o k = <<v>> \o x
    BY <1>1, <1>12, <1>13, ConcatEmptySeq
  <2>2. Says(e, g, out, DataEvents(e, f, n)) /\ g = a
    BY <1>1, <1>2, <1>9, <1>13, <2>1
  <2> QED  BY <1>7, <1>10, <1>11, <1>13, <2>2 DEF g, s
<1>14. CASE f.end
  <2>1. Untracked \in StreamState /\ ~Untracked.tracked
    BY DEF Untracked, StreamState
  <2>10. b = ReplaceFlow(a, s, Untracked)
    OBVIOUS
  <2>11. s \in Streams /\ a \in EngineSet
    BY <1>1, <1>8
  <2> HIDE DEF b
  <2>2. /\ Says(a, b, <<>>, <<>>) /\ Running(a, b) /\ SameCredit(a, b)
        /\ SameFlows(a, b, Streams \ {s}) /\ b.flow[s] = Untracked
        /\ \A t \in Streams \ {s} : b.flow[t] = a.flow[t]
    BY ZenonT(40), <2>1, <2>10, <2>11, ReplaceSays
  <2>3. b \in EngineSet
    BY <2>2 DEF Says
  <2>4. Says(b, g, <<>>, k) /\ KeepsWindows(b, g) /\ g.flow = b.flow
    BY <1>2, <1>3, <1>14, <2>3, EmitSays
  <2>5. Says(e, g, out, (<<v>> \o x) \o k)
    <3>1. Says(e, b, out \o <<>>, (<<v>> \o x) \o <<>>)
      BY <1>9, <2>2, SaysTransitive
    <3>2. out \o <<>> = out /\ (<<v>> \o x) \o <<>> = <<v>> \o x
      BY <1>8, <1>12, ConcatEmptySeq
    <3>3. Says(e, b, out, <<v>> \o x)
      BY <3>1, <3>2
    <3>4. Says(e, g, out \o <<>>, (<<v>> \o x) \o k)
      BY <2>4, <3>3, SaysTransitive
    <3> QED  BY <3>2, <3>4
  <2>6. /\ Running(e, g)
        /\ g.connection_send_window = e.connection_send_window
        /\ g.peer_initial_window_size = e.peer_initial_window_size
        /\ g.connection_recv_window = e.connection_recv_window + (CreditIn(out, 0) - n)
    BY <1>10, <2>2, <2>4 DEF KeepsWindows, SameCredit, Running, Settled
  <2>7. SameFlows(e, g, Streams \ {s})
    BY <1>10, <2>2, <2>4 DEF KeepsWindows, SameFlows, SameFlow
  <2>8. Enters(e, g, {s})
    BY <1>10, <2>2, <2>4 DEF Enters
  <2>9. Says(e, g, out, DataEvents(e, f, n))
    BY <1>1, <2>5
  <2>12. Forgotten(e, g, s)
    BY <1>10, <2>1, <2>2, <2>4
       DEF KeepsWindows, Running, Settled, SameCredit, StreamSendWindow, StreamRecv, StreamEntry, Forgotten
  <2> QED  BY <1>7, <1>14, <2>6, <2>7, <2>8, <2>9, <2>12 DEF g, s
<1> QED  BY <1>13, <1>14

----------------------------------------------------------------------------
(* WINDOW_UPDATE and SETTINGS.                                             *)

\* The events that wake up the streams of S.
Wakeups(S) ==
  {v \in EventSet : \/ v.type = "connection_window_available" /\ v.stream = 0
                    \/ v.type = "stream_window_available" /\ v.stream \in S}

\* A wakeup carries no bytes and closes nothing.
LEMMA WakeupsCarry ==
  ASSUME NEW S, NEW q \in Seq(Wakeups(S))
  PROVE  /\ q \in Seq(EventSet) /\ ClosedLast(q)
         /\ \A t \in Streams : BytesIn(q, t) = 0
<1>1. /\ q \in Seq(EventSet)
      /\ \A i \in 1 .. Len(q) : q[i].type \notin {"data", "stream_closed"}
  BY DEF Wakeups
<1>2. ClosedLast(q)
  BY <1>1 DEF ClosedLast
<1>3. ASSUME NEW t \in Streams PROVE BytesIn(q, t) = 0
  <2> DEFINE z == [i \in DOMAIN q |-> BytesOf(q[i], t)]
  <2>1. \A i \in 1 .. Len(q) : BytesOf(q[i], t) = 0
    BY <1>1 DEF BytesOf
  <2>2. z \in Seq(Nat) /\ Len(z) = Len(q) /\ \A i \in 1 .. Len(z) : z[i] = 0
    BY <1>1, <2>1
  <2> HIDE DEF z
  <2>3. Total(z) = 0
    BY <2>2, TotalZero
  <2> QED  BY <2>3 DEF BytesIn, z
<1> QED  BY <1>1, <1>2, <1>3

\* A walk over the hash map wakes up the streams it visits.
LEMMA WindowAvailableWakeups ==
  ASSUME NEW S \in SUBSET Streams, NEW q \in IterationOrders(S)
  PROVE  WindowAvailable(q) \in Seq(Wakeups(S))
<1>1. IsFiniteSet(S) /\ Cardinality(S) \in Nat
  BY StreamsAssumption, FS_Subset, FS_CardinalityType
<1>2. q \in [1 .. Cardinality(S) -> S]
  BY DEF IterationOrders
<1> DEFINE n == Cardinality(S)
<1> HIDE DEF n
<1>3. Len(q) = n /\ n \in Nat /\ \A i \in 1 .. n : q[i] \in S
  BY <1>1, <1>2 DEF n
<1>4. \A i \in 1 .. n : Event("stream_window_available", q[i], 0) \in Wakeups(S)
  <2>1. ASSUME NEW s \in S PROVE Event("stream_window_available", s, 0) \in Wakeups(S)
    BY EventTypesOK DEF EventTypes, Event, Wakeups
  <2> QED  BY <1>3, <2>1
<1>5. WindowAvailable(q) = [i \in 1 .. n |-> Event("stream_window_available", q[i], 0)]
  BY <1>3 DEF WindowAvailable
<1> QED  BY <1>3, <1>4, <1>5

\* A WINDOW_UPDATE raises one send window by its increment.
LEMMA WindowUpdateSays ==
  ASSUME NEW e \in EngineSet, NEW f \in FrameSet, f.type = "window_update", f.val > 0,
         NEW q \in IterationOrders(Woken(e, f))
  PROVE  LET g == HandleWindowUpdate(e, f, q)
             S == Tracked(e) \union ({f.stream} \ {0})
         IN
         \E events :
           /\ events \in Seq(Wakeups(S)) /\ Says(e, g, <<>>, events)
           /\ Running(e, g)
           /\ g.connection_recv_window = e.connection_recv_window
           /\ g.peer_initial_window_size = e.peer_initial_window_size
           /\ g.connection_send_window = e.connection_send_window + CreditOf(f, 0)
           /\ \A t \in Streams :
                /\ StreamSendWindow(g, t) = StreamSendWindow(e, t) + CreditOf(f, t)
                /\ StreamRecv(g, t) = StreamRecv(e, t)
           /\ Enters(e, g, {f.stream})
<1> DEFINE g == HandleWindowUpdate(e, f, q)
           S == Tracked(e) \union ({f.stream} \ {0})
           W == Woken(e, f)
           n == f.val
<1>1. f.val \in Nat \ {0} /\ f.stream \in Streams \union {0}
  BY DEF FrameSet
<1>2. W \in SUBSET Streams /\ W \subseteq S
  <2>1. W \in SUBSET Streams
    BY WokenType
  <2>2. CASE f.stream = 0
    <3>1. W = WokenByConnection(e, f.val)
      BY <2>2 DEF Woken
    <3> QED  BY <2>1, <3>1 DEF WokenByConnection
  <2>3. CASE f.stream # 0
    <3>1. W = WokenByStream(e, f.stream, f.val)
      BY <2>3 DEF Woken
    <3>2. W \subseteq {f.stream}
      BY <3>1 DEF WokenByStream
    <3> QED  BY <2>1, <2>3, <3>2
  <2> QED  BY <2>1, <2>2, <2>3
<1>3. S \in SUBSET Streams
  BY <1>1 DEF Tracked
<1>4. WindowAvailable(q) \in Seq(Wakeups(S))
  <2>1. WindowAvailable(q) \in Seq(Wakeups(W))
    BY <1>2, WindowAvailableWakeups
  <2>2. Wakeups(W) \subseteq Wakeups(S)
    BY <1>2 DEF Wakeups
  <2>3. \A P : \A u \in Seq(P) : \A T : P \subseteq T => u \in Seq(T)
    OBVIOUS
  <2> QED  BY <2>1, <2>2, <2>3
<1>5. \A t \in Streams : StreamSendWindow(e, t) \in Int /\ StreamRecv(e, t) \in Int
  BY WindowTypes
<1>6. e.connection_send_window \in Int /\ e.connection_recv_window \in Int
  BY MemberTypes
<1>7. CASE f.stream = 0
  <2> DEFINE v      == e.connection_send_window + n
             h      == [e EXCEPT !.connection_send_window = v]
             y      == Event("connection_window_available", 0, 0)
             events == (IF ConnectionOpened(e, n) THEN <<y>> ELSE <<>>) \o WindowAvailable(q)
  <2>1. g = Emit(h, events)
    BY <1>1, <1>7 DEF HandleWindowUpdate
  <2>2. v \in Int
    BY <1>1, <1>6
  <2>3. y \in Wakeups(S)
    BY EventTypesOK DEF EventTypes, Event, Wakeups
  <2> HIDE DEF v, g, y, S
  <2>4. events \in Seq(Wakeups(S))
    <3>1. <<y>> \in Seq(Wakeups(S)) /\ <<>> \in Seq(Wakeups(S))
      BY <2>3
    <3> QED  BY <1>4, <3>1, ConcatProperties
  <2> HIDE DEF events
  <2>5. /\ h \in EngineSet /\ Running(e, h) /\ h.flow = e.flow
        /\ h.connection_recv_window = e.connection_recv_window
        /\ h.peer_initial_window_size = e.peer_initial_window_size
        /\ h.connection_send_window = v
        /\ h.pending_out = e.pending_out /\ h.event_queue = e.event_queue
    BY <2>2 DEF EngineSet, Running, Settled
  <2> HIDE DEF h
  <2>6. events \in Seq(EventSet)
    BY <2>4, WakeupsCarry
  <2>7. Says(h, g, <<>>, events) /\ KeepsWindows(h, g) /\ g.flow = h.flow
    BY <2>1, <2>5, <2>6, EmitSays
  <2>8. Says(e, g, <<>>, events)
    BY <2>5, <2>7 DEF Says
  <2>9. /\ Running(e, g)
        /\ g.connection_recv_window = e.connection_recv_window
        /\ g.peer_initial_window_size = e.peer_initial_window_size
        /\ g.connection_send_window = v
    BY <2>5, <2>7 DEF KeepsWindows, SameCredit, Running, Settled
  <2>10. \A t \in Streams : SameFlow(e, g, t)
    BY <2>5, <2>7, <2>9, SameFlowState DEF Running, Settled
  <2>11. CreditOf(f, 0) = n /\ \A t \in Streams : CreditOf(f, t) = 0
    BY <1>7, StreamsAssumption DEF CreditOf
  <2>12. \A t \in Streams : StreamSendWindow(g, t) = StreamSendWindow(e, t) + CreditOf(f, t)
                            /\ StreamRecv(g, t) = StreamRecv(e, t)
    BY <1>5, <2>10, <2>11 DEF SameFlow
  <2>13. Enters(e, g, {f.stream})
    BY <2>5, <2>7 DEF Enters
  <2>14. v = e.connection_send_window + CreditOf(f, 0)
    BY <2>11 DEF v
  <2> QED  BY <2>4, <2>8, <2>9, <2>12, <2>13, <2>14 DEF g, S
<1>8. CASE f.stream # 0
  <2> DEFINE s == f.stream
             i == GetOrInit(e, s)
             v == i.flow[s].send_window + n
             x == [i.flow[s] EXCEPT !.send_window = v]
             h == [i EXCEPT !.flow[s].send_window = @ + n]
             events == WindowAvailable(q)
  <2>1. g = Emit(h, events)
    BY <1>1, <1>8 DEF HandleWindowUpdate
  <2>2. h = ReplaceFlow(i, s, x)
    BY DEF ReplaceFlow
  <2>3. s \in Streams
    BY <1>1, <1>8
  <2> HIDE DEF s
  <2>4. /\ Says(e, i, <<>>, <<>>) /\ KeepsWindows(e, i) /\ Enters(e, i, {s})
        /\ i.flow[s] = StreamEntry(e, s) /\ i \in EngineSet
    BY <2>3, GetOrInitSays DEF Says
  <2>5. i.flow[s].tracked /\ StreamSendWindow(i, s) = i.flow[s].send_window
        /\ StreamRecv(i, s) = i.flow[s].recv_window
    BY <2>3, <2>4, StreamEntryLemma DEF StreamSendWindow, StreamRecv, StreamEntry
  <2> HIDE DEF i, h, g, S, events
  <2>6. v \in Int /\ v = StreamSendWindow(e, s) + n
    BY <1>1, <2>3, <2>4, <2>5, FlowTypes DEF KeepsWindows, SameFlows, SameFlow
  <2> HIDE DEF v
  <2>7. /\ x \in StreamState /\ x.tracked /\ x.send_window = v
        /\ x.recv_window = StreamRecv(e, s)
    BY <2>3, <2>4, <2>5, <2>6, FlowTypes DEF StreamState, KeepsWindows, SameFlows, SameFlow
  <2> HIDE DEF x
  <2>15. s \in Streams /\ i \in EngineSet /\ x \in StreamState
    BY <2>3, <2>4, <2>7
  <2>8. /\ Says(i, h, <<>>, <<>>) /\ Running(i, h) /\ SameCredit(i, h)
        /\ SameFlows(i, h, Streams \ {s}) /\ h.flow[s] = x
        /\ \A t \in Streams \ {s} : h.flow[t] = i.flow[t]
    BY ZenonT(40), <2>2, <2>15, ReplaceSays
  <2>9. h \in EngineSet /\ events \in Seq(EventSet) /\ events \in Seq(Wakeups(S))
    BY <1>4, <2>8, WakeupsCarry DEF Says, events
  <2>10. Says(h, g, <<>>, events) /\ KeepsWindows(h, g) /\ g.flow = h.flow
    BY <2>1, <2>9, EmitSays
  <2>11. Says(e, g, <<>>, events)
    <3>1. Says(e, h, <<>> \o <<>>, <<>> \o <<>>)
      BY <2>4, <2>8, SaysTransitive
    <3>2. <<>> \o <<>> = <<>> /\ <<>> \o events = events
      BY <2>9, ConcatEmptySeq
    <3>3. Says(e, h, <<>>, <<>>)
      BY <3>1, <3>2
    <3>4. Says(e, g, <<>> \o <<>>, <<>> \o events)
      BY <2>10, <3>3, SaysTransitive
    <3> QED  BY <3>2, <3>4
  <2>12. /\ Running(e, g)
         /\ g.connection_recv_window = e.connection_recv_window
         /\ g.peer_initial_window_size = e.peer_initial_window_size
         /\ g.connection_send_window = e.connection_send_window
    BY <2>4, <2>8, <2>10 DEF KeepsWindows, SameCredit, Running, Settled
  <2>13. StreamSendWindow(g, s) = StreamSendWindow(e, s) + n /\ StreamRecv(g, s) = StreamRecv(e, s)
    BY <2>6, <2>7, <2>8, <2>10 DEF StreamSendWindow, StreamRecv, StreamEntry
  <2>14. \A t \in Streams \ {s} : SameFlow(e, g, t)
    BY <2>4, <2>8, <2>10 DEF KeepsWindows, SameFlows, SameFlow
  <2>16. CreditOf(f, 0) = 0 /\ \A t \in Streams : CreditOf(f, t) = IF t = s THEN n ELSE 0
    BY <1>8 DEF CreditOf, s
  <2>17. \A t \in Streams : StreamSendWindow(g, t) = StreamSendWindow(e, t) + CreditOf(f, t)
                            /\ StreamRecv(g, t) = StreamRecv(e, t)
    BY <1>5, <2>13, <2>14, <2>16 DEF SameFlow
  <2>18. Enters(e, g, {s})
    BY <2>4, <2>8, <2>10 DEF Enters
  <2>19. e.connection_send_window = e.connection_send_window + CreditOf(f, 0)
    BY <1>6, <2>16
  <2> QED  BY <2>9, <2>11, <2>12, <2>17, <2>18, <2>19 DEF g, S, s
<1> QED  BY <1>7, <1>8

\* SETTINGS move the send window of every stream by the same amount.
LEMMA PeerInitialWindowSizeSays ==
  ASSUME NEW e \in EngineSet, NEW size \in Nat, NEW q \in IterationOrders(WokenBySettings(e, size))
  PROVE  LET g == ApplyPeerInitialWindowSize(e, size, q) IN
         /\ WindowAvailable(q) \in Seq(Wakeups(Tracked(e)))
         /\ Says(e, g, <<>>, WindowAvailable(q))
         /\ Running(e, g)
         /\ g.connection_recv_window = e.connection_recv_window
         /\ g.connection_send_window = e.connection_send_window
         /\ g.peer_initial_window_size = size
         /\ \A t \in Streams :
              /\ StreamSendWindow(g, t)
                   = StreamSendWindow(e, t) + (size - e.peer_initial_window_size)
              /\ StreamRecv(g, t) = StreamRecv(e, t)
         /\ Enters(e, g, {})
<1> DEFINE W        == WokenBySettings(e, size)
           old      == e.peer_initial_window_size
           moved(t) == [e.flow[t] EXCEPT !.send_window = @ + size - old]
           flow     == [t \in Streams |-> IF e.flow[t].tracked THEN moved(t) ELSE e.flow[t]]
           m        == [e EXCEPT !.peer_initial_window_size = size, !.flow = flow]
           g        == ApplyPeerInitialWindowSize(e, size, q)
           events   == WindowAvailable(q)
<1>1. W \in SUBSET Streams /\ W \subseteq Tracked(e) /\ old \in Int
  BY MemberTypes DEF WokenBySettings, Tracked
<1>2. g = Emit(m, events)
  BY DEF ApplyPeerInitialWindowSize
<1>3. ASSUME NEW t \in Streams
      PROVE  /\ moved(t) \in StreamState
             /\ moved(t).tracked = e.flow[t].tracked
             /\ moved(t).recv_window = e.flow[t].recv_window
             /\ moved(t).send_window = e.flow[t].send_window + (size - old)
  <2> DEFINE w == e.flow[t].send_window + size - old
  <2>1. /\ w \in Int /\ e.flow[t] \in StreamState
        /\ w = e.flow[t].send_window + (size - old)
    BY <1>1, FlowTypes
  <2> HIDE DEF w
  <2>2. LET x == [e.flow[t] EXCEPT !.send_window = w] IN
        x \in StreamState /\ x.tracked = e.flow[t].tracked
        /\ x.recv_window = e.flow[t].recv_window /\ x.send_window = w
    BY <2>1 DEF StreamState
  <2> QED  BY <2>1, <2>2 DEF w
<1> HIDE DEF moved
<1>4. \A t \in Streams : e.flow[t] \in StreamState
  BY FlowTypes
<1>5. flow \in [Streams -> StreamState]
  BY <1>3, <1>4
<1>6. \A t \in Streams : flow[t] = IF e.flow[t].tracked THEN moved(t) ELSE e.flow[t]
  OBVIOUS
<1> HIDE DEF flow
<1>7. /\ m \in EngineSet /\ m.flow = flow /\ Running(e, m)
      /\ m.connection_recv_window = e.connection_recv_window
      /\ m.connection_send_window = e.connection_send_window
      /\ m.peer_initial_window_size = size
      /\ m.pending_out = e.pending_out /\ m.event_queue = e.event_queue
  BY <1>5 DEF EngineSet, Running, Settled
<1>8. events \in Seq(Wakeups(Tracked(e))) /\ events \in Seq(EventSet)
  <2>1. events \in Seq(Wakeups(W))
    BY <1>1, WindowAvailableWakeups
  <2>2. Wakeups(W) \subseteq Wakeups(Tracked(e))
    BY <1>1 DEF Wakeups
  <2>3. \A P : \A u \in Seq(P) : \A T : P \subseteq T => u \in Seq(T)
    OBVIOUS
  <2>4. events \in Seq(Wakeups(Tracked(e)))
    BY <2>1, <2>2, <2>3
  <2> QED  BY <2>4, WakeupsCarry
<1> HIDE DEF m, g, events
<1>9. Says(m, g, <<>>, events) /\ KeepsWindows(m, g) /\ g.flow = m.flow
  BY <1>2, <1>7, <1>8, EmitSays
<1>10. Says(e, g, <<>>, events)
  BY <1>7, <1>9 DEF Says
<1>11. /\ Running(e, g) /\ g.flow = flow
       /\ g.connection_recv_window = e.connection_recv_window
       /\ g.connection_send_window = e.connection_send_window
       /\ g.peer_initial_window_size = size
  BY <1>7, <1>9 DEF KeepsWindows, SameCredit, Running, Settled
<1>12. ASSUME NEW t \in Streams
       PROVE  /\ StreamSendWindow(g, t) = StreamSendWindow(e, t) + (size - old)
              /\ StreamRecv(g, t) = StreamRecv(e, t)
              /\ g.flow[t].tracked = e.flow[t].tracked
  <2>1. CASE e.flow[t].tracked
    BY <1>3, <1>6, <1>11, <2>1 DEF StreamSendWindow, StreamRecv, StreamEntry
  <2>2. CASE ~e.flow[t].tracked
    <3>1. StreamSendWindow(g, t) = size /\ StreamSendWindow(e, t) = old
      BY <1>6, <1>11, <2>2 DEF StreamSendWindow
    <3>2. size = old + (size - old)
      BY <1>1
    <3>3. StreamRecv(g, t) = StreamRecv(e, t)
      BY <1>6, <1>11, <2>2 DEF StreamRecv, StreamEntry, Running, Settled
    <3> QED  BY <1>6, <1>11, <2>2, <3>1, <3>2, <3>3
  <2> QED  BY <2>1, <2>2
<1>13. Enters(e, g, {})
  BY <1>12 DEF Enters
<1> QED  BY <1>8, <1>10, <1>11, <1>12, <1>13 DEF g, old, events

----------------------------------------------------------------------------
(* The invariant, first layer: what holds whatever the bodies, the sizes   *)
(* and the reads.                                                          *)

Phases == {"none", "open", "sending", "waiting", "done"}

\* s was opened by the client.
Opened(s) == phase["client"][s] # "none"

Content(f) == f.type \in {"data", "headers"}

\* The frames that may be on their way to x: those the engines write, never
\* empty where the code has a payload; END_STREAM only from an application that
\* is done, credit only for a body, and no stream that was not opened.
GoodFrame(x, f) ==
  /\ \/ f.type = "preface" /\ f.stream = 0 /\ f.len = 0
     \/ /\ f.type = "settings" /\ f.stream = 0 /\ f.len = 1
        /\ f.val = engine[Peer(x)].initial_window_size
     \/ f.type = "settings_ack" /\ f.stream = 0 /\ f.len = 0
     \/ f.type = "headers" /\ f.stream \in Streams /\ f.len \in 1 .. 2
     \/ /\ f.type = "data" /\ f.stream \in Streams /\ f.len \in 1 .. MaxFrame
        /\ BodyOf(Peer(x), f.stream) > 0
     \/ /\ f.type = "window_update" /\ f.len = 1 /\ f.val > 0
        /\ f.stream # 0 => BodyOf(x, f.stream) > 0
  /\ f.end => Content(f) /\ phase[Peer(x)][f.stream] = "done"
  /\ f.stream # 0 => Opened(f.stream)

GoodFrames(x) == {f \in FrameSet : GoodFrame(x, f)}

\* The events that x may find in its queue.
GoodEvent(x, v) ==
  /\ v.type \in {"data", "stream_closed", "new_stream", "stream_window_available"} =>
       v.stream # 0
  /\ v.type = "data" => v.len > 0
  /\ v.type = "stream_closed" => phase[Peer(x)][v.stream] = "done"
  /\ v.stream # 0 => Opened(v.stream)

GoodEvents(x) == {v \in EventSet : GoodEvent(x, v)}

Types ==
  /\ engine \in [Sides -> EngineSet]
  /\ frame \in [Sides -> FrameSet]
  /\ payload_bytes_read \in [Sides -> Nat]
  /\ body \in [Streams -> Bodies]
  /\ phase \in [Sides -> [Streams -> Phases]]
  /\ accepted \in [Sides -> [Streams -> Nat]]
  /\ delivered \in [Sides -> [Streams -> Nat]]
  /\ closed \in [Sides -> SUBSET Streams]

RoleOK(x) ==
  LET e == engine[x] IN
  /\ e.role = x
  /\ ~e.bad_preface
  /\ e.local_settings = <<e.initial_window_size>>
  /\ e.state \in IF x = "client" THEN {"idle", "preface_sent"} ELSE {"awaiting_preface", "ready"}

\* A parser is never at the end of its frame.
ReadingOK(x) ==
  IF frame[x] = NoFrame THEN payload_bytes_read[x] = 0 ELSE payload_bytes_read[x] < frame[x].len

\* Nothing happens at the server before the preface, which comes first, and
\* nothing at all before the client opened a stream.
StartOK ==
  /\ engine["server"].state = "awaiting_preface" =>
       /\ frame["server"] = NoFrame
       /\ OnWay("client") = <<>>
       /\ \A x \in Sides : engine[x].event_queue = <<>>
       /\ \A s \in Streams : phase["server"][s] = "none"
       /\ engine["client"].state # "idle" =>
            OnWay("server") # <<>> /\ Head(OnWay("server")).type = "preface"
  /\ engine["client"].state = "idle" =>
       /\ engine["server"].state = "awaiting_preface"
       /\ OnWay("server") = <<>>
       /\ \A s \in Streams : ~Opened(s)

\* What x did on s is what it wrote.
Booked(x, s) ==
  /\ phase[x][s] \in {"none", "open"} => accepted[x][s] = 0
  /\ phase[x][s] \in {"sending", "waiting"} => accepted[x][s] < BodyOf(x, s)
  /\ phase[x][s] = "done" => accepted[x][s] = BodyOf(x, s)

\* What the applications did on s fits together.
PhaseOK(s) ==
  /\ Opened(s) => s \in Nat /\ s < engine["client"].next_stream_id
  /\ phase["server"][s] # "none" => Opened(s)
  /\ \A x \in Sides :
       /\ engine[x].flow[s].tracked => Opened(s)
       /\ Booked(x, s)
       /\ s \in closed[x] => phase[Peer(x)][s] = "done"

\* Every byte that was accepted is delivered, or waits in the queue, or is on
\* its way.
NothingLost(x, s) ==
  accepted[Peer(x)][s] =
    delivered[x][s] + BytesIn(engine[x].event_queue, s) + DataIn(OnWay(x), s)

FramesOK == \A x \in Sides : OnWay(x) \in Seq(GoodFrames(x))
EventsOK == \A x \in Sides : engine[x].event_queue \in Seq(GoodEvents(x))

\* What every step keeps, whatever is sent: types, roles, what may be on its
\* way and in the queues, and that no byte of a body is lost.
Base ==
  /\ Types
  /\ \A x \in Sides : RoleOK(x) /\ ReadingOK(x)
  /\ StartOK
  /\ FramesOK
  /\ EventsOK
  /\ \A s \in Streams : PhaseOK(s)
  /\ \A x \in Sides, s \in Streams : NothingLost(x, s)

\* There are two sides, each the peer of the other.
LEMMA SidesFacts ==
  /\ \A x \in Sides : Peer(x) \in Sides /\ Peer(x) # x /\ Peer(Peer(x)) = x
  /\ \A x \in Sides, y \in Sides : y = x \/ y = Peer(x)
  /\ "client" \in Sides /\ "server" \in Sides
  /\ Peer("client") = "server" /\ Peer("server") = "client"
  BY DEF Sides, Peer

\* A body is two lengths.
LEMMA BodyTypes ==
  ASSUME body \in [Streams -> Bodies], NEW x \in Sides, NEW s \in Streams
  PROVE  BodyOf(x, s) \in Nat
<1>1. body[s] \in Nat \X Nat
  BY BodiesAssumption
<1> QED  BY <1>1 DEF BodyOf

\* An engine as the link configures it.
LEMMA ConfiguredFacts ==
  ASSUME NEW x \in Sides, NEW size \in Nat
  PROVE  LET e == Configured(x, size) IN
         /\ e \in EngineSet /\ e.role = x /\ ~e.bad_preface
         /\ e.initial_window_size = size /\ e.local_settings = <<size>>
         /\ e.state = IF x = "client" THEN "idle" ELSE "awaiting_preface"
         /\ e.pending_out = <<>> /\ e.event_queue = <<>>
         /\ e.connection_recv_window = Window + ConnectionBonus(e)
         /\ e.connection_send_window = Window /\ e.peer_initial_window_size = Window
         /\ \A s \in Streams : /\ ~e.flow[s].tracked
                               /\ StreamSendWindow(e, s) = Window
                               /\ StreamRecv(e, s) = size
<1> DEFINE n == NewEngine(x, FALSE)
           v == n.connection_recv_window + Greatest(size - Window, 0)
           l == Append(n.local_settings, size)
           e == [n EXCEPT !.initial_window_size = size, !.local_settings = l,
                          !.connection_recv_window = v]
<1>1. Configured(x, size) = e
  BY DEF Configured, SetInitialWindowSize
<1>2. Untracked \in StreamState /\ ~Untracked.tracked
  BY DEF Untracked, StreamState
<1>3. [s \in Streams |-> Untracked] \in [Streams -> StreamState]
  BY <1>2
<1>4. n \in EngineSet
  <2>1. <<>> \in Seq(FrameSet) /\ <<>> \in Seq(EventSet) /\ <<>> \in Seq(Nat)
    OBVIOUS
  <2>2. Window \in Nat /\ Window \in Int
    BY WindowAssumption
  <2>3. x \in {"client", "server"}
    BY DEF Sides
  <2> DEFINE fl == [s \in Streams |-> Untracked]
  <2>4. fl \in [Streams -> StreamState]
    BY <1>3
  <2> HIDE DEF fl
  <2> QED  BY <2>1, <2>2, <2>3, <2>4 DEF NewEngine, EngineSet, EngineStates, fl
<1>5. /\ n.role = x /\ ~n.bad_preface /\ n.local_settings = <<>>
      /\ n.state = IF x = "client" THEN "idle" ELSE "awaiting_preface"
      /\ n.pending_out = <<>> /\ n.event_queue = <<>>
      /\ n.connection_recv_window = Window
      /\ n.connection_send_window = Window /\ n.peer_initial_window_size = Window
      /\ \A s \in Streams : ~n.flow[s].tracked
  <2>1. x \in {"client", "server"}
    BY DEF Sides
  <2> QED  BY <1>2, <2>1 DEF NewEngine
<1> HIDE DEF n
<1>6. v = Window + Greatest(size - Window, 0) /\ v \in Int
  <2>1. Window \in Int /\ size - Window \in Int
    BY WindowAssumption
  <2>2. Greatest(size - Window, 0) \in Int
    BY <2>1, LeastGreatest
  <2> QED  BY <1>5, <2>1, <2>2
<1>7. l = <<size>> /\ l \in Seq(Nat)
  BY <1>5
<1> HIDE DEF v, l
<1>8. /\ e \in EngineSet /\ e.initial_window_size = size /\ e.local_settings = l
      /\ e.connection_recv_window = v
      /\ e.role = n.role /\ e.bad_preface = n.bad_preface /\ e.state = n.state
      /\ e.pending_out = n.pending_out /\ e.event_queue = n.event_queue
      /\ e.connection_send_window = n.connection_send_window
      /\ e.peer_initial_window_size = n.peer_initial_window_size
      /\ e.flow = n.flow
  BY <1>4, <1>6, <1>7 DEF EngineSet
<1> HIDE DEF e
<1>9. e.connection_recv_window = Window + ConnectionBonus(e)
  BY <1>6, <1>8 DEF ConnectionBonus
<1>10. ASSUME NEW s \in Streams
       PROVE  /\ ~e.flow[s].tracked
              /\ StreamSendWindow(e, s) = Window /\ StreamRecv(e, s) = size
  <2>1. ~e.flow[s].tracked
    BY <1>5, <1>8
  <2>2. StreamSendWindow(e, s) = Window
    BY <1>5, <1>8, <2>1 DEF StreamSendWindow
  <2>3. StreamRecv(e, s) = size
    BY <1>8, <2>1 DEF StreamRecv, StreamEntry, Untracked
  <2> QED  BY <2>1, <2>2, <2>3
<1> QED  BY <1>1, <1>5, <1>7, <1>8, <1>9, <1>10

----------------------------------------------------------------------------
(* It holds at first.                                                      *)

\* What is on its way: the rest of frame f, of which r bytes were handled, and w.
Way(f, r, w) == (IF f = NoFrame THEN <<>> ELSE <<[f EXCEPT !.len = @ - r]>>) \o w

\* What is on its way, as a function of what is read and what is written.
LEMMA OnWayIs == \A x \in Sides : OnWay(x) = Way(frame[x], payload_bytes_read[x], Incoming(x))
  BY DEF OnWay, Way

\* Nothing is on its way to an engine that waits for nothing.
LEMMA WayEmpty == Way(NoFrame, 0, <<>>) = <<>>
  BY DEF Way

\* The frame that stands for none.
LEMMA NoFrameIs ==
  /\ NoFrame \in FrameSet /\ NoFrame.type = "none" /\ NoFrame.stream = 0 /\ NoFrame.len = 0
  /\ ~NoFrame.end
  BY DEF NoFrame, Frame, FrameSet

\* At first both engines are as they were configured.
LEMMA InitEngines ==
  ASSUME Init
  PROVE  \E sizes \in LocalSizes :
           /\ engine = [client |-> Configured("client", sizes[1]),
                        server |-> Configured("server", sizes[2])]
           /\ sizes[1] \in Nat /\ sizes[2] \in Nat
<1>1. PICK sizes \in LocalSizes :
         engine = [client |-> Configured("client", sizes[1]),
                   server |-> Configured("server", sizes[2])]
  BY DEF Init
<1>2. sizes \in Nat \X Nat
  BY LinkAssumption
<1> QED  BY <1>1, <1>2

\* The two engines at the start.
LEMMA InitSides ==
  ASSUME Init
  PROVE  /\ engine \in [Sides -> EngineSet]
         /\ \A x \in Sides : \E size \in Nat : engine[x] = Configured(x, size)
<1>1. PICK sizes \in LocalSizes :
        /\ engine = [client |-> Configured("client", sizes[1]),
                     server |-> Configured("server", sizes[2])]
        /\ sizes[1] \in Nat /\ sizes[2] \in Nat
  BY InitEngines
<1> DEFINE c == Configured("client", sizes[1])
           d == Configured("server", sizes[2])
<1>2. c \in EngineSet /\ d \in EngineSet
  BY <1>1, ConfiguredFacts, SidesFacts
<1>3. engine = [client |-> c, server |-> d]
  BY <1>1
<1> HIDE DEF c, d
<1>4. engine["client"] = c /\ engine["server"] = d
  BY <1>3
<1>5. engine \in [Sides -> EngineSet]
  BY <1>2, <1>3 DEF Sides
<1>6. engine["client"] = Configured("client", sizes[1])
      /\ engine["server"] = Configured("server", sizes[2])
  BY <1>4 DEF c, d
<1>7. ASSUME NEW x \in Sides
      PROVE  \E size \in Nat : engine[x] = Configured(x, size)
  BY <1>1, <1>6 DEF Sides
<1> QED  BY <1>5, <1>7

\* What Init says of each side.
LEMMA InitFacts ==
  ASSUME Init, NEW x \in Sides
  PROVE  LET e == engine[x] IN
         /\ e \in EngineSet /\ e.role = x /\ ~e.bad_preface
         /\ e.local_settings = <<e.initial_window_size>>
         /\ e.state = IF x = "client" THEN "idle" ELSE "awaiting_preface"
         /\ e.pending_out = <<>> /\ e.event_queue = <<>>
         /\ e.connection_recv_window = Window + ConnectionBonus(e)
         /\ e.connection_send_window = Window /\ e.peer_initial_window_size = Window
         /\ \A s \in Streams : /\ ~e.flow[s].tracked
                               /\ StreamSendWindow(e, s) = Window
                               /\ StreamRecv(e, s) = e.initial_window_size
<1>1. PICK size \in Nat : engine[x] = Configured(x, size)
  BY InitSides
<1> DEFINE e == Configured(x, size)
<1>2. /\ e \in EngineSet /\ e.role = x /\ ~e.bad_preface
      /\ e.initial_window_size = size /\ e.local_settings = <<size>>
      /\ e.state = IF x = "client" THEN "idle" ELSE "awaiting_preface"
      /\ e.pending_out = <<>> /\ e.event_queue = <<>>
      /\ e.connection_recv_window = Window + ConnectionBonus(e)
      /\ e.connection_send_window = Window /\ e.peer_initial_window_size = Window
      /\ \A s \in Streams : /\ ~e.flow[s].tracked
                            /\ StreamSendWindow(e, s) = Window
                            /\ StreamRecv(e, s) = size
  BY ConfiguredFacts
<1>3. engine[x] = e
  BY <1>1
<1> HIDE DEF e
<1> QED  BY <1>2, <1>3

\* Nothing is on its way.
LEMMA InitWay ==
  ASSUME Init
  PROVE  \A x \in Sides : OnWay(x) = <<>>
<1>1. ASSUME NEW x \in Sides
      PROVE  OnWay(x) = <<>>
  <2>1. frame[x] = NoFrame /\ payload_bytes_read[x] = 0
    BY DEF Init
  <2>2. Peer(x) \in Sides
    BY SidesFacts
  <2>3. Incoming(x) = <<>>
    BY <2>2, InitFacts DEF Incoming
  <2> QED  BY <2>1, <2>3, OnWayIs, WayEmpty
<1> QED  BY <1>1

\* Base holds at the start.
LEMMA InitBase == Init => Base
<1> SUFFICES ASSUME Init
             PROVE  Base
  OBVIOUS
<1>1. Types
  <2>1. engine \in [Sides -> EngineSet]
    BY InitSides
  <2>2. /\ frame = [x \in Sides |-> NoFrame]
        /\ payload_bytes_read = [x \in Sides |-> 0]
        /\ body \in [Streams -> Bodies]
        /\ phase = [x \in Sides |-> [s \in Streams |-> "none"]]
        /\ accepted = [x \in Sides |-> [s \in Streams |-> 0]]
        /\ delivered = [x \in Sides |-> [s \in Streams |-> 0]]
        /\ closed = [x \in Sides |-> {}]
    BY DEF Init
  <2>3. frame \in [Sides -> FrameSet]
    BY <2>2, NoFrameIs
  <2>4. phase \in [Sides -> [Streams -> Phases]]
    BY <2>2 DEF Phases
  <2> QED  BY <2>1, <2>2, <2>3, <2>4 DEF Types
<1>2. /\ frame = [x \in Sides |-> NoFrame]
      /\ payload_bytes_read = [x \in Sides |-> 0]
      /\ \A x \in Sides, s \in Streams :
           phase[x][s] = "none" /\ accepted[x][s] = 0 /\ delivered[x][s] = 0
      /\ \A x \in Sides : closed[x] = {}
  BY DEF Init
<1>3. ASSUME NEW x \in Sides
      PROVE  RoleOK(x) /\ ReadingOK(x)
  <2>1. RoleOK(x)
    BY InitFacts DEF RoleOK
  <2>2. ReadingOK(x)
    BY <1>2 DEF ReadingOK
  <2> QED  BY <2>1, <2>2
<1>4. StartOK
  <2>1. "client" \in Sides /\ "server" \in Sides
    BY SidesFacts
  <2>2. engine["client"].state = "idle" /\ engine["server"].state = "awaiting_preface"
    BY <2>1, InitFacts
  <2>3. OnWay("client") = <<>> /\ OnWay("server") = <<>>
    BY <2>1, InitWay
  <2>4. \A x \in Sides : engine[x].event_queue = <<>>
    BY InitFacts
  <2>5. frame["server"] = NoFrame
    BY <1>2, <2>1
  <2> QED  BY <1>2, <2>1, <2>2, <2>3, <2>4, <2>5 DEF StartOK, Opened
<1>5. FramesOK
  <2>1. \A T : <<>> \in Seq(T)
    OBVIOUS
  <2> QED  BY <2>1, InitWay DEF FramesOK
<1>6. EventsOK
  <2>1. \A T : <<>> \in Seq(T)
    OBVIOUS
  <2> QED  BY <2>1, InitFacts DEF EventsOK
<1>7. ASSUME NEW s \in Streams
      PROVE  PhaseOK(s)
  <2>1. "client" \in Sides /\ "server" \in Sides
    BY SidesFacts
  <2>2. ~Opened(s) /\ phase["server"][s] = "none"
    BY <1>2, <2>1 DEF Opened
  <2>3. \A x \in Sides : ~engine[x].flow[s].tracked
    BY InitFacts
  <2> QED  BY <1>2, <2>2, <2>3 DEF PhaseOK, Booked
<1>8. ASSUME NEW x \in Sides, NEW s \in Streams
      PROVE  NothingLost(x, s)
  <2>1. Peer(x) \in Sides
    BY SidesFacts
  <2>2. accepted[Peer(x)][s] = 0 /\ delivered[x][s] = 0
    BY <1>2, <2>1
  <2>3. engine[x].event_queue = <<>> /\ OnWay(x) = <<>>
    BY InitFacts, InitWay
  <2>4. BytesIn(<<>>, s) = 0 /\ DataIn(<<>>, s) = 0
    BY BytesInFacts, DataInFacts
  <2> QED  BY <2>2, <2>3, <2>4 DEF NothingLost
<1> QED  BY <1>1, <1>3, <1>4, <1>5, <1>6, <1>7, <1>8 DEF Base

----------------------------------------------------------------------------
(* What is on its way, step by step.                                       *)

\* f, of which r bytes were handled.
RestOf(f, r) == [f EXCEPT !.len = @ - r]

\* The rest of a frame is that frame, shorter.
LEMMA RestIs ==
  ASSUME NEW f \in FrameSet, NEW r \in Nat, r <= f.len
  PROVE  LET g == RestOf(f, r) IN
         /\ g \in FrameSet /\ g.type = f.type /\ g.stream = f.stream /\ g.end = f.end
         /\ g.val = f.val /\ g.len = f.len - r
  BY DEF RestOf, FrameSet

\* The rest of the frame that is being read.
Current(f, r) == IF f = NoFrame THEN <<>> ELSE <<RestOf(f, r)>>

\* What is on its way begins with the rest of the frame being read.
LEMMA WayIs == \A f, r, w : Way(f, r, w) = Current(f, r) \o w
  BY DEF Way, Current, RestOf

\* The frame being read is at most one frame.
LEMMA CurrentType ==
  ASSUME NEW f \in FrameSet, NEW r \in Nat, r <= f.len
  PROVE  Current(f, r) \in Seq(FrameSet)
<1> DEFINE g == RestOf(f, r)
<1>1. g \in FrameSet
  BY RestIs
<1> HIDE DEF g
<1>2. <<>> \in Seq(FrameSet) /\ <<g>> \in Seq(FrameSet)
  BY <1>1
<1>3. Current(f, r) = <<>> \/ Current(f, r) = <<g>>
  BY DEF Current, g
<1> QED  BY <1>2, <1>3

\* Frames are appended to it.
LEMMA WayGrows ==
  ASSUME NEW f \in FrameSet, NEW r \in Nat, r <= f.len,
         NEW w \in Seq(FrameSet), NEW out \in Seq(FrameSet)
  PROVE  Way(f, r, w \o out) = Way(f, r, w) \o out
<1> DEFINE c == Current(f, r)
<1>1. c \in Seq(FrameSet)
  BY CurrentType
<1> HIDE DEF c
<1>2. (c \o w) \o out = c \o (w \o out)
  BY <1>1, Regroup
<1>3. Way(f, r, w \o out) = c \o (w \o out) /\ Way(f, r, w) = c \o w
  BY WayIs DEF c
<1> QED  BY <1>2, <1>3

\* What is on its way is a sequence of frames.
LEMMA WayType ==
  ASSUME NEW f \in FrameSet, NEW r \in Nat, r <= f.len, NEW w \in Seq(FrameSet)
  PROVE  Way(f, r, w) \in Seq(FrameSet)
<1> DEFINE c == Current(f, r)
<1>1. c \in Seq(FrameSet)
  BY CurrentType
<1> HIDE DEF c
<1>2. c \o w \in Seq(FrameSet)
  BY <1>1
<1> QED  BY <1>2, WayIs DEF c

\* Between frames it is what the peer has written.
LEMMA WayBetween ==
  ASSUME NEW w \in Seq(FrameSet)
  PROVE  Way(NoFrame, 0, w) = w
<1>1. <<>> \o w = w
  OBVIOUS
<1> QED  BY <1>1 DEF Way

\* The header of a frame with a payload takes nothing from it.
LEMMA WayHeader ==
  ASSUME NEW w \in Seq(FrameSet), w # <<>>, Head(w).len # 0
  PROVE  Head(w) # NoFrame /\ Way(Head(w), 0, Tail(w)) = w
<1> DEFINE f == Head(w)
<1>1. f \in FrameSet
  OBVIOUS
<1>2. f # NoFrame
  BY NoFrameIs
<1>3. RestOf(f, 0) = f
  BY <1>1 DEF RestOf, FrameSet
<1>4. <<f>> \o Tail(w) = w
  OBVIOUS
<1>5. Current(f, 0) = <<f>>
  BY <1>2, <1>3 DEF Current
<1> QED  BY <1>2, <1>4, <1>5, WayIs

\* w is v after n bytes of its first frame were handled.
Shortened(v, w, n) ==
  w = IF n = Head(v).len THEN Tail(v) ELSE <<RestOf(Head(v), n)>> \o Tail(v)

\* Reading n bytes shortens what is on its way by n bytes.
LEMMA WayReading ==
  ASSUME NEW f \in FrameSet, f # NoFrame, NEW r \in Nat, NEW n \in Nat, r + n <= f.len,
         NEW w \in Seq(FrameSet)
  PROVE  LET v == Way(f, r, w) IN
         /\ v # <<>> /\ Head(v) = RestOf(f, r)
         /\ Shortened(v, IF r + n = f.len THEN Way(NoFrame, 0, w) ELSE Way(f, r + n, w), n)
<1> DEFINE g == RestOf(f, r)
           v == Way(f, r, w)
<1>0. f.len \in Nat /\ r <= f.len
  BY DEF FrameSet
<1>1. g \in FrameSet /\ g.len = f.len - r
  BY <1>0, RestIs
<1>2. v = <<g>> \o w
  BY WayIs DEF Current
<1>3. RestOf(g, n) = RestOf(f, r + n)
  <2>1. (f.len - r) - n = f.len - (r + n)
    BY <1>0
  <2>2. RestOf(g, n) = [f EXCEPT !.len = (f.len - r) - n]
    BY DEF RestOf, FrameSet
  <2>3. RestOf(f, r + n) = [f EXCEPT !.len = f.len - (r + n)]
    BY DEF RestOf
  <2> QED  BY <2>1, <2>2, <2>3
<1>4. n = g.len <=> r + n = f.len
  BY <1>1 DEF FrameSet
<1>5. Way(f, r + n, w) = <<RestOf(g, n)>> \o w
  BY <1>3, WayIs DEF Current
<1>6. Way(NoFrame, 0, w) = w
  BY WayBetween
<1> HIDE DEF g
<1>7. v # <<>> /\ Head(v) = g /\ Tail(v) = w
  BY <1>1, <1>2
<1> HIDE DEF v
<1>8. CASE r + n = f.len
  BY <1>4, <1>6, <1>7, <1>8 DEF Shortened, v, g
<1>9. CASE r + n # f.len
  BY <1>4, <1>5, <1>7, <1>9 DEF Shortened, v, g
<1> QED  BY <1>8, <1>9

\* What the rest carries.
LEMMA ShortenedCarries ==
  ASSUME NEW v \in Seq(FrameSet), v # <<>>, NEW w, NEW n \in Nat, n <= Head(v).len,
         Shortened(v, w, n), n # Head(v).len => Head(v).type # "window_update"
  PROVE  /\ w \in Seq(FrameSet)
         /\ \A t \in Streams \union {0} :
              /\ DataIn(v, t) =
                   DataIn(w, t) + IF Head(v).type = "data" /\ t \in {0, Head(v).stream} THEN n ELSE 0
              /\ CreditIn(v, t) = CreditIn(w, t) + CreditOf(Head(v), t)
<1> DEFINE h == Head(v)
           k == Tail(v)
           g == RestOf(h, n)
<1>1. h \in FrameSet /\ k \in Seq(FrameSet)
  OBVIOUS
<1>2. /\ g \in FrameSet /\ g.type = h.type /\ g.stream = h.stream /\ g.len = h.len - n
      /\ g.val = h.val
  BY <1>1, RestIs
<1>3. w = IF n = h.len THEN k ELSE <<g>> \o k
  BY DEF Shortened
<1> HIDE DEF g
<1>4. <<g>> \in Seq(FrameSet) /\ <<g>> \o k \in Seq(FrameSet)
  BY <1>1, <1>2
<1>5. w \in Seq(FrameSet)
  BY <1>1, <1>3, <1>4
<1>6. ASSUME NEW t \in Streams \union {0}
      PROVE  /\ DataIn(v, t) =
                  DataIn(w, t) + IF h.type = "data" /\ t \in {0, h.stream} THEN n ELSE 0
             /\ CreditIn(v, t) = CreditIn(w, t) + CreditOf(h, t)
  <2>1. DataIn(v, t) = DataOf(h, t) + DataIn(k, t) /\ DataIn(k, t) \in Nat
    BY <1>1, DataInFacts
  <2>2. CreditIn(v, t) = CreditOf(h, t) + CreditIn(k, t) /\ CreditIn(k, t) \in Nat
    BY <1>1, CreditInFacts
  <2> HIDE DEF k
  <2>3. DataIn(<<g>> \o k, t) = DataOf(g, t) + DataIn(k, t)
    <3>1. DataIn(<<g>> \o k, t) = DataIn(<<g>>, t) + DataIn(k, t)
      BY <1>1, <1>4, DataInFacts
    <3>2. DataIn(<<g>>, t) = DataOf(g, t)
      BY <1>2, DataInFacts
    <3> QED  BY <3>1, <3>2
  <2>4. CreditIn(<<g>> \o k, t) = CreditOf(g, t) + CreditIn(k, t)
    <3>1. CreditIn(<<g>> \o k, t) = CreditIn(<<g>>, t) + CreditIn(k, t)
      BY <1>1, <1>4, CreditInFacts
    <3>2. CreditIn(<<g>>, t) = CreditOf(g, t)
      BY <1>2, CreditInFacts
    <3> QED  BY <3>1, <3>2
  <2>5. h.len \in Nat /\ h.val \in Nat
    BY <1>1 DEF FrameSet
  <2>6. DataOf(h, t) = DataOf(g, t) + IF h.type = "data" /\ t \in {0, h.stream} THEN n ELSE 0
    BY <1>2, <2>5 DEF DataOf
  <2>7. CreditOf(g, t) = CreditOf(h, t) /\ CreditOf(h, t) \in Nat /\ DataOf(h, t) \in Nat
        /\ DataOf(g, t) \in Nat
    BY <1>2, <2>5 DEF CreditOf, DataOf
  <2>8. n # h.len => CreditOf(h, t) = 0
    BY DEF CreditOf
  <2>9. n = h.len => DataOf(h, t) = IF h.type = "data" /\ t \in {0, h.stream} THEN n ELSE 0
    BY DEF DataOf
  <2> DEFINE d == IF h.type = "data" /\ t \in {0, h.stream} THEN n ELSE 0
  <2>10. d \in Nat
    OBVIOUS
  <2> HIDE DEF d, h
  <2>11. CASE n = h.len
    <3>1. w = k
      BY <1>3, <2>11
    <3> QED  BY <2>1, <2>2, <2>7, <2>9, <2>10, <2>11, <3>1 DEF d
  <2>12. CASE n # h.len
    <3>1. w = <<g>> \o k
      BY <1>3, <2>12
    <3> QED  BY <2>1, <2>2, <2>3, <2>4, <2>6, <2>7, <2>8, <2>10, <2>12, <3>1 DEF d
  <2> QED  BY <2>11, <2>12
<1> QED  BY <1>5, <1>6

----------------------------------------------------------------------------
(* What every step keeps.                                                  *)

\* No step undoes what an application did, or changes a configuration.
Progress ==
  /\ body' = body
  /\ \A x \in Sides : Settled(engine[x], engine'[x])
  /\ \A x \in Sides, s \in Streams :
       /\ phase[x][s] = "done" => phase'[x][s] = "done"
       /\ phase[x][s] # "none" => phase'[x][s] # "none"

\* What was good to have on the way, or in a queue, still is.
LEMMA GoodGrow ==
  ASSUME Types, Progress, NEW x \in Sides
  PROVE  GoodFrames(x) \subseteq GoodFrames(x)' /\ GoodEvents(x) \subseteq GoodEvents(x)'
<1>1. Peer(x) \in Sides /\ "client" \in Sides
  BY SidesFacts
<1>2. engine'[Peer(x)].initial_window_size = engine[Peer(x)].initial_window_size
  BY <1>1 DEF Progress, Settled
<1>3. \A y \in Sides, s \in Streams : BodyOf(y, s)' = BodyOf(y, s)
  BY DEF Progress, BodyOf
<1>4. \A s \in Streams : Opened(s) => Opened(s)'
  BY <1>1 DEF Progress, Opened
<1>5. \A s \in Streams : phase[Peer(x)][s] = "done" => phase'[Peer(x)][s] = "done"
  BY <1>1 DEF Progress
<1>6. ASSUME NEW f \in FrameSet, GoodFrame(x, f)
      PROVE  GoodFrame(x, f)'
  <2>1. f.stream # 0 => f.stream \in Streams
    BY DEF FrameSet
  <2>2. \/ f.type = "preface" /\ f.stream = 0 /\ f.len = 0
        \/ /\ f.type = "settings" /\ f.stream = 0 /\ f.len = 1
           /\ f.val = engine[Peer(x)].initial_window_size
        \/ f.type = "settings_ack" /\ f.stream = 0 /\ f.len = 0
        \/ f.type = "headers" /\ f.stream \in Streams /\ f.len \in 1 .. 2
        \/ /\ f.type = "data" /\ f.stream \in Streams /\ f.len \in 1 .. MaxFrame
           /\ BodyOf(Peer(x), f.stream) > 0
        \/ /\ f.type = "window_update" /\ f.len = 1 /\ f.val > 0
           /\ f.stream # 0 => BodyOf(x, f.stream) > 0
    BY <1>6 DEF GoodFrame
  <2>3. \/ f.type = "preface" /\ f.stream = 0 /\ f.len = 0
        \/ /\ f.type = "settings" /\ f.stream = 0 /\ f.len = 1
           /\ f.val = engine'[Peer(x)].initial_window_size
        \/ f.type = "settings_ack" /\ f.stream = 0 /\ f.len = 0
        \/ f.type = "headers" /\ f.stream \in Streams /\ f.len \in 1 .. 2
        \/ /\ f.type = "data" /\ f.stream \in Streams /\ f.len \in 1 .. MaxFrame
           /\ BodyOf(Peer(x), f.stream)' > 0
        \/ /\ f.type = "window_update" /\ f.len = 1 /\ f.val > 0
           /\ f.stream # 0 => BodyOf(x, f.stream)' > 0
    BY <1>1, <1>2, <1>3, <2>1, <2>2
  <2>4. f.end => Content(f) /\ f.stream \in Streams /\ phase[Peer(x)][f.stream] = "done"
    BY <1>6, <2>2 DEF GoodFrame, Content
  <2>5. f.end => Content(f) /\ phase'[Peer(x)][f.stream] = "done"
    BY <1>5, <2>4
  <2>6. f.stream # 0 => Opened(f.stream)'
    BY <1>4, <1>6, <2>1 DEF GoodFrame
  <2> QED  BY <2>3, <2>5, <2>6 DEF GoodFrame, Content
<1>7. ASSUME NEW v \in EventSet, GoodEvent(x, v)
      PROVE  GoodEvent(x, v)'
  <2>1. v.stream # 0 => v.stream \in Streams
    BY DEF EventSet
  <2>2. v.type = "stream_closed" => v.stream \in Streams /\ phase[Peer(x)][v.stream] = "done"
    BY <1>7, <2>1 DEF GoodEvent
  <2>3. v.type = "stream_closed" => phase'[Peer(x)][v.stream] = "done"
    BY <1>5, <2>2
  <2>4. v.stream # 0 => Opened(v.stream)'
    BY <1>4, <1>7, <2>1 DEF GoodEvent
  <2> QED  BY <1>7, <2>3, <2>4 DEF GoodEvent
<1> QED  BY <1>6, <1>7 DEF GoodFrames, GoodEvents

\* A sequence of a set is one of any larger set.
LEMMA SeqGrow == \A S : \A q \in Seq(S) : \A T : S \subseteq T => q \in Seq(T)
  OBVIOUS

\* z wrote frames, which are on their way to its peer.
Appends(z, out) ==
  out \in Seq(FrameSet) /\ OnWay(Peer(z))' = OnWay(Peer(z)) \o out

\* Good frames stay good, and those added are.
LEMMA FramesKept ==
  ASSUME Types, Progress, FramesOK, NEW z \in Sides, NEW out, Appends(z, out),
         out \in Seq(GoodFrames(Peer(z))'), OnWay(z)' \in Seq(GoodFrames(z)')
  PROVE  FramesOK'
<1>1. Peer(z) \in Sides
  BY SidesFacts
<1> DEFINE G == GoodFrames(Peer(z))'
           v == OnWay(Peer(z))
<1>2. v \in Seq(G)
  <2>1. v \in Seq(GoodFrames(Peer(z)))
    BY <1>1 DEF FramesOK
  <2>2. GoodFrames(Peer(z)) \subseteq G
    BY <1>1, GoodGrow
  <2> HIDE DEF G, v
  <2> QED  BY <2>1, <2>2, SeqGrow
<1>3. out \in Seq(G)
  OBVIOUS
<1>4. OnWay(Peer(z))' = v \o out
  BY DEF Appends
<1> HIDE DEF G, v
<1>5. v \o out \in Seq(G)
  BY <1>2, <1>3
<1>6. OnWay(Peer(z))' \in Seq(GoodFrames(Peer(z))')
  BY <1>4, <1>5 DEF G
<1>7. ASSUME NEW x \in Sides
      PROVE  OnWay(x)' \in Seq(GoodFrames(x)')
  <2>1. x = z \/ x = Peer(z)
    BY SidesFacts
  <2> QED  BY <1>6, <2>1
<1> QED  BY <1>7 DEF FramesOK

\* Good events stay good, and those added are.
LEMMA EventsKept ==
  ASSUME Types, Progress, EventsOK, NEW z \in Sides,
         engine'[Peer(z)].event_queue = engine[Peer(z)].event_queue,
         engine'[z].event_queue \in Seq(GoodEvents(z)')
  PROVE  EventsOK'
<1>1. Peer(z) \in Sides
  BY SidesFacts
<1>2. engine[Peer(z)].event_queue \in Seq(GoodEvents(Peer(z)))
  BY <1>1 DEF EventsOK
<1>3. GoodEvents(Peer(z)) \subseteq GoodEvents(Peer(z))'
  BY <1>1, GoodGrow
<1>4. engine'[Peer(z)].event_queue \in Seq(GoodEvents(Peer(z))')
  BY <1>2, <1>3, SeqGrow
<1>5. ASSUME NEW x \in Sides
      PROVE  engine'[x].event_queue \in Seq(GoodEvents(x)')
  <2>1. x = z \/ x = Peer(z)
    BY SidesFacts
  <2> QED  BY <1>4, <2>1
<1> QED  BY <1>5 DEF EventsOK

\* Bytes are accepted on z as they are written, and at z as they are taken
\* from one place they are put in the next.
LEMMA LostKept ==
  ASSUME Types, FramesOK, NEW z \in Sides, NEW s \in Streams, NEW out, Appends(z, out),
         NothingLost(z, s), NothingLost(Peer(z), s),
         OnWay(Peer(z)) \in Seq(FrameSet),
         engine'[Peer(z)].event_queue = engine[Peer(z)].event_queue,
         accepted[z][s] \in Nat, delivered[Peer(z)][s] \in Nat,
         BytesIn(engine[Peer(z)].event_queue, s) \in Nat,
         accepted'[z][s] = accepted[z][s] + DataIn(out, s),
         accepted'[Peer(z)][s] = accepted[Peer(z)][s],
         delivered'[Peer(z)][s] = delivered[Peer(z)][s],
         delivered'[z][s] + BytesIn(engine'[z].event_queue, s) + DataIn(OnWay(z)', s)
           = delivered[z][s] + BytesIn(engine[z].event_queue, s) + DataIn(OnWay(z), s)
  PROVE  \A x \in Sides : NothingLost(x, s)'
<1>1. Peer(z) \in Sides /\ Peer(Peer(z)) = z
  BY SidesFacts
<1>2. NothingLost(z, s)'
  BY DEF NothingLost
<1>3. NothingLost(Peer(z), s)'
  <2> DEFINE v == OnWay(Peer(z))
  <2>1. OnWay(Peer(z))' = v \o out /\ out \in Seq(FrameSet) /\ v \in Seq(FrameSet)
    BY DEF Appends
  <2> HIDE DEF v
  <2>2. /\ DataIn(v \o out, s) = DataIn(v, s) + DataIn(out, s)
        /\ DataIn(v, s) \in Nat /\ DataIn(out, s) \in Nat
    BY <2>1, DataInFacts
  <2>3. DataIn(OnWay(Peer(z))', s) = DataIn(v, s) + DataIn(out, s)
    BY <2>1, <2>2
  <2>4. accepted[z][s] = delivered[Peer(z)][s] + BytesIn(engine[Peer(z)].event_queue, s)
                           + DataIn(v, s)
    BY <1>1 DEF NothingLost, v
  <2>5. accepted'[z][s] = delivered'[Peer(z)][s] + BytesIn(engine'[Peer(z)].event_queue, s)
                            + DataIn(OnWay(Peer(z))', s)
    BY <2>2, <2>3, <2>4
  <2> QED  BY <1>1, <2>5 DEF NothingLost
<1>4. \A x \in Sides : x = z \/ x = Peer(z)
  BY SidesFacts
<1> QED  BY <1>2, <1>3, <1>4

\* The types that the steps need.
LEMMA BaseTypes ==
  ASSUME Base, NEW x \in Sides
  PROVE  /\ engine[x] \in EngineSet /\ frame[x] \in FrameSet
         /\ payload_bytes_read[x] \in Nat /\ payload_bytes_read[x] <= frame[x].len
         /\ engine[x].pending_out \in Seq(FrameSet) /\ engine[x].event_queue \in Seq(EventSet)
         /\ Incoming(x) \in Seq(FrameSet) /\ OnWay(x) \in Seq(FrameSet)
         /\ \A s \in Streams : /\ phase[x][s] \in Phases /\ accepted[x][s] \in Nat
                               /\ delivered[x][s] \in Nat /\ BodyOf(x, s) \in Nat
                               /\ BytesIn(engine[x].event_queue, s) \in Nat
<1>1. Peer(x) \in Sides
  BY SidesFacts
<1>2. Types /\ ReadingOK(x)
  BY DEF Base
<1>3. engine[x] \in EngineSet /\ engine[Peer(x)] \in EngineSet /\ frame[x] \in FrameSet
      /\ payload_bytes_read[x] \in Nat
  BY <1>1, <1>2 DEF Types
<1>4. \A e \in EngineSet : e.pending_out \in Seq(FrameSet) /\ e.event_queue \in Seq(EventSet)
  BY DEF EngineSet
<1>5. Incoming(x) \in Seq(FrameSet)
  BY <1>3, <1>4 DEF Incoming
<1>6. payload_bytes_read[x] <= frame[x].len
  BY <1>2, <1>3, NoFrameIs DEF ReadingOK, FrameSet
<1>7. OnWay(x) \in Seq(FrameSet)
  BY <1>3, <1>5, <1>6, WayType, OnWayIs
<1>8. ASSUME NEW s \in Streams
      PROVE  /\ phase[x][s] \in Phases /\ accepted[x][s] \in Nat /\ delivered[x][s] \in Nat
             /\ BodyOf(x, s) \in Nat /\ BytesIn(engine[x].event_queue, s) \in Nat
  <2>1. phase[x][s] \in Phases /\ accepted[x][s] \in Nat /\ delivered[x][s] \in Nat
    BY <1>2 DEF Types
  <2>2. BodyOf(x, s) \in Nat
    BY <1>2, BodyTypes DEF Types
  <2>3. BytesIn(engine[x].event_queue, s) \in Nat
    BY <1>3, <1>4, BytesInFacts
  <2> QED  BY <2>1, <2>2, <2>3
<1> QED  BY <1>3, <1>4, <1>5, <1>6, <1>7, <1>8

----------------------------------------------------------------------------
(* The calls of the applications.                                          *)

\* z called its engine, which wrote frames; no payload was read.
Calls(z, out) ==
  /\ engine' \in [Sides -> EngineSet] /\ out \in Seq(FrameSet)
  /\ engine'[Peer(z)] = engine[Peer(z)]
  /\ engine'[z].pending_out = engine[z].pending_out \o out
  /\ UNCHANGED <<frame, payload_bytes_read, body>>

\* The calling engine is the one that changes.
LEMMA OneEngine ==
  ASSUME NEW z \in Sides, engine \in [Sides -> EngineSet], NEW g \in EngineSet,
         engine' = [engine EXCEPT ![z] = g]
  PROVE  engine' \in [Sides -> EngineSet] /\ engine'[z] = g /\ engine'[Peer(z)] = engine[Peer(z)]
  BY SidesFacts

\* A call only appends to what is on its way to the peer.
LEMMA CallMoves ==
  ASSUME Base, NEW z \in Sides, NEW out, Calls(z, out)
  PROVE  Appends(z, out) /\ OnWay(z)' = OnWay(z)
<1>1. Peer(z) \in Sides /\ Peer(Peer(z)) = z
  BY SidesFacts
<1>2. Incoming(Peer(z))' = Incoming(Peer(z)) \o out /\ Incoming(z)' = Incoming(z)
  BY <1>1 DEF Calls, Incoming
<1>3. frame' = frame /\ payload_bytes_read' = payload_bytes_read /\ out \in Seq(FrameSet)
  BY DEF Calls
<1>4. OnWay(z)' = OnWay(z)
  BY <1>2, <1>3 DEF OnWay
<1> DEFINE f == frame[Peer(z)]
           r == payload_bytes_read[Peer(z)]
           w == Incoming(Peer(z))
<1>5. f \in FrameSet /\ r \in Nat /\ r <= f.len /\ w \in Seq(FrameSet)
  BY <1>1, BaseTypes
<1>6. OnWay(Peer(z)) = Way(f, r, w)
  BY <1>1, OnWayIs
<1>7. OnWay(Peer(z))' = Way(f, r, w \o out)
  BY <1>1, <1>2, <1>3 DEF OnWay, Way
<1> HIDE DEF f, r, w
<1>8. Way(f, r, w \o out) = Way(f, r, w) \o out
  BY <1>3, <1>5, WayGrows
<1> QED  BY <1>3, <1>4, <1>6, <1>7, <1>8 DEF Appends

\* An engine keeps its role and its configuration.
LEMMA RoleKept ==
  ASSUME NEW x \in Sides, RoleOK(x), Settled(engine[x], engine'[x]),
         engine'[x].state \in
           IF x = "client" THEN {"idle", "preface_sent"} ELSE {"awaiting_preface", "ready"}
  PROVE  RoleOK(x)'
  BY DEF RoleOK, Settled

\* The settings say what the engine was configured with.
LEMMA HelloGood ==
  ASSUME Base, NEW z \in Sides
  PROVE  LET e == engine[z] IN
         /\ Hello(e) \in Seq(GoodFrames(Peer(z)))
         /\ \A t \in Streams \union {0} :
              /\ DataIn(Hello(e), t) = 0
              /\ CreditIn(Hello(e), t) = IF t = 0 THEN ConnectionBonus(e) ELSE 0
<1> DEFINE e == engine[z]
           f == Settings(e.local_settings)
           b == ConnectionBonus(e)
           u == WindowUpdate(0, b)
<1>1. Peer(z) \in Sides /\ Peer(Peer(z)) = z
  BY SidesFacts
<1>2. e.local_settings = <<e.initial_window_size>> /\ e.initial_window_size \in Nat
  <2>1. RoleOK(z)
    BY DEF Base
  <2>2. e \in EngineSet
    BY BaseTypes
  <2> QED  BY <2>1, <2>2 DEF RoleOK, EngineSet
<1>3. /\ f.type = "settings" /\ f.stream = 0 /\ f.len = 1 /\ ~f.end
      /\ f.val = e.initial_window_size /\ f \in FrameSet
  BY <1>2 DEF Settings, Frame, FrameSet, FrameTypes
<1>4. b \in Nat
  <2>1. Window \in Int
    BY WindowAssumption
  <2>2. e.initial_window_size - Window \in Int
    BY <1>2, <2>1
  <2> DEFINE d == e.initial_window_size - Window
  <2>3. Greatest(d, 0) \in Int /\ Greatest(d, 0) >= 0
    BY <2>2 DEF Greatest
  <2> QED  BY <2>3 DEF ConnectionBonus
<1> HIDE DEF b
<1>5. /\ u.type = "window_update" /\ u.stream = 0 /\ u.len = 1 /\ ~u.end
      /\ u.val = b /\ u \in FrameSet
  BY <1>4 DEF WindowUpdate, Frame, FrameSet, FrameTypes
<1>6. Hello(e) = <<f>> \o IF b > 0 THEN <<u>> ELSE <<>>
  BY DEF Hello, b
<1> HIDE DEF f, u
<1>7. f \in GoodFrames(Peer(z))
  BY <1>1, <1>3 DEF GoodFrames, GoodFrame
<1>8. b > 0 => u \in GoodFrames(Peer(z))
  BY <1>5 DEF GoodFrames, GoodFrame
<1>9. <<f>> \in Seq(FrameSet) /\ <<u>> \in Seq(FrameSet) /\ <<>> \in Seq(FrameSet)
  BY <1>3, <1>5
<1>10. ASSUME NEW t \in Streams \union {0}
       PROVE  /\ DataIn(Hello(e), t) = 0
              /\ CreditIn(Hello(e), t) = IF t = 0 THEN b ELSE 0
  <2>1. /\ DataIn(<<f>>, t) = 0 /\ CreditIn(<<f>>, t) = 0
        /\ DataIn(<<u>>, t) = 0 /\ CreditIn(<<u>>, t) = IF t = 0 THEN b ELSE 0
    <3>1. DataOf(f, t) = 0 /\ CreditOf(f, t) = 0
      BY <1>3 DEF DataOf, CreditOf
    <3>2. DataOf(u, t) = 0 /\ CreditOf(u, t) = IF t = 0 THEN b ELSE 0
      BY <1>5 DEF DataOf, CreditOf
    <3>3. DataIn(<<f>>, t) = DataOf(f, t) /\ DataIn(<<u>>, t) = DataOf(u, t)
      BY <1>3, <1>5, DataInFacts
    <3>4. CreditIn(<<f>>, t) = CreditOf(f, t) /\ CreditIn(<<u>>, t) = CreditOf(u, t)
      BY <1>3, <1>5, CreditInFacts
    <3> QED  BY <3>1, <3>2, <3>3, <3>4
  <2>2. DataIn(<<f>> \o <<u>>, t) = DataIn(<<f>>, t) + DataIn(<<u>>, t)
    BY <1>9, DataInFacts
  <2>3. CreditIn(<<f>> \o <<u>>, t) = CreditIn(<<f>>, t) + CreditIn(<<u>>, t)
    BY <1>9, CreditInFacts
  <2>4. <<f>> \o <<>> = <<f>>
    OBVIOUS
  <2>5. CASE b > 0
    <3>1. Hello(e) = <<f>> \o <<u>>
      BY <1>6, <2>5
    <3> QED  BY <1>4, <2>1, <2>2, <2>3, <3>1
  <2>6. CASE ~(b > 0)
    <3>1. Hello(e) = <<f>>
      BY <1>6, <2>4, <2>6
    <3> QED  BY <1>4, <2>1, <2>6, <3>1
  <2> QED  BY <2>5, <2>6
<1> DEFINE G == GoodFrames(Peer(z))
<1>11. Hello(e) \in Seq(G)
  <2> HIDE DEF G, e
  <2>1. <<f>> \in Seq(G) /\ <<>> \in Seq(G)
    BY <1>7 DEF G
  <2>2. b > 0 => <<u>> \in Seq(G)
    BY <1>8 DEF G
  <2>3. CASE b > 0
    <3>1. Hello(e) = <<f>> \o <<u>>
      BY <1>6, <2>3
    <3>2. <<f>> \o <<u>> \in Seq(G)
      BY <2>1, <2>2, <2>3
    <3> QED  BY <3>1, <3>2
  <2>4. CASE ~(b > 0)
    <3>1. Hello(e) = <<f>>
      BY <1>6, <2>4
    <3> QED  BY <2>1, <3>1
  <2> QED  BY <2>3, <2>4
<1> QED  BY <1>10, <1>11 DEF b

\* open_stream.
LEMMA OpenStep ==
  ASSUME Base, Open
  PROVE  LET c  == engine["client"]
             g  == engine'["client"]
             id == c.next_stream_id
         IN
         /\ id \in Streams /\ ~Opened(id) /\ ~c.flow[id].tracked
         /\ Calls("client", Greeting(c)) /\ Progress
         /\ Settled(c, g) /\ SameCredit(c, g) /\ SameFlows(c, g, Streams) /\ Enters(c, g, {id})
         /\ g.event_queue = c.event_queue
         /\ g.next_stream_id = id + 2
         /\ g.state = IF c.state = "idle" THEN "preface_sent" ELSE c.state
         /\ phase' = [phase EXCEPT !["client"][id] = "open"]
         /\ UNCHANGED <<accepted, delivered, closed>>
<1> DEFINE c  == engine["client"]
           g  == OpenStream(c)
           id == c.next_stream_id
<1>1. "client" \in Sides /\ Peer("client") = "server" /\ "server" \in Sides
  BY SidesFacts
<1>2. c \in EngineSet /\ c.role = "client" /\ Types
  BY <1>1, BaseTypes DEF Base, RoleOK
<1>3. /\ id \in Streams
      /\ engine' = [engine EXCEPT !["client"] = g]
      /\ phase' = [phase EXCEPT !["client"][id] = "open"]
      /\ UNCHANGED <<frame, payload_bytes_read, body, accepted, delivered, closed>>
  BY DEF Open
<1>4. ~Opened(id) /\ ~c.flow[id].tracked
  <2>1. PhaseOK(id)
    BY <1>3 DEF Base
  <2>2. Opened(id) => id \in Nat /\ id < id
    BY <2>1 DEF PhaseOK
  <2>3. c.flow[id].tracked => Opened(id)
    BY <1>1, <2>1 DEF PhaseOK
  <2> QED  BY <2>2, <2>3
<1>5. /\ Says(c, g, Greeting(c), <<>>)
      /\ Settled(c, g) /\ SameCredit(c, g) /\ SameFlows(c, g, Streams)
      /\ Enters(c, g, {id})
      /\ g.next_stream_id = id + 2
      /\ g.state = IF c.state = "idle" THEN "preface_sent" ELSE c.state
  BY <1>2, <1>3, <1>4, OpenStreamSays
<1> HIDE DEF g
<1>6. g \in EngineSet /\ g.pending_out = c.pending_out \o Greeting(c)
      /\ g.event_queue = c.event_queue /\ Greeting(c) \in Seq(FrameSet)
  <2>1. c.event_queue \in Seq(EventSet)
    BY <1>1, BaseTypes
  <2> QED  BY <1>5, <2>1 DEF Says
<1>7. engine \in [Sides -> EngineSet]
  BY <1>2 DEF Types
<1>8. engine' \in [Sides -> EngineSet] /\ engine'["client"] = g
      /\ engine'["server"] = engine["server"]
  BY <1>1, <1>3, <1>6, <1>7, OneEngine
<1>9. Calls("client", Greeting(c))
  BY <1>1, <1>3, <1>6, <1>8 DEF Calls
<1>10. Progress
  <2>1. \A x \in Sides : Settled(engine[x], engine'[x])
    BY <1>5, <1>8 DEF Settled, Sides
  <2>2. phase \in [Sides -> [Streams -> Phases]]
    BY <1>2 DEF Types
  <2>3. phase["client"][id] = "none"
    BY <1>4 DEF Opened
  <2>4. \A x \in Sides, s \in Streams :
          /\ phase[x][s] = "done" => phase'[x][s] = "done"
          /\ phase[x][s] # "none" => phase'[x][s] # "none"
    BY <1>1, <1>3, <2>2, <2>3 DEF Sides
  <2> QED  BY <1>3, <2>1, <2>4 DEF Progress
<1> QED  BY <1>3, <1>4, <1>5, <1>6, <1>8, <1>9, <1>10

\* What a call keeps of the types.
LEMMA CallTypes ==
  ASSUME Base, NEW z \in Sides, NEW out, Calls(z, out),
         phase' \in [Sides -> [Streams -> Phases]],
         accepted' \in [Sides -> [Streams -> Nat]],
         delivered' \in [Sides -> [Streams -> Nat]],
         closed' \in [Sides -> SUBSET Streams]
  PROVE  Types' /\ \A x \in Sides : ReadingOK(x)'
<1>1. Types /\ \A x \in Sides : ReadingOK(x)
  BY DEF Base
<1>2. Types'
  BY <1>1 DEF Types, Calls
<1>3. \A x \in Sides : ReadingOK(x)'
  BY <1>1 DEF ReadingOK, Calls
<1> QED  BY <1>2, <1>3

\* The frames that the client writes first.
LEMMA GreetingGood ==
  ASSUME Base, NEW z \in Sides
  PROVE  LET e == engine[z] IN
         /\ Greeting(e) \in Seq(GoodFrames(Peer(z)))
         /\ \A t \in Streams \union {0} :
              /\ DataIn(Greeting(e), t) = 0
              /\ CreditIn(Greeting(e), t) =
                   IF e.state = "idle" /\ t = 0 THEN ConnectionBonus(e) ELSE 0
         /\ e.state = "idle" => Greeting(e) # <<>> /\ Head(Greeting(e)) = PrefaceFrame
         /\ e.state # "idle" => Greeting(e) = <<>>
<1> DEFINE e == engine[z]
           h == Hello(e)
           G == GoodFrames(Peer(z))
<1>1. /\ h \in Seq(G)
      /\ \A t \in Streams \union {0} :
           /\ DataIn(h, t) = 0
           /\ CreditIn(h, t) = IF t = 0 THEN ConnectionBonus(e) ELSE 0
  BY HelloGood
<1>2. PrefaceFrame \in FrameSet /\ PrefaceFrame.type = "preface" /\ PrefaceFrame.stream = 0 /\ PrefaceFrame.len = 0
      /\ ~PrefaceFrame.end
  BY DEF PrefaceFrame, Frame, FrameSet, FrameTypes
<1>3. PrefaceFrame \in G
  BY <1>2 DEF GoodFrames, GoodFrame
<1>4. G \subseteq FrameSet
  BY DEF GoodFrames
<1> HIDE DEF h, G
<1>5. h \in Seq(FrameSet) /\ <<PrefaceFrame>> \in Seq(FrameSet) /\ <<PrefaceFrame>> \in Seq(G)
  BY <1>1, <1>2, <1>3, <1>4
<1>6. CASE e.state = "idle"
  <2>1. Greeting(e) = <<PrefaceFrame>> \o h
    BY <1>6 DEF Greeting, h
  <2>2. <<PrefaceFrame>> \o h \in Seq(G)
    BY <1>1, <1>5
  <2>3. ASSUME NEW t \in Streams \union {0}
        PROVE  /\ DataIn(Greeting(e), t) = 0
               /\ CreditIn(Greeting(e), t) = IF t = 0 THEN ConnectionBonus(e) ELSE 0
    <3>1. DataIn(<<PrefaceFrame>> \o h, t) = DataIn(<<PrefaceFrame>>, t) + DataIn(h, t)
          /\ DataIn(<<PrefaceFrame>>, t) = DataOf(PrefaceFrame, t)
      BY <1>2, <1>5, DataInFacts
    <3>2. CreditIn(<<PrefaceFrame>> \o h, t) = CreditIn(<<PrefaceFrame>>, t) + CreditIn(h, t)
          /\ CreditIn(<<PrefaceFrame>>, t) = CreditOf(PrefaceFrame, t) /\ CreditIn(h, t) \in Nat
      BY <1>2, <1>5, CreditInFacts
    <3>3. DataOf(PrefaceFrame, t) = 0 /\ CreditOf(PrefaceFrame, t) = 0
      BY <1>2 DEF DataOf, CreditOf
    <3> QED  BY <1>1, <2>1, <3>1, <3>2, <3>3
  <2>4. <<PrefaceFrame>> \o h # <<>> /\ Head(<<PrefaceFrame>> \o h) = PrefaceFrame
    BY <1>5
  <2> QED  BY <1>6, <2>1, <2>2, <2>3, <2>4 DEF G
<1>7. CASE e.state # "idle"
  <2>1. Greeting(e) = <<>>
    BY <1>7 DEF Greeting
  <2>2. <<>> \in Seq(G)
    OBVIOUS
  <2> QED  BY <1>7, <2>1, <2>2, DataInFacts, CreditInFacts DEF G
<1> QED  BY <1>6, <1>7

\* The head of two sequences, one after the other.
LEMMA HeadConcat ==
  ASSUME NEW S, NEW u \in Seq(S), NEW v \in Seq(S)
  PROVE  /\ u # <<>> => u \o v # <<>> /\ Head(u \o v) = Head(u)
         /\ u = <<>> => u \o v = v
         /\ v = <<>> => u \o v = u
  OBVIOUS

\* Opening a stream keeps Base.
LEMMA OpenBase ==
  ASSUME Base, Open
  PROVE  Base'
<1> DEFINE c  == engine["client"]
           g  == engine'["client"]
           id == c.next_stream_id
           out == Greeting(c)
<1>1. "client" \in Sides /\ Peer("client") = "server" /\ "server" \in Sides
      /\ Peer("server") = "client"
  BY SidesFacts
<1>2. /\ id \in Streams /\ ~Opened(id) /\ ~c.flow[id].tracked
      /\ Calls("client", out) /\ Progress
      /\ Settled(c, g) /\ Enters(c, g, {id})
      /\ g.event_queue = c.event_queue
      /\ g.next_stream_id = id + 2
      /\ g.state = IF c.state = "idle" THEN "preface_sent" ELSE c.state
      /\ phase' = [phase EXCEPT !["client"][id] = "open"]
      /\ UNCHANGED <<accepted, delivered, closed>>
  BY OpenStep
<1>3. Appends("client", out) /\ OnWay("client")' = OnWay("client")
  BY <1>1, <1>2, CallMoves
<1>4. engine'["server"] = engine["server"]
  BY <1>1, <1>2 DEF Calls
<1> HIDE DEF g, out
<1>5. /\ Types /\ FramesOK /\ EventsOK /\ StartOK
      /\ \A x \in Sides : RoleOK(x) /\ ReadingOK(x)
      /\ \A s \in Streams : PhaseOK(s)
      /\ \A x \in Sides, s \in Streams : NothingLost(x, s)
  BY DEF Base
<1>6. phase \in [Sides -> [Streams -> Phases]] /\ phase["client"][id] = "none"
  BY <1>2, <1>5 DEF Types, Opened
<1>7. /\ phase' \in [Sides -> [Streams -> Phases]]
      /\ \A x \in Sides, s \in Streams : x # "client" \/ s # id => phase'[x][s] = phase[x][s]
      /\ phase'["client"][id] = "open"
  <2>1. "open" \in Phases
    BY DEF Phases
  <2> QED  BY <1>1, <1>2, <1>6, <2>1
<1>8. Types' /\ \A x \in Sides : ReadingOK(x)'
  <2>1. accepted' \in [Sides -> [Streams -> Nat]] /\ delivered' \in [Sides -> [Streams -> Nat]]
        /\ closed' \in [Sides -> SUBSET Streams]
    BY <1>2, <1>5 DEF Types
  <2> QED  BY <1>1, <1>2, <1>7, <2>1, CallTypes
<1>9. ASSUME NEW x \in Sides
      PROVE  RoleOK(x)'
  <2>1. RoleOK("client") /\ RoleOK("server")
    BY <1>1, <1>5
  <2>2. RoleOK("server")'
    BY <1>4, <2>1 DEF RoleOK
  <2>3. c.state \in {"idle", "preface_sent"}
    BY <2>1 DEF RoleOK
  <2>4. g.state \in {"idle", "preface_sent"}
    BY <1>2, <2>3
  <2>5. RoleOK("client")'
    BY <1>1, <1>2, <2>1, <2>4, RoleKept DEF g
  <2> QED  BY <2>2, <2>5 DEF Sides
<1>10. /\ out \in Seq(GoodFrames("server"))
       /\ \A t \in Streams \union {0} : DataIn(out, t) = 0
       /\ c.state = "idle" => out # <<>> /\ Head(out) = PrefaceFrame
       /\ c.state # "idle" => out = <<>>
  BY <1>1, GreetingGood DEF out
<1>11. OnWay("server")' = OnWay("server") \o out /\ out \in Seq(FrameSet)
  BY <1>1, <1>3 DEF Appends
<1>12. StartOK'
  <2>1. OnWay("server") \in Seq(FrameSet)
    BY <1>1, BaseTypes
  <2>2. g.state # "idle"
    BY <1>2
  <2>3. ASSUME engine["server"].state = "awaiting_preface"
        PROVE  OnWay("server")' # <<>> /\ Head(OnWay("server")').type = "preface"
    <3>1. CASE c.state = "idle"
      <4>1. OnWay("server") = <<>>
        BY <1>5, <3>1 DEF StartOK
      <4>2. OnWay("server")' = out
        BY <1>11, <2>1, <4>1, HeadConcat
      <4> QED  BY <1>10, <3>1, <4>2 DEF PrefaceFrame, Frame
    <3>2. CASE c.state # "idle"
      <4>1. OnWay("server")' = OnWay("server")
        BY <1>10, <1>11, <2>1, <3>2, HeadConcat
      <4> QED  BY <1>5, <2>3, <3>2, <4>1 DEF StartOK
    <3> QED  BY <3>1, <3>2
  <2>4. frame' = frame
    BY <1>2 DEF Calls
  <2>5. \A s \in Streams : phase'["server"][s] = phase["server"][s]
    BY <1>1, <1>7
  <2>6. \A x \in Sides : engine'[x].event_queue = engine[x].event_queue
    BY <1>2, <1>4 DEF Sides, g
  <2> QED  BY <1>3, <1>4, <1>5, <2>2, <2>3, <2>4, <2>5, <2>6 DEF StartOK, g
<1>13. FramesOK'
  <2>1. out \in Seq(GoodFrames(Peer("client"))')
    <3>1. GoodFrames("server") \subseteq GoodFrames("server")'
      BY <1>1, <1>2, <1>5, GoodGrow
    <3> QED  BY <1>1, <1>10, <3>1, SeqGrow
  <2>2. OnWay("client")' \in Seq(GoodFrames("client")')
    <3>1. GoodFrames("client") \subseteq GoodFrames("client")'
      BY <1>1, <1>2, <1>5, GoodGrow
    <3>2. OnWay("client") \in Seq(GoodFrames("client"))
      BY <1>1, <1>5 DEF FramesOK
    <3> QED  BY <1>3, <3>1, <3>2, SeqGrow
  <2> QED  BY <1>1, <1>2, <1>3, <1>5, <2>1, <2>2, FramesKept
<1>14. EventsOK'
  <2>1. engine["client"].event_queue \in Seq(GoodEvents("client"))
    BY <1>1, <1>5 DEF EventsOK
  <2>2. GoodEvents("client") \subseteq GoodEvents("client")'
    BY <1>1, <1>2, <1>5, GoodGrow
  <2>3. engine'["client"].event_queue \in Seq(GoodEvents("client")')
    BY <1>2, <2>1, <2>2, SeqGrow DEF g
  <2> QED  BY <1>1, <1>2, <1>4, <1>5, <2>3, EventsKept
<1>15. ASSUME NEW s \in Streams
       PROVE  PhaseOK(s)'
  <2>1. PhaseOK(s) /\ PhaseOK(id)
    BY <1>2, <1>5
  <2>2. body' = body /\ accepted' = accepted /\ closed' = closed
    BY <1>2 DEF Calls
  <2>3. \A x \in Sides : BodyOf(x, s)' = BodyOf(x, s)
    BY <2>2 DEF BodyOf
  <2>4. Opened(s)' <=> Opened(s) \/ s = id
    BY <1>1, <1>7 DEF Opened
  <2>5. c.next_stream_id \in Nat
    <3>1. c \in EngineSet
      BY <1>1, BaseTypes
    <3> QED  BY <3>1 DEF EngineSet
  <2>6. Opened(s)' => s \in Nat /\ s < engine'["client"].next_stream_id
    BY <1>2, <2>1, <2>4, <2>5 DEF PhaseOK, Booked, g
  <2>7. phase'["server"][s] # "none" => Opened(s)'
    BY <1>1, <1>7, <2>1, <2>4 DEF PhaseOK, Booked
  <2>8. ASSUME NEW x \in Sides
        PROVE  /\ engine'[x].flow[s].tracked => Opened(s)'
               /\ phase'[x][s] \in {"none", "open"} => accepted'[x][s] = 0
               /\ phase'[x][s] \in {"sending", "waiting"} => accepted'[x][s] < BodyOf(x, s)'
               /\ phase'[x][s] = "done" => accepted'[x][s] = BodyOf(x, s)'
               /\ s \in closed'[x] => phase'[Peer(x)][s] = "done"
    <3>1. engine'[x].flow[s].tracked => Opened(s)'
      <4>1. x = "client" \/ x = "server"
        BY DEF Sides
      <4>2. engine["client"].flow[s].tracked \/ engine["server"].flow[s].tracked => Opened(s)
        BY <1>1, <2>1 DEF PhaseOK, Booked
      <4>3. engine'["client"].flow[s].tracked => engine["client"].flow[s].tracked \/ s = id
        BY <1>2 DEF Enters, g
      <4> QED  BY <1>4, <2>4, <4>1, <4>2, <4>3
    <3>2. CASE x = "client" /\ s = id
      <4>1. phase[x][s] = "none" /\ phase'[x][s] = "open"
        <5>1. phase["client"][id] = "none"
          BY <1>6
        <5>2. phase'["client"][id] = "open"
          BY <1>7
        <5> HIDE DEF id
        <5> QED  BY <3>2, <5>1, <5>2
      <4>2. accepted[x][s] = 0
        BY <2>1, <4>1 DEF PhaseOK, Booked
      <4>3. phase'[Peer(x)][s] = phase[Peer(x)][s]
        BY <1>1, <1>7, <3>2
      <4>4. s \in closed[x] => phase[Peer(x)][s] = "done"
        BY <2>1 DEF PhaseOK, Booked
      <4> QED  BY <2>2, <2>3, <3>1, <4>1, <4>2, <4>3, <4>4
    <3>3. CASE ~(x = "client" /\ s = id)
      <4>1. phase'[x][s] = phase[x][s]
        BY <1>7, <3>3
      <4>2. phase[Peer(x)][s] = "done" => phase'[Peer(x)][s] = "done"
        <5>1. Peer(x) \in Sides
          BY SidesFacts
        <5> QED  BY <1>2, <5>1 DEF Progress
      <4>3. /\ phase[x][s] \in {"none", "open"} => accepted[x][s] = 0
            /\ phase[x][s] \in {"sending", "waiting"} => accepted[x][s] < BodyOf(x, s)
            /\ phase[x][s] = "done" => accepted[x][s] = BodyOf(x, s)
            /\ s \in closed[x] => phase[Peer(x)][s] = "done"
        BY <2>1 DEF PhaseOK, Booked
      <4> QED  BY <2>2, <2>3, <3>1, <4>1, <4>2, <4>3
    <3> QED  BY <3>2, <3>3
  <2> QED  BY <2>6, <2>7, <2>8 DEF PhaseOK, Booked
<1>16. ASSUME NEW s \in Streams
       PROVE  \A x \in Sides : NothingLost(x, s)'
  <2>1. /\ NothingLost("client", s) /\ NothingLost("server", s)
        /\ OnWay("server") \in Seq(FrameSet) /\ accepted["client"][s] \in Nat
        /\ delivered["server"][s] \in Nat /\ BytesIn(engine["server"].event_queue, s) \in Nat
    BY <1>1, <1>5, BaseTypes
  <2>2. DataIn(out, s) = 0
    BY <1>10
  <2>3. accepted' = accepted /\ delivered' = delivered
    BY <1>2
  <2>4. accepted'["client"][s] = accepted["client"][s] + DataIn(out, s)
    BY <2>1, <2>2, <2>3
  <2>5. engine'["client"].event_queue = engine["client"].event_queue
        /\ engine'["server"].event_queue = engine["server"].event_queue
    BY <1>2, <1>4 DEF g
  <2> QED  BY <1>1, <1>3, <1>5, <2>1, <2>3, <2>4, <2>5, LostKept
<1> QED  BY <1>8, <1>9, <1>12, <1>13, <1>14, <1>15, <1>16 DEF Base

\* A stream keeps what fits together.
LEMMA PhaseKept ==
  ASSUME Base, Progress, NEW s \in Streams,
         \A x \in Sides : Running(engine[x], engine'[x]),
         \A x \in Sides : engine'[x].flow[s].tracked => Opened(s),
         phase'["client"][s] # "none" \/ phase'["server"][s] # "none" => Opened(s),
         \A x \in Sides : Booked(x, s)',
         \A x \in Sides : s \in closed'[x] => phase[Peer(x)][s] = "done"
  PROVE  PhaseOK(s)'
<1>1. "client" \in Sides /\ "server" \in Sides /\ \A x \in Sides : Peer(x) \in Sides
  BY SidesFacts
<1>2. PhaseOK(s)
  BY DEF Base
<1>3. Opened(s) => Opened(s)'
  BY <1>1 DEF Progress, Opened
<1>4. Opened(s)' => Opened(s)
  BY DEF Opened
<1>5. engine'["client"].next_stream_id = engine["client"].next_stream_id
  BY <1>1 DEF Running
<1>6. \A x \in Sides : s \in closed'[x] => phase'[Peer(x)][s] = "done"
  BY <1>1 DEF Progress
<1>7. Opened(s)' => s \in Nat /\ s < engine'["client"].next_stream_id
  BY <1>2, <1>4, <1>5 DEF PhaseOK
<1>8. phase'["server"][s] # "none" => Opened(s)'
  BY <1>3
<1>9. \A x \in Sides : engine'[x].flow[s].tracked => Opened(s)'
  BY <1>3
<1> QED  BY <1>6, <1>7, <1>8, <1>9 DEF PhaseOK

\* The books of a stream that a step leaves alone.
LEMMA BookedKept ==
  ASSUME NEW x \in Sides, NEW s \in Streams, Booked(x, s), body' = body,
         phase'[x][s] = phase[x][s], accepted'[x][s] = accepted[x][s]
  PROVE  Booked(x, s)'
<1>1. BodyOf(x, s)' = BodyOf(x, s)
  BY DEF BodyOf
<1> QED  BY <1>1 DEF Booked

\* Once the server has the preface there is nothing left to say of the start.
LEMMA StartAwake ==
  ASSUME Base, \A x \in Sides : Running(engine[x], engine'[x]),
         engine["server"].state # "awaiting_preface"
  PROVE  StartOK'
<1>1. "client" \in Sides /\ "server" \in Sides
  BY SidesFacts
<1>2. engine'["client"].state = engine["client"].state
      /\ engine'["server"].state = engine["server"].state
  BY <1>1 DEF Running
<1>3. engine["client"].state # "idle"
  BY DEF Base, StartOK
<1> QED  BY <1>2, <1>3 DEF StartOK

\* Before it the client may write.
LEMMA StartCall ==
  ASSUME Base, NEW z \in Sides, NEW s \in Streams, NEW out, Calls(z, out),
         \A x \in Sides : Running(engine[x], engine'[x]),
         engine'[z].event_queue = engine[z].event_queue,
         phase[z][s] # "none",
         \A t \in Streams : phase'[Peer(z)][t] = phase[Peer(z)][t]
  PROVE  StartOK'
<1>1. "client" \in Sides /\ "server" \in Sides /\ Peer("client") = "server"
  BY SidesFacts
<1>2. CASE engine["server"].state # "awaiting_preface"
  BY <1>2, StartAwake
<1>3. CASE engine["server"].state = "awaiting_preface"
  <2>1. StartOK
    BY DEF Base
  <2>2. z = "client"
    BY <1>3, <2>1 DEF StartOK, Sides
  <2>3. engine["client"].state # "idle"
    BY <2>1, <2>2 DEF StartOK, Opened
  <2>4. /\ frame["server"] = NoFrame /\ OnWay("client") = <<>>
        /\ \A x \in Sides : engine[x].event_queue = <<>>
        /\ \A t \in Streams : phase["server"][t] = "none"
        /\ OnWay("server") # <<>> /\ Head(OnWay("server")).type = "preface"
    BY <1>3, <2>1, <2>3 DEF StartOK
  <2>5. OnWay("client")' = OnWay("client") /\ out \in Seq(FrameSet)
        /\ OnWay("server")' = OnWay("server") \o out
    BY <1>1, <2>2, CallMoves DEF Appends
  <2>6. OnWay("server") \in Seq(FrameSet)
    BY <1>1, BaseTypes
  <2>7. OnWay("server")' # <<>> /\ Head(OnWay("server")').type = "preface"
    BY <2>4, <2>5, <2>6, HeadConcat
  <2>8. \A x \in Sides : engine'[x].event_queue = <<>>
    BY <1>1, <2>2, <2>4 DEF Calls, Sides
  <2>9. frame' = frame /\ engine'["client"].state = engine["client"].state
    BY <1>1 DEF Calls, Running
  <2>10. \A t \in Streams : phase'["server"][t] = "none"
    BY <1>1, <2>2, <2>4
  <2> QED  BY <2>3, <2>4, <2>5, <2>7, <2>8, <2>9, <2>10 DEF StartOK
<1> QED  BY <1>2, <1>3

\* A running connection keeps the invariant if each side does its part.
LEMMA RunningBase ==
  ASSUME Base, Progress, NEW z \in Sides, NEW out, Appends(z, out),
         Types', \A x \in Sides : ReadingOK(x)', StartOK',
         \A x \in Sides : Running(engine[x], engine'[x]),
         out \in Seq(GoodFrames(Peer(z))'), OnWay(z)' \in Seq(GoodFrames(z)'),
         engine'[Peer(z)].event_queue = engine[Peer(z)].event_queue,
         engine'[z].event_queue \in Seq(GoodEvents(z)'),
         \A s \in Streams : PhaseOK(s)',
         \A s \in Streams :
           /\ accepted'[z][s] = accepted[z][s] + DataIn(out, s)
           /\ accepted'[Peer(z)][s] = accepted[Peer(z)][s]
           /\ delivered'[Peer(z)][s] = delivered[Peer(z)][s]
           /\ delivered'[z][s] + BytesIn(engine'[z].event_queue, s) + DataIn(OnWay(z)', s)
                = delivered[z][s] + BytesIn(engine[z].event_queue, s) + DataIn(OnWay(z), s)
  PROVE  Base'
<1>1. Types /\ FramesOK /\ EventsOK
  BY DEF Base
<1>2. FramesOK'
  BY <1>1, FramesKept
<1>3. EventsOK'
  BY <1>1, EventsKept
<1>4. ASSUME NEW x \in Sides
      PROVE  RoleOK(x)'
  <2>1. RoleOK(x) /\ Running(engine[x], engine'[x])
    BY DEF Base
  <2> QED  BY <2>1 DEF RoleOK, Running, Settled
<1>5. ASSUME NEW s \in Streams
      PROVE  \A x \in Sides : NothingLost(x, s)'
  <2>1. Peer(z) \in Sides
    BY SidesFacts
  <2>2. NothingLost(z, s) /\ NothingLost(Peer(z), s)
    BY <2>1 DEF Base
  <2>3. OnWay(Peer(z)) \in Seq(FrameSet) /\ accepted[z][s] \in Nat
        /\ delivered[Peer(z)][s] \in Nat /\ BytesIn(engine[Peer(z)].event_queue, s) \in Nat
    BY <2>1, BaseTypes
  <2> QED  BY <1>1, <2>2, <2>3, LostKept
<1> QED  BY <1>2, <1>3, <1>4, <1>5 DEF Base

\* z wrote headers or DATA of s with n bytes of the body.
Sends(z, s, out, n) ==
  LET e == engine[z]
      g == engine'[z]
  IN
  /\ Calls(z, out) /\ Progress
  /\ Running(e, g) /\ Enters(e, g, {s}) /\ g.event_queue = e.event_queue
  /\ g.connection_recv_window = e.connection_recv_window
  /\ g.connection_send_window = e.connection_send_window - n
  /\ g.peer_initial_window_size = e.peer_initial_window_size
  /\ SameFlows(e, g, Streams \ {s})
  /\ StreamSendWindow(g, s) = StreamSendWindow(e, s) - n
  /\ StreamRecv(g, s) = StreamRecv(e, s)
  /\ n \in Nat
  /\ n > 0 => n <= e.connection_send_window /\ n <= StreamSendWindow(e, s)
  /\ n > 0 => BodyOf(z, s) > 0
  /\ phase[z][s] \in {"open", "sending"}
  /\ phase'[z][s] \in {"sending", "waiting", "done"}
  /\ phase' \in [Sides -> [Streams -> Phases]]
  /\ \A x \in Sides, t \in Streams : x # z \/ t # s => phase'[x][t] = phase[x][t]
  /\ accepted' \in [Sides -> [Streams -> Nat]]
  /\ accepted'[z][s] = accepted[z][s] + n
  /\ \A x \in Sides, t \in Streams : x # z \/ t # s => accepted'[x][t] = accepted[x][t]
  /\ phase'[z][s] = "done" => accepted[z][s] + n = BodyOf(z, s)
  /\ phase'[z][s] # "done" => accepted[z][s] + n < BodyOf(z, s)
  /\ UNCHANGED <<delivered, closed>>
  /\ \A i \in DOMAIN out :
       /\ Content(out[i]) /\ out[i].stream = s
       /\ out[i].end => i = Len(out) /\ phase'[z][s] = "done"
  /\ out \in Seq(GoodFrames(Peer(z))')
  /\ \A t \in Streams \union {0} :
       /\ DataIn(out, t) = IF t \in {0, s} THEN n ELSE 0
       /\ CreditIn(out, t) = 0

\* Sending on a stream is progress.
LEMMA SendProgress ==
  ASSUME Base, NEW z \in Sides, NEW s \in Streams, body' = body,
         Settled(engine[z], engine'[z]), engine'[Peer(z)] = engine[Peer(z)],
         phase[z][s] \in {"open", "sending"}, phase'[z][s] # "none",
         \A x \in Sides, t \in Streams : x # z \/ t # s => phase'[x][t] = phase[x][t]
  PROVE  Progress
<1>1. \A x \in Sides : x = z \/ x = Peer(z)
  BY SidesFacts
<1>2. \A x \in Sides : Settled(engine[x], engine'[x])
  BY <1>1 DEF Settled
<1>3. ASSUME NEW x \in Sides, NEW t \in Streams
      PROVE  /\ phase[x][t] = "done" => phase'[x][t] = "done"
             /\ phase[x][t] # "none" => phase'[x][t] # "none"
  OBVIOUS
<1> QED  BY <1>2, <1>3 DEF Progress

\* What was sent keeps the invariant.
LEMMA SendsBase ==
  ASSUME Base, NEW z \in Sides, NEW s \in Streams, NEW out, NEW n, Sends(z, s, out, n)
  PROVE  Base'
<1>1. Peer(z) \in Sides /\ Peer(z) # z /\ (\A x \in Sides : x = z \/ x = Peer(z))
      /\ "client" \in Sides /\ "server" \in Sides
  BY SidesFacts
<1>2. Calls(z, out) /\ Progress
  BY DEF Sends
<1>3. Appends(z, out) /\ OnWay(z)' = OnWay(z)
  BY <1>2, CallMoves
<1>4. engine'[Peer(z)] = engine[Peer(z)] /\ body' = body
  BY <1>2 DEF Calls
<1>5. \A x \in Sides : Running(engine[x], engine'[x])
  <2>1. Running(engine[z], engine'[z])
    BY DEF Sends
  <2>2. Running(engine[Peer(z)], engine'[Peer(z)])
    BY <1>4 DEF Running, Settled
  <2> QED  BY <1>1, <2>1, <2>2
<1>6. Types /\ FramesOK /\ EventsOK
  BY DEF Base
<1>7. Types' /\ \A x \in Sides : ReadingOK(x)'
  <2>1. phase' \in [Sides -> [Streams -> Phases]] /\ accepted' \in [Sides -> [Streams -> Nat]]
        /\ delivered' = delivered /\ closed' = closed
    BY DEF Sends
  <2>2. delivered' \in [Sides -> [Streams -> Nat]] /\ closed' \in [Sides -> SUBSET Streams]
    BY <1>6, <2>1 DEF Types
  <2> QED  BY <1>2, <2>1, <2>2, CallTypes
<1>8. StartOK'
  <2>1. engine'[z].event_queue = engine[z].event_queue /\ phase[z][s] # "none"
    BY DEF Sends
  <2>2. \A t \in Streams : phase'[Peer(z)][t] = phase[Peer(z)][t]
    BY <1>1 DEF Sends
  <2> QED  BY <1>2, <1>5, <2>1, <2>2, StartCall
<1>9. OnWay(z)' \in Seq(GoodFrames(z)')
  <2>1. OnWay(z) \in Seq(GoodFrames(z)) /\ GoodFrames(z) \subseteq GoodFrames(z)'
    BY <1>2, <1>6, GoodGrow DEF FramesOK
  <2> QED  BY <1>3, <2>1, SeqGrow
<1>10. engine'[z].event_queue \in Seq(GoodEvents(z)')
  <2>1. engine[z].event_queue \in Seq(GoodEvents(z)) /\ GoodEvents(z) \subseteq GoodEvents(z)'
    BY <1>2, <1>6, GoodGrow DEF EventsOK
  <2>2. engine'[z].event_queue = engine[z].event_queue
    BY DEF Sends
  <2> QED  BY <2>1, <2>2, SeqGrow
<1>11. ASSUME NEW t \in Streams
       PROVE  PhaseOK(t)'
  <2>1. PhaseOK(t) /\ PhaseOK(s)
    BY DEF Base
  <2>2. Opened(s)
    <3>1. phase[z][s] # "none"
      BY DEF Sends
    <3> QED  BY <2>1, <3>1 DEF PhaseOK, Opened, Sides
  <2>3. ASSUME NEW x \in Sides
        PROVE  engine'[x].flow[t].tracked => Opened(t)
    <3>1. engine[x].flow[t].tracked => Opened(t)
      BY <2>1 DEF PhaseOK
    <3>2. engine'[z].flow[t].tracked => engine[z].flow[t].tracked \/ t = s
      BY DEF Sends, Enters
    <3>3. x = z \/ engine'[x] = engine[x]
      BY <1>1, <1>4
    <3> QED  BY <2>2, <3>1, <3>2, <3>3
  <2>4. phase'["client"][t] # "none" \/ phase'["server"][t] # "none" => Opened(t)
    <3>1. CASE t = s
      BY <2>2, <3>1
    <3>2. CASE t # s
      <4>1. \A x \in Sides : phase'[x][t] = phase[x][t]
        BY <3>2 DEF Sends
      <4> QED  BY <1>1, <2>1, <4>1 DEF PhaseOK, Opened
    <3> QED  BY <3>1, <3>2
  <2>5. ASSUME NEW x \in Sides
        PROVE  Booked(x, t)'
    <3>1. Booked(x, t)
      BY <2>1 DEF PhaseOK
    <3>2. CASE x = z /\ t = s
      <4>1. BodyOf(z, s)' = BodyOf(z, s)
        BY <1>4 DEF BodyOf
      <4>2. phase'[z][s] \in {"sending", "waiting", "done"}
            /\ accepted'[z][s] = accepted[z][s] + n
            /\ (phase'[z][s] = "done" => accepted[z][s] + n = BodyOf(z, s))
            /\ (phase'[z][s] # "done" => accepted[z][s] + n < BodyOf(z, s))
        BY DEF Sends
      <4> QED  BY <3>2, <4>1, <4>2 DEF Booked
    <3>3. CASE ~(x = z /\ t = s)
      <4>1. phase'[x][t] = phase[x][t] /\ accepted'[x][t] = accepted[x][t]
        BY <3>3 DEF Sends
      <4> QED  BY <1>4, <3>1, <4>1, BookedKept
    <3> QED  BY <3>2, <3>3
  <2>6. \A x \in Sides : t \in closed'[x] => phase[Peer(x)][t] = "done"
    <3>1. closed' = closed
      BY DEF Sends
    <3> QED  BY <2>1, <3>1 DEF PhaseOK
  <2> QED  BY <1>2, <1>5, <2>3, <2>4, <2>5, <2>6, PhaseKept
<1>12. ASSUME NEW t \in Streams
       PROVE  /\ accepted'[z][t] = accepted[z][t] + DataIn(out, t)
              /\ accepted'[Peer(z)][t] = accepted[Peer(z)][t]
              /\ delivered'[Peer(z)][t] = delivered[Peer(z)][t]
              /\ delivered'[z][t] + BytesIn(engine'[z].event_queue, t) + DataIn(OnWay(z)', t)
                   = delivered[z][t] + BytesIn(engine[z].event_queue, t) + DataIn(OnWay(z), t)
  <2>1. delivered' = delivered /\ engine'[z].event_queue = engine[z].event_queue
    BY DEF Sends
  <2>2. accepted'[Peer(z)][t] = accepted[Peer(z)][t]
    BY <1>1 DEF Sends
  <2>3. accepted[z][t] \in Nat
    BY BaseTypes
  <2>4. DataIn(out, t) = IF t = s THEN n ELSE 0
    BY StreamsAssumption DEF Sends
  <2>5. accepted'[z][t] = accepted[z][t] + IF t = s THEN n ELSE 0
    BY <2>3 DEF Sends
  <2> QED  BY <1>3, <2>1, <2>2, <2>4, <2>5
<1>13. out \in Seq(GoodFrames(Peer(z))')
  BY DEF Sends
<1> QED  BY <1>2, <1>3, <1>4, <1>5, <1>7, <1>8, <1>9, <1>10, <1>11, <1>12, <1>13, RunningBase

\* An update of one entry of a table by side and stream.
LEMMA TableUpdate ==
  ASSUME NEW S, NEW f \in [Sides -> [Streams -> S]], NEW z \in Sides, NEW s \in Streams,
         NEW v \in S, NEW g, g = [f EXCEPT ![z][s] = v]
  PROVE  /\ g \in [Sides -> [Streams -> S]] /\ g[z][s] = v
         /\ \A x \in Sides, t \in Streams : x # z \/ t # s => g[x][t] = f[x][t]
  OBVIOUS

\* The frames of a body are good to have on the way after the step.
LEMMA SentGood ==
  ASSUME NEW z \in Sides, NEW s \in Streams, Opened(s)', NEW f \in FrameSet, f.stream = s,
         \/ f.type = "headers" /\ f.len \in 1 .. 2
         \/ f.type = "data" /\ f.len \in 1 .. MaxFrame /\ BodyOf(z, s)' > 0,
         f.end => phase'[z][s] = "done"
  PROVE  f \in GoodFrames(Peer(z))'
<1>1. Peer(z) \in Sides /\ Peer(Peer(z)) = z
  BY SidesFacts
<1>2. GoodFrame(Peer(z), f)'
  BY <1>1 DEF GoodFrame, Content
<1> QED  BY <1>2 DEF GoodFrames

\* send_headers.
LEMMA SendHeadersStep ==
  ASSUME Base, NEW z \in Sides, NEW s \in Streams, SendHeaders(z, s)
  PROVE  Sends(z, s, <<Headers(s, BodyOf(z, s) = 0)>>, 0)
<1> DEFINE e   == engine[z]
           all == BodyOf(z, s) = 0
           g   == SendHeadersFrame(e, s, all)
           h   == Headers(s, all)
           out == <<h>>
           p   == IF all THEN "done" ELSE "sending"
<1>1. Peer(z) \in Sides /\ Peer(Peer(z)) = z
  BY SidesFacts
<1>2. Types /\ PhaseOK(s)
  BY DEF Base
<1>3. e \in EngineSet /\ BodyOf(z, s) \in Nat /\ accepted[z][s] \in Nat
      /\ e.event_queue \in Seq(EventSet) /\ e.connection_send_window \in Int
      /\ StreamSendWindow(e, s) \in Int
  BY BaseTypes, MemberTypes, WindowTypes
<1>4. /\ phase[z][s] = "open"
      /\ engine' = [engine EXCEPT ![z] = g]
      /\ phase' = [phase EXCEPT ![z][s] = p]
      /\ UNCHANGED <<frame, payload_bytes_read, body, accepted, delivered, closed>>
  BY DEF SendHeaders
<1>5. all \in BOOLEAN
  OBVIOUS
<1>6. Says(e, g, out, <<>>) /\ KeepsWindows(e, g) /\ g.flow = e.flow
  BY <1>3, <1>5, SendHeadersSays
<1>7. /\ h \in FrameSet /\ h.type = "headers" /\ h.stream = s /\ h.len = 2 /\ h.val = 0
      /\ h.end = all
  BY <1>5 DEF Headers, Frame, FrameSet, FrameTypes
<1>8. all <=> BodyOf(z, s) = 0
  OBVIOUS
<1>9. all => p = "done"
  OBVIOUS
<1>10. ~all => p = "sending"
  OBVIOUS
<1> HIDE DEF g, h, all, p
<1>11. /\ g \in EngineSet /\ out \in Seq(FrameSet) /\ g.pending_out = e.pending_out \o out
       /\ g.event_queue = e.event_queue
  BY <1>3, <1>6 DEF Says
<1>12. engine' \in [Sides -> EngineSet] /\ engine'[z] = g /\ engine'[Peer(z)] = engine[Peer(z)]
  <2>1. engine \in [Sides -> EngineSet]
    BY <1>2 DEF Types
  <2> QED  BY <1>4, <1>11, <2>1, OneEngine
<1>13. Calls(z, out)
  BY <1>4, <1>11, <1>12 DEF Calls
<1>14. p \in Phases /\ p \in {"sending", "waiting", "done"} /\ p # "none"
  BY <1>9, <1>10 DEF Phases
<1>15. /\ phase' \in [Sides -> [Streams -> Phases]] /\ phase'[z][s] = p
       /\ \A x \in Sides, t \in Streams : x # z \/ t # s => phase'[x][t] = phase[x][t]
  <2>1. phase \in [Sides -> [Streams -> Phases]]
    BY <1>2 DEF Types
  <2> QED  BY <1>4, <1>14, <2>1, TableUpdate
<1>16. Progress
  <2>1. Settled(engine[z], engine'[z])
    BY <1>6, <1>12 DEF KeepsWindows, Running
  <2>2. phase[z][s] \in {"open", "sending"} /\ phase'[z][s] # "none"
    BY <1>4, <1>14, <1>15
  <2> QED  BY <1>4, <1>12, <1>15, <2>1, <2>2, SendProgress
<1>17. accepted[z][s] = 0
  <2>1. Booked(z, s)
    BY <1>2 DEF PhaseOK
  <2> QED  BY <1>4, <2>1 DEF Booked
<1>18. Opened(s)
  BY <1>2, <1>4 DEF PhaseOK, Opened, Sides
<1>19. out \in Seq(GoodFrames(Peer(z))')
  <2>1. Opened(s)'
    <3>1. "client" \in Sides
      BY SidesFacts
    <3> QED  BY <1>16, <1>18, <3>1 DEF Opened, Progress
  <2>2. h.end => phase'[z][s] = "done"
    BY <1>7, <1>9, <1>15
  <2>3. h.len \in 1 .. 2
    BY <1>7
  <2>4. h \in GoodFrames(Peer(z))'
    BY <1>7, <2>1, <2>2, <2>3, SentGood
  <2> QED  BY <2>4
<1>20. ASSUME NEW t \in Streams \union {0}
       PROVE  DataIn(out, t) = 0 /\ CreditIn(out, t) = 0
  <2>1. DataIn(out, t) = DataOf(h, t)
    BY <1>7, DataInFacts
  <2>2. CreditIn(out, t) = CreditOf(h, t)
    BY <1>7, CreditInFacts
  <2> QED  BY <1>7, <2>1, <2>2 DEF DataOf, CreditOf
<1>21. \A i \in DOMAIN out :
         /\ Content(out[i]) /\ out[i].stream = s
         /\ out[i].end => i = Len(out) /\ phase'[z][s] = "done"
  BY <1>7, <1>9, <1>15 DEF Content
<1>22. /\ g.connection_recv_window = e.connection_recv_window
       /\ g.connection_send_window = e.connection_send_window
       /\ g.peer_initial_window_size = e.peer_initial_window_size
       /\ SameFlows(e, g, Streams)
       /\ Running(e, g)
  BY <1>6 DEF KeepsWindows, SameCredit
<1>23. /\ SameFlows(e, g, Streams \ {s})
       /\ StreamSendWindow(g, s) = StreamSendWindow(e, s) /\ StreamRecv(g, s) = StreamRecv(e, s)
  BY <1>22 DEF SameFlows, SameFlow
<1>24. Enters(e, g, {s})
  BY <1>6 DEF Enters
<1>25. accepted' \in [Sides -> [Streams -> Nat]]
  BY <1>2, <1>4 DEF Types
<1>26. /\ phase'[z][s] = "done" => accepted[z][s] + 0 = BodyOf(z, s)
       /\ phase'[z][s] # "done" => accepted[z][s] + 0 < BodyOf(z, s)
  BY <1>3, <1>8, <1>9, <1>10, <1>15, <1>17
<1>27. \A t \in Streams \union {0} :
         /\ DataIn(out, t) = IF t \in {0, s} THEN 0 ELSE 0
         /\ CreditIn(out, t) = 0
  BY <1>20
<1> HIDE DEF e, out
<1>28. Sends(z, s, out, 0)
  BY <1>3, <1>4, <1>11, <1>12, <1>13, <1>14, <1>15, <1>16, <1>19, <1>21, <1>22, <1>23, <1>24,
     <1>25, <1>26, <1>27 DEF Sends, e
<1> QED  BY <1>28 DEF out, h, all

\* send_data with the rest of the body.
LEMMA SendBodyStep ==
  ASSUME Base, NEW z \in Sides, NEW s \in Streams, SendBody(z, s)
  PROVE  \E out : \E n : Sends(z, s, out, n)
<1> DEFINE e    == engine[z]
           rest == BodyOf(z, s) - accepted[z][s]
           n    == Accepted(e, s, rest)
           all  == n = rest
           g    == SendData(e, s, rest, TRUE)
           out  == DataFrames(s, n, all)
           p    == IF all THEN "done" ELSE "waiting"
<1>1. Peer(z) \in Sides /\ Peer(Peer(z)) = z
  BY SidesFacts
<1>2. Types /\ PhaseOK(s)
  BY DEF Base
<1>3. e \in EngineSet /\ BodyOf(z, s) \in Nat /\ accepted[z][s] \in Nat
      /\ e.event_queue \in Seq(EventSet) /\ e.connection_send_window \in Int
      /\ StreamSendWindow(e, s) \in Int
  BY BaseTypes, MemberTypes, WindowTypes
<1>4. /\ phase[z][s] = "sending"
      /\ engine' = [engine EXCEPT ![z] = g]
      /\ accepted' = [accepted EXCEPT ![z][s] = @ + n]
      /\ phase' = [phase EXCEPT ![z][s] = p]
      /\ UNCHANGED <<frame, payload_bytes_read, body, delivered, closed>>
  BY DEF SendBody
<1>5. accepted[z][s] < BodyOf(z, s)
  <2>1. Booked(z, s)
    BY <1>2 DEF PhaseOK
  <2> QED  BY <1>4, <2>1 DEF Booked
<1>6. rest \in Nat \ {0} /\ BodyOf(z, s) > 0
  BY <1>3, <1>5
<1>7. n \in Nat /\ n <= rest
  BY <1>3, <1>6, AcceptedType
<1>8. n > 0 => n <= e.connection_send_window /\ n <= StreamSendWindow(e, s)
  <2>1. n > 0 => e.connection_send_window - n >= 0 /\ StreamSendWindow(e, s) - n >= 0
    BY <1>3, <1>6, AcceptedFits
  <2> HIDE DEF n
  <2> QED  BY <1>3, <1>7, <2>1
<1>9. /\ Says(e, g, out, <<>>)
      /\ Running(e, g)
      /\ g.connection_recv_window = e.connection_recv_window
      /\ g.connection_send_window = e.connection_send_window - n
      /\ g.peer_initial_window_size = e.peer_initial_window_size
      /\ SameFlows(e, g, Streams \ {s})
      /\ StreamSendWindow(g, s) = StreamSendWindow(e, s) - n
      /\ StreamRecv(g, s) = StreamRecv(e, s)
      /\ Enters(e, g, {s})
  <2> HIDE DEF rest
  <2> QED  BY <1>3, <1>6, SendDataSays
<1>10. all \in BOOLEAN /\ (all <=> n = rest)
  OBVIOUS
<1>11. all => p = "done"
  OBVIOUS
<1>12. ~all => p = "waiting"
  OBVIOUS
<1> HIDE DEF g, n, all, p
<1>13. /\ out \in Seq(FrameSet) /\ Chunks(out, s, all)
       /\ \A t \in Streams \union {0} :
            /\ DataIn(out, t) = IF t \in {0, s} THEN n ELSE 0
            /\ CreditIn(out, t) = 0
  BY <1>7, <1>10, DataFramesCarry
<1> HIDE DEF out
<1>14. /\ g \in EngineSet /\ g.pending_out = e.pending_out \o out
       /\ g.event_queue = e.event_queue
  BY <1>3, <1>9 DEF Says
<1>15. engine' \in [Sides -> EngineSet] /\ engine'[z] = g /\ engine'[Peer(z)] = engine[Peer(z)]
  <2>1. engine \in [Sides -> EngineSet]
    BY <1>2 DEF Types
  <2> QED  BY <1>4, <1>14, <2>1, OneEngine
<1>16. Calls(z, out)
  BY <1>4, <1>13, <1>14, <1>15 DEF Calls
<1>17. p \in Phases /\ p \in {"sending", "waiting", "done"} /\ p # "none"
  BY <1>11, <1>12 DEF Phases
<1>18. /\ phase' \in [Sides -> [Streams -> Phases]] /\ phase'[z][s] = p
       /\ \A x \in Sides, t \in Streams : x # z \/ t # s => phase'[x][t] = phase[x][t]
  <2>1. phase \in [Sides -> [Streams -> Phases]]
    BY <1>2 DEF Types
  <2> QED  BY <1>4, <1>17, <2>1, TableUpdate
<1>19. /\ accepted' \in [Sides -> [Streams -> Nat]] /\ accepted'[z][s] = accepted[z][s] + n
       /\ \A x \in Sides, t \in Streams : x # z \/ t # s => accepted'[x][t] = accepted[x][t]
  <2>1. accepted \in [Sides -> [Streams -> Nat]]
    BY <1>2 DEF Types
  <2>2. accepted' = [accepted EXCEPT ![z][s] = accepted[z][s] + n]
    BY <1>4, <2>1
  <2>3. accepted[z][s] + n \in Nat
    BY <1>3, <1>7
  <2> QED  BY <2>1, <2>2, <2>3, TableUpdate
<1>20. Progress
  <2>1. Settled(engine[z], engine'[z])
    BY <1>9, <1>15 DEF Running
  <2>2. phase[z][s] \in {"open", "sending"} /\ phase'[z][s] # "none"
    BY <1>4, <1>17, <1>18
  <2> QED  BY <1>4, <1>15, <1>18, <2>1, <2>2, SendProgress
<1>21. Opened(s)
  BY <1>2, <1>4 DEF PhaseOK, Opened, Sides
<1>22. ASSUME NEW i \in DOMAIN out
       PROVE  /\ out[i].type = "data" /\ out[i].stream = s /\ out[i].len \in 1 .. MaxFrame
              /\ out[i] \in FrameSet
              /\ out[i].end => i = Len(out) /\ phase'[z][s] = "done"
  <2>1. out[i].end => all /\ i = Len(out)
    BY <1>13 DEF Chunks
  <2>2. out[i].type = "data" /\ out[i].stream = s /\ out[i].len \in 1 .. MaxFrame
    BY <1>13 DEF Chunks
  <2> QED  BY <1>11, <1>13, <1>18, <2>1, <2>2
<1>23. out \in Seq(GoodFrames(Peer(z))')
  <2>1. Opened(s)'
    <3>1. "client" \in Sides
      BY SidesFacts
    <3> QED  BY <1>20, <1>21, <3>1 DEF Opened, Progress
  <2>2. BodyOf(z, s)' > 0
    BY <1>4, <1>6 DEF BodyOf
  <2>3. ASSUME NEW i \in DOMAIN out
        PROVE  out[i] \in GoodFrames(Peer(z))'
    <3> QED  BY <1>22, <2>1, <2>2, SentGood
  <2> DEFINE G == GoodFrames(Peer(z))'
  <2>4. \A i \in DOMAIN out : out[i] \in G
    BY <2>3
  <2> HIDE DEF G
  <2>5. out \in Seq(G)
    BY <1>13, <2>4
  <2> QED  BY <2>5 DEF G
<1>24. \A i \in DOMAIN out :
         /\ Content(out[i]) /\ out[i].stream = s
         /\ out[i].end => i = Len(out) /\ phase'[z][s] = "done"
  BY <1>22 DEF Content
<1>25. /\ phase'[z][s] = "done" => accepted[z][s] + n = BodyOf(z, s)
       /\ phase'[z][s] # "done" => accepted[z][s] + n < BodyOf(z, s)
  BY <1>3, <1>7, <1>10, <1>11, <1>12, <1>18
<1>26. phase[z][s] \in {"open", "sending"}
  BY <1>4
<1> HIDE DEF e, rest
<1>27. Sends(z, s, out, n)
  BY <1>4, <1>6, <1>7, <1>8, <1>9, <1>13, <1>14, <1>15, <1>16, <1>17, <1>18, <1>19, <1>20, <1>23,
     <1>24, <1>25, <1>26 DEF Sends, e
<1> QED  BY <1>27

\* z's application took event v.
Takes(z, v) ==
  LET e == engine[z]
      g == engine'[z]
  IN
  /\ Calls(z, <<>>) /\ Progress
  /\ KeepsWindows(e, g) /\ g.flow = e.flow
  /\ e.event_queue # <<>> /\ v = Head(e.event_queue) /\ v \in GoodEvents(z)
  /\ g.event_queue = Tail(e.event_queue)
  /\ engine["server"].state # "awaiting_preface"
  /\ accepted' = accepted
  /\ delivered' \in [Sides -> [Streams -> Nat]]
  /\ \A t \in Streams : delivered'[z][t] = delivered[z][t] + BytesOf(v, t)
  /\ \A t \in Streams : delivered'[Peer(z)][t] = delivered[Peer(z)][t]
  /\ closed' \in [Sides -> SUBSET Streams]
  /\ \A t \in Streams :
       t \in closed'[z] <=> t \in closed[z] \/ (v.type = "stream_closed" /\ t = v.stream)
  /\ closed'[Peer(z)] = closed[Peer(z)]
  /\ phase' \in [Sides -> [Streams -> Phases]]
  /\ \A x \in Sides, t \in Streams :
       \/ phase'[x][t] = phase[x][t]
       \/ Opened(t) /\ phase[x][t] = "none" /\ phase'[x][t] = "open"
       \/ phase[x][t] = "waiting" /\ phase'[x][t] = "sending"

\* The event at the head of a queue.
LEMMA HeadEvent ==
  ASSUME Base, NEW z \in Sides, engine[z].event_queue # <<>>
  PROVE  LET v == Head(engine[z].event_queue) IN
         /\ v \in GoodEvents(z) /\ v \in EventSet
         /\ v.type \in {"data", "stream_closed", "new_stream", "stream_window_available"} =>
              v.stream \in Streams
         /\ v.type = "new_stream" => Opened(v.stream)
<1> DEFINE q == engine[z].event_queue
           v == Head(q)
<1>1. q \in Seq(GoodEvents(z))
  BY DEF Base, EventsOK
<1>2. v \in GoodEvents(z)
  BY <1>1
<1>3. v \in EventSet /\ GoodEvent(z, v)
  BY <1>2 DEF GoodEvents
<1> HIDE DEF v
<1>4. v.stream # 0 => v.stream \in Streams
  BY <1>3 DEF EventSet
<1> QED  BY <1>2, <1>3, <1>4 DEF GoodEvent, v

\* An entry of a table of one side.
LEMMA SideUpdate ==
  ASSUME NEW S, NEW f \in [Sides -> S], NEW z \in Sides, NEW v \in S,
         NEW g, g = [f EXCEPT ![z] = v]
  PROVE  g \in [Sides -> S] /\ g[z] = v /\ g[Peer(z)] = f[Peer(z)]
  BY SidesFacts

\* next_event, and what the application does with the event.
LEMMA HandleEventStep ==
  ASSUME Base, NEW z \in Sides, HandleEvent(z)
  PROVE  Takes(z, Head(engine[z].event_queue))
<1> DEFINE e == engine[z]
           q == e.event_queue
           v == Head(q)
           g == NextEvent(e)
<1>1. Peer(z) \in Sides /\ Peer(z) # z /\ \A x \in Sides : x = z \/ x = Peer(z)
  BY SidesFacts
<1>2. Types
  BY DEF Base
<1>3. /\ q # <<>> /\ engine' = [engine EXCEPT ![z] = g]
      /\ delivered' = IF v.type = "data"
                      THEN [delivered EXCEPT ![z][v.stream] = @ + v.len] ELSE delivered
      /\ closed' = IF v.type = "stream_closed"
                   THEN [closed EXCEPT ![z] = @ \union {v.stream}] ELSE closed
      /\ phase' = IF Answers(z, v)
                  THEN [phase EXCEPT ![z][v.stream] = "open"]
                  ELSE IF v.type = "stream_window_available" /\ phase[z][v.stream] = "waiting"
                  THEN [phase EXCEPT ![z][v.stream] = "sending"]
                  ELSE phase
      /\ UNCHANGED <<frame, payload_bytes_read, body, accepted>>
  BY DEF HandleEvent
<1>4. e \in EngineSet /\ q \in Seq(EventSet) /\ e.pending_out \in Seq(FrameSet)
  BY BaseTypes
<1>5. /\ g \in EngineSet /\ KeepsWindows(e, g) /\ g.flow = e.flow
      /\ g.pending_out = e.pending_out /\ g.event_queue = Tail(q)
  BY <1>3, <1>4, NextEventSays
<1>6. /\ v \in GoodEvents(z) /\ v \in EventSet
      /\ v.type \in {"data", "stream_closed", "new_stream", "stream_window_available"} =>
           v.stream \in Streams
      /\ v.type = "new_stream" => Opened(v.stream)
  BY <1>3, HeadEvent
<1> HIDE DEF g, v
<1>7. engine' \in [Sides -> EngineSet] /\ engine'[z] = g /\ engine'[Peer(z)] = engine[Peer(z)]
  <2>1. engine \in [Sides -> EngineSet]
    BY <1>2 DEF Types
  <2> QED  BY <1>3, <1>5, <2>1, OneEngine
<1>8. Calls(z, <<>>)
  <2>1. g.pending_out = e.pending_out \o <<>> /\ <<>> \in Seq(FrameSet)
    BY <1>4, <1>5
  <2> QED  BY <1>3, <1>7, <2>1 DEF Calls
<1>9. engine["server"].state # "awaiting_preface"
  BY <1>3 DEF Base, StartOK
<1>10. /\ delivered' \in [Sides -> [Streams -> Nat]]
       /\ \A t \in Streams : delivered'[z][t] = delivered[z][t] + BytesOf(v, t)
       /\ \A t \in Streams : delivered'[Peer(z)][t] = delivered[Peer(z)][t]
  <2>1. delivered \in [Sides -> [Streams -> Nat]]
    BY <1>2 DEF Types
  <2>2. v.len \in Nat
    BY <1>6 DEF EventSet
  <2>3. CASE v.type = "data"
    <3> DEFINE s == v.stream
               n == delivered[z][s] + v.len
    <3>1. s \in Streams
      BY <1>6, <2>3
    <3>2. n \in Nat /\ delivered' = [delivered EXCEPT ![z][s] = n]
      BY <1>3, <2>1, <2>2, <2>3, <3>1
    <3>3. BytesOf(v, s) = v.len /\ \A t \in Streams : t # s => BytesOf(v, t) = 0
      BY <2>3 DEF BytesOf
    <3>4. n = delivered[z][s] + v.len
      OBVIOUS
    <3> HIDE DEF s, n
    <3>5. /\ delivered' \in [Sides -> [Streams -> Nat]] /\ delivered'[z][s] = n
          /\ \A x \in Sides, t \in Streams : x # z \/ t # s => delivered'[x][t] = delivered[x][t]
      BY <2>1, <3>1, <3>2, TableUpdate
    <3>6. ASSUME NEW t \in Streams
          PROVE  delivered'[z][t] = delivered[z][t] + BytesOf(v, t)
      <4>1. delivered[z][t] \in Nat
        BY <2>1
      <4>2. CASE t = s
        BY <3>3, <3>4, <3>5, <4>2
      <4>3. CASE t # s
        BY <3>3, <3>5, <4>1, <4>3
      <4> QED  BY <4>2, <4>3
    <3> QED  BY <1>1, <3>5, <3>6
  <2>4. CASE v.type # "data"
    <3>1. delivered' = delivered /\ \A t \in Streams : BytesOf(v, t) = 0
      BY <1>3, <2>4 DEF BytesOf
    <3> QED  BY <2>1, <3>1
  <2> QED  BY <2>3, <2>4
<1>11. /\ closed' \in [Sides -> SUBSET Streams]
       /\ \A t \in Streams :
            t \in closed'[z] <=> t \in closed[z] \/ (v.type = "stream_closed" /\ t = v.stream)
       /\ closed'[Peer(z)] = closed[Peer(z)]
  <2>1. closed \in [Sides -> SUBSET Streams]
    BY <1>2 DEF Types
  <2>2. CASE v.type = "stream_closed"
    <3> DEFINE c == closed[z] \union {v.stream}
    <3>1. v.stream \in Streams
      BY <1>6, <2>2
    <3>2. c \in SUBSET Streams /\ closed' = [closed EXCEPT ![z] = c]
      BY <1>3, <2>1, <2>2, <3>1
    <3> HIDE DEF c
    <3> DEFINE T == SUBSET Streams
    <3>3. closed \in [Sides -> T] /\ c \in T /\ closed' = [closed EXCEPT ![z] = c]
      BY <2>1, <3>2
    <3> HIDE DEF T
    <3>4. closed' \in [Sides -> T] /\ closed'[z] = c /\ closed'[Peer(z)] = closed[Peer(z)]
      BY <3>3, SideUpdate
    <3> QED  BY <2>2, <3>4 DEF c, T
  <2>3. CASE v.type # "stream_closed"
    BY <1>3, <2>1, <2>3
  <2> QED  BY <2>2, <2>3
<1>12. /\ phase' \in [Sides -> [Streams -> Phases]]
       /\ \A x \in Sides, t \in Streams :
            \/ phase'[x][t] = phase[x][t]
            \/ Opened(t) /\ phase[x][t] = "none" /\ phase'[x][t] = "open"
            \/ phase[x][t] = "waiting" /\ phase'[x][t] = "sending"
  <2>1. phase \in [Sides -> [Streams -> Phases]] /\ "open" \in Phases /\ "sending" \in Phases
    BY <1>2 DEF Types, Phases
  <2> DEFINE s == v.stream
  <2>2. CASE Answers(z, v)
    <3>1. v.type = "new_stream" /\ phase[z][s] = "none"
      BY <2>2 DEF Answers
    <3>2. s \in Streams /\ Opened(s) /\ phase' = [phase EXCEPT ![z][s] = "open"]
      BY <1>3, <1>6, <2>2, <3>1
    <3> HIDE DEF s
    <3>3. /\ phase' \in [Sides -> [Streams -> Phases]] /\ phase'[z][s] = "open"
          /\ \A x \in Sides, t \in Streams : x # z \/ t # s => phase'[x][t] = phase[x][t]
      BY <2>1, <3>2, TableUpdate
    <3> QED  BY <3>1, <3>2, <3>3
  <2>3. CASE ~Answers(z, v) /\ v.type = "stream_window_available" /\ phase[z][s] = "waiting"
    <3>1. s \in Streams /\ phase' = [phase EXCEPT ![z][s] = "sending"]
      BY <1>3, <1>6, <2>3
    <3> HIDE DEF s
    <3>2. /\ phase' \in [Sides -> [Streams -> Phases]] /\ phase'[z][s] = "sending"
          /\ \A x \in Sides, t \in Streams : x # z \/ t # s => phase'[x][t] = phase[x][t]
      BY <2>1, <3>1, TableUpdate
    <3> QED  BY <2>3, <3>2
  <2>4. CASE ~Answers(z, v) /\ ~(v.type = "stream_window_available" /\ phase[z][s] = "waiting")
    BY <1>3, <2>1, <2>4
  <2> QED  BY <2>2, <2>3, <2>4
<1>13. Progress
  <2>1. \A x \in Sides : Settled(engine[x], engine'[x])
    <3>1. Settled(e, g)
      BY <1>5 DEF KeepsWindows, Running
    <3> QED  BY <1>1, <1>7, <3>1 DEF Settled
  <2>2. \A x \in Sides, t \in Streams :
          /\ phase[x][t] = "done" => phase'[x][t] = "done"
          /\ phase[x][t] # "none" => phase'[x][t] # "none"
    BY <1>12
  <2> QED  BY <1>3, <2>1, <2>2 DEF Progress
<1>14. accepted' = accepted
  BY <1>3
<1> HIDE DEF e, q
<1>15. Takes(z, v)
  BY <1>3, <1>5, <1>6, <1>7, <1>8, <1>9, <1>10, <1>11, <1>12, <1>13, <1>14 DEF Takes, e, q, v
<1> QED  BY <1>15 DEF v, q, e

\* Draining an event keeps Base.
LEMMA TakesBase ==
  ASSUME Base, NEW z \in Sides, NEW v, Takes(z, v)
  PROVE  Base'
<1>1. /\ Peer(z) \in Sides /\ Peer(z) # z
      /\ \A x \in Sides : x = z \/ x = Peer(z)
      /\ "client" \in Sides /\ "server" \in Sides
  BY SidesFacts
<1>2. Calls(z, <<>>) /\ Progress
  BY DEF Takes
<1>3. Appends(z, <<>>) /\ OnWay(z)' = OnWay(z)
  BY <1>2, CallMoves
<1>4. engine'[Peer(z)] = engine[Peer(z)] /\ body' = body
  BY <1>2 DEF Calls
<1>5. \A x \in Sides : Running(engine[x], engine'[x])
  <2>1. Running(engine[z], engine'[z])
    BY DEF Takes, KeepsWindows
  <2>2. Running(engine[Peer(z)], engine'[Peer(z)])
    BY <1>4 DEF Running, Settled
  <2> QED  BY <1>1, <2>1, <2>2
<1>6. Types /\ FramesOK /\ EventsOK
  BY DEF Base
<1>7. Types' /\ \A x \in Sides : ReadingOK(x)'
  <2>1. phase' \in [Sides -> [Streams -> Phases]] /\ accepted' = accepted
        /\ delivered' \in [Sides -> [Streams -> Nat]] /\ closed' \in [Sides -> SUBSET Streams]
    BY DEF Takes
  <2>2. accepted' \in [Sides -> [Streams -> Nat]]
    BY <1>6, <2>1 DEF Types
  <2> QED  BY <1>2, <2>1, <2>2, CallTypes
<1>8. StartOK'
  BY <1>5, StartAwake DEF Takes
<1>9. OnWay(z)' \in Seq(GoodFrames(z)')
  <2>1. OnWay(z) \in Seq(GoodFrames(z)) /\ GoodFrames(z) \subseteq GoodFrames(z)'
    BY <1>2, <1>6, GoodGrow DEF FramesOK
  <2> QED  BY <1>3, <2>1, SeqGrow
<1>10. engine'[z].event_queue \in Seq(GoodEvents(z)')
  <2> DEFINE q == engine[z].event_queue
             S == GoodEvents(z)
             T == GoodEvents(z)'
  <2>1. q \in Seq(S) /\ S \subseteq T
    BY <1>2, <1>6, GoodGrow DEF EventsOK
  <2>2. engine'[z].event_queue = Tail(q) /\ q # <<>>
    BY DEF Takes
  <2> HIDE DEF q, S, T
  <2>3. Tail(q) \in Seq(S)
    BY <2>1, <2>2
  <2>4. Tail(q) \in Seq(T)
    BY <2>1, <2>3, SeqGrow
  <2> QED  BY <2>2, <2>4 DEF T
<1>11. ASSUME NEW t \in Streams
       PROVE  PhaseOK(t)'
  <2>1. PhaseOK(t)
    BY DEF Base
  <2>2. ASSUME NEW x \in Sides
        PROVE  engine'[x].flow[t].tracked => Opened(t)
    <3>1. engine[x].flow[t].tracked => Opened(t)
      BY <2>1 DEF PhaseOK
    <3>2. engine'[z].flow = engine[z].flow
      BY DEF Takes
    <3> QED  BY <1>1, <1>4, <3>1, <3>2
  <2>3. \A x \in Sides :
          \/ phase'[x][t] = phase[x][t]
          \/ Opened(t) /\ phase[x][t] = "none" /\ phase'[x][t] = "open"
          \/ phase[x][t] = "waiting" /\ phase'[x][t] = "sending"
    BY DEF Takes
  <2>4. \A x \in Sides : phase[x][t] # "none" => Opened(t)
    BY <2>1 DEF PhaseOK, Opened, Sides
  <2>5. phase'["client"][t] # "none" \/ phase'["server"][t] # "none" => Opened(t)
    BY <1>1, <2>3, <2>4
  <2>6. ASSUME NEW x \in Sides
        PROVE  Booked(x, t)'
    <3>1. Booked(x, t)
      BY <2>1 DEF PhaseOK
    <3>2. BodyOf(x, t)' = BodyOf(x, t) /\ accepted'[x][t] = accepted[x][t]
      BY <1>4 DEF BodyOf, Takes
    <3> QED  BY <2>3, <3>1, <3>2 DEF Booked
  <2>7. ASSUME NEW x \in Sides, t \in closed'[x]
        PROVE  phase[Peer(x)][t] = "done"
    <3>1. t \in closed[x] => phase[Peer(x)][t] = "done"
      BY <2>1 DEF PhaseOK
    <3>2. x = z /\ v.type = "stream_closed" /\ t = v.stream => phase[Peer(x)][t] = "done"
      BY DEF Takes, GoodEvents, GoodEvent
    <3>3. t \in closed[x] \/ (x = z /\ v.type = "stream_closed" /\ t = v.stream)
      BY <1>1, <2>7 DEF Takes
    <3> QED  BY <3>1, <3>2, <3>3
  <2> QED  BY <1>2, <1>5, <2>2, <2>5, <2>6, <2>7, PhaseKept
<1>12. ASSUME NEW t \in Streams
       PROVE  /\ accepted'[z][t] = accepted[z][t] + DataIn(<<>>, t)
              /\ accepted'[Peer(z)][t] = accepted[Peer(z)][t]
              /\ delivered'[Peer(z)][t] = delivered[Peer(z)][t]
              /\ delivered'[z][t] + BytesIn(engine'[z].event_queue, t) + DataIn(OnWay(z)', t)
                   = delivered[z][t] + BytesIn(engine[z].event_queue, t) + DataIn(OnWay(z), t)
  <2> DEFINE q == engine[z].event_queue
  <2>1. accepted[z][t] \in Nat /\ delivered[z][t] \in Nat /\ q \in Seq(EventSet)
        /\ OnWay(z) \in Seq(FrameSet)
    BY BaseTypes
  <2>2. DataIn(<<>>, t) = 0 /\ DataIn(OnWay(z), t) \in Nat
    BY <2>1, DataInFacts
  <2>3. /\ q # <<>> /\ v = Head(q) /\ engine'[z].event_queue = Tail(q) /\ accepted' = accepted
        /\ delivered'[z][t] = delivered[z][t] + BytesOf(v, t)
        /\ delivered'[Peer(z)][t] = delivered[Peer(z)][t]
    BY DEF Takes
  <2> HIDE DEF q
  <2>4. Tail(q) \in Seq(EventSet)
    BY <2>1, <2>3
  <2>5. BytesIn(q, t) = BytesOf(v, t) + BytesIn(Tail(q), t) /\ BytesIn(Tail(q), t) \in Nat
    BY <2>1, <2>3, <2>4, BytesInFacts
  <2>6. v.len \in Nat
    <3>1. v \in EventSet
      BY <2>1, <2>3
    <3> QED  BY <3>1 DEF EventSet
  <2>7. BytesOf(v, t) \in Nat
    BY <2>6 DEF BytesOf
  <2> DEFINE dn == DataIn(OnWay(z), t)
             b  == BytesOf(v, t)
             k  == BytesIn(Tail(q), t)
  <2>8. b \in Nat /\ k \in Nat /\ dn \in Nat
    BY <2>2, <2>5, <2>7
  <2>9. DataIn(OnWay(z)', t) = dn
    BY <1>3
  <2>10. delivered'[z][t] = delivered[z][t] + b /\ BytesIn(q, t) = b + k
    BY <2>3, <2>5
  <2>11. BytesIn(engine'[z].event_queue, t) = k
    BY <2>3
  <2> HIDE DEF b, k, dn
  <2>12. delivered[z][t] + b + k + dn = delivered[z][t] + (b + k) + dn
    BY <2>1, <2>8
  <2>13. accepted[z][t] + 0 = accepted[z][t]
    BY <2>1
  <2> QED  BY <2>2, <2>3, <2>9, <2>10, <2>11, <2>12, <2>13 DEF dn, q
<1>13. \A T : <<>> \in Seq(T)
  OBVIOUS
<1>14. <<>> \in Seq(GoodFrames(Peer(z))')
  BY <1>13
<1>15. engine'[Peer(z)].event_queue = engine[Peer(z)].event_queue
  BY <1>4
<1> QED  BY <1>2, <1>3, <1>5, <1>7, <1>8, <1>9, <1>10, <1>11, <1>12, <1>14, <1>15, RunningBase

----------------------------------------------------------------------------
(* The transport.                                                          *)

\* z was given input, and its engine wrote frames.
Hears(z, out) ==
  /\ engine' \in [Sides -> EngineSet] /\ out \in Seq(FrameSet)
  /\ engine'[z].pending_out = engine[z].pending_out \o out
  /\ Settled(engine[z], engine'[z])
  /\ KeepsWindows(engine[Peer(z)], engine'[Peer(z)])
  /\ engine'[Peer(z)].flow = engine[Peer(z)].flow
  /\ engine'[Peer(z)].event_queue = engine[Peer(z)].event_queue
  /\ frame' \in [Sides -> FrameSet] /\ frame'[Peer(z)] = frame[Peer(z)]
  /\ payload_bytes_read' \in [Sides -> Nat]
  /\ payload_bytes_read'[Peer(z)] = payload_bytes_read[Peer(z)]
  /\ UNCHANGED <<body, phase, accepted, delivered, closed>>

\* What reading leaves as it was.
LEMMA HearsFacts ==
  ASSUME Base, NEW z \in Sides, NEW out, Hears(z, out)
  PROVE  Appends(z, out) /\ Progress /\ Types' /\ (ReadingOK(z)' => \A x \in Sides : ReadingOK(x)')
<1>1. /\ Peer(z) \in Sides /\ Peer(Peer(z)) = z
      /\ \A x \in Sides : x = z \/ x = Peer(z)
  BY SidesFacts
<1>2. Incoming(Peer(z))' = Incoming(Peer(z)) \o out
  BY <1>1 DEF Hears, Incoming
<1> DEFINE f == frame[Peer(z)]
           r == payload_bytes_read[Peer(z)]
           w == Incoming(Peer(z))
<1>3. f \in FrameSet /\ r \in Nat /\ r <= f.len /\ w \in Seq(FrameSet) /\ out \in Seq(FrameSet)
  BY <1>1, BaseTypes DEF Hears
<1>4. OnWay(Peer(z)) = Way(f, r, w)
  BY <1>1, OnWayIs
<1>5. OnWay(Peer(z))' = Way(f, r, w \o out)
  <2>1. frame'[Peer(z)] = f /\ payload_bytes_read'[Peer(z)] = r
    BY DEF Hears
  <2> QED  BY <1>2, <2>1 DEF OnWay, Way
<1> HIDE DEF f, r, w
<1>6. Way(f, r, w \o out) = Way(f, r, w) \o out
  BY <1>3, WayGrows
<1>7. Appends(z, out)
  BY <1>3, <1>4, <1>5, <1>6 DEF Appends
<1>8. Progress
  <2>1. Settled(engine[z], engine'[z]) /\ Settled(engine[Peer(z)], engine'[Peer(z)])
    BY DEF Hears, KeepsWindows, Running
  <2>2. body' = body /\ phase' = phase
    BY DEF Hears
  <2> QED  BY <1>1, <2>1, <2>2 DEF Progress
<1>9. Types'
  BY DEF Base, Types, Hears
<1>10. ASSUME ReadingOK(z)', NEW x \in Sides
       PROVE  ReadingOK(x)'
  <2>1. ReadingOK(Peer(z))
    BY <1>1 DEF Base
  <2>2. ReadingOK(Peer(z))'
    BY <2>1 DEF ReadingOK, Hears
  <2> QED  BY <1>1, <1>10, <2>2
<1> QED  BY <1>7, <1>8, <1>9, <1>10

\* Bytes read move from one summand to another.
LEMMA SumShift ==
  \A a \in Nat, b \in Nat, c \in Nat, d \in Nat : b + c = d => a + b + c = a + 0 + d
  OBVIOUS

\* A running engine that heard something keeps the invariant.
LEMMA HearsBase ==
  ASSUME Base, NEW z \in Sides, NEW out, Hears(z, out),
         Running(engine[z], engine'[z]), engine["server"].state # "awaiting_preface",
         ReadingOK(z)', out \in Seq(GoodFrames(Peer(z))), OnWay(z)' \in Seq(GoodFrames(z)),
         engine[z].event_queue = <<>>, engine'[z].event_queue \in Seq(GoodEvents(z)),
         \A s \in Streams : engine'[z].flow[s].tracked => Opened(s),
         \A s \in Streams :
           /\ DataIn(out, s) = 0
           /\ BytesIn(engine'[z].event_queue, s) + DataIn(OnWay(z)', s) = DataIn(OnWay(z), s)
  PROVE  Base'
<1>1. /\ Peer(z) \in Sides
      /\ \A x \in Sides : x = z \/ x = Peer(z)
      /\ "client" \in Sides /\ "server" \in Sides
  BY SidesFacts
<1>2. Appends(z, out) /\ Progress /\ Types' /\ \A x \in Sides : ReadingOK(x)'
  BY HearsFacts
<1>3. Types
  BY DEF Base
<1>4. \A x \in Sides : Running(engine[x], engine'[x])
  BY <1>1 DEF Hears, KeepsWindows
<1>5. StartOK'
  BY <1>4, StartAwake
<1>6. out \in Seq(GoodFrames(Peer(z))')
  <2>1. GoodFrames(Peer(z)) \subseteq GoodFrames(Peer(z))'
    BY <1>1, <1>2, <1>3, GoodGrow
  <2> QED  BY <2>1, SeqGrow
<1>7. OnWay(z)' \in Seq(GoodFrames(z)') /\ engine'[z].event_queue \in Seq(GoodEvents(z)')
  <2>1. GoodFrames(z) \subseteq GoodFrames(z)' /\ GoodEvents(z) \subseteq GoodEvents(z)'
    BY <1>2, <1>3, GoodGrow
  <2> QED  BY <2>1, SeqGrow
<1>8. ASSUME NEW s \in Streams
      PROVE  PhaseOK(s)'
  <2>1. PhaseOK(s)
    BY DEF Base
  <2>2. phase' = phase /\ accepted' = accepted /\ closed' = closed /\ body' = body
    BY DEF Hears
  <2>3. engine'[Peer(z)].flow = engine[Peer(z)].flow
    BY DEF Hears
  <2>4. \A x \in Sides : engine'[x].flow[s].tracked => Opened(s)
    BY <1>1, <2>1, <2>3 DEF PhaseOK
  <2>5. phase'["client"][s] # "none" \/ phase'["server"][s] # "none" => Opened(s)
    BY <2>1, <2>2 DEF PhaseOK, Opened
  <2>6. \A x \in Sides : Booked(x, s)'
    BY <2>1, <2>2, BookedKept DEF PhaseOK
  <2>7. \A x \in Sides : s \in closed'[x] => phase[Peer(x)][s] = "done"
    BY <2>1, <2>2 DEF PhaseOK
  <2> QED  BY <1>2, <1>4, <2>4, <2>5, <2>6, <2>7, PhaseKept
<1>9. ASSUME NEW s \in Streams
      PROVE  /\ accepted'[z][s] = accepted[z][s] + DataIn(out, s)
             /\ accepted'[Peer(z)][s] = accepted[Peer(z)][s]
             /\ delivered'[Peer(z)][s] = delivered[Peer(z)][s]
             /\ delivered'[z][s] + BytesIn(engine'[z].event_queue, s) + DataIn(OnWay(z)', s)
                  = delivered[z][s] + BytesIn(engine[z].event_queue, s) + DataIn(OnWay(z), s)
  <2>1. accepted' = accepted /\ delivered' = delivered
    BY DEF Hears
  <2>2. accepted[z][s] \in Nat /\ delivered[z][s] \in Nat /\ OnWay(z) \in Seq(FrameSet)
    BY BaseTypes
  <2> DEFINE q  == engine'[z].event_queue
             w  == OnWay(z)'
             k  == BytesIn(q, s)
             d1 == DataIn(w, s)
             d0 == DataIn(OnWay(z), s)
  <2>3. w \in Seq(FrameSet) /\ q \in Seq(EventSet)
    <3>1. GoodFrames(z) \subseteq FrameSet /\ GoodEvents(z) \subseteq EventSet
      BY DEF GoodFrames, GoodEvents
    <3> QED  BY <3>1, SeqGrow
  <2> HIDE DEF q, w
  <2>4. k \in Nat /\ d1 \in Nat /\ d0 \in Nat
    BY <2>2, <2>3, BytesInFacts, DataInFacts
  <2>5. BytesIn(<<>>, s) = 0
    BY BytesInFacts
  <2>6. k + d1 = d0 /\ DataIn(out, s) = 0
    BY DEF q, w
  <2> HIDE DEF k, d1, d0
  <2>7. delivered[z][s] + k + d1 = delivered[z][s] + 0 + d0
    BY ONLY SMTT(30), <2>2, <2>4, <2>6, SumShift
  <2>8. accepted[z][s] + 0 = accepted[z][s]
    BY <2>2
  <2> QED  BY <2>1, <2>5, <2>6, <2>7, <2>8 DEF k, d1, d0, q, w
<1>10. engine'[Peer(z)].event_queue = engine[Peer(z)].event_queue
  BY DEF Hears
<1> QED  BY <1>2, <1>4, <1>5, <1>6, <1>7, <1>8, <1>9, <1>10, RunningBase

\* The preface.
LEMMA ReadPrefaceStep ==
  ASSUME Base, ReadPreface
  PROVE  LET e == engine["server"]
             g == engine'["server"]
         IN
         /\ Hears("server", Hello(e))
         /\ e.state = "awaiting_preface" /\ g.state = "ready"
         /\ SameCredit(e, g) /\ SameFlows(e, g, Streams) /\ g.flow = e.flow
         /\ e.event_queue = <<>> /\ g.event_queue = <<>>
         /\ frame' = frame /\ payload_bytes_read' = payload_bytes_read
         /\ OnWay("server") # <<>> /\ Head(OnWay("server")).type = "preface"
         /\ OnWay("server")' = Tail(OnWay("server"))
         /\ engine["client"].state # "idle"
<1> DEFINE e == engine["server"]
           c == engine["client"]
           g == ReceivePreface(e, TRUE)
           d == OutputEnd(c, 1)
<1>1. "client" \in Sides /\ "server" \in Sides
      /\ Peer("server") = "client" /\ Peer("client") = "server"
  BY SidesFacts
<1>2. e \in EngineSet /\ c \in EngineSet /\ ~e.bad_preface
      /\ c.pending_out \in Seq(FrameSet) /\ e.event_queue \in Seq(EventSet)
  BY <1>1, BaseTypes DEF Base, RoleOK
<1>3. /\ e.state = "awaiting_preface" /\ c.pending_out # <<>>
      /\ engine' = [client |-> d, server |-> g]
      /\ UNCHANGED <<frame, payload_bytes_read, body, phase, accepted, delivered, closed>>
  BY <1>1 DEF ReadPreface, Incoming
<1>4. Taken(c, d)
  BY <1>2, <1>3, OutputEndSays
<1>5. /\ Says(e, g, Hello(e), <<>>)
      /\ Settled(e, g) /\ SameCredit(e, g) /\ SameFlows(e, g, Streams) /\ g.flow = e.flow
      /\ g.next_stream_id = e.next_stream_id /\ g.state = "ready"
  BY <1>2, ReceivePrefaceSays
<1> HIDE DEF g, d
<1>6. g \in EngineSet /\ g.pending_out = e.pending_out \o Hello(e) /\ Hello(e) \in Seq(FrameSet)
      /\ g.event_queue = e.event_queue
  BY <1>2, <1>5 DEF Says
<1>7. engine'["client"] = d /\ engine'["server"] = g
  BY <1>3
<1>8. engine' \in [Sides -> EngineSet]
  <2>1. d \in EngineSet
    BY <1>4 DEF Taken
  <2> QED  BY <1>3, <1>6, <2>1 DEF Sides
<1>9. /\ frame["server"] = NoFrame /\ e.event_queue = <<>>
      /\ OnWay("client") = <<>>
      /\ c.state # "idle" => OnWay("server") # <<>> /\ Head(OnWay("server")).type = "preface"
      /\ c.state = "idle" => OnWay("server") = <<>>
  BY <1>1, <1>3 DEF Base, StartOK
<1>10. payload_bytes_read["server"] = 0
  BY <1>1, <1>9 DEF Base, ReadingOK
<1>11. OnWay("server") = c.pending_out
  <2>1. OnWay("server") = Way(NoFrame, 0, c.pending_out)
    BY <1>1, <1>9, <1>10, OnWayIs DEF Incoming
  <2> QED  BY <1>2, <2>1, WayBetween
<1>12. OnWay("server")' = d.pending_out
  <2>1. frame'["server"] = NoFrame /\ payload_bytes_read'["server"] = 0
        /\ Incoming("server")' = d.pending_out
    BY <1>1, <1>3, <1>7, <1>9, <1>10 DEF Incoming
  <2>2. d.pending_out \in Seq(FrameSet)
    BY <1>4, MemberTypes DEF Taken
  <2>3. OnWay("server")' = Way(NoFrame, 0, d.pending_out)
    BY <2>1 DEF OnWay, Way
  <2> QED  BY <2>2, <2>3, WayBetween
<1>13. d.pending_out = Tail(c.pending_out)
  BY <1>4 DEF Taken
<1>14. Types
  BY DEF Base
<1>15. Hears("server", Hello(e))
  BY <1>1, <1>3, <1>4, <1>5, <1>6, <1>7, <1>8, <1>14 DEF Hears, Taken, Types
<1>16. c.state # "idle"
  BY <1>3, <1>9, <1>11
<1> QED  BY <1>3, <1>5, <1>6, <1>7, <1>9, <1>11, <1>12, <1>13, <1>15, <1>16

\* Reading the preface keeps Base.
LEMMA ReadPrefaceBase ==
  ASSUME Base, ReadPreface
  PROVE  Base'
<1> DEFINE e == engine["server"]
           g == engine'["server"]
           out == Hello(e)
           w == OnWay("server")
<1>1. /\ "client" \in Sides /\ "server" \in Sides
      /\ Peer("server") = "client" /\ Peer("client") = "server"
  BY SidesFacts
<1>2. /\ Hears("server", out)
      /\ g.state = "ready" /\ g.flow = e.flow
      /\ e.event_queue = <<>> /\ g.event_queue = <<>>
      /\ frame' = frame /\ payload_bytes_read' = payload_bytes_read
      /\ w # <<>> /\ Head(w).type = "preface" /\ OnWay("server")' = Tail(w)
      /\ engine["client"].state # "idle"
  BY ReadPrefaceStep
<1>3. ReadingOK("server")'
  <2>1. ReadingOK("server")
    BY <1>1 DEF Base
  <2> QED  BY <1>2, <2>1 DEF ReadingOK
<1>4. Appends("server", out) /\ Progress /\ Types' /\ \A x \in Sides : ReadingOK(x)'
  BY <1>1, <1>2, <1>3, HearsFacts
<1>5. /\ Types /\ FramesOK /\ EventsOK /\ StartOK
      /\ \A x \in Sides : RoleOK(x)
      /\ \A s \in Streams : PhaseOK(s)
      /\ \A x \in Sides, s \in Streams : NothingLost(x, s)
  BY DEF Base
<1>6. /\ out \in Seq(GoodFrames("client"))
      /\ \A t \in Streams \union {0} : DataIn(out, t) = 0
  BY <1>1, HelloGood
<1>7. /\ phase' = phase /\ accepted' = accepted /\ delivered' = delivered /\ closed' = closed
      /\ body' = body
      /\ Settled(e, g) /\ KeepsWindows(engine["client"], engine'["client"])
      /\ engine'["client"].flow = engine["client"].flow
      /\ engine'["client"].event_queue = engine["client"].event_queue
  BY <1>1, <1>2 DEF Hears
<1> HIDE DEF g, out
<1>8. ASSUME NEW x \in Sides
      PROVE  RoleOK(x)'
  <2>1. RoleOK("client") /\ RoleOK("server")
    BY <1>1, <1>5
  <2>2. RoleOK("server")'
    BY <1>1, <1>2, <1>7, <2>1, RoleKept DEF g
  <2>3. RoleOK("client")'
    BY <1>7, <2>1 DEF RoleOK, KeepsWindows, Running, Settled
  <2> QED  BY <2>2, <2>3 DEF Sides
<1>9. StartOK'
  <2>1. engine'["client"].state # "idle"
    BY <1>2, <1>7 DEF KeepsWindows, Running
  <2> QED  BY <1>2, <2>1 DEF StartOK, g
<1>10. FramesOK'
  <2>1. out \in Seq(GoodFrames(Peer("server"))')
    <3>1. GoodFrames("client") \subseteq GoodFrames("client")'
      BY <1>1, <1>4, <1>5, GoodGrow
    <3> QED  BY <1>1, <1>6, <3>1, SeqGrow
  <2>2. OnWay("server")' \in Seq(GoodFrames("server")')
    <3> DEFINE S == GoodFrames("server")
               T == GoodFrames("server")'
    <3>1. S \subseteq T
      BY <1>1, <1>4, <1>5, GoodGrow
    <3>2. w \in Seq(S)
      BY <1>1, <1>5 DEF FramesOK
    <3> HIDE DEF S, T, w
    <3>3. Tail(w) \in Seq(S)
      BY <1>2, <3>2
    <3>4. Tail(w) \in Seq(T)
      BY <3>1, <3>3, SeqGrow
    <3> QED  BY <1>2, <3>4 DEF T
  <2> QED  BY <1>1, <1>4, <1>5, <2>1, <2>2, FramesKept
<1>11. EventsOK'
  <2>1. \A T : <<>> \in Seq(T)
    OBVIOUS
  <2>2. engine'["server"].event_queue \in Seq(GoodEvents("server")')
    BY <1>2, <2>1 DEF g
  <2> QED  BY <1>1, <1>4, <1>5, <1>7, <2>2, EventsKept
<1>12. ASSUME NEW s \in Streams
       PROVE  PhaseOK(s)'
  <2>1. PhaseOK(s)
    BY <1>5
  <2>2. engine'["client"].next_stream_id = engine["client"].next_stream_id
    BY <1>7 DEF KeepsWindows, Running
  <2>3. \A x \in Sides : engine'[x].flow = engine[x].flow
    BY <1>2, <1>7 DEF Sides, g
  <2>4. Opened(s)' <=> Opened(s)
    BY <1>7 DEF Opened
  <2>5. \A x \in Sides : Booked(x, s)'
    BY <1>7, <2>1, BookedKept DEF PhaseOK
  <2> QED  BY <1>7, <2>1, <2>2, <2>3, <2>4, <2>5 DEF PhaseOK
<1>13. ASSUME NEW s \in Streams
       PROVE  \A x \in Sides : NothingLost(x, s)'
  <2>1. /\ NothingLost("client", s) /\ NothingLost("server", s)
        /\ OnWay("client") \in Seq(FrameSet) /\ accepted["server"][s] \in Nat
        /\ delivered["client"][s] \in Nat /\ BytesIn(engine["client"].event_queue, s) \in Nat
        /\ w \in Seq(FrameSet)
    BY <1>1, <1>5, BaseTypes
  <2>2. DataIn(out, s) = 0
    BY <1>6
  <2>3. accepted'["server"][s] = accepted["server"][s] + DataIn(out, s)
    BY <1>7, <2>1, <2>2
  <2>4. DataIn(OnWay("server")', s) = DataIn(OnWay("server"), s)
    <3> HIDE DEF w
    <3>1. Head(w) \in FrameSet /\ Tail(w) \in Seq(FrameSet)
      BY <1>2, <2>1
    <3>2. DataIn(w, s) = DataOf(Head(w), s) + DataIn(Tail(w), s) /\ DataIn(Tail(w), s) \in Nat
      BY <1>2, <2>1, <3>1, DataInFacts
    <3>3. DataOf(Head(w), s) = 0
      BY <1>2 DEF DataOf
    <3>4. DataIn(Tail(w), s) = DataIn(w, s)
      BY ONLY <3>2, <3>3
    <3>5. OnWay("server")' = Tail(w)
      BY <1>2 DEF w
    <3> QED  BY ONLY <3>4, <3>5 DEF w
  <2>5. delivered'["server"][s] + BytesIn(engine'["server"].event_queue, s)
            + DataIn(OnWay("server")', s)
          = delivered["server"][s] + BytesIn(engine["server"].event_queue, s)
              + DataIn(OnWay("server"), s)
    BY <1>2, <1>7, <2>4 DEF g
  <2> QED  BY <1>1, <1>4, <1>5, <1>7, <2>1, <2>3, <2>5, LostKept
<1> QED  BY <1>4, <1>8, <1>9, <1>10, <1>11, <1>12, <1>13 DEF Base

\* The first frame on the way is one of those that may be on the way.
LEMMA HeadFrame ==
  ASSUME Base, NEW z \in Sides, OnWay(z) # <<>>
  PROVE  LET f == Head(OnWay(z)) IN
         /\ f \in GoodFrames(z) /\ f \in FrameSet
         /\ f.end => f.len # 0
         /\ f.len = 0 => f.type \in {"preface", "settings_ack"}
         /\ f.type \in FrameTypes /\ f # NoFrame
<1> DEFINE q == OnWay(z)
           f == Head(q)
<1>1. q \in Seq(GoodFrames(z))
  BY DEF Base, FramesOK
<1>2. f \in GoodFrames(z)
  BY <1>1
<1>3. f \in FrameSet /\ GoodFrame(z, f)
  BY <1>2 DEF GoodFrames
<1> HIDE DEF f, q
<1>4. \/ f.type = "preface" /\ f.stream = 0 /\ f.len = 0
      \/ f.type = "settings" /\ f.stream = 0 /\ f.len = 1
      \/ f.type = "settings_ack" /\ f.stream = 0 /\ f.len = 0
      \/ f.type = "headers" /\ f.len \in 1 .. 2
      \/ f.type = "data" /\ f.len > 0
      \/ f.type = "window_update" /\ f.len = 1
  BY <1>3 DEF GoodFrame
<1>5. f.end => f.type \in {"data", "headers"}
  BY <1>3 DEF GoodFrame, Content
<1>6. f.end => f.len # 0
  BY <1>4, <1>5
<1>7. f.len = 0 => f.type \in {"preface", "settings_ack"}
  BY <1>4
<1>8. f.type \in FrameTypes
  BY <1>4 DEF FrameTypes
<1>9. f # NoFrame
  BY <1>8, NoFrameIs DEF FrameTypes
<1> QED  BY <1>2, <1>3, <1>6, <1>7, <1>8, <1>9 DEF f, q

\* An acknowledgement is good to have on the way.
LEMMA AnswerGood ==
  ASSUME NEW z \in Sides, NEW f
  PROVE  /\ Answer(f) \in Seq(GoodFrames(Peer(z)))
         /\ \A i \in DOMAIN Answer(f) : ~Content(Answer(f)[i])
         /\ \A t \in Streams \union {0} : DataIn(Answer(f), t) = 0 /\ CreditIn(Answer(f), t) = 0
<1> DEFINE a == SettingsAck
           G == GoodFrames(Peer(z))
<1>1. a \in FrameSet /\ a.type = "settings_ack" /\ a.stream = 0 /\ a.len = 0 /\ ~a.end
  BY DEF SettingsAck, Frame, FrameSet, FrameTypes
<1>2. a \in G
  BY <1>1 DEF GoodFrames, GoodFrame
<1>3. Answer(f) = <<a>> \/ Answer(f) = <<>>
  BY DEF Answer
<1> HIDE DEF a, G
<1>4. <<a>> \in Seq(G) /\ <<>> \in Seq(G)
  BY <1>2
<1>5. ASSUME NEW t \in Streams \union {0}
      PROVE  DataIn(Answer(f), t) = 0 /\ CreditIn(Answer(f), t) = 0
  <2>1. DataIn(<<a>>, t) = DataOf(a, t) /\ DataIn(<<>>, t) = 0
    BY <1>1, DataInFacts
  <2>2. CreditIn(<<a>>, t) = CreditOf(a, t) /\ CreditIn(<<>>, t) = 0
    BY <1>1, CreditInFacts
  <2>3. DataOf(a, t) = 0 /\ CreditOf(a, t) = 0
    BY <1>1 DEF DataOf, CreditOf
  <2> QED  BY <1>3, <2>1, <2>2, <2>3
<1>6. \A i \in DOMAIN Answer(f) : ~Content(Answer(f)[i])
  <2>1. CASE Answer(f) = <<a>>
    BY <1>1, <2>1 DEF Content
  <2>2. CASE Answer(f) = <<>>
    BY <2>2
  <2> QED  BY <1>3, <2>1, <2>2
<1> QED  BY <1>3, <1>4, <1>5, <1>6 DEF G

\* z was given the header of frame f.
HearsHeader(z, f) ==
  LET e == engine[z]
      g == engine'[z]
  IN
  /\ Hears(z, Answer(f)) /\ ReadingOK(z)'
  /\ KeepsWindows(e, g) /\ g.flow = e.flow
  /\ engine["server"].state # "awaiting_preface"
  /\ e.event_queue = <<>> /\ g.event_queue = <<>>
  /\ OnWay(z) # <<>> /\ f = Head(OnWay(z))
  /\ OnWay(z)' = IF f.len = 0 THEN Tail(OnWay(z)) ELSE OnWay(z)

\* Reading a frame header is hearing it.
LEMMA ReadFrameHeaderStep ==
  ASSUME Base, NEW z \in Sides, ReadFrameHeader(z)
  PROVE  HearsHeader(z, Head(OnWay(z)))
<1> DEFINE e == engine[z]
           c == engine[Peer(z)]
           w == Incoming(z)
           f == Head(w)
           g == HandleFrameHeader(e, f)
           d == OutputEnd(c, 1)
<1>1. Peer(z) \in Sides /\ Peer(z) # z /\ Peer(Peer(z)) = z
  BY SidesFacts
<1>2. e \in EngineSet /\ c \in EngineSet /\ w \in Seq(FrameSet) /\ e.event_queue \in Seq(EventSet)
  BY <1>1, BaseTypes
<1>3. /\ e.state # "awaiting_preface" /\ e.event_queue = <<>> /\ frame[z] = NoFrame
      /\ w # <<>>
      /\ engine' = [engine EXCEPT ![z] = g, ![Peer(z)] = d]
      /\ frame' = [frame EXCEPT ![z] = IF f.len = 0 THEN NoFrame ELSE f]
      /\ UNCHANGED <<payload_bytes_read, body, phase, accepted, delivered, closed>>
  BY DEF ReadFrameHeader, Ready
<1>4. payload_bytes_read[z] = 0
  BY <1>3 DEF Base, ReadingOK
<1>5. OnWay(z) = w
  BY <1>2, <1>3, <1>4, OnWayIs, WayBetween
<1>6. f \in FrameSet /\ (f.end => f.len # 0) /\ f # NoFrame /\ OnWay(z) # <<>>
      /\ Head(OnWay(z)) = f
  BY <1>3, <1>5, HeadFrame
<1>7. Taken(c, d)
  <2>1. c.pending_out # <<>>
    BY <1>3 DEF Incoming
  <2> QED  BY <1>2, <2>1, OutputEndSays
<1>8. Says(e, g, Answer(f), <<>>) /\ KeepsWindows(e, g) /\ g.flow = e.flow
  <2> HIDE DEF f, e
  <2> QED  BY <1>2, <1>6, FrameHeaderSays
<1> HIDE DEF g, d
<1>9. /\ g \in EngineSet /\ Answer(f) \in Seq(FrameSet)
      /\ g.pending_out = e.pending_out \o Answer(f) /\ g.event_queue = <<>>
  BY <1>3, <1>8 DEF Says
<1>10. Types
  BY DEF Base
<1>11. engine' \in [Sides -> EngineSet] /\ engine'[z] = g /\ engine'[Peer(z)] = d
  BY <1>1, <1>3, <1>7, <1>9, <1>10 DEF Types, Taken
<1> DEFINE h == IF f.len = 0 THEN NoFrame ELSE f
<1>12. h \in FrameSet
  BY <1>6, NoFrameIs
<1>13. frame' \in [Sides -> FrameSet] /\ frame'[z] = h /\ frame'[Peer(z)] = frame[Peer(z)]
  <2>1. frame \in [Sides -> FrameSet]
    BY <1>10 DEF Types
  <2>2. frame' = [frame EXCEPT ![z] = h]
    BY <1>3
  <2> HIDE DEF h
  <2> QED  BY <1>12, <2>1, <2>2, SideUpdate
<1>14. Hears(z, Answer(f))
  <2>1. /\ KeepsWindows(c, d) /\ d.flow = c.flow /\ d.event_queue = c.event_queue
    BY <1>7 DEF Taken
  <2>2. Settled(e, g)
    BY <1>8 DEF KeepsWindows, Running
  <2>3. payload_bytes_read' \in [Sides -> Nat]
    BY <1>3, <1>10 DEF Types
  <2> QED  BY <1>3, <1>9, <1>11, <1>13, <2>1, <2>2, <2>3 DEF Hears
<1>15. engine["server"].state # "awaiting_preface"
  <2>1. engine["server"].state = "awaiting_preface" => OnWay("client") = <<>>
    BY DEF Base, StartOK
  <2> QED  BY <1>3, <1>6, <2>1 DEF Sides
<1>16. Incoming(z)' = Tail(w)
  <2>1. d.pending_out = Tail(c.pending_out)
    BY <1>7 DEF Taken
  <2> QED  BY <1>11, <2>1 DEF Incoming
<1>17. OnWay(z)' = Way(h, 0, Tail(w))
  <2>1. payload_bytes_read'[z] = 0
    BY <1>3, <1>4
  <2> QED  BY <1>13, <1>16, <2>1 DEF OnWay, Way
<1>18. Tail(w) \in Seq(FrameSet)
  BY <1>2, <1>3
<1>19. CASE f.len = 0
  <2>1. h = NoFrame
    BY <1>19
  <2>2. OnWay(z)' = Tail(w)
    BY <1>17, <1>18, <2>1, WayBetween
  <2>3. ReadingOK(z)'
    BY <1>3, <1>4, <1>13, <2>1 DEF ReadingOK
  <2> QED  BY <1>3, <1>5, <1>6, <1>8, <1>9, <1>11, <1>14, <1>15, <1>19, <2>2, <2>3 DEF HearsHeader
<1>20. CASE f.len # 0
  <2>1. h = f
    BY <1>20
  <2>2. Way(f, 0, Tail(w)) = w
    BY <1>2, <1>3, <1>20, WayHeader
  <2>3. f.len \in Nat
    BY <1>6 DEF FrameSet
  <2>4. ReadingOK(z)'
    BY <1>3, <1>4, <1>6, <1>13, <1>20, <2>1, <2>3 DEF ReadingOK
  <2> QED  BY <1>3, <1>5, <1>6, <1>8, <1>9, <1>11, <1>14, <1>15, <1>17, <1>20, <2>1, <2>2, <2>4
           DEF HearsHeader
<1> QED  BY <1>19, <1>20

\* Nothing that counts is lost with a frame without payload.
LEMMA HeaderCarries ==
  ASSUME Base, NEW z \in Sides, NEW f, HearsHeader(z, f)
  PROVE  /\ OnWay(z)' \in Seq(GoodFrames(z)) /\ OnWay(z)' \in Seq(FrameSet)
         /\ \A t \in Streams \union {0} :
              /\ DataIn(OnWay(z)', t) = DataIn(OnWay(z), t)
              /\ CreditIn(OnWay(z)', t) = CreditIn(OnWay(z), t)
         /\ f.len = 0 => ~Content(f)
<1> DEFINE v == OnWay(z)
           G == GoodFrames(z)
<1>1. v # <<>> /\ f = Head(v) /\ OnWay(z)' = IF f.len = 0 THEN Tail(v) ELSE v
  BY DEF HearsHeader
<1>2. f \in FrameSet /\ (f.len = 0 => f.type \in {"preface", "settings_ack"})
  BY <1>1, HeadFrame
<1>3. v \in Seq(G) /\ v \in Seq(FrameSet)
  BY BaseTypes DEF Base, FramesOK
<1> HIDE DEF v, G
<1>4. Tail(v) \in Seq(G) /\ Tail(v) \in Seq(FrameSet)
  BY <1>1, <1>3
<1>5. ASSUME NEW t \in Streams \union {0}, f.len = 0
      PROVE  DataIn(Tail(v), t) = DataIn(v, t) /\ CreditIn(Tail(v), t) = CreditIn(v, t)
  <2>1. DataIn(v, t) = DataOf(f, t) + DataIn(Tail(v), t) /\ DataIn(Tail(v), t) \in Nat
    BY <1>1, <1>3, <1>4, DataInFacts
  <2>2. CreditIn(v, t) = CreditOf(f, t) + CreditIn(Tail(v), t) /\ CreditIn(Tail(v), t) \in Nat
    BY <1>1, <1>3, <1>4, CreditInFacts
  <2>3. DataOf(f, t) = 0 /\ CreditOf(f, t) = 0
    BY <1>2, <1>5 DEF DataOf, CreditOf
  <2> QED  BY <2>1, <2>2, <2>3
<1>6. f.len = 0 => ~Content(f)
  BY <1>2 DEF Content
<1> QED  BY <1>1, <1>3, <1>4, <1>5, <1>6 DEF v, G

\* Reading a frame header keeps Base.
LEMMA HearsHeaderBase ==
  ASSUME Base, NEW z \in Sides, NEW f, HearsHeader(z, f)
  PROVE  Base'
<1> DEFINE out == Answer(f)
<1>1. /\ Hears(z, out) /\ ReadingOK(z)' /\ engine["server"].state # "awaiting_preface"
      /\ engine[z].event_queue = <<>> /\ engine'[z].event_queue = <<>>
      /\ Running(engine[z], engine'[z]) /\ engine'[z].flow = engine[z].flow
  BY DEF HearsHeader, KeepsWindows
<1>2. OnWay(z)' \in Seq(GoodFrames(z)) /\ OnWay(z)' \in Seq(FrameSet)
      /\ \A t \in Streams \union {0} : DataIn(OnWay(z)', t) = DataIn(OnWay(z), t)
  BY HeaderCarries
<1>3. /\ out \in Seq(GoodFrames(Peer(z)))
      /\ \A t \in Streams \union {0} : DataIn(out, t) = 0
  BY AnswerGood
<1>4. \A T : <<>> \in Seq(T)
  OBVIOUS
<1>5. engine'[z].event_queue \in Seq(GoodEvents(z))
  BY <1>1, <1>4
<1>6. \A s \in Streams : engine'[z].flow[s].tracked => Opened(s)
  BY <1>1 DEF Base, PhaseOK
<1> HIDE DEF out
<1>7. ASSUME NEW s \in Streams
      PROVE  /\ DataIn(out, s) = 0
             /\ BytesIn(engine'[z].event_queue, s) + DataIn(OnWay(z)', s) = DataIn(OnWay(z), s)
  <2>1. BytesIn(<<>>, s) = 0 /\ OnWay(z) \in Seq(FrameSet)
    BY BytesInFacts, BaseTypes
  <2>2. DataIn(OnWay(z), s) \in Nat
    BY <2>1, DataInFacts
  <2>3. DataIn(OnWay(z)', s) = DataIn(OnWay(z), s) /\ DataIn(out, s) = 0
    BY <1>2, <1>3
  <2> QED  BY <1>1, <2>1, <2>2, <2>3
<1> QED  BY <1>1, <1>2, <1>3, <1>5, <1>6, <1>7, HearsBase

\* z was given n bytes of the payload of f, the first frame on its way.
Consumes(z, f, n, out, events) ==
  LET h == Head(OnWay(z)) IN
  /\ Hears(z, out) /\ ReadingOK(z)' /\ Running(engine[z], engine'[z])
  /\ engine["server"].state # "awaiting_preface"
  /\ engine[z].event_queue = <<>> /\ engine'[z].event_queue = events
  /\ events \in Seq(EventSet)
  /\ OnWay(z) # <<>> /\ f \in FrameSet
  /\ h.type = f.type /\ h.stream = f.stream /\ h.end = f.end /\ h.val = f.val
  /\ n \in Nat \ {0} /\ n <= h.len
  /\ n # h.len => MaySplit(f)
  /\ Shortened(OnWay(z), OnWay(z)', n)

\* Reading a chunk of a payload consumes it.
LEMMA PayloadConsumes ==
  ASSUME Base, NEW z \in Sides, NEW n \in 1 .. frame[z].len - payload_bytes_read[z], NEW q,
         ReadPayload(z, n, q), NEW out, NEW events, NEW g,
         g = HandlePayloadChunk(engine[z], frame[z], n, q),
         Says(engine[z], g, out, events), Running(engine[z], g)
  PROVE  Consumes(z, frame[z], n, out, events) /\ engine'[z] = g
<1> DEFINE e == engine[z]
           f == frame[z]
           r == payload_bytes_read[z]
           w == Incoming(z)
           v == OnWay(z)
<1>1. Peer(z) \in Sides /\ Peer(z) # z /\ Peer(Peer(z)) = z
  BY SidesFacts
<1>2. e \in EngineSet /\ w \in Seq(FrameSet) /\ f \in FrameSet /\ r \in Nat /\ r <= f.len
  BY BaseTypes
<1>3. f.len \in Nat
  BY <1>2 DEF FrameSet
<1>4. n \in Nat \ {0} /\ r + n <= f.len
  BY <1>2, <1>3
<1> DEFINE whole == r + n = f.len
<1>5. /\ f # NoFrame /\ e.event_queue = <<>>
      /\ whole \/ MaySplit(f)
      /\ engine' = [engine EXCEPT ![z] = g]
      /\ frame' = IF whole THEN [frame EXCEPT ![z] = NoFrame] ELSE frame
      /\ payload_bytes_read' = [payload_bytes_read EXCEPT ![z] = IF whole THEN 0 ELSE @ + n]
      /\ UNCHANGED <<body, phase, accepted, delivered, closed>>
  BY DEF ReadPayload, Ready
<1>6. v = Way(f, r, w)
  BY OnWayIs
<1>7. v # <<>> /\ Head(v) = RestOf(f, r)
      /\ Shortened(v, IF r + n = f.len THEN Way(NoFrame, 0, w) ELSE Way(f, r + n, w), n)
  <2> HIDE DEF f, r, w, v
  <2> QED  BY <1>2, <1>4, <1>5, <1>6, WayReading
<1>8. /\ RestOf(f, r).type = f.type /\ RestOf(f, r).stream = f.stream
      /\ RestOf(f, r).end = f.end /\ RestOf(f, r).val = f.val /\ RestOf(f, r).len = f.len - r
  <2> HIDE DEF f, r
  <2> QED  BY <1>2, RestIs
<1>9. /\ g \in EngineSet /\ out \in Seq(FrameSet) /\ events \in Seq(EventSet)
      /\ g.pending_out = e.pending_out \o out /\ g.event_queue = events
  BY <1>5 DEF Says
<1>10. Types
  BY DEF Base
<1>11. engine' \in [Sides -> EngineSet] /\ engine'[z] = g /\ engine'[Peer(z)] = engine[Peer(z)]
  <2>1. engine \in [Sides -> EngineSet]
    BY <1>10 DEF Types
  <2> QED  BY <1>5, <1>9, <2>1, OneEngine
<1> DEFINE fr == IF whole THEN NoFrame ELSE f
           b  == IF whole THEN 0 ELSE r + n
<1>12. fr \in FrameSet /\ b \in Nat
  BY <1>2, <1>4, NoFrameIs
<1>13. frame' \in [Sides -> FrameSet] /\ frame'[z] = fr /\ frame'[Peer(z)] = frame[Peer(z)]
  <2>1. frame \in [Sides -> FrameSet]
    BY <1>10 DEF Types
  <2>2. frame' = [frame EXCEPT ![z] = fr]
    BY <1>5, <2>1
  <2> HIDE DEF fr
  <2> QED  BY <1>12, <2>1, <2>2, SideUpdate
<1>14. /\ payload_bytes_read' \in [Sides -> Nat] /\ payload_bytes_read'[z] = b
       /\ payload_bytes_read'[Peer(z)] = payload_bytes_read[Peer(z)]
  <2>1. payload_bytes_read \in [Sides -> Nat]
    BY <1>10 DEF Types
  <2>2. payload_bytes_read' = [payload_bytes_read EXCEPT ![z] = b]
    BY <1>5, <2>1
  <2> HIDE DEF b
  <2> QED  BY <1>12, <2>1, <2>2, SideUpdate
<1>15. OnWay(z)' = Way(fr, b, w)
  <2>1. Incoming(z)' = w
    BY <1>11 DEF Incoming
  <2> HIDE DEF fr, b, w
  <2> QED  BY <1>13, <1>14, <2>1 DEF OnWay, Way
<1>16. ReadingOK(z)'
  <2>1. CASE whole
    BY <1>13, <1>14, <2>1 DEF ReadingOK
  <2>2. CASE ~whole
    <3>1. r + n < f.len
      BY <1>2, <1>3, <1>4, <2>2
    <3> QED  BY <1>5, <1>13, <1>14, <2>2, <3>1 DEF ReadingOK
  <2> QED  BY <2>1, <2>2
<1>17. Shortened(v, OnWay(z)', n)
  <2>1. OnWay(z)' = IF r + n = f.len THEN Way(NoFrame, 0, w) ELSE Way(f, r + n, w)
    BY <1>15
  <2> HIDE DEF v, w, f, r
  <2> QED  BY <1>7, <2>1
<1>18. Hears(z, out)
  <2>1. Settled(e, g)
    BY DEF Running
  <2>2. KeepsWindows(engine[Peer(z)], engine'[Peer(z)])
    BY <1>11 DEF KeepsWindows, Running, Settled, SameCredit, SameFlows, SameFlow
  <2> HIDE DEF fr, b, whole
  <2> QED  BY <1>5, <1>9, <1>11, <1>13, <1>14, <2>1, <2>2 DEF Hears
<1>19. engine["server"].state # "awaiting_preface"
  <2>1. engine["server"].state = "awaiting_preface" =>
          OnWay("client") = <<>> /\ frame["server"] = NoFrame
    BY DEF Base, StartOK
  <2> QED  BY <1>5, <1>7, <2>1 DEF Sides
<1>20. n <= f.len - r /\ (n # f.len - r => MaySplit(f))
  BY <1>2, <1>3, <1>4, <1>5
<1> HIDE DEF e, f, v, r, whole, fr, b, w
<1>21. Consumes(z, f, n, out, events)
  BY <1>2, <1>4, <1>5, <1>7, <1>8, <1>9, <1>11, <1>16, <1>17, <1>18, <1>19, <1>20
     DEF Consumes, e, v
<1> QED  BY <1>11, <1>21 DEF f

\* What a chunk takes from what is on its way.
LEMMA ConsumesFacts ==
  ASSUME Base, NEW z \in Sides, NEW f, NEW n, NEW out, NEW events, Consumes(z, f, n, out, events)
  PROVE  /\ OnWay(z)' \in Seq(GoodFrames(z)) /\ OnWay(z)' \in Seq(FrameSet)
         /\ \A t \in Streams \union {0} :
              /\ DataIn(OnWay(z), t) =
                   DataIn(OnWay(z)', t) + IF f.type = "data" /\ t \in {0, f.stream} THEN n ELSE 0
              /\ CreditIn(OnWay(z), t) = CreditIn(OnWay(z)', t) + CreditOf(f, t)
         /\ f.type \in {"data", "headers"} => f.stream \in Streams
         /\ f.type \in {"settings", "window_update"} => n = Head(OnWay(z)).len
         /\ GoodFrame(z, Head(OnWay(z)))
<1> DEFINE v == OnWay(z)
           h == Head(v)
           k == Tail(v)
           w == OnWay(z)'
           G == GoodFrames(z)
           g == RestOf(h, n)
<1>1. /\ v # <<>> /\ f \in FrameSet
      /\ h.type = f.type /\ h.stream = f.stream /\ h.end = f.end /\ h.val = f.val
      /\ n \in Nat \ {0} /\ n <= h.len
      /\ n # h.len => MaySplit(f)
      /\ Shortened(v, w, n)
  BY DEF Consumes
<1>2. v \in Seq(G) /\ v \in Seq(FrameSet)
  BY BaseTypes DEF Base, FramesOK
<1>3. h \in GoodFrames(z) /\ h \in FrameSet
  BY <1>1, HeadFrame
<1>4. GoodFrame(z, h)
  BY <1>3 DEF GoodFrames
<1> HIDE DEF w
<1>5. n # h.len => h.type \notin {"settings", "window_update"}
  BY <1>1 DEF MaySplit, WaitsForAll
<1> HIDE DEF h
<1>6. /\ w \in Seq(FrameSet)
      /\ \A t \in Streams \union {0} :
           /\ DataIn(v, t) = DataIn(w, t) + IF h.type = "data" /\ t \in {0, h.stream} THEN n ELSE 0
           /\ CreditIn(v, t) = CreditIn(w, t) + CreditOf(h, t)
  <2>1. n # h.len => h.type # "window_update"
    BY <1>5
  <2>2. n \in Nat
    BY <1>1
  <2> HIDE DEF v
  <2> QED  BY <1>1, <1>2, <2>1, <2>2, ShortenedCarries DEF h
<1>7. g \in FrameSet /\ g.type = h.type /\ g.stream = h.stream /\ g.end = h.end /\ g.val = h.val
      /\ g.len = h.len - n
  BY <1>1, <1>3, RestIs
<1>8. h.type \in {"data", "headers"} => h.stream \in Streams
  BY <1>4 DEF GoodFrame
<1>9. n # h.len => h.type \in {"data", "headers"}
  <2>1. h.len > 0
    <3>1. h.len \in Nat
      BY <1>3 DEF FrameSet
    <3> QED  BY <1>1, <3>1
  <2> QED  BY <1>4, <1>5, <2>1 DEF GoodFrame
<1> HIDE DEF g
<1>10. n # h.len => g \in G
  <2>1. SUFFICES ASSUME n # h.len
                 PROVE  g \in G
    OBVIOUS
  <2>2. h.len \in Nat /\ g.len > 0 /\ g.len <= h.len
    <3>1. h.len \in Nat
      BY <1>3 DEF FrameSet
    <3> QED  BY <1>1, <1>7, <2>1, <3>1
  <2>3. GoodFrame(z, g)
    <3>1. /\ g.end => h.type \in {"data", "headers"} /\ phase[Peer(z)][g.stream] = "done"
          /\ g.stream # 0 => Opened(g.stream)
      BY <1>4, <1>7 DEF GoodFrame, Content
    <3>2. CASE h.type = "data"
      <4>1. h.stream \in Streams /\ h.len \in 1 .. MaxFrame /\ BodyOf(Peer(z), h.stream) > 0
        BY <1>4, <3>2 DEF GoodFrame
      <4>2. g.len \in 1 .. MaxFrame
        BY <1>1, <1>3, <1>7, <2>2, <4>1, MaxFrameAssumption
      <4> QED  BY <1>7, <3>1, <3>2, <4>1, <4>2 DEF GoodFrame, Content
    <3>3. CASE h.type = "headers"
      <4>1. h.stream \in Streams /\ h.len \in 1 .. 2
        BY <1>4, <3>3 DEF GoodFrame
      <4>2. g.len \in 1 .. 2
        BY <1>1, <1>3, <1>7, <2>2, <4>1
      <4> QED  BY <1>7, <3>1, <3>3, <4>1, <4>2 DEF GoodFrame, Content
    <3> QED  BY <1>9, <2>1, <3>2, <3>3
  <2> QED  BY <1>7, <2>3 DEF GoodFrames
<1> HIDE DEF G
<1>11. w \in Seq(G)
  <2>1. k \in Seq(G)
    BY <1>1, <1>2
  <2>2. w = IF n = h.len THEN k ELSE <<g>> \o k
    BY <1>1 DEF Shortened, h, g
  <2> HIDE DEF k
  <2>3. n # h.len => <<g>> \in Seq(G)
    BY <1>10
  <2>4. n # h.len => <<g>> \o k \in Seq(G)
    BY <2>1, <2>3
  <2> QED  BY <2>1, <2>2, <2>4
<1>12. \A t \in Streams \union {0} : CreditOf(h, t) = CreditOf(f, t)
  BY <1>1 DEF CreditOf, h
<1>13. h.type = f.type /\ h.stream = f.stream
  BY <1>1 DEF h
<1>14. f.type \in {"data", "headers"} => f.stream \in Streams
  BY <1>8, <1>13
<1>15. f.type \in {"settings", "window_update"} => n = h.len
  BY <1>5, <1>13
<1>16. ASSUME NEW t \in Streams \union {0}
       PROVE  /\ DataIn(v, t) =
                   DataIn(w, t) + IF f.type = "data" /\ t \in {0, f.stream} THEN n ELSE 0
              /\ CreditIn(v, t) = CreditIn(w, t) + CreditOf(f, t)
  BY <1>6, <1>12, <1>13
<1> QED  BY <1>4, <1>6, <1>11, <1>14, <1>15, <1>16 DEF G, w, h

\* DATA: the receive windows shrink by what was read and grow by what is granted.
HearsData(z, f, n, out) ==
  LET e == engine[z]
      g == engine'[z]
      s == f.stream
  IN
  /\ f.type = "data" /\ s \in Streams /\ out \in Seq(Grants(s))
  /\ Consumes(z, f, n, out, DataEvents(e, f, n))
  /\ g.connection_send_window = e.connection_send_window
  /\ g.peer_initial_window_size = e.peer_initial_window_size
  /\ g.connection_recv_window = e.connection_recv_window + (CreditIn(out, 0) - n)
  /\ SameFlows(e, g, Streams \ {s}) /\ Enters(e, g, {s})
  /\ ~f.end => /\ StreamSendWindow(g, s) = StreamSendWindow(e, s)
               /\ StreamRecv(g, s) = StreamRecv(e, s) + (CreditIn(out, s) - n)
  /\ f.end => Forgotten(e, g, s)

HearsHeaderBlock(z, f, n) ==
  /\ f.type = "headers" /\ f.stream \in Streams
  /\ Consumes(z, f, n, <<>>, HeaderEvents(engine[z], f))
  /\ KeepsWindows(engine[z], engine'[z]) /\ Enters(engine[z], engine'[z], {f.stream})

\* SETTINGS: every send window moves with the initial one.
HearsSettings(z, f, n, events) ==
  LET e == engine[z]
      g == engine'[z]
  IN
  /\ f.type = "settings"
  /\ events \in Seq(Wakeups(Tracked(e)))
  /\ Consumes(z, f, n, <<>>, events)
  /\ g.connection_recv_window = e.connection_recv_window
  /\ g.connection_send_window = e.connection_send_window
  /\ g.peer_initial_window_size = f.val
  /\ \A t \in Streams :
       /\ StreamSendWindow(g, t) = StreamSendWindow(e, t) + (f.val - e.peer_initial_window_size)
       /\ StreamRecv(g, t) = StreamRecv(e, t)
  /\ Enters(e, g, {})

\* WINDOW_UPDATE: one send window grows.
HearsCredit(z, f, n, events) ==
  LET e == engine[z]
      g == engine'[z]
  IN
  /\ f.type = "window_update"
  /\ events \in Seq(Wakeups(Tracked(e) \union ({f.stream} \ {0})))
  /\ Consumes(z, f, n, <<>>, events)
  /\ g.connection_recv_window = e.connection_recv_window
  /\ g.peer_initial_window_size = e.peer_initial_window_size
  /\ g.connection_send_window = e.connection_send_window + CreditOf(f, 0)
  /\ \A t \in Streams :
       /\ StreamSendWindow(g, t) = StreamSendWindow(e, t) + CreditOf(f, t)
       /\ StreamRecv(g, t) = StreamRecv(e, t)
  /\ Enters(e, g, {f.stream})

\* The frame whose payload is read is one of those that may be on the way.
LEMMA FrameInHand ==
  ASSUME Base, NEW z \in Sides, frame[z] # NoFrame
  PROVE  LET f == frame[z] IN
         /\ f \in FrameSet /\ f.type \in {"data", "headers", "settings", "window_update"}
         /\ f.type \in {"data", "headers"} => f.stream \in Streams
         /\ f.type = "window_update" => f.val > 0
<1> DEFINE f == frame[z]
           r == payload_bytes_read[z]
           w == Incoming(z)
           h == RestOf(f, r)
<1>1. f \in FrameSet /\ r \in Nat /\ r <= f.len /\ w \in Seq(FrameSet)
  BY BaseTypes
<1>2. r < f.len /\ f.len \in Nat
  BY <1>1 DEF Base, ReadingOK, FrameSet
<1>3. /\ h \in FrameSet /\ h.type = f.type /\ h.stream = f.stream /\ h.end = f.end
      /\ h.val = f.val /\ h.len = f.len - r
  <2> HIDE DEF f, r
  <2> QED  BY <1>1, RestIs
<1>4. OnWay(z) = <<h>> \o w
  BY OnWayIs, WayIs DEF Current
<1> HIDE DEF h, w
<1>5. OnWay(z) # <<>> /\ Head(OnWay(z)) = h
  BY <1>1, <1>3, <1>4
<1>6. h \in GoodFrames(z)
  BY <1>5, HeadFrame
<1>7. GoodFrame(z, h) /\ h.len > 0
  BY <1>1, <1>2, <1>3, <1>6 DEF GoodFrames
<1>8. /\ h.type \in {"data", "headers", "settings", "window_update"}
      /\ h.type \in {"data", "headers"} => h.stream \in Streams
      /\ h.type = "window_update" => h.val > 0
  BY <1>7 DEF GoodFrame
<1> QED  BY <1>1, <1>3, <1>8

\* input_end with part of a payload.
LEMMA ReadPayloadStep ==
  ASSUME Base, NEW z \in Sides, NEW n \in 1 .. frame[z].len - payload_bytes_read[z],
         NEW q \in IterationOrders(Woken(engine[z], frame[z])), ReadPayload(z, n, q)
  PROVE  \/ \E out : HearsData(z, frame[z], n, out)
         \/ HearsHeaderBlock(z, frame[z], n)
         \/ \E events : HearsSettings(z, frame[z], n, events)
         \/ \E events : HearsCredit(z, frame[z], n, events)
<1> DEFINE e == engine[z]
           f == frame[z]
           g == HandlePayloadChunk(e, f, n, q)
<1>1. f # NoFrame
  BY DEF ReadPayload
<1>2. /\ f \in FrameSet /\ f.type \in {"data", "headers", "settings", "window_update"}
      /\ f.type \in {"data", "headers"} => f.stream \in Streams
      /\ f.type = "window_update" => f.val > 0
  BY <1>1, FrameInHand
<1>3. e \in EngineSet
  BY BaseTypes
<1>4. n \in Nat \ {0}
  <2>1. f.len \in Nat /\ payload_bytes_read[z] \in Nat
    BY <1>2, BaseTypes DEF FrameSet
  <2> QED  BY <2>1
<1>5. ASSUME NEW out, NEW events, Says(e, g, out, events), Running(e, g)
      PROVE  Consumes(z, f, n, out, events) /\ engine'[z] = g
  <2>1. g = HandlePayloadChunk(engine[z], frame[z], n, q)
    OBVIOUS
  <2> HIDE DEF g
  <2> QED  BY <1>5, <2>1, PayloadConsumes
<1>6. CASE f.type = "data"
  <2>1. g = ReceiveData(e, f, n)
    BY <1>6 DEF HandlePayloadChunk
  <2>2. f.stream \in Streams
    BY <1>2, <1>6
  <2> HIDE DEF g
  <2> DEFINE s == f.stream
  <2>3. PICK out :
          /\ out \in Seq(Grants(s)) /\ Says(e, g, out, DataEvents(e, f, n))
          /\ Running(e, g)
          /\ g.connection_send_window = e.connection_send_window
          /\ g.peer_initial_window_size = e.peer_initial_window_size
          /\ g.connection_recv_window = e.connection_recv_window + (CreditIn(out, 0) - n)
          /\ SameFlows(e, g, Streams \ {s}) /\ Enters(e, g, {s})
          /\ ~f.end => /\ StreamSendWindow(g, s) = StreamSendWindow(e, s)
                       /\ StreamRecv(g, s) = StreamRecv(e, s) + (CreditIn(out, s) - n)
          /\ f.end => Forgotten(e, g, s)
    <3> HIDE DEF e, f
    <3> QED  BY <1>2, <1>3, <1>4, <2>1, <2>2, ReceiveDataSays
  <2>4. Consumes(z, f, n, out, DataEvents(e, f, n)) /\ engine'[z] = g
    BY <1>5, <2>3
  <2>5. HearsData(z, f, n, out)
    <3> HIDE DEF e, f
    <3>1. f.end \in BOOLEAN /\ f \in FrameSet
      BY <1>2 DEF FrameSet
    <3>2. /\ engine'[z].connection_send_window = e.connection_send_window
          /\ engine'[z].peer_initial_window_size = e.peer_initial_window_size
          /\ engine'[z].connection_recv_window = e.connection_recv_window + (CreditIn(out, 0) - n)
          /\ SameFlows(e, engine'[z], Streams \ {s}) /\ Enters(e, engine'[z], {s})
          /\ ~f.end => /\ StreamSendWindow(engine'[z], s) = StreamSendWindow(e, s)
                       /\ StreamRecv(engine'[z], s) = StreamRecv(e, s) + (CreditIn(out, s) - n)
          /\ f.end => Forgotten(e, engine'[z], s)
      BY <2>3, <2>4
    <3> QED  BY <1>6, <2>2, <2>3, <2>4, <3>1, <3>2 DEF HearsData, e
  <2> QED  BY <2>5
<1>7. CASE f.type = "headers"
  <2>1. g = ReceiveHeaders(e, f)
    BY <1>7 DEF HandlePayloadChunk
  <2>2. f.stream \in Streams
    BY <1>2, <1>7
  <2> HIDE DEF g
  <2>3. /\ Says(e, g, <<>>, HeaderEvents(e, f))
        /\ KeepsWindows(e, g) /\ Enters(e, g, {f.stream})
    <3> HIDE DEF e, f
    <3> QED  BY <1>2, <1>3, <2>1, <2>2, ReceiveHeadersSays
  <2>4. Running(e, g)
    BY <2>3 DEF KeepsWindows
  <2>5. Consumes(z, f, n, <<>>, HeaderEvents(e, f)) /\ engine'[z] = g
    BY <1>5, <2>3, <2>4
  <2> QED  BY <1>7, <2>2, <2>3, <2>5 DEF HearsHeaderBlock
<1>8. CASE f.type = "settings"
  <2>1. g = ApplyPeerInitialWindowSize(e, f.val, q)
    BY <1>8 DEF HandlePayloadChunk
  <2>2. q \in IterationOrders(WokenBySettings(e, f.val)) /\ f.val \in Nat
    BY <1>2, <1>8 DEF Woken, FrameSet
  <2> HIDE DEF g
  <2> DEFINE ev == WindowAvailable(q)
  <2>3. /\ ev \in Seq(Wakeups(Tracked(e)))
        /\ Says(e, g, <<>>, ev)
        /\ Running(e, g)
        /\ g.connection_recv_window = e.connection_recv_window
        /\ g.connection_send_window = e.connection_send_window
        /\ g.peer_initial_window_size = f.val
        /\ \A t \in Streams :
             /\ StreamSendWindow(g, t) = StreamSendWindow(e, t) + (f.val - e.peer_initial_window_size)
             /\ StreamRecv(g, t) = StreamRecv(e, t)
        /\ Enters(e, g, {})
    <3> HIDE DEF e, f
    <3> QED  BY <1>3, <2>1, <2>2, PeerInitialWindowSizeSays
  <2> HIDE DEF ev
  <2>4. Consumes(z, f, n, <<>>, ev) /\ engine'[z] = g
    BY <1>5, <2>3
  <2>5. HearsSettings(z, f, n, ev)
    <3> HIDE DEF f
    <3> QED  BY <1>8, <2>3, <2>4 DEF HearsSettings
  <2> QED  BY <2>5
<1>9. CASE f.type = "window_update"
  <2>1. g = HandleWindowUpdate(e, f, q)
    BY <1>9 DEF HandlePayloadChunk
  <2>2. f.val > 0
    BY <1>2, <1>9
  <2> HIDE DEF g
  <2> DEFINE S == Tracked(e) \union ({f.stream} \ {0})
  <2>3. PICK ev :
        /\ ev \in Seq(Wakeups(S)) /\ Says(e, g, <<>>, ev)
        /\ Running(e, g)
        /\ g.connection_recv_window = e.connection_recv_window
        /\ g.peer_initial_window_size = e.peer_initial_window_size
        /\ g.connection_send_window = e.connection_send_window + CreditOf(f, 0)
        /\ \A t \in Streams :
             /\ StreamSendWindow(g, t) = StreamSendWindow(e, t) + CreditOf(f, t)
             /\ StreamRecv(g, t) = StreamRecv(e, t)
        /\ Enters(e, g, {f.stream})
    <3>1. q \in IterationOrders(Woken(e, f))
      OBVIOUS
    <3> HIDE DEF e, f
    <3> QED  BY <1>2, <1>3, <1>9, <2>1, <2>2, <3>1, WindowUpdateSays
  <2>4. Consumes(z, f, n, <<>>, ev) /\ engine'[z] = g
    BY <1>5, <2>3
  <2>5. HearsCredit(z, f, n, ev)
    <3> HIDE DEF f
    <3> QED  BY <1>9, <2>3, <2>4 DEF HearsCredit
  <2> QED  BY <2>5
<1> QED  BY <1>2, <1>6, <1>7, <1>8, <1>9

\* The streams that have a flow state were opened.
LEMMA TrackedOpened ==
  ASSUME Base, NEW z \in Sides, NEW s \in Streams, engine[z].flow[s].tracked
  PROVE  Opened(s)
  BY DEF Base, PhaseOK

\* The DATA bytes of stream t among the n bytes of payload of f.
Among(f, n, t) == IF f.type = "data" /\ t \in {0, f.stream} THEN n ELSE 0

\* Consuming part of a payload keeps Base.
LEMMA ConsumesBase ==
  ASSUME Base, NEW z \in Sides, NEW f, NEW n, NEW out, NEW events,
         Consumes(z, f, n, out, events),
         out \in Seq(GoodFrames(Peer(z))), \A t \in Streams : DataIn(out, t) = 0,
         events \in Seq(GoodEvents(z)), Enters(engine[z], engine'[z], {f.stream}),
         \A t \in Streams : BytesIn(events, t) = Among(f, n, t)
  PROVE  Base'
<1>1. /\ Hears(z, out) /\ ReadingOK(z)' /\ Running(engine[z], engine'[z])
      /\ engine["server"].state # "awaiting_preface"
      /\ engine[z].event_queue = <<>> /\ engine'[z].event_queue = events
      /\ OnWay(z) # <<>> /\ f \in FrameSet /\ Head(OnWay(z)).stream = f.stream
      /\ n \in Nat
  BY DEF Consumes
<1>2. /\ OnWay(z)' \in Seq(GoodFrames(z)) /\ OnWay(z)' \in Seq(FrameSet)
      /\ \A t \in Streams \union {0} :
              DataIn(OnWay(z), t) =
                DataIn(OnWay(z)', t) + IF f.type = "data" /\ t \in {0, f.stream} THEN n ELSE 0
      /\ GoodFrame(z, Head(OnWay(z)))
  BY ConsumesFacts
<1>3. f.stream # 0 => Opened(f.stream)
  BY <1>1, <1>2 DEF GoodFrame
<1>4. ASSUME NEW s \in Streams, engine'[z].flow[s].tracked
      PROVE  Opened(s)
  <2>1. engine[z].flow[s].tracked \/ s = f.stream
    BY <1>4 DEF Enters
  <2>2. s # 0
    BY StreamsAssumption
  <2> QED  BY <1>3, <2>1, <2>2, TrackedOpened
<1>5. ASSUME NEW s \in Streams
      PROVE  /\ DataIn(out, s) = 0
             /\ BytesIn(engine'[z].event_queue, s) + DataIn(OnWay(z)', s) = DataIn(OnWay(z), s)
  <2> DEFINE m == Among(f, n, s)
  <2>1. m \in Nat
    BY <1>1 DEF Among
  <2>2. BytesIn(engine'[z].event_queue, s) = m /\ DataIn(OnWay(z), s) = DataIn(OnWay(z)', s) + m
    BY <1>1, <1>2 DEF Among
  <2>3. DataIn(OnWay(z)', s) \in Nat
    <3> DEFINE w == OnWay(z)'
    <3>1. w \in Seq(FrameSet)
      BY <1>2
    <3> HIDE DEF w
    <3>2. DataIn(w, s) \in Nat
      BY <3>1, DataInFacts
    <3> QED  BY <3>2 DEF w
  <2> HIDE DEF m
  <2> QED  BY <2>1, <2>2, <2>3
<1> QED  BY <1>1, <1>2, <1>4, <1>5, HearsBase

\* What is reported of an open stream is good to have in the queue.
LEMMA ReportsGood ==
  ASSUME NEW z \in Sides, NEW s \in Streams, Opened(s), NEW end \in BOOLEAN,
         end => phase[Peer(z)][s] = "done"
  PROVE  Reports(s, end) \union {Trouble} \subseteq GoodEvents(z)
<1>1. ASSUME NEW v \in Reports(s, end)
      PROVE  v \in GoodEvents(z)
  BY StreamsAssumption DEF Reports, GoodEvents, GoodEvent
<1>2. Trouble \in EventSet /\ Trouble.type = "connection_error" /\ Trouble.stream = 0
  BY DEF Trouble, Event, EventSet, EventTypes
<1>3. Trouble \in GoodEvents(z)
  BY <1>2 DEF GoodEvents, GoodEvent
<1> QED  BY <1>1, <1>3

\* A wakeup is of a stream that was opened.
LEMMA WakeupsGood ==
  ASSUME NEW z \in Sides, NEW S, \A s \in S : s \in Streams /\ Opened(s)
  PROVE  Wakeups(S) \subseteq GoodEvents(z)
<1>1. ASSUME NEW v \in Wakeups(S)
      PROVE  v \in GoodEvents(z)
  BY StreamsAssumption DEF Wakeups, GoodEvents, GoodEvent
<1> QED  BY <1>1

\* The credit for a body is good to have on the way.
LEMMA GrantsGood ==
  ASSUME NEW z \in Sides, NEW s \in Streams, Opened(s), BodyOf(Peer(z), s) > 0
  PROVE  Grants(s) \subseteq GoodFrames(Peer(z))
<1>1. ASSUME NEW f \in Grants(s)
      PROVE  f \in GoodFrames(Peer(z))
  BY DEF Grants, GoodFrames, GoodFrame
<1> QED  BY <1>1

\* Reading DATA keeps Base.
LEMMA HearsDataBase ==
  ASSUME Base, NEW z \in Sides, NEW f, NEW n, NEW out, HearsData(z, f, n, out)
  PROVE  Base'
<1> DEFINE e == engine[z]
           s == f.stream
           h == Head(OnWay(z))
<1> PICK events : events = DataEvents(e, f, n)
  OBVIOUS
<1>1. /\ f.type = "data" /\ s \in Streams /\ out \in Seq(Grants(s))
      /\ Consumes(z, f, n, out, events) /\ Enters(e, engine'[z], {s})
  BY DEF HearsData
<1>2. /\ f \in FrameSet /\ n \in Nat \ {0}
      /\ h.type = f.type /\ h.stream = s /\ h.end = f.end
  BY <1>1 DEF Consumes
<1>3. GoodFrame(z, h)
  BY <1>1, ConsumesFacts
<1>4. s # 0
  BY <1>1, StreamsAssumption
<1>5. Opened(s) /\ BodyOf(Peer(z), s) > 0 /\ (f.end => phase[Peer(z)][s] = "done")
  BY <1>1, <1>2, <1>3, <1>4 DEF GoodFrame
<1>6. f.end \in BOOLEAN
  BY <1>2 DEF FrameSet
<1>7. e \in EngineSet
  BY BaseTypes
<1>8. /\ events \in Seq(Reports(s, f.end) \union {Trouble})
      /\ \A t \in Streams : BytesIn(events, t) = IF t = s THEN n ELSE 0
  <2>1. events = DataEvents(e, f, n)
    OBVIOUS
  <2>2. e \in EngineSet /\ f \in FrameSet /\ f.stream \in Streams /\ n \in Nat \ {0}
    BY <1>1, <1>2, <1>7
  <2> HIDE DEF e
  <2>3. /\ DataEvents(e, f, n) \in Seq(Reports(f.stream, f.end) \union {Trouble})
        /\ \A t \in Streams : BytesIn(DataEvents(e, f, n), t) = IF t = f.stream THEN n ELSE 0
    BY <2>2, DataEventsReport
  <2> QED  BY <2>1, <2>3
<1> HIDE DEF e
<1>9. events \in Seq(GoodEvents(z))
  <2>1. Reports(s, f.end) \union {Trouble} \subseteq GoodEvents(z)
    BY <1>1, <1>5, <1>6, ReportsGood
  <2> QED  BY <1>8, <2>1, SeqGrow
<1>10. out \in Seq(GoodFrames(Peer(z)))
  BY <1>1, <1>5, GrantsGood, SeqGrow
<1>11. \A t \in Streams : DataIn(out, t) = 0
  BY <1>1, GrantsCarry
<1>12. \A t \in Streams : BytesIn(events, t) = Among(f, n, t)
  BY <1>1, <1>8, StreamsAssumption DEF Among
<1>13. Consumes(z, f, n, out, events) /\ Enters(engine[z], engine'[z], {f.stream})
  BY <1>1 DEF e
<1> HIDE DEF s, h
<1> QED  BY <1>9, <1>10, <1>11, <1>12, <1>13, ConsumesBase

\* Reading a header block keeps Base.
LEMMA HearsHeaderBlockBase ==
  ASSUME Base, NEW z \in Sides, NEW f, NEW n, HearsHeaderBlock(z, f, n)
  PROVE  Base'
<1> DEFINE e == engine[z]
           s == f.stream
           h == Head(OnWay(z))
<1> PICK events : events = HeaderEvents(e, f)
  OBVIOUS
<1>1. /\ f.type = "headers" /\ s \in Streams
      /\ Consumes(z, f, n, <<>>, events) /\ Enters(e, engine'[z], {s})
  BY DEF HearsHeaderBlock
<1>2. /\ f \in FrameSet /\ n \in Nat \ {0}
      /\ h.type = f.type /\ h.stream = s /\ h.end = f.end
  BY <1>1 DEF Consumes
<1>3. GoodFrame(z, h)
  BY <1>1, ConsumesFacts
<1>4. s # 0
  BY <1>1, StreamsAssumption
<1>5. Opened(s) /\ (f.end => phase[Peer(z)][s] = "done")
  BY <1>1, <1>2, <1>3, <1>4 DEF GoodFrame
<1>6. f.end \in BOOLEAN
  BY <1>2 DEF FrameSet
<1>7. e \in EngineSet
  BY BaseTypes
<1>8. /\ events \in Seq(Reports(s, f.end))
      /\ \A t \in Streams : BytesIn(events, t) = 0
  <2> HIDE DEF e
  <2> QED  BY <1>1, <1>2, <1>7, HeaderEventsReport
<1> HIDE DEF e
<1>9. events \in Seq(GoodEvents(z))
  <2>1. Reports(s, f.end) \subseteq GoodEvents(z)
    BY <1>1, <1>5, <1>6, ReportsGood
  <2> QED  BY <1>8, <2>1, SeqGrow
<1>10. <<>> \in Seq(GoodFrames(Peer(z))) /\ \A t \in Streams : DataIn(<<>>, t) = 0
  <2>1. \A T : <<>> \in Seq(T)
    OBVIOUS
  <2> QED  BY <2>1, DataInFacts
<1>11. \A t \in Streams : BytesIn(events, t) = Among(f, n, t)
  BY <1>1, <1>8 DEF Among
<1>12. Consumes(z, f, n, <<>>, events) /\ Enters(engine[z], engine'[z], {f.stream})
  BY <1>1 DEF e
<1> HIDE DEF s, h
<1> QED  BY <1>9, <1>10, <1>11, <1>12, ConsumesBase

\* A step that only wakes streams keeps Base.
LEMMA HearsWakeupsBase ==
  ASSUME Base, NEW z \in Sides, NEW f, NEW n, NEW S, NEW events \in Seq(Wakeups(S)),
         \A s \in S : s \in Streams /\ Opened(s), f.type # "data",
         Consumes(z, f, n, <<>>, events), Enters(engine[z], engine'[z], {f.stream})
  PROVE  Base'
<1>1. events \in Seq(GoodEvents(z))
  BY WakeupsGood, SeqGrow
<1>2. \A t \in Streams : BytesIn(events, t) = 0
  BY WakeupsCarry
<1>3. <<>> \in Seq(GoodFrames(Peer(z))) /\ \A t \in Streams : DataIn(<<>>, t) = 0
  <2>1. \A T : <<>> \in Seq(T)
    OBVIOUS
  <2> QED  BY <2>1, DataInFacts
<1>4. \A t \in Streams : BytesIn(events, t) = Among(f, n, t)
  BY <1>2 DEF Among
<1> QED  BY <1>1, <1>3, <1>4, ConsumesBase

\* Reading SETTINGS keeps Base.
LEMMA HearsSettingsBase ==
  ASSUME Base, NEW z \in Sides, NEW f, NEW n, NEW events, HearsSettings(z, f, n, events)
  PROVE  Base'
<1> DEFINE e == engine[z]
           S == Tracked(e)
<1>1. /\ f.type # "data" /\ events \in Seq(Wakeups(S)) /\ Consumes(z, f, n, <<>>, events)
      /\ Enters(e, engine'[z], {})
  BY DEF HearsSettings
<1>2. \A s \in S : s \in Streams /\ Opened(s)
  BY TrackedOpened DEF Tracked
<1>3. Enters(e, engine'[z], {f.stream})
  BY <1>1 DEF Enters
<1> HIDE DEF S
<1> QED  BY <1>1, <1>2, <1>3, HearsWakeupsBase

\* Reading a WINDOW_UPDATE keeps Base.
LEMMA HearsCreditBase ==
  ASSUME Base, NEW z \in Sides, NEW f, NEW n, NEW events, HearsCredit(z, f, n, events)
  PROVE  Base'
<1> DEFINE e == engine[z]
           S == Tracked(e) \union ({f.stream} \ {0})
           h == Head(OnWay(z))
<1>1. /\ f.type # "data" /\ events \in Seq(Wakeups(S)) /\ Consumes(z, f, n, <<>>, events)
      /\ Enters(e, engine'[z], {f.stream})
  BY DEF HearsCredit
<1>2. f \in FrameSet /\ h.stream = f.stream
  BY <1>1 DEF Consumes
<1>3. GoodFrame(z, h)
  BY <1>1, ConsumesFacts
<1>4. f.stream # 0 => f.stream \in Streams /\ Opened(f.stream)
  BY <1>2, <1>3 DEF GoodFrame, FrameSet
<1>5. \A s \in S : s \in Streams /\ Opened(s)
  BY <1>4, TrackedOpened DEF Tracked
<1> HIDE DEF S
<1> QED  BY <1>1, <1>5, HearsWakeupsBase

----------------------------------------------------------------------------
(* It holds always.                                                        *)

\* A step of another specification leaves it alone.
LEMMA StutterBase ==
  ASSUME Base, UNCHANGED vars
  PROVE  Base'
<1>1. /\ engine' = engine /\ frame' = frame /\ payload_bytes_read' = payload_bytes_read
      /\ body' = body /\ phase' = phase /\ accepted' = accepted /\ delivered' = delivered
      /\ closed' = closed
  BY DEF vars
<1>2. Progress /\ Types /\ Types'
  BY <1>1 DEF Base, Types, Progress, Settled
<1>3. \A x \in Sides : OnWay(x)' = OnWay(x)
  BY <1>1 DEF OnWay, Incoming
<1>4. \A x \in Sides : RoleOK(x)' /\ ReadingOK(x)'
  BY <1>1 DEF Base, RoleOK, ReadingOK
<1>5. StartOK'
  BY <1>1, <1>3, SidesFacts DEF Base, StartOK, Opened
<1>6. FramesOK'
  <2> SUFFICES ASSUME NEW x \in Sides PROVE (OnWay(x) \in Seq(GoodFrames(x)))'
    BY DEF FramesOK
  <2>1. OnWay(x) \in Seq(GoodFrames(x)) /\ OnWay(x)' = OnWay(x)
    BY <1>3 DEF Base, FramesOK
  <2>2. GoodFrames(x) \subseteq GoodFrames(x)'
    BY <1>2, GoodGrow
  <2> QED  BY <2>1, <2>2, SeqGrow
<1>7. EventsOK'
  <2> SUFFICES ASSUME NEW x \in Sides PROVE (engine[x].event_queue \in Seq(GoodEvents(x)))'
    BY DEF EventsOK
  <2>1. engine[x].event_queue \in Seq(GoodEvents(x))
    BY DEF Base, EventsOK
  <2>2. GoodEvents(x) \subseteq GoodEvents(x)'
    BY <1>2, GoodGrow
  <2> QED  BY <1>1, <2>1, <2>2, SeqGrow
<1>8. ASSUME NEW s \in Streams PROVE PhaseOK(s)'
  BY <1>1 DEF Base, PhaseOK, Opened, Booked, BodyOf
<1>9. ASSUME NEW x \in Sides, NEW s \in Streams PROVE NothingLost(x, s)'
  BY <1>1, <1>3 DEF Base, NothingLost
<1> QED  BY <1>2, <1>4, <1>5, <1>6, <1>7, <1>8, <1>9 DEF Base

\* Reading part of a payload keeps Base.
LEMMA ReadSomeBase ==
  ASSUME Base, NEW z \in Sides, ReadSome(z)
  PROVE  Base'
<1>1. PICK n \in 1 .. frame[z].len - payload_bytes_read[z],
           q \in IterationOrders(Woken(engine[z], frame[z])) : ReadPayload(z, n, q)
  BY DEF ReadSome
<1>2. \/ \E out : HearsData(z, frame[z], n, out)
      \/ HearsHeaderBlock(z, frame[z], n)
      \/ \E events : HearsSettings(z, frame[z], n, events)
      \/ \E events : HearsCredit(z, frame[z], n, events)
  BY <1>1, ReadPayloadStep
<1> DEFINE f == frame[z]
<1> HIDE DEF f
<1>3. \/ \E out : HearsData(z, f, n, out)
      \/ HearsHeaderBlock(z, f, n)
      \/ \E events : HearsSettings(z, f, n, events)
      \/ \E events : HearsCredit(z, f, n, events)
  BY <1>2 DEF f
<1> QED  BY <1>3, HearsDataBase, HearsHeaderBlockBase, HearsSettingsBase, HearsCreditBase

\* Every step keeps Base.
LEMMA NextBase ==
  ASSUME Base, [Next]_vars
  PROVE  Base'
<1>1. CASE Open
  BY <1>1, OpenBase
<1>2. CASE Applications
  <2>1. ASSUME NEW x \in Sides, NEW s \in Streams, SendHeaders(x, s)
        PROVE  Base'
    <3> DEFINE out == <<Headers(s, BodyOf(x, s) = 0)>>
    <3>1. Sends(x, s, out, 0)
      BY <2>1, SendHeadersStep
    <3> HIDE DEF out
    <3> QED  BY <3>1, SendsBase
  <2>2. ASSUME NEW x \in Sides, NEW s \in Streams, SendBody(x, s)
        PROVE  Base'
    BY <2>2, SendBodyStep, SendsBase
  <2>3. ASSUME NEW x \in Sides, HandleEvent(x)
        PROVE  Base'
    BY <2>3, HandleEventStep, TakesBase
  <2> QED  BY <1>2, <2>1, <2>2, <2>3 DEF Applications
<1>3. CASE Transport
  <2>1. ASSUME NEW x \in Sides, ReadFrameHeader(x)
        PROVE  Base'
    BY <2>1, ReadFrameHeaderStep, HearsHeaderBase
  <2> QED  BY <1>3, <2>1, ReadPrefaceBase, ReadSomeBase DEF Transport
<1>4. CASE UNCHANGED vars
  BY <1>4, StutterBase
<1> QED  BY <1>1, <1>2, <1>3, <1>4 DEF Next

\* Base is an invariant.
LEMMA BaseInvariance == Spec => []Base
<1>1. Init => Base
  BY InitBase
<1>2. Base /\ [Next]_vars => Base'
  BY NextBase
<1> QED  BY <1>1, <1>2, PTL DEF Spec

\* The members keep their types, a read never passes the end of its frame, and
\* no application sends or receives more than the body of the exchange.
THEOREM TypeCorrect ==
  Spec => []TypeOK
<1>1. Base => TypeOK
  <2> SUFFICES ASSUME Base PROVE TypeOK
    OBVIOUS
  <2>1. Types
    BY DEF Base
  <2>2. ASSUME NEW x \in Sides
        PROVE  payload_bytes_read[x] \in 0 .. frame[x].len
    <3>1. payload_bytes_read[x] \in Nat /\ payload_bytes_read[x] <= frame[x].len
          /\ frame[x] \in FrameSet
      BY BaseTypes
    <3>2. frame[x].len \in Nat
      BY <3>1 DEF FrameSet
    <3> QED  BY <3>1, <3>2
  <2>3. ASSUME NEW x \in Sides, NEW s \in Streams
        PROVE  engine[x].flow[s] \in StreamState
    BY <2>1 DEF Types, EngineSet
  <2>4. ASSUME NEW x \in Sides, NEW s \in Streams
        PROVE  /\ phase[x][s] \in Phases
               /\ accepted[x][s] \in 0 .. BodyOf(x, s)
    <3>1. phase[x][s] \in Phases /\ accepted[x][s] \in Nat /\ BodyOf(x, s) \in Nat
      BY BaseTypes
    <3>2. Booked(x, s)
      BY DEF Base, PhaseOK
    <3>3. accepted[x][s] <= BodyOf(x, s)
      BY <3>1, <3>2 DEF Booked, Phases
    <3> QED  BY <3>1, <3>3
  <2>5. ASSUME NEW x \in Sides, NEW s \in Streams
        PROVE  delivered[x][s] \in 0 .. BodyOf(Peer(x), s)
    <3> DEFINE y == Peer(x)
    <3>1. y \in Sides
      BY SidesFacts
    <3>2. accepted[y][s] \in 0 .. BodyOf(y, s)
      BY <2>4, <3>1
    <3>3. accepted[y][s] =
            delivered[x][s] + BytesIn(engine[x].event_queue, s) + DataIn(OnWay(x), s)
      BY DEF Base, NothingLost
    <3>4. /\ delivered[x][s] \in Nat /\ BytesIn(engine[x].event_queue, s) \in Nat
          /\ OnWay(x) \in Seq(FrameSet)
      BY BaseTypes
    <3>5. DataIn(OnWay(x), s) \in Nat
      BY <3>4, DataInFacts
    <3>6. BodyOf(y, s) \in Nat
      BY <3>1, BaseTypes
    <3> HIDE DEF y
    <3>7. delivered[x][s] \in 0 .. BodyOf(y, s)
      BY ONLY <3>2, <3>3, <3>4, <3>5, <3>6
    <3> QED  BY <3>7 DEF y
  <2> QED  BY <2>1, <2>2, <2>3, <2>4, <2>5 DEF TypeOK, Types, Phases
<1> QED  BY <1>1, BaseInvariance, PTL

----------------------------------------------------------------------------
(* The windows.                                                            *)

\* The connection credit that an engine has still to announce.
Promised(e) == IF SettingsSent(e) THEN 0 ELSE ConnectionBonus(e)

\* A stream that x sends no body on keeps its first window.
Unused(x, s) ==
  BodyOf(x, s) = 0 => StreamSendWindow(engine[x], s) = engine[x].peer_initial_window_size

\* What keeps the windows in step.
Windows ==
  /\ WindowsAgree
  /\ \A x \in Sides, s \in Streams : Unused(x, s)

\* The agreement about the connection window, in the terms of this module.
LEMMA ConnectionWindowsAre ==
  \A x \in Sides :
    ConnectionWindowsAgree(x) <=>
      engine[x].connection_recv_window =
        engine[Peer(x)].connection_send_window + DataIn(OnWay(x), 0)
          + CreditIn(OnWay(Peer(x)), 0) + Promised(engine[x])
  BY DEF ConnectionWindowsAgree, DataOnWay, CreditOnWay, DataIn, CreditIn, Promised

\* The agreement about the window of a stream, in the terms of this module.
LEMMA StreamWindowsAre ==
  \A x \in Sides, s \in Streams :
    StreamWindowsAgree(x, s) <=>
      (phase[Peer(x)][s] # "done" =>
         StreamRecv(engine[x], s) =
           StreamSendWindow(engine[Peer(x)], s) + DataIn(OnWay(x), s) + CreditIn(OnWay(Peer(x)), s)
             + engine[x].initial_window_size - engine[Peer(x)].peer_initial_window_size)
  BY DEF StreamWindowsAgree, DataOnWay, CreditOnWay, DataIn, CreditIn, StreamRecv

\* Whatever z did to its windows, it did to what is on its way or it wrote.
Balanced(z, out) ==
  LET e == engine[z]
      g == engine'[z]
      v == OnWay(z)
      w == OnWay(z)'
  IN
  /\ g.connection_recv_window + DataIn(v, 0) + Promised(e)
       = e.connection_recv_window + DataIn(w, 0) + CreditIn(out, 0) + Promised(g)
  /\ g.connection_send_window + DataIn(out, 0) + CreditIn(w, 0)
       = e.connection_send_window + CreditIn(v, 0)
  /\ \A s \in Streams :
       /\ phase'[Peer(z)][s] # "done" =>
            StreamRecv(g, s) + DataIn(v, s)
              = StreamRecv(e, s) + DataIn(w, s) + CreditIn(out, s)
       /\ phase'[z][s] # "done" =>
            StreamSendWindow(g, s) - g.peer_initial_window_size
                + DataIn(out, s) + CreditIn(w, s)
              = StreamSendWindow(e, s) - e.peer_initial_window_size + CreditIn(v, s)
       /\ BodyOf(z, s) = 0 =>
            StreamSendWindow(g, s) - g.peer_initial_window_size
              = StreamSendWindow(e, s) - e.peer_initial_window_size

\* The numbers of the windows.
LEMMA EngineNumbers ==
  ASSUME NEW e \in EngineSet
  PROVE  /\ e.connection_recv_window \in Int /\ e.connection_send_window \in Int
         /\ e.initial_window_size \in Nat /\ e.peer_initial_window_size \in Nat
         /\ ConnectionBonus(e) \in Nat /\ Promised(e) \in Nat
         /\ \A s \in Streams : StreamRecv(e, s) \in Int /\ StreamSendWindow(e, s) \in Int
<1>1. /\ e.connection_recv_window \in Int /\ e.connection_send_window \in Int
      /\ e.initial_window_size \in Nat /\ e.peer_initial_window_size \in Nat
  BY DEF EngineSet
<1>2. ConnectionBonus(e) \in Nat
  BY <1>1, WindowAssumption, LeastGreatest DEF ConnectionBonus
<1> QED  BY <1>1, <1>2, WindowTypes DEF Promised

\* The numbers on the way.
Counted ==
  \A x \in Sides, t \in Streams \union {0} :
    DataIn(OnWay(x), t) \in Nat /\ CreditIn(OnWay(x), t) \in Nat

\* What is on its way is counted by natural numbers.
LEMMA WayNumbers == Base => Counted
  BY BaseTypes, DataInFacts, CreditInFacts DEF Counted

\* The same after a step.
LEMMA WayNumbersNext ==
  ASSUME Base'
  PROVE  Counted'
  BY WayNumbers, PTL

\* What is appended adds to what is on its way.
LEMMA WayGrowth ==
  ASSUME Base, NEW z \in Sides, NEW out, Appends(z, out), NEW t \in Streams \union {0}
  PROVE  LET w == OnWay(Peer(z))' IN
         /\ DataIn(w, t) = DataIn(OnWay(Peer(z)), t) + DataIn(out, t)
         /\ CreditIn(w, t) = CreditIn(OnWay(Peer(z)), t) + CreditIn(out, t)
         /\ DataIn(out, t) \in Nat /\ CreditIn(out, t) \in Nat
<1> DEFINE v == OnWay(Peer(z))
           w == OnWay(Peer(z))'
<1>1. w = v \o out /\ out \in Seq(FrameSet)
  BY DEF Appends
<1>2. v \in Seq(FrameSet)
  BY SidesFacts, BaseTypes
<1> HIDE DEF v, w
<1>3. /\ DataIn(w, t) = DataIn(v, t) + DataIn(out, t)
      /\ CreditIn(w, t) = CreditIn(v, t) + CreditIn(out, t)
      /\ DataIn(out, t) \in Nat /\ CreditIn(out, t) \in Nat
  BY <1>1, <1>2, DataInFacts, CreditInFacts
<1> QED  BY <1>3 DEF v, w

\* The connection windows of both sides after a balanced step.
LEMMA ReceiverBalance ==
  \A r \in Int, r2 \in Int, s \in Int, d \in Nat, d2 \in Nat, c \in Nat, o \in Nat,
     p \in Int, p2 \in Int :
    /\ r = s + d + c + p
    /\ r2 + d + p = r + d2 + o + p2
    => r2 = s + d2 + (c + o) + p2
  OBVIOUS

\* What the sender spends is on its way: arithmetic of the connection.
LEMMA SenderBalance ==
  \A r \in Int, s \in Int, s2 \in Int, d \in Nat, o \in Nat, c \in Nat, c2 \in Nat, p \in Int :
    /\ r = s + d + c + p
    /\ s2 + o + c2 = s + c
    => r = s2 + (d + o) + c2 + p
  OBVIOUS

\* A balanced step keeps the agreement about the connection.
LEMMA ConnectionKept ==
  ASSUME Base, Base', NEW z \in Sides, NEW out, Appends(z, out), Balanced(z, out),
         KeepsWindows(engine[Peer(z)], engine'[Peer(z)]), \A x \in Sides : ConnectionWindowsAgree(x)
  PROVE  \A x \in Sides : ConnectionWindowsAgree(x)'
<1> DEFINE y == Peer(z)
           D(x) == DataIn(OnWay(x), 0)
           C(x) == CreditIn(OnWay(x), 0)
<1>1. y \in Sides /\ Peer(y) = z /\ \A x \in Sides : x = z \/ x = y
  BY SidesFacts
<1>2. \A x \in Sides : engine[x] \in EngineSet /\ engine'[x] \in EngineSet
  BY DEF Base, Types
<1>3. \A x \in Sides : D(x) \in Nat /\ C(x) \in Nat
  BY WayNumbers DEF Counted
<1>4. \A x \in Sides : D(x)' \in Nat /\ C(x)' \in Nat
  BY WayNumbersNext DEF Counted
<1>5. D(y)' = D(y) + DataIn(out, 0) /\ C(y)' = C(y) + CreditIn(out, 0)
      /\ DataIn(out, 0) \in Nat /\ CreditIn(out, 0) \in Nat
  BY WayGrowth
<1>6. /\ engine'[y].connection_recv_window = engine[y].connection_recv_window
      /\ engine'[y].connection_send_window = engine[y].connection_send_window
      /\ Promised(engine'[y]) = Promised(engine[y])
  BY DEF KeepsWindows, SameCredit, Running, Settled, Promised, SettingsSent, ConnectionBonus
<1>7. /\ engine'[z].connection_recv_window + D(z) + Promised(engine[z])
           = engine[z].connection_recv_window + D(z)' + CreditIn(out, 0) + Promised(engine'[z])
      /\ engine'[z].connection_send_window + DataIn(out, 0) + C(z)'
           = engine[z].connection_send_window + C(z)
  BY DEF Balanced
<1>8. /\ engine[z].connection_recv_window
           = engine[y].connection_send_window + D(z) + C(y) + Promised(engine[z])
      /\ engine[y].connection_recv_window
           = engine[z].connection_send_window + D(y) + C(z) + Promised(engine[y])
  BY <1>1, ConnectionWindowsAre
<1>9. \A x \in Sides : /\ engine[x].connection_recv_window \in Int
                       /\ engine[x].connection_send_window \in Int /\ Promised(engine[x]) \in Nat
                       /\ engine'[x].connection_recv_window \in Int
                       /\ engine'[x].connection_send_window \in Int /\ Promised(engine'[x]) \in Nat
  BY <1>2, EngineNumbers
<1>14. z \in Sides
  OBVIOUS
<1>10. engine'[z].connection_recv_window
         = engine[y].connection_send_window + D(z)' + (C(y) + CreditIn(out, 0))
             + Promised(engine'[z])
  <2> HIDE DEF D, C
  <2> QED  BY ONLY <1>1, <1>3, <1>4, <1>5, <1>7, <1>8, <1>9, <1>14, ReceiverBalance
<1>11. engine[y].connection_recv_window
         = engine'[z].connection_send_window + (D(y) + DataIn(out, 0)) + C(z)'
             + Promised(engine[y])
  <2> HIDE DEF D, C
  <2>1. /\ engine[y].connection_recv_window \in Int /\ engine[z].connection_send_window \in Int
        /\ engine'[z].connection_send_window \in Int /\ D(y) \in Nat
        /\ DataIn(out, 0) \in Nat /\ C(z) \in Nat /\ C(z)' \in Nat /\ Promised(engine[y]) \in Int
    BY ONLY <1>1, <1>3, <1>4, <1>5, <1>9, <1>14
  <2> QED  BY ONLY <1>7, <1>8, <2>1, SenderBalance
<1>12. ConnectionWindowsAgree(z)'
  BY <1>1, <1>5, <1>6, <1>10, ConnectionWindowsAre
    DEF ConnectionWindowsAgree, DataOnWay, CreditOnWay, DataIn, CreditIn, Promised
<1>13. ConnectionWindowsAgree(y)'
  BY <1>1, <1>5, <1>6, <1>11
    DEF ConnectionWindowsAgree, DataOnWay, CreditOnWay, DataIn, CreditIn, Promised
<1> QED  BY <1>1, <1>12, <1>13
\* The windows of a stream after it.
LEMMA StreamReceiverBalance ==
  \A r \in Int, r2 \in Int, s \in Int, d \in Nat, d2 \in Nat, c \in Nat, o \in Nat,
     i \in Int, p \in Int :
    /\ r = s + d + c + i - p
    /\ r2 + d = r + d2 + o
    => r2 = s + d2 + (c + o) + i - p
  OBVIOUS

\* The same arithmetic for a stream, whose SETTINGS may change.
LEMMA StreamSenderBalance ==
  \A r \in Int, s \in Int, s2 \in Int, d \in Nat, o \in Nat, c \in Nat, c2 \in Nat,
     i \in Int, p \in Int, p2 \in Int :
    /\ r = s + d + c + i - p
    /\ s2 - p2 + o + c2 = s - p + c
    => r = s2 + (d + o) + c2 + i - p2
  OBVIOUS

\* A balanced step keeps the agreement about a stream.
LEMMA StreamKept ==
  ASSUME Base, Base', Progress, NEW z \in Sides, NEW out, Appends(z, out), Balanced(z, out),
         KeepsWindows(engine[Peer(z)], engine'[Peer(z)]), NEW s \in Streams,
         \A x \in Sides : StreamWindowsAgree(x, s)
  PROVE  \A x \in Sides : StreamWindowsAgree(x, s)'
<1> DEFINE y == Peer(z)
           D(x) == DataIn(OnWay(x), s)
           C(x) == CreditIn(OnWay(x), s)
           R(x) == StreamRecv(engine[x], s)
           S(x) == StreamSendWindow(engine[x], s)
           I(x) == engine[x].initial_window_size
           P(x) == engine[x].peer_initial_window_size
<1>1. y \in Sides /\ Peer(y) = z /\ z \in Sides /\ \A x \in Sides : x = z \/ x = y
  BY SidesFacts
<1>2. \A x \in Sides : engine[x] \in EngineSet /\ engine'[x] \in EngineSet
  BY DEF Base, Types
<1>3. \A x \in Sides : D(x) \in Nat /\ C(x) \in Nat
  BY WayNumbers DEF Counted
<1>4. \A x \in Sides : D(x)' \in Nat /\ C(x)' \in Nat
  BY WayNumbersNext DEF Counted
<1>5. D(y)' = D(y) + DataIn(out, s) /\ C(y)' = C(y) + CreditIn(out, s)
      /\ DataIn(out, s) \in Nat /\ CreditIn(out, s) \in Nat
  BY WayGrowth
<1>6. R(y)' = R(y) /\ S(y)' = S(y) /\ I(y)' = I(y) /\ P(y)' = P(y)
  BY DEF KeepsWindows, SameCredit, Running, Settled, SameFlows, SameFlow
<1>7. I(z)' = I(z) /\ \A x \in Sides : phase'[x][s] # "done" => phase[x][s] # "done"
  BY DEF Progress, Settled
<1>8. /\ phase'[y][s] # "done" => R(z)' + D(z) = R(z) + D(z)' + CreditIn(out, s)
      /\ phase'[z][s] # "done" =>
           S(z)' - P(z)' + DataIn(out, s) + C(z)' = S(z) - P(z) + C(z)
  BY DEF Balanced
<1>9. /\ phase[y][s] # "done" => R(z) = S(y) + D(z) + C(y) + I(z) - P(y)
      /\ phase[z][s] # "done" => R(y) = S(z) + D(y) + C(z) + I(y) - P(z)
  BY <1>1, StreamWindowsAre
<1>10. \A x \in Sides : /\ R(x) \in Int /\ S(x) \in Int /\ I(x) \in Int /\ P(x) \in Int
                        /\ R(x)' \in Int /\ S(x)' \in Int /\ P(x)' \in Int
  BY <1>2, EngineNumbers
<1>11. phase'[y][s] # "done" =>
         R(z)' = S(y) + D(z)' + (C(y) + CreditIn(out, s)) + I(z) - P(y)
  <2> HIDE DEF D, C, R, S, I, P, y
  <2>1. /\ R(z) \in Int /\ R(z)' \in Int /\ S(y) \in Int /\ D(z) \in Nat /\ D(z)' \in Nat
        /\ C(y) \in Nat /\ CreditIn(out, s) \in Nat /\ I(z) \in Int /\ P(y) \in Int
    BY ONLY <1>1, <1>3, <1>4, <1>5, <1>10
  <2> SUFFICES ASSUME phase'[y][s] # "done"
               PROVE  R(z)' = S(y) + D(z)' + (C(y) + CreditIn(out, s)) + I(z) - P(y)
    OBVIOUS
  <2>2. R(z) = S(y) + D(z) + C(y) + I(z) - P(y) /\ R(z)' + D(z) = R(z) + D(z)' + CreditIn(out, s)
    BY <1>1, <1>7, <1>8, <1>9
  <2> QED  BY ONLY <2>1, <2>2, StreamReceiverBalance
<1>12. phase'[z][s] # "done" =>
         R(y) = S(z)' + (D(y) + DataIn(out, s)) + C(z)' + I(y) - P(z)'
  <2> HIDE DEF D, C, R, S, I, P, y
  <2>1. /\ R(y) \in Int /\ S(z) \in Int /\ S(z)' \in Int /\ D(y) \in Nat
        /\ DataIn(out, s) \in Nat /\ C(z) \in Nat /\ C(z)' \in Nat
        /\ I(y) \in Int /\ P(z) \in Int /\ P(z)' \in Int
    BY ONLY <1>1, <1>3, <1>4, <1>5, <1>10
  <2> SUFFICES ASSUME phase'[z][s] # "done"
               PROVE  R(y) = S(z)' + (D(y) + DataIn(out, s)) + C(z)' + I(y) - P(z)'
    OBVIOUS
  <2>2. /\ R(y) = S(z) + D(y) + C(z) + I(y) - P(z)
        /\ S(z)' - P(z)' + DataIn(out, s) + C(z)' = S(z) - P(z) + C(z)
    BY <1>1, <1>7, <1>8, <1>9
  <2> QED  BY ONLY <2>1, <2>2, StreamSenderBalance
<1>13. StreamWindowsAgree(z, s)'
  BY <1>1, <1>5, <1>6, <1>7, <1>11
    DEF StreamWindowsAgree, DataOnWay, CreditOnWay, DataIn, CreditIn, StreamRecv
<1>14. StreamWindowsAgree(y, s)'
  BY <1>1, <1>5, <1>6, <1>12
    DEF StreamWindowsAgree, DataOnWay, CreditOnWay, DataIn, CreditIn, StreamRecv
<1> QED  BY <1>1, <1>13, <1>14

\* A balanced step that leaves the peer alone keeps Windows.
LEMMA WindowsKept ==
  ASSUME Base, Base', Windows, Progress, NEW z \in Sides, NEW out, Appends(z, out),
         Balanced(z, out), KeepsWindows(engine[Peer(z)], engine'[Peer(z)])
  PROVE  Windows'
<1>1. \A x \in Sides : ConnectionWindowsAgree(x)'
  BY ConnectionKept DEF Windows, WindowsAgree
<1>2. \A s \in Streams : \A x \in Sides : StreamWindowsAgree(x, s)'
  <2> SUFFICES ASSUME NEW s \in Streams PROVE \A x \in Sides : StreamWindowsAgree(x, s)'
    OBVIOUS
  <2>1. \A x \in Sides : StreamWindowsAgree(x, s)
    BY DEF Windows, WindowsAgree
  <2> QED  BY <2>1, StreamKept
<1>3. ASSUME NEW x \in Sides, NEW s \in Streams
      PROVE  Unused(x, s)'
  <2>1. BodyOf(x, s)' = BodyOf(x, s) /\ Unused(x, s)
    BY DEF Windows, Progress, BodyOf
  <2>2. /\ engine[x] \in EngineSet /\ engine'[x] \in EngineSet
    BY DEF Base, Types
  <2>3. CASE x = z
    <3>1. BodyOf(z, s) = 0 =>
            StreamSendWindow(engine'[z], s) - engine'[z].peer_initial_window_size
              = StreamSendWindow(engine[z], s) - engine[z].peer_initial_window_size
      BY DEF Balanced
    <3>2. /\ StreamSendWindow(engine'[z], s) \in Int
          /\ engine'[z].peer_initial_window_size \in Int
          /\ StreamSendWindow(engine[z], s) \in Int
          /\ engine[z].peer_initial_window_size \in Int
      BY <2>2, <2>3, EngineNumbers
    <3> QED  BY <2>1, <2>3, <3>1, <3>2 DEF Unused
  <2>4. CASE x = Peer(z)
    BY <2>1, <2>4 DEF Unused, KeepsWindows, SameCredit, SameFlows, SameFlow
  <2> QED  BY <2>3, <2>4, SidesFacts
<1> QED  BY <1>1, <1>2, <1>3 DEF Windows, WindowsAgree

\* A call leaves the peer and what is on its way to z alone.
LEMMA CallLeaves ==
  ASSUME Base, NEW z \in Sides, NEW out, Calls(z, out)
  PROVE  /\ Appends(z, out) /\ OnWay(z)' = OnWay(z)
         /\ KeepsWindows(engine[Peer(z)], engine'[Peer(z)])
         /\ engine[z] \in EngineSet /\ engine'[z] \in EngineSet
<1>1. Appends(z, out) /\ OnWay(z)' = OnWay(z)
  BY CallMoves
<1>2. engine'[Peer(z)] = engine[Peer(z)] /\ engine'[z] \in EngineSet
  BY DEF Calls
<1>3. engine[z] \in EngineSet /\ engine[Peer(z)] \in EngineSet
  BY SidesFacts, BaseTypes
<1> QED  BY <1>1, <1>2, <1>3, SilentSays

\* Opening a stream keeps Windows.
LEMMA OpenWindows ==
  ASSUME Base, Windows, Base', Open
  PROVE  Windows'
<1> DEFINE z == "client"
           e == engine[z]
           g == engine'[z]
           out == Greeting(e)
<1>1. /\ Calls(z, out) /\ Progress
      /\ Settled(e, g) /\ SameCredit(e, g) /\ SameFlows(e, g, Streams)
      /\ g.state = IF e.state = "idle" THEN "preface_sent" ELSE e.state
  BY OpenStep
<1>2. z \in Sides
  BY SidesFacts
<1>3. /\ Appends(z, out) /\ OnWay(z)' = OnWay(z) /\ KeepsWindows(engine[Peer(z)], engine'[Peer(z)])
      /\ e \in EngineSet /\ g \in EngineSet
  <2> HIDE DEF out, e, g, z
  <2> QED  BY <1>1, <1>2, CallLeaves DEF e, g
<1>4. \A t \in Streams \union {0} :
        /\ DataIn(out, t) = 0
        /\ CreditIn(out, t) = IF e.state = "idle" /\ t = 0 THEN ConnectionBonus(e) ELSE 0
  BY <1>2, GreetingGood
<1>5. \A t \in Streams \union {0} : DataIn(OnWay(z), t) \in Nat /\ CreditIn(OnWay(z), t) \in Nat
  BY <1>2, WayNumbers DEF Counted
<1>6. e.state \in {"idle", "preface_sent"}
  BY <1>2 DEF Base, RoleOK
<1>7. Promised(e) = CreditIn(out, 0) + Promised(g)
  <2>1. ConnectionBonus(g) = ConnectionBonus(e) /\ ConnectionBonus(e) \in Nat
    BY <1>1, <1>3, EngineNumbers DEF Settled, ConnectionBonus
  <2>2. g.state = "preface_sent"
    BY <1>1, <1>6
  <2>3. CreditIn(out, 0) = IF e.state = "idle" THEN ConnectionBonus(e) ELSE 0
    BY <1>4
  <2> HIDE DEF out
  <2> QED  BY <1>6, <2>1, <2>2, <2>3 DEF Promised, SettingsSent
<1> HIDE DEF z, e, g, out
<1>8. /\ e.connection_recv_window \in Int /\ e.connection_send_window \in Int
      /\ Promised(e) \in Nat /\ Promised(g) \in Nat
      /\ \A s \in Streams : StreamRecv(e, s) \in Int /\ StreamSendWindow(e, s) \in Int
      /\ e.peer_initial_window_size \in Nat
  BY <1>3, EngineNumbers
<1>9. \A t \in Streams : CreditIn(out, t) = 0
  BY <1>4, StreamsAssumption
<1>10. /\ g.connection_recv_window = e.connection_recv_window
       /\ g.connection_send_window = e.connection_send_window
       /\ g.peer_initial_window_size = e.peer_initial_window_size
       /\ \A s \in Streams : /\ StreamRecv(g, s) = StreamRecv(e, s)
                             /\ StreamSendWindow(g, s) = StreamSendWindow(e, s)
  BY <1>1 DEF SameCredit, SameFlows, SameFlow
<1>11. /\ e.connection_recv_window + DataIn(OnWay(z), 0) + Promised(e)
            = e.connection_recv_window + DataIn(OnWay(z), 0) + CreditIn(out, 0) + Promised(g)
  <2>1. CreditIn(out, 0) \in Nat /\ DataIn(OnWay(z), 0) \in Nat
    BY <1>2, <1>3, <1>5, WayGrowth
  <2> QED  BY ONLY <1>7, <1>8, <2>1
<1>12. Balanced(z, out)
  BY <1>3, <1>4, <1>5, <1>8, <1>9, <1>10, <1>11 DEF Balanced, e, g
<1> QED  BY <1>1, <1>2, <1>3, <1>12, WindowsKept

\* Sending on a stream keeps Windows.
LEMMA SendsWindows ==
  ASSUME Base, Windows, Base', NEW z \in Sides, NEW s \in Streams, NEW out, NEW n,
         Sends(z, s, out, n)
  PROVE  Windows'
<1> DEFINE e == engine[z]
           g == engine'[z]
<1>1. /\ Calls(z, out) /\ Progress /\ n \in Nat /\ Running(e, g)
      /\ g.connection_recv_window = e.connection_recv_window
      /\ g.connection_send_window = e.connection_send_window - n
      /\ g.peer_initial_window_size = e.peer_initial_window_size
      /\ SameFlows(e, g, Streams \ {s})
      /\ StreamSendWindow(g, s) = StreamSendWindow(e, s) - n
      /\ StreamRecv(g, s) = StreamRecv(e, s)
      /\ n > 0 => BodyOf(z, s) > 0
      /\ \A t \in Streams \union {0} :
           /\ DataIn(out, t) = IF t \in {0, s} THEN n ELSE 0
           /\ CreditIn(out, t) = 0
  BY DEF Sends
<1>2. /\ Appends(z, out) /\ OnWay(z)' = OnWay(z) /\ KeepsWindows(engine[Peer(z)], engine'[Peer(z)])
      /\ e \in EngineSet /\ g \in EngineSet
  BY <1>1, CallLeaves
<1>3. \A t \in Streams \union {0} : DataIn(OnWay(z), t) \in Nat /\ CreditIn(OnWay(z), t) \in Nat
  BY WayNumbers DEF Counted
<1>4. Promised(g) = Promised(e)
  BY <1>1 DEF Running, Settled, Promised, SettingsSent, ConnectionBonus
<1>5. BodyOf(z, s) \in Nat
  BY BaseTypes
<1> HIDE DEF e, g
<1>6. /\ e.connection_recv_window \in Int /\ e.connection_send_window \in Int
      /\ Promised(e) \in Nat /\ e.peer_initial_window_size \in Nat
      /\ \A t \in Streams : StreamRecv(e, t) \in Int /\ StreamSendWindow(e, t) \in Int
  BY <1>2, EngineNumbers
<1>7. ASSUME NEW t \in Streams
      PROVE  /\ StreamRecv(g, t) + DataIn(OnWay(z), t)
                  = StreamRecv(e, t) + DataIn(OnWay(z), t) + CreditIn(out, t)
             /\ StreamSendWindow(g, t) - g.peer_initial_window_size
                    + DataIn(out, t) + CreditIn(OnWay(z), t)
                  = StreamSendWindow(e, t) - e.peer_initial_window_size + CreditIn(OnWay(z), t)
             /\ BodyOf(z, t) = 0 =>
                  StreamSendWindow(g, t) - g.peer_initial_window_size
                    = StreamSendWindow(e, t) - e.peer_initial_window_size
  <2>1. CreditIn(out, t) = 0 /\ t # 0 /\ DataIn(out, t) = IF t = s THEN n ELSE 0
    BY <1>1, StreamsAssumption
  <2>2. /\ StreamRecv(g, t) = StreamRecv(e, t)
        /\ StreamSendWindow(g, t) = StreamSendWindow(e, t) - DataIn(out, t)
    <3>1. CASE t = s
      BY <1>1, <2>1, <3>1
    <3>2. CASE t # s
      BY <1>1, <1>6, <2>1, <3>2 DEF SameFlows, SameFlow
    <3> QED  BY <3>1, <3>2
  <2>3. DataIn(out, t) \in Nat /\ (BodyOf(z, t) = 0 => DataIn(out, t) = 0)
    BY <1>1, <1>5, <2>1
  <2>4. /\ DataIn(OnWay(z), t) \in Nat /\ CreditIn(OnWay(z), t) \in Nat
        /\ StreamRecv(e, t) \in Int /\ StreamSendWindow(e, t) \in Int
        /\ e.peer_initial_window_size \in Nat
        /\ g.peer_initial_window_size = e.peer_initial_window_size
    BY <1>1, <1>3, <1>6
  <2> QED  BY ONLY <2>1, <2>2, <2>3, <2>4
<1>8. /\ g.connection_recv_window + DataIn(OnWay(z), 0) + Promised(e)
           = e.connection_recv_window + DataIn(OnWay(z), 0) + CreditIn(out, 0) + Promised(g)
      /\ g.connection_send_window + DataIn(out, 0) + CreditIn(OnWay(z), 0)
           = e.connection_send_window + CreditIn(OnWay(z), 0)
  <2>1. CreditIn(out, 0) = 0 /\ DataIn(out, 0) = n
    BY <1>1
  <2>2. DataIn(OnWay(z), 0) \in Nat /\ CreditIn(OnWay(z), 0) \in Nat
    BY <1>3
  <2>3. /\ g.connection_recv_window = e.connection_recv_window
        /\ g.connection_send_window = e.connection_send_window - n /\ n \in Nat
    BY <1>1
  <2> QED  BY ONLY <1>4, <1>6, <2>1, <2>2, <2>3
<1>9. Balanced(z, out)
  BY <1>2, <1>7, <1>8 DEF Balanced, e, g
<1> QED  BY <1>1, <1>2, <1>9, WindowsKept

\* Nothing happened to the windows.
LEMMA QuietBalanced ==
  ASSUME Base, NEW z \in Sides, NEW out, KeepsWindows(engine[z], engine'[z]),
         \A t \in Streams \union {0} :
           /\ DataIn(OnWay(z)', t) = DataIn(OnWay(z), t)
           /\ CreditIn(OnWay(z)', t) = CreditIn(OnWay(z), t)
           /\ DataIn(out, t) = 0 /\ CreditIn(out, t) = 0
  PROVE  Balanced(z, out)
<1> DEFINE e == engine[z]
           g == engine'[z]
<1>1. e \in EngineSet
  BY BaseTypes
<1>2. /\ e.connection_recv_window \in Int /\ e.connection_send_window \in Int
      /\ Promised(e) \in Nat /\ e.peer_initial_window_size \in Nat
      /\ \A t \in Streams : StreamRecv(e, t) \in Int /\ StreamSendWindow(e, t) \in Int
  <2> HIDE DEF e
  <2> QED  BY <1>1, EngineNumbers
<1>3. \A t \in Streams \union {0} : DataIn(OnWay(z), t) \in Nat /\ CreditIn(OnWay(z), t) \in Nat
  BY WayNumbers DEF Counted
<1>4. /\ g.connection_recv_window = e.connection_recv_window
      /\ g.connection_send_window = e.connection_send_window
      /\ g.peer_initial_window_size = e.peer_initial_window_size
      /\ Promised(g) = Promised(e)
      /\ \A s \in Streams : /\ StreamRecv(g, s) = StreamRecv(e, s)
                            /\ StreamSendWindow(g, s) = StreamSendWindow(e, s)
  BY DEF KeepsWindows, SameCredit, SameFlows, SameFlow, Running, Settled, Promised, SettingsSent,
         ConnectionBonus
<1> HIDE DEF e, g
<1> QED  BY <1>2, <1>3, <1>4 DEF Balanced, e, g

\* Draining an event keeps Windows.
LEMMA TakesWindows ==
  ASSUME Base, Windows, Base', NEW z \in Sides, NEW v, Takes(z, v)
  PROVE  Windows'
<1>1. Calls(z, <<>>) /\ Progress /\ KeepsWindows(engine[z], engine'[z])
  BY DEF Takes
<1>2. Appends(z, <<>>) /\ OnWay(z)' = OnWay(z) /\ KeepsWindows(engine[Peer(z)], engine'[Peer(z)])
  BY <1>1, CallLeaves
<1>3. Balanced(z, <<>>)
  BY <1>1, <1>2, QuietBalanced, DataInFacts, CreditInFacts
<1> QED  BY <1>1, <1>2, <1>3, WindowsKept

\* Reading the preface keeps Windows.
LEMMA ReadPrefaceWindows ==
  ASSUME Base, Windows, Base', ReadPreface
  PROVE  Windows'
<1> DEFINE z == "server"
           e == engine[z]
           g == engine'[z]
           out == Hello(e)
<1>1. /\ Hears(z, out) /\ e.state = "awaiting_preface" /\ g.state = "ready"
      /\ SameCredit(e, g) /\ SameFlows(e, g, Streams)
      /\ OnWay(z) # <<>> /\ Head(OnWay(z)).type = "preface" /\ OnWay(z)' = Tail(OnWay(z))
  BY ReadPrefaceStep
<1>2. z \in Sides
  BY SidesFacts
<1>3. Appends(z, out) /\ Progress /\ KeepsWindows(engine[Peer(z)], engine'[Peer(z)])
  <2> HIDE DEF out, e, g, z
  <2> QED  BY <1>1, <1>2, HearsFacts DEF Hears
<1>4. \A t \in Streams \union {0} :
        DataIn(out, t) = 0 /\ CreditIn(out, t) = IF t = 0 THEN ConnectionBonus(e) ELSE 0
  BY <1>2, HelloGood
<1>5. e \in EngineSet /\ OnWay(z) \in Seq(FrameSet)
  BY <1>2, BaseTypes
<1>6. ASSUME NEW t \in Streams \union {0}
      PROVE  /\ DataIn(OnWay(z)', t) = DataIn(OnWay(z), t) /\ DataIn(OnWay(z), t) \in Nat
             /\ CreditIn(OnWay(z)', t) = CreditIn(OnWay(z), t) /\ CreditIn(OnWay(z), t) \in Nat
  <2> DEFINE v == OnWay(z)
  <2>1. v \in Seq(FrameSet) /\ v # <<>> /\ Head(v).type = "preface" /\ OnWay(z)' = Tail(v)
    BY <1>1, <1>5
  <2> HIDE DEF v, z
  <2>2. DataOf(Head(v), t) = 0 /\ CreditOf(Head(v), t) = 0
    BY <2>1 DEF DataOf, CreditOf
  <2>3. Tail(v) \in Seq(FrameSet)
    BY <2>1
  <2>4. /\ DataIn(v, t) = DataOf(Head(v), t) + DataIn(Tail(v), t) /\ DataIn(Tail(v), t) \in Nat
        /\ CreditIn(v, t) = CreditOf(Head(v), t) + CreditIn(Tail(v), t)
        /\ CreditIn(Tail(v), t) \in Nat
    BY <2>1, <2>3, DataInFacts, CreditInFacts
  <2> QED  BY <2>1, <2>2, <2>4 DEF v
<1>7. ConnectionBonus(e) \in Nat
  BY <1>5, EngineNumbers
<1>8. Promised(e) = CreditIn(out, 0) /\ Promised(g) = 0 /\ CreditIn(out, 0) \in Nat
  <2>1. CreditIn(out, 0) = ConnectionBonus(e)
    BY <1>4
  <2> HIDE DEF out
  <2> QED  BY <1>1, <1>7, <2>1 DEF Promised, SettingsSent
<1> HIDE DEF z, e, g, out
<1>9. /\ e.connection_recv_window \in Int /\ e.connection_send_window \in Int
      /\ e.peer_initial_window_size \in Nat
      /\ \A s \in Streams : StreamRecv(e, s) \in Int /\ StreamSendWindow(e, s) \in Int
  BY <1>5, EngineNumbers
<1>10. \A t \in Streams : CreditIn(out, t) = 0
  BY <1>4, StreamsAssumption
<1>11. /\ g.connection_recv_window = e.connection_recv_window
       /\ g.connection_send_window = e.connection_send_window
       /\ g.peer_initial_window_size = e.peer_initial_window_size
       /\ \A s \in Streams : /\ StreamRecv(g, s) = StreamRecv(e, s)
                             /\ StreamSendWindow(g, s) = StreamSendWindow(e, s)
  BY <1>1 DEF SameCredit, SameFlows, SameFlow
<1>12. e.connection_recv_window + DataIn(OnWay(z), 0) + Promised(e)
         = e.connection_recv_window + DataIn(OnWay(z), 0) + CreditIn(out, 0) + Promised(g)
  <2>1. DataIn(OnWay(z), 0) \in Nat
    BY <1>6
  <2> QED  BY ONLY <1>8, <1>9, <2>1
<1>13. Balanced(z, out)
  BY <1>4, <1>6, <1>8, <1>9, <1>10, <1>11, <1>12 DEF Balanced, e, g
<1> QED  BY <1>2, <1>3, <1>13, WindowsKept

\* Reading a frame header keeps Windows.
LEMMA HearsHeaderWindows ==
  ASSUME Base, Windows, Base', NEW z \in Sides, NEW f, HearsHeader(z, f)
  PROVE  Windows'
<1>1. Hears(z, Answer(f)) /\ KeepsWindows(engine[z], engine'[z])
  BY DEF HearsHeader
<1>2. Appends(z, Answer(f)) /\ Progress /\ KeepsWindows(engine[Peer(z)], engine'[Peer(z)])
  BY <1>1, HearsFacts DEF Hears
<1>3. Balanced(z, Answer(f))
  BY <1>1, HeaderCarries, AnswerGood, QuietBalanced
<1> QED  BY <1>2, <1>3, WindowsKept

\* What is common to the payloads.
LEMMA ConsumesMoves ==
  ASSUME Base, NEW z \in Sides, NEW f, NEW n, NEW out, NEW events, Consumes(z, f, n, out, events)
  PROVE  /\ Appends(z, out) /\ Progress /\ KeepsWindows(engine[Peer(z)], engine'[Peer(z)])
         /\ UNCHANGED <<body, phase>>
         /\ engine[z] \in EngineSet /\ Promised(engine'[z]) = Promised(engine[z]) /\ n \in Nat
         /\ \A t \in Streams \union {0} :
              /\ DataIn(OnWay(z), t) = DataIn(OnWay(z)', t) + Among(f, n, t)
              /\ CreditIn(OnWay(z), t) = CreditIn(OnWay(z)', t) + CreditOf(f, t)
              /\ DataIn(OnWay(z), t) \in Nat /\ CreditIn(OnWay(z), t) \in Nat
              /\ DataIn(OnWay(z)', t) \in Nat /\ CreditIn(OnWay(z)', t) \in Nat
<1>1. Hears(z, out) /\ Running(engine[z], engine'[z]) /\ n \in Nat
  BY DEF Consumes
<1>2. /\ Appends(z, out) /\ Progress /\ KeepsWindows(engine[Peer(z)], engine'[Peer(z)])
      /\ UNCHANGED <<body, phase>>
  BY <1>1, HearsFacts DEF Hears
<1>3. engine[z] \in EngineSet /\ Promised(engine'[z]) = Promised(engine[z])
  BY <1>1, BaseTypes DEF Running, Settled, Promised, SettingsSent, ConnectionBonus
<1>4. OnWay(z)' \in Seq(FrameSet)
  BY ConsumesFacts
<1>5. \A t \in Streams \union {0} :
        DataIn(OnWay(z)', t) \in Nat /\ CreditIn(OnWay(z)', t) \in Nat
  <2> DEFINE w == OnWay(z)'
  <2>1. w \in Seq(FrameSet)
    BY <1>4
  <2> HIDE DEF w
  <2>2. \A t \in Streams \union {0} : DataIn(w, t) \in Nat /\ CreditIn(w, t) \in Nat
    BY <2>1, DataInFacts, CreditInFacts
  <2> QED  BY <2>2 DEF w
<1>6. \A t \in Streams \union {0} :
        DataIn(OnWay(z), t) \in Nat /\ CreditIn(OnWay(z), t) \in Nat
  BY WayNumbers DEF Counted
<1>7. \A t \in Streams \union {0} :
        /\ DataIn(OnWay(z), t) = DataIn(OnWay(z)', t) + Among(f, n, t)
        /\ CreditIn(OnWay(z), t) = CreditIn(OnWay(z)', t) + CreditOf(f, t)
  BY ConsumesFacts DEF Among
<1> QED  BY <1>1, <1>2, <1>3, <1>5, <1>6, <1>7

\* Reading a header block keeps Windows.
LEMMA HearsHeaderBlockWindows ==
  ASSUME Base, Windows, Base', NEW z \in Sides, NEW f, NEW n, HearsHeaderBlock(z, f, n)
  PROVE  Windows'
<1> PICK events : events = HeaderEvents(engine[z], f)
  OBVIOUS
<1>1. f.type = "headers" /\ Consumes(z, f, n, <<>>, events) /\ KeepsWindows(engine[z], engine'[z])
  BY DEF HearsHeaderBlock
<1>2. /\ Appends(z, <<>>) /\ Progress /\ KeepsWindows(engine[Peer(z)], engine'[Peer(z)])
      /\ \A t \in Streams \union {0} :
           /\ DataIn(OnWay(z), t) = DataIn(OnWay(z)', t) + Among(f, n, t)
           /\ CreditIn(OnWay(z), t) = CreditIn(OnWay(z)', t) + CreditOf(f, t)
           /\ DataIn(OnWay(z)', t) \in Nat /\ CreditIn(OnWay(z)', t) \in Nat
  BY <1>1, ConsumesMoves
<1>3. \A t \in Streams \union {0} : Among(f, n, t) = 0 /\ CreditOf(f, t) = 0
  BY <1>1 DEF Among, CreditOf
<1>4. Balanced(z, <<>>)
  BY <1>1, <1>2, <1>3, QuietBalanced, DataInFacts, CreditInFacts
<1> QED  BY <1>2, <1>4, WindowsKept

\* Reading SETTINGS keeps Windows.
LEMMA HearsSettingsWindows ==
  ASSUME Base, Windows, Base', NEW z \in Sides, NEW f, NEW n, NEW events,
         HearsSettings(z, f, n, events)
  PROVE  Windows'
<1> DEFINE e == engine[z]
           g == engine'[z]
<1>1. /\ f.type = "settings" /\ Consumes(z, f, n, <<>>, events)
      /\ g.connection_recv_window = e.connection_recv_window
      /\ g.connection_send_window = e.connection_send_window
      /\ g.peer_initial_window_size = f.val
      /\ \A t \in Streams :
           /\ StreamSendWindow(g, t) = StreamSendWindow(e, t) + (f.val - e.peer_initial_window_size)
           /\ StreamRecv(g, t) = StreamRecv(e, t)
  BY DEF HearsSettings
<1>2. /\ Appends(z, <<>>) /\ Progress /\ KeepsWindows(engine[Peer(z)], engine'[Peer(z)])
      /\ e \in EngineSet /\ Promised(g) = Promised(e)
      /\ \A t \in Streams \union {0} :
           /\ DataIn(OnWay(z), t) = DataIn(OnWay(z)', t) + Among(f, n, t)
           /\ CreditIn(OnWay(z), t) = CreditIn(OnWay(z)', t) + CreditOf(f, t)
           /\ DataIn(OnWay(z)', t) \in Nat /\ CreditIn(OnWay(z)', t) \in Nat
  BY <1>1, ConsumesMoves
<1>3. \A t \in Streams \union {0} : Among(f, n, t) = 0 /\ CreditOf(f, t) = 0
  BY <1>1 DEF Among, CreditOf
<1>4. f.val \in Nat
  BY <1>1 DEF Consumes, FrameSet
<1>5. \A t \in Streams \union {0} : DataIn(<<>>, t) = 0 /\ CreditIn(<<>>, t) = 0
  BY DataInFacts, CreditInFacts
<1> HIDE DEF e, g
<1>6. /\ e.connection_recv_window \in Int /\ e.connection_send_window \in Int
      /\ Promised(e) \in Nat /\ e.peer_initial_window_size \in Nat
      /\ \A t \in Streams : StreamRecv(e, t) \in Int /\ StreamSendWindow(e, t) \in Int
  BY <1>2, EngineNumbers
<1>7. Balanced(z, <<>>)
  BY SMTT(30), <1>1, <1>2, <1>3, <1>4, <1>5, <1>6 DEF Balanced, e, g
<1> QED  BY <1>2, <1>7, WindowsKept

\* Reading a WINDOW_UPDATE keeps Windows.
LEMMA HearsCreditWindows ==
  ASSUME Base, Windows, Base', NEW z \in Sides, NEW f, NEW n, NEW events,
         HearsCredit(z, f, n, events)
  PROVE  Windows'
<1> DEFINE e == engine[z]
           g == engine'[z]
           h == Head(OnWay(z))
<1>1. /\ f.type = "window_update" /\ Consumes(z, f, n, <<>>, events)
      /\ g.connection_recv_window = e.connection_recv_window
      /\ g.peer_initial_window_size = e.peer_initial_window_size
      /\ g.connection_send_window = e.connection_send_window + CreditOf(f, 0)
      /\ \A t \in Streams :
           /\ StreamSendWindow(g, t) = StreamSendWindow(e, t) + CreditOf(f, t)
           /\ StreamRecv(g, t) = StreamRecv(e, t)
  BY DEF HearsCredit
<1>2. /\ Appends(z, <<>>) /\ Progress /\ KeepsWindows(engine[Peer(z)], engine'[Peer(z)])
      /\ e \in EngineSet /\ Promised(g) = Promised(e)
      /\ \A t \in Streams \union {0} :
           /\ DataIn(OnWay(z), t) = DataIn(OnWay(z)', t) + Among(f, n, t)
           /\ CreditIn(OnWay(z), t) = CreditIn(OnWay(z)', t) + CreditOf(f, t)
           /\ DataIn(OnWay(z)', t) \in Nat /\ CreditIn(OnWay(z)', t) \in Nat
  BY <1>1, ConsumesMoves
<1>3. \A t \in Streams \union {0} : Among(f, n, t) = 0
  BY <1>1 DEF Among
<1>4. f \in FrameSet /\ h.type = f.type /\ h.stream = f.stream
  BY <1>1 DEF Consumes
<1>5. \A t \in Streams \union {0} : CreditOf(f, t) \in Nat
  BY <1>4 DEF CreditOf, FrameSet
<1>6. \A t \in Streams : BodyOf(z, t) = 0 => CreditOf(f, t) = 0
  <2>1. GoodFrame(z, h)
    BY <1>1, ConsumesFacts
  <2>2. f.stream # 0 => BodyOf(z, f.stream) > 0
    BY <1>1, <1>4, <2>1 DEF GoodFrame
  <2>3. \A t \in Streams : t # 0 /\ BodyOf(z, t) \in Nat
    BY StreamsAssumption, BaseTypes
  <2> QED  BY <2>2, <2>3 DEF CreditOf
<1>7. \A t \in Streams \union {0} : DataIn(<<>>, t) = 0 /\ CreditIn(<<>>, t) = 0
  BY DataInFacts, CreditInFacts
<1> HIDE DEF e, g, h
<1>8. /\ e.connection_recv_window \in Int /\ e.connection_send_window \in Int
      /\ Promised(e) \in Nat /\ e.peer_initial_window_size \in Nat
      /\ \A t \in Streams : StreamRecv(e, t) \in Int /\ StreamSendWindow(e, t) \in Int
  BY <1>2, EngineNumbers
<1>9. ASSUME NEW t \in Streams
      PROVE  /\ StreamRecv(g, t) + DataIn(OnWay(z), t)
                  = StreamRecv(e, t) + DataIn(OnWay(z)', t) + CreditIn(<<>>, t)
             /\ StreamSendWindow(g, t) - g.peer_initial_window_size
                    + DataIn(<<>>, t) + CreditIn(OnWay(z)', t)
                  = StreamSendWindow(e, t) - e.peer_initial_window_size + CreditIn(OnWay(z), t)
             /\ BodyOf(z, t) = 0 =>
                  StreamSendWindow(g, t) - g.peer_initial_window_size
                    = StreamSendWindow(e, t) - e.peer_initial_window_size
  <2>1. /\ DataIn(OnWay(z), t) = DataIn(OnWay(z)', t) + Among(f, n, t)
        /\ CreditIn(OnWay(z), t) = CreditIn(OnWay(z)', t) + CreditOf(f, t)
        /\ DataIn(OnWay(z)', t) \in Nat /\ CreditIn(OnWay(z)', t) \in Nat
    BY <1>2
  <2>2. /\ StreamSendWindow(g, t) = StreamSendWindow(e, t) + CreditOf(f, t)
        /\ StreamRecv(g, t) = StreamRecv(e, t)
        /\ g.peer_initial_window_size = e.peer_initial_window_size
    BY <1>1
  <2>3. /\ Among(f, n, t) = 0 /\ DataIn(<<>>, t) = 0 /\ CreditIn(<<>>, t) = 0
        /\ CreditOf(f, t) \in Nat /\ StreamRecv(e, t) \in Int
        /\ StreamSendWindow(e, t) \in Int /\ e.peer_initial_window_size \in Nat
    BY <1>3, <1>5, <1>7, <1>8
  <2>4. BodyOf(z, t) = 0 => CreditOf(f, t) = 0
    BY <1>6
  <2> QED  BY ONLY <2>1, <2>2, <2>3, <2>4
<1>10. /\ g.connection_recv_window + DataIn(OnWay(z), 0) + Promised(e)
            = e.connection_recv_window + DataIn(OnWay(z)', 0) + CreditIn(<<>>, 0) + Promised(g)
       /\ g.connection_send_window + DataIn(<<>>, 0) + CreditIn(OnWay(z)', 0)
            = e.connection_send_window + CreditIn(OnWay(z), 0)
  <2>1. /\ DataIn(OnWay(z), 0) = DataIn(OnWay(z)', 0) + Among(f, n, 0)
        /\ CreditIn(OnWay(z), 0) = CreditIn(OnWay(z)', 0) + CreditOf(f, 0)
        /\ DataIn(OnWay(z)', 0) \in Nat /\ CreditIn(OnWay(z)', 0) \in Nat
    BY <1>2
  <2>2. /\ Among(f, n, 0) = 0 /\ DataIn(<<>>, 0) = 0 /\ CreditIn(<<>>, 0) = 0
        /\ CreditOf(f, 0) \in Nat
    BY <1>3, <1>5, <1>7
  <2> QED  BY ONLY <1>1, <1>2, <1>8, <2>1, <2>2
<1>11. Balanced(z, <<>>)
  BY <1>9, <1>10 DEF Balanced, e, g
<1> QED  BY <1>2, <1>11, WindowsKept
\* No exchange has a body in both directions.  In one that has, a server that
\* answers early loses the credit of its stream: DATA with END_STREAM erases
\* the flow state that the answer still needs.
HalfDuplex == \A b \in Bodies : b[1] = 0 \/ b[2] = 0

\* A side that hears a body sends none on that stream.
LEMMA OneBody ==
  ASSUME HalfDuplex, Types, NEW z \in Sides, NEW s \in Streams, BodyOf(Peer(z), s) > 0
  PROVE  BodyOf(z, s) = 0
<1>1. body[s] \in Bodies /\ body[s] \in Nat \X Nat
  BY BodiesAssumption DEF Types
<1>2. body[s][1] \in Nat /\ body[s][2] \in Nat /\ (body[s][1] = 0 \/ body[s][2] = 0)
  BY <1>1 DEF HalfDuplex
<1> QED  BY <1>2, SidesFacts DEF BodyOf, Sides

\* Reading DATA keeps Windows.
LEMMA HearsDataWindows ==
  ASSUME HalfDuplex, Base, Windows, Base', NEW z \in Sides, NEW f, NEW n, NEW out,
         HearsData(z, f, n, out)
  PROVE  Windows'
<1> DEFINE e == engine[z]
           g == engine'[z]
           s == f.stream
           h == Head(OnWay(z))
<1> PICK events : events = DataEvents(e, f, n)
  OBVIOUS
<1>1. /\ f.type = "data" /\ s \in Streams /\ out \in Seq(Grants(s))
      /\ Consumes(z, f, n, out, events)
      /\ g.connection_send_window = e.connection_send_window
      /\ g.peer_initial_window_size = e.peer_initial_window_size
      /\ g.connection_recv_window = e.connection_recv_window + (CreditIn(out, 0) - n)
      /\ SameFlows(e, g, Streams \ {s})
      /\ ~f.end => /\ StreamSendWindow(g, s) = StreamSendWindow(e, s)
                   /\ StreamRecv(g, s) = StreamRecv(e, s) + (CreditIn(out, s) - n)
      /\ f.end => StreamSendWindow(g, s) = e.peer_initial_window_size
  <2>1. /\ f.type = "data" /\ s \in Streams /\ out \in Seq(Grants(s))
        /\ Consumes(z, f, n, out, events)
    BY DEF HearsData
  <2>2. f.end \in BOOLEAN
    BY <2>1 DEF Consumes, FrameSet
  <2>3. /\ g.connection_send_window = e.connection_send_window
        /\ g.peer_initial_window_size = e.peer_initial_window_size
        /\ g.connection_recv_window = e.connection_recv_window + (CreditIn(out, 0) - n)
        /\ SameFlows(e, g, Streams \ {s})
    BY DEF HearsData
  <2>4. f.end => StreamSendWindow(g, s) = e.peer_initial_window_size
    BY DEF HearsData, Forgotten
  <2>5. ~f.end => /\ StreamSendWindow(g, s) = StreamSendWindow(e, s)
                  /\ StreamRecv(g, s) = StreamRecv(e, s) + (CreditIn(out, s) - n)
    BY DEF HearsData
  <2> HIDE DEF e, g, s
  <2> QED  BY <2>1, <2>2, <2>3, <2>4, <2>5
<1>2. /\ Appends(z, out) /\ Progress /\ KeepsWindows(engine[Peer(z)], engine'[Peer(z)])
      /\ phase' = phase
      /\ e \in EngineSet /\ Promised(g) = Promised(e) /\ n \in Nat
      /\ \A t \in Streams \union {0} :
           /\ DataIn(OnWay(z), t) = DataIn(OnWay(z)', t) + Among(f, n, t)
           /\ CreditIn(OnWay(z), t) = CreditIn(OnWay(z)', t) + CreditOf(f, t)
           /\ DataIn(OnWay(z)', t) \in Nat /\ CreditIn(OnWay(z)', t) \in Nat
  BY <1>1, ConsumesMoves
<1>3. \A t \in Streams \union {0} :
        Among(f, n, t) = (IF t \in {0, s} THEN n ELSE 0) /\ CreditOf(f, t) = 0
  BY <1>1 DEF Among, CreditOf
<1>4. f \in FrameSet /\ h.type = f.type /\ h.stream = s /\ h.end = f.end /\ f.end \in BOOLEAN
  BY <1>1 DEF Consumes, FrameSet
<1>5. s # 0 /\ \A t \in Streams : t # 0
  BY <1>1, StreamsAssumption
<1>6. BodyOf(Peer(z), s) > 0 /\ (f.end => phase[Peer(z)][s] = "done")
  <2>1. GoodFrame(z, h)
    BY <1>1, ConsumesFacts
  <2> QED  BY <1>1, <1>4, <1>5, <2>1 DEF GoodFrame
<1>7. StreamSendWindow(e, s) = e.peer_initial_window_size
  <2>1. Types /\ Unused(z, s)
    BY <1>1 DEF Base, Windows
  <2>2. BodyOf(z, s) = 0
    BY <1>1, <1>6, <2>1, OneBody
  <2> QED  BY <2>1, <2>2 DEF Unused
<1>8. StreamSendWindow(g, s) = StreamSendWindow(e, s)
  BY <1>1, <1>4, <1>7
<1>9. \A t \in Streams \union {0} : CreditIn(out, t) \in Nat /\ DataIn(out, t) = 0
  BY <1>1, <1>2, WayGrowth, GrantsCarry
<1>10. \A t \in Streams \ {s} : CreditIn(out, t) = 0
  BY <1>1, <1>5, GrantsCarry
<1>11. ASSUME NEW t \in Streams
       PROVE  /\ phase'[Peer(z)][t] # "done" =>
                   StreamRecv(g, t) = StreamRecv(e, t) + (CreditIn(out, t) - Among(f, n, t))
              /\ StreamSendWindow(g, t) = StreamSendWindow(e, t)
  <2>1. CASE t = s
    <3>1. Among(f, n, t) = n
      BY <1>3, <2>1
    <3> QED  BY <1>1, <1>2, <1>6, <1>8, <2>1, <3>1
  <2>2. CASE t # s
    <3>1. Among(f, n, t) = 0 /\ CreditIn(out, t) = 0
      BY <1>3, <1>5, <1>10, <2>2
    <3>2. StreamRecv(e, t) \in Int
      <4> HIDE DEF e
      <4> QED  BY <1>2, EngineNumbers
    <3> QED  BY <1>1, <2>2, <3>1, <3>2 DEF SameFlows, SameFlow
  <2> QED  BY <2>1, <2>2
<1> HIDE DEF e, g, h, s
<1>12. /\ e.connection_recv_window \in Int /\ e.connection_send_window \in Int
       /\ Promised(e) \in Nat /\ e.peer_initial_window_size \in Nat
       /\ \A t \in Streams : StreamRecv(e, t) \in Int /\ StreamSendWindow(e, t) \in Int
  BY <1>2, EngineNumbers
<1>13. ASSUME NEW t \in Streams
       PROVE  /\ phase'[Peer(z)][t] # "done" =>
                   StreamRecv(g, t) + DataIn(OnWay(z), t)
                     = StreamRecv(e, t) + DataIn(OnWay(z)', t) + CreditIn(out, t)
              /\ StreamSendWindow(g, t) - g.peer_initial_window_size
                     + DataIn(out, t) + CreditIn(OnWay(z)', t)
                   = StreamSendWindow(e, t) - e.peer_initial_window_size + CreditIn(OnWay(z), t)
              /\ StreamSendWindow(g, t) - g.peer_initial_window_size
                   = StreamSendWindow(e, t) - e.peer_initial_window_size
  <2>1. /\ DataIn(OnWay(z), t) = DataIn(OnWay(z)', t) + Among(f, n, t)
        /\ CreditIn(OnWay(z), t) = CreditIn(OnWay(z)', t) + CreditOf(f, t)
        /\ DataIn(OnWay(z)', t) \in Nat /\ CreditIn(OnWay(z)', t) \in Nat
    BY <1>2
  <2>2. Among(f, n, t) \in Nat /\ CreditOf(f, t) = 0
    BY <1>2, <1>3
  <2>3. /\ StreamRecv(e, t) \in Int /\ StreamSendWindow(e, t) \in Int
        /\ e.peer_initial_window_size \in Nat
        /\ g.peer_initial_window_size = e.peer_initial_window_size
        /\ DataIn(out, t) = 0 /\ CreditIn(out, t) \in Nat
    BY <1>1, <1>9, <1>12
  <2> QED  BY ONLY <1>11, <2>1, <2>2, <2>3, t \in Streams
<1>14. /\ g.connection_recv_window + DataIn(OnWay(z), 0) + Promised(e)
            = e.connection_recv_window + DataIn(OnWay(z)', 0) + CreditIn(out, 0) + Promised(g)
       /\ g.connection_send_window + DataIn(out, 0) + CreditIn(OnWay(z)', 0)
            = e.connection_send_window + CreditIn(OnWay(z), 0)
  <2>1. /\ DataIn(OnWay(z), 0) = DataIn(OnWay(z)', 0) + n
        /\ CreditIn(OnWay(z), 0) = CreditIn(OnWay(z)', 0) + 0
        /\ DataIn(OnWay(z)', 0) \in Nat /\ CreditIn(OnWay(z)', 0) \in Nat
    BY <1>2, <1>3
  <2>2. CreditIn(out, 0) \in Nat /\ DataIn(out, 0) = 0
    BY <1>9
  <2>3. /\ g.connection_recv_window = e.connection_recv_window + (CreditIn(out, 0) - n)
        /\ g.connection_send_window = e.connection_send_window
        /\ n \in Nat /\ Promised(g) = Promised(e)
    BY <1>1, <1>2
  <2> QED  BY ONLY <1>12, <2>1, <2>2, <2>3
<1>15. Balanced(z, out)
  BY <1>13, <1>14 DEF Balanced, e, g
<1> QED  BY <1>2, <1>15, WindowsKept

\* A step that changes nothing keeps Windows.
LEMMA StutterWindows ==
  ASSUME Windows, UNCHANGED vars
  PROVE  Windows'
<1>1. engine' = engine /\ phase' = phase /\ body' = body
      /\ \A x \in Sides : OnWay(x)' = OnWay(x)
  BY DEF vars, OnWay, Incoming
<1>2. \A x \in Sides : Peer(x) \in Sides
  BY SidesFacts
<1>3. ASSUME NEW x \in Sides, NEW s \in Streams
      PROVE  StreamWindowsAgree(x, s)' /\ Unused(x, s)'
  BY <1>1, <1>2 DEF Windows, WindowsAgree, StreamWindowsAgree, DataOnWay, CreditOnWay, Unused, BodyOf
<1>4. ASSUME NEW x \in Sides
      PROVE  ConnectionWindowsAgree(x)'
  BY <1>1, <1>2 DEF Windows, WindowsAgree, ConnectionWindowsAgree, DataOnWay, CreditOnWay
<1> QED  BY <1>3, <1>4 DEF Windows, WindowsAgree

\* Reading part of a payload keeps Windows.
LEMMA ReadSomeWindows ==
  ASSUME HalfDuplex, Base, Windows, Base', NEW z \in Sides, ReadSome(z)
  PROVE  Windows'
<1>1. PICK n \in 1 .. frame[z].len - payload_bytes_read[z],
           q \in IterationOrders(Woken(engine[z], frame[z])) : ReadPayload(z, n, q)
  BY DEF ReadSome
<1> DEFINE f == frame[z]
<1>2. \/ \E out : HearsData(z, f, n, out)
      \/ HearsHeaderBlock(z, f, n)
      \/ \E events : HearsSettings(z, f, n, events)
      \/ \E events : HearsCredit(z, f, n, events)
  BY <1>1, ReadPayloadStep
<1> HIDE DEF f
<1> QED  BY <1>2, HearsDataWindows, HearsHeaderBlockWindows, HearsSettingsWindows,
            HearsCreditWindows

\* Every step keeps Windows.
LEMMA NextWindows ==
  ASSUME HalfDuplex, Base, Windows, [Next]_vars
  PROVE  Windows'
<1> Base'
  BY NextBase
<1>1. CASE Open
  BY <1>1, OpenWindows
<1>2. CASE Applications
  <2>1. ASSUME NEW x \in Sides, NEW s \in Streams, SendHeaders(x, s)
        PROVE  Windows'
    <3> DEFINE out == <<Headers(s, BodyOf(x, s) = 0)>>
    <3>1. Sends(x, s, out, 0)
      BY <2>1, SendHeadersStep
    <3> HIDE DEF out
    <3> QED  BY <3>1, SendsWindows
  <2>2. ASSUME NEW x \in Sides, NEW s \in Streams, SendBody(x, s)
        PROVE  Windows'
    BY <2>2, SendBodyStep, SendsWindows
  <2>3. ASSUME NEW x \in Sides, HandleEvent(x)
        PROVE  Windows'
    BY <2>3, HandleEventStep, TakesWindows
  <2> QED  BY <1>2, <2>1, <2>2, <2>3 DEF Applications
<1>3. CASE Transport
  <2>1. ASSUME NEW x \in Sides, ReadFrameHeader(x)
        PROVE  Windows'
    BY <2>1, ReadFrameHeaderStep, HearsHeaderWindows
  <2> QED  BY <1>3, <2>1, ReadPrefaceWindows, ReadSomeWindows DEF Transport
<1>4. CASE UNCHANGED vars
  BY <1>4, StutterWindows
<1> QED  BY <1>1, <1>2, <1>3, <1>4 DEF Next

\* Windows holds at the start.
LEMMA InitWindows ==
  ASSUME Init
  PROVE  Windows
<1>1. \A x \in Sides :
        /\ engine[x] \in EngineSet
        /\ engine[x].connection_recv_window = Window + ConnectionBonus(engine[x])
        /\ engine[x].connection_send_window = Window
        /\ engine[x].peer_initial_window_size = Window
        /\ engine[x].state \in {"idle", "awaiting_preface"}
        /\ \A s \in Streams : /\ StreamSendWindow(engine[x], s) = Window
                              /\ StreamRecv(engine[x], s) = engine[x].initial_window_size
  BY InitFacts
<1>2. \A x \in Sides, t \in Streams \union {0} :
        DataIn(OnWay(x), t) = 0 /\ CreditIn(OnWay(x), t) = 0
  BY InitWay, DataInFacts, CreditInFacts
<1>3. \A x \in Sides : Promised(engine[x]) = ConnectionBonus(engine[x])
  BY <1>1 DEF Promised, SettingsSent
<1>4. \A x \in Sides : ConnectionBonus(engine[x]) \in Nat /\ engine[x].initial_window_size \in Nat
  BY <1>1, EngineNumbers
<1>5. ASSUME NEW x \in Sides
      PROVE  ConnectionWindowsAgree(x)
  BY <1>1, <1>2, <1>3, <1>4, SidesFacts, ConnectionWindowsAre, WindowAssumption
<1>6. ASSUME NEW x \in Sides, NEW s \in Streams
      PROVE  StreamWindowsAgree(x, s) /\ Unused(x, s)
  <2>1. /\ StreamRecv(engine[x], s) = engine[x].initial_window_size
        /\ StreamSendWindow(engine[Peer(x)], s) = Window
        /\ DataIn(OnWay(x), s) = 0 /\ CreditIn(OnWay(Peer(x)), s) = 0
        /\ engine[Peer(x)].peer_initial_window_size = Window
        /\ engine[x].initial_window_size \in Nat
    BY <1>1, <1>2, <1>4, SidesFacts
  <2>2. StreamWindowsAgree(x, s)
    BY <2>1, StreamWindowsAre, WindowAssumption
  <2>3. Unused(x, s)
    BY <1>1 DEF Unused
  <2> QED  BY <2>2, <2>3
<1> QED  BY <1>5, <1>6 DEF Windows, WindowsAgree

\* Windows is an invariant, on top of Base.
LEMMA WindowsInvariance ==
  ASSUME HalfDuplex
  PROVE  Spec => [](Base /\ Windows)
<1>1. Init => Base /\ Windows
  BY InitBase, InitWindows
<1>2. Base /\ Windows /\ [Next]_vars => (Base /\ Windows)'
  BY NextBase, NextWindows
<1> QED  BY <1>1, <1>2, PTL DEF Spec

\* As long as no exchange has a body in both directions the two ends of every
\* window, of a stream and of the connection, stay in step: what the receiver
\* still expects is what the sender may still send and what is on its way.
THEOREM WindowsStayInStep ==
  ASSUME HalfDuplex
  PROVE  Spec => []WindowsAgree
<1>1. Base /\ Windows => WindowsAgree
  BY DEF Windows
<1> QED  BY <1>1, WindowsInvariance, PTL

----------------------------------------------------------------------------
(* The order of what arrives.                                              *)

\* Nothing more of the body of s is among the frames w, or the events q.
Silent(w, s) == \A j \in DOMAIN w : ~(Content(w[j]) /\ w[j].stream = s)
Mute(q, s) == \A j \in DOMAIN q : ~(q[j].type \in {"data", "stream_closed"} /\ q[j].stream = s)

\* No frame of a body follows its END_STREAM, and no event its stream_closed.
EndsLast(w) ==
  \A i \in DOMAIN w, j \in DOMAIN w :
    i < j /\ w[i].end => ~(Content(w[j]) /\ w[j].stream = w[i].stream)
ClosesLast(q) ==
  \A i \in DOMAIN q, j \in DOMAIN q :
    i < j /\ q[i].type = "stream_closed" =>
      ~(q[j].type \in {"data", "stream_closed"} /\ q[j].stream = q[i].stream)

\* The end of a body comes to x last, and once.
Ordered(x) ==
  /\ EndsLast(OnWay(x))
  /\ ClosesLast(engine[x].event_queue)
  /\ \A i \in DOMAIN engine[x].event_queue :
       engine[x].event_queue[i].type = "stream_closed" =>
         Silent(OnWay(x), engine[x].event_queue[i].stream)
  /\ \A s \in closed[x] : Mute(engine[x].event_queue, s) /\ Silent(OnWay(x), s)

\* What keeps the order of each body.
Order == \A x \in Sides : Ordered(x)

\* The elements of two sequences, one after the other.
LEMMA ConcatElements ==
  ASSUME NEW S, NEW u \in Seq(S), NEW v \in Seq(S), NEW i \in DOMAIN (u \o v)
  PROVE  \/ i \in DOMAIN u /\ (u \o v)[i] = u[i]
         \/ i > Len(u) /\ i - Len(u) \in DOMAIN v /\ (u \o v)[i] = v[i - Len(u)]
  OBVIOUS

\* Silence of two sequences, one after the other.
LEMMA SilentConcat ==
  ASSUME NEW u \in Seq(FrameSet), NEW v \in Seq(FrameSet), NEW s, Silent(u, s), Silent(v, s)
  PROVE  Silent(u \o v, s)
<1> DEFINE w == u \o v
<1> SUFFICES ASSUME NEW j \in DOMAIN w PROVE ~(Content(w[j]) /\ w[j].stream = s)
  BY DEF Silent
<1>1. \/ j \in DOMAIN u /\ w[j] = u[j]
      \/ j - Len(u) \in DOMAIN v /\ w[j] = v[j - Len(u)]
  BY ConcatElements
<1> HIDE DEF w
<1> QED  BY <1>1 DEF Silent

\* Frames may follow when they are not of a body that ended.
LEMMA EndsLastConcat ==
  ASSUME NEW u \in Seq(FrameSet), NEW v \in Seq(FrameSet), EndsLast(u), EndsLast(v),
         \A i \in DOMAIN u : u[i].end => Silent(v, u[i].stream)
  PROVE  EndsLast(u \o v)
<1> DEFINE w == u \o v
<1> SUFFICES ASSUME NEW i \in DOMAIN w, NEW j \in DOMAIN w, i < j, w[i].end
             PROVE  ~(Content(w[j]) /\ w[j].stream = w[i].stream)
  BY DEF EndsLast
<1>1. /\ \/ i \in DOMAIN u /\ w[i] = u[i]
         \/ i > Len(u) /\ i - Len(u) \in DOMAIN v /\ w[i] = v[i - Len(u)]
      /\ \/ j \in DOMAIN u /\ w[j] = u[j]
         \/ j > Len(u) /\ j - Len(u) \in DOMAIN v /\ w[j] = v[j - Len(u)]
  BY ConcatElements
<1>2. DOMAIN w \subseteq Nat /\ Len(u) \in Nat /\ DOMAIN u = 1 .. Len(u)
  OBVIOUS
<1> HIDE DEF w
<1>3. CASE i \in DOMAIN u /\ w[i] = u[i] /\ j \in DOMAIN u /\ w[j] = u[j]
  BY <1>3 DEF EndsLast
<1>4. CASE i \in DOMAIN u /\ w[i] = u[i] /\ j - Len(u) \in DOMAIN v /\ w[j] = v[j - Len(u)]
  BY <1>4 DEF Silent
<1>5. CASE /\ i - Len(u) \in DOMAIN v /\ w[i] = v[i - Len(u)]
           /\ j - Len(u) \in DOMAIN v /\ w[j] = v[j - Len(u)]
  <2>1. i - Len(u) < j - Len(u)
    BY <1>2
  <2> QED  BY <1>5, <2>1 DEF EndsLast
<1>6. CASE i > Len(u) /\ j \in DOMAIN u
  BY <1>2, <1>6
<1> QED  BY <1>1, <1>3, <1>4, <1>5, <1>6

\* What is left of a sequence.
LEMMA TailElements ==
  ASSUME NEW S, NEW w \in Seq(S), w # <<>>
  PROVE  /\ Tail(w) \in Seq(S) /\ 1 \in DOMAIN w /\ w[1] = Head(w)
         /\ \A i \in DOMAIN Tail(w) : i + 1 \in DOMAIN w /\ Tail(w)[i] = w[i + 1] /\ i \in Nat /\ i > 0
  OBVIOUS

\* Taking the first frame keeps the order of the rest.
LEMMA TailOrder ==
  ASSUME NEW w \in Seq(FrameSet), w # <<>>
  PROVE  /\ EndsLast(w) => EndsLast(Tail(w))
         /\ EndsLast(w) /\ Head(w).end => Silent(Tail(w), Head(w).stream)
         /\ \A s : Silent(w, s) => Silent(Tail(w), s)
<1> DEFINE v == Tail(w)
<1>1. /\ v \in Seq(FrameSet) /\ 1 \in DOMAIN w /\ w[1] = Head(w)
      /\ \A i \in DOMAIN v : i + 1 \in DOMAIN w /\ v[i] = w[i + 1] /\ i \in Nat /\ i > 0
  BY TailElements
<1> HIDE DEF v
<1>2. ASSUME EndsLast(w), NEW i \in DOMAIN v, NEW j \in DOMAIN v, i < j, v[i].end
      PROVE  ~(Content(v[j]) /\ v[j].stream = v[i].stream)
  <2>1. i + 1 < j + 1 /\ i + 1 \in DOMAIN w /\ j + 1 \in DOMAIN w /\ v[i] = w[i + 1] /\ v[j] = w[j + 1]
    BY <1>1, <1>2
  <2> QED  BY <1>2, <2>1 DEF EndsLast
<1>3. ASSUME EndsLast(w), w[1].end, NEW j \in DOMAIN v
      PROVE  ~(Content(v[j]) /\ v[j].stream = w[1].stream)
  <2>1. 1 < j + 1 /\ j + 1 \in DOMAIN w /\ v[j] = w[j + 1]
    BY <1>1, <1>3
  <2> QED  BY <1>1, <1>3, <2>1 DEF EndsLast
<1>4. ASSUME NEW s, Silent(w, s)
      PROVE  Silent(v, s)
  BY <1>1, <1>4 DEF Silent
<1> QED  BY <1>1, <1>2, <1>3, <1>4 DEF EndsLast, Silent, v

\* Taking the first event keeps the order of the rest.
LEMMA TailCloses ==
  ASSUME NEW w \in Seq(EventSet), w # <<>>
  PROVE  /\ ClosesLast(w) => ClosesLast(Tail(w))
         /\ ClosesLast(w) /\ Head(w).type = "stream_closed" => Mute(Tail(w), Head(w).stream)
         /\ \A s : Mute(w, s) => Mute(Tail(w), s)
<1> DEFINE v == Tail(w)
<1>1. /\ v \in Seq(EventSet) /\ 1 \in DOMAIN w /\ w[1] = Head(w)
      /\ \A i \in DOMAIN v : i + 1 \in DOMAIN w /\ v[i] = w[i + 1] /\ i \in Nat /\ i > 0
  BY TailElements
<1> HIDE DEF v
<1>2. ASSUME ClosesLast(w), NEW i \in DOMAIN v, NEW j \in DOMAIN v, i < j,
             v[i].type = "stream_closed"
      PROVE  ~(v[j].type \in {"data", "stream_closed"} /\ v[j].stream = v[i].stream)
  <2>1. i + 1 < j + 1 /\ i + 1 \in DOMAIN w /\ j + 1 \in DOMAIN w /\ v[i] = w[i + 1] /\ v[j] = w[j + 1]
    BY <1>1, <1>2
  <2> QED  BY <1>2, <2>1 DEF ClosesLast
<1>3. ASSUME ClosesLast(w), w[1].type = "stream_closed", NEW j \in DOMAIN v
      PROVE  ~(v[j].type \in {"data", "stream_closed"} /\ v[j].stream = w[1].stream)
  <2>1. 1 < j + 1 /\ j + 1 \in DOMAIN w /\ v[j] = w[j + 1]
    BY <1>1, <1>3
  <2> QED  BY <1>1, <1>3, <2>1 DEF ClosesLast
<1>4. ASSUME NEW s, Mute(w, s)
      PROVE  Mute(v, s)
  BY <1>1, <1>4 DEF Mute
<1> QED  BY <1>1, <1>2, <1>3, <1>4 DEF ClosesLast, Mute, v

\* Part of the first frame of a sequence was read.
LEMMA RestOrder ==
  ASSUME NEW v \in Seq(FrameSet), v # <<>>, NEW n \in Nat, n <= Head(v).len
  PROVE  LET w == <<RestOf(Head(v), n)>> \o Tail(v) IN
         /\ EndsLast(v) => EndsLast(w)
         /\ \A s : Silent(v, s) => Silent(w, s)
<1> DEFINE h == RestOf(Head(v), n)
           w == <<h>> \o Tail(v)
<1>1. Head(v) \in FrameSet
  OBVIOUS
<1>2. h \in FrameSet /\ h.type = Head(v).type /\ h.stream = Head(v).stream /\ h.end = Head(v).end
  BY <1>1, RestIs
<1> HIDE DEF h
<1>3. DOMAIN w = DOMAIN v /\ w[1] = h /\ \A i \in DOMAIN v : i # 1 => w[i] = v[i]
  BY <1>2
<1>4. 1 \in DOMAIN v /\ v[1] = Head(v)
  OBVIOUS
<1> HIDE DEF w
<1>5. \A i \in DOMAIN w : /\ i \in DOMAIN v /\ w[i].type = v[i].type
                          /\ w[i].stream = v[i].stream /\ w[i].end = v[i].end
  BY <1>2, <1>3, <1>4
<1>6. (EndsLast(v) => EndsLast(w)) /\ \A s : Silent(v, s) => Silent(w, s)
  BY <1>5 DEF EndsLast, Silent, Content
<1> QED  BY <1>6 DEF w, h

\* What is said of a body that is not finished is not said too late.
LEMMA PeerOrdered ==
  ASSUME Base, NEW z \in Sides, Ordered(Peer(z)), NEW out, Appends(z, out),
         engine'[Peer(z)].event_queue = engine[Peer(z)].event_queue,
         closed'[Peer(z)] = closed[Peer(z)], EndsLast(out),
         \A i \in DOMAIN out : Content(out[i]) => phase[z][out[i].stream] # "done"
  PROVE  Ordered(Peer(z))'
<1> DEFINE y == Peer(z)
           w == OnWay(y)
           q == engine[y].event_queue
<1>1. y \in Sides /\ Peer(y) = z
  BY SidesFacts
<1>2. OnWay(y)' = w \o out /\ out \in Seq(FrameSet)
  BY DEF Appends
<1>3. \A s : phase[z][s] = "done" => Silent(out, s)
  BY DEF Silent
<1>4. w \in Seq(GoodFrames(y)) /\ q \in Seq(GoodEvents(y)) /\ w \in Seq(FrameSet)
  BY <1>1, BaseTypes DEF Base, FramesOK, EventsOK
<1>5. /\ EndsLast(w) /\ ClosesLast(q)
      /\ \A i \in DOMAIN q : q[i].type = "stream_closed" => Silent(w, q[i].stream)
      /\ \A s \in closed[y] : Mute(q, s) /\ Silent(w, s)
  BY DEF Ordered
<1>6. ASSUME NEW i \in DOMAIN w, w[i].end
      PROVE  Silent(out, w[i].stream)
  <2> HIDE DEF w, y
  <2>1. w[i] \in GoodFrames(y)
    BY <1>4
  <2>2. phase[Peer(y)][w[i].stream] = "done"
    BY <1>6, <2>1 DEF GoodFrames, GoodFrame
  <2> QED  BY <1>1, <1>3, <2>2
<1>7. ASSUME NEW i \in DOMAIN q, q[i].type = "stream_closed"
      PROVE  Silent(w \o out, q[i].stream)
  <2> HIDE DEF w, q, y
  <2>1. q[i] \in GoodEvents(y)
    BY <1>4
  <2>2. phase[Peer(y)][q[i].stream] = "done"
    BY <1>7, <2>1 DEF GoodEvents, GoodEvent
  <2> QED  BY <1>1, <1>2, <1>3, <1>4, <1>5, <1>7, <2>2, SilentConcat
<1>8. ASSUME NEW s \in closed[y]
      PROVE  Silent(w \o out, s)
  <2>1. s \in Streams
    BY <1>1 DEF Base, Types
  <2>2. phase[z][s] = "done"
    BY <1>1, <2>1 DEF Base, PhaseOK
  <2> HIDE DEF w, q, y
  <2> QED  BY <1>2, <1>3, <1>4, <1>5, <2>2, SilentConcat
<1>9. EndsLast(w \o out)
  <2> HIDE DEF w
  <2> QED  BY <1>2, <1>4, <1>5, <1>6, EndsLastConcat
<1> DEFINE v == OnWay(y)'
<1>10. /\ EndsLast(v) /\ \A i \in DOMAIN q : q[i].type = "stream_closed" => Silent(v, q[i].stream)
       /\ \A s \in closed[y] : Silent(v, s)
  <2>1. v = w \o out
    BY <1>2
  <2> HIDE DEF v
  <2> QED  BY <1>7, <1>8, <1>9, <2>1
<1>11. engine'[y].event_queue = q /\ closed'[y] = closed[y]
  OBVIOUS
<1> QED  BY <1>5, <1>10, <1>11 DEF Ordered

\* Frames without content.
LEMMA NoContent ==
  ASSUME NEW out, \A i \in DOMAIN out : ~Content(out[i])
  PROVE  EndsLast(out)
  BY DEF EndsLast

\* One queue and one way stay as they are.
LEMMA SameOrder ==
  ASSUME NEW x \in Sides, Ordered(x), OnWay(x)' = OnWay(x), closed'[x] = closed[x],
         engine'[x].event_queue = engine[x].event_queue
  PROVE  Ordered(x)'
  BY DEF Ordered

\* The greeting holds nothing of a body.
LEMMA GreetingPlain ==
  ASSUME NEW e
  PROVE  /\ \A i \in DOMAIN Hello(e) : ~Content(Hello(e)[i])
         /\ \A i \in DOMAIN Greeting(e) : ~Content(Greeting(e)[i])
<1> DEFINE a == Settings(e.local_settings)
           b == WindowUpdate(0, ConnectionBonus(e))
           P == {a, b, PrefaceFrame}
<1>1. \A f \in P : ~Content(f)
  BY DEF Content, Settings, WindowUpdate, PrefaceFrame, Frame
<1>2. Hello(e) = <<a>> \o (IF ConnectionBonus(e) > 0 THEN <<b>> ELSE <<>>)
  BY DEF Hello
<1>3. a \in P /\ b \in P /\ PrefaceFrame \in P
  OBVIOUS
<1> HIDE DEF a, b, P
<1>4. /\ <<a>> \in Seq(P) /\ <<b>> \in Seq(P) /\ <<PrefaceFrame>> \in Seq(P)
      /\ \A u \in Seq(P), v \in Seq(P) : u \o v \in Seq(P)
      /\ <<>> \in Seq(P)
  BY <1>3
<1>5. Hello(e) \in Seq(P)
  <2>1. (IF ConnectionBonus(e) > 0 THEN <<b>> ELSE <<>>) \in Seq(P)
    BY <1>4
  <2> QED  BY <1>2, <1>4, <2>1
<1>6. Greeting(e) \in Seq(P)
  BY <1>4, <1>5 DEF Greeting
<1>7. \A q \in Seq(P) : \A i \in DOMAIN q : q[i] \in P
  OBVIOUS
<1> QED  BY <1>1, <1>5, <1>6, <1>7

\* Opening a stream keeps Order.
LEMMA OpenOrder ==
  ASSUME Base, Order, Open
  PROVE  Order'
<1> DEFINE z == "client"
           out == Greeting(engine[z])
<1>1. /\ Calls(z, out) /\ closed' = closed
      /\ engine'[z].event_queue = engine[z].event_queue
  BY OpenStep
<1>2. z \in Sides /\ engine[z] \in EngineSet
  BY SidesFacts, BaseTypes
<1>3. \A i \in DOMAIN out : ~Content(out[i])
  BY <1>2, GreetingPlain
<1> HIDE DEF z, out
<1>4. /\ Appends(z, out) /\ OnWay(z)' = OnWay(z)
      /\ engine'[Peer(z)].event_queue = engine[Peer(z)].event_queue
  BY <1>1, <1>2, CallMoves DEF Calls
<1>5. Ordered(z) /\ Ordered(Peer(z))
  BY <1>2, SidesFacts DEF Order
<1>6. Ordered(z)'
  BY <1>1, <1>2, <1>4, <1>5, SameOrder
<1>7. Ordered(Peer(z))'
  BY <1>1, <1>2, <1>3, <1>4, <1>5, NoContent, PeerOrdered
<1> QED  BY <1>2, <1>6, <1>7, SidesFacts DEF Order

\* Sending on a stream keeps Order.
LEMMA SendsOrder ==
  ASSUME Base, Order, NEW z \in Sides, NEW s \in Streams, NEW out, NEW n, Sends(z, s, out, n)
  PROVE  Order'
<1>1. /\ Calls(z, out) /\ closed' = closed
      /\ engine'[z].event_queue = engine[z].event_queue
      /\ phase[z][s] \in {"open", "sending"}
      /\ \A i \in DOMAIN out :
           Content(out[i]) /\ out[i].stream = s /\ (out[i].end => i = Len(out))
  BY DEF Sends
<1>2. /\ Appends(z, out) /\ OnWay(z)' = OnWay(z) /\ out \in Seq(FrameSet)
      /\ engine'[Peer(z)].event_queue = engine[Peer(z)].event_queue
  BY <1>1, CallMoves DEF Calls
<1>3. EndsLast(out)
  <2>1. DOMAIN out = 1 .. Len(out) /\ Len(out) \in Nat
    BY <1>2
  <2> QED  BY <1>1, <2>1 DEF EndsLast
<1>4. Ordered(z) /\ Ordered(Peer(z))
  BY SidesFacts DEF Order
<1>5. Ordered(z)'
  BY <1>1, <1>2, <1>4, SameOrder
<1>6. \A i \in DOMAIN out : Content(out[i]) => phase[z][out[i].stream] # "done"
  BY <1>1
<1>7. Ordered(Peer(z))'
  BY <1>1, <1>2, <1>3, <1>4, <1>6, PeerOrdered
<1> QED  BY <1>5, <1>7, SidesFacts DEF Order

\* Draining an event keeps Order.
LEMMA TakesOrder ==
  ASSUME Base, Order, NEW z \in Sides, NEW v, Takes(z, v)
  PROVE  Order'
<1> DEFINE q == engine[z].event_queue
           w == OnWay(z)
<1>1. /\ Calls(z, <<>>) /\ q # <<>> /\ v = Head(q) /\ engine'[z].event_queue = Tail(q)
      /\ \A t \in Streams :
           t \in closed'[z] <=> t \in closed[z] \/ (v.type = "stream_closed" /\ t = v.stream)
      /\ closed' \in [Sides -> SUBSET Streams] /\ closed'[Peer(z)] = closed[Peer(z)]
  BY DEF Takes
<1>2. Appends(z, <<>>) /\ OnWay(z)' = w /\ engine'[Peer(z)].event_queue = engine[Peer(z)].event_queue
  BY <1>1, CallMoves DEF Calls
<1>3. Ordered(z) /\ Ordered(Peer(z))
  BY SidesFacts DEF Order
<1>4. q \in Seq(EventSet)
  BY BaseTypes
<1>5. /\ EndsLast(w) /\ ClosesLast(q)
      /\ \A i \in DOMAIN q : q[i].type = "stream_closed" => Silent(w, q[i].stream)
      /\ \A s \in closed[z] : Mute(q, s) /\ Silent(w, s)
  BY <1>3 DEF Ordered
<1>6. Ordered(z)'
  <2> HIDE DEF q, w
  <2>1. ClosesLast(Tail(q)) /\ (v.type = "stream_closed" => Mute(Tail(q), v.stream))
    BY <1>1, <1>4, <1>5, TailCloses
  <2>2. /\ 1 \in DOMAIN q /\ q[1] = v
        /\ \A i \in DOMAIN Tail(q) : i + 1 \in DOMAIN q /\ Tail(q)[i] = q[i + 1]
    BY <1>1, <1>4, TailElements
  <2>3. \A i \in DOMAIN Tail(q) : Tail(q)[i].type = "stream_closed" => Silent(w, Tail(q)[i].stream)
    BY <1>5, <2>2
  <2>4. ASSUME NEW s \in closed'[z]
        PROVE  Mute(Tail(q), s) /\ Silent(w, s)
    <3>1. s \in Streams
      BY <1>1
    <3>2. CASE s \in closed[z]
      BY <1>1, <1>4, <1>5, <3>2, TailCloses
    <3>3. CASE v.type = "stream_closed" /\ s = v.stream
      BY <1>5, <2>1, <2>2, <3>3
    <3> QED  BY <1>1, <3>1, <3>2, <3>3
  <2> QED  BY <1>1, <1>2, <1>5, <2>1, <2>3, <2>4 DEF Ordered
<1>7. Ordered(Peer(z))'
  <2>1. \A i \in DOMAIN <<>> : ~Content(<<>>[i])
    OBVIOUS
  <2> DEFINE out == <<>>
  <2>2. (\A i \in DOMAIN out : ~Content(out[i])) /\ Appends(z, out)
    BY <1>2, <2>1
  <2> HIDE DEF out
  <2> QED  BY <1>1, <1>2, <1>3, <2>2, NoContent, PeerOrdered
<1> QED  BY <1>6, <1>7, SidesFacts DEF Order

\* Reading the preface keeps Order.
LEMMA ReadPrefaceOrder ==
  ASSUME Base, Order, ReadPreface
  PROVE  Order'
<1> DEFINE z == "server"
           out == Hello(engine[z])
           w == OnWay(z)
<1>1. /\ Hears(z, out) /\ engine'[z].event_queue = engine[z].event_queue
      /\ w # <<>> /\ OnWay(z)' = Tail(w)
  BY ReadPrefaceStep
<1>2. z \in Sides /\ engine[z] \in EngineSet /\ w \in Seq(FrameSet)
  BY SidesFacts, BaseTypes
<1>3. \A i \in DOMAIN out : ~Content(out[i])
  BY <1>2, GreetingPlain
<1> HIDE DEF z, out
<1>4. /\ Appends(z, out) /\ engine'[Peer(z)].event_queue = engine[Peer(z)].event_queue
      /\ closed' = closed
  BY <1>1, <1>2, HearsFacts DEF Hears
<1>5. Ordered(z) /\ Ordered(Peer(z))
  BY <1>2, SidesFacts DEF Order
<1>6. Ordered(z)'
  <2>1. /\ EndsLast(w) /\ ClosesLast(engine[z].event_queue)
        /\ \A i \in DOMAIN engine[z].event_queue :
             engine[z].event_queue[i].type = "stream_closed" =>
               Silent(w, engine[z].event_queue[i].stream)
        /\ \A s \in closed[z] : Mute(engine[z].event_queue, s) /\ Silent(w, s)
    BY <1>5 DEF Ordered
  <2>2. EndsLast(Tail(w)) /\ \A s : Silent(w, s) => Silent(Tail(w), s)
    BY <1>1, <1>2, <2>1, TailOrder
  <2> HIDE DEF w
  <2> QED  BY <1>1, <1>4, <2>1, <2>2 DEF Ordered
<1>7. Ordered(Peer(z))'
  BY <1>2, <1>3, <1>4, <1>5, NoContent, PeerOrdered
<1> QED  BY <1>2, <1>6, <1>7, SidesFacts DEF Order

\* Reading a frame header keeps Order.
LEMMA HearsHeaderOrder ==
  ASSUME Base, Order, NEW z \in Sides, NEW f, HearsHeader(z, f)
  PROVE  Order'
<1> DEFINE w == OnWay(z)
<1> PICK out : out = Answer(f)
  OBVIOUS
<1>1. /\ Hears(z, out) /\ engine'[z].event_queue = engine[z].event_queue
      /\ w # <<>> /\ OnWay(z)' = IF f.len = 0 THEN Tail(w) ELSE w
  BY DEF HearsHeader
<1>2. w \in Seq(FrameSet)
  BY BaseTypes
<1>3. \A i \in DOMAIN out : ~Content(out[i])
  BY AnswerGood
<1>4. /\ Appends(z, out) /\ engine'[Peer(z)].event_queue = engine[Peer(z)].event_queue
      /\ closed' = closed
  BY <1>1, HearsFacts DEF Hears
<1>5. Ordered(z) /\ Ordered(Peer(z))
  BY SidesFacts DEF Order
<1>6. Ordered(z)'
  <2>1. /\ EndsLast(w) /\ ClosesLast(engine[z].event_queue)
        /\ \A i \in DOMAIN engine[z].event_queue :
             engine[z].event_queue[i].type = "stream_closed" =>
               Silent(w, engine[z].event_queue[i].stream)
        /\ \A s \in closed[z] : Mute(engine[z].event_queue, s) /\ Silent(w, s)
    BY <1>5 DEF Ordered
  <2>2. EndsLast(Tail(w)) /\ \A s : Silent(w, s) => Silent(Tail(w), s)
    BY <1>1, <1>2, <2>1, TailOrder
  <2> DEFINE u == OnWay(z)'
  <2>3. u = Tail(w) \/ u = w
    BY <1>1
  <2> HIDE DEF w, u
  <2>4. EndsLast(u) /\ \A s : Silent(w, s) => Silent(u, s)
    BY <2>1, <2>2, <2>3
  <2> QED  BY <1>1, <1>4, <2>1, <2>4 DEF Ordered, u
<1>7. Ordered(Peer(z))'
  BY <1>3, <1>4, <1>5, NoContent, PeerOrdered
<1> QED  BY <1>6, <1>7, SidesFacts DEF Order

\* A payload that is not cut before its end is reported in order.
LEMMA ConsumesOrder ==
  ASSUME ~SplitEnd, Base, Order, NEW z \in Sides, NEW f, NEW n, NEW out, NEW events,
         Consumes(z, f, n, out, events), \A i \in DOMAIN out : ~Content(out[i]),
         ClosedLast(events),
         \A i \in DOMAIN events :
           events[i].type \in {"data", "stream_closed"} =>
             /\ Content(f) /\ events[i].stream = f.stream
             /\ events[i].type = "stream_closed" => f.end
  PROVE  Order'
<1> DEFINE w == OnWay(z)
           u == OnWay(z)'
           h == Head(w)
<1>1. /\ Hears(z, out) /\ engine'[z].event_queue = events /\ events \in Seq(EventSet)
      /\ w # <<>> /\ h.type = f.type /\ h.stream = f.stream /\ h.end = f.end
      /\ n \in Nat /\ n <= h.len /\ (n # h.len => MaySplit(f)) /\ Shortened(w, u, n)
      /\ f \in FrameSet
  BY DEF Consumes
<1>2. w \in Seq(FrameSet)
  BY BaseTypes
<1>3. /\ Appends(z, out) /\ engine'[Peer(z)].event_queue = engine[Peer(z)].event_queue
      /\ closed' = closed
  BY <1>1, HearsFacts DEF Hears
<1>4. Ordered(z) /\ Ordered(Peer(z))
  BY SidesFacts DEF Order
<1>5. EndsLast(w) /\ \A s \in closed[z] : Silent(w, s)
  BY <1>4 DEF Ordered
<1> HIDE DEF w, u
<1>6. EndsLast(u) /\ \A s : Silent(w, s) => Silent(u, s)
  <2>1. CASE n = h.len
    BY <1>1, <1>2, <1>5, <2>1, TailOrder DEF Shortened
  <2>2. CASE n # h.len
    <3> DEFINE r == <<RestOf(h, n)>> \o Tail(w)
    <3>1. u = r
      BY <1>1, <2>2 DEF Shortened
    <3>2. EndsLast(r) /\ \A s : Silent(w, s) => Silent(r, s)
      BY <1>1, <1>2, <1>5, RestOrder
    <3> HIDE DEF r
    <3> QED  BY <3>1, <3>2
  <2> QED  BY <2>1, <2>2
<1>7. Content(f) /\ f.end => Silent(u, f.stream)
  <2> SUFFICES ASSUME Content(f), f.end PROVE Silent(u, f.stream)
    OBVIOUS
  <2>1. ~MaySplit(f)
    BY DEF MaySplit
  <2>2. u = Tail(w)
    BY <1>1, <2>1 DEF Shortened
  <2> QED  BY <1>1, <1>2, <1>5, <2>2, TailOrder
<1>8. \A s \in closed[z] : Content(f) => f.stream # s
  <2>1. 1 \in DOMAIN w /\ w[1] = h
    BY <1>1, <1>2, TailElements
  <2> QED  BY <1>1, <1>5, <2>1 DEF Silent, Content
<1>9. Ordered(z)'
  <2>1. ClosesLast(events)
    <3>1. DOMAIN events = 1 .. Len(events) /\ Len(events) \in Nat
      BY <1>1
    <3> QED  BY <3>1 DEF ClosesLast, ClosedLast
  <2>2. \A i \in DOMAIN events : events[i].type = "stream_closed" => Silent(u, events[i].stream)
    BY <1>7
  <2>3. \A s \in closed[z] : Mute(events, s) /\ Silent(u, s)
    BY <1>5, <1>6, <1>8 DEF Mute
  <2> QED  BY <1>1, <1>3, <1>6, <2>1, <2>2, <2>3 DEF Ordered, u
<1>10. Ordered(Peer(z))'
  BY <1>3, <1>4, NoContent, PeerOrdered
<1> QED  BY <1>9, <1>10, SidesFacts DEF Order

\* Events that concern one stream.
LEMMA ReportsOrder ==
  ASSUME NEW s, NEW end \in BOOLEAN, NEW q \in Seq(Reports(s, end) \union {Trouble}),
         NEW i \in DOMAIN q, q[i].type \in {"data", "stream_closed"}
  PROVE  q[i].stream = s /\ (q[i].type = "stream_closed" => end)
<1>1. q[i] \in Reports(s, end) \union {Trouble}
  OBVIOUS
<1> DEFINE v == q[i]
<1> HIDE DEF v
<1>2. v \in Reports(s, end) \union {Trouble} /\ v.type \in {"data", "stream_closed"}
  BY <1>1 DEF v
<1>3. v # Trouble
  BY <1>2 DEF Trouble, Event
<1>4. v.stream = s /\ (v.type = "stream_closed" => end)
  BY <1>2, <1>3 DEF Reports
<1> QED  BY <1>4 DEF v

\* A wakeup says nothing of a body.
LEMMA WakeupsOrder ==
  ASSUME NEW S, NEW q \in Seq(Wakeups(S)), NEW i \in DOMAIN q
  PROVE  q[i].type \notin {"data", "stream_closed"}
<1>1. q[i] \in Wakeups(S)
  OBVIOUS
<1> QED  BY <1>1 DEF Wakeups

\* Reading DATA keeps Order.
LEMMA HearsDataOrder ==
  ASSUME ~SplitEnd, Base, Order, NEW z \in Sides, NEW f, NEW n, NEW out, HearsData(z, f, n, out)
  PROVE  Order'
<1> DEFINE e == engine[z]
           s == f.stream
<1> PICK events : events = DataEvents(e, f, n)
  OBVIOUS
<1>1. /\ f.type = "data" /\ s \in Streams /\ out \in Seq(Grants(s))
      /\ Consumes(z, f, n, out, events)
  BY DEF HearsData
<1>2. f \in FrameSet /\ n \in Nat \ {0} /\ f.end \in BOOLEAN
  BY <1>1 DEF Consumes, FrameSet
<1>3. e \in EngineSet
  BY BaseTypes
<1>4. events \in Seq(Reports(s, f.end) \union {Trouble}) /\ ClosedLast(events)
  <2> HIDE DEF e
  <2> QED  BY <1>1, <1>2, <1>3, DataEventsReport
<1>5. \A i \in DOMAIN events :
        events[i].type \in {"data", "stream_closed"} =>
          /\ Content(f) /\ events[i].stream = f.stream
          /\ events[i].type = "stream_closed" => f.end
  BY <1>1, <1>2, <1>4, ReportsOrder DEF Content
<1>6. \A i \in DOMAIN out : ~Content(out[i])
  <2>1. \A i \in DOMAIN out : out[i] \in Grants(s)
    BY <1>1
  <2> QED  BY <2>1 DEF Grants, Content
<1> QED  BY <1>1, <1>4, <1>5, <1>6, ConsumesOrder

\* Reading a header block keeps Order.
LEMMA HearsHeaderBlockOrder ==
  ASSUME ~SplitEnd, Base, Order, NEW z \in Sides, NEW f, NEW n, HearsHeaderBlock(z, f, n)
  PROVE  Order'
<1> DEFINE e == engine[z]
           s == f.stream
<1> PICK events : events = HeaderEvents(e, f)
  OBVIOUS
<1> PICK out : out = <<>>
  OBVIOUS
<1>1. f.type = "headers" /\ s \in Streams /\ Consumes(z, f, n, out, events)
  BY DEF HearsHeaderBlock
<1>2. f \in FrameSet /\ f.end \in BOOLEAN
  BY <1>1 DEF Consumes, FrameSet
<1>3. e \in EngineSet
  BY BaseTypes
<1>4. events \in Seq(Reports(s, f.end)) /\ ClosedLast(events)
  <2> HIDE DEF e
  <2> QED  BY <1>1, <1>2, <1>3, HeaderEventsReport
<1>5. events \in Seq(Reports(s, f.end) \union {Trouble})
  BY <1>4, SeqGrow
<1>6. \A i \in DOMAIN events :
        events[i].type \in {"data", "stream_closed"} =>
          /\ Content(f) /\ events[i].stream = f.stream
          /\ events[i].type = "stream_closed" => f.end
  BY <1>1, <1>2, <1>5, ReportsOrder DEF Content
<1>7. \A i \in DOMAIN out : ~Content(out[i])
  OBVIOUS
<1> QED  BY <1>1, <1>4, <1>6, <1>7, ConsumesOrder

\* A step that only wakes streams keeps Order.
LEMMA HearsWakeupsOrder ==
  ASSUME ~SplitEnd, Base, Order, NEW z \in Sides, NEW f, NEW n, NEW S,
         NEW events \in Seq(Wakeups(S)), Consumes(z, f, n, <<>>, events)
  PROVE  Order'
<1> PICK out : out = <<>>
  OBVIOUS
<1>1. \A i \in DOMAIN out : ~Content(out[i])
  OBVIOUS
<1>2. ClosedLast(events)
  BY WakeupsCarry
<1>3. \A i \in DOMAIN events : events[i].type \notin {"data", "stream_closed"}
  BY WakeupsOrder
<1>4. Consumes(z, f, n, out, events)
  OBVIOUS
<1> QED  BY <1>1, <1>2, <1>3, <1>4, ConsumesOrder

\* Reading part of a payload keeps Order.
LEMMA ReadSomeOrder ==
  ASSUME ~SplitEnd, Base, Order, NEW z \in Sides, ReadSome(z)
  PROVE  Order'
<1>1. PICK n \in 1 .. frame[z].len - payload_bytes_read[z],
           q \in IterationOrders(Woken(engine[z], frame[z])) : ReadPayload(z, n, q)
  BY DEF ReadSome
<1> DEFINE f == frame[z]
<1>2. \/ \E out : HearsData(z, f, n, out)
      \/ HearsHeaderBlock(z, f, n)
      \/ \E events : HearsSettings(z, f, n, events)
      \/ \E events : HearsCredit(z, f, n, events)
  BY <1>1, ReadPayloadStep
<1> HIDE DEF f
<1>3. ASSUME NEW events, HearsSettings(z, f, n, events) \/ HearsCredit(z, f, n, events)
      PROVE  Order'
  <2>1. Consumes(z, f, n, <<>>, events) /\ \E S : events \in Seq(Wakeups(S))
    BY <1>3 DEF HearsSettings, HearsCredit
  <2> QED  BY <2>1, HearsWakeupsOrder
<1> QED  BY <1>2, <1>3, HearsDataOrder, HearsHeaderBlockOrder

\* Every step keeps Order.
LEMMA NextOrder ==
  ASSUME ~SplitEnd, Base, Order, [Next]_vars
  PROVE  Order'
<1>1. CASE Open
  BY <1>1, OpenOrder
<1>2. CASE Applications
  <2>1. ASSUME NEW x \in Sides, NEW s \in Streams, SendHeaders(x, s)
        PROVE  Order'
    <3> DEFINE out == <<Headers(s, BodyOf(x, s) = 0)>>
    <3>1. Sends(x, s, out, 0)
      BY <2>1, SendHeadersStep
    <3> HIDE DEF out
    <3> QED  BY <3>1, SendsOrder
  <2>2. ASSUME NEW x \in Sides, NEW s \in Streams, SendBody(x, s)
        PROVE  Order'
    BY <2>2, SendBodyStep, SendsOrder
  <2>3. ASSUME NEW x \in Sides, HandleEvent(x)
        PROVE  Order'
    BY <2>3, HandleEventStep, TakesOrder
  <2> QED  BY <1>2, <2>1, <2>2, <2>3 DEF Applications
<1>3. CASE Transport
  <2>1. ASSUME NEW x \in Sides, ReadFrameHeader(x)
        PROVE  Order'
    BY <2>1, ReadFrameHeaderStep, HearsHeaderOrder
  <2> QED  BY <1>3, <2>1, ReadPrefaceOrder, ReadSomeOrder DEF Transport
<1>4. CASE UNCHANGED vars
  <2>1. engine' = engine /\ closed' = closed /\ \A x \in Sides : OnWay(x)' = OnWay(x)
    BY <1>4 DEF vars, OnWay, Incoming
  <2> QED  BY <2>1, SameOrder DEF Order
<1> QED  BY <1>1, <1>2, <1>3, <1>4 DEF Next

\* Order holds at the start.
LEMMA InitOrder ==
  ASSUME Init
  PROVE  Order
<1> SUFFICES ASSUME NEW x \in Sides PROVE Ordered(x)
  BY DEF Order
<1>1. OnWay(x) = <<>> /\ engine[x].event_queue = <<>> /\ closed[x] = {}
  BY InitWay, InitFacts DEF Init
<1> QED  BY <1>1 DEF Ordered, EndsLast, ClosesLast

\* Order is an invariant, on top of Base.
LEMMA OrderInvariance ==
  ASSUME ~SplitEnd
  PROVE  Spec => [](Base /\ Order)
<1>1. Init => Base /\ Order
  BY InitBase, InitOrder
<1>2. Base /\ Order /\ [Next]_vars => (Base /\ Order)'
  BY NextBase, NextOrder
<1> QED  BY <1>1, <1>2, PTL DEF Spec

\* What is not on the way has arrived.
LEMMA SilentCarries ==
  ASSUME NEW w \in Seq(FrameSet), NEW s \in Streams, Silent(w, s)
  PROVE  DataIn(w, s) = 0
<1> DEFINE t == [i \in DOMAIN w |-> DataOf(w[i], s)]
<1>1. s # 0
  BY StreamsAssumption
<1>2. \A i \in DOMAIN w : w[i] \in FrameSet
  OBVIOUS
<1>3. \A i \in DOMAIN w : DataOf(w[i], s) = 0
  BY <1>1, <1>2 DEF DataOf, Silent, Content
<1>4. t \in Seq(Nat) /\ Len(t) = Len(w) /\ \A i \in 1 .. Len(t) : t[i] = 0
  BY <1>3
<1>5. DataIn(w, s) = Total(t)
  BY DEF DataIn
<1> HIDE DEF t
<1> QED  BY <1>4, <1>5, TotalZero

\* Events that say nothing more of a body carry no bytes of it.
LEMMA MuteCarries ==
  ASSUME NEW q \in Seq(EventSet), NEW s, Mute(q, s)
  PROVE  BytesIn(q, s) = 0
<1> DEFINE t == [i \in DOMAIN q |-> BytesOf(q[i], s)]
<1>1. \A i \in DOMAIN q : BytesOf(q[i], s) = 0
  BY DEF BytesOf, Mute
<1>2. t \in Seq(Nat) /\ Len(t) = Len(q) /\ \A i \in 1 .. Len(t) : t[i] = 0
  BY <1>1
<1>3. BytesIn(q, s) = Total(t)
  BY DEF BytesIn
<1> HIDE DEF t
<1> QED  BY <1>2, <1>3, TotalZero

\* When no read cuts HEADERS, or DATA with END_STREAM, an application that is
\* told a stream is closed has the whole body.
THEOREM ClosedStreamsAreComplete ==
  ASSUME ~SplitEnd
  PROVE  Spec => []ClosedMeansComplete
<1>1. Base /\ Order => ClosedMeansComplete
  <2> SUFFICES ASSUME Base, Order, NEW x \in Sides, NEW s \in closed[x]
               PROVE  delivered[x][s] = BodyOf(Peer(x), s)
    BY DEF ClosedMeansComplete
  <2>1. s \in Streams
    BY DEF Base, Types
  <2>2. Mute(engine[x].event_queue, s) /\ Silent(OnWay(x), s)
    BY DEF Order, Ordered
  <2>3. BytesIn(engine[x].event_queue, s) = 0 /\ DataIn(OnWay(x), s) = 0
    BY <2>1, <2>2, BaseTypes, MuteCarries, SilentCarries
  <2>4. accepted[Peer(x)][s] =
          delivered[x][s] + BytesIn(engine[x].event_queue, s) + DataIn(OnWay(x), s)
    BY <2>1 DEF Base, NothingLost
  <2>5. Booked(Peer(x), s) /\ phase[Peer(x)][s] = "done"
    BY <2>1, SidesFacts DEF Base, PhaseOK
  <2>6. delivered[x][s] \in Nat
    BY <2>1, BaseTypes
  <2> QED  BY <2>3, <2>4, <2>5, <2>6 DEF Booked
<1> QED  BY <1>1, OrderInvariance, PTL

----------------------------------------------------------------------------
(* The exchanges.                                                          *)

\* Bodies are finite in number, and so bounded in length.
LEMMA BodiesBounded ==
  \E m \in Nat : \A b \in Bodies : b[1] <= m /\ b[2] <= m
<1>1. PICK q \in Seq(Bodies) : \A b \in Bodies : \E n \in 1 .. Len(q) : q[n] = b
  BY BodiesAssumption DEF IsFiniteSet
<1> DEFINE Below(k, m) == \A i \in 1 .. k : q[i][1] <= m /\ q[i][2] <= m
           T == {k \in Nat : k <= Len(q) => \E m \in Nat : Below(k, m)}
<1>2. 0 \in T
  BY DEF Below
<1>3. ASSUME NEW n \in Nat, n \in T
      PROVE  n + 1 \in T
  <2> SUFFICES ASSUME n + 1 <= Len(q) PROVE \E m \in Nat : Below(n + 1, m)
    OBVIOUS
  <2>1. PICK m \in Nat : Below(n, m)
    BY <1>3
  <2>2. q[n + 1] \in Nat \X Nat
    BY BodiesAssumption
  <2>3. PICK k \in Nat : m <= k /\ q[n + 1][1] <= k /\ q[n + 1][2] <= k
    <3> DEFINE k == m + q[n + 1][1] + q[n + 1][2]
    <3>1. k \in Nat /\ m <= k /\ q[n + 1][1] <= k /\ q[n + 1][2] <= k
      BY <2>2
    <3> QED  BY <3>1
  <2>4. ASSUME NEW i \in 1 .. n + 1
        PROVE  q[i][1] <= k /\ q[i][2] <= k
    <3>1. CASE i = n + 1
      BY <2>3, <3>1
    <3>2. CASE i # n + 1
      <4>1. i \in 1 .. n
        BY <3>2
      <4>2. q[i] \in Nat \X Nat
        BY <4>1, BodiesAssumption
      <4> QED  BY <2>1, <2>3, <4>1, <4>2
    <3> QED  BY <3>1, <3>2
  <2> QED  BY <2>4
<1>4. Len(q) \in T
  <2> HIDE DEF T
  <2>1. Nat \subseteq T
    BY <1>2, <1>3, EveryNat
  <2> QED  BY <2>1
<1>5. Len(q) \in Nat /\ Len(q) <= Len(q)
  OBVIOUS
<1>7. PICK m \in Nat : Below(Len(q), m)
  BY <1>4, <1>5
<1>6. ASSUME NEW b \in Bodies
      PROVE  b[1] <= m /\ b[2] <= m
  BY <1>1, <1>7
<1> QED  BY <1>6

\* A set of numbers with a bound has a largest.
LEMMA LargestOf ==
  ASSUME NEW S, S \subseteq Nat, S # {}, NEW b \in Nat, \A y \in S : y <= b
  PROVE  Max(S) \in S /\ \A y \in S : y <= Max(S)
<1> DEFINE U == {m \in Nat : \A y \in S : y <= m}
<1>1. U \subseteq Nat /\ U # {}
  OBVIOUS
<1> HIDE DEF U
<1>2. PICK m \in U : \A u \in U : ~(u < m)
  BY <1>1, LeastElement
<1>3. m \in Nat /\ \A y \in S : y <= m
  BY <1>2 DEF U
<1>4. m \in S
  <2> SUFFICES ASSUME m \notin S PROVE FALSE
    OBVIOUS
  <2>1. \A y \in S : y <= m - 1
    BY <1>3
  <2>2. PICK y \in S : TRUE
    OBVIOUS
  <2>3. m - 1 \in Nat
    BY <1>3, <2>1, <2>2
  <2>4. m - 1 \in U /\ m - 1 < m
    BY <1>3, <2>1, <2>3 DEF U
  <2> QED  BY <1>2, <2>4
<1>5. \A y \in S : m >= y
  BY <1>3
<1>6. Max(S) \in S /\ \A y \in S : Max(S) >= y
  BY <1>4, <1>5 DEF Max
<1> QED  BY <1>6

LargestBody == Max({b[1] : b \in Bodies} \union {b[2] : b \in Bodies})

\* Every body is at most the largest.
LEMMA BodyBound ==
  ASSUME Types, NEW x \in Sides, NEW s \in Streams
  PROVE  LargestBody \in Nat /\ BodyOf(x, s) <= LargestBody
<1> DEFINE S == {b[1] : b \in Bodies} \union {b[2] : b \in Bodies}
<1>1. body[s] \in Bodies
  BY DEF Types
<1>2. \A b \in Bodies : b[1] \in Nat /\ b[2] \in Nat
  BY BodiesAssumption
<1>3. BodyOf(x, s) \in S /\ S \subseteq Nat /\ S # {}
  BY <1>1, <1>2 DEF BodyOf
<1>4. PICK m \in Nat : \A b \in Bodies : b[1] <= m /\ b[2] <= m
  BY BodiesBounded
<1>5. \A y \in S : y <= m
  BY <1>4
<1>6. LargestBody = Max(S)
  BY DEF LargestBody
<1> HIDE DEF S
<1> QED  BY <1>3, <1>4, <1>5, <1>6, LargestOf

\* The directions of the exchanges, and what the link makes of their state.
Directions == Sides \X Streams

\* A direction is a side and a stream.
LEMMA DirectionFacts ==
  /\ \A d \in Directions : d[1] \in Sides /\ d[2] \in Streams /\ d = <<d[1], d[2]>>
  /\ \A x \in Sides, s \in Streams : <<x, s>> \in Directions
BY DEF Directions

\* An application that is given data.
LEMMA TakesDelivers ==
  ASSUME Base, Order, NEW z \in Sides, NEW v, Takes(z, v), v.type = "data"
  PROVE  v.len \in 1 .. LargestBody /\ Promise!Deliver(<<Peer(z), v.stream>>, v.len)
<1> DEFINE s == v.stream
           y == Peer(z)
           d == <<y, s>>
           q == engine[z].event_queue
<1>1. v \in EventSet /\ s \in Streams /\ v.len \in Nat /\ v.len > 0
  <2>1. v \in GoodEvents(z)
    BY DEF Takes
  <2> QED  BY <2>1 DEF GoodEvents, GoodEvent, EventSet
<1>2. y \in Sides /\ Peer(y) = z /\ y # z /\ \A x \in Sides : x = y \/ x = z
  BY SidesFacts
<1>3. d \in Directions /\ d[1] = y /\ d[2] = s
  BY <1>1, <1>2, DirectionFacts
<1>4. q # <<>> /\ v = Head(q) /\ q \in Seq(EventSet) /\ OnWay(z) \in Seq(FrameSet)
  BY BaseTypes DEF Takes
<1>5. /\ accepted' = accepted /\ closed'[y] = closed[y]
      /\ \A t \in Streams : delivered'[z][t] = delivered[z][t] + BytesOf(v, t)
      /\ \A t \in Streams : delivered'[y][t] = delivered[y][t]
      /\ \A t \in Streams : t \in closed'[z] <=> t \in closed[z]
  BY DEF Takes
<1>6. \A x \in Sides, t \in Streams : phase'[x][t] = "done" <=> phase[x][t] = "done"
  <2> SUFFICES ASSUME NEW x \in Sides, NEW t \in Streams
               PROVE  phase'[x][t] = "done" <=> phase[x][t] = "done"
    OBVIOUS
  <2>1. \/ phase'[x][t] = phase[x][t]
        \/ phase[x][t] = "none" /\ phase'[x][t] = "open"
        \/ phase[x][t] = "waiting" /\ phase'[x][t] = "sending"
    BY DEF Takes
  <2> QED  BY <2>1
<1>7. BytesOf(v, s) = v.len /\ \A t \in Streams : t # s => BytesOf(v, t) = 0
  BY DEF BytesOf
<1>8. s \notin closed[z]
  <2> SUFFICES ASSUME s \in closed[z] PROVE FALSE
    OBVIOUS
  <2>1. Mute(q, s)
    BY DEF Order, Ordered
  <2>2. 1 \in DOMAIN q /\ q[1] = v
    BY <1>4, TailElements
  <2> QED  BY <2>1, <2>2 DEF Mute
<1>9. delivered[z][s] + v.len <= accepted[y][s]
  <2>1. accepted[y][s] = delivered[z][s] + BytesIn(q, s) + DataIn(OnWay(z), s)
    BY <1>1 DEF Base, NothingLost
  <2>2. BytesIn(q, s) = v.len + BytesIn(Tail(q), s)
    BY <1>1, <1>4, <1>7, BytesInFacts
  <2>3. Tail(q) \in Seq(EventSet)
    BY <1>4
  <2>4. BytesIn(Tail(q), s) \in Nat /\ DataIn(OnWay(z), s) \in Nat
    BY <1>1, <1>4, <2>3, BytesInFacts, DataInFacts
  <2>5. delivered[z][s] \in Nat
    BY <1>1, BaseTypes
  <2> HIDE DEF q, y, s
  <2> QED  BY <1>1, <2>1, <2>2, <2>4, <2>5
<1>10. v.len \in 1 .. LargestBody
  <2>1. LargestBody \in Nat /\ BodyOf(y, s) <= LargestBody
    BY <1>1, <1>2, BodyBound DEF Base
  <2>2. accepted[y][s] \in Nat /\ BodyOf(y, s) \in Nat /\ delivered[z][s] \in Nat
    BY <1>1, <1>2, BaseTypes
  <2>3. Booked(y, s) /\ phase[y][s] \in Phases
    BY <1>1, <1>2, BaseTypes DEF Base, PhaseOK
  <2>4. accepted[y][s] <= BodyOf(y, s)
    BY <2>2, <2>3 DEF Booked, Phases
  <2> HIDE DEF y, s
  <2> QED  BY <1>1, <1>9, <2>1, <2>2, <2>4
<1> HIDE DEF d, y, s, q
<1>11. ASSUME NEW c \in Directions
       PROVE  /\ c # d => delivered'[Peer(c[1])][c[2]] = delivered[Peer(c[1])][c[2]]
              /\ c[2] \in closed'[Peer(c[1])] <=> c[2] \in closed[Peer(c[1])]
              /\ phase'[c[1]][c[2]] = "done" <=> phase[c[1]][c[2]] = "done"
  <2>1. c[1] \in Sides /\ c[2] \in Streams /\ c = <<c[1], c[2]>>
    BY DirectionFacts
  <2>2. Peer(c[1]) \in Sides /\ (c[1] = z => Peer(c[1]) = y) /\ (c[1] = y => Peer(c[1]) = z)
    BY <1>2, <2>1, SidesFacts DEF y
  <2>3. \A x \in Sides, t \in Streams : t \in closed'[x] <=> t \in closed[x]
    BY <1>2, <1>5
  <2>4. c # d => delivered'[Peer(c[1])][c[2]] = delivered[Peer(c[1])][c[2]]
    <3>1. delivered[z] \in [Streams -> Nat]
      BY DEF Base, Types
    <3>2. \A t \in Streams : t # s => delivered'[z][t] = delivered[z][t]
      BY <1>5, <1>7, <3>1
    <3> QED  BY <1>2, <1>5, <2>1, <2>2, <3>2 DEF d
  <2> QED  BY <1>6, <2>1, <2>2, <2>3, <2>4
<1>12. /\ [c \in Directions |-> accepted'[c[1]][c[2]]] = [c \in Directions |-> accepted[c[1]][c[2]]]
       /\ [c \in Directions |-> phase'[c[1]][c[2]] = "done"] =
            [c \in Directions |-> phase[c[1]][c[2]] = "done"]
       /\ [c \in Directions |-> c[2] \in closed'[Peer(c[1])]] =
            [c \in Directions |-> c[2] \in closed[Peer(c[1])]]
  BY <1>5, <1>11
<1>13. [c \in Directions |-> delivered'[Peer(c[1])][c[2]]] =
         [[c \in Directions |-> delivered[Peer(c[1])][c[2]]] EXCEPT ![d] = @ + v.len]
  BY ZenonT(40), <1>1, <1>2, <1>3, <1>5, <1>7, <1>11
<1>14. Promise!Deliver(d, v.len)
  BY <1>2, <1>3, <1>8, <1>9, <1>12, <1>13 DEF Promise!Deliver, Directions
<1> QED  BY <1>10, <1>14 DEF d, y, s

\* An application that sends.
LEMMA SendsAccept ==
  ASSUME Base, NEW z \in Sides, NEW s \in Streams, NEW out, NEW n, Sends(z, s, out, n),
         NEW end \in BOOLEAN, end = (phase'[z][s] = "done")
  PROVE  n \in 0 .. LargestBody /\ Promise!Accept(<<z, s>>, n, end)
<1> DEFINE d == <<z, s>>
<1>1. d \in Directions /\ d[1] = z /\ d[2] = s
  BY DirectionFacts
<1>2. /\ n \in Nat /\ phase[z][s] # "done" /\ accepted'[z][s] = accepted[z][s] + n
      /\ \A x \in Sides, t \in Streams : x # z \/ t # s => phase'[x][t] = phase[x][t]
      /\ \A x \in Sides, t \in Streams : x # z \/ t # s => accepted'[x][t] = accepted[x][t]
      /\ delivered' = delivered /\ closed' = closed
      /\ accepted[z][s] + n <= BodyOf(z, s)
  <2>1. phase'[z][s] = "done" => accepted[z][s] + n = BodyOf(z, s)
    BY DEF Sends
  <2>2. phase'[z][s] # "done" => accepted[z][s] + n < BodyOf(z, s)
    BY DEF Sends
  <2>3. n \in Nat /\ accepted[z][s] \in Nat /\ BodyOf(z, s) \in Nat
    BY BaseTypes DEF Sends
  <2>4. accepted[z][s] + n <= BodyOf(z, s)
    BY <2>1, <2>2, <2>3
  <2> QED  BY <2>4 DEF Sends
<1>3. LargestBody \in Nat /\ BodyOf(z, s) <= LargestBody
  BY BodyBound DEF Base
<1>4. accepted[z][s] \in Nat /\ BodyOf(z, s) \in Nat
  BY BaseTypes
<1>5. n \in 0 .. LargestBody /\ accepted[z][s] + n <= LargestBody
  BY <1>2, <1>3, <1>4
<1>6. ASSUME NEW c \in Directions, c # d
      PROVE  accepted'[c[1]][c[2]] = accepted[c[1]][c[2]] /\ phase'[c[1]][c[2]] = phase[c[1]][c[2]]
  <2>1. c[1] \in Sides /\ c[2] \in Streams /\ (c[1] # z \/ c[2] # s)
    BY <1>6, DirectionFacts
  <2> QED  BY <1>2, <2>1
<1> HIDE DEF d
<1>7. [c \in Directions |-> accepted'[c[1]][c[2]]] =
        [[c \in Directions |-> accepted[c[1]][c[2]]] EXCEPT ![d] = @ + n]
  BY <1>1, <1>2, <1>6
<1>8. [c \in Directions |-> phase'[c[1]][c[2]] = "done"] =
        [[c \in Directions |-> phase[c[1]][c[2]] = "done"] EXCEPT ![d] = end]
  <2>1. \A c \in Directions :
          (phase'[c[1]][c[2]] = "done") = IF c = d THEN end ELSE phase[c[1]][c[2]] = "done"
    <3> SUFFICES ASSUME NEW c \in Directions
                 PROVE  (phase'[c[1]][c[2]] = "done") =
                          IF c = d THEN end ELSE phase[c[1]][c[2]] = "done"
      OBVIOUS
    <3>1. CASE c = d
      BY <1>1, <3>1
    <3>2. CASE c # d
      BY <1>6, <3>2
    <3> QED  BY <3>1, <3>2
  <2>2. [c \in Directions |-> phase'[c[1]][c[2]] = "done"] =
          [c \in Directions |-> IF c = d THEN end ELSE phase[c[1]][c[2]] = "done"]
    BY <2>1
  <2> QED  BY <2>2, Zenon
<1>9. Promise!Accept(d, n, end)
  BY <1>1, <1>2, <1>5, <1>7, <1>8 DEF Promise!Accept, Directions, LargestBody
<1> QED  BY <1>5, <1>9 DEF d

\* An application that is told the stream is closed.
LEMMA TakesCloses ==
  ASSUME Base, Order, NEW z \in Sides, NEW v, Takes(z, v), v.type = "stream_closed"
  PROVE  v.stream \in Streams /\ Promise!Close(<<Peer(z), v.stream>>)
<1> DEFINE s == v.stream
           y == Peer(z)
           d == <<y, s>>
           q == engine[z].event_queue
<1>1. v \in EventSet /\ s \in Streams /\ phase[y][s] = "done"
  <2>1. v \in GoodEvents(z)
    BY DEF Takes
  <2> QED  BY <2>1 DEF GoodEvents, GoodEvent, EventSet
<1>2. y \in Sides /\ Peer(y) = z /\ y # z /\ \A x \in Sides : x = y \/ x = z
  BY SidesFacts
<1>3. d \in Directions /\ d[1] = y /\ d[2] = s
  BY <1>1, <1>2, DirectionFacts
<1>4. q # <<>> /\ v = Head(q) /\ q \in Seq(EventSet) /\ OnWay(z) \in Seq(FrameSet)
  BY BaseTypes DEF Takes
<1>5. /\ accepted' = accepted /\ closed'[y] = closed[y]
      /\ \A t \in Streams : delivered'[z][t] = delivered[z][t] + BytesOf(v, t)
      /\ \A t \in Streams : delivered'[y][t] = delivered[y][t]
      /\ \A t \in Streams : t \in closed'[z] <=> t \in closed[z] \/ t = s
  BY DEF Takes
<1>6. \A x \in Sides, t \in Streams : phase'[x][t] = "done" <=> phase[x][t] = "done"
  <2> SUFFICES ASSUME NEW x \in Sides, NEW t \in Streams
               PROVE  phase'[x][t] = "done" <=> phase[x][t] = "done"
    OBVIOUS
  <2>1. \/ phase'[x][t] = phase[x][t]
        \/ phase[x][t] = "none" /\ phase'[x][t] = "open"
        \/ phase[x][t] = "waiting" /\ phase'[x][t] = "sending"
    BY DEF Takes
  <2> QED  BY <2>1
<1>7. \A t : BytesOf(v, t) = 0
  BY DEF BytesOf
<1>8. 1 \in DOMAIN q /\ q[1] = v
  BY <1>4, TailElements
<1>9. s \notin closed[z]
  <2> SUFFICES ASSUME s \in closed[z] PROVE FALSE
    OBVIOUS
  <2>1. Mute(q, s)
    BY DEF Order, Ordered
  <2> QED  BY <1>8, <2>1 DEF Mute
<1>10. delivered[z][s] = accepted[y][s]
  <2>1. accepted[y][s] = delivered[z][s] + BytesIn(q, s) + DataIn(OnWay(z), s)
    BY <1>1 DEF Base, NothingLost
  <2>2. BytesIn(q, s) = 0 + BytesIn(Tail(q), s)
    BY <1>1, <1>4, <1>7, BytesInFacts
  <2>3. Tail(q) \in Seq(EventSet)
    BY <1>4
  <2>4. ClosesLast(q) /\ Silent(OnWay(z), s)
    BY <1>8 DEF Order, Ordered
  <2>5. Mute(Tail(q), s)
    BY <1>4, <2>4, TailCloses
  <2>6. BytesIn(Tail(q), s) = 0 /\ DataIn(OnWay(z), s) = 0
    BY <1>1, <1>4, <2>3, <2>4, <2>5, MuteCarries, SilentCarries
  <2>7. delivered[z][s] \in Nat
    BY <1>1, BaseTypes
  <2> HIDE DEF q, y, s
  <2> QED  BY <1>1, <2>1, <2>2, <2>6, <2>7
<1> HIDE DEF d, y, s, q
<1>11. ASSUME NEW c \in Directions
       PROVE  /\ delivered'[Peer(c[1])][c[2]] = delivered[Peer(c[1])][c[2]]
              /\ c # d => (c[2] \in closed'[Peer(c[1])] <=> c[2] \in closed[Peer(c[1])])
              /\ phase'[c[1]][c[2]] = "done" <=> phase[c[1]][c[2]] = "done"
  <2>1. c[1] \in Sides /\ c[2] \in Streams /\ c = <<c[1], c[2]>>
    BY DirectionFacts
  <2>2. Peer(c[1]) \in Sides /\ (c[1] = z => Peer(c[1]) = y) /\ (c[1] = y => Peer(c[1]) = z)
    BY <1>2, <2>1, SidesFacts DEF y
  <2>3. \A t \in Streams : delivered[z][t] \in Nat
    BY BaseTypes
  <2>4. \A t \in Streams : delivered'[z][t] = delivered[z][t]
    BY <1>5, <1>7, <2>3
  <2>5. delivered'[Peer(c[1])][c[2]] = delivered[Peer(c[1])][c[2]]
    BY <1>2, <1>5, <2>1, <2>2, <2>4
  <2>6. c # d => (c[2] \in closed'[Peer(c[1])] <=> c[2] \in closed[Peer(c[1])])
    BY <1>2, <1>5, <2>1, <2>2 DEF d
  <2> QED  BY <1>6, <2>1, <2>5, <2>6
<1>12. /\ [c \in Directions |-> accepted'[c[1]][c[2]]] = [c \in Directions |-> accepted[c[1]][c[2]]]
       /\ [c \in Directions |-> phase'[c[1]][c[2]] = "done"] =
            [c \in Directions |-> phase[c[1]][c[2]] = "done"]
       /\ [c \in Directions |-> delivered'[Peer(c[1])][c[2]]] =
            [c \in Directions |-> delivered[Peer(c[1])][c[2]]]
  BY <1>5, <1>11
<1>13. [c \in Directions |-> c[2] \in closed'[Peer(c[1])]] =
         [[c \in Directions |-> c[2] \in closed[Peer(c[1])]] EXCEPT ![d] = TRUE]
  <2>1. d[2] \in closed'[Peer(d[1])]
    BY <1>1, <1>2, <1>3, <1>5
  <2>2. \A c \in Directions :
          (c[2] \in closed'[Peer(c[1])]) = IF c = d THEN TRUE ELSE c[2] \in closed[Peer(c[1])]
    <3> SUFFICES ASSUME NEW c \in Directions
                 PROVE  (c[2] \in closed'[Peer(c[1])]) =
                          IF c = d THEN TRUE ELSE c[2] \in closed[Peer(c[1])]
      OBVIOUS
    <3>1. CASE c = d
      BY <2>1, <3>1
    <3>2. CASE c # d
      BY <1>11, <3>2
    <3> QED  BY <3>1, <3>2
  <2>3. [c \in Directions |-> c[2] \in closed'[Peer(c[1])]] =
          [c \in Directions |-> IF c = d THEN TRUE ELSE c[2] \in closed[Peer(c[1])]]
    BY <2>2
  <2> QED  BY <2>3, Zenon
<1>14. Promise!Close(d)
  BY <1>1, <1>2, <1>3, <1>9, <1>10, <1>12, <1>13 DEF Promise!Close, Directions
<1> QED  BY <1>1, <1>14 DEF d, y, s

\* Every other step is no step of the exchanges.
LEMMA OtherSteps ==
  ASSUME accepted' = accepted,
         \A x \in Sides, t \in Streams : phase'[x][t] = "done" <=> phase[x][t] = "done",
         \A x \in Sides, t \in Streams : delivered'[x][t] = delivered[x][t],
         \A x \in Sides, t \in Streams : t \in closed'[x] <=> t \in closed[x]
  PROVE  UNCHANGED Promise!vars
<1>1. ASSUME NEW c \in Directions
      PROVE  /\ delivered'[Peer(c[1])][c[2]] = delivered[Peer(c[1])][c[2]]
             /\ c[2] \in closed'[Peer(c[1])] <=> c[2] \in closed[Peer(c[1])]
             /\ phase'[c[1]][c[2]] = "done" <=> phase[c[1]][c[2]] = "done"
  <2>1. c[1] \in Sides /\ c[2] \in Streams /\ Peer(c[1]) \in Sides
    BY DirectionFacts, SidesFacts
  <2> QED  BY <2>1
<1>2. /\ [c \in Directions |-> accepted'[c[1]][c[2]]] = [c \in Directions |-> accepted[c[1]][c[2]]]
      /\ [c \in Directions |-> phase'[c[1]][c[2]] = "done"] =
           [c \in Directions |-> phase[c[1]][c[2]] = "done"]
      /\ [c \in Directions |-> delivered'[Peer(c[1])][c[2]]] =
           [c \in Directions |-> delivered[Peer(c[1])][c[2]]]
      /\ [c \in Directions |-> c[2] \in closed'[Peer(c[1])]] =
           [c \in Directions |-> c[2] \in closed[Peer(c[1])]]
  BY <1>1
<1> QED  BY <1>2 DEF Promise!vars, Directions

\* A step of an application that takes an event.
LEMMA TakesPromise ==
  ASSUME Base, Order, NEW z \in Sides, NEW v, Takes(z, v)
  PROVE  [Promise!Next]_(Promise!vars)
<1>1. CASE v.type = "data"
  <2>1. v.len \in 1 .. LargestBody /\ Promise!Deliver(<<Peer(z), v.stream>>, v.len)
    BY <1>1, TakesDelivers
  <2>2. v.stream \in Streams
    <3>1. v \in GoodEvents(z)
      BY DEF Takes
    <3> QED  BY <1>1, <3>1 DEF GoodEvents, GoodEvent, EventSet
  <2>3. <<Peer(z), v.stream>> \in Sides \X Streams
    BY <2>2, SidesFacts
  <2> QED  BY <2>1, <2>3 DEF Promise!Next, LargestBody
<1>2. CASE v.type = "stream_closed"
  <2>1. v.stream \in Streams /\ Promise!Close(<<Peer(z), v.stream>>)
    BY <1>2, TakesCloses
  <2>2. <<Peer(z), v.stream>> \in Sides \X Streams
    BY <2>1, SidesFacts
  <2> QED  BY <2>1, <2>2 DEF Promise!Next
<1>3. CASE v.type # "data" /\ v.type # "stream_closed"
  <2>1. /\ accepted' = accepted /\ closed'[Peer(z)] = closed[Peer(z)]
        /\ \A t \in Streams : delivered'[z][t] = delivered[z][t] + BytesOf(v, t)
        /\ \A t \in Streams : delivered'[Peer(z)][t] = delivered[Peer(z)][t]
        /\ \A t \in Streams : t \in closed'[z] <=> t \in closed[z]
    BY <1>3 DEF Takes
  <2>2. \A x \in Sides, t \in Streams : phase'[x][t] = "done" <=> phase[x][t] = "done"
    <3> SUFFICES ASSUME NEW x \in Sides, NEW t \in Streams
                 PROVE  phase'[x][t] = "done" <=> phase[x][t] = "done"
      OBVIOUS
    <3>1. \/ phase'[x][t] = phase[x][t]
          \/ phase[x][t] = "none" /\ phase'[x][t] = "open"
          \/ phase[x][t] = "waiting" /\ phase'[x][t] = "sending"
      BY DEF Takes
    <3> QED  BY <3>1
  <2>3. \A t \in Streams : delivered'[z][t] = delivered[z][t]
    <3>1. \A t \in Streams : delivered[z][t] \in Nat /\ BytesOf(v, t) = 0
      BY <1>3, BaseTypes DEF BytesOf
    <3> QED  BY <2>1, <3>1
  <2>4. \A x \in Sides, t \in Streams : delivered'[x][t] = delivered[x][t]
    BY <2>1, <2>3, SidesFacts
  <2>5. \A x \in Sides, t \in Streams : t \in closed'[x] <=> t \in closed[x]
    BY <2>1, SidesFacts
  <2> QED  BY <2>1, <2>2, <2>4, <2>5, OtherSteps
<1> QED  BY <1>1, <1>2, <1>3

\* Every step of the link is a step of the exchanges, or none.
LEMMA NextPromise ==
  ASSUME Base, Order, [Next]_vars
  PROVE  [Promise!Next]_(Promise!vars)
<1>1. ASSUME NEW z \in Sides, NEW s \in Streams, NEW out, NEW n, Sends(z, s, out, n)
      PROVE  [Promise!Next]_(Promise!vars)
  <2>2. PICK end \in BOOLEAN : end = (phase'[z][s] = "done")
    OBVIOUS
  <2>3. <<z, s>> \in Sides \X Streams
    OBVIOUS
  <2>4. n \in 0 .. LargestBody /\ Promise!Accept(<<z, s>>, n, end)
    BY <1>1, <2>2, SendsAccept
  <2> QED  BY <2>2, <2>3, <2>4 DEF Promise!Next, LargestBody
<1>2. CASE Open
  <2> DEFINE o == engine["client"].next_stream_id
  <2>1. o \in Streams /\ phase' = [phase EXCEPT !["client"][o] = "open"]
        /\ UNCHANGED <<accepted, delivered, closed>>
    BY <1>2 DEF Open
  <2> HIDE DEF o
  <2>2. "client" \in Sides /\ phase \in [Sides -> [Streams -> Phases]]
    BY DEF Base, Types, Sides
  <2>3. phase["client"][o] = "none"
    <3>1. engine["client"].next_stream_id = o
      BY DEF o
    <3>2. Opened(o) => o \in Nat /\ o < o
      BY <2>1, <3>1 DEF Base, PhaseOK
    <3> QED  BY <3>2 DEF Opened
  <2>4. \A x \in Sides, t \in Streams : phase'[x][t] = "done" <=> phase[x][t] = "done"
    <3>1. \A x \in Sides, t \in Streams :
            phase'[x][t] = IF x = "client" /\ t = o THEN "open" ELSE phase[x][t]
      BY <2>1, <2>2
    <3> QED  BY <2>3, <3>1
  <2> QED  BY <2>1, <2>4, OtherSteps
<1>3. CASE Applications
  <2>1. ASSUME NEW x \in Sides, NEW s \in Streams, SendHeaders(x, s)
        PROVE  [Promise!Next]_(Promise!vars)
    <3> DEFINE out == <<Headers(s, BodyOf(x, s) = 0)>>
    <3>1. Sends(x, s, out, 0)
      BY <2>1, SendHeadersStep
    <3> HIDE DEF out
    <3> QED  BY <1>1, <3>1
  <2>2. ASSUME NEW x \in Sides, NEW s \in Streams, SendBody(x, s)
        PROVE  [Promise!Next]_(Promise!vars)
    BY <1>1, <2>2, SendBodyStep
  <2>3. ASSUME NEW x \in Sides, HandleEvent(x)
        PROVE  [Promise!Next]_(Promise!vars)
    BY <2>3, HandleEventStep, TakesPromise
  <2> QED  BY <1>3, <2>1, <2>2, <2>3 DEF Applications
<1>4. CASE Transport \/ UNCHANGED vars
  <2>1. UNCHANGED <<phase, accepted, delivered, closed>>
    BY <1>4 DEF Transport, vars, ReadPreface, ReadFrameHeader, ReadSome, ReadPayload
  <2> QED  BY <2>1, OtherSteps
<1> QED  BY <1>2, <1>3, <1>4 DEF Next

\* When no read cuts HEADERS, or DATA with END_STREAM, the connected engines
\* implement Exchange: bytes arrive as accepted, and stream_closed comes once,
\* after the last of them.
THEOREM LinkImplementsExchange ==
  ASSUME ~SplitEnd
  PROVE  Spec => ImplementsExchange
<1>1. Init => Promise!Init
  <2> SUFFICES ASSUME Init PROVE Promise!Init
    OBVIOUS
  <2>1. ASSUME NEW c \in Directions
        PROVE  /\ accepted[c[1]][c[2]] = 0 /\ (phase[c[1]][c[2]] = "done") = FALSE
               /\ delivered[Peer(c[1])][c[2]] = 0 /\ (c[2] \in closed[Peer(c[1])]) = FALSE
    <3>1. c[1] \in Sides /\ c[2] \in Streams /\ Peer(c[1]) \in Sides
      BY DirectionFacts, SidesFacts
    <3> QED  BY <3>1 DEF Init
  <2>2. /\ [c \in Directions |-> accepted[c[1]][c[2]]] = [c \in Directions |-> 0]
        /\ [c \in Directions |-> phase[c[1]][c[2]] = "done"] = [c \in Directions |-> FALSE]
        /\ [c \in Directions |-> delivered[Peer(c[1])][c[2]]] = [c \in Directions |-> 0]
        /\ [c \in Directions |-> c[2] \in closed[Peer(c[1])]] = [c \in Directions |-> FALSE]
    BY <2>1
  <2> QED  BY <2>2 DEF Promise!Init, Directions
<1>2. Base /\ Order /\ [Next]_vars => [Promise!Next]_(Promise!vars)
  BY NextPromise
<1> QED  BY <1>1, <1>2, OrderInvariance, PTL DEF Spec, ImplementsExchange, Promise!Spec

----------------------------------------------------------------------------
(* Nobody is accused: credit, and complaints.                              *)

\* No event is a complaint.
Blameless(q) == \A i \in DOMAIN q : q[i].type # "connection_error"
Peaceful == \A x \in Sides : Blameless(engine[x].event_queue)

\* Neither engine has lost or made up credit.
Conserved == \A x \in Sides : Credited(engine[x])

\* Wakeups and reports accuse nobody.
LEMMA WakeupsBlameless ==
  ASSUME NEW S, NEW q \in Seq(Wakeups(S))
  PROVE  Blameless(q)
<1>1. \A i \in DOMAIN q : q[i] \in Wakeups(S)
  OBVIOUS
<1> QED  BY <1>1 DEF Wakeups, Blameless

\* What a header block or DATA reports is no complaint.
LEMMA ReportsBlameless ==
  ASSUME NEW s, NEW end \in BOOLEAN, NEW q \in Seq(Reports(s, end))
  PROVE  Blameless(q)
<1>1. \A i \in DOMAIN q : q[i] \in Reports(s, end)
  OBVIOUS
<1> QED  BY <1>1 DEF Reports, Blameless

\* What a step does to the queue of the side that takes it; the other's stays.
LEMMA QueueStep ==
  ASSUME Base, Peaceful, NEW z \in Sides, Blameless(engine'[z].event_queue),
         engine'[Peer(z)].event_queue = engine[Peer(z)].event_queue
  PROVE  Peaceful'
BY SidesFacts DEF Peaceful

\* No step complains, unless DATA overran a window.
LEMMA NextPeaceful ==
  ASSUME Base, Peaceful, [Next]_vars,
         \A z \in Sides : \A f, n, out :
           HearsData(z, f, n, out) => ~Overruns(engine[z], f.stream, n)
  PROVE  Peaceful'
<1>1. CASE Open
  <2> DEFINE z == "client"
             out == Greeting(engine[z])
  <2>1. z \in Sides
    BY SidesFacts
  <2>2. Calls(z, out) /\ engine'[z].event_queue = engine[z].event_queue
    BY <1>1, OpenStep
  <2> HIDE DEF out, z
  <2>3. Blameless(engine'[z].event_queue)
    BY <2>1, <2>2 DEF Peaceful
  <2>4. engine'[Peer(z)].event_queue = engine[Peer(z)].event_queue
    BY <2>2 DEF Calls
  <2> QED  BY <2>1, <2>3, <2>4, QueueStep
<1>2. ASSUME NEW z \in Sides, NEW s \in Streams, NEW out, NEW n, Sends(z, s, out, n)
      PROVE  Peaceful'
  <2>1. /\ engine'[z].event_queue = engine[z].event_queue
        /\ engine'[Peer(z)].event_queue = engine[Peer(z)].event_queue
    BY <1>2 DEF Sends, Calls
  <2> QED  BY <2>1, QueueStep DEF Peaceful
<1>3. ASSUME NEW z \in Sides, NEW v, Takes(z, v)
      PROVE  Peaceful'
  <2> DEFINE q == engine[z].event_queue
  <2>1. /\ q # <<>> /\ engine'[z].event_queue = Tail(q)
        /\ engine'[Peer(z)].event_queue = engine[Peer(z)].event_queue
    BY <1>3 DEF Takes, Calls
  <2>2. q \in Seq(EventSet) /\ Blameless(q)
    BY BaseTypes DEF Peaceful
  <2> HIDE DEF q
  <2>3. \A i \in DOMAIN Tail(q) : i + 1 \in DOMAIN q /\ Tail(q)[i] = q[i + 1]
    BY <2>1, <2>2, TailElements
  <2>4. Blameless(engine'[z].event_queue)
    BY <2>1, <2>2, <2>3 DEF Blameless
  <2> QED  BY <2>1, <2>4, QueueStep
<1>4. ASSUME NEW z \in Sides, NEW out, Hears(z, out), Blameless(engine'[z].event_queue)
      PROVE  Peaceful'
  <2>1. engine'[Peer(z)].event_queue = engine[Peer(z)].event_queue
    BY <1>4 DEF Hears
  <2> QED  BY <1>4, <2>1, QueueStep
<1>5. CASE ReadPreface
  <2> DEFINE z == "server"
             out == Hello(engine[z])
  <2>1. z \in Sides
    BY SidesFacts
  <2>2. Hears(z, out) /\ engine'[z].event_queue = <<>>
    BY <1>5, ReadPrefaceStep
  <2> HIDE DEF out, z
  <2>3. Blameless(engine'[z].event_queue)
    BY <2>2 DEF Blameless
  <2> QED  BY <1>4, <2>1, <2>2, <2>3
<1>6. ASSUME NEW z \in Sides, NEW f, HearsHeader(z, f)
      PROVE  Peaceful'
  <2> DEFINE out == Answer(f)
  <2>1. Hears(z, out) /\ engine'[z].event_queue = <<>>
    BY <1>6 DEF HearsHeader
  <2> HIDE DEF out
  <2>2. Blameless(engine'[z].event_queue)
    BY <2>1 DEF Blameless
  <2> QED  BY <1>4, <2>1, <2>2
<1>7. ASSUME NEW z \in Sides, NEW f, NEW n, NEW out, NEW events,
             Consumes(z, f, n, out, events), Blameless(events)
      PROVE  Peaceful'
  <2>1. Hears(z, out) /\ engine'[z].event_queue = events
    BY <1>7 DEF Consumes
  <2> QED  BY <1>4, <1>7, <2>1
<1>8. ASSUME NEW z \in Sides, NEW f, NEW n, NEW out, HearsData(z, f, n, out)
      PROVE  Peaceful'
  <2> PICK events : events = DataEvents(engine[z], f, n)
    OBVIOUS
  <2> PICK e : e = engine[z]
    OBVIOUS
  <2>1. f.stream \in Streams /\ Consumes(z, f, n, out, events)
    BY <1>8 DEF HearsData
  <2>2. f \in FrameSet /\ n \in Nat \ {0} /\ f.end \in BOOLEAN
    BY <2>1 DEF Consumes, FrameSet
  <2>3. e \in EngineSet /\ events = DataEvents(e, f, n)
    BY BaseTypes
  <2>4. ~Overruns(e, f.stream, n)
    BY <1>8
  <2>5. ~Overruns(e, f.stream, n) => DataEvents(e, f, n) \in Seq(Reports(f.stream, f.end))
    BY <2>1, <2>2, <2>3, DataEventsReport
  <2>6. events \in Seq(Reports(f.stream, f.end))
    BY <2>3, <2>4, <2>5
  <2>7. Blameless(events)
    BY <2>2, <2>6, ReportsBlameless
  <2> QED  BY <1>7, <2>1, <2>7
<1>9. ASSUME NEW z \in Sides, NEW f, NEW n, HearsHeaderBlock(z, f, n)
      PROVE  Peaceful'
  <2> PICK events : events = HeaderEvents(engine[z], f)
    OBVIOUS
  <2> PICK e : e = engine[z]
    OBVIOUS
  <2> PICK out : out = <<>>
    OBVIOUS
  <2>1. f.type = "headers" /\ f.stream \in Streams /\ Consumes(z, f, n, out, events)
    BY <1>9 DEF HearsHeaderBlock
  <2>2. f \in FrameSet /\ f.end \in BOOLEAN
    BY <2>1 DEF Consumes, FrameSet
  <2>3. e \in EngineSet /\ events = HeaderEvents(e, f)
    BY BaseTypes
  <2>4. events \in Seq(Reports(f.stream, f.end))
    BY <2>1, <2>2, <2>3, HeaderEventsReport
  <2>5. Blameless(events)
    BY <2>2, <2>4, ReportsBlameless
  <2> QED  BY <1>7, <2>1, <2>5
<1>10. ASSUME NEW z \in Sides, NEW f, NEW n, NEW events,
              HearsSettings(z, f, n, events) \/ HearsCredit(z, f, n, events)
       PROVE  Peaceful'
  <2> PICK out : out = <<>>
    OBVIOUS
  <2>1. Consumes(z, f, n, out, events) /\ \E S : events \in Seq(Wakeups(S))
    BY <1>10 DEF HearsSettings, HearsCredit
  <2>2. Blameless(events)
    BY <2>1, WakeupsBlameless
  <2> QED  BY <1>7, <2>1, <2>2
<1>11. ASSUME NEW z \in Sides, ReadSome(z)
       PROVE  Peaceful'
  <2>1. PICK n \in 1 .. frame[z].len - payload_bytes_read[z],
             q \in IterationOrders(Woken(engine[z], frame[z])) : ReadPayload(z, n, q)
    BY <1>11 DEF ReadSome
  <2> DEFINE f == frame[z]
  <2>2. \/ \E out : HearsData(z, f, n, out)
        \/ HearsHeaderBlock(z, f, n)
        \/ \E events : HearsSettings(z, f, n, events)
        \/ \E events : HearsCredit(z, f, n, events)
    BY <2>1, ReadPayloadStep
  <2> HIDE DEF f
  <2> QED  BY <1>8, <1>9, <1>10, <2>2
<1>12. CASE Applications
  <2>1. ASSUME NEW x \in Sides, NEW s \in Streams, SendHeaders(x, s)
        PROVE  Peaceful'
    <3> DEFINE out == <<Headers(s, BodyOf(x, s) = 0)>>
    <3>1. Sends(x, s, out, 0)
      BY <2>1, SendHeadersStep
    <3> HIDE DEF out
    <3> QED  BY <1>2, <3>1
  <2>2. ASSUME NEW x \in Sides, NEW s \in Streams, SendBody(x, s)
        PROVE  Peaceful'
    BY <1>2, <2>2, SendBodyStep
  <2>3. ASSUME NEW x \in Sides, HandleEvent(x)
        PROVE  Peaceful'
    BY <1>3, <2>3, HandleEventStep
  <2> QED  BY <1>12, <2>1, <2>2, <2>3 DEF Applications
<1>13. CASE Transport
  <2>1. ASSUME NEW x \in Sides, ReadFrameHeader(x)
        PROVE  Peaceful'
    BY <1>6, <2>1, ReadFrameHeaderStep
  <2> QED  BY <1>5, <1>11, <1>13, <2>1 DEF Transport
<1>14. CASE UNCHANGED vars
  BY <1>14 DEF vars, Peaceful
<1> QED  BY <1>1, <1>12, <1>13, <1>14 DEF Next

\* Nothing was received yet, so nothing waits to be credited.
LEMMA InitConserved == Init => Conserved
<1> SUFFICES ASSUME Init PROVE Conserved
  OBVIOUS
<1>1. ASSUME NEW x \in Sides PROVE Credited(engine[x])
  <2>1. PICK size \in Nat : engine[x] = Configured(x, size)
    BY InitSides
  <2> PICK e : e = engine[x]
    OBVIOUS
  <2>2. /\ e \in EngineSet /\ e.connection_recv_window = Window + ConnectionBonus(e)
        /\ \A s \in Streams : ~e.flow[s].tracked
    BY InitFacts
  <2>3. e.connection_consumed = 0
    BY <2>1 DEF Configured, SetInitialWindowSize, NewEngine
  <2>4. Greatest(1, Threshold(e)) > 0 /\ ConnectionBonus(e) \in Int /\ Window \in Int
    <3>1. Threshold(e) \in Nat /\ e.initial_window_size \in Nat /\ Window \in Int
      BY <2>2, ThresholdType, MemberTypes, WindowAssumption
    <3> QED  BY <3>1 DEF Greatest, ConnectionBonus
  <2>5. ConnectionCredit(e)
    <3>1. /\ e.connection_recv_window + 0 = Window + ConnectionBonus(e)
          /\ 0 < Greatest(1, Threshold(e))
      BY <2>2, <2>4
    <3> QED  BY <2>3, <3>1 DEF ConnectionCredit
  <2> QED  BY <2>2, <2>5 DEF Credited, StreamCredit
<1> QED  BY <1>1 DEF Conserved

\* No event is a complaint before there is one.
LEMMA InitPeaceful == Init => Peaceful
BY InitFacts DEF Peaceful, Blameless

\* One engine made a call that keeps the credit.
LEMMA OneCall ==
  ASSUME Base, Conserved, NEW z \in Sides, NEW g \in EngineSet,
         Credited(engine[z]) => Credited(g), engine' = [engine EXCEPT ![z] = g]
  PROVE  Conserved'
<1>1. engine'[z] = g /\ engine'[Peer(z)] = engine[Peer(z)]
  BY OneEngine DEF Base, Types
<1> QED  BY <1>1, SidesFacts DEF Conserved

\* Both engines made a call that keeps the credit.
LEMMA TwoCalls ==
  ASSUME Base, Conserved, NEW z \in Sides, NEW g, NEW h,
         Credited(engine[z]) => Credited(g), Credited(engine[Peer(z)]) => Credited(h),
         engine'[z] = g, engine'[Peer(z)] = h
  PROVE  Conserved'
BY SidesFacts DEF Conserved

\* Opening a stream keeps the credit.
LEMMA OpenConserved ==
  ASSUME Base, Conserved, Open
  PROVE  Conserved'
<1> PICK c : c = engine["client"]
  OBVIOUS
<1>1. c \in EngineSet /\ "client" \in Sides
  BY SidesFacts, BaseTypes
<1>2. c.next_stream_id \in Streams /\ engine' = [engine EXCEPT !["client"] = OpenStream(c)]
  BY DEF Open
<1>3. OpenStream(c) \in EngineSet /\ KeepsCredit(c, OpenStream(c))
  BY <1>1, <1>2, OpenStreamLemma
<1>4. Credited(c) => Credited(OpenStream(c))
  BY <1>1, <1>3, KeepsCredited
<1> QED  BY <1>1, <1>2, <1>3, <1>4, OneCall

\* HEADERS keep the credit.
LEMMA SendHeadersConserved ==
  ASSUME Base, Conserved, NEW x \in Sides, NEW s \in Streams, SendHeaders(x, s)
  PROVE  Conserved'
<1> PICK e : e = engine[x]
  OBVIOUS
<1> PICK end \in BOOLEAN : end = (BodyOf(x, s) = 0)
  OBVIOUS
<1> PICK g : g = SendHeadersFrame(e, s, end)
  OBVIOUS
<1>1. e \in EngineSet
  BY BaseTypes
<1>2. engine' = [engine EXCEPT ![x] = g]
  BY DEF SendHeaders
<1>3. g \in EngineSet /\ KeepsCredit(e, g)
  BY <1>1, SendHeadersLemma
<1>4. Credited(e) => Credited(g)
  BY <1>1, <1>3, KeepsCredited
<1> QED  BY <1>2, <1>3, <1>4, OneCall

\* DATA keeps the credit of the engine that sends it.
LEMMA SendBodyConserved ==
  ASSUME Base, Conserved, NEW x \in Sides, NEW s \in Streams, SendBody(x, s)
  PROVE  Conserved'
<1> PICK e : e = engine[x]
  OBVIOUS
<1> PICK rest : rest = BodyOf(x, s) - accepted[x][s]
  OBVIOUS
<1> PICK g : g = SendData(e, s, rest, TRUE)
  OBVIOUS
<1>1. e \in EngineSet
  BY BaseTypes
<1>2. engine' = [engine EXCEPT ![x] = g]
  BY DEF SendBody
<1>3. rest \in Nat
  <2>1. phase[x][s] = "sending" /\ Booked(x, s)
    BY DEF SendBody, Base, PhaseOK
  <2>2. BodyOf(x, s) \in Nat /\ accepted[x][s] \in Nat
    BY BaseTypes, BodyTypes DEF Base, Types
  <2> QED  BY <2>1, <2>2 DEF Booked
<1>4. g \in EngineSet /\ KeepsCredit(e, g)
  BY <1>1, <1>3, SendDataLemma
<1>5. Credited(e) => Credited(g)
  BY <1>1, <1>4, KeepsCredited
<1> QED  BY <1>2, <1>4, <1>5, OneCall

\* Taking an event keeps the credit.
LEMMA HandleEventConserved ==
  ASSUME Base, Conserved, NEW x \in Sides, HandleEvent(x)
  PROVE  Conserved'
<1> PICK e : e = engine[x]
  OBVIOUS
<1> PICK g : g = NextEvent(e)
  OBVIOUS
<1>1. e \in EngineSet /\ e.event_queue # <<>> /\ engine' = [engine EXCEPT ![x] = g]
  BY BaseTypes DEF HandleEvent
<1>2. g \in EngineSet /\ KeepsCredit(e, g)
  BY <1>1, NextEventLemma
<1>3. Credited(e) => Credited(g)
  BY <1>1, <1>2, KeepsCredited
<1> QED  BY <1>1, <1>2, <1>3, OneCall

\* Taking a frame keeps the credit of the engine that wrote it.
LEMMA TakenCredited ==
  ASSUME NEW e \in EngineSet, e.pending_out # <<>>
  PROVE  Credited(e) => Credited(OutputEnd(e, 1))
<1>1. e.pending_out \in Seq(FrameSet)
  BY MemberTypes
<1>2. 1 \in 1 .. Len(e.pending_out)
  BY <1>1
<1>3. OutputEnd(e, 1) \in EngineSet /\ KeepsCredit(e, OutputEnd(e, 1))
  BY <1>2, OutputEndLemma
<1> QED  BY <1>3, KeepsCredited

\* The preface keeps the credit of both engines.
LEMMA ReadPrefaceConserved ==
  ASSUME Base, Conserved, ReadPreface
  PROVE  Conserved'
<1> PICK e : e = engine["server"]
  OBVIOUS
<1> PICK d : d = engine["client"]
  OBVIOUS
<1> PICK g : g = ReceivePreface(e, TRUE)
  OBVIOUS
<1>1. /\ e \in EngineSet /\ d \in EngineSet
      /\ "server" \in Sides /\ "client" \in Sides /\ Peer("server") = "client"
  BY SidesFacts, BaseTypes
<1>2. /\ d.pending_out # <<>>
      /\ engine'["server"] = g /\ engine'["client"] = OutputEnd(d, 1)
  BY <1>1 DEF ReadPreface, Incoming
<1>3. g \in EngineSet /\ KeepsCredit(e, g)
  BY <1>1, ReceivePrefaceLemma
<1>4. Credited(e) => Credited(g)
  BY <1>1, <1>3, KeepsCredited
<1>5. Credited(d) => Credited(OutputEnd(d, 1))
  BY <1>1, <1>2, TakenCredited
<1> QED  BY <1>1, <1>2, <1>4, <1>5, TwoCalls

\* A frame header keeps the credit of both engines.
LEMMA ReadFrameHeaderConserved ==
  ASSUME Base, Conserved, NEW x \in Sides, ReadFrameHeader(x)
  PROVE  Conserved'
<1> PICK e : e = engine[x]
  OBVIOUS
<1> PICK d : d = engine[Peer(x)]
  OBVIOUS
<1> PICK f : f = Head(Incoming(x))
  OBVIOUS
<1> PICK g : g = HandleFrameHeader(e, f)
  OBVIOUS
<1>1. e \in EngineSet /\ d \in EngineSet /\ Peer(x) \in Sides /\ Peer(x) # x
  BY SidesFacts, BaseTypes
<1>2. d.pending_out # <<>> /\ f = Head(d.pending_out)
  BY DEF ReadFrameHeader, Incoming
<1>3. f \in FrameSet
  <2>1. d.pending_out \in Seq(FrameSet)
    BY <1>1, MemberTypes
  <2> QED  BY <1>2, <2>1
<1>4. engine'[x] = g /\ engine'[Peer(x)] = OutputEnd(d, 1)
  <2>1. engine' = [engine EXCEPT ![x] = g, ![Peer(x)] = OutputEnd(d, 1)]
    BY DEF ReadFrameHeader
  <2>2. DOMAIN engine = Sides
    BY DEF Base, Types
  <2> QED  BY <1>1, <2>1, <2>2
<1>5. g \in EngineSet /\ KeepsCredit(e, g)
  BY <1>1, <1>3, HandleFrameHeaderLemma
<1>6. Credited(e) => Credited(g)
  BY <1>1, <1>5, KeepsCredited
<1>7. Credited(d) => Credited(OutputEnd(d, 1))
  BY <1>1, <1>2, TakenCredited
<1> QED  BY <1>4, <1>6, <1>7, TwoCalls

\* A payload keeps the credit, unless it is complained about.
LEMMA ReadSomeConserved ==
  ASSUME Base, Conserved, NEW x \in Sides, ReadSome(x), Peaceful'
  PROVE  Conserved'
<1>1. PICK n \in 1 .. frame[x].len - payload_bytes_read[x],
           q \in IterationOrders(Woken(engine[x], frame[x])) : ReadPayload(x, n, q)
  BY DEF ReadSome
<1> PICK e : e = engine[x]
  OBVIOUS
<1> PICK f : f = frame[x]
  OBVIOUS
<1> PICK g : g = HandlePayloadChunk(e, f, n, q)
  OBVIOUS
<1>2. engine' = [engine EXCEPT ![x] = g] /\ f # NoFrame
  BY <1>1 DEF ReadPayload
<1>3. /\ f \in FrameSet /\ f.type \in {"data", "headers", "settings", "window_update"}
      /\ f.type \in {"data", "headers"} => f.stream \in Streams
  BY <1>2, FrameInHand
<1>4. e \in EngineSet /\ engine \in [Sides -> EngineSet] /\ n \in Nat
  <2>1. e \in EngineSet /\ engine \in [Sides -> EngineSet]
    BY BaseTypes DEF Base, Types
  <2>2. frame[x] \in FrameSet /\ payload_bytes_read[x] \in Nat
    BY BaseTypes
  <2>3. frame[x].len \in Nat
    BY <2>2 DEF FrameSet
  <2> QED  BY <2>1, <2>2, <2>3
<1>5. g \in EngineSet /\ (Credited(e) => Credited(g))
  <2>1. CASE f.type = "data"
    <3>1. g = ReceiveData(e, f, n)
      BY <2>1 DEF HandlePayloadChunk
    <3>2. g \in EngineSet /\ ((Credited(e) => Credited(g)) \/ Complains(e, g))
      BY <1>3, <1>4, <2>1, <3>1, ReceiveDataLemma
    <3>3. Blameless(g.event_queue)
      BY <1>2, <1>4, <3>2, OneEngine DEF Peaceful
    <3>4. ~Complains(e, g)
      <4>1. e.event_queue \in Seq(EventSet) /\ g.event_queue \in Seq(EventSet)
        BY <1>4, <3>2, MemberTypes
      <4> QED  BY <3>3, <4>1 DEF Complains, Blameless
    <3> QED  BY <3>2, <3>4
  <2>2. CASE f.type # "data"
    <3>1. g \in EngineSet /\ KeepsCredit(e, g)
      BY <1>1, <1>3, <1>4, <2>2, OtherPayloadLemma
    <3> QED  BY <1>4, <3>1, KeepsCredited
  <2> QED  BY <2>1, <2>2
<1> QED  BY <1>2, <1>5, OneCall

\* Every step keeps the credit, unless it is complained about.
LEMMA NextConserved ==
  ASSUME Base, Conserved, [Next]_vars, Peaceful'
  PROVE  Conserved'
<1>1. CASE Applications
  BY <1>1, SendHeadersConserved, SendBodyConserved, HandleEventConserved DEF Applications
<1>2. CASE Transport
  BY <1>2, ReadPrefaceConserved, ReadFrameHeaderConserved, ReadSomeConserved DEF Transport
<1>3. CASE UNCHANGED vars
  BY <1>3 DEF vars, Conserved
<1> QED  BY <1>1, <1>2, <1>3, OpenConserved DEF Next

\* No step undoes anything.
LEMMA NextProgress ==
  ASSUME Base, [Next]_vars
  PROVE  Progress
<1>1. CASE Open
  BY <1>1, OpenStep
<1>2. CASE Applications
  <2>1. ASSUME NEW x \in Sides, NEW s \in Streams, SendHeaders(x, s)
        PROVE  Progress
    <3> DEFINE out == <<Headers(s, BodyOf(x, s) = 0)>>
    <3>1. Sends(x, s, out, 0)
      BY <2>1, SendHeadersStep
    <3> HIDE DEF out
    <3> QED  BY <3>1 DEF Sends
  <2>2. ASSUME NEW x \in Sides, NEW s \in Streams, SendBody(x, s)
        PROVE  Progress
    BY <2>2, SendBodyStep DEF Sends
  <2>3. ASSUME NEW x \in Sides, HandleEvent(x)
        PROVE  Progress
    BY <2>3, HandleEventStep DEF Takes
  <2> QED  BY <1>2, <2>1, <2>2, <2>3 DEF Applications
<1>3. CASE Transport
  <2>1. ASSUME NEW z \in Sides, NEW out, Hears(z, out)
        PROVE  Progress
    BY <2>1, HearsFacts
  <2>2. CASE ReadPreface
    <3> DEFINE z == "server"
               out == Hello(engine[z])
    <3>1. z \in Sides /\ Hears(z, out)
      BY <2>2, ReadPrefaceStep, SidesFacts
    <3> HIDE DEF out, z
    <3> QED  BY <2>1, <3>1
  <2>3. ASSUME NEW x \in Sides, ReadFrameHeader(x)
        PROVE  Progress
    <3> PICK f : f = Head(OnWay(x))
      OBVIOUS
    <3>1. Hears(x, Answer(f))
      BY <2>3, ReadFrameHeaderStep DEF HearsHeader
    <3> QED  BY <2>1, <3>1
  <2>4. ASSUME NEW x \in Sides, ReadSome(x)
        PROVE  Progress
    <3>1. PICK n \in 1 .. frame[x].len - payload_bytes_read[x],
               q \in IterationOrders(Woken(engine[x], frame[x])) : ReadPayload(x, n, q)
      BY <2>4 DEF ReadSome
    <3> DEFINE f == frame[x]
    <3>2. \/ \E out : HearsData(x, f, n, out)
          \/ HearsHeaderBlock(x, f, n)
          \/ \E events : HearsSettings(x, f, n, events)
          \/ \E events : HearsCredit(x, f, n, events)
      BY <3>1, ReadPayloadStep
    <3> HIDE DEF f
    <3>3. \E out, events : Consumes(x, f, n, out, events)
      BY <3>2 DEF HearsData, HearsHeaderBlock, HearsSettings, HearsCredit
    <3> QED  BY <2>1, <3>3 DEF Consumes
  <2> QED  BY <1>3, <2>2, <2>3, <2>4 DEF Transport
<1>4. CASE UNCHANGED vars
  BY <1>4 DEF vars, Progress, Settled
<1> QED  BY <1>1, <1>2, <1>3, <1>4 DEF Next

\* Half of what each side sets as its window has room for a frame.  In the code
\* a frame has at most 16384 bytes, and half the default window has 32768.
HalfHoldsFrame(w) == MaxFrame <= w - w \div 2
HalvesHoldFrames == \A l \in LocalSizes : HalfHoldsFrame(l[1]) /\ HalfHoldsFrame(l[2])
Fitting == \A x \in Sides : HalfHoldsFrame(engine[x].initial_window_size)

\* The windows are as configured at the start.
LEMMA InitFitting ==
  ASSUME HalvesHoldFrames, Init
  PROVE  Fitting
<1>1. PICK sizes \in LocalSizes :
        /\ engine = [client |-> Configured("client", sizes[1]),
                     server |-> Configured("server", sizes[2])]
        /\ sizes[1] \in Nat /\ sizes[2] \in Nat
  BY InitEngines
<1> DEFINE c == Configured("client", sizes[1])
           d == Configured("server", sizes[2])
<1>2. c.initial_window_size = sizes[1] /\ d.initial_window_size = sizes[2]
  BY <1>1, SidesFacts, ConfiguredFacts
<1>3. engine["client"] = c /\ engine["server"] = d
  BY <1>1
<1>4. HalfHoldsFrame(sizes[1]) /\ HalfHoldsFrame(sizes[2])
  BY <1>1 DEF HalvesHoldFrames
<1> HIDE DEF c, d
<1>5. \A x \in Sides : x = "client" \/ x = "server"
  BY DEF Sides
<1> QED  BY <1>2, <1>3, <1>4, <1>5 DEF Fitting

\* No step changes what was configured.
LEMMA NextFitting ==
  ASSUME Base, Fitting, [Next]_vars
  PROVE  Fitting'
<1>1. \A x \in Sides : engine'[x].initial_window_size = engine[x].initial_window_size
  BY NextProgress DEF Progress, Settled
<1> QED  BY <1>1 DEF Fitting

\* A window of which less than half waits to be credited has room for a frame.
LEMMA HalfWindow ==
  ASSUME NEW i \in Nat, NEW m \in Nat, m <= i - i \div 2, NEW c \in Nat, NEW r \in Int, NEW w \in Int,
         c < Greatest(1, i \div 2), r + c = w, w >= i
  PROVE  m <= r
<1>1. PICK t \in Nat : t = i \div 2
  OBVIOUS
<1>2. m <= i - t /\ (c < 1 \/ c < t)
  BY <1>1 DEF Greatest
<1> QED  BY <1>1, <1>2

\* An engine that credits what it consumes has room for any frame.
LEMMA FrameFits ==
  ASSUME NEW e \in EngineSet, NEW s \in Streams, Credited(e),
         HalfHoldsFrame(e.initial_window_size), NEW n \in Nat, n <= MaxFrame
  PROVE  ~Overruns(e, s, n)
<1> PICK i \in Nat : i = e.initial_window_size
  BY MemberTypes
<1>1. MaxFrame \in Nat /\ MaxFrame <= i - i \div 2 /\ Threshold(e) = i \div 2
  BY MaxFrameAssumption DEF HalfHoldsFrame, Threshold
<1>2. MaxFrame <= e.connection_recv_window
  <2>1. PICK c \in Nat, r \in Int : c = e.connection_consumed /\ r = e.connection_recv_window
    BY MemberTypes
  <2>2. PICK w \in Int : w = Window + ConnectionBonus(e) /\ w >= i
    <3>1. Window \in Int /\ ConnectionBonus(e) = Greatest(i - Window, 0)
      BY WindowAssumption DEF ConnectionBonus
    <3> QED  BY <3>1 DEF Greatest
  <2>3. r + c = w /\ c < Greatest(1, i \div 2)
    BY <1>1, <2>1, <2>2 DEF Credited, ConnectionCredit
  <2>4. MaxFrame <= r
    BY <1>1, <2>2, <2>3, HalfWindow
  <2> QED  BY <2>1, <2>4
<1>3. MaxFrame <= StreamRecv(e, s)
  <2>1. CASE e.flow[s].tracked
    <3>1. PICK c \in Nat, r \in Int : c = e.flow[s].consumed_bytes /\ r = e.flow[s].recv_window
      BY FlowTypes
    <3>2. r + c = i /\ c < Greatest(1, i \div 2) /\ i \in Int /\ i >= i
      BY <1>1, <2>1, <3>1 DEF Credited, StreamCredit
    <3>3. MaxFrame <= r
      BY <1>1, <3>2, HalfWindow
    <3>4. StreamRecv(e, s) = r
      BY <2>1, <3>1, StreamEntryLemma DEF StreamRecv
    <3> QED  BY <3>3, <3>4
  <2>2. CASE ~e.flow[s].tracked
    <3>1. StreamRecv(e, s) = i
      BY <2>2, StreamEntryLemma DEF StreamRecv
    <3>2. i \div 2 \in Nat
      OBVIOUS
    <3> QED  BY <1>1, <3>1, <3>2
  <2> QED  BY <2>1, <2>2
<1>4. StreamRecv(e, s) \in Int /\ e.connection_recv_window \in Int
  BY MemberTypes, EngineNumbers
<1> QED  BY <1>1, <1>2, <1>3, <1>4 DEF Overruns

\* No engine is sent more DATA at once than it has room for.
LEMMA DataFits ==
  ASSUME Base, Conserved, Fitting, NEW z \in Sides, NEW f, NEW n, NEW out, HearsData(z, f, n, out)
  PROVE  ~Overruns(engine[z], f.stream, n)
<1> PICK h : h = Head(OnWay(z))
  OBVIOUS
<1> PICK events : events = DataEvents(engine[z], f, n)
  OBVIOUS
<1>1. f.type = "data" /\ f.stream \in Streams /\ Consumes(z, f, n, out, events)
  BY DEF HearsData
<1>2. h.type = "data" /\ n \in Nat /\ n <= h.len
  BY <1>1 DEF Consumes
<1>3. GoodFrame(z, h)
  BY <1>1, ConsumesFacts
<1>4. h.len \in 1 .. MaxFrame
  BY <1>2, <1>3 DEF GoodFrame
<1>5. n <= MaxFrame
  BY <1>2, <1>4, MaxFrameAssumption
<1>6. engine[z] \in EngineSet /\ Credited(engine[z])
      /\ HalfHoldsFrame(engine[z].initial_window_size)
  BY BaseTypes DEF Conserved, Fitting
<1> PICK e : e = engine[z]
  OBVIOUS
<1> QED  BY <1>1, <1>2, <1>5, <1>6, FrameFits

\* What is needed of the two engines together.
Accounted == Base /\ Fitting /\ Conserved /\ Peaceful

\* Every step keeps the accounts in order, so that nobody complains.
LEMMA NextAccounted ==
  ASSUME Accounted, [Next]_vars
  PROVE  Accounted'
<1>1. Base /\ Fitting /\ Conserved /\ Peaceful
  BY DEF Accounted
<1>2. Base' /\ Fitting'
  BY <1>1, NextBase, NextFitting
<1>3. \A z \in Sides : \A f, n, out : HearsData(z, f, n, out) => ~Overruns(engine[z], f.stream, n)
  BY <1>1, DataFits
<1>4. Peaceful'
  BY <1>1, <1>3, NextPeaceful
<1>5. Conserved'
  BY <1>1, <1>4, NextConserved
<1> QED  BY <1>2, <1>4, <1>5 DEF Accounted

\* Two engines that follow the protocol never accuse each other: if half of each
\* window has room for a frame, no application is ever told of a connection
\* error, whatever is sent, however it is cut and however it is read.
THEOREM NeverAccused ==
  ASSUME HalvesHoldFrames
  PROVE  Spec => []NoConnectionError
<1>1. Init => Accounted
  BY InitBase, InitFitting, InitConserved, InitPeaceful DEF Accounted
<1>2. Accounted /\ [Next]_vars => Accounted'
  BY NextAccounted
<1>3. Accounted => NoConnectionError
  BY DEF Accounted, Peaceful, Blameless, NoConnectionError
<1> QED  BY <1>1, <1>2, <1>3, PTL DEF Spec

----------------------------------------------------------------------------
(* Nobody is accused: the windows suffice.                                 *)

\* No side chose a window below the default.  With a smaller one an engine may
\* be sent more than it wants before its SETTINGS arrive.
LargeWindows == \A l \in LocalSizes : l[1] >= Window /\ l[2] >= Window

\* No send window of x is overdrawn.
Solvent(x) ==
  /\ engine[x].connection_send_window >= 0
  /\ engine[x].initial_window_size >= Window
  /\ engine[x].peer_initial_window_size \in {Window, engine[Peer(x)].initial_window_size}
  /\ \A s \in Streams : StreamSendWindow(engine[x], s) >= 0

\* The receive windows of x have room for all DATA on its way.
Roomy(x) == \A s \in Streams : StreamRecv(engine[x], s) >= DataIn(OnWay(x), s)

\* Every send window is covered by the receive window of the peer.
Enough ==
  \A x \in Sides : Solvent(x) /\ Roomy(x)

\* Enough holds at the start.
LEMMA InitEnough ==
  ASSUME LargeWindows, Init
  PROVE  Enough
<1> SUFFICES ASSUME NEW x \in Sides
             PROVE  Solvent(x) /\ Roomy(x)
  BY DEF Enough
<1>1. \A y \in Sides : engine[y].initial_window_size >= Window
  <2>1. PICK sizes \in LocalSizes :
          /\ engine = [client |-> Configured("client", sizes[1]),
                       server |-> Configured("server", sizes[2])]
          /\ sizes[1] \in Nat /\ sizes[2] \in Nat
    BY InitEngines
  <2>2. /\ Configured("client", sizes[1]).initial_window_size = sizes[1]
        /\ Configured("server", sizes[2]).initial_window_size = sizes[2]
    BY <2>1, SidesFacts, ConfiguredFacts
  <2>3. sizes[1] >= Window /\ sizes[2] >= Window
    BY DEF LargeWindows
  <2> DEFINE c == Configured("client", sizes[1])
             d == Configured("server", sizes[2])
  <2>4. /\ engine = [client |-> c, server |-> d] /\ c.initial_window_size >= Window
        /\ d.initial_window_size >= Window
    BY <2>1, <2>2, <2>3
  <2> HIDE DEF c, d
  <2> QED  BY <2>4 DEF Sides
<1>2. /\ engine[x] \in EngineSet /\ engine[x].event_queue = <<>>
      /\ engine[x].connection_send_window = Window
      /\ engine[x].peer_initial_window_size = Window
      /\ \A s \in Streams : /\ StreamSendWindow(engine[x], s) = Window
                            /\ StreamRecv(engine[x], s) = engine[x].initial_window_size
  BY InitFacts
<1>3. \A s \in Streams : DataIn(OnWay(x), s) = 0
  BY InitWay, DataInFacts
<1>4. Window \in Nat /\ engine[x].initial_window_size \in Nat
  BY <1>2, WindowAssumption, EngineNumbers
<1>5. Solvent(x)
  BY <1>1, <1>2, <1>4 DEF Solvent
<1>6. Roomy(x)
  BY <1>2, <1>3, <1>4 DEF Roomy
<1> QED  BY <1>5, <1>6

\* What a step of z has to show.
LEMMA EnoughKept ==
  ASSUME Base, Enough, Progress, NEW z \in Sides, NEW out, Appends(z, out),
         KeepsWindows(engine[Peer(z)], engine'[Peer(z)]),
         engine'[z].connection_send_window >= 0,
         engine'[z].peer_initial_window_size \in {Window, engine[Peer(z)].initial_window_size},
         \A s \in Streams : StreamSendWindow(engine'[z], s) >= 0,
         \A s \in Streams : StreamRecv(engine'[z], s) >= DataIn(OnWay(z)', s),
         \A s \in Streams :
           StreamRecv(engine[Peer(z)], s) >= DataIn(OnWay(Peer(z)), s) + DataIn(out, s)
  PROVE  Enough'
<1> DEFINE y == Peer(z)
<1>1. y \in Sides /\ Peer(y) = z /\ \A x \in Sides : x = z \/ x = y
  BY SidesFacts
<1>2. /\ engine'[z].initial_window_size = engine[z].initial_window_size
      /\ engine'[y].initial_window_size = engine[y].initial_window_size
  BY <1>1 DEF Progress, Settled
<1>3. Solvent(z) /\ Solvent(y) /\ Roomy(y)
  BY <1>1 DEF Enough
<1>4. /\ engine'[y].connection_send_window = engine[y].connection_send_window
      /\ engine'[y].peer_initial_window_size = engine[y].peer_initial_window_size
      /\ \A s \in Streams : /\ StreamSendWindow(engine'[y], s) = StreamSendWindow(engine[y], s)
                            /\ StreamRecv(engine'[y], s) = StreamRecv(engine[y], s)
  BY DEF KeepsWindows, SameCredit, SameFlows, SameFlow
<1>5. \A s \in Streams : DataIn(OnWay(y)', s) = DataIn(OnWay(y), s) + DataIn(out, s)
  BY WayGrowth
<1>6. Solvent(z)'
  BY <1>2, <1>3 DEF Solvent
<1>7. Solvent(y)'
  BY <1>1, <1>2, <1>3, <1>4 DEF Solvent
<1>8. Roomy(z)'
  BY DEF Roomy
<1>9. Roomy(y)'
  BY <1>4, <1>5 DEF Roomy
<1> HIDE DEF y
<1> QED  BY <1>1, <1>6, <1>7, <1>8, <1>9 DEF Enough

\* A step that moves no window, and neither brings nor takes DATA.
LEMMA QuietEnough ==
  ASSUME Base, Enough, Progress, NEW z \in Sides, NEW out, Appends(z, out),
         KeepsWindows(engine[Peer(z)], engine'[Peer(z)]),
         SameCredit(engine[z], engine'[z]), SameFlows(engine[z], engine'[z], Streams),
         \A s \in Streams : DataIn(OnWay(z)', s) = DataIn(OnWay(z), s) /\ DataIn(out, s) = 0
  PROVE  Enough'
<1>1. Solvent(z) /\ Roomy(z) /\ Roomy(Peer(z))
  BY SidesFacts DEF Enough
<1>2. /\ engine'[z].connection_send_window = engine[z].connection_send_window
      /\ engine'[z].peer_initial_window_size = engine[z].peer_initial_window_size
      /\ \A s \in Streams : /\ StreamSendWindow(engine'[z], s) = StreamSendWindow(engine[z], s)
                            /\ StreamRecv(engine'[z], s) = StreamRecv(engine[z], s)
  BY DEF SameCredit, SameFlows, SameFlow
<1>3. ASSUME NEW s \in Streams
      PROVE  StreamRecv(engine[Peer(z)], s) >= DataIn(OnWay(Peer(z)), s) + DataIn(out, s)
  <2>1. DataIn(OnWay(Peer(z)), s) \in Nat
    BY SidesFacts, WayNumbers DEF Counted
  <2> QED  BY <1>1, <2>1 DEF Roomy
<1>4. /\ engine'[z].connection_send_window >= 0
      /\ engine'[z].peer_initial_window_size \in {Window, engine[Peer(z)].initial_window_size}
      /\ \A s \in Streams : StreamSendWindow(engine'[z], s) >= 0
  BY <1>1, <1>2 DEF Solvent
<1>5. \A s \in Streams : StreamRecv(engine'[z], s) >= DataIn(OnWay(z)', s)
  BY <1>1, <1>2 DEF Roomy
<1> QED  BY <1>3, <1>4, <1>5, EnoughKept

\* Opening a stream keeps Enough.
LEMMA OpenEnough ==
  ASSUME Base, Enough, Open
  PROVE  Enough'
<1> DEFINE z == "client"
           e == engine[z]
           g == engine'[z]
           out == Greeting(e)
<1>1. /\ Calls(z, out) /\ Progress
      /\ SameCredit(e, g) /\ SameFlows(e, g, Streams)
  BY OpenStep
<1>2. z \in Sides
  BY SidesFacts
<1>3. \A t \in Streams : DataIn(out, t) = 0
  BY <1>2, GreetingGood
<1> HIDE DEF out, e, g, z
<1>4. /\ Appends(z, out) /\ OnWay(z)' = OnWay(z) /\ KeepsWindows(engine[Peer(z)], engine'[Peer(z)])
  BY <1>1, <1>2, CallLeaves DEF Calls
<1>5. \A s \in Streams : DataIn(OnWay(z)', s) = DataIn(OnWay(z), s) /\ DataIn(out, s) = 0
  BY <1>3, <1>4
<1> QED  BY <1>1, <1>2, <1>4, <1>5, QuietEnough DEF e, g

\* Draining an event keeps Enough.
LEMMA TakesEnough ==
  ASSUME Base, Enough, NEW z \in Sides, NEW v, Takes(z, v)
  PROVE  Enough'
<1> PICK out : out = <<>>
  OBVIOUS
<1>1. Calls(z, out) /\ Progress /\ KeepsWindows(engine[z], engine'[z])
  BY DEF Takes
<1>2. /\ Appends(z, out) /\ OnWay(z)' = OnWay(z) /\ KeepsWindows(engine[Peer(z)], engine'[Peer(z)])
  BY <1>1, CallLeaves DEF Calls
<1>3. \A s \in Streams : DataIn(OnWay(z)', s) = DataIn(OnWay(z), s) /\ DataIn(out, s) = 0
  BY <1>2, DataInFacts
<1>4. SameCredit(engine[z], engine'[z]) /\ SameFlows(engine[z], engine'[z], Streams)
  BY <1>1 DEF KeepsWindows
<1> QED  BY <1>1, <1>2, <1>3, <1>4, QuietEnough

\* Reading the preface keeps Enough.
LEMMA ReadPrefaceEnough ==
  ASSUME Base, Enough, ReadPreface
  PROVE  Enough'
<1> DEFINE z == "server"
           e == engine[z]
           g == engine'[z]
           out == Hello(e)
           w == OnWay(z)
<1>1. /\ Hears(z, out) /\ SameCredit(e, g) /\ SameFlows(e, g, Streams)
      /\ w # <<>> /\ Head(w).type = "preface" /\ OnWay(z)' = Tail(w)
  BY ReadPrefaceStep
<1>2. z \in Sides
  BY SidesFacts
<1>3. \A t \in Streams : DataIn(out, t) = 0
  BY <1>2, HelloGood
<1>4. w \in Seq(FrameSet)
  BY <1>2, BaseTypes
<1> HIDE DEF out, e, g, z, w
<1>5. /\ Appends(z, out) /\ Progress /\ KeepsWindows(engine[Peer(z)], engine'[Peer(z)])
  BY <1>1, <1>2, HearsFacts DEF Hears
<1>6. ASSUME NEW t \in Streams
      PROVE  DataIn(Tail(w), t) = DataIn(w, t)
  <2>1. DataOf(Head(w), t) = 0
    BY <1>1 DEF DataOf
  <2>2. Tail(w) \in Seq(FrameSet)
    BY <1>1, <1>4
  <2>3. DataIn(w, t) = DataOf(Head(w), t) + DataIn(Tail(w), t) /\ DataIn(Tail(w), t) \in Nat
    BY <1>1, <1>4, <2>2, DataInFacts
  <2> QED  BY <2>1, <2>3
<1>7. \A s \in Streams : DataIn(OnWay(z)', s) = DataIn(OnWay(z), s) /\ DataIn(out, s) = 0
  BY <1>1, <1>3, <1>6 DEF w
<1> QED  BY <1>1, <1>2, <1>5, <1>7, QuietEnough DEF e, g

\* Reading a frame header keeps Enough.
LEMMA HearsHeaderEnough ==
  ASSUME Base, Enough, NEW z \in Sides, NEW f, HearsHeader(z, f)
  PROVE  Enough'
<1> PICK out : out = Answer(f)
  OBVIOUS
<1>1. Hears(z, out) /\ KeepsWindows(engine[z], engine'[z])
  BY DEF HearsHeader
<1>2. /\ Appends(z, out) /\ Progress /\ KeepsWindows(engine[Peer(z)], engine'[Peer(z)])
  BY <1>1, HearsFacts DEF Hears
<1>3. \A s \in Streams : DataIn(OnWay(z)', s) = DataIn(OnWay(z), s) /\ DataIn(out, s) = 0
  BY HeaderCarries, AnswerGood
<1>4. SameCredit(engine[z], engine'[z]) /\ SameFlows(engine[z], engine'[z], Streams)
  BY <1>1 DEF KeepsWindows
<1> QED  BY <1>1, <1>2, <1>3, <1>4, QuietEnough

\* What an engine may send fits into the window of its peer.
LEMMA SendFits ==
  \A r \in Int, s \in Int, d \in Nat, c \in Nat, i \in Nat, p \in Nat, w \in Nat, n \in Nat :
    /\ r = s + d + c + i - p
    /\ p \in {w, i} /\ i >= w /\ s >= 0 /\ (n > 0 => n <= s)
    => r >= d + n
OBVIOUS

\* Sending on a stream keeps Enough.
LEMMA SendsEnough ==
  ASSUME Base, Windows, Enough, NEW z \in Sides, NEW s \in Streams, NEW out, NEW n,
         Sends(z, s, out, n)
  PROVE  Enough'
<1> DEFINE e == engine[z]
           g == engine'[z]
           y == Peer(z)
<1>1. /\ Calls(z, out) /\ Progress /\ n \in Nat
      /\ g.connection_send_window = e.connection_send_window - n
      /\ g.peer_initial_window_size = e.peer_initial_window_size
      /\ SameFlows(e, g, Streams \ {s})
      /\ StreamSendWindow(g, s) = StreamSendWindow(e, s) - n
      /\ StreamRecv(g, s) = StreamRecv(e, s)
      /\ n > 0 => n <= e.connection_send_window /\ n <= StreamSendWindow(e, s)
      /\ phase[z][s] \in {"open", "sending"}
      /\ \A t \in Streams \union {0} : DataIn(out, t) = IF t \in {0, s} THEN n ELSE 0
  BY DEF Sends
<1>2. /\ Appends(z, out) /\ OnWay(z)' = OnWay(z) /\ KeepsWindows(engine[y], engine'[y])
      /\ e \in EngineSet
  BY <1>1, CallLeaves DEF Calls
<1>3. y \in Sides /\ Peer(y) = z /\ engine[y] \in EngineSet
  BY SidesFacts, BaseTypes
<1>4. Solvent(z) /\ Roomy(z) /\ Solvent(y) /\ Roomy(y)
  BY <1>3 DEF Enough
<1> HIDE DEF e, g, y
<1>5. /\ e.connection_send_window \in Int /\ e.peer_initial_window_size \in Nat
      /\ engine[y].initial_window_size \in Nat /\ Window \in Nat
      /\ \A t \in Streams : StreamRecv(e, t) \in Int /\ StreamSendWindow(e, t) \in Int
      /\ \A t \in Streams : StreamRecv(engine[y], t) \in Int
  BY <1>2, <1>3, EngineNumbers, WindowAssumption
<1>6. /\ e.connection_send_window >= 0
      /\ e.peer_initial_window_size \in {Window, engine[y].initial_window_size}
      /\ \A t \in Streams : StreamSendWindow(e, t) >= 0
      /\ engine[y].initial_window_size >= Window
      /\ \A t \in Streams : StreamRecv(e, t) >= DataIn(OnWay(z), t)
      /\ \A t \in Streams : StreamRecv(engine[y], t) >= DataIn(OnWay(y), t)
  BY <1>4 DEF Solvent, Roomy, e, y
<1>7. g.connection_send_window >= 0
  BY <1>1, <1>5, <1>6
<1>8. ASSUME NEW t \in Streams
      PROVE  /\ StreamSendWindow(g, t) >= 0
             /\ StreamRecv(g, t) = StreamRecv(e, t)
  <2>1. CASE t = s
    BY <1>1, <1>5, <1>6, <2>1
  <2>2. CASE t # s
    <3>1. SameFlow(e, g, t)
      BY <1>1, <2>2 DEF SameFlows
    <3> QED  BY <1>6, <3>1 DEF SameFlow
  <2> QED  BY <2>1, <2>2
<1>9. ASSUME NEW t \in Streams
      PROVE  StreamRecv(engine[y], t) >= DataIn(OnWay(y), t) + DataIn(out, t)
  <2>1. DataIn(OnWay(y), t) \in Nat /\ CreditIn(OnWay(z), t) \in Nat /\ t # 0
    BY <1>3, WayNumbers, StreamsAssumption DEF Counted
  <2>2. CASE t = s
    <3>1. StreamWindowsAgree(y, s)
      BY <1>3 DEF Windows, WindowsAgree
    <3>2. StreamRecv(engine[y], s) =
            StreamSendWindow(e, s) + DataIn(OnWay(y), s) + CreditIn(OnWay(z), s)
              + engine[y].initial_window_size - e.peer_initial_window_size
      BY <1>1, <1>3, <3>1, StreamWindowsAre DEF e
    <3>3. StreamRecv(engine[y], s) >= DataIn(OnWay(y), s) + n
      BY <1>1, <1>5, <1>6, <2>1, <2>2, <3>2, SendFits
    <3> QED  BY <1>1, <2>2, <3>3
  <2>3. CASE t # s
    <3>1. DataIn(out, t) = 0
      BY <1>1, <2>1, <2>3
    <3> QED  BY <1>6, <2>1, <3>1
  <2> QED  BY <2>2, <2>3
<1>10. \A t \in Streams : StreamRecv(g, t) >= DataIn(OnWay(z)', t)
  BY <1>2, <1>6, <1>8
<1> QED  BY <1>1, <1>2, <1>6, <1>7, <1>8, <1>9, <1>10, EnoughKept DEF e, g, y

\* Reading a header block keeps Enough.
LEMMA HearsHeaderBlockEnough ==
  ASSUME Base, Enough, NEW z \in Sides, NEW f, NEW n, HearsHeaderBlock(z, f, n)
  PROVE  Enough'
<1> PICK events : events = HeaderEvents(engine[z], f)
  OBVIOUS
<1> PICK out : out = <<>>
  OBVIOUS
<1>1. f.type = "headers" /\ Consumes(z, f, n, out, events) /\ KeepsWindows(engine[z], engine'[z])
  BY DEF HearsHeaderBlock
<1>2. /\ Appends(z, out) /\ Progress /\ KeepsWindows(engine[Peer(z)], engine'[Peer(z)])
      /\ \A t \in Streams \union {0} : DataIn(OnWay(z), t) = DataIn(OnWay(z)', t) + Among(f, n, t)
      /\ \A t \in Streams \union {0} : DataIn(OnWay(z)', t) \in Nat
  BY <1>1, ConsumesMoves
<1>3. \A t \in Streams \union {0} : Among(f, n, t) = 0
  BY <1>1 DEF Among
<1>4. \A t \in Streams : DataIn(OnWay(z)', t) = DataIn(OnWay(z), t) /\ DataIn(out, t) = 0
  BY <1>2, <1>3, DataInFacts
<1>5. SameCredit(engine[z], engine'[z]) /\ SameFlows(engine[z], engine'[z], Streams)
  BY <1>1 DEF KeepsWindows
<1> QED  BY <1>2, <1>4, <1>5, QuietEnough

\* A WINDOW_UPDATE or SETTINGS: the send windows do not fall below 0.
LEMMA WakingEnough ==
  ASSUME Base, Enough, NEW z \in Sides, NEW f, NEW n, NEW events,
         Consumes(z, f, n, <<>>, events), f.type # "data",
         engine'[z].connection_send_window >= 0,
         engine'[z].peer_initial_window_size \in {Window, engine[Peer(z)].initial_window_size},
         \A t \in Streams : StreamSendWindow(engine'[z], t) >= 0,
         \A t \in Streams : StreamRecv(engine'[z], t) = StreamRecv(engine[z], t)
  PROVE  Enough'
<1> PICK out : out = <<>>
  OBVIOUS
<1>1. Consumes(z, f, n, out, events)
  OBVIOUS
<1>2. /\ Appends(z, out) /\ Progress /\ KeepsWindows(engine[Peer(z)], engine'[Peer(z)])
      /\ \A t \in Streams \union {0} : DataIn(OnWay(z), t) = DataIn(OnWay(z)', t) + Among(f, n, t)
      /\ \A t \in Streams \union {0} : DataIn(OnWay(z)', t) \in Nat
  BY <1>1, ConsumesMoves
<1>3. \A t \in Streams \union {0} : Among(f, n, t) = 0
  BY DEF Among
<1>4. Roomy(z) /\ Roomy(Peer(z))
  BY SidesFacts DEF Enough
<1>5. \A t \in Streams : StreamRecv(engine'[z], t) >= DataIn(OnWay(z)', t)
  BY <1>2, <1>3, <1>4 DEF Roomy
<1>6. ASSUME NEW t \in Streams
      PROVE  StreamRecv(engine[Peer(z)], t) >= DataIn(OnWay(Peer(z)), t) + DataIn(out, t)
  <2>1. DataIn(OnWay(Peer(z)), t) \in Nat /\ DataIn(out, t) = 0
    BY SidesFacts, WayNumbers, DataInFacts DEF Counted
  <2> QED  BY <1>4, <2>1 DEF Roomy
<1> QED  BY <1>2, <1>5, <1>6, EnoughKept

\* Reading SETTINGS keeps Enough.
LEMMA HearsSettingsEnough ==
  ASSUME Base, Enough, NEW z \in Sides, NEW f, NEW n, NEW events, HearsSettings(z, f, n, events)
  PROVE  Enough'
<1> DEFINE e == engine[z]
           g == engine'[z]
           h == Head(OnWay(z))
           y == Peer(z)
<1>1. /\ f.type = "settings" /\ Consumes(z, f, n, <<>>, events)
      /\ g.connection_send_window = e.connection_send_window
      /\ g.peer_initial_window_size = f.val
      /\ \A t \in Streams :
           /\ StreamSendWindow(g, t) = StreamSendWindow(e, t) + (f.val - e.peer_initial_window_size)
           /\ StreamRecv(g, t) = StreamRecv(e, t)
  BY DEF HearsSettings
<1>2. h.type = f.type /\ h.val = f.val
  BY <1>1 DEF Consumes
<1>3. f.val = engine[y].initial_window_size
  <2>1. GoodFrame(z, h)
    BY <1>1, ConsumesFacts
  <2> QED  BY <1>1, <1>2, <2>1 DEF GoodFrame
<1>4. Solvent(z) /\ Solvent(y) /\ e \in EngineSet /\ engine[y] \in EngineSet
  BY SidesFacts, BaseTypes DEF Enough
<1> HIDE DEF e, g, h, y
<1>5. /\ e.connection_send_window >= 0
      /\ e.peer_initial_window_size \in {Window, engine[y].initial_window_size}
      /\ \A t \in Streams : StreamSendWindow(e, t) >= 0
      /\ engine[y].initial_window_size >= Window
  BY <1>4 DEF Solvent, e, y
<1>6. /\ e.peer_initial_window_size \in Nat /\ Window \in Nat
      /\ engine[y].initial_window_size \in Nat
      /\ \A t \in Streams : StreamSendWindow(e, t) \in Int
  BY <1>4, EngineNumbers, WindowAssumption
<1>7. \A t \in Streams : StreamSendWindow(g, t) >= 0
  BY <1>1, <1>3, <1>5, <1>6
<1> QED  BY <1>1, <1>3, <1>5, <1>7, WakingEnough DEF e, g, y

\* Reading a WINDOW_UPDATE keeps Enough.
LEMMA HearsCreditEnough ==
  ASSUME Base, Enough, NEW z \in Sides, NEW f, NEW n, NEW events, HearsCredit(z, f, n, events)
  PROVE  Enough'
<1> DEFINE e == engine[z]
           g == engine'[z]
<1>1. /\ f.type = "window_update" /\ Consumes(z, f, n, <<>>, events)
      /\ g.connection_send_window = e.connection_send_window + CreditOf(f, 0)
      /\ g.peer_initial_window_size = e.peer_initial_window_size
      /\ \A t \in Streams :
           /\ StreamSendWindow(g, t) = StreamSendWindow(e, t) + CreditOf(f, t)
           /\ StreamRecv(g, t) = StreamRecv(e, t)
  BY DEF HearsCredit
<1>2. f \in FrameSet
  BY <1>1 DEF Consumes
<1>3. \A t \in Streams \union {0} : CreditOf(f, t) \in Nat
  BY <1>2 DEF CreditOf, FrameSet
<1>4. Solvent(z) /\ e \in EngineSet
  BY BaseTypes DEF Enough
<1>5. /\ e.connection_send_window >= 0
      /\ e.peer_initial_window_size \in {Window, engine[Peer(z)].initial_window_size}
      /\ \A t \in Streams : StreamSendWindow(e, t) >= 0
  BY <1>4 DEF Solvent
<1> HIDE DEF e, g
<1>6. e.connection_send_window \in Int /\ \A t \in Streams : StreamSendWindow(e, t) \in Int
  BY <1>4, EngineNumbers
<1>7. g.connection_send_window >= 0
  BY <1>1, <1>3, <1>5, <1>6
<1>8. \A t \in Streams : StreamSendWindow(g, t) >= 0
  BY <1>1, <1>3, <1>5, <1>6
<1> QED  BY <1>1, <1>5, <1>7, <1>8, WakingEnough DEF e, g

\* An engine never has to complain of what it is sent.
LEMMA NoComplaint ==
  ASSUME Base, Windows, Enough, NEW z \in Sides, NEW f, NEW n, NEW out, HearsData(z, f, n, out)
  PROVE  ~Overruns(engine[z], f.stream, n)
<1> DEFINE e == engine[z]
           s == f.stream
           y == Peer(z)
<1> PICK events : events = DataEvents(e, f, n)
  OBVIOUS
<1>1. f.type = "data" /\ s \in Streams /\ Consumes(z, f, n, out, events)
  BY DEF HearsData
<1>2. /\ e \in EngineSet /\ n \in Nat
      /\ \A t \in Streams \union {0} :
           /\ DataIn(OnWay(z), t) = DataIn(OnWay(z)', t) + Among(f, n, t)
           /\ DataIn(OnWay(z)', t) \in Nat
  BY <1>1, ConsumesMoves
<1>3. Among(f, n, 0) = n /\ Among(f, n, s) = n
  BY <1>1 DEF Among
<1>4. y \in Sides /\ Peer(y) = z /\ engine[y] \in EngineSet
  BY SidesFacts, BaseTypes
<1>5. Solvent(y) /\ Roomy(z) /\ ConnectionWindowsAgree(z)
  BY <1>4 DEF Enough, Windows, WindowsAgree
<1>6. e.connection_recv_window =
        engine[y].connection_send_window + DataIn(OnWay(z), 0) + CreditIn(OnWay(y), 0) + Promised(e)
  BY <1>5, ConnectionWindowsAre
<1>7. engine[y].connection_send_window >= 0 /\ StreamRecv(e, s) >= DataIn(OnWay(z), s)
  BY <1>1, <1>5 DEF Solvent, Roomy
<1>8. CreditIn(OnWay(y), 0) \in Nat
  BY <1>4, WayNumbers DEF Counted
<1> HIDE DEF e, s, y
<1>9. /\ engine[y].connection_send_window \in Int /\ Promised(e) \in Nat
      /\ StreamRecv(e, s) \in Int
  BY <1>1, <1>2, <1>4, EngineNumbers
<1>10. e.connection_recv_window >= n /\ StreamRecv(e, s) >= n
  BY <1>1, <1>2, <1>3, <1>6, <1>7, <1>8, <1>9
<1>11. e.connection_recv_window \in Int
  BY <1>2, EngineNumbers
<1>12. ~Overruns(e, s, n)
  BY <1>2, <1>9, <1>10, <1>11 DEF Overruns
<1> QED  BY <1>12 DEF e, s

\* A stream is never granted more than its initial window.
LEMMA WindowAtMostInitial ==
  ASSUME NEW e \in EngineSet, Credited(e), NEW s \in Streams
  PROVE  e.initial_window_size >= StreamRecv(e, s)
<1>1. e.initial_window_size \in Nat
  BY MemberTypes
<1>2. CASE e.flow[s].tracked
  <2>1. PICK c \in Nat, r \in Int : c = e.flow[s].consumed_bytes /\ r = e.flow[s].recv_window
    BY FlowTypes
  <2>2. r + c = e.initial_window_size
    BY <1>2, <2>1 DEF Credited, StreamCredit
  <2>3. StreamRecv(e, s) = r
    BY <1>2, <2>1, StreamEntryLemma DEF StreamRecv
  <2> QED  BY <1>1, <2>1, <2>2, <2>3
<1>3. CASE ~e.flow[s].tracked
  BY <1>1, <1>3, StreamEntryLemma DEF StreamRecv
<1> QED  BY <1>2, <1>3

\* Reading DATA keeps Enough.
LEMMA HearsDataEnough ==
  ASSUME Base, Enough, Conserved, NEW z \in Sides, NEW f, NEW n, NEW out, HearsData(z, f, n, out)
  PROVE  Enough'
<1> DEFINE e == engine[z]
           g == engine'[z]
           s == f.stream
<1> PICK events : events = DataEvents(e, f, n)
  OBVIOUS
<1>1. f.type = "data" /\ s \in Streams /\ out \in Seq(Grants(s)) /\ Consumes(z, f, n, out, events)
  BY DEF HearsData
<1>2. /\ f \in FrameSet /\ n \in Nat \ {0} /\ f.end \in BOOLEAN /\ g.event_queue = events
      /\ Hears(z, out)
  BY <1>1 DEF Consumes, FrameSet
<1>3. /\ g.connection_send_window = e.connection_send_window
      /\ g.peer_initial_window_size = e.peer_initial_window_size
      /\ SameFlows(e, g, Streams \ {s})
  BY DEF HearsData
<1>4. f.end => Forgotten(e, g, s)
  BY DEF HearsData
<1>5. ~f.end => /\ StreamSendWindow(g, s) = StreamSendWindow(e, s)
                /\ StreamRecv(g, s) = StreamRecv(e, s) + (CreditIn(out, s) - n)
  BY DEF HearsData
<1>6. /\ Appends(z, out) /\ Progress /\ KeepsWindows(engine[Peer(z)], engine'[Peer(z)])
      /\ e \in EngineSet
      /\ \A t \in Streams \union {0} :
           /\ DataIn(OnWay(z), t) = DataIn(OnWay(z)', t) + Among(f, n, t)
           /\ DataIn(OnWay(z)', t) \in Nat
  BY <1>1, <1>2, ConsumesMoves DEF Hears
<1>7. Solvent(z) /\ Roomy(z) /\ Roomy(Peer(z))
  BY SidesFacts DEF Enough
<1>8. e.initial_window_size >= StreamRecv(e, s)
  <2>1. Credited(e) /\ e \in EngineSet
    BY <1>6 DEF Conserved
  <2> QED  BY <1>1, <2>1, WindowAtMostInitial
<1>10. \A t \in Streams \union {0} : CreditIn(out, t) \in Nat /\ DataIn(out, t) = 0
  BY <1>1, <1>6, WayGrowth, GrantsCarry
<1>11. /\ e.connection_send_window >= 0
       /\ e.peer_initial_window_size \in {Window, engine[Peer(z)].initial_window_size}
       /\ \A t \in Streams : StreamSendWindow(e, t) >= 0
       /\ \A t \in Streams : StreamRecv(e, t) >= DataIn(OnWay(z), t)
  BY <1>7 DEF Solvent, Roomy
<1> HIDE DEF e, g, s
<1>12. /\ e.peer_initial_window_size \in Nat /\ e.initial_window_size \in Nat
       /\ \A t \in Streams : StreamRecv(e, t) \in Int
  BY <1>6, EngineNumbers
<1>13. ASSUME NEW t \in Streams
       PROVE  StreamSendWindow(g, t) >= 0 /\ StreamRecv(g, t) >= DataIn(OnWay(z)', t)
  <2>1. CASE t = s /\ f.end
    <3>1. /\ DataIn(OnWay(z), s) = DataIn(OnWay(z)', s) + Among(f, n, s)
          /\ DataIn(OnWay(z)', s) \in Nat /\ StreamRecv(e, s) >= DataIn(OnWay(z), s)
      BY <1>1, <1>6, <1>11
    <3>2. Among(f, n, s) \in Nat
      BY <1>2 DEF Among
    <3>3. StreamRecv(e, s) \in Int
      BY <1>1, <1>12
    <3>4. e.initial_window_size >= DataIn(OnWay(z)', s)
      BY <1>8, <1>12, <3>1, <3>2, <3>3
    <3> QED  BY <1>4, <1>12, <2>1, <3>4 DEF Forgotten
  <2>2. CASE t = s /\ ~f.end
    <3>1. Among(f, n, s) = n
      BY <1>1 DEF Among, s
    <3>2. /\ DataIn(OnWay(z), s) = DataIn(OnWay(z)', s) + n /\ DataIn(OnWay(z)', s) \in Nat
          /\ StreamRecv(e, s) >= DataIn(OnWay(z), s) /\ StreamRecv(e, s) \in Int
          /\ CreditIn(out, s) \in Nat
      BY <1>1, <1>6, <1>10, <1>11, <1>12, <3>1
    <3>3. StreamRecv(g, s) >= DataIn(OnWay(z)', s)
      BY <1>2, <1>5, <2>2, <3>2
    <3> QED  BY <1>5, <1>11, <2>2, <3>3
  <2>3. CASE t # s
    <3>1. SameFlow(e, g, t)
      BY <1>3, <2>3 DEF SameFlows
    <3>2. t # 0
      BY StreamsAssumption
    <3>3. Among(f, n, t) = 0
      BY <2>3, <3>2 DEF Among, s
    <3>4. DataIn(OnWay(z), t) = DataIn(OnWay(z)', t)
      BY <1>6, <3>3
    <3> QED  BY <1>11, <3>1, <3>4 DEF SameFlow
  <2> QED  BY <2>1, <2>2, <2>3
<1>14. ASSUME NEW t \in Streams
       PROVE  StreamRecv(engine[Peer(z)], t) >= DataIn(OnWay(Peer(z)), t) + DataIn(out, t)
  <2>1. DataIn(OnWay(Peer(z)), t) \in Nat /\ DataIn(out, t) = 0
    BY <1>10, SidesFacts, WayNumbers DEF Counted
  <2> QED  BY <1>7, <2>1 DEF Roomy
<1> QED  BY <1>3, <1>6, <1>11, <1>13, <1>14, EnoughKept DEF e, g

\* Reading part of a payload keeps Enough.
LEMMA ReadSomeEnough ==
  ASSUME Base, Enough, Conserved, NEW z \in Sides, ReadSome(z)
  PROVE  Enough'
<1>1. PICK n \in 1 .. frame[z].len - payload_bytes_read[z],
           q \in IterationOrders(Woken(engine[z], frame[z])) : ReadPayload(z, n, q)
  BY DEF ReadSome
<1> DEFINE f == frame[z]
<1>2. \/ \E out : HearsData(z, f, n, out)
      \/ HearsHeaderBlock(z, f, n)
      \/ \E events : HearsSettings(z, f, n, events)
      \/ \E events : HearsCredit(z, f, n, events)
  BY <1>1, ReadPayloadStep
<1> HIDE DEF f
<1> QED  BY <1>2, HearsDataEnough, HearsHeaderBlockEnough, HearsSettingsEnough, HearsCreditEnough

\* Every step keeps Enough.
LEMMA NextEnough ==
  ASSUME Base, Windows, Enough, Conserved, [Next]_vars
  PROVE  Enough'
<1>1. CASE Open
  BY <1>1, OpenEnough
<1>2. CASE Applications
  <2>1. ASSUME NEW x \in Sides, NEW s \in Streams, SendHeaders(x, s)
        PROVE  Enough'
    <3> DEFINE out == <<Headers(s, BodyOf(x, s) = 0)>>
    <3>1. Sends(x, s, out, 0)
      BY <2>1, SendHeadersStep
    <3> HIDE DEF out
    <3> QED  BY <3>1, SendsEnough
  <2>2. ASSUME NEW x \in Sides, NEW s \in Streams, SendBody(x, s)
        PROVE  Enough'
    BY <2>2, SendBodyStep, SendsEnough
  <2>3. ASSUME NEW x \in Sides, HandleEvent(x)
        PROVE  Enough'
    BY <2>3, HandleEventStep, TakesEnough
  <2> QED  BY <1>2, <2>1, <2>2, <2>3 DEF Applications
<1>3. CASE Transport
  <2>1. ASSUME NEW x \in Sides, ReadFrameHeader(x)
        PROVE  Enough'
    BY <2>1, ReadFrameHeaderStep, HearsHeaderEnough
  <2> QED  BY <1>3, <2>1, ReadPrefaceEnough, ReadSomeEnough DEF Transport
<1>4. CASE UNCHANGED vars
  <2>1. engine' = engine
    BY <1>4 DEF vars
  <2>2. \A x \in Sides : OnWay(x)' = OnWay(x)
    BY <1>4 DEF vars, OnWay, Incoming
  <2> QED  BY <2>1, <2>2 DEF Enough, Solvent, Roomy
<1> QED  BY <1>1, <1>2, <1>3, <1>4 DEF Next

\* What the windows need.
Covered == Base /\ Windows /\ Enough /\ Conserved /\ Peaceful

\* Every step keeps the windows covered, so that nobody complains.
LEMMA NextCovered ==
  ASSUME HalfDuplex, Covered, [Next]_vars
  PROVE  Covered'
<1>1. Base /\ Windows /\ Enough /\ Conserved /\ Peaceful
  BY DEF Covered
<1>2. Base' /\ Windows' /\ Enough'
  BY <1>1, NextBase, NextWindows, NextEnough
<1>3. \A z \in Sides : \A f, n, out : HearsData(z, f, n, out) => ~Overruns(engine[z], f.stream, n)
  BY <1>1, NoComplaint
<1>4. Peaceful'
  BY <1>1, <1>3, NextPeaceful
<1>5. Conserved'
  BY <1>1, <1>4, NextConserved
<1> QED  BY <1>2, <1>4, <1>5 DEF Covered

\* The windows protect the receiver for every size of a frame as well: if no
\* exchange has a body in both directions and no window is below the default, a
\* sender that obeys its send windows is never accused.
THEOREM ObedientSendersAreSafe ==
  ASSUME HalfDuplex, LargeWindows
  PROVE  Spec => []NoConnectionError
<1>1. Init => Covered
  BY InitBase, InitWindows, InitEnough, InitConserved, InitPeaceful DEF Covered
<1>2. Covered /\ [Next]_vars => Covered'
  BY NextCovered
<1>3. Covered => NoConnectionError
  BY DEF Covered, Peaceful, Blameless, NoConnectionError
<1> QED  BY <1>1, <1>2, <1>3, PTL DEF Spec
=============================================================================
